-------------------------- MODULE MobileSyncProofs --------------------------
(***************************************************************************)
(* What holds of a phone, its queue and its synchronisation, for any       *)
(* entities, contents, page size and bounds on edits, losses and other     *)
(* devices, with merged edits, refusals and choices of the author.         *)
(*                                                                         *)
(*   TypeInv, IdInv      types; which ids the log and the conflicts have,  *)
(*                       so every step of the phone is one of the store;   *)
(*   QueueInv, ShownInv  one row of each mutation, what the Gateway said   *)
(*                       of the one being pushed, which conflicts are      *)
(*                       shown;                                            *)
(*   OrderInv            what is still to be written comes after what the  *)
(*                       phone has in the log, and the loop pushes the     *)
(*                       first of it;                                      *)
(*   ContentInv          where each mutation is, and with what content;    *)
(*   ServedInv, PullInv  which mutation of the queue the Gateway has       *)
(*                       served, and that the cursor and its page are      *)
(*                       before what the queue has in the log;             *)
(*   SettledInv          which conflicts the phone closes;                 *)
(*   LatestInv           which changes of the log the phone's rows show;   *)
(*   PushInv, BaseInv    that only the first of the queue was ever sent,   *)
(*                       and which revision each mutation of it is based   *)
(*                       on;                                               *)
(*   FineInv             that no revision a row or a mutation has is       *)
(*                       behind the phone's own changes alone;             *)
(*   AheadInv            what is queued for the rows the author edited.    *)
(***************************************************************************)
EXTENDS MobileSync, SyncStoreProofs, SequenceTheorems, FiniteSetTheorems

(* What the Gateway's answer holds while the loop has yet to use it.       *)
WireTyped ==
    /\ pc = "answered" => wire.rev \in Revisions
    /\ pc = "refreshed" => wire.states \in [Keys -> State]
    /\ pc = "pulled" => wire.rows \subseteq changes /\ wire.next \in Revisions

(* A row of the queue, whatever its number.                                *)
QueuedRow == [id : {PhoneId(n) : n \in Nat}, key : Keys, base : Revisions,
              value : Contents, state : {"pending", "sending", "conflict"},
              sent : BOOLEAN, sealed : BOOLEAN]

TypeInv ==
    /\ StoreIInv
    /\ replica \in [Keys -> PhoneRow]
    /\ outbox \subseteq QueuedRow
    /\ current \subseteq QueuedRow
    /\ cursor \in Revisions
    /\ receipts \in BOOLEAN
    /\ pc \in Phases
    /\ made \in Seq([key : Keys, value : Contents])
    /\ others \in [writes : Nat, rivals : Nat]
    /\ WireTyped

----------------------------------------------------------------------------
(* The ids of the log and the conflicts.                                   *)

(* The n-th mutation of the phone is the only one with its id, and no id   *)
(* of another device or of a resolution is one of the phone's.             *)
LEMMA PhoneIds ==
    ASSUME NEW i, NEW j
    PROVE  /\ PhoneId(i) = PhoneId(j) => i = j
           /\ PhoneId(i)[1] = "phone" /\ PhoneId(i)[2] = i
           /\ <<"other", j>>[1] = "other" /\ <<"other", j>>[2] = j
           /\ <<"rival", j>>[1] = "rival" /\ <<"rival", j>>[2] = j
           /\ <<"resolve", j>>[1] = "resolve" /\ <<"resolve", j>>[2] = j
  BY DEF PhoneId

(* Changes come from the phone, from another device, or from the author's  *)
(* choice of a conflict, which is closed by it.                            *)
LoggedIds ==
    \A c \in changes :
       \/ \E n \in 1 .. Len(made) : c.id = PhoneId(n)
       \/ \E n \in 1 .. others.writes : c.id = <<"other", n>>
       \/ \E d \in conflicts : c.id = <<"resolve", d.id>> /\ d.verdict # "open"

DisputedIds ==
    \A c \in conflicts :
       \/ \E n \in 1 .. Len(made) : c.id = PhoneId(n)
       \/ \E n \in 1 .. others.rivals : c.id = <<"rival", n>>

(* A row of the queue, or of the sync store, is the n-th mutation.         *)
Stems(r, n) == n \in 1 .. Len(made) /\ r.id = PhoneId(n) /\ r.key = made[n].key

RowsStem ==
    /\ \A m \in outbox \cup current : \E n \in Nat : Stems(m, n)
    /\ \A c \in changes \cup conflicts, n \in Nat :
          c.id = PhoneId(n) => Stems(c, n)

IdInv == LoggedIds /\ DisputedIds /\ RowsStem

(* An id another device, or a resolution, is about to use is new.          *)
LEMMA OthersAreFresh ==
    ASSUME TypeInv, IdInv
    PROVE  /\ Fresh(<<"other", others.writes + 1>>)
           /\ Fresh(<<"rival", others.rivals + 1>>)
           /\ \A c \in conflicts : c.verdict = "open" => Fresh(<<"resolve", c.id>>)
  <1>0. others.writes \in Nat /\ others.rivals \in Nat
    BY DEF TypeInv
  <1>1. ASSUME NEW c \in changes
        PROVE  c.id # <<"other", others.writes + 1>> /\ c.id # <<"rival", others.rivals + 1>>
    BY <1>0, <1>1, PhoneIds DEF IdInv, LoggedIds
  <1>2. ASSUME NEW c \in conflicts
        PROVE  c.id # <<"other", others.writes + 1>> /\ c.id # <<"rival", others.rivals + 1>>
    BY <1>0, <1>2, PhoneIds DEF IdInv, DisputedIds
  <1>3. ASSUME NEW c \in conflicts, c.verdict = "open", NEW d \in changes
        PROVE  d.id # <<"resolve", c.id>>
    <2>1. \A e \in conflicts : e.id = c.id => e = c
      BY DEF TypeInv, StoreIInv, StoreInv, MutationOnce
    <2> QED BY <1>3, <2>1, PhoneIds DEF IdInv, LoggedIds
  <1>4. ASSUME NEW c \in conflicts, NEW d \in conflicts
        PROVE  d.id # <<"resolve", c.id>>
    BY <1>4, PhoneIds DEF IdInv, DisputedIds
  <1> QED BY <1>1, <1>2, <1>3, <1>4 DEF Fresh, Logged, Disputed

----------------------------------------------------------------------------
(* The phone and the other devices implement the store.                    *)

(* One change at the next revision is a transaction of the store.          *)
LEMMA WriteAppends ==
    ASSUME StoreIInv, NEW id, NEW k \in Keys, NEW v \in Contents,
           Fresh(id), Write(id, k, entity[k].rev, v)
    PROVE  /\ AppendChanges
           /\ head' = head + 1 /\ head < MaxRevision
           /\ changes' = changes \cup {Row(head + 1, id, k, v)}
  <1> DEFINE c == Row(head + 1, id, k, v)
  <1>0. head \in Nat /\ MaxRevision \in Nat
    BY StoreAssumption DEF StoreIInv, StoreTypeOK, Revisions
  <1>1. /\ c.rev = head + 1 /\ c.id = id /\ c.key = k /\ c.value = v
        /\ c = Row(c.rev, c.id, c.key, c.value)
    BY DEF Row
  <1>2. /\ head < MaxRevision /\ head' = head + 1
        /\ changes' = changes \cup {c}
        /\ entity' = [entity EXCEPT ![k] = [rev |-> head + 1, value |-> v]]
        /\ tombstone' = [tombstone EXCEPT ![k] = IF v = None THEN head + 1 ELSE 0]
    BY DEF Write, Row
  <1>3. c \notin changes
    BY <1>1 DEF Fresh, Logged
  <1> HIDE DEF c
  <1>4. changes' \ changes = {c}
    BY <1>2, <1>3
  <1>5. entity' \in [Keys -> State] /\ tombstone' \in [Keys -> Revisions]
    BY <1>0, <1>2 DEF StoreIInv, StoreTypeOK, State, Revisions
  <1>6. entity'[k] = [rev |-> c.rev, value |-> c.value]
        /\ tombstone'[k] = IF c.value = None THEN c.rev ELSE 0
    BY <1>1, <1>2 DEF StoreIInv, StoreTypeOK
  <1>7. \A l \in Keys : l # k => entity'[l] = entity[l] /\ tombstone'[l] = tombstone[l]
    BY <1>2 DEF StoreIInv, StoreTypeOK
  <1>8. head' \in head .. MaxRevision /\ \A r \in (head + 1) .. head' : r = c.rev
    BY <1>0, <1>1, <1>2
  <1>9. AppendChanges
    BY <1>0, <1>1, <1>2, <1>4, <1>5, <1>6, <1>7, <1>8 DEF AppendChanges
  <1> QED BY <1>2, <1>9 DEF c

LEMMA SettlingIsStore ==
    ASSUME TypeInv, IdInv, NEW c \in conflicts, NEW verdict \in Decisions,
           Settling(c, verdict)
    PROVE  /\ LogNext
           /\ conflicts' = (conflicts \ {c}) \cup {[c EXCEPT !.verdict = verdict]}
           /\ c.verdict = "open" /\ verdict # "open"
           /\ \/ UNCHANGED <<head, changes, entity, tombstone>>
              \/ changes' = changes \cup {Row(head + 1, <<"resolve", c.id>>, c.key, c.value)}
  <1>1. c.key \in Keys /\ c.value \in Contents
    BY DEF TypeInv, StoreIInv, StoreTypeOK, Conflict
  <1>2. Fresh(<<"resolve", c.id>>) /\ c.verdict = "open"
    BY OthersAreFresh DEF Settling
  <1>3. verdict \in {"server", "client"}
    BY MobileAssumption
  <1>4. conflicts' = (conflicts \ {c}) \cup {[c EXCEPT !.verdict = verdict]}
    BY DEF Settling
  <1>5. CASE verdict = "client"
    <2>1. Write(<<"resolve", c.id>>, c.key, entity[c.key].rev, c.value)
      BY <1>5 DEF Settling
    <2>2. /\ AppendChanges
          /\ changes' = changes \cup {Row(head + 1, <<"resolve", c.id>>, c.key, c.value)}
      BY <1>1, <1>2, <2>1, WriteAppends DEF TypeInv
    <2>3. Settle
      BY <1>2, <1>4, <1>5, <2>2 DEF Settle, Verdicts
    <2> QED BY <1>2, <1>4, <1>5, <2>2, <2>3 DEF LogNext
  <1>6. CASE verdict = "server"
    <2>1. UNCHANGED <<head, changes, entity, tombstone>>
      BY <1>6 DEF Settling
    <2>2. AppendChanges
      BY <2>1, StoreAssumption
         DEF AppendChanges, TypeInv, StoreIInv, StoreTypeOK, Revisions
    <2>3. Settle
      BY <1>2, <1>4, <1>6, <2>1, <2>2 DEF Settle, Verdicts
    <2> QED BY <1>2, <1>4, <1>6, <2>1, <2>3 DEF LogNext
  <1> QED BY <1>3, <1>5, <1>6

(* The Gateway's answer to mutation m, and what it did for it.             *)
AnsweredDuplicate(m) ==
    /\ UNCHANGED storeVars
    /\ wire'.status = "duplicate"
    /\ \E c \in changes : c.id = m.id /\ c.rev = wire'.rev

AnsweredDisputed(m) ==
    /\ UNCHANGED storeVars
    /\ wire'.status = "conflict" /\ wire'.rev \in Revisions
    /\ Disputed(m.id)

AnsweredConflict(m) ==
    /\ Fresh(m.id)
    /\ m.base # entity[m.key].rev
    /\ UNCHANGED <<head, changes, entity, tombstone>>
    /\ conflicts' = conflicts \cup {Collision(m.id, m.key, m.base, m.value)}
    /\ wire'.status = "conflict" /\ wire'.rev \in Revisions

AnsweredApplied(m) ==
    /\ Fresh(m.id)
    /\ m.base = entity[m.key].rev
    /\ AppendChanges
    /\ conflicts' = conflicts
    /\ head < MaxRevision
    /\ changes' = changes \cup {Row(head + 1, m.id, m.key, m.value)}
    /\ wire'.status = "applied" /\ wire'.rev = head + 1

AnsweredRejected ==
    /\ UNCHANGED storeVars
    /\ wire'.status = "rejected" /\ wire'.rev = 0

LEMMA ServeAnswers ==
    ASSUME TypeInv, Serve
    PROVE  /\ pc = "sent" /\ pc' = "answered"
           /\ UNCHANGED <<phoneVars, current, envVars>>
           /\ \E m \in current :
                 \/ AnsweredDuplicate(m) \/ AnsweredDisputed(m) \/ AnsweredConflict(m)
                 \/ AnsweredApplied(m) \/ AnsweredRejected
  <1>1. PICK m \in current : \/ ServeDuplicate(m) \/ ServeDisputed(m) \/ ServeConflict(m)
                             \/ ServeApplied(m) \/ ServeRejected(m)
    BY DEF Serve
  <1>2. m \in QueuedRow /\ m.key \in Keys /\ m.value \in Contents
    BY DEF TypeInv, QueuedRow
  <1>3. pc = "sent"
    BY DEF Serve
  <1>4. CASE ServeDuplicate(m)
    <2>1. AnsweredDuplicate(m)
      BY <1>4 DEF ServeDuplicate, Answered, AnsweredDuplicate
    <2> QED BY <1>3, <1>4, <2>1 DEF ServeDuplicate, Answered
  <1>5. CASE ServeDisputed(m)
    <2>1. PICK c \in conflicts : c.id = m.id /\ Answered("conflict", c.serverRev)
      BY <1>5 DEF ServeDisputed
    <2>2. c.serverRev \in Revisions
      BY DEF TypeInv, StoreIInv, StoreTypeOK, Conflict
    <2>3. AnsweredDisputed(m)
      BY <1>5, <2>1, <2>2 DEF ServeDisputed, Answered, AnsweredDisputed, Disputed
    <2> QED BY <1>3, <2>1, <2>3 DEF Answered
  <1>6. CASE ServeConflict(m)
    <2>1. entity[m.key].rev \in Revisions
      BY <1>2 DEF TypeInv, StoreIInv, StoreTypeOK, State
    <2>2. AnsweredConflict(m)
      BY <1>6, <2>1 DEF ServeConflict, Answered, AnsweredConflict
    <2> QED BY <1>3, <1>6, <2>2 DEF ServeConflict, Answered
  <1>7. CASE ServeApplied(m)
    <2>1. Write(m.id, m.key, entity[m.key].rev, m.value)
      BY <1>7 DEF ServeApplied
    <2>2. AppendChanges /\ head' = head + 1 /\ head < MaxRevision
          /\ changes' = changes \cup {Row(head + 1, m.id, m.key, m.value)}
      BY <1>2, <1>7, <2>1, WriteAppends DEF ServeApplied, TypeInv
    <2>3. wire'.status = "applied" /\ wire'.rev = head + 1
      BY <1>7, <2>2 DEF ServeApplied, Answered
    <2>4. AnsweredApplied(m)
      BY <1>7, <2>2, <2>3 DEF ServeApplied, AnsweredApplied
    <2> QED BY <1>3, <1>7, <2>4 DEF ServeApplied, Answered
  <1>8. CASE ServeRejected(m)
    <2>1. AnsweredRejected
      BY <1>8 DEF ServeRejected, Answered, AnsweredRejected
    <2> QED BY <1>3, <1>8, <2>1 DEF ServeRejected, Answered
  <1> QED BY <1>1, <1>4, <1>5, <1>6, <1>7, <1>8

(* Another device's write, and its conflict.                               *)
LEMMA OthersEffects ==
    ASSUME TypeInv, IdInv, NEW k \in Keys, NEW v \in Contents
    PROVE  /\ OtherWrites(k, v) =>
                 /\ AppendChanges /\ conflicts' = conflicts
                 /\ head < MaxRevision
                 /\ changes' = changes \cup {Row(head + 1, <<"other", others.writes + 1>>, k, v)}
                 /\ others' = [writes |-> others.writes + 1, rivals |-> others.rivals]
                 /\ UNCHANGED <<phoneVars, loopVars, choosing, made>>
           /\ OtherDisputes(k, v) =>
                 /\ Dispute
                 /\ UNCHANGED <<head, changes, entity, tombstone>>
                 /\ conflicts' = conflicts \cup {Collision(<<"rival", others.rivals + 1>>, k, 0, v)}
                 /\ others' = [writes |-> others.writes, rivals |-> others.rivals + 1]
                 /\ UNCHANGED <<phoneVars, loopVars, choosing, made>>
  <1>1. ASSUME OtherWrites(k, v)
        PROVE  /\ AppendChanges /\ conflicts' = conflicts
               /\ head < MaxRevision
               /\ changes' = changes \cup {Row(head + 1, <<"other", others.writes + 1>>, k, v)}
               /\ others' = [writes |-> others.writes + 1, rivals |-> others.rivals]
               /\ UNCHANGED <<phoneVars, loopVars, choosing, made>>
    <2>1. others' = [writes |-> others.writes + 1, rivals |-> others.rivals]
      BY <1>1 DEF OtherWrites, TypeInv
    <2>2. Write(<<"other", others.writes + 1>>, k, entity[k].rev, v)
      BY <1>1, <2>1 DEF OtherWrites
    <2>3. Fresh(<<"other", others.writes + 1>>)
      BY OthersAreFresh
    <2> QED BY <1>1, <2>1, <2>2, <2>3, WriteAppends DEF OtherWrites, TypeInv
  <1>2. ASSUME OtherDisputes(k, v)
        PROVE  /\ Dispute
               /\ UNCHANGED <<head, changes, entity, tombstone>>
               /\ conflicts' = conflicts \cup {Collision(<<"rival", others.rivals + 1>>, k, 0, v)}
               /\ others' = [writes |-> others.writes, rivals |-> others.rivals + 1]
               /\ UNCHANGED <<phoneVars, loopVars, choosing, made>>
    <2> DEFINE c == Collision(<<"rival", others.rivals + 1>>, k, 0, v)
    <2>1. others' = [writes |-> others.writes, rivals |-> others.rivals + 1]
      BY <1>2 DEF OtherDisputes, TypeInv
    <2>2. conflicts' = conflicts \cup {c} /\ UNCHANGED <<head, changes, entity, tombstone>>
      BY <1>2, <2>1 DEF OtherDisputes
    <2>3. Fresh(<<"rival", others.rivals + 1>>)
      BY OthersAreFresh
    <2>4. /\ c.id = <<"rival", others.rivals + 1>> /\ c.key = k /\ c.base = 0 /\ c.value = v
          /\ c = Collision(c.id, c.key, c.base, c.value)
      BY DEF Collision
    <2>5. entity[k].rev # 0
      BY <1>2 DEF OtherDisputes
    <2> HIDE DEF c
    <2>6. Dispute
      BY <2>2, <2>3, <2>4, <2>5 DEF Dispute
    <2> QED BY <1>2, <2>1, <2>2, <2>6 DEF OtherDisputes, c
  <1> QED BY <1>1, <1>2

(* Every step of the phone and of the others is one of the store.          *)
LEMMA NextIsStore ==
    ASSUME TypeInv, IdInv, [Next]_vars
    PROVE  [LogNext]_storeVars
  <1>1. CASE Serve
    <2>1. PICK m \in current :
                 \/ AnsweredDuplicate(m) \/ AnsweredDisputed(m) \/ AnsweredConflict(m)
                 \/ AnsweredApplied(m) \/ AnsweredRejected
      BY <1>1, ServeAnswers
    <2>2. m.key \in Keys /\ m.value \in Contents /\ m.base \in Nat
      BY DEF TypeInv, QueuedRow, Revisions
    <2>3. ASSUME AnsweredConflict(m) PROVE Dispute
      <3> DEFINE c == Collision(m.id, m.key, m.base, m.value)
      <3>1. /\ c.id = m.id /\ c.key = m.key /\ c.base = m.base /\ c.value = m.value
            /\ c = Collision(c.id, c.key, c.base, c.value)
        BY DEF Collision
      <3>2. conflicts' = conflicts \cup {c}
        BY <2>3 DEF AnsweredConflict
      <3> HIDE DEF c
      <3> QED BY <2>2, <2>3, <3>1, <3>2 DEF AnsweredConflict, Dispute
    <2> QED BY <2>1, <2>3 DEF AnsweredDuplicate, AnsweredDisputed, AnsweredApplied,
                              AnsweredRejected, LogNext
  <1>2. CASE Decide
    BY <1>2, SettlingIsStore DEF Decide, ChooseHere, ChoiceDone, ChooseElsewhere
  <1>3. CASE Others
    BY <1>3, OthersEffects DEF Others, LogNext
  <1>4. CASE Edit \/ LosePush \/ Stop \/ UNCHANGED vars
    BY <1>4 DEF Edit, Save, Delete, LosePush, Stop, vars
  <1>5. CASE \/ StartSync \/ ReadQueue \/ MarkSending
             \/ TakeAcknowledgement \/ TakeConflict \/ TakeRejection
             \/ FetchStates \/ TakeStates \/ FetchConflicts \/ TakeConflicts
             \/ FetchPage \/ TakePage
    BY <1>5 DEF StartSync, ReadQueue, MarkSending, TakeAcknowledgement, TakeConflict,
                TakeRejection, FetchStates, TakeStates, FetchConflicts, TakeConflicts,
                FetchPage, TakePage
  <1> QED BY <1>1, <1>2, <1>3, <1>4, <1>5 DEF Next, Loop

----------------------------------------------------------------------------
(* Types.                                                                  *)

(* Rows with other states, contents or bases are rows of the queue.        *)
LEMMA RowsChanged ==
    ASSUME NEW m \in QueuedRow
    PROVE  /\ m.key \in Keys /\ m.base \in Revisions /\ m.value \in Contents
           /\ \E n \in Nat : m.id = PhoneId(n)
           /\ \A v \in Contents : [m EXCEPT !.value = v] \in QueuedRow
           /\ \A r \in Revisions : [m EXCEPT !.base = r] \in QueuedRow
           /\ [m EXCEPT !.sealed = TRUE] \in QueuedRow
           /\ [m EXCEPT !.state = "sending", !.sent = TRUE] \in QueuedRow
           /\ \A s \in {"pending", "sending", "conflict"} : [m EXCEPT !.state = s] \in QueuedRow
  BY DEF QueuedRow

(* What an edit makes of the queue.                                        *)
LEMMA NewMutationTyped ==
    ASSUME TypeInv, NEW k \in Keys, NEW v \in Contents
    PROVE  /\ NewMutation(k, v) \in QueuedRow
           /\ Append(made, [key |-> k, value |-> v]) \in Seq([key : Keys, value : Contents])
           /\ Len(Append(made, [key |-> k, value |-> v])) = Len(made) + 1
           /\ \A n \in 1 .. Len(made) :
                 Append(made, [key |-> k, value |-> v])[n] = made[n]
           /\ Append(made, [key |-> k, value |-> v])[Len(made) + 1] = [key |-> k, value |-> v]
  <1>1. Len(made) \in Nat /\ Len(made) + 1 \in Nat
    BY DEF TypeInv
  <1>2. replica[k].rev \in Revisions
    BY DEF TypeInv, PhoneRow
  <1>3. PhoneId(Len(made) + 1) \in {PhoneId(n) : n \in Nat}
    BY <1>1
  <1>4. NewMutation(k, v) \in QueuedRow
    BY <1>2, <1>3 DEF NewMutation, QueuedRow
  <1> QED BY <1>4 DEF TypeInv

(* An edit that is merged into a queued one is the new content of that.    *)
LEMMA MergedEdit ==
    ASSUME TypeInv, IdInv, NEW m \in outbox, NEW v \in Contents
    PROVE  LET new == [made EXCEPT ![m.id[2]].value = v] IN
           /\ new \in Seq([key : Keys, value : Contents])
           /\ Len(new) = Len(made)
           /\ \A n \in 1 .. Len(made) :
                 /\ new[n].key = made[n].key
                 /\ new[n].value = IF PhoneId(n) = m.id THEN v ELSE made[n].value
  <1>1. PICK n \in Nat : Stems(m, n)
    BY DEF IdInv, RowsStem
  <1>2. n \in 1 .. Len(made) /\ m.id = PhoneId(n) /\ m.id[2] = n
    BY <1>1, PhoneIds DEF Stems
  <1> DEFINE row == [made[n] EXCEPT !.value = v]
             new == [made EXCEPT ![n] = row]
  <1>3. made \in Seq([key : Keys, value : Contents]) /\ Len(made) \in Nat
    BY DEF TypeInv
  <1>4. made[n] \in [key : Keys, value : Contents]
    BY <1>2, <1>3, ElementOfSeq
  <1>5. row \in [key : Keys, value : Contents] /\ row.key = made[n].key /\ row.value = v
    BY <1>4
  <1>6. new = [made EXCEPT ![m.id[2]].value = v]
    BY <1>2
  <1> HIDE DEF row
  <1>7. /\ new \in Seq([key : Keys, value : Contents])
        /\ Len(new) = Len(made)
        /\ \A j \in 1 .. Len(made) : new[j] = IF j = n THEN row ELSE made[j]
    BY <1>2, <1>3, <1>5, ExceptSeq
  <1> HIDE DEF new
  <1>8. \A j \in 1 .. Len(made) : PhoneId(j) = m.id <=> j = n
    BY <1>2, PhoneIds
  <1> QED BY <1>5, <1>6, <1>7, <1>8

LEMMA SaveTyped ==
    ASSUME TypeInv, IdInv, NEW k \in Keys, NEW v \in Values, Save(k, v)
    PROVE  /\ replica' \in [Keys -> PhoneRow]
           /\ outbox' \subseteq QueuedRow
           /\ made' \in Seq([key : Keys, value : Contents])
  <1>0. v \in Contents /\ Len(made) \in Nat
    BY DEF Contents, TypeInv
  <1>1. replica' \in [Keys -> PhoneRow]
    BY <1>0 DEF TypeInv, Save, PhoneRow
  <1>2. CASE /\ outbox' = outbox \cup {NewMutation(k, v)}
             /\ made' = Append(made, [key |-> k, value |-> v])
    BY <1>0, <1>1, <1>2, NewMutationTyped DEF TypeInv
  <1>3. CASE \E m \in Newest(Mergeable(k)) :
                /\ outbox' = (outbox \ {m}) \cup {[m EXCEPT !.value = v]}
                /\ made' = [made EXCEPT ![m.id[2]].value = v]
    <2>1. PICK m \in outbox :
                /\ outbox' = (outbox \ {m}) \cup {[m EXCEPT !.value = v]}
                /\ made' = [made EXCEPT ![m.id[2]].value = v]
      BY <1>3 DEF Newest, Mergeable, Waiting
    <2>2. m \in QueuedRow /\ [m EXCEPT !.value = v] \in QueuedRow
      BY <1>0, RowsChanged DEF TypeInv
    <2>3. made' \in Seq([key : Keys, value : Contents]) /\ Len(made') = Len(made)
      BY <1>0, <2>1, MergedEdit
    <2> QED BY <1>1, <2>1, <2>2, <2>3 DEF TypeInv
  <1> QED BY <1>2, <1>3 DEF Save

LEMMA DeleteTyped ==
    ASSUME TypeInv, NEW k \in Keys, Delete(k)
    PROVE  /\ replica' \in [Keys -> PhoneRow]
           /\ outbox' \subseteq QueuedRow
           /\ made' \in Seq([key : Keys, value : Contents])
  <1>0. None \in Contents /\ Len(made) \in Nat
    BY DEF Contents, TypeInv
  <1>1. replica' \in [Keys -> PhoneRow]
    BY <1>0 DEF TypeInv, Delete, PhoneRow
  <1>2. \A m \in outbox :
           (IF m.state = "conflict" THEN m ELSE [m EXCEPT !.sealed = TRUE]) \in QueuedRow
    BY RowsChanged DEF TypeInv
  <1>3. /\ outbox' = {IF m.state = "conflict" THEN m ELSE [m EXCEPT !.sealed = TRUE] : m \in outbox}
                        \cup {NewMutation(k, None)}
        /\ made' = Append(made, [key |-> k, value |-> None])
    BY DEF Delete
  <1>4. NewMutation(k, None) \in QueuedRow
    BY <1>0, NewMutationTyped
  <1>5. outbox' \subseteq QueuedRow
    BY <1>2, <1>3, <1>4
  <1>6. Append(made, [key |-> k, value |-> None]) \in Seq([key : Keys, value : Contents])
        /\ Len(Append(made, [key |-> k, value |-> None])) = Len(made) + 1
    BY <1>0, NewMutationTyped
  <1> QED BY <1>1, <1>3, <1>5, <1>6

(* The loop's changes of the queue and the replica.                        *)
LEMMA RowsRewritten ==
    ASSUME TypeInv
    PROVE  /\ \A m \in QueuedRow : Rewritten(m) \subseteq QueuedRow
           /\ \A m \in current : Retried(m) \subseteq QueuedRow
           /\ \A keys : WithoutDisputes(keys) \subseteq QueuedRow
           /\ \A k \in Keys, r \in Revisions, queue \in SUBSET outbox : Rebased(queue, k, r) \subseteq QueuedRow
  <1>1. \A m \in QueuedRow : Rewritten(m) \subseteq QueuedRow
    BY DEF TypeInv, Rewritten
  <1>2. \A m \in current : Retried(m) \subseteq QueuedRow
    BY RowsChanged DEF TypeInv, Retried
  <1>3. \A keys : WithoutDisputes(keys) \subseteq QueuedRow
    BY DEF TypeInv, WithoutDisputes
  <1>4. \A k \in Keys, r \in Revisions, queue \in SUBSET outbox : Rebased(queue, k, r) \subseteq QueuedRow
    <2> SUFFICES ASSUME NEW k \in Keys, NEW r \in Revisions, NEW queue \in SUBSET outbox,
                        NEW x \in Rebased(queue, k, r)
                 PROVE  x \in QueuedRow
      OBVIOUS
    <2>1. PICK q \in queue :
             x = IF q.key = k /\ q.state = "pending" /\ ~q.sent THEN [q EXCEPT !.base = r] ELSE q
      BY DEF Rebased
    <2>2. q \in QueuedRow /\ [q EXCEPT !.base = r] \in QueuedRow
      BY RowsChanged DEF TypeInv
    <2> QED BY <2>1, <2>2
  <1> QED BY <1>1, <1>2, <1>3, <1>4

LEMMA ReplicaChanged ==
    ASSUME TypeInv
    PROVE  /\ \A k \in Keys, r \in Revisions, d \in BOOLEAN :
                 [replica EXCEPT ![k].rev = r, ![k].dirty = d, ![k].conflicted = FALSE]
                    \in [Keys -> PhoneRow]
           /\ \A k \in Keys : [replica EXCEPT ![k].conflicted = TRUE] \in [Keys -> PhoneRow]
           /\ \A k \in Keys : [replica EXCEPT ![k] = Unmarked(@)] \in [Keys -> PhoneRow]
           /\ \A k \in Keys : Unmarked(replica[k]) \in PhoneRow
           /\ \A row \in PhoneRow : [row EXCEPT !.conflicted = TRUE] \in PhoneRow
           /\ \A r \in Revisions, v \in Contents : Clean(r, v) \in PhoneRow
  <1>1. \A r \in Revisions, v \in Contents : Clean(r, v) \in PhoneRow
    BY DEF Clean, PhoneRow
  <1>2. \A k \in Keys : Unmarked(replica[k]) \in PhoneRow
    BY <1>1 DEF TypeInv, Unmarked, PhoneRow
  <1>3. \A row \in PhoneRow : [row EXCEPT !.conflicted = TRUE] \in PhoneRow
    BY DEF PhoneRow
  <1>4. \A k \in Keys : [replica EXCEPT ![k] = Unmarked(@)] \in [Keys -> PhoneRow]
    BY <1>2 DEF TypeInv
  <1>5. \A k \in Keys : [replica EXCEPT ![k].conflicted = TRUE] \in [Keys -> PhoneRow]
    BY <1>3 DEF TypeInv
  <1>6. ASSUME NEW row \in PhoneRow, NEW r \in Revisions, NEW d \in BOOLEAN
        PROVE  [row EXCEPT !.rev = r, !.dirty = d, !.conflicted = FALSE] \in PhoneRow
    BY DEF PhoneRow
  <1>7. ASSUME NEW k \in Keys, NEW r \in Revisions, NEW d \in BOOLEAN
        PROVE  [replica EXCEPT ![k].rev = r, ![k].dirty = d, ![k].conflicted = FALSE]
                  \in [Keys -> PhoneRow]
    <2>1. [replica EXCEPT ![k].rev = r, ![k].dirty = d, ![k].conflicted = FALSE]
             = [replica EXCEPT ![k] = [replica[k] EXCEPT !.rev = r, !.dirty = d, !.conflicted = FALSE]]
      BY DEF TypeInv
    <2>2. replica[k] \in PhoneRow
      BY DEF TypeInv
    <2> QED BY <1>6, <2>1, <2>2 DEF TypeInv
  <1> QED BY <1>1, <1>2, <1>3, <1>4, <1>5, <1>7

(* A set of numbers below a bound has a largest one.                       *)
LEMMA LargestOfSome ==
    ASSUME NEW n \in Nat, NEW S \in SUBSET (1 .. n), S # {}
    PROVE  \E r \in S : \A x \in S : x <= r
  <1> DEFINE Less == {ss \in Nat \X Nat : ss[1] < ss[2]}
             T == {n - x : x \in S}
  <1>1. IsWellFoundedOn(Less, Nat)
    BY NatLessThanWellFounded DEF OpToRel
  <1>2. T \subseteq Nat /\ T # {}
    <2>1. \A x \in S : x \in Nat /\ n - x \in Nat
      OBVIOUS
    <2> QED BY <2>1
  <1> HIDE DEF Less, T
  <1>3. PICK t \in T : \A u \in T : ~(<<u, t>> \in Less)
    BY <1>1, <1>2, WFMin
  <1>4. ASSUME NEW u \in T PROVE t <= u
    <2>1. u \in Nat /\ t \in Nat /\ <<u, t>> \in Nat \X Nat
      BY <1>2
    <2>2. <<u, t>>[1] = u /\ <<u, t>>[2] = t
      OBVIOUS
    <2>3. ~(u < t)
      BY <1>3, <2>1, <2>2 DEF Less
    <2> QED BY <2>1, <2>3
  <1>5. PICK r \in S : t = n - r
    BY DEF T
  <1>6. \A x \in S : n - r <= n - x
    BY <1>4, <1>5 DEF T
  <1> QED BY <1>6

(* Of some rows of the log one is the last.                                *)
LEMMA LastOfSome ==
    ASSUME StoreIInv, NEW S \in SUBSET changes, S # {}
    PROVE  \E c \in S : \A d \in S : d.rev <= c.rev
  <1> DEFINE Revs == {c.rev : c \in S}
  <1>1. head \in Nat /\ \A c \in changes : c.rev \in 1 .. head
    BY DEF StoreIInv, StoreTypeOK, StoreInv, OneRowPerRevision, Revisions
  <1>2. Revs \in SUBSET (1 .. head) /\ Revs # {}
    BY <1>1
  <1>3. \E r \in Revs : \A x \in Revs : x <= r
    BY <1>1, <1>2, LargestOfSome
  <1> QED BY <1>3

LEMMA InitTyped == Init => TypeInv
  <1> SUFFICES ASSUME Init PROVE TypeInv
    OBVIOUS
  <1>1. StoreIInv
    BY StoreInitIInv DEF Init
  <1>2. 0 \in Revisions
    BY StoreAssumption DEF Revisions
  <1>3. replica \in [Keys -> PhoneRow]
    BY <1>2 DEF Init, NoRow, PhoneRow, Contents
  <1>4. made \in Seq([key : Keys, value : Contents]) /\ Len(made) = 0
    BY DEF Init
  <1>5. WireTyped
    BY DEF Init, WireTyped
  <1>6. others \in [writes : Nat, rivals : Nat]
    BY DEF Init
  <1> QED BY <1>1, <1>2, <1>3, <1>4, <1>5, <1>6 DEF Init, TypeInv, Phases

(* Saves and deletions run beside the loop and leave its answer alone.     *)
LEMMA EditKeepsType ==
    ASSUME TypeInv, IdInv, Edit
    PROVE  TypeInv'
  <1>1. /\ replica' \in [Keys -> PhoneRow]
        /\ outbox' \subseteq QueuedRow
        /\ made' \in Seq([key : Keys, value : Contents])
    BY SaveTyped, DeleteTyped DEF Edit
  <1>2. UNCHANGED <<storeVars, cursor, receipts, loopVars, others>>
    BY DEF Edit, Save, Delete
  <1>3. StoreIInv'
    BY <1>2, LogNextKeepsIInv DEF TypeInv
  <1>4. WireTyped'
    BY <1>2 DEF TypeInv, WireTyped, storeVars, loopVars
  <1> QED BY <1>1, <1>2, <1>3, <1>4 DEF TypeInv, loopVars

(* An acknowledgement takes m out of the queue and moves the rest of its   *)
(* entity to the answer's revision; it may queue the entity again.         *)
Rest(m) == Rebased({q \in outbox : q.id # m.id}, m.key, wire.rev)

Again(m) == [NewMutation(m.key, replica[m.key].value) EXCEPT !.base = wire.rev]

Requeues(m) ==
    /\ EditedSince(m)
    /\ outbox' = Rest(m) \cup {Again(m)}
    /\ made' = Append(made, [key |-> m.key, value |-> replica[m.key].value])

LEMMA Acknowledged ==
    ASSUME TypeInv, TakeAcknowledgement
    PROVE  \E m \in current :
              /\ replica' = [replica EXCEPT ![m.key].rev = wire.rev,
                                            ![m.key].dirty = EditedSince(m),
                                            ![m.key].conflicted = FALSE]
              /\ \/ outbox' = Rest(m) /\ made' = made
                 \/ Requeues(m) /\ made' # made
  <1>1. PICK m \in current :
           /\ replica' = [replica EXCEPT ![m.key].rev = wire.rev,
                                         ![m.key].dirty = EditedSince(m),
                                         ![m.key].conflicted = FALSE]
           /\ \/ outbox' = Rest(m) /\ made' = made
              \/ Requeues(m)
    BY DEF TakeAcknowledgement, Rest, Again, Requeues
  <1>2. m.key \in Keys /\ replica[m.key].value \in Contents
    BY DEF TypeInv, QueuedRow, PhoneRow
  <1>3. Requeues(m) => Len(made') = Len(made) + 1
    BY <1>2, NewMutationTyped DEF Requeues
  <1>4. Len(made) \in Nat
    BY DEF TypeInv
  <1>5. Requeues(m) => made' # made
    BY <1>3, <1>4
  <1> QED BY <1>1, <1>5

(* The row that is queued again is a mutation like the author's.           *)
LEMMA AgainTyped ==
    ASSUME TypeInv, NEW m \in current, wire.rev \in Revisions
    PROVE  /\ m.key \in Keys /\ replica[m.key].value \in Contents
           /\ Again(m) \in QueuedRow
           /\ Again(m).id = PhoneId(Len(made) + 1) /\ Again(m).key = m.key
           /\ Again(m).value = replica[m.key].value /\ Again(m).state = "pending"
           /\ Rest(m) \subseteq QueuedRow
  <1>1. m.key \in Keys /\ replica[m.key].value \in Contents
    BY DEF TypeInv, QueuedRow, PhoneRow
  <1> DEFINE new == NewMutation(m.key, replica[m.key].value)
  <1>2. new \in QueuedRow
    BY <1>1, NewMutationTyped
  <1>3. new.id = PhoneId(Len(made) + 1) /\ new.key = m.key
        /\ new.value = replica[m.key].value /\ new.state = "pending"
    BY DEF NewMutation
  <1>4. Again(m) = [new EXCEPT !.base = wire.rev]
    BY DEF Again
  <1> HIDE DEF new
  <1>5. /\ Again(m) \in QueuedRow
        /\ Again(m).id = new.id /\ Again(m).key = new.key
        /\ Again(m).value = new.value /\ Again(m).state = new.state
    BY <1>2, <1>4 DEF QueuedRow
  <1>6. Rest(m) \subseteq QueuedRow
    BY <1>1, RowsRewritten DEF Rest
  <1> QED BY <1>1, <1>3, <1>5, <1>6

(* What the loop leaves alone unless it queues a mutation again.           *)
LEMMA LoopLeaves ==
    ASSUME TypeInv, Loop \/ LosePush \/ Stop, ~Serve
    PROVE  /\ UNCHANGED <<storeVars, others>>
           /\ made' = made \/ TakeAcknowledgement
  <1>1. CASE TakeAcknowledgement
    BY <1>1 DEF TakeAcknowledgement
  <1> QED BY <1>1 DEF Loop, StartSync, ReadQueue, MarkSending, TakeConflict,
             TakeRejection, FetchStates, TakeStates, FetchConflicts, TakeConflicts,
             FetchPage, TakePage, LosePush, Stop, envVars

(* The phases whose answer the loop still waits for, or holds.             *)
LEMMA LoopKeepsType ==
    ASSUME TypeInv, IdInv, Loop \/ LosePush \/ Stop, ~Serve
    PROVE  TypeInv'
  <1>1. UNCHANGED <<storeVars, others>> /\ (made' = made \/ TakeAcknowledgement)
    BY LoopLeaves
  <1>2. StoreIInv' /\ made' \in Seq([key : Keys, value : Contents])
    <2>1. StoreIInv' /\ made \in Seq([key : Keys, value : Contents])
      BY <1>1, LogNextKeepsIInv DEF TypeInv
    <2>2. CASE TakeAcknowledgement
      <3>1. PICK m \in current : made' = made \/ Requeues(m)
        BY <2>2, Acknowledged
      <3>2. m.key \in Keys /\ replica[m.key].value \in Contents
        BY DEF TypeInv, QueuedRow, PhoneRow
      <3> QED BY <2>1, <3>1, <3>2, NewMutationTyped DEF Requeues
    <2> QED BY <1>1, <2>1, <2>2
  <1>3. CASE StartSync
    BY <1>1, <1>2, <1>3 DEF StartSync, TypeInv, WireTyped, phoneVars, Phases
  <1>4. CASE ReadQueue
    <2>1. current' \subseteq QueuedRow
      BY <1>4 DEF ReadQueue, Oldest, Pending, TypeInv
    <2>2. pc' \in {"refresh", "mark"}
      BY <1>4 DEF ReadQueue
    <2> QED BY <1>1, <1>2, <1>4, <2>1, <2>2 DEF ReadQueue, TypeInv, WireTyped, phoneVars, Phases
  <1>5. CASE MarkSending
    <2>1. PICK m \in current : outbox' = Rewritten([m EXCEPT !.state = "sending", !.sent = TRUE])
      BY <1>5 DEF MarkSending
    <2>2. outbox' \subseteq QueuedRow
      BY <2>1, RowsChanged, RowsRewritten DEF TypeInv
    <2> QED BY <1>1, <1>2, <1>5, <2>2 DEF MarkSending, TypeInv, WireTyped, Phases
  <1>6. CASE TakeAcknowledgement
    <2>1. PICK m \in current :
             /\ replica' = [replica EXCEPT ![m.key].rev = wire.rev,
                                           ![m.key].dirty = EditedSince(m),
                                           ![m.key].conflicted = FALSE]
             /\ \/ outbox' = Rest(m) /\ made' = made
                \/ Requeues(m)
      BY <1>6, Acknowledged
    <2>2. wire.rev \in Revisions /\ m.key \in Keys
      BY <1>6, RowsChanged DEF TakeAcknowledgement, TypeInv, WireTyped
    <2>3. outbox' \subseteq QueuedRow
      BY <2>1, <2>2, AgainTyped DEF Requeues
    <2>4. EditedSince(m) \in BOOLEAN
      BY DEF EditedSince
    <2>5. replica' \in [Keys -> PhoneRow]
      BY <2>1, <2>2, <2>4, ReplicaChanged
    <2> QED BY <1>1, <1>2, <1>6, <2>3, <2>5
            DEF TakeAcknowledgement, TypeInv, WireTyped, Phases
  <1>7. CASE TakeConflict
    <2>1. PICK m \in current :
             /\ outbox' = Rewritten([m EXCEPT !.state = "conflict"])
             /\ replica' = [replica EXCEPT ![m.key].conflicted = TRUE]
      BY <1>7 DEF TakeConflict
    <2>2. outbox' \subseteq QueuedRow
      BY <2>1, RowsChanged, RowsRewritten DEF TypeInv
    <2>3. replica' \in [Keys -> PhoneRow]
      BY <2>1, RowsChanged, ReplicaChanged DEF TypeInv
    <2> QED BY <1>1, <1>2, <1>7, <2>2, <2>3 DEF TakeConflict, TypeInv, WireTyped, Phases
  <1>8. CASE TakeRejection
    <2>1. PICK m \in current : outbox' = Rewritten([m EXCEPT !.state = "pending"])
      BY <1>8 DEF TakeRejection, Requeued
    <2>2. outbox' \subseteq QueuedRow
      BY <2>1, RowsChanged, RowsRewritten DEF TypeInv
    <2> QED BY <1>1, <1>2, <1>8, <2>2 DEF TakeRejection, TypeInv, WireTyped, Phases
  <1>9. CASE FetchStates
    <2>1. entity \in [Keys -> State]
      BY DEF TypeInv, StoreIInv, StoreTypeOK
    <2>2. \/ pc' = "refreshed" /\ wire'.states = entity
          \/ pc' = "conflicts" /\ wire' = wire
      BY <1>9 DEF FetchStates
    <2> QED BY <1>1, <1>2, <1>9, <2>1, <2>2 DEF FetchStates, TypeInv, WireTyped, phoneVars, Phases
  <1>10. CASE TakeStates
    <2>1. wire.states \in [Keys -> State]
      BY <1>10 DEF TakeStates, TypeInv, WireTyped
    <2>2. \A k \in Keys : Clean(wire.states[k].rev, wire.states[k].value) \in PhoneRow
      BY <2>1, ReplicaChanged DEF State
    <2>3. replica' \in [Keys -> PhoneRow]
      BY <1>10, <2>2 DEF TakeStates, TypeInv
    <2> QED BY <1>1, <1>2, <1>10, <2>3 DEF TakeStates, TypeInv, WireTyped, Phases
  <1>11. CASE FetchConflicts
    BY <1>1, <1>2, <1>11 DEF FetchConflicts, TypeInv, WireTyped, phoneVars, Phases
  <1>12. CASE TakeConflicts
    <2>1. \A k \in Keys : /\ replica[k] \in PhoneRow /\ Unmarked(replica[k]) \in PhoneRow
                          /\ [replica[k] EXCEPT !.conflicted = TRUE] \in PhoneRow
                          /\ [Unmarked(replica[k]) EXCEPT !.conflicted = TRUE] \in PhoneRow
      BY ReplicaChanged DEF TypeInv
    <2>2. replica' \in [Keys -> PhoneRow]
      BY <1>12, <2>1 DEF TakeConflicts
    <2>3. outbox' \subseteq QueuedRow
      BY <1>12, RowsRewritten DEF TakeConflicts
    <2> QED BY <1>1, <1>2, <1>12, <2>2, <2>3 DEF TakeConflicts, TypeInv, WireTyped, Phases
  <1>13. CASE FetchPage
    <2>1. NextCursor \in Revisions
      BY StoreAssumption, MobileAssumption
         DEF NextCursor, TypeInv, StoreIInv, StoreTypeOK, Revisions
    <2>2. pc' = "pulled" /\ wire'.next = NextCursor /\ wire'.rows \subseteq changes
      BY <1>13 DEF FetchPage
    <2> QED BY <1>1, <1>2, <1>13, <2>1, <2>2
            DEF FetchPage, TypeInv, WireTyped, phoneVars, storeVars, Phases
  <1>14. CASE TakePage
    <2> DEFINE rows(k) == {c \in wire.rows : c.key = k}
               last(k) == CHOOSE c \in rows(k) : \A d \in rows(k) : d.rev <= c.rev
    <2>1. wire.rows \subseteq changes /\ wire.next \in Revisions
      BY <1>14 DEF TakePage, TypeInv, WireTyped
    <2>2. ASSUME NEW k \in Keys, rows(k) # {} PROVE last(k) \in changes
      <3>1. PICK c \in rows(k) : \A d \in rows(k) : d.rev <= c.rev
        BY <2>1, <2>2, LastOfSome DEF TypeInv
      <3> QED BY <2>1, <3>1
    <2>3. \A c \in changes : Clean(c.rev, c.value) \in PhoneRow
      BY ReplicaChanged DEF TypeInv, StoreIInv, StoreTypeOK, Change
    <2>4. \A k \in Keys : replica'[k] = IF Guarded(replica[k]) \/ rows(k) = {} THEN replica[k]
                                        ELSE Clean(last(k).rev, last(k).value)
      BY <1>14 DEF TakePage
    <2>5. replica' = [k \in Keys |-> replica'[k]]
      BY <1>14 DEF TakePage
    <2> HIDE DEF rows, last
    <2>6. replica' \in [Keys -> PhoneRow]
      BY <2>2, <2>3, <2>4, <2>5 DEF TypeInv
    <2>7. pc' \in {"pull", "synced"}
      BY <1>14 DEF TakePage
    <2> QED BY <1>1, <1>2, <1>14, <2>1, <2>6, <2>7 DEF TakePage, TypeInv, WireTyped, Phases
  <1>15. CASE LosePush
    <2>1. PICK m \in current : outbox' = Retried(m)
      BY <1>15 DEF LosePush
    <2>2. outbox' \subseteq QueuedRow
      BY <2>1, RowsRewritten
    <2> QED BY <1>1, <1>2, <1>15, <2>2 DEF LosePush, TypeInv, WireTyped, Phases
  <1>16. CASE Stop
    BY <1>1, <1>2, <1>16 DEF Stop, TypeInv, WireTyped, phoneVars, Phases
  <1> QED BY <1>3, <1>4, <1>5, <1>6, <1>7, <1>8, <1>9, <1>10, <1>11, <1>12, <1>13,
             <1>14, <1>15, <1>16 DEF Loop

----------------------------------------------------------------------------
(* Ids and keys.                                                           *)

(* Rows with the id and key of a mutation stem from it.                    *)
SameId(r, m) == r.id = m.id /\ r.key = m.key

(* The phone's own steps leave the log's ids and the stems of its rows.    *)
LEMMA PhoneKeepsIds ==
    ASSUME TypeInv, IdInv, UNCHANGED <<changes, conflicts, others>>,
           Len(made') \in Nat, Len(made) <= Len(made'),
           \A n \in 1 .. Len(made) : made'[n].key = made[n].key,
           \A m \in outbox' \cup current' :
              \/ \E q \in outbox \cup current : SameId(m, q)
              \/ \E n \in Nat : Stems(m, n)'
    PROVE  IdInv'
  <1>0. Len(made) \in Nat
    BY DEF TypeInv
  <1>1. LoggedIds'
    <2> SUFFICES ASSUME NEW c \in changes
                 PROVE  \/ \E n \in 1 .. Len(made') : c.id = PhoneId(n)
                        \/ \E n \in 1 .. others.writes : c.id = <<"other", n>>
                        \/ \E d \in conflicts : c.id = <<"resolve", d.id>> /\ d.verdict # "open"
      BY DEF LoggedIds
    <2>1. 1 .. Len(made) \subseteq 1 .. Len(made')
      BY <1>0
    <2> QED BY <2>1 DEF IdInv, LoggedIds
  <1>2. DisputedIds'
    <2> SUFFICES ASSUME NEW c \in conflicts
                 PROVE  \/ \E n \in 1 .. Len(made') : c.id = PhoneId(n)
                        \/ \E n \in 1 .. others.rivals : c.id = <<"rival", n>>
      BY DEF DisputedIds
    <2>1. 1 .. Len(made) \subseteq 1 .. Len(made')
      BY <1>0
    <2> QED BY <2>1 DEF IdInv, DisputedIds
  <1>3. \A r, n : Stems(r, n) => Stems(r, n)'
    BY <1>0 DEF Stems
  <1>4. RowsStem'
    <2>1. ASSUME NEW m \in outbox' \cup current'
          PROVE  \E n \in Nat : Stems(m, n)'
      <3>1. CASE \E q \in outbox \cup current : SameId(m, q)
        <4>1. PICK q \in outbox \cup current : SameId(m, q)
          BY <3>1
        <4>2. PICK n \in Nat : Stems(q, n)
          BY DEF IdInv, RowsStem
        <4>3. Stems(m, n)
          BY <4>1, <4>2 DEF SameId, Stems
        <4> QED BY <1>3, <4>3
      <3> QED BY <2>1, <3>1
    <2>2. ASSUME NEW c \in changes' \cup conflicts', NEW n \in Nat, c.id = PhoneId(n)
          PROVE  Stems(c, n)'
      BY <1>3, <2>2 DEF IdInv, RowsStem
    <2> QED BY <2>1, <2>2 DEF RowsStem
  <1> QED BY <1>1, <1>2, <1>4 DEF IdInv

(* So do steps at the Gateway, which write under the ids of the mutation   *)
(* they serve, of another device, or of a conflict they close.             *)
LEMMA StoreKeepsIds ==
    ASSUME TypeInv, IdInv, UNCHANGED <<made, outbox, current>>,
           others' \in [writes : Nat, rivals : Nat],
           others.writes <= others'.writes, others.rivals <= others'.rivals,
           \A c \in changes' :
              \/ c \in changes
              \/ \E m \in current : SameId(c, m)
              \/ \E n \in 1 .. others'.writes : c.id = <<"other", n>>
              \/ \E d \in conflicts' : c.id = <<"resolve", d.id>> /\ d.verdict # "open",
           \A c \in conflicts' :
              \/ \E d \in conflicts : SameId(c, d)
              \/ \E m \in current : SameId(c, m)
              \/ \E n \in 1 .. others'.rivals : c.id = <<"rival", n>>,
           \A c \in conflicts : c.verdict # "open" =>
              \E d \in conflicts' : d.id = c.id /\ d.verdict # "open"
    PROVE  IdInv'
  <1>0. others.writes \in Nat /\ others.rivals \in Nat /\ others'.writes \in Nat /\ others'.rivals \in Nat
    BY DEF TypeInv
  <1>1. \A r, n : Stems(r, n)' <=> Stems(r, n)
    BY DEF Stems
  <1>2. ASSUME NEW c, NEW m \in current, SameId(c, m)
        PROVE  \E n \in 1 .. Len(made) : c.id = PhoneId(n) /\ Stems(c, n)
    BY <1>2 DEF IdInv, RowsStem, SameId, Stems
  <1>3. LoggedIds'
    <2> SUFFICES ASSUME NEW c \in changes'
                 PROVE  \/ \E n \in 1 .. Len(made) : c.id = PhoneId(n)
                        \/ \E n \in 1 .. others'.writes : c.id = <<"other", n>>
                        \/ \E d \in conflicts' : c.id = <<"resolve", d.id>> /\ d.verdict # "open"
      BY DEF LoggedIds
    <2>1. CASE c \in changes
      <3>1. 1 .. others.writes \subseteq 1 .. others'.writes
        BY <1>0
      <3> QED BY <2>1, <3>1 DEF IdInv, LoggedIds
    <2> QED BY <1>2, <2>1
  <1>4. DisputedIds'
    <2> SUFFICES ASSUME NEW c \in conflicts'
                 PROVE  \/ \E n \in 1 .. Len(made) : c.id = PhoneId(n)
                        \/ \E n \in 1 .. others'.rivals : c.id = <<"rival", n>>
      BY DEF DisputedIds
    <2>1. CASE \E d \in conflicts : SameId(c, d)
      <3>1. 1 .. others.rivals \subseteq 1 .. others'.rivals
        BY <1>0
      <3> QED BY <2>1, <3>1 DEF IdInv, DisputedIds, SameId
    <2> QED BY <1>2, <2>1
  <1>5. RowsStem'
    <2>1. \A m \in outbox' \cup current' : \E n \in Nat : Stems(m, n)'
      BY <1>1 DEF IdInv, RowsStem
    <2>2. ASSUME NEW c \in changes' \cup conflicts', NEW n \in Nat, c.id = PhoneId(n)
          PROVE  Stems(c, n)
      <3>1. CASE \E m \in current : SameId(c, m)
        <4>1. PICK p \in 1 .. Len(made) : c.id = PhoneId(p) /\ Stems(c, p)
          BY <1>2, <3>1
        <4>2. p = n
          <5>1. PhoneId(p) = PhoneId(n)
            BY <2>2, <4>1
          <5> QED BY <5>1, PhoneIds
        <4> QED BY <4>1, <4>2
      <3>2. CASE c \in changes \/ \E d \in conflicts : SameId(c, d)
        BY <2>2, <3>2 DEF IdInv, RowsStem, SameId, Stems
      <3>3. \A d : c.id # <<"other", d>> /\ c.id # <<"rival", d>> /\ c.id # <<"resolve", d>>
        BY <2>2, PhoneIds
      <3> QED BY <3>1, <3>2, <3>3
    <2> QED BY <1>1, <2>1, <2>2 DEF RowsStem
  <1> QED BY <1>3, <1>4, <1>5 DEF IdInv

LEMMA InitIds == Init => IdInv
  BY DEF Init, StoreInit, IdInv, LoggedIds, DisputedIds, RowsStem

(* What a step at the Gateway leaves of the conflicts.                     *)
LEMMA SettlingKeepsIds ==
    ASSUME TypeInv, NEW c \in conflicts, NEW verdict \in {"server", "client"},
           conflicts' = (conflicts \ {c}) \cup {[c EXCEPT !.verdict = verdict]}
    PROVE  /\ \A d \in conflicts' : \E e \in conflicts :
                 SameId(d, e) /\ d.value = e.value /\ d.base = e.base /\ d.serverRev = e.serverRev
           /\ \A e \in conflicts : \E d \in conflicts' :
                 /\ SameId(d, e) /\ d.value = e.value
                 /\ e.verdict # "open" => d.verdict # "open"
           /\ \E d \in conflicts' : d.id = c.id /\ d.verdict # "open"
  <1> DEFINE d == [c EXCEPT !.verdict = verdict]
  <1>1. c \in Conflict
    BY DEF TypeInv, StoreIInv, StoreTypeOK
  <1>2. /\ d.id = c.id /\ d.key = c.key /\ d.value = c.value /\ d.base = c.base
        /\ d.serverRev = c.serverRev /\ d.verdict = verdict
    BY <1>1 DEF Conflict
  <1>3. conflicts' = (conflicts \ {c}) \cup {d}
    OBVIOUS
  <1> HIDE DEF d
  <1> QED BY <1>2, <1>3 DEF SameId

LEMMA ServeKeepsIds ==
    ASSUME TypeInv, IdInv, Serve
    PROVE  IdInv'
  <1>1. PICK m \in current :
                 \/ AnsweredDuplicate(m) \/ AnsweredDisputed(m) \/ AnsweredConflict(m)
                 \/ AnsweredApplied(m) \/ AnsweredRejected
    BY ServeAnswers
  <1>2. UNCHANGED <<phoneVars, current, envVars>>
    BY ServeAnswers
  <1>3. \A c \in changes' : c \in changes \/ SameId(c, m)
    BY <1>1 DEF AnsweredDuplicate, AnsweredDisputed, AnsweredConflict, AnsweredApplied,
                AnsweredRejected, storeVars, Row, SameId
  <1>4. \A c \in conflicts' : c \in conflicts \/ SameId(c, m)
    BY <1>1 DEF AnsweredDuplicate, AnsweredDisputed, AnsweredConflict, AnsweredApplied,
                AnsweredRejected, storeVars, Collision, SameId
  <1>5. conflicts \subseteq conflicts'
    BY <1>1 DEF AnsweredDuplicate, AnsweredDisputed, AnsweredConflict, AnsweredApplied,
                AnsweredRejected, storeVars
  <1>6. \A c : SameId(c, c)
    BY DEF SameId
  <1>7. /\ UNCHANGED <<made, outbox, current, others>>
        /\ others \in [writes : Nat, rivals : Nat]
    BY <1>2 DEF TypeInv, phoneVars, envVars
  <1>8. others.writes <= others'.writes /\ others.rivals <= others'.rivals
    BY <1>7
  <1> QED BY <1>3, <1>4, <1>5, <1>6, <1>7, <1>8, StoreKeepsIds

LEMMA ChoiceKeepsIds ==
    ASSUME TypeInv, IdInv, NEW c \in conflicts, NEW verdict \in Decisions,
           Settling(c, verdict), UNCHANGED <<made, outbox, current, others>>
    PROVE  IdInv'
  <1>1. /\ conflicts' = (conflicts \ {c}) \cup {[c EXCEPT !.verdict = verdict]}
        /\ \/ UNCHANGED <<head, changes, entity, tombstone>>
           \/ changes' = changes \cup {Row(head + 1, <<"resolve", c.id>>, c.key, c.value)}
    BY SettlingIsStore
  <1>2. verdict \in {"server", "client"}
    BY MobileAssumption
  <1>3. /\ \A d \in conflicts' : \E e \in conflicts : SameId(d, e)
        /\ \A e \in conflicts : e.verdict # "open" =>
              \E d \in conflicts' : d.id = e.id /\ d.verdict # "open"
        /\ \E d \in conflicts' : d.id = c.id /\ d.verdict # "open"
    BY <1>1, <1>2, SettlingKeepsIds DEF SameId
  <1>4. \A x \in changes' :
           \/ x \in changes
           \/ \E d \in conflicts' : x.id = <<"resolve", d.id>> /\ d.verdict # "open"
    BY <1>1, <1>3 DEF Row
  <1>5. /\ others \in [writes : Nat, rivals : Nat] /\ others' = others
        /\ others.writes <= others'.writes /\ others.rivals <= others'.rivals
    BY DEF TypeInv
  <1> QED BY <1>3, <1>4, <1>5, StoreKeepsIds

LEMMA OthersKeepIds ==
    ASSUME TypeInv, IdInv, Others
    PROVE  IdInv'
  <1>0. others.writes \in Nat /\ others.rivals \in Nat /\ \A c : SameId(c, c)
    BY DEF TypeInv, SameId
  <1>1. PICK k \in Keys, v \in Contents : OtherWrites(k, v) \/ OtherDisputes(k, v)
    BY DEF Others
  <1>2. CASE OtherWrites(k, v)
    <2>1. /\ conflicts' = conflicts
          /\ changes' = changes \cup {Row(head + 1, <<"other", others.writes + 1>>, k, v)}
          /\ others' = [writes |-> others.writes + 1, rivals |-> others.rivals]
          /\ UNCHANGED <<made, outbox, current>>
      BY <1>2, OthersEffects DEF phoneVars, loopVars
    <2>2. /\ others' \in [writes : Nat, rivals : Nat] /\ others'.writes \in 1 .. others'.writes
          /\ others.writes <= others'.writes /\ others.rivals <= others'.rivals
      BY <1>0, <2>1
    <2>3. \A c \in changes' : c \in changes \/ c.id = <<"other", others'.writes>>
      BY <2>1 DEF Row
    <2> QED BY <1>0, <2>1, <2>2, <2>3, StoreKeepsIds
  <1>3. CASE OtherDisputes(k, v)
    <2>1. /\ changes' = changes
          /\ conflicts' = conflicts \cup {Collision(<<"rival", others.rivals + 1>>, k, 0, v)}
          /\ others' = [writes |-> others.writes, rivals |-> others.rivals + 1]
          /\ UNCHANGED <<made, outbox, current>>
      BY <1>3, OthersEffects DEF phoneVars, loopVars
    <2>2. /\ others' \in [writes : Nat, rivals : Nat] /\ others'.rivals \in 1 .. others'.rivals
          /\ others.writes <= others'.writes /\ others.rivals <= others'.rivals
      BY <1>0, <2>1
    <2>3. \A c \in conflicts' : c \in conflicts \/ c.id = <<"rival", others'.rivals>>
      BY <2>1 DEF Collision
    <2>4. conflicts \subseteq conflicts'
      BY <2>1
    <2> QED BY <1>0, <2>1, <2>2, <2>3, <2>4, StoreKeepsIds
  <1> QED BY <1>1, <1>2, <1>3

LEMMA ServeKeepsType ==
    ASSUME TypeInv, IdInv, Serve
    PROVE  TypeInv'
  <1>1. PICK m \in current :
                 \/ AnsweredDuplicate(m) \/ AnsweredDisputed(m) \/ AnsweredConflict(m)
                 \/ AnsweredApplied(m) \/ AnsweredRejected
    BY ServeAnswers
  <1>2. UNCHANGED <<phoneVars, current, envVars>> /\ pc' = "answered"
    BY ServeAnswers
  <1>3. [LogNext]_storeVars
    BY NextIsStore DEF Next, Loop
  <1>4. StoreIInv'
    BY <1>3, LogNextKeepsIInv DEF TypeInv
  <1>5. wire'.rev \in Revisions
    <2>1. \A c \in changes : c.rev \in Revisions
      BY DEF TypeInv, StoreIInv, StoreTypeOK, Change
    <2>2. head \in 0 .. MaxRevision /\ MaxRevision \in Nat
      BY StoreAssumption DEF TypeInv, StoreIInv, StoreTypeOK, Revisions
    <2> QED BY <1>1, <2>1, <2>2 DEF AnsweredDuplicate, AnsweredDisputed, AnsweredConflict,
                                    AnsweredApplied, AnsweredRejected, Revisions
  <1> QED BY <1>2, <1>4, <1>5 DEF TypeInv, WireTyped, phoneVars, envVars, Phases

(* The log grows.                                                          *)
LEMMA LogGrows ==
    ASSUME [LogNext]_storeVars
    PROVE  changes \subseteq changes'
  BY DEF LogNext, AppendChanges, Dispute, Settle, storeVars

LEMMA OutsideKeepsType ==
    ASSUME TypeInv, IdInv, Decide \/ Others
    PROVE  TypeInv'
  <1>1. [LogNext]_storeVars
    BY NextIsStore DEF Next
  <1>2. StoreIInv' /\ changes \subseteq changes'
    BY <1>1, LogNextKeepsIInv, LogGrows DEF TypeInv
  <1>3. /\ UNCHANGED <<current, wire, cursor, receipts, made>>
        /\ pc' = pc \/ (pc = "synced" /\ pc' = "idle")
        /\ outbox' \subseteq outbox
    <2>1. CASE Decide
      BY <2>1 DEF Decide, ChooseHere, ChoiceDone, ChooseElsewhere, phoneVars, loopVars,
                  envVars, WithoutDisputes
    <2>2. CASE Others
      BY <2>2 DEF Others, OtherWrites, OtherDisputes, phoneVars, loopVars
    <2> QED BY <2>1, <2>2
  <1>4. replica' \in [Keys -> PhoneRow]
    <2>1. CASE Decide
      <3>1. \/ replica' = replica
            \/ \E o \in choosing : replica' = [replica EXCEPT ![o.key] = Unmarked(@)]
        BY <2>1 DEF Decide, ChooseHere, ChoiceDone, ChooseElsewhere, phoneVars
      <3>2. ASSUME NEW k PROVE [replica EXCEPT ![k] = Unmarked(@)] \in [Keys -> PhoneRow]
        <4>1. CASE k \in Keys
          BY <4>1, ReplicaChanged
        <4>2. CASE k \notin Keys
          BY <4>2 DEF TypeInv
        <4> QED BY <4>1, <4>2
      <3> QED BY <3>1, <3>2 DEF TypeInv
    <2>2. CASE Others
      BY <2>2 DEF Others, OtherWrites, OtherDisputes, phoneVars, TypeInv
    <2> QED BY <2>1, <2>2
  <1>5. others' \in [writes : Nat, rivals : Nat]
    <2>1. CASE Decide
      BY <2>1 DEF Decide, ChooseHere, ChoiceDone, ChooseElsewhere, envVars, TypeInv
    <2>2. CASE Others
      BY <2>2 DEF Others, OtherWrites, OtherDisputes, TypeInv
    <2> QED BY <2>1, <2>2
  <1>6. pc' \in Phases /\ WireTyped'
    BY <1>2, <1>3 DEF TypeInv, WireTyped, Phases
  <1> QED BY <1>2, <1>3, <1>4, <1>5, <1>6 DEF TypeInv

----------------------------------------------------------------------------
(* The queue.                                                              *)

(* One mutation, in two rows of the queue or of the sync store.            *)
Twin(m, q) == m.id = q.id /\ m.key = q.key /\ m.value = q.value

OneRowEach(queue) == \A m, q \in queue : m.id = q.id => m = q

(* The loop moves mutations about and marks them; unless it queues an      *)
(* entity again it neither makes one nor changes its content.              *)
LEMMA LoopKeepsRows ==
    ASSUME TypeInv, Loop \/ LosePush \/ Stop, ~Serve, made' = made
    PROVE  /\ UNCHANGED <<storeVars, made, others>>
           /\ \A m \in outbox' \cup current' : \E q \in outbox \cup current : Twin(m, q)
  <1>1. UNCHANGED <<storeVars, made, others>>
    BY LoopLeaves
  <1>2. \A m : Twin(m, m)
    BY DEF Twin
  <1>3. ASSUME NEW m \in outbox \cup current
        PROVE  /\ Twin([m EXCEPT !.state = "sending", !.sent = TRUE], m)
               /\ \A s : Twin([m EXCEPT !.state = s], m)
               /\ \A r : Twin([m EXCEPT !.base = r], m)
    BY DEF Twin, TypeInv, QueuedRow
  <1>4. ASSUME NEW x, NEW m \in outbox \cup current, Twin(x, m), outbox' = Rewritten(x)
        PROVE  \A r \in outbox' : \E q \in outbox \cup current : Twin(r, q)
    BY <1>2, <1>4 DEF Rewritten
  <1>5. CASE \/ StartSync \/ FetchStates \/ TakeStates \/ FetchConflicts
             \/ FetchPage \/ TakePage \/ Stop
    BY <1>1, <1>2, <1>5 DEF StartSync, FetchStates, TakeStates, FetchConflicts,
                            FetchPage, TakePage, Stop, phoneVars
  <1>6. CASE ReadQueue
    <2>1. outbox' = outbox /\ current' \subseteq outbox \cup current
      BY <1>6 DEF ReadQueue, phoneVars, Oldest, Pending
    <2> QED BY <1>1, <1>2, <2>1
  <1>7. CASE MarkSending
    BY <1>1, <1>2, <1>3, <1>4, <1>7 DEF MarkSending
  <1>8. CASE TakeConflict \/ TakeRejection
    <2>1. PICK m \in current : \/ outbox' = Rewritten([m EXCEPT !.state = "conflict"])
                               \/ outbox' = Rewritten([m EXCEPT !.state = "pending"])
      BY <1>8 DEF TakeConflict, TakeRejection, Requeued
    <2>2. current' = current
      BY <1>8 DEF TakeConflict, TakeRejection
    <2>3. \A r \in outbox' : \E q \in outbox \cup current : Twin(r, q)
      BY <1>3, <1>4, <2>1
    <2> QED BY <1>1, <1>2, <2>2, <2>3
  <1>9. CASE TakeAcknowledgement
    <2>1. current' = current
          /\ \E m \in current : outbox' = Rest(m)
      BY <1>9, Acknowledged DEF TakeAcknowledgement
    <2>2. ASSUME NEW r \in outbox' PROVE \E q \in outbox : Twin(r, q)
      <3>1. PICK q \in outbox : r = q \/ r = [q EXCEPT !.base = wire.rev]
        BY <2>1 DEF Rest, Rebased
      <3> QED BY <1>2, <1>3, <3>1
    <2> QED BY <1>1, <1>2, <2>1, <2>2
  <1>10. CASE LosePush
    <2>1. current' = current /\ \E m \in current : outbox' = Retried(m)
      BY <1>10 DEF LosePush
    <2>2. ASSUME NEW r \in outbox' PROVE \E q \in outbox : Twin(r, q)
      <3>1. PICK q \in outbox : r = q \/ r = [q EXCEPT !.state = "pending"]
        BY <2>1 DEF Retried
      <3>2. Twin([q EXCEPT !.state = "pending"], q) /\ Twin(q, q)
        BY <1>2, <1>3
      <3> QED BY <3>1, <3>2
    <2> QED BY <1>1, <1>2, <2>1, <2>2
  <1>11. CASE TakeConflicts
    <2>1. current' = current /\ outbox' \subseteq outbox
      BY <1>11 DEF TakeConflicts, WithoutDisputes
    <2> QED BY <1>1, <1>2, <2>1
  <1> QED BY <1>5, <1>6, <1>7, <1>8, <1>9, <1>10, <1>11 DEF Loop

(* A new mutation joins the queue; the others may change their order's     *)
(* marks, or leave.                                                        *)
Joins(new) ==
    /\ made' = Append(made, [key |-> new.key, value |-> new.value])
    /\ new.id = PhoneId(Len(made) + 1) /\ new.key \in Keys /\ new.value \in Contents
    /\ new.state = "pending"
    /\ new \in outbox'
    /\ \A m \in outbox' \ {new} : \E q \in outbox : Twin(m, q) /\ m.state = q.state
    /\ OneRowEach(outbox) => OneRowEach(outbox' \ {new})

(* Mutations that leave the queue are in the log.                          *)
Stays == \A q \in outbox : Logged(q.id) \/ \E m \in outbox' : m.id = q.id

(* An edit is merged into a mutation.                                      *)
Merges(m, v) ==
    /\ m \in outbox /\ m.key \in Coalescing /\ m.state = "pending"
    /\ outbox' = (outbox \ {m}) \cup {[m EXCEPT !.value = v]}
    /\ made' = [made EXCEPT ![m.id[2]].value = v]

LEMMA EditChangesQueue ==
    ASSUME TypeInv, Edit
    PROVE  /\ UNCHANGED <<storeVars, cursor, opened, receipts, loopVars, choosing, others>>
           /\ \/ Stays /\ \E new : Joins(new)
              \/ \E m \in outbox, v \in Contents : Merges(m, v)
  <1>1. UNCHANGED <<storeVars, cursor, opened, receipts, loopVars, choosing, others>>
    BY DEF Edit, Save, Delete
  <1>0. \A m : Twin(m, m)
    BY DEF Twin
  <1>2. ASSUME NEW k \in Keys, NEW v \in Contents, NEW rows,
               \A r \in rows : \E q \in outbox : Twin(r, q) /\ r.state = q.state,
               \A q \in outbox : \E r \in rows : Twin(r, q),
               OneRowEach(outbox) => OneRowEach(rows), outbox' = rows \cup {NewMutation(k, v)},
               made' = Append(made, [key |-> k, value |-> v])
        PROVE  Stays /\ Joins(NewMutation(k, v))
    <2> DEFINE new == NewMutation(k, v)
    <2>1. new.id = PhoneId(Len(made) + 1) /\ new.key = k /\ new.value = v /\ new.state = "pending"
      BY DEF NewMutation
    <2>2. outbox' = rows \cup {new}
      BY <1>2
    <2> HIDE DEF new
    <2>3. OneRowEach(outbox) => OneRowEach(outbox' \ {new})
      BY <1>2, <2>2 DEF OneRowEach
    <2>4. Stays
      BY <1>2, <2>2 DEF Stays, Twin
    <2>5. \A m \in outbox' \ {new} : \E q \in outbox : Twin(m, q) /\ m.state = q.state
      BY <1>2, <2>2
    <2>6. Joins(new)
      BY <1>2, <2>1, <2>2, <2>3, <2>5 DEF Joins
    <2> QED BY <2>4, <2>6 DEF new
  <1>4. ASSUME NEW k \in Keys, NEW v \in Values, Save(k, v)
        PROVE  \/ Stays /\ \E new : Joins(new)
               \/ \E m \in outbox : Merges(m, v)
    <2>1. CASE /\ outbox' = outbox \cup {NewMutation(k, v)}
               /\ made' = Append(made, [key |-> k, value |-> v])
      <3>1. v \in Contents
        BY DEF Contents
      <3>2. Stays /\ Joins(NewMutation(k, v))
        BY <1>0, <1>2, <2>1, <3>1
      <3> QED BY <3>2
    <2>2. CASE \E m \in Newest(Mergeable(k)) :
                  /\ outbox' = (outbox \ {m}) \cup {[m EXCEPT !.value = v]}
                  /\ made' = [made EXCEPT ![m.id[2]].value = v]
      BY <2>2 DEF Newest, Mergeable, Waiting, Merges
    <2> QED BY <1>4, <2>1, <2>2 DEF Save
  <1>5. ASSUME NEW k \in Keys, Delete(k)
        PROVE  Stays /\ Joins(NewMutation(k, None))
    <2> DEFINE f(m) == IF m.state = "conflict" THEN m ELSE [m EXCEPT !.sealed = TRUE]
               rows == {f(m) : m \in outbox}
    <2>1. /\ outbox' = rows \cup {NewMutation(k, None)}
          /\ made' = Append(made, [key |-> k, value |-> None])
      BY <1>5 DEF Delete
    <2>2. \A m \in outbox : Twin(f(m), m) /\ f(m).state = m.state
      <3> SUFFICES ASSUME NEW m \in outbox PROVE Twin(f(m), m) /\ f(m).state = m.state
        OBVIOUS
      <3>1. /\ Twin([m EXCEPT !.sealed = TRUE], m)
            /\ [m EXCEPT !.sealed = TRUE].state = m.state
        BY DEF Twin, TypeInv, QueuedRow
      <3> QED BY <1>0, <3>1
    <2>3. None \in Contents
      BY DEF Contents
    <2> HIDE DEF f
    <2>4. /\ \A r \in rows : \E q \in outbox : Twin(r, q) /\ r.state = q.state
          /\ \A q \in outbox : \E r \in rows : Twin(r, q)
          /\ OneRowEach(outbox) => OneRowEach(rows)
      BY <2>2 DEF OneRowEach, Twin
    <2> HIDE DEF rows
    <2> QED BY <1>2, <2>1, <2>3, <2>4
  <1>6. Values \subseteq Contents
    BY DEF Contents
  <1> QED BY <1>1, <1>4, <1>5, <1>6 DEF Edit

(* The rest of the queue after an acknowledgement of m.                    *)
LEMMA RestRows ==
    ASSUME TypeInv, NEW m \in current
    PROVE  /\ OneRowEach(outbox) => OneRowEach(Rest(m))
           /\ \A r \in Rest(m) : \E q \in outbox : Twin(r, q) /\ r.state = q.state
           /\ \A q \in outbox : q.id = m.id \/ \E r \in Rest(m) : Twin(r, q)
  <1> DEFINE queue == {q \in outbox : q.id # m.id}
             f(q) == IF q.key = m.key /\ q.state = "pending" /\ ~q.sent
                     THEN [q EXCEPT !.base = wire.rev] ELSE q
  <1>1. ASSUME NEW q \in queue PROVE Twin(f(q), q) /\ f(q).state = q.state
    <2>1. Twin([q EXCEPT !.base = wire.rev], q) /\ [q EXCEPT !.base = wire.rev].state = q.state
      BY DEF Twin, TypeInv, QueuedRow
    <2>2. Twin(q, q)
      BY DEF Twin
    <2> QED BY <2>1, <2>2
  <1>2. Rest(m) = {f(q) : q \in queue}
    BY DEF Rest, Rebased
  <1> HIDE DEF f
  <1>3. \A q \in outbox : q.id = m.id \/ q \in queue
    OBVIOUS
  <1>4. queue \subseteq outbox
    OBVIOUS
  <1> HIDE DEF queue
  <1> QED BY <1>1, <1>2, <1>3, <1>4 DEF OneRowEach, Twin

(* An acknowledgement that queues the entity again adds to the queue as an *)
(* edit does, and takes the mutation out.                                  *)
LEMMA RequeueChangesQueue ==
    ASSUME TypeInv, TakeAcknowledgement, made' # made
    PROVE  \E m \in current : \E new :
              /\ Joins(new)
              /\ \A q \in outbox : q.id = m.id \/ \E r \in outbox' : Twin(r, q)
  <1>1. PICK m \in current : Requeues(m)
    BY Acknowledged
  <1>2. wire.rev \in Revisions
    BY DEF TakeAcknowledgement, TypeInv, WireTyped
  <1>3. PICK new : new = Again(m)
    OBVIOUS
  <1>4. /\ m.key \in Keys /\ replica[m.key].value \in Contents
        /\ new.id = PhoneId(Len(made) + 1) /\ new.key = m.key
        /\ new.value = replica[m.key].value /\ new.state = "pending"
    BY <1>2, <1>3, AgainTyped
  <1>5. outbox' = Rest(m) \cup {new}
        /\ made' = Append(made, [key |-> m.key, value |-> replica[m.key].value])
    BY <1>1, <1>3 DEF Requeues
  <1>6. /\ OneRowEach(outbox) => OneRowEach(Rest(m))
        /\ \A r \in Rest(m) : \E q \in outbox : Twin(r, q) /\ r.state = q.state
        /\ \A q \in outbox : q.id = m.id \/ \E r \in Rest(m) : Twin(r, q)
    BY RestRows
  <1>7. OneRowEach(outbox) => OneRowEach(outbox' \ {new})
    BY <1>5, <1>6 DEF OneRowEach
  <1>8. Joins(new)
    BY <1>4, <1>5, <1>6, <1>7 DEF Joins
  <1> QED BY <1>5, <1>6, <1>8

(* The numbers and contents of the mutations once one has joined.          *)
LEMMA JoinedMade ==
    ASSUME TypeInv, NEW new, Joins(new)
    PROVE  /\ Len(made') = Len(made) + 1 /\ Len(made) \in Nat
           /\ made'[Len(made) + 1] = [key |-> new.key, value |-> new.value]
           /\ \A n \in 1 .. Len(made) : made'[n] = made[n]
  BY NewMutationTyped DEF Joins, TypeInv

LEMMA JoiningKeepsIds ==
    ASSUME TypeInv, IdInv, NEW new, Joins(new), UNCHANGED <<changes, conflicts, others, current>>
    PROVE  IdInv'
  <1>1. /\ Len(made') = Len(made) + 1 /\ Len(made) \in Nat
        /\ made'[Len(made) + 1] = [key |-> new.key, value |-> new.value]
        /\ \A n \in 1 .. Len(made) : made'[n] = made[n]
    BY JoinedMade
  <1>2. \A n : n = Len(made) + 1 => Stems(new, n)'
    <2> SUFFICES ASSUME NEW n, n = Len(made) + 1 PROVE Stems(new, n)'
      OBVIOUS
    <2>1. n \in 1 .. Len(made') /\ made'[n].key = new.key
      BY <1>1
    <2>2. new.id = PhoneId(n)
      BY DEF Joins
    <2> QED BY <2>1, <2>2 DEF Stems
  <1>3. ASSUME NEW m \in outbox' \cup current'
        PROVE  \/ \E q \in outbox \cup current : SameId(m, q)
               \/ \E n \in Nat : Stems(m, n)'
    <2>1. CASE m = new
      BY <1>1, <1>2, <2>1
    <2>2. CASE m # new
      BY <2>2 DEF Joins, SameId, Twin
    <2> QED BY <2>1, <2>2
  <1> QED BY <1>1, <1>3, PhoneKeepsIds

LEMMA EditKeepsIds ==
    ASSUME TypeInv, IdInv, Edit
    PROVE  IdInv'
  <1>0. UNCHANGED <<changes, conflicts, others, current>> /\ Len(made) \in Nat
    BY EditChangesQueue DEF storeVars, loopVars, TypeInv
  <1>1. ASSUME NEW m \in outbox, NEW v \in Contents, Merges(m, v)
        PROVE  IdInv'
    <2>1. Len(made') = Len(made) /\ \A n \in 1 .. Len(made) : made'[n].key = made[n].key
      BY <1>1, MergedEdit DEF Merges
    <2>2. SameId([m EXCEPT !.value = v], m) /\ \A q : SameId(q, q)
      BY DEF SameId, TypeInv, QueuedRow
    <2>3. \A r \in outbox' \cup current' : \E q \in outbox \cup current : SameId(r, q)
      BY <1>0, <1>1, <2>2 DEF Merges
    <2> QED BY <1>0, <2>1, <2>3, PhoneKeepsIds
  <1> QED BY <1>0, <1>1, JoiningKeepsIds, EditChangesQueue

(* A step of the loop that queues an entity again, and changes nothing     *)
(* outside the phone.                                                      *)
Requeueing == TakeAcknowledgement /\ made' # made

LEMMA RequeueKeepsIds ==
    ASSUME TypeInv, IdInv, Requeueing
    PROVE  IdInv'
  <1>1. UNCHANGED <<changes, conflicts, others, current>>
    BY DEF Requeueing, TakeAcknowledgement, storeVars
  <1> QED BY <1>1, RequeueChangesQueue, JoiningKeepsIds DEF Requeueing

(* The invariant the rest is proved from.                                  *)
LEMMA NextKeepsIds ==
    ASSUME TypeInv, IdInv, [Next]_vars
    PROVE  TypeInv' /\ IdInv'
  <1>0. Len(made) \in Nat /\ \A m : SameId(m, m)
    BY DEF TypeInv, SameId
  <1>1. CASE Edit
    BY <1>1, EditKeepsType, EditKeepsIds
  <1>2. CASE Serve
    BY <1>2, ServeKeepsType, ServeKeepsIds
  <1>3. CASE (Loop \/ LosePush \/ Stop) /\ ~Serve
    <2>1. CASE made' = made
      <3>1. UNCHANGED <<changes, conflicts, others, made>>
        BY <1>3, <2>1, LoopKeepsRows DEF storeVars
      <3>2. \A m \in outbox' \cup current' : \E q \in outbox \cup current : SameId(m, q)
        BY <1>3, <2>1, LoopKeepsRows DEF Twin, SameId
      <3>3. IdInv'
        BY <1>0, <3>1, <3>2, PhoneKeepsIds
      <3> QED BY <1>3, <3>3, LoopKeepsType
    <2>2. CASE made' # made
      <3>1. IdInv'
        BY <1>3, <2>2, LoopLeaves, RequeueKeepsIds DEF Requeueing
      <3> QED BY <1>3, <3>1, LoopKeepsType
    <2> QED BY <2>1, <2>2
  <1>4. CASE Others
    BY <1>4, OutsideKeepsType, OthersKeepIds
  <1>5. CASE Decide
    <2>1. CASE \E o \in choosing : ChoiceDone(o)
      <3>1. UNCHANGED <<changes, conflicts, others, made, current>> /\ outbox' \subseteq outbox
        BY <2>1 DEF ChoiceDone, WithoutDisputes, storeVars
      <3> QED BY <1>0, <1>5, <3>1, PhoneKeepsIds, OutsideKeepsType
    <2>2. CASE \E c \in conflicts, verdict \in Decisions :
                  Settling(c, verdict) /\ UNCHANGED <<made, outbox, current, others>>
      BY <1>5, <2>2, ChoiceKeepsIds, OutsideKeepsType
    <2> QED BY <1>5, <2>1, <2>2 DEF Decide, ChooseHere, ChooseElsewhere, phoneVars,
                                    loopVars, envVars
  <1>6. CASE UNCHANGED vars
    <2>1. StoreIInv'
      BY <1>6, LogNextKeepsIInv DEF TypeInv, vars
    <2>2. TypeInv'
      BY <1>6, <2>1 DEF TypeInv, WireTyped, vars, phoneVars, loopVars, envVars, storeVars
    <2>3. IdInv'
      BY <1>0, <1>6, PhoneKeepsIds DEF vars, phoneVars, loopVars, envVars, storeVars
    <2> QED BY <2>2, <2>3
  <1> QED BY <1>1, <1>2, <1>3, <1>4, <1>5, <1>6 DEF Next

(* The phone, the other devices and the Gateway together implement the     *)
(* store of SyncStore: whatever is lost, retried, settled or refused, each *)
(* step is one transaction of its tables or leaves them alone.             *)
THEOREM MobileImplementsStore == Spec => StoreSpec
  <1>1. Init => StoreInit
    BY DEF Init
  <1>2. [LogNext]_storeVars => [StoreNext]_storeVars
    BY DEF StoreNext
  <1> QED BY <1>1, <1>2, InitTyped, InitIds, NextKeepsIds, NextIsStore, PTL DEF Spec, StoreSpec

----------------------------------------------------------------------------
(* What the loop knows of the mutation it pushes, and of the conflicts.    *)

OneCurrent == \A m, q \in current : m = q

(* A mutation marked as in conflict is in one at the Gateway.              *)
DisputedRows == \A m \in outbox : m.state = "conflict" => Disputed(m.id)

(* So is one the Gateway answered with a conflict; one it acknowledged is  *)
(* in the log.                                                             *)
AnswersFit ==
    pc = "answered" => \A m \in current :
       /\ wire.status \in {"applied", "duplicate"} => Logged(m.id)
       /\ wire.status = "conflict" => Disputed(m.id)

QueueInv == OneRowEach(outbox) /\ OneCurrent /\ DisputedRows /\ AnswersFit

(* What is logged or disputed stays so.                                    *)
LEMMA SyncStays ==
    ASSUME TypeInv, IdInv, [Next]_vars
    PROVE  /\ changes \subseteq changes'
           /\ \A c \in conflicts : \E d \in conflicts' : Twin(d, c)
           /\ \A id : Logged(id) => Logged(id)'
           /\ \A id : Disputed(id) => Disputed(id)'
  <1>1. [LogNext]_storeVars
    BY NextIsStore
  <1>2. changes \subseteq changes'
    BY <1>1, LogGrows
  <1>3. StoreTypeOK /\ StoreTypeOK'
    BY <1>1, LogNextKeepsIInv DEF TypeInv, StoreIInv
  <1>4. ASSUME NEW c \in conflicts PROVE \E d \in conflicts' : Twin(d, c)
    <2>1. PICK d \in conflicts' : [d EXCEPT !.verdict = c.verdict] = c
      BY <1>1, <1>3, StepKeepsVersions
    <2>2. d \in Conflict'
      BY <1>3 DEF StoreTypeOK
    <2>3. LET x == [d EXCEPT !.verdict = c.verdict]
          IN  x.id = d.id /\ x.key = d.key /\ x.value = d.value
      BY <2>2 DEF Conflict
    <2> QED BY <2>1, <2>3 DEF Twin
  <1>5. \A id : Logged(id) => Logged(id)'
    BY <1>2 DEF Logged
  <1>6. \A id : Disputed(id) => Disputed(id)'
    BY <1>4 DEF Disputed, Twin
  <1> QED BY <1>2, <1>4, <1>5, <1>6

(* The loop's changes of the queue leave one row of each mutation.         *)
LEMMA LoopKeepsRowEach ==
    ASSUME TypeInv, OneRowEach(outbox)
    PROVE  /\ \A x : OneRowEach(Rewritten(x)) /\ \A r \in Rewritten(x) : \E q \in outbox : r.id = q.id
           /\ \A x : OneRowEach(Retried(x)) /\ \A r \in Retried(x) : \E q \in outbox : r.id = q.id
  <1>1. ASSUME NEW x
        PROVE  OneRowEach(Rewritten(x)) /\ \A r \in Rewritten(x) : \E q \in outbox : r.id = q.id
    BY DEF Rewritten, OneRowEach
  <1>2. ASSUME NEW m \in outbox
        PROVE  [m EXCEPT !.state = "pending"].id = m.id
    BY DEF TypeInv, QueuedRow
  <1>3. ASSUME NEW x
        PROVE  OneRowEach(Retried(x)) /\ \A r \in Retried(x) : \E q \in outbox : r.id = q.id
    <2> DEFINE f(q) == IF q.id = x.id /\ q.state = "sending" THEN [q EXCEPT !.state = "pending"] ELSE q
    <2>1. \A q \in outbox : f(q).id = q.id
      BY <1>2
    <2>2. Retried(x) = {f(q) : q \in outbox}
      BY DEF Retried
    <2> HIDE DEF f
    <2> QED BY <2>1, <2>2 DEF OneRowEach
  <1> QED BY <1>1, <1>3

(* The queue after a step of the loop: which mutations are in it and being *)
(* pushed, and which were taken out.                                       *)
LEMMA LoopQueue ==
    ASSUME TypeInv, QueueInv, Loop \/ LosePush \/ Stop, ~Serve, made' = made
    PROVE  /\ OneRowEach(outbox')
           /\ \A m \in outbox' : \E q \in outbox : m.id = q.id
           /\ \A m \in outbox' : m.state = "conflict" => Disputed(m.id)
           /\ \A q \in outbox : Logged(q.id) \/ Disputed(q.id) \/ \E m \in outbox' : m.id = q.id
           /\ \/ current' = current /\ pc # "push" /\ (pc' = "mark" => pc = "mark")
                                   /\ (pc' = "sent" => pc \in {"mark", "sent"})
              \/ pc = "push" /\ pc' = "mark" /\ current' = Oldest(Pending) /\ outbox' = outbox
              \/ pc' \notin {"mark", "sent", "answered"} /\ current' = current
           /\ pc' # "answered"
  <1>0. /\ OneRowEach(outbox) /\ DisputedRows /\ AnswersFit
        /\ \A m \in outbox \cup current : m \in QueuedRow
    BY DEF QueueInv, TypeInv
  <1>1. ASSUME NEW m \in current, NEW x, x.id = m.id, outbox' = Rewritten(x),
               x.state = "conflict" => Disputed(m.id)
        PROVE  /\ OneRowEach(outbox')
               /\ \A r \in outbox' : \E q \in outbox : r.id = q.id
               /\ \A r \in outbox' : r.state = "conflict" => Disputed(r.id)
               /\ \A q \in outbox : \E r \in outbox' : r.id = q.id
    <2>1. OneRowEach(outbox') /\ \A r \in outbox' : \E q \in outbox : r.id = q.id
      BY <1>0, <1>1, LoopKeepsRowEach
    <2>2. \A r \in outbox' : r = x \/ r \in outbox
      BY <1>1 DEF Rewritten
    <2>3. \A q \in outbox : (IF q.id = x.id THEN x ELSE q) \in outbox'
      BY <1>1 DEF Rewritten
    <2> QED BY <1>0, <1>1, <2>1, <2>2, <2>3 DEF DisputedRows
  <1>2. ASSUME outbox' \subseteq outbox
        PROVE  /\ OneRowEach(outbox')
               /\ \A m \in outbox' : \E q \in outbox : m.id = q.id
               /\ \A m \in outbox' : m.state = "conflict" => Disputed(m.id)
    BY <1>0, <1>2 DEF OneRowEach, DisputedRows
  <1>3. CASE \/ StartSync \/ FetchStates \/ TakeStates \/ FetchConflicts
             \/ FetchPage \/ TakePage \/ Stop
    <2>1. outbox' = outbox /\ current' = current /\ pc' \notin {"mark", "sent", "answered"}
      BY <1>3 DEF StartSync, FetchStates, TakeStates, FetchConflicts, FetchPage,
                  TakePage, Stop, phoneVars
    <2> QED BY <1>2, <2>1
  <1>4. CASE ReadQueue
    <2>1. outbox' = outbox
          /\ \/ pc' = "refresh" /\ current' = current
             \/ pc = "push" /\ pc' = "mark" /\ current' = Oldest(Pending)
      BY <1>4 DEF ReadQueue, phoneVars
    <2> QED BY <1>2, <2>1
  <1>5. CASE MarkSending
    <2>1. PICK m \in current : outbox' = Rewritten([m EXCEPT !.state = "sending", !.sent = TRUE])
      BY <1>5 DEF MarkSending
    <2>2. LET x == [m EXCEPT !.state = "sending", !.sent = TRUE]
          IN  x.id = m.id /\ x.state = "sending"
      BY <1>0 DEF QueuedRow
    <2>3. pc = "mark" /\ pc' = "sent" /\ current' = current
      BY <1>5 DEF MarkSending
    <2>4. /\ OneRowEach(outbox')
          /\ \A r \in outbox' : \E q \in outbox : r.id = q.id
          /\ \A r \in outbox' : r.state = "conflict" => Disputed(r.id)
          /\ \A q \in outbox : \E r \in outbox' : r.id = q.id
      BY <1>1, <2>1, <2>2
    <2> QED BY <2>3, <2>4
  <1>6. CASE TakeAcknowledgement
    <2>1. PICK m \in current : outbox' = Rest(m)
      BY <1>6, Acknowledged
    <2>2. Logged(m.id) /\ current' = current /\ pc' = "push"
      BY <1>0, <1>6 DEF TakeAcknowledgement, AnswersFit
    <2>3. /\ OneRowEach(outbox')
          /\ \A r \in outbox' : \E q \in outbox : Twin(r, q) /\ r.state = q.state
          /\ \A q \in outbox : q.id = m.id \/ \E r \in outbox' : Twin(r, q)
      BY <1>0, <2>1, RestRows
    <2>4. \A r \in outbox' : r.state = "conflict" => Disputed(r.id)
      BY <1>0, <2>3 DEF DisputedRows, Twin
    <2> QED BY <2>2, <2>3, <2>4 DEF Twin
  <1>7. CASE TakeConflict \/ TakeRejection
    <2>1. PICK m \in current, s \in {"conflict", "pending"} :
             /\ outbox' = Rewritten([m EXCEPT !.state = s])
             /\ s = "conflict" => pc = "answered" /\ wire.status = "conflict"
      BY <1>7 DEF TakeConflict, TakeRejection, Requeued
    <2>2. LET x == [m EXCEPT !.state = s] IN x.id = m.id /\ x.state = s
      BY <1>0 DEF QueuedRow
    <2>3. s = "conflict" => Disputed(m.id)
      BY <1>0, <2>1 DEF AnswersFit
    <2>4. pc' = "refresh" /\ current' = current
      BY <1>7 DEF TakeConflict, TakeRejection
    <2>5. /\ OneRowEach(outbox')
          /\ \A r \in outbox' : \E q \in outbox : r.id = q.id
          /\ \A r \in outbox' : r.state = "conflict" => Disputed(r.id)
          /\ \A q \in outbox : \E r \in outbox' : r.id = q.id
      BY <1>1, <2>1, <2>2, <2>3
    <2> QED BY <2>4, <2>5
  <1>8. CASE LosePush
    <2>1. PICK m \in current : outbox' = Retried(m)
      BY <1>8 DEF LosePush
    <2> DEFINE f(q) == IF q.id = m.id /\ q.state = "sending" THEN [q EXCEPT !.state = "pending"] ELSE q
    <2>2. OneRowEach(outbox') /\ \A r \in outbox' : \E q \in outbox : r.id = q.id
      BY <1>0, <2>1, LoopKeepsRowEach
    <2>3. ASSUME NEW q \in outbox
          PROVE  f(q).id = q.id /\ (f(q).state = "conflict" => q.state = "conflict")
      <3>1. [q EXCEPT !.state = "pending"].id = q.id /\ [q EXCEPT !.state = "pending"].state = "pending"
        BY <1>0 DEF QueuedRow
      <3> QED BY <3>1
    <2>4. outbox' = {f(q) : q \in outbox}
      BY <2>1 DEF Retried
    <2> HIDE DEF f
    <2>5. \A r \in outbox' : r.state = "conflict" => Disputed(r.id)
      BY <1>0, <2>3, <2>4 DEF DisputedRows
    <2>6. \A q \in outbox : \E r \in outbox' : r.id = q.id
      BY <2>3, <2>4
    <2>7. pc' = "idle" /\ current' = current
      BY <1>8 DEF LosePush
    <2> QED BY <2>2, <2>5, <2>6, <2>7
  <1>9. CASE TakeConflicts
    <2>1. /\ outbox' \subseteq outbox
          /\ \A q \in outbox : q \in outbox' \/ q.state = "conflict"
      BY <1>9 DEF TakeConflicts, WithoutDisputes
    <2>2. pc' = "pull" /\ current' = current
      BY <1>9 DEF TakeConflicts
    <2> QED BY <1>0, <1>2, <2>1, <2>2 DEF DisputedRows
  <1> QED BY <1>3, <1>4, <1>5, <1>6, <1>7, <1>8, <1>9 DEF Loop

(* Outside the loop only mutations in conflict leave the queue.            *)
LEMMA OutsideQueue ==
    ASSUME Decide \/ Others
    PROVE  /\ outbox' \subseteq outbox /\ UNCHANGED <<current, wire, made>>
           /\ \A q \in outbox : q \in outbox' \/ q.state = "conflict"
           /\ pc' \in {"mark", "sent", "answered"} => pc' = pc
  <1>1. CASE Decide
    BY <1>1 DEF Decide, ChooseHere, ChoiceDone, ChooseElsewhere, phoneVars, loopVars,
                envVars, WithoutDisputes
  <1>2. CASE Others
    BY <1>2 DEF Others, OtherWrites, OtherDisputes, phoneVars, loopVars
  <1> QED BY <1>1, <1>2

(* The mutation read last is the only one, as the rows have numbers.       *)
LEMMA OldestIsOne ==
    ASSUME TypeInv, OneRowEach(outbox)
    PROVE  \A m, q \in Oldest(Pending) : m = q
  <1> SUFFICES ASSUME NEW m \in Oldest(Pending), NEW q \in Oldest(Pending)
               PROVE  m = q
    OBVIOUS
  <1>1. m \in outbox /\ q \in outbox /\ m.id[2] <= q.id[2] /\ q.id[2] <= m.id[2]
    BY DEF Oldest, Pending
  <1>2. PICK i \in Nat : m.id = PhoneId(i)
    BY <1>1, RowsChanged DEF TypeInv
  <1>3. PICK j \in Nat : q.id = PhoneId(j)
    BY <1>1, RowsChanged DEF TypeInv
  <1>4. i <= j /\ j <= i
    BY <1>1, <1>2, <1>3, PhoneIds
  <1>5. i = j
    BY <1>4
  <1> QED BY <1>1, <1>2, <1>3, <1>5 DEF OneRowEach

LEMMA ServeKeepsQueue ==
    ASSUME TypeInv, IdInv, QueueInv, Serve
    PROVE  QueueInv'
  <1>1. PICK m \in current :
                 \/ AnsweredDuplicate(m) \/ AnsweredDisputed(m) \/ AnsweredConflict(m)
                 \/ AnsweredApplied(m) \/ AnsweredRejected
    BY ServeAnswers
  <1>2. UNCHANGED <<phoneVars, current, envVars>>
    BY ServeAnswers
  <1>3. \A id : Disputed(id) => Disputed(id)'
    BY SyncStays DEF Next, Loop
  <1>4. /\ wire'.status \in {"applied", "duplicate"} => Logged(m.id)'
        /\ wire'.status = "conflict" => Disputed(m.id)'
    <2>1. CASE AnsweredDuplicate(m)
      BY <2>1 DEF AnsweredDuplicate, Logged, storeVars
    <2>2. CASE AnsweredDisputed(m)
      BY <1>3, <2>2 DEF AnsweredDisputed
    <2>3. CASE AnsweredConflict(m)
      <3>1. Collision(m.id, m.key, m.base, m.value).id = m.id
        BY DEF Collision
      <3> QED BY <2>3, <3>1 DEF AnsweredConflict, Disputed
    <2>4. CASE AnsweredApplied(m)
      <3>1. Row(head + 1, m.id, m.key, m.value).id = m.id
        BY DEF Row
      <3> QED BY <2>4, <3>1 DEF AnsweredApplied, Logged
    <2>5. CASE AnsweredRejected
      BY <2>5 DEF AnsweredRejected
    <2> QED BY <1>1, <2>1, <2>2, <2>3, <2>4, <2>5
  <1>5. \A q \in current : q = m
    BY <1>1 DEF QueueInv, OneCurrent
  <1>6. outbox' = outbox /\ current' = current
    BY <1>2 DEF phoneVars
  <1>7. OneRowEach(outbox)' /\ OneCurrent'
    BY <1>6 DEF QueueInv, OneCurrent, OneRowEach
  <1>8. DisputedRows'
    BY <1>3, <1>6 DEF QueueInv, DisputedRows
  <1>9. AnswersFit'
    BY <1>4, <1>5, <1>6 DEF AnswersFit
  <1> QED BY <1>7, <1>8, <1>9 DEF QueueInv

(* A mutation that joins the queue is the only row of its id.              *)
LEMMA JoiningKeepsRows ==
    ASSUME TypeInv, IdInv, QueueInv, NEW new, Joins(new), UNCHANGED conflicts
    PROVE  OneRowEach(outbox') /\ DisputedRows'
  <1>1. new.id = PhoneId(Len(made) + 1) /\ new.state = "pending"
    BY DEF Joins
  <1>2. \A m \in outbox : m.id # new.id
    <2>1. \A m \in outbox : \E n \in 1 .. Len(made) : m.id = PhoneId(n)
      BY DEF IdInv, RowsStem, Stems
    <2>2. \A n \in 1 .. Len(made) : PhoneId(n) # PhoneId(Len(made) + 1)
      BY PhoneIds DEF TypeInv
    <2> QED BY <1>1, <2>1, <2>2
  <1>3. /\ \A m \in outbox' : m = new \/ \E q \in outbox : Twin(m, q) /\ m.state = q.state
        /\ \A m, q \in outbox' : m # new /\ q # new /\ m.id = q.id => m = q
    BY DEF Joins, QueueInv, OneRowEach
  <1>4. OneRowEach(outbox')
    BY <1>2, <1>3 DEF OneRowEach, Twin
  <1>5. \A id : Disputed(id)' <=> Disputed(id)
    BY DEF Disputed
  <1>6. DisputedRows'
    BY <1>1, <1>3, <1>5 DEF QueueInv, DisputedRows, Twin
  <1> QED BY <1>4, <1>6

LEMMA EditKeepsQueue ==
    ASSUME TypeInv, IdInv, QueueInv, Edit
    PROVE  QueueInv'
  <1>1. UNCHANGED <<changes, conflicts, pc, current, wire>>
    BY EditChangesQueue DEF storeVars, loopVars
  <1>2. OneCurrent' /\ AnswersFit'
    BY <1>1 DEF QueueInv, OneCurrent, AnswersFit, Logged, Disputed
  <1>3. \A id : Disputed(id)' <=> Disputed(id)
    BY <1>1 DEF Disputed
  <1>4. ASSUME NEW new, Joins(new)
        PROVE  OneRowEach(outbox') /\ DisputedRows'
    BY <1>1, <1>4, JoiningKeepsRows
  <1>5. ASSUME NEW m \in outbox, NEW v \in Contents, Merges(m, v)
        PROVE  OneRowEach(outbox') /\ DisputedRows'
    <2> DEFINE new == [m EXCEPT !.value = v]
    <2>1. new.id = m.id /\ new.state = m.state
      BY DEF TypeInv, QueuedRow
    <2>2. outbox' = (outbox \ {m}) \cup {new}
      BY <1>5 DEF Merges
    <2> HIDE DEF new
    <2> QED BY <1>3, <2>1, <2>2 DEF QueueInv, OneRowEach, DisputedRows
  <1> QED BY <1>2, <1>4, <1>5, EditChangesQueue DEF QueueInv

LEMMA NextKeepsQueue ==
    ASSUME TypeInv, IdInv, QueueInv, [Next]_vars
    PROVE  QueueInv'
  <1>1. /\ \A id : Logged(id) => Logged(id)'
        /\ \A id : Disputed(id) => Disputed(id)'
    BY SyncStays
  <1>5. CASE Requeueing
    <2>1. UNCHANGED <<current, conflicts>> /\ pc' = "push"
      BY <1>5 DEF Requeueing, TakeAcknowledgement, storeVars
    <2>2. OneRowEach(outbox') /\ DisputedRows'
      BY <1>5, <2>1, RequeueChangesQueue, JoiningKeepsRows DEF Requeueing
    <2>3. OneCurrent' /\ AnswersFit'
      BY <2>1 DEF QueueInv, OneCurrent, AnswersFit
    <2> QED BY <2>2, <2>3 DEF QueueInv, OneRowEach
  <1>2. CASE (Loop \/ LosePush \/ Stop) /\ ~Serve /\ made' = made
    <2>1. OneRowEach(outbox)'
      BY <1>2, LoopQueue DEF OneRowEach
    <2>2. DisputedRows'
      BY <1>1, <1>2, LoopQueue DEF DisputedRows
    <2>3. OneCurrent'
      <3>1. current' = current \/ current' = Oldest(Pending)
        BY <1>2, LoopQueue
      <3> QED BY <3>1, OldestIsOne DEF QueueInv, OneCurrent
    <2>4. AnswersFit'
      BY <1>2, LoopQueue DEF AnswersFit
    <2> QED BY <2>1, <2>2, <2>3, <2>4 DEF QueueInv
  <1>3. CASE Decide \/ Others
    <2>1. /\ outbox' \subseteq outbox /\ UNCHANGED <<current, wire>>
          /\ pc' = "answered" => pc = "answered"
      BY <1>3, OutsideQueue
    <2>2. OneRowEach(outbox)' /\ OneCurrent'
      BY <2>1 DEF QueueInv, OneRowEach, OneCurrent
    <2>3. DisputedRows' /\ AnswersFit'
      BY <1>1, <2>1 DEF QueueInv, DisputedRows, AnswersFit
    <2> QED BY <2>2, <2>3 DEF QueueInv
  <1>4. CASE UNCHANGED vars
    <2>1. UNCHANGED <<outbox, current, pc, wire>>
      BY <1>4 DEF vars, phoneVars, loopVars
    <2>2. OneRowEach(outbox)' /\ OneCurrent'
      BY <2>1 DEF QueueInv, OneRowEach, OneCurrent
    <2>3. DisputedRows' /\ AnswersFit'
      BY <1>1, <2>1 DEF QueueInv, DisputedRows, AnswersFit
    <2> QED BY <2>2, <2>3 DEF QueueInv
  <1>6. (Loop \/ LosePush \/ Stop) /\ ~Serve => made' = made \/ Requeueing
    BY LoopLeaves DEF Requeueing
  <1> QED BY <1>2, <1>3, <1>4, <1>5, <1>6, ServeKeepsQueue, EditKeepsQueue DEF Next

(* The conflicts the phone shows, has listed or has a choice under way for *)
(* are the Gateway's.                                                      *)
Shows(o, c) == o.id = c.id /\ o.key = c.key

ShownInv ==
    /\ \A o \in opened \cup choosing : \E c \in conflicts : Shows(o, c)
    /\ pc = "listed" => \A o \in wire.open : \E c \in conflicts : Shows(o, c)

LEMMA NextKeepsShown ==
    ASSUME TypeInv, IdInv, QueueInv, ShownInv, [Next]_vars
    PROVE  ShownInv'
  <1>1. \A o : (\E c \in conflicts : Shows(o, c)) => \E d \in conflicts' : Shows(o, d)
    BY SyncStays DEF Twin, Shows
  <1>2. CASE FetchConflicts
    <2>1. UNCHANGED <<opened, choosing, conflicts>>
          /\ wire'.open = {[id |-> c.id, key |-> c.key] : c \in {c \in conflicts : c.verdict = "open"}}
      BY <1>2 DEF FetchConflicts, phoneVars, envVars, storeVars
    <2> QED BY <2>1 DEF ShownInv, Shows
  <1>3. CASE TakeConflict
    <2>1. PICK m \in current : opened' = opened \cup {[id |-> m.id, key |-> m.key]}
      BY <1>3 DEF TakeConflict
    <2>2. /\ pc = "answered" /\ wire.status = "conflict" /\ pc' = "refresh"
          /\ UNCHANGED <<choosing, conflicts>>
      BY <1>3 DEF TakeConflict, storeVars, envVars
    <2>3. PICK c \in conflicts : c.id = m.id
      BY <2>2 DEF QueueInv, AnswersFit, Disputed
    <2>4. c.key = m.key
      BY <2>3 DEF IdInv, RowsStem, Stems
    <2> QED BY <2>1, <2>2, <2>3, <2>4 DEF ShownInv, Shows
  <1>4. CASE TakeConflicts
    BY <1>4 DEF TakeConflicts, ShownInv, storeVars, envVars
  <1>5. CASE Decide \/ Others
    <2>1. /\ opened' \subseteq opened
          /\ choosing' \subseteq choosing \cup opened
          /\ wire' = wire /\ (pc' = "listed" => pc = "listed")
      <3>1. CASE Decide
        BY <3>1 DEF Decide, ChooseHere, ChoiceDone, ChooseElsewhere, phoneVars, loopVars, envVars
      <3>2. CASE Others
        BY <3>2 DEF Others, OtherWrites, OtherDisputes, phoneVars, loopVars
      <3> QED BY <1>5, <3>1, <3>2
    <2> QED BY <1>1, <2>1 DEF ShownInv
  <1>6. ASSUME UNCHANGED <<opened, choosing>>, pc' = "listed" => pc = "listed" /\ wire' = wire
        PROVE  ShownInv'
    BY <1>1, <1>6 DEF ShownInv
  <1>7. CASE Serve
    BY <1>6, <1>7, ServeAnswers DEF phoneVars, envVars
  <1>8. CASE Edit \/ UNCHANGED vars
    BY <1>6, <1>8, EditChangesQueue DEF vars, phoneVars, loopVars, envVars
  <1>9. CASE \/ StartSync \/ ReadQueue \/ MarkSending
             \/ TakeAcknowledgement \/ TakeRejection
             \/ FetchStates \/ TakeStates
             \/ FetchPage \/ TakePage \/ LosePush \/ Stop
    <2>1. UNCHANGED <<opened, choosing>> /\ pc' # "listed"
      BY <1>9 DEF StartSync, ReadQueue, MarkSending, TakeAcknowledgement, TakeRejection,
                  FetchStates, TakeStates, FetchPage, TakePage, LosePush, Stop,
                  phoneVars, envVars
    <2> QED BY <1>6, <2>1
  <1> QED BY <1>2, <1>3, <1>4, <1>5, <1>7, <1>8, <1>9 DEF Next, Loop

(* The types and the links of the phone's tables, the queue and the loop.  *)
PhoneInv == TypeInv /\ IdInv /\ QueueInv /\ ShownInv

LEMMA InitPhone == Init => PhoneInv
  <1>1. Init => QueueInv
    BY DEF Init, QueueInv, OneRowEach, OneCurrent, DisputedRows, AnswersFit
  <1>2. Init => ShownInv
    BY DEF Init, ShownInv
  <1> QED BY <1>1, <1>2, InitTyped, InitIds DEF PhoneInv

LEMMA NextKeepsPhone ==
    ASSUME PhoneInv, [Next]_vars
    PROVE  PhoneInv'
  BY NextKeepsIds, NextKeepsQueue, NextKeepsShown DEF PhoneInv

(* The phone's rows, queue, cursor and loop have their types, and the loop *)
(* pushes one mutation at a time.                                          *)
THEOREM MobileTyped == Spec => []TypeOK
  <1>1. PhoneInv => TypeOK
    <2> SUFFICES ASSUME PhoneInv PROVE TypeOK
      OBVIOUS
    <2>1. StoreTypeOK
      BY DEF PhoneInv, TypeInv, StoreIInv
    <2>2. \A n \in DOMAIN made : made[n] \in [key : Keys, value : Contents]
      <3>1. made \in Seq([key : Keys, value : Contents])
        BY DEF PhoneInv, TypeInv
      <3>2. DOMAIN made = 1 .. Len(made)
        BY <3>1, LenProperties
      <3> QED BY <3>1, <3>2, ElementOfSeq
    <2>3. {o.key : o \in opened} \subseteq Keys
      <3>1. \A o \in opened : \E c \in conflicts : o.key = c.key
        BY DEF PhoneInv, ShownInv, Shows
      <3>2. \A c \in conflicts : c.key \in Keys
        BY <2>1 DEF StoreTypeOK, Conflict
      <3> QED BY <3>1, <3>2
    <2>4. Cardinality(current) <= 1
      <3>1. CASE current = {}
        BY <3>1, FS_EmptySet
      <3>2. CASE \E m \in current : TRUE
        <4>1. PICK m \in current : TRUE
          BY <3>2
        <4>2. current = {m}
          BY <4>1 DEF PhoneInv, QueueInv, OneCurrent
        <4> QED BY <4>2, FS_Singleton
      <3> QED BY <3>1, <3>2
    <2>5. outbox \subseteq QueueRow /\ current \subseteq QueueRow
      <3>1. DOMAIN made = 1 .. Len(made)
        BY LenProperties DEF PhoneInv, TypeInv
      <3>2. ASSUME NEW m \in outbox \cup current PROVE m \in QueueRow
        <4>1. m \in QueuedRow
          BY DEF PhoneInv, TypeInv
        <4>2. m.id \in {PhoneId(n) : n \in DOMAIN made}
          BY <3>1 DEF PhoneInv, IdInv, RowsStem, Stems
        <4> QED BY <4>1, <4>2 DEF QueuedRow, QueueRow
      <3> QED BY <3>2
    <2> QED BY <2>1, <2>2, <2>3, <2>4, <2>5 DEF PhoneInv, TypeInv, TypeOK
  <1> QED BY <1>1, InitPhone, NextKeepsPhone, PTL DEF Spec

----------------------------------------------------------------------------
(* Rows in conflict.                                                       *)

LEMMA NextKeepsShownRows ==
    ASSUME PhoneInv, NoStuckConflict, [Next]_vars
    PROVE  NoStuckConflict'
  <1>0. replica \in [Keys -> PhoneRow]
    BY DEF PhoneInv, TypeInv
  <1>1. ASSUME UNCHANGED opened, \A k \in Keys : replica'[k].conflicted => replica[k].conflicted
        PROVE  NoStuckConflict'
    BY <1>1 DEF NoStuckConflict
  <1>2. CASE TakeConflict
    <2>1. PICK m \in current :
             /\ replica' = [replica EXCEPT ![m.key].conflicted = TRUE]
             /\ opened' = opened \cup {[id |-> m.id, key |-> m.key]}
      BY <1>2 DEF TakeConflict
    <2>2. \A k \in Keys : k # m.key => replica'[k] = replica[k]
      BY <1>0, <2>1
    <2>3. opened \subseteq opened' /\ \E o \in opened' : o.key = m.key
      <3> DEFINE new == [id |-> m.id, key |-> m.key]
      <3>1. opened' = opened \cup {new} /\ new.key = m.key
        BY <2>1
      <3> HIDE DEF new
      <3> QED BY <3>1
    <2> QED BY <2>2, <2>3 DEF NoStuckConflict
  <1>3. CASE TakeConflicts
    <2> DEFINE closed == {o.key : o \in opened \ wire.open}
               marked == {o.key : o \in wire.open}
    <2>1. ASSUME NEW k \in Keys, replica'[k].conflicted
          PROVE  \E o \in opened' : o.key = k
      <3>1. opened' = wire.open
        BY <1>3 DEF TakeConflicts
      <3>2. CASE k \in marked
        BY <3>1, <3>2
      <3>3. CASE k \notin marked
        <4>1. replica'[k] = IF k \in closed THEN Unmarked(replica[k]) ELSE replica[k]
          BY <1>3, <3>3 DEF TakeConflicts
        <4>2. ~Unmarked(replica[k]).conflicted
          BY DEF Unmarked, Clean
        <4>3. replica[k].conflicted /\ k \notin closed
          BY <2>1, <4>1, <4>2
        <4>4. PICK o \in opened : o.key = k
          BY <4>3 DEF NoStuckConflict
        <4> QED BY <3>1, <4>3, <4>4
      <3> QED BY <3>2, <3>3
    <2> QED BY <2>1 DEF NoStuckConflict
  <1>4. CASE TakeAcknowledgement
    <2>1. UNCHANGED opened
      BY <1>4 DEF TakeAcknowledgement
    <2>2. PICK m \in current :
             replica' = [replica EXCEPT ![m.key].rev = wire.rev,
                                        ![m.key].dirty = EditedSince(m),
                                        ![m.key].conflicted = FALSE]
      BY <1>4, Acknowledged DEF PhoneInv
    <2>3. ASSUME NEW k \in Keys, replica'[k].conflicted PROVE replica[k].conflicted
      <3>1. CASE k = m.key
        <4>1. replica[k] \in PhoneRow
          BY <1>0
        <4>2. replica'[k] = [replica[k] EXCEPT !.rev = wire.rev, !.dirty = EditedSince(m), !.conflicted = FALSE]
          BY <1>0, <2>2, <3>1
        <4>3. ~replica'[k].conflicted
          BY <4>1, <4>2 DEF PhoneRow
        <4> QED BY <2>3, <4>3
      <3>2. CASE k # m.key
        <4>1. replica'[k] = replica[k]
          BY <1>0, <2>2, <3>2
        <4> QED BY <2>3, <4>1
      <3> QED BY <3>1, <3>2
    <2> QED BY <1>1, <2>1, <2>3
  <1>5. CASE TakeStates \/ TakePage
    <2>1. UNCHANGED opened
      BY <1>5 DEF TakeStates, TakePage
    <2>2. \A k \in Keys : replica'[k] = replica[k] \/ \E r, v : replica'[k] = Clean(r, v)
      BY <1>5 DEF TakeStates, TakePage
    <2>3. \A r, v : ~Clean(r, v).conflicted
      BY DEF Clean
    <2> QED BY <1>1, <2>1, <2>2, <2>3
  <1>6. CASE Edit
    <2>1. UNCHANGED opened
      BY <1>6, EditChangesQueue DEF PhoneInv
    <2>2. PICK k \in Keys, v \in Contents : replica' = [replica EXCEPT ![k].value = v, ![k].dirty = TRUE]
      BY <1>6 DEF Edit, Save, Delete, Contents
    <2>3. ASSUME NEW l \in Keys, replica'[l].conflicted PROVE replica[l].conflicted
      <3>1. CASE l = k
        <4>1. replica[k] \in PhoneRow
          BY <1>0
        <4>2. replica'[k] = [replica[k] EXCEPT !.value = v, !.dirty = TRUE]
          BY <1>0, <2>2
        <4>3. replica'[k].conflicted = replica[k].conflicted
          BY <4>1, <4>2 DEF PhoneRow
        <4> QED BY <2>3, <3>1, <4>3
      <3>2. CASE l # k
        <4>1. replica'[l] = replica[l]
          BY <1>0, <2>2, <3>2
        <4> QED BY <2>3, <4>1
      <3> QED BY <3>1, <3>2
    <2> QED BY <1>1, <2>1, <2>3
  <1>7. CASE \E o \in choosing : ChoiceDone(o)
    <2>1. PICK o \in choosing :
             \/ /\ opened' = {p \in opened : p.id # o.id}
                /\ replica' = [replica EXCEPT ![o.key] = Unmarked(@)]
             \/ UNCHANGED <<opened, replica>>
      BY <1>7 DEF ChoiceDone
    <2>2. CASE UNCHANGED <<opened, replica>>
      BY <1>1, <2>2
    <2>3. CASE /\ opened' = {p \in opened : p.id # o.id}
               /\ replica' = [replica EXCEPT ![o.key] = Unmarked(@)]
      <3> SUFFICES ASSUME NEW k \in Keys, replica'[k].conflicted
                   PROVE  \E p \in opened' : p.key = k
        BY DEF NoStuckConflict
      <3>1. k # o.key
        <4>1. ~Unmarked(replica[k]).conflicted
          BY DEF Unmarked, Clean
        <4>2. k = o.key => replica'[k] = Unmarked(replica[k])
          BY <1>0, <2>3
        <4> QED BY <4>1, <4>2
      <3>2. replica'[k] = replica[k]
        BY <1>0, <2>3, <3>1
      <3>3. PICK p \in opened : p.key = k
        BY <3>2 DEF NoStuckConflict
      <3>4. p.id # o.id
        <4>1. PICK c \in conflicts : Shows(p, c)
          BY DEF PhoneInv, ShownInv
        <4>2. PICK d \in conflicts : Shows(o, d)
          BY DEF PhoneInv, ShownInv
        <4>3. c.id = d.id => c = d
          BY DEF PhoneInv, TypeInv, StoreIInv, StoreInv, MutationOnce
        <4> QED BY <3>1, <3>3, <4>1, <4>2, <4>3 DEF Shows
      <3> QED BY <2>3, <3>3, <3>4
    <2> QED BY <2>1, <2>2, <2>3
  <1>8. CASE (Decide /\ ~\E o \in choosing : ChoiceDone(o)) \/ Others \/ Serve \/ UNCHANGED vars
    <2>1. UNCHANGED <<opened, replica>>
      BY <1>8, ServeAnswers DEF PhoneInv, Decide, ChooseHere, ChooseElsewhere, Others,
                                OtherWrites, OtherDisputes, vars, phoneVars
    <2> QED BY <1>1, <2>1
  <1>9. CASE \/ StartSync \/ ReadQueue \/ MarkSending \/ TakeRejection
             \/ FetchStates \/ FetchConflicts \/ FetchPage \/ LosePush \/ Stop
    <2>1. UNCHANGED <<opened, replica>>
      BY <1>9 DEF StartSync, ReadQueue, MarkSending, TakeRejection, FetchStates,
                  FetchConflicts, FetchPage, LosePush, Stop, phoneVars
    <2> QED BY <1>1, <2>1
  <1> QED BY <1>2, <1>3, <1>4, <1>5, <1>6, <1>7, <1>8, <1>9 DEF Next, Loop

(* Conflicts are found, listed and closed by the loop, by the author's     *)
(* choice beside it and by other devices; a row that is locked for one is  *)
(* never left without a conflict the author can open.                      *)
THEOREM ConflictsAreShown == Spec => []NoStuckConflict
  <1>1. Init => NoStuckConflict
    BY DEF Init, NoStuckConflict, NoRow
  <1> QED BY <1>1, InitPhone, NextKeepsPhone, NextKeepsShownRows, PTL DEF Spec

----------------------------------------------------------------------------
(* The order of the log.                                                   *)

(* The mutation the loop has read and the Gateway has not yet answered.    *)
InFlight == IF pc \in {"mark", "sent"} THEN current ELSE {}

(* What is still to be written was made after all the phone's mutations in *)
(* the log, and the loop pushes the first of it.                           *)
OrderInv ==
    /\ \A m \in outbox \cup InFlight, c \in changes :
          Fresh(m.id) /\ c.id[1] = "phone" => c.id[2] < m.id[2]
    /\ \A m \in InFlight, q \in outbox : Fresh(q.id) => m.id[2] <= q.id[2]

LEMMA ServeKeepsOrder ==
    ASSUME PhoneInv, OrderInv, LogKeepsOrder, Serve
    PROVE  OrderInv' /\ LogKeepsOrder'
  <1>1. PICK m \in current :
                 \/ AnsweredDuplicate(m) \/ AnsweredDisputed(m) \/ AnsweredConflict(m)
                 \/ AnsweredApplied(m) \/ AnsweredRejected
    BY ServeAnswers DEF PhoneInv
  <1>2. pc = "sent" /\ pc' = "answered" /\ outbox' = outbox
    BY ServeAnswers DEF PhoneInv, phoneVars
  <1>3. m \in InFlight /\ InFlight' = {}
    BY <1>2 DEF InFlight
  <1>4. \A id : Fresh(id)' => Fresh(id)
    BY SyncStays DEF PhoneInv, Next, Loop, Fresh
  <1>5. CASE changes' = changes
    <2>1. OrderInv'
      BY <1>2, <1>3, <1>4, <1>5 DEF OrderInv
    <2> QED BY <1>5, <2>1 DEF LogKeepsOrder
  <1>6. CASE AnsweredApplied(m)
    <2> DEFINE c == Row(head + 1, m.id, m.key, m.value)
    <2>1. changes' = changes \cup {c} /\ c.id = m.id /\ c.rev = head + 1 /\ Fresh(m.id)
      BY <1>6 DEF AnsweredApplied, Row
    <2> HIDE DEF c
    <2>2. \A d \in changes : d.id[1] = "phone" => d.id[2] < m.id[2]
      BY <1>3, <2>1 DEF OrderInv
    <2>3. head \in Nat /\ \A d \in changes : d.rev \in Nat /\ d.rev <= head
      BY OldRow DEF PhoneInv, TypeInv, StoreIInv, StoreTypeOK, Revisions
    <2>4. LogKeepsOrder'
      <3> SUFFICES ASSUME NEW d \in changes', NEW e \in changes',
                          d.id[1] = "phone", e.id[1] = "phone", d.rev < e.rev
                   PROVE  d.id[2] < e.id[2]
        BY DEF LogKeepsOrder
      <3>1. d # c
        <4>1. e.rev <= head + 1
          BY <2>1, <2>3
        <4>2. e.rev \in Nat
          BY <2>1, <2>3
        <4> QED BY <2>1, <2>3, <4>1, <4>2
      <3>2. CASE e = c
        BY <2>1, <2>2, <3>1, <3>2
      <3>3. CASE e # c
        BY <2>1, <3>1, <3>3 DEF LogKeepsOrder
      <3> QED BY <3>2, <3>3
    <2>5. OrderInv'
      <3> SUFFICES ASSUME NEW q \in outbox, NEW d \in changes', Fresh(q.id)', d.id[1] = "phone"
                   PROVE  d.id[2] < q.id[2]
        BY <1>2, <1>3 DEF OrderInv
      <3>1. Fresh(q.id) /\ q.id # m.id
        BY <1>4, <2>1 DEF Fresh, Logged
      <3>2. CASE d \in changes
        BY <3>1, <3>2 DEF OrderInv
      <3>3. CASE d = c
        <4>1. m.id[2] <= q.id[2]
          BY <1>3, <3>1 DEF OrderInv
        <4>2. PICK i \in Nat : m.id = PhoneId(i)
          BY RowsChanged DEF PhoneInv, TypeInv
        <4>3. PICK j \in Nat : q.id = PhoneId(j)
          BY RowsChanged DEF PhoneInv, TypeInv
        <4>4. m.id[2] = i /\ q.id[2] = j /\ i # j
          BY <3>1, <4>2, <4>3, PhoneIds
        <4> QED BY <2>1, <3>3, <4>1, <4>4
      <3> QED BY <2>1, <3>2, <3>3
    <2> QED BY <2>4, <2>5
  <1>7. changes' = changes \/ AnsweredApplied(m)
    BY <1>1 DEF AnsweredDuplicate, AnsweredDisputed, AnsweredConflict, AnsweredRejected, storeVars
  <1> QED BY <1>5, <1>6, <1>7

(* A mutation that joins the queue takes the next number.                  *)
LEMMA NewNumbers ==
    ASSUME TypeInv, IdInv, Edit \/ Requeueing
    PROVE  \A m \in outbox' : (\E q \in outbox : m.id = q.id) \/ m.id[2] = Len(made) + 1
  <1>1. ASSUME NEW new, Joins(new), NEW m \in outbox'
        PROVE  (\E q \in outbox : m.id = q.id) \/ m.id[2] = Len(made) + 1
    BY <1>1, PhoneIds DEF Joins, Twin
  <1>2. ASSUME NEW q \in outbox, NEW v \in Contents, Merges(q, v), NEW m \in outbox'
        PROVE  \E r \in outbox : m.id = r.id
    <2>1. [q EXCEPT !.value = v].id = q.id
      BY DEF TypeInv, QueuedRow
    <2> QED BY <1>2, <2>1 DEF Merges
  <1> QED BY <1>1, <1>2, EditChangesQueue, RequeueChangesQueue DEF Requeueing

(* The numbers of the phone's mutations, wherever they are.                *)
LEMMA Numbers ==
    ASSUME TypeInv, IdInv
    PROVE  /\ \A m \in outbox \cup current : m.id[2] \in 1 .. Len(made)
           /\ \A c \in changes : c.id[1] = "phone" => c.id[2] \in 1 .. Len(made)
           /\ Len(made) \in Nat
  <1>1. ASSUME NEW m \in outbox \cup current PROVE m.id[2] \in 1 .. Len(made)
    <2>1. PICK n \in Nat : Stems(m, n)
      BY DEF IdInv, RowsStem
    <2> QED BY <2>1, PhoneIds DEF Stems
  <1>2. ASSUME NEW c \in changes, c.id[1] = "phone" PROVE c.id[2] \in 1 .. Len(made)
    <2>1. CASE \E n \in 1 .. Len(made) : c.id = PhoneId(n)
      BY <2>1, PhoneIds
    <2>2. CASE \E n : c.id = <<"other", n>> \/ c.id = <<"resolve", n>>
      BY <1>2, <2>2, PhoneIds
    <2> QED BY <2>1, <2>2 DEF IdInv, LoggedIds
  <1>3. Len(made) \in Nat
    BY DEF TypeInv
  <1> QED BY <1>1, <1>2, <1>3

(* A step that writes nothing of the phone's to the log keeps the order,   *)
(* unless it queues a mutation out of order or pushes another one.         *)
LEMMA OrderStays ==
    ASSUME PhoneInv, OrderInv, LogKeepsOrder, \A id : Fresh(id)' => Fresh(id),
           \A c \in changes' : c \in changes \/ c.id[1] # "phone",
           \A m \in outbox' : \E q \in outbox : m.id = q.id,
           \A m \in InFlight' : \/ m \in InFlight
                                \/ m \in Oldest(Pending) /\ outbox' = outbox
    PROVE  OrderInv' /\ LogKeepsOrder'
  <1>1. LogKeepsOrder'
    BY DEF LogKeepsOrder
  <1>2. ASSUME NEW m \in outbox' \cup InFlight', NEW c \in changes',
               Fresh(m.id)', c.id[1] = "phone"
        PROVE  c.id[2] < m.id[2]
    <2>1. Fresh(m.id) /\ c \in changes
      BY <1>2
    <2>2. \E q \in outbox \cup InFlight : m.id = q.id
      BY DEF Oldest, Pending
    <2> QED BY <1>2, <2>1, <2>2 DEF OrderInv
  <1>3. ASSUME NEW m \in InFlight', NEW q \in outbox', Fresh(q.id)'
        PROVE  m.id[2] <= q.id[2]
    <2>1. Fresh(q.id)
      BY <1>3
    <2>2. CASE m \in InFlight
      BY <2>1, <2>2 DEF OrderInv
    <2>3. CASE m \in Oldest(Pending) /\ outbox' = outbox
      <3>1. q \in outbox /\ q.state # "conflict"
        BY <2>1, <2>3 DEF PhoneInv, QueueInv, DisputedRows, Fresh
      <3>2. q \in Pending
        BY <3>1 DEF PhoneInv, TypeInv, QueuedRow, Pending
      <3> QED BY <2>3, <3>2 DEF Oldest
    <2> QED BY <2>2, <2>3
  <1>4. OrderInv'
    BY <1>2, <1>3 DEF OrderInv
  <1> QED BY <1>1, <1>4

LEMMA JoiningKeepsOrder ==
    ASSUME PhoneInv, OrderInv, LogKeepsOrder, Edit \/ Requeueing
    PROVE  OrderInv' /\ LogKeepsOrder'
  <1>1. /\ changes' = changes /\ InFlight' \subseteq InFlight /\ InFlight \subseteq current
        /\ \A id : Fresh(id)' => Fresh(id)
    <2>1. UNCHANGED <<changes, conflicts, current>> /\ (pc' = pc \/ pc' = "push")
      BY EditChangesQueue DEF PhoneInv, storeVars, loopVars, Requeueing, TakeAcknowledgement
    <2> QED BY <2>1 DEF InFlight, Fresh, Logged, Disputed
  <1>2. LogKeepsOrder'
    BY <1>1 DEF LogKeepsOrder
  <1>3. /\ \A m \in outbox \cup current : m.id[2] \in 1 .. Len(made)
        /\ \A c \in changes : c.id[1] = "phone" => c.id[2] \in 1 .. Len(made)
        /\ Len(made) \in Nat
    BY Numbers DEF PhoneInv
  <1>4. \A m \in outbox' : (\E q \in outbox : m.id = q.id) \/ m.id[2] = Len(made) + 1
    BY NewNumbers DEF PhoneInv
  <1>5. ASSUME NEW m \in outbox' \cup InFlight, NEW c \in changes, Fresh(m.id), c.id[1] = "phone"
        PROVE  c.id[2] < m.id[2]
    <2>1. CASE \E q \in outbox \cup InFlight : m.id = q.id
      BY <1>5, <2>1 DEF OrderInv
    <2>2. CASE m.id[2] = Len(made) + 1
      BY <1>3, <1>5, <2>2
    <2> QED BY <1>4, <2>1, <2>2
  <1>6. ASSUME NEW m \in InFlight, NEW q \in outbox', Fresh(q.id)
        PROVE  m.id[2] <= q.id[2]
    <2>1. CASE \E r \in outbox : q.id = r.id
      BY <1>6, <2>1 DEF OrderInv
    <2>2. CASE q.id[2] = Len(made) + 1
      BY <1>1, <1>3, <2>2
    <2> QED BY <1>4, <2>1, <2>2
  <1>7. OrderInv'
    BY <1>1, <1>5, <1>6 DEF OrderInv
  <1> QED BY <1>2, <1>7

LEMMA NextKeepsOrder ==
    ASSUME PhoneInv, OrderInv, LogKeepsOrder, [Next]_vars
    PROVE  OrderInv' /\ LogKeepsOrder'
  <1>0. \A id : Fresh(id)' => Fresh(id)
    BY SyncStays DEF PhoneInv, Fresh
  <1>1. CASE (Loop \/ LosePush \/ Stop) /\ ~Serve /\ made' = made
    <2>1. changes' = changes /\ \A m \in outbox' : \E q \in outbox : m.id = q.id
      BY <1>1, LoopKeepsRows, LoopQueue DEF PhoneInv, storeVars
    <2>2. \A m \in InFlight' : m \in InFlight \/ (m \in Oldest(Pending) /\ outbox' = outbox)
      BY <1>1, LoopQueue DEF PhoneInv, InFlight
    <2> QED BY <1>0, <2>1, <2>2, OrderStays
  <1>2. CASE Decide \/ Others
    <2>1. outbox' \subseteq outbox /\ InFlight' \subseteq InFlight
      BY <1>2, OutsideQueue DEF InFlight
    <2>2. \A c \in changes' : c \in changes \/ c.id[1] # "phone"
      <3>1. ASSUME NEW c \in conflicts, NEW verdict \in Decisions, Settling(c, verdict)
            PROVE  \A x \in changes' : x \in changes \/ x.id = <<"resolve", c.id>>
        BY <3>1, SettlingIsStore DEF PhoneInv, Row
      <3>2. ASSUME NEW k \in Keys, NEW v \in Contents, OtherWrites(k, v) \/ OtherDisputes(k, v)
            PROVE  \A x \in changes' : x \in changes \/ x.id = <<"other", others.writes + 1>>
        BY <3>2, OthersEffects DEF PhoneInv, Row
      <3>3. CASE \E o \in choosing : ChoiceDone(o)
        BY <3>3 DEF ChoiceDone, storeVars
      <3> QED BY <1>2, <3>1, <3>2, <3>3, PhoneIds DEF Decide, ChooseHere, ChooseElsewhere, Others
    <2> QED BY <1>0, <2>1, <2>2, OrderStays
  <1>3. CASE UNCHANGED vars
    <2>1. UNCHANGED <<changes, outbox, pc, current>>
      BY <1>3 DEF vars, storeVars, phoneVars, loopVars
    <2>2. InFlight' = InFlight
      BY <2>1 DEF InFlight
    <2> QED BY <1>0, <2>1, <2>2, OrderStays
  <1>4. (Loop \/ LosePush \/ Stop) /\ ~Serve => made' = made \/ Requeueing
    BY LoopLeaves DEF PhoneInv, Requeueing
  <1> QED BY <1>1, <1>2, <1>3, <1>4, ServeKeepsOrder, JoiningKeepsOrder DEF Next

(* The Gateway's log has the phone's mutations in the order their author   *)
(* made them, through lost answers, retries, refusals and stops.           *)
THEOREM LogInOrder == Spec => []LogKeepsOrder
  <1>1. Init => OrderInv /\ LogKeepsOrder
    BY DEF Init, StoreInit, OrderInv, LogKeepsOrder, InFlight
  <1> QED BY <1>1, InitPhone, NextKeepsPhone, NextKeepsOrder, PTL DEF Spec

----------------------------------------------------------------------------
(* What the author wrote.                                                  *)

(* Each mutation made is in the queue, in the log or in a conflict.        *)
Kept(n) == Logged(PhoneId(n)) \/ Disputed(PhoneId(n)) \/ \E m \in outbox : m.id = PhoneId(n)

(* A mutation no later edit was merged into has its author's content in    *)
(* every row that carries it.                                              *)
Carries(n) ==
    made[n].key \notin Coalescing =>
       \A r \in outbox \cup current \cup changes \cup conflicts :
          r.id = PhoneId(n) => r.value = made[n].value

ContentInv == \A n \in 1 .. Len(made) : Kept(n) /\ Carries(n)

(* An edit of an entity whose edits are not merged survives.               *)
UnmergedSurvives ==
    \A n \in DOMAIN made : made[n].key \notin Coalescing =>
       \/ \E m \in outbox : m.id = PhoneId(n) /\ m.value = made[n].value
       \/ \E c \in changes \cup conflicts : c.id = PhoneId(n) /\ c.value = made[n].value

(* Rows of the sync store that are new carry what the phone sent, or are   *)
(* somebody else's.                                                        *)
LEMMA NewRowsAreTwins ==
    ASSUME PhoneInv, [Next]_vars
    PROVE  \A r \in changes' \cup conflicts' :
              \/ \E q \in current \cup changes \cup conflicts : Twin(r, q)
              \/ r.id[1] # "phone"
  <1>0. TypeInv /\ IdInv /\ \A m : Twin(m, m)
    BY DEF PhoneInv, Twin
  <1>1. CASE Serve
    <2>1. PICK m \in current :
                 \/ AnsweredDuplicate(m) \/ AnsweredDisputed(m) \/ AnsweredConflict(m)
                 \/ AnsweredApplied(m) \/ AnsweredRejected
      BY <1>0, <1>1, ServeAnswers
    <2>2. \A r \in changes' : r \in changes \/ Twin(r, m)
      BY <2>1 DEF AnsweredDuplicate, AnsweredDisputed, AnsweredConflict, AnsweredApplied,
                  AnsweredRejected, storeVars, Row, Twin
    <2>3. \A r \in conflicts' : r \in conflicts \/ Twin(r, m)
      BY <2>1 DEF AnsweredDuplicate, AnsweredDisputed, AnsweredConflict, AnsweredApplied,
                  AnsweredRejected, storeVars, Collision, Twin
    <2> QED BY <1>0, <2>2, <2>3
  <1>2. ASSUME NEW c \in conflicts, NEW verdict \in Decisions, Settling(c, verdict)
        PROVE  \A r \in changes' \cup conflicts' :
                  \/ \E q \in changes \cup conflicts : Twin(r, q)
                  \/ r.id[1] # "phone"
    <2>1. \A r \in changes' : r \in changes \/ r.id = <<"resolve", c.id>>
      BY <1>0, <1>2, SettlingIsStore DEF Row
    <2>2. \A r \in conflicts' : \E q \in conflicts : Twin(r, q)
      <3>1. conflicts' = (conflicts \ {c}) \cup {[c EXCEPT !.verdict = verdict]}
        BY <1>0, <1>2, SettlingIsStore
      <3>2. verdict \in {"server", "client"}
        BY MobileAssumption
      <3> QED BY <1>0, <3>1, <3>2, SettlingKeepsIds DEF SameId, Twin
    <2> QED BY <1>0, <2>1, <2>2, PhoneIds
  <1>3. ASSUME NEW k \in Keys, NEW v \in Contents, OtherWrites(k, v) \/ OtherDisputes(k, v)
        PROVE  \A r \in changes' \cup conflicts' :
                  r \in changes \cup conflicts \/ r.id[1] # "phone"
    <2>1. \A r \in changes' : r \in changes \/ r.id = <<"other", others.writes + 1>>
      BY <1>0, <1>3, OthersEffects DEF Row
    <2>2. \A r \in conflicts' : r \in conflicts \/ r.id = <<"rival", others.rivals + 1>>
      BY <1>0, <1>3, OthersEffects DEF Collision
    <2> QED BY <2>1, <2>2, PhoneIds
  <1>4. CASE (Decide \/ Others) /\ ~\E o \in choosing : ChoiceDone(o)
    BY <1>0, <1>2, <1>3, <1>4 DEF Decide, ChooseHere, ChooseElsewhere, Others
  <1>5. CASE \/ Edit \/ ((Loop \/ LosePush \/ Stop) /\ ~Serve)
             \/ (\E o \in choosing : ChoiceDone(o)) \/ UNCHANGED vars
    <2>1. UNCHANGED <<changes, conflicts>>
      BY <1>0, <1>5, EditChangesQueue, LoopLeaves DEF ChoiceDone, vars, storeVars
    <2> QED BY <1>0, <2>1
  <1> QED BY <1>1, <1>4, <1>5 DEF Next

LEMMA NextKeepsContents ==
    ASSUME PhoneInv, ContentInv, [Next]_vars
    PROVE  ContentInv'
  <1>0. TypeInv /\ IdInv /\ QueueInv /\ \A m : Twin(m, m)
    BY DEF PhoneInv, Twin
  <1>1. /\ \A id : Logged(id) => Logged(id)'
        /\ \A id : Disputed(id) => Disputed(id)'
    BY <1>0, SyncStays
  <1>2. ASSUME made' = made,
               \A q \in outbox : Logged(q.id) \/ Disputed(q.id) \/ \E m \in outbox' : m.id = q.id,
               \A m \in outbox' \cup current' : \E q \in outbox \cup current : Twin(m, q)
        PROVE  ContentInv'
    <2> SUFFICES ASSUME NEW n \in 1 .. Len(made)
                 PROVE  Kept(n)' /\ Carries(n)'
      BY <1>2 DEF ContentInv
    <2>1. Kept(n)'
      BY <1>1, <1>2 DEF ContentInv, Kept
    <2>2. PhoneId(n)[1] = "phone"
      BY PhoneIds
    <2>3. ASSUME NEW r \in outbox' \cup current' \cup changes' \cup conflicts', r.id = PhoneId(n)
          PROVE  \E q \in outbox \cup current \cup changes \cup conflicts : Twin(r, q)
      BY <1>2, <2>2, <2>3, NewRowsAreTwins
    <2>4. Carries(n)'
      BY <1>2, <2>3 DEF ContentInv, Carries, Twin
    <2> QED BY <2>1, <2>4
  <1>3. CASE (Loop \/ LosePush \/ Stop) /\ ~Serve /\ made' = made
    BY <1>0, <1>2, <1>3, LoopKeepsRows, LoopQueue
  <1>4. CASE Serve
    BY <1>0, <1>2, <1>4, ServeAnswers DEF phoneVars, envVars
  <1>5. CASE Decide \/ Others
    BY <1>0, <1>2, <1>5, OutsideQueue DEF QueueInv, DisputedRows
  <1>6. CASE UNCHANGED vars
    BY <1>0, <1>2, <1>6 DEF vars, phoneVars, loopVars, envVars
  <1>7. ASSUME NEW new, Joins(new), Stays, UNCHANGED <<changes, conflicts, current>>
        PROVE  ContentInv'
    <2>1. /\ Len(made') = Len(made) + 1 /\ Len(made) \in Nat
          /\ made'[Len(made) + 1] = [key |-> new.key, value |-> new.value]
          /\ \A n \in 1 .. Len(made) : made'[n] = made[n]
      BY <1>0, <1>7, JoinedMade
    <2>2. UNCHANGED <<changes, conflicts, current>>
      BY <1>7
    <2> DEFINE last == Len(made) + 1
    <2>3. new.id = PhoneId(last) /\ new \in outbox'
      BY <1>7 DEF Joins
    <2>4. \A m \in outbox' : m = new \/ \E q \in outbox : Twin(m, q)
      BY <1>7 DEF Joins
    <2>5. \A q \in outbox : Logged(q.id) \/ \E m \in outbox' : m.id = q.id
      BY <1>7 DEF Stays
    <2>6. \A r \in outbox \cup current \cup changes \cup conflicts : r.id # PhoneId(last)
      <3>1. \A r \in outbox \cup current : \E n \in 1 .. Len(made) : r.id = PhoneId(n)
        BY <1>0 DEF IdInv, RowsStem, Stems
      <3>2. \A n \in 1 .. Len(made) : PhoneId(n) # PhoneId(last)
        BY <2>1, PhoneIds
      <3>3. \A r \in changes \cup conflicts : r.id # PhoneId(last)
        <4>1. last \in Nat
          BY <2>1
        <4>2. \A r \in changes \cup conflicts : r.id = PhoneId(last) => last \in 1 .. Len(made)
          BY <1>0, <4>1 DEF IdInv, RowsStem, Stems
        <4> QED BY <2>1, <4>2
      <3> QED BY <3>1, <3>2, <3>3
    <2>7. ASSUME NEW n \in 1 .. Len(made)
          PROVE  Kept(n)' /\ Carries(n)'
      <3>1. Kept(n)'
        BY <1>1, <2>5, <2>7 DEF ContentInv, Kept
      <3>2. PhoneId(n) # PhoneId(last) /\ made'[n] = made[n]
        BY <2>1, <2>7, PhoneIds
      <3>3. ASSUME NEW r \in outbox' \cup current' \cup changes' \cup conflicts', r.id = PhoneId(n)
            PROVE  \E q \in outbox \cup current \cup changes \cup conflicts : Twin(r, q)
        BY <1>0, <2>2, <2>3, <2>4, <3>2, <3>3
      <3>4. Carries(n)'
        BY <2>7, <3>2, <3>3 DEF ContentInv, Carries, Twin
      <3> QED BY <3>1, <3>4
    <2>8. ASSUME NEW n, n = last
          PROVE  Kept(n)' /\ Carries(n)'
      <3>1. Kept(n)'
        BY <2>3, <2>8 DEF Kept
      <3>2. \A r \in outbox' \cup current' \cup changes' \cup conflicts' :
               r.id = PhoneId(n) => r = new
        BY <2>2, <2>4, <2>6, <2>8 DEF Twin
      <3>3. made'[n].value = new.value
        BY <2>1, <2>8
      <3> QED BY <2>3, <3>1, <3>2, <3>3 DEF Carries
    <2>9. \A n \in 1 .. Len(made') : n \in 1 .. Len(made) \/ n = last
      BY <2>1
    <2> HIDE DEF last
    <2> QED BY <2>7, <2>8, <2>9 DEF ContentInv
  <1>8. ASSUME NEW m \in outbox, NEW v \in Contents, Edit, Merges(m, v)
        PROVE  ContentInv'
    <2>1. /\ Len(made') = Len(made)
          /\ \A n \in 1 .. Len(made) :
                /\ made'[n].key = made[n].key
                /\ made'[n].value = IF PhoneId(n) = m.id THEN v ELSE made[n].value
      BY <1>0, <1>8, MergedEdit DEF Merges
    <2>2. UNCHANGED <<changes, conflicts, current>>
      BY <1>0, <1>8, EditChangesQueue DEF storeVars, loopVars
    <2> DEFINE new == [m EXCEPT !.value = v]
    <2>3. new.id = m.id /\ outbox' = (outbox \ {m}) \cup {new}
      BY <1>0, <1>8 DEF TypeInv, QueuedRow, Merges
    <2> HIDE DEF new
    <2> SUFFICES ASSUME NEW n \in 1 .. Len(made)
                 PROVE  Kept(n)' /\ Carries(n)'
      BY <2>1 DEF ContentInv
    <2>4. Kept(n)'
      BY <1>1, <2>3 DEF ContentInv, Kept
    <2>5. made[n].key \notin Coalescing => PhoneId(n) # m.id
      <3>1. PICK j \in Nat : Stems(m, j)
        BY <1>0 DEF IdInv, RowsStem
      <3>2. m.key \in Coalescing /\ m.key = made[j].key /\ m.id = PhoneId(j)
        BY <1>8, <3>1 DEF Merges, Stems
      <3> QED BY <3>2, PhoneIds
    <2>6. \A r \in outbox' \cup current' \cup changes' \cup conflicts' :
             r \in outbox \cup current \cup changes \cup conflicts \/ r.id = m.id
      BY <2>2, <2>3
    <2>7. Carries(n)'
      BY <2>1, <2>5, <2>6 DEF ContentInv, Carries
    <2> QED BY <2>4, <2>7
  <1>9. CASE Edit
    <2>1. UNCHANGED <<changes, conflicts, current>>
      BY <1>0, <1>9, EditChangesQueue DEF storeVars, loopVars
    <2> QED BY <1>0, <1>7, <1>8, <1>9, <2>1, EditChangesQueue
  <1>10. CASE Requeueing
    <2>1. UNCHANGED <<changes, conflicts, current>>
      BY <1>10 DEF Requeueing, TakeAcknowledgement, storeVars
    <2>2. PICK m \in current : \E new :
             /\ Joins(new)
             /\ \A q \in outbox : q.id = m.id \/ \E r \in outbox' : Twin(r, q)
      BY <1>0, <1>10, RequeueChangesQueue DEF Requeueing
    <2>3. Logged(m.id)
      BY <1>0, <1>10 DEF Requeueing, TakeAcknowledgement, QueueInv, AnswersFit
    <2>4. Stays
      BY <2>2, <2>3 DEF Stays, Twin
    <2> QED BY <1>7, <2>1, <2>2, <2>4
  <1>11. (Loop \/ LosePush \/ Stop) /\ ~Serve => made' = made \/ Requeueing
    BY <1>0, LoopLeaves DEF Requeueing
  <1> QED BY <1>3, <1>4, <1>5, <1>6, <1>9, <1>10, <1>11 DEF Next

LEMMA InitContents == Init => ContentInv
  <1> SUFFICES ASSUME Init PROVE ContentInv
    OBVIOUS
  <1>1. Len(made) = 0
    BY DEF Init
  <1> QED BY <1>1 DEF ContentInv

LEMMA ContentsSurvive ==
    ASSUME PhoneInv, ContentInv
    PROVE  UnmergedSurvives
  <1>1. DOMAIN made = 1 .. Len(made)
    BY LenProperties DEF PhoneInv, TypeInv
  <1>2. ASSUME NEW n \in 1 .. Len(made), made[n].key \notin Coalescing
        PROVE  \/ \E m \in outbox : m.id = PhoneId(n) /\ m.value = made[n].value
               \/ \E c \in changes \cup conflicts : c.id = PhoneId(n) /\ c.value = made[n].value
    BY <1>2 DEF ContentInv, Kept, Carries, Logged, Disputed
  <1> QED BY <1>1, <1>2 DEF UnmergedSurvives

(* What the author wrote of an entity whose edits are not merged is never  *)
(* lost, and reaches the log, or a conflict, as it was written.            *)
THEOREM UnmergedEditsSurvive == Spec => []UnmergedSurvives
  BY InitPhone, InitContents, NextKeepsPhone, NextKeepsContents, ContentsSurvive, PTL DEF Spec

(* So nothing is lost where no edits are merged.                           *)
THEOREM EditsSurvive == Coalescing = {} /\ Spec => []EditSurvives
  <1>1. Coalescing = {} /\ UnmergedSurvives => EditSurvives
    BY DEF UnmergedSurvives, EditSurvives
  <1>2. Coalescing = {} => (Coalescing = {})'
    OBVIOUS
  <1> QED BY <1>1, <1>2, UnmergedEditsSurvive, PTL

----------------------------------------------------------------------------
(* What the Gateway has served, and what a synchronised phone shows.       *)

(* The phases after a push, in which rows are refreshed and pulled.        *)
Pulling == {"refresh", "refreshed", "conflicts", "listed", "pull", "pulled", "synced"}

(* The queue holds one mutation the Gateway has served, at most: the first,*)
(* which the loop pushes again; it is out when the loop refreshes rows.    *)
ServedInv ==
    /\ \A q, r \in Pending : Fresh(q.id) \/ q.id[2] <= r.id[2]
    /\ pc \in {"mark", "sent", "answered"} =>
          /\ \A m \in current, q \in Pending : Fresh(q.id) \/ q.id = m.id
          /\ \A m \in current, q \in outbox : q.id = m.id => q.state # "conflict"
    /\ pc = "answered" /\ wire.status = "rejected" => \A m \in current : Fresh(m.id)
    /\ pc \in Pulling => \A q \in Pending : ~Logged(q.id)

(* A row of the queue is pending or sending, or in conflict.               *)
LEMMA PendingRows ==
    ASSUME TypeInv
    PROVE  /\ \A q \in outbox : q \in Pending <=> q.state # "conflict"
           /\ Pending \subseteq outbox
  BY DEF TypeInv, QueuedRow, Pending

(* Mutations with the same number are the same mutation.                   *)
LEMMA SameNumber ==
    ASSUME TypeInv, NEW m \in outbox \cup current, NEW q \in outbox \cup current, m.id[2] = q.id[2]
    PROVE  m.id = q.id
  <1>1. PICK i \in Nat : m.id = PhoneId(i)
    BY RowsChanged DEF TypeInv
  <1>2. PICK j \in Nat : q.id = PhoneId(j)
    BY RowsChanged DEF TypeInv
  <1> QED BY <1>1, <1>2, PhoneIds

(* The Gateway serves a mutation of the phone when the loop asks, only.    *)
LEMMA ServedByServe ==
    ASSUME PhoneInv, [Next]_vars, ~Serve, NEW id, id[1] = "phone"
    PROVE  (Logged(id)' <=> Logged(id)) /\ (Disputed(id)' <=> Disputed(id))
  <1>0. TypeInv /\ IdInv
    BY DEF PhoneInv
  <1>1. (Logged(id) => Logged(id)') /\ (Disputed(id) => Disputed(id)')
    BY <1>0, SyncStays
  <1>2. ASSUME NEW c \in conflicts, NEW verdict \in Decisions, Settling(c, verdict)
        PROVE  (Logged(id)' => Logged(id)) /\ (Disputed(id)' => Disputed(id))
    <2>1. \A r \in changes' : r \in changes \/ r.id = <<"resolve", c.id>>
      BY <1>0, <1>2, SettlingIsStore DEF Row
    <2>2. \A r \in conflicts' : \E q \in conflicts : r.id = q.id
      <3>1. conflicts' = (conflicts \ {c}) \cup {[c EXCEPT !.verdict = verdict]}
        BY <1>0, <1>2, SettlingIsStore
      <3>2. verdict \in {"server", "client"}
        BY MobileAssumption
      <3> QED BY <1>0, <3>1, <3>2, SettlingKeepsIds DEF SameId
    <2> QED BY <2>1, <2>2, PhoneIds DEF Logged, Disputed
  <1>3. ASSUME NEW k \in Keys, NEW v \in Contents, OtherWrites(k, v) \/ OtherDisputes(k, v)
        PROVE  (Logged(id)' => Logged(id)) /\ (Disputed(id)' => Disputed(id))
    <2>1. \A r \in changes' : r \in changes \/ r.id = <<"other", others.writes + 1>>
      BY <1>0, <1>3, OthersEffects DEF Row
    <2>2. \A r \in conflicts' : r \in conflicts \/ r.id = <<"rival", others.rivals + 1>>
      BY <1>0, <1>3, OthersEffects DEF Collision
    <2> QED BY <2>1, <2>2, PhoneIds DEF Logged, Disputed
  <1>4. CASE (Decide \/ Others) /\ ~\E o \in choosing : ChoiceDone(o)
    BY <1>1, <1>2, <1>3, <1>4 DEF Decide, ChooseHere, ChooseElsewhere, Others
  <1>5. CASE \/ Edit \/ ((Loop \/ LosePush \/ Stop) /\ ~Serve)
             \/ (\E o \in choosing : ChoiceDone(o)) \/ UNCHANGED vars
    <2>1. UNCHANGED <<changes, conflicts>>
      BY <1>0, <1>5, EditChangesQueue, LoopLeaves DEF ChoiceDone, vars, storeVars
    <2> QED BY <2>1 DEF Logged, Disputed
  <1> QED BY <1>4, <1>5 DEF Next

(* A mutation that may be pushed after a step could be before it, or is    *)
(* the one just made.                                                      *)
LEMMA PendingStays ==
    ASSUME PhoneInv, ServedInv, [Next]_vars
    PROVE  \A q \in Pending' : (\E p \in Pending : q.id = p.id) \/ q.id = PhoneId(Len(made) + 1)
  <1>0. TypeInv /\ IdInv /\ QueueInv /\ OneRowEach(outbox)
    BY DEF PhoneInv, QueueInv
  <1>1. \A q \in outbox : q \in Pending <=> q.state # "conflict"
    BY <1>0, PendingRows
  <1>2. \A q \in Pending' : q \in outbox' /\ q.state # "conflict"
    BY DEF Pending
  <1>3. CASE outbox' \subseteq outbox
    BY <1>1, <1>2, <1>3
  <1>4. ASSUME NEW new, Joins(new)
        PROVE  \A q \in Pending' : (\E p \in Pending : q.id = p.id) \/ q.id = PhoneId(Len(made) + 1)
    BY <1>1, <1>2, <1>4 DEF Joins, Twin
  <1>5. ASSUME NEW m \in outbox, NEW v \in Contents, Merges(m, v)
        PROVE  \A q \in Pending' : \E p \in Pending : q.id = p.id
    <2>1. [m EXCEPT !.value = v].id = m.id /\ m \in Pending
      BY <1>0, <1>1, <1>5 DEF TypeInv, QueuedRow, Merges
    <2> QED BY <1>1, <1>2, <1>5, <2>1 DEF Merges
  <1>6. ASSUME NEW m \in current, NEW x, x.id = m.id, outbox' = Rewritten(x),
               \A q \in outbox : q.id = m.id => q.state # "conflict"
        PROVE  \A q \in Pending' : \E p \in Pending : q.id = p.id
    <2>1. \A q \in outbox' : q \in outbox \/ (q = x /\ \E p \in outbox : p.id = x.id)
      BY <1>6 DEF Rewritten
    <2> QED BY <1>1, <1>2, <1>6, <2>1
  <1>7. CASE MarkSending
    <2>1. PICK m \in current : outbox' = Rewritten([m EXCEPT !.state = "sending", !.sent = TRUE])
      BY <1>7 DEF MarkSending
    <2>2. [m EXCEPT !.state = "sending", !.sent = TRUE].id = m.id
      BY <1>0 DEF TypeInv, QueuedRow
    <2>3. \A q \in outbox : q.id = m.id => q.state # "conflict"
      BY <1>7 DEF MarkSending, ServedInv
    <2> QED BY <1>6, <2>1, <2>2, <2>3
  <1>8. CASE TakeRejection
    <2>1. PICK m \in current : outbox' = Rewritten(Requeued(m))
      BY <1>8 DEF TakeRejection
    <2>2. Requeued(m).id = m.id
      BY <1>0 DEF TypeInv, QueuedRow, Requeued
    <2>3. \A q \in outbox : q.id = m.id => q.state # "conflict"
      BY <1>8 DEF TakeRejection, ServedInv
    <2> QED BY <1>6, <2>1, <2>2, <2>3
  <1>9. CASE TakeConflict
    <2>1. PICK m \in current : outbox' = Rewritten([m EXCEPT !.state = "conflict"])
      BY <1>9 DEF TakeConflict
    <2>2. [m EXCEPT !.state = "conflict"].id = m.id
      BY <1>0 DEF TypeInv, QueuedRow
    <2>3. \A q \in outbox : q.id = m.id => q.state # "conflict"
      BY <1>9 DEF TakeConflict, ServedInv
    <2> QED BY <1>6, <2>1, <2>2, <2>3
  <1>10. CASE LosePush
    <2>1. PICK m \in current : outbox' = Retried(m)
      BY <1>10 DEF LosePush
    <2> DEFINE f(q) == IF q.id = m.id /\ q.state = "sending" THEN [q EXCEPT !.state = "pending"] ELSE q
    <2>2. \A q \in outbox : f(q).id = q.id /\ (f(q).state # "conflict" => q.state # "conflict")
      BY <1>0 DEF TypeInv, QueuedRow
    <2>3. outbox' = {f(q) : q \in outbox}
      BY <2>1 DEF Retried
    <2> HIDE DEF f
    <2> QED BY <1>1, <1>2, <2>2, <2>3
  <1>11. CASE TakeAcknowledgement
    <2>1. PICK m \in current : outbox' = Rest(m) \/ made' # made
      BY <1>0, <1>11, Acknowledged
    <2>2. CASE made' # made
      BY <1>0, <1>4, <1>11, <2>2, RequeueChangesQueue
    <2>3. CASE outbox' = Rest(m)
      BY <1>0, <1>1, <1>2, <2>3, RestRows DEF Twin
    <2> QED BY <2>1, <2>2, <2>3
  <1>12. CASE Edit
    BY <1>0, <1>4, <1>5, <1>12, EditChangesQueue
  <1>13. CASE Decide \/ Others
    BY <1>3, <1>13, OutsideQueue
  <1>14. CASE Serve
    BY <1>0, <1>3, <1>14, ServeAnswers DEF phoneVars
  <1>15. CASE \/ StartSync \/ ReadQueue \/ FetchStates \/ TakeStates \/ FetchConflicts
              \/ TakeConflicts \/ FetchPage \/ TakePage \/ Stop \/ UNCHANGED vars
    BY <1>3, <1>15 DEF StartSync, ReadQueue, FetchStates, TakeStates, FetchConflicts,
          TakeConflicts, FetchPage, TakePage, Stop, phoneVars, vars, WithoutDisputes
  <1> QED BY <1>7, <1>8, <1>9, <1>10, <1>11, <1>12, <1>13, <1>14, <1>15 DEF Next, Loop

(* Where a step leaves the loop.                                           *)
LEMMA LoopPlaces ==
    ASSUME PhoneInv, [Next]_vars, ~Serve
    PROVE  /\ pc' \in {"mark", "sent", "answered"} =>
                \/ /\ pc \in {"mark", "sent", "answered"} /\ current' = current
                   /\ pc = "answered" => pc' = "answered"
                \/ pc' = "mark" /\ current' = Oldest(Pending) /\ outbox' = outbox
           /\ pc' = "answered" => pc = "answered" /\ wire' = wire
           /\ pc' \in Pulling =>
                \/ pc \in Pulling
                \/ Pending = {} /\ outbox' = outbox
                \/ TakeConflict
                \/ TakeRejection
  <1>1. CASE Decide \/ Others
    <2>1. UNCHANGED <<current, wire>> /\ (pc' = pc \/ pc' = "idle")
      BY <1>1 DEF Decide, ChooseHere, ChoiceDone, ChooseElsewhere, phoneVars, loopVars,
                  envVars, Others, OtherWrites, OtherDisputes
    <2> QED BY <2>1 DEF Pulling
  <1>2. CASE Edit \/ UNCHANGED vars
    <2>1. UNCHANGED <<current, wire, pc>>
      BY <1>2 DEF Edit, Save, Delete, vars, loopVars
    <2> QED BY <2>1
  <1>3. CASE ReadQueue
    <2>1. /\ outbox' = outbox /\ pc = "push"
          /\ \/ Pending = {} /\ pc' = "refresh"
             \/ pc' = "mark" /\ current' = Oldest(Pending)
      BY <1>3 DEF ReadQueue, phoneVars
    <2> QED BY <2>1 DEF Pulling
  <1>4. CASE \/ StartSync \/ MarkSending \/ TakeAcknowledgement \/ TakeConflict
             \/ TakeRejection \/ LosePush \/ Stop
    BY <1>4 DEF StartSync, MarkSending, TakeAcknowledgement, TakeConflict, TakeRejection,
                LosePush, Stop, Pulling
  <1>5. CASE \/ FetchStates \/ TakeStates \/ FetchConflicts \/ TakeConflicts
             \/ FetchPage \/ TakePage
    BY <1>5 DEF FetchStates, TakeStates, FetchConflicts, TakeConflicts, FetchPage, TakePage,
                Pulling
  <1> QED BY <1>1, <1>2, <1>3, <1>4, <1>5 DEF Next, Loop

(* Only the answer to a push finds a mutation in conflict.                 *)
LEMMA PushedStays ==
    ASSUME PhoneInv, [Next]_vars, ~Serve,
           pc \in {"mark", "sent", "answered"}, pc' \in {"mark", "sent", "answered"}
    PROVE  \A q \in outbox' : q.state = "conflict" =>
              \E p \in outbox : p.id = q.id /\ p.state = "conflict"
  <1>0. TypeInv
    BY DEF PhoneInv
  <1>1. CASE outbox' \subseteq outbox
    BY <1>1
  <1>2. CASE MarkSending
    <2>1. PICK m \in current : outbox' = Rewritten([m EXCEPT !.state = "sending", !.sent = TRUE])
      BY <1>2 DEF MarkSending
    <2>2. [m EXCEPT !.state = "sending", !.sent = TRUE].state = "sending"
      BY <1>0 DEF TypeInv, QueuedRow
    <2> QED BY <2>1, <2>2 DEF Rewritten
  <1>3. CASE Edit
    <2>1. ASSUME NEW new, Joins(new)
          PROVE  \A q \in outbox' : q.state = "conflict" =>
                    \E p \in outbox : p.id = q.id /\ p.state = "conflict"
      BY <2>1 DEF Joins, Twin
    <2>2. ASSUME NEW m \in outbox, NEW v \in Contents, Merges(m, v)
          PROVE  \A q \in outbox' : q.state = "conflict" =>
                    \E p \in outbox : p.id = q.id /\ p.state = "conflict"
      <3>1. [m EXCEPT !.value = v].state = "pending"
        BY <1>0, <2>2 DEF TypeInv, QueuedRow, Merges
      <3> QED BY <2>2, <3>1 DEF Merges
    <2> QED BY <1>0, <1>3, <2>1, <2>2, EditChangesQueue
  <1>4. CASE Decide \/ Others
    BY <1>1, <1>4, OutsideQueue
  <1>5. CASE UNCHANGED vars
    BY <1>1, <1>5 DEF vars, phoneVars
  <1>6. ~(\/ StartSync \/ ReadQueue \/ TakeAcknowledgement \/ TakeConflict \/ TakeRejection
          \/ FetchStates \/ TakeStates \/ FetchConflicts \/ TakeConflicts
          \/ FetchPage \/ TakePage \/ LosePush \/ Stop)
    BY DEF StartSync, ReadQueue, TakeAcknowledgement, TakeConflict, TakeRejection,
           FetchStates, TakeStates, FetchConflicts, TakeConflicts, FetchPage, TakePage,
           LosePush, Stop
  <1> QED BY <1>2, <1>3, <1>4, <1>5, <1>6 DEF Next, Loop

(* The next mutation of the phone is new to the Gateway.                   *)
LEMMA NextIsFresh ==
    ASSUME TypeInv, IdInv
    PROVE  Fresh(PhoneId(Len(made) + 1))
  <1>0. Len(made) \in Nat
    BY DEF TypeInv
  <1>1. ASSUME NEW r \in changes \cup conflicts, r.id = PhoneId(Len(made) + 1)
        PROVE  FALSE
    <2>1. Stems(r, Len(made) + 1)
      BY <1>0, <1>1 DEF IdInv, RowsStem
    <2> QED BY <1>0, <2>1 DEF Stems
  <1> QED BY <1>1 DEF Fresh, Logged, Disputed

LEMMA NextKeepsServed ==
    ASSUME PhoneInv, OrderInv, ServedInv, [Next]_vars
    PROVE  ServedInv'
  <1>0. /\ TypeInv /\ IdInv /\ QueueInv
        /\ \A q \in Pending : q \in outbox
    BY DEF PhoneInv, Pending
  <1>1. /\ \A m \in outbox \cup current : m.id[1] = "phone" /\ m.id[2] \in 1 .. Len(made)
        /\ Len(made) \in Nat
    <2>1. \A m \in outbox \cup current : \E n \in Nat : m.id = PhoneId(n)
      BY <1>0, RowsChanged DEF TypeInv
    <2> QED BY <1>0, <2>1, Numbers, PhoneIds
  <1>2. \A q \in Pending' : (\E p \in Pending : q.id = p.id) \/ q.id = PhoneId(Len(made) + 1)
    BY PendingStays
  <1>3. Fresh(PhoneId(Len(made) + 1))
    BY <1>0, NextIsFresh
  <1>4. CASE ~Serve
    <2>0. /\ \A q \in outbox \cup current : Fresh(q.id)' <=> Fresh(q.id)
          /\ \A q \in outbox \cup current : Logged(q.id)' <=> Logged(q.id)
          /\ \A id : id = PhoneId(Len(made) + 1) => Fresh(id)' /\ ~Logged(id)'
      <3>1. \A id : id[1] = "phone" => (Logged(id)' <=> Logged(id)) /\ (Disputed(id)' <=> Disputed(id))
        BY <1>4, ServedByServe
      <3>2. \A id : id[1] = "phone" => (Fresh(id)' <=> Fresh(id))
        BY <3>1 DEF Fresh
      <3>3. ~Logged(PhoneId(Len(made) + 1))
        BY <1>3 DEF Fresh
      <3> QED BY <1>1, <1>3, <3>1, <3>2, <3>3, PhoneIds
    <2>1. \A q \in Pending' : Fresh(q.id)' \/ \E p \in Pending : q.id = p.id /\ ~Fresh(p.id)
      <3> SUFFICES ASSUME NEW q \in Pending', ~Fresh(q.id)'
                   PROVE  \E p \in Pending : q.id = p.id /\ ~Fresh(p.id)
        OBVIOUS
      <3> QED BY <1>0, <1>2, <2>0
    <2>2. ASSUME NEW q \in Pending', NEW r \in Pending', ~Fresh(q.id)'
          PROVE  q.id[2] <= r.id[2]
      <3>1. PICK p \in Pending : q.id = p.id /\ ~Fresh(p.id)
        BY <2>1, <2>2
      <3>2. CASE \E s \in Pending : r.id = s.id
        BY <3>1, <3>2 DEF ServedInv
      <3>3. CASE r.id = PhoneId(Len(made) + 1)
        BY <1>0, <1>1, <3>1, <3>3, PhoneIds
      <3> QED BY <1>2, <3>2, <3>3
    <2>3. ASSUME pc' \in {"mark", "sent", "answered"}, NEW m \in current', NEW q \in Pending',
                 ~Fresh(q.id)'
          PROVE  q.id = m.id
      <3>1. PICK p \in Pending : q.id = p.id /\ ~Fresh(p.id)
        BY <2>1, <2>3
      <3>2. CASE pc \in {"mark", "sent", "answered"} /\ current' = current
        BY <2>3, <3>1, <3>2 DEF ServedInv
      <3>3. CASE current' = Oldest(Pending)
        <4>1. m \in Pending /\ m.id[2] <= p.id[2] /\ p.id[2] <= m.id[2]
          BY <2>3, <3>1, <3>3 DEF Oldest, ServedInv
        <4>2. m.id[2] = p.id[2]
          BY <1>0, <1>1, <4>1
        <4> QED BY <1>0, <3>1, <4>1, <4>2, SameNumber
      <3> QED BY <1>4, <2>3, <3>2, <3>3, LoopPlaces
    <2>4. ASSUME pc' \in {"mark", "sent", "answered"}, NEW m \in current', NEW q \in outbox',
                 q.id = m.id
          PROVE  q.state # "conflict"
      <3>1. CASE pc \in {"mark", "sent", "answered"} /\ current' = current
        <4>1. \A p \in outbox : p.id = q.id => p.state # "conflict"
          BY <2>4, <3>1 DEF ServedInv
        <4> QED BY <1>4, <2>4, <3>1, <4>1, PushedStays
      <3>2. CASE current' = Oldest(Pending) /\ outbox' = outbox
        <4>1. m \in Pending /\ m \in outbox /\ m = q
          BY <1>0, <2>4, <3>2 DEF Oldest, Pending, QueueInv, OneRowEach
        <4> QED BY <4>1 DEF Pending
      <3> QED BY <1>4, <2>4, <3>1, <3>2, LoopPlaces
    <2>5. ASSUME pc' = "answered", wire'.status = "rejected", NEW m \in current'
          PROVE  Fresh(m.id)'
      <3>1. pc = "answered" /\ wire' = wire /\ current' = current
        BY <1>4, <2>5, LoopPlaces
      <3> QED BY <2>0, <2>5, <3>1 DEF ServedInv
    <2>6. ASSUME pc' \in Pulling, NEW q \in Pending'
          PROVE  ~Logged(q.id)'
      <3> SUFFICES ASSUME NEW p \in Pending, q.id = p.id, Logged(p.id)
                   PROVE  FALSE
        <4>1. CASE \E p \in Pending : q.id = p.id
          BY <1>0, <2>0, <4>1
        <4>2. CASE q.id = PhoneId(Len(made) + 1)
          BY <2>0, <4>2
        <4> QED BY <1>2, <2>6, <4>1, <4>2
      <3>1. CASE pc \in Pulling
        BY <3>1 DEF ServedInv
      <3>2. CASE TakeConflict \/ TakeRejection
        <4>1. pc = "answered"
          BY <3>2 DEF TakeConflict, TakeRejection
        <4>2. \A m \in current : p.id = m.id
          BY <4>1 DEF ServedInv, Fresh
        <4>3. CASE TakeRejection
          <5>1. \A m \in current : Fresh(m.id)
            BY <4>1, <4>3 DEF ServedInv, TakeRejection
          <5>2. \E m \in current : TRUE
            BY <4>3 DEF TakeRejection
          <5> QED BY <4>2, <5>1, <5>2 DEF Fresh
        <4>4. CASE TakeConflict
          <5>0. q.id = p.id
            OBVIOUS
          <5>1. PICK m \in current : outbox' = Rewritten([m EXCEPT !.state = "conflict"])
            BY <4>4 DEF TakeConflict
          <5> DEFINE x == [m EXCEPT !.state = "conflict"]
          <5>2. x.id = m.id /\ x.state = "conflict"
            BY <1>0 DEF TypeInv, QueuedRow
          <5> HIDE DEF x
          <5>3. \A r \in outbox' : r = x \/ r.id # x.id
            BY <5>1 DEF Rewritten, x
          <5>4. q \in outbox' /\ q.state # "conflict"
            BY <2>6 DEF Pending
          <5> QED BY <4>2, <5>2, <5>3, <5>4
        <4> QED BY <3>2, <4>3, <4>4
      <3> QED BY <1>4, <2>6, <3>1, <3>2, LoopPlaces
    <2> QED BY <2>2, <2>3, <2>4, <2>5, <2>6 DEF ServedInv
  <1>5. CASE Serve
    <2>1. /\ pc = "sent" /\ pc' = "answered"
          /\ UNCHANGED <<outbox, current>> /\ Pending' = Pending
      BY <1>0, <1>5, ServeAnswers DEF phoneVars, Pending
    <2>2. PICK m \in current :
             \/ AnsweredDuplicate(m) \/ AnsweredDisputed(m) \/ AnsweredConflict(m)
             \/ AnsweredApplied(m) \/ AnsweredRejected
      BY <1>0, <1>5, ServeAnswers
    <2>3. \A n \in current : n = m
      BY <1>0 DEF QueueInv, OneCurrent
    <2>4. \A id : Fresh(id)' \/ ~Fresh(id) \/ id = m.id
      <3>1. \A r \in changes' : r \in changes \/ r.id = m.id
        BY <2>2 DEF AnsweredDuplicate, AnsweredDisputed, AnsweredConflict, AnsweredApplied,
                    AnsweredRejected, storeVars, Row
      <3>2. \A r \in conflicts' : r \in conflicts \/ r.id = m.id
        BY <2>2 DEF AnsweredDuplicate, AnsweredDisputed, AnsweredConflict, AnsweredApplied,
                    AnsweredRejected, storeVars, Collision
      <3> QED BY <3>1, <3>2 DEF Fresh, Logged, Disputed
    <2>5. \A q \in Pending : Fresh(q.id)' \/ q.id = m.id
      BY <2>1, <2>4 DEF ServedInv
    <2>6. \A r \in Pending : m.id[2] <= r.id[2]
      <3> SUFFICES ASSUME NEW r \in Pending
                   PROVE  m.id[2] <= r.id[2]
        OBVIOUS
      <3>1. CASE Fresh(r.id)
        BY <1>0, <2>1, <3>1 DEF OrderInv, InFlight
      <3>2. CASE r.id = m.id
        BY <1>1, <3>2
      <3> QED BY <2>1, <3>1, <3>2 DEF ServedInv
    <2>7. \A q \in outbox : q.id = m.id => q.state # "conflict"
      BY <2>1 DEF ServedInv
    <2>8. wire'.status = "rejected" => Fresh(m.id)'
      <3> SUFFICES ASSUME wire'.status = "rejected" PROVE Fresh(m.id)'
        OBVIOUS
      <3>1. UNCHANGED storeVars
        BY <2>2 DEF AnsweredDuplicate, AnsweredDisputed, AnsweredConflict, AnsweredApplied,
                    AnsweredRejected
      <3>2. PICK n \in current : ServeRejected(n)
        BY <1>5 DEF Serve, ServeDuplicate, ServeDisputed, ServeConflict, ServeApplied, Answered
      <3> QED BY <2>3, <3>1, <3>2 DEF ServeRejected, Fresh, Logged, Disputed, storeVars
    <2>9. pc' \notin Pulling
      BY <2>1 DEF Pulling
    <2> QED BY <2>1, <2>3, <2>5, <2>6, <2>7, <2>8, <2>9 DEF ServedInv
  <1> QED BY <1>4, <1>5

(* The cursor moves with a page, and what the Gateway answered stays until *)
(* the loop takes it.                                                      *)
LEMMA AnswersStay ==
    ASSUME PhoneInv, [Next]_vars
    PROVE  /\ cursor' = cursor \/ TakePage
           /\ pc' = "refreshed" => FetchStates \/ (pc = "refreshed" /\ wire' = wire)
           /\ pc' = "listed" => FetchConflicts \/ (pc = "listed" /\ wire' = wire)
           /\ pc' = "pulled" => FetchPage \/ (pc = "pulled" /\ wire' = wire)
           /\ pc' = "synced" => TakePage \/ pc = "synced"
           /\ FetchStates \/ FetchConflicts \/ FetchPage \/ TakeStates \/ TakeConflicts \/ TakePage
                 => UNCHANGED storeVars
  <1>1. CASE Decide \/ Others
    <2>1. UNCHANGED <<cursor, wire>> /\ (pc' = pc \/ pc' = "idle")
      BY <1>1 DEF Decide, ChooseHere, ChoiceDone, ChooseElsewhere, phoneVars, loopVars,
                  envVars, Others, OtherWrites, OtherDisputes
    <2>2. ~(FetchStates \/ FetchConflicts \/ FetchPage \/ TakeStates \/ TakeConflicts \/ TakePage)
             \/ UNCHANGED storeVars
      BY DEF FetchStates, FetchConflicts, FetchPage, TakeStates, TakeConflicts, TakePage
    <2> QED BY <2>1, <2>2
  <1>2. CASE Edit \/ UNCHANGED vars
    <2>1. UNCHANGED <<cursor, wire, pc, storeVars>>
      BY <1>2 DEF Edit, Save, Delete, vars, loopVars, phoneVars
    <2> QED BY <2>1
  <1>3. CASE Serve
    <2>1. cursor' = cursor /\ pc' = "answered"
      BY <1>3, ServeAnswers DEF PhoneInv, phoneVars
    <2>2. ~(FetchStates \/ FetchConflicts \/ FetchPage \/ TakeStates \/ TakeConflicts \/ TakePage)
             \/ UNCHANGED storeVars
      BY DEF FetchStates, FetchConflicts, FetchPage, TakeStates, TakeConflicts, TakePage
    <2> QED BY <2>1, <2>2
  <1>4. CASE \/ StartSync \/ ReadQueue \/ MarkSending \/ TakeAcknowledgement \/ TakeConflict
             \/ TakeRejection \/ LosePush \/ Stop
    <2>1. cursor' = cursor /\ pc' \in {"push", "refresh", "mark", "sent", "idle"} /\ UNCHANGED storeVars
      BY <1>4 DEF StartSync, ReadQueue, MarkSending, TakeAcknowledgement, TakeConflict,
                  TakeRejection, LosePush, Stop, phoneVars
    <2> QED BY <2>1
  <1>5. CASE \/ FetchStates \/ FetchConflicts \/ FetchPage \/ TakeStates \/ TakeConflicts \/ TakePage
    <2>1. UNCHANGED storeVars
      BY <1>5 DEF FetchStates, FetchConflicts, FetchPage, TakeStates, TakeConflicts, TakePage
    <2>2. CASE FetchStates
      BY <2>1, <2>2 DEF FetchStates, phoneVars
    <2>3. CASE FetchConflicts
      BY <2>1, <2>3 DEF FetchConflicts, phoneVars
    <2>4. CASE FetchPage
      BY <2>1, <2>4 DEF FetchPage, phoneVars
    <2>5. CASE TakeStates \/ TakeConflicts
      BY <2>1, <2>5 DEF TakeStates, TakeConflicts
    <2>6. CASE TakePage
      <3>1. pc' = "pull" \/ pc' = "synced"
        BY <2>6 DEF TakePage
      <3> QED BY <2>1, <2>6, <3>1
    <2> QED BY <1>5, <2>2, <2>3, <2>4, <2>5, <2>6
  <1> QED BY <1>1, <1>2, <1>3, <1>4, <1>5 DEF Next, Loop

(* New changes are at revisions beyond the head.                           *)
LEMMA NewRevisions ==
    ASSUME TypeInv, IdInv, [Next]_vars
    PROVE  /\ head \in Nat /\ head' \in Nat /\ head <= head'
           /\ changes \subseteq changes'
           /\ \A c \in changes' : c \in changes \/ c.rev > head
           /\ \A c \in changes' : c.rev \in Nat /\ c.rev >= 1 /\ c.rev <= head'
           /\ \A c \in changes : c.rev \in Nat /\ c.rev >= 1 /\ c.rev <= head
  <1>1. [LogNext]_storeVars
    BY NextIsStore
  <1>2. StoreIInv /\ StoreIInv'
    BY <1>1, LogNextKeepsIInv DEF TypeInv
  <1>3. head \in Nat /\ head' \in Nat
    BY <1>2, StoreAssumption DEF StoreIInv, StoreTypeOK, Revisions
  <1>4. \A c \in changes : c.rev \in Nat /\ c.rev >= 1 /\ c.rev <= head
    BY <1>2, OldRow
  <1>5. \A c \in changes' : c.rev \in 1 .. head'
    BY <1>2 DEF StoreIInv, StoreInv, OneRowPerRevision
  <1>6. CASE AppendChanges
    <2>1. changes \subseteq changes' /\ \A c \in changes' \ changes : c.rev \in (head + 1) .. head'
      BY <1>6 DEF AppendChanges
    <2>2. head' \in head .. MaxRevision
      BY <1>6 DEF AppendChanges
    <2>3. head <= head'
      BY <1>3, <2>2
    <2> QED BY <1>3, <1>4, <1>5, <2>1, <2>3
  <1>7. CASE UNCHANGED <<head, changes>>
    BY <1>3, <1>4, <1>7
  <1> QED BY <1>1, <1>6, <1>7 DEF LogNext, Dispute, Settle, storeVars

(* What is behind the cursor is the log's, and not what still waits in the *)
(* queue: a page has the rows from the cursor to the next one.             *)
PullInv ==
    /\ cursor <= head
    /\ \A m \in Pending \cup InFlight, c \in changes : c.id = m.id => c.rev > cursor
    /\ pc = "answered" /\ wire.status \in {"applied", "duplicate"} =>
          /\ wire.rev > cursor
          /\ \A m \in current : \E c \in changes : c.id = m.id /\ c.rev = wire.rev
    /\ pc = "pulled" =>
          /\ cursor <= wire.next /\ wire.next <= head
          /\ \A c \in changes :
                c \in wire.rows <=> (c.rev > cursor /\ c.rev <= wire.next)

LEMMA NextKeepsPull ==
    ASSUME PhoneInv, OrderInv, ServedInv, PullInv, [Next]_vars
    PROVE  PullInv'
  <1>0. /\ TypeInv /\ IdInv /\ QueueInv
        /\ cursor \in Nat
    BY StoreAssumption DEF PhoneInv, TypeInv, Revisions
  <1>1. /\ head \in Nat /\ head' \in Nat /\ head <= head'
        /\ changes \subseteq changes'
        /\ \A c \in changes' : c \in changes \/ c.rev > head
        /\ \A c \in changes' : c.rev \in Nat
    BY <1>0, NewRevisions
  <1>2. CASE Serve
    <2>1. /\ pc = "sent" /\ pc' = "answered"
          /\ UNCHANGED <<outbox, cursor, current>>
          /\ Pending' = Pending /\ InFlight = current /\ InFlight' = {}
      BY <1>0, <1>2, ServeAnswers DEF phoneVars, Pending, InFlight
    <2>2. cursor' <= head' /\ cursor <= head
      BY <1>0, <1>1, <2>1 DEF PullInv
    <2>3. \A m \in Pending' \cup InFlight', c \in changes' : c.id = m.id => c.rev > cursor'
      BY <1>0, <1>1, <2>1, <2>2 DEF PullInv
    <2>4. PICK m \in current :
             \/ AnsweredDuplicate(m) \/ AnsweredDisputed(m) \/ AnsweredConflict(m)
             \/ AnsweredApplied(m) \/ AnsweredRejected
      BY <1>0, <1>2, ServeAnswers
    <2>5. \A n \in current : n = m
      BY <1>0 DEF QueueInv, OneCurrent
    <2>6. CASE AnsweredDuplicate(m)
      <3>1. PICK c \in changes : c.id = m.id /\ c.rev = wire'.rev
        BY <2>6 DEF AnsweredDuplicate
      <3>2. c.rev > cursor
        BY <2>1, <3>1 DEF PullInv
      <3> QED BY <1>1, <2>1, <2>2, <2>3, <2>5, <3>1, <3>2 DEF PullInv
    <2>7. CASE AnsweredApplied(m)
      <3>1. PICK c \in changes' : c.id = m.id /\ c.rev = head + 1
        <4> DEFINE r == Row(head + 1, m.id, m.key, m.value)
        <4>1. r \in changes'
          BY <2>7 DEF AnsweredApplied
        <4>2. r.id = m.id /\ r.rev = head + 1
          BY DEF Row
        <4> HIDE DEF r
        <4> QED BY <4>1, <4>2
      <3>2. wire'.rev = head + 1 /\ head + 1 > cursor
        BY <1>0, <1>1, <2>2, <2>7 DEF AnsweredApplied
      <3> QED BY <2>1, <2>2, <2>3, <2>5, <3>1, <3>2 DEF PullInv
    <2>8. CASE wire'.status \notin {"applied", "duplicate"}
      BY <2>1, <2>2, <2>3, <2>8 DEF PullInv
    <2> QED BY <2>4, <2>6, <2>7, <2>8 DEF AnsweredDisputed, AnsweredConflict, AnsweredRejected
  <1>3. CASE ~Serve
    <2>1. Fresh(PhoneId(Len(made) + 1))
      BY <1>0, NextIsFresh
    <2>2. \A id : id = PhoneId(Len(made) + 1) => ~Logged(id)'
      <3>1. PhoneId(Len(made) + 1)[1] = "phone"
        BY PhoneIds
      <3>2. \A id : id[1] = "phone" => (Logged(id)' <=> Logged(id))
        BY <1>3, ServedByServe
      <3> QED BY <2>1, <3>1, <3>2 DEF Fresh
    <2>3. \A m \in InFlight' : m \in InFlight \/ m \in Pending
      BY <1>3, LoopPlaces DEF InFlight, Oldest
    <2>4. \A m \in Pending' \cup InFlight' :
             (\E q \in Pending \cup InFlight : q.id = m.id) \/ m.id = PhoneId(Len(made) + 1)
      BY <2>3, PendingStays
    <2>5. CASE cursor' = cursor
      <3>1. cursor' <= head' /\ cursor <= head
        BY <1>0, <1>1, <2>5 DEF PullInv
      <3>2. ASSUME NEW m \in Pending' \cup InFlight', NEW c \in changes', c.id = m.id
            PROVE  c.rev > cursor'
        <4>1. Logged(m.id)'
          BY <3>2 DEF Logged
        <4>2. PICK q \in Pending \cup InFlight : q.id = m.id
          BY <2>2, <2>4, <4>1
        <4>3. CASE c \in changes
          BY <2>5, <3>2, <4>2, <4>3 DEF PullInv
        <4>4. CASE c.rev > head
          BY <1>0, <1>1, <2>5, <3>1, <4>4
        <4> QED BY <1>1, <4>3, <4>4
      <3>3. ASSUME pc' = "answered", wire'.status \in {"applied", "duplicate"}
            PROVE  /\ wire'.rev > cursor'
                   /\ \A m \in current' : \E c \in changes' : c.id = m.id /\ c.rev = wire'.rev
        <4>1. pc = "answered" /\ wire' = wire
          BY <1>3, <3>3, LoopPlaces
        <4>2. current' = current
          BY <1>3, <3>3, LoopPlaces
        <4> QED BY <1>1, <2>5, <3>3, <4>1, <4>2 DEF PullInv
      <3>4. ASSUME pc' = "pulled"
            PROVE  /\ cursor' <= wire'.next /\ wire'.next <= head'
                   /\ \A c \in changes' :
                        c \in wire'.rows <=> (c.rev > cursor' /\ c.rev <= wire'.next)
        <4>1. CASE FetchPage
          <5>1. /\ UNCHANGED <<head, changes>>
                /\ wire'.rows = {c \in changes : c.rev \in (cursor + 1) .. (cursor + PageSize)}
                /\ wire'.next = NextCursor
            BY <4>1 DEF FetchPage, storeVars
          <5>2. PageSize \in Nat /\ PageSize > 0
            BY MobileAssumption
          <5>3. \A c \in changes : c.rev \in Nat /\ c.rev <= head
            BY <1>0, NewRevisions
          <5> QED BY <1>0, <1>1, <2>5, <3>1, <5>1, <5>2, <5>3 DEF NextCursor
        <4>2. CASE pc = "pulled" /\ wire' = wire
          <5>1. cursor <= wire.next /\ wire.next <= head /\ wire.next \in Nat
            BY <1>0, <4>2, StoreAssumption DEF PullInv, TypeInv, WireTyped, Revisions
          <5>2. \A c \in changes : c \in wire.rows <=> (c.rev > cursor /\ c.rev <= wire.next)
            BY <4>2 DEF PullInv
          <5>3. wire.rows \subseteq changes
            BY <1>0, <4>2 DEF TypeInv, WireTyped
          <5> QED BY <1>0, <1>1, <2>5, <4>2, <5>1, <5>2, <5>3
        <4> QED BY <3>4, <4>1, <4>2, AnswersStay
      <3> QED BY <3>1, <3>2, <3>3, <3>4 DEF PullInv
    <2>6. CASE TakePage
      <3>1. /\ pc = "pulled" /\ pc' \in {"pull", "synced"} /\ cursor' = wire.next
            /\ UNCHANGED <<head, changes, outbox>>
        BY <2>6 DEF TakePage, storeVars
      <3>2. \A q \in Pending' \cup InFlight' : ~Logged(q.id)
        BY <3>1 DEF ServedInv, Pulling, Pending, InFlight
      <3>3. \A m \in Pending' \cup InFlight', c \in changes' : c.id = m.id => c.rev > cursor'
        BY <3>1, <3>2 DEF Logged
      <3> QED BY <3>1, <3>3 DEF PullInv
    <2> QED BY <2>5, <2>6, AnswersStay
  <1> QED BY <1>2, <1>3

(* A conflict over what o shows was settled.                               *)
Settled(o) == \E c \in conflicts : c.key = o.key /\ c.verdict # "open"

Named(o) == o = [id |-> o.id, key |-> o.key]

(* The phone closes conflicts that are settled, only.                      *)
SettledInv ==
    /\ \A o \in opened : Named(o)
    /\ \A o \in choosing : Settled(o)
    /\ pc = "listed" => /\ \A o \in wire.open : Named(o)
                        /\ \A o \in opened : o \in wire.open \/ Settled(o)

(* Steps that change which conflicts are shown or chosen.                  *)
LEMMA OpenedStays ==
    ASSUME PhoneInv, [Next]_vars
    PROVE  /\ TakeConflict \/ TakeConflicts \/ opened' \subseteq opened
           /\ \/ choosing' \subseteq choosing
              \/ \E o \in opened, verdict \in Decisions : ChooseHere(o, verdict)
  <1>1. CASE Decide
    BY <1>1 DEF Decide, ChooseHere, ChoiceDone, ChooseElsewhere, phoneVars, envVars
  <1>2. CASE Edit \/ Others \/ Serve \/ UNCHANGED vars
    <2>1. UNCHANGED <<opened, choosing>>
      BY <1>2, ServeAnswers, EditChangesQueue
         DEF PhoneInv, Others, OtherWrites, OtherDisputes, phoneVars, envVars, vars
    <2> QED BY <2>1
  <1>3. CASE \/ StartSync \/ ReadQueue \/ MarkSending \/ TakeAcknowledgement \/ TakeRejection
             \/ FetchStates \/ TakeStates \/ FetchConflicts \/ FetchPage \/ TakePage
             \/ LosePush \/ Stop
    <2>1. UNCHANGED <<opened, choosing>>
      BY <1>3 DEF StartSync, ReadQueue, MarkSending, TakeAcknowledgement, TakeRejection,
                  FetchStates, TakeStates, FetchConflicts, FetchPage, TakePage,
                  LosePush, Stop, phoneVars, envVars
    <2> QED BY <2>1
  <1>4. CASE TakeConflict \/ TakeConflicts
    BY <1>4 DEF TakeConflict, TakeConflicts, envVars
  <1> QED BY <1>1, <1>2, <1>3, <1>4 DEF Next, Loop

(* A conflict that is settled stays so.                                    *)
LEMMA SettledStays ==
    ASSUME PhoneInv, [Next]_vars
    PROVE  \A k : (\E c \in conflicts : c.key = k /\ c.verdict # "open")
                     => \E c \in conflicts' : c.key = k /\ c.verdict # "open"
  <1>1. [LogNext]_storeVars /\ StoreTypeOK
    BY NextIsStore DEF PhoneInv, TypeInv, StoreIInv
  <1>2. \A c \in conflicts : c.verdict # "open" => c \in conflicts'
    BY <1>1, StepKeepsVersions
  <1> QED BY <1>2

LEMMA NextKeepsSettled ==
    ASSUME PhoneInv, SettledInv, [Next]_vars
    PROVE  SettledInv'
  <1>0. \A o : Settled(o) => \E c \in conflicts' : c.key = o.key /\ c.verdict # "open"
    BY SettledStays DEF Settled
  <1>1. ASSUME NEW o \in opened' PROVE Named(o)
    <2>1. CASE TakeConflict
      <3>1. PICK m \in current : opened' = opened \cup {[id |-> m.id, key |-> m.key]}
        BY <2>1 DEF TakeConflict
      <3> QED BY <3>1 DEF SettledInv, Named
    <2>2. CASE TakeConflicts
      BY <2>2 DEF TakeConflicts, SettledInv
    <2> QED BY <2>1, <2>2, OpenedStays DEF SettledInv
  <1>2. ASSUME NEW o \in choosing'
        PROVE  \E c \in conflicts' : c.key = o.key /\ c.verdict # "open"
    <2>1. ASSUME NEW p \in opened, NEW verdict \in Decisions, ChooseHere(p, verdict)
          PROVE  \E c \in conflicts' : c.key = o.key /\ c.verdict # "open"
      <3>1. o = p
        BY <2>1 DEF ChooseHere
      <3>2. PICK c \in conflicts : c.id = p.id /\ Settling(c, verdict)
        BY <2>1 DEF ChooseHere
      <3>3. PICK d \in conflicts : Shows(p, d)
        BY DEF PhoneInv, ShownInv
      <3>4. c = d /\ c \in Conflict
        BY <3>2, <3>3 DEF PhoneInv, TypeInv, StoreIInv, StoreInv, MutationOnce, StoreTypeOK, Shows
      <3>5. [c EXCEPT !.verdict = verdict] \in conflicts' /\ verdict # "open"
        <4>1. TypeInv /\ IdInv
          BY DEF PhoneInv
        <4>2. /\ conflicts' = (conflicts \ {c}) \cup {[c EXCEPT !.verdict = verdict]}
              /\ verdict # "open"
          BY <3>2, <4>1, SettlingIsStore
        <4> QED BY <4>2
      <3>6. [c EXCEPT !.verdict = verdict].key = p.key /\ [c EXCEPT !.verdict = verdict].verdict = verdict
        BY <3>3, <3>4 DEF Conflict, Shows
      <3> QED BY <3>1, <3>5, <3>6
    <2>2. CASE choosing' \subseteq choosing
      BY <1>0, <2>2 DEF SettledInv
    <2> QED BY <2>1, <2>2, OpenedStays
  <1>3. ASSUME pc' = "listed", NEW o \in wire'.open PROVE Named(o)
    <2>1. CASE FetchConflicts
      BY <1>3, <2>1 DEF FetchConflicts, Named
    <2>2. CASE pc = "listed" /\ wire' = wire
      BY <1>3, <2>2 DEF SettledInv
    <2> QED BY <1>3, <2>1, <2>2, AnswersStay
  <1>4. ASSUME pc' = "listed", NEW o \in opened'
        PROVE  o \in wire'.open \/ \E c \in conflicts' : c.key = o.key /\ c.verdict # "open"
    <2>1. CASE FetchConflicts
      <3>1. /\ opened' = opened /\ conflicts' = conflicts
            /\ wire'.open = {[id |-> c.id, key |-> c.key] :
                                 c \in {c \in conflicts : c.verdict = "open"}}
        BY <2>1 DEF FetchConflicts, phoneVars, storeVars
      <3>2. PICK c \in conflicts : Shows(o, c)
        BY <1>4, <3>1 DEF PhoneInv, ShownInv
      <3>3. o = [id |-> c.id, key |-> c.key]
        BY <1>4, <3>1, <3>2 DEF SettledInv, Named, Shows
      <3> QED BY <3>1, <3>2, <3>3 DEF Shows
    <2>2. CASE pc = "listed" /\ wire' = wire
      <3>1. ~(TakeConflict \/ TakeConflicts)
        BY <1>4, <2>2 DEF TakeConflict, TakeConflicts
      <3>2. o \in opened
        BY <1>4, <3>1, OpenedStays
      <3> QED BY <1>0, <2>2, <3>2 DEF SettledInv
    <2> QED BY <1>4, <2>1, <2>2, AnswersStay
  <1> QED BY <1>1, <1>2, <1>3, <1>4 DEF SettledInv, Settled, Named

(* Row r shows the latest change of k up to revision upto, or a later one. *)
ShowsLatest(log, upto, r, k) ==
    /\ \/ r.rev = 0 /\ r.value = None
       \/ \E c \in log : c.key = k /\ c.rev = r.rev /\ c.value = r.value
    /\ \A c \in log : c.key = k /\ c.rev <= upto => c.rev <= r.rev

(* Edits of k are not merged, and no conflict over it was settled.         *)
Plain(k) == k \notin Coalescing /\ \A c \in conflicts : c.key = k => c.verdict = "open"

(* A plain row that is neither edited nor in conflict.                     *)
Settles(k) == Plain(k) /\ ~Guarded(replica[k])

LatestInv ==
    /\ \A k \in Keys : Settles(k) => ShowsLatest(changes, cursor, replica[k], k)
    /\ pc = "refreshed" => \A k \in Keys : ShowsLatest(changes, cursor, wire.states[k], k)
    /\ pc = "pulled" /\ ~wire.more => \A k \in Keys : Settles(k) => replica[k].rev <= wire.next
    /\ pc = "synced" => \A k \in Keys : Settles(k) => replica[k].rev <= cursor

(* Steps that write a plain row and leave it unmarked.                     *)
LEMMA RowsStay ==
    ASSUME PhoneInv, SettledInv, [Next]_vars, ~TakeAcknowledgement, ~TakeStates, ~TakePage
    PROVE  \A k \in Keys : replica'[k] = replica[k] \/ Guarded(replica'[k]) \/ ~Plain(k)
  <1>0. replica \in [Keys -> PhoneRow]
    BY DEF PhoneInv, TypeInv
  <1>1. CASE Edit
    <2>1. PICK k \in Keys, v \in Contents : replica' = [replica EXCEPT ![k].value = v, ![k].dirty = TRUE]
      BY <1>1 DEF Edit, Save, Delete, Contents
    <2>2. \A l \in Keys : l # k => replica'[l] = replica[l]
      BY <1>0, <2>1
    <2>3. replica'[k] = [replica[k] EXCEPT !.value = v, !.dirty = TRUE] /\ replica[k] \in PhoneRow
      BY <1>0, <2>1
    <2>4. replica'[k].dirty
      BY <2>3 DEF PhoneRow
    <2> QED BY <2>2, <2>4 DEF Guarded
  <1>2. CASE TakeConflict
    <2>1. PICK m \in current : replica' = [replica EXCEPT ![m.key].conflicted = TRUE]
      BY <1>2 DEF TakeConflict
    <2>2. \A l \in Keys : l # m.key => replica'[l] = replica[l]
      BY <1>0, <2>1
    <2>3. ASSUME m.key \in Keys PROVE replica'[m.key].conflicted
      <3>1. replica'[m.key] = [replica[m.key] EXCEPT !.conflicted = TRUE] /\ replica[m.key] \in PhoneRow
        BY <1>0, <2>1, <2>3
      <3> QED BY <3>1 DEF PhoneRow
    <2> QED BY <2>2, <2>3 DEF Guarded
  <1>3. CASE TakeConflicts
    <2> DEFINE closed == {o.key : o \in opened \ wire.open}
               marked == {o.key : o \in wire.open}
    <2>1. ASSUME NEW k \in Keys
          PROVE  replica'[k] = replica[k] \/ Guarded(replica'[k]) \/ ~Plain(k)
      <3>1. CASE k \in closed
        <4>1. PICK o \in opened \ wire.open : o.key = k
          BY <3>1
        <4>2. Settled(o)
          BY <1>3, <4>1 DEF TakeConflicts, SettledInv
        <4> QED BY <4>1, <4>2 DEF Settled, Plain
      <3>2. CASE k \notin closed /\ k \in marked /\ replica[k] # NoRow
        <4>1. replica'[k] = [replica[k] EXCEPT !.conflicted = TRUE] /\ replica[k] \in PhoneRow
          BY <1>0, <1>3, <3>2 DEF TakeConflicts
        <4>2. replica'[k].conflicted
          BY <4>1 DEF PhoneRow
        <4> QED BY <4>2 DEF Guarded
      <3>3. CASE k \notin closed /\ ~(k \in marked /\ replica[k] # NoRow)
        BY <1>3, <3>3 DEF TakeConflicts
      <3> QED BY <3>1, <3>2, <3>3
    <2> QED BY <2>1
  <1>4. CASE \E o \in choosing : ChoiceDone(o)
    <2>1. PICK o \in choosing : replica' = [replica EXCEPT ![o.key] = Unmarked(@)] \/ replica' = replica
      BY <1>4 DEF ChoiceDone
    <2>2. \A k \in Keys : k # o.key => replica'[k] = replica[k]
      BY <1>0, <2>1
    <2>3. ~Plain(o.key)
      BY DEF SettledInv, Settled, Plain
    <2> QED BY <2>2, <2>3
  <1>5. CASE (Decide /\ ~\E o \in choosing : ChoiceDone(o)) \/ Others \/ Serve \/ UNCHANGED vars
    <2>1. replica' = replica
      BY <1>5, ServeAnswers DEF PhoneInv, Decide, ChooseHere, ChooseElsewhere, Others,
                                OtherWrites, OtherDisputes, vars, phoneVars
    <2> QED BY <2>1
  <1>6. CASE \/ StartSync \/ ReadQueue \/ MarkSending \/ TakeRejection
             \/ FetchStates \/ FetchConflicts \/ FetchPage \/ LosePush \/ Stop
    <2>1. replica' = replica
      BY <1>6 DEF StartSync, ReadQueue, MarkSending, TakeRejection, FetchStates,
                  FetchConflicts, FetchPage, LosePush, Stop, phoneVars
    <2> QED BY <2>1
  <1> QED BY <1>1, <1>2, <1>3, <1>4, <1>5, <1>6 DEF Next, Loop

(* A row that shows the latest change does so after a step, if the cursor  *)
(* stays: what is new in the log is beyond it.                             *)
LEMMA ShowsLatestStays ==
    ASSUME PhoneInv, PullInv, [Next]_vars, cursor' = cursor
    PROVE  \A r, k : ShowsLatest(changes, cursor, r, k) => ShowsLatest(changes', cursor', r, k)
  <1>1. /\ head \in Nat /\ changes \subseteq changes'
        /\ \A c \in changes' : c \in changes \/ c.rev > head
        /\ \A c \in changes' : c.rev \in Nat
    BY NewRevisions DEF PhoneInv
  <1>2. cursor \in Nat /\ cursor <= head
    BY StoreAssumption DEF PhoneInv, TypeInv, Revisions, PullInv
  <1>3. \A c \in changes' : c.rev <= cursor => c \in changes
    BY <1>1, <1>2
  <1> QED BY <1>1, <1>3 DEF ShowsLatest

(* The state of an entity is its latest change, to any revision.           *)
LEMMA StateShowsLatest ==
    ASSUME StoreIInv, NEW upto
    PROVE  \A k \in Keys : ShowsLatest(changes, upto, entity[k], k)
  <1> SUFFICES ASSUME NEW k \in Keys PROVE ShowsLatest(changes, upto, entity[k], k)
    OBVIOUS
  <1>1. /\ \A c \in changes : c.key = k => c.rev <= entity[k].rev
        /\ entity[k].rev = 0 => entity[k].value = None
        /\ entity[k].rev # 0 =>
              \E c \in changes : c.key = k /\ c.rev = entity[k].rev /\ c.value = entity[k].value
    BY DEF StoreIInv, StoreInv, StateIsLastChange
  <1> QED BY <1>1 DEF ShowsLatest

(* What a mutation whose edits are not merged has in the log is what the   *)
(* loop pushed.                                                            *)
LEMMA PushedAsMade ==
    ASSUME PhoneInv, ContentInv
    PROVE  \A m \in current, c \in changes :
              c.id = m.id /\ m.key \notin Coalescing => c.key = m.key /\ c.value = m.value
  <1> SUFFICES ASSUME NEW m \in current, NEW c \in changes, c.id = m.id, m.key \notin Coalescing
               PROVE  c.key = m.key /\ c.value = m.value
    OBVIOUS
  <1>1. PICK n \in Nat : Stems(m, n)
    BY DEF PhoneInv, IdInv, RowsStem
  <1>2. n \in 1 .. Len(made) /\ m.id = PhoneId(n) /\ m.key = made[n].key
    BY <1>1 DEF Stems
  <1>3. Stems(c, n)
    BY <1>2 DEF PhoneInv, IdInv, RowsStem
  <1>4. Carries(n)
    BY <1>2 DEF ContentInv
  <1>5. m.value = made[n].value /\ c.value = made[n].value
    BY <1>2, <1>4 DEF Carries
  <1> QED BY <1>2, <1>3, <1>5 DEF Stems

(* What makes of a key a settled row after a step made it so before, as to *)
(* the conflicts.                                                          *)
LEMMA PlainBefore ==
    ASSUME PhoneInv, [Next]_vars
    PROVE  \A k \in Keys : Plain(k)' => Plain(k)
  BY SettledStays DEF Plain

LEMMA AcknowledgementKeepsLatest ==
    ASSUME PhoneInv, ContentInv, PullInv, LatestInv, TakeAcknowledgement
    PROVE  LatestInv'
  <1>1. /\ pc = "answered" /\ wire.status \in {"applied", "duplicate"}
        /\ UNCHANGED <<changes, conflicts, cursor>> /\ pc' = "push"
    BY DEF TakeAcknowledgement, storeVars
  <1>2. PICK m \in current :
           replica' = [replica EXCEPT ![m.key].rev = wire.rev,
                                      ![m.key].dirty = EditedSince(m),
                                      ![m.key].conflicted = FALSE]
    BY Acknowledged DEF PhoneInv
  <1>3. replica \in [Keys -> PhoneRow] /\ m.key \in Keys /\ cursor \in Nat
    BY StoreAssumption DEF PhoneInv, TypeInv, QueuedRow, Revisions
  <1>4. ASSUME NEW k \in Keys, Plain(k), ~Guarded(replica'[k])
        PROVE  ShowsLatest(changes, cursor, replica'[k], k)
    <2>1. CASE k # m.key
      <3>1. replica'[k] = replica[k]
        BY <1>2, <1>3, <2>1
      <3> QED BY <1>4, <3>1 DEF LatestInv, Settles
    <2>2. CASE k = m.key
      <3>1. replica'[k] = [replica[k] EXCEPT !.rev = wire.rev, !.dirty = EditedSince(m), !.conflicted = FALSE]
        BY <1>2, <1>3, <2>2
      <3>2. replica[k] \in PhoneRow
        BY <1>3
      <3>3. replica'[k].rev = wire.rev /\ replica'[k].dirty = EditedSince(m) /\ replica'[k].value = replica[k].value
        BY <3>1, <3>2 DEF PhoneRow
      <3>4. replica'[k].value = m.value
        BY <1>4, <2>2, <3>3 DEF Guarded, EditedSince
      <3>5. wire.rev > cursor /\ wire.rev \in Nat
        BY <1>1, StoreAssumption DEF PullInv, PhoneInv, TypeInv, WireTyped, Revisions
      <3>6. PICK c \in changes : c.id = m.id /\ c.rev = wire.rev
        BY <1>1 DEF PullInv
      <3>7. c.key = k /\ c.value = m.value
        BY <1>4, <2>2, <3>6, PushedAsMade DEF Plain
      <3>8. \A d \in changes : d.rev \in Nat
        BY OldRow DEF PhoneInv, TypeInv
      <3>9. \A d \in changes : d.rev <= cursor => d.rev <= replica'[k].rev
        BY <1>3, <3>3, <3>5, <3>8
      <3> QED BY <3>3, <3>4, <3>6, <3>7, <3>9 DEF ShowsLatest
    <2> QED BY <2>1, <2>2
  <1> QED BY <1>1, <1>4 DEF LatestInv, Settles, Plain

LEMMA StatesKeepLatest ==
    ASSUME LatestInv, TakeStates
    PROVE  LatestInv'
  <1>1. /\ pc = "refreshed" /\ UNCHANGED <<changes, conflicts, cursor>> /\ pc' = "conflicts"
    BY DEF TakeStates, storeVars
  <1>2. ASSUME NEW k \in Keys, Plain(k), ~Guarded(replica'[k])
        PROVE  ShowsLatest(changes, cursor, replica'[k], k)
    <2>1. replica'[k] = IF Guarded(replica[k]) THEN replica[k]
                        ELSE Clean(wire.states[k].rev, wire.states[k].value)
      BY DEF TakeStates
    <2>2. replica'[k] = Clean(wire.states[k].rev, wire.states[k].value)
      BY <1>2, <2>1
    <2>3. replica'[k].rev = wire.states[k].rev /\ replica'[k].value = wire.states[k].value
      BY <2>2 DEF Clean
    <2>4. ShowsLatest(changes, cursor, wire.states[k], k)
      BY <1>1 DEF LatestInv
    <2> QED BY <2>3, <2>4 DEF ShowsLatest
  <1> QED BY <1>1, <1>2 DEF LatestInv, Settles, Plain

LEMMA PageKeepsLatest ==
    ASSUME PhoneInv, PullInv, LatestInv, TakePage
    PROVE  LatestInv'
  <1>1. /\ pc = "pulled" /\ UNCHANGED <<changes, conflicts>> /\ cursor' = wire.next
        /\ pc' = IF wire.more THEN "pull" ELSE "synced"
    BY DEF TakePage, storeVars
  <1>2. /\ wire.rows \subseteq changes
        /\ \A c \in changes : c \in wire.rows <=> (c.rev > cursor /\ c.rev <= wire.next)
        /\ cursor \in Nat /\ wire.next \in Nat /\ cursor <= wire.next
    BY <1>1, StoreAssumption DEF PhoneInv, TypeInv, WireTyped, PullInv, Revisions
  <1>3. \A c \in changes : c.rev \in Nat
    BY OldRow DEF PhoneInv, TypeInv
  <1>4. ASSUME NEW k \in Keys, Plain(k), ~Guarded(replica'[k])
        PROVE  /\ ShowsLatest(changes, wire.next, replica'[k], k)
               /\ ~wire.more => replica'[k].rev <= wire.next
    <2> DEFINE rows == {c \in wire.rows : c.key = k}
               last == CHOOSE c \in rows : \A d \in rows : d.rev <= c.rev
    <2>1. replica'[k] = IF Guarded(replica[k]) \/ rows = {} THEN replica[k]
                        ELSE Clean(last.rev, last.value)
      BY DEF TakePage
    <2>2. CASE Guarded(replica[k]) \/ rows = {}
      <3>1. replica'[k] = replica[k] /\ Settles(k) /\ rows = {}
        BY <1>4, <2>1, <2>2 DEF Settles
      <3>2. ShowsLatest(changes, cursor, replica[k], k)
        BY <3>1 DEF LatestInv
      <3>3. \A c \in changes : c.key = k /\ c.rev <= wire.next => c.rev <= cursor
        BY <1>2, <1>3, <3>1
      <3>4. ~wire.more => replica[k].rev <= wire.next
        BY <1>1, <3>1 DEF LatestInv
      <3> QED BY <3>1, <3>2, <3>3, <3>4 DEF ShowsLatest
    <2>3. CASE ~(Guarded(replica[k]) \/ rows = {})
      <3>1. last \in rows /\ \A d \in rows : d.rev <= last.rev
        <4>1. rows \subseteq changes /\ rows # {}
          BY <1>2, <2>3
        <4>2. \E c \in rows : \A d \in rows : d.rev <= c.rev
          BY <4>1, LastOfSome DEF PhoneInv, TypeInv
        <4> QED BY <4>2
      <3>2. replica'[k].rev = last.rev /\ replica'[k].value = last.value
        BY <2>1, <2>3 DEF Clean
      <3> HIDE DEF last
      <3>3. last \in changes /\ last.key = k /\ last.rev > cursor /\ last.rev <= wire.next
        BY <1>2, <3>1
      <3>4. ASSUME NEW c \in changes, c.key = k, c.rev <= wire.next PROVE c.rev <= last.rev
        <4>1. CASE c.rev > cursor
          BY <1>2, <3>1, <3>4, <4>1
        <4>2. CASE c.rev <= cursor
          BY <1>2, <1>3, <3>3, <4>2
        <4> QED BY <1>2, <1>3, <4>1, <4>2
      <3> QED BY <3>2, <3>3, <3>4 DEF ShowsLatest
    <2> QED BY <2>2, <2>3
  <1> QED BY <1>1, <1>4 DEF LatestInv, Settles, Plain

LEMMA NextKeepsLatest ==
    ASSUME PhoneInv, ContentInv, PullInv, SettledInv, LatestInv, [Next]_vars
    PROVE  LatestInv'
  <1>1. CASE ~TakeAcknowledgement /\ ~TakeStates /\ ~TakePage
    <2>1. cursor' = cursor
      BY <1>1, AnswersStay
    <2>2. \A r, k : ShowsLatest(changes, cursor, r, k) => ShowsLatest(changes', cursor', r, k)
      BY <2>1, ShowsLatestStays
    <2>3. \A k \in Keys : Settles(k)' => Settles(k) /\ replica'[k] = replica[k]
      <3>1. \A k \in Keys : Plain(k)' => Plain(k)
        BY PlainBefore
      <3>2. \A k \in Keys : replica'[k] = replica[k] \/ Guarded(replica'[k]) \/ ~Plain(k)
        BY <1>1, RowsStay
      <3> QED BY <3>1, <3>2 DEF Settles, Guarded
    <2>4. \A k \in Keys : Settles(k)' => ShowsLatest(changes', cursor', replica'[k], k)
      BY <2>2, <2>3 DEF LatestInv
    <2>5. ASSUME pc' = "refreshed"
          PROVE  \A k \in Keys : ShowsLatest(changes', cursor', wire'.states[k], k)
      <3>1. CASE FetchStates
        <4>1. wire'.states = entity
          BY <2>5, <3>1 DEF FetchStates
        <4>2. \A k \in Keys : ShowsLatest(changes, cursor, entity[k], k)
          BY StateShowsLatest DEF PhoneInv, TypeInv
        <4> QED BY <2>2, <4>1, <4>2
      <3>2. CASE pc = "refreshed" /\ wire' = wire
        BY <2>2, <3>2 DEF LatestInv
      <3> QED BY <2>5, <3>1, <3>2, AnswersStay
    <2>6. ASSUME pc' = "pulled", ~wire'.more, NEW k \in Keys, Settles(k)'
          PROVE  replica'[k].rev <= wire'.next
      <3>1. replica'[k] = replica[k] /\ Settles(k)
        BY <2>3, <2>6
      <3>2. CASE FetchPage
        <4>1. ~(head > cursor + PageSize) /\ wire'.next = NextCursor
          BY <2>6, <3>2 DEF FetchPage
        <4>2. head \in Nat /\ cursor \in Nat /\ PageSize \in Nat
          BY MobileAssumption, StoreAssumption
             DEF PhoneInv, TypeInv, StoreIInv, StoreTypeOK, Revisions
        <4>3. wire'.next = head
          BY <4>1, <4>2 DEF NextCursor
        <4>4. ShowsLatest(changes, cursor, replica[k], k)
          BY <3>1 DEF LatestInv
        <4>5. replica[k].rev = 0 \/ \E c \in changes : c.rev = replica[k].rev
          BY <4>4 DEF ShowsLatest
        <4>6. \A c \in changes : c.rev <= head
          BY OldRow DEF PhoneInv, TypeInv
        <4> QED BY <3>1, <4>2, <4>3, <4>5, <4>6
      <3>3. CASE pc = "pulled" /\ wire' = wire
        BY <2>6, <3>1, <3>3 DEF LatestInv
      <3> QED BY <2>6, <3>2, <3>3, AnswersStay
    <2>7. ASSUME pc' = "synced", NEW k \in Keys, Settles(k)'
          PROVE  replica'[k].rev <= cursor'
      <3>1. pc = "synced"
        BY <1>1, <2>7, AnswersStay
      <3> QED BY <2>1, <2>3, <2>7, <3>1 DEF LatestInv
    <2> QED BY <2>4, <2>5, <2>6, <2>7 DEF LatestInv
  <1> QED BY <1>1, AcknowledgementKeepsLatest, StatesKeepLatest, PageKeepsLatest

(* After a complete synchronisation each row that is neither edited nor in *)
(* conflict, whose edits are not merged and whose conflicts nobody has     *)
(* settled, shows what the log says at the cursor.                         *)
PlainRowsLatest ==
    pc = "synced" =>
        \A k \in Keys : Plain(k) /\ ~Guarded(replica[k]) => replica[k].value = LastPulled(k)

LatestPhone == PhoneInv /\ OrderInv /\ LogKeepsOrder /\ ContentInv /\ ServedInv /\ PullInv
                  /\ SettledInv /\ LatestInv

LEMMA InitLatest == Init => LatestPhone
  <1> SUFFICES ASSUME Init PROVE LatestPhone
    OBVIOUS
  <1>1. PhoneInv /\ ContentInv
    BY InitPhone, InitContents
  <1>2. /\ changes = {} /\ conflicts = {} /\ head = 0 /\ outbox = {} /\ cursor = 0
        /\ opened = {} /\ choosing = {} /\ pc = "idle"
        /\ replica = [k \in Keys |-> NoRow]
    BY DEF Init, StoreInit
  <1>3. OrderInv /\ LogKeepsOrder
    BY <1>2 DEF OrderInv, LogKeepsOrder, InFlight
  <1>4. ServedInv /\ PullInv /\ SettledInv
    BY <1>2 DEF ServedInv, PullInv, SettledInv, Pending, InFlight, Pulling
  <1>5. LatestInv
    BY <1>2 DEF LatestInv, ShowsLatest, NoRow
  <1> QED BY <1>1, <1>3, <1>4, <1>5 DEF LatestPhone

LEMMA NextKeepsLatestPhone ==
    ASSUME LatestPhone, [Next]_vars
    PROVE  LatestPhone'
  BY NextKeepsPhone, NextKeepsOrder, NextKeepsContents, NextKeepsServed, NextKeepsPull,
     NextKeepsSettled, NextKeepsLatest DEF LatestPhone

LEMMA LatestIsPulled == LatestPhone => PlainRowsLatest
  <1> SUFFICES ASSUME LatestPhone, pc = "synced", NEW k \in Keys, Settles(k)
               PROVE  replica[k].value = LastPulled(k)
    BY DEF PlainRowsLatest, Settles
  <1> DEFINE pulled == {c \in changes : c.key = k /\ c.rev <= cursor}
             last == CHOOSE c \in pulled : \A d \in pulled : d.rev <= c.rev
  <1>1. ShowsLatest(changes, cursor, replica[k], k) /\ replica[k].rev <= cursor
    BY DEF LatestPhone, LatestInv
  <1>2. StoreIInv /\ replica[k].rev \in Nat /\ cursor \in Nat
    BY StoreAssumption DEF LatestPhone, PhoneInv, TypeInv, PhoneRow, Revisions
  <1>3. \A c \in changes : c.rev \in Nat /\ c.rev >= 1
    BY <1>2, OldRow
  <1>4. CASE pulled = {}
    <2>1. LastPulled(k) = None
      BY <1>4 DEF LastPulled
    <2>2. replica[k].rev = 0 /\ replica[k].value = None
      BY <1>1, <1>4 DEF ShowsLatest
    <2> QED BY <2>1, <2>2
  <1>5. CASE pulled # {}
    <2>1. LastPulled(k) = last.value
      BY <1>5 DEF LastPulled
    <2>2. last \in pulled /\ \A d \in pulled : d.rev <= last.rev
      <3>1. \E c \in pulled : \A d \in pulled : d.rev <= c.rev
        BY <1>2, <1>5, LastOfSome
      <3> QED BY <3>1
    <2> HIDE DEF last
    <2>3. last.rev <= replica[k].rev /\ last.rev >= 1 /\ last.rev \in Nat /\ last \in changes
      BY <1>1, <1>3, <2>2 DEF ShowsLatest
    <2>4. PICK c \in changes : c.key = k /\ c.rev = replica[k].rev /\ c.value = replica[k].value
      BY <1>1, <1>2, <2>3 DEF ShowsLatest
    <2>5. c \in pulled
      BY <1>1, <2>4
    <2>6. c.rev = last.rev
      BY <1>3, <2>2, <2>3, <2>4, <2>5
    <2>7. c = last
      BY <1>2, <2>3, <2>6 DEF StoreIInv, StoreInv, OneRowPerRevision
    <2> QED BY <2>1, <2>4, <2>7
  <1> QED BY <1>4, <1>5

(* However many pages, losses, stops, refusals and other writers there     *)
(* were, a synchronised phone shows what the log says.                     *)
THEOREM PlainRowsAreLatest == Spec => []PlainRowsLatest
  BY InitLatest, NextKeepsLatestPhone, LatestIsPulled, PTL DEF Spec

(* Nobody has settled a conflict.                                          *)
OnlyOpen == \A c \in conflicts : c.verdict = "open"

LEMMA NextKeepsOpen ==
    ASSUME Decisions = {}, PhoneInv, OnlyOpen, [Next]_vars
    PROVE  OnlyOpen'
  <1> SUFFICES ASSUME NEW c \in conflicts' PROVE c.verdict = "open"
    BY DEF OnlyOpen
  <1>0. \A id, k, base, v : Collision(id, k, base, v).verdict = "open"
    BY DEF Collision
  <1>1. CASE Serve
    BY <1>0, <1>1, ServeAnswers DEF PhoneInv, OnlyOpen, AnsweredDuplicate, AnsweredDisputed,
       AnsweredConflict, AnsweredApplied, AnsweredRejected, storeVars
  <1>2. CASE Others
    <2>1. PICK k \in Keys, v \in Contents : OtherWrites(k, v) \/ OtherDisputes(k, v)
      BY <1>2 DEF Others
    <2> QED BY <1>0, <2>1, OthersEffects DEF PhoneInv, OnlyOpen
  <1>3. CASE \/ Edit \/ ((Loop \/ LosePush \/ Stop) /\ ~Serve)
             \/ (\E o \in choosing : ChoiceDone(o)) \/ UNCHANGED vars
    <2>1. UNCHANGED conflicts
      BY <1>3, EditChangesQueue, LoopLeaves DEF PhoneInv, ChoiceDone, vars, storeVars
    <2> QED BY <2>1 DEF OnlyOpen
  <1> QED BY <1>1, <1>2, <1>3 DEF Next, Decide

(* Without merged edits and choices, all of what SyncedIsLatest says:      *)
(* pages, snapshots, skipped rows and acknowledgements add up to the state *)
(* of the log.                                                             *)
THEOREM SyncedIsLatestHolds == Coalescing = {} /\ Decisions = {} /\ Spec => []SyncedIsLatest
  <1>1. Decisions = {} /\ PhoneInv /\ OnlyOpen /\ [Next]_vars => OnlyOpen'
    BY NextKeepsOpen
  <1>2. Init => OnlyOpen
    BY DEF Init, StoreInit, OnlyOpen
  <1>3. Coalescing = {} /\ OnlyOpen /\ PlainRowsLatest => SyncedIsLatest
    BY DEF OnlyOpen, PlainRowsLatest, Plain, SyncedIsLatest
  <1>4. Coalescing = {} /\ Decisions = {} => (Coalescing = {} /\ Decisions = {})'
    OBVIOUS
  <1>5. LatestPhone => PhoneInv
    BY DEF LatestPhone
  <1> QED BY <1>1, <1>2, <1>3, <1>4, <1>5, InitLatest, NextKeepsLatestPhone, LatestIsPulled, PTL DEF Spec

----------------------------------------------------------------------------
(* The revisions that what waits in the queue is based on.                 *)

(* The mutation the loop has read, until its answer is taken.              *)
Pushed == IF pc \in {"mark", "sent", "answered"} THEN current ELSE {}

Waits == Pending \cup Pushed

(* A row that was sent, or is about to be.                                 *)
Out(q) == q.sent \/ q.state = "sending"

(* The loop pushes the first row of the queue, and nothing behind it was   *)
(* ever sent; what the Gateway has of it is the phone's last change.       *)
PushInv ==
    /\ \A m \in Pushed : \E q \in Pending : q.id = m.id
    /\ \A m \in Pushed, p \in Pending : m.id[2] <= p.id[2]
    /\ \A q, p \in Pending : Out(q) => q.id[2] <= p.id[2]
    /\ \A x \in Pending, c \in changes : Logged(x.id) /\ c.id[1] = "phone" => c.id[2] <= x.id[2]

(* What an acknowledgement makes of the other rows.                        *)
LEMMA RestWaits ==
    ASSUME TypeInv, NEW m \in current
    PROVE  /\ \A r \in Rest(m) : \E q \in outbox :
                 /\ q.id # m.id /\ r.id = q.id /\ r.key = q.key /\ r.value = q.value
                 /\ r.state = q.state /\ r.sent = q.sent
                 /\ r.base = IF q.key = m.key /\ q.state = "pending" /\ ~q.sent
                             THEN wire.rev ELSE q.base
           /\ \A q \in outbox : q.id # m.id => \E r \in Rest(m) :
                 r.id = q.id /\ r.key = q.key /\ r.value = q.value /\ r.state = q.state
  <1> DEFINE queue == {q \in outbox : q.id # m.id}
             f(q) == IF q.key = m.key /\ q.state = "pending" /\ ~q.sent
                     THEN [q EXCEPT !.base = wire.rev] ELSE q
  <1>1. Rest(m) = {f(q) : q \in queue}
    BY DEF Rest, Rebased
  <1>2. ASSUME NEW q \in queue
        PROVE  /\ f(q).id = q.id /\ f(q).key = q.key /\ f(q).value = q.value
               /\ f(q).state = q.state /\ f(q).sent = q.sent
               /\ f(q).base = IF q.key = m.key /\ q.state = "pending" /\ ~q.sent
                              THEN wire.rev ELSE q.base
    BY DEF TypeInv, QueuedRow
  <1> HIDE DEF f
  <1> QED BY <1>1, <1>2

(* A new mutation is based on the revision the author saw.                 *)
LEMMA EditBases ==
    ASSUME TypeInv, Edit
    PROVE  /\ \A q \in Pending' :
                 \/ \E p \in Pending : /\ q.id = p.id /\ q.key = p.key /\ q.base = p.base
                                       /\ (q.value = p.value \/ p.key \in Coalescing)
                                       /\ (Out(q) => Out(p))
                 \/ /\ q.id = PhoneId(Len(made) + 1) /\ q.key \in Keys
                    /\ q.base = replica[q.key].rev /\ ~Out(q)
           /\ \A p \in Pending : \E q \in Pending' : q.id = p.id /\ q.key = p.key
  <1>0. \A k, v : /\ NewMutation(k, v).id = PhoneId(Len(made) + 1) /\ NewMutation(k, v).key = k
                  /\ NewMutation(k, v).base = replica[k].rev /\ NewMutation(k, v).state = "pending"
                  /\ ~NewMutation(k, v).sent
    BY DEF NewMutation
  <1>1. \A q : q \in Pending' <=> q \in outbox' /\ q.state \in {"pending", "sending"}
    BY DEF Pending
  <1>2. \A q : q \in Pending <=> q \in outbox /\ q.state \in {"pending", "sending"}
    BY DEF Pending
  <1>3. ASSUME NEW k \in Keys, NEW v, NEW rows, outbox' = rows \cup {NewMutation(k, v)},
               \A r \in rows : \E q \in outbox :
                  /\ r.id = q.id /\ r.key = q.key /\ r.base = q.base /\ r.value = q.value
                  /\ r.state = q.state /\ r.sent = q.sent,
               \A q \in outbox : \E r \in rows : r.id = q.id /\ r.key = q.key /\ r.state = q.state
        PROVE  /\ \A q \in Pending' :
                     \/ \E p \in Pending : /\ q.id = p.id /\ q.key = p.key /\ q.base = p.base
                                           /\ (q.value = p.value \/ p.key \in Coalescing)
                                           /\ (Out(q) => Out(p))
                     \/ /\ q.id = PhoneId(Len(made) + 1) /\ q.key \in Keys
                        /\ q.base = replica[q.key].rev /\ ~Out(q)
               /\ \A p \in Pending : \E q \in Pending' : q.id = p.id /\ q.key = p.key
    <2> DEFINE new == NewMutation(k, v)
    <2>1. /\ new.id = PhoneId(Len(made) + 1) /\ new.key = k /\ new.base = replica[k].rev
          /\ ~Out(new)
      BY <1>0 DEF Out
    <2>2. outbox' = rows \cup {new}
      BY <1>3
    <2> HIDE DEF new
    <2>3. \A q \in Pending' : q = new \/ q \in rows
      BY <1>1, <2>2
    <2>4. ASSUME NEW q \in Pending', q \in rows
          PROVE  \E p \in Pending : /\ q.id = p.id /\ q.key = p.key /\ q.base = p.base
                                    /\ q.value = p.value /\ (Out(q) => Out(p))
      BY <1>1, <1>2, <1>3, <2>4 DEF Out
    <2>5. \A p \in Pending : \E q \in Pending' : q.id = p.id /\ q.key = p.key
      BY <1>1, <1>2, <1>3, <2>2
    <2> QED BY <1>3, <2>1, <2>3, <2>4, <2>5
  <1>5. ASSUME NEW k \in Keys, NEW v \in Values, NEW m \in Newest(Mergeable(k)),
               outbox' = (outbox \ {m}) \cup {[m EXCEPT !.value = v]}
        PROVE  /\ \A q \in Pending' :
                     \E p \in Pending : /\ q.id = p.id /\ q.key = p.key /\ q.base = p.base
                                        /\ (q.value = p.value \/ p.key \in Coalescing)
                                        /\ (Out(q) => Out(p))
               /\ \A p \in Pending : \E q \in Pending' : q.id = p.id /\ q.key = p.key
    <2> DEFINE x == [m EXCEPT !.value = v]
    <2>1. m \in outbox /\ m.state = "pending" /\ m.key \in Coalescing
      BY DEF Newest, Mergeable, Waiting
    <2>2. /\ x.id = m.id /\ x.key = m.key /\ x.base = m.base /\ x.state = m.state
          /\ x.sent = m.sent
      BY <2>1 DEF TypeInv, QueuedRow
    <2>3. outbox' = (outbox \ {m}) \cup {x}
      BY <1>5
    <2> HIDE DEF x
    <2>4. m \in Pending /\ x \in Pending'
      BY <1>1, <1>2, <2>1, <2>2, <2>3
    <2>5. \A q \in Pending' : q = x \/ q \in Pending
      BY <1>1, <1>2, <2>3
    <2>6. \A p \in Pending : p = m \/ p \in Pending'
      BY <1>1, <1>2, <2>3
    <2> QED BY <2>1, <2>2, <2>4, <2>5, <2>6 DEF Out
  <1>6. ASSUME NEW k \in Keys, Delete(k)
        PROVE  \E rows : /\ outbox' = rows \cup {NewMutation(k, None)}
                         /\ \A r \in rows : \E q \in outbox :
                               /\ r.id = q.id /\ r.key = q.key /\ r.base = q.base /\ r.value = q.value
                               /\ r.state = q.state /\ r.sent = q.sent
                         /\ \A q \in outbox : \E r \in rows : r.id = q.id /\ r.key = q.key /\ r.state = q.state
    <2> DEFINE f(m) == IF m.state = "conflict" THEN m ELSE [m EXCEPT !.sealed = TRUE]
               rows == {f(m) : m \in outbox}
    <2>1. outbox' = rows \cup {NewMutation(k, None)}
      BY <1>6 DEF Delete
    <2>2. \A m \in outbox : /\ f(m).id = m.id /\ f(m).key = m.key /\ f(m).base = m.base
                            /\ f(m).value = m.value /\ f(m).state = m.state /\ f(m).sent = m.sent
      BY DEF TypeInv, QueuedRow
    <2> HIDE DEF f
    <2>3. /\ \A r \in rows : \E q \in outbox :
                /\ r.id = q.id /\ r.key = q.key /\ r.base = q.base /\ r.value = q.value
                /\ r.state = q.state /\ r.sent = q.sent
          /\ \A q \in outbox : \E r \in rows : r.id = q.id /\ r.key = q.key /\ r.state = q.state
      BY <2>2
    <2> HIDE DEF rows
    <2> QED BY <2>1, <2>3
  <1>7. CASE \E k \in Keys : Delete(k)
    <2>1. PICK k \in Keys : Delete(k)
      BY <1>7
    <2>2. PICK rows :
             /\ outbox' = rows \cup {NewMutation(k, None)}
             /\ \A r \in rows : \E q \in outbox :
                   /\ r.id = q.id /\ r.key = q.key /\ r.base = q.base /\ r.value = q.value
                   /\ r.state = q.state /\ r.sent = q.sent
             /\ \A q \in outbox : \E r \in rows : r.id = q.id /\ r.key = q.key /\ r.state = q.state
      BY <1>6, <2>1
    <2> QED BY <1>3, <2>2
  <1>8. CASE \E k \in Keys, v \in Values : Save(k, v)
    <2>1. PICK k \in Keys, v \in Values : Save(k, v)
      BY <1>8
    <2>2. CASE outbox' = outbox \cup {NewMutation(k, v)}
      <3>1. \A q \in outbox : \E r \in outbox :
               /\ r.id = q.id /\ r.key = q.key /\ r.base = q.base /\ r.value = q.value
               /\ r.state = q.state /\ r.sent = q.sent
        OBVIOUS
      <3> QED BY <1>3, <2>2, <3>1
    <2>3. CASE \E m \in Newest(Mergeable(k)) : outbox' = (outbox \ {m}) \cup {[m EXCEPT !.value = v]}
      BY <1>5, <2>3
    <2> QED BY <2>1, <2>2, <2>3 DEF Save
  <1> QED BY <1>7, <1>8 DEF Edit

(* What waits after a step waited before it, on the same base, or is new.  *)
LEMMA WaitsStay ==
    ASSUME PhoneInv, ServedInv, [Next]_vars, ~TakeAcknowledgement
    PROVE  /\ \A q \in Pending' :
                 \/ \E p \in Waits : /\ q.id = p.id /\ q.key = p.key /\ q.base = p.base
                                     /\ (q.value = p.value \/ p.key \in Coalescing)
                                     /\ (Out(q) => Out(p) \/ p \in Pushed)
                 \/ /\ q.id = PhoneId(Len(made) + 1) /\ q.key \in Keys
                    /\ q.base = replica[q.key].rev /\ ~Out(q) /\ Edit
           /\ \A p \in Pending :
                 \/ \E q \in Pending' : q.id = p.id /\ q.key = p.key
                 \/ TakeConflict /\ \E m \in current : m.id = p.id
  <1>0. TypeInv /\ QueueInv
    BY DEF PhoneInv
  <1>1. /\ \A q : q \in Pending' <=> q \in outbox' /\ q.state \in {"pending", "sending"}
        /\ \A q : q \in Pending <=> q \in outbox /\ q.state \in {"pending", "sending"}
        /\ Pending \subseteq Waits /\ Pushed \subseteq Waits
    BY DEF Pending, Waits
  <1>2. \A q \in outbox : q.state \in {"pending", "sending", "conflict"}
    BY <1>0 DEF TypeInv, QueuedRow
  <1>3. CASE Edit
    BY <1>0, <1>1, <1>3, EditBases
  <1>4. CASE outbox' = outbox
    BY <1>1, <1>4
  <1>5. CASE Decide
    <2>1. outbox' \subseteq outbox /\ \A q \in outbox : q \in outbox' \/ q.state = "conflict"
      BY <1>5, OutsideQueue
    <2> QED BY <1>1, <2>1
  <1>6. CASE TakeConflicts
    <2>1. outbox' \subseteq outbox /\ \A q \in outbox : q \in outbox' \/ q.state = "conflict"
      BY <1>6 DEF TakeConflicts, WithoutDisputes
    <2> QED BY <1>1, <2>1
  <1>7. CASE LosePush
    <2>1. PICK m \in current : outbox' = Retried(m)
      BY <1>7 DEF LosePush
    <2> DEFINE f(q) == IF q.id = m.id /\ q.state = "sending" THEN [q EXCEPT !.state = "pending"] ELSE q
    <2>2. \A q \in outbox : /\ f(q).id = q.id /\ f(q).key = q.key /\ f(q).base = q.base
                            /\ f(q).value = q.value /\ (Out(f(q)) => Out(q))
                            /\ f(q).state \in {"pending", "sending"} <=> q.state \in {"pending", "sending"}
      BY <1>0 DEF TypeInv, QueuedRow, Out
    <2>3. outbox' = {f(q) : q \in outbox}
      BY <2>1 DEF Retried
    <2> HIDE DEF f
    <2> QED BY <1>1, <2>2, <2>3
  <1>8. ASSUME NEW m \in current, NEW x, outbox' = Rewritten(x), x.id = m.id, x.key = m.key,
               x.base = m.base, x.value = m.value, x.state \in {"pending", "sending"},
               m \in Pushed
        PROVE  /\ \A q \in Pending' :
                     \E p \in Waits : /\ q.id = p.id /\ q.key = p.key /\ q.base = p.base
                                      /\ q.value = p.value
                                      /\ (Out(q) => Out(p) \/ p \in Pushed)
               /\ \A p \in Pending : \E q \in Pending' : q.id = p.id /\ q.key = p.key
    <2>1. \A q \in Pending' : q = x \/ q \in Pending
      BY <1>1, <1>8 DEF Rewritten
    <2>2. \A p \in Pending : p \in Pending' \/ (x \in Pending' /\ x.id = p.id)
      BY <1>1, <1>8 DEF Rewritten
    <2>3. \A p \in Pending : p.id = m.id => p.key = m.key
      <3> SUFFICES ASSUME NEW p \in Pending, p.id = m.id PROVE p.key = m.key
        OBVIOUS
      <3>1. p \in outbox
        BY <1>1
      <3>2. PICK i \in Nat : Stems(p, i)
        BY <3>1 DEF PhoneInv, IdInv, RowsStem
      <3>3. PICK j \in Nat : Stems(m, j)
        BY DEF PhoneInv, IdInv, RowsStem
      <3>4. PhoneId(i) = PhoneId(j)
        BY <3>2, <3>3 DEF Stems
      <3>5. i = j
        BY <3>4, PhoneIds
      <3> QED BY <3>2, <3>3, <3>5 DEF Stems
    <2> QED BY <1>1, <1>8, <2>1, <2>2, <2>3
  <1>9. CASE MarkSending
    <2>1. PICK m \in current : outbox' = Rewritten([m EXCEPT !.state = "sending", !.sent = TRUE])
      BY <1>9 DEF MarkSending
    <2> DEFINE x == [m EXCEPT !.state = "sending", !.sent = TRUE]
    <2>2. x.id = m.id /\ x.key = m.key /\ x.base = m.base /\ x.value = m.value /\ x.state = "sending"
      BY <1>0 DEF TypeInv, QueuedRow
    <2>3. m \in Pushed
      BY <1>9 DEF MarkSending, Pushed
    <2>4. outbox' = Rewritten(x)
      BY <2>1
    <2> HIDE DEF x
    <2> QED BY <1>8, <2>2, <2>3, <2>4
  <1>10. CASE TakeRejection
    <2>1. PICK m \in current : outbox' = Rewritten(Requeued(m))
      BY <1>10 DEF TakeRejection
    <2> DEFINE x == Requeued(m)
    <2>2. x.id = m.id /\ x.key = m.key /\ x.base = m.base /\ x.value = m.value /\ x.state = "pending"
      BY <1>0 DEF TypeInv, QueuedRow, Requeued
    <2>3. m \in Pushed
      BY <1>10 DEF TakeRejection, Pushed
    <2>4. outbox' = Rewritten(x)
      BY <2>1
    <2> HIDE DEF x
    <2> QED BY <1>8, <2>2, <2>3, <2>4
  <1>11. CASE TakeConflict
    <2>1. PICK m \in current : outbox' = Rewritten([m EXCEPT !.state = "conflict"])
      BY <1>11 DEF TakeConflict
    <2> DEFINE x == [m EXCEPT !.state = "conflict"]
    <2>2. x.id = m.id /\ x.state = "conflict" /\ outbox' = Rewritten(x)
      BY <1>0, <2>1 DEF TypeInv, QueuedRow
    <2> HIDE DEF x
    <2>3. \A q \in Pending' : q \in Pending
      BY <1>1, <2>2 DEF Rewritten
    <2>4. \A p \in Pending : p \in Pending' \/ m.id = p.id
      BY <1>1, <2>2 DEF Rewritten
    <2> QED BY <1>1, <1>11, <2>3, <2>4
  <1>12. outbox' = outbox \/ Edit \/ Decide \/ TakeConflicts \/ LosePush \/ MarkSending
            \/ TakeRejection \/ TakeConflict
    <2>1. CASE Serve \/ Others \/ UNCHANGED vars
      BY <1>0, <2>1, ServeAnswers DEF Others, OtherWrites, OtherDisputes, vars, phoneVars
    <2>2. CASE \/ StartSync \/ ReadQueue \/ FetchStates \/ TakeStates \/ FetchConflicts
               \/ FetchPage \/ TakePage \/ Stop
      BY <2>2 DEF StartSync, ReadQueue, FetchStates, TakeStates, FetchConflicts, FetchPage,
                  TakePage, Stop, phoneVars
    <2> QED BY <2>1, <2>2 DEF Next, Loop
  <1> QED BY <1>3, <1>4, <1>5, <1>6, <1>7, <1>9, <1>10, <1>11, <1>12

(* What the loop pushes after a step it pushed before, or has just read.   *)
LEMMA PushedStaysOne ==
    ASSUME PhoneInv, [Next]_vars
    PROVE  /\ \A m \in Pushed' : \/ m \in Pushed
                                 \/ m \in Oldest(Pending) /\ outbox' = outbox
           /\ TakeAcknowledgement \/ TakeConflict \/ TakeRejection => Pushed' = {}
  <1>1. ASSUME Serve PROVE Pushed' = Pushed
    <2>1. pc = "sent" /\ pc' = "answered" /\ current' = current
      BY <1>1, ServeAnswers DEF PhoneInv
    <2> QED BY <2>1 DEF Pushed
  <1>2. ASSUME ~Serve, NEW m \in Pushed'
        PROVE  m \in Pushed \/ (m \in Oldest(Pending) /\ outbox' = outbox)
    <2>1. pc' \in {"mark", "sent", "answered"} /\ m \in current'
      BY <1>2 DEF Pushed
    <2>2. \/ pc \in {"mark", "sent", "answered"} /\ current' = current
          \/ current' = Oldest(Pending) /\ outbox' = outbox
      BY <1>2, <2>1, LoopPlaces
    <2> QED BY <2>1, <2>2 DEF Pushed
  <1>3. ASSUME TakeAcknowledgement \/ TakeConflict \/ TakeRejection PROVE Pushed' = {}
    BY <1>3 DEF Pushed, TakeAcknowledgement, TakeConflict, TakeRejection
  <1> QED BY <1>1, <1>2, <1>3

LEMMA NextKeepsPush ==
    ASSUME PhoneInv, OrderInv, ServedInv, PushInv, [Next]_vars
    PROVE  PushInv'
  <1>0. TypeInv /\ IdInv /\ QueueInv
    BY DEF PhoneInv
  <1>1. /\ \A m \in Waits : m.id[2] \in Nat /\ m.id[2] < Len(made) + 1
        /\ Len(made) \in Nat /\ PhoneId(Len(made) + 1)[2] = Len(made) + 1
    <2>1. Waits \subseteq outbox \cup current
      BY DEF Waits, Pending, Pushed
    <2> QED BY <1>0, <2>1, Numbers, PhoneIds
  <1>2. \A q \in Pending' : (\E p \in Pending : q.id = p.id) \/ q.id = PhoneId(Len(made) + 1)
    BY PendingStays
  <1>3. Pending \subseteq Waits /\ Pushed \subseteq Waits
    BY DEF Waits
  <1>4. ASSUME NEW m \in Pushed' PROVE \E q \in Pending' : q.id = m.id
    <2>1. ~TakeAcknowledgement /\ ~TakeConflict
      BY <1>4, PushedStaysOne
    <2>2. CASE m \in Pushed
      BY <2>1, <2>2, WaitsStay DEF PushInv
    <2>3. CASE m \in Oldest(Pending) /\ outbox' = outbox
      BY <2>3 DEF Oldest, Pending
    <2> QED BY <1>4, <2>2, <2>3, PushedStaysOne
  <1>5. ASSUME NEW m \in Pushed', NEW p \in Pending' PROVE m.id[2] <= p.id[2]
    <2>1. m \in Waits /\ \A q \in Pending : m.id[2] <= q.id[2]
      BY <1>3, <1>5, PushedStaysOne DEF PushInv, Oldest
    <2> QED BY <1>1, <1>2, <2>1
  <1>6. ASSUME NEW q \in Pending', NEW p \in Pending', Out(q)
        PROVE  q.id[2] <= p.id[2]
    <2>1. ASSUME NEW r \in Waits, q.id = r.id, \A x \in Pending : r.id[2] <= x.id[2]
          PROVE  q.id[2] <= p.id[2]
      BY <1>1, <1>2, <2>1
    <2>2. CASE ~TakeAcknowledgement
      <3>1. PICK r \in Waits : q.id = r.id /\ (Out(r) \/ r \in Pushed)
        BY <1>6, <2>2, WaitsStay
      <3>2. \A x \in Pending : r.id[2] <= x.id[2]
        BY <3>1 DEF PushInv, Waits
      <3> QED BY <2>1, <3>1, <3>2
    <2>3. CASE TakeAcknowledgement
      <3>1. PICK m \in current : outbox' = Rest(m) \/ outbox' = Rest(m) \cup {Again(m)}
        BY <1>0, <2>3, Acknowledged DEF Requeues
      <3>2. wire.rev \in Revisions
        BY <1>0, <2>3 DEF TakeAcknowledgement, TypeInv, WireTyped
      <3>3. ~Again(m).sent /\ Again(m).state = "pending"
        <4>1. NewMutation(m.key, replica[m.key].value).sent = FALSE
              /\ NewMutation(m.key, replica[m.key].value).state = "pending"
          BY DEF NewMutation
        <4>2. Again(m).state = "pending" /\ Again(m).sent = NewMutation(m.key, replica[m.key].value).sent
          BY <1>0, <3>2, AgainTyped DEF Again, NewMutation
        <4> QED BY <4>1, <4>2
      <3>4. q \in outbox' /\ q.state \in {"pending", "sending"}
        BY <1>6 DEF Pending
      <3>5. q \in Rest(m)
        BY <1>6, <3>1, <3>3, <3>4 DEF Out
      <3>6. PICK r \in outbox : q.id = r.id /\ q.state = r.state /\ q.sent = r.sent
        BY <1>0, <3>5, RestWaits
      <3>7. r \in Pending /\ Out(r)
        BY <1>6, <3>4, <3>6 DEF Pending, Out
      <3> QED BY <1>3, <2>1, <3>6, <3>7 DEF PushInv
    <2> QED BY <2>2, <2>3
  <1>7. ASSUME NEW x \in Pending', NEW c \in changes', \E d \in changes' : d.id = x.id, c.id[1] = "phone"
        PROVE  c.id[2] <= x.id[2]
    <2>1. CASE ~Serve
      <3>1. \A id : id[1] = "phone" => (Logged(id)' <=> Logged(id))
        BY <2>1, ServedByServe
      <3>2. Logged(c.id)
        BY <1>7, <3>1 DEF Logged
      <3>3. \A m \in outbox' : m.id[1] = "phone"
        <4>1. TypeInv'
          BY NextKeepsPhone DEF PhoneInv
        <4>2. \A m \in outbox' : \E n \in Nat : m.id = PhoneId(n)
          BY <4>1, RowsChanged DEF TypeInv
        <4> QED BY <4>2, PhoneIds
      <3>4. Logged(x.id)
        BY <1>7, <3>1, <3>3 DEF Logged, Pending
      <3>5. \E p \in Pending : x.id = p.id
        BY <1>0, <1>2, <3>4, NextIsFresh DEF Fresh
      <3> QED BY <1>7, <3>2, <3>4, <3>5 DEF PushInv, Logged
    <2>2. CASE Serve
      <3>1. pc = "sent" /\ UNCHANGED outbox
        BY <1>0, <2>2, ServeAnswers DEF phoneVars
      <3>2. x \in Pending
        BY <1>7, <3>1 DEF Pending
      <3>3. PICK m \in current :
             \/ AnsweredDuplicate(m) \/ AnsweredDisputed(m) \/ AnsweredConflict(m)
             \/ AnsweredApplied(m) \/ AnsweredRejected
        BY <1>0, <2>2, ServeAnswers
      <3>4. m \in Pushed /\ m \in InFlight
        BY <3>1 DEF Pushed, InFlight
      <3>5. CASE changes' = changes
        BY <1>7, <3>2, <3>5 DEF PushInv, Logged
      <3>6. CASE AnsweredApplied(m)
        <4>1. \A d \in changes' : d \in changes \/ d.id = m.id
          BY <3>6 DEF AnsweredApplied, Row
        <4>2. CASE c.id = m.id
          BY <3>2, <3>4, <4>2 DEF PushInv
        <4>3. CASE c \in changes /\ Logged(x.id)
          BY <1>7, <3>2, <4>3 DEF PushInv
        <4>4. CASE c \in changes /\ x.id = m.id
          <5>1. c.id[2] < m.id[2]
            BY <1>7, <3>4, <3>6, <4>4 DEF OrderInv, AnsweredApplied
          <5>2. c.id[2] \in Nat /\ m.id[2] \in Nat
            BY <1>0, <1>1, <1>3, <1>7, <3>4, <4>4, Numbers
          <5> QED BY <4>4, <5>1, <5>2
        <4> QED BY <1>7, <4>1, <4>2, <4>3, <4>4 DEF Logged
      <3> QED BY <3>3, <3>5, <3>6 DEF AnsweredDuplicate, AnsweredDisputed, AnsweredConflict,
                                      AnsweredRejected, storeVars
    <2> QED BY <2>1, <2>2
  <1> QED BY <1>4, <1>5, <1>6, <1>7 DEF PushInv, Logged, Out

(* The revisions of the entities only grow, up to the head.                *)
LEMMA EntitiesGrow ==
    ASSUME PhoneInv, [Next]_vars
    PROVE  /\ head \in Nat /\ changes \subseteq changes'
           /\ \A c \in changes' : c.rev \in Nat /\ (c \in changes \/ c.rev > head)
           /\ \A c \in changes : c.key \in Keys /\ c.rev <= entity[c.key].rev
           /\ \A c \in changes' : c.key \in Keys /\ c.rev <= entity'[c.key].rev
           /\ \A k \in Keys : /\ entity[k].rev \in Nat /\ entity[k].rev <= head
                              /\ entity'[k].rev \in Nat /\ entity[k].rev <= entity'[k].rev
                              /\ replica[k].rev \in Nat
  <1>0. TypeInv /\ IdInv
    BY DEF PhoneInv
  <1>1. /\ head \in Nat /\ changes \subseteq changes'
        /\ \A c \in changes' : c.rev \in Nat /\ c.rev >= 1 /\ (c \in changes \/ c.rev > head)
        /\ \A c \in changes : c.rev \in Nat /\ c.rev <= head
    BY <1>0, NewRevisions
  <1>2. StoreIInv /\ StoreIInv'
    BY <1>0, NextIsStore, LogNextKeepsIInv DEF TypeInv
  <1>3. /\ \A k \in Keys : entity[k].rev \in Nat /\ entity'[k].rev \in Nat
        /\ \A c \in changes : c.key \in Keys
        /\ \A c \in changes' : c.key \in Keys
    BY <1>2, StoreAssumption DEF StoreIInv, StoreTypeOK, State, Change, Revisions
  <1>4. /\ \A k \in Keys, c \in changes : c.key = k => c.rev <= entity[k].rev
        /\ \A k \in Keys, c \in changes' : c.key = k => c.rev <= entity'[k].rev
        /\ \A k \in Keys : entity[k].rev # 0 => \E c \in changes : c.key = k /\ c.rev = entity[k].rev
    BY <1>2 DEF StoreIInv, StoreInv, StateIsLastChange
  <1>5. \A k \in Keys : replica[k].rev \in Nat
    BY <1>0, StoreAssumption DEF TypeInv, PhoneRow, Revisions
  <1>6. \A k \in Keys : entity[k].rev <= entity'[k].rev /\ entity[k].rev <= head
    BY <1>1, <1>3, <1>4
  <1> QED BY <1>1, <1>3, <1>4, <1>5, <1>6

(* Rows take another revision from an answer of the Gateway, only.         *)
LEMMA RevsStay ==
    ASSUME PhoneInv, [Next]_vars, ~TakeAcknowledgement, ~TakeStates, ~TakePage
    PROVE  \A k \in Keys : replica'[k].rev = replica[k].rev
  <1>0. replica \in [Keys -> PhoneRow]
    BY DEF PhoneInv, TypeInv
  <1>1. CASE Edit
    <2>1. PICK k \in Keys, v \in Contents : replica' = [replica EXCEPT ![k].value = v, ![k].dirty = TRUE]
      BY <1>1 DEF Edit, Save, Delete, Contents
    <2>2. \A l \in Keys : l # k => replica'[l] = replica[l]
      BY <1>0, <2>1
    <2>3. replica'[k] = [replica[k] EXCEPT !.value = v, !.dirty = TRUE] /\ replica[k] \in PhoneRow
      BY <1>0, <2>1
    <2>4. replica'[k].rev = replica[k].rev
      BY <2>3 DEF PhoneRow
    <2> QED BY <2>2, <2>4
  <1>2. CASE TakeConflict
    <2>1. PICK m \in current : replica' = [replica EXCEPT ![m.key].conflicted = TRUE]
      BY <1>2 DEF TakeConflict
    <2>2. \A l \in Keys : l # m.key => replica'[l] = replica[l]
      BY <1>0, <2>1
    <2>3. ASSUME m.key \in Keys PROVE replica'[m.key].rev = replica[m.key].rev
      <3>1. replica'[m.key] = [replica[m.key] EXCEPT !.conflicted = TRUE] /\ replica[m.key] \in PhoneRow
        BY <1>0, <2>1, <2>3
      <3> QED BY <3>1 DEF PhoneRow
    <2> QED BY <2>2, <2>3
  <1>3. CASE TakeConflicts
    <2> DEFINE closed == {o.key : o \in opened \ wire.open}
    <2>1. ASSUME NEW k \in Keys
          PROVE  replica'[k].rev = replica[k].rev
      <3>1. PICK row : /\ row = IF k \in closed THEN Unmarked(replica[k]) ELSE replica[k]
                       /\ replica'[k] = row \/ replica'[k] = [row EXCEPT !.conflicted = TRUE]
        BY <1>3 DEF TakeConflicts
      <3>2. replica[k] \in PhoneRow /\ Unmarked(replica[k]) \in PhoneRow
        BY <1>0, ReplicaChanged DEF PhoneInv
      <3>3. row \in PhoneRow /\ row.rev = replica[k].rev
        BY <3>1, <3>2 DEF Unmarked, Clean
      <3>4. [row EXCEPT !.conflicted = TRUE].rev = row.rev
        BY <3>3 DEF PhoneRow
      <3> QED BY <3>1, <3>3, <3>4
    <2> QED BY <2>1
  <1>4. CASE \E o \in choosing : ChoiceDone(o)
    <2>1. PICK o \in choosing : replica' = [replica EXCEPT ![o.key] = Unmarked(@)] \/ replica' = replica
      BY <1>4 DEF ChoiceDone
    <2>2. \A k \in Keys : replica'[k] = replica[k] \/ replica'[k] = Unmarked(replica[k])
      BY <1>0, <2>1
    <2>3. \A k \in Keys : Unmarked(replica[k]).rev = replica[k].rev
      BY DEF Unmarked, Clean
    <2> QED BY <2>2, <2>3
  <1>5. CASE (Decide /\ ~\E o \in choosing : ChoiceDone(o)) \/ Others \/ Serve \/ UNCHANGED vars
    <2>1. replica' = replica
      BY <1>5, ServeAnswers DEF PhoneInv, Decide, ChooseHere, ChooseElsewhere, Others,
                                OtherWrites, OtherDisputes, vars, phoneVars
    <2> QED BY <2>1
  <1>6. CASE \/ StartSync \/ ReadQueue \/ MarkSending \/ TakeRejection
             \/ FetchStates \/ FetchConflicts \/ FetchPage \/ LosePush \/ Stop
    <2>1. replica' = replica
      BY <1>6 DEF StartSync, ReadQueue, MarkSending, TakeRejection, FetchStates,
                  FetchConflicts, FetchPage, LosePush, Stop, phoneVars
    <2> QED BY <2>1
  <1> QED BY <1>1, <1>2, <1>3, <1>4, <1>5, <1>6 DEF Next, Loop

(* What waits after a step, with what is pushed.                           *)
LEMMA WaitingBefore ==
    ASSUME PhoneInv, ServedInv, [Next]_vars, ~TakeAcknowledgement
    PROVE  \A q \in Waits' :
              \/ \E p \in Waits : q.id = p.id /\ q.key = p.key /\ q.base = p.base
              \/ /\ q.key \in Keys /\ q.base = replica[q.key].rev /\ Edit
                 /\ q.id = PhoneId(Len(made) + 1) /\ ~Logged(q.id) /\ changes' = changes
  <1> SUFFICES ASSUME NEW q \in Waits'
               PROVE  \/ \E p \in Waits : q.id = p.id /\ q.key = p.key /\ q.base = p.base
                      \/ /\ q.key \in Keys /\ q.base = replica[q.key].rev /\ Edit
                         /\ q.id = PhoneId(Len(made) + 1) /\ ~Logged(q.id) /\ changes' = changes
    OBVIOUS
  <1>1. CASE q \in Pushed'
    BY <1>1, PushedStaysOne DEF Waits, Oldest
  <1>2. CASE q \in Pending'
    <2>1. Edit => changes' = changes
      BY EditChangesQueue DEF PhoneInv, storeVars
    <2>2. ~Logged(PhoneId(Len(made) + 1))
      BY NextIsFresh DEF PhoneInv, Fresh
    <2> QED BY <1>2, <2>1, <2>2, WaitsStay
  <1> QED BY <1>1, <1>2 DEF Waits

(* What waits is based on the revision its row had or an older one, and    *)
(* the Gateway writes it at a newer one; rows never fall behind, as the    *)
(* answers they are taken from are not older than they are.                *)
BaseInv ==
    /\ \A k \in Keys : /\ replica[k].rev <= entity[k].rev
                       /\ replica[k].rev # 0 =>
                               \E c \in changes : c.key = k /\ c.rev = replica[k].rev
    /\ \A m \in Waits : m.base <= replica[m.key].rev
    /\ \A m \in Waits, c \in changes : c.id = m.id => replica[m.key].rev < c.rev
    /\ pc = "refreshed" => \A k \in Keys :
          /\ replica[k].rev <= wire.states[k].rev /\ wire.states[k].rev <= entity[k].rev
          /\ wire.states[k].rev # 0 =>
                \E c \in changes : c.key = k /\ c.rev = wire.states[k].rev
    /\ pc = "pulled" => ~wire.more /\ \A k \in Keys : replica[k].rev <= wire.next

(* The page the phone has was not cut short: the log ended with it.        *)
WholePages == pc = "pulled" => ~wire.more

LEMMA WaitsTyped ==
    ASSUME TypeInv
    PROVE  \A m \in Waits : m.key \in Keys /\ m.base \in Nat
  BY StoreAssumption DEF TypeInv, QueuedRow, Waits, Pending, Pushed, Revisions

LEMMA FrameKeepsBase ==
    ASSUME PhoneInv, ServedInv, PushInv, BaseInv, [Next]_vars, WholePages',
           ~TakeAcknowledgement, ~TakeStates, ~TakePage
    PROVE  BaseInv'
  <1>0. TypeInv /\ TypeInv'
    BY NextKeepsPhone DEF PhoneInv
  <1>1. /\ head \in Nat /\ changes \subseteq changes'
        /\ \A c \in changes' : c.rev \in Nat /\ (c \in changes \/ c.rev > head)
    BY EntitiesGrow
  <1>2. \A k \in Keys : replica'[k].rev = replica[k].rev
    BY RevsStay
  <1>7. \A k \in Keys : replica[k].rev # 0 => \E c \in changes : c.key = k /\ c.rev = replica[k].rev
    BY DEF BaseInv
  <1>8. \A k \in Keys : /\ replica[k].rev <= head /\ replica[k].rev <= entity'[k].rev
                        /\ replica[k].rev <= entity[k].rev /\ replica[k].rev \in Nat
    <2> SUFFICES ASSUME NEW k \in Keys
                 PROVE  /\ replica[k].rev <= head /\ replica[k].rev <= entity'[k].rev
                        /\ replica[k].rev <= entity[k].rev /\ replica[k].rev \in Nat
      OBVIOUS
    <2>1. /\ head \in Nat
          /\ entity[k].rev \in Nat /\ entity[k].rev <= head
          /\ entity'[k].rev \in Nat /\ entity[k].rev <= entity'[k].rev
          /\ replica[k].rev \in Nat
      BY EntitiesGrow
    <2>2. replica[k].rev <= entity[k].rev
      BY DEF BaseInv
    <2> QED BY <2>1, <2>2
  <1>9. \A k \in Keys : /\ entity[k].rev \in Nat /\ entity'[k].rev \in Nat
                        /\ entity[k].rev <= entity'[k].rev
    BY EntitiesGrow
  <1>3. ASSUME NEW k \in Keys
        PROVE  /\ replica'[k].rev <= entity'[k].rev
               /\ replica'[k].rev # 0 => \E c \in changes' : c.key = k /\ c.rev = replica'[k].rev
    BY <1>1, <1>2, <1>7, <1>8
  <1>4. ASSUME NEW q \in Waits'
        PROVE  /\ q.base <= replica'[q.key].rev
               /\ \A c \in changes' : c.id = q.id => replica'[q.key].rev < c.rev
    <2>1. CASE \E p \in Waits : q.id = p.id /\ q.key = p.key /\ q.base = p.base
      <3>1. PICK p \in Waits : q.id = p.id /\ q.key = p.key /\ q.base = p.base
        BY <2>1
      <3>2. p.key \in Keys
        BY <1>0, WaitsTyped
      <3>3. q.base <= replica'[q.key].rev
        BY <1>2, <3>1, <3>2 DEF BaseInv
      <3>4. replica[p.key].rev <= head
        BY <1>8, <3>2
      <3>5. \A c \in changes' : c.id = q.id => replica[p.key].rev < c.rev
        BY <1>1, <3>1, <3>2, <3>4 DEF BaseInv
      <3>6. replica'[q.key].rev = replica[p.key].rev
        BY <1>2, <3>1, <3>2
      <3> QED BY <3>3, <3>5, <3>6
    <2>2. CASE /\ q.key \in Keys /\ q.base = replica[q.key].rev /\ Edit
               /\ ~Logged(q.id) /\ changes' = changes
      <3>1. q.base <= replica'[q.key].rev
        BY <1>2, <1>8, <2>2
      <3>2. \A c \in changes' : c.id # q.id
        BY <2>2 DEF Logged
      <3> QED BY <3>1, <3>2
    <2> QED BY <2>1, <2>2, WaitingBefore
  <1>5. ASSUME pc' = "refreshed", NEW k \in Keys
        PROVE  /\ replica'[k].rev <= wire'.states[k].rev /\ wire'.states[k].rev <= entity'[k].rev
               /\ wire'.states[k].rev # 0 =>
                     \E c \in changes' : c.key = k /\ c.rev = wire'.states[k].rev
    <2>1. CASE FetchStates
      <3>1. wire'.states = entity /\ entity' = entity /\ changes' = changes
        BY <1>5, <2>1 DEF FetchStates, storeVars
      <3>2. entity[k].rev # 0 => \E c \in changes : c.key = k /\ c.rev = entity[k].rev
        BY <1>0 DEF TypeInv, StoreIInv, StoreInv, StateIsLastChange
      <3>3. wire'.states[k].rev = entity[k].rev /\ entity'[k].rev = entity[k].rev
        BY <3>1
      <3>4. replica'[k].rev <= wire'.states[k].rev /\ wire'.states[k].rev <= entity'[k].rev
        BY <1>2, <1>8, <1>9, <3>3
      <3> QED BY <3>1, <3>2, <3>3, <3>4
    <2>2. CASE pc = "refreshed" /\ wire' = wire
      <3>1. wire.states[k].rev \in Nat
        BY <1>0, <2>2, StoreAssumption DEF TypeInv, WireTyped, State, Revisions
      <3>2. /\ replica[k].rev <= wire.states[k].rev /\ wire.states[k].rev <= entity[k].rev
            /\ wire.states[k].rev # 0 =>
                  \E c \in changes : c.key = k /\ c.rev = wire.states[k].rev
        BY <2>2 DEF BaseInv
      <3>3. wire.states[k].rev <= entity'[k].rev
        BY <1>9, <3>1, <3>2
      <3> QED BY <1>1, <1>2, <2>2, <3>2, <3>3
    <2> QED BY <1>5, <2>1, <2>2, AnswersStay
  <1>6. ASSUME pc' = "pulled"
        PROVE  ~wire'.more /\ \A k \in Keys : replica'[k].rev <= wire'.next
    <2>1. CASE FetchPage
      <3>1. cursor \in Nat /\ PageSize \in Nat
        BY <1>0, <1>1, StoreAssumption, MobileAssumption
           DEF TypeInv, StoreIInv, StoreTypeOK, Revisions
      <3>2. ~(head > cursor + PageSize)
        BY <1>6, <2>1 DEF FetchPage, WholePages
      <3>3. ~wire'.more /\ wire'.next = NextCursor
        BY <2>1, <3>2 DEF FetchPage
      <3>4. NextCursor = head
        BY <1>1, <3>1, <3>2 DEF NextCursor
      <3> QED BY <1>2, <1>8, <3>3, <3>4
    <2>2. CASE pc = "pulled" /\ wire' = wire
      BY <1>2, <2>2 DEF BaseInv
    <2> QED BY <1>6, <2>1, <2>2, AnswersStay
  <1> QED BY <1>3, <1>4, <1>5, <1>6 DEF BaseInv

LEMMA AcknowledgementKeepsBase ==
    ASSUME PhoneInv, ServedInv, PullInv, BaseInv, TakeAcknowledgement
    PROVE  BaseInv'
  <1>0. TypeInv /\ IdInv /\ QueueInv
    BY DEF PhoneInv
  <1>1. /\ pc = "answered" /\ wire.status \in {"applied", "duplicate"} /\ pc' = "push"
        /\ UNCHANGED <<changes, entity>>
    BY DEF TakeAcknowledgement, storeVars
  <1>2. PICK m \in current :
           /\ replica' = [replica EXCEPT ![m.key].rev = wire.rev,
                                         ![m.key].dirty = EditedSince(m),
                                         ![m.key].conflicted = FALSE]
           /\ outbox' = Rest(m) \/ outbox' = Rest(m) \cup {Again(m)}
    BY <1>0, Acknowledged DEF Requeues
  <1>3. /\ replica \in [Keys -> PhoneRow] /\ m.key \in Keys /\ wire.rev \in Nat
        /\ m \in Waits
    BY <1>0, <1>1, StoreAssumption DEF TypeInv, QueuedRow, WireTyped, Revisions, Waits, Pushed
  <1>4. PICK c \in changes : c.id = m.id /\ c.rev = wire.rev
    BY <1>1 DEF PullInv
  <1>5. c.key = m.key
    <2>1. PICK n \in Nat : Stems(m, n)
      BY <1>0 DEF IdInv, RowsStem
    <2>2. Stems(c, n)
      BY <1>0, <1>4, <2>1 DEF IdInv, RowsStem, Stems
    <2> QED BY <2>1, <2>2 DEF Stems
  <1>6. replica[m.key].rev < wire.rev /\ wire.rev <= entity[m.key].rev
    <2>1. c.rev <= entity[m.key].rev
      BY <1>0, <1>3, <1>5 DEF TypeInv, StoreIInv, StoreInv, StateIsLastChange
    <2>2. replica[m.key].rev < c.rev
      BY <1>3, <1>4 DEF BaseInv
    <2> QED BY <1>4, <2>1, <2>2
  <1>7. /\ replica'[m.key].rev = wire.rev
        /\ \A k \in Keys : k # m.key => replica'[k].rev = replica[k].rev
    <2>1. /\ replica'[m.key] = [replica[m.key] EXCEPT !.rev = wire.rev, !.dirty = EditedSince(m), !.conflicted = FALSE]
          /\ replica[m.key] \in PhoneRow
          /\ \A k \in Keys : k # m.key => replica'[k] = replica[k]
      BY <1>2, <1>3
    <2>2. replica'[m.key].rev = wire.rev
      BY <2>1 DEF PhoneRow
    <2> QED BY <2>1, <2>2
  <1>8. \A k \in Keys : replica[k].rev \in Nat /\ replica[k].rev <= replica'[k].rev
    <2>1. \A k \in Keys : replica[k].rev \in Nat
      BY <1>3, StoreAssumption DEF PhoneRow, Revisions
    <2>2. replica[m.key].rev <= replica'[m.key].rev
      BY <1>3, <1>6, <1>7, <2>1
    <2>3. \A k \in Keys : k # m.key => replica[k].rev <= replica'[k].rev
      BY <1>7, <2>1
    <2> QED BY <2>1, <2>2, <2>3
  <1>9. ASSUME NEW k \in Keys
        PROVE  /\ replica'[k].rev <= entity[k].rev
               /\ replica'[k].rev # 0 => \E d \in changes : d.key = k /\ d.rev = replica'[k].rev
    <2>1. CASE k = m.key
      BY <1>4, <1>5, <1>6, <1>7, <2>1
    <2>2. CASE k # m.key
      BY <1>7, <2>2 DEF BaseInv
    <2> QED BY <2>1, <2>2
  <1>10. ASSUME NEW q \in Waits'
         PROVE  q.base <= replica'[q.key].rev /\ \A d \in changes : d.id # q.id
    <2>1. q \in Pending' /\ q \in outbox' /\ q.state \in {"pending", "sending"}
      BY <1>1, <1>10 DEF Waits, Pushed, Pending
    <2>2. CASE q \in Rest(m)
      <3>1. PICK r \in outbox :
               /\ r.id # m.id /\ q.id = r.id /\ q.key = r.key /\ q.state = r.state
               /\ (q.base = wire.rev /\ r.key = m.key) \/ q.base = r.base
        BY <1>0, <2>2, RestWaits
      <3>2. r \in Pending /\ r \in Waits
        BY <2>1, <3>1 DEF Pending, Waits
      <3>3. Fresh(r.id)
        BY <1>1, <3>1, <3>2 DEF ServedInv
      <3>4. r.key \in Keys /\ r.base \in Nat /\ r.base <= replica[r.key].rev
        BY <1>0, <3>2, WaitsTyped DEF BaseInv
      <3>5. r.base <= replica'[r.key].rev
        BY <1>3, <1>8, <3>4, <1>7
      <3>6. q.base <= replica'[q.key].rev
        BY <1>3, <1>7, <3>1, <3>5
      <3> QED BY <3>1, <3>3, <3>6 DEF Fresh, Logged
    <2>3. CASE q = Again(m)
      <3>1. q.id = PhoneId(Len(made) + 1) /\ q.key = m.key
        BY <1>0, <1>1, <2>3, AgainTyped DEF TypeInv, WireTyped
      <3>2. q.base = wire.rev
        BY <2>3 DEF Again, NewMutation
      <3>3. \A d \in changes : d.id # q.id
        BY <1>0, <3>1, NextIsFresh DEF Fresh, Logged
      <3> QED BY <1>3, <1>7, <3>1, <3>2, <3>3
    <2> QED BY <1>2, <2>1, <2>2, <2>3
  <1> QED BY <1>1, <1>9, <1>10 DEF BaseInv

LEMMA StatesKeepBase ==
    ASSUME PhoneInv, ServedInv, BaseInv, TakeStates
    PROVE  BaseInv'
  <1>0. TypeInv
    BY DEF PhoneInv
  <1>1. /\ pc = "refreshed" /\ pc' = "conflicts"
        /\ UNCHANGED <<changes, entity, outbox>>
    BY DEF TakeStates, storeVars
  <1>2. ASSUME NEW k \in Keys
        PROVE  /\ replica[k].rev <= replica'[k].rev
               /\ replica'[k].rev <= entity[k].rev
               /\ replica'[k].rev # 0 => \E c \in changes : c.key = k /\ c.rev = replica'[k].rev
    <2>1. CASE replica'[k] = replica[k]
      <3>1. replica[k].rev \in Nat
        BY <1>0, StoreAssumption DEF TypeInv, PhoneRow, Revisions
      <3> QED BY <2>1, <3>1 DEF BaseInv
    <2>2. CASE replica'[k] = Clean(wire.states[k].rev, wire.states[k].value)
      <3>1. replica'[k].rev = wire.states[k].rev
        BY <2>2 DEF Clean
      <3> QED BY <1>1, <3>1 DEF BaseInv
    <2> QED BY <2>1, <2>2 DEF TakeStates
  <1>3. ASSUME NEW q \in Waits'
        PROVE  q.base <= replica'[q.key].rev /\ \A c \in changes : c.id # q.id
    <2>1. q \in Pending /\ q \in Waits
      BY <1>1, <1>3 DEF Waits, Pushed, Pending
    <2>2. \A c \in changes : c.id # q.id
      BY <1>1, <2>1 DEF ServedInv, Pulling, Logged
    <2>3. q.key \in Keys /\ q.base \in Nat /\ q.base <= replica[q.key].rev
      BY <1>0, <2>1, WaitsTyped DEF BaseInv
    <2>4. replica[q.key].rev \in Nat /\ replica'[q.key].rev \in Nat
      <3>1. TypeInv'
        BY <1>1, NextKeepsPhone DEF PhoneInv, Next, Loop
      <3> QED BY <1>0, <2>3, <3>1, StoreAssumption DEF TypeInv, PhoneRow, Revisions
    <2>5. replica[q.key].rev <= replica'[q.key].rev
      BY <1>2, <2>3
    <2> QED BY <2>2, <2>3, <2>4, <2>5
  <1> QED BY <1>1, <1>2, <1>3 DEF BaseInv

(* A page writes the last change it has of a key.                          *)
LEMMA PulledRow ==
    ASSUME PhoneInv, PullInv, TakePage, NEW k \in Keys, replica'[k] # replica[k]
    PROVE  \E last \in changes :
              /\ last.key = k /\ last.rev > cursor /\ last.rev <= wire.next
              /\ replica'[k].rev = last.rev /\ replica'[k].value = last.value
              /\ ~Guarded(replica[k])
              /\ \A d \in changes : d.key = k /\ d.rev > cursor /\ d.rev <= wire.next
                                      => d.rev <= last.rev
  <1>1. /\ pc = "pulled" /\ wire.rows \subseteq changes
        /\ \A c \in changes : c \in wire.rows <=> (c.rev > cursor /\ c.rev <= wire.next)
    BY DEF TakePage, PhoneInv, TypeInv, WireTyped, PullInv
  <1> DEFINE rows == {c \in wire.rows : c.key = k}
             last == CHOOSE c \in rows : \A d \in rows : d.rev <= c.rev
  <1>2. replica'[k] = IF Guarded(replica[k]) \/ rows = {} THEN replica[k]
                      ELSE Clean(last.rev, last.value)
    BY DEF TakePage
  <1>3. ~Guarded(replica[k]) /\ rows # {} /\ rows \subseteq changes
    BY <1>1, <1>2
  <1>4. last \in rows /\ \A d \in rows : d.rev <= last.rev
    <2>1. \E c \in rows : \A d \in rows : d.rev <= c.rev
      BY <1>3, LastOfSome DEF PhoneInv, TypeInv
    <2> QED BY <2>1
  <1>5. replica'[k].rev = last.rev /\ replica'[k].value = last.value
    BY <1>2, <1>3 DEF Clean
  <1> HIDE DEF last
  <1> QED BY <1>1, <1>3, <1>4, <1>5

LEMMA PageKeepsBase ==
    ASSUME PhoneInv, ServedInv, PullInv, BaseInv, TakePage
    PROVE  BaseInv'
  <1>0. TypeInv /\ TypeInv'
    BY NextKeepsPhone DEF PhoneInv, Next, Loop
  <1>1. /\ pc = "pulled" /\ pc' \in {"pull", "synced"}
        /\ UNCHANGED <<changes, entity, outbox>>
    BY DEF TakePage, storeVars
  <1>2. /\ wire.rows \subseteq changes
        /\ \A c \in changes : c \in wire.rows <=> (c.rev > cursor /\ c.rev <= wire.next)
        /\ cursor \in Nat /\ wire.next \in Nat
    BY <1>0, <1>1, StoreAssumption DEF TypeInv, WireTyped, PullInv, Revisions
  <1>3. \A c \in changes : c.rev \in Nat /\ c.rev >= 1
    BY <1>0, OldRow DEF TypeInv
  <1>4. \A k \in Keys : replica[k].rev \in Nat /\ replica'[k].rev \in Nat
    BY <1>0, StoreAssumption DEF TypeInv, PhoneRow, Revisions
  <1>5. ASSUME NEW k \in Keys
        PROVE  /\ replica[k].rev <= replica'[k].rev
               /\ replica'[k].rev <= entity[k].rev
               /\ replica'[k].rev # 0 => \E c \in changes : c.key = k /\ c.rev = replica'[k].rev
    <2>1. CASE replica'[k] = replica[k]
      BY <1>4, <2>1 DEF BaseInv
    <2>2. CASE replica'[k] # replica[k]
      <3>1. PICK last \in changes :
               /\ last.key = k /\ last.rev > cursor /\ replica'[k].rev = last.rev
               /\ \A d \in changes : d.key = k /\ d.rev > cursor /\ d.rev <= wire.next
                                       => d.rev <= last.rev
        BY <1>0, <1>1, <1>2, <2>2, PulledRow DEF PhoneInv
      <3>2. last.rev <= entity[k].rev
        BY <1>0, <3>1 DEF TypeInv, StoreIInv, StoreInv, StateIsLastChange
      <3>3. replica[k].rev <= last.rev
        <4>1. CASE replica[k].rev <= cursor
          BY <1>2, <1>3, <1>4, <3>1, <4>1
        <4>2. CASE replica[k].rev > cursor
          <5>1. replica[k].rev # 0 /\ replica[k].rev <= wire.next
            BY <1>1, <1>2, <1>4, <4>2 DEF BaseInv
          <5>2. PICK c \in changes : c.key = k /\ c.rev = replica[k].rev
            BY <5>1 DEF BaseInv
          <5> QED BY <3>1, <4>2, <5>1, <5>2
        <4> QED BY <1>2, <1>4, <4>1, <4>2
      <3> QED BY <3>1, <3>2, <3>3
    <2> QED BY <2>1, <2>2
  <1>6. ASSUME NEW q \in Waits'
        PROVE  q.base <= replica'[q.key].rev /\ \A c \in changes : c.id # q.id
    <2>1. q \in Pending /\ q \in Waits
      BY <1>1, <1>6 DEF Waits, Pushed, Pending
    <2>2. \A c \in changes : c.id # q.id
      BY <1>1, <2>1 DEF ServedInv, Pulling, Logged
    <2>3. q.key \in Keys /\ q.base \in Nat /\ q.base <= replica[q.key].rev
      BY <1>0, <2>1, WaitsTyped DEF BaseInv
    <2>4. replica[q.key].rev <= replica'[q.key].rev
      BY <1>5, <2>3
    <2> QED BY <1>4, <2>2, <2>3, <2>4
  <1> QED BY <1>1, <1>5, <1>6 DEF BaseInv

LEMMA NextKeepsBase ==
    ASSUME PhoneInv, ServedInv, PullInv, PushInv, BaseInv, [Next]_vars, WholePages'
    PROVE  BaseInv'
  BY FrameKeepsBase, AcknowledgementKeepsBase, StatesKeepBase, PageKeepsBase

(* The phone's own changes of k after revision r are not the last word of  *)
(* it: another device wrote k after r too; or one of them is pushed again, *)
(* so that its answer moves the mutations of k to its revision.            *)
Fine(log, rows, r, k) ==
    \/ \E x \in rows, c \in log : x.key = k /\ c.id = x.id
    \/ (\E c \in log : c.key = k /\ c.rev > r /\ c.id[1] = "phone") =>
          \E d \in log : d.key = k /\ d.rev > r /\ d.id[1] # "phone"

(* The last row of each key in a page.                                     *)
Lasts(rows) == {c \in rows : \A d \in rows : d.key = c.key => d.rev <= c.rev}

FineInv ==
    /\ \A m \in Waits : Fresh(m.id) => Fine(changes, Pending, m.base, m.key)
    /\ \A k \in Keys : Fine(changes, Pending, replica[k].rev, k)
    /\ pc = "refreshed" => \A k \in Keys : Fine(changes, Pending, wire.states[k].rev, k)
    /\ pc = "pulled" => \A c \in Lasts(wire.rows) : Fine(changes, Pending, c.rev, c.key)

(* A mutation of the queue and its change are of the same entity.          *)
LEMMA SameEntity ==
    ASSUME IdInv, NEW m \in outbox \cup current, NEW c \in changes \cup outbox \cup current,
           c.id = m.id
    PROVE  c.key = m.key
  <1>1. PICK n \in Nat : Stems(m, n)
    BY DEF IdInv, RowsStem
  <1>2. n \in Nat /\ c.id = PhoneId(n)
    BY <1>1 DEF Stems
  <1>3. CASE c \in changes
    <2>1. Stems(c, n)
      BY <1>2, <1>3 DEF IdInv, RowsStem
    <2> QED BY <1>1, <2>1 DEF Stems
  <1>4. CASE c \in outbox \cup current
    <2>1. PICK i \in Nat : Stems(c, i)
      BY <1>4 DEF IdInv, RowsStem
    <2>2. i = n
      <3>1. PhoneId(i) = PhoneId(n)
        BY <1>2, <2>1 DEF Stems
      <3> QED BY <1>2, <3>1, PhoneIds
    <2> QED BY <1>1, <2>1, <2>2 DEF Stems
  <1> QED BY <1>3, <1>4

(* What the phone writes at the Gateway it has in its queue.               *)
LEMMA OwnChanges ==
    ASSUME PhoneInv, PushInv, [Next]_vars, NEW c \in changes', c \notin changes, c.id[1] = "phone"
    PROVE  \E x \in Pending' : x.id = c.id /\ x.key = c.key
  <1>0. TypeInv /\ IdInv /\ TypeInv'
    BY NextKeepsPhone DEF PhoneInv
  <1>1. CASE ~Serve
    <2>1. PICK d \in changes : d.id = c.id
      BY <1>1, ServedByServe DEF Logged
    <2>2. d \in changes'
      BY EntitiesGrow
    <2>3. c = d
      BY <1>0, <2>1, <2>2 DEF TypeInv, StoreIInv, StoreInv, MutationOnce
    <2> QED BY <2>3
  <1>2. CASE Serve
    <2>1. pc = "sent" /\ UNCHANGED outbox
      BY <1>0, <1>2, ServeAnswers DEF phoneVars
    <2>2. PICK m \in current :
             \/ AnsweredDuplicate(m) \/ AnsweredDisputed(m) \/ AnsweredConflict(m)
             \/ AnsweredApplied(m) \/ AnsweredRejected
      BY <1>0, <1>2, ServeAnswers
    <2>3. changes' = changes \/ c = Row(head + 1, m.id, m.key, m.value)
      BY <2>2 DEF AnsweredDuplicate, AnsweredDisputed, AnsweredConflict, AnsweredApplied,
                  AnsweredRejected, storeVars
    <2>4. c.id = m.id /\ c.key = m.key
      BY <2>3 DEF Row
    <2>5. PICK x \in Pending : x.id = m.id
      BY <2>1 DEF PushInv, Pushed
    <2>6. x.key = m.key
      BY <1>0, <2>5, SameEntity DEF Pending
    <2>7. x \in Pending'
      BY <2>1 DEF Pending
    <2> QED BY <2>4, <2>5, <2>6, <2>7
  <1> QED BY <1>1, <1>2

(* A step keeps what was said of revisions up to the head.                 *)
LEMMA FineStays ==
    ASSUME PhoneInv, ServedInv, PushInv, [Next]_vars, ~TakeAcknowledgement,
           NEW k, NEW r \in Nat, r <= head, Fine(changes, Pending, r, k)
    PROVE  Fine(changes', Pending', r, k)
  <1>0. TypeInv /\ QueueInv
    BY DEF PhoneInv
  <1>1. /\ head \in Nat /\ changes \subseteq changes'
        /\ \A c \in changes' : c.rev \in Nat /\ (c \in changes \/ c.rev > head)
    BY EntitiesGrow
  <1>2. CASE \E x \in Pending, c \in changes : x.key = k /\ c.id = x.id
    <2>1. PICK x \in Pending, c \in changes : x.key = k /\ c.id = x.id
      BY <1>2
    <2>2. ASSUME TakeConflict, NEW m \in current, m.id = x.id PROVE FALSE
      <3>1. Disputed(m.id)
        BY <1>0, <2>2 DEF QueueInv, AnswersFit, TakeConflict
      <3> QED BY <1>0, <2>1, <2>2, <3>1 DEF TypeInv, StoreIInv, StoreInv, MutationOnce
    <2>3. \E q \in Pending' : q.id = x.id /\ q.key = x.key
      BY <2>2, WaitsStay
    <2> QED BY <1>1, <2>1, <2>3 DEF Fine
  <1>3. CASE \E d \in changes : d.key = k /\ d.rev > r /\ d.id[1] # "phone"
    BY <1>1, <1>3 DEF Fine
  <1>4. CASE ~\E c \in changes : c.key = k /\ c.rev > r /\ c.id[1] = "phone"
    <2>1. CASE \E c \in changes' : c.key = k /\ c.rev > r /\ c.id[1] = "phone"
      <3>1. PICK c \in changes' : c.key = k /\ c.rev > r /\ c.id[1] = "phone"
        BY <2>1
      <3>2. \E x \in Pending' : x.id = c.id /\ x.key = c.key
        BY <1>4, <3>1, OwnChanges
      <3> QED BY <3>1, <3>2 DEF Fine
    <2>2. CASE ~\E c \in changes' : c.key = k /\ c.rev > r /\ c.id[1] = "phone"
      BY <2>2 DEF Fine
    <2> QED BY <2>1, <2>2
  <1> QED BY <1>2, <1>3, <1>4 DEF Fine

(* Nothing of k is later than r.                                           *)
LEMMA LastIsFine ==
    ASSUME NEW log, NEW rows, NEW r, NEW k, ~\E c \in log : c.key = k /\ c.rev > r /\ c.id[1] = "phone"
    PROVE  Fine(log, rows, r, k)
  BY DEF Fine

(* A mutation that waits after a step waited before it with the same base, *)
(* or is based on what the row has.                                        *)
LEMMA WaitingStaysFine ==
    ASSUME PhoneInv, ServedInv, PushInv, BaseInv, FineInv, [Next]_vars, ~TakeAcknowledgement,
           NEW q \in Waits', \A id : id = q.id => Fresh(id)'
    PROVE  Fine(changes', Pending', q.base, q.key)
  <1>0. TypeInv /\ IdInv
    BY DEF PhoneInv
  <1>1. \A k \in Keys : /\ replica[k].rev \in Nat /\ replica[k].rev <= entity[k].rev
                        /\ entity[k].rev \in Nat /\ entity[k].rev <= head /\ head \in Nat
    BY EntitiesGrow DEF BaseInv
  <1>2. CASE \E p \in Waits : q.id = p.id /\ q.key = p.key /\ q.base = p.base
    <2>1. PICK p \in Waits : q.id = p.id /\ q.key = p.key /\ q.base = p.base
      BY <1>2
    <2>2. Fresh(p.id)
      <3>1. Fresh(q.id)'
        OBVIOUS
      <3>2. /\ Logged(q.id) => Logged(q.id)'
            /\ Disputed(q.id) => Disputed(q.id)'
        BY <1>0, SyncStays
      <3> QED BY <2>1, <3>1, <3>2 DEF Fresh
    <2>3. Fine(changes, Pending, p.base, p.key)
      BY <2>2 DEF FineInv
    <2>4. p.key \in Keys /\ p.base \in Nat /\ p.base <= replica[p.key].rev
      BY <1>0, WaitsTyped DEF BaseInv
    <2>5. p.base <= head
      BY <1>1, <2>4
    <2> QED BY <2>1, <2>3, <2>4, <2>5, FineStays
  <1>3. CASE q.key \in Keys /\ q.base = replica[q.key].rev
    <2>1. Fine(changes, Pending, q.base, q.key)
      BY <1>3 DEF FineInv
    <2>2. q.base \in Nat /\ q.base <= head
      BY <1>1, <1>3
    <2> QED BY <2>1, <2>2, FineStays
  <1> QED BY <1>2, <1>3, WaitingBefore

LEMMA FrameKeepsFine ==
    ASSUME PhoneInv, ServedInv, PullInv, PushInv, BaseInv, FineInv, [Next]_vars, WholePages',
           ~TakeAcknowledgement, ~TakeStates, ~TakePage
    PROVE  FineInv'
  <1>0. TypeInv
    BY DEF PhoneInv
  <1>1. \A k \in Keys : /\ replica[k].rev \in Nat /\ replica[k].rev <= entity[k].rev
                        /\ entity[k].rev \in Nat /\ entity[k].rev <= head /\ head \in Nat
    BY EntitiesGrow DEF BaseInv
  <1>2. \A m \in Waits' : Fresh(m.id)' => Fine(changes', Pending', m.base, m.key)
    BY WaitingStaysFine
  <1>3. ASSUME NEW k \in Keys PROVE Fine(changes', Pending', replica'[k].rev, k)
    <2>1. replica'[k].rev = replica[k].rev
      BY RevsStay
    <2>2. Fine(changes, Pending, replica[k].rev, k)
      BY DEF FineInv
    <2>3. replica[k].rev \in Nat /\ replica[k].rev <= head
      BY <1>1
    <2> QED BY <2>1, <2>2, <2>3, FineStays
  <1>4. ASSUME pc' = "refreshed", NEW k \in Keys
        PROVE  Fine(changes', Pending', wire'.states[k].rev, k)
    <2>1. CASE FetchStates
      <3>1. wire'.states = entity /\ changes' = changes
        BY <1>4, <2>1 DEF FetchStates, storeVars
      <3>2. \A c \in changes : c.key = k => c.rev <= entity[k].rev /\ c.rev \in Nat
        BY EntitiesGrow
      <3>3. \A c \in changes : c.key = k => ~(c.rev > entity[k].rev)
        BY <1>1, <3>2
      <3> QED BY <3>1, <3>3, LastIsFine
    <2>2. CASE pc = "refreshed" /\ wire' = wire
      <3>1. wire.states[k].rev \in Nat
        BY <1>0, <2>2, StoreAssumption DEF TypeInv, WireTyped, State, Revisions
      <3>2. wire.states[k].rev <= entity[k].rev
        BY <2>2 DEF BaseInv
      <3>3. wire.states[k].rev <= head
        BY <1>1, <3>1, <3>2
      <3>4. Fine(changes, Pending, wire.states[k].rev, k)
        BY <2>2 DEF FineInv
      <3> QED BY <2>2, <3>1, <3>3, <3>4, FineStays
    <2> QED BY <1>4, <2>1, <2>2, AnswersStay
  <1>5. ASSUME pc' = "pulled", NEW c \in Lasts(wire'.rows)
        PROVE  Fine(changes', Pending', c.rev, c.key)
    <2>1. CASE FetchPage
      <3>1. /\ wire'.rows = {d \in changes : d.rev \in (cursor + 1) .. (cursor + PageSize)}
            /\ changes' = changes
        BY <2>1 DEF FetchPage, storeVars
      <3>6. ~(head > cursor + PageSize)
        BY <1>5, <2>1 DEF FetchPage, WholePages
      <3>2. cursor \in Nat /\ PageSize \in Nat /\ head \in Nat
        BY <1>0, StoreAssumption, MobileAssumption, EntitiesGrow
           DEF TypeInv, StoreIInv, StoreTypeOK, Revisions
      <3>3. \A d \in changes : d.rev \in Nat /\ d.rev <= head
        BY <1>0, OldRow DEF TypeInv
      <3>4. c \in changes /\ c.rev > cursor
        BY <1>5, <3>1, <3>2, <3>3 DEF Lasts
      <3>5. ASSUME NEW d \in changes, d.key = c.key, d.rev > c.rev PROVE FALSE
        <4>1. d.rev >= cursor + 1 /\ d.rev <= cursor + PageSize
          BY <3>2, <3>3, <3>4, <3>5, <3>6
        <4>2. d \in wire'.rows
          BY <3>1, <3>2, <3>3, <4>1
        <4>3. d.rev <= c.rev
          BY <1>5, <3>5, <4>2 DEF Lasts
        <4> QED BY <3>3, <3>4, <3>5, <4>3
      <3> QED BY <3>1, <3>5, LastIsFine
    <2>2. CASE pc = "pulled" /\ wire' = wire
      <3>1. c \in changes /\ c.rev \in Nat /\ c.rev <= head
        <4>1. c \in wire.rows
          BY <1>5, <2>2 DEF Lasts
        <4>2. wire.rows \subseteq changes
          BY <1>0, <2>2 DEF TypeInv, WireTyped
        <4> QED BY <1>0, <4>1, <4>2, OldRow DEF TypeInv
      <3>2. Fine(changes, Pending, c.rev, c.key)
        BY <1>5, <2>2 DEF FineInv
      <3> QED BY <3>1, <3>2, FineStays
    <2> QED BY <1>5, <2>1, <2>2, AnswersStay
  <1> QED BY <1>2, <1>3, <1>4, <1>5 DEF FineInv, Fresh, Logged, Disputed

(* Rows taken from an answer have a revision of which it was said.         *)
LEMMA AnswersKeepFine ==
    ASSUME PhoneInv, ServedInv, PullInv, PushInv, BaseInv, FineInv, TakeStates \/ TakePage
    PROVE  FineInv'
  <1>0. TypeInv /\ [Next]_vars /\ ~TakeAcknowledgement
    BY DEF PhoneInv, Next, Loop, TakeStates, TakePage, TakeAcknowledgement
  <1>1. changes' = changes /\ Pending' = Pending /\ pc' \notin {"refreshed", "pulled"}
    BY DEF TakeStates, TakePage, Pending, storeVars
  <1>2. \A m \in Waits' : Fresh(m.id)' => Fine(changes', Pending', m.base, m.key)
    BY <1>0, WaitingStaysFine
  <1>3. ASSUME NEW k \in Keys PROVE Fine(changes, Pending, replica'[k].rev, k)
    <2>1. CASE replica'[k] = replica[k]
      BY <2>1 DEF FineInv
    <2>2. CASE TakeStates /\ replica'[k] # replica[k]
      <3>1. replica'[k] = Clean(wire.states[k].rev, wire.states[k].value) /\ pc = "refreshed"
        BY <2>2 DEF TakeStates
      <3>2. replica'[k].rev = wire.states[k].rev
        BY <3>1 DEF Clean
      <3> QED BY <3>1, <3>2 DEF FineInv
    <2>3. CASE TakePage /\ replica'[k] # replica[k]
      <3>1. PICK last \in changes :
               /\ last.key = k /\ last.rev > cursor /\ last.rev <= wire.next
               /\ replica'[k].rev = last.rev
               /\ \A d \in changes : d.key = k /\ d.rev > cursor /\ d.rev <= wire.next
                                       => d.rev <= last.rev
        BY <2>3, PulledRow
      <3>2. /\ pc = "pulled" /\ wire.rows \subseteq changes
            /\ \A c \in changes : c \in wire.rows <=> (c.rev > cursor /\ c.rev <= wire.next)
        BY <1>0, <2>3 DEF TakePage, TypeInv, WireTyped, PullInv
      <3>3. last \in Lasts(wire.rows)
        BY <3>1, <3>2 DEF Lasts
      <3> QED BY <3>1, <3>2, <3>3 DEF FineInv
    <2> QED BY <2>1, <2>2, <2>3
  <1> QED BY <1>1, <1>2, <1>3 DEF FineInv, Fresh, Logged, Disputed

(* What is acknowledged is the phone's last change, and every mutation of  *)
(* the entity behind it is moved to it.                                    *)
LEMMA AcknowledgementKeepsFine ==
    ASSUME PhoneInv, ServedInv, PullInv, PushInv, LogKeepsOrder, FineInv, TakeAcknowledgement
    PROVE  FineInv'
  <1>0. TypeInv /\ IdInv /\ QueueInv
    BY DEF PhoneInv
  <1>1. /\ pc = "answered" /\ wire.status \in {"applied", "duplicate"} /\ pc' = "push"
        /\ UNCHANGED <<changes, entity>>
    BY DEF TakeAcknowledgement, storeVars
  <1>2. PICK m \in current :
           /\ replica' = [replica EXCEPT ![m.key].rev = wire.rev,
                                         ![m.key].dirty = EditedSince(m),
                                         ![m.key].conflicted = FALSE]
           /\ outbox' = Rest(m) \/ outbox' = Rest(m) \cup {Again(m)}
    BY <1>0, Acknowledged DEF Requeues
  <1>3. /\ replica \in [Keys -> PhoneRow] /\ m.key \in Keys /\ wire.rev \in Nat /\ m \in Pushed
    BY <1>0, <1>1, StoreAssumption DEF TypeInv, QueuedRow, WireTyped, Revisions, Pushed
  <1>4. PICK s \in changes : s.id = m.id /\ s.rev = wire.rev
    BY <1>1 DEF PullInv
  <1>5. PICK x \in Pending : x.id = m.id
    BY <1>3 DEF PushInv
  <1>6. \A c \in changes : c.id[1] = "phone" => ~(c.rev > wire.rev)
    <2> SUFFICES ASSUME NEW c \in changes, c.id[1] = "phone", c.rev > wire.rev PROVE FALSE
      OBVIOUS
    <2>1. s.id[1] = "phone"
      <3>1. PICK i \in Nat : m.id = PhoneId(i)
        BY <1>0, RowsChanged DEF TypeInv
      <3> QED BY <1>4, <3>1, PhoneIds
    <2>2. s.rev < c.rev
      BY <1>0, <1>3, <1>4, OldRow DEF TypeInv
    <2>3. s.id[2] < c.id[2]
      BY <2>1, <2>2 DEF LogKeepsOrder
    <2>4. c.id[2] <= x.id[2]
      BY <1>4, <1>5 DEF PushInv, Logged
    <2>5. s.id[2] \in Nat /\ c.id[2] \in Nat
      BY <1>0, <2>1, Numbers
    <2> QED BY <1>4, <1>5, <2>3, <2>4, <2>5
  <1>7. \A rows, k : Fine(changes, rows, wire.rev, k)
    BY <1>6, LastIsFine
  <1>8. ASSUME NEW q \in Pending, q.key # m.key
        PROVE  \E r \in Pending' : r.id = q.id /\ r.key = q.key
    <2>1. q.id # m.id
      BY <1>0, <1>8, SameEntity DEF Pending
    <2>2. PICK r \in Rest(m) : r.id = q.id /\ r.key = q.key /\ r.state = q.state
      BY <1>0, <2>1, RestWaits DEF Pending
    <2> QED BY <1>2, <2>2 DEF Pending
  <1>9. ASSUME NEW k, k # m.key, NEW r, Fine(changes, Pending, r, k)
        PROVE  Fine(changes, Pending', r, k)
    BY <1>8, <1>9 DEF Fine
  <1>10. ASSUME NEW k \in Keys PROVE Fine(changes, Pending', replica'[k].rev, k)
    <2>1. CASE k # m.key
      <3>1. replica'[k] = replica[k]
        BY <1>2, <1>3, <2>1
      <3>2. Fine(changes, Pending, replica[k].rev, k)
        BY DEF FineInv
      <3> QED BY <1>9, <2>1, <3>1, <3>2
    <2>2. CASE k = m.key
      <3>1. /\ replica'[m.key] = [replica[m.key] EXCEPT !.rev = wire.rev, !.dirty = EditedSince(m), !.conflicted = FALSE]
            /\ replica[m.key] \in PhoneRow
        BY <1>2, <1>3
      <3>2. replica'[m.key].rev = wire.rev
        BY <3>1 DEF PhoneRow
      <3> QED BY <1>7, <2>2, <3>2
    <2> QED BY <2>1, <2>2
  <1>11. ASSUME NEW q \in Waits', \A id : id = q.id => Fresh(id)'
         PROVE  Fine(changes, Pending', q.base, q.key)
    <2>1. q \in outbox' /\ q.state \in {"pending", "sending"}
      BY <1>1, <1>11 DEF Waits, Pushed, Pending
    <2>2. CASE q = Again(m)
      <3>1. q.base = wire.rev
        BY <2>2 DEF Again, NewMutation
      <3> QED BY <1>7, <3>1
    <2>3. CASE q \in Rest(m)
      <3>1. PICK r \in outbox :
               /\ r.id # m.id /\ q.id = r.id /\ q.key = r.key /\ q.state = r.state /\ q.sent = r.sent
               /\ q.base = IF r.key = m.key /\ r.state = "pending" /\ ~r.sent
                           THEN wire.rev ELSE r.base
        BY <1>0, <2>3, RestWaits
      <3>2. r \in Pending
        BY <2>1, <3>1 DEF Pending
      <3>3. CASE r.key # m.key
        <4>1. Fresh(q.id)'
          BY <1>11
        <4>2. Fresh(r.id)
          <5>1. UNCHANGED <<changes, conflicts>>
            BY DEF TakeAcknowledgement, storeVars
          <5> QED BY <3>1, <4>1, <5>1 DEF Fresh, Logged, Disputed
        <4>3. Fine(changes, Pending, r.base, r.key)
          BY <3>2, <4>2 DEF FineInv, Waits
        <4> QED BY <1>9, <3>1, <3>3, <4>3
      <3>4. CASE r.key = m.key
        <4>1. ~Out(r)
          <5> SUFFICES ASSUME Out(r) PROVE FALSE
            OBVIOUS
          <5>1. r.id[2] <= m.id[2]
            BY <1>5, <3>2 DEF PushInv
          <5>2. m.id[2] <= r.id[2]
            BY <1>3, <3>2 DEF PushInv
          <5>3. m.id[2] \in Nat /\ r.id[2] \in Nat
            BY <1>0, Numbers
          <5>4. m.id[2] = r.id[2]
            BY <5>1, <5>2, <5>3
          <5> QED BY <1>0, <3>1, <5>4, SameNumber
        <4>2. q.base = wire.rev
          BY <3>1, <3>2, <3>4, <4>1 DEF Out, Pending
        <4> QED BY <1>7, <4>2
      <3> QED BY <3>3, <3>4
    <2> QED BY <1>2, <2>1, <2>2, <2>3
  <1> QED BY <1>1, <1>10, <1>11 DEF FineInv, Fresh, Logged, Disputed

LEMMA NextKeepsFine ==
    ASSUME PhoneInv, ServedInv, PullInv, PushInv, BaseInv, FineInv, LogKeepsOrder,
           [Next]_vars, WholePages'
    PROVE  FineInv'
  BY FrameKeepsFine, AcknowledgementKeepsFine, AnswersKeepFine

(* The conflicts after a step are those before it, or new.                 *)
LEMMA ConflictsStay ==
    ASSUME PhoneInv, [Next]_vars
    PROVE  \A c \in conflicts' : c.id[1] = "phone" =>
              \/ \E d \in conflicts : /\ d.id = c.id /\ d.key = c.key /\ d.base = c.base
                                      /\ d.serverRev = c.serverRev
              \/ Serve /\ ~Disputed(c.id)
  <1>0. TypeInv /\ [LogNext]_storeVars /\ StoreIInv
    BY NextIsStore DEF PhoneInv, TypeInv
  <1>1. CASE UNCHANGED conflicts
    BY <1>1
  <1>2. CASE Settle
    BY <1>0, <1>2, SettledConflicts
  <1>3. CASE Dispute
    <2>1. PICK c \in conflicts' : conflicts' = conflicts \cup {c} /\ Fresh(c.id)
      BY <1>3 DEF Dispute
    <2>2. ASSUME c.id[1] = "phone" PROVE Serve
      <3>1. ~Disputed(c.id) /\ Disputed(c.id)'
        BY <2>1 DEF Fresh, Disputed
      <3> QED BY <2>2, <3>1, ServedByServe
    <2> QED BY <2>1, <2>2 DEF Fresh
  <1> QED BY <1>0, <1>1, <1>2, <1>3 DEF LogNext, storeVars

LEMMA NextKeepsConflictsReal ==
    ASSUME PhoneInv, OrderInv, PushInv, BaseInv, FineInv, OnlyRealConflicts, [Next]_vars
    PROVE  OnlyRealConflicts'
  <1>0. TypeInv /\ IdInv
    BY DEF PhoneInv
  <1>1. changes \subseteq changes'
    BY EntitiesGrow
  <1> SUFFICES ASSUME NEW c \in conflicts', c.id[1] = "phone"
               PROVE  \E d \in changes' : /\ d.key = c.key /\ d.id[1] # "phone"
                                          /\ d.rev \in (c.base + 1) .. c.serverRev
    BY DEF OnlyRealConflicts
  <1>2. CASE \E d \in conflicts : /\ d.id = c.id /\ d.key = c.key /\ d.base = c.base
                                  /\ d.serverRev = c.serverRev
    BY <1>1, <1>2 DEF OnlyRealConflicts
  <1>3. CASE Serve /\ ~Disputed(c.id)
    <2>1. PICK m \in current :
             \/ AnsweredDuplicate(m) \/ AnsweredDisputed(m) \/ AnsweredConflict(m)
             \/ AnsweredApplied(m) \/ AnsweredRejected
      BY <1>0, <1>3, ServeAnswers
    <2>2. c \notin conflicts
      BY <1>3 DEF Disputed
    <2>3. AnsweredConflict(m) /\ c = Collision(m.id, m.key, m.base, m.value)
      BY <2>1, <2>2 DEF AnsweredDuplicate, AnsweredDisputed, AnsweredConflict, AnsweredApplied,
                        AnsweredRejected, storeVars
    <2>4. c.key = m.key /\ c.base = m.base /\ c.serverRev = entity[m.key].rev
      BY <2>3 DEF Collision
    <2>5. Fresh(m.id) /\ m.base # entity[m.key].rev
      BY <2>3 DEF AnsweredConflict
    <2>6. m \in Pushed /\ m \in Waits /\ m \in InFlight
      BY <1>0, <1>3, ServeAnswers DEF Pushed, Waits, InFlight
    <2>7. m.key \in Keys /\ m.base \in Nat /\ entity[m.key].rev \in Nat
      BY <1>0, <2>6, WaitsTyped, EntitiesGrow
    <2>8. m.base < entity[m.key].rev
      <3>1. m.base <= replica[m.key].rev /\ replica[m.key].rev <= entity[m.key].rev
        BY <2>6, <2>7 DEF BaseInv
      <3>2. replica[m.key].rev \in Nat
        BY <2>7, EntitiesGrow
      <3> QED BY <2>5, <2>7, <3>1, <3>2
    <2>9. PICK e \in changes : e.key = m.key /\ e.rev = entity[m.key].rev
      BY <1>0, <2>7, <2>8 DEF TypeInv, StoreIInv, StoreInv, StateIsLastChange
    <2>10. ~\E x \in Pending, d \in changes : d.id = x.id
      <3> SUFFICES ASSUME NEW x \in Pending, NEW d \in changes, d.id = x.id PROVE FALSE
        OBVIOUS
      <3>1. m.id[2] <= x.id[2]
        BY <2>6 DEF PushInv
      <3>2. x.id[1] = "phone"
        <4>1. PICK i \in Nat : x.id = PhoneId(i)
          BY <1>0, RowsChanged DEF TypeInv, Pending
        <4> QED BY <4>1, PhoneIds
      <3>3. d.id[2] < m.id[2]
        BY <2>5, <2>6, <3>2 DEF OrderInv
      <3>4. m.id[2] \in Nat /\ x.id[2] \in Nat
        BY <1>0, Numbers DEF Pending
      <3> QED BY <3>1, <3>3, <3>4
    <2>11. Fine(changes, Pending, m.base, m.key)
      BY <2>5, <2>6 DEF FineInv
    <2>12. PICK d \in changes : d.key = m.key /\ d.rev > m.base /\ d.id[1] # "phone"
      <3>1. e.rev > m.base
        BY <2>7, <2>8, <2>9
      <3>2. CASE e.id[1] # "phone"
        BY <2>9, <3>1, <3>2
      <3>3. CASE e.id[1] = "phone"
        BY <2>9, <2>10, <2>11, <3>1, <3>3 DEF Fine
      <3> QED BY <3>2, <3>3
    <2>13. d.rev \in Nat /\ d.rev <= entity[m.key].rev
      BY <2>12, EntitiesGrow
    <2>14. d.rev \in (c.base + 1) .. c.serverRev
      BY <2>4, <2>7, <2>12, <2>13
    <2> QED BY <1>1, <2>4, <2>12, <2>14
  <1> QED BY <1>2, <1>3, ConflictsStay

RealPhone == PhoneInv /\ OrderInv /\ LogKeepsOrder /\ ServedInv /\ PullInv
                /\ PushInv /\ BaseInv /\ FineInv /\ OnlyRealConflicts

LEMMA InitReal == Init => RealPhone
  <1> SUFFICES ASSUME Init PROVE RealPhone
    OBVIOUS
  <1>1. LatestPhone
    BY InitLatest
  <1>2. /\ outbox = {} /\ current = {} /\ changes = {} /\ conflicts = {} /\ pc = "idle"
        /\ \A k \in Keys : replica[k].rev = 0 /\ entity[k].rev = 0
    BY DEF Init, StoreInit, NoRow
  <1>3. Pending = {} /\ Waits = {} /\ Pushed = {}
    BY <1>2 DEF Waits, Pending, Pushed
  <1>4. PushInv /\ OnlyRealConflicts
    BY <1>2, <1>3 DEF PushInv, OnlyRealConflicts
  <1>5. BaseInv
    BY <1>2, <1>3 DEF BaseInv
  <1>6. FineInv
    BY <1>2, <1>3 DEF FineInv, Fine
  <1> QED BY <1>1, <1>4, <1>5, <1>6 DEF LatestPhone, RealPhone

LEMMA NextKeepsReal ==
    ASSUME RealPhone, [Next]_vars, WholePages'
    PROVE  RealPhone'
  <1>1. /\ PhoneInv /\ OrderInv /\ LogKeepsOrder /\ ServedInv /\ PullInv
        /\ PushInv /\ BaseInv /\ FineInv /\ OnlyRealConflicts
    BY DEF RealPhone
  <1>2. PhoneInv'
    BY <1>1, NextKeepsPhone
  <1>3. OrderInv' /\ LogKeepsOrder'
    BY <1>1, NextKeepsOrder
  <1>4. ServedInv'
    BY <1>1, NextKeepsServed
  <1>5. PullInv'
    BY <1>1, NextKeepsPull
  <1>6. PushInv'
    BY <1>1, NextKeepsPush
  <1>7. BaseInv'
    BY <1>1, NextKeepsBase
  <1>8. FineInv'
    BY <1>1, NextKeepsFine
  <1>9. OnlyRealConflicts'
    BY <1>1, NextKeepsConflictsReal
  <1> QED BY <1>2, <1>3, <1>4, <1>5, <1>6, <1>7, <1>8, <1>9 DEF RealPhone

(* While every page the phone is given reaches the end of the log, however *)
(* small pages are, a mutation of the phone is in conflict only if         *)
(* somebody else wrote the entity after the version it is based on, also   *)
(* where edits are merged and conflicts settled.                           *)
THEOREM ConflictsAreReal == Spec /\ []WholePages => []OnlyRealConflicts
  <1>1. WholePages' /\ RealPhone /\ [Next]_vars => RealPhone'
    BY NextKeepsReal
  <1>2. RealPhone => OnlyRealConflicts
    BY DEF RealPhone
  <1> QED BY <1>1, <1>2, InitReal, PTL DEF Spec

----------------------------------------------------------------------------
(* What is queued for a row that is marked as edited.                      *)

Queued(k) == {q \in Pending : q.key = k}

(* The last mutation of k has the row's content.                           *)
Ahead(k) == \E m \in Newest(Queued(k)) : m.value = replica[k].value

(* Every mutation of k that waits will be refused.                         *)
Doomed(k) == \A m \in Waits : m.key = k =>
                ~Logged(m.id) /\ (Disputed(m.id) \/ m.base # entity[k].rev)

AheadInv ==
    \A k \in Keys : Plain(k) =>
       /\ replica[k].dirty /\ ~replica[k].conflicted => Ahead(k)
       /\ Ahead(k) \/ Doomed(k)

(* Mutations of one id that are not merged have one content.               *)
LEMMA SameValue ==
    ASSUME PhoneInv, ContentInv
    PROVE  \A p, q \in outbox \cup current :
              p.id = q.id /\ p.key \notin Coalescing => p.value = q.value
  <1> SUFFICES ASSUME NEW p \in outbox \cup current, NEW q \in outbox \cup current,
                      p.id = q.id, p.key \notin Coalescing
               PROVE  p.value = q.value
    OBVIOUS
  <1>1. PICK n \in Nat : Stems(p, n)
    BY DEF PhoneInv, IdInv, RowsStem
  <1>2. n \in 1 .. Len(made) /\ p.id = PhoneId(n) /\ p.key = made[n].key
    BY <1>1 DEF Stems
  <1>3. Carries(n)
    BY <1>2 DEF ContentInv
  <1> QED BY <1>2, <1>3 DEF Carries

(* A row stays ahead if its last mutation stays and no other comes.        *)
LEMMA AheadStays ==
    ASSUME PhoneInv, ContentInv, PushInv, NEW k \in Keys, k \notin Coalescing,
           replica'[k].value = replica[k].value,
           NEW n \in Newest(Queued(k)), n.value = replica[k].value,
           \E q \in Pending' : q.id = n.id /\ q.key = k,
           \A q \in Pending' : q.key = k =>
              \E p \in Waits : p.id = q.id /\ p.key = k /\ p.value = q.value
    PROVE  Ahead(k)'
  <1>0. TypeInv /\ IdInv /\ Waits \subseteq outbox \cup current
    BY DEF PhoneInv, Waits, Pushed, Pending
  <1>1. /\ n \in Pending /\ n.key = k
        /\ \A q \in Pending : q.key = k => q.id[2] <= n.id[2]
    BY DEF Newest, Queued
  <1>2. PICK q \in Pending' : q.id = n.id /\ q.key = k
    OBVIOUS
  <1>3. q.value = n.value
    <2>1. PICK p \in Waits : p.id = q.id /\ p.key = k /\ p.value = q.value
      BY <1>2
    <2>2. p.value = n.value
      BY <1>0, <1>1, <1>2, <2>1, SameValue DEF Waits
    <2> QED BY <2>1, <2>2
  <1>4. ASSUME NEW r \in Pending', r.key = k PROVE r.id[2] <= q.id[2]
    <2>1. PICK p \in Waits : p.id = r.id /\ p.key = k
      BY <1>4
    <2>2. \E x \in Pending : x.id = p.id /\ x.key = k
      <3>1. CASE p \in Pending
        BY <2>1, <3>1
      <3>2. CASE p \in Pushed
        <4>1. PICK x \in Pending : x.id = p.id
          BY <3>2 DEF PushInv
        <4>2. x.key = p.key
          BY <1>0, <4>1, SameEntity DEF Pending
        <4> QED BY <2>1, <4>1, <4>2
      <3> QED BY <3>1, <3>2 DEF Waits
    <2> QED BY <1>1, <1>2, <2>1, <2>2
  <1> QED BY <1>2, <1>3, <1>4 DEF Ahead, Newest, Queued

(* Mutations that will be refused will be, if no other comes.              *)
LEMMA DoomedStays ==
    ASSUME PhoneInv, BaseInv, [Next]_vars, NEW k \in Keys, Doomed(k),
           \A q \in Waits' : q.key = k =>
              \E p \in Waits : p.id = q.id /\ p.key = k /\ p.base = q.base
    PROVE  Doomed(k)'
  <1>0. TypeInv /\ IdInv
    BY DEF PhoneInv
  <1> SUFFICES ASSUME NEW q \in Waits', q.key = k
               PROVE  /\ \A c \in changes' : c.id # q.id
                      /\ (\E c \in conflicts' : c.id = q.id) \/ q.base # entity'[k].rev
    BY DEF Doomed, Logged, Disputed
  <1>1. PICK p \in Waits : p.id = q.id /\ p.key = k /\ p.base = q.base
    OBVIOUS
  <1>2. ~Logged(p.id) /\ (Disputed(p.id) \/ p.base # entity[k].rev)
    BY <1>1 DEF Doomed
  <1>3. p.id[1] = "phone"
    <2>1. PICK i \in Nat : p.id = PhoneId(i)
      BY <1>0, RowsChanged DEF TypeInv, Waits, Pending, Pushed
    <2> QED BY <2>1, PhoneIds
  <1>4. \A c \in changes' : c.id # q.id
    <2> SUFFICES ASSUME NEW c \in changes', c.id = q.id PROVE FALSE
      OBVIOUS
    <2>1. Serve
      <3>1. \A id : id[1] = "phone" /\ ~Serve => (Logged(id)' <=> Logged(id))
        BY ServedByServe
      <3> QED BY <1>1, <1>2, <1>3, <3>1 DEF Logged
    <2>2. PICK m \in current :
             \/ AnsweredDuplicate(m) \/ AnsweredDisputed(m) \/ AnsweredConflict(m)
             \/ AnsweredApplied(m) \/ AnsweredRejected
      BY <1>0, <2>1, ServeAnswers
    <2>3. m \in Pushed /\ m \in Waits
      BY <1>0, <2>1, ServeAnswers DEF Pushed, Waits
    <2>4. AnsweredApplied(m) /\ c = Row(head + 1, m.id, m.key, m.value)
      BY <1>1, <1>2, <2>2 DEF AnsweredDuplicate, AnsweredDisputed, AnsweredConflict,
                              AnsweredApplied, AnsweredRejected, storeVars, Logged
    <2>5. m.id = p.id /\ Fresh(m.id) /\ m.base = entity[m.key].rev
      BY <1>1, <2>4 DEF Row, AnsweredApplied
    <2>6. m.key = p.key
      BY <1>0, <2>3, <2>5, SameEntity DEF Waits, Pending, Pushed
    <2> QED BY <1>1, <2>3, <2>5, <2>6 DEF Doomed, Fresh
  <1>5. (\E c \in conflicts' : c.id = q.id) \/ q.base # entity'[k].rev
    <2>1. CASE Disputed(p.id)
      <3>1. \A id : Disputed(id) => Disputed(id)'
        BY <1>0, SyncStays
      <3> QED BY <1>1, <2>1, <3>1 DEF Disputed
    <2>2. CASE p.base # entity[k].rev
      <3>1. p.base <= replica[k].rev /\ replica[k].rev <= entity[k].rev /\ p.base \in Nat
        BY <1>0, <1>1, WaitsTyped DEF BaseInv
      <3>2. /\ replica[k].rev \in Nat /\ entity[k].rev \in Nat /\ entity'[k].rev \in Nat
            /\ entity[k].rev <= entity'[k].rev
        BY EntitiesGrow
      <3> QED BY <1>1, <2>2, <3>1, <3>2
    <2> QED BY <1>2, <2>1, <2>2
  <1> QED BY <1>4, <1>5

(* Steps that only mark a plain row.                                       *)
LEMMA MarksStay ==
    ASSUME PhoneInv, SettledInv, [Next]_vars, ~Edit, ~TakeAcknowledgement, ~TakeStates, ~TakePage,
           NEW k \in Keys, Plain(k)
    PROVE  /\ replica'[k].value = replica[k].value
           /\ replica'[k].dirty /\ ~replica'[k].conflicted =>
                 replica[k].dirty /\ ~replica[k].conflicted
  <1>0. replica \in [Keys -> PhoneRow]
    BY DEF PhoneInv, TypeInv
  <1>1. ASSUME replica'[k] = [replica[k] EXCEPT !.conflicted = TRUE]
        PROVE  replica'[k].value = replica[k].value /\ replica'[k].conflicted
    <2>1. replica[k] \in PhoneRow
      BY <1>0
    <2> QED BY <1>1, <2>1 DEF PhoneRow
  <1>2. CASE TakeConflict
    <2>1. PICK m \in current : replica' = [replica EXCEPT ![m.key].conflicted = TRUE]
      BY <1>2 DEF TakeConflict
    <2>2. CASE k = m.key
      <3>1. replica'[k] = [replica[k] EXCEPT !.conflicted = TRUE]
        BY <1>0, <2>1, <2>2
      <3> QED BY <1>1, <3>1
    <2>3. CASE k # m.key
      <3>1. replica'[k] = replica[k]
        BY <1>0, <2>1, <2>3
      <3> QED BY <3>1
    <2> QED BY <2>2, <2>3
  <1>3. CASE TakeConflicts
    <2> DEFINE closed == {o.key : o \in opened \ wire.open}
               marked == {o.key : o \in wire.open}
    <2>1. k \notin closed
      <3> SUFFICES ASSUME NEW o \in opened \ wire.open, o.key = k PROVE FALSE
        OBVIOUS
      <3>1. Settled(o)
        BY <1>3 DEF TakeConflicts, SettledInv
      <3> QED BY <3>1 DEF Settled, Plain
    <2>2. replica'[k] = [replica[k] EXCEPT !.conflicted = TRUE] \/ replica'[k] = replica[k]
      BY <1>3, <2>1 DEF TakeConflicts
    <2> QED BY <1>1, <2>2
  <1>4. CASE \E o \in choosing : ChoiceDone(o)
    <2>1. PICK o \in choosing : replica' = [replica EXCEPT ![o.key] = Unmarked(@)] \/ replica' = replica
      BY <1>4 DEF ChoiceDone
    <2>2. k # o.key
      BY DEF SettledInv, Settled, Plain
    <2>3. replica'[k] = replica[k]
      BY <1>0, <2>1, <2>2
    <2> QED BY <2>3
  <1>5. CASE (Decide /\ ~\E o \in choosing : ChoiceDone(o)) \/ Others \/ Serve \/ UNCHANGED vars
    <2>1. replica' = replica
      BY <1>5, ServeAnswers DEF PhoneInv, Decide, ChooseHere, ChooseElsewhere, Others,
                                OtherWrites, OtherDisputes, vars, phoneVars
    <2> QED BY <2>1
  <1>6. CASE \/ StartSync \/ ReadQueue \/ MarkSending \/ TakeRejection
             \/ FetchStates \/ FetchConflicts \/ FetchPage \/ LosePush \/ Stop
    <2>1. replica' = replica
      BY <1>6 DEF StartSync, ReadQueue, MarkSending, TakeRejection, FetchStates,
                  FetchConflicts, FetchPage, LosePush, Stop, phoneVars
    <2> QED BY <2>1
  <1> QED BY <1>2, <1>3, <1>4, <1>5, <1>6 DEF Next, Loop

(* Two rows at the revision of the entity that both show a change of it    *)
(* show the same.                                                          *)
LEMMA OneLatest ==
    ASSUME StoreIInv, NEW k, NEW r, NEW s, NEW upto, NEW till,
           ShowsLatest(changes, upto, r, k), ShowsLatest(changes, till, s, k), r.rev = s.rev
    PROVE  r.value = s.value
  <1>1. \A c \in changes : c.rev >= 1 /\ c.rev \in Nat
    BY OldRow
  <1>2. \A c, d \in changes : c.rev = d.rev => c = d
    BY DEF StoreIInv, StoreInv, OneRowPerRevision
  <1> QED BY <1>1, <1>2 DEF ShowsLatest

(* A snapshot or a page writes a row that is behind no queued mutation as  *)
(* it was.                                                                 *)
LEMMA AnswersKeepShown ==
    ASSUME PhoneInv, ServedInv, PullInv, PushInv, BaseInv, LatestInv, BaseInv', LatestInv',
           TakeStates \/ TakePage, NEW k \in Keys, Plain(k), ~Doomed(k)
    PROVE  replica'[k].value = replica[k].value
  <1>0. TypeInv
    BY DEF PhoneInv
  <1>1. /\ UNCHANGED <<storeVars, outbox>> /\ Waits' = Waits
        /\ pc \in {"refreshed", "pulled"}
    BY DEF TakeStates, TakePage, storeVars, Waits, Pending, Pushed
  <1>2. PICK m \in Waits : m.key = k /\ (Logged(m.id) \/ m.base = entity[k].rev)
    BY DEF Doomed
  <1>3. m.base = entity[k].rev
    <2>1. pc \in Pulling /\ m \in Pending
      BY <1>1 DEF Pulling, Waits, Pushed
    <2> QED BY <1>2, <2>1 DEF ServedInv
  <1>4. replica[k].rev = entity[k].rev /\ replica'[k].rev = entity[k].rev
    <2>1. entity' = entity /\ entity[k].rev \in Nat /\ replica[k].rev \in Nat
      BY <1>0, <1>1, StoreAssumption
         DEF TypeInv, StoreIInv, StoreTypeOK, State, PhoneRow, Revisions, storeVars
    <2>2. m.base <= replica[k].rev /\ replica[k].rev <= entity[k].rev
      BY <1>2 DEF BaseInv
    <2>3. m.base <= replica'[k].rev /\ replica'[k].rev <= entity[k].rev
      BY <1>1, <1>2, <2>1 DEF BaseInv
    <2>4. replica'[k].rev \in Nat
      <3>1. TypeInv'
        BY NextKeepsPhone DEF PhoneInv, Next, Loop
      <3> QED BY <3>1, StoreAssumption DEF TypeInv, PhoneRow, Revisions
    <2> QED BY <1>3, <2>1, <2>2, <2>3, <2>4
  <1>5. CASE Guarded(replica[k])
    BY <1>5 DEF TakeStates, TakePage
  <1>6. CASE ~Guarded(replica[k]) /\ replica'[k] # replica[k]
    <2>1. ~Guarded(replica'[k])
      BY <1>6 DEF TakeStates, TakePage, Guarded, Clean
    <2>2. Plain(k)'
      BY <1>1 DEF Plain, storeVars
    <2>3. ShowsLatest(changes, cursor, replica[k], k)
      BY <1>6 DEF LatestInv, Settles
    <2>4. ShowsLatest(changes', cursor', replica'[k], k)
      BY <2>1, <2>2 DEF LatestInv, Settles
    <2>5. changes' = changes /\ StoreIInv
      BY <1>0, <1>1 DEF storeVars, TypeInv
    <2>6. ShowsLatest(changes, cursor', replica'[k], k)
      BY <2>4, <2>5
    <2>7. replica'[k].rev = replica[k].rev
      BY <1>4
    <2> QED BY <2>3, <2>5, <2>6, <2>7, OneLatest
  <1> QED BY <1>5, <1>6

(* The last mutation of a key among those of the queue.                    *)
LEMMA AnswersKeepAhead ==
    ASSUME PhoneInv, ContentInv, ServedInv, PullInv, PushInv, BaseInv, LatestInv, BaseInv',
           LatestInv', AheadInv, TakeStates \/ TakePage
    PROVE  AheadInv'
  <1>1. /\ UNCHANGED <<storeVars, outbox>> /\ Waits' = Waits /\ Pending' = Pending /\ [Next]_vars
    BY DEF TakeStates, TakePage, storeVars, Waits, Pending, Pushed, Next, Loop
  <1> SUFFICES ASSUME NEW k \in Keys, Plain(k)'
               PROVE  /\ replica'[k].dirty /\ ~replica'[k].conflicted => Ahead(k)'
                      /\ Ahead(k)' \/ Doomed(k)'
    BY DEF AheadInv
  <1>2. Plain(k)
    BY <1>1, PlainBefore
  <1>3. Doomed(k) => Doomed(k)'
    <2>1. \A q \in Waits' : q.key = k => \E p \in Waits : p.id = q.id /\ p.key = k /\ p.base = q.base
      BY <1>1
    <2> QED BY <1>1, <2>1, DoomedStays
  <1>4. replica'[k].value = replica[k].value /\ Ahead(k) => Ahead(k)'
    BY <1>1 DEF Ahead, Queued, Newest
  <1>5. CASE Guarded(replica[k])
    <2>1. replica'[k] = replica[k]
      BY <1>5 DEF TakeStates, TakePage
    <2> QED BY <1>2, <1>3, <1>4, <2>1 DEF AheadInv
  <1>6. CASE ~Guarded(replica[k])
    <2>1. ~Guarded(replica'[k])
      BY <1>6 DEF TakeStates, TakePage, Guarded, Clean
    <2>2. ~replica'[k].dirty
      BY <2>1 DEF Guarded
    <2>3. Doomed(k) \/ replica'[k].value = replica[k].value
      BY <1>2, AnswersKeepShown
    <2> QED BY <1>2, <1>3, <1>4, <2>2, <2>3 DEF AheadInv
  <1> QED BY <1>5, <1>6

(* An edit of k is its last mutation, and leaves those of other keys.      *)
LEMMA EditShows ==
    ASSUME PhoneInv, Edit
    PROVE  \E k \in Keys :
              /\ \A l \in Keys : l # k => replica'[l] = replica[l]
              /\ \A q \in Pending' : q.id = PhoneId(Len(made) + 1) => q.key = k
              /\ k \in Coalescing \/
                    \E q \in Pending' : /\ q.id = PhoneId(Len(made) + 1) /\ q.key = k
                                        /\ q.value = replica'[k].value
  <1>0. TypeInv /\ replica \in [Keys -> PhoneRow] /\ Len(made) \in Nat
    BY DEF PhoneInv, TypeInv
  <1>1. IdInv'
    BY NextKeepsPhone DEF PhoneInv, Next
  <1>2. ASSUME NEW k \in Keys, NEW v, replica' = [replica EXCEPT ![k].value = v, ![k].dirty = TRUE]
        PROVE  /\ \A l \in Keys : l # k => replica'[l] = replica[l]
               /\ replica'[k].value = v
    <2>1. \A l \in Keys : l # k => replica'[l] = replica[l]
      BY <1>0, <1>2
    <2>2. replica'[k] = [replica[k] EXCEPT !.value = v, !.dirty = TRUE] /\ replica[k] \in PhoneRow
      BY <1>0, <1>2
    <2>3. replica'[k].value = v
      BY <2>2 DEF PhoneRow
    <2> QED BY <2>1, <2>3
  <1>3. ASSUME NEW k \in Keys, NEW q \in Pending', q.id = PhoneId(Len(made) + 1),
               \/ \E v : made' = Append(made, [key |-> k, value |-> v])
               \/ Len(made') = Len(made)
        PROVE  q.key = k
    <2>1. PICK n \in Nat : Stems(q, n)'
      BY <1>1 DEF IdInv, RowsStem, Pending
    <2>2. n \in 1 .. Len(made') /\ q.id = PhoneId(n) /\ q.key = made'[n].key
      BY <2>1 DEF Stems
    <2>3. PhoneId(n) = PhoneId(Len(made) + 1)
      BY <1>3, <2>2
    <2>4. n = Len(made) + 1
      BY <1>0, <2>3, PhoneIds
    <2>7. Len(made') # Len(made)
      BY <1>0, <2>2, <2>4
    <2>5. PICK v : made' = Append(made, [key |-> k, value |-> v])
      BY <1>3, <2>7
    <2>6. made'[Len(made) + 1] = [key |-> k, value |-> v]
      <3>1. \E S : made \in Seq(S)
        BY <1>0 DEF TypeInv
      <3> QED BY <2>5, <3>1
    <2> QED BY <2>2, <2>4, <2>6
  <1>4. ASSUME NEW k \in Keys, NEW v, NewMutation(k, v) \in outbox'
        PROVE  \E q \in Pending' : q.id = PhoneId(Len(made) + 1) /\ q.key = k /\ q.value = v
    <2>1. NewMutation(k, v).id = PhoneId(Len(made) + 1) /\ NewMutation(k, v).key = k
          /\ NewMutation(k, v).value = v /\ NewMutation(k, v).state = "pending"
      BY DEF NewMutation
    <2>2. NewMutation(k, v) \in Pending'
      BY <1>4, <2>1 DEF Pending
    <2> QED BY <2>1, <2>2
  <1>5. CASE \E k \in Keys : Delete(k)
    <2>1. PICK k \in Keys : Delete(k)
      BY <1>5
    <2>2. /\ replica' = [replica EXCEPT ![k].value = None, ![k].dirty = TRUE]
          /\ NewMutation(k, None) \in outbox'
          /\ made' = Append(made, [key |-> k, value |-> None])
      BY <2>1 DEF Delete
    <2>3. \A l \in Keys : l # k => replica'[l] = replica[l]
      BY <1>2, <2>2
    <2>4. \A q \in Pending' : q.id = PhoneId(Len(made) + 1) => q.key = k
      BY <1>3, <2>2
    <2>5. \E q \in Pending' : /\ q.id = PhoneId(Len(made) + 1) /\ q.key = k
                              /\ q.value = replica'[k].value
      <3>1. replica'[k].value = None
        BY <1>2, <2>2
      <3> QED BY <1>4, <2>2, <3>1
    <2> QED BY <2>3, <2>4, <2>5
  <1>6. CASE \E k \in Keys, v \in Values : Save(k, v)
    <2>1. PICK k \in Keys, v \in Values : Save(k, v)
      BY <1>6
    <2>2. replica' = [replica EXCEPT ![k].value = v, ![k].dirty = TRUE]
      BY <2>1 DEF Save
    <2>3. CASE /\ NewMutation(k, v) \in outbox'
               /\ made' = Append(made, [key |-> k, value |-> v])
      <3>1. \A q \in Pending' : q.id = PhoneId(Len(made) + 1) => q.key = k
        BY <1>3, <2>3
      <3>2. \E q \in Pending' : q.id = PhoneId(Len(made) + 1) /\ q.key = k /\ q.value = v
        BY <1>4, <2>3
      <3>3. (\A l \in Keys : l # k => replica'[l] = replica[l]) /\ replica'[k].value = v
        BY <1>2, <2>2
      <3> QED BY <3>1, <3>2, <3>3
    <2>4. CASE \E m \in Newest(Mergeable(k)) : made' = [made EXCEPT ![m.id[2]].value = v]
      <3>1. Len(made') = Len(made)
        BY <1>0, <2>4 DEF TypeInv
      <3>2. k \in Coalescing
        BY <2>4 DEF Newest, Mergeable
      <3>3. \A q \in Pending' : q.id = PhoneId(Len(made) + 1) => q.key = k
        BY <1>3, <3>1
      <3>4. \A l \in Keys : l # k => replica'[l] = replica[l]
        BY <1>2, <2>2
      <3> QED BY <3>2, <3>3, <3>4
    <2>5. \/ /\ NewMutation(k, v) \in outbox'
             /\ made' = Append(made, [key |-> k, value |-> v])
          \/ \E m \in Newest(Mergeable(k)) : made' = [made EXCEPT ![m.id[2]].value = v]
      BY <2>1 DEF Save
    <2> QED BY <2>3, <2>4, <2>5
  <1> QED BY <1>5, <1>6 DEF Edit

(* Numbers of what waits, and of a mutation made now.                      *)
LEMMA WaitingNumbers ==
    ASSUME TypeInv, IdInv
    PROVE  /\ \A q \in Waits : q.id[2] \in Nat /\ q.id[2] <= Len(made)
           /\ Len(made) \in Nat /\ PhoneId(Len(made) + 1)[2] = Len(made) + 1
  <1>1. Waits \subseteq outbox \cup current
    BY DEF Waits, Pending, Pushed
  <1> QED BY <1>1, Numbers, PhoneIds

LEMMA EditKeepsAhead ==
    ASSUME PhoneInv, ContentInv, ServedInv, PushInv, BaseInv, AheadInv, Edit
    PROVE  AheadInv'
  <1>0. TypeInv /\ IdInv /\ [Next]_vars /\ ~TakeAcknowledgement
    BY DEF PhoneInv, Next, Edit, Save, Delete, TakeAcknowledgement, loopVars
  <1>1. PICK k \in Keys :
           /\ \A l \in Keys : l # k => replica'[l] = replica[l]
           /\ \A q \in Pending' : q.id = PhoneId(Len(made) + 1) => q.key = k
           /\ k \in Coalescing \/
                 \E q \in Pending' : /\ q.id = PhoneId(Len(made) + 1) /\ q.key = k
                                     /\ q.value = replica'[k].value
    BY EditShows
  <1>2. UNCHANGED <<pc, current>> /\ Pushed' = Pushed
    BY <1>0, EditChangesQueue DEF loopVars, Pushed
  <1>3. /\ \A q \in Pending' :
              \/ \E p \in Pending : /\ q.id = p.id /\ q.key = p.key /\ q.base = p.base
                                    /\ (q.value = p.value \/ p.key \in Coalescing)
              \/ q.id = PhoneId(Len(made) + 1)
        /\ \A p \in Pending : \E q \in Pending' : q.id = p.id /\ q.key = p.key
    BY <1>0, EditBases
  <1> SUFFICES ASSUME NEW l \in Keys, Plain(l)'
               PROVE  /\ replica'[l].dirty /\ ~replica'[l].conflicted => Ahead(l)'
                      /\ Ahead(l)' \/ Doomed(l)'
    BY DEF AheadInv
  <1>4. Plain(l) /\ l \notin Coalescing
    BY <1>0, PlainBefore DEF Plain
  <1>5. CASE l = k
    <2>1. PICK q \in Pending' : q.id = PhoneId(Len(made) + 1) /\ q.key = k /\ q.value = replica'[k].value
      BY <1>1, <1>4, <1>5
    <2>2. ASSUME NEW r \in Pending' PROVE r.id[2] <= q.id[2]
      <3>1. (\E p \in Waits : r.id = p.id) \/ r.id = PhoneId(Len(made) + 1)
        BY <1>3 DEF Waits
      <3> QED BY <1>0, <2>1, <3>1, WaitingNumbers
    <2>3. Ahead(l)'
      BY <1>5, <2>1, <2>2 DEF Ahead, Newest, Queued
    <2> QED BY <2>3
  <1>6. CASE l # k
    <2>1. replica'[l] = replica[l]
      BY <1>1, <1>6
    <2>2. ASSUME NEW q \in Pending', q.key = l
          PROVE  \E p \in Waits : /\ p.id = q.id /\ p.key = l /\ p.base = q.base
                                  /\ p.value = q.value
      BY <1>1, <1>3, <1>4, <1>6, <2>2 DEF Waits
    <2>3. Ahead(l) => Ahead(l)'
      <3> SUFFICES ASSUME Ahead(l) PROVE Ahead(l)'
        OBVIOUS
      <3>1. PICK n \in Newest(Queued(l)) : n.value = replica[l].value
        BY DEF Ahead
      <3>2. \E q \in Pending' : q.id = n.id /\ q.key = l
        BY <1>3 DEF Newest, Queued
      <3> QED BY <1>4, <2>1, <2>2, <3>1, <3>2, AheadStays
    <2>4. Doomed(l) => Doomed(l)'
      <3>1. \A q \in Waits' : q.key = l => \E p \in Waits : p.id = q.id /\ p.key = l /\ p.base = q.base
        BY <1>2, <2>2 DEF Waits
      <3> QED BY <1>0, <3>1, DoomedStays
    <2> QED BY <1>4, <2>1, <2>3, <2>4 DEF AheadInv
  <1> QED BY <1>5, <1>6

(* The last mutation of k, when the first of the queue leaves it.          *)
LEMMA LastLeaves ==
    ASSUME PhoneInv, PushInv, NEW k, NEW m \in Pushed, NEW n \in Newest(Queued(k)), n.id = m.id
    PROVE  \A p \in Waits : p.key = k => p.id = m.id
  <1>0. TypeInv /\ IdInv /\ Waits \subseteq outbox \cup current /\ m \in Waits
    BY DEF PhoneInv, Waits, Pending, Pushed
  <1> SUFFICES ASSUME NEW p \in Waits, p.key = k PROVE p.id = m.id
    OBVIOUS
  <1>1. PICK x \in Pending : x.id = p.id /\ x.key = k
    <2>1. CASE p \in Pending
      BY <2>1
    <2>2. CASE p \in Pushed
      <3>1. PICK x \in Pending : x.id = p.id
        BY <2>2 DEF PushInv
      <3>2. x.key = p.key
        BY <1>0, <3>1, SameEntity DEF Pending
      <3> QED BY <3>1, <3>2
    <2> QED BY <2>1, <2>2 DEF Waits
  <1>2. x.id[2] <= m.id[2]
    BY <1>1 DEF Newest, Queued
  <1>3. m.id[2] <= x.id[2]
    BY <1>1 DEF PushInv
  <1>4. m.id[2] \in Nat /\ x.id[2] \in Nat
    BY <1>0, <1>1, WaitingNumbers DEF Waits
  <1>5. p.id[2] = m.id[2]
    BY <1>1, <1>2, <1>3, <1>4
  <1> QED BY <1>0, <1>5, SameNumber

LEMMA ConflictKeepsAhead ==
    ASSUME PhoneInv, ContentInv, ServedInv, PushInv, BaseInv, AheadInv, TakeConflict
    PROVE  AheadInv'
  <1>0. /\ TypeInv /\ IdInv /\ QueueInv /\ [Next]_vars /\ ~TakeAcknowledgement /\ ~Edit
        /\ Pushed' = {}
    <2>1. ~TakeAcknowledgement /\ pc' # pc /\ [Next]_vars
      BY DEF TakeConflict, TakeAcknowledgement, Next, Loop
    <2>2. ~Edit
      BY <2>1 DEF Edit, Save, Delete, loopVars
    <2> QED BY <2>1, <2>2, PushedStaysOne DEF PhoneInv
  <1>1. PICK m \in current :
           /\ outbox' = Rewritten([m EXCEPT !.state = "conflict"])
           /\ replica' = [replica EXCEPT ![m.key].conflicted = TRUE]
    BY DEF TakeConflict
  <1>2. /\ m \in Pushed /\ m.key \in Keys /\ replica \in [Keys -> PhoneRow]
        /\ \A o \in current : o = m
    BY <1>0 DEF TakeConflict, Pushed, TypeInv, QueuedRow, QueueInv, OneCurrent
  <1>3. \A q \in Pending' : q.id # m.id
    <2> DEFINE x == [m EXCEPT !.state = "conflict"]
    <2>1. x.id = m.id /\ x.state = "conflict" /\ outbox' = Rewritten(x)
      BY <1>0, <1>1 DEF TypeInv, QueuedRow
    <2> HIDE DEF x
    <2> QED BY <2>1 DEF Rewritten, Pending
  <1>4. /\ \A q \in Pending' : \E p \in Waits :
              /\ q.id = p.id /\ q.key = p.key /\ q.base = p.base
              /\ (q.value = p.value \/ p.key \in Coalescing)
        /\ \A p \in Pending : p.id = m.id \/ \E q \in Pending' : q.id = p.id /\ q.key = p.key
    BY <1>0, <1>2, WaitsStay
  <1> SUFFICES ASSUME NEW k \in Keys, Plain(k)'
               PROVE  /\ replica'[k].dirty /\ ~replica'[k].conflicted => Ahead(k)'
                      /\ Ahead(k)' \/ Doomed(k)'
    BY DEF AheadInv
  <1>5. Plain(k) /\ k \notin Coalescing
    BY <1>0, PlainBefore DEF Plain
  <1>6. Doomed(k) => Doomed(k)'
    <2>1. \A q \in Waits' : q.key = k => \E p \in Waits : p.id = q.id /\ p.key = k /\ p.base = q.base
      BY <1>0, <1>4 DEF Waits
    <2> QED BY <1>0, <2>1, DoomedStays
  <1>7. ASSUME replica'[k].value = replica[k].value, NEW n \in Newest(Queued(k)),
               n.value = replica[k].value, n.id # m.id
        PROVE  Ahead(k)'
    <2>1. \E q \in Pending' : q.id = n.id /\ q.key = k
      BY <1>4, <1>7 DEF Newest, Queued
    <2>2. \A q \in Pending' : q.key = k =>
             \E p \in Waits : p.id = q.id /\ p.key = k /\ p.value = q.value
      BY <1>4, <1>5
    <2> QED BY <1>5, <1>7, <2>1, <2>2, AheadStays
  <1>8. CASE k # m.key
    <2>1. replica'[k] = replica[k]
      BY <1>1, <1>2, <1>8
    <2>2. \A n \in Newest(Queued(k)) : n.id # m.id
      <3> SUFFICES ASSUME NEW n \in Newest(Queued(k)), n.id = m.id PROVE FALSE
        OBVIOUS
      <3>1. n \in outbox /\ n.key = k
        BY DEF Newest, Queued, Pending
      <3> QED BY <1>0, <1>8, <3>1, SameEntity
    <2>3. Ahead(k) => Ahead(k)'
      BY <1>7, <2>1, <2>2 DEF Ahead
    <2> QED BY <1>5, <1>6, <2>1, <2>3 DEF AheadInv
  <1>9. CASE k = m.key
    <2>1. replica'[k] = [replica[k] EXCEPT !.conflicted = TRUE] /\ replica[k] \in PhoneRow
      BY <1>1, <1>2, <1>9
    <2>2. replica'[k].conflicted /\ replica'[k].value = replica[k].value
      BY <2>1 DEF PhoneRow
    <2>3. ASSUME NEW n \in Newest(Queued(k)), n.id = m.id PROVE Doomed(k)'
      <3>1. \A p \in Waits : p.key = k => p.id = m.id
        BY <1>2, <2>3, LastLeaves
      <3>2. \A q \in Waits' : q.key # k
        BY <1>0, <1>3, <1>4, <3>1 DEF Waits
      <3> QED BY <3>2 DEF Doomed
    <2>4. Ahead(k) => Ahead(k)' \/ Doomed(k)'
      BY <1>7, <2>2, <2>3 DEF Ahead
    <2> QED BY <1>5, <1>6, <2>2, <2>4 DEF AheadInv
  <1> QED BY <1>8, <1>9

LEMMA AcknowledgementKeepsAhead ==
    ASSUME PhoneInv, ContentInv, ServedInv, PushInv, BaseInv, AheadInv, TakeAcknowledgement
    PROVE  AheadInv'
  <1>0. TypeInv /\ IdInv /\ QueueInv /\ [Next]_vars
    BY DEF PhoneInv, Next, Loop
  <1>1. /\ pc = "answered" /\ wire.status \in {"applied", "duplicate"} /\ Pushed' = {}
        /\ wire.rev \in Revisions
    BY <1>0 DEF TakeAcknowledgement, Pushed, TypeInv, WireTyped
  <1>2. PICK m \in current :
           /\ replica' = [replica EXCEPT ![m.key].rev = wire.rev,
                                         ![m.key].dirty = EditedSince(m),
                                         ![m.key].conflicted = FALSE]
           /\ outbox' = Rest(m) \/ outbox' = Rest(m) \cup {Again(m)}
    BY <1>0, Acknowledged DEF Requeues
  <1>3. /\ m \in Pushed /\ m.key \in Keys /\ replica \in [Keys -> PhoneRow]
        /\ Logged(m.id)
    BY <1>0, <1>1 DEF TypeInv, QueuedRow, Pushed, QueueInv, AnswersFit
  <1>4. /\ Again(m).id = PhoneId(Len(made) + 1) /\ Again(m).key = m.key
        /\ Again(m).value = replica[m.key].value /\ Again(m).state = "pending"
    BY <1>0, <1>1, AgainTyped
  <1>5. ASSUME NEW q \in Pending', q # Again(m)
        PROVE  \E p \in Pending : /\ p.id # m.id /\ p.id = q.id /\ p.key = q.key /\ p.value = q.value
                                  /\ q.key # m.key => p.base = q.base
    <2>1. q \in outbox' /\ q.state \in {"pending", "sending"}
      BY <1>5 DEF Pending
    <2>2. q \in Rest(m)
      BY <1>2, <1>5, <2>1
    <2>3. PICK p \in outbox :
             /\ p.id # m.id /\ q.id = p.id /\ q.key = p.key /\ q.value = p.value
             /\ q.state = p.state
             /\ q.base = IF p.key = m.key /\ p.state = "pending" /\ ~p.sent
                         THEN wire.rev ELSE p.base
      BY <1>0, <2>2, RestWaits
    <2>4. p \in Pending
      BY <2>1, <2>3 DEF Pending
    <2> QED BY <2>3, <2>4
  <1>6. ASSUME NEW p \in Pending, p.id # m.id
        PROVE  \E q \in Pending' : q.id = p.id /\ q.key = p.key
    <2>1. PICK q \in Rest(m) : q.id = p.id /\ q.key = p.key /\ q.state = p.state
      BY <1>0, <1>6, RestWaits DEF Pending
    <2> QED BY <1>2, <2>1 DEF Pending
  <1> SUFFICES ASSUME NEW k \in Keys, Plain(k)'
               PROVE  /\ replica'[k].dirty /\ ~replica'[k].conflicted => Ahead(k)'
                      /\ Ahead(k)' \/ Doomed(k)'
    BY DEF AheadInv
  <1>7. Plain(k) /\ k \notin Coalescing
    BY <1>0, PlainBefore DEF Plain
  <1>8. CASE k # m.key
    <2>1. replica'[k] = replica[k]
      BY <1>2, <1>3, <1>8
    <2>2. \A q \in Pending' : q.key = k =>
             \E p \in Waits : p.id = q.id /\ p.key = k /\ p.base = q.base /\ p.value = q.value
      BY <1>4, <1>5, <1>8 DEF Waits
    <2>3. Ahead(k) => Ahead(k)'
      <3> SUFFICES ASSUME Ahead(k) PROVE Ahead(k)'
        OBVIOUS
      <3>1. PICK n \in Newest(Queued(k)) : n.value = replica[k].value
        BY DEF Ahead
      <3>2. n \in Pending /\ n \in outbox /\ n.key = k
        BY DEF Newest, Queued, Pending
      <3>3. n.id # m.id
        BY <1>0, <1>8, <3>2, SameEntity
      <3>4. \E q \in Pending' : q.id = n.id /\ q.key = k
        BY <1>6, <3>2, <3>3
      <3> QED BY <1>7, <2>1, <2>2, <3>1, <3>4, AheadStays
    <2>4. Doomed(k) => Doomed(k)'
      <3>1. \A q \in Waits' : q.key = k => \E p \in Waits : p.id = q.id /\ p.key = k /\ p.base = q.base
        BY <1>1, <2>2 DEF Waits
      <3> QED BY <1>0, <3>1, DoomedStays
    <2> QED BY <1>7, <2>1, <2>3, <2>4 DEF AheadInv
  <1>9. CASE k = m.key
    <2>1. /\ replica'[k] = [replica[k] EXCEPT !.rev = wire.rev, !.dirty = EditedSince(m), !.conflicted = FALSE]
          /\ replica[k] \in PhoneRow
      BY <1>2, <1>3, <1>9
    <2>2. replica'[k].value = replica[k].value /\ replica'[k].dirty = EditedSince(m)
      BY <2>1 DEF PhoneRow
    <2>3. ~Doomed(k)
      BY <1>3, <1>9 DEF Doomed, Waits
    <2>4. PICK n \in Newest(Queued(k)) : n.value = replica[k].value
      BY <1>7, <2>3 DEF AheadInv, Ahead
    <2>5. CASE Again(m) \in Pending'
      <3>1. ASSUME NEW r \in Pending' PROVE r.id[2] <= Again(m).id[2]
        <4>1. r = Again(m) \/ \E p \in Waits : r.id = p.id
          BY <1>5 DEF Waits
        <4>2. Len(made) + 1 <= Len(made) + 1 /\ Again(m).id[2] = Len(made) + 1
          BY <1>0, <1>4, WaitingNumbers
        <4> QED BY <1>0, <4>1, <4>2, WaitingNumbers
      <3>2. Ahead(k)'
        BY <1>4, <1>9, <2>2, <2>5, <3>1 DEF Ahead, Newest, Queued
      <3> QED BY <3>2
    <2>6. CASE Again(m) \notin Pending' /\ n.id # m.id
      <3>1. n \in Pending /\ n.key = k
        BY DEF Newest, Queued
      <3>2. \E q \in Pending' : q.id = n.id /\ q.key = k
        BY <1>6, <2>6, <3>1
      <3>3. \A q \in Pending' : q.key = k =>
               \E p \in Waits : p.id = q.id /\ p.key = k /\ p.value = q.value
        BY <1>5, <2>6 DEF Waits
      <3>4. Ahead(k)'
        BY <1>7, <2>2, <2>4, <3>2, <3>3, AheadStays
      <3> QED BY <3>4
    <2>7. CASE Again(m) \notin Pending' /\ n.id = m.id
      <3>1. \A p \in Waits : p.key = k => p.id = m.id
        BY <1>3, <2>7, LastLeaves
      <3>2. \A q \in Waits' : q.key # k
        BY <1>1, <1>5, <2>7, <3>1 DEF Waits
      <3>3. Doomed(k)'
        BY <3>2 DEF Doomed
      <3>4. n.value = m.value
        <4>1. n \in outbox /\ n.key = k
          BY DEF Newest, Queued, Pending
        <4> QED BY <1>7, <2>7, <4>1, SameValue
      <3>5. ~EditedSince(m)
        BY <1>9, <2>4, <3>4 DEF EditedSince
      <3> QED BY <2>2, <3>3, <3>5
    <2> QED BY <2>5, <2>6, <2>7
  <1> QED BY <1>8, <1>9

(* Every other step keeps the queue and what the rows show.                *)
LEMMA FrameKeepsAhead ==
    ASSUME PhoneInv, ContentInv, ServedInv, SettledInv, PushInv, BaseInv, AheadInv, [Next]_vars,
           ~Edit, ~TakeAcknowledgement, ~TakeConflict, ~TakeStates, ~TakePage
    PROVE  AheadInv'
  <1> SUFFICES ASSUME NEW k \in Keys, Plain(k)'
               PROVE  /\ replica'[k].dirty /\ ~replica'[k].conflicted => Ahead(k)'
                      /\ Ahead(k)' \/ Doomed(k)'
    BY DEF AheadInv
  <1>1. Plain(k) /\ k \notin Coalescing
    BY PlainBefore DEF Plain
  <1>2. /\ replica'[k].value = replica[k].value
        /\ replica'[k].dirty /\ ~replica'[k].conflicted => replica[k].dirty /\ ~replica[k].conflicted
    BY <1>1, MarksStay
  <1>3. /\ \A q \in Pending' : \E p \in Waits :
              /\ q.id = p.id /\ q.key = p.key /\ q.base = p.base
              /\ (q.value = p.value \/ p.key \in Coalescing)
        /\ \A p \in Pending : \E q \in Pending' : q.id = p.id /\ q.key = p.key
    BY WaitsStay
  <1>4. Ahead(k) => Ahead(k)'
    <2> SUFFICES ASSUME Ahead(k) PROVE Ahead(k)'
      OBVIOUS
    <2>1. PICK n \in Newest(Queued(k)) : n.value = replica[k].value
      BY DEF Ahead
    <2>2. \E q \in Pending' : q.id = n.id /\ q.key = k
      BY <1>3 DEF Newest, Queued
    <2>3. \A q \in Pending' : q.key = k =>
             \E p \in Waits : p.id = q.id /\ p.key = k /\ p.value = q.value
      BY <1>1, <1>3
    <2> QED BY <1>1, <1>2, <2>1, <2>2, <2>3, AheadStays
  <1>5. Doomed(k) => Doomed(k)'
    <2>1. \A q \in Waits' : q.key = k => \E p \in Waits : p.id = q.id /\ p.key = k /\ p.base = q.base
      BY WaitingBefore
    <2> QED BY <2>1, DoomedStays
  <1> QED BY <1>1, <1>2, <1>4, <1>5 DEF AheadInv

(* A row that is edited and not in conflict, whose edits are not merged    *)
(* and whose conflicts nobody has settled, is on its way.                  *)
PlainEditsQueued ==
    \A k \in Keys : Plain(k) /\ replica[k].dirty /\ ~replica[k].conflicted => Ahead(k)

QueuedPhone == LatestPhone /\ RealPhone /\ AheadInv

LEMMA InitQueued == Init => QueuedPhone
  <1> SUFFICES ASSUME Init PROVE QueuedPhone
    OBVIOUS
  <1>1. Waits = {} /\ \A k \in Keys : ~replica[k].dirty
    BY DEF Init, NoRow, Waits, Pending, Pushed
  <1>2. AheadInv
    BY <1>1 DEF AheadInv, Doomed
  <1> QED BY <1>2, InitLatest, InitReal DEF QueuedPhone

LEMMA NextKeepsQueued ==
    ASSUME QueuedPhone, [Next]_vars, WholePages'
    PROVE  QueuedPhone'
  <1>1. LatestPhone' /\ RealPhone'
    BY NextKeepsLatestPhone, NextKeepsReal DEF QueuedPhone
  <1>2. /\ PhoneInv /\ ContentInv /\ ServedInv /\ PullInv /\ SettledInv /\ LatestInv
        /\ PushInv /\ BaseInv /\ AheadInv /\ BaseInv' /\ LatestInv'
    BY <1>1 DEF QueuedPhone, LatestPhone, RealPhone
  <1>3. AheadInv'
    BY <1>2, EditKeepsAhead, AcknowledgementKeepsAhead, ConflictKeepsAhead, AnswersKeepAhead,
       FrameKeepsAhead
  <1> QED BY <1>1, <1>3 DEF QueuedPhone

(* While every page the phone is given reaches the end of the log, an edit *)
(* that no other is merged into and no settled conflict has touched is     *)
(* always on its way: whatever was lost, answered late, refused or pulled  *)
(* meanwhile, the last mutation of the row in the queue has its content.   *)
THEOREM PlainEditsAreQueued == Spec /\ []WholePages => []PlainEditsQueued
  <1>1. WholePages' /\ QueuedPhone /\ [Next]_vars => QueuedPhone'
    BY NextKeepsQueued
  <1>2. QueuedPhone => PlainEditsQueued
    BY DEF QueuedPhone, AheadInv, PlainEditsQueued
  <1> QED BY <1>1, <1>2, InitQueued, PTL DEF Spec
=============================================================================
