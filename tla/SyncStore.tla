----------------------------- MODULE SyncStore -----------------------------
(***************************************************************************)
(* What the tables of the Gateway's sync store promise, whatever the       *)
(* service in front of them does:                                          *)
(*                                                                         *)
(*   sync_changes        a log of accepted changes, whose primary key,     *)
(*                       the revision, is every device's pull cursor: a    *)
(*                       rowid, one more than the largest in the table;    *)
(*   sync_entity_states  the latest revision and content of each entity;   *)
(*   sync_tombstones     the revision at which an entity was deleted;      *)
(*   sync_conflicts      both versions of every write that was refused     *)
(*                       because its author had not seen the latest        *)
(*                       revision.                                         *)
(*                                                                         *)
(* A content is a value or None; None is a deletion, so the log's          *)
(* operation column is not kept apart from the payload.  The step relation *)
(* says what one committed transaction may do to the four tables: append,  *)
(* dispute, settle, or, when a whole work is deleted, lose what they hold  *)
(* of it (every row cascades with its work's).                             *)
(***************************************************************************)
EXTENDS Integers, FiniteSets

CONSTANTS
    Keys,        \* synchronised entities: (project, type, id) in the code
    Values,      \* contents of an entity, told apart only by their hash
    None,        \* no content: the row is absent or deleted
    Works,       \* the entities of each work that may be deleted as a whole
    MaxRevision  \* bound on the revisions the log may hand out

ASSUME StoreAssumption ==
    /\ None \notin Values
    /\ Works \subseteq SUBSET Keys
    /\ MaxRevision \in Nat
    /\ IsFiniteSet(Keys)

VARIABLES
    head,        \* the largest revision in the log, 0 while it is empty
    changes,     \* rows of sync_changes
    entity,      \* rows of sync_entity_states, rev = 0 where there is none
    tombstone,   \* revision of the sync_tombstones row, 0 where there is none
    conflicts    \* rows of sync_conflicts

storeVars == <<head, changes, entity, tombstone, conflicts>>

Contents == Values \cup {None}
Revisions == 0 .. MaxRevision
Verdicts == {"open", "server", "client", "custom"}

State == [rev : Revisions, value : Contents]

(* A row of the log for k, based on the revision k has.                    *)
Row(rev, id, k, value) ==
    [rev |-> rev, id |-> id, key |-> k, base |-> entity[k].rev, value |-> value]

(* A conflict over k, between value, based on base, and what the server has. *)
Collision(id, k, base, value) ==
    [id |-> id, key |-> k, base |-> base, value |-> value,
     serverRev |-> entity[k].rev, theirs |-> entity[k].value, verdict |-> "open"]

Logged(id) == \E c \in changes : c.id = id
Disputed(id) == \E c \in conflicts : c.id = id

(* An id no change and no conflict has.                                    *)
Fresh(id) == ~Logged(id) /\ ~Disputed(id)

StoreInit ==
    /\ head = 0
    /\ changes = {}
    /\ entity = [k \in Keys |-> [rev |-> 0, value |-> None]]
    /\ tombstone = [k \in Keys |-> 0]
    /\ conflicts = {}

(* A transaction appends changes at the next revisions, at most one per    *)
(* entity, each based on the entity's current revision and under a         *)
(* mutation id the tables do not have; states and tombstones follow.       *)
AppendChanges ==
    LET new == changes' \ changes IN
    /\ changes \subseteq changes'
    /\ head' \in head .. MaxRevision
    /\ \A c \in new :
          /\ c = Row(c.rev, c.id, c.key, c.value)
          /\ c.rev \in (head + 1) .. head'
          /\ c.key \in Keys
          /\ c.value \in Contents
          /\ Fresh(c.id)
          /\ entity'[c.key] = [rev |-> c.rev, value |-> c.value]
          /\ tombstone'[c.key] = IF c.value = None THEN c.rev ELSE 0
    /\ \A c, d \in new :
          c # d => c.rev # d.rev /\ c.id # d.id /\ c.key # d.key
    /\ \A r \in (head + 1) .. head' : \E c \in new : c.rev = r
    /\ entity' \in [Keys -> State]
    /\ tombstone' \in [Keys -> Revisions]
    /\ \A k \in Keys : (\A c \in new : c.key # k) =>
          entity'[k] = entity[k] /\ tombstone'[k] = tombstone[k]

(* A write whose base is not the entity's revision is kept, whole, beside  *)
(* the version it collided with.                                           *)
Dispute ==
    /\ UNCHANGED <<head, changes, entity, tombstone>>
    /\ \E c \in conflicts' :
          /\ conflicts' = conflicts \cup {c}
          /\ c = Collision(c.id, c.key, c.base, c.value)
          /\ Fresh(c.id)
          /\ c.key \in Keys
          /\ c.value \in Contents
          /\ c.base \in Nat
          /\ c.base # entity[c.key].rev

(* The author settles one open conflict, once, with or without a write.    *)
Settle ==
    /\ AppendChanges
    /\ \E c \in conflicts, verdict \in Verdicts \ {"open"} :
          /\ c.verdict = "open"
          /\ verdict = "server" => changes' = changes
          /\ conflicts' = (conflicts \ {c}) \cup {[c EXCEPT !.verdict = verdict]}

LogNext == (AppendChanges /\ UNCHANGED conflicts) \/ Dispute \/ Settle

(* The work w is deleted, and with it all its rows, of all four tables.    *)
(* When they were the newest of the log their revisions are free again.    *)
Forget(w) ==
    /\ changes' = {c \in changes : c.key \notin w}
    /\ conflicts' = {c \in conflicts : c.key \notin w}
    /\ entity' = [k \in Keys |-> IF k \in w THEN [rev |-> 0, value |-> None] ELSE entity[k]]
    /\ tombstone' = [k \in Keys |-> IF k \in w THEN 0 ELSE tombstone[k]]
    /\ head' \in {0} \cup {c.rev : c \in changes'}
    /\ \A c \in changes' : c.rev <= head'

StoreNext == LogNext \/ \E w \in Works : Forget(w)

StoreSpec == StoreInit /\ [][StoreNext]_storeVars

----------------------------------------------------------------------------
Change == [rev : Revisions \ {0}, id : {c.id : c \in changes}, key : Keys,
           base : Revisions, value : Contents]
Conflict == [id : {c.id : c \in conflicts}, key : Keys, base : Nat,
             value : Contents, serverRev : Revisions, theirs : Contents,
             verdict : Verdicts]

(* Type invariant of the four tables.                                      *)
StoreTypeOK ==
    /\ head \in Revisions
    /\ changes \subseteq Change
    /\ entity \in [Keys -> State]
    /\ tombstone \in [Keys -> Revisions]
    /\ conflicts \subseteq Conflict

(* A revision is given to one row at a time, and head is the newest.       *)
OneRowPerRevision ==
    /\ \A c \in changes : c.rev \in 1 .. head
    /\ head # 0 => \E c \in changes : c.rev = head
    /\ \A c, d \in changes : c.rev = d.rev => c = d

(* A mutation id names one change or one conflict and never both, however  *)
(* often its sender retries it: it takes effect a second time only when    *)
(* the rows of the first went with their work.                             *)
MutationOnce ==
    /\ \A c, d \in changes : c.id = d.id => c = d
    /\ \A c, d \in conflicts : c.id = d.id => c = d
    /\ \A c \in changes : ~Disputed(c.id)

(* The state row of an entity is its last change in the log, so bootstrap  *)
(* (which reads states) and pull (which reads the log) agree.              *)
StateIsLastChange ==
    \A k \in Keys :
       LET own == {c \in changes : c.key = k} IN
       /\ \A c \in own : c.rev <= entity[k].rev
       /\ entity[k].rev = 0 => entity[k].value = None
       /\ entity[k].rev # 0 =>
             \E c \in own : c.rev = entity[k].rev /\ c.value = entity[k].value

(* No accepted write skips a version: each change is based on the change   *)
(* of the same entity that immediately precedes it in the log.             *)
NoSkippedVersion ==
    \A c \in changes :
       /\ c.base < c.rev
       /\ c.base # 0 => \E d \in changes : d.key = c.key /\ d.rev = c.base
       /\ \A d \in changes : d.key = c.key /\ d.rev < c.rev => d.rev <= c.base

(* A deleted entity, and no other, has a tombstone, at the revision of its *)
(* deletion, so a long-offline replica learns of it.                       *)
TombstoneOfDeleted ==
    \A k \in Keys :
       tombstone[k] = IF entity[k].value = None THEN entity[k].rev ELSE 0

(* A kept conflict is a real divergence: the version its author wrote over *)
(* is not the one the server held, and the server's side it shows is a     *)
(* version the log really went through.                                    *)
ConflictIsDivergence ==
    \A c \in conflicts :
       /\ c.base # c.serverRev
       /\ c.serverRev = 0 => c.theirs = None
       /\ c.serverRev # 0 =>
             \E d \in changes : d.key = c.key /\ d.rev = c.serverRev
                                /\ d.value = c.theirs

StoreInv ==
    /\ OneRowPerRevision
    /\ MutationOnce
    /\ StateIsLastChange
    /\ NoSkippedVersion
    /\ TombstoneOfDeleted
    /\ ConflictIsDivergence

(* Nothing of the work of k is left in the tables.                         *)
Forgotten(k) ==
    \E w \in Works :
       /\ k \in w
       /\ \A c \in changes \cup conflicts : c.key \notin w
       /\ \A j \in w : entity[j] = [rev |-> 0, value |-> None] /\ tombstone[j] = 0

(* Both versions of a conflict are kept as long as its work is: a          *)
(* transaction never drops or rewrites a conflict, and only an open one    *)
(* may change, to a verdict that is then final; or it leaves nothing at    *)
(* all of the conflict's work.                                             *)
BothVersionsKept ==
    [][\A c \in conflicts :
          \/ \E d \in conflicts' :
                /\ [d EXCEPT !.verdict = c.verdict] = c
                /\ c.verdict # "open" => d = c
          \/ Forgotten(c.key)']_storeVars
=============================================================================
