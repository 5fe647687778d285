----------------------------- MODULE MobileSync -----------------------------
(***************************************************************************)
(* A phone's replica of one work, the outbox of the edits made on it, and  *)
(* the loop that synchronises both with the Gateway's store:               *)
(*                                                                         *)
(*   push the queue, one mutation at a time, until it is empty or one is   *)
(*   refused; refresh the replica if anything was acknowledged; fetch the  *)
(*   open conflicts; pull the log from the cursor, page by page.           *)
(*                                                                         *)
(* Each action is one transaction of the phone's database or one request   *)
(* at the Gateway.  Saves run beside the loop, between any two of its      *)
(* steps; deletions take the loop's mutex.  A request or its answer may be *)
(* lost and the process may stop anywhere.  Other devices, the desktop and *)
(* their conflicts write to the same store.                                *)
(***************************************************************************)
EXTENDS SyncStore, Sequences

CONSTANTS
    Coalescing,  \* entities of the types whose queued edits are merged
    Refusable,   \* entities whose mutations the Gateway's checks may refuse
    Decisions,   \* verdicts authors give to conflicts
    PageSize,    \* changes in one answer to a pull
    MaxEdits,    \* bound on the mutations made on the phone
    MaxOthers,   \* bound on the writes of other devices
    MaxRivals,   \* bound on the conflicts of other devices
    MaxLosses    \* bound on lost requests and answers, and on stops

ASSUME MobileAssumption ==
    /\ Coalescing \subseteq Keys /\ Refusable \subseteq Keys
    /\ Decisions \subseteq {"server", "client"}
    /\ PageSize \in Nat \ {0}
    /\ {MaxEdits, MaxOthers, MaxRivals, MaxLosses} \subseteq Nat

VARIABLES
    replica,     \* the phone's row of each entity
    outbox,      \* the queue of mutations, numbered in the order they were made
    cursor,      \* the revision up to which the log was pulled
    opened,      \* conflicts the phone shows as open
    receipts,    \* are there acknowledged receipts not yet cleaned up
    pc,          \* where the synchronisation loop is
    current,     \* the mutation the loop is pushing, as it read it
    wire,        \* what the Gateway answered last
    choosing,    \* conflict ids the author's choice of which is at the Gateway
    made,        \* what each mutation was made for: its key and content
    others,      \* writes and conflicts of other devices so far
    losses       \* requests lost and stops so far

phoneVars == <<replica, outbox, cursor, opened, receipts>>
loopVars == <<pc, current, wire>>
envVars == <<choosing, made, others, losses>>
vars == <<storeVars, phoneVars, loopVars, envVars>>

NoRow == [rev |-> 0, value |-> None, dirty |-> FALSE, conflicted |-> FALSE]
Clean(rev, value) == [rev |-> rev, value |-> value, dirty |-> FALSE, conflicted |-> FALSE]
Guarded(row) == row.dirty \/ row.conflicted
NoAnswer == [kind |-> "none"]
PhoneId(n) == <<"phone", n>>

(* The row made last, into which another edit may be merged.               *)
Newest(queue) == {m \in queue : \A q \in queue : q.id[2] <= m.id[2]}

(* The row made first: the queue is read in the order of its edits.        *)
Oldest(queue) == {m \in queue : \A q \in queue : m.id[2] <= q.id[2]}

Init ==
    /\ StoreInit
    /\ replica = [k \in Keys |-> NoRow]
    /\ outbox = {}
    /\ cursor = 0
    /\ opened = {}
    /\ receipts = FALSE
    /\ pc = "idle"
    /\ current = {}
    /\ wire = NoAnswer
    /\ choosing = {}
    /\ made = <<>>
    /\ others = [writes |-> 0, rivals |-> 0]
    /\ losses = 0

----------------------------------------------------------------------------
(* Edits on the phone.                                                     *)

NewMutation(k, v) ==
    [id |-> PhoneId(Len(made) + 1), key |-> k, base |-> replica[k].rev, value |-> v,
     state |-> "pending", sent |-> FALSE, sealed |-> FALSE]

(* The mutations of k that wait in a queue and are not sealed.             *)
Waiting(queue, k) == {m \in queue : m.key = k /\ m.state = "pending" /\ ~m.sealed}

(* Queued mutations of k that a new edit of it may be merged into; it is   *)
(* merged into the newest.                                                 *)
Mergeable(k) == IF k \in Coalescing THEN Waiting(outbox, k) ELSE {}

Save(k, v) ==
    /\ ~replica[k].conflicted
    /\ replica' = [replica EXCEPT ![k].value = v, ![k].dirty = TRUE]
    /\ \/ /\ Mergeable(k) = {}
          /\ Len(made) < MaxEdits
          /\ outbox' = outbox \cup {NewMutation(k, v)}
          /\ made' = Append(made, [key |-> k, value |-> v])
       \/ \E m \in Newest(Mergeable(k)) :
             /\ outbox' = (outbox \ {m}) \cup {[m EXCEPT !.value = v]}
             /\ made' = [made EXCEPT ![m.id[2]].value = v]
    /\ UNCHANGED <<storeVars, cursor, opened, receipts, loopVars, choosing, others, losses>>

(* A deletion waits for the loop, and seals what is queued before it.      *)
Delete(k) ==
    /\ pc \in {"idle", "synced"}
    /\ ~replica[k].conflicted
    /\ replica[k].value # None
    /\ Len(made) < MaxEdits
    /\ replica' = [replica EXCEPT ![k].value = None, ![k].dirty = TRUE]
    /\ outbox' = {IF m.state = "conflict" THEN m ELSE [m EXCEPT !.sealed = TRUE] : m \in outbox}
                 \cup {NewMutation(k, None)}
    /\ made' = Append(made, [key |-> k, value |-> None])
    /\ UNCHANGED <<storeVars, cursor, opened, receipts, loopVars, choosing, others, losses>>

----------------------------------------------------------------------------
(* Pushing the queue.                                                      *)

StartSync ==
    /\ pc \in {"idle", "synced"}
    /\ pc' = "push"
    /\ UNCHANGED <<storeVars, phoneVars, current, wire, envVars>>

(* Fault: a mutation whose request never came back is passed over.         *)
UnsentOnly == {m \in outbox : m.state = "pending"}

Pending == {m \in outbox : m.state \in {"pending", "sending"}}

(* One mutation at a time: a later one may depend on it.                   *)
ReadQueue ==
    /\ pc = "push"
    /\ IF Pending = {}
       THEN pc' = "refresh" /\ UNCHANGED current
       ELSE pc' = "mark" /\ current' = Oldest(Pending)
    /\ UNCHANGED <<storeVars, phoneVars, wire, envVars>>

(* The row of m's id becomes m, if it is still there.                      *)
Rewritten(m) == {IF q.id = m.id THEN m ELSE q : q \in outbox}

MarkSending ==
    /\ pc = "mark"
    /\ \E m \in current :
          outbox' = Rewritten([m EXCEPT !.state = "sending", !.sent = TRUE])
    /\ pc' = "sent"
    /\ UNCHANGED <<storeVars, replica, cursor, opened, receipts, current, wire, envVars>>

Answered(status, rev) ==
    /\ wire' = [kind |-> "push", status |-> status, rev |-> rev]
    /\ pc' = "answered"
    /\ UNCHANGED <<phoneVars, current, envVars>>

(* One change at the next revision.                                        *)
Write(id, k, base, v) ==
    /\ head < MaxRevision
    /\ head' = head + 1
    /\ changes' = changes \cup
          {[rev |-> head', id |-> id, key |-> k, base |-> base, value |-> v]}
    /\ entity' = [entity EXCEPT ![k] = [rev |-> head', value |-> v]]
    /\ tombstone' = [tombstone EXCEPT ![k] = IF v = None THEN head' ELSE 0]

ServeDuplicate(m) ==
    /\ \E c \in changes : c.id = m.id /\ Answered("duplicate", c.rev)
    /\ UNCHANGED storeVars

ServeDisputed(m) ==
    /\ ~Logged(m.id)
    /\ \E c \in conflicts : c.id = m.id /\ Answered("conflict", c.serverRev)
    /\ UNCHANGED storeVars

ServeConflict(m) ==
    /\ Fresh(m.id)
    /\ m.base # entity[m.key].rev
    /\ conflicts' = conflicts \cup {Collision(m.id, m.key, m.base, m.value)}
    /\ Answered("conflict", entity[m.key].rev)
    /\ UNCHANGED <<head, changes, entity, tombstone>>

(* Fault: the version the phone saw is never compared.                     *)
ServeUnchecked(m) ==
    /\ Fresh(m.id)
    /\ Write(m.id, m.key, m.base, m.value)
    /\ Answered("applied", head')
    /\ UNCHANGED conflicts

ServeApplied(m) ==
    /\ Fresh(m.id)
    /\ m.base = entity[m.key].rev
    /\ Write(m.id, m.key, m.base, m.value)
    /\ Answered("applied", head')
    /\ UNCHANGED conflicts

ServeRejected(m) ==
    /\ m.key \in Refusable
    /\ Fresh(m.id)
    /\ Answered("rejected", 0)
    /\ UNCHANGED storeVars

Serve ==
    /\ pc = "sent"
    /\ \E m \in current : \/ ServeDuplicate(m) \/ ServeDisputed(m) \/ ServeConflict(m)
                          \/ ServeApplied(m) \/ ServeRejected(m)

(* Fault: the answer's revision does not reach the mutations behind it.    *)
NotRebased(queue, k, rev) == queue

(* Mutations of k that were never sent are moved to rev.                   *)
Rebased(queue, k, rev) ==
    {IF q.key = k /\ q.state = "pending" /\ ~q.sent THEN [q EXCEPT !.base = rev] ELSE q :
        q \in queue}

(* The row was edited again since m was read.                              *)
EditedSince(m) == replica[m.key].value # m.value

(* A row edited since, of which nothing waits, is queued again as it is.   *)
TakeAcknowledgement ==
    /\ pc = "answered"
    /\ wire.status \in {"applied", "duplicate"}
    /\ \E m \in current :
          LET rest == Rebased({q \in outbox : q.id # m.id}, m.key, wire.rev)
              now == replica[m.key].value
          IN
          /\ IF EditedSince(m) /\ Waiting(rest, m.key) = {}
             THEN /\ outbox' = rest \cup {[NewMutation(m.key, now) EXCEPT !.base = wire.rev]}
                  /\ made' = Append(made, [key |-> m.key, value |-> now])
             ELSE outbox' = rest /\ UNCHANGED made
          /\ replica' = [replica EXCEPT ![m.key].rev = wire.rev,
                                        ![m.key].dirty = EditedSince(m),
                                        ![m.key].conflicted = FALSE]
    /\ receipts' = TRUE
    /\ pc' = "push"
    /\ UNCHANGED <<storeVars, cursor, opened, current, wire, choosing, others, losses>>

TakeConflict ==
    /\ pc = "answered"
    /\ wire.status = "conflict"
    /\ \E m \in current :
          /\ outbox' = Rewritten([m EXCEPT !.state = "conflict"])
          /\ replica' = [replica EXCEPT ![m.key].conflicted = TRUE]
          /\ opened' = opened \cup {[id |-> m.id, key |-> m.key]}
    /\ pc' = "refresh"
    /\ UNCHANGED <<storeVars, cursor, receipts, current, wire, envVars>>

(* Fault: a refused mutation is settled like one in conflict.              *)
PutAside(m) == [m EXCEPT !.state = "conflict"]

Requeued(m) == [m EXCEPT !.state = "pending"]

TakeRejection ==
    /\ pc = "answered"
    /\ wire.status = "rejected"
    /\ \E m \in current : outbox' = Rewritten(Requeued(m))
    /\ pc' = "refresh"
    /\ UNCHANGED <<storeVars, replica, cursor, opened, receipts, current, wire, envVars>>

Retried(m) ==
    {IF q.id = m.id /\ q.state = "sending" THEN [q EXCEPT !.state = "pending"] ELSE q :
        q \in outbox}

(* The request, or its answer, is lost: the mutation is queued again.      *)
LosePush ==
    /\ pc \in {"sent", "answered"}
    /\ losses < MaxLosses
    /\ \E m \in current : outbox' = Retried(m)
    /\ pc' = "idle"
    /\ losses' = losses + 1
    /\ UNCHANGED <<storeVars, replica, cursor, opened, receipts, current, wire,
                   choosing, made, others>>

(* The process stops, or another request of the loop fails.                *)
Stop ==
    /\ pc \notin {"idle", "synced"}
    /\ losses < MaxLosses
    /\ pc' = "idle"
    /\ losses' = losses + 1
    /\ UNCHANGED <<storeVars, phoneVars, current, wire, choosing, made, others>>

----------------------------------------------------------------------------
(* Refreshing the replica and the conflicts.                               *)

FetchStates ==
    /\ pc = "refresh"
    /\ IF receipts
       THEN pc' = "refreshed" /\ wire' = [kind |-> "states", states |-> entity]
       ELSE pc' = "conflicts" /\ UNCHANGED wire
    /\ UNCHANGED <<storeVars, phoneVars, current, envVars>>

(* Clean rows are dropped and taken from the snapshot.                     *)
TakeStates ==
    /\ pc = "refreshed"
    /\ replica' = [k \in Keys |->
          IF Guarded(replica[k]) THEN replica[k]
          ELSE Clean(wire.states[k].rev, wire.states[k].value)]
    /\ receipts' = FALSE
    /\ pc' = "conflicts"
    /\ UNCHANGED <<storeVars, outbox, cursor, opened, current, wire, envVars>>

FetchConflicts ==
    /\ pc = "conflicts"
    /\ wire' = [kind |-> "conflicts",
                open |-> {[id |-> c.id, key |-> c.key] :
                             c \in {c \in conflicts : c.verdict = "open"}}]
    /\ pc' = "listed"
    /\ UNCHANGED <<storeVars, phoneVars, current, envVars>>

(* Fault: whatever is queued for them goes with them.                      *)
WithoutMutations(keys) == {m \in outbox : m.key \notin keys}

(* The queue without the mutations of keys that were found in conflict.    *)
WithoutDisputes(keys) == {m \in outbox : ~(m.key \in keys /\ m.state = "conflict")}

(* Fault: the row stays marked when its conflict is closed.                *)
StillMarked(row) == row

Unmarked(row) == Clean(row.rev, row.value)

(* Conflicts no longer open are closed here as well; the open ones, of     *)
(* whatever device, mark their rows.                                       *)
TakeConflicts ==
    LET closed == {o.key : o \in opened \ wire.open}
        marked == {o.key : o \in wire.open}
    IN
    /\ pc = "listed"
    /\ opened' = wire.open
    /\ outbox' = WithoutDisputes(closed)
    /\ replica' = [k \in Keys |->
          LET row == IF k \in closed THEN Unmarked(replica[k]) ELSE replica[k]
          IN  IF k \in marked /\ replica[k] # NoRow
              THEN [row EXCEPT !.conflicted = TRUE] ELSE row]
    /\ pc' = "pull"
    /\ UNCHANGED <<storeVars, cursor, receipts, current, wire, envVars>>

----------------------------------------------------------------------------
(* Pulling the log.                                                        *)

(* Fault: the cursor of an answer is the log's, not its last row's.        *)
HeadCursor == head

NextCursor == IF head < cursor + PageSize THEN head ELSE cursor + PageSize

FetchPage ==
    /\ pc = "pull"
    /\ wire' = [kind |-> "page",
                rows |-> {c \in changes : c.rev \in (cursor + 1) .. (cursor + PageSize)},
                next |-> NextCursor,
                more |-> head > cursor + PageSize]
    /\ pc' = "pulled"
    /\ UNCHANGED <<storeVars, phoneVars, current, envVars>>

(* Pulled rows replace clean rows, whatever revision those have; rows that *)
(* are edited or in conflict are left, and the cursor moves past them.     *)
TakePage ==
    LET rows(k) == {c \in wire.rows : c.key = k}
        last(k) == CHOOSE c \in rows(k) : \A d \in rows(k) : d.rev <= c.rev
    IN
    /\ pc = "pulled"
    /\ replica' = [k \in Keys |->
          IF Guarded(replica[k]) \/ rows(k) = {} THEN replica[k]
          ELSE Clean(last(k).rev, last(k).value)]
    /\ cursor' = wire.next
    /\ pc' = IF wire.more THEN "pull" ELSE "synced"
    /\ UNCHANGED <<storeVars, outbox, opened, receipts, current, wire, envVars>>

----------------------------------------------------------------------------
(* Conflicts are settled, from the phone or elsewhere.                     *)

Settling(c, verdict) ==
    /\ c.verdict = "open"
    /\ conflicts' = (conflicts \ {c}) \cup {[c EXCEPT !.verdict = verdict]}
    /\ IF verdict = "client" THEN Write(<<"resolve", c.id>>, c.key, entity[c.key].rev, c.value)
       ELSE UNCHANGED <<head, changes, entity, tombstone>>

(* The author chooses on the phone, beside the loop.                       *)
ChooseHere(o, verdict) ==
    /\ choosing = {}
    /\ \E c \in conflicts : c.id = o.id /\ Settling(c, verdict)
    /\ choosing' = {o}
    /\ UNCHANGED <<phoneVars, loopVars, made, others, losses>>

(* The phone closes the conflict, unless the answer was lost; the loop     *)
(* then starts over.                                                       *)
ChoiceDone(o) ==
    /\ choosing' = {}
    /\ \/ /\ opened' = {p \in opened : p.id # o.id}
          /\ outbox' = WithoutDisputes({o.key})
          /\ replica' = [replica EXCEPT ![o.key] = Unmarked(@)]
          /\ pc' = IF pc = "synced" THEN "idle" ELSE pc
          /\ UNCHANGED losses
       \/ /\ losses < MaxLosses
          /\ losses' = losses + 1
          /\ UNCHANGED <<opened, outbox, replica, pc>>
    /\ UNCHANGED <<storeVars, cursor, receipts, current, wire, made, others>>

ChooseElsewhere(c, verdict) ==
    /\ Settling(c, verdict)
    /\ UNCHANGED <<phoneVars, loopVars, envVars>>

(* Another device, or the desktop, writes.                                 *)
OtherWrites(k, v) ==
    /\ others.writes < MaxOthers
    /\ v # entity[k].value
    /\ others' = [others EXCEPT !.writes = @ + 1]
    /\ Write(<<"other", others'.writes>>, k, entity[k].rev, v)
    /\ UNCHANGED <<conflicts, phoneVars, loopVars, choosing, made, losses>>

(* Another device's stale mutation of k becomes a conflict.                *)
OtherDisputes(k, v) ==
    /\ others.rivals < MaxRivals
    /\ entity[k].rev # 0
    /\ others' = [others EXCEPT !.rivals = @ + 1]
    /\ conflicts' = conflicts \cup {Collision(<<"rival", others'.rivals>>, k, 0, v)}
    /\ UNCHANGED <<head, changes, entity, tombstone, phoneVars, loopVars,
                   choosing, made, losses>>

----------------------------------------------------------------------------
Edit == \E k \in Keys : Delete(k) \/ \E v \in Values : Save(k, v)

Loop == \/ StartSync \/ ReadQueue \/ MarkSending \/ Serve
        \/ TakeAcknowledgement \/ TakeConflict \/ TakeRejection
        \/ FetchStates \/ TakeStates \/ FetchConflicts \/ TakeConflicts
        \/ FetchPage \/ TakePage

Decide == \/ \E o \in opened, verdict \in Decisions : ChooseHere(o, verdict)
          \/ \E o \in choosing : ChoiceDone(o)
          \/ \E c \in conflicts, verdict \in Decisions : ChooseElsewhere(c, verdict)

Others == \E k \in Keys, v \in Contents : OtherWrites(k, v) \/ OtherDisputes(k, v)

Next == Edit \/ Loop \/ LosePush \/ Stop \/ Decide \/ Others

(* The worker runs the loop again and again; nothing else is promised.     *)
Spec == Init /\ [][Next]_vars /\ WF_vars(Loop)

----------------------------------------------------------------------------
Phases == {"idle", "push", "mark", "sent", "answered", "refresh", "refreshed",
           "conflicts", "listed", "pull", "pulled", "synced"}
PhoneRow == [rev : Revisions, value : Contents, dirty : BOOLEAN, conflicted : BOOLEAN]
QueueRow == [id : {PhoneId(n) : n \in DOMAIN made}, key : Keys, base : Revisions,
             value : Contents, state : {"pending", "sending", "conflict"},
             sent : BOOLEAN, sealed : BOOLEAN]

(* Type invariant of the phone.                                            *)
TypeOK ==
    /\ StoreTypeOK
    /\ replica \in [Keys -> PhoneRow]
    /\ outbox \subseteq QueueRow
    /\ cursor \in Revisions
    /\ {o.key : o \in opened} \subseteq Keys
    /\ receipts \in BOOLEAN
    /\ pc \in Phases
    /\ current \subseteq QueueRow /\ Cardinality(current) <= 1
    /\ \A n \in DOMAIN made : made[n] \in [key : Keys, value : Contents]

(* The log's last word on k up to the phone's cursor.                      *)
LastPulled(k) ==
    LET pulled == {c \in changes : c.key = k /\ c.rev <= cursor}
    IN  IF pulled = {} THEN None
        ELSE (CHOOSE c \in pulled : \A d \in pulled : d.rev <= c.rev).value

(* After a complete synchronisation every row that is neither edited nor   *)
(* in conflict shows what the log says at the cursor: pages, snapshots and *)
(* rows that were skipped add up to the state of the log.                  *)
SyncedIsLatest ==
    pc = "synced" =>
        \A k \in Keys : ~Guarded(replica[k]) => replica[k].value = LastPulled(k)

(* A row marked as edited is on its way: the last mutation of it in the    *)
(* queue has its content, whatever the loop has sent, requeued or read.    *)
QueueCarriesEdit ==
    \A k \in Keys :
       replica[k].dirty /\ ~replica[k].conflicted =>
          \E m \in Newest({q \in Pending : q.key = k}) : m.value = replica[k].value

(* Mutations reach the log in the order the author made them, through      *)
(* retries, refusals and stops: a deletion never overtakes an edit.        *)
LogKeepsOrder ==
    \A c, d \in changes :
       (c.id[1] = "phone" /\ d.id[1] = "phone" /\ c.rev < d.rev) => c.id[2] < d.id[2]

(* What the author wrote is never lost: each edit is in the queue, in the  *)
(* log or in a conflict, with the content the author gave it.              *)
EditSurvives ==
    \A n \in DOMAIN made :
       \/ \E m \in outbox : m.id = PhoneId(n) /\ m.value = made[n].value
       \/ \E c \in changes \cup conflicts : c.id = PhoneId(n) /\ c.value = made[n].value

(* The phone never collides with itself: a mutation of its is disputed     *)
(* only if somebody else wrote the entity after the version it is based on. *)
OnlyRealConflicts ==
    \A c \in conflicts : c.id[1] = "phone" =>
       \E d \in changes : /\ d.key = c.key /\ d.id[1] # "phone"
                          /\ d.rev \in (c.base + 1) .. c.serverRev

(* A row in conflict, which the author cannot edit, has an open conflict   *)
(* the phone shows, however conflicts are closed here and elsewhere.       *)
NoStuckConflict ==
    \A k \in Keys : replica[k].conflicted => \E o \in opened : o.key = k

(* Mutations the Gateway may refuse for good wait in the queue, and what   *)
(* the author did after the n-th edit, or that edit itself, waits with     *)
(* them.                                                                   *)
Refused == {m \in outbox : m.key \in Refusable}
Refusing(n) == \E m \in Refused : m.id[2] <= n

(* Every edit is, in the end, in the log or in a conflict, unless it waits *)
(* for one the Gateway refuses.                                            *)
EveryEditSettles ==
    \A n \in 1 .. MaxEdits :
       (n \in DOMAIN made) ~> (Logged(PhoneId(n)) \/ Disputed(PhoneId(n)) \/ Refusing(n))

(* Once everybody stops writing, each row out of conflict is the server's; *)
(* only edits that wait for a refused one are ahead of it.                 *)
Converges ==
    <>[](\A k \in Keys :
            \/ replica[k].conflicted
            \/ replica[k].dirty /\ Refused # {}
            \/ replica[k].value = entity[k].value)
=============================================================================
