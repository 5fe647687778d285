----------------------------- MODULE GatewayLog -----------------------------
(***************************************************************************)
(* The Gateway: the service that owns the canonical authoring tables of    *)
(* each work (a "project") and the sync store through which paired devices *)
(* replicate them.  Writes reach the store from three sides:               *)
(*                                                                         *)
(*   - a device pushes a mutation, or an author settles a conflict: the    *)
(*     applier writes the domain row and the log in one transaction;       *)
(*   - the desktop writes the domain tables; the ORM hooks put a capture   *)
(*     job in the same transaction, and the job reaches the log later;     *)
(*   - putting a project into synchronisation seeds the log with whatever  *)
(*     the domain tables hold.                                             *)
(*                                                                         *)
(* Deleting a whole work on the desktop puts it in the recycle bin, with   *)
(* its row of sync_projects but without what the store holds of it, which  *)
(* cascades away; restoring it brings back what the bin has.               *)
(*                                                                         *)
(* Each action is one committed transaction.  Mutation ids carry what the  *)
(* code hashes or concatenates into them, so two are equal exactly when    *)
(* the code's are.                                                         *)
(***************************************************************************)
EXTENDS SyncStore, Functions

CONSTANTS
    Projects,    \* works
    ProjectOf,   \* the work an entity belongs to
    RootOf,      \* the "project" entity of a work
    Owner,       \* the entity whose deletion deletes this one, or NoOwner
    NoOwner,
    OrmOwned,    \* owned entities the ORM, not just the database, cascades to
    Retirable,   \* works the author may take out of synchronisation
    PushIds,     \* ids devices give to the mutations they push
    MaxJobs      \* bound on desktop transactions that leave a job or delete a work

ASSUME GatewayAssumption ==
    /\ ProjectOf \in [Keys -> Projects]
    /\ RootOf \in [Projects -> Keys]
    /\ \A p \in Projects : ProjectOf[RootOf[p]] = p
    /\ NoOwner \notin Keys
    /\ Owner \in [Keys -> Keys \cup {NoOwner}]
    /\ \A p \in Projects : Owner[RootOf[p]] = NoOwner
    /\ \A k \in Keys : Owner[k] # NoOwner =>
          ProjectOf[Owner[k]] = ProjectOf[k] /\ Owner[Owner[k]] = NoOwner
    /\ Works \subseteq {{k \in Keys : ProjectOf[k] = p} : p \in Projects}
    /\ OrmOwned \subseteq Keys
    /\ Retirable \subseteq Projects
    /\ MaxJobs \in Nat

VARIABLES
    domain,      \* content of the authoring row of each entity
    status,      \* sync_projects.status, "absent" where there is no row
    manifest,    \* sync_projects.manifest_json: the entities it vouches for
    jobs,        \* rows of sync_capture_jobs not yet completed
    jobSeq,      \* desktop transactions that left jobs or deleted a work so far
    bin,         \* the last deletion of each work, if any, as the recycle bin keeps it
    reply        \* the last answer to a pushed mutation that named a row

gatewayVars == <<domain, status, manifest, jobs, jobSeq, bin, reply>>
vars == <<storeVars, gatewayVars>>

Mutation == [id : {<<"push", c>> : c \in PushIds}, key : Keys,
             base : Revisions, value : Contents]

(* A device bases a mutation on a revision of the entity it was given, by  *)
(* this log or by one that was deleted with the work.                      *)
Seen(m) == \/ m.base = 0
           \/ \E c \in changes : c.key = m.key /\ c.rev = m.base
           \/ bin[ProjectOf[m.key]] # {}

WorkOf(p) == {k \in Keys : ProjectOf[k] = p}
Enabled(k) == status[ProjectOf[k]] = "enabled"
IsRoot(k) == k = RootOf[ProjectOf[k]]
OwnerPresent(k) == Owner[k] # NoOwner => domain[Owner[k]] # None

(* Fault: a manifest that forgets to leave out deleted entities.           *)
LiveOrDeleted(p, content) == {<<k, content[k]>> : k \in WorkOf(p)}

(* The entities of p a manifest vouches for.                               *)
Live(p, content) ==
    {<<k, content[k]>> : k \in {k \in WorkOf(p) : content[k] # None}}

Init ==
    /\ StoreInit
    /\ domain = [k \in Keys |-> None]
    /\ status = [p \in Projects |-> "absent"]
    /\ manifest = [p \in Projects |-> {}]
    /\ jobs = {}
    /\ jobSeq = 0
    /\ bin = [p \in Projects |-> {}]
    /\ reply = [id |-> <<>>, names |-> "nothing", rev |-> 0]

(* Fault: the answer carries the cursor of before the mutation.            *)
AnswerCursor(m, row, rev) == reply' = [id |-> m.id, names |-> row, rev |-> head]

(* The answer names a row: the change, whether applied now or before, or   *)
(* the conflict.                                                           *)
Answer(m, row, rev) == reply' = [id |-> m.id, names |-> row, rev |-> rev]

----------------------------------------------------------------------------
(* The mutation applier.                                                   *)

(* Fault: deletions reach the log but not the entity's state.              *)
UpsertedStates(order, value) ==
    [k \in Keys |-> IF k \in DOMAIN order /\ value[k] # None
                    THEN [rev |-> head + order[k], value |-> value[k]] ELSE entity[k]]

States(order, value) ==
    [k \in Keys |-> IF k \in DOMAIN order
                    THEN [rev |-> head + order[k], value |-> value[k]] ELSE entity[k]]

(* A deletion leaves a tombstone, an upsert removes it.                    *)
Tombstones(order, value) ==
    [k \in Keys |-> IF k \notin DOMAIN order THEN tombstone[k]
                    ELSE IF value[k] = None THEN head + order[k] ELSE 0]

(* The change of k, order[k] revisions after head.                         *)
LogRow(order, id, base, value, k) ==
    [rev |-> head + order[k], id |-> id[k], key |-> k, base |-> base[k], value |-> value[k]]

(* One change for each entity of DOMAIN order, in that order.              *)
Record(order, id, base, value) ==
    LET n == Cardinality(DOMAIN order) IN
    /\ head + n <= MaxRevision
    /\ head' = head + n
    /\ changes' = changes \cup {LogRow(order, id, base, value, k) : k \in DOMAIN order}
    /\ entity' = States(order, value)
    /\ tombstone' = Tombstones(order, value)

(* The revisions entities have now, which is what the service bases its    *)
(* own mutations on.                                                       *)
Current == [k \in Keys |-> entity[k].rev]

(* While a work is enabled its manifest follows its live states.           *)
RefreshManifest(p) ==
    manifest' = IF status'[p] # "enabled" THEN manifest
                ELSE [manifest EXCEPT ![p] =
                        Live(p, [k \in Keys |-> entity'[k].value])]

(* What the domain tables may hold once m is projected on them: its row    *)
(* has the new content; a deletion takes the rows it owns with it, and an  *)
(* upsert may add, rewrite or drop them (versions, snapshots, summaries).  *)
Projections(m) ==
    {d \in [Keys -> Contents] :
        /\ d[m.key] = m.value
        /\ \A k \in Keys \ {m.key} :
              IF Owner[k] = m.key THEN m.value = None => d[k] = None
              ELSE d[k] = domain[k]}

(* Rows the domain refuses: an owned row without its owner, and the        *)
(* deletion of a whole work.                                               *)
Refused(m) == \/ m.value # None /\ ~OwnerPresent(m.key)
              \/ m.value = None /\ IsRoot(m.key)

(* Project m on the domain and log every row that moved, m's own last.     *)
ProjectAndRecord(m) ==
    /\ ~Refused(m)
    /\ \E d \in Projections(m) :
          LET W == {m.key} \cup {k \in Keys : d[k] # domain[k]}
              id == [k \in W |-> IF k = m.key THEN m.id ELSE <<"effect", m.id, k>>]
          IN  \E order \in Bijection(W, 1 .. Cardinality(W)) :
                 /\ order[m.key] = Cardinality(W)
                 /\ Record(order, id, [Current EXCEPT ![m.key] = m.base], d)
                 /\ domain' = d
    /\ RefreshManifest(ProjectOf[m.key])

----------------------------------------------------------------------------
(* POST /sync/push, one mutation.                                          *)

PushDuplicate(m) ==
    /\ Enabled(m.key)
    /\ \E c \in changes : c.id = m.id /\ Answer(m, "change", c.rev)
    /\ UNCHANGED <<storeVars, domain, status, manifest, jobs, jobSeq, bin>>

PushDisputed(m) ==
    /\ Enabled(m.key)
    /\ ~Logged(m.id)
    /\ \E c \in conflicts : c.id = m.id /\ Answer(m, "conflict", c.serverRev)
    /\ UNCHANGED <<storeVars, domain, status, manifest, jobs, jobSeq, bin>>

PushConflict(m) ==
    /\ Enabled(m.key)
    /\ Fresh(m.id)
    /\ m.base # entity[m.key].rev
    /\ conflicts' = conflicts \cup {Collision(m.id, m.key, m.base, m.value)}
    /\ Answer(m, "conflict", entity[m.key].rev)
    /\ UNCHANGED <<head, changes, entity, tombstone,
                   domain, status, manifest, jobs, jobSeq, bin>>

(* Fault: the version the device saw is never compared.                    *)
PushUnchecked(m) ==
    /\ Enabled(m.key)
    /\ Fresh(m.id)
    /\ UNCHANGED <<conflicts, status, jobs, jobSeq, bin>>
    /\ ProjectAndRecord(m)
    /\ Answer(m, "change", head')

PushApplied(m) ==
    /\ Enabled(m.key)
    /\ Fresh(m.id)
    /\ m.base = entity[m.key].rev
    /\ UNCHANGED <<conflicts, status, jobs, jobSeq, bin>>
    /\ ProjectAndRecord(m)
    /\ Answer(m, "change", head')

(* A device may bring a work the Gateway has never seen, under an id of    *)
(* its own (a UUID made for that mutation).                                *)
PushCreatesProject(m) ==
    /\ ~Enabled(m.key)
    /\ IsRoot(m.key)
    /\ m.value # None
    /\ m.base = 0
    /\ domain[m.key] = None
    /\ Fresh(m.id)
    /\ domain' = [domain EXCEPT ![m.key] = m.value]
    /\ status' = [status EXCEPT ![ProjectOf[m.key]] = "enabled"]
    /\ Record([k \in {m.key} |-> 1], [k \in {m.key} |-> m.id],
              [k \in {m.key} |-> m.base], domain')
    /\ RefreshManifest(ProjectOf[m.key])
    /\ Answer(m, "change", head')
    /\ UNCHANGED <<conflicts, jobs, jobSeq, bin>>

(* A mutation of a work that is not enabled, over the size limit, or       *)
(* refused by the domain's checks on the content, which may refuse any     *)
(* payload, is rejected: nothing is recorded and the answer names nothing, *)
(* a stuttering step.                                                      *)
Push(m) == \/ PushDuplicate(m) \/ PushDisputed(m) \/ PushConflict(m)
           \/ PushApplied(m) \/ PushCreatesProject(m)

----------------------------------------------------------------------------
(* Fault: a settled conflict is thrown away.                               *)
SettledAway(c, verdict) == conflicts \ {c}

Settled(c, verdict) == (conflicts \ {c}) \cup {[c EXCEPT !.verdict = verdict]}

(* POST /sync/conflicts/{id}/resolve.  Keeping the server's version only   *)
(* closes the conflict; the others write under a fresh id, based on the    *)
(* revision of the moment.                                                 *)
ResolveConflict(c, verdict, custom) ==
    /\ c.verdict = "open"
    /\ UNCHANGED <<status, jobs, jobSeq, bin, reply>>
    /\ conflicts' = Settled(c, verdict)
    /\ IF verdict = "server"
       THEN UNCHANGED <<head, changes, entity, tombstone, domain, manifest>>
       ELSE ProjectAndRecord(
               [id |-> <<"resolve", c.id>>, key |-> c.key,
                base |-> entity[c.key].rev,
                value |-> IF verdict = "client" THEN c.value ELSE custom])

----------------------------------------------------------------------------
(* POST and DELETE /sync/projects/{id}: seed the log with every row whose  *)
(* content is not the live state, and with a deletion for every live state *)
(* without a row.  Seed ids are hashes of the entity and its content, and  *)
(* one already in the log counts as done.                                  *)
EnableProject(p) ==
    LET seed(k) == <<"seed", k, domain[k]>>
        W == {k \in WorkOf(p) : entity[k].value # domain[k] /\ ~Logged(seed(k))}
    IN
    /\ domain[RootOf[p]] # None
    /\ \E order \in Bijection(W, 1 .. Cardinality(W)) :
          Record(order, [k \in W |-> seed(k)], Current, domain)
    /\ status' = [status EXCEPT ![p] = "enabled"]
    /\ manifest' = [manifest EXCEPT ![p] = Live(p, domain)]
    /\ UNCHANGED <<conflicts, domain, jobs, jobSeq, bin, reply>>

DisableProject(p) ==
    /\ p \in Retirable
    /\ status[p] # "absent"
    /\ status' = [status EXCEPT ![p] = "disabled"]
    /\ UNCHANGED <<storeVars, domain, manifest, jobs, jobSeq, bin, reply>>

----------------------------------------------------------------------------
(* Fault: the hooks forget the rows a session deletes.                     *)
JobsForSaved(keys) ==
    {[n |-> jobSeq + 1, key |-> j, value |-> domain'[j]] : j \in {j \in keys : domain'[j] # None}}

JobsFor(keys) == {[n |-> jobSeq + 1, key |-> j, value |-> domain'[j]] : j \in keys}

(* The desktop writes the domain tables; the flush hooks add one job for   *)
(* each row the session itself wrote or deleted, in the same transaction.  *)
Outbox(keys) ==
    /\ jobSeq < MaxJobs
    /\ jobSeq' = jobSeq + 1
    /\ jobs' = jobs \cup JobsFor(keys)

Capture(k, keys) == IF Enabled(k) THEN Outbox(keys) ELSE UNCHANGED <<jobs, jobSeq>>

DesktopSave(k, v) ==
    /\ v # domain[k]
    /\ IsRoot(k) \/ domain[RootOf[ProjectOf[k]]] # None
    /\ OwnerPresent(k)
    /\ domain' = [domain EXCEPT ![k] = v]
    /\ Capture(k, {k})
    /\ UNCHANGED <<storeVars, status, manifest, bin, reply>>

(* The session sees the rows its own cascades delete; rows only the        *)
(* database's ON DELETE CASCADE removes go unseen.                         *)
DesktopDelete(k) ==
    LET owned == {j \in Keys : Owner[j] = k /\ domain[j] # None} IN
    /\ ~IsRoot(k)
    /\ domain[k] # None
    /\ domain' = [j \in Keys |-> IF j \in owned \cup {k} THEN None ELSE domain[j]]
    /\ Capture(k, {k} \cup (owned \cap OrmOwned))
    /\ UNCHANGED <<storeVars, status, manifest, bin, reply>>

(* What cascades with the row of a work: all that is kept about it.        *)
ForgetWork(p) ==
    /\ Forget(WorkOf(p))
    /\ status' = [status EXCEPT ![p] = "absent"]
    /\ manifest' = [manifest EXCEPT ![p] = {}]

(* The desktop deletes a work.  The bin keeps its rows and its place in    *)
(* synchronisation; the session sees the project and some of its rows.     *)
DesktopDeleteWork(p) ==
    LET rows == [k \in Keys |-> IF k \in WorkOf(p) THEN domain[k] ELSE None] IN
    /\ WorkOf(p) \in Works
    /\ domain[RootOf[p]] # None
    /\ bin' = [bin EXCEPT ![p] = {[rows |-> rows, status |-> status[p], manifest |-> manifest[p]]}]
    /\ domain' = [k \in Keys |-> IF k \in WorkOf(p) THEN None ELSE domain[k]]
    /\ \E seen \in SUBSET {k \in WorkOf(p) : domain[k] # None} :
          RootOf[p] \in seen /\ Outbox(IF status[p] = "enabled" THEN seen ELSE {})
    /\ ForgetWork(p)
    /\ UNCHANGED reply

(* The desktop restores it: rows and place in synchronisation come back,   *)
(* and, where that was enabled, a job for each of the rows.                *)
DesktopRestoreWork(p) ==
    /\ domain[RootOf[p]] = None
    /\ \E e \in bin[p] :
          LET back == {k \in WorkOf(p) : e.rows[k] # None} IN
          /\ domain' = [k \in Keys |-> IF k \in WorkOf(p) THEN e.rows[k] ELSE domain[k]]
          /\ status' = [status EXCEPT ![p] = e.status]
          /\ manifest' = [manifest EXCEPT ![p] = e.manifest]
          /\ IF e.status = "enabled" THEN Outbox(back) ELSE UNCHANGED <<jobs, jobSeq>>
    /\ UNCHANGED <<storeVars, bin, reply>>

(* Fault: an upsert replays the content its job was saved with.            *)
CapturedThen(j) == j.value

Completed(j) == jobs \ {j}

(* A job reaches the log: right after its commit, or, when that dispatch   *)
(* failed or the process stopped before it, at the next start.  An upsert  *)
(* takes the content the row has by now.  A change needs the row of its    *)
(* work: the jobs of a deleted work fail until it is back.                 *)
Captured(j) == IF j.value # None /\ domain[j.key] # None
               THEN domain[j.key] ELSE j.value

ProcessJob(j) ==
    /\ domain[RootOf[ProjectOf[j.key]]] # None
    /\ UNCHANGED <<conflicts, domain, status, jobSeq, bin, reply>>
    /\ Record([k \in {j.key} |-> 1],
              [k \in {j.key} |-> <<"server", j.n, j.key>>],
              Current,
              [k \in {j.key} |-> Captured(j)])
    /\ jobs' = Completed(j)
    /\ RefreshManifest(ProjectOf[j.key])

----------------------------------------------------------------------------
Next ==
    \/ \E m \in Mutation : Seen(m) /\ Push(m)
    \/ \E c \in conflicts, verdict \in {"server", "client"} :
          ResolveConflict(c, verdict, None)
    \/ \E c \in conflicts, v \in Contents : ResolveConflict(c, "custom", v)
    \/ \E p \in Projects : EnableProject(p) \/ DisableProject(p)
    \/ \E k \in Keys, v \in Values : DesktopSave(k, v)
    \/ \E k \in Keys : DesktopDelete(k)
    \/ \E p \in Projects : DesktopDeleteWork(p) \/ DesktopRestoreWork(p)
    \/ \E j \in jobs : ProcessJob(j)

Spec == Init /\ [][Next]_vars

----------------------------------------------------------------------------
Job == [n : 1 .. MaxJobs, key : Keys, value : Contents]
Status == {"absent", "enabled", "disabled"}
Manifest == SUBSET (Keys \X Values)

(* Type invariant of the Gateway.                                          *)
TypeOK ==
    /\ StoreTypeOK
    /\ domain \in [Keys -> Contents]
    /\ status \in [Projects -> Status]
    /\ manifest \in [Projects -> Manifest]
    /\ jobs \subseteq Job
    /\ jobSeq \in 0 .. MaxJobs
    /\ DOMAIN bin = Projects
    /\ \A p \in Projects :
          bin[p] \subseteq [rows : [Keys -> Contents], status : Status, manifest : Manifest]

(* What makes the ids the service derives fresh when it writes under them: *)
(* a side effect is logged only with the mutation it belongs to, an open   *)
(* conflict has not been written, an open job has not reached the log.     *)
IdsAreFresh ==
    /\ \A c \in conflicts :
          /\ c.id \in {<<"push", i>> : i \in PushIds}
          /\ c.verdict = "open" => ~Logged(<<"resolve", c.id>>)
    /\ \A m \in {<<"push", i>> : i \in PushIds} \cup
                {<<"resolve", c.id>> : c \in conflicts} :
          ~Logged(m) => \A k \in Keys : ~Logged(<<"effect", m, k>>)
    /\ \A j \in jobs : ~Logged(<<"server", j.n, j.key>>)
    /\ \A j \in jobs : j.n <= jobSeq

(* The tables hold what an answer says: an accepted mutation is in the log *)
(* at the revision it was given, a conflicting one is kept with the server *)
(* revision it was shown.                                                  *)
Holds(answer) ==
    /\ answer.names = "change" =>
          \E c \in changes : c.id = answer.id /\ c.rev = answer.rev
    /\ answer.names = "conflict" =>
          \E c \in conflicts : c.id = answer.id /\ c.serverRev = answer.rev

(* The work of k is deleted in this step.                                  *)
WorkGoes(k) ==
    domain[RootOf[ProjectOf[k]]] # None /\ domain'[RootOf[ProjectOf[k]]] = None

(* A device is never told something the tables do not hold, and they hold  *)
(* it from then on, through every later transaction but one: the deletion  *)
(* of the work the row belongs to.                                         *)
AnswerIsRecorded ==
    [][\/ Holds(reply)'
       \/ /\ reply' = reply
          /\ Holds(reply) =>
                \E c \in changes \cup conflicts : c.id = reply.id /\ WorkGoes(c.key)]_vars

(* The entities whose deletion takes k away without the ORM noticing.      *)
Above(k) == {RootOf[ProjectOf[k]]} \cup (IF k \in OrmOwned THEN {} ELSE {Owner[k]})

(* While a work is enabled, or once it is again, a transaction that moves  *)
(* one of its rows puts the new content in the log or in a job that will:  *)
(* no write is invisible to the other devices.  The exception are rows the *)
(* database alone removes, and only beside a job for the deletion of what  *)
(* they belong to.                                                         *)
EveryWriteTracked ==
    [][\A k \in Keys : (Enabled(k) \/ Enabled(k)') /\ domain'[k] # domain[k] =>
          \/ \E c \in changes' \ changes : c.key = k /\ c.value = domain'[k]
          \/ \E j \in jobs' \ jobs : j.key = k /\ j.value = domain'[k]
          \/ /\ domain'[k] = None
             /\ \E j \in jobs' \ jobs : j.key \in Above(k) \ {k} /\ j.value = None]_vars

(* Jobs may be processed in any order, late, or after a restart: a row     *)
(* that was never deleted, alone or with its work, ends up in the states   *)
(* as it is in the domain.                                                 *)
SettledRowsMatch ==
    \A k \in Keys :
       /\ Enabled(k)
       /\ bin[ProjectOf[k]] = {}
       /\ \A j \in jobs : j.key # k
       /\ \A c \in changes : c.key = k => c.value # None
       => entity[k].value = domain[k]
=============================================================================
