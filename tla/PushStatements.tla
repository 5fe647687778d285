---------------------------- MODULE PushStatements ----------------------------
(***************************************************************************)
(* A push of a device, statement by statement, among the other writers of  *)
(* the database. GatewayLog takes a mutation for one step; here it is the  *)
(* reads, the savepoint and the records of modules/gateway, on connections *)
(* coordinated as in WriteCoordination. What a connection reads before     *)
(* SQLite's transaction has begun is what was committed at that moment;    *)
(* from then on it reads what it saw first, and its own changes.           *)
(***************************************************************************)
EXTENDS WriteCoordination, Sequences

CONSTANTS
    Keys,     \* synchronised entities
    Batch,    \* connections that push, with the keys their mutations edit
    Authors,  \* connections that save on the desktop or in an MCP server
    MaxSaves, \* bound on how often an author saves
    NoView

(* A row's content is named after who wrote it and in which of his writes. *)
Contents == (Conns \cup {Nobody}) \X Nat

Changes == [key : Keys, base : Nat, value : Contents, by : Conns, n : Nat]

Databases ==
    [row : [Keys -> Contents], rev : [Keys -> Nat], log : Seq(Changes),
     jobs : [Keys -> Nat], disputes : Nat, commits : Nat]

ASSUME StatementsAssumption ==
    /\ DOMAIN Batch \subseteq Conns
    /\ \A c \in DOMAIN Batch : Batch[c] \in Seq(Keys) /\ Len(Batch[c]) > 0
    /\ Authors \subseteq Conns /\ MaxSaves \in Nat
    /\ NoView \notin Databases

(* A connection serves one session: a push, a save, an import or the       *)
(* dispatch that the listeners of a save open.                             *)
ASSUME RolesAssumption ==
    /\ DOMAIN Batch \cap (Authors \cup Patient \cup Dispatchers) = {}
    /\ Authors \cap (Patient \cup Dispatchers) = {}
    /\ Patient \cap Dispatchers = {}
    /\ \A c \in Conns : Dispatcher[c] # Nobody => c \in Authors

VARIABLES
    store, \* the committed database: row, entity state and change log, open
           \* capture jobs, conflicts, and how many commits it has seen
    view,  \* the database as a connection's open transaction sees it
    task   \* what the session of a connection is doing

vars == <<coordVars, store, view, task>>

Pushers == DOMAIN Batch

(* i counts the mutations of a push, n those of them that were not skipped. *)
NoTask == [step |-> "none", i |-> 0, n |-> 0, key |-> NoView,
           base |-> [k \in Keys |-> 0], runs |-> 0]

Init ==
    /\ CoordInit
    /\ store = [row |-> [k \in Keys |-> <<Nobody, 0>>], rev |-> [k \in Keys |-> 0],
                log |-> <<>>, jobs |-> [k \in Keys |-> 0], disputes |-> 0, commits |-> 0]
    /\ view = [c \in Conns |-> NoView]
    /\ task = [c \in Conns |-> NoTask]

Seen(c) == IF view[c] = NoView THEN store ELSE view[c]

(* SQLITE_BUSY_SNAPSHOT: somebody committed since the transaction's first  *)
(* read.                                                                   *)
Stale(c) == view[c] # NoView /\ c \notin dirty /\ view[c].commits # store.commits

Sees(c, db) == view' = [view EXCEPT ![c] = db]

(* The transaction of c is committed, if there is something to commit.     *)
Committed(c) ==
    /\ store' = IF c \in dirty THEN [view[c] EXCEPT !.commits = @ + 1] ELSE store
    /\ Sees(c, NoView)

Does(c, step) == task' = [task EXCEPT ![c].step = step]

(* _record_applied: a change and its state, with the row's content.        *)
Recorded(db, c, k, base) ==
    [db EXCEPT !.log = Append(@, [key |-> k, base |-> base, value |-> db.row[k],
                                  by |-> c, n |-> task[c].n]),
               !.rev[k] = Len(db.log) + 1]

(* A write statement of a session without a lease, and what it waits for.  *)
Waits(c) ==
    /\ task[c].step \in {"project", "record", "dispute", "write"}
    /\ WantsLease(c) \/ PassesGate(c) \/ LocksFile(c) \/ GateTimesOut(c) \/ FileTimesOut(c)
    /\ UNCHANGED <<store, view, task>>

-----------------------------------------------------------------------------
(* push: the mutations of a batch, one after the other.                    *)

Key(c) == Batch[c][task[c].i]

NextMutation(c) ==
    task' = [task EXCEPT ![c].i = @ + 1,
                         ![c].step = IF task[c].i = Len(Batch[c]) THEN "commit" ELSE "check"]

(* The device pushes what it edited at the revisions it knows.             *)
PushOpens(c) ==
    /\ c \in Pushers /\ task[c].runs = 0
    /\ Open(c)
    /\ task' = [task EXCEPT ![c] = [NoTask EXCEPT !.step = "check", !.i = 1,
                                                  !.base = store.rev, !.runs = 1]]
    /\ UNCHANGED <<store, view>>

(* Fault: a batch is checked against the revisions it started from.        *)
CheckedAtStart(c) == task[c].base[Key(c)]

(* _entity_state                                                           *)
ServerRevision(c) == Seen(c).rev[Key(c)]

(* A mutation that the store already has, that is too large or whose work  *)
(* is not enabled is answered without a statement that begins SQLite's     *)
(* transaction.                                                            *)
PushSkips(c) ==
    /\ Runs(c, "open") /\ task[c].step = "check"
    /\ NextMutation(c)
    /\ UNCHANGED <<coordVars, store, view>>

PushChecks(c) ==
    /\ Runs(c, "open") /\ task[c].step = "check"
    /\ LET step == IF ServerRevision(c) = task[c].base[Key(c)] THEN "save" ELSE "dispute"
       IN  task' = [task EXCEPT ![c].step = step, ![c].n = @ + 1]
    /\ UNCHANGED <<coordVars, store, view>>

(* The savepoint, and the rows of the project as they are before.          *)
PushSaves(c) ==
    /\ task[c].step = "save" /\ Saves(c)
    /\ Sees(c, Seen(c))
    /\ Does(c, "project")
    /\ UNCHANGED store

PushProjects(c) ==
    /\ task[c].step = "project" /\ ~Stale(c) /\ Writes(c)
    /\ Sees(c, [Seen(c) EXCEPT !.row[Key(c)] = <<c, task[c].n>>])
    /\ Does(c, "release")
    /\ UNCHANGED store

(* The domain's refusal of a content, or the database error of a stale     *)
(* snapshot, rejects the mutation.                                         *)
PushFails(c) ==
    /\ task[c].step = "project" /\ Fails(c)
    /\ Does(c, "reject")
    /\ UNCHANGED <<store, view>>

PushRejects(c) ==
    /\ task[c].step = "reject" /\ RollsBackTo(c)
    /\ NextMutation(c)
    /\ UNCHANGED <<store, view>>

PushReleases(c) ==
    /\ task[c].step = "release" /\ Releases(c)
    /\ IF savepoint[c] = "outer" THEN Committed(c) ELSE UNCHANGED <<store, view>>
    /\ Does(c, "record")

PushRecords(c) ==
    /\ task[c].step = "record" /\ ~Stale(c) /\ Writes(c)
    /\ Sees(c, Recorded(Seen(c), c, Key(c), task[c].base[Key(c)]))
    /\ NextMutation(c)
    /\ UNCHANGED store

PushDisputes(c) ==
    /\ task[c].step = "dispute" /\ ~Stale(c) /\ Writes(c)
    /\ Sees(c, [Seen(c) EXCEPT !.disputes = @ + 1])
    /\ NextMutation(c)
    /\ UNCHANGED store

(* The same error fails the whole request where no savepoint is open.      *)
PushBreaks(c) ==
    /\ task[c].step \in {"record", "dispute"} /\ Stale(c) /\ c \in lease /\ Fails(c)
    /\ Does(c, "none")
    /\ UNCHANGED <<store, view>>

PushCommits(c) ==
    /\ c \in Pushers /\ task[c].step = "commit" /\ Commits(c)
    /\ Committed(c)
    /\ Does(c, "none")

-----------------------------------------------------------------------------
(* A save on the desktop: the row and its capture job in one transaction,  *)
(* which the dispatch after its commit takes to the log in another one.    *)

SaveOpens(c, k) ==
    /\ c \in Authors /\ task[c].runs < MaxSaves
    /\ Open(c)
    /\ task' = [task EXCEPT ![c].step = "write", ![c].key = k, ![c].runs = @ + 1]
    /\ UNCHANGED <<store, view>>

SaveWrites(c) ==
    /\ c \in Authors /\ task[c].step = "write" /\ Writes(c)
    /\ Sees(c, [Seen(c) EXCEPT !.row[task[c].key] = <<c, task[c].runs>>, !.jobs[task[c].key] = @ + 1])
    /\ Does(c, "commit")
    /\ UNCHANGED store

SaveCommits(c) ==
    /\ c \in Authors /\ task[c].step = "commit" /\ Commits(c)
    /\ Committed(c)
    /\ Does(c, "none")

(* _dispatch_after_commit                                                  *)
SaveDispatches(c) ==
    /\ Dispatches(c)
    /\ task' = [task EXCEPT ![Dispatcher[c]].step = "write",
                            ![Dispatcher[c]].key = task[c].key]
    /\ UNCHANGED <<store, view>>

(* _process_one: the job is marked before the state is read.               *)
CapturedOver(c, k) == Seen(c).rev[k]

JobRecords(c) ==
    /\ c \in Dispatchers /\ task[c].step = "write"
    /\ LET k == task[c].key IN
       IF Seen(c).jobs[k] = 0
       THEN Does(c, "commit") /\ Runs(c, "open") /\ UNCHANGED <<coordVars, view>>
       ELSE /\ Writes(c)
            /\ Sees(c, [Recorded(Seen(c), c, k, CapturedOver(c, k)) EXCEPT !.jobs[k] = @ - 1])
            /\ Does(c, "commit")
    /\ UNCHANGED store

JobCommits(c) ==
    /\ c \in Dispatchers /\ task[c].step = "commit" /\ Commits(c)
    /\ Committed(c)
    /\ Does(c, "none")

SaveReturns(c) ==
    /\ Dispatched(c)
    /\ UNCHANGED <<store, view, task>>

-----------------------------------------------------------------------------
(* import_file_as_project writes the project, awaits a model that splits   *)
(* the text, and writes the chapters.                                      *)

ImportOpens(c) ==
    /\ c \in Patient /\ task[c].runs = 0
    /\ Open(c)
    /\ task' = [task EXCEPT ![c].step = "write", ![c].runs = 1]
    /\ UNCHANGED <<store, view>>

ImportWrites(c) ==
    /\ c \in Patient /\ task[c].step = "write" /\ Writes(c)
    /\ Sees(c, Seen(c))
    /\ Does(c, "split")
    /\ UNCHANGED store

ImportAwaits(c) ==
    /\ task[c].step = "split" /\ Awaits(c)
    /\ Does(c, "commit")
    /\ UNCHANGED <<store, view>>

ImportResumes(c) ==
    /\ Resumes(c)
    /\ UNCHANGED <<store, view, task>>

ImportCommits(c) ==
    /\ c \in Patient /\ task[c].step = "commit" /\ Commits(c)
    /\ Committed(c)
    /\ Does(c, "none")

-----------------------------------------------------------------------------
(* Every session ends, with an error if it has to.                         *)

Errs(c) ==
    /\ task[c].step # "reject" /\ RollsBack(c)
    /\ Sees(c, NoView)
    /\ Does(c, "none")
    /\ UNCHANGED store

Ends(c) ==
    /\ Closes(c)
    /\ at[c] = "committed" => Dispatcher[c] = Nobody
    /\ UNCHANGED <<store, view, task>>

Ending(p) ==
    /\ Crash(p)
    /\ view' = [c \in Conns |-> IF Process[c] = p THEN NoView ELSE view[c]]
    /\ task' = [c \in Conns |->
                  IF Process[c] = p THEN [NoTask EXCEPT !.runs = task[c].runs] ELSE task[c]]
    /\ UNCHANGED store

Work(c) ==
    \/ Waits(c) \/ Errs(c) \/ Ends(c)
    \/ PushSkips(c) \/ PushChecks(c) \/ PushSaves(c) \/ PushProjects(c) \/ PushFails(c)
    \/ PushRejects(c) \/ PushReleases(c) \/ PushRecords(c) \/ PushDisputes(c)
    \/ PushBreaks(c) \/ PushCommits(c)
    \/ SaveWrites(c) \/ SaveCommits(c) \/ SaveDispatches(c)
    \/ JobRecords(c) \/ JobCommits(c) \/ SaveReturns(c)
    \/ ImportWrites(c) \/ ImportAwaits(c) \/ ImportResumes(c) \/ ImportCommits(c)

Next ==
    \/ \E c \in Conns : Work(c) \/ PushOpens(c) \/ ImportOpens(c)
    \/ \E c \in Conns, k \in Keys : SaveOpens(c, k)
    \/ \E p \in Procs : Ending(p)

(* Some thread runs as long as one can: locks are waited for with a limit, *)
(* and a model answers.                                                    *)
Spec == Init /\ [][Next]_vars /\ WF_vars(\E c \in Conns : Work(c))

-----------------------------------------------------------------------------
Last(S) == IF S = {} THEN 0 ELSE CHOOSE i \in S : \A j \in S : j =< i

(* The last change of k before position n of a log.                        *)
LastBefore(log, k, n) == Last({i \in 1 .. (n - 1) : log[i].key = k})

(* Whatever a push or a capture job records was checked against what it    *)
(* replaces, and against all of it. The first mutation of a push that is   *)
(* not skipped is checked before its transaction begins and is excepted.   *)
CheckedWrites ==
    \A p \in DOMAIN store.log :
        store.log[p].n # 1 =>
            store.log[p].base = LastBefore(store.log, store.log[p].key, p)

(* A row that is not what the log says has a capture job, through commits, *)
(* errors and ends of processes; again but for a row as the first mutation *)
(* of a push that is not skipped wrote it: it is committed, with no job,   *)
(* before its change.                                                      *)
WritesAreLogged ==
    \A k \in Keys :
        LET p == LastBefore(store.log, k, Len(store.log) + 1) IN
        \/ store.jobs[k] > 0
        \/ store.row[k] = (IF p = 0 THEN <<Nobody, 0>> ELSE store.log[p].value)
        \/ store.row[k] \in Pushers \X {1}

(* A session never waits, to dispatch what it committed, for its own lock. *)
NeverWaitsForItself ==
    \A c \in Conns : at[c] = "dispatching" /\ at[Dispatcher[c]] = "gate"
        => gate[Process[c]] # c

(* Every session ends, though a coroutine that waits for the lock stops    *)
(* the one that holds it and awaits its model.                             *)
SessionsEnd == []<>(\A c \in Conns : at[c] = "idle")
===============================================================================
