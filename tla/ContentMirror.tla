--------------------------- MODULE ContentMirror ---------------------------
(***************************************************************************)
(* The readable mirror of the database.  A commit that changes the story   *)
(* adds its mirror jobs to the outbox in the same transaction; the thread  *)
(* that committed then takes its own jobs one by one (after_commit), each  *)
(* in transactions of its own: look at the job, commit it as running, read *)
(* the rows, write the files, commit the file names and the job's end.     *)
(* What a stopped process leaves open is run at the next start, before     *)
(* requests are served.  The recycle bin refuses to delete or restore      *)
(* while a job runs, and a restore cancels the removals that would come    *)
(* after it.                                                               *)
(***************************************************************************)
EXTENDS RecycleBin, SequencesExt

CONSTANTS
    Project,    \* the row the others hang on; its file is the manifest
    Threads,    \* threads that serve requests
    Boot,       \* the thread that starts the app
    TryLimit,   \* max_attempts
    MaxEvents   \* the bound on what authors do, failures and restarts

ASSUME ProjectOwnsAll ==
    /\ Project \in Deletable \ (Chapters \cup Retained)
    /\ Heirs[Project] = Rows
    /\ Boot \notin Threads

(* A chapter has one cascading key, its project's; a draft is no chapter.  *)
ASSUME ChaptersHangOnProject ==
    /\ Owners[Project] = {} /\ \A c \in Chapters : Owners[c] = {Project}
    /\ Retained \cap Chapters = {}

Workers == Threads \cup {Boot}

Mirrored == Chapters \cup {Project}

VARIABLES
    jobs,     \* content_sync_jobs, in the order they were created
    files,    \* the text each mirror file has, or None
    threads,  \* what each thread still has to run, and how far it is
    booting,  \* the start-up recovery has not ended
    adrift,   \* rows with two projections at once, or a file no row records
    events    \* what authors have done, failures and restarts: the bound

mirrorVars == <<jobs, files, threads, booting, adrift, events>>
vars == <<rows, entries, jobs, files, threads, booting, adrift, events>>

Job(kind, row, path) ==
    [kind |-> kind, row |-> row, path |-> path, status |-> "pending", tries |-> 0]

Rebuild == Job("project", Project, FALSE)

Resting == [todo |-> <<>>, at |-> "rest", seen |-> None, view |-> <<>>]

OpenStatuses == {"pending", "failed"}

(***************************************************************************)
(* The outbox                                                              *)
(***************************************************************************)
Same(js, i, job) == js[i].kind = job.kind /\ js[i].row = job.row

Openings(js, job) == {i \in DOMAIN js : Same(js, i, job) /\ js[i].status \in OpenStatuses}

(* A request joins the newest open job with its key, which starts again.   *)
Enqueued(js, job) ==
    IF Openings(js, job) = {} THEN Append(js, job)
    ELSE [js EXCEPT ![Max(Openings(js, job))] = job]

(* The commit adds the jobs; its thread will run them in that order.       *)
Commits(t, js, new) ==
    LET after == FoldLeft(Enqueued, js, new)
    IN /\ jobs' = after
       /\ threads' = [threads EXCEPT ![t].todo =
                        [i \in DOMAIN new |-> Max(Openings(after, new[i]))]]

Idle == \A i \in DOMAIN jobs : jobs[i].status # "running"

Counted == events < MaxEvents /\ events' = events + 1

Serves(t) ==
    /\ threads[t] = Resting /\ ~booting
    /\ Counted
    /\ UNCHANGED <<files, booting>>

(***************************************************************************)
(* What authors do                                                         *)
(***************************************************************************)
Saves(t, c) ==
    /\ Serves(t) /\ c \in Chapters
    /\ \E text \in Texts, refs \in SUBSET Mentions[c] : Edit(c, text, refs)
    /\ Commits(t, jobs, <<Job("chapter", c, FALSE), Rebuild>>)
    /\ UNCHANGED adrift

(* The jobs that take the files of a deleted row away.                     *)
Removals(r) ==
    IF r = Project THEN <<Job("project_delete", r, TRUE)>>
    ELSE IF r \in Chapters
         THEN <<Job("file_delete", r, rows[r].placed), Rebuild>>
         ELSE <<>>

(* A chapter whose file was written and not recorded leaves it behind.     *)
Deletes(t, r) ==
    /\ Serves(t) /\ Idle
    /\ Delete(r)
    /\ Commits(t, jobs, Removals(r))
    /\ adrift' = adrift \cup {c \in {r} \cap Chapters : ~rows[c].placed /\ files[c] # None}

(* The open removals of what a restore gives back; of everything, when it  *)
(* is the project.                                                         *)
Outdated(e, job) ==
    /\ job.status \in OpenStatuses
    /\ job.kind \in {"file_delete", "project_delete"}
    /\ e.root = Project \/ job.row \in Changed(e)

(* The fault of a restore that leaves the removals in the queue.           *)
CancelledNone(e) == [i \in DOMAIN jobs |-> jobs[i]]

Cancelled(e) ==
    [i \in DOMAIN jobs |->
        IF Outdated(e, jobs[i]) THEN [jobs[i] EXCEPT !.status = "cancelled"] ELSE jobs[i]]

Restores(t, e) ==
    /\ Serves(t) /\ Idle
    /\ Restore(e)
    /\ Commits(t, Cancelled(e), <<Rebuild>>)
    /\ adrift' = adrift \cup {jobs[i].row : i \in {j \in DOMAIN jobs :
                      Outdated(e, jobs[j]) /\ rows'[jobs[j].row] = None}}

Purges(t, e) == Serves(t) /\ Purge(e) /\ UNCHANGED <<jobs, threads, adrift>>

Lists(t) == Serves(t) /\ PurgeExpired /\ UNCHANGED <<jobs, threads, adrift>>

(* No request lasts seven days.                                            *)
Expires(e) ==
    /\ \A t \in Workers : threads[t] = Resting
    /\ Expire(e)
    /\ UNCHANGED mirrorVars

(***************************************************************************)
(* Running a job                                                           *)
(***************************************************************************)
Head1(t) == Head(threads[t].todo)

Next1(t) == [Resting EXCEPT !.todo = Tail(threads[t].todo)]

Goes(t, step) == threads' = [threads EXCEPT ![t].at = step]

(* The rows a job writes or removes the file of.                           *)
Covers(job) ==
    IF job.kind \in {"project", "project_delete"} THEN Mirrored ELSE {job.row}

(* What the files become: the texts the rows have when they are read.      *)
Projection(job) ==
    CASE job.kind = "project_delete" -> [r \in Mirrored |-> None]
      [] job.kind = "file_delete"    -> IF job.path THEN [r \in {job.row} |-> None] ELSE <<>>
      [] OTHER -> [r \in Covers(job) \cap Here(rows) |-> rows[r].text]

Look(t) ==
    /\ threads[t].at = "rest" /\ threads[t].todo # <<>>
    /\ LET job == jobs[Head1(t)] IN
       threads' = [threads EXCEPT ![t] =
            IF job.status \in {"completed", "cancelled"} \/ job.tries >= TryLimit
            THEN Next1(t) ELSE [@ EXCEPT !.at = "looked", !.seen = job]]
    /\ UNCHANGED <<rows, entries, jobs, files, booting, adrift, events>>

(* The write of the job as it was seen: whatever was committed since, and  *)
(* a thread that runs it already, are taken over. A column that was seen   *)
(* with the value it is given is not written.                              *)
Take(t) ==
    /\ threads[t].at = "looked"
    /\ LET i == Head1(t)  seen == threads[t].seen IN
       /\ jobs' = [jobs EXCEPT ![i].status = IF seen.status = "running" THEN @ ELSE "running",
                             ![i].tries = seen.tries + 1]
       /\ adrift' = adrift \cup 
              (IF jobs[i] = seen /\ seen.status # "running" THEN {} ELSE Covers(seen))
    /\ threads' = [threads EXCEPT ![t].at = "taken", ![t].seen = None]
    /\ UNCHANGED <<rows, entries, files, booting, events>>

(* Two projections that have read and not written a row will write it in   *)
(* either order.                                                           *)
Gather(t) ==
    /\ threads[t].at = "taken"
    /\ LET job == jobs[Head1(t)]  view == Projection(job) IN
       /\ threads' = [threads EXCEPT ![t].at = "gathered", ![t].view = view,
                                     ![t].seen = IF job.status = "completed" THEN job ELSE None]
       /\ adrift' = adrift \cup {r \in DOMAIN view :
              \E u \in Workers \ {t} : threads[u].at = "gathered" /\ r \in DOMAIN threads[u].view}
    /\ UNCHANGED <<rows, entries, jobs, files, booting, events>>

Written(view, S) == [r \in Mirrored |-> IF r \in S THEN view[r] ELSE files[r]]

Write(t) ==
    /\ threads[t].at = "gathered"
    /\ files' = Written(threads[t].view, DOMAIN threads[t].view)
    /\ Goes(t, "written")
    /\ UNCHANGED <<rows, entries, jobs, booting, adrift, events>>

Projected(t) ==
    {r \in DOMAIN threads[t].view \cap Chapters : threads[t].view[r] # None}

Ends(t, status) ==
    /\ jobs' = [jobs EXCEPT ![Head1(t)].status = status]
    /\ threads' = [threads EXCEPT ![t] = Next1(t)]

(* The update of a chapter that is gone fails the whole commit; a job that *)
(* another thread had completed before it was read is left as it is.       *)
Finish(t) ==
    /\ threads[t].at = "written"
    /\ Place(Projected(t))
    /\ Ends(t, IF threads[t].seen = None THEN "completed" ELSE jobs[Head1(t)].status)
    /\ UNCHANGED <<files, booting, adrift, events>>

(* A projection fails after some of its files, or at its last commit.      *)
Fail(t) ==
    /\ threads[t].at \in {"taken", "gathered", "written"}
    /\ IF threads[t].at = "gathered"
       THEN \E S \in SUBSET DOMAIN threads[t].view : files' = Written(threads[t].view, S)
       ELSE UNCHANGED files
    /\ Ends(t, "failed")
    /\ Counted
    /\ UNCHANGED <<rows, entries, booting, adrift>>

(* The commit that takes a job finds no lease: the others are not run.     *)
GiveUp(t) ==
    /\ threads[t].at = "looked"
    /\ threads' = [threads EXCEPT ![t] = Resting]
    /\ Counted
    /\ UNCHANGED <<rows, entries, jobs, files, booting, adrift>>

(***************************************************************************)
(* Restart                                                                 *)
(***************************************************************************)
Interrupted ==
    [i \in DOMAIN jobs |-> IF jobs[i].status = "running"
                           THEN [jobs[i] EXCEPT !.status = "failed"] ELSE jobs[i]]

Unmirrored == rows[Project] # None /\ files[Project] = None

Queued == IF Unmirrored THEN Enqueued(Interrupted, Rebuild) ELSE Interrupted

(* Numbers in their order.                                                 *)
InOrder(S) ==
    [n \in 1..Cardinality(S) |-> CHOOSE i \in S : Cardinality({j \in S : j < i}) = n - 1]

(* A project without a manifest is mirrored again first; then the open     *)
(* jobs are run in the order they were created: of those that had failed,  *)
(* the ones whose waiting time is over.                                    *)
Recovery(waiting) ==
    LET first == IF Unmirrored THEN <<Max(Openings(Queued, Rebuild))>> ELSE <<>>
    IN first \o InOrder(
           {i \in DOMAIN Queued \ (ToSet(first) \cup waiting) :
                Queued[i].status \in OpenStatuses /\ Queued[i].tries < TryLimit})

Restart ==
    /\ Counted
    /\ jobs' = Queued
    /\ \E waiting \in SUBSET {i \in DOMAIN jobs : jobs[i].status = "failed"} :
          threads' = [t \in Workers |->
              IF t = Boot THEN [Resting EXCEPT !.todo = Recovery(waiting)] ELSE Resting]
    /\ booting' = TRUE
    /\ UNCHANGED <<rows, entries, files, adrift>>

(* The start-up recovery ends with the purge of what has expired.          *)
Started ==
    /\ booting /\ threads[Boot] = Resting
    /\ booting' = FALSE
    /\ rows' = Purged(Expired)
    /\ entries' = entries \ Expired
    /\ UNCHANGED <<jobs, files, threads, adrift, events>>

(***************************************************************************)
(* The specification                                                       *)
(***************************************************************************)
(* A project with all its rows: mirrored, and the app is serving, or never *)
(* mirrored, and the app starts on it.                                     *)
Init ==
    /\ \E mirrored \in BOOLEAN, text \in Texts \ {Discarded} :
         /\ rows = [r \in Rows |-> [text |-> text, refs |-> Mentions[r], due |-> FALSE,
                                    placed |-> mirrored, stamp |-> 0]]
         /\ files = [r \in Mirrored |-> IF mirrored THEN text ELSE None]
         /\ jobs = IF mirrored THEN <<>> ELSE <<Rebuild>>
         /\ threads = [t \in Workers |-> IF mirrored \/ t # Boot THEN Resting
                                         ELSE [Resting EXCEPT !.todo = <<1>>]]
         /\ booting = ~mirrored
    /\ entries = {}
    /\ adrift = {} /\ events = 0

Authors(t) ==
    \/ \E c \in Chapters : Saves(t, c)
    \/ \E r \in Deletable : Deletes(t, r)
    \/ \E e \in entries : Restores(t, e) \/ Purges(t, e)
    \/ Lists(t)

Runs(t) == Look(t) \/ Take(t) \/ Gather(t) \/ Write(t) \/ Finish(t) \/ Fail(t) \/ GiveUp(t)

Next ==
    \/ \E t \in Threads : Authors(t)
    \/ \E t \in Workers : Runs(t)
    \/ \E e \in entries : Expires(e)
    \/ Restart
    \/ Started

Spec == Init /\ [][Next]_vars

(***************************************************************************)
(* Properties                                                              *)
(***************************************************************************)
Settled ==
    /\ \A i \in DOMAIN jobs : jobs[i].status \in {"completed", "cancelled"}
    /\ \A t \in Workers : threads[t] = Resting

(* Once no job is open, the files are the rows': every row that is there   *)
(* has its text in its file and no row that is gone has a file, whatever   *)
(* was saved, deleted, restored, failed or interrupted in between.         *)
MirrorSettles ==
    Settled => \A r \in Mirrored \ adrift :
                  files[r] = IF rows[r] = None THEN None ELSE rows[r].text
=============================================================================
