--------------------------- MODULE CatalogingJobs ---------------------------
(***************************************************************************)
(* Jobs that catalog the chapters of a novel into its archive              *)
(* (services/cataloging): the job and its chapter runs, the asyncio worker *)
(* that has a model plan one chapter after the other and writes each plan  *)
(* into the archive, the author who reviews, pauses, retries and cancels,  *)
(* and the chapters the author keeps saving meanwhile.                     *)
(*                                                                         *)
(* Every process has one event loop: its steps run up to the next await.   *)
(* A worker that holds the loop is at "loop", "planned", "review", "apply" *)
(* or "applied", each of them a commit away from the next.                 *)
(***************************************************************************)
EXTENDS Naturals, FiniteSetsExt

CONSTANTS
    MaxJobs,     \* jobs that may be created, numbered in creation order
    Length,      \* chapters of the novel, numbered in reading order
    Procs,       \* processes on the database: the desktop, an MCP server
    Desktop,     \* the process the author saves chapters in
    MaxVersion,  \* bound on the version at which a chapter is still saved
    MaxAttempts, \* CATALOGING_STAGE_MAX_ATTEMPTS
    Attended,    \* jobs the author reviews: edits plans, chooses and changes the mode
    Phoned,      \* jobs a phone may bring
    Hurried      \* jobs whose author acts while their worker holds the loop or stops

ASSUME CatalogingAssumption ==
    /\ MaxJobs \in Nat \ {0} /\ Length \in Nat \ {0}
    /\ MaxVersion \in Nat \ {0} /\ MaxAttempts \in Nat \ {0}
    /\ Desktop \in Procs
    /\ Attended \cup Phoned \cup Hurried \subseteq 1 .. MaxJobs

Jobs == 1 .. MaxJobs
Chapters == 1 .. Length

VARIABLES
    chapter, \* chapters: version, version of the text, cataloging_required,
             \* and the text the archive describes (0: none)
    job,     \* cataloging_jobs, with the status its operation shows
    run,     \* cataloging_chapter_runs: status, source version, plan
    task     \* _LAUNCH_TASKS of each process

vars == <<chapter, job, run, task>>

JobStatus == {"queued", "running", "waiting_confirmation", "paused",
              "paused_on_failure", "completed", "failed", "cancelled"}
Working == {"queued", "running"}
Closed == {"completed", "failed", "cancelled"}
Ended == {"absent", "completed", "skipped_by_user"}

AbsentJob == [status |-> "absent", mode |-> "auto", source |-> "manual", op |-> "absent"]
AbsentRun == [status |-> "absent", version |-> 0, plan |-> "none", applied |-> FALSE]
NoTask == [at |-> "none", chapter |-> 1, tries |-> 0,
           cancel |-> FALSE, err |-> FALSE, next |-> FALSE]

Init ==
    /\ chapter = [c \in Chapters |-> [version |-> 1, text |-> 1,
                                      required |-> TRUE, summary |-> 0]]
    /\ job = [j \in Jobs |-> AbsentJob]
    /\ run = [j \in Jobs |-> [c \in Chapters |-> AbsentRun]]
    /\ task = [p \in Procs |-> [j \in Jobs |-> NoTask]]

-----------------------------------------------------------------------------
(* What the operations on a job have in common.                            *)

Unfinished(j) == {c \in Chapters : run[j][c].status \notin Ended}

RunsIn(j, S) == {c \in Chapters : run[j][c].status \in S}

(* first_blocking_run, first_retryable_run, first_plan_candidate           *)
Blocking(j)  == RunsIn(j, {"failed", "awaiting_confirmation"})
Retryable(j) == RunsIn(j, {"failed", "awaiting_confirmation", "extracting"})
Planned(j)   == RunsIn(j, {"extracting", "awaiting_confirmation", "failed", "completed"})

(* validate_cataloging_run_source                                          *)
Current(j, c) == run[j][c].version = chapter[c].version

(* _check_active_job                                                       *)
Active(j) == job[j].status \in Working

(* OPERATION_STATUS_BY_JOB_STATUS                                          *)
OperationStatus(status) ==
    CASE status = "waiting_confirmation" -> "waiting_user"
      [] status = "paused_on_failure"    -> "paused"
      [] OTHER                           -> status

(* refresh_job_progress shows the job's status in its operation.           *)
Shown(r) == [r EXCEPT !.op = OperationStatus(r.status)]

Becomes(j, status) == [job EXCEPT ![j] = Shown([@ EXCEPT !.status = status])]

RunBecomes(j, c, status) == [run EXCEPT ![j][c].status = status]

(* Fault: a completed job releases all its chapters.                       *)
ReleasedAll(chapters, runs) ==
    [c \in Chapters |-> IF runs[c].status # "absent"
                        THEN [chapters[c] EXCEPT !.required = FALSE] ELSE chapters[c]]

(* A completed job releases the chapters it cataloged at their version.    *)
Released(chapters, runs) ==
    [c \in Chapters |->
        IF runs[c].status = "completed" /\ runs[c].version = chapters[c].version
        THEN [chapters[c] EXCEPT !.required = FALSE] ELSE chapters[c]]

(* _cancel_failed_jobs_replaced_by: older failures all of whose open       *)
(* chapters the completed job has cataloged.                               *)
ReplacedBy(j, runs) ==
    {k \in Jobs : /\ k < j /\ job[k].status = "paused_on_failure"
                  /\ Unfinished(k) # {}
                  /\ \A c \in Unfinished(k) :
                        /\ runs[c].status = "completed"
                        /\ run[k][c].version =< runs[c].version}

(* A cancelled task is resumed with the cancellation; the registry drops   *)
(* the one that waits for it.                                              *)
Stopped(p, js) ==
    [task EXCEPT ![p] = [k \in Jobs |->
        IF k \in js /\ task[p][k].at # "none"
        THEN [task[p][k] EXCEPT !.cancel = TRUE, !.next = FALSE] ELSE task[p][k]]]

(* queue_cataloging_job keeps a task that is not being cancelled, and has  *)
(* a new one wait for a task that is.                                      *)
Queue(p, j) ==
    IF task[p][j].at = "none" THEN [task EXCEPT ![p][j] = [NoTask EXCEPT !.at = "queued"]]
    ELSE IF task[p][j].cancel THEN [task EXCEPT ![p][j].next = TRUE]
    ELSE task

(* complete_cataloging_job, by a caller in process p.                      *)
CompleteJob(p, j, chapters, runs) ==
    LET replaced == ReplacedBy(j, runs) IN
    /\ job' = [k \in Jobs |->
                 CASE k = j          -> Shown([job[k] EXCEPT !.status = "completed"])
                   [] k \in replaced -> Shown([job[k] EXCEPT !.status = "cancelled"])
                   [] OTHER          -> job[k]]
    /\ run' = [run EXCEPT ![j] = runs]
    /\ chapter' = Released(chapters, runs)

(* Fault: the run the worker was at is left as it is.                      *)
WorkerFailedQuietly(j) == job' = Becomes(j, "paused_on_failure") /\ UNCHANGED run

(* _pause_failed_worker                                                    *)
WorkerFailed(j) ==
    /\ job' = Becomes(j, "paused_on_failure")
    /\ run' = IF Unfinished(j) = {} THEN run
              ELSE RunBecomes(j, Min(Unfinished(j)), "failed")

-----------------------------------------------------------------------------
(* The worker.                                                             *)

(* Where a task lets other coroutines of its process run.                  *)
Awaiting == {"none", "queued", "model", "backoff", "exit"}
LoopFree(p) == \A j \in Jobs : task[p][j].at \in Awaiting

(* The step of job j's task in process p that starts at s.                 *)
Step(p, j, s) ==
    /\ task[p][j].at = s
    /\ s \in Awaiting => LoopFree(p) /\ ~task[p][j].cancel

Goto(p, j, s) ==
    task' = [task EXCEPT ![p][j].at = s,
                         ![p][j].tries = IF s = "backoff" THEN @ ELSE 0]

(* The stream closes: its finally clause awaits the heartbeat.             *)
Exit(p, j, err) ==
    task' = [task EXCEPT ![p][j].at = "exit", ![p][j].tries = 0, ![p][j].err = err]

(* Fault: only the queue of its process keeps a worker from starting.      *)
LeasedNever(p, j) == FALSE

(* run_cataloging_job: a worker of another process keeps its lease.        *)
Leased(p, j) == \E q \in Procs \ {p} : task[q][j].at \notin {"none", "queued"}

Begin(p, j) ==
    /\ Step(p, j, "queued")
    /\ IF Active(j) /\ ~Leased(p, j) THEN Goto(p, j, "loop")
       ELSE task' = [task EXCEPT ![p][j] = NoTask]
    /\ UNCHANGED <<chapter, job, run>>

(* A task that is cancelled before it starts leaves nothing behind.        *)
Vanish(p, j) ==
    /\ task[p][j].at = "queued" /\ task[p][j].cancel /\ LoopFree(p)
    /\ task' = [task EXCEPT ![p][j] =
                  IF @.next THEN [NoTask EXCEPT !.at = "queued"] ELSE NoTask]
    /\ UNCHANGED <<chapter, job, run>>

(* stream_cataloging_job: one turn of its loop.                            *)
Stops(p, j) ==
    /\ Step(p, j, "loop")
    /\ job[j].status \in Closed \cup {"paused", "paused_on_failure"}
    /\ job' = Becomes(j, job[j].status)
    /\ chapter' = IF job[j].status = "completed" THEN Released(chapter, run[j]) ELSE chapter
    /\ Exit(p, j, FALSE)
    /\ UNCHANGED run

Turn(p, j) ==
    /\ Step(p, j, "loop")
    /\ job[j].status \notin Closed \cup {"paused", "paused_on_failure"}

Completes(p, j) ==
    /\ Turn(p, j) /\ Unfinished(j) = {}
    /\ CompleteJob(p, j, chapter, run[j])
    /\ task' = [Stopped(p, ReplacedBy(j, run[j])) EXCEPT ![p][j].at = "exit"]

Pauses(p, j) ==
    /\ Turn(p, j) /\ Unfinished(j) # {}
    /\ run[j][Min(Unfinished(j))].status = "failed"
    /\ job' = Becomes(j, "paused_on_failure")
    /\ Exit(p, j, FALSE)
    /\ UNCHANGED <<chapter, run>>

(* _extract_run, up to the first call of the model.                        *)
Extracts(p, j) ==
    /\ Turn(p, j) /\ Unfinished(j) # {}
    /\ LET c == Min(Unfinished(j)) IN
       /\ run[j][c].status \notin {"failed", "awaiting_confirmation"}
       /\ IF Active(j) /\ Current(j, c)
          THEN /\ run' = RunBecomes(j, c, "extracting")
               /\ job' = [job EXCEPT ![j].status = "running"]
               /\ task' = [task EXCEPT ![p][j].at = "model", ![p][j].chapter = c]
          ELSE Exit(p, j, TRUE) /\ UNCHANGED <<run, job>>
    /\ UNCHANGED chapter

(* The job was paused or closed while the model was running.               *)
CallStopped(p, j) ==
    /\ Step(p, j, "model") /\ ~Active(j)
    /\ Goto(p, j, "review")
    /\ UNCHANGED <<chapter, job, run>>

(* The submission tool takes the chapter's plan only in its turn.          *)
Submits(p, j, c) ==
    /\ Step(p, j, "model") /\ Active(j)
    /\ c = task[p][j].chapter
    /\ run[j][c].status \in {"pending", "extracting"}
    /\ \A d \in Unfinished(j) : c =< d
    /\ Current(j, c)
    /\ UNCHANGED chapter

SavePlan(p, j, c) ==
    /\ Submits(p, j, c)
    /\ run' = [run EXCEPT ![j][c].status = "extracting", ![j][c].plan = "partial"]
    /\ job' = [job EXCEPT ![j].status = "running"]
    /\ UNCHANGED task

FinalizePlan(p, j, c) ==
    /\ Submits(p, j, c)
    /\ run' = [run EXCEPT ![j][c].status = "awaiting_confirmation", ![j][c].plan = "complete"]
    /\ job' = [job EXCEPT ![j].status = "waiting_confirmation"]
    /\ Goto(p, j, "planned")

(* The provider fails, or the model does not get its plan accepted.        *)
CallFails(p, j) ==
    /\ Step(p, j, "model") /\ Active(j)
    /\ run' = RunBecomes(j, task[p][j].chapter, "failed")
    /\ job' = [job EXCEPT ![j].status = "paused_on_failure"]
    /\ Goto(p, j, "loop")
    /\ UNCHANGED chapter

(* The worker takes a finalized plan over: the job is running again,       *)
(* whatever became of it since the plan was committed.                     *)
TakesOver(p, j) ==
    /\ Step(p, j, "planned")
    /\ LET c == task[p][j].chapter IN
       CASE run[j][c].status = "awaiting_confirmation" ->
              /\ job' = [job EXCEPT ![j].status = "running"]
              /\ Goto(p, j, "review") /\ UNCHANGED run
         [] run[j][c].status # "awaiting_confirmation" /\ Active(j) ->
              /\ run' = RunBecomes(j, c, "failed")
              /\ job' = [job EXCEPT ![j].status = "paused_on_failure"]
              /\ Goto(p, j, "loop")
         [] OTHER -> Exit(p, j, TRUE) /\ UNCHANGED <<job, run>>
    /\ UNCHANGED chapter

(* What the stream does once the chapter was planned.                      *)
ReviewStops(p, j) ==
    /\ Step(p, j, "review")
    /\ \/ job[j].status \in {"cancelled", "paused"} /\ Exit(p, j, FALSE)
       \/ /\ job[j].status \notin {"cancelled", "paused"}
          /\ run[j][task[p][j].chapter].status = "failed"
          /\ Goto(p, j, "loop")
    /\ UNCHANGED <<chapter, job, run>>

(* The run to review: the one just planned, or one found by the loop.      *)
ToReview(p, j, c) ==
    \/ /\ Turn(p, j) /\ Unfinished(j) # {} /\ c = Min(Unfinished(j))
       /\ run[j][c].status = "awaiting_confirmation"
    \/ /\ Step(p, j, "review") /\ job[j].status \notin {"cancelled", "paused"}
       /\ c = task[p][j].chapter
       /\ run[j][c].status # "failed"

WaitsForAuthor(p, j, c) ==
    /\ ToReview(p, j, c)
    /\ run[j][c].status = "awaiting_confirmation" /\ job[j].mode = "manual"
    /\ job' = Becomes(j, "waiting_confirmation")
    /\ Exit(p, j, FALSE)
    /\ UNCHANGED <<chapter, run>>

(* _apply_run                                                              *)
StartsApplying(p, j, c) ==
    /\ ToReview(p, j, c)
    /\ run[j][c].status = "awaiting_confirmation" => job[j].mode = "auto"
    /\ IF Active(j)
       THEN /\ run' = RunBecomes(j, c, "applying")
            /\ job' = [job EXCEPT ![j].status = "running"]
            /\ task' = [task EXCEPT ![p][j].at = "apply", ![p][j].chapter = c,
                                    ![p][j].tries = 1]
       ELSE Exit(p, j, TRUE) /\ UNCHANGED <<run, job>>
    /\ UNCHANGED chapter

(* apply_candidates_for_run: the archive describes the chapter's text.     *)
Described(c) == [chapter EXCEPT ![c].summary = chapter[c].text]

Applies(p, j) ==
    /\ Step(p, j, "apply")
    /\ LET c == task[p][j].chapter IN
       /\ Active(j) /\ Current(j, c) /\ run[j][c].plan = "complete"
       /\ chapter' = Described(c)
       /\ run' = [run EXCEPT ![j][c].applied = TRUE]
    /\ Goto(p, j, "applied")
    /\ UNCHANGED job

(* A plan that cannot be written is rolled back as a whole.                *)
ApplyFails(p, j) ==
    /\ Step(p, j, "apply")
    /\ Active(j) /\ Current(j, task[p][j].chapter)
    /\ run' = RunBecomes(j, task[p][j].chapter, "failed")
    /\ job' = Becomes(j, "paused_on_failure")
    /\ Goto(p, j, "loop")
    /\ UNCHANGED chapter

ApplyRaises(p, j) ==
    /\ Step(p, j, "apply")
    /\ ~Active(j) \/ ~Current(j, task[p][j].chapter) \/ task[p][j].tries = MaxAttempts
    /\ Exit(p, j, TRUE)
    /\ UNCHANGED <<chapter, job, run>>

(* Another writer holds the database: the worker sleeps and tries again.   *)
BacksOff(p, j) ==
    /\ Step(p, j, "apply")
    /\ Active(j) /\ Current(j, task[p][j].chapter) /\ task[p][j].tries < MaxAttempts
    /\ Goto(p, j, "backoff")
    /\ UNCHANGED <<chapter, job, run>>

TriesAgain(p, j) ==
    /\ Step(p, j, "backoff")
    /\ task' = [task EXCEPT ![p][j].at = "apply", ![p][j].tries = @ + 1]
    /\ UNCHANGED <<chapter, job, run>>

Finishes(p, j) ==
    /\ Step(p, j, "applied")
    /\ run' = RunBecomes(j, task[p][j].chapter, "completed")
    /\ job' = Becomes(j, job[j].status)
    /\ Goto(p, j, "loop")
    /\ UNCHANGED chapter

(* The cancellation reaches the worker where it waits.                     *)
Unwinds(p, j) ==
    /\ task[p][j].at \in {"model", "backoff"} /\ task[p][j].cancel /\ LoopFree(p)
    /\ Exit(p, j, TRUE)
    /\ UNCHANGED <<chapter, job, run>>

(* Fault: a worker that did not end by itself leaves the job as it is.     *)
LeavesQuietly(p, j) ==
    /\ task[p][j].at = "exit" /\ LoopFree(p)
    /\ task' = [task EXCEPT ![p][j] =
                  IF @.next THEN [NoTask EXCEPT !.at = "queued"] ELSE NoTask]
    /\ UNCHANGED <<chapter, job, run>>

(* The worker did not end by itself, and its job is still working.         *)
LeavesWork(p, j) == (task[p][j].cancel \/ task[p][j].err) /\ Active(j)

(* run_cataloging_job: the job of such a worker is left to be retried;     *)
(* mark_cataloging_worker_failure.                                         *)
Leaves(p, j) ==
    /\ task[p][j].at = "exit" /\ LoopFree(p)
    /\ IF LeavesWork(p, j) THEN WorkerFailed(j) ELSE UNCHANGED <<job, run>>
    /\ task' = [task EXCEPT ![p][j] =
                  IF @.next THEN [NoTask EXCEPT !.at = "queued"] ELSE NoTask]
    /\ UNCHANGED chapter

(* The failure cannot be written down either: the job goes on saying that  *)
(* it works. A task that was lost like this is remembered by its error.    *)
LeavesUnrecorded(p, j) ==
    /\ task[p][j].at = "exit" /\ LoopFree(p) /\ LeavesWork(p, j)
    /\ task' = [task EXCEPT ![p][j] =
                  IF @.next THEN [NoTask EXCEPT !.at = "queued"] ELSE [NoTask EXCEPT !.err = TRUE]]
    /\ UNCHANGED <<chapter, job, run>>

-----------------------------------------------------------------------------
(* Starting jobs.                                                          *)

(* The runs that already do, or have done, what is asked for a chapter.    *)
Reusable(c) ==
    {j \in Jobs : /\ job[j].status \notin {"absent", "failed", "cancelled"}
                  /\ run[j][c].status \notin {"absent", "failed", "skipped_by_user"}
                  /\ Current(j, c)}

Missing(S) == {c \in S : Reusable(c) = {}}

(* Nothing is started while a chapter asked for is being worked on.        *)
Startable(S) ==
    /\ Missing(S) # {}
    /\ \A c \in S \ Missing(S) : \E j \in Reusable(c) : run[j][c].status = "completed"

NextJob(j) ==
    /\ job[j].status = "absent"
    /\ \A k \in Jobs : k < j => job[k].status # "absent"

(* cancel_superseded_chapter_cataloging_jobs                               *)
Superseded(S) ==
    {j \in Jobs : /\ job[j].source = "save" /\ job[j].status \notin Closed \cup {"absent"}
                  /\ \E c \in S : run[j][c].status # "absent"}

(* create_and_queue_cataloging_job                                         *)
Start(p, j, S, mode, source) ==
    /\ LoopFree(p) /\ NextJob(j) /\ Startable(S)
    /\ LET old == IF source = "save" THEN Superseded(Missing(S)) ELSE {} IN
       /\ job' = [k \in Jobs |->
                    CASE k = j     -> [status |-> "queued", mode |-> mode,
                                       source |-> source, op |-> "queued"]
                      [] k \in old -> Shown([job[k] EXCEPT !.status = "cancelled"])
                      [] OTHER     -> job[k]]
       /\ run' = [run EXCEPT ![j] = [c \in Chapters |->
                    IF c \in Missing(S)
                    THEN [AbsentRun EXCEPT !.status = "pending", !.version = chapter[c].version]
                    ELSE AbsentRun]]
       /\ task' = [Stopped(p, old) EXCEPT ![p][j] = [NoTask EXCEPT !.at = "queued"]]
    /\ UNCHANGED chapter

StartManual(p, j) ==
    \E S \in SUBSET Chapters \ {{}}, mode \in {"auto", "manual"} :
        (mode = "manual" => j \in Attended) /\ Start(p, j, S, mode, "manual")

(* The saved chapter and the later ones that still need cataloging.        *)
StartSaved(j) ==
    \E c \in Chapters :
        LET suffix == {d \in Chapters : d >= c /\ chapter[d].required} IN
        Start(Desktop, j, IF suffix = {} THEN {c} ELSE suffix, "auto", "save")

(* commit_mobile_cataloging: a phone brings a finished plan; the request   *)
(* of a failed or cancelled attempt may come again.                        *)
MobileRequest(j, c, v) ==
    /\ j \in Phoned /\ v \in 1 .. chapter[c].version
    /\ NextJob(j) \/ (/\ job[j].source = "mobile" /\ job[j].status \in {"failed", "cancelled"}
                      /\ run[j][c].version = v)
    /\ \A k \in Jobs : job[k].status \in Closed \cup {"absent"}
    /\ LoopFree(Desktop)

MobileRun(c, v, status) == [AbsentRun EXCEPT !.status = status, !.version = v]

MobileCommit(j, c) ==
    /\ MobileRequest(j, c, chapter[c].version)
    /\ LET done == [run[j] EXCEPT ![c] =
                      [status |-> "completed", version |-> chapter[c].version,
                       plan |-> "complete", applied |-> TRUE]] IN
       /\ job' = [job EXCEPT ![j] = [status |-> "completed", mode |-> "auto",
                                     source |-> "mobile", op |-> "completed"]]
       /\ run' = [run EXCEPT ![j] = done]
       /\ chapter' = Released(Described(c), done)
    /\ UNCHANGED task

MobileRefused(j, c, v) ==
    /\ MobileRequest(j, c, v)
    /\ job' = [job EXCEPT ![j] = [status |-> "failed", mode |-> "auto",
                                  source |-> "mobile", op |-> "failed"]]
    /\ run' = [run EXCEPT ![j][c] = MobileRun(c, v, "failed")]
    /\ UNCHANGED <<chapter, task>>

-----------------------------------------------------------------------------
(* The author's controls.                                                  *)

(* A coroutine needs the event loop of its process; the desktop runs       *)
(* synchronous handlers in a thread.                                       *)
Unhurried(p, j) == j \in Hurried \/ ~(task[p][j].at = "exit" \/ task[p][j].cancel)
Coroutine(p, j) == LoopFree(p) /\ Unhurried(p, j)
Handler(p, j) ==
    /\ LoopFree(p) \/ (p = Desktop /\ j \in Hurried)
    /\ Unhurried(p, j)

Pause(p, j) ==
    /\ Handler(p, j)
    /\ job[j].status \in {"queued", "running", "waiting_confirmation"}
    /\ job' = Becomes(j, "paused")
    /\ task' = Stopped(p, {j})
    /\ UNCHANGED <<chapter, run>>

Resume(p, j) ==
    /\ Coroutine(p, j) /\ job[j].status = "paused"
    /\ job' = Becomes(j, "running")
    /\ task' = Queue(p, j)
    /\ UNCHANGED <<chapter, run>>

Cancel(p, j) ==
    /\ Handler(p, j) /\ job[j].status \notin {"absent", "completed", "cancelled"}
    /\ job' = Becomes(j, "cancelled")
    /\ task' = Stopped(p, {j})
    /\ UNCHANGED <<chapter, run>>

(* Automatic review resumes a job that waits for the author.               *)
SetMode(p, j, mode) ==
    /\ Coroutine(p, j) /\ job[j].status # "absent" /\ job[j].mode # mode
    /\ j \in Attended
    /\ LET resumes == job[j].status = "waiting_confirmation" /\ mode = "auto"
           r == [job[j] EXCEPT !.mode = mode] IN
       /\ job' = [job EXCEPT ![j] = IF resumes THEN Shown([r EXCEPT !.status = "running"]) ELSE r]
       /\ task' = IF resumes THEN Queue(p, j) ELSE task
    /\ UNCHANGED <<chapter, run>>

(* Candidates are edited, rejected or added by hand at any time.           *)
EditPlan(j, c, plan) ==
    /\ run[j][c].status # "absent" /\ run[j][c].plan # plan
    /\ Handler(Desktop, j) /\ j \in Attended
    /\ run' = [run EXCEPT ![j][c].plan = plan]
    /\ UNCHANGED <<chapter, job, task>>

(* The job goes on with run c in another state, and its worker is queued.  *)
GoesOn(p, j, c, r) ==
    /\ run' = [run EXCEPT ![j][c] = r]
    /\ job' = Becomes(j, "running")
    /\ task' = Queue(p, j)
    /\ UNCHANGED chapter

(* A repair keeps the plan, a retry discards one that was not applied.     *)
Repaired(r) == [r EXCEPT !.status = "extracting"]
Reset(r) == IF r.applied THEN Repaired(r) ELSE [r EXCEPT !.status = "pending", !.plan = "none"]

Retry(p, j) ==
    /\ Coroutine(p, j) /\ Retryable(j) # {}
    /\ LET c == Min(Retryable(j)) IN
       /\ Current(j, c) /\ job[j].status \notin {"completed", "cancelled"}
       /\ GoesOn(p, j, c, Reset(run[j][c]))

(* Fault: a plan of any job is repaired.                                   *)
RepairAny(p, j) ==
    /\ Coroutine(p, j) /\ Planned(j) # {}
    /\ LET c == Min(IF Blocking(j) # {} THEN Blocking(j) ELSE Planned(j)) IN
       Current(j, c) /\ GoesOn(p, j, c, Repaired(run[j][c]))

Repair(p, j) ==
    /\ Coroutine(p, j) /\ Planned(j) # {}
    /\ LET c == Min(IF Blocking(j) # {} THEN Blocking(j) ELSE Planned(j)) IN
       /\ Current(j, c) /\ job[j].status # "cancelled"
       /\ GoesOn(p, j, c, Repaired(run[j][c]))

(* lock_review_control                                                     *)
Reviewable(j) == job[j].status \in {"paused_on_failure", "waiting_confirmation"}

Skip(p, j) ==
    /\ Coroutine(p, j) /\ Blocking(j) # {} /\ Reviewable(j)
    /\ LET c == Min(Blocking(j)) IN
       GoesOn(p, j, c, [run[j][c] EXCEPT !.status = "skipped_by_user"])

(* A failed chapter whose plan is complete goes back to the author.        *)
Recover(j) ==
    /\ Handler(Desktop, j) /\ Blocking(j) # {} /\ Reviewable(j)
    /\ LET c == Min(Blocking(j)) IN
       /\ run[j][c].status = "failed" /\ run[j][c].plan = "complete"
       /\ run' = RunBecomes(j, c, "awaiting_confirmation")
    /\ job' = Becomes(j, "waiting_confirmation")
    /\ UNCHANGED <<chapter, task>>

(* apply_pending_cataloging_run                                            *)
ToApply(p, j, c) ==
    /\ Coroutine(p, j) /\ RunsIn(j, {"awaiting_confirmation"}) # {}
    /\ c = Min(RunsIn(j, {"awaiting_confirmation"}))
    /\ run[j][c].plan = "complete" /\ Current(j, c)
    /\ job[j].status \notin {"cancelled", "paused"}

ApplyPending(p, j, c) ==
    /\ ToApply(p, j, c)
    /\ LET done == [run[j] EXCEPT ![c].status = "completed", ![c].applied = TRUE] IN
       IF Unfinished(j) = {c}
       THEN /\ CompleteJob(p, j, Described(c), done)
            /\ task' = Stopped(p, ReplacedBy(j, done))
       ELSE /\ job' = Becomes(j, "running")
            /\ run' = [run EXCEPT ![j] = done]
            /\ chapter' = Described(c)
            /\ task' = Queue(p, j)

ApplyPendingFails(p, j, c) ==
    /\ ToApply(p, j, c)
    /\ run' = RunBecomes(j, c, "failed")
    /\ job' = Becomes(j, "paused_on_failure")
    /\ UNCHANGED <<chapter, task>>

-----------------------------------------------------------------------------
(* Chapters and processes.                                                 *)

(* A chapter is polished: the archive still describes it.                  *)
Polish(c) ==
    /\ LoopFree(Desktop) /\ chapter[c].version < MaxVersion
    /\ chapter' = [chapter EXCEPT ![c].version = @ + 1]
    /\ UNCHANGED <<job, run, task>>

(* invalidate_cataloging_audit: jobs with a run of a chapter in S.         *)
Invalidated(S) == {j \in Jobs : \E c \in S : run[j][c].status # "absent"}

(* A chapter is rewritten: it and all later chapters leave the archive,    *)
(* and their runs and jobs end, the completed ones too.                    *)
Rewrite(c) ==
    /\ LoopFree(Desktop) /\ chapter[c].version < MaxVersion
    /\ LET S == {d \in Chapters : d >= c}
           js == Invalidated(S) IN
       /\ chapter' = [d \in Chapters |->
                        IF d \notin S THEN chapter[d]
                        ELSE [version |-> chapter[d].version + (IF d = c THEN 1 ELSE 0),
                              text |-> chapter[d].text + (IF d = c THEN 1 ELSE 0),
                              required |-> TRUE, summary |-> 0]]
       /\ job' = [j \in Jobs |-> IF j \in js THEN [job[j] EXCEPT !.status = "cancelled"] ELSE job[j]]
       /\ run' = [j \in Jobs |-> [d \in Chapters |->
                    IF d \in S /\ run[j][d].status # "absent"
                    THEN [run[j][d] EXCEPT !.status = "skipped_by_user",
                                           !.plan = "none", !.applied = FALSE]
                    ELSE run[j][d]]]
       /\ task' = Stopped(Desktop, js)

(* Fault: jobs whose worker was still queued are not taken for lost.       *)
LostRunning(j) == job[j].status = "running" /\ job[j].source # "mobile"

(* Fault: the start leaves operations behind their jobs.                   *)
ReconciledNot(r) == r

(* A process ends with its workers; the desktop pauses what they left,     *)
(* brings the operations up to date and ends those that still work.        *)
Lost(j) == job[j].status \in Working /\ job[j].source # "mobile"

Reconciled(r) == [Shown(r) EXCEPT !.op = IF @ \in Working THEN "interrupted" ELSE @]

Restart(p) ==
    /\ task' = [task EXCEPT ![p] = [j \in Jobs |-> NoTask]]
    /\ IF p = Desktop
       THEN /\ job' = [j \in Jobs |->
                         IF Lost(j) THEN Shown([job[j] EXCEPT !.status = "paused_on_failure"])
                         ELSE Reconciled(job[j])]
            /\ run' = [j \in Jobs |->
                         IF Lost(j) /\ Unfinished(j) # {}
                         THEN [run[j] EXCEPT ![Min(Unfinished(j))].status = "failed"] ELSE run[j]]
       ELSE UNCHANGED <<job, run>>
    /\ UNCHANGED chapter

-----------------------------------------------------------------------------
(* The steps of a worker that bring it on: the loop runs what is ready, a  *)
(* call of the model ends within its timeout and its number of steps.      *)
Progress(p, j) ==
    \/ Begin(p, j) \/ Vanish(p, j) \/ Stops(p, j) \/ Completes(p, j) \/ Pauses(p, j)
    \/ Extracts(p, j) \/ CallStopped(p, j) \/ CallFails(p, j)
    \/ TakesOver(p, j) \/ ReviewStops(p, j)
    \/ \E c \in Chapters : FinalizePlan(p, j, c) \/ WaitsForAuthor(p, j, c) \/ StartsApplying(p, j, c)
    \/ Applies(p, j) \/ ApplyFails(p, j) \/ ApplyRaises(p, j)
    \/ BacksOff(p, j) \/ TriesAgain(p, j) \/ Finishes(p, j)
    \/ Unwinds(p, j) \/ Leaves(p, j) \/ LeavesUnrecorded(p, j)

AuthorNext(p, j) ==
    \/ StartManual(p, j)
    \/ Pause(p, j) \/ Resume(p, j) \/ Cancel(p, j)
    \/ \E mode \in {"auto", "manual"} : SetMode(p, j, mode)
    \/ Retry(p, j) \/ Repair(p, j) \/ Skip(p, j)
    \/ \E c \in Chapters : ApplyPending(p, j, c) \/ ApplyPendingFails(p, j, c)

Next ==
    \/ \E p \in Procs, j \in Jobs : Progress(p, j) \/ AuthorNext(p, j)
    \/ \E p \in Procs, j \in Jobs, c \in Chapters : SavePlan(p, j, c)
    \/ \E j \in Jobs : StartSaved(j) \/ Recover(j)
    \/ \E j \in Jobs, c \in Chapters :
          \/ \E plan \in {"partial", "complete"} : EditPlan(j, c, plan)
          \/ MobileCommit(j, c)
          \/ \E v \in 1 .. MaxVersion : MobileRefused(j, c, v)
    \/ \E c \in Chapters : Polish(c) \/ Rewrite(c)
    \/ \E p \in Procs : Restart(p)

Spec == Init /\ [][Next]_vars

FairSpec == Spec /\ \A p \in Procs, j \in Jobs : WF_vars(Progress(p, j))

-----------------------------------------------------------------------------
(* Correctness.                                                            *)

ChapterRows == [version : 1 .. MaxVersion, text : 1 .. MaxVersion,
                required : BOOLEAN, summary : 0 .. MaxVersion]

JobRows == [status : JobStatus \cup {"absent"}, mode : {"auto", "manual"},
            source : {"manual", "save", "mobile"},
            op : {"absent", "queued", "running", "waiting_user", "paused",
                  "completed", "failed", "cancelled", "interrupted"}]

RunRows == [status : {"absent", "pending", "extracting", "awaiting_confirmation",
                      "applying", "completed", "failed", "skipped_by_user"},
            version : 0 .. MaxVersion, plan : {"none", "partial", "complete"},
            applied : BOOLEAN]

TaskRows == [at : Awaiting \cup {"loop", "planned", "review", "apply", "applied"},
             chapter : Chapters, tries : 0 .. MaxAttempts,
             cancel : BOOLEAN, err : BOOLEAN, next : BOOLEAN]

(* Types: one row per job and chapter, one task per process and job.       *)
TypeOK ==
    /\ chapter \in [Chapters -> ChapterRows]
    /\ job \in [Jobs -> JobRows]
    /\ run \in [Jobs -> [Chapters -> RunRows]]
    /\ task \in [Procs -> [Jobs -> TaskRows]]

(* A chapter that is released for writing on is described by the archive   *)
(* as its text now is, whichever jobs, retries and rewrites led there.     *)
ReleasedIsDescribed ==
    \A c \in Chapters : ~chapter[c].required => chapter[c].summary = chapter[c].text

(* A job stops for a reason its author can act on: a failure has a run to  *)
(* retry or skip unless all runs ended, a review a plan to confirm.        *)
StopHasRun ==
    \A j \in Jobs :
        /\ job[j].status = "paused_on_failure" => Blocking(j) # {} \/ Unfinished(j) = {}
        /\ job[j].status = "waiting_confirmation" =>
              RunsIn(j, {"awaiting_confirmation"}) # {}

(* One process at a time works on a job.                                   *)
OneWorker ==
    \A j \in Jobs, p, q \in Procs :
        p # q => "none" \in {task[p][j].at, task[q][j].at}
                 \/ "queued" \in {task[p][j].at, task[q][j].at}

(* A job that no worker is about to change shows its status in its         *)
(* operation; jobs a rewrite closed do so after the next start.            *)
OperationFollowsJob ==
    \A j \in Jobs :
        (\A p \in Procs : task[p][j].at = "none")
        /\ job[j].status \notin Working \cup {"absent", "cancelled"}
            => job[j].op = OperationStatus(job[j].status)

(* The failure of j's worker could not be recorded, and nobody has queued  *)
(* the job since.                                                          *)
Unrecorded(j) == \E p \in Procs : task[p][j].at = "none" /\ task[p][j].err

(* A job that says it works has a worker, or had one whose failure could   *)
(* not be recorded; one that a phone completed and the author reopened     *)
(* may have lost it in a restart.                                          *)
WorkingHasWorker ==
    \A j \in Jobs : job[j].status \in Working /\ job[j].source # "mobile"
                      => Unrecorded(j) \/ \E p \in Procs : task[p][j].at # "none"

(* A job the author cancelled stays cancelled.                             *)
CancelStands ==
    [][\A j \in Jobs : job[j].status = "cancelled" /\ job[j].source # "mobile"
          => job'[j].status = "cancelled"]_vars

(* A job that works comes to an end, or stops for its author: however its  *)
(* worker ends, nothing leaves the job working with no one to bring it on, *)
(* unless that end cannot be recorded. (Of an MCP server's end only the    *)
(* next start of the desktop tells.)                                       *)
JobSettles ==
    \A j \in Jobs : (job[j].status \in Working /\ job[j].source # "mobile")
                      ~> job[j].status \notin Working \/ Unrecorded(j)
=============================================================================
