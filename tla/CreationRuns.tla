---------------------------- MODULE CreationRuns ----------------------------
(***************************************************************************)
(* Runs that generate the stages of a new novel's draft                    *)
(* (services/novel_creation_*.py, modules/operations): the run, the claim  *)
(* that admits it, the operation the author controls it with, the asyncio  *)
(* task that executes it, and the draft it shares with the author.         *)
(*                                                                         *)
(* One process with one event loop executes everything: a step runs up to  *)
(* the next await.  Between two commits of one step only a crash can come, *)
(* which is what loop records.                                             *)
(***************************************************************************)
EXTENDS Naturals

CONSTANTS
    Runs,        \* stage runs that may be created
    Keys,        \* idempotency keys clients send
    Stages,      \* stages of the draft
    Concepts,    \* the stage that a function of its own generates
    Units, Whole, \* entities of a stage, kinds of new ones; the stage as a whole
    Targets,     \* what a run may generate: stages, and what of them
    Hurried,     \* runs whose author acts while their task starts or unwinds
    MaxRevision, \* bound on the revision at which the author still saves
    MaxSaved,    \* bound on the revision at which a run still saves
    NoRun

ASSUME RunsAssumption ==
    /\ Hurried \subseteq Runs
    /\ NoRun \notin Runs \cup Keys
    /\ Runs \cap Keys = {}
    /\ Whole \in Units
    /\ Targets \subseteq [stages : SUBSET Stages, unit : Units]
    /\ MaxRevision \in Nat /\ MaxSaved \in Nat

VARIABLES
    run,      \* novel_creation_stage_runs
    claim,    \* novel_creation_run_claims, by idempotency key
    op,       \* operation_runs, by the run each belongs to
    finished, \* pairs of runs with a completed_at, the second not the earlier
    draft,    \* stages of the session's draft: revision and writer of each
    revision, \* revision of the session
    task,     \* _CREATION_TASKS
    handlers, \* runs with volatile handlers (_ACTION_HANDLERS)
    card,     \* result a card presentation was computed from, while pending
    loop,     \* what the current step of the event loop has yet to commit
    torn      \* runs that a stop of the process left between two commits

runVars  == <<run, claim, op, finished>>
draftVars == <<draft, revision>>
taskVars == <<task, handlers, card>>
vars == <<runVars, draftVars, taskVars, loop, torn>>

(* A retry through the API brings a key of its own, named after the run it *)
(* creates.                                                                *)
ClaimIds == Keys \cup Runs

Terminal == {"completed", "failed", "cancelled", "interrupted"}
Retryable == {"failed", "cancelled", "interrupted"}

Nothing == [stages |-> {}, unit |-> Whole]
NoTask  == [at |-> "none", cancel |-> FALSE, resume |-> FALSE, expected |-> 0]
AbsentRun == [status |-> "absent", target |-> Nothing, claim |-> NoRun, base |-> 0,
              done |-> {}, result |-> "none"]
AbsentClaim == [status |-> "absent", target |-> Nothing, run |-> NoRun]
AbsentOp == [status |-> "absent", pause |-> FALSE, cancel |-> FALSE, retry |-> FALSE]
IdleLoop == [at |-> "idle"]

Init ==
    /\ run = [r \in Runs |-> AbsentRun]
    /\ claim = [c \in ClaimIds |-> AbsentClaim]
    /\ op = [r \in Runs |-> AbsentOp]
    /\ finished = {}
    /\ draft = [s \in Stages |-> [version |-> 0, by |-> NoRun]]
    /\ revision = 0
    /\ task = [r \in Runs |-> NoTask]
    /\ handlers = {}
    /\ card = [r \in Runs |-> "nothing"]
    /\ loop = IdleLoop
    /\ torn = {}

Idle == loop.at = "idle"

-----------------------------------------------------------------------------
(* What the operations of a run have in common.                            *)

(* Fault: claims of runs without a task are passed over.                   *)
ActiveTasks(t) ==
    {c \in ClaimIds : /\ claim[c].status = "running" /\ claim[c].target = t
                      /\ claim[c].run # NoRun => task[claim[c].run].at # "none"}

(* Claims that admit no other run for a target; a unit of a stage and the  *)
(* stage as a whole are targets apart.                                     *)
Active(t) == {c \in ClaimIds : claim[c].status = "running" /\ claim[c].target = t}

(* Fault: the claim is not told.                                           *)
ClaimLeft(r, status) == claim

ClaimClosed(r, status) == [claim EXCEPT ![run[r].claim].status = status]

Ended == {r \in Runs : <<r, r>> \in finished}

(* completed_at is withdrawn.                                              *)
Unstamped(S) == {p \in finished : p[1] \notin S /\ p[2] \notin S}

(* completed_at is set, or set again, to the present: after all others.    *)
StampedAll(S, order) == Unstamped(S) \cup ((Ended \ S) \X S) \cup order

Stamped(r) == StampedAll({r}, {<<r, r>>})

(* update_operation: a terminal status withdraws pausing and cancelling,   *)
(* nothing ever offers them again.                                         *)
OpTo(r, status) ==
    IF op[r].status = "absent" THEN op
    ELSE [op EXCEPT ![r] = [status |-> status,
                            pause  |-> op[r].pause /\ status \notin Terminal,
                            cancel |-> op[r].cancel /\ status \notin Terminal,
                            retry  |-> op[r].retry]]

(* add_run_event: an event withdraws them from an operation that a restart *)
(* left terminal.                                                          *)
Touched(r) == OpTo(r, op[r].status)

(* complete_run and fail_run also set what the author may do next.         *)
OpToReview(r, status) ==
    IF op[r].status = "absent" THEN op
    ELSE [op EXCEPT ![r] = [status |-> status, pause |-> FALSE,
                            cancel |-> FALSE, retry |-> TRUE]]

(* schedule_run_card_presentation: at most one presentation per run; its   *)
(* worker reads the result at once and writes it back much later.          *)
CardOf(r, result) == IF card[r] = "nothing" THEN [card EXCEPT ![r] = result] ELSE card

(* schedule_creation_stage: a task that is not done yet is kept as it is.  *)
Scheduled(r, resume) ==
    IF task[r].at # "none" THEN UNCHANGED <<task, handlers>>
    ELSE /\ task' = [task EXCEPT ![r] = [NoTask EXCEPT !.at = "ready", !.resume = resume]]
         /\ handlers' = handlers \cup {r}

(* task.cancel() takes effect when the task is next resumed.               *)
Interrupted(r) == IF task[r].at = "none" THEN task ELSE [task EXCEPT ![r].cancel = TRUE]

-----------------------------------------------------------------------------
(* Creating a run.                                                         *)

(* A client starts a run, possibly repeating an earlier request: a key is  *)
(* derived from the request, or chosen for it by the client.  A run that   *)
(* generates anything of the stage, the run of the same request and the    *)
(* run that holds the target's claim are answered instead of a new one.    *)
Start(t, k) ==
    LET known == IF claim[k].status # "absent" THEN {k} ELSE Active(t)
    IN
    /\ Idle
    /\ claim[k].status # "absent" => claim[k].target = t
    /\ \A r \in Runs : ~(run[r].status = "running" /\ run[r].target.stages = t.stages)
    /\ \A c \in known : claim[c].run = NoRun
    /\ \E r \in Runs :
         /\ run[r].status = "absent"
         /\ \E c \in IF known = {} THEN {k} ELSE known :
              loop' = [at |-> "create", run |-> r, target |-> t, claim |-> c,
                       base |-> revision]
    /\ claim' = IF known = {}
                THEN [claim EXCEPT ![k] = [status |-> "running", target |-> t, run |-> NoRun]]
                ELSE claim
    /\ UNCHANGED <<run, op, finished, draftVars, taskVars>>

(* What a retry claims: the whole stage, whatever it generates of it.      *)
Widened(t) == [t EXCEPT !.unit = Whole]

(* A run that ended is retried through the API, on its own input or on the *)
(* present draft.  A claim that is held is taken over, whoever holds it.   *)
RetryAsNew(q, latest) ==
    LET t == Widened(run[q].target)
        held == Active(t)
    IN
    /\ Idle
    /\ run[q].status \in Retryable
    /\ \E r \in Runs :
         /\ run[r].status = "absent"
         /\ held = {} => claim[r].status = "absent"
         /\ \E c \in IF held = {} THEN {r} ELSE held :
              loop' = [at |-> "create", run |-> r, target |-> run[q].target, claim |-> c,
                       base |-> IF latest THEN revision ELSE run[q].base]
         /\ claim' = IF held = {}
                     THEN [claim EXCEPT ![r] = [status |-> "running", target |-> t, run |-> NoRun]]
                     ELSE claim
    /\ UNCHANGED <<run, op, finished, draftVars, taskVars>>

(* create_run, its commit, and the task.                                   *)
Create ==
    /\ loop.at = "create"
    /\ LET r == loop.run IN
         /\ run' = [run EXCEPT ![r] = [AbsentRun EXCEPT !.status = "running",
                                                        !.target = loop.target,
                                                        !.claim = loop.claim,
                                                        !.base = loop.base]]
         /\ op' = [op EXCEPT ![r] = [status |-> "running", pause |-> TRUE,
                                     cancel |-> TRUE, retry |-> FALSE]]
         /\ claim' = [claim EXCEPT ![loop.claim].run = r]
         /\ Scheduled(r, FALSE)
    /\ loop' = IdleLoop
    /\ UNCHANGED <<finished, draftVars, card>>

-----------------------------------------------------------------------------
(* The task of a run.                                                      *)

(* Fault: the fence asks the operation alone.                              *)
OperationLives(r) == op[r].status # "cancelled"

(* _ensure_stage_not_cancelled, at every boundary of a model call or save. *)
Undisturbed(r) ==
    /\ ~task[r].cancel
    /\ run[r].status \notin {"cancelled", "paused"}
    /\ op[r].status # "cancelled"

(* Fault: the save does not compare revisions.                             *)
OwnedAnyway(r) == TRUE

(* _save_with_revision_cas: the draft is as the run last read it.          *)
StillOwned(r) == revision = task[r].expected

(* The run generates concepts, which no run of all stages does.            *)
OfConcepts(r) == run[r].target.stages = {Concepts}

(* Fault: a run that goes on skips nothing.                                *)
RemainingAnew(r) == IF task[r].resume THEN run[r].target.stages
                    ELSE run[r].target.stages \ run[r].done

(* A run that goes on skips the stages its events say it has completed,    *)
(* but one of concepts never asks.                                         *)
Remaining(r) == IF OfConcepts(r) THEN {Concepts} ELSE run[r].target.stages \ run[r].done

Closing(r) == [task EXCEPT ![r] = [NoTask EXCEPT !.at = "closing"]]

Executing(r) == Idle /\ task[r].at \in {"ready", "generating"}

(* Up to the first call of the model.  A run that goes on reads the draft  *)
(* again, a new one keeps the input it was created for.                    *)
Begin(r) ==
    /\ Executing(r)
    /\ task[r].at = "ready"
    /\ Undisturbed(r)
    /\ task' = [task EXCEPT ![r] = [@ EXCEPT !.at = "generating",
                                             !.expected = IF task[r].resume THEN revision
                                                          ELSE run[r].base]]
    /\ loop' = IF Remaining(r) = {} THEN [at |-> "finish", run |-> r] ELSE loop
    /\ UNCHANGED <<runVars, draftVars, handlers, card>>

(* The model's answer for a stage is saved.                                *)
Save(r, s) ==
    /\ Executing(r)
    /\ task[r].at = "generating"
    /\ Undisturbed(r)
    /\ StillOwned(r)
    /\ s \in Remaining(r) /\ revision < MaxSaved
    /\ revision' = revision + 1
    /\ draft' = [draft EXCEPT ![s] = [version |-> revision + 1, by |-> r]]
    /\ run' = [run EXCEPT ![r].done = @ \cup {s}]
    /\ task' = [task EXCEPT ![r].expected = revision + 1]
    /\ loop' = IF Remaining(r) = {s} THEN [at |-> "finish", run |-> r] ELSE loop
    /\ UNCHANGED <<claim, op, finished, handlers, card>>

(* _finish_execution, in the step of the last save.                        *)
Finish ==
    /\ loop.at = "finish"
    /\ LET r == loop.run IN
         /\ run' = [run EXCEPT ![r] = [@ EXCEPT !.status = "waiting_user",
                                                !.result = "output"]]
         /\ finished' = Stamped(r)
         /\ op' = OpToReview(r, "waiting_user")
         /\ claim' = ClaimClosed(r, "completed")
         /\ task' = Closing(r)
         /\ card' = CardOf(r, "output")
    /\ loop' = IdleLoop
    /\ UNCHANGED <<draftVars, handlers>>

(* The preparation, the model, the validation or the comparison of the     *)
(* revisions fails; some failures leave their diagnostics as the result.   *)
Fail(r) ==
    /\ Executing(r)
    /\ ~task[r].cancel
    /\ task[r].at = "generating" => Undisturbed(r)
    /\ \E result \in {run[r].result, "leftover"} :
         /\ run' = [run EXCEPT ![r] = [@ EXCEPT !.status = "failed", !.result = result]]
         /\ card' = CardOf(r, result)
    /\ finished' = Stamped(r)
    /\ claim' = ClaimClosed(r, "failed")
    /\ op' = OpToReview(r, "failed")
    /\ task' = Closing(r)
    /\ UNCHANGED <<draftVars, handlers, loop>>

(* Fault: the row as the task last read it, by whatever it was stopped.    *)
SeenStale(r) == IF task[r].at = "generating" THEN "running" ELSE run[r].status

(* The status a stopped task finds: a run of concepts that is interrupted  *)
(* at its model has its row from before the call.                          *)
Seen(r) == IF OfConcepts(r) /\ task[r].cancel THEN "running" ELSE run[r].status

(* CancelledError, thrown into the task or by the fence.                   *)
Unwind(r) ==
    /\ Executing(r)
    /\ ~Undisturbed(r)
    /\ task[r].at = "ready" => ~task[r].cancel
    /\ task' = Closing(r)
    /\ IF Seen(r) = "running"
       THEN /\ run' = [run EXCEPT ![r].status = "cancelled"]
            /\ finished' = Stamped(r)
            /\ claim' = ClaimClosed(r, "cancelled")
            /\ loop' = [at |-> "settle", run |-> r]
       ELSE UNCHANGED <<run, finished, claim, loop>>
    /\ UNCHANGED <<op, draftVars, handlers, card>>

(* finish_operation, after the commit of the run.                          *)
Settle ==
    /\ loop.at = "settle"
    /\ op' = OpTo(loop.run, "cancelled")
    /\ card' = CardOf(loop.run, run[loop.run].result)
    /\ loop' = IdleLoop
    /\ UNCHANGED <<run, claim, finished, draftVars, task, handlers>>

(* A task cancelled before its first step never runs, its cleanup neither. *)
Vanish(r) ==
    /\ Executing(r)
    /\ task[r].at = "ready"
    /\ task[r].cancel
    /\ task' = [task EXCEPT ![r] = NoTask]
    /\ UNCHANGED <<runVars, draftVars, handlers, card, loop>>

(* The finally clause, after it awaited the heartbeat; a cancellation that *)
(* comes while it awaits skips the rest of it.                             *)
Close(r) ==
    /\ Idle
    /\ task[r].at = "closing"
    /\ task' = [task EXCEPT ![r] = NoTask]
    /\ handlers' = IF task[r].cancel THEN handlers ELSE handlers \ {r}
    /\ UNCHANGED <<runVars, draftVars, card, loop>>

(* A card presentation is written into the result it was computed from.    *)
Present(r) ==
    /\ Idle
    /\ card[r] # "nothing"
    /\ run' = [run EXCEPT ![r].result = IF card[r] = "output" THEN "output" ELSE "leftover"]
    /\ card' = [card EXCEPT ![r] = "nothing"]
    /\ UNCHANGED <<claim, op, finished, draftVars, task, handlers, loop>>

-----------------------------------------------------------------------------
(* What the author does to a run through its operation.                    *)

(* Authors who do not hurry act on a run while its model answers or after  *)
(* its task has ended.                                                     *)
MayAct(r) ==
    /\ Idle
    /\ r \notin Hurried => task[r].at \in {"none", "generating"} /\ ~task[r].cancel

(* The action is projected onto the operation by a second transaction.     *)
Projecting(r, status) == loop' = [at |-> "project", run |-> r, status |-> status]

Cancel(r) ==
    /\ MayAct(r)
    /\ op[r].cancel
    /\ \/ /\ r \in handlers \/ (run[r].status # "paused" /\ task[r].at # "none")
          /\ task' = Interrupted(r)
          /\ UNCHANGED <<runVars, card>>
       \/ /\ r \notin handlers
          /\ run[r].status = "paused"
          /\ run' = [run EXCEPT ![r].status = "cancelled"]
          /\ op' = Touched(r)
          /\ claim' = ClaimClosed(r, "cancelled")
          /\ finished' = Stamped(r)
          /\ card' = CardOf(r, run[r].result)
          /\ UNCHANGED task
    /\ Projecting(r, "cancelled")
    /\ UNCHANGED <<draftVars, handlers>>

Pause(r) ==
    /\ MayAct(r)
    /\ op[r].pause
    /\ \/ /\ run[r].status = "running"
          /\ run' = [run EXCEPT ![r].status = "paused"]
          /\ task' = Interrupted(r)
       \/ /\ run[r].status # "running"
          /\ r \in handlers
          /\ UNCHANGED <<run, task>>
    /\ Projecting(r, "paused")
    /\ UNCHANGED <<claim, op, finished, draftVars, handlers, card>>

Continue(r) ==
    /\ MayAct(r)
    /\ op[r].pause
    /\ run[r].status = "paused"
    /\ run' = [run EXCEPT ![r].status = "running"]
    /\ op' = Touched(r)
    /\ Scheduled(r, TRUE)
    /\ Projecting(r, "running")
    /\ UNCHANGED <<claim, finished, draftVars, card>>

(* Reopening the claim fails when another claim of the target is active.   *)
RetryUnit(r) ==
    /\ MayAct(r)
    /\ op[r].retry
    /\ run[r].status \in Retryable
    /\ Active(claim[run[r].claim].target) \subseteq {run[r].claim}
    /\ run' = [run EXCEPT ![r].status = "running"]
    /\ claim' = ClaimClosed(r, "running")
    /\ finished' = Unstamped({r})
    /\ op' = OpTo(r, "running")
    /\ Scheduled(r, TRUE)
    /\ Projecting(r, "running")
    /\ UNCHANGED <<draftVars, card>>

(* An operation that has ended meanwhile is not overwritten.               *)
Project ==
    /\ loop.at = "project"
    /\ op' = IF op[loop.run].status \in Terminal THEN op ELSE OpTo(loop.run, loop.status)
    /\ loop' = IdleLoop
    /\ UNCHANGED <<run, claim, finished, draftVars, taskVars>>

DeleteOperation(r) ==
    /\ Idle
    /\ op[r].status \in Terminal
    /\ op' = [op EXCEPT ![r] = AbsentOp]
    /\ UNCHANGED <<run, claim, finished, draftVars, taskVars, loop>>

-----------------------------------------------------------------------------
(* What the author does to the draft.                                      *)

AuthorSaves(s) ==
    /\ Idle
    /\ revision < MaxRevision
    /\ revision' = revision + 1
    /\ draft' = [draft EXCEPT ![s] = [version |-> revision + 1, by |-> NoRun]]
    /\ UNCHANGED <<runVars, taskVars>>

Edit(s) == AuthorSaves(s) /\ UNCHANGED loop

Confirm(s) == AuthorSaves(s) /\ loop' = [at |-> "confirm", stage |-> s]

(* latest_stage_operation picks the run of the stage that ended last.      *)
Producers(s) == {r \in Ended : s \in run[r].target.stages /\ op[r].status # "absent"}

(* confirm_run.                                                            *)
ConfirmRun ==
    /\ loop.at = "confirm"
    /\ LET producers == Producers(loop.stage) IN
       \/ /\ producers = {}
          /\ loop' = IdleLoop
          /\ UNCHANGED <<run, op, finished>>
       \/ \E r \in producers :
            /\ \A q \in producers : <<q, r>> \in finished
            /\ loop' = [at |-> "complete", run |-> r]
            /\ IF run[r].status = "waiting_user"
               THEN /\ run' = [run EXCEPT ![r].status = "completed"]
                    /\ op' = Touched(r)
                    /\ finished' = Stamped(r)
               ELSE UNCHANGED <<run, op, finished>>
    /\ UNCHANGED <<claim, draftVars, taskVars>>

(* complete_author_confirmation, a transaction of its own.                 *)
Complete ==
    /\ loop.at = "complete"
    /\ op' = IF op[loop.run].status = "waiting_user" THEN OpTo(loop.run, "completed") ELSE op
    /\ loop' = IdleLoop
    /\ UNCHANGED <<run, claim, finished, draftVars, taskVars>>

-----------------------------------------------------------------------------
(* Restarts.                                                               *)

(* Fault: runs without a result are left to their task.                    *)
RecoveredWithResult(r) ==
    IF run[r].status = "running" /\ run[r].result # "none" THEN "waiting_user"
    ELSE run[r].status

(* mark_interrupted_novel_creation_runs.                                   *)
Recovered(r) ==
    IF run[r].status # "running" THEN run[r].status
    ELSE IF run[r].result = "none" THEN "interrupted" ELSE "waiting_user"

(* Fault: every operation that has not ended is marked.                    *)
Unfinished(r) == op[r].status \in {"running", "paused", "waiting_user"}

(* mark_interrupted_operations.                                            *)
Abandoned(r) == op[r].status = "running"

Orders(S) ==
    {order \in SUBSET (S \X S) :
        /\ \A q, r \in S : <<q, r>> \in order \/ <<r, q>> \in order
        /\ \A q, r \in S : <<q, r>> \in order /\ <<r, q>> \in order => q = r
        /\ \A p, q, r \in S : <<p, q>> \in order /\ <<q, r>> \in order => <<p, r>> \in order}

(* A claim is told of the last of its runs.                                *)
ClaimRecovered(c, order) ==
    LET mine == {r \in Runs : run[r].status = "running" /\ run[r].claim = c}
    IN  IF mine = {} THEN claim[c]
        ELSE [claim[c] EXCEPT !.status =
                IF \E r \in mine : /\ Recovered(r) = "waiting_user"
                                   /\ \A q \in mine : <<q, r>> \in order
                THEN "completed" ELSE "interrupted"]

(* The process stops anywhere, and starts again: runs that were executing  *)
(* are recovered, in any order, then operations that were.                 *)
Crash ==
    /\ LET lost == {r \in Runs : run[r].status = "running"} IN
       \E order \in Orders(lost) :
         /\ finished' = StampedAll(lost, order)
         /\ claim' = [c \in ClaimIds |-> ClaimRecovered(c, order)]
    /\ run' = [r \in Runs |-> [run[r] EXCEPT !.status = Recovered(r)]]
    /\ op' = [r \in Runs |-> IF Abandoned(r) THEN [op[r] EXCEPT !.status = "interrupted"]
                             ELSE op[r]]
    /\ task' = [r \in Runs |-> NoTask]
    /\ handlers' = {}
    /\ card' = [r \in Runs |-> "nothing"]
    /\ loop' = IdleLoop
    /\ torn' = IF "run" \in DOMAIN loop THEN torn \cup {loop.run} ELSE torn
    /\ UNCHANGED draftVars

-----------------------------------------------------------------------------
(* A task's next step.                                                     *)
Step(r) ==
    \/ Begin(r)
    \/ \E s \in Stages : Save(r, s)
    \/ Fail(r)
    \/ Unwind(r)
    \/ Vanish(r)
    \/ Close(r)

Author(r) ==
    \/ Cancel(r)
    \/ Pause(r)
    \/ Continue(r)
    \/ RetryUnit(r)
    \/ DeleteOperation(r)
    \/ \E latest \in BOOLEAN : RetryAsNew(r, latest)

(* What remains of the event loop's current step.                          *)
Commit == Create \/ Finish \/ Settle \/ Project \/ ConfirmRun \/ Complete

Running ==
    \/ \E t \in Targets, k \in Keys : Start(t, k)
    \/ \E r \in Runs : Step(r) \/ Present(r) \/ Author(r)
    \/ \E s \in Stages : Edit(s) \/ Confirm(s)
    \/ Commit

Next == (Running /\ UNCHANGED torn) \/ Crash

Spec == Init /\ [][Next]_vars

(* The event loop finishes its steps, and its queue is first in, first     *)
(* out: whatever the author does, a task that can be resumed eventually is *)
(* (calls of the model time out).                                          *)
FairSpec ==
    /\ Spec
    /\ WF_vars(Commit /\ UNCHANGED torn)
    /\ \A r \in Runs : SF_vars(Step(r) /\ UNCHANGED torn)

-----------------------------------------------------------------------------
(* Properties.                                                             *)

Scopes == [stages : SUBSET Stages, unit : Units]

RunRows ==
    [status : Terminal \cup {"absent", "running", "paused", "waiting_user"},
     target : Scopes, claim : ClaimIds \cup {NoRun}, base : Nat,
     done : SUBSET Stages, result : {"none", "leftover", "output"}]
ClaimRows ==
    [status : Terminal \cup {"absent", "running"},
     target : Scopes, run : Runs \cup {NoRun}]
OpRows ==
    [status : Terminal \cup {"absent", "running", "paused", "waiting_user"},
     pause : BOOLEAN, cancel : BOOLEAN, retry : BOOLEAN]
TaskRows ==
    [at : {"none", "ready", "generating", "closing"},
     cancel : BOOLEAN, resume : BOOLEAN, expected : Nat]
LoopRows ==
    [at : {"idle"}]
    \cup [at : {"create"}, run : Runs, target : Scopes, claim : ClaimIds, base : Nat]
    \cup [at : {"finish", "settle", "complete"}, run : Runs]
    \cup [at : {"project"}, run : Runs, status : {"cancelled", "paused", "running"}]
    \cup [at : {"confirm"}, stage : Stages]

(* Types: what the columns of runs, claims and operations may hold, and    *)
(* what a step of the event loop leaves to commit.                         *)
TypeOK ==
    /\ run \in [Runs -> RunRows]
    /\ claim \in [ClaimIds -> ClaimRows]
    /\ op \in [Runs -> OpRows]
    /\ finished \subseteq Runs \X Runs
    /\ draft \in [Stages -> [version : Nat, by : Runs \cup {NoRun}]]
    /\ revision \in Nat
    /\ task \in [Runs -> TaskRows]
    /\ handlers \subseteq Runs
    /\ card \in [Runs -> {"nothing", "none", "leftover", "output"}]
    /\ loop \in LoopRows
    /\ torn \subseteq Runs

Live(r) == run[r].status \in {"running", "paused"}

(* Runs that no retry was attached to, and that were attached to none.     *)
Sole(r) ==
    /\ run[r].status # "absent"
    /\ \A q \in Runs \ {r} : run[q].claim # run[r].claim

(* However a run ends, resumes or is recovered, its claim is held exactly  *)
(* while it may still produce: neither is a stage blocked by a run that is *)
(* over, nor is it open to another producer while a run is paused.         *)
ClaimFollowsRun ==
    \A r \in Runs : Sole(r) => (Live(r) <=> claim[run[r].claim].status = "running")

(* The run's claim is for what it generates: not so of the retry, as a new *)
(* run, of one that generates a unit of its stage.                         *)
ClaimsItsTarget(r) == claim[run[r].claim].target = run[r].target

(* Repeated requests, retries and continuations never leave two runs that  *)
(* own a claim of their target each producing the same target.             *)
OneProducer ==
    \A r, q \in Runs :
        /\ Sole(r) /\ ClaimsItsTarget(r) /\ Live(r)
        /\ Sole(q) /\ ClaimsItsTarget(q) /\ Live(q)
        /\ run[r].target = run[q].target
        => r = q

(* Once its task is over, the operation of a run shows how it ended.  A    *)
(* stop interrupts one of them where the other was about to end, and       *)
(* between two commits of a step it may leave them apart.                  *)
OperationFollowsRun ==
    \A r \in Runs \ (Hurried \cup torn) :
        Idle /\ task[r].at = "none" /\ op[r].status # "absent" =>
            \/ op[r].status = run[r].status
            \/ run[r].status = "interrupted" /\ op[r].status = "cancelled"
            \/ run[r].status \in {"waiting_user", "completed"} /\ op[r].status = "interrupted"

(* A paused run whose operation offers to continue it.                     *)
CanGoOn(r) == Idle /\ run[r].status = "paused" => op[r].pause

(* A run that was paused stays so until its author acts (but one of        *)
(* concepts), and can be continued, unless a stop came between the commits *)
(* that paused it, or its author acted before the task had unwound.        *)
PausedCanGoOn ==
    [][\A r \in Runs :
          /\ r \notin Hurried \cup torn' => CanGoOn(r)'
          /\ run[r].status = "paused" /\ ~OfConcepts(r) =>
                run'[r].status = "paused" \/ (loop'.at = "project" /\ loop'.run = r)]_vars

(* Whatever the task still has in memory, nothing of a run reaches the     *)
(* draft once the run is paused or cancelled.                              *)
Fenced ==
    [][\A r \in Runs :
          run[r].status \in {"paused", "cancelled"} =>
              /\ run'[r].done = run[r].done
              /\ \A s \in Stages : draft'[s] # draft[s] => draft'[s].by # r]_vars

(* A run never replaces a stage that changed after it read the draft.      *)
AuthorEditKept ==
    [][\A s \in Stages, r \in Runs :
          draft'[s] # draft[s] /\ draft'[s].by = r => draft[s].version <= task[r].expected]_vars

(* Pausing, failing, retrying in place and continuing keep what a run has  *)
(* completed: but for concepts, no stage is generated by the same run      *)
(* twice.                                                                  *)
CheckpointsKept ==
    [][\A s \in Stages, r \in Runs :
          draft'[s] # draft[s] /\ draft'[s].by = r /\ ~OfConcepts(r) => s \notin run[r].done]_vars

(* A run whose author lets each action take effect never runs for ever:    *)
(* restarts, failures and actions always leave a task, or no running run.  *)
RunSettles ==
    \A r \in Runs \ Hurried : run[r].status = "running" ~> run[r].status # "running"

=============================================================================
