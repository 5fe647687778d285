-------------------------- MODULE CreationRunsProofs --------------------------
(***************************************************************************)
(* What holds of the runs that generate a novel's draft, for any runs,     *)
(* clients' keys, stages and targets, and however often the process stops. *)
(***************************************************************************)
EXTENDS CreationRuns, TLAPS

-----------------------------------------------------------------------------
(* The operators keep the types.                                           *)

States == Terminal \cup {"absent", "running", "paused", "waiting_user"}

LEMMA TargetScopes ==
    /\ Targets \subseteq Scopes
    /\ Nothing \in Scopes
    /\ \A t \in Scopes : Widened(t) \in Scopes
<1>1. Targets \subseteq Scopes
      BY RunsAssumption DEF Scopes
<1>2. Nothing \in Scopes
      BY RunsAssumption DEF Scopes, Nothing
<1>3. \A t \in Scopes : Widened(t) \in Scopes
      BY RunsAssumption DEF Scopes, Widened
<1> QED BY <1>1, <1>2, <1>3

LEMMA ConstantRows ==
    /\ AbsentRun \in RunRows
    /\ AbsentClaim \in ClaimRows
    /\ AbsentOp \in OpRows
    /\ NoTask \in TaskRows
    /\ IdleLoop \in LoopRows
<1>1. AbsentRun \in RunRows
      BY TargetScopes DEF AbsentRun, RunRows, Terminal
<1>2. AbsentClaim \in ClaimRows
      BY TargetScopes DEF AbsentClaim, ClaimRows, Terminal
<1>3. AbsentOp \in OpRows
      BY DEF AbsentOp, OpRows, Terminal
<1>4. NoTask \in TaskRows
      BY DEF NoTask, TaskRows
<1>5. IdleLoop \in LoopRows
      BY DEF IdleLoop, LoopRows
<1> QED BY <1>1, <1>2, <1>3, <1>4, <1>5

LEMMA ClaimClosedType ==
    ASSUME claim \in [ClaimIds -> ClaimRows], NEW r, NEW s \in Terminal \cup {"running"}
    PROVE  ClaimClosed(r, s) \in [ClaimIds -> ClaimRows]
BY DEF ClaimClosed, ClaimRows

LEMMA OpToType ==
    ASSUME op \in [Runs -> OpRows], NEW r \in Runs, NEW s \in States
    PROVE  OpTo(r, s) \in [Runs -> OpRows]
BY DEF OpTo, OpRows, States

LEMMA TouchedType ==
    ASSUME op \in [Runs -> OpRows], NEW r \in Runs
    PROVE  Touched(r) \in [Runs -> OpRows]
<1>1. op[r].status \in States
      BY DEF OpRows, States
<1> QED BY <1>1, OpToType DEF Touched

LEMMA OpToReviewType ==
    ASSUME op \in [Runs -> OpRows], NEW r \in Runs, NEW s \in States
    PROVE  OpToReview(r, s) \in [Runs -> OpRows]
<1>1. [status |-> s, pause |-> FALSE, cancel |-> FALSE, retry |-> TRUE] \in OpRows
      BY DEF OpRows, States
<1> QED BY <1>1 DEF OpToReview

LEMMA CardOfType ==
    ASSUME card \in [Runs -> {"nothing", "none", "leftover", "output"}],
           NEW r \in Runs, NEW x \in {"none", "leftover", "output"}
    PROVE  CardOf(r, x) \in [Runs -> {"nothing", "none", "leftover", "output"}]
BY DEF CardOf

LEMMA ScheduledType ==
    ASSUME task \in [Runs -> TaskRows], handlers \subseteq Runs,
           NEW r \in Runs, NEW b \in BOOLEAN, Scheduled(r, b)
    PROVE  task' \in [Runs -> TaskRows] /\ handlers' \subseteq Runs
<1>1. [NoTask EXCEPT !.at = "ready", !.resume = b] \in TaskRows
      BY DEF NoTask, TaskRows
<1> QED BY <1>1 DEF Scheduled

LEMMA InterruptedType ==
    ASSUME task \in [Runs -> TaskRows], NEW r \in Runs
    PROVE  Interrupted(r) \in [Runs -> TaskRows]
BY DEF Interrupted, TaskRows

LEMMA ClosingType ==
    ASSUME task \in [Runs -> TaskRows], NEW r \in Runs
    PROVE  Closing(r) \in [Runs -> TaskRows]
<1>1. [NoTask EXCEPT !.at = "closing"] \in TaskRows
      BY DEF NoTask, TaskRows
<1> QED BY <1>1 DEF Closing

LEMMA StampedType ==
    ASSUME finished \subseteq Runs \X Runs, NEW r \in Runs
    PROVE  Stamped(r) \subseteq Runs \X Runs
BY DEF Stamped, StampedAll, Unstamped, Ended

LEMMA RunSet ==
    ASSUME run \in [Runs -> RunRows], NEW r, NEW row \in RunRows
    PROVE  [run EXCEPT ![r] = row] \in [Runs -> RunRows]
OBVIOUS

LEMMA RunOf ==
    ASSUME TypeOK, NEW r \in Runs
    PROVE  /\ run \in [Runs -> RunRows]
           /\ run[r] \in RunRows
BY DEF TypeOK

LEMMA StatusType ==
    ASSUME run \in [Runs -> RunRows], NEW r, NEW s \in States
    PROVE  [run EXCEPT ![r].status = s] \in [Runs -> RunRows]
BY DEF RunRows, States

-----------------------------------------------------------------------------
(* Every action keeps the types.                                           *)

LEMMA StartTyped ==
    ASSUME TypeOK, UNCHANGED torn, NEW t \in Targets, NEW k \in Keys, Start(t, k)
    PROVE  TypeOK'
<1>0. t \in Scopes
      BY TargetScopes
<1>1. [status |-> "running", target |-> t, run |-> NoRun] \in ClaimRows
      BY <1>0 DEF ClaimRows
<1>2. claim' \in [ClaimIds -> ClaimRows]
      BY <1>1 DEF Start, TypeOK
<1>3. loop' \in LoopRows
  <2> DEFINE known == IF claim[k].status # "absent" THEN {k} ELSE Active(t)
  <2>1. PICK r \in Runs, c \in IF known = {} THEN {k} ELSE known :
           loop' = [at |-> "create", run |-> r, target |-> t, claim |-> c, base |-> revision]
        BY DEF Start
  <2>2. c \in ClaimIds
        BY <2>1 DEF Active, ClaimIds
  <2> QED BY <1>0, <2>1, <2>2 DEF TypeOK, LoopRows
<1> QED BY <1>2, <1>3 DEF Start, TypeOK, draftVars, taskVars

LEMMA RetryAsNewTyped ==
    ASSUME TypeOK, UNCHANGED torn, NEW q \in Runs, NEW latest \in BOOLEAN, RetryAsNew(q, latest)
    PROVE  TypeOK'
<1> DEFINE t == Widened(run[q].target)
           held == Active(t)
<1>1. PICK r \in Runs :
        /\ \E c \in IF held = {} THEN {r} ELSE held :
              loop' = [at |-> "create", run |-> r, target |-> run[q].target, claim |-> c,
                       base |-> IF latest THEN revision ELSE run[q].base]
        /\ claim' = IF held = {}
                    THEN [claim EXCEPT ![r] = [status |-> "running", target |-> t, run |-> NoRun]]
                    ELSE claim
      BY DEF RetryAsNew
<1>2. run[q] \in RunRows
      BY DEF TypeOK
<1>3. [status |-> "running", target |-> t, run |-> NoRun] \in ClaimRows
      BY <1>2, TargetScopes DEF ClaimRows, RunRows
<1>4. claim' \in [ClaimIds -> ClaimRows]
      BY <1>1, <1>3 DEF TypeOK
<1>5. loop' \in LoopRows
  <2>1. PICK c \in IF held = {} THEN {r} ELSE held :
              loop' = [at |-> "create", run |-> r, target |-> run[q].target, claim |-> c,
                       base |-> IF latest THEN revision ELSE run[q].base]
        BY <1>1
  <2>2. c \in ClaimIds
        BY <2>1 DEF Active, ClaimIds
  <2>3. (IF latest THEN revision ELSE run[q].base) \in Nat
        BY <1>2 DEF TypeOK, RunRows
  <2> QED BY <1>2, <2>1, <2>2, <2>3 DEF LoopRows, RunRows
<1> QED BY <1>4, <1>5 DEF RetryAsNew, TypeOK, draftVars, taskVars

(* What a step of the event loop has yet to commit.                        *)
LEMMA CreateLoop ==
    ASSUME TypeOK, loop.at = "create"
    PROVE  /\ loop.run \in Runs
           /\ loop.target \in Scopes
           /\ loop.claim \in ClaimIds
           /\ loop.base \in Nat
BY DEF TypeOK, LoopRows

LEMMA RunLoop ==
    ASSUME TypeOK, loop.at \in {"finish", "settle", "project", "complete"}
    PROVE  loop.run \in Runs
BY DEF TypeOK, LoopRows

LEMMA ProjectLoop ==
    ASSUME TypeOK, loop.at = "project"
    PROVE  loop.status \in {"cancelled", "paused", "running"}
BY DEF TypeOK, LoopRows

LEMMA ConfirmLoop ==
    ASSUME TypeOK, loop.at = "confirm"
    PROVE  loop.stage \in Stages
BY DEF TypeOK, LoopRows

LEMMA RunLoopType ==
    ASSUME NEW r \in Runs
    PROVE  /\ [at |-> "finish", run |-> r] \in LoopRows
           /\ [at |-> "settle", run |-> r] \in LoopRows
           /\ [at |-> "complete", run |-> r] \in LoopRows
<1>1. [at |-> "finish", run |-> r] \in LoopRows
      BY DEF LoopRows
<1>2. [at |-> "settle", run |-> r] \in LoopRows
      BY DEF LoopRows
<1>3. [at |-> "complete", run |-> r] \in LoopRows
      BY DEF LoopRows
<1> QED BY <1>1, <1>2, <1>3

LEMMA ProjectingType ==
    ASSUME NEW r \in Runs, NEW s \in {"cancelled", "paused", "running"}, Projecting(r, s)
    PROVE  loop' \in LoopRows
BY DEF Projecting, LoopRows

LEMMA CreateTyped ==
    ASSUME TypeOK, UNCHANGED torn, Create
    PROVE  TypeOK'
<1> DEFINE r == loop.run
           row == [AbsentRun EXCEPT !.status = "running", !.target = loop.target,
                                    !.claim = loop.claim, !.base = loop.base]
<1>1. /\ r \in Runs
      /\ loop.target \in Scopes
      /\ loop.claim \in ClaimIds
      /\ loop.base \in Nat
      BY CreateLoop DEF Create
<1>2. row \in RunRows
      BY <1>1 DEF AbsentRun, RunRows
<1>3. run' \in [Runs -> RunRows]
  <2>1. run' = [run EXCEPT ![r] = row]
        BY DEF Create
  <2>2. run \in [Runs -> RunRows]
        BY DEF TypeOK
  <2> HIDE DEF row
  <2> QED BY <1>2, <2>1, <2>2, RunSet
<1>4. [status |-> "running", pause |-> TRUE, cancel |-> TRUE, retry |-> FALSE] \in OpRows
      BY DEF OpRows
<1>5. op' \in [Runs -> OpRows]
      BY <1>4 DEF Create, TypeOK
<1>6. claim' \in [ClaimIds -> ClaimRows]
      BY <1>1 DEF Create, TypeOK, ClaimRows
<1>7. task' \in [Runs -> TaskRows] /\ handlers' \subseteq Runs
      BY <1>1, ScheduledType DEF Create, TypeOK
<1>8. loop' \in LoopRows
      BY ConstantRows DEF Create
<1> QED BY <1>3, <1>5, <1>6, <1>7, <1>8 DEF Create, TypeOK, draftVars

LEMMA BeginTyped ==
    ASSUME TypeOK, UNCHANGED torn, NEW r \in Runs, Begin(r)
    PROVE  TypeOK'
<1>1. run[r].base \in Nat
      BY DEF TypeOK, RunRows
<1>2. task' \in [Runs -> TaskRows]
      BY <1>1 DEF Begin, TypeOK, TaskRows
<1>3. loop' \in LoopRows
      BY RunLoopType DEF Begin, TypeOK
<1> QED BY <1>2, <1>3 DEF Begin, TypeOK, runVars, draftVars

LEMMA SaveTyped ==
    ASSUME TypeOK, UNCHANGED torn, NEW r \in Runs, NEW s \in Stages, Save(r, s)
    PROVE  TypeOK'
<1>1. revision' \in Nat
      BY DEF Save, TypeOK
<1>2. [version |-> revision + 1, by |-> r] \in [version : Nat, by : Runs \cup {NoRun}]
      BY DEF TypeOK
<1>3. draft' \in [Stages -> [version : Nat, by : Runs \cup {NoRun}]]
      BY <1>2 DEF Save, TypeOK
<1>4. run' \in [Runs -> RunRows]
  <2>1. run[r] \in RunRows
        BY DEF TypeOK
  <2>2. [run[r] EXCEPT !.done = @ \cup {s}] \in RunRows
        BY <2>1 DEF RunRows
  <2>3. run' = [run EXCEPT ![r] = [run[r] EXCEPT !.done = @ \cup {s}]]
        BY DEF Save, TypeOK
  <2> QED BY <2>2, <2>3, RunSet DEF TypeOK
<1>5. task' \in [Runs -> TaskRows]
      BY DEF Save, TypeOK, TaskRows
<1>6. loop' \in LoopRows
      BY RunLoopType DEF Save, TypeOK
<1> QED BY <1>1, <1>3, <1>4, <1>5, <1>6 DEF Save, TypeOK

LEMMA FinishTyped ==
    ASSUME TypeOK, UNCHANGED torn, Finish
    PROVE  TypeOK'
<1> DEFINE r == loop.run
<1>1. r \in Runs
      BY RunLoop DEF Finish
<1>2. run' \in [Runs -> RunRows]
  <2>1. [run[r] EXCEPT !.status = "waiting_user", !.result = "output"] \in RunRows
        BY <1>1, RunOf DEF RunRows
  <2>2. run' = [run EXCEPT ![r] = [run[r] EXCEPT !.status = "waiting_user", !.result = "output"]]
        BY DEF Finish
  <2> QED BY <2>1, <2>2, RunSet DEF TypeOK
<1>3. finished' \subseteq Runs \X Runs
      BY <1>1, StampedType DEF Finish, TypeOK
<1>4. op' \in [Runs -> OpRows]
      BY <1>1, OpToReviewType DEF Finish, TypeOK, States
<1>5. claim' \in [ClaimIds -> ClaimRows]
      BY ClaimClosedType DEF Finish, TypeOK, Terminal
<1>6. task' \in [Runs -> TaskRows]
      BY <1>1, ClosingType DEF Finish, TypeOK
<1>7. card' \in [Runs -> {"nothing", "none", "leftover", "output"}]
      BY <1>1, CardOfType DEF Finish, TypeOK
<1>8. loop' \in LoopRows
      BY ConstantRows DEF Finish
<1> QED BY <1>2, <1>3, <1>4, <1>5, <1>6, <1>7, <1>8 DEF Finish, TypeOK, draftVars

LEMMA FailTyped ==
    ASSUME TypeOK, UNCHANGED torn, NEW r \in Runs, Fail(r)
    PROVE  TypeOK'
<1>1. PICK x \in {run[r].result, "leftover"} :
         /\ run' = [run EXCEPT ![r] = [@ EXCEPT !.status = "failed", !.result = x]]
         /\ card' = CardOf(r, x)
      BY DEF Fail
<1>2. x \in {"none", "leftover", "output"}
      BY <1>1 DEF TypeOK, RunRows
<1>3. run' \in [Runs -> RunRows]
  <2>1. [run[r] EXCEPT !.status = "failed", !.result = x] \in RunRows
        BY <1>2, RunOf DEF RunRows, Terminal
  <2> QED BY <1>1, <2>1, RunSet DEF TypeOK
<1>4. finished' \subseteq Runs \X Runs
      BY StampedType DEF Fail, TypeOK
<1>5. op' \in [Runs -> OpRows]
      BY OpToReviewType DEF Fail, TypeOK, States, Terminal
<1>6. claim' \in [ClaimIds -> ClaimRows]
      BY ClaimClosedType DEF Fail, TypeOK, Terminal
<1>7. task' \in [Runs -> TaskRows]
      BY ClosingType DEF Fail, TypeOK
<1>8. card' \in [Runs -> {"nothing", "none", "leftover", "output"}]
      BY <1>1, <1>2, CardOfType DEF TypeOK
<1> QED BY <1>3, <1>4, <1>5, <1>6, <1>7, <1>8 DEF Fail, TypeOK, draftVars

LEMMA UnwindTyped ==
    ASSUME TypeOK, UNCHANGED torn, NEW r \in Runs, Unwind(r)
    PROVE  TypeOK'
<1>1. task' \in [Runs -> TaskRows]
      BY ClosingType DEF Unwind, TypeOK
<1>2. CASE Seen(r) = "running"
  <2>1. run' \in [Runs -> RunRows]
    <3>1. run' = [run EXCEPT ![r].status = "cancelled"]
          BY <1>2 DEF Unwind
    <3> QED BY <3>1, RunOf, StatusType DEF States, Terminal
  <2>2. finished' \subseteq Runs \X Runs
        BY <1>2, StampedType DEF Unwind, TypeOK
  <2>3. claim' \in [ClaimIds -> ClaimRows]
        BY <1>2, ClaimClosedType DEF Unwind, TypeOK, Terminal
  <2>4. loop' \in LoopRows
        BY <1>2, RunLoopType DEF Unwind
  <2> QED BY <1>1, <2>1, <2>2, <2>3, <2>4 DEF Unwind, TypeOK, draftVars
<1>3. CASE Seen(r) # "running"
      BY <1>1, <1>3 DEF Unwind, TypeOK, draftVars
<1> QED BY <1>2, <1>3

LEMMA SettleTyped ==
    ASSUME TypeOK, UNCHANGED torn, Settle
    PROVE  TypeOK'
<1>1. loop.run \in Runs
      BY RunLoop DEF Settle
<1>2. op' \in [Runs -> OpRows]
      BY <1>1, OpToType DEF Settle, TypeOK, States, Terminal
<1>3. run[loop.run].result \in {"none", "leftover", "output"}
      BY <1>1 DEF TypeOK, RunRows
<1>4. card' \in [Runs -> {"nothing", "none", "leftover", "output"}]
      BY <1>1, <1>3, CardOfType DEF Settle, TypeOK
<1>5. loop' \in LoopRows
      BY ConstantRows DEF Settle
<1> QED BY <1>2, <1>4, <1>5 DEF Settle, TypeOK, draftVars

LEMMA VanishTyped ==
    ASSUME TypeOK, UNCHANGED torn, NEW r \in Runs, Vanish(r)
    PROVE  TypeOK'
<1>1. task' \in [Runs -> TaskRows]
      BY ConstantRows DEF Vanish, TypeOK
<1> QED BY <1>1 DEF Vanish, TypeOK, runVars, draftVars

LEMMA CloseTyped ==
    ASSUME TypeOK, UNCHANGED torn, NEW r \in Runs, Close(r)
    PROVE  TypeOK'
<1>1. task' \in [Runs -> TaskRows]
      BY ConstantRows DEF Close, TypeOK
<1>2. handlers' \subseteq Runs
      BY DEF Close, TypeOK
<1> QED BY <1>1, <1>2 DEF Close, TypeOK, runVars, draftVars

LEMMA PresentTyped ==
    ASSUME TypeOK, UNCHANGED torn, NEW r \in Runs, Present(r)
    PROVE  TypeOK'
<1>1. run' \in [Runs -> RunRows]
  <2> DEFINE x == IF card[r] = "output" THEN "output" ELSE "leftover"
  <2>1. [run[r] EXCEPT !.result = x] \in RunRows
        BY RunOf DEF RunRows
  <2>2. run' = [run EXCEPT ![r] = [run[r] EXCEPT !.result = x]]
        BY DEF Present
  <2> QED BY <2>1, <2>2, RunSet DEF TypeOK
<1>2. card' \in [Runs -> {"nothing", "none", "leftover", "output"}]
      BY DEF Present, TypeOK
<1> QED BY <1>1, <1>2 DEF Present, TypeOK, draftVars

LEMMA CancelTyped ==
    ASSUME TypeOK, UNCHANGED torn, NEW r \in Runs, Cancel(r)
    PROVE  TypeOK'
<1>1. loop' \in LoopRows
      BY ProjectingType DEF Cancel
<1>2. CASE task' = Interrupted(r) /\ UNCHANGED <<runVars, card>>
  <2>1. task' \in [Runs -> TaskRows]
        BY <1>2, InterruptedType DEF TypeOK
  <2> QED BY <1>1, <1>2, <2>1 DEF Cancel, TypeOK, runVars, draftVars
<1>3. CASE /\ run' = [run EXCEPT ![r].status = "cancelled"]
           /\ op' = Touched(r)
           /\ claim' = ClaimClosed(r, "cancelled")
           /\ finished' = Stamped(r)
           /\ card' = CardOf(r, run[r].result)
           /\ UNCHANGED task
  <2>1. run' \in [Runs -> RunRows]
        BY <1>3, RunOf, StatusType DEF States, Terminal
  <2>2. finished' \subseteq Runs \X Runs
        BY <1>3, StampedType DEF TypeOK
  <2>3. claim' \in [ClaimIds -> ClaimRows]
        BY <1>3, ClaimClosedType DEF TypeOK, Terminal
  <2>4. op' \in [Runs -> OpRows]
        BY <1>3, TouchedType DEF TypeOK
  <2>5. run[r].result \in {"none", "leftover", "output"}
        BY RunOf DEF RunRows
  <2>6. card' \in [Runs -> {"nothing", "none", "leftover", "output"}]
        BY <1>3, <2>5, CardOfType DEF TypeOK
  <2> QED BY <1>1, <1>3, <2>1, <2>2, <2>3, <2>4, <2>6 DEF Cancel, TypeOK, draftVars
<1> QED BY <1>2, <1>3 DEF Cancel

LEMMA PauseTyped ==
    ASSUME TypeOK, UNCHANGED torn, NEW r \in Runs, Pause(r)
    PROVE  TypeOK'
<1>1. loop' \in LoopRows
      BY ProjectingType DEF Pause
<1>2. CASE run' = [run EXCEPT ![r].status = "paused"] /\ task' = Interrupted(r)
  <2>1. run' \in [Runs -> RunRows]
        BY <1>2, RunOf, StatusType DEF States
  <2>2. task' \in [Runs -> TaskRows]
        BY <1>2, InterruptedType DEF TypeOK
  <2> QED BY <1>1, <2>1, <2>2 DEF Pause, TypeOK, draftVars
<1>3. CASE UNCHANGED <<run, task>>
      BY <1>1, <1>3 DEF Pause, TypeOK, draftVars
<1> QED BY <1>2, <1>3 DEF Pause

LEMMA ContinueTyped ==
    ASSUME TypeOK, UNCHANGED torn, NEW r \in Runs, Continue(r)
    PROVE  TypeOK'
<1>1. loop' \in LoopRows
      BY ProjectingType DEF Continue
<1>2. run' \in [Runs -> RunRows]
      BY RunOf, StatusType DEF States, Continue
<1>3. op' \in [Runs -> OpRows]
      BY TouchedType DEF Continue, TypeOK
<1>4. task' \in [Runs -> TaskRows] /\ handlers' \subseteq Runs
      BY ScheduledType DEF Continue, TypeOK
<1> QED BY <1>1, <1>2, <1>3, <1>4 DEF Continue, TypeOK, draftVars

LEMMA RetryUnitTyped ==
    ASSUME TypeOK, UNCHANGED torn, NEW r \in Runs, RetryUnit(r)
    PROVE  TypeOK'
<1>1. loop' \in LoopRows
      BY ProjectingType DEF RetryUnit
<1>2. run' \in [Runs -> RunRows]
      BY RunOf, StatusType DEF States, RetryUnit
<1>3. op' \in [Runs -> OpRows]
      BY OpToType DEF RetryUnit, TypeOK, States
<1>4. task' \in [Runs -> TaskRows] /\ handlers' \subseteq Runs
      BY ScheduledType DEF RetryUnit, TypeOK
<1>5. claim' \in [ClaimIds -> ClaimRows]
      BY ClaimClosedType DEF RetryUnit, TypeOK
<1>6. finished' \subseteq Runs \X Runs
      BY DEF RetryUnit, TypeOK, Unstamped
<1> QED BY <1>1, <1>2, <1>3, <1>4, <1>5, <1>6 DEF RetryUnit, TypeOK, draftVars

LEMMA ProjectTyped ==
    ASSUME TypeOK, UNCHANGED torn, Project
    PROVE  TypeOK'
<1>1. loop.run \in Runs /\ loop.status \in States
      BY RunLoop, ProjectLoop DEF Project, States, Terminal
<1>2. op' \in [Runs -> OpRows]
      BY <1>1, OpToType DEF Project, TypeOK
<1>3. loop' \in LoopRows
      BY ConstantRows DEF Project
<1> QED BY <1>2, <1>3 DEF Project, TypeOK, draftVars, taskVars

LEMMA DeleteOperationTyped ==
    ASSUME TypeOK, UNCHANGED torn, NEW r \in Runs, DeleteOperation(r)
    PROVE  TypeOK'
<1>1. op' \in [Runs -> OpRows]
      BY ConstantRows DEF DeleteOperation, TypeOK
<1> QED BY <1>1 DEF DeleteOperation, TypeOK, draftVars, taskVars

LEMMA AuthorTyped ==
    ASSUME TypeOK, UNCHANGED torn, NEW s \in Stages, Edit(s) \/ Confirm(s)
    PROVE  TypeOK'
<1>1. AuthorSaves(s)
      BY DEF Edit, Confirm
<1>2. loop' \in LoopRows
  <2>1. [at |-> "confirm", stage |-> s] \in LoopRows
        BY DEF LoopRows
  <2> QED BY <2>1 DEF Edit, Confirm, TypeOK
<1>3. [version |-> revision + 1, by |-> NoRun] \in [version : Nat, by : Runs \cup {NoRun}]
      BY DEF TypeOK
<1>4. draft' \in [Stages -> [version : Nat, by : Runs \cup {NoRun}]]
      BY <1>1, <1>3 DEF AuthorSaves, TypeOK
<1>5. revision' \in Nat
      BY <1>1 DEF AuthorSaves, TypeOK
<1> QED BY <1>1, <1>2, <1>4, <1>5 DEF AuthorSaves, TypeOK, runVars, taskVars

LEMMA ConfirmRunTyped ==
    ASSUME TypeOK, UNCHANGED torn, ConfirmRun
    PROVE  TypeOK'
<1>1. CASE loop' = IdleLoop /\ UNCHANGED <<run, op, finished>>
      BY <1>1, ConstantRows DEF ConfirmRun, TypeOK, draftVars, taskVars
<1>2. CASE \E r \in Producers(loop.stage) :
              /\ loop' = [at |-> "complete", run |-> r]
              /\ IF run[r].status = "waiting_user"
                 THEN /\ run' = [run EXCEPT ![r].status = "completed"]
                      /\ op' = Touched(r)
                      /\ finished' = Stamped(r)
                 ELSE UNCHANGED <<run, op, finished>>
  <2>1. PICK r \in Producers(loop.stage) :
              /\ loop' = [at |-> "complete", run |-> r]
              /\ IF run[r].status = "waiting_user"
                 THEN /\ run' = [run EXCEPT ![r].status = "completed"]
                      /\ op' = Touched(r)
                      /\ finished' = Stamped(r)
                 ELSE UNCHANGED <<run, op, finished>>
        BY <1>2
  <2>2. r \in Runs
        BY DEF Producers, Ended
  <2>3. loop' \in LoopRows
        BY <2>1, <2>2, RunLoopType
  <2>4. run' \in [Runs -> RunRows]
    <3>1. [run EXCEPT ![r].status = "completed"] \in [Runs -> RunRows]
          BY <2>2, RunOf, StatusType DEF States, Terminal
    <3> QED BY <2>1, <3>1 DEF TypeOK
  <2>5. op' \in [Runs -> OpRows]
        BY <2>1, <2>2, TouchedType DEF TypeOK
  <2>6. finished' \subseteq Runs \X Runs
        BY <2>1, <2>2, StampedType DEF TypeOK
  <2> QED BY <2>3, <2>4, <2>5, <2>6 DEF ConfirmRun, TypeOK, draftVars, taskVars
<1> QED BY <1>1, <1>2 DEF ConfirmRun

LEMMA CompleteTyped ==
    ASSUME TypeOK, UNCHANGED torn, Complete
    PROVE  TypeOK'
<1>1. loop.run \in Runs
      BY RunLoop DEF Complete
<1>2. op' \in [Runs -> OpRows]
      BY <1>1, OpToType DEF Complete, TypeOK, States, Terminal
<1>3. loop' \in LoopRows
      BY ConstantRows DEF Complete
<1> QED BY <1>2, <1>3 DEF Complete, TypeOK, draftVars, taskVars

LEMMA RecoveredStates ==
    ASSUME TypeOK, NEW r \in Runs
    PROVE  Recovered(r) \in States
<1>1. run[r].status \in States
      BY RunOf DEF RunRows, States
<1> QED BY <1>1 DEF Recovered, States, Terminal

LEMMA TornLoop ==
    ASSUME TypeOK, "run" \in DOMAIN loop
    PROVE  loop.run \in Runs
<1>1. CASE loop \in [at : {"idle"}]
      BY <1>1
<1>2. CASE loop \in [at : {"confirm"}, stage : Stages]
      BY <1>2
<1> QED BY <1>1, <1>2 DEF TypeOK, LoopRows

LEMMA CrashTyped ==
    ASSUME TypeOK, Crash
    PROVE  TypeOK'
<1>1. run' \in [Runs -> RunRows]
  <2>1. ASSUME NEW r \in Runs PROVE [run[r] EXCEPT !.status = Recovered(r)] \in RunRows
        BY RunOf, RecoveredStates DEF RunRows, States
  <2> QED BY <2>1 DEF Crash
<1>2. finished' \subseteq Runs \X Runs
  <2> DEFINE lost == {r \in Runs : run[r].status = "running"}
  <2>1. PICK order \in Orders(lost) : finished' = StampedAll(lost, order)
        BY DEF Crash
  <2>2. order \subseteq Runs \X Runs
        BY <2>1 DEF Orders
  <2> QED BY <2>1, <2>2 DEF StampedAll, Unstamped, Ended, TypeOK
<1>3. claim' \in [ClaimIds -> ClaimRows]
  <2>1. PICK order : claim' = [c \in ClaimIds |-> ClaimRecovered(c, order)]
        BY DEF Crash
  <2>2. ASSUME NEW c \in ClaimIds PROVE ClaimRecovered(c, order) \in ClaimRows
    <3>1. claim[c] \in ClaimRows
          BY DEF TypeOK
    <3>2. /\ [claim[c] EXCEPT !.status = "completed"] \in ClaimRows
          /\ [claim[c] EXCEPT !.status = "interrupted"] \in ClaimRows
          BY <3>1 DEF ClaimRows, Terminal
    <3> QED BY <3>1, <3>2 DEF ClaimRecovered
  <2> QED BY <2>1, <2>2
<1>4. op' \in [Runs -> OpRows]
  <2>1. ASSUME NEW r \in Runs
        PROVE  /\ op[r] \in OpRows
               /\ [op[r] EXCEPT !.status = "interrupted"] \in OpRows
    <3>1. op[r] \in OpRows
          BY DEF TypeOK
    <3> QED BY <3>1 DEF OpRows, Terminal
  <2> QED BY <2>1 DEF Crash
<1>5. /\ task' \in [Runs -> TaskRows]
      /\ handlers' \subseteq Runs
      /\ card' \in [Runs -> {"nothing", "none", "leftover", "output"}]
      /\ loop' \in LoopRows
      BY ConstantRows DEF Crash
<1>6. torn' \subseteq Runs
      BY TornLoop DEF Crash, TypeOK
<1> QED BY <1>1, <1>2, <1>3, <1>4, <1>5, <1>6 DEF Crash, TypeOK, draftVars

LEMMA StutterTyped ==
    ASSUME TypeOK, UNCHANGED vars
    PROVE  TypeOK'
BY DEF TypeOK, vars, runVars, draftVars, taskVars

LEMMA InitTyped ==
    ASSUME Init
    PROVE  TypeOK
BY ConstantRows DEF Init, TypeOK

LEMMA NextTyped ==
    ASSUME TypeOK, [Next]_vars
    PROVE  TypeOK'
<1>1. CASE UNCHANGED vars
      BY <1>1, StutterTyped
<1>2. CASE Crash
      BY <1>2, CrashTyped
<1>3. CASE Running /\ UNCHANGED torn
  <2>1. ASSUME NEW t \in Targets, NEW k \in Keys, Start(t, k) PROVE TypeOK'
        BY <1>3, <2>1, StartTyped
  <2>2. ASSUME NEW r \in Runs, Step(r) PROVE TypeOK'
        BY <1>3, <2>2, BeginTyped, SaveTyped, FailTyped, UnwindTyped, VanishTyped,
           CloseTyped DEF Step
  <2>3. ASSUME NEW r \in Runs, Present(r) PROVE TypeOK'
        BY <1>3, <2>3, PresentTyped
  <2>4. ASSUME NEW r \in Runs, Author(r) PROVE TypeOK'
        BY <1>3, <2>4, CancelTyped, PauseTyped, ContinueTyped, RetryUnitTyped,
           DeleteOperationTyped, RetryAsNewTyped DEF Author
  <2>5. ASSUME NEW s \in Stages, Edit(s) \/ Confirm(s) PROVE TypeOK'
        BY <1>3, <2>5, AuthorTyped
  <2>6. ASSUME Commit PROVE TypeOK'
        BY <1>3, <2>6, CreateTyped, FinishTyped, SettleTyped, ProjectTyped,
           ConfirmRunTyped, CompleteTyped DEF Commit
  <2> QED BY <1>3, <2>1, <2>2, <2>3, <2>4, <2>5, <2>6 DEF Running
<1> QED BY <1>1, <1>2, <1>3 DEF Next

(* The columns of runs, claims and operations, the tasks and what a step   *)
(* of the event loop has yet to commit keep their types.                   *)
THEOREM CreationTyped == Spec => []TypeOK
BY InitTyped, NextTyped, PTL DEF Spec

-----------------------------------------------------------------------------
(* What an action does to the run it is about, and that it leaves the      *)
(* other runs alone.                                                       *)

Same(r) ==
    /\ run'[r] = run[r]
    /\ op'[r] = op[r]
    /\ task'[r] = task[r]
    /\ card'[r] = card[r]
    /\ r \in handlers' <=> r \in handlers

Elsewhere(q) == \A r \in Runs \ {q} : Same(r)

(* The run gets a status and a result.                                     *)
RunMoves(r, s, x) ==
    /\ run'[r].status = s
    /\ run'[r].result = x
    /\ run'[r].claim = run[r].claim
    /\ run'[r].target = run[r].target
    /\ run'[r].done = run[r].done

OpMoves(r, s) ==
    IF op[r].status = "absent" THEN op'[r] = op[r]
    ELSE /\ op'[r].status = s
         /\ op'[r].pause <=> op[r].pause /\ s \notin Terminal
         /\ op'[r].cancel <=> op[r].cancel /\ s \notin Terminal

OpReviewed(r, s) ==
    IF op[r].status = "absent" THEN op'[r] = op[r]
    ELSE op'[r].status = s /\ ~op'[r].pause /\ ~op'[r].cancel

CardMoves(r, x) == IF card[r] = "nothing" THEN card'[r] = x ELSE card'[r] = card[r]

Others(f, g, q) == \A r \in Runs \ {q} : g[r] = f[r]

LEMMA RunStatusMoves ==
    ASSUME run \in [Runs -> RunRows], NEW q \in Runs, NEW s,
           run' = [run EXCEPT ![q].status = s]
    PROVE  RunMoves(q, s, run[q].result) /\ Others(run, run', q)
<1>1. run'[q] = [run[q] EXCEPT !.status = s]
      OBVIOUS
<1>2. run[q] \in RunRows
      OBVIOUS
<1>3. RunMoves(q, s, run[q].result)
      BY <1>1, <1>2 DEF RunMoves, RunRows
<1>4. Others(run, run', q)
      BY DEF Others
<1> QED BY <1>3, <1>4

LEMMA RunResultMoves ==
    ASSUME run \in [Runs -> RunRows], NEW q \in Runs, NEW s, NEW x,
           run' = [run EXCEPT ![q] = [@ EXCEPT !.status = s, !.result = x]]
    PROVE  RunMoves(q, s, x) /\ Others(run, run', q)
<1>1. run'[q] = [run[q] EXCEPT !.status = s, !.result = x]
      OBVIOUS
<1>2. run[q] \in RunRows
      OBVIOUS
<1>3. RunMoves(q, s, x)
      BY <1>1, <1>2 DEF RunMoves, RunRows
<1>4. Others(run, run', q)
      BY DEF Others
<1> QED BY <1>3, <1>4

LEMMA OpToMoves ==
    ASSUME op \in [Runs -> OpRows], NEW q \in Runs, NEW s, op' = OpTo(q, s)
    PROVE  OpMoves(q, s) /\ Others(op, op', q)
<1>1. CASE op[q].status = "absent"
      BY <1>1 DEF OpTo, OpMoves, Others
<1>2. CASE op[q].status # "absent"
  <2>1. op[q] \in OpRows
        OBVIOUS
  <2>2. op'[q] = [status |-> s, pause |-> op[q].pause /\ s \notin Terminal,
                  cancel |-> op[q].cancel /\ s \notin Terminal, retry |-> op[q].retry]
        BY <1>2 DEF OpTo
  <2>3. /\ op'[q].status = s
        /\ op'[q].pause = (op[q].pause /\ s \notin Terminal)
        /\ op'[q].cancel = (op[q].cancel /\ s \notin Terminal)
        BY <2>2
  <2>4. Others(op, op', q)
        BY <1>2 DEF OpTo, Others
  <2> QED BY <1>2, <2>3, <2>4 DEF OpMoves
<1> QED BY <1>1, <1>2

LEMMA TouchedMoves ==
    ASSUME op \in [Runs -> OpRows], NEW q \in Runs, op' = Touched(q)
    PROVE  OpMoves(q, op[q].status) /\ Others(op, op', q)
BY OpToMoves DEF Touched

LEMMA OpToReviewMoves ==
    ASSUME op \in [Runs -> OpRows], NEW q \in Runs, NEW s, op' = OpToReview(q, s)
    PROVE  OpReviewed(q, s) /\ Others(op, op', q)
BY DEF OpToReview, OpReviewed, Others

LEMMA CardOfMoves ==
    ASSUME card \in [Runs -> {"nothing", "none", "leftover", "output"}],
           NEW q \in Runs, NEW x, card' = CardOf(q, x)
    PROVE  CardMoves(q, x) /\ Others(card, card', q)
BY DEF CardOf, CardMoves, Others

LEMMA ScheduledMoves ==
    ASSUME task \in [Runs -> TaskRows], handlers \subseteq Runs,
           NEW q \in Runs, NEW b, Scheduled(q, b)
    PROVE  /\ IF task[q].at = "none"
              THEN task'[q].at = "ready" /\ ~task'[q].cancel /\ q \in handlers'
              ELSE task' = task /\ handlers' = handlers
           /\ Others(task, task', q)
           /\ handlers \subseteq handlers'
           /\ handlers' \subseteq handlers \cup {q}
<1>1. CASE task[q].at # "none"
      BY <1>1 DEF Scheduled, Others
<1>2. CASE task[q].at = "none"
  <2>1. task'[q] = [NoTask EXCEPT !.at = "ready", !.resume = b]
        BY <1>2 DEF Scheduled
  <2>2. task'[q].at = "ready" /\ task'[q].cancel = FALSE
        BY <2>1 DEF NoTask
  <2>3. Others(task, task', q)
        BY <1>2 DEF Scheduled, Others
  <2> QED BY <1>2, <2>2, <2>3 DEF Scheduled
<1> QED BY <1>1, <1>2

LEMMA InterruptedMoves ==
    ASSUME task \in [Runs -> TaskRows], NEW q \in Runs, task' = Interrupted(q)
    PROVE  /\ task'[q].at = task[q].at
           /\ task[q].at # "none" => task'[q].cancel
           /\ task[q].at = "none" => task' = task
           /\ Others(task, task', q)
<1>1. CASE task[q].at = "none"
      BY <1>1 DEF Interrupted, Others
<1>2. CASE task[q].at # "none"
  <2>1. task[q] \in TaskRows
        OBVIOUS
  <2>2. task'[q] = [task[q] EXCEPT !.cancel = TRUE]
        BY <1>2 DEF Interrupted
  <2>3. task'[q].at = task[q].at /\ task'[q].cancel = TRUE
        BY <2>1, <2>2 DEF TaskRows
  <2>4. Others(task, task', q)
        BY <1>2 DEF Interrupted, Others
  <2> QED BY <1>2, <2>3, <2>4
<1> QED BY <1>1, <1>2

LEMMA ClosingMoves ==
    ASSUME task \in [Runs -> TaskRows], NEW q \in Runs, task' = Closing(q)
    PROVE  /\ task'[q].at = "closing"
           /\ ~task'[q].cancel
           /\ Others(task, task', q)
<1>1. task'[q] = [NoTask EXCEPT !.at = "closing"]
      BY DEF Closing
<1>2. task'[q].at = "closing" /\ task'[q].cancel = FALSE
      BY <1>1 DEF NoTask
<1>3. Others(task, task', q)
      BY DEF Closing, Others
<1> QED BY <1>2, <1>3

LEMMA ElsewhereFrom ==
    ASSUME NEW q \in Runs,
           Others(run, run', q), Others(op, op', q), Others(task, task', q),
           Others(card, card', q), handlers' \ {q} = handlers \ {q}
    PROVE  Elsewhere(q)
BY DEF Others, Elsewhere, Same

LEMMA OthersSame ==
    ASSUME NEW q
    PROVE  /\ run' = run => Others(run, run', q)
           /\ op' = op => Others(op, op', q)
           /\ task' = task => Others(task, task', q)
           /\ card' = card => Others(card, card', q)
BY DEF Others

LEMMA CreateDoes ==
    ASSUME TypeOK, Create
    PROVE  LET r == loop.run IN
           /\ Elsewhere(r)
           /\ run'[r].status = "running"
           /\ run'[r].target = loop.target
           /\ run'[r].claim = loop.claim
           /\ run'[r].result = "none"
           /\ op'[r].status = "running"
           /\ op'[r].pause
           /\ card'[r] = card[r]
           /\ loop' = IdleLoop
           /\ task[r].at = "none" => task'[r].at = "ready" /\ ~task'[r].cancel /\ r \in handlers'
<1> DEFINE r == loop.run
<1>1. r \in Runs
      BY CreateLoop DEF Create
<1>2. run'[r] = [AbsentRun EXCEPT !.status = "running", !.target = loop.target,
                                  !.claim = loop.claim, !.base = loop.base]
      BY <1>1 DEF Create, TypeOK
<1>3. Others(run, run', r)
      BY DEF Create, TypeOK, Others
<1>4. op'[r] = [status |-> "running", pause |-> TRUE, cancel |-> TRUE, retry |-> FALSE]
      BY <1>1 DEF Create, TypeOK
<1>5. Others(op, op', r)
      BY DEF Create, TypeOK, Others
<1>6. Scheduled(r, FALSE)
      BY DEF Create
<1>7. /\ Others(task, task', r)
      /\ handlers' \ {r} = handlers \ {r}
      /\ task[r].at = "none" => task'[r].at = "ready" /\ ~task'[r].cancel /\ r \in handlers'
      BY <1>1, <1>6, ScheduledMoves DEF TypeOK
<1>8. card' = card /\ loop' = IdleLoop
      BY DEF Create
<1>9. Elsewhere(r)
      BY <1>1, <1>3, <1>5, <1>7, <1>8, ElsewhereFrom, OthersSame
<1>10. /\ run'[r].status = "running"
       /\ run'[r].target = loop.target
       /\ run'[r].claim = loop.claim
       /\ run'[r].result = "none"
       BY <1>2 DEF AbsentRun
<1>11. op'[r].status = "running" /\ op'[r].pause
       BY <1>4
<1> QED BY <1>7, <1>8, <1>9, <1>10, <1>11

LEMMA BeginDoes ==
    ASSUME TypeOK, NEW r \in Runs, Begin(r)
    PROVE  /\ Elsewhere(r)
           /\ UNCHANGED <<run, op, handlers, card>>
           /\ task'[r].at = "generating"
           /\ task'[r].cancel = task[r].cancel
           /\ loop' = loop \/ loop' = [at |-> "finish", run |-> r]
<1>1. task[r] \in TaskRows
      BY DEF TypeOK
<1> DEFINE row == [task[r] EXCEPT !.at = "generating",
                                  !.expected = IF task[r].resume THEN revision
                                               ELSE run[r].base]
<1>2. task' = [task EXCEPT ![r] = row]
      BY DEF Begin
<1>3. row.at = "generating" /\ row.cancel = task[r].cancel
      BY <1>1 DEF TaskRows
<1>4. task \in [Runs -> TaskRows]
      BY DEF TypeOK
<1> HIDE DEF row
<1>5. task'[r] = row /\ Others(task, task', r)
      BY <1>2, <1>4 DEF Others
<1>6. UNCHANGED <<run, op, handlers, card>>
      BY DEF Begin, runVars
<1>7. loop' = loop \/ loop' = [at |-> "finish", run |-> r]
      BY DEF Begin
<1> QED BY <1>3, <1>5, <1>6, <1>7, ElsewhereFrom, OthersSame

LEMMA SaveDoes ==
    ASSUME TypeOK, NEW r \in Runs, NEW s \in Stages, Save(r, s)
    PROVE  /\ Elsewhere(r)
           /\ UNCHANGED <<claim, op, handlers, card>>
           /\ run'[r].status = run[r].status
           /\ run'[r].result = run[r].result
           /\ run'[r].claim = run[r].claim
           /\ run'[r].target = run[r].target
           /\ task'[r].at = task[r].at
           /\ task'[r].cancel = task[r].cancel
           /\ loop' = loop \/ loop' = [at |-> "finish", run |-> r]
<1>1. task[r] \in TaskRows /\ run[r] \in RunRows
      BY DEF TypeOK
<1>2. task \in [Runs -> TaskRows] /\ run \in [Runs -> RunRows]
      BY DEF TypeOK
<1>3. /\ run' = [run EXCEPT ![r].done = @ \cup {s}]
      /\ task' = [task EXCEPT ![r].expected = revision + 1]
      /\ UNCHANGED <<claim, op, handlers, card>>
      /\ loop' = loop \/ loop' = [at |-> "finish", run |-> r]
      BY DEF Save
<1>4. /\ run'[r] = [run[r] EXCEPT !.done = @ \cup {s}]
      /\ Others(run, run', r)
      BY <1>2, <1>3 DEF Others
<1>5. /\ task'[r] = [task[r] EXCEPT !.expected = revision + 1]
      /\ Others(task, task', r)
      BY <1>2, <1>3 DEF Others
<1>6. /\ run'[r].status = run[r].status
      /\ run'[r].result = run[r].result
      /\ run'[r].claim = run[r].claim
      /\ run'[r].target = run[r].target
      BY <1>1, <1>4 DEF RunRows
<1>7. task'[r].at = task[r].at /\ task'[r].cancel = task[r].cancel
      BY <1>1, <1>5 DEF TaskRows
<1>8. Elsewhere(r)
      BY <1>3, <1>4, <1>5, ElsewhereFrom, OthersSame
<1> QED BY <1>3, <1>6, <1>7, <1>8

LEMMA FinishDoes ==
    ASSUME TypeOK, Finish
    PROVE  LET r == loop.run IN
           /\ Elsewhere(r)
           /\ UNCHANGED <<handlers, draft, revision>>
           /\ RunMoves(r, "waiting_user", "output")
           /\ OpReviewed(r, "waiting_user")
           /\ claim' = ClaimClosed(r, "completed")
           /\ task'[r].at = "closing"
           /\ ~task'[r].cancel
           /\ loop' = IdleLoop
<1> DEFINE r == loop.run
<1>1. r \in Runs
      BY RunLoop DEF Finish
<1>2. /\ run' = [run EXCEPT ![r] = [@ EXCEPT !.status = "waiting_user", !.result = "output"]]
      /\ op' = OpToReview(r, "waiting_user")
      /\ claim' = ClaimClosed(r, "completed")
      /\ task' = Closing(r)
      /\ card' = CardOf(r, "output")
      /\ loop' = IdleLoop
      /\ UNCHANGED <<handlers, draft, revision>>
      BY DEF Finish, draftVars
<1>3. /\ run \in [Runs -> RunRows]
      /\ op \in [Runs -> OpRows]
      /\ task \in [Runs -> TaskRows]
      /\ card \in [Runs -> {"nothing", "none", "leftover", "output"}]
      BY DEF TypeOK
<1>4. RunMoves(r, "waiting_user", "output") /\ Others(run, run', r)
      BY <1>1, <1>2, <1>3, RunResultMoves
<1>5. OpReviewed(r, "waiting_user") /\ Others(op, op', r)
      BY <1>1, <1>2, <1>3, OpToReviewMoves
<1>6. task'[r].at = "closing" /\ ~task'[r].cancel /\ Others(task, task', r)
      BY <1>1, <1>2, <1>3, ClosingMoves
<1>7. Others(card, card', r)
      BY <1>1, <1>2, <1>3, CardOfMoves
<1>8. Elsewhere(r)
      BY <1>1, <1>2, <1>4, <1>5, <1>6, <1>7, ElsewhereFrom
<1> QED BY <1>2, <1>4, <1>5, <1>6, <1>8

LEMMA FailDoes ==
    ASSUME TypeOK, NEW r \in Runs, Fail(r)
    PROVE  /\ Elsewhere(r)
           /\ UNCHANGED <<handlers, draft, revision, loop>>
           /\ \E x : RunMoves(r, "failed", x)
           /\ OpReviewed(r, "failed")
           /\ claim' = ClaimClosed(r, "failed")
           /\ task'[r].at = "closing"
           /\ ~task'[r].cancel
<1>1. PICK x : /\ run' = [run EXCEPT ![r] = [@ EXCEPT !.status = "failed", !.result = x]]
               /\ card' = CardOf(r, x)
      BY DEF Fail
<1>2. /\ op' = OpToReview(r, "failed")
      /\ claim' = ClaimClosed(r, "failed")
      /\ task' = Closing(r)
      /\ UNCHANGED <<handlers, draft, revision, loop>>
      BY DEF Fail, draftVars
<1>3. /\ run \in [Runs -> RunRows]
      /\ op \in [Runs -> OpRows]
      /\ task \in [Runs -> TaskRows]
      /\ card \in [Runs -> {"nothing", "none", "leftover", "output"}]
      BY DEF TypeOK
<1>4. RunMoves(r, "failed", x) /\ Others(run, run', r)
      BY <1>1, <1>3, RunResultMoves
<1>5. OpReviewed(r, "failed") /\ Others(op, op', r)
      BY <1>2, <1>3, OpToReviewMoves
<1>6. task'[r].at = "closing" /\ ~task'[r].cancel /\ Others(task, task', r)
      BY <1>2, <1>3, ClosingMoves
<1>7. Others(card, card', r)
      BY <1>1, <1>3, CardOfMoves
<1>8. Elsewhere(r)
      BY <1>2, <1>4, <1>5, <1>6, <1>7, ElsewhereFrom
<1> QED BY <1>2, <1>4, <1>5, <1>6, <1>8

LEMMA UnwindDoes ==
    ASSUME TypeOK, NEW r \in Runs, Unwind(r)
    PROVE  /\ Elsewhere(r)
           /\ UNCHANGED <<op, handlers, draft, revision, card>>
           /\ task'[r].at = "closing"
           /\ ~task'[r].cancel
           /\ IF Seen(r) = "running"
              THEN /\ RunMoves(r, "cancelled", run[r].result)
                   /\ claim' = ClaimClosed(r, "cancelled")
                   /\ loop' = [at |-> "settle", run |-> r]
              ELSE UNCHANGED <<run, claim, loop>>
<1>1. /\ run \in [Runs -> RunRows]
      /\ task \in [Runs -> TaskRows]
      BY DEF TypeOK
<1>2. task' = Closing(r) /\ UNCHANGED <<op, handlers, draft, revision, card>>
      BY DEF Unwind, draftVars
<1>3. task'[r].at = "closing" /\ ~task'[r].cancel /\ Others(task, task', r)
      BY <1>1, <1>2, ClosingMoves
<1>4. CASE Seen(r) = "running"
  <2>1. /\ run' = [run EXCEPT ![r].status = "cancelled"]
        /\ claim' = ClaimClosed(r, "cancelled")
        /\ loop' = [at |-> "settle", run |-> r]
        BY <1>4 DEF Unwind
  <2>2. RunMoves(r, "cancelled", run[r].result) /\ Others(run, run', r)
        BY <1>1, <2>1, RunStatusMoves
  <2> QED BY <1>2, <1>3, <1>4, <2>1, <2>2, ElsewhereFrom, OthersSame
<1>5. CASE Seen(r) # "running"
  <2>1. UNCHANGED <<run, claim, loop>>
        BY <1>5 DEF Unwind
  <2> QED BY <1>2, <1>3, <1>5, <2>1, ElsewhereFrom, OthersSame
<1> QED BY <1>4, <1>5

LEMMA SettleDoes ==
    ASSUME TypeOK, Settle
    PROVE  LET r == loop.run IN
           /\ Elsewhere(r)
           /\ UNCHANGED <<run, claim, handlers, draft, revision, task>>
           /\ OpMoves(r, "cancelled")
           /\ loop' = IdleLoop
<1> DEFINE r == loop.run
<1>1. r \in Runs
      BY RunLoop DEF Settle
<1>2. /\ op' = OpTo(r, "cancelled")
      /\ card' = CardOf(r, run[r].result)
      /\ loop' = IdleLoop
      /\ UNCHANGED <<run, claim, handlers, draft, revision, task>>
      BY DEF Settle, draftVars
<1>3. /\ op \in [Runs -> OpRows]
      /\ card \in [Runs -> {"nothing", "none", "leftover", "output"}]
      BY DEF TypeOK
<1>4. OpMoves(r, "cancelled") /\ Others(op, op', r)
      BY <1>1, <1>2, <1>3, OpToMoves
<1>5. Others(card, card', r)
      BY <1>1, <1>2, <1>3, CardOfMoves
<1>6. Elsewhere(r)
      BY <1>1, <1>2, <1>4, <1>5, ElsewhereFrom, OthersSame
<1> QED BY <1>2, <1>4, <1>6

LEMMA VanishDoes ==
    ASSUME TypeOK, NEW r \in Runs, Vanish(r)
    PROVE  /\ Elsewhere(r)
           /\ UNCHANGED <<run, claim, op, handlers, draft, revision, card, loop>>
           /\ task'[r] = NoTask
<1>1. /\ task' = [task EXCEPT ![r] = NoTask]
      /\ UNCHANGED <<run, claim, op, handlers, draft, revision, card, loop>>
      BY DEF Vanish, runVars, draftVars
<1>2. task'[r] = NoTask /\ Others(task, task', r)
      BY <1>1 DEF Others, TypeOK
<1> QED BY <1>1, <1>2, ElsewhereFrom, OthersSame

LEMMA CloseDoes ==
    ASSUME TypeOK, NEW r \in Runs, Close(r)
    PROVE  /\ Elsewhere(r)
           /\ UNCHANGED <<run, claim, op, draft, revision, card, loop>>
           /\ task'[r] = NoTask
           /\ r \in handlers' <=> r \in handlers /\ task[r].cancel
<1>1. /\ task' = [task EXCEPT ![r] = NoTask]
      /\ handlers' = IF task[r].cancel THEN handlers ELSE handlers \ {r}
      /\ UNCHANGED <<run, claim, op, draft, revision, card, loop>>
      BY DEF Close, runVars, draftVars
<1>2. task'[r] = NoTask /\ Others(task, task', r)
      BY <1>1 DEF Others, TypeOK
<1>3. handlers' \ {r} = handlers \ {r} /\ (r \in handlers' <=> r \in handlers /\ task[r].cancel)
      BY <1>1
<1> QED BY <1>1, <1>2, <1>3, ElsewhereFrom, OthersSame

LEMMA PresentDoes ==
    ASSUME TypeOK, NEW r \in Runs, Present(r)
    PROVE  /\ Elsewhere(r)
           /\ UNCHANGED <<claim, op, draft, revision, task, handlers, loop>>
           /\ \E x : RunMoves(r, run[r].status, x)
           /\ card'[r] = "nothing"
<1> DEFINE x == IF card[r] = "output" THEN "output" ELSE "leftover"
<1>1. /\ run' = [run EXCEPT ![r].result = x]
      /\ card' = [card EXCEPT ![r] = "nothing"]
      /\ UNCHANGED <<claim, op, draft, revision, task, handlers, loop>>
      BY DEF Present, draftVars
<1>2. run[r] \in RunRows /\ run \in [Runs -> RunRows]
      BY DEF TypeOK
<1> HIDE DEF x
<1>3. run'[r] = [run[r] EXCEPT !.result = x] /\ Others(run, run', r)
      BY <1>1, <1>2 DEF Others
<1>4. RunMoves(r, run[r].status, x)
      BY <1>2, <1>3 DEF RunMoves, RunRows
<1>5. card'[r] = "nothing" /\ Others(card, card', r)
      BY <1>1 DEF Others, TypeOK
<1> QED BY <1>1, <1>3, <1>4, <1>5, ElsewhereFrom, OthersSame

(* An action of the author that only interrupts the task.                  *)
CancelsTask(r) ==
    /\ r \in handlers \/ (run[r].status # "paused" /\ task[r].at # "none")
    /\ UNCHANGED <<run, op, claim, card>>
    /\ task'[r].at = task[r].at
    /\ task[r].at # "none" => task'[r].cancel
    /\ task[r].at = "none" => task' = task

(* One that cancels a run that has no task.                                *)
CancelsRun(r) ==
    /\ r \notin handlers
    /\ run[r].status = "paused"
    /\ RunMoves(r, "cancelled", run[r].result)
    /\ OpMoves(r, op[r].status)
    /\ claim' = ClaimClosed(r, "cancelled")
    /\ UNCHANGED task

LEMMA CancelDoes ==
    ASSUME TypeOK, NEW r \in Runs, Cancel(r)
    PROVE  /\ MayAct(r)
           /\ op[r].cancel
           /\ Elsewhere(r)
           /\ UNCHANGED <<handlers, draft, revision>>
           /\ loop' = [at |-> "project", run |-> r, status |-> "cancelled"]
           /\ CancelsTask(r) \/ CancelsRun(r)
<1>1. /\ run \in [Runs -> RunRows]
      /\ op \in [Runs -> OpRows]
      /\ task \in [Runs -> TaskRows]
      /\ card \in [Runs -> {"nothing", "none", "leftover", "output"}]
      BY DEF TypeOK
<1>2. /\ MayAct(r)
      /\ op[r].cancel
      /\ UNCHANGED <<handlers, draft, revision>>
      /\ loop' = [at |-> "project", run |-> r, status |-> "cancelled"]
      BY DEF Cancel, draftVars, Projecting
<1>3. CASE /\ r \in handlers \/ (run[r].status # "paused" /\ task[r].at # "none")
           /\ task' = Interrupted(r)
           /\ UNCHANGED <<runVars, card>>
  <2>1. UNCHANGED <<run, op, claim, card>>
        BY <1>3 DEF runVars
  <2>2. /\ task'[r].at = task[r].at
        /\ task[r].at # "none" => task'[r].cancel
        /\ task[r].at = "none" => task' = task
        /\ Others(task, task', r)
        BY <1>1, <1>3, InterruptedMoves
  <2> QED BY <1>2, <1>3, <2>1, <2>2, ElsewhereFrom, OthersSame DEF CancelsTask
<1>4. CASE /\ r \notin handlers
           /\ run[r].status = "paused"
           /\ run' = [run EXCEPT ![r].status = "cancelled"]
           /\ op' = Touched(r)
           /\ claim' = ClaimClosed(r, "cancelled")
           /\ card' = CardOf(r, run[r].result)
           /\ UNCHANGED task
  <2>1. RunMoves(r, "cancelled", run[r].result) /\ Others(run, run', r)
        BY <1>1, <1>4, RunStatusMoves
  <2>2. OpMoves(r, op[r].status) /\ Others(op, op', r)
        BY <1>1, <1>4, TouchedMoves
  <2>3. Others(card, card', r)
        BY <1>1, <1>4, CardOfMoves
  <2> QED BY <1>2, <1>4, <2>1, <2>2, <2>3, ElsewhereFrom, OthersSame DEF CancelsRun
<1> QED BY <1>2, <1>3, <1>4 DEF Cancel

LEMMA PauseDoes ==
    ASSUME TypeOK, NEW r \in Runs, Pause(r)
    PROVE  /\ MayAct(r)
           /\ op[r].pause
           /\ Elsewhere(r)
           /\ UNCHANGED <<claim, op, handlers, draft, revision, card>>
           /\ loop' = [at |-> "project", run |-> r, status |-> "paused"]
           /\ \/ /\ run[r].status = "running"
                 /\ RunMoves(r, "paused", run[r].result)
                 /\ task'[r].at = task[r].at
                 /\ task[r].at # "none" => task'[r].cancel
                 /\ task[r].at = "none" => task' = task
              \/ /\ run[r].status # "running"
                 /\ r \in handlers
                 /\ UNCHANGED <<run, task>>
<1>1. /\ run \in [Runs -> RunRows]
      /\ task \in [Runs -> TaskRows]
      BY DEF TypeOK
<1>2. /\ MayAct(r)
      /\ op[r].pause
      /\ UNCHANGED <<claim, op, handlers, draft, revision, card>>
      /\ loop' = [at |-> "project", run |-> r, status |-> "paused"]
      BY DEF Pause, draftVars, Projecting
<1>3. CASE /\ run[r].status = "running"
           /\ run' = [run EXCEPT ![r].status = "paused"]
           /\ task' = Interrupted(r)
  <2>1. RunMoves(r, "paused", run[r].result) /\ Others(run, run', r)
        BY <1>1, <1>3, RunStatusMoves
  <2>2. /\ task'[r].at = task[r].at
        /\ task[r].at # "none" => task'[r].cancel
        /\ task[r].at = "none" => task' = task
        /\ Others(task, task', r)
        BY <1>1, <1>3, InterruptedMoves
  <2>3. Elsewhere(r)
        BY <1>2, <2>1, <2>2, ElsewhereFrom, OthersSame
  <2> QED BY <1>2, <1>3, <2>1, <2>2, <2>3
<1>4. CASE /\ run[r].status # "running"
           /\ r \in handlers
           /\ UNCHANGED <<run, task>>
  <2>1. Elsewhere(r)
        BY <1>2, <1>4, ElsewhereFrom, OthersSame
  <2> QED BY <1>2, <1>4, <2>1
<1> QED BY <1>3, <1>4 DEF Pause

LEMMA ContinueDoes ==
    ASSUME TypeOK, NEW r \in Runs, Continue(r)
    PROVE  /\ MayAct(r)
           /\ op[r].pause
           /\ run[r].status = "paused"
           /\ Elsewhere(r)
           /\ UNCHANGED <<claim, draft, revision, card>>
           /\ RunMoves(r, "running", run[r].result)
           /\ OpMoves(r, op[r].status)
           /\ IF task[r].at = "none"
              THEN task'[r].at = "ready" /\ ~task'[r].cancel /\ r \in handlers'
              ELSE task' = task /\ handlers' = handlers
           /\ loop' = [at |-> "project", run |-> r, status |-> "running"]
<1>1. /\ run \in [Runs -> RunRows]
      /\ op \in [Runs -> OpRows]
      /\ task \in [Runs -> TaskRows]
      /\ handlers \subseteq Runs
      BY DEF TypeOK
<1>2. /\ MayAct(r)
      /\ op[r].pause
      /\ run[r].status = "paused"
      /\ run' = [run EXCEPT ![r].status = "running"]
      /\ op' = Touched(r)
      /\ Scheduled(r, TRUE)
      /\ UNCHANGED <<claim, draft, revision, card>>
      /\ loop' = [at |-> "project", run |-> r, status |-> "running"]
      BY DEF Continue, draftVars, Projecting
<1>3. RunMoves(r, "running", run[r].result) /\ Others(run, run', r)
      BY <1>1, <1>2, RunStatusMoves
<1>4. OpMoves(r, op[r].status) /\ Others(op, op', r)
      BY <1>1, <1>2, TouchedMoves
<1>5. /\ IF task[r].at = "none"
         THEN task'[r].at = "ready" /\ ~task'[r].cancel /\ r \in handlers'
         ELSE task' = task /\ handlers' = handlers
      /\ Others(task, task', r)
      /\ handlers' \ {r} = handlers \ {r}
      BY <1>1, <1>2, ScheduledMoves
<1>6. Elsewhere(r)
      BY <1>2, <1>3, <1>4, <1>5, ElsewhereFrom, OthersSame
<1> QED BY <1>2, <1>3, <1>4, <1>5, <1>6

LEMMA RetryUnitDoes ==
    ASSUME TypeOK, NEW r \in Runs, RetryUnit(r)
    PROVE  /\ MayAct(r)
           /\ run[r].status \in Retryable
           /\ Active(claim[run[r].claim].target) \subseteq {run[r].claim}
           /\ Elsewhere(r)
           /\ UNCHANGED <<draft, revision, card>>
           /\ RunMoves(r, "running", run[r].result)
           /\ op[r].retry
           /\ OpMoves(r, "running")
           /\ claim' = ClaimClosed(r, "running")
           /\ IF task[r].at = "none"
              THEN task'[r].at = "ready" /\ ~task'[r].cancel /\ r \in handlers'
              ELSE task' = task /\ handlers' = handlers
           /\ loop' = [at |-> "project", run |-> r, status |-> "running"]
<1>1. /\ run \in [Runs -> RunRows]
      /\ op \in [Runs -> OpRows]
      /\ task \in [Runs -> TaskRows]
      /\ handlers \subseteq Runs
      BY DEF TypeOK
<1>2. /\ MayAct(r)
      /\ run[r].status \in Retryable
      /\ Active(claim[run[r].claim].target) \subseteq {run[r].claim}
      /\ run' = [run EXCEPT ![r].status = "running"]
      /\ op[r].retry
      /\ op' = OpTo(r, "running")
      /\ claim' = ClaimClosed(r, "running")
      /\ Scheduled(r, TRUE)
      /\ UNCHANGED <<draft, revision, card>>
      /\ loop' = [at |-> "project", run |-> r, status |-> "running"]
      BY DEF RetryUnit, draftVars, Projecting
<1>3. RunMoves(r, "running", run[r].result) /\ Others(run, run', r)
      BY <1>1, <1>2, RunStatusMoves
<1>4. OpMoves(r, "running") /\ Others(op, op', r)
      BY <1>1, <1>2, OpToMoves
<1>5. /\ IF task[r].at = "none"
         THEN task'[r].at = "ready" /\ ~task'[r].cancel /\ r \in handlers'
         ELSE task' = task /\ handlers' = handlers
      /\ Others(task, task', r)
      /\ handlers' \ {r} = handlers \ {r}
      BY <1>1, <1>2, ScheduledMoves
<1>6. Elsewhere(r)
      BY <1>2, <1>3, <1>4, <1>5, ElsewhereFrom, OthersSame
<1> QED BY <1>2, <1>3, <1>4, <1>5, <1>6

LEMMA ProjectDoes ==
    ASSUME TypeOK, Project
    PROVE  LET r == loop.run IN
           /\ Elsewhere(r)
           /\ UNCHANGED <<run, claim, draft, revision, task, handlers, card>>
           /\ IF op[r].status \in Terminal THEN op' = op ELSE OpMoves(r, loop.status)
           /\ loop' = IdleLoop
<1> DEFINE r == loop.run
<1>1. r \in Runs
      BY RunLoop DEF Project
<1>2. /\ op' = IF op[r].status \in Terminal THEN op ELSE OpTo(r, loop.status)
      /\ loop' = IdleLoop
      /\ UNCHANGED <<run, claim, draft, revision, task, handlers, card>>
      BY DEF Project, draftVars, taskVars
<1>3. op \in [Runs -> OpRows]
      BY DEF TypeOK
<1>4. /\ IF op[r].status \in Terminal THEN op' = op ELSE OpMoves(r, loop.status)
      /\ Others(op, op', r)
      BY <1>1, <1>2, <1>3, OpToMoves, OthersSame
<1>5. Elsewhere(r)
      BY <1>1, <1>2, <1>4, ElsewhereFrom, OthersSame
<1> QED BY <1>2, <1>4, <1>5

LEMMA DeleteOperationDoes ==
    ASSUME TypeOK, NEW r \in Runs, DeleteOperation(r)
    PROVE  /\ Elsewhere(r)
           /\ UNCHANGED <<run, claim, draft, revision, task, handlers, card, loop>>
           /\ op[r].status \in Terminal
           /\ op'[r] = AbsentOp
<1>1. /\ op' = [op EXCEPT ![r] = AbsentOp]
      /\ op[r].status \in Terminal
      /\ UNCHANGED <<run, claim, draft, revision, task, handlers, card, loop>>
      BY DEF DeleteOperation, draftVars, taskVars
<1>2. op'[r] = AbsentOp /\ Others(op, op', r)
      BY <1>1 DEF Others, TypeOK
<1> QED BY <1>1, <1>2, ElsewhereFrom, OthersSame

LEMMA ConfirmRunDoes ==
    ASSUME TypeOK, ConfirmRun
    PROVE  /\ UNCHANGED <<claim, draft, revision, task, handlers, card>>
           /\ \/ loop' = IdleLoop /\ UNCHANGED <<run, op>>
              \/ \E r \in Runs :
                   /\ Elsewhere(r)
                   /\ op[r].status # "absent"
                   /\ loop' = [at |-> "complete", run |-> r]
                   /\ IF run[r].status = "waiting_user"
                      THEN /\ RunMoves(r, "completed", run[r].result)
                           /\ OpMoves(r, op[r].status)
                      ELSE UNCHANGED <<run, op>>
<1>1. UNCHANGED <<claim, draft, revision, task, handlers, card>>
      BY DEF ConfirmRun, draftVars, taskVars
<1>2. CASE loop' = IdleLoop /\ UNCHANGED <<run, op, finished>>
      BY <1>1, <1>2
<1>3. CASE \E r \in Producers(loop.stage) :
              /\ loop' = [at |-> "complete", run |-> r]
              /\ IF run[r].status = "waiting_user"
                 THEN /\ run' = [run EXCEPT ![r].status = "completed"]
                      /\ op' = Touched(r)
                 ELSE UNCHANGED <<run, op>>
  <2>1. PICK r \in Producers(loop.stage) :
              /\ loop' = [at |-> "complete", run |-> r]
              /\ IF run[r].status = "waiting_user"
                 THEN /\ run' = [run EXCEPT ![r].status = "completed"]
                      /\ op' = Touched(r)
                 ELSE UNCHANGED <<run, op>>
        BY <1>3
  <2>2. r \in Runs /\ op[r].status # "absent"
        BY DEF Producers, Ended
  <2>3. op \in [Runs -> OpRows] /\ run \in [Runs -> RunRows]
        BY DEF TypeOK
  <2>4. CASE run[r].status = "waiting_user"
    <3>1. RunMoves(r, "completed", run[r].result) /\ Others(run, run', r)
          BY <2>1, <2>2, <2>3, <2>4, RunStatusMoves
    <3>2. OpMoves(r, op[r].status) /\ Others(op, op', r)
          BY <2>1, <2>2, <2>3, <2>4, TouchedMoves
    <3>3. Elsewhere(r)
          BY <1>1, <2>2, <3>1, <3>2, ElsewhereFrom, OthersSame
    <3> QED BY <1>1, <2>1, <2>2, <2>4, <3>1, <3>2, <3>3
  <2>5. CASE run[r].status # "waiting_user"
    <3>1. UNCHANGED <<run, op>>
          BY <2>1, <2>5
    <3>2. Elsewhere(r)
          BY <1>1, <2>2, <3>1, ElsewhereFrom, OthersSame
    <3> QED BY <1>1, <2>1, <2>2, <2>5, <3>1, <3>2
  <2> QED BY <2>4, <2>5
<1> QED BY <1>2, <1>3 DEF ConfirmRun

LEMMA CompleteDoes ==
    ASSUME TypeOK, Complete
    PROVE  LET r == loop.run IN
           /\ Elsewhere(r)
           /\ UNCHANGED <<run, claim, draft, revision, task, handlers, card>>
           /\ IF op[r].status = "waiting_user" THEN OpMoves(r, "completed") ELSE op' = op
           /\ loop' = IdleLoop
<1> DEFINE r == loop.run
<1>1. r \in Runs
      BY RunLoop DEF Complete
<1>2. /\ op' = IF op[r].status = "waiting_user" THEN OpTo(r, "completed") ELSE op
      /\ loop' = IdleLoop
      /\ UNCHANGED <<run, claim, draft, revision, task, handlers, card>>
      BY DEF Complete, draftVars, taskVars
<1>3. op \in [Runs -> OpRows]
      BY DEF TypeOK
<1>4. /\ IF op[r].status = "waiting_user" THEN OpMoves(r, "completed") ELSE op' = op
      /\ Others(op, op', r)
      BY <1>1, <1>2, <1>3, OpToMoves, OthersSame
<1>5. Elsewhere(r)
      BY <1>1, <1>2, <1>4, ElsewhereFrom, OthersSame
<1> QED BY <1>2, <1>4, <1>5

-----------------------------------------------------------------------------
(* Runs that were not created yet have no operation, no task, no handlers  *)
(* and no card; what a step of the loop has yet to commit is about a run   *)
(* that exists, or creates one that does not.                              *)

Untouched(r) ==
    /\ op[r] = AbsentOp
    /\ task[r] = NoTask
    /\ r \notin handlers
    /\ card[r] = "nothing"

LoopInv ==
    /\ loop.at = "create" => run[loop.run].status = "absent"
    /\ loop.at \in {"finish", "settle", "project", "complete"} =>
           run[loop.run].status # "absent"

PresenceInv ==
    /\ \A r \in Runs : run[r].status = "absent" => Untouched(r)
    /\ LoopInv

LoopAbout(q) ==
    /\ loop'.at # "create"
    /\ loop'.at \in {"finish", "settle", "project", "complete"} => loop'.run = q

LEMMA PresenceKept ==
    ASSUME PresenceInv, NEW q \in Runs, Elsewhere(q), run'[q].status # "absent", LoopAbout(q)
    PROVE  PresenceInv'
<1>1. ASSUME NEW r \in Runs, run'[r].status = "absent" PROVE Untouched(r)'
  <2>1. Same(r)
        BY <1>1 DEF Elsewhere
  <2>2. Untouched(r)
        BY <1>1, <2>1 DEF PresenceInv, Same
  <2> QED BY <2>1, <2>2 DEF Same, Untouched
<1>2. LoopInv'
      BY DEF LoopInv, LoopAbout
<1> QED BY <1>1, <1>2 DEF PresenceInv

(* What a step does to claims: nothing, as it leaves every run as live as  *)
(* it was; or it tells the claim of the one run that it turns.             *)
KeptRow(r) ==
    /\ run'[r].claim = run[r].claim
    /\ run'[r].target = run[r].target
    /\ run'[r].status = "absent" <=> run[r].status = "absent"

Quiet ==
    /\ claim' = claim
    /\ loop'.at # "create"
    /\ \A r \in Runs : KeptRow(r) /\ (Live(r)' <=> Live(r))

Turns(q, s) ==
    /\ s \in Terminal \cup {"running"}
    /\ claim' = ClaimClosed(q, s)
    /\ loop'.at # "create"
    /\ run[q].status # "absent"
    /\ s = "running" => Active(claim[run[q].claim].target) \subseteq {run[q].claim}
    /\ \A r \in Runs : KeptRow(r)
    /\ \A r \in Runs \ {q} : Live(r)' <=> Live(r)
    /\ Live(q)' <=> s = "running"

Effect == Quiet \/ \E q \in Runs, s \in Terminal \cup {"running"} : Turns(q, s)

LEMMA SameKept ==
    ASSUME NEW r, Same(r)
    PROVE  KeptRow(r) /\ (Live(r)' <=> Live(r))
BY DEF Same, KeptRow, Live

LEMMA QuietFrom ==
    ASSUME PresenceInv, NEW q \in Runs, Elsewhere(q), LoopAbout(q),
           claim' = claim, KeptRow(q), Live(q)' <=> Live(q), run[q].status # "absent"
    PROVE  PresenceInv' /\ Effect
<1>1. PresenceInv'
      BY PresenceKept DEF KeptRow
<1>2. Quiet
      BY SameKept DEF Quiet, Elsewhere, LoopAbout
<1> QED BY <1>1, <1>2 DEF Effect

LEMMA TurnsFrom ==
    ASSUME PresenceInv, NEW q \in Runs, Elsewhere(q), LoopAbout(q),
           NEW s \in Terminal \cup {"running"},
           claim' = ClaimClosed(q, s), KeptRow(q), Live(q)' <=> s = "running",
           s = "running" => Active(claim[run[q].claim].target) \subseteq {run[q].claim},
           run[q].status # "absent"
    PROVE  PresenceInv' /\ Effect
<1>1. PresenceInv'
      BY PresenceKept DEF KeptRow
<1>2. Turns(q, s)
      BY SameKept DEF Turns, Elsewhere, LoopAbout
<1> QED BY <1>1, <1>2 DEF Effect

LEMMA SettledLoop ==
    ASSUME NEW q \in Runs
    PROVE  /\ loop' = IdleLoop => LoopAbout(q)
           /\ Idle /\ loop' = loop => LoopAbout(q)
           /\ loop' = [at |-> "finish", run |-> q] => LoopAbout(q)
           /\ loop' = [at |-> "settle", run |-> q] => LoopAbout(q)
           /\ loop' = [at |-> "complete", run |-> q] => LoopAbout(q)
           /\ \A s : loop' = [at |-> "project", run |-> q, status |-> s] => LoopAbout(q)
BY DEF LoopAbout, IdleLoop, Idle

LEMMA TaskPresent ==
    ASSUME PresenceInv, NEW r \in Runs,
           task[r].at # "none" \/ r \in handlers \/ card[r] # "nothing" \/ op[r].pause
           \/ op[r].cancel \/ op[r].status # "absent"
    PROVE  run[r].status # "absent"
BY DEF PresenceInv, Untouched, NoTask, AbsentOp

LEMMA BeginEffect ==
    ASSUME TypeOK, PresenceInv, NEW r \in Runs, Begin(r)
    PROVE  PresenceInv' /\ Effect
<1>1. Idle /\ task[r].at # "none" /\ claim' = claim
      BY DEF Begin, Executing, runVars
<1>2. Elsewhere(r) /\ run' = run /\ LoopAbout(r)
      BY <1>1, BeginDoes, SettledLoop
<1>3. KeptRow(r) /\ (Live(r)' <=> Live(r))
      BY <1>2 DEF KeptRow, Live
<1> QED BY <1>1, <1>2, <1>3, QuietFrom, TaskPresent

LEMMA SaveEffect ==
    ASSUME TypeOK, PresenceInv, NEW r \in Runs, NEW s \in Stages, Save(r, s)
    PROVE  PresenceInv' /\ Effect
<1>1. Idle /\ task[r].at # "none"
      BY DEF Save, Executing
<1>2. /\ Elsewhere(r)
      /\ LoopAbout(r)
      /\ claim' = claim
      /\ run'[r].status = run[r].status
      /\ run'[r].claim = run[r].claim
      /\ run'[r].target = run[r].target
      BY <1>1, SaveDoes, SettledLoop
<1>3. KeptRow(r) /\ (Live(r)' <=> Live(r))
      BY <1>2 DEF KeptRow, Live
<1> QED BY <1>1, <1>2, <1>3, QuietFrom, TaskPresent

LEMMA FinishEffect ==
    ASSUME TypeOK, PresenceInv, Finish
    PROVE  PresenceInv' /\ Effect
<1>0. PICK r \in Runs : r = loop.run
      BY RunLoop DEF Finish
<1>1. run[r].status # "absent"
      BY <1>0 DEF Finish, PresenceInv, LoopInv
<1>2. Elsewhere(r) /\ LoopAbout(r) /\ claim' = ClaimClosed(r, "completed")
      BY <1>0, FinishDoes, SettledLoop
<1>3. RunMoves(r, "waiting_user", "output")
      BY <1>0, FinishDoes
<1>4. KeptRow(r) /\ ~Live(r)'
      BY <1>1, <1>3 DEF KeptRow, Live, RunMoves
<1> QED BY <1>1, <1>2, <1>4, TurnsFrom DEF Terminal

LEMMA FailEffect ==
    ASSUME TypeOK, PresenceInv, NEW r \in Runs, Fail(r)
    PROVE  PresenceInv' /\ Effect
<1>1. Idle /\ task[r].at # "none"
      BY DEF Fail, Executing
<1>2. Elsewhere(r) /\ LoopAbout(r) /\ claim' = ClaimClosed(r, "failed")
      BY <1>1, FailDoes, SettledLoop
<1>3. PICK x : RunMoves(r, "failed", x)
      BY FailDoes
<1>4. run[r].status # "absent"
      BY <1>1, TaskPresent
<1>5. KeptRow(r) /\ ~Live(r)'
      BY <1>3, <1>4 DEF KeptRow, Live, RunMoves
<1> QED BY <1>2, <1>4, <1>5, TurnsFrom DEF Terminal

LEMMA UnwindEffect ==
    ASSUME TypeOK, PresenceInv, NEW r \in Runs, Unwind(r)
    PROVE  PresenceInv' /\ Effect
<1>1. Idle /\ task[r].at # "none"
      BY DEF Unwind, Executing
<1>2. run[r].status # "absent"
      BY <1>1, TaskPresent
<1>3. CASE Seen(r) = "running"
  <2>1. /\ Elsewhere(r)
        /\ LoopAbout(r)
        /\ claim' = ClaimClosed(r, "cancelled")
        /\ RunMoves(r, "cancelled", run[r].result)
        BY <1>1, <1>3, UnwindDoes, SettledLoop
  <2>2. KeptRow(r) /\ ~Live(r)'
        BY <1>2, <2>1 DEF KeptRow, Live, RunMoves
  <2> QED BY <1>2, <2>1, <2>2, TurnsFrom DEF Terminal
<1>4. CASE Seen(r) # "running"
  <2>1. /\ Elsewhere(r)
        /\ LoopAbout(r)
        /\ claim' = claim
        /\ run' = run
        BY <1>1, <1>4, UnwindDoes, SettledLoop
  <2>2. KeptRow(r) /\ (Live(r)' <=> Live(r))
        BY <2>1 DEF KeptRow, Live
  <2> QED BY <1>2, <2>1, <2>2, QuietFrom
<1> QED BY <1>3, <1>4

LEMMA SettleEffect ==
    ASSUME TypeOK, PresenceInv, Settle
    PROVE  PresenceInv' /\ Effect
<1>0. PICK r \in Runs : r = loop.run
      BY RunLoop DEF Settle
<1>1. run[r].status # "absent"
      BY <1>0 DEF Settle, PresenceInv, LoopInv
<1>2. Elsewhere(r) /\ LoopAbout(r) /\ claim' = claim /\ run' = run
      BY <1>0, SettleDoes, SettledLoop
<1>3. KeptRow(r) /\ (Live(r)' <=> Live(r))
      BY <1>2 DEF KeptRow, Live
<1> QED BY <1>1, <1>2, <1>3, QuietFrom

LEMMA VanishCloseEffect ==
    ASSUME TypeOK, PresenceInv, NEW r \in Runs, Vanish(r) \/ Close(r)
    PROVE  PresenceInv' /\ Effect
<1>1. Idle /\ task[r].at # "none"
      BY DEF Vanish, Close, Executing
<1>2. Elsewhere(r) /\ LoopAbout(r) /\ claim' = claim /\ run' = run
      BY <1>1, VanishDoes, CloseDoes, SettledLoop
<1>3. KeptRow(r) /\ (Live(r)' <=> Live(r))
      BY <1>2 DEF KeptRow, Live
<1> QED BY <1>1, <1>2, <1>3, QuietFrom, TaskPresent

LEMMA PresentEffect ==
    ASSUME TypeOK, PresenceInv, NEW r \in Runs, Present(r)
    PROVE  PresenceInv' /\ Effect
<1>1. Idle /\ card[r] # "nothing"
      BY DEF Present
<1>2. Elsewhere(r) /\ LoopAbout(r) /\ claim' = claim
      BY <1>1, PresentDoes, SettledLoop
<1>3. PICK x : RunMoves(r, run[r].status, x)
      BY PresentDoes
<1>4. KeptRow(r) /\ (Live(r)' <=> Live(r))
      BY <1>3 DEF KeptRow, Live, RunMoves
<1> QED BY <1>1, <1>2, <1>4, QuietFrom, TaskPresent

LEMMA CancelEffect ==
    ASSUME TypeOK, PresenceInv, NEW r \in Runs, Cancel(r)
    PROVE  PresenceInv' /\ Effect
<1>1. /\ Elsewhere(r)
      /\ LoopAbout(r)
      /\ CancelsTask(r) \/ CancelsRun(r)
      /\ op[r].cancel
      BY CancelDoes, SettledLoop
<1>2. run[r].status # "absent"
      BY <1>1, TaskPresent
<1>3. CASE CancelsTask(r)
  <2>1. claim' = claim /\ KeptRow(r) /\ (Live(r)' <=> Live(r))
        BY <1>3 DEF KeptRow, Live, CancelsTask
  <2> QED BY <1>1, <1>2, <2>1, QuietFrom
<1>4. CASE CancelsRun(r)
  <2>1. claim' = ClaimClosed(r, "cancelled") /\ KeptRow(r) /\ ~Live(r)'
        BY <1>2, <1>4 DEF KeptRow, Live, CancelsRun, RunMoves
  <2> QED BY <1>1, <1>2, <2>1, TurnsFrom DEF Terminal
<1> QED BY <1>1, <1>3, <1>4

LEMMA PauseEffect ==
    ASSUME TypeOK, PresenceInv, NEW r \in Runs, Pause(r)
    PROVE  PresenceInv' /\ Effect
<1>1. Elsewhere(r) /\ LoopAbout(r) /\ op[r].pause /\ claim' = claim
      BY PauseDoes, SettledLoop
<1>2. run[r].status # "absent"
      BY <1>1, TaskPresent
<1>3. \/ run[r].status = "running" /\ RunMoves(r, "paused", run[r].result)
      \/ run' = run
      BY PauseDoes
<1>4. KeptRow(r) /\ (Live(r)' <=> Live(r))
      BY <1>2, <1>3 DEF KeptRow, Live, RunMoves
<1> QED BY <1>1, <1>2, <1>4, QuietFrom

LEMMA ContinueEffect ==
    ASSUME TypeOK, PresenceInv, NEW r \in Runs, Continue(r)
    PROVE  PresenceInv' /\ Effect
<1>1. /\ Elsewhere(r)
      /\ LoopAbout(r)
      /\ claim' = claim
      /\ run[r].status = "paused"
      /\ RunMoves(r, "running", run[r].result)
      BY ContinueDoes, SettledLoop
<1>2. KeptRow(r) /\ (Live(r)' <=> Live(r))
      BY <1>1 DEF KeptRow, Live, RunMoves
<1> QED BY <1>1, <1>2, QuietFrom

LEMMA RetryUnitEffect ==
    ASSUME TypeOK, PresenceInv, NEW r \in Runs, RetryUnit(r)
    PROVE  PresenceInv' /\ Effect
<1>1. /\ Elsewhere(r)
      /\ LoopAbout(r)
      /\ claim' = ClaimClosed(r, "running")
      /\ run[r].status \in Retryable
      /\ RunMoves(r, "running", run[r].result)
      /\ Active(claim[run[r].claim].target) \subseteq {run[r].claim}
      BY RetryUnitDoes, SettledLoop
<1>2. KeptRow(r) /\ Live(r)' /\ run[r].status # "absent"
      BY <1>1 DEF KeptRow, Live, RunMoves, Retryable
<1> QED BY <1>1, <1>2, TurnsFrom

LEMMA ProjectCompleteEffect ==
    ASSUME TypeOK, PresenceInv, Project \/ Complete
    PROVE  PresenceInv' /\ Effect
<1>0. PICK r \in Runs : r = loop.run
      BY RunLoop DEF Project, Complete
<1>1. run[r].status # "absent"
      BY <1>0 DEF Project, Complete, PresenceInv, LoopInv
<1>2. Elsewhere(r) /\ LoopAbout(r) /\ claim' = claim /\ run' = run
      BY <1>0, ProjectDoes, CompleteDoes, SettledLoop
<1>3. KeptRow(r) /\ (Live(r)' <=> Live(r))
      BY <1>2 DEF KeptRow, Live
<1> QED BY <1>1, <1>2, <1>3, QuietFrom

LEMMA DeleteOperationEffect ==
    ASSUME TypeOK, PresenceInv, NEW r \in Runs, DeleteOperation(r)
    PROVE  PresenceInv' /\ Effect
<1>1. /\ Elsewhere(r)
      /\ LoopAbout(r)
      /\ claim' = claim
      /\ run' = run
      /\ op[r].status # "absent"
      BY DeleteOperationDoes, SettledLoop DEF DeleteOperation, Terminal
<1>2. KeptRow(r) /\ (Live(r)' <=> Live(r))
      BY <1>1 DEF KeptRow, Live
<1> QED BY <1>1, <1>2, QuietFrom, TaskPresent

(* Steps that are about no run.                                            *)
Nowhere ==
    /\ UNCHANGED <<run, op, task, handlers, card>>
    /\ loop'.at \in {"idle", "confirm"}

LEMMA NowhereEffect ==
    ASSUME PresenceInv, Nowhere, claim' = claim
    PROVE  PresenceInv' /\ Effect
<1>1. PresenceInv'
      BY DEF Nowhere, PresenceInv, LoopInv, Untouched
<1>2. Quiet
      BY DEF Nowhere, Quiet, KeptRow, Live
<1> QED BY <1>1, <1>2 DEF Effect

LEMMA AuthorSavesNowhere ==
    ASSUME NEW s \in Stages, Edit(s) \/ Confirm(s)
    PROVE  Nowhere /\ claim' = claim
BY DEF Edit, Confirm, AuthorSaves, Nowhere, Idle, runVars, taskVars

LEMMA ConfirmRunEffect ==
    ASSUME TypeOK, PresenceInv, ConfirmRun
    PROVE  PresenceInv' /\ Effect
<1>1. UNCHANGED <<claim, task, handlers, card>>
      BY ConfirmRunDoes
<1>2. CASE loop' = IdleLoop /\ UNCHANGED <<run, op>>
      BY <1>1, <1>2, NowhereEffect DEF Nowhere, IdleLoop
<1>3. ASSUME NEW r \in Runs, Elsewhere(r), op[r].status # "absent",
             loop' = [at |-> "complete", run |-> r],
             IF run[r].status = "waiting_user"
             THEN RunMoves(r, "completed", run[r].result)
             ELSE run' = run
      PROVE  PresenceInv' /\ Effect
  <2>1. LoopAbout(r) /\ run[r].status # "absent"
        BY <1>3, SettledLoop, TaskPresent
  <2>2. KeptRow(r) /\ (Live(r)' <=> Live(r))
        BY <1>3, <2>1 DEF KeptRow, Live, RunMoves
  <2> QED BY <1>1, <1>3, <2>1, <2>2, QuietFrom
<1> QED BY <1>2, <1>3, ConfirmRunDoes

-----------------------------------------------------------------------------
(* Claims: the claim of a run exists and was told of a run; one that was   *)
(* told of none is held; what is about to be created has a claim that is   *)
(* held; two claims of a target are never held at once.                    *)

ClaimedInv ==
    \A r \in Runs : run[r].status # "absent" =>
        /\ run[r].claim \in ClaimIds
        /\ claim[run[r].claim].status # "absent"
        /\ claim[run[r].claim].run # NoRun

OpenInv ==
    \A c \in ClaimIds :
        claim[c].status # "absent" /\ claim[c].run = NoRun => claim[c].status = "running"

CreateInv == loop.at = "create" => claim[loop.claim].status = "running"

UniqueInv ==
    \A c, d \in ClaimIds :
        /\ claim[c].status = "running"
        /\ claim[d].status = "running"
        /\ claim[c].target = claim[d].target
        => c = d

(* Runs that do not exist have no claim.                                   *)
UnclaimedInv == \A r \in Runs : run[r].status = "absent" => run[r].claim = NoRun

ClaimInv ==
    /\ ClaimedInv
    /\ OpenInv
    /\ CreateInv
    /\ UniqueInv
    /\ UnclaimedInv
    /\ ClaimFollowsRun

(* Sole runs stay what they are while claims and presence do.              *)
LEMMA SoleKept ==
    ASSUME \A r \in Runs : KeptRow(r), NEW r \in Runs
    PROVE  Sole(r)' <=> Sole(r)
BY DEF Sole, KeptRow

LEMMA QuietClaims ==
    ASSUME ClaimInv, Quiet
    PROVE  ClaimInv'
<1>1. /\ claim' = claim
      /\ loop'.at # "create"
      /\ \A r \in Runs : KeptRow(r)
      /\ \A r \in Runs : Live(r)' <=> Live(r)
      BY DEF Quiet
<1>2. ClaimedInv' /\ UnclaimedInv'
      BY <1>1 DEF ClaimInv, ClaimedInv, UnclaimedInv, KeptRow
<1>3. OpenInv' /\ UniqueInv'
      BY <1>1 DEF ClaimInv, OpenInv, UniqueInv
<1>4. CreateInv'
      BY <1>1 DEF CreateInv
<1>5. ClaimFollowsRun'
  <2> SUFFICES ASSUME NEW r \in Runs, Sole(r)'
               PROVE  Live(r)' <=> claim'[run'[r].claim].status = "running"
      BY DEF ClaimFollowsRun
  <2>1. Sole(r)
        BY <1>1, SoleKept
  <2>2. Live(r) <=> claim[run[r].claim].status = "running"
        BY <2>1 DEF ClaimInv, ClaimFollowsRun
  <2>3. run'[r].claim = run[r].claim
        BY <1>1 DEF KeptRow
  <2> QED BY <1>1, <2>2, <2>3
<1> QED BY <1>2, <1>3, <1>4, <1>5 DEF ClaimInv

LEMMA ClaimClosedRows ==
    ASSUME claim \in [ClaimIds -> ClaimRows], NEW r \in Runs, run[r].claim \in ClaimIds, NEW s,
           claim' = ClaimClosed(r, s)
    PROVE  /\ claim'[run[r].claim].status = s
           /\ \A c \in ClaimIds : /\ claim'[c].target = claim[c].target
                                  /\ claim'[c].run = claim[c].run
           /\ \A c \in ClaimIds \ {run[r].claim} : claim'[c] = claim[c]
<1> DEFINE d == run[r].claim
<1>1. claim[d] \in ClaimRows
      OBVIOUS
<1>2. claim'[d] = [claim[d] EXCEPT !.status = s]
      BY DEF ClaimClosed
<1>3. /\ claim'[d].status = s
      /\ claim'[d].target = claim[d].target
      /\ claim'[d].run = claim[d].run
      BY <1>1, <1>2 DEF ClaimRows
<1>4. \A c \in ClaimIds \ {d} : claim'[c] = claim[c]
      BY DEF ClaimClosed
<1> QED BY <1>3, <1>4

LEMMA TurnsClaims ==
    ASSUME TypeOK, ClaimInv, NEW q \in Runs, NEW s, Turns(q, s)
    PROVE  ClaimInv'
<1> DEFINE d == run[q].claim
<1>1. /\ s \in Terminal \cup {"running"}
      /\ claim' = ClaimClosed(q, s)
      /\ loop'.at # "create"
      /\ run[q].status # "absent"
      /\ s = "running" => Active(claim[d].target) \subseteq {d}
      /\ \A r \in Runs : KeptRow(r)
      /\ \A r \in Runs \ {q} : Live(r)' <=> Live(r)
      /\ Live(q)' <=> s = "running"
      BY DEF Turns
<1>2. s # "absent"
      BY <1>1 DEF Terminal
<1>3. /\ d \in ClaimIds
      /\ claim[d].status # "absent"
      /\ claim[d].run # NoRun
      BY <1>1 DEF ClaimInv, ClaimedInv
<1>4. /\ claim'[d].status = s
      /\ \A c \in ClaimIds : claim'[c].target = claim[c].target /\ claim'[c].run = claim[c].run
      /\ \A c \in ClaimIds \ {d} : claim'[c] = claim[c]
      BY <1>1, <1>3, ClaimClosedRows DEF TypeOK
<1>5. \A r \in Runs : run'[r].claim = run[r].claim
      BY <1>1 DEF KeptRow
<1>6. ClaimedInv' /\ UnclaimedInv'
  <2>1. ASSUME NEW r \in Runs, run'[r].status # "absent"
        PROVE  /\ run'[r].claim \in ClaimIds
               /\ claim'[run'[r].claim].status # "absent"
               /\ claim'[run'[r].claim].run # NoRun
    <3>1. KeptRow(r)
          BY <1>1
    <3>2. /\ run[r].claim \in ClaimIds
          /\ claim[run[r].claim].status # "absent"
          /\ claim[run[r].claim].run # NoRun
          BY <2>1, <3>1 DEF ClaimInv, ClaimedInv, KeptRow
    <3> QED BY <1>2, <1>4, <3>1, <3>2 DEF KeptRow
  <2>2. UnclaimedInv'
        BY <1>1 DEF ClaimInv, UnclaimedInv, KeptRow
  <2> QED BY <2>1, <2>2 DEF ClaimedInv
<1>7. OpenInv'
      BY <1>3, <1>4 DEF ClaimInv, OpenInv
<1>8. UniqueInv'
  <2> SUFFICES ASSUME NEW c \in ClaimIds, NEW e \in ClaimIds,
                      claim'[c].status = "running", claim'[e].status = "running",
                      claim'[c].target = claim'[e].target
               PROVE  c = e
      BY DEF UniqueInv
  <2>1. claim[c].target = claim[e].target
        BY <1>4
  <2>2. CASE c # d /\ e # d
        BY <1>4, <2>1, <2>2 DEF ClaimInv, UniqueInv
  <2>3. CASE c = d
    <3>1. s = "running"
          BY <1>4, <2>3
    <3>2. ASSUME e # d PROVE FALSE
      <4>1. e \in Active(claim[d].target)
            BY <1>4, <2>1, <2>3, <3>2 DEF Active
      <4> QED BY <1>1, <3>1, <3>2, <4>1
    <3> QED BY <2>3, <3>2
  <2>4. CASE e = d
    <3>1. s = "running"
          BY <1>4, <2>4
    <3>2. ASSUME c # d PROVE FALSE
      <4>1. c \in Active(claim[d].target)
            BY <1>4, <2>1, <2>4, <3>2 DEF Active
      <4> QED BY <1>1, <3>1, <3>2, <4>1
    <3> QED BY <2>4, <3>2
  <2> QED BY <2>2, <2>3, <2>4
<1>9. CreateInv'
      BY <1>1 DEF CreateInv
<1>10. ClaimFollowsRun'
  <2> SUFFICES ASSUME NEW r \in Runs, Sole(r)'
               PROVE  Live(r)' <=> claim'[run'[r].claim].status = "running"
      BY DEF ClaimFollowsRun
  <2>1. Sole(r)
        BY <1>1, SoleKept
  <2>2. CASE r = q
        BY <1>1, <1>4, <1>5, <2>2
  <2>3. CASE r # q
    <3>1. run[r].claim # d /\ run[r].claim \in ClaimIds
          BY <2>1, <2>3 DEF Sole, ClaimInv, ClaimedInv
    <3>2. Live(r) <=> claim[run[r].claim].status = "running"
          BY <2>1 DEF ClaimInv, ClaimFollowsRun
    <3>3. claim'[run[r].claim] = claim[run[r].claim]
          BY <1>4, <3>1
    <3> QED BY <1>1, <1>5, <2>3, <3>2, <3>3
  <2> QED BY <2>2, <2>3
<1> QED BY <1>6, <1>7, <1>8, <1>9, <1>10 DEF ClaimInv

(* A claim is taken or reused for a run about to be created.               *)
Opens ==
    /\ UNCHANGED <<run, op, task, handlers, card>>
    /\ loop'.at = "create"
    /\ loop'.run \in Runs
    /\ run[loop'.run].status = "absent"
    /\ loop'.claim \in ClaimIds
    /\ claim'[loop'.claim].status = "running"
    /\ \/ claim' = claim
       \/ \E k \in ClaimIds, t \in Scopes :
            /\ claim[k].status = "absent"
            /\ Active(t) = {}
            /\ claim' = [claim EXCEPT ![k] = [status |-> "running", target |-> t,
                                              run |-> NoRun]]

LEMMA StartOpens ==
    ASSUME TypeOK, OpenInv, NEW t \in Targets, NEW k \in Keys, Start(t, k)
    PROVE  Opens
<1> DEFINE known == IF claim[k].status # "absent" THEN {k} ELSE Active(t)
<1>1. PICK r \in Runs : /\ run[r].status = "absent"
                        /\ \E c \in IF known = {} THEN {k} ELSE known :
                             loop' = [at |-> "create", run |-> r, target |-> t, claim |-> c,
                                      base |-> revision]
      BY DEF Start
<1>2. PICK c \in IF known = {} THEN {k} ELSE known :
         loop' = [at |-> "create", run |-> r, target |-> t, claim |-> c, base |-> revision]
      BY <1>1
<1>3. /\ claim[k].status # "absent" => claim[k].target = t
      /\ \A x \in known : claim[x].run = NoRun
      /\ claim' = IF known = {}
                  THEN [claim EXCEPT ![k] = [status |-> "running", target |-> t, run |-> NoRun]]
                  ELSE claim
      /\ UNCHANGED <<run, op, task, handlers, card>>
      BY DEF Start, taskVars
<1>4. k \in ClaimIds
      BY DEF ClaimIds
<1>5. /\ loop'.at = "create"
      /\ loop'.run = r
      /\ loop'.claim = c
      BY <1>2
<1>6. CASE known = {}
  <2>1. c = k /\ claim[k].status = "absent" /\ Active(t) = {}
        BY <1>2, <1>6
  <2>2. claim' = [claim EXCEPT ![k] = [status |-> "running", target |-> t, run |-> NoRun]]
        BY <1>3, <1>6
  <2>3. claim'[k].status = "running"
        BY <1>4, <2>2 DEF TypeOK
  <2>4. t \in Scopes
        BY TargetScopes
  <2> HIDE DEF known
  <2> QED BY <1>1, <1>3, <1>4, <1>5, <2>1, <2>2, <2>3, <2>4 DEF Opens
<1>7. CASE known # {}
  <2>1. c \in known /\ claim' = claim
        BY <1>2, <1>3, <1>7
  <2>2. c \in ClaimIds /\ claim[c].status = "running"
    <3>1. CASE claim[k].status # "absent"
          BY <1>3, <1>4, <2>1, <3>1 DEF OpenInv
    <3>2. CASE claim[k].status = "absent"
          BY <2>1, <3>2 DEF Active
    <3> QED BY <3>1, <3>2
  <2> HIDE DEF known
  <2> QED BY <1>1, <1>3, <1>5, <2>1, <2>2 DEF Opens
<1> QED BY <1>6, <1>7

LEMMA RetryAsNewOpens ==
    ASSUME TypeOK, NEW q \in Runs, NEW latest, RetryAsNew(q, latest)
    PROVE  Opens
<1> DEFINE t == Widened(run[q].target)
           held == Active(t)
           base == IF latest THEN revision ELSE run[q].base
<1>1. PICK r \in Runs :
        /\ run[r].status = "absent"
        /\ held = {} => claim[r].status = "absent"
        /\ \E c \in IF held = {} THEN {r} ELSE held :
              loop' = [at |-> "create", run |-> r, target |-> run[q].target, claim |-> c,
                       base |-> base]
        /\ claim' = IF held = {}
                    THEN [claim EXCEPT ![r] = [status |-> "running", target |-> t, run |-> NoRun]]
                    ELSE claim
      BY DEF RetryAsNew
<1>2. PICK c \in IF held = {} THEN {r} ELSE held :
              loop' = [at |-> "create", run |-> r, target |-> run[q].target, claim |-> c,
                       base |-> base]
      BY <1>1
<1>3. UNCHANGED <<run, op, task, handlers, card>>
      BY DEF RetryAsNew, taskVars
<1>4. r \in ClaimIds
      BY DEF ClaimIds
<1> HIDE DEF base
<1>5. /\ loop'.at = "create"
      /\ loop'.run = r
      /\ loop'.claim = c
      BY <1>2
<1>6. CASE held = {}
  <2>1. c = r /\ claim[r].status = "absent" /\ Active(t) = {}
        BY <1>1, <1>2, <1>6
  <2>2. claim' = [claim EXCEPT ![r] = [status |-> "running", target |-> t, run |-> NoRun]]
        BY <1>1, <1>6
  <2>3. t \in Scopes
        BY TargetScopes DEF TypeOK, RunRows
  <2> HIDE DEF t, held
  <2>4. claim'[r].status = "running"
        BY <1>4, <2>2 DEF TypeOK
  <2> QED BY <1>1, <1>3, <1>4, <1>5, <2>1, <2>2, <2>3, <2>4 DEF Opens
<1>7. CASE held # {}
  <2>1. c \in Active(t) /\ claim' = claim
        BY <1>1, <1>2, <1>7
  <2> HIDE DEF t, held
  <2>2. c \in ClaimIds /\ claim[c].status = "running"
        BY <2>1 DEF Active
  <2> QED BY <1>1, <1>3, <1>5, <2>1, <2>2 DEF Opens
<1> QED BY <1>6, <1>7

LEMMA OpensPresence ==
    ASSUME PresenceInv, Opens
    PROVE  PresenceInv'
<1>1. /\ UNCHANGED <<run, op, task, handlers, card>>
      /\ loop'.at = "create"
      /\ run[loop'.run].status = "absent"
      BY DEF Opens
<1>2. LoopInv'
      BY <1>1 DEF LoopInv
<1> QED BY <1>1, <1>2 DEF PresenceInv, Untouched

LEMMA OpensClaims ==
    ASSUME TypeOK, ClaimInv, Opens
    PROVE  ClaimInv'
<1>1. /\ run' = run
      /\ loop'.at = "create"
      /\ loop'.claim \in ClaimIds
      /\ claim'[loop'.claim].status = "running"
      BY DEF Opens
<1>2. CreateInv'
      BY <1>1 DEF CreateInv
<1>3. CASE claim' = claim
  <2>1. ClaimedInv' /\ OpenInv' /\ UniqueInv' /\ UnclaimedInv'
        BY <1>1, <1>3 DEF ClaimInv, ClaimedInv, OpenInv, UniqueInv, UnclaimedInv
  <2>2. ClaimFollowsRun'
        BY <1>1, <1>3 DEF ClaimInv, ClaimFollowsRun, Sole, Live
  <2> QED BY <1>2, <2>1, <2>2 DEF ClaimInv
<1>4. ASSUME NEW k \in ClaimIds, NEW t \in Scopes, claim[k].status = "absent",
             Active(t) = {},
             claim' = [claim EXCEPT ![k] = [status |-> "running", target |-> t, run |-> NoRun]]
      PROVE  ClaimInv'
  <2>1. /\ claim'[k].status = "running"
        /\ claim'[k].target = t
        /\ \A c \in ClaimIds \ {k} : claim'[c] = claim[c]
        BY <1>4 DEF TypeOK
  <2>2. \A r \in Runs : run[r].status # "absent" =>
            run[r].claim \in ClaimIds /\ claim'[run[r].claim] = claim[run[r].claim]
        BY <1>4, <2>1 DEF ClaimInv, ClaimedInv
  <2>3. ClaimedInv' /\ UnclaimedInv'
        BY <1>1, <2>2 DEF ClaimInv, ClaimedInv, UnclaimedInv
  <2>4. OpenInv'
        BY <2>1 DEF ClaimInv, OpenInv
  <2>5. UniqueInv'
    <3>1. \A c \in ClaimIds : ~(claim[c].status = "running" /\ claim[c].target = t)
          BY <1>4 DEF Active
    <3> QED BY <2>1, <3>1 DEF ClaimInv, UniqueInv
  <2>6. ClaimFollowsRun'
    <3> SUFFICES ASSUME NEW r \in Runs, Sole(r)'
                 PROVE  Live(r)' <=> claim'[run'[r].claim].status = "running"
        BY DEF ClaimFollowsRun
    <3>1. Sole(r) /\ run[r].status # "absent"
          BY <1>1 DEF Sole
    <3>2. Live(r) <=> claim[run[r].claim].status = "running"
          BY <3>1 DEF ClaimInv, ClaimFollowsRun
    <3> QED BY <1>1, <2>2, <3>1, <3>2 DEF Live
  <2> QED BY <1>2, <2>3, <2>4, <2>5, <2>6 DEF ClaimInv
<1> QED BY <1>3, <1>4 DEF Opens

LEMMA CreatePresence ==
    ASSUME TypeOK, PresenceInv, Create
    PROVE  PresenceInv'
<1>1. PICK r \in Runs : r = loop.run
      BY CreateLoop DEF Create
<1>2. Elsewhere(r) /\ run'[r].status = "running" /\ LoopAbout(r)
      BY <1>1, CreateDoes, SettledLoop
<1> QED BY <1>2, PresenceKept

LEMMA CreateClaims ==
    ASSUME TypeOK, ClaimInv, PresenceInv, Create
    PROVE  ClaimInv'
<1>1. PICK r \in Runs : r = loop.run
      BY CreateLoop DEF Create
<1>2. PICK d \in ClaimIds : d = loop.claim
      BY CreateLoop DEF Create
<1>3. /\ Elsewhere(r)
      /\ run'[r].status = "running"
      /\ run'[r].claim = d
      /\ loop' = IdleLoop
      BY <1>1, <1>2, CreateDoes
<1>4. /\ run[r].status = "absent"
      /\ run[r].claim = NoRun
      /\ claim[d].status = "running"
      BY <1>1, <1>2 DEF Create, PresenceInv, LoopInv, ClaimInv, UnclaimedInv, CreateInv
<1>5. /\ claim'[d].status = claim[d].status
      /\ claim'[d].target = claim[d].target
      /\ claim'[d].run = r
      /\ \A c \in ClaimIds \ {d} : claim'[c] = claim[c]
  <2>1. claim' = [claim EXCEPT ![d].run = r]
        BY <1>1, <1>2 DEF Create
  <2>2. claim[d] \in ClaimRows
        BY DEF TypeOK
  <2>3. claim'[d] = [claim[d] EXCEPT !.run = r]
        BY <2>1 DEF TypeOK
  <2>4. \A c \in ClaimIds \ {d} : claim'[c] = claim[c]
        BY <2>1 DEF TypeOK
  <2> QED BY <2>2, <2>3, <2>4 DEF ClaimRows
<1>6. NoRun \notin ClaimIds
      BY RunsAssumption DEF ClaimIds
<1>7. \A q \in Runs \ {r} : run'[q] = run[q]
      BY <1>3 DEF Elsewhere, Same
<1>8. \A c \in ClaimIds : claim'[c].status = claim[c].status /\ claim'[c].target = claim[c].target
      BY <1>5
<1>9. ClaimedInv' /\ UnclaimedInv'
  <2>1. ASSUME NEW q \in Runs, run'[q].status # "absent"
        PROVE  /\ run'[q].claim \in ClaimIds
               /\ claim'[run'[q].claim].status # "absent"
               /\ claim'[run'[q].claim].run # NoRun
    <3>1. CASE q = r
          BY <1>3, <1>4, <1>5, <3>1, RunsAssumption
    <3>2. CASE q # r
      <4>1. /\ run[q].claim \in ClaimIds
            /\ claim[run[q].claim].status # "absent"
            /\ claim[run[q].claim].run # NoRun
            BY <1>7, <2>1, <3>2 DEF ClaimInv, ClaimedInv
      <4>2. claim'[run[q].claim].run # NoRun
            BY <1>5, <4>1, RunsAssumption
      <4> QED BY <1>7, <1>8, <3>2, <4>1, <4>2
    <3> QED BY <3>1, <3>2
  <2>2. UnclaimedInv'
        BY <1>3, <1>7 DEF ClaimInv, UnclaimedInv
  <2> QED BY <2>1, <2>2 DEF ClaimedInv
<1>10. OpenInv'
       BY <1>5, RunsAssumption DEF ClaimInv, OpenInv
<1>11. UniqueInv'
       BY <1>8 DEF ClaimInv, UniqueInv
<1>12. CreateInv'
       BY <1>3 DEF CreateInv, IdleLoop
<1>13. ClaimFollowsRun'
  <2> SUFFICES ASSUME NEW q \in Runs, Sole(q)'
               PROVE  Live(q)' <=> claim'[run'[q].claim].status = "running"
      BY DEF ClaimFollowsRun
  <2>1. CASE q = r
        BY <1>3, <1>4, <1>5, <2>1 DEF Live
  <2>2. CASE q # r
    <3>1. /\ run[q].status # "absent"
          /\ \A p \in Runs \ {q} : run'[p].claim # run[q].claim
          BY <1>7, <2>2 DEF Sole
    <3>2. run[q].claim \in ClaimIds
          BY <3>1 DEF ClaimInv, ClaimedInv
    <3>3. \A p \in Runs \ {q} : run[p].claim # run[q].claim
          BY <1>4, <1>6, <1>7, <3>1, <3>2
    <3>4. Sole(q)
          BY <3>1, <3>3 DEF Sole
    <3>5. Live(q) <=> claim[run[q].claim].status = "running"
          BY <3>4 DEF ClaimInv, ClaimFollowsRun
    <3> QED BY <1>7, <1>8, <2>2, <3>2, <3>5 DEF Live
  <2> QED BY <2>1, <2>2
<1> QED BY <1>9, <1>10, <1>11, <1>12, <1>13 DEF ClaimInv

LEMMA CrashRuns ==
    ASSUME TypeOK, Crash, NEW r \in Runs
    PROVE  /\ run'[r].status = Recovered(r)
           /\ run'[r].claim = run[r].claim
           /\ run'[r].target = run[r].target
           /\ run'[r].result = run[r].result
           /\ run'[r].done = run[r].done
<1>1. run'[r] = [run[r] EXCEPT !.status = Recovered(r)]
      BY DEF Crash
<1>2. run[r] \in RunRows
      BY DEF TypeOK
<1> QED BY <1>1, <1>2 DEF RunRows

LEMMA CrashPresence ==
    ASSUME TypeOK, PresenceInv, Crash
    PROVE  PresenceInv'
<1>1. LoopInv'
      BY DEF Crash, LoopInv, IdleLoop
<1>2. ASSUME NEW r \in Runs, run'[r].status = "absent" PROVE Untouched(r)'
  <2>1. run[r].status = "absent"
        BY <1>2, CrashRuns DEF Recovered
  <2>2. op[r] = AbsentOp
        BY <2>1 DEF PresenceInv, Untouched
  <2>3. op'[r] = AbsentOp
        BY <2>2 DEF Crash, Abandoned, AbsentOp
  <2>4. task'[r] = NoTask /\ r \notin handlers' /\ card'[r] = "nothing"
        BY DEF Crash
  <2> QED BY <2>3, <2>4 DEF Untouched
<1> QED BY <1>1, <1>2 DEF PresenceInv

LEMMA CrashClaims ==
    ASSUME TypeOK, ClaimInv, Crash
    PROVE  ClaimInv'
<1> DEFINE mine(c) == {r \in Runs : run[r].status = "running" /\ run[r].claim = c}
<1>1. PICK order : claim' = [c \in ClaimIds |-> ClaimRecovered(c, order)]
      BY DEF Crash
<1>2. ASSUME NEW c \in ClaimIds
      PROVE  /\ claim'[c].target = claim[c].target
             /\ claim'[c].run = claim[c].run
             /\ mine(c) = {} => claim'[c] = claim[c]
             /\ mine(c) # {} => claim'[c].status \in {"completed", "interrupted"}
  <2>1. claim[c] \in ClaimRows
        BY DEF TypeOK
  <2>2. claim'[c] = ClaimRecovered(c, order)
        BY <1>1
  <2>3. CASE mine(c) = {}
        BY <2>2, <2>3 DEF ClaimRecovered
  <2>4. CASE mine(c) # {}
    <3>1. \/ claim'[c] = [claim[c] EXCEPT !.status = "completed"]
          \/ claim'[c] = [claim[c] EXCEPT !.status = "interrupted"]
          BY <2>2, <2>4 DEF ClaimRecovered
    <3> QED BY <2>1, <2>4, <3>1 DEF ClaimRows
  <2> QED BY <2>3, <2>4
<1>3. loop'.at # "create"
      BY DEF Crash, IdleLoop
<1>4. ASSUME NEW r \in Runs
      PROVE  KeptRow(r)
  <2>1. run'[r].status = "absent" <=> run[r].status = "absent"
        BY CrashRuns DEF Recovered
  <2> QED BY <2>1, CrashRuns DEF KeptRow
<1>5. ASSUME NEW c \in ClaimIds
      PROVE  /\ claim[c].status # "absent" => claim'[c].status # "absent"
             /\ claim'[c].status = "running" => claim[c].status = "running" /\ mine(c) = {}
             /\ claim'[c].status # "absent" => claim[c].status # "absent"
  <2>1. mine(c) # {} => claim[c].status # "absent"
        BY DEF ClaimInv, ClaimedInv
  <2> QED BY <1>2, <2>1
<1>6. ClaimedInv' /\ UnclaimedInv'
  <2>1. ASSUME NEW r \in Runs, run'[r].status # "absent"
        PROVE  /\ run'[r].claim \in ClaimIds
               /\ claim'[run'[r].claim].status # "absent"
               /\ claim'[run'[r].claim].run # NoRun
    <3>1. KeptRow(r)
          BY <1>4
    <3>2. /\ run[r].claim \in ClaimIds
          /\ claim[run[r].claim].status # "absent"
          /\ claim[run[r].claim].run # NoRun
          BY <2>1, <3>1 DEF ClaimInv, ClaimedInv, KeptRow
    <3> QED BY <1>2, <1>5, <3>1, <3>2 DEF KeptRow
  <2>2. UnclaimedInv'
        BY <1>4 DEF ClaimInv, UnclaimedInv, KeptRow
  <2> QED BY <2>1, <2>2 DEF ClaimedInv
<1>7. OpenInv'
  <2> SUFFICES ASSUME NEW c \in ClaimIds, claim'[c].status # "absent", claim'[c].run = NoRun
               PROVE  claim'[c].status = "running"
      BY DEF OpenInv
  <2>1. claim[c].run = NoRun /\ claim[c].status # "absent"
        BY <1>2, <1>5
  <2>2. mine(c) = {}
        BY <2>1 DEF ClaimInv, ClaimedInv
  <2> QED BY <1>2, <2>1, <2>2 DEF ClaimInv, OpenInv
<1>8. UniqueInv'
      BY <1>2, <1>5 DEF ClaimInv, UniqueInv
<1>9. CreateInv'
      BY <1>3 DEF CreateInv
<1>10. ClaimFollowsRun'
  <2> SUFFICES ASSUME NEW r \in Runs, Sole(r)'
               PROVE  Live(r)' <=> claim'[run'[r].claim].status = "running"
      BY DEF ClaimFollowsRun
  <2>1. Sole(r) /\ run'[r].claim = run[r].claim
        BY <1>4, SoleKept DEF KeptRow
  <2>2. Live(r) <=> claim[run[r].claim].status = "running"
        BY <2>1 DEF ClaimInv, ClaimFollowsRun
  <2>3. run[r].claim \in ClaimIds
        BY <2>1 DEF Sole, ClaimInv, ClaimedInv
  <2>4. mine(run[r].claim) = IF run[r].status = "running" THEN {r} ELSE {}
        BY <2>1 DEF Sole
  <2>5. run'[r].status = Recovered(r)
        BY CrashRuns
  <2>6. CASE run[r].status = "running"
    <3>1. ~Live(r)'
          BY <2>5, <2>6 DEF Recovered, Live
    <3> QED BY <1>2, <2>1, <2>3, <2>4, <2>6, <3>1
  <2>7. CASE run[r].status # "running"
    <3>1. Live(r)' <=> Live(r)
          BY <2>5, <2>7 DEF Recovered, Live
    <3> QED BY <1>2, <2>1, <2>2, <2>3, <2>4, <2>7, <3>1
  <2> QED BY <2>6, <2>7
<1> QED BY <1>6, <1>7, <1>8, <1>9, <1>10 DEF ClaimInv

LEMMA ClaimInit ==
    ASSUME Init
    PROVE  PresenceInv /\ ClaimInv
<1>1. /\ \A r \in Runs : run[r].status = "absent" /\ run[r].claim = NoRun /\ Untouched(r)
      /\ \A c \in ClaimIds : claim[c].status = "absent"
      /\ loop.at = "idle"
      BY DEF Init, AbsentRun, AbsentClaim, IdleLoop, Untouched
<1>2. PresenceInv
      BY <1>1 DEF PresenceInv, LoopInv
<1>3. ClaimInv
      BY <1>1 DEF ClaimInv, ClaimedInv, OpenInv, CreateInv, UniqueInv, UnclaimedInv,
                  ClaimFollowsRun, Sole
<1> QED BY <1>2, <1>3

LEMMA ClaimNext ==
    ASSUME TypeOK, PresenceInv, ClaimInv, [Next]_vars
    PROVE  PresenceInv' /\ ClaimInv'
<1>1. CASE UNCHANGED vars
  <2>1. UNCHANGED <<run, claim, op, task, handlers, card, loop>>
        BY <1>1 DEF vars, runVars, taskVars
  <2>2. PresenceInv'
        BY <2>1 DEF PresenceInv, LoopInv, Untouched
  <2>3. ClaimInv'
        BY <2>1 DEF ClaimInv, ClaimedInv, OpenInv, CreateInv, UniqueInv, UnclaimedInv,
                    ClaimFollowsRun, Sole, Live
  <2> QED BY <2>2, <2>3
<1>2. CASE Crash
      BY <1>2, CrashPresence, CrashClaims
<1>3. ASSUME Effect PROVE ClaimInv'
      BY <1>3, QuietClaims, TurnsClaims DEF Effect
<1>4. CASE Running
  <2>1. ASSUME NEW t \in Targets, NEW k \in Keys, Start(t, k) PROVE PresenceInv' /\ ClaimInv'
        BY <2>1, StartOpens, OpensPresence, OpensClaims DEF ClaimInv
  <2>2. ASSUME NEW r \in Runs, Step(r) PROVE PresenceInv' /\ ClaimInv'
        BY <1>3, <2>2, BeginEffect, SaveEffect, FailEffect, UnwindEffect, VanishCloseEffect
           DEF Step
  <2>3. ASSUME NEW r \in Runs, Present(r) PROVE PresenceInv' /\ ClaimInv'
        BY <1>3, <2>3, PresentEffect
  <2>4. ASSUME NEW r \in Runs, Author(r) PROVE PresenceInv' /\ ClaimInv'
    <3>1. ASSUME NEW latest \in BOOLEAN, RetryAsNew(r, latest) PROVE PresenceInv' /\ ClaimInv'
          BY <3>1, RetryAsNewOpens, OpensPresence, OpensClaims
    <3> QED BY <1>3, <2>4, <3>1, CancelEffect, PauseEffect, ContinueEffect, RetryUnitEffect,
               DeleteOperationEffect DEF Author
  <2>5. ASSUME NEW s \in Stages, Edit(s) \/ Confirm(s) PROVE PresenceInv' /\ ClaimInv'
        BY <1>3, <2>5, AuthorSavesNowhere, NowhereEffect
  <2>6. ASSUME Commit PROVE PresenceInv' /\ ClaimInv'
        BY <1>3, <2>6, CreatePresence, CreateClaims, FinishEffect, SettleEffect,
           ProjectCompleteEffect, ConfirmRunEffect DEF Commit
  <2> QED BY <1>4, <2>1, <2>2, <2>3, <2>4, <2>5, <2>6 DEF Running
<1> QED BY <1>1, <1>2, <1>4 DEF Next

LEMMA ClaimsInvariant == Spec => [](TypeOK /\ PresenceInv /\ ClaimInv)
<1> DEFINE Inv == TypeOK /\ PresenceInv /\ ClaimInv
<1>1. Init => Inv
      BY InitTyped, ClaimInit
<1>2. Inv /\ [Next]_vars => Inv'
      BY NextTyped, ClaimNext
<1> QED BY <1>1, <1>2, PTL DEF Spec

(* However a run ends, resumes or is recovered, the claim that admitted it *)
(* is held exactly while it may still produce.                             *)
THEOREM ClaimFollowsRunHolds == Spec => []ClaimFollowsRun
<1>1. ClaimInv => ClaimFollowsRun
      BY DEF ClaimInv
<1> QED BY <1>1, ClaimsInvariant, PTL

(* No two runs that own a claim of their target each produce the same      *)
(* target.                                                                 *)
THEOREM OneProducerHolds == Spec => []OneProducer
<1>1. ClaimInv => OneProducer
  <2> SUFFICES ASSUME ClaimInv, NEW r \in Runs, NEW q \in Runs, Sole(r), Sole(q),
                      ClaimsItsTarget(r), ClaimsItsTarget(q),
                      Live(r), Live(q), run[r].target = run[q].target
               PROVE  r = q
      BY DEF OneProducer
  <2>1. /\ claim[run[r].claim].status = "running"
        /\ claim[run[q].claim].status = "running"
        BY DEF ClaimInv, ClaimFollowsRun
  <2>2. /\ run[r].claim \in ClaimIds
        /\ run[q].claim \in ClaimIds
        /\ claim[run[r].claim].target = claim[run[q].claim].target
        BY DEF ClaimInv, ClaimedInv, Sole, ClaimsItsTarget
  <2>3. run[r].claim = run[q].claim
        BY <2>1, <2>2 DEF ClaimInv, UniqueInv
  <2> QED BY <2>3 DEF Sole
<1> QED BY <1>1, ClaimsInvariant, PTL

-----------------------------------------------------------------------------
(* The draft: only saves of runs and of the author change it, only a save  *)
(* of a run changes what a run has completed.                              *)

Resting ==
    /\ UNCHANGED <<draft, revision>>
    /\ \A r \in Runs : run[r].status # "absent" => run'[r].done = run[r].done

LEMMA RestingFrom ==
    ASSUME NEW q \in Runs, Elsewhere(q), UNCHANGED <<draft, revision>>,
           run[q].status # "absent" => run'[q].done = run[q].done
    PROVE  Resting
BY DEF Resting, Elsewhere, Same

LEMMA TaskRests ==
    ASSUME TypeOK, NEW r \in Runs,
           Begin(r) \/ Fail(r) \/ Unwind(r) \/ Vanish(r) \/ Close(r) \/ Present(r)
    PROVE  Resting
<1>1. CASE Begin(r)
  <2>1. Elsewhere(r) /\ run' = run
        BY <1>1, BeginDoes
  <2>2. UNCHANGED <<draft, revision>>
        BY <1>1 DEF Begin, draftVars
  <2> QED BY <2>1, <2>2, RestingFrom
<1>2. CASE Fail(r)
  <2>1. Elsewhere(r) /\ UNCHANGED <<draft, revision>> /\ \E x : RunMoves(r, "failed", x)
        BY <1>2, FailDoes
  <2> QED BY <2>1, RestingFrom DEF RunMoves
<1>3. CASE Unwind(r)
  <2>1. Elsewhere(r) /\ UNCHANGED <<draft, revision>> 
        BY <1>3, UnwindDoes
  <2>2. run' = run \/ RunMoves(r, "cancelled", run[r].result)
        BY <1>3, UnwindDoes
  <2> QED BY <2>1, <2>2, RestingFrom DEF RunMoves
<1>4. CASE Vanish(r)
  <2>1. Elsewhere(r) /\ UNCHANGED <<run, draft, revision>>
        BY <1>4, VanishDoes
  <2> QED BY <2>1, RestingFrom
<1>5. CASE Close(r)
  <2>1. Elsewhere(r) /\ UNCHANGED <<run, draft, revision>>
        BY <1>5, CloseDoes
  <2> QED BY <2>1, RestingFrom
<1>6. CASE Present(r)
  <2>1. Elsewhere(r) /\ UNCHANGED <<draft, revision>> /\ \E x : RunMoves(r, run[r].status, x)
        BY <1>6, PresentDoes
  <2> QED BY <2>1, RestingFrom DEF RunMoves
<1> QED BY <1>1, <1>2, <1>3, <1>4, <1>5, <1>6

LEMMA AuthorRests ==
    ASSUME TypeOK, NEW r \in Runs, Author(r)
    PROVE  Resting
<1>1. CASE Cancel(r)
  <2>1. Elsewhere(r) /\ UNCHANGED <<draft, revision>>
        BY <1>1, CancelDoes
  <2>2. run' = run \/ RunMoves(r, "cancelled", run[r].result)
        BY <1>1, CancelDoes DEF CancelsTask, CancelsRun
  <2> QED BY <2>1, <2>2, RestingFrom DEF RunMoves
<1>2. CASE Pause(r)
  <2>1. Elsewhere(r) /\ UNCHANGED <<draft, revision>>
        BY <1>2, PauseDoes
  <2>2. run' = run \/ RunMoves(r, "paused", run[r].result)
        BY <1>2, PauseDoes
  <2> QED BY <2>1, <2>2, RestingFrom DEF RunMoves
<1>3. CASE Continue(r)
  <2>1. Elsewhere(r) /\ UNCHANGED <<draft, revision>> /\ RunMoves(r, "running", run[r].result)
        BY <1>3, ContinueDoes
  <2> QED BY <2>1, RestingFrom DEF RunMoves
<1>4. CASE RetryUnit(r)
  <2>1. Elsewhere(r) /\ UNCHANGED <<draft, revision>> /\ RunMoves(r, "running", run[r].result)
        BY <1>4, RetryUnitDoes
  <2> QED BY <2>1, RestingFrom DEF RunMoves
<1>5. CASE DeleteOperation(r)
  <2>1. Elsewhere(r) /\ UNCHANGED <<run, draft, revision>>
        BY <1>5, DeleteOperationDoes
  <2> QED BY <2>1, RestingFrom
<1>6. CASE \E latest \in BOOLEAN : RetryAsNew(r, latest)
      BY <1>6 DEF RetryAsNew, Resting, draftVars
<1> QED BY <1>1, <1>2, <1>3, <1>4, <1>5, <1>6 DEF Author

LEMMA CommitRests ==
    ASSUME TypeOK, PresenceInv, Commit
    PROVE  Resting
<1>1. CASE Create
  <2>1. PICK r \in Runs : r = loop.run
        BY <1>1, CreateLoop DEF Create
  <2>2. Elsewhere(r)
        BY <1>1, <2>1, CreateDoes
  <2>3. UNCHANGED <<draft, revision>> /\ run[r].status = "absent"
        BY <1>1, <2>1 DEF Create, draftVars, PresenceInv, LoopInv
  <2> QED BY <2>2, <2>3, RestingFrom
<1>2. CASE Finish
  <2>1. PICK r \in Runs : r = loop.run
        BY <1>2, RunLoop DEF Finish
  <2>2. Elsewhere(r) /\ UNCHANGED <<draft, revision>> /\ RunMoves(r, "waiting_user", "output")
        BY <1>2, <2>1, FinishDoes
  <2> QED BY <2>2, RestingFrom DEF RunMoves
<1>3. CASE Settle
      BY <1>3, SettleDoes DEF Resting
<1>4. CASE Project
      BY <1>4, ProjectDoes DEF Resting
<1>5. CASE Complete
      BY <1>5, CompleteDoes DEF Resting
<1>6. CASE ConfirmRun
  <2>1. UNCHANGED <<draft, revision>>
        BY <1>6, ConfirmRunDoes
  <2>2. \/ run' = run
        \/ \E r \in Runs : Elsewhere(r) /\ RunMoves(r, "completed", run[r].result)
        BY <1>6, ConfirmRunDoes
  <2> QED BY <2>1, <2>2, RestingFrom DEF RunMoves, Resting
<1> QED BY <1>1, <1>2, <1>3, <1>4, <1>5, <1>6 DEF Commit

LEMMA Writes ==
    ASSUME TypeOK, PresenceInv, [Next]_vars
    PROVE  \/ Resting
           \/ run' = run /\ \E s \in Stages : AuthorSaves(s)
           \/ \E r \in Runs, s \in Stages : Save(r, s)
<1>1. CASE UNCHANGED vars
      BY <1>1 DEF vars, runVars, draftVars, Resting
<1>2. CASE Crash
      BY <1>2, CrashRuns DEF Resting, Crash, draftVars
<1>3. CASE Running
  <2>1. ASSUME NEW t \in Targets, NEW k \in Keys, Start(t, k) PROVE Resting
        BY <2>1 DEF Start, Resting, draftVars
  <2>2. ASSUME NEW s \in Stages, Edit(s) \/ Confirm(s) PROVE run' = run /\ AuthorSaves(s)
        BY <2>2 DEF Edit, Confirm, AuthorSaves, runVars
  <2> QED BY <1>3, <2>1, <2>2, TaskRests, AuthorRests, CommitRests DEF Running, Step
<1> QED BY <1>1, <1>2, <1>3 DEF Next

(* No stage is newer than the draft.                                       *)
VersionInv == \A s \in Stages : draft[s].version =< revision

LEMMA SaveWrites ==
    ASSUME TypeOK, NEW r \in Runs, NEW s \in Stages, Save(r, s)
    PROVE  /\ Undisturbed(r)
           /\ revision = task[r].expected
           /\ OfConcepts(r) \/ s \notin run[r].done
           /\ revision' = revision + 1
           /\ draft'[s].version = revision + 1
           /\ draft'[s].by = r
           /\ \A t \in Stages \ {s} : draft'[t] = draft[t]
           /\ \A q \in Runs \ {r} : run'[q] = run[q]
BY DEF Save, StillOwned, Remaining, TypeOK

LEMMA AuthorWrites ==
    ASSUME TypeOK, NEW s \in Stages, AuthorSaves(s)
    PROVE  /\ revision' = revision + 1
           /\ draft'[s].version = revision + 1
           /\ draft'[s].by = NoRun
           /\ \A t \in Stages \ {s} : draft'[t] = draft[t]
BY DEF AuthorSaves, TypeOK

LEMMA VersionsInvariant == Spec => []VersionInv
<1>1. Init => VersionInv
      BY DEF Init, VersionInv
<1>2. TypeOK /\ PresenceInv /\ VersionInv /\ [Next]_vars => VersionInv'
  <2> SUFFICES ASSUME TypeOK, PresenceInv, VersionInv, [Next]_vars PROVE VersionInv'
      OBVIOUS
  <2>1. CASE Resting
        BY <2>1 DEF Resting, VersionInv
  <2>2. ASSUME NEW s \in Stages,
               revision' = revision + 1,
               draft'[s].version = revision + 1,
               \A t \in Stages \ {s} : draft'[t] = draft[t]
        PROVE  VersionInv'
    <3>1. revision \in Nat /\ \A t \in Stages : draft[t].version \in Nat
          BY DEF TypeOK
    <3> QED BY <2>2, <3>1 DEF VersionInv
  <2>3. ASSUME NEW s \in Stages, AuthorSaves(s) PROVE VersionInv'
        BY <2>2, <2>3, AuthorWrites
  <2>4. ASSUME NEW r \in Runs, NEW s \in Stages, Save(r, s) PROVE VersionInv'
        BY <2>2, <2>4, SaveWrites
  <2> QED BY <2>1, <2>3, <2>4, Writes
<1> QED BY <1>1, <1>2, ClaimsInvariant, PTL DEF Spec

(* Whatever a task still has in memory, nothing of a run reaches the draft *)
(* once the run is paused or cancelled.                                    *)
THEOREM FencedHolds == Spec => Fenced
<1> DEFINE Held == \A r \in Runs :
              run[r].status \in {"paused", "cancelled"} =>
                  /\ run'[r].done = run[r].done
                  /\ \A s \in Stages : draft'[s] # draft[s] => draft'[s].by # r
<1>1. TypeOK /\ PresenceInv /\ [Next]_vars => [Held]_vars
  <2> SUFFICES ASSUME TypeOK, PresenceInv, [Next]_vars,
                      NEW r \in Runs, run[r].status \in {"paused", "cancelled"}
               PROVE  /\ run'[r].done = run[r].done
                      /\ \A s \in Stages : draft'[s] # draft[s] => draft'[s].by # r
      OBVIOUS
  <2>1. CASE Resting
        BY <2>1 DEF Resting
  <2>2. CASE run' = run /\ \E s \in Stages : AuthorSaves(s)
        BY <2>2, AuthorWrites, RunsAssumption
  <2>3. ASSUME NEW q \in Runs, NEW s \in Stages, Save(q, s)
        PROVE  /\ run'[r].done = run[r].done
               /\ \A t \in Stages : draft'[t] # draft[t] => draft'[t].by # r
    <3>1. q # r
          BY <2>3, SaveWrites DEF Undisturbed
    <3> QED BY <2>3, <3>1, SaveWrites
  <2> QED BY <2>1, <2>2, <2>3, Writes
<1> QED BY <1>1, ClaimsInvariant, PTL DEF Spec, Fenced

(* A run never replaces a stage that changed after it read the draft.      *)
THEOREM AuthorEditIsKept == Spec => AuthorEditKept
<1> DEFINE Kept == \A s \in Stages, r \in Runs :
              draft'[s] # draft[s] /\ draft'[s].by = r => draft[s].version =< task[r].expected
<1>1. TypeOK /\ PresenceInv /\ VersionInv /\ [Next]_vars => [Kept]_vars
  <2> SUFFICES ASSUME TypeOK, PresenceInv, VersionInv, [Next]_vars, NEW s \in Stages,
                      NEW r \in Runs, draft'[s] # draft[s], draft'[s].by = r
               PROVE  draft[s].version =< task[r].expected
      OBVIOUS
  <2>1. ~Resting
        BY DEF Resting
  <2>2. ~\E t \in Stages : AuthorSaves(t)
        BY AuthorWrites, RunsAssumption
  <2>3. PICK q \in Runs, t \in Stages : Save(q, t)
        BY <2>1, <2>2, Writes
  <2>4. q = r /\ t = s /\ revision = task[r].expected
        BY <2>3, SaveWrites
  <2> QED BY <2>4 DEF VersionInv
<1> QED BY <1>1, ClaimsInvariant, VersionsInvariant, PTL DEF Spec, AuthorEditKept

(* But for concepts, no stage is generated by the same run twice.          *)
THEOREM CheckpointsAreKept == Spec => CheckpointsKept
<1> DEFINE Kept == \A s \in Stages, r \in Runs :
              draft'[s] # draft[s] /\ draft'[s].by = r /\ ~OfConcepts(r) => s \notin run[r].done
<1>1. TypeOK /\ PresenceInv /\ [Next]_vars => [Kept]_vars
  <2> SUFFICES ASSUME TypeOK, PresenceInv, [Next]_vars, NEW s \in Stages,
                      NEW r \in Runs, draft'[s] # draft[s], draft'[s].by = r, ~OfConcepts(r)
               PROVE  s \notin run[r].done
      OBVIOUS
  <2>1. ~Resting
        BY DEF Resting
  <2>2. ~\E t \in Stages : AuthorSaves(t)
        BY AuthorWrites, RunsAssumption
  <2>3. PICK q \in Runs, t \in Stages : Save(q, t)
        BY <2>1, <2>2, Writes
  <2>4. q = r /\ t = s
        BY <2>3, SaveWrites
  <2> QED BY <2>3, <2>4, SaveWrites
<1> QED BY <1>1, ClaimsInvariant, PTL DEF Spec, CheckpointsKept

-----------------------------------------------------------------------------
(* A run and its operation, where the author lets each action take effect: *)
(* what they show depends on where the task is, and on what the current    *)
(* step of the event loop has yet to commit about the run.                 *)

Away(r) == loop.at \in {"finish", "settle", "project", "complete"} => loop.run # r

Both(r, status) == run[r].status = status /\ op[r].status = status

(* What the author can cancel has no result, and none is being written.    *)
Cancellable(r) ==
    /\ op[r].status = "absent" => op[r] = AbsentOp
    /\ op[r].cancel => run[r].result = "none" /\ card[r] = "nothing"

Handled(r) == r \in handlers <=> task[r].at # "none"

Shown(r) ==
    \/ op[r].status \in {"absent", run[r].status}
    \/ run[r].status = "interrupted" /\ op[r].status = "cancelled"
    \/ run[r].status \in {"waiting_user", "completed"} /\ op[r].status = "interrupted"

(* A task that was told to unwind.                                         *)
Leaving(r) ==
    \/ /\ run[r].status = "running"
       /\ run[r].result = "none"
       /\ card[r] = "nothing"
       /\ op[r].status \in {"cancelled", "absent"}
    \/ Both(r, "paused") /\ op[r].pause

Rested(r) ==
    /\ run[r].status # "running"
    /\ ~task[r].cancel
    /\ Shown(r)
    /\ run[r].status = "paused" => op[r].status = "paused" /\ op[r].pause

Calm(r) ==
    /\ Handled(r)
    /\ task[r].at = "ready" => ~task[r].cancel /\ Both(r, "running")
    /\ task[r].at = "generating" => IF task[r].cancel THEN Leaving(r) ELSE Both(r, "running")
    /\ task[r].at \in {"none", "closing"} => Rested(r)

(* What was committed about the run, and what was not yet.                 *)
InStep(r) ==
    \/ /\ loop.at = "finish"
       /\ Handled(r)
       /\ task[r].at = "generating"
       /\ Both(r, "running")
    \/ /\ loop.at = "settle"
       /\ Handled(r)
       /\ task[r].at = "closing"
       /\ ~task[r].cancel
       /\ run[r].status = "cancelled"
       /\ op[r].status \in {"cancelled", "absent", "paused"}
    \/ /\ loop.at = "project"
       /\ loop.status = "running"
       /\ Handled(r)
       /\ task[r].at = "ready"
       /\ ~task[r].cancel
       /\ run[r].status = "running"
       /\ op[r].status \in {"paused", "running"}
    \/ /\ loop.at = "project"
       /\ loop.status = "paused"
       /\ Handled(r)
       /\ task[r].at = "generating"
       /\ task[r].cancel
       /\ run[r].status = "paused"
       /\ op[r].status = "running"
       /\ op[r].pause
    \/ /\ loop.at = "project"
       /\ loop.status = "cancelled"
       /\ Handled(r)
       /\ task[r].at = "generating"
       /\ task[r].cancel
       /\ Both(r, "running")
       /\ run[r].result = "none"
       /\ card[r] = "nothing"
    \/ /\ loop.at = "project"
       /\ loop.status = "cancelled"
       /\ Handled(r)
       /\ task[r].at = "none"
       /\ ~task[r].cancel
       /\ run[r].status = "cancelled"
       /\ op[r].status = "paused"
    \/ /\ loop.at = "complete"
       /\ Calm(r)
       /\ op[r].status # "waiting_user"
    \/ /\ loop.at = "complete"
       /\ Handled(r)
       /\ task[r].at \in {"none", "closing"}
       /\ ~task[r].cancel
       /\ run[r].status = "completed"
       /\ op[r].status \in {"waiting_user", "interrupted", "absent"}

Attended(r) ==
    IF Away(r) THEN Calm(r) /\ Cancellable(r)
    ELSE /\ InStep(r)
         /\ Cancellable(r) \/ (loop.at = "project" /\ loop.status = "cancelled"
                               /\ (op[r].status = "absent" => op[r] = AbsentOp))
         
AttendedInv == \A r \in Runs \ (Hurried \cup torn) : Attended(r)

LEMMA AttendedElsewhere ==
    ASSUME NEW r, Same(r), Attended(r), Away(r), Away(r)'
    PROVE  Attended(r)'
<1>1. Calm(r) /\ Cancellable(r)
      BY DEF Attended
<1>2. Calm(r)'
      BY <1>1 DEF Same, Calm, Handled, Leaving, Both, Rested, Shown
<1>3. Cancellable(r)'
      BY <1>1 DEF Same, Cancellable
<1> QED BY <1>2, <1>3 DEF Attended

LEMMA IdleAway ==
    ASSUME NEW r, Idle
    PROVE  Away(r)
BY DEF Idle, Away

LEMMA AwayAfter ==
    ASSUME NEW r, loop' = IdleLoop \/ (Idle /\ loop' = loop)
    PROVE  Away(r)'
BY DEF Idle, IdleLoop, Away

LEMMA ReviewedShown ==
    ASSUME NEW r, NEW s \in {"waiting_user", "failed"}, NEW x, Cancellable(r), OpReviewed(r, s),
           RunMoves(r, s, x), Handled(r), task[r].at # "none", r \in handlers' <=> r \in handlers,
           task'[r].at = "closing", ~task'[r].cancel
    PROVE  Calm(r)' /\ Cancellable(r)'
<1>1. \/ op'[r] = op[r] /\ op[r].status = "absent" /\ op[r] = AbsentOp
      \/ op'[r].status = s /\ ~op'[r].cancel
      BY DEF OpReviewed, Cancellable
<1>2. Cancellable(r)'
      BY <1>1 DEF Cancellable, AbsentOp
<1>3. run'[r].status = s
      BY DEF RunMoves
<1>4. Rested(r)'
      BY <1>1, <1>3 DEF Rested, Shown
<1> QED BY <1>2, <1>4 DEF Calm, Handled

LEMMA BeginAttended ==
    ASSUME TypeOK, NEW r \in Runs, Attended(r), Begin(r)
    PROVE  Attended(r)'
<1>1. Idle /\ task[r].at = "ready"
      BY DEF Begin, Executing
<1>2. Calm(r) /\ Cancellable(r)
      BY <1>1, IdleAway DEF Attended
<1>3. Both(r, "running") /\ ~task[r].cancel /\ r \in handlers
      BY <1>1, <1>2 DEF Calm, Handled
<1>4. /\ UNCHANGED <<run, op, handlers, card>>
      /\ task'[r].at = "generating"
      /\ task'[r].cancel = task[r].cancel
      /\ loop' = loop \/ loop' = [at |-> "finish", run |-> r]
      BY BeginDoes
<1>5. Cancellable(r)' /\ Handled(r)' /\ Both(r, "running")'
      BY <1>2, <1>3, <1>4 DEF Cancellable, Handled, Both
<1>6. Calm(r)'
      BY <1>3, <1>4, <1>5 DEF Calm
<1>7. loop'.at = "finish" => InStep(r)'
      BY <1>4, <1>5 DEF InStep
<1> QED BY <1>1, <1>4, <1>5, <1>6, <1>7 DEF Attended, Away, Idle

LEMMA SaveAttended ==
    ASSUME TypeOK, NEW r \in Runs, NEW s \in Stages, Attended(r), Save(r, s)
    PROVE  Attended(r)'
<1>1. Idle /\ task[r].at = "generating" /\ ~task[r].cancel
      BY DEF Save, Executing, Undisturbed
<1>2. Calm(r) /\ Cancellable(r)
      BY <1>1, IdleAway DEF Attended
<1>3. Both(r, "running") /\ r \in handlers
      BY <1>1, <1>2 DEF Calm, Handled
<1>4. /\ UNCHANGED <<op, handlers, card>>
      /\ run'[r].status = run[r].status
      /\ run'[r].result = run[r].result
      /\ task'[r].at = task[r].at
      /\ task'[r].cancel = task[r].cancel
      /\ loop' = loop \/ loop' = [at |-> "finish", run |-> r]
      BY SaveDoes
<1>5. Cancellable(r)' /\ Handled(r)' /\ Both(r, "running")'
      BY <1>1, <1>2, <1>3, <1>4 DEF Cancellable, Handled, Both
<1>6. Calm(r)'
      BY <1>1, <1>3, <1>4, <1>5 DEF Calm
<1>7. loop'.at = "finish" => InStep(r)'
      BY <1>1, <1>4, <1>5 DEF InStep
<1> QED BY <1>1, <1>4, <1>5, <1>6, <1>7 DEF Attended, Away, Idle

LEMMA FinishAttended ==
    ASSUME TypeOK, NEW r \in Runs, r = loop.run, Attended(r), Finish
    PROVE  Attended(r)'
<1>1. loop.at = "finish"
      BY DEF Finish
<1>2. Handled(r) /\ task[r].at = "generating" /\ Cancellable(r)
      BY <1>1 DEF Attended, InStep, Away
<1>3. /\ handlers' = handlers
      /\ RunMoves(r, "waiting_user", "output")
      /\ OpReviewed(r, "waiting_user")
      /\ task'[r].at = "closing"
      /\ ~task'[r].cancel
      /\ loop' = IdleLoop
      BY FinishDoes
<1>4. Calm(r)' /\ Cancellable(r)'
      BY <1>2, <1>3, ReviewedShown
<1> QED BY <1>3, <1>4, AwayAfter DEF Attended

LEMMA FailAttended ==
    ASSUME TypeOK, NEW r \in Runs, Attended(r), Fail(r)
    PROVE  Attended(r)'
<1>1. Idle /\ task[r].at # "none"
      BY DEF Fail, Executing
<1>2. Handled(r) /\ Cancellable(r)
      BY <1>1, IdleAway DEF Attended, Calm
<1>3. /\ handlers' = handlers
      /\ loop' = loop
      /\ OpReviewed(r, "failed")
      /\ task'[r].at = "closing"
      /\ ~task'[r].cancel
      BY FailDoes
<1>4. PICK x : RunMoves(r, "failed", x)
      BY FailDoes
<1>5. Calm(r)' /\ Cancellable(r)'
      BY <1>1, <1>2, <1>3, <1>4, ReviewedShown
<1> QED BY <1>1, <1>3, <1>5, AwayAfter DEF Attended

LEMMA UnwindAttended ==
    ASSUME TypeOK, NEW r \in Runs, Attended(r), Unwind(r)
    PROVE  Attended(r)'
<1>1. Idle /\ task[r].at \in {"ready", "generating"} /\ ~Undisturbed(r)
      BY DEF Unwind, Executing
<1>2. Calm(r) /\ Cancellable(r)
      BY <1>1, IdleAway DEF Attended
<1>3. task[r].at = "generating" /\ Leaving(r) /\ r \in handlers
      BY <1>1, <1>2 DEF Calm, Handled, Both, Undisturbed
<1>4. /\ UNCHANGED <<op, handlers, card>>
      /\ task'[r].at = "closing"
      /\ ~task'[r].cancel
      BY UnwindDoes
<1>5. Handled(r)'
      BY <1>3, <1>4 DEF Handled
<1>6. CASE Seen(r) = "running"
  <2>1. RunMoves(r, "cancelled", run[r].result) /\ loop' = [at |-> "settle", run |-> r]
        BY <1>6, UnwindDoes
  <2>2. op[r].status \in {"cancelled", "absent", "paused"}
        BY <1>3 DEF Leaving, Both
  <2>3. Cancellable(r)'
        BY <1>2, <1>4, <2>1 DEF Cancellable, RunMoves
  <2>4. InStep(r)'
        BY <1>4, <1>5, <2>1, <2>2 DEF InStep, RunMoves
  <2> QED BY <2>1, <2>3, <2>4 DEF Attended, Away
<1>7. CASE Seen(r) # "running"
  <2>1. UNCHANGED <<run, loop>>
        BY <1>7, UnwindDoes
  <2>2. Both(r, "paused") /\ op[r].pause
        BY <1>3, <1>7 DEF Leaving, Seen
  <2>3. Cancellable(r)'
        BY <1>2, <1>4, <2>1 DEF Cancellable
  <2>4. Rested(r)'
        BY <1>4, <2>1, <2>2 DEF Rested, Shown, Both
  <2>5. Calm(r)'
        BY <1>4, <1>5, <2>4 DEF Calm
  <2> QED BY <1>1, <2>1, <2>3, <2>5, AwayAfter DEF Attended
<1> QED BY <1>6, <1>7

LEMMA SettleAttended ==
    ASSUME TypeOK, NEW r \in Runs, r = loop.run, Attended(r), Settle
    PROVE  Attended(r)'
<1>1. loop.at = "settle"
      BY DEF Settle
<1>2. /\ Handled(r)
      /\ task[r].at = "closing"
      /\ ~task[r].cancel
      /\ run[r].status = "cancelled"
      /\ op[r].status \in {"cancelled", "absent", "paused"}
      /\ Cancellable(r)
      BY <1>1 DEF Attended, InStep, Away
<1>3. /\ UNCHANGED <<run, handlers, task>>
      /\ OpMoves(r, "cancelled")
      /\ loop' = IdleLoop
      BY SettleDoes
<1>4. \/ op'[r] = op[r] /\ op[r].status = "absent" /\ op[r] = AbsentOp
      \/ op'[r].status = "cancelled" /\ ~op'[r].cancel
      BY <1>2, <1>3 DEF OpMoves, Cancellable, Terminal
<1>5. Cancellable(r)'
      BY <1>4 DEF Cancellable, AbsentOp
<1>6. Rested(r)'
      BY <1>2, <1>3, <1>4 DEF Rested, Shown
<1>7. Calm(r)'
      BY <1>2, <1>3, <1>6 DEF Calm, Handled
<1> QED BY <1>3, <1>5, <1>7, AwayAfter DEF Attended

LEMMA VanishAttended ==
    ASSUME NEW r \in Runs, Attended(r), Vanish(r)
    PROVE  FALSE
<1>1. Idle /\ task[r].at = "ready" /\ task[r].cancel
      BY DEF Vanish, Executing
<1> QED BY <1>1, IdleAway DEF Attended, Calm

LEMMA CloseAttended ==
    ASSUME TypeOK, NEW r \in Runs, Attended(r), Close(r)
    PROVE  Attended(r)'
<1>1. Idle /\ task[r].at = "closing"
      BY DEF Close
<1>2. Calm(r) /\ Cancellable(r)
      BY <1>1, IdleAway DEF Attended
<1>3. /\ UNCHANGED <<run, op, card, loop>>
      /\ task'[r] = NoTask
      /\ r \in handlers' <=> r \in handlers /\ task[r].cancel
      BY CloseDoes
<1>4. Rested(r)
      BY <1>1, <1>2 DEF Calm
<1>5. task'[r].at = "none" /\ ~task'[r].cancel
      BY <1>3 DEF NoTask
<1>6. Rested(r)'
      BY <1>3, <1>4, <1>5 DEF Rested, Shown
<1>7. Calm(r)'
      BY <1>3, <1>4, <1>5, <1>6 DEF Calm, Handled, Rested
<1>8. Cancellable(r)'
      BY <1>2, <1>3 DEF Cancellable
<1> QED BY <1>1, <1>3, <1>7, <1>8, AwayAfter DEF Attended

LEMMA PresentAttended ==
    ASSUME TypeOK, NEW r \in Runs, Attended(r), Present(r)
    PROVE  Attended(r)'
<1>1. Idle /\ card[r] # "nothing"
      BY DEF Present
<1>2. Calm(r) /\ Cancellable(r)
      BY <1>1, IdleAway DEF Attended
<1>3. /\ UNCHANGED <<op, task, handlers, loop>>
      /\ \E x : RunMoves(r, run[r].status, x)
      BY PresentDoes
<1>4. run'[r].status = run[r].status
      BY <1>3 DEF RunMoves
<1>5. ~op[r].cancel
      BY <1>1, <1>2 DEF Cancellable
<1>6. Cancellable(r)'
      BY <1>2, <1>3, <1>5 DEF Cancellable
<1>7. Leaving(r) => Leaving(r)'
      BY <1>1, <1>3, <1>4 DEF Leaving, Both
<1>8. Rested(r) => Rested(r)'
      BY <1>3, <1>4 DEF Rested, Shown
<1>9. Calm(r)'
      BY <1>2, <1>3, <1>4, <1>7, <1>8 DEF Calm, Handled, Both
<1> QED BY <1>1, <1>3, <1>6, <1>9, AwayAfter DEF Attended

LEMMA ProjectingAbout ==
    ASSUME NEW r, NEW s, loop' = [at |-> "project", run |-> r, status |-> s]
    PROVE  loop'.at = "project" /\ loop'.run = r /\ loop'.status = s /\ ~Away(r)'
BY DEF Away

LEMMA ActsOn ==
    ASSUME NEW r \in Runs \ Hurried, Attended(r), MayAct(r)
    PROVE  /\ Idle
           /\ Calm(r)
           /\ Cancellable(r)
           /\ task[r].at \in {"none", "generating"}
           /\ ~task[r].cancel
BY IdleAway DEF MayAct, Attended

LEMMA CancelAttended ==
    ASSUME TypeOK, NEW r \in Runs \ Hurried, Attended(r), Cancel(r)
    PROVE  Attended(r)'
<1>1. /\ MayAct(r)
      /\ op[r].cancel
      /\ handlers' = handlers
      /\ loop' = [at |-> "project", run |-> r, status |-> "cancelled"]
      /\ CancelsTask(r) \/ CancelsRun(r)
      BY CancelDoes
<1>2. /\ Calm(r)
      /\ Cancellable(r)
      /\ task[r].at \in {"none", "generating"}
      /\ ~task[r].cancel
      BY <1>1, ActsOn
<1>3. loop'.at = "project" /\ loop'.status = "cancelled" /\ ~Away(r)'
      BY <1>1, ProjectingAbout
<1>4. op[r] # AbsentOp => op[r].status # "absent"
      BY <1>2 DEF Cancellable
<1>5. op[r].status # "absent"
      BY <1>1, <1>4 DEF AbsentOp
<1>6. CASE CancelsTask(r)
  <2>1. /\ r \in handlers \/ task[r].at # "none"
        /\ UNCHANGED <<run, op, card>>
        /\ task'[r].at = task[r].at
        /\ task[r].at # "none" => task'[r].cancel
        BY <1>6 DEF CancelsTask
  <2>2. task[r].at = "generating"
        BY <1>2, <2>1 DEF Calm, Handled
  <2>3. /\ Both(r, "running")
        /\ run[r].result = "none"
        /\ card[r] = "nothing"
        BY <1>1, <1>2, <2>2 DEF Calm, Cancellable
  <2>4. InStep(r)'
        BY <1>1, <1>2, <1>3, <2>1, <2>2, <2>3 DEF InStep, Calm, Handled, Both
  <2> QED BY <1>3, <1>5, <2>1, <2>4 DEF Attended
<1>7. CASE CancelsRun(r)
  <2>1. /\ r \notin handlers
        /\ run[r].status = "paused"
        /\ run'[r].status = "cancelled"
        /\ OpMoves(r, op[r].status)
        /\ task' = task
        BY <1>7 DEF CancelsRun, RunMoves
  <2>2. task[r].at = "none"
        BY <1>2, <2>1 DEF Calm, Handled
  <2>3. op[r].status = "paused"
        BY <1>2, <2>1, <2>2 DEF Calm, Rested
  <2>4. op'[r].status = "paused"
        BY <2>1, <2>3 DEF OpMoves
  <2>5. InStep(r)'
        BY <1>1, <1>2, <1>3, <2>1, <2>2, <2>4 DEF InStep, Handled
  <2> QED BY <1>3, <2>4, <2>5 DEF Attended
<1> QED BY <1>1, <1>6, <1>7

LEMMA PauseAttended ==
    ASSUME TypeOK, NEW r \in Runs \ Hurried, Attended(r), Pause(r)
    PROVE  Attended(r)'
<1>1. /\ MayAct(r)
      /\ op[r].pause
      /\ UNCHANGED <<op, handlers, card>>
      /\ loop' = [at |-> "project", run |-> r, status |-> "paused"]
      /\ \/ /\ run[r].status = "running"
            /\ RunMoves(r, "paused", run[r].result)
            /\ task'[r].at = task[r].at
            /\ task[r].at # "none" => task'[r].cancel
         \/ /\ run[r].status # "running"
            /\ r \in handlers
      BY PauseDoes
<1>2. /\ Calm(r)
      /\ Cancellable(r)
      /\ task[r].at \in {"none", "generating"}
      /\ ~task[r].cancel
      BY <1>1, ActsOn
<1>3. loop'.at = "project" /\ loop'.status = "paused" /\ ~Away(r)'
      BY <1>1, ProjectingAbout
<1>4. /\ run[r].status = "running"
      /\ RunMoves(r, "paused", run[r].result)
      /\ task'[r].at = task[r].at
      /\ task[r].at # "none" => task'[r].cancel
      BY <1>1, <1>2 DEF Calm, Handled, Both
<1>5. task[r].at = "generating" /\ op[r].status = "running"
      BY <1>2, <1>4 DEF Calm, Rested, Both
<1>6. InStep(r)'
      BY <1>1, <1>2, <1>3, <1>4, <1>5 DEF InStep, Calm, Handled, RunMoves
<1>7. Cancellable(r)'
      BY <1>1, <1>2, <1>4 DEF Cancellable, RunMoves
<1> QED BY <1>3, <1>6, <1>7 DEF Attended

LEMMA ContinueAttended ==
    ASSUME TypeOK, NEW r \in Runs \ Hurried, Attended(r), Continue(r)
    PROVE  Attended(r)'
<1>1. /\ MayAct(r)
      /\ run[r].status = "paused"
      /\ card' = card
      /\ RunMoves(r, "running", run[r].result)
      /\ OpMoves(r, op[r].status)
      /\ task[r].at = "none" => task'[r].at = "ready" /\ ~task'[r].cancel /\ r \in handlers'
      /\ loop' = [at |-> "project", run |-> r, status |-> "running"]
      BY ContinueDoes
<1>2. /\ Calm(r)
      /\ Cancellable(r)
      /\ task[r].at \in {"none", "generating"}
      /\ ~task[r].cancel
      BY <1>1, ActsOn
<1>3. loop'.at = "project" /\ loop'.status = "running" /\ ~Away(r)'
      BY <1>1, ProjectingAbout
<1>4. task[r].at = "none" /\ op[r].status = "paused"
      BY <1>1, <1>2 DEF Calm, Rested, Both
<1>5. op'[r].status = "paused" /\ (op'[r].cancel => op[r].cancel)
      BY <1>1, <1>4 DEF OpMoves
<1>6. InStep(r)'
      BY <1>1, <1>3, <1>4, <1>5 DEF InStep, Handled, RunMoves
<1>7. Cancellable(r)'
      BY <1>1, <1>2, <1>5 DEF Cancellable, RunMoves
<1> QED BY <1>3, <1>6, <1>7 DEF Attended

LEMMA RetryUnitAttended ==
    ASSUME TypeOK, NEW r \in Runs \ Hurried, Attended(r), RetryUnit(r)
    PROVE  Attended(r)'
<1>1. /\ MayAct(r)
      /\ run[r].status \in Retryable
      /\ card' = card
      /\ op[r].retry
      /\ RunMoves(r, "running", run[r].result)
      /\ OpMoves(r, "running")
      /\ task[r].at = "none" => task'[r].at = "ready" /\ ~task'[r].cancel /\ r \in handlers'
      /\ loop' = [at |-> "project", run |-> r, status |-> "running"]
      BY RetryUnitDoes
<1>2. /\ Calm(r)
      /\ Cancellable(r)
      /\ task[r].at \in {"none", "generating"}
      /\ ~task[r].cancel
      BY <1>1, ActsOn
<1>3. loop'.at = "project" /\ loop'.status = "running" /\ ~Away(r)'
      BY <1>1, ProjectingAbout
<1>4. task[r].at = "none"
      BY <1>1, <1>2 DEF Calm, Both, Retryable
<1>5. op[r].status # "absent"
      BY <1>1, <1>2 DEF Cancellable, AbsentOp
<1>6. op'[r].status = "running" /\ (op'[r].cancel => op[r].cancel)
      BY <1>1, <1>5 DEF OpMoves
<1>7. InStep(r)'
      BY <1>1, <1>3, <1>4, <1>6 DEF InStep, Handled, RunMoves
<1>8. Cancellable(r)'
      BY <1>1, <1>2, <1>6 DEF Cancellable, RunMoves
<1> QED BY <1>3, <1>7, <1>8 DEF Attended

LEMMA ProjectAttended ==
    ASSUME TypeOK, NEW r \in Runs, r = loop.run, Attended(r), Project
    PROVE  Attended(r)'
<1>1. loop.at = "project" /\ ~Away(r)
      BY DEF Project, Away
<1>2. /\ UNCHANGED <<run, task, handlers, card>>
      /\ IF op[r].status \in Terminal THEN op' = op ELSE OpMoves(r, loop.status)
      /\ loop' = IdleLoop
      BY ProjectDoes
<1>3. InStep(r)
      BY <1>1 DEF Attended
<1>4. Away(r)'
      BY <1>2, AwayAfter
<1>5. CASE loop.status = "running"
  <2>1. /\ Handled(r)
        /\ task[r].at = "ready"
        /\ ~task[r].cancel
        /\ run[r].status = "running"
        /\ op[r].status \in {"paused", "running"}
        /\ Cancellable(r)
        BY <1>1, <1>3, <1>5 DEF InStep, Attended
  <2>2. op'[r].status = "running" /\ (op'[r].cancel => op[r].cancel)
        BY <1>2, <1>5, <2>1 DEF OpMoves, Terminal
  <2>3. Calm(r)' /\ Cancellable(r)'
        BY <1>2, <2>1, <2>2 DEF Calm, Handled, Both, Cancellable
  <2> QED BY <1>4, <2>3 DEF Attended
<1>6. CASE loop.status = "paused"
  <2>1. /\ Handled(r)
        /\ task[r].at = "generating"
        /\ task[r].cancel
        /\ run[r].status = "paused"
        /\ op[r].status = "running"
        /\ op[r].pause
        /\ Cancellable(r)
        BY <1>1, <1>3, <1>6 DEF InStep, Attended
  <2>2. op'[r].status = "paused" /\ op'[r].pause /\ (op'[r].cancel => op[r].cancel)
        BY <1>2, <1>6, <2>1 DEF OpMoves, Terminal
  <2>3. Calm(r)' /\ Cancellable(r)'
        BY <1>2, <2>1, <2>2 DEF Calm, Handled, Both, Leaving, Cancellable
  <2> QED BY <1>4, <2>3 DEF Attended
<1>7. CASE loop.status = "cancelled"
  <2>1. /\ Handled(r)
        /\ op[r].status \in {"running", "paused"}
        /\ \/ /\ task[r].at = "generating"
              /\ task[r].cancel
              /\ run[r].status = "running"
              /\ run[r].result = "none"
              /\ card[r] = "nothing"
           \/ /\ task[r].at = "none"
              /\ ~task[r].cancel
              /\ run[r].status = "cancelled"
        BY <1>1, <1>3, <1>7 DEF InStep, Both
  <2>2. op'[r].status = "cancelled" /\ ~op'[r].cancel
        BY <1>2, <1>7, <2>1 DEF OpMoves, Terminal
  <2>3. Calm(r)' /\ Cancellable(r)'
        BY <1>2, <2>1, <2>2 DEF Calm, Handled, Rested, Shown, Leaving, Cancellable
  <2> QED BY <1>4, <2>3 DEF Attended
<1> QED BY <1>1, <1>5, <1>6, <1>7, ProjectLoop

LEMMA DeleteOperationAttended ==
    ASSUME TypeOK, NEW r \in Runs, Attended(r), DeleteOperation(r)
    PROVE  Attended(r)'
<1>1. Idle
      BY DEF DeleteOperation
<1>2. Calm(r) /\ Cancellable(r)
      BY <1>1, IdleAway DEF Attended
<1>3. /\ UNCHANGED <<run, task, handlers, card, loop>>
      /\ op[r].status \in Terminal
      /\ op'[r] = AbsentOp
      BY DeleteOperationDoes
<1>4. op'[r].status = "absent" /\ ~op'[r].cancel
      BY <1>3 DEF AbsentOp
<1>5. Cancellable(r)'
      BY <1>3, <1>4 DEF Cancellable
<1>6. Calm(r)'
      BY <1>2, <1>3, <1>4 DEF Calm, Handled, Both, Leaving, Rested, Shown, Terminal
<1> QED BY <1>1, <1>3, <1>5, <1>6, AwayAfter DEF Attended

(* Confirming a stage completes the run that produced it, if it waits for  *)
(* the author.                                                             *)
LEMMA ConfirmRunAttended ==
    ASSUME TypeOK, NEW r \in Runs, Attended(r), Away(r), op[r].status # "absent",
           UNCHANGED <<task, handlers, card>>,
           loop' = [at |-> "complete", run |-> r],
           IF run[r].status = "waiting_user"
           THEN RunMoves(r, "completed", run[r].result) /\ OpMoves(r, op[r].status)
           ELSE UNCHANGED <<run, op>>
    PROVE  Attended(r)'
<1>1. Calm(r) /\ Cancellable(r)
      BY DEF Attended
<1>2. loop'.at = "complete" /\ ~Away(r)'
      BY DEF Away
<1>3. task[r].at \in {"none", "ready", "generating", "closing"}
      BY DEF TypeOK, TaskRows
<1>4. CASE run[r].status = "waiting_user"
  <2>1. /\ run'[r].status = "completed"
        /\ run'[r].result = run[r].result
        /\ op'[r].status = op[r].status
        /\ op'[r].cancel => op[r].cancel
        BY <1>4 DEF RunMoves, OpMoves
  <2>2. task[r].at \in {"none", "closing"}
        BY <1>1, <1>3, <1>4 DEF Calm, Both, Leaving
  <2>3. op[r].status \in {"waiting_user", "interrupted"} /\ ~task[r].cancel /\ Handled(r)
        BY <1>1, <1>4, <2>2 DEF Calm, Rested, Shown
  <2>4. InStep(r)'
        BY <1>2, <2>1, <2>2, <2>3 DEF InStep, Handled
  <2>5. Cancellable(r)'
        BY <1>1, <2>1, <2>3 DEF Cancellable
  <2> QED BY <1>2, <2>4, <2>5 DEF Attended
<1>5. CASE run[r].status # "waiting_user"
  <2>1. UNCHANGED <<run, op>>
        BY <1>5
  <2>2. op[r].status # "waiting_user"
        BY <1>1, <1>3, <1>5 DEF Calm, Both, Leaving, Rested, Shown
  <2>3. Calm(r)' /\ Cancellable(r)'
        BY <1>1, <2>1 DEF Calm, Handled, Both, Leaving, Rested, Shown, Cancellable
  <2>4. InStep(r)'
        BY <1>2, <2>1, <2>2, <2>3 DEF InStep
  <2> QED BY <1>2, <2>3, <2>4 DEF Attended
<1> QED BY <1>4, <1>5

LEMMA CompleteAttended ==
    ASSUME TypeOK, NEW r \in Runs, r = loop.run, Attended(r), Complete
    PROVE  Attended(r)'
<1>1. loop.at = "complete" /\ ~Away(r)
      BY DEF Complete, Away
<1>2. /\ UNCHANGED <<run, task, handlers, card>>
      /\ IF op[r].status = "waiting_user" THEN OpMoves(r, "completed") ELSE op' = op
      /\ loop' = IdleLoop
      BY CompleteDoes
<1>3. InStep(r) /\ Cancellable(r)
      BY <1>1 DEF Attended
<1>4. Away(r)'
      BY <1>2, AwayAfter
<1>5. CASE Calm(r) /\ op[r].status # "waiting_user"
  <2>1. Calm(r)' /\ Cancellable(r)'
        BY <1>2, <1>3, <1>5 DEF Calm, Handled, Both, Leaving, Rested, Shown, Cancellable
  <2> QED BY <1>4, <2>1 DEF Attended
<1>6. CASE /\ Handled(r)
           /\ task[r].at \in {"none", "closing"}
           /\ ~task[r].cancel
           /\ run[r].status = "completed"
           /\ op[r].status \in {"waiting_user", "interrupted", "absent"}
  <2>1. \/ op'[r] = op[r] /\ op[r].status \in {"interrupted", "absent"}
        \/ op'[r].status = "completed" /\ ~op'[r].cancel
        BY <1>2, <1>6 DEF OpMoves, Terminal
  <2>2. Cancellable(r)'
        BY <1>2, <1>3, <2>1 DEF Cancellable
  <2>3. Rested(r)'
        BY <1>2, <1>6, <2>1 DEF Rested, Shown
  <2>4. Calm(r)'
        BY <1>2, <1>6, <2>3 DEF Calm, Handled
  <2> QED BY <1>4, <2>2, <2>4 DEF Attended
<1> QED BY <1>1, <1>3, <1>5, <1>6 DEF InStep

LEMMA CreateAttended ==
    ASSUME TypeOK, PresenceInv, NEW r \in Runs, r = loop.run, Create
    PROVE  Attended(r)'
<1>1. run[r].status = "absent"
      BY DEF Create, PresenceInv, LoopInv
<1>2. task[r].at = "none" /\ card[r] = "nothing"
      BY <1>1 DEF PresenceInv, Untouched, NoTask
<1>3. /\ Both(r, "running")'
      /\ run'[r].result = "none"
      /\ card'[r] = "nothing"
      /\ loop' = IdleLoop
      /\ task'[r].at = "ready"
      /\ ~task'[r].cancel
      /\ r \in handlers'
      BY <1>2, CreateDoes DEF Both
<1>4. Calm(r)' /\ Cancellable(r)'
      BY <1>3 DEF Calm, Handled, Both, Cancellable
<1> QED BY <1>3, <1>4, AwayAfter DEF Attended

LEMMA CrashAttended ==
    ASSUME TypeOK, NEW r \in Runs \ torn', Attended(r), Crash
    PROVE  Attended(r)'
<1>1. Away(r)
  <2>1. ASSUME loop.at \in {"finish", "settle", "project", "complete"}
        PROVE  "run" \in DOMAIN loop
        BY <2>1 DEF TypeOK, LoopRows
  <2> QED BY <2>1 DEF Crash, Away
<1>2. Calm(r) /\ Cancellable(r)
      BY <1>1 DEF Attended
<1>3. /\ run'[r].status = Recovered(r)
      /\ run'[r].result = run[r].result
      BY CrashRuns
<1>4. /\ op'[r] = IF op[r].status = "running" THEN [op[r] EXCEPT !.status = "interrupted"]
                  ELSE op[r]
      /\ task'[r] = NoTask
      /\ r \notin handlers'
      /\ card'[r] = "nothing"
      /\ loop' = IdleLoop
      BY DEF Crash, Abandoned
<1>5. /\ op'[r].status = IF op[r].status = "running" THEN "interrupted" ELSE op[r].status
      /\ op'[r].cancel = op[r].cancel
      /\ op'[r].pause = op[r].pause
      /\ op[r].status = "absent" => op'[r] = op[r]
  <2>1. op[r] \in OpRows
        BY DEF TypeOK
  <2> QED BY <1>4, <2>1 DEF OpRows
<1>6. Cancellable(r)'
      BY <1>2, <1>3, <1>4, <1>5 DEF Cancellable
<1>7. task'[r].at = "none" /\ ~task'[r].cancel
      BY <1>4 DEF NoTask
<1>8. task[r].at \in {"none", "ready", "generating", "closing"}
      BY DEF TypeOK, TaskRows
<1>9. \/ Both(r, "running")
      \/ Leaving(r)
      \/ Rested(r)
      BY <1>2, <1>8 DEF Calm
<1>10. Rested(r)'
  <2>1. CASE Both(r, "running")
        BY <1>3, <1>5, <1>7, <2>1 DEF Both, Rested, Shown, Recovered
  <2>2. CASE Leaving(r)
        BY <1>3, <1>5, <1>7, <2>2 DEF Leaving, Both, Rested, Shown, Recovered
  <2>3. CASE Rested(r)
        BY <1>3, <1>5, <1>7, <2>3 DEF Rested, Shown, Recovered
  <2> QED BY <1>9, <2>1, <2>2, <2>3
<1>11. Calm(r)'
       BY <1>4, <1>7, <1>10 DEF Calm, Handled
<1> QED BY <1>4, <1>6, <1>11, AwayAfter DEF Attended

(* Steps about another run, or about none.                                 *)
LEMMA OthersAttended ==
    ASSUME NEW q \in Runs, NEW r \in Runs \ {q}, Attended(r), Elsewhere(q), LoopAbout(q),
           Idle \/ loop.run = q
    PROVE  Attended(r)'
<1>1. Same(r)
      BY DEF Elsewhere
<1>2. Away(r) /\ Away(r)'
      BY DEF Idle, Away, LoopAbout
<1> QED BY <1>1, <1>2, AttendedElsewhere

LEMMA NowhereAttended ==
    ASSUME NEW r \in Runs, Attended(r), UNCHANGED <<run, op, task, handlers, card>>,
           loop.at \in {"idle", "create", "confirm"}, loop'.at \in {"idle", "create", "confirm"}
    PROVE  Attended(r)'
<1>1. Same(r)
      BY DEF Same
<1>2. Away(r) /\ Away(r)'
      BY DEF Away
<1> QED BY <1>1, <1>2, AttendedElsewhere

LEMMA StepAttended ==
    ASSUME TypeOK, NEW r \in Runs, Attended(r), NEW q \in Runs, Step(q) \/ Present(q)
    PROVE  Attended(r)'
<1>1. Idle
      BY DEF Step, Begin, Save, Fail, Unwind, Vanish, Close, Present, Executing
<1>2. CASE q = r
      BY <1>2, BeginAttended, SaveAttended, FailAttended, UnwindAttended, VanishAttended,
         CloseAttended, PresentAttended DEF Step
<1>3. CASE q # r
  <2>1. CASE Begin(q)
    <3>1. Elsewhere(q) /\ LoopAbout(q)
          BY <1>1, <2>1, BeginDoes, SettledLoop
    <3> QED BY <1>1, <1>3, <3>1, OthersAttended
  <2>2. ASSUME NEW s \in Stages, Save(q, s) PROVE Attended(r)'
    <3>1. Elsewhere(q) /\ LoopAbout(q)
          BY <1>1, <2>2, SaveDoes, SettledLoop
    <3> QED BY <1>1, <1>3, <3>1, OthersAttended
  <2>3. CASE Fail(q)
    <3>1. Elsewhere(q) /\ LoopAbout(q)
          BY <1>1, <2>3, FailDoes, SettledLoop
    <3> QED BY <1>1, <1>3, <3>1, OthersAttended
  <2>4. CASE Unwind(q)
    <3>1. Elsewhere(q) /\ LoopAbout(q)
          BY <1>1, <2>4, UnwindDoes, SettledLoop
    <3> QED BY <1>1, <1>3, <3>1, OthersAttended
  <2>5. CASE Vanish(q)
    <3>1. Elsewhere(q) /\ LoopAbout(q)
          BY <1>1, <2>5, VanishDoes, SettledLoop
    <3> QED BY <1>1, <1>3, <3>1, OthersAttended
  <2>6. CASE Close(q)
    <3>1. Elsewhere(q) /\ LoopAbout(q)
          BY <1>1, <2>6, CloseDoes, SettledLoop
    <3> QED BY <1>1, <1>3, <3>1, OthersAttended
  <2>7. CASE Present(q)
    <3>1. Elsewhere(q) /\ LoopAbout(q)
          BY <1>1, <2>7, PresentDoes, SettledLoop
    <3> QED BY <1>1, <1>3, <3>1, OthersAttended
  <2> QED BY <2>1, <2>2, <2>3, <2>4, <2>5, <2>6, <2>7 DEF Step
<1> QED BY <1>2, <1>3

LEMMA AuthorAttended ==
    ASSUME TypeOK, NEW r \in Runs \ Hurried, Attended(r), NEW q \in Runs, Author(q)
    PROVE  Attended(r)'
<1>1. Idle
      BY DEF Author, Cancel, Pause, Continue, RetryUnit, DeleteOperation, RetryAsNew, MayAct
<1>2. ASSUME NEW latest \in BOOLEAN, RetryAsNew(q, latest) PROVE Attended(r)'
  <2>1. UNCHANGED <<run, op, task, handlers, card>> /\ loop'.at = "create"
        BY <1>2, RetryAsNewOpens DEF Opens
  <2> QED BY <1>1, <2>1, NowhereAttended DEF Idle
<1>3. CASE q = r
      BY <1>2, <1>3, CancelAttended, PauseAttended, ContinueAttended, RetryUnitAttended,
         DeleteOperationAttended DEF Author
<1>4. CASE q # r
  <2>1. CASE Cancel(q)
    <3>1. Elsewhere(q) /\ LoopAbout(q)
          BY <2>1, CancelDoes, SettledLoop
    <3> QED BY <1>1, <1>4, <3>1, OthersAttended
  <2>2. CASE Pause(q)
    <3>1. Elsewhere(q) /\ LoopAbout(q)
          BY <2>2, PauseDoes, SettledLoop
    <3> QED BY <1>1, <1>4, <3>1, OthersAttended
  <2>3. CASE Continue(q)
    <3>1. Elsewhere(q) /\ LoopAbout(q)
          BY <2>3, ContinueDoes, SettledLoop
    <3> QED BY <1>1, <1>4, <3>1, OthersAttended
  <2>4. CASE RetryUnit(q)
    <3>1. Elsewhere(q) /\ LoopAbout(q)
          BY <2>4, RetryUnitDoes, SettledLoop
    <3> QED BY <1>1, <1>4, <3>1, OthersAttended
  <2>5. CASE DeleteOperation(q)
    <3>1. Elsewhere(q) /\ LoopAbout(q)
          BY <1>1, <2>5, DeleteOperationDoes, SettledLoop
    <3> QED BY <1>1, <1>4, <3>1, OthersAttended
  <2> QED BY <1>2, <2>1, <2>2, <2>3, <2>4, <2>5 DEF Author
<1> QED BY <1>3, <1>4

LEMMA CommitAttended ==
    ASSUME TypeOK, PresenceInv, NEW r \in Runs, Attended(r), Commit
    PROVE  Attended(r)'
<1>1. CASE Create
  <2>1. PICK q \in Runs : q = loop.run
        BY <1>1, CreateLoop DEF Create
  <2>2. Elsewhere(q) /\ LoopAbout(q)
        BY <1>1, <2>1, CreateDoes, SettledLoop
  <2> QED BY <1>1, <2>1, <2>2, CreateAttended, OthersAttended
<1>2. CASE Finish
  <2>1. PICK q \in Runs : q = loop.run
        BY <1>2, RunLoop DEF Finish
  <2>2. Elsewhere(q) /\ LoopAbout(q)
        BY <1>2, <2>1, FinishDoes, SettledLoop
  <2> QED BY <1>2, <2>1, <2>2, FinishAttended, OthersAttended
<1>3. CASE Settle
  <2>1. PICK q \in Runs : q = loop.run
        BY <1>3, RunLoop DEF Settle
  <2>2. Elsewhere(q) /\ LoopAbout(q)
        BY <1>3, <2>1, SettleDoes, SettledLoop
  <2> QED BY <1>3, <2>1, <2>2, SettleAttended, OthersAttended
<1>4. CASE Project
  <2>1. PICK q \in Runs : q = loop.run
        BY <1>4, RunLoop DEF Project
  <2>2. Elsewhere(q) /\ LoopAbout(q)
        BY <1>4, <2>1, ProjectDoes, SettledLoop
  <2> QED BY <1>4, <2>1, <2>2, ProjectAttended, OthersAttended
<1>5. CASE Complete
  <2>1. PICK q \in Runs : q = loop.run
        BY <1>5, RunLoop DEF Complete
  <2>2. Elsewhere(q) /\ LoopAbout(q)
        BY <1>5, <2>1, CompleteDoes, SettledLoop
  <2> QED BY <1>5, <2>1, <2>2, CompleteAttended, OthersAttended
<1>6. CASE ConfirmRun
  <2>1. loop.at = "confirm" /\ UNCHANGED <<task, handlers, card>>
        BY <1>6, ConfirmRunDoes DEF ConfirmRun
  <2>2. CASE loop' = IdleLoop /\ UNCHANGED <<run, op>>
        BY <2>1, <2>2, NowhereAttended DEF IdleLoop
  <2>3. ASSUME NEW q \in Runs, Elsewhere(q), op[q].status # "absent",
               loop' = [at |-> "complete", run |-> q],
               IF run[q].status = "waiting_user"
               THEN RunMoves(q, "completed", run[q].result) /\ OpMoves(q, op[q].status)
               ELSE UNCHANGED <<run, op>>
        PROVE  Attended(r)'
    <3>1. Away(r)
          BY <2>1 DEF Away
    <3>2. CASE q = r
          BY <2>1, <2>3, <3>1, <3>2, ConfirmRunAttended
    <3>3. CASE q # r
      <4>1. Same(r)
            BY <2>3, <3>3 DEF Elsewhere
      <4>2. Away(r)'
            BY <2>3, <3>3 DEF Away
      <4> QED BY <3>1, <4>1, <4>2, AttendedElsewhere
    <3> QED BY <3>2, <3>3
  <2> QED BY <1>6, <2>2, <2>3, ConfirmRunDoes
<1> QED BY <1>1, <1>2, <1>3, <1>4, <1>5, <1>6 DEF Commit

LEMMA AttendedInit ==
    ASSUME Init
    PROVE  AttendedInv
<1> SUFFICES ASSUME NEW r \in Runs PROVE Attended(r)
    BY DEF AttendedInv
<1>1. /\ run[r].status = "absent"
      /\ op[r] = AbsentOp
      /\ task[r].at = "none"
      /\ ~task[r].cancel
      /\ handlers = {}
      /\ loop.at = "idle"
      BY DEF Init, AbsentRun, NoTask, IdleLoop
<1>2. op[r].status = "absent" /\ ~op[r].cancel
      BY <1>1 DEF AbsentOp
<1>3. Rested(r)
      BY <1>1, <1>2 DEF Rested, Shown
<1>4. Calm(r) /\ Cancellable(r)
      BY <1>1, <1>2, <1>3 DEF Calm, Handled, Cancellable
<1> QED BY <1>1, <1>4 DEF Attended, Away

LEMMA AttendedNext ==
    ASSUME TypeOK, PresenceInv, AttendedInv, [Next]_vars
    PROVE  AttendedInv'
<1> SUFFICES ASSUME NEW r \in Runs, r \notin Hurried, r \notin torn' PROVE Attended(r)'
    BY DEF AttendedInv
<1>1. r \notin torn
      BY DEF Next, Crash, vars
<1>2. Attended(r)
      BY <1>1 DEF AttendedInv
<1>3. CASE UNCHANGED vars
  <2>1. UNCHANGED <<run, op, task, handlers, card, loop>>
        BY <1>3 DEF vars, runVars, taskVars
  <2>2. /\ Away(r)' <=> Away(r)
        /\ Calm(r)' <=> Calm(r)
        /\ Cancellable(r)' <=> Cancellable(r)
        BY <2>1 DEF Away, Calm, Handled, Both, Leaving, Rested, Shown, Cancellable
  <2>3. InStep(r)' <=> InStep(r)
        BY <2>1, <2>2 DEF InStep, Handled, Both
  <2> QED BY <1>2, <2>1, <2>2, <2>3 DEF Attended
<1>4. CASE Crash
      BY <1>2, <1>4, CrashAttended
<1>5. CASE Running
  <2>1. ASSUME NEW t \in Targets, NEW k \in Keys, Start(t, k) PROVE Attended(r)'
    <3>1. /\ loop.at = "idle"
          /\ UNCHANGED <<run, op, task, handlers, card>>
          BY <2>1 DEF Start, Idle, taskVars
    <3>2. loop'.at = "create"
          BY <2>1 DEF Start
    <3> QED BY <1>2, <3>1, <3>2, NowhereAttended
  <2>2. ASSUME NEW s \in Stages, Edit(s) \/ Confirm(s) PROVE Attended(r)'
    <3>1. loop.at = "idle"
          BY <2>2 DEF Edit, Confirm, AuthorSaves, Idle
    <3> QED BY <1>2, <2>2, <3>1, AuthorSavesNowhere, NowhereAttended DEF Nowhere
  <2> QED BY <1>2, <1>5, <2>1, <2>2, StepAttended, AuthorAttended, CommitAttended DEF Running
<1> QED BY <1>3, <1>4, <1>5 DEF Next

LEMMA AttendedInvariant == Spec => []AttendedInv
BY AttendedInit, AttendedNext, ClaimsInvariant, PTL DEF Spec

(* Once its task is over, the operation of a run shows how it ended.       *)
THEOREM OperationFollowsRunHolds == Spec => []OperationFollowsRun
<1>1. AttendedInv => OperationFollowsRun
  <2> SUFFICES ASSUME AttendedInv, NEW r \in Runs \ (Hurried \cup torn), Idle,
                      task[r].at = "none", op[r].status # "absent"
               PROVE  \/ op[r].status = run[r].status
                      \/ run[r].status = "interrupted" /\ op[r].status = "cancelled"
                      \/ /\ run[r].status \in {"waiting_user", "completed"}
                         /\ op[r].status = "interrupted"
      BY DEF OperationFollowsRun
  <2>1. Calm(r)
        BY IdleAway DEF AttendedInv, Attended
  <2> QED BY <2>1 DEF Calm, Rested, Shown
<1> QED BY <1>1, AttendedInvariant, PTL

-----------------------------------------------------------------------------
(* Paused runs: a task that has not begun was told to unwind, and what is  *)
(* about to finish was not paused.                                         *)

Told(r) ==
    /\ run[r].status = "paused" /\ task[r].at = "ready" => task[r].cancel
    /\ loop.at = "finish" /\ loop.run = r => run[r].status # "paused"

ToldInv == \A r \in Runs : Told(r)

(* The run stays paused, or its author acts on it.                         *)
Stays(r) ==
    run[r].status = "paused" /\ ~OfConcepts(r) =>
        run'[r].status = "paused" \/ (loop'.at = "project" /\ loop'.run = r)

AllStay == \A r \in Runs : Stays(r)

LEMMA ToldFrom ==
    ASSUME ToldInv, NEW q \in Runs, Elsewhere(q), LoopAbout(q), Told(q)', Stays(q)
    PROVE  ToldInv' /\ AllStay
<1>1. ASSUME NEW r \in Runs, r # q PROVE Told(r)' /\ Stays(r)
  <2>1. Same(r) /\ Told(r)
        BY <1>1 DEF Elsewhere, ToldInv
  <2>2. ~(loop'.at = "finish" /\ loop'.run = r)
        BY <1>1 DEF LoopAbout
  <2> QED BY <2>1, <2>2 DEF Told, Stays, Same
<1> QED BY <1>1 DEF ToldInv, AllStay

LEMMA ToldNowhere ==
    ASSUME ToldInv, UNCHANGED <<run, task>>, loop'.at # "finish"
    PROVE  ToldInv' /\ AllStay
BY DEF ToldInv, AllStay, Told, Stays

LEMMA ToldTask ==
    ASSUME TypeOK, ToldInv, NEW r \in Runs, Step(r) \/ Present(r)
    PROVE  ToldInv' /\ AllStay
<1>1. Idle
      BY DEF Step, Begin, Save, Fail, Unwind, Vanish, Close, Present, Executing
<1>2. Told(r)
      BY DEF ToldInv
<1>3. CASE Begin(r)
  <2>1. run[r].status # "paused"
        BY <1>3 DEF Begin, Undisturbed
  <2>2. Elsewhere(r) /\ LoopAbout(r) /\ run' = run
        BY <1>1, <1>3, BeginDoes, SettledLoop
  <2>3. Told(r)' /\ Stays(r)
        BY <2>1, <2>2 DEF Told, Stays
  <2> QED BY <2>2, <2>3, ToldFrom
<1>4. ASSUME NEW s \in Stages, Save(r, s) PROVE ToldInv' /\ AllStay
  <2>1. run[r].status # "paused"
        BY <1>4 DEF Save, Undisturbed
  <2>2. Elsewhere(r) /\ LoopAbout(r) /\ run'[r].status = run[r].status
        BY <1>1, <1>4, SaveDoes, SettledLoop
  <2>3. Told(r)' /\ Stays(r)
        BY <2>1, <2>2 DEF Told, Stays
  <2> QED BY <2>2, <2>3, ToldFrom
<1>5. CASE Fail(r)
  <2>1. run[r].status # "paused"
        BY <1>2, <1>5 DEF Fail, Executing, Undisturbed, Told
  <2>2. /\ Elsewhere(r)
        /\ LoopAbout(r)
        /\ task'[r].at = "closing"
        /\ loop' = loop
        BY <1>1, <1>5, FailDoes, SettledLoop
  <2>3. Told(r)' /\ Stays(r)
        BY <1>1, <2>1, <2>2 DEF Told, Stays, Idle
  <2> QED BY <2>2, <2>3, ToldFrom
<1>6. CASE Unwind(r)
  <2>1. /\ Elsewhere(r)
        /\ LoopAbout(r)
        /\ task'[r].at = "closing"
        /\ IF Seen(r) = "running" THEN loop' = [at |-> "settle", run |-> r]
           ELSE run' = run /\ loop' = loop
        BY <1>1, <1>6, UnwindDoes, SettledLoop
  <2>2. ~OfConcepts(r) => Seen(r) = run[r].status
        BY DEF Seen
  <2>3. Told(r)' /\ Stays(r)
        BY <1>1, <2>1, <2>2 DEF Told, Stays, Idle
  <2> QED BY <2>1, <2>3, ToldFrom
<1>7. CASE Vanish(r) \/ Close(r)
  <2>1. /\ Elsewhere(r)
        /\ LoopAbout(r)
        /\ run' = run
        /\ task'[r].at = "none"
        /\ loop' = loop
        BY <1>1, <1>7, VanishDoes, CloseDoes, SettledLoop DEF NoTask
  <2>2. Told(r)' /\ Stays(r)
        BY <1>1, <2>1 DEF Told, Stays, Idle
  <2> QED BY <2>1, <2>2, ToldFrom
<1>8. CASE Present(r)
  <2>1. /\ Elsewhere(r)
        /\ LoopAbout(r)
        /\ UNCHANGED <<task, loop>>
        /\ \E x : RunMoves(r, run[r].status, x)
        BY <1>1, <1>8, PresentDoes, SettledLoop
  <2>2. run'[r].status = run[r].status
        BY <2>1 DEF RunMoves
  <2>3. Told(r)' /\ Stays(r)
        BY <1>2, <2>1, <2>2 DEF Told, Stays
  <2> QED BY <2>1, <2>3, ToldFrom
<1> QED BY <1>3, <1>4, <1>5, <1>6, <1>7, <1>8 DEF Step

LEMMA ToldAuthor ==
    ASSUME TypeOK, ToldInv, NEW r \in Runs, Author(r)
    PROVE  ToldInv' /\ AllStay
<1>1. Told(r)
      BY DEF ToldInv
<1>2. CASE Cancel(r)
  <2>1. /\ Elsewhere(r)
        /\ LoopAbout(r)
        /\ loop' = [at |-> "project", run |-> r, status |-> "cancelled"]
        /\ CancelsTask(r) \/ CancelsRun(r)
        BY <1>2, CancelDoes, SettledLoop
  <2>2. loop'.at = "project" /\ loop'.run = r
        BY <2>1
  <2>3. run'[r].status = "paused" /\ task'[r].at = "ready" => task'[r].cancel
        BY <2>1 DEF CancelsTask, CancelsRun, RunMoves
  <2> QED BY <2>1, <2>2, <2>3, ToldFrom DEF Told, Stays
<1>3. CASE Pause(r)
  <2>1. /\ Elsewhere(r)
        /\ LoopAbout(r)
        /\ loop' = [at |-> "project", run |-> r, status |-> "paused"]
        /\ \/ /\ task'[r].at = task[r].at
              /\ task[r].at # "none" => task'[r].cancel
           \/ UNCHANGED <<run, task>>
        BY <1>3, PauseDoes, SettledLoop
  <2>2. loop'.at = "project" /\ loop'.run = r
        BY <2>1
  <2>3. run'[r].status = "paused" /\ task'[r].at = "ready" => task'[r].cancel
        BY <1>1, <2>1 DEF Told
  <2> QED BY <2>1, <2>2, <2>3, ToldFrom DEF Told, Stays
<1>4. CASE Continue(r)
  <2>1. /\ Elsewhere(r)
        /\ LoopAbout(r)
        /\ loop' = [at |-> "project", run |-> r, status |-> "running"]
        /\ RunMoves(r, "running", run[r].result)
        BY <1>4, ContinueDoes, SettledLoop
  <2>2. loop'.at = "project" /\ loop'.run = r /\ run'[r].status = "running"
        BY <2>1 DEF RunMoves
  <2> QED BY <2>1, <2>2, ToldFrom DEF Told, Stays
<1>5. CASE RetryUnit(r)
  <2>1. /\ Elsewhere(r)
        /\ LoopAbout(r)
        /\ loop' = [at |-> "project", run |-> r, status |-> "running"]
        /\ RunMoves(r, "running", run[r].result)
        BY <1>5, RetryUnitDoes, SettledLoop
  <2>2. loop'.at = "project" /\ loop'.run = r /\ run'[r].status = "running"
        BY <2>1 DEF RunMoves
  <2> QED BY <2>1, <2>2, ToldFrom DEF Told, Stays
<1>6. CASE DeleteOperation(r)
  <2>1. UNCHANGED <<run, task>> /\ loop'.at # "finish"
        BY <1>6, DeleteOperationDoes DEF DeleteOperation, Idle
  <2> QED BY <2>1, ToldNowhere
<1>7. CASE \E latest \in BOOLEAN : RetryAsNew(r, latest)
  <2>1. UNCHANGED <<run, task>> /\ loop'.at = "create"
        BY <1>7, RetryAsNewOpens DEF Opens
  <2> QED BY <2>1, ToldNowhere
<1> QED BY <1>2, <1>3, <1>4, <1>5, <1>6, <1>7 DEF Author

LEMMA ToldCommit ==
    ASSUME TypeOK, PresenceInv, ToldInv, Commit
    PROVE  ToldInv' /\ AllStay
<1>1. CASE Create
  <2>1. PICK r \in Runs : r = loop.run
        BY <1>1, CreateLoop DEF Create
  <2>2. Elsewhere(r) /\ LoopAbout(r) /\ run'[r].status = "running" /\ run[r].status = "absent"
        BY <1>1, <2>1, CreateDoes, SettledLoop DEF PresenceInv, LoopInv, Create
  <2> QED BY <2>2, ToldFrom DEF Told, Stays
<1>2. CASE Finish
  <2>1. PICK r \in Runs : r = loop.run
        BY <1>2, RunLoop DEF Finish
  <2>2. Elsewhere(r) /\ LoopAbout(r) /\ RunMoves(r, "waiting_user", "output")
        BY <1>2, <2>1, FinishDoes, SettledLoop
  <2>3. run[r].status # "paused" /\ run'[r].status = "waiting_user"
        BY <1>2, <2>1, <2>2 DEF Finish, RunMoves, ToldInv, Told
  <2> QED BY <2>2, <2>3, ToldFrom DEF Told, Stays
<1>3. CASE Settle \/ Project \/ Complete
  <2>1. UNCHANGED <<run, task>> /\ loop' = IdleLoop
        BY <1>3, SettleDoes, ProjectDoes, CompleteDoes
  <2>2. loop'.at # "finish"
        BY <2>1 DEF IdleLoop
  <2> QED BY <2>1, <2>2, ToldNowhere
<1>4. CASE ConfirmRun
  <2>1. task' = task
        BY <1>4, ConfirmRunDoes
  <2>2. CASE loop' = IdleLoop /\ run' = run
        BY <2>1, <2>2, ToldNowhere DEF IdleLoop
  <2>3. ASSUME NEW r \in Runs, Elsewhere(r), loop' = [at |-> "complete", run |-> r],
               IF run[r].status = "waiting_user" THEN RunMoves(r, "completed", run[r].result)
               ELSE run' = run
        PROVE  ToldInv' /\ AllStay
    <3>1. LoopAbout(r) /\ loop'.at = "complete"
          BY <2>3, SettledLoop
    <3>2. Told(r)
          BY DEF ToldInv
    <3>3. Told(r)' /\ Stays(r)
          BY <2>1, <2>3, <3>1, <3>2 DEF Told, Stays, RunMoves
    <3> QED BY <2>3, <3>1, <3>3, ToldFrom
  <2> QED BY <1>4, <2>2, <2>3, ConfirmRunDoes
<1> QED BY <1>1, <1>2, <1>3, <1>4 DEF Commit

LEMMA ToldNext ==
    ASSUME TypeOK, PresenceInv, ToldInv, [Next]_vars
    PROVE  ToldInv' /\ AllStay
<1>1. CASE UNCHANGED vars
  <2>1. UNCHANGED <<run, task, loop>>
        BY <1>1 DEF vars, runVars, taskVars
  <2> QED BY <2>1 DEF ToldInv, AllStay, Told, Stays
<1>2. CASE Crash
  <2>1. ASSUME NEW r \in Runs PROVE Told(r)' /\ Stays(r)
    <3>1. task'[r].at = "none" /\ loop'.at = "idle"
          BY <1>2 DEF Crash, NoTask, IdleLoop
    <3>2. run[r].status = "paused" => run'[r].status = "paused"
          BY <1>2, CrashRuns DEF Recovered
    <3> QED BY <3>1, <3>2 DEF Told, Stays
  <2> QED BY <2>1 DEF ToldInv, AllStay
<1>3. CASE Running
  <2>1. ASSUME NEW t \in Targets, NEW k \in Keys, Start(t, k) PROVE ToldInv' /\ AllStay
    <3>1. UNCHANGED <<run, task>> /\ loop'.at = "create"
          BY <2>1 DEF Start, taskVars
    <3> QED BY <3>1, ToldNowhere
  <2>2. ASSUME NEW s \in Stages, Edit(s) \/ Confirm(s) PROVE ToldInv' /\ AllStay
    <3>1. UNCHANGED <<run, task>> /\ loop'.at # "finish"
          BY <2>2, AuthorSavesNowhere DEF Nowhere
    <3> QED BY <3>1, ToldNowhere
  <2> QED BY <1>3, <2>1, <2>2, ToldTask, ToldAuthor, ToldCommit DEF Running
<1> QED BY <1>1, <1>2, <1>3 DEF Next

LEMMA ToldInvariant == Spec => []ToldInv
<1>1. Init => ToldInv
  <2> SUFFICES ASSUME Init, NEW r \in Runs PROVE Told(r)
      BY DEF ToldInv
  <2>1. run[r].status = "absent"
        BY DEF Init, AbsentRun
  <2> QED BY <2>1 DEF Told
<1> QED BY <1>1, ToldNext, ClaimsInvariant, PTL DEF Spec

(* A run that was paused stays so until its author acts (but one of        *)
(* concepts), and can be continued, unless a stop came between the commits *)
(* that paused it, or its author acted before its task had unwound.        *)
THEOREM PausedCanGoOnHolds == Spec => PausedCanGoOn
<1> DEFINE Kept == \A r \in Runs :
              /\ r \notin Hurried \cup torn' => CanGoOn(r)'
              /\ run[r].status = "paused" /\ ~OfConcepts(r) =>
                    run'[r].status = "paused" \/ (loop'.at = "project" /\ loop'.run = r)
<1>1. TypeOK /\ AttendedInv => \A r \in Runs : r \notin Hurried \cup torn => CanGoOn(r)
  <2> SUFFICES ASSUME TypeOK, AttendedInv, NEW r \in Runs \ (Hurried \cup torn), Idle,
                      run[r].status = "paused"
               PROVE  op[r].pause
      BY DEF CanGoOn
  <2>1. Calm(r)
        BY IdleAway DEF AttendedInv, Attended
  <2>2. task[r].at \in {"none", "ready", "generating", "closing"}
        BY DEF TypeOK, TaskRows
  <2> QED BY <2>1, <2>2 DEF Calm, Both, Leaving, Rested
<1>3. (TypeOK /\ AttendedInv)' => (\A r \in Runs : r \notin Hurried \cup torn => CanGoOn(r))'
      BY <1>1, PTL
<1>4. TypeOK /\ PresenceInv /\ ToldInv /\ [Next]_vars => AllStay
      BY ToldNext
<1>5. TypeOK /\ TypeOK' /\ PresenceInv /\ AttendedInv' /\ ToldInv /\ [Next]_vars => [Kept]_vars
  <2> SUFFICES ASSUME TypeOK', AttendedInv', AllStay, NEW r \in Runs
               PROVE  /\ r \notin Hurried \cup torn' => CanGoOn(r)'
                      /\ run[r].status = "paused" /\ ~OfConcepts(r) =>
                            \/ run'[r].status = "paused"
                            \/ loop'.at = "project" /\ loop'.run = r
      BY <1>4
  <2>1. r \notin Hurried \cup torn' => CanGoOn(r)'
        BY <1>3
  <2>2. Stays(r)
        BY DEF AllStay
  <2> QED BY <2>1, <2>2 DEF Stays
<1> QED BY <1>5, CreationTyped, ClaimsInvariant, AttendedInvariant, ToldInvariant, PTL
        DEF Spec, PausedCanGoOn

=============================================================================
