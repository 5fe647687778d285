------------------------- MODULE CatalogingJobsProofs -------------------------
(***************************************************************************)
(* What holds of the cataloging of a novel for any jobs, chapters and      *)
(* processes; and, where the desktop is the only process on the database,  *)
(* whatever the author and the workers do.                                 *)
(***************************************************************************)
EXTENDS CatalogingJobs, FiniteSetTheorems, TLAPS

(* A set of numbers has a least one.                                       *)
LEMMA LeastNumber ==
    ASSUME NEW T \in SUBSET Nat, T # {}
    PROVE  \E x \in T : \A y \in T : x =< y
<1>1. PICK n \in T : TRUE
      OBVIOUS
<1> DEFINE S == 0 .. n
           F == {0 .. k : k \in T \cap S}
<1>2. IsWellFoundedOn(StrictSubsetOrdering(S), FiniteSubsetsOf(S))
  <2>1. IsFiniteSet(S)
        BY FS_Interval
  <2> QED BY <2>1, FS_StrictSubsetOrderingWellFounded
<1>3. F \subseteq FiniteSubsetsOf(S)
  <2> SUFFICES ASSUME NEW k \in T \cap S PROVE 0 .. k \in FiniteSubsetsOf(S)
      OBVIOUS
  <2>1. IsFiniteSet(0 .. k)
        BY FS_Interval
  <2> QED BY <2>1 DEF FiniteSubsetsOf
<1>4. F # {}
      OBVIOUS
<1>5. PICK A \in F : \A B \in F : ~(<<B, A>> \in StrictSubsetOrdering(S))
  <2> HIDE DEF F, S
  <2> QED BY <1>2, <1>3, <1>4, WFMin
<1>6. PICK k \in T \cap S : A = 0 .. k
      OBVIOUS
<1>7. ASSUME NEW y \in T, y < k PROVE FALSE
  <2>1. 0 .. y \in F
        BY <1>7
  <2>2. <<0 .. y, A>> \in StrictSubsetOrdering(S)
        BY <1>6, <1>7 DEF StrictSubsetOrdering
  <2> QED BY <2>1, <2>2, <1>5
<1> QED BY <1>6, <1>7

LEMMA MinOf ==
    ASSUME NEW T \in SUBSET Nat, T # {}
    PROVE  Min(T) \in T /\ \A y \in T : Min(T) =< y
BY LeastNumber DEF Min

-----------------------------------------------------------------------------
(* Types.                                                                  *)

(* A worker that backs off may try again.                                  *)
Workers == {t \in TaskRows : t.at = "backoff" => t.tries < MaxAttempts}

(* The text is not newer than the chapter.                                 *)
Texts == {r \in ChapterRows : r.text =< r.version}

TypeInv ==
    /\ chapter \in [Chapters -> Texts]
    /\ job \in [Jobs -> JobRows]
    /\ run \in [Jobs -> [Chapters -> RunRows]]
    /\ task \in [Procs -> [Jobs -> Workers]]

Ats == Awaiting \cup {"loop", "planned", "review", "apply", "applied"}

(* A step of the worker of j in p goes to s, at chapter c.                 *)
Moves(p, j, s, c) ==
    /\ task' \in [Procs -> [Jobs -> Workers]]
    /\ task'[p][j].at = s /\ task'[p][j].chapter = c
    /\ task'[p][j].cancel = task[p][j].cancel /\ task'[p][j].next = task[p][j].next
    /\ \A q \in Procs, k \in Jobs : <<q, k>> # <<p, j>> => task'[q][k] = task[q][k]

SetTask(p, j, t) == task' = [task EXCEPT ![p][j] = t]

LEMMA TaskSet ==
    ASSUME NEW p \in Procs, NEW j \in Jobs, NEW t \in Workers, TypeInv, SetTask(p, j, t)
    PROVE  /\ task' \in [Procs -> [Jobs -> Workers]] /\ task'[p][j] = t
           /\ \A q \in Procs, k \in Jobs : <<q, k>> # <<p, j>> => task'[q][k] = task[q][k]
<1> HIDE DEF Workers
<1> QED BY DEF TypeInv, SetTask

LEMMA GotoMoves ==
    ASSUME NEW p \in Procs, NEW j \in Jobs, NEW s \in Ats, TypeInv, Goto(p, j, s),
           s = "backoff" => task[p][j].tries < MaxAttempts
    PROVE  Moves(p, j, s, task[p][j].chapter) /\ task'[p][j].err = task[p][j].err
<1> DEFINE t == [task[p][j] EXCEPT !.at = s, !.tries = IF s = "backoff" THEN @ ELSE 0]
<1>1. SetTask(p, j, t)
      BY DEF SetTask, Goto, TypeInv
<1>2. task[p][j] \in TaskRows /\ 0 \in 0 .. MaxAttempts /\ 1 \in 0 .. MaxAttempts
      BY CatalogingAssumption DEF TypeInv, Workers
<1>3. /\ t \in Workers /\ t.at = s /\ t.chapter = task[p][j].chapter
      /\ t.cancel = task[p][j].cancel /\ t.next = task[p][j].next /\ t.err = task[p][j].err
      BY <1>2, CatalogingAssumption DEF Workers, TaskRows, Ats
<1> HIDE DEF t
<1>5. /\ task' \in [Procs -> [Jobs -> Workers]] /\ task'[p][j] = t
      /\ \A q \in Procs, k \in Jobs : <<q, k>> # <<p, j>> => task'[q][k] = task[q][k]
      BY <1>1, <1>3, TaskSet
<1> QED BY <1>3, <1>5 DEF Moves

LEMMA ExitMoves ==
    ASSUME NEW p \in Procs, NEW j \in Jobs, NEW err \in BOOLEAN, TypeInv, Exit(p, j, err)
    PROVE  Moves(p, j, "exit", task[p][j].chapter) /\ task'[p][j].err = err
<1> DEFINE t == [task[p][j] EXCEPT !.at = "exit", !.tries = 0, !.err = err]
<1>1. SetTask(p, j, t)
      BY DEF SetTask, Exit, TypeInv
<1>2. task[p][j] \in TaskRows /\ 0 \in 0 .. MaxAttempts /\ 1 \in 0 .. MaxAttempts
      BY CatalogingAssumption DEF TypeInv, Workers
<1>3. /\ t \in Workers /\ t.at = "exit" /\ t.chapter = task[p][j].chapter
      /\ t.cancel = task[p][j].cancel /\ t.next = task[p][j].next /\ t.err = err
      BY <1>2, CatalogingAssumption DEF Workers, TaskRows, Awaiting
<1> HIDE DEF t
<1>5. /\ task' \in [Procs -> [Jobs -> Workers]] /\ task'[p][j] = t
      /\ \A q \in Procs, k \in Jobs : <<q, k>> # <<p, j>> => task'[q][k] = task[q][k]
      BY <1>1, <1>3, TaskSet
<1> QED BY <1>3, <1>5 DEF Moves

(* A worker turns to chapter c.                                            *)
LEMMA ModelMoves ==
    ASSUME NEW p \in Procs, NEW j \in Jobs, NEW c \in Chapters, TypeInv,
           task' = [task EXCEPT ![p][j].at = "model", ![p][j].chapter = c]
    PROVE  Moves(p, j, "model", c)
<1> DEFINE t == [task[p][j] EXCEPT !.at = "model", !.chapter = c]
<1>1. SetTask(p, j, t)
      BY DEF SetTask, TypeInv
<1>2. task[p][j] \in TaskRows /\ 0 \in 0 .. MaxAttempts /\ 1 \in 0 .. MaxAttempts
      BY CatalogingAssumption DEF TypeInv, Workers
<1>3. /\ t \in Workers /\ t.at = "model" /\ t.chapter = c
      /\ t.cancel = task[p][j].cancel /\ t.next = task[p][j].next
      BY <1>2 DEF Workers, TaskRows, Awaiting
<1> HIDE DEF t
<1>5. /\ task' \in [Procs -> [Jobs -> Workers]] /\ task'[p][j] = t
      /\ \A q \in Procs, k \in Jobs : <<q, k>> # <<p, j>> => task'[q][k] = task[q][k]
      BY <1>1, <1>3, TaskSet
<1> QED BY <1>3, <1>5 DEF Moves

LEMMA ApplyMoves ==
    ASSUME NEW p \in Procs, NEW j \in Jobs, NEW c \in Chapters, TypeInv,
           task' = [task EXCEPT ![p][j].at = "apply", ![p][j].chapter = c, ![p][j].tries = 1]
    PROVE  Moves(p, j, "apply", c)
<1> DEFINE t == [task[p][j] EXCEPT !.at = "apply", !.chapter = c, !.tries = 1]
<1>1. SetTask(p, j, t)
      BY DEF SetTask, TypeInv
<1>2. task[p][j] \in TaskRows /\ 0 \in 0 .. MaxAttempts /\ 1 \in 0 .. MaxAttempts
      BY CatalogingAssumption DEF TypeInv, Workers
<1>3. /\ t \in Workers /\ t.at = "apply" /\ t.chapter = c
      /\ t.cancel = task[p][j].cancel /\ t.next = task[p][j].next
      BY <1>2, CatalogingAssumption DEF Workers, TaskRows, Awaiting
<1> HIDE DEF t
<1>5. /\ task' \in [Procs -> [Jobs -> Workers]] /\ task'[p][j] = t
      /\ \A q \in Procs, k \in Jobs : <<q, k>> # <<p, j>> => task'[q][k] = task[q][k]
      BY <1>1, <1>3, TaskSet
<1> QED BY <1>3, <1>5 DEF Moves

LEMMA AgainMoves ==
    ASSUME NEW p \in Procs, NEW j \in Jobs, TypeInv, TriesAgain(p, j)
    PROVE  Moves(p, j, "apply", task[p][j].chapter)
<1> DEFINE t == [task[p][j] EXCEPT !.at = "apply", !.tries = @ + 1]
<1>1. SetTask(p, j, t)
      BY DEF SetTask, TriesAgain, TypeInv
<1>2. task[p][j] \in TaskRows /\ task[p][j].tries < MaxAttempts
      BY DEF TypeInv, Workers, TriesAgain, Step
<1>3. task[p][j].tries + 1 \in 0 .. MaxAttempts
      BY <1>2, CatalogingAssumption DEF TaskRows
<1>4. /\ t \in Workers /\ t.at = "apply" /\ t.chapter = task[p][j].chapter
      /\ t.cancel = task[p][j].cancel /\ t.next = task[p][j].next
      BY <1>2, <1>3 DEF Workers, TaskRows, Awaiting
<1> HIDE DEF t
<1>5. /\ task' \in [Procs -> [Jobs -> Workers]] /\ task'[p][j] = t
      /\ \A q \in Procs, k \in Jobs : <<q, k>> # <<p, j>> => task'[q][k] = task[q][k]
      BY <1>1, <1>4, TaskSet
<1> QED BY <1>4, <1>5 DEF Moves

(* The tasks of the jobs in js are cancelled.                              *)
Cancels(p, js) ==
    /\ task' \in [Procs -> [Jobs -> Workers]]
    /\ \A k \in Jobs :
          IF k \in js /\ task[p][k].at # "none"
          THEN /\ task'[p][k].at = task[p][k].at /\ task'[p][k].chapter = task[p][k].chapter
               /\ task'[p][k].err = task[p][k].err
               /\ task'[p][k].cancel /\ ~task'[p][k].next
          ELSE task'[p][k] = task[p][k]
    /\ \A q \in Procs \ {p} : task'[q] = task[q]

LEMMA StoppedTasks ==
    ASSUME NEW p \in Procs, NEW js, TypeInv, task' = Stopped(p, js)
    PROVE  Cancels(p, js)
<1> DEFINE t(k) == [task[p][k] EXCEPT !.cancel = TRUE, !.next = FALSE]
           row(k) == IF k \in js /\ task[p][k].at # "none" THEN t(k) ELSE task[p][k]
<1>1. \A k \in Jobs : task[p][k] \in TaskRows /\ task[p][k] \in Workers
      BY DEF TypeInv, Workers
<1>2. ASSUME NEW k \in Jobs
      PROVE  /\ t(k) \in Workers /\ t(k).at = task[p][k].at /\ t(k).chapter = task[p][k].chapter
             /\ t(k).err = task[p][k].err /\ t(k).cancel /\ ~t(k).next
      BY <1>1 DEF Workers, TaskRows
<1>3. task' = [task EXCEPT ![p] = [k \in Jobs |-> row(k)]]
      BY DEF Stopped
<1> HIDE DEF t
<1>4. [k \in Jobs |-> row(k)] \in [Jobs -> Workers]
      BY <1>1, <1>2
<1>5. \A k \in Jobs : task'[p][k] = row(k)
      BY <1>3 DEF TypeInv
<1>6. task' \in [Procs -> [Jobs -> Workers]] /\ \A q \in Procs \ {p} : task'[q] = task[q]
      BY <1>3, <1>4 DEF TypeInv
<1> QED BY <1>2, <1>5, <1>6 DEF Cancels

(* The task of job j is queued, unless it has one that goes on.            *)
Queues(p, j) ==
    /\ task' \in [Procs -> [Jobs -> Workers]]
    /\ \A q \in Procs, k \in Jobs : <<q, k>> # <<p, j>> => task'[q][k] = task[q][k]
    /\ task[p][j].at = "none" => task'[p][j] = [NoTask EXCEPT !.at = "queued"]
    /\ task[p][j].at # "none" =>
          /\ task'[p][j].at = task[p][j].at /\ task'[p][j].chapter = task[p][j].chapter
          /\ task'[p][j].cancel = task[p][j].cancel /\ task'[p][j].err = task[p][j].err
          /\ ~task[p][j].cancel => task'[p][j] = task[p][j]

(* A task that is over, and whose failure could not be recorded.            *)
Unheard == [NoTask EXCEPT !.err = TRUE]

LEMMA UnheardRow ==
    Unheard \in Workers /\ Unheard.at = "none" /\ ~Unheard.cancel /\ ~Unheard.next /\ Unheard.err
<1>1. 0 \in 0 .. MaxAttempts /\ 1 \in Chapters
      BY CatalogingAssumption DEF Chapters
<1> QED BY <1>1 DEF Unheard, NoTask, Workers, TaskRows, Awaiting

LEMMA NoTaskRow ==
    /\ NoTask \in Workers /\ [NoTask EXCEPT !.at = "queued"] \in Workers
    /\ NoTask.at = "none" /\ [NoTask EXCEPT !.at = "queued"].at = "queued"
    /\ ~NoTask.cancel /\ ~[NoTask EXCEPT !.at = "queued"].cancel
    /\ ~NoTask.next /\ ~[NoTask EXCEPT !.at = "queued"].next
<1>1. 0 \in 0 .. MaxAttempts /\ 1 \in Chapters
      BY CatalogingAssumption DEF Chapters
<1> QED BY <1>1 DEF NoTask, Workers, TaskRows, Awaiting

LEMMA QueueQueues ==
    ASSUME NEW p \in Procs, NEW j \in Jobs, TypeInv, task' = Queue(p, j)
    PROVE  Queues(p, j)
<1>1. CASE task[p][j].at = "none"
  <2> DEFINE t == [NoTask EXCEPT !.at = "queued"]
  <2>0. t \in Workers /\ Queue(p, j) = [task EXCEPT ![p][j] = t]
        BY <1>1, NoTaskRow DEF Queue
  <2> HIDE DEF t
  <2>1. SetTask(p, j, t)
        BY <2>0 DEF SetTask
  <2>2. /\ task' \in [Procs -> [Jobs -> Workers]] /\ task'[p][j] = t
        /\ \A q \in Procs, k \in Jobs : <<q, k>> # <<p, j>> => task'[q][k] = task[q][k]
        BY <2>0, <2>1, TaskSet
  <2> QED BY <1>1, <2>2 DEF Queues, t
<1>2. CASE task[p][j].at # "none" /\ task[p][j].cancel
  <2> DEFINE t == [task[p][j] EXCEPT !.next = TRUE]
  <2>1. SetTask(p, j, t)
        BY <1>2 DEF Queue, SetTask, TypeInv
  <2>2. task[p][j] \in TaskRows /\ task[p][j] \in Workers
        BY DEF TypeInv, Workers
  <2>3. /\ t \in Workers /\ t.at = task[p][j].at /\ t.chapter = task[p][j].chapter
        /\ t.cancel = task[p][j].cancel /\ t.err = task[p][j].err
        BY <2>2 DEF Workers, TaskRows
  <2> HIDE DEF t
  <2>4. /\ task' \in [Procs -> [Jobs -> Workers]] /\ task'[p][j] = t
        /\ \A q \in Procs, k \in Jobs : <<q, k>> # <<p, j>> => task'[q][k] = task[q][k]
        BY <2>1, <2>3, TaskSet
  <2> QED BY <1>2, <2>3, <2>4 DEF Queues
<1>3. CASE task[p][j].at # "none" /\ ~task[p][j].cancel
      BY <1>3 DEF Queue, Queues, TypeInv
<1> QED BY <1>1, <1>2, <1>3

-----------------------------------------------------------------------------
Statuses == JobStatus \cup {"absent"}

LEMMA ShownRow ==
    ASSUME NEW r \in JobRows
    PROVE  /\ Shown(r) \in JobRows /\ Shown(r).status = r.status
           /\ Shown(r).mode = r.mode /\ Shown(r).source = r.source
           /\ Shown(r).op = OperationStatus(r.status)
<1>1. OperationStatus(r.status) \in {"absent", "queued", "running", "waiting_user", "paused",
                  "completed", "failed", "cancelled", "interrupted"}
      BY DEF JobRows, OperationStatus, JobStatus
<1> HIDE DEF OperationStatus
<1> QED BY <1>1 DEF JobRows, Shown

(* Job j goes to a status, which its operation shows.                      *)
Shows(j, status) ==
    /\ job' \in [Jobs -> JobRows]
    /\ job'[j].status = status /\ job'[j].source = job[j].source
    /\ job'[j].op = OperationStatus(status)
    /\ \A k \in Jobs \ {j} : job'[k] = job[k]

LEMMA BecomesShows ==
    ASSUME NEW j \in Jobs, NEW status \in Statuses, TypeInv, job' = Becomes(j, status)
    PROVE  Shows(j, status) /\ job'[j].mode = job[j].mode
<1> DEFINE r == [job[j] EXCEPT !.status = status]
<1>1. job[j] \in JobRows
      BY DEF TypeInv
<1>2. r \in JobRows /\ r.status = status /\ r.mode = job[j].mode /\ r.source = job[j].source
      BY <1>1 DEF JobRows, Statuses
<1>3. job' = [job EXCEPT ![j] = Shown(r)]
      BY DEF Becomes, TypeInv
<1> HIDE DEF r
<1>4. /\ Shown(r) \in JobRows /\ Shown(r).status = r.status
      /\ Shown(r).mode = r.mode /\ Shown(r).source = r.source
      /\ Shown(r).op = OperationStatus(r.status)
      BY <1>2, ShownRow
<1>5. job' \in [Jobs -> JobRows] /\ job'[j] = Shown(r) /\ \A k \in Jobs \ {j} : job'[k] = job[k]
      BY <1>3, <1>4 DEF TypeInv
<1> QED BY <1>2, <1>4, <1>5 DEF Shows

(* Job j goes to a status that its operation does not show yet.            *)
Sets(j, status) ==
    /\ job' \in [Jobs -> JobRows]
    /\ job'[j].status = status /\ job'[j].source = job[j].source
    /\ job'[j].mode = job[j].mode /\ job'[j].op = job[j].op
    /\ \A k \in Jobs \ {j} : job'[k] = job[k]

LEMMA StatusSets ==
    ASSUME NEW j \in Jobs, NEW status \in Statuses, TypeInv,
           job' = [job EXCEPT ![j].status = status]
    PROVE  Sets(j, status)
<1> DEFINE r == [job[j] EXCEPT !.status = status]
<1>1. job[j] \in JobRows
      BY DEF TypeInv
<1>2. /\ r \in JobRows /\ r.status = status /\ r.mode = job[j].mode /\ r.source = job[j].source
      /\ r.op = job[j].op
      BY <1>1 DEF JobRows, Statuses
<1>3. job' = [job EXCEPT ![j] = r]
      BY DEF TypeInv
<1> HIDE DEF r
<1>4. job' \in [Jobs -> JobRows] /\ job'[j] = r /\ \A k \in Jobs \ {j} : job'[k] = job[k]
      BY <1>2, <1>3 DEF TypeInv
<1> QED BY <1>2, <1>4 DEF Sets

-----------------------------------------------------------------------------
(* The run of a chapter changes, and no other.                             *)
RunGoes(j, c, r) ==
    /\ run' \in [Jobs -> [Chapters -> RunRows]] /\ run'[j][c] = r
    /\ \A d \in Chapters \ {c} : run'[j][d] = run[j][d]
    /\ \A k \in Jobs \ {j} : run'[k] = run[k]

SetRun(j, c, r) == run' = [run EXCEPT ![j][c] = r]

LEMMA RunSet ==
    ASSUME NEW j \in Jobs, NEW c \in Chapters, NEW r \in RunRows, TypeInv, SetRun(j, c, r)
    PROVE  RunGoes(j, c, r)
<1> HIDE DEF RunRows
<1> QED BY DEF TypeInv, SetRun, RunGoes

RunStatuses == {"absent", "pending", "extracting", "awaiting_confirmation",
                "applying", "completed", "failed", "skipped_by_user"}

(* Only the status of the run of a chapter changes.                        *)
RunTurns(j, c, status) ==
    /\ run' \in [Jobs -> [Chapters -> RunRows]]
    /\ run'[j][c].status = status /\ run'[j][c].version = run[j][c].version
    /\ \A d \in Chapters \ {c} : run'[j][d] = run[j][d]
    /\ \A k \in Jobs \ {j} : run'[k] = run[k]

LEMMA RunBecomesTurns ==
    ASSUME NEW j \in Jobs, NEW c \in Chapters, NEW status \in RunStatuses, TypeInv,
           run' = RunBecomes(j, c, status)
    PROVE  RunTurns(j, c, status)
<1> DEFINE r == [run[j][c] EXCEPT !.status = status]
<1>1. SetRun(j, c, r)
      BY DEF SetRun, RunBecomes, TypeInv
<1>2. run[j][c] \in RunRows
      BY DEF TypeInv
<1>3. r \in RunRows /\ r.status = status /\ r.version = run[j][c].version
      BY <1>2 DEF RunRows, RunStatuses
<1> HIDE DEF r
<1>4. RunGoes(j, c, r)
      BY <1>1, <1>3, RunSet
<1> QED BY <1>3, <1>4 DEF RunTurns, RunGoes

-----------------------------------------------------------------------------
(* Chapters.                                                               *)

(* Rows of chapters of which the archive, or the release, may change.      *)
LEMMA ReleasedRows ==
    ASSUME NEW rows \in [Chapters -> Texts], NEW runs
    PROVE  /\ Released(rows, runs) \in [Chapters -> Texts]
           /\ \A c \in Chapters :
                 /\ Released(rows, runs)[c].version = rows[c].version
                 /\ Released(rows, runs)[c].text = rows[c].text
                 /\ Released(rows, runs)[c].summary = rows[c].summary
                 /\ ~Released(rows, runs)[c].required =>
                       \/ ~rows[c].required
                       \/ runs[c].status = "completed" /\ runs[c].version = rows[c].version
<1> DEFINE freed(c) == [rows[c] EXCEPT !.required = FALSE]
<1>1. ASSUME NEW c \in Chapters
      PROVE  /\ freed(c) \in Texts /\ freed(c).version = rows[c].version
             /\ freed(c).text = rows[c].text /\ freed(c).summary = rows[c].summary
      BY DEF Texts, ChapterRows
<1>2. Released(rows, runs) =
        [c \in Chapters |-> IF runs[c].status = "completed" /\ runs[c].version = rows[c].version
                            THEN freed(c) ELSE rows[c]]
      BY DEF Released
<1> HIDE DEF freed
<1> QED BY <1>1, <1>2

LEMMA DescribedRows ==
    ASSUME NEW c \in Chapters, TypeInv
    PROVE  /\ Described(c) \in [Chapters -> Texts]
           /\ Described(c)[c].summary = chapter[c].text
           /\ Described(c)[c].version = chapter[c].version
           /\ Described(c)[c].text = chapter[c].text
           /\ Described(c)[c].required = chapter[c].required
           /\ \A d \in Chapters \ {c} : Described(c)[d] = chapter[d]
<1> DEFINE r == [chapter[c] EXCEPT !.summary = chapter[c].text]
<1>1. chapter[c] \in Texts
      BY DEF TypeInv
<1>2. chapter[c].text \in 0 .. MaxVersion
      BY <1>1, CatalogingAssumption DEF Texts, ChapterRows
<1>3. /\ r \in Texts /\ r.summary = chapter[c].text /\ r.version = chapter[c].version
      /\ r.text = chapter[c].text /\ r.required = chapter[c].required
      BY <1>1, <1>2 DEF Texts, ChapterRows
<1>4. Described(c) = [chapter EXCEPT ![c] = r]
      BY DEF Described
<1> HIDE DEF r
<1> QED BY <1>3, <1>4 DEF TypeInv

(* A job is completed, and the failed ones it replaces are cancelled.      *)
Completed(j, runs) ==
    /\ job' \in [Jobs -> JobRows]
    /\ job'[j].status = "completed" /\ job'[j].source = job[j].source
    /\ job'[j].op = OperationStatus("completed")
    /\ \A k \in ReplacedBy(j, runs) :
          /\ job'[k].status = "cancelled" /\ job'[k].source = job[k].source
    /\ \A k \in Jobs \ ({j} \cup ReplacedBy(j, runs)) : job'[k] = job[k]
    /\ run' \in [Jobs -> [Chapters -> RunRows]] /\ run'[j] = runs
    /\ \A k \in Jobs \ {j} : run'[k] = run[k]

LEMMA CompleteJobCompletes ==
    ASSUME NEW p, NEW j \in Jobs, NEW rows, NEW runs \in [Chapters -> RunRows], TypeInv,
           CompleteJob(p, j, rows, runs)
    PROVE  Completed(j, runs) /\ chapter' = Released(rows, runs)
<1> DEFINE R == ReplacedBy(j, runs)
           done(k) == Shown([job[k] EXCEPT !.status = "completed"])
           gone(k) == Shown([job[k] EXCEPT !.status = "cancelled"])
<1>1. R \subseteq Jobs \ {j}
      BY DEF ReplacedBy, Jobs
<1>2. ASSUME NEW k \in Jobs, NEW st \in Statuses
      PROVE  LET r == [job[k] EXCEPT !.status = st] IN
             /\ Shown(r) \in JobRows /\ Shown(r).status = st /\ Shown(r).source = job[k].source
             /\ Shown(r).op = OperationStatus(st)
  <2> DEFINE r == [job[k] EXCEPT !.status = st]
  <2>1. r \in JobRows /\ r.status = st /\ r.source = job[k].source
        BY DEF TypeInv, JobRows, Statuses
  <2> HIDE DEF r
  <2> QED BY <2>1, ShownRow DEF r
<1>3. \A k \in Jobs : /\ done(k) \in JobRows /\ done(k).status = "completed"
                       /\ done(k).source = job[k].source
                       /\ done(k).op = OperationStatus("completed")
      BY <1>2 DEF Statuses, JobStatus
<1>4. \A k \in Jobs : /\ gone(k) \in JobRows /\ gone(k).status = "cancelled"
                       /\ gone(k).source = job[k].source
      BY <1>2 DEF Statuses, JobStatus
<1>5. /\ job' = [k \in Jobs |-> CASE k = j -> done(k) [] k \in R -> gone(k) [] OTHER -> job[k]]
      /\ run' = [run EXCEPT ![j] = runs]
      BY DEF CompleteJob
<1> HIDE DEF done, gone, R
<1>6. \A k \in Jobs : job'[k] = IF k = j THEN done(k) ELSE IF k \in R THEN gone(k) ELSE job[k]
      BY <1>1, <1>5
<1>7. job' \in [Jobs -> JobRows]
  <2>1. \A k \in Jobs : job'[k] \in JobRows
        BY <1>3, <1>4, <1>6 DEF TypeInv
  <2> QED BY <1>5, <2>1
<1>8. run' \in [Jobs -> [Chapters -> RunRows]] /\ run'[j] = runs /\ \A k \in Jobs \ {j} : run'[k] = run[k]
  <2> HIDE DEF RunRows
  <2> QED BY <1>5 DEF TypeInv
<1> QED BY <1>1, <1>3, <1>4, <1>6, <1>7, <1>8 DEF Completed, R, CompleteJob

-----------------------------------------------------------------------------
(* What the steps of a worker do.                                          *)

Queued == [NoTask EXCEPT !.at = "queued"]

(* The task of job j in p is t, and no other task changes.                 *)
TaskGoes(p, j, t) ==
    /\ task' \in [Procs -> [Jobs -> Workers]] /\ task'[p][j] = t
    /\ \A q \in Procs, k \in Jobs : <<q, k>> # <<p, j>> => task'[q][k] = task[q][k]

LEMMA ChapterOfTask ==
    ASSUME TypeInv, NEW p \in Procs, NEW j \in Jobs
    PROVE  task[p][j].chapter \in Chapters /\ task[p][j].at \in Ats
BY DEF TypeInv, Workers, TaskRows, Ats

LEMMA FirstOpen ==
    ASSUME NEW j \in Jobs, Unfinished(j) # {}
    PROVE  Min(Unfinished(j)) \in Unfinished(j) /\ Min(Unfinished(j)) \in Chapters
<1>1. Unfinished(j) \in SUBSET Nat /\ Unfinished(j) \subseteq Chapters
      BY DEF Unfinished, Chapters
<1> QED BY <1>1, MinOf

LEMMA FirstIn ==
    ASSUME NEW j \in Jobs, NEW S, RunsIn(j, S) # {}
    PROVE  Min(RunsIn(j, S)) \in Chapters /\ run[j][Min(RunsIn(j, S))].status \in S
<1>1. RunsIn(j, S) \in SUBSET Nat /\ RunsIn(j, S) \subseteq Chapters
      BY DEF RunsIn, Chapters
<1>2. Min(RunsIn(j, S)) \in RunsIn(j, S)
      BY <1>1, MinOf
<1> QED BY <1>2 DEF RunsIn

LEMMA NoTaskGoes ==
    ASSUME TypeInv, NEW p \in Procs, NEW j \in Jobs, NEW t \in {NoTask, Queued, Unheard},
           SetTask(p, j, t)
    PROVE  TaskGoes(p, j, t)
<1>1. t \in Workers
      BY NoTaskRow, UnheardRow DEF Queued
<1> QED BY <1>1, TaskSet DEF TaskGoes

LEMMA BeginDoes ==
    ASSUME TypeInv, NEW p \in Procs, NEW j \in Jobs, Begin(p, j)
    PROVE  /\ UNCHANGED <<chapter, job, run>>
           /\ task[p][j].at = "queued" /\ ~task[p][j].cancel /\ LoopFree(p)
           /\ IF Active(j) /\ ~Leased(p, j) THEN Moves(p, j, "loop", task[p][j].chapter)
              ELSE TaskGoes(p, j, NoTask)
<1>1. /\ UNCHANGED <<chapter, job, run>>
      /\ task[p][j].at = "queued" /\ ~task[p][j].cancel /\ LoopFree(p)
      BY DEF Begin, Step, Awaiting
<1>2. CASE Active(j) /\ ~Leased(p, j)
  <2>1. Goto(p, j, "loop")
        BY <1>2 DEF Begin
  <2> QED BY <1>1, <1>2, <2>1, GotoMoves DEF Ats
<1>3. CASE ~(Active(j) /\ ~Leased(p, j))
  <2>1. SetTask(p, j, NoTask)
        BY <1>3 DEF Begin, SetTask
  <2> QED BY <1>1, <1>3, <2>1, NoTaskGoes
<1> QED BY <1>2, <1>3

(* What a task that is over leaves: nothing, or the one queued behind it.  *)
After(t) == IF t.next THEN Queued ELSE NoTask
Left(t) == IF t.next THEN Queued ELSE Unheard

LEMMA VanishDoes ==
    ASSUME TypeInv, NEW p \in Procs, NEW j \in Jobs, Vanish(p, j)
    PROVE  /\ UNCHANGED <<chapter, job, run>>
           /\ task[p][j].at = "queued" /\ task[p][j].cancel /\ LoopFree(p)
           /\ TaskGoes(p, j, After(task[p][j]))
<1>1. SetTask(p, j, After(task[p][j]))
      BY DEF Vanish, SetTask, After, Queued, TypeInv
<1> QED BY <1>1, NoTaskGoes DEF Vanish, After

LEMMA StopsDoes ==
    ASSUME TypeInv, NEW p \in Procs, NEW j \in Jobs, Stops(p, j)
    PROVE  /\ task[p][j].at = "loop" /\ run' = run
           /\ job[j].status \in Closed \cup {"paused", "paused_on_failure"}
           /\ Shows(j, job[j].status)
           /\ chapter' = IF job[j].status = "completed" THEN Released(chapter, run[j]) ELSE chapter
           /\ Moves(p, j, "exit", task[p][j].chapter) /\ task'[p][j].err = FALSE
<1>1. /\ task[p][j].at = "loop" /\ run' = run
      /\ job[j].status \in Closed \cup {"paused", "paused_on_failure"}
      /\ job' = Becomes(j, job[j].status) /\ Exit(p, j, FALSE)
      /\ chapter' = IF job[j].status = "completed" THEN Released(chapter, run[j]) ELSE chapter
      BY DEF Stops, Step
<1>2. job[j].status \in Statuses
      BY DEF TypeInv, JobRows, Statuses
<1> QED BY <1>1, <1>2, BecomesShows, ExitMoves

(* A job that is turned to is not closed.                                  *)
Turning(p, j) ==
    task[p][j].at = "loop" /\ job[j].status \notin Closed \cup {"paused", "paused_on_failure"}

LEMMA CompletesDoes ==
    ASSUME TypeInv, NEW p \in Procs, NEW j \in Jobs, Completes(p, j)
    PROVE  /\ Turning(p, j) /\ Unfinished(j) = {}
           /\ Completed(j, run[j]) /\ chapter' = Released(chapter, run[j])
           /\ task' \in [Procs -> [Jobs -> Workers]]
           /\ task'[p][j].at = "exit" /\ task'[p][j].chapter = task[p][j].chapter
           /\ task'[p][j].cancel = task[p][j].cancel /\ task'[p][j].next = task[p][j].next
           /\ \A k \in Jobs \ {j} :
                IF k \in ReplacedBy(j, run[j]) /\ task[p][k].at # "none"
                THEN /\ task'[p][k].at = task[p][k].at /\ task'[p][k].chapter = task[p][k].chapter
                     /\ task'[p][k].err = task[p][k].err
                     /\ task'[p][k].cancel /\ ~task'[p][k].next
                ELSE task'[p][k] = task[p][k]
           /\ \A q \in Procs \ {p} : task'[q] = task[q]
<1>1. Turning(p, j) /\ Unfinished(j) = {}
      BY DEF Completes, Turn, Step, Turning
<1>2. Completed(j, run[j]) /\ chapter' = Released(chapter, run[j])
      BY CompleteJobCompletes DEF Completes, TypeInv
<1> DEFINE R == ReplacedBy(j, run[j])
           stopped == Stopped(p, R)
           t(k) == [task[p][k] EXCEPT !.cancel = TRUE, !.next = FALSE]
           row(k) == IF k \in R /\ task[p][k].at # "none" THEN t(k) ELSE task[p][k]
           e == [task[p][j] EXCEPT !.at = "exit"]
<1>3. \A k \in Jobs : task[p][k] \in TaskRows /\ task[p][k] \in Workers
      BY DEF TypeInv, Workers
<1>4. ASSUME NEW k \in Jobs
      PROVE  /\ t(k) \in Workers /\ t(k).at = task[p][k].at /\ t(k).chapter = task[p][k].chapter
             /\ t(k).err = task[p][k].err /\ t(k).cancel /\ ~t(k).next
      BY <1>3 DEF Workers, TaskRows
<1>5. /\ e \in Workers /\ e.at = "exit" /\ e.chapter = task[p][j].chapter
      /\ e.cancel = task[p][j].cancel /\ e.next = task[p][j].next
      BY <1>3 DEF Workers, TaskRows, Awaiting
<1>6. stopped = [task EXCEPT ![p] = [k \in Jobs |-> row(k)]]
      BY DEF Stopped
<1>7. j \notin R
      BY DEF ReplacedBy, Jobs
<1>8. stopped[p][j] = task[p][j]
      BY <1>6, <1>7 DEF TypeInv
<1>9. task' = [stopped EXCEPT ![p][j] = [stopped[p][j] EXCEPT !.at = "exit"]]
      BY <1>6 DEF Completes, TypeInv
<1>10. task' = [stopped EXCEPT ![p][j] = e]
      BY <1>8, <1>9
<1> HIDE DEF t, e, stopped, R
<1>11. stopped \in [Procs -> [Jobs -> Workers]]
  <2>1. [k \in Jobs |-> row(k)] \in [Jobs -> Workers]
        BY <1>3, <1>4
  <2> HIDE DEF row, Workers
  <2> QED BY <1>6, <2>1 DEF TypeInv
<1>12. task' \in [Procs -> [Jobs -> Workers]] /\ task'[p][j] = e
      BY <1>5, <1>10, <1>11
<1>13. \A k \in Jobs \ {j} : task'[p][k] = row(k)
      BY <1>6, <1>10, <1>11 DEF TypeInv
<1>14. \A q \in Procs \ {p} : task'[q] = task[q]
      BY <1>6, <1>10, <1>11 DEF TypeInv
<1> QED BY <1>1, <1>2, <1>4, <1>5, <1>12, <1>13, <1>14 DEF R

LEMMA PausesDoes ==
    ASSUME TypeInv, NEW p \in Procs, NEW j \in Jobs, Pauses(p, j)
    PROVE  /\ Turning(p, j) /\ UNCHANGED <<chapter, run>>
           /\ Blocking(j) # {}
           /\ Shows(j, "paused_on_failure")
           /\ Moves(p, j, "exit", task[p][j].chapter)
<1>1. /\ Turning(p, j) /\ UNCHANGED <<chapter, run>> /\ Unfinished(j) # {}
      /\ run[j][Min(Unfinished(j))].status = "failed"
      /\ job' = Becomes(j, "paused_on_failure") /\ Exit(p, j, FALSE)
      BY DEF Pauses, Turn, Step, Turning
<1>2. Blocking(j) # {}
      BY <1>1, FirstOpen DEF Blocking, RunsIn
<1>3. Shows(j, "paused_on_failure")
      BY <1>1, BecomesShows DEF Statuses, JobStatus
<1> QED BY <1>1, <1>2, <1>3, ExitMoves

LEMMA ExtractsDoes ==
    ASSUME TypeInv, NEW p \in Procs, NEW j \in Jobs, Extracts(p, j)
    PROVE  /\ Turning(p, j) /\ UNCHANGED chapter
           /\ \E c \in Unfinished(j) :
                /\ run[j][c].status \notin {"failed", "awaiting_confirmation"}
                /\ \/ /\ Active(j) /\ Current(j, c)
                      /\ RunTurns(j, c, "extracting") /\ Sets(j, "running") /\ Moves(p, j, "model", c)
                   \/ /\ ~(Active(j) /\ Current(j, c))
                      /\ Moves(p, j, "exit", task[p][j].chapter) /\ task'[p][j].err = TRUE
                      /\ UNCHANGED <<run, job>>
<1> DEFINE c == Min(Unfinished(j))
<1>1. Turning(p, j) /\ UNCHANGED chapter /\ Unfinished(j) # {}
      BY DEF Extracts, Turn, Step, Turning
<1>2. c \in Unfinished(j) /\ c \in Chapters
      BY <1>1, FirstOpen
<1>3. run[j][c].status \notin {"failed", "awaiting_confirmation"}
      BY DEF Extracts
<1>4. CASE Active(j) /\ Current(j, c)
  <2>1. /\ run' = RunBecomes(j, c, "extracting") /\ job' = [job EXCEPT ![j].status = "running"]
        /\ task' = [task EXCEPT ![p][j].at = "model", ![p][j].chapter = c]
        BY <1>4 DEF Extracts
  <2> HIDE DEF c
  <2>2. RunTurns(j, c, "extracting")
        BY <1>2, <2>1, RunBecomesTurns DEF RunStatuses
  <2>3. Sets(j, "running")
        BY <2>1, StatusSets DEF Statuses, JobStatus
  <2>4. Moves(p, j, "model", c)
        BY <1>2, <2>1, ModelMoves
  <2> QED BY <1>1, <1>2, <1>3, <1>4, <2>2, <2>3, <2>4
<1>5. CASE ~(Active(j) /\ Current(j, c))
  <2>1. Exit(p, j, TRUE) /\ UNCHANGED <<run, job>>
        BY <1>5 DEF Extracts
  <2> QED BY <1>1, <1>2, <1>3, <1>5, <2>1, ExitMoves
<1> QED BY <1>4, <1>5

(* The steps that leave all but the worker as it is.                       *)
LEMMA CallStoppedDoes ==
    ASSUME TypeInv, NEW p \in Procs, NEW j \in Jobs, CallStopped(p, j)
    PROVE  /\ UNCHANGED <<chapter, job, run>>
           /\ Step(p, j, "model") /\ ~Active(j)
           /\ Moves(p, j, "review", task[p][j].chapter)
BY GotoMoves DEF CallStopped, Ats

LEMMA ReviewStopsDoes ==
    ASSUME TypeInv, NEW p \in Procs, NEW j \in Jobs, ReviewStops(p, j)
    PROVE  /\ UNCHANGED <<chapter, job, run>>
           /\ task[p][j].at = "review"
           /\ \/ /\ job[j].status \in {"cancelled", "paused"}
                 /\ Moves(p, j, "exit", task[p][j].chapter)
              \/ /\ run[j][task[p][j].chapter].status = "failed"
                 /\ Moves(p, j, "loop", task[p][j].chapter)
BY GotoMoves, ExitMoves DEF ReviewStops, Step, Ats

LEMMA ApplyRaisesDoes ==
    ASSUME TypeInv, NEW p \in Procs, NEW j \in Jobs, ApplyRaises(p, j)
    PROVE  /\ UNCHANGED <<chapter, job, run>>
           /\ task[p][j].at = "apply"
           /\ Moves(p, j, "exit", task[p][j].chapter) /\ task'[p][j].err
BY ExitMoves DEF ApplyRaises, Step

LEMMA BacksOffDoes ==
    ASSUME TypeInv, NEW p \in Procs, NEW j \in Jobs, BacksOff(p, j)
    PROVE  /\ UNCHANGED <<chapter, job, run>>
           /\ task[p][j].at = "apply"
           /\ Moves(p, j, "backoff", task[p][j].chapter)
BY GotoMoves DEF BacksOff, Step, Ats, Awaiting

LEMMA TriesAgainDoes ==
    ASSUME TypeInv, NEW p \in Procs, NEW j \in Jobs, TriesAgain(p, j)
    PROVE  /\ UNCHANGED <<chapter, job, run>>
           /\ Step(p, j, "backoff")
           /\ Moves(p, j, "apply", task[p][j].chapter)
BY AgainMoves DEF TriesAgain

LEMMA UnwindsDoes ==
    ASSUME TypeInv, NEW p \in Procs, NEW j \in Jobs, Unwinds(p, j)
    PROVE  /\ UNCHANGED <<chapter, job, run>>
           /\ task[p][j].at \in {"model", "backoff"} /\ LoopFree(p)
           /\ Moves(p, j, "exit", task[p][j].chapter) /\ task'[p][j].err
BY ExitMoves DEF Unwinds

LEMMA SavePlanDoes ==
    ASSUME TypeInv, NEW p \in Procs, NEW j \in Jobs, NEW c \in Chapters, SavePlan(p, j, c)
    PROVE  /\ Submits(p, j, c) /\ RunTurns(j, c, "extracting") /\ Sets(j, "running")
           /\ UNCHANGED <<chapter, task>>
<1> DEFINE r == [run[j][c] EXCEPT !.status = "extracting", !.plan = "partial"]
<1>1. SetRun(j, c, r)
      BY DEF SavePlan, SetRun, TypeInv
<1>2. run[j][c] \in RunRows
      BY DEF TypeInv
<1>3. r \in RunRows /\ r.status = "extracting" /\ r.version = run[j][c].version
      BY <1>2 DEF RunRows
<1> HIDE DEF r
<1>4. RunGoes(j, c, r)
      BY <1>1, <1>3, RunSet
<1>5. RunTurns(j, c, "extracting")
      BY <1>3, <1>4 DEF RunTurns, RunGoes
<1>6. Sets(j, "running")
      BY StatusSets DEF SavePlan, Statuses, JobStatus
<1> QED BY <1>5, <1>6 DEF SavePlan, Submits

LEMMA FinalizePlanDoes ==
    ASSUME TypeInv, NEW p \in Procs, NEW j \in Jobs, NEW c \in Chapters, FinalizePlan(p, j, c)
    PROVE  /\ Submits(p, j, c) /\ RunTurns(j, c, "awaiting_confirmation")
           /\ Sets(j, "waiting_confirmation") /\ UNCHANGED chapter
           /\ Moves(p, j, "planned", task[p][j].chapter)
<1> DEFINE r == [run[j][c] EXCEPT !.status = "awaiting_confirmation", !.plan = "complete"]
<1>1. SetRun(j, c, r)
      BY DEF FinalizePlan, SetRun, TypeInv
<1>2. run[j][c] \in RunRows
      BY DEF TypeInv
<1>3. r \in RunRows /\ r.status = "awaiting_confirmation" /\ r.version = run[j][c].version
      BY <1>2 DEF RunRows
<1> HIDE DEF r
<1>4. RunGoes(j, c, r)
      BY <1>1, <1>3, RunSet
<1>5. RunTurns(j, c, "awaiting_confirmation")
      BY <1>3, <1>4 DEF RunTurns, RunGoes
<1>6. Sets(j, "waiting_confirmation")
      BY StatusSets DEF FinalizePlan, Statuses, JobStatus
<1>7. Moves(p, j, "planned", task[p][j].chapter)
      BY GotoMoves DEF FinalizePlan, Ats
<1> QED BY <1>5, <1>6, <1>7 DEF FinalizePlan, Submits

LEMMA CallFailsDoes ==
    ASSUME TypeInv, NEW p \in Procs, NEW j \in Jobs, CallFails(p, j)
    PROVE  /\ Step(p, j, "model") /\ RunTurns(j, task[p][j].chapter, "failed")
           /\ Sets(j, "paused_on_failure") /\ UNCHANGED chapter
           /\ Moves(p, j, "loop", task[p][j].chapter)
<1>1. RunTurns(j, task[p][j].chapter, "failed")
      BY ChapterOfTask, RunBecomesTurns DEF CallFails, RunStatuses
<1>2. Sets(j, "paused_on_failure")
      BY StatusSets DEF CallFails, Statuses, JobStatus
<1>3. Moves(p, j, "loop", task[p][j].chapter)
      BY GotoMoves DEF CallFails, Ats
<1> QED BY <1>1, <1>2, <1>3 DEF CallFails

LEMMA TakesOverDoes ==
    ASSUME TypeInv, NEW p \in Procs, NEW j \in Jobs, TakesOver(p, j)
    PROVE  /\ task[p][j].at = "planned" /\ UNCHANGED chapter
           /\ \/ /\ run[j][task[p][j].chapter].status = "awaiting_confirmation"
                 /\ Sets(j, "running") /\ Moves(p, j, "review", task[p][j].chapter) /\ run' = run
              \/ /\ run[j][task[p][j].chapter].status # "awaiting_confirmation"
                 /\ \/ /\ RunTurns(j, task[p][j].chapter, "failed") /\ Sets(j, "paused_on_failure")
                       /\ Moves(p, j, "loop", task[p][j].chapter)
                    \/ Moves(p, j, "exit", task[p][j].chapter) /\ UNCHANGED <<job, run>>
<1> DEFINE c == task[p][j].chapter
<1>1. task[p][j].at = "planned" /\ UNCHANGED chapter
      BY DEF TakesOver, Step
<1>2. CASE run[j][c].status = "awaiting_confirmation"
  <2>1. job' = [job EXCEPT ![j].status = "running"] /\ Goto(p, j, "review") /\ run' = run
        BY <1>2 DEF TakesOver
  <2> QED BY <1>1, <1>2, <2>1, StatusSets, GotoMoves DEF Statuses, JobStatus, Ats
<1>3. CASE run[j][c].status # "awaiting_confirmation" /\ Active(j)
  <2>1. /\ run' = RunBecomes(j, c, "failed") /\ job' = [job EXCEPT ![j].status = "paused_on_failure"]
        /\ Goto(p, j, "loop")
        BY <1>3 DEF TakesOver
  <2>2. RunTurns(j, c, "failed")
        BY <2>1, ChapterOfTask, RunBecomesTurns DEF RunStatuses
  <2>3. Sets(j, "paused_on_failure")
        BY <2>1, StatusSets DEF Statuses, JobStatus
  <2> QED BY <1>1, <1>3, <2>1, <2>2, <2>3, GotoMoves DEF Ats
<1>4. CASE run[j][c].status # "awaiting_confirmation" /\ ~Active(j)
  <2>1. Exit(p, j, TRUE) /\ UNCHANGED <<job, run>>
        BY <1>4 DEF TakesOver
  <2> QED BY <1>1, <1>4, <2>1, ExitMoves
<1> QED BY <1>2, <1>3, <1>4

LEMMA WaitsForAuthorDoes ==
    ASSUME TypeInv, NEW p \in Procs, NEW j \in Jobs, NEW c \in Chapters, WaitsForAuthor(p, j, c)
    PROVE  /\ \/ Turning(p, j)
              \/ task[p][j].at = "review" /\ job[j].status \notin {"cancelled", "paused"}
           /\ run[j][c].status = "awaiting_confirmation"
           /\ Shows(j, "waiting_confirmation") /\ UNCHANGED <<chapter, run>>
           /\ Moves(p, j, "exit", task[p][j].chapter)
<1>1. Shows(j, "waiting_confirmation")
      BY BecomesShows DEF WaitsForAuthor, Statuses, JobStatus
<1>2. Moves(p, j, "exit", task[p][j].chapter)
      BY ExitMoves DEF WaitsForAuthor
<1> QED BY <1>1, <1>2 DEF WaitsForAuthor, ToReview, Turn, Turning, Step

LEMMA StartsApplyingDoes ==
    ASSUME TypeInv, NEW p \in Procs, NEW j \in Jobs, NEW c \in Chapters, StartsApplying(p, j, c)
    PROVE  /\ task[p][j].at \in {"loop", "review"} /\ UNCHANGED chapter
           /\ \/ /\ Active(j) /\ RunTurns(j, c, "applying") /\ Sets(j, "running")
                 /\ Moves(p, j, "apply", c)
              \/ /\ ~Active(j) /\ UNCHANGED <<run, job>>
                 /\ Moves(p, j, "exit", task[p][j].chapter) /\ task'[p][j].err
<1>1. task[p][j].at \in {"loop", "review"} /\ UNCHANGED chapter
      BY DEF StartsApplying, ToReview, Turn, Step
<1>2. CASE Active(j)
  <2>1. RunTurns(j, c, "applying")
        BY <1>2, RunBecomesTurns DEF StartsApplying, RunStatuses
  <2>2. Sets(j, "running")
        BY <1>2, StatusSets DEF StartsApplying, Statuses, JobStatus
  <2>3. Moves(p, j, "apply", c)
        BY <1>2, ApplyMoves DEF StartsApplying
  <2> QED BY <1>1, <1>2, <2>1, <2>2, <2>3
<1>3. CASE ~Active(j)
      BY <1>1, <1>3, ExitMoves DEF StartsApplying
<1> QED BY <1>2, <1>3

LEMMA AppliesDoes ==
    ASSUME TypeInv, NEW p \in Procs, NEW j \in Jobs, Applies(p, j)
    PROVE  LET c == task[p][j].chapter IN
           /\ task[p][j].at = "apply" /\ Active(j) /\ Current(j, c)
           /\ chapter' = Described(c) /\ RunTurns(j, c, run[j][c].status) /\ job' = job
           /\ Moves(p, j, "applied", c)
<1> DEFINE c == task[p][j].chapter
           r == [run[j][c] EXCEPT !.applied = TRUE]
<1>1. c \in Chapters
      BY ChapterOfTask
<1>2. SetRun(j, c, r)
      BY DEF Applies, SetRun, TypeInv
<1>3. run[j][c] \in RunRows
      BY <1>1 DEF TypeInv
<1>4. r \in RunRows /\ r.status = run[j][c].status /\ r.version = run[j][c].version
      BY <1>3 DEF RunRows
<1>5. Moves(p, j, "applied", c)
      BY GotoMoves DEF Applies, Ats
<1>6. /\ task[p][j].at = "apply" /\ Active(j) /\ Current(j, c)
      /\ chapter' = Described(c) /\ job' = job
      BY DEF Applies, Step
<1> HIDE DEF r, c
<1>7. RunGoes(j, c, r)
      BY <1>1, <1>2, <1>4, RunSet
<1>8. RunTurns(j, c, run[j][c].status)
      BY <1>4, <1>7 DEF RunTurns, RunGoes
<1> QED BY <1>5, <1>6, <1>8 DEF c

LEMMA ApplyFailsDoes ==
    ASSUME TypeInv, NEW p \in Procs, NEW j \in Jobs, ApplyFails(p, j)
    PROVE  /\ task[p][j].at = "apply" /\ RunTurns(j, task[p][j].chapter, "failed")
           /\ Shows(j, "paused_on_failure") /\ UNCHANGED chapter
           /\ Moves(p, j, "loop", task[p][j].chapter) /\ Active(j)
<1>1. RunTurns(j, task[p][j].chapter, "failed")
      BY ChapterOfTask, RunBecomesTurns DEF ApplyFails, RunStatuses
<1>2. Shows(j, "paused_on_failure")
      BY BecomesShows DEF ApplyFails, Statuses, JobStatus
<1>3. Moves(p, j, "loop", task[p][j].chapter)
      BY GotoMoves DEF ApplyFails, Ats
<1> QED BY <1>1, <1>2, <1>3 DEF ApplyFails, Step

LEMMA FinishesDoes ==
    ASSUME TypeInv, NEW p \in Procs, NEW j \in Jobs, Finishes(p, j)
    PROVE  /\ task[p][j].at = "applied" /\ RunTurns(j, task[p][j].chapter, "completed")
           /\ Shows(j, job[j].status) /\ UNCHANGED chapter
           /\ Moves(p, j, "loop", task[p][j].chapter)
<1>1. RunTurns(j, task[p][j].chapter, "completed")
      BY ChapterOfTask, RunBecomesTurns DEF Finishes, RunStatuses
<1>2. job[j].status \in Statuses
      BY DEF TypeInv, JobRows, Statuses
<1>3. Shows(j, job[j].status)
      BY <1>2, BecomesShows DEF Finishes
<1>4. Moves(p, j, "loop", task[p][j].chapter)
      BY GotoMoves DEF Finishes, Ats
<1> QED BY <1>1, <1>3, <1>4 DEF Finishes, Step

(* A worker that failed leaves its job to be retried.                      *)
LEMMA WorkerFailedDoes ==
    ASSUME TypeInv, NEW j \in Jobs, WorkerFailed(j)
    PROVE  /\ Shows(j, "paused_on_failure")
           /\ \/ Unfinished(j) = {} /\ run' = run
              \/ \E c \in Unfinished(j) : RunTurns(j, c, "failed")
<1>1. Shows(j, "paused_on_failure")
      BY BecomesShows DEF WorkerFailed, Statuses, JobStatus
<1>2. CASE Unfinished(j) = {}
      BY <1>1, <1>2 DEF WorkerFailed
<1>3. CASE Unfinished(j) # {}
  <2> DEFINE c == Min(Unfinished(j))
  <2>1. c \in Unfinished(j) /\ c \in Chapters
        BY <1>3, FirstOpen
  <2>2. run' = RunBecomes(j, c, "failed")
        BY <1>3 DEF WorkerFailed
  <2> HIDE DEF c
  <2>3. RunTurns(j, c, "failed")
        BY <2>1, <2>2, RunBecomesTurns DEF RunStatuses
  <2> QED BY <1>1, <2>1, <2>3
<1> QED BY <1>2, <1>3

LEMMA LeavesDoes ==
    ASSUME TypeInv, NEW p \in Procs, NEW j \in Jobs, Leaves(p, j)
    PROVE  /\ task[p][j].at = "exit" /\ LoopFree(p) /\ UNCHANGED chapter
           /\ TaskGoes(p, j, After(task[p][j]))
           /\ IF (task[p][j].cancel \/ task[p][j].err) /\ Active(j)
              THEN WorkerFailed(j) ELSE UNCHANGED <<job, run>>
<1>1. SetTask(p, j, After(task[p][j]))
      BY DEF Leaves, SetTask, After, Queued, TypeInv
<1> QED BY <1>1, NoTaskGoes DEF Leaves, LeavesWork, After

LEMMA LeavesUnrecordedDoes ==
    ASSUME TypeInv, NEW p \in Procs, NEW j \in Jobs, LeavesUnrecorded(p, j)
    PROVE  /\ task[p][j].at = "exit" /\ LoopFree(p) /\ UNCHANGED <<chapter, job, run>>
           /\ TaskGoes(p, j, Left(task[p][j]))
<1>1. SetTask(p, j, Left(task[p][j]))
      BY DEF LeavesUnrecorded, SetTask, Left, Queued, Unheard, TypeInv
<1> QED BY <1>1, NoTaskGoes DEF LeavesUnrecorded, Left

-----------------------------------------------------------------------------
(* What the author, the saves and the phone do.                            *)

(* A new job: the jobs in old are cancelled, and j has runs to be done.    *)
Starts(p, j, old) ==
    /\ LoopFree(p) /\ job[j].status = "absent" /\ UNCHANGED chapter
    /\ \A k \in old : k \in Jobs /\ k # j
    /\ job' \in [Jobs -> JobRows] /\ job'[j].status = "queued"
    /\ \A k \in old : job'[k].status = "cancelled"
    /\ \A k \in Jobs \ ({j} \cup old) : job'[k] = job[k]
    /\ run' \in [Jobs -> [Chapters -> RunRows]]
    /\ \A k \in Jobs \ {j} : run'[k] = run[k]
    /\ \A c \in Chapters : /\ run'[j][c].status \in {"pending", "absent"}
                           /\ run'[j][c].version \in {chapter[c].version, 0}
    /\ task' \in [Procs -> [Jobs -> Workers]] /\ task'[p][j] = Queued
    /\ \A q \in Procs \ {p} : task'[q] = task[q]
    /\ \A k \in Jobs \ {j} :
          IF k \in old /\ task[p][k].at # "none"
          THEN /\ task'[p][k].at = task[p][k].at /\ task'[p][k].chapter = task[p][k].chapter
               /\ task'[p][k].err = task[p][k].err
               /\ task'[p][k].cancel /\ ~task'[p][k].next
          ELSE task'[p][k] = task[p][k]

LEMMA StartStarts ==
    ASSUME TypeInv, NEW p \in Procs, NEW j \in Jobs, NEW S \in SUBSET Chapters,
           NEW mode \in {"auto", "manual"}, NEW source \in {"manual", "save"},
           Start(p, j, S, mode, source)
    PROVE  Starts(p, j, IF source = "save" THEN Superseded(Missing(S)) ELSE {})
<1> DEFINE old == IF source = "save" THEN Superseded(Missing(S)) ELSE {}
           new == [status |-> "queued", mode |-> mode, source |-> source, op |-> "queued"]
           gone(k) == Shown([job[k] EXCEPT !.status = "cancelled"])
           pend(c) == [AbsentRun EXCEPT !.status = "pending", !.version = chapter[c].version]
           rows == [c \in Chapters |-> IF c \in Missing(S) THEN pend(c) ELSE AbsentRun]
           t(k) == [task[p][k] EXCEPT !.cancel = TRUE, !.next = FALSE]
           row(k) == IF k \in old /\ task[p][k].at # "none" THEN t(k) ELSE task[p][k]
           stopped == Stopped(p, old)
<1>1. LoopFree(p) /\ job[j].status = "absent" /\ UNCHANGED chapter
      BY DEF Start, NextJob
<1>2. \A k \in old : k \in Jobs /\ k # j
      BY <1>1 DEF Superseded
<1>3. /\ job' = [k \in Jobs |-> CASE k = j -> new [] k \in old -> gone(k) [] OTHER -> job[k]]
      /\ run' = [run EXCEPT ![j] = rows]
      /\ task' = [stopped EXCEPT ![p][j] = Queued]
      BY DEF Start, Queued
<1>4. new \in JobRows /\ new.status = "queued"
      BY DEF JobRows, JobStatus
<1>5. ASSUME NEW k \in Jobs PROVE gone(k) \in JobRows /\ gone(k).status = "cancelled"
  <2> DEFINE r == [job[k] EXCEPT !.status = "cancelled"]
  <2>1. r \in JobRows /\ r.status = "cancelled"
        BY DEF TypeInv, JobRows, JobStatus
  <2> HIDE DEF r
  <2> QED BY <2>1, ShownRow DEF r
<1>6. ASSUME NEW c \in Chapters
      PROVE  /\ pend(c) \in RunRows /\ AbsentRun \in RunRows
             /\ pend(c).status = "pending" /\ pend(c).version = chapter[c].version
             /\ AbsentRun.status = "absent" /\ AbsentRun.version = 0
  <2>1. chapter[c].version \in 0 .. MaxVersion /\ 0 \in 0 .. MaxVersion
        BY CatalogingAssumption DEF TypeInv, Texts, ChapterRows
  <2> QED BY <2>1 DEF RunRows, AbsentRun
<1>7. \A k \in Jobs : task[p][k] \in TaskRows /\ task[p][k] \in Workers
      BY DEF TypeInv, Workers
<1>8. ASSUME NEW k \in Jobs
      PROVE  /\ t(k) \in Workers /\ t(k).at = task[p][k].at /\ t(k).chapter = task[p][k].chapter
             /\ t(k).err = task[p][k].err /\ t(k).cancel /\ ~t(k).next
      BY <1>7 DEF Workers, TaskRows
<1>9. stopped = [task EXCEPT ![p] = [k \in Jobs |-> row(k)]]
      BY DEF Stopped
<1>10. Queued \in Workers
      BY NoTaskRow DEF Queued
<1> HIDE DEF old, new, gone, pend, t, stopped
<1>11. \A k \in Jobs : job'[k] = IF k = j THEN new ELSE IF k \in old THEN gone(k) ELSE job[k]
      BY <1>2, <1>3
<1>12. job' \in [Jobs -> JobRows]
  <2>1. \A k \in Jobs : job'[k] \in JobRows
        BY <1>4, <1>5, <1>11 DEF TypeInv
  <2> QED BY <1>3, <2>1
<1>13. rows \in [Chapters -> RunRows] /\ \A c \in Chapters :
          rows[c].status \in {"pending", "absent"} /\ rows[c].version \in {chapter[c].version, 0}
      BY <1>6
<1>14. /\ run' \in [Jobs -> [Chapters -> RunRows]] /\ run'[j] = rows
       /\ \A k \in Jobs \ {j} : run'[k] = run[k]
  <2> HIDE DEF RunRows, rows
  <2> QED BY <1>3, <1>13 DEF TypeInv
<1>15. stopped \in [Procs -> [Jobs -> Workers]]
  <2>1. [k \in Jobs |-> row(k)] \in [Jobs -> Workers]
        BY <1>7, <1>8
  <2> HIDE DEF row, Workers
  <2> QED BY <1>9, <2>1 DEF TypeInv
<1>16. task' \in [Procs -> [Jobs -> Workers]] /\ task'[p][j] = Queued
      BY <1>3, <1>10, <1>15
<1>17. \A k \in Jobs \ {j} : task'[p][k] = row(k)
      BY <1>3, <1>9, <1>15 DEF TypeInv
<1>18. \A q \in Procs \ {p} : task'[q] = task[q]
      BY <1>3, <1>9, <1>15 DEF TypeInv
<1>19. Starts(p, j, old)
  <2> HIDE DEF rows
  <2> QED BY <1>1, <1>2, <1>4, <1>5, <1>8, <1>11, <1>12, <1>13, <1>14, <1>16, <1>17, <1>18 DEF Starts
<1> QED BY <1>19 DEF old

(* A phone's job: its outcome is there at once.                            *)
Phones(j, c, status) ==
    /\ UNCHANGED task
    /\ job' \in [Jobs -> JobRows] /\ job'[j].status = status /\ job'[j].source = "mobile"
    /\ job'[j].op = status
    /\ \A k \in Jobs \ {j} : job'[k] = job[k]
    /\ run' \in [Jobs -> [Chapters -> RunRows]] /\ run'[j][c].status = status
    /\ run'[j][c].version =< chapter[c].version
    /\ \A d \in Chapters \ {c} : run'[j][d] = run[j][d]
    /\ \A k \in Jobs \ {j} : run'[k] = run[k]

SetJob(j, r) == job' = [job EXCEPT ![j] = r]

LEMMA JobSet ==
    ASSUME TypeInv, NEW j \in Jobs, NEW r \in JobRows, SetJob(j, r)
    PROVE  job' \in [Jobs -> JobRows] /\ job'[j] = r /\ \A k \in Jobs \ {j} : job'[k] = job[k]
<1> HIDE DEF JobRows
<1> QED BY DEF TypeInv, SetJob

LEMMA MobileCommitDoes ==
    ASSUME TypeInv, NEW j \in Jobs, NEW c \in Chapters, MobileCommit(j, c)
    PROVE  /\ MobileRequest(j, c, chapter[c].version) /\ Phones(j, c, "completed")
           /\ run'[j][c].version = chapter[c].version
           /\ chapter' = Released(Described(c), run'[j])
<1> DEFINE jr == [status |-> "completed", mode |-> "auto", source |-> "mobile", op |-> "completed"]
           r == [status |-> "completed", version |-> chapter[c].version, plan |-> "complete",
                 applied |-> TRUE]
           done == [run[j] EXCEPT ![c] = r]
<1>1. /\ MobileRequest(j, c, chapter[c].version) /\ SetJob(j, jr) /\ task' = task
      /\ run' = [run EXCEPT ![j] = done] /\ chapter' = Released(Described(c), done)
      BY DEF MobileCommit, SetJob
<1>2. jr \in JobRows /\ jr.status = "completed" /\ jr.source = "mobile" /\ jr.op = "completed"
      BY DEF JobRows, JobStatus
<1>3. chapter[c].version \in 0 .. MaxVersion /\ chapter[c].version \in Nat
      BY CatalogingAssumption DEF TypeInv, Texts, ChapterRows
<1>4. r \in RunRows /\ r.status = "completed" /\ r.version = chapter[c].version
      BY <1>3 DEF RunRows
<1> HIDE DEF jr, r
<1>5. SetRun(j, c, r) /\ run'[j] = done
      BY <1>1 DEF SetRun, TypeInv
<1>6. RunGoes(j, c, r)
      BY <1>4, <1>5, RunSet
<1>7. job' \in [Jobs -> JobRows] /\ job'[j] = jr /\ \A k \in Jobs \ {j} : job'[k] = job[k]
      BY <1>1, <1>2, JobSet
<1>8. Phones(j, c, "completed") /\ run'[j][c].version = chapter[c].version
  <2> HIDE DEF done
  <2> QED BY <1>1, <1>2, <1>3, <1>4, <1>6, <1>7 DEF Phones, RunGoes
<1> QED BY <1>1, <1>5, <1>8

LEMMA MobileRefusedDoes ==
    ASSUME TypeInv, NEW j \in Jobs, NEW c \in Chapters, NEW v \in 1 .. MaxVersion,
           MobileRefused(j, c, v)
    PROVE  /\ MobileRequest(j, c, v) /\ Phones(j, c, "failed") /\ UNCHANGED chapter
<1> DEFINE jr == [status |-> "failed", mode |-> "auto", source |-> "mobile", op |-> "failed"]
           r == [AbsentRun EXCEPT !.status = "failed", !.version = v]
<1>1. /\ MobileRequest(j, c, v) /\ SetJob(j, jr) /\ UNCHANGED <<chapter, task>> /\ SetRun(j, c, r)
      BY DEF MobileRefused, MobileRun, SetJob, SetRun
<1>2. jr \in JobRows /\ jr.status = "failed" /\ jr.source = "mobile" /\ jr.op = "failed"
      BY DEF JobRows, JobStatus
<1>3. v \in 0 .. MaxVersion /\ v =< chapter[c].version
      BY <1>1, CatalogingAssumption DEF MobileRequest, TypeInv, Texts, ChapterRows
<1>4. r \in RunRows /\ r.status = "failed" /\ r.version = v
      BY <1>3 DEF RunRows, AbsentRun
<1> HIDE DEF jr, r
<1>5. RunGoes(j, c, r)
      BY <1>1, <1>4, RunSet
<1>6. job' \in [Jobs -> JobRows] /\ job'[j] = jr /\ \A k \in Jobs \ {j} : job'[k] = job[k]
      BY <1>1, <1>2, JobSet
<1> QED BY <1>1, <1>2, <1>3, <1>4, <1>5, <1>6 DEF Phones, RunGoes

-----------------------------------------------------------------------------
(* What the controls do.                                                   *)

LEMMA PauseDoes ==
    ASSUME TypeInv, NEW p \in Procs, NEW j \in Jobs, Pause(p, j)
    PROVE  /\ Handler(p, j) /\ job[j].status \in {"queued", "running", "waiting_confirmation"}
           /\ Shows(j, "paused") /\ Cancels(p, {j}) /\ UNCHANGED <<chapter, run>>
BY BecomesShows, StoppedTasks DEF Pause, Statuses, JobStatus

LEMMA ResumeDoes ==
    ASSUME TypeInv, NEW p \in Procs, NEW j \in Jobs, Resume(p, j)
    PROVE  /\ Coroutine(p, j) /\ job[j].status = "paused"
           /\ Shows(j, "running") /\ Queues(p, j) /\ UNCHANGED <<chapter, run>>
BY BecomesShows, QueueQueues DEF Resume, Statuses, JobStatus

LEMMA CancelDoes ==
    ASSUME TypeInv, NEW p \in Procs, NEW j \in Jobs, Cancel(p, j)
    PROVE  /\ Handler(p, j) /\ Shows(j, "cancelled") /\ Cancels(p, {j})
           /\ UNCHANGED <<chapter, run>>
BY BecomesShows, StoppedTasks DEF Cancel, Statuses, JobStatus

LEMMA SetModeDoes ==
    ASSUME TypeInv, NEW p \in Procs, NEW j \in Jobs, NEW mode \in {"auto", "manual"},
           SetMode(p, j, mode)
    PROVE  /\ Coroutine(p, j) /\ UNCHANGED <<chapter, run>>
           /\ \/ /\ job[j].status = "waiting_confirmation"
                 /\ Shows(j, "running") /\ Queues(p, j)
              \/ /\ UNCHANGED task
                 /\ job' \in [Jobs -> JobRows]
                 /\ job'[j].status = job[j].status /\ job'[j].source = job[j].source
                 /\ job'[j].op = job[j].op
                 /\ \A k \in Jobs \ {j} : job'[k] = job[k]
<1> DEFINE r == [job[j] EXCEPT !.mode = mode]
           u == [r EXCEPT !.status = "running"]
<1>1. Coroutine(p, j) /\ UNCHANGED <<chapter, run>>
      BY DEF SetMode
<1>2. job[j] \in JobRows
      BY DEF TypeInv
<1>3. /\ r \in JobRows /\ r.status = job[j].status /\ r.source = job[j].source
      /\ r.op = job[j].op
      BY <1>2 DEF JobRows
<1>4. CASE job[j].status = "waiting_confirmation" /\ mode = "auto"
  <2>1. SetJob(j, Shown(u)) /\ task' = Queue(p, j)
        BY <1>4 DEF SetMode, SetJob
  <2> HIDE DEF r
  <2>2. u \in JobRows /\ u.status = "running" /\ u.source = job[j].source
        BY <1>3 DEF JobRows, JobStatus
  <2> HIDE DEF u
  <2>3. /\ Shown(u) \in JobRows /\ Shown(u).status = "running" /\ Shown(u).source = job[j].source
        /\ Shown(u).op = OperationStatus("running")
        BY <2>2, ShownRow
  <2>4. /\ job' \in [Jobs -> JobRows] /\ job'[j] = Shown(u)
        /\ \A k \in Jobs \ {j} : job'[k] = job[k]
        BY <2>1, <2>3, JobSet
  <2>5. Shows(j, "running")
        BY <2>3, <2>4 DEF Shows
  <2> QED BY <1>1, <1>4, <2>1, <2>5, QueueQueues
<1>5. CASE ~(job[j].status = "waiting_confirmation" /\ mode = "auto")
  <2>1. SetJob(j, r) /\ UNCHANGED task
        BY <1>5 DEF SetMode, SetJob
  <2> HIDE DEF r
  <2>2. job' \in [Jobs -> JobRows] /\ job'[j] = r /\ \A k \in Jobs \ {j} : job'[k] = job[k]
        BY <1>3, <2>1, JobSet
  <2> QED BY <1>1, <1>3, <2>1, <2>2
<1> QED BY <1>4, <1>5

LEMMA EditPlanDoes ==
    ASSUME TypeInv, NEW j \in Jobs, NEW c \in Chapters, NEW plan \in {"partial", "complete"},
           EditPlan(j, c, plan)
    PROVE  /\ Handler(Desktop, j) /\ UNCHANGED <<chapter, job, task>>
           /\ RunTurns(j, c, run[j][c].status)
<1> DEFINE r == [run[j][c] EXCEPT !.plan = plan]
<1>1. SetRun(j, c, r)
      BY DEF EditPlan, SetRun, TypeInv
<1>2. run[j][c] \in RunRows
      BY DEF TypeInv
<1>3. r \in RunRows /\ r.status = run[j][c].status /\ r.version = run[j][c].version
      BY <1>2 DEF RunRows
<1> HIDE DEF r
<1>4. RunGoes(j, c, r)
      BY <1>1, <1>3, RunSet
<1> QED BY <1>3, <1>4 DEF EditPlan, RunTurns, RunGoes

(* A control has job j go on, with a run of it taken from a status in S to *)
(* status s.                                                               *)
Reopens(p, j, S, s) ==
    /\ Coroutine(p, j) /\ UNCHANGED chapter
    /\ Shows(j, "running") /\ Queues(p, j)
    /\ \E c \in Chapters : run[j][c].status \in S /\ RunTurns(j, c, s)

LEMMA GoesOnReopens ==
    ASSUME TypeInv, NEW p \in Procs, NEW j \in Jobs, NEW c \in Chapters, NEW r \in RunRows,
           r.version = run[j][c].version, Coroutine(p, j), GoesOn(p, j, c, r),
           NEW S, run[j][c].status \in S
    PROVE  Reopens(p, j, S, r.status)
<1>1. SetRun(j, c, r) /\ UNCHANGED chapter
      BY DEF GoesOn, SetRun
<1>2. RunTurns(j, c, r.status)
      BY <1>1, RunSet DEF RunTurns, RunGoes
<1>3. Shows(j, "running") /\ Queues(p, j)
      BY BecomesShows, QueueQueues DEF GoesOn, Statuses, JobStatus
<1> QED BY <1>1, <1>2, <1>3 DEF Reopens

LEMMA RetryDoes ==
    ASSUME TypeInv, NEW p \in Procs, NEW j \in Jobs, Retry(p, j)
    PROVE  /\ job[j].status \notin {"completed", "cancelled"}
           /\ \E s \in {"extracting", "pending"} :
                 Reopens(p, j, {"failed", "awaiting_confirmation", "extracting"}, s)
<1> DEFINE S == {"failed", "awaiting_confirmation", "extracting"}
           c == Min(RunsIn(j, S))
           r == Reset(run[j][c])
<1>1. /\ Coroutine(p, j) /\ RunsIn(j, S) # {} /\ GoesOn(p, j, c, r)
      /\ job[j].status \notin {"completed", "cancelled"}
      BY DEF Retry, Retryable
<1> HIDE DEF S
<1>2. c \in Chapters /\ run[j][c].status \in S
      BY <1>1, FirstIn
<1> HIDE DEF c
<1>3. run[j][c] \in RunRows
      BY <1>2 DEF TypeInv
<1>4. r \in RunRows /\ r.version = run[j][c].version /\ r.status \in {"extracting", "pending"}
      BY <1>3 DEF RunRows, Reset, Repaired
<1> HIDE DEF r
<1>5. Reopens(p, j, S, r.status)
      BY <1>1, <1>2, <1>4, GoesOnReopens
<1> QED BY <1>1, <1>4, <1>5 DEF S

LEMMA RepairDoes ==
    ASSUME TypeInv, NEW p \in Procs, NEW j \in Jobs, Repair(p, j)
    PROVE  /\ job[j].status # "cancelled"
           /\ Reopens(p, j, {"extracting", "awaiting_confirmation", "failed", "completed"},
                      "extracting")
<1> DEFINE S == {"extracting", "awaiting_confirmation", "failed", "completed"}
           c == Min(IF Blocking(j) # {} THEN Blocking(j) ELSE Planned(j))
           r == Repaired(run[j][c])
<1>1. /\ Coroutine(p, j) /\ Planned(j) # {} /\ GoesOn(p, j, c, r) /\ job[j].status # "cancelled"
      BY DEF Repair
<1>2. c \in Chapters /\ run[j][c].status \in S
  <2>1. CASE Blocking(j) # {}
        BY <2>1, FirstIn DEF Blocking
  <2>2. CASE Blocking(j) = {}
        BY <1>1, <2>2, FirstIn DEF Planned
  <2> QED BY <2>1, <2>2
<1> HIDE DEF S, c
<1>3. run[j][c] \in RunRows
      BY <1>2 DEF TypeInv
<1>4. r \in RunRows /\ r.version = run[j][c].version /\ r.status = "extracting"
      BY <1>3 DEF RunRows, Repaired
<1> HIDE DEF r
<1>5. Reopens(p, j, S, r.status)
      BY <1>1, <1>2, <1>4, GoesOnReopens
<1> QED BY <1>1, <1>4, <1>5 DEF S

LEMMA SkipDoes ==
    ASSUME TypeInv, NEW p \in Procs, NEW j \in Jobs, Skip(p, j)
    PROVE  /\ Reviewable(j)
           /\ Reopens(p, j, {"failed", "awaiting_confirmation"}, "skipped_by_user")
<1> DEFINE S == {"failed", "awaiting_confirmation"}
           c == Min(RunsIn(j, S))
           r == [run[j][c] EXCEPT !.status = "skipped_by_user"]
<1>1. Coroutine(p, j) /\ RunsIn(j, S) # {} /\ GoesOn(p, j, c, r) /\ Reviewable(j)
      BY DEF Skip, Blocking
<1> HIDE DEF S
<1>2. c \in Chapters /\ run[j][c].status \in S
      BY <1>1, FirstIn
<1> HIDE DEF c
<1>3. run[j][c] \in RunRows
      BY <1>2 DEF TypeInv
<1>4. r \in RunRows /\ r.version = run[j][c].version /\ r.status = "skipped_by_user"
      BY <1>3 DEF RunRows
<1> HIDE DEF r
<1>5. Reopens(p, j, S, r.status)
      BY <1>1, <1>2, <1>4, GoesOnReopens
<1> QED BY <1>1, <1>4, <1>5 DEF S

LEMMA RecoverDoes ==
    ASSUME TypeInv, NEW j \in Jobs, Recover(j)
    PROVE  /\ Handler(Desktop, j) /\ Reviewable(j) /\ UNCHANGED <<chapter, task>>
           /\ Shows(j, "waiting_confirmation")
           /\ \E c \in Chapters : /\ run[j][c].status = "failed"
                                  /\ RunTurns(j, c, "awaiting_confirmation")
<1> DEFINE S == {"failed", "awaiting_confirmation"}
           c == Min(RunsIn(j, S))
<1>1. /\ Handler(Desktop, j) /\ Reviewable(j) /\ UNCHANGED <<chapter, task>>
      /\ RunsIn(j, S) # {} /\ run[j][c].status = "failed"
      /\ run' = RunBecomes(j, c, "awaiting_confirmation")
      BY DEF Recover, Blocking
<1>2. c \in Chapters
      BY <1>1, FirstIn
<1> HIDE DEF c, S
<1>3. RunTurns(j, c, "awaiting_confirmation")
      BY <1>1, <1>2, RunBecomesTurns DEF RunStatuses
<1>4. Shows(j, "waiting_confirmation")
      BY BecomesShows DEF Recover, Statuses, JobStatus
<1> QED BY <1>1, <1>2, <1>3, <1>4

LEMMA ApplyPendingDoes ==
    ASSUME TypeInv, NEW p \in Procs, NEW j \in Jobs, NEW c \in Chapters, ApplyPending(p, j, c)
    PROVE  /\ Coroutine(p, j) /\ run[j][c].status = "awaiting_confirmation" /\ Current(j, c)
           /\ job[j].status \notin {"cancelled", "paused"}
           /\ RunTurns(j, c, "completed")
           /\ \/ /\ Unfinished(j) = {c} /\ Completed(j, run'[j])
                 /\ chapter' = Released(Described(c), run'[j])
                 /\ Cancels(p, ReplacedBy(j, run'[j]))
              \/ /\ Unfinished(j) # {c} /\ Shows(j, "running")
                 /\ chapter' = Described(c) /\ Queues(p, j)
<1> DEFINE r == [run[j][c] EXCEPT !.status = "completed", !.applied = TRUE]
           done == [run[j] EXCEPT ![c] = r]
<1>1. run[j][c] \in RunRows
      BY DEF TypeInv
<1>2. r \in RunRows /\ r.status = "completed" /\ r.version = run[j][c].version
      BY <1>1 DEF RunRows
<1>3. /\ Coroutine(p, j) /\ Current(j, c) /\ job[j].status \notin {"cancelled", "paused"}
      /\ run[j][c].status = "awaiting_confirmation"
      BY FirstIn DEF ApplyPending, ToApply
<1>4. done = [run[j] EXCEPT ![c].status = "completed", ![c].applied = TRUE]
      BY DEF TypeInv
<1>5. done \in [Chapters -> RunRows]
  <2> HIDE DEF r
  <2> QED BY <1>2 DEF TypeInv
<1>6. CASE Unfinished(j) = {c}
  <2>1. CompleteJob(p, j, Described(c), done) /\ task' = Stopped(p, ReplacedBy(j, done))
        BY <1>4, <1>6 DEF ApplyPending
  <2> HIDE DEF r
  <2>2. run' = [run EXCEPT ![j] = done]
        BY <2>1 DEF CompleteJob
  <2>3. SetRun(j, c, r) /\ run'[j] = done
        BY <2>2 DEF SetRun, TypeInv
  <2>4. RunTurns(j, c, "completed")
        BY <1>2, <2>3, RunSet DEF RunTurns, RunGoes
  <2> HIDE DEF done
  <2>5. Completed(j, done) /\ chapter' = Released(Described(c), done)
        BY <1>5, <2>1, CompleteJobCompletes
  <2>6. Cancels(p, ReplacedBy(j, done))
        BY <2>1, StoppedTasks
  <2> QED BY <1>3, <1>6, <2>3, <2>4, <2>5, <2>6
<1>7. CASE Unfinished(j) # {c}
  <2>1. /\ job' = Becomes(j, "running") /\ run' = [run EXCEPT ![j] = done]
        /\ chapter' = Described(c) /\ task' = Queue(p, j)
        BY <1>4, <1>7 DEF ApplyPending
  <2> HIDE DEF r
  <2>2. SetRun(j, c, r)
        BY <2>1 DEF SetRun, TypeInv
  <2>3. RunTurns(j, c, "completed")
        BY <1>2, <2>2, RunSet DEF RunTurns, RunGoes
  <2> HIDE DEF done
  <2>4. Shows(j, "running") /\ Queues(p, j)
        BY <2>1, BecomesShows, QueueQueues DEF Statuses, JobStatus
  <2> QED BY <1>3, <1>7, <2>1, <2>3, <2>4
<1> QED BY <1>6, <1>7

LEMMA ApplyPendingFailsDoes ==
    ASSUME TypeInv, NEW p \in Procs, NEW j \in Jobs, NEW c \in Chapters,
           ApplyPendingFails(p, j, c)
    PROVE  /\ Coroutine(p, j) /\ run[j][c].status = "awaiting_confirmation"
           /\ job[j].status \notin {"cancelled", "paused"}
           /\ RunTurns(j, c, "failed") /\ Shows(j, "paused_on_failure")
           /\ UNCHANGED <<chapter, task>>
<1>1. /\ Coroutine(p, j) /\ job[j].status \notin {"cancelled", "paused"}
      /\ run[j][c].status = "awaiting_confirmation" /\ UNCHANGED <<chapter, task>>
      BY FirstIn DEF ApplyPendingFails, ToApply
<1>2. RunTurns(j, c, "failed")
      BY RunBecomesTurns DEF ApplyPendingFails, RunStatuses
<1>3. Shows(j, "paused_on_failure")
      BY BecomesShows DEF ApplyPendingFails, Statuses, JobStatus
<1> QED BY <1>1, <1>2, <1>3

-----------------------------------------------------------------------------
(* What saves of chapters and ends of processes do.                        *)

LEMMA PolishDoes ==
    ASSUME TypeInv, NEW c \in Chapters, Polish(c)
    PROVE  /\ LoopFree(Desktop) /\ UNCHANGED <<job, run, task>>
           /\ chapter' \in [Chapters -> Texts]
           /\ chapter'[c].version = chapter[c].version + 1
           /\ chapter'[c].text = chapter[c].text /\ chapter'[c].summary = chapter[c].summary
           /\ chapter'[c].required = chapter[c].required
           /\ \A d \in Chapters \ {c} : chapter'[d] = chapter[d]
<1> DEFINE r == [chapter[c] EXCEPT !.version = @ + 1]
<1>1. chapter[c] \in ChapterRows /\ chapter[c].text =< chapter[c].version
      BY DEF TypeInv, Texts
<1>2. chapter[c].version + 1 \in 1 .. MaxVersion /\ chapter[c].text =< chapter[c].version + 1
      BY <1>1, CatalogingAssumption DEF Polish, ChapterRows
<1>3. /\ r \in Texts /\ r.version = chapter[c].version + 1 /\ r.text = chapter[c].text
      /\ r.summary = chapter[c].summary /\ r.required = chapter[c].required
      BY <1>1, <1>2 DEF ChapterRows, Texts
<1>4. chapter' = [chapter EXCEPT ![c] = r]
      BY DEF Polish, TypeInv
<1> HIDE DEF r
<1> QED BY <1>3, <1>4 DEF Polish, TypeInv

LEMMA RewriteDoes ==
    ASSUME TypeInv, NEW c \in Chapters, Rewrite(c)
    PROVE  LET S == {d \in Chapters : d >= c} IN
           /\ LoopFree(Desktop)
           /\ chapter' \in [Chapters -> Texts]
           /\ \A d \in Chapters \ S : chapter'[d] = chapter[d]
           /\ \A d \in S : chapter'[d].required /\ chapter'[d].version >= chapter[d].version
           /\ job' \in [Jobs -> JobRows]
           /\ \A j \in Jobs : IF j \in Invalidated(S)
                              THEN job'[j].status = "cancelled" /\ job'[j].source = job[j].source
                              ELSE job'[j] = job[j]
           /\ run' \in [Jobs -> [Chapters -> RunRows]]
           /\ \A j \in Jobs, d \in Chapters :
                 /\ run'[j][d].version = run[j][d].version
                 /\ IF d \in S /\ run[j][d].status # "absent"
                    THEN run'[j][d].status = "skipped_by_user"
                    ELSE run'[j][d] = run[j][d]
           /\ Cancels(Desktop, Invalidated(S))
<1> DEFINE S == {d \in Chapters : d >= c}
           js == Invalidated(S)
           text(d) == [version |-> chapter[d].version + (IF d = c THEN 1 ELSE 0),
                       text |-> chapter[d].text + (IF d = c THEN 1 ELSE 0),
                       required |-> TRUE, summary |-> 0]
           gone(j) == [job[j] EXCEPT !.status = "cancelled"]
           skip(j, d) == [run[j][d] EXCEPT !.status = "skipped_by_user",
                                           !.plan = "none", !.applied = FALSE]
<1>1. LoopFree(Desktop) /\ chapter[c].version < MaxVersion
      BY DEF Rewrite
<1>2. \A d \in Chapters : chapter[d] \in ChapterRows /\ chapter[d].text =< chapter[d].version
      BY DEF TypeInv, Texts
<1>3. ASSUME NEW d \in Chapters
      PROVE  text(d) \in Texts /\ text(d).required /\ text(d).version >= chapter[d].version
  <2>1. /\ chapter[d].version + (IF d = c THEN 1 ELSE 0) \in 1 .. MaxVersion
        /\ chapter[d].text + (IF d = c THEN 1 ELSE 0) \in 1 .. MaxVersion
        /\ chapter[d].version + (IF d = c THEN 1 ELSE 0) >= chapter[d].version
        /\ chapter[d].text + (IF d = c THEN 1 ELSE 0) =< chapter[d].version + (IF d = c THEN 1 ELSE 0)
        /\ 0 \in 0 .. MaxVersion
        BY <1>1, <1>2, CatalogingAssumption DEF ChapterRows
  <2> QED BY <2>1 DEF Texts, ChapterRows
<1>4. ASSUME NEW j \in Jobs
      PROVE  gone(j) \in JobRows /\ gone(j).status = "cancelled" /\ gone(j).source = job[j].source
      BY DEF TypeInv, JobRows, JobStatus
<1>5. ASSUME NEW j \in Jobs, NEW d \in Chapters
      PROVE  /\ skip(j, d) \in RunRows /\ skip(j, d).status = "skipped_by_user"
             /\ skip(j, d).version = run[j][d].version
  <2>1. run[j][d] \in RunRows
        BY DEF TypeInv
  <2> QED BY <2>1 DEF RunRows
<1>6. /\ chapter' = [d \in Chapters |-> IF d \notin S THEN chapter[d] ELSE text(d)]
      /\ job' = [j \in Jobs |-> IF j \in js THEN gone(j) ELSE job[j]]
      /\ run' = [j \in Jobs |-> [d \in Chapters |->
                   IF d \in S /\ run[j][d].status # "absent" THEN skip(j, d) ELSE run[j][d]]]
      /\ task' = Stopped(Desktop, js)
      BY DEF Rewrite
<1>7. Cancels(Desktop, js)
      BY <1>6, StoppedTasks, CatalogingAssumption
<1> HIDE DEF S, js, text, gone, skip
<1>8. chapter' \in [Chapters -> Texts]
      BY <1>3, <1>6 DEF TypeInv
<1>9. job' \in [Jobs -> JobRows]
      BY <1>4, <1>6 DEF TypeInv
<1>10. run' \in [Jobs -> [Chapters -> RunRows]]
      BY <1>5, <1>6 DEF TypeInv
<1>11. /\ \A d \in Chapters \ S : chapter'[d] = chapter[d]
       /\ \A d \in Chapters : d \in S =>
             chapter'[d].required /\ chapter'[d].version >= chapter[d].version
      BY <1>3, <1>6
<1>12. \A j \in Jobs : IF j \in js
                       THEN job'[j].status = "cancelled" /\ job'[j].source = job[j].source
                       ELSE job'[j] = job[j]
      BY <1>4, <1>6
<1>13. \A j \in Jobs, d \in Chapters :
          /\ run'[j][d].version = run[j][d].version
          /\ IF d \in S /\ run[j][d].status # "absent"
             THEN run'[j][d].status = "skipped_by_user" ELSE run'[j][d] = run[j][d]
      BY <1>5, <1>6
<1> QED BY <1>1, <1>7, <1>8, <1>9, <1>10, <1>11, <1>12, <1>13 DEF S, js

(* The jobs a start of the desktop finds at work are left to be retried,   *)
(* and the others show in their operations where they are.                 *)
Restarts ==
    /\ job' \in [Jobs -> JobRows] /\ run' \in [Jobs -> [Chapters -> RunRows]]
    /\ \A j \in Jobs :
          IF Lost(j)
          THEN /\ job'[j].status = "paused_on_failure" /\ job'[j].source = job[j].source
               /\ job'[j].op = OperationStatus("paused_on_failure")
               /\ \/ Unfinished(j) = {} /\ run'[j] = run[j]
                  \/ \E c \in Unfinished(j) :
                        /\ run'[j][c].status = "failed" /\ run'[j][c].version = run[j][c].version
                        /\ \A d \in Chapters \ {c} : run'[j][d] = run[j][d]
          ELSE /\ job'[j].status = job[j].status /\ job'[j].source = job[j].source
               /\ job[j].status \notin Working => job'[j].op = OperationStatus(job[j].status)
               /\ run'[j] = run[j]

LEMMA RestartDoes ==
    ASSUME TypeInv, NEW p \in Procs, Restart(p)
    PROVE  /\ UNCHANGED chapter
           /\ task' \in [Procs -> [Jobs -> Workers]]
           /\ \A j \in Jobs : task'[p][j] = NoTask
           /\ \A q \in Procs \ {p} : task'[q] = task[q]
           /\ IF p = Desktop THEN Restarts ELSE UNCHANGED <<job, run>>
<1>1. UNCHANGED chapter /\ task' = [task EXCEPT ![p] = [j \in Jobs |-> NoTask]]
      BY DEF Restart
<1>2. /\ task' \in [Procs -> [Jobs -> Workers]] /\ \A j \in Jobs : task'[p][j] = NoTask
      /\ \A q \in Procs \ {p} : task'[q] = task[q]
  <2>1. [j \in Jobs |-> NoTask] \in [Jobs -> Workers]
        BY NoTaskRow
  <2> HIDE DEF Workers, NoTask
  <2> QED BY <1>1, <2>1 DEF TypeInv
<1>3. CASE p # Desktop
      BY <1>1, <1>2, <1>3 DEF Restart
<1>4. CASE p = Desktop
  <2> DEFINE lost(j) == Shown([job[j] EXCEPT !.status = "paused_on_failure"])
             fail(j) == [run[j] EXCEPT ![Min(Unfinished(j))].status = "failed"]
  <2>1. /\ job' = [j \in Jobs |-> IF Lost(j) THEN lost(j) ELSE Reconciled(job[j])]
        /\ run' = [j \in Jobs |-> IF Lost(j) /\ Unfinished(j) # {} THEN fail(j) ELSE run[j]]
        BY <1>4 DEF Restart
  <2>2. ASSUME NEW j \in Jobs
        PROVE  /\ lost(j) \in JobRows /\ lost(j).status = "paused_on_failure"
               /\ lost(j).source = job[j].source
               /\ lost(j).op = OperationStatus("paused_on_failure")
    <3> DEFINE r == [job[j] EXCEPT !.status = "paused_on_failure"]
    <3>1. r \in JobRows /\ r.status = "paused_on_failure" /\ r.source = job[j].source
          BY DEF TypeInv, JobRows, JobStatus
    <3> HIDE DEF r
    <3> QED BY <3>1, ShownRow DEF r
  <2>3. ASSUME NEW j \in Jobs
        PROVE  /\ Reconciled(job[j]) \in JobRows /\ Reconciled(job[j]).status = job[j].status
               /\ Reconciled(job[j]).source = job[j].source
               /\ job[j].status \notin Working =>
                     Reconciled(job[j]).op = OperationStatus(job[j].status)
    <3> DEFINE r == Shown(job[j])
    <3>1. job[j] \in JobRows
          BY DEF TypeInv
    <3>2. /\ r \in JobRows /\ r.status = job[j].status /\ r.source = job[j].source
          /\ r.op = OperationStatus(job[j].status)
          BY <3>1, ShownRow
    <3>3. job[j].status \notin Working => OperationStatus(job[j].status) \notin Working
          BY <3>1 DEF JobRows, JobStatus, Working, OperationStatus
    <3>4. Reconciled(job[j]) = [r EXCEPT !.op = IF r.op \in Working THEN "interrupted" ELSE r.op]
          BY DEF Reconciled
    <3> HIDE DEF r
    <3> QED BY <3>2, <3>3, <3>4 DEF JobRows
  <2>4. ASSUME NEW j \in Jobs, Unfinished(j) # {}
        PROVE  /\ fail(j) \in [Chapters -> RunRows]
               /\ \E c \in Unfinished(j) :
                     /\ fail(j)[c].status = "failed" /\ fail(j)[c].version = run[j][c].version
                     /\ \A d \in Chapters \ {c} : fail(j)[d] = run[j][d]
    <3> DEFINE c == Min(Unfinished(j))
               r == [run[j][c] EXCEPT !.status = "failed"]
    <3>1. c \in Unfinished(j) /\ c \in Chapters
          BY <2>4, FirstOpen
    <3>2. fail(j) = [run[j] EXCEPT ![c] = r]
          BY DEF TypeInv
    <3> HIDE DEF c
    <3>3. run[j][c] \in RunRows
          BY <3>1 DEF TypeInv
    <3>4. r \in RunRows /\ r.status = "failed" /\ r.version = run[j][c].version
          BY <3>3 DEF RunRows
    <3> HIDE DEF r, fail
    <3>5. run[j] \in [Chapters -> RunRows]
          BY DEF TypeInv
    <3>6. /\ fail(j) \in [Chapters -> RunRows] /\ fail(j)[c] = r
          /\ \A d \in Chapters \ {c} : fail(j)[d] = run[j][d]
      <4> HIDE DEF RunRows
      <4> QED BY <3>1, <3>2, <3>4, <3>5
    <3> QED BY <3>1, <3>4, <3>6
  <2> HIDE DEF lost, fail
  <2>5. job' \in [Jobs -> JobRows]
        BY <2>1, <2>2, <2>3
  <2>6. run' \in [Jobs -> [Chapters -> RunRows]]
        BY <2>1, <2>4 DEF TypeInv
  <2>7. Restarts
        BY <2>1, <2>2, <2>3, <2>4, <2>5, <2>6 DEF Restarts
  <2> QED BY <1>1, <1>2, <1>4, <2>7
<1> QED BY <1>3, <1>4

-----------------------------------------------------------------------------
(* Types, and one worker a job.                                            *)

(* The task of j in q has begun, and is a worker.                          *)
Busy(q, j) == task[q][j].at \notin {"none", "queued"}

(* A step that keeps the types, and from which no worker comes.            *)
Calm == TypeInv' /\ \A q \in Procs, k \in Jobs : Busy(q, k)' => Busy(q, k)

TypedRows ==
    chapter' \in [Chapters -> Texts] /\ job' \in [Jobs -> JobRows]
    /\ run' \in [Jobs -> [Chapters -> RunRows]]

(* The tasks keep their types, and those of others stay what they are.     *)
LEMMA MovesCalmly ==
    ASSUME NEW p \in Procs, NEW j \in Jobs, NEW s, NEW c, Moves(p, j, s, c), Busy(p, j), TypedRows
    PROVE  Calm
<1>1. TypeInv'
      BY DEF TypeInv, TypedRows, Moves
<1>2. ASSUME NEW q \in Procs, NEW k \in Jobs, Busy(q, k)' PROVE Busy(q, k)
      BY <1>2 DEF Busy, Moves
<1> QED BY <1>1, <1>2 DEF Calm

LEMMA GoesCalmly ==
    ASSUME NEW p \in Procs, NEW j \in Jobs, NEW t, NEW s \in {After(t), Left(t)},
           TaskGoes(p, j, s), TypedRows
    PROVE  Calm
<1>1. TypeInv'
      BY DEF TypeInv, TypedRows, TaskGoes
<1>2. s.at \in {"none", "queued"}
      BY NoTaskRow, UnheardRow DEF After, Left, Queued
<1>3. ASSUME NEW q \in Procs, NEW k \in Jobs, Busy(q, k)' PROVE Busy(q, k)
      BY <1>2, <1>3 DEF Busy, TaskGoes
<1> QED BY <1>1, <1>3 DEF Calm

LEMMA CancelsCalmly ==
    ASSUME NEW p \in Procs, NEW js, Cancels(p, js), TypedRows
    PROVE  Calm
<1>1. TypeInv'
      BY DEF TypeInv, TypedRows, Cancels
<1>2. ASSUME NEW q \in Procs, NEW k \in Jobs, Busy(q, k)' PROVE Busy(q, k)
  <2>1. CASE q = p /\ k \in js /\ task[p][k].at # "none"
        BY <1>2, <2>1 DEF Busy, Cancels
  <2>2. CASE q = p /\ ~(k \in js /\ task[p][k].at # "none")
        BY <1>2, <2>2 DEF Busy, Cancels
  <2>3. CASE q # p
        BY <1>2, <2>3 DEF Busy, Cancels
  <2> QED BY <2>1, <2>2, <2>3
<1> QED BY <1>1, <1>2 DEF Calm

LEMMA QueuesCalmly ==
    ASSUME NEW p \in Procs, NEW j \in Jobs, Queues(p, j), TypedRows
    PROVE  Calm
<1>1. TypeInv'
      BY DEF TypeInv, TypedRows, Queues
<1>2. ASSUME NEW q \in Procs, NEW k \in Jobs, Busy(q, k)' PROVE Busy(q, k)
  <2>1. CASE q = p /\ k = j /\ task[p][j].at = "none"
        BY <1>2, <2>1, NoTaskRow DEF Busy, Queues
  <2>2. CASE q = p /\ k = j /\ task[p][j].at # "none"
        BY <1>2, <2>2 DEF Busy, Queues
  <2>3. CASE <<q, k>> # <<p, j>>
        BY <1>2, <2>3 DEF Busy, Queues
  <2> QED BY <2>1, <2>2, <2>3
<1> QED BY <1>1, <1>2 DEF Calm

LEMMA RowsCalmly ==
    ASSUME TypeInv, UNCHANGED task, TypedRows
    PROVE  Calm
BY DEF Calm, TypeInv, TypedRows, Busy

LEMMA StartsCalmly ==
    ASSUME TypeInv, NEW p \in Procs, NEW j \in Jobs, NEW old, Starts(p, j, old)
    PROVE  Calm
<1>1. TypeInv'
      BY DEF TypeInv, Starts
<1>2. ASSUME NEW q \in Procs, NEW k \in Jobs, Busy(q, k)' PROVE Busy(q, k)
  <2>1. CASE q = p /\ k = j
        BY <1>2, <2>1, NoTaskRow DEF Busy, Starts, Queued
  <2>2. CASE q = p /\ k # j
        BY <1>2, <2>2 DEF Busy, Starts
  <2>3. CASE q # p
        BY <1>2, <2>3 DEF Busy, Starts
  <2> QED BY <2>1, <2>2, <2>3
<1> QED BY <1>1, <1>2 DEF Calm

LEMMA CompletesCalmly ==
    ASSUME TypeInv, NEW p \in Procs, NEW j \in Jobs, Completes(p, j)
    PROVE  Calm
<1>0. Released(chapter, run[j]) \in [Chapters -> Texts]
      BY ReleasedRows DEF TypeInv
<1>1. TypeInv'
  <2>1. /\ chapter' = Released(chapter, run[j]) /\ Completed(j, run[j])
        /\ task' \in [Procs -> [Jobs -> Workers]]
        BY CompletesDoes
  <2> QED BY <1>0, <2>1 DEF TypeInv, Completed
<1>2. ASSUME NEW q \in Procs, NEW k \in Jobs, Busy(q, k)' PROVE Busy(q, k)
  <2>1. CASE q = p /\ k = j
        BY <1>2, <2>1, CompletesDoes DEF Busy, Turning
  <2>2. CASE q = p /\ k # j
        BY <1>2, <2>2, CompletesDoes DEF Busy
  <2>3. CASE q # p
        BY <1>2, <2>3, CompletesDoes DEF Busy
  <2> QED BY <2>1, <2>2, <2>3
<1> QED BY <1>1, <1>2 DEF Calm

LEMMA StopsCalmly ==
    ASSUME TypeInv, NEW p \in Procs, NEW j \in Jobs, Stops(p, j)
    PROVE  Calm
<1>1. /\ Moves(p, j, "exit", task[p][j].chapter) /\ Busy(p, j) /\ run' = run
      /\ Shows(j, job[j].status)
      /\ chapter' = IF job[j].status = "completed" THEN Released(chapter, run[j]) ELSE chapter
      BY StopsDoes DEF Busy
<1>2. Released(chapter, run[j]) \in [Chapters -> Texts]
      BY ReleasedRows DEF TypeInv
<1>3. TypedRows
      BY <1>1, <1>2 DEF TypedRows, TypeInv, Shows
<1> QED BY <1>1, <1>3, MovesCalmly

LEMMA WorkersCalmly ==
    ASSUME TypeInv, NEW p \in Procs, NEW j \in Jobs, Progress(p, j)
    PROVE  Calm \/ Begin(p, j)
<1> DEFINE c == task[p][j].chapter
<1>2. CASE Vanish(p, j)
  <2>1. TaskGoes(p, j, After(task[p][j])) /\ TypedRows
        BY <1>2, VanishDoes DEF TypedRows, TypeInv
  <2> QED BY <2>1, GoesCalmly
<1>3. CASE Pauses(p, j)
  <2>1. Moves(p, j, "exit", c) /\ Busy(p, j) /\ TypedRows
        BY <1>3, PausesDoes DEF Busy, Turning, TypedRows, TypeInv, Shows
  <2> QED BY <2>1, MovesCalmly
<1>4. CASE Extracts(p, j)
  <2>1. /\ Busy(p, j) /\ chapter' = chapter
        /\ \E d \in Chapters :
              \/ RunTurns(j, d, "extracting") /\ Sets(j, "running") /\ Moves(p, j, "model", d)
              \/ Moves(p, j, "exit", c) /\ UNCHANGED <<run, job>>
        BY <1>4, ExtractsDoes DEF Busy, Turning, Unfinished
  <2>2. TypedRows
        BY <2>1 DEF TypedRows, TypeInv, RunTurns, Sets
  <2> QED BY <2>1, <2>2, MovesCalmly
<1>5. CASE CallStopped(p, j)
  <2>1. Moves(p, j, "review", c) /\ Busy(p, j) /\ TypedRows
        BY <1>5, CallStoppedDoes DEF Busy, Step, TypedRows, TypeInv
  <2> QED BY <2>1, MovesCalmly
<1>6. CASE CallFails(p, j)
  <2>1. Moves(p, j, "loop", c) /\ Busy(p, j) /\ TypedRows
        BY <1>6, CallFailsDoes DEF Busy, Step, TypedRows, TypeInv, Sets, RunTurns
  <2> QED BY <2>1, MovesCalmly
<1>7. CASE TakesOver(p, j)
  <2>1. /\ Busy(p, j) /\ chapter' = chapter
        /\ \/ Sets(j, "running") /\ Moves(p, j, "review", c) /\ run' = run
           \/ RunTurns(j, c, "failed") /\ Sets(j, "paused_on_failure") /\ Moves(p, j, "loop", c)
           \/ Moves(p, j, "exit", c) /\ UNCHANGED <<job, run>>
        BY <1>7, TakesOverDoes DEF Busy
  <2>2. TypedRows
        BY <2>1 DEF TypedRows, TypeInv, RunTurns, Sets
  <2> QED BY <2>1, <2>2, MovesCalmly
<1>8. CASE ReviewStops(p, j)
  <2>1. Busy(p, j) /\ TypedRows /\ \E s : Moves(p, j, s, c)
        BY <1>8, ReviewStopsDoes DEF Busy, TypedRows, TypeInv
  <2> QED BY <2>1, MovesCalmly
<1>9. ASSUME NEW d \in Chapters, FinalizePlan(p, j, d) PROVE Calm
  <2>1. Moves(p, j, "planned", c) /\ Busy(p, j) /\ TypedRows
        BY <1>9, FinalizePlanDoes DEF Busy, Submits, Step, TypedRows, TypeInv, Sets, RunTurns
  <2> QED BY <2>1, MovesCalmly
<1>10. ASSUME NEW d \in Chapters, WaitsForAuthor(p, j, d) PROVE Calm
  <2>1. Moves(p, j, "exit", c) /\ Busy(p, j) /\ TypedRows
        BY <1>10, WaitsForAuthorDoes DEF Busy, Turning, TypedRows, TypeInv, Shows
  <2> QED BY <2>1, MovesCalmly
<1>11. ASSUME NEW d \in Chapters, StartsApplying(p, j, d) PROVE Calm
  <2>1. /\ Busy(p, j) /\ chapter' = chapter
        /\ \/ RunTurns(j, d, "applying") /\ Sets(j, "running") /\ Moves(p, j, "apply", d)
           \/ UNCHANGED <<run, job>> /\ Moves(p, j, "exit", c)
        BY <1>11, StartsApplyingDoes DEF Busy
  <2>2. TypedRows
        BY <2>1 DEF TypedRows, TypeInv, RunTurns, Sets
  <2> QED BY <2>1, <2>2, MovesCalmly
<1>12. CASE Applies(p, j)
  <2>0. Described(c) \in [Chapters -> Texts]
        BY ChapterOfTask, DescribedRows
  <2>1. /\ Moves(p, j, "applied", c) /\ Busy(p, j)
        /\ chapter' = Described(c) /\ RunTurns(j, c, run[j][c].status) /\ job' = job
        BY <1>12, AppliesDoes DEF Busy
  <2>2. TypedRows
        BY <2>0, <2>1 DEF TypedRows, TypeInv, RunTurns
  <2> QED BY <2>1, <2>2, MovesCalmly
<1>13. CASE ApplyFails(p, j)
  <2>1. Moves(p, j, "loop", c) /\ Busy(p, j) /\ TypedRows
        BY <1>13, ApplyFailsDoes DEF Busy, TypedRows, TypeInv, Shows, RunTurns
  <2> QED BY <2>1, MovesCalmly
<1>14. CASE ApplyRaises(p, j)
  <2>1. Moves(p, j, "exit", c) /\ Busy(p, j) /\ TypedRows
        BY <1>14, ApplyRaisesDoes DEF Busy, TypedRows, TypeInv
  <2> QED BY <2>1, MovesCalmly
<1>15. CASE BacksOff(p, j)
  <2>1. Moves(p, j, "backoff", c) /\ Busy(p, j) /\ TypedRows
        BY <1>15, BacksOffDoes DEF Busy, TypedRows, TypeInv
  <2> QED BY <2>1, MovesCalmly
<1>16. CASE TriesAgain(p, j)
  <2>1. Moves(p, j, "apply", c) /\ Busy(p, j) /\ TypedRows
        BY <1>16, TriesAgainDoes DEF Busy, Step, TypedRows, TypeInv
  <2> QED BY <2>1, MovesCalmly
<1>17. CASE Finishes(p, j)
  <2>1. Moves(p, j, "loop", c) /\ Busy(p, j) /\ TypedRows
        BY <1>17, FinishesDoes DEF Busy, TypedRows, TypeInv, Shows, RunTurns
  <2> QED BY <2>1, MovesCalmly
<1>18. CASE Unwinds(p, j)
  <2>1. Moves(p, j, "exit", c) /\ Busy(p, j) /\ TypedRows
        BY <1>18, UnwindsDoes DEF Busy, TypedRows, TypeInv
  <2> QED BY <2>1, MovesCalmly
<1>19. CASE Leaves(p, j)
  <2>1. /\ TaskGoes(p, j, After(task[p][j])) /\ UNCHANGED chapter
        /\ WorkerFailed(j) \/ UNCHANGED <<job, run>>
        BY <1>19, LeavesDoes
  <2>2. TypedRows
        BY <2>1, WorkerFailedDoes DEF TypedRows, TypeInv, Shows, RunTurns
  <2> QED BY <2>1, <2>2, GoesCalmly
<1>20. CASE LeavesUnrecorded(p, j)
  <2>1. TaskGoes(p, j, Left(task[p][j])) /\ TypedRows
        BY <1>20, LeavesUnrecordedDoes DEF TypedRows, TypeInv
  <2> QED BY <2>1, GoesCalmly
<1> QED BY <1>20, <1>2, <1>3, <1>4, <1>5, <1>6, <1>7, <1>8, <1>9, <1>10, <1>11, <1>12, <1>13, <1>14,
           <1>15, <1>16, <1>17, <1>18, <1>19, StopsCalmly, CompletesCalmly DEF Progress

LEMMA ReopensCalmly ==
    ASSUME TypeInv, NEW p \in Procs, NEW j \in Jobs, NEW S, NEW s, Reopens(p, j, S, s)
    PROVE  Calm
<1>1. Queues(p, j) /\ UNCHANGED chapter /\ Shows(j, "running")
      /\ \E c \in Chapters : RunTurns(j, c, s)
      BY DEF Reopens
<1>2. TypedRows
      BY <1>1 DEF TypedRows, TypeInv, Shows, RunTurns
<1> QED BY <1>1, <1>2, QueuesCalmly

LEMMA ApplyPendingCalmly ==
    ASSUME TypeInv, NEW p \in Procs, NEW j \in Jobs, NEW c \in Chapters, ApplyPending(p, j, c)
    PROVE  Calm
<1>1. Described(c) \in [Chapters -> Texts]
      BY DescribedRows
<1>2. Released(Described(c), run'[j]) \in [Chapters -> Texts]
      BY <1>1, ReleasedRows
<1>3. \/ /\ Completed(j, run'[j]) /\ chapter' = Released(Described(c), run'[j])
         /\ Cancels(p, ReplacedBy(j, run'[j]))
      \/ /\ Shows(j, "running") /\ RunTurns(j, c, "completed")
         /\ chapter' = Described(c) /\ Queues(p, j)
      BY ApplyPendingDoes
<1>4. TypedRows
      BY <1>1, <1>2, <1>3 DEF TypedRows, Completed, Shows, RunTurns
<1> QED BY <1>3, <1>4, CancelsCalmly, QueuesCalmly

LEMMA AuthorsCalmly ==
    ASSUME TypeInv, NEW p \in Procs, NEW j \in Jobs, AuthorNext(p, j)
    PROVE  Calm
<1>1. CASE StartManual(p, j)
  <2>1. PICK S \in SUBSET Chapters \ {{}}, mode \in {"auto", "manual"} :
            Start(p, j, S, mode, "manual")
        BY <1>1 DEF StartManual
  <2> QED BY <2>1, StartStarts, StartsCalmly
<1>2. CASE Pause(p, j)
  <2>1. Cancels(p, {j}) /\ TypedRows
        BY <1>2, PauseDoes DEF TypedRows, TypeInv, Shows
  <2> QED BY <2>1, CancelsCalmly
<1>3. CASE Resume(p, j)
  <2>1. Queues(p, j) /\ TypedRows
        BY <1>3, ResumeDoes DEF TypedRows, TypeInv, Shows
  <2> QED BY <2>1, QueuesCalmly
<1>4. CASE Cancel(p, j)
  <2>1. Cancels(p, {j}) /\ TypedRows
        BY <1>4, CancelDoes DEF TypedRows, TypeInv, Shows
  <2> QED BY <2>1, CancelsCalmly
<1>5. ASSUME NEW mode \in {"auto", "manual"}, SetMode(p, j, mode) PROVE Calm
  <2>1. (Queues(p, j) \/ UNCHANGED task) /\ TypedRows
        BY <1>5, SetModeDoes DEF TypedRows, TypeInv, Shows
  <2> QED BY <2>1, QueuesCalmly, RowsCalmly
<1>6. CASE Retry(p, j)
      BY <1>6, RetryDoes, ReopensCalmly
<1>7. CASE Repair(p, j)
      BY <1>7, RepairDoes, ReopensCalmly
<1>8. CASE Skip(p, j)
      BY <1>8, SkipDoes, ReopensCalmly
<1>9. ASSUME NEW c \in Chapters, ApplyPendingFails(p, j, c) PROVE Calm
  <2>1. UNCHANGED task /\ TypedRows
        BY <1>9, ApplyPendingFailsDoes DEF TypedRows, TypeInv, Shows, RunTurns
  <2> QED BY <2>1, RowsCalmly
<1> QED BY <1>1, <1>2, <1>3, <1>4, <1>5, <1>6, <1>7, <1>8, <1>9, ApplyPendingCalmly DEF AuthorNext

(* All other steps.                                                        *)
LEMMA OthersCalmly ==
    ASSUME TypeInv, Next
    PROVE  Calm \/ \E p \in Procs, j \in Jobs : Begin(p, j)
<1>1. ASSUME NEW p \in Procs, NEW j \in Jobs, NEW c \in Chapters, SavePlan(p, j, c) PROVE Calm
  <2>1. UNCHANGED task /\ TypedRows
        BY <1>1, SavePlanDoes DEF TypedRows, TypeInv, Sets, RunTurns
  <2> QED BY <2>1, RowsCalmly
<1>2. ASSUME NEW j \in Jobs, StartSaved(j) PROVE Calm
  <2>1. PICK c \in Chapters :
            LET suffix == {d \in Chapters : d >= c /\ chapter[d].required} IN
            Start(Desktop, j, IF suffix = {} THEN {c} ELSE suffix, "auto", "save")
        BY <1>2 DEF StartSaved
  <2> DEFINE S == IF {d \in Chapters : d >= c /\ chapter[d].required} = {} THEN {c}
                  ELSE {d \in Chapters : d >= c /\ chapter[d].required}
  <2>2. S \in SUBSET Chapters /\ Start(Desktop, j, S, "auto", "save")
        BY <2>1
  <2> HIDE DEF S
  <2> QED BY <2>2, CatalogingAssumption, StartStarts, StartsCalmly
<1>3. ASSUME NEW j \in Jobs, Recover(j) PROVE Calm
  <2>1. UNCHANGED task /\ TypedRows
        BY <1>3, RecoverDoes DEF TypedRows, TypeInv, Shows, RunTurns
  <2> QED BY <2>1, RowsCalmly
<1>4. ASSUME NEW j \in Jobs, NEW c \in Chapters, NEW plan \in {"partial", "complete"},
             EditPlan(j, c, plan)
      PROVE Calm
  <2>1. UNCHANGED task /\ TypedRows
        BY <1>4, EditPlanDoes DEF TypedRows, TypeInv, RunTurns
  <2> QED BY <2>1, RowsCalmly
<1>5. ASSUME NEW j \in Jobs, NEW c \in Chapters, MobileCommit(j, c) PROVE Calm
  <2>1. Released(Described(c), run'[j]) \in [Chapters -> Texts]
        BY DescribedRows, ReleasedRows
  <2>2. UNCHANGED task /\ TypedRows
        BY <1>5, <2>1, MobileCommitDoes DEF TypedRows, Phones
  <2> QED BY <2>2, RowsCalmly
<1>6. ASSUME NEW j \in Jobs, NEW c \in Chapters, NEW v \in 1 .. MaxVersion, MobileRefused(j, c, v)
      PROVE Calm
  <2>1. UNCHANGED task /\ TypedRows
        BY <1>6, MobileRefusedDoes DEF TypedRows, TypeInv, Phones
  <2> QED BY <2>1, RowsCalmly
<1>7. ASSUME NEW c \in Chapters, Polish(c) PROVE Calm
  <2>1. UNCHANGED task /\ TypedRows
        BY <1>7, PolishDoes DEF TypedRows, TypeInv
  <2> QED BY <2>1, RowsCalmly
<1>8. ASSUME NEW c \in Chapters, Rewrite(c) PROVE Calm
  <2>1. Cancels(Desktop, Invalidated({d \in Chapters : d >= c})) /\ TypedRows
        BY <1>8, RewriteDoes DEF TypedRows
  <2> QED BY <2>1, CancelsCalmly, CatalogingAssumption
<1>9. ASSUME NEW p \in Procs, Restart(p) PROVE Calm
  <2>1. TypeInv'
        BY <1>9, RestartDoes DEF TypeInv, Restarts
  <2>2. ASSUME NEW q \in Procs, NEW k \in Jobs, Busy(q, k)' PROVE Busy(q, k)
        BY <1>9, <2>2, RestartDoes, NoTaskRow DEF Busy
  <2> QED BY <2>1, <2>2 DEF Calm
<1> QED BY <1>1, <1>2, <1>3, <1>4, <1>5, <1>6, <1>7, <1>8, <1>9, WorkersCalmly, AuthorsCalmly
        DEF Next

LEMMA BeginsTyped ==
    ASSUME TypeInv, NEW p \in Procs, NEW j \in Jobs, Begin(p, j)
    PROVE  TypeInv'
<1>1. UNCHANGED <<chapter, job, run>> /\ task' \in [Procs -> [Jobs -> Workers]]
      BY BeginDoes DEF Moves, TaskGoes
<1> QED BY <1>1 DEF TypeInv

(* A worker begins where no other process has one.                         *)
LEMMA BeginsAlone ==
    ASSUME TypeInv, OneWorker, NEW p \in Procs, NEW j \in Jobs, Begin(p, j)
    PROVE  OneWorker'
<1>1. ASSUME NEW q \in Procs, NEW k \in Jobs, <<q, k>> # <<p, j>> PROVE task'[q][k] = task[q][k]
      BY <1>1, BeginDoes DEF Moves, TaskGoes
<1>2. ASSUME NEW q \in Procs \ {p} PROVE Busy(p, j)' => ~Busy(q, j)
      BY BeginDoes, NoTaskRow DEF TaskGoes, Leased, Busy
<1> QED BY <1>1, <1>2 DEF OneWorker, Busy

(* At first nothing is cataloged, and no job is there.                     *)
LEMMA InitTyped == Init => TypeInv
<1> SUFFICES ASSUME Init PROVE TypeInv
    OBVIOUS
<1>1. [version |-> 1, text |-> 1, required |-> TRUE, summary |-> 0] \in Texts
      BY CatalogingAssumption DEF Texts, ChapterRows
<1>2. AbsentJob \in JobRows
      BY DEF AbsentJob, JobRows
<1>3. AbsentRun \in RunRows
      BY CatalogingAssumption DEF AbsentRun, RunRows
<1> QED BY <1>1, <1>2, <1>3, NoTaskRow DEF Init, TypeInv

LEMMA StaysTyped == TypeInv /\ [Next]_vars => TypeInv'
<1>1. ASSUME TypeInv, Next PROVE TypeInv'
      BY <1>1, OthersCalmly, BeginsTyped DEF Calm
<1>2. ASSUME TypeInv, UNCHANGED vars PROVE TypeInv'
      BY <1>2 DEF TypeInv, vars
<1> QED BY <1>1, <1>2

(* The rows of jobs, runs, chapters and tasks keep their types, with the   *)
(* attempts of a worker within CATALOGING_STAGE_MAX_ATTEMPTS, whichever    *)
(* processes, workers and authors act on them.                             *)
THEOREM CatalogingTyped == Spec => []TypeOK
<1>1. TypeInv => TypeOK
  <2>1. Texts \subseteq ChapterRows /\ Workers \subseteq TaskRows
        BY DEF Texts, Workers
  <2> QED BY <2>1 DEF TypeInv, TypeOK
<1> QED BY <1>1, InitTyped, StaysTyped, PTL DEF Spec

(* Two processes never have a worker on the same job: a worker begins only *)
(* when no other process holds the job's lease, and comes from nowhere     *)
(* else (run_cataloging_job).                                              *)
THEOREM OneWorkerHolds == Spec => []OneWorker
<1>1. Init => OneWorker
      BY NoTaskRow DEF Init, OneWorker
<1>2. TypeInv /\ OneWorker /\ [Next]_vars => OneWorker'
  <2>1. ASSUME OneWorker, Calm PROVE OneWorker'
        BY <2>1 DEF OneWorker, Calm, Busy
  <2>2. ASSUME OneWorker, UNCHANGED vars PROVE OneWorker'
        BY <2>2 DEF OneWorker, vars
  <2> QED BY <2>1, <2>2, OthersCalmly, BeginsAlone
<1> QED BY <1>1, <1>2, InitTyped, StaysTyped, PTL DEF Spec

-----------------------------------------------------------------------------
(* What the archive describes, where the desktop is the only process.      *)

DesktopOnly == Procs = {Desktop}

Worker(j) == task[Desktop][j]

(* A chapter cataloged at its version is described by the archive.         *)
RunsOK(j) ==
    \A c \in Chapters :
        /\ run[j][c].version =< chapter[c].version
        /\ run[j][c].status = "completed" /\ Current(j, c) => chapter[c].summary = chapter[c].text

(* So is one that a worker has just written.                               *)
AppliedOK(j) ==
    LET c == Worker(j).chapter IN
    Worker(j).at = "applied" /\ Current(j, c) => chapter[c].summary = chapter[c].text

ArchiveInv ==
    TypeInv /\ ReleasedIsDescribed /\ \A j \in Jobs : RunsOK(j) /\ AppliedOK(j)

(* A chapter only becomes newer, and what describes it goes on to.         *)
KeptAt(c) ==
    /\ chapter'[c].version >= chapter[c].version
    /\ chapter'[c].version = chapter[c].version /\ chapter[c].summary = chapter[c].text
          => chapter'[c].summary = chapter'[c].text

Kept == \A c \in Chapters : KeptAt(c)

(* What a step may do to a run, and to a worker.                           *)
RunFollows(k, c) ==
    \/ /\ KeptAt(c) /\ run'[k][c].version = run[k][c].version
       /\ run'[k][c].status = "completed" => run[k][c].status = "completed"
    \/ /\ run'[k][c].version =< chapter'[c].version
       /\ run'[k][c].status = "completed" /\ run'[k][c].version = chapter'[c].version =>
             chapter'[c].summary = chapter'[c].text

WorkerFollows(k) ==
    Worker(k)'.at = "applied" =>
       LET c == Worker(k)'.chapter IN
       \/ /\ Worker(k).at = "applied" /\ Worker(k).chapter = c
          /\ run'[k][c].version = run[k][c].version /\ KeptAt(c)
       \/ chapter'[c].summary = chapter'[c].text

LEMMA Numbers ==
    ASSUME TypeInv, NEW j \in Jobs, NEW c \in Chapters
    PROVE  run[j][c].version \in Nat /\ chapter[c].version \in Nat
BY CatalogingAssumption DEF TypeInv, RunRows, Texts, ChapterRows

LEMMA RunsFollow ==
    ASSUME ArchiveInv, TypeInv', NEW k \in Jobs, \A c \in Chapters : RunFollows(k, c)
    PROVE  RunsOK(k)'
<1> SUFFICES ASSUME NEW c \in Chapters
             PROVE  /\ run'[k][c].version =< chapter'[c].version
                    /\ run'[k][c].status = "completed" /\ Current(k, c)' =>
                          chapter'[c].summary = chapter'[c].text
    BY DEF RunsOK
<1>1. /\ run[k][c].version \in Nat /\ chapter[c].version \in Nat
      /\ chapter'[c].version \in Nat
      /\ run[k][c].version =< chapter[c].version
      /\ run[k][c].status = "completed" /\ run[k][c].version = chapter[c].version =>
            chapter[c].summary = chapter[c].text
      BY Numbers, CatalogingAssumption DEF ArchiveInv, TypeInv, Texts, ChapterRows, RunsOK, Current
<1>2. RunFollows(k, c)
      OBVIOUS
<1> QED BY <1>1, <1>2 DEF RunFollows, KeptAt, Current

LEMMA ArchiveFollows ==
    ASSUME ArchiveInv, TypeInv', Desktop \in Procs, ReleasedIsDescribed',
           \A k \in Jobs : WorkerFollows(k) /\ \A c \in Chapters : RunFollows(k, c)
    PROVE  ArchiveInv'
<1>1. ASSUME NEW k \in Jobs, NEW c \in Chapters
      PROVE  /\ run[k][c].version \in Nat /\ chapter[c].version \in Nat
             /\ chapter'[c].version \in Nat /\ run[k][c].version =< chapter[c].version
      BY Numbers, CatalogingAssumption DEF ArchiveInv, TypeInv, Texts, ChapterRows, RunsOK
<1>2. ASSUME NEW k \in Jobs PROVE RunsOK(k)'
      BY RunsFollow
<1>3. ASSUME NEW k \in Jobs PROVE AppliedOK(k)'
  <2> DEFINE c == Worker(k)'.chapter
  <2> SUFFICES ASSUME Worker(k)'.at = "applied", run'[k][c].version = chapter'[c].version
               PROVE  chapter'[c].summary = chapter'[c].text
      BY DEF AppliedOK, Current
  <2>1. c \in Chapters
        BY DEF TypeInv, Workers, TaskRows, Worker
  <2>2. \/ /\ Worker(k).at = "applied" /\ Worker(k).chapter = c
           /\ run'[k][c].version = run[k][c].version /\ KeptAt(c)
        \/ chapter'[c].summary = chapter'[c].text
        BY DEF WorkerFollows
  <2>3. Worker(k).at = "applied" /\ Worker(k).chapter = c /\ run[k][c].version = chapter[c].version
           => chapter[c].summary = chapter[c].text
        BY DEF ArchiveInv, AppliedOK, Current
  <2> HIDE DEF c
  <2> QED BY <1>1, <2>1, <2>2, <2>3 DEF KeptAt
<1> QED BY <1>2, <1>3 DEF ArchiveInv

(* The rows of the chapters.                                               *)
LEMMA ChaptersKept ==
    ASSUME TypeInv, UNCHANGED chapter
    PROVE  Kept
<1>1. \A c \in Chapters : chapter[c].version \in Nat
      BY CatalogingAssumption DEF TypeInv, Texts, ChapterRows
<1> QED BY <1>1 DEF Kept, KeptAt

LEMMA DescribedKept ==
    ASSUME TypeInv, NEW c \in Chapters, chapter' = Described(c)
    PROVE  Kept
<1>1. \A d \in Chapters : chapter[d].version \in Nat
      BY CatalogingAssumption DEF TypeInv, Texts, ChapterRows
<1> QED BY <1>1, DescribedRows DEF Kept, KeptAt

LEMMA ReleasedKept ==
    ASSUME TypeInv, NEW runs, chapter' = Released(chapter, runs)
    PROVE  Kept
<1>1. \A d \in Chapters : chapter[d].version \in Nat
      BY CatalogingAssumption DEF TypeInv, Texts, ChapterRows
<1>2. chapter \in [Chapters -> Texts]
      BY DEF TypeInv
<1> QED BY <1>1, <1>2, ReleasedRows DEF Kept, KeptAt

LEMMA BothKept ==
    ASSUME TypeInv, NEW c \in Chapters, NEW runs, chapter' = Released(Described(c), runs)
    PROVE  /\ Kept /\ chapter'[c].summary = chapter'[c].text
           /\ chapter'[c].version = chapter[c].version
<1>1. \A d \in Chapters : chapter[d].version \in Nat
      BY CatalogingAssumption DEF TypeInv, Texts, ChapterRows
<1>2. Described(c) \in [Chapters -> Texts]
      BY DescribedRows
<1>3. \A d \in Chapters : /\ chapter'[d].version = Described(c)[d].version
                          /\ chapter'[d].text = Described(c)[d].text
                          /\ chapter'[d].summary = Described(c)[d].summary
      BY <1>2, ReleasedRows
<1> QED BY <1>1, <1>3, DescribedRows DEF Kept, KeptAt

(* A job that releases its chapters has them described.                    *)
LEMMA ReleasedDescribed ==
    ASSUME TypeInv, ReleasedIsDescribed, NEW j \in Jobs, RunsOK(j)',
           \/ chapter' = Released(chapter, run'[j])
           \/ \E c \in Chapters : chapter' = Released(Described(c), run'[j])
    PROVE  ReleasedIsDescribed'
<1> SUFFICES ASSUME NEW d \in Chapters, ~chapter'[d].required
             PROVE  chapter'[d].summary = chapter'[d].text
    BY DEF ReleasedIsDescribed
<1>1. CASE run'[j][d].status = "completed" /\ Current(j, d)'
      BY <1>1 DEF RunsOK
<1>2. CASE ~(run'[j][d].status = "completed" /\ Current(j, d)')
  <2>1. PICK rows \in [Chapters -> Texts] :
            /\ chapter' = Released(rows, run'[j])
            /\ \A e \in Chapters : ~rows[e].required => rows[e].summary = rows[e].text
    <3>1. CASE chapter' = Released(chapter, run'[j])
          BY <3>1 DEF TypeInv, ReleasedIsDescribed
    <3>2. ASSUME NEW c \in Chapters, chapter' = Released(Described(c), run'[j])
          PROVE  \A e \in Chapters :
                    ~Described(c)[e].required => Described(c)[e].summary = Described(c)[e].text
          BY DescribedRows DEF ReleasedIsDescribed
    <3> QED BY <3>1, <3>2, DescribedRows
  <2>2. /\ chapter'[d].version = rows[d].version /\ chapter'[d].text = rows[d].text
        /\ chapter'[d].summary = rows[d].summary
        /\ \/ ~rows[d].required
           \/ run'[j][d].status = "completed" /\ run'[j][d].version = rows[d].version
        BY <2>1, ReleasedRows
  <2> QED BY <1>2, <2>1, <2>2 DEF Current
<1> QED BY <1>1, <1>2

LEMMA DescribedDescribed ==
    ASSUME TypeInv, ReleasedIsDescribed, NEW c \in Chapters, chapter' = Described(c)
    PROVE  ReleasedIsDescribed'
BY DescribedRows DEF ReleasedIsDescribed

(* A step that completes no run, and leaves no chapter applied.            *)
QuietRuns ==
    \A k \in Jobs, c \in Chapters :
        /\ run'[k][c].version = run[k][c].version
        /\ run'[k][c].status = "completed" => run[k][c].status = "completed"

QuietTasks ==
    \A k \in Jobs :
        Worker(k)'.at = "applied" => Worker(k).at = "applied" /\ Worker(k)'.chapter = Worker(k).chapter

LEMMA QuietArchive ==
    ASSUME ArchiveInv, TypeInv', Desktop \in Procs, Kept, ReleasedIsDescribed', QuietRuns, QuietTasks
    PROVE  ArchiveInv'
<1>1. ASSUME NEW k \in Jobs, NEW c \in Chapters PROVE RunFollows(k, c)
      BY DEF Kept, QuietRuns, RunFollows
<1>2. ASSUME NEW k \in Jobs PROVE WorkerFollows(k)
  <2>1. Worker(k)'.chapter \in Chapters
        BY DEF TypeInv, Workers, TaskRows, Worker
  <2> QED BY <2>1 DEF Kept, QuietRuns, QuietTasks, WorkerFollows
<1> QED BY <1>1, <1>2, ArchiveFollows

LEMMA QuietStep ==
    ASSUME ArchiveInv, TypeInv', Desktop \in Procs, UNCHANGED chapter, QuietRuns, QuietTasks
    PROVE  ArchiveInv'
<1>1. Kept /\ ReleasedIsDescribed'
      BY ChaptersKept DEF ArchiveInv, ReleasedIsDescribed
<1> QED BY <1>1, QuietArchive

LEMMA TurnsQuietly ==
    ASSUME \/ \E j \in Jobs, c \in Chapters : \E s :
                 (s # "completed" \/ s = run[j][c].status) /\ RunTurns(j, c, s)
           \/ UNCHANGED run
    PROVE  QuietRuns
BY DEF QuietRuns, RunTurns

LEMMA TasksQuietly ==
    ASSUME Desktop \in Procs, NEW j \in Jobs,
           \/ \E s, c : s # "applied" /\ Moves(Desktop, j, s, c)
           \/ \E t : TaskGoes(Desktop, j, After(t)) \/ TaskGoes(Desktop, j, Left(t))
           \/ TaskGoes(Desktop, j, NoTask)
           \/ Queues(Desktop, j) \/ (\E X : Cancels(Desktop, X)) \/ UNCHANGED task
    PROVE  QuietTasks
<1> SUFFICES ASSUME NEW k \in Jobs, Worker(k)'.at = "applied"
             PROVE  Worker(k).at = "applied" /\ Worker(k)'.chapter = Worker(k).chapter
    BY DEF QuietTasks
<1>1. ASSUME NEW s, NEW c, s # "applied", Moves(Desktop, j, s, c)
      PROVE  Worker(k).at = "applied" /\ Worker(k)'.chapter = Worker(k).chapter
      BY <1>1 DEF Moves, Worker
<1>2. ASSUME NEW t, TaskGoes(Desktop, j, After(t))
      PROVE  Worker(k).at = "applied" /\ Worker(k)'.chapter = Worker(k).chapter
      BY <1>2, NoTaskRow DEF TaskGoes, After, Queued, Worker
<1>3. CASE Queues(Desktop, j)
      BY <1>3, NoTaskRow DEF Queues, Worker
<1>4. ASSUME NEW X, Cancels(Desktop, X)
      PROVE  Worker(k).at = "applied" /\ Worker(k)'.chapter = Worker(k).chapter
      BY <1>4 DEF Cancels, Worker
<1>5. CASE UNCHANGED task
      BY <1>5 DEF Worker
<1>6. CASE TaskGoes(Desktop, j, NoTask)
      BY <1>6, NoTaskRow DEF TaskGoes, Worker
<1>7. ASSUME NEW t, TaskGoes(Desktop, j, Left(t))
      PROVE  Worker(k).at = "applied" /\ Worker(k)'.chapter = Worker(k).chapter
      BY <1>7, NoTaskRow, UnheardRow DEF TaskGoes, Left, Queued, Worker
<1> QED BY <1>1, <1>2, <1>3, <1>4, <1>5, <1>6, <1>7

LEMMA AppliesArchive ==
    ASSUME ArchiveInv, TypeInv', Desktop \in Procs, NEW j \in Jobs, Applies(Desktop, j)
    PROVE  ArchiveInv'
<1> DEFINE c == Worker(j).chapter
<1>1. TypeInv /\ c \in Chapters
      BY ChapterOfTask DEF ArchiveInv, Worker
<1>2. /\ chapter' = Described(c) /\ RunTurns(j, c, run[j][c].status)
      /\ Moves(Desktop, j, "applied", c)
      BY <1>1, AppliesDoes DEF Worker
<1>3. Kept /\ ReleasedIsDescribed'
      BY <1>1, <1>2, DescribedKept, DescribedDescribed DEF ArchiveInv
<1>4. chapter'[c].summary = chapter'[c].text
      BY <1>1, <1>2, DescribedRows
<1>5. QuietRuns
      BY <1>1, <1>2, TurnsQuietly
<1> HIDE DEF c
<1>6. ASSUME NEW k \in Jobs, NEW d \in Chapters PROVE RunFollows(k, d)
      BY <1>3, <1>5 DEF Kept, QuietRuns, RunFollows
<1>7. ASSUME NEW k \in Jobs PROVE WorkerFollows(k)
  <2>1. CASE k = j
        BY <1>2, <1>4, <2>1 DEF Moves, Worker, WorkerFollows
  <2>2. CASE k # j
    <3>1. Worker(k)' = Worker(k) /\ Worker(k).chapter \in Chapters
          BY <1>1, <1>2, <2>2, ChapterOfTask DEF Moves, Worker
    <3> QED BY <1>3, <1>5, <3>1 DEF Kept, QuietRuns, WorkerFollows
  <2> QED BY <2>1, <2>2
<1> QED BY <1>3, <1>6, <1>7, ArchiveFollows

LEMMA FinishesArchive ==
    ASSUME ArchiveInv, TypeInv', Desktop \in Procs, NEW j \in Jobs, Finishes(Desktop, j)
    PROVE  ArchiveInv'
<1> DEFINE c == Worker(j).chapter
<1>1. TypeInv /\ c \in Chapters
      BY ChapterOfTask DEF ArchiveInv, Worker
<1>2. /\ Worker(j).at = "applied" /\ UNCHANGED chapter
      /\ RunTurns(j, c, "completed") /\ Moves(Desktop, j, "loop", c)
      BY <1>1, FinishesDoes DEF Worker
<1>3. Kept /\ ReleasedIsDescribed'
      BY <1>1, <1>2, ChaptersKept DEF ArchiveInv, ReleasedIsDescribed
<1>4. /\ run[j][c].version =< chapter[c].version
      /\ run[j][c].version = chapter[c].version => chapter[c].summary = chapter[c].text
      BY <1>1, <1>2 DEF ArchiveInv, RunsOK, AppliedOK, Current
<1>5. QuietTasks
      BY <1>2, TasksQuietly
<1> HIDE DEF c
<1>6. ASSUME NEW k \in Jobs, NEW d \in Chapters
      PROVE  RunFollows(k, d) /\ run'[k][d].version = run[k][d].version
  <2>1. CASE k = j /\ d = c
        BY <1>2, <1>4, <2>1 DEF RunTurns, RunFollows
  <2>2. CASE ~(k = j /\ d = c)
    <3>1. run'[k][d] = run[k][d]
          BY <1>2, <2>2 DEF RunTurns
    <3> QED BY <1>3, <3>1 DEF Kept, RunFollows
  <2> QED BY <2>1, <2>2
<1>7. ASSUME NEW k \in Jobs PROVE WorkerFollows(k)
  <2>1. Worker(k)'.chapter \in Chapters
        BY DEF TypeInv, Workers, TaskRows, Worker
  <2> QED BY <1>3, <1>5, <1>6, <2>1 DEF Kept, QuietTasks, WorkerFollows
<1> QED BY <1>3, <1>6, <1>7, ArchiveFollows

(* The steps that only release chapters.                                   *)
LEMMA ReleasesArchive ==
    ASSUME ArchiveInv, TypeInv', Desktop \in Procs, NEW j \in Jobs,
           chapter' = Released(chapter, run[j]), run' = run, QuietTasks
    PROVE  ArchiveInv'
<1>1. TypeInv /\ Kept /\ RunsOK(j)
      BY ReleasedKept DEF ArchiveInv
<1>2. RunsOK(j)'
  <2>1. ASSUME NEW c \in Chapters
        PROVE  /\ chapter'[c].version = chapter[c].version
               /\ chapter'[c].text = chapter[c].text /\ chapter'[c].summary = chapter[c].summary
        BY <1>1, ReleasedRows DEF TypeInv
  <2> QED BY <1>1, <2>1 DEF RunsOK, Current
<1>3. ReleasedIsDescribed'
      BY <1>1, <1>2, ReleasedDescribed DEF ArchiveInv
<1> QED BY <1>1, <1>3, TurnsQuietly, QuietArchive

LEMMA CompletesArchive ==
    ASSUME ArchiveInv, TypeInv', Desktop \in Procs, NEW j \in Jobs, Completes(Desktop, j)
    PROVE  ArchiveInv'
<1>1. TypeInv
      BY DEF ArchiveInv
<1>2. /\ Completed(j, run[j]) /\ chapter' = Released(chapter, run[j])
      /\ task'[Desktop][j].at = "exit"
      /\ \A k \in Jobs \ {j} : /\ task'[Desktop][k].at = task[Desktop][k].at
                               /\ task'[Desktop][k].chapter = task[Desktop][k].chapter
      BY <1>1, CompletesDoes
<1>3. QuietTasks
      BY <1>2 DEF QuietTasks, Worker
<1>4. \A k \in Jobs : run'[k] = run[k]
      BY <1>2 DEF Completed
<1>5. run' = run
      BY <1>1, <1>4 DEF TypeInv
<1> QED BY <1>2, <1>3, <1>5, ReleasesArchive

LEMMA StopsArchive ==
    ASSUME ArchiveInv, TypeInv', Desktop \in Procs, NEW j \in Jobs, Stops(Desktop, j)
    PROVE  ArchiveInv'
<1>1. TypeInv
      BY DEF ArchiveInv
<1>2. /\ run' = run /\ Moves(Desktop, j, "exit", Worker(j).chapter)
      /\ chapter' = IF job[j].status = "completed" THEN Released(chapter, run[j]) ELSE chapter
      BY <1>1, StopsDoes DEF Worker
<1>3. QuietTasks /\ QuietRuns
      BY <1>2, TasksQuietly, TurnsQuietly
<1> QED BY <1>2, <1>3, QuietStep, ReleasesArchive

LEMMA WorkerArchive ==
    ASSUME ArchiveInv, TypeInv', Desktop \in Procs, NEW j \in Jobs, Progress(Desktop, j)
    PROVE  ArchiveInv'
<1> DEFINE c == task[Desktop][j].chapter
<1>1. TypeInv /\ Desktop \in Procs /\ c \in Chapters
      BY ChapterOfTask DEF ArchiveInv
<1>2. CASE Begin(Desktop, j)
  <2>1. /\ UNCHANGED chapter
        /\ UNCHANGED run
        /\ \/ TaskGoes(Desktop, j, NoTask)
           \/ Moves(Desktop, j, "loop", c)
        BY <1>1, <1>2, BeginDoes
  <2> QED BY <1>1, <2>1, TurnsQuietly, TasksQuietly, QuietStep
<1>3. CASE Vanish(Desktop, j)
  <2>1. /\ UNCHANGED chapter
        /\ UNCHANGED run
        /\ TaskGoes(Desktop, j, After(task[Desktop][j]))
        BY <1>1, <1>3, VanishDoes
  <2> QED BY <1>1, <2>1, TurnsQuietly, TasksQuietly, QuietStep
<1>4. CASE Pauses(Desktop, j)
  <2>1. /\ UNCHANGED chapter
        /\ UNCHANGED run
        /\ Moves(Desktop, j, "exit", c)
        BY <1>1, <1>4, PausesDoes
  <2> QED BY <1>1, <2>1, TurnsQuietly, TasksQuietly, QuietStep
<1>5. CASE CallStopped(Desktop, j)
  <2>1. /\ UNCHANGED chapter
        /\ UNCHANGED run
        /\ Moves(Desktop, j, "review", c)
        BY <1>1, <1>5, CallStoppedDoes
  <2> QED BY <1>1, <2>1, TurnsQuietly, TasksQuietly, QuietStep
<1>6. CASE CallFails(Desktop, j)
  <2>1. /\ UNCHANGED chapter
        /\ RunTurns(j, c, "failed")
        /\ Moves(Desktop, j, "loop", c)
        BY <1>1, <1>6, CallFailsDoes
  <2> QED BY <1>1, <2>1, TurnsQuietly, TasksQuietly, QuietStep
<1>7. CASE ReviewStops(Desktop, j)
  <2>1. /\ UNCHANGED chapter
        /\ UNCHANGED run
        /\ Moves(Desktop, j, "exit", c) \/ Moves(Desktop, j, "loop", c)
        BY <1>1, <1>7, ReviewStopsDoes
  <2> QED BY <1>1, <2>1, TurnsQuietly, TasksQuietly, QuietStep
<1>8. CASE ApplyFails(Desktop, j)
  <2>1. /\ UNCHANGED chapter
        /\ RunTurns(j, c, "failed")
        /\ Moves(Desktop, j, "loop", c)
        BY <1>1, <1>8, ApplyFailsDoes
  <2> QED BY <1>1, <2>1, TurnsQuietly, TasksQuietly, QuietStep
<1>9. CASE ApplyRaises(Desktop, j)
  <2>1. /\ UNCHANGED chapter
        /\ UNCHANGED run
        /\ Moves(Desktop, j, "exit", c)
        BY <1>1, <1>9, ApplyRaisesDoes
  <2> QED BY <1>1, <2>1, TurnsQuietly, TasksQuietly, QuietStep
<1>10. CASE BacksOff(Desktop, j)
  <2>1. /\ UNCHANGED chapter
        /\ UNCHANGED run
        /\ Moves(Desktop, j, "backoff", c)
        BY <1>1, <1>10, BacksOffDoes
  <2> QED BY <1>1, <2>1, TurnsQuietly, TasksQuietly, QuietStep
<1>11. CASE TriesAgain(Desktop, j)
  <2>1. /\ UNCHANGED chapter
        /\ UNCHANGED run
        /\ Moves(Desktop, j, "apply", c)
        BY <1>1, <1>11, TriesAgainDoes
  <2> QED BY <1>1, <2>1, TurnsQuietly, TasksQuietly, QuietStep
<1>12. CASE Unwinds(Desktop, j)
  <2>1. /\ UNCHANGED chapter
        /\ UNCHANGED run
        /\ Moves(Desktop, j, "exit", c)
        BY <1>1, <1>12, UnwindsDoes
  <2> QED BY <1>1, <2>1, TurnsQuietly, TasksQuietly, QuietStep
<1>13. CASE TakesOver(Desktop, j)
  <2>1. /\ UNCHANGED chapter
        /\ UNCHANGED run \/ RunTurns(j, c, "failed")
        /\ Moves(Desktop, j, "review", c) \/ Moves(Desktop, j, "loop", c) \/ Moves(Desktop, j, "exit", c)
        BY <1>1, <1>13, TakesOverDoes
  <2> QED BY <1>1, <2>1, TurnsQuietly, TasksQuietly, QuietStep
<1>14. CASE Extracts(Desktop, j)
  <2>1. /\ UNCHANGED chapter
        /\ UNCHANGED run \/ \E d \in Chapters : RunTurns(j, d, "extracting")
        /\ \E d : Moves(Desktop, j, "model", d) \/ Moves(Desktop, j, "exit", d)
        BY <1>1, <1>14, ExtractsDoes DEF Unfinished
  <2> QED BY <1>1, <2>1, TurnsQuietly, TasksQuietly, QuietStep
<1>15. ASSUME NEW d \in Chapters, FinalizePlan(Desktop, j, d) PROVE ArchiveInv'
  <2>1. /\ UNCHANGED chapter
        /\ RunTurns(j, d, "awaiting_confirmation")
        /\ Moves(Desktop, j, "planned", c)
        BY <1>1, <1>15, FinalizePlanDoes
  <2> QED BY <1>1, <2>1, TurnsQuietly, TasksQuietly, QuietStep
<1>16. ASSUME NEW d \in Chapters, WaitsForAuthor(Desktop, j, d) PROVE ArchiveInv'
  <2>1. /\ UNCHANGED chapter
        /\ UNCHANGED run
        /\ Moves(Desktop, j, "exit", c)
        BY <1>1, <1>16, WaitsForAuthorDoes
  <2> QED BY <1>1, <2>1, TurnsQuietly, TasksQuietly, QuietStep
<1>17. ASSUME NEW d \in Chapters, StartsApplying(Desktop, j, d) PROVE ArchiveInv'
  <2>1. /\ UNCHANGED chapter
        /\ UNCHANGED run \/ RunTurns(j, d, "applying")
        /\ Moves(Desktop, j, "apply", d) \/ Moves(Desktop, j, "exit", c)
        BY <1>1, <1>17, StartsApplyingDoes
  <2> QED BY <1>1, <2>1, TurnsQuietly, TasksQuietly, QuietStep
<1>18. CASE Leaves(Desktop, j)
  <2>1. /\ UNCHANGED chapter /\ TaskGoes(Desktop, j, After(task[Desktop][j]))
        /\ WorkerFailed(j) \/ UNCHANGED run
        BY <1>1, <1>18, LeavesDoes
  <2>2. UNCHANGED run \/ \E d \in Chapters : RunTurns(j, d, "failed")
        BY <1>1, <2>1, WorkerFailedDoes DEF Unfinished
  <2> QED BY <1>1, <2>1, <2>2, TurnsQuietly, TasksQuietly, QuietStep
<1>19. CASE LeavesUnrecorded(Desktop, j)
  <2>1. UNCHANGED chapter /\ UNCHANGED run /\ TaskGoes(Desktop, j, Left(task[Desktop][j]))
        BY <1>1, <1>19, LeavesUnrecordedDoes
  <2> QED BY <1>1, <2>1, TurnsQuietly, TasksQuietly, QuietStep
<1> QED BY <1>19, <1>2, <1>3, <1>4, <1>5, <1>6, <1>7, <1>8, <1>9, <1>10, <1>11, <1>12, <1>13, <1>14, <1>15,
           <1>16, <1>17, <1>18,
           StopsArchive, CompletesArchive, AppliesArchive, FinishesArchive DEF Progress

(* A step of the author, or of a save, finds no worker at "applied" and    *)
(* leaves none there.                                                      *)
LEMMA NoneApplied ==
    ASSUME LoopFree(Desktop), NEW k \in Jobs
    PROVE  Worker(k).at # "applied"
BY DEF LoopFree, Awaiting, Worker

LEMMA StartsArchive ==
    ASSUME ArchiveInv, TypeInv', Desktop \in Procs, NEW j \in Jobs, NEW old, Starts(Desktop, j, old)
    PROVE  ArchiveInv'
<1>1. TypeInv /\ LoopFree(Desktop) /\ UNCHANGED chapter
      BY DEF Starts, ArchiveInv
<1>2. Kept /\ ReleasedIsDescribed'
      BY <1>1, ChaptersKept DEF ArchiveInv, ReleasedIsDescribed
<1>3. ASSUME NEW k \in Jobs, NEW c \in Chapters PROVE RunFollows(k, c)
  <2>1. chapter[c].version \in Nat
        BY <1>1, Numbers
  <2>2. CASE k = j
    <3>1. run'[j][c].status \in {"pending", "absent"} /\ run'[j][c].version \in {chapter[c].version, 0}
          BY DEF Starts
    <3> QED BY <1>1, <2>1, <2>2, <3>1 DEF RunFollows
  <2>3. CASE k # j
        BY <1>2, <2>3 DEF Starts, Kept, RunFollows
  <2> QED BY <2>2, <2>3
<1>4. ASSUME NEW k \in Jobs PROVE WorkerFollows(k)
  <2>1. Worker(k)'.at \in {"queued", Worker(k).at}
        BY NoTaskRow DEF Starts, Queued, Worker
  <2> QED BY <1>1, <2>1, NoneApplied DEF WorkerFollows
<1> QED BY <1>2, <1>3, <1>4, ArchiveFollows

LEMMA ApplyPendingArchive ==
    ASSUME ArchiveInv, TypeInv', Desktop \in Procs, NEW j \in Jobs, NEW c \in Chapters,
           ApplyPending(Desktop, j, c)
    PROVE  ArchiveInv'
<1>1. TypeInv
      BY DEF ArchiveInv
<1>2. /\ LoopFree(Desktop) /\ Current(j, c) /\ RunTurns(j, c, "completed")
      /\ \/ /\ chapter' = Released(Described(c), run'[j])
            /\ Cancels(Desktop, ReplacedBy(j, run'[j]))
         \/ chapter' = Described(c) /\ Queues(Desktop, j)
      BY <1>1, ApplyPendingDoes DEF Coroutine
<1>3. Kept /\ chapter'[c].summary = chapter'[c].text /\ chapter'[c].version = chapter[c].version
      BY <1>1, <1>2, BothKept, DescribedKept, DescribedRows
<1>4. QuietTasks
      BY <1>2, TasksQuietly
<1>5. ASSUME NEW k \in Jobs, NEW d \in Chapters PROVE RunFollows(k, d)
  <2>1. CASE k = j /\ d = c
    <3>1. run'[j][c].version = chapter'[c].version /\ chapter'[c].version \in Nat
          BY <1>1, <1>2, <1>3, Numbers DEF Current, RunTurns
    <3> QED BY <1>3, <2>1, <3>1 DEF RunFollows
  <2>2. CASE ~(k = j /\ d = c)
    <3>1. run'[k][d] = run[k][d]
          BY <1>2, <2>2 DEF RunTurns
    <3> QED BY <1>3, <3>1 DEF Kept, RunFollows
  <2> QED BY <2>1, <2>2
<1>6. ReleasedIsDescribed'
  <2>1. RunsOK(j)'
        BY <1>5, RunsFollow
  <2> QED BY <1>1, <1>2, <2>1, ReleasedDescribed, DescribedDescribed DEF ArchiveInv
<1>7. ASSUME NEW k \in Jobs PROVE WorkerFollows(k)
      BY <1>2, <1>4, NoneApplied DEF QuietTasks, WorkerFollows
<1> QED BY <1>5, <1>6, <1>7, ArchiveFollows

LEMMA AuthorArchive ==
    ASSUME ArchiveInv, TypeInv', Desktop \in Procs, NEW j \in Jobs, AuthorNext(Desktop, j)
    PROVE  ArchiveInv'
<1>1. TypeInv
      BY DEF ArchiveInv
<1>2. CASE StartManual(Desktop, j)
  <2>1. PICK S \in SUBSET Chapters, mode \in {"auto", "manual"} : Start(Desktop, j, S, mode, "manual")
        BY <1>2 DEF StartManual
  <2>2. Starts(Desktop, j, IF "manual" = "save" THEN Superseded(Missing(S)) ELSE {})
        BY <1>1, <2>1, StartStarts
  <2> QED BY <2>2, StartsArchive
<1>3. CASE Pause(Desktop, j)
  <2>1. Cancels(Desktop, {j}) /\ UNCHANGED <<chapter, run>>
        BY <1>1, <1>3, PauseDoes
  <2> QED BY <1>1, <2>1, TurnsQuietly, TasksQuietly, QuietStep
<1>4. CASE Resume(Desktop, j)
  <2>1. Queues(Desktop, j) /\ UNCHANGED <<chapter, run>>
        BY <1>1, <1>4, ResumeDoes
  <2> QED BY <1>1, <2>1, TurnsQuietly, TasksQuietly, QuietStep
<1>5. CASE Cancel(Desktop, j)
  <2>1. Cancels(Desktop, {j}) /\ UNCHANGED <<chapter, run>>
        BY <1>1, <1>5, CancelDoes
  <2> QED BY <1>1, <2>1, TurnsQuietly, TasksQuietly, QuietStep
<1>6. ASSUME NEW mode \in {"auto", "manual"}, SetMode(Desktop, j, mode) PROVE ArchiveInv'
  <2>1. UNCHANGED <<chapter, run>> /\ (Queues(Desktop, j) \/ UNCHANGED task)
        BY <1>1, <1>6, SetModeDoes
  <2> QED BY <1>1, <2>1, TurnsQuietly, TasksQuietly, QuietStep
<1>7. ASSUME NEW S, NEW s \in {"extracting", "pending", "skipped_by_user"}, Reopens(Desktop, j, S, s)
      PROVE  ArchiveInv'
  <2>1. UNCHANGED chapter /\ Queues(Desktop, j) /\ \E c \in Chapters : RunTurns(j, c, s)
        BY <1>7 DEF Reopens
  <2> QED BY <1>1, <2>1, TurnsQuietly, TasksQuietly, QuietStep
<1>8. CASE Retry(Desktop, j)
      BY <1>1, <1>7, <1>8, RetryDoes
<1>9. CASE Repair(Desktop, j)
      BY <1>1, <1>7, <1>9, RepairDoes
<1>10. CASE Skip(Desktop, j)
      BY <1>1, <1>7, <1>10, SkipDoes
<1>11. ASSUME NEW c \in Chapters, ApplyPendingFails(Desktop, j, c) PROVE ArchiveInv'
  <2>1. UNCHANGED <<chapter, task>> /\ RunTurns(j, c, "failed")
        BY <1>1, <1>11, ApplyPendingFailsDoes
  <2> QED BY <1>1, <2>1, TurnsQuietly, TasksQuietly, QuietStep
<1> QED BY <1>2, <1>3, <1>4, <1>5, <1>6, <1>8, <1>9, <1>10, <1>11, ApplyPendingArchive DEF AuthorNext

LEMMA SavesArchive ==
    ASSUME ArchiveInv, TypeInv', Desktop \in Procs, NEW j \in Jobs,
           \/ StartSaved(j) \/ Recover(j) \/ (\E c \in Chapters : SavePlan(Desktop, j, c))
           \/ \E c \in Chapters, plan \in {"partial", "complete"} : EditPlan(j, c, plan)
    PROVE  ArchiveInv'
<1>1. TypeInv
      BY DEF ArchiveInv
<1>2. CASE StartSaved(j)
  <2>1. PICK S \in SUBSET Chapters : Start(Desktop, j, S, "auto", "save")
    <3>1. PICK c \in Chapters :
            LET suffix == {d \in Chapters : d >= c /\ chapter[d].required} IN
            Start(Desktop, j, IF suffix = {} THEN {c} ELSE suffix, "auto", "save")
          BY <1>2 DEF StartSaved
    <3> QED BY <3>1
  <2>2. Starts(Desktop, j, IF "save" = "save" THEN Superseded(Missing(S)) ELSE {})
        BY <1>1, <2>1, StartStarts
  <2> QED BY <2>2, StartsArchive
<1>3. CASE Recover(j)
  <2>1. UNCHANGED <<chapter, task>> /\ \E c \in Chapters : RunTurns(j, c, "awaiting_confirmation")
        BY <1>1, <1>3, RecoverDoes
  <2> QED BY <1>1, <2>1, TurnsQuietly, TasksQuietly, QuietStep
<1>4. ASSUME NEW c \in Chapters, SavePlan(Desktop, j, c) PROVE ArchiveInv'
  <2>1. UNCHANGED <<chapter, task>> /\ RunTurns(j, c, "extracting")
        BY <1>1, <1>4, SavePlanDoes
  <2> QED BY <1>1, <2>1, TurnsQuietly, TasksQuietly, QuietStep
<1>5. ASSUME NEW c \in Chapters, NEW plan \in {"partial", "complete"}, EditPlan(j, c, plan)
      PROVE  ArchiveInv'
  <2>1. UNCHANGED <<chapter, task>> /\ RunTurns(j, c, run[j][c].status)
        BY <1>1, <1>5, EditPlanDoes
  <2> QED BY <1>1, <2>1, TurnsQuietly, TasksQuietly, QuietStep
<1> QED BY <1>2, <1>3, <1>4, <1>5

LEMMA PhonesArchive ==
    ASSUME ArchiveInv, TypeInv', Desktop \in Procs, NEW j \in Jobs, NEW c \in Chapters,
           MobileCommit(j, c) \/ \E v \in 1 .. MaxVersion : MobileRefused(j, c, v)
    PROVE  ArchiveInv'
<1>1. TypeInv
      BY DEF ArchiveInv
<1>2. PICK status \in {"completed", "failed"} :
         /\ LoopFree(Desktop) /\ Phones(j, c, status)
         /\ \/ /\ status = "completed" /\ chapter' = Released(Described(c), run'[j])
               /\ run'[j][c].version = chapter[c].version
            \/ status = "failed" /\ UNCHANGED chapter
      BY <1>1, MobileCommitDoes, MobileRefusedDoes DEF MobileRequest
<1>3. Kept /\ (status = "completed" => /\ chapter'[c].summary = chapter'[c].text
                                       /\ chapter'[c].version = chapter[c].version)
      BY <1>1, <1>2, BothKept, ChaptersKept
<1>4. ASSUME NEW k \in Jobs, NEW d \in Chapters PROVE RunFollows(k, d)
  <2>1. CASE k = j /\ d = c
    <3>1. run'[j][c].status = status /\ run'[j][c].version =< chapter'[c].version
          BY <1>2, <1>3 DEF Phones
    <3> QED BY <1>2, <1>3, <2>1, <3>1 DEF RunFollows
  <2>2. CASE ~(k = j /\ d = c)
    <3>1. run'[k][d] = run[k][d]
          BY <1>2, <2>2 DEF Phones
    <3> QED BY <1>3, <3>1 DEF Kept, RunFollows
  <2> QED BY <2>1, <2>2
<1>5. ReleasedIsDescribed'
  <2>1. RunsOK(j)'
        BY <1>4, RunsFollow
  <2>2. CASE UNCHANGED chapter
        BY <2>2 DEF ArchiveInv, ReleasedIsDescribed
  <2> QED BY <1>1, <1>2, <2>1, <2>2, ReleasedDescribed DEF ArchiveInv
<1>6. ASSUME NEW k \in Jobs PROVE WorkerFollows(k)
  <2>1. Worker(k)' = Worker(k)
        BY <1>2 DEF Phones, Worker
  <2> QED BY <1>2, <2>1, NoneApplied DEF WorkerFollows
<1> QED BY <1>4, <1>5, <1>6, ArchiveFollows

LEMMA PolishArchive ==
    ASSUME ArchiveInv, TypeInv', Desktop \in Procs, NEW c \in Chapters, Polish(c)
    PROVE  ArchiveInv'
<1>1. TypeInv
      BY DEF ArchiveInv
<1>2. /\ UNCHANGED <<run, task>>
      /\ chapter'[c].version = chapter[c].version + 1
      /\ chapter'[c].text = chapter[c].text /\ chapter'[c].summary = chapter[c].summary
      /\ chapter'[c].required = chapter[c].required
      /\ \A d \in Chapters \ {c} : chapter'[d] = chapter[d]
      BY <1>1, PolishDoes
<1>3. \A d \in Chapters : chapter[d].version \in Nat
      BY <1>1, CatalogingAssumption DEF TypeInv, Texts, ChapterRows
<1>4. Kept
      BY <1>2, <1>3 DEF Kept, KeptAt
<1>5. ReleasedIsDescribed'
  <2>1. \A d \in Chapters : /\ chapter'[d].required = chapter[d].required
                            /\ chapter'[d].text = chapter[d].text
                            /\ chapter'[d].summary = chapter[d].summary
        BY <1>2
  <2> QED BY <2>1 DEF ArchiveInv, ReleasedIsDescribed
<1>6. QuietTasks
      BY <1>2 DEF QuietTasks, Worker
<1> QED BY <1>2, <1>4, <1>5, <1>6, TurnsQuietly, QuietArchive

LEMMA RewriteArchive ==
    ASSUME ArchiveInv, TypeInv', Desktop \in Procs, NEW c \in Chapters, Rewrite(c)
    PROVE  ArchiveInv'
<1> DEFINE S == {d \in Chapters : d >= c}
<1>1. TypeInv
      BY DEF ArchiveInv
<1>2. /\ LoopFree(Desktop)
      /\ \A d \in Chapters \ S : chapter'[d] = chapter[d]
      /\ \A d \in S : chapter'[d].required /\ chapter'[d].version >= chapter[d].version
      /\ \A j \in Jobs, d \in Chapters :
            /\ run'[j][d].version = run[j][d].version
            /\ IF d \in S /\ run[j][d].status # "absent"
               THEN run'[j][d].status = "skipped_by_user"
               ELSE run'[j][d] = run[j][d]
      /\ Cancels(Desktop, Invalidated(S))
      BY <1>1, RewriteDoes
<1> HIDE DEF S
<1>3. ASSUME NEW k \in Jobs, NEW d \in Chapters PROVE RunFollows(k, d)
  <2>1. /\ run[k][d].version \in Nat /\ chapter[d].version \in Nat /\ chapter'[d].version \in Nat
        /\ run[k][d].version =< chapter[d].version
        BY <1>1, Numbers, CatalogingAssumption DEF ArchiveInv, RunsOK, TypeInv, Texts, ChapterRows
  <2>2. CASE d \in S
    <3>1. run'[k][d].status # "completed" /\ run'[k][d].version =< chapter'[d].version
          BY <1>2, <2>1, <2>2
    <3> QED BY <3>1 DEF RunFollows
  <2>3. CASE d \notin S
    <3>1. chapter'[d] = chapter[d] /\ run'[k][d] = run[k][d]
          BY <1>2, <2>3
    <3> QED BY <2>1, <3>1 DEF RunFollows, KeptAt
  <2> QED BY <2>2, <2>3
<1>4. ReleasedIsDescribed'
  <2>1. \A d \in Chapters : chapter'[d].required \/ chapter'[d] = chapter[d]
        BY <1>2
  <2> QED BY <2>1 DEF ArchiveInv, ReleasedIsDescribed
<1>5. ASSUME NEW k \in Jobs PROVE WorkerFollows(k)
  <2>1. Worker(k)'.at = Worker(k).at
        BY <1>2 DEF Cancels, Worker
  <2> QED BY <1>2, <2>1, NoneApplied DEF WorkerFollows
<1> QED BY <1>3, <1>4, <1>5, ArchiveFollows

LEMMA RestartArchive ==
    ASSUME ArchiveInv, TypeInv', Desktop \in Procs, Restart(Desktop)
    PROVE  ArchiveInv'
<1>1. TypeInv
      BY DEF ArchiveInv
<1>2. UNCHANGED chapter /\ (\A j \in Jobs : task'[Desktop][j] = NoTask) /\ Restarts
      BY <1>1, RestartDoes
<1>3. QuietTasks
      BY <1>2, NoTaskRow DEF QuietTasks, Worker
<1>4. QuietRuns
  <2> SUFFICES ASSUME NEW k \in Jobs, NEW c \in Chapters
               PROVE  /\ run'[k][c].version = run[k][c].version
                      /\ run'[k][c].status = "completed" => run[k][c].status = "completed"
      BY DEF QuietRuns
  <2>1. \/ run'[k] = run[k]
        \/ \E d \in Unfinished(k) :
              /\ run'[k][d].status = "failed" /\ run'[k][d].version = run[k][d].version
              /\ \A e \in Chapters \ {d} : run'[k][e] = run[k][e]
        BY <1>2 DEF Restarts
  <2> QED BY <2>1
<1> QED BY <1>2, <1>3, <1>4, QuietStep

LEMMA ArchiveStays ==
    ASSUME DesktopOnly, ArchiveInv, [Next]_vars
    PROVE  ArchiveInv'
<1>1. TypeInv /\ TypeInv' /\ Desktop \in Procs /\ Procs = {Desktop}
      BY StaysTyped, CatalogingAssumption DEF ArchiveInv, DesktopOnly
<1>2. CASE UNCHANGED vars
  <2>1. UNCHANGED <<chapter, run, task>>
        BY <1>2 DEF vars
  <2>2. QuietTasks
        BY <2>1 DEF QuietTasks, Worker
  <2> QED BY <1>1, <2>1, <2>2, TurnsQuietly, QuietStep
<1>3. ASSUME NEW p \in Procs, NEW j \in Jobs, Progress(p, j) \/ AuthorNext(p, j) PROVE ArchiveInv'
  <2>1. p = Desktop
        BY <1>1
  <2> QED BY <1>1, <1>3, <2>1, WorkerArchive, AuthorArchive
<1>4. ASSUME NEW p \in Procs, NEW j \in Jobs, NEW c \in Chapters, SavePlan(p, j, c) PROVE ArchiveInv'
  <2>1. p = Desktop
        BY <1>1
  <2> QED BY <1>1, <1>4, <2>1, SavesArchive
<1>5. ASSUME NEW p \in Procs, Restart(p) PROVE ArchiveInv'
  <2>1. p = Desktop
        BY <1>1
  <2> QED BY <1>1, <1>5, <2>1, RestartArchive
<1> QED BY <1>1, <1>2, <1>3, <1>4, <1>5, SavesArchive, PhonesArchive, PolishArchive, RewriteArchive
       DEF Next

LEMMA InitArchive == Init => ArchiveInv
<1> SUFFICES ASSUME Init PROVE ArchiveInv
    OBVIOUS
<1>1. TypeInv /\ Desktop \in Procs
      BY InitTyped, CatalogingAssumption
<1>2. \A c \in Chapters : chapter[c].required /\ chapter[c].version = 1
      BY DEF Init
<1>3. \A j \in Jobs, c \in Chapters : run[j][c].version = 0 /\ run[j][c].status = "absent"
      BY DEF Init, AbsentRun
<1>4. \A j \in Jobs : Worker(j).at = "none"
      BY <1>1 DEF Init, Worker, NoTask
<1> QED BY <1>1, <1>2, <1>3, <1>4 DEF ArchiveInv, ReleasedIsDescribed, RunsOK, AppliedOK

(* A chapter released for writing on is described by the archive as its    *)
(* text now is, whenever its author acts and however its jobs end, where   *)
(* no second process catalogs: what a worker has written, and what a       *)
(* completed run stands for, is the text of its chapter at that version.   *)
THEOREM ReleasedHolds == DesktopOnly /\ Spec => []ReleasedIsDescribed
<1>1. ArchiveInv => ReleasedIsDescribed
      BY DEF ArchiveInv
<1>2. DesktopOnly /\ ArchiveInv /\ [Next]_vars => ArchiveInv'
      BY ArchiveStays
<1>3. DesktopOnly => DesktopOnly'
      BY DEF DesktopOnly
<1> QED BY <1>1, <1>2, <1>3, InitArchive, PTL DEF Spec

-----------------------------------------------------------------------------
(* One process on the database, and an author who waits for its loop.      *)
Alone == Procs = {Desktop} /\ Hurried = {}

(* One job at a time holds the event loop.                                 *)
LoopAlone ==
    \A j, k \in Jobs : j # k => Worker(j).at \in Awaiting \/ Worker(k).at \in Awaiting

(* A job that its worker may find when it was waiting.                     *)
Open == Working \cup {"paused_on_failure", "waiting_confirmation"}

(* Where a worker is tells what its job and its chapter's run are at. One  *)
(* that is cancelled has nothing left to do, and none waits in its wake.   *)
WorkerOK(j) ==
    LET t == Worker(j)
        s == job[j].status
        r == run[j][t.chapter]
    IN
    /\ t.cancel => t.at \in {"queued", "model", "backoff", "exit"} /\ s \notin Working
    /\ ~t.next
    /\ t.at = "loop" => s \in Working \cup {"paused_on_failure"}
    /\ t.at = "model" /\ ~t.cancel => s \in Open /\ r.status \in {"pending", "extracting"}
    /\ t.at = "planned" => s = "waiting_confirmation" /\ r.status = "awaiting_confirmation"
    /\ t.at = "review" =>
          \/ s \in Working /\ r.status = "awaiting_confirmation"
          \/ s \in Open \ Working /\ r.status \in {"pending", "extracting"}
    /\ t.at = "apply" \/ (t.at = "backoff" /\ ~t.cancel) => s \in Open /\ r.status = "applying"
    /\ t.at = "applied" => s \in Working /\ r.status = "applying"
    /\ t.at = "exit" => t.err \/ s \notin Working

(* A job stops with a run to act on, and its operation shows that.         *)
StopOK(j) ==
    /\ job[j].status = "paused_on_failure" => Blocking(j) # {} \/ Unfinished(j) = {}
    /\ job[j].status = "waiting_confirmation" => RunsIn(j, {"awaiting_confirmation"}) # {}
    /\ /\ job[j].status \notin Working \cup {"absent", "cancelled"}
       /\ Worker(j).at \notin {"loop", "planned"}
       => job[j].op = OperationStatus(job[j].status)
    /\ job[j].status \in Working /\ job[j].source # "mobile"
       => Worker(j).at # "none" \/ Worker(j).err

JobOK(j) == WorkerOK(j) /\ StopOK(j)

CatalogInv == TypeInv /\ LoopAlone /\ \A j \in Jobs : JobOK(j)

-----------------------------------------------------------------------------
(* What a step of one job leaves of the others.                            *)

(* No worker but that of j holds the event loop.                           *)
Holding(j) == \A k \in Jobs \ {j} : Worker(k).at \in Awaiting

(* Job k is cancelled, and its task if it has one.                         *)
IsCancelled(k) ==
    /\ job'[k].status = "cancelled" /\ run'[k] = run[k]
    /\ Worker(k)'.at = Worker(k).at
    /\ IF Worker(k).at # "none" THEN Worker(k)'.cancel /\ ~Worker(k)'.next
       ELSE Worker(k)' = Worker(k)

Same(k) == job'[k] = job[k] /\ run'[k] = run[k] /\ Worker(k)' = Worker(k)

(* A step of job j, which cancels those in X.                              *)
Mine(j, X) ==
    /\ \A k \in X : k \in Jobs /\ k # j /\ IsCancelled(k)
    /\ \A k \in Jobs \ ({j} \cup X) : Same(k)

LEMMA SameKept ==
    ASSUME TypeInv, NEW k \in Jobs, JobOK(k), Same(k)
    PROVE  JobOK(k)'
<1>1. StopOK(k)'
      BY DEF JobOK, StopOK, Same, Blocking, RunsIn, Unfinished
<1>2. WorkerOK(k)'
      BY DEF JobOK, WorkerOK, Same
<1> QED BY <1>1, <1>2 DEF JobOK

LEMMA CancelledKept ==
    ASSUME NEW k \in Jobs, JobOK(k), IsCancelled(k), Worker(k).at \in Awaiting
    PROVE  JobOK(k)'
<1>1. StopOK(k)'
      BY DEF StopOK, IsCancelled, Working
<1>2. WorkerOK(k)'
      BY DEF JobOK, WorkerOK, IsCancelled, Working, Awaiting
<1> QED BY <1>1, <1>2 DEF JobOK

(* Only the job of a step is left to look at.                              *)
LEMMA StepOfJob ==
    ASSUME CatalogInv, TypeInv', NEW j \in Jobs, NEW X, Mine(j, X), Holding(j),
           WorkerOK(j)', StopOK(j)'
    PROVE  CatalogInv'
<1>1. ASSUME NEW k \in Jobs PROVE JobOK(k)'
  <2>1. CASE k = j
        BY <2>1 DEF JobOK
  <2>2. CASE k \in X
        BY <2>2, CancelledKept DEF Mine, Holding, CatalogInv
  <2>3. CASE k \notin {j} \cup X
        BY <2>3, SameKept DEF Mine, CatalogInv
  <2> QED BY <2>1, <2>2, <2>3
<1>2. ASSUME NEW k \in Jobs \ {j} PROVE Worker(k)'.at \in Awaiting
      BY DEF Mine, Holding, Same, IsCancelled
<1>3. LoopAlone'
      BY <1>2 DEF LoopAlone
<1> QED BY <1>1, <1>3 DEF CatalogInv

-----------------------------------------------------------------------------
(* The steps of the worker.                                                *)

LEMMA OneProcess ==
    ASSUME Alone, NEW p \in Procs
    PROVE  p = Desktop
BY DEF Alone

LEMMA HoldsLoop ==
    ASSUME CatalogInv, NEW j \in Jobs, Worker(j).at \notin Awaiting \/ LoopFree(Desktop)
    PROVE  Holding(j)
BY DEF CatalogInv, LoopAlone, Holding, LoopFree, Worker

(* A step that changes the task, the job and a run of j.                   *)
LEMMA OwnStep ==
    ASSUME TypeInv, NEW j \in Jobs,
           \/ \E s, c : Moves(Desktop, j, s, c)
           \/ \E t : TaskGoes(Desktop, j, t)
           \/ Queues(Desktop, j) \/ Cancels(Desktop, {j}) \/ UNCHANGED task,
           (\E s : Shows(j, s) \/ Sets(j, s)) \/ UNCHANGED job,
           (\E c, s : RunTurns(j, c, s)) \/ UNCHANGED run
    PROVE  Mine(j, {})
<1> SUFFICES ASSUME NEW k \in Jobs \ {j} PROVE Same(k)
    BY DEF Mine
<1>1. Desktop \in Procs
      BY CatalogingAssumption
<1>2. Worker(k)' = Worker(k)
      BY <1>1 DEF Worker, Moves, TaskGoes, Queues, Cancels
<1>3. job'[k] = job[k]
      BY DEF Shows, Sets
<1>4. run'[k] = run[k]
      BY DEF RunTurns
<1> QED BY <1>2, <1>3, <1>4 DEF Same

LEMMA JobIsOK ==
    ASSUME CatalogInv, NEW j \in Jobs
    PROVE  /\ TypeInv /\ WorkerOK(j) /\ StopOK(j)
           /\ Desktop \in Procs /\ Worker(j).chapter \in Chapters
BY CatalogingAssumption, ChapterOfTask DEF CatalogInv, JobOK, Worker

LEMMA BeginKeeps ==
    ASSUME Alone, CatalogInv, TypeInv', NEW j \in Jobs, Begin(Desktop, j)
    PROVE  CatalogInv'
<1>1. TypeInv /\ WorkerOK(j) /\ StopOK(j) /\ Desktop \in Procs
      BY JobIsOK
<1>2. ~Leased(Desktop, j)
      BY DEF Alone, Leased
<1>3. /\ UNCHANGED <<chapter, job, run>> /\ LoopFree(Desktop)
      /\ Worker(j).at = "queued" /\ ~Worker(j).cancel
      /\ IF Active(j) THEN Moves(Desktop, j, "loop", Worker(j).chapter)
         ELSE TaskGoes(Desktop, j, NoTask)
      BY <1>1, <1>2, BeginDoes DEF Worker
<1>4. Mine(j, {}) /\ Holding(j)
      BY <1>1, <1>3, OwnStep, HoldsLoop
<1>5. CASE Active(j)
  <2>1. WorkerOK(j)'
        BY <1>1, <1>3, <1>5 DEF WorkerOK, Worker, Moves, Active
  <2>2. StopOK(j)'
        BY <1>1, <1>3, <1>5 DEF StopOK, Worker, Moves, Active, Working
  <2> QED BY <1>3, <1>4, <2>1, <2>2, StepOfJob
<1>6. CASE ~Active(j)
  <2>1. Worker(j)' = NoTask
        BY <1>1, <1>3, <1>6 DEF Worker, TaskGoes
  <2>2. WorkerOK(j)'
        BY <2>1, NoTaskRow DEF WorkerOK
  <2>3. StopOK(j)'
        BY <1>1, <1>3, <1>6, <2>1 DEF StopOK, Active, Blocking, RunsIn, Unfinished
  <2> QED BY <1>3, <1>4, <2>2, <2>3, StepOfJob
<1> QED BY <1>5, <1>6

LEMMA VanishKeeps ==
    ASSUME CatalogInv, TypeInv', NEW j \in Jobs, Vanish(Desktop, j)
    PROVE  CatalogInv'
<1>1. TypeInv /\ WorkerOK(j) /\ StopOK(j) /\ Desktop \in Procs
      BY JobIsOK
<1>2. /\ UNCHANGED <<chapter, job, run>> /\ LoopFree(Desktop)
      /\ Worker(j).at = "queued" /\ Worker(j).cancel
      /\ TaskGoes(Desktop, j, After(Worker(j)))
      BY <1>1, VanishDoes DEF Worker
<1>3. Mine(j, {}) /\ Holding(j)
      BY <1>1, <1>2, OwnStep, HoldsLoop
<1>4. Worker(j)' = NoTask /\ job[j].status \notin Working
      BY <1>1, <1>2 DEF Worker, TaskGoes, After, WorkerOK
<1>5. WorkerOK(j)'
      BY <1>4, NoTaskRow DEF WorkerOK
<1>6. StopOK(j)'
      BY <1>1, <1>2, <1>4 DEF StopOK, Blocking, RunsIn, Unfinished
<1> QED BY <1>2, <1>3, <1>5, <1>6, StepOfJob

LEMMA StopsKeeps ==
    ASSUME CatalogInv, TypeInv', NEW j \in Jobs, Stops(Desktop, j)
    PROVE  CatalogInv'
<1>1. TypeInv /\ WorkerOK(j) /\ StopOK(j) /\ Desktop \in Procs
      BY JobIsOK
<1>2. /\ Worker(j).at = "loop" /\ run' = run
      /\ job[j].status \in Closed \cup {"paused", "paused_on_failure"}
      /\ Shows(j, job[j].status)
      /\ chapter' = IF job[j].status = "completed" THEN Released(chapter, run[j]) ELSE chapter
      /\ Moves(Desktop, j, "exit", Worker(j).chapter)
      BY <1>1, StopsDoes DEF Worker
<1>3. job[j].status = "paused_on_failure" /\ ~Worker(j).cancel
      BY <1>1, <1>2 DEF WorkerOK, Working, Closed
<1>4. chapter' = chapter
      BY <1>2, <1>3
<1>5. Mine(j, {}) /\ Holding(j)
      BY <1>1, <1>2, OwnStep, HoldsLoop DEF Awaiting
<1>6. WorkerOK(j)'
      BY <1>1, <1>2, <1>3 DEF WorkerOK, Worker, Moves, Shows, Working
<1>7. StopOK(j)'
      BY <1>1, <1>2, <1>3 DEF StopOK, Shows, Blocking, RunsIn, Unfinished, Working
<1> QED BY <1>2, <1>4, <1>5, <1>6, <1>7, StepOfJob

LEMMA PausesKeeps ==
    ASSUME CatalogInv, TypeInv', NEW j \in Jobs, Pauses(Desktop, j)
    PROVE  CatalogInv'
<1>1. TypeInv /\ WorkerOK(j) /\ StopOK(j) /\ Desktop \in Procs
      BY JobIsOK
<1>2. /\ Worker(j).at = "loop" /\ UNCHANGED <<chapter, run>> /\ Blocking(j) # {}
      /\ Shows(j, "paused_on_failure") /\ Moves(Desktop, j, "exit", Worker(j).chapter)
      BY <1>1, PausesDoes DEF Worker, Turning
<1>3. Mine(j, {}) /\ Holding(j)
      BY <1>1, <1>2, OwnStep, HoldsLoop DEF Awaiting
<1>4. WorkerOK(j)'
      BY <1>1, <1>2 DEF WorkerOK, Worker, Moves, Shows, Working
<1>5. StopOK(j)'
      BY <1>1, <1>2 DEF StopOK, Shows, Blocking, RunsIn, Unfinished, Working
<1> QED BY <1>2, <1>3, <1>4, <1>5, StepOfJob

LEMMA ExtractsKeeps ==
    ASSUME CatalogInv, TypeInv', NEW j \in Jobs, Extracts(Desktop, j)
    PROVE  CatalogInv'
<1>1. TypeInv /\ WorkerOK(j) /\ StopOK(j) /\ Desktop \in Procs
      BY JobIsOK
<1>2. PICK c \in Chapters :
          \/ /\ RunTurns(j, c, "extracting") /\ Sets(j, "running") /\ Moves(Desktop, j, "model", c)
          \/ /\ Moves(Desktop, j, "exit", Worker(j).chapter) /\ task'[Desktop][j].err = TRUE
             /\ UNCHANGED <<run, job>>
      BY <1>1, ExtractsDoes DEF Worker, Unfinished
<1>3. Worker(j).at = "loop" /\ UNCHANGED chapter /\ job[j].status \in Working /\ ~Worker(j).cancel
      BY <1>1, ExtractsDoes DEF Worker, Turning, WorkerOK
<1>4. Mine(j, {}) /\ Holding(j)
      BY <1>1, <1>2, <1>3, OwnStep, HoldsLoop DEF Awaiting
<1>5. CASE RunTurns(j, c, "extracting") /\ Sets(j, "running") /\ Moves(Desktop, j, "model", c)
  <2>1. WorkerOK(j)'
        BY <1>1, <1>3, <1>5 DEF WorkerOK, Worker, Moves, Sets, RunTurns, Working, Open
  <2>2. StopOK(j)'
        BY <1>5 DEF StopOK, Worker, Moves, Sets, Working
  <2> QED BY <1>3, <1>4, <1>5, <2>1, <2>2, StepOfJob
<1>6. CASE /\ Moves(Desktop, j, "exit", Worker(j).chapter) /\ task'[Desktop][j].err = TRUE
           /\ UNCHANGED <<run, job>>
  <2>1. WorkerOK(j)'
        BY <1>1, <1>3, <1>6 DEF WorkerOK, Worker, Moves
  <2>2. StopOK(j)'
        BY <1>3, <1>6 DEF StopOK, Worker, Moves, Working
  <2> QED BY <1>3, <1>4, <1>6, <2>1, <2>2, StepOfJob
<1> QED BY <1>2, <1>5, <1>6

LEMMA CallStoppedKeeps ==
    ASSUME CatalogInv, TypeInv', NEW j \in Jobs, CallStopped(Desktop, j)
    PROVE  CatalogInv'
<1>1. TypeInv /\ WorkerOK(j) /\ StopOK(j) /\ Desktop \in Procs /\ Worker(j).chapter \in Chapters
      BY JobIsOK
<1>2. /\ UNCHANGED <<chapter, job, run>> /\ Worker(j).at = "model" /\ ~Worker(j).cancel
      /\ LoopFree(Desktop) /\ ~Active(j) /\ Moves(Desktop, j, "review", Worker(j).chapter)
      BY <1>1, CallStoppedDoes DEF Worker, Step, Awaiting
<1>3. Mine(j, {}) /\ Holding(j)
      BY <1>1, <1>2, OwnStep, HoldsLoop
<1>4. WorkerOK(j)'
      BY <1>1, <1>2 DEF WorkerOK, Worker, Moves, Active
<1>5. StopOK(j)'
      BY <1>1, <1>2 DEF StopOK, Worker, Moves, Blocking, RunsIn, Unfinished
<1> QED BY <1>2, <1>3, <1>4, <1>5, StepOfJob

LEMMA CallFailsKeeps ==
    ASSUME CatalogInv, TypeInv', NEW j \in Jobs, CallFails(Desktop, j)
    PROVE  CatalogInv'
<1>1. TypeInv /\ WorkerOK(j) /\ StopOK(j) /\ Desktop \in Procs /\ Worker(j).chapter \in Chapters
      BY JobIsOK
<1>2. /\ Worker(j).at = "model" /\ ~Worker(j).cancel /\ LoopFree(Desktop) /\ UNCHANGED chapter
      /\ RunTurns(j, Worker(j).chapter, "failed") /\ Sets(j, "paused_on_failure")
      /\ Moves(Desktop, j, "loop", Worker(j).chapter)
      BY <1>1, CallFailsDoes DEF Worker, Step, Awaiting
<1>3. Mine(j, {}) /\ Holding(j)
      BY <1>1, <1>2, OwnStep, HoldsLoop
<1>4. WorkerOK(j)'
      BY <1>1, <1>2 DEF WorkerOK, Worker, Moves, Sets
<1>5. Worker(j).chapter \in Blocking(j)'
      BY <1>1, <1>2 DEF RunTurns, Blocking, RunsIn
<1>6. StopOK(j)'
      BY <1>2, <1>5 DEF StopOK, Worker, Moves, Sets, Working
<1> QED BY <1>1, <1>2, <1>3, <1>4, <1>6, StepOfJob

LEMMA TakesOverKeeps ==
    ASSUME CatalogInv, TypeInv', NEW j \in Jobs, TakesOver(Desktop, j)
    PROVE  CatalogInv'
<1>1. TypeInv /\ WorkerOK(j) /\ StopOK(j) /\ Desktop \in Procs /\ Worker(j).chapter \in Chapters
      BY JobIsOK
<1>2. /\ Worker(j).at = "planned" /\ UNCHANGED chapter /\ run' = run
      /\ run[j][Worker(j).chapter].status = "awaiting_confirmation"
      /\ Sets(j, "running") /\ Moves(Desktop, j, "review", Worker(j).chapter)
      BY <1>1, TakesOverDoes DEF Worker, WorkerOK
<1>3. Mine(j, {}) /\ Holding(j)
      BY <1>1, <1>2, OwnStep, HoldsLoop DEF Awaiting
<1>4. WorkerOK(j)'
      BY <1>1, <1>2 DEF WorkerOK, Worker, Moves, Sets, Working
<1>5. StopOK(j)'
      BY <1>2 DEF StopOK, Worker, Moves, Sets, Working
<1> QED BY <1>2, <1>3, <1>4, <1>5, StepOfJob

(* While its author waits for the loop, a job under review goes on.        *)
LEMMA ReviewGoesOn ==
    ASSUME CatalogInv, NEW j \in Jobs
    PROVE  ~ReviewStops(Desktop, j)
<1> SUFFICES ASSUME ReviewStops(Desktop, j) PROVE FALSE
    OBVIOUS
<1>1. TypeInv /\ WorkerOK(j) /\ Desktop \in Procs
      BY JobIsOK
<1>2. /\ Worker(j).at = "review"
      /\ job[j].status \in {"cancelled", "paused"} \/ run[j][Worker(j).chapter].status = "failed"
      BY <1>1, ReviewStopsDoes DEF Worker
<1> QED BY <1>1, <1>2 DEF WorkerOK, Working, Open

LEMMA FinalizePlanKeeps ==
    ASSUME CatalogInv, TypeInv', NEW j \in Jobs, NEW c \in Chapters, FinalizePlan(Desktop, j, c)
    PROVE  CatalogInv'
<1>1. TypeInv /\ WorkerOK(j) /\ StopOK(j) /\ Desktop \in Procs /\ Worker(j).chapter \in Chapters
      BY JobIsOK
<1>2. /\ Worker(j).at = "model" /\ ~Worker(j).cancel /\ LoopFree(Desktop) /\ UNCHANGED chapter
      /\ c = Worker(j).chapter
      /\ RunTurns(j, c, "awaiting_confirmation") /\ Sets(j, "waiting_confirmation")
      /\ Moves(Desktop, j, "planned", c)
      BY <1>1, FinalizePlanDoes DEF Submits, Worker, Step, Awaiting
<1>3. Mine(j, {}) /\ Holding(j)
      BY <1>1, <1>2, OwnStep, HoldsLoop
<1>4. WorkerOK(j)'
      BY <1>1, <1>2 DEF WorkerOK, Worker, Moves, Sets, RunTurns
<1>5. c \in RunsIn(j, {"awaiting_confirmation"})'
      BY <1>1, <1>2 DEF RunTurns, RunsIn
<1>6. StopOK(j)'
      BY <1>2, <1>5 DEF StopOK, Worker, Moves, Sets, Working
<1> QED BY <1>1, <1>2, <1>3, <1>4, <1>6, StepOfJob

LEMMA SavePlanKeeps ==
    ASSUME CatalogInv, TypeInv', NEW j \in Jobs, NEW c \in Chapters, SavePlan(Desktop, j, c)
    PROVE  CatalogInv'
<1>1. TypeInv /\ WorkerOK(j) /\ StopOK(j) /\ Desktop \in Procs /\ Worker(j).chapter \in Chapters
      BY JobIsOK
<1>2. /\ Worker(j).at = "model" /\ ~Worker(j).cancel /\ LoopFree(Desktop)
      /\ UNCHANGED <<chapter, task>> /\ c = Worker(j).chapter
      /\ RunTurns(j, c, "extracting") /\ Sets(j, "running")
      BY <1>1, SavePlanDoes DEF Submits, Worker, Step, Awaiting
<1>3. Mine(j, {}) /\ Holding(j)
      BY <1>1, <1>2, OwnStep, HoldsLoop
<1>4. WorkerOK(j)'
      BY <1>1, <1>2 DEF WorkerOK, Worker, Sets, RunTurns, Open, Working
<1>5. StopOK(j)'
      BY <1>2 DEF StopOK, Worker, Sets, Working
<1> QED BY <1>1, <1>2, <1>3, <1>4, <1>5, StepOfJob

LEMMA WaitsForAuthorKeeps ==
    ASSUME CatalogInv, TypeInv', NEW j \in Jobs, NEW c \in Chapters, WaitsForAuthor(Desktop, j, c)
    PROVE  CatalogInv'
<1>1. TypeInv /\ WorkerOK(j) /\ StopOK(j) /\ Desktop \in Procs /\ Worker(j).chapter \in Chapters
      BY JobIsOK
<1>2. /\ Worker(j).at \in {"loop", "review"} /\ UNCHANGED <<chapter, run>>
      /\ run[j][c].status = "awaiting_confirmation"
      /\ Shows(j, "waiting_confirmation") /\ Moves(Desktop, j, "exit", Worker(j).chapter)
      BY <1>1, WaitsForAuthorDoes DEF Turning, Worker
<1>3. Mine(j, {}) /\ Holding(j)
      BY <1>1, <1>2, OwnStep, HoldsLoop DEF Awaiting
<1>4. WorkerOK(j)'
      BY <1>1, <1>2 DEF WorkerOK, Worker, Moves, Shows, Working
<1>5. c \in RunsIn(j, {"awaiting_confirmation"})'
      BY <1>1, <1>2 DEF RunsIn
<1>6. StopOK(j)'
      BY <1>2, <1>5 DEF StopOK, Shows, Working
<1> QED BY <1>2, <1>3, <1>4, <1>6, StepOfJob

LEMMA StartsApplyingKeeps ==
    ASSUME CatalogInv, TypeInv', NEW j \in Jobs, NEW c \in Chapters, StartsApplying(Desktop, j, c)
    PROVE  CatalogInv'
<1>1. TypeInv /\ WorkerOK(j) /\ StopOK(j) /\ Desktop \in Procs /\ Worker(j).chapter \in Chapters
      BY JobIsOK
<1>2. /\ Worker(j).at \in {"loop", "review"} /\ ~Worker(j).cancel /\ UNCHANGED chapter
      /\ \/ /\ RunTurns(j, c, "applying") /\ Sets(j, "running") /\ Moves(Desktop, j, "apply", c)
         \/ /\ ~Active(j) /\ UNCHANGED <<run, job>>
            /\ Moves(Desktop, j, "exit", Worker(j).chapter) /\ task'[Desktop][j].err
      BY <1>1, StartsApplyingDoes DEF Worker, WorkerOK
<1>3. Mine(j, {}) /\ Holding(j)
      BY <1>1, <1>2, OwnStep, HoldsLoop DEF Awaiting
<1>4. Worker(j).at = "loop" => job[j].status # "paused_on_failure"
      BY DEF StartsApplying, ToReview, Turn, Step, Worker
<1>5. CASE RunTurns(j, c, "applying") /\ Sets(j, "running") /\ Moves(Desktop, j, "apply", c)
  <2>1. WorkerOK(j)'
        BY <1>1, <1>2, <1>5 DEF WorkerOK, Worker, Moves, Sets, RunTurns, Working, Open
  <2>2. StopOK(j)'
        BY <1>5 DEF StopOK, Worker, Moves, Sets, Working
  <2> QED BY <1>2, <1>3, <1>5, <2>1, <2>2, StepOfJob
<1>6. CASE /\ ~Active(j) /\ UNCHANGED <<run, job>>
           /\ Moves(Desktop, j, "exit", Worker(j).chapter) /\ task'[Desktop][j].err
  <2>1. WorkerOK(j)'
        BY <1>1, <1>2, <1>6 DEF WorkerOK, Worker, Moves
  <2>2. Worker(j).at = "review"
        BY <1>1, <1>2, <1>4, <1>6 DEF WorkerOK, Active
  <2>3. StopOK(j)'
        BY <1>1, <1>6, <2>2 DEF StopOK, Worker, Moves, Blocking, RunsIn, Unfinished
  <2> QED BY <1>2, <1>3, <1>6, <2>1, <2>3, StepOfJob
<1> QED BY <1>2, <1>5, <1>6

LEMMA AppliesKeeps ==
    ASSUME CatalogInv, TypeInv', NEW j \in Jobs, Applies(Desktop, j)
    PROVE  CatalogInv'
<1>1. /\ TypeInv /\ WorkerOK(j) /\ StopOK(j)
      /\ Desktop \in Procs /\ Worker(j).chapter \in Chapters
      BY JobIsOK
<1> DEFINE c == Worker(j).chapter
<1>2. /\ Worker(j).at = "apply" /\ Active(j) /\ chapter' = Described(c) /\ job' = job
      /\ RunTurns(j, c, run[j][c].status) /\ Moves(Desktop, j, "applied", c)
      BY <1>1, AppliesDoes DEF Worker
<1>3. run[j][c].status = "applying" /\ ~Worker(j).cancel
      BY <1>1, <1>2 DEF WorkerOK
<1>4. Mine(j, {}) /\ Holding(j)
      BY <1>1, <1>2, OwnStep, HoldsLoop DEF Awaiting
<1>5. WorkerOK(j)'
  <2>1. /\ Worker(j)'.at = "applied" /\ Worker(j)'.chapter = c /\ ~Worker(j)'.cancel
        /\ ~Worker(j)'.next /\ job'[j].status \in Working /\ run'[j][c].status = "applying"
        BY <1>1, <1>2, <1>3 DEF Worker, Moves, RunTurns, WorkerOK, Active
  <2> HIDE DEF c
  <2> QED BY <2>1 DEF WorkerOK
<1>6. StopOK(j)'
      BY <1>1, <1>2 DEF StopOK, Worker, Moves, Working, Active
<1> QED BY <1>4, <1>5, <1>6, StepOfJob

LEMMA ApplyFailsKeeps ==
    ASSUME CatalogInv, TypeInv', NEW j \in Jobs, ApplyFails(Desktop, j)
    PROVE  CatalogInv'
<1>1. /\ TypeInv /\ WorkerOK(j) /\ StopOK(j)
      /\ Desktop \in Procs /\ Worker(j).chapter \in Chapters
      BY JobIsOK
<1>2. /\ Worker(j).at = "apply" /\ ~Worker(j).cancel /\ UNCHANGED chapter
      /\ RunTurns(j, Worker(j).chapter, "failed") /\ Shows(j, "paused_on_failure")
      /\ Moves(Desktop, j, "loop", Worker(j).chapter)
      BY <1>1, ApplyFailsDoes DEF Worker, WorkerOK
<1>3. Mine(j, {}) /\ Holding(j)
      BY <1>1, <1>2, OwnStep, HoldsLoop DEF Awaiting
<1>4. WorkerOK(j)'
      BY <1>1, <1>2 DEF WorkerOK, Worker, Moves, Shows
<1>5. Worker(j).chapter \in Blocking(j)'
      BY <1>1, <1>2 DEF RunTurns, Blocking, RunsIn
<1>6. StopOK(j)'
      BY <1>2, <1>5 DEF StopOK, Worker, Moves, Shows, Working
<1> QED BY <1>1, <1>2, <1>3, <1>4, <1>6, StepOfJob

LEMMA ApplyRaisesKeeps ==
    ASSUME CatalogInv, TypeInv', NEW j \in Jobs, ApplyRaises(Desktop, j)
    PROVE  CatalogInv'
<1>1. /\ TypeInv /\ WorkerOK(j) /\ StopOK(j)
      /\ Desktop \in Procs /\ Worker(j).chapter \in Chapters
      BY JobIsOK
<1>2. /\ UNCHANGED <<chapter, job, run>> /\ Worker(j).at = "apply"
      /\ Moves(Desktop, j, "exit", Worker(j).chapter) /\ task'[Desktop][j].err
      BY <1>1, ApplyRaisesDoes DEF Worker, Step, Awaiting
<1>3. Mine(j, {}) /\ Holding(j)
      BY <1>1, <1>2, OwnStep, HoldsLoop DEF Awaiting
<1>4. WorkerOK(j)'
      BY <1>1, <1>2 DEF WorkerOK, Worker, Moves
<1>5. StopOK(j)'
      BY <1>1, <1>2 DEF StopOK, Worker, Moves, Blocking, RunsIn, Unfinished
<1> QED BY <1>2, <1>3, <1>4, <1>5, StepOfJob

LEMMA BacksOffKeeps ==
    ASSUME CatalogInv, TypeInv', NEW j \in Jobs, BacksOff(Desktop, j)
    PROVE  CatalogInv'
<1>1. /\ TypeInv /\ WorkerOK(j) /\ StopOK(j)
      /\ Desktop \in Procs /\ Worker(j).chapter \in Chapters
      BY JobIsOK
<1>2. /\ UNCHANGED <<chapter, job, run>> /\ Worker(j).at = "apply"
      /\ Moves(Desktop, j, "backoff", Worker(j).chapter)
      BY <1>1, BacksOffDoes DEF Worker, Step, Awaiting
<1>3. Mine(j, {}) /\ Holding(j)
      BY <1>1, <1>2, OwnStep, HoldsLoop DEF Awaiting
<1>4. WorkerOK(j)'
      BY <1>1, <1>2 DEF WorkerOK, Worker, Moves
<1>5. StopOK(j)'
      BY <1>1, <1>2 DEF StopOK, Worker, Moves, Blocking, RunsIn, Unfinished
<1> QED BY <1>2, <1>3, <1>4, <1>5, StepOfJob

LEMMA TriesAgainKeeps ==
    ASSUME CatalogInv, TypeInv', NEW j \in Jobs, TriesAgain(Desktop, j)
    PROVE  CatalogInv'
<1>1. /\ TypeInv /\ WorkerOK(j) /\ StopOK(j)
      /\ Desktop \in Procs /\ Worker(j).chapter \in Chapters
      BY JobIsOK
<1>2. /\ UNCHANGED <<chapter, job, run>> /\ Worker(j).at = "backoff" /\ ~Worker(j).cancel
      /\ LoopFree(Desktop) /\ Moves(Desktop, j, "apply", Worker(j).chapter)
      BY <1>1, TriesAgainDoes DEF Worker, Step, Awaiting
<1>3. Mine(j, {}) /\ Holding(j)
      BY <1>1, <1>2, OwnStep, HoldsLoop DEF Awaiting
<1>4. WorkerOK(j)'
      BY <1>1, <1>2 DEF WorkerOK, Worker, Moves
<1>5. StopOK(j)'
      BY <1>1, <1>2 DEF StopOK, Worker, Moves, Blocking, RunsIn, Unfinished
<1> QED BY <1>2, <1>3, <1>4, <1>5, StepOfJob

LEMMA UnwindsKeeps ==
    ASSUME CatalogInv, TypeInv', NEW j \in Jobs, Unwinds(Desktop, j)
    PROVE  CatalogInv'
<1>1. /\ TypeInv /\ WorkerOK(j) /\ StopOK(j)
      /\ Desktop \in Procs /\ Worker(j).chapter \in Chapters
      BY JobIsOK
<1>2. /\ UNCHANGED <<chapter, job, run>> /\ Worker(j).at \in {"model", "backoff"}
      /\ LoopFree(Desktop)
      /\ Moves(Desktop, j, "exit", Worker(j).chapter) /\ task'[Desktop][j].err
      BY <1>1, UnwindsDoes DEF Worker, Step, Awaiting
<1>3. Mine(j, {}) /\ Holding(j)
      BY <1>1, <1>2, OwnStep, HoldsLoop DEF Awaiting
<1>4. WorkerOK(j)'
      BY <1>1, <1>2 DEF WorkerOK, Worker, Moves
<1>5. StopOK(j)'
      BY <1>1, <1>2 DEF StopOK, Worker, Moves, Blocking, RunsIn, Unfinished
<1> QED BY <1>2, <1>3, <1>4, <1>5, StepOfJob

LEMMA FinishesKeeps ==
    ASSUME CatalogInv, TypeInv', NEW j \in Jobs, Finishes(Desktop, j)
    PROVE  CatalogInv'
<1>1. /\ TypeInv /\ WorkerOK(j) /\ StopOK(j)
      /\ Desktop \in Procs /\ Worker(j).chapter \in Chapters
      BY JobIsOK
<1> DEFINE c == Worker(j).chapter
<1>2. /\ Worker(j).at = "applied" /\ UNCHANGED chapter
      /\ RunTurns(j, c, "completed") /\ Shows(j, job[j].status) /\ Moves(Desktop, j, "loop", c)
      BY <1>1, FinishesDoes DEF Worker
<1>3. job[j].status \in Working /\ ~Worker(j).cancel /\ ~Worker(j).next
      BY <1>1, <1>2 DEF WorkerOK
<1>4. Mine(j, {}) /\ Holding(j)
      BY <1>1, <1>2, OwnStep, HoldsLoop DEF Awaiting
<1>5. WorkerOK(j)'
      BY <1>1, <1>2, <1>3 DEF WorkerOK, Worker, Moves, Shows
<1>6. StopOK(j)'
      BY <1>2, <1>3 DEF StopOK, Worker, Moves, Shows, Working
<1> QED BY <1>4, <1>5, <1>6, StepOfJob

LEMMA LeavesKeeps ==
    ASSUME CatalogInv, TypeInv', NEW j \in Jobs, Leaves(Desktop, j)
    PROVE  CatalogInv'
<1>1. /\ TypeInv /\ WorkerOK(j) /\ StopOK(j)
      /\ Desktop \in Procs /\ Worker(j).chapter \in Chapters
      BY JobIsOK
<1>2. /\ Worker(j).at = "exit" /\ LoopFree(Desktop) /\ UNCHANGED chapter
      /\ Worker(j)' = NoTask /\ TaskGoes(Desktop, j, After(Worker(j)))
      /\ IF (Worker(j).cancel \/ Worker(j).err) /\ Active(j)
         THEN WorkerFailed(j) ELSE UNCHANGED <<job, run>>
      BY <1>1, LeavesDoes DEF Worker, TaskGoes, After, WorkerOK
<1>3. WorkerOK(j)'
      BY <1>2, NoTaskRow DEF WorkerOK
<1>4. CASE Active(j)
  <2>1. WorkerFailed(j)
        BY <1>1, <1>2, <1>4 DEF WorkerOK, Active
  <2>2. /\ Shows(j, "paused_on_failure")
        /\ \/ Unfinished(j) = {} /\ run' = run
           \/ \E c \in Unfinished(j) : RunTurns(j, c, "failed")
        BY <1>1, <2>1, WorkerFailedDoes
  <2>3. Mine(j, {}) /\ Holding(j)
        BY <1>1, <1>2, <2>2, OwnStep, HoldsLoop
  <2>4. Blocking(j)' # {} \/ Unfinished(j)' = {}
    <3>1. CASE Unfinished(j) = {} /\ run' = run
          BY <3>1 DEF Unfinished
    <3>2. ASSUME NEW c \in Unfinished(j), RunTurns(j, c, "failed") PROVE c \in Blocking(j)'
          BY <3>2 DEF RunTurns, Blocking, RunsIn, Unfinished
    <3> QED BY <2>2, <3>1, <3>2
  <2>5. StopOK(j)'
        BY <2>2, <2>4 DEF StopOK, Shows, Working
  <2> QED BY <1>3, <2>3, <2>5, StepOfJob
<1>5. CASE ~Active(j)
  <2>1. UNCHANGED <<job, run>>
        BY <1>2, <1>5
  <2>2. Mine(j, {}) /\ Holding(j)
        BY <1>1, <1>2, <2>1, OwnStep, HoldsLoop
  <2>3. StopOK(j)'
        BY <1>1, <1>2, <1>5, <2>1 DEF StopOK, Active, Blocking, RunsIn, Unfinished
  <2> QED BY <1>2, <1>3, <2>1, <2>2, <2>3, StepOfJob
<1> QED BY <1>4, <1>5

LEMMA LeavesUnrecordedKeeps ==
    ASSUME CatalogInv, TypeInv', NEW j \in Jobs, LeavesUnrecorded(Desktop, j)
    PROVE  CatalogInv'
<1>1. /\ TypeInv /\ WorkerOK(j) /\ StopOK(j)
      /\ Desktop \in Procs /\ Worker(j).chapter \in Chapters
      BY JobIsOK
<1>2. /\ Worker(j).at = "exit" /\ LoopFree(Desktop) /\ UNCHANGED <<chapter, job, run>>
      /\ Worker(j)' = Unheard /\ TaskGoes(Desktop, j, Left(Worker(j)))
      BY <1>1, LeavesUnrecordedDoes DEF Worker, TaskGoes, Left, WorkerOK
<1>3. WorkerOK(j)'
      BY <1>2, UnheardRow DEF WorkerOK
<1>4. Mine(j, {}) /\ Holding(j)
      BY <1>1, <1>2, OwnStep, HoldsLoop
<1>5. StopOK(j)'
      BY <1>1, <1>2, UnheardRow DEF StopOK, Blocking, RunsIn, Unfinished
<1> QED BY <1>2, <1>3, <1>4, <1>5, StepOfJob

(* The older failures that a completed job replaces are cancelled.         *)
LEMMA ReplacedCancelled ==
    ASSUME TypeInv, NEW j \in Jobs, NEW runs, Completed(j, runs),
           \A k \in Jobs \ {j} :
              IF k \in ReplacedBy(j, runs) /\ Worker(k).at # "none"
              THEN Worker(k)'.at = Worker(k).at /\ Worker(k)'.cancel /\ ~Worker(k)'.next
              ELSE Worker(k)' = Worker(k)
    PROVE  Mine(j, ReplacedBy(j, runs))
<1>1. \A k \in ReplacedBy(j, runs) : k \in Jobs /\ k # j
      BY DEF ReplacedBy, Jobs
<1>2. ASSUME NEW k \in ReplacedBy(j, runs) PROVE IsCancelled(k)
      BY <1>1 DEF Completed, IsCancelled
<1>3. ASSUME NEW k \in Jobs \ ({j} \cup ReplacedBy(j, runs)) PROVE Same(k)
      BY DEF Completed, Same
<1> QED BY <1>1, <1>2, <1>3 DEF Mine

LEMMA CompletedStops ==
    ASSUME NEW j \in Jobs, NEW runs, Completed(j, runs)
    PROVE  StopOK(j)'
BY DEF StopOK, Completed, Working

LEMMA CompletesKeeps ==
    ASSUME CatalogInv, TypeInv', NEW j \in Jobs, Completes(Desktop, j)
    PROVE  CatalogInv'
<1>1. /\ TypeInv /\ WorkerOK(j) /\ StopOK(j)
      /\ Desktop \in Procs /\ Worker(j).chapter \in Chapters
      BY JobIsOK
<1> DEFINE R == ReplacedBy(j, run[j])
<1>2. /\ Turning(Desktop, j) /\ Completed(j, run[j]) /\ chapter' = Released(chapter, run[j])
      /\ Worker(j)'.at = "exit" /\ Worker(j)'.cancel = Worker(j).cancel
      /\ Worker(j)'.next = Worker(j).next
      BY <1>1, CompletesDoes DEF Worker
<1>3. \A k \in Jobs \ {j} :
         IF k \in R /\ Worker(k).at # "none"
         THEN Worker(k)'.at = Worker(k).at /\ Worker(k)'.cancel /\ ~Worker(k)'.next
         ELSE Worker(k)' = Worker(k)
      BY <1>1, CompletesDoes DEF Worker
<1>4. Mine(j, R)
      BY <1>1, <1>2, <1>3, ReplacedCancelled
<1>5. Holding(j)
      BY <1>1, <1>2, HoldsLoop DEF Turning, Worker, Awaiting
<1>6. run'[j] = run[j] /\ job'[j].status = "completed"
      BY <1>2 DEF Completed
<1>7. WorkerOK(j)'
      BY <1>1, <1>2, <1>6 DEF WorkerOK, Working, Turning, Worker
<1>8. StopOK(j)'
      BY <1>2, CompletedStops
<1> QED BY <1>4, <1>5, <1>7, <1>8, StepOfJob

-----------------------------------------------------------------------------
(* The steps of the author, the saves and the phone.                       *)

(* An author who waits for the loop finds the worker where it waits, and   *)
(* neither stopping nor cancelled.                                         *)
LEMMA Waiting ==
    ASSUME Alone, CatalogInv, NEW j \in Jobs, Handler(Desktop, j) \/ Coroutine(Desktop, j)
    PROVE  /\ LoopFree(Desktop) /\ Holding(j) /\ ~Worker(j).cancel
           /\ Worker(j).at \in {"none", "queued", "model", "backoff"}
<1>1. LoopFree(Desktop) /\ Unhurried(Desktop, j)
      BY DEF Alone, Handler, Coroutine
<1>2. Worker(j).at \in Awaiting /\ Worker(j).at # "exit" /\ ~Worker(j).cancel
      BY <1>1 DEF LoopFree, Worker, Unhurried, Alone
<1> QED BY <1>1, <1>2, HoldsLoop DEF Awaiting

(* A job that goes on has a task.                                          *)
LEMMA QueuedWorker ==
    ASSUME NEW j \in Jobs, Desktop \in Procs, Queues(Desktop, j), ~Worker(j).cancel
    PROVE  /\ Worker(j)'.at # "none"
           /\ Worker(j)' = Worker(j) \/ Worker(j)' = Queued
BY NoTaskRow DEF Queues, Worker, Queued

LEMMA QueuedOK ==
    ASSUME NEW j \in Jobs, Worker(j)' = Queued
    PROVE  WorkerOK(j)'
BY NoTaskRow DEF WorkerOK, Queued

LEMMA PauseKeeps ==
    ASSUME Alone, CatalogInv, TypeInv', NEW j \in Jobs, Pause(Desktop, j)
    PROVE  CatalogInv'
<1>1. /\ TypeInv /\ WorkerOK(j) /\ StopOK(j)
      /\ Desktop \in Procs /\ Worker(j).chapter \in Chapters
      BY JobIsOK
<1>2. /\ UNCHANGED <<chapter, run>> /\ Shows(j, "paused") /\ Cancels(Desktop, {j})
      /\ Handler(Desktop, j)
      BY <1>1, PauseDoes
<1>3. /\ Holding(j) /\ ~Worker(j).cancel
      /\ Worker(j).at \in {"none", "queued", "model", "backoff"}
      BY <1>2, Waiting
<1>4. Mine(j, {})
      BY <1>1, <1>2, OwnStep
<1>5. /\ Worker(j)'.at = Worker(j).at /\ ~Worker(j)'.next
      /\ Worker(j).at # "none" => Worker(j)'.cancel
      /\ Worker(j).at = "none" => ~Worker(j)'.cancel
      BY <1>1, <1>2, <1>3 DEF Cancels, Worker, WorkerOK
<1>6. WorkerOK(j)'
      BY <1>2, <1>3, <1>5 DEF WorkerOK, Shows, Working
<1>7. StopOK(j)'
      BY <1>2 DEF StopOK, Shows, Working
<1> QED BY <1>2, <1>3, <1>4, <1>6, <1>7, StepOfJob

LEMMA CancelKeeps ==
    ASSUME Alone, CatalogInv, TypeInv', NEW j \in Jobs, Cancel(Desktop, j)
    PROVE  CatalogInv'
<1>1. /\ TypeInv /\ WorkerOK(j) /\ StopOK(j)
      /\ Desktop \in Procs /\ Worker(j).chapter \in Chapters
      BY JobIsOK
<1>2. /\ UNCHANGED <<chapter, run>> /\ Shows(j, "cancelled") /\ Cancels(Desktop, {j})
      /\ Handler(Desktop, j)
      BY <1>1, CancelDoes
<1>3. /\ Holding(j) /\ ~Worker(j).cancel
      /\ Worker(j).at \in {"none", "queued", "model", "backoff"}
      BY <1>2, Waiting
<1>4. Mine(j, {})
      BY <1>1, <1>2, OwnStep
<1>5. /\ Worker(j)'.at = Worker(j).at /\ ~Worker(j)'.next
      /\ Worker(j).at # "none" => Worker(j)'.cancel
      /\ Worker(j).at = "none" => ~Worker(j)'.cancel
      BY <1>1, <1>2, <1>3 DEF Cancels, Worker, WorkerOK
<1>6. WorkerOK(j)'
      BY <1>2, <1>3, <1>5 DEF WorkerOK, Shows, Working
<1>7. StopOK(j)'
      BY <1>2 DEF StopOK, Shows, Working
<1> QED BY <1>2, <1>3, <1>4, <1>6, <1>7, StepOfJob

LEMMA ResumeKeeps ==
    ASSUME Alone, CatalogInv, TypeInv', NEW j \in Jobs, Resume(Desktop, j)
    PROVE  CatalogInv'
<1>1. /\ TypeInv /\ WorkerOK(j) /\ StopOK(j)
      /\ Desktop \in Procs /\ Worker(j).chapter \in Chapters
      BY JobIsOK
<1>2. /\ UNCHANGED <<chapter, run>> /\ Shows(j, "running") /\ Queues(Desktop, j)
      /\ Coroutine(Desktop, j) /\ job[j].status = "paused"
      BY <1>1, ResumeDoes
<1>3. /\ Holding(j) /\ ~Worker(j).cancel
      /\ Worker(j).at \in {"none", "queued", "model", "backoff"}
      BY <1>2, Waiting
<1>4. Mine(j, {})
      BY <1>1, <1>2, OwnStep
<1>5. Worker(j).at \in {"none", "queued"}
      BY <1>1, <1>2, <1>3 DEF WorkerOK, Open, Working
<1>6. Worker(j)'.at # "none" /\ (Worker(j)' = Worker(j) \/ Worker(j)' = Queued)
      BY <1>1, <1>2, <1>3, QueuedWorker
<1>7. WorkerOK(j)'
      BY <1>1, <1>3, <1>5, <1>6, QueuedOK DEF WorkerOK
<1>8. StopOK(j)'
      BY <1>2, <1>6 DEF StopOK, Shows, Working
<1> QED BY <1>2, <1>3, <1>4, <1>7, <1>8, StepOfJob

LEMMA SetModeKeeps ==
    ASSUME Alone, CatalogInv, TypeInv', NEW j \in Jobs, NEW mode \in {"auto", "manual"},
           SetMode(Desktop, j, mode)
    PROVE  CatalogInv'
<1>1. /\ TypeInv /\ WorkerOK(j) /\ StopOK(j) /\ Desktop \in Procs
      BY JobIsOK
<1>2. /\ UNCHANGED <<chapter, run>> /\ Coroutine(Desktop, j)
      /\ \/ /\ job[j].status = "waiting_confirmation"
            /\ Shows(j, "running") /\ Queues(Desktop, j)
         \/ /\ UNCHANGED task
            /\ job'[j].status = job[j].status /\ job'[j].source = job[j].source
            /\ job'[j].op = job[j].op /\ \A k \in Jobs \ {j} : job'[k] = job[k]
      BY <1>1, SetModeDoes
<1>3. /\ Holding(j) /\ ~Worker(j).cancel
      /\ Worker(j).at \in {"none", "queued", "model", "backoff"}
      BY <1>2, Waiting
<1>4. CASE /\ job[j].status = "waiting_confirmation"
           /\ Shows(j, "running") /\ Queues(Desktop, j)
  <2>1. Mine(j, {})
        BY <1>1, <1>2, <1>4, OwnStep
  <2>2. Worker(j)'.at # "none" /\ (Worker(j)' = Worker(j) \/ Worker(j)' = Queued)
        BY <1>1, <1>3, <1>4, QueuedWorker
  <2>3. ASSUME Worker(j)' = Worker(j) PROVE WorkerOK(j)'
        BY <1>1, <1>2, <1>3, <1>4, <2>3 DEF WorkerOK, Shows, Working, Open
  <2>4. WorkerOK(j)'
        BY <2>2, <2>3, QueuedOK
  <2>5. StopOK(j)'
        BY <1>4, <2>2 DEF StopOK, Shows, Working
  <2> QED BY <1>2, <1>3, <2>1, <2>4, <2>5, StepOfJob
<1>5. CASE /\ UNCHANGED task
           /\ job'[j].status = job[j].status /\ job'[j].source = job[j].source
           /\ job'[j].op = job[j].op /\ \A k \in Jobs \ {j} : job'[k] = job[k]
  <2>1. Mine(j, {})
        BY <1>2, <1>5 DEF Mine, Same, Worker
  <2>2. WorkerOK(j)'
        BY <1>1, <1>2, <1>5 DEF WorkerOK, Worker
  <2>3. StopOK(j)'
        BY <1>1, <1>2, <1>5 DEF StopOK, Worker, Blocking, RunsIn, Unfinished
  <2> QED BY <1>2, <1>3, <2>1, <2>2, <2>3, StepOfJob
<1> QED BY <1>2, <1>4, <1>5

(* A control that has the job go on does not touch the run of its worker,  *)
(* unless it leaves it to be extracted.                                    *)
LEMMA ReopensKeeps ==
    ASSUME Alone, CatalogInv, TypeInv', NEW j \in Jobs, NEW S, NEW s, Reopens(Desktop, j, S, s),
           s # "completed", "applying" \notin S, "pending" \notin S,
           "extracting" \in S => s \in {"pending", "extracting"}
    PROVE  CatalogInv'
<1>1. /\ TypeInv /\ WorkerOK(j) /\ StopOK(j)
      /\ Desktop \in Procs /\ Worker(j).chapter \in Chapters
      BY JobIsOK
<1>2. PICK c \in Chapters : run[j][c].status \in S /\ RunTurns(j, c, s)
      BY DEF Reopens
<1>3. UNCHANGED chapter /\ Shows(j, "running") /\ Queues(Desktop, j) /\ Coroutine(Desktop, j)
      BY DEF Reopens
<1>4. /\ Holding(j) /\ ~Worker(j).cancel
      /\ Worker(j).at \in {"none", "queued", "model", "backoff"}
      BY <1>3, Waiting
<1>5. Mine(j, {})
      BY <1>1, <1>2, <1>3, OwnStep
<1>6. Worker(j)'.at # "none" /\ (Worker(j)' = Worker(j) \/ Worker(j)' = Queued)
      BY <1>1, <1>3, <1>4, QueuedWorker
<1>7. ASSUME Worker(j)' = Worker(j) PROVE WorkerOK(j)'
  <2> DEFINE d == Worker(j).chapter
  <2>1. Worker(j).at = "model" => run'[j][d].status \in {"pending", "extracting"}
        BY <1>1, <1>2, <1>4 DEF WorkerOK, RunTurns
  <2>2. Worker(j).at = "backoff" => run'[j][d].status = "applying"
        BY <1>1, <1>2, <1>4 DEF WorkerOK, RunTurns
  <2> QED BY <1>1, <1>3, <1>4, <1>7, <2>1, <2>2 DEF WorkerOK, Shows, Working, Open
<1>8. WorkerOK(j)'
      BY <1>6, <1>7, QueuedOK
<1>9. StopOK(j)'
      BY <1>3, <1>6 DEF StopOK, Shows, Working
<1> QED BY <1>2, <1>3, <1>4, <1>5, <1>8, <1>9, StepOfJob

LEMMA EditPlanKeeps ==
    ASSUME Alone, CatalogInv, TypeInv', NEW j \in Jobs, NEW c \in Chapters,
           NEW plan \in {"partial", "complete"}, EditPlan(j, c, plan)
    PROVE  CatalogInv'
<1>1. /\ TypeInv /\ WorkerOK(j) /\ StopOK(j)
      /\ Desktop \in Procs /\ Worker(j).chapter \in Chapters
      BY JobIsOK
<1>2. /\ Handler(Desktop, j) /\ UNCHANGED <<chapter, job, task>>
      /\ RunTurns(j, c, run[j][c].status)
      BY <1>1, EditPlanDoes
<1>3. Holding(j)
      BY <1>1, <1>2, Waiting
<1>4. Mine(j, {})
      BY <1>1, <1>2, OwnStep
<1>5. \A d \in Chapters : run'[j][d].status = run[j][d].status
      BY <1>2 DEF RunTurns
<1>6. WorkerOK(j)'
      BY <1>1, <1>2, <1>3, <1>5 DEF WorkerOK, Worker
<1>7. Blocking(j)' = Blocking(j) /\ Unfinished(j)' = Unfinished(j)
      /\ RunsIn(j, {"awaiting_confirmation"})' = RunsIn(j, {"awaiting_confirmation"})
      BY <1>5 DEF Blocking, RunsIn, Unfinished
<1>8. StopOK(j)'
      BY <1>1, <1>2, <1>7 DEF StopOK, Worker
<1> QED BY <1>3, <1>4, <1>6, <1>8, StepOfJob

LEMMA RecoverKeeps ==
    ASSUME Alone, CatalogInv, TypeInv', NEW j \in Jobs, Recover(j)
    PROVE  CatalogInv'
<1>1. /\ TypeInv /\ WorkerOK(j) /\ StopOK(j)
      /\ Desktop \in Procs /\ Worker(j).chapter \in Chapters
      BY JobIsOK
<1>2. /\ Handler(Desktop, j) /\ UNCHANGED <<chapter, task>> /\ Shows(j, "waiting_confirmation")
      BY <1>1, RecoverDoes
<1>3. PICK c \in Chapters : run[j][c].status = "failed" /\ RunTurns(j, c, "awaiting_confirmation")
      BY <1>1, RecoverDoes
<1>4. /\ Holding(j) /\ ~Worker(j).cancel
      /\ Worker(j).at \in {"none", "queued", "model", "backoff"}
      BY <1>2, Waiting
<1>5. Mine(j, {})
      BY <1>1, <1>2, <1>3, OwnStep
<1>6. Worker(j).at \in {"model", "backoff"} =>
         run'[j][Worker(j).chapter] = run[j][Worker(j).chapter]
      BY <1>1, <1>3, <1>4 DEF WorkerOK, RunTurns
<1>7. WorkerOK(j)'
  <2>1. Worker(j)' = Worker(j) /\ job'[j].status = "waiting_confirmation"
        BY <1>2 DEF Worker, Shows
  <2> QED BY <1>1, <1>4, <1>6, <2>1 DEF WorkerOK, Open
<1>8. c \in RunsIn(j, {"awaiting_confirmation"})'
      BY <1>3 DEF RunTurns, RunsIn
<1>9. StopOK(j)'
      BY <1>2, <1>8 DEF StopOK, Shows, Working
<1> QED BY <1>2, <1>3, <1>4, <1>5, <1>7, <1>9, StepOfJob

LEMMA ApplyPendingFailsKeeps ==
    ASSUME Alone, CatalogInv, TypeInv', NEW j \in Jobs, NEW c \in Chapters, ApplyPendingFails(Desktop, j, c)
    PROVE  CatalogInv'
<1>1. /\ TypeInv /\ WorkerOK(j) /\ StopOK(j)
      /\ Desktop \in Procs /\ Worker(j).chapter \in Chapters
      BY JobIsOK
<1>2. /\ Coroutine(Desktop, j) /\ UNCHANGED <<chapter, task>> /\ Shows(j, "paused_on_failure")
      /\ run[j][c].status = "awaiting_confirmation" /\ RunTurns(j, c, "failed")
      BY <1>1, ApplyPendingFailsDoes
<1>3. /\ Holding(j) /\ ~Worker(j).cancel
      /\ Worker(j).at \in {"none", "queued", "model", "backoff"}
      BY <1>2, Waiting
<1>4. Mine(j, {})
      BY <1>1, <1>2, OwnStep
<1>5. Worker(j).at \in {"model", "backoff"} =>
         run'[j][Worker(j).chapter] = run[j][Worker(j).chapter]
      BY <1>1, <1>2, <1>3 DEF WorkerOK, RunTurns
<1>6. WorkerOK(j)'
  <2>1. Worker(j)' = Worker(j) /\ job'[j].status = "paused_on_failure"
        BY <1>2 DEF Worker, Shows
  <2> QED BY <1>1, <1>3, <1>5, <2>1 DEF WorkerOK, Open
<1>7. c \in Blocking(j)'
      BY <1>2 DEF RunTurns, Blocking, RunsIn
<1>8. StopOK(j)'
      BY <1>2, <1>7 DEF StopOK, Shows, Working
<1> QED BY <1>2, <1>3, <1>4, <1>6, <1>8, StepOfJob

LEMMA ApplyPendingKeeps ==
    ASSUME Alone, CatalogInv, TypeInv', NEW j \in Jobs, NEW c \in Chapters, ApplyPending(Desktop, j, c)
    PROVE  CatalogInv'
<1>1. /\ TypeInv /\ WorkerOK(j) /\ StopOK(j)
      /\ Desktop \in Procs /\ Worker(j).chapter \in Chapters
      BY JobIsOK
<1> DEFINE R == ReplacedBy(j, run'[j])
<1>2. /\ Coroutine(Desktop, j) /\ run[j][c].status = "awaiting_confirmation"
      /\ RunTurns(j, c, "completed")
      /\ \/ /\ Unfinished(j) = {c} /\ Completed(j, run'[j])
            /\ chapter' = Released(Described(c), run'[j]) /\ Cancels(Desktop, R)
         \/ /\ Shows(j, "running") /\ chapter' = Described(c) /\ Queues(Desktop, j)
      BY <1>1, ApplyPendingDoes
<1>3. /\ Holding(j) /\ ~Worker(j).cancel
      /\ Worker(j).at \in {"none", "queued", "model", "backoff"}
      BY <1>2, Waiting
<1>4. Worker(j).at \in {"model", "backoff"} =>
         /\ run'[j][Worker(j).chapter] = run[j][Worker(j).chapter]
         /\ Worker(j).chapter # c /\ Worker(j).chapter \in Unfinished(j)
      BY <1>1, <1>2, <1>3 DEF WorkerOK, RunTurns, Unfinished, Ended
<1>5. CASE /\ Unfinished(j) = {c} /\ Completed(j, run'[j])
           /\ chapter' = Released(Described(c), run'[j]) /\ Cancels(Desktop, R)
  <2>4. j \notin R
        BY DEF ReplacedBy, Jobs
  <2>5. \A k \in Jobs \ {j} :
           IF k \in R /\ Worker(k).at # "none"
           THEN Worker(k)'.at = Worker(k).at /\ Worker(k)'.cancel /\ ~Worker(k)'.next
           ELSE Worker(k)' = Worker(k)
        BY <1>5 DEF Cancels, Worker
  <2>6. Mine(j, R)
        BY <1>1, <1>5, <2>5, ReplacedCancelled
  <2>7. Worker(j)' = Worker(j) /\ Worker(j).at \in {"none", "queued"}
    <3>1. Worker(j)' = Worker(j)
          BY <1>5, <2>4 DEF Cancels, Worker
    <3> QED BY <1>3, <1>4, <1>5, <3>1
  <2>8. WorkerOK(j)'
        BY <1>1, <1>3, <2>7 DEF WorkerOK
  <2>9. StopOK(j)'
        BY <1>5, CompletedStops
  <2> QED BY <1>3, <2>6, <2>8, <2>9, StepOfJob
<1>6. CASE Shows(j, "running") /\ chapter' = Described(c) /\ Queues(Desktop, j)
  <2>4. Mine(j, {})
        BY <1>1, <1>2, <1>6, OwnStep
  <2>5. Worker(j)'.at # "none" /\ (Worker(j)' = Worker(j) \/ Worker(j)' = Queued)
        BY <1>1, <1>3, <1>6, QueuedWorker
  <2>6. ASSUME Worker(j)' = Worker(j) PROVE WorkerOK(j)'
    <3>1. job'[j].status = "running"
          BY <1>6 DEF Shows
    <3> QED BY <1>1, <1>3, <1>4, <2>6, <3>1 DEF WorkerOK, Working, Open
  <2>7. WorkerOK(j)'
        BY <2>5, <2>6, QueuedOK
  <2>8. StopOK(j)'
        BY <1>6, <2>5 DEF StopOK, Shows, Working
  <2> QED BY <1>3, <2>4, <2>7, <2>8, StepOfJob
<1> QED BY <1>2, <1>5, <1>6

LEMMA StartsKeeps ==
    ASSUME CatalogInv, TypeInv', NEW j \in Jobs, NEW old, Starts(Desktop, j, old)
    PROVE  CatalogInv'
<1>1. TypeInv /\ Desktop \in Procs
      BY JobIsOK
<1>2. /\ LoopFree(Desktop) /\ UNCHANGED chapter /\ job'[j].status = "queued"
      /\ Worker(j)' = Queued
      BY DEF Starts, Worker
<1>3. Mine(j, old)
  <2>1. ASSUME NEW k \in old PROVE k \in Jobs /\ k # j /\ IsCancelled(k)
        BY DEF Starts, IsCancelled, Worker
  <2>2. ASSUME NEW k \in Jobs \ ({j} \cup old) PROVE Same(k)
        BY DEF Starts, Same, Worker
  <2> QED BY <2>1, <2>2 DEF Mine
<1>4. Holding(j)
      BY <1>1, <1>2, HoldsLoop
<1>5. StopOK(j)'
      BY <1>2, NoTaskRow DEF StopOK, Working, Queued
<1> QED BY <1>2, <1>3, <1>4, <1>5, QueuedOK, StepOfJob

(* A phone brings its job while no other is at work.                       *)
LEMMA PhonesKeeps ==
    ASSUME CatalogInv, TypeInv', NEW j \in Jobs, NEW c \in Chapters, NEW v,
           NEW status \in {"completed", "failed"}, MobileRequest(j, c, v),
           Phones(j, c, status)
    PROVE  CatalogInv'
<1>1. TypeInv /\ WorkerOK(j) /\ Desktop \in Procs
      BY JobIsOK
<1>2. LoopFree(Desktop) /\ job[j].status \in Closed \cup {"absent"}
      BY DEF MobileRequest
<1>3. Worker(j)' = Worker(j) /\ job'[j].status = status /\ job'[j].op = status
      BY DEF Phones, Worker
<1>4. Mine(j, {})
      BY DEF Phones, Mine, Same, Worker
<1>5. Holding(j) /\ Worker(j).at \in Awaiting
      BY <1>2, HoldsLoop DEF LoopFree, Worker
<1>6. Worker(j).at \in {"model", "backoff"} => Worker(j).cancel
      BY <1>1, <1>2 DEF WorkerOK, Closed, Open, Working
<1>7. WorkerOK(j)'
      BY <1>1, <1>3, <1>5, <1>6 DEF WorkerOK, Working, Awaiting
<1>8. StopOK(j)'
  <2>1. OperationStatus(status) = status
        BY DEF OperationStatus
  <2> QED BY <1>3, <2>1 DEF StopOK, Working
<1> QED BY <1>4, <1>5, <1>7, <1>8, StepOfJob

LEMMA MobileCommitKeeps ==
    ASSUME CatalogInv, TypeInv', NEW j \in Jobs, NEW c \in Chapters, MobileCommit(j, c)
    PROVE  CatalogInv'
<1>1. MobileRequest(j, c, chapter[c].version) /\ Phones(j, c, "completed")
      BY JobIsOK, MobileCommitDoes
<1> QED BY <1>1, PhonesKeeps

LEMMA MobileRefusedKeeps ==
    ASSUME CatalogInv, TypeInv', NEW j \in Jobs, NEW c \in Chapters, NEW v \in 1 .. MaxVersion,
           MobileRefused(j, c, v)
    PROVE  CatalogInv'
<1>1. MobileRequest(j, c, v) /\ Phones(j, c, "failed")
      BY JobIsOK, MobileRefusedDoes
<1> QED BY <1>1, PhonesKeeps

LEMMA PolishKeeps ==
    ASSUME CatalogInv, TypeInv', NEW c \in Chapters, Polish(c)
    PROVE  CatalogInv'
<1>1. TypeInv
      BY DEF CatalogInv
<1>2. UNCHANGED <<job, run, task>>
      BY <1>1, PolishDoes
<1>3. \A k \in Jobs : JobOK(k)'
      BY <1>1, <1>2, SameKept DEF CatalogInv, Same, Worker
<1>4. LoopAlone'
      BY <1>2 DEF CatalogInv, LoopAlone, Worker
<1> QED BY <1>3, <1>4 DEF CatalogInv

(* A rewrite ends the runs of what it takes out of the archive.            *)
LEMMA RewriteKeeps ==
    ASSUME CatalogInv, TypeInv', NEW c \in Chapters, Rewrite(c)
    PROVE  CatalogInv'
<1> DEFINE S == {d \in Chapters : d >= c}
<1>1. TypeInv /\ Desktop \in Procs
      BY CatalogingAssumption DEF CatalogInv
<1>2. /\ LoopFree(Desktop)
      /\ \A j \in Jobs : IF j \in Invalidated(S) THEN job'[j].status = "cancelled"
                         ELSE job'[j] = job[j]
      /\ \A j \in Jobs, d \in Chapters :
            IF d \in S /\ run[j][d].status # "absent"
            THEN run'[j][d].status = "skipped_by_user"
            ELSE run'[j][d] = run[j][d]
      /\ Cancels(Desktop, Invalidated(S))
      BY <1>1, RewriteDoes
<1> HIDE DEF S
<1>4. ASSUME NEW j \in Jobs PROVE Worker(j)'.at = Worker(j).at /\ Worker(j).at \in Awaiting
      BY <1>2 DEF Cancels, Worker, LoopFree
<1>5. LoopAlone'
      BY <1>4 DEF LoopAlone
<1>6. ASSUME NEW j \in Jobs PROVE JobOK(j)'
  <2>1. WorkerOK(j) /\ StopOK(j)
        BY JobIsOK
  <2>3. CASE j \in Invalidated(S)
    <3>1. job'[j].status = "cancelled"
          BY <1>2, <2>3
    <3>2. IF Worker(j).at # "none" THEN Worker(j)'.cancel /\ ~Worker(j)'.next
          ELSE Worker(j)' = Worker(j)
          BY <1>2, <2>3 DEF Cancels, Worker
    <3>3. WorkerOK(j)'
          BY <1>4, <2>1, <3>1, <3>2 DEF WorkerOK, Working, Awaiting
    <3>4. StopOK(j)'
          BY <3>1 DEF StopOK, Working
    <3> QED BY <3>3, <3>4 DEF JobOK
  <2>4. CASE j \notin Invalidated(S)
    <3>1. \A d \in Chapters : run'[j][d] = run[j][d]
          BY <1>2, <2>4 DEF Invalidated
    <3>2. job'[j] = job[j] /\ Worker(j)' = Worker(j)
          BY <1>2, <2>4 DEF Cancels, Worker
    <3>3. Worker(j).chapter \in Chapters /\ Worker(j).at # "applied"
          BY <1>4, JobIsOK DEF Awaiting
    <3>4. WorkerOK(j)'
          BY <2>1, <3>1, <3>2, <3>3 DEF WorkerOK
    <3>5. /\ Blocking(j)' = Blocking(j) /\ Unfinished(j)' = Unfinished(j)
          /\ RunsIn(j, {"awaiting_confirmation"})' = RunsIn(j, {"awaiting_confirmation"})
          BY <3>1 DEF Blocking, RunsIn, Unfinished
    <3>6. StopOK(j)'
          BY <2>1, <3>2, <3>5 DEF StopOK
    <3> QED BY <3>4, <3>6 DEF JobOK
  <2> QED BY <2>3, <2>4
<1> QED BY <1>5, <1>6 DEF CatalogInv

(* After a start no job says it works but a phone's.                       *)
LEMMA RestartKeeps ==
    ASSUME CatalogInv, TypeInv', Restart(Desktop)
    PROVE  CatalogInv'
<1>1. TypeInv /\ Desktop \in Procs
      BY CatalogingAssumption DEF CatalogInv
<1>2. Restarts /\ \A j \in Jobs : Worker(j)' = NoTask
      BY <1>1, RestartDoes DEF Worker
<1>3. LoopAlone'
      BY <1>2, NoTaskRow DEF LoopAlone, Awaiting
<1>4. ASSUME NEW j \in Jobs PROVE JobOK(j)'
  <2>1. StopOK(j)
        BY JobIsOK
  <2>2. WorkerOK(j)'
        BY <1>2, NoTaskRow DEF WorkerOK
  <2>3. CASE Lost(j)
    <3>1. /\ job'[j].status = "paused_on_failure"
          /\ job'[j].op = OperationStatus("paused_on_failure")
          /\ \/ Unfinished(j) = {} /\ run'[j] = run[j]
             \/ \E c \in Unfinished(j) :
                   /\ run'[j][c].status = "failed" /\ run'[j][c].version = run[j][c].version
                   /\ \A d \in Chapters \ {c} : run'[j][d] = run[j][d]
          BY <1>2, <2>3 DEF Restarts
    <3>2. Blocking(j)' # {} \/ Unfinished(j)' = {}
          BY <3>1 DEF Blocking, RunsIn, Unfinished
    <3>3. StopOK(j)'
          BY <3>1, <3>2 DEF StopOK, Working
    <3> QED BY <2>2, <3>3 DEF JobOK
  <2>4. CASE ~Lost(j)
    <3>1. /\ job'[j].status = job[j].status /\ job'[j].source = job[j].source
          /\ job[j].status \notin Working => job'[j].op = OperationStatus(job[j].status)
          /\ run'[j] = run[j]
          BY <1>2, <2>4 DEF Restarts
    <3>2. StopOK(j)'
          BY <2>1, <2>4, <3>1 DEF StopOK, Lost, Blocking, RunsIn, Unfinished
    <3> QED BY <2>2, <3>2 DEF JobOK
  <2> QED BY <2>3, <2>4
<1> QED BY <1>3, <1>4 DEF CatalogInv

-----------------------------------------------------------------------------
(* What holds of the jobs of an author who waits for the loop.             *)

LEMMA InitInv == Init => CatalogInv
<1> SUFFICES ASSUME Init PROVE CatalogInv
    OBVIOUS
<1>1. TypeInv /\ Desktop \in Procs
      BY InitTyped, CatalogingAssumption
<1>2. /\ \A j \in Jobs : Worker(j) = NoTask /\ job[j] = AbsentJob
      /\ \A j \in Jobs, c \in Chapters : run[j][c] = AbsentRun
      BY <1>1 DEF Init, Worker
<1>3. LoopAlone
      BY <1>2, NoTaskRow DEF LoopAlone, Awaiting
<1>4. ASSUME NEW j \in Jobs PROVE JobOK(j)
  <2>1. WorkerOK(j)
        BY <1>2, NoTaskRow DEF WorkerOK
  <2>2. StopOK(j)
        BY <1>2 DEF StopOK, AbsentJob, Working
  <2> QED BY <2>1, <2>2 DEF JobOK
<1> QED BY <1>1, <1>3, <1>4 DEF CatalogInv

LEMMA ProgressKeeps ==
    ASSUME Alone, CatalogInv, TypeInv', NEW j \in Jobs, Progress(Desktop, j)
    PROVE  CatalogInv'
BY BeginKeeps, VanishKeeps, StopsKeeps, CompletesKeeps, PausesKeeps, ExtractsKeeps,
   CallStoppedKeeps, CallFailsKeeps, TakesOverKeeps, ReviewGoesOn, FinalizePlanKeeps,
   WaitsForAuthorKeeps, StartsApplyingKeeps, AppliesKeeps, ApplyFailsKeeps, ApplyRaisesKeeps,
   BacksOffKeeps, TriesAgainKeeps, FinishesKeeps, UnwindsKeeps, LeavesKeeps, LeavesUnrecordedKeeps
   DEF Progress

LEMMA AuthorKeeps ==
    ASSUME Alone, CatalogInv, TypeInv', NEW j \in Jobs, AuthorNext(Desktop, j)
    PROVE  CatalogInv'
<1>1. TypeInv /\ Desktop \in Procs
      BY JobIsOK
<1>2. CASE StartManual(Desktop, j)
  <2>1. PICK S \in SUBSET Chapters \ {{}}, mode \in {"auto", "manual"} :
            Start(Desktop, j, S, mode, "manual")
        BY <1>2 DEF StartManual
  <2> QED BY <1>1, <2>1, StartStarts, StartsKeeps
<1>3. CASE Retry(Desktop, j)
  <2>1. PICK s \in {"extracting", "pending"} :
            Reopens(Desktop, j, {"failed", "awaiting_confirmation", "extracting"}, s)
        BY <1>1, <1>3, RetryDoes
  <2> QED BY <2>1, ReopensKeeps
<1>4. CASE Repair(Desktop, j)
  <2>1. Reopens(Desktop, j, {"extracting", "awaiting_confirmation", "failed", "completed"},
                "extracting")
        BY <1>1, <1>4, RepairDoes
  <2> QED BY <2>1, ReopensKeeps
<1>5. CASE Skip(Desktop, j)
  <2>1. Reopens(Desktop, j, {"failed", "awaiting_confirmation"}, "skipped_by_user")
        BY <1>1, <1>5, SkipDoes
  <2> QED BY <2>1, ReopensKeeps
<1> QED BY <1>2, <1>3, <1>4, <1>5, PauseKeeps, ResumeKeeps, CancelKeeps, SetModeKeeps,
           ApplyPendingKeeps, ApplyPendingFailsKeeps DEF AuthorNext

LEMMA SavedKeeps ==
    ASSUME CatalogInv, TypeInv', NEW j \in Jobs, StartSaved(j)
    PROVE  CatalogInv'
<1>1. TypeInv /\ Desktop \in Procs
      BY JobIsOK
<1>2. PICK c \in Chapters :
          LET suffix == {d \in Chapters : d >= c /\ chapter[d].required} IN
          Start(Desktop, j, IF suffix = {} THEN {c} ELSE suffix, "auto", "save")
      BY DEF StartSaved
<1> DEFINE S == IF {d \in Chapters : d >= c /\ chapter[d].required} = {} THEN {c}
                ELSE {d \in Chapters : d >= c /\ chapter[d].required}
<1>3. S \in SUBSET Chapters /\ Start(Desktop, j, S, "auto", "save")
      BY <1>2
<1> HIDE DEF S
<1> QED BY <1>1, <1>3, StartStarts, StartsKeeps

LEMMA NextKeeps ==
    ASSUME Alone, CatalogInv, [Next]_vars
    PROVE  CatalogInv'
<1>1. TypeInv'
      BY StaysTyped DEF CatalogInv
<1>2. CASE Next
  <2>1. ASSUME NEW p \in Procs, NEW j \in Jobs, Progress(p, j) \/ AuthorNext(p, j)
        PROVE  CatalogInv'
        BY <1>1, <2>1, OneProcess, ProgressKeeps, AuthorKeeps
  <2>2. ASSUME NEW p \in Procs, NEW j \in Jobs, NEW c \in Chapters, SavePlan(p, j, c)
        PROVE  CatalogInv'
        BY <1>1, <2>2, OneProcess, SavePlanKeeps
  <2>3. ASSUME NEW p \in Procs, Restart(p) PROVE CatalogInv'
        BY <1>1, <2>3, OneProcess, RestartKeeps
  <2>4. ASSUME NEW j \in Jobs, NEW c \in Chapters,
               \/ \E plan \in {"partial", "complete"} : EditPlan(j, c, plan)
               \/ MobileCommit(j, c)
               \/ \E v \in 1 .. MaxVersion : MobileRefused(j, c, v)
        PROVE  CatalogInv'
        BY <1>1, <2>4, EditPlanKeeps, MobileCommitKeeps, MobileRefusedKeeps
  <2> QED BY <1>1, <1>2, <2>1, <2>2, <2>3, <2>4, SavedKeeps, RecoverKeeps, PolishKeeps,
             RewriteKeeps DEF Next
<1>3. CASE UNCHANGED vars
  <2>1. UNCHANGED <<chapter, job, run, task>>
        BY <1>3 DEF vars
  <2>2. \A k \in Jobs : JobOK(k)'
        BY <1>1, <2>1, SameKept DEF CatalogInv, Same, Worker
  <2>3. LoopAlone'
        BY <2>1 DEF CatalogInv, LoopAlone, Worker
  <2> QED BY <1>1, <2>2, <2>3 DEF CatalogInv
<1> QED BY <1>2, <1>3

(* Where workers are fits with what their jobs and runs say.               *)
THEOREM CatalogingInvariant == Alone /\ Spec => []CatalogInv
<1>1. Alone /\ CatalogInv /\ [Next]_vars => CatalogInv'
      BY NextKeeps
<1>2. Alone => Alone'
      BY DEF Alone
<1> QED BY <1>1, <1>2, InitInv, PTL DEF Spec

(* A job that stopped for a failure has a run to retry or to skip, one     *)
(* that stopped for a review a plan to confirm.                            *)
THEOREM StopHasRunHolds == Alone /\ Spec => []StopHasRun
<1>1. CatalogInv => StopHasRun
      BY DEF CatalogInv, JobOK, StopOK, StopHasRun
<1> QED BY <1>1, CatalogingInvariant, PTL

(* A job that no worker is about to change shows its status in its         *)
(* operation.                                                              *)
THEOREM OperationFollowsJobHolds == Alone /\ Spec => []OperationFollowsJob
<1>1. CatalogInv => OperationFollowsJob
  <2> SUFFICES ASSUME CatalogInv, NEW j \in Jobs, \A p \in Procs : task[p][j].at = "none",
                      job[j].status \notin Working \cup {"absent", "cancelled"}
               PROVE  job[j].op = OperationStatus(job[j].status)
      BY DEF OperationFollowsJob
  <2>1. StopOK(j) /\ Worker(j).at = "none"
        BY JobIsOK DEF Worker
  <2> QED BY <2>1 DEF StopOK
<1> QED BY <1>1, CatalogingInvariant, PTL

(* A job that says it works has a task: queued, at work or stopping; or    *)
(* had one whose failure could not be recorded.                            *)
THEOREM WorkingHasWorkerHolds == Alone /\ Spec => []WorkingHasWorker
<1>1. CatalogInv => WorkingHasWorker
  <2> SUFFICES ASSUME CatalogInv, NEW j \in Jobs,
                      job[j].status \in Working, job[j].source # "mobile"
               PROVE  Unrecorded(j) \/ \E p \in Procs : task[p][j].at # "none"
      BY DEF WorkingHasWorker
  <2>1. StopOK(j) /\ Desktop \in Procs
        BY JobIsOK
  <2> QED BY <2>1 DEF StopOK, Worker, Unrecorded
<1> QED BY <1>1, CatalogingInvariant, PTL

-----------------------------------------------------------------------------
(* What the author cancelled.                                              *)

Stands == \A j \in Jobs : job[j].status = "cancelled" /\ job[j].source # "mobile"
                             => job'[j].status = "cancelled"

(* The job of a step was not cancelled, or is; others stay or are.         *)
LEMMA StandsBut ==
    ASSUME NEW j \in Jobs,
           \/ job[j].status # "cancelled" \/ job[j].source = "mobile"
           \/ job'[j].status = job[j].status \/ job'[j].status = "cancelled",
           \A k \in Jobs \ {j} : job'[k] = job[k] \/ job'[k].status = "cancelled"
    PROVE  Stands
BY DEF Stands

LEMMA CompletedStands ==
    ASSUME NEW j \in Jobs, NEW runs, Completed(j, runs), job[j].status # "cancelled"
    PROVE  Stands
<1>1. \A k \in Jobs \ {j} : job'[k] = job[k] \/ job'[k].status = "cancelled"
      BY DEF Completed
<1> QED BY <1>1, StandsBut

LEMMA WorkerStands ==
    ASSUME CatalogInv, NEW j \in Jobs, Progress(Desktop, j)
    PROVE  Stands
<1>1. TypeInv /\ Desktop \in Procs /\ WorkerOK(j)
      BY JobIsOK
<1> DEFINE Own == /\ \A k \in Jobs \ {j} : job'[k] = job[k]
                  /\ \/ job[j].status # "cancelled"
                     \/ job'[j].status = job[j].status
<1>2. CASE Begin(Desktop, j) \/ Vanish(Desktop, j) \/ CallStopped(Desktop, j)
           \/ ReviewStops(Desktop, j) \/ Applies(Desktop, j) \/ ApplyRaises(Desktop, j)
           \/ BacksOff(Desktop, j) \/ TriesAgain(Desktop, j) \/ Unwinds(Desktop, j)
           \/ LeavesUnrecorded(Desktop, j)
  <2>1. job' = job
        BY <1>2 DEF Begin, Vanish, CallStopped, ReviewStops, Applies, ApplyRaises, BacksOff,
                    TriesAgain, Unwinds, LeavesUnrecorded
  <2> QED BY <2>1 DEF Stands
<1>3. CASE Stops(Desktop, j)
  <2>1. Own
        BY <1>1, <1>3, StopsDoes DEF Shows
  <2> QED BY <2>1, StandsBut
<1>4. CASE Completes(Desktop, j)
  <2>1. Completed(j, run[j]) /\ job[j].status # "cancelled"
        BY <1>1, <1>4, CompletesDoes DEF Turning, Closed
  <2> QED BY <2>1, CompletedStands
<1>5. CASE Pauses(Desktop, j)
  <2>1. Own
        BY <1>1, <1>5, PausesDoes DEF Shows, Turning, Closed
  <2> QED BY <2>1, StandsBut
<1>6. CASE Extracts(Desktop, j)
  <2>1. Own
        BY <1>1, <1>6, ExtractsDoes DEF Sets, Turning, Closed
  <2> QED BY <2>1, StandsBut
<1>7. CASE CallFails(Desktop, j)
  <2>1. Active(j)
        BY <1>7 DEF CallFails
  <2>2. Own
        BY <1>1, <1>7, <2>1, CallFailsDoes DEF Sets, Active, Working
  <2> QED BY <2>2, StandsBut
<1>8. CASE TakesOver(Desktop, j)
  <2>1. Own
        BY <1>1, <1>8, TakesOverDoes DEF Sets, WorkerOK, Worker
  <2> QED BY <2>1, StandsBut
<1>9. ASSUME NEW c \in Chapters, FinalizePlan(Desktop, j, c) PROVE Stands
  <2>1. Own
        BY <1>1, <1>9, FinalizePlanDoes DEF Sets, Submits, Active, Working
  <2> QED BY <2>1, StandsBut
<1>10. ASSUME NEW c \in Chapters, WaitsForAuthor(Desktop, j, c) PROVE Stands
  <2>1. Own
        BY <1>1, <1>10, WaitsForAuthorDoes DEF Shows, Turning, Closed
  <2> QED BY <2>1, StandsBut
<1>11. ASSUME NEW c \in Chapters, StartsApplying(Desktop, j, c) PROVE Stands
  <2>1. Own
        BY <1>1, <1>11, StartsApplyingDoes DEF Sets, Active, Working
  <2> QED BY <2>1, StandsBut
<1>12. CASE ApplyFails(Desktop, j)
  <2>1. Own
        BY <1>1, <1>12, ApplyFailsDoes DEF Shows, Active, Working
  <2> QED BY <2>1, StandsBut
<1>13. CASE Finishes(Desktop, j)
  <2>1. Own
        BY <1>1, <1>13, FinishesDoes DEF Shows
  <2> QED BY <2>1, StandsBut
<1>14. CASE Leaves(Desktop, j)
  <2>1. (Active(j) /\ WorkerFailed(j)) \/ job' = job
        BY <1>1, <1>14, LeavesDoes
  <2>2. Own
        BY <1>1, <2>1, WorkerFailedDoes DEF Shows, Active, Working
  <2> QED BY <2>2, StandsBut
<1> QED BY <1>2, <1>3, <1>4, <1>5, <1>6, <1>7, <1>8, <1>9, <1>10, <1>11, <1>12, <1>13, <1>14
        DEF Progress

LEMMA AuthorStands ==
    ASSUME CatalogInv, NEW j \in Jobs, AuthorNext(Desktop, j)
    PROVE  Stands
<1>1. TypeInv /\ Desktop \in Procs
      BY JobIsOK
<1> DEFINE Own == /\ \A k \in Jobs \ {j} : job'[k] = job[k]
                  /\ \/ job[j].status # "cancelled"
                     \/ job'[j].status = job[j].status \/ job'[j].status = "cancelled"
<1>2. CASE StartManual(Desktop, j)
  <2>1. PICK S \in SUBSET Chapters \ {{}}, mode \in {"auto", "manual"} :
            Start(Desktop, j, S, mode, "manual")
        BY <1>2 DEF StartManual
  <2>2. Starts(Desktop, j, {})
        BY <1>1, <2>1, StartStarts
  <2> QED BY <2>2, StandsBut DEF Starts
<1>3. CASE Pause(Desktop, j)
  <2>1. Own
        BY <1>1, <1>3, PauseDoes DEF Shows
  <2> QED BY <2>1, StandsBut
<1>4. CASE Resume(Desktop, j)
  <2>1. Own
        BY <1>1, <1>4, ResumeDoes DEF Shows
  <2> QED BY <2>1, StandsBut
<1>5. CASE Cancel(Desktop, j)
  <2>1. Own
        BY <1>1, <1>5, CancelDoes DEF Shows
  <2> QED BY <2>1, StandsBut
<1>6. ASSUME NEW mode \in {"auto", "manual"}, SetMode(Desktop, j, mode) PROVE Stands
  <2>1. Own
        BY <1>1, <1>6, SetModeDoes DEF Shows
  <2> QED BY <2>1, StandsBut
<1>7. CASE Retry(Desktop, j)
  <2>1. Own
        BY <1>1, <1>7, RetryDoes DEF Reopens, Shows
  <2> QED BY <2>1, StandsBut
<1>8. CASE Repair(Desktop, j)
  <2>1. Own
        BY <1>1, <1>8, RepairDoes DEF Reopens, Shows
  <2> QED BY <2>1, StandsBut
<1>9. CASE Skip(Desktop, j)
  <2>1. Own
        BY <1>1, <1>9, SkipDoes DEF Reopens, Shows, Reviewable
  <2> QED BY <2>1, StandsBut
<1>10. ASSUME NEW c \in Chapters, ApplyPending(Desktop, j, c) PROVE Stands
  <2>1. /\ job[j].status # "cancelled"
        /\ Completed(j, run'[j]) \/ Shows(j, "running")
        BY <1>1, <1>10, ApplyPendingDoes
  <2>2. Shows(j, "running") => Own
        BY <2>1 DEF Shows
  <2> QED BY <2>1, <2>2, CompletedStands, StandsBut
<1>11. ASSUME NEW c \in Chapters, ApplyPendingFails(Desktop, j, c) PROVE Stands
  <2>1. Own
        BY <1>1, <1>11, ApplyPendingFailsDoes DEF Shows
  <2> QED BY <2>1, StandsBut
<1> QED BY <1>2, <1>3, <1>4, <1>5, <1>6, <1>7, <1>8, <1>9, <1>10, <1>11 DEF AuthorNext

LEMMA NextStands ==
    ASSUME Alone, CatalogInv, Next
    PROVE  Stands
<1>1. TypeInv /\ Desktop \in Procs
      BY CatalogingAssumption DEF CatalogInv
<1>2. ASSUME NEW p \in Procs, NEW j \in Jobs, Progress(p, j) \/ AuthorNext(p, j) PROVE Stands
      BY <1>2, OneProcess, WorkerStands, AuthorStands
<1>3. ASSUME NEW p \in Procs, NEW j \in Jobs, NEW c \in Chapters, SavePlan(p, j, c)
      PROVE  Stands
  <2>1. job[j].status # "cancelled" /\ \A k \in Jobs \ {j} : job'[k] = job[k]
        BY <1>1, <1>3, SavePlanDoes DEF Sets, Submits, Active, Working
  <2> QED BY <2>1, StandsBut
<1>4. ASSUME NEW j \in Jobs, StartSaved(j) PROVE Stands
  <2>1. PICK c \in Chapters :
            LET suffix == {d \in Chapters : d >= c /\ chapter[d].required} IN
            Start(Desktop, j, IF suffix = {} THEN {c} ELSE suffix, "auto", "save")
        BY <1>4 DEF StartSaved
  <2> DEFINE S == IF {d \in Chapters : d >= c /\ chapter[d].required} = {} THEN {c}
                  ELSE {d \in Chapters : d >= c /\ chapter[d].required}
  <2>2. S \in SUBSET Chapters /\ Start(Desktop, j, S, "auto", "save")
        BY <2>1
  <2> HIDE DEF S
  <2>3. PICK old : Starts(Desktop, j, old)
        BY <1>1, <2>2, StartStarts
  <2> QED BY <2>3, StandsBut DEF Starts
<1>5. ASSUME NEW j \in Jobs, Recover(j) PROVE Stands
  <2>1. job[j].status # "cancelled" /\ \A k \in Jobs \ {j} : job'[k] = job[k]
        BY <1>1, <1>5, RecoverDoes DEF Shows, Reviewable
  <2> QED BY <2>1, StandsBut
<1>6. ASSUME NEW j \in Jobs, NEW c \in Chapters, NEW plan \in {"partial", "complete"},
             EditPlan(j, c, plan)
      PROVE  Stands
      BY <1>6 DEF EditPlan, Stands
<1>7. ASSUME NEW j \in Jobs, NEW c \in Chapters, NEW v, NEW status,
             MobileRequest(j, c, v), Phones(j, c, status)
      PROVE  Stands
  <2>1. job[j].status # "cancelled" \/ job[j].source = "mobile"
        BY <1>7 DEF MobileRequest, NextJob
  <2>2. \A k \in Jobs \ {j} : job'[k] = job[k]
        BY <1>7 DEF Phones
  <2> QED BY <2>1, <2>2, StandsBut
<1>8. ASSUME NEW j \in Jobs, NEW c \in Chapters,
             MobileCommit(j, c) \/ \E v \in 1 .. MaxVersion : MobileRefused(j, c, v)
      PROVE  Stands
      BY <1>1, <1>7, <1>8, MobileCommitDoes, MobileRefusedDoes
<1>9. ASSUME NEW c \in Chapters, Polish(c) \/ Rewrite(c) PROVE Stands
  <2>1. CASE Polish(c)
        BY <2>1 DEF Polish, Stands
  <2>2. CASE Rewrite(c)
        BY <1>1, <2>2, RewriteDoes DEF Stands
  <2> QED BY <1>9, <2>1, <2>2
<1>10. ASSUME NEW p \in Procs, Restart(p) PROVE Stands
  <2>1. Restarts
        BY <1>1, <1>10, OneProcess, RestartDoes
  <2> QED BY <2>1 DEF Restarts, Stands, Lost, Working
<1> QED BY <1>2, <1>3, <1>4, <1>5, <1>6, <1>8, <1>9, <1>10 DEF Next

(* No worker brings a job back that its author cancelled: one that had     *)
(* finalized a plan takes the job over only as it left it.                 *)
THEOREM CancelStandsHolds == Alone /\ Spec => CancelStands
<1>1. Alone /\ CatalogInv /\ [Next]_vars =>
         [\A j \in Jobs : job[j].status = "cancelled" /\ job[j].source # "mobile"
             => job'[j].status = "cancelled"]_vars
      BY NextStands DEF Stands
<1>2. Alone => Alone'
      BY DEF Alone
<1> QED BY <1>1, <1>2, CatalogingInvariant, PTL DEF Spec, CancelStands
===============================================================================
