------------------------- MODULE ContentMirrorProofs ------------------------
(***************************************************************************)
(* What is proved of the mirror, for any tables and keys, any number of    *)
(* threads, tries, failures and restarts: once the outbox is settled, the  *)
(* files are what the rows are.                                            *)
(*                                                                         *)
(* The argument is about each row of the mirror that is not adrift.  Its   *)
(* file is as the row wants it and no thread is about to write anything    *)
(* else, or a job that is open will make it so: one that gives a row that  *)
(* is there its text, or takes the file of a row that is gone, and that    *)
(* nobody runs, or whose thread has read what the row wants or has yet to  *)
(* read (FilesInv).  It needs that the threads that run jobs run different *)
(* ones and write different rows (FlightInv), that an open removal is of a *)
(* row that is gone (RemovalsInv), and that the project comes back with    *)
(* its own entry only, which takes every row that its deletion took        *)
(* (ProjectEntries).                                                       *)
(***************************************************************************)
EXTENDS RecycleBinProofs, FiniteSetTheorems


(***************************************************************************)
(* Numbers and folds                                                       *)
(***************************************************************************)
(* How many elements of a set are below one of them.                       *)
Below(S, i) == {j \in S : j < i}

(* Numbers of a finite set have ranks, and each rank is taken.             *)
LEMMA RanksAreTaken ==
    ASSUME NEW S \in SUBSET Nat, IsFiniteSet(S)
    PROVE  /\ Cardinality(S) \in Nat
           /\ \A n \in 1..Cardinality(S) : \E i \in S : Cardinality(Below(S, i)) = n - 1
<1> DEFINE N == Cardinality(S)
           rank == [i \in S |-> Cardinality(Below(S, i))]
<1>1. N \in Nat
    BY FS_CardinalityType
<1>2. ASSUME NEW i \in S
      PROVE  IsFiniteSet(Below(S, i)) /\ Cardinality(Below(S, i)) \in 0..(N - 1)
    <2>1. Below(S, i) \in SUBSET S /\ Below(S, i) # S
        <3>1. i \notin Below(S, i)
            BY DEF Below
        <3> QED
            BY <3>1 DEF Below
    <2>2. IsFiniteSet(Below(S, i)) /\ Cardinality(Below(S, i)) <= N
          /\ Cardinality(Below(S, i)) # N
        BY <2>1, FS_Subset
    <2>3. Cardinality(Below(S, i)) \in Nat
        BY <2>2, FS_CardinalityType
    <2> QED
        BY <1>1, <2>2, <2>3
<1>3. ASSUME NEW i \in S, NEW j \in S, i < j
      PROVE  Cardinality(Below(S, i)) # Cardinality(Below(S, j))
    <2>1. Below(S, i) \in SUBSET Below(S, j)
        <3>1. ASSUME NEW k \in S, k < i PROVE k < j
            <4>1. i \in Nat /\ j \in Nat /\ k \in Nat
                OBVIOUS
            <4> QED
                BY <1>3, <3>1, <4>1
        <3> QED
            BY <3>1 DEF Below
    <2>2. i \in Below(S, j) /\ i \notin Below(S, i)
        BY <1>3 DEF Below
    <2>3. IsFiniteSet(Below(S, j))
        BY <1>2
    <2>4. Cardinality(Below(S, i)) = Cardinality(Below(S, j)) => Below(S, i) = Below(S, j)
        BY <2>1, <2>3, FS_Subset
    <2> QED
        BY <2>2, <2>4
<1>4. ASSUME NEW i \in S, NEW j \in S, rank[i] = rank[j] PROVE i = j
    <2>1. Cardinality(Below(S, i)) = Cardinality(Below(S, j))
        BY <1>4
    <2>2. ~(i < j) /\ ~(j < i)
        BY <1>3, <2>1
    <2>3. i \in Nat /\ j \in Nat
        OBVIOUS
    <2> QED
        BY <2>2, <2>3
<1>5. rank \in [S -> 0..(N - 1)]
    BY <1>2
<1>6. rank \in Injection(S, 0..(N - 1))
    BY <1>4, <1>5 DEF Injection, IsInjective
<1>7. IsFiniteSet(0..(N - 1)) /\ Cardinality(0..(N - 1)) = N
    <2>1. 0 \in Int /\ N - 1 \in Int
        BY <1>1
    <2>2. IsFiniteSet(0..(N - 1))
          /\ Cardinality(0..(N - 1)) = IF 0 > N - 1 THEN 0 ELSE (N - 1) - 0 + 1
        BY <2>1, FS_Interval
    <2> QED
        BY <1>1, <2>2
<1>8. rank \in Surjection(S, 0..(N - 1))
    BY <1>6, <1>7, FS_Injection
<1>9. \A k \in 0..(N - 1) : \E i \in S : rank[i] = k
    BY <1>8 DEF Surjection
<1>10. \A n \in 1..N : n - 1 \in 0..(N - 1)
    BY <1>1
<1>11. \A i \in S : rank[i] = Cardinality(Below(S, i))
    OBVIOUS
<1> HIDE DEF rank
<1> QED
    BY <1>1, <1>9, <1>10, <1>11

(* A finite set of numbers in order has its elements only.                 *)
LEMMA InOrderIsOf ==
    ASSUME NEW S \in SUBSET Nat, IsFiniteSet(S)
    PROVE  /\ Cardinality(S) \in Nat
           /\ DOMAIN InOrder(S) = 1..Cardinality(S)
           /\ InOrder(S) \in Seq(S)
<1>1. Cardinality(S) \in Nat
    BY RanksAreTaken
<1>2. ASSUME NEW n \in 1..Cardinality(S)
      PROVE  (CHOOSE i \in S : Cardinality({j \in S : j < i}) = n - 1) \in S
    <2>1. \E i \in S : Cardinality({j \in S : j < i}) = n - 1
        BY RanksAreTaken DEF Below
    <2> QED
        BY <2>1
<1>3. InOrder(S) \in [1..Cardinality(S) -> S]
    BY <1>2 DEF InOrder
<1> QED
    BY <1>1, <1>3

(* A finite set of numbers that is not empty has a largest one.            *)
LEMMA MaxIsIn ==
    ASSUME NEW S \in SUBSET Nat, IsFiniteSet(S), S # {}
    PROVE  Max(S) \in S
<1> DEFINE N == Cardinality(S)
<1>1. N \in Nat /\ N # 0
    BY FS_CardinalityType, FS_EmptySet
<1>2. PICK i \in S : Cardinality(Below(S, i)) = N - 1
    BY <1>1, RanksAreTaken
<1>3. ASSUME NEW j \in S, i < j PROVE FALSE
    <2>1. Below(S, i) \cup {i} \in SUBSET S /\ j \notin Below(S, i) \cup {i}
        BY <1>3 DEF Below
    <2>2. IsFiniteSet(Below(S, i)) /\ i \notin Below(S, i)
        BY FS_Subset, Below(S, i) \in SUBSET S DEF Below
    <2>3. Cardinality(Below(S, i) \cup {i}) = N
        <3>1. Cardinality(Below(S, i) \cup {i}) = Cardinality(Below(S, i)) + 1
            BY <2>2, FS_AddElement
        <3> QED
            BY <1>1, <1>2, <3>1
    <2>4. Below(S, i) \cup {i} = S
        BY <2>1, <2>3, FS_Subset
    <2> QED
        BY <2>1, <2>4
<1>4. \A j \in S : i >= j
    BY <1>3
<1>5. \E x \in S : \A y \in S : x >= y
    BY <1>4
<1> QED
    BY <1>5 DEF Max

(* The outbox takes two jobs one after the other.                          *)
Folded(js, new) == FoldLeft(Enqueued, js, new)

Stepwise(js, new) ==
    IF DOMAIN new = {} THEN js
    ELSE IF DOMAIN new = {1} THEN Enqueued(js, new[1])
    ELSE Enqueued(Enqueued(js, new[1]), new[2])

(* Of the folds of the outbox, none is over more than two jobs.            *)
LEMMA FoldSteps ==
    ASSUME NEW js, NEW new,
           DOMAIN new \in {{}, {1}, {1, 2}}
    PROVE  Folded(js, new) = Stepwise(js, new)
<1> DEFINE D == DOMAIN new
           Is(it) == it = [s \in SUBSET D |->
                      IF s = {} THEN js
                      ELSE LET x == Max(s) IN Enqueued(it[s \ {x}], new[x])]
           it == CHOOSE iter : Is(iter)
           one(x) == Enqueued(js, new[x])
           g == [s \in SUBSET D |->
                    IF s = {} THEN js
                    ELSE IF s = {1} THEN one(1)
                    ELSE IF s = {2} THEN one(2)
                    ELSE Enqueued(one(1), new[2])]
<1>1. Folded(js, new) = it[D]
    BY Zenon DEF Folded, FoldLeft, MapThenFoldSet
<1>2. Max({1}) = 1 /\ Max({2}) = 2 /\ Max({1, 2}) = 2
    <2>1. IsFiniteSet({1}) /\ IsFiniteSet({2})
        BY FS_Singleton
    <2>2. Max({1}) \in {1} /\ Max({2}) \in {2}
        BY <2>1, MaxIsIn
    <2>3. Max({1, 2}) = CHOOSE x \in {1, 2} : \A y \in {1, 2} : x >= y
        BY DEF Max
    <2>4. \A y \in {1, 2} : 2 >= y
        OBVIOUS
    <2>5. Max({1, 2}) \in {1, 2} /\ \A y \in {1, 2} : Max({1, 2}) >= y
        BY <2>3, <2>4
    <2> QED
        BY <2>2, <2>5
<1>3. \A s \in SUBSET D : s = {} \/ s = {1} \/ s = {2} \/ s = {1, 2}
    OBVIOUS
<1>4. {1} \ {1} = {} /\ {2} \ {2} = {} /\ {1, 2} \ {2} = {1}
    OBVIOUS
<1>5. ASSUME NEW s \in SUBSET D
      PROVE  g[s] = IF s = {} THEN js
                    ELSE LET x == Max(s) IN Enqueued(g[s \ {x}], new[x])
    <2>1. CASE s = {}
        BY <2>1
    <2>2. CASE s = {1}
        <3>1. g[s] = one(1) /\ g[{}] = js
            BY <2>2
        <3> QED
            BY <1>2, <1>4, <2>2, <3>1
    <2>3. CASE s = {2}
        <3>1. g[s] = one(2) /\ g[{}] = js
            BY <2>3
        <3> QED
            BY <1>2, <1>4, <2>3, <3>1
    <2>4. CASE s = {1, 2}
        <3>1. g[s] = Enqueued(one(1), new[2]) /\ g[{1}] = one(1)
            BY <2>4
        <3> QED
            BY <1>2, <1>4, <2>4, <3>1
    <2> QED
        BY <1>3, <2>1, <2>2, <2>3, <2>4
<1>6. Is(g)
    <2>1. g = [s \in SUBSET D |-> g[s]]
        OBVIOUS
    <2> HIDE DEF g
    <2> QED
        BY <1>5, <2>1
<1>7. Is(it)
    BY <1>6, Zenon
<1> HIDE DEF it
<1>8. it[{}] = js
    BY <1>7
<1>9. 1 \in D => it[{1}] = Enqueued(it[{}], new[1])
    <2> SUFFICES ASSUME 1 \in D PROVE it[{1}] = Enqueued(it[{}], new[1])
        OBVIOUS
    <2>1. {1} \in SUBSET D /\ {1} # {}
        OBVIOUS
    <2>2. it[{1}] = LET x == Max({1}) IN Enqueued(it[{1} \ {x}], new[x])
        BY <1>7, <2>1
    <2> QED
        BY <1>2, <1>4, <2>2
<1>10. D = {1, 2} => it[{1, 2}] = Enqueued(it[{1}], new[2])
    <2> SUFFICES ASSUME D = {1, 2} PROVE it[{1, 2}] = Enqueued(it[{1}], new[2])
        OBVIOUS
    <2>1. {1, 2} \in SUBSET D /\ {1, 2} # {}
        OBVIOUS
    <2>2. it[{1, 2}] = LET x == Max({1, 2}) IN Enqueued(it[{1, 2} \ {x}], new[x])
        BY <1>7, <2>1
    <2> QED
        BY <1>2, <1>4, <2>2
<1> HIDE DEF Is
<1>11. CASE D = {}
    BY <1>1, <1>8, <1>11 DEF Stepwise
<1>12. CASE D = {1}
    <2>1. D # {}
        BY <1>12
    <2> QED
        BY <1>1, <1>8, <1>9, <1>12, <2>1 DEF Stepwise
<1>13. CASE D = {1, 2}
    <2>1. D # {} /\ D # {1}
        BY <1>13
    <2> QED
        BY <1>1, <1>8, <1>9, <1>10, <1>13, <2>1 DEF Stepwise
<1> QED
    BY <1>11, <1>12, <1>13

(***************************************************************************)
(* The outbox and the threads that run it                                  *)
(***************************************************************************)
EndStatuses == {"completed", "cancelled"}

RemovalKinds == {"file_delete", "project_delete"}

JobType ==
    {job \in [kind : {"chapter", "project"} \cup RemovalKinds, row : Mirrored, path : BOOLEAN,
              status : {"running"} \cup OpenStatuses \cup EndStatuses, tries : Nat] :
        job.kind \in {"project", "project_delete"} => job.row = Project}

Views == {<<>>} \cup UNION {[S -> Texts \cup {None}] : S \in SUBSET Mirrored}

ThreadType ==
    [todo : Seq(Nat), at : {"rest", "looked", "taken", "gathered", "written"},
     seen : JobType \cup {None}, view : Views]

OutboxInv ==
    /\ jobs \in Seq(JobType)
    /\ threads \in [Workers -> ThreadType]
    /\ \A t \in Workers :
          /\ \A k \in DOMAIN threads[t].todo : threads[t].todo[k] \in DOMAIN jobs
          /\ threads[t].at # "rest" => threads[t].todo # <<>>

InFlight(t) == threads[t].at \in {"taken", "gathered", "written"}

Gathered(t) == threads[t].at = "gathered"

JobOf(t) == jobs[Head1(t)]

SeenFits(t) ==
    threads[t].at = "looked" =>
        /\ threads[t].seen \in JobType /\ threads[t].seen.status \notin EndStatuses
        /\ threads[t].seen.kind = JobOf(t).kind /\ threads[t].seen.row = JobOf(t).row

ViewFits(t) == Gathered(t) => DOMAIN threads[t].view \subseteq Covers(JobOf(t))

Claimed(t) ==
    InFlight(t) => JobOf(t).status = "running" \/ Covers(JobOf(t)) \subseteq adrift

Apart(t, u) ==
    /\ InFlight(t) /\ InFlight(u) /\ Head1(t) = Head1(u) => Covers(JobOf(t)) \subseteq adrift
    /\ Gathered(t) /\ Gathered(u) =>
           DOMAIN threads[t].view \cap DOMAIN threads[u].view \subseteq adrift

(* A thread runs a job another thread does not run, and writes rows another *)
(* does not write, but for rows that are adrift.                           *)
FlightInv ==
    /\ \A t \in Workers : SeenFits(t) /\ ViewFits(t) /\ Claimed(t)
    /\ \A t, u \in Workers : t # u => Apart(t, u)

(* A job of the outbox.                                                    *)
LEMMA JobsAreTyped ==
    ASSUME NEW js \in Seq(JobType), NEW i \in DOMAIN js
    PROVE  js[i] \in JobType
    OBVIOUS

(* What a thread has to run are jobs of the outbox.                        *)
LEMMA HeadIsJob ==
    ASSUME OutboxInv, NEW t \in Workers, threads[t].todo # <<>>
    PROVE  /\ Head1(t) \in DOMAIN jobs /\ JobOf(t) \in JobType
           /\ Tail(threads[t].todo) \in Seq(Nat)
           /\ \A k \in DOMAIN Tail(threads[t].todo) :
                 Tail(threads[t].todo)[k] \in DOMAIN jobs
<1>1. threads[t] \in ThreadType /\ threads[t].todo \in Seq(Nat)
    BY DEF OutboxInv, ThreadType
<1> DEFINE todo == threads[t].todo
<1>2. \A k \in DOMAIN todo : todo[k] \in DOMAIN jobs
    BY DEF OutboxInv
<1>3. todo \in Seq(Nat) /\ todo # <<>>
    BY <1>1
<1> HIDE DEF todo
<1>4. /\ 1 \in DOMAIN todo /\ Head(todo) = todo[1] /\ Tail(todo) \in Seq(Nat)
      /\ \A k \in DOMAIN Tail(todo) : k + 1 \in DOMAIN todo /\ Tail(todo)[k] = todo[k + 1]
    BY <1>3
<1>5. Head(todo) \in DOMAIN jobs /\ \A k \in DOMAIN Tail(todo) : Tail(todo)[k] \in DOMAIN jobs
    BY <1>2, <1>4
<1>6. jobs[Head(todo)] \in JobType
    BY <1>5, JobsAreTyped DEF OutboxInv
<1> QED
    BY <1>4, <1>5, <1>6 DEF todo, Head1, JobOf

(* Jobs of one kind and row write the same rows.                           *)
LEMMA SameCovers ==
    ASSUME NEW a, NEW b, a.kind = b.kind, a.row = b.row
    PROVE  Covers(a) = Covers(b)
    BY DEF Covers

(* What the steps of one thread leave of the others.                       *)
ThreadSteps(t) ==
    /\ \A u \in Workers \ {t} : threads'[u] = threads[u]
    /\ jobs' \in Seq(JobType) /\ DOMAIN jobs' = DOMAIN jobs
    /\ \A i \in DOMAIN jobs :
          /\ jobs'[i].kind = jobs[i].kind /\ jobs'[i].row = jobs[i].row
          /\ jobs'[i].status # jobs[i].status =>
                \/ jobs'[i].status = "running"
                \/ InFlight(t) /\ Head1(t) = i
    /\ adrift \subseteq adrift'

(* A step of one thread leaves the others as far as they were, on the jobs *)
(* they ran, and apart from each other.                                    *)
LEMMA StepKeepsOthers ==
    ASSUME OutboxInv, FlightInv, NEW t \in Workers, ThreadSteps(t)
    PROVE  /\ \A u \in Workers \ {t} :
                 /\ threads[u].todo # <<>> =>
                       /\ Head1(u)' = Head1(u) /\ Head1(u) \in DOMAIN jobs
                       /\ Covers(JobOf(u))' = Covers(JobOf(u))
                 /\ SeenFits(u)' /\ ViewFits(u)' /\ Claimed(u)'
                 /\ InFlight(u)' = InFlight(u) /\ Gathered(u)' = Gathered(u)
           /\ \A u, v \in Workers \ {t} : u # v => Apart(u, v)'
<1>1. ASSUME NEW u \in Workers \ {t}, threads[u].todo # <<>>
      PROVE  /\ Head1(u)' = Head1(u) /\ Head1(u) \in DOMAIN jobs
             /\ Covers(JobOf(u))' = Covers(JobOf(u))
             /\ JobOf(u)'.kind = JobOf(u).kind /\ JobOf(u)'.row = JobOf(u).row
    <2>1. Head1(u) \in DOMAIN jobs
        BY <1>1, HeadIsJob
    <2>2. Head1(u)' = Head1(u)
        BY DEF ThreadSteps, Head1
    <2>3. JobOf(u)' = jobs'[Head1(u)]
        BY <2>2 DEF JobOf
    <2>4. JobOf(u)'.kind = JobOf(u).kind /\ JobOf(u)'.row = JobOf(u).row
        BY <2>1, <2>3 DEF ThreadSteps, JobOf
    <2>5. Covers(JobOf(u)') = Covers(JobOf(u))
        BY <2>4, SameCovers
    <2> QED
        BY <2>1, <2>2, <2>4, <2>5 DEF Covers, Mirrored
<1>2. ASSUME NEW u \in Workers \ {t}
      PROVE  InFlight(u)' = InFlight(u) /\ Gathered(u)' = Gathered(u)
    BY DEF ThreadSteps, InFlight, Gathered
<1>3. ASSUME NEW u \in Workers \ {t}
      PROVE  SeenFits(u)' /\ ViewFits(u)' /\ Claimed(u)'
    <2>1. CASE threads[u].at = "rest"
        <3>1. threads'[u].at = "rest"
            BY <2>1 DEF ThreadSteps
        <3> QED
            BY <3>1 DEF SeenFits, ViewFits, Claimed, InFlight, Gathered
    <2>2. CASE threads[u].at # "rest"
        <3>1. threads[u].todo # <<>> /\ threads'[u] = threads[u]
            BY <2>2 DEF OutboxInv, ThreadSteps
        <3>2. SeenFits(u) /\ ViewFits(u) /\ Claimed(u) /\ Apart(t, u)
            BY DEF FlightInv
        <3>3. SeenFits(u)'
            BY <1>1, <3>1, <3>2 DEF SeenFits
        <3>4. ViewFits(u)'
            BY <1>1, <1>2, <3>1, <3>2 DEF ViewFits
        <3>5. Claimed(u)'
            <4> SUFFICES ASSUME InFlight(u), ~(Covers(JobOf(u)) \subseteq adrift)
                         PROVE  JobOf(u)'.status = "running"
                BY <1>1, <1>2, <3>1 DEF Claimed, ThreadSteps
            <4>1. JobOf(u).status = "running"
                BY <3>2 DEF Claimed
            <4>2. ~(InFlight(t) /\ Head1(t) = Head1(u))
                BY <3>2 DEF Apart, JobOf
            <4>3. JobOf(u)' = jobs'[Head1(u)] /\ Head1(u) \in DOMAIN jobs
                BY <1>1, <3>1 DEF JobOf
            <4> QED
                BY <4>1, <4>2, <4>3 DEF ThreadSteps, JobOf
        <3> QED
            BY <3>3, <3>4, <3>5
    <2> QED
        BY <2>1, <2>2
<1>4. ASSUME NEW u \in Workers \ {t}, NEW v \in Workers \ {t}, u # v
      PROVE  Apart(u, v)'
    <2>1. Apart(u, v)
        BY <1>4 DEF FlightInv
    <2>2. threads'[u] = threads[u] /\ threads'[v] = threads[v] /\ adrift \subseteq adrift'
        BY DEF ThreadSteps
    <2>3. ASSUME InFlight(u), InFlight(v), Head1(u)' = Head1(v)'
          PROVE  Covers(JobOf(u))' \subseteq adrift'
        <3>1. threads[u].todo # <<>> /\ threads[v].todo # <<>>
            BY <2>3 DEF OutboxInv, InFlight
        <3>2. Head1(u) = Head1(v)
            BY <1>1, <2>3, <3>1
        <3>3. Covers(JobOf(u)) \subseteq adrift
            BY <2>1, <2>3, <3>2 DEF Apart
        <3> QED
            BY <1>1, <2>2, <3>1, <3>3
    <2>4. ASSUME Gathered(u), Gathered(v)
          PROVE  (DOMAIN threads[u].view \cap DOMAIN threads[v].view)' \subseteq adrift'
        BY <2>1, <2>2, <2>4 DEF Apart
    <2> QED
        BY <1>2, <2>3, <2>4 DEF Apart
<1> QED
    BY <1>1, <1>2, <1>3, <1>4

(* A job with another status is the job of the same row.                   *)
LEMMA StatusIsTyped ==
    ASSUME NEW job \in JobType, NEW status \in {"running"} \cup OpenStatuses \cup EndStatuses,
           NEW tries \in Nat
    PROVE  /\ [job EXCEPT !.status = status] \in JobType
           /\ [job EXCEPT !.status = status].status = status
           /\ [job EXCEPT !.status = status, !.tries = tries] \in JobType
           /\ [job EXCEPT !.status = status, !.tries = tries].status = status
           /\ [job EXCEPT !.status = status].kind = job.kind
           /\ [job EXCEPT !.status = status].row = job.row
           /\ [job EXCEPT !.status = status].path = job.path
           /\ [job EXCEPT !.status = status, !.tries = tries].kind = job.kind
           /\ [job EXCEPT !.status = status, !.tries = tries].row = job.row
           /\ [job EXCEPT !.status = status, !.tries = tries].path = job.path
    BY DEF JobType

(* Only the head of a thread is written: its status and its tries.         *)
WritesHead(t, status) ==
    /\ jobs' \in Seq(JobType) /\ DOMAIN jobs' = DOMAIN jobs
    /\ \A i \in DOMAIN jobs :
          /\ jobs'[i].kind = jobs[i].kind /\ jobs'[i].row = jobs[i].row
          /\ jobs'[i].path = jobs[i].path
          /\ i # Head1(t) => jobs'[i] = jobs[i]
    /\ jobs'[Head1(t)].status = status

(* The two writes of a job: of its status, and of its status and tries.    *)
LEMMA HeadWrites ==
    ASSUME OutboxInv, NEW t \in Workers, threads[t].todo # <<>>,
           NEW status \in {"running"} \cup OpenStatuses \cup EndStatuses, NEW tries \in Nat,
           \/ jobs' = [jobs EXCEPT ![Head1(t)] = [JobOf(t) EXCEPT !.status = status]]
           \/ jobs' = [jobs EXCEPT ![Head1(t)] =
                           [JobOf(t) EXCEPT !.status = status, !.tries = tries]]
    PROVE  WritesHead(t, status)
<1>1. Head1(t) \in DOMAIN jobs /\ JobOf(t) \in JobType /\ jobs \in Seq(JobType)
    BY HeadIsJob DEF OutboxInv
<1>2. PICK job \in JobType :
          /\ jobs' = [jobs EXCEPT ![Head1(t)] = job]
          /\ job.status = status
          /\ job.kind = JobOf(t).kind /\ job.row = JobOf(t).row /\ job.path = JobOf(t).path
    <2>1. PICK old \in JobType : old = JobOf(t)
        BY <1>1
    <2> DEFINE a == [old EXCEPT !.status = status]
               b == [old EXCEPT !.status = status, !.tries = tries]
    <2>2. /\ a \in JobType /\ a.status = status
          /\ a.kind = old.kind /\ a.row = old.row /\ a.path = old.path
        BY StatusIsTyped
    <2>3. /\ b \in JobType /\ b.status = status
          /\ b.kind = old.kind /\ b.row = old.row /\ b.path = old.path
        BY DEF JobType
    <2>4. jobs' = [jobs EXCEPT ![Head1(t)] = a] \/ jobs' = [jobs EXCEPT ![Head1(t)] = b]
        BY <2>1
    <2> HIDE DEF a, b
    <2> QED
        BY <2>1, <2>2, <2>3, <2>4
<1> QED
    BY <1>1, <1>2 DEF JobOf, WritesHead

(* The end of a job writes its status.                                     *)
LEMMA EndsWrites ==
    ASSUME OutboxInv, NEW t \in Workers, threads[t].todo # <<>>,
           NEW status \in {"running"} \cup OpenStatuses \cup EndStatuses, Ends(t, status)
    PROVE  WritesHead(t, status)
<1>1. jobs' = [jobs EXCEPT ![Head1(t)] = [JobOf(t) EXCEPT !.status = status]]
    BY HeadIsJob DEF Ends, JobOf
<1> QED
    BY <1>1, HeadWrites, 0 \in Nat

(* The commit of a job as running writes its status, unless it was seen    *)
(* running.                                                                *)
LEMMA TakeWrites ==
    ASSUME OutboxInv, FlightInv, NEW t \in Workers, Take(t)
    PROVE  /\ threads[t].todo # <<>>
           /\ WritesHead(t, IF threads[t].seen.status = "running"
                            THEN JobOf(t).status ELSE "running")
<1>1. threads[t].todo # <<>> /\ threads[t].seen \in JobType
    BY DEF Take, OutboxInv, FlightInv, SeenFits
<1> DEFINE status == IF threads[t].seen.status = "running" THEN JobOf(t).status ELSE "running"
           tries == threads[t].seen.tries + 1
<1>2. Head1(t) \in DOMAIN jobs /\ JobOf(t) \in JobType /\ jobs \in Seq(JobType)
    BY <1>1, HeadIsJob DEF OutboxInv
<1>3. status \in {"running"} \cup OpenStatuses \cup EndStatuses /\ tries \in Nat
    BY <1>1, <1>2 DEF JobType
<1>4. jobs' = [jobs EXCEPT ![Head1(t)] = [JobOf(t) EXCEPT !.status = status, !.tries = tries]]
    BY <1>2 DEF Take, JobOf, JobType
<1> HIDE DEF status, tries
<1>5. WritesHead(t, status)
    BY <1>1, <1>3, <1>4, HeadWrites
<1> QED
    BY <1>1, <1>5 DEF status

(* A thread that is written keeps to the jobs there are.                   *)
LEMMA ThreadIsTyped ==
    ASSUME OutboxInv, NEW t \in Workers, NEW x \in ThreadType,
           \A k \in DOMAIN x.todo : x.todo[k] \in DOMAIN jobs,
           x.at # "rest" => x.todo # <<>>,
           threads' = [threads EXCEPT ![t] = x],
           jobs' \in Seq(JobType), DOMAIN jobs' = DOMAIN jobs
    PROVE  /\ OutboxInv'
           /\ threads'[t] = x /\ \A u \in Workers \ {t} : threads'[u] = threads[u]
<1>1. threads \in [Workers -> ThreadType]
    BY DEF OutboxInv
<1>2. threads' \in [Workers -> ThreadType] /\ threads'[t] = x
      /\ \A u \in Workers \ {t} : threads'[u] = threads[u]
    BY <1>1
<1>3. ASSUME NEW u \in Workers
      PROVE  /\ \A k \in DOMAIN threads'[u].todo : threads'[u].todo[k] \in DOMAIN jobs'
             /\ threads'[u].at # "rest" => threads'[u].todo # <<>>
    <2>1. CASE u = t
        BY <1>2, <2>1
    <2>2. CASE u # t
        BY <1>2, <2>2 DEF OutboxInv
    <2> QED
        BY <2>1, <2>2
<1> QED
    BY <1>2, <1>3 DEF OutboxInv, Workers

(* The states of a thread.                                                 *)
LEMMA RestIsTyped ==
    ASSUME NEW todo \in Seq(Nat)
    PROVE  /\ [Resting EXCEPT !.todo = todo] \in ThreadType
           /\ [Resting EXCEPT !.todo = todo].todo = todo
           /\ [Resting EXCEPT !.todo = todo].at = "rest"
           /\ Resting \in ThreadType /\ Resting.todo = <<>> /\ Resting.at = "rest"
    BY DEF Resting, ThreadType, Views

(* A thread that is done with a job goes on to the next.                   *)
LEMMA NextIsTyped ==
    ASSUME OutboxInv, NEW t \in Workers, threads[t].todo # <<>>
    PROVE  /\ Next1(t) \in ThreadType /\ Next1(t).at = "rest"
           /\ \A k \in DOMAIN Next1(t).todo : Next1(t).todo[k] \in DOMAIN jobs
<1>1. Tail(threads[t].todo) \in Seq(Nat)
      /\ \A k \in DOMAIN Tail(threads[t].todo) : Tail(threads[t].todo)[k] \in DOMAIN jobs
    BY HeadIsJob
<1> QED
    BY <1>1, RestIsTyped DEF Next1

(* The texts a job reads.                                                  *)
LEMMA ProjectionIsTyped ==
    ASSUME BinInv, NEW job \in JobType
    PROVE  Projection(job) \in Views /\ DOMAIN Projection(job) \subseteq Covers(job)
<1>1. Mirrored \subseteq Rows
    BY TablesFit, ProjectOwnsAll DEF Mirrored
<1>2. Covers(job) \subseteq Mirrored
    BY DEF Covers, JobType
<1>3. CASE job.kind = "project_delete"
    <2>1. Projection(job) = [r \in Mirrored |-> None]
        BY <1>3 DEF Projection
    <2>2. Projection(job) \in [Mirrored -> Texts \cup {None}]
        BY <2>1
    <2> QED
        BY <1>3, <2>1, <2>2 DEF Views, Covers
<1>4. CASE job.kind = "file_delete"
    <2>1. Projection(job) = IF job.path THEN [r \in {job.row} |-> None] ELSE <<>>
        BY <1>4 DEF Projection
    <2>2. Covers(job) = {job.row} /\ job.row \in Mirrored
        BY <1>4 DEF Covers, JobType
    <2>3. CASE job.path
        <3>1. Projection(job) = [r \in {job.row} |-> None]
            BY <2>1, <2>3
        <3>2. Projection(job) \in [{job.row} -> Texts \cup {None}]
            BY <3>1
        <3>3. {job.row} \in SUBSET Mirrored
            BY <2>2
        <3> QED
            BY <2>2, <3>1, <3>2, <3>3 DEF Views
    <2>4. CASE ~job.path
        <3>1. Projection(job) = <<>>
            BY <2>1, <2>4
        <3>2. DOMAIN <<>> = {}
            OBVIOUS
        <3> QED
            BY <3>1, <3>2 DEF Views
    <2> QED
        BY <2>3, <2>4
<1>5. CASE job.kind \notin RemovalKinds
    <2> DEFINE S == Covers(job) \cap Here(rows)
    <2>1. Projection(job) = [r \in S |-> rows[r].text]
        BY <1>5 DEF Projection, RemovalKinds
    <2>2. ASSUME NEW r \in S PROVE rows[r].text \in Texts
        <3>1. r \in Rows /\ rows[r] \in Row
            BY DEF Here, BinInv, Tables
        <3> QED
            BY <3>1 DEF Row
    <2>3. S \in SUBSET Mirrored /\ S \subseteq Covers(job)
        BY <1>2
    <2> HIDE DEF S
    <2>4. Projection(job) \in [S -> Texts \cup {None}] /\ DOMAIN Projection(job) = S
        BY <2>1, <2>2
    <2> QED
        BY <2>3, <2>4 DEF Views
<1> QED
    BY <1>3, <1>4, <1>5 DEF RemovalKinds

(* A step keeps the threads apart when it keeps its own thread apart from  *)
(* each.                                                                   *)
LEMMA FlightFromOwn ==
    ASSUME OutboxInv, FlightInv, NEW t \in Workers, ThreadSteps(t),
           SeenFits(t)', ViewFits(t)', Claimed(t)',
           \A u \in Workers \ {t} : Apart(t, u)'
    PROVE  FlightInv'
<1>1. \A u \in Workers : SeenFits(u)' /\ ViewFits(u)' /\ Claimed(u)'
    BY StepKeepsOthers
<1>2. ASSUME NEW u \in Workers, NEW v \in Workers, u # v PROVE Apart(u, v)'
    <2>1. CASE u # t /\ v # t
        BY <1>2, <2>1, StepKeepsOthers
    <2>2. CASE u = t
        BY <1>2, <2>2
    <2>3. CASE v = t
        <3>1. Apart(v, u)'
            BY <1>2, <2>3
        <3> QED
            BY <3>1 DEF Apart, JobOf
    <2> QED
        BY <2>1, <2>2, <2>3
<1> QED
    BY <1>1, <1>2 DEF FlightInv, Workers

(* A thread that runs no job is in no one's way.                           *)
LEMMA GroundedKeepsFlight ==
    ASSUME OutboxInv, FlightInv, NEW t \in Workers, ThreadSteps(t),
           threads'[t].at \in {"rest", "looked"}, SeenFits(t)'
    PROVE  FlightInv'
<1>1. ViewFits(t)' /\ Claimed(t)' /\ \A u \in Workers \ {t} : Apart(t, u)'
    BY DEF ViewFits, Claimed, Apart, InFlight, Gathered
<1> QED
    BY <1>1, FlightFromOwn

(* One that runs the job it ran stays apart from those it was apart from.  *)
LEMMA FlownKeepsApart ==
    ASSUME OutboxInv, FlightInv, NEW t \in Workers, ThreadSteps(t), NEW u \in Workers \ {t},
           InFlight(t), threads'[t].todo = threads[t].todo,
           InFlight(u), Head1(t)' = Head1(u)'
    PROVE  Covers(JobOf(t))' \subseteq adrift'
<1>1. threads[t].todo # <<>> /\ threads[u].todo # <<>>
    BY DEF OutboxInv, InFlight
<1>2. Head1(t)' = Head1(t)
    BY DEF Head1
<1>3. Head1(u)' = Head1(u)
    BY <1>1, StepKeepsOthers
<1>4. Covers(JobOf(t)) \subseteq adrift
    BY <1>2, <1>3 DEF FlightInv, Apart
<1>5. JobOf(t)' = jobs'[Head1(t)] /\ Head1(t) \in DOMAIN jobs
    BY <1>1, <1>2, HeadIsJob DEF JobOf
<1>6. Covers(JobOf(t)') = Covers(JobOf(t))
    BY <1>5, SameCovers DEF ThreadSteps, JobOf
<1>7. Covers(JobOf(t))' = Covers(JobOf(t)')
    BY DEF Covers, Mirrored
<1> QED
    BY <1>4, <1>6, <1>7 DEF ThreadSteps

(* Looking at a job starts nothing.                                        *)
LEMMA LookKeeps ==
    ASSUME OutboxInv, FlightInv, NEW t \in Workers, Look(t)
    PROVE  /\ OutboxInv' /\ FlightInv'
           /\ \A u \in Workers \ {t} : threads'[u] = threads[u]
           /\ threads'[t].at \in {"rest", "looked"}
<1>1. threads[t].todo # <<>> /\ threads[t] \in ThreadType
    BY DEF Look, OutboxInv
<1>2. Head1(t) \in DOMAIN jobs /\ JobOf(t) \in JobType
    BY <1>1, HeadIsJob
<1> DEFINE ended == JobOf(t).status \in EndStatuses \/ JobOf(t).tries >= TryLimit
           looked == [threads[t] EXCEPT !.at = "looked", !.seen = JobOf(t)]
           x == IF ended THEN Next1(t) ELSE looked
<1>3. threads' = [threads EXCEPT ![t] = x]
    BY DEF Look, JobOf, EndStatuses, OutboxInv
<1>4. looked \in ThreadType /\ looked.todo = threads[t].todo /\ looked.at = "looked"
      /\ looked.seen = JobOf(t)
    BY <1>1, <1>2 DEF ThreadType
<1>5. Next1(t) \in ThreadType /\ Next1(t).at = "rest"
      /\ \A k \in DOMAIN Next1(t).todo : Next1(t).todo[k] \in DOMAIN jobs
    BY <1>1, NextIsTyped
<1>6. \A k \in DOMAIN threads[t].todo : threads[t].todo[k] \in DOMAIN jobs
    BY DEF OutboxInv
<1>7. jobs' = jobs /\ adrift' = adrift /\ jobs \in Seq(JobType)
    BY DEF Look, OutboxInv
<1>8. x \in ThreadType /\ (x.at # "rest" => x.todo # <<>>) /\ x.at \in {"rest", "looked"}
      /\ \A k \in DOMAIN x.todo : x.todo[k] \in DOMAIN jobs
    <2> HIDE DEF looked, ended
    <2> QED
        BY <1>1, <1>4, <1>5, <1>6
<1>9. x.at = "looked" => ~ended /\ x.todo = threads[t].todo /\ x.seen = JobOf(t)
    <2> HIDE DEF looked, ended
    <2> QED
        BY <1>4, <1>5
<1>10. ~ended => JobOf(t).status \notin EndStatuses
    OBVIOUS
<1> HIDE DEF x, ended
<1>11. OutboxInv' /\ threads'[t] = x /\ \A u \in Workers \ {t} : threads'[u] = threads[u]
    BY <1>3, <1>7, <1>8, ThreadIsTyped
<1>12. ThreadSteps(t)
    BY <1>7, <1>11 DEF ThreadSteps
<1>13. SeenFits(t)'
    BY <1>2, <1>7, <1>9, <1>10, <1>11 DEF SeenFits, JobOf, Head1
<1>14. FlightInv'
    BY <1>8, <1>11, <1>12, <1>13, GroundedKeepsFlight
<1> QED
    BY <1>8, <1>11, <1>14

(* A job that another thread runs, or that has ended since it was seen,    *)
(* sets its rows adrift when it is taken.                                  *)
LEMMA TakeKeeps ==
    ASSUME OutboxInv, FlightInv, NEW t \in Workers, Take(t)
    PROVE  /\ OutboxInv' /\ FlightInv'
           /\ \A u \in Workers \ {t} : threads'[u] = threads[u]
           /\ threads'[t].at = "taken"
<1>1. threads[t].todo # <<>> /\ threads[t] \in ThreadType /\ threads[t].at = "looked"
    BY DEF Take, OutboxInv
<1>2. Head1(t) \in DOMAIN jobs /\ JobOf(t) \in JobType
    BY <1>1, HeadIsJob
<1> DEFINE seen == threads[t].seen
           x == [threads[t] EXCEPT !.at = "taken", !.seen = None]
<1>3. seen \in JobType /\ seen.status \notin EndStatuses
      /\ seen.kind = JobOf(t).kind /\ seen.row = JobOf(t).row
    BY <1>1 DEF FlightInv, SeenFits
<1>4. WritesHead(t, IF seen.status = "running" THEN JobOf(t).status ELSE "running")
    BY TakeWrites
<1>5. threads' = [threads EXCEPT ![t] = x]
    BY DEF Take, OutboxInv
<1>6. x \in ThreadType /\ x.todo = threads[t].todo /\ x.at = "taken"
    BY <1>1 DEF ThreadType
<1>7. \A k \in DOMAIN threads[t].todo : threads[t].todo[k] \in DOMAIN jobs
    BY DEF OutboxInv
<1> HIDE DEF x
<1>8. OutboxInv' /\ threads'[t] = x /\ \A u \in Workers \ {t} : threads'[u] = threads[u]
    BY <1>1, <1>4, <1>5, <1>6, <1>7, ThreadIsTyped DEF WritesHead
<1>9. adrift \subseteq adrift'
      /\ ((jobs[Head1(t)] = seen /\ seen.status # "running") \/ Covers(seen) \subseteq adrift')
    BY DEF Take
<1>10. ASSUME NEW i \in DOMAIN jobs, jobs'[i].status # jobs[i].status
       PROVE  jobs'[i].status = "running"
    BY <1>4, <1>10 DEF WritesHead, JobOf
<1>11. ThreadSteps(t)
    BY <1>4, <1>8, <1>9, <1>10 DEF ThreadSteps, WritesHead
<1>12. /\ Head1(t)' = Head1(t) /\ JobOf(t)' = jobs'[Head1(t)]
       /\ JobOf(t)'.kind = JobOf(t).kind /\ JobOf(t)'.row = JobOf(t).row
    BY <1>2, <1>4, <1>6, <1>8 DEF Head1, JobOf, WritesHead
<1>13. Covers(JobOf(t))' = Covers(JobOf(t)) /\ Covers(seen) = Covers(JobOf(t))
    <2>1. Covers(JobOf(t)') = Covers(JobOf(t)) /\ Covers(seen) = Covers(JobOf(t))
        BY <1>3, <1>12, SameCovers
    <2> QED
        BY <2>1 DEF Covers, Mirrored
<1>14. Claimed(t)'
    BY <1>4, <1>9, <1>12, <1>13 DEF Claimed, WritesHead, JobOf
<1>15. SeenFits(t)' /\ ViewFits(t)'
    BY <1>6, <1>8 DEF SeenFits, ViewFits, Gathered
<1>16. ASSUME NEW u \in Workers \ {t} PROVE Apart(t, u)'
    <2>1. ~Gathered(t)'
        BY <1>6, <1>8 DEF Gathered
    <2>2. ASSUME InFlight(u), Head1(t)' = Head1(u)'
          PROVE  Covers(JobOf(t))' \subseteq adrift'
        <3>1. threads[u].todo # <<>>
            BY <2>2 DEF OutboxInv, InFlight
        <3>2. Head1(u)' = Head1(u)
            BY <3>1, <1>11, StepKeepsOthers
        <3>3. JobOf(u) = JobOf(t)
            BY <1>12, <2>2, <3>2 DEF JobOf
        <3>4. JobOf(u).status = "running" \/ Covers(JobOf(u)) \subseteq adrift
            BY <2>2 DEF FlightInv, Claimed
        <3>5. CASE Covers(JobOf(u)) \subseteq adrift
            BY <1>9, <1>13, <3>3, <3>5
        <3>6. CASE JobOf(u).status = "running"
            <4>1. ~(jobs[Head1(t)] = seen /\ seen.status # "running")
                BY <3>3, <3>6 DEF JobOf
            <4> QED
                BY <1>9, <1>13, <4>1
        <3> QED
            BY <3>4, <3>5, <3>6
    <2>3. InFlight(u)' = InFlight(u)
        BY <1>8 DEF InFlight
    <2> QED
        BY <2>1, <2>2, <2>3 DEF Apart
<1>17. FlightInv'
    BY <1>11, <1>14, <1>15, <1>16, FlightFromOwn
<1> QED
    BY <1>6, <1>8, <1>17

(* Rows another thread has read and not written are adrift when they are   *)
(* read again.                                                             *)
LEMMA GatherKeeps ==
    ASSUME BinInv, OutboxInv, FlightInv, NEW t \in Workers, Gather(t)
    PROVE  /\ OutboxInv' /\ FlightInv'
           /\ \A u \in Workers \ {t} : threads'[u] = threads[u]
           /\ threads'[t].at = "gathered" /\ threads'[t].view = Projection(JobOf(t))
           /\ threads'[t].todo = threads[t].todo
<1>1. threads[t].todo # <<>> /\ threads[t] \in ThreadType /\ threads[t].at = "taken"
    BY DEF Gather, OutboxInv
<1>2. Head1(t) \in DOMAIN jobs /\ JobOf(t) \in JobType
    BY <1>1, HeadIsJob
<1> DEFINE view == Projection(JobOf(t))
           seen == IF JobOf(t).status = "completed" THEN JobOf(t) ELSE None
           x == [threads[t] EXCEPT !.at = "gathered", !.view = view, !.seen = seen]
<1>3. view \in Views /\ DOMAIN view \subseteq Covers(JobOf(t))
    BY <1>2, ProjectionIsTyped
<1>4. seen \in JobType \cup {None}
    BY <1>2
<1>5. threads' = [threads EXCEPT ![t] = x]
    BY DEF Gather, OutboxInv, JobOf
<1>6. adrift \subseteq adrift'
      /\ \A r \in DOMAIN view : (\E u \in Workers \ {t} :
             threads[u].at = "gathered" /\ r \in DOMAIN threads[u].view) => r \in adrift'
    BY DEF Gather, JobOf
<1>7. jobs' = jobs /\ jobs \in Seq(JobType)
    BY DEF Gather, OutboxInv
<1> HIDE DEF view, seen
<1>8. x \in ThreadType /\ x.todo = threads[t].todo /\ x.at = "gathered" /\ x.view = view
    BY <1>1, <1>3, <1>4 DEF ThreadType
<1>9. \A k \in DOMAIN threads[t].todo : threads[t].todo[k] \in DOMAIN jobs
    BY DEF OutboxInv
<1> HIDE DEF x
<1>10. OutboxInv' /\ threads'[t] = x /\ \A u \in Workers \ {t} : threads'[u] = threads[u]
    BY <1>1, <1>5, <1>7, <1>8, <1>9, ThreadIsTyped
<1>11. ThreadSteps(t)
    BY <1>6, <1>7, <1>10 DEF ThreadSteps
<1>12. JobOf(t)' = JobOf(t) /\ Covers(JobOf(t))' = Covers(JobOf(t))
    <2>1. JobOf(t)' = JobOf(t)
        BY <1>7, <1>8, <1>10 DEF JobOf, Head1
    <2> QED
        BY <2>1 DEF Covers, Mirrored
<1>13. InFlight(t)
    BY <1>1 DEF InFlight
<1>14. SeenFits(t)' /\ ViewFits(t)'
    BY <1>3, <1>8, <1>10, <1>12 DEF SeenFits, ViewFits, Gathered
<1>15. Claimed(t)'
    BY <1>6, <1>12, <1>13 DEF FlightInv, Claimed
<1>16. ASSUME NEW u \in Workers \ {t} PROVE Apart(t, u)'
    <2>1. ASSUME InFlight(u), Head1(t)' = Head1(u)'
          PROVE  Covers(JobOf(t))' \subseteq adrift'
        BY <1>8, <1>10, <1>11, <1>13, <2>1, FlownKeepsApart
    <2>2. ASSUME Gathered(u)
          PROVE  DOMAIN view \cap DOMAIN threads[u].view \subseteq adrift'
        BY <1>6, <2>2 DEF Gathered
    <2> QED
        BY <1>8, <1>10, <2>1, <2>2 DEF Apart, InFlight, Gathered
<1>17. FlightInv'
    BY <1>11, <1>14, <1>15, <1>16, FlightFromOwn
<1> QED
    BY <1>8, <1>10, <1>17 DEF view

(* Writing the files ends what was read.                                   *)
LEMMA WriteKeeps ==
    ASSUME OutboxInv, FlightInv, NEW t \in Workers, Write(t)
    PROVE  /\ OutboxInv' /\ FlightInv'
           /\ \A u \in Workers \ {t} : threads'[u] = threads[u]
           /\ threads'[t].at = "written" /\ threads'[t].todo = threads[t].todo
<1>1. threads[t].todo # <<>> /\ threads[t] \in ThreadType /\ threads[t].at = "gathered"
    BY DEF Write, OutboxInv
<1> DEFINE x == [threads[t] EXCEPT !.at = "written"]
<1>2. threads' = [threads EXCEPT ![t] = x]
    BY DEF Write, Goes, OutboxInv
<1>3. x \in ThreadType /\ x.todo = threads[t].todo /\ x.at = "written"
    BY <1>1 DEF ThreadType
<1>4. jobs' = jobs /\ jobs \in Seq(JobType) /\ adrift' = adrift
    BY DEF Write, OutboxInv
<1>5. \A k \in DOMAIN threads[t].todo : threads[t].todo[k] \in DOMAIN jobs
    BY DEF OutboxInv
<1> HIDE DEF x
<1>6. OutboxInv' /\ threads'[t] = x /\ \A u \in Workers \ {t} : threads'[u] = threads[u]
    BY <1>1, <1>2, <1>3, <1>4, <1>5, ThreadIsTyped
<1>7. ThreadSteps(t)
    BY <1>4, <1>6 DEF ThreadSteps
<1>8. JobOf(t)' = JobOf(t) /\ Covers(JobOf(t))' = Covers(JobOf(t))
    <2>1. JobOf(t)' = JobOf(t)
        BY <1>3, <1>4, <1>6 DEF JobOf, Head1
    <2> QED
        BY <2>1 DEF Covers, Mirrored
<1>9. InFlight(t)
    BY <1>1 DEF InFlight
<1>10. SeenFits(t)' /\ ViewFits(t)'
    BY <1>3, <1>6 DEF SeenFits, ViewFits, Gathered
<1>11. Claimed(t)'
    BY <1>4, <1>8, <1>9 DEF FlightInv, Claimed
<1>12. ASSUME NEW u \in Workers \ {t} PROVE Apart(t, u)'
    <2>1. ASSUME InFlight(u), Head1(t)' = Head1(u)'
          PROVE  Covers(JobOf(t))' \subseteq adrift'
        BY <1>3, <1>6, <1>7, <1>9, <2>1, FlownKeepsApart
    <2> QED
        BY <1>3, <1>6, <2>1 DEF Apart, InFlight, Gathered
<1>13. FlightInv'
    BY <1>7, <1>10, <1>11, <1>12, FlightFromOwn
<1> QED
    BY <1>3, <1>6, <1>13

(* A thread that ends its job leaves the rows to others.                   *)
LEMMA EndsKeeps ==
    ASSUME OutboxInv, FlightInv, NEW t \in Workers, InFlight(t),
           NEW status \in {"running"} \cup OpenStatuses \cup EndStatuses,
           Ends(t, status), adrift' = adrift
    PROVE  /\ OutboxInv' /\ FlightInv'
           /\ \A u \in Workers \ {t} : threads'[u] = threads[u]
           /\ threads'[t].at = "rest"
<1>1. threads[t].todo # <<>>
    BY DEF InFlight, OutboxInv
<1>2. WritesHead(t, status)
    BY <1>1, EndsWrites
<1>3. threads' = [threads EXCEPT ![t] = Next1(t)]
    BY DEF Ends
<1>4. Next1(t) \in ThreadType /\ Next1(t).at = "rest"
      /\ \A k \in DOMAIN Next1(t).todo : Next1(t).todo[k] \in DOMAIN jobs
    BY <1>1, NextIsTyped
<1>5. OutboxInv' /\ threads'[t] = Next1(t)
      /\ \A u \in Workers \ {t} : threads'[u] = threads[u]
    BY <1>2, <1>3, <1>4, ThreadIsTyped DEF WritesHead
<1>6. ThreadSteps(t)
    BY <1>2, <1>5 DEF ThreadSteps, WritesHead
<1>7. SeenFits(t)'
    BY <1>4, <1>5 DEF SeenFits
<1> QED
    BY <1>4, <1>5, <1>6, <1>7, GroundedKeepsFlight

(* A thread without a lease leaves its jobs.                               *)
LEMMA GiveUpKeeps ==
    ASSUME OutboxInv, FlightInv, NEW t \in Workers, GiveUp(t)
    PROVE  /\ OutboxInv' /\ FlightInv'
           /\ \A u \in Workers \ {t} : threads'[u] = threads[u]
           /\ threads'[t].at = "rest"
<1>1. threads' = [threads EXCEPT ![t] = Resting] /\ jobs' = jobs /\ adrift' = adrift
      /\ jobs \in Seq(JobType)
    BY DEF GiveUp, OutboxInv
<1>2. Resting \in ThreadType /\ Resting.todo = <<>> /\ Resting.at = "rest"
    BY RestIsTyped, <<>> \in Seq(Nat)
<1>3. \A k \in DOMAIN Resting.todo : Resting.todo[k] \in DOMAIN jobs
    BY <1>2
<1>4. OutboxInv' /\ threads'[t] = Resting
      /\ \A u \in Workers \ {t} : threads'[u] = threads[u]
    BY <1>1, <1>2, <1>3, ThreadIsTyped
<1>5. ThreadSteps(t)
    BY <1>1, <1>4 DEF ThreadSteps
<1>6. SeenFits(t)'
    BY <1>2, <1>4 DEF SeenFits
<1> QED
    BY <1>2, <1>4, <1>5, <1>6, GroundedKeepsFlight

(***************************************************************************)
(* The rows the mirror shows                                               *)
(***************************************************************************)
SameText(a, b) == (a = None <=> b = None) /\ (a # None => a.text = b.text)

(* The rows the mirror shows.                                              *)
LEMMA MirroredAreRows ==
    Mirrored \subseteq Rows /\ Project \in Mirrored /\ Chapters \subseteq Mirrored
    BY TablesFit, ProjectOwnsAll DEF Mirrored

(* No deletion but the project's takes a chapter along.                    *)
LEMMA HeirsAreApart ==
    ASSUME NEW r \in Rows, r # Project
    PROVE  Heirs[r] \cap Mirrored \subseteq {r}
<1> DEFINE S == (Rows \ Mirrored) \cup {r}
<1>1. ASSUME NEW y \in Rows, Owners[y] \cap S # {} PROVE y \in S
    <2>1. CASE y \in Mirrored
        <3>1. Owners[y] \subseteq {Project}
            BY <2>1, ChaptersHangOnProject DEF Mirrored
        <3>2. Project \notin S
            BY MirroredAreRows
        <3> QED
            BY <1>1, <3>1, <3>2
    <2>2. CASE y \notin Mirrored
        BY <2>2
    <2> QED
        BY <2>1, <2>2
<1>2. S \in SUBSET Rows /\ r \in S /\ Closed(S)
    BY <1>1 DEF Closed
<1> HIDE DEF S
<1>3. Heirs[r] \subseteq S
    BY <1>2 DEF Heirs
<1> QED
    BY <1>3 DEF S

(* What is not taken away keeps its text.                                  *)
LEMMA WithoutKeepsText ==
    ASSUME NEW t \in Tables, NEW gone, NEW r \in Rows, r \notin gone
    PROVE  SameText(t[r], Without(t, gone)[r])
<1>1. t[r] \in Row \cup {None}
    BY DEF Tables
<1>2. CASE t[r] = None
    BY <1>2 DEF Without, SameText
<1>3. CASE t[r] # None
    <2> DEFINE y == [t[r] EXCEPT !.refs = @ \ gone]
    <2>1. y \in Row /\ y.text = t[r].text
        BY <1>1, <1>3 DEF Row
    <2>2. Without(t, gone)[r] = y
        BY <1>3 DEF Without
    <2> HIDE DEF y
    <2> QED
        BY <1>3, <2>1, <2>2, NoneIsNoRow DEF SameText
<1> QED
    BY <1>2, <1>3

(* A mark that a chapter is due keeps its text.                            *)
LEMMA MarkedKeepsText ==
    ASSUME NEW t \in Tables, NEW S, NEW r \in Rows
    PROVE  SameText(t[r], Marked(t, S)[r])
<1>1. t[r] \in Row \cup {None}
    BY DEF Tables
<1>2. CASE ~(r \in S /\ t[r] # None /\ ~t[r].due)
    BY <1>2 DEF Marked, SameText
<1>3. CASE r \in S /\ t[r] # None /\ ~t[r].due
    <2> DEFINE y == [t[r] EXCEPT !.due = TRUE, !.stamp = Now(r)]
    <2>1. y \in Row /\ y.text = t[r].text
        BY <1>1, <1>3, NowIsStamp DEF Row
    <2>2. Marked(t, S)[r] = y
        BY <1>3 DEF Marked
    <2> HIDE DEF y
    <2> QED
        BY <1>3, <2>1, <2>2, NoneIsNoRow DEF SameText
<1> QED
    BY <1>2, <1>3

(* Purging takes drafts along, and no row the mirror shows.                *)
LEMMA PurgedKeepsText ==
    ASSUME BinInv, NEW S \in SUBSET entries, NEW r \in Mirrored
    PROVE  SameText(rows[r], Purged(S)[r])
<1> DEFINE gone == UNION {Heirs[x] : x \in RetainedRoots(S)}
<1>1. ASSUME NEW x \in RetainedRoots(S) PROVE r \notin Heirs[x]
    <2>1. x \in Retained
        BY DEF RetainedRoots
    <2>2. x \in Rows /\ x # Project /\ x \notin Mirrored
        BY <2>1, TablesFit, ProjectOwnsAll, ChaptersHangOnProject DEF Mirrored
    <2> QED
        BY <2>2, HeirsAreApart
<1>2. r \notin gone
    BY <1>1
<1>3. r \in Rows /\ rows \in Tables
    BY MirroredAreRows DEF BinInv
<1> HIDE DEF gone
<1>4. SameText(rows[r], Without(rows, gone)[r])
    BY <1>2, <1>3, WithoutKeepsText
<1> QED
    BY <1>4 DEF gone, Purged

(* A deletion takes its row, the project's takes every one, and it leaves  *)
(* the texts of the others.                                                *)
LEMMA DeleteTakes ==
    ASSUME BinInv, NEW r \in Deletable, Delete(r), NEW x \in Mirrored
    PROVE  /\ r \in Mirrored => rows[r] # None
           /\ r = Project \/ r = x => rows'[x] = None
           /\ r # Project /\ r # x => SameText(rows[x], rows'[x])
<1> DEFINE t == Purged(Expired)
<1>1. t \in Tables /\ t[r] # None /\ rows' = Left(t, r)
    BY PurgedKeepsLinks DEF Delete, Expired
<1>2. SameText(rows[x], t[x]) /\ (r \in Mirrored => SameText(rows[r], t[r]))
    BY PurgedKeepsText, Expired \in SUBSET entries DEF Expired
<1>3. r \in Rows /\ x \in Rows
    BY TablesFit, MirroredAreRows
<1>4. r = Project \/ r \in Chapters => r \notin Retained
    BY ProjectOwnsAll, ChaptersHangOnProject
<1> HIDE DEF t
<1>5. CASE r = Project \/ r = x
    <2>1. r \notin Retained
        BY <1>4, <1>5 DEF Mirrored
    <2>2. x \in Heirs[r]
        <3>1. CASE r = Project
            BY <1>3, <3>1, ProjectOwnsAll
        <3>2. CASE r = x
            BY <1>3, <3>2 DEF Heirs
        <3> QED
            BY <1>5, <3>1, <3>2
    <2>3. Without(t, Heirs[r])[x] = None
        BY <1>3, <2>2 DEF Without
    <2>4. rows'[x] = None
        BY <1>1, <1>3, <2>1, <2>3 DEF Left, Doomed, Marked
    <2> QED
        BY <1>1, <1>2, <1>5, <2>4 DEF SameText
<1>6. CASE r # Project /\ r # x
    <2>1. SameText(t[x], Left(t, r)[x])
        <3>1. CASE r \in Retained
            <4>1. Left(t, r)[x] = t[x]
                BY <1>1, <1>3, <1>6, <3>1 DEF Left, Tables
            <4> QED
                BY <4>1 DEF SameText
        <3>2. CASE r \notin Retained
            <4> DEFINE D == Doomed(r)
                       w == Without(t, D)
            <4>1. D = Heirs[r] /\ x \notin D
                BY <1>3, <1>6, <3>2, HeirsAreApart DEF Doomed
            <4>2. D \in SUBSET Rows /\ Closed(D)
                BY <1>3, <4>1, HeirsAreClosed
            <4>3. Linked(t)
                BY PurgedKeepsLinks DEF Expired, t
            <4>4. w \in Tables
                BY <1>1, <4>2, <4>3, WithoutKeepsLinks
            <4>5. SameText(t[x], w[x])
                BY <1>1, <1>3, <4>1, WithoutKeepsText
            <4>6. SameText(w[x], Marked(w, Followers(D) \ D)[x])
                BY <1>3, <4>4, MarkedKeepsText
            <4>7. Left(t, r) = Marked(w, Followers(D) \ D)
                BY <3>2 DEF Left
            <4> QED
                BY <4>5, <4>6, <4>7 DEF SameText
        <3> QED
            BY <3>1, <3>2
    <2> QED
        BY <1>1, <1>2, <1>6, <2>1 DEF SameText
<1> QED
    BY <1>5, <1>6

(* An edit writes one chapter.                                             *)
LEMMA EditWrites ==
    ASSUME BinInv, NEW c \in Chapters, NEW text \in Texts, NEW refs, Edit(c, text, refs),
           NEW x \in Mirrored
    PROVE  /\ rows[x] = None <=> rows'[x] = None
           /\ x = c => rows[x] # None
           /\ x # c => SameText(rows[x], rows'[x])
<1>1. c \in Rows /\ x \in Rows /\ rows \in Tables
    BY TablesFit, MirroredAreRows DEF BinInv
<1> DEFINE new == [rows[c] EXCEPT !.text = text, !.refs = refs, !.stamp = Now(c), !.due = TRUE]
           t == [rows EXCEPT ![c] = new]
<1>2. rows[c] # None /\ rows[c] \in Row
    BY <1>1 DEF Edit, Tables
<1>3. refs \in SUBSET Rows
    BY DEF Edit, Here
<1>4. new \in Row
    BY <1>1, <1>2, <1>3, NowIsStamp DEF Row
<1>5. rows' = Marked(t, Followers({c}))
    BY <1>1 DEF Edit, Tables
<1> HIDE DEF new
<1>6. t \in Tables
    BY <1>1, <1>4 DEF Tables
<1>7. SameText(t[x], rows'[x])
    BY <1>1, <1>5, <1>6, MarkedKeepsText
<1>8. t[x] = IF x = c THEN new ELSE rows[x]
    BY <1>1 DEF Tables
<1> QED
    BY <1>2, <1>4, <1>7, <1>8, NoneIsNoRow DEF SameText

(* A restore gives back what the deletion took, and nothing else.          *)
LEMMA RestoreGives ==
    ASSUME BinInv, EntriesInv, NEW e \in entries, Restore(e), NEW x \in Rows
    PROVE  /\ x \in Changed(e) => rows'[x] # None
           /\ x \notin Changed(e) => rows'[x] = rows[x]
<1>1. rows'[x] = IF x \in Changed(e) THEN Recovered(e, x) ELSE rows[x]
    BY DEF Restore
<1>2. ASSUME x \in Changed(e) PROVE Recovered(e, x) # None
    <2> DEFINE had == e.had[x]
               new == [had EXCEPT !.refs = {m \in @ : m \in Changed(e) \/ rows[m] # None}]
    <2>1. had \in Row /\ e.changes[x].before = had
        BY <1>2 DEF EntriesInv, Remembers, Tables
    <2>2. new \in Row
        BY <2>1 DEF Row
    <2>3. Recovered(e, x) = new
        BY <2>1 DEF Recovered
    <2> QED
        BY <2>2, <2>3, NoneIsNoRow
<1> QED
    BY <1>1, <1>2

(* Recording the files keeps the texts.                                    *)
LEMMA PlaceKeepsText ==
    ASSUME BinInv, NEW S, Place(S), NEW x \in Rows
    PROVE  SameText(rows[x], rows'[x])
<1>1. rows[x] \in Row \cup {None} /\ Now(x) \in Stamps
    BY NowIsStamp DEF BinInv, Tables
<1>2. CASE x \notin S
    BY <1>2 DEF Place, SameText
<1>3. CASE x \in S
    <2> DEFINE y == [rows[x] EXCEPT !.placed = TRUE, !.stamp = Now(x)]
    <2>1. rows[x] # None /\ rows'[x] = y
        BY <1>3 DEF Place, Here
    <2>2. y \in Row /\ y.text = rows[x].text
        BY <1>1, <2>1 DEF Row
    <2> HIDE DEF y
    <2> QED
        BY <2>1, <2>2, NoneIsNoRow DEF SameText
<1> QED
    BY <1>2, <1>3

(***************************************************************************)
(* Adding jobs                                                             *)
(***************************************************************************)
IsAdded(js, after, i, job) ==
    /\ after[i] = job
    /\ i \in DOMAIN js => Same(js, i, job) /\ js[i].status \in OpenStatuses

(* A commit leaves a job as it is, or has one of the new ones in its place *)
(* or after it; each of the new ones is there.                             *)
AddedTo(js, new, after) ==
    /\ after \in Seq(JobType) /\ DOMAIN js \subseteq DOMAIN after
    /\ \A i \in DOMAIN after :
          \/ i \in DOMAIN js /\ after[i] = js[i]
          \/ \E n \in DOMAIN new : IsAdded(js, after, i, new[n])
    /\ \A n \in DOMAIN new : \E i \in DOMAIN after : IsAdded(js, after, i, new[n])

(* The newest open job with a key is one of them.                          *)
LEMMA OpeningIsJob ==
    ASSUME NEW js \in Seq(JobType), NEW job, Openings(js, job) # {}
    PROVE  Max(Openings(js, job)) \in Openings(js, job)
<1>1. Openings(js, job) \in SUBSET (1..Len(js)) /\ Len(js) \in Nat
    BY DEF Openings
<1>2. IsFiniteSet(1..Len(js))
    BY <1>1, FS_Interval
<1>3. IsFiniteSet(Openings(js, job))
    BY <1>1, <1>2, FS_Subset
<1>4. Openings(js, job) \in SUBSET Nat
    BY <1>1
<1> QED
    BY <1>3, <1>4, MaxIsIn

(* A request is in the outbox, alone or in the place of an open job with   *)
(* its key.                                                                *)
LEMMA EnqueuedAdds ==
    ASSUME NEW js \in Seq(JobType), NEW job \in JobType
    PROVE  /\ Enqueued(js, job) \in Seq(JobType)
           /\ DOMAIN js \subseteq DOMAIN Enqueued(js, job)
           /\ \A i \in DOMAIN Enqueued(js, job) :
                 \/ i \in DOMAIN js /\ Enqueued(js, job)[i] = js[i]
                 \/ IsAdded(js, Enqueued(js, job), i, job)
           /\ \E i \in DOMAIN Enqueued(js, job) : IsAdded(js, Enqueued(js, job), i, job)
<1>1. CASE Openings(js, job) = {}
    <2> DEFINE after == Append(js, job)
    <2>1. Enqueued(js, job) = after
        BY <1>1 DEF Enqueued
    <2>2. /\ after \in Seq(JobType) /\ DOMAIN after = 1..(Len(js) + 1)
          /\ DOMAIN js = 1..Len(js) /\ Len(js) \in Nat /\ after[Len(js) + 1] = job
          /\ \A i \in 1..Len(js) : after[i] = js[i]
        OBVIOUS
    <2> HIDE DEF after
    <2>3. IsAdded(js, after, Len(js) + 1, job)
        BY <2>2 DEF IsAdded
    <2> QED
        BY <2>1, <2>2, <2>3
<1>2. CASE Openings(js, job) # {}
    <2> DEFINE top == Max(Openings(js, job))
               after == [js EXCEPT ![top] = job]
    <2>1. Enqueued(js, job) = after
        BY <1>2 DEF Enqueued
    <2>2. top \in Openings(js, job)
        BY <1>2, OpeningIsJob
    <2>3. top \in DOMAIN js /\ Same(js, top, job) /\ js[top].status \in OpenStatuses
        BY <2>2 DEF Openings
    <2> HIDE DEF top
    <2>4. /\ after \in Seq(JobType) /\ DOMAIN after = DOMAIN js /\ after[top] = job
          /\ \A i \in DOMAIN js : i # top => after[i] = js[i]
        BY <2>3
    <2> HIDE DEF after
    <2>5. IsAdded(js, after, top, job)
        BY <2>3, <2>4 DEF IsAdded
    <2> QED
        BY <2>1, <2>3, <2>4, <2>5
<1> QED
    BY <1>1, <1>2

(* So are two, of which the second does not take the place of the first.   *)
LEMMA FoldAdds ==
    ASSUME NEW js \in Seq(JobType), NEW new \in Seq(JobType),
           DOMAIN new \in {{}, {1}, {1, 2}},
           DOMAIN new = {1, 2} => new[1].kind # new[2].kind
    PROVE  AddedTo(js, new, Folded(js, new))
<1> DEFINE one == Enqueued(js, new[1])
           two == Enqueued(one, new[2])
<1>1. Folded(js, new) =
          IF DOMAIN new = {} THEN js ELSE IF DOMAIN new = {1} THEN one ELSE two
    BY FoldSteps DEF Stepwise
<1>2. CASE DOMAIN new = {}
    BY <1>1, <1>2 DEF AddedTo
<1>3. ASSUME 1 \in DOMAIN new
      PROVE  /\ one \in Seq(JobType) /\ DOMAIN js \subseteq DOMAIN one
             /\ \A i \in DOMAIN one :
                   (i \in DOMAIN js /\ one[i] = js[i]) \/ IsAdded(js, one, i, new[1])
             /\ \E i \in DOMAIN one : IsAdded(js, one, i, new[1])
    <2>1. new[1] \in JobType
        BY <1>3
    <2> QED
        BY <2>1, EnqueuedAdds
<1>4. CASE DOMAIN new = {1}
    <2>1. DOMAIN new # {} /\ Folded(js, new) = one
        BY <1>1, <1>4
    <2> HIDE DEF one
    <2> QED
        BY <1>3, <1>4, <2>1 DEF AddedTo
<1>5. CASE DOMAIN new = {1, 2}
    <2>1. DOMAIN new # {} /\ DOMAIN new # {1}
        BY <1>5
    <2>2. Folded(js, new) = two
        BY <1>1, <2>1
    <2>3. new[1] \in JobType /\ new[2] \in JobType /\ new[1].kind # new[2].kind
        <3>1. 1 \in DOMAIN new /\ 2 \in DOMAIN new
            BY <1>5
        <3>2. \A n \in DOMAIN new : new[n] \in JobType
            OBVIOUS
        <3> QED
            BY <1>5, <3>1, <3>2
    <2> HIDE DEF one
    <2>4. one \in Seq(JobType) /\ DOMAIN js \subseteq DOMAIN one
        BY <1>3, <1>5
    <2>5. /\ two \in Seq(JobType) /\ DOMAIN one \subseteq DOMAIN two
          /\ \A i \in DOMAIN two :
                (i \in DOMAIN one /\ two[i] = one[i]) \/ IsAdded(one, two, i, new[2])
          /\ \E i \in DOMAIN two : IsAdded(one, two, i, new[2])
        BY <2>3, <2>4, EnqueuedAdds
    <2> HIDE DEF two
    <2>6. ASSUME NEW i \in DOMAIN one
          PROVE  (i \in DOMAIN js /\ one[i] = js[i]) \/ IsAdded(js, one, i, new[1])
        BY <1>3, <1>5
    <2>7. ASSUME NEW i \in DOMAIN two, IsAdded(one, two, i, new[2])
          PROVE  IsAdded(js, two, i, new[2])
        <3>1. two[i] = new[2]
            BY <2>7 DEF IsAdded
        <3>2. ASSUME i \in DOMAIN js
              PROVE  Same(js, i, new[2]) /\ js[i].status \in OpenStatuses
            <4>1. i \in DOMAIN one /\ Same(one, i, new[2]) /\ one[i].status \in OpenStatuses
                BY <2>4, <2>7, <3>2 DEF IsAdded
            <4>2. one[i] # new[1]
                BY <2>3, <4>1 DEF Same
            <4>3. one[i] = js[i]
                BY <2>6, <4>1, <4>2 DEF IsAdded
            <4> QED
                BY <4>1, <4>3 DEF Same
        <3> QED
            BY <3>1, <3>2 DEF IsAdded
    <2>8. ASSUME NEW i \in DOMAIN one, two[i] = one[i], IsAdded(js, one, i, new[1])
          PROVE  IsAdded(js, two, i, new[1])
        BY <2>8 DEF IsAdded
    <2>9. \E i \in DOMAIN two : IsAdded(js, two, i, new[1])
        <3>1. PICK i \in DOMAIN one : IsAdded(js, one, i, new[1])
            BY <1>3, <1>5
        <3>2. ~IsAdded(one, two, i, new[2])
            BY <2>3, <3>1 DEF IsAdded, Same
        <3>3. i \in DOMAIN two /\ two[i] = one[i]
            BY <2>5, <3>1, <3>2
        <3> QED
            BY <2>8, <3>1, <3>3
    <2>10. ASSUME NEW i \in DOMAIN two
           PROVE  \/ i \in DOMAIN js /\ two[i] = js[i]
                  \/ \E n \in DOMAIN new : IsAdded(js, two, i, new[n])
        <3>1. CASE IsAdded(one, two, i, new[2])
            BY <1>5, <2>7, <3>1
        <3>2. CASE i \in DOMAIN one /\ two[i] = one[i]
            <4>1. CASE IsAdded(js, one, i, new[1])
                BY <1>5, <2>8, <3>2, <4>1
            <4>2. CASE i \in DOMAIN js /\ one[i] = js[i]
                BY <3>2, <4>2
            <4> QED
                BY <2>6, <3>2, <4>1, <4>2
        <3> QED
            BY <2>5, <3>1, <3>2
    <2>11. \A n \in DOMAIN new : \E i \in DOMAIN two : IsAdded(js, two, i, new[n])
        BY <1>5, <2>5, <2>7, <2>9
    <2>12. DOMAIN js \subseteq DOMAIN two
        BY <2>4, <2>5
    <2> QED
        BY <2>2, <2>5, <2>10, <2>11, <2>12 DEF AddedTo
<1> QED
    BY <1>2, <1>4, <1>5

(* What the threads are left with when rows and jobs are committed.        *)
OutboxGrows ==
    /\ jobs' \in Seq(JobType) /\ DOMAIN jobs \subseteq DOMAIN jobs'
    /\ \A i \in DOMAIN jobs :
          /\ jobs'[i].kind = jobs[i].kind /\ jobs'[i].row = jobs[i].row
          /\ jobs'[i] # jobs[i] => jobs[i].status \in OpenStatuses
    /\ adrift \subseteq adrift'

ThreadsStand ==
    \A u \in Workers :
        threads'[u] = threads[u] \/ (threads[u].at = "rest" /\ threads'[u].at = "rest")

(* What authors commit leaves the threads that run jobs apart.             *)
LEMMA GrowthKeepsFlight ==
    ASSUME OutboxInv, FlightInv, OutboxGrows, ThreadsStand
    PROVE  FlightInv'
<1>1. ASSUME NEW u \in Workers, threads'[u].at # "rest"
      PROVE  /\ threads'[u] = threads[u] /\ threads[u].todo # <<>>
             /\ Head1(u)' = Head1(u) /\ Head1(u) \in DOMAIN jobs
             /\ JobOf(u)' = jobs'[Head1(u)]
             /\ JobOf(u)'.kind = JobOf(u).kind /\ JobOf(u)'.row = JobOf(u).row
             /\ Covers(JobOf(u))' = Covers(JobOf(u))
    <2>1. threads'[u] = threads[u] /\ threads[u].todo # <<>>
        BY <1>1 DEF ThreadsStand, OutboxInv
    <2>2. Head1(u)' = Head1(u) /\ Head1(u) \in DOMAIN jobs
        BY <2>1, HeadIsJob DEF Head1
    <2>3. JobOf(u)' = jobs'[Head1(u)]
        BY <2>2 DEF JobOf
    <2>4. JobOf(u)'.kind = JobOf(u).kind /\ JobOf(u)'.row = JobOf(u).row
        BY <2>2, <2>3 DEF OutboxGrows, JobOf
    <2>5. Covers(JobOf(u)') = Covers(JobOf(u))
        BY <2>4, SameCovers
    <2>6. Covers(JobOf(u))' = Covers(JobOf(u)')
        BY DEF Covers, Mirrored
    <2> QED
        BY <2>1, <2>2, <2>3, <2>4, <2>5, <2>6
<1>2. ASSUME NEW u \in Workers
      PROVE  SeenFits(u)' /\ ViewFits(u)' /\ Claimed(u)'
    <2>1. CASE threads'[u].at = "rest"
        BY <2>1 DEF SeenFits, ViewFits, Claimed, InFlight, Gathered
    <2>2. CASE threads'[u].at # "rest"
        <3>1. SeenFits(u) /\ ViewFits(u) /\ Claimed(u)
            BY DEF FlightInv
        <3>2. SeenFits(u)'
            BY <1>1, <2>2, <3>1 DEF SeenFits
        <3>3. ViewFits(u)'
            BY <1>1, <2>2, <3>1 DEF ViewFits, Gathered
        <3>4. Claimed(u)'
            <4> SUFFICES ASSUME InFlight(u), ~(Covers(JobOf(u)) \subseteq adrift)
                         PROVE  JobOf(u)'.status = "running"
                BY <1>1, <2>2 DEF Claimed, OutboxGrows, InFlight
            <4>1. JobOf(u).status = "running"
                BY <3>1 DEF Claimed
            <4>2. JobOf(u).status \notin OpenStatuses
                BY <4>1 DEF OpenStatuses
            <4>3. jobs'[Head1(u)] = jobs[Head1(u)]
                BY <1>1, <2>2, <4>2 DEF OutboxGrows, JobOf
            <4> QED
                BY <1>1, <2>2, <4>1, <4>3 DEF JobOf
        <3> QED
            BY <3>2, <3>3, <3>4
    <2> QED
        BY <2>1, <2>2
<1>3. ASSUME NEW u \in Workers, NEW v \in Workers, u # v PROVE Apart(u, v)'
    <2>1. Apart(u, v) /\ adrift \subseteq adrift'
        BY <1>3 DEF FlightInv, OutboxGrows
    <2>2. CASE threads'[u].at = "rest" \/ threads'[v].at = "rest"
        BY <2>2 DEF Apart, InFlight, Gathered
    <2>3. CASE threads'[u].at # "rest" /\ threads'[v].at # "rest"
        <3>1. threads'[u] = threads[u] /\ threads'[v] = threads[v]
            BY <1>1, <2>3
        <3>2. InFlight(u) /\ InFlight(v) /\ Head1(u) = Head1(v) => Covers(JobOf(u)) \subseteq adrift
            BY <2>1 DEF Apart
        <3>3. (InFlight(u) /\ InFlight(v) /\ Head1(u) = Head1(v))'
                  => Covers(JobOf(u))' \subseteq adrift'
            BY <1>1, <2>1, <2>3, <3>1, <3>2 DEF InFlight
        <3>4. (Gathered(u) /\ Gathered(v))' =>
                  (DOMAIN threads[u].view \cap DOMAIN threads[v].view)' \subseteq adrift'
            BY <2>1, <3>1 DEF Apart, Gathered
        <3> QED
            BY <3>3, <3>4 DEF Apart
    <2> QED
        BY <2>2, <2>3
<1> QED
    BY <1>2, <1>3 DEF FlightInv, Workers

(* A commit grows the outbox and leaves every thread but its own.          *)
LEMMA CommitsKeep ==
    ASSUME OutboxInv, FlightInv, NEW t \in Threads, threads[t] = Resting,
           NEW js \in Seq(JobType), DOMAIN js = DOMAIN jobs,
           \A i \in DOMAIN jobs :
              /\ js[i].kind = jobs[i].kind /\ js[i].row = jobs[i].row
              /\ js[i] # jobs[i] => jobs[i].status \in OpenStatuses,
           NEW new \in Seq(JobType),
           DOMAIN new \in {{}, {1}, {1, 2}},
           DOMAIN new = {1, 2} => new[1].kind # new[2].kind,
           \A n \in DOMAIN new : new[n].status = "pending",
           Commits(t, js, new), adrift \subseteq adrift'
    PROVE  OutboxInv' /\ FlightInv' /\ OutboxGrows /\ ThreadsStand /\ AddedTo(js, new, jobs')
<1> DEFINE todo == [i \in DOMAIN new |-> Max(Openings(jobs', new[i]))]
           x == [Resting EXCEPT !.todo = todo]
<1>1. t \in Workers /\ threads \in [Workers -> ThreadType]
    BY DEF Workers, OutboxInv
<1>2. jobs' = Folded(js, new) /\ threads' = [threads EXCEPT ![t].todo = todo]
    BY Zenon DEF Commits, Folded
<1>3. AddedTo(js, new, jobs')
    BY <1>2, FoldAdds
<1>4. ASSUME NEW n \in DOMAIN new PROVE todo[n] \in DOMAIN jobs'
    <2>1. PICK i \in DOMAIN jobs' : jobs'[i] = new[n]
        BY <1>3 DEF AddedTo, IsAdded
    <2>2. i \in Openings(jobs', new[n])
        BY <2>1 DEF Openings, Same, OpenStatuses
    <2>3. Max(Openings(jobs', new[n])) \in Openings(jobs', new[n])
        BY <1>3, <2>2, OpeningIsJob DEF AddedTo
    <2>4. Openings(jobs', new[n]) \subseteq DOMAIN jobs'
        BY DEF Openings
    <2> QED
        BY <2>3, <2>4
<1>5. todo \in Seq(Nat)
    <2>1. DOMAIN jobs' \subseteq Nat
        BY <1>3 DEF AddedTo
    <2>2. DOMAIN new = 1..Len(new) /\ Len(new) \in Nat
        OBVIOUS
    <2>3. todo \in [1..Len(new) -> Nat]
        BY <1>4, <2>1, <2>2
    <2> QED
        BY <2>2, <2>3
<1>6. DOMAIN todo = DOMAIN new
    OBVIOUS
<1>7. threads' = [threads EXCEPT ![t] = x]
    BY <1>1, <1>2
<1> HIDE DEF todo
<1>8. x \in ThreadType /\ x.todo = todo /\ x.at = "rest" /\ threads[t].at = "rest"
    BY <1>5, RestIsTyped, <<>> \in Seq(Nat)
<1> HIDE DEF x
<1>9. threads' \in [Workers -> ThreadType] /\ threads'[t] = x
      /\ \A u \in Workers \ {t} : threads'[u] = threads[u]
    BY <1>1, <1>7, <1>8
<1>10. ThreadsStand
    BY <1>8, <1>9 DEF ThreadsStand
<1>11. ASSUME NEW i \in DOMAIN jobs
       PROVE  /\ jobs'[i].kind = jobs[i].kind /\ jobs'[i].row = jobs[i].row
              /\ jobs'[i] # jobs[i] => jobs[i].status \in OpenStatuses
    <2>1. i \in DOMAIN js /\ i \in DOMAIN jobs'
        BY <1>3 DEF AddedTo
    <2>2. CASE jobs'[i] = js[i]
        BY <2>2
    <2>3. CASE \E n \in DOMAIN new : IsAdded(js, jobs', i, new[n])
        <3>1. PICK n \in DOMAIN new : IsAdded(js, jobs', i, new[n])
            BY <2>3
        <3>2. jobs'[i] = new[n] /\ Same(js, i, new[n]) /\ js[i].status \in OpenStatuses
            BY <2>1, <3>1 DEF IsAdded
        <3> QED
            BY <3>2 DEF Same
    <2> QED
        BY <1>3, <2>1, <2>2, <2>3 DEF AddedTo
<1>12. OutboxGrows
    BY <1>3, <1>11 DEF OutboxGrows, AddedTo
<1>13. ASSUME NEW u \in Workers
       PROVE  /\ \A k \in DOMAIN threads'[u].todo : threads'[u].todo[k] \in DOMAIN jobs'
              /\ threads'[u].at # "rest" => threads'[u].todo # <<>>
    <2>1. CASE u = t
        BY <1>4, <1>6, <1>8, <1>9, <2>1
    <2>2. CASE u # t
        BY <1>3, <1>9, <2>2 DEF OutboxInv, AddedTo
    <2> QED
        BY <2>1, <2>2
<1>14. OutboxInv'
    BY <1>3, <1>9, <1>13 DEF OutboxInv, AddedTo, Workers
<1> QED
    BY <1>3, <1>10, <1>12, <1>14, GrowthKeepsFlight

(***************************************************************************)
(* The project's entry                                                     *)
(***************************************************************************)
(* The bin has the project once, while it is gone; no other entry took it. *)
ProjectEntries ==
    /\ \A e \in entries : e.root = Project => rows[Project] = None
    /\ \A e, f \in entries : e.root = Project /\ f.root = Project => e = f
    /\ \A e \in entries : Project \in Changed(e) /\ e.left[Project] = None => e.root = Project

(* Entries that go leave what the others say of the project.               *)
LEMMA FewerEntries ==
    ASSUME ProjectEntries, entries' \subseteq entries,
           rows[Project] = None => rows'[Project] = None
    PROVE  ProjectEntries'
    BY DEF ProjectEntries, Changed

(* An entry that expires is the entry it was.                              *)
LEMMA ExpireKeepsProject ==
    ASSUME BinInv, ProjectEntries, NEW e \in entries, Expire(e)
    PROVE  ProjectEntries'
<1> DEFINE g == [e EXCEPT !.expired = TRUE]
<1>1. e \in Entries
    BY DEF BinInv
<1>2. g.root = e.root /\ g.left = e.left /\ g.changes = e.changes
    BY <1>1 DEF Entries
<1>3. entries' = (entries \ {e}) \cup {g} /\ rows' = rows
    BY DEF Expire
<1> HIDE DEF g
<1>4. \A f \in entries' : f.root = Project => rows'[Project] = None
    BY <1>2, <1>3 DEF ProjectEntries
<1>5. ASSUME NEW f1 \in entries', NEW f2 \in entries', f1.root = Project, f2.root = Project
      PROVE  f1 = f2
    <2>1. \A f \in entries \ {e} : ~(f.root = Project /\ e.root = Project)
        BY DEF ProjectEntries
    <2> QED
        BY <1>2, <1>3, <1>5, <2>1 DEF ProjectEntries
<1>6. \A f \in entries' : Project \in Changed(f) /\ f.left[Project] = None => f.root = Project
    BY <1>2, <1>3 DEF ProjectEntries, Changed
<1> QED
    BY <1>4, <1>5, <1>6 DEF ProjectEntries, Changed

(* What the entry of a deletion took of the rows the mirror shows.         *)
LEMMA DeleteRecords ==
    ASSUME BinInv, NEW r \in Deletable, Delete(r)
    PROVE  \E e \in entries' :
              /\ entries' = (entries \ Expired) \cup {e}
              /\ e.root = r /\ e.left = rows'
              /\ \A x \in Mirrored : x \in Changed(e) => rows[x] # None
              /\ r = Project => \A x \in Mirrored : rows[x] # None => x \in Changed(e)
<1> DEFINE t == Purged(Expired)
           e == Entry(t, r)
<1>1. /\ entries' = (entries \ Expired) \cup {e} /\ rows' = Left(t, r)
    BY DEF Delete
<1>2. e.root = r /\ e.left = Left(t, r) /\ Changed(e) = Captured(t, r)
    BY DEF Entry, Changed
<1>3. ASSUME NEW x \in Mirrored
      PROVE  t[x] = None <=> rows[x] = None
    BY PurgedKeepsText, Expired \in SUBSET entries DEF Expired, SameText
<1> HIDE DEF t, e
<1>4. ASSUME NEW x \in Mirrored, x \in Captured(t, r)
      PROVE  rows[x] # None
    BY <1>3, <1>4 DEF Captured, Remembered, Here
<1>5. ASSUME NEW x \in Mirrored, r = Project, rows[x] # None
      PROVE  x \in Captured(t, r)
    <2>1. x \in Rows \ Excluded
        BY TablesFit, ProjectOwnsAll DEF Mirrored
    <2>2. x \in Doomed(r)
        BY <1>5, <2>1, ProjectOwnsAll DEF Doomed
    <2>3. rows'[x] = None
        BY <1>5, DeleteTakes
    <2>4. t[x] # Left(t, r)[x]
        BY <1>1, <1>3, <1>5, <2>3
    <2> QED
        BY <1>3, <1>5, <2>1, <2>2, <2>4 DEF Captured, Remembered, Here
<1> QED
    BY <1>1, <1>2, <1>4, <1>5

(* The entry of the project is added when the project goes.                *)
LEMMA DeleteKeepsProject ==
    ASSUME BinInv, ProjectEntries, NEW r \in Deletable, Delete(r)
    PROVE  ProjectEntries'
<1>1. PICK e \in entries' :
          /\ entries' = (entries \ Expired) \cup {e}
          /\ e.root = r /\ e.left = rows'
          /\ \A x \in Mirrored : x \in Changed(e) => rows[x] # None
    BY DeleteRecords
<1>2. Project \in Mirrored
    BY MirroredAreRows
<1>3. /\ r = Project => rows[Project] # None /\ rows'[Project] = None
      /\ rows[Project] = None => rows'[Project] = None
      /\ r # Project => (rows[Project] = None <=> rows'[Project] = None)
    BY <1>2, DeleteTakes DEF SameText
<1>4. \A f \in entries' : f.root = Project => rows'[Project] = None
    BY <1>1, <1>3 DEF ProjectEntries
<1>5. \A f \in entries : r = Project => f.root # Project
    BY <1>3 DEF ProjectEntries
<1>6. \A f1, f2 \in entries' : f1.root = Project /\ f2.root = Project => f1 = f2
    BY <1>1, <1>5 DEF ProjectEntries
<1>7. \A f \in entries' : Project \in Changed(f) /\ f.left[Project] = None => f.root = Project
    BY <1>1, <1>2, <1>3 DEF ProjectEntries
<1> QED
    BY <1>4, <1>6, <1>7 DEF ProjectEntries, Changed

(* Only the project's entry gives the project back.                        *)
LEMMA ProjectIsRestored ==
    ASSUME BinInv, EntriesInv, ProjectEntries, NEW e \in entries, Restore(e),
           rows[Project] = None, Project \in Changed(e)
    PROVE  e.root = Project
<1>1. Remembers(e) /\ Unchanged(e, Project)
    BY DEF EntriesInv, Restore, Recoverable
<1>2. e.left[Project] = None
    BY <1>1 DEF Remembers, Unchanged
<1> QED
    BY <1>2 DEF ProjectEntries

(* The project comes back with its entry, which goes.                      *)
LEMMA RestoreKeepsProject ==
    ASSUME BinInv, EntriesInv, ProjectEntries, NEW e \in entries, Restore(e)
    PROVE  ProjectEntries'
<1>1. entries' = entries \ {e}
    BY DEF Restore
<1>2. CASE rows[Project] = None => rows'[Project] = None
    BY <1>1, <1>2, FewerEntries
<1>3. CASE rows[Project] = None /\ rows'[Project] # None
    <2>1. Project \in Changed(e)
        BY <1>3, RestoreGives, MirroredAreRows
    <2>2. e.root = Project
        BY <1>3, <2>1, ProjectIsRestored
    <2>3. \A f \in entries' : f.root # Project
        BY <1>1, <2>2 DEF ProjectEntries
    <2>4. \A f, g \in entries' : f.root = Project /\ g.root = Project => f = g
        BY <2>3
    <2>5. \A f \in entries' : Project \in Changed(f) /\ f.left[Project] = None => f.root = Project
        BY <1>1 DEF ProjectEntries
    <2> QED
        BY <2>3, <2>4, <2>5 DEF ProjectEntries, Changed
<1> QED
    BY <1>2, <1>3

(***************************************************************************)
(* The files                                                               *)
(***************************************************************************)
Want(r) == IF rows[r] = None THEN None ELSE rows[r].text

Unsettled(i) == jobs[i].status \notin EndStatuses

(* The jobs that give a row its text, or take its file: the removal of the *)
(* project does for the rows that come back with it.                       *)
Settles(r, i) ==
    IF rows[r] # None
    THEN jobs[i].kind = "project" \/ (jobs[i].kind = "chapter" /\ jobs[i].row = r)
    ELSE \/ jobs[i].kind = "file_delete" /\ jobs[i].row = r /\ jobs[i].path
         \/ /\ jobs[i].kind = "project_delete"
            /\ \A e \in entries : e.root = Project => r \in Changed(e)

(* A thread that runs a job has read what the file must become, or has not *)
(* read yet.                                                               *)
Serving(t, r) ==
    /\ threads[t].at # "written"
    /\ Gathered(t) => r \in DOMAIN threads[t].view /\ threads[t].view[r] = Want(r)

Fixes(r, i) ==
    /\ Unsettled(i) /\ Settles(r, i)
    /\ \A t \in Workers : InFlight(t) /\ Head1(t) = i => Serving(t, r)

Stale(t, r) == Gathered(t) /\ r \in DOMAIN threads[t].view /\ threads[t].view[r] # Want(r)

AsWanted(r) == files[r] = Want(r) /\ \A t \in Workers : ~Stale(t, r)

(* A file is as its row wants it, and no thread is about to write anything *)
(* else; or a job that is open will make it so.                            *)
FilesInv == \A r \in Mirrored \ adrift : AsWanted(r) \/ \E i \in DOMAIN jobs : Fixes(r, i)

(* An open removal is of a row that is gone.                               *)
RemovalsInv ==
    \A i \in DOMAIN jobs :
        Unsettled(i) /\ jobs[i].kind \in RemovalKinds =>
            rows[jobs[i].row] = None \/ Covers(jobs[i]) \subseteq adrift

(* A row with the same text wants the same file.                           *)
LEMMA SameWant ==
    ASSUME NEW r, SameText(rows[r], rows'[r])
    PROVE  Want(r)' = Want(r)
    BY DEF Want, SameText

(* Authors and restarts leave what a thread is about to write.             *)
LEMMA StandsAsWanted ==
    ASSUME NEW r \in Mirrored, ThreadsStand, files' = files, Want(r)' = Want(r), AsWanted(r)
    PROVE  AsWanted(r)'
<1>1. files'[r] = Want(r)'
    BY DEF AsWanted
<1>2. ASSUME NEW t \in Workers PROVE ~Stale(t, r)'
    <2>1. CASE threads'[t] = threads[t]
        BY <2>1 DEF AsWanted, Stale, Gathered
    <2>2. CASE threads'[t].at = "rest"
        BY <2>2 DEF Stale, Gathered
    <2> QED
        BY <2>1, <2>2 DEF ThreadsStand
<1> QED
    BY <1>1, <1>2 DEF AsWanted, Workers

(* Nor do they end a job that is to fix a file.                            *)
LEMMA StandsFixed ==
    ASSUME OutboxInv, NEW r \in Mirrored, ThreadsStand, Want(r)' = Want(r),
           NEW i \in DOMAIN jobs, Fixes(r, i), Unsettled(i)', Settles(r, i)'
    PROVE  Fixes(r, i)'
<1>1. ASSUME NEW t \in Workers, InFlight(t)', Head1(t)' = i PROVE Serving(t, r)'
    <2>1. threads'[t] = threads[t]
        BY <1>1 DEF ThreadsStand, InFlight
    <2>2. InFlight(t) /\ Head1(t) = i
        BY <1>1, <2>1 DEF InFlight, Head1
    <2>3. Serving(t, r)
        BY <2>2 DEF Fixes
    <2> QED
        BY <2>1, <2>3 DEF Serving, Gathered
<1> QED
    BY <1>1 DEF Fixes, Workers

(* So a file that was right or to be fixed is so still, if what it wants   *)
(* and its jobs stand.                                                     *)
LEMMA StandsGood ==
    ASSUME OutboxInv, NEW r \in Mirrored, ThreadsStand, files' = files,
           Want(r)' = Want(r), DOMAIN jobs \subseteq DOMAIN jobs',
           \A i \in DOMAIN jobs : Unsettled(i) /\ Settles(r, i) => (Unsettled(i) /\ Settles(r, i))',
           AsWanted(r) \/ \E i \in DOMAIN jobs : Fixes(r, i)
    PROVE  (AsWanted(r) \/ \E i \in DOMAIN jobs : Fixes(r, i))'
<1>1. CASE AsWanted(r)
    BY <1>1, StandsAsWanted
<1>2. CASE \E i \in DOMAIN jobs : Fixes(r, i)
    <2>1. PICK i \in DOMAIN jobs : Fixes(r, i)
        BY <1>2
    <2>2. Unsettled(i) /\ Settles(r, i)
        BY <2>1 DEF Fixes
    <2>3. Unsettled(i)' /\ Settles(r, i)'
        BY <2>2
    <2>4. Fixes(r, i)' /\ i \in DOMAIN jobs'
        BY <2>1, <2>3, StandsFixed
    <2> QED
        BY <2>4
<1> QED
    BY <1>1, <1>2

(* A new job is run by nobody yet.                                         *)
LEMMA AddedFixes ==
    ASSUME OutboxInv, FlightInv, OutboxGrows, ThreadsStand,
           NEW r \in Mirrored \ adrift',
           NEW i \in DOMAIN jobs', jobs'[i].status = "pending", Settles(r, i)',
           r \in Covers(jobs'[i]),
           i \in DOMAIN jobs => jobs[i].status \in OpenStatuses
    PROVE  Fixes(r, i)'
<1>1. ASSUME NEW t \in Workers, InFlight(t)', Head1(t)' = i PROVE FALSE
    <2>1. threads'[t] = threads[t]
        BY <1>1 DEF ThreadsStand, InFlight
    <2>2. InFlight(t) /\ Head1(t) = i /\ threads[t].todo # <<>>
        BY <1>1, <2>1 DEF InFlight, Head1, OutboxInv
    <2>3. i \in DOMAIN jobs /\ JobOf(t) = jobs[i]
        BY <2>2, HeadIsJob DEF JobOf
    <2>4. jobs[i].status # "running"
        BY <2>3 DEF OpenStatuses
    <2>5. Covers(jobs[i]) \subseteq adrift
        BY <2>2, <2>3, <2>4 DEF FlightInv, Claimed
    <2>6. Covers(jobs'[i]) = Covers(jobs[i])
        BY <2>3, SameCovers DEF OutboxGrows
    <2> QED
        BY <2>5, <2>6 DEF OutboxGrows
<1>2. Unsettled(i)'
    BY DEF Unsettled, EndStatuses
<1> QED
    BY <1>1, <1>2 DEF Fixes, Workers

(***************************************************************************)
(* What authors do                                                         *)
(***************************************************************************)
(* A new job.                                                              *)
LEMMA JobIsTyped ==
    ASSUME NEW kind \in {"chapter", "project"} \cup RemovalKinds, NEW r \in Mirrored,
           NEW path \in BOOLEAN, kind \in {"project", "project_delete"} => r = Project
    PROVE  /\ Job(kind, r, path) \in JobType
           /\ Job(kind, r, path).kind = kind /\ Job(kind, r, path).row = r
           /\ Job(kind, r, path).path = path /\ Job(kind, r, path).status = "pending"
    BY DEF Job, JobType, OpenStatuses

(* The job that writes the whole project.                                  *)
LEMMA RebuildIsTyped ==
    /\ Rebuild \in JobType /\ Rebuild.kind = "project" /\ Rebuild.row = Project
    /\ Rebuild.status = "pending"
    BY JobIsTyped, MirroredAreRows DEF Rebuild

(* A commit of one job.                                                    *)
LEMMA OneJob ==
    ASSUME NEW a \in JobType
    PROVE  <<a>> \in Seq(JobType) /\ DOMAIN <<a>> = {1} /\ <<a>>[1] = a
    OBVIOUS

(* A commit of two jobs.                                                   *)
LEMMA TwoJobs ==
    ASSUME NEW a \in JobType, NEW b \in JobType
    PROVE  /\ <<a, b>> \in Seq(JobType) /\ DOMAIN <<a, b>> = {1, 2}
           /\ <<a, b>>[1] = a /\ <<a, b>>[2] = b
    OBVIOUS

(* A job that settled a row settles it while the row is there, or while it *)
(* is gone.                                                                *)
LEMMA StaysSettling ==
    ASSUME NEW r \in Mirrored, rows[r] = None <=> rows'[r] = None, NEW i \in DOMAIN jobs,
           Settles(r, i), jobs'[i].kind = jobs[i].kind, jobs'[i].row = jobs[i].row,
           rows[r] = None /\ jobs[i].kind = "file_delete" => jobs'[i].path = jobs[i].path,
           rows[r] = None /\ jobs[i].kind = "project_delete" =>
               \A e \in entries' : e.root = Project => r \in Changed(e)
    PROVE  Settles(r, i)'
    BY DEF Settles, Changed

MirrorInv ==
    /\ BinInv /\ EntriesInv /\ ProjectEntries
    /\ OutboxInv /\ FlightInv /\ RemovalsInv /\ FilesInv

(* The file of a chapter that is saved is to be fixed by its new job; the  *)
(* other files and their jobs stand.                                       *)
LEMMA SavesKeeps ==
    ASSUME MirrorInv, NEW t \in Threads, NEW c \in Chapters, Saves(t, c)
    PROVE  OutboxInv' /\ FlightInv' /\ RemovalsInv' /\ FilesInv'
<1> DEFINE a == Job("chapter", c, FALSE)
           new == <<a, Rebuild>>
<1>1. PICK text \in Texts, refs \in SUBSET Mentions[c] : Edit(c, text, refs)
    BY DEF Saves
<1>2. /\ threads[t] = Resting /\ Commits(t, jobs, new)
      /\ files' = files /\ adrift' = adrift /\ entries' = entries
    BY <1>1 DEF Saves, Serves, Edit
<1>3. OutboxInv /\ FlightInv /\ BinInv /\ FilesInv /\ RemovalsInv /\ jobs \in Seq(JobType)
    BY DEF MirrorInv, OutboxInv
<1>4. c \in Mirrored
    BY MirroredAreRows
<1>5. /\ a \in JobType /\ a.kind = "chapter" /\ a.row = c /\ a.status = "pending"
    BY <1>4, JobIsTyped
<1>6. /\ new \in Seq(JobType) /\ DOMAIN new = {1, 2} /\ new[1] = a /\ new[2] = Rebuild
    BY <1>5, RebuildIsTyped, TwoJobs
<1> HIDE DEF new, a
<1>7. \A n \in DOMAIN new :
          /\ new[n].status = "pending" /\ new[n].kind \in {"chapter", "project"}
    BY <1>5, <1>6, RebuildIsTyped
<1>8. new[1].kind # new[2].kind
    BY <1>5, <1>6, RebuildIsTyped
<1>9. OutboxInv' /\ FlightInv' /\ OutboxGrows /\ ThreadsStand /\ AddedTo(jobs, new, jobs')
    BY <1>2, <1>3, <1>6, <1>7, <1>8, CommitsKeep
<1>10. \A x \in Mirrored :
          /\ rows[x] = None <=> rows'[x] = None
          /\ x = c => rows[x] # None
          /\ x # c => SameText(rows[x], rows'[x])
    BY <1>1, <1>3, EditWrites
<1>11. ASSUME NEW i \in DOMAIN jobs'
       PROVE  \/ i \in DOMAIN jobs /\ jobs'[i] = jobs[i]
              \/ /\ jobs'[i].kind \in {"chapter", "project"} /\ jobs'[i].status = "pending"
    BY <1>7, <1>9 DEF AddedTo, IsAdded
<1>12. RemovalsInv'
    <2> SUFFICES ASSUME NEW i \in DOMAIN jobs', Unsettled(i)', jobs'[i].kind \in RemovalKinds
                 PROVE  rows'[jobs'[i].row] = None \/ Covers(jobs'[i]) \subseteq adrift'
        BY DEF RemovalsInv, Covers, Mirrored
    <2>1. i \in DOMAIN jobs /\ jobs'[i] = jobs[i]
        BY <1>11 DEF RemovalKinds
    <2>2. rows[jobs[i].row] = None \/ Covers(jobs[i]) \subseteq adrift
        BY <1>3, <2>1 DEF RemovalsInv, Unsettled
    <2>3. jobs[i].row \in Mirrored
        BY <1>3, <2>1 DEF JobType
    <2> QED
        BY <1>2, <1>10, <2>1, <2>2, <2>3
<1>13. ASSUME NEW r \in Mirrored \ adrift'
       PROVE  (AsWanted(r) \/ \E i \in DOMAIN jobs : Fixes(r, i))'
    <2>1. CASE r = c
        <3>1. PICK i \in DOMAIN jobs' : IsAdded(jobs, jobs', i, a)
            BY <1>6, <1>9 DEF AddedTo
        <3>2. jobs'[i] = a /\ (i \in DOMAIN jobs => jobs[i].status \in OpenStatuses)
            BY <3>1 DEF IsAdded
        <3>3. Settles(r, i)'
            BY <1>5, <1>10, <2>1, <3>2 DEF Settles
        <3>4. r \in Covers(jobs'[i])
            BY <1>5, <2>1, <3>2 DEF Covers
        <3>5. Fixes(r, i)'
            BY <1>3, <1>5, <1>9, <3>2, <3>3, <3>4, AddedFixes
        <3> QED
            BY <3>5
    <2>2. CASE r # c
        <3>1. SameText(rows[r], rows'[r]) /\ (rows[r] = None <=> rows'[r] = None)
            BY <1>10, <2>2
        <3>2. Want(r)' = Want(r)
            BY <3>1, SameWant
        <3>3. ASSUME NEW i \in DOMAIN jobs, Unsettled(i), Settles(r, i)
              PROVE  (Unsettled(i) /\ Settles(r, i))'
            <4>1. /\ i \in DOMAIN jobs' /\ jobs'[i].kind = jobs[i].kind
                  /\ jobs'[i].row = jobs[i].row
                BY <1>9 DEF OutboxGrows
            <4>2. Unsettled(i)'
                BY <1>11, <3>3, <4>1 DEF Unsettled, EndStatuses
            <4>3. jobs[i].kind = "file_delete" => jobs'[i].path = jobs[i].path
                BY <1>11, <4>1
            <4>4. rows[r] = None /\ jobs[i].kind = "project_delete" =>
                      \A e \in entries' : e.root = Project => r \in Changed(e)
                BY <1>2, <3>3 DEF Settles
            <4>5. Settles(r, i)'
                BY <3>1, <3>3, <4>1, <4>3, <4>4, StaysSettling
            <4> QED
                BY <4>2, <4>5
        <3>4. AsWanted(r) \/ \E i \in DOMAIN jobs : Fixes(r, i)
            BY <1>2, <1>3 DEF FilesInv
        <3>5. DOMAIN jobs \subseteq DOMAIN jobs'
            BY <1>9 DEF OutboxGrows
        <3> QED
            BY <1>2, <1>3, <1>9, <3>2, <3>3, <3>4, <3>5, StandsGood
    <2> QED
        BY <2>1, <2>2
<1>14. FilesInv'
    BY <1>13 DEF FilesInv, Mirrored
<1> QED
    BY <1>9, <1>12, <1>14

(* A row that is there now has no open removal.                            *)
LEMMA NoOpenRemoval ==
    ASSUME RemovalsInv, NEW i \in DOMAIN jobs, Unsettled(i), jobs[i].kind \in RemovalKinds,
           NEW r \in Mirrored \ adrift, r \in Covers(jobs[i])
    PROVE  rows[jobs[i].row] = None
    BY DEF RemovalsInv

(* The jobs of a deletion: the removal of the row's files, and the         *)
(* project's manifest.                                                     *)
LEMMA RemovalsAreTyped ==
    ASSUME BinInv, NEW r \in Deletable, r \in Mirrored => rows[r] # None
    PROVE  /\ Removals(r) \in Seq(JobType) /\ DOMAIN Removals(r) \in {{}, {1}, {1, 2}}
           /\ DOMAIN Removals(r) = {1, 2} => Removals(r)[1].kind # Removals(r)[2].kind
           /\ \A n \in DOMAIN Removals(r) :
                 /\ Removals(r)[n].status = "pending"
                 /\ Removals(r)[n].kind \in {"project"} \cup RemovalKinds
                 /\ Removals(r)[n].kind \in RemovalKinds =>
                       Removals(r)[n].row = r /\ r \in Mirrored
                 /\ Removals(r)[n].kind = "project_delete" => r = Project
           /\ r = Project => /\ DOMAIN Removals(r) = {1}
                             /\ Removals(r)[1].kind = "project_delete"
           /\ r \in Chapters => /\ DOMAIN Removals(r) = {1, 2} /\ r # Project
                                /\ Removals(r)[1].kind = "file_delete"
                                /\ Removals(r)[1].row = r
                                /\ Removals(r)[1].path = rows[r].placed
<1>1. CASE r = Project
    <2> DEFINE a == Job("project_delete", r, TRUE)
    <2>1. /\ a \in JobType /\ a.kind = "project_delete" /\ a.row = r /\ a.status = "pending"
          /\ r \in Mirrored
        BY <1>1, JobIsTyped, MirroredAreRows DEF RemovalKinds
    <2>2. Removals(r) = <<a>>
        BY <1>1 DEF Removals
    <2>3. <<a>> \in Seq(JobType) /\ DOMAIN <<a>> = {1} /\ <<a>>[1] = a
        BY <2>1, OneJob
    <2>4. r \notin Chapters
        BY <1>1, ProjectOwnsAll
    <2> HIDE DEF a
    <2> QED
        BY <1>1, <2>1, <2>2, <2>3, <2>4 DEF RemovalKinds
<1>2. CASE r # Project /\ r \in Chapters
    <2> DEFINE a == Job("file_delete", r, rows[r].placed)
    <2>1. r \in Mirrored /\ rows[r] \in Row
        BY <1>2, MirroredAreRows DEF BinInv, Tables
    <2>2. rows[r].placed \in BOOLEAN
        BY <2>1 DEF Row
    <2>3. /\ a \in JobType /\ a.kind = "file_delete" /\ a.row = r /\ a.status = "pending"
          /\ a.path = rows[r].placed
        BY <2>1, <2>2, JobIsTyped DEF RemovalKinds
    <2>4. Removals(r) = <<a, Rebuild>>
        BY <1>2 DEF Removals
    <2>5. /\ <<a, Rebuild>> \in Seq(JobType) /\ DOMAIN <<a, Rebuild>> = {1, 2}
          /\ <<a, Rebuild>>[1] = a /\ <<a, Rebuild>>[2] = Rebuild
        BY <2>3, RebuildIsTyped, TwoJobs
    <2> HIDE DEF a
    <2> QED
        BY <1>2, <2>1, <2>3, <2>4, <2>5, RebuildIsTyped DEF RemovalKinds
<1>3. CASE r # Project /\ r \notin Chapters
    <2>1. Removals(r) = <<>>
        BY <1>3 DEF Removals
    <2>2. <<>> \in Seq(JobType) /\ DOMAIN <<>> = {}
        OBVIOUS
    <2> QED
        BY <1>3, <2>1, <2>2
<1> QED
    BY <1>1, <1>2, <1>3

(* When no job runs, no thread is about to write a row that is not adrift. *)
LEMMA IdleIsNotStale ==
    ASSUME OutboxInv, FlightInv, Idle, ThreadsStand, adrift \subseteq adrift',
           NEW r \in Mirrored \ adrift', NEW t \in Workers
    PROVE  ~Stale(t, r)'
<1> SUFFICES ASSUME Gathered(t)', r \in DOMAIN threads'[t].view PROVE FALSE
    BY DEF Stale
<1>1. threads'[t] = threads[t] /\ Gathered(t) /\ InFlight(t) /\ threads[t].todo # <<>>
    BY DEF ThreadsStand, Gathered, InFlight, OutboxInv
<1>2. Head1(t) \in DOMAIN jobs
    BY <1>1, HeadIsJob
<1>3. JobOf(t).status # "running"
    BY <1>2 DEF Idle, JobOf
<1>4. Covers(JobOf(t)) \subseteq adrift /\ r \in Covers(JobOf(t))
    BY <1>1, <1>3 DEF FlightInv, Claimed, ViewFits
<1> QED
    BY <1>4

(* The files of the rows that go are to be fixed by the new removal, or    *)
(* there is none to remove. A chapter whose file no row records is adrift. *)
LEMMA DeletesKeeps ==
    ASSUME MirrorInv, NEW t \in Threads, NEW d \in Deletable, Deletes(t, d)
    PROVE  OutboxInv' /\ FlightInv' /\ RemovalsInv' /\ FilesInv'
<1> DEFINE new == Removals(d)
<1>1. /\ threads[t] = Resting /\ Idle /\ Delete(d) /\ Commits(t, jobs, new)
      /\ files' = files /\ adrift \subseteq adrift'
      /\ d \in Chapters /\ ~rows[d].placed /\ files[d] # None => d \in adrift'
    BY DEF Deletes, Serves
<1>2. /\ OutboxInv /\ FlightInv /\ BinInv /\ FilesInv /\ RemovalsInv /\ ProjectEntries
      /\ jobs \in Seq(JobType)
    BY DEF MirrorInv, OutboxInv
<1>3. \A x \in Mirrored :
          /\ d \in Mirrored => rows[d] # None
          /\ d = Project \/ d = x => rows'[x] = None
          /\ d # Project /\ d # x => SameText(rows[x], rows'[x])
    BY <1>1, <1>2, DeleteTakes
<1>4. d \in Mirrored => rows[d] # None
    BY <1>3, MirroredAreRows
<1>5. /\ new \in Seq(JobType) /\ DOMAIN new \in {{}, {1}, {1, 2}}
      /\ DOMAIN new = {1, 2} => new[1].kind # new[2].kind
      /\ \A n \in DOMAIN new :
            /\ new[n].status = "pending"
            /\ new[n].kind \in {"project"} \cup RemovalKinds
            /\ new[n].kind \in RemovalKinds => new[n].row = d /\ d \in Mirrored
            /\ new[n].kind = "project_delete" => d = Project
      /\ d = Project => DOMAIN new = {1} /\ new[1].kind = "project_delete"
      /\ d \in Chapters => /\ DOMAIN new = {1, 2} /\ d # Project
                           /\ new[1].kind = "file_delete" /\ new[1].row = d
                           /\ new[1].path = rows[d].placed
    BY <1>2, <1>4, RemovalsAreTyped
<1>6. PICK e \in entries' :
          /\ entries' = (entries \ Expired) \cup {e}
          /\ e.root = d /\ e.left = rows'
          /\ d = Project => \A x \in Mirrored : rows[x] # None => x \in Changed(e)
    BY <1>1, <1>2, DeleteRecords
<1> HIDE DEF new
<1>7. OutboxInv' /\ FlightInv' /\ OutboxGrows /\ ThreadsStand /\ AddedTo(jobs, new, jobs')
    BY <1>1, <1>2, <1>5, CommitsKeep
<1>8. ASSUME NEW i \in DOMAIN jobs'
      PROVE  \/ i \in DOMAIN jobs /\ jobs'[i] = jobs[i]
             \/ /\ jobs'[i].status = "pending"
                /\ jobs'[i].kind \in {"project"} \cup RemovalKinds
                /\ jobs'[i].kind \in RemovalKinds => jobs'[i].row = d /\ d \in Mirrored
                /\ jobs'[i].kind = "project_delete" => d = Project
    BY <1>5, <1>7 DEF AddedTo, IsAdded
<1>9. \A x \in Mirrored : rows[x] = None => rows'[x] = None
    BY <1>3 DEF SameText
<1>10. RemovalsInv'
    <2> SUFFICES ASSUME NEW i \in DOMAIN jobs', Unsettled(i)', jobs'[i].kind \in RemovalKinds
                 PROVE  rows'[jobs'[i].row] = None \/ Covers(jobs'[i]) \subseteq adrift'
        BY DEF RemovalsInv, Covers, Mirrored
    <2>1. CASE i \in DOMAIN jobs /\ jobs'[i] = jobs[i]
        <3>1. rows[jobs[i].row] = None \/ Covers(jobs[i]) \subseteq adrift
            BY <1>2, <2>1 DEF RemovalsInv, Unsettled
        <3>2. jobs[i].row \in Mirrored
            BY <1>2, <2>1 DEF JobType
        <3> QED
            BY <1>1, <1>9, <2>1, <3>1, <3>2
    <2>2. CASE jobs'[i].row = d /\ d \in Mirrored
        BY <1>3, <2>2
    <2> QED
        BY <1>8, <2>1, <2>2
<1>11. ASSUME NEW r \in Mirrored \ adrift'
       PROVE  (AsWanted(r) \/ \E i \in DOMAIN jobs : Fixes(r, i))'
    <2>1. AsWanted(r) \/ \E i \in DOMAIN jobs : Fixes(r, i)
        BY <1>1, <1>2 DEF FilesInv
    <2>2. DOMAIN jobs \subseteq DOMAIN jobs'
        BY <1>7 DEF OutboxGrows
    <2>3. ASSUME NEW i \in DOMAIN jobs
          PROVE  /\ i \in DOMAIN jobs' /\ jobs'[i].kind = jobs[i].kind
                 /\ jobs'[i].row = jobs[i].row
                 /\ Unsettled(i) => Unsettled(i)'
        BY <1>7, <1>8 DEF OutboxGrows, Unsettled, EndStatuses
    <2>4. CASE d = Project /\ rows[r] # None
        <3>1. PICK i \in DOMAIN jobs' : IsAdded(jobs, jobs', i, new[1])
            BY <1>5, <1>7, <2>4 DEF AddedTo
        <3>2. /\ jobs'[i].kind = "project_delete" /\ jobs'[i].status = "pending"
              /\ i \in DOMAIN jobs => jobs[i].status \in OpenStatuses
            BY <1>5, <2>4, <3>1 DEF IsAdded
        <3>3. \A f \in entries' : f.root = Project => r \in Changed(f)
            BY <1>2, <1>4, <1>6, <2>4, MirroredAreRows DEF ProjectEntries
        <3>4. rows'[r] = None
            BY <1>3, <2>4
        <3>5. Settles(r, i)'
            BY <3>2, <3>3, <3>4 DEF Settles, Changed
        <3>6. r \in Covers(jobs'[i])
            BY <3>2 DEF Covers
        <3>7. Fixes(r, i)'
            BY <1>2, <1>7, <3>2, <3>5, <3>6, AddedFixes
        <3> QED
            BY <3>7
    <2>5. CASE d = Project /\ rows[r] = None
        <3>1. SameText(rows[r], rows'[r])
            BY <1>3, <2>5 DEF SameText
        <3>2. Want(r)' = Want(r)
            BY <3>1, SameWant
        <3>3. ASSUME NEW i \in DOMAIN jobs, Unsettled(i), Settles(r, i)
              PROVE  (Unsettled(i) /\ Settles(r, i))'
            <4>1. ~(jobs[i].kind = "project_delete")
                <5> SUFFICES ASSUME jobs[i].kind = "project_delete" PROVE FALSE
                    OBVIOUS
                <5>1. r \in Covers(jobs[i]) /\ jobs[i].row = Project
                    BY <1>2 DEF Covers, JobType
                <5>2. rows[Project] = None
                    BY <1>1, <1>2, <3>3, <5>1, NoOpenRemoval DEF RemovalKinds
                <5> QED
                    BY <1>4, <2>5, <5>2, MirroredAreRows
            <4>2. jobs[i].kind = "file_delete" /\ jobs[i].row = r
                BY <2>5, <3>3, <4>1 DEF Settles
            <4>3. jobs'[i] = jobs[i]
                <5> SUFFICES ASSUME jobs'[i] # jobs[i] PROVE FALSE
                    OBVIOUS
                <5>1. PICK n \in DOMAIN new : IsAdded(jobs, jobs', i, new[n])
                    BY <1>7, <2>3 DEF AddedTo
                <5>2. jobs[i].kind = new[n].kind
                    BY <5>1 DEF IsAdded, Same
                <5> QED
                    BY <1>5, <2>5, <4>2, <5>2
            <4>4. Settles(r, i)'
                BY <2>3, <3>1, <3>3, <4>1, <4>3, StaysSettling DEF SameText
            <4> QED
                BY <2>3, <3>3, <4>4
        <3> QED
            BY <1>1, <1>2, <1>7, <2>1, <2>2, <3>2, <3>3, StandsGood
    <2>6. CASE d # Project /\ r = d
        <3>1. r \in Chapters /\ rows'[r] = None
            BY <1>3, <2>6 DEF Mirrored
        <3>2. CASE rows[r].placed
            <4>1. PICK i \in DOMAIN jobs' : IsAdded(jobs, jobs', i, new[1])
                BY <1>5, <1>7, <2>6, <3>1 DEF AddedTo
            <4>2. /\ jobs'[i].kind = "file_delete" /\ jobs'[i].row = r /\ jobs'[i].path
                  /\ jobs'[i].status = "pending"
                  /\ i \in DOMAIN jobs => jobs[i].status \in OpenStatuses
                BY <1>5, <2>6, <3>1, <3>2, <4>1 DEF IsAdded
            <4>3. Settles(r, i)' /\ r \in Covers(jobs'[i])
                BY <3>1, <4>2 DEF Settles, Covers
            <4>4. Fixes(r, i)'
                BY <1>2, <1>7, <4>2, <4>3, AddedFixes
            <4> QED
                BY <4>4
        <3>3. CASE ~rows[r].placed
            <4>1. files'[r] = None /\ Want(r)' = None
                BY <1>1, <2>6, <3>1, <3>3 DEF Want
            <4>2. \A u \in Workers : ~Stale(u, r)'
                BY <1>1, <1>2, <1>7, IdleIsNotStale
            <4> QED
                BY <4>1, <4>2 DEF AsWanted, Workers
        <3> QED
            BY <3>2, <3>3
    <2>7. CASE d # Project /\ r # d
        <3>1. SameText(rows[r], rows'[r])
            BY <1>3, <2>7
        <3>2. Want(r)' = Want(r)
            BY <3>1, SameWant
        <3>3. ASSUME NEW i \in DOMAIN jobs, Unsettled(i), Settles(r, i)
              PROVE  (Unsettled(i) /\ Settles(r, i))'
            <4>1. rows[r] = None /\ jobs[i].kind = "file_delete" => jobs'[i].path = jobs[i].path
                <5> SUFFICES ASSUME rows[r] = None, jobs[i].kind = "file_delete"
                             PROVE  jobs'[i] = jobs[i]
                    OBVIOUS
                <5>1. jobs[i].row = r
                    BY <3>3 DEF Settles
                <5> QED
                    BY <1>8, <2>3, <2>7, <5>1 DEF RemovalKinds
            <4>2. rows[r] = None /\ jobs[i].kind = "project_delete" =>
                      \A f \in entries' : f.root = Project => r \in Changed(f)
                BY <1>6, <2>7, <3>3 DEF Settles
            <4>3. Settles(r, i)'
                BY <2>3, <3>1, <3>3, <4>1, <4>2, StaysSettling DEF SameText
            <4> QED
                BY <2>3, <3>3, <4>3
        <3> QED
            BY <1>1, <1>2, <1>7, <2>1, <2>2, <3>2, <3>3, StandsGood
    <2> QED
        BY <2>4, <2>5, <2>6, <2>7
<1>12. FilesInv'
    BY <1>11 DEF FilesInv, Mirrored
<1> QED
    BY <1>7, <1>10, <1>12

(* The jobs a restore leaves: those that would take away what it gives     *)
(* back are cancelled.                                                     *)
LEMMA CancelledIsTyped ==
    ASSUME OutboxInv, NEW e
    PROVE  /\ Cancelled(e) \in Seq(JobType) /\ DOMAIN Cancelled(e) = DOMAIN jobs
           /\ \A i \in DOMAIN jobs :
                 /\ Cancelled(e)[i].kind = jobs[i].kind /\ Cancelled(e)[i].row = jobs[i].row
                 /\ Cancelled(e)[i].path = jobs[i].path
                 /\ Cancelled(e)[i] # jobs[i] => jobs[i].status \in OpenStatuses
                 /\ IF Outdated(e, jobs[i]) THEN Cancelled(e)[i].status = "cancelled"
                    ELSE Cancelled(e)[i] = jobs[i]
<1>1. jobs \in Seq(JobType) /\ DOMAIN jobs = 1..Len(jobs) /\ Len(jobs) \in Nat
    BY DEF OutboxInv
<1>2. ASSUME NEW i \in DOMAIN jobs
      PROVE  /\ Cancelled(e)[i] \in JobType
             /\ Cancelled(e)[i].kind = jobs[i].kind /\ Cancelled(e)[i].row = jobs[i].row
             /\ Cancelled(e)[i].path = jobs[i].path
             /\ Cancelled(e)[i] # jobs[i] => jobs[i].status \in OpenStatuses
             /\ IF Outdated(e, jobs[i]) THEN Cancelled(e)[i].status = "cancelled"
                ELSE Cancelled(e)[i] = jobs[i]
    <2>1. PICK job \in JobType : job = jobs[i]
        BY <1>1
    <2> DEFINE ended == [job EXCEPT !.status = "cancelled"]
    <2>2. /\ ended \in JobType /\ ended.status = "cancelled"
          /\ ended.kind = job.kind /\ ended.row = job.row /\ ended.path = job.path
        BY DEF JobType, EndStatuses
    <2>3. Cancelled(e)[i] = IF Outdated(e, job) THEN ended ELSE job
        BY <2>1 DEF Cancelled
    <2>4. Outdated(e, job) => job.status \in OpenStatuses
        BY DEF Outdated
    <2> HIDE DEF ended
    <2> QED
        BY <2>1, <2>2, <2>3, <2>4
<1>3. DOMAIN Cancelled(e) = 1..Len(jobs)
    BY <1>1 DEF Cancelled
<1>4. Cancelled(e) \in [1..Len(jobs) -> JobType]
    <2>1. Cancelled(e) = [i \in 1..Len(jobs) |-> Cancelled(e)[i]]
        BY <1>1 DEF Cancelled
    <2> QED
        BY <1>1, <1>2, <2>1
<1>5. Cancelled(e) \in Seq(JobType)
    BY <1>1, <1>4
<1> QED
    BY <1>1, <1>2, <1>3, <1>5

(* The files of the rows that come back are to be fixed by the new job of  *)
(* the project. No removal that is left open takes them away, and none     *)
(* that is cancelled was to fix a file of a row that stays gone.           *)
LEMMA RestoresKeeps ==
    ASSUME MirrorInv, NEW t \in Threads, NEW e \in entries, Restores(t, e)
    PROVE  OutboxInv' /\ FlightInv' /\ RemovalsInv' /\ FilesInv'
<1> DEFINE js == Cancelled(e)
           new == <<Rebuild>>
<1>1. /\ threads[t] = Resting /\ Idle /\ Restore(e) /\ Commits(t, js, new)
      /\ files' = files /\ adrift \subseteq adrift'
      /\ \A i \in DOMAIN jobs :
            Outdated(e, jobs[i]) /\ rows'[jobs[i].row] = None => jobs[i].row \in adrift'
    BY DEF Restores, Serves
<1>2. /\ OutboxInv /\ FlightInv /\ BinInv /\ EntriesInv /\ FilesInv /\ RemovalsInv
      /\ ProjectEntries /\ jobs \in Seq(JobType)
    BY DEF MirrorInv, OutboxInv
<1>3. \A x \in Mirrored :
          /\ x \in Changed(e) => rows'[x] # None
          /\ x \notin Changed(e) => rows'[x] = rows[x]
    BY <1>1, <1>2, RestoreGives, MirroredAreRows
<1>4. /\ js \in Seq(JobType) /\ DOMAIN js = DOMAIN jobs
      /\ \A i \in DOMAIN jobs :
            /\ js[i].kind = jobs[i].kind /\ js[i].row = jobs[i].row /\ js[i].path = jobs[i].path
            /\ js[i] # jobs[i] => jobs[i].status \in OpenStatuses
            /\ IF Outdated(e, jobs[i]) THEN js[i].status = "cancelled" ELSE js[i] = jobs[i]
    BY <1>2, CancelledIsTyped
<1>5. /\ new \in Seq(JobType) /\ DOMAIN new = {1} /\ new[1] = Rebuild
      /\ \A n \in DOMAIN new : new[n].status = "pending" /\ new[n].kind = "project"
    BY RebuildIsTyped, OneJob
<1> HIDE DEF js, new
<1>6. DOMAIN new \in {{}, {1}, {1, 2}} /\ DOMAIN new # {1, 2}
    BY <1>5
<1>7. OutboxInv' /\ FlightInv' /\ OutboxGrows /\ ThreadsStand /\ AddedTo(js, new, jobs')
    BY <1>1, <1>2, <1>4, <1>5, <1>6, CommitsKeep
<1>8. ASSUME NEW i \in DOMAIN jobs'
      PROVE  \/ i \in DOMAIN jobs /\ jobs'[i] = js[i]
             \/ jobs'[i].status = "pending" /\ jobs'[i].kind = "project"
    BY <1>4, <1>5, <1>7 DEF AddedTo, IsAdded
<1>9. entries' \subseteq entries
    BY <1>1 DEF Restore
<1>10. RemovalsInv'
    <2> SUFFICES ASSUME NEW i \in DOMAIN jobs', Unsettled(i)', jobs'[i].kind \in RemovalKinds
                 PROVE  rows'[jobs'[i].row] = None \/ Covers(jobs'[i]) \subseteq adrift'
        BY DEF RemovalsInv, Covers, Mirrored
    <2>1. i \in DOMAIN jobs /\ jobs'[i] = js[i]
        BY <1>8 DEF RemovalKinds
    <2>2. jobs'[i] = jobs[i] /\ ~Outdated(e, jobs[i])
        BY <1>4, <2>1 DEF Unsettled, EndStatuses
    <2>3. rows[jobs[i].row] = None \/ Covers(jobs[i]) \subseteq adrift
        BY <1>2, <2>1, <2>2 DEF RemovalsInv, Unsettled
    <2>4. jobs[i] \in JobType /\ jobs[i].row \in Mirrored
        BY <1>2, <2>1 DEF JobType
    <2>5. jobs[i].status \in OpenStatuses
        BY <1>1, <2>1, <2>2, <2>4 DEF Idle, JobType, Unsettled, OpenStatuses
    <2>6. jobs[i].row \notin Changed(e)
        BY <2>2, <2>5 DEF Outdated, RemovalKinds
    <2> QED
        BY <1>1, <1>3, <2>2, <2>3, <2>4, <2>6
<1>11. ASSUME NEW r \in Mirrored \ adrift'
       PROVE  (AsWanted(r) \/ \E i \in DOMAIN jobs : Fixes(r, i))'
    <2>1. CASE r \in Changed(e)
        <3>1. PICK i \in DOMAIN jobs' : IsAdded(js, jobs', i, Rebuild)
            BY <1>5, <1>7 DEF AddedTo
        <3>2. /\ jobs'[i].kind = "project" /\ jobs'[i].status = "pending"
              /\ i \in DOMAIN jobs => jobs[i].status \in OpenStatuses
            BY <1>4, <3>1, RebuildIsTyped DEF IsAdded
        <3>3. rows'[r] # None
            BY <1>3, <2>1
        <3>4. Settles(r, i)' /\ r \in Covers(jobs'[i])
            BY <3>2, <3>3 DEF Settles, Covers
        <3>5. Fixes(r, i)'
            BY <1>2, <1>7, <3>2, <3>4, AddedFixes
        <3> QED
            BY <3>5
    <2>2. CASE r \notin Changed(e)
        <3>1. rows'[r] = rows[r] /\ Want(r)' = Want(r)
            BY <1>3, <2>2 DEF Want
        <3>2. AsWanted(r) \/ \E i \in DOMAIN jobs : Fixes(r, i)
            BY <1>1, <1>2 DEF FilesInv
        <3>3. DOMAIN jobs \subseteq DOMAIN jobs'
            BY <1>7 DEF OutboxGrows
        <3>4. ASSUME NEW i \in DOMAIN jobs, Unsettled(i), Settles(r, i)
              PROVE  (Unsettled(i) /\ Settles(r, i))'
            <4>1. /\ i \in DOMAIN jobs' /\ jobs'[i].kind = jobs[i].kind
                  /\ jobs'[i].row = jobs[i].row
                BY <1>7 DEF OutboxGrows
            <4>2. ~Outdated(e, jobs[i])
                <5> SUFFICES ASSUME Outdated(e, jobs[i]) PROVE FALSE
                    OBVIOUS
                <5>1. jobs[i].kind \in RemovalKinds
                      /\ (e.root = Project \/ jobs[i].row \in Changed(e))
                    BY DEF Outdated, RemovalKinds
                <5>2. rows[r] = None
                    BY <3>4, <5>1 DEF Settles, RemovalKinds
                <5>3. CASE jobs[i].kind = "file_delete"
                    <6>1. jobs[i].row = r
                        BY <3>4, <5>2, <5>3 DEF Settles
                    <6> QED
                        BY <1>1, <3>1, <5>2, <6>1
                <5>4. CASE jobs[i].kind = "project_delete"
                    <6>1. r \in Covers(jobs[i]) /\ jobs[i].row = Project
                        BY <1>2, <5>4 DEF Covers, JobType
                    <6>2. rows[Project] = None
                        BY <1>1, <1>2, <3>4, <5>1, <6>1, NoOpenRemoval
                    <6>3. e.root = Project
                        BY <1>1, <1>2, <5>1, <6>1, <6>2, ProjectIsRestored
                    <6>4. r \in Changed(e)
                        BY <3>4, <5>2, <5>4, <6>3 DEF Settles
                    <6> QED
                        BY <2>2, <6>4
                <5> QED
                    BY <5>1, <5>3, <5>4 DEF RemovalKinds
            <4>3. jobs'[i] = jobs[i]
                  \/ (jobs'[i].status = "pending" /\ jobs'[i].kind = "project")
                BY <1>4, <1>8, <4>1, <4>2
            <4>4. Unsettled(i)'
                BY <3>4, <4>3 DEF Unsettled, EndStatuses
            <4>5. rows[r] = None /\ jobs[i].kind = "file_delete" => jobs'[i].path = jobs[i].path
                BY <4>1, <4>3
            <4>6. rows[r] = None /\ jobs[i].kind = "project_delete" =>
                      \A f \in entries' : f.root = Project => r \in Changed(f)
                BY <1>9, <3>4 DEF Settles
            <4>7. Settles(r, i)'
                BY <3>1, <3>4, <4>1, <4>5, <4>6, StaysSettling
            <4> QED
                BY <4>4, <4>7
        <3> QED
            BY <1>1, <1>2, <1>7, <3>1, <3>2, <3>3, <3>4, StandsGood
    <2> QED
        BY <2>1, <2>2
<1>12. FilesInv'
    BY <1>11 DEF FilesInv, Mirrored
<1> QED
    BY <1>7, <1>10, <1>12

(* Steps of the bin that touch neither the mirror nor what it shows.       *)
LEMMA BinStepsKeep ==
    ASSUME MirrorInv, UNCHANGED <<jobs, files, threads, adrift>>,
           \A x \in Mirrored : SameText(rows[x], rows'[x]),
           \A f \in entries' : \E e \in entries : f.root = e.root /\ f.changes = e.changes
    PROVE  OutboxInv' /\ FlightInv' /\ RemovalsInv' /\ FilesInv'
<1>1. OutboxInv /\ FlightInv /\ RemovalsInv /\ FilesInv /\ jobs \in Seq(JobType)
    BY DEF MirrorInv, OutboxInv
<1>2. OutboxInv'
    BY <1>1 DEF OutboxInv, Workers
<1>3. OutboxGrows /\ ThreadsStand
    BY <1>1 DEF OutboxGrows, ThreadsStand
<1>4. FlightInv'
    BY <1>1, <1>3, GrowthKeepsFlight
<1>5. RemovalsInv'
    <2> SUFFICES ASSUME NEW i \in DOMAIN jobs, Unsettled(i), jobs[i].kind \in RemovalKinds
                 PROVE  rows'[jobs[i].row] = None \/ Covers(jobs[i]) \subseteq adrift
        BY DEF RemovalsInv, Unsettled, Covers, Mirrored
    <2>1. rows[jobs[i].row] = None \/ Covers(jobs[i]) \subseteq adrift
        BY <1>1 DEF RemovalsInv
    <2>2. jobs[i].row \in Mirrored
        BY <1>1 DEF JobType
    <2> QED
        BY <2>1, <2>2 DEF SameText
<1>6. ASSUME NEW r \in Mirrored \ adrift'
      PROVE  (AsWanted(r) \/ \E i \in DOMAIN jobs : Fixes(r, i))'
    <2>1. SameText(rows[r], rows'[r]) /\ (rows[r] = None <=> rows'[r] = None)
        BY DEF SameText
    <2>2. Want(r)' = Want(r)
        BY <2>1, SameWant
    <2>3. AsWanted(r) \/ \E i \in DOMAIN jobs : Fixes(r, i)
        BY <1>1 DEF FilesInv
    <2>4. ASSUME NEW i \in DOMAIN jobs, Unsettled(i), Settles(r, i)
          PROVE  (Unsettled(i) /\ Settles(r, i))'
        <3>1. rows[r] = None /\ jobs[i].kind = "project_delete" =>
                  \A f \in entries' : f.root = Project => r \in Changed(f)
            BY <2>4 DEF Settles, Changed
        <3>2. Settles(r, i)'
            BY <2>1, <2>4, <3>1, StaysSettling
        <3>3. Unsettled(i)'
            BY <2>4 DEF Unsettled
        <3> QED
            BY <3>2, <3>3
    <2> QED
        BY <1>1, <1>3, <2>2, <2>3, <2>4, StandsGood
<1>7. FilesInv'
    BY <1>6 DEF FilesInv, Mirrored
<1> QED
    BY <1>2, <1>4, <1>5, <1>7

(***************************************************************************)
(* Restart                                                                 *)
(***************************************************************************)
LEMMA InterruptedIsTyped ==
    ASSUME OutboxInv
    PROVE  /\ Interrupted \in Seq(JobType) /\ DOMAIN Interrupted = DOMAIN jobs
           /\ \A i \in DOMAIN jobs :
                 /\ Interrupted[i].kind = jobs[i].kind /\ Interrupted[i].row = jobs[i].row
                 /\ Interrupted[i].path = jobs[i].path
                 /\ Interrupted[i].status \in EndStatuses <=> jobs[i].status \in EndStatuses
<1>1. jobs \in Seq(JobType) /\ DOMAIN jobs = 1..Len(jobs) /\ Len(jobs) \in Nat
    BY DEF OutboxInv
<1>2. ASSUME NEW i \in DOMAIN jobs
      PROVE  /\ Interrupted[i] \in JobType
             /\ Interrupted[i].kind = jobs[i].kind /\ Interrupted[i].row = jobs[i].row
             /\ Interrupted[i].path = jobs[i].path
             /\ Interrupted[i].status \in EndStatuses <=> jobs[i].status \in EndStatuses
    <2>1. PICK job \in JobType : job = jobs[i]
        BY <1>1
    <2> DEFINE ended == [job EXCEPT !.status = "failed"]
    <2>2. /\ ended \in JobType /\ ended.status = "failed"
          /\ ended.kind = job.kind /\ ended.row = job.row /\ ended.path = job.path
        BY DEF JobType, OpenStatuses
    <2>3. Interrupted[i] = IF job.status = "running" THEN ended ELSE job
        BY <2>1 DEF Interrupted
    <2> HIDE DEF ended
    <2> QED
        BY <2>1, <2>2, <2>3 DEF EndStatuses
<1>3. DOMAIN Interrupted = 1..Len(jobs)
    BY <1>1 DEF Interrupted
<1>4. Interrupted \in [1..Len(jobs) -> JobType]
    <2>1. Interrupted = [i \in 1..Len(jobs) |-> Interrupted[i]]
        BY <1>1 DEF Interrupted
    <2> QED
        BY <1>1, <1>2, <2>1
<1>5. Interrupted \in Seq(JobType)
    BY <1>1, <1>4
<1> QED
    BY <1>1, <1>2, <1>3, <1>5

(* A restart leaves each job open that was, and each that had ended; it    *)
(* may ask for the project again.                                          *)
LEMMA QueuedIsTyped ==
    ASSUME OutboxInv
    PROVE  /\ Queued \in Seq(JobType) /\ DOMAIN jobs \subseteq DOMAIN Queued
           /\ \A i \in DOMAIN Queued :
                 \/ /\ i \in DOMAIN jobs
                    /\ Queued[i].kind = jobs[i].kind /\ Queued[i].row = jobs[i].row
                    /\ Queued[i].path = jobs[i].path
                    /\ Queued[i].status \in EndStatuses <=> jobs[i].status \in EndStatuses
                 \/ /\ Queued[i] = Rebuild
                    /\ i \in DOMAIN jobs => jobs[i].kind = "project" /\ jobs[i].row = Project
           /\ Unmirrored => Openings(Queued, Rebuild) # {}
<1>1. /\ Interrupted \in Seq(JobType) /\ DOMAIN Interrupted = DOMAIN jobs
      /\ \A i \in DOMAIN jobs :
            /\ Interrupted[i].kind = jobs[i].kind /\ Interrupted[i].row = jobs[i].row
            /\ Interrupted[i].path = jobs[i].path
            /\ Interrupted[i].status \in EndStatuses <=> jobs[i].status \in EndStatuses
    BY InterruptedIsTyped
<1>2. CASE ~Unmirrored
    <2>1. Queued = Interrupted
        BY <1>2 DEF Queued
    <2> QED
        BY <1>1, <1>2, <2>1
<1>3. CASE Unmirrored
    <2> DEFINE after == Enqueued(Interrupted, Rebuild)
    <2>1. Queued = after
        BY <1>3 DEF Queued
    <2>2. /\ after \in Seq(JobType) /\ DOMAIN Interrupted \subseteq DOMAIN after
          /\ \A i \in DOMAIN after :
                \/ i \in DOMAIN Interrupted /\ after[i] = Interrupted[i]
                \/ IsAdded(Interrupted, after, i, Rebuild)
          /\ \E i \in DOMAIN after : IsAdded(Interrupted, after, i, Rebuild)
        BY <1>1, RebuildIsTyped, EnqueuedAdds
    <2> HIDE DEF after
    <2>3. \A i \in DOMAIN after : IsAdded(Interrupted, after, i, Rebuild) =>
              /\ after[i] = Rebuild
              /\ i \in DOMAIN jobs => jobs[i].kind = "project" /\ jobs[i].row = Project
        BY <1>1, RebuildIsTyped DEF IsAdded, Same
    <2>4. Openings(after, Rebuild) # {}
        BY <2>2, <2>3, RebuildIsTyped DEF Openings, Same, OpenStatuses
    <2> QED
        BY <1>1, <2>1, <2>2, <2>3, <2>4
<1> QED
    BY <1>2, <1>3

(* What the start-up recovery runs are jobs of the outbox.                 *)
LEMMA RecoveryIsTyped ==
    ASSUME OutboxInv, NEW waiting
    PROVE  /\ Recovery(waiting) \in Seq(Nat)
           /\ \A k \in DOMAIN Recovery(waiting) : Recovery(waiting)[k] \in DOMAIN Queued
<1> DEFINE D == DOMAIN Queued
           first == IF Unmirrored THEN <<Max(Openings(Queued, Rebuild))>> ELSE <<>>
           S == {i \in D \ (ToSet(first) \cup waiting) :
                    Queued[i].status \in OpenStatuses /\ Queued[i].tries < TryLimit}
           rest == InOrder(S)
<1>1. Queued \in Seq(JobType) /\ (Unmirrored => Openings(Queued, Rebuild) # {})
    BY QueuedIsTyped
<1>2. D = 1..Len(Queued) /\ Len(Queued) \in Nat
    BY <1>1
<1>3. IsFiniteSet(D) /\ D \in SUBSET Nat
    <2>1. IsFiniteSet(1..Len(Queued))
        BY <1>2, FS_Interval
    <2> QED
        BY <1>2, <2>1
<1>4. first \in Seq(D)
    <2>1. CASE Unmirrored
        <3>1. Max(Openings(Queued, Rebuild)) \in Openings(Queued, Rebuild)
            BY <1>1, <2>1, OpeningIsJob
        <3>2. Max(Openings(Queued, Rebuild)) \in D
            BY <3>1 DEF Openings
        <3> QED
            BY <2>1, <3>2
    <2>2. CASE ~Unmirrored
        BY <2>2
    <2> QED
        BY <2>1, <2>2
<1>5. S \in SUBSET D
    OBVIOUS
<1>6. Recovery(waiting) = first \o rest
    BY Zenon DEF Recovery
<1> HIDE DEF first, S, D
<1>7. IsFiniteSet(S) /\ S \in SUBSET Nat
    BY <1>3, <1>5, FS_Subset
<1>8. rest \in Seq(S)
    BY <1>7, InOrderIsOf
<1> HIDE DEF rest
<1>9. rest \in Seq(D)
    BY <1>5, <1>8
<1>10. first \o rest \in Seq(D)
    BY <1>4, <1>9
<1>11. Recovery(waiting) \in Seq(D)
    BY <1>6, <1>10
<1>12. Recovery(waiting) \in Seq(Nat)
    <2>1. PICK rec \in Seq(D) : rec = Recovery(waiting)
        BY <1>11
    <2>2. Len(rec) \in Nat /\ rec \in [1..Len(rec) -> D]
        OBVIOUS
    <2>3. rec \in [1..Len(rec) -> Nat]
        BY <1>3, <2>2
    <2>4. rec \in Seq(Nat)
        BY <2>2, <2>3
    <2> QED
        BY <2>1, <2>4
<1>13. \A k \in DOMAIN Recovery(waiting) : Recovery(waiting)[k] \in D
    BY <1>11
<1> QED
    BY <1>12, <1>13 DEF D

(* A restart puts every thread at rest, and leaves the jobs that were open *)
(* open, or asks for the project again.                                    *)
LEMMA RestartKeeps ==
    ASSUME MirrorInv, Restart
    PROVE  OutboxInv' /\ FlightInv' /\ RemovalsInv' /\ FilesInv'
<1>1. PICK waiting :
          threads' = [t \in Workers |->
              IF t = Boot THEN [Resting EXCEPT !.todo = Recovery(waiting)] ELSE Resting]
    BY DEF Restart
<1>2. /\ jobs' = Queued /\ rows' = rows /\ entries' = entries
      /\ files' = files /\ adrift' = adrift
    BY DEF Restart
<1>3. OutboxInv /\ RemovalsInv /\ FilesInv /\ jobs \in Seq(JobType)
    BY DEF MirrorInv, OutboxInv
<1>4. /\ jobs' \in Seq(JobType) /\ DOMAIN jobs \subseteq DOMAIN jobs'
      /\ \A i \in DOMAIN jobs' :
            \/ /\ i \in DOMAIN jobs
               /\ jobs'[i].kind = jobs[i].kind /\ jobs'[i].row = jobs[i].row
               /\ jobs'[i].path = jobs[i].path
               /\ jobs'[i].status \in EndStatuses <=> jobs[i].status \in EndStatuses
            \/ /\ jobs'[i].kind = "project" /\ jobs'[i].row = Project
               /\ jobs'[i].status = "pending"
               /\ i \in DOMAIN jobs => jobs[i].kind = "project" /\ jobs[i].row = Project
    BY <1>2, <1>3, QueuedIsTyped, RebuildIsTyped
<1>5. /\ Recovery(waiting) \in Seq(Nat)
      /\ \A k \in DOMAIN Recovery(waiting) : Recovery(waiting)[k] \in DOMAIN jobs'
    BY <1>2, <1>3, RecoveryIsTyped
<1>6. ASSUME NEW t \in Workers
      PROVE  /\ threads'[t] \in ThreadType /\ threads'[t].at = "rest"
             /\ \A k \in DOMAIN threads'[t].todo : threads'[t].todo[k] \in DOMAIN jobs'
    <2> DEFINE first == [Resting EXCEPT !.todo = Recovery(waiting)]
    <2>1. first \in ThreadType /\ first.at = "rest" /\ first.todo = Recovery(waiting)
        BY <1>5, RestIsTyped
    <2>2. Resting \in ThreadType /\ Resting.at = "rest" /\ Resting.todo = <<>>
        BY <1>5, RestIsTyped
    <2>3. threads'[t] = first \/ threads'[t] = Resting
        BY <1>1
    <2> HIDE DEF first
    <2> QED
        BY <1>5, <2>1, <2>2, <2>3
<1>7. threads' \in [Workers -> ThreadType]
    <2>1. threads' = [t \in Workers |-> threads'[t]]
        BY <1>1
    <2> QED
        BY <1>6, <2>1
<1>8. OutboxInv'
    BY <1>4, <1>6, <1>7 DEF OutboxInv, Workers
<1>9. \A t \in Workers : ~InFlight(t)' /\ ~Gathered(t)' /\ threads'[t].at # "looked"
    BY <1>6 DEF InFlight, Gathered
<1>10. FlightInv'
    <2>1. \A t \in Workers : SeenFits(t)' /\ ViewFits(t)' /\ Claimed(t)'
        BY <1>9 DEF SeenFits, ViewFits, Claimed
    <2>2. \A t, u \in Workers : Apart(t, u)'
        BY <1>9 DEF Apart
    <2> QED
        BY <2>1, <2>2 DEF FlightInv, Workers
<1>11. RemovalsInv'
    <2> SUFFICES ASSUME NEW i \in DOMAIN jobs', Unsettled(i)', jobs'[i].kind \in RemovalKinds
                 PROVE  rows'[jobs'[i].row] = None \/ Covers(jobs'[i]) \subseteq adrift'
        BY DEF RemovalsInv, Covers, Mirrored
    <2>1. /\ i \in DOMAIN jobs /\ jobs'[i].kind = jobs[i].kind /\ jobs'[i].row = jobs[i].row
          /\ jobs[i].status \notin EndStatuses
        BY <1>4 DEF RemovalKinds, Unsettled
    <2>2. Covers(jobs'[i]) = Covers(jobs[i])
        BY <2>1, SameCovers
    <2>3. rows[jobs[i].row] = None \/ Covers(jobs[i]) \subseteq adrift
        BY <1>3, <2>1 DEF RemovalsInv, Unsettled
    <2> QED
        BY <1>2, <2>1, <2>2, <2>3
<1>12. ASSUME NEW r \in Mirrored \ adrift'
       PROVE  (AsWanted(r) \/ \E i \in DOMAIN jobs : Fixes(r, i))'
    <2>1. AsWanted(r) \/ \E i \in DOMAIN jobs : Fixes(r, i)
        BY <1>2, <1>3 DEF FilesInv
    <2>2. Want(r)' = Want(r)
        BY <1>2 DEF Want
    <2>3. CASE AsWanted(r)
        <3>1. files'[r] = Want(r)'
            BY <1>2, <2>2, <2>3 DEF AsWanted
        <3>2. \A t \in Workers : ~Stale(t, r)'
            BY <1>9 DEF Stale
        <3> QED
            BY <3>1, <3>2 DEF AsWanted, Workers
    <2>4. CASE \E i \in DOMAIN jobs : Fixes(r, i)
        <3>1. PICK i \in DOMAIN jobs : Fixes(r, i)
            BY <2>4
        <3>2. Unsettled(i) /\ Settles(r, i)
            BY <3>1 DEF Fixes
        <3>3. i \in DOMAIN jobs' /\ jobs'[i].kind = jobs[i].kind /\ jobs'[i].row = jobs[i].row
              /\ (jobs'[i].path = jobs[i].path \/ jobs[i].kind = "project")
            BY <1>4
        <3>4. Unsettled(i)'
            BY <1>4, <3>2, <3>3 DEF Unsettled, EndStatuses
        <3>5. rows[r] = None /\ jobs[i].kind = "project_delete" =>
                  \A e \in entries' : e.root = Project => r \in Changed(e)
            BY <1>2, <3>2 DEF Settles
        <3>6. Settles(r, i)'
            BY <1>2, <3>2, <3>3, <3>5, StaysSettling
        <3>7. Fixes(r, i)'
            BY <1>9, <3>4, <3>6 DEF Fixes, Workers
        <3> QED
            BY <3>3, <3>7
    <2> QED
        BY <2>1, <2>3, <2>4
<1>13. FilesInv'
    BY <1>12 DEF FilesInv, Mirrored
<1> QED
    BY <1>8, <1>10, <1>11, <1>13

(***************************************************************************)
(* Running a job                                                           *)
(***************************************************************************)
(* What the steps of a thread leave: the texts of the rows, the other      *)
(* threads, and the jobs but for the status of the one it runs.            *)
RunFrame(t) ==
    /\ entries' = entries
    /\ \A x \in Mirrored : SameText(rows[x], rows'[x])
    /\ \A u \in Workers \ {t} : threads'[u] = threads[u]
    /\ DOMAIN jobs' = DOMAIN jobs
    /\ \A i \in DOMAIN jobs :
          /\ jobs'[i].kind = jobs[i].kind /\ jobs'[i].row = jobs[i].row
          /\ jobs'[i].path = jobs[i].path
          /\ i # Head1(t) => jobs'[i] = jobs[i]
    /\ adrift \subseteq adrift'

(* An open removal stays one of a row that is gone, or was closed before   *)
(* and is adrift.                                                          *)
LEMMA RunKeepsRemovals ==
    ASSUME OutboxInv, RemovalsInv, NEW t \in Workers, RunFrame(t), threads[t].todo # <<>>,
           jobs'[Head1(t)].status \notin EndStatuses =>
               JobOf(t).status \notin EndStatuses \/ Covers(JobOf(t)) \subseteq adrift'
    PROVE  RemovalsInv'
<1> SUFFICES ASSUME NEW i \in DOMAIN jobs', Unsettled(i)', jobs'[i].kind \in RemovalKinds
             PROVE  rows'[jobs'[i].row] = None \/ Covers(jobs'[i]) \subseteq adrift'
    BY DEF RemovalsInv, Covers, Mirrored
<1>1. i \in DOMAIN jobs /\ jobs'[i].kind = jobs[i].kind /\ jobs'[i].row = jobs[i].row
    BY DEF RunFrame
<1>2. Covers(jobs'[i]) = Covers(jobs[i])
    BY <1>1, SameCovers
<1>3. jobs[i] \in JobType
    BY <1>1, JobsAreTyped DEF OutboxInv
<1>4. jobs[i].row \in Mirrored
    BY <1>3 DEF JobType
<1>5. CASE Unsettled(i)
    <2>1. rows[jobs[i].row] = None \/ Covers(jobs[i]) \subseteq adrift
        BY <1>1, <1>5 DEF RemovalsInv
    <2> QED
        BY <1>1, <1>2, <1>4, <2>1 DEF RunFrame, SameText
<1>6. CASE ~Unsettled(i)
    <2>1. jobs'[i].status \notin EndStatuses /\ jobs[i].status \in EndStatuses
        BY <1>6 DEF Unsettled
    <2>2. i = Head1(t)
        BY <1>1, <2>1 DEF RunFrame
    <2>3. Covers(jobs[i]) \subseteq adrift'
        BY <2>1, <2>2 DEF JobOf
    <2> QED
        BY <1>2, <2>3
<1> QED
    BY <1>5, <1>6

(* A job that is to fix a file still is, if it is open and its thread has  *)
(* not read anything else.                                                 *)
LEMMA RunKeepsFixes ==
    ASSUME OutboxInv, NEW t \in Workers, RunFrame(t), NEW r \in Mirrored,
           NEW i \in DOMAIN jobs, Fixes(r, i), Unsettled(i)',
           InFlight(t)' /\ Head1(t)' = i => Serving(t, r)'
    PROVE  Fixes(r, i)' /\ i \in DOMAIN jobs'
<1>1. SameText(rows[r], rows'[r]) /\ (rows[r] = None <=> rows'[r] = None)
    BY DEF RunFrame, SameText
<1>2. Want(r)' = Want(r)
    BY <1>1, SameWant
<1>3. ASSUME NEW u \in Workers, InFlight(u)', Head1(u)' = i
      PROVE  Serving(u, r)'
    <2>1. CASE u = t
        BY <1>3, <2>1
    <2>2. CASE u # t
        <3>1. threads'[u] = threads[u]
            BY <2>2 DEF RunFrame
        <3>2. InFlight(u) /\ Head1(u) = i
            BY <1>3, <3>1 DEF InFlight, Head1
        <3>3. Serving(u, r)
            BY <3>2 DEF Fixes
        <3> QED
            BY <1>2, <3>1, <3>3 DEF Serving, Gathered
    <2> QED
        BY <2>1, <2>2
<1>4. i \in DOMAIN jobs' /\ jobs'[i].kind = jobs[i].kind /\ jobs'[i].row = jobs[i].row
      /\ jobs'[i].path = jobs[i].path
    BY DEF RunFrame
<1>5. Settles(r, i)
    BY DEF Fixes
<1>6. rows[r] = None /\ jobs[i].kind = "project_delete" =>
          \A e \in entries' : e.root = Project => r \in Changed(e)
    BY <1>5 DEF Settles, RunFrame
<1>7. Settles(r, i)'
    BY <1>1, <1>4, <1>5, <1>6, StaysSettling
<1> QED
    BY <1>3, <1>4, <1>7 DEF Fixes, Workers

(* What a step of a thread must show for a file: that it stays right, and  *)
(* that the jobs to fix it stay.                                           *)
LEMMA RunKeepsGood ==
    ASSUME OutboxInv, NEW t \in Workers, RunFrame(t), NEW r \in Mirrored,
           AsWanted(r) \/ \E i \in DOMAIN jobs : Fixes(r, i),
           AsWanted(r) => files'[r] = Want(r) /\ ~Stale(t, r)',
           \A i \in DOMAIN jobs : Fixes(r, i) =>
               Unsettled(i)' /\ (InFlight(t)' /\ Head1(t)' = i => Serving(t, r)')
    PROVE  (AsWanted(r) \/ \E i \in DOMAIN jobs : Fixes(r, i))'
<1>1. CASE AsWanted(r)
    <2>1. Want(r)' = Want(r)
        BY SameWant DEF RunFrame
    <2>2. ASSUME NEW u \in Workers PROVE ~Stale(u, r)'
        <3>1. CASE u = t
            BY <1>1, <3>1
        <3>2. CASE u # t
            <4>1. threads'[u] = threads[u] /\ ~Stale(u, r)
                BY <1>1, <3>2 DEF RunFrame, AsWanted
            <4> QED
                BY <2>1, <4>1 DEF Stale, Gathered
        <3> QED
            BY <3>1, <3>2
    <2> QED
        BY <1>1, <2>1, <2>2 DEF AsWanted, Workers
<1>2. CASE \E i \in DOMAIN jobs : Fixes(r, i)
    <2>1. PICK i \in DOMAIN jobs : Fixes(r, i)
        BY <1>2
    <2>2. Unsettled(i)' /\ (InFlight(t)' /\ Head1(t)' = i => Serving(t, r)')
        BY <2>1
    <2>3. Fixes(r, i)' /\ i \in DOMAIN jobs'
        BY <2>1, <2>2, RunKeepsFixes
    <2> QED
        BY <2>3
<1> QED
    BY <1>1, <1>2

(* Looking at a job and giving it up change no file and no job.            *)
LEMMA GroundedRuns ==
    ASSUME MirrorInv, NEW t \in Workers, threads[t].todo # <<>>,
           UNCHANGED <<rows, entries, jobs, files, adrift>>,
           \A u \in Workers \ {t} : threads'[u] = threads[u],
           threads'[t].at \in {"rest", "looked"}
    PROVE  RemovalsInv' /\ FilesInv'
<1>1. OutboxInv /\ RemovalsInv /\ FilesInv
    BY DEF MirrorInv
<1>2. RunFrame(t)
    BY DEF RunFrame, SameText
<1>3. RemovalsInv'
    BY <1>1, <1>2, RunKeepsRemovals DEF JobOf
<1>4. ~InFlight(t)' /\ ~Gathered(t)'
    BY DEF InFlight, Gathered
<1>5. ASSUME NEW r \in Mirrored \ adrift'
      PROVE  (AsWanted(r) \/ \E i \in DOMAIN jobs : Fixes(r, i))'
    <2>1. AsWanted(r) \/ \E i \in DOMAIN jobs : Fixes(r, i)
        BY <1>1 DEF FilesInv
    <2>2. AsWanted(r) => files'[r] = Want(r) /\ ~Stale(t, r)'
        BY <1>4 DEF AsWanted, Stale
    <2>3. \A i \in DOMAIN jobs : Fixes(r, i) => Unsettled(i)'
        BY DEF Fixes, Unsettled
    <2> QED
        BY <1>1, <1>2, <1>4, <2>1, <2>2, <2>3, RunKeepsGood
<1>6. FilesInv'
    BY <1>5 DEF FilesInv, Mirrored
<1> QED
    BY <1>3, <1>6

(* A job that is taken is open and has read nothing.                       *)
LEMMA TakeRuns ==
    ASSUME MirrorInv, NEW t \in Workers, Take(t)
    PROVE  RemovalsInv' /\ FilesInv'
<1>1. OutboxInv /\ FlightInv /\ RemovalsInv /\ FilesInv
    BY DEF MirrorInv
<1> DEFINE seen == threads[t].seen
           status == IF seen.status = "running" THEN JobOf(t).status ELSE "running"
<1>2. threads[t].todo # <<>> /\ WritesHead(t, status)
    BY <1>1, TakeWrites
<1>3. /\ \A u \in Workers \ {t} : threads'[u] = threads[u]
      /\ threads'[t].at = "taken"
    BY <1>1, TakeKeeps
<1>4. /\ rows' = rows /\ entries' = entries /\ files' = files /\ adrift \subseteq adrift'
      /\ (jobs[Head1(t)] = seen /\ seen.status # "running") \/ Covers(seen) \subseteq adrift'
    BY DEF Take
<1>5. RunFrame(t)
    BY <1>2, <1>3, <1>4 DEF RunFrame, SameText, WritesHead
<1>6. /\ seen.status \notin EndStatuses
      /\ Covers(seen) = Covers(JobOf(t))
    <2>1. SeenFits(t) /\ threads[t].at = "looked"
        BY <1>1 DEF FlightInv, Take
    <2> QED
        BY <2>1, SameCovers DEF SeenFits
<1>7. JobOf(t).status \notin EndStatuses \/ Covers(JobOf(t)) \subseteq adrift'
    BY <1>4, <1>6 DEF JobOf
<1>8. RemovalsInv'
    BY <1>1, <1>2, <1>5, <1>7, RunKeepsRemovals
<1>9. ~Gathered(t)' /\ threads'[t].at # "written"
    BY <1>3 DEF Gathered
<1>10. ASSUME NEW r \in Mirrored \ adrift'
       PROVE  (AsWanted(r) \/ \E i \in DOMAIN jobs : Fixes(r, i))'
    <2>1. AsWanted(r) \/ \E i \in DOMAIN jobs : Fixes(r, i)
        BY <1>1, <1>4 DEF FilesInv
    <2>2. AsWanted(r) => files'[r] = Want(r) /\ ~Stale(t, r)'
        BY <1>4, <1>9 DEF AsWanted, Stale
    <2>3. ASSUME NEW i \in DOMAIN jobs, Fixes(r, i)
          PROVE  Unsettled(i)'
        <3>1. jobs[i].status \notin EndStatuses
            BY <2>3 DEF Fixes, Unsettled
        <3>2. jobs'[i].status = jobs[i].status \/ jobs'[i].status = "running"
            BY <1>2 DEF WritesHead, JobOf
        <3> QED
            BY <3>1, <3>2 DEF Unsettled, EndStatuses
    <2>4. Serving(t, r)'
        BY <1>9 DEF Serving
    <2> QED
        BY <1>1, <1>5, <2>1, <2>2, <2>3, <2>4, RunKeepsGood
<1>11. FilesInv'
    BY <1>10 DEF FilesInv, Mirrored
<1> QED
    BY <1>8, <1>11

(* With its project a row of the mirror is gone.                           *)
LEMMA OrphansAreGone ==
    ASSUME BinInv, rows[Project] = None, NEW r \in Mirrored
    PROVE  rows[r] = None
<1>1. CASE r = Project
    BY <1>1
<1>2. CASE r # Project
    <2>1. r \in Chapters /\ Owners[r] = {Project}
        BY <1>2, ChaptersHangOnProject DEF Mirrored
    <2>2. r \in Rows /\ Project \in Rows
        BY MirroredAreRows
    <2>3. rows[r] # None => Project \in Here(rows)
        BY <2>1, <2>2 DEF BinInv, ReferencesHold, Linked, Here
    <2> QED
        BY <2>3 DEF Here
<1> QED
    BY <1>1, <1>2

(* What a job reads for a row it settles is what the row wants.            *)
LEMMA SettlingReads ==
    ASSUME OutboxInv, NEW i \in DOMAIN jobs, NEW r \in Mirrored, Settles(r, i)
    PROVE  r \in DOMAIN Projection(jobs[i]) /\ Projection(jobs[i])[r] = Want(r)
<1>1. r \in Rows
    BY MirroredAreRows
<1>2. CASE rows[r] # None
    <2>1. jobs[i].kind = "project" \/ (jobs[i].kind = "chapter" /\ jobs[i].row = r)
        BY <1>2 DEF Settles
    <2>2. Projection(jobs[i]) = [x \in Covers(jobs[i]) \cap Here(rows) |-> rows[x].text]
        BY <2>1 DEF Projection
    <2>3. r \in Covers(jobs[i]) \cap Here(rows)
        BY <1>1, <1>2, <2>1 DEF Covers, Here
    <2> QED
        BY <1>2, <2>2, <2>3 DEF Want
<1>3. CASE rows[r] = None /\ jobs[i].kind = "file_delete"
    <2>1. jobs[i].row = r /\ jobs[i].path
        BY <1>3 DEF Settles
    <2>2. Projection(jobs[i]) = [x \in {jobs[i].row} |-> None]
        BY <1>3, <2>1 DEF Projection
    <2> QED
        BY <1>3, <2>1, <2>2 DEF Want
<1>4. CASE rows[r] = None /\ jobs[i].kind = "project_delete"
    <2>1. Projection(jobs[i]) = [x \in Mirrored |-> None]
        BY <1>4 DEF Projection
    <2> QED
        BY <1>4, <2>1 DEF Want
<1> QED
    BY <1>2, <1>3, <1>4 DEF Settles

(* An open job reads nothing but what the rows want.                       *)
LEMMA ClaimedReads ==
    ASSUME MirrorInv, NEW i \in DOMAIN jobs, Unsettled(i),
           NEW r \in DOMAIN Projection(jobs[i]), r \in Mirrored \ adrift
    PROVE  Projection(jobs[i])[r] = Want(r)
<1>1. BinInv /\ OutboxInv /\ RemovalsInv
    BY DEF MirrorInv
<1>2. jobs[i] \in JobType
    BY <1>1, JobsAreTyped DEF OutboxInv
<1>3. r \in Covers(jobs[i])
    BY <1>1, <1>2, ProjectionIsTyped
<1>4. jobs[i].kind \in RemovalKinds => rows[jobs[i].row] = None
    BY <1>1, <1>3 DEF RemovalsInv
<1>5. CASE jobs[i].kind = "project_delete"
    <2>1. Projection(jobs[i]) = [x \in Mirrored |-> None]
        BY <1>5 DEF Projection
    <2>2. jobs[i].row = Project
        BY <1>2, <1>5 DEF JobType
    <2>3. rows[r] = None
        BY <1>1, <1>4, <1>5, <2>2, OrphansAreGone DEF RemovalKinds
    <2> QED
        BY <2>1, <2>3 DEF Want
<1>6. CASE jobs[i].kind = "file_delete"
    <2>1. Projection(jobs[i]) = IF jobs[i].path THEN [x \in {jobs[i].row} |-> None] ELSE <<>>
        BY <1>6 DEF Projection
    <2>2. jobs[i].path
        BY <2>1
    <2>3. Projection(jobs[i]) = [x \in {jobs[i].row} |-> None]
        BY <2>1, <2>2
    <2>4. r = jobs[i].row
        BY <2>3
    <2> QED
        BY <1>4, <1>6, <2>3, <2>4 DEF Want, RemovalKinds
<1>7. CASE jobs[i].kind \notin RemovalKinds
    <2>1. Projection(jobs[i]) = [x \in Covers(jobs[i]) \cap Here(rows) |-> rows[x].text]
        BY <1>7 DEF Projection, RemovalKinds
    <2>2. r \in Here(rows)
        BY <2>1
    <2> QED
        BY <2>1, <2>2 DEF Want, Here
<1> QED
    BY <1>5, <1>6, <1>7 DEF RemovalKinds

(* A job that is to fix a file has read what it wants, and none that is    *)
(* open has read anything else.                                            *)
LEMMA GatherRuns ==
    ASSUME MirrorInv, NEW t \in Workers, Gather(t)
    PROVE  RemovalsInv' /\ FilesInv'
<1>1. BinInv /\ OutboxInv /\ FlightInv /\ RemovalsInv /\ FilesInv
    BY DEF MirrorInv
<1>2. /\ \A u \in Workers \ {t} : threads'[u] = threads[u]
      /\ threads'[t].at = "gathered" /\ threads'[t].view = Projection(JobOf(t))
      /\ threads'[t].todo = threads[t].todo
    BY <1>1, GatherKeeps
<1>3. /\ rows' = rows /\ entries' = entries /\ jobs' = jobs /\ files' = files
      /\ adrift \subseteq adrift' /\ threads[t].at = "taken"
    BY DEF Gather
<1>4. threads[t].todo # <<>> /\ InFlight(t)
    BY <1>1, <1>3 DEF OutboxInv, InFlight
<1>5. Head1(t) \in DOMAIN jobs /\ JobOf(t) = jobs[Head1(t)] /\ JobOf(t) \in JobType
    BY <1>1, <1>4, HeadIsJob DEF JobOf
<1>6. RunFrame(t)
    BY <1>2, <1>3 DEF RunFrame, SameText
<1>7. RemovalsInv'
    BY <1>1, <1>3, <1>4, <1>6, RunKeepsRemovals DEF JobOf
<1>8. Head1(t)' = Head1(t)
    BY <1>2 DEF Head1
<1>9. ASSUME NEW r \in Mirrored \ adrift'
      PROVE  (AsWanted(r) \/ \E i \in DOMAIN jobs : Fixes(r, i))'
    <2>1. AsWanted(r) \/ \E i \in DOMAIN jobs : Fixes(r, i)
        BY <1>1, <1>3 DEF FilesInv
    <2>2. Want(r)' = Want(r) /\ r \in Mirrored \ adrift
        BY <1>3 DEF Want
    <2>3. r \in DOMAIN Projection(JobOf(t)) => Projection(JobOf(t))[r] = Want(r)
        <3> SUFFICES ASSUME r \in DOMAIN Projection(JobOf(t))
                     PROVE  Projection(JobOf(t))[r] = Want(r)
            OBVIOUS
        <3>1. r \in Covers(JobOf(t))
            BY <1>1, <1>5, ProjectionIsTyped
        <3>2. JobOf(t).status = "running"
            BY <1>1, <1>4, <2>2, <3>1 DEF FlightInv, Claimed
        <3>3. Unsettled(Head1(t))
            BY <1>5, <3>2 DEF Unsettled, EndStatuses
        <3> QED
            BY <1>5, <2>2, <3>3, ClaimedReads
    <2>4. AsWanted(r) => files'[r] = Want(r) /\ ~Stale(t, r)'
        BY <1>2, <1>3, <2>2, <2>3 DEF AsWanted, Stale
    <2>5. ASSUME NEW i \in DOMAIN jobs, Fixes(r, i)
          PROVE  Unsettled(i)' /\ (InFlight(t)' /\ Head1(t)' = i => Serving(t, r)')
        <3>1. Unsettled(i)' /\ Settles(r, i)
            BY <1>3, <2>5 DEF Fixes, Unsettled
        <3>2. ASSUME Head1(t) = i PROVE Serving(t, r)'
            <4>1. r \in DOMAIN Projection(JobOf(t)) /\ Projection(JobOf(t))[r] = Want(r)
                BY <1>1, <1>5, <3>1, <3>2, SettlingReads
            <4> QED
                BY <1>2, <2>2, <4>1 DEF Serving
        <3> QED
            BY <1>8, <3>1, <3>2
    <2> QED
        BY <1>1, <1>6, <2>1, <2>4, <2>5, RunKeepsGood
<1>10. FilesInv'
    BY <1>9 DEF FilesInv, Mirrored
<1> QED
    BY <1>7, <1>10

(* A file that is written is right, or another job is to fix it: the       *)
(* thread that wrote it was not, as it had read something else.            *)
LEMMA WriteRuns ==
    ASSUME MirrorInv, NEW t \in Workers, Write(t)
    PROVE  RemovalsInv' /\ FilesInv'
<1>1. OutboxInv /\ FlightInv /\ RemovalsInv /\ FilesInv
    BY DEF MirrorInv
<1>2. /\ \A u \in Workers \ {t} : threads'[u] = threads[u]
      /\ threads'[t].at = "written" /\ threads'[t].todo = threads[t].todo
    BY <1>1, WriteKeeps
<1> DEFINE view == threads[t].view
<1>3. /\ rows' = rows /\ entries' = entries /\ jobs' = jobs /\ adrift' = adrift
      /\ threads[t].at = "gathered"
      /\ files' = [r \in Mirrored |-> IF r \in DOMAIN view THEN view[r] ELSE files[r]]
    BY DEF Write, Written
<1>4. threads[t].todo # <<>> /\ InFlight(t) /\ Gathered(t)
    BY <1>1, <1>3 DEF OutboxInv, InFlight, Gathered
<1>5. RunFrame(t)
    BY <1>2, <1>3 DEF RunFrame, SameText
<1>6. RemovalsInv'
    BY <1>1, <1>3, <1>4, <1>5, RunKeepsRemovals DEF JobOf
<1>7. Head1(t)' = Head1(t) /\ ~Gathered(t)'
    BY <1>2 DEF Head1, Gathered
<1>8. ASSUME NEW r \in Mirrored \ adrift'
      PROVE  (AsWanted(r) \/ \E i \in DOMAIN jobs : Fixes(r, i))'
    <2>1. AsWanted(r) \/ \E i \in DOMAIN jobs : Fixes(r, i)
        BY <1>1, <1>3 DEF FilesInv
    <2>2. Want(r)' = Want(r)
        BY <1>3 DEF Want
    <2>3. CASE r \in DOMAIN view /\ view[r] = Want(r)
        <3>1. files'[r] = Want(r)'
            BY <1>3, <2>2, <2>3
        <3>2. ASSUME NEW u \in Workers PROVE ~Stale(u, r)'
            <4>1. CASE u = t
                BY <1>7, <4>1 DEF Stale
            <4>2. CASE u # t
                <5>1. threads'[u] = threads[u] /\ Apart(t, u)
                    BY <1>1, <1>2, <4>2 DEF FlightInv
                <5>2. ~(Gathered(u) /\ r \in DOMAIN threads[u].view)
                    BY <1>3, <1>4, <2>3, <5>1 DEF Apart
                <5> QED
                    BY <5>1, <5>2 DEF Stale, Gathered
            <4> QED
                BY <4>1, <4>2
        <3> QED
            BY <3>1, <3>2 DEF AsWanted, Workers
    <2>4. CASE ~(r \in DOMAIN view /\ view[r] = Want(r))
        <3>1. AsWanted(r) => files'[r] = Want(r) /\ ~Stale(t, r)'
            BY <1>3, <1>4, <1>7, <2>4 DEF AsWanted, Stale
        <3>2. ASSUME NEW i \in DOMAIN jobs, Fixes(r, i)
              PROVE  Unsettled(i)' /\ Head1(t)' # i
            <4>1. Unsettled(i)'
                BY <1>3, <3>2 DEF Fixes, Unsettled
            <4>2. ~Serving(t, r)
                BY <1>4, <2>4 DEF Serving
            <4> QED
                BY <1>4, <1>7, <3>2, <4>1, <4>2 DEF Fixes
        <3> QED
            BY <1>1, <1>5, <2>1, <3>1, <3>2, RunKeepsGood
    <2> QED
        BY <2>3, <2>4
<1>9. FilesInv'
    BY <1>8 DEF FilesInv, Mirrored
<1> QED
    BY <1>6, <1>9

(* A job that ends has written its files: it was to fix none.              *)
LEMMA FinishRuns ==
    ASSUME MirrorInv, NEW t \in Workers, Finish(t)
    PROVE  OutboxInv' /\ FlightInv' /\ RemovalsInv' /\ FilesInv'
<1> DEFINE status == IF threads[t].seen = None THEN "completed" ELSE JobOf(t).status
<1>1. BinInv /\ OutboxInv /\ FlightInv /\ RemovalsInv /\ FilesInv
    BY DEF MirrorInv
<1>2. /\ threads[t].at = "written" /\ Place(Projected(t)) /\ Ends(t, status)
      /\ files' = files /\ adrift' = adrift
    BY DEF Finish, JobOf
<1>3. threads[t].todo # <<>> /\ InFlight(t)
    BY <1>1, <1>2 DEF OutboxInv, InFlight
<1>4. Head1(t) \in DOMAIN jobs /\ JobOf(t) = jobs[Head1(t)] /\ JobOf(t) \in JobType
    BY <1>1, <1>3, HeadIsJob DEF JobOf
<1>5. status \in {"running"} \cup OpenStatuses \cup EndStatuses
      /\ (status \in EndStatuses \/ status = JobOf(t).status)
    BY <1>4 DEF JobType, EndStatuses
<1> HIDE DEF status
<1>6. /\ OutboxInv' /\ FlightInv'
      /\ \A u \in Workers \ {t} : threads'[u] = threads[u]
      /\ threads'[t].at = "rest"
    BY <1>1, <1>2, <1>3, <1>5, EndsKeeps
<1>7. WritesHead(t, status)
    BY <1>1, <1>2, <1>3, <1>5, EndsWrites
<1>8. entries' = entries /\ \A x \in Mirrored : SameText(rows[x], rows'[x])
    BY <1>1, <1>2, PlaceKeepsText, MirroredAreRows DEF Place
<1>9. RunFrame(t)
    BY <1>2, <1>6, <1>7, <1>8 DEF RunFrame, WritesHead
<1>10. RemovalsInv'
    BY <1>1, <1>3, <1>5, <1>7, <1>9, RunKeepsRemovals DEF WritesHead
<1>11. ~InFlight(t)' /\ ~Gathered(t)'
    BY <1>6 DEF InFlight, Gathered
<1>12. ASSUME NEW r \in Mirrored \ adrift'
       PROVE  (AsWanted(r) \/ \E i \in DOMAIN jobs : Fixes(r, i))'
    <2>1. AsWanted(r) \/ \E i \in DOMAIN jobs : Fixes(r, i)
        BY <1>1, <1>2 DEF FilesInv
    <2>2. AsWanted(r) => files'[r] = Want(r) /\ ~Stale(t, r)'
        BY <1>2, <1>11 DEF AsWanted, Stale
    <2>3. ASSUME NEW i \in DOMAIN jobs, Fixes(r, i)
          PROVE  Unsettled(i)'
        <3>1. i # Head1(t)
            BY <1>2, <1>3, <2>3 DEF Fixes, Serving
        <3>2. jobs'[i] = jobs[i]
            BY <1>7, <3>1 DEF WritesHead
        <3> QED
            BY <2>3, <3>2 DEF Fixes, Unsettled
    <2> QED
        BY <1>1, <1>9, <1>11, <2>1, <2>2, <2>3, RunKeepsGood
<1>13. FilesInv'
    BY <1>12 DEF FilesInv, Mirrored
<1> QED
    BY <1>6, <1>10, <1>13

(* A job that fails is open, and what it has written of its files was      *)
(* right, or is to be fixed.                                               *)
LEMMA FailRuns ==
    ASSUME MirrorInv, NEW t \in Workers, Fail(t)
    PROVE  OutboxInv' /\ FlightInv' /\ RemovalsInv' /\ FilesInv'
<1>1. OutboxInv /\ FlightInv /\ RemovalsInv /\ FilesInv
    BY DEF MirrorInv
<1>2. /\ InFlight(t) /\ Ends(t, "failed")
      /\ rows' = rows /\ entries' = entries /\ adrift' = adrift
    BY DEF Fail, InFlight
<1>3. threads[t].todo # <<>>
    BY <1>1, <1>2 DEF OutboxInv, InFlight
<1>4. /\ OutboxInv' /\ FlightInv'
      /\ \A u \in Workers \ {t} : threads'[u] = threads[u]
      /\ threads'[t].at = "rest"
    BY <1>1, <1>2, EndsKeeps DEF OpenStatuses
<1>5. WritesHead(t, "failed")
    BY <1>1, <1>2, <1>3, EndsWrites DEF OpenStatuses
<1>6. RunFrame(t)
    BY <1>2, <1>4, <1>5 DEF RunFrame, SameText, WritesHead
<1>7. JobOf(t).status \notin EndStatuses \/ Covers(JobOf(t)) \subseteq adrift'
    BY <1>1, <1>2 DEF FlightInv, Claimed, EndStatuses
<1>8. RemovalsInv'
    BY <1>1, <1>3, <1>6, <1>7, RunKeepsRemovals
<1>9. ~InFlight(t)' /\ ~Gathered(t)'
    BY <1>4 DEF InFlight, Gathered
<1>10. ASSUME NEW r \in Mirrored
       PROVE  \/ files'[r] = files[r]
              \/ /\ Gathered(t) /\ r \in DOMAIN threads[t].view
                 /\ files'[r] = threads[t].view[r]
    <2>1. CASE threads[t].at = "gathered"
        <3>1. PICK S \in SUBSET DOMAIN threads[t].view : files' = Written(threads[t].view, S)
            BY <2>1 DEF Fail
        <3> QED
            BY <2>1, <3>1 DEF Written, Gathered
    <2>2. CASE threads[t].at # "gathered"
        BY <2>2 DEF Fail
    <2> QED
        BY <2>1, <2>2
<1>11. ASSUME NEW r \in Mirrored \ adrift'
       PROVE  (AsWanted(r) \/ \E i \in DOMAIN jobs : Fixes(r, i))'
    <2>1. AsWanted(r) \/ \E i \in DOMAIN jobs : Fixes(r, i)
        BY <1>1, <1>2 DEF FilesInv
    <2>2. AsWanted(r) => files'[r] = Want(r) /\ ~Stale(t, r)'
        BY <1>9, <1>10 DEF AsWanted, Stale
    <2>3. ASSUME NEW i \in DOMAIN jobs, Fixes(r, i)
          PROVE  Unsettled(i)'
        <3>1. jobs'[i] = jobs[i] \/ jobs'[i].status = "failed"
            BY <1>5 DEF WritesHead
        <3> QED
            BY <2>3, <3>1 DEF Fixes, Unsettled, EndStatuses
    <2> QED
        BY <1>1, <1>6, <1>9, <2>1, <2>2, <2>3, RunKeepsGood
<1>12. FilesInv'
    BY <1>11 DEF FilesInv, Mirrored
<1> QED
    BY <1>4, <1>8, <1>12

(* The steps of a thread that runs a job.                                  *)
LEMMA RunsKeep ==
    ASSUME MirrorInv, NEW t \in Workers, Runs(t)
    PROVE  OutboxInv' /\ FlightInv' /\ RemovalsInv' /\ FilesInv'
<1>1. BinInv /\ OutboxInv /\ FlightInv
    BY DEF MirrorInv
<1>2. CASE Look(t)
    <2>1. /\ threads[t].todo # <<>>
          /\ UNCHANGED <<rows, entries, jobs, files, adrift>>
        BY <1>2 DEF Look
    <2> QED
        BY <1>1, <1>2, <2>1, LookKeeps, GroundedRuns
<1>3. CASE GiveUp(t)
    <2>1. /\ threads[t].todo # <<>>
          /\ UNCHANGED <<rows, entries, jobs, files, adrift>>
        BY <1>1, <1>3 DEF GiveUp, OutboxInv
    <2> QED
        BY <1>1, <1>3, <2>1, GiveUpKeeps, GroundedRuns
<1>4. CASE Take(t)
    BY <1>1, <1>4, TakeKeeps, TakeRuns
<1>5. CASE Gather(t)
    BY <1>1, <1>5, GatherKeeps, GatherRuns
<1>6. CASE Write(t)
    BY <1>1, <1>6, WriteKeeps, WriteRuns
<1>7. CASE Finish(t)
    BY <1>7, FinishRuns
<1>8. CASE Fail(t)
    BY <1>8, FailRuns
<1> QED
    BY <1>2, <1>3, <1>4, <1>5, <1>6, <1>7, <1>8 DEF Runs

(***************************************************************************)
(* The specification                                                       *)
(***************************************************************************)
(* At first the files are right, or the project is to be mirrored.         *)
LEMMA InitMirrors == Init => MirrorInv
<1> SUFFICES ASSUME Init PROVE MirrorInv
    OBVIOUS
<1>1. BinInv /\ EntriesInv /\ ProjectEntries
    BY InitLinks DEF Init, EntriesInv, ProjectEntries
<1>2. PICK mirrored \in BOOLEAN, text \in Texts \ {Discarded} :
         /\ rows = [r \in Rows |-> [text |-> text, refs |-> Mentions[r], due |-> FALSE,
                                    placed |-> mirrored, stamp |-> 0]]
         /\ files = [r \in Mirrored |-> IF mirrored THEN text ELSE None]
         /\ jobs = IF mirrored THEN <<>> ELSE <<Rebuild>>
         /\ threads = [t \in Workers |-> IF mirrored \/ t # Boot THEN Resting
                                         ELSE [Resting EXCEPT !.todo = <<1>>]]
    BY DEF Init
<1>3. /\ jobs \in Seq(JobType) /\ DOMAIN jobs = IF mirrored THEN {} ELSE {1}
      /\ \A i \in DOMAIN jobs : jobs[i] = Rebuild
    <2>1. /\ <<Rebuild>> \in Seq(JobType) /\ DOMAIN <<Rebuild>> = {1} /\ <<Rebuild>>[1] = Rebuild
        BY RebuildIsTyped, OneJob
    <2>2. <<>> \in Seq(JobType) /\ DOMAIN <<>> = {}
        OBVIOUS
    <2> QED
        BY <1>2, <2>1, <2>2
<1>4. ASSUME NEW t \in Workers
      PROVE  /\ threads[t] \in ThreadType /\ threads[t].at = "rest"
             /\ \A k \in DOMAIN threads[t].todo : threads[t].todo[k] \in DOMAIN jobs
    <2> DEFINE first == [Resting EXCEPT !.todo = <<1>>]
    <2>1. <<1>> \in Seq(Nat) /\ DOMAIN <<1>> = {1} /\ <<1>>[1] = 1
        OBVIOUS
    <2>2. first \in ThreadType /\ first.at = "rest" /\ first.todo = <<1>>
        BY <2>1, RestIsTyped
    <2>3. Resting \in ThreadType /\ Resting.at = "rest" /\ Resting.todo = <<>>
        BY <2>1, RestIsTyped
    <2>4. IF mirrored \/ t # Boot THEN threads[t] = Resting ELSE threads[t] = first
        BY <1>2
    <2> HIDE DEF first
    <2> QED
        BY <1>3, <2>1, <2>2, <2>3, <2>4
<1>5. threads \in [Workers -> ThreadType]
    <2>1. threads = [t \in Workers |-> threads[t]]
        BY <1>2
    <2> QED
        BY <1>4, <2>1
<1>6. OutboxInv
    BY <1>3, <1>4, <1>5 DEF OutboxInv
<1>7. \A t \in Workers : ~InFlight(t) /\ ~Gathered(t) /\ threads[t].at # "looked"
    BY <1>4 DEF InFlight, Gathered
<1>8. FlightInv
    BY <1>7 DEF FlightInv, SeenFits, ViewFits, Claimed, Apart
<1>9. RemovalsInv
    BY <1>3, RebuildIsTyped DEF RemovalsInv, RemovalKinds
<1>10. ASSUME NEW r \in Mirrored
       PROVE  AsWanted(r) \/ \E i \in DOMAIN jobs : Fixes(r, i)
    <2>1. rows[r] # None /\ rows[r].text = text
        <3> DEFINE row == [text |-> text, refs |-> Mentions[r], due |-> FALSE,
                           placed |-> mirrored, stamp |-> 0]
        <3>1. r \in Rows
            BY MirroredAreRows
        <3>2. rows[r] = row
            BY <1>2, <3>1
        <3>3. row \in Row
            BY <3>1, TablesFit DEF Row
        <3>4. row.text = text
            OBVIOUS
        <3> HIDE DEF row
        <3> QED
            BY <3>2, <3>3, <3>4, NoneIsNoRow
    <2>2. CASE mirrored
        <3>1. files[r] = Want(r)
            BY <1>2, <2>1, <2>2 DEF Want
        <3> QED
            BY <1>7, <3>1 DEF AsWanted, Stale
    <2>3. CASE ~mirrored
        <3>1. 1 \in DOMAIN jobs /\ jobs[1] = Rebuild
            BY <1>3, <2>3
        <3>2. Unsettled(1) /\ Settles(r, 1)
            BY <2>1, <3>1, RebuildIsTyped DEF Unsettled, Settles, EndStatuses
        <3>3. Fixes(r, 1)
            BY <1>7, <3>2 DEF Fixes
        <3> QED
            BY <3>1, <3>3
    <2> QED
        BY <2>2, <2>3
<1>11. FilesInv
    BY <1>10 DEF FilesInv
<1> QED
    BY <1>1, <1>6, <1>8, <1>9, <1>11 DEF MirrorInv

(* No step gives the project back but the restore of its entry.            *)
LEMMA NextKeepsProject ==
    ASSUME BinInv, EntriesInv, ProjectEntries, [Next]_vars
    PROVE  ProjectEntries'
<1>1. Project \in Mirrored /\ Mirrored \subseteq Rows
    BY MirroredAreRows
<1>2. ASSUME NEW S \in SUBSET entries, rows' = Purged(S), entries' = entries \ S
      PROVE  ProjectEntries'
    <2>1. SameText(rows[Project], rows'[Project])
        BY <1>1, <1>2, PurgedKeepsText
    <2> QED
        BY <1>2, <2>1, FewerEntries DEF SameText
<1>3. CASE UNCHANGED <<rows, entries>>
    BY <1>3, FewerEntries
<1>4. ASSUME NEW t \in Threads, Authors(t)
      PROVE  ProjectEntries'
    <2>1. ASSUME NEW c \in Chapters, Saves(t, c) PROVE ProjectEntries'
        <3>1. PICK text \in Texts, refs \in SUBSET Mentions[c] : Edit(c, text, refs)
            BY <2>1 DEF Saves
        <3>2. rows[Project] = None => rows'[Project] = None
            BY <1>1, <3>1, EditWrites
        <3> QED
            BY <3>1, <3>2, FewerEntries DEF Edit
    <2>2. ASSUME NEW r \in Deletable, Deletes(t, r) PROVE ProjectEntries'
        BY <2>2, DeleteKeepsProject DEF Deletes
    <2>3. ASSUME NEW e \in entries, Restores(t, e) PROVE ProjectEntries'
        BY <2>3, RestoreKeepsProject DEF Restores
    <2>4. ASSUME NEW e \in entries, Purges(t, e) PROVE ProjectEntries'
        BY <1>2, <2>4, {e} \in SUBSET entries DEF Purges, Purge
    <2>5. CASE Lists(t)
        BY <1>2, <2>5, Expired \in SUBSET entries DEF Lists, PurgeExpired, Expired
    <2> QED
        BY <1>4, <2>1, <2>2, <2>3, <2>4, <2>5 DEF Authors
<1>5. ASSUME NEW t \in Workers, Runs(t)
      PROVE  ProjectEntries'
    <2>1. CASE Finish(t)
        <3>1. Place(Projected(t)) /\ entries' = entries
            BY <2>1 DEF Finish, Place
        <3>2. SameText(rows[Project], rows'[Project])
            BY <1>1, <3>1, PlaceKeepsText
        <3> QED
            BY <3>1, <3>2, FewerEntries DEF SameText
    <2>2. CASE ~Finish(t)
        BY <1>3, <1>5, <2>2 DEF Runs, Look, Take, Gather, Write, Fail, GiveUp
    <2> QED
        BY <2>1, <2>2
<1>6. ASSUME NEW e \in entries, Expires(e) PROVE ProjectEntries'
    BY <1>6, ExpireKeepsProject DEF Expires
<1>7. CASE Restart
    BY <1>3, <1>7 DEF Restart
<1>8. CASE Started
    BY <1>2, <1>8, Expired \in SUBSET entries DEF Started, Expired
<1>9. CASE UNCHANGED vars
    BY <1>3, <1>9 DEF vars
<1> QED
    BY <1>4, <1>5, <1>6, <1>7, <1>8, <1>9 DEF Next

(* Purging entries takes drafts along, which the mirror does not show.     *)
LEMMA PurgesKeep ==
    ASSUME MirrorInv, NEW S \in SUBSET entries, rows' = Purged(S), entries' = entries \ S,
           UNCHANGED <<jobs, files, threads, adrift>>
    PROVE  OutboxInv' /\ FlightInv' /\ RemovalsInv' /\ FilesInv'
<1>1. \A x \in Mirrored : SameText(rows[x], rows'[x])
    BY PurgedKeepsText DEF MirrorInv
<1> QED
    BY <1>1, BinStepsKeep

(* Each step keeps the bin, the outbox, the threads and the files in line. *)
LEMMA NextKeepsMirror == MirrorInv /\ [Next]_vars => MirrorInv'
<1> SUFFICES ASSUME MirrorInv, [Next]_vars PROVE MirrorInv'
    OBVIOUS
<1> DEFINE Kept == OutboxInv' /\ FlightInv' /\ RemovalsInv' /\ FilesInv'
<1>1. BinInv' /\ EntriesInv' /\ ProjectEntries'
    BY NextKeepsLinks, NextKeepsEntries, NextKeepsProject DEF MirrorInv
<1>2. ASSUME UNCHANGED <<rows, entries, jobs, files, threads, adrift>> PROVE Kept
    BY <1>2, BinStepsKeep DEF SameText
<1>3. ASSUME NEW t \in Threads, Authors(t) PROVE Kept
    <2>1. ASSUME NEW c \in Chapters, Saves(t, c) PROVE Kept
        BY <2>1, SavesKeeps
    <2>2. ASSUME NEW r \in Deletable, Deletes(t, r) PROVE Kept
        BY <2>2, DeletesKeeps
    <2>3. ASSUME NEW e \in entries, Restores(t, e) PROVE Kept
        BY <2>3, RestoresKeeps
    <2>4. ASSUME NEW e \in entries, Purges(t, e) PROVE Kept
        <3>1. /\ {e} \in SUBSET entries /\ rows' = Purged({e}) /\ entries' = entries \ {e}
              /\ UNCHANGED <<jobs, files, threads, adrift>>
            BY <2>4 DEF Purges, Purge, Serves
        <3> QED
            BY <3>1, PurgesKeep
    <2>5. CASE Lists(t)
        <3>1. /\ Expired \in SUBSET entries
              /\ rows' = Purged(Expired) /\ entries' = entries \ Expired
              /\ UNCHANGED <<jobs, files, threads, adrift>>
            BY <2>5 DEF Lists, PurgeExpired, Serves, Expired
        <3> QED
            BY <3>1, PurgesKeep
    <2> QED
        BY <1>3, <2>1, <2>2, <2>3, <2>4, <2>5 DEF Authors
<1>4. ASSUME NEW t \in Workers, Runs(t) PROVE Kept
    BY <1>4, RunsKeep
<1>5. ASSUME NEW e \in entries, Expires(e) PROVE Kept
    <2> DEFINE g == [e EXCEPT !.expired = TRUE]
    <2>1. /\ entries' = (entries \ {e}) \cup {g} /\ rows' = rows
          /\ UNCHANGED <<jobs, files, threads, adrift>>
        BY <1>5 DEF Expires, Expire, mirrorVars
    <2>2. g.root = e.root /\ g.changes = e.changes
        BY DEF MirrorInv, BinInv, Entries
    <2> HIDE DEF g
    <2>3. \A f \in entries' : \E h \in entries : f.root = h.root /\ f.changes = h.changes
        BY <2>1, <2>2
    <2>4. \A x \in Mirrored : SameText(rows[x], rows'[x])
        BY <2>1 DEF SameText
    <2> QED
        BY <2>1, <2>3, <2>4, BinStepsKeep
<1>6. ASSUME Restart PROVE Kept
    BY <1>6, RestartKeeps
<1>7. ASSUME Started PROVE Kept
    <2>1. /\ Expired \in SUBSET entries
          /\ rows' = Purged(Expired) /\ entries' = entries \ Expired
          /\ UNCHANGED <<jobs, files, threads, adrift>>
        BY <1>7 DEF Started, Expired
    <2> QED
        BY <2>1, PurgesKeep
<1>8. ASSUME UNCHANGED vars PROVE Kept
    BY <1>2, <1>8 DEF vars
<1>9. Kept
    BY <1>3, <1>4, <1>5, <1>6, <1>7, <1>8 DEF Next
<1> QED
    BY <1>1, <1>9 DEF MirrorInv

(* For any tables, threads, tries, failures and restarts: once no job is   *)
(* open and no thread runs one, the files are the rows', but for the rows  *)
(* that are adrift. The steps that set a row adrift are the departures the *)
(* code allows: a job that two threads run, rows that two projections      *)
(* write in either order, a file that no row records.                      *)
THEOREM FilesSettle == Spec => []MirrorSettles
<1>1. ASSUME MirrorInv, Settled, NEW r \in Mirrored \ adrift
      PROVE  files[r] = Want(r)
    <2>1. AsWanted(r) \/ \E i \in DOMAIN jobs : Fixes(r, i)
        BY <1>1 DEF MirrorInv, FilesInv
    <2>2. \A i \in DOMAIN jobs : ~Fixes(r, i)
        BY <1>1 DEF Settled, Fixes, Unsettled, EndStatuses
    <2> QED
        BY <2>1, <2>2 DEF AsWanted
<1>2. MirrorInv => MirrorSettles
    BY <1>1 DEF MirrorSettles, Want
<1> QED
    BY <1>2, InitMirrors, NextKeepsMirror, PTL DEF Spec
=============================================================================
