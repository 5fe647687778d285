-------------------------- MODULE PushStatementsProofs --------------------------
(***************************************************************************)
(* The write coordination keeps the write transactions of all connections  *)
(* apart, for any processes, threads and connections.  The sessions of     *)
(* PushStatements write under it: what they record was checked, what they  *)
(* write is logged, and none waits for its own lock; for any connections,  *)
(* roles, batches and entities.                                            *)
(***************************************************************************)
EXTENDS PushStatements, TLAPS

(***************************************************************************)
(* The write coordination                                                  *)
(***************************************************************************)
CoordInv == CoordTypeOK /\ LockOrder /\ LeasedChanges

(* The locks are free and nothing is written at the start.                 *)
LEMMA CoordStart == CoordInit => CoordInv
BY CoordinationAssumption
   DEF CoordInit, CoordInv, CoordTypeOK, LockOrder, LeasedChanges, Resting

(* Steps that neither take a lock, nor return one, nor change data.        *)
LEMMA QuietSteps ==
    ASSUME CoordInv, NEW c \in Conns,
           \/ Open(c) \/ WantsLease(c) \/ GateTimesOut(c) \/ Fails(c) \/ Saves(c)
           \/ RollsBackTo(c) \/ Awaits(c) \/ Resumes(c)
    PROVE  CoordInv'
<1> USE CoordinationAssumption
    DEF CoordInv, CoordTypeOK, LockOrder, LeasedChanges, Resting, Goto, Runs
<1>1. CASE Open(c)         BY <1>1 DEF Open
<1>2. CASE WantsLease(c)   BY <1>2 DEF WantsLease
<1>3. CASE GateTimesOut(c) BY <1>3 DEF GateTimesOut
<1>4. CASE Fails(c)        BY <1>4 DEF Fails
<1>5. CASE Saves(c)        BY <1>5 DEF Saves
<1>6. CASE RollsBackTo(c)  BY <1>6 DEF RollsBackTo
<1>7. CASE Awaits(c)       BY <1>7 DEF Awaits
<1>8. CASE Resumes(c)      BY <1>8 DEF Resumes
<1> QED BY <1>1, <1>2, <1>3, <1>4, <1>5, <1>6, <1>7, <1>8

(* Steps that take a lock or give up waiting for the second one.           *)
LEMMA LockSteps ==
    ASSUME CoordInv, NEW c \in Conns, PassesGate(c) \/ LocksFile(c) \/ FileTimesOut(c)
    PROVE  CoordInv'
<1> USE CoordinationAssumption
    DEF CoordInv, CoordTypeOK, LockOrder, LeasedChanges, Resting, Goto
<1>1. CASE PassesGate(c)   BY <1>1 DEF PassesGate
<1>2. CASE LocksFile(c)    BY <1>2 DEF LocksFile
<1>3. CASE FileTimesOut(c) BY <1>3 DEF FileTimesOut
<1> QED BY <1>1, <1>2, <1>3

(* Steps that change data or end a transaction.                            *)
LEMMA DataSteps ==
    ASSUME CoordInv, NEW c \in Conns,
           Writes(c) \/ Releases(c) \/ Commits(c) \/ RollsBack(c)
    PROVE  CoordInv'
<1> USE CoordinationAssumption
    DEF CoordInv, CoordTypeOK, LockOrder, LeasedChanges, Resting, Goto, Runs, Ended
<1>1. CASE Writes(c)    BY <1>1 DEF Writes
<1>2. CASE Releases(c)  BY <1>2 DEF Releases
<1>3. CASE Commits(c)   BY <1>3 DEF Commits
<1>4. CASE RollsBack(c) BY <1>4 DEF RollsBack
<1> QED BY <1>1, <1>2, <1>3, <1>4

(* Steps that give the lease back.                                         *)
LEMMA ReturnSteps ==
    ASSUME CoordInv, NEW c \in Conns, Dispatches(c) \/ Dispatched(c) \/ Closes(c)
    PROVE  CoordInv'
<1> USE CoordinationAssumption
    DEF CoordInv, CoordTypeOK, LockOrder, LeasedChanges, Resting, Goto, Runs, LeaseReturned
<1>1. CASE Dispatches(c) BY <1>1 DEF Dispatches
<1>2. CASE Dispatched(c) BY <1>2 DEF Dispatched
<1>3. CASE Closes(c)     BY <1>3 DEF Closes
<1> QED BY <1>1, <1>2, <1>3

(* The end of a process gives back what its connections held.              *)
LEMMA CrashStep ==
    ASSUME CoordInv, NEW p \in Procs, Crash(p)
    PROVE  CoordInv'
BY CoordinationAssumption
   DEF CoordInv, CoordTypeOK, LockOrder, LeasedChanges, Resting, Crash

(* CoordInv is inductive.                                                  *)
LEMMA CoordSteps == CoordInv /\ [CoordNext]_coordVars => CoordInv'
<1> SUFFICES ASSUME CoordInv, [CoordNext]_coordVars PROVE CoordInv'
    OBVIOUS
<1>1. CASE UNCHANGED coordVars
      BY <1>1 DEF CoordInv, CoordTypeOK, LockOrder, LeasedChanges, coordVars
<1>2. CASE CoordNext
      BY <1>2, QuietSteps, LockSteps, DataSteps, ReturnSteps, CrashStep DEF CoordNext
<1> QED BY <1>1, <1>2

(* A lease is both locks, one after the other, in every reachable state.   *)
THEOREM LeaseIsBothLocks == CoordSpec => []CoordInv
BY CoordStart, CoordSteps, PTL DEF CoordSpec

(* At most the holder of the lock file has uncommitted changes.            *)
LEMMA OneWriter == CoordInv => \A c \in dirty : dirty = {c} /\ file = c
BY CoordinationAssumption DEF CoordInv, CoordTypeOK, LockOrder, LeasedChanges

(* A step of the coordination is a step of the abstract lease.             *)
LEMMA LeaseSteps == CoordInv /\ [CoordNext]_coordVars => [Lease!Next]_dirty
<1> SUFFICES ASSUME CoordInv, [CoordNext]_coordVars, dirty' # dirty PROVE Lease!Next
    OBVIOUS
<1> USE DEF Lease!Next, Lease!Change, Lease!End
<1>1. ASSUME NEW c \in Conns, Writes(c) PROVE Lease!Next
      BY <1>1, OneWriter, CoordinationAssumption
      DEF Writes, CoordInv, CoordTypeOK, LockOrder, LeasedChanges
<1>2. ASSUME NEW c \in Conns, Releases(c) \/ Commits(c) \/ RollsBack(c) PROVE Lease!Next
      BY <1>2 DEF Releases, Commits, RollsBack, Ended
<1>3. ASSUME NEW p \in Procs, Crash(p) PROVE Lease!Next
  <2>1. PICK c \in dirty : c \notin dirty'
        BY <1>3 DEF Crash
  <2>2. dirty' = dirty \ {c} /\ c \in Conns
        BY <1>3, <2>1, OneWriter DEF Crash, CoordInv, CoordTypeOK
  <2> QED BY <2>2
<1>4. ASSUME NEW c \in Conns,
             \/ Open(c) \/ WantsLease(c) \/ GateTimesOut(c) \/ Fails(c) \/ Saves(c)
             \/ RollsBackTo(c) \/ Awaits(c) \/ Resumes(c) \/ PassesGate(c) \/ LocksFile(c)
             \/ FileTimesOut(c) \/ Dispatches(c) \/ Dispatched(c) \/ Closes(c)
      PROVE  FALSE
      BY <1>4 DEF Open, WantsLease, GateTimesOut, Fails, Saves, RollsBackTo, Awaits, Resumes,
                  PassesGate, LocksFile, FileTimesOut, Dispatches, Dispatched, Closes
<1> QED BY <1>1, <1>2, <1>3, <1>4 DEF CoordNext, coordVars

(* The two locks, the savepoints, the timeouts and the order of the        *)
(* listeners implement the lease: write transactions never overlap.        *)
THEOREM CoordinationImplementsLease == CoordSpec => LeaseSpec
<1>1. CoordInit => Lease!Init
      BY DEF CoordInit, Lease!Init
<1> QED BY <1>1, LeaseSteps, LeaseIsBothLocks, PTL DEF CoordSpec, LeaseSpec, Lease!Spec
-----------------------------------------------------------------------------
(* A statement of a session is a step of the coordination, or none.        *)
LEMMA SessionSteps ==
    ASSUME NEW c \in Conns, Work(c) PROVE CoordNext \/ UNCHANGED coordVars
<1> USE DEF CoordNext
<1>1. CASE Waits(c) \/ Errs(c) \/ Ends(c)
      BY <1>1 DEF Waits, Errs, Ends
<1>2. CASE PushSkips(c) \/ PushChecks(c) \/ PushSaves(c) \/ PushProjects(c) \/ PushFails(c) \/ PushRejects(c)
      BY <1>2 DEF PushSkips, PushChecks, PushSaves, PushProjects, PushFails, PushRejects
<1>3. CASE \/ PushReleases(c) \/ PushRecords(c) \/ PushDisputes(c) \/ PushBreaks(c)
           \/ PushCommits(c)
      BY <1>3 DEF PushReleases, PushRecords, PushDisputes, PushBreaks, PushCommits
<1>4. CASE SaveWrites(c) \/ SaveCommits(c) \/ SaveDispatches(c) \/ SaveReturns(c)
      BY <1>4 DEF SaveWrites, SaveCommits, SaveDispatches, SaveReturns
<1>5. CASE JobRecords(c) \/ JobCommits(c)
      BY <1>5 DEF JobRecords, JobCommits
<1>6. CASE ImportWrites(c) \/ ImportAwaits(c) \/ ImportResumes(c) \/ ImportCommits(c)
      BY <1>6 DEF ImportWrites, ImportAwaits, ImportResumes, ImportCommits
<1> QED BY <1>1, <1>2, <1>3, <1>4, <1>5, <1>6 DEF Work

(* So is every step of the sessions and of the processes.                  *)
LEMMA CoordinatedSteps == [Next]_vars => [CoordNext]_coordVars
<1> SUFFICES ASSUME [Next]_vars PROVE CoordNext \/ UNCHANGED coordVars
    OBVIOUS
<1>1. ASSUME NEW c \in Conns, Work(c) \/ PushOpens(c) \/ ImportOpens(c)
      PROVE  CoordNext \/ UNCHANGED coordVars
      BY <1>1, SessionSteps DEF PushOpens, ImportOpens, CoordNext
<1>2. ASSUME NEW c \in Conns, NEW k \in Keys, SaveOpens(c, k) PROVE CoordNext
      BY <1>2 DEF SaveOpens, CoordNext
<1>3. ASSUME NEW p \in Procs, Ending(p) PROVE CoordNext
      BY <1>3 DEF Ending, CoordNext
<1> QED BY <1>1, <1>2, <1>3 DEF Next, vars

(* Whatever the sessions of a push, of saves, captures and imports do, and *)
(* in whatever order, their write transactions never overlap.              *)
THEOREM StatementsImplementLease == Spec => LeaseSpec
<1>1. Init => CoordInit
      BY DEF Init
<1> QED BY <1>1, CoordinatedSteps, CoordinationImplementsLease, PTL DEF Spec, CoordSpec

(***************************************************************************)
(* The sessions                                                            *)
(***************************************************************************)
Mutating == {"check", "save", "project", "release", "record", "dispute", "reject"}

(* Rows that the first mutation of a push that is not skipped has written. *)
Firsts == Pushers \X {1}

Steps == Mutating \cup {"none", "write", "split", "commit"}

Tasks == [step : Steps, i : Nat, n : Nat, key : Keys \cup {NoView}, base : [Keys -> Nat],
          runs : Nat]

StatementsTypeOK ==
    /\ store \in Databases
    /\ view \in [Conns -> Databases \cup {NoView}]
    /\ task \in [Conns -> Tasks]

(* A log whose entries replace what they say, and states that show it.     *)
Sound(db) ==
    /\ \A p \in DOMAIN db.log :
          db.log[p].n # 1 => db.log[p].base = LastBefore(db.log, db.log[p].key, p)
    /\ \A k \in Keys : /\ db.rev[k] = LastBefore(db.log, k, Len(db.log) + 1)
                      /\ db.rev[k] =< Len(db.log)

LoggedValue(db, k) ==
    LET n == LastBefore(db.log, k, Len(db.log) + 1)
    IN  IF n = 0 THEN <<Nobody, 0>> ELSE db.log[n].value

RowLogged(db, k) ==
    db.jobs[k] > 0 \/ db.row[k] = LoggedValue(db, k) \/ db.row[k] \in Firsts

(* A row that a view has and its log has not: the mutation under way, or   *)
(* anything in a transaction that can only be rolled back.                 *)
Unrecorded(c, k) ==
    \/ task[c].step \in {"release", "record"} /\ task[c].n # 1 /\ k = Key(c)
    \/ at[c] = "failed" /\ task[c].step # "reject"

(* The keys a session writes are keys, and its mutations those of a batch. *)
InBatch(c) ==
    /\ task[c].step \in Mutating => c \in Pushers /\ task[c].i \in 1 .. Len(Batch[c])
    /\ c \in Authors \cup Dispatchers /\ at[c] # "idle" => task[c].key \in Keys

(* From its first savepoint on, or after a mutation that was not skipped,  *)
(* a push is inside a transaction, and what it has checked stays as it was. *)
Checked(c) ==
    /\ task[c].step \in {"project", "release", "reject"} => c \in begun /\ view[c] # NoView
    /\ task[c].step = "check" /\ task[c].n > 0 => c \in begun /\ view[c] # NoView
    /\ task[c].step \in Mutating \ {"check"} => task[c].n > 0
    /\ c \in Pushers /\ task[c].n > 1 =>
       /\ task[c].step \in Mutating => c \in begun /\ view[c] # NoView
       /\ task[c].step \in {"project", "release", "reject"} => savepoint[c] # "outer"
       /\ task[c].step \in {"save", "project", "release", "record"} =>
             view[c].rev[Key(c)] = task[c].base[Key(c)]

SoundView(c) ==
    /\ view[c] # NoView =>
          /\ Sound(view[c])
          /\ \A k \in Keys : RowLogged(view[c], k) \/ Unrecorded(c, k)
    /\ c \in dirty => view[c] # NoView
    /\ at[c] \in {"idle", "committed", "rolledback", "dispatching"} => view[c] = NoView

SessionInv(c) == InBatch(c) /\ Checked(c) /\ SoundView(c)

SoundStore == Sound(store) /\ \A k \in Keys : RowLogged(store, k)

StatementsInv ==
    CoordInv /\ StatementsTypeOK /\ SoundStore /\ \A c \in Conns : SessionInv(c)

-----------------------------------------------------------------------------
(* The entry before a position of a log does not depend on what follows.   *)
LEMMA LastBeforeAppend ==
    ASSUME NEW log \in Seq(Changes), NEW e \in Changes, NEW k
    PROVE  /\ \A n \in 1 .. Len(log) + 1 : LastBefore(Append(log, e), k, n) = LastBefore(log, k, n)
           /\ LastBefore(Append(log, e), k, Len(log) + 2) =
                 IF e.key = k THEN Len(log) + 1 ELSE LastBefore(log, k, Len(log) + 1)
<1> DEFINE Before(l, n) == {i \in 1 .. (n - 1) : l[i].key = k}
<1>1. \A i \in 1 .. Len(log) : Append(log, e)[i] = log[i]
      OBVIOUS
<1>2. Append(log, e)[Len(log) + 1] = e /\ Len(log) \in Nat
      OBVIOUS
<1>3. \A n \in 1 .. Len(log) + 1 : Before(Append(log, e), n) = Before(log, n)
      BY <1>1, <1>2
<1>4. Before(Append(log, e), Len(log) + 2) =
        Before(log, Len(log) + 1) \cup (IF e.key = k THEN {Len(log) + 1} ELSE {})
      BY <1>1, <1>2
<1>5. ASSUME e.key = k
      PROVE  Last(Before(Append(log, e), Len(log) + 2)) = Len(log) + 1
  <2>1. Len(log) + 1 \in Before(Append(log, e), Len(log) + 2)
        BY <1>4, <1>5
  <2>2. \A j \in Before(Append(log, e), Len(log) + 2) : j \in Nat /\ j =< Len(log) + 1
        BY <1>2
  <2> HIDE DEF Before
  <2> QED BY <2>1, <2>2, <1>2 DEF Last
<1>6. \A l, n : LastBefore(l, k, n) = Last(Before(l, n))
      BY DEF LastBefore
<1> HIDE DEF Before
<1> QED BY <1>2, <1>3, <1>4, <1>5, <1>6

(* A recorded change that was checked keeps the database sound, and leaves *)
(* the row of its key, and of any key whose row was logged, logged.        *)
LEMMA RecordedSound ==
    ASSUME NEW db \in Databases, Sound(db), NEW c \in Conns, NEW k \in Keys, NEW base \in Nat,
           task[c].n \in Nat,
           task[c].n # 1 => base = LastBefore(db.log, k, Len(db.log) + 1)
    PROVE  LET new == Recorded(db, c, k, base) IN
           /\ new \in Databases /\ Sound(new)
           /\ new.jobs = db.jobs /\ new.row = db.row
           /\ new.row[k] = LoggedValue(new, k)
           /\ \A l \in Keys \ {k} : LoggedValue(new, l) = LoggedValue(db, l)
<1> DEFINE e == [key |-> k, base |-> base, value |-> db.row[k], by |-> c, n |-> task[c].n]
           new == Recorded(db, c, k, base)
<1>1. e \in Changes /\ db.log \in Seq(Changes) /\ db.rev \in [Keys -> Nat]
      BY DEF Changes, Databases
<1>2. /\ new.log = Append(db.log, e)
      /\ new.rev = [db.rev EXCEPT ![k] = Len(db.log) + 1]
      /\ new.jobs = db.jobs /\ new.row = db.row
      /\ new \in Databases
  <2>1. new = [db EXCEPT !.log = Append(db.log, e), !.rev = [db.rev EXCEPT ![k] = Len(db.log) + 1]]
        BY DEF Recorded, Databases
  <2>2. Append(db.log, e) \in Seq(Changes) /\ Len(db.log) + 1 \in Nat
        BY <1>1
  <2> HIDE DEF e, new
  <2> QED BY <1>1, <2>1, <2>2 DEF Databases
<1>3. /\ Len(new.log) = Len(db.log) + 1 /\ Len(db.log) \in Nat
      /\ DOMAIN new.log = 1 .. Len(db.log) + 1 /\ DOMAIN db.log = 1 .. Len(db.log)
      /\ \A n \in 1 .. Len(db.log) : new.log[n] = db.log[n]
      /\ new.log[Len(db.log) + 1] = e
      BY <1>1, <1>2
<1>4. ASSUME NEW l
      PROVE  /\ \A n \in 1 .. Len(db.log) + 1 : LastBefore(new.log, l, n) = LastBefore(db.log, l, n)
             /\ LastBefore(new.log, l, Len(new.log) + 1) =
                   IF k = l THEN Len(db.log) + 1 ELSE LastBefore(db.log, l, Len(db.log) + 1)
  <2>1. e.key = k /\ Len(new.log) + 1 = Len(db.log) + 2
        BY <1>3
  <2> HIDE DEF e, new
  <2> QED BY <1>1, <1>2, <2>1, LastBeforeAppend
<1>5. Sound(new)
  <2>1. ASSUME NEW p \in DOMAIN new.log, new.log[p].n # 1
        PROVE  new.log[p].base = LastBefore(new.log, new.log[p].key, p)
    <3>1. CASE p = Len(db.log) + 1
          BY <1>3, <1>4, <2>1, <3>1
    <3>2. CASE p \in 1 .. Len(db.log)
          BY <1>3, <1>4, <2>1, <3>2 DEF Sound
    <3> QED BY <1>3, <3>1, <3>2
  <2>2. ASSUME NEW l \in Keys
        PROVE  /\ new.rev[l] = LastBefore(new.log, l, Len(new.log) + 1)
               /\ new.rev[l] =< Len(new.log)
        BY <1>1, <1>2, <1>3, <1>4 DEF Sound
  <2> QED BY <2>1, <2>2 DEF Sound
<1>6. new.row[k] = LoggedValue(new, k)
      BY <1>2, <1>3, <1>4 DEF LoggedValue
<1>7. ASSUME NEW l \in Keys \ {k} PROVE LoggedValue(new, l) = LoggedValue(db, l)
  <2>1. LastBefore(db.log, l, Len(db.log) + 1) \in {0} \cup 1 .. Len(db.log)
        BY <1>1, <1>3 DEF Sound
  <2> QED BY <1>3, <1>4, <2>1 DEF LoggedValue
<1> HIDE DEF new
<1> QED BY <1>2, <1>5, <1>6, <1>7 DEF new

(* What the statements that do not touch the log make of a database.       *)
Projected(db, k, v) == [db EXCEPT !.row[k] = v]
Saved(db, k, v)     == [db EXCEPT !.row[k] = v, !.jobs[k] = @ + 1]
Disputed(db)        == [db EXCEPT !.disputes = @ + 1]
Counted(db)         == [db EXCEPT !.commits = @ + 1]

(* They leave the log as it is, and every row logged but the one written.  *)
LEMMA WrittenSound ==
    ASSUME NEW db \in Databases, Sound(db), NEW k \in Keys, NEW v \in Contents,
           NEW new \in {Projected(db, k, v), Saved(db, k, v)}
    PROVE  /\ new \in Databases /\ Sound(new) /\ new.rev = db.rev
           /\ \A l \in Keys \ {k} : RowLogged(db, l) => RowLogged(new, l)
           /\ new = Saved(db, k, v) => RowLogged(new, k)
<1>1. /\ db.row \in [Keys -> Contents] /\ db.jobs \in [Keys -> Nat]
      /\ [db.row EXCEPT ![k] = v] \in [Keys -> Contents]
      /\ [db.jobs EXCEPT ![k] = @ + 1] \in [Keys -> Nat]
      BY DEF Databases
<1>2. CASE new = Projected(db, k, v)
  <2>1. new \in Databases /\ new.log = db.log /\ new.rev = db.rev
        BY <1>1, <1>2 DEF Databases, Projected
  <2>2. new.jobs = db.jobs /\ \A l \in Keys \ {k} : new.row[l] = db.row[l]
        BY <1>1, <1>2 DEF Databases, Projected
  <2>3. Sound(new) /\ \A l : LoggedValue(new, l) = LoggedValue(db, l)
        BY <2>1 DEF Sound, LoggedValue
  <2>4. new = Saved(db, k, v) => new.jobs[k] > 0
        BY <1>1 DEF Databases, Saved
  <2> QED BY <2>1, <2>2, <2>3, <2>4 DEF RowLogged
<1>3. CASE new = Saved(db, k, v)
  <2>1. new \in Databases /\ new.log = db.log /\ new.rev = db.rev
        BY <1>1, <1>3 DEF Databases, Saved
  <2>2. \A l \in Keys \ {k} : new.row[l] = db.row[l] /\ new.jobs[l] = db.jobs[l]
        BY <1>1, <1>3 DEF Databases, Saved
  <2>3. Sound(new) /\ \A l : LoggedValue(new, l) = LoggedValue(db, l)
        BY <2>1 DEF Sound, LoggedValue
  <2>4. new.jobs[k] > 0
        BY <1>1, <1>3 DEF Databases, Saved
  <2> QED BY <2>1, <2>2, <2>3, <2>4 DEF RowLogged
<1> QED BY <1>2, <1>3

(* A dispute and the count of commits touch neither rows nor log.          *)
LEMMA CountedSound ==
    ASSUME NEW db \in Databases, Sound(db), NEW new \in {Disputed(db), Counted(db)}
    PROVE  /\ new \in Databases /\ Sound(new) /\ new.rev = db.rev
           /\ \A l : RowLogged(new, l) <=> RowLogged(db, l)
<1>1. db.disputes + 1 \in Nat /\ db.commits + 1 \in Nat
      BY DEF Databases
<1>2. /\ new \in Databases /\ new.log = db.log /\ new.rev = db.rev
      /\ new.row = db.row /\ new.jobs = db.jobs
      BY <1>1 DEF Databases, Disputed, Counted
<1> QED BY <1>2 DEF Sound, RowLogged, LoggedValue

(* What a session with its types sees is a sound database.                 *)
LEMMA SeenSound ==
    ASSUME StatementsInv, NEW c \in Conns
    PROVE  /\ Seen(c) \in Databases /\ Sound(Seen(c))
           /\ \A k \in Keys : RowLogged(Seen(c), k) \/ Unrecorded(c, k)
           /\ view[c] = NoView => \A k \in Keys : RowLogged(Seen(c), k)
BY StatementsAssumption DEF StatementsInv, StatementsTypeOK, SoundStore, SessionInv, SoundView, Seen
(* A session that a step leaves alone keeps its part.                      *)
LEMMA OthersKeep ==
    ASSUME NEW d \in Conns, SessionInv(d),
           at'[d] = at[d], task'[d] = task[d], view'[d] = view[d], savepoint'[d] = savepoint[d],
           d \in begun' <=> d \in begun, d \in dirty' => d \in dirty
    PROVE  SessionInv(d)'
BY DEF SessionInv, InBatch, Checked, SoundView, Unrecorded, Key

(* A session goes on to step s of its i-th mutation.                       *)
Advances(c, s, i) ==
    /\ task' \in [Conns -> Tasks]
    /\ task'[c].step = s /\ task'[c].i = i
    /\ task'[c].n = task[c].n
    /\ task'[c].key = task[c].key /\ task'[c].base = task[c].base
    /\ \A d \in Conns \ {c} : task'[d] = task[d]

LEMMA DoesAdvances ==
    ASSUME StatementsTypeOK, NEW c \in Conns, NEW s \in Steps, Does(c, s)
    PROVE  Advances(c, s, task[c].i)
BY DEF Does, StatementsTypeOK, Tasks, Advances

LEMMA NextMutationAdvances ==
    ASSUME StatementsTypeOK, NEW c \in Conns, NextMutation(c)
    PROVE  Advances(c, IF task[c].i = Len(Batch[c]) THEN "commit" ELSE "check", task[c].i + 1)
<1> DEFINE s == IF task[c].i = Len(Batch[c]) THEN "commit" ELSE "check"
           new == [task[c] EXCEPT !.i = task[c].i + 1, !.step = s]
<1>1. s \in Steps /\ task[c] \in Tasks /\ task[c].i + 1 \in Nat
      BY DEF StatementsTypeOK, Tasks, Steps, Mutating
<1>2. task' = [task EXCEPT ![c] = new]
      BY DEF NextMutation
<1> HIDE DEF s
<1>3. /\ new \in Tasks /\ new.step = s /\ new.i = task[c].i + 1 /\ new.n = task[c].n
      /\ new.key = task[c].key /\ new.base = task[c].base
      BY <1>1 DEF Tasks
<1> HIDE DEF new
<1> QED BY <1>2, <1>3 DEF Advances, StatementsTypeOK, s

-----------------------------------------------------------------------------
(* The steps of a push.                                                    *)

SessionsInv == StatementsTypeOK /\ SoundStore /\ \A c \in Conns : SessionInv(c)

LEMMA PushChecksKeeps ==
    ASSUME StatementsInv, NEW c \in Conns, PushChecks(c) PROVE SessionsInv'
<1>1. PICK s \in {"save", "dispute"} :
         /\ task' = [task EXCEPT ![c].step = s, ![c].n = @ + 1]
         /\ s = "save" => ServerRevision(c) = task[c].base[Key(c)]
      BY DEF PushChecks
<1>2. /\ task[c].step = "check" /\ at[c] = "open" /\ store' = store /\ view' = view
      /\ at' = at /\ savepoint' = savepoint /\ begun' = begun /\ dirty' = dirty
      BY DEF PushChecks, coordVars, Runs
<1>3. task \in [Conns -> Tasks] /\ task[c].n \in Nat
      BY DEF StatementsInv, StatementsTypeOK, Tasks
<1> DEFINE new == [task[c] EXCEPT !.step = s, !.n = task[c].n + 1]
<1>4. /\ new \in Tasks /\ new.step = s /\ new.n = task[c].n + 1 /\ new.i = task[c].i
      /\ new.key = task[c].key /\ new.base = task[c].base
      BY <1>1, <1>3 DEF Tasks, Steps, Mutating
<1>5. task' = [task EXCEPT ![c] = new]
      BY <1>1
<1> HIDE DEF new
<1>6. /\ task' \in [Conns -> Tasks] /\ task'[c] = new
      /\ \A d \in Conns \ {c} : task'[d] = task[d]
      BY <1>3, <1>4, <1>5
<1>7. StatementsTypeOK' /\ SoundStore'
      BY <1>2, <1>6 DEF StatementsInv, StatementsTypeOK, SoundStore
<1>8. InBatch(c)'
      BY <1>2, <1>4, <1>6 DEF StatementsInv, SessionInv, InBatch, Mutating
<1>9. Key(c)' = Key(c)
      BY <1>4, <1>6 DEF Key
<1>10. Checked(c)'
      BY <1>1, <1>2, <1>3, <1>4, <1>6, <1>9
      DEF StatementsInv, SessionInv, Checked, Mutating, ServerRevision, Seen
<1>11. SoundView(c)'
      BY <1>2, <1>4, <1>6 DEF StatementsInv, SessionInv, SoundView, Unrecorded, Mutating
<1>12. \A d \in Conns \ {c} : SessionInv(d)'
      BY <1>2, <1>6, OthersKeep DEF StatementsInv
<1> QED BY <1>7, <1>8, <1>10, <1>11, <1>12 DEF SessionsInv, SessionInv

LEMMA PushSavesKeeps ==
    ASSUME StatementsInv, NEW c \in Conns, PushSaves(c) PROVE SessionsInv'
<1> USE DEF StatementsInv, PushSaves, Sees, Saves, Runs
<1>1. Advances(c, "project", task[c].i)
      BY DoesAdvances DEF Steps, Mutating
<1>2. /\ Seen(c) \in Databases /\ Sound(Seen(c))
      /\ \A k \in Keys : RowLogged(Seen(c), k)
      BY SeenSound DEF Unrecorded
<1> USE DEF Advances, StatementsTypeOK
<1>3. StatementsTypeOK' /\ SoundStore'
      BY <1>1, <1>2 DEF SoundStore
<1>4. InBatch(c)'
      BY <1>1 DEF SessionInv, InBatch, Mutating
<1>5. Checked(c)'
      BY <1>1, <1>2, StatementsAssumption DEF SessionInv, Checked, Mutating, Key, Seen, CoordInv, CoordTypeOK
<1>6. SoundView(c)'
      BY <1>1, <1>2, StatementsAssumption DEF SessionInv, SoundView
<1>7. \A d \in Conns \ {c} : SessionInv(d)'
      BY <1>1, OthersKeep DEF CoordInv, CoordTypeOK
<1> QED BY <1>3, <1>4, <1>5, <1>6, <1>7 DEF SessionsInv, SessionInv

LEMMA PushProjectsKeeps ==
    ASSUME StatementsInv, NEW c \in Conns, PushProjects(c) PROVE SessionsInv'
<1> DEFINE v == <<c, task[c].n>>
           new == Projected(Seen(c), Key(c), v)
<1>1. /\ Advances(c, "release", task[c].i) /\ view' = [view EXCEPT ![c] = new]
      /\ at' = at /\ savepoint' = savepoint /\ store' = store
      /\ begun' = begun \cup {c} /\ dirty' = dirty \cup {c}
      /\ task[c].step = "project" /\ at[c] = "open"
      BY DoesAdvances DEF PushProjects, StatementsInv, Steps, Mutating, Sees, Writes, Runs, Projected
<1>2. Key(c) \in Keys /\ v \in Contents
      BY <1>1, StatementsAssumption
      DEF StatementsInv, SessionInv, InBatch, Mutating, Key, Contents, StatementsTypeOK, Tasks, Pushers
<1>3. /\ Seen(c) \in Databases /\ Sound(Seen(c))
      /\ \A k \in Keys : RowLogged(Seen(c), k)
      BY <1>1, SeenSound DEF Unrecorded
<1>4. /\ new \in Databases /\ Sound(new) /\ new.rev = Seen(c).rev
      /\ \A l \in Keys \ {Key(c)} : RowLogged(Seen(c), l) => RowLogged(new, l)
      BY <1>2, <1>3, WrittenSound
<1> HIDE DEF new
<1>5. StatementsTypeOK' /\ SoundStore'
      BY <1>1, <1>4 DEF StatementsInv, StatementsTypeOK, SoundStore, Advances
<1>6. InBatch(c)'
      BY <1>1 DEF StatementsInv, SessionInv, InBatch, Mutating, Advances
<1>7. Checked(c)'
  <2>1. ASSUME c \in Pushers, task[c].n > 1
        PROVE  view[c] # NoView /\ savepoint[c] # "outer" /\ new.rev[Key(c)] = task[c].base[Key(c)]
        BY <1>1, <1>4, <2>1 DEF StatementsInv, SessionInv, Checked, Mutating, Seen
  <2>2. view'[c] = new /\ new # NoView /\ Key(c)' = Key(c)
        BY <1>1, <1>4, StatementsAssumption DEF Key, Advances, StatementsInv, StatementsTypeOK
  <2>3. task[c].n > 0
        BY <1>1 DEF StatementsInv, SessionInv, Checked, Mutating
  <2> QED BY <1>1, <2>1, <2>2, <2>3 DEF Checked, Advances, Mutating
<1>8. SoundView(c)'
  <2>1. view'[c] = new /\ new # NoView /\ Key(c)' = Key(c)
        BY <1>1, <1>4, StatementsAssumption DEF Key, Advances, StatementsInv, StatementsTypeOK
  <2>2. task[c].n = 1 => RowLogged(new, Key(c))
    <3>1. task[c].n = 1 => v \in Firsts /\ new.row[Key(c)] = v
          BY <1>1, <1>2, <1>3
          DEF StatementsInv, SessionInv, InBatch, Mutating, Firsts, new, Projected, Databases
    <3> QED BY <3>1 DEF RowLogged
  <2> HIDE DEF v
  <2> QED BY <1>1, <1>3, <1>4, <2>1, <2>2 DEF SoundView, Unrecorded, Advances
<1>9. \A d \in Conns \ {c} : SessionInv(d)'
      BY <1>1, OthersKeep DEF Advances, StatementsInv, StatementsTypeOK
<1> QED BY <1>5, <1>6, <1>7, <1>8, <1>9 DEF SessionsInv, SessionInv

(* The stale snapshot leaves the savepoint to be rolled back.              *)
LEMMA PushFailsKeeps ==
    ASSUME StatementsInv, NEW c \in Conns, PushFails(c) PROVE SessionsInv'
<1>1. /\ Advances(c, "reject", task[c].i) /\ view' = view /\ store' = store
      /\ at' = [at EXCEPT ![c] = "failed"] /\ savepoint' = savepoint
      /\ begun' = begun /\ dirty' = dirty
      /\ task[c].step = "project" /\ at[c] = "open"
      BY DoesAdvances DEF PushFails, StatementsInv, Steps, Mutating, Fails, Runs, Goto
<1>2. at \in [Conns -> Resting \cup {"open", "gate", "file", "failed", "committed", "rolledback"}]
      BY DEF StatementsInv, CoordInv, CoordTypeOK
<1>3. StatementsTypeOK' /\ SoundStore'
      BY <1>1 DEF StatementsInv, StatementsTypeOK, SoundStore, Advances
<1>4. InBatch(c)'
      BY <1>1 DEF StatementsInv, SessionInv, InBatch, Mutating, Advances
<1>5. Checked(c)'
      BY <1>1 DEF StatementsInv, SessionInv, Checked, Mutating, Advances
<1>6. SoundView(c)'
      BY <1>1, <1>2 DEF StatementsInv, SessionInv, SoundView, Unrecorded, Advances
<1>7. \A d \in Conns \ {c} : SessionInv(d)'
      BY <1>1, <1>2, OthersKeep DEF Advances, StatementsInv, StatementsTypeOK
<1> QED BY <1>3, <1>4, <1>5, <1>6, <1>7 DEF SessionsInv, SessionInv

(* The next mutation, or the commit, of a push that goes on.               *)
LEMMA NextMutationBatch ==
    ASSUME StatementsInv, NEW c \in Conns, task[c].step \in Mutating, NextMutation(c), at[c] # "idle"
    PROVE  InBatch(c)'
<1>1. c \in Pushers /\ task[c].i \in 1 .. Len(Batch[c]) /\ Len(Batch[c]) \in Nat
      BY StatementsAssumption DEF StatementsInv, SessionInv, InBatch, Pushers
<1>2. Advances(c, IF task[c].i = Len(Batch[c]) THEN "commit" ELSE "check", task[c].i + 1)
      BY NextMutationAdvances DEF StatementsInv
<1>3. task[c].i # Len(Batch[c]) => task[c].i + 1 \in 1 .. Len(Batch[c])
      BY <1>1
<1>4. c \notin Authors \cup Dispatchers
      BY <1>1, RolesAssumption DEF Pushers
<1> QED BY <1>1, <1>2, <1>3, <1>4 DEF InBatch, Advances, Mutating

LEMMA PushSkipsKeeps ==
    ASSUME StatementsInv, NEW c \in Conns, PushSkips(c) PROVE SessionsInv'
<1> DEFINE s == IF task[c].i = Len(Batch[c]) THEN "commit" ELSE "check"
<1>1. /\ Advances(c, s, task[c].i + 1) /\ view' = view /\ store' = store
      /\ at' = at /\ savepoint' = savepoint /\ begun' = begun /\ dirty' = dirty
      /\ task[c].step = "check" /\ at[c] = "open"
      BY NextMutationAdvances DEF PushSkips, StatementsInv, Runs, coordVars
<1>2. s \in {"commit", "check"}
      OBVIOUS
<1> HIDE DEF s
<1>3. StatementsTypeOK' /\ SoundStore'
      BY <1>1 DEF StatementsInv, StatementsTypeOK, SoundStore, Advances
<1>4. InBatch(c)'
      BY <1>1, NextMutationBatch DEF Mutating, PushSkips
<1>5. Checked(c)'
      BY <1>1, <1>2 DEF StatementsInv, SessionInv, Checked, Mutating, Advances
<1>6. SoundView(c)'
      BY <1>1, <1>2 DEF StatementsInv, SessionInv, SoundView, Unrecorded, Advances
<1>7. \A d \in Conns \ {c} : SessionInv(d)'
      BY <1>1, OthersKeep DEF Advances, StatementsInv
<1> QED BY <1>3, <1>4, <1>5, <1>6, <1>7 DEF SessionsInv, SessionInv

LEMMA PushRejectsKeeps ==
    ASSUME StatementsInv, NEW c \in Conns, PushRejects(c) PROVE SessionsInv'
<1> DEFINE s == IF task[c].i = Len(Batch[c]) THEN "commit" ELSE "check"
<1>1. /\ Advances(c, s, task[c].i + 1) /\ view' = view /\ store' = store
      /\ at' = [at EXCEPT ![c] = "open"] /\ savepoint' = [savepoint EXCEPT ![c] = "none"]
      /\ begun' = begun /\ dirty' = dirty
      /\ task[c].step = "reject" /\ at[c] = "failed"
      BY NextMutationAdvances DEF PushRejects, StatementsInv, RollsBackTo, Runs, Goto
<1>2. s \in {"commit", "check"}
      OBVIOUS
<1> HIDE DEF s
<1>3. /\ at \in [Conns -> Resting \cup {"open", "gate", "file", "failed", "committed", "rolledback"}]
      /\ savepoint \in [Conns -> {"none", "inner", "outer"}]
      BY DEF StatementsInv, CoordInv, CoordTypeOK
<1>4. StatementsTypeOK' /\ SoundStore'
      BY <1>1 DEF StatementsInv, StatementsTypeOK, SoundStore, Advances
<1>5. InBatch(c)'
      BY <1>1, NextMutationBatch DEF Mutating, PushRejects
<1>6. Checked(c)'
      BY <1>1, <1>2 DEF StatementsInv, SessionInv, Checked, Mutating, Advances
<1>7. SoundView(c)'
      BY <1>1, <1>2, <1>3 DEF StatementsInv, SessionInv, SoundView, Unrecorded, Advances
<1>8. \A d \in Conns \ {c} : SessionInv(d)'
      BY <1>1, <1>3, OthersKeep DEF Advances, StatementsInv, StatementsTypeOK
<1> QED BY <1>4, <1>5, <1>6, <1>7, <1>8 DEF SessionsInv, SessionInv

(* What is committed when a session's rows are logged is logged.           *)
LEMMA CommittedSound ==
    ASSUME StatementsInv, NEW c \in Conns, Committed(c),
           \A k \in Keys : ~Unrecorded(c, k)
    PROVE  /\ store' \in Databases /\ SoundStore'
           /\ view' = [view EXCEPT ![c] = NoView]
<1>1. CASE c \in dirty
  <2>1. /\ view[c] \in Databases /\ Sound(view[c])
        /\ \A k \in Keys : RowLogged(view[c], k)
        BY <1>1 DEF StatementsInv, StatementsTypeOK, SessionInv, SoundView
  <2>2. store' = Counted(view[c])
        BY <1>1 DEF Committed, Counted
  <2>3. store' \in Databases /\ Sound(store') /\ \A k \in Keys : RowLogged(store', k)
        BY <2>1, <2>2, CountedSound
  <2> QED BY <2>3 DEF SoundStore, Sound, RowLogged, LoggedValue, Committed, Sees
<1>2. CASE c \notin dirty
      BY <1>2 DEF Committed, Sees, StatementsInv, StatementsTypeOK, SoundStore
<1> QED BY <1>1, <1>2

(* The first savepoint of a push commits; the others leave its transaction *)
(* open.                                                                   *)
LEMMA PushReleasesKeeps ==
    ASSUME StatementsInv, NEW c \in Conns, PushReleases(c) PROVE SessionsInv'
<1>1. /\ Advances(c, "record", task[c].i)
      /\ at' = at /\ savepoint' = [savepoint EXCEPT ![c] = "none"]
      /\ task[c].step = "release" /\ at[c] = "open"
      BY DoesAdvances DEF PushReleases, StatementsInv, Steps, Mutating, Releases, Runs
<1>2. savepoint \in [Conns -> {"none", "inner", "outer"}] /\ view \in [Conns -> Databases \cup {NoView}]
      BY DEF StatementsInv, StatementsTypeOK, CoordInv, CoordTypeOK
<1>3. InBatch(c)'
      BY <1>1 DEF StatementsInv, SessionInv, InBatch, Mutating, Advances
<1>4. CASE savepoint[c] = "outer"
  <2>1. begun' = begun \ {c} /\ dirty' = dirty \ {c} /\ Committed(c)
        BY <1>4 DEF PushReleases, Releases, Ended
  <2>2. c \in Pushers /\ task[c].n = 1
    <3>1. task[c].n \in Nat
          BY DEF StatementsInv, StatementsTypeOK, Tasks
    <3>2. c \in Pushers /\ task[c].n > 0 /\ ~(task[c].n > 1)
          BY <1>1, <1>4 DEF StatementsInv, SessionInv, InBatch, Checked, Mutating
    <3> QED BY <3>1, <3>2
  <2>3. \A k \in Keys : ~Unrecorded(c, k)
        BY <1>1, <2>2 DEF Unrecorded, Key, Firsts
  <2>4. store' \in Databases /\ SoundStore' /\ view' = [view EXCEPT ![c] = NoView]
        BY <2>1, <2>3, CommittedSound
  <2>5. StatementsTypeOK'
        BY <1>1, <1>2, <2>4 DEF StatementsTypeOK, Advances
  <2>6. Checked(c)' /\ SoundView(c)'
        BY <1>1, <1>2, <2>1, <2>2, <2>4 DEF Checked, SoundView, Advances
  <2>7. \A d \in Conns \ {c} : SessionInv(d)'
        BY <1>1, <1>2, <2>1, <2>4, OthersKeep DEF Advances, StatementsInv
  <2> QED BY <1>3, <2>4, <2>5, <2>6, <2>7 DEF SessionsInv, SessionInv
<1>5. CASE savepoint[c] # "outer"
  <2>1. begun' = begun /\ dirty' = dirty /\ store' = store /\ view' = view
        BY <1>5 DEF PushReleases, Releases
  <2>2. StatementsTypeOK' /\ SoundStore'
        BY <1>1, <2>1 DEF StatementsInv, StatementsTypeOK, SoundStore, Advances
  <2>3. Key(c)' = Key(c)
        BY <1>1 DEF Key, Advances
  <2>4. Checked(c)'
        BY <1>1, <2>1, <2>3 DEF StatementsInv, SessionInv, Checked, Mutating, Advances
  <2>5. SoundView(c)'
        BY <1>1, <2>1, <2>3 DEF StatementsInv, SessionInv, SoundView, Unrecorded, Advances
  <2>6. \A d \in Conns \ {c} : SessionInv(d)'
        BY <1>1, <1>2, <2>1, OthersKeep DEF Advances, StatementsInv
  <2> QED BY <1>3, <2>2, <2>4, <2>5, <2>6 DEF SessionsInv, SessionInv
<1> QED BY <1>4, <1>5

(* A sound view, and a mutation that ends, carry the session on.           *)
LEMMA RecordedKeeps ==
    ASSUME StatementsInv, NEW c \in Conns, task[c].step \in {"record", "dispute"},
           NextMutation(c), Writes(c), UNCHANGED store,
           NEW db \in Databases, Sound(db), \A k \in Keys : RowLogged(db, k),
           view' = [view EXCEPT ![c] = db]
    PROVE  SessionsInv'
<1> DEFINE s == IF task[c].i = Len(Batch[c]) THEN "commit" ELSE "check"
<1>1. /\ Advances(c, s, task[c].i + 1) /\ store' = store
      /\ at' = at /\ savepoint' = savepoint /\ at[c] = "open"
      /\ begun' = begun \cup {c} /\ dirty' = dirty \cup {c}
      BY NextMutationAdvances DEF StatementsInv, Writes, Runs
<1>2. s \in {"commit", "check"}
      OBVIOUS
<1> HIDE DEF s
<1>3. view \in [Conns -> Databases \cup {NoView}] /\ db # NoView
      BY StatementsAssumption DEF StatementsInv, StatementsTypeOK
<1>4. StatementsTypeOK' /\ SoundStore'
      BY <1>1, <1>3 DEF StatementsInv, StatementsTypeOK, SoundStore, Advances
<1>5. InBatch(c)'
      BY <1>1, NextMutationBatch DEF Mutating
<1>6. Checked(c)'
      BY <1>1, <1>2, <1>3 DEF Checked, Mutating, Advances
<1>7. SoundView(c)'
      BY <1>1, <1>2, <1>3 DEF SoundView
<1>8. \A d \in Conns \ {c} : SessionInv(d)'
      BY <1>1, <1>3, OthersKeep DEF Advances, StatementsInv
<1> QED BY <1>4, <1>5, <1>6, <1>7, <1>8 DEF SessionsInv, SessionInv

LEMMA PushRecordsKeeps ==
    ASSUME StatementsInv, NEW c \in Conns, PushRecords(c) PROVE SessionsInv'
<1> DEFINE base == task[c].base[Key(c)]
           new == Recorded(Seen(c), c, Key(c), base)
<1>1. /\ task[c].step = "record" /\ at[c] = "open"
      /\ NextMutation(c) /\ Writes(c) /\ UNCHANGED store /\ view' = [view EXCEPT ![c] = new]
      BY DEF PushRecords, Writes, Runs, Sees
<1>2. /\ c \in Pushers /\ task[c].i \in 1 .. Len(Batch[c]) /\ Len(Batch[c]) \in Nat
      /\ Key(c) \in Keys
      BY <1>1, StatementsAssumption DEF StatementsInv, SessionInv, InBatch, Mutating, Pushers, Key
<1>3. /\ Seen(c) \in Databases /\ Sound(Seen(c))
      /\ \A k \in Keys : RowLogged(Seen(c), k) \/ Unrecorded(c, k)
      BY SeenSound
<1>4. base \in Nat /\ task[c].n \in Nat /\ task[c].n > 0
      BY <1>1, <1>2 DEF StatementsInv, StatementsTypeOK, Tasks, SessionInv, Checked, Mutating
<1>5. task[c].n # 1 => base = LastBefore(Seen(c).log, Key(c), Len(Seen(c).log) + 1)
  <2>1. task[c].n # 1 => view[c] # NoView /\ view[c].rev[Key(c)] = base
        BY <1>1, <1>2, <1>4 DEF StatementsInv, SessionInv, Checked, Mutating
  <2> QED BY <1>2, <1>3, <2>1 DEF Seen, Sound
<1>6. /\ new \in Databases /\ Sound(new)
      /\ new.jobs = Seen(c).jobs /\ new.row = Seen(c).row
      /\ new.row[Key(c)] = LoggedValue(new, Key(c))
      /\ \A l \in Keys \ {Key(c)} : LoggedValue(new, l) = LoggedValue(Seen(c), l)
  <2> HIDE DEF base
  <2> QED BY <1>2, <1>3, <1>4, <1>5, RecordedSound
<1> HIDE DEF new
<1>7. \A k \in Keys : RowLogged(new, k)
      BY <1>1, <1>3, <1>6 DEF RowLogged, Unrecorded
<1> QED BY <1>1, <1>6, <1>7, RecordedKeeps

LEMMA PushDisputesKeeps ==
    ASSUME StatementsInv, NEW c \in Conns, PushDisputes(c) PROVE SessionsInv'
<1> DEFINE new == Disputed(Seen(c))
<1>1. /\ task[c].step = "dispute" /\ at[c] = "open"
      /\ NextMutation(c) /\ Writes(c) /\ UNCHANGED store /\ view' = [view EXCEPT ![c] = new]
      BY DEF PushDisputes, Writes, Runs, Sees, Disputed
<1>2. /\ Seen(c) \in Databases /\ Sound(Seen(c))
      /\ \A k \in Keys : RowLogged(Seen(c), k)
      BY <1>1, SeenSound DEF Unrecorded
<1> HIDE DEF new
<1>3. new \in Databases /\ Sound(new) /\ \A k \in Keys : RowLogged(new, k)
      BY <1>2, CountedSound DEF new
<1> QED BY <1>1, <1>3, RecordedKeeps

(* A request that fails can only be rolled back.                           *)
LEMMA PushBreaksKeeps ==
    ASSUME StatementsInv, NEW c \in Conns, PushBreaks(c) PROVE SessionsInv'
<1>1. /\ Advances(c, "none", task[c].i) /\ view' = view /\ store' = store
      /\ at' = [at EXCEPT ![c] = "failed"] /\ savepoint' = savepoint
      /\ begun' = begun /\ dirty' = dirty /\ at[c] = "open"
      BY DoesAdvances DEF PushBreaks, StatementsInv, Steps, Mutating, Fails, Runs, Goto
<1>2. at \in [Conns -> Resting \cup {"open", "gate", "file", "failed", "committed", "rolledback"}]
      BY DEF StatementsInv, CoordInv, CoordTypeOK
<1>3. StatementsTypeOK' /\ SoundStore'
      BY <1>1 DEF StatementsInv, StatementsTypeOK, SoundStore, Advances
<1>4. InBatch(c)'
      BY <1>1 DEF StatementsInv, SessionInv, InBatch, Mutating, Advances
<1>5. Checked(c)'
      BY <1>1 DEF Checked, Mutating, Advances
<1>6. SoundView(c)'
      BY <1>1, <1>2 DEF StatementsInv, SessionInv, SoundView, Unrecorded, Advances
<1>7. \A d \in Conns \ {c} : SessionInv(d)'
      BY <1>1, <1>2, OthersKeep DEF Advances, StatementsInv, StatementsTypeOK
<1> QED BY <1>3, <1>4, <1>5, <1>6, <1>7 DEF SessionsInv, SessionInv

(* Commits of pushes, saves, jobs and imports.                             *)
LEMMA CommitsKeep ==
    ASSUME StatementsInv, NEW c \in Conns, task[c].step = "commit", Commits(c), Committed(c),
           Does(c, "none")
    PROVE  SessionsInv'
<1>1. /\ Advances(c, "none", task[c].i)
      /\ at' = [at EXCEPT ![c] = "committed"] /\ savepoint' = savepoint
      /\ begun' = begun \ {c} /\ dirty' = dirty \ {c} /\ at[c] = "open"
      BY DoesAdvances DEF StatementsInv, Steps, Mutating, Commits, Runs, Goto, Ended
<1>2. at \in [Conns -> Resting \cup {"open", "gate", "file", "failed", "committed", "rolledback"}]
      BY DEF StatementsInv, CoordInv, CoordTypeOK
<1>3. store' \in Databases /\ SoundStore' /\ view' = [view EXCEPT ![c] = NoView]
      BY <1>1, CommittedSound DEF Unrecorded
<1>4. StatementsTypeOK'
      BY <1>1, <1>3 DEF StatementsInv, StatementsTypeOK, Advances
<1>5. InBatch(c)'
      BY <1>1 DEF StatementsInv, SessionInv, InBatch, Mutating, Advances
<1>6. Checked(c)' /\ SoundView(c)'
      BY <1>1, <1>2, <1>3 DEF Checked, Mutating, SoundView, Advances, StatementsInv, StatementsTypeOK
<1>7. \A d \in Conns \ {c} : SessionInv(d)'
      BY <1>1, <1>2, <1>3, OthersKeep DEF Advances, StatementsInv, StatementsTypeOK
<1> QED BY <1>3, <1>4, <1>5, <1>6, <1>7 DEF SessionsInv, SessionInv

-----------------------------------------------------------------------------
(* The steps of saves, capture jobs and imports.                           *)

(* A statement of a session outside of pushes that leaves it a sound view. *)
LEMMA WritesKeep ==
    ASSUME StatementsInv, NEW c \in Conns, task[c].step = "write",
           NEW s \in {"commit", "split"}, Does(c, s), Writes(c), UNCHANGED store,
           NEW db \in Databases, Sound(db), \A k \in Keys : RowLogged(db, k),
           view' = [view EXCEPT ![c] = db], c \notin Pushers
    PROVE  SessionsInv'
<1>1. /\ Advances(c, s, task[c].i) /\ store' = store
      /\ at' = at /\ savepoint' = savepoint /\ at[c] = "open"
      /\ begun' = begun \cup {c} /\ dirty' = dirty \cup {c}
      BY DoesAdvances DEF StatementsInv, Steps, Writes, Runs
<1>2. view \in [Conns -> Databases \cup {NoView}] /\ db # NoView
      BY StatementsAssumption DEF StatementsInv, StatementsTypeOK
<1>3. StatementsTypeOK' /\ SoundStore'
      BY <1>1, <1>2 DEF StatementsInv, StatementsTypeOK, SoundStore, Advances
<1>4. InBatch(c)'
      BY <1>1 DEF StatementsInv, SessionInv, InBatch, Mutating, Advances
<1>5. Checked(c)' /\ SoundView(c)'
      BY <1>1, <1>2 DEF Checked, Mutating, SoundView, Advances
<1>6. \A d \in Conns \ {c} : SessionInv(d)'
      BY <1>1, <1>2, OthersKeep DEF Advances, StatementsInv
<1> QED BY <1>3, <1>4, <1>5, <1>6 DEF SessionsInv, SessionInv

LEMMA SaveWritesKeeps ==
    ASSUME StatementsInv, NEW c \in Conns, SaveWrites(c) PROVE SessionsInv'
<1> DEFINE k == task[c].key
           v == <<c, task[c].runs>>
           new == Saved(Seen(c), k, v)
<1>1. /\ task[c].step = "write" /\ at[c] = "open" /\ c \in Authors
      /\ Does(c, "commit") /\ Writes(c) /\ UNCHANGED store /\ view' = [view EXCEPT ![c] = new]
      BY DEF SaveWrites, Writes, Runs, Sees, Saved
<1>2. k \in Keys /\ v \in Contents /\ c \notin Pushers
      BY <1>1, RolesAssumption
      DEF StatementsInv, SessionInv, InBatch, Contents, StatementsTypeOK, Tasks, Pushers
<1>3. /\ Seen(c) \in Databases /\ Sound(Seen(c))
      /\ \A l \in Keys : RowLogged(Seen(c), l)
      BY <1>1, SeenSound DEF Unrecorded
<1>4. /\ new \in Databases /\ Sound(new) /\ RowLogged(new, k)
      /\ \A l \in Keys \ {k} : RowLogged(Seen(c), l) => RowLogged(new, l)
  <2> HIDE DEF k, v
  <2> QED BY <1>2, <1>3, WrittenSound
<1> HIDE DEF new, k
<1> QED BY <1>1, <1>2, <1>3, <1>4, WritesKeep

(* A job closes with the record of what it read.                           *)
LEMMA JobRecordsKeeps ==
    ASSUME StatementsInv, NEW c \in Conns, JobRecords(c) PROVE SessionsInv'
<1> DEFINE k == task[c].key
           base == Seen(c).rev[k]
           rec == Recorded(Seen(c), c, k, base)
           new == [rec EXCEPT !.jobs[k] = @ - 1]
<1>1. task[c].step = "write" /\ at[c] = "open" /\ c \in Dispatchers /\ store' = store /\ Does(c, "commit")
      BY DEF JobRecords, Writes, Runs
<1>2. k \in Keys /\ c \notin Pushers
      BY <1>1, RolesAssumption DEF StatementsInv, SessionInv, InBatch, Pushers
<1>3. /\ Seen(c) \in Databases /\ Sound(Seen(c))
      /\ \A l \in Keys : RowLogged(Seen(c), l)
      BY <1>1, SeenSound DEF Unrecorded
<1>4. CASE Seen(c).jobs[k] = 0
  <2>1. /\ Advances(c, "commit", task[c].i) /\ view' = view /\ store' = store
        /\ at' = at /\ savepoint' = savepoint /\ begun' = begun /\ dirty' = dirty
        BY <1>1, <1>4, DoesAdvances DEF JobRecords, StatementsInv, Steps, coordVars
  <2>2. StatementsTypeOK' /\ SoundStore'
        BY <2>1 DEF StatementsInv, StatementsTypeOK, SoundStore, Advances
  <2>3. InBatch(c)'
        BY <2>1 DEF StatementsInv, SessionInv, InBatch, Mutating, Advances
  <2>4. Checked(c)' /\ SoundView(c)'
        BY <1>1, <1>2, <2>1
        DEF StatementsInv, SessionInv, Checked, Mutating, SoundView, Unrecorded, Advances
  <2>5. \A d \in Conns \ {c} : SessionInv(d)'
        BY <2>1, OthersKeep DEF Advances, StatementsInv
  <2> QED BY <2>2, <2>3, <2>4, <2>5 DEF SessionsInv, SessionInv
<1>5. CASE Seen(c).jobs[k] # 0
  <2>1. Writes(c) /\ view' = [view EXCEPT ![c] = new]
        BY <1>5 DEF JobRecords, Sees, CapturedOver
  <2>2. base \in Nat /\ base = LastBefore(Seen(c).log, k, Len(Seen(c).log) + 1) /\ task[c].n \in Nat
        BY <1>2, <1>3 DEF Sound, Databases, StatementsInv, StatementsTypeOK, Tasks
  <2> HIDE DEF base, k
  <2>3. /\ rec \in Databases /\ Sound(rec)
        /\ rec.jobs = Seen(c).jobs /\ rec.row = Seen(c).row
        /\ rec.row[k] = LoggedValue(rec, k)
        /\ \A l \in Keys \ {k} : LoggedValue(rec, l) = LoggedValue(Seen(c), l)
        BY <1>2, <1>3, <2>2, RecordedSound
  <2> HIDE DEF rec
  <2>4. rec.jobs \in [Keys -> Nat] /\ rec.jobs[k] - 1 \in Nat
        BY <1>2, <1>3, <1>5, <2>3 DEF Databases
  <2>5. [rec.jobs EXCEPT ![k] = @ - 1] \in [Keys -> Nat]
        BY <2>4
  <2>6. /\ new \in Databases /\ new.log = rec.log /\ new.rev = rec.rev /\ new.row = rec.row
        /\ \A l \in Keys \ {k} : new.jobs[l] = rec.jobs[l]
        BY <2>3, <2>4, <2>5 DEF Databases
  <2> HIDE DEF new
  <2>7. Sound(new) /\ \A l : LoggedValue(new, l) = LoggedValue(rec, l)
        BY <2>3, <2>6 DEF Sound, LoggedValue
  <2>8. \A l \in Keys : RowLogged(new, l)
        BY <1>3, <2>3, <2>6, <2>7 DEF RowLogged
  <2> QED BY <1>1, <1>2, <2>1, <2>6, <2>7, <2>8, WritesKeep
<1> QED BY <1>4, <1>5

LEMMA ImportWritesKeeps ==
    ASSUME StatementsInv, NEW c \in Conns, ImportWrites(c) PROVE SessionsInv'
<1>1. /\ task[c].step = "write" /\ at[c] = "open" /\ c \notin Pushers
      /\ Does(c, "split") /\ Writes(c) /\ UNCHANGED store /\ view' = [view EXCEPT ![c] = Seen(c)]
      BY RolesAssumption DEF ImportWrites, Writes, Runs, Sees, Pushers
<1>2. /\ Seen(c) \in Databases /\ Sound(Seen(c))
      /\ \A l \in Keys : RowLogged(Seen(c), l)
      BY <1>1, SeenSound DEF Unrecorded
<1> QED BY <1>1, <1>2, WritesKeep

(* Waiting, awaiting, resuming and closing change no data.                 *)
LEMMA QuietKeeps ==
    ASSUME StatementsInv, NEW c \in Conns, UNCHANGED <<store, view, begun, dirty, savepoint>>,
           \/ task' = task /\ at[c] \notin {"idle", "failed"}
           \/ task[c].step = "split" /\ Does(c, "commit") /\ c \notin Pushers /\ at[c] = "open",
           \A d \in Conns \ {c} : at'[d] = at[d],
           at'[c] \in {"idle", "committed", "rolledback", "dispatching"} => view[c] = NoView
    PROVE  SessionsInv'
<1>1. CASE task' = task /\ at[c] \notin {"idle", "failed"}
  <2>1. StatementsTypeOK' /\ SoundStore'
        BY <1>1 DEF StatementsInv, StatementsTypeOK, SoundStore
  <2>2. InBatch(c)' /\ Checked(c)' /\ SoundView(c)'
        BY <1>1 DEF StatementsInv, SessionInv, InBatch, Checked, SoundView, Unrecorded, Key
  <2>3. \A d \in Conns \ {c} : SessionInv(d)'
        BY <1>1, OthersKeep DEF StatementsInv
  <2> QED BY <2>1, <2>2, <2>3 DEF SessionsInv, SessionInv
<1>2. CASE task[c].step = "split" /\ Does(c, "commit") /\ c \notin Pushers /\ at[c] = "open"
  <2>1. Advances(c, "commit", task[c].i)
        BY <1>2, DoesAdvances DEF StatementsInv, Steps
  <2>2. StatementsTypeOK' /\ SoundStore'
        BY <2>1 DEF StatementsInv, StatementsTypeOK, SoundStore, Advances
  <2>3. InBatch(c)' /\ Checked(c)' /\ SoundView(c)'
        BY <1>2, <2>1 DEF StatementsInv, SessionInv, InBatch, Mutating, Checked, SoundView, Unrecorded, Advances
  <2>4. \A d \in Conns \ {c} : SessionInv(d)'
        BY <2>1, OthersKeep DEF Advances, StatementsInv
  <2> QED BY <2>2, <2>3, <2>4 DEF SessionsInv, SessionInv
<1> QED BY <1>1, <1>2

LEMMA QuietSessionsKeep ==
    ASSUME StatementsInv, NEW c \in Conns,
           \/ Waits(c) \/ Ends(c) \/ SaveReturns(c) \/ ImportAwaits(c) \/ ImportResumes(c)
    PROVE  SessionsInv'
<1> USE DEF Goto, Runs
<1>1. at \in [Conns -> Resting \cup {"open", "gate", "file", "failed", "committed", "rolledback"}]
      BY DEF StatementsInv, CoordInv, CoordTypeOK
<1>2. CASE Waits(c)
      BY <1>1, <1>2, QuietKeeps
      DEF Waits, WantsLease, PassesGate, LocksFile, GateTimesOut, FileTimesOut
<1>3. at[c] \in {"committed", "rolledback", "dispatching"} => view[c] = NoView
      BY DEF StatementsInv, SessionInv, SoundView
<1>4. CASE Ends(c)
      BY <1>1, <1>3, <1>4, QuietKeeps DEF Ends, Closes
<1>5. CASE SaveReturns(c)
      BY <1>1, <1>3, <1>5, QuietKeeps DEF SaveReturns, Dispatched
<1>6. CASE ImportAwaits(c)
      BY <1>1, <1>6, RolesAssumption, QuietKeeps DEF ImportAwaits, Awaits, Pushers
<1>7. CASE ImportResumes(c)
      BY <1>1, <1>7, QuietKeeps DEF ImportResumes, Resumes
<1> QED BY <1>2, <1>4, <1>5, <1>6, <1>7

(* A session that is opened has read and written nothing yet.              *)
LEMMA OpenedKeeps ==
    ASSUME StatementsInv, NEW c \in Conns, UNCHANGED <<store, view, begun, dirty, savepoint>>,
           view[c] = NoView, at' = [at EXCEPT ![c] = "open"],
           NEW t \in Tasks, task' = [task EXCEPT ![c] = t],
           \/ t.step = "check" /\ t.i = 1 /\ t.n = 0 /\ c \in Pushers
           \/ t.step = "write" /\ c \notin Pushers /\ (t.key \in Keys \/ c \in Patient)
    PROVE  SessionsInv'
<1>1. /\ at \in [Conns -> Resting \cup {"open", "gate", "file", "failed", "committed", "rolledback"}]
      /\ task \in [Conns -> Tasks]
      BY DEF StatementsInv, CoordInv, CoordTypeOK, StatementsTypeOK
<1>2. task'[c] = t /\ at'[c] = "open" /\ \A d \in Conns \ {c} : task'[d] = task[d] /\ at'[d] = at[d]
      BY <1>1
<1>3. StatementsTypeOK' /\ SoundStore'
      BY DEF StatementsInv, StatementsTypeOK, SoundStore
<1>4. InBatch(c)'
  <2>1. c \in Pushers => 1 \in 1 .. Len(Batch[c]) /\ c \notin Authors \cup Dispatchers
        BY StatementsAssumption, RolesAssumption DEF Pushers
  <2>2. c \in Patient => c \notin Authors \cup Dispatchers
        BY RolesAssumption
  <2> QED BY <1>2, <2>1, <2>2 DEF InBatch, Mutating
<1>5. Checked(c)' /\ SoundView(c)'
      BY <1>2 DEF StatementsInv, SessionInv, Checked, Mutating, SoundView
<1>6. \A d \in Conns \ {c} : SessionInv(d)'
      BY <1>2, OthersKeep DEF StatementsInv
<1> QED BY <1>3, <1>4, <1>5, <1>6 DEF SessionsInv, SessionInv

LEMMA OpensKeep ==
    ASSUME StatementsInv, NEW c \in Conns,
           PushOpens(c) \/ ImportOpens(c) \/ \E k \in Keys : SaveOpens(c, k)
    PROVE  SessionsInv'
<1>1. /\ at[c] = "idle" /\ at' = [at EXCEPT ![c] = "open"] /\ view[c] = NoView
      /\ UNCHANGED <<store, view, begun, dirty, savepoint>>
      BY DEF PushOpens, ImportOpens, SaveOpens, Open, Runs, Goto, StatementsInv, SessionInv, SoundView
<1>2. task[c] \in Tasks /\ task \in [Conns -> Tasks] /\ store.rev \in [Keys -> Nat] /\ task[c].runs + 1 \in Nat
      BY DEF StatementsInv, StatementsTypeOK, Tasks, Databases
<1>3. CASE PushOpens(c)
  <2> DEFINE t == [NoTask EXCEPT !.step = "check", !.i = 1, !.base = store.rev, !.runs = 1]
  <2>1. task' = [task EXCEPT ![c] = t] /\ c \in Pushers
        BY <1>3 DEF PushOpens
  <2>2. t \in Tasks /\ t.step = "check" /\ t.i = 1 /\ t.n = 0
        BY <1>2 DEF NoTask, Tasks, Steps, Mutating
  <2> HIDE DEF t
  <2> QED BY <1>1, <2>1, <2>2, OpenedKeeps
<1>4. CASE ImportOpens(c)
  <2> DEFINE t == [task[c] EXCEPT !.step = "write", !.runs = 1]
  <2>1. task' = [task EXCEPT ![c] = t] /\ c \in Patient /\ c \notin Pushers
        BY <1>4, RolesAssumption DEF ImportOpens, Pushers
  <2>2. t \in Tasks /\ t.step = "write"
        BY <1>2 DEF Tasks, Steps
  <2> HIDE DEF t
  <2> QED BY <1>1, <2>1, <2>2, OpenedKeeps
<1>5. ASSUME NEW k \in Keys, SaveOpens(c, k) PROVE SessionsInv'
  <2> DEFINE t == [task[c] EXCEPT !.step = "write", !.key = k, !.runs = task[c].runs + 1]
  <2>1. task' = [task EXCEPT ![c] = t] /\ c \notin Pushers
        BY <1>5, RolesAssumption DEF SaveOpens, Pushers
  <2>2. t \in Tasks /\ t.step = "write" /\ t.key = k
        BY <1>2 DEF Tasks, Steps
  <2> HIDE DEF t
  <2> QED BY <1>1, <2>1, <2>2, OpenedKeeps
<1> QED BY <1>3, <1>4, <1>5

(* The listeners of a save open a session for its job.                     *)
LEMMA SaveDispatchesKeeps ==
    ASSUME StatementsInv, NEW c \in Conns, SaveDispatches(c) PROVE SessionsInv'
<1> DEFINE e == Dispatcher[c]
           t == [task[e] EXCEPT !.step = "write", !.key = task[c].key]
<1>1. /\ at \in [Conns -> Resting \cup {"open", "gate", "file", "failed", "committed", "rolledback"}]
      /\ task \in [Conns -> Tasks]
      BY DEF StatementsInv, CoordInv, CoordTypeOK, StatementsTypeOK
<1>2. /\ at[c] = "committed" /\ e # Nobody /\ at[e] = "idle"
      /\ at' = [at EXCEPT ![c] = "dispatching", ![e] = "open"]
      /\ task' = [task EXCEPT ![e] = t]
      /\ UNCHANGED <<store, view, begun, dirty, savepoint>>
      BY DEF SaveDispatches, Dispatches, Runs
<1>3. e \in Conns /\ e # c /\ e \in Dispatchers /\ c \in Authors /\ e \notin Pushers
      BY <1>2, CoordinationAssumption, RolesAssumption DEF Dispatchers, Pushers
<1>4. task[c].key \in Keys /\ view[c] = NoView /\ view[e] = NoView
      BY <1>2, <1>3 DEF StatementsInv, SessionInv, InBatch, SoundView
<1>5. t \in Tasks /\ t.step = "write" /\ t.key = task[c].key
      BY <1>1, <1>3, <1>4 DEF Tasks, Steps
<1> HIDE DEF t, e
<1>6. /\ task'[e] = t /\ at'[e] = "open" /\ task'[c] = task[c] /\ at'[c] = "dispatching"
      /\ \A d \in Conns \ {c, e} : task'[d] = task[d] /\ at'[d] = at[d]
      BY <1>1, <1>2, <1>3
<1>7. StatementsTypeOK' /\ SoundStore'
      BY <1>2, <1>3, <1>5 DEF StatementsInv, StatementsTypeOK, SoundStore
<1>8. InBatch(e)' /\ Checked(e)' /\ SoundView(e)'
      BY <1>2, <1>3, <1>4, <1>5, <1>6
      DEF StatementsInv, SessionInv, InBatch, Mutating, Checked, SoundView
<1>9. InBatch(c)' /\ Checked(c)' /\ SoundView(c)'
      BY <1>2, <1>3, <1>4, <1>6 DEF StatementsInv, SessionInv, InBatch, Checked, SoundView, Key
<1>10. \A d \in Conns \ {c, e} : SessionInv(d)'
      BY <1>2, <1>6, OthersKeep DEF StatementsInv
<1> QED BY <1>7, <1>8, <1>9, <1>10 DEF SessionsInv, SessionInv

-----------------------------------------------------------------------------
(* Errors and ends of processes.                                           *)

LEMMA ErrsKeeps ==
    ASSUME StatementsInv, NEW c \in Conns, Errs(c) PROVE SessionsInv'
<1>1. /\ Advances(c, "none", task[c].i) /\ store' = store /\ view' = [view EXCEPT ![c] = NoView]
      /\ at' = [at EXCEPT ![c] = "rolledback"] /\ savepoint' = [savepoint EXCEPT ![c] = "none"]
      /\ begun' = begun \ {c} /\ dirty' = dirty \ {c} /\ at[c] = "failed"
      BY DoesAdvances DEF Errs, StatementsInv, Steps, RollsBack, Runs, Goto, Ended, Sees
<1>2. /\ at \in [Conns -> Resting \cup {"open", "gate", "file", "failed", "committed", "rolledback"}]
      /\ savepoint \in [Conns -> {"none", "inner", "outer"}]
      BY DEF StatementsInv, CoordInv, CoordTypeOK
<1>3. StatementsTypeOK' /\ SoundStore'
      BY <1>1 DEF StatementsInv, StatementsTypeOK, SoundStore, Advances
<1>4. InBatch(c)'
      BY <1>1 DEF StatementsInv, SessionInv, InBatch, Mutating, Advances
<1>5. Checked(c)' /\ SoundView(c)'
      BY <1>1 DEF StatementsInv, StatementsTypeOK, Checked, Mutating, SoundView, Advances
<1>6. \A d \in Conns \ {c} : SessionInv(d)'
      BY <1>1, <1>2, OthersKeep DEF Advances, StatementsInv, StatementsTypeOK
<1> QED BY <1>3, <1>4, <1>5, <1>6 DEF SessionsInv, SessionInv

LEMMA EndingKeeps ==
    ASSUME StatementsInv, NEW p \in Procs, Ending(p) PROVE SessionsInv'
<1>1. store' = store /\ begun' = begun \ {c \in Conns : Process[c] = p}
      /\ dirty' = dirty \ {c \in Conns : Process[c] = p}
      BY DEF Ending, Crash
<1>2. ASSUME NEW d \in Conns, Process[d] # p
      PROVE  /\ at'[d] = at[d] /\ task'[d] = task[d] /\ view'[d] = view[d]
             /\ savepoint'[d] = savepoint[d]
      BY <1>2 DEF Ending, Crash
<1>3. ASSUME NEW d \in Conns, Process[d] = p
      PROVE  /\ at'[d] = "idle" /\ view'[d] = NoView /\ task'[d] \in Tasks
             /\ task'[d].step = "none"
  <2>1. [NoTask EXCEPT !.runs = task[d].runs] \in Tasks
        BY DEF NoTask, Tasks, Steps, StatementsInv, StatementsTypeOK
  <2>2. at'[d] = "idle" /\ view'[d] = NoView /\ task'[d] = [NoTask EXCEPT !.runs = task[d].runs]
        BY <1>3 DEF Ending, Crash
  <2> QED BY <2>1, <2>2 DEF NoTask
<1>4. StatementsTypeOK' /\ SoundStore'
  <2>1. view' \in [Conns -> Databases \cup {NoView}]
        BY DEF Ending, StatementsInv, StatementsTypeOK
  <2>2. \A d \in Conns : task'[d] \in Tasks
        BY <1>2, <1>3 DEF StatementsInv, StatementsTypeOK
  <2>3. task' \in [Conns -> Tasks]
        BY <2>2 DEF Ending
  <2> QED BY <1>1, <2>1, <2>3 DEF StatementsInv, StatementsTypeOK, SoundStore
<1>5. ASSUME NEW d \in Conns PROVE SessionInv(d)'
  <2>1. CASE Process[d] = p
        BY <1>1, <1>3, <2>1 DEF SessionInv, InBatch, Mutating, Checked, SoundView
  <2>2. CASE Process[d] # p
        BY <1>1, <1>2, <2>2, OthersKeep DEF StatementsInv
  <2> QED BY <2>1, <2>2
<1> QED BY <1>4, <1>5 DEF SessionsInv

-----------------------------------------------------------------------------
(* No session works at the start, and no row is edited.                    *)
LEMMA StatementsStart == Init => StatementsInv
<1> SUFFICES ASSUME Init PROVE StatementsInv
    OBVIOUS
<1>1. CoordInv
      BY CoordStart DEF Init
<1>2. /\ store \in Databases /\ store.log = <<>> /\ store.rev = [k \in Keys |-> 0]
      /\ store.row = [k \in Keys |-> <<Nobody, 0>>]
      BY DEF Init, Databases, Contents
<1>3. \A k \in Keys : LastBefore(store.log, k, Len(store.log) + 1) = 0
  <2>1. \A k : {i \in 1 .. (0 + 1) - 1 : store.log[i].key = k} = {}
        OBVIOUS
  <2> QED BY <1>2, <2>1 DEF LastBefore, Last
<1>4. SoundStore
      BY <1>2, <1>3 DEF SoundStore, Sound, RowLogged, LoggedValue
<1>5. NoTask \in Tasks /\ NoTask.step = "none"
      BY DEF NoTask, Tasks, Steps
<1>6. StatementsTypeOK
      BY <1>2, <1>5 DEF Init, StatementsTypeOK
<1>7. \A c \in Conns : SessionInv(c)
      BY <1>5 DEF Init, CoordInit, SessionInv, InBatch, Mutating, Checked, SoundView
<1> QED BY <1>1, <1>4, <1>6, <1>7 DEF StatementsInv

(* Every step of every session keeps the invariant.                        *)
LEMMA StatementsSteps == StatementsInv /\ [Next]_vars => StatementsInv'
<1> SUFFICES ASSUME StatementsInv, [Next]_vars PROVE StatementsInv'
    OBVIOUS
<1>1. CoordInv'
      BY CoordSteps, CoordinatedSteps DEF StatementsInv
<1>2. CASE UNCHANGED vars
      BY <1>1, <1>2 DEF StatementsInv, vars, coordVars, StatementsTypeOK, SoundStore, SessionInv, InBatch,
                Checked, SoundView, Unrecorded, Key
<1>3. ASSUME NEW c \in Conns, Work(c) PROVE SessionsInv'
  <2>1. CASE \/ Waits(c) \/ Errs(c) \/ Ends(c) \/ SaveReturns(c) \/ SaveDispatches(c)
             \/ ImportAwaits(c) \/ ImportResumes(c)
        BY <2>1, QuietSessionsKeep, ErrsKeeps, SaveDispatchesKeeps
  <2>2. CASE PushSkips(c) \/ PushChecks(c) \/ PushSaves(c) \/ PushProjects(c) \/ PushFails(c)
        BY <2>2, PushSkipsKeeps, PushChecksKeeps, PushSavesKeeps, PushProjectsKeeps, PushFailsKeeps
  <2>3. CASE \/ PushRejects(c) \/ PushReleases(c) \/ PushRecords(c) \/ PushDisputes(c)
             \/ PushBreaks(c)
        BY <2>3, PushRejectsKeeps, PushReleasesKeeps, PushRecordsKeeps, PushDisputesKeeps,
           PushBreaksKeeps
  <2>4. CASE SaveWrites(c) \/ JobRecords(c) \/ ImportWrites(c)
        BY <2>4, SaveWritesKeeps, JobRecordsKeeps, ImportWritesKeeps
  <2>5. CASE PushCommits(c) \/ SaveCommits(c) \/ JobCommits(c) \/ ImportCommits(c)
        BY <2>5, CommitsKeep DEF PushCommits, SaveCommits, JobCommits, ImportCommits
  <2> QED BY <1>3, <2>1, <2>2, <2>3, <2>4, <2>5 DEF Work
<1>4. CASE Next
  <2>1. SessionsInv'
        BY <1>3, <1>4, OpensKeep, EndingKeeps DEF Next
  <2> QED BY <1>1, <2>1 DEF SessionsInv, StatementsInv
<1> QED BY <1>2, <1>4

LEMMA StatementsAlways == Spec => []StatementsInv
BY StatementsStart, StatementsSteps, PTL DEF Spec

(* Every change of the log but the first of a push was checked against the *)
(* change it replaces, whatever connections wrote in between.              *)
THEOREM WritesAreChecked == Spec => []CheckedWrites
<1>1. StatementsInv => CheckedWrites
      BY DEF StatementsInv, SoundStore, Sound, CheckedWrites
<1> QED BY <1>1, StatementsAlways, PTL

(* A committed row is what the log says or has a capture job, through any  *)
(* errors and ends of processes.                                           *)
THEOREM CommittedRowsAreLogged == Spec => []WritesAreLogged
<1>1. StatementsInv => WritesAreLogged
      BY DEF StatementsInv, SoundStore, RowLogged, LoggedValue, Firsts, WritesAreLogged
<1> QED BY <1>1, StatementsAlways, PTL

(* The lease is given back before the listeners run.                       *)
Unleased == \A c \in Conns : at[c] = "dispatching" => c \notin lease

LEMMA UnleasedSteps == CoordInv /\ Unleased /\ [CoordNext]_coordVars => Unleased'
<1> SUFFICES ASSUME CoordInv, Unleased, [CoordNext]_coordVars PROVE Unleased'
    OBVIOUS
<1>1. at \in [Conns -> Resting \cup {"open", "gate", "file", "failed", "committed", "rolledback"}]
      BY DEF CoordInv, CoordTypeOK
<1> USE DEF Unleased, Goto, Runs
<1>2. CASE UNCHANGED coordVars
      BY <1>2 DEF coordVars
<1>3. ASSUME NEW c \in Conns,
             \/ Open(c) \/ WantsLease(c) \/ PassesGate(c) \/ LocksFile(c)
             \/ GateTimesOut(c) \/ FileTimesOut(c)
      PROVE  Unleased'
      BY <1>1, <1>3 DEF Open, WantsLease, PassesGate, LocksFile, GateTimesOut, FileTimesOut
<1>4. ASSUME NEW c \in Conns,
             \/ Writes(c) \/ Fails(c) \/ Saves(c) \/ Releases(c) \/ RollsBackTo(c)
             \/ Commits(c) \/ RollsBack(c) \/ Awaits(c) \/ Resumes(c)
      PROVE  Unleased'
      BY <1>1, <1>4 DEF Writes, Fails, Saves, Releases, RollsBackTo, Commits, RollsBack, Awaits, Resumes
<1>5. ASSUME NEW c \in Conns, Dispatches(c) \/ Dispatched(c) \/ Closes(c)
      PROVE  Unleased'
      BY <1>1, <1>5, CoordinationAssumption DEF Dispatches, Dispatched, Closes, LeaseReturned
<1>6. ASSUME NEW p \in Procs, Crash(p) PROVE Unleased'
      BY <1>6 DEF Crash
<1> QED BY <1>2, <1>3, <1>4, <1>5, <1>6 DEF CoordNext

(* No session waits, to dispatch what it has committed, for its own lock.  *)
THEOREM NoSessionWaitsForItself == Spec => []NeverWaitsForItself
<1>1. Init => CoordInv /\ Unleased
      BY CoordStart DEF Init, CoordInit, Unleased
<1>2. CoordInv /\ Unleased /\ [Next]_vars => (CoordInv /\ Unleased)'
      BY CoordSteps, UnleasedSteps, CoordinatedSteps
<1>3. CoordInv /\ Unleased => NeverWaitsForItself
      BY CoordinationAssumption
      DEF CoordInv, CoordTypeOK, LockOrder, Unleased, NeverWaitsForItself
<1> QED BY <1>1, <1>2, <1>3, PTL DEF Spec
================================================================================
