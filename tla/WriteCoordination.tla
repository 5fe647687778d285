-------------------------- MODULE WriteCoordination --------------------------
(***************************************************************************)
(* The write coordination of the database (database/write_coordination.py) *)
(* below the sessions of SQLAlchemy: before its first write statement a    *)
(* connection takes the lock of its process and then the lock file that    *)
(* the processes share, both with a time limit; both are given back after  *)
(* the transaction, before the listeners that write in its wake.           *)
(*                                                                         *)
(* A connection belongs to a thread. The coroutines of a process share the *)
(* thread of its event loop, and one that waits for a lock stops them all. *)
(***************************************************************************)
EXTENDS Naturals, FiniteSets

CONSTANTS
    Conns,      \* connections, one per session at a time
    Procs,      \* processes on the database file
    Process,    \* the process of each connection
    Thread,     \* the thread of each connection
    Dispatcher, \* the connection a session's after-commit listeners open
    Patient,    \* coroutines that await a model between their writes
    Nobody

ASSUME CoordinationAssumption ==
    /\ Process \in [Conns -> Procs]
    /\ Dispatcher \in [Conns -> Conns \cup {Nobody}]
    /\ Nobody \notin Conns
    /\ Patient \subseteq Conns

VARIABLES
    at,        \* where the session of a connection is
    gate,      \* _process_locks: the holder of each process's lock
    file,      \* the holder of the lock file
    lease,     \* connections with a lease in their info
    begun,     \* connections whose SQLite transaction is open
    dirty,     \* connections with uncommitted changes
    savepoint  \* the open savepoint: none, the transaction itself, or inner

coordVars == <<at, gate, file, lease, begun, dirty, savepoint>>

CoordInit ==
    /\ at = [c \in Conns |-> "idle"]
    /\ gate = [p \in Procs |-> Nobody]
    /\ file = Nobody
    /\ lease = {}
    /\ begun = {}
    /\ dirty = {}
    /\ savepoint = [c \in Conns |-> "none"]

Goto(c, s) == at' = [at EXCEPT ![c] = s]

(* A connection's thread is not held up by another one.                    *)
Resting == {"idle", "await", "dispatching"}
Runs(c, s) ==
    /\ at[c] = s
    /\ \A d \in Conns \ {c} : Thread[d] = Thread[c] => at[d] \in Resting

Dispatchers == {Dispatcher[c] : c \in Conns}

-----------------------------------------------------------------------------
Open(c) ==
    /\ Runs(c, "idle") /\ c \notin Dispatchers
    /\ Goto(c, "open")
    /\ UNCHANGED <<gate, file, lease, begun, dirty, savepoint>>

(* The first write statement of a connection without a lease.              *)
WantsLease(c) ==
    /\ Runs(c, "open") /\ c \notin lease
    /\ Goto(c, "gate")
    /\ UNCHANGED <<gate, file, lease, begun, dirty, savepoint>>

PassesGate(c) ==
    /\ at[c] = "gate" /\ gate[Process[c]] = Nobody
    /\ gate' = [gate EXCEPT ![Process[c]] = c]
    /\ Goto(c, "file")
    /\ UNCHANGED <<file, lease, begun, dirty, savepoint>>

LocksFile(c) ==
    /\ at[c] = "file" /\ file = Nobody
    /\ file' = c
    /\ lease' = lease \cup {c}
    /\ Goto(c, "open")
    /\ UNCHANGED <<gate, begun, dirty, savepoint>>

(* Fault: the lock of the process is waited for without a limit.           *)
GateNeverTimesOut(c) == FALSE

(* DatabaseWriteLockTimeout                                                *)
GateTimesOut(c) ==
    /\ at[c] = "gate" /\ gate[Process[c]] # Nobody
    /\ Goto(c, "failed")
    /\ UNCHANGED <<gate, file, lease, begun, dirty, savepoint>>

FileTimesOut(c) ==
    /\ at[c] = "file" /\ file # Nobody
    /\ gate' = [gate EXCEPT ![Process[c]] = Nobody]
    /\ Goto(c, "failed")
    /\ UNCHANGED <<file, lease, begun, dirty, savepoint>>

(* SQLite begins a transaction before the first change of a connection.    *)
Writes(c) ==
    /\ Runs(c, "open") /\ c \in lease
    /\ begun' = begun \cup {c}
    /\ dirty' = dirty \cup {c}
    /\ UNCHANGED <<at, gate, file, lease, savepoint>>

Fails(c) ==
    /\ Runs(c, "open")
    /\ Goto(c, "failed")
    /\ UNCHANGED <<gate, file, lease, begun, dirty, savepoint>>

(* Fault: every savepoint is a transaction of its own.                     *)
SavesApart(c) ==
    /\ Runs(c, "open") /\ savepoint[c] = "none"
    /\ savepoint' = [savepoint EXCEPT ![c] = "outer"]
    /\ begun' = begun \cup {c}
    /\ UNCHANGED <<at, gate, file, lease, dirty>>

(* begin_nested: with no transaction begun, the savepoint is one.          *)
Saves(c) ==
    /\ Runs(c, "open") /\ savepoint[c] = "none"
    /\ savepoint' = [savepoint EXCEPT ![c] = IF c \in begun THEN "inner" ELSE "outer"]
    /\ begun' = begun \cup {c}
    /\ UNCHANGED <<at, gate, file, lease, dirty>>

LeaseReturned(c) ==
    /\ lease' = lease \ {c}
    /\ IF c \in lease
       THEN file' = Nobody /\ gate' = [gate EXCEPT ![Process[c]] = Nobody]
       ELSE UNCHANGED <<file, gate>>

(* SQLite's transaction ends, with its changes or without them.            *)
Ended(c) == begun' = begun \ {c} /\ dirty' = dirty \ {c}

(* Fault: the lease goes with every savepoint.                             *)
ReleasesLease(c) ==
    /\ Runs(c, "open") /\ savepoint[c] # "none"
    /\ savepoint' = [savepoint EXCEPT ![c] = "none"]
    /\ IF savepoint[c] = "outer" THEN Ended(c) ELSE UNCHANGED <<begun, dirty>>
    /\ LeaseReturned(c)
    /\ UNCHANGED at

(* To release the outermost savepoint is to commit; the lease stays.       *)
Releases(c) ==
    /\ Runs(c, "open") /\ savepoint[c] # "none"
    /\ savepoint' = [savepoint EXCEPT ![c] = "none"]
    /\ IF savepoint[c] = "outer" THEN Ended(c) ELSE UNCHANGED <<begun, dirty>>
    /\ UNCHANGED <<at, gate, file, lease>>

(* ROLLBACK TO leaves SQLite's transaction open.                           *)
RollsBackTo(c) ==
    /\ Runs(c, "failed") /\ savepoint[c] # "none"
    /\ savepoint' = [savepoint EXCEPT ![c] = "none"]
    /\ Goto(c, "open")
    /\ UNCHANGED <<gate, file, lease, begun, dirty>>

Commits(c) ==
    /\ Runs(c, "open") /\ savepoint[c] = "none"
    /\ Ended(c)
    /\ Goto(c, "committed")
    /\ UNCHANGED <<gate, file, lease, savepoint>>

(* The session is rolled back and closed.                                  *)
RollsBack(c) ==
    /\ Runs(c, "failed")
    /\ Ended(c)
    /\ savepoint' = [savepoint EXCEPT ![c] = "none"]
    /\ Goto(c, "rolledback")
    /\ UNCHANGED <<gate, file, lease>>

(* Fault: the listeners that write run before the lease is given back.     *)
DispatchesLeased(c) ==
    /\ Runs(c, "committed") /\ Dispatcher[c] # Nobody
    /\ at' = [at EXCEPT ![c] = "dispatching", ![Dispatcher[c]] = "open"]
    /\ UNCHANGED <<gate, file, lease, begun, dirty, savepoint>>

(* _release_session_write_leases is the first of the listeners.            *)
Dispatches(c) ==
    /\ Runs(c, "committed")
    /\ Dispatcher[c] # Nobody /\ at[Dispatcher[c]] = "idle"
    /\ LeaseReturned(c)
    /\ at' = [at EXCEPT ![c] = "dispatching", ![Dispatcher[c]] = "open"]
    /\ UNCHANGED <<begun, dirty, savepoint>>

Dispatched(c) ==
    /\ Runs(c, "dispatching") /\ at[Dispatcher[c]] = "idle"
    /\ LeaseReturned(c)
    /\ Goto(c, "idle")
    /\ UNCHANGED <<begun, dirty, savepoint>>

Closes(c) ==
    /\ Runs(c, "committed") \/ Runs(c, "rolledback")
    /\ LeaseReturned(c)
    /\ Goto(c, "idle")
    /\ UNCHANGED <<begun, dirty, savepoint>>

(* import_file_as_project awaits the model after its first flush.          *)
Awaits(c) ==
    /\ Runs(c, "open") /\ c \in Patient /\ c \in dirty
    /\ Goto(c, "await")
    /\ UNCHANGED <<gate, file, lease, begun, dirty, savepoint>>

Resumes(c) ==
    /\ Runs(c, "await")
    /\ Goto(c, "open")
    /\ UNCHANGED <<gate, file, lease, begun, dirty, savepoint>>

(* A process ends: the system drops its file lock, SQLite its changes.     *)
Crash(p) ==
    LET gone == {c \in Conns : Process[c] = p} IN
    /\ at' = [c \in Conns |-> IF c \in gone THEN "idle" ELSE at[c]]
    /\ savepoint' = [c \in Conns |-> IF c \in gone THEN "none" ELSE savepoint[c]]
    /\ gate' = [gate EXCEPT ![p] = Nobody]
    /\ file' = IF file \in gone THEN Nobody ELSE file
    /\ lease' = lease \ gone
    /\ begun' = begun \ gone
    /\ dirty' = dirty \ gone

CoordNext ==
    \/ \E c \in Conns :
          \/ Open(c) \/ WantsLease(c) \/ PassesGate(c) \/ LocksFile(c)
          \/ GateTimesOut(c) \/ FileTimesOut(c)
          \/ Writes(c) \/ Fails(c) \/ Saves(c) \/ Releases(c) \/ RollsBackTo(c)
          \/ Commits(c) \/ RollsBack(c)
          \/ Dispatches(c) \/ Dispatched(c) \/ Closes(c)
          \/ Awaits(c) \/ Resumes(c)
    \/ \E p \in Procs : Crash(p)

CoordSpec == CoordInit /\ [][CoordNext]_coordVars

-----------------------------------------------------------------------------
CoordTypeOK ==
    /\ at \in [Conns -> Resting \cup {"open", "gate", "file", "failed", "committed",
                                      "rolledback"}]
    /\ gate \in [Procs -> Conns \cup {Nobody}]
    /\ file \in Conns \cup {Nobody}
    /\ lease \subseteq Conns
    /\ begun \subseteq Conns
    /\ dirty \subseteq Conns
    /\ savepoint \in [Conns -> {"none", "inner", "outer"}]

(* The two locks: what a lease is, and who may wait for the file.          *)
LockOrder ==
    /\ \A c \in Conns : c \in lease <=> file = c
    /\ \A c \in lease : gate[Process[c]] = c
    /\ \A c \in Conns : at[c] = "file" => gate[Process[c]] = c
    /\ \A c \in lease : at[c] \notin {"gate", "file"}
    /\ \A p \in Procs, c \in Conns :
          gate[p] = c => Process[c] = p /\ (c \in lease \/ at[c] = "file")

(* Uncommitted changes are made under the lease, and end before it does.   *)
LeasedChanges ==
    /\ dirty \subseteq lease
    /\ \A c \in dirty : at[c] \notin {"committed", "rolledback", "dispatching"}

Lease == INSTANCE WriteLease WITH writing <- dirty

(* The write transactions of all connections, savepoints, timeouts and     *)
(* ends of processes included, are one after the other.                    *)
LeaseSpec == Lease!Spec
=============================================================================
