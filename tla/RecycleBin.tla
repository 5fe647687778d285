----------------------------- MODULE RecycleBin -----------------------------
(***************************************************************************)
(* The recycle bin of the author's data.  A deletion runs inside           *)
(* capture_deletion, which records what it changed: the rows the foreign   *)
(* keys take along, the rows that mentioned them, the later chapters that  *)
(* fall due for cataloging again.  A restore checks that each of those     *)
(* rows is still as the deletion left it and that what they hang on is     *)
(* there, and puts the old values back.                                    *)
(*                                                                         *)
(* A row is its text, the rows its nullable foreign keys mention, whether  *)
(* the chapter is due, whether its mirror file is recorded, and a stamp:   *)
(* updated_at, new with every write of the row.                            *)
(***************************************************************************)
EXTENDS Naturals, FiniteSets

CONSTANTS
    Rows,        \* the rows of the author's tables, and those below
    Excluded,    \* rows of tables the recorder does not know (manifests, runs)
    Retained,    \* drafts: discarding one keeps its row
    Chapters,
    Deletable,   \* the rows an author may delete or discard
    Owners,      \* [Rows -> SUBSET Rows] keys with ON DELETE CASCADE
    Mentions,    \* [Rows -> SUBSET Rows] keys with ON DELETE SET NULL
    Later,       \* [Chapters -> SUBSET Chapters] the chapters that follow
    Texts,
    Discarded,   \* the text of a discarded draft
    None,
    Stamps,      \* the bound on the values of updated_at
    MaxEntries   \* the bound on the entries of the bin

ASSUME TablesFit ==
    /\ Excluded \subseteq Rows /\ Retained \subseteq Rows \ Excluded
    /\ Chapters \subseteq Rows \ Excluded /\ Deletable \subseteq Rows \ Excluded
    /\ Owners \in [Rows -> SUBSET Rows] /\ Mentions \in [Rows -> SUBSET Rows]
    /\ Later \in [Chapters -> SUBSET Chapters]
    /\ \A r \in Rows \ Excluded : Owners[r] \cap Excluded = {}
    /\ Discarded \in Texts /\ 0 \in Stamps /\ Stamps \subseteq Nat /\ MaxEntries \in Nat

Row == [text : Texts, refs : SUBSET Rows, due : BOOLEAN, placed : BOOLEAN, stamp : Stamps]

ASSUME NoneIsNoRow == None \notin Row

Tables == [Rows -> Row \cup {None}]

VARIABLES
    rows,     \* the author's tables
    entries   \* the rows of recycle_bin_entries

rowVars == <<rows, entries>>

Here(t) == {r \in Rows : t[r] # None}

(* The rows that go with r: the least set the cascading keys close. *)
Closed(S) == \A r \in Rows : Owners[r] \cap S # {} => r \in S

Heirs == [r \in Rows |->
            {x \in Rows : \A S \in SUBSET Rows : r \in S /\ Closed(S) => x \in S}]

(* A table without the rows of gone: nothing mentions them any more. *)
Without(t, gone) ==
    [r \in Rows |-> IF r \in gone \/ t[r] = None THEN None
                    ELSE [t[r] EXCEPT !.refs = @ \ gone]]

Snapshots == {rows} \cup UNION {{e.had, e.left} : e \in entries}

(* A value of updated_at that row r has not had.                           *)
Fresh(r) == Stamps \ {t[r].stamp : t \in {u \in Snapshots : u[r] # None}}

Now(r) == CHOOSE n \in Stamps : n \in Fresh(r) \/ Fresh(r) = {}

(* Chapters that must be cataloged again are written when the mark is new. *)
Marked(t, S) ==
    [r \in Rows |-> IF r \in S /\ t[r] # None
                    THEN IF t[r].due THEN t[r]
                         ELSE [t[r] EXCEPT !.due = TRUE, !.stamp = Now(r)]
                    ELSE t[r]]

Followers(S) == UNION {Later[c] : c \in S \cap Chapters}

(***************************************************************************)
(* Deletion                                                                *)
(***************************************************************************)
Doomed(r) == IF r \in Retained THEN {} ELSE Heirs[r]

(* The tables after the deletion of r from t. *)
Left(t, r) ==
    IF r \in Retained
    THEN [t EXCEPT ![r].text = Discarded, ![r].stamp = Now(r)]
    ELSE Marked(Without(t, Doomed(r)), Followers(Doomed(r)) \ Doomed(r))

(* The fault of a recorder that does not follow the keys that mention.     *)
RememberedOwned(t, r) ==
    {x \in Here(t) \ Excluded : x = r \/ x \in Doomed(r) \/ x \in Followers(Doomed(r))}

(* The rows the recorder remembers: the root and what its keys take along, *)
(* the rows that mention one of these, the chapters the rollback marks.    *)
Remembered(t, r) ==
    {x \in Here(t) \ Excluded :
        \/ x = r
        \/ x \in Doomed(r)
        \/ t[x].refs \cap (Doomed(r) \ Excluded) # {}
        \/ x \in Followers(Doomed(r))}

Captured(t, r) == {x \in Remembered(t, r) : t[x] # Left(t, r)[x]}

Entry(t, r) ==
    [root    |-> r,
     changes |-> [x \in Captured(t, r) |-> [before |-> t[x], after |-> Left(t, r)[x]]],
     had     |-> t,
     left    |-> Left(t, r),
     expired |-> FALSE]

(* Purging the entry of a discarded draft takes the draft, if nothing      *)
(* wrote it since.                                                         *)
RetainedRoots(S) ==
    {e.root : e \in {x \in S : /\ x.root \in Retained
                               /\ rows[x.root] = x.changes[x.root].after}}

Purged(S) == Without(rows, UNION {Heirs[r] : r \in RetainedRoots(S)})

Expired == {e \in entries : e.expired}

(* capture_deletion: the expired entries go first, then the tables change  *)
(* and the entry is added, in one savepoint.                               *)
Delete(r) ==
    LET t == Purged(Expired) IN
    /\ Cardinality(entries \ Expired) < MaxEntries
    /\ t[r] # None
    /\ r \in Retained => t[r].text # Discarded
    /\ rows' = Left(t, r)
    /\ entries' = (entries \ Expired) \cup {Entry(t, r)}

Purge(e) ==
    /\ rows' = Purged({e})
    /\ entries' = entries \ {e}

PurgeExpired ==
    /\ Expired # {}
    /\ rows' = Purged(Expired)
    /\ entries' = entries \ Expired

(* The seven days of an entry end. *)
Expire(e) ==
    /\ ~e.expired
    /\ entries' = (entries \ {e}) \cup {[e EXCEPT !.expired = TRUE]}
    /\ UNCHANGED rows

(***************************************************************************)
(* Restore                                                                 *)
(***************************************************************************)
Changed(e) == DOMAIN e.changes

(* The faults of a restore that does not look where the keys lead, and of  *)
(* one that looks for the row among those that are there only.             *)
ResolvedAnyway(e, x) == x \in Changed(e)

ResolvedPresent(e, x) == \A o \in Owners[x] : rows[o] # None

(* Every key of a row to restore leads to a row that is there or restored  *)
(* with it; one that leads to a table the recorder does not know is given  *)
(* up.                                                                     *)
Resolved(e, x) ==
    /\ \A o \in Owners[x] : o \in Changed(e) \/ rows[o] # None
    /\ \A m \in e.changes[x].before.refs :
          m \in Changed(e) \/ rows[m] # None \/ m \in Excluded

Unchanged(e, x) == rows[x] = e.changes[x].after

Recoverable(e) ==
    /\ ~e.expired
    /\ \A x \in Changed(e) : Unchanged(e, x) /\ Resolved(e, x)

Recovered(e, x) ==
    [e.changes[x].before EXCEPT !.refs = {m \in @ : m \in Changed(e) \/ rows[m] # None}]

Restore(e) ==
    /\ Recoverable(e)
    /\ rows' = [x \in Rows |-> IF x \in Changed(e) THEN Recovered(e, x) ELSE rows[x]]
    /\ entries' = entries \ {e}

(***************************************************************************)
(* The other writes of these rows                                          *)
(***************************************************************************)
(* A semantic edit: the chapter and those after it fall due.               *)
Edit(r, text, refs) ==
    /\ rows[r] # None
    /\ refs \subseteq Mentions[r] \cap Here(rows)
    /\ <<text, refs>> # <<rows[r].text, rows[r].refs>>
    /\ rows' = LET t == [rows EXCEPT ![r].text = text, ![r].refs = refs, ![r].stamp = Now(r)]
               IN IF r \in Chapters
                  THEN Marked([t EXCEPT ![r].due = TRUE], Followers({r}))
                  ELSE t
    /\ UNCHANGED entries

(* The mirror records the file and the hash of the chapters it wrote.      *)
Place(S) ==
    /\ S \subseteq Here(rows)
    /\ rows' = [r \in Rows |-> IF r \in S
                               THEN [rows[r] EXCEPT !.placed = TRUE, !.stamp = Now(r)]
                               ELSE rows[r]]
    /\ UNCHANGED entries

(***************************************************************************)
(* Properties                                                              *)
(***************************************************************************)
Linked(t) ==
    \A r \in Here(t) : Owners[r] \subseteq Here(t) /\ t[r].refs \subseteq Here(t)

(* No row hangs on or mentions a row that is gone, whatever is deleted,    *)
(* purged and restored in whatever order (the keys SQLite would refuse).   *)
ReferencesHold == Linked(rows)

(* Without its mentions of rows the recorder does not know, which a        *)
(* restore may give up.                                                    *)
Authored(row) == IF row = None THEN None ELSE [row EXCEPT !.refs = @ \ Excluded]

(* A restore undoes its deletion and nothing else: each row that is as the *)
(* deletion left it is given back as the deletion found it, and no row     *)
(* written since changes.                                                  *)
RestoreUndoesDeletion ==
    [][\A e \in entries : Restore(e) =>
          \A r \in Rows \ Excluded :
              IF rows[r] = e.left[r]
              THEN Authored(rows'[r]) = Authored(e.had[r])
              ELSE rows'[r] = rows[r]]_rowVars

(* What an author deletes can be had back while it is kept, every row it   *)
(* changed is as it left it, and no row it left that one of these hangs on *)
(* or mentions has gone since.                                             *)
DeletionCanBeUndone ==
    \A e \in entries :
        /\ ~e.expired
        /\ \A x \in Changed(e) :
              /\ rows[x] = e.left[x]
              /\ \A y \in Owners[x] \cup e.had[x].refs : e.left[y] # None => rows[y] # None
        => Recoverable(e)
=============================================================================
