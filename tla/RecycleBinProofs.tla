-------------------------- MODULE RecycleBinProofs --------------------------
(***************************************************************************)
(* Whatever is deleted, purged, restored, edited and mirrored, in any      *)
(* order and over any tables, no row of the author's data hangs on or      *)
(* mentions a row that is gone.  Beside the typing of the entries, the     *)
(* invariant is inductive as it stands: a deletion takes a set of rows the *)
(* cascading keys close and clears what mentions it; a restore looks where *)
(* each key leads before it puts a row back.  That an entry remembers what *)
(* its deletion found and left is inductive too, and makes a deletion undo *)
(* exactly, whatever else was deleted, restored or written since.          *)
(***************************************************************************)
EXTENDS ContentMirror, TLAPS

Change == [before : Row, after : Row \cup {None}]

Entries == [root : Rows, changes : UNION {[S -> Change] : S \in SUBSET Rows},
            had : Tables, left : Tables, expired : BOOLEAN]

BinInv ==
    /\ rows \in Tables
    /\ entries \subseteq Entries
    /\ ReferencesHold

(***************************************************************************)
(* The operators                                                           *)
(***************************************************************************)
(* What goes with a row is closed under the cascading keys.                *)
LEMMA HeirsAreClosed ==
    \A r \in Rows : Heirs[r] \subseteq Rows /\ Closed(Heirs[r])
<1> SUFFICES ASSUME NEW r \in Rows
             PROVE  Heirs[r] \subseteq Rows /\ Closed(Heirs[r])
    OBVIOUS
<1>1. Heirs[r] = {x \in Rows : \A S \in SUBSET Rows : r \in S /\ Closed(S) => x \in S}
    BY DEF Heirs
<1>2. ASSUME NEW y \in Rows, Owners[y] \cap Heirs[r] # {}
      PROVE  y \in Heirs[r]
    <2>1. PICK o \in Owners[y] : o \in Heirs[r]
        BY <1>2
    <2>2. ASSUME NEW S \in SUBSET Rows, r \in S, Closed(S)
          PROVE  y \in S
        <3>1. o \in S
            BY <1>1, <2>1, <2>2
        <3> QED
            BY <2>1, <2>2, <3>1 DEF Closed
    <2> QED
        BY <1>1, <2>2
<1> QED
    BY <1>1, <1>2 DEF Closed

LEMMA NowIsStamp == \A r \in Rows : Now(r) \in Stamps
<1> SUFFICES ASSUME NEW r \in Rows PROVE Now(r) \in Stamps
    OBVIOUS
<1>1. \E n \in Stamps : n \in Fresh(r) \/ Fresh(r) = {}
    BY TablesFit DEF Fresh
<1> QED
    BY <1>1 DEF Now

(* Taking away a closed set of rows keeps the links of the others.         *)
LEMMA WithoutKeepsLinks ==
    ASSUME NEW t \in Tables, Linked(t), NEW gone \in SUBSET Rows, Closed(gone)
    PROVE  Without(t, gone) \in Tables /\ Linked(Without(t, gone))
<1> DEFINE u == Without(t, gone)
<1>1. \A r \in Rows : u[r] = IF r \in gone \/ t[r] = None THEN None
                             ELSE [t[r] EXCEPT !.refs = @ \ gone]
    BY DEF Without
<1>2. \A r \in Rows : r \notin gone /\ t[r] # None =>
          /\ t[r] \in Row
          /\ [t[r] EXCEPT !.refs = @ \ gone] \in Row
          /\ [t[r] EXCEPT !.refs = @ \ gone].refs = t[r].refs \ gone
    BY DEF Tables, Row
<1>3. u \in Tables
    BY <1>1, <1>2 DEF Without, Tables
<1>4. \A r \in Rows : r \in Here(u) <=> r \in Here(t) /\ r \notin gone
    BY <1>1, <1>2, NoneIsNoRow DEF Here
<1>5. ASSUME NEW r \in Here(u)
      PROVE  Owners[r] \subseteq Here(u) /\ u[r].refs \subseteq Here(u)
    <2>1. r \in Rows /\ r \in Here(t) /\ r \notin gone
        BY <1>4, <1>5 DEF Here
    <2>2. Owners[r] \subseteq Here(t) /\ t[r].refs \subseteq Here(t)
        BY <2>1 DEF Linked
    <2>3. Owners[r] \cap gone = {}
        BY <2>1 DEF Closed
    <2>4. u[r].refs = t[r].refs \ gone
        BY <1>1, <1>2, <2>1 DEF Here
    <2>5. Here(t) \subseteq Rows
        BY DEF Here
    <2> QED
        BY <1>4, <2>2, <2>3, <2>4, <2>5
<1> QED
    BY <1>3, <1>5 DEF Linked

(* Tables with the same rows and the same mentions have the same links.    *)
LEMMA SameLinks ==
    ASSUME NEW t \in Tables, NEW u \in Tables, Linked(t),
           \A r \in Rows : (u[r] = None <=> t[r] = None)
                           /\ (t[r] # None => u[r].refs \subseteq Here(t))
    PROVE  Linked(u)
<1>1. Here(u) = Here(t)
    BY DEF Here
<1> QED
    BY <1>1 DEF Linked, Here

LEMMA MarkedKeepsLinks ==
    ASSUME NEW t \in Tables, Linked(t), NEW S
    PROVE  Marked(t, S) \in Tables /\ Linked(Marked(t, S))
<1> DEFINE u == Marked(t, S)
<1>1. ASSUME NEW r \in Rows
      PROVE  /\ u[r] \in Row \cup {None}
             /\ u[r] = None <=> t[r] = None
             /\ t[r] # None => u[r].refs = t[r].refs
    <2>1. t[r] \in Row \cup {None} /\ Now(r) \in Stamps
        BY NowIsStamp DEF Tables
    <2>2. u[r] = t[r] \/ (t[r] # None /\ u[r] = [t[r] EXCEPT !.due = TRUE, !.stamp = Now(r)])
        BY DEF Marked
    <2>3. t[r] # None =>
             /\ [t[r] EXCEPT !.due = TRUE, !.stamp = Now(r)] \in Row
             /\ [t[r] EXCEPT !.due = TRUE, !.stamp = Now(r)].refs = t[r].refs
        BY <2>1 DEF Row
    <2> QED
        BY <2>1, <2>2, <2>3, NoneIsNoRow
<1>2. u \in Tables
    BY <1>1 DEF Marked, Tables
<1>3. \A r \in Rows : t[r] # None => t[r].refs \subseteq Here(t)
    BY DEF Linked, Here
<1> QED
    BY <1>1, <1>2, <1>3, SameLinks

LEMMA PurgedKeepsLinks ==
    ASSUME BinInv, NEW S \in SUBSET entries
    PROVE  Purged(S) \in Tables /\ Linked(Purged(S))
<1> DEFINE gone == UNION {Heirs[r] : r \in RetainedRoots(S)}
<1>1. RetainedRoots(S) \subseteq Rows
    BY TablesFit DEF RetainedRoots
<1>2. gone \in SUBSET Rows /\ Closed(gone)
    BY <1>1, HeirsAreClosed DEF Closed
<1> QED
    BY <1>2, WithoutKeepsLinks DEF Purged, BinInv, ReferencesHold

LEMMA LeftKeepsLinks ==
    ASSUME NEW t \in Tables, Linked(t), NEW r \in Rows, t[r] # None
    PROVE  Left(t, r) \in Tables /\ Linked(Left(t, r))
<1>1. CASE r \in Retained
    <2> DEFINE u == [t EXCEPT ![r].text = Discarded, ![r].stamp = Now(r)]
    <2>1. t[r] \in Row /\ Now(r) \in Stamps /\ Discarded \in Texts
        BY NowIsStamp, TablesFit DEF Tables
    <2>2. u = [t EXCEPT ![r] = [t[r] EXCEPT !.text = Discarded, !.stamp = Now(r)]]
        BY <2>1 DEF Tables, Row
    <2>3. /\ [t[r] EXCEPT !.text = Discarded, !.stamp = Now(r)] \in Row
          /\ [t[r] EXCEPT !.text = Discarded, !.stamp = Now(r)].refs = t[r].refs
        BY <2>1 DEF Row
    <2>4. u \in Tables
        BY <2>2, <2>3 DEF Tables
    <2>5. \A x \in Rows : t[x] # None => t[x].refs \subseteq Here(t)
        BY DEF Linked, Here
    <2>6. \A x \in Rows : (u[x] = None <=> t[x] = None)
                          /\ (t[x] # None => u[x].refs \subseteq Here(t))
        BY <2>1, <2>2, <2>3, <2>5, NoneIsNoRow DEF Tables
    <2>7. Linked(u)
        BY <2>4, <2>6, SameLinks
    <2> QED
        BY <1>1, <2>4, <2>7 DEF Left
<1>2. CASE r \notin Retained
    <2>1. Doomed(r) \in SUBSET Rows /\ Closed(Doomed(r))
        BY <1>2, HeirsAreClosed DEF Doomed
    <2>2. Without(t, Doomed(r)) \in Tables /\ Linked(Without(t, Doomed(r)))
        BY <2>1, WithoutKeepsLinks
    <2> QED
        BY <1>2, <2>2, MarkedKeepsLinks DEF Left
<1> QED
    BY <1>1, <1>2

(***************************************************************************)
(* The actions of the bin                                                  *)
(***************************************************************************)
LEMMA DeleteKeeps ==
    ASSUME BinInv, NEW r \in Deletable, Delete(r)
    PROVE  BinInv'
<1> DEFINE t == Purged(Expired)
<1>1. t \in Tables /\ Linked(t)
    BY PurgedKeepsLinks DEF Expired
<1>2. r \in Rows /\ t[r] # None
    BY TablesFit DEF Delete
<1>3. Left(t, r) \in Tables /\ Linked(Left(t, r))
    BY <1>1, <1>2, LeftKeepsLinks
<1>4. Entry(t, r) \in Entries
    <2>1. Captured(t, r) \subseteq Rows /\ \A x \in Captured(t, r) : t[x] # None
        BY DEF Captured, Remembered, Here
    <2>2. \A x \in Captured(t, r) : [before |-> t[x], after |-> Left(t, r)[x]] \in Change
        BY <1>1, <1>3, <2>1 DEF Tables, Change
    <2>3. [x \in Captured(t, r) |-> [before |-> t[x], after |-> Left(t, r)[x]]]
              \in [Captured(t, r) -> Change]
        BY <2>2
    <2> QED
        BY <1>1, <1>2, <1>3, <2>1, <2>3 DEF Entry, Entries
<1>5. rows' = Left(t, r) /\ entries' = (entries \ Expired) \cup {Entry(t, r)}
    BY DEF Delete
<1>6. entries' \subseteq Entries
    BY <1>4, <1>5 DEF BinInv
<1>7. ReferencesHold'
    BY <1>3, <1>5 DEF ReferencesHold, Linked, Here
<1> QED
    BY <1>3, <1>5, <1>6, <1>7 DEF BinInv

LEMMA PurgeKeeps ==
    ASSUME BinInv, NEW S \in SUBSET entries, rows' = Purged(S), entries' = entries \ S
    PROVE  BinInv'
<1>1. Purged(S) \in Tables /\ Linked(Purged(S))
    BY PurgedKeepsLinks
<1>2. ReferencesHold'
    BY <1>1 DEF ReferencesHold, Linked, Here
<1> QED
    BY <1>1, <1>2 DEF BinInv

LEMMA ExpireKeeps ==
    ASSUME BinInv, NEW e \in entries, Expire(e)
    PROVE  BinInv'
<1>1. [e EXCEPT !.expired = TRUE] \in Entries
    BY DEF BinInv, Entries
<1>2. entries' \subseteq Entries /\ rows' = rows
    BY <1>1 DEF Expire, BinInv
<1> QED
    BY <1>2 DEF BinInv, ReferencesHold, Linked, Here

LEMMA RestoreKeeps ==
    ASSUME BinInv, NEW e \in entries, Restore(e)
    PROVE  BinInv'
<1>1. e \in Entries
    BY DEF BinInv
<1>2. /\ Changed(e) \subseteq Rows
      /\ \A x \in Changed(e) : e.changes[x].before \in Row
    <2>1. PICK S \in SUBSET Rows : e.changes \in [S -> Change]
        BY <1>1 DEF Entries
    <2> QED
        BY <2>1 DEF Changed, Change
<1>3. \A x \in Changed(e) :
        /\ Recovered(e, x) \in Row
        /\ Recovered(e, x).refs =
             {m \in e.changes[x].before.refs : m \in Changed(e) \/ rows[m] # None}
    BY <1>2 DEF Recovered, Row
<1>4. rows' = [x \in Rows |-> IF x \in Changed(e) THEN Recovered(e, x) ELSE rows[x]]
    BY DEF Restore
<1>5. rows' \in Tables
    BY <1>3, <1>4 DEF Tables, BinInv
<1>6. \A x \in Rows : x \in Here(rows') <=> x \in Changed(e) \/ rows[x] # None
    BY <1>3, <1>4, NoneIsNoRow DEF Here
<1>7. ASSUME NEW r \in Here(rows')
      PROVE  Owners[r] \subseteq Here(rows') /\ rows'[r].refs \subseteq Here(rows')
    <2>1. r \in Rows /\ Owners[r] \subseteq Rows
        BY TablesFit DEF Here
    <2>2. CASE r \in Changed(e)
        <3>1. \A o \in Owners[r] : o \in Changed(e) \/ rows[o] # None
            BY <2>2 DEF Restore, Recoverable, Resolved
        <3>2. rows'[r].refs \subseteq Rows
              /\ \A m \in rows'[r].refs : m \in Changed(e) \/ rows[m] # None
            BY <1>2, <1>3, <1>4, <2>1, <2>2 DEF Row
        <3> QED
            BY <1>6, <2>1, <3>1, <3>2
    <2>3. CASE r \notin Changed(e)
        <3>1. rows'[r] = rows[r] /\ r \in Here(rows)
            BY <1>4, <1>6, <1>7, <2>1, <2>3 DEF Here
        <3>2. Owners[r] \subseteq Here(rows) /\ rows[r].refs \subseteq Here(rows)
            BY <3>1 DEF BinInv, ReferencesHold, Linked
        <3>3. \A x \in Here(rows) : x \in Here(rows')
            BY <1>6 DEF Here
        <3> QED
            BY <3>1, <3>2, <3>3
    <2> QED
        BY <2>2, <2>3
<1>8. ReferencesHold'
    BY <1>7 DEF ReferencesHold, Linked, Here
<1> QED
    BY <1>5, <1>8 DEF BinInv, Restore

LEMMA EditKeeps ==
    ASSUME BinInv, NEW c \in Chapters, NEW text \in Texts, NEW refs \in SUBSET Mentions[c],
           Edit(c, text, refs)
    PROVE  BinInv'
<1> DEFINE row == [rows[c] EXCEPT !.text = text, !.refs = refs, !.stamp = Now(c), !.due = TRUE]
           t   == [rows EXCEPT ![c] = row]
<1>1. c \in Rows /\ rows \in Tables /\ Linked(rows) /\ rows[c] # None
    BY TablesFit DEF BinInv, ReferencesHold, Edit
<1>2. rows[c] \in Row /\ Now(c) \in Stamps /\ refs \subseteq Here(rows) /\ refs \subseteq Rows
    BY <1>1, NowIsStamp DEF Tables, Edit, Here
<1>3. row \in Row /\ row.refs = refs
    BY <1>2 DEF Row
<1>4. t \in Tables
    BY <1>1, <1>3 DEF Tables
<1>5. \A r \in Rows : rows[r] # None => rows[r].refs \subseteq Here(rows)
    BY <1>1 DEF Linked, Here
<1>6. \A r \in Rows : (t[r] = None <=> rows[r] = None)
                      /\ (rows[r] # None => t[r].refs \subseteq Here(rows))
    BY <1>1, <1>2, <1>3, <1>5, NoneIsNoRow DEF Tables
<1>7. Linked(t)
    BY <1>1, <1>4, <1>6, SameLinks
<1>8. rows' = Marked(t, Followers({c}))
    <2>1. [[rows EXCEPT ![c].text = text, ![c].refs = refs, ![c].stamp = Now(c)]
              EXCEPT ![c].due = TRUE] = t
        BY <1>1, <1>2 DEF Tables, Row
    <2> QED
        BY <2>1 DEF Edit
<1>9. rows' \in Tables /\ Linked(Marked(t, Followers({c})))
    BY <1>4, <1>7, <1>8, MarkedKeepsLinks
<1>10. ReferencesHold'
    BY <1>8, <1>9 DEF ReferencesHold, Linked, Here
<1> QED
    BY <1>9, <1>10 DEF BinInv, Edit

LEMMA PlaceKeeps ==
    ASSUME BinInv, NEW S, Place(S)
    PROVE  BinInv'
<1>1. ASSUME NEW r \in Rows
      PROVE  /\ rows'[r] \in Row \cup {None}
             /\ rows'[r] = None <=> rows[r] = None
             /\ rows[r] # None => rows'[r].refs = rows[r].refs
    <2>1. rows[r] \in Row \cup {None} /\ Now(r) \in Stamps
        BY NowIsStamp DEF BinInv, Tables
    <2>2. rows'[r] = rows[r]
          \/ (rows[r] # None /\ rows'[r] = [rows[r] EXCEPT !.placed = TRUE, !.stamp = Now(r)])
        BY DEF Place, Here
    <2>3. rows[r] # None =>
             /\ [rows[r] EXCEPT !.placed = TRUE, !.stamp = Now(r)] \in Row
             /\ [rows[r] EXCEPT !.placed = TRUE, !.stamp = Now(r)].refs = rows[r].refs
        BY <2>1 DEF Row
    <2> QED
        BY <2>1, <2>2, <2>3, NoneIsNoRow
<1>2. rows' \in Tables
    BY <1>1 DEF Place, Tables
<1>3. Here(rows') = Here(rows)
    BY <1>1 DEF Here
<1>4. Linked(rows) /\ \A r \in Here(rows) : rows'[r].refs = rows[r].refs
    BY <1>1 DEF BinInv, ReferencesHold, Here
<1>5. ReferencesHold'
    BY <1>3, <1>4 DEF ReferencesHold, Linked
<1> QED
    BY <1>2, <1>5 DEF BinInv, Place

(***************************************************************************)
(* The specification                                                       *)
(***************************************************************************)
LEMMA InitLinks == Init => BinInv
<1> SUFFICES ASSUME Init PROVE BinInv
    OBVIOUS
<1>1. PICK mirrored \in BOOLEAN, text \in Texts \ {Discarded} :
        rows = [r \in Rows |-> [text |-> text, refs |-> Mentions[r], due |-> FALSE,
                                placed |-> mirrored, stamp |-> 0]]
    BY DEF Init
<1>2. \A r \in Rows : rows[r] \in Row /\ rows[r].refs \subseteq Rows /\ Owners[r] \subseteq Rows
    BY <1>1, TablesFit DEF Row
<1>3. Here(rows) = Rows
    BY <1>2, NoneIsNoRow DEF Here
<1>4. rows \in Tables
    BY <1>1, <1>2 DEF Tables
<1> QED
    BY <1>2, <1>3, <1>4 DEF BinInv, ReferencesHold, Linked, Init

LEMMA NextKeepsLinks == BinInv /\ [Next]_vars => BinInv'
<1> SUFFICES ASSUME BinInv, [Next]_vars PROVE BinInv'
    OBVIOUS
<1>1. ASSUME UNCHANGED rowVars PROVE BinInv'
    BY <1>1 DEF rowVars, BinInv, ReferencesHold, Linked, Here
<1>2. CASE UNCHANGED vars
    BY <1>1, <1>2 DEF vars, rowVars
<1>3. ASSUME NEW t \in Threads, Authors(t) PROVE BinInv'
    <2>1. ASSUME NEW c \in Chapters, Saves(t, c) PROVE BinInv'
        BY <2>1, EditKeeps DEF Saves
    <2>2. ASSUME NEW r \in Deletable, Deletes(t, r) PROVE BinInv'
        BY <2>2, DeleteKeeps DEF Deletes
    <2>3. ASSUME NEW e \in entries, Restores(t, e) PROVE BinInv'
        BY <2>3, RestoreKeeps DEF Restores
    <2>4. ASSUME NEW e \in entries, Purges(t, e) PROVE BinInv'
        BY <2>4, PurgeKeeps, {e} \in SUBSET entries DEF Purges, Purge
    <2>5. CASE Lists(t)
        BY <2>5, PurgeKeeps, Expired \in SUBSET entries DEF Lists, PurgeExpired, Expired
    <2> QED
        BY <1>3, <2>1, <2>2, <2>3, <2>4, <2>5 DEF Authors
<1>4. ASSUME NEW t \in Workers, Runs(t) PROVE BinInv'
    <2>1. CASE Finish(t)
        BY <2>1, PlaceKeeps DEF Finish
    <2>2. CASE UNCHANGED rowVars
        BY <1>1, <2>2
    <2> QED
        BY <1>4, <2>1, <2>2 DEF Runs, Look, Take, Gather, Write, Fail, GiveUp, rowVars
<1>5. ASSUME NEW e \in entries, Expires(e) PROVE BinInv'
    BY <1>5, ExpireKeeps DEF Expires
<1>6. CASE Restart
    BY <1>1, <1>6 DEF Restart, rowVars
<1>7. CASE Started
    BY <1>7, PurgeKeeps, Expired \in SUBSET entries DEF Started, Expired
<1> QED
    BY <1>2, <1>3, <1>4, <1>5, <1>6, <1>7 DEF Next

(* For any tables and keys, any number of threads and of entries: in every *)
(* state of the bin and the mirror, what a row hangs on and what it        *)
(* mentions is there.                                                      *)
THEOREM MirrorKeepsReferences == Spec => []ReferencesHold
<1>1. Spec => []BinInv
    BY InitLinks, NextKeepsLinks, PTL DEF Spec
<1>2. BinInv => ReferencesHold
    BY DEF BinInv
<1> QED
    BY <1>1, <1>2, PTL

(***************************************************************************)
(* Undoing a deletion                                                      *)
(***************************************************************************)
(* What an entry remembers: the tables it found were whole, each change it *)
(* kept is what the deletion made of a row it knew, and the other rows are *)
(* the author's as they were.                                              *)
Remembers(e) ==
    /\ e.had \in Tables /\ e.left \in Tables /\ Linked(e.had)
    /\ Changed(e) \subseteq Rows \ Excluded
    /\ \A x \in Changed(e) :
          /\ e.had[x] # None
          /\ e.changes[x].before = e.had[x] /\ e.changes[x].after = e.left[x]
    /\ \A x \in Rows \ Excluded : x \notin Changed(e) =>
          Authored(e.had[x]) = Authored(e.left[x])

EntriesInv == \A e \in entries : Remembers(e)

LEMMA AuthoredIsThere ==
    ASSUME NEW row \in Row \cup {None}
    PROVE  Authored(row) = None <=> row = None
<1>1. row # None => [row EXCEPT !.refs = @ \ Excluded] \in Row
    BY DEF Row
<1> QED
    BY <1>1, NoneIsNoRow DEF Authored

(* A row the recorder does not keep is the author's as it was: it loses at *)
(* most mentions of rows the recorder does not know.                       *)
LEMMA OthersAreLeft ==
    ASSUME NEW t \in Tables, NEW r \in Deletable, t[r] # None,
           NEW x \in Rows \ Excluded, x \notin Captured(t, r)
    PROVE  Authored(t[x]) = Authored(Left(t, r)[x])
<1>1. CASE t[x] = Left(t, r)[x]
    BY <1>1
<1>2. CASE t[x] # Left(t, r)[x]
    <2>1. x \notin Remembered(t, r)
        BY <1>2 DEF Captured
    <2>2. t[x] \in Row \cup {None} /\ x \in Rows
        BY DEF Tables
    <2>3. CASE r \in Retained
        <3>1. r \in Remembered(t, r)
            BY TablesFit DEF Remembered, Here
        <3>2. x # r
            BY <2>1, <3>1
        <3> QED
            BY <1>2, <2>2, <2>3, <3>2 DEF Left, Tables
    <2>4. CASE r \notin Retained
        <3> DEFINE D == Doomed(r)
                   S == Followers(D) \ D
        <3>1. Left(t, r)[x] = Marked(Without(t, D), S)[x]
            BY <2>4 DEF Left
        <3>2. CASE t[x] = None
            <4>1. Without(t, D)[x] = None
                BY <2>2, <3>2 DEF Without
            <4>2. Marked(Without(t, D), S)[x] = None
                BY <2>2, <4>1 DEF Marked
            <4> QED
                BY <1>2, <3>1, <3>2, <4>2
        <3>3. CASE t[x] # None
            <4>1. x \notin D /\ t[x].refs \cap (D \ Excluded) = {} /\ x \notin Followers(D)
                BY <2>1, <2>2, <3>3 DEF Remembered, Here
            <4>2. Without(t, D)[x] = [t[x] EXCEPT !.refs = @ \ D]
                BY <2>2, <3>3, <4>1 DEF Without
            <4>3. Marked(Without(t, D), S)[x] = Without(t, D)[x]
                BY <2>2, <4>1 DEF Marked
            <4> DEFINE y == [t[x] EXCEPT !.refs = @ \ D]
            <4>4. Left(t, r)[x] = y
                BY <3>1, <4>2, <4>3
            <4>5. t[x] \in Row
                BY <2>2, <3>3
            <4>6. y \in Row /\ y # None
                BY <4>5, NoneIsNoRow DEF Row
            <4>7. (t[x].refs \ D) \ Excluded = t[x].refs \ Excluded
                BY <4>1
            <4>8. [y EXCEPT !.refs = @ \ Excluded] = [t[x] EXCEPT !.refs = @ \ Excluded]
                BY <4>5, <4>7 DEF Row
            <4> QED
                BY <3>3, <4>4, <4>6, <4>8 DEF Authored
        <3> QED
            BY <3>2, <3>3
    <2> QED
        BY <2>3, <2>4
<1> QED
    BY <1>1, <1>2

LEMMA EntryRemembers ==
    ASSUME BinInv, NEW r \in Deletable, Delete(r)
    PROVE  Remembers(Entry(Purged(Expired), r))
<1> DEFINE t == Purged(Expired)
           e == Entry(t, r)
<1>1. t \in Tables /\ Linked(t)
    BY PurgedKeepsLinks DEF Expired
<1>2. r \in Rows /\ t[r] # None
    BY TablesFit DEF Delete
<1>3. Left(t, r) \in Tables
    BY <1>1, <1>2, LeftKeepsLinks
<1>4. /\ e.had = t /\ e.left = Left(t, r)
      /\ e.changes = [x \in Captured(t, r) |-> [before |-> t[x], after |-> Left(t, r)[x]]]
    BY DEF Entry
<1>5. /\ Changed(e) = Captured(t, r)
      /\ \A x \in Captured(t, r) :
            e.changes[x].before = t[x] /\ e.changes[x].after = Left(t, r)[x]
    BY <1>4 DEF Changed
<1>6. \A x \in Captured(t, r) : x \in Rows \ Excluded /\ t[x] # None
    BY DEF Captured, Remembered, Here
<1> HIDE DEF t, e
<1>7. \A x \in Rows \ Excluded : x \notin Captured(t, r) =>
          Authored(t[x]) = Authored(Left(t, r)[x])
    BY <1>1, <1>2, OthersAreLeft
<1>8. Remembers(e)
    BY <1>1, <1>3, <1>4, <1>5, <1>6, <1>7 DEF Remembers
<1> QED
    BY <1>8 DEF e, t

(* Entries are added by a deletion, marked expired, and taken out.         *)
LEMMA NextKeepsEntries == BinInv /\ EntriesInv /\ [Next]_vars => EntriesInv'
<1> SUFFICES ASSUME BinInv, EntriesInv, [Next]_vars PROVE EntriesInv'
    OBVIOUS
<1>1. CASE entries' \subseteq entries
    BY <1>1 DEF EntriesInv
<1>2. ASSUME NEW r \in Deletable, Delete(r) PROVE EntriesInv'
    <2>1. entries' \subseteq entries \cup {Entry(Purged(Expired), r)}
        BY <1>2 DEF Delete
    <2> QED
        BY <1>2, <2>1, EntryRemembers DEF EntriesInv
<1>3. ASSUME NEW e \in entries, Expire(e) PROVE EntriesInv'
    <2> DEFINE f == [e EXCEPT !.expired = TRUE]
    <2>1. entries' = (entries \ {e}) \cup {f}
        BY <1>3 DEF Expire
    <2>2. f.had = e.had /\ f.left = e.left /\ f.changes = e.changes
        BY DEF BinInv, Entries
    <2>3. Remembers(e)
        BY DEF EntriesInv
    <2> HIDE DEF f
    <2>4. Remembers(f)
        BY <2>2, <2>3 DEF Remembers, Changed
    <2> QED
        BY <2>1, <2>4 DEF EntriesInv
<1>4. CASE UNCHANGED entries
    BY <1>1, <1>4
<1>5. ASSUME NEW t \in Threads, Authors(t) PROVE EntriesInv'
    BY <1>1, <1>2, <1>4, <1>5
       DEF Authors, Saves, Edit, Deletes, Restores, Restore, Purges, Purge, Lists, PurgeExpired
<1>6. ASSUME NEW t \in Workers, Runs(t) PROVE UNCHANGED entries
    BY <1>6 DEF Runs, Look, Take, Gather, Write, Finish, Place, Fail, GiveUp
<1>7. CASE \E e \in entries : Expires(e)
    BY <1>3, <1>7 DEF Expires
<1>8. CASE Restart \/ Started
    BY <1>1, <1>8 DEF Restart, Started
<1> QED
    BY <1>4, <1>5, <1>6, <1>7, <1>8 DEF Next, vars

(* No row hangs on one that is gone, and each entry still describes what   *)
(* its deletion took, and left, of tables that were whole.                 *)
THEOREM BinRemembers == Spec => [](BinInv /\ EntriesInv)
<1>1. Init => EntriesInv
    BY DEF Init, EntriesInv
<1> QED
    BY <1>1, InitLinks, NextKeepsLinks, NextKeepsEntries, PTL DEF Spec

(* What an author deletes can be had back while it is kept, every row it   *)
(* changed is as it left it, and no row it left that one of these hangs on *)
(* or mentions has gone since.                                             *)
THEOREM DeletionsCanBeUndone == Spec => []DeletionCanBeUndone
<1>1. EntriesInv => DeletionCanBeUndone
    <2> SUFFICES ASSUME EntriesInv, NEW e \in entries, ~e.expired,
                        \A x \in Changed(e) :
                           /\ rows[x] = e.left[x]
                           /\ \A y \in Owners[x] \cup e.had[x].refs :
                                 e.left[y] # None => rows[y] # None
                 PROVE  Recoverable(e)
        BY DEF DeletionCanBeUndone
    <2>1. Remembers(e)
        BY DEF EntriesInv
    <2>2. ASSUME NEW y \in Rows \ Excluded, e.had[y] # None
          PROVE  y \in Changed(e) \/ e.left[y] # None
        <3>1. e.had[y] \in Row \cup {None} /\ e.left[y] \in Row \cup {None}
            BY <2>1 DEF Remembers, Tables
        <3>2. y \notin Changed(e) => e.left[y] # None
            BY <2>1, <2>2, <3>1, AuthoredIsThere DEF Remembers
        <3> QED
            BY <3>2
    <2>3. ASSUME NEW x \in Changed(e) PROVE Unchanged(e, x) /\ Resolved(e, x)
        <3>1. x \in Rows \ Excluded /\ x \in Here(e.had)
            BY <2>1 DEF Remembers, Here
        <3>2. Owners[x] \subseteq Here(e.had) /\ e.had[x].refs \subseteq Here(e.had)
            BY <2>1, <3>1 DEF Remembers, Linked
        <3>3. Owners[x] \cap Excluded = {}
            BY <3>1, TablesFit
        <3>4. \A o \in Owners[x] : o \in Changed(e) \/ rows[o] # None
            BY <2>2, <3>2, <3>3 DEF Here
        <3>5. \A m \in e.changes[x].before.refs :
                 m \in Changed(e) \/ rows[m] # None \/ m \in Excluded
            BY <2>1, <2>2, <3>2 DEF Here, Remembers
        <3>6. Unchanged(e, x)
            BY <2>1, <3>1 DEF Remembers, Unchanged
        <3> QED
            BY <3>4, <3>5, <3>6 DEF Resolved
    <2> QED
        BY <2>3 DEF Recoverable
<1> QED
    BY <1>1, BinRemembers, PTL

(* A restore undoes its deletion and nothing else, mentions of rows the    *)
(* recorder does not know apart.                                           *)
THEOREM RestoresUndo == Spec => RestoreUndoesDeletion
<1>1. BinInv /\ EntriesInv =>
         \A e \in entries : Restore(e) =>
            \A r \in Rows \ Excluded :
               IF rows[r] = e.left[r]
               THEN Authored(rows'[r]) = Authored(e.had[r])
               ELSE rows'[r] = rows[r]
    <2> SUFFICES ASSUME EntriesInv, NEW e \in entries, Restore(e), NEW r \in Rows \ Excluded
                 PROVE  IF rows[r] = e.left[r]
                        THEN Authored(rows'[r]) = Authored(e.had[r])
                        ELSE rows'[r] = rows[r]
        OBVIOUS
    <2>1. Remembers(e) /\ Recoverable(e)
        BY DEF EntriesInv, Restore
    <2>2. rows'[r] = IF r \in Changed(e) THEN Recovered(e, r) ELSE rows[r]
        BY DEF Restore
    <2>3. CASE r \notin Changed(e)
        BY <2>1, <2>2, <2>3 DEF Remembers
    <2>4. CASE r \in Changed(e)
        <3> DEFINE had == e.had[r]
                   refs == {m \in had.refs : m \in Changed(e) \/ rows[m] # None}
                   new == [had EXCEPT !.refs = refs]
        <3>1. had \in Row /\ e.changes[r].before = had
            BY <2>1, <2>4 DEF Remembers, Tables
        <3>2. rows'[r] = new
            BY <2>2, <2>4, <3>1 DEF Recovered
        <3>3. rows[r] = e.left[r]
            BY <2>1, <2>4 DEF Recoverable, Unchanged, Remembers
        <3>4. refs \ Excluded = had.refs \ Excluded
            BY <2>1, <2>4, <3>1 DEF Recoverable, Resolved
        <3>5. new \in Row /\ new # None /\ had # None
            BY <3>1, NoneIsNoRow DEF Row
        <3>6. [new EXCEPT !.refs = @ \ Excluded] = [had EXCEPT !.refs = @ \ Excluded]
            BY <3>1, <3>4 DEF Row
        <3> QED
            BY <3>2, <3>3, <3>5, <3>6 DEF Authored
    <2> QED
        BY <2>3, <2>4
<1> QED
    BY <1>1, BinRemembers, PTL DEF RestoreUndoesDeletion
=============================================================================
