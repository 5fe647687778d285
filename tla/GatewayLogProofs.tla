-------------------------- MODULE GatewayLogProofs --------------------------
(***************************************************************************)
(* The Gateway implements the sync store, for any works, entities, owners, *)
(* contents and bounds.  What makes it so is that the ids the service      *)
(* makes up itself are new whenever it writes under them; IdInv says why,  *)
(* and is inductive together with the store's own invariant, with SameWork *)
(* (rows that refer to each other go with the same work) and RootsStay     *)
(* (nothing is left of a deleted work but jobs and its entry in the bin).  *)
(* Answers are then backed by the tables until the work goes, writes reach *)
(* the log or a job, and MatchInv, inductive on top of it, makes rows and  *)
(* states agree.                                                           *)
(***************************************************************************)
EXTENDS GatewayLog, SyncStoreProofs, FiniteSetTheorems

Pushed == {<<"push", i>> : i \in PushIds}
Resolutions == {<<"resolve", m>> : m \in Pushed}

(* Only devices' mutations become conflicts.                               *)
ConflictsArePushed == \A c \in conflicts : c.id \in Pushed

(* A resolution that reached the log has closed its conflict.              *)
ResolvedIsSettled ==
    \A m \in Pushed : Logged(<<"resolve", m>>) =>
        \E c \in conflicts : c.id = m /\ c.verdict # "open"

(* A side effect is logged only together with its mutation.                *)
EffectsFollow ==
    \A m \in Pushed \cup Resolutions, k \in Keys :
        Logged(<<"effect", m, k>>) => Logged(m)

(* Jobs are numbered by their transaction, and an open one is not logged.  *)
JobsAreOpen ==
    /\ \A n \in Nat, k \in Keys : Logged(<<"server", n, k>>) => n <= jobSeq
    /\ \A j \in jobs : j.n <= jobSeq /\ ~Logged(<<"server", j.n, j.key>>)
    /\ \A i, j \in jobs : i.n = j.n /\ i.key = j.key => i = j

IdInv == ConflictsArePushed /\ ResolvedIsSettled /\ EffectsFollow /\ JobsAreOpen

(* A side effect is of the same work as its mutation, and a resolution is  *)
(* of the conflict's entity: what follows something goes with it.          *)
SameWork ==
    /\ \A c, d \in changes, k \in Keys :
          d.id \in Pushed \cup Resolutions /\ c.id = <<"effect", d.id, k>> =>
             ProjectOf[c.key] = ProjectOf[d.key]
    /\ \A c \in changes, d \in conflicts : c.id = <<"resolve", d.id>> => c.key = d.key

(* A work without its project row has no other row, is not synchronised,   *)
(* and has neither states nor conflicts, so a device may bring it at       *)
(* revision 0; and what the bin has of a work has its project row.         *)
RootsStay ==
    /\ \A k \in Keys : domain[RootOf[ProjectOf[k]]] = None =>
          /\ domain[k] = None
          /\ status[ProjectOf[k]] = "absent"
          /\ entity[k].rev = 0
          /\ \A c \in conflicts : c.key # k
    /\ \A p \in Projects : \A e \in bin[p] : e.rows[RootOf[p]] # None

GatewayIInv == StoreIInv /\ TypeOK /\ IdInv /\ SameWork /\ RootsStay

(* The mutation ids in the log.                                            *)
LogIds == {c.id : c \in changes}

----------------------------------------------------------------------------
(* Order positions of the rows of one transaction.                         *)
LEMMA Positions ==
    ASSUME NEW W \in SUBSET Keys, NEW order \in Bijection(W, 1 .. Cardinality(W))
    PROVE  /\ Cardinality(W) \in Nat
           /\ DOMAIN order = W
           /\ \A k \in W : order[k] \in 1 .. Cardinality(W)
           /\ \A k, l \in W : order[k] = order[l] => k = l
           /\ \A i \in 1 .. Cardinality(W) : \E k \in W : order[k] = i
  <1>1. IsFiniteSet(W)
    BY StoreAssumption, FS_Subset
  <1>2. Cardinality(W) \in Nat
    BY <1>1, FS_CardinalityType
  <1> QED BY <1>2 DEF Bijection, Injection, Surjection, IsInjective

(* A transaction of one row.                                               *)
LEMMA OnePosition ==
    ASSUME NEW k \in Keys
    PROVE  [j \in {k} |-> 1] \in Bijection({k}, 1 .. Cardinality({k}))
  <1>1. Cardinality({k}) = 1
    BY FS_Singleton
  <1> QED BY <1>1 DEF Bijection, Injection, Surjection, IsInjective

(* Revisions in the state rows are natural numbers.                        *)
LEMMA RevIsNat ==
    ASSUME StoreTypeOK
    PROVE  /\ head \in Nat /\ MaxRevision \in Nat
           /\ \A k \in Keys : entity[k].rev \in Nat
  BY StoreAssumption DEF StoreTypeOK, State, Revisions

(* The rows a recorded transaction adds to the log.                        *)
LEMMA RecordedRows ==
    ASSUME StoreIInv,
           NEW W \in SUBSET Keys, NEW order \in Bijection(W, 1 .. Cardinality(W)),
           NEW id, NEW base, NEW value,
           Record(order, id, base, value)
    PROVE  \A c \in changes' : c \notin changes =>
              \E k \in W : c = LogRow(order, id, base, value, k)
  BY Positions DEF Record

(* A recorded transaction adds all of them: none is in the log already.    *)
LEMMA RecordedAll ==
    ASSUME StoreIInv,
           NEW W \in SUBSET Keys, NEW order \in Bijection(W, 1 .. Cardinality(W)),
           NEW id, NEW base, NEW value,
           Record(order, id, base, value)
    PROVE  \A k \in W : /\ LogRow(order, id, base, value, k) \in changes'
                        /\ LogRow(order, id, base, value, k) \notin changes
  <1> SUFFICES ASSUME NEW k \in W
               PROVE  /\ LogRow(order, id, base, value, k) \in changes'
                      /\ LogRow(order, id, base, value, k) \notin changes
    OBVIOUS
  <1>1. LogRow(order, id, base, value, k) \in changes'
    BY Positions DEF Record
  <1>2. LogRow(order, id, base, value, k).rev > head
    BY Positions, RevIsNat DEF LogRow, StoreIInv
  <1> QED BY <1>1, <1>2, OldRow, RevIsNat DEF StoreIInv

(* Recording rows under fresh ids, each based on the revision its entity   *)
(* has, is what the store allows.                                          *)
LEMMA RecordAppends ==
    ASSUME StoreIInv,
           NEW W \in SUBSET Keys, NEW order \in Bijection(W, 1 .. Cardinality(W)),
           NEW id, NEW base, NEW value,
           \A k \in W : /\ value[k] \in Contents
                        /\ base[k] = entity[k].rev
                        /\ Fresh(id[k]),
           \A k, l \in W : id[k] = id[l] => k = l,
           Record(order, id, base, value)
    PROVE  AppendChanges
  <1>0. head \in Nat /\ MaxRevision \in Nat
    BY RevIsNat DEF StoreIInv
  <1>1. /\ Cardinality(W) \in Nat
        /\ DOMAIN order = W
        /\ \A k \in W : order[k] \in 1 .. Cardinality(W)
        /\ \A k, l \in W : order[k] = order[l] => k = l
        /\ \A i \in 1 .. Cardinality(W) : \E k \in W : order[k] = i
    BY Positions
  <1>2. /\ head + Cardinality(W) <= MaxRevision
        /\ head' = head + Cardinality(W)
        /\ changes' = changes \cup {LogRow(order, id, base, value, k) : k \in W}
        /\ entity' = States(order, value)
        /\ tombstone' = Tombstones(order, value)
    BY <1>1 DEF Record
  <1>3. changes \subseteq changes' /\ head' \in head .. MaxRevision
    BY <1>0, <1>1, <1>2
  <1>4. ASSUME NEW c \in changes' \ changes
        PROVE  /\ c = Row(c.rev, c.id, c.key, c.value)
               /\ c.rev \in (head + 1) .. head'
               /\ c.key \in Keys
               /\ c.value \in Contents
               /\ Fresh(c.id)
               /\ entity'[c.key] = [rev |-> c.rev, value |-> c.value]
               /\ tombstone'[c.key] = IF c.value = None THEN c.rev ELSE 0
    <2>1. PICK k \in W : c = LogRow(order, id, base, value, k)
      BY <1>2
    <2>2. /\ c.rev = head + order[k] /\ c.id = id[k] /\ c.key = k
          /\ c.base = base[k] /\ c.value = value[k]
      BY <2>1 DEF LogRow
    <2>3. c = Row(c.rev, c.id, c.key, c.value)
      BY <2>1, <2>2 DEF LogRow, Row
    <2>4. c.rev \in (head + 1) .. head'
      BY <1>0, <1>1, <1>2, <2>2
    <2>5. entity'[c.key] = [rev |-> c.rev, value |-> c.value]
      BY <1>1, <1>2, <2>2 DEF States
    <2>6. tombstone'[c.key] = IF c.value = None THEN c.rev ELSE 0
      BY <1>1, <1>2, <2>2 DEF Tombstones
    <2> QED BY <2>2, <2>3, <2>4, <2>5, <2>6
  <1>5. ASSUME NEW c \in changes' \ changes, NEW d \in changes' \ changes, c # d
        PROVE  c.rev # d.rev /\ c.id # d.id /\ c.key # d.key
    <2>1. PICK k \in W : c = LogRow(order, id, base, value, k)
      BY <1>2
    <2>2. PICK l \in W : d = LogRow(order, id, base, value, l)
      BY <1>2
    <2>3. k # l
      BY <1>5, <2>1, <2>2
    <2>4. /\ c.rev = head + order[k] /\ c.id = id[k] /\ c.key = k
          /\ d.rev = head + order[l] /\ d.id = id[l] /\ d.key = l
      BY <2>1, <2>2 DEF LogRow
    <2> QED BY <1>0, <1>1, <2>3, <2>4
  <1>6. ASSUME NEW r \in (head + 1) .. head'
        PROVE  \E c \in changes' \ changes : c.rev = r
    <2>1. PICK k \in W : order[k] = r - head
      BY <1>0, <1>1, <1>2
    <2>2. LogRow(order, id, base, value, k).rev = r
      BY <1>0, <2>1 DEF LogRow
    <2> QED BY <2>2, RecordedAll
  <1>7. ASSUME NEW k \in Keys, \A c \in changes' \ changes : c.key # k
        PROVE  k \notin W
    <2>1. \A l \in W : LogRow(order, id, base, value, l).key = l
      BY DEF LogRow
    <2> QED BY <1>7, <2>1, RecordedAll
  <1>8. entity' \in [Keys -> State] /\ tombstone' \in [Keys -> Revisions]
    <2>1. \A k \in W : head + order[k] \in Revisions
      BY <1>0, <1>1, <1>2 DEF Revisions
    <2>2. 0 \in Revisions
      BY <1>0 DEF Revisions
    <2> QED BY <1>1, <1>2, <2>1, <2>2
          DEF States, Tombstones, State, StoreIInv, StoreTypeOK
  <1>9. ASSUME NEW k \in Keys, \A c \in changes' \ changes : c.key # k
        PROVE  entity'[k] = entity[k] /\ tombstone'[k] = tombstone[k]
    BY <1>1, <1>2, <1>7, <1>9 DEF States, Tombstones
  <1> QED BY <1>3, <1>4, <1>5, <1>6, <1>8, <1>9 DEF AppendChanges

(* The ids that are in the log after a recorded transaction.               *)
LEMMA RecordedIds ==
    ASSUME StoreIInv,
           NEW W \in SUBSET Keys, NEW order \in Bijection(W, 1 .. Cardinality(W)),
           NEW id, NEW base, NEW value,
           Record(order, id, base, value)
    PROVE  LogIds' = LogIds \cup {id[k] : k \in W}
  <1>1. /\ DOMAIN order = W
        /\ changes' = changes \cup {LogRow(order, id, base, value, k) : k \in W}
    BY Positions DEF Record
  <1>2. \A k \in W : LogRow(order, id, base, value, k).id = id[k]
    BY DEF LogRow
  <1> QED BY <1>1, <1>2 DEF LogIds

----------------------------------------------------------------------------
(* Ids of different origins differ.                                        *)
LEMMA Origins ==
    /\ \A i, m : <<"push", i>> # <<"resolve", m>>
    /\ \A i, m, k : <<"push", i>> # <<"effect", m, k>>
    /\ \A i, n, k : <<"push", i>> # <<"server", n, k>>
    /\ \A i, k, v : <<"push", i>> # <<"seed", k, v>>
    /\ \A l, m, k : <<"resolve", l>> # <<"effect", m, k>>
    /\ \A l, n, k : <<"resolve", l>> # <<"server", n, k>>
    /\ \A l, k, v : <<"resolve", l>> # <<"seed", k, v>>
    /\ \A m, k, n, j : <<"effect", m, k>> # <<"server", n, j>>
    /\ \A m, k, j, v : <<"effect", m, k>> # <<"seed", j, v>>
    /\ \A n, j, k, v : <<"server", n, j>> # <<"seed", k, v>>
    /\ \A l, m : <<"resolve", l>> = <<"resolve", m>> => l = m
    /\ \A l, m, j, k : <<"effect", l, j>> = <<"effect", m, k>> => l = m /\ j = k
    /\ \A l, m, j, k : <<"server", l, j>> = <<"server", m, k>> => l = m /\ j = k
    /\ \A l, m, j, k : <<"seed", l, j>> = <<"seed", m, k>> => l = m /\ j = k
  OBVIOUS

(* Only ids of devices are those of conflicts, so any other id that is not *)
(* logged is fresh.                                                        *)
LEMMA NotPushedIsFresh ==
    ASSUME ConflictsArePushed, NEW x, x \notin Pushed, ~Logged(x)
    PROVE  Fresh(x)
  BY DEF ConflictsArePushed, Fresh, Disputed

(* A refreshed manifest lists entities with contents.                      *)
LEMMA RefreshedManifest ==
    ASSUME manifest \in [Projects -> Manifest],
           entity' \in [Keys -> State],
           NEW p \in Projects, RefreshManifest(p)
    PROVE  manifest' \in [Projects -> Manifest]
  <1>1. Live(p, [k \in Keys |-> entity'[k].value]) \in Manifest
    <2>1. \A k \in Keys : entity'[k].value # None => entity'[k].value \in Values
      BY DEF State, Contents
    <2>2. \A x \in Live(p, [k \in Keys |-> entity'[k].value]) :
             \E k \in Keys : entity'[k].value # None /\ x = <<k, entity'[k].value>>
      BY DEF Live, WorkOf
    <2> QED BY <2>1, <2>2 DEF Manifest
  <1> QED BY <1>1 DEF RefreshManifest

(* Facts about an authored mutation whose id and effects are logged.       *)
LEMMA ProjectAppends ==
    ASSUME GatewayIInv, NEW m,
           m.key \in Keys, m.value \in Contents,
           m.base = entity[m.key].rev,
           m.id \in Pushed \cup Resolutions, Fresh(m.id),
           ProjectAndRecord(m)
    PROVE  /\ AppendChanges
           /\ domain' \in [Keys -> Contents]
           /\ manifest' \in [Projects -> Manifest]
           /\ LogIds' \subseteq LogIds \cup {m.id} \cup {<<"effect", m.id, k>> : k \in Keys}
           /\ LogIds \subseteq LogIds' /\ m.id \in LogIds'
           /\ \A p \in Projects : domain'[RootOf[p]] = None => domain[RootOf[p]] = None
           /\ \A c \in changes' : c \notin changes =>
                 /\ ProjectOf[c.key] = ProjectOf[m.key]
                 /\ \/ c.id = m.id /\ c.key = m.key
                    \/ \E k \in Keys : c.id = <<"effect", m.id, k>>
           /\ \A k \in Keys : ProjectOf[k] # ProjectOf[m.key] =>
                 domain'[k] = domain[k] /\ entity'[k] = entity[k]
  <1>1. PICK d \in Projections(m) :
           LET W == {m.key} \cup {k \in Keys : d[k] # domain[k]}
               id == [k \in W |-> IF k = m.key THEN m.id ELSE <<"effect", m.id, k>>]
           IN  \E order \in Bijection(W, 1 .. Cardinality(W)) :
                  /\ order[m.key] = Cardinality(W)
                  /\ Record(order, id, [Current EXCEPT ![m.key] = m.base], d)
                  /\ domain' = d
    BY DEF ProjectAndRecord
  <1> DEFINE W == {m.key} \cup {k \in Keys : d[k] # domain[k]}
             id == [k \in W |-> IF k = m.key THEN m.id ELSE <<"effect", m.id, k>>]
             base == [Current EXCEPT ![m.key] = m.base]
  <1>2. PICK order \in Bijection(W, 1 .. Cardinality(W)) :
           Record(order, id, base, d) /\ domain' = d
    BY <1>1
  <1>3. W \in SUBSET Keys
    OBVIOUS
  <1>4. d \in [Keys -> Contents]
    BY DEF Projections
  <1>5. ASSUME NEW k \in W
        PROVE  /\ d[k] \in Contents
               /\ base[k] = entity[k].rev
               /\ Fresh(id[k])
    <2>1. d[k] \in Contents
      BY <1>3, <1>4
    <2>2. base[k] = entity[k].rev
      BY <1>3 DEF Current
    <2>3. CASE k = m.key
      BY <2>1, <2>2, <2>3
    <2>4. CASE k # m.key
      <3>1. ~Logged(<<"effect", m.id, k>>)
        BY <1>3 DEF GatewayIInv, IdInv, EffectsFollow, Fresh
      <3>2. <<"effect", m.id, k>> \notin Pushed
        BY Origins DEF Pushed
      <3>3. Fresh(<<"effect", m.id, k>>)
        BY <3>1, <3>2, NotPushedIsFresh DEF GatewayIInv, IdInv
      <3> QED BY <2>1, <2>2, <2>4, <3>3
    <2> QED BY <2>3, <2>4
  <1>6. ASSUME NEW k \in W, NEW l \in W, id[k] = id[l]
        PROVE  k = l
    <2>1. \A j : m.id # <<"effect", m.id, j>>
      BY Origins DEF Pushed, Resolutions
    <2> QED BY <1>6, <2>1, Origins
  <1>7. StoreIInv
    BY DEF GatewayIInv
  <1>13. ASSUME NEW p \in Projects, d[RootOf[p]] = None
         PROVE  domain[RootOf[p]] = None
    <2>1. RootOf[p] \in Keys /\ Owner[RootOf[p]] \notin Keys /\ ProjectOf[RootOf[p]] = p
      BY GatewayAssumption
    <2>2. RootOf[p] # m.key
      BY <1>13, <2>1 DEF ProjectAndRecord, Refused, IsRoot, Projections
    <2>3. d[RootOf[p]] = domain[RootOf[p]]
      BY <2>1, <2>2 DEF Projections
    <2> QED BY <1>13, <2>3
  <1>14. entity' = States(order, d) /\ DOMAIN order = W
    BY <1>2, <1>3, Positions DEF Record
  <1>18. \A k \in W : ProjectOf[k] = ProjectOf[m.key]
    <2> SUFFICES ASSUME NEW k \in W, k # m.key PROVE ProjectOf[k] = ProjectOf[m.key]
      OBVIOUS
    <2>1. k \in Keys /\ Owner[k] = m.key
      BY DEF Projections
    <2> QED BY <2>1, GatewayAssumption
  <1>19. \A k \in Keys : k \notin W => d[k] = domain[k]
    OBVIOUS
  <1>20. \A k \in W : k = m.key \/ id[k] = <<"effect", m.id, k>>
    OBVIOUS
  <1>21. id[m.key] = m.id
    OBVIOUS
  <1> HIDE DEF W, id, base
  <1>15. \A p \in Projects : domain'[RootOf[p]] = None => domain[RootOf[p]] = None
    BY <1>2, <1>13
  <1>22. \A k \in Keys : ProjectOf[k] # ProjectOf[m.key] =>
            domain'[k] = domain[k] /\ entity'[k] = entity[k]
    BY <1>2, <1>14, <1>18, <1>19 DEF States
  <1>23. \A c \in changes' : c \notin changes =>
            /\ ProjectOf[c.key] = ProjectOf[m.key]
            /\ \/ c.id = m.id /\ c.key = m.key
               \/ \E k \in Keys : c.id = <<"effect", m.id, k>>
    <2> SUFFICES ASSUME NEW c \in changes', c \notin changes
                 PROVE  /\ ProjectOf[c.key] = ProjectOf[m.key]
                        /\ \/ c.id = m.id /\ c.key = m.key
                           \/ \E k \in Keys : c.id = <<"effect", m.id, k>>
      OBVIOUS
    <2>1. PICK k \in W : c = LogRow(order, id, base, d, k)
      BY <1>2, <1>3, <1>7, RecordedRows
    <2>2. c.key = k /\ c.id = id[k]
      BY <2>1 DEF LogRow
    <2> QED BY <1>3, <1>18, <1>20, <1>21, <2>2
  <1>8. AppendChanges
    BY <1>2, <1>3, <1>5, <1>6, <1>7, RecordAppends
  <1>9. LogIds' = LogIds \cup {id[k] : k \in W}
    BY <1>2, <1>3, <1>7, RecordedIds
  <1>10. \A k \in W : k \in Keys /\ (id[k] = m.id \/ id[k] = <<"effect", m.id, k>>)
    BY <1>3 DEF id
  <1>11. m.key \in W /\ id[m.key] = m.id
    BY DEF W, id
  <1>12. manifest' \in [Projects -> Manifest]
    <2>1. entity' \in [Keys -> State]
      BY <1>7, <1>8, AppendKeepsType
    <2>2. RefreshManifest(ProjectOf[m.key]) /\ ProjectOf[m.key] \in Projects
      BY GatewayAssumption DEF ProjectAndRecord
    <2> QED BY <2>1, <2>2, RefreshedManifest DEF GatewayIInv, TypeOK
  <1>16. /\ LogIds' \subseteq LogIds \cup {m.id} \cup {<<"effect", m.id, k>> : k \in Keys}
         /\ LogIds \subseteq LogIds' /\ m.id \in LogIds'
    BY <1>9, <1>10, <1>11
  <1>17. domain' \in [Keys -> Contents]
    BY <1>2, <1>4
  <1> QED BY <1>8, <1>12, <1>15, <1>16, <1>17, <1>22, <1>23, Zenon

(* Logging an authored mutation and its effects keeps the ids in order.    *)
LEMMA AuthoredKeepsIds ==
    ASSUME IdInv, NEW y \in Pushed \cup Resolutions,
           LogIds' \subseteq LogIds \cup {y} \cup {<<"effect", y, k>> : k \in Keys},
           LogIds \subseteq LogIds', y \in LogIds',
           UNCHANGED <<jobs, jobSeq>>,
           \A c \in conflicts' : c.id \in Pushed,
           \A c \in conflicts : c.verdict # "open" => c \in conflicts',
           \A m \in Pushed : y = <<"resolve", m>> =>
               \E c \in conflicts' : c.id = m /\ c.verdict # "open"
    PROVE  IdInv'
  <1>1. ConflictsArePushed'
    BY DEF ConflictsArePushed
  <1>2. ResolvedIsSettled'
    <2> SUFFICES ASSUME NEW m \in Pushed, <<"resolve", m>> \in LogIds'
                 PROVE  \E c \in conflicts' : c.id = m /\ c.verdict # "open"
      BY DEF ResolvedIsSettled, Logged, LogIds
    <2>1. CASE <<"resolve", m>> \in LogIds
      BY <2>1 DEF IdInv, ResolvedIsSettled, Logged, LogIds
    <2>2. CASE <<"resolve", m>> = y
      BY <2>2
    <2>3. \A k : <<"resolve", m>> # <<"effect", y, k>>
      BY Origins
    <2> QED BY <2>1, <2>2, <2>3
  <1>3. EffectsFollow'
    <2> SUFFICES ASSUME NEW m \in Pushed \cup Resolutions, NEW k \in Keys,
                        <<"effect", m, k>> \in LogIds'
                 PROVE  m \in LogIds'
      BY DEF EffectsFollow, Logged, LogIds
    <2>1. CASE <<"effect", m, k>> \in LogIds
      BY <2>1 DEF IdInv, EffectsFollow, Logged, LogIds
    <2>2. <<"effect", m, k>> # y
      BY Origins DEF Pushed, Resolutions
    <2>3. CASE \E l \in Keys : <<"effect", m, k>> = <<"effect", y, l>>
      BY <2>3, Origins
    <2> QED BY <2>1, <2>2, <2>3
  <1>4. JobsAreOpen'
    <2>1. \A n, k : <<"server", n, k>> # y
      BY Origins DEF Pushed, Resolutions
    <2>2. \A n, k : <<"server", n, k>> \in LogIds' => <<"server", n, k>> \in LogIds
      BY <2>1, Origins
    <2>3. /\ \A n \in Nat, k \in Keys : <<"server", n, k>> \in LogIds => n <= jobSeq
          /\ \A j \in jobs : j.n <= jobSeq /\ <<"server", j.n, j.key>> \notin LogIds
          /\ \A i, j \in jobs : i.n = j.n /\ i.key = j.key => i = j
      BY DEF IdInv, JobsAreOpen, Logged, LogIds
    <2>4. /\ \A n \in Nat, k \in Keys : <<"server", n, k>> \in LogIds' => n <= jobSeq'
          /\ \A j \in jobs' : j.n <= jobSeq' /\ <<"server", j.n, j.key>> \notin LogIds'
          /\ \A i, j \in jobs' : i.n = j.n /\ i.key = j.key => i = j
      BY <2>2, <2>3
    <2> QED BY <2>4 DEF JobsAreOpen, Logged, LogIds
  <1> QED BY <1>1, <1>2, <1>3, <1>4 DEF IdInv

(* Ids that are neither resolutions nor side effects leave both in order.  *)
LEMMA OtherIdsKeep ==
    ASSUME IdInv,
           LogIds \subseteq LogIds',
           \A x \in LogIds' : \/ x \in LogIds
                              \/ /\ \A m : x # <<"resolve", m>>
                                 /\ \A m, k : x # <<"effect", m, k>>,
           \A c \in conflicts' : c.id \in Pushed,
           \A c \in conflicts : c.verdict # "open" => c \in conflicts'
    PROVE  ConflictsArePushed' /\ ResolvedIsSettled' /\ EffectsFollow'
  <1>1. ConflictsArePushed'
    BY DEF ConflictsArePushed
  <1>2. ResolvedIsSettled'
    <2> SUFFICES ASSUME NEW m \in Pushed, <<"resolve", m>> \in LogIds'
                 PROVE  \E c \in conflicts' : c.id = m /\ c.verdict # "open"
      BY DEF ResolvedIsSettled, Logged, LogIds
    <2> QED BY DEF IdInv, ResolvedIsSettled, Logged, LogIds
  <1>3. EffectsFollow'
    <2> SUFFICES ASSUME NEW m \in Pushed \cup Resolutions, NEW k \in Keys,
                        <<"effect", m, k>> \in LogIds'
                 PROVE  m \in LogIds'
      BY DEF EffectsFollow, Logged, LogIds
    <2> QED BY DEF IdInv, EffectsFollow, Logged, LogIds
  <1> QED BY <1>1, <1>2, <1>3

(* Ids no job has leave the open jobs open.                                *)
LEMMA JobsStayOpen ==
    ASSUME JobsAreOpen,
           \A n, k : <<"server", n, k>> \in LogIds' => <<"server", n, k>> \in LogIds,
           UNCHANGED <<jobs, jobSeq>>
    PROVE  JobsAreOpen'
  <1>1. /\ \A n \in Nat, k \in Keys : <<"server", n, k>> \in LogIds => n <= jobSeq
        /\ \A j \in jobs : j.n <= jobSeq /\ <<"server", j.n, j.key>> \notin LogIds
        /\ \A i, j \in jobs : i.n = j.n /\ i.key = j.key => i = j
    BY DEF JobsAreOpen, Logged, LogIds
  <1>2. /\ \A n \in Nat, k \in Keys : <<"server", n, k>> \in LogIds' => n <= jobSeq'
        /\ \A j \in jobs' : j.n <= jobSeq' /\ <<"server", j.n, j.key>> \notin LogIds'
        /\ \A i, j \in jobs' : i.n = j.n /\ i.key = j.key => i = j
    BY <1>1
  <1> QED BY <1>2 DEF JobsAreOpen, Logged, LogIds

(* Logging an authored mutation and its effects keeps them of one work.    *)
LEMMA AuthoredKeepsWork ==
    ASSUME IdInv, SameWork, NEW y \in Pushed \cup Resolutions, ~Logged(y),
           NEW j \in Keys,
           \A c \in changes' : c \notin changes =>
              /\ ProjectOf[c.key] = ProjectOf[j]
              /\ \/ c.id = y /\ c.key = j
                 \/ \E k \in Keys : c.id = <<"effect", y, k>>,
           \A d \in conflicts' : \E e \in conflicts : e.id = d.id /\ e.key = d.key,
           \A d \in conflicts : y = <<"resolve", d.id>> => j = d.key
    PROVE  SameWork'
  <1>1. ASSUME NEW c \in changes', NEW d \in changes', NEW k \in Keys,
               d.id \in Pushed \cup Resolutions, c.id = <<"effect", d.id, k>>
        PROVE  ProjectOf[c.key] = ProjectOf[d.key]
    <2>1. CASE c \in changes /\ d \in changes
      BY <1>1, <2>1 DEF SameWork
    <2>2. d \notin changes => d.id = y
      BY <1>1, Origins DEF Pushed, Resolutions
    <2>3. c \notin changes => d.id = y
      BY <1>1, Origins DEF Pushed, Resolutions
    <2>4. d \in changes => d.id # y
      BY DEF Logged
    <2>5. d.id = y => c \notin changes
      BY <1>1 DEF IdInv, EffectsFollow, Logged
    <2> QED BY <1>1, <2>1, <2>2, <2>3, <2>4, <2>5
  <1>2. ASSUME NEW c \in changes', NEW d \in conflicts', c.id = <<"resolve", d.id>>
        PROVE  c.key = d.key
    <2>1. PICK e \in conflicts : e.id = d.id /\ e.key = d.key
      OBVIOUS
    <2>2. CASE c \in changes
      BY <1>2, <2>1, <2>2 DEF SameWork
    <2>3. CASE c \notin changes
      <3>1. \A k : c.id # <<"effect", y, k>>
        BY <1>2, Origins
      <3>2. c.id = y /\ c.key = j
        BY <2>3, <3>1
      <3> QED BY <1>2, <2>1, <3>2
    <2> QED BY <2>2, <2>3
  <1> QED BY <1>1, <1>2 DEF SameWork, Pushed, Resolutions

(* A transaction that logs neither, and disputes at most under a new id.   *)
LEMMA OthersKeepWork ==
    ASSUME IdInv, SameWork,
           \A c \in changes' : c \notin changes =>
              /\ c.id \notin Pushed \cup Resolutions
              /\ \A m : c.id # <<"resolve", m>>
              /\ \A m, k : c.id # <<"effect", m, k>>,
           \A d \in conflicts' : \/ \E e \in conflicts : e.id = d.id /\ e.key = d.key
                                 \/ d.id \in Pushed /\ Fresh(d.id)
    PROVE  SameWork'
  <1>1. ASSUME NEW c \in changes', NEW d \in changes', NEW k \in Keys,
               d.id \in Pushed \cup Resolutions, c.id = <<"effect", d.id, k>>
        PROVE  ProjectOf[c.key] = ProjectOf[d.key]
    BY <1>1 DEF SameWork
  <1>2. ASSUME NEW c \in changes', NEW d \in conflicts', c.id = <<"resolve", d.id>>
        PROVE  c.key = d.key
    <2>1. c \in changes
      BY <1>2
    <2>2. CASE \E e \in conflicts : e.id = d.id /\ e.key = d.key
      BY <1>2, <2>1, <2>2 DEF SameWork
    <2>3. CASE d.id \in Pushed /\ Fresh(d.id)
      BY <1>2, <2>1, <2>3 DEF IdInv, ResolvedIsSettled, Logged, Fresh, Disputed
    <2> QED BY <2>2, <2>3
  <1> QED BY <1>1, <1>2 DEF SameWork, Pushed, Resolutions

----------------------------------------------------------------------------
(* The types of what the Gateway keeps beside the store.                   *)
BinTyped ==
    /\ DOMAIN bin = Projects
    /\ \A p \in Projects :
          bin[p] \subseteq [rows : [Keys -> Contents], status : Status, manifest : Manifest]

RestTypeOK ==
    /\ domain \in [Keys -> Contents]
    /\ status \in [Projects -> Status]
    /\ manifest \in [Projects -> Manifest]
    /\ jobs \subseteq Job
    /\ jobSeq \in 0 .. MaxJobs
    /\ BinTyped

(* What every step has to show, and what all but the deletion of a work do. *)
GatewayStep == [StoreNext]_storeVars /\ RestTypeOK' /\ IdInv' /\ SameWork' /\ RootsStay'
LogStep == [LogNext]_storeVars /\ RestTypeOK' /\ IdInv' /\ SameWork' /\ RootsStay'

(* The parts of the invariant.                                             *)
LEMMA InvParts ==
    ASSUME GatewayIInv
    PROVE  /\ StoreIInv /\ StoreTypeOK /\ RestTypeOK /\ IdInv /\ SameWork /\ RootsStay
           /\ ConflictsArePushed /\ ResolvedIsSettled /\ EffectsFollow /\ JobsAreOpen
           /\ BinTyped
  BY DEF GatewayIInv, TypeOK, RestTypeOK, BinTyped, IdInv

(* A step that shows it keeps the invariant.                               *)
LEMMA StepKeepsIInv ==
    ASSUME GatewayIInv, GatewayStep
    PROVE  GatewayIInv'
  <1>1. StoreIInv'
    BY InvParts, StoreNextKeepsIInv DEF GatewayStep
  <1> QED BY <1>1 DEF GatewayStep, GatewayIInv, TypeOK, RestTypeOK, BinTyped, StoreIInv

LEMMA LogStepIsStep ==
    ASSUME LogStep
    PROVE  GatewayStep
  BY DEF LogStep, GatewayStep, StoreNext

(* The bin changes only when a work is deleted.                            *)
LEMMA BinStays ==
    ASSUME BinTyped, UNCHANGED bin
    PROVE  BinTyped'
  BY DEF BinTyped, Contents, Status, Manifest

(* A transaction on one work, whose project row is there after it.         *)
LEMMA OneWorkMoves ==
    ASSUME RootsStay, UNCHANGED bin, NEW q \in Projects, domain'[RootOf[q]] # None,
           \A k \in Keys : ProjectOf[k] # q =>
              /\ domain'[k] = domain[k]
              /\ entity'[k] = entity[k]
              /\ status'[ProjectOf[k]] = status[ProjectOf[k]],
           \A c \in conflicts' : ProjectOf[c.key] = q \/ \E d \in conflicts : d.key = c.key
    PROVE  RootsStay'
  <1>1. ASSUME NEW k \in Keys, domain'[RootOf[ProjectOf[k]]] = None
        PROVE  /\ domain'[k] = None
               /\ status'[ProjectOf[k]] = "absent"
               /\ entity'[k].rev = 0
               /\ \A c \in conflicts' : c.key # k
    <2>1. ProjectOf[k] # q
      BY <1>1
    <2>2. /\ RootOf[ProjectOf[k]] \in Keys
          /\ ProjectOf[RootOf[ProjectOf[k]]] = ProjectOf[k]
      BY GatewayAssumption
    <2>3. domain[RootOf[ProjectOf[k]]] = None
      BY <1>1, <2>1, <2>2
    <2>4. /\ domain[k] = None /\ status[ProjectOf[k]] = "absent" /\ entity[k].rev = 0
          /\ \A c \in conflicts : c.key # k
      BY <2>3 DEF RootsStay
    <2> QED BY <2>1, <2>4
  <1>2. \A p \in Projects : \A e \in bin'[p] : e.rows[RootOf[p]] # None
    BY DEF RootsStay
  <1> QED BY <1>1, <1>2 DEF RootsStay

(* The project row of a work in synchronisation, or with a row of its own, *)
(* or with a conflict, is there.                                           *)
LEMMA RootIsThere ==
    ASSUME RootsStay, NEW k \in Keys,
           \/ domain[k] # None
           \/ status[ProjectOf[k]] # "absent"
           \/ \E c \in conflicts : c.key = k
    PROVE  domain[RootOf[ProjectOf[k]]] # None
  BY DEF RootsStay

(* A push that changes nothing.                                            *)
LEMMA SameTables ==
    ASSUME GatewayIInv, UNCHANGED <<storeVars, domain, status, manifest, jobs, jobSeq, bin>>
    PROVE  LogStep
  <1>1. RestTypeOK'
    BY InvParts, BinStays DEF RestTypeOK, Contents, Job, Status, Manifest
  <1>2. LogIds' = LogIds /\ conflicts' = conflicts /\ changes' = changes
    BY DEF LogIds, storeVars
  <1>3. JobsAreOpen'
    BY <1>2, JobsStayOpen, InvParts
  <1>4. ConflictsArePushed' /\ ResolvedIsSettled' /\ EffectsFollow'
    BY <1>2, OtherIdsKeep, InvParts DEF ConflictsArePushed
  <1>5. RootsStay'
    BY InvParts DEF RootsStay, storeVars
  <1>6. SameWork'
    BY <1>2, InvParts, OthersKeepWork
  <1> QED BY <1>1, <1>3, <1>4, <1>5, <1>6 DEF LogStep, IdInv

(* A device's stale mutation becomes a conflict.                           *)
LEMMA PushConflictStep ==
    ASSUME GatewayIInv, NEW m \in Mutation, PushConflict(m)
    PROVE  LogStep
  <1>1. m.key \in Keys /\ m.value \in Contents /\ m.base \in Nat /\ m.id \in Pushed
    BY StoreAssumption DEF Mutation, Revisions, Pushed
  <1> DEFINE c == Collision(m.id, m.key, m.base, m.value)
  <1>2. c.id = m.id /\ c.key = m.key /\ c.base = m.base /\ c.value = m.value
    BY DEF Collision
  <1>3. UNCHANGED <<head, changes, entity, tombstone, domain, status, manifest, jobs, jobSeq, bin>>
        /\ conflicts' = conflicts \cup {c}
    BY DEF PushConflict
  <1>4. Dispute
    <2>1. Fresh(c.id) /\ c.base # entity[c.key].rev
      BY <1>2 DEF PushConflict
    <2>2. c = Collision(c.id, c.key, c.base, c.value)
      BY <1>2
    <2> HIDE DEF c
    <2>3. c.key \in Keys /\ c.value \in Contents /\ c.base \in Nat /\ c \in conflicts'
      BY <1>1, <1>2, <1>3
    <2> QED BY <1>3, <2>1, <2>2, <2>3 DEF Dispute
  <1>5. RestTypeOK'
    BY <1>3, InvParts, BinStays DEF RestTypeOK, Job, Contents, Status, Manifest
  <1>6. LogIds' = LogIds
    BY <1>3 DEF LogIds
  <1>7. JobsAreOpen'
    BY <1>3, <1>6, JobsStayOpen, InvParts
  <1>8. \A e \in conflicts' : e.id \in Pushed
    BY <1>1, <1>2, <1>3, InvParts DEF ConflictsArePushed
  <1>9. ConflictsArePushed' /\ ResolvedIsSettled' /\ EffectsFollow'
    BY <1>3, <1>6, <1>8, OtherIdsKeep, InvParts
  <1>10. RootsStay'
    <2>1. domain[RootOf[ProjectOf[m.key]]] # None
      BY <1>1, InvParts, RootIsThere DEF PushConflict, Enabled
    <2>2. \A e \in conflicts' : ProjectOf[e.key] = ProjectOf[m.key]
                                \/ \E d \in conflicts : d.key = e.key
      BY <1>2, <1>3
    <2>3. ProjectOf[m.key] \in Projects
      BY <1>1, GatewayAssumption
    <2> QED BY <1>3, <2>1, <2>2, <2>3, InvParts, OneWorkMoves
  <1>11. SameWork'
    <2>1. Fresh(m.id)
      BY DEF PushConflict
    <2>2. \A e \in conflicts' : e \in conflicts \/ e.id = m.id
      BY <1>2, <1>3
    <2> QED BY <1>1, <1>3, <2>1, <2>2, InvParts, OthersKeepWork
  <1> QED BY <1>4, <1>5, <1>7, <1>9, <1>10, <1>11 DEF LogStep, IdInv, LogNext

(* A device's mutation is applied.                                         *)
LEMMA PushAppliedStep ==
    ASSUME GatewayIInv, NEW m \in Mutation, PushApplied(m)
    PROVE  LogStep
  <1>1. m.key \in Keys /\ m.value \in Contents /\ m.id \in Pushed
    BY DEF Mutation, Pushed
  <1>2. /\ Fresh(m.id) /\ m.base = entity[m.key].rev
        /\ UNCHANGED <<conflicts, status, jobs, jobSeq, bin>>
        /\ ProjectAndRecord(m)
    BY DEF PushApplied
  <1>3. /\ AppendChanges
        /\ domain' \in [Keys -> Contents]
        /\ manifest' \in [Projects -> Manifest]
        /\ LogIds' \subseteq LogIds \cup {m.id} \cup {<<"effect", m.id, k>> : k \in Keys}
        /\ LogIds \subseteq LogIds' /\ m.id \in LogIds'
        /\ \A p \in Projects : domain'[RootOf[p]] = None => domain[RootOf[p]] = None
        /\ \A c \in changes' : c \notin changes =>
              /\ ProjectOf[c.key] = ProjectOf[m.key]
              /\ \/ c.id = m.id /\ c.key = m.key
                 \/ \E k \in Keys : c.id = <<"effect", m.id, k>>
        /\ \A k \in Keys : ProjectOf[k] # ProjectOf[m.key] =>
              domain'[k] = domain[k] /\ entity'[k] = entity[k]
    BY <1>1, <1>2, ProjectAppends
  <1>4. RestTypeOK'
    BY <1>2, <1>3, InvParts, BinStays DEF RestTypeOK, Job, Contents, Status, Manifest
  <1>5. \A l : m.id # <<"resolve", l>>
    BY <1>1, Origins DEF Pushed
  <1>6. IdInv'
    BY <1>1, <1>2, <1>3, <1>5, InvParts, AuthoredKeepsIds DEF ConflictsArePushed
  <1>7. RootsStay'
    <2>1. domain[RootOf[ProjectOf[m.key]]] # None
      BY <1>1, InvParts, RootIsThere DEF PushApplied, Enabled
    <2>2. ProjectOf[m.key] \in Projects
      BY <1>1, GatewayAssumption
    <2>3. domain'[RootOf[ProjectOf[m.key]]] # None
      BY <1>3, <2>1, <2>2
    <2> QED BY <1>2, <1>3, <2>2, <2>3, InvParts, OneWorkMoves
  <1>8. SameWork'
    <2>1. ~Logged(m.id)
      BY <1>2 DEF Fresh
    <2>2. \A d \in conflicts : m.id = <<"resolve", d.id>> => m.key = d.key
      BY <1>5
    <2> QED BY <1>1, <1>2, <1>3, <2>1, <2>2, InvParts, AuthoredKeepsWork
  <1> QED BY <1>2, <1>3, <1>4, <1>6, <1>7, <1>8 DEF LogStep, LogNext

(* A device brings a new work.                                             *)
LEMMA PushCreatesStep ==
    ASSUME GatewayIInv, NEW m \in Mutation, PushCreatesProject(m)
    PROVE  LogStep
  <1> DEFINE order == [k \in {m.key} |-> 1]
             id == [k \in {m.key} |-> m.id]
             base == [k \in {m.key} |-> m.base]
  <1>1. m.key \in Keys /\ m.value \in Contents /\ m.id \in Pushed
        /\ ProjectOf[m.key] \in Projects
    BY GatewayAssumption DEF Mutation, Pushed
  <1>2. /\ m.key = RootOf[ProjectOf[m.key]] /\ m.value # None /\ m.base = 0
        /\ domain[m.key] = None
        /\ Fresh(m.id)
        /\ domain' = [domain EXCEPT ![m.key] = m.value]
        /\ status' = [status EXCEPT ![ProjectOf[m.key]] = "enabled"]
        /\ Record(order, id, base, domain')
        /\ RefreshManifest(ProjectOf[m.key])
        /\ UNCHANGED <<conflicts, jobs, jobSeq, bin>>
    BY DEF PushCreatesProject, IsRoot
  <1>3. entity[m.key].rev = 0
    BY <1>1, <1>2, InvParts DEF RootsStay
  <1>15. \A c \in changes' : c \notin changes => c.key = m.key /\ c.id = m.id
    <2>1. {m.key} \in SUBSET Keys /\ order \in Bijection({m.key}, 1 .. Cardinality({m.key}))
      BY <1>1, OnePosition
    <2>2. \A c \in changes' : c \notin changes =>
             \E k \in {m.key} : c = LogRow(order, id, base, domain', k)
      BY <1>2, <2>1, InvParts, RecordedRows
    <2> QED BY <2>2 DEF LogRow
  <1>4. {m.key} \in SUBSET Keys /\ order \in Bijection({m.key}, 1 .. Cardinality({m.key}))
    BY <1>1, OnePosition
  <1>5. domain' \in [Keys -> Contents] /\ domain'[m.key] = m.value
    BY <1>1, <1>2, InvParts DEF RestTypeOK
  <1>6. /\ \A k \in {m.key} : /\ domain'[k] \in Contents
                             /\ base[k] = entity[k].rev
                             /\ Fresh(id[k])
        /\ \A k, l \in {m.key} : id[k] = id[l] => k = l
    BY <1>1, <1>2, <1>3, <1>5
  <1>7. LogIds' = LogIds \cup {id[k] : k \in {m.key}}
    BY <1>2, <1>4, InvParts, RecordedIds
  <1>8. LogIds' = LogIds \cup {m.id}
    BY <1>7
  <1>9. entity' = States(order, domain') /\ DOMAIN order = {m.key}
    BY <1>2 DEF Record
  <1> HIDE DEF order, id, base
  <1>10. AppendChanges
    BY <1>2, <1>4, <1>6, InvParts, RecordAppends
  <1>11. RestTypeOK'
    <2>1. manifest' \in [Projects -> Manifest]
      BY <1>1, <1>2, <1>10, InvParts, AppendKeepsType, RefreshedManifest DEF RestTypeOK
    <2> QED BY <1>2, <1>5, <2>1, InvParts, BinStays DEF RestTypeOK, Job, Contents, Status, Manifest
  <1>12. \A l : m.id # <<"resolve", l>>
    BY <1>1, Origins DEF Pushed
  <1>13. IdInv'
    BY <1>1, <1>2, <1>8, <1>12, InvParts, AuthoredKeepsIds DEF ConflictsArePushed
  <1>14. RootsStay'
    <2>1. domain'[RootOf[ProjectOf[m.key]]] # None
      BY <1>2, <1>5
    <2>2. \A k \in Keys : ProjectOf[k] # ProjectOf[m.key] =>
             /\ domain'[k] = domain[k]
             /\ entity'[k] = entity[k]
             /\ status'[ProjectOf[k]] = status[ProjectOf[k]]
      BY <1>1, <1>2, <1>9, InvParts, GatewayAssumption DEF States, RestTypeOK
    <2> QED BY <1>1, <1>2, <2>1, <2>2, InvParts, OneWorkMoves
  <1>16. SameWork'
    <2>1. ~Logged(m.id)
      BY <1>2 DEF Fresh
    <2>2. \A d \in conflicts : m.id = <<"resolve", d.id>> => m.key = d.key
      BY <1>12
    <2> QED BY <1>1, <1>2, <1>15, <2>1, <2>2, InvParts, AuthoredKeepsWork
  <1> QED BY <1>2, <1>10, <1>11, <1>13, <1>14, <1>16 DEF LogStep, LogNext

(* An author settles a conflict.                                           *)
LEMMA ResolveStep ==
    ASSUME GatewayIInv, NEW c \in conflicts, NEW custom \in Contents,
           NEW verdict \in Verdicts \ {"open"},
           ResolveConflict(c, verdict, custom)
    PROVE  LogStep
  <1>1. /\ c.key \in Keys /\ c.value \in Contents /\ c.id \in Pushed
        /\ entity[c.key].rev \in Nat
    BY InvParts, RevIsNat DEF StoreTypeOK, Conflict, ConflictsArePushed
  <1>2. /\ c.verdict = "open" /\ conflicts' = Settled(c, verdict)
        /\ UNCHANGED <<status, jobs, jobSeq, bin>>
    BY DEF ResolveConflict
  <1> DEFINE s == [c EXCEPT !.verdict = verdict]
  <1>3. /\ conflicts' = (conflicts \ {c}) \cup {s}
        /\ s.id = c.id /\ s.verdict = verdict /\ s \in conflicts'
    BY <1>2, InvParts DEF Settled, StoreTypeOK, Conflict
  <1>4. /\ \A e \in conflicts' : e.id \in Pushed
        /\ \A e \in conflicts : e.verdict # "open" => e \in conflicts'
        /\ \E e \in conflicts' : e.id = c.id /\ e.verdict # "open"
        /\ \A e \in conflicts' : \E d \in conflicts : d.id = e.id /\ d.key = e.key
    <2>1. s.key = c.key
      BY InvParts DEF StoreTypeOK, Conflict
    <2> HIDE DEF s
    <2> QED BY <1>1, <1>2, <1>3, <2>1, InvParts DEF ConflictsArePushed
  <1>7. domain[RootOf[ProjectOf[c.key]]] # None /\ ProjectOf[c.key] \in Projects
    BY <1>1, InvParts, RootIsThere, GatewayAssumption
  <1>5. CASE verdict = "server"
    <2>1. UNCHANGED <<head, changes, entity, tombstone, domain, manifest>>
      BY <1>5 DEF ResolveConflict
    <2>2. AppendChanges
      BY <2>1, InvParts, RevIsNat DEF AppendChanges, StoreTypeOK, Revisions
    <2>3. Settle
      BY <1>2, <1>3, <2>1, <2>2 DEF Settle
    <2>4. LogIds' = LogIds
      BY <2>1 DEF LogIds
    <2>5. IdInv'
      BY <1>2, <1>4, <2>4, InvParts, OtherIdsKeep, JobsStayOpen DEF IdInv
    <2>6. RestTypeOK'
      BY <1>2, <2>1, InvParts, BinStays DEF RestTypeOK, Job, Contents, Status, Manifest
    <2>7. RootsStay'
      BY <1>2, <1>4, <1>7, <2>1, InvParts, OneWorkMoves
    <2>8. SameWork'
      BY <1>4, <2>1, InvParts, OthersKeepWork
    <2> QED BY <2>3, <2>5, <2>6, <2>7, <2>8 DEF LogStep, LogNext
  <1>6. CASE verdict # "server"
    <2> DEFINE m == [id |-> <<"resolve", c.id>>, key |-> c.key,
                     base |-> entity[c.key].rev,
                     value |-> IF verdict = "client" THEN c.value ELSE custom]
    <2>1. ProjectAndRecord(m)
      BY <1>6 DEF ResolveConflict
    <2>2. /\ m.key \in Keys /\ m.value \in Contents /\ m.base = entity[m.key].rev
          /\ m.key = c.key
      BY <1>1
    <2>3. m.id \in Resolutions /\ m.id = <<"resolve", c.id>>
      BY <1>1 DEF Resolutions
    <2>4. Fresh(m.id)
      <3>1. ~Logged(<<"resolve", c.id>>)
        <4>1. \A e \in conflicts : e.id = c.id => e = c
          BY InvParts DEF StoreIInv, StoreInv, MutationOnce
        <4> QED BY <1>1, <1>2, <4>1, InvParts DEF ResolvedIsSettled
      <3>2. <<"resolve", c.id>> \notin Pushed
        BY Origins DEF Pushed
      <3> QED BY <2>3, <3>1, <3>2, NotPushedIsFresh, InvParts
    <2> HIDE DEF m
    <2>5. /\ AppendChanges
          /\ domain' \in [Keys -> Contents]
          /\ manifest' \in [Projects -> Manifest]
          /\ LogIds' \subseteq LogIds \cup {m.id} \cup {<<"effect", m.id, k>> : k \in Keys}
          /\ LogIds \subseteq LogIds' /\ m.id \in LogIds'
          /\ \A p \in Projects : domain'[RootOf[p]] = None => domain[RootOf[p]] = None
          /\ \A e \in changes' : e \notin changes =>
                /\ ProjectOf[e.key] = ProjectOf[m.key]
                /\ \/ e.id = m.id /\ e.key = m.key
                   \/ \E k \in Keys : e.id = <<"effect", m.id, k>>
          /\ \A k \in Keys : ProjectOf[k] # ProjectOf[m.key] =>
                domain'[k] = domain[k] /\ entity'[k] = entity[k]
      BY <2>1, <2>2, <2>3, <2>4, ProjectAppends
    <2>6. Settle
      BY <1>2, <1>3, <1>6, <2>5 DEF Settle
    <2>7. \A l \in Pushed : m.id = <<"resolve", l>> =>
             \E e \in conflicts' : e.id = l /\ e.verdict # "open"
      BY <1>4, <2>3, Origins
    <2>8. IdInv'
      BY <1>2, <1>4, <2>3, <2>5, <2>7, InvParts, AuthoredKeepsIds
    <2>9. RestTypeOK'
      BY <1>2, <2>5, InvParts, BinStays DEF RestTypeOK, Job, Contents, Status, Manifest
    <2>10. RootsStay'
      <3>1. domain'[RootOf[ProjectOf[m.key]]] # None /\ ProjectOf[m.key] \in Projects
        BY <1>7, <2>2, <2>5
      <3> QED BY <1>2, <1>4, <2>5, <3>1, InvParts, OneWorkMoves
    <2>11. SameWork'
      <3>1. ~Logged(m.id)
        BY <2>4 DEF Fresh
      <3>2. \A d \in conflicts : m.id = <<"resolve", d.id>> => m.key = d.key
        <4>1. \A d \in conflicts : d.id = c.id => d = c
          BY InvParts DEF StoreIInv, StoreInv, MutationOnce
        <4> QED BY <2>2, <2>3, <4>1, Origins
      <3> QED BY <1>4, <2>2, <2>3, <2>5, <3>1, <3>2, InvParts, AuthoredKeepsWork
    <2> QED BY <2>6, <2>8, <2>9, <2>10, <2>11 DEF LogStep, LogNext
  <1> QED BY <1>5, <1>6

(* A work is put into synchronisation, and seeds the log.                  *)
LEMMA EnableStep ==
    ASSUME GatewayIInv, NEW p \in Projects, EnableProject(p)
    PROVE  LogStep
  <1> DEFINE seed(k) == <<"seed", k, domain[k]>>
             W == {k \in WorkOf(p) : entity[k].value # domain[k] /\ ~Logged(seed(k))}
             id == [k \in W |-> seed(k)]
  <1>1. /\ domain[RootOf[p]] # None
        /\ \E order \in Bijection(W, 1 .. Cardinality(W)) : Record(order, id, Current, domain)
        /\ status' = [status EXCEPT ![p] = "enabled"]
        /\ manifest' = [manifest EXCEPT ![p] = Live(p, domain)]
        /\ UNCHANGED <<conflicts, domain, jobs, jobSeq, bin>>
    BY DEF EnableProject
  <1>2. PICK order \in Bijection(W, 1 .. Cardinality(W)) : Record(order, id, Current, domain)
    BY <1>1
  <1>3. W \in SUBSET Keys /\ \A k \in W : ProjectOf[k] = p
    BY DEF WorkOf
  <1>4. ASSUME NEW k \in W
        PROVE  domain[k] \in Contents /\ Current[k] = entity[k].rev /\ Fresh(id[k])
    <2>1. ~Logged(seed(k)) /\ seed(k) \notin Pushed
      BY Origins DEF Pushed
    <2>2. Fresh(seed(k))
      BY <2>1, NotPushedIsFresh, InvParts
    <2> QED BY <1>3, <2>2, InvParts DEF RestTypeOK, Current
  <1>5. \A k, l \in W : id[k] = id[l] => k = l
    BY Origins
  <1>6. \A k \in W : id[k] = <<"seed", k, domain[k]>>
    OBVIOUS
  <1> HIDE DEF W, id
  <1>7. AppendChanges
    BY <1>2, <1>3, <1>4, <1>5, InvParts, RecordAppends
  <1>8. LogIds' = LogIds \cup {id[k] : k \in W}
    BY <1>2, <1>3, InvParts, RecordedIds
  <1>9. \A x \in LogIds' : \/ x \in LogIds
                           \/ /\ \A m : x # <<"resolve", m>>
                              /\ \A m, k : x # <<"effect", m, k>>
                              /\ \A n, k : x # <<"server", n, k>>
    <2>1. ASSUME NEW k \in W
          PROVE  /\ \A m : id[k] # <<"resolve", m>>
                 /\ \A m, j : id[k] # <<"effect", m, j>>
                 /\ \A n, j : id[k] # <<"server", n, j>>
      BY <1>6, Origins
    <2> QED BY <1>8, <2>1
  <1>10. ConflictsArePushed' /\ ResolvedIsSettled' /\ EffectsFollow'
    BY <1>1, <1>8, <1>9, InvParts, OtherIdsKeep DEF ConflictsArePushed
  <1>11. JobsAreOpen'
    BY <1>1, <1>9, InvParts, JobsStayOpen
  <1>12. RestTypeOK'
    <2>1. Live(p, domain) \in Manifest
      <3>1. \A k \in Keys : domain[k] # None => domain[k] \in Values
        BY InvParts DEF RestTypeOK, Contents
      <3>2. \A x \in Live(p, domain) : \E k \in Keys : domain[k] # None /\ x = <<k, domain[k]>>
        BY DEF Live, WorkOf
      <3> QED BY <3>1, <3>2 DEF Manifest
    <2> QED BY <1>1, <2>1, InvParts, BinStays DEF RestTypeOK, Job, Contents, Status, Manifest
  <1>13. RootsStay'
    <2>1. DOMAIN order = W /\ entity' = States(order, domain)
      BY <1>2, <1>3, Positions DEF Record
    <2>2. \A k \in Keys : ProjectOf[k] # p =>
             entity'[k] = entity[k] /\ status'[ProjectOf[k]] = status[ProjectOf[k]]
      BY <1>1, <1>3, <2>1, InvParts, GatewayAssumption DEF States, RestTypeOK
    <2> QED BY <1>1, <2>2, InvParts, OneWorkMoves
  <1>14. SameWork'
    <2>1. \A c \in changes' : c \notin changes =>
             \E k \in W : c = LogRow(order, id, Current, domain, k)
      BY <1>2, <1>3, InvParts, RecordedRows
    <2>2. ASSUME NEW c \in changes', c \notin changes
          PROVE  /\ c.id \notin Pushed \cup Resolutions
                 /\ \A m : c.id # <<"resolve", m>>
                 /\ \A m, k : c.id # <<"effect", m, k>>
      <3>1. PICK k \in W : c = LogRow(order, id, Current, domain, k)
        BY <2>1, <2>2
      <3>2. c.id = <<"seed", k, domain[k]>>
        BY <1>6, <3>1 DEF LogRow
      <3> QED BY <3>2, Origins DEF Pushed, Resolutions
    <2> QED BY <1>1, <2>2, InvParts, OthersKeepWork
  <1> QED BY <1>1, <1>7, <1>10, <1>11, <1>12, <1>13, <1>14 DEF LogStep, LogNext, IdInv

(* A work is taken out of synchronisation.                                 *)
LEMMA DisableStep ==
    ASSUME GatewayIInv, NEW p \in Projects, DisableProject(p)
    PROVE  LogStep
  <1>1. /\ UNCHANGED <<storeVars, domain, manifest, jobs, jobSeq, bin>>
        /\ status' = [status EXCEPT ![p] = "disabled"]
    BY DEF DisableProject
  <1>2. LogIds' = LogIds /\ conflicts' = conflicts
    BY <1>1 DEF LogIds, storeVars
  <1>3. ConflictsArePushed' /\ ResolvedIsSettled' /\ EffectsFollow' /\ JobsAreOpen'
    BY <1>1, <1>2, InvParts, OtherIdsKeep, JobsStayOpen DEF ConflictsArePushed
  <1>4. RestTypeOK'
    BY <1>1, InvParts, BinStays DEF RestTypeOK, Job, Contents, Status, Manifest
  <1>5. RootsStay'
    <2>1. /\ RootOf[p] \in Keys /\ ProjectOf[RootOf[p]] = p
          /\ status[ProjectOf[RootOf[p]]] # "absent"
      BY GatewayAssumption DEF DisableProject
    <2>2. domain[RootOf[p]] # None
      BY <2>1, InvParts, RootIsThere
    <2>3. \A k \in Keys : ProjectOf[k] # p => status'[ProjectOf[k]] = status[ProjectOf[k]]
      BY <1>1, InvParts, GatewayAssumption DEF RestTypeOK
    <2> QED BY <1>1, <2>2, <2>3, InvParts, OneWorkMoves DEF storeVars
  <1>6. SameWork'
    BY <1>1, InvParts, OthersKeepWork DEF storeVars
  <1> QED BY <1>1, <1>3, <1>4, <1>5, <1>6 DEF LogStep, IdInv

(* The jobs a desktop transaction leaves are new and its own.              *)
LEMMA OutboxKeepsJobs ==
    ASSUME GatewayIInv, domain' \in [Keys -> Contents],
           NEW keys \in SUBSET Keys, Outbox(keys), LogIds' \subseteq LogIds
    PROVE  JobsAreOpen' /\ jobs' \subseteq Job /\ jobSeq' \in 0 .. MaxJobs
  <1>1. /\ jobSeq < MaxJobs /\ jobSeq' = jobSeq + 1
        /\ jobs' = jobs \cup JobsFor(keys)
    BY DEF Outbox
  <1>2. jobSeq \in Nat /\ MaxJobs \in Nat /\ jobSeq <= MaxJobs
    BY GatewayAssumption, InvParts DEF RestTypeOK
  <1>3. \A j \in JobsFor(keys) : j.n = jobSeq + 1 /\ j.key \in keys /\ j \in Job
    BY <1>1, <1>2 DEF JobsFor, Job
  <1>4. \A i, j \in JobsFor(keys) : i.key = j.key => i = j
    BY DEF JobsFor
  <1>5. /\ \A n \in Nat, l \in Keys : <<"server", n, l>> \in LogIds => n <= jobSeq
        /\ \A j \in jobs : j.n <= jobSeq /\ <<"server", j.n, j.key>> \notin LogIds
        /\ \A i, j \in jobs : i.n = j.n /\ i.key = j.key => i = j
    BY InvParts DEF JobsAreOpen, Logged, LogIds
  <1>6. \A j \in jobs : j.n \in Nat
    BY InvParts DEF RestTypeOK, Job
  <1>7. \A n \in Nat, l \in Keys : <<"server", n, l>> \in LogIds' => n <= jobSeq'
    BY <1>1, <1>2, <1>5
  <1>8. \A j \in jobs' : j.n <= jobSeq' /\ <<"server", j.n, j.key>> \notin LogIds'
    <2> SUFFICES ASSUME NEW j \in jobs'
                 PROVE  j.n <= jobSeq' /\ <<"server", j.n, j.key>> \notin LogIds'
      OBVIOUS
    <2>1. CASE j \in jobs
      BY <1>1, <1>2, <1>5, <1>6, <2>1
    <2>2. CASE j \in JobsFor(keys)
      BY <1>1, <1>2, <1>3, <1>5, <2>2
    <2> QED BY <1>1, <2>1, <2>2
  <1>9. \A i, j \in jobs' : i.n = j.n /\ i.key = j.key => i = j
    <2> SUFFICES ASSUME NEW i \in jobs', NEW j \in jobs', i.n = j.n, i.key = j.key
                 PROVE  i = j
      OBVIOUS
    <2>1. CASE i \in jobs /\ j \in jobs
      BY <1>5, <2>1
    <2>2. CASE i \in JobsFor(keys) /\ j \in JobsFor(keys)
      BY <1>4, <2>2
    <2>3. CASE i \in jobs /\ j \in JobsFor(keys)
      <3>1. i.n \in Nat /\ i.n <= jobSeq
        BY <1>5, <1>6, <2>3, Zenon
      <3>2. j.n = jobSeq + 1
        BY <1>3, <2>3, Zenon
      <3> QED BY <1>2, <3>1, <3>2
    <2>4. CASE i \in JobsFor(keys) /\ j \in jobs
      <3>1. j.n \in Nat /\ j.n <= jobSeq
        BY <1>5, <1>6, <2>4, Zenon
      <3>2. i.n = jobSeq + 1
        BY <1>3, <2>4, Zenon
      <3> QED BY <1>2, <3>1, <3>2
    <2> QED BY <1>1, <2>1, <2>2, <2>3, <2>4
  <1>10. JobsAreOpen'
    BY <1>7, <1>8, <1>9 DEF JobsAreOpen, Logged, LogIds
  <1>11. jobs' \subseteq Job /\ jobSeq' \in 0 .. MaxJobs
    BY <1>1, <1>2, <1>3, InvParts DEF RestTypeOK
  <1> QED BY <1>10, <1>11

(* A desktop transaction that leaves jobs, or none, beside the store.      *)
LEMMA OutboxStep ==
    ASSUME GatewayIInv, UNCHANGED <<storeVars, bin>>,
           domain' \in [Keys -> Contents],
           status' \in [Projects -> Status],
           manifest' \in [Projects -> Manifest],
           NEW q \in Projects, domain'[RootOf[q]] # None,
           \A k \in Keys : ProjectOf[k] # q =>
              domain'[k] = domain[k] /\ status'[ProjectOf[k]] = status[ProjectOf[k]],
           NEW keys \in SUBSET Keys, Outbox(keys) \/ UNCHANGED <<jobs, jobSeq>>
    PROVE  LogStep
  <1>1. /\ LogIds' = LogIds /\ conflicts' = conflicts
        /\ entity' = entity /\ changes' = changes
    BY DEF LogIds, storeVars
  <1>2. ConflictsArePushed' /\ ResolvedIsSettled' /\ EffectsFollow'
    BY <1>1, InvParts, OtherIdsKeep DEF ConflictsArePushed
  <1>3. JobsAreOpen' /\ jobs' \subseteq Job /\ jobSeq' \in 0 .. MaxJobs
    <2>1. CASE Outbox(keys)
      BY <1>1, <2>1, OutboxKeepsJobs
    <2>2. CASE UNCHANGED <<jobs, jobSeq>>
      BY <1>1, <2>2, InvParts, JobsStayOpen DEF RestTypeOK
    <2> QED BY <2>1, <2>2
  <1>4. RestTypeOK'
    BY <1>3, InvParts, BinStays DEF RestTypeOK, Job, Contents, Status, Manifest
  <1>5. RootsStay'
    BY <1>1, InvParts, OneWorkMoves
  <1>6. SameWork'
    BY <1>1, InvParts, OthersKeepWork
  <1> QED BY <1>2, <1>3, <1>4, <1>5, <1>6 DEF LogStep, IdInv

(* The desktop saves a row.                                                *)
LEMMA DesktopSaveStep ==
    ASSUME GatewayIInv, NEW k \in Keys, NEW v \in Values, DesktopSave(k, v)
    PROVE  LogStep
  <1>1. /\ UNCHANGED <<storeVars, status, manifest, bin>>
        /\ domain' = [domain EXCEPT ![k] = v]
        /\ IsRoot(k) \/ domain[RootOf[ProjectOf[k]]] # None
        /\ Outbox({k}) \/ UNCHANGED <<jobs, jobSeq>>
    BY DEF DesktopSave, Capture
  <1>2. /\ domain' \in [Keys -> Contents] /\ v # None
        /\ domain'[k] = v
        /\ \A l \in Keys \ {k} : domain'[l] = domain[l]
    BY <1>1, StoreAssumption, InvParts DEF RestTypeOK, Contents
  <1>3. ProjectOf[k] \in Projects /\ RootOf[ProjectOf[k]] \in Keys
    BY GatewayAssumption
  <1>4. domain'[RootOf[ProjectOf[k]]] # None
    BY <1>1, <1>2, <1>3 DEF IsRoot
  <1>5. status' \in [Projects -> Status] /\ manifest' \in [Projects -> Manifest]
    BY <1>1, InvParts DEF RestTypeOK
  <1>6. \A l \in Keys : ProjectOf[l] # ProjectOf[k] =>
           domain'[l] = domain[l] /\ status'[ProjectOf[l]] = status[ProjectOf[l]]
    BY <1>1, <1>2
  <1> QED BY <1>1, <1>2, <1>3, <1>4, <1>5, <1>6, OutboxStep

(* The desktop deletes a row, and the rows it owns with it.                *)
LEMMA DesktopDeleteStep ==
    ASSUME GatewayIInv, NEW k \in Keys, DesktopDelete(k)
    PROVE  LogStep
  <1> DEFINE owned == {j \in Keys : Owner[j] = k /\ domain[j] # None}
             keys == {k} \cup (owned \cap OrmOwned)
  <1>1. /\ UNCHANGED <<storeVars, status, manifest, bin>>
        /\ ~IsRoot(k) /\ domain[k] # None
        /\ domain' = [j \in Keys |-> IF j \in owned \cup {k} THEN None ELSE domain[j]]
        /\ Outbox(keys) \/ UNCHANGED <<jobs, jobSeq>>
    BY DEF DesktopDelete, Capture
  <1>2. domain' \in [Keys -> Contents]
    BY <1>1, InvParts DEF RestTypeOK, Contents
  <1>3. /\ ProjectOf[k] \in Projects /\ RootOf[ProjectOf[k]] \in Keys
        /\ RootOf[ProjectOf[k]] # k
        /\ RootOf[ProjectOf[k]] \notin owned
        /\ \A j \in owned : ProjectOf[j] = ProjectOf[k]
    BY <1>1, GatewayAssumption DEF IsRoot
  <1>4. domain'[RootOf[ProjectOf[k]]] # None
    <2>1. domain[RootOf[ProjectOf[k]]] # None
      BY <1>1, InvParts, RootIsThere
    <2> QED BY <1>1, <1>3, <2>1
  <1>5. status' \in [Projects -> Status] /\ manifest' \in [Projects -> Manifest]
    BY <1>1, InvParts DEF RestTypeOK
  <1>6. \A l \in Keys : ProjectOf[l] # ProjectOf[k] =>
           domain'[l] = domain[l] /\ status'[ProjectOf[l]] = status[ProjectOf[l]]
    BY <1>1, <1>3
  <1>7. keys \in SUBSET Keys
    OBVIOUS
  <1> HIDE DEF owned, keys
  <1> QED BY <1>1, <1>2, <1>3, <1>4, <1>5, <1>6, <1>7, OutboxStep

(* The desktop restores a work as the bin has it.                          *)
LEMMA DesktopRestoreStep ==
    ASSUME GatewayIInv, NEW p \in Projects, DesktopRestoreWork(p)
    PROVE  LogStep
  <1>1. PICK e \in bin[p] :
           /\ domain' = [k \in Keys |-> IF k \in WorkOf(p) THEN e.rows[k] ELSE domain[k]]
           /\ status' = [status EXCEPT ![p] = e.status]
           /\ manifest' = [manifest EXCEPT ![p] = e.manifest]
           /\ \/ Outbox({k \in WorkOf(p) : e.rows[k] # None})
              \/ UNCHANGED <<jobs, jobSeq>>
    BY DEF DesktopRestoreWork
  <1>2. UNCHANGED <<storeVars, bin>>
    BY DEF DesktopRestoreWork
  <1>3. /\ e.rows \in [Keys -> Contents] /\ e.status \in Status /\ e.manifest \in Manifest
        /\ e.rows[RootOf[p]] # None
    BY InvParts DEF BinTyped, RootsStay
  <1>4. RootOf[p] \in Keys /\ ProjectOf[RootOf[p]] = p
    BY GatewayAssumption
  <1>5. domain' \in [Keys -> Contents] /\ domain'[RootOf[p]] # None
    BY <1>1, <1>3, <1>4, InvParts DEF RestTypeOK, WorkOf
  <1>6. status' \in [Projects -> Status] /\ manifest' \in [Projects -> Manifest]
    BY <1>1, <1>3, InvParts DEF RestTypeOK
  <1>7. \A k \in Keys : ProjectOf[k] # p =>
           domain'[k] = domain[k] /\ status'[ProjectOf[k]] = status[ProjectOf[k]]
    BY <1>1, InvParts, GatewayAssumption DEF RestTypeOK, WorkOf
  <1> DEFINE back == {k \in WorkOf(p) : e.rows[k] # None}
  <1>8. back \in SUBSET Keys
    BY DEF WorkOf
  <1>9. Outbox(back) \/ UNCHANGED <<jobs, jobSeq>>
    BY <1>1
  <1> HIDE DEF back
  <1> QED BY <1>2, <1>5, <1>6, <1>7, <1>8, <1>9, OutboxStep

(* The desktop deletes a work, and nothing refers to it from another.      *)
LEMMA DesktopDeleteWorkStep ==
    ASSUME GatewayIInv, NEW p \in Projects, DesktopDeleteWork(p)
    PROVE  GatewayStep
  <1> DEFINE w == WorkOf(p)
             rows == [k \in Keys |-> IF k \in w THEN domain[k] ELSE None]
             entry == [rows |-> rows, status |-> status[p], manifest |-> manifest[p]]
  <1>1. /\ w \in Works /\ domain[RootOf[p]] # None
        /\ bin' = [bin EXCEPT ![p] = {entry}]
        /\ domain' = [k \in Keys |-> IF k \in w THEN None ELSE domain[k]]
        /\ \E seen \in SUBSET w : Outbox(IF status[p] = "enabled" THEN seen ELSE {})
        /\ Forget(w)
        /\ status' = [status EXCEPT ![p] = "absent"]
        /\ manifest' = [manifest EXCEPT ![p] = {}]
    BY DEF DesktopDeleteWork, ForgetWork
  <1>2. /\ changes' = {c \in changes : c.key \notin w}
        /\ conflicts' = {c \in conflicts : c.key \notin w}
        /\ entity' = [k \in Keys |-> IF k \in w THEN [rev |-> 0, value |-> None] ELSE entity[k]]
    BY <1>1 DEF Forget
  <1>3. /\ w \subseteq Keys /\ \A k \in Keys : k \in w <=> ProjectOf[k] = p
        /\ RootOf[p] \in w
        /\ \A k \in Keys : ProjectOf[k] \in Projects
    BY GatewayAssumption DEF WorkOf
  <1>4. domain' \in [Keys -> Contents]
    BY <1>1, InvParts DEF RestTypeOK, Contents
  <1>5. /\ status' \in [Projects -> Status] /\ manifest' \in [Projects -> Manifest]
        /\ status'[p] = "absent" /\ \A q \in Projects \ {p} : status'[q] = status[q]
    BY <1>1, InvParts DEF RestTypeOK, Status, Manifest
  <1>6. entry \in [rows : [Keys -> Contents], status : Status, manifest : Manifest]
    BY InvParts DEF RestTypeOK, Contents
  <1>7. entry.rows[RootOf[p]] # None
    BY <1>1, <1>3
  <1> HIDE DEF entry, w
  <1>8. BinTyped'
    <2>1. DOMAIN bin' = Projects /\ bin'[p] = {entry}
          /\ \A q \in Projects \ {p} : bin'[q] = bin[q]
      BY <1>1, InvParts DEF BinTyped
    <2> QED BY <1>6, <2>1, InvParts DEF BinTyped, Contents, Status, Manifest
  <1>9. /\ \A x \in LogIds' : x \in LogIds
        /\ \A c \in changes' : c \in changes /\ c.key \notin w
        /\ \A c \in conflicts' : c \in conflicts /\ c.key \notin w
    BY <1>2 DEF LogIds
  <1>10. JobsAreOpen' /\ jobs' \subseteq Job /\ jobSeq' \in 0 .. MaxJobs
    <2>1. PICK seen \in SUBSET w : Outbox(IF status[p] = "enabled" THEN seen ELSE {})
      BY <1>1
    <2> DEFINE keys == IF status[p] = "enabled" THEN seen ELSE {}
    <2>2. keys \in SUBSET Keys /\ Outbox(keys)
      BY <1>3, <2>1
    <2> HIDE DEF keys
    <2> QED BY <1>4, <1>9, <2>2, OutboxKeepsJobs
  <1>11. RestTypeOK'
    BY <1>4, <1>5, <1>8, <1>10 DEF RestTypeOK, Job, Contents, Status, Manifest
  <1>12. ConflictsArePushed'
    BY <1>9, InvParts DEF ConflictsArePushed
  <1>13. ResolvedIsSettled'
    <2> SUFFICES ASSUME NEW m \in Pushed, NEW c \in changes', c.id = <<"resolve", m>>
                 PROVE  \E d \in conflicts' : d.id = m /\ d.verdict # "open"
      BY DEF ResolvedIsSettled, Logged
    <2>1. PICK d \in conflicts : d.id = m /\ d.verdict # "open"
      BY <1>9, InvParts DEF ResolvedIsSettled, Logged
    <2>2. d.key = c.key /\ c.key \notin w
      BY <1>9, <2>1, InvParts DEF SameWork
    <2> QED BY <1>2, <2>1, <2>2
  <1>14. EffectsFollow'
    <2> SUFFICES ASSUME NEW m \in Pushed \cup Resolutions, NEW k \in Keys,
                        NEW c \in changes', c.id = <<"effect", m, k>>
                 PROVE  \E d \in changes' : d.id = m
      BY DEF EffectsFollow, Logged
    <2>1. PICK d \in changes : d.id = m
      BY <1>9, InvParts DEF EffectsFollow, Logged
    <2>2. ProjectOf[c.key] = ProjectOf[d.key]
      BY <1>9, <2>1, InvParts DEF SameWork
    <2>3. c.key \in Keys /\ d.key \in Keys /\ c.key \notin w
      BY <1>9, InvParts, OldRow
    <2>4. d.key \notin w
      BY <1>3, <2>2, <2>3
    <2> QED BY <1>2, <2>1, <2>4
  <1>15. SameWork'
    BY <1>9, InvParts, OthersKeepWork
  <1>16. RootsStay'
    <2>1. ASSUME NEW k \in Keys, domain'[RootOf[ProjectOf[k]]] = None
          PROVE  /\ domain'[k] = None
                 /\ status'[ProjectOf[k]] = "absent"
                 /\ entity'[k].rev = 0
                 /\ \A c \in conflicts' : c.key # k
      <3>1. CASE k \in w
        BY <1>1, <1>2, <1>3, <1>5, <1>9, <3>1
      <3>2. CASE k \notin w
        <4>1. /\ RootOf[ProjectOf[k]] \in Keys /\ ProjectOf[k] \in Projects
              /\ ProjectOf[RootOf[ProjectOf[k]]] = ProjectOf[k]
          BY GatewayAssumption
        <4>2. RootOf[ProjectOf[k]] \notin w /\ ProjectOf[k] # p
          BY <1>3, <3>2, <4>1
        <4>3. domain[RootOf[ProjectOf[k]]] = None
          BY <1>1, <2>1, <4>1, <4>2
        <4>4. /\ domain[k] = None /\ status[ProjectOf[k]] = "absent" /\ entity[k].rev = 0
              /\ \A c \in conflicts : c.key # k
          BY <4>3, InvParts DEF RootsStay
        <4> QED BY <1>1, <1>2, <1>5, <1>9, <3>2, <4>1, <4>2, <4>4
      <3> QED BY <3>1, <3>2
    <2>2. ASSUME NEW q \in Projects, NEW e \in bin'[q]
          PROVE  e.rows[RootOf[q]] # None
      <3>1. bin'[q] = IF q = p THEN {entry} ELSE bin[q]
        BY <1>1, InvParts DEF BinTyped
      <3> QED BY <1>7, <3>1, InvParts DEF RootsStay
    <2> QED BY <2>1, <2>2 DEF RootsStay
  <1>17. StoreNext
    BY <1>1 DEF StoreNext
  <1> QED BY <1>10, <1>11, <1>12, <1>13, <1>14, <1>15, <1>16, <1>17 DEF GatewayStep, IdInv

(* A job reaches the log, however late.                                    *)
LEMMA ProcessJobStep ==
    ASSUME GatewayIInv, NEW j \in jobs, ProcessJob(j)
    PROVE  LogStep
  <1> DEFINE order == [k \in {j.key} |-> 1]
             x == <<"server", j.n, j.key>>
             id == [k \in {j.key} |-> <<"server", j.n, j.key>>]
             value == [k \in {j.key} |-> Captured(j)]
  <1>1. j \in Job /\ j.key \in Keys /\ j.n \in Nat /\ j.value \in Contents
        /\ ProjectOf[j.key] \in Projects
    BY InvParts, GatewayAssumption DEF RestTypeOK, Job
  <1>2. /\ UNCHANGED <<conflicts, domain, status, jobSeq, bin>>
        /\ Record(order, id, Current, value)
        /\ jobs' = jobs \ {j}
        /\ RefreshManifest(ProjectOf[j.key])
        /\ domain[RootOf[ProjectOf[j.key]]] # None
    BY DEF ProcessJob, Completed
  <1>3. {j.key} \in SUBSET Keys /\ order \in Bijection({j.key}, 1 .. Cardinality({j.key}))
    BY <1>1, OnePosition
  <1>4. Captured(j) \in Contents
    BY <1>1, InvParts DEF Captured, RestTypeOK
  <1>5. Fresh(x)
    <2>1. ~Logged(x) /\ x \notin Pushed
      BY InvParts, Origins DEF JobsAreOpen, Pushed
    <2> QED BY <2>1, NotPushedIsFresh, InvParts
  <1>6. \A k \in {j.key} : /\ value[k] \in Contents
                           /\ Current[k] = entity[k].rev
                           /\ Fresh(id[k])
    BY <1>1, <1>4, <1>5 DEF Current
  <1>7. \A k, l \in {j.key} : id[k] = id[l] => k = l
    OBVIOUS
  <1>8. LogIds' = LogIds \cup {id[k] : k \in {j.key}}
    BY <1>2, <1>3, InvParts, RecordedIds
  <1>9. LogIds' = LogIds \cup {x}
    BY <1>8
  <1>10. entity' = States(order, value) /\ DOMAIN order = {j.key}
    BY <1>2 DEF Record
  <1> HIDE DEF order, id, value
  <1>11. AppendChanges
    BY <1>2, <1>3, <1>6, <1>7, InvParts, RecordAppends
  <1>12. ConflictsArePushed' /\ ResolvedIsSettled' /\ EffectsFollow'
    BY <1>2, <1>9, InvParts, OtherIdsKeep, Origins DEF ConflictsArePushed
  <1>13. JobsAreOpen'
    <2>1. /\ \A n \in Nat, k \in Keys : <<"server", n, k>> \in LogIds => n <= jobSeq
          /\ \A i \in jobs : i.n <= jobSeq /\ <<"server", i.n, i.key>> \notin LogIds
          /\ \A i, l \in jobs : i.n = l.n /\ i.key = l.key => i = l
      BY InvParts DEF JobsAreOpen, Logged, LogIds
    <2>2. \A n \in Nat, k \in Keys : <<"server", n, k>> \in LogIds' => n <= jobSeq'
      BY <1>2, <1>9, <2>1, Origins
    <2>3. \A i \in jobs' : i.n <= jobSeq' /\ <<"server", i.n, i.key>> \notin LogIds'
      BY <1>2, <1>9, <2>1, Origins
    <2>4. \A i, l \in jobs' : i.n = l.n /\ i.key = l.key => i = l
      BY <1>2, <2>1
    <2> QED BY <2>2, <2>3, <2>4 DEF JobsAreOpen, Logged, LogIds
  <1>14. RestTypeOK'
    <2>1. manifest' \in [Projects -> Manifest]
      BY <1>1, <1>2, <1>11, InvParts, AppendKeepsType, RefreshedManifest DEF RestTypeOK
    <2> QED BY <1>2, <2>1, InvParts, BinStays DEF RestTypeOK, Job, Contents, Status, Manifest
  <1>15. RootsStay'
    <2>1. \A k \in Keys : ProjectOf[k] # ProjectOf[j.key] => entity'[k] = entity[k]
      BY <1>10 DEF States
    <2> QED BY <1>1, <1>2, <2>1, InvParts, OneWorkMoves
  <1>16. SameWork'
    <2>1. \A c \in changes' : c \notin changes =>
             \E k \in {j.key} : c = LogRow(order, id, Current, value, k)
      BY <1>2, <1>3, InvParts, RecordedRows
    <2>2. id[j.key] = x
      BY DEF id
    <2>3. \A c \in changes' : c \notin changes => c.id = x
      BY <2>1, <2>2 DEF LogRow
    <2>4. /\ x \notin Pushed \cup Resolutions
          /\ \A m : x # <<"resolve", m>>
          /\ \A m, k : x # <<"effect", m, k>>
      BY Origins DEF Pushed, Resolutions
    <2> QED BY <1>2, <2>3, <2>4, InvParts, OthersKeepWork
  <1> QED BY <1>2, <1>11, <1>12, <1>13, <1>14, <1>15, <1>16 DEF LogStep, LogNext, IdInv

----------------------------------------------------------------------------
(* The Gateway starts with empty tables.                                   *)
LEMMA GatewayInitIInv == Init => GatewayIInv
  <1> SUFFICES ASSUME Init PROVE GatewayIInv
    OBVIOUS
  <1>1. StoreIInv
    BY StoreInitIInv DEF Init
  <1>2. RestTypeOK
    BY GatewayAssumption DEF Init, RestTypeOK, BinTyped, Contents, Status, Manifest
  <1>3. IdInv
    BY DEF Init, StoreInit, IdInv, ConflictsArePushed, ResolvedIsSettled,
           EffectsFollow, JobsAreOpen, Logged
  <1>4. RootsStay
    BY GatewayAssumption DEF Init, StoreInit, RootsStay
  <1>5. SameWork
    BY DEF Init, StoreInit, SameWork
  <1> QED BY <1>1, <1>2, <1>3, <1>4, <1>5 DEF GatewayIInv, TypeOK, RestTypeOK, BinTyped, StoreIInv

(* Every answer to a push is a step of the log.                            *)
LEMMA PushStep ==
    ASSUME GatewayIInv, NEW m \in Mutation, Push(m)
    PROVE  LogStep
  <1>1. CASE PushDuplicate(m)
    BY <1>1, SameTables DEF PushDuplicate
  <1>2. CASE PushDisputed(m)
    BY <1>2, SameTables DEF PushDisputed
  <1>3. CASE PushConflict(m)
    BY <1>3, PushConflictStep
  <1>4. CASE PushApplied(m)
    BY <1>4, PushAppliedStep
  <1>5. CASE PushCreatesProject(m)
    BY <1>5, PushCreatesStep
  <1> QED BY <1>1, <1>2, <1>3, <1>4, <1>5 DEF Push

(* The actions of the Gateway but the deletion of a work.                  *)
Logging ==
    \/ \E m \in Mutation : Push(m)
    \/ \E c \in conflicts, verdict \in {"server", "client"} :
          ResolveConflict(c, verdict, None)
    \/ \E c \in conflicts, v \in Contents : ResolveConflict(c, "custom", v)
    \/ \E p \in Projects : EnableProject(p) \/ DisableProject(p)
    \/ \E k \in Keys, v \in Values : DesktopSave(k, v)
    \/ \E k \in Keys : DesktopDelete(k)
    \/ \E p \in Projects : DesktopRestoreWork(p)
    \/ \E j \in jobs : ProcessJob(j)
    \/ UNCHANGED vars

LEMMA NextIsLogging ==
    ASSUME [Next]_vars
    PROVE  Logging \/ \E p \in Projects : DesktopDeleteWork(p)
  BY Zenon DEF Next, Logging

(* They do to the store what its log allows, and keep the rest.            *)
LEMMA LoggingIsLogStep ==
    ASSUME GatewayIInv, Logging
    PROVE  LogStep
  <1>1. ASSUME NEW m \in Mutation, Push(m) PROVE LogStep
    BY <1>1, PushStep
  <1>2. ASSUME NEW c \in conflicts, NEW verdict \in {"server", "client"},
               ResolveConflict(c, verdict, None)
        PROVE  LogStep
    BY <1>2, ResolveStep DEF Verdicts, Contents
  <1>3. ASSUME NEW c \in conflicts, NEW v \in Contents, ResolveConflict(c, "custom", v)
        PROVE  LogStep
    BY <1>3, ResolveStep DEF Verdicts
  <1>4. ASSUME NEW p \in Projects, EnableProject(p) \/ DisableProject(p)
        PROVE  LogStep
    BY <1>4, EnableStep, DisableStep
  <1>5. ASSUME NEW k \in Keys, NEW v \in Values, DesktopSave(k, v)
        PROVE  LogStep
    BY <1>5, DesktopSaveStep
  <1>6. ASSUME NEW k \in Keys, DesktopDelete(k)
        PROVE  LogStep
    BY <1>6, DesktopDeleteStep
  <1>7. ASSUME NEW j \in jobs, ProcessJob(j)
        PROVE  LogStep
    BY <1>7, ProcessJobStep
  <1>8. ASSUME NEW p \in Projects, DesktopRestoreWork(p)
        PROVE  LogStep
    BY <1>8, DesktopRestoreStep
  <1>9. CASE UNCHANGED vars
    BY <1>9, SameTables DEF vars, gatewayVars
  <1> QED BY <1>1, <1>2, <1>3, <1>4, <1>5, <1>6, <1>7, <1>8, <1>9 DEF Logging

(* Every action of the Gateway is a step of the store that keeps the rest. *)
LEMMA NextIsGatewayStep ==
    ASSUME GatewayIInv, [Next]_vars
    PROVE  GatewayStep
  BY NextIsLogging, LoggingIsLogStep, LogStepIsStep, DesktopDeleteWorkStep

(* The Gateway's invariant, in every reachable state.                      *)
THEOREM GatewayIsSafe == Spec => []GatewayIInv
  BY GatewayInitIInv, NextIsGatewayStep, StepKeepsIInv, PTL DEF Spec

(* The Gateway's tables and its answers' sources keep their types.         *)
THEOREM GatewayTypeCorrect == Spec => []TypeOK
  <1>1. GatewayIInv => TypeOK
    BY DEF GatewayIInv
  <1> QED BY <1>1, GatewayIsSafe, PTL

(* Pushes, resolutions, seeding, and jobs in any order do nothing to the   *)
(* four tables but what the abstract store allows.                         *)
THEOREM GatewayImplementsStore == Spec => StoreSpec
  <1>1. Init => StoreInit
    BY DEF Init
  <1>2. GatewayIInv /\ [Next]_vars => [StoreNext]_storeVars
    BY NextIsGatewayStep DEF GatewayStep
  <1> QED BY <1>1, <1>2, GatewayIsSafe, PTL DEF Spec, StoreSpec

(* An id the service derives is never in the log before it writes under    *)
(* it, whatever was retried, left open or resolved before.                 *)
THEOREM GatewayIdsAreFresh == Spec => []IdsAreFresh
  <1>1. GatewayIInv => IdsAreFresh
    <2> SUFFICES ASSUME GatewayIInv PROVE IdsAreFresh
      OBVIOUS
    <2>1. \A c \in conflicts :
             /\ c.id \in Pushed
             /\ c.verdict = "open" => ~Logged(<<"resolve", c.id>>)
      BY InvParts DEF ConflictsArePushed, ResolvedIsSettled, StoreIInv, StoreInv, MutationOnce
    <2>2. \A m \in Pushed \cup {<<"resolve", c.id>> : c \in conflicts} :
             ~Logged(m) => \A k \in Keys : ~Logged(<<"effect", m, k>>)
      BY <2>1, InvParts DEF EffectsFollow, Resolutions
    <2>3. \A j \in jobs : ~Logged(<<"server", j.n, j.key>>) /\ j.n <= jobSeq
      BY InvParts DEF JobsAreOpen
    <2> QED BY <2>1, <2>2, <2>3 DEF IdsAreFresh, Pushed
  <1> QED BY <1>1, GatewayIsSafe, PTL

(* Idempotence: no mutation id, of a device or of the service, takes       *)
(* effect twice in the Gateway.                                            *)
THEOREM GatewayMutationOnce == Spec => []MutationOnce
  <1>1. GatewayIInv => MutationOnce
    BY DEF GatewayIInv, StoreIInv, StoreInv
  <1> QED BY <1>1, GatewayIsSafe, PTL

(* Optimistic concurrency: no write of the Gateway skips a version.        *)
THEOREM GatewaySkipsNoVersion == Spec => []NoSkippedVersion
  <1>1. GatewayIInv => NoSkippedVersion
    BY DEF GatewayIInv, StoreIInv, StoreInv
  <1> QED BY <1>1, GatewayIsSafe, PTL

(* Bootstrap and pull agree: a state row is its entity's last change.      *)
THEOREM GatewayStateIsLastChange == Spec => []StateIsLastChange
  <1>1. GatewayIInv => StateIsLastChange
    BY DEF GatewayIInv, StoreIInv, StoreInv
  <1> QED BY <1>1, GatewayIsSafe, PTL

(* The Gateway never drops a version a conflict holds.                     *)
THEOREM GatewayKeepsBothVersions == Spec => BothVersionsKept
  BY GatewayImplementsStore, StoreKeepsBothVersions, PTL

----------------------------------------------------------------------------
(* A change or a conflict, once in the tables, stays while the log grows.  *)
LEMMA NothingIsLost ==
    ASSUME GatewayIInv, [LogNext]_storeVars
    PROVE  /\ changes \subseteq changes'
           /\ \A c \in conflicts : \E d \in conflicts' :
                 d.id = c.id /\ d.serverRev = c.serverRev
  <1>2. CASE UNCHANGED storeVars
    BY <1>2 DEF storeVars
  <1>3. CASE AppendChanges /\ UNCHANGED conflicts
    BY <1>3 DEF AppendChanges
  <1>4. CASE Dispute
    BY <1>4 DEF Dispute
  <1>5. CASE Settle
    <2>1. changes \subseteq changes'
      BY <1>5 DEF Settle, AppendChanges
    <2>2. PICK c \in conflicts, verdict \in Verdicts \ {"open"} :
             conflicts' = (conflicts \ {c}) \cup {[c EXCEPT !.verdict = verdict]}
      BY <1>5 DEF Settle
    <2>3. c \in Conflict
      BY InvParts DEF StoreTypeOK
    <2> DEFINE s == [c EXCEPT !.verdict = verdict]
    <2>4. s.id = c.id /\ s.serverRev = c.serverRev
      BY <2>3 DEF Conflict
    <2>5. s \in conflicts' /\ \A d \in conflicts : d # c => d \in conflicts'
      BY <2>2
    <2> HIDE DEF s
    <2> QED BY <2>1, <2>4, <2>5
  <1> QED BY <1>2, <1>3, <1>4, <1>5 DEF LogNext

(* What projecting an authored mutation puts in the log: its own change,   *)
(* last, and one for each row that moved, all of the same work.            *)
LEMMA ProjectionIsLogged ==
    ASSUME GatewayIInv, NEW m, m.key \in Keys, ProjectAndRecord(m)
    PROVE  /\ \E c \in changes' : c.id = m.id /\ c.rev = head'
           /\ \A k \in Keys : k = m.key \/ domain'[k] # domain[k] =>
                 \E c \in changes' \ changes : c.key = k /\ c.value = domain'[k]
           /\ \A c \in changes' : c \notin changes =>
                 c.value = domain'[c.key] /\ ProjectOf[c.key] = ProjectOf[m.key]
           /\ \A k \in Keys : ProjectOf[k] # ProjectOf[m.key] =>
                 domain'[k] = domain[k]
  <1>1. PICK d \in Projections(m) :
           LET W == {m.key} \cup {k \in Keys : d[k] # domain[k]}
               id == [k \in W |-> IF k = m.key THEN m.id ELSE <<"effect", m.id, k>>]
           IN  \E order \in Bijection(W, 1 .. Cardinality(W)) :
                  /\ order[m.key] = Cardinality(W)
                  /\ Record(order, id, [Current EXCEPT ![m.key] = m.base], d)
                  /\ domain' = d
    BY DEF ProjectAndRecord
  <1> DEFINE W == {m.key} \cup {k \in Keys : d[k] # domain[k]}
             id == [k \in W |-> IF k = m.key THEN m.id ELSE <<"effect", m.id, k>>]
             base == [Current EXCEPT ![m.key] = m.base]
  <1>2. PICK order \in Bijection(W, 1 .. Cardinality(W)) :
           order[m.key] = Cardinality(W) /\ Record(order, id, base, d) /\ domain' = d
    BY <1>1
  <1>3. W \in SUBSET Keys /\ m.key \in W /\ id[m.key] = m.id
    OBVIOUS
  <1>4. \A k \in Keys : k = m.key \/ domain'[k] # domain[k] => k \in W
    BY <1>2
  <1>5. \A k \in W : ProjectOf[k] = ProjectOf[m.key]
    <2> SUFFICES ASSUME NEW k \in W, k # m.key PROVE ProjectOf[k] = ProjectOf[m.key]
      OBVIOUS
    <2>1. k \in Keys /\ Owner[k] = m.key
      BY DEF Projections
    <2> QED BY <2>1, GatewayAssumption
  <1>6. DOMAIN order = W /\ head' = head + Cardinality(W)
    BY <1>2, <1>3, Positions DEF Record
  <1> HIDE DEF W, id, base
  <1>7. StoreIInv
    BY InvParts
  <1>8. \A k \in W : /\ LogRow(order, id, base, d, k) \in changes'
                     /\ LogRow(order, id, base, d, k) \notin changes
    BY <1>2, <1>3, <1>7, RecordedAll
  <1>9. \A c \in changes' : c \notin changes =>
           \E k \in W : c = LogRow(order, id, base, d, k)
    BY <1>2, <1>3, <1>7, RecordedRows
  <1>10. \A k : /\ LogRow(order, id, base, d, k).rev = head + order[k]
                /\ LogRow(order, id, base, d, k).id = id[k]
                /\ LogRow(order, id, base, d, k).key = k
                /\ LogRow(order, id, base, d, k).value = d[k]
    BY DEF LogRow
  <1>11. \E c \in changes' : c.id = m.id /\ c.rev = head'
    BY <1>2, <1>3, <1>6, <1>8, <1>10
  <1>12. \A k \in Keys : k = m.key \/ domain'[k] # domain[k] =>
            \E c \in changes' \ changes : c.key = k /\ c.value = domain'[k]
    BY <1>2, <1>4, <1>8, <1>10
  <1>13. \A c \in changes' : c \notin changes =>
            c.value = domain'[c.key] /\ ProjectOf[c.key] = ProjectOf[m.key]
    BY <1>2, <1>5, <1>9, <1>10
  <1>14. \A k \in Keys : ProjectOf[k] # ProjectOf[m.key] => domain'[k] = domain[k]
    BY <1>4, <1>5
  <1> QED BY <1>11, <1>12, <1>13, <1>14

(* What a transaction of one row puts in the log.                          *)
LEMMA OneIsLogged ==
    ASSUME GatewayIInv, NEW k \in Keys, NEW id, NEW base, NEW value,
           Record([j \in {k} |-> 1], id, base, value)
    PROVE  /\ head' = head + 1
           /\ \E c \in changes' \ changes :
                 c.rev = head' /\ c.id = id[k] /\ c.key = k /\ c.value = value[k]
           /\ \A c \in changes' : c \notin changes => c.key = k /\ c.value = value[k]
           /\ entity'[k].value = value[k]
           /\ \A j \in Keys \ {k} : entity'[j] = entity[j]
  <1> DEFINE order == [j \in {k} |-> 1]
  <1>1. {k} \in SUBSET Keys /\ order \in Bijection({k}, 1 .. Cardinality({k}))
    BY OnePosition
  <1>2. DOMAIN order = {k} /\ order[k] = 1 /\ Cardinality({k}) = 1
    BY FS_Singleton
  <1>3. Record(order, id, base, value)
    OBVIOUS
  <1> HIDE DEF order
  <1>4. StoreIInv
    BY InvParts
  <1>5. LogRow(order, id, base, value, k) \in changes' \ changes
    BY <1>1, <1>3, <1>4, RecordedAll
  <1>6. \A c \in changes' : c \notin changes => c = LogRow(order, id, base, value, k)
    BY <1>1, <1>3, <1>4, RecordedRows
  <1>7. /\ LogRow(order, id, base, value, k).rev = head + 1
        /\ LogRow(order, id, base, value, k).id = id[k]
        /\ LogRow(order, id, base, value, k).key = k
        /\ LogRow(order, id, base, value, k).value = value[k]
    BY <1>2 DEF LogRow
  <1>8. head' = head + 1 /\ entity' = States(order, value)
    BY <1>2, <1>3 DEF Record
  <1>9. entity'[k].value = value[k] /\ \A j \in Keys \ {k} : entity'[j] = entity[j]
    BY <1>2, <1>8 DEF States
  <1> QED BY <1>5, <1>6, <1>7, <1>8, <1>9

----------------------------------------------------------------------------
(* An answer stays backed by the tables while the log grows.               *)
LEMMA OldAnswerHolds ==
    ASSUME GatewayIInv, [LogNext]_storeVars, reply' = reply, Holds(reply)
    PROVE  Holds(reply)'
  <1>1. reply.names = "change" => \E c \in changes' : c.id = reply.id /\ c.rev = reply.rev
    BY NothingIsLost DEF Holds
  <1>2. reply.names = "conflict" =>
           \E c \in conflicts' : c.id = reply.id /\ c.serverRev = reply.rev
    BY NothingIsLost DEF Holds
  <1> QED BY <1>1, <1>2 DEF Holds

(* When a work is deleted, an answer loses only a row of that work.        *)
LEMMA DeletedAnswerGoes ==
    ASSUME GatewayIInv, NEW p \in Projects, DesktopDeleteWork(p), Holds(reply)
    PROVE  \/ Holds(reply)'
           \/ \E c \in changes \cup conflicts : c.id = reply.id /\ WorkGoes(c.key)
  <1>1. /\ changes' = {c \in changes : c.key \notin WorkOf(p)}
        /\ conflicts' = {c \in conflicts : c.key \notin WorkOf(p)}
        /\ domain[RootOf[p]] # None
        /\ domain' = [k \in Keys |-> IF k \in WorkOf(p) THEN None ELSE domain[k]]
        /\ reply' = reply
    BY DEF DesktopDeleteWork, ForgetWork, Forget
  <1>2. ASSUME NEW k \in WorkOf(p) PROVE WorkGoes(k)
    <2>1. ProjectOf[k] = p /\ RootOf[p] \in Keys /\ RootOf[p] \in WorkOf(p)
      BY GatewayAssumption DEF WorkOf
    <2> QED BY <1>1, <2>1 DEF WorkGoes
  <1>3. reply.names = "change" =>
           \/ \E c \in changes' : c.id = reply.id /\ c.rev = reply.rev
           \/ \E c \in changes : c.id = reply.id /\ WorkGoes(c.key)
    BY <1>1, <1>2 DEF Holds
  <1>4. reply.names = "conflict" =>
           \/ \E c \in conflicts' : c.id = reply.id /\ c.serverRev = reply.rev
           \/ \E c \in conflicts : c.id = reply.id /\ WorkGoes(c.key)
    BY <1>1, <1>2 DEF Holds
  <1> QED BY <1>1, <1>3, <1>4 DEF Holds

(* Each answer to a push names what the tables hold once it is given.      *)
LEMMA PushIsRecorded ==
    ASSUME GatewayIInv, NEW m \in Mutation, Push(m)
    PROVE  Holds(reply)'
  <1>1. m.key \in Keys
    BY DEF Mutation
  <1>2. ASSUME NEW row, NEW rev, Answer(m, row, rev),
               row = "change" =>
                   \E c \in changes' : c.id = m.id /\ c.rev = rev,
               row = "conflict" =>
                   \E c \in conflicts' : c.id = m.id /\ c.serverRev = rev
        PROVE  Holds(reply)'
    BY <1>2 DEF Answer, Holds
  <1>3. CASE PushDuplicate(m)
    <2>1. PICK c \in changes : c.id = m.id /\ Answer(m, "change", c.rev)
      BY <1>3 DEF PushDuplicate
    <2>2. c \in changes'
      BY <1>3 DEF PushDuplicate, storeVars
    <2> QED BY <1>2, <2>1, <2>2
  <1>4. CASE PushDisputed(m)
    <2>1. PICK c \in conflicts : c.id = m.id /\ Answer(m, "conflict", c.serverRev)
      BY <1>4 DEF PushDisputed
    <2>2. c \in conflicts'
      BY <1>4 DEF PushDisputed, storeVars
    <2> QED BY <1>2, <2>1, <2>2
  <1>5. CASE PushConflict(m)
    <2>1. Answer(m, "conflict", entity[m.key].rev)
      BY <1>5 DEF PushConflict
    <2>2. Collision(m.id, m.key, m.base, m.value) \in conflicts'
      BY <1>5 DEF PushConflict
    <2>3. /\ Collision(m.id, m.key, m.base, m.value).id = m.id
          /\ Collision(m.id, m.key, m.base, m.value).serverRev = entity[m.key].rev
      BY DEF Collision
    <2> QED BY <1>2, <2>1, <2>2, <2>3
  <1>6. CASE PushApplied(m)
    <2>1. ProjectAndRecord(m) /\ Answer(m, "change", head')
      BY <1>6 DEF PushApplied
    <2>2. \E c \in changes' : c.id = m.id /\ c.rev = head'
      BY <1>1, <2>1, ProjectionIsLogged
    <2> QED BY <1>2, <2>1, <2>2
  <1>7. CASE PushCreatesProject(m)
    <2>1. /\ Record([k \in {m.key} |-> 1], [k \in {m.key} |-> m.id],
                    [k \in {m.key} |-> m.base], domain')
          /\ Answer(m, "change", head')
      BY <1>7 DEF PushCreatesProject
    <2>2. \E c \in changes' : c.id = m.id /\ c.rev = head'
      BY <1>1, <2>1, OneIsLogged
    <2> QED BY <1>2, <2>1, <2>2
  <1> QED BY <1>3, <1>4, <1>5, <1>6, <1>7 DEF Push

(* This transaction gives an answer the tables hold, or leaves the last    *)
(* one held unless the row it names goes with its work.                    *)
AnswersLast ==
    \/ Holds(reply)'
    \/ /\ reply' = reply
       /\ Holds(reply) =>
             \E c \in changes \cup conflicts : c.id = reply.id /\ WorkGoes(c.key)

(* A device is never told something the tables do not hold, and no later   *)
(* transaction but the deletion of the whole work takes it from them.      *)
THEOREM AnswersHold == Spec => AnswerIsRecorded
  <1>1. ASSUME GatewayIInv, [Next]_vars
        PROVE  AnswersLast
    <2>1. CASE \E m \in Mutation : Push(m)
      BY <1>1, <2>1, PushIsRecorded DEF AnswersLast
    <2>2. CASE \E p \in Projects : DesktopDeleteWork(p)
      BY <1>1, <2>2, DeletedAnswerGoes DEF AnswersLast, DesktopDeleteWork
    <2>3. CASE Logging /\ reply' = reply
      <3>1. [LogNext]_storeVars
        BY <1>1, <2>3, LoggingIsLogStep DEF LogStep
      <3> QED BY <1>1, <2>3, <3>1, OldAnswerHolds DEF AnswersLast
    <2>4. CASE Logging /\ ~(\E m \in Mutation : Push(m))
      <3>1. reply' = reply
        BY <2>4 DEF Logging, ResolveConflict, EnableProject, DisableProject, DesktopSave,
                    DesktopDelete, DesktopRestoreWork, ProcessJob, vars, gatewayVars
      <3> QED BY <2>3, <2>4, <3>1
    <2> QED BY <1>1, <2>1, <2>2, <2>4, NextIsLogging
  <1>2. GatewayIInv /\ [Next]_vars => [AnswersLast]_vars
    BY <1>1
  <1>3. AnswersLast =>
           \/ Holds(reply)'
           \/ /\ reply' = reply
              /\ Holds(reply) =>
                    \E c \in changes \cup conflicts : c.id = reply.id /\ WorkGoes(c.key)
    BY DEF AnswersLast
  <1> QED BY <1>2, <1>3, GatewayIsSafe, PTL DEF Spec, AnswerIsRecorded

----------------------------------------------------------------------------
(* This transaction puts the content it gives k in the log or in a job.    *)
Tracked(k) ==
    \/ \E c \in changes' \ changes : c.key = k /\ c.value = domain'[k]
    \/ \E j \in jobs' \ jobs : j.key = k /\ j.value = domain'[k]

(* This transaction removes k, and leaves a job for the deletion of what k *)
(* belongs to.                                                             *)
Removed(k) ==
    /\ domain'[k] = None
    /\ \E j \in jobs' \ jobs : j.key \in Above(k) \ {k} /\ j.value = None

(* Rows that only the database deletes with their owner.                   *)
Unseen(k) == Owner[k] # NoOwner /\ k \notin OrmOwned

(* Every cascade is one the session sees.                                  *)
SeesCascades == \A k \in Keys : ~Unseen(k)

(* This transaction tracks every row it moves of an enabled work.          *)
TracksRows ==
    \A k \in Keys : (Enabled(k) \/ Enabled(k)') /\ domain'[k] # domain[k] =>
        Tracked(k) \/ Removed(k)

(* A desktop transaction leaves a new job, with the content of the moment, *)
(* for every row its session wrote or deleted.                             *)
LEMMA OutboxRows ==
    ASSUME GatewayIInv, NEW keys \in SUBSET Keys, Outbox(keys)
    PROVE  /\ jobs' = jobs \cup JobsFor(keys)
           /\ \A i \in JobsFor(keys) : i.key \in keys /\ i.value = domain'[i.key]
           /\ \A l \in keys : \E i \in jobs' \ jobs : i.key = l /\ i.value = domain'[l]
  <1>1. jobs' = jobs \cup JobsFor(keys)
    BY DEF Outbox
  <1>2. \A i \in JobsFor(keys) :
           i.n = jobSeq + 1 /\ i.key \in keys /\ i.value = domain'[i.key]
    BY DEF JobsFor
  <1>3. jobSeq \in Nat /\ \A i \in jobs : i.n <= jobSeq
    <2>1. jobSeq \in Nat
      BY InvParts, GatewayAssumption DEF RestTypeOK
    <2>2. \A i \in jobs : i.n <= jobSeq
      BY InvParts, Zenon DEF JobsAreOpen
    <2> QED BY <2>1, <2>2
  <1>4. \A i \in JobsFor(keys) : i \notin jobs
    <2> SUFFICES ASSUME NEW i \in JobsFor(keys), i \in jobs PROVE FALSE
      OBVIOUS
    <2>1. i.n = jobSeq + 1 /\ i.n <= jobSeq
      BY <1>2, <1>3, Zenon
    <2> QED BY <1>3, <2>1
  <1>5. \A l \in keys : \E i \in JobsFor(keys) : i.key = l /\ i.value = domain'[l]
    <2> SUFFICES ASSUME NEW l \in keys
                 PROVE  \E i \in JobsFor(keys) : i.key = l /\ i.value = domain'[l]
      OBVIOUS
    <2>1. [n |-> jobSeq + 1, key |-> l, value |-> domain'[l]] \in JobsFor(keys)
      BY DEF JobsFor
    <2> QED BY <2>1
  <1> QED BY <1>1, <1>2, <1>4, <1>5

LEMMA CapturedRows ==
    ASSUME GatewayIInv, NEW k \in Keys, NEW keys \in SUBSET Keys,
           Capture(k, keys), Enabled(k)
    PROVE  /\ jobs' = jobs \cup JobsFor(keys)
           /\ \A i \in JobsFor(keys) : i.key \in keys /\ i.value = domain'[i.key]
           /\ \A l \in keys : \E i \in jobs' \ jobs : i.key = l /\ i.value = domain'[l]
  <1>1. Outbox(keys)
    BY DEF Capture
  <1> QED BY <1>1, OutboxRows

(* What a deletion on the desktop does to the rows.                        *)
LEMMA DeletedRows ==
    ASSUME GatewayIInv, NEW k \in Keys, DesktopDelete(k)
    PROVE  LET keys == {k} \cup ({j \in Keys : Owner[j] = k /\ domain[j] # None} \cap OrmOwned)
           IN  /\ keys \in SUBSET Keys /\ k \in keys
               /\ Capture(k, keys)
               /\ \A l \in Keys : domain'[l] # domain[l] =>
                     /\ domain'[l] = None
                     /\ ProjectOf[l] = ProjectOf[k]
                     /\ l \in keys \/ (Unseen(l) /\ Owner[l] = k)
               /\ \A l \in keys : domain'[l] = None /\ ProjectOf[l] = ProjectOf[k]
               /\ domain'[RootOf[ProjectOf[k]]] = domain[RootOf[ProjectOf[k]]]
  <1> DEFINE owned == {j \in Keys : Owner[j] = k /\ domain[j] # None}
             keys == {k} \cup (owned \cap OrmOwned)
  <1>1. /\ ~IsRoot(k)
        /\ domain' = [j \in Keys |-> IF j \in owned \cup {k} THEN None ELSE domain[j]]
        /\ Capture(k, keys)
    BY DEF DesktopDelete
  <1>2. \A l \in owned : Owner[l] # NoOwner /\ ProjectOf[l] = ProjectOf[k]
    BY GatewayAssumption
  <1>3. \A l \in Keys : domain'[l] # domain[l] => domain'[l] = None /\ l \in owned \cup {k}
    BY <1>1
  <1>4. \A l \in keys : domain'[l] = None
    BY <1>1
  <1>5. domain'[RootOf[ProjectOf[k]]] = domain[RootOf[ProjectOf[k]]]
    <2>1. ProjectOf[k] \in Projects
      BY GatewayAssumption
    <2>2. RootOf[ProjectOf[k]] \in Keys /\ RootOf[ProjectOf[k]] # k
      BY <1>1, <2>1, GatewayAssumption DEF IsRoot
    <2>3. RootOf[ProjectOf[k]] \notin owned
      BY <1>2, <2>1, GatewayAssumption
    <2> QED BY <1>1, <2>2, <2>3
  <1>6. \A l \in owned \cup {k} : ProjectOf[l] = ProjectOf[k] /\ (l \in keys \/ (Unseen(l) /\ Owner[l] = k))
    BY <1>2 DEF Unseen
  <1> QED BY <1>1, <1>3, <1>4, <1>5, <1>6

(* Every transaction of the Gateway tracks the rows it moves.              *)
LEMMA NextTracksRows ==
    ASSUME GatewayIInv, [Next]_vars
    PROVE  TracksRows
  <1>1. CASE domain' = domain
    BY <1>1 DEF TracksRows
  <1>2. ASSUME NEW m, m.key \in Keys, ProjectAndRecord(m)
        PROVE  TracksRows
    BY <1>2, ProjectionIsLogged DEF TracksRows, Tracked
  <1>3. ASSUME NEW m \in Mutation, Push(m)
        PROVE  TracksRows
    <2>1. m.key \in Keys
      BY DEF Mutation
    <2>2. CASE PushApplied(m)
      BY <1>2, <2>1, <2>2 DEF PushApplied
    <2>3. CASE PushCreatesProject(m)
      <3> DEFINE id == [k \in {m.key} |-> m.id]
                 base == [k \in {m.key} |-> m.base]
      <3>1. domain' = [domain EXCEPT ![m.key] = m.value]
        BY <2>3 DEF PushCreatesProject
      <3>4. Record([k \in {m.key} |-> 1], id, base, domain')
        BY <2>3 DEF PushCreatesProject
      <3>2. \A k \in Keys : domain'[k] # domain[k] => k = m.key
        BY <3>1, InvParts DEF RestTypeOK
      <3> HIDE DEF id, base
      <3>3. \E c \in changes' \ changes : c.key = m.key /\ c.value = domain'[m.key]
        BY <2>1, <3>4, OneIsLogged
      <3> QED BY <3>2, <3>3 DEF TracksRows, Tracked
    <2>4. CASE domain' = domain
      BY <1>1, <2>4
    <2> QED BY <1>3, <2>2, <2>3, <2>4 DEF Push, PushDuplicate, PushDisputed, PushConflict
  <1>4. ASSUME NEW c \in conflicts, NEW verdict, NEW custom, ResolveConflict(c, verdict, custom)
        PROVE  TracksRows
    <2> DEFINE m == [id |-> <<"resolve", c.id>>, key |-> c.key,
                     base |-> entity[c.key].rev,
                     value |-> IF verdict = "client" THEN c.value ELSE custom]
    <2>1. m.key = c.key /\ c.key \in Keys
      BY InvParts DEF StoreTypeOK, Conflict
    <2>2. domain' = domain \/ ProjectAndRecord(m)
      BY <1>4 DEF ResolveConflict
    <2> HIDE DEF m
    <2> QED BY <1>1, <1>2, <2>1, <2>2
  <1>5. ASSUME NEW k \in Keys, NEW v \in Values, DesktopSave(k, v)
        PROVE  TracksRows
    <2>1. domain' = [domain EXCEPT ![k] = v] /\ Capture(k, {k}) /\ status' = status
      BY <1>5 DEF DesktopSave
    <2>2. \A l \in Keys : domain'[l] # domain[l] => l = k
      BY <2>1, InvParts DEF RestTypeOK
    <2>3. Enabled(k) => Tracked(k)
      BY <2>1, CapturedRows DEF Tracked
    <2>4. Enabled(k)' => Enabled(k)
      BY <2>1 DEF Enabled
    <2> QED BY <2>2, <2>3, <2>4 DEF TracksRows
  <1>6. ASSUME NEW k \in Keys, DesktopDelete(k)
        PROVE  TracksRows
    <2> DEFINE keys == {k} \cup ({j \in Keys : Owner[j] = k /\ domain[j] # None} \cap OrmOwned)
    <2>1. /\ keys \in SUBSET Keys /\ k \in keys
          /\ Capture(k, keys)
          /\ \A l \in Keys : domain'[l] # domain[l] =>
                /\ domain'[l] = None
                /\ ProjectOf[l] = ProjectOf[k]
                /\ l \in keys \/ (Unseen(l) /\ Owner[l] = k)
          /\ \A l \in keys : domain'[l] = None
      BY <1>6, DeletedRows
    <2>2. status' = status
      BY <1>6 DEF DesktopDelete
    <2> HIDE DEF keys
    <2>3. ASSUME NEW l \in Keys, Enabled(l) \/ Enabled(l)', domain'[l] # domain[l]
          PROVE  Tracked(l) \/ Removed(l)
      <3>1. Enabled(k)
        BY <2>1, <2>2, <2>3 DEF Enabled
      <3>2. \A i \in keys : \E j \in jobs' \ jobs : j.key = i /\ j.value = domain'[i]
        BY <2>1, <3>1, CapturedRows
      <3>3. CASE l \in keys
        BY <3>2, <3>3 DEF Tracked
      <3>4. CASE Unseen(l) /\ Owner[l] = k
        <4>1. k # l
          BY <3>4, GatewayAssumption DEF Unseen
        <4>2. k \in Above(l) \ {l}
          BY <3>4, <4>1 DEF Above, Unseen
        <4>3. \E j \in jobs' \ jobs : j.key = k /\ j.value = None
          BY <2>1, <3>2
        <4> QED BY <2>1, <2>3, <4>2, <4>3 DEF Removed
      <3> QED BY <2>1, <2>3, <3>3, <3>4
    <2> QED BY <2>3 DEF TracksRows
  <1>7. ASSUME NEW p \in Projects, DesktopDeleteWork(p)
        PROVE  TracksRows
    <2>1. /\ domain' = [k \in Keys |-> IF k \in WorkOf(p) THEN None ELSE domain[k]]
          /\ status' = [status EXCEPT ![p] = "absent"]
      BY <1>7 DEF DesktopDeleteWork, ForgetWork
    <2>2. PICK seen \in SUBSET WorkOf(p) :
             RootOf[p] \in seen /\ Outbox(IF status[p] = "enabled" THEN seen ELSE {})
      BY <1>7 DEF DesktopDeleteWork
    <2>3. ASSUME NEW l \in Keys, Enabled(l) \/ Enabled(l)', domain'[l] # domain[l]
          PROVE  Tracked(l) \/ Removed(l)
      <3>1. ProjectOf[l] = p /\ domain'[l] = None
        BY <2>1, <2>3 DEF WorkOf
      <3>2. status[p] = "enabled"
        BY <2>1, <2>3, <3>1, InvParts DEF Enabled, RestTypeOK
      <3>3. Outbox(seen) /\ seen \in SUBSET Keys
        BY <2>2, <3>2 DEF WorkOf
      <3>4. \A i \in seen : \E j \in jobs' \ jobs : j.key = i /\ j.value = domain'[i]
        BY <3>3, OutboxRows
      <3>5. CASE l \in seen
        BY <3>4, <3>5 DEF Tracked
      <3>6. CASE l \notin seen
        <4>1. RootOf[p] # l /\ domain'[RootOf[p]] = None
          BY <2>1, <2>2, <3>6 DEF WorkOf
        <4>2. RootOf[p] \in Above(l) \ {l}
          BY <3>1, <4>1 DEF Above
        <4>3. \E j \in jobs' \ jobs : j.key = RootOf[p] /\ j.value = None
          BY <2>2, <3>4, <4>1
        <4> QED BY <3>1, <4>2, <4>3 DEF Removed
      <3> QED BY <3>5, <3>6
    <2> QED BY <2>3 DEF TracksRows
  <1>8. ASSUME NEW p \in Projects, DesktopRestoreWork(p)
        PROVE  TracksRows
    <2>1. domain[RootOf[p]] = None
      BY <1>8 DEF DesktopRestoreWork
    <2>2. PICK e \in bin[p] :
             /\ domain' = [k \in Keys |-> IF k \in WorkOf(p) THEN e.rows[k] ELSE domain[k]]
             /\ status' = [status EXCEPT ![p] = e.status]
             /\ e.status = "enabled" => Outbox({k \in WorkOf(p) : e.rows[k] # None})
      BY <1>8 DEF DesktopRestoreWork
    <2> DEFINE back == {k \in WorkOf(p) : e.rows[k] # None}
    <2>3. ASSUME NEW l \in Keys, Enabled(l) \/ Enabled(l)', domain'[l] # domain[l]
          PROVE  Tracked(l)
      <3>1. ProjectOf[l] = p /\ domain'[l] = e.rows[l]
        BY <2>2, <2>3 DEF WorkOf
      <3>2. domain[l] = None /\ status[p] = "absent"
        BY <2>1, <3>1, InvParts DEF RootsStay
      <3>3. e.status = "enabled"
        BY <2>2, <2>3, <3>1, <3>2, InvParts DEF Enabled, RestTypeOK
      <3>4. Outbox(back) /\ back \in SUBSET Keys /\ l \in back
        BY <2>2, <2>3, <3>1, <3>2, <3>3 DEF WorkOf
      <3> HIDE DEF back
      <3> QED BY <3>4, OutboxRows DEF Tracked
    <2> QED BY <2>3 DEF TracksRows
  <1>9. CASE UNCHANGED vars
    BY <1>1, <1>9 DEF vars, gatewayVars
  <1>10. CASE \E p \in Projects : EnableProject(p) \/ DisableProject(p)
    BY <1>1, <1>10 DEF EnableProject, DisableProject
  <1>11. CASE \E j \in jobs : ProcessJob(j)
    BY <1>1, <1>11 DEF ProcessJob
  <1>12. CASE Logging
    BY <1>3, <1>4, <1>5, <1>6, <1>8, <1>9, <1>10, <1>11, <1>12 DEF Logging
  <1> QED BY <1>7, <1>12, NextIsLogging

(* No write to an enabled work, and no return of one, is invisible to the  *)
(* other devices: a row the database alone removes goes beside a job for   *)
(* the deletion of what it belongs to.                                     *)
THEOREM WritesAreTracked == Spec => EveryWriteTracked
  <1>1. GatewayIInv /\ [Next]_vars => [TracksRows]_vars
    BY NextTracksRows
  <1>2. TracksRows =>
           \A k \in Keys : (Enabled(k) \/ Enabled(k)') /\ domain'[k] # domain[k] =>
              \/ \E c \in changes' \ changes : c.key = k /\ c.value = domain'[k]
              \/ \E j \in jobs' \ jobs : j.key = k /\ j.value = domain'[k]
              \/ /\ domain'[k] = None
                 /\ \E j \in jobs' \ jobs : j.key \in Above(k) \ {k} /\ j.value = None
    BY DEF TracksRows, Tracked, Removed
  <1> QED BY <1>1, <1>2, GatewayIsSafe, PTL DEF Spec, EveryWriteTracked

----------------------------------------------------------------------------
(* The rows of a work that was never deleted.                              *)
Intact(k) == bin[ProjectOf[k]] = {}

(* The rows of a work that was ever put into synchronisation, or deleted.  *)
Began(k) == status[ProjectOf[k]] # "absent" \/ ~Intact(k)

(* Rows of works that stay, and stay in synchronisation, of which the      *)
(* session sees every deletion.                                            *)
Steady(k) == ProjectOf[k] \notin Retirable /\ ~Unseen(k) /\ Intact(k)

Waiting(k) == \E j \in jobs : j.key = k

(* A deletion of k reached the log, or waits to.                           *)
Deleted(k) == \/ \E c \in changes : c.key = k /\ c.value = None
              \/ \E j \in jobs : j.key = k /\ j.value = None

(* The sync tables know nothing of a work before it is put into them.      *)
NothingBefore ==
    \A k \in Keys : ~Began(k) =>
        /\ \A c \in changes : c.key # k
        /\ \A c \in conflicts : c.key # k
        /\ \A j \in jobs : j.key # k

(* Nor has the log seeded it.                                              *)
SeedsFollow ==
    \A k \in Keys, v \in Contents : <<"seed", k, v>> \in LogIds => Began(k)

StaysOn == \A p \in Projects \ Retirable : bin[p] = {} => status[p] # "disabled"

(* While jobs wait for a row it has a content, which the last of them will *)
(* take to the log; when none waits, the state is the row's content.       *)
RowMatches(k) ==
    Steady(k) /\ Enabled(k) /\ ~Deleted(k) =>
        IF Waiting(k) THEN domain[k] # None ELSE entity[k].value = domain[k]

MatchInv ==
    /\ NothingBefore
    /\ SeedsFollow
    /\ StaysOn
    /\ \A k \in Keys : RowMatches(k)

(* The states follow the rows a transaction adds to the log.               *)
LEMMA StatesFollow ==
    ASSUME [LogNext]_storeVars
    PROVE  /\ changes \subseteq changes'
           /\ \A c \in changes' : c \notin changes => entity'[c.key].value = c.value
           /\ \A k \in Keys : (\A c \in changes' : c \notin changes => c.key # k) =>
                 entity'[k] = entity[k]
  <1>2. CASE AppendChanges
    <2>1. /\ changes \subseteq changes'
          /\ \A c \in changes' \ changes :
                entity'[c.key] = [rev |-> c.rev, value |-> c.value]
      BY <1>2, Zenon DEF AppendChanges
    <2>2. \A k \in Keys : (\A c \in changes' \ changes : c.key # k) =>
             entity'[k] = entity[k] /\ tombstone'[k] = tombstone[k]
      BY <1>2, Zenon DEF AppendChanges
    <2>3. ASSUME NEW c \in changes', c \notin changes
          PROVE  entity'[c.key].value = c.value
      <3>1. entity'[c.key] = [rev |-> c.rev, value |-> c.value]
        BY <2>1, <2>3
      <3> QED BY <3>1
    <2>4. ASSUME NEW k \in Keys, \A c \in changes' : c \notin changes => c.key # k
          PROVE  entity'[k] = entity[k]
      BY <2>2, <2>4, Zenon
    <2> QED BY <2>1, <2>3, <2>4, Zenon
  <1>3. CASE UNCHANGED <<changes, entity>>
    BY <1>3
  <1> QED BY <1>2, <1>3 DEF LogNext, Dispute, Settle, storeVars

(* A row, its state, its changes and its jobs left alone stay in agreement. *)
LEMMA RowStays ==
    ASSUME NEW k \in Keys, RowMatches(k),
           entity'[k] = entity[k], domain'[k] = domain[k],
           status'[ProjectOf[k]] = status[ProjectOf[k]],
           bin'[ProjectOf[k]] = bin[ProjectOf[k]],
           \A c \in changes : c.key = k => c \in changes',
           \A j : j.key = k => (j \in jobs' <=> j \in jobs)
    PROVE  RowMatches(k)'
  <1>1. Steady(k)' <=> Steady(k)
    BY DEF Steady, Unseen, Intact
  <1>2. Enabled(k)' <=> Enabled(k)
    BY DEF Enabled
  <1>3. Waiting(k)' <=> Waiting(k)
    BY DEF Waiting
  <1>4. Deleted(k) => Deleted(k)'
    BY DEF Deleted
  <1> QED BY <1>1, <1>2, <1>3, <1>4 DEF RowMatches

(* The tables hold only rows of works in synchronisation, and what a       *)
(* transaction adds is of such works too.                                  *)
LEMMA NothingBeforeStays ==
    ASSUME NothingBefore,
           \A k \in Keys : Began(k) => Began(k)',
           \A c \in changes' : c \notin changes => Began(c.key)',
           \A j \in jobs' : j \notin jobs => Began(j.key)',
           \A c \in conflicts' : Began(c.key)' \/ \E d \in conflicts : d.key = c.key
    PROVE  NothingBefore'
  <1> SUFFICES ASSUME NEW k \in Keys, ~Began(k)'
               PROVE  /\ \A c \in changes' : c.key # k
                      /\ \A c \in conflicts' : c.key # k
                      /\ \A j \in jobs' : j.key # k
    BY DEF NothingBefore
  <1>1. /\ \A c \in changes : c.key # k
        /\ \A c \in conflicts : c.key # k
        /\ \A j \in jobs : j.key # k
    BY DEF NothingBefore
  <1> QED BY <1>1

(* A work that was not in synchronisation has no state either.             *)
LEMMA NoStateBefore ==
    ASSUME GatewayIInv, NothingBefore, NEW k \in Keys, ~Began(k)
    PROVE  entity[k].value = None /\ ~Waiting(k)
  <1>1. \A c \in changes : c.key # k
    BY DEF NothingBefore
  <1>2. ~Waiting(k)
    BY DEF NothingBefore, Waiting
  <1>3. StateIsLastChange
    BY InvParts DEF StoreIInv, StoreInv
  <1> QED BY <1>1, <1>2, <1>3 DEF StateIsLastChange

(* Only the domain and the log of works in synchronisation move: what the  *)
(* other parts of the invariant need.                                      *)
LEMMA SameStatus ==
    ASSUME MatchInv, UNCHANGED <<status, bin>>
    PROVE  /\ StaysOn'
           /\ \A k \in Keys : /\ Began(k)' <=> Began(k)
                              /\ Enabled(k)' <=> Enabled(k)
                              /\ Steady(k)' <=> Steady(k)
  BY DEF MatchInv, StaysOn, Began, Enabled, Steady, Unseen, Intact

(* A transaction that logs every row it moves, and nothing else, leaves    *)
(* the rows in agreement with their states.                                *)
LEMMA LoggedRowsMatch ==
    ASSUME MatchInv, [LogNext]_storeVars, UNCHANGED <<status, jobs, bin>>,
           \A c \in changes' : c \notin changes => c.value = domain'[c.key],
           \A k \in Keys : domain'[k] # domain[k] =>
               \E c \in changes' \ changes : c.key = k
    PROVE  \A k \in Keys : RowMatches(k)'
  <1> SUFFICES ASSUME NEW k \in Keys PROVE RowMatches(k)'
    OBVIOUS
  <1>1. CASE \E c \in changes' : c \notin changes /\ c.key = k
    <2>1. PICK c \in changes' : c \notin changes /\ c.key = k
      BY <1>1
    <2>2. c.value = domain'[k] /\ entity'[k].value = domain'[k]
      BY <2>1, StatesFollow
    <2>3. domain'[k] = None => Deleted(k)'
      BY <2>1, <2>2 DEF Deleted
    <2> QED BY <2>2, <2>3 DEF RowMatches
  <1>2. CASE \A c \in changes' : c \notin changes => c.key # k
    <2>1. domain'[k] = domain[k]
      BY <1>2
    <2>2. entity'[k] = entity[k] /\ changes \subseteq changes'
      BY <1>2, StatesFollow
    <2> QED BY <2>1, <2>2, RowStays DEF MatchInv
  <1> QED BY <1>1, <1>2

(* An authored mutation of a work in synchronisation.                      *)
LEMMA AuthoredKeepsMatch ==
    ASSUME GatewayIInv, MatchInv, [LogNext]_storeVars, NEW m,
           m.key \in Keys, m.value \in Contents,
           m.base = entity[m.key].rev,
           m.id \in Pushed \cup Resolutions, Fresh(m.id),
           Began(m.key),
           ProjectAndRecord(m),
           UNCHANGED <<status, jobs, bin>>,
           \A c \in conflicts' : \E d \in conflicts : d.key = c.key
    PROVE  MatchInv'
  <1>1. /\ \A k \in Keys : k = m.key \/ domain'[k] # domain[k] =>
              \E c \in changes' \ changes : c.key = k /\ c.value = domain'[k]
        /\ \A c \in changes' : c \notin changes =>
              c.value = domain'[c.key] /\ ProjectOf[c.key] = ProjectOf[m.key]
        /\ \A k \in Keys : ProjectOf[k] # ProjectOf[m.key] => domain'[k] = domain[k]
    BY ProjectionIsLogged
  <1>2. LogIds' \subseteq LogIds \cup {m.id} \cup {<<"effect", m.id, k>> : k \in Keys}
    BY ProjectAppends
  <1>3. /\ StaysOn'
        /\ \A k \in Keys : Began(k)' <=> Began(k)
    BY SameStatus
  <1>4. NothingBefore'
    <2>1. \A c \in changes' : c \notin changes => Began(c.key)'
      BY <1>1 DEF Began, Intact
    <2> QED BY <1>3, <2>1, NothingBeforeStays DEF MatchInv
  <1>5. SeedsFollow'
    <2>1. \A k \in Keys, v \in Contents :
             <<"seed", k, v>> \in LogIds' => <<"seed", k, v>> \in LogIds
      BY <1>2, Origins DEF Pushed, Resolutions
    <2> QED BY <1>3, <2>1 DEF MatchInv, SeedsFollow, Contents
  <1>7. \A k \in Keys : RowMatches(k)'
    BY <1>1, LoggedRowsMatch
  <1> QED BY <1>3, <1>4, <1>5, <1>7 DEF MatchInv

(* A transaction that changes neither rows, log, jobs nor statuses.        *)
LEMMA SameRowsMatch ==
    ASSUME MatchInv, UNCHANGED <<changes, entity, domain, status, jobs, bin>>,
           \A c \in conflicts' : Began(c.key) \/ \E d \in conflicts : d.key = c.key
    PROVE  MatchInv'
  <1>1. /\ StaysOn'
        /\ \A k : Began(k)' <=> Began(k)
    BY SameStatus DEF Began, Intact
  <1>2. NothingBefore'
    BY <1>1, NothingBeforeStays DEF MatchInv
  <1>3. SeedsFollow'
    BY <1>1 DEF MatchInv, SeedsFollow, LogIds, Contents
  <1>4. \A k \in Keys : RowMatches(k)'
    BY RowStays DEF MatchInv
  <1> QED BY <1>1, <1>2, <1>3, <1>4 DEF MatchInv

(* Every answer to a push leaves the rows in agreement with their states.  *)
LEMMA PushKeepsMatch ==
    ASSUME GatewayIInv, MatchInv, NEW m \in Mutation, Push(m)
    PROVE  MatchInv'
  <1>1. m.key \in Keys /\ m.value \in Contents /\ m.id \in Pushed
        /\ ProjectOf[m.key] \in Projects
    BY GatewayAssumption DEF Mutation, Pushed
  <1>6. [LogNext]_storeVars
    BY PushStep DEF LogStep
  <1>2. CASE UNCHANGED <<storeVars, domain, status, jobs, bin>>
    BY <1>2, SameRowsMatch DEF storeVars
  <1>3. CASE PushConflict(m)
    <2>1. Began(m.key)
      BY <1>3 DEF PushConflict, Enabled, Began
    <2>2. /\ conflicts' = conflicts \cup {Collision(m.id, m.key, m.base, m.value)}
          /\ UNCHANGED <<changes, entity, domain, status, jobs, bin>>
      BY <1>3 DEF PushConflict
    <2>3. Collision(m.id, m.key, m.base, m.value).key = m.key
      BY DEF Collision
    <2>4. \A c \in conflicts' : Began(c.key) \/ \E d \in conflicts : d.key = c.key
      BY <2>1, <2>2, <2>3
    <2> QED BY <2>2, <2>4, SameRowsMatch
  <1>4. CASE PushApplied(m)
    <2>1. Began(m.key)
      BY <1>4 DEF PushApplied, Enabled, Began
    <2>2. /\ Fresh(m.id) /\ m.base = entity[m.key].rev
          /\ ProjectAndRecord(m) /\ UNCHANGED <<conflicts, status, jobs, bin>>
      BY <1>4 DEF PushApplied
    <2> QED BY <1>1, <1>6, <2>1, <2>2, AuthoredKeepsMatch
  <1>5. CASE PushCreatesProject(m)
    <2> DEFINE q == ProjectOf[m.key]
    <2>1. /\ m.key = RootOf[q] /\ m.value # None /\ domain[m.key] = None
          /\ domain' = [domain EXCEPT ![m.key] = m.value]
          /\ status' = [status EXCEPT ![q] = "enabled"]
          /\ Record([k \in {m.key} |-> 1], [k \in {m.key} |-> m.id],
                    [k \in {m.key} |-> m.base], domain')
          /\ UNCHANGED <<conflicts, jobs, bin>>
      BY <1>5 DEF PushCreatesProject, IsRoot
    <2>2. /\ domain'[m.key] = m.value
          /\ \A k \in Keys \ {m.key} : domain'[k] = domain[k]
      BY <1>1, <2>1, InvParts DEF RestTypeOK
    <2>3. /\ status'[q] = "enabled"
          /\ \A p \in Projects \ {q} : status'[p] = status[p]
      BY <1>1, <2>1, InvParts DEF RestTypeOK
    <2>4. /\ \A c \in changes' : c \notin changes => c.key = m.key /\ c.value = m.value
          /\ entity'[m.key].value = m.value
          /\ \A k \in Keys \ {m.key} : entity'[k] = entity[k]
      <3>1. /\ \A c \in changes' : c \notin changes =>
                  c.key = m.key /\ c.value = domain'[m.key]
            /\ entity'[m.key].value = domain'[m.key]
            /\ \A k \in Keys \ {m.key} : entity'[k] = entity[k]
        <4> DEFINE id == [k \in {m.key} |-> m.id]
                   base == [k \in {m.key} |-> m.base]
        <4>1. Record([k \in {m.key} |-> 1], id, base, domain')
          BY <2>1
        <4> HIDE DEF id, base
        <4> QED BY <1>1, <4>1, OneIsLogged
      <3> QED BY <2>2, <3>1
    <2>5. LogIds' = LogIds \cup {m.id}
      <3>1. {m.key} \in SUBSET Keys
            /\ [k \in {m.key} |-> 1] \in Bijection({m.key}, 1 .. Cardinality({m.key}))
        BY <1>1, OnePosition
      <3>2. LogIds' = LogIds \cup {[k \in {m.key} |-> m.id][l] : l \in {m.key}}
        BY <2>1, <3>1, InvParts, RecordedIds
      <3> QED BY <3>2
    <2>6. \A k \in Keys : ProjectOf[k] \in Projects
      BY GatewayAssumption
    <2>7. ASSUME NEW k \in Keys, ProjectOf[k] = q, Intact(k)
          PROVE  domain[k] = None /\ entity[k].value = None /\ ~Waiting(k)
      <3>1. domain[k] = None /\ ~Began(k)
        BY <2>1, <2>7, InvParts DEF RootsStay, Began
      <3> QED BY <3>1, NoStateBefore DEF MatchInv
    <2> HIDE DEF q
    <2>8. \A k \in Keys : IF ProjectOf[k] = q THEN Began(k)' ELSE Began(k)' <=> Began(k)
      BY <2>1, <2>3, <2>6 DEF Began, Intact
    <2>9. NothingBefore'
      <3>1. \A c \in changes' : c \notin changes => Began(c.key)'
        BY <1>1, <2>4, <2>8 DEF q
      <3> QED BY <2>1, <2>8, <3>1, NothingBeforeStays DEF MatchInv
    <2>10. SeedsFollow'
      <3>1. \A k \in Keys, v \in Contents :
               <<"seed", k, v>> \in LogIds' => <<"seed", k, v>> \in LogIds
        BY <1>1, <2>5, Origins DEF Pushed
      <3> QED BY <2>8, <3>1 DEF MatchInv, SeedsFollow, Contents
    <2>12. StaysOn'
      BY <2>1, <2>3 DEF MatchInv, StaysOn
    <2>13. ASSUME NEW k \in Keys PROVE RowMatches(k)'
      <3>3. CASE ~Intact(k)
        BY <2>1, <3>3 DEF RowMatches, Steady, Intact
      <3>1. CASE ProjectOf[k] = q /\ Intact(k)
        <4>1. entity'[k].value = domain'[k]
          BY <2>2, <2>4, <2>7, <3>1
        <4>2. ~Waiting(k)'
          BY <2>1, <2>7, <3>1 DEF Waiting
        <4> QED BY <4>1, <4>2 DEF RowMatches
      <3>2. CASE ProjectOf[k] # q
        <4>1. k # m.key
          BY <3>2 DEF q
        <4>2. domain'[k] = domain[k] /\ entity'[k] = entity[k]
          BY <2>2, <2>4, <4>1
        <4>3. status'[ProjectOf[k]] = status[ProjectOf[k]] /\ changes \subseteq changes'
          BY <1>6, <2>3, <2>6, <3>2, StatesFollow
        <4> QED BY <2>1, <4>2, <4>3, RowStays DEF MatchInv
      <3> QED BY <3>1, <3>2, <3>3
    <2> QED BY <2>9, <2>10, <2>12, <2>13 DEF MatchInv
  <1> QED BY <1>2, <1>3, <1>4, <1>5
       DEF Push, PushDuplicate, PushDisputed

(* Settling a conflict, with or without a write.                           *)
LEMMA ResolveKeepsMatch ==
    ASSUME GatewayIInv, MatchInv,
           NEW c \in conflicts, NEW custom \in Contents,
           NEW verdict \in Verdicts \ {"open"},
           ResolveConflict(c, verdict, custom)
    PROVE  MatchInv'
  <1>1. c.key \in Keys /\ c.value \in Contents /\ c.id \in Pushed
    BY InvParts DEF StoreTypeOK, Conflict, ConflictsArePushed
  <1>7. [LogNext]_storeVars
    BY ResolveStep DEF LogStep
  <1>2. Began(c.key)
    BY <1>1 DEF MatchInv, NothingBefore
  <1>3. c.verdict = "open" /\ UNCHANGED <<status, jobs, bin>>
    BY DEF ResolveConflict
  <1>4. \A e \in conflicts' : \E d \in conflicts : d.key = e.key
    <2> DEFINE s == [c EXCEPT !.verdict = verdict]
    <2>1. conflicts' = (conflicts \ {c}) \cup {s} /\ s.key = c.key
      BY InvParts DEF ResolveConflict, Settled, StoreTypeOK, Conflict
    <2> HIDE DEF s
    <2> QED BY <2>1
  <1>5. CASE verdict = "server"
    BY <1>3, <1>4, <1>5, SameRowsMatch DEF ResolveConflict
  <1>6. CASE verdict # "server"
    <2> DEFINE m == [id |-> <<"resolve", c.id>>, key |-> c.key,
                     base |-> entity[c.key].rev,
                     value |-> IF verdict = "client" THEN c.value ELSE custom]
    <2>1. ProjectAndRecord(m)
      BY <1>6 DEF ResolveConflict
    <2>2. /\ m.key \in Keys /\ m.value \in Contents /\ m.base = entity[m.key].rev
          /\ Began(m.key)
      BY <1>1, <1>2
    <2>3. m.id \in Resolutions
      BY <1>1 DEF Resolutions
    <2>4. Fresh(m.id)
      <3>1. ~Logged(<<"resolve", c.id>>)
        <4>1. \A e \in conflicts : e.id = c.id => e = c
          BY InvParts DEF StoreIInv, StoreInv, MutationOnce
        <4> QED BY <1>1, <1>3, <4>1, InvParts DEF ResolvedIsSettled
      <3>2. <<"resolve", c.id>> \notin Pushed
        BY Origins DEF Pushed
      <3> QED BY <3>1, <3>2, NotPushedIsFresh, InvParts
    <2> HIDE DEF m
    <2> QED BY <1>3, <1>4, <1>7, <2>1, <2>2, <2>3, <2>4, AuthoredKeepsMatch
  <1> QED BY <1>5, <1>6

(* A work is put into synchronisation, for the first time or again.        *)
LEMMA EnableKeepsMatch ==
    ASSUME GatewayIInv, MatchInv, NEW p \in Projects, EnableProject(p)
    PROVE  MatchInv'
  <1> DEFINE seed(k) == <<"seed", k, domain[k]>>
             W == {k \in WorkOf(p) : entity[k].value # domain[k] /\ ~Logged(seed(k))}
             id == [k \in W |-> seed(k)]
  <1>1. /\ domain[RootOf[p]] # None
        /\ \E order \in Bijection(W, 1 .. Cardinality(W)) : Record(order, id, Current, domain)
        /\ status' = [status EXCEPT ![p] = "enabled"]
        /\ UNCHANGED <<conflicts, domain, jobs, bin>>
    BY DEF EnableProject
  <1>2. PICK order \in Bijection(W, 1 .. Cardinality(W)) : Record(order, id, Current, domain)
    BY <1>1
  <1>3. /\ W \in SUBSET Keys
        /\ \A k \in W : ProjectOf[k] = p /\ id[k] = <<"seed", k, domain[k]>>
        /\ \A k \in Keys \ W : ProjectOf[k] = p =>
              entity[k].value = domain[k] \/ <<"seed", k, domain[k]>> \in LogIds
    BY DEF Logged, LogIds, WorkOf
  <1> HIDE DEF W, id
  <1>14. [LogNext]_storeVars
    BY EnableStep DEF LogStep
  <1>4. /\ \A k \in W : LogRow(order, id, Current, domain, k) \in changes' \ changes
        /\ \A c \in changes' : c \notin changes =>
              \E k \in W : c = LogRow(order, id, Current, domain, k)
        /\ LogIds' = LogIds \cup {id[k] : k \in W}
    BY <1>2, <1>3, InvParts, RecordedAll, RecordedRows, RecordedIds
  <1>5. \A k : /\ LogRow(order, id, Current, domain, k).key = k
               /\ LogRow(order, id, Current, domain, k).value = domain[k]
    BY DEF LogRow
  <1>6. /\ \A k \in W : \E c \in changes' \ changes : c.key = k /\ c.value = domain[k]
        /\ \A c \in changes' : c \notin changes => c.key \in W /\ c.value = domain[c.key]
    BY <1>4, <1>5
  <1>7. /\ status'[p] = "enabled"
        /\ \A q \in Projects \ {p} : status'[q] = status[q]
        /\ \A k \in Keys : ProjectOf[k] \in Projects
    BY <1>1, InvParts, GatewayAssumption DEF RestTypeOK
  <1>8. \A k \in Keys : IF ProjectOf[k] = p THEN Began(k)' ELSE Began(k)' <=> Began(k)
    BY <1>1, <1>7 DEF Began, Intact
  <1>9. NothingBefore'
    <2>1. \A c \in changes' : c \notin changes => Began(c.key)'
      BY <1>3, <1>6, <1>8
    <2> QED BY <1>1, <1>8, <2>1, NothingBeforeStays DEF MatchInv
  <1>10. SeedsFollow'
    <2> SUFFICES ASSUME NEW k \in Keys, NEW v \in Contents, <<"seed", k, v>> \in LogIds'
                 PROVE  Began(k)'
      BY DEF SeedsFollow, Contents
    <2>1. <<"seed", k, v>> \in LogIds \/ k \in W
      BY <1>3, <1>4
    <2> QED BY <1>3, <1>8, <2>1 DEF MatchInv, SeedsFollow
  <1>12. StaysOn'
    BY <1>1, <1>7 DEF MatchInv, StaysOn
  <1>13. ASSUME NEW k \in Keys PROVE RowMatches(k)'
    <2>1. CASE k \in W
      <3>1. PICK c \in changes' \ changes : c.key = k /\ c.value = domain[k]
        BY <1>6, <2>1
      <3>2. entity'[k].value = domain'[k]
        BY <1>1, <1>14, <3>1, StatesFollow
      <3>3. domain'[k] = None => Deleted(k)'
        BY <1>1, <3>1 DEF Deleted
      <3> QED BY <3>2, <3>3 DEF RowMatches
    <2>2. CASE k \notin W
      <3>1. entity'[k] = entity[k] /\ changes \subseteq changes' /\ domain'[k] = domain[k]
        BY <1>1, <1>6, <1>14, <2>2, StatesFollow
      <3>2. CASE status'[ProjectOf[k]] = status[ProjectOf[k]]
        BY <1>1, <3>1, <3>2, RowStays DEF MatchInv
      <3>3. CASE status'[ProjectOf[k]] # status[ProjectOf[k]]
        <4>1. ProjectOf[k] = p /\ status[p] # "enabled"
          BY <1>7, <3>3
        <4>2. status[p] # "disabled" /\ Intact(k) => ~Began(k)
          BY <4>1, InvParts DEF RestTypeOK, Began, Status
        <4>3. status[p] = "disabled" \/ ~Intact(k) => ~Steady(k)'
          BY <1>1, <4>1 DEF MatchInv, StaysOn, Steady, Intact
        <4>4. ASSUME ~Began(k)
              PROVE  entity'[k].value = domain'[k] /\ ~Waiting(k)'
          <5>1. domain[k] \in Contents
            BY InvParts DEF RestTypeOK
          <5>2. <<"seed", k, domain[k]>> \notin LogIds
            BY <4>4, <5>1 DEF MatchInv, SeedsFollow
          <5>3. ~Waiting(k)
            BY <4>4, NoStateBefore DEF MatchInv
          <5> QED BY <1>1, <1>3, <2>2, <3>1, <4>1, <5>2, <5>3 DEF Waiting
        <4> QED BY <4>2, <4>3, <4>4 DEF RowMatches
      <3> QED BY <3>2, <3>3
    <2> QED BY <2>1, <2>2
  <1> QED BY <1>9, <1>10, <1>12, <1>13 DEF MatchInv

(* A work is taken out of synchronisation.                                 *)
LEMMA DisableKeepsMatch ==
    ASSUME GatewayIInv, MatchInv, NEW p \in Projects, DisableProject(p)
    PROVE  MatchInv'
  <1>1. /\ p \in Retirable /\ status[p] # "absent"
        /\ status' = [status EXCEPT ![p] = "disabled"]
        /\ UNCHANGED <<changes, entity, conflicts, domain, jobs, bin>>
    BY DEF DisableProject, storeVars
  <1>2. /\ status'[p] = "disabled"
        /\ \A q \in Projects \ {p} : status'[q] = status[q]
        /\ \A k \in Keys : ProjectOf[k] \in Projects
    BY <1>1, InvParts, GatewayAssumption DEF RestTypeOK
  <1>3. \A k \in Keys : Began(k)' <=> Began(k)
    BY <1>1, <1>2 DEF Began, Intact
  <1>4. NothingBefore'
    BY <1>1, <1>3 DEF MatchInv, NothingBefore
  <1>5. SeedsFollow'
    BY <1>1, <1>3 DEF MatchInv, SeedsFollow, LogIds, Contents
  <1>6. StaysOn'
    BY <1>1, <1>2 DEF MatchInv, StaysOn
  <1>7. ASSUME NEW k \in Keys PROVE RowMatches(k)'
    <2>1. CASE ProjectOf[k] = p
      BY <1>1, <2>1 DEF RowMatches, Steady
    <2>2. CASE ProjectOf[k] # p
      BY <1>1, <1>2, <2>2, RowStays DEF MatchInv
    <2> QED BY <2>1, <2>2
  <1> QED BY <1>4, <1>5, <1>6, <1>7 DEF MatchInv

(* A desktop transaction that leaves a job for each row of an enabled work *)
(* it moves, the unseen ones apart.                                        *)
LEMMA CaptureKeepsMatch ==
    ASSUME GatewayIInv, MatchInv,
           UNCHANGED <<storeVars, status, bin>>,
           NEW k \in Keys, NEW keys \in SUBSET Keys, Capture(k, keys),
           \A l \in keys : ProjectOf[l] = ProjectOf[k],
           \A l \in Keys : domain'[l] # domain[l] =>
               /\ ProjectOf[l] = ProjectOf[k]
               /\ l \in keys \/ Unseen(l)
    PROVE  MatchInv'
  <1>1. /\ changes' = changes /\ entity' = entity /\ conflicts' = conflicts
        /\ LogIds' = LogIds
    BY DEF storeVars, LogIds
  <1>2. /\ StaysOn'
        /\ \A l \in Keys : /\ Began(l)' <=> Began(l)
                           /\ Enabled(l)' <=> Enabled(l)
                           /\ Steady(l)' <=> Steady(l)
    BY SameStatus
  <1>3. \A i \in jobs' : i \notin jobs => Enabled(k) /\ i.key \in keys /\ i.value = domain'[i.key]
    BY CapturedRows DEF Capture, Outbox
  <1>4. jobs \subseteq jobs' /\ (~Enabled(k) => jobs' = jobs)
    BY DEF Capture, Outbox
  <1>5. \A l \in keys : Enabled(k) => \E i \in jobs' : i.key = l /\ i.value = domain'[l]
    BY CapturedRows
  <1>6. NothingBefore'
    <2>1. \A l \in Keys : Enabled(k) /\ ProjectOf[l] = ProjectOf[k] => Began(l)'
      BY <1>2 DEF Enabled, Began
    <2>2. \A i \in jobs' : i \notin jobs => Began(i.key)'
      BY <1>3, <2>1
    <2> QED BY <1>1, <1>2, <2>2, NothingBeforeStays DEF MatchInv
  <1>7. SeedsFollow'
    BY <1>1, <1>2 DEF MatchInv, SeedsFollow, Contents
  <1>9. ASSUME NEW l \in Keys PROVE RowMatches(l)'
    <2>1. CASE l \in keys /\ Enabled(k)
      <3>1. PICK i \in jobs' : i.key = l /\ i.value = domain'[l]
        BY <1>5, <2>1
      <3>2. Waiting(l)' /\ (domain'[l] = None => Deleted(l)')
        BY <3>1 DEF Waiting, Deleted
      <3> QED BY <3>2 DEF RowMatches
    <2>2. CASE Unseen(l)
      BY <1>2, <2>2 DEF RowMatches, Steady
    <2>3. CASE ~Enabled(k) /\ ProjectOf[l] = ProjectOf[k]
      <3>1. ~Enabled(l)
        BY <2>3 DEF Enabled
      <3> QED BY <1>2, <3>1 DEF RowMatches
    <2>4. CASE /\ ~(l \in keys /\ Enabled(k)) /\ ~Unseen(l)
               /\ ~(~Enabled(k) /\ ProjectOf[l] = ProjectOf[k])
      <3>1. domain'[l] = domain[l]
        BY <2>4
      <3>2. \A i : i.key = l => (i \in jobs' <=> i \in jobs)
        BY <1>3, <1>4, <2>4
      <3> QED BY <1>1, <3>1, <3>2, RowStays DEF MatchInv
    <2> QED BY <2>1, <2>2, <2>3, <2>4
  <1> QED BY <1>2, <1>6, <1>7, <1>9 DEF MatchInv

(* The desktop saves a row, or deletes one with what it owns.              *)
LEMMA DesktopKeepsMatch ==
    ASSUME GatewayIInv, MatchInv, NEW k \in Keys,
           DesktopDelete(k) \/ \E v \in Values : DesktopSave(k, v)
    PROVE  MatchInv'
  <1>1. ASSUME NEW v \in Values, DesktopSave(k, v) PROVE MatchInv'
    <2>1. /\ UNCHANGED <<storeVars, status, bin>> /\ Capture(k, {k})
          /\ domain' = [domain EXCEPT ![k] = v]
      BY <1>1 DEF DesktopSave
    <2>2. \A l \in Keys : domain'[l] # domain[l] => l = k
      BY <2>1, InvParts DEF RestTypeOK
    <2> QED BY <2>1, <2>2, CaptureKeepsMatch
  <1>2. ASSUME DesktopDelete(k) PROVE MatchInv'
    <2> DEFINE keys == {k} \cup ({j \in Keys : Owner[j] = k /\ domain[j] # None} \cap OrmOwned)
    <2>1. /\ keys \in SUBSET Keys /\ Capture(k, keys)
          /\ \A l \in Keys : domain'[l] # domain[l] =>
                /\ ProjectOf[l] = ProjectOf[k]
                /\ l \in keys \/ Unseen(l)
          /\ \A l \in keys : ProjectOf[l] = ProjectOf[k]
      BY <1>2, DeletedRows
    <2>2. UNCHANGED <<storeVars, status, bin>>
      BY <1>2 DEF DesktopDelete
    <2> HIDE DEF keys
    <2> QED BY <2>1, <2>2, CaptureKeepsMatch
  <1> QED BY <1>1, <1>2

(* A work deleted or restored no longer counts, and the others stay as     *)
(* they are.                                                               *)
LEMMA OtherWorksMatch ==
    ASSUME MatchInv, NEW p \in Projects, bin'[p] # {},
           \A q \in Projects \ {p} : status'[q] = status[q] /\ bin'[q] = bin[q],
           \A k \in Keys : ProjectOf[k] # p => domain'[k] = domain[k] /\ entity'[k] = entity[k],
           \A c \in changes' : c \in changes,
           \A c \in changes : c.key \in Keys /\ (ProjectOf[c.key] # p => c \in changes'),
           \A c \in conflicts' : c \in conflicts,
           jobs \subseteq jobs',
           \A j \in jobs' : j \notin jobs => j.key \in Keys /\ ProjectOf[j.key] = p
    PROVE  MatchInv'
  <1>1. \A k \in Keys : ProjectOf[k] \in Projects
    BY GatewayAssumption
  <1>2. \A k \in Keys : IF ProjectOf[k] = p THEN Began(k)' ELSE Began(k)' <=> Began(k)
    BY <1>1 DEF Began, Intact
  <1>3. NothingBefore'
    BY <1>2, NothingBeforeStays DEF MatchInv
  <1>4. SeedsFollow'
    <2>1. \A x \in LogIds' : x \in LogIds
      BY DEF LogIds
    <2> QED BY <1>2, <2>1 DEF MatchInv, SeedsFollow, Contents
  <1>5. StaysOn'
    BY DEF MatchInv, StaysOn
  <1>6. ASSUME NEW k \in Keys PROVE RowMatches(k)'
    <2>1. CASE ProjectOf[k] = p
      BY <2>1 DEF RowMatches, Steady, Intact
    <2>2. CASE ProjectOf[k] # p
      <3>1. \A j : j.key = k => (j \in jobs' <=> j \in jobs)
        BY <2>2
      <3>2. \A c \in changes : c.key = k => c \in changes'
        BY <2>2
      <3> QED BY <1>1, <2>2, <3>1, <3>2, RowStays DEF MatchInv
    <2> QED BY <2>1, <2>2
  <1> QED BY <1>3, <1>4, <1>5, <1>6 DEF MatchInv

(* The desktop deletes a work.                                             *)
LEMMA DeleteWorkKeepsMatch ==
    ASSUME GatewayIInv, MatchInv, NEW p \in Projects, DesktopDeleteWork(p)
    PROVE  MatchInv'
  <1>1. PICK seen \in SUBSET WorkOf(p) : Outbox(IF status[p] = "enabled" THEN seen ELSE {})
    BY DEF DesktopDeleteWork
  <1>2. PICK entry : bin' = [bin EXCEPT ![p] = {entry}]
    BY DEF DesktopDeleteWork
  <1>3. /\ bin'[p] # {}
        /\ \A q \in Projects \ {p} : bin'[q] = bin[q]
    BY <1>2, InvParts DEF BinTyped
  <1>4. \A q \in Projects \ {p} : status'[q] = status[q]
    BY InvParts DEF DesktopDeleteWork, ForgetWork, RestTypeOK
  <1>5. /\ domain' = [k \in Keys |-> IF k \in WorkOf(p) THEN None ELSE domain[k]]
        /\ changes' = {c \in changes : c.key \notin WorkOf(p)}
        /\ conflicts' = {c \in conflicts : c.key \notin WorkOf(p)}
        /\ entity' = [k \in Keys |-> IF k \in WorkOf(p) THEN [rev |-> 0, value |-> None]
                                     ELSE entity[k]]
    BY DEF DesktopDeleteWork, ForgetWork, Forget
  <1>6. /\ jobs \subseteq jobs'
        /\ \A j \in jobs' : j \notin jobs => j.key \in WorkOf(p)
    <2> DEFINE keys == IF status[p] = "enabled" THEN seen ELSE {}
    <2>1. keys \in SUBSET Keys /\ keys \subseteq WorkOf(p) /\ Outbox(keys)
      BY <1>1 DEF WorkOf
    <2> HIDE DEF keys
    <2> QED BY <2>1, OutboxRows
  <1>7. \A c \in changes : c.key \in Keys
    BY InvParts, OldRow
  <1>8. \A k \in Keys : k \in WorkOf(p) <=> ProjectOf[k] = p
    BY DEF WorkOf
  <1>9. WorkOf(p) \subseteq Keys
    BY DEF WorkOf
  <1> QED BY <1>3, <1>4, <1>5, <1>6, <1>7, <1>8, <1>9, OtherWorksMatch

(* The desktop restores a work.                                            *)
LEMMA RestoreWorkKeepsMatch ==
    ASSUME GatewayIInv, MatchInv, NEW p \in Projects, DesktopRestoreWork(p)
    PROVE  MatchInv'
  <1>1. PICK e \in bin[p] :
           /\ domain' = [k \in Keys |-> IF k \in WorkOf(p) THEN e.rows[k] ELSE domain[k]]
           /\ status' = [status EXCEPT ![p] = e.status]
           /\ \/ Outbox({k \in WorkOf(p) : e.rows[k] # None})
              \/ UNCHANGED <<jobs, jobSeq>>
    BY DEF DesktopRestoreWork
  <1>2. /\ changes' = changes /\ conflicts' = conflicts /\ entity' = entity /\ bin' = bin
    BY DEF DesktopRestoreWork, storeVars
  <1>3. \A q \in Projects \ {p} : status'[q] = status[q]
    BY <1>1, InvParts DEF RestTypeOK
  <1>4. \A k \in Keys : k \in WorkOf(p) <=> ProjectOf[k] = p
    BY DEF WorkOf
  <1>5. /\ jobs \subseteq jobs'
        /\ \A j \in jobs' : j \notin jobs => j.key \in WorkOf(p)
    <2> DEFINE back == {k \in WorkOf(p) : e.rows[k] # None}
    <2>1. back \in SUBSET Keys /\ back \subseteq WorkOf(p)
      BY DEF WorkOf
    <2>2. Outbox(back) \/ UNCHANGED <<jobs, jobSeq>>
      BY <1>1
    <2> HIDE DEF back
    <2> QED BY <2>1, <2>2, OutboxRows
  <1>6. \A c \in changes : c.key \in Keys
    BY InvParts, OldRow
  <1>7. WorkOf(p) \subseteq Keys
    BY DEF WorkOf
  <1>8. \A k \in Keys : ProjectOf[k] # p => domain'[k] = domain[k]
    BY <1>1, <1>4
  <1> QED BY <1>2, <1>3, <1>4, <1>5, <1>6, <1>7, <1>8, OtherWorksMatch

(* A job reaches the log, after any other and however late.                *)
LEMMA JobKeepsMatch ==
    ASSUME GatewayIInv, MatchInv, NEW j \in jobs, ProcessJob(j)
    PROVE  MatchInv'
  <1>1. j.key \in Keys
    BY InvParts DEF RestTypeOK, Job
  <1>2. /\ Record([k \in {j.key} |-> 1], [k \in {j.key} |-> <<"server", j.n, j.key>>],
                  Current, [k \in {j.key} |-> Captured(j)])
        /\ UNCHANGED <<conflicts, domain, status, bin>>
        /\ jobs' = jobs \ {j}
    BY DEF ProcessJob, Completed
  <1>3. /\ \A c \in changes' : c \notin changes => c.key = j.key /\ c.value = Captured(j)
        /\ \E c \in changes' : c.key = j.key /\ c.value = Captured(j)
        /\ entity'[j.key].value = Captured(j)
        /\ \A k \in Keys \ {j.key} : entity'[k] = entity[k]
    <2> DEFINE id == [k \in {j.key} |-> <<"server", j.n, j.key>>]
               value == [k \in {j.key} |-> Captured(j)]
    <2>1. Record([k \in {j.key} |-> 1], id, Current, value) /\ value[j.key] = Captured(j)
      BY <1>2
    <2> HIDE DEF id, value
    <2> QED BY <1>1, <2>1, OneIsLogged
  <1>4. LogIds' = LogIds \cup {<<"server", j.n, j.key>>}
    <2>1. {j.key} \in SUBSET Keys
          /\ [k \in {j.key} |-> 1] \in Bijection({j.key}, 1 .. Cardinality({j.key}))
      BY <1>1, OnePosition
    <2>2. LogIds' = LogIds \cup {[k \in {j.key} |-> <<"server", j.n, j.key>>][l] : l \in {j.key}}
      BY <1>2, <2>1, InvParts, RecordedIds
    <2> QED BY <2>2
  <1>5. /\ StaysOn'
        /\ \A k \in Keys : /\ Began(k)' <=> Began(k)
                           /\ Enabled(k)' <=> Enabled(k)
                           /\ Steady(k)' <=> Steady(k)
    BY <1>2, SameStatus
  <1>6. NothingBefore'
    <2>1. Began(j.key)'
      BY <1>1, <1>5 DEF MatchInv, NothingBefore
    <2> QED BY <1>2, <1>3, <1>5, <2>1, NothingBeforeStays DEF MatchInv
  <1>7. SeedsFollow'
    <2>1. \A k \in Keys, v \in Contents :
             <<"seed", k, v>> \in LogIds' => <<"seed", k, v>> \in LogIds
      BY <1>4, Origins
    <2> QED BY <1>5, <2>1 DEF MatchInv, SeedsFollow, Contents
  <1>9. changes \subseteq changes'
    BY ProcessJobStep, StatesFollow DEF LogStep
  <1>10. ASSUME NEW k \in Keys, k # j.key PROVE RowMatches(k)'
    <2>1. \A i : i.key = k => (i \in jobs' <=> i \in jobs)
      BY <1>2, <1>10
    <2> QED BY <1>2, <1>3, <1>9, <1>10, <2>1, RowStays DEF MatchInv
  <1>11. RowMatches(j.key)'
    <2> SUFFICES ASSUME Steady(j.key)', Enabled(j.key)', ~Deleted(j.key)'
                 PROVE  IF Waiting(j.key)' THEN domain'[j.key] # None
                        ELSE entity'[j.key].value = domain'[j.key]
      BY DEF RowMatches
    <2>1. Captured(j) # None
      BY <1>3 DEF Deleted
    <2>2. j.value # None
      BY <2>1 DEF Captured
    <2>3. ~Deleted(j.key)
      BY <1>2, <1>9, <2>2 DEF Deleted
    <2>4. Waiting(j.key)
      BY DEF Waiting
    <2>5. domain[j.key] # None
      BY <1>1, <1>5, <2>3, <2>4 DEF MatchInv, RowMatches
    <2>6. Captured(j) = domain[j.key]
      BY <2>2, <2>5 DEF Captured
    <2> QED BY <1>2, <1>3, <2>5, <2>6
  <1> QED BY <1>5, <1>6, <1>7, <1>10, <1>11 DEF MatchInv

(* Before anything runs the tables are empty.                              *)
LEMMA InitMatches == Init => MatchInv
  <1> SUFFICES ASSUME Init PROVE MatchInv
    OBVIOUS
  <1>1. NothingBefore /\ SeedsFollow
    BY DEF Init, StoreInit, NothingBefore, SeedsFollow, LogIds
  <1>2. \A k \in Keys : ProjectOf[k] \in Projects /\ RootOf[ProjectOf[k]] \in Keys
    BY GatewayAssumption
  <1>3. StaysOn
    BY DEF Init, StaysOn
  <1>4. \A k \in Keys : RowMatches(k)
    BY <1>2 DEF Init, StoreInit, RowMatches, Enabled
  <1> QED BY <1>1, <1>3, <1>4 DEF MatchInv

LEMMA NextKeepsMatch ==
    ASSUME GatewayIInv, MatchInv, [Next]_vars
    PROVE  MatchInv'
  <1>1. CASE \E m \in Mutation : Push(m)
    BY <1>1, PushKeepsMatch
  <1>2. CASE \E c \in conflicts, verdict \in {"server", "client"} :
                ResolveConflict(c, verdict, None)
    BY <1>2, ResolveKeepsMatch DEF Verdicts, Contents
  <1>3. CASE \E c \in conflicts, v \in Contents : ResolveConflict(c, "custom", v)
    BY <1>3, ResolveKeepsMatch DEF Verdicts
  <1>4. CASE \E p \in Projects : EnableProject(p) \/ DisableProject(p)
    BY <1>4, EnableKeepsMatch, DisableKeepsMatch
  <1>5. CASE \E k \in Keys : DesktopDelete(k) \/ \E v \in Values : DesktopSave(k, v)
    BY <1>5, DesktopKeepsMatch
  <1>6. CASE \E j \in jobs : ProcessJob(j)
    BY <1>6, JobKeepsMatch
  <1>7. CASE UNCHANGED vars
    BY <1>7, SameRowsMatch DEF vars, storeVars, gatewayVars
  <1>8. CASE \E p \in Projects : DesktopDeleteWork(p) \/ DesktopRestoreWork(p)
    BY <1>8, DeleteWorkKeepsMatch, RestoreWorkKeepsMatch
  <1> QED BY <1>1, <1>2, <1>3, <1>4, <1>5, <1>6, <1>7, <1>8, Zenon DEF Next

(* A row of a work that stays, in synchronisation, all of whose deletions  *)
(* the session sees, agrees with its state once its jobs have run, in any  *)
(* order, unless a deletion of it ever reached the log or waits to.        *)
THEOREM SteadyRowsMatch == Spec => []MatchInv
  BY InitMatches, NextKeepsMatch, GatewayIsSafe, PTL DEF Spec

(* Where no work leaves synchronisation and the session sees every         *)
(* cascade, that is every row.                                             *)
THEOREM SettledRowsMatchHolds ==
    SeesCascades /\ Retirable = {} /\ Spec => []SettledRowsMatch
  <1>1. SeesCascades /\ Retirable = {} /\ MatchInv => SettledRowsMatch
    <2> SUFFICES ASSUME SeesCascades, Retirable = {}, MatchInv,
                        NEW k \in Keys, Enabled(k), bin[ProjectOf[k]] = {},
                        \A j \in jobs : j.key # k,
                        \A c \in changes : c.key = k => c.value # None
                 PROVE  entity[k].value = domain[k]
      BY DEF SettledRowsMatch
    <2>1. Steady(k)
      BY DEF Steady, SeesCascades, Intact
    <2>2. ~Waiting(k) /\ ~Deleted(k)
      BY DEF Waiting, Deleted
    <2> QED BY <2>1, <2>2 DEF MatchInv, RowMatches
  <1>2. SeesCascades /\ Retirable = {} => (SeesCascades /\ Retirable = {})'
    BY DEF SeesCascades, Unseen
  <1> QED BY <1>1, <1>2, SteadyRowsMatch, PTL
=============================================================================
