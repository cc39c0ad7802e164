-------------------------- MODULE ChangeFeedProofs --------------------------
(***************************************************************************)
(* Proofs about ChangeFeed: stored JSON stays valid, patches that nothing  *)
(* overtakes keep what they do not name, and a replica is up to date.      *)
(***************************************************************************)
EXTENDS ChangeFeed, FiniteSetTheorems, TLAPS

-----------------------------------------------------------------------------
(* Rows and patches have the sorts that their ids ask for. *)

Names == {"type", "alias", "components", "state", "sightings_object_id"}

LEMMA EntitySort == ASSUME NEW id \in Entities PROVE Row(id) = EntityRow
  BY KindsAssumption DEF Row

LEMMA ObservationSort == ASSUME NEW id \in Observations PROVE Row(id) = ObservationRow
  BY KindsAssumption DEF Row

LEMMA ObjectSort == ASSUME NEW id \in Objects PROVE Row(id) = ObjectRow
  BY KindsAssumption DEF Row

\* What a patch changes, it names.
LEMMA PatchedNamed ==
  ASSUME NEW old, NEW patch, NEW f \in DOMAIN old, Patched(old, patch)[f] # old[f]
  PROVE  f \in NamedBy(patch)
  BY DEF Patched, NamedBy

LEMMA PatchedEntity ==
  ASSUME NEW old \in EntityRow, NEW patch \in EntityPatch
  PROVE  Patched(old, patch) \in EntityRow /\ NamedBy(patch) \subseteq Names
<1>1. patch \in [alias : Aliases \cup {Keep},
                 components : (SUBSET ComponentNames) \cup {Absent, Keep}]
  BY DEF EntityPatch, Short
<1>2. DOMAIN old = {"type", "alias", "components"}
  BY DEF EntityRow
<1>3. DOMAIN patch = {"alias", "components"}
  BY <1>1
<1>4. Patched(old, patch) =
        [type |-> old.type,
         alias |-> IF patch.alias # Keep THEN patch.alias ELSE old.alias,
         components |-> IF patch.components # Keep THEN patch.components ELSE old.components]
  BY <1>2, <1>3 DEF Patched, EntityRow
<1>5. Patched(old, patch) \in EntityRow
  BY <1>1, <1>4 DEF EntityRow
<1>6. NamedBy(patch) \subseteq DOMAIN patch
  BY DEF NamedBy
<1> QED BY <1>3, <1>5, <1>6, SMT DEF Names

LEMMA PatchedObservation ==
  ASSUME NEW old \in ObservationRow, NEW patch \in ObservationPatch
  PROVE  Patched(old, patch) \in ObservationRow /\ NamedBy(patch) \subseteq Names
<1>1. patch \in [state : States \cup {Keep},
                 sightings_object_id : Objects \cup {Absent, Keep}]
  BY DEF ObservationPatch, Short
<1>2. DOMAIN old = {"state", "sightings_object_id"}
  BY DEF ObservationRow
<1>3. DOMAIN patch = {"state", "sightings_object_id"}
  BY <1>1
<1>4. Patched(old, patch) =
        [state |-> IF patch.state # Keep THEN patch.state ELSE old.state,
         sightings_object_id |-> IF patch.sightings_object_id # Keep
                                   THEN patch.sightings_object_id
                                   ELSE old.sightings_object_id]
  BY <1>2, <1>3 DEF Patched, ObservationRow
<1>5. Patched(old, patch) \in ObservationRow
  BY <1>1, <1>4 DEF ObservationRow
<1>6. NamedBy(patch) \subseteq DOMAIN patch
  BY DEF NamedBy
<1> QED BY <1>3, <1>5, <1>6, SMT DEF Names

LEMMA PatchedObject ==
  ASSUME NEW old \in ObjectRow, NEW patch \in ObjectPatch
  PROVE  Patched(old, patch) \in ObjectRow /\ NamedBy(patch) \subseteq Names
<1>1. patch \in [type : ObjectTypes \cup {Keep}]
  BY DEF ObjectPatch, Short
<1>2. DOMAIN old = {"type", "owner"}
  BY DEF ObjectRow
<1>3. DOMAIN patch = {"type"}
  BY <1>1
<1>4. Patched(old, patch) =
        [type |-> IF patch.type # Keep THEN patch.type ELSE old.type, owner |-> old.owner]
  BY <1>2, <1>3 DEF Patched, ObjectRow
<1>5. Patched(old, patch) \in ObjectRow
  BY <1>1, <1>4 DEF ObjectRow
<1>6. NamedBy(patch) \subseteq DOMAIN patch
  BY DEF NamedBy
<1> QED BY <1>3, <1>5, <1>6, SMT DEF Names

\* An UPDATE leaves a row of the same sort.
LEMMA UpdatedSort ==
  ASSUME NEW id \in Records, NEW old \in Row(id), NEW next \in Row(id)
  PROVE  Updated(old, next) \in Row(id)
<1>1. CASE id \in Entities
  <2>1. old \in EntityRow /\ next \in EntityRow
    BY <1>1, EntitySort
  <2>2. DOMAIN old = {"type", "alias", "components"}
    BY <2>1 DEF EntityRow
  <2>3. Updated(old, next) =
          [type |-> old.type, alias |-> next.alias, components |-> next.components]
    BY <2>1, <2>2 DEF Updated, EntityRow
  <2> QED BY <1>1, <2>1, <2>3, EntitySort DEF EntityRow
<1>2. CASE id \in Observations
  <2>1. old \in ObservationRow /\ next \in ObservationRow
    BY <1>2, ObservationSort
  <2>2. DOMAIN old = {"state", "sightings_object_id"}
    BY <2>1 DEF ObservationRow
  <2>3. Updated(old, next) =
          [state |-> next.state, sightings_object_id |-> next.sightings_object_id]
    BY <2>1, <2>2 DEF Updated, ObservationRow
  <2> QED BY <1>2, <2>1, <2>3, ObservationSort DEF ObservationRow
<1>3. CASE id \in Objects
  <2>1. old \in ObjectRow /\ next \in ObjectRow
    BY <1>3, ObjectSort
  <2>2. DOMAIN old = {"type", "owner"}
    BY <2>1 DEF ObjectRow
  <2>3. Updated(old, next) = [type |-> next.type, owner |-> old.owner]
    BY <2>1, <2>2 DEF Updated, ObjectRow
  <2> QED BY <1>3, <2>1, <2>3, ObjectSort DEF ObjectRow
<1> QED BY <1>1, <1>2, <1>3 DEF Records

-----------------------------------------------------------------------------
(* What clients see. *)

\* A view lists files of the object and counts them.
LEMMA ViewSort ==
  ASSUME NEW object \in ObjectRow, NEW sizes \in [FileIds -> 0..MaxSize],
         NEW named \in SUBSET FileIds
  PROVE  ObjectView(object, sizes, named) \in ObjectViews
<1>1. FilesAt(sizes) \subseteq FileIds
  BY DEF FilesAt
<1>2. /\ Cardinality(FilesAt(sizes)) \in Nat
      /\ Cardinality(FilesAt(sizes)) <= Cardinality(FileIds)
      /\ Cardinality(FileIds) \in Nat
  BY <1>1, FS_Subset, FS_CardinalityType, BoundsAssumption
<1>3. Cardinality(FilesAt(sizes)) \in 0..Cardinality(FileIds)
  BY <1>2
<1>4. [f \in FileIds |-> IF f \in named THEN sizes[f] ELSE 0] \in [FileIds -> 0..MaxSize]
  BY BoundsAssumption
<1> QED BY <1>3, <1>4 DEF ObjectView, ObjectViews

\* The files that are left out of a view of at most Cap files are none.
LEMMA CutIsWhole ==
  ASSUME NEW sizes \in [FileIds -> 0..MaxSize], NEW named \in SUBSET FilesAt(sizes),
         Cardinality(FilesAt(sizes)) <= Cap,
         Cardinality(named) = IF Cardinality(FilesAt(sizes)) > Cap
                                THEN Cap ELSE Cardinality(FilesAt(sizes))
  PROVE  [f \in FileIds |-> IF f \in named THEN sizes[f] ELSE 0] = sizes
<1>1. IsFiniteSet(FilesAt(sizes))
  <2>1. FilesAt(sizes) \subseteq FileIds
    BY DEF FilesAt
  <2> QED BY <2>1, FS_Subset, BoundsAssumption
<1>2. Cardinality(FilesAt(sizes)) \in Nat
  BY <1>1, FS_CardinalityType
<1>3. Cardinality(named) = Cardinality(FilesAt(sizes))
  BY <1>2, BoundsAssumption
<1>4. named = FilesAt(sizes)
  BY <1>1, <1>3, FS_Subset
<1>5. \A f \in FileIds : f \notin named => sizes[f] = 0
  BY <1>4 DEF FilesAt
<1> QED BY <1>5

\* The full query shows every record as it is.
LEMMA CurrentShows ==
  ASSUME TypeOK, NEW id \in Records
  PROVE  /\ Current(id) \in View(id) \cup {NoRow}
         /\ Current(id) # Unknown
         /\ Shows(Current(id), id)
<1>1. row[id] \in Row(id) \cup {NoRow}
  BY DEF TypeOK
<1>2. CASE id \in Objects /\ row[id] # NoRow
  <2>1. row[id] \in ObjectRow
    BY <1>1, <1>2, ObjectSort
  <2>2. files[id] \in [FileIds -> 0..MaxSize]
    BY <1>2 DEF TypeOK
  <2>3. ObjectView(row[id], files[id], FileIds) \in ObjectViews
    BY <2>1, <2>2, ViewSort
  <2>4. [f \in FileIds |-> IF f \in FileIds THEN files[id][f] ELSE 0] = files[id]
    BY <2>2
  <2>5. Current(id) = ObjectView(row[id], files[id], FileIds)
    BY <1>2 DEF Current
  <2>6. /\ Current(id).object = row[id]
        /\ Current(id).file_count = Cardinality(FilesAt(files[id]))
        /\ Current(id).files = files[id]
    BY <2>4, <2>5 DEF ObjectView
  <2> QED BY <1>2, <2>3, <2>5, <2>6, SentinelAssumption DEF View, Shows
<1>3. CASE id \in Objects /\ row[id] = NoRow
  BY <1>3, SentinelAssumption DEF Current, Shows
<1>4. CASE id \notin Objects
  <2>1. Row(id) \in {EntityRow, ObservationRow}
    BY <1>4, EntitySort, ObservationSort DEF Records
  <2> QED BY <1>1, <1>4, <2>1, SentinelAssumption DEF Current, Shows, View
<1> QED BY <1>2, <1>3, <1>4

\* The views of a record and what the replica may lack are different things.
LEMMA ViewKnown ==
  ASSUME NEW id \in Records, NEW view \in View(id) \cup {NoRow}
  PROVE  view # Unknown
<1>1. CASE id \in Objects
  BY <1>1, SentinelAssumption DEF View
<1>2. CASE id \notin Objects
  <2>1. Row(id) \in {EntityRow, ObservationRow}
    BY <1>2, EntitySort, ObservationSort DEF Records
  <2> QED BY <1>2, <2>1, SentinelAssumption DEF View
<1> QED BY <1>1, <1>2

LEMMA RowIsRow ==
  ASSUME NEW id \in Records, NEW value \in Row(id)
  PROVE  value # NoRow
<1>1. Row(id) \in {EntityRow, ObservationRow, ObjectRow}
  BY EntitySort, ObservationSort, ObjectSort DEF Records
<1> QED BY <1>1, SentinelAssumption

-----------------------------------------------------------------------------
(* The three kinds of steps of a request. *)

Request(r) == r = Idle \/ \E id \in Records : r \in PlanOf(id) \cup OwedOf(id)

\* A request holds a plan for its record, owes an event for it, or is idle.
LEMMA RequestCases ==
  ASSUME TypeOK, NEW w \in Workers
  PROVE  /\ Plans(w) => req[w].id \in Records /\ req[w] \in PlanOf(req[w].id)
         /\ \A id : Owes(w, id) => id \in Records /\ req[w] \in OwedOf(id)
<1>1. Request(req[w])
  BY DEF TypeOK, Request
<1>2. ASSUME Plans(w) PROVE req[w].id \in Records /\ req[w] \in PlanOf(req[w].id)
  <2>1. PICK id \in Records : req[w] \in PlanOf(id)
    BY <1>1, <1>2 DEF Request, Plans, Idle, OwedOf
  <2>2. req[w].id = id
    BY <2>1 DEF PlanOf
  <2> QED BY <2>1, <2>2
<1>3. ASSUME NEW id, Owes(w, id) PROVE id \in Records /\ req[w] \in OwedOf(id)
  <2>1. PICK i \in Records : req[w] \in OwedOf(i)
    BY <1>1, <1>3 DEF Request, Owes, Idle, PlanOf
  <2>2. req[w].id = i
    BY <2>1 DEF OwedOf
  <2> QED BY <1>3, <2>1, <2>2 DEF Owes
<1> QED BY <1>2, <1>3

\* A step that only plans a change, checks it or drops it.
LEMMA PlanningKeeps ==
  ASSUME IInv, NEW w \in Workers, NEW next,
         \A id : ~Owes(w, id),
         \/ next = Idle
         \/ \E id \in Records : next \in PlanOf(id) /\ ValidPlan(next) /\ FreshPlan(next),
         req' = [req EXCEPT ![w] = next],
         UNCHANGED <<row, files, clientVars, scene, mixed, doubtful>>
  PROVE  IInv'
<1> USE DEF IInv
<1>1. DOMAIN req = Workers
  BY DEF TypeOK
<1>2. req'[w] = next /\ \A v \in Workers \ {w} : req'[v] = req[v]
  BY <1>1
<1>3. Request(next) /\ \A id : ~Owes(w, id)'
  BY <1>2 DEF Request, Owes, Idle, PlanOf
<1>4. \A v \in Workers, id \in Records : Owes(v, id)' <=> Owes(v, id)
  BY <1>2, <1>3 DEF Owes
<1>5. \A id \in Records : NobodyOwes(id)' <=> NobodyOwes(id)
  BY <1>4 DEF NobodyOwes
<1>6. TypeOK'
  <2>1. \A v \in Workers : Request(req'[v])
    BY <1>2, <1>3 DEF TypeOK, Request
  <2> QED BY <1>1, <2>1 DEF TypeOK, Request, clientVars
<1>7. RowsValid'
  BY DEF RowsValid, Valid
<1>8. FilesNeedObject'
  BY DEF FilesNeedObject
<1>9. PlannedValid'
  BY <1>2 DEF PlannedValid, Plans, ValidPlan, Idle
<1>10. PlannedFresh'
  <2>1. ASSUME NEW v \in Workers, Plans(v)' PROVE FreshPlan(req[v])'
    <3>1. CASE v = w
      BY <1>2, <2>1, <3>1 DEF Plans, FreshPlan, Idle
    <3>2. CASE v # w
      BY <1>2, <2>1, <3>2 DEF PlannedFresh, Plans, FreshPlan
    <3> QED BY <3>1, <3>2
  <2> QED BY <2>1 DEF PlannedFresh
<1>11. OneOwes'
  BY <1>4 DEF OneOwes
<1>12. OwedIsCurrent'
  <2>1. ASSUME NEW id \in Records \ doubtful, NEW v \in Workers, Owes(v, id)'
        PROVE  DebtIsCurrent(req[v])'
    <3>1. req'[v] = req[v] /\ DebtIsCurrent(req[v])
      BY <1>2, <1>3, <1>4, <2>1 DEF OwedIsCurrent
    <3> QED BY <3>1 DEF DebtIsCurrent, Shows
  <2> QED BY <2>1 DEF OwedIsCurrent
<1>13. ReplicaKnows'
  BY <1>5 DEF ReplicaKnows, Shows, clientVars
<1> QED BY <1>6, <1>7, <1>8, <1>9, <1>10, <1>11, <1>12, <1>13

\* A step of w that changes the records in ids, of which it owes an event for id
\* at most.
LEMMA ChangeKeeps ==
  ASSUME IInv, NEW w \in Workers, NEW ids \in SUBSET Records, NEW id \in ids, NEW next,
         \A i : ~Owes(w, i),
         next = Idle \/ (next \in OwedOf(id) /\ DebtIsCurrent(next)'),
         req' = AfterChange(w, ids, next),
         DOMAIN row' = Records,
         \A i \in Records : row'[i] \in Row(i) \cup {NoRow},
         files' \in [Objects -> [FileIds -> 0..MaxSize]],
         \A i \in Records \ ids : row'[i] = row[i] /\ (i \in mixed' <=> i \in mixed),
         \A x \in Objects \ ids : files'[x] = files[x],
         mixed' \subseteq Records,
         doubtful' \subseteq Records,
         \A i \in Records \ ids : i \in doubtful' <=> i \in doubtful,
         \A i \in ids : \/ i \in doubtful'
                        \/ i = id /\ next # Idle /\ \A v \in Workers \ {w} : ~Owes(v, id),
         \A i \in ids : row'[i] # NoRow /\ i \notin mixed' => Valid(i)',
         \A x \in Objects \cap ids : row'[x] = NoRow => files'[x] = NoFiles,
         UNCHANGED <<clientVars, scene>>
  PROVE  IInv'
<1> USE DEF IInv
<1>1. req'[w] = next
  BY DEF AfterChange
<1>2. ASSUME NEW v \in Workers \ {w}
      PROVE  /\ Plans(v)' <=> Plans(v)
             /\ ~Plans(v) => req'[v] = req[v]
             /\ Plans(v) =>
                  /\ req[v] \in PlanOf(req[v].id) /\ req[v].id \in Records
                  /\ req'[v] \in PlanOf(req[v].id)
                  /\ req'[v].step = req[v].step /\ req'[v].id = req[v].id
                  /\ req'[v].next = req[v].next /\ req'[v].named = req[v].named
                  /\ req[v].id \in ids => req'[v].stale
                  /\ req[v].id \notin ids => req'[v] = req[v]
  <2>1. CASE Plans(v)
    <3>1. req[v].id \in Records /\ req[v] \in PlanOf(req[v].id)
      BY <2>1, RequestCases
    <3>2. CASE req[v].id \in ids
      <4>1. req'[v] = [req[v] EXCEPT !.stale = TRUE]
        BY <2>1, <3>2 DEF AfterChange
      <4> QED BY <2>1, <3>1, <3>2, <4>1 DEF Plans, PlanOf
    <3>3. CASE req[v].id \notin ids
      BY <2>1, <3>1, <3>3 DEF Plans, AfterChange
    <3> QED BY <3>2, <3>3
  <2>2. CASE ~Plans(v)
    BY <2>2 DEF Plans, AfterChange
  <2> QED BY <2>1, <2>2
<1>3. Request(next) /\ ~Plans(w)'
  BY <1>1 DEF Request, Plans, Idle, OwedOf
<1>4. ASSUME NEW v \in Workers \ {w}, NEW i \in Records
      PROVE  /\ Owes(v, i)' <=> Owes(v, i)
             /\ Owes(v, i) => req'[v] = req[v]
  BY <1>2 DEF Owes, Plans
<1>5. \A i \in Records : Owes(w, i)' => i = id /\ next # Idle
  BY <1>1 DEF Owes, Idle, OwedOf
<1>6. next # Idle => Owes(w, id)'
  BY <1>1 DEF Owes, Idle, OwedOf
<1>7. TypeOK'
  <2>1. \A v \in Workers : Request(req'[v])
    BY <1>1, <1>2, <1>3 DEF TypeOK, Request
  <2>2. DOMAIN req' = Workers
    BY DEF AfterChange
  <2> QED BY <2>1, <2>2 DEF TypeOK, Request, clientVars
<1>8. RowsValid'
  <2>1. ASSUME NEW i \in Records \ ids, row'[i] # NoRow, i \notin mixed' PROVE Valid(i)'
    BY <2>1 DEF RowsValid, Valid
  <2> QED BY <2>1 DEF RowsValid
<1>9. FilesNeedObject'
  BY DEF FilesNeedObject, Records
<1>10. PlannedValid'
  BY <1>2, <1>3 DEF PlannedValid, ValidPlan
<1>11. PlannedFresh'
  <2>1. ASSUME NEW v \in Workers \ {w}, Plans(v)' PROVE FreshPlan(req[v])'
    <3>1. Plans(v) /\ FreshPlan(req[v])
      BY <1>2, <2>1 DEF PlannedFresh
    <3>2. CASE req[v].id \in ids
      BY <1>2, <3>1, <3>2 DEF FreshPlan
    <3>3. CASE req[v].id \notin ids
      <4>1. req'[v] = req[v] /\ req[v].id \in Records /\ row'[req[v].id] = row[req[v].id]
        BY <1>2, <3>1, <3>3
      <4> QED BY <3>1, <4>1 DEF FreshPlan
    <3> QED BY <3>2, <3>3
  <2> QED BY <1>3, <2>1 DEF PlannedFresh
<1>12. OneOwes'
  <2>1. ASSUME NEW i \in Records, i \notin doubtful', NEW u \in Workers, NEW v \in Workers,
               Owes(u, i)', Owes(v, i)'
        PROVE  u = v
    <3>1. CASE i \in ids
      BY <1>4, <2>1, <3>1
    <3>2. CASE i \notin ids
      <4>1. u # w /\ v # w /\ i \notin doubtful
        BY <1>5, <2>1, <3>2
      <4>2. Owes(u, i) /\ Owes(v, i)
        BY <1>4, <2>1, <4>1
      <4> QED BY <2>1, <4>1, <4>2 DEF OneOwes
    <3> QED BY <3>1, <3>2
  <2> QED BY <2>1 DEF OneOwes
<1>13. OwedIsCurrent'
  <2>1. ASSUME NEW i \in Records, i \notin doubtful', NEW v \in Workers, Owes(v, i)'
        PROVE  DebtIsCurrent(req[v])'
    <3>1. CASE i \in ids
      <4>1. v = w /\ next # Idle
        BY <1>4, <2>1, <3>1
      <4> QED BY <1>1, <4>1 DEF DebtIsCurrent, Shows
    <3>2. CASE i \notin ids
      <4>1. v # w /\ i \notin doubtful
        BY <1>5, <2>1, <3>2
      <4>2. req'[v] = req[v] /\ req[v].id = i /\ DebtIsCurrent(req[v])
        BY <1>4, <2>1, <4>1 DEF OwedIsCurrent, Owes
      <4>3. row'[i] = row[i] /\ (i \in Objects => files'[i] = files[i])
        BY <3>2
      <4> QED BY <4>2, <4>3 DEF DebtIsCurrent, Shows
    <3> QED BY <3>1, <3>2
  <2> QED BY <2>1 DEF OwedIsCurrent
<1>14. ReplicaKnows'
  <2>1. ASSUME NEW i \in Records, i \notin doubtful', replica[i] # Unknown, NobodyOwes(i)'
        PROVE  Shows(replica[i], i)'
    <3>1. i \notin ids
      BY <1>6, <2>1 DEF NobodyOwes
    <3>2. row'[i] = row[i] /\ (i \in Objects => files'[i] = files[i]) /\ i \notin doubtful
      BY <2>1, <3>1
    <3>3. NobodyOwes(i)
      BY <1>4, <2>1 DEF NobodyOwes
    <3>4. Shows(replica[i], i) /\ replica' = replica
      BY <2>1, <3>2, <3>3 DEF ReplicaKnows, clientVars
    <3> QED BY <3>2, <3>4 DEF Shows
  <2> QED BY <2>1 DEF ReplicaKnows, clientVars
<1> QED BY <1>7, <1>8, <1>9, <1>10, <1>11, <1>12, <1>13, <1>14

\* A step of w that brings the event it owes for id nearer, or drops it.
LEMMA AnnounceKeeps ==
  ASSUME IInv, NEW w \in Workers, NEW id \in Records, NEW next,
         Owes(w, id),
         next \in OwedOf(id) \cup {Idle},
         req' = [req EXCEPT ![w] = next],
         doubtful' \in {doubtful, doubtful \cup {id}},
         id \notin doubtful' => next # Idle /\ DebtIsCurrent(next),
         UNCHANGED <<row, files, clientVars, scene, mixed>>
  PROVE  IInv'
<1> USE DEF IInv
<1>1. DOMAIN req = Workers
  BY DEF TypeOK
<1>2. req'[w] = next /\ \A v \in Workers \ {w} : req'[v] = req[v]
  BY <1>1
<1>3. Request(next) /\ ~Plans(w)'
  BY <1>2 DEF Request, Plans, Idle, OwedOf
<1>4. \A v \in Workers, i \in Records : Owes(v, i)' => Owes(v, i)
  BY <1>2 DEF Owes, Idle, OwedOf
<1>5. next # Idle => Owes(w, id)'
  BY <1>2 DEF Owes, OwedOf, Idle
<1>6. \A v \in Workers, i \in Records : i # id \/ v # w => (Owes(v, i)' <=> Owes(v, i))
  BY <1>2, <1>4 DEF Owes
<1>7. TypeOK'
  <2>1. \A v \in Workers : Request(req'[v])
    BY <1>2, <1>3 DEF TypeOK, Request
  <2> QED BY <1>1, <2>1 DEF TypeOK, Request, clientVars
<1>8. RowsValid'
  BY DEF RowsValid, Valid
<1>9. FilesNeedObject'
  BY DEF FilesNeedObject
<1>10. PlannedValid'
  BY <1>2, <1>3 DEF PlannedValid, Plans, ValidPlan
<1>11. PlannedFresh'
  BY <1>2, <1>3 DEF PlannedFresh, Plans, FreshPlan
<1>12. OneOwes'
  BY <1>4 DEF OneOwes
<1>13. OwedIsCurrent'
  <2>1. ASSUME NEW i \in Records, i \notin doubtful', NEW v \in Workers, Owes(v, i)'
        PROVE  DebtIsCurrent(req[v])'
    <3>1. DebtIsCurrent(req'[v])
      <4>1. CASE v = w
        <5>1. i = id
          BY <1>4, <2>1, <4>1 DEF Owes
        <5> QED BY <1>2, <2>1, <4>1, <5>1
      <4>2. CASE v # w
        BY <1>2, <1>4, <2>1, <4>2 DEF OwedIsCurrent
      <4> QED BY <4>1, <4>2
    <3> QED BY <3>1 DEF DebtIsCurrent, Shows
  <2> QED BY <2>1 DEF OwedIsCurrent
<1>14. ReplicaKnows'
  <2>1. ASSUME NEW i \in Records, i \notin doubtful', replica[i] # Unknown, NobodyOwes(i)'
        PROVE  Shows(replica[i], i)
    <3>1. i # id
      BY <1>5, <2>1 DEF NobodyOwes
    <3>2. NobodyOwes(i) /\ i \notin doubtful
      BY <1>6, <2>1, <3>1 DEF NobodyOwes
    <3> QED BY <2>1, <3>2 DEF ReplicaKnows
  <2> QED BY <2>1 DEF ReplicaKnows, Shows, clientVars
<1> QED BY <1>7, <1>8, <1>9, <1>10, <1>11, <1>12, <1>13, <1>14

-----------------------------------------------------------------------------
(* Every action keeps the invariant. *)

LEMMA IdleOwesNothing ==
  ASSUME NEW w \in Workers, req[w] = Idle \/ Plans(w)
  PROVE  \A id : ~Owes(w, id)
  BY DEF Idle, Plans, Owes

LEMMA CreateEntityKeeps ==
  ASSUME IInv, NEW w \in Workers, CreateEntity(w)
  PROVE  IInv'
<1>1. PICK e \in Entities \cap scene, entity \in EntityRow :
        /\ req[w] = Idle
        /\ validateEntityInput(entity)
        /\ req' = [req EXCEPT ![w] = Planned("insert", e, entity, {})]
        /\ UNCHANGED <<row, files, clientVars, scene, mixed, doubtful>>
  BY DEF CreateEntity
<1> DEFINE plan == Planned("insert", e, entity, {})
<1>2. e \in Records /\ e \notin Objects
  BY KindsAssumption DEF Records
<1>3. plan \in PlanOf(e)
  BY EntitySort DEF Planned, PlanOf
<1>4. ValidPlan(plan) /\ FreshPlan(plan)
  BY <1>1, <1>2 DEF Planned, ValidPlan, FreshPlan
<1> QED BY <1>1, <1>2, <1>3, <1>4, IdleOwesNothing, PlanningKeeps

LEMMA CreateObservationKeeps ==
  ASSUME IInv, NEW w \in Workers, CreateObservation(w)
  PROVE  IInv'
<1>1. PICK o \in Observations \cap scene, observation \in ObservationRow :
        /\ req[w] = Idle
        /\ req' = [req EXCEPT ![w] = Planned("validate_new", o, observation, {})]
        /\ UNCHANGED <<row, files, clientVars, scene, mixed, doubtful>>
  BY DEF CreateObservation
<1> DEFINE plan == Planned("validate_new", o, observation, {})
<1>2. o \in Records /\ o \notin Objects /\ o \notin Entities
  BY KindsAssumption DEF Records
<1>3. plan \in PlanOf(o)
  BY ObservationSort DEF Planned, PlanOf
<1>4. ValidPlan(plan) /\ FreshPlan(plan)
  BY <1>1, <1>2 DEF Planned, ValidPlan, FreshPlan
<1> QED BY <1>1, <1>2, <1>3, <1>4, IdleOwesNothing, PlanningKeeps

LEMMA CreateObjectKeeps ==
  ASSUME IInv, NEW w \in Workers, CreateObject(w)
  PROVE  IInv'
<1>1. PICK x \in Objects \cap scene, object \in ObjectRow :
        /\ req[w] = Idle
        /\ validateObjectInput(object)
        /\ req' = [req EXCEPT ![w] = Planned("insert", x, object, {})]
        /\ UNCHANGED <<row, files, clientVars, scene, mixed, doubtful>>
  BY DEF CreateObject
<1> DEFINE plan == Planned("insert", x, object, {})
<1>2. x \in Records /\ x \notin Entities
  BY KindsAssumption DEF Records
<1>3. plan \in PlanOf(x)
  BY ObjectSort DEF Planned, PlanOf
<1>4. ValidPlan(plan) /\ FreshPlan(plan)
  BY <1>1, <1>2 DEF Planned, ValidPlan, FreshPlan
<1> QED BY <1>1, <1>2, <1>3, <1>4, IdleOwesNothing, PlanningKeeps

\* A patch of the row as it is plans what the patch names.
LEMMA PatchIsFresh ==
  ASSUME NEW id, NEW step, NEW patch, row[id] # NoRow
  PROVE  FreshPlan(Planned(step, id, Patched(row[id], patch), NamedBy(patch)))
<1>1. \A f \in DOMAIN row[id] :
        Patched(row[id], patch)[f] # row[id][f] => f \in NamedBy(patch)
  BY PatchedNamed
<1> QED BY <1>1 DEF FreshPlan, Planned

LEMMA PatchEntityKeeps ==
  ASSUME IInv, NEW w \in Workers, PatchEntity(w)
  PROVE  IInv'
<1>1. PICK e \in Entities \cap scene, patch \in EntityPatch :
        /\ req[w] = Idle
        /\ row[e] # NoRow
        /\ validateEntityInput(Patched(row[e], patch))
        /\ req' = [req EXCEPT ![w] =
                     Planned("update", e, Patched(row[e], patch), NamedBy(patch))]
        /\ UNCHANGED <<row, files, clientVars, scene, mixed, doubtful>>
  BY DEF PatchEntity
<1> DEFINE plan == Planned("update", e, Patched(row[e], patch), NamedBy(patch))
<1>2. e \in Records /\ e \notin Objects
  BY KindsAssumption DEF Records
<1>3. row[e] \in EntityRow
  BY <1>1, <1>2, EntitySort DEF IInv, TypeOK
<1>4. plan \in PlanOf(e)
  BY <1>3, EntitySort, PatchedEntity DEF Planned, PlanOf, Names
<1>5. ValidPlan(plan)
  BY <1>1, <1>2 DEF Planned, ValidPlan
<1>6. FreshPlan(plan)
  BY <1>1, PatchIsFresh
<1> QED BY <1>1, <1>2, <1>4, <1>5, <1>6, IdleOwesNothing, PlanningKeeps

LEMMA PatchObservationKeeps ==
  ASSUME IInv, NEW w \in Workers, PatchObservation(w)
  PROVE  IInv'
<1>1. PICK o \in Observations \cap scene, patch \in ObservationPatch :
        /\ req[w] = Idle
        /\ row[o] # NoRow
        /\ req' = [req EXCEPT ![w] =
                     Planned("validate", o, Patched(row[o], patch), NamedBy(patch))]
        /\ UNCHANGED <<row, files, clientVars, scene, mixed, doubtful>>
  BY DEF PatchObservation
<1> DEFINE plan == Planned("validate", o, Patched(row[o], patch), NamedBy(patch))
<1>2. o \in Records /\ o \notin Objects /\ o \notin Entities
  BY KindsAssumption DEF Records
<1>3. row[o] \in ObservationRow
  BY <1>1, <1>2, ObservationSort DEF IInv, TypeOK
<1>4. plan \in PlanOf(o)
  BY <1>3, ObservationSort, PatchedObservation DEF Planned, PlanOf, Names
<1>5. ValidPlan(plan)
  BY <1>2 DEF Planned, ValidPlan
<1>6. FreshPlan(plan)
  BY <1>1, PatchIsFresh
<1> QED BY <1>1, <1>2, <1>4, <1>5, <1>6, IdleOwesNothing, PlanningKeeps

LEMMA PatchObjectKeeps ==
  ASSUME IInv, NEW w \in Workers, PatchObject(w)
  PROVE  IInv'
<1>1. PICK x \in Objects \cap scene, patch \in ObjectPatch :
        /\ req[w] = Idle
        /\ row[x] # NoRow
        /\ validateObjectInput(Patched(row[x], patch))
        /\ req' = [req EXCEPT ![w] =
                     Planned("validate", x, Patched(row[x], patch), NamedBy(patch))]
        /\ UNCHANGED <<row, files, clientVars, scene, mixed, doubtful>>
  BY DEF PatchObject
<1> DEFINE plan == Planned("validate", x, Patched(row[x], patch), NamedBy(patch))
<1>2. x \in Records /\ x \notin Entities
  BY KindsAssumption DEF Records
<1>3. row[x] \in ObjectRow
  BY <1>1, <1>2, ObjectSort DEF IInv, TypeOK
<1>4. plan \in PlanOf(x)
  BY <1>3, ObjectSort, PatchedObject DEF Planned, PlanOf, Names
<1>5. ValidPlan(plan)
  BY <1>1, <1>2 DEF Planned, ValidPlan
<1>6. FreshPlan(plan)
  BY <1>1, PatchIsFresh
<1> QED BY <1>1, <1>2, <1>4, <1>5, <1>6, IdleOwesNothing, PlanningKeeps

LEMMA ValidateKeeps ==
  ASSUME IInv, NEW w \in Workers, Validate(w)
  PROVE  IInv'
<1> DEFINE id == req[w].id
           step == IF req[w].step = "validate_new" THEN "insert" ELSE "update"
           plan == [req[w] EXCEPT !.step = step]
<1>1. /\ req[w].step \in {"validate_new", "validate"}
      /\ req' \in {[req EXCEPT ![w].step = step], [req EXCEPT ![w] = Idle]}
      /\ UNCHANGED <<row, files, clientVars, scene, mixed, doubtful>>
  BY DEF Validate, Respond
<1>2. Plans(w) /\ id \in Records /\ req[w] \in PlanOf(id)
  BY <1>1, RequestCases DEF IInv, Plans
<1>3. CASE req' = [req EXCEPT ![w] = Idle]
  BY <1>1, <1>2, <1>3, IdleOwesNothing, PlanningKeeps
<1>4. CASE req' = [req EXCEPT ![w].step = step]
  <2>1. req' = [req EXCEPT ![w] = plan]
    BY <1>4
  <2>2. plan \in PlanOf(id)
    BY <1>2 DEF PlanOf
  <2>3. /\ plan.id = id /\ plan.next = req[w].next /\ plan.named = req[w].named
        /\ plan.stale = req[w].stale /\ plan.step = step
    BY <1>2 DEF PlanOf
  <2>4. ValidPlan(plan)
    BY <1>2, <2>3 DEF IInv, PlannedValid, ValidPlan
  <2>5. FreshPlan(plan)
    BY <1>1, <1>2, <2>3 DEF IInv, PlannedFresh, FreshPlan
  <2> QED BY <1>1, <1>2, <2>1, <2>2, <2>4, <2>5, IdleOwesNothing, PlanningKeeps
<1> QED BY <1>1, <1>3, <1>4

\* A change of one record, with its event owed or lost.
LEMMA ChangedKeeps ==
  ASSUME IInv, NEW w \in Workers, NEW id \in Records, NEW next,
         \A i : ~Owes(w, i),
         next \in OwedOf(id), DebtIsCurrent(next)',
         Changed(w, id, next),
         DOMAIN row' = Records,
         row'[id] \in Row(id) \cup {NoRow},
         files' \in [Objects -> [FileIds -> 0..MaxSize]],
         \A i \in Records \ {id} : row'[i] = row[i] /\ (i \in mixed' <=> i \in mixed),
         \A x \in Objects \ {id} : files'[x] = files[x],
         mixed' \subseteq Records,
         row'[id] # NoRow /\ id \notin mixed' => Valid(id)',
         id \in Objects /\ row'[id] = NoRow => files'[id] = NoFiles,
         UNCHANGED <<clientVars, scene>>
  PROVE  IInv'
<1>1. \A i \in Records : row'[i] \in Row(i) \cup {NoRow}
  BY DEF IInv, TypeOK
<1>2. doubtful \subseteq Records
  BY DEF IInv, TypeOK
<1>3. next # Idle
  BY DEF OwedOf, Idle
<1> DEFINE ids == {id}
<1>4. ids \in SUBSET Records /\ id \in ids
  OBVIOUS
<1>5. /\ \A i \in ids : row'[i] # NoRow /\ i \notin mixed' => Valid(i)'
      /\ \A x \in Objects \cap ids : row'[x] = NoRow => files'[x] = NoFiles
      /\ \A i \in Records \ ids : row'[i] = row[i] /\ (i \in mixed' <=> i \in mixed)
      /\ \A x \in Objects \ ids : files'[x] = files[x]
  OBVIOUS
<1>6. CASE req' = AfterChange(w, ids, next) /\ Announcing(w, id)
  <2>1. /\ doubtful' \subseteq Records
        /\ \A i \in Records \ ids : i \in doubtful' <=> i \in doubtful
    BY <1>2, <1>6 DEF Announcing
  <2>2. id \in doubtful' \/ \A v \in Workers \ {w} : ~Owes(v, id)
    BY <1>6 DEF Announcing
  <2>3. \A i \in ids : \/ i \in doubtful'
                       \/ i = id /\ next # Idle /\ \A v \in Workers \ {w} : ~Owes(v, id)
    BY <1>3, <2>2
  <2> HIDE DEF ids
  <2> QED BY <1>1, <1>4, <1>5, <1>6, <2>1, <2>3, ChangeKeeps
<1>7. CASE req' = AfterChange(w, ids, Idle) /\ doubtful' = doubtful \cup {id}
  <2>1. /\ doubtful' \subseteq Records
        /\ \A i \in Records \ ids : i \in doubtful' <=> i \in doubtful
        /\ \A i \in ids : i \in doubtful'
    BY <1>2, <1>7
  <2> HIDE DEF ids
  <2> QED BY <1>1, <1>4, <1>5, <1>7, <2>1, ChangeKeeps
<1> QED BY <1>6, <1>7 DEF Changed

\* The event of a create shows the row that was inserted.
LEMMA InsertedIsCurrent ==
  ASSUME NEW id \in Records, NEW next \in Row(id), row'[id] = next
  PROVE  LET debt == Owed(IF id \in Objects THEN "list" ELSE "publish", id, next) IN
           debt \in OwedOf(id) /\ DebtIsCurrent(debt)'
<1>1. next # NoRow
  BY RowIsRow
<1>2. CASE id \in Objects
  BY <1>1, <1>2 DEF Owed, OwedOf, DebtIsCurrent
<1>3. CASE id \notin Objects
  BY <1>3 DEF Owed, OwedOf, View, DebtIsCurrent, Shows
<1> QED BY <1>2, <1>3

\* An event that is still to be read again is owed for any record that exists.
LEMMA RereadIsCurrent ==
  ASSUME NEW id \in Records, row'[id] # NoRow
  PROVE  /\ Owed("reread", id, NoRow) \in OwedOf(id)
         /\ DebtIsCurrent(Owed("reread", id, NoRow))'
  BY DEF Owed, OwedOf, DebtIsCurrent

\* The event of a delete is right for a record that is gone.
LEMMA DeletedIsCurrent ==
  ASSUME NEW id \in Records, row'[id] = NoRow
  PROVE  /\ Owed("publish", id, NoRow) \in OwedOf(id)
         /\ DebtIsCurrent(Owed("publish", id, NoRow))'
  BY DEF Owed, OwedOf, DebtIsCurrent, Shows

\* What is written as it was planned is valid.
LEMMA WrittenAsPlanned ==
  ASSUME IInv, NEW w \in Workers, Plans(w), NEW id \in Records, req[w].id = id,
         row'[id] = req[w].next
  PROVE  Valid(id)'
<1>1. ValidPlan(req[w])
  BY DEF IInv, PlannedValid
<1>2. CASE id \in Entities
  BY <1>1, <1>2, KindsAssumption DEF Valid, ValidPlan, validateEntityInput
<1>3. CASE id \in Observations
  BY <1>3, KindsAssumption DEF Valid
<1>4. CASE id \in Objects
  BY <1>1, <1>4, KindsAssumption DEF Valid, ValidPlan, validateObjectInput
<1> QED BY <1>2, <1>3, <1>4 DEF Records

LEMMA InsertKeeps ==
  ASSUME IInv, NEW w \in Workers, Insert(w)
  PROVE  IInv'
<1>1. /\ req[w].step = "insert"
      /\ UNCHANGED <<files, clientVars, scene>>
  BY DEF Insert
<1>2. /\ Plans(w) /\ req[w].id \in Records /\ req[w] \in PlanOf(req[w].id)
      /\ \A i : ~Owes(w, i)
  BY <1>1, RequestCases, IdleOwesNothing DEF IInv, Plans
<1>3. PICK id, next : /\ id = req[w].id /\ next = req[w].next
                      /\ id \in Records /\ next \in Row(id)
  BY <1>2 DEF PlanOf
<1>4. CASE ~(row[id] = NoRow /\ OwnerExists(id, next))
  <2>1. req' = [req EXCEPT ![w] = Idle] /\ UNCHANGED <<row, mixed, doubtful>>
    BY <1>3, <1>4 DEF Insert, Respond
  <2> QED BY <1>1, <1>2, <2>1, PlanningKeeps
<1>5. CASE row[id] = NoRow /\ OwnerExists(id, next)
  <2> DEFINE debt == Owed(IF id \in Objects THEN "list" ELSE "publish", id, next)
  <2>1. /\ row' = [row EXCEPT ![id] = next]
        /\ mixed' = mixed \ {id}
        /\ Changed(w, id, debt)
    BY <1>3, <1>5 DEF Insert
  <2>2. /\ DOMAIN row = Records
        /\ files' \in [Objects -> [FileIds -> 0..MaxSize]]
        /\ mixed' \subseteq Records
    BY <1>1, <2>1 DEF IInv, TypeOK
  <2>3. /\ DOMAIN row' = Records /\ row'[id] = next
        /\ \A i \in Records \ {id} : row'[i] = row[i] /\ (i \in mixed' <=> i \in mixed)
        /\ \A x \in Objects \ {id} : files'[x] = files[x]
    BY <1>1, <1>3, <2>1, <2>2
  <2>4. next # NoRow
    BY <1>3, RowIsRow
  <2>5. Valid(id)'
    BY <1>2, <1>3, <2>3, WrittenAsPlanned
  <2>6. debt \in OwedOf(id) /\ DebtIsCurrent(debt)'
    BY <1>3, <2>3, InsertedIsCurrent
  <2> HIDE DEF debt
  <2> QED BY <1>1, <1>2, <1>3, <2>1, <2>2, <2>3, <2>4, <2>5, <2>6, ChangedKeeps
<1> QED BY <1>4, <1>5

LEMMA UpdateKeeps ==
  ASSUME IInv, NEW w \in Workers, Update(w)
  PROVE  IInv'
<1>1. /\ req[w].step = "update"
      /\ UNCHANGED <<files, clientVars, scene>>
  BY DEF Update
<1>2. /\ Plans(w) /\ req[w].id \in Records /\ req[w] \in PlanOf(req[w].id)
      /\ \A i : ~Owes(w, i)
  BY <1>1, RequestCases, IdleOwesNothing DEF IInv, Plans
<1>3. PICK id, next : /\ id = req[w].id /\ next = req[w].next
                      /\ id \in Records /\ next \in Row(id)
  BY <1>2 DEF PlanOf
<1>4. CASE row[id] = NoRow
  <2>1. req' = [req EXCEPT ![w] = Idle] /\ UNCHANGED <<row, mixed, doubtful>>
    BY <1>3, <1>4 DEF Update, Respond
  <2> QED BY <1>1, <1>2, <2>1, PlanningKeeps
<1>5. CASE row[id] # NoRow
  <2> DEFINE debt == Owed("reread", id, NoRow)
  <2>1. /\ row' = [row EXCEPT ![id] = Updated(row[id], next)]
        /\ mixed' = IF row'[id] = next THEN mixed \ {id} ELSE mixed \cup {id}
        /\ Changed(w, id, debt)
    BY <1>3, <1>5 DEF Update
  <2>2. /\ DOMAIN row = Records
        /\ row[id] \in Row(id)
        /\ files' \in [Objects -> [FileIds -> 0..MaxSize]]
        /\ mixed' \subseteq Records
    BY <1>1, <1>3, <1>5, <2>1 DEF IInv, TypeOK
  <2>3. /\ DOMAIN row' = Records /\ row'[id] = Updated(row[id], next)
        /\ \A i \in Records \ {id} : row'[i] = row[i] /\ (i \in mixed' <=> i \in mixed)
        /\ \A x \in Objects \ {id} : files'[x] = files[x]
    BY <1>1, <1>3, <2>1, <2>2
  <2>4. row'[id] \in Row(id)
    BY <1>3, <2>2, <2>3, UpdatedSort
  <2>5. row'[id] # NoRow
    BY <1>3, <2>4, RowIsRow
  <2>6. ASSUME id \notin mixed' PROVE Valid(id)'
    <3>1. row'[id] = req[w].next
      BY <1>3, <2>1, <2>6
    <3> QED BY <1>2, <1>3, <3>1, WrittenAsPlanned
  <2>7. debt \in OwedOf(id) /\ DebtIsCurrent(debt)'
    BY <1>3, <2>5, RereadIsCurrent
  <2> HIDE DEF debt
  <2> QED BY <1>1, <1>2, <1>3, <2>1, <2>2, <2>3, <2>4, <2>5, <2>6, <2>7, ChangedKeeps
<1> QED BY <1>4, <1>5

LEMMA DeleteEntityKeeps ==
  ASSUME IInv, NEW w \in Workers, DeleteEntity(w)
  PROVE  IInv'
<1>1. PICK e \in Entities \cap scene :
        /\ req[w] = Idle
        /\ row' = [row EXCEPT ![e] = NoRow]
        /\ Changed(w, e, Owed("publish", e, NoRow))
        /\ UNCHANGED <<files, clientVars, scene, mixed>>
  BY DEF DeleteEntity
<1> DEFINE debt == Owed("publish", e, NoRow)
<1>2. e \in Records /\ e \notin Objects
  BY KindsAssumption DEF Records
<1>3. DOMAIN row = Records /\ files \in [Objects -> [FileIds -> 0..MaxSize]] /\ mixed \subseteq Records
  BY DEF IInv, TypeOK
<1>4. row'[e] = NoRow /\ DOMAIN row' = Records /\ \A i \in Records \ {e} : row'[i] = row[i]
  BY <1>1, <1>2, <1>3
<1>5. debt \in OwedOf(e) /\ DebtIsCurrent(debt)'
  BY <1>2, <1>4, DeletedIsCurrent
<1> HIDE DEF debt
<1> QED BY <1>1, <1>2, <1>3, <1>4, <1>5, IdleOwesNothing, ChangedKeeps DEF debt

LEMMA DeleteObjectKeeps ==
  ASSUME IInv, NEW w \in Workers, DeleteObject(w)
  PROVE  IInv'
<1>1. PICK x \in Objects \cap scene :
        /\ req[w] = Idle
        /\ row' = [row EXCEPT ![x] = NoRow]
        /\ files' = [files EXCEPT ![x] = NoFiles]
        /\ Changed(w, x, Owed("publish", x, NoRow))
        /\ UNCHANGED <<clientVars, scene, mixed>>
  BY DEF DeleteObject
<1> DEFINE debt == Owed("publish", x, NoRow)
<1>2. x \in Records
  BY DEF Records
<1>3. DOMAIN row = Records /\ files \in [Objects -> [FileIds -> 0..MaxSize]] /\ mixed \subseteq Records
  BY DEF IInv, TypeOK
<1>4. row'[x] = NoRow /\ DOMAIN row' = Records /\ \A i \in Records \ {x} : row'[i] = row[i]
  BY <1>1, <1>2, <1>3
<1>5. /\ files' \in [Objects -> [FileIds -> 0..MaxSize]]
      /\ files'[x] = NoFiles /\ \A y \in Objects \ {x} : files'[y] = files[y]
  BY <1>1, <1>3, BoundsAssumption DEF NoFiles
<1>6. debt \in OwedOf(x) /\ DebtIsCurrent(debt)'
  BY <1>2, <1>4, DeletedIsCurrent
<1> HIDE DEF debt
<1> QED BY <1>1, <1>2, <1>3, <1>4, <1>5, <1>6, IdleOwesNothing, ChangedKeeps DEF debt

LEMMA FileCommittedKeeps ==
  ASSUME IInv, NEW w \in Workers, NEW x \in Objects, NEW f \in FileIds, NEW size \in 0..MaxSize,
         req[w] = Idle, row[x] # NoRow, FileCommitted(w, x, f, size)
  PROVE  IInv'
<1> DEFINE debt == Owed("reread", x, NoRow)
<1>1. /\ files' = [files EXCEPT ![x][f] = size]
      /\ Changed(w, x, debt)
      /\ UNCHANGED <<row, clientVars, scene, mixed>>
  BY DEF FileCommitted
<1>2. x \in Records
  BY DEF Records
<1>3. DOMAIN row = Records /\ files \in [Objects -> [FileIds -> 0..MaxSize]] /\ mixed \subseteq Records
  BY DEF IInv, TypeOK
<1>4. /\ files' \in [Objects -> [FileIds -> 0..MaxSize]]
      /\ \A y \in Objects \ {x} : files'[y] = files[y]
  BY <1>1, <1>3
<1>5. row'[x] \in Row(x) \cup {NoRow} /\ row'[x] # NoRow
  BY <1>1, <1>2 DEF IInv, TypeOK
<1>6. x \notin mixed' => Valid(x)'
  BY <1>1, <1>2 DEF IInv, RowsValid, Valid
<1>7. debt \in OwedOf(x) /\ DebtIsCurrent(debt)'
  BY <1>2, <1>5, RereadIsCurrent
<1> HIDE DEF debt
<1> QED BY <1>1, <1>2, <1>3, <1>4, <1>5, <1>6, <1>7, IdleOwesNothing, ChangedKeeps

LEMMA UploadObjectFileKeeps ==
  ASSUME IInv, NEW w \in Workers, UploadObjectFile(w)
  PROVE  IInv'
  BY FileCommittedKeeps, BoundsAssumption DEF UploadObjectFile

LEMMA AppendObjectFileKeeps ==
  ASSUME IInv, NEW w \in Workers, AppendObjectFile(w)
  PROVE  IInv'
<1>1. PICK x \in Objects, f \in FileIds :
        /\ req[w] = Idle
        /\ files[x][f] \in 1..(MaxSize - 1)
        /\ FileCommitted(w, x, f, files[x][f] + 1)
  BY DEF AppendObjectFile
<1>2. files[x][f] + 1 \in 0..MaxSize
  BY <1>1, BoundsAssumption
<1>3. row[x] # NoRow
  BY <1>1 DEF IInv, FilesNeedObject, NoFiles
<1> QED BY <1>1, <1>2, <1>3, FileCommittedKeeps

LEMMA DeleteObjectFileKeeps ==
  ASSUME IInv, NEW w \in Workers, DeleteObjectFile(w)
  PROVE  IInv'
<1>1. PICK x \in Objects, f \in FileIds :
        req[w] = Idle /\ files[x][f] # 0 /\ FileCommitted(w, x, f, 0)
  BY DEF DeleteObjectFile
<1>2. 0 \in 0..MaxSize
  BY BoundsAssumption
<1>3. row[x] # NoRow
  BY <1>1 DEF IInv, FilesNeedObject, NoFiles
<1> QED BY <1>1, <1>2, <1>3, FileCommittedKeeps

LEMMA DeleteObservationKeeps ==
  ASSUME IInv, NEW w \in Workers, DeleteObservation(w)
  PROVE  IInv'
<1>1. PICK o \in Observations \cap scene :
        /\ req[w] = Idle
        /\ row' = [id \in Records |-> IF id \in OwnedBy(o) \cup {o} THEN NoRow ELSE row[id]]
        /\ files' = [x \in Objects |-> IF x \in OwnedBy(o) THEN NoFiles ELSE files[x]]
        /\ \E lost \in BOOLEAN :
             /\ req' = AfterChange(w, OwnedBy(o) \cup {o},
                                   IF lost THEN Idle ELSE Owed("publish", o, NoRow))
             /\ doubtful' = IF lost \/ \E v \in Workers \ {w} : Owes(v, o)
                              THEN doubtful \cup OwnedBy(o) \cup {o}
                              ELSE (doubtful \ {o}) \cup OwnedBy(o)
        /\ UNCHANGED <<clientVars, scene, mixed>>
  BY DEF DeleteObservation
<1>2. PICK lost \in BOOLEAN :
        /\ req' = AfterChange(w, OwnedBy(o) \cup {o},
                              IF lost THEN Idle ELSE Owed("publish", o, NoRow))
        /\ doubtful' = IF lost \/ \E v \in Workers \ {w} : Owes(v, o)
                         THEN doubtful \cup OwnedBy(o) \cup {o}
                         ELSE (doubtful \ {o}) \cup OwnedBy(o)
  BY <1>1
<1>3. PICK ids : ids = OwnedBy(o) \cup {o}
  OBVIOUS
<1>4. PICK next : next = IF lost THEN Idle ELSE Owed("publish", o, NoRow)
  OBVIOUS
<1>5. o \in Records /\ o \notin Objects /\ OwnedBy(o) \subseteq Objects /\ Objects \subseteq Records
  BY KindsAssumption DEF Records, OwnedBy
<1>6. ids \in SUBSET Records /\ o \in ids
  BY <1>3, <1>5
<1>7. TypeOK
  BY DEF IInv
<1>8. /\ DOMAIN row' = Records
      /\ \A i \in Records : row'[i] = IF i \in ids THEN NoRow ELSE row[i]
  BY <1>1, <1>3
<1>9. /\ files' \in [Objects -> [FileIds -> 0..MaxSize]]
      /\ \A x \in Objects \ ids : files'[x] = files[x]
      /\ \A x \in Objects \cap ids : files'[x] = NoFiles
  BY <1>1, <1>3, <1>5, <1>7, BoundsAssumption DEF TypeOK, NoFiles
<1>10. next = Idle \/ (next \in OwedOf(o) /\ DebtIsCurrent(next)')
  BY <1>4, <1>5, <1>6, <1>8, DeletedIsCurrent
<1>11. \A i \in Records : row'[i] \in Row(i) \cup {NoRow}
  BY <1>7, <1>8 DEF TypeOK
<1>12. /\ mixed' \subseteq Records
       /\ \A i \in Records \ ids : row'[i] = row[i] /\ (i \in mixed' <=> i \in mixed)
       /\ \A i \in ids : row'[i] # NoRow /\ i \notin mixed' => Valid(i)'
  BY <1>1, <1>6, <1>7, <1>8 DEF TypeOK
<1>13. /\ doubtful' \subseteq Records
       /\ \A i \in Records \ ids : i \in doubtful' <=> i \in doubtful
  BY <1>2, <1>3, <1>5, <1>7 DEF TypeOK
<1>14. \A i \in ids : \/ i \in doubtful'
                      \/ i = o /\ next # Idle /\ \A v \in Workers \ {w} : ~Owes(v, o)
  <2>1. lost \/ next # Idle
    BY <1>4 DEF Owed, Idle
  <2>2. OwnedBy(o) \subseteq doubtful'
    BY <1>2
  <2>3. o \in doubtful' \/ (~lost /\ \A v \in Workers \ {w} : ~Owes(v, o))
    BY <1>2
  <2> QED BY <1>3, <2>1, <2>2, <2>3
<1>15. req' = AfterChange(w, ids, next)
  BY <1>2, <1>3, <1>4
<1>16. \A i : ~Owes(w, i)
  BY <1>1, IdleOwesNothing
<1>17. \A x \in Objects \cap ids : row'[x] = NoRow => files'[x] = NoFiles
  BY <1>9
<1>18. UNCHANGED <<clientVars, scene>>
  BY <1>1
<1> QED BY <1>6, <1>8, <1>9, <1>10, <1>11, <1>12, <1>13, <1>14, <1>15, <1>16, <1>17, <1>18,
           ChangeKeeps

LEMMA RereadKeeps ==
  ASSUME IInv, NEW w \in Workers, Reread(w)
  PROVE  IInv'
<1> DEFINE id == req[w].id
           debt == Owed(IF id \in Objects THEN "list" ELSE "publish", id, row[id])
<1>1. /\ req[w].step = "reread"
      /\ req' = [req EXCEPT ![w] = IF row[id] = NoRow THEN Idle ELSE debt]
      /\ UNCHANGED <<row, files, clientVars, scene, mixed, doubtful>>
  BY DEF Reread, Respond
<1>2. Owes(w, id) /\ id \in Records
  BY <1>1, RequestCases DEF IInv, Owes
<1>3. row[id] \in Row(id) \cup {NoRow}
  BY <1>2 DEF IInv, TypeOK
<1>4. row[id] # NoRow => debt \in OwedOf(id) /\ DebtIsCurrent(debt) /\ debt # Idle
  <2> SUFFICES ASSUME row[id] # NoRow
               PROVE  debt \in OwedOf(id) /\ DebtIsCurrent(debt) /\ debt # Idle
    OBVIOUS
  <2>1. CASE id \in Objects
    BY <1>3, <2>1 DEF Owed, OwedOf, DebtIsCurrent, Idle
  <2>2. CASE id \notin Objects
    BY <1>3, <2>2 DEF Owed, OwedOf, DebtIsCurrent, Idle, View, Shows
  <2> QED BY <2>1, <2>2
<1>5. id \notin doubtful => row[id] # NoRow
  BY <1>1, <1>2 DEF IInv, OwedIsCurrent, DebtIsCurrent
<1>6. PICK next : next = IF row[id] = NoRow THEN Idle ELSE debt
  OBVIOUS
<1>7. /\ next \in OwedOf(id) \cup {Idle}
      /\ id \notin doubtful => next # Idle /\ DebtIsCurrent(next)
  BY <1>4, <1>5, <1>6
<1>8. /\ req' = [req EXCEPT ![w] = next]
      /\ doubtful' \in {doubtful, doubtful \cup {id}}
      /\ id \notin doubtful' => id \notin doubtful
      /\ UNCHANGED <<row, files, clientVars, scene, mixed>>
  BY <1>1, <1>6
<1> HIDE DEF id
<1> QED BY <1>2, <1>7, <1>8, AnnounceKeeps

LEMMA ListObjectFilesKeeps ==
  ASSUME IInv, NEW w \in Workers, ListObjectFiles(w)
  PROVE  IInv'
<1> DEFINE x == req[w].id
           present == FilesAt(files[x])
<1>1. PICK named \in SUBSET present :
        /\ req[w].step = "list"
        /\ Cardinality(named) = IF Cardinality(present) > Cap THEN Cap ELSE Cardinality(present)
        /\ req' = [req EXCEPT ![w] =
                     Owed("publish", x, ObjectView(req[w].data, files[x], named))]
        /\ UNCHANGED <<row, files, clientVars, scene, mixed, doubtful>>
  BY DEF ListObjectFiles
<1>2. Owes(w, x) /\ x \in Records /\ req[w] \in OwedOf(x)
  BY <1>1, RequestCases DEF IInv, Owes
<1>3. x \in Objects /\ req[w].data \in ObjectRow
  BY <1>1, <1>2, ObjectSort DEF OwedOf
<1>4. files[x] \in [FileIds -> 0..MaxSize] /\ named \in SUBSET FileIds
  BY <1>3 DEF IInv, TypeOK, FilesAt
<1>5. PICK view : view = ObjectView(req[w].data, files[x], named)
  OBVIOUS
<1>6. view \in ObjectViews
  BY <1>3, <1>4, <1>5, ViewSort
<1>7. PICK next : next = Owed("publish", x, view)
  OBVIOUS
<1>8. next \in OwedOf(x) /\ next # Idle
  BY <1>3, <1>6, <1>7 DEF Owed, OwedOf, View, Idle
<1>9. ASSUME x \notin doubtful PROVE DebtIsCurrent(next)
  <2>1. row[x] # NoRow /\ req[w].data = row[x]
    BY <1>1, <1>2, <1>9 DEF IInv, OwedIsCurrent, DebtIsCurrent, Owes
  <2>2. /\ view # NoRow
        /\ view.object = row[x]
        /\ view.file_count = Cardinality(FilesAt(files[x]))
        /\ view.files = [f \in FileIds |-> IF f \in named THEN files[x][f] ELSE 0]
    BY <1>5, <1>6, <2>1, SentinelAssumption DEF ObjectView
  <2>3. Cardinality(FilesAt(files[x])) <= Cap => view.files = files[x]
    BY <1>1, <1>4, <2>2, CutIsWhole
  <2>4. Shows(view, x)
    BY <1>3, <2>1, <2>2, <2>3 DEF Shows
  <2> QED BY <1>7, <2>4 DEF Owed, DebtIsCurrent
<1>10. req' = [req EXCEPT ![w] = next]
  BY <1>1, <1>5, <1>7
<1> HIDE DEF x
<1> QED BY <1>1, <1>2, <1>8, <1>9, <1>10, AnnounceKeeps

LEMMA ListObjectFilesFailsKeeps ==
  ASSUME IInv, NEW w \in Workers, ListObjectFilesFails(w)
  PROVE  IInv'
<1> DEFINE x == req[w].id
<1>1. /\ req[w].step = "list"
      /\ req' = [req EXCEPT ![w] = Owed("publish", x, ObjectView(req[w].data, NoFiles, {}))]
      /\ doubtful' = doubtful \cup {x}
      /\ UNCHANGED <<row, files, clientVars, scene, mixed>>
  BY DEF ListObjectFilesFails
<1>2. Owes(w, x) /\ x \in Records /\ req[w] \in OwedOf(x)
  BY <1>1, RequestCases DEF IInv, Owes
<1>3. x \in Objects /\ req[w].data \in ObjectRow
  BY <1>1, <1>2, ObjectSort DEF OwedOf
<1>4. PICK view : view = ObjectView(req[w].data, NoFiles, {})
  OBVIOUS
<1>5. view \in ObjectViews
  <2>1. NoFiles \in [FileIds -> 0..MaxSize] /\ {} \in SUBSET FileIds
    BY BoundsAssumption DEF NoFiles
  <2> QED BY <1>3, <1>4, <2>1, ViewSort
<1>6. PICK next : next = Owed("publish", x, view)
  OBVIOUS
<1>7. next \in OwedOf(x)
  BY <1>3, <1>5, <1>6 DEF Owed, OwedOf, View
<1>8. req' = [req EXCEPT ![w] = next]
  BY <1>1, <1>4, <1>6
<1> HIDE DEF x
<1> QED BY <1>1, <1>2, <1>7, <1>8, AnnounceKeeps

LEMMA AbandonKeeps ==
  ASSUME IInv, NEW w \in Workers, Abandon(w)
  PROVE  IInv'
<1>1. /\ Plans(w) \/ req[w].step = "reread"
      /\ req' = [req EXCEPT ![w] = Idle]
      /\ doubtful' = IF Plans(w) THEN doubtful ELSE doubtful \cup {req[w].id}
      /\ UNCHANGED <<row, files, clientVars, scene, mixed>>
  BY DEF Abandon, Respond
<1>2. CASE Plans(w)
  BY <1>1, <1>2, IdleOwesNothing, PlanningKeeps
<1>3. CASE ~Plans(w)
  <2>1. Owes(w, req[w].id) /\ req[w].id \in Records
    BY <1>1, <1>3, RequestCases DEF IInv, Owes
  <2>2. doubtful' = doubtful \cup {req[w].id}
    BY <1>1, <1>3
  <2> QED BY <1>1, <2>1, <2>2, AnnounceKeeps
<1> QED BY <1>2, <1>3

\* The fan-out ends the request: what it owed, the replica now holds.
LEMMA PublishKeeps ==
  ASSUME IInv, NEW w \in Workers, Publish(w)
  PROVE  IInv'
<1>1. PICK id, data : id = req[w].id /\ data = req[w].data
  OBVIOUS
<1>2. /\ req[w].step = "publish"
      /\ replica' = IF phase \in {"subscribed", "live"}
                      THEN [replica EXCEPT ![id] = data] ELSE replica
      /\ doubtful' = IF phase = "queried" THEN doubtful \cup {id} ELSE doubtful
      /\ req' = [req EXCEPT ![w] = Idle]
      /\ UNCHANGED <<row, files, phase, scene, mixed>>
  BY <1>1 DEF Publish, Respond
<1>3. Owes(w, id) /\ id \in Records /\ req[w] \in OwedOf(id)
  BY <1>1, <1>2, RequestCases DEF IInv, Owes
<1>4. data \in View(id) \cup {NoRow} /\ data # Unknown
  BY <1>1, <1>2, <1>3, ViewKnown, SentinelAssumption DEF OwedOf
<1>5. TypeOK /\ DOMAIN req = Workers /\ DOMAIN replica = Records
  BY DEF IInv, TypeOK
<1>6. req'[w] = Idle /\ \A v \in Workers \ {w} : req'[v] = req[v]
  BY <1>2, <1>5
<1>7. \A i : ~Owes(w, i)'
  BY <1>6 DEF Owes, Idle
<1>8. \A v \in Workers, i \in Records : Owes(v, i)' => v # w /\ Owes(v, i)
  BY <1>6, <1>7 DEF Owes
<1>9. \A v \in Workers \ {w}, i \in Records : Owes(v, i)' <=> Owes(v, i)
  BY <1>6 DEF Owes
<1>10. \A i \in Records \ {id} : NobodyOwes(i)' <=> NobodyOwes(i)
  <2>1. \A i \in Records \ {id} : ~Owes(w, i)
    BY <1>3 DEF Owes
  <2> QED BY <1>7, <1>9, <2>1 DEF NobodyOwes
<1>11. \A i \in Records : i \notin doubtful' => i \notin doubtful
  BY <1>2
<1>12. TypeOK'
  <2>1. \A v \in Workers : Request(req'[v])
    BY <1>5, <1>6 DEF TypeOK, Request
  <2>2. DOMAIN req' = Workers
    BY <1>2, <1>5
  <2>3. DOMAIN replica' = Records
    BY <1>2, <1>5
  <2>4. \A i \in Records : replica'[i] \in View(i) \cup {NoRow, Unknown}
    BY <1>2, <1>3, <1>4, <1>5 DEF TypeOK
  <2>5. doubtful' \subseteq Records
    BY <1>2, <1>3, <1>5 DEF TypeOK
  <2> QED BY <1>2, <1>5, <2>1, <2>2, <2>3, <2>4, <2>5 DEF TypeOK, Request
<1>13. RowsValid'
  BY <1>2 DEF IInv, RowsValid, Valid
<1>14. FilesNeedObject'
  BY <1>2 DEF IInv, FilesNeedObject
<1>15. PlannedValid'
  BY <1>6 DEF IInv, PlannedValid, Plans, ValidPlan, Idle
<1>16. PlannedFresh'
  BY <1>2, <1>6 DEF IInv, PlannedFresh, Plans, FreshPlan, Idle
<1>17. OneOwes'
  BY <1>8, <1>11 DEF IInv, OneOwes
<1>18. OwedIsCurrent'
  <2>1. ASSUME NEW i \in Records, i \notin doubtful', NEW v \in Workers, Owes(v, i)'
        PROVE  DebtIsCurrent(req[v])'
    <3>1. req'[v] = req[v] /\ DebtIsCurrent(req[v])
      BY <1>6, <1>8, <1>11, <2>1 DEF IInv, OwedIsCurrent
    <3> QED BY <1>2, <3>1 DEF DebtIsCurrent, Shows
  <2> QED BY <2>1 DEF OwedIsCurrent
<1>19. ReplicaKnows'
  <2>1. phase' = "off" => \A i \in Records : replica'[i] = Unknown
    BY <1>2 DEF IInv, ReplicaKnows
  <2>2. phase' \in {"queried", "live"} => \A i \in Records : replica'[i] # Unknown
    BY <1>2, <1>4, <1>5 DEF IInv, ReplicaKnows
  <2>3. ASSUME NEW i \in Records, i \notin doubtful', replica'[i] # Unknown, NobodyOwes(i)'
        PROVE  Shows(replica'[i], i)
    <3>1. CASE i = id
      <4>1. phase \in {"subscribed", "live"}
        BY <1>2, <1>5, <2>1, <2>3, <3>1 DEF TypeOK
      <4>2. replica'[i] = data
        BY <1>2, <1>3, <1>5, <3>1, <4>1
      <4>3. DebtIsCurrent(req[w])
        BY <1>3, <1>11, <2>3, <3>1 DEF IInv, OwedIsCurrent
      <4> QED BY <1>1, <1>2, <3>1, <4>2, <4>3 DEF DebtIsCurrent
    <3>2. CASE i # id
      <4>1. replica'[i] = replica[i] /\ NobodyOwes(i) /\ i \notin doubtful
        BY <1>2, <1>5, <1>10, <1>11, <2>3, <3>2
      <4> QED BY <2>3, <4>1 DEF IInv, ReplicaKnows
    <3> QED BY <3>1, <3>2
  <2>4. ASSUME NEW i \in Records, i \notin doubtful', replica'[i] # Unknown, NobodyOwes(i)'
        PROVE  Shows(replica[i], i)'
    BY <1>2, <2>3, <2>4 DEF Shows
  <2> QED BY <2>1, <2>2, <2>4 DEF ReplicaKnows
<1> QED BY <1>12, <1>13, <1>14, <1>15, <1>16, <1>17, <1>18, <1>19 DEF IInv

LEMMA SubscribeKeeps ==
  ASSUME IInv, Subscribe
  PROVE  IInv'
<1>1. /\ phase \in {"off", "queried"}
      /\ phase' = IF phase = "off" THEN "subscribed" ELSE "live"
      /\ UNCHANGED <<row, files, req, replica, scene, mixed, doubtful>>
  BY DEF Subscribe
<1>2. TypeOK'
  BY <1>1 DEF IInv, TypeOK
<1>3. RowsValid' /\ FilesNeedObject' /\ PlannedValid'
  BY <1>1 DEF IInv, RowsValid, Valid, FilesNeedObject, PlannedValid, Plans, ValidPlan
<1>4. PlannedFresh'
  BY <1>1 DEF IInv, PlannedFresh, Plans, FreshPlan
<1>5. OneOwes' /\ OwedIsCurrent'
  BY <1>1 DEF IInv, OneOwes, OwedIsCurrent, Owes, DebtIsCurrent, Shows
<1>6. ReplicaKnows'
  BY <1>1 DEF IInv, ReplicaKnows, NobodyOwes, Owes, Shows
<1> QED BY <1>2, <1>3, <1>4, <1>5, <1>6 DEF IInv

\* What the query reads, nobody doubts, unless an event of it is still to come.
LEMMA FullQueryKeeps ==
  ASSUME IInv, FullQuery
  PROVE  IInv'
<1>1. /\ phase \in {"off", "subscribed"}
      /\ phase' = IF phase = "off" THEN "queried" ELSE "live"
      /\ replica' = [id \in Records |-> IF replica[id] = Unknown THEN Current(id) ELSE replica[id]]
      /\ doubtful' = {id \in doubtful : replica[id] # Unknown \/ ~NobodyOwes(id)}
      /\ UNCHANGED <<row, files, req, scene, mixed>>
  BY DEF FullQuery
<1>2. TypeOK
  BY DEF IInv
<1>3. \A id \in Records : replica'[id] = IF replica[id] = Unknown THEN Current(id) ELSE replica[id]
  BY <1>1
<1>4. \A id \in Records : id \notin doubtful' =>
         id \notin doubtful \/ (replica[id] = Unknown /\ NobodyOwes(id))
  BY <1>1
<1>5. \A v \in Workers, id \in Records : Owes(v, id)' <=> Owes(v, id)
  BY <1>1 DEF Owes
<1>6. TypeOK'
  <2>1. \A id \in Records : replica'[id] \in View(id) \cup {NoRow, Unknown}
    BY <1>2, <1>3, CurrentShows DEF TypeOK
  <2>2. doubtful' \subseteq Records /\ DOMAIN replica' = Records
    BY <1>1, <1>2 DEF TypeOK
  <2> QED BY <1>1, <1>2, <2>1, <2>2 DEF TypeOK
<1>7. RowsValid' /\ FilesNeedObject' /\ PlannedValid'
  BY <1>1 DEF IInv, RowsValid, Valid, FilesNeedObject, PlannedValid, Plans, ValidPlan
<1>8. PlannedFresh'
  BY <1>1 DEF IInv, PlannedFresh, Plans, FreshPlan
<1>9. OneOwes'
  BY <1>4, <1>5 DEF IInv, OneOwes, NobodyOwes
<1>10. OwedIsCurrent'
  <2>1. ASSUME NEW id \in Records, id \notin doubtful', NEW w \in Workers, Owes(w, id)'
        PROVE  DebtIsCurrent(req[w])
    BY <1>4, <1>5, <2>1 DEF IInv, OwedIsCurrent, NobodyOwes
  <2>2. ASSUME NEW id \in Records, id \notin doubtful', NEW w \in Workers, Owes(w, id)'
        PROVE  DebtIsCurrent(req[w])'
    BY <1>1, <2>1, <2>2 DEF DebtIsCurrent, Shows
  <2> QED BY <2>2 DEF OwedIsCurrent
<1>11. ReplicaKnows'
  <2>1. \A id \in Records : replica'[id] # Unknown
    BY <1>2, <1>3, CurrentShows
  <2>2. ASSUME NEW id \in Records, id \notin doubtful', NobodyOwes(id)'
        PROVE  Shows(replica'[id], id)
    <3>1. NobodyOwes(id)
      BY <1>5, <2>2 DEF NobodyOwes
    <3>2. CASE replica[id] = Unknown
      BY <1>2, <1>3, <3>2, CurrentShows
    <3>3. CASE replica[id] # Unknown
      BY <1>3, <1>4, <2>2, <3>1, <3>3 DEF IInv, ReplicaKnows
    <3> QED BY <3>2, <3>3
  <2>3. ASSUME NEW id \in Records, id \notin doubtful', NobodyOwes(id)'
        PROVE  Shows(replica[id], id)'
    BY <1>1, <2>2, <2>3 DEF Shows
  <2>4. phase' # "off"
    BY <1>1
  <2> QED BY <2>1, <2>3, <2>4 DEF ReplicaKnows
<1> QED BY <1>6, <1>7, <1>8, <1>9, <1>10, <1>11 DEF IInv

LEMMA DisconnectKeeps ==
  ASSUME IInv, Disconnect
  PROVE  IInv'
<1>1. /\ phase' = "off"
      /\ replica' = [id \in Records |-> Unknown]
      /\ UNCHANGED <<row, files, req, scene, mixed, doubtful>>
  BY DEF Disconnect
<1>2. TypeOK'
  BY <1>1 DEF IInv, TypeOK
<1>3. RowsValid' /\ FilesNeedObject' /\ PlannedValid'
  BY <1>1 DEF IInv, RowsValid, Valid, FilesNeedObject, PlannedValid, Plans, ValidPlan
<1>4. PlannedFresh'
  BY <1>1 DEF IInv, PlannedFresh, Plans, FreshPlan
<1>5. OneOwes' /\ OwedIsCurrent'
  BY <1>1 DEF IInv, OneOwes, OwedIsCurrent, Owes, DebtIsCurrent, Shows
<1>6. ReplicaKnows'
  BY <1>1 DEF ReplicaKnows
<1> QED BY <1>2, <1>3, <1>4, <1>5, <1>6 DEF IInv

LEMMA RestartKeeps ==
  ASSUME IInv, Restart
  PROVE  IInv'
<1>1. /\ req' = [w \in Workers |-> Idle]
      /\ phase' = "off"
      /\ replica' = [id \in Records |-> Unknown]
      /\ UNCHANGED <<row, files, scene, mixed, doubtful>>
  BY DEF Restart
<1>2. \A w \in Workers : ~Plans(w)' /\ \A id : ~Owes(w, id)'
  BY <1>1 DEF Plans, Owes, Idle
<1>3. TypeOK'
  BY <1>1 DEF IInv, TypeOK
<1>4. RowsValid' /\ FilesNeedObject'
  BY <1>1 DEF IInv, RowsValid, Valid, FilesNeedObject
<1>5. PlannedValid' /\ PlannedFresh' /\ OneOwes' /\ OwedIsCurrent'
  BY <1>2 DEF PlannedValid, PlannedFresh, OneOwes, OwedIsCurrent
<1>6. ReplicaKnows'
  BY <1>1 DEF ReplicaKnows
<1> QED BY <1>3, <1>4, <1>5, <1>6 DEF IInv

LEMMA StutterKeeps ==
  ASSUME IInv, UNCHANGED vars
  PROVE  IInv'
<1>1. UNCHANGED <<row, files, req, phase, replica, scene, mixed, doubtful>>
  BY DEF vars, clientVars
<1>2. TypeOK'
  BY <1>1 DEF IInv, TypeOK
<1>3. RowsValid' /\ FilesNeedObject' /\ PlannedValid'
  BY <1>1 DEF IInv, RowsValid, Valid, FilesNeedObject, PlannedValid, Plans, ValidPlan
<1>4. PlannedFresh'
  BY <1>1 DEF IInv, PlannedFresh, Plans, FreshPlan
<1>5. OneOwes' /\ OwedIsCurrent'
  BY <1>1 DEF IInv, OneOwes, OwedIsCurrent, Owes, DebtIsCurrent, Shows
<1>6. ReplicaKnows'
  BY <1>1 DEF IInv, ReplicaKnows, NobodyOwes, Owes, Shows
<1> QED BY <1>2, <1>3, <1>4, <1>5, <1>6 DEF IInv

LEMMA InitHolds == Init => IInv
<1> SUFFICES ASSUME Init PROVE IInv
  OBVIOUS
<1>1. TypeOK
  BY BoundsAssumption DEF Init, TypeOK, NoFiles
<1>2. RowsValid /\ FilesNeedObject
  BY DEF Init, RowsValid, FilesNeedObject, Records
<1>3. \A w \in Workers : ~Plans(w) /\ \A id : ~Owes(w, id)
  BY DEF Init, Plans, Owes, Idle
<1>4. PlannedValid /\ PlannedFresh /\ OneOwes /\ OwedIsCurrent
  BY <1>3 DEF PlannedValid, PlannedFresh, OneOwes, OwedIsCurrent
<1>5. ReplicaKnows
  BY DEF Init, ReplicaKnows
<1> QED BY <1>1, <1>2, <1>4, <1>5 DEF IInv

LEMMA NextKeeps == IInv /\ [Next]_vars => IInv'
<1> SUFFICES ASSUME IInv, [Next]_vars PROVE IInv'
  OBVIOUS
<1>1. ASSUME NEW w \in Workers, Begin(w) PROVE IInv'
  BY <1>1, CreateEntityKeeps, CreateObservationKeeps, CreateObjectKeeps, PatchEntityKeeps,
     PatchObservationKeeps, PatchObjectKeeps, DeleteEntityKeeps, DeleteObservationKeeps,
     DeleteObjectKeeps, UploadObjectFileKeeps, AppendObjectFileKeeps, DeleteObjectFileKeeps
     DEF Begin
<1>2. ASSUME NEW w \in Workers, Continue(w) PROVE IInv'
  BY <1>2, InsertKeeps, ValidateKeeps, UpdateKeeps, RereadKeeps, ListObjectFilesKeeps,
     ListObjectFilesFailsKeeps, PublishKeeps, AbandonKeeps DEF Continue
<1>3. CASE Client
  BY <1>3, SubscribeKeeps, FullQueryKeeps, DisconnectKeeps DEF Client
<1>4. CASE Restart
  BY <1>4, RestartKeeps
<1>5. CASE UNCHANGED vars
  BY <1>5, StutterKeeps
<1> QED BY <1>1, <1>2, <1>3, <1>4, <1>5 DEF Next

-----------------------------------------------------------------------------
(* Theorems. *)

\* IInv is an invariant, for any number of requests, ids, names and files.
THEOREM Invariant == Spec => []IInv
<1>1. Init => IInv
  BY InitHolds
<1>2. IInv /\ [Next]_vars => IInv'
  BY NextKeeps
<1> QED BY <1>1, <1>2, PTL DEF Spec

\* Rows, requests and the replica keep their sorts; no sentinel of a patch is
\* ever stored.
THEOREM TypeCorrect == Spec => []TypeOK
<1>1. IInv => TypeOK
  BY DEF IInv
<1> QED BY <1>1, Invariant, PTL

\* Stored JSON is valid for its row, however creates, patches and deletes of one
\* id interleave.
THEOREM StoredJSONValid == Spec => []RowsValid
<1>1. IInv => RowsValid
  BY DEF IInv
<1> QED BY <1>1, Invariant, PTL

\* A client that has subscribed and queried is up to date wherever no event is
\* owed or doubtful.
THEOREM ReplicaUpToDate == Spec => []ReplicaCurrent
<1>1. IInv => ReplicaCurrent
  BY DEF IInv, ReplicaKnows, ReplicaCurrent
<1> QED BY <1>1, Invariant, PTL

\* A patch that nothing has overtaken changes only what it names.
THEOREM PatchesAtomic == Spec => UndisturbedPatchesKeepTheRest
<1> DEFINE Atomic(w) ==
      LET id == req[w].id IN
        (req[w].step = "update" /\ ~req[w].stale /\ row'[id] # row[id] /\ Update(w)) =>
          \A f \in DOMAIN row[id] : row'[id][f] # row[id][f] => f \in req[w].named
<1>1. ASSUME IInv, NEW w \in Workers PROVE Atomic(w)
  <2> SUFFICES ASSUME req[w].step = "update", ~req[w].stale, Update(w),
                      row'[req[w].id] # row[req[w].id],
                      NEW f \in DOMAIN row[req[w].id],
                      row'[req[w].id][f] # row[req[w].id][f]
               PROVE  f \in req[w].named
    OBVIOUS
  <2>1. Plans(w) /\ req[w].id \in Records /\ DOMAIN row = Records
    BY <1>1, RequestCases DEF IInv, TypeOK, Plans
  <2>2. row'[req[w].id] = Updated(row[req[w].id], req[w].next)
    BY <2>1 DEF Update
  <2>3. req[w].next[f] # row[req[w].id][f]
    BY <2>2 DEF Updated
  <2>4. FreshPlan(req[w])
    BY <1>1, <2>1 DEF IInv, PlannedFresh
  <2> QED BY <2>3, <2>4 DEF FreshPlan
<1>2. IInv /\ [Next]_vars => [\A w \in Workers : Atomic(w)]_vars
  BY <1>1
<1> QED BY <1>2, Invariant, PTL DEF Spec, UndisturbedPatchesKeepTheRest

=============================================================================
