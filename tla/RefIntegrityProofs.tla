------------------------- MODULE RefIntegrityProofs -------------------------
(***************************************************************************)
(* Proofs about RefIntegrity, for any number of requests, records and      *)
(* catalogs: the foreign references and the objects of observations are    *)
(* never left dangling, and what a delete and an insert have checked holds *)
(* until another request overtakes them.                                   *)
(***************************************************************************)
EXTENDS RefIntegrity, TLAPS

-----------------------------------------------------------------------------
(* Types. *)

\* The step of a request tells what else it holds.
LEMMA RequestKinds ==
  ASSUME NEW r \in Request \cup {Idle}
  PROVE  /\ r.step = "insert_observation" =>
              /\ r \in [step : {"insert_observation"}, id : Observations,
                        row : Entities, stale : BOOLEAN]
              /\ r.id \in Observations /\ r.row \in Entities /\ r.stale \in BOOLEAN
         /\ r.step = "insert_task" =>
              /\ r \in [step : {"insert_task"}, id : Tasks, row : TaskRow, stale : BOOLEAN]
              /\ r.id \in Tasks /\ r.row \in TaskRow /\ r.stale \in BOOLEAN
         /\ r.step \in {"lock_owner", "insert_object"} =>
              /\ r \in [step : {"lock_owner", "insert_object"}, id : Objects, row : Owner]
              /\ r.id \in Objects /\ r.row \in Owner
         /\ r.step \in {"observations", "objects", "delete"} =>
              /\ r \in [step : {"observations", "objects", "delete"}, of : Deletable,
                        stale : BOOLEAN]
              /\ r.of \in Deletable /\ r.stale \in BOOLEAN
         /\ r.step = "cascade" =>
              r \in [step : {"cascade"}, of : Observations] /\ r.of \in Observations
<1>1. CASE r \in [step : {"insert_observation"}, id : Observations,
                   row : Entities, stale : BOOLEAN]
  BY <1>1
<1>2. CASE r \in [step : {"insert_task"}, id : Tasks, row : TaskRow, stale : BOOLEAN]
  BY <1>2
<1>3. CASE r \in [step : {"lock_owner", "insert_object"}, id : Objects, row : Owner]
  BY <1>3
<1>4. CASE r \in [step : {"observations", "objects", "delete"}, of : Deletable,
                   stale : BOOLEAN]
  BY <1>4
<1>5. CASE r \in [step : {"cascade"}, of : Observations]
  BY <1>5
<1>6. CASE r = Idle
  BY <1>6 DEF Idle
<1> QED BY <1>1, <1>2, <1>3, <1>4, <1>5, <1>6 DEF Request

\* Marking requests as overtaken keeps their sorts.
LEMMA OvertakingType ==
  ASSUME req \in [Workers -> Request \cup {Idle}], NEW w \in Workers, NEW S,
         \A v \in S : req[v].step \in {"insert_observation", "insert_task", "delete"},
         RespondOvertaking(w, S)
  PROVE  req' \in [Workers -> Request \cup {Idle}]
<1> SUFFICES ASSUME NEW v \in Workers, v # w, v \in S
             PROVE  [req[v] EXCEPT !.stale = TRUE] \in Request
  BY DEF RespondOvertaking
<1>1. req[v] \in Request \cup {Idle} /\ req[v].step \in {"insert_observation", "insert_task", "delete"}
  OBVIOUS
<1>2. CASE req[v].step = "insert_observation"
  <2>1. req[v] \in [step : {"insert_observation"}, id : Observations, row : Entities, stale : BOOLEAN]
    BY <1>1, <1>2, RequestKinds
  <2>2. [req[v] EXCEPT !.stale = TRUE]
          \in [step : {"insert_observation"}, id : Observations, row : Entities, stale : BOOLEAN]
    BY <2>1
  <2> QED BY <2>2 DEF Request
<1>3. CASE req[v].step = "insert_task"
  <2>1. req[v] \in [step : {"insert_task"}, id : Tasks, row : TaskRow, stale : BOOLEAN]
    BY <1>1, <1>3, RequestKinds
  <2>2. [req[v] EXCEPT !.stale = TRUE]
          \in [step : {"insert_task"}, id : Tasks, row : TaskRow, stale : BOOLEAN]
    BY <2>1
  <2> QED BY <2>2 DEF Request
<1>4. CASE req[v].step = "delete"
  <2>1. req[v] \in [step : {"observations", "objects", "delete"}, of : Deletable, stale : BOOLEAN]
    BY <1>1, <1>4, RequestKinds
  <2>2. [req[v] EXCEPT !.stale = TRUE]
          \in [step : {"observations", "objects", "delete"}, of : Deletable, stale : BOOLEAN]
    BY <2>1
  <2> QED BY <2>2 DEF Request
<1> QED BY <1>1, <1>2, <1>3, <1>4

\* The initial state has the types of TypeOK.
LEMMA TypeInit == Init => TypeOK
  BY DEF Init, TypeOK

\* Every step of a request that creates a record keeps the types.
LEMMA TypeCreate ==
  ASSUME TypeOK, NEW w \in Workers, Create(w)
  PROVE  TypeOK'
<1> USE DEF TypeOK
<1>0. req[w] \in Request \cup {Idle}
  OBVIOUS
<1>1. CASE CreateObservationValidate(w)
  <2>1. PICK o \in Observations, e \in Entities :
          Begin(w, [step |-> "insert_observation", id |-> o, row |-> e, stale |-> FALSE])
    BY <1>1 DEF CreateObservationValidate
  <2>2. [step |-> "insert_observation", id |-> o, row |-> e, stale |-> FALSE] \in Request
    BY DEF Request
  <2> QED BY <2>1, <2>2 DEF Begin, tables
<1>2. CASE CreateObservationInsert(w)
  BY <1>0, <1>2, RequestKinds DEF CreateObservationInsert, Respond
<1>3. CASE CreateTaskValidate(w)
  <2>1. PICK t \in Tasks, e \in Entities :
          /\ active # NoCatalog
          /\ Begin(w, [step |-> "insert_task", id |-> t,
                       row |-> [asset |-> e, catalog |-> active], stale |-> FALSE])
    BY <1>3 DEF CreateTaskValidate
  <2>2. [asset |-> e, catalog |-> active] \in TaskRow
    BY <2>1, ConstantsAssumption DEF TaskRow
  <2>3. [step |-> "insert_task", id |-> t, row |-> [asset |-> e, catalog |-> active],
         stale |-> FALSE] \in Request
    BY <2>2 DEF Request
  <2> QED BY <2>1, <2>3 DEF Begin, tables
<1>4. CASE CreateTaskInsert(w)
  <2>1. req[w].id \in Tasks /\ req[w].row \in TaskRow
    BY <1>0, <1>4, RequestKinds DEF CreateTaskInsert
  <2> QED BY <1>4, <2>1 DEF CreateTaskInsert, Respond
<1>5. CASE CreateObjectValidate(w)
  <2>1. PICK x \in Objects, owner \in Owner :
          Begin(w, [step |-> IF owner = System THEN "insert_object" ELSE "lock_owner",
                    id |-> x, row |-> owner])
    BY <1>5 DEF CreateObjectValidate
  <2>2. [step |-> IF owner = System THEN "insert_object" ELSE "lock_owner",
         id |-> x, row |-> owner] \in Request
    BY DEF Request
  <2> QED BY <2>1, <2>2 DEF Begin, tables
<1>6. CASE CreateObjectLockOwner(w)
  <2>1. req[w] \in [step : {"lock_owner", "insert_object"}, id : Objects, row : Owner]
    BY <1>0, <1>6, RequestKinds DEF CreateObjectLockOwner
  <2>2. [req[w] EXCEPT !.step = "insert_object"] \in Request
    BY <2>1 DEF Request
  <2> QED BY <1>6, <2>2 DEF CreateObjectLockOwner, Advance, Respond, tables
<1>7. CASE CreateObjectInsert(w)
  <2>1. req[w].id \in Objects /\ req[w].row \in Owner
    BY <1>0, <1>7, RequestKinds DEF CreateObjectInsert
  <2>2. req' \in [Workers -> Request \cup {Idle}]
    BY <1>7, OvertakingType DEF CreateObjectInsert, Respond
  <2> QED BY <1>7, <2>1, <2>2 DEF CreateObjectInsert
<1> QED BY <1>1, <1>2, <1>3, <1>4, <1>5, <1>6, <1>7 DEF Create

\* Every step of a request that deletes a record keeps the types.
LEMMA TypeDelete ==
  ASSUME TypeOK, NEW w \in Workers, Delete(w)
  PROVE  TypeOK'
<1> USE DEF TypeOK
<1>0. req[w] \in Request \cup {Idle}
  OBVIOUS
<1>1. CASE CountTasks(w)
  <2>1. PICK e \in Entities :
          Begin(w, [step |-> "observations", of |-> <<"entity", e>>, stale |-> FALSE])
    BY <1>1 DEF CountTasks
  <2>2. [step |-> "observations", of |-> <<"entity", e>>, stale |-> FALSE] \in Request
    BY DEF Request, Deletable
  <2> QED BY <2>1, <2>2 DEF Begin, tables
<1>2. CASE CountObservations(w) \/ CountObjects(w)
  <2>1. req[w] \in [step : {"observations", "objects", "delete"}, of : Deletable, stale : BOOLEAN]
    BY <1>0, <1>2, RequestKinds DEF CountObservations, CountObjects
  <2>2. [req[w] EXCEPT !.step = "objects"] \in Request /\ [req[w] EXCEPT !.step = "delete"] \in Request
    BY <2>1 DEF Request
  <2> QED BY <1>2, <2>2 DEF CountObservations, CountObjects, Advance, Respond, tables
<1>3. CASE CountTaskOwnedObjects(w)
  <2>1. PICK t \in Tasks :
          Begin(w, [step |-> "delete", of |-> <<"task", t>>, stale |-> FALSE])
    BY <1>3 DEF CountTaskOwnedObjects
  <2>2. [step |-> "delete", of |-> <<"task", t>>, stale |-> FALSE] \in Request
    BY DEF Request, Deletable
  <2> QED BY <2>1, <2>2 DEF Begin, tables
<1>4. CASE DeleteEntity(w)
  <2>1. req' \in [Workers -> Request \cup {Idle}]
    BY <1>4, OvertakingType DEF DeleteEntity, Respond
  <2> QED BY <1>4, <2>1 DEF DeleteEntity
<1>5. CASE DeleteTask(w)
  BY <1>5 DEF DeleteTask, Respond
<1>6. CASE DeleteObservation(w)
  <2>1. PICK o \in Observations : Begin(w, [step |-> "cascade", of |-> o])
    BY <1>6 DEF DeleteObservation
  <2>2. [step |-> "cascade", of |-> o] \in Request
    BY DEF Request
  <2> QED BY <2>1, <2>2 DEF Begin, tables
<1>7. CASE DeleteOwnedObjects(w)
  BY <1>7 DEF DeleteOwnedObjects, Respond
<1> QED BY <1>1, <1>2, <1>3, <1>4, <1>5, <1>6, <1>7 DEF Delete

\* Every step keeps the types.
LEMMA TypeStep == TypeOK /\ [Next]_vars => TypeOK'
<1> SUFFICES ASSUME TypeOK, [Next]_vars PROVE TypeOK'
  OBVIOUS
<1>1. CASE UNCHANGED vars
  BY <1>1 DEF TypeOK, vars, tables
<1>2. ASSUME NEW w \in Workers, Create(w) \/ Delete(w) \/ Abandon(w) PROVE TypeOK'
  BY <1>2, TypeCreate, TypeDelete DEF Abandon, TypeOK, Respond, tables
<1>3. ASSUME NEW e \in Entities, NEW type \in EntityTypes, CreateEntity(e, type) PROVE TypeOK'
  BY <1>3 DEF CreateEntity, TypeOK
<1>4. ASSUME NEW x \in Objects, DeleteObject(x) PROVE TypeOK'
  BY <1>4 DEF DeleteObject, TypeOK
<1>5. ASSUME NEW k \in Catalogs, Restart(k) PROVE TypeOK'
  BY <1>5 DEF Restart, TypeOK, Owner
<1> QED BY <1>1, <1>2, <1>3, <1>4, <1>5 DEF Next

\* In every behaviour the variables have the types of TypeOK.
THEOREM TypeCorrect == Spec => []TypeOK
<1>1. TypeOK /\ [Next]_vars => TypeOK' BY TypeStep
<1> QED BY TypeInit, <1>1, PTL DEF Spec

-----------------------------------------------------------------------------
(* What the steps do to the requests. *)

\* A request keeps all but its mark when another one overtakes it.
LEMMA Overtaken ==
  ASSUME TypeOK, NEW w \in Workers, NEW S,
         \A v \in S : req[v].step \in {"insert_observation", "insert_task", "delete"},
         RespondOvertaking(w, S), NEW v \in Workers, v # w
  PROVE  /\ req'[v].step = req[v].step
         /\ v \notin S => req'[v] = req[v]
         /\ v \in S => req'[v].stale
         /\ req[v].step \in {"insert_observation", "insert_task"} => req'[v].row = req[v].row
         /\ req[v].step = "delete" => req'[v].of = req[v].of
<1>1. CASE v \notin S
  BY <1>1 DEF RespondOvertaking
<1>2. CASE v \in S
  <2>1. req'[v] = [req[v] EXCEPT !.stale = TRUE]
    BY <1>2 DEF RespondOvertaking
  <2>2. CASE req[v].step = "insert_observation"
    <3>1. req[v] \in [step : {"insert_observation"}, id : Observations, row : Entities, stale : BOOLEAN]
      BY <2>2, RequestKinds DEF TypeOK
    <3> QED BY <1>2, <2>1, <3>1
  <2>3. CASE req[v].step = "insert_task"
    <3>1. req[v] \in [step : {"insert_task"}, id : Tasks, row : TaskRow, stale : BOOLEAN]
      BY <2>3, RequestKinds DEF TypeOK
    <3> QED BY <1>2, <2>1, <3>1
  <2>4. CASE req[v].step = "delete"
    <3>1. req[v] \in [step : {"observations", "objects", "delete"}, of : Deletable, stale : BOOLEAN]
      BY <2>4, RequestKinds DEF TypeOK
    <3> QED BY <1>2, <2>1, <3>1
  <2> QED BY <1>2, <2>2, <2>3, <2>4
<1> QED BY <1>1, <1>2

\* The requests that an insertion of an object or a deletion of an entity marks.
InsertOvertakes(w) ==
  {v \in Workers : req[v].step = "delete" /\ req[v].of = req[w].row}

DeleteOvertakes(e) ==
  {v \in Workers : \/ req[v].step = "insert_observation" /\ req[v].row = e
                   \/ req[v].step = "insert_task" /\ req[v].row.asset = e}

\* CreateObjectInsert either inserts and overtakes, or only responds.
LEMMA InsertCases ==
  ASSUME NEW w \in Workers, CreateObjectInsert(w)
  PROVE  /\ req[w].step = "insert_object"
         /\ UNCHANGED <<entity, observation, task, active>>
         /\ \/ /\ object[req[w].id] = NoRow
               /\ object' = [object EXCEPT ![req[w].id] = req[w].row]
               /\ RespondOvertaking(w, InsertOvertakes(w))
            \/ req' = Respond(w) /\ UNCHANGED object
  BY DEF CreateObjectInsert, InsertOvertakes

\* DeleteEntity either deletes an entity that nothing names, or only responds.
LEMMA DeleteCases ==
  ASSUME NEW w \in Workers, DeleteEntity(w)
  PROVE  /\ req[w].step = "delete"
         /\ UNCHANGED <<observation, task, object, active>>
         /\ \E e : /\ req[w].of = <<"entity", e>>
                  /\ ~KeyShared(<<"entity", e>>)
                  /\ \/ /\ \A t \in Tasks : task[t] # NoRow => task[t].asset # e
                        /\ \A o \in Observations : observation[o] # e
                        /\ entity' = [entity EXCEPT ![e] = NoRow]
                        /\ RespondOvertaking(w, DeleteOvertakes(e))
                     \/ req' = Respond(w) /\ UNCHANGED entity
  BY DEF DeleteEntity, DeleteOvertakes

\* The statements that begin or advance a request.
Reads(w) ==
  \/ CreateObservationValidate(w) \/ CreateTaskValidate(w)
  \/ CreateObjectValidate(w) \/ CreateObjectLockOwner(w)
  \/ CountTasks(w) \/ CountObservations(w) \/ CountObjects(w)
  \/ CountTaskOwnedObjects(w) \/ DeleteObservation(w)

\* A statement that only reads: it changes nothing but its own request.
ReadStep(w) ==
  /\ UNCHANGED <<tables, active>>
  /\ \A v \in Workers : v # w => req'[v] = req[v]

\* Those statements, and the end of a request at any point, only read.
LEMMA ReadSteps ==
  ASSUME TypeOK, NEW w \in Workers, Reads(w) \/ Abandon(w)
  PROVE  ReadStep(w)
<1>1. (\E r : Begin(w, r)) \/ (\E c, step : Advance(w, c, step)) \/ Abandon(w)
  BY DEF CreateObservationValidate, CreateTaskValidate, CreateObjectValidate,
     CreateObjectLockOwner, CountTasks, CountObservations, CountObjects,
     CountTaskOwnedObjects, DeleteObservation, Reads
<1>2. ASSUME NEW r, Begin(w, r) PROVE ReadStep(w)
  BY <1>2 DEF Begin, ReadStep, TypeOK
<1>3. ASSUME NEW c, NEW step, Advance(w, c, step) PROVE ReadStep(w)
  BY <1>3 DEF Advance, Respond, ReadStep, TypeOK
<1>4. ASSUME Abandon(w) PROVE ReadStep(w)
  BY <1>4 DEF Abandon, Respond, ReadStep, TypeOK
<1> QED BY <1>1, <1>2, <1>3, <1>4

\* A request that advances keeps what it holds, one that does not ends.
LEMMA Advanced ==
  ASSUME TypeOK, NEW w \in Workers, NEW c, NEW step, Advance(w, c, step),
         req[w].step \in {"lock_owner", "observations", "objects"}
  PROVE  \/ req'[w] = Idle
         \/ /\ c /\ req'[w].step = step
            /\ req[w].step = "lock_owner" => req'[w].row = req[w].row
            /\ req[w].step # "lock_owner" =>
                 req'[w].of = req[w].of /\ req'[w].stale = req[w].stale
<1>1. (req' = [req EXCEPT ![w].step = step] /\ c) \/ req' = Respond(w)
  BY DEF Advance
<1>2. CASE req' = Respond(w)
  BY <1>2 DEF Respond, TypeOK
<1>3. CASE c /\ req' = [req EXCEPT ![w].step = step]
  <2>1. req'[w] = [req[w] EXCEPT !.step = step]
    BY <1>3 DEF TypeOK
  <2>2. CASE req[w].step = "lock_owner"
    <3>1. req[w] \in [step : {"lock_owner", "insert_object"}, id : Objects, row : Owner]
      BY <2>2, RequestKinds DEF TypeOK
    <3>2. req'[w].step = step /\ req'[w].row = req[w].row
      BY <2>1, <3>1
    <3> QED BY <1>3, <2>2, <3>2
  <2>3. CASE req[w].step \in {"observations", "objects"}
    <3>1. req[w] \in [step : {"observations", "objects", "delete"}, of : Deletable, stale : BOOLEAN]
      BY <2>3, RequestKinds DEF TypeOK
    <3>2. req'[w].step = step /\ req'[w].of = req[w].of /\ req'[w].stale = req[w].stale
      BY <2>1, <3>1
    <3> QED BY <1>3, <2>3, <3>2
  <2> QED BY <2>2, <2>3
<1> QED BY <1>1, <1>2, <1>3

\* What a request is at after it has begun or advanced.
LEMMA StepAfter ==
  ASSUME TypeOK, NEW w \in Workers, Reads(w), req'[w] # Idle
  PROVE  \/ CreateObservationValidate(w) /\ req'[w].step = "insert_observation"
         \/ CreateTaskValidate(w) /\ req'[w].step = "insert_task"
         \/ CreateObjectValidate(w) /\ req'[w].step \in {"lock_owner", "insert_object"}
         \/ CreateObjectLockOwner(w) /\ req'[w].step = "insert_object"
         \/ CountTasks(w) /\ req'[w].step = "observations"
         \/ CountObservations(w) /\ req'[w].step = "objects"
         \/ CountObjects(w) /\ req'[w].step = "delete"
         \/ CountTaskOwnedObjects(w) /\ req'[w].step = "delete"
         \/ DeleteObservation(w) /\ req'[w].step = "cascade"
<1>1. CASE CreateObjectLockOwner(w)
  BY <1>1, Advanced DEF CreateObjectLockOwner
<1>2. CASE CountObservations(w)
  BY <1>2, Advanced DEF CountObservations
<1>3. CASE CountObjects(w)
  BY <1>3, Advanced DEF CountObjects
<1>4. CASE CreateObservationValidate(w) \/ CreateTaskValidate(w)
  BY <1>4 DEF CreateObservationValidate, CreateTaskValidate, Begin, TypeOK
<1>5. CASE CreateObjectValidate(w)
  <2>1. PICK x \in Objects, owner \in Owner :
          req' = [req EXCEPT ![w] =
            [step |-> IF owner = System THEN "insert_object" ELSE "lock_owner",
             id |-> x, row |-> owner]]
    BY <1>5 DEF CreateObjectValidate, Begin
  <2>2. req'[w].step = IF owner = System THEN "insert_object" ELSE "lock_owner"
    BY <2>1 DEF TypeOK
  <2> QED BY <1>5, <2>2
<1>6. CASE CountTasks(w)
  <2>1. \E e \in Entities : req' = [req EXCEPT ![w] =
          [step |-> "observations", of |-> <<"entity", e>>, stale |-> FALSE]]
    BY <1>6 DEF CountTasks, Begin
  <2>2. req'[w].step = "observations"
    BY <2>1 DEF TypeOK
  <2> QED BY <1>6, <2>2
<1>7. CASE CountTaskOwnedObjects(w)
  <2>1. \E t \in Tasks : req' = [req EXCEPT ![w] =
          [step |-> "delete", of |-> <<"task", t>>, stale |-> FALSE]]
    BY <1>7 DEF CountTaskOwnedObjects, Begin
  <2>2. req'[w].step = "delete"
    BY <2>1 DEF TypeOK
  <2> QED BY <1>7, <2>2
<1>8. CASE DeleteObservation(w)
  <2>1. \E o \in Observations : req' = [req EXCEPT ![w] =
          [step |-> "cascade", of |-> o]]
    BY <1>8 DEF DeleteObservation, Begin
  <2>2. req'[w].step = "cascade"
    BY <2>1 DEF TypeOK
  <2> QED BY <1>8, <2>2
<1> QED BY <1>1, <1>2, <1>3, <1>4, <1>5, <1>6, <1>7, <1>8 DEF Reads

\* The mark of a request that has been overtaken.
Marked(v) ==
  /\ req[v].step \in {"insert_observation", "insert_task", "delete"}
  /\ req'[v].step = req[v].step /\ req'[v].stale
  /\ req[v].step = "delete" => req'[v].of = req[v].of
  /\ req[v].step \in {"insert_observation", "insert_task"} => req'[v].row = req[v].row

\* A request stays as it is, ends, is overtaken, or reads on.
Explained(v) ==
  \/ req'[v] = req[v]
  \/ req'[v] = Idle
  \/ Marked(v)
  \/ Reads(v) /\ UNCHANGED <<tables, active>>

\* Where the request of a worker comes from.
LEMMA Origin ==
  ASSUME TypeOK, [Next]_vars, NEW v \in Workers
  PROVE  Explained(v)
<1>1. CASE UNCHANGED vars \/ \E k \in Catalogs : Restart(k)
  BY <1>1 DEF vars, Restart, Explained
<1>2. ASSUME NEW w \in Workers, Reads(w) \/ Abandon(w) PROVE Explained(v)
  BY <1>2, ReadSteps DEF ReadStep, Abandon, Respond, TypeOK, Explained
<1>3. ASSUME NEW w \in Workers,
             \/ CreateObservationInsert(w) \/ CreateTaskInsert(w) \/ DeleteTask(w)
             \/ DeleteOwnedObjects(w)
      PROVE  Explained(v)
  BY <1>3 DEF CreateObservationInsert, CreateTaskInsert, DeleteTask, DeleteOwnedObjects,
              Respond, TypeOK, Explained
<1>4. ASSUME NEW w \in Workers, NEW S,
             \A u \in S : req[u].step \in {"insert_observation", "insert_task", "delete"},
             RespondOvertaking(w, S)
      PROVE  Explained(v)
  <2>1. CASE v = w
    BY <1>4, <2>1 DEF RespondOvertaking, Explained
  <2>2. CASE v # w
    BY <1>4, <2>2, Overtaken DEF Marked, Explained
  <2> QED BY <2>1, <2>2
<1>5. ASSUME NEW w \in Workers, CreateObjectInsert(w) PROVE Explained(v)
  <2>1. CASE req' = Respond(w)
    BY <2>1 DEF Respond, TypeOK, Explained
  <2>2. CASE RespondOvertaking(w, InsertOvertakes(w))
    <3>1. \A u \in InsertOvertakes(w) : req[u].step \in {"insert_observation", "insert_task", "delete"}
      BY DEF InsertOvertakes
    <3> QED BY <1>4, <2>2, <3>1
  <2> QED BY <1>5, <2>1, <2>2, InsertCases
<1>6. ASSUME NEW w \in Workers, DeleteEntity(w) PROVE Explained(v)
  <2>1. CASE req' = Respond(w)
    BY <2>1 DEF Respond, TypeOK, Explained
  <2>2. ASSUME NEW e, RespondOvertaking(w, DeleteOvertakes(e)) PROVE Explained(v)
    <3>1. \A u \in DeleteOvertakes(e) : req[u].step \in {"insert_observation", "insert_task", "delete"}
      BY DEF DeleteOvertakes
    <3> QED BY <1>4, <2>2, <3>1
  <2> QED BY <1>6, <2>1, <2>2, DeleteCases
<1>7. CASE \/ \E e \in Entities, type \in EntityTypes : CreateEntity(e, type)
           \/ \E x \in Objects : DeleteObject(x)
  BY <1>7 DEF CreateEntity, DeleteObject, Explained
<1> QED
  BY <1>1, <1>2, <1>3, <1>5, <1>6, <1>7 DEF Next, Create, Delete, Reads

-----------------------------------------------------------------------------
(* The references that foreign keys guard. *)

\* No step leaves an observation without its source, or a task without its asset
\* or its catalog object.
LEMMA ReferencesStep ==
  TypeOK /\ ReferencesExist /\ [Next]_vars => ReferencesExist'
<1> SUFFICES ASSUME TypeOK, ReferencesExist, [Next]_vars PROVE ReferencesExist'
  OBVIOUS
<1> USE NoRowAssumption
<1>1. ASSUME UNCHANGED tables PROVE ReferencesExist'
  BY <1>1 DEF ReferencesExist, tables
<1>2. ASSUME NEW w \in Workers, CreateObservationInsert(w) PROVE ReferencesExist'
  BY <1>2 DEF CreateObservationInsert, ReferencesExist, TypeOK
<1>3. ASSUME NEW w \in Workers, CreateTaskInsert(w) PROVE ReferencesExist'
  BY <1>3 DEF CreateTaskInsert, ReferencesExist, TypeOK
<1>4. ASSUME NEW w \in Workers, CreateObjectInsert(w) PROVE ReferencesExist'
  <2>0. req[w] \in Request \cup {Idle} /\ req[w].step = "insert_object"
    BY <1>4, InsertCases DEF TypeOK
  <2>1. req[w].row # NoRow
    BY <2>0, RequestKinds
  <2>2. \A x \in Objects : object[x] # NoRow => object'[x] # NoRow
    BY <1>4, <2>1, InsertCases DEF TypeOK
  <2>3. UNCHANGED <<entity, observation, task>>
    BY <1>4, InsertCases
  <2>4. \A t \in Tasks : task[t] # NoRow => task[t].catalog \in Objects
    BY DEF TypeOK, TaskRow
  <2> QED BY <2>2, <2>3, <2>4 DEF ReferencesExist
<1>5. ASSUME NEW w \in Workers, DeleteEntity(w) PROVE ReferencesExist'
  <2>1. PICK e : \/ /\ \A t \in Tasks : task[t] # NoRow => task[t].asset # e
                    /\ \A o \in Observations : observation[o] # e
                    /\ entity' = [entity EXCEPT ![e] = NoRow]
                 \/ UNCHANGED entity
    BY <1>5, DeleteCases
  <2>2. UNCHANGED <<observation, task, object>>
    BY <1>5, DeleteCases
  <2>3. \A f \in Entities : f # e => entity'[f] = entity[f]
    BY <2>1 DEF TypeOK
  <2>4. \A t \in Tasks : task[t] # NoRow => task[t].asset \in Entities
    BY DEF TypeOK, TaskRow
  <2>5. \A o \in Observations : observation[o] # NoRow => observation[o] \in Entities
    BY DEF TypeOK
  <2> QED BY <2>1, <2>2, <2>3, <2>4, <2>5 DEF ReferencesExist
<1>6. ASSUME NEW w \in Workers, DeleteTask(w) PROVE ReferencesExist'
  BY <1>6 DEF DeleteTask, ReferencesExist, TypeOK
<1>7. ASSUME NEW w \in Workers, DeleteOwnedObjects(w) PROVE ReferencesExist'
  <2>1. \A t \in Tasks : task[t] # NoRow => task[t].catalog \in Objects
    BY DEF TypeOK, TaskRow
  <2> QED BY <1>7, <2>1 DEF DeleteOwnedObjects, ReferencesExist, TypeOK
<1>8. ASSUME NEW e \in Entities, NEW type \in EntityTypes, CreateEntity(e, type)
      PROVE  ReferencesExist'
  <2>1. \A f \in Entities : entity[f] # NoRow => entity'[f] # NoRow
    BY <1>8 DEF CreateEntity, TypeOK
  <2>2. \A t \in Tasks : task[t] # NoRow => task[t].asset \in Entities
    BY DEF TypeOK, TaskRow
  <2> QED BY <1>8, <2>1, <2>2 DEF CreateEntity, ReferencesExist, TypeOK
<1>9. ASSUME NEW x \in Objects, DeleteObject(x) PROVE ReferencesExist'
  <2>1. \A t \in Tasks : task[t] # NoRow => object'[task[t].catalog] = object[task[t].catalog]
    BY <1>9 DEF DeleteObject, TypeOK
  <2> QED BY <1>9, <2>1 DEF DeleteObject, ReferencesExist
<1>10. ASSUME NEW k \in Catalogs, Restart(k) PROVE ReferencesExist'
  <2>1. \A x \in Objects : object[x] # NoRow => object'[x] # NoRow
    BY <1>10 DEF Restart, TypeOK, Owner
  <2>2. \A t \in Tasks : task[t] # NoRow => task[t].catalog \in Objects
    BY DEF TypeOK, TaskRow
  <2> QED BY <1>10, <2>1, <2>2 DEF Restart, ReferencesExist
<1> QED
  BY <1>1, <1>2, <1>3, <1>4, <1>5, <1>6, <1>7, <1>8, <1>9, <1>10, ReadSteps
     DEF Next, Create, Delete, Reads, ReadStep, vars, tables

-----------------------------------------------------------------------------
(* The row locks of inserts and cascades. *)

\* An object is never left behind by the observation that owns it.
LEMMA ObservationObjectsStep ==
  TypeOK /\ ObservationObjectsOwned /\ LockedOwnersStay /\ [Next]_vars
    => ObservationObjectsOwned'
<1> SUFFICES ASSUME TypeOK, ObservationObjectsOwned, LockedOwnersStay, [Next]_vars
             PROVE  ObservationObjectsOwned'
  OBVIOUS
<1> USE NoRowAssumption
<1>1. ASSUME UNCHANGED <<observation, object>> PROVE ObservationObjectsOwned'
  BY <1>1 DEF ObservationObjectsOwned
<1>2. ASSUME NEW w \in Workers, CreateObservationInsert(w) PROVE ObservationObjectsOwned'
  <2>1. req[w].row \in Entities
    BY <1>2, RequestKinds DEF CreateObservationInsert, TypeOK
  <2>2. \A o \in Observations : observation[o] # NoRow => observation'[o] # NoRow
    BY <1>2, <2>1 DEF CreateObservationInsert, TypeOK
  <2> QED BY <1>2, <2>2 DEF CreateObservationInsert, ObservationObjectsOwned
<1>3. ASSUME NEW w \in Workers, CreateObjectInsert(w) PROVE ObservationObjectsOwned'
  <2>1. Exists(req[w].row)
    BY <1>3, InsertCases DEF LockedOwnersStay
  <2>2. \A o \in Observations : req[w].row = <<"observation", o>> => observation[o] # NoRow
    BY <2>1 DEF Exists, System
  <2>3. \A x \in Objects : object'[x] = object[x] \/ object'[x] = req[w].row
    BY <1>3, InsertCases DEF TypeOK
  <2>4. UNCHANGED observation
    BY <1>3, InsertCases
  <2> QED BY <2>2, <2>3, <2>4 DEF ObservationObjectsOwned
<1>4. ASSUME NEW w \in Workers, DeleteOwnedObjects(w) PROVE ObservationObjectsOwned'
  <2>1. CASE UNCHANGED <<observation, object>>
    BY <1>1, <2>1
  <2>2. CASE /\ observation' = [observation EXCEPT ![req[w].of] = NoRow]
             /\ object' = [x \in Objects |->
                             IF x \in {y \in Objects : object[y] = <<"observation", req[w].of>>}
                               THEN NoRow ELSE object[x]]
    <3> SUFFICES ASSUME NEW x \in Objects, NEW o \in Observations,
                        object'[x] = <<"observation", o>>
                 PROVE  observation'[o] # NoRow
      BY DEF ObservationObjectsOwned
    <3>1. <<"observation", o>> # NoRow
      BY DEF Owner
    <3>2. object[x] = <<"observation", o>> /\ object[x] # <<"observation", req[w].of>>
      BY <2>2, <3>1
    <3>3. o # req[w].of /\ observation[o] # NoRow
      BY <3>2 DEF ObservationObjectsOwned
    <3> QED BY <2>2, <3>3 DEF TypeOK
  <2> QED BY <1>4, <2>1, <2>2 DEF DeleteOwnedObjects
<1>5. ASSUME NEW x \in Objects, DeleteObject(x) PROVE ObservationObjectsOwned'
  <2>1. UNCHANGED observation
    BY <1>5 DEF DeleteObject
  <2>2. \A y \in Objects : object'[y] = object[y] \/ object'[y] = NoRow
    BY <1>5 DEF DeleteObject, TypeOK
  <2>3. \A o \in Observations : <<"observation", o>> # NoRow
    BY DEF Owner
  <2> QED BY <2>1, <2>2, <2>3 DEF ObservationObjectsOwned
<1>6. ASSUME NEW k \in Catalogs, Restart(k) PROVE ObservationObjectsOwned'
  <2>1. UNCHANGED observation
    BY <1>6 DEF Restart
  <2>2. \A y \in Objects : object'[y] = object[y] \/ object'[y] = System
    BY <1>6 DEF Restart, TypeOK
  <2>3. \A o \in Observations : <<"observation", o>> # System
    BY DEF System
  <2> QED BY <2>1, <2>2, <2>3 DEF ObservationObjectsOwned
<1> QED
  BY <1>1, <1>2, <1>3, <1>4, <1>5, <1>6, ReadSteps, DeleteCases
     DEF Next, Create, Delete, Reads, ReadStep, CreateTaskInsert, DeleteTask, CreateEntity,
         vars, tables

\* An owner ceases to exist only by the delete that names it.
Removes(w, owner) ==
  \/ DeleteEntity(w) /\ req[w].of = owner /\ ~KeyShared(owner)
  \/ DeleteTask(w) /\ req[w].of = owner /\ ~KeyShared(owner)
  \/ \E o \in Observations :
       /\ DeleteOwnedObjects(w) /\ req[w].of = o /\ owner = <<"observation", o>>

\* No other statement makes an owner disappear.
LEMMA OwnersStay ==
  ASSUME TypeOK, [Next]_vars, NEW owner, Exists(owner), ~Exists(owner)'
  PROVE  \E w \in Workers : Removes(w, owner)
<1> USE NoRowAssumption
<1>0. Exists(owner)' <=>
        \/ owner = System
        \/ \E e \in Entities : owner = <<"entity", e>> /\ entity'[e] # NoRow
        \/ \E o \in Observations : owner = <<"observation", o>> /\ observation'[o] # NoRow
        \/ \E t \in Tasks : owner = <<"task", t>> /\ task'[t] # NoRow
  BY DEF Exists
<1>1. owner # System
  BY <1>0
<1>2. CASE \E e \in Entities : owner = <<"entity", e>> /\ entity[e] # NoRow
  <2>1. PICK e \in Entities : owner = <<"entity", e>> /\ entity[e] # NoRow
    BY <1>2
  <2>2. entity'[e] = NoRow
    BY <1>0, <2>1
  <2>3. \E w \in Workers : DeleteEntity(w)
    <3>1. \A f \in Entities, type \in EntityTypes : ~CreateEntity(f, type)
      BY <2>1, <2>2 DEF CreateEntity, TypeOK
    <3>2. entity' # entity
      BY <2>1, <2>2
    <3> QED
      BY <3>1, <3>2, ReadSteps, InsertCases
         DEF Next, Create, Delete, Reads, ReadStep, vars, tables, CreateObservationInsert,
             CreateTaskInsert, DeleteTask, DeleteOwnedObjects, DeleteObject, Restart
  <2>4. PICK w \in Workers : DeleteEntity(w)
    BY <2>3
  <2>5. PICK f : req[w].of = <<"entity", f>> /\ ~KeyShared(<<"entity", f>>)
                 /\ (entity' = [entity EXCEPT ![f] = NoRow] \/ UNCHANGED entity)
    BY <2>4, DeleteCases
  <2>6. e = f
    BY <2>1, <2>2, <2>5 DEF TypeOK
  <2> QED BY <2>1, <2>4, <2>5, <2>6 DEF Removes
<1>3. CASE \E t \in Tasks : owner = <<"task", t>> /\ task[t] # NoRow
  <2>1. PICK t \in Tasks : owner = <<"task", t>> /\ task[t] # NoRow
    BY <1>3
  <2>2. task'[t] = NoRow
    BY <1>0, <2>1
  <2>3. \E w \in Workers : DeleteTask(w)
    <3>1. ASSUME NEW w \in Workers, CreateTaskInsert(w) PROVE FALSE
      <4>1. req[w].id \in Tasks /\ req[w].row \in TaskRow
        BY <3>1, RequestKinds DEF CreateTaskInsert, TypeOK
      <4> QED BY <2>1, <2>2, <3>1, <4>1 DEF CreateTaskInsert, TypeOK
    <3>2. task' # task
      BY <2>1, <2>2
    <3> QED
      BY <3>1, <3>2, ReadSteps, InsertCases, DeleteCases
         DEF Next, Create, Delete, Reads, ReadStep, vars, tables, CreateObservationInsert,
             CreateEntity, DeleteOwnedObjects, DeleteObject, Restart
  <2>4. PICK w \in Workers : DeleteTask(w)
    BY <2>3
  <2>5. req[w].of = <<"task", t>>
    BY <2>1, <2>2, <2>4 DEF DeleteTask, TypeOK
  <2>6. ~KeyShared(<<"task", t>>)
    BY <2>4, <2>5 DEF DeleteTask
  <2> QED BY <2>1, <2>4, <2>5, <2>6 DEF Removes
<1>4. CASE \E o \in Observations : owner = <<"observation", o>> /\ observation[o] # NoRow
  <2>1. PICK o \in Observations : owner = <<"observation", o>> /\ observation[o] # NoRow
    BY <1>4
  <2>2. observation'[o] = NoRow
    BY <1>0, <2>1
  <2>3. \E w \in Workers : DeleteOwnedObjects(w)
    <3>1. ASSUME NEW w \in Workers, CreateObservationInsert(w) PROVE FALSE
      <4>1. req[w].id \in Observations /\ req[w].row \in Entities
        BY <3>1, RequestKinds DEF CreateObservationInsert, TypeOK
      <4> QED BY <2>1, <2>2, <3>1, <4>1 DEF CreateObservationInsert, TypeOK
    <3>2. observation' # observation
      BY <2>1, <2>2
    <3> QED
      BY <3>1, <3>2, ReadSteps, InsertCases, DeleteCases
         DEF Next, Create, Delete, Reads, ReadStep, vars, tables, CreateTaskInsert,
             CreateEntity, DeleteTask, DeleteObject, Restart
  <2>4. PICK w \in Workers : DeleteOwnedObjects(w)
    BY <2>3
  <2>5. req[w].of = o
    BY <2>1, <2>2, <2>4 DEF DeleteOwnedObjects, TypeOK
  <2> QED BY <2>1, <2>4, <2>5 DEF Removes
<1> QED BY <1>1, <1>2, <1>3, <1>4 DEF Exists

\* A transaction that inserts an object was there before, or has just locked an
\* owner that exists and that nobody is deleting.
LEMMA InsertObjectOrigin ==
  ASSUME TypeOK, [Next]_vars, NEW w \in Workers, req'[w].step = "insert_object"
  PROVE  \/ req[w].step = "insert_object" /\ req'[w].row = req[w].row
         \/ /\ UNCHANGED <<tables, active>>
            /\ \A v \in Workers : v # w => req'[v] = req[v]
            /\ Exists(req'[w].row)
            /\ \A o \in Observations : req'[w].row = <<"observation", o>> => ~BeingDeleted(o)
<1>0. Explained(w)
  BY Origin
<1>1. req'[w] = req[w] \/ Reads(w)
  BY <1>0 DEF Explained, Marked, Idle, tables
<1>2. CASE Reads(w)
  <2>1. ReadStep(w)
    BY <1>2, ReadSteps
  <2>2. CreateObjectValidate(w) \/ CreateObjectLockOwner(w)
    BY <1>2, StepAfter DEF Idle
  <2>3. CASE CreateObjectValidate(w)
    <3>1. req'[w].row = System
      BY <2>3 DEF CreateObjectValidate, Begin, TypeOK
    <3> QED BY <2>1, <3>1 DEF ReadStep, Exists, System
  <2>4. CASE CreateObjectLockOwner(w)
    <3>1. Exists(req[w].row) /\ req'[w].row = req[w].row
      BY <2>4, Advanced DEF CreateObjectLockOwner, Idle
    <3>2. \A o \in Observations : req[w].row = <<"observation", o>> => ~BeingDeleted(o)
      BY <2>4 DEF CreateObjectLockOwner
    <3> QED BY <2>1, <3>1, <3>2 DEF ReadStep
  <2> QED BY <2>2, <2>3, <2>4
<1> QED BY <1>1, <1>2

\* A transaction of a cascade was there before, or has just locked a row that
\* exists and that no other transaction holds.
LEMMA CascadeOrigin ==
  ASSUME TypeOK, [Next]_vars, NEW w \in Workers, req'[w].step = "cascade"
  PROVE  \/ req'[w] = req[w]
         \/ /\ UNCHANGED <<tables, active>>
            /\ \A v \in Workers : v # w => req'[v] = req[v]
            /\ observation[req'[w].of] # NoRow
            /\ ~KeyShared(<<"observation", req'[w].of>>) /\ ~BeingDeleted(req'[w].of)
<1>0. Explained(w)
  BY Origin
<1>1. req'[w] = req[w] \/ Reads(w)
  BY <1>0 DEF Explained, Marked, Idle, tables
<1>2. CASE Reads(w)
  <2>1. ReadStep(w)
    BY <1>2, ReadSteps
  <2>2. DeleteObservation(w)
    BY <1>2, StepAfter DEF Idle
  <2> QED BY <2>1, <2>2 DEF ReadStep, DeleteObservation, Begin, TypeOK
<1> QED BY <1>1, <1>2

\* A locked owner stays until the insert commits.
LEMMA LockedOwnersStep ==
  TypeOK /\ LockedOwnersStay /\ [Next]_vars => LockedOwnersStay'
<1> SUFFICES ASSUME TypeOK, LockedOwnersStay, [Next]_vars,
                    NEW w \in Workers, req'[w].step = "insert_object",
                    NEW owner, owner = req'[w].row
             PROVE  /\ Exists(owner)'
                    /\ \A o \in Observations, v \in Workers :
                         owner = <<"observation", o>> =>
                           ~(req'[v].step = "cascade" /\ req'[v].of = o)
  BY DEF LockedOwnersStay, Exists, BeingDeleted
<1>1. CASE req[w].step = "insert_object" /\ req'[w].row = req[w].row
  <2>1. Exists(owner) /\ KeyShared(owner)
    BY <1>1 DEF LockedOwnersStay, KeyShared
  <2>2. \A o \in Observations, v \in Workers : owner = <<"observation", o>> =>
          ~(req[v].step = "cascade" /\ req[v].of = o)
    BY <1>1 DEF LockedOwnersStay, BeingDeleted
  <2>3. \A v \in Workers : ~Removes(v, owner)
    BY <2>1, <2>2 DEF Removes, DeleteOwnedObjects
  <2>4. Exists(owner)'
    BY <2>1, <2>3, OwnersStay
  <2>5. ASSUME NEW o \in Observations, NEW v \in Workers, owner = <<"observation", o>>,
               req'[v].step = "cascade", req'[v].of = o
        PROVE  FALSE
    BY <2>1, <2>2, <2>5, CascadeOrigin
  <2> QED BY <2>4, <2>5
<1>2. CASE /\ UNCHANGED <<tables, active>>
           /\ \A v \in Workers : v # w => req'[v] = req[v]
           /\ Exists(req'[w].row)
           /\ \A o \in Observations : req'[w].row = <<"observation", o>> => ~BeingDeleted(o)
  <2>1. Exists(owner)'
    BY <1>2 DEF Exists, tables
  <2>2. ASSUME NEW o \in Observations, NEW v \in Workers, owner = <<"observation", o>>,
               req'[v].step = "cascade", req'[v].of = o
        PROVE  FALSE
    <3>1. v # w
      BY <2>2
    <3> QED BY <1>2, <2>2, <3>1 DEF BeingDeleted
  <2> QED BY <2>1, <2>2
<1> QED BY <1>1, <1>2, InsertObjectOrigin

\* A row that a cascade has locked stays until it commits, and one holds it.
LEMMA LockedObservationsStep ==
  TypeOK /\ LockedObservationsStay /\ [Next]_vars => LockedObservationsStay'
<1> SUFFICES ASSUME TypeOK, LockedObservationsStay, [Next]_vars,
                    NEW w \in Workers, req'[w].step = "cascade"
             PROVE  /\ observation'[req'[w].of] # NoRow
                    /\ \A v \in Workers :
                         req'[v].step = "cascade" /\ req'[v].of = req'[w].of => v = w
  BY DEF LockedObservationsStay
<1>0. PICK o : o = req'[w].of
  OBVIOUS
<1>1. CASE req'[w] = req[w]
  <2>1. /\ observation[o] # NoRow /\ o \in Observations
        /\ \A v \in Workers : req[v].step = "cascade" /\ req[v].of = o => v = w
    BY <1>0, <1>1, RequestKinds DEF LockedObservationsStay, TypeOK
  <2>2. observation'[o] # NoRow
    <3> SUFFICES ASSUME observation'[o] = NoRow PROVE FALSE
      OBVIOUS
    <3>1. Exists(<<"observation", o>>) /\ ~Exists(<<"observation", o>>)'
      BY <2>1 DEF Exists, System
    <3>2. PICK v \in Workers : Removes(v, <<"observation", o>>)
      BY <3>1, OwnersStay
    <3>3. DeleteOwnedObjects(v) /\ req[v].of = o
      BY <3>2 DEF Removes, DeleteEntity, DeleteTask
    <3>4. v = w
      BY <2>1, <3>3 DEF DeleteOwnedObjects
    <3>5. req'[w] = Idle
      BY <3>3, <3>4 DEF DeleteOwnedObjects, Respond, TypeOK
    <3> QED BY <3>5 DEF Idle
  <2>3. ASSUME NEW v \in Workers, req'[v].step = "cascade", req'[v].of = o, v # w PROVE FALSE
    <3>1. BeingDeleted(o)
      BY <1>0, <1>1 DEF BeingDeleted
    <3> QED BY <2>1, <2>3, <3>1, CascadeOrigin
  <2> QED BY <1>0, <2>2, <2>3
<1>2. CASE /\ UNCHANGED <<tables, active>>
           /\ \A v \in Workers : v # w => req'[v] = req[v]
           /\ observation[req'[w].of] # NoRow
           /\ ~BeingDeleted(req'[w].of)
  BY <1>2 DEF BeingDeleted, tables
<1> QED BY <1>1, <1>2, CascadeOrigin

-----------------------------------------------------------------------------
(* What requests have checked. *)

\* A delete that is not overtaken keeps counting no objects.
LEMMA PlannedDeletesStep ==
  TypeOK /\ PlannedDeletes /\ [Next]_vars => PlannedDeletes'
<1> SUFFICES ASSUME TypeOK, PlannedDeletes, [Next]_vars,
                    NEW w \in Workers, req'[w].step = "delete", ~req'[w].stale,
                    NEW x \in Objects, NEW owner, owner = req'[w].of, object'[x] = owner
             PROVE  FALSE
  BY DEF PlannedDeletes, OwnsObject
<1>0. Explained(w)
  BY Origin
<1>1. req'[w] = req[w] \/ (Reads(w) /\ UNCHANGED <<tables, active>>)
  BY <1>0 DEF Explained, Marked, Idle
<1>2. CASE Reads(w) /\ UNCHANGED <<tables, active>>
  <2>1. CountObjects(w) \/ CountTaskOwnedObjects(w)
    BY <1>2, StepAfter DEF Idle
  <2>2. CASE CountObjects(w)
    <3>1. req'[w].of = req[w].of
      BY <2>2, Advanced DEF CountObjects, Idle
    <3>2. req' # Respond(w)
      BY DEF Respond, Idle, TypeOK
    <3>3. ~OwnsObject(req[w].of)
      BY <2>2, <3>2 DEF CountObjects, Advance
    <3> QED BY <1>2, <3>1, <3>3 DEF OwnsObject, tables
  <2>3. CASE CountTaskOwnedObjects(w)
    <3>1. ~OwnsObject(req'[w].of)
      BY <2>3 DEF CountTaskOwnedObjects, Begin, TypeOK
    <3> QED BY <1>2, <3>1 DEF OwnsObject, tables
  <2> QED BY <2>1, <2>2, <2>3
<1>3. CASE req'[w] = req[w]
  <2>1. owner \in Deletable /\ object[x] # owner
    BY <1>3, RequestKinds DEF PlannedDeletes, OwnsObject, TypeOK
  <2>2. owner # NoRow /\ owner # System
    BY <2>1, NoRowAssumption DEF Owner, Deletable, System
  <2>3. \E v \in Workers : CreateObjectInsert(v)
    <3>1. object'[x] # object[x]
      BY <2>1
    <3>2. ASSUME NEW v \in Workers, DeleteOwnedObjects(v) PROVE FALSE
      BY <2>1, <2>2, <3>2 DEF DeleteOwnedObjects
    <3>3. ASSUME NEW y \in Objects, DeleteObject(y) PROVE FALSE
      BY <2>1, <2>2, <3>3 DEF DeleteObject, TypeOK
    <3>4. ASSUME NEW k \in Catalogs, Restart(k) PROVE FALSE
      BY <2>1, <2>2, <3>4 DEF Restart, TypeOK
    <3> QED
      BY <3>1, <3>2, <3>3, <3>4, ReadSteps, DeleteCases
         DEF Next, Create, Delete, Reads, ReadStep, CreateObservationInsert,
             CreateTaskInsert, DeleteTask, CreateEntity, vars, tables
  <2>4. PICK v \in Workers : CreateObjectInsert(v)
    BY <2>3
  <2>5. /\ object' = [object EXCEPT ![req[v].id] = req[v].row]
        /\ RespondOvertaking(v, InsertOvertakes(v))
    BY <2>1, <2>4, InsertCases
  <2>6. req[v].row = owner
    BY <2>1, <2>5 DEF TypeOK
  <2>7. req[v].step = "insert_object"
    BY <2>4, InsertCases
  <2>8. v # w /\ w \in InsertOvertakes(v)
    BY <1>3, <2>6, <2>7 DEF InsertOvertakes
  <2>9. req'[w].stale
    BY <2>5, <2>8, Overtaken DEF InsertOvertakes
  <2> QED BY <2>9
<1> QED BY <1>1, <1>2, <1>3

\* An insert that is not overtaken keeps naming an asset.
LEMMA PlannedInsertsStep ==
  TypeOK /\ PlannedInserts /\ [Next]_vars => PlannedInserts'
<1> SUFFICES ASSUME TypeOK, PlannedInserts, [Next]_vars, NEW w \in Workers,
                    req'[w].step \in {"insert_observation", "insert_task"}, ~req'[w].stale,
                    NEW e, e = IF req'[w].step = "insert_task" THEN req'[w].row.asset
                               ELSE req'[w].row
             PROVE  entity'[e] = "asset"
  BY DEF PlannedInserts
<1>0. Explained(w)
  BY Origin
<1>1. req'[w] = req[w] \/ (Reads(w) /\ UNCHANGED <<tables, active>>)
  BY <1>0 DEF Explained, Marked, Idle
<1>2. CASE Reads(w) /\ UNCHANGED <<tables, active>>
  <2>1. CreateObservationValidate(w) \/ CreateTaskValidate(w)
    BY <1>2, StepAfter DEF Idle
  <2>2. entity[e] = "asset"
    BY <2>1 DEF CreateObservationValidate, CreateTaskValidate, Begin, TypeOK
  <2> QED BY <1>2, <2>2 DEF tables
<1>3. CASE req'[w] = req[w]
  <2>1. entity[e] = "asset" /\ e \in Entities /\ "asset" # NoRow
    BY <1>3, RequestKinds, NoRowAssumption, ConstantsAssumption
       DEF PlannedInserts, TypeOK, TaskRow
  <2>2. ASSUME entity'[e] # entity[e] PROVE \E v \in Workers : DeleteEntity(v)
    <3>1. ASSUME NEW f \in Entities, NEW type \in EntityTypes, CreateEntity(f, type) PROVE FALSE
      BY <2>1, <2>2, <3>1 DEF CreateEntity, TypeOK
    <3> QED
      BY <2>2, <3>1, ReadSteps, InsertCases
         DEF Next, Create, Delete, Reads, ReadStep, CreateObservationInsert,
             CreateTaskInsert, DeleteTask, DeleteOwnedObjects, DeleteObject, Restart,
             vars, tables
  <2>3. ASSUME entity'[e] # entity[e] PROVE FALSE
    <3>1. PICK v \in Workers : DeleteEntity(v)
      BY <2>2, <2>3
    <3>2. PICK f : entity' = [entity EXCEPT ![f] = NoRow] /\ RespondOvertaking(v, DeleteOvertakes(f))
      BY <2>3, <3>1, DeleteCases
    <3>3. f = e
      BY <2>1, <2>3, <3>2 DEF TypeOK
    <3>4. req[v].step = "delete"
      BY <3>1, DeleteCases
    <3>5. v # w /\ w \in DeleteOvertakes(f)
      BY <1>3, <3>3, <3>4 DEF DeleteOvertakes
    <3>6. req'[w].stale
      BY <3>2, <3>5, Overtaken DEF DeleteOvertakes
    <3> QED BY <3>6
  <2> QED BY <2>1, <2>3
<1> QED BY <1>1, <1>2, <1>3

-----------------------------------------------------------------------------
(* The theorems. *)

\* The inductive invariant holds initially.
LEMMA IInvInit == Init => IInv
<1> SUFFICES ASSUME Init PROVE IInv
  OBVIOUS
<1>1. \A w \in Workers : req[w].step = "idle"
  BY DEF Init, Idle
<1>2. \A x \in Objects, owner \in Owner : object[x] # owner
  BY NoRowAssumption DEF Init
<1>3. \A o \in Observations : <<"observation", o>> \in Owner
  BY DEF Owner
<1> QED
  BY <1>1, <1>2, <1>3, TypeInit DEF Init, IInv, ReferencesExist, ObservationObjectsOwned,
     LockedOwnersStay, LockedObservationsStay, PlannedDeletes, PlannedInserts

\* Every step keeps the inductive invariant.
LEMMA IInvStep == IInv /\ [Next]_vars => IInv'
  BY TypeStep, ReferencesStep, ObservationObjectsStep, LockedOwnersStep,
     LockedObservationsStep, PlannedDeletesStep, PlannedInsertsStep DEF IInv

\* The inductive invariant: with it the row locks and the foreign keys account
\* for every reference, whatever requests and restarts do.
THEOREM Invariant == Spec => []IInv
  BY IInvInit, IInvStep, PTL DEF Spec

\* The foreign keys of observations and tasks never dangle.
THEOREM ReferencesNeverDangle == Spec => []ReferencesExist
<1>1. IInv => ReferencesExist BY DEF IInv
<1> QED BY <1>1, Invariant, PTL

\* The cascade of DeleteObservation and the lock of CreateObject leave no object
\* behind without its observation.
THEOREM ObservationObjectsKeepOwner == Spec => []ObservationObjectsOwned
<1>1. IInv => ObservationObjectsOwned BY DEF IInv
<1> QED BY <1>1, Invariant, PTL

\* DeleteEntity and DeleteTask leave objects without an owner only when an object
\* is inserted between their count and their DELETE.
THEOREM OrphansOnlyByRace == Spec => OnlyOvertakenDeletesOrphan
<1>1. ASSUME IInv, [Next]_vars, NEW owner \in Deletable,
             Exists(owner), ~Exists(owner)', OwnsObject(owner)'
      PROVE  \E w \in Workers :
               req[w].step = "delete" /\ req[w].of = owner /\ req[w].stale
  <2>1. PICK w \in Workers : Removes(w, owner)
    BY <1>1, OwnersStay DEF IInv
  <2>2. req[w].step = "delete" /\ req[w].of = owner
    BY <2>1 DEF Removes, DeleteEntity, DeleteTask, Deletable
  <2>3. OwnsObject(owner)
    <3>1. UNCHANGED object
      BY <2>1, <2>2, DeleteCases DEF Removes, DeleteTask, DeleteOwnedObjects
    <3> QED BY <1>1, <3>1 DEF OwnsObject
  <2> QED BY <1>1, <2>2, <2>3 DEF IInv, PlannedDeletes
<1>2. IInv /\ [Next]_vars =>
        [\A owner \in Deletable :
           Exists(owner) /\ ~Exists(owner)' /\ OwnsObject(owner)'
             => \E w \in Workers :
                  req[w].step = "delete" /\ req[w].of = owner /\ req[w].stale]_vars
  BY <1>1
<1> QED BY <1>2, Invariant, PTL DEF Spec, OnlyOvertakenDeletesOrphan

\* A stored observation names an asset, although its source is read in a statement
\* of its own before the INSERT, unless the entity was deleted and created anew.
THEOREM MistypedOnlyByRace == Spec => OnlyOvertakenInsertsMistyped
<1>1. IInv /\ [Next]_vars =>
        [\A o \in Observations :
           observation[o] = NoRow /\ observation'[o] # NoRow
             => \/ entity'[observation'[o]] = "asset"
                \/ \E w \in Workers : /\ req[w].step = "insert_observation"
                                     /\ req[w].id = o /\ req[w].stale]_vars
  <2> SUFFICES ASSUME IInv, Next, NEW o \in Observations,
                      observation[o] = NoRow, observation'[o] # NoRow
               PROVE  \/ entity'[observation'[o]] = "asset"
                      \/ \E w \in Workers : /\ req[w].step = "insert_observation"
                                           /\ req[w].id = o /\ req[w].stale
    OBVIOUS
  <2>t. TypeOK
    BY DEF IInv
  <2>1. \E w \in Workers : CreateObservationInsert(w)
    <3>1. ASSUME NEW w \in Workers, Reads(w) \/ Abandon(w) PROVE FALSE
      BY <2>t, <3>1, ReadSteps DEF ReadStep, tables
    <3>2. ASSUME NEW w \in Workers, DeleteOwnedObjects(w) PROVE FALSE
      BY <2>t, <3>2 DEF DeleteOwnedObjects, TypeOK
    <3> QED
      BY <3>1, <3>2 DEF Next, Create, Delete, Reads, CreateTaskInsert, CreateObjectInsert,
         DeleteEntity, DeleteTask, CreateEntity, DeleteObject, Restart
  <2>2. PICK w \in Workers : CreateObservationInsert(w)
    BY <2>1
  <2>3. /\ req[w].step = "insert_observation" /\ entity' = entity
        /\ req[w].id = o /\ observation'[o] = req[w].row
    BY <2>t, <2>2 DEF CreateObservationInsert, TypeOK
  <2> QED
    BY <2>3 DEF IInv, PlannedInserts
<1> QED
  BY <1>1, Invariant, PTL DEF Spec, OnlyOvertakenInsertsMistyped
=============================================================================
