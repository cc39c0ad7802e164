---------------------------- MODULE RefIntegrity ----------------------------
(***************************************************************************)
(* References between the records of Atlas Core: observations and tasks    *)
(* name an entity, tasks name the object of their command catalog, and     *)
(* objects have an owner.  Foreign keys guard the first three; the owner   *)
(* of an object is polymorphic, so the service counts the objects of an    *)
(* entity or a task before it deletes the row, the store locks the owner   *)
(* FOR KEY SHARE while it inserts an object, and the deletion of an        *)
(* observation deletes its objects in the same transaction                 *)
(* (internal/service/service.go, internal/postgres/store.go).              *)
(*                                                                         *)
(* One action is one SQL statement with the Go code after it.  A statement *)
(* that has to wait for a row lock is an action that is not enabled.  The  *)
(* last statement of a transaction is taken together with its commit:      *)
(* until then nobody else sees what the transaction wrote.                 *)
(***************************************************************************)

CONSTANTS
  Workers,       \* goroutines that serve HTTP requests
  Entities, Observations, Tasks, Objects,  \* ids that clients use
  Catalogs,      \* the objects the process itself stores: command catalogs
  EntityTypes,   \* entity types, "asset" among them
  NoRow, NoCatalog

ASSUME ConstantsAssumption ==
  /\ Catalogs \subseteq Objects
  /\ NoCatalog \notin Objects
  /\ "asset" \in EntityTypes

VARIABLES
  entity,       \* id -> type, or NoRow
  observation,  \* id -> source_asset_id, or NoRow
  task,         \* id -> its asset and its command catalog object, or NoRow
  object,       \* id -> owner, or NoRow
  active,       \* object id of the catalog held in memory, or NoCatalog
  req           \* request served by each worker

tables == <<entity, observation, task, object>>
vars == <<entity, observation, task, object, active, req>>

-----------------------------------------------------------------------------
(* Values. *)

System == <<"system", "active_command_catalog">>

Deletable == ({"entity"} \X Entities) \cup ({"task"} \X Tasks)

Owner == Deletable \cup ({"observation"} \X Observations) \cup {System}

TaskRow == [asset : Entities, catalog : Objects]

ASSUME NoRowAssumption ==
  NoRow \notin EntityTypes \cup Entities \cup TaskRow \cup Owner

Idle == [step |-> "idle"]

\* What a worker remembers between two statements.  "stale" is a history
\* variable: something the request has checked was changed by another one.
Request ==
       [step : {"insert_observation"}, id : Observations, row : Entities, stale : BOOLEAN]
  \cup [step : {"insert_task"}, id : Tasks, row : TaskRow, stale : BOOLEAN]
  \cup [step : {"lock_owner", "insert_object"}, id : Objects, row : Owner]
  \cup [step : {"observations", "objects", "delete"}, of : Deletable, stale : BOOLEAN]
  \cup [step : {"cascade"}, of : Observations]

Exists(owner) ==
  \/ owner = System
  \/ \E e \in Entities : owner = <<"entity", e>> /\ entity[e] # NoRow
  \/ \E o \in Observations : owner = <<"observation", o>> /\ observation[o] # NoRow
  \/ \E t \in Tasks : owner = <<"task", t>> /\ task[t] # NoRow

OwnsObject(owner) == \E x \in Objects : object[x] = owner

-----------------------------------------------------------------------------
(* Requests in flight and the row locks they hold. *)

Busy(w) == req[w] # Idle

\* A transaction of CreateObject holds its owner FOR KEY SHARE.
KeyShared(owner) ==
  \E v \in Workers : req[v].step = "insert_object" /\ req[v].row = owner

\* A transaction of DeleteObservation has deleted the row and not committed.
BeingDeleted(o) ==
  \E v \in Workers : req[v].step = "cascade" /\ req[v].of = o

Respond(w) == [req EXCEPT ![w] = Idle]

Begin(w, request) ==
  /\ ~Busy(w)
  /\ req' = [req EXCEPT ![w] = request]
  /\ UNCHANGED <<tables, active>>

Advance(w, condition, step) ==
  /\ req' = IF condition THEN [req EXCEPT ![w].step = step] ELSE Respond(w)
  /\ UNCHANGED <<tables, active>>

\* Worker w responds, and the requests in S have been overtaken by it.
RespondOvertaking(w, S) ==
  req' = [v \in Workers |-> IF v = w THEN Idle
                            ELSE IF v \in S THEN [req[v] EXCEPT !.stale = TRUE]
                            ELSE req[v]]

-----------------------------------------------------------------------------
(* POST /entities, /observations, /tasks. *)

CreateEntity(e, type) ==
  /\ entity[e] = NoRow
  /\ entity' = [entity EXCEPT ![e] = type]
  /\ UNCHANGED <<observation, task, object, active, req>>

\* Mutant: any entity may be the source of an observation.
BugSourceOfAnyType(w) ==
  \E o \in Observations, e \in Entities :
    /\ entity[e] # NoRow
    /\ Begin(w, [step |-> "insert_observation", id |-> o, row |-> e, stale |-> FALSE])

\* GetEntity and the check of its type.
CreateObservationValidate(w) ==
  \E o \in Observations, e \in Entities :
    /\ entity[e] = "asset"
    /\ Begin(w, [step |-> "insert_observation", id |-> o, row |-> e, stale |-> FALSE])

\* INSERT: the primary key, and the foreign key on the source.
CreateObservationInsert(w) ==
  /\ req[w].step = "insert_observation"
  /\ ~BeingDeleted(req[w].id)
  /\ observation' =
       IF observation[req[w].id] = NoRow /\ entity[req[w].row] # NoRow
         THEN [observation EXCEPT ![req[w].id] = req[w].row]
         ELSE observation
  /\ req' = Respond(w)
  /\ UNCHANGED <<entity, task, object, active>>

\* GetEntity, the check of its type, and the active catalog.
CreateTaskValidate(w) ==
  \E t \in Tasks, e \in Entities :
    /\ entity[e] = "asset"
    /\ active # NoCatalog
    /\ Begin(w, [step |-> "insert_task", id |-> t,
                 row |-> [asset |-> e, catalog |-> active], stale |-> FALSE])

\* INSERT: the primary key, and the foreign keys on the asset and the catalog.
CreateTaskInsert(w) ==
  /\ req[w].step = "insert_task"
  /\ task' =
       IF /\ task[req[w].id] = NoRow
          /\ entity[req[w].row.asset] # NoRow
          /\ object[req[w].row.catalog] # NoRow
         THEN [task EXCEPT ![req[w].id] = req[w].row]
         ELSE task
  /\ req' = Respond(w)
  /\ UNCHANGED <<entity, observation, object, active>>

-----------------------------------------------------------------------------
(* POST /objects. *)

\* validateObjectInput: the owner, unless it is the system, is there.
CreateObjectValidate(w) ==
  \E x \in Objects, owner \in Owner :
    /\ Exists(owner)
    /\ Begin(w, [step |-> IF owner = System THEN "insert_object" ELSE "lock_owner",
                 id |-> x, row |-> owner])

\* BEGIN and ensureObjectOwnerExists: SELECT 1 ... FOR KEY SHARE waits for a
\* transaction that deletes the owner.
CreateObjectLockOwner(w) ==
  /\ req[w].step = "lock_owner"
  /\ req[w].row[1] = "observation" => ~BeingDeleted(req[w].row[2])
  /\ Advance(w, Exists(req[w].row), "insert_object")

\* INSERT and COMMIT.  It overtakes the deletes that have counted the objects
\* of this owner before.
CreateObjectInsert(w) ==
  /\ req[w].step = "insert_object"
  /\ IF object[req[w].id] = NoRow
       THEN /\ object' = [object EXCEPT ![req[w].id] = req[w].row]
            /\ RespondOvertaking(w, {v \in Workers :
                 req[v].step = "delete" /\ req[v].of = req[w].row})
       ELSE /\ req' = Respond(w)
            /\ UNCHANGED object
  /\ UNCHANGED <<entity, observation, task, active>>

-----------------------------------------------------------------------------
(* DELETE /entities/{id} and /tasks/{id}: count, then delete. *)

\* CountEntityDependents is three statements: tasks, observations, objects.
CountTasks(w) ==
  \E e \in Entities :
    /\ \A t \in Tasks : task[t] # NoRow => task[t].asset # e
    /\ Begin(w, [step |-> "observations", of |-> <<"entity", e>>, stale |-> FALSE])

CountObservations(w) ==
  /\ req[w].step = "observations"
  /\ Advance(w, \A o \in Observations : observation[o] # req[w].of[2], "objects")

\* Mutant: the objects of an entity are not counted.
BugCountNoObjects(w) ==
  /\ req[w].step = "objects"
  /\ Advance(w, TRUE, "delete")

CountObjects(w) ==
  /\ req[w].step = "objects"
  /\ Advance(w, ~OwnsObject(req[w].of), "delete")

CountTaskOwnedObjects(w) ==
  \E t \in Tasks :
    /\ ~OwnsObject(<<"task", t>>)
    /\ Begin(w, [step |-> "delete", of |-> <<"task", t>>, stale |-> FALSE])

\* Mutant: observations have no foreign key on their source.
BugDeleteEntityWithoutKey(w) ==
  LET e == req[w].of[2] IN
    /\ req[w].step = "delete" /\ req[w].of = <<"entity", e>>
    /\ ~KeyShared(<<"entity", e>>)
    /\ IF \A t \in Tasks : task[t] # NoRow => task[t].asset # e
         THEN /\ entity' = [entity EXCEPT ![e] = NoRow]
              /\ RespondOvertaking(w, {v \in Workers :
                   \/ req[v].step = "insert_observation" /\ req[v].row = e
                   \/ req[v].step = "insert_task" /\ req[v].row.asset = e})
         ELSE /\ req' = Respond(w)
              /\ UNCHANGED entity
    /\ UNCHANGED <<observation, task, object, active>>

\* DELETE FROM entities: it waits for a transaction that holds the row or one
\* that is deleting an observation of it; the foreign keys refuse it while a
\* task or an observation names the entity.  It overtakes the requests that
\* have read the entity before.
DeleteEntity(w) ==
  LET e == req[w].of[2] IN
    /\ req[w].step = "delete" /\ req[w].of = <<"entity", e>>
    /\ ~KeyShared(<<"entity", e>>)
    /\ \A o \in Observations : observation[o] = e => ~BeingDeleted(o)
    /\ IF /\ \A t \in Tasks : task[t] # NoRow => task[t].asset # e
          /\ \A o \in Observations : observation[o] # e
         THEN /\ entity' = [entity EXCEPT ![e] = NoRow]
              /\ RespondOvertaking(w, {v \in Workers :
                   \/ req[v].step = "insert_observation" /\ req[v].row = e
                   \/ req[v].step = "insert_task" /\ req[v].row.asset = e})
         ELSE /\ req' = Respond(w)
              /\ UNCHANGED entity
    /\ UNCHANGED <<observation, task, object, active>>

\* DELETE FROM tasks: nothing refers to a task but the objects it owns.
DeleteTask(w) ==
  LET t == req[w].of[2] IN
    /\ req[w].step = "delete" /\ req[w].of = <<"task", t>>
    /\ ~KeyShared(<<"task", t>>)
    /\ task' = [task EXCEPT ![t] = NoRow]
    /\ req' = Respond(w)
    /\ UNCHANGED <<entity, observation, object, active>>

-----------------------------------------------------------------------------
(* DELETE /observations/{id} and /objects/{id}. *)

\* Mutant: the row of the observation is deleted without waiting for a lock.
BugDeleteWithoutWaiting(w) ==
  \E o \in Observations :
    /\ observation[o] # NoRow
    /\ ~BeingDeleted(o)
    /\ Begin(w, [step |-> "cascade", of |-> o])

\* BEGIN and DELETE FROM observations: the row is locked from here on.
DeleteObservation(w) ==
  \E o \in Observations :
    /\ observation[o] # NoRow
    /\ ~KeyShared(<<"observation", o>>) /\ ~BeingDeleted(o)
    /\ Begin(w, [step |-> "cascade", of |-> o])

\* The deletion of the objects of the observation and COMMIT, or a rollback
\* when a task names one of them as its catalog.
DeleteOwnedObjects(w) ==
  LET o == req[w].of
      owned == {x \in Objects : object[x] = <<"observation", o>>} IN
    /\ req[w].step = "cascade"
    /\ IF \A t \in Tasks : task[t] # NoRow => task[t].catalog \notin owned
         THEN /\ observation' = [observation EXCEPT ![o] = NoRow]
              /\ object' = [x \in Objects |-> IF x \in owned THEN NoRow ELSE object[x]]
         ELSE UNCHANGED <<observation, object>>
    /\ req' = Respond(w)
    /\ UNCHANGED <<entity, task, active>>

\* RunWhileObjectInactive, and the foreign key of the tasks.
DeleteObject(x) ==
  /\ x # active
  /\ \A t \in Tasks : task[t] # NoRow => task[t].catalog # x
  /\ object' = [object EXCEPT ![x] = NoRow]
  /\ UNCHANGED <<entity, observation, task, active, req>>

-----------------------------------------------------------------------------
(* Failures. *)

\* A statement fails or the client goes away: an open transaction is rolled back.
Abandon(w) ==
  /\ Busy(w)
  /\ req' = Respond(w)
  /\ UNCHANGED <<tables, active>>

\* The process stops at any point and starts again with catalog k: Materialize
\* stores the object of k unless there is one, whoever owns it.  A later step
\* of the start may fail, and then there is no active catalog.
Restart(k) ==
  /\ object' \in {object, [object EXCEPT ![k] = IF @ = NoRow THEN System ELSE @]}
  /\ active' \in {NoCatalog} \cup (IF object'[k] = NoRow THEN {} ELSE {k})
  /\ req' = [w \in Workers |-> Idle]
  /\ UNCHANGED <<entity, observation, task>>

-----------------------------------------------------------------------------
(* The specification. *)

Init ==
  /\ entity = [e \in Entities |-> NoRow]
  /\ observation = [o \in Observations |-> NoRow]
  /\ task = [t \in Tasks |-> NoRow]
  /\ object = [x \in Objects |-> NoRow]
  /\ active = NoCatalog
  /\ req = [w \in Workers |-> Idle]

Create(w) ==
  \/ CreateObservationValidate(w)
  \/ CreateObservationInsert(w)
  \/ CreateTaskValidate(w)
  \/ CreateTaskInsert(w)
  \/ CreateObjectValidate(w)
  \/ CreateObjectLockOwner(w)
  \/ CreateObjectInsert(w)

Delete(w) ==
  \/ CountTasks(w)
  \/ CountObservations(w)
  \/ CountObjects(w)
  \/ CountTaskOwnedObjects(w)
  \/ DeleteEntity(w)
  \/ DeleteTask(w)
  \/ DeleteObservation(w)
  \/ DeleteOwnedObjects(w)

Next ==
  \/ \E w \in Workers : Create(w) \/ Delete(w) \/ Abandon(w)
  \/ \E e \in Entities, type \in EntityTypes : CreateEntity(e, type)
  \/ \E x \in Objects : DeleteObject(x)
  \/ \E k \in Catalogs : Restart(k)

Spec == Init /\ [][Next]_vars

-----------------------------------------------------------------------------
(* Properties. *)

\* Tables and requests hold values of their sorts.
TypeOK ==
  /\ entity \in [Entities -> EntityTypes \cup {NoRow}]
  /\ observation \in [Observations -> Entities \cup {NoRow}]
  /\ task \in [Tasks -> TaskRow \cup {NoRow}]
  /\ object \in [Objects -> Owner \cup {NoRow}]
  /\ active \in Catalogs \cup {NoCatalog}
  /\ req \in [Workers -> Request \cup {Idle}]

\* The source of an observation, the asset of a task and the catalog object of a
\* task exist, although each of them is read in a statement of its own before
\* the insert, and counted in a statement of its own before the delete.
ReferencesExist ==
  /\ \A o \in Observations : observation[o] # NoRow => entity[observation[o]] # NoRow
  /\ \A t \in Tasks : task[t] # NoRow =>
       entity[task[t].asset] # NoRow /\ object[task[t].catalog] # NoRow

\* An object owned by an observation never outlives it: the row lock of the
\* insert and the transaction of the cascade exclude each other.
ObservationObjectsOwned ==
  \A x \in Objects, o \in Observations :
    object[x] = <<"observation", o>> => observation[o] # NoRow

\* A transaction that inserts an object holds an owner that stays until commit.
LockedOwnersStay ==
  \A w \in Workers : req[w].step = "insert_object" =>
    /\ Exists(req[w].row)
    /\ \A o \in Observations : req[w].row = <<"observation", o>> => ~BeingDeleted(o)

\* The row a cascade has locked is there until it commits, and is locked once.
LockedObservationsStay ==
  \A v, w \in Workers : req[w].step = "cascade" =>
    /\ observation[req[w].of] # NoRow
    /\ req[v].step = "cascade" /\ req[v].of = req[w].of => v = w

\* A delete that nothing has overtaken still owns no objects.
PlannedDeletes ==
  \A w \in Workers : req[w].step = "delete" /\ ~req[w].stale => ~OwnsObject(req[w].of)

\* An insert that nothing has overtaken still names an asset.
PlannedInserts ==
  \A w \in Workers :
    /\ req[w].step = "insert_observation" /\ ~req[w].stale => entity[req[w].row] = "asset"
    /\ req[w].step = "insert_task" /\ ~req[w].stale => entity[req[w].row.asset] = "asset"

\* The inductive invariant: the references, the row locks, and what the requests
\* in flight still rely on.
IInv ==
  /\ TypeOK
  /\ ReferencesExist
  /\ ObservationObjectsOwned
  /\ LockedOwnersStay
  /\ LockedObservationsStay
  /\ PlannedDeletes
  /\ PlannedInserts

\* An entity or a task disappears from under its objects only when an object was
\* inserted between the count and the DELETE of one and the same request.
OnlyOvertakenDeletesOrphan ==
  [][\A owner \in Deletable :
       Exists(owner) /\ ~Exists(owner)' /\ OwnsObject(owner)'
         => \E w \in Workers :
              req[w].step = "delete" /\ req[w].of = owner /\ req[w].stale]_vars

\* A new observation names an asset, unless the entity was deleted and created
\* anew, as something else, between the check and the INSERT.
OnlyOvertakenInsertsMistyped ==
  [][\A o \in Observations :
       observation[o] = NoRow /\ observation'[o] # NoRow
         => \/ entity'[observation'[o]] = "asset"
            \/ \E w \in Workers : /\ req[w].step = "insert_observation"
                                 /\ req[w].id = o /\ req[w].stale]_vars
=============================================================================
