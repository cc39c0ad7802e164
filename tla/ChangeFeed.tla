----------------------------- MODULE ChangeFeed -----------------------------
(***************************************************************************)
(* How a change of an entity, an observation, an object or an object file  *)
(* reaches the clients that follow GET /stream/changes (internal/service/  *)
(* service.go over internal/postgres/store.go).                            *)
(*                                                                         *)
(* A handler commits its change, reads the record again in a statement of  *)
(* its own, lists the files of an object in a third, and then publishes    *)
(* what it has read.  Nothing orders the handlers between their commit and *)
(* their event, so events may overtake each other, a request that is cut   *)
(* off after its commit announces nothing, and the objects that a delete   *)
(* of an observation takes along are never announced.                      *)
(*                                                                         *)
(* One action is one SQL statement or transaction with the Go code after   *)
(* it.  The hub is the stream that EventHub implements: an event reaches   *)
(* every subscriber, in the order of the fan-outs.  References other than  *)
(* sightings_object_id and the owner of an object are those of             *)
(* RefIntegrity, bytes of files those of ObjectFiles.                      *)
(***************************************************************************)
EXTENDS Naturals, FiniteSets

CONSTANTS
  Workers,         \* goroutines that serve HTTP requests
  Entities, Observations, Objects, FileIds,
  EntityTypes,     \* bound: entity types that clients use
  ComponentNames,  \* bound: components that clients use
  States,          \* bound: observation states that clients use
  Aliases,         \* values of the promoted fields subtype and alias
  MaxNamed,        \* bound: how many fields a patch names
  MaxSize,         \* bound: length of a file
  Cap,             \* files that an event names at most, 8 in the code
  Scenes,          \* bound: sets of ids, one of which a behaviour is about
  NoRow,           \* no record
  Absent,          \* a JSON key that is not there
  Keep,            \* a field that a patch does not name
  Elsewhere,       \* an owner that is not an observation
  Unknown          \* the replica has not heard of the record

Records == Entities \cup Observations \cup Objects

\* The names of componentRules, and "custom_" for every name with that prefix.
Types == {"asset", "track", "geofeature"}

componentRules ==
  [heartbeat          |-> {"asset"},
   communications     |-> {"asset"},
   health             |-> {"asset"},
   telemetry          |-> {"asset", "track"},
   geometry           |-> {"geofeature"},
   sensor_refs        |-> {"asset", "track"},
   status             |-> Types,
   supported_commands |-> {"asset"},
   fusion_summary     |-> {"track"},
   custom_            |-> Types]

ASSUME BoundsAssumption ==
  /\ EntityTypes \subseteq Types
  /\ ComponentNames \subseteq DOMAIN componentRules
  /\ States \subseteq {"active", "inactive", "ended"}
  /\ MaxSize \in Nat \ {0} /\ MaxNamed \in Nat /\ Cap \in Nat
  /\ IsFiniteSet(FileIds)

ASSUME KindsAssumption ==
  /\ Entities \cap Observations = {}
  /\ Entities \cap Objects = {}
  /\ Observations \cap Objects = {}
  /\ Elsewhere \notin Observations
  /\ Absent \notin Objects

VARIABLES
  row,       \* record -> its row in entities, observations or objects
  files,     \* object -> file id -> size of its row in object_files, 0: no row
  req,       \* request served by each worker
  phase,     \* what a client that keeps a replica has done
  replica,   \* record -> what that client holds of it
  scene,     \* the ids this behaviour is about
  mixed,     \* history: records written by an UPDATE planned for another row
  doubtful   \* history: records whose last event need not show the record

clientVars == <<phase, replica>>
vars == <<row, files, req, clientVars, scene, mixed, doubtful>>

-----------------------------------------------------------------------------
(* Rows, patches and what the services accept. *)

ObjectTypes == {"observation_sighting_history", "other"}

EntityRow == [type : Types, alias : Aliases,
              components : (SUBSET ComponentNames) \cup {Absent}]

ObservationRow == [state : States, sightings_object_id : Objects \cup {Absent}]

ObjectRow == [type : ObjectTypes, owner : Observations \cup {Elsewhere}]

NamedBy(patch) == {f \in DOMAIN patch : patch[f] # Keep}

\* A patch names the fields it changes; a key that a patch does not hold is Keep.
Short(patches) == {patch \in patches : Cardinality(NamedBy(patch)) \in 1..MaxNamed}

EntityPatch ==
  Short([alias      : Aliases \cup {Keep},
         components : (SUBSET ComponentNames) \cup {Absent, Keep}])

ObservationPatch ==
  Short([state               : States \cup {Keep},
         sightings_object_id : Objects \cup {Absent, Keep}])

ObjectPatch == Short([type : ObjectTypes \cup {Keep}])

\* What ObjectEventResource says of an object.
ObjectViews ==
  [object : ObjectRow, file_count : 0..Cardinality(FileIds), files : [FileIds -> 0..MaxSize]]

ASSUME SentinelAssumption ==
  /\ NoRow # Unknown
  /\ NoRow \notin EntityRow \cup ObservationRow \cup ObjectRow \cup ObjectViews
  /\ Unknown \notin EntityRow \cup ObservationRow \cup ObjectViews
  /\ Keep \notin Aliases /\ Keep \notin Objects /\ Keep # Absent
  /\ Keep \notin States /\ Keep \notin ObjectTypes
  /\ \A names \in SUBSET ComponentNames : Keep # names /\ Absent # names

Row(id) == CASE id \in Entities -> EntityRow
             [] id \in Observations -> ObservationRow
             [] id \in Objects -> ObjectRow

\* validateEntityInput.
validateEntityInput(entity) ==
  /\ entity.components = Absent => entity.type # "asset"
  /\ entity.components # Absent =>
       /\ \A name \in entity.components : entity.type \in componentRules[name]
       /\ entity.type = "asset" => "supported_commands" \in entity.components

\* The part of validateObjectInput that is about the object alone, as far as
\* observations go.  Its last rule, that the owner of a fusion_provenance is an entity
\* and a track, is left out: nothing is kept of owners Elsewhere, and that type is among
\* the others.
validateObjectInput(object) ==
  object.type = "observation_sighting_history" => object.owner \in Observations

\* The row says what its own fields allow it to say.
Valid(id) == CASE id \in Entities -> validateEntityInput(row[id])
               [] id \in Objects -> validateObjectInput(row[id])
               [] OTHER -> TRUE

\* Mutant: an alias that the patch does not name is reset, as an assignment
\* without the nil check would do.
BugPatchedWithoutNilCheck(old, patch) ==
  [f \in DOMAIN old |->
     IF f \in DOMAIN patch /\ patch[f] # Keep THEN patch[f]
     ELSE IF f = "alias" THEN CHOOSE a \in Aliases : TRUE ELSE old[f]]

\* Subtype and alias when they are given, and MergeNamedSections: the sections
\* the patch names replace those of the row, JSON null removes one.
Patched(old, patch) ==
  [f \in DOMAIN old |->
     IF f \in DOMAIN patch /\ patch[f] # Keep THEN patch[f] ELSE old[f]]

-----------------------------------------------------------------------------
(* What clients see of a record. *)

NoFiles == [f \in FileIds |-> 0]

FilesAt(sizes) == {f \in FileIds : sizes[f] # 0}

\* ObjectEventResource: the object, how many files it has and up to Cap of them.
ObjectView(object, sizes, named) ==
  [object |-> object, file_count |-> Cardinality(FilesAt(sizes)),
   files |-> [f \in FileIds |-> IF f \in named THEN sizes[f] ELSE 0]]

\* What the full query says of a record.
Current(id) ==
  IF id \in Objects /\ row[id] # NoRow
    THEN ObjectView(row[id], files[id], FileIds)
    ELSE row[id]

\* A client that holds this view knows the record; the files of an object with
\* more than Cap files it has to query.
Shows(view, id) ==
  IF id \notin Objects \/ row[id] = NoRow
    THEN view = row[id]
    ELSE /\ view # NoRow
         /\ view.object = row[id]
         /\ view.file_count = Cardinality(FilesAt(files[id]))
         /\ view.file_count <= Cap => view.files = files[id]

-----------------------------------------------------------------------------
(* Requests. *)

Idle == [step |-> "idle"]

\* A change that is still to be made.  "stale" is a history variable: the row
\* has changed since this request read it.
Planned(step, id, next, named) ==
  [step |-> step, id |-> id, next |-> next, named |-> named, stale |-> FALSE]

\* A change that is committed and still to be announced.
Owed(step, id, data) == [step |-> step, id |-> id, data |-> data]

Plans(w) == req[w].step \in {"validate_new", "insert", "validate", "update"}

Owes(w, id) ==
  req[w].step \in {"reread", "list", "publish"} /\ req[w].id = id

NobodyOwes(id) == \A w \in Workers : ~Owes(w, id)

Respond(w) == [req EXCEPT ![w] = Idle]

\* The other requests that have read a row of ids hold an old one now, and w
\* goes on with next.
AfterChange(w, ids, next) ==
  [v \in Workers |->
     IF v = w THEN next
     ELSE IF Plans(v) /\ req[v].id \in ids THEN [req[v] EXCEPT !.stale = TRUE]
     ELSE req[v]]

\* History: an event that is still owed for an earlier change of the record may
\* come after the one that is owed now.
Announcing(w, id) ==
  doubtful' = IF \A v \in Workers \ {w} : ~Owes(v, id)
                THEN doubtful \ {id} ELSE doubtful \cup {id}

\* A request has changed the record.  It owes an event, unless the statement
\* took effect and its answer was lost.
Changed(w, id, next) ==
  \/ req' = AfterChange(w, {id}, next) /\ Announcing(w, id)
  \/ req' = AfterChange(w, {id}, Idle) /\ doubtful' = doubtful \cup {id}

-----------------------------------------------------------------------------
(* POST /entities, /observations and /objects. *)

CreateEntity(w) ==
  \E e \in Entities \cap scene, entity \in EntityRow :
    /\ req[w] = Idle
    /\ entity.type \in EntityTypes
    /\ validateEntityInput(entity)
    /\ req' = [req EXCEPT ![w] = Planned("insert", e, entity, {})]
    /\ UNCHANGED <<row, files, clientVars, scene, mixed, doubtful>>

CreateObservation(w) ==
  \E o \in Observations \cap scene, observation \in ObservationRow :
    /\ req[w] = Idle
    /\ req' = [req EXCEPT ![w] = Planned("validate_new", o, observation, {})]
    /\ UNCHANGED <<row, files, clientVars, scene, mixed, doubtful>>

CreateObject(w) ==
  \E x \in Objects \cap scene, object \in ObjectRow :
    /\ req[w] = Idle
    /\ validateObjectInput(object)
    /\ object.owner \in scene \cup {Elsewhere}
    /\ req' = [req EXCEPT ![w] = Planned("insert", x, object, {})]
    /\ UNCHANGED <<row, files, clientVars, scene, mixed, doubtful>>

OwnerExists(id, next) ==
  id \in Objects /\ next.owner # Elsewhere => row[next.owner] # NoRow

\* The INSERT; CreateObject looks its owner up again in the same transaction.
\* The record is not read again, and an object's files are listed.
Insert(w) ==
  /\ req[w].step = "insert"
  /\ LET id == req[w].id
         next == req[w].next IN
       IF row[id] = NoRow /\ OwnerExists(id, next)
         THEN /\ row' = [row EXCEPT ![id] = next]
              /\ mixed' = mixed \ {id}
              /\ Changed(w, id, Owed(IF id \in Objects THEN "list" ELSE "publish", id, next))
         ELSE /\ req' = Respond(w)
              /\ UNCHANGED <<row, mixed, doubtful>>
  /\ UNCHANGED <<files, clientVars, scene>>

-----------------------------------------------------------------------------
(* PATCH of an entity, an observation or an object. *)

\* Mutant: the patch is checked, and not the JSON it is merged into.
BugPatchEntityUnchecked(w) ==
  \E e \in Entities \cap scene, patch \in EntityPatch :
    /\ req[w] = Idle
    /\ row[e] # NoRow
    /\ req' = [req EXCEPT ![w] = Planned("update", e, Patched(row[e], patch), NamedBy(patch))]
    /\ UNCHANGED <<row, files, clientVars, scene, mixed, doubtful>>

\* GetEntity, the merge, and validateEntityInput.
PatchEntity(w) ==
  \E e \in Entities \cap scene, patch \in EntityPatch :
    /\ req[w] = Idle
    /\ row[e] # NoRow
    /\ validateEntityInput(Patched(row[e], patch))
    /\ req' = [req EXCEPT ![w] = Planned("update", e, Patched(row[e], patch), NamedBy(patch))]
    /\ UNCHANGED <<row, files, clientVars, scene, mixed, doubtful>>

\* GetObservation and the merge.  A state is never removed: it would be refused.
PatchObservation(w) ==
  \E o \in Observations \cap scene, patch \in ObservationPatch :
    /\ req[w] = Idle
    /\ row[o] # NoRow
    /\ req' = [req EXCEPT ![w] = Planned("validate", o, Patched(row[o], patch), NamedBy(patch))]
    /\ UNCHANGED <<row, files, clientVars, scene, mixed, doubtful>>

\* GetObject and the merge.
PatchObject(w) ==
  \E x \in Objects \cap scene, patch \in ObjectPatch :
    /\ req[w] = Idle
    /\ row[x] # NoRow
    /\ validateObjectInput(Patched(row[x], patch))
    /\ req' = [req EXCEPT ![w] = Planned("validate", x, Patched(row[x], patch), NamedBy(patch))]
    /\ UNCHANGED <<row, files, clientVars, scene, mixed, doubtful>>

\* validateObservationJSON: sightings_object_id names a history of this observation.
validateObservationJSON(o, observation) ==
  LET x == observation.sightings_object_id IN
    x # Absent => row[x] = [type |-> "observation_sighting_history", owner |-> o]

\* The statement that validation makes of its own: GetObject for an observation,
\* the owner's Get for an object.
Validate(w) ==
  /\ req[w].step \in {"validate_new", "validate"}
  /\ LET id == req[w].id
         accepted == IF id \in Observations
                       THEN validateObservationJSON(id, req[w].next)
                       ELSE OwnerExists(id, req[w].next)
         step == IF req[w].step = "validate_new" THEN "insert" ELSE "update" IN
       req' = IF accepted THEN [req EXCEPT ![w].step = step] ELSE Respond(w)
  /\ UNCHANGED <<row, files, clientVars, scene, mixed, doubtful>>

\* What an UPDATE writes: the type of an entity and the owner of an object are
\* not among its columns.
Updated(old, next) ==
  [f \in DOMAIN old |->
     IF f = "owner" \/ (f = "type" /\ "components" \in DOMAIN old) THEN old[f] ELSE next[f]]

\* UPDATE ... WHERE id: whatever row has the id now.
Update(w) ==
  /\ req[w].step = "update"
  /\ LET id == req[w].id IN
       IF row[id] # NoRow
         THEN /\ row' = [row EXCEPT ![id] = Updated(@, req[w].next)]
              /\ mixed' = IF row'[id] = req[w].next THEN mixed \ {id} ELSE mixed \cup {id}
              /\ Changed(w, id, Owed("reread", id, NoRow))
         ELSE /\ req' = Respond(w)
              /\ UNCHANGED <<row, mixed, doubtful>>
  /\ UNCHANGED <<files, clientVars, scene>>

-----------------------------------------------------------------------------
(* Deletes.  The checks for dependents are those of RefIntegrity. *)

DeleteEntity(w) ==
  \E e \in Entities \cap scene :
    /\ req[w] = Idle
    /\ row[e] # NoRow
    /\ row' = [row EXCEPT ![e] = NoRow]
    /\ Changed(w, e, Owed("publish", e, NoRow))
    /\ UNCHANGED <<files, clientVars, scene, mixed>>

\* The transaction of DeleteObject, with the foreign key of object_files.
DeleteObject(w) ==
  \E x \in Objects \cap scene :
    /\ req[w] = Idle
    /\ row[x] # NoRow
    /\ row' = [row EXCEPT ![x] = NoRow]
    /\ files' = [files EXCEPT ![x] = NoFiles]
    /\ Changed(w, x, Owed("publish", x, NoRow))
    /\ UNCHANGED <<clientVars, scene, mixed>>

OwnedBy(o) == {x \in Objects : row[x] # NoRow /\ row[x].owner = o}

\* The transaction of DeleteObservation takes the objects of the observation
\* along; one event is published, for the observation.
DeleteObservation(w) ==
  \E o \in Observations \cap scene :
    LET owned == OwnedBy(o) IN
      /\ req[w] = Idle
      /\ row[o] # NoRow
      /\ row' = [id \in Records |-> IF id \in owned \cup {o} THEN NoRow ELSE row[id]]
      /\ files' = [x \in Objects |-> IF x \in owned THEN NoFiles ELSE files[x]]
      /\ \E lost \in BOOLEAN :
           /\ req' = AfterChange(w, owned \cup {o},
                                 IF lost THEN Idle ELSE Owed("publish", o, NoRow))
           /\ doubtful' = IF lost \/ \E v \in Workers \ {w} : Owes(v, o)
                            THEN doubtful \cup owned \cup {o}
                            ELSE (doubtful \ {o}) \cup owned
      /\ UNCHANGED <<clientVars, scene, mixed>>

-----------------------------------------------------------------------------
(* Object files: what the transaction of the store commits (ObjectFiles). *)

FileCommitted(w, x, f, size) ==
  /\ files' = [files EXCEPT ![x][f] = size]
  /\ Changed(w, x, Owed("reread", x, NoRow))
  /\ UNCHANGED <<row, clientVars, scene, mixed>>

UploadObjectFile(w) ==
  \E x \in Objects \cap scene, f \in FileIds \cap scene :
    /\ req[w] = Idle
    /\ row[x] # NoRow
    /\ files[x][f] = 0
    /\ FileCommitted(w, x, f, 1)

AppendObjectFile(w) ==
  \E x \in Objects \cap scene, f \in FileIds \cap scene :
    /\ req[w] = Idle
    /\ files[x][f] \in 1..(MaxSize - 1)
    /\ FileCommitted(w, x, f, files[x][f] + 1)

DeleteObjectFile(w) ==
  \E x \in Objects \cap scene, f \in FileIds \cap scene :
    /\ req[w] = Idle
    /\ files[x][f] # 0
    /\ FileCommitted(w, x, f, 0)

-----------------------------------------------------------------------------
(* After the commit. *)

\* Mutant: the event of an object that is not listed again has no files.
BugRereadWithoutList(w) ==
  /\ req[w].step = "reread"
  /\ LET id == req[w].id IN
       req' = IF row[id] = NoRow THEN Respond(w)
              ELSE [req EXCEPT ![w] =
                      Owed("publish", id, IF id \in Objects
                                            THEN ObjectView(row[id], NoFiles, {})
                                            ELSE row[id])]
  /\ UNCHANGED <<row, files, clientVars, scene, mixed, doubtful>>

\* GetEntity, GetObservation or GetObject after the change; a record that is gone
\* ends the request without an event.
Reread(w) ==
  /\ req[w].step = "reread"
  /\ LET id == req[w].id IN
       req' = IF row[id] = NoRow THEN Respond(w)
              ELSE [req EXCEPT ![w] =
                      Owed(IF id \in Objects THEN "list" ELSE "publish", id, row[id])]
  /\ UNCHANGED <<row, files, clientVars, scene, mixed, doubtful>>

\* Mutant: the files are counted after the list is cut.
BugCountAfterCut(w) ==
  /\ req[w].step = "list"
  /\ LET x == req[w].id
         present == FilesAt(files[x]) IN
       \E named \in SUBSET present :
         /\ Cardinality(named) = IF Cardinality(present) > Cap THEN Cap ELSE Cardinality(present)
         /\ req' = [req EXCEPT ![w] = Owed("publish", x,
              ObjectView(req[w].data, [f \in FileIds |-> IF f \in named THEN files[x][f] ELSE 0],
                         named))]
  /\ UNCHANGED <<row, files, clientVars, scene, mixed, doubtful>>

\* ListObjectFilesForObject: its first Cap files, in an order that depends on
\* when they were changed.
ListObjectFiles(w) ==
  /\ req[w].step = "list"
  /\ LET x == req[w].id
         present == FilesAt(files[x]) IN
       \E named \in SUBSET present :
         /\ Cardinality(named) = IF Cardinality(present) > Cap THEN Cap ELSE Cardinality(present)
         /\ req' = [req EXCEPT ![w] =
                      Owed("publish", x, ObjectView(req[w].data, files[x], named))]
  /\ UNCHANGED <<row, files, clientVars, scene, mixed, doubtful>>

\* Its error is dropped: the event then says that the object has no files.
ListObjectFilesFails(w) ==
  /\ req[w].step = "list"
  /\ req' = [req EXCEPT ![w] =
               Owed("publish", req[w].id, ObjectView(req[w].data, NoFiles, {}))]
  /\ doubtful' = doubtful \cup {req[w].id}
  /\ UNCHANGED <<row, files, clientVars, scene, mixed>>

\* Publish to the hub, whether or not the client of the request is still there.
\* The event of a delete removes the record from the replica.
Publish(w) ==
  /\ req[w].step = "publish"
  /\ LET id == req[w].id IN
       /\ replica' = IF phase \in {"subscribed", "live"}
                       THEN [replica EXCEPT ![id] = req[w].data] ELSE replica
       /\ doubtful' = IF phase = "queried" THEN doubtful \cup {id} ELSE doubtful
  /\ req' = Respond(w)
  /\ UNCHANGED <<row, files, phase, scene, mixed>>

\* A statement fails, most likely because the client has gone away and the
\* context of the request is cancelled.
Abandon(w) ==
  /\ Plans(w) \/ req[w].step = "reread"
  /\ req' = Respond(w)
  /\ doubtful' = IF Plans(w) THEN doubtful ELSE doubtful \cup {req[w].id}
  /\ UNCHANGED <<row, files, clientVars, scene, mixed>>

-----------------------------------------------------------------------------
(* A client that keeps a replica. *)

\* GET /stream/changes.
Subscribe ==
  /\ phase \in {"off", "queried"}
  /\ phase' = IF phase = "off" THEN "subscribed" ELSE "live"
  /\ UNCHANGED <<row, files, req, replica, scene, mixed, doubtful>>

\* GET /queries/full, one snapshot of all tables.  A client that is subscribed
\* already puts the events it has received on top of the snapshot.
FullQuery ==
  /\ phase \in {"off", "subscribed"}
  /\ phase' = IF phase = "off" THEN "queried" ELSE "live"
  /\ replica' = [id \in Records |-> IF replica[id] = Unknown THEN Current(id) ELSE replica[id]]
  /\ doubtful' = {id \in doubtful : replica[id] # Unknown \/ ~NobodyOwes(id)}
  /\ UNCHANGED <<row, files, req, scene, mixed>>

\* The stream ends: the client starts over.
Disconnect ==
  /\ phase # "off"
  /\ phase' = "off"
  /\ replica' = [id \in Records |-> Unknown]
  /\ UNCHANGED <<row, files, req, scene, mixed, doubtful>>

\* The process stops and starts again: requests and streams end.
Restart ==
  /\ req' = [w \in Workers |-> Idle]
  /\ phase' = "off"
  /\ replica' = [id \in Records |-> Unknown]
  /\ UNCHANGED <<row, files, scene, mixed, doubtful>>

-----------------------------------------------------------------------------
(* The specification. *)

Init ==
  /\ row = [id \in Records |-> NoRow]
  /\ files = [x \in Objects |-> NoFiles]
  /\ req = [w \in Workers |-> Idle]
  /\ phase = "off"
  /\ replica = [id \in Records |-> Unknown]
  /\ scene \in Scenes
  /\ mixed = {}
  /\ doubtful = {}

Begin(w) ==
  \/ CreateEntity(w) \/ CreateObservation(w) \/ CreateObject(w)
  \/ PatchEntity(w) \/ PatchObservation(w) \/ PatchObject(w)
  \/ DeleteEntity(w) \/ DeleteObservation(w) \/ DeleteObject(w)
  \/ UploadObjectFile(w) \/ AppendObjectFile(w) \/ DeleteObjectFile(w)

Continue(w) ==
  \/ Insert(w) \/ Validate(w) \/ Update(w)
  \/ Reread(w) \/ ListObjectFiles(w) \/ ListObjectFilesFails(w)
  \/ Publish(w) \/ Abandon(w)

Client == Subscribe \/ FullQuery \/ Disconnect

Next == Client \/ Restart \/ \E w \in Workers : Begin(w) \/ Continue(w)

Spec == Init /\ [][Next]_vars
-----------------------------------------------------------------------------
(* Properties. *)

View(id) == IF id \in Objects THEN ObjectViews ELSE Row(id)

PlanOf(id) ==
  [step : {"validate_new", "insert", "validate", "update"}, id : {id}, next : Row(id),
   named : SUBSET {"type", "alias", "components", "state", "sightings_object_id"},
   stale : BOOLEAN]

OwedOf(id) ==
  [step : {"reread"}, id : {id}, data : {NoRow}]
    \cup [step : {"list"}, id : {id} \cap Objects, data : Row(id)]
    \cup [step : {"publish"}, id : {id}, data : View(id) \cup {NoRow}]

\* Rows, requests and the replica hold values of their sorts; among others no
\* sentinel of a patch ever reaches a row.
TypeOK ==
  /\ DOMAIN row = Records
  /\ \A id \in Records : row[id] \in Row(id) \cup {NoRow}
  /\ files \in [Objects -> [FileIds -> 0..MaxSize]]
  /\ DOMAIN req = Workers
  /\ \A w \in Workers :
       req[w] = Idle \/ \E id \in Records : req[w] \in PlanOf(id) \cup OwedOf(id)
  /\ phase \in {"off", "subscribed", "queried", "live"}
  /\ DOMAIN replica = Records
  /\ \A id \in Records : replica[id] \in View(id) \cup {NoRow, Unknown}
  /\ mixed \subseteq Records
  /\ doubtful \subseteq Records

\* Stored JSON is valid for the type and the owner of its row, however patches,
\* deletes and creates of one id interleave.  The one exception: a patch that was
\* validated for a row that has been deleted and created again differently.
RowsValid ==
  \A id \in Records : row[id] # NoRow /\ id \notin mixed => Valid(id)

\* A patch of a row that has not changed since it was read is atomic: it changes
\* no field that it does not name.
UndisturbedPatchesKeepTheRest ==
  [][\A w \in Workers :
       LET id == req[w].id IN
         (req[w].step = "update" /\ ~req[w].stale /\ row'[id] # row[id] /\ Update(w)) =>
           \A f \in DOMAIN row[id] : row'[id][f] # row[id][f] => f \in req[w].named]_vars

\* A client that has subscribed and queried, in either order, holds every record
\* as it is stored once no event is owed for it.  The exceptions, until the next
\* change of the record that overtakes no other or until the client starts over:
\* a change made while the event of an earlier one was owed; a request cut off
\* between its commit and its event, or whose file list fails; an object that
\* went with its observation; an event between the query and the subscription of
\* a client that does not subscribe first.
ReplicaCurrent ==
  phase = "live" =>
    \A id \in Records : NobodyOwes(id) /\ id \notin doubtful => Shows(replica[id], id)

-----------------------------------------------------------------------------
(* The inductive invariant. *)

\* The foreign key of object_files.
FilesNeedObject == \A x \in Objects : row[x] = NoRow => files[x] = NoFiles

\* At most one event is owed for a record that is not doubtful ...
OneOwes ==
  \A id \in Records \ doubtful : \A v, w \in Workers : Owes(v, id) /\ Owes(w, id) => v = w

\* ... and it is going to show the record as it is.
DebtIsCurrent(debt) ==
  LET id == debt.id IN
    /\ debt.step = "reread" => row[id] # NoRow
    /\ debt.step = "list" => row[id] # NoRow /\ debt.data = row[id]
    /\ debt.step = "publish" => Shows(debt.data, id)

OwedIsCurrent ==
  \A id \in Records \ doubtful : \A w \in Workers : Owes(w, id) => DebtIsCurrent(req[w])

\* What a request is going to write is valid.
ValidPlan(plan) ==
  /\ plan.id \in Entities => validateEntityInput(plan.next)
  /\ plan.id \in Objects => validateObjectInput(plan.next)

PlannedValid == \A w \in Workers : Plans(w) => ValidPlan(req[w])

\* A patch of a row that has not changed differs from it in named fields only.
FreshPlan(plan) ==
  plan.step \in {"validate", "update"} /\ ~plan.stale =>
    LET old == row[plan.id] IN
      old # NoRow /\ \A f \in DOMAIN old : plan.next[f] # old[f] => f \in plan.named

PlannedFresh == \A w \in Workers : Plans(w) => FreshPlan(req[w])

\* A record the client has heard of is as it is stored, doubts and owed events
\* apart, from the subscription or the query on.
ReplicaKnows ==
  /\ phase = "off" => \A id \in Records : replica[id] = Unknown
  /\ phase \in {"queried", "live"} => \A id \in Records : replica[id] # Unknown
  /\ \A id \in Records \ doubtful :
       replica[id] # Unknown /\ NobodyOwes(id) => Shows(replica[id], id)

IInv ==
  /\ TypeOK
  /\ RowsValid
  /\ FilesNeedObject
  /\ PlannedValid
  /\ PlannedFresh
  /\ OneOwes
  /\ OwedIsCurrent
  /\ ReplicaKnows
=============================================================================
