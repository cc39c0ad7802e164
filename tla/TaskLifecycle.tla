--------------------------- MODULE TaskLifecycle ---------------------------
(***************************************************************************)
(* The task operations of Atlas Core (internal/service/service.go and      *)
(* internal/service/task_json.go) over the tasks table of the Postgres     *)
(* store (internal/postgres/store.go).                                     *)
(*                                                                         *)
(* Every HTTP request runs in a goroutine of its own.  A handler is a      *)
(* sequence of autocommitted SQL statements with pure Go code between      *)
(* them, and no transaction and no compare-and-set spans the statements:   *)
(* the row that PatchTask and TransitionTaskStatus check is read by one    *)
(* statement and overwritten by a later one.  One action here is one SQL   *)
(* statement together with the Go code that follows it.  A request that is *)
(* answered with an error, or that repeats the current status, leaves no   *)
(* trace in the tables and goes back to idle.                              *)
(***************************************************************************)
EXTENDS Naturals, FiniteSets

CONSTANTS
  Workers,       \* goroutines that serve HTTP requests
  Tasks,         \* task ids that clients use
  Assets,        \* entity ids that clients use
  Catalogs,      \* command catalogs, identified by their content hash
  Commands,      \* command types
  Parameters,    \* parameter objects other than the empty one
  Reports,       \* values of the progress, result and error components
  Descriptions,  \* values of the remaining top-level JSON keys
  Absent,        \* a JSON key that is not there
  Accepts,       \* <<k, c, p>>: catalog k defines command c and allows p
  Keep,          \* a key that a patch does not name
  NoTask, NoAsset, NoCatalog

ASSUME AcceptsAssumption ==
  Accepts \subseteq Catalogs \X Commands \X (Parameters \cup {Absent})

ASSUME SentinelAssumption ==
  /\ \A S \in SUBSET Commands : NoAsset # S
  /\ NoCatalog \notin Catalogs
  /\ Absent \notin Commands
  /\ Keep \notin Descriptions \cup {Absent}

VARIABLES
  task,      \* tasks: rows of the tasks table
  supports,  \* asset -> its supported_commands, or NoAsset
  active,    \* catalog held in memory by this process, or NoCatalog
  loadable,  \* catalogs whose stored catalog-json file can be read back
  req,       \* request served by each worker
  exclusive  \* tasks whose writes the clients never overlap

vars == <<task, supports, active, loadable, req, exclusive>>

-----------------------------------------------------------------------------
(* Values. *)

Status == {"pending", "acknowledged", "completed", "failed"}

Components == [command    : Commands \cup {Absent},
               parameters : Parameters \cup {Absent},
               report     : Reports \cup {Absent}]

TaskJSON == [description : Descriptions \cup {Absent}, components : Components]

\* A PATCH body.  JSON null deletes a key: description may become Absent.
Patches == [description : Descriptions \cup {Absent, Keep},
            components  : Components \cup {Keep}]

Row == [status : Status, asset : Assets, catalog : Catalogs, json : TaskJSON]

ASSUME RowAssumption ==
  /\ NoTask \notin Row
  /\ Keep \notin Components

Idle == [step |-> "idle"]

\* What a worker remembers between two statements: the row it is going to
\* insert, or the status and JSON it is going to write.  "stale" is a history
\* variable: the row has changed since this request read it.
InsertRequest == [step : {"insert"}, id : Tasks, next : Row]

UpdateRequest == [step : {"catalog", "asset", "write"}, id : Tasks, next : Row,
                  stale : BOOLEAN]

DeleteRequest == [step : {"delete"}, id : Tasks]

Request == InsertRequest \cup UpdateRequest \cup DeleteRequest

-----------------------------------------------------------------------------
(* The pure functions of the service. *)

\* Mutant: the current status is not looked at.
BugTargetOnly(current, target) == target \in {"acknowledged", "completed", "failed"}

allowedTaskTransition(current, target) ==
  \/ current = "pending" /\ target = "acknowledged"
  \/ current = "acknowledged" /\ target \in {"completed", "failed"}

\* MergeNamedSections: every top-level key the patch names replaces the key,
\* so a patch that names "components" replaces all of them.
MergeNamedSections(base, patch) ==
  [k \in DOMAIN base |-> IF patch[k] = Keep THEN base[k] ELSE patch[k]]

\* mergeTaskComponentsOnlyProgressResultError: whether the patch is accepted ...
OnlyReport(patch) ==
  /\ patch.description = Keep
  /\ patch.components # Keep =>
       patch.components.command = Absent /\ patch.components.parameters = Absent

\* ... and what it returns.
MergeReport(base, patch) ==
  IF patch.components = Keep \/ patch.components.report = Absent
    THEN base
    ELSE [base EXCEPT !.components.report = patch.components.report]

\* validateTaskCommandCatalog: the command is there, the catalog defines it, and
\* its schema allows the parameters; missing parameters are the empty object.
ValidInCatalog(json, catalog) ==
  /\ json.components.command # Absent
  /\ <<catalog, json.components.command, json.components.parameters>> \in Accepts

\* validateTaskCommandSupport.
ValidForAsset(json, commands) ==
  /\ commands # NoAsset
  /\ json.components.command \in commands

SameCommand(json1, json2) ==
  /\ json1.components.command = json2.components.command
  /\ json1.components.parameters = json2.components.parameters

-----------------------------------------------------------------------------
(* Requests in flight. *)

Busy(w) == req[w] # Idle

\* A client waits for the answer to a write to an exclusive task before any
\* client sends the next write to that task.
MayStart(w, t) ==
  /\ ~Busy(w)
  /\ t \in exclusive => \A v \in Workers : Busy(v) => req[v].id # t

Respond(w) == [req EXCEPT ![w] = Idle]

\* The requests after the row of t changed under the ones that have read it.
Outdate(t) ==
  [v \in Workers |->
     IF req[v] \in UpdateRequest /\ req[v].id = t
       THEN [req[v] EXCEPT !.stale = TRUE]
       ELSE req[v]]

-----------------------------------------------------------------------------
(* POST /tasks. *)

\* GetEntity, the active catalog, and validateTaskCommand.
CreateTaskValidate(w) ==
  \E t \in Tasks, a \in Assets, json \in TaskJSON :
    /\ MayStart(w, t)
    /\ active # NoCatalog
    /\ ValidInCatalog(json, active)
    /\ ValidForAsset(json, supports[a])
    /\ req' = [req EXCEPT ![w] =
         [step |-> "insert", id |-> t,
          next |-> [status |-> "pending", asset |-> a,
                    catalog |-> active, json |-> json]]]
    /\ UNCHANGED <<task, supports, active, loadable, exclusive>>

\* INSERT INTO tasks: primary key and the foreign key on the asset.
CreateTaskInsert(w) ==
  /\ req[w].step = "insert"
  /\ LET t == req[w].id IN
       IF task[t] = NoTask /\ supports[req[w].next.asset] # NoAsset
         THEN /\ task' = [task EXCEPT ![t] = req[w].next]
              /\ req' = [Outdate(t) EXCEPT ![w] = Idle]
         ELSE /\ req' = Respond(w)
              /\ UNCHANGED task
  /\ UNCHANGED <<supports, active, loadable, exclusive>>

-----------------------------------------------------------------------------
(* PATCH /tasks/{id} and POST /tasks/{id}/status. *)

Start(w, t, next) ==
  req' = [req EXCEPT ![w] =
    [step |-> "catalog", id |-> t, next |-> next, stale |-> FALSE]]

\* Mutant: a task that has left pending is patched like a pending one.
BugPatchAnyStatus(w) ==
  \E t \in Tasks, patch \in Patches :
    /\ MayStart(w, t)
    /\ task[t] # NoTask
    /\ Start(w, t, [task[t] EXCEPT !.json = MergeNamedSections(@, patch)])
    /\ UNCHANGED <<task, supports, active, loadable, exclusive>>

\* GetTask and the merge of the patch into the row just read.
PatchTaskRead(w) ==
  \E t \in Tasks, patch \in Patches :
    /\ MayStart(w, t)
    /\ task[t] # NoTask
    /\ IF task[t].status = "pending"
         THEN Start(w, t, [task[t] EXCEPT !.json = MergeNamedSections(@, patch)])
         ELSE /\ OnlyReport(patch)
              /\ SameCommand(task[t].json, MergeReport(task[t].json, patch))
              /\ Start(w, t, [task[t] EXCEPT !.json = MergeReport(@, patch)])
    /\ UNCHANGED <<task, supports, active, loadable, exclusive>>

\* GetTask, allowedTaskTransition and the merge of the report.
TransitionTaskStatusRead(w) ==
  \E t \in Tasks, target \in Status, patch \in Patches :
    /\ MayStart(w, t)
    /\ task[t] # NoTask
    /\ allowedTaskTransition(task[t].status, target)
    /\ OnlyReport(patch)
    /\ SameCommand(task[t].json, MergeReport(task[t].json, patch))
    /\ Start(w, t, [task[t] EXCEPT !.status = target, !.json = MergeReport(@, patch)])
    /\ UNCHANGED <<task, supports, active, loadable, exclusive>>

\* loadPinnedCatalog: the catalog in memory, or else the stored file.
CatalogLoaded(w) ==
  req[w].next.catalog = active \/ req[w].next.catalog \in loadable

\* Mutant: the command is checked against the active catalog, not the pinned one.
BugValidateAgainstActive(w) ==
  /\ req[w].step = "catalog"
  /\ req' = IF ValidInCatalog(req[w].next.json, active)
              THEN [req EXCEPT ![w].step =
                      IF req[w].next.status = "pending" THEN "asset" ELSE "write"]
              ELSE Respond(w)
  /\ UNCHANGED <<task, supports, active, loadable, exclusive>>

\* The pinned catalog and validateTaskCommandCatalog.  A patch of a pending
\* task goes on to read the asset, everything else goes on to the write.
ValidateAgainstCatalog(w) ==
  /\ req[w].step = "catalog"
  /\ req' = IF CatalogLoaded(w) /\ ValidInCatalog(req[w].next.json, req[w].next.catalog)
              THEN [req EXCEPT ![w].step =
                      IF req[w].next.status = "pending" THEN "asset" ELSE "write"]
              ELSE Respond(w)
  /\ UNCHANGED <<task, supports, active, loadable, exclusive>>

\* GetEntity and validateTaskCommandSupport, for a pending task only.
PatchTaskValidateAsset(w) ==
  /\ req[w].step = "asset"
  /\ req' = IF ValidForAsset(req[w].next.json, supports[req[w].next.asset])
              THEN [req EXCEPT ![w].step = "write"]
              ELSE Respond(w)
  /\ UNCHANGED <<task, supports, active, loadable, exclusive>>

\* UPDATE tasks SET status, json WHERE task_id: whatever the row holds now.
UpdateTask(w) ==
  /\ req[w].step = "write"
  /\ LET t == req[w].id IN
       IF task[t] # NoTask
         THEN /\ task' = [task EXCEPT ![t].status = req[w].next.status,
                                      ![t].json   = req[w].next.json]
              /\ req' = [Outdate(t) EXCEPT ![w] = Idle]
         ELSE /\ req' = Respond(w)
              /\ UNCHANGED task
  /\ UNCHANGED <<supports, active, loadable, exclusive>>

-----------------------------------------------------------------------------
(* DELETE /tasks/{id}. *)

\* CountTaskOwnedObjects found none.  The objects are those of RefIntegrity:
\* here the count may come out either way.
DeleteTaskCount(w) ==
  \E t \in Tasks :
    /\ MayStart(w, t)
    /\ req' = [req EXCEPT ![w] = [step |-> "delete", id |-> t]]
    /\ UNCHANGED <<task, supports, active, loadable, exclusive>>

DeleteTaskRow(w) ==
  /\ req[w].step = "delete"
  /\ task' = [task EXCEPT ![req[w].id] = NoTask]
  /\ req' = [Outdate(req[w].id) EXCEPT ![w] = Idle]
  /\ UNCHANGED <<supports, active, loadable, exclusive>>

-----------------------------------------------------------------------------
(* What the rest of the system does to the state the tasks depend on. *)

\* A statement fails or the client goes away: the context of the request is
\* cancelled, and it ends without executing its remaining statements.
Abandon(w) ==
  /\ Busy(w)
  /\ req' = Respond(w)
  /\ UNCHANGED <<task, supports, active, loadable, exclusive>>

\* The last statement of CreateEntity or PatchEntity.  An entity that is not an
\* asset supports no commands: commands is then {}.
WriteEntity(a, commands) ==
  /\ supports' = [supports EXCEPT ![a] = commands]
  /\ UNCHANGED <<task, active, loadable, req, exclusive>>

\* Mutant: the tasks table has no foreign key on its asset.
BugDeleteEntityAnyway(a) ==
  /\ supports' = [supports EXCEPT ![a] = NoAsset]
  /\ UNCHANGED <<task, active, loadable, req, exclusive>>

\* The last statement of DeleteEntity: tasks_asset_id_fkey guards it.
DeleteEntity(a) ==
  /\ \A t \in Tasks : task[t] # NoTask => task[t].asset # a
  /\ supports' = [supports EXCEPT ![a] = NoAsset]
  /\ UNCHANGED <<task, active, loadable, req, exclusive>>

\* The file endpoints delete, append to or replace the file catalog-json of any
\* catalog object.  An upload of the right bytes makes it loadable again.
WriteCatalogFile(k) ==
  /\ loadable' = (loadable \ {k}) \cup ({k} \ loadable)
  /\ UNCHANGED <<task, supports, active, req, exclusive>>

\* The process stops at any point, SIGTERM included: main returns as soon as
\* ListenAndServe does and does not wait for Shutdown.  It starts again with
\* the catalog file it is configured with, which it has stored or verified, or
\* with none when that failed.  Only loadPinnedCatalog has a limit for the file:
\* what was stored may be too large to be read back.
Restart(k) ==
  /\ active' = k
  /\ loadable' \in {loadable, loadable \cup ({k} \ {NoCatalog})}
  /\ req' = [w \in Workers |-> Idle]
  /\ UNCHANGED <<task, supports, exclusive>>

-----------------------------------------------------------------------------
(* The specification. *)

Init ==
  /\ task = [t \in Tasks |-> NoTask]
  /\ supports = [a \in Assets |-> NoAsset]
  /\ active \in Catalogs \cup {NoCatalog}
  /\ loadable \in SUBSET ({active} \ {NoCatalog})
  /\ req = [w \in Workers |-> Idle]
  /\ exclusive \in SUBSET Tasks

Handle(w) ==
  \/ CreateTaskValidate(w)
  \/ CreateTaskInsert(w)
  \/ PatchTaskRead(w)
  \/ TransitionTaskStatusRead(w)
  \/ ValidateAgainstCatalog(w)
  \/ PatchTaskValidateAsset(w)
  \/ UpdateTask(w)
  \/ DeleteTaskCount(w)
  \/ DeleteTaskRow(w)
  \/ Abandon(w)

Environment ==
  \/ \E a \in Assets, commands \in SUBSET Commands : WriteEntity(a, commands)
  \/ \E a \in Assets : DeleteEntity(a)
  \/ \E k \in Catalogs : WriteCatalogFile(k)
  \/ \E k \in Catalogs \cup {NoCatalog} : Restart(k)

Next == Environment \/ \E w \in Workers : Handle(w)

Spec == Init /\ [][Next]_vars

-----------------------------------------------------------------------------
(* Properties. *)

\* Rows, requests and the environment hold values of their sorts; among others
\* no sentinel of a patch ever reaches a stored row.
TypeOK ==
  /\ task \in [Tasks -> Row \cup {NoTask}]
  /\ supports \in [Assets -> (SUBSET Commands) \cup {NoAsset}]
  /\ active \in Catalogs \cup {NoCatalog}
  /\ loadable \subseteq Catalogs
  /\ req \in [Workers -> Request \cup {Idle}]
  /\ exclusive \subseteq Tasks

\* A row that is replaced keeps its asset and its pinned catalog, follows the
\* status lifecycle, and once it has left pending, or in the write that takes
\* it out of pending, changes nothing but its report.
LegalChange(old, new) ==
  /\ new.asset = old.asset /\ new.catalog = old.catalog
  /\ old.status # new.status =>
       <<old.status, new.status>> \in {<<"pending", "acknowledged">>,
         <<"acknowledged", "completed">>, <<"acknowledged", "failed">>}
  /\ new.status # "pending" =>
       new.json = [old.json EXCEPT !.components.report = new.json.components.report]

\* A request that holds the current row is going to change it legally.
PlannedLegal ==
  \A w \in Workers : req[w] \in UpdateRequest /\ ~req[w].stale =>
    /\ task[req[w].id] # NoTask
    /\ LegalChange(task[req[w].id], req[w].next)

\* What has passed catalog validation is accepted by the catalog it is pinned to.
PlannedAccepted ==
  \A w \in Workers : req[w].step \in {"insert", "asset", "write"} =>
    ValidInCatalog(req[w].next.json, req[w].next.catalog)

\* Two requests never work on one exclusive task, so its row is not outdated.
OneRequestPerTask ==
  /\ \A v, w \in Workers :
       Busy(v) /\ Busy(w) /\ req[v].id = req[w].id /\ req[v].id \in exclusive => v = w
  /\ \A w \in Workers :
       req[w] \in UpdateRequest /\ req[w].id \in exclusive => ~req[w].stale

\* The checks of PatchTask and TransitionTaskStatus are sound for the row they
\* were made on: under any interleaving, the UPDATE of a request whose row has
\* not changed since the request read it changes the row legally.
FreshWritesAreLegal ==
  [][\A w \in Workers :
       LET t == req[w].id IN
         (/\ req[w].step = "write" /\ ~req[w].stale
          /\ req'[w] = Idle /\ task'[t] # task[t])
           => task'[t] # NoTask /\ LegalChange(task[t], task'[t])]_vars

\* When the writes to one task do not overlap, every change of a row that stays
\* in the table is legal: no other request, restart, entity or file operation
\* can come between the read and the write in a way that matters.
LifecycleRespected ==
  [][\A t \in exclusive : (task[t] # NoTask /\ task'[t] # NoTask)
                             => LegalChange(task[t], task'[t])]_task

\* A stored task whose writes do not overlap names a command that its own pinned
\* catalog defines, with parameters that catalog allows, whichever catalog is
\* active now.
CommandAccepted ==
  \A t \in exclusive : task[t] # NoTask =>
    <<task[t].catalog, task[t].json.components.command,
      task[t].json.components.parameters>> \in Accepts

\* The asset of a stored task exists, although the asset is read in a statement
\* of its own, long before the task is inserted.
AssetExists ==
  \A t \in Tasks : task[t] # NoTask => supports[task[t].asset] # NoAsset

\* The inductive invariant: what requests in flight still rely on, beside what
\* holds of the tables.
IInv ==
  /\ TypeOK
  /\ PlannedLegal
  /\ PlannedAccepted
  /\ AssetExists
  /\ OneRequestPerTask
  /\ CommandAccepted

\* A terminal task is never active again.
TerminalNeverActive ==
  [][\A t \in Tasks :
       (/\ task[t] # NoTask /\ task'[t] # NoTask
        /\ task[t].status \in {"completed", "failed"})
         => task'[t].status \notin {"pending", "acknowledged"}]_task
=============================================================================
