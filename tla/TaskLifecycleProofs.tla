------------------------ MODULE TaskLifecycleProofs ------------------------
(***************************************************************************)
(* Theorems about TaskLifecycle, for any number of workers, tasks, assets, *)
(* catalogs and commands.                                                  *)
(***************************************************************************)
EXTENDS TaskLifecycle, TLAPS

USE AcceptsAssumption, SentinelAssumption, RowAssumption

-----------------------------------------------------------------------------
(* The pure functions stay within the sorts. *)

\* Merging a patch into a stored document gives a document.
LEMMA MergeType ==
  ASSUME NEW base \in TaskJSON, NEW patch \in Patches
  PROVE  /\ MergeNamedSections(base, patch) \in TaskJSON
         /\ OnlyReport(patch) => MergeReport(base, patch) \in TaskJSON
  BY DEF TaskJSON, Patches, Components, MergeNamedSections, OnlyReport, MergeReport

\* A request is an insert, an update or a delete, and its step tells which.
LEMMA RequestKinds ==
  ASSUME NEW r \in Request \cup {Idle}
  PROVE  /\ r.step = "insert" <=> r \in InsertRequest
         /\ r.step \in {"catalog", "asset", "write"} <=> r \in UpdateRequest
         /\ r.step = "delete" <=> r \in DeleteRequest
         /\ r # Idle => r \in Request
         /\ r \in Request => r # Idle /\ r.id \in Tasks
  BY DEF Request, InsertRequest, UpdateRequest, DeleteRequest, Idle

\* Outdate raises the stale flag of the requests that hold the row of t, and
\* changes nothing else.
LEMMA OutdateType ==
  ASSUME NEW t \in Tasks, req \in [Workers -> Request \cup {Idle}]
  PROVE  /\ Outdate(t) \in [Workers -> Request \cup {Idle}]
         /\ \A v \in Workers :
              IF req[v] \in UpdateRequest /\ req[v].id = t
                THEN Outdate(t)[v] = [req[v] EXCEPT !.stale = TRUE]
                ELSE Outdate(t)[v] = req[v]
<1>1. ASSUME NEW v \in Workers, req[v] \in UpdateRequest
      PROVE  [req[v] EXCEPT !.stale = TRUE] \in UpdateRequest
  BY <1>1 DEF UpdateRequest
<1> QED BY <1>1 DEF Outdate, Request

-----------------------------------------------------------------------------
(* Type correctness. *)

\* The initial state has the sorts of TypeOK.
LEMMA TypeInit == Init => TypeOK
  BY DEF Init, TypeOK

\* Every step keeps the sorts of TypeOK.
LEMMA TypeStep == TypeOK /\ [Next]_vars => TypeOK'
<1> SUFFICES ASSUME TypeOK, [Next]_vars PROVE TypeOK'
  OBVIOUS
<1> USE DEF TypeOK
<1>1. ASSUME NEW w \in Workers, CreateTaskValidate(w) PROVE TypeOK'
  BY <1>1 DEF CreateTaskValidate, MayStart, Request, InsertRequest, UpdateRequest, DeleteRequest, Row, Status
<1>2. ASSUME NEW w \in Workers, CreateTaskInsert(w) PROVE TypeOK'
  <2> DEFINE t == req[w].id
  <2>1. t \in Tasks /\ req[w].next \in Row
    BY <1>2 DEF CreateTaskInsert, Request, InsertRequest, UpdateRequest, DeleteRequest, Idle
  <2>2. task' \in [Tasks -> Row \cup {NoTask}]
    BY <1>2, <2>1 DEF CreateTaskInsert
  <2>3. req' \in [Workers -> Request \cup {Idle}]
    BY <1>2, <2>1, OutdateType DEF CreateTaskInsert, Respond
  <2> QED BY <1>2, <2>2, <2>3 DEF CreateTaskInsert
<1>3. ASSUME NEW w \in Workers, PatchTaskRead(w) PROVE TypeOK'
  <2>1. PICK t \in Tasks, patch \in Patches :
          /\ task[t] # NoTask
          /\ \/ Start(w, t, [task[t] EXCEPT !.json = MergeNamedSections(@, patch)])
             \/ OnlyReport(patch)
                /\ Start(w, t, [task[t] EXCEPT !.json = MergeReport(@, patch)])
    BY <1>3 DEF PatchTaskRead
  <2>2. task[t] \in Row /\ task[t].json \in TaskJSON
    BY <2>1 DEF Row
  <2>3. PICK next \in Row : Start(w, t, next)
    BY <2>1, <2>2, MergeType DEF Row
  <2> QED BY <1>3, <2>3 DEF PatchTaskRead, Start, Request, InsertRequest, UpdateRequest, DeleteRequest
<1>4. ASSUME NEW w \in Workers, TransitionTaskStatusRead(w) PROVE TypeOK'
  <2>1. PICK t \in Tasks, target \in Status, patch \in Patches :
          /\ task[t] # NoTask
          /\ OnlyReport(patch)
          /\ Start(w, t, [task[t] EXCEPT !.status = target,
                                         !.json = MergeReport(@, patch)])
    BY <1>4 DEF TransitionTaskStatusRead
  <2>2. task[t] \in Row /\ task[t].json \in TaskJSON
    BY <2>1 DEF Row
  <2>3. PICK next \in Row : Start(w, t, next)
    BY <2>1, <2>2, MergeType DEF Row
  <2> QED BY <1>4, <2>3 DEF TransitionTaskStatusRead, Start, Request, InsertRequest, UpdateRequest, DeleteRequest
<1>5. ASSUME NEW w \in Workers, ValidateAgainstCatalog(w) PROVE TypeOK'
  BY <1>5 DEF ValidateAgainstCatalog, Respond, Request, InsertRequest, UpdateRequest, DeleteRequest, Idle
<1>6. ASSUME NEW w \in Workers, PatchTaskValidateAsset(w) PROVE TypeOK'
  BY <1>6 DEF PatchTaskValidateAsset, Respond, Request, InsertRequest, UpdateRequest, DeleteRequest, Idle
<1>7. ASSUME NEW w \in Workers, UpdateTask(w) PROVE TypeOK'
  <2> DEFINE t == req[w].id
  <2>1. t \in Tasks /\ req[w].next \in Row
    BY <1>7 DEF UpdateTask, Request, InsertRequest, UpdateRequest, DeleteRequest, Idle
  <2>2. task' \in [Tasks -> Row \cup {NoTask}]
    BY <1>7, <2>1 DEF UpdateTask, Row
  <2>3. req' \in [Workers -> Request \cup {Idle}]
    BY <1>7, <2>1, OutdateType, SMTT(30) DEF UpdateTask, Respond
  <2> QED BY <1>7, <2>2, <2>3 DEF UpdateTask
<1>8. ASSUME NEW w \in Workers, DeleteTaskCount(w) PROVE TypeOK'
  BY <1>8 DEF DeleteTaskCount, Request, InsertRequest, UpdateRequest, DeleteRequest
<1>9. ASSUME NEW w \in Workers, DeleteTaskRow(w) PROVE TypeOK'
  <2>1. req[w].id \in Tasks
    BY <1>9 DEF DeleteTaskRow, Request, InsertRequest, UpdateRequest, DeleteRequest, Idle
  <2> QED BY <1>9, <2>1, OutdateType DEF DeleteTaskRow
<1>10. ASSUME NEW w \in Workers, Abandon(w) PROVE TypeOK'
  BY <1>10 DEF Abandon, Respond
<1>11. CASE Environment
  BY <1>11 DEF Environment, WriteEntity, DeleteEntity, WriteCatalogFile, Restart
<1>12. CASE UNCHANGED vars
  BY <1>12 DEF vars
<1> QED
  BY <1>1, <1>2, <1>3, <1>4, <1>5, <1>6, <1>7, <1>8, <1>9, <1>10, <1>11, <1>12
  DEF Next, Handle

\* Every variable keeps its sort; no sentinel of a patch reaches a stored row.
THEOREM TypeCorrect == Spec => []TypeOK
  BY TypeInit, TypeStep, PTL DEF Spec

-----------------------------------------------------------------------------
(* What a handler plans from the row it reads is legal for that row. *)

\* Merging a patch that OnlyReport accepts changes nothing but the report.
LEMMA MergeReportOnly ==
  ASSUME NEW base \in TaskJSON, NEW patch \in Patches, OnlyReport(patch)
  PROVE  /\ MergeReport(base, patch) =
              [base EXCEPT !.components.report =
                 MergeReport(base, patch).components.report]
         /\ SameCommand(base, MergeReport(base, patch))
  BY DEF TaskJSON, Patches, Components, OnlyReport, MergeReport, SameCommand

\* The request that PatchTaskRead starts.
LEMMA PatchIsLegal ==
  ASSUME TypeOK, NEW w \in Workers, PatchTaskRead(w)
  PROVE  \E t \in Tasks, next \in Row :
           /\ MayStart(w, t)
           /\ task[t] # NoTask
           /\ LegalChange(task[t], next)
           /\ Start(w, t, next)
<1>1. PICK t \in Tasks, patch \in Patches :
        /\ MayStart(w, t) /\ task[t] # NoTask
        /\ IF task[t].status = "pending"
             THEN Start(w, t, [task[t] EXCEPT !.json = MergeNamedSections(@, patch)])
             ELSE /\ OnlyReport(patch)
                  /\ Start(w, t, [task[t] EXCEPT !.json = MergeReport(@, patch)])
  BY DEF PatchTaskRead
<1>2. task[t] \in Row /\ task[t].json \in TaskJSON
  BY <1>1 DEF TypeOK, Row
<1>3. CASE task[t].status = "pending"
  <2> DEFINE next == [task[t] EXCEPT !.json = MergeNamedSections(@, patch)]
  <2>1. next \in Row
    BY <1>2, MergeType DEF Row
  <2>2. LegalChange(task[t], next)
    BY <1>2, <1>3 DEF LegalChange, Row
  <2> QED BY <1>1, <1>3, <2>1, <2>2
<1>4. CASE task[t].status # "pending"
  <2> DEFINE next == [task[t] EXCEPT !.json = MergeReport(@, patch)]
  <2>1. OnlyReport(patch) /\ Start(w, t, next)
    BY <1>1, <1>4
  <2>2. next \in Row
    BY <1>2, <2>1, MergeType DEF Row
  <2>3. LegalChange(task[t], next)
    BY <1>2, <2>1, MergeReportOnly DEF LegalChange, Row
  <2> QED BY <1>1, <2>1, <2>2, <2>3
<1> QED BY <1>3, <1>4

\* The request that TransitionTaskStatusRead starts.
LEMMA TransitionIsLegal ==
  ASSUME TypeOK, NEW w \in Workers, TransitionTaskStatusRead(w)
  PROVE  \E t \in Tasks, next \in Row :
           /\ MayStart(w, t)
           /\ task[t] # NoTask
           /\ LegalChange(task[t], next)
           /\ Start(w, t, next)
<1>1. PICK t \in Tasks, target \in Status, patch \in Patches :
        /\ MayStart(w, t) /\ task[t] # NoTask
        /\ allowedTaskTransition(task[t].status, target)
        /\ OnlyReport(patch)
        /\ Start(w, t, [task[t] EXCEPT !.status = target,
                                       !.json = MergeReport(@, patch)])
  BY DEF TransitionTaskStatusRead
<1>2. task[t] \in Row /\ task[t].json \in TaskJSON
  BY <1>1 DEF TypeOK, Row
<1> DEFINE next == [task[t] EXCEPT !.status = target, !.json = MergeReport(@, patch)]
<1>3. next \in Row
  BY <1>1, <1>2, MergeType DEF Row
<1>4. LegalChange(task[t], next)
  BY <1>1, <1>2, MergeReportOnly DEF LegalChange, Row, allowedTaskTransition
<1> QED BY <1>1, <1>3, <1>4

-----------------------------------------------------------------------------
(* The inductive invariant: one lemma per conjunct. *)

\* The steps that change the row of one task t, for a worker w.
WriteStep(w, t) ==
  /\ \A u \in Tasks : u # t => task'[u] = task[u]
  /\ req' = [Outdate(t) EXCEPT ![w] = Idle]

\* Every step of a worker leaves the rows alone, or is a WriteStep, and never
\* touches the requests of the other workers except to mark them stale.
LEMMA StepKinds ==
  ASSUME TypeOK, NEW w \in Workers, Handle(w)
  PROVE  \/ task' = task /\ \A v \in Workers : v # w => req'[v] = req[v]
         \/ Busy(w) /\ WriteStep(w, req[w].id)
<1>1. CASE CreateTaskInsert(w)
  BY <1>1 DEF CreateTaskInsert, WriteStep, Respond, Busy, Idle, TypeOK
<1>2. CASE UpdateTask(w)
  BY <1>2 DEF UpdateTask, WriteStep, Respond, Busy, Idle, TypeOK
<1>3. CASE DeleteTaskRow(w)
  BY <1>3, RequestKinds DEF DeleteTaskRow, WriteStep, Busy, Idle, TypeOK
<1>4. CASE PatchTaskRead(w)
  BY <1>4 DEF PatchTaskRead, Start, TypeOK
<1>5. CASE TransitionTaskStatusRead(w)
  BY <1>5 DEF TransitionTaskStatusRead, Start, TypeOK
<1>6. CASE \/ CreateTaskValidate(w) \/ ValidateAgainstCatalog(w)
           \/ PatchTaskValidateAsset(w) \/ DeleteTaskCount(w) \/ Abandon(w)
  BY <1>6 DEF CreateTaskValidate, ValidateAgainstCatalog, PatchTaskValidateAsset,
              DeleteTaskCount, Abandon, Respond, TypeOK
<1> QED BY <1>1, <1>2, <1>3, <1>4, <1>5, <1>6 DEF Handle

\* After a WriteStep, a request that is not stale is one that was not stale
\* before, of another task.
LEMMA WriteStepOutdates ==
  ASSUME TypeOK, NEW w \in Workers, NEW t \in Tasks, WriteStep(w, t),
         NEW v \in Workers, req'[v] \in UpdateRequest, ~req'[v].stale
  PROVE  req'[v] = req[v] /\ req[v].id # t /\ task'[req[v].id] = task[req[v].id]
<1>1. /\ Outdate(t) \in [Workers -> Request \cup {Idle}]
      /\ IF req[v] \in UpdateRequest /\ req[v].id = t
           THEN Outdate(t)[v] = [req[v] EXCEPT !.stale = TRUE]
           ELSE Outdate(t)[v] = req[v]
  BY OutdateType DEF TypeOK
<1>2. v # w /\ req'[v] = Outdate(t)[v]
  BY <1>1 DEF WriteStep, UpdateRequest, Idle
<1>3. ~(req[v] \in UpdateRequest /\ req[v].id = t)
  BY <1>1, <1>2 DEF UpdateRequest
<1> QED BY <1>1, <1>2, <1>3 DEF WriteStep, UpdateRequest

\* What a request with a current row plans to write stays a legal change.
LEMMA PlannedLegalStep ==
  ASSUME TypeOK, PlannedLegal, [Next]_vars
  PROVE  PlannedLegal'
<1>1. SUFFICES ASSUME NEW v \in Workers, req'[v] \in UpdateRequest, ~req'[v].stale
               PROVE  task'[req'[v].id] # NoTask
                      /\ LegalChange(task'[req'[v].id], req'[v].next)
  BY DEF PlannedLegal, LegalChange
<1>2. CASE req'[v] = req[v] /\ task'[req[v].id] = task[req[v].id]
  BY <1>1, <1>2 DEF PlannedLegal
<1>3. ASSUME NEW w \in Workers, Handle(w) 
      PROVE  \/ req'[v] = req[v] /\ task'[req[v].id] = task[req[v].id]
             \/ v = w /\ task' = task
  <2>1. CASE task' = task /\ \A u \in Workers : u # w => req'[u] = req[u]
    BY <2>1
  <2>2. CASE Busy(w) /\ WriteStep(w, req[w].id)
    <3>1. req[w].id \in Tasks
      BY <2>2, RequestKinds DEF Busy, TypeOK
    <3> QED BY <1>1, <2>2, <3>1, WriteStepOutdates
  <2> QED BY <1>3, <2>1, <2>2, StepKinds
<1>4. ASSUME Handle(v), task' = task
      PROVE  task'[req'[v].id] # NoTask /\ LegalChange(task'[req'[v].id], req'[v].next)
  <2>1. CASE PatchTaskRead(v)
    BY <1>4, <2>1, PatchIsLegal DEF Start, TypeOK
  <2>2. CASE TransitionTaskStatusRead(v)
    BY <1>4, <2>2, TransitionIsLegal DEF Start, TypeOK
  <2>3. CASE ValidateAgainstCatalog(v)
    BY <1>1, <1>4, <2>3 DEF ValidateAgainstCatalog, Respond, PlannedLegal, TypeOK, Request,
       InsertRequest, UpdateRequest, DeleteRequest, Idle
  <2>4. CASE PatchTaskValidateAsset(v)
    BY <1>1, <1>4, <2>4 DEF PatchTaskValidateAsset, Respond, PlannedLegal, TypeOK, Request,
       InsertRequest, UpdateRequest, DeleteRequest, Idle
  <2>5. CASE CreateTaskValidate(v) \/ DeleteTaskCount(v) \/ Abandon(v)
    BY <1>1, <2>5 DEF CreateTaskValidate, DeleteTaskCount, Abandon, Respond,
       TypeOK, UpdateRequest, Idle
  <2>6. CASE CreateTaskInsert(v) \/ UpdateTask(v) \/ DeleteTaskRow(v)
    <3>1. req[v].id \in Tasks
      BY <2>6, RequestKinds DEF CreateTaskInsert, UpdateTask, DeleteTaskRow, Idle, TypeOK
    <3>2. Outdate(req[v].id) \in [Workers -> Request \cup {Idle}]
      BY <3>1, OutdateType DEF TypeOK
    <3>3. req'[v] = Idle
      BY <2>6, <3>2 DEF CreateTaskInsert, UpdateTask, DeleteTaskRow, Respond, TypeOK
    <3> QED BY <1>1, <3>3 DEF UpdateRequest, Idle
  <2> QED BY <1>4, <2>1, <2>2, <2>3, <2>4, <2>5, <2>6 DEF Handle
<1>5. CASE Environment
  <2>1. task' = task /\ (req'[v] = req[v] \/ req'[v] = Idle)
    BY <1>5 DEF Environment, WriteEntity, DeleteEntity, WriteCatalogFile, Restart
  <2> QED BY <1>1, <1>2, <2>1 DEF UpdateRequest, Idle
<1>6. CASE UNCHANGED vars
  BY <1>2, <1>6 DEF vars
<1> QED BY <1>2, <1>3, <1>4, <1>5, <1>6 DEF Next

\* What is written after catalog validation stays accepted by its catalog.
LEMMA PlannedAcceptedStep ==
  ASSUME TypeOK, PlannedAccepted, [Next]_vars
  PROVE  PlannedAccepted'
<1>1. SUFFICES ASSUME NEW v \in Workers,
                      req'[v].step \in {"insert", "asset", "write"}
               PROVE  ValidInCatalog(req'[v].next.json, req'[v].next.catalog)
  BY DEF PlannedAccepted, ValidInCatalog
<1>2. CASE /\ req'[v].step = req[v].step \/ req[v].step \in {"asset", "write"}
           /\ req'[v].next = req[v].next
  BY <1>1, <1>2 DEF PlannedAccepted
<1>3. ASSUME NEW w \in Workers, Handle(w), v # w
      PROVE  req'[v].step = req[v].step /\ req'[v].next = req[v].next
  <2>1. CASE Busy(w) /\ WriteStep(w, req[w].id)
    <3>1. req[w].id \in Tasks
      BY <2>1, RequestKinds DEF Busy, TypeOK
    <3>2. /\ Outdate(req[w].id) \in [Workers -> Request \cup {Idle}]
          /\ \/ Outdate(req[w].id)[v] = req[v]
             \/ /\ req[v] \in UpdateRequest
                /\ Outdate(req[w].id)[v] = [req[v] EXCEPT !.stale = TRUE]
      BY <3>1, OutdateType DEF TypeOK
    <3>3. req'[v] = Outdate(req[w].id)[v]
      BY <1>3, <2>1, <3>2 DEF WriteStep
    <3> QED BY <3>2, <3>3 DEF UpdateRequest
  <2> QED BY <1>3, <2>1, StepKinds
<1>4. ASSUME Handle(v)
      PROVE  ValidInCatalog(req'[v].next.json, req'[v].next.catalog)
  <2>1. CASE CreateTaskValidate(v)
    BY <2>1 DEF CreateTaskValidate, TypeOK
  <2>2. CASE ValidateAgainstCatalog(v)
    <3>1. /\ req[v] \in UpdateRequest
          /\ \/ req'[v] = Idle
             \/ /\ ValidInCatalog(req[v].next.json, req[v].next.catalog)
                /\ req'[v] \in {[req[v] EXCEPT !.step = s] : s \in {"asset", "write"}}
      BY <2>2, RequestKinds DEF ValidateAgainstCatalog, Respond, TypeOK
    <3> QED BY <1>1, <3>1 DEF UpdateRequest, Idle
  <2>3. CASE PatchTaskValidateAsset(v)
    <3>1. /\ req[v] \in UpdateRequest
          /\ req'[v] = Idle \/ req'[v] = [req[v] EXCEPT !.step = "write"]
      BY <2>3, RequestKinds DEF PatchTaskValidateAsset, Respond, TypeOK
    <3> QED BY <1>1, <2>3, <3>1
        DEF PatchTaskValidateAsset, PlannedAccepted, UpdateRequest, Idle
  <2>4. CASE PatchTaskRead(v) \/ TransitionTaskStatusRead(v)
    <3>1. PICK t \in Tasks, next \in Row : Start(v, t, next)
      BY <2>4, PatchIsLegal, TransitionIsLegal
    <3>2. req'[v].step = "catalog"
      BY <3>1 DEF Start, TypeOK
    <3> QED BY <1>1, <3>2
  <2>5. CASE DeleteTaskCount(v) \/ Abandon(v)
    BY <1>1, <2>5 DEF DeleteTaskCount, Abandon, Respond, Idle, TypeOK
  <2>6. CASE CreateTaskInsert(v) \/ UpdateTask(v) \/ DeleteTaskRow(v)
    <3>1. req[v].id \in Tasks
      BY <2>6, RequestKinds DEF CreateTaskInsert, UpdateTask, DeleteTaskRow, Idle, TypeOK
    <3>2. Outdate(req[v].id) \in [Workers -> Request \cup {Idle}]
      BY <3>1, OutdateType DEF TypeOK
    <3>3. req'[v] = Idle
      BY <2>6, <3>2 DEF CreateTaskInsert, UpdateTask, DeleteTaskRow, Respond, TypeOK
    <3> QED BY <1>1, <3>3 DEF Idle
  <2> QED BY <1>4, <2>1, <2>2, <2>3, <2>4, <2>5, <2>6 DEF Handle
<1>5. CASE Environment
  <2>1. req'[v] = req[v] \/ req'[v] = Idle
    BY <1>5 DEF Environment, WriteEntity, DeleteEntity, WriteCatalogFile, Restart
  <2> QED BY <1>1, <1>2, <2>1 DEF Idle
<1>6. CASE UNCHANGED vars
  BY <1>2, <1>6 DEF vars
<1> QED BY <1>2, <1>3, <1>4, <1>5, <1>6 DEF Next

\* No step leaves a task without its asset: the foreign key is enough.
LEMMA AssetExistsStep ==
  ASSUME TypeOK, AssetExists, [Next]_vars
  PROVE  AssetExists'
<1> USE DEF TypeOK, AssetExists
<1>1. ASSUME NEW w \in Workers, CreateTaskInsert(w) PROVE AssetExists'
  <2>1. req[w].next \in Row /\ req[w].id \in Tasks
    BY <1>1, RequestKinds DEF CreateTaskInsert, InsertRequest
  <2> QED BY <1>1, <2>1 DEF CreateTaskInsert, Row
<1>2. ASSUME NEW w \in Workers, UpdateTask(w) PROVE AssetExists'
  BY <1>2 DEF UpdateTask, Row
<1>3. ASSUME NEW w \in Workers, DeleteTaskRow(w) PROVE AssetExists'
  BY <1>3 DEF DeleteTaskRow, Row
<1>4. ASSUME NEW a \in Assets, NEW commands \in SUBSET Commands, WriteEntity(a, commands)
      PROVE  AssetExists'
  BY <1>4 DEF WriteEntity, Row
<1>5. ASSUME NEW a \in Assets, DeleteEntity(a) PROVE AssetExists'
  BY <1>5 DEF DeleteEntity, Row
<1>6. CASE UNCHANGED <<task, supports>>
  BY <1>6
<1> QED
  BY <1>1, <1>2, <1>3, <1>4, <1>5, <1>6
  DEF Next, Handle, Environment, vars, CreateTaskValidate, PatchTaskRead,
      TransitionTaskStatusRead, ValidateAgainstCatalog, PatchTaskValidateAsset,
      DeleteTaskCount, Abandon, WriteCatalogFile, Restart

\* How the clients share the tasks does not change.
LEMMA ExclusiveFixed ==
  ASSUME [Next]_vars
  PROVE  exclusive' = exclusive
  BY DEF Next, Handle, Environment, vars, CreateTaskValidate, CreateTaskInsert,
     PatchTaskRead, TransitionTaskStatusRead, ValidateAgainstCatalog,
     PatchTaskValidateAsset, UpdateTask, DeleteTaskCount, DeleteTaskRow, Abandon,
     WriteEntity, DeleteEntity, WriteCatalogFile, Restart

\* An exclusive task stays with one request.
LEMMA OneRequestPerTaskStep ==
  ASSUME TypeOK, OneRequestPerTask, [Next]_vars
  PROVE  OneRequestPerTask'
<1>1. /\ \A v, w \in Workers :
           Busy(v) /\ Busy(w) /\ req[v].id = req[w].id /\ req[v].id \in exclusive => v = w
      /\ \A w \in Workers :
           req[w] \in UpdateRequest /\ req[w].id \in exclusive => ~req[w].stale
      /\ exclusive' = exclusive
  BY ExclusiveFixed DEF OneRequestPerTask
\* Requests end, or go on with the same task.
<1>2. ASSUME \A v \in Workers : \/ req'[v] = Idle
                                \/ /\ req[v] # Idle
                                   /\ req'[v].id = req[v].id
                                   /\ req[v] \in UpdateRequest <=> req'[v] \in UpdateRequest
                                   /\ req[v] \in UpdateRequest =>
                                        \/ req'[v].stale = req[v].stale
                                        \/ req[v].id \notin exclusive
      PROVE  OneRequestPerTask'
  BY <1>1, <1>2 DEF OneRequestPerTask, Busy, UpdateRequest, Idle
\* Or a request starts, on a task no other request works on.
<1>3. ASSUME NEW w \in Workers, NEW t \in Tasks, MayStart(w, t), NEW r \in Request,
             r.id = t, r \in UpdateRequest => ~r.stale, req' = [req EXCEPT ![w] = r]
      PROVE  OneRequestPerTask'
  BY <1>1, <1>3 DEF OneRequestPerTask, MayStart, Busy, TypeOK, UpdateRequest, Idle
<1>4. ASSUME NEW w \in Workers, Busy(w), WriteStep(w, req[w].id)
      PROVE  OneRequestPerTask'
  <2>1. req[w].id \in Tasks
    BY <1>4, RequestKinds DEF Busy, TypeOK
  <2>2. ASSUME NEW v \in Workers
        PROVE  \/ req'[v] = Idle
               \/ req'[v] = req[v] /\ req[v] # Idle
               \/ /\ req[v] \in UpdateRequest /\ req[v].id \notin exclusive
                  /\ req'[v] = [req[v] EXCEPT !.stale = TRUE]
    <3>1. /\ Outdate(req[w].id) \in [Workers -> Request \cup {Idle}]
          /\ IF req[v] \in UpdateRequest /\ req[v].id = req[w].id
               THEN Outdate(req[w].id)[v] = [req[v] EXCEPT !.stale = TRUE]
               ELSE Outdate(req[w].id)[v] = req[v]
      BY <2>1, OutdateType DEF TypeOK
    <3>2. v = w => req'[v] = Idle
      BY <1>4, <3>1 DEF WriteStep
    <3>3. v # w => req'[v] = Outdate(req[w].id)[v]
      BY <1>4, <3>1 DEF WriteStep
    <3>4. v # w /\ req[v] \in UpdateRequest /\ req[v].id = req[w].id
            => req[v].id \notin exclusive
      BY <1>1, <1>4 DEF Busy, UpdateRequest, Idle
    <3> QED BY <3>1, <3>2, <3>3, <3>4
  <2>3. ASSUME NEW v \in Workers, req[v] \in UpdateRequest
        PROVE  /\ [req[v] EXCEPT !.stale = TRUE] \in UpdateRequest
               /\ [req[v] EXCEPT !.stale = TRUE].id = req[v].id
               /\ req[v] # Idle
    <3>1. req[v] # Idle
      BY <2>3, RequestKinds DEF Request, TypeOK
    <3> QED BY <2>3, <3>1 DEF UpdateRequest
  <2> QED BY <1>2, <2>2, <2>3
<1>5. ASSUME NEW w \in Workers, Handle(w) PROVE OneRequestPerTask'
  <2>1. CASE CreateTaskValidate(w)
    <3>1. PICK t \in Tasks, a \in Assets, json \in TaskJSON :
            /\ MayStart(w, t) /\ active # NoCatalog
            /\ req' = [req EXCEPT ![w] =
                 [step |-> "insert", id |-> t,
                  next |-> [status |-> "pending", asset |-> a,
                            catalog |-> active, json |-> json]]]
      BY <2>1 DEF CreateTaskValidate
    <3> DEFINE r == [step |-> "insert", id |-> t,
                     next |-> [status |-> "pending", asset |-> a,
                               catalog |-> active, json |-> json]]
    <3>2. r \in Request /\ r \notin UpdateRequest
      BY <3>1 DEF Request, InsertRequest, UpdateRequest, Row, Status, TypeOK
    <3> QED BY <1>3, <3>1, <3>2
  <2>2. CASE PatchTaskRead(w) \/ TransitionTaskStatusRead(w)
    <3>1. PICK t \in Tasks, next \in Row : MayStart(w, t) /\ Start(w, t, next)
      BY <2>2, PatchIsLegal, TransitionIsLegal
    <3> DEFINE r == [step |-> "catalog", id |-> t, next |-> next, stale |-> FALSE]
    <3>2. r \in Request
      BY DEF Request, UpdateRequest
    <3> QED BY <1>3, <3>1, <3>2 DEF Start
  <2>3. CASE DeleteTaskCount(w)
    <3>1. PICK t \in Tasks :
            MayStart(w, t) /\ req' = [req EXCEPT ![w] = [step |-> "delete", id |-> t]]
      BY <2>3 DEF DeleteTaskCount
    <3> DEFINE r == [step |-> "delete", id |-> t]
    <3>2. r \in Request /\ r \notin UpdateRequest
      BY DEF Request, DeleteRequest, UpdateRequest
    <3> QED BY <1>3, <3>1, <3>2
  <2>4. CASE ValidateAgainstCatalog(w) \/ PatchTaskValidateAsset(w)
    <3>1. /\ req[w] \in UpdateRequest
          /\ \/ req' = Respond(w)
             \/ \E s \in {"asset", "write"} : req' = [req EXCEPT ![w].step = s]
      BY <2>4, RequestKinds DEF ValidateAgainstCatalog, PatchTaskValidateAsset, TypeOK
    <3> QED BY <1>2, <3>1 DEF Respond, TypeOK, UpdateRequest, Idle
  <2>5. CASE Abandon(w)
    BY <1>2, <2>5 DEF Abandon, Respond, TypeOK
  <2>6. CASE CreateTaskInsert(w) \/ UpdateTask(w) \/ DeleteTaskRow(w)
    <3>1. Busy(w)
      BY <2>6 DEF CreateTaskInsert, UpdateTask, DeleteTaskRow, Busy, Idle
    <3>2. req[w].id \in Tasks
      BY <3>1, RequestKinds DEF Busy, TypeOK
    <3>3. req' = Respond(w) \/ WriteStep(w, req[w].id)
      BY <2>6, <3>2 DEF CreateTaskInsert, UpdateTask, DeleteTaskRow, WriteStep, TypeOK
    <3>4. CASE req' = Respond(w)
      BY <1>2, <3>4 DEF Respond, TypeOK
    <3> QED BY <1>4, <3>1, <3>3, <3>4
  <2> QED BY <1>5, <2>1, <2>2, <2>3, <2>4, <2>5, <2>6 DEF Handle
<1>6. CASE Environment
  <2>1. req' = req \/ req' = [w \in Workers |-> Idle]
    BY <1>6 DEF Environment, WriteEntity, DeleteEntity, WriteCatalogFile, Restart
  <2> QED BY <1>2, <2>1
<1>7. CASE UNCHANGED vars
  BY <1>2, <1>7 DEF vars
<1> QED BY <1>5, <1>6, <1>7 DEF Next

\* The row that a request without a stale row writes, and how it changes.
LEMMA UpdateIsPlanned ==
  ASSUME IInv, NEW w \in Workers, UpdateTask(w), ~req[w].stale
  PROVE  LET t == req[w].id IN
           /\ t \in Tasks
           /\ task[t] \in Row /\ task'[t] \in Row
           /\ LegalChange(task[t], task'[t])
           /\ task'[t].catalog = req[w].next.catalog
           /\ task'[t].json = req[w].next.json
           /\ \A u \in Tasks : u # t => task'[u] = task[u]
<1> DEFINE t == req[w].id
<1>1. req[w] \in UpdateRequest
  BY RequestKinds DEF UpdateTask, IInv, TypeOK
<1>2. t \in Tasks /\ req[w].next \in Row
  BY <1>1 DEF UpdateRequest
<1>3. task[t] \in Row /\ LegalChange(task[t], req[w].next)
  BY <1>1, <1>2 DEF IInv, TypeOK, PlannedLegal
<1>4. task' = [task EXCEPT ![t].status = req[w].next.status,
                           ![t].json   = req[w].next.json]
  BY <1>3 DEF UpdateTask
<1>5. /\ task'[t] = [task[t] EXCEPT !.status = req[w].next.status,
                                    !.json   = req[w].next.json]
      /\ \A u \in Tasks : u # t => task'[u] = task[u]
  BY <1>2, <1>4 DEF IInv, TypeOK
<1> QED BY <1>2, <1>3, <1>5 DEF LegalChange, Row

\* Every step keeps the commands of exclusive tasks accepted.
LEMMA CommandAcceptedStep ==
  ASSUME IInv, [Next]_vars
  PROVE  CommandAccepted'
<1> USE DEF CommandAccepted
<1>1. CommandAccepted /\ exclusive' = exclusive
  BY ExclusiveFixed DEF IInv
<1>2. ASSUME NEW w \in Workers, CreateTaskInsert(w) PROVE CommandAccepted'
  <2>1. ValidInCatalog(req[w].next.json, req[w].next.catalog)
    BY <1>2 DEF CreateTaskInsert, IInv, PlannedAccepted
  <2>2. req[w].id \in Tasks
    BY <1>2, RequestKinds DEF CreateTaskInsert, InsertRequest, IInv, TypeOK
  <2> QED BY <1>1, <1>2, <2>1, <2>2 DEF CreateTaskInsert, ValidInCatalog, IInv, TypeOK
<1>3. ASSUME NEW w \in Workers, UpdateTask(w) PROVE CommandAccepted'
  <2>1. req[w].id \in exclusive => ~req[w].stale
    BY <1>3, RequestKinds DEF UpdateTask, IInv, TypeOK, OneRequestPerTask
  <2>2. ValidInCatalog(req[w].next.json, req[w].next.catalog)
    BY <1>3 DEF UpdateTask, IInv, PlannedAccepted
  <2>3. CASE ~req[w].stale
    BY <1>1, <1>3, <2>2, <2>3, UpdateIsPlanned DEF ValidInCatalog, IInv, TypeOK
  <2>4. CASE req[w].id \notin exclusive
    <3>1. \A u \in exclusive : task'[u] = task[u]
      BY <1>3, <2>4 DEF UpdateTask, IInv, TypeOK
    <3> QED BY <1>1, <3>1
  <2> QED BY <2>1, <2>3, <2>4
<1>4. ASSUME NEW w \in Workers, DeleteTaskRow(w) PROVE CommandAccepted'
  BY <1>1, <1>4 DEF DeleteTaskRow, IInv, TypeOK
<1>5. CASE UNCHANGED task
  BY <1>1, <1>5
<1> QED
  BY <1>2, <1>3, <1>4, <1>5
  DEF Next, Handle, Environment, vars, CreateTaskValidate, PatchTaskRead,
      TransitionTaskStatusRead, ValidateAgainstCatalog, PatchTaskValidateAsset,
      DeleteTaskCount, Abandon, WriteEntity, DeleteEntity, WriteCatalogFile, Restart

\* The inductive invariant holds initially.
LEMMA IInvInit == Init => IInv
  BY TypeInit DEF Init, IInv, PlannedLegal, PlannedAccepted, AssetExists,
     OneRequestPerTask, CommandAccepted, UpdateRequest, Busy, Idle

\* Every step keeps the inductive invariant.
LEMMA IInvStep == IInv /\ [Next]_vars => IInv'
<1> SUFFICES ASSUME IInv, [Next]_vars PROVE IInv'
  OBVIOUS
<1>1. TypeOK'
  BY TypeStep DEF IInv
<1>2. PlannedLegal'
  BY PlannedLegalStep DEF IInv
<1>3. PlannedAccepted'
  BY PlannedAcceptedStep DEF IInv
<1>4. AssetExists'
  BY AssetExistsStep DEF IInv
<1>5. OneRequestPerTask'
  BY OneRequestPerTaskStep DEF IInv
<1>6. CommandAccepted'
  BY CommandAcceptedStep
<1> QED BY <1>1, <1>2, <1>3, <1>4, <1>5, <1>6 DEF IInv

\* The inductive invariant holds in every reachable state.
THEOREM Invariant == Spec => []IInv
  BY IInvInit, IInvStep, PTL DEF Spec

-----------------------------------------------------------------------------
(* The properties of the tasks. *)

\* The asset of a stored task exists, whatever the interleaving: the foreign key
\* closes the gap between reading the asset and inserting the task.
THEOREM TaskAssetsExist == Spec => []AssetExists
<1>1. IInv => AssetExists
  BY DEF IInv
<1> QED BY <1>1, Invariant, PTL

\* If the writes to one task do not overlap, every stored task is accepted by
\* the catalog it is pinned to, across restarts that change the active catalog.
THEOREM TaskCommandsAccepted == Spec => []CommandAccepted
<1>1. IInv => CommandAccepted
  BY DEF IInv
<1> QED BY <1>1, Invariant, PTL

\* The checks of PatchTask and TransitionTaskStatus are sound on the row they
\* read: whatever else runs, a write based on the current row is legal.
THEOREM FreshWrites == Spec => FreshWritesAreLegal
<1> DEFINE Legal(w) ==
      LET t == req[w].id IN
        (/\ req[w].step = "write" /\ ~req[w].stale
         /\ req'[w] = Idle /\ task'[t] # task[t])
          => task'[t] # NoTask /\ LegalChange(task[t], task'[t])
<1>1. ASSUME IInv, Next, NEW w \in Workers PROVE Legal(w)
  <2> SUFFICES ASSUME req[w].step = "write", ~req[w].stale, req'[w] = Idle,
                      task'[req[w].id] # task[req[w].id]
               PROVE  /\ task'[req[w].id] # NoTask
                      /\ LegalChange(task[req[w].id], task'[req[w].id])
    OBVIOUS
  <2>1. PICK v \in Workers : Handle(v)
    BY <1>1 DEF Next, Environment, WriteEntity, DeleteEntity, WriteCatalogFile, Restart
  <2>2. Busy(v) /\ WriteStep(v, req[v].id) /\ req[v].id \in Tasks
    BY <1>1, <2>1, StepKinds, RequestKinds DEF IInv, TypeOK, Busy
  <2>3. v = w
    <3>1. /\ Outdate(req[v].id) \in [Workers -> Request \cup {Idle}]
          /\ \/ Outdate(req[v].id)[w] = req[w]
             \/ Outdate(req[v].id)[w] = [req[w] EXCEPT !.stale = TRUE]
      BY <1>1, <2>2, OutdateType DEF IInv, TypeOK
    <3>2. v # w => req'[w] = Outdate(req[v].id)[w]
      BY <2>2, <3>1 DEF WriteStep
    <3>3. req[w] \in UpdateRequest
      BY <1>1, RequestKinds DEF IInv, TypeOK
    <3> QED BY <3>1, <3>2, <3>3 DEF UpdateRequest, Idle
  <2>4. UpdateTask(w)
    BY <2>1, <2>3, <1>1 DEF Handle, CreateTaskValidate, CreateTaskInsert, PatchTaskRead,
       TransitionTaskStatusRead, ValidateAgainstCatalog, PatchTaskValidateAsset,
       DeleteTaskCount, DeleteTaskRow, Abandon
  <2> QED BY <1>1, <2>4, UpdateIsPlanned
<1>2. IInv /\ [Next]_vars => [\A w \in Workers : Legal(w)]_vars
  BY <1>1
<1> QED BY <1>2, Invariant, PTL DEF Spec, FreshWritesAreLegal

\* If the writes to one task do not overlap, the status lifecycle, the pins and
\* the immutability of the command after pending are respected by every step.
THEOREM Lifecycle == Spec => LifecycleRespected
<1> DEFINE Legal == \A t \in exclusive : (task[t] # NoTask /\ task'[t] # NoTask)
                                          => LegalChange(task[t], task'[t])
<1>1. ASSUME TypeOK, NEW t \in Tasks, task[t] # NoTask, task'[t] = task[t]
      PROVE  LegalChange(task[t], task'[t])
  BY <1>1 DEF TypeOK, LegalChange, Row, TaskJSON, Components
<1>2. ASSUME IInv, Next PROVE Legal
  <2>1. ASSUME NEW w \in Workers, CreateTaskInsert(w) PROVE Legal
    BY <1>1, <1>2, <2>1 DEF CreateTaskInsert, IInv, TypeOK
  <2>2. ASSUME NEW w \in Workers, UpdateTask(w) PROVE Legal
    <3>1. req[w].id \in exclusive => ~req[w].stale
      BY <1>2, <2>2, RequestKinds DEF UpdateTask, IInv, TypeOK, OneRequestPerTask
    <3>2. CASE ~req[w].stale
      BY <1>1, <1>2, <2>2, <3>2, UpdateIsPlanned DEF IInv, TypeOK
    <3>3. CASE req[w].id \notin exclusive
      <4>1. \A u \in exclusive : task'[u] = task[u]
        BY <1>2, <2>2, <3>3 DEF UpdateTask, IInv, TypeOK
      <4> QED BY <1>1, <1>2, <4>1 DEF IInv, TypeOK
    <3> QED BY <3>1, <3>2, <3>3
  <2>3. ASSUME NEW w \in Workers, DeleteTaskRow(w) PROVE Legal
    BY <1>1, <1>2, <2>3 DEF DeleteTaskRow, IInv, TypeOK
  <2>4. CASE UNCHANGED task
    BY <1>1, <1>2, <2>4 DEF IInv, TypeOK
  <2> QED
    BY <1>2, <2>1, <2>2, <2>3, <2>4
    DEF Next, Handle, Environment, CreateTaskValidate, PatchTaskRead,
        TransitionTaskStatusRead, ValidateAgainstCatalog, PatchTaskValidateAsset,
        DeleteTaskCount, Abandon, WriteEntity, DeleteEntity, WriteCatalogFile, Restart
<1>3. IInv /\ [Next]_vars => [Legal]_task
  BY <1>2 DEF vars
<1> QED BY <1>3, Invariant, PTL DEF Spec, LifecycleRespected
=============================================================================
