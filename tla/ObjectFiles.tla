---------------------------- MODULE ObjectFiles ----------------------------
(***************************************************************************)
(* Object files of Atlas Core: a row in object_files (internal/postgres/   *)
(* store.go) and bytes on the file system (internal/objectfiles/store.go)  *)
(* that no transaction spans.  An upload stages its bytes, commits the row *)
(* and then renames the bytes into place; a delete commits and then        *)
(* removes the bytes; an append works on the bytes while it holds the row  *)
(* lock and commits the new size.                                          *)
(*                                                                         *)
(* One action is one transaction that holds no lock while it waits, one    *)
(* statement of the two transactions that do, or one operation on the file *)
(* system.  The length of a file stands for its content.                   *)
(***************************************************************************)
EXTENDS Naturals, FiniteSets

CONSTANTS
  Workers,   \* goroutines that serve HTTP requests
  Objects,   \* object ids that clients use
  FileIds,   \* file ids that clients use
  MaxSize,   \* bound: length of a file
  Alone,     \* operations that clients never overlap with another on a file
  Faults,    \* what may fail beside the requests of clients
  Free       \* a row lock is not held

Operations == {"upload", "append", "open", "delete"}

FaultSites ==
  {"promote", "unlink", "truncate",                    \* file system
   "upload_commit", "append_commit", "delete_commit",  \* COMMIT returns an error
   "crash"}                                            \* the process stops

ASSUME MaxSizeAssumption == MaxSize \in Nat \ {0}
ASSUME AloneAssumption == Alone \subseteq Operations
ASSUME FaultsAssumption == Faults \subseteq FaultSites
ASSUME LockAssumption == Free \notin Workers

VARIABLES
  objects,  \* ids of the rows of objects
  row,      \* file -> size_bytes of its row in object_files, 0: no row
  lock,     \* file -> worker whose transaction holds the lock of its row
  bytes,    \* file -> length of what is at its path, 0: nothing
  healthy,  \* Store.healthy of objectfiles, reported by /readiness
  req,      \* request served by each worker
  excused   \* history: files for which the code could not notice a mismatch

vars == <<objects, row, lock, bytes, healthy, req, excused>>

-----------------------------------------------------------------------------
(* Values and requests. *)

\* object_files has the key (object_id, file_id), and the path is made of both.
Files == Objects \X FileIds

FilesOf(os) == os \X FileIds

\* Uploads and appends of no bytes are refused, so 0 is free for "none".
Sizes == 1..MaxSize

Steps == {"idle", "insert", "promote", "write", "undo", "commit", "revert",
          "restore", "stat", "cascade", "unlink"}

\* pre and size are lengths the worker remembers, paths the files it has still
\* to remove, failed whether removing one has failed.
Request == [op : Operations \cup {"none"}, step : Steps, files : SUBSET Files,
            pre : 0..MaxSize, size : 0..MaxSize, paths : SUBSET Files,
            failed : BOOLEAN]

Idle == [op |-> "none", step |-> "idle", files |-> {}, pre |-> 0, size |-> 0,
         paths |-> {}, failed |-> FALSE]

\* A client sends an operation that is in Alone only when no other request on
\* the file is in flight, and sends none while one that is in Alone is.
MayStart(w, op, files) ==
  /\ req[w] = Idle
  /\ \A v \in Workers :
       req[v].files \cap files # {} => op \notin Alone /\ req[v].op \notin Alone

\* The files on which this request overlaps a delete, or this delete a request.
MeetsDelete(op, files) ==
  {f \in files : \E v \in Workers :
     f \in req[v].files /\ "delete" \in {op, req[v].op}}

Start(w, op, step, files, size, paths) ==
  /\ req' = [req EXCEPT ![w] = [op |-> op, step |-> step, files |-> files, pre |-> 0,
                                size |-> size, paths |-> paths, failed |-> FALSE]]
  /\ excused' = excused \cup MeetsDelete(op, files)

Goto(w, step) == req' = [req EXCEPT ![w].step = step]

Respond(w) == req' = [req EXCEPT ![w] = Idle]

At(w, step, f) == req[w].step = step /\ req[w].files = {f}

\* The bytes of the file are what its row says.
Matching(f) == row[f] # 0 => bytes[f] = row[f]

Unlock(w) == [f \in Files |-> IF lock[f] = w THEN Free ELSE lock[f]]

-----------------------------------------------------------------------------
(* Upload: CreateObjectFile. *)

\* The bytes are staged completely; too many, or none, are refused.
Stage(w) ==
  \E f \in Files, n \in Sizes :
    /\ MayStart(w, "upload", {f})
    /\ Start(w, "upload", "insert", {f}, n, {})
    /\ UNCHANGED <<objects, row, lock, bytes, healthy>>

\* The transaction: the object exists, INSERT INTO object_files, UPDATE objects,
\* COMMIT.  The key makes it wait for a delete of the row that is not committed.
\* A refused request removes its staged bytes.
InsertRow(w, f) ==
  /\ At(w, "insert", f)
  /\ lock[f] = Free
  /\ IF f[1] \in objects /\ row[f] = 0
       THEN row' = [row EXCEPT ![f] = req[w].size] /\ Goto(w, "promote")
       ELSE Respond(w) /\ UNCHANGED row
  /\ UNCHANGED <<objects, lock, bytes, healthy, excused>>

\* COMMIT takes effect and still returns an error: the staged bytes are removed.
InsertRowFails(w, f) ==
  /\ "upload_commit" \in Faults
  /\ At(w, "insert", f)
  /\ lock[f] = Free
  /\ f[1] \in objects /\ row[f] = 0
  /\ row' = [row EXCEPT ![f] = req[w].size]
  /\ Respond(w)
  /\ excused' = excused \cup {f}
  /\ UNCHANGED <<objects, lock, bytes, healthy>>

\* The rename replaces whatever is at the path.
Promote(w, f) ==
  /\ At(w, "promote", f)
  /\ bytes' = [bytes EXCEPT ![f] = req[w].size]
  /\ Respond(w)
  /\ UNCHANGED <<objects, row, lock, healthy, excused>>

PromoteFails(w, f) ==
  /\ "promote" \in Faults
  /\ At(w, "promote", f)
  /\ healthy' = FALSE
  /\ Respond(w)
  /\ UNCHANGED <<objects, row, lock, bytes, excused>>

-----------------------------------------------------------------------------
(* Append: AppendObjectFile and objectfiles.Append. *)

\* Mutant: the row is read without FOR UPDATE.
BugReadRow(w) ==
  \E f \in Files :
    /\ MayStart(w, "append", {f})
    /\ row[f] # 0
    /\ Start(w, "append", "write", {f}, 0, {})
    /\ UNCHANGED <<objects, row, lock, bytes, healthy>>

\* SELECT ... FOR UPDATE.
LockRow(w) ==
  \E f \in Files :
    /\ MayStart(w, "append", {f})
    /\ row[f] # 0
    /\ lock[f] = Free
    /\ lock' = [lock EXCEPT ![f] = w]
    /\ Start(w, "append", "write", {f}, 0, {})
    /\ UNCHANGED <<objects, row, bytes, healthy>>

\* The file is opened, extended and synced; it is not created if it is missing.
Append(w, f) ==
  /\ At(w, "write", f)
  /\ bytes[f] # 0
  /\ \E n \in Sizes :
       /\ bytes[f] + n <= MaxSize
       /\ bytes' = [bytes EXCEPT ![f] = @ + n]
       /\ req' = [req EXCEPT ![w].step = "commit", ![w].pre = bytes[f],
                             ![w].size = bytes[f] + n]
  /\ UNCHANGED <<objects, row, lock, healthy, excused>>

\* The client's body ends early or is too long: part of it has been written.
AppendStops(w, f) ==
  /\ At(w, "write", f)
  /\ bytes[f] # 0
  /\ \E n \in 0..MaxSize :
       /\ bytes[f] + n <= MaxSize
       /\ bytes' = [bytes EXCEPT ![f] = @ + n]
  /\ req' = [req EXCEPT ![w].step = "undo", ![w].pre = bytes[f]]
  /\ UNCHANGED <<objects, row, lock, healthy, excused>>

\* TruncateBack works on whatever is at the path now.
TruncateBack(f, size) == bytes' = [bytes EXCEPT ![f] = IF @ = 0 THEN 0 ELSE size]

\* Mutant: the partial write is left in the file.
BugNoUndo(w, f) ==
  /\ At(w, "undo", f)
  /\ lock' = Unlock(w)
  /\ Respond(w)
  /\ UNCHANGED <<objects, row, bytes, healthy, excused>>

\* Append truncates what it has written, and the transaction is rolled back.
Undo(w, f) ==
  /\ At(w, "undo", f)
  /\ TruncateBack(f, req[w].pre)
  /\ lock' = Unlock(w)
  /\ Respond(w)
  /\ UNCHANGED <<objects, row, healthy, excused>>

\* The truncation fails too: Append returns both errors and marks nothing.
UndoFails(w, f) ==
  /\ "truncate" \in Faults
  /\ At(w, "undo", f)
  /\ lock' = Unlock(w)
  /\ Respond(w)
  /\ excused' = excused \cup {f}
  /\ UNCHANGED <<objects, row, bytes, healthy>>

\* Mutant: the row records the appended length instead of the new length.
BugCommitLength(w, f) ==
  /\ At(w, "commit", f)
  /\ row' = [row EXCEPT ![f] = req[w].size - req[w].pre]
  /\ lock' = Unlock(w)
  /\ Respond(w)
  /\ UNCHANGED <<objects, bytes, healthy, excused>>

\* UPDATE object_files, UPDATE objects, COMMIT.
CommitAppend(w, f) ==
  /\ At(w, "commit", f)
  /\ row' = [row EXCEPT ![f] = req[w].size]
  /\ lock' = Unlock(w)
  /\ Respond(w)
  /\ UNCHANGED <<objects, bytes, healthy, excused>>

\* One of the UPDATEs fails, as they do once the client has gone away.
UpdateFails(w, f) ==
  /\ At(w, "commit", f)
  /\ Goto(w, "revert")
  /\ UNCHANGED <<objects, row, lock, bytes, healthy, excused>>

\* TruncateBack under the row lock; a failure marks a mismatch.
Revert(w, f) ==
  /\ At(w, "revert", f)
  /\ \/ TruncateBack(f, req[w].pre) /\ healthy' = (healthy /\ bytes[f] # 0)
     \/ "truncate" \in Faults /\ healthy' = FALSE /\ UNCHANGED bytes
  /\ lock' = Unlock(w)
  /\ Respond(w)
  /\ UNCHANGED <<objects, row, excused>>

\* COMMIT returns an error, and has taken effect or not; the lock is gone.
CommitAppendFails(w, f) ==
  /\ "append_commit" \in Faults
  /\ At(w, "commit", f)
  /\ \E size \in {row[f], req[w].size} : row' = [row EXCEPT ![f] = size]
  /\ lock' = Unlock(w)
  /\ Goto(w, "restore")
  /\ UNCHANGED <<objects, bytes, healthy, excused>>

\* Mutant: a failed commit is not recorded as a mismatch.
BugRestoreSilently(w, f) ==
  /\ At(w, "restore", f)
  /\ TruncateBack(f, req[w].pre)
  /\ Respond(w)
  /\ UNCHANGED <<objects, row, lock, healthy, excused>>

\* TruncateBack without the row lock, then MarkMismatch in any case.
Restore(w, f) ==
  /\ At(w, "restore", f)
  /\ \/ TruncateBack(f, req[w].pre)
     \/ "truncate" \in Faults /\ UNCHANGED bytes
  /\ healthy' = FALSE
  /\ Respond(w)
  /\ UNCHANGED <<objects, row, lock, excused>>

-----------------------------------------------------------------------------
(* Content: OpenObjectFile. *)

\* GetObjectFile.
ReadRow(w) ==
  \E f \in Files :
    /\ MayStart(w, "open", {f})
    /\ row[f] # 0
    /\ Start(w, "open", "stat", {f}, row[f], {})
    /\ UNCHANGED <<objects, row, lock, bytes, healthy>>

\* Open and Stat: missing bytes or another length mark a mismatch.
OpenBytes(w, f) ==
  /\ At(w, "stat", f)
  /\ healthy' = (healthy /\ bytes[f] = req[w].size)
  /\ Respond(w)
  /\ UNCHANGED <<objects, row, lock, bytes, excused>>

-----------------------------------------------------------------------------
(* Delete: DeleteObjectFile, DeleteObject and DeleteObservation. *)

\* The transaction of DeleteObjectFile, which waits for the row lock.
DeleteRow(w) ==
  \E f \in Files :
    /\ MayStart(w, "delete", {f})
    /\ row[f] # 0 /\ lock[f] = Free
    /\ row' = [row EXCEPT ![f] = 0]
    /\ \/ Start(w, "delete", "unlink", {f}, 0, {f})
       \/ /\ "delete_commit" \in Faults /\ UNCHANGED req
          /\ excused' = excused \cup {f}
    /\ UNCHANGED <<objects, lock, bytes, healthy>>

\* DELETE FROM object_files ... RETURNING path, for an object or for all objects
\* of an observation.  The rows stay locked until the transaction ends.
DeleteFileRows(w) ==
  \E os \in SUBSET objects :
    LET paths == {f \in FilesOf(os) : row[f] # 0} IN
      /\ os # {}
      /\ MayStart(w, "delete", FilesOf(os))
      /\ \A f \in paths : lock[f] = Free
      /\ lock' = [f \in Files |-> IF f \in paths THEN w ELSE lock[f]]
      /\ Start(w, "delete", "cascade", FilesOf(os), 0, paths)
      /\ UNCHANGED <<objects, row, bytes, healthy>>

\* DELETE FROM objects and COMMIT.  The foreign key deletes the rows that were
\* inserted in the meantime as well, but their paths are not among the paths.
DeleteObjects(w) ==
  /\ req[w].step = "cascade"
  /\ \A f \in req[w].files : lock[f] \in {Free, w}
  /\ objects' = {o \in objects : FilesOf({o}) \cap req[w].files = {}}
  /\ row' = [f \in Files |-> IF f \in req[w].files THEN 0 ELSE row[f]]
  /\ \/ req[w].paths = {} /\ Respond(w) /\ UNCHANGED excused
     \/ req[w].paths # {} /\ Goto(w, "unlink") /\ UNCHANGED excused
     \/ /\ req[w].paths # {} /\ "delete_commit" \in Faults /\ Respond(w)
        /\ excused' = excused \cup req[w].paths
  /\ lock' = Unlock(w)
  /\ UNCHANGED <<bytes, healthy>>

\* Mutant: the first failure ends the loop.
BugUnlinkStops(w, f) ==
  /\ req[w].step = "unlink"
  /\ f \in req[w].paths
  /\ \/ bytes' = [bytes EXCEPT ![f] = 0]
     \/ "unlink" \in Faults /\ UNCHANGED bytes
  /\ Respond(w)
  /\ UNCHANGED <<objects, row, lock, healthy, excused>>

\* Removal of one path after the commit.  A mismatch is marked after the last.
Unlink(w, f) ==
  /\ req[w].step = "unlink"
  /\ f \in req[w].paths
  /\ \E ok \in {TRUE} \cup (IF "unlink" \in Faults THEN {FALSE} ELSE {}) :
       /\ bytes' = [bytes EXCEPT ![f] = IF ok THEN 0 ELSE @]
       /\ IF req[w].paths = {f}
            THEN /\ Respond(w)
                 /\ healthy' = (healthy /\ ok /\ ~req[w].failed)
            ELSE /\ req' = [req EXCEPT ![w].paths = @ \ {f}, ![w].failed = @ \/ ~ok]
                 /\ UNCHANGED healthy
  /\ UNCHANGED <<objects, row, lock, excused>>

-----------------------------------------------------------------------------
(* The specification. *)

CreateObject(o) ==
  /\ objects' = objects \cup {o}
  /\ UNCHANGED <<row, lock, bytes, healthy, req, excused>>

\* A statement fails before COMMIT, the missing file of an append or the missing
\* object of a delete is found out: the transaction is rolled back, and staged
\* bytes are removed.
Abandon(w) ==
  /\ req[w].step \in {"insert", "write", "stat", "cascade"}
  /\ lock' = Unlock(w)
  /\ Respond(w)
  /\ UNCHANGED <<objects, row, bytes, healthy, excused>>

\* A request is past the step after which only it can finish or report.
Underway(f) ==
  \E w \in Workers :
    /\ req[w].step \in {"promote", "undo", "commit", "revert", "restore", "unlink"}
    /\ f \in req[w].files

\* The process stops at any point and starts again: transactions are rolled
\* back, files stay as they are, New reports the store as healthy.  What is
\* forgotten is what readiness has reported and what a request was about to mend.
Restart ==
  /\ "crash" \in Faults
  /\ req' = [w \in Workers |-> Idle]
  /\ lock' = [f \in Files |-> Free]
  /\ healthy' = TRUE
  /\ excused' = excused \cup {f \in Files : row[f] # bytes[f] /\ (~healthy \/ Underway(f))}
  /\ UNCHANGED <<objects, row, bytes>>

Init ==
  /\ objects = {}
  /\ row = [f \in Files |-> 0]
  /\ lock = [f \in Files |-> Free]
  /\ bytes = [f \in Files |-> 0]
  /\ healthy = TRUE
  /\ req = [w \in Workers |-> Idle]
  /\ excused = {}

HandleFile(w, f) ==
  \/ InsertRow(w, f) \/ InsertRowFails(w, f) \/ Promote(w, f) \/ PromoteFails(w, f)
  \/ Append(w, f) \/ AppendStops(w, f) \/ Undo(w, f) \/ UndoFails(w, f)
  \/ CommitAppend(w, f) \/ UpdateFails(w, f) \/ Revert(w, f)
  \/ CommitAppendFails(w, f) \/ Restore(w, f)
  \/ OpenBytes(w, f) \/ Unlink(w, f)

Handle(w) ==
  \/ Stage(w) \/ LockRow(w) \/ ReadRow(w) \/ DeleteRow(w)
  \/ DeleteFileRows(w) \/ DeleteObjects(w) \/ Abandon(w)
  \/ \E f \in Files : HandleFile(w, f)

Next ==
  \/ Restart
  \/ \E o \in Objects : CreateObject(o)
  \/ \E w \in Workers : Handle(w)

Spec == Init /\ [][Next]_vars

-----------------------------------------------------------------------------
(* Properties. *)

TypeOK ==
  /\ objects \subseteq Objects
  /\ row \in [Files -> 0..MaxSize]
  /\ lock \in [Files -> Workers \cup {Free}]
  /\ bytes \in [Files -> 0..MaxSize]
  /\ healthy \in BOOLEAN
  /\ req \in [Workers -> Request]
  /\ excused \subseteq Files

\* The worker's transaction holds the lock of the row of the file.
Holds(w, f) ==
  \/ req[w].step \in {"write", "undo", "commit", "revert"} /\ req[w].files = {f}
  \/ req[w].step = "cascade" /\ f \in req[w].paths

\* A row lock is held by the request that works under it and by no other, and is
\* released on every path out of that request.
LockDiscipline ==
  \A f \in Files, w \in Workers : lock[f] = w <=> Holds(w, f)

Settled(f) == \A w \in Workers : f \notin req[w].files

\* No row refers to missing or wrong bytes, except while a request that is going
\* to put it right is in flight.
RowsHaveBytes == \A f \in Files : Settled(f) => Matching(f)

\* No bytes stay behind at the path of a file that has no row.
NoOrphans == \A f \in Files : Settled(f) /\ row[f] = 0 => bytes[f] = 0

\* Bytes that are not what the row says, or that have no row, show in the readiness
\* of the store, and nothing hides them but a restart while a request works on the
\* file or after readiness was degraded, a failed truncation after a partial append,
\* an upload or a delete whose COMMIT returns an error, or a delete that overlaps
\* another request on the file.
MismatchReported ==
  \A f \in Files : Settled(f) /\ bytes[f] # row[f] => ~healthy \/ f \in excused

\* The worker is between the two steps that change the row and the bytes.
Repairing(w, f) ==
  \/ req[w].step \in {"promote", "undo", "commit", "revert"} /\ req[w].files = {f}
  \/ req[w].step = "unlink" /\ f \in req[w].paths

\* OpenObjectFile compares a size of the row it has read with the length that the
\* file has later.  As long as nothing fails, readiness is degraded by such a read
\* only, and only if another request works on the file meanwhile: the row has got
\* another size since the read, or the bytes are about to be brought in step with
\* it.  Such an alarm is false, and nothing takes it back but a restart.
AlarmsAreRaces ==
  [][healthy /\ ~healthy' =>
       \E w \in Workers, f \in Files :
         /\ At(w, "stat", f) /\ req'[w] = Idle
         /\ row[f] # req[w].size \/ \E v \in Workers : Repairing(v, f)]_healthy

\* Appends to a file are ordered: none undoes the committed size of another.
SizesGrow ==
  [][\A f \in Files : row[f] # 0 /\ row'[f] # 0 => row'[f] >= row[f]]_row

-----------------------------------------------------------------------------
(* The inductive invariant behind RowsHaveBytes and NoOrphans, for clients that *)
(* send deletes alone and without faults. *)

\* What each step knows of its own request r.
Shape(r) ==
  /\ r.step \in {"cascade", "unlink"} => r.op = "delete" /\ r.paths \subseteq r.files
  /\ r.step \in {"insert", "promote"} => r.size # 0
  /\ r.step = "restore" => "append_commit" \in Faults

RequestShape == \A w \in Workers : Shape(req[w])

DeletesAlone ==
  \A w, v \in Workers :
    w # v /\ req[w].op = "delete" => req[w].files \cap req[v].files = {}

\* What each step knows of the row and the bytes of its file.
Knows(w, f) ==
  /\ At(w, "promote", f) => row[f] = req[w].size /\ row[f] # 0 /\ bytes[f] = 0
  /\ At(w, "undo", f) \/ At(w, "commit", f) \/ At(w, "revert", f) =>
       row[f] = req[w].pre /\ row[f] # 0 /\ bytes[f] # 0
  /\ At(w, "commit", f) => bytes[f] = req[w].size /\ req[w].size >= req[w].pre
  /\ req[w].step = "cascade" /\ f \in req[w].files => (f \in req[w].paths <=> row[f] # 0)
  /\ req[w].step = "unlink" /\ f \in req[w].paths => row[f] = 0

StepKnows == \A w \in Workers, f \in Files : Knows(w, f)

OneRepairs ==
  \A f \in Files, w, v \in Workers : Repairing(w, f) /\ Repairing(v, f) => w = v

InStep == \A f \in Files : row[f] = bytes[f] \/ \E w \in Workers : Repairing(w, f)

IInv ==
  /\ TypeOK
  /\ LockDiscipline
  /\ RequestShape
  /\ DeletesAlone
  /\ StepKnows
  /\ OneRepairs
  /\ InStep
-----------------------------------------------------------------------------
(* The inductive invariant behind MismatchReported, for every kind of client and *)
(* every fault, one file at a time.                                             *)

\* A failure to report is pending: a path of the delete could not be removed.
Failing(w, f) ==
  req[w].step = "unlink" /\ f \in req[w].files /\ req[w].failed

\* A file the code still answers for: the store is healthy, nothing has excused
\* the file, and no append to it is about to report that its COMMIT failed.
Watched(f) ==
  healthy /\ f \notin excused /\ \A w \in Workers : ~At(w, "restore", f)

\* A delete that overlaps another request excuses the file for good.
NoMeeting(f) ==
  \A w, v \in Workers :
    w # v /\ req[w].op = "delete" => f \notin req[w].files \cap req[v].files

OneMends(f) ==
  \A w, v \in Workers : Repairing(w, f) /\ Repairing(v, f) => w = v

\* The row and the bytes agree, or a request in flight makes them agree or marks
\* the mismatch.
Answered(f) ==
  row[f] = bytes[f] \/ \E w \in Workers : Repairing(w, f) \/ Failing(w, f)

Accounted(f) ==
  NoMeeting(f) /\ (\A w \in Workers : Knows(w, f)) /\ OneMends(f) /\ Answered(f)

ReportInv ==
  /\ TypeOK
  /\ LockDiscipline
  /\ RequestShape
  /\ \A f \in Files : Watched(f) => Accounted(f)

-----------------------------------------------------------------------------
(* The inductive invariant behind AlarmsAreRaces. *)

AlarmInv ==
  /\ IInv
  /\ \A w \in Workers : ~req[w].failed
=============================================================================
