--------------------------- MODULE CatalogStartup ---------------------------
(***************************************************************************)
(* How a start of the process puts the checked-in command catalog into     *)
(* the object store (app.Start, internal/catalog/catalog.go Materialize)   *)
(* and how tasks find the catalog they are pinned to again later           *)
(* (internal/service/service.go loadPinnedCatalog).                        *)
(*                                                                         *)
(* A catalog document is identified with the object id that its content    *)
(* hash gives.  Materialize is a sequence of statements and file           *)
(* operations that run before the first request is served; each may fail,  *)
(* and the process may stop before any of them.  A start that gives up     *)
(* goes on to serve requests without a catalog.  Requests then reach the   *)
(* object and its file catalog-json as they reach any other: what          *)
(* overlapping requests on one file may do is taken from ObjectFiles, as   *)
(* the outcomes of one step here.                                          *)
(***************************************************************************)
EXTENDS Naturals

CONSTANTS
  Catalogs,   \* valid catalog documents
  Large,      \* those of more than maxPinnedCatalogBytes
  Tasks,
  None        \* no catalog, no object, no row, no bytes

ASSUME LargeAssumption == Large \subseteq Catalogs

ASSUME NoneAssumption ==
  /\ None \notin Catalogs
  /\ None \notin {"system", "observation"}
  /\ None \notin {"raw", "other", "odd"}
  /\ None \notin {"equal", "odd"}

\* The authored bytes of a catalog, other bytes of their length, or bytes of
\* another length.
Contents == {"raw", "other", "odd"}

\* The size of a file, compared with the length of the authored bytes.
SizeOf(content) == IF content = "odd" THEN "odd" ELSE "equal"

VARIABLES
  object,     \* catalog -> owner of the object that has its id
  row,        \* catalog -> size in its row of object_files
  bytes,      \* catalog -> what is at its path
  pinned,     \* task -> command_catalog_object_id
  boot,       \* next step of the start
  chosen,     \* the document that Load has read
  active,     \* catalog.Active
  failed,     \* history: a statement or file operation of this start has failed
  harmed,     \* history: catalogs whose file was written by others or torn
  removed,    \* history: catalogs whose file was deleted through the API
  cascaded    \* history: catalogs whose object went with its observation

stored == <<object, row, bytes>>
startVars == <<boot, chosen, active, failed>>
history == <<harmed, removed, cascaded>>
vars == <<stored, pinned, startVars, history>>

Steps == {"find", "create", "list", "verify", "upload", "promote"}

-----------------------------------------------------------------------------
(* The start. *)

\* Load reads and validates the document that is checked in now.
Start(c) ==
  /\ boot = "down"
  /\ boot' = "find"
  /\ chosen' = c
  /\ failed' = FALSE
  /\ UNCHANGED <<stored, pinned, active, history>>

\* Load fails: there is no document or it is not valid.
StartWithoutCatalog ==
  /\ boot = "down"
  /\ boot' = "up"
  /\ chosen' = None
  /\ failed' = FALSE
  /\ UNCHANGED <<stored, pinned, active, history>>

\* Mutant: the start waits for the object to appear.
BugWaitForObject ==
  /\ boot = "find"
  /\ boot' = IF object[chosen] = None THEN "find" ELSE "list"
  /\ UNCHANGED <<stored, pinned, chosen, active, failed, history>>

\* GetObject.  An object with the id is used, whoever has made it.
FindObject ==
  /\ boot = "find"
  /\ boot' = IF object[chosen] = None THEN "create" ELSE "list"
  /\ UNCHANGED <<stored, pinned, chosen, active, failed, history>>

CreateCatalogObject ==
  /\ boot = "create"
  /\ object' = [object EXCEPT ![chosen] = "system"]
  /\ boot' = "list"
  /\ cascaded' = cascaded \ {chosen}
  /\ UNCHANGED <<row, bytes, pinned, chosen, active, failed, harmed, removed>>

\* Mutant: an existing object is taken to have its file.
BugListRequiresFile ==
  /\ boot = "list"
  /\ boot' = "verify"
  /\ UNCHANGED <<stored, pinned, chosen, active, failed, history>>

\* Mutant: nobody looks for the file.
BugAlwaysUpload ==
  /\ boot = "list"
  /\ boot' = "upload"
  /\ UNCHANGED <<stored, pinned, chosen, active, failed, history>>

\* ListObjectFilesForObject, and whether catalog-json is among them.
ListFiles ==
  /\ boot = "list"
  /\ boot' = IF row[chosen] = None THEN "upload" ELSE "verify"
  /\ UNCHANGED <<stored, pinned, chosen, active, failed, history>>

\* Mutant: the metadata is compared, the bytes are not.
BugMatchesSize(c) == row[c] = "equal" /\ bytes[c] # None

\* OpenObjectFile finds bytes of the length in the row, and they are the
\* authored ones.
Matches(c) == row[c] = "equal" /\ bytes[c] = "raw"

\* verifyMaterializedCatalogFile and Active.Set, or the start goes on without.
Verify ==
  /\ boot = "verify"
  /\ boot' = "up"
  /\ active' = IF Matches(chosen) THEN chosen ELSE None
  /\ UNCHANGED <<stored, pinned, chosen, failed, history>>

\* CreateObjectFile as far as its commit.  Nobody else serves requests during a
\* start, so it never meets a row; Materialize would take that conflict for success.
CommitUpload ==
  /\ boot = "upload"
  /\ row' = [row EXCEPT ![chosen] = "equal"]
  /\ boot' = "promote"
  /\ UNCHANGED <<object, bytes, pinned, chosen, active, failed, history>>

\* The staged bytes are renamed to the path of the file, and Active.Set.
Promote ==
  /\ boot = "promote"
  /\ bytes' = [bytes EXCEPT ![chosen] = "raw"]
  /\ boot' = "up"
  /\ active' = chosen
  /\ harmed' = harmed \ {chosen}
  /\ removed' = removed \ {chosen}
  /\ UNCHANGED <<object, row, pinned, chosen, failed, cascaded>>

\* A step fails, without an effect or, for a commit, with one that is not
\* noticed.  A row that is left without its bytes stays.
StepFails ==
  /\ boot \in Steps
  /\ boot' = "up"
  /\ failed' = TRUE
  /\ \/ UNCHANGED <<object, row, cascaded>>
     \/ boot = "create" /\ object' = [object EXCEPT ![chosen] = "system"]
        /\ cascaded' = cascaded \ {chosen} /\ UNCHANGED row
     \/ boot = "upload" /\ row' = [row EXCEPT ![chosen] = "equal"] /\ UNCHANGED <<object, cascaded>>
  /\ harmed' = IF boot = "promote" \/ row' # row THEN harmed \cup {chosen} ELSE harmed
  /\ UNCHANGED <<bytes, pinned, chosen, active, removed>>

\* The process stops, in the middle of a start or later.
Stop ==
  /\ boot # "down"
  /\ boot' = "down"
  /\ chosen' = None
  /\ active' = None
  /\ failed' = FALSE
  /\ harmed' = IF boot = "promote" THEN harmed \cup {chosen} ELSE harmed
  /\ UNCHANGED <<stored, pinned, removed, cascaded>>

-----------------------------------------------------------------------------
(* Requests, when the start is over. *)

\* POST /objects with the id of a catalog.
CreateObject(c) ==
  /\ boot = "up"
  /\ object[c] = None
  /\ \E owner \in {"system", "observation"} : object' = [object EXCEPT ![c] = owner]
  /\ cascaded' = cascaded \ {c}
  /\ UNCHANGED <<row, bytes, pinned, startVars, harmed, removed>>

\* A request leaves this in the row and at the path of the file of c.
FileWritten(c, size, content) ==
  /\ row' = [row EXCEPT ![c] = size]
  /\ bytes' = [bytes EXCEPT ![c] = content]
  /\ harmed' = IF size = "equal" /\ content = "raw" THEN harmed \ {c} ELSE harmed \cup {c}
  /\ removed' = removed \ {c}
  /\ UNCHANGED <<object, pinned, startVars, cascaded>>

UploadFile(c) ==
  /\ boot = "up"
  /\ object[c] # None /\ row[c] = None
  /\ \E content \in Contents : FileWritten(c, SizeOf(content), content)

\* Its rename fails or is never reached, or the unlink of an earlier delete
\* comes after it.
UploadTorn(c) ==
  /\ boot = "up"
  /\ object[c] # None /\ row[c] = None
  /\ \E content \in Contents, left \in {bytes[c], None} : FileWritten(c, SizeOf(content), left)

\* What a file may hold after bytes were added: a prefix of the authored bytes
\* may have become all of them.
Extended(content) == IF content = "odd" THEN Contents ELSE {"odd"}

AppendObjectFile(c) ==
  /\ boot = "up"
  /\ row[c] # None /\ bytes[c] # None
  /\ \E content \in Extended(bytes[c]) : FileWritten(c, SizeOf(content), content)

\* Its COMMIT fails: the bytes are written and neither committed nor taken back, or
\* they are taken back and the COMMIT has taken effect.
AppendTorn(c) ==
  /\ boot = "up"
  /\ row[c] # None /\ bytes[c] # None
  /\ \E content \in Extended(bytes[c]) :
       \/ FileWritten(c, row[c], content)
       \/ FileWritten(c, SizeOf(content), bytes[c])

\* The row of the file goes, and its bytes unless the unlink fails or is not
\* reached.
FileDeleted(c) ==
  /\ row' = [row EXCEPT ![c] = None]
  /\ \E left \in {bytes[c], None} : bytes' = [bytes EXCEPT ![c] = left]
  /\ harmed' = harmed \ {c}

DeleteObjectFile(c) ==
  /\ boot = "up"
  /\ row[c] # None
  /\ FileDeleted(c)
  /\ removed' = removed \cup {c}
  /\ UNCHANGED <<object, pinned, startVars, cascaded>>

Pinned(c) == \E t \in Tasks : pinned[t] = c

\* Mutant: the key from tasks to objects is missing.
BugDeletePinned(c) ==
  /\ boot = "up"
  /\ object[c] # None
  /\ active # c
  /\ object' = [object EXCEPT ![c] = None]
  /\ FileDeleted(c)
  /\ UNCHANGED <<pinned, startVars, removed, cascaded>>

\* Mutant: DeleteObject without RunWhileObjectInactive.
BugDeleteActive(c) ==
  /\ boot = "up"
  /\ object[c] # None
  /\ ~Pinned(c)
  /\ object' = [object EXCEPT ![c] = None]
  /\ FileDeleted(c)
  /\ UNCHANGED <<pinned, startVars, removed, cascaded>>

\* RunWhileObjectInactive, and the key from tasks to objects.
DeleteObject(c) ==
  /\ boot = "up"
  /\ object[c] # None
  /\ active # c
  /\ ~Pinned(c)
  /\ object' = [object EXCEPT ![c] = None]
  /\ FileDeleted(c)
  /\ UNCHANGED <<pinned, startVars, removed, cascaded>>

\* The cascade of an observation that owns the object does not ask whether the
\* object is the active catalog.
DeleteObservation(c) ==
  /\ boot = "up"
  /\ object[c] = "observation"
  /\ ~Pinned(c)
  /\ object' = [object EXCEPT ![c] = None]
  /\ FileDeleted(c)
  /\ cascaded' = cascaded \cup {c}
  /\ removed' = removed \cup {c}
  /\ UNCHANGED <<pinned, startVars>>

\* CreateTask pins the active catalog; the key from tasks to objects.
CreateTask(t) ==
  /\ boot = "up"
  /\ active # None
  /\ pinned[t] = None
  /\ object[active] # None
  /\ pinned' = [pinned EXCEPT ![t] = active]
  /\ UNCHANGED <<stored, startVars, history>>

DeleteTask(t) ==
  /\ boot = "up"
  /\ pinned[t] # None
  /\ pinned' = [pinned EXCEPT ![t] = None]
  /\ UNCHANGED <<stored, startVars, history>>

\* loadPinnedCatalog: from memory, or from a file whose length and hash are right
\* and that is not above the limit of this read.  Load has no limit, and an upload
\* has a higher one, so that a large document can be stored and become active.
Loadable(c) == active = c \/ (c \notin Large /\ Matches(c))

-----------------------------------------------------------------------------
(* The specification. *)

Init ==
  /\ object = [c \in Catalogs |-> None]
  /\ row = [c \in Catalogs |-> None]
  /\ bytes = [c \in Catalogs |-> None]
  /\ pinned = [t \in Tasks |-> None]
  /\ boot = "down" /\ chosen = None /\ active = None /\ failed = FALSE
  /\ harmed = {} /\ removed = {} /\ cascaded = {}

Materialize ==
  \/ FindObject \/ CreateCatalogObject \/ ListFiles
  \/ Verify \/ CommitUpload \/ Promote

Handle ==
  \/ \E c \in Catalogs :
       \/ CreateObject(c) \/ UploadFile(c) \/ UploadTorn(c)
       \/ AppendObjectFile(c) \/ AppendTorn(c) \/ DeleteObjectFile(c)
       \/ DeleteObject(c) \/ DeleteObservation(c)
  \/ \E t \in Tasks : CreateTask(t) \/ DeleteTask(t)

Next ==
  \/ \E c \in Catalogs : Start(c)
  \/ StartWithoutCatalog
  \/ Materialize \/ StepFails
  \/ Stop
  \/ Handle

\* A start that is under way goes on; nothing is assumed of clients, of faults or
\* of whoever starts the process.
Spec == Init /\ [][Next]_vars /\ WF_vars(Materialize)

-----------------------------------------------------------------------------
(* Properties. *)

TypeOK ==
  /\ object \in [Catalogs -> {"system", "observation", None}]
  /\ row \in [Catalogs -> {"equal", "odd", None}]
  /\ bytes \in [Catalogs -> Contents \cup {None}]
  /\ pinned \in [Tasks -> Catalogs \cup {None}]
  /\ boot \in Steps \cup {"down", "up"}
  /\ chosen \in Catalogs \cup {None}
  /\ active \in Catalogs \cup {None}
  /\ failed \in BOOLEAN
  /\ harmed \subseteq Catalogs
  /\ removed \subseteq Catalogs
  /\ cascaded \subseteq Catalogs

\* What a start materializes stays resolvable for the tasks pinned to it, through
\* stops at any point, starts with other documents and deletes of objects.  What can
\* keep a task from its catalog is a client that writes or deletes the catalog's file,
\* a torn write of it, or the size of the document: one above the read limit is
\* refused as soon as it is not the active one.
PinnedCatalogsResolve ==
  \A t \in Tasks : pinned[t] # None =>
    Loadable(pinned[t]) \/ pinned[t] \in harmed \cup removed \cup Large

\* Tasks can be created under the active catalog: its object exists, unless a
\* client had made it for an observation and the observation was deleted.
ActiveCatalogKept ==
  active # None => object[active] # None \/ active \in cascaded

\* A start gives up on its catalog only for a failure of its own or because the
\* file of that catalog was written by a client or torn earlier: what an earlier
\* start has stored, an earlier stop has left out or a client has deleted never
\* stands in its way.
GivesUpOnlyIfHarmed ==
  [][boot # "up" /\ boot' = "up" /\ active' = None =>
       chosen' = None \/ failed' \/ chosen \in harmed]_vars

\* A catalog that a start makes active is in the object store byte for byte at that
\* moment, so that clients download what tasks are validated against, whatever
\* earlier starts, clients and torn writes have left there.
ServesWhatIsStored ==
  [][active' # None /\ active' # active =>
       row'[active'] = "equal" /\ bytes'[active'] = "raw"]_vars

\* A start of an unharmed catalog ends with it active, unless it is stopped or a
\* step fails.
StartsServe ==
  \A c \in Catalogs :
    (boot = "find" /\ chosen = c /\ c \notin harmed)
      ~> (active = c \/ boot = "down" \/ failed)

-----------------------------------------------------------------------------
(* The inductive invariant. *)

\* The row is committed and the rename is still to come.
Awaited(c) == boot = "promote" /\ chosen = c

\* A row that nobody has touched says what is at its path.
UnharmedMatch ==
  \A c \in Catalogs : row[c] # None /\ c \notin harmed /\ ~Awaited(c) => Matches(c)

\* Rows of files and pins need an object.
KeysHold ==
  /\ \A c \in Catalogs : row[c] # None => object[c] # None
  /\ \A t \in Tasks : pinned[t] # None => object[pinned[t]] # None

\* What the steps of a start have found out is still so.
StartKnows ==
  /\ boot \in Steps => chosen \in Catalogs
  /\ boot \in {"list", "verify", "upload", "promote"} => object[chosen] # None
  /\ boot = "verify" => row[chosen] # None
  /\ boot = "upload" => row[chosen] = None
  /\ boot = "promote" => row[chosen] = "equal"
  /\ boot # "up" => active = None

\* A catalog in use has its file, unless a client has deleted it.
InUse(c) == active = c \/ Pinned(c)

InUseStored ==
  \A c \in Catalogs : InUse(c) =>
    (row[c] # None /\ ~Awaited(c)) \/ c \in harmed \cup removed

IInv ==
  /\ TypeOK
  /\ UnharmedMatch
  /\ KeysHold
  /\ StartKnows
  /\ InUseStored
  /\ ActiveCatalogKept
=============================================================================
