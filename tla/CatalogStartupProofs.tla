------------------------ MODULE CatalogStartupProofs ------------------------
(***************************************************************************)
(* Proofs about CatalogStartup: for any number of catalogs and tasks, what *)
(* a start materializes stays resolvable, a start gives up only on files   *)
(* that were harmed, and what it makes active is stored byte for byte.     *)
(***************************************************************************)
EXTENDS CatalogStartup, TLAPS

-----------------------------------------------------------------------------
(* Every action keeps the invariant. *)

LEMMA StartKeeps ==
  ASSUME IInv, NEW c \in Catalogs, Start(c)
  PROVE  IInv'
<1>1. TypeOK'
  BY DEF IInv, Start, TypeOK, Steps, history, stored
<1>2. UnharmedMatch'
  BY DEF IInv, Start, UnharmedMatch, Awaited, Matches, history, stored
<1>3. KeysHold'
  BY DEF IInv, Start, KeysHold, stored
<1>4. StartKnows'
  BY DEF IInv, Start, StartKnows
<1>5. InUseStored'
  BY DEF IInv, Start, InUseStored, Awaited, InUse, Pinned, history, stored
<1>6. ActiveCatalogKept'
  BY DEF IInv, Start, ActiveCatalogKept, history, stored
<1> QED BY <1>1, <1>2, <1>3, <1>4, <1>5, <1>6 DEF IInv

LEMMA StartWithoutCatalogKeeps ==
  ASSUME IInv, StartWithoutCatalog
  PROVE  IInv'
<1>1. TypeOK'
  BY DEF IInv, StartWithoutCatalog, TypeOK, history, stored
<1>2. UnharmedMatch'
  BY DEF IInv, StartWithoutCatalog, UnharmedMatch, Awaited, Matches, history, stored
<1>3. KeysHold'
  BY DEF IInv, StartWithoutCatalog, KeysHold, stored
<1>4. StartKnows'
  BY DEF IInv, StartWithoutCatalog, StartKnows, Steps
<1>5. InUseStored'
  BY DEF IInv, StartWithoutCatalog, InUseStored, Awaited, InUse, Pinned, history, stored
<1>6. ActiveCatalogKept'
  BY DEF IInv, StartWithoutCatalog, ActiveCatalogKept, history, stored
<1> QED BY <1>1, <1>2, <1>3, <1>4, <1>5, <1>6 DEF IInv

LEMMA FindObjectKeeps ==
  ASSUME IInv, FindObject
  PROVE  IInv'
<1>1. TypeOK'
  BY DEF IInv, FindObject, TypeOK, Steps, history, stored
<1>2. UnharmedMatch'
  BY DEF IInv, FindObject, UnharmedMatch, Awaited, Matches, history, stored
<1>3. KeysHold'
  BY DEF IInv, FindObject, KeysHold, stored
<1>4. StartKnows'
  BY DEF IInv, FindObject, StartKnows, TypeOK, stored
<1>5. InUseStored'
  BY DEF IInv, FindObject, InUseStored, Awaited, InUse, Pinned, history, stored
<1>6. ActiveCatalogKept'
  BY DEF IInv, FindObject, ActiveCatalogKept, history, stored
<1> QED BY <1>1, <1>2, <1>3, <1>4, <1>5, <1>6 DEF IInv

LEMMA CreateCatalogObjectKeeps ==
  ASSUME IInv, CreateCatalogObject
  PROVE  IInv'
<1>1. TypeOK'
  BY DEF IInv, CreateCatalogObject, TypeOK, Steps
<1>2. UnharmedMatch'
  BY DEF IInv, CreateCatalogObject, UnharmedMatch, Awaited, Matches
<1>3. KeysHold'
  BY NoneAssumption DEF IInv, CreateCatalogObject, KeysHold
<1>4. StartKnows'
  BY NoneAssumption DEF IInv, CreateCatalogObject, StartKnows, TypeOK
<1>5. InUseStored'
  BY DEF IInv, CreateCatalogObject, InUseStored, Awaited, InUse, Pinned
<1>6. ActiveCatalogKept'
  BY DEF IInv, CreateCatalogObject, ActiveCatalogKept, StartKnows
<1> QED BY <1>1, <1>2, <1>3, <1>4, <1>5, <1>6 DEF IInv

LEMMA ListFilesKeeps ==
  ASSUME IInv, ListFiles
  PROVE  IInv'
<1>1. TypeOK'
  BY DEF IInv, ListFiles, TypeOK, Steps, history, stored
<1>2. UnharmedMatch'
  BY DEF IInv, ListFiles, UnharmedMatch, Awaited, Matches, history, stored
<1>3. KeysHold'
  BY DEF IInv, ListFiles, KeysHold, stored
<1>4. StartKnows'
  BY DEF IInv, ListFiles, StartKnows, TypeOK, stored
<1>5. InUseStored'
  BY DEF IInv, ListFiles, InUseStored, Awaited, InUse, Pinned, history, stored
<1>6. ActiveCatalogKept'
  BY DEF IInv, ListFiles, ActiveCatalogKept, history, stored
<1> QED BY <1>1, <1>2, <1>3, <1>4, <1>5, <1>6 DEF IInv

LEMMA VerifyKeeps ==
  ASSUME IInv, Verify
  PROVE  IInv'
<1>1. TypeOK'
  BY DEF IInv, Verify, TypeOK, history, stored
<1>2. UnharmedMatch'
  BY DEF IInv, Verify, UnharmedMatch, Awaited, Matches, history, stored
<1>3. KeysHold'
  BY DEF IInv, Verify, KeysHold, stored
<1>4. StartKnows'
  BY DEF IInv, Verify, StartKnows, TypeOK
<1>5. InUseStored'
  BY DEF IInv, Verify, InUseStored, Awaited, InUse, Pinned, StartKnows, history, stored
<1>6. ActiveCatalogKept'
  BY DEF IInv, Verify, ActiveCatalogKept, StartKnows, stored
<1> QED BY <1>1, <1>2, <1>3, <1>4, <1>5, <1>6 DEF IInv

LEMMA CommitUploadKeeps ==
  ASSUME IInv, CommitUpload
  PROVE  IInv'
<1>1. TypeOK'
  BY DEF IInv, CommitUpload, TypeOK, Steps, history
<1>2. UnharmedMatch'
  BY DEF IInv, CommitUpload, UnharmedMatch, Awaited, Matches, history
<1>3. KeysHold'
  BY DEF IInv, CommitUpload, KeysHold, StartKnows
<1>4. StartKnows'
  BY DEF IInv, CommitUpload, StartKnows, TypeOK
<1>5. InUseStored'
  BY DEF IInv, CommitUpload, InUseStored, Awaited, InUse, Pinned, StartKnows, history
<1>6. ActiveCatalogKept'
  BY DEF IInv, CommitUpload, ActiveCatalogKept, history
<1> QED BY <1>1, <1>2, <1>3, <1>4, <1>5, <1>6 DEF IInv

LEMMA PromoteKeeps ==
  ASSUME IInv, Promote
  PROVE  IInv'
<1>1. TypeOK'
  BY DEF IInv, Promote, TypeOK, Contents
<1>2. UnharmedMatch'
  BY DEF IInv, Promote, UnharmedMatch, Awaited, Matches, StartKnows, TypeOK
<1>3. KeysHold'
  BY DEF IInv, Promote, KeysHold
<1>4. StartKnows'
  BY DEF IInv, Promote, StartKnows, TypeOK
<1>5. InUseStored'
  BY NoneAssumption DEF IInv, Promote, InUseStored, Awaited, InUse, Pinned, StartKnows
<1>6. ActiveCatalogKept'
  BY DEF IInv, Promote, ActiveCatalogKept, StartKnows
<1> QED BY <1>1, <1>2, <1>3, <1>4, <1>5, <1>6 DEF IInv

LEMMA StepFailsKeeps ==
  ASSUME IInv, StepFails
  PROVE  IInv'
<1>1. TypeOK'
  BY DEF IInv, StepFails, TypeOK, StartKnows
<1>2. UnharmedMatch'
  BY DEF IInv, StepFails, UnharmedMatch, Awaited, Matches, TypeOK
<1>3. KeysHold'
  BY NoneAssumption DEF IInv, StepFails, KeysHold, StartKnows, TypeOK
<1>4. StartKnows'
  BY DEF IInv, StepFails, StartKnows
<1>5. InUseStored'
  BY DEF IInv, StepFails, InUseStored, Awaited, InUse, Pinned, TypeOK
<1>6. ActiveCatalogKept'
  BY DEF IInv, StepFails, ActiveCatalogKept, StartKnows
<1> QED BY <1>1, <1>2, <1>3, <1>4, <1>5, <1>6 DEF IInv

LEMMA StopKeeps ==
  ASSUME IInv, Stop
  PROVE  IInv'
<1>1. TypeOK'
  BY DEF IInv, Stop, TypeOK, StartKnows, stored
<1>2. UnharmedMatch'
  BY DEF IInv, Stop, UnharmedMatch, Awaited, Matches, stored
<1>3. KeysHold'
  BY DEF IInv, Stop, KeysHold, stored
<1>4. StartKnows'
  BY DEF IInv, Stop, StartKnows, Steps
<1>5. InUseStored'
  BY NoneAssumption DEF IInv, Stop, InUseStored, Awaited, InUse, Pinned, stored
<1>6. ActiveCatalogKept'
  BY DEF IInv, Stop, ActiveCatalogKept
<1> QED BY <1>1, <1>2, <1>3, <1>4, <1>5, <1>6 DEF IInv

LEMMA CreateObjectKeeps ==
  ASSUME IInv, NEW c \in Catalogs, CreateObject(c)
  PROVE  IInv'
<1>1. TypeOK'
  BY DEF IInv, CreateObject, TypeOK, startVars
<1>2. UnharmedMatch'
  BY DEF IInv, CreateObject, UnharmedMatch, Awaited, Matches
<1>3. KeysHold'
  BY DEF IInv, CreateObject, KeysHold
<1>4. StartKnows'
  BY DEF IInv, CreateObject, StartKnows, startVars
<1>5. InUseStored'
  BY DEF IInv, CreateObject, InUseStored, Awaited, InUse, Pinned, startVars
<1>6. ActiveCatalogKept'
  BY NoneAssumption DEF IInv, CreateObject, ActiveCatalogKept, TypeOK, startVars
<1> QED BY <1>1, <1>2, <1>3, <1>4, <1>5, <1>6 DEF IInv

LEMMA UploadFileKeeps ==
  ASSUME IInv, NEW c \in Catalogs, UploadFile(c)
  PROVE  IInv'
<1>1. TypeOK'
  BY DEF IInv, UploadFile, TypeOK, FileWritten, SizeOf, startVars
<1>2. UnharmedMatch'
  BY DEF IInv, UploadFile, UnharmedMatch, Awaited, FileWritten, Matches, TypeOK
<1>3. KeysHold'
  BY DEF IInv, UploadFile, KeysHold, FileWritten
<1>4. StartKnows'
  BY DEF IInv, UploadFile, StartKnows, FileWritten, startVars
<1>5. InUseStored'
  BY NoneAssumption DEF IInv, UploadFile, InUseStored, Awaited, FileWritten, InUse, Pinned,
     TypeOK, startVars
<1>6. ActiveCatalogKept'
  BY DEF IInv, UploadFile, ActiveCatalogKept, FileWritten, startVars
<1> QED BY <1>1, <1>2, <1>3, <1>4, <1>5, <1>6 DEF IInv

LEMMA UploadTornKeeps ==
  ASSUME IInv, NEW c \in Catalogs, UploadTorn(c)
  PROVE  IInv'
<1>1. TypeOK'
  BY DEF IInv, UploadTorn, TypeOK, FileWritten, SizeOf, startVars
<1>2. UnharmedMatch'
  BY DEF IInv, UploadTorn, UnharmedMatch, Awaited, FileWritten, Matches, TypeOK
<1>3. KeysHold'
  BY DEF IInv, UploadTorn, KeysHold, FileWritten
<1>4. StartKnows'
  BY DEF IInv, UploadTorn, StartKnows, FileWritten, startVars
<1>5. InUseStored'
  BY NoneAssumption DEF IInv, UploadTorn, InUseStored, Awaited, FileWritten, InUse, Pinned,
     TypeOK, startVars
<1>6. ActiveCatalogKept'
  BY DEF IInv, UploadTorn, ActiveCatalogKept, FileWritten, startVars
<1> QED BY <1>1, <1>2, <1>3, <1>4, <1>5, <1>6 DEF IInv

LEMMA AppendObjectFileKeeps ==
  ASSUME IInv, NEW c \in Catalogs, AppendObjectFile(c)
  PROVE  IInv'
<1>1. TypeOK'
  BY DEF IInv, AppendObjectFile, TypeOK, Contents, Extended, FileWritten, SizeOf, startVars
<1>2. UnharmedMatch'
  BY DEF IInv, AppendObjectFile, UnharmedMatch, Awaited, FileWritten, Matches, TypeOK
<1>3. KeysHold'
  BY DEF IInv, AppendObjectFile, KeysHold, FileWritten
<1>4. StartKnows'
  BY DEF IInv, AppendObjectFile, StartKnows, FileWritten, startVars
<1>5. InUseStored'
  BY NoneAssumption DEF IInv, AppendObjectFile, InUseStored, Awaited, FileWritten, InUse,
     Pinned, startVars
<1>6. ActiveCatalogKept'
  BY DEF IInv, AppendObjectFile, ActiveCatalogKept, FileWritten, startVars
<1> QED BY <1>1, <1>2, <1>3, <1>4, <1>5, <1>6 DEF IInv

LEMMA AppendTornKeeps ==
  ASSUME IInv, NEW c \in Catalogs, AppendTorn(c)
  PROVE  IInv'
<1>0. PICK size, content : FileWritten(c, size, content) /\ size # None
  BY NoneAssumption DEF AppendTorn, SizeOf
<1>1. TypeOK'
  BY DEF IInv, AppendTorn, TypeOK, Contents, Extended, SizeOf, FileWritten, startVars
<1>2. UnharmedMatch'
  BY DEF IInv, AppendTorn, UnharmedMatch, Awaited, FileWritten, Matches, TypeOK
<1>3. KeysHold'
  BY <1>0 DEF IInv, AppendTorn, KeysHold, FileWritten, TypeOK
<1>4. StartKnows'
  BY DEF IInv, AppendTorn, StartKnows, FileWritten, startVars
<1>5. InUseStored'
  BY <1>0 DEF IInv, AppendTorn, InUseStored, Awaited, FileWritten, InUse, Pinned, TypeOK,
     startVars
<1>6. ActiveCatalogKept'
  BY DEF IInv, AppendTorn, ActiveCatalogKept, FileWritten, startVars
<1> QED BY <1>1, <1>2, <1>3, <1>4, <1>5, <1>6 DEF IInv

LEMMA DeleteObjectFileKeeps ==
  ASSUME IInv, NEW c \in Catalogs, DeleteObjectFile(c)
  PROVE  IInv'
<1>1. TypeOK'
  BY DEF IInv, DeleteObjectFile, TypeOK, FileDeleted, startVars
<1>2. UnharmedMatch'
  BY DEF IInv, DeleteObjectFile, UnharmedMatch, Awaited, FileDeleted, Matches, TypeOK
<1>3. KeysHold'
  BY DEF IInv, DeleteObjectFile, KeysHold, FileDeleted
<1>4. StartKnows'
  BY DEF IInv, DeleteObjectFile, StartKnows, FileDeleted, startVars
<1>5. InUseStored'
  BY DEF IInv, DeleteObjectFile, InUseStored, Awaited, FileDeleted, InUse, Pinned, startVars
<1>6. ActiveCatalogKept'
  BY DEF IInv, DeleteObjectFile, ActiveCatalogKept, FileDeleted, startVars
<1> QED BY <1>1, <1>2, <1>3, <1>4, <1>5, <1>6 DEF IInv

LEMMA DeleteObjectKeeps ==
  ASSUME IInv, NEW c \in Catalogs, DeleteObject(c)
  PROVE  IInv'
<1>1. TypeOK'
  BY DEF IInv, DeleteObject, TypeOK, FileDeleted, startVars
<1>2. UnharmedMatch'
  BY DEF IInv, DeleteObject, UnharmedMatch, Awaited, FileDeleted, Matches, TypeOK
<1>3. KeysHold'
  BY DEF IInv, DeleteObject, KeysHold, FileDeleted, Pinned, TypeOK
<1>4. StartKnows'
  BY DEF IInv, DeleteObject, StartKnows, FileDeleted, startVars
<1>5. InUseStored'
  BY DEF IInv, DeleteObject, InUseStored, Awaited, FileDeleted, InUse, Pinned, startVars
<1>6. ActiveCatalogKept'
  BY DEF IInv, DeleteObject, ActiveCatalogKept, FileDeleted, startVars
<1> QED BY <1>1, <1>2, <1>3, <1>4, <1>5, <1>6 DEF IInv

LEMMA DeleteObservationKeeps ==
  ASSUME IInv, NEW c \in Catalogs, DeleteObservation(c)
  PROVE  IInv'
<1>1. TypeOK'
  BY DEF IInv, DeleteObservation, TypeOK, FileDeleted, startVars
<1>2. UnharmedMatch'
  BY DEF IInv, DeleteObservation, UnharmedMatch, Awaited, FileDeleted, Matches, TypeOK
<1>3. KeysHold'
  BY DEF IInv, DeleteObservation, KeysHold, FileDeleted, Pinned, TypeOK
<1>4. StartKnows'
  BY DEF IInv, DeleteObservation, StartKnows, FileDeleted, startVars
<1>5. InUseStored'
  BY DEF IInv, DeleteObservation, InUseStored, Awaited, FileDeleted, InUse, Pinned,
     startVars
<1>6. ActiveCatalogKept'
  BY DEF IInv, DeleteObservation, ActiveCatalogKept, FileDeleted, startVars
<1> QED BY <1>1, <1>2, <1>3, <1>4, <1>5, <1>6 DEF IInv

LEMMA CreateTaskKeeps ==
  ASSUME IInv, NEW t \in Tasks, CreateTask(t)
  PROVE  IInv'
<1>1. TypeOK'
  BY DEF IInv, CreateTask, TypeOK, history, startVars, stored
<1>2. UnharmedMatch'
  BY DEF IInv, CreateTask, UnharmedMatch, Awaited, Matches, history, stored
<1>3. KeysHold'
  BY DEF IInv, CreateTask, KeysHold, stored
<1>4. StartKnows'
  BY DEF IInv, CreateTask, StartKnows, startVars
<1>5. InUseStored'
  BY DEF IInv, CreateTask, InUseStored, Awaited, InUse, Pinned, history, startVars, stored
<1>6. ActiveCatalogKept'
  BY DEF IInv, CreateTask, ActiveCatalogKept, startVars, stored
<1> QED BY <1>1, <1>2, <1>3, <1>4, <1>5, <1>6 DEF IInv

LEMMA DeleteTaskKeeps ==
  ASSUME IInv, NEW t \in Tasks, DeleteTask(t)
  PROVE  IInv'
<1>1. TypeOK'
  BY DEF IInv, DeleteTask, TypeOK, history, startVars, stored
<1>2. UnharmedMatch'
  BY DEF IInv, DeleteTask, UnharmedMatch, Awaited, Matches, history, stored
<1>3. KeysHold'
  BY DEF IInv, DeleteTask, KeysHold, stored
<1>4. StartKnows'
  BY DEF IInv, DeleteTask, StartKnows, startVars
<1>5. InUseStored'
  BY NoneAssumption DEF IInv, DeleteTask, InUseStored, Awaited, InUse, Pinned, history,
     startVars, stored
<1>6. ActiveCatalogKept'
  BY DEF IInv, DeleteTask, ActiveCatalogKept, history, startVars, stored
<1> QED BY <1>1, <1>2, <1>3, <1>4, <1>5, <1>6 DEF IInv

LEMMA StutterKeeps ==
  ASSUME IInv, UNCHANGED vars
  PROVE  IInv'
<1>1. UNCHANGED <<object, row, bytes, pinned, boot, chosen, active, failed,
                  harmed, removed, cascaded>>
  BY DEF vars, stored, startVars, history
<1>2. TypeOK' /\ StartKnows' /\ KeysHold'
  BY <1>1 DEF IInv, TypeOK, StartKnows, KeysHold
<1>3. UnharmedMatch' /\ InUseStored' /\ ActiveCatalogKept'
  BY <1>1 DEF IInv, UnharmedMatch, Matches, Awaited, InUseStored, InUse, Pinned, ActiveCatalogKept
<1> QED BY <1>2, <1>3 DEF IInv

LEMMA InitHolds == Init => IInv
<1> SUFFICES ASSUME Init PROVE IInv
  OBVIOUS
<1>1. TypeOK /\ UnharmedMatch /\ KeysHold
  BY DEF Init, TypeOK, UnharmedMatch, KeysHold
<1>2. StartKnows /\ ActiveCatalogKept
  BY DEF Init, StartKnows, ActiveCatalogKept, Steps
<1>3. InUseStored
  BY NoneAssumption DEF Init, InUseStored, InUse, Pinned
<1> QED BY <1>1, <1>2, <1>3 DEF IInv

LEMMA NextKeeps == IInv /\ [Next]_vars => IInv'
<1> SUFFICES ASSUME IInv, [Next]_vars PROVE IInv'
  OBVIOUS
<1>1. ASSUME NEW c \in Catalogs, Start(c) PROVE IInv'
  BY <1>1, StartKeeps
<1>2. CASE StartWithoutCatalog \/ StepFails \/ Stop
  BY <1>2, StartWithoutCatalogKeeps, StepFailsKeeps, StopKeeps
<1>3. CASE Materialize
  BY <1>3, FindObjectKeeps, CreateCatalogObjectKeeps, ListFilesKeeps, VerifyKeeps,
     CommitUploadKeeps, PromoteKeeps DEF Materialize
<1>4. CASE Handle
  BY <1>4, CreateObjectKeeps, UploadFileKeeps, UploadTornKeeps, AppendObjectFileKeeps,
     AppendTornKeeps, DeleteObjectFileKeeps, DeleteObjectKeeps, DeleteObservationKeeps,
     CreateTaskKeeps, DeleteTaskKeeps DEF Handle
<1>5. CASE UNCHANGED vars
  BY <1>5, StutterKeeps
<1> QED BY <1>1, <1>2, <1>3, <1>4, <1>5 DEF Next

-----------------------------------------------------------------------------
(* Theorems. *)

\* IInv is an invariant, for any catalogs and tasks.
THEOREM Invariant == Spec => []IInv
<1>1. Init => IInv
  BY InitHolds
<1>2. IInv /\ [Next]_vars => IInv'
  BY NextKeeps
<1> QED BY <1>1, <1>2, PTL DEF Spec

\* Variables hold values of their sorts.
THEOREM TypeCorrect == Spec => []TypeOK
<1>1. IInv => TypeOK
  BY DEF IInv
<1> QED BY <1>1, Invariant, PTL

\* A task finds the catalog it is pinned to, unless its file was written or deleted
\* by a client or torn, its object went with an observation, or the document is above
\* the read limit and not active any more.
THEOREM PinnedResolve == Spec => []PinnedCatalogsResolve
<1>1. IInv => PinnedCatalogsResolve
  BY DEF IInv, PinnedCatalogsResolve, Loadable, UnharmedMatch, InUseStored, InUse, Pinned,
     StartKnows, Steps, TypeOK
<1> QED BY <1>1, Invariant, PTL

\* The object of the active catalog exists, unless it went with an observation.
THEOREM ActiveKept == Spec => []ActiveCatalogKept
<1>1. IInv => ActiveCatalogKept
  BY DEF IInv
<1> QED BY <1>1, Invariant, PTL

\* A start ends without its catalog only for a failure of its own or a harmed file.
THEOREM GivesUp == Spec => GivesUpOnlyIfHarmed
<1> DEFINE Blamed ==
      boot # "up" /\ boot' = "up" /\ active' = None =>
        chosen' = None \/ failed' \/ chosen \in harmed
<1>1. IInv /\ [Next]_vars => [Blamed]_vars
  <2> SUFFICES ASSUME IInv, Next, boot # "up", boot' = "up", active' = None
               PROVE  chosen' = None \/ failed' \/ chosen \in harmed
    OBVIOUS
  <2>1. \/ StartWithoutCatalog \/ StepFails \/ Verify \/ Promote
    BY DEF Next, Materialize, Handle, Start, FindObject, CreateCatalogObject, ListFiles,
       CommitUpload, Stop, CreateObject, UploadFile, UploadTorn, AppendObjectFile, AppendTorn,
       DeleteObjectFile, DeleteObject, DeleteObservation, CreateTask, DeleteTask
  <2>2. CASE StartWithoutCatalog \/ StepFails
    BY <2>2 DEF StartWithoutCatalog, StepFails
  <2>3. CASE Verify
    BY <2>3, NoneAssumption DEF Verify, IInv, StartKnows, Steps, UnharmedMatch, Awaited
  <2>4. CASE Promote
    BY <2>4, NoneAssumption DEF Promote, IInv, StartKnows, Steps
  <2> QED BY <2>1, <2>2, <2>3, <2>4
<1> QED BY <1>1, Invariant, PTL DEF Spec, GivesUpOnlyIfHarmed

\* What a start makes active is stored byte for byte at that moment.
THEOREM Serves == Spec => ServesWhatIsStored
<1> DEFINE Stored ==
      active' # None /\ active' # active =>
        row'[active'] = "equal" /\ bytes'[active'] = "raw"
<1>1. IInv /\ [Next]_vars => [Stored]_vars
  <2> SUFFICES ASSUME IInv, Next, active' # None, active' # active
               PROVE  row'[active'] = "equal" /\ bytes'[active'] = "raw"
    OBVIOUS
  <2>1. Verify \/ Promote
    BY DEF Next, Materialize, Handle, Start, StartWithoutCatalog, StepFails, FindObject,
       CreateCatalogObject, ListFiles, CommitUpload, Stop, CreateObject, UploadFile, UploadTorn,
       AppendObjectFile, AppendTorn, DeleteObjectFile, DeleteObject, DeleteObservation,
       CreateTask, DeleteTask, FileWritten, startVars
  <2>2. CASE Verify
    BY <2>2 DEF Verify, Matches, stored
  <2>3. CASE Promote
    BY <2>3 DEF Promote, IInv, TypeOK, StartKnows, Steps
  <2> QED BY <2>1, <2>2, <2>3
<1> QED BY <1>1, Invariant, PTL DEF Spec, ServesWhatIsStored
=============================================================================
