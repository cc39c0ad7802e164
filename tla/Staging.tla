------------------------------ MODULE Staging ------------------------------
(***************************************************************************)
(* The staging directory and the requests that fill it.  An upload streams *)
(* its file part to staging/<object_id>/<file_id>-<random> while it still  *)
(* reads the form (internal/httpapi/router.go handleUploadObjectFile,      *)
(* internal/objectfiles/store.go Stage); the store then commits the row    *)
(* and renames the staged file to its path (internal/postgres/store.go     *)
(* CreateObjectFile).  Whoever gives up on the way removes the staged file *)
(* and the directory of the object when that is empty, and two layers do   *)
(* so for one request.  Nothing sweeps the staging directory afterwards.   *)
(*                                                                         *)
(* The bytes of a file and what becomes of them at their path are in       *)
(* ObjectFiles.  Here a staged file is a name that os.CreateTemp gives,    *)
(* never given twice.  Each file operation may fail.                       *)
(***************************************************************************)
EXTENDS Naturals

CONSTANTS
  Workers,    \* requests in flight
  Files,      \* object files that clients upload
  ObjectOf,   \* the object that a file belongs to
  Objects,
  Temps,      \* names that os.CreateTemp gives
  None        \* no file, no staged file, no directory

ASSUME NoneAssumption == None \notin Files \cup Objects \cup Temps

ASSUME ObjectOfAssumption == ObjectOf \in [Files -> Objects]

VARIABLES
  linked,     \* the path of the storage root goes through a symbolic link
  dirs,       \* objects whose directory under staging exists
  staged,     \* staged file -> the object whose directory holds it, or None
  row,        \* file -> the staged file whose upload committed its row
  req,        \* worker -> its request
  used,       \* names given so far
  promoted,   \* history: staged files renamed to their path
  doubtful,   \* history: staged files whose COMMIT took effect unseen
  left,       \* history: staged files left behind, for a reason named below
  shells      \* history: objects whose directory may stay though empty

vars == <<linked, dirs, staged, row, req, used, promoted, doubtful, left, shells>>

Steps == {"idle", "parts", "create", "fill", "more", "insert", "promote",
          "discard", "prune"}

Idle == [step |-> "idle", file |-> None, temp |-> None, again |-> FALSE]

Object(w) == ObjectOf[req[w].file]
Temp(w) == req[w].temp
At(w, step) == req[w].step = step

Goto(w, step) == req' = [req EXCEPT ![w].step = step]
Respond(w) == req' = [req EXCEPT ![w] = Idle]

\* Cleanup of the staged file begins; with again, the store's deferred one and
\* then that of the handler, which does not know of it.
Cleanup(w, again) ==
  req' = [req EXCEPT ![w] = [@ EXCEPT !.step = "discard", !.again = again]]

-----------------------------------------------------------------------------
(* The form, part by part. *)

Begin(w, f) ==
  /\ At(w, "idle")
  /\ req' = [req EXCEPT ![w] = [Idle EXCEPT !.step = "parts", !.file = f]]
  /\ UNCHANGED <<dirs, staged, row, used, promoted, doubtful, left, shells, linked>>

\* A part is refused, the body is malformed or ends before the file part.
RefuseEarly(w) ==
  /\ At(w, "parts")
  /\ Respond(w)
  /\ UNCHANGED <<dirs, staged, row, used, promoted, doubtful, left, shells, linked>>

\* Stage makes the directory of the object, or finds it.
MakeStagingDir(w) ==
  /\ At(w, "parts")
  /\ dirs' = dirs \cup {Object(w)}
  /\ Goto(w, "create")
  /\ UNCHANGED <<staged, row, used, promoted, doubtful, left, shells, linked>>

CreateTemp(w, t) ==
  /\ At(w, "create")
  /\ Object(w) \in dirs
  /\ t \notin used
  /\ used' = used \cup {t}
  /\ staged' = [staged EXCEPT ![t] = Object(w)]
  /\ req' = [req EXCEPT ![w] = [@ EXCEPT !.step = "fill", !.temp = t]]
  /\ UNCHANGED <<dirs, row, promoted, doubtful, left, shells, linked>>

\* CreateTemp fails, always when another request has pruned the directory in
\* between.  Stage does not prune: a directory that is there stays.
CreateTempFails(w) ==
  /\ At(w, "create")
  /\ shells' = shells \cup (dirs \cap {Object(w)})
  /\ Respond(w)
  /\ UNCHANGED <<dirs, staged, row, used, promoted, doubtful, left, linked>>

\* The bytes are written and synced.
FillTemp(w) ==
  /\ At(w, "fill")
  /\ Goto(w, "more")
  /\ UNCHANGED <<dirs, staged, row, used, promoted, doubtful, left, shells, linked>>

\* The body breaks off, is empty or too long: Stage removes its own file, but
\* not the directory, and the handler never learns the name.
FillFails(w) ==
  /\ At(w, "fill")
  /\ \/ /\ staged' = [staged EXCEPT ![Temp(w)] = None]
        /\ UNCHANGED left
     \/ /\ left' = left \cup {Temp(w)}      \* os.Remove has failed
        /\ UNCHANGED staged
  /\ shells' = shells \cup {Object(w)}
  /\ Respond(w)
  /\ UNCHANGED <<dirs, row, used, promoted, doubtful, linked>>

\* Mutant: the request is answered with the file still staged.
BugRefuseLate(w) ==
  /\ At(w, "more")
  /\ Respond(w)
  /\ UNCHANGED <<dirs, staged, row, used, promoted, doubtful, left, shells, linked>>

\* A part after the file is refused (another file, file_id, an unknown or
\* oversized one), the body is malformed, or the content type is.
RefuseLate(w) ==
  /\ At(w, "more")
  /\ Cleanup(w, FALSE)
  /\ UNCHANGED <<dirs, staged, row, used, promoted, doubtful, left, shells, linked>>

EndOfParts(w) ==
  /\ At(w, "more")
  /\ Goto(w, "insert")
  /\ UNCHANGED <<dirs, staged, row, used, promoted, doubtful, left, shells, linked>>

-----------------------------------------------------------------------------
(* CreateObjectFile. *)

Commit(w) ==
  /\ At(w, "insert")
  /\ row[req[w].file] = None
  /\ row' = [row EXCEPT ![req[w].file] = Temp(w)]
  /\ Goto(w, "promote")
  /\ UNCHANGED <<dirs, staged, used, promoted, doubtful, left, shells, linked>>

\* The staged file is not acceptable, the object is gone, the row is there
\* already, or the database fails.  The handler cleans up after the store; it
\* alone does when the store has not accepted the staged path, the store alone
\* for the upload that the catalog start makes.
InsertFails(w, again) ==
  /\ At(w, "insert")
  /\ Cleanup(w, again)
  /\ UNCHANGED <<dirs, staged, row, used, promoted, doubtful, left, shells, linked>>

\* COMMIT takes effect and still returns an error.
CommitUnknown(w, again) ==
  /\ At(w, "insert")
  /\ row[req[w].file] = None
  /\ row' = [row EXCEPT ![req[w].file] = Temp(w)]
  /\ doubtful' = doubtful \cup {Temp(w)}
  /\ Cleanup(w, again)
  /\ UNCHANGED <<dirs, staged, used, promoted, left, shells, linked>>

\* Mutant: the directory is left to the next request.
BugPromote(w) ==
  /\ At(w, "promote")
  /\ staged' = [staged EXCEPT ![Temp(w)] = None]
  /\ promoted' = promoted \cup {Temp(w)}
  /\ Respond(w)
  /\ UNCHANGED <<dirs, row, used, doubtful, left, shells, linked>>

\* The rename; Promote prunes afterwards, with no second cleanup.
Promote(w) ==
  /\ At(w, "promote")
  /\ staged' = [staged EXCEPT ![Temp(w)] = None]
  /\ promoted' = promoted \cup {Temp(w)}
  /\ req' = [req EXCEPT ![w] = [@ EXCEPT !.step = "prune", !.again = FALSE]]
  /\ UNCHANGED <<dirs, row, used, doubtful, left, shells, linked>>

\* Mutant: the handler does not see that the store has kept the file.
BugPromoteFails(w) ==
  /\ At(w, "promote")
  /\ Cleanup(w, FALSE)
  /\ UNCHANGED <<dirs, staged, row, used, promoted, doubtful, left, shells, linked>>

\* The rename fails after the commit: the store keeps the staged file for an
\* operator, names it in the cause of its error, and the handler
\* (uploadErrorRetainsPreStagedPath) leaves it alone.
PromoteFails(w) ==
  /\ At(w, "promote")
  /\ left' = left \cup {Temp(w)}
  /\ Respond(w)
  /\ UNCHANGED <<dirs, staged, row, used, promoted, doubtful, shells, linked>>

-----------------------------------------------------------------------------
(* CleanupStagedPath and pruneEmptyStagingParents. *)

\* A file that is not there any more is as good as removed.
Discard(w) ==
  /\ At(w, "discard")
  /\ staged' = [staged EXCEPT ![Temp(w)] = None]
  /\ Goto(w, "prune")
  /\ UNCHANGED <<dirs, row, used, promoted, doubtful, left, shells, linked>>

\* os.Remove fails: no pruning.  The handler's cleanup still follows the
\* store's, whose error is dropped.
DiscardFails(w) ==
  /\ At(w, "discard")
  /\ staged[Temp(w)] # None
  /\ IF req[w].again
       THEN /\ req' = [req EXCEPT ![w].again = FALSE]
            /\ UNCHANGED left
       ELSE /\ left' = left \cup {Temp(w)}
            /\ Respond(w)
  /\ UNCHANGED <<dirs, staged, row, used, promoted, doubtful, shells, linked>>

Empty(o) == \A t \in Temps : staged[t] # o

\* Answer, or the second cleanup.
AfterPrune(w) == IF req[w].again THEN Cleanup(w, FALSE) ELSE Respond(w)

\* Mutant: os.RemoveAll takes what the directory holds with it.
BugPrune(w) ==
  /\ At(w, "prune")
  /\ dirs' = dirs \ {Object(w)}
  /\ shells' = shells \ {Object(w)}
  /\ staged' = [t \in Temps |->
                  IF staged[t] = Object(w) THEN None ELSE staged[t]]
  /\ AfterPrune(w)
  /\ UNCHANGED <<row, used, promoted, doubtful, left, linked>>

\* CreateObjectFile works with the resolved path of a file that the handler has
\* staged.  Under a linked root it is not within the staging directory as it is
\* configured, and the store's own pruning returns; the handler's goes by the path
\* that Stage gave, as does the store's for the upload of the catalog start.
PruneSkipped(w) ==
  /\ linked
  /\ At(w, "prune")
  /\ req[w].again \/ Temp(w) \in promoted
  /\ shells' = IF ~req[w].again /\ Empty(Object(w))
                 THEN shells \cup (dirs \cap {Object(w)}) ELSE shells
  /\ AfterPrune(w)
  /\ UNCHANGED <<dirs, staged, row, used, promoted, doubtful, left, linked>>

\* os.Remove removes a directory only when it is empty.
Prune(w) ==
  /\ At(w, "prune")
  /\ ~(linked /\ req[w].again)
  /\ IF Empty(Object(w))
       THEN /\ dirs' = dirs \ {Object(w)}
            /\ shells' = shells \ {Object(w)}
       ELSE UNCHANGED <<dirs, shells>>
  /\ AfterPrune(w)
  /\ UNCHANGED <<staged, row, used, promoted, doubtful, left, linked>>

\* An empty directory that cannot be removed stays; no error is reported.
PruneFails(w) ==
  /\ At(w, "prune")
  /\ ~(linked /\ req[w].again)
  /\ Object(w) \in dirs
  /\ Empty(Object(w))
  /\ shells' = shells \cup {Object(w)}
  /\ AfterPrune(w)
  /\ UNCHANGED <<dirs, staged, row, used, promoted, doubtful, left, linked>>

-----------------------------------------------------------------------------
(* What else happens. *)

\* The row is deleted, at any time: an upload takes no lock between its commit
\* and its rename.
DeleteRow(f) ==
  /\ row[f] # None
  /\ row' = [row EXCEPT ![f] = None]
  /\ UNCHANGED <<dirs, staged, req, used, promoted, doubtful, left, shells, linked>>

Active == {w \in Workers : req[w].step # "idle"}

\* The process stops and starts again; no start looks at the staging directory.
Restart ==
  /\ Active # {}
  /\ left' = left \cup {t \in Temps : /\ staged[t] # None
                                     /\ \E w \in Active : Temp(w) = t}
  /\ shells' = shells \cup {Object(w) : w \in Active}
  /\ req' = [w \in Workers |-> Idle]
  /\ UNCHANGED <<dirs, staged, row, used, promoted, doubtful, linked>>

-----------------------------------------------------------------------------

Init ==
  /\ linked \in BOOLEAN
  /\ dirs = {}
  /\ staged = [t \in Temps |-> None]
  /\ row = [f \in Files |-> None]
  /\ req = [w \in Workers |-> Idle]
  /\ used = {}
  /\ promoted = {}
  /\ doubtful = {}
  /\ left = {}
  /\ shells = {}

Receive(w) ==
  \/ \E f \in Files : Begin(w, f)
  \/ RefuseEarly(w) \/ MakeStagingDir(w)
  \/ \E t \in Temps : CreateTemp(w, t)
  \/ CreateTempFails(w) \/ FillTemp(w) \/ FillFails(w)
  \/ RefuseLate(w) \/ EndOfParts(w)

CreateObjectFile(w) ==
  \/ Commit(w) \/ Promote(w) \/ PromoteFails(w)
  \/ \E again \in BOOLEAN : InsertFails(w, again) \/ CommitUnknown(w, again)

CleanupStagedPath(w) ==
  Discard(w) \/ DiscardFails(w) \/ PruneSkipped(w) \/ Prune(w) \/ PruneFails(w)

Next ==
  \/ \E w \in Workers : \/ Receive(w)
                        \/ CreateObjectFile(w)
                        \/ CleanupStagedPath(w)
  \/ \E f \in Files : DeleteRow(f)
  \/ Restart

Spec == Init /\ [][Next]_vars

-----------------------------------------------------------------------------
(* Properties. *)

RequestShape == [step : Steps, file : Files \cup {None},
                 temp : Temps \cup {None}, again : BOOLEAN]

TypeOK ==
  /\ linked \in BOOLEAN
  /\ dirs \subseteq Objects
  /\ staged \in [Temps -> Objects \cup {None}]
  /\ row \in [Files -> Temps \cup {None}]
  /\ req \in [Workers -> RequestShape]
  /\ used \subseteq Temps
  /\ promoted \subseteq Temps
  /\ doubtful \subseteq Temps
  /\ left \subseteq Temps
  /\ shells \subseteq Objects

\* Every staged file is the business of one request in flight, or it was left
\* behind for a reason: its rename or its removal has failed, or the process
\* stopped.  handleUploadObjectFile has a dozen ways out, and two layers that
\* clean up.
NothingLeftBehind ==
  \A t \in Temps : staged[t] # None =>
    \/ t \in left /\ \A w \in Workers : Temp(w) # t
    \/ t \notin left /\ \E w \in Workers :
         Temp(w) = t /\ \A v \in Workers : Temp(v) = t => v = w

\* No cleanup, of its own request or of another, removes the bytes of a
\* committed upload: they have been renamed or are still staged.  A COMMIT that
\* took effect and reported an error is the exception that CreateObjectFile
\* cannot see.
CommittedBytesKept ==
  \A f \in Files : row[f] # None =>
    \/ row[f] \in promoted \cup doubtful
    \/ staged[row[f]] = ObjectOf[f]

\* The request will still prune the directory of its object, or answer with a
\* reason for leaving it.
WillPrune(w) == req[w].step \in {"create", "discard", "prune"}

\* A directory without staged files goes with the last request that has to do
\* with it: it stays empty only when a Stage of its object failed, a removal
\* failed, the process stopped, or the store's pruning has missed it because the
\* root is linked.
EmptyDirsExplained ==
  \A o \in dirs : Empty(o) =>
    o \in shells \/ \E w \in Active : Object(w) = o /\ WillPrune(w)

\* What a request knows at each of its steps.
StepKnows(w) ==
  LET r == req[w] IN
  /\ r.step = "idle" <=> r.file = None
  /\ r.temp = None <=> r.step \in {"idle", "parts", "create"}
  /\ r.temp \in used \cup {None}
  /\ r.step \in {"fill", "more", "insert", "promote"} =>
       staged[r.temp] = Object(w)
  /\ r.step = "discard" => staged[r.temp] \in {None, Object(w)}
  /\ r.step = "prune" => staged[r.temp] = None

\* A staged file that a request may remove is that of no committed upload.
RemovableUnneeded(w) ==
  \A f \in Files : row[f] # None /\ row[f] = Temp(w) =>
    \/ req[w].step = "promote"
    \/ req[w].step = "prune" /\ ~req[w].again
    \/ Temp(w) \in doubtful

\* Only names that were given are in rows, or left behind.
NamesGiven ==
  /\ left \subseteq used
  /\ \A f \in Files : row[f] \in used \cup {None}

StagedInDirs ==
  \A t \in Temps : staged[t] # None => t \in used /\ staged[t] \in dirs

RequestsKnow == \A w \in Workers : StepKnows(w)

RemovalsSafe == \A w \in Workers : RemovableUnneeded(w)

IInv ==
  /\ TypeOK
  /\ NamesGiven
  /\ StagedInDirs
  /\ RequestsKnow
  /\ RemovalsSafe
  /\ NothingLeftBehind
  /\ CommittedBytesKept
  /\ EmptyDirsExplained

=============================================================================
