--------------------------- MODULE StagingProofs ----------------------------
(***************************************************************************)
(* Proofs about Staging: for any number of requests, objects, files and    *)
(* staged files, every staged file has an owner or a reason to be left,    *)
(* committed bytes survive every cleanup, and empty directories are        *)
(* explained.                                                              *)
(***************************************************************************)
EXTENDS Staging, TLAPS

USE NoneAssumption, ObjectOfAssumption

-----------------------------------------------------------------------------
(* What a request in flight has. *)

LEMMA InFlight ==
  ASSUME IInv, NEW w \in Workers, req[w].step # "idle"
  PROVE  req[w].file \in Files /\ Object(w) \in Objects
<1>1. req[w] \in RequestShape
  BY DEF IInv, TypeOK
<1>2. req[w].file \in Files
  BY <1>1 DEF IInv, RequestsKnow, StepKnows, RequestShape
<1> QED BY <1>2 DEF Object

LEMMA HasTemp ==
  ASSUME IInv, NEW w \in Workers,
         req[w].step \notin {"idle", "parts", "create"}
  PROVE  Temp(w) \in Temps /\ Temp(w) \in used
<1>1. req[w] \in RequestShape
  BY DEF IInv, TypeOK
<1> QED BY <1>1 DEF IInv, RequestsKnow, StepKnows, RequestShape, Temp

\* A staged file is in the hands of one request.
LEMMA AloneWithTemp ==
  ASSUME IInv, NEW w \in Workers, NEW v \in Workers,
         Temp(w) \in Temps, staged[Temp(w)] # None
  PROVE  Temp(w) \notin left /\ (Temp(v) = Temp(w) => v = w)
  BY DEF IInv, NothingLeftBehind

\* The request that is pruning is answered or cleans up once more.
LEMMA AfterPruneGives ==
  ASSUME IInv, NEW w \in Workers, At(w, "prune"), AfterPrune(w)
  PROVE  \E r \in RequestShape :
           /\ req' = [req EXCEPT ![w] = r]
           /\ \/ r = Idle /\ ~req[w].again
              \/ /\ r.step = "discard"
                 /\ r.file = req[w].file
                 /\ r.temp = req[w].temp
                 /\ req[w].again
<1>1. req[w] \in RequestShape
  BY DEF IInv, TypeOK
<1>2. CASE req[w].again
  <2> DEFINE r == [req[w] EXCEPT !.step = "discard", !.again = FALSE]
  <2>1. r \in RequestShape /\ r.step = "discard" /\ r.file = req[w].file
        /\ r.temp = req[w].temp
    BY <1>1 DEF RequestShape, Steps
  <2>2. req' = [req EXCEPT ![w] = r]
    BY <1>2 DEF AfterPrune, Cleanup
  <2> QED BY <1>2, <2>1, <2>2
<1>3. CASE ~req[w].again
  <2>1. Idle \in RequestShape
    BY DEF Idle, RequestShape, Steps
  <2> QED BY <1>3, <2>1 DEF AfterPrune, Respond
<1> QED BY <1>2, <1>3

-----------------------------------------------------------------------------
(* Every action keeps the invariant. *)

LEMMA BeginKeeps ==
  ASSUME IInv, NEW w \in Workers, NEW f \in Files, Begin(w, f)
  PROVE  IInv'
<1>1. TypeOK'
  BY DEF IInv, Begin, TypeOK, RequestShape, Steps, Object, Temp, At, Goto,
    Respond, Idle
<1>2. NamesGiven'
  BY DEF IInv, Begin, NamesGiven, TypeOK, Temp, RequestsKnow, StepKnows, At,
    Goto, Respond, Idle
<1>3. StagedInDirs'
  BY DEF IInv, Begin, StagedInDirs, TypeOK, Object, Temp, At, Goto, Respond,
    Idle
<1>4. RequestsKnow'
  BY DEF IInv, Begin, RequestsKnow, StepKnows, TypeOK, RequestShape, Object,
    Temp, StagedInDirs, NothingLeftBehind, At, Goto, Respond, Idle
<1>5. RemovalsSafe'
  BY DEF IInv, Begin, RemovalsSafe, RemovableUnneeded, TypeOK, RequestShape,
    Temp, NamesGiven, RequestsKnow, StepKnows, At, Goto, Respond, Idle
<1>6. NothingLeftBehind'
  BY DEF IInv, Begin, NothingLeftBehind, TypeOK, RequestShape, RequestsKnow,
    StepKnows, NamesGiven, Temp, StagedInDirs, At, Goto, Respond, Idle
<1>7. CommittedBytesKept'
  BY DEF IInv, Begin, CommittedBytesKept, TypeOK, RequestShape,
    RequestsKnow, StepKnows, RemovalsSafe, RemovableUnneeded, NamesGiven,
    Object, Temp, At, Goto, Respond, Idle
<1>8. EmptyDirsExplained'
  BY DEF IInv, Begin, EmptyDirsExplained, Empty, Active, WillPrune, Object,
    Temp, TypeOK, RequestShape, RequestsKnow, StepKnows, At, Goto, Respond,
    Idle
<1> QED
  BY <1>1, <1>2, <1>3, <1>4, <1>5, <1>6, <1>7, <1>8 DEF IInv

LEMMA RefuseEarlyKeeps ==
  ASSUME IInv, NEW w \in Workers, RefuseEarly(w)
  PROVE  IInv'
<1>1. TypeOK'
  BY DEF IInv, RefuseEarly, TypeOK, RequestShape, Steps, Object, Temp, At,
    Respond, Idle
<1>2. NamesGiven'
  BY DEF IInv, RefuseEarly, NamesGiven, TypeOK, Temp, RequestsKnow,
    StepKnows, At, Respond, Idle
<1>3. StagedInDirs'
  BY DEF IInv, RefuseEarly, StagedInDirs, TypeOK, Object, Temp, At, Respond,
    Idle
<1>4. RequestsKnow'
  BY DEF IInv, RefuseEarly, RequestsKnow, StepKnows, TypeOK, RequestShape,
    Object, Temp, StagedInDirs, NothingLeftBehind, At, Respond, Idle
<1>5. RemovalsSafe'
  BY DEF IInv, RefuseEarly, RemovalsSafe, RemovableUnneeded, TypeOK,
    RequestShape, Temp, NamesGiven, RequestsKnow, StepKnows, At, Respond,
    Idle
<1>6. NothingLeftBehind'
  BY DEF IInv, RefuseEarly, NothingLeftBehind, TypeOK, RequestShape,
    RequestsKnow, StepKnows, NamesGiven, Temp, StagedInDirs, At, Respond,
    Idle
<1>7. CommittedBytesKept'
  BY DEF IInv, RefuseEarly, CommittedBytesKept, TypeOK, RequestShape,
    RequestsKnow, StepKnows, RemovalsSafe, RemovableUnneeded, NamesGiven,
    Object, Temp, At, Respond, Idle
<1>8. EmptyDirsExplained'
  BY DEF IInv, RefuseEarly, EmptyDirsExplained, Empty, Active, WillPrune,
    Object, Temp, TypeOK, RequestShape, RequestsKnow, StepKnows, At,
    Respond, Idle
<1> QED
  BY <1>1, <1>2, <1>3, <1>4, <1>5, <1>6, <1>7, <1>8 DEF IInv

LEMMA MakeStagingDirKeeps ==
  ASSUME IInv, NEW w \in Workers, MakeStagingDir(w)
  PROVE  IInv'
<1>1. TypeOK'
  BY InFlight DEF IInv, MakeStagingDir, TypeOK, RequestShape, Steps, Object,
    Temp, At, Goto
<1>2. NamesGiven'
  BY DEF IInv, MakeStagingDir, NamesGiven, TypeOK, Temp, RequestsKnow,
    StepKnows, At, Goto
<1>3. StagedInDirs'
  BY DEF IInv, MakeStagingDir, StagedInDirs, TypeOK, Object, Temp, At, Goto
<1>4. RequestsKnow'
  BY DEF IInv, MakeStagingDir, RequestsKnow, StepKnows, TypeOK,
    RequestShape, Object, Temp, StagedInDirs, NothingLeftBehind, At, Goto
<1>5. RemovalsSafe'
  BY DEF IInv, MakeStagingDir, RemovalsSafe, RemovableUnneeded, TypeOK,
    RequestShape, Temp, NamesGiven, RequestsKnow, StepKnows, At, Goto
<1>6. NothingLeftBehind'
  BY DEF IInv, MakeStagingDir, NothingLeftBehind, TypeOK, RequestShape,
    RequestsKnow, StepKnows, NamesGiven, Temp, StagedInDirs, At, Goto
<1>7. CommittedBytesKept'
  BY DEF IInv, MakeStagingDir, CommittedBytesKept, TypeOK, RequestShape,
    RequestsKnow, StepKnows, RemovalsSafe, RemovableUnneeded, NamesGiven,
    Object, Temp, At, Goto
<1>8. EmptyDirsExplained'
  BY DEF IInv, MakeStagingDir, EmptyDirsExplained, Empty, Active, WillPrune,
    Object, Temp, TypeOK, RequestShape, RequestsKnow, StepKnows, At, Goto
<1> QED
  BY <1>1, <1>2, <1>3, <1>4, <1>5, <1>6, <1>7, <1>8 DEF IInv

LEMMA CreateTempKeeps ==
  ASSUME IInv, NEW w \in Workers, NEW t \in Temps, CreateTemp(w, t)
  PROVE  IInv'
<1>1. TypeOK'
  BY InFlight DEF IInv, CreateTemp, TypeOK, RequestShape, Steps, Object,
    Temp, At
<1>2. NamesGiven'
  BY DEF IInv, CreateTemp, NamesGiven, TypeOK, Temp, RequestsKnow,
    StepKnows, At
<1>3. StagedInDirs'
  BY DEF IInv, CreateTemp, StagedInDirs, TypeOK, Object, Temp, At
<1>4. RequestsKnow'
  BY DEF IInv, CreateTemp, RequestsKnow, StepKnows, TypeOK, RequestShape,
    Object, Temp, StagedInDirs, NothingLeftBehind, At
<1>5. RemovalsSafe'
  BY DEF IInv, CreateTemp, RemovalsSafe, RemovableUnneeded, TypeOK,
    RequestShape, Temp, NamesGiven, RequestsKnow, StepKnows, At
<1>6. NothingLeftBehind'
  BY DEF IInv, CreateTemp, NothingLeftBehind, TypeOK, RequestShape,
    RequestsKnow, StepKnows, NamesGiven, Temp, StagedInDirs, At
<1>7. CommittedBytesKept'
  BY DEF IInv, CreateTemp, CommittedBytesKept, TypeOK, RequestShape,
    RequestsKnow, StepKnows, RemovalsSafe, RemovableUnneeded, NamesGiven,
    Object, Temp, At
<1>8. EmptyDirsExplained'
  <2> SUFFICES ASSUME NEW o \in dirs', Empty(o)'
               PROVE  o \in shells' \/ \E v \in Workers :
                        /\ req'[v].step # "idle"
                        /\ ObjectOf[req'[v].file] = o
                        /\ req'[v].step \in {"create", "discard", "prune"}
    BY DEF EmptyDirsExplained, Active, Object, WillPrune
  <2>1. o # Object(w) /\ o \in dirs /\ o # None
    BY DEF CreateTemp, Empty, IInv, TypeOK
  <2>2. Empty(o)
    BY <2>1 DEF Empty, CreateTemp, IInv, StagedInDirs, TypeOK
  <2>3. o \in shells \/ \E v \in Active : Object(v) = o /\ WillPrune(v)
    BY <2>1, <2>2 DEF IInv, EmptyDirsExplained
  <2>4. CASE o \in shells
    BY <2>4 DEF CreateTemp
  <2>5. ASSUME NEW v \in Active, Object(v) = o, WillPrune(v)
        PROVE  /\ req'[v].step # "idle"
               /\ ObjectOf[req'[v].file] = o
               /\ req'[v].step \in {"create", "discard", "prune"}
    <3>1. v # w
      BY <2>1, <2>5
    <3>2. req'[v] = req[v]
      BY <3>1 DEF CreateTemp, IInv, TypeOK, Active
    <3> QED BY <2>5, <3>2 DEF Active, Object, WillPrune
  <2> QED BY <2>3, <2>4, <2>5 DEF Active
<1> QED
  BY <1>1, <1>2, <1>3, <1>4, <1>5, <1>6, <1>7, <1>8 DEF IInv

LEMMA CreateTempFailsKeeps ==
  ASSUME IInv, NEW w \in Workers, CreateTempFails(w)
  PROVE  IInv'
<1>1. TypeOK'
  BY InFlight DEF IInv, CreateTempFails, TypeOK, RequestShape, Steps,
    Object, Temp, At, Respond, Idle
<1>2. NamesGiven'
  BY DEF IInv, CreateTempFails, NamesGiven, TypeOK, Temp, RequestsKnow,
    StepKnows, At, Respond, Idle
<1>3. StagedInDirs'
  BY DEF IInv, CreateTempFails, StagedInDirs, TypeOK, Object, Temp, At,
    Respond, Idle
<1>4. RequestsKnow'
  BY DEF IInv, CreateTempFails, RequestsKnow, StepKnows, TypeOK,
    RequestShape, Object, Temp, StagedInDirs, NothingLeftBehind, At,
    Respond, Idle
<1>5. RemovalsSafe'
  BY DEF IInv, CreateTempFails, RemovalsSafe, RemovableUnneeded, TypeOK,
    RequestShape, Temp, NamesGiven, RequestsKnow, StepKnows, At, Respond,
    Idle
<1>6. NothingLeftBehind'
  BY DEF IInv, CreateTempFails, NothingLeftBehind, TypeOK, RequestShape,
    RequestsKnow, StepKnows, NamesGiven, Temp, StagedInDirs, At, Respond,
    Idle
<1>7. CommittedBytesKept'
  BY DEF IInv, CreateTempFails, CommittedBytesKept, TypeOK, RequestShape,
    RequestsKnow, StepKnows, RemovalsSafe, RemovableUnneeded, NamesGiven,
    Object, Temp, At, Respond, Idle
<1>8. EmptyDirsExplained'
  BY DEF IInv, CreateTempFails, EmptyDirsExplained, Empty, Active,
    WillPrune, Object, Temp, TypeOK, RequestShape, RequestsKnow, StepKnows,
    At, Respond, Idle
<1> QED
  BY <1>1, <1>2, <1>3, <1>4, <1>5, <1>6, <1>7, <1>8 DEF IInv

LEMMA FillTempKeeps ==
  ASSUME IInv, NEW w \in Workers, FillTemp(w)
  PROVE  IInv'
<1>1. TypeOK'
  BY DEF IInv, FillTemp, TypeOK, RequestShape, Steps, Object, Temp, At, Goto
<1>2. NamesGiven'
  BY DEF IInv, FillTemp, NamesGiven, TypeOK, Temp, RequestsKnow, StepKnows,
    At, Goto
<1>3. StagedInDirs'
  BY DEF IInv, FillTemp, StagedInDirs, TypeOK, Object, Temp, At, Goto
<1>4. RequestsKnow'
  BY DEF IInv, FillTemp, RequestsKnow, StepKnows, TypeOK, RequestShape,
    Object, Temp, StagedInDirs, NothingLeftBehind, At, Goto
<1>5. RemovalsSafe'
  BY DEF IInv, FillTemp, RemovalsSafe, RemovableUnneeded, TypeOK,
    RequestShape, Temp, NamesGiven, RequestsKnow, StepKnows, At, Goto
<1>6. NothingLeftBehind'
  BY DEF IInv, FillTemp, NothingLeftBehind, TypeOK, RequestShape,
    RequestsKnow, StepKnows, NamesGiven, Temp, StagedInDirs, At, Goto
<1>7. CommittedBytesKept'
  BY DEF IInv, FillTemp, CommittedBytesKept, TypeOK, RequestShape,
    RequestsKnow, StepKnows, RemovalsSafe, RemovableUnneeded, NamesGiven,
    Object, Temp, At, Goto
<1>8. EmptyDirsExplained'
  BY DEF IInv, FillTemp, EmptyDirsExplained, Empty, Active, WillPrune,
    Object, Temp, TypeOK, RequestShape, RequestsKnow, StepKnows, At, Goto
<1> QED
  BY <1>1, <1>2, <1>3, <1>4, <1>5, <1>6, <1>7, <1>8 DEF IInv

LEMMA FillFailsKeeps ==
  ASSUME IInv, NEW w \in Workers, FillFails(w)
  PROVE  IInv'
<1>1. TypeOK'
  BY InFlight, HasTemp DEF IInv, FillFails, TypeOK, RequestShape, Steps,
    Object, Temp, At, Respond, Idle
<1>2. NamesGiven'
  BY DEF IInv, FillFails, NamesGiven, TypeOK, Temp, RequestsKnow, StepKnows,
    At, Respond, Idle
<1>3. StagedInDirs'
  BY DEF IInv, FillFails, StagedInDirs, TypeOK, Object, Temp, At, Respond,
    Idle
<1>4. RequestsKnow'
  BY DEF IInv, FillFails, RequestsKnow, StepKnows, TypeOK, RequestShape,
    Object, Temp, StagedInDirs, NothingLeftBehind, At, Respond, Idle
<1>5. RemovalsSafe'
  BY DEF IInv, FillFails, RemovalsSafe, RemovableUnneeded, TypeOK,
    RequestShape, Temp, NamesGiven, RequestsKnow, StepKnows, At, Respond,
    Idle
<1>6. NothingLeftBehind'
  BY DEF IInv, FillFails, NothingLeftBehind, TypeOK, RequestShape,
    RequestsKnow, StepKnows, NamesGiven, Temp, StagedInDirs, At, Respond,
    Idle
<1>7. CommittedBytesKept'
  BY DEF IInv, FillFails, CommittedBytesKept, TypeOK, RequestShape,
    RequestsKnow, StepKnows, RemovalsSafe, RemovableUnneeded, NamesGiven,
    Object, Temp, At, Respond, Idle
<1>8. EmptyDirsExplained'
  BY DEF IInv, FillFails, EmptyDirsExplained, Empty, Active, WillPrune,
    Object, Temp, TypeOK, RequestShape, RequestsKnow, StepKnows, At,
    Respond, Idle
<1> QED
  BY <1>1, <1>2, <1>3, <1>4, <1>5, <1>6, <1>7, <1>8 DEF IInv

LEMMA RefuseLateKeeps ==
  ASSUME IInv, NEW w \in Workers, RefuseLate(w)
  PROVE  IInv'
<1>1. TypeOK'
  BY DEF IInv, RefuseLate, TypeOK, RequestShape, Steps, Object, Temp, At,
    Cleanup
<1>2. NamesGiven'
  BY DEF IInv, RefuseLate, NamesGiven, TypeOK, Temp, RequestsKnow,
    StepKnows, At, Cleanup
<1>3. StagedInDirs'
  BY DEF IInv, RefuseLate, StagedInDirs, TypeOK, Object, Temp, At, Cleanup
<1>4. RequestsKnow'
  BY DEF IInv, RefuseLate, RequestsKnow, StepKnows, TypeOK, RequestShape,
    Object, Temp, StagedInDirs, NothingLeftBehind, At, Cleanup
<1>5. RemovalsSafe'
  BY DEF IInv, RefuseLate, RemovalsSafe, RemovableUnneeded, TypeOK,
    RequestShape, Temp, NamesGiven, RequestsKnow, StepKnows, At, Cleanup
<1>6. NothingLeftBehind'
  BY DEF IInv, RefuseLate, NothingLeftBehind, TypeOK, RequestShape,
    RequestsKnow, StepKnows, NamesGiven, Temp, StagedInDirs, At, Cleanup
<1>7. CommittedBytesKept'
  BY DEF IInv, RefuseLate, CommittedBytesKept, TypeOK, RequestShape,
    RequestsKnow, StepKnows, RemovalsSafe, RemovableUnneeded, NamesGiven,
    Object, Temp, At, Cleanup
<1>8. EmptyDirsExplained'
  BY DEF IInv, RefuseLate, EmptyDirsExplained, Empty, Active, WillPrune,
    Object, Temp, TypeOK, RequestShape, RequestsKnow, StepKnows, At, Cleanup
<1> QED
  BY <1>1, <1>2, <1>3, <1>4, <1>5, <1>6, <1>7, <1>8 DEF IInv

LEMMA EndOfPartsKeeps ==
  ASSUME IInv, NEW w \in Workers, EndOfParts(w)
  PROVE  IInv'
<1>1. TypeOK'
  BY DEF IInv, EndOfParts, TypeOK, RequestShape, Steps, Object, Temp, At,
    Goto
<1>2. NamesGiven'
  BY DEF IInv, EndOfParts, NamesGiven, TypeOK, Temp, RequestsKnow,
    StepKnows, At, Goto
<1>3. StagedInDirs'
  BY DEF IInv, EndOfParts, StagedInDirs, TypeOK, Object, Temp, At, Goto
<1>4. RequestsKnow'
  BY DEF IInv, EndOfParts, RequestsKnow, StepKnows, TypeOK, RequestShape,
    Object, Temp, StagedInDirs, NothingLeftBehind, At, Goto
<1>5. RemovalsSafe'
  BY DEF IInv, EndOfParts, RemovalsSafe, RemovableUnneeded, TypeOK,
    RequestShape, Temp, NamesGiven, RequestsKnow, StepKnows, At, Goto
<1>6. NothingLeftBehind'
  BY DEF IInv, EndOfParts, NothingLeftBehind, TypeOK, RequestShape,
    RequestsKnow, StepKnows, NamesGiven, Temp, StagedInDirs, At, Goto
<1>7. CommittedBytesKept'
  BY DEF IInv, EndOfParts, CommittedBytesKept, TypeOK, RequestShape,
    RequestsKnow, StepKnows, RemovalsSafe, RemovableUnneeded, NamesGiven,
    Object, Temp, At, Goto
<1>8. EmptyDirsExplained'
  BY DEF IInv, EndOfParts, EmptyDirsExplained, Empty, Active, WillPrune,
    Object, Temp, TypeOK, RequestShape, RequestsKnow, StepKnows, At, Goto
<1> QED
  BY <1>1, <1>2, <1>3, <1>4, <1>5, <1>6, <1>7, <1>8 DEF IInv

LEMMA CommitKeeps ==
  ASSUME IInv, NEW w \in Workers, Commit(w)
  PROVE  IInv'
<1>1. TypeOK'
  BY InFlight, HasTemp DEF IInv, Commit, TypeOK, RequestShape, Steps,
    Object, Temp, At, Goto
<1>2. NamesGiven'
  BY DEF IInv, Commit, NamesGiven, TypeOK, Temp, RequestsKnow, StepKnows,
    At, Goto
<1>3. StagedInDirs'
  BY DEF IInv, Commit, StagedInDirs, TypeOK, Object, Temp, At, Goto
<1>4. RequestsKnow'
  BY DEF IInv, Commit, RequestsKnow, StepKnows, TypeOK, RequestShape,
    Object, Temp, StagedInDirs, NothingLeftBehind, At, Goto
<1>5. RemovalsSafe'
  BY InFlight, HasTemp, AloneWithTemp DEF IInv, Commit, RemovalsSafe,
    RemovableUnneeded, TypeOK, RequestShape, Temp, NamesGiven, RequestsKnow,
    StepKnows, At, Goto
<1>6. NothingLeftBehind'
  BY DEF IInv, Commit, NothingLeftBehind, TypeOK, RequestShape,
    RequestsKnow, StepKnows, NamesGiven, Temp, StagedInDirs, At, Goto
<1>7. CommittedBytesKept'
  BY DEF IInv, Commit, CommittedBytesKept, TypeOK, RequestShape,
    RequestsKnow, StepKnows, RemovalsSafe, RemovableUnneeded, NamesGiven,
    Object, Temp, At, Goto
<1>8. EmptyDirsExplained'
  BY DEF IInv, Commit, EmptyDirsExplained, Empty, Active, WillPrune, Object,
    Temp, TypeOK, RequestShape, RequestsKnow, StepKnows, At, Goto
<1> QED
  BY <1>1, <1>2, <1>3, <1>4, <1>5, <1>6, <1>7, <1>8 DEF IInv

LEMMA InsertFailsKeeps ==
  ASSUME IInv, NEW w \in Workers, NEW again \in BOOLEAN, InsertFails(w, again)
  PROVE  IInv'
<1>1. TypeOK'
  BY DEF IInv, InsertFails, TypeOK, RequestShape, Steps, Object, Temp, At,
    Cleanup
<1>2. NamesGiven'
  BY DEF IInv, InsertFails, NamesGiven, TypeOK, Temp, RequestsKnow,
    StepKnows, At, Cleanup
<1>3. StagedInDirs'
  BY DEF IInv, InsertFails, StagedInDirs, TypeOK, Object, Temp, At, Cleanup
<1>4. RequestsKnow'
  BY DEF IInv, InsertFails, RequestsKnow, StepKnows, TypeOK, RequestShape,
    Object, Temp, StagedInDirs, NothingLeftBehind, At, Cleanup
<1>5. RemovalsSafe'
  BY DEF IInv, InsertFails, RemovalsSafe, RemovableUnneeded, TypeOK,
    RequestShape, Temp, NamesGiven, RequestsKnow, StepKnows, At, Cleanup
<1>6. NothingLeftBehind'
  BY DEF IInv, InsertFails, NothingLeftBehind, TypeOK, RequestShape,
    RequestsKnow, StepKnows, NamesGiven, Temp, StagedInDirs, At, Cleanup
<1>7. CommittedBytesKept'
  BY DEF IInv, InsertFails, CommittedBytesKept, TypeOK, RequestShape,
    RequestsKnow, StepKnows, RemovalsSafe, RemovableUnneeded, NamesGiven,
    Object, Temp, At, Cleanup
<1>8. EmptyDirsExplained'
  BY DEF IInv, InsertFails, EmptyDirsExplained, Empty, Active, WillPrune,
    Object, Temp, TypeOK, RequestShape, RequestsKnow, StepKnows, At, Cleanup
<1> QED
  BY <1>1, <1>2, <1>3, <1>4, <1>5, <1>6, <1>7, <1>8 DEF IInv

LEMMA CommitUnknownKeeps ==
  ASSUME IInv, NEW w \in Workers, NEW again \in BOOLEAN, CommitUnknown(w, again)
  PROVE  IInv'
<1>1. TypeOK'
  <2>1. Temp(w) \in Temps
    BY HasTemp DEF CommitUnknown, At
  <2>2. req[w] \in RequestShape /\ req \in [Workers -> RequestShape]
    BY DEF IInv, TypeOK
  <2>3. [req[w] EXCEPT !.step = "discard", !.again = again] \in RequestShape
    BY <2>2 DEF RequestShape, Steps
  <2>4. req' \in [Workers -> RequestShape]
    BY <2>2, <2>3 DEF CommitUnknown, Cleanup
  <2> QED BY <2>1, <2>4 DEF IInv, TypeOK, CommitUnknown
<1>2. NamesGiven'
  BY DEF IInv, CommitUnknown, NamesGiven, TypeOK, Temp, RequestsKnow,
    StepKnows, At, Cleanup
<1>3. StagedInDirs'
  BY DEF IInv, CommitUnknown, StagedInDirs, TypeOK, Object, Temp, At,
    Cleanup
<1>4. RequestsKnow'
  BY DEF IInv, CommitUnknown, RequestsKnow, StepKnows, TypeOK, RequestShape,
    Object, Temp, StagedInDirs, NothingLeftBehind, At, Cleanup
<1>5. RemovalsSafe'
  BY DEF IInv, CommitUnknown, RemovalsSafe, RemovableUnneeded, TypeOK,
    RequestShape, Temp, NamesGiven, RequestsKnow, StepKnows, At, Cleanup
<1>6. NothingLeftBehind'
  BY DEF IInv, CommitUnknown, NothingLeftBehind, TypeOK, RequestShape,
    RequestsKnow, StepKnows, NamesGiven, Temp, StagedInDirs, At, Cleanup
<1>7. CommittedBytesKept'
  BY DEF IInv, CommitUnknown, CommittedBytesKept, TypeOK, RequestShape,
    RequestsKnow, StepKnows, RemovalsSafe, RemovableUnneeded, NamesGiven,
    Object, Temp, At, Cleanup
<1>8. EmptyDirsExplained'
  BY DEF IInv, CommitUnknown, EmptyDirsExplained, Empty, Active, WillPrune,
    Object, Temp, TypeOK, RequestShape, RequestsKnow, StepKnows, At, Cleanup
<1> QED
  BY <1>1, <1>2, <1>3, <1>4, <1>5, <1>6, <1>7, <1>8 DEF IInv

LEMMA PromoteKeeps ==
  ASSUME IInv, NEW w \in Workers, Promote(w)
  PROVE  IInv'
<1>1. TypeOK'
  BY InFlight, HasTemp DEF IInv, Promote, TypeOK, RequestShape, Steps,
    Object, Temp, At
<1>2. NamesGiven'
  BY DEF IInv, Promote, NamesGiven, TypeOK, Temp, RequestsKnow, StepKnows,
    At
<1>3. StagedInDirs'
  BY DEF IInv, Promote, StagedInDirs, TypeOK, Object, Temp, At
<1>4. RequestsKnow'
  BY DEF IInv, Promote, RequestsKnow, StepKnows, TypeOK, RequestShape,
    Object, Temp, StagedInDirs, NothingLeftBehind, At
<1>5. RemovalsSafe'
  BY DEF IInv, Promote, RemovalsSafe, RemovableUnneeded, TypeOK,
    RequestShape, Temp, NamesGiven, RequestsKnow, StepKnows, At
<1>6. NothingLeftBehind'
  BY DEF IInv, Promote, NothingLeftBehind, TypeOK, RequestShape,
    RequestsKnow, StepKnows, NamesGiven, Temp, StagedInDirs, At
<1>7. CommittedBytesKept'
  BY DEF IInv, Promote, CommittedBytesKept, TypeOK, RequestShape,
    RequestsKnow, StepKnows, RemovalsSafe, RemovableUnneeded, NamesGiven,
    Object, Temp, At
<1>8. EmptyDirsExplained'
  BY DEF IInv, Promote, EmptyDirsExplained, Empty, Active, WillPrune,
    Object, Temp, TypeOK, RequestShape, RequestsKnow, StepKnows, At
<1> QED
  BY <1>1, <1>2, <1>3, <1>4, <1>5, <1>6, <1>7, <1>8 DEF IInv

LEMMA PromoteFailsKeeps ==
  ASSUME IInv, NEW w \in Workers, PromoteFails(w)
  PROVE  IInv'
<1>1. TypeOK'
  BY InFlight, HasTemp DEF IInv, PromoteFails, TypeOK, RequestShape, Steps,
    Object, Temp, At, Respond, Idle
<1>2. NamesGiven'
  BY DEF IInv, PromoteFails, NamesGiven, TypeOK, Temp, RequestsKnow,
    StepKnows, At, Respond, Idle
<1>3. StagedInDirs'
  BY DEF IInv, PromoteFails, StagedInDirs, TypeOK, Object, Temp, At,
    Respond, Idle
<1>4. RequestsKnow'
  BY DEF IInv, PromoteFails, RequestsKnow, StepKnows, TypeOK, RequestShape,
    Object, Temp, StagedInDirs, NothingLeftBehind, At, Respond, Idle
<1>5. RemovalsSafe'
  BY DEF IInv, PromoteFails, RemovalsSafe, RemovableUnneeded, TypeOK,
    RequestShape, Temp, NamesGiven, RequestsKnow, StepKnows, At, Respond,
    Idle
<1>6. NothingLeftBehind'
  BY DEF IInv, PromoteFails, NothingLeftBehind, TypeOK, RequestShape,
    RequestsKnow, StepKnows, NamesGiven, Temp, StagedInDirs, At, Respond,
    Idle
<1>7. CommittedBytesKept'
  BY DEF IInv, PromoteFails, CommittedBytesKept, TypeOK, RequestShape,
    RequestsKnow, StepKnows, RemovalsSafe, RemovableUnneeded, NamesGiven,
    Object, Temp, At, Respond, Idle
<1>8. EmptyDirsExplained'
  BY DEF IInv, PromoteFails, EmptyDirsExplained, Empty, Active, WillPrune,
    Object, Temp, TypeOK, RequestShape, RequestsKnow, StepKnows, At,
    Respond, Idle
<1> QED
  BY <1>1, <1>2, <1>3, <1>4, <1>5, <1>6, <1>7, <1>8 DEF IInv

LEMMA DiscardKeeps ==
  ASSUME IInv, NEW w \in Workers, Discard(w)
  PROVE  IInv'
<1>1. TypeOK'
  BY DEF IInv, Discard, TypeOK, RequestShape, Steps, Object, Temp, At, Goto
<1>2. NamesGiven'
  BY DEF IInv, Discard, NamesGiven, TypeOK, Temp, RequestsKnow, StepKnows,
    At, Goto
<1>3. StagedInDirs'
  BY DEF IInv, Discard, StagedInDirs, TypeOK, Object, Temp, At, Goto
<1>4. RequestsKnow'
  BY DEF IInv, Discard, RequestsKnow, StepKnows, TypeOK, RequestShape,
    Object, Temp, StagedInDirs, NothingLeftBehind, At, Goto
<1>5. RemovalsSafe'
  BY DEF IInv, Discard, RemovalsSafe, RemovableUnneeded, TypeOK,
    RequestShape, Temp, NamesGiven, RequestsKnow, StepKnows, At, Goto
<1>6. NothingLeftBehind'
  BY DEF IInv, Discard, NothingLeftBehind, TypeOK, RequestShape,
    RequestsKnow, StepKnows, NamesGiven, Temp, StagedInDirs, At, Goto
<1>7. CommittedBytesKept'
  BY DEF IInv, Discard, CommittedBytesKept, TypeOK, RequestShape,
    RequestsKnow, StepKnows, RemovalsSafe, RemovableUnneeded, NamesGiven,
    Object, Temp, At, Goto
<1>8. EmptyDirsExplained'
  BY DEF IInv, Discard, EmptyDirsExplained, Empty, Active, WillPrune,
    Object, Temp, TypeOK, RequestShape, RequestsKnow, StepKnows, At, Goto
<1> QED
  BY <1>1, <1>2, <1>3, <1>4, <1>5, <1>6, <1>7, <1>8 DEF IInv

LEMMA DiscardFailsKeeps ==
  ASSUME IInv, NEW w \in Workers, DiscardFails(w)
  PROVE  IInv'
<1>1. TypeOK'
  <2>1. Temp(w) \in Temps
    BY HasTemp DEF DiscardFails, At
  <2>2. Idle \in RequestShape
    BY DEF Idle, RequestShape, Steps
  <2>3. req' \in [Workers -> RequestShape]
    <3>1. CASE req[w].again
      <4>1. req[w] \in RequestShape /\ req \in [Workers -> RequestShape]
        BY DEF IInv, TypeOK
      <4>2. [req[w] EXCEPT !.again = FALSE] \in RequestShape
        BY <4>1 DEF RequestShape
      <4> QED BY <3>1, <4>1, <4>2 DEF DiscardFails
    <3>2. CASE ~req[w].again
      BY <2>2, <3>2 DEF IInv, TypeOK, DiscardFails, Respond
    <3> QED BY <3>1, <3>2
  <2>4. left' \subseteq Temps
    BY <2>1 DEF IInv, TypeOK, DiscardFails
  <2> QED BY <2>3, <2>4 DEF IInv, TypeOK, DiscardFails
<1>2. NamesGiven'
  BY DEF IInv, DiscardFails, NamesGiven, TypeOK, Temp, RequestsKnow,
    StepKnows, At, Respond, Idle
<1>3. StagedInDirs'
  BY DEF IInv, DiscardFails, StagedInDirs, TypeOK, Object, Temp, At,
    Respond, Idle
<1>4. RequestsKnow'
  BY DEF IInv, DiscardFails, RequestsKnow, StepKnows, TypeOK, RequestShape,
    Object, Temp, StagedInDirs, NothingLeftBehind, At, Respond, Idle
<1>5. RemovalsSafe'
  BY DEF IInv, DiscardFails, RemovalsSafe, RemovableUnneeded, TypeOK,
    RequestShape, Temp, NamesGiven, RequestsKnow, StepKnows, At, Respond,
    Idle
<1>6. NothingLeftBehind'
  <2>1. CASE req[w].again
    <3>1. \A v \in Workers : Temp(v)' = Temp(v)
      BY <2>1 DEF IInv, TypeOK, RequestShape, DiscardFails, Temp
    <3>2. staged' = staged /\ left' = left
      BY <2>1 DEF DiscardFails
    <3> QED BY <3>1, <3>2 DEF IInv, NothingLeftBehind
  <2>2. CASE ~req[w].again
    <3>1. Temp(w) \in Temps
      BY HasTemp DEF DiscardFails, At
    <3>2. \A v \in Workers : Temp(v)' = IF v = w THEN None ELSE Temp(v)
      BY <2>2 DEF IInv, TypeOK, DiscardFails, Respond, Idle, Temp
    <3>3. staged' = staged /\ left' = left \cup {Temp(w)}
      BY <2>2 DEF DiscardFails
    <3> QED BY <3>1, <3>2, <3>3 DEF IInv, NothingLeftBehind
  <2> QED BY <2>1, <2>2
<1>7. CommittedBytesKept'
  BY DEF IInv, DiscardFails, CommittedBytesKept, TypeOK, RequestShape,
    RequestsKnow, StepKnows, RemovalsSafe, RemovableUnneeded, NamesGiven,
    Object, Temp, At, Respond, Idle
<1>8. EmptyDirsExplained'
  BY DEF IInv, DiscardFails, EmptyDirsExplained, Empty, Active, WillPrune,
    Object, Temp, TypeOK, RequestShape, RequestsKnow, StepKnows, At,
    Respond, Idle
<1> QED
  BY <1>1, <1>2, <1>3, <1>4, <1>5, <1>6, <1>7, <1>8 DEF IInv

LEMMA PruneKeeps ==
  ASSUME IInv, NEW w \in Workers, Prune(w)
  PROVE  IInv'
<1> PICK r \in RequestShape :
      /\ req' = [req EXCEPT ![w] = r]
      /\ \/ r = Idle
         \/ /\ r.step = "discard"
            /\ r.file = req[w].file
            /\ r.temp = req[w].temp
            /\ req[w].again
  BY AfterPruneGives DEF Prune
<1>1. TypeOK'
  BY InFlight DEF IInv, Prune, TypeOK, RequestShape, Steps, Object, Temp,
    At, Idle
<1>2. NamesGiven'
  BY DEF IInv, Prune, NamesGiven, TypeOK, Temp, RequestsKnow, StepKnows, At,
    Idle
<1>3. StagedInDirs'
  <2> SUFFICES ASSUME NEW t \in Temps, staged[t] # None
               PROVE  t \in used /\ staged[t] \in dirs'
    BY DEF StagedInDirs, Prune
  <2>1. t \in used /\ staged[t] \in dirs
    BY DEF IInv, StagedInDirs
  <2>2. CASE Empty(Object(w))
    BY <2>1, <2>2 DEF Empty, Prune
  <2>3. CASE ~Empty(Object(w))
    BY <2>1, <2>3 DEF Prune
  <2> QED BY <2>2, <2>3
<1>4. RequestsKnow'
  BY DEF IInv, Prune, RequestsKnow, StepKnows, TypeOK, RequestShape, Object,
    Temp, StagedInDirs, NothingLeftBehind, At, Idle
<1>5. RemovalsSafe'
  BY DEF IInv, Prune, RemovalsSafe, RemovableUnneeded, TypeOK, RequestShape,
    Temp, NamesGiven, RequestsKnow, StepKnows, At, Idle
<1>6. NothingLeftBehind'
  BY HasTemp DEF IInv, Prune, NothingLeftBehind, TypeOK, RequestShape,
    RequestsKnow, StepKnows, NamesGiven, Temp, StagedInDirs, At, Idle
<1>7. CommittedBytesKept'
  BY DEF IInv, Prune, CommittedBytesKept, TypeOK, RequestShape,
    RequestsKnow, StepKnows, RemovalsSafe, RemovableUnneeded, NamesGiven,
    Object, Temp, At, Idle
<1>8. EmptyDirsExplained'
  BY DEF IInv, Prune, EmptyDirsExplained, Empty, Active, WillPrune, Object,
    Temp, TypeOK, RequestShape, RequestsKnow, StepKnows, At, Idle
<1> QED
  BY <1>1, <1>2, <1>3, <1>4, <1>5, <1>6, <1>7, <1>8 DEF IInv

LEMMA PruneSkippedKeeps ==
  ASSUME IInv, NEW w \in Workers, PruneSkipped(w)
  PROVE  IInv'
<1> PICK r \in RequestShape :
      /\ req' = [req EXCEPT ![w] = r]
      /\ \/ r = Idle /\ ~req[w].again
         \/ /\ r.step = "discard"
            /\ r.file = req[w].file
            /\ r.temp = req[w].temp
            /\ req[w].again
  BY AfterPruneGives DEF PruneSkipped
<1>1. TypeOK'
  BY InFlight DEF IInv, PruneSkipped, TypeOK, RequestShape, Steps, Object,
    Temp, At, Idle
<1>2. NamesGiven'
  BY DEF IInv, PruneSkipped, NamesGiven, TypeOK, Temp, RequestsKnow,
    StepKnows, At, Idle
<1>3. StagedInDirs'
  BY DEF IInv, PruneSkipped, StagedInDirs, TypeOK, Object, Temp, At, Idle
<1>4. RequestsKnow'
  BY DEF IInv, PruneSkipped, RequestsKnow, StepKnows, TypeOK, RequestShape,
    Object, Temp, StagedInDirs, NothingLeftBehind, At, Idle
<1>5. RemovalsSafe'
  BY DEF IInv, PruneSkipped, RemovalsSafe, RemovableUnneeded, TypeOK,
    RequestShape, Temp, NamesGiven, RequestsKnow, StepKnows, At, Idle
<1>6. NothingLeftBehind'
  BY HasTemp DEF IInv, PruneSkipped, NothingLeftBehind, TypeOK, RequestShape,
    RequestsKnow, StepKnows, NamesGiven, Temp, StagedInDirs, At, Idle
<1>7. CommittedBytesKept'
  BY DEF IInv, PruneSkipped, CommittedBytesKept, TypeOK, RequestShape,
    RequestsKnow, StepKnows, RemovalsSafe, RemovableUnneeded, NamesGiven,
    Object, Temp, At, Idle
<1>8. EmptyDirsExplained'
  <2> SUFFICES ASSUME NEW o \in dirs, Empty(o), o \notin shells'
               PROVE  \E v \in Active' : Object(v)' = o /\ WillPrune(v)'
    BY DEF PruneSkipped, EmptyDirsExplained, Empty
  <2>1. o \notin shells
    BY DEF PruneSkipped
  <2>2. PICK v \in Active : Object(v) = o /\ WillPrune(v)
    BY <2>1 DEF IInv, EmptyDirsExplained
  <2>3. CASE v = w /\ req[w].again
    BY <2>2, <2>3 DEF IInv, Active, Object, WillPrune, TypeOK
  <2>4. CASE v = w /\ ~req[w].again
    BY <2>2, <2>4 DEF PruneSkipped
  <2>5. CASE v # w
    BY <2>2, <2>5 DEF IInv, Active, Object, WillPrune, TypeOK
  <2> QED
    BY <2>3, <2>4, <2>5
<1> QED
  BY <1>1, <1>2, <1>3, <1>4, <1>5, <1>6, <1>7, <1>8 DEF IInv

LEMMA PruneFailsKeeps ==
  ASSUME IInv, NEW w \in Workers, PruneFails(w)
  PROVE  IInv'
<1> PICK r \in RequestShape :
      /\ req' = [req EXCEPT ![w] = r]
      /\ \/ r = Idle
         \/ /\ r.step = "discard"
            /\ r.file = req[w].file
            /\ r.temp = req[w].temp
            /\ req[w].again
  BY AfterPruneGives DEF PruneFails
<1>1. TypeOK'
  BY InFlight DEF IInv, PruneFails, TypeOK, RequestShape, Steps, Object,
    Temp, At, Idle
<1>2. NamesGiven'
  BY DEF IInv, PruneFails, NamesGiven, TypeOK, Temp, RequestsKnow,
    StepKnows, At, Idle
<1>3. StagedInDirs'
  BY DEF IInv, PruneFails, StagedInDirs, TypeOK, Object, Temp, At, Idle
<1>4. RequestsKnow'
  BY DEF IInv, PruneFails, RequestsKnow, StepKnows, TypeOK, RequestShape,
    Object, Temp, StagedInDirs, NothingLeftBehind, At, Idle
<1>5. RemovalsSafe'
  BY DEF IInv, PruneFails, RemovalsSafe, RemovableUnneeded, TypeOK,
    RequestShape, Temp, NamesGiven, RequestsKnow, StepKnows, At, Idle
<1>6. NothingLeftBehind'
  BY HasTemp DEF IInv, PruneFails, NothingLeftBehind, TypeOK, RequestShape,
    RequestsKnow, StepKnows, NamesGiven, Temp, StagedInDirs, At, Idle
<1>7. CommittedBytesKept'
  BY DEF IInv, PruneFails, CommittedBytesKept, TypeOK, RequestShape,
    RequestsKnow, StepKnows, RemovalsSafe, RemovableUnneeded, NamesGiven,
    Object, Temp, At, Idle
<1>8. EmptyDirsExplained'
  BY DEF IInv, PruneFails, EmptyDirsExplained, Empty, Active, WillPrune,
    Object, Temp, TypeOK, RequestShape, RequestsKnow, StepKnows, At, Idle
<1> QED
  BY <1>1, <1>2, <1>3, <1>4, <1>5, <1>6, <1>7, <1>8 DEF IInv

LEMMA DeleteRowKeeps ==
  ASSUME IInv, NEW f \in Files, DeleteRow(f)
  PROVE  IInv'
<1>1. TypeOK'
  BY DEF IInv, DeleteRow, TypeOK, RequestShape, Steps, Object, Temp
<1>2. NamesGiven'
  BY DEF IInv, DeleteRow, NamesGiven, TypeOK, Temp, RequestsKnow, StepKnows
<1>3. StagedInDirs'
  BY DEF IInv, DeleteRow, StagedInDirs, TypeOK, Object, Temp
<1>4. RequestsKnow'
  BY DEF IInv, DeleteRow, RequestsKnow, StepKnows, TypeOK, RequestShape,
    Object, Temp, StagedInDirs, NothingLeftBehind
<1>5. RemovalsSafe'
  BY DEF IInv, DeleteRow, RemovalsSafe, RemovableUnneeded, TypeOK,
    RequestShape, Temp, NamesGiven, RequestsKnow, StepKnows
<1>6. NothingLeftBehind'
  BY DEF IInv, DeleteRow, NothingLeftBehind, TypeOK, RequestShape,
    RequestsKnow, StepKnows, NamesGiven, Temp, StagedInDirs
<1>7. CommittedBytesKept'
  BY DEF IInv, DeleteRow, CommittedBytesKept, TypeOK, RequestShape,
    RequestsKnow, StepKnows, RemovalsSafe, RemovableUnneeded, NamesGiven,
    Object, Temp
<1>8. EmptyDirsExplained'
  BY DEF IInv, DeleteRow, EmptyDirsExplained, Empty, Active, WillPrune,
    Object, Temp, TypeOK, RequestShape, RequestsKnow, StepKnows
<1> QED
  BY <1>1, <1>2, <1>3, <1>4, <1>5, <1>6, <1>7, <1>8 DEF IInv

LEMMA RestartKeeps ==
  ASSUME IInv, Restart
  PROVE  IInv'
<1>1. TypeOK'
  BY InFlight DEF IInv, Restart, TypeOK, RequestShape, Steps, Object, Temp,
    Active, Idle
<1>2. NamesGiven'
  BY DEF IInv, Restart, NamesGiven, TypeOK, Temp, RequestsKnow, StepKnows,
    Active, Idle
<1>3. StagedInDirs'
  BY DEF IInv, Restart, StagedInDirs, TypeOK, Object, Temp, Active, Idle
<1>4. RequestsKnow'
  BY DEF IInv, Restart, RequestsKnow, StepKnows, TypeOK, RequestShape,
    Object, Temp, StagedInDirs, NothingLeftBehind, Active, Idle
<1>5. RemovalsSafe'
  BY DEF IInv, Restart, RemovalsSafe, RemovableUnneeded, TypeOK,
    RequestShape, Temp, NamesGiven, RequestsKnow, StepKnows, Active, Idle
<1>6. NothingLeftBehind'
  BY DEF IInv, Restart, NothingLeftBehind, TypeOK, RequestShape,
    RequestsKnow, StepKnows, NamesGiven, Temp, StagedInDirs, Active, Idle
<1>7. CommittedBytesKept'
  BY DEF IInv, Restart, CommittedBytesKept, TypeOK, RequestShape,
    RequestsKnow, StepKnows, RemovalsSafe, RemovableUnneeded, NamesGiven,
    Object, Temp, Active, Idle
<1>8. EmptyDirsExplained'
  BY DEF IInv, Restart, EmptyDirsExplained, Empty, Active, WillPrune,
    Object, Temp, TypeOK, RequestShape, RequestsKnow, StepKnows, Idle
<1> QED
  BY <1>1, <1>2, <1>3, <1>4, <1>5, <1>6, <1>7, <1>8 DEF IInv

-----------------------------------------------------------------------------
(* The theorems. *)

LEMMA InitHolds == Init => IInv
  BY DEF Init, IInv, TypeOK, NamesGiven, StagedInDirs, RequestsKnow,
    RemovalsSafe, Idle, RequestShape, Steps, StepKnows, RemovableUnneeded,
    NothingLeftBehind, CommittedBytesKept, EmptyDirsExplained, Empty, Object,
    Temp

LEMMA StutterKeeps == IInv /\ UNCHANGED vars => IInv'
  BY DEF vars, IInv, TypeOK, NamesGiven, StagedInDirs, RequestsKnow,
    RemovalsSafe, StepKnows, RemovableUnneeded, NothingLeftBehind,
    CommittedBytesKept, EmptyDirsExplained, Empty, Object, Temp, Active,
    WillPrune

LEMMA NextKeeps ==
  ASSUME IInv, Next
  PROVE  IInv'
<1>1. ASSUME NEW w \in Workers, Receive(w)
      PROVE  IInv'
  BY <1>1, BeginKeeps, RefuseEarlyKeeps, MakeStagingDirKeeps, CreateTempKeeps,
    CreateTempFailsKeeps, FillTempKeeps, FillFailsKeeps, RefuseLateKeeps,
    EndOfPartsKeeps DEF Receive
<1>2. ASSUME NEW w \in Workers, CreateObjectFile(w)
      PROVE  IInv'
  BY <1>2, CommitKeeps, PromoteKeeps, PromoteFailsKeeps, InsertFailsKeeps,
    CommitUnknownKeeps DEF CreateObjectFile
<1>3. ASSUME NEW w \in Workers, CleanupStagedPath(w)
      PROVE  IInv'
  BY <1>3, DiscardKeeps, DiscardFailsKeeps, PruneSkippedKeeps,
     PruneKeeps, PruneFailsKeeps
    DEF CleanupStagedPath
<1> QED BY <1>1, <1>2, <1>3, DeleteRowKeeps, RestartKeeps DEF Next

\* The inductive invariant: what a request knows of its staged file at each of
\* its steps (handleUploadObjectFile, CreateObjectFile), and with it the three
\* properties below.
THEOREM Invariant == Spec => []IInv
<1>1. Init => IInv
  BY InitHolds
<1>2. IInv /\ [Next]_vars => IInv'
  BY NextKeeps, StutterKeeps
<1> QED BY <1>1, <1>2, PTL DEF Spec

\* The variables keep their types.
THEOREM TypeCorrect == Spec => []TypeOK
<1>1. IInv => TypeOK
  BY DEF IInv
<1> QED BY <1>1, Invariant, PTL

\* Every file under staging is in the hands of one request, or was left there
\* for a failed rename, a failed removal or a stop.
THEOREM NoneForgotten == Spec => []NothingLeftBehind
<1>1. IInv => NothingLeftBehind
  BY DEF IInv
<1> QED BY <1>1, Invariant, PTL

\* The two cleanups and the pruning never take the bytes of a committed upload,
\* unless its COMMIT took effect unseen.
THEOREM CommittedKept == Spec => []CommittedBytesKept
<1>1. IInv => CommittedBytesKept
  BY DEF IInv
<1> QED BY <1>1, Invariant, PTL

\* An empty staging directory goes with the last request that is concerned, but
\* for a failed Stage, a failed removal or a stop.
THEOREM DirsPruned == Spec => []EmptyDirsExplained
<1>1. IInv => EmptyDirsExplained
  BY DEF IInv
<1> QED BY <1>1, Invariant, PTL

=============================================================================
