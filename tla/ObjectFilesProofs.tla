------------------------- MODULE ObjectFilesProofs -------------------------
(* Theorems about ObjectFiles, for every value of its constants, with proofs. *)
EXTENDS ObjectFiles, TLAPS

USE MaxSizeAssumption, LockAssumption

-----------------------------------------------------------------------------
(* Type correctness. *)

\* The initial state has the types of TypeOK.
LEMMA TypeInit == Init => TypeOK
  BY DEF Init, TypeOK, Idle, Request, Steps, Files, Operations

\* Every step of a request keeps the types.
LEMMA TypeStep == TypeOK /\ [Next]_vars => TypeOK'
<1> SUFFICES ASSUME TypeOK, [Next]_vars PROVE TypeOK'
  OBVIOUS
<1> USE DEF TypeOK
<1>idle. Idle \in Request
  BY DEF Idle, Request, Steps, Files, Operations
<1>start. ASSUME NEW w \in Workers, NEW op \in Operations, NEW step \in Steps,
                 NEW files \in SUBSET Files, NEW size \in 0..MaxSize,
                 NEW paths \in SUBSET Files, Start(w, op, step, files, size, paths)
          PROVE  req' \in [Workers -> Request]
  BY <1>start DEF Start, Request
<1>goto. ASSUME NEW w \in Workers, NEW step \in Steps, Goto(w, step)
         PROVE  req' \in [Workers -> Request]
  BY <1>goto DEF Goto, Request
<1>edit. ASSUME NEW w \in Workers, NEW step \in Steps, NEW pre \in 0..MaxSize,
                NEW size \in 0..MaxSize,
                req' = [req EXCEPT ![w].step = step, ![w].pre = pre, ![w].size = size]
         PROVE  req' \in [Workers -> Request]
  <2>1. req' = [req EXCEPT ![w] = [@ EXCEPT !.step = step, !.pre = pre, !.size = size]]
    BY <1>edit
  <2>2. [req[w] EXCEPT !.step = step, !.pre = pre, !.size = size] \in Request
    BY DEF Request
  <2> QED
    BY <2>1, <2>2
<1>respond. ASSUME NEW w \in Workers, Respond(w)
            PROVE  req' \in [Workers -> Request]
  BY <1>respond, <1>idle DEF Respond
<1>unlock. ASSUME NEW w \in Workers
           PROVE  Unlock(w) \in [Files -> Workers \cup {Free}]
  BY DEF Unlock
<1>req. ASSUME NEW w \in Workers
        PROVE  /\ req[w].files \subseteq Files
               /\ req[w].pre \in 0..MaxSize
               /\ req[w].size \in 0..MaxSize
               /\ req[w].paths \subseteq Files
  BY DEF Request
<1>truncate. ASSUME NEW f \in Files, NEW size \in 0..MaxSize, TruncateBack(f, size)
             PROVE  bytes' \in [Files -> 0..MaxSize]
  BY <1>truncate DEF TruncateBack
<1>steps. /\ "insert" \in Steps /\ "promote" \in Steps /\ "write" \in Steps
          /\ "undo" \in Steps /\ "commit" \in Steps /\ "revert" \in Steps
          /\ "restore" \in Steps /\ "stat" \in Steps /\ "cascade" \in Steps
          /\ "unlink" \in Steps
          /\ "upload" \in Operations /\ "append" \in Operations
          /\ "open" \in Operations /\ "delete" \in Operations
  BY DEF Steps, Operations
<1>zero. /\ 0 \in 0..MaxSize
         /\ {} \in SUBSET Files
         /\ \A f \in Files : {f} \in SUBSET Files /\ row[f] \in 0..MaxSize
  OBVIOUS
<1>excused. ASSUME NEW op, NEW files \in SUBSET Files
            PROVE  excused \cup MeetsDelete(op, files) \subseteq Files
  BY DEF MeetsDelete
<1>1. CASE Restart
  BY <1>1, <1>idle DEF Restart
<1>2. ASSUME NEW o \in Objects, CreateObject(o) PROVE TypeOK'
  BY <1>2 DEF CreateObject
<1>3. ASSUME NEW w \in Workers, Handle(w) PROVE TypeOK'
  <2>1. CASE Stage(w)
    <3>1. PICK f \in Files, n \in Sizes :
            /\ Start(w, "upload", "insert", {f}, n, {})
            /\ UNCHANGED <<objects, row, lock, bytes, healthy>>
      BY <2>1 DEF Stage
    <3>2. req' \in [Workers -> Request]
      <4>1. n \in 0..MaxSize
        BY DEF Sizes
      <4> QED
        BY <3>1, <4>1, <1>start, <1>steps, <1>zero
    <3>3. excused' \subseteq Files
      BY <3>1, <1>excused, <1>zero DEF Start
    <3> QED
      BY <3>1, <3>2, <3>3
  <2>2. CASE LockRow(w)
    <3>1. PICK f \in Files :
            /\ lock' = [lock EXCEPT ![f] = w]
            /\ Start(w, "append", "write", {f}, 0, {})
            /\ UNCHANGED <<objects, row, bytes, healthy>>
      BY <2>2 DEF LockRow
    <3>2. req' \in [Workers -> Request]
      BY <3>1, <1>start, <1>steps, <1>zero
    <3>3. excused' \subseteq Files
      BY <3>1, <1>excused, <1>zero DEF Start
    <3> QED
      BY <3>1, <3>2, <3>3
  <2>3. CASE ReadRow(w)
    <3>1. PICK f \in Files :
            /\ Start(w, "open", "stat", {f}, row[f], {})
            /\ UNCHANGED <<objects, row, lock, bytes, healthy>>
      BY <2>3 DEF ReadRow
    <3>2. req' \in [Workers -> Request]
      BY <3>1, <1>start, <1>steps, <1>zero
    <3>3. excused' \subseteq Files
      BY <3>1, <1>excused, <1>zero DEF Start
    <3> QED
      BY <3>1, <3>2, <3>3
  <2>4. CASE DeleteRow(w)
    <3>1. PICK f \in Files :
            /\ row' = [row EXCEPT ![f] = 0]
            /\ \/ Start(w, "delete", "unlink", {f}, 0, {f})
               \/ UNCHANGED req /\ excused' = excused \cup {f}
            /\ UNCHANGED <<objects, lock, bytes, healthy>>
      BY <2>4 DEF DeleteRow
    <3>2. req' \in [Workers -> Request]
      <4>1. CASE Start(w, "delete", "unlink", {f}, 0, {f})
        BY <4>1, <1>start, <1>steps, <1>zero
      <4>2. CASE UNCHANGED req
        BY <4>2
      <4> QED
        BY <3>1, <4>1, <4>2
    <3>3. excused' \subseteq Files
      BY <3>1, <1>excused, <1>zero DEF Start
    <3> QED
      BY <3>1, <3>2, <3>3
  <2>5. CASE DeleteFileRows(w)
    <3>1. PICK os \in SUBSET objects, paths \in SUBSET Files :
            /\ lock' = [f \in Files |-> IF f \in paths THEN w ELSE lock[f]]
            /\ Start(w, "delete", "cascade", FilesOf(os), 0, paths)
            /\ UNCHANGED <<objects, row, bytes, healthy>>
      BY <2>5 DEF DeleteFileRows, FilesOf, Files
    <3>2. FilesOf(os) \subseteq Files
      BY DEF FilesOf, Files
    <3>3. req' \in [Workers -> Request]
      BY <3>1, <3>2, <1>start, <1>steps, <1>zero
    <3>4. excused' \subseteq Files
      BY <3>1, <3>2, <1>excused DEF Start
    <3> QED
      BY <3>1, <3>3, <3>4
  <2>6. CASE DeleteObjects(w)
    <3>1. req' \in [Workers -> Request]
      BY <2>6, <1>goto, <1>respond, <1>steps DEF DeleteObjects
    <3>2. excused' \subseteq Files
      BY <2>6, <1>req DEF DeleteObjects
    <3>3. objects' \subseteq Objects /\ row' \in [Files -> 0..MaxSize]
      BY <2>6, <1>zero DEF DeleteObjects
    <3> QED
      BY <2>6, <3>1, <3>2, <3>3, <1>unlock DEF DeleteObjects
  <2>7. CASE Abandon(w)
    BY <2>7, <1>respond, <1>unlock DEF Abandon
  <2>8. ASSUME NEW f \in Files, HandleFile(w, f) PROVE TypeOK'
    <3>1. CASE InsertRow(w, f)
      BY <3>1, <1>req, <1>goto, <1>respond, <1>steps DEF InsertRow
    <3>2. CASE InsertRowFails(w, f)
      BY <3>2, <1>req, <1>respond DEF InsertRowFails
    <3>3. CASE Promote(w, f)
      BY <3>3, <1>req, <1>respond DEF Promote
    <3>4. CASE PromoteFails(w, f)
      BY <3>4, <1>respond DEF PromoteFails
    <3>5. CASE Append(w, f)
      <4>1. PICK n \in Sizes :
              /\ bytes[f] + n <= MaxSize
              /\ bytes' = [bytes EXCEPT ![f] = @ + n]
              /\ req' = [req EXCEPT ![w].step = "commit", ![w].pre = bytes[f],
                                    ![w].size = bytes[f] + n]
        BY <3>5 DEF Append
      <4>2. bytes[f] + n \in 0..MaxSize /\ bytes[f] \in 0..MaxSize
        BY <4>1 DEF Sizes
      <4>3. req' \in [Workers -> Request]
        BY <4>1, <4>2, <1>edit, <1>steps
      <4> QED
        BY <3>5, <4>1, <4>2, <4>3 DEF Append
    <3>6. CASE AppendStops(w, f)
      <4>1. PICK n \in 0..MaxSize :
              /\ bytes[f] + n <= MaxSize
              /\ bytes' = [bytes EXCEPT ![f] = @ + n]
        BY <3>6 DEF AppendStops
      <4>2. req' = [req EXCEPT ![w].step = "undo", ![w].pre = bytes[f],
                               ![w].size = req[w].size]
        BY <3>6 DEF AppendStops, Request
      <4>3. req' \in [Workers -> Request]
        BY <4>2, <1>req, <1>edit, <1>steps
      <4> QED
        BY <3>6, <4>1, <4>3 DEF AppendStops
    <3>7. CASE Undo(w, f)
      BY <3>7, <1>req, <1>truncate, <1>unlock, <1>respond DEF Undo
    <3>8. CASE UndoFails(w, f)
      BY <3>8, <1>unlock, <1>respond DEF UndoFails
    <3>9. CASE CommitAppend(w, f)
      BY <3>9, <1>req, <1>unlock, <1>respond DEF CommitAppend
    <3>10. CASE UpdateFails(w, f)
      BY <3>10, <1>goto, <1>steps DEF UpdateFails
    <3>11. CASE Revert(w, f)
      BY <3>11, <1>req, <1>truncate, <1>unlock, <1>respond DEF Revert
    <3>12. CASE CommitAppendFails(w, f)
      BY <3>12, <1>req, <1>unlock, <1>goto, <1>steps DEF CommitAppendFails
    <3>13. CASE Restore(w, f)
      BY <3>13, <1>req, <1>truncate, <1>respond DEF Restore
    <3>14. CASE OpenBytes(w, f)
      BY <3>14, <1>respond DEF OpenBytes
    <3>15. CASE Unlink(w, f)
      <4>1. req' \in [Workers -> Request]
        <5>1. CASE req[w].paths = {f}
          BY <3>15, <5>1, <1>respond DEF Unlink
        <5>2. CASE req[w].paths # {f}
          <6>1. PICK ok \in BOOLEAN :
                  req' = [req EXCEPT ![w].paths = @ \ {f}, ![w].failed = @ \/ ~ok]
            BY <3>15, <5>2 DEF Unlink
          <6> DEFINE r == [req[w] EXCEPT !.paths = @ \ {f}, !.failed = @ \/ ~ok]
          <6>2. req' = [req EXCEPT ![w] = r]
            BY <6>1
          <6>3. r \in Request
            BY DEF Request
          <6> HIDE DEF r
          <6> QED
            BY <6>2, <6>3
        <5> QED
          BY <5>1, <5>2
      <4>2. bytes' \in [Files -> 0..MaxSize]
        BY <3>15, <1>zero DEF Unlink
      <4>3. healthy' \in BOOLEAN
        <5>1. \/ healthy' = healthy
              \/ \E ok \in BOOLEAN : healthy' = (healthy /\ ok /\ ~req[w].failed)
          BY <3>15 DEF Unlink
        <5> QED
          BY <5>1
      <4> QED
        BY <3>15, <4>1, <4>2, <4>3 DEF Unlink
    <3> QED
      BY <2>8, <3>1, <3>2, <3>3, <3>4, <3>5, <3>6, <3>7, <3>8, <3>9, <3>10, <3>11,
         <3>12, <3>13, <3>14, <3>15 DEF HandleFile
  <2> QED
    BY <1>3, <2>1, <2>2, <2>3, <2>4, <2>5, <2>6, <2>7, <2>8 DEF Handle
<1>4. CASE UNCHANGED vars
  BY <1>4 DEF vars
<1> QED
  BY <1>1, <1>2, <1>3, <1>4 DEF Next

\* In every behaviour the variables have the types of TypeOK.
THEOREM TypeCorrect == Spec => []TypeOK
<1>1. Init => TypeOK
  BY TypeInit
<1>2. TypeOK /\ [Next]_vars => TypeOK'
  BY TypeStep
<1> QED
  BY <1>1, <1>2, PTL DEF Spec

-----------------------------------------------------------------------------
(* The discipline of the row locks. *)

\* Every step keeps LockDiscipline: a request ends its transaction and the work
\* under the lock in one step, or takes a lock that is free.
LEMMA LockStep == TypeOK /\ LockDiscipline /\ [Next]_vars => LockDiscipline'
<1> SUFFICES ASSUME TypeOK, LockDiscipline, [Next]_vars PROVE LockDiscipline'
  OBVIOUS
<1> USE DEF TypeOK
<1>release. ASSUME NEW w \in Workers, NEW r, req' = [req EXCEPT ![w] = r],
                   r.step \in {"idle", "restore", "unlink"}, lock' = Unlock(w)
            PROVE  LockDiscipline'
  <2> SUFFICES ASSUME NEW f \in Files, NEW v \in Workers
               PROVE  lock'[f] = v <=> Holds(v, f)'
    BY DEF LockDiscipline
  <2>1. CASE v = w
    BY <1>release, <2>1 DEF Unlock, Holds
  <2>2. CASE v # w
    <3>1. Holds(v, f)' <=> Holds(v, f)
      BY <1>release, <2>2 DEF Holds
    <3>2. lock'[f] = v <=> lock[f] = v
      BY <1>release, <2>2 DEF Unlock
    <3> QED
      BY <3>1, <3>2 DEF LockDiscipline
  <2> QED
    BY <2>1, <2>2
<1>keep. ASSUME NEW w \in Workers, NEW r, req' = [req EXCEPT ![w] = r],
                lock' = lock,
                \A f \in Files : Holds(w, f)' <=> Holds(w, f)
         PROVE  LockDiscipline'
  <2> SUFFICES ASSUME NEW f \in Files, NEW v \in Workers
               PROVE  Holds(v, f)' <=> Holds(v, f)
    BY <1>keep DEF LockDiscipline
  <2>1. CASE v = w
    BY <1>keep, <2>1
  <2>2. CASE v # w
    BY <1>keep, <2>2 DEF Holds
  <2> QED
    BY <2>1, <2>2
<1>away. ASSUME NEW w \in Workers, NEW r, req' = [req EXCEPT ![w] = r],
                lock' = lock,
                req[w].step \in {"idle", "insert", "promote", "restore", "stat", "unlink"},
                r.step \in {"idle", "insert", "promote", "restore", "stat", "unlink"}
         PROVE  LockDiscipline'
  <2>1. \A f \in Files : ~Holds(w, f) /\ ~Holds(w, f)'
    BY <1>away DEF Holds
  <2> QED
    BY <1>away, <1>keep, <2>1
<1>begin. ASSUME NEW w \in Workers, NEW op, NEW files, NEW size, NEW paths,
                 NEW step \in {"insert", "stat", "unlink"}, req[w] = Idle,
                 lock' = lock, Start(w, op, step, files, size, paths)
          PROVE  LockDiscipline'
  <2> DEFINE r == [op |-> op, step |-> step, files |-> files, pre |-> 0,
                   size |-> size, paths |-> paths, failed |-> FALSE]
  <2>1. req' = [req EXCEPT ![w] = r]
    BY <1>begin DEF Start
  <2>2. r.step = step /\ req[w].step = "idle"
    BY <1>begin DEF Idle
  <2> HIDE DEF r
  <2> QED
    BY <1>begin, <2>1, <2>2, <1>away
<1>edit. ASSUME NEW w \in Workers, NEW step, NEW pre, NEW size,
                req' = [req EXCEPT ![w].step = step, ![w].pre = pre, ![w].size = size]
         PROVE  \E r : /\ req' = [req EXCEPT ![w] = r]
                       /\ r.step = step /\ r.files = req[w].files
  <2> DEFINE r == [req[w] EXCEPT !.step = step, !.pre = pre, !.size = size]
  <2>1. req' = [req EXCEPT ![w] = r]
    BY <1>edit
  <2>2. r.step = step /\ r.files = req[w].files
    BY DEF Request
  <2> QED
    BY <2>1, <2>2
<1>goto. ASSUME NEW w \in Workers, NEW step, Goto(w, step)
         PROVE  \E r : /\ req' = [req EXCEPT ![w] = r]
                       /\ r.step = step /\ r.files = req[w].files
  <2> DEFINE r == [req[w] EXCEPT !.step = step]
  <2>1. req' = [req EXCEPT ![w] = r]
    BY <1>goto DEF Goto
  <2>2. r.step = step /\ r.files = req[w].files
    BY DEF Request
  <2> QED
    BY <2>1, <2>2
<1>unheld. ASSUME NEW w \in Workers, req[w] = Idle
           PROVE  \A g \in Files : lock[g] # w
  BY <1>unheld DEF LockDiscipline, Holds, Idle
<1>1. CASE Restart
  BY <1>1, LockAssumption DEF Restart, LockDiscipline, Holds, Idle
<1>2. ASSUME NEW o \in Objects, CreateObject(o) PROVE LockDiscipline'
  BY <1>2 DEF CreateObject, LockDiscipline, Holds
<1>3. ASSUME NEW w \in Workers, Handle(w) PROVE LockDiscipline'
  <2>1. CASE Stage(w)
    BY <2>1, <1>begin DEF Stage, MayStart
  <2>2. CASE LockRow(w)
    <3>1. PICK f \in Files :
            /\ req[w] = Idle /\ lock[f] = Free
            /\ lock' = [lock EXCEPT ![f] = w]
            /\ Start(w, "append", "write", {f}, 0, {})
      BY <2>2 DEF LockRow, MayStart
    <3> SUFFICES ASSUME NEW g \in Files, NEW v \in Workers
                 PROVE  lock'[g] = v <=> Holds(v, g)'
      BY DEF LockDiscipline
    <3>2. CASE v = w
      BY <3>1, <3>2, <1>unheld DEF Start, Holds
    <3>3. CASE v # w
      BY <3>1, <3>3 DEF Start, Holds, LockDiscipline
    <3> QED
      BY <3>2, <3>3
  <2>3. CASE ReadRow(w)
    BY <2>3, <1>begin DEF ReadRow, MayStart
  <2>4. CASE DeleteRow(w)
    <3>1. lock' = lock /\ (UNCHANGED req \/ req[w] = Idle)
      BY <2>4 DEF DeleteRow, MayStart
    <3>2. CASE UNCHANGED req
      BY <3>1, <3>2 DEF LockDiscipline, Holds
    <3>3. CASE ~UNCHANGED req
      <4>1. PICK f \in Files : Start(w, "delete", "unlink", {f}, 0, {f})
        BY <2>4, <3>3 DEF DeleteRow
      <4> QED
        BY <3>1, <3>3, <4>1, <1>begin
    <3> QED
      BY <3>2, <3>3
  <2>5. CASE DeleteFileRows(w)
    <3>1. PICK os \in SUBSET objects, paths \in SUBSET Files :
            /\ req[w] = Idle
            /\ \A f \in paths : lock[f] = Free
            /\ lock' = [f \in Files |-> IF f \in paths THEN w ELSE lock[f]]
            /\ Start(w, "delete", "cascade", FilesOf(os), 0, paths)
      BY <2>5 DEF DeleteFileRows, MayStart, FilesOf, Files
    <3> SUFFICES ASSUME NEW g \in Files, NEW v \in Workers
                 PROVE  lock'[g] = v <=> Holds(v, g)'
      BY DEF LockDiscipline
    <3>2. CASE v = w
      BY <3>1, <3>2, <1>unheld DEF Start, Holds
    <3>3. CASE v # w
      BY <3>1, <3>3 DEF Start, Holds, LockDiscipline
    <3> QED
      BY <3>2, <3>3
  <2>6. CASE DeleteObjects(w)
    <3>1. lock' = Unlock(w) /\ (Goto(w, "unlink") \/ Respond(w))
      BY <2>6 DEF DeleteObjects
    <3>2. PICK r : req' = [req EXCEPT ![w] = r] /\ r.step \in {"idle", "unlink"}
      BY <3>1 DEF Goto, Respond, Idle, Request
    <3> QED
      BY <3>1, <3>2, <1>release
  <2>7. CASE Abandon(w)
    BY <2>7, <1>release DEF Abandon, Respond, Idle
  <2>8. ASSUME NEW f \in Files, HandleFile(w, f) PROVE LockDiscipline'
    <3>1. CASE InsertRow(w, f)
      <4>1. lock' = lock /\ req[w].step = "insert" /\ (Goto(w, "promote") \/ Respond(w))
        BY <3>1 DEF InsertRow, At
      <4>2. PICK r : req' = [req EXCEPT ![w] = r] /\ r.step \in {"idle", "promote"}
        BY <4>1 DEF Goto, Respond, Idle, Request
      <4> QED
        BY <4>1, <4>2, <1>away
    <3>2. CASE InsertRowFails(w, f)
      BY <3>2, <1>away DEF InsertRowFails, At, Respond, Idle
    <3>3. CASE Promote(w, f)
      BY <3>3, <1>away DEF Promote, At, Respond, Idle
    <3>4. CASE PromoteFails(w, f)
      BY <3>4, <1>away DEF PromoteFails, At, Respond, Idle
    <3>5. CASE Append(w, f)
      <4>1. PICK r : /\ req' = [req EXCEPT ![w] = r]
                     /\ r.step = "commit" /\ r.files = req[w].files
        <5>1. PICK n \in Sizes :
                req' = [req EXCEPT ![w].step = "commit", ![w].pre = bytes[f],
                                   ![w].size = bytes[f] + n]
          BY <3>5 DEF Append
        <5> QED
          BY <5>1, <1>edit
      <4>2. \A g \in Files : Holds(w, g)' <=> Holds(w, g)
        BY <3>5, <4>1 DEF Append, At, Holds
      <4> QED
        BY <3>5, <4>1, <4>2, <1>keep DEF Append
    <3>6. CASE AppendStops(w, f)
      <4>1. PICK r : /\ req' = [req EXCEPT ![w] = r]
                     /\ r.step = "undo" /\ r.files = req[w].files
        <5>1. req' = [req EXCEPT ![w].step = "undo", ![w].pre = bytes[f],
                                 ![w].size = req[w].size]
          BY <3>6 DEF AppendStops, Request
        <5> QED
          BY <5>1, <1>edit
      <4>2. \A g \in Files : Holds(w, g)' <=> Holds(w, g)
        BY <3>6, <4>1 DEF AppendStops, At, Holds
      <4> QED
        BY <3>6, <4>1, <4>2, <1>keep DEF AppendStops
    <3>7. CASE Undo(w, f)
      BY <3>7, <1>release DEF Undo, Respond, Idle
    <3>8. CASE UndoFails(w, f)
      BY <3>8, <1>release DEF UndoFails, Respond, Idle
    <3>9. CASE CommitAppend(w, f)
      BY <3>9, <1>release DEF CommitAppend, Respond, Idle
    <3>10. CASE UpdateFails(w, f)
      <4>1. PICK r : /\ req' = [req EXCEPT ![w] = r]
                     /\ r.step = "revert" /\ r.files = req[w].files
        BY <3>10, <1>goto DEF UpdateFails
      <4>2. \A g \in Files : Holds(w, g)' <=> Holds(w, g)
        BY <3>10, <4>1 DEF UpdateFails, At, Holds
      <4> QED
        BY <3>10, <4>1, <4>2, <1>keep DEF UpdateFails
    <3>11. CASE Revert(w, f)
      BY <3>11, <1>release DEF Revert, Respond, Idle
    <3>12. CASE CommitAppendFails(w, f)
      <4>1. PICK r : req' = [req EXCEPT ![w] = r] /\ r.step = "restore"
        BY <3>12, <1>goto DEF CommitAppendFails
      <4> QED
        BY <3>12, <4>1, <1>release DEF CommitAppendFails
    <3>13. CASE Restore(w, f)
      BY <3>13, <1>away DEF Restore, At, Respond, Idle
    <3>14. CASE OpenBytes(w, f)
      BY <3>14, <1>away DEF OpenBytes, At, Respond, Idle
    <3>15. CASE Unlink(w, f)
      <4>1. PICK r : req' = [req EXCEPT ![w] = r] /\ r.step \in {"idle", "unlink"}
        BY <3>15 DEF Unlink, Respond, Idle, Request
      <4> QED
        BY <3>15, <4>1, <1>away DEF Unlink
    <3> QED
      BY <2>8, <3>1, <3>2, <3>3, <3>4, <3>5, <3>6, <3>7, <3>8, <3>9, <3>10, <3>11,
         <3>12, <3>13, <3>14, <3>15 DEF HandleFile
  <2> QED
    BY <1>3, <2>1, <2>2, <2>3, <2>4, <2>5, <2>6, <2>7, <2>8 DEF Handle
<1>4. CASE UNCHANGED vars
  BY <1>4 DEF vars, LockDiscipline, Holds
<1> QED
  BY <1>1, <1>2, <1>3, <1>4 DEF Next

\* A row lock is held by the request that works under it and by no other, whatever
\* fails: the transaction of AppendObjectFile and of a delete always ends.
THEOREM LocksDisciplined == Spec => []LockDiscipline
<1>1. Init => LockDiscipline
  BY LockAssumption DEF Init, LockDiscipline, Holds, Idle
<1>2. TypeOK /\ LockDiscipline /\ [Next]_vars => LockDiscipline'
  BY LockStep
<1> QED
  BY <1>1, <1>2, TypeCorrect, PTL DEF Spec
-----------------------------------------------------------------------------
(* Rows and bytes, when clients send deletes alone and nothing fails.  Every    *)
(* step touches the row and the bytes of at most one file, which no other       *)
(* request is repairing, except the commit of a delete of whole objects.        *)

\* The part of IInv that the steps of requests maintain together.
RowsAndBytes ==
  RequestShape /\ DeletesAlone /\ StepKnows /\ OneRepairs /\ InStep

\* A step of w that changes the row or the bytes of f alone, while no other
\* request repairs f, keeps RowsAndBytes if w knows what it has to afterwards.
LEMMA OneFileStep ==
  ASSUME TypeOK, RowsAndBytes, NEW w \in Workers, NEW f \in Files, NEW r,
         req' = [req EXCEPT ![w] = r],
         Shape(r),
         \A v \in Workers \ {w} :
           /\ r.op = "delete" \/ req[v].op = "delete" => r.files \cap req[v].files = {}
           /\ req[v].op = "delete" => f \notin req[v].files
           /\ ~Repairing(v, f),
         \A g \in Files \ {f} :
           /\ row'[g] = row[g] /\ bytes'[g] = bytes[g]
           /\ Repairing(w, g)' <=> Repairing(w, g),
         \A g \in Files : Knows(w, g)',
         row'[f] = bytes'[f] \/ Repairing(w, f)'
  PROVE  RowsAndBytes'
<1> USE DEF TypeOK, RowsAndBytes
<1>1. req'[w] = r /\ \A v \in Workers \ {w} : req'[v] = req[v]
  OBVIOUS
<1>2. RequestShape'
  BY <1>1 DEF RequestShape, Shape
<1>3. DeletesAlone'
  BY <1>1 DEF DeletesAlone
<1>4. \A v \in Workers \ {w}, g \in Files : Repairing(v, g)' <=> Repairing(v, g)
  BY <1>1 DEF Repairing
<1>5. ASSUME NEW v \in Workers \ {w}, NEW g \in Files PROVE Knows(v, g)'
  <2>1. Knows(v, g) /\ Shape(req[v])
    BY DEF StepKnows, RequestShape
  <2>2. CASE g = f
    BY <1>1, <2>1, <2>2 DEF Knows, At, Repairing, Shape
  <2>3. CASE g # f
    BY <1>1, <2>1, <2>3 DEF Knows, At
  <2> QED
    BY <2>2, <2>3
<1>6. StepKnows'
  BY <1>5 DEF StepKnows
<1>7. OneRepairs'
  BY <1>4 DEF OneRepairs
<1>8. InStep'
  <2> SUFFICES ASSUME NEW g \in Files
               PROVE  row'[g] = bytes'[g] \/ \E v \in Workers : Repairing(v, g)'
    BY DEF InStep
  <2>1. CASE g = f
    BY <2>1
  <2>2. CASE g # f
    BY <1>4, <2>2 DEF InStep
  <2> QED
    BY <2>1, <2>2
<1> QED
  BY <1>2, <1>3, <1>6, <1>7, <1>8

\* A step that changes neither rows nor bytes, of a request that repairs no file.
LEMMA QuietStep ==
  ASSUME TypeOK, RowsAndBytes, NEW w \in Workers, NEW r,
         req' = [req EXCEPT ![w] = r],
         Shape(r),
         \A v \in Workers \ {w} :
           r.op = "delete" \/ req[v].op = "delete" => r.files \cap req[v].files = {},
         row' = row, bytes' = bytes,
         \A g \in Files : ~Repairing(w, g) /\ ~Repairing(w, g)' /\ Knows(w, g)'
  PROVE  RowsAndBytes'
<1> USE DEF TypeOK, RowsAndBytes
<1>1. req'[w] = r /\ \A v \in Workers \ {w} : req'[v] = req[v]
  OBVIOUS
<1>2. RequestShape'
  BY <1>1 DEF RequestShape, Shape
<1>3. DeletesAlone'
  BY <1>1 DEF DeletesAlone
<1>4. \A v \in Workers, g \in Files : Repairing(v, g)' <=> Repairing(v, g)
  BY <1>1 DEF Repairing
<1>5. StepKnows'
  BY <1>1 DEF StepKnows, Knows, At
<1>6. OneRepairs' /\ InStep'
  BY <1>4 DEF OneRepairs, InStep
<1> QED
  BY <1>2, <1>3, <1>5, <1>6
\* A new request is alone on its files if it or another there is a delete.
LEMMA StartsApart ==
  ASSUME "delete" \in Alone, NEW w \in Workers, NEW op, NEW files, MayStart(w, op, files),
         NEW v \in Workers, op = "delete" \/ req[v].op = "delete"
  PROVE  files \cap req[v].files = {}
  BY DEF MayStart

\* Every step keeps RowsAndBytes, under the two conditions.
LEMMA RowsStep ==
  ASSUME "delete" \in Alone, Faults = {},
         TypeOK, LockDiscipline, RowsAndBytes, [Next]_vars
  PROVE  RowsAndBytes'
<1> USE DEF TypeOK
<1>idle. /\ Shape(Idle) /\ Idle.op # "delete" /\ Idle.files = {} /\ Idle.step = "idle"
  BY DEF Shape, Idle
<1>apart. ASSUME NEW w \in Workers, NEW v \in Workers \ {w}
          PROVE  /\ req[w].op = "delete" => req[w].files \cap req[v].files = {}
                 /\ req[v].op = "delete" => req[w].files \cap req[v].files = {}
  BY DEF RowsAndBytes, DeletesAlone
<1>shape. ASSUME NEW w \in Workers
          PROVE  /\ Shape(req[w])
                 /\ \A f \in Files : Knows(w, f) /\ (Repairing(w, f) => f \in req[w].files)
  BY DEF RowsAndBytes, RequestShape, StepKnows, Repairing, Shape
<1>start. ASSUME NEW w \in Workers, NEW op, NEW step \in {"insert", "write", "stat"},
                 NEW files, NEW size, NEW paths, MayStart(w, op, files),
                 Start(w, op, step, files, size, paths),
                 step = "insert" => size # 0, row' = row, bytes' = bytes
          PROVE  RowsAndBytes'
  <2> DEFINE r == [op |-> op, step |-> step, files |-> files, pre |-> 0,
                   size |-> size, paths |-> paths, failed |-> FALSE]
  <2>1. req' = [req EXCEPT ![w] = r]
    BY <1>start DEF Start
  <2>2. Shape(r)
    BY <1>start DEF Shape
  <2>3. \A v \in Workers \ {w} :
          r.op = "delete" \/ req[v].op = "delete" => r.files \cap req[v].files = {}
    BY <1>start, StartsApart
  <2>4. \A g \in Files : ~Repairing(w, g) /\ ~Repairing(w, g)' /\ Knows(w, g)'
    BY <1>start, <1>idle, <2>1 DEF MayStart, Repairing, Knows, At
  <2> HIDE DEF r
  <2> QED
    BY <1>start, <2>1, <2>2, <2>3, <2>4, QuietStep
<1>leave. ASSUME NEW w \in Workers, Respond(w), row' = row, bytes' = bytes,
                 req[w].step \in {"insert", "write", "stat", "cascade"}
          PROVE  RowsAndBytes'
  <2>1. req' = [req EXCEPT ![w] = Idle]
    BY <1>leave DEF Respond
  <2>2. \A g \in Files : ~Repairing(w, g) /\ ~Repairing(w, g)' /\ Knows(w, g)'
    BY <1>leave, <1>idle, <2>1 DEF Repairing, Knows, At
  <2> QED
    BY <1>leave, <1>idle, <2>1, <2>2, QuietStep
\* A request that repairs f, or takes f up when none does, goes on to r.
<1>go. ASSUME NEW w \in Workers, NEW f \in Files, NEW r,
              req' = [req EXCEPT ![w] = r], Shape(r),
              r = Idle \/ (r.op = req[w].op /\ r.files = req[w].files),
              f \in req[w].files,
              \A v \in Workers \ {w} : ~Repairing(v, f),
              \A g \in Files \ {f} :
                /\ row'[g] = row[g] /\ bytes'[g] = bytes[g]
                /\ Repairing(w, g)' <=> Repairing(w, g),
              \A g \in Files : Knows(w, g)',
              row'[f] = bytes'[f] \/ Repairing(w, f)'
       PROVE  RowsAndBytes'
  <2>1. \A v \in Workers \ {w} :
          /\ r.op = "delete" \/ req[v].op = "delete" => r.files \cap req[v].files = {}
          /\ req[v].op = "delete" => f \notin req[v].files
    BY <1>go, <1>idle, <1>apart
  <2> QED
    BY <1>go, <2>1, OneFileStep
<1>one. ASSUME NEW w \in Workers, NEW f \in Files, Repairing(w, f)
        PROVE  \A v \in Workers \ {w} : ~Repairing(v, f)
  BY <1>one DEF RowsAndBytes, OneRepairs
\* A request that works on f alone and ends with row and bytes in step.
<1>done. ASSUME NEW w \in Workers, NEW f \in Files, Respond(w),
                req[w].files = {f}, Repairing(w, f), row'[f] = bytes'[f],
                \A g \in Files \ {f} : row'[g] = row[g] /\ bytes'[g] = bytes[g]
         PROVE  RowsAndBytes'
  <2>1. req' = [req EXCEPT ![w] = Idle]
    BY <1>done DEF Respond
  <2>2. \A g \in Files : Knows(w, g)' /\ ~Repairing(w, g)'
    BY <1>idle, <2>1 DEF Knows, At, Repairing
  <2>3. \A g \in Files \ {f} : ~Repairing(w, g)
    BY <1>done, <1>shape
  <2> QED
    BY <1>done, <1>idle, <1>one, <2>1, <2>2, <2>3, <1>go
<1>same. ASSUME row' = row, bytes' = bytes, req' = req PROVE RowsAndBytes'
  <2>1. RequestShape' /\ DeletesAlone'
    BY <1>same DEF RowsAndBytes, RequestShape, DeletesAlone, Shape
  <2>2. StepKnows'
    BY <1>same DEF RowsAndBytes, StepKnows, Knows, At
  <2>3. \A w \in Workers, f \in Files : Repairing(w, f)' <=> Repairing(w, f)
    BY <1>same DEF Repairing
  <2>4. OneRepairs' /\ InStep'
    BY <1>same, <2>3 DEF RowsAndBytes, OneRepairs, InStep
  <2> QED
    BY <2>1, <2>2, <2>4 DEF RowsAndBytes
<1>holds. ASSUME NEW w \in Workers, NEW f \in Files, At(w, "write", f), bytes[f] # 0
          PROVE  row[f] = bytes[f] /\ \A v \in Workers \ {w} : ~Repairing(v, f)
  <2>1. f \in req[w].files /\ lock[f] = w /\ ~Repairing(w, f)
    BY <1>holds DEF At, LockDiscipline, Holds, Repairing
  <2>2. ASSUME NEW v \in Workers \ {w} PROVE ~Repairing(v, f)
    <3>1. ~At(v, "promote", f)
      BY <1>holds, <1>shape DEF Knows
    <3>2. ~Holds(v, f)
      BY <2>1 DEF LockDiscipline
    <3>3. ~(req[v].step = "unlink" /\ f \in req[v].paths)
      BY <2>1, <1>apart, <1>shape DEF Shape
    <3> QED
      BY <3>1, <3>2, <3>3 DEF Repairing, Holds, At
  <2> QED
    BY <2>1, <2>2 DEF RowsAndBytes, InStep
\* A step under the lock of f whose request goes on to undo, commit or revert.
<1>under. ASSUME NEW w \in Workers, NEW f \in Files, NEW r,
                 req' = [req EXCEPT ![w] = r], req[w].files = {f},
                 r.op = req[w].op, r.files = {f}, r.pre = row[f], row[f] # 0,
                 r.step \in {"undo", "commit", "revert"}, row' = row, bytes'[f] # 0,
                 r.step = "commit" => bytes'[f] = r.size /\ r.size >= r.pre,
                 \A v \in Workers \ {w} : ~Repairing(v, f),
                 \A g \in Files \ {f} : bytes'[g] = bytes[g]
          PROVE  RowsAndBytes'
  <2>1. Shape(r)
    BY <1>under DEF Shape
  <2>2. \A g \in Files : Knows(w, g)'
    BY <1>under DEF Knows, At
  <2>3. Repairing(w, f)' /\ \A g \in Files \ {f} : ~Repairing(w, g)'
    BY <1>under DEF Repairing
  <2>4. \A g \in Files \ {f} : ~Repairing(w, g)
    BY <1>under, <1>shape
  <2> QED
    BY <1>under, <2>1, <2>2, <2>3, <2>4, <1>go
<1>1. CASE Restart
  BY <1>1 DEF Restart
<1>2. ASSUME NEW o \in Objects, CreateObject(o) PROVE RowsAndBytes'
  BY <1>2, <1>same DEF CreateObject
<1>3. ASSUME NEW w \in Workers, Handle(w) PROVE RowsAndBytes'
  <2>1. CASE Stage(w)
    BY <2>1, <1>start DEF Stage, Sizes
  <2>2. CASE LockRow(w)
    BY <2>2, <1>start DEF LockRow
  <2>3. CASE ReadRow(w)
    BY <2>3, <1>start DEF ReadRow
  <2>4. CASE DeleteRow(w)
    <3>1. PICK f \in Files :
            /\ MayStart(w, "delete", {f})
            /\ row' = [row EXCEPT ![f] = 0]
            /\ Start(w, "delete", "unlink", {f}, 0, {f})
            /\ UNCHANGED <<objects, lock, bytes, healthy>>
      BY <2>4 DEF DeleteRow
    <3> DEFINE r == [op |-> "delete", step |-> "unlink", files |-> {f}, pre |-> 0,
                     size |-> 0, paths |-> {f}, failed |-> FALSE]
    <3>2. req' = [req EXCEPT ![w] = r]
      BY <3>1 DEF Start
    <3>3. Shape(r)
      BY DEF Shape
    <3>4. \A v \in Workers \ {w} : r.files \cap req[v].files = {}
      BY <3>1, StartsApart
    <3>5. \A v \in Workers \ {w} : f \notin req[v].files /\ ~Repairing(v, f)
      BY <3>4, <1>shape
    <3>6. \A g \in Files : Knows(w, g)'
      BY <3>1, <3>2 DEF Knows, At
    <3>7. /\ Repairing(w, f)'
          /\ \A g \in Files \ {f} : ~Repairing(w, g)' /\ ~Repairing(w, g)
      BY <3>1, <3>2, <1>idle DEF Repairing, MayStart
    <3>8. \A g \in Files \ {f} : row'[g] = row[g] /\ bytes'[g] = bytes[g]
      BY <3>1
    <3> HIDE DEF r
    <3> QED
      BY <3>2, <3>3, <3>4, <3>5, <3>6, <3>7, <3>8, OneFileStep
  <2>5. CASE DeleteFileRows(w)
    <3>1. PICK os \in SUBSET objects : \E paths :
            /\ paths = {f \in FilesOf(os) : row[f] # 0}
            /\ MayStart(w, "delete", FilesOf(os))
            /\ Start(w, "delete", "cascade", FilesOf(os), 0, paths)
            /\ UNCHANGED <<objects, row, bytes, healthy>>
      BY <2>5 DEF DeleteFileRows
    <3> DEFINE r == [op |-> "delete", step |-> "cascade", files |-> FilesOf(os), pre |-> 0,
                     size |-> 0, paths |-> {f \in FilesOf(os) : row[f] # 0},
                     failed |-> FALSE]
    <3>2. req' = [req EXCEPT ![w] = r] /\ row' = row /\ bytes' = bytes
      BY <3>1 DEF Start
    <3>3. Shape(r)
      BY DEF Shape
    <3>4. \A v \in Workers \ {w} : r.files \cap req[v].files = {}
      BY <3>1, StartsApart
    <3>5. \A g \in Files : ~Repairing(w, g) /\ ~Repairing(w, g)' /\ Knows(w, g)'
      BY <3>1, <3>2, <1>idle DEF Repairing, Knows, At, MayStart
    <3> HIDE DEF r
    <3> QED
      BY <3>2, <3>3, <3>4, <3>5, QuietStep
  <2>6. CASE DeleteObjects(w)
    <3> DEFINE r == IF req[w].paths = {} THEN Idle ELSE [req[w] EXCEPT !.step = "unlink"]
    <3>1. /\ req' = [req EXCEPT ![w] = r]
          /\ bytes' = bytes
          /\ row' = [f \in Files |-> IF f \in req[w].files THEN 0 ELSE row[f]]
      BY <2>6 DEF DeleteObjects, Respond, Goto
    <3>2. req[w].step = "cascade" /\ req[w].op = "delete" /\ req[w].paths \subseteq req[w].files
      BY <2>6, <1>shape DEF DeleteObjects, Shape
    <3>3. \/ r = Idle /\ req[w].paths = {}
          \/ /\ r.step = "unlink" /\ r.op = "delete"
             /\ r.files = req[w].files /\ r.paths = req[w].paths
      BY <3>2 DEF Request
    <3> HIDE DEF r
    <3>4. req'[w] = r /\ \A v \in Workers \ {w} : req'[v] = req[v]
      BY <3>1
    <3>5. RequestShape'
      <4>1. Shape(r)
        BY <3>2, <3>3, <1>idle DEF Shape
      <4> QED
        BY <3>4, <4>1, <1>shape DEF RequestShape, Shape
    <3>6. DeletesAlone'
      BY <3>2, <3>3, <3>4, <1>idle, <1>apart DEF DeletesAlone
    <3>7. \A v \in Workers \ {w}, g \in Files :
            /\ Repairing(v, g)' <=> Repairing(v, g)
            /\ g \in req[w].files => g \notin req[v].files /\ ~Repairing(v, g)
      BY <3>2, <3>4, <1>apart, <1>shape DEF Repairing
    <3>8. \A g \in Files : ~Repairing(w, g) /\ (Repairing(w, g)' <=> g \in req[w].paths)
      BY <3>2, <3>3, <3>4, <1>idle DEF Repairing
    <3>9. ASSUME NEW v \in Workers, NEW g \in Files PROVE Knows(v, g)'
      <4>1. CASE v = w
        BY <3>1, <3>2, <3>3, <3>4, <4>1, <1>idle DEF Knows, At
      <4>2. CASE v # w /\ g \in req[w].files
        <5>1. Shape(req[v]) /\ req'[v] = req[v] /\ g \notin req[v].files
          BY <3>4, <3>7, <4>2, <1>shape
        <5> QED
          BY <5>1 DEF Knows, At, Shape
      <4>3. CASE v # w /\ g \notin req[w].files
        <5>1. req'[v] = req[v] /\ row'[g] = row[g] /\ bytes'[g] = bytes[g] /\ Knows(v, g)
          BY <3>1, <3>4, <4>3, <1>shape
        <5> QED
          BY <5>1 DEF Knows, At
      <4> QED
        BY <4>1, <4>2, <4>3
    <3>10. OneRepairs'
      <4> SUFFICES ASSUME NEW g \in Files, NEW u \in Workers, NEW v \in Workers,
                          Repairing(u, g)', Repairing(v, g)'
                   PROVE  u = v
        BY DEF OneRepairs
      <4> QED
        BY <3>2, <3>7, <3>8 DEF RowsAndBytes, OneRepairs
    <3>11. InStep'
      <4> SUFFICES ASSUME NEW g \in Files
                   PROVE  row'[g] = bytes'[g] \/ \E v \in Workers : Repairing(v, g)'
        BY DEF InStep
      <4>1. row[g] = bytes[g] \/ \E v \in Workers \ {w} : Repairing(v, g)
        BY <3>8 DEF RowsAndBytes, InStep
      <4>2. CASE g \in req[w].paths
        BY <3>8, <4>2
      <4>3. CASE g \in req[w].files \ req[w].paths
        <5>1. row[g] = 0
          BY <3>2, <4>3, <1>shape DEF Knows
        <5>2. bytes[g] = 0
          BY <3>7, <4>1, <4>3, <5>1
        <5> QED
          BY <3>1, <4>3, <5>2
      <4>4. CASE g \notin req[w].files
        BY <3>1, <3>7, <4>1, <4>4
      <4> QED
        BY <3>2, <4>2, <4>3, <4>4
    <3> QED
      BY <3>5, <3>6, <3>9, <3>10, <3>11 DEF RowsAndBytes, StepKnows
  <2>7. CASE Abandon(w)
    BY <2>7, <1>leave DEF Abandon
  <2>8. ASSUME NEW f \in Files, HandleFile(w, f) PROVE RowsAndBytes'
    <3>1. CASE InsertRow(w, f)
      <4>1. CASE Respond(w) /\ UNCHANGED row
        BY <3>1, <4>1, <1>leave DEF InsertRow, At
      <4>2. CASE ~(Respond(w) /\ UNCHANGED row)
        <5> DEFINE r == [req[w] EXCEPT !.step = "promote"]
        <5>1. /\ At(w, "insert", f) /\ row[f] = 0 /\ bytes' = bytes
              /\ row' = [row EXCEPT ![f] = req[w].size]
              /\ req' = [req EXCEPT ![w] = r]
          BY <3>1, <4>2 DEF InsertRow, Goto
        <5>2. /\ r.step = "promote" /\ r.op = req[w].op /\ r.files = req[w].files
              /\ r.size = req[w].size
          BY DEF Request
        <5> HIDE DEF r
        <5>3. req[w].files = {f} /\ req[w].size # 0 /\ ~Repairing(w, f)
          BY <5>1, <1>shape DEF At, Shape, Repairing
        <5>4. ASSUME NEW v \in Workers \ {w} PROVE ~Repairing(v, f)
          BY <5>1, <5>3, <1>apart, <1>shape DEF Repairing, Knows, At, Shape
        <5>5. bytes[f] = 0
          BY <5>1, <5>3, <5>4 DEF RowsAndBytes, InStep
        <5>6. Shape(r)
          BY <5>2, <5>3 DEF Shape
        <5>7. \A g \in Files : Knows(w, g)'
          BY <5>1, <5>2, <5>3, <5>5 DEF Knows, At
        <5>8. /\ Repairing(w, f)'
              /\ \A g \in Files \ {f} : ~Repairing(w, g)' /\ ~Repairing(w, g)
          BY <5>1, <5>2, <5>3, <1>shape DEF Repairing
        <5>9. \A g \in Files \ {f} : row'[g] = row[g] /\ bytes'[g] = bytes[g]
          BY <5>1
        <5> QED
          BY <5>1, <5>2, <5>3, <5>4, <5>6, <5>7, <5>8, <5>9, <1>go
      <4> QED
        BY <4>1, <4>2
    <3>3. CASE Promote(w, f)
      <4>1. Repairing(w, f) /\ req[w].files = {f} /\ row[f] = req[w].size
        BY <3>3, <1>shape DEF Promote, At, Repairing, Knows
      <4>2. row' = row /\ bytes' = [bytes EXCEPT ![f] = req[w].size] /\ Respond(w)
        BY <3>3 DEF Promote
      <4> QED
        BY <4>1, <4>2, <1>done
    <3>5. CASE Append(w, f)
      <4>1. PICK n \in Sizes :
              /\ bytes' = [bytes EXCEPT ![f] = @ + n]
              /\ req' = [req EXCEPT ![w].step = "commit", ![w].pre = bytes[f],
                                    ![w].size = bytes[f] + n]
        BY <3>5 DEF Append
      <4> DEFINE r == [req[w] EXCEPT !.step = "commit", !.pre = bytes[f],
                                     !.size = bytes[f] + n]
      <4>2. /\ req' = [req EXCEPT ![w] = r]
            /\ bytes'[f] = bytes[f] + n /\ bytes[f] + n # 0
            /\ bytes[f] + n >= bytes[f]
            /\ \A g \in Files \ {f} : bytes'[g] = bytes[g]
        <5>1. req' = [req EXCEPT ![w] = r]
          BY <4>1
        <5>2. bytes[f] \in Nat /\ n \in Nat \ {0}
          BY DEF Sizes
        <5>3. bytes' = [bytes EXCEPT ![f] = @ + n]
          BY <4>1
        <5> HIDE DEF r
        <5> QED
          BY <5>1, <5>2, <5>3
      <4>3. /\ r.op = req[w].op /\ r.files = req[w].files /\ r.pre = bytes[f]
            /\ r.step = "commit" /\ r.size = bytes[f] + n
        BY DEF Request
      <4>4. req[w].files = {f} /\ row' = row /\ bytes[f] # 0 /\ At(w, "write", f)
        BY <3>5 DEF Append, At
      <4> HIDE DEF r
      <4>5. row[f] = bytes[f] /\ \A v \in Workers \ {w} : ~Repairing(v, f)
        BY <4>4, <1>holds
      <4>6. r.step = "commit" => bytes'[f] = r.size /\ r.size >= r.pre
        BY <4>2, <4>3
      <4> QED
        BY <4>2, <4>3, <4>4, <4>5, <4>6, <1>under
    <3>6. CASE AppendStops(w, f)
      <4>1. PICK n \in 0..MaxSize : bytes' = [bytes EXCEPT ![f] = @ + n]
        BY <3>6 DEF AppendStops
      <4> DEFINE r == [req[w] EXCEPT !.step = "undo", !.pre = bytes[f]]
      <4>2. req[w].files = {f} /\ row' = row /\ bytes[f] # 0 /\ At(w, "write", f)
        BY <3>6 DEF AppendStops, At
      <4>3. /\ req' = [req EXCEPT ![w] = r]
            /\ bytes'[f] = bytes[f] + n /\ bytes[f] + n # 0
            /\ \A g \in Files \ {f} : bytes'[g] = bytes[g]
        <5>1. req' = [req EXCEPT ![w] = r]
          BY <3>6 DEF AppendStops
        <5>2. bytes[f] \in Nat /\ n \in Nat
          OBVIOUS
        <5> HIDE DEF r
        <5> QED
          BY <4>1, <4>2, <5>1, <5>2
      <4>4. /\ r.op = req[w].op /\ r.files = req[w].files /\ r.pre = bytes[f]
            /\ r.step = "undo"
        BY DEF Request
      <4> HIDE DEF r
      <4> QED
        BY <4>2, <4>3, <4>4, <1>holds, <1>under
    <3>7. CASE Undo(w, f)
      <4>1. /\ Repairing(w, f) /\ req[w].files = {f}
            /\ row[f] = req[w].pre /\ bytes[f] # 0
        BY <3>7, <1>shape DEF Undo, At, Repairing, Knows
      <4>2. row' = row /\ bytes' = [bytes EXCEPT ![f] = req[w].pre] /\ Respond(w)
        BY <3>7, <4>1 DEF Undo, TruncateBack
      <4> QED
        BY <4>1, <4>2, <1>done
    <3>9. CASE CommitAppend(w, f)
      <4>1. Repairing(w, f) /\ req[w].files = {f} /\ bytes[f] = req[w].size
        BY <3>9, <1>shape DEF CommitAppend, At, Repairing, Knows
      <4>2. bytes' = bytes /\ row' = [row EXCEPT ![f] = req[w].size] /\ Respond(w)
        BY <3>9 DEF CommitAppend
      <4> QED
        BY <4>1, <4>2, <1>done
    <3>10. CASE UpdateFails(w, f)
      <4> DEFINE r == [req[w] EXCEPT !.step = "revert"]
      <4>1. req' = [req EXCEPT ![w] = r] /\ row' = row /\ bytes' = bytes
        BY <3>10 DEF UpdateFails, Goto
      <4>2. /\ r.op = req[w].op /\ r.files = req[w].files /\ r.pre = req[w].pre
            /\ r.step = "revert"
        BY DEF Request
      <4>3. /\ Repairing(w, f) /\ req[w].files = {f}
            /\ row[f] = req[w].pre /\ row[f] # 0 /\ bytes[f] # 0
        BY <3>10, <1>shape DEF UpdateFails, At, Repairing, Knows
      <4> HIDE DEF r
      <4> QED
        BY <4>1, <4>2, <4>3, <1>one, <1>under
    <3>11. CASE Revert(w, f)
      <4>1. /\ Repairing(w, f) /\ req[w].files = {f}
            /\ row[f] = req[w].pre /\ bytes[f] # 0
        BY <3>11, <1>shape DEF Revert, At, Repairing, Knows
      <4>2. row' = row /\ bytes' = [bytes EXCEPT ![f] = req[w].pre] /\ Respond(w)
        BY <3>11, <4>1 DEF Revert, TruncateBack
      <4> QED
        BY <4>1, <4>2, <1>done
    <3>13. CASE Restore(w, f)
      BY <3>13, <1>shape DEF Restore, At, Shape
    <3>14. CASE OpenBytes(w, f)
      BY <3>14, <1>leave DEF OpenBytes, At
    <3>15. CASE Unlink(w, f)
      <4>1. /\ req[w].step = "unlink" /\ f \in req[w].paths /\ row' = row
            /\ bytes' = [bytes EXCEPT ![f] = 0]
        BY <3>15 DEF Unlink
      <4>2. Shape(req[w]) /\ Repairing(w, f) /\ row[f] = 0 /\ f \in req[w].files
        BY <4>1, <1>shape DEF Knows, Repairing
      <4>3. PICK s : /\ req' = [req EXCEPT ![w] = s]
                     /\ \/ s = Idle /\ req[w].paths = {f}
                        \/ /\ s.step = "unlink" /\ s.op = req[w].op
                           /\ s.files = req[w].files /\ s.paths = req[w].paths \ {f}
        <5>1. CASE req[w].paths = {f}
          BY <3>15, <5>1 DEF Unlink, Respond
        <5>2. CASE req[w].paths # {f}
          <6>1. PICK ok \in BOOLEAN :
                  req' = [req EXCEPT ![w].paths = @ \ {f}, ![w].failed = @ \/ ~ok]
            BY <3>15, <5>2 DEF Unlink
          <6> DEFINE s == [req[w] EXCEPT !.paths = @ \ {f}, !.failed = @ \/ ~ok]
          <6>2. req' = [req EXCEPT ![w] = s]
            BY <6>1
          <6>3. /\ s.step = "unlink" /\ s.op = req[w].op
                /\ s.files = req[w].files /\ s.paths = req[w].paths \ {f}
            BY <4>1 DEF Request
          <6> QED
            BY <6>2, <6>3
        <5> QED
          BY <5>1, <5>2
      <4>4. Shape(s)
        BY <4>1, <4>2, <4>3, <1>idle DEF Shape
      <4>5. \A g \in Files : Knows(w, g)'
        BY <4>1, <4>3, <1>idle, <1>shape DEF Knows, At
      <4>6. \A g \in Files \ {f} :
              /\ row'[g] = row[g] /\ bytes'[g] = bytes[g]
              /\ Repairing(w, g)' <=> Repairing(w, g)
        BY <4>1, <4>3, <1>idle DEF Repairing
      <4>7. row'[f] = bytes'[f]
        BY <4>1, <4>2
      <4> QED
        BY <4>2, <4>3, <4>4, <4>5, <4>6, <4>7, <1>one, <1>go
    <3> QED
      BY <2>8, <3>1, <3>3, <3>5, <3>6, <3>7, <3>9, <3>10, <3>11, <3>13, <3>14, <3>15
      DEF HandleFile, InsertRowFails, PromoteFails, UndoFails, CommitAppendFails
  <2> QED
    BY <1>3, <2>1, <2>2, <2>3, <2>4, <2>5, <2>6, <2>7, <2>8 DEF Handle
<1>4. CASE UNCHANGED vars
  BY <1>4, <1>same DEF vars
<1> QED
  BY <1>1, <1>2, <1>3, <1>4 DEF Next
\* The inductive invariant that TLC checks in the small instance.
THEOREM Invariant ==
  ASSUME "delete" \in Alone, Faults = {} PROVE Spec => []IInv
<1>1. Init => IInv
  <2> SUFFICES ASSUME Init PROVE IInv
    OBVIOUS
  <2>1. TypeOK
    BY TypeInit
  <2>2. LockDiscipline
    BY LockAssumption DEF Init, LockDiscipline, Holds, Idle
  <2>3. RequestShape /\ DeletesAlone /\ StepKnows /\ OneRepairs /\ InStep
    BY DEF Init, Idle, RequestShape, Shape, DeletesAlone, StepKnows, Knows, At,
       OneRepairs, InStep, Repairing
  <2> QED
    BY <2>1, <2>2, <2>3 DEF IInv
<1>2. IInv /\ [Next]_vars => IInv'
  BY TypeStep, LockStep, RowsStep DEF IInv, RowsAndBytes
<1> QED
  BY <1>1, <1>2, PTL DEF Spec

\* No upload, append or read, in whatever order they overlap, leaves a row without
\* its bytes: the order commit-then-rename of CreateObjectFile and the row lock of
\* AppendObjectFile suffice as long as deletes are alone and nothing fails.
THEOREM RowsKeepBytes ==
  ASSUME "delete" \in Alone, Faults = {} PROVE Spec => []RowsHaveBytes
<1>1. IInv => RowsHaveBytes
  BY DEF IInv, RequestShape, Shape, InStep, Repairing, RowsHaveBytes, Settled, Matching
<1> QED
  BY <1>1, Invariant, PTL

\* Nor do they leave bytes without a row: post-commit removal takes every path.
THEOREM NoBytesLeft ==
  ASSUME "delete" \in Alone, Faults = {} PROVE Spec => []NoOrphans
<1>1. IInv => NoOrphans
  BY DEF IInv, RequestShape, Shape, InStep, Repairing, NoOrphans, Settled
<1> QED
  BY <1>1, Invariant, PTL

\* The size that a row records never goes back.
THEOREM SizesNeverShrink ==
  ASSUME "delete" \in Alone, Faults = {} PROVE Spec => SizesGrow
<1>1. IInv /\ [Next]_vars =>
        [\A f \in Files : row[f] # 0 /\ row'[f] # 0 => row'[f] >= row[f]]_row
  <2> SUFFICES ASSUME IInv, Next, NEW f \in Files, row[f] # 0, row'[f] # 0
               PROVE  row'[f] >= row[f]
    BY DEF vars
  <2> USE DEF IInv, TypeOK
  <2>1. CASE row'[f] = row[f]
    BY <2>1
  <2>2. ASSUME NEW w \in Workers, NEW g \in Files, HandleFile(w, g)
        PROVE  row'[f] >= row[f]
    <3>1. CASE InsertRow(w, g)
      BY <3>1, <2>1 DEF InsertRow
    <3>2. CASE CommitAppend(w, g)
      <4>1. Knows(w, g) /\ At(w, "commit", g) /\ row' = [row EXCEPT ![g] = req[w].size]
        BY <3>2 DEF CommitAppend, StepKnows
      <4>2. req[w].size \in Nat /\ row[f] \in Nat
        BY DEF Request
      <4> QED
        BY <4>1, <4>2, <2>1 DEF Knows
    <3> QED
      BY <2>2, <2>1, <3>1, <3>2 DEF HandleFile, InsertRowFails, Promote, PromoteFails,
         Append, AppendStops, Undo, UndoFails, UpdateFails, Revert, CommitAppendFails,
         Restore, OpenBytes, Unlink
  <2>3. ASSUME NEW w \in Workers, Handle(w) PROVE row'[f] >= row[f]
    <3>1. CASE DeleteRow(w)
      BY <3>1, <2>1 DEF DeleteRow
    <3>2. CASE DeleteObjects(w)
      BY <3>2, <2>1 DEF DeleteObjects
    <3> QED
      BY <2>3, <2>1, <2>2, <3>1, <3>2 DEF Handle, Stage, LockRow, ReadRow,
         DeleteFileRows, Abandon
  <2> QED
    BY <2>1, <2>3 DEF Next, Restart, CreateObject
<1> QED
  BY <1>1, Invariant, PTL DEF Spec, SizesGrow
-----------------------------------------------------------------------------
(* Every kind of client and every fault: what the readiness of the store hides   *)
(* is what the code could not notice.                                           *)

\* The record of a request after an assignment to its fields.
LEMMA RequestFields ==
  ASSUME TypeOK, NEW w \in Workers
  PROVE  /\ \A step : /\ [req[w] EXCEPT !.step = step].op = req[w].op
                      /\ [req[w] EXCEPT !.step = step].step = step
                      /\ [req[w] EXCEPT !.step = step].files = req[w].files
                      /\ [req[w] EXCEPT !.step = step].pre = req[w].pre
                      /\ [req[w] EXCEPT !.step = step].size = req[w].size
                      /\ [req[w] EXCEPT !.step = step].paths = req[w].paths
                      /\ [req[w] EXCEPT !.step = step].failed = req[w].failed
BY DEF TypeOK, Request

\* A step that starts a request of w, ends it, or moves it on changes the request
\* to one of the right shape.
LEMMA ShapeKept ==
  ASSUME TypeOK, RequestShape, NEW w \in Workers, NEW r, req' = [req EXCEPT ![w] = r], Shape(r)
  PROVE  RequestShape'
<1>1. req'[w] = r /\ \A v \in Workers \ {w} : req'[v] = req[v]
  BY DEF TypeOK
<1> QED
  BY <1>1 DEF RequestShape, Shape

LEMMA ShapeStep == TypeOK /\ RequestShape /\ [Next]_vars => RequestShape'
<1> SUFFICES ASSUME TypeOK, RequestShape, [Next]_vars PROVE RequestShape'
  OBVIOUS
<1>same. ASSUME req' = req PROVE RequestShape'
  BY <1>same DEF RequestShape, Shape
<1>idle. Shape(Idle)
  BY DEF Shape, Idle
<1>leave. ASSUME NEW w \in Workers, Respond(w) PROVE RequestShape'
  BY <1>leave, <1>idle, ShapeKept DEF Respond
<1>start. ASSUME NEW w \in Workers, NEW op, NEW step \in Steps \ {"promote", "restore"},
                 NEW files, NEW size, NEW paths,
                 Start(w, op, step, files, size, paths),
                 step = "insert" => size # 0,
                 step \in {"cascade", "unlink"} => op = "delete" /\ paths \subseteq files
          PROVE  RequestShape'
  <2> DEFINE r == [op |-> op, step |-> step, files |-> files, pre |-> 0,
                   size |-> size, paths |-> paths, failed |-> FALSE]
  <2>1. req' = [req EXCEPT ![w] = r]
    BY <1>start DEF Start
  <2>2. Shape(r)
    BY <1>start DEF Shape
  <2> HIDE DEF r
  <2> QED
    BY <2>1, <2>2, ShapeKept
<1>go. ASSUME NEW w \in Workers, NEW step, Goto(w, step),
              step \in {"promote", "revert", "restore", "unlink"},
              step = "promote" => req[w].step = "insert",
              step = "unlink" => req[w].step = "cascade",
              step = "restore" => "append_commit" \in Faults
       PROVE  RequestShape'
  <2> DEFINE r == [req[w] EXCEPT !.step = step]
  <2>1. req' = [req EXCEPT ![w] = r]
    BY <1>go DEF Goto
  <2>2. Shape(r)
    BY <1>go, RequestFields DEF RequestShape, Shape
  <2> HIDE DEF r
  <2> QED
    BY <2>1, <2>2, ShapeKept
<1>1. CASE Restart
  BY <1>1, <1>idle DEF Restart, RequestShape, Shape
<1>2. ASSUME NEW o \in Objects, CreateObject(o) PROVE RequestShape'
  BY <1>2, <1>same DEF CreateObject
<1>3. ASSUME NEW w \in Workers, Handle(w) PROVE RequestShape'
  <2>1. CASE Stage(w)
    BY <2>1, <1>start DEF Stage, Sizes, Steps
  <2>2. CASE LockRow(w)
    BY <2>2, <1>start DEF LockRow, Steps
  <2>3. CASE ReadRow(w)
    BY <2>3, <1>start DEF ReadRow, Steps
  <2>4. CASE DeleteRow(w)
    BY <2>4, <1>start, <1>same DEF DeleteRow, Steps
  <2>5. CASE DeleteFileRows(w)
    BY <2>5, <1>start DEF DeleteFileRows, Steps
  <2>6. CASE DeleteObjects(w)
    BY <2>6, <1>go, <1>leave DEF DeleteObjects
  <2>7. CASE Abandon(w)
    BY <2>7, <1>leave DEF Abandon
  <2>8. ASSUME NEW f \in Files, HandleFile(w, f) PROVE RequestShape'
    <3>1. CASE InsertRow(w, f)
      BY <3>1, <1>go, <1>leave DEF InsertRow, At
    <3>2. CASE Append(w, f)
      <4>1. PICK n \in Sizes :
              req' = [req EXCEPT ![w].step = "commit", ![w].pre = bytes[f],
                                 ![w].size = bytes[f] + n]
        BY <3>2 DEF Append
      <4> DEFINE r == [req[w] EXCEPT !.step = "commit", !.pre = bytes[f],
                                     !.size = bytes[f] + n]
      <4>2. req' = [req EXCEPT ![w] = r]
        BY <4>1
      <4>3. r.step = "commit"
        BY DEF TypeOK, Request
      <4> HIDE DEF r
      <4> QED
        BY <4>2, <4>3, ShapeKept DEF Shape
    <3>3. CASE AppendStops(w, f)
      <4> DEFINE r == [req[w] EXCEPT !.step = "undo", !.pre = bytes[f]]
      <4>1. req' = [req EXCEPT ![w] = r]
        BY <3>3 DEF AppendStops
      <4>2. r.step = "undo"
        BY DEF TypeOK, Request
      <4> HIDE DEF r
      <4> QED
        BY <4>1, <4>2, ShapeKept DEF Shape
    <3>4. CASE UpdateFails(w, f)
      BY <3>4, <1>go DEF UpdateFails
    <3>5. CASE CommitAppendFails(w, f)
      BY <3>5, <1>go DEF CommitAppendFails
    <3>6. CASE Unlink(w, f)
      <4>1. CASE req[w].paths = {f}
        BY <3>6, <4>1, <1>leave DEF Unlink
      <4>2. CASE req[w].paths # {f}
        <5>1. PICK ok \in BOOLEAN :
                req' = [req EXCEPT ![w].paths = @ \ {f}, ![w].failed = @ \/ ~ok]
          BY <3>6, <4>2 DEF Unlink
        <5> DEFINE r == [req[w] EXCEPT !.paths = @ \ {f}, !.failed = @ \/ ~ok]
        <5>2. req' = [req EXCEPT ![w] = r]
          BY <5>1
        <5>3. /\ r.op = req[w].op /\ r.step = req[w].step /\ r.files = req[w].files
              /\ r.size = req[w].size /\ r.paths = req[w].paths \ {f}
          BY DEF TypeOK, Request
        <5> HIDE DEF r
        <5> QED
          BY <5>2, <5>3, ShapeKept DEF RequestShape, Shape
      <4> QED
        BY <4>1, <4>2
    <3> QED
      BY <2>8, <1>leave, <3>1, <3>2, <3>3, <3>4, <3>5, <3>6 DEF HandleFile,
         InsertRowFails, Promote, PromoteFails, Undo, UndoFails, CommitAppend, Revert,
         Restore, OpenBytes
  <2> QED
    BY <1>3, <2>1, <2>2, <2>3, <2>4, <2>5, <2>6, <2>7, <2>8 DEF Handle
<1>4. CASE UNCHANGED vars
  BY <1>4, <1>same DEF vars
<1> QED
  BY <1>1, <1>2, <1>3, <1>4 DEF Next

\* Steps other than a restart only take files away from those the code answers for.
LEMMA WatchedBefore ==
  ASSUME TypeOK, NEW f \in Files, Watched(f)',
         (\E o \in Objects : CreateObject(o)) \/ (\E w \in Workers : Handle(w))
  PROVE  Watched(f)
<1> USE DEF TypeOK
<1>idle. ASSUME NEW w \in Workers, req[w] = Idle PROVE req[w].step # "restore"
  BY <1>idle DEF Idle
<1>1. ASSUME NEW w \in Workers, healthy, excused \subseteq excused',
             req[w].step # "restore" \/ req[w].files # {f},
             req' = req \/ \E r : req' = [req EXCEPT ![w] = r]
      PROVE  Watched(f)
  <2>1. \A v \in Workers \ {w} : req'[v] = req[v]
    BY <1>1
  <2> QED
    BY <1>1, <2>1 DEF Watched, At
<1>2. ASSUME NEW o \in Objects, CreateObject(o) PROVE Watched(f)
  BY <1>2 DEF CreateObject, Watched, At
<1>3. ASSUME NEW w \in Workers, Handle(w) PROVE Watched(f)
  <2>1. healthy'
    BY DEF Watched
  <2>2. CASE Stage(w) \/ LockRow(w) \/ ReadRow(w) \/ DeleteRow(w) \/ DeleteFileRows(w)
    BY <1>1, <1>idle, <2>1, <2>2
    DEF Stage, LockRow, ReadRow, DeleteRow, DeleteFileRows, Start, MayStart
  <2>3. CASE DeleteObjects(w) \/ Abandon(w)
    BY <1>1, <2>1, <2>3 DEF DeleteObjects, Abandon, Respond, Goto
  <2>4. ASSUME NEW g \in Files, HandleFile(w, g) PROVE Watched(f)
    <3>1. CASE Append(w, g)
      <4>1. \E r : req' = [req EXCEPT ![w] = r]
        BY <3>1 DEF Append
      <4> QED
        BY <1>1, <2>1, <3>1, <4>1 DEF Append, At
    <3>2. CASE AppendStops(w, g)
      <4>1. \E r : req' = [req EXCEPT ![w] = r]
        BY <3>2 DEF AppendStops
      <4> QED
        BY <1>1, <2>1, <3>2, <4>1 DEF AppendStops, At
    <3>3. CASE Unlink(w, g)
      <4>1. \E r : req' = [req EXCEPT ![w] = r]
        BY <3>3 DEF Unlink, Respond
      <4> QED
        BY <1>1, <2>1, <3>3, <4>1 DEF Unlink
    <3>4. CASE Restore(w, g)
      BY <2>1, <3>4 DEF Restore
    <3> QED
      BY <1>1, <2>1, <2>4, <3>1, <3>2, <3>3, <3>4 DEF HandleFile, InsertRow,
         InsertRowFails, Promote, PromoteFails, Undo, UndoFails, CommitAppend, UpdateFails,
         Revert, CommitAppendFails, OpenBytes, At, Respond, Goto
  <2> QED
    BY <1>3, <2>2, <2>3, <2>4 DEF Handle
<1> QED
  BY <1>2, <1>3

\* A step of w keeps what is known of f if no other request is between two steps on
\* it when its row or its bytes change.
LEMMA AccountedStep ==
  ASSUME TypeOK, RequestShape, NEW f \in Files, Accounted(f), NEW w \in Workers, NEW r,
         req' = [req EXCEPT ![w] = r],
         \A v \in Workers \ {w} :
           r.op = "delete" \/ req[v].op = "delete" => f \notin r.files \cap req[v].files,
         \/ row'[f] = row[f] /\ bytes'[f] = bytes[f]
         \/ \A v \in Workers \ {w} :
              ~Repairing(v, f) /\ (req[v].op = "delete" => f \notin req[v].files),
         Repairing(w, f)' => \A v \in Workers \ {w} : ~Repairing(v, f),
         Knows(w, f)',
         \/ row'[f] = bytes'[f]
         \/ Repairing(w, f)' \/ Failing(w, f)'
         \/ /\ row'[f] = row[f] /\ bytes'[f] = bytes[f]
            /\ ~Repairing(w, f) /\ ~Failing(w, f)
  PROVE  Accounted(f)'
<1> USE DEF TypeOK, Accounted
<1>1. req'[w] = r /\ \A v \in Workers \ {w} : req'[v] = req[v]
  OBVIOUS
<1>2. NoMeeting(f)'
  BY <1>1 DEF NoMeeting
<1>3. \A v \in Workers \ {w} :
        /\ Repairing(v, f)' <=> Repairing(v, f)
        /\ Failing(v, f)' <=> Failing(v, f)
  BY <1>1 DEF Repairing, Failing
<1>4. ASSUME NEW v \in Workers \ {w} PROVE Knows(v, f)'
  <2>1. Knows(v, f) /\ Shape(req[v])
    BY DEF RequestShape
  <2>2. CASE row'[f] = row[f] /\ bytes'[f] = bytes[f]
    BY <1>1, <2>1, <2>2 DEF Knows, At
  <2>3. CASE ~Repairing(v, f) /\ (req[v].op = "delete" => f \notin req[v].files)
    BY <1>1, <2>1, <2>3 DEF Knows, At, Repairing, Shape
  <2> QED
    BY <2>2, <2>3
<1>5. \A v \in Workers : Knows(v, f)'
  BY <1>4
<1>6. OneMends(f)'
  BY <1>3 DEF OneMends
<1>7. Answered(f)'
  <2>1. CASE row'[f] = bytes'[f] \/ Repairing(w, f)' \/ Failing(w, f)'
    BY <2>1 DEF Answered
  <2>2. CASE /\ row'[f] = row[f] /\ bytes'[f] = bytes[f]
             /\ ~Repairing(w, f) /\ ~Failing(w, f)
    BY <1>3, <2>2 DEF Answered
  <2> QED
    BY <2>1, <2>2
<1> QED
  BY <1>2, <1>5, <1>6, <1>7

\* Every step accounts for the files that it leaves watched.
LEMMA ReportStep ==
  ASSUME TypeOK, LockDiscipline, RequestShape, NEW f \in Files, Accounted(f),
         Watched(f), Watched(f)', NEW w \in Workers, Handle(w)
  PROVE  Accounted(f)'
<1> USE DEF TypeOK
<1>w. healthy' /\ f \notin excused'
  BY DEF Watched
<1>idle. /\ Shape(Idle) /\ Idle.op # "delete" /\ Idle.files = {} /\ Idle.step = "idle"
         /\ Idle.paths = {}
  BY DEF Shape, Idle
<1>shape. \A v \in Workers :
            /\ Shape(req[v]) /\ Knows(v, f)
            /\ Repairing(v, f) \/ Failing(v, f) => f \in req[v].files
  BY DEF Accounted, RequestShape, Repairing, Failing, Shape
<1>apart. \A v \in Workers \ {w} :
            req[w].op = "delete" \/ req[v].op = "delete" => f \notin req[w].files \cap req[v].files
  BY DEF Accounted, NoMeeting
\* A request whose files do not include f.
<1>else. ASSUME NEW r, req' = [req EXCEPT ![w] = r], f \notin req[w].files, f \notin r.files,
                r.step = "unlink" => f \notin r.paths,
                row'[f] = row[f], bytes'[f] = bytes[f]
         PROVE  Accounted(f)'
  <2>1. ~Repairing(w, f) /\ ~Failing(w, f)
    BY <1>else, <1>shape
  <2>2. req'[w] = r /\ ~Repairing(w, f)' /\ Knows(w, f)'
    BY <1>else DEF Repairing, Knows, At
  <2> QED
    BY <1>else, <2>1, <2>2, AccountedStep
\* A request that is between no two steps on f, before and after.
<1>quiet. ASSUME NEW r, req' = [req EXCEPT ![w] = r],
                 r.files = {} \/ (r.files = req[w].files /\ r.op = req[w].op),
                 row'[f] = row[f], bytes'[f] = bytes[f],
                 ~Repairing(w, f), ~Failing(w, f), ~Repairing(w, f)', Knows(w, f)'
          PROVE  Accounted(f)'
  BY <1>quiet, <1>apart, AccountedStep
<1>leave. ASSUME Respond(w), row'[f] = row[f], bytes'[f] = bytes[f],
                 ~Repairing(w, f), ~Failing(w, f)
          PROVE  Accounted(f)'
  <2>1. req' = [req EXCEPT ![w] = Idle]
    BY <1>leave DEF Respond
  <2>2. ~Repairing(w, f)' /\ Knows(w, f)'
    BY <1>idle, <2>1 DEF Repairing, Knows, At
  <2> QED
    BY <1>leave, <1>idle, <1>quiet, <2>1, <2>2
\* A request on one other file.
<1>other. ASSUME NEW g \in Files, g # f, req[w].files = {g}, row'[f] = row[f],
                 bytes'[f] = bytes[f], req[w].step # "unlink",
                 Respond(w) \/ \E step \in Steps \ {"unlink"} : Goto(w, step)
          PROVE  Accounted(f)'
  <2>1. CASE Respond(w)
    BY <1>other, <1>shape, <1>leave, <2>1
  <2>2. ASSUME NEW step \in Steps \ {"unlink"}, Goto(w, step) PROVE Accounted(f)'
    <3> DEFINE r == [req[w] EXCEPT !.step = step]
    <3>1. req' = [req EXCEPT ![w] = r]
      BY <2>2 DEF Goto
    <3>2. r.step = step /\ r.files = {g} /\ r.paths = req[w].paths /\ r.op = req[w].op
      BY <1>other, RequestFields
    <3> HIDE DEF r
    <3> QED
      BY <1>other, <1>else, <2>2, <3>1, <3>2
  <2> QED
    BY <1>other, <2>1, <2>2
\* What a request that starts knows of the others.
<1>begin. ASSUME NEW op, NEW files, NEW step, NEW size, NEW paths, NEW r,
                 r = [op |-> op, step |-> step, files |-> files, pre |-> 0,
                      size |-> size, paths |-> paths, failed |-> FALSE],
                 MayStart(w, op, files), Start(w, op, step, files, size, paths)
          PROVE  /\ req' = [req EXCEPT ![w] = r]
                 /\ req[w] = Idle /\ ~Repairing(w, f) /\ ~Failing(w, f)
                 /\ \A v \in Workers \ {w} :
                      op = "delete" \/ req[v].op = "delete" => f \notin files \cap req[v].files
  <2>1. req' = [req EXCEPT ![w] = r] /\ f \notin MeetsDelete(op, files) /\ req[w] = Idle
    BY <1>begin, <1>w DEF Start, MayStart
  <2> QED
    BY <2>1, <1>idle DEF MeetsDelete, Repairing, Failing
<1>start. ASSUME NEW op, NEW files, NEW step \in {"insert", "write", "stat"}, NEW size,
                 MayStart(w, op, files), Start(w, op, step, files, size, {}),
                 row' = row, bytes' = bytes
          PROVE  Accounted(f)'
  <2> DEFINE r == [op |-> op, step |-> step, files |-> files, pre |-> 0,
                   size |-> size, paths |-> {}, failed |-> FALSE]
  <2>1. r.op = op /\ r.files = files /\ r.step = step
    OBVIOUS
  <2> HIDE DEF r
  <2>2. /\ req' = [req EXCEPT ![w] = r]
        /\ ~Repairing(w, f) /\ ~Failing(w, f)
        /\ \A v \in Workers \ {w} :
             op = "delete" \/ req[v].op = "delete" => f \notin files \cap req[v].files
    BY <1>start, <1>begin DEF r
  <2>3. ~Repairing(w, f)' /\ Knows(w, f)'
    BY <1>start, <2>1, <2>2 DEF Repairing, Knows, At
  <2> QED
    BY <1>start, <2>1, <2>2, <2>3, AccountedStep
<1>same. ASSUME req' = req, row'[f] = row[f], bytes'[f] = bytes[f] PROVE Accounted(f)'
  BY <1>same DEF Accounted, NoMeeting, Knows, At, OneMends, Answered, Repairing, Failing
<1>only. ASSUME Repairing(w, f) PROVE \A v \in Workers \ {w} : ~Repairing(v, f)
  BY <1>only DEF Accounted, OneMends
\* A request that works on f alone and ends with row and bytes in step.
<1>done. ASSUME Respond(w), Repairing(w, f), row'[f] = bytes'[f],
                \A v \in Workers \ {w} : req[v].op = "delete" => f \notin req[v].files
         PROVE  Accounted(f)'
  <2>1. req' = [req EXCEPT ![w] = Idle]
    BY <1>done DEF Respond
  <2>2. Knows(w, f)' /\ ~Repairing(w, f)'
    BY <1>idle, <2>1 DEF Knows, At, Repairing
  <2> QED
    BY <1>done, <1>idle, <1>only, <2>1, <2>2, AccountedStep
<1>alone. ASSUME f \in req[w].files
          PROVE  \A v \in Workers \ {w} : req[v].op = "delete" => f \notin req[v].files
  BY <1>alone, <1>apart
\* A step under the lock of f whose request goes on to undo, commit or revert.
<1>under. ASSUME NEW r, req' = [req EXCEPT ![w] = r], req[w].files = {f},
                 r.op = req[w].op, r.files = {f}, r.pre = row[f], row[f] # 0,
                 r.step \in {"undo", "commit", "revert"}, row' = row, bytes'[f] # 0,
                 r.step = "commit" => bytes'[f] = r.size /\ r.size >= r.pre,
                 \A v \in Workers \ {w} : ~Repairing(v, f)
          PROVE  Accounted(f)'
  <2>1. Knows(w, f)'
    BY <1>under DEF Knows, At
  <2>2. Repairing(w, f)'
    BY <1>under DEF Repairing
  <2> QED
    BY <1>under, <1>apart, <1>alone, <2>1, <2>2, AccountedStep
<1>holds. ASSUME At(w, "write", f), bytes[f] # 0
          PROVE  row[f] = bytes[f] /\ \A v \in Workers \ {w} : ~Repairing(v, f)
  <2>1. f \in req[w].files /\ lock[f] = w /\ ~Repairing(w, f) /\ ~Failing(w, f)
    BY <1>holds DEF At, LockDiscipline, Holds, Repairing, Failing
  <2>2. ASSUME NEW v \in Workers \ {w} PROVE ~Repairing(v, f) /\ ~Failing(v, f)
    <3>1. ~At(v, "promote", f)
      BY <1>holds, <1>shape DEF Knows
    <3>2. ~Holds(v, f)
      BY <2>1 DEF LockDiscipline
    <3>3. ~(req[v].step = "unlink" /\ (f \in req[v].paths \/ f \in req[v].files))
      BY <2>1, <1>apart, <1>shape DEF Shape
    <3> QED
      BY <3>1, <3>2, <3>3 DEF Repairing, Failing, Holds, At
  <2> QED
    BY <2>1, <2>2 DEF Accounted, Answered
<1>1. CASE Stage(w)
  BY <1>1, <1>start DEF Stage
<1>2. CASE LockRow(w)
  BY <1>2, <1>start DEF LockRow
<1>3. CASE ReadRow(w)
  BY <1>3, <1>start DEF ReadRow
<1>4. CASE DeleteRow(w)
  <2>1. PICK g \in Files :
          /\ MayStart(w, "delete", {g})
          /\ row' = [row EXCEPT ![g] = 0]
          /\ \/ Start(w, "delete", "unlink", {g}, 0, {g})
             \/ UNCHANGED req /\ excused' = excused \cup {g}
          /\ bytes' = bytes
    BY <1>4 DEF DeleteRow
  <2>2. CASE UNCHANGED req /\ excused' = excused \cup {g}
    BY <1>w, <1>same, <2>1, <2>2
  <2>3. CASE Start(w, "delete", "unlink", {g}, 0, {g})
    <3> DEFINE r == [op |-> "delete", step |-> "unlink", files |-> {g}, pre |-> 0,
                     size |-> 0, paths |-> {g}, failed |-> FALSE]
    <3>1. r.op = "delete" /\ r.step = "unlink" /\ r.files = {g} /\ r.paths = {g}
      OBVIOUS
    <3> HIDE DEF r
    <3>2. /\ req' = [req EXCEPT ![w] = r] /\ req[w] = Idle
          /\ \A v \in Workers \ {w} : f \notin {g} \cap req[v].files
      BY <1>begin, <2>1, <2>3 DEF r
    <3>3. CASE g = f
      <4>1. \A v \in Workers \ {w} : ~Repairing(v, f) /\ f \notin req[v].files
        BY <1>shape, <3>2, <3>3
      <4>2. Repairing(w, f)' /\ Knows(w, f)'
        BY <2>1, <3>1, <3>2, <3>3 DEF Repairing, Knows, At
      <4> QED
        BY <3>1, <3>2, <4>1, <4>2, AccountedStep
    <3>4. CASE g # f
      BY <1>else, <1>idle, <2>1, <3>1, <3>2, <3>4
    <3> QED
      BY <3>3, <3>4
  <2> QED
    BY <2>1, <2>2, <2>3
<1>5. CASE DeleteFileRows(w)
  <2>1. PICK os \in SUBSET objects : \E paths :
          /\ paths = {g \in FilesOf(os) : row[g] # 0}
          /\ MayStart(w, "delete", FilesOf(os))
          /\ Start(w, "delete", "cascade", FilesOf(os), 0, paths)
          /\ UNCHANGED <<objects, row, bytes, healthy>>
    BY <1>5 DEF DeleteFileRows
  <2> DEFINE paths == {g \in FilesOf(os) : row[g] # 0}
             r == [op |-> "delete", step |-> "cascade", files |-> FilesOf(os), pre |-> 0,
                   size |-> 0, paths |-> paths, failed |-> FALSE]
  <2>2. /\ r.op = "delete" /\ r.step = "cascade" /\ r.files = FilesOf(os)
        /\ f \in FilesOf(os) => (f \in r.paths <=> row[f] # 0)
    OBVIOUS
  <2> HIDE DEF r
  <2>3. /\ req' = [req EXCEPT ![w] = r]
        /\ ~Repairing(w, f) /\ ~Failing(w, f)
        /\ \A v \in Workers \ {w} : f \notin FilesOf(os) \cap req[v].files
    BY <1>begin, <2>1 DEF r
  <2>4. ~Repairing(w, f)' /\ Knows(w, f)'
    BY <2>1, <2>2, <2>3 DEF Repairing, Knows, At
  <2> QED
    BY <2>1, <2>2, <2>3, <2>4, AccountedStep
<1>6. CASE DeleteObjects(w)
  <2>1. /\ req[w].step = "cascade" /\ req[w].op = "delete"
        /\ req[w].paths \subseteq req[w].files
        /\ ~Repairing(w, f) /\ ~Failing(w, f)
    BY <1>6, <1>shape DEF DeleteObjects, Shape, Repairing, Failing
  <2>2. /\ bytes' = bytes
        /\ row' = [g \in Files |-> IF g \in req[w].files THEN 0 ELSE row[g]]
        /\ Respond(w) \/ Goto(w, "unlink")
        /\ f \in req[w].paths => Goto(w, "unlink")
    BY <1>6, <1>w DEF DeleteObjects
  <2> DEFINE r == [req[w] EXCEPT !.step = "unlink"]
  <2>3. r.op = "delete" /\ r.step = "unlink" /\ r.files = req[w].files /\ r.paths = req[w].paths
    BY <2>1, RequestFields
  <2>4. Goto(w, "unlink") => req' = [req EXCEPT ![w] = r]
    BY DEF Goto
  <2> HIDE DEF r
  <2>5. CASE f \notin req[w].files
    <3>1. row'[f] = row[f] /\ bytes'[f] = bytes[f]
      BY <2>2, <2>5
    <3> QED
      BY <1>leave, <1>else, <2>1, <2>2, <2>3, <2>4, <2>5, <3>1
  <2>6. CASE f \in req[w].files
    <3>1. \A v \in Workers \ {w} : f \notin req[v].files /\ ~Repairing(v, f) /\ ~Failing(v, f)
      BY <1>apart, <1>shape, <2>1, <2>6
    <3>2. row'[f] = 0 /\ bytes'[f] = bytes[f]
      BY <2>2, <2>6
    <3>3. CASE f \in req[w].paths
      <4>1. Repairing(w, f)' /\ Knows(w, f)'
        BY <2>2, <2>3, <2>4, <3>2, <3>3 DEF Repairing, Knows, At
      <4> QED
        BY <2>2, <2>4, <3>1, <3>3, <4>1, AccountedStep
    <3>4. CASE f \notin req[w].paths
      <4>1. row[f] = 0 /\ bytes[f] = 0
        BY <1>shape, <2>1, <2>6, <3>1, <3>4 DEF Knows, Accounted, Answered
      <4>2. ASSUME NEW q, req' = [req EXCEPT ![w] = q], q = Idle \/ q = r
            PROVE  Accounted(f)'
        <5>1. ~Repairing(w, f)' /\ Knows(w, f)'
          BY <1>idle, <2>3, <3>2, <3>4, <4>2 DEF Repairing, Knows, At
        <5> QED
          BY <3>1, <3>2, <4>1, <4>2, <5>1, AccountedStep
      <4> QED
        BY <2>2, <2>4, <4>2 DEF Respond
    <3> QED
      BY <3>3, <3>4
  <2> QED
    BY <2>5, <2>6
<1>7. CASE Abandon(w)
  BY <1>7, <1>leave DEF Abandon, Repairing, Failing, At
<1>8. ASSUME NEW g \in Files, HandleFile(w, g), g # f, ~Unlink(w, g)
      PROVE  Accounted(f)'
  <2>1. /\ row'[f] = row[f] /\ bytes'[f] = bytes[f]
        /\ req[w].files = {g} /\ req[w].step # "unlink"
    BY <1>8 DEF HandleFile, InsertRow, InsertRowFails, Promote, PromoteFails, Append,
       AppendStops, Undo, UndoFails, CommitAppend, UpdateFails, Revert, CommitAppendFails,
       Restore, OpenBytes, TruncateBack, At
  <2>2. CASE Append(w, g)
    <3>1. PICK n \in Sizes :
            req' = [req EXCEPT ![w].step = "commit", ![w].pre = bytes[g],
                               ![w].size = bytes[g] + n]
      BY <2>2 DEF Append
    <3> DEFINE r == [req[w] EXCEPT !.step = "commit", !.pre = bytes[g],
                                   !.size = bytes[g] + n]
    <3>2. req' = [req EXCEPT ![w] = r]
      BY <3>1
    <3>3. r.step = "commit" /\ r.files = req[w].files
      BY DEF Request
    <3> HIDE DEF r
    <3> QED
      BY <1>8, <1>else, <2>1, <3>2, <3>3
  <2>3. CASE AppendStops(w, g)
    <3> DEFINE r == [req[w] EXCEPT !.step = "undo", !.pre = bytes[g]]
    <3>1. req' = [req EXCEPT ![w] = r]
      BY <2>3 DEF AppendStops
    <3>2. r.step = "undo" /\ r.files = req[w].files
      BY DEF Request
    <3> HIDE DEF r
    <3> QED
      BY <1>8, <1>else, <2>1, <3>1, <3>2
  <2>4. CASE ~Append(w, g) /\ ~AppendStops(w, g)
    <3>1. Respond(w) \/ \E step \in Steps \ {"unlink"} : Goto(w, step)
      BY <1>8, <2>4 DEF HandleFile, InsertRow, InsertRowFails, Promote, PromoteFails,
         Undo, UndoFails, CommitAppend, UpdateFails, Revert, CommitAppendFails,
         Restore, OpenBytes, Steps
    <3> QED
      BY <1>8, <1>other, <2>1, <3>1
  <2> QED
    BY <2>2, <2>3, <2>4
<1>9. CASE InsertRow(w, f)
  <2>1. CASE Respond(w) /\ UNCHANGED row
    BY <1>9, <1>leave, <2>1 DEF InsertRow, At, Repairing, Failing
  <2>2. CASE ~(Respond(w) /\ UNCHANGED row)
    <3> DEFINE r == [req[w] EXCEPT !.step = "promote"]
    <3>1. /\ At(w, "insert", f) /\ row[f] = 0 /\ bytes' = bytes
          /\ row'[f] = req[w].size
          /\ req' = [req EXCEPT ![w] = r]
      BY <1>9, <2>2 DEF InsertRow, Goto
    <3>2. /\ r.step = "promote" /\ r.op = req[w].op /\ r.files = req[w].files
          /\ r.size = req[w].size
      BY RequestFields
    <3> HIDE DEF r
    <3>3. req[w].files = {f} /\ req[w].size # 0 /\ ~Repairing(w, f) /\ ~Failing(w, f)
      BY <1>shape, <3>1 DEF At, Shape, Repairing, Failing
    <3>4. ASSUME NEW v \in Workers \ {w} PROVE ~Repairing(v, f) /\ ~Failing(v, f)
      BY <1>apart, <1>shape, <3>1, <3>3 DEF Repairing, Failing, Knows, At, Shape
    <3>5. bytes[f] = 0
      BY <3>1, <3>3, <3>4 DEF Accounted, Answered
    <3>6. Repairing(w, f)' /\ Knows(w, f)'
      BY <3>1, <3>2, <3>3, <3>5 DEF Repairing, Knows, At
    <3> QED
      BY <1>alone, <1>apart, <3>1, <3>2, <3>3, <3>4, <3>6, AccountedStep
  <2> QED
    BY <2>1, <2>2
<1>10. CASE Promote(w, f)
  <2>1. Repairing(w, f) /\ f \in req[w].files /\ row'[f] = bytes'[f] /\ Respond(w)
    BY <1>10, <1>shape DEF Promote, At, Repairing, Knows
  <2> QED
    BY <1>alone, <1>done, <2>1
<1>11. CASE Append(w, f)
  <2>1. PICK n \in Sizes :
          /\ bytes' = [bytes EXCEPT ![f] = @ + n]
          /\ req' = [req EXCEPT ![w].step = "commit", ![w].pre = bytes[f],
                                ![w].size = bytes[f] + n]
    BY <1>11 DEF Append
  <2> DEFINE r == [req[w] EXCEPT !.step = "commit", !.pre = bytes[f],
                                 !.size = bytes[f] + n]
  <2>2. req' = [req EXCEPT ![w] = r]
    BY <2>1
  <2>3. /\ r.op = req[w].op /\ r.files = req[w].files /\ r.pre = bytes[f]
        /\ r.step = "commit" /\ r.size = bytes[f] + n
    BY DEF Request
  <2> HIDE DEF r
  <2>4. bytes'[f] = bytes[f] + n /\ bytes[f] + n # 0 /\ bytes[f] + n >= bytes[f]
    <3>1. bytes[f] \in Nat /\ n \in Nat \ {0}
      BY DEF Sizes
    <3> QED
      BY <2>1, <3>1
  <2>5. req[w].files = {f} /\ row' = row /\ bytes[f] # 0 /\ At(w, "write", f)
    BY <1>11 DEF Append, At
  <2>6. row[f] = bytes[f] /\ \A v \in Workers \ {w} : ~Repairing(v, f)
    BY <1>holds, <2>5
  <2> QED
    BY <1>under, <2>2, <2>3, <2>4, <2>5, <2>6
<1>12. CASE AppendStops(w, f)
  <2>1. PICK n \in 0..MaxSize : bytes' = [bytes EXCEPT ![f] = @ + n]
    BY <1>12 DEF AppendStops
  <2> DEFINE r == [req[w] EXCEPT !.step = "undo", !.pre = bytes[f]]
  <2>2. req' = [req EXCEPT ![w] = r]
    BY <1>12 DEF AppendStops
  <2>3. /\ r.op = req[w].op /\ r.files = req[w].files /\ r.pre = bytes[f]
        /\ r.step = "undo"
    BY DEF Request
  <2> HIDE DEF r
  <2>4. req[w].files = {f} /\ row' = row /\ bytes[f] # 0 /\ At(w, "write", f)
    BY <1>12 DEF AppendStops, At
  <2>5. bytes'[f] # 0
    <3>1. bytes[f] \in Nat /\ n \in Nat
      OBVIOUS
    <3> QED
      BY <2>1, <2>4, <3>1
  <2> QED
    BY <1>holds, <1>under, <2>2, <2>3, <2>4, <2>5
<1>13. CASE Undo(w, f)
  <2>1. Repairing(w, f) /\ f \in req[w].files /\ row'[f] = bytes'[f] /\ Respond(w)
    BY <1>13, <1>shape DEF Undo, TruncateBack, At, Repairing, Knows
  <2> QED
    BY <1>alone, <1>done, <2>1
<1>14. CASE CommitAppend(w, f)
  <2>1. Repairing(w, f) /\ f \in req[w].files /\ row'[f] = bytes'[f] /\ Respond(w)
    BY <1>14, <1>shape DEF CommitAppend, At, Repairing, Knows
  <2> QED
    BY <1>alone, <1>done, <2>1
<1>15. CASE UpdateFails(w, f)
  <2> DEFINE r == [req[w] EXCEPT !.step = "revert"]
  <2>1. req' = [req EXCEPT ![w] = r] /\ row' = row /\ bytes' = bytes
    BY <1>15 DEF UpdateFails, Goto
  <2>2. /\ r.op = req[w].op /\ r.files = req[w].files /\ r.pre = req[w].pre
        /\ r.step = "revert"
    BY RequestFields
  <2> HIDE DEF r
  <2>3. /\ Repairing(w, f) /\ req[w].files = {f}
        /\ row[f] = req[w].pre /\ row[f] # 0 /\ bytes[f] # 0
    BY <1>15, <1>shape DEF UpdateFails, At, Repairing, Knows
  <2> QED
    BY <1>only, <1>under, <2>1, <2>2, <2>3
\* A truncation that fails leaves the store unhealthy.
<1>16. CASE Revert(w, f)
  <2>1. TruncateBack(f, req[w].pre) /\ row' = row /\ Respond(w)
    BY <1>16, <1>w DEF Revert
  <2>2. /\ Repairing(w, f) /\ f \in req[w].files
        /\ row[f] = req[w].pre /\ bytes[f] # 0
    BY <1>16, <1>shape DEF Revert, At, Repairing, Knows
  <2>3. row'[f] = bytes'[f]
    BY <2>1, <2>2 DEF TruncateBack
  <2> QED
    BY <1>alone, <1>done, <2>1, <2>2, <2>3
\* From here on the append is about to mark a mismatch.
<1>17. CASE CommitAppendFails(w, f)
  <2> DEFINE r == [req[w] EXCEPT !.step = "restore"]
  <2>1. req' = [req EXCEPT ![w] = r] /\ req[w].files = {f}
    BY <1>17 DEF CommitAppendFails, Goto, At
  <2>2. r.step = "restore" /\ r.files = req[w].files
    BY RequestFields
  <2> HIDE DEF r
  <2>3. At(w, "restore", f)'
    BY <2>1, <2>2 DEF At
  <2> QED
    BY <2>3 DEF Watched
<1>18. CASE OpenBytes(w, f)
  BY <1>18, <1>leave DEF OpenBytes, At, Repairing, Failing
<1>19. ASSUME NEW g \in Files, Unlink(w, g) PROVE Accounted(f)'
  <2>1. PICK ok \in BOOLEAN :
          /\ bytes' = [bytes EXCEPT ![g] = IF ok THEN 0 ELSE @]
          /\ IF req[w].paths = {g}
               THEN Respond(w) /\ healthy' = (healthy /\ ok /\ ~req[w].failed)
               ELSE req' = [req EXCEPT ![w].paths = @ \ {g}, ![w].failed = @ \/ ~ok]
    BY <1>19 DEF Unlink
  <2>2. /\ req[w].step = "unlink" /\ g \in req[w].paths /\ row' = row
        /\ req[w].op = "delete" /\ req[w].paths \subseteq req[w].files
    BY <1>19, <1>shape DEF Unlink, Shape
  <2>3. PICK r : /\ req' = [req EXCEPT ![w] = r]
                 /\ \/ /\ r = Idle /\ ok /\ ~req[w].failed /\ req[w].paths = {g}
                    \/ /\ r.step = "unlink" /\ r.op = "delete" /\ r.files = req[w].files
                       /\ r.paths = req[w].paths \ {g} /\ (r.failed <=> req[w].failed \/ ~ok)
    <3>1. CASE req[w].paths = {g}
      BY <1>w, <2>1, <3>1 DEF Respond
    <3>2. CASE req[w].paths # {g}
      <4> DEFINE r == [req[w] EXCEPT !.paths = @ \ {g}, !.failed = @ \/ ~ok]
      <4>1. req' = [req EXCEPT ![w] = r]
        BY <2>1, <3>2
      <4>2. /\ r.step = "unlink" /\ r.op = "delete" /\ r.files = req[w].files
            /\ r.paths = req[w].paths \ {g}
        BY <2>2 DEF Request
      <4>3. r.failed <=> req[w].failed \/ ~ok
        BY DEF Request
      <4> HIDE DEF r
      <4> QED
        BY <4>1, <4>2, <4>3
    <3> QED
      BY <3>1, <3>2
  <2>4. req'[w] = r /\ row'[f] = row[f]
    BY <2>2, <2>3
  <2>5. CASE f \notin req[w].files
    <3>1. bytes'[f] = bytes[f]
      BY <2>1, <2>2, <2>5
    <3> QED
      BY <1>else, <1>idle, <2>2, <2>3, <2>4, <2>5, <3>1
  <2>6. CASE f \in req[w].files
    <3>1. \A v \in Workers \ {w} : f \notin req[v].files /\ ~Repairing(v, f)
      BY <1>apart, <1>shape, <2>2, <2>6
    <3>2. Knows(w, f)'
      BY <1>idle, <1>shape, <2>2, <2>3, <2>4 DEF Knows, At
    <3>3. \/ row'[f] = bytes'[f]
          \/ Repairing(w, f)' \/ Failing(w, f)'
          \/ bytes'[f] = bytes[f] /\ ~Repairing(w, f) /\ ~Failing(w, f)
      <4>1. CASE f = g /\ ok
        <5>1. row[f] = 0 /\ bytes'[f] = 0
          BY <1>shape, <2>1, <2>2, <4>1 DEF Knows
        <5> QED
          BY <2>4, <5>1
      <4>2. CASE f = g /\ ~ok
        BY <2>3, <2>4, <2>6, <4>2 DEF Failing
      <4>3. CASE f # g /\ r = Idle
        <5>1. ~req[w].failed /\ f \notin req[w].paths /\ bytes'[f] = bytes[f]
          BY <1>idle, <2>1, <2>3, <4>3
        <5> QED
          BY <2>2, <5>1 DEF Repairing, Failing
      <4>4. CASE f # g /\ r # Idle
        <5>1. bytes'[f] = bytes[f]
          BY <2>1, <4>4
        <5>2. CASE f \in req[w].paths
          BY <2>3, <2>4, <4>4, <5>2 DEF Repairing
        <5>3. CASE req[w].failed
          BY <2>3, <2>4, <2>6, <4>4, <5>3 DEF Failing
        <5>4. CASE f \notin req[w].paths /\ ~req[w].failed
          BY <2>2, <5>1, <5>4 DEF Repairing, Failing
        <5> QED
          BY <5>2, <5>3, <5>4
      <4> QED
        BY <4>1, <4>2, <4>3, <4>4
    <3> QED
      BY <2>3, <2>4, <3>1, <3>2, <3>3, AccountedStep
  <2> QED
    BY <2>5, <2>6
\* The remaining steps on f end in a state in which f is not watched.
<1>20. ASSUME HandleFile(w, f) PROVE Accounted(f)'
  <2>1. ~InsertRowFails(w, f) /\ ~UndoFails(w, f) /\ ~PromoteFails(w, f) /\ ~Restore(w, f)
    BY <1>w DEF InsertRowFails, UndoFails, PromoteFails, Restore
  <2> QED
    BY <1>9, <1>10, <1>11, <1>12, <1>13, <1>14, <1>15, <1>16, <1>17, <1>18, <1>19, <1>20, <2>1
    DEF HandleFile
<1> QED
  BY <1>1, <1>2, <1>3, <1>4, <1>5, <1>6, <1>7, <1>8, <1>19, <1>20 DEF Handle

\* The invariant that accounts for every file that the code answers for.
LEMMA ReportInvariant == Spec => []ReportInv
<1>1. Init => ReportInv
  <2> SUFFICES ASSUME Init PROVE ReportInv
    OBVIOUS
  <2>1. TypeOK
    BY TypeInit
  <2>2. LockDiscipline
    BY DEF Init, LockDiscipline, Holds, Idle
  <2>3. RequestShape /\ \A f \in Files : Accounted(f)
    BY DEF Init, Idle, RequestShape, Shape, Accounted, NoMeeting, Knows, At, OneMends,
       Answered, Repairing
  <2> QED
    BY <2>1, <2>2, <2>3 DEF ReportInv
<1>2. ReportInv /\ [Next]_vars => ReportInv'
  <2> SUFFICES ASSUME ReportInv, [Next]_vars PROVE ReportInv'
    OBVIOUS
  <2>1. TypeOK /\ LockDiscipline /\ RequestShape
    BY DEF ReportInv
  <2>2. TypeOK' /\ LockDiscipline' /\ RequestShape'
    BY <2>1, TypeStep, LockStep, ShapeStep
  <2>3. ASSUME NEW f \in Files, Watched(f)' PROVE Accounted(f)'
    <3>1. CASE Restart
      <4>1. row[f] = bytes[f]
        <5> SUFFICES ASSUME row[f] # bytes[f] PROVE FALSE
          OBVIOUS
        <5>1. healthy /\ ~Underway(f) /\ f \notin excused
          BY <2>3, <3>1 DEF Restart, Watched
        <5>2. Watched(f)
          BY <5>1 DEF Watched, Underway, At
        <5>3. PICK w \in Workers : Repairing(w, f) \/ Failing(w, f)
          BY <5>2 DEF ReportInv, Accounted, Answered
        <5> QED
          BY <2>1, <5>1, <5>3 DEF Repairing, Failing, Underway, RequestShape, Shape
      <4> QED
        BY <3>1, <4>1 DEF Restart, Idle, Accounted, NoMeeting, Knows, At, OneMends, Answered,
           Repairing
    <3>2. CASE UNCHANGED vars
      <4>1. Watched(f)
        BY <2>3, <3>2 DEF vars, Watched, At
      <4> QED
        BY <3>2, <4>1 DEF ReportInv, vars, Accounted, NoMeeting, Knows, At, OneMends, Answered,
           Repairing, Failing
    <3>3. ASSUME NEW o \in Objects, CreateObject(o) PROVE Accounted(f)'
      <4>1. Watched(f)
        BY <2>1, <2>3, <3>3, WatchedBefore
      <4> QED
        BY <3>3, <4>1 DEF ReportInv, CreateObject, Accounted, NoMeeting, Knows, At, OneMends,
           Answered, Repairing, Failing
    <3>4. ASSUME NEW w \in Workers, Handle(w) PROVE Accounted(f)'
      <4>1. Watched(f)
        BY <2>1, <2>3, <3>4, WatchedBefore
      <4> QED
        BY <2>1, <2>3, <3>4, <4>1, ReportStep DEF ReportInv
    <3> QED
      BY <3>1, <3>2, <3>3, <3>4 DEF Next
  <2> QED
    BY <2>2, <2>3 DEF ReportInv
<1> QED
  BY <1>1, <1>2, PTL DEF Spec

\* Whatever fails and however requests overlap, bytes that are not what their row
\* says show in the readiness of the store, unless the file is one whose mismatch
\* the code could not notice.
THEOREM MismatchesReported == Spec => []MismatchReported
<1>1. ReportInv => MismatchReported
  <2> SUFFICES ASSUME ReportInv, NEW f \in Files, Settled(f), healthy, f \notin excused
               PROVE  bytes[f] = row[f]
    BY DEF MismatchReported
  <2>1. Watched(f)
    BY DEF Watched, Settled, At
  <2> QED
    BY <2>1 DEF ReportInv, RequestShape, Shape, Accounted, Answered, Repairing, Failing, Settled
<1> QED
  BY <1>1, ReportInvariant, PTL
-----------------------------------------------------------------------------
(* Clients that send deletes alone, and nothing that fails: only a read that      *)
(* another request overlaps degrades the readiness of the store.                 *)

\* A step of w that marks a mismatch is a read of bytes that are not what the read
\* expects.
LEMMA MarksByRead ==
  ASSUME Faults = {}, AlarmInv, NEW w \in Workers, Handle(w), healthy, ~healthy'
  PROVE  \E f \in Files : OpenBytes(w, f) /\ bytes[f] # req[w].size
<1> USE DEF AlarmInv, IInv
<1>1. ASSUME NEW f \in Files, OpenBytes(w, f) PROVE bytes[f] # req[w].size
  BY <1>1 DEF OpenBytes
<1>2. ASSUME NEW f \in Files, Revert(w, f) PROVE FALSE
  BY <1>2 DEF Revert, StepKnows, Knows
<1>3. ASSUME NEW f \in Files, Unlink(w, f) PROVE FALSE
  BY <1>3 DEF Unlink
<1>4. ASSUME NEW f \in Files, Restore(w, f) PROVE FALSE
  BY <1>4 DEF Restore, At, RequestShape, Shape
<1>5. ASSUME NEW f \in Files, HandleFile(w, f) PROVE OpenBytes(w, f)
  BY <1>2, <1>3, <1>4, <1>5 DEF HandleFile, InsertRow, InsertRowFails, Promote,
     PromoteFails, Append, AppendStops, Undo, UndoFails, CommitAppend, UpdateFails,
     CommitAppendFails
<1> QED
  BY <1>1, <1>5 DEF Handle, Stage, LockRow, ReadRow, DeleteRow, DeleteFileRows,
     DeleteObjects, Abandon

\* No removal fails, so no delete has a failure to report.
LEMMA NoneFails ==
  ASSUME Faults = {}, TypeOK, \A v \in Workers : ~req[v].failed, NEW w \in Workers, Handle(w)
  PROVE  \A v \in Workers : ~req'[v].failed
<1> USE DEF TypeOK
<1>set. ASSUME NEW r, req' = [req EXCEPT ![w] = r], ~r.failed
        PROVE  \A v \in Workers : ~req'[v].failed
  BY <1>set
<1>leave. ASSUME Respond(w) PROVE \A v \in Workers : ~req'[v].failed
  BY <1>leave DEF Respond, Idle
<1>go. ASSUME NEW step, Goto(w, step) PROVE \A v \in Workers : ~req'[v].failed
  BY <1>go, <1>set, RequestFields DEF Goto
<1>start. ASSUME NEW op, NEW step, NEW files, NEW size, NEW paths,
                 Start(w, op, step, files, size, paths)
          PROVE  \A v \in Workers : ~req'[v].failed
  BY <1>start DEF Start
<1>1. CASE Stage(w) \/ LockRow(w) \/ ReadRow(w) \/ DeleteRow(w) \/ DeleteFileRows(w)
  BY <1>1, <1>start DEF Stage, LockRow, ReadRow, DeleteRow, DeleteFileRows
<1>2. CASE DeleteObjects(w) \/ Abandon(w)
  BY <1>2, <1>go, <1>leave DEF DeleteObjects, Abandon
<1>3. ASSUME NEW f \in Files, Append(w, f) PROVE \A v \in Workers : ~req'[v].failed
  <2>1. PICK n \in Sizes :
          req' = [req EXCEPT ![w].step = "commit", ![w].pre = bytes[f],
                             ![w].size = bytes[f] + n]
    BY <1>3 DEF Append
  <2> QED
    BY <2>1 DEF Request
<1>4. ASSUME NEW f \in Files, AppendStops(w, f) PROVE \A v \in Workers : ~req'[v].failed
  BY <1>4 DEF AppendStops, Request
<1>5. ASSUME NEW f \in Files, Unlink(w, f) PROVE \A v \in Workers : ~req'[v].failed
  <2>1. CASE req[w].paths = {f}
    BY <1>5, <1>leave, <2>1 DEF Unlink
  <2>2. CASE req[w].paths # {f}
    <3>1. req' = [req EXCEPT ![w].paths = @ \ {f}, ![w].failed = @ \/ ~TRUE]
      BY <1>5, <2>2 DEF Unlink
    <3> DEFINE r == [req[w] EXCEPT !.paths = @ \ {f}, !.failed = @ \/ ~TRUE]
    <3>2. req' = [req EXCEPT ![w] = r]
      BY <3>1
    <3>3. r.failed => req[w].failed
      BY DEF Request
    <3> HIDE DEF r
    <3> QED
      BY <1>set, <3>2, <3>3
  <2> QED
    BY <2>1, <2>2
<1>6. ASSUME NEW f \in Files, HandleFile(w, f) PROVE \A v \in Workers : ~req'[v].failed
  BY <1>3, <1>4, <1>5, <1>6, <1>go, <1>leave
  DEF HandleFile, InsertRow, InsertRowFails, Promote, PromoteFails, Undo, UndoFails,
      CommitAppend, UpdateFails, Revert, CommitAppendFails, Restore, OpenBytes
<1> QED
  BY <1>1, <1>2, <1>6 DEF Handle

LEMMA AlarmStep ==
  ASSUME "delete" \in Alone, Faults = {}, AlarmInv, [Next]_vars
  PROVE  AlarmInv'
<1> USE DEF AlarmInv
<1>1. IInv'
  BY TypeStep, LockStep, RowsStep DEF IInv, RowsAndBytes
<1>2. ASSUME NEW w \in Workers, Handle(w) PROVE AlarmInv'
  BY <1>1, <1>2, NoneFails DEF IInv
<1>3. CASE Restart
  BY <1>3 DEF Restart
<1>4. ASSUME NEW o \in Objects, CreateObject(o) PROVE AlarmInv'
  BY <1>1, <1>4 DEF CreateObject
<1>5. CASE UNCHANGED vars
  BY <1>1, <1>5 DEF vars
<1> QED
  BY <1>2, <1>3, <1>4, <1>5 DEF Next

\* An append that reverts and a delete that unlinks never mark a mismatch by mistake,
\* and a read does so only if another request has changed the row since the read or
\* is between its steps on the row and the bytes.
THEOREM AlarmsOnlyByRace ==
  ASSUME "delete" \in Alone, Faults = {} PROVE Spec => AlarmsAreRaces
<1>1. Init /\ IInv => AlarmInv
  BY DEF Init, AlarmInv, Idle
<1>2. AlarmInv /\ [Next]_vars => AlarmInv'
  BY AlarmStep
<1>3. AlarmInv /\ [Next]_vars =>
        [healthy /\ ~healthy' =>
           \E w \in Workers, f \in Files :
             /\ At(w, "stat", f) /\ req'[w] = Idle
             /\ row[f] # req[w].size \/ \E v \in Workers : Repairing(v, f)]_healthy
  <2> SUFFICES ASSUME AlarmInv, [Next]_vars, healthy, ~healthy'
               PROVE  \E w \in Workers, f \in Files :
                        /\ At(w, "stat", f) /\ req'[w] = Idle
                        /\ row[f] # req[w].size \/ \E v \in Workers : Repairing(v, f)
    OBVIOUS
  <2>1. PICK w \in Workers : Handle(w)
    BY DEF Next, Restart, CreateObject, vars
  <2>2. PICK f \in Files : OpenBytes(w, f) /\ bytes[f] # req[w].size
    BY <2>1, MarksByRead
  <2>3. At(w, "stat", f) /\ req'[w] = Idle
    BY <2>2 DEF OpenBytes, Respond, AlarmInv, IInv, TypeOK
  <2>4. row[f] = bytes[f] \/ \E v \in Workers : Repairing(v, f)
    BY DEF AlarmInv, IInv, InStep
  <2> QED
    BY <2>2, <2>3, <2>4
<1>4. Spec => []IInv
  BY Invariant
<1> QED
  BY <1>1, <1>2, <1>3, <1>4, PTL DEF Spec, AlarmsAreRaces
=============================================================================
