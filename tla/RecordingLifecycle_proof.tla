----------------------- MODULE RecordingLifecycle_proof -----------------------
(***************************************************************************)
(* Proofs about RecordingLifecycle, for any recordings, meetings, bounds    *)
(* and faults: what is committed is stored, what is deleted is unreadable,  *)
(* the cleanup leaves no overdue recording out, and the rows live as        *)
(* RecordingService promises.                                               *)
(***************************************************************************)
EXTENDS RecordingLifecycle, FiniteSetTheorems, TLAPS

-----------------------------------------------------------------------------
(* Types, with the shape of the request in progress. *)

Shape ==
    /\ op.kind = "none" <=> op.pc = "done"
    /\ op.kind = "prepare" <=> op.pc = "insert"
    /\ op.kind = "write" <=> op.pc \in {"publish", "rename", "commit"}
    /\ op.kind = "write" => op.index \in Indexes
    /\ op.pc \notin {"done", "next"} => op.rec \in Recs

Typed == TypeOK /\ Shape

LEMMA NoRowType == NoRow \in Row
BY DEF NoRow, Row, RowStates, DeletionStates, FailureCodes, DeletionFailures

LEMMA NoOpType == NoOp \in Ops /\ NoOp.kind = "none" /\ NoOp.pc = "done"
BY NoRowType DEF NoOp, Ops

LEMMA SaveType ==
  ASSUME row \in [Recs -> Row], NEW r \in Recs, NEW c \in Row, Save(r, c)
  PROVE  row' \in [Recs -> Row]
BY DEF Save

\* The updates of a row by the use cases of a recording leave a row a row.
LEMMA UpdateTypes ==
  ASSUME NEW c \in Row
  PROVE  /\ \A s \in RowStates : [c EXCEPT !.state = s] \in Row
         /\ \A s \in RowStates, n \in Nat : [c EXCEPT !.state = s, !.count = n] \in Row
         /\ \A s \in RowStates, f \in FailureCodes :
               [c EXCEPT !.state = s, !.failure = f] \in Row
         /\ \A i, n \in Nat : [c EXCEPT !.index = i, !.timings = n] \in Row
         /\ \A e \in Nat, p \in BOOLEAN, d \in DeletionStates, f \in FailureCodes :
               [c EXCEPT !.expires = e, !.protected = p, !.deletion = d,
                         !.failure = f] \in Row
<1> USE DEF Row
<1>1. \A s \in RowStates : [c EXCEPT !.state = s] \in Row OBVIOUS
<1>2. \A s \in RowStates, n \in Nat : [c EXCEPT !.state = s, !.count = n] \in Row OBVIOUS
<1>3. \A s \in RowStates, f \in FailureCodes :
         [c EXCEPT !.state = s, !.failure = f] \in Row
  OBVIOUS
<1>4. \A i, n \in Nat : [c EXCEPT !.index = i, !.timings = n] \in Row OBVIOUS
<1>5. \A e \in Nat, p \in BOOLEAN, d \in DeletionStates, f \in FailureCodes :
         [c EXCEPT !.expires = e, !.protected = p, !.deletion = d, !.failure = f] \in Row
  OBVIOUS
<1> QED BY <1>1, <1>2, <1>3, <1>4, <1>5

\* The marks of a deletion leave a row a row.
LEMMA MarkTypes ==
  ASSUME NEW c \in Row
  PROVE  /\ MarkDeleting(c) \in Row
         /\ MarkDeleted(c) \in Row
         /\ \A code \in DeletionFailures : MarkDeletionFailed(c, code) \in Row
         /\ MarkStorageMissing(c) \in Row
<1> USE DEF Row, RowStates, DeletionStates, FailureCodes, DeletionFailures
<1>1. MarkDeleting(c) \in Row BY DEF MarkDeleting
<1>2. MarkDeleted(c) \in Row BY DEF MarkDeleted
<1>3. \A code \in DeletionFailures : MarkDeletionFailed(c, code) \in Row
  BY DEF MarkDeletionFailed
<1>4. MarkStorageMissing(c) \in Row BY DEF MarkStorageMissing
<1> QED BY <1>1, <1>2, <1>3, <1>4

LEMMA InitTyped == Init => Typed
BY NoRowType, NoOpType DEF Init, Typed, TypeOK, Shape

LEMMA PreparingTyped == ASSUME Typed, Preparing PROVE Typed'
<1> USE DEF Typed, disk
<1>1. CASE \E m \in Meetings : StartMeeting(m) \/ EndMeeting(m)
  BY <1>1 DEF StartMeeting, EndMeeting, TypeOK, Shape
<1>2. ASSUME NEW m \in Meetings, NEW r \in Recs, NEW timed \in BOOLEAN,
             PrepareKey(m, r, timed)
      PROVE  Typed'
  <2>1. ExpiryFrom(timed) \in Nat /\ Scheduled(timed) \in DeletionStates
    BY DEF ExpiryFrom, Scheduled, DeletionStates, TypeOK
  <2>2. op'.new = [NoRow EXCEPT !.state = "pending", !.meeting = m, !.id = rowid,
                      !.expires = ExpiryFrom(timed), !.deletion = Scheduled(timed)]
    BY <1>2, NoOpType DEF PrepareKey, Ops
  <2>3. op'.new \in Row
    BY <2>1, <2>2, NoRowType DEF Row, RowStates, TypeOK
  <2>4. op' \in Ops /\ Shape'
    BY <1>2, <2>3, NoOpType DEF PrepareKey, Ops, NoOp, Shape
  <2> QED BY <1>2, <2>4 DEF PrepareKey, TypeOK
<1>3. CASE PrepareInsert
  <2>1. op.rec \in Recs /\ op.new \in Row BY <1>3 DEF PrepareInsert, Shape, TypeOK, Ops
  <2>2. row' \in [Recs -> Row] BY <1>3, <2>1, SaveType DEF PrepareInsert, TypeOK
  <2> QED BY <1>3, <2>2, NoOpType DEF PrepareInsert, TypeOK, Shape
<1>4. CASE PrepareFails
  BY <1>4, NoOpType DEF PrepareFails, TypeOK, Shape
<1>5. ASSUME NEW r \in Recs, MarkStarted(r) PROVE Typed'
  <2>1. row' \in [Recs -> Row]
    BY <1>5, SaveType DEF MarkStarted, TypeOK, Row, RowStates
  <2> QED BY <1>5, <2>1 DEF MarkStarted, TypeOK, Shape
<1> QED BY <1>1, <1>2, <1>3, <1>4, <1>5 DEF Preparing

LEMMA WritingTyped == ASSUME Typed, Writing PROVE Typed'
<1> USE DEF Typed, disk
<1>1. ASSUME NEW r \in Recs, NEW i \in Indexes, WriteCheck(r, i) PROVE Typed'
  <2>1. i \in Nat BY ConstantsAssumption DEF Indexes
  <2>2. op' \in Ops /\ Shape'
    BY <1>1, <2>1, NoOpType DEF WriteCheck, Ops, NoOp, Shape
  <2> QED BY <1>1, <2>2 DEF WriteCheck, TypeOK
<1>2. CASE WritePartial
  BY <1>2 DEF WritePartial, At, TypeOK, Shape, Ops
<1>3. CASE WritePublish
  BY <1>3 DEF WritePublish, At, TypeOK, Shape, Ops
<1>4. CASE WriteFails
  BY <1>4, NoOpType DEF WriteFails, TypeOK, Shape
<1>5. CASE WriteCommit
  <2>1. op.rec \in Recs /\ op.index + 1 \in Nat
    BY <1>5 DEF WriteCommit, At, TypeOK, Shape, Ops
  <2>a. row[op.rec] \in Row /\ row[op.rec].timings + 1 \in Nat
    BY <2>1 DEF TypeOK, Row
  <2>2. [row[op.rec] EXCEPT !.index = op.index + 1, !.timings = @ + 1] \in Row
    BY <2>1, <2>a DEF Row
  <2>3. row' \in [Recs -> Row]
    BY <1>5, <2>1, <2>2, SaveType DEF WriteCommit, TypeOK
  <2> QED BY <1>5, <2>3, NoOpType DEF WriteCommit, TypeOK, Shape
<1>6. CASE WriteCompensate
  BY <1>6, NoOpType DEF WriteCompensate, TypeOK, Shape
<1>7. ASSUME NEW r \in Recs, NEW n \in 0 .. MaxSegments, NEW exact \in BOOLEAN,
             Finalize(r, n, exact)
      PROVE  Typed'
  <2>a. n \in Nat BY ConstantsAssumption
  <2>1. [row[r] EXCEPT !.state = "completed", !.count = n] \in Row
    BY <2>a, UpdateTypes DEF TypeOK, RowStates
  <2>2. row' \in [Recs -> Row] BY <1>7, <2>1, SaveType DEF Finalize, TypeOK
  <2> QED BY <1>7, <2>2 DEF Finalize, TypeOK, Shape
<1>8. ASSUME NEW r \in Recs, MarkFailed(r) PROVE Typed'
  <2>1. [row[r] EXCEPT !.state = "failed", !.failure = CaptureFailed] \in Row
    BY UpdateTypes DEF TypeOK, RowStates, FailureCodes
  <2>2. row' \in [Recs -> Row] BY <1>8, <2>1, SaveType DEF MarkFailed, TypeOK
  <2> QED BY <1>8, <2>2 DEF MarkFailed, TypeOK, Shape
<1> QED BY <1>1, <1>2, <1>3, <1>4, <1>5, <1>6, <1>7, <1>8 DEF Writing

LEMMA DeletingTyped == ASSUME Typed, Deleting PROVE Typed'
<1> USE DEF Typed, disk
<1>1. ASSUME NEW m \in Meetings, NEW r \in Recs, DeleteAudio(m, r) PROVE Typed'
  <2>1. row' \in [Recs -> Row]
    BY <1>1, SaveType, MarkTypes DEF DeleteAudio, TypeOK
  <2>2. op' \in Ops /\ Shape'
    BY <1>1, NoOpType DEF DeleteAudio, Ops, NoOp, Shape
  <2> QED BY <1>1, <2>1, <2>2 DEF DeleteAudio, TypeOK
<1>2. ASSUME NEW m \in Meetings, NEW r \in Recs, NEW timed \in BOOLEAN,
             NEW protected \in BOOLEAN, UpdateRetention(m, r, timed, protected)
      PROVE  Typed'
  <2>1. ExpiryFrom(timed) \in Nat /\ Scheduled(timed /\ ~protected) \in DeletionStates
    BY DEF ExpiryFrom, Scheduled, DeletionStates, TypeOK
  <2>2. PICK code \in FailureCodes :
          Save(r, [row[r] EXCEPT !.expires = ExpiryFrom(timed), !.protected = protected,
                                 !.deletion = Scheduled(timed /\ ~protected),
                                 !.failure = code])
    BY <1>2 DEF UpdateRetention, TypeOK, Row, FailureCodes
  <2>3. [row[r] EXCEPT !.expires = ExpiryFrom(timed), !.protected = protected,
                       !.deletion = Scheduled(timed /\ ~protected),
                       !.failure = code] \in Row
    BY <2>1, UpdateTypes DEF TypeOK
  <2>4. row' \in [Recs -> Row] BY <2>2, <2>3, SaveType DEF TypeOK
  <2> QED BY <1>2, <2>4 DEF UpdateRetention, TypeOK, Shape
<1>3. ASSUME NEW i \in Indexes, RemoveFile(i) PROVE Typed'
  BY <1>3 DEF RemoveFile, TypeOK, Shape
<1>4. CASE RemoveDirectory \/ IgnoreErrors
  BY <1>4 DEF RemoveDirectory, IgnoreErrors, At, TypeOK, Shape, Ops
<1>5. ASSUME At("files") \/ At("key") \/ At("row"), Proceed \/ GiveUp
      PROVE  op' \in Ops /\ Shape'
  <2>1. op.rec \in Recs /\ op.kind \notin {"none", "prepare", "write"}
    BY <1>5 DEF At, TypeOK, Shape, Ops
  <2>2. CASE op' = NoOp BY <2>2, NoOpType DEF Shape, NoOp
  <2>3. CASE op.kind # "delete" /\ Proceed
    BY <2>1, <2>3 DEF Proceed, TypeOK, Shape, Ops
  <2>4. CASE op.kind # "delete" /\ GiveUp
    <3> DEFINE failed == op.failed \cup {op.rec}
    <3>1. failed \in SUBSET Recs BY <2>1 DEF TypeOK, Ops
    <3>2. op' = [op EXCEPT !.pc = "next", !.rec = NoRec, !.failed = failed]
      BY <2>4 DEF GiveUp
    <3> HIDE DEF failed
    <3> QED BY <2>1, <3>1, <3>2 DEF TypeOK, Shape, Ops
  <2> QED BY <1>5, <2>2, <2>3, <2>4 DEF Proceed, GiveUp
<1>6. ASSUME At("files") \/ At("key") \/ At("row"), NEW code \in DeletionFailures,
             \/ Save(op.rec, MarkDeletionFailed(row[op.rec], code))
             \/ UNCHANGED row
      PROVE  row' \in [Recs -> Row]
  BY <1>6, SaveType, MarkTypes DEF At, TypeOK, Shape
<1> USE DEF DeletionFailures
<1>7. CASE StorageFails
  BY <1>5, <1>6, <1>7 DEF StorageFails, TypeOK
<1>8. CASE DeleteKey
  BY <1>5, <1>8 DEF DeleteKey, At, TypeOK, Shape, Ops
<1>9. CASE KeyFails
  BY <1>5, <1>6, <1>9 DEF KeyFails, TypeOK
<1>10. CASE RowDeleted
  <2>1. row' \in [Recs -> Row]
    BY <1>10, SaveType, MarkTypes DEF RowDeleted, At, TypeOK, Shape
  <2> QED BY <1>5, <1>10, <2>1 DEF RowDeleted, TypeOK
<1>11. CASE RowFails
  BY <1>5, <1>6, <1>11 DEF RowFails, TypeOK
<1> QED
  BY <1>1, <1>2, <1>3, <1>4, <1>7, <1>8, <1>9, <1>10, <1>11 DEF Deleting

LEMMA TodoShrinks ==
  ASSUME Typed, NEW r \in Recs, op.pc = "next", Visited(r) \/ Reported(r)
  PROVE  /\ op' \in Ops /\ Shape'
         /\ op'.pc = "next" /\ op'.kind = op.kind /\ op'.todo = op.todo \ {r}
<1> DEFINE failed == op.failed \cup {r}
<1>a. failed \in SUBSET Recs BY DEF Typed, TypeOK, Ops
<1>b. CASE Visited(r) BY <1>b DEF Typed, TypeOK, Ops, Shape, Visited
<1>c. CASE Reported(r)
  <2>1. op' = [op EXCEPT !.todo = @ \ {r}, !.failed = failed] BY <1>c DEF Reported
  <2> HIDE DEF failed
  <2> QED BY <1>a, <2>1 DEF Typed, TypeOK, Ops, Shape
<1> QED BY <1>b, <1>c

LEMMA MaintainingTyped == ASSUME Typed, Maintaining PROVE Typed'
<1> USE DEF Typed, disk, DeletionFailures
<1>1. CASE CleanupList
  BY <1>1, NoOpType DEF CleanupList, Expired, NoOp, Ops, TypeOK, Shape
<1>2. CASE ReconcileList
  BY <1>2, NoOpType DEF ReconcileList, NoOp, Ops, TypeOK, Shape
<1>3. CASE MaintenanceDone
  BY <1>3, NoOpType DEF MaintenanceDone, TypeOK, Shape
<1>4. ASSUME NEW r \in Recs, CleanupNext(r) PROVE Typed'
  <2>1. row' \in [Recs -> Row]
    BY <1>4, SaveType, MarkTypes DEF CleanupNext, TypeOK
  <2>2. op' \in Ops /\ Shape'
    <3>1. CASE Reported(r)
      BY <1>4, <3>1, TodoShrinks DEF CleanupNext, At
    <3>2. CASE op' = [op EXCEPT !.todo = @ \ {r}, !.pc = "files", !.rec = r]
      BY <1>4, <3>2 DEF CleanupNext, At, TypeOK, Shape, Ops
    <3> QED BY <1>4, <3>1, <3>2 DEF CleanupNext
  <2> QED BY <1>4, <2>1, <2>2 DEF CleanupNext, TypeOK
<1>5. ASSUME NEW r \in Recs, CleanupSkips(r) PROVE Typed'
  <2>1. row' \in [Recs -> Row]
    BY <1>5, SaveType, MarkTypes DEF CleanupSkips, TypeOK
  <2>2. op' \in Ops /\ Shape'
    BY <1>5, TodoShrinks DEF CleanupSkips, At
  <2> QED BY <1>5, <2>1, <2>2 DEF CleanupSkips, TypeOK
<1>6. ASSUME NEW r \in Recs, ReconcileNext(r) PROVE Typed'
  <2>1. row' \in [Recs -> Row]
    BY <1>6, SaveType, MarkTypes DEF ReconcileNext, TypeOK
  <2>2. op' \in Ops /\ Shape'
    <3>1. CASE row[r].state = "deleted"
      <4> DEFINE there == r \in dirs
                 owned == r \in keys
      <4>1. op' = [op EXCEPT !.todo = @ \ {r},
                       !.pc = IF there THEN "files" ELSE IF owned THEN "key" ELSE "next",
                       !.rec = IF there \/ owned THEN r ELSE NoRec]
        BY <1>6, <3>1 DEF ReconcileNext
      <4> QED BY <1>6, <4>1 DEF ReconcileNext, At, TypeOK, Shape, Ops
    <3>2. CASE row[r].state # "deleted"
      BY <1>6, <3>2, TodoShrinks DEF ReconcileNext, At
    <3> QED BY <3>1, <3>2
  <2> QED BY <1>6, <2>1, <2>2 DEF ReconcileNext, TypeOK
<1>7. ASSUME NEW r \in Recs, ReconcileSkips(r) PROVE Typed'
  <2>1. row' \in [Recs -> Row]
    BY <1>7, SaveType, MarkTypes DEF ReconcileSkips, TypeOK
  <2>2. op' \in Ops /\ Shape'
    BY <1>7, TodoShrinks DEF ReconcileSkips, At
  <2> QED BY <1>7, <2>1, <2>2 DEF ReconcileSkips, TypeOK
<1> QED BY <1>1, <1>2, <1>3, <1>4, <1>5, <1>6, <1>7 DEF Maintaining

LEMMA TypedStep == Typed /\ [Next]_vars => Typed'
<1> SUFFICES ASSUME Typed, [Next]_vars PROVE Typed' OBVIOUS
<1>1. CASE Crash
  BY <1>1, NoOpType DEF Crash, Typed, TypeOK, Shape, disk
<1>2. CASE Tick
  BY <1>2 DEF Tick, Typed, TypeOK, Shape, disk
<1>3. CASE UNCHANGED vars
  BY <1>3 DEF vars, Typed, TypeOK, Shape
<1> QED
  BY <1>1, <1>2, <1>3, PreparingTyped, WritingTyped, DeletingTyped, MaintainingTyped
  DEF Next

\* Every store and the request in progress keep their types.
THEOREM TypeCorrect == Spec => []TypeOK
<1>1. Typed => TypeOK BY DEF Typed
<1> QED BY <1>1, InitTyped, TypedStep, PTL DEF Spec

-----------------------------------------------------------------------------
(* The inductive invariant: what a request between two of its writes relies *)
(* on.  A write holds a running recording whose next index is its own; a    *)
(* deletion holds a row that was marked and is not running; no other        *)
(* request can change that row before the request in progress is over.      *)

RequestInv ==
    /\ op.kind = "prepare" =>
         /\ row[op.rec].state = "none"
         /\ op.new.state = "pending" /\ op.new.timings = 0 /\ op.new.index = 0
    /\ op.kind = "write" =>
         /\ Active(op.rec)
         /\ row[op.rec].timings = op.index
         /\ op.pc # "publish" => op.rec \in keys
         /\ op.pc = "commit" => op.index \in files[op.rec]

DeletionInv ==
    /\ op.pc \in {"files", "key", "row"} =>
         /\ op.kind \in {"delete", "cleanup", "reconcile"}
         /\ row[op.rec].state \notin {"none", "recording"}
         /\ row[op.rec].deletion \in {"deleting", "deleted"}
         /\ op.rec \notin op.todo
         /\ op.kind # "reconcile" => row[op.rec].state # "deleted"
         /\ op.pc = "row" => op.kind # "reconcile" /\ op.rec \notin keys
    /\ \A r \in op.todo : row[r].state # "none"
    /\ op.kind # "reconcile" => \A r \in op.todo : row[r].state # "deleted"

\* One row and its resources.
RowOK(r) ==
    /\ row[r].state = "none" => row[r].timings = 0
    /\ row[r].state = "pending" => row[r].timings = 0 /\ row[r].index = 0
    /\ row[r].state = "deleted" => row[r].deletion = "deleted" /\ r \notin keys
    /\ Active(r) => /\ row[r].index = row[r].timings
                    /\ 0 .. row[r].timings - 1 \subseteq files[r]
                    /\ row[r].timings > 0 => r \in keys
    /\ files[r] \cup partial[r] \subseteq 0 .. row[r].timings

RowsOK == \A r \in Recs : RowOK(r)

Inv == RequestInv /\ DeletionInv /\ RowsOK

LEMMA InitInv == Init => Inv
BY DEF Init, Inv, RequestInv, DeletionInv, RowsOK, RowOK, Active, NoRow, NoOp

LEMMA PreparingInv == ASSUME Typed, Inv, Preparing PROVE Inv'
<1> USE DEF Typed, Inv, disk
<1>1. CASE \E m \in Meetings : StartMeeting(m) \/ EndMeeting(m)
  BY <1>1 DEF StartMeeting, EndMeeting, RequestInv, DeletionInv, RowsOK, RowOK, Active
<1>2. ASSUME NEW m \in Meetings, NEW r \in Recs, NEW timed \in BOOLEAN,
             PrepareKey(m, r, timed)
      PROVE  Inv'
  <2>1. RequestInv' /\ DeletionInv'
    BY <1>2 DEF PrepareKey, NoOp, NoRow, RequestInv, DeletionInv, Active
  <2>2. RowsOK'
    BY <1>2 DEF PrepareKey, RowsOK, RowOK, Active
  <2> QED BY <2>1, <2>2
<1>3. CASE PrepareInsert
  <2>1. RequestInv' /\ DeletionInv'
    BY <1>3, NoOpType DEF PrepareInsert, NoOp, RequestInv, DeletionInv, Active
  <2>2. RowsOK'
    BY <1>3 DEF PrepareInsert, Save, RequestInv, RowsOK, RowOK, Active, TypeOK, Shape
  <2> QED BY <2>1, <2>2
<1>4. CASE PrepareFails
  <2>1. RequestInv' /\ DeletionInv'
    BY <1>4, NoOpType DEF PrepareFails, NoOp, RequestInv, DeletionInv, Active
  <2>2. RowsOK'
    BY <1>4 DEF PrepareFails, RequestInv, RowsOK, RowOK, Active, TypeOK, Shape
  <2> QED BY <2>1, <2>2
<1>5. ASSUME NEW r \in Recs, MarkStarted(r) PROVE Inv'
  <2>1. RequestInv' /\ DeletionInv'
    BY <1>5, NoOpType DEF MarkStarted, Idle, NoOp, RequestInv, DeletionInv, Active
  <2>2. RowsOK'
    BY <1>5 DEF MarkStarted, Save, RowsOK, RowOK, Active, TypeOK, Row
  <2> QED BY <2>1, <2>2
<1> QED BY <1>1, <1>2, <1>3, <1>4, <1>5 DEF Preparing

LEMMA WritingInv == ASSUME Typed, Inv, Writing PROVE Inv'
<1> USE DEF Typed, Inv, disk
<1>1. ASSUME NEW r \in Recs, NEW i \in Indexes, WriteCheck(r, i) PROVE Inv'
  BY <1>1, NoOpType DEF WriteCheck, NoOp, RequestInv, DeletionInv, RowsOK, RowOK, Active
<1>2. CASE WritePartial
  <2>1. RequestInv' /\ DeletionInv'
    BY <1>2 DEF WritePartial, At, RequestInv, DeletionInv, Active, TypeOK, Ops
  <2>2. RowsOK'
    BY <1>2 DEF WritePartial, At, RequestInv, RowsOK, RowOK, Active, TypeOK, Shape, Ops
  <2> QED BY <2>1, <2>2
<1>3. CASE WritePublish
  <2>1. RequestInv' /\ DeletionInv'
    BY <1>3 DEF WritePublish, At, RequestInv, DeletionInv, Active, TypeOK, Shape, Ops
  <2>2. RowsOK'
    BY <1>3 DEF WritePublish, At, RequestInv, RowsOK, RowOK, Active, TypeOK, Shape, Ops
  <2> QED BY <2>1, <2>2
<1>4. CASE WriteFails
  <2>1. RequestInv' /\ DeletionInv'
    BY <1>4, NoOpType DEF WriteFails, NoOp, RequestInv, DeletionInv
  <2>2. RowsOK'
    BY <1>4 DEF WriteFails, RowsOK, RowOK, Active, TypeOK, Shape
  <2> QED BY <2>1, <2>2
<1>5. CASE WriteCommit
  <2>1. RequestInv' /\ DeletionInv'
    BY <1>5, NoOpType DEF WriteCommit, NoOp, RequestInv, DeletionInv
  <2>2. RowsOK'
    BY <1>5 DEF WriteCommit, At, Save, StillWritable, RequestInv, RowsOK, RowOK, Active,
       TypeOK, Shape, Ops, Row
  <2> QED BY <2>1, <2>2
<1>6. CASE WriteCompensate
  <2>1. RequestInv' /\ DeletionInv'
    BY <1>6, NoOpType DEF WriteCompensate, NoOp, RequestInv, DeletionInv
  <2>2. RowsOK'
    BY <1>6 DEF WriteCompensate, At, RequestInv, RowsOK, RowOK, Active, TypeOK, Shape, Ops
  <2> QED BY <2>1, <2>2
<1>7. ASSUME NEW r \in Recs, NEW n \in 0 .. MaxSegments, NEW exact \in BOOLEAN,
             Finalize(r, n, exact)
      PROVE  Inv'
  <2>1. RequestInv' /\ DeletionInv'
    BY <1>7, NoOpType DEF Finalize, Idle, NoOp, RequestInv, DeletionInv
  <2>2. RowsOK'
    BY <1>7 DEF Finalize, Save, RowsOK, RowOK, Active, TypeOK, Row
  <2> QED BY <2>1, <2>2
<1>8. ASSUME NEW r \in Recs, MarkFailed(r) PROVE Inv'
  <2>1. RequestInv' /\ DeletionInv'
    BY <1>8, NoOpType DEF MarkFailed, Idle, NoOp, RequestInv, DeletionInv
  <2>2. RowsOK'
    BY <1>8 DEF MarkFailed, Save, RowsOK, RowOK, Active, TypeOK, Row
  <2> QED BY <2>1, <2>2
<1> QED BY <1>1, <1>2, <1>3, <1>4, <1>5, <1>6, <1>7, <1>8 DEF Writing

\* A row that is marked, not moved: what RowOK says of it stays true.
SameLife(c, d) == d.state = c.state /\ d.index = c.index /\ d.timings = c.timings

LEMMA MarksKeepLife ==
  ASSUME NEW c \in Row
  PROVE  /\ SameLife(c, MarkDeleting(c))
         /\ \A code \in DeletionFailures : SameLife(c, MarkDeletionFailed(c, code))
<1>1. SameLife(c, MarkDeleting(c)) BY DEF SameLife, MarkDeleting, Row
<1>2. \A code \in DeletionFailures : SameLife(c, MarkDeletionFailed(c, code))
  BY DEF SameLife, MarkDeletionFailed, Row
<1> QED BY <1>1, <1>2

LEMMA MarkKeepsRowsOK ==
  ASSUME TypeOK, RowsOK, NEW r \in Recs, row[r].state # "deleted",
         \/ \E code \in DeletionFailures : Save(r, MarkDeletionFailed(row[r], code))
         \/ Save(r, MarkDeleting(row[r])),
         UNCHANGED <<keys, files, partial>>
  PROVE  RowsOK' /\ \A q \in Recs : row'[q].state = row[q].state
<1>1. PICK c \in Row : SameLife(row[r], c) /\ Save(r, c)
  BY MarkTypes, MarksKeepLife DEF TypeOK
<1>2. \A q \in Recs : /\ SameLife(row[q], row'[q])
                      /\ q # r => row'[q] = row[q]
  BY <1>1 DEF Save, SameLife, TypeOK
<1> QED BY <1>2 DEF SameLife, RowsOK, RowOK, Active, TypeOK

LEMMA DeletingInv == ASSUME Typed, Inv, Deleting PROVE Inv'
<1> USE DEF Typed, Inv, disk
<1>a. \A code \in {"key_delete_failed", "storage_delete_failed", "reconciliation_failed"} :
        code \in DeletionFailures
  BY DEF DeletionFailures
<1>1. ASSUME NEW m \in Meetings, NEW r \in Recs, DeleteAudio(m, r) PROVE Inv'
  <2>1. RequestInv' /\ DeletionInv'
    BY <1>1, NoOpType DEF DeleteAudio, FoundFor, RowsOf, MarkDeleting, Save, NoOp,
       RequestInv, DeletionInv, Active, TypeOK, Row, Ops
  <2>2. RowsOK'
    BY <1>1 DEF DeleteAudio, MarkDeleting, Save, RowsOK, RowOK, Active, TypeOK, Row
  <2> QED BY <2>1, <2>2
<1>2. ASSUME NEW m \in Meetings, NEW r \in Recs, NEW timed \in BOOLEAN,
             NEW protected \in BOOLEAN, UpdateRetention(m, r, timed, protected)
      PROVE  Inv'
  <2>1. RequestInv' /\ DeletionInv'
    BY <1>2, NoOpType DEF UpdateRetention, Idle, NoOp, RequestInv, DeletionInv
  <2>2. RowsOK'
    BY <1>2 DEF UpdateRetention, Save, RowsOK, RowOK, Active, TypeOK, Row
  <2> QED BY <2>1, <2>2
<1>3. ASSUME NEW i \in Indexes, RemoveFile(i) PROVE Inv'
  <2>1. RequestInv' /\ DeletionInv'
    BY <1>3 DEF RemoveFile, At, RequestInv, DeletionInv, Active, TypeOK, Shape
  <2>2. RowsOK'
    BY <1>3 DEF RemoveFile, At, DeletionInv, RowsOK, RowOK, Active, TypeOK, Shape
  <2> QED BY <2>1, <2>2
<1>4. CASE RemoveDirectory \/ IgnoreErrors
  <2>1. RequestInv' /\ DeletionInv'
    BY <1>4 DEF RemoveDirectory, IgnoreErrors, At, RequestInv, DeletionInv, Active,
       TypeOK, Shape, Ops
  <2>2. RowsOK'
    BY <1>4 DEF RemoveDirectory, IgnoreErrors, RowsOK, RowOK, Active
  <2> QED BY <2>1, <2>2
<1>5. CASE StorageFails
  <2>1. RequestInv' /\ DeletionInv'
    <3>1. op.rec \in Recs /\ \A q \in Recs : row'[q].state = row[q].state
      BY <1>5, <1>a, MarkKeepsRowsOK DEF StorageFails, At, DeletionInv, Shape
    <3>2. CASE op.kind = "delete"
      BY <1>5, <3>2, NoOpType DEF StorageFails, GiveUp, NoOp, RequestInv, DeletionInv
    <3>3. CASE op.kind # "delete"
      BY <1>5, <3>1, <3>3 DEF StorageFails, GiveUp, At, RequestInv, DeletionInv, TypeOK,
         Shape, Ops
    <3> QED BY <3>2, <3>3
  <2>2. RowsOK'
    <3>1. CASE UNCHANGED row BY <1>5, <3>1 DEF StorageFails, RowsOK, RowOK, Active
    <3>2. CASE ~UNCHANGED row
      BY <1>5, <1>a, <3>2, MarkKeepsRowsOK DEF StorageFails, At, DeletionInv, Shape
    <3> QED BY <3>1, <3>2
  <2> QED BY <2>1, <2>2
<1>6. CASE DeleteKey
  <2>1. RequestInv' /\ DeletionInv'
    <3>1. op.rec \in Recs /\ op.kind \in {"delete", "cleanup", "reconcile"}
      BY <1>6 DEF DeleteKey, At, DeletionInv, Shape
    <3>2. CASE op.kind = "reconcile"
      BY <1>6, <3>2 DEF DeleteKey, Proceed, At, RequestInv, DeletionInv, TypeOK, Ops
    <3>3. CASE op.kind # "reconcile"
      BY <1>6, <3>1, <3>3 DEF DeleteKey, At, RequestInv, DeletionInv, TypeOK, Ops
    <3> QED BY <3>2, <3>3
  <2>2. RowsOK'
    BY <1>6 DEF DeleteKey, At, DeletionInv, RowsOK, RowOK, Active, TypeOK, Shape
  <2> QED BY <2>1, <2>2
<1>7. CASE KeyFails
  <2>1. RequestInv' /\ DeletionInv'
    <3>1. op.rec \in Recs /\ \A q \in Recs : row'[q].state = row[q].state
      BY <1>7, <1>a, MarkKeepsRowsOK DEF KeyFails, At, DeletionInv, Shape
    <3>2. CASE op.kind = "delete"
      BY <1>7, <3>2, NoOpType DEF KeyFails, GiveUp, NoOp, RequestInv, DeletionInv
    <3>3. CASE op.kind # "delete"
      BY <1>7, <3>1, <3>3 DEF KeyFails, GiveUp, At, RequestInv, DeletionInv, TypeOK,
         Shape, Ops
    <3> QED BY <3>2, <3>3
  <2>2. RowsOK'
    <3>1. CASE UNCHANGED row BY <1>7, <3>1 DEF KeyFails, RowsOK, RowOK, Active
    <3>2. CASE ~UNCHANGED row
      BY <1>7, <1>a, <3>2, MarkKeepsRowsOK DEF KeyFails, At, DeletionInv, Shape
    <3> QED BY <3>1, <3>2
  <2> QED BY <2>1, <2>2
<1>8. CASE RowDeleted
  <2>1. RequestInv' /\ DeletionInv'
    BY <1>8, NoOpType DEF RowDeleted, Proceed, At, Save, MarkDeleted, NoOp,
       RequestInv, DeletionInv, Active, TypeOK, Shape, Ops, Row
  <2>2. RowsOK'
    BY <1>8 DEF RowDeleted, At, Save, MarkDeleted, DeletionInv, RowsOK, RowOK,
       Active, TypeOK, Shape, Row
  <2> QED BY <2>1, <2>2
<1>9. CASE RowFails
  <2>1. RequestInv' /\ DeletionInv'
    <3>1. op.rec \in Recs /\ op.kind \in {"delete", "cleanup"}
      BY <1>9 DEF RowFails, At, DeletionInv, Shape
    <3>2. \A q \in Recs : row'[q].state = row[q].state
      BY <1>9, <1>a, <3>1, MarkKeepsRowsOK DEF RowFails, At, DeletionInv
    <3>3. CASE op.kind = "delete"
      BY <1>9, <3>3, NoOpType DEF RowFails, GiveUp, NoOp, RequestInv, DeletionInv
    <3>4. CASE op.kind = "cleanup"
      BY <1>9, <3>2, <3>4 DEF RowFails, GiveUp, At, RequestInv, DeletionInv, TypeOK, Ops
    <3> QED BY <3>1, <3>3, <3>4
  <2>2. RowsOK'
    <3>1. CASE UNCHANGED row BY <1>9, <3>1 DEF RowFails, RowsOK, RowOK, Active
    <3>2. CASE ~UNCHANGED row
      BY <1>9, <1>a, <3>2, MarkKeepsRowsOK DEF RowFails, At, DeletionInv, Shape
    <3> QED BY <3>1, <3>2
  <2> QED BY <2>1, <2>2
<1> QED
  BY <1>1, <1>2, <1>3, <1>4, <1>5, <1>6, <1>7, <1>8, <1>9 DEF Deleting

LEMMA MaintainingInv == ASSUME Typed, Inv, Maintaining PROVE Inv'
<1> USE DEF Typed, Inv, disk
<1>a. {"reconciliation_failed", "key_missing"} \subseteq DeletionFailures
  BY DEF DeletionFailures
<1>1. CASE CleanupList \/ ReconcileList
  <2>1. RequestInv' /\ DeletionInv'
    <3>1. /\ op'.pc = "next" /\ op'.kind \in {"cleanup", "reconcile"}
          /\ row' = row
          /\ \A r \in op'.todo : row[r].state # "none"
          /\ op'.kind # "reconcile" => \A r \in op'.todo : row[r].state # "deleted"
      <4>1. CASE CleanupList BY <4>1 DEF CleanupList, Expired, NoOp
      <4>2. CASE ReconcileList BY <4>2 DEF ReconcileList, NoOp
      <4> QED BY <1>1, <4>1, <4>2
    <3> QED BY <3>1 DEF RequestInv, DeletionInv
  <2>2. RowsOK'
    BY <1>1 DEF CleanupList, ReconcileList, RowsOK, RowOK, Active
  <2> QED BY <2>1, <2>2
<1>2. CASE MaintenanceDone
  BY <1>2, NoOpType DEF MaintenanceDone, NoOp, RequestInv, DeletionInv, RowsOK, RowOK,
     Active
<1>3. ASSUME NEW r \in Recs, CleanupNext(r) PROVE Inv'
  <2>1. RequestInv' /\ DeletionInv'
    <3>1. CASE Active(r)
      <4>1. /\ op'.pc = "next" /\ op'.kind = op.kind /\ op'.todo = op.todo \ {r}
            /\ \A q \in Recs : row'[q].state = row[q].state
        BY <1>3, <1>a, <3>1, TodoShrinks, MarkKeepsRowsOK DEF CleanupNext, At, DeletionInv
      <4> QED BY <1>3, <4>1 DEF CleanupNext, RequestInv, DeletionInv, TypeOK, Ops
    <3>2. CASE ~Active(r)
      <4>1. row[r].state \notin {"none", "recording", "deleted"}
        BY <1>3, <3>2 DEF CleanupNext, DeletionInv, Active
      <4>2. row' = [row EXCEPT ![r] = [row[r] EXCEPT !.deletion = "deleting"]]
        BY <1>3, <3>2, <4>1 DEF CleanupNext, Save, MarkDeleting
      <4>3. /\ row'[r].deletion = "deleting"
            /\ \A q \in Recs : row'[q].state = row[q].state
        BY <4>2 DEF TypeOK, Row
      <4>4. op' = [op EXCEPT !.todo = @ \ {r}, !.pc = "files", !.rec = r]
        BY <1>3, <3>2 DEF CleanupNext
      <4> QED
        BY <1>3, <4>1, <4>3, <4>4 DEF CleanupNext, At, RequestInv, DeletionInv, TypeOK, Ops
    <3> QED BY <3>1, <3>2
  <2>2. RowsOK'
    BY <1>3, <1>a, MarkKeepsRowsOK DEF CleanupNext, DeletionInv
  <2> QED BY <2>1, <2>2
<1>4. ASSUME NEW r \in Recs, CleanupSkips(r) PROVE Inv'
  <2>1. RequestInv' /\ DeletionInv'
    BY <1>4 DEF CleanupSkips, Visited, Reported, At, Save, MarkDeletionFailed, RequestInv, DeletionInv,
       Active, TypeOK, Ops, Row
  <2>2. RowsOK'
    <3>1. CASE UNCHANGED row BY <1>4, <3>1 DEF CleanupSkips, RowsOK, RowOK, Active
    <3>2. CASE ~UNCHANGED row
      BY <1>4, <1>a, <3>2, MarkKeepsRowsOK DEF CleanupSkips, DeletionInv
    <3> QED BY <3>1, <3>2
  <2> QED BY <2>1, <2>2
<1>5. ASSUME NEW r \in Recs, ReconcileNext(r) PROVE Inv'
  <2>1. RequestInv' /\ DeletionInv'
    <3>1. CASE row[r].state = "deleted"
      <4> DEFINE there == r \in dirs
                 owned == r \in keys
      <4>1. /\ row' = row
            /\ op' = [op EXCEPT !.todo = @ \ {r},
                         !.pc = IF there THEN "files" ELSE IF owned THEN "key" ELSE "next",
                         !.rec = IF there \/ owned THEN r ELSE NoRec]
        BY <1>5, <3>1 DEF ReconcileNext
      <4> QED
        BY <1>5, <3>1, <4>1 DEF ReconcileNext, At, RequestInv, DeletionInv, RowsOK, RowOK,
           Active, TypeOK, Ops
    <3>2. CASE row[r].state # "deleted"
      <4>1. /\ op'.pc = "next" /\ op'.kind = op.kind /\ op'.todo = op.todo \ {r}
        BY <1>5, <3>2, TodoShrinks DEF ReconcileNext, At
      <4>2. \A q \in Recs : row'[q].state = "none" => row[q].state = "none"
        <5>1. CASE UNCHANGED row BY <5>1
        <5>2. CASE Save(r, MarkDeletionFailed(row[r], "key_missing"))
          BY <1>5, <1>a, <3>2, <5>2, MarkKeepsRowsOK DEF ReconcileNext
        <5>3. CASE Save(r, MarkStorageMissing(row[r]))
          <6>1. row' = [row EXCEPT ![r] = [row[r] EXCEPT !.state = "missing",
                            !.deletion = "failed", !.failure = "storage_missing"]]
            BY <3>2, <5>3 DEF Save, MarkStorageMissing
          <6> QED BY <6>1 DEF TypeOK, Row
        <5> QED BY <1>5, <3>2, <5>1, <5>2, <5>3 DEF ReconcileNext
      <4> QED BY <1>5, <4>1, <4>2 DEF ReconcileNext, RequestInv, DeletionInv, TypeOK, Ops
    <3> QED BY <3>1, <3>2
  <2>2. RowsOK'
    <3>1. CASE UNCHANGED row BY <1>5, <3>1 DEF ReconcileNext, RowsOK, RowOK, Active
    <3>2. CASE row[r].state # "deleted" /\ Save(r, MarkDeletionFailed(row[r], "key_missing"))
      BY <1>5, <1>a, <3>2, MarkKeepsRowsOK DEF ReconcileNext
    <3>3. CASE /\ row[r].state # "deleted" /\ ~Active(r)
               /\ Save(r, MarkStorageMissing(row[r]))
      <4>1. row' = [row EXCEPT ![r] = [row[r] EXCEPT !.state = "missing", !.deletion = "failed",
                                                     !.failure = "storage_missing"]]
        BY <3>3 DEF Save, MarkStorageMissing
      <4> QED BY <1>5, <4>1 DEF ReconcileNext, RowsOK, RowOK, Active, TypeOK, Row
    <3> QED BY <1>5, <3>1, <3>2, <3>3 DEF ReconcileNext
  <2> QED BY <2>1, <2>2
<1>6. ASSUME NEW r \in Recs, ReconcileSkips(r) PROVE Inv'
  <2>1. RequestInv' /\ DeletionInv'
    BY <1>6 DEF ReconcileSkips, Visited, Reported, At, Save, MarkDeletionFailed, RequestInv, DeletionInv,
       Active, TypeOK, Ops, Row
  <2>2. RowsOK'
    <3>1. CASE UNCHANGED row BY <1>6, <3>1 DEF ReconcileSkips, RowsOK, RowOK, Active
    <3>2. CASE ~UNCHANGED row
      BY <1>6, <1>a, <3>2, MarkKeepsRowsOK DEF ReconcileSkips
    <3> QED BY <3>1, <3>2
  <2> QED BY <2>1, <2>2
<1> QED BY <1>1, <1>2, <1>3, <1>4, <1>5, <1>6 DEF Maintaining

LEMMA InvStep == Typed /\ Inv /\ [Next]_vars => Inv'
<1> SUFFICES ASSUME Typed, Inv, [Next]_vars PROVE Inv' OBVIOUS
<1> USE DEF Inv, RequestInv, DeletionInv, RowsOK, RowOK, Active, disk
<1>1. CASE Crash BY <1>1, NoOpType DEF Crash, NoOp
<1>2. CASE Tick BY <1>2 DEF Tick
<1>3. CASE UNCHANGED vars BY <1>3 DEF vars
<1>4. CASE Preparing BY <1>4, PreparingInv
<1>5. CASE Writing BY <1>5, WritingInv
<1>6. CASE Deleting BY <1>6, DeletingInv
<1>7. CASE Maintaining BY <1>7, MaintainingInv
<1> QED BY <1>1, <1>2, <1>3, <1>4, <1>5, <1>6, <1>7 DEF Next

\* What a request relies on between two of its writes holds throughout: no
\* other request, failure or crash changes the rows and files it works on.
THEOREM Invariance == Spec => [](Typed /\ Inv)
BY InitTyped, InitInv, TypedStep, InvStep, PTL DEF Spec

\* A write publishes before it commits and nothing deletes under a running
\* recording: what its row counts is on disk and can be decrypted
\* (write_recording_segment.py, recording_deletion_state.py).
THEOREM CommittedIsStoredCorrect == Spec => []CommittedIsStored
<1>1. Inv => CommittedIsStored BY DEF Inv, RowsOK, RowOK, CommittedIsStored
<1> QED BY <1>1, Invariance, PTL

\* Whatever is left behind by failures, compensations that failed and deaths
\* of the process, the disk is at most one segment ahead of the metadata.
THEOREM OneSegmentAheadCorrect == Spec => []OneSegmentAhead
<1>1. Inv => OneSegmentAhead BY DEF Inv, RowsOK, RowOK, OneSegmentAhead
<1> QED BY <1>1, Invariance, PTL

\* The key goes before the row says deleted, and no other request brings it
\* back (delete_meeting_audio.py, recording_retention_cleanup.py).
THEOREM DeletedIsUnreadableCorrect == Spec => []DeletedIsUnreadable
<1>1. Inv => DeletedIsUnreadable BY DEF Inv, RowsOK, RowOK, DeletedIsUnreadable
<1> QED BY <1>1, Invariance, PTL

\* Database, keychain and files tell one story, for any number of recordings and
\* segments: of the running recording, of the write under way, of the deleted.
THEOREM StoresAgreeCorrect == Spec => []StoresAgree
<1>1. Typed /\ Inv => StoresAgree
  BY DEF Typed, Inv, RowsOK, RowOK, StoresAgree, CommittedIsStored, OneSegmentAhead,
         DeletedIsUnreadable
<1> QED BY <1>1, Invariance, PTL

-----------------------------------------------------------------------------
(* The retention cleanup leaves nobody out: while it runs, every overdue    *)
(* recording is still on its list, in its hands or reported as failed.      *)

DeletedRows == \A r \in Recs : row[r].deletion = "deleted" => row[r].state = "deleted"

CleanupInv ==
    op.kind = "cleanup" =>
        \A r \in Overdue : \/ r \in op.todo \cup op.failed
                           \/ op.pc # "next" /\ r = op.rec

AccountInv ==
    /\ DeletedRows
    /\ op.kind = "prepare" => op.new.deletion # "deleted"
    /\ CleanupInv

\* A mark changes neither what a row is nor when it is due.
SameDue(c, d) ==
    /\ d.state = c.state /\ d.expires = c.expires /\ d.protected = c.protected
    /\ d.deletion = "deleted" => c.deletion = "deleted"

LEMMA MarkKeepsDue ==
  ASSUME TypeOK, NEW r \in Recs,
         \/ \E code \in DeletionFailures : Save(r, MarkDeletionFailed(row[r], code))
         \/ Save(r, MarkDeleting(row[r]))
         \/ UNCHANGED row
  PROVE  \A q \in Recs : SameDue(row[q], row'[q])
<1>1. row[r] \in Row BY DEF TypeOK
<1>2. /\ SameDue(row[r], MarkDeleting(row[r]))
      /\ \A code \in DeletionFailures : SameDue(row[r], MarkDeletionFailed(row[r], code))
  BY <1>1 DEF SameDue, MarkDeleting, MarkDeletionFailed, Row
<1>3. CASE UNCHANGED row BY <1>3 DEF SameDue
<1>4. ASSUME NEW c, SameDue(row[r], c), Save(r, c)
      PROVE  \A q \in Recs : SameDue(row[q], row'[q])
  BY <1>4 DEF SameDue, Save, TypeOK
<1> QED BY <1>2, <1>3, <1>4

LEMMA DeletedRowsStep == ASSUME Typed, Inv, AccountInv, [Next]_vars PROVE DeletedRows'
<1> USE DEF Typed
<1>a. {"key_delete_failed", "storage_delete_failed", "reconciliation_failed", "key_missing"}
        \subseteq DeletionFailures
  BY DEF DeletionFailures
<1>1. CASE UNCHANGED row BY <1>1 DEF AccountInv, DeletedRows
<1>2. CASE \A q \in Recs : SameDue(row[q], row'[q])
  BY <1>2 DEF AccountInv, DeletedRows, SameDue
<1>3. ASSUME NEW r \in Recs, NEW c, Save(r, c), c.deletion = "deleted" => c.state = "deleted"
      PROVE  DeletedRows'
  BY <1>3 DEF Save, AccountInv, DeletedRows, TypeOK
<1>4. CASE PrepareInsert
  <2>1. op.rec \in Recs BY <1>4 DEF PrepareInsert, Shape
  <2> QED BY <1>3, <1>4, <2>1 DEF PrepareInsert, AccountInv
<1>5. ASSUME NEW r \in Recs, row[r].state # "deleted", NEW c, Save(r, c),
             c.deletion = row[r].deletion
      PROVE  DeletedRows'
  BY <1>3, <1>5 DEF AccountInv, DeletedRows
<1>6. ASSUME NEW r \in Recs, MarkStarted(r) PROVE DeletedRows'
  BY <1>5, <1>6 DEF MarkStarted, TypeOK, Row
<1>7. CASE WriteCommit
  <2>1. op.rec \in Recs /\ row[op.rec].state # "deleted"
    BY <1>7 DEF WriteCommit, At, Shape, StillWritable, Active
  <2> QED BY <1>5, <1>7, <2>1 DEF WriteCommit, TypeOK, Row
<1>8. ASSUME NEW r \in Recs, NEW n, NEW exact, Finalize(r, n, exact) PROVE DeletedRows'
  BY <1>5, <1>8 DEF Finalize, Active, TypeOK, Row
<1>9. ASSUME NEW r \in Recs, MarkFailed(r) PROVE DeletedRows'
  BY <1>5, <1>9 DEF MarkFailed, TypeOK, Row
<1>10. ASSUME NEW m \in Meetings, NEW r \in Recs, NEW timed \in BOOLEAN,
              NEW protected \in BOOLEAN, UpdateRetention(m, r, timed, protected)
       PROVE  DeletedRows'
  <2>1. PICK code :
          Save(r, [row[r] EXCEPT !.expires = ExpiryFrom(timed), !.protected = protected,
                                 !.deletion = Scheduled(timed /\ ~protected),
                                 !.failure = code])
    BY <1>10 DEF UpdateRetention
  <2>2. Scheduled(timed /\ ~protected) # "deleted" BY DEF Scheduled
  <2> QED BY <1>3, <2>1, <2>2 DEF TypeOK, Row
<1>11. ASSUME NEW m \in Meetings, NEW r \in Recs, DeleteAudio(m, r) PROVE DeletedRows'
  BY <1>2, <1>11, MarkKeepsDue DEF DeleteAudio
<1>12. CASE StorageFails \/ KeyFails \/ RowFails
  <2>1. op.rec \in Recs BY <1>12 DEF StorageFails, KeyFails, RowFails, At, Shape
  <2> QED BY <1>2, <1>12, <1>a, <2>1, MarkKeepsDue DEF StorageFails, KeyFails, RowFails
<1>13. CASE RowDeleted
  <2>1. op.rec \in Recs BY <1>13 DEF RowDeleted, At, Shape
  <2>2. MarkDeleted(row[op.rec]).state = "deleted"
    BY <2>1 DEF MarkDeleted, TypeOK, Row
  <2> QED BY <1>3, <1>13, <2>1, <2>2 DEF RowDeleted
<1>14. ASSUME NEW r \in Recs, CleanupNext(r) \/ CleanupSkips(r) \/ ReconcileSkips(r)
       PROVE  DeletedRows'
  BY <1>2, <1>14, <1>a, MarkKeepsDue DEF CleanupNext, CleanupSkips, ReconcileSkips
<1>15. ASSUME NEW r \in Recs, ReconcileNext(r) PROVE DeletedRows'
  <2>1. CASE Save(r, MarkStorageMissing(row[r])) /\ row[r].state # "deleted"
    <3>1. MarkStorageMissing(row[r]).deletion # "deleted"
      BY <2>1 DEF MarkStorageMissing, TypeOK, Row
    <3> QED BY <1>3, <2>1, <3>1
  <2>2. CASE Save(r, MarkDeletionFailed(row[r], "key_missing"))
    BY <1>2, <1>a, <2>2, MarkKeepsDue
  <2> QED BY <1>1, <1>15, <2>1, <2>2 DEF ReconcileNext
<1>16. CASE Preparing
  BY <1>1, <1>4, <1>6, <1>16 DEF Preparing, StartMeeting, EndMeeting, PrepareKey, PrepareFails
<1>17. CASE Writing
  BY <1>1, <1>7, <1>8, <1>9, <1>17 DEF Writing, WriteCheck, WritePartial, WritePublish,
     WriteFails, WriteCompensate
<1>18. CASE Deleting
  BY <1>1, <1>10, <1>11, <1>12, <1>13, <1>18 DEF Deleting, RemoveFile, RemoveDirectory,
     IgnoreErrors, DeleteKey
<1>19. CASE Maintaining
  BY <1>1, <1>14, <1>15, <1>19 DEF Maintaining, CleanupList, ReconcileList, MaintenanceDone
<1> QED BY <1>1, <1>16, <1>17, <1>18, <1>19 DEF Next, Crash, Tick, vars

\* While the cleanup runs, nothing becomes overdue: the clock stands, and the
\* rows change by marks only.
LEMMA OverdueShrinks ==
  ASSUME TypeOK, NEW r \in Recs, now' = now,
         \/ \E code \in DeletionFailures : Save(r, MarkDeletionFailed(row[r], code))
         \/ Save(r, MarkDeleting(row[r]))
         \/ UNCHANGED row
  PROVE  Overdue' \subseteq Overdue
<1>1. \A q \in Recs : SameDue(row[q], row'[q]) BY MarkKeepsDue
<1> QED BY <1>1 DEF SameDue, Overdue

LEMMA CleanupStep == ASSUME Typed, Inv, AccountInv, [Next]_vars PROVE CleanupInv'
<1> USE DEF Typed
<1>a. {"key_delete_failed", "storage_delete_failed", "reconciliation_failed", "key_missing"}
        \subseteq DeletionFailures
  BY DEF DeletionFailures
<1>1. CASE op'.kind # "cleanup" BY <1>1 DEF CleanupInv
<1>2. CASE CleanupList
  <2>1. op'.todo = Expired /\ row' = row /\ now' = now
    BY <1>2, NoOpType DEF CleanupList, NoOp, Ops
  <2>2. Overdue' \subseteq Expired
    BY <2>1 DEF AccountInv, DeletedRows, Overdue, Expired
  <2> QED BY <2>1, <2>2 DEF CleanupInv
<1>3. CASE Idle /\ op' = op BY <1>3, NoOpType DEF Idle, CleanupInv
<1>4. ASSUME NEW r \in Recs, CleanupNext(r) PROVE CleanupInv'
  <2>1. Overdue' \subseteq Overdue BY <1>4, <1>a, OverdueShrinks DEF CleanupNext
  <2>2. op.kind = "cleanup" /\ op.pc = "next" BY <1>4 DEF CleanupNext, At
  <2>3. CASE Reported(r)
    <3>1. op'.todo = op.todo \ {r} /\ op'.failed = op.failed \cup {r}
      BY <2>3 DEF Reported, TypeOK, Ops
    <3> QED BY <2>1, <2>2, <3>1 DEF AccountInv, CleanupInv
  <2>4. CASE op' = [op EXCEPT !.todo = @ \ {r}, !.pc = "files", !.rec = r]
    BY <2>1, <2>2, <2>4 DEF AccountInv, CleanupInv, TypeOK, Ops
  <2> QED BY <1>4, <2>3, <2>4 DEF CleanupNext
<1>5. ASSUME NEW r \in Recs, CleanupSkips(r) PROVE CleanupInv'
  <2>1. Overdue' \subseteq Overdue BY <1>5, <1>a, OverdueShrinks DEF CleanupSkips
  <2>2. op.kind = "cleanup" /\ op.pc = "next" BY <1>5 DEF CleanupSkips, At
  <2>3. op'.todo = op.todo \ {r} /\ op'.failed = op.failed \cup {r}
    BY <1>5 DEF CleanupSkips, Reported, TypeOK, Ops
  <2> QED BY <2>1, <2>2, <2>3 DEF AccountInv, CleanupInv
<1>6. ASSUME op.kind = "cleanup", UNCHANGED <<row, now>>, op'.todo = op.todo,
             op'.failed = op.failed, op'.rec = op.rec, op.pc # "next", op'.pc # "next"
      PROVE  CleanupInv'
  BY <1>6 DEF AccountInv, CleanupInv, Overdue
<1>7. CASE op.kind = "cleanup" /\ (RemoveDirectory \/ IgnoreErrors \/ DeleteKey)
  BY <1>6, <1>7 DEF RemoveDirectory, IgnoreErrors, DeleteKey, At, disk, TypeOK, Ops
<1>8. ASSUME op.kind = "cleanup", NEW i, RemoveFile(i) PROVE CleanupInv'
  BY <1>6, <1>8 DEF RemoveFile, At
<1>9. CASE op.kind = "cleanup" /\ (StorageFails \/ KeyFails \/ RowFails)
  <2>1. op.rec \in Recs BY <1>9 DEF StorageFails, KeyFails, RowFails, At, Shape
  <2>2. Overdue' \subseteq Overdue
    BY <1>9, <1>a, <2>1, OverdueShrinks DEF StorageFails, KeyFails, RowFails
  <2>3. op'.todo = op.todo /\ op'.failed = op.failed \cup {op.rec}
    BY <1>9 DEF StorageFails, KeyFails, RowFails, GiveUp, TypeOK, Ops
  <2> QED BY <1>9, <2>2, <2>3 DEF AccountInv, CleanupInv
<1>10. CASE op.kind = "cleanup" /\ RowDeleted
  <2>1. op.rec \in Recs BY <1>10 DEF RowDeleted, At, Shape
  <2>2. row[op.rec] \in Row BY <2>1 DEF TypeOK
  <2>3. MarkDeleted(row[op.rec]).state = "deleted" BY <2>2 DEF MarkDeleted, Row
  <2>4. Overdue' \subseteq Overdue \ {op.rec}
    BY <1>10, <2>1, <2>3 DEF RowDeleted, Save, Overdue, TypeOK
  <2>5. op'.todo = op.todo /\ op'.failed = op.failed
    BY <1>10 DEF RowDeleted, Proceed, TypeOK, Ops
  <2> QED BY <1>10, <2>4, <2>5 DEF AccountInv, CleanupInv
<1>11. CASE Preparing
  BY <1>1, <1>3, <1>11, NoOpType DEF Preparing, StartMeeting, EndMeeting, PrepareKey,
     PrepareInsert, PrepareFails, MarkStarted, NoOp
<1>12. CASE Writing
  BY <1>1, <1>3, <1>12, NoOpType DEF Writing, WriteCheck, WritePartial, WritePublish,
     WriteFails, WriteCommit, WriteCompensate, Finalize, MarkFailed, NoOp, TypeOK, Ops
<1>13. CASE Deleting
  <2>1. CASE op.kind = "cleanup"
    BY <1>1, <1>3, <1>7, <1>8, <1>9, <1>10, <1>13, <2>1, NoOpType DEF Deleting, DeleteAudio,
       UpdateRetention, Idle
  <2>2. CASE op.kind # "cleanup"
    <3>1. ASSUME NEW m, NEW r, DeleteAudio(m, r) PROVE op'.kind # "cleanup"
      BY <3>1 DEF DeleteAudio, NoOp
    <3>2. ASSUME Proceed \/ GiveUp \/ op' = [op EXCEPT !.pc = "key"] \/ op' = op
                   \/ op' = [op EXCEPT !.pc = "row"]
          PROVE  op'.kind # "cleanup"
      BY <2>2, <3>2, NoOpType DEF Proceed, GiveUp, TypeOK, Ops
    <3> QED
      BY <1>1, <1>13, <3>1, <3>2 DEF Deleting, UpdateRetention, RemoveFile, RemoveDirectory,
         IgnoreErrors, StorageFails, DeleteKey, KeyFails, RowDeleted, RowFails
  <2> QED BY <2>1, <2>2
<1>14. CASE Maintaining
  <2>1. CASE ReconcileList \/ MaintenanceDone
    BY <1>1, <2>1, NoOpType DEF ReconcileList, MaintenanceDone, NoOp
  <2>2. ASSUME NEW r \in Recs, ReconcileSkips(r) PROVE op'.kind # "cleanup"
    BY <2>2 DEF ReconcileSkips, Reported, TypeOK, Ops
  <2>3. ASSUME NEW r \in Recs, ReconcileNext(r) PROVE op'.kind # "cleanup"
    <3>1. op.kind = "reconcile" BY <2>3 DEF ReconcileNext
    <3>2. CASE Visited(r) \/ Reported(r)
      BY <3>1, <3>2 DEF Visited, Reported, TypeOK, Ops
    <3>3. CASE row[r].state = "deleted"
      BY <2>3, <3>1, <3>3 DEF ReconcileNext, TypeOK, Ops
    <3> QED BY <2>3, <3>2, <3>3 DEF ReconcileNext
  <2> QED BY <1>1, <1>2, <1>4, <1>5, <1>14, <2>1, <2>2, <2>3 DEF Maintaining
<1>15. CASE Crash BY <1>1, <1>15, NoOpType DEF Crash
<1>16. CASE UNCHANGED vars BY <1>16 DEF vars, AccountInv, CleanupInv, Overdue
<1> QED BY <1>3, <1>11, <1>12, <1>13, <1>14, <1>15, <1>16 DEF Next, Tick

LEMMA AccountStep == ASSUME Typed, Inv, AccountInv, [Next]_vars PROVE AccountInv'
<1> USE DEF Typed
<1>1. op'.kind = "prepare" => op'.new.deletion # "deleted"
  <2>1. CASE op' = op BY <2>1 DEF AccountInv
  <2>2. ASSUME NEW m \in Meetings, NEW r \in Recs, NEW timed \in BOOLEAN,
               PrepareKey(m, r, timed)
        PROVE  op'.new.deletion # "deleted"
    <3>1. op'.new = [NoRow EXCEPT !.state = "pending", !.meeting = m, !.id = rowid,
                        !.expires = ExpiryFrom(timed), !.deletion = Scheduled(timed)]
      BY <2>2, NoOpType DEF PrepareKey, Ops
    <3> QED BY <3>1, NoRowType DEF Scheduled, Row
  <2>3. CASE op' # op /\ ~Preparing
    <3>1. CASE Writing
      BY <2>3, <3>1, NoOpType DEF Writing, WriteCheck, WritePartial, WritePublish, WriteFails,
         WriteCommit, WriteCompensate, Finalize, MarkFailed, NoOp, TypeOK, Ops
    <3>2. CASE Deleting
      <4>1. ASSUME NEW m, NEW r, DeleteAudio(m, r) PROVE op'.kind # "prepare"
        BY <4>1 DEF DeleteAudio, NoOp
      <4>2. ASSUME At("files") \/ At("key") \/ At("row"),
                   \/ Proceed \/ GiveUp
                   \/ op' = [op EXCEPT !.pc = "key"] \/ op' = [op EXCEPT !.pc = "row"]
            PROVE  op'.kind # "prepare"
        BY <4>2, NoOpType DEF At, Shape, Proceed, GiveUp, TypeOK, Ops
      <4> QED
        BY <2>3, <3>2, <4>1, <4>2 DEF Deleting, UpdateRetention, RemoveFile, RemoveDirectory,
           IgnoreErrors, StorageFails, DeleteKey, KeyFails, RowDeleted, RowFails
    <3>3. CASE Maintaining
      <4>1. op'.pc # "insert"
        BY <3>3, NoOpType DEF Maintaining, CleanupList, ReconcileList, MaintenanceDone,
           CleanupNext, CleanupSkips, ReconcileNext, ReconcileSkips, Visited, Reported,
           NoOp, At, TypeOK, Ops
      <4> QED BY <4>1, TypedStep DEF Shape
    <3> QED BY <2>3, <3>1, <3>2, <3>3, NoOpType DEF Next, Crash, Tick, vars
  <2> QED
    BY <2>1, <2>2, <2>3, NoOpType DEF Preparing, StartMeeting, EndMeeting, PrepareInsert,
       PrepareFails, MarkStarted
<1> QED BY <1>1, DeletedRowsStep, CleanupStep DEF AccountInv

\* The cleanup visits what its query listed and reports what it could not
\* delete; between its first write and its last nothing becomes overdue that it
\* does not know of (recording_retention_cleanup.py, recording_repository.py:63-84).
THEOREM ExpiredIsAccountedForCorrect == Spec => []ExpiredIsAccountedFor
<1>1. Init => AccountInv
  BY DEF Init, AccountInv, DeletedRows, CleanupInv, NoRow, NoOp
<1>2. Typed /\ Inv /\ AccountInv /\ [Next]_vars => AccountInv' BY AccountStep
<1>3. AccountInv => ExpiredIsAccountedFor
  BY DEF AccountInv, CleanupInv, ExpiredIsAccountedFor, At
<1> QED BY <1>1, <1>2, <1>3, Invariance, PTL DEF Spec

-----------------------------------------------------------------------------
(* What a step may never do. *)

\* Files are at most one ahead of the timings; counting them therefore tells
\* whether the one ahead is there.
LEMMA CountTellsFiles ==
  ASSUME NEW n \in Nat, NEW S, 0 .. n - 1 \subseteq S, S \subseteq 0 .. n,
         Cardinality(S) = n
  PROVE  S = 0 .. n - 1
<1>1. Cardinality(0 .. n) = n + 1 BY FS_Interval
<1>a. \A x : x \in 0 .. n <=> x \in 0 .. n - 1 \/ x = n OBVIOUS
<1>2. ASSUME n \in S PROVE FALSE
  <2>1. S = 0 .. n BY <1>2, <1>a, Zenon
  <2>2. Cardinality(S) = Cardinality(0 .. n) BY <2>1, Zenon
  <2> QED BY <1>1, <2>2
<1> QED BY <1>2, <1>a, Zenon

\* How the rows may move in a step: recording q goes to state s with n
\* timings, the other rows stay in their states.
Moved(q, s, n) ==
    \A p \in Recs : /\ row'[p].state = IF p = q THEN s ELSE row[p].state
                    /\ row'[p].timings = IF p = q THEN n ELSE row[p].timings

Still == \A p \in Recs : /\ row'[p].state = row[p].state
                         /\ row'[p].timings = row[p].timings

Whole(q) == /\ files[q] = 0 .. row'[q].count - 1
            /\ row'[q].count = row[q].timings
            /\ q \in keys

Move(q) ==
    \/ row[q].state = "none" /\ Moved(q, "pending", row[q].timings)
    \/ row[q].state = "pending" /\ Moved(q, "recording", row[q].timings)
    \/ row[q].state = "recording" /\ Moved(q, "recording", row[q].timings + 1)
    \/ /\ row[q].state = "recording" /\ row[q].timings > 0
       /\ Moved(q, "completed", row[q].timings)
       /\ Whole(q)
    \/ row[q].state \notin {"none", "deleted"} /\ Moved(q, "failed", row[q].timings)
    \/ /\ row[q].state \notin {"none", "recording", "deleted"}
       /\ Moved(q, "missing", row[q].timings) \/ Moved(q, "deleted", row[q].timings)

Moves == Still \/ \E q \in Recs : Move(q)

LEMMA SaveMoves ==
  ASSUME TypeOK, NEW q \in Recs, NEW c \in Row, Save(q, c)
  PROVE  Moved(q, c.state, c.timings) /\ row'[q] = c
BY DEF TypeOK, Save, Moved, Row

LEMMA MarkIsStill ==
  ASSUME TypeOK, NEW q \in Recs,
         \/ \E code \in DeletionFailures : Save(q, MarkDeletionFailed(row[q], code))
         \/ Save(q, MarkDeleting(row[q]))
  PROVE  Still
<1>1. PICK c \in Row : SameLife(row[q], c) /\ Save(q, c)
  BY MarkTypes, MarksKeepLife DEF TypeOK
<1> QED BY <1>1, SaveMoves DEF SameLife, Moved, Still

LEMMA PreparingMoves == ASSUME Typed, Inv, Preparing PROVE Moves
<1> USE DEF Typed, Inv
<1>1. CASE UNCHANGED row BY <1>1 DEF Moves, Still
<1>2. CASE PrepareInsert
  <2>1. op.rec \in Recs /\ op.new \in Row BY <1>2 DEF PrepareInsert, Shape, TypeOK, Ops
  <2>2. Moved(op.rec, "pending", 0)
    BY <1>2, <2>1, SaveMoves DEF PrepareInsert, RequestInv
  <2>3. row[op.rec].state = "none" /\ row[op.rec].timings = 0
    BY <1>2, <2>1 DEF PrepareInsert, RequestInv, RowsOK, RowOK
  <2> QED BY <2>1, <2>2, <2>3 DEF Moves, Move
<1>3. ASSUME NEW r \in Recs, MarkStarted(r) PROVE Moves
  <2>1. [row[r] EXCEPT !.state = "recording"] \in Row BY DEF TypeOK, Row, RowStates
  <2>2. Moved(r, "recording", row[r].timings)
    BY <1>3, <2>1, SaveMoves DEF MarkStarted, TypeOK, Row
  <2> QED BY <1>3, <2>2 DEF Moves, Move, MarkStarted
<1> QED
  BY <1>1, <1>2, <1>3 DEF Preparing, StartMeeting, EndMeeting, PrepareKey, PrepareFails

LEMMA WritingMoves == ASSUME Typed, Inv, Writing PROVE Moves
<1> USE DEF Typed, Inv
<1>1. CASE UNCHANGED row BY <1>1 DEF Moves, Still
<1>2. CASE WriteCommit
  <2>1. op.rec \in Recs /\ op.index + 1 \in Nat
    BY <1>2 DEF WriteCommit, At, TypeOK, Shape, Ops
  <2>2. row[op.rec] \in Row /\ row[op.rec].timings + 1 \in Nat
    BY <2>1 DEF TypeOK, Row
  <2> DEFINE c == [row[op.rec] EXCEPT !.index = op.index + 1, !.timings = @ + 1]
  <2>3. /\ c \in Row
        /\ c.state = row[op.rec].state /\ c.timings = row[op.rec].timings + 1
    BY <2>1, <2>2 DEF Row
  <2>4. Save(op.rec, c) BY <1>2 DEF WriteCommit
  <2>5. row[op.rec].state = "recording"
    BY <1>2 DEF WriteCommit, StillWritable, Active
  <2> HIDE DEF c
  <2>6. Moved(op.rec, "recording", row[op.rec].timings + 1)
    BY <2>1, <2>3, <2>4, <2>5, SaveMoves
  <2> QED BY <2>1, <2>5, <2>6 DEF Moves, Move
<1>3. ASSUME NEW r \in Recs, NEW n \in 0 .. MaxSegments, NEW exact \in BOOLEAN,
             Finalize(r, n, exact)
      PROVE  Moves
  <2>1. n \in Nat /\ row[r] \in Row BY ConstantsAssumption DEF TypeOK
  <2> DEFINE c == [row[r] EXCEPT !.state = "completed", !.count = n]
  <2>2. c \in Row /\ c.state = "completed" /\ c.timings = row[r].timings /\ c.count = n
    BY <2>1 DEF Row, RowStates
  <2>3. Save(r, c) BY <1>3 DEF Finalize
  <2> HIDE DEF c
  <2>4. Moved(r, "completed", row[r].timings) /\ row'[r].count = n
    BY <2>2, <2>3, SaveMoves
  <2>5. files[r] = 0 .. n - 1
    BY <1>3, <2>1, CountTellsFiles DEF Finalize, RowsOK, RowOK
  <2>6. Whole(r)
    BY <1>3, <2>4, <2>5 DEF Finalize, RowsOK, RowOK, Whole
  <2> QED BY <1>3, <2>4, <2>6 DEF Finalize, Active, Moves, Move
<1>4. ASSUME NEW r \in Recs, MarkFailed(r) PROVE Moves
  <2> DEFINE c == [row[r] EXCEPT !.state = "failed", !.failure = CaptureFailed]
  <2>a. row[r] \in Row BY DEF TypeOK
  <2>b. c \in Row BY <2>a, UpdateTypes DEF RowStates, FailureCodes
  <2>c. c.state = "failed" /\ c.timings = row[r].timings BY <2>a DEF Row
  <2>1. c \in Row /\ c.state = "failed" /\ c.timings = row[r].timings BY <2>b, <2>c
  <2>2. Save(r, c) BY <1>4 DEF MarkFailed
  <2> HIDE DEF c
  <2>3. Moved(r, "failed", row[r].timings) BY <2>1, <2>2, SaveMoves
  <2> QED BY <1>4, <2>3 DEF MarkFailed, Moves, Move
<1> QED
  BY <1>1, <1>2, <1>3, <1>4 DEF Writing, WriteCheck, WritePartial, WritePublish,
     WriteFails, WriteCompensate

LEMMA DeletingMoves == ASSUME Typed, Inv, Deleting PROVE Moves
<1> USE DEF Typed, Inv
<1>a. {"key_delete_failed", "storage_delete_failed", "reconciliation_failed"}
        \subseteq DeletionFailures
  BY DEF DeletionFailures
<1>1. CASE UNCHANGED row BY <1>1 DEF Moves, Still
<1>2. ASSUME NEW m \in Meetings, NEW r \in Recs, DeleteAudio(m, r) PROVE Moves
  BY <1>2, MarkIsStill DEF DeleteAudio, Moves
<1>3. ASSUME NEW m \in Meetings, NEW r \in Recs, NEW timed \in BOOLEAN,
             NEW protected \in BOOLEAN, UpdateRetention(m, r, timed, protected)
      PROVE  Moves
  BY <1>3 DEF UpdateRetention, Save, Moves, Still, TypeOK, Row
<1>4. CASE (StorageFails \/ KeyFails \/ RowFails) /\ ~UNCHANGED row
  BY <1>4, <1>a, MarkIsStill DEF StorageFails, KeyFails, RowFails, At, Shape, Moves
<1>5. CASE RowDeleted
  <2>1. /\ op.rec \in Recs
        /\ row[op.rec].state \notin {"none", "recording", "deleted"}
    BY <1>5 DEF RowDeleted, At, Shape, DeletionInv
  <2>2. row[op.rec] \in Row BY <2>1 DEF TypeOK
  <2>3. MarkDeleted(row[op.rec]) \in Row BY <2>2, MarkTypes
  <2>4. /\ MarkDeleted(row[op.rec]).state = "deleted"
        /\ MarkDeleted(row[op.rec]).timings = row[op.rec].timings
    BY <2>2 DEF MarkDeleted, Row
  <2>5. Moved(op.rec, "deleted", row[op.rec].timings)
    BY <1>5, <2>1, <2>3, <2>4, SaveMoves DEF RowDeleted
  <2> QED BY <2>1, <2>5 DEF Moves, Move
<1> QED
  BY <1>1, <1>2, <1>3, <1>4, <1>5 DEF Deleting, RemoveFile, RemoveDirectory,
     IgnoreErrors, DeleteKey

LEMMA MaintainingMoves == ASSUME Typed, Inv, Maintaining PROVE Moves
<1> USE DEF Typed, Inv
<1>a. {"reconciliation_failed", "key_missing"} \subseteq DeletionFailures
  BY DEF DeletionFailures
<1>1. CASE UNCHANGED row BY <1>1 DEF Moves, Still
<1>2. ASSUME NEW r \in Recs, ~UNCHANGED row, CleanupNext(r) \/ CleanupSkips(r) PROVE Moves
  BY <1>2, <1>a, MarkIsStill DEF CleanupNext, CleanupSkips, Moves
<1>3. ASSUME NEW r \in Recs, ~UNCHANGED row, ReconcileSkips(r) PROVE Moves
  BY <1>3, <1>a, MarkIsStill DEF ReconcileSkips, Moves
<1>4. ASSUME NEW r \in Recs, ~UNCHANGED row, ReconcileNext(r) PROVE Moves
  <2>1. CASE Save(r, MarkDeletionFailed(row[r], "key_missing"))
    BY <2>1, <1>a, MarkIsStill DEF Moves
  <2>2. CASE ~Active(r) /\ row[r].state # "deleted" /\ Save(r, MarkStorageMissing(row[r]))
    <3>a. row[r] \in Row BY DEF TypeOK
    <3>b. MarkStorageMissing(row[r]) \in Row BY <3>a, MarkTypes
    <3>1. /\ MarkStorageMissing(row[r]).state = "missing"
          /\ MarkStorageMissing(row[r]).timings = row[r].timings
      BY <2>2, <3>a DEF MarkStorageMissing, Row
    <3>2. Moved(r, "missing", row[r].timings) BY <2>2, <3>b, <3>1, SaveMoves
    <3>3. row[r].state # "none" BY <1>4 DEF ReconcileNext, DeletionInv
    <3> QED BY <2>2, <3>2, <3>3 DEF Active, Moves, Move
  <2> QED BY <1>4, <2>1, <2>2 DEF ReconcileNext
<1> QED
  BY <1>1, <1>2, <1>3, <1>4 DEF Maintaining, CleanupList, ReconcileList, MaintenanceDone

LEMMA NextMoves == ASSUME Typed, Inv, [Next]_vars PROVE Moves
<1>1. CASE Crash \/ Tick \/ UNCHANGED vars
  BY <1>1 DEF Crash, Tick, vars, Moves, Still
<1> QED
  BY <1>1, PreparingMoves, WritingMoves, DeletingMoves, MaintainingMoves DEF Next

\* The route compares the caller's count with the files and the use case with
\* the timings; since neither store can be more than one segment ahead of the
\* other, equal counts mean the same segments (recording_capture.py,
\* finalize_recording.py).
THEOREM CompletedIsWholeCorrect == Spec => CompletedIsWhole
<1>1. Typed /\ Inv /\ [Next]_vars =>
        [\A r \in Recs :
            row'[r].state = "completed" /\ row[r].state # "completed" =>
               /\ files[r] = 0 .. row'[r].count - 1
               /\ row'[r].count = row[r].timings
               /\ r \in keys]_vars
  BY NextMoves DEF Moves, Still, Move, Moved, Whole
<1> QED BY <1>1, Invariance, PTL DEF Spec, CompletedIsWhole

\* Committed audio and keys go in RemoveFile and DeleteKey only, for a
\* recording whose row was marked first; a failed write takes away its own
\* file only (write_recording_segment.py, mark_deleting).
THEOREM AudioGoesByDeletionOnlyCorrect == Spec => AudioGoesByDeletionOnly
<1> DEFINE Kept(r) == /\ \A i \in files[r] : i < row[r].timings => i \in files'[r]
                      /\ r \in keys /\ row[r].state # "none" => r \in keys'
           Marked(r) == row[r].deletion \in {"deleting", "deleted"}
<1>1. ASSUME Typed, Inv, Next PROVE \A r \in Recs : Kept(r) \/ Marked(r)
  <2> USE <1>1 DEF Typed, Inv
  <2>1. CASE /\ \A r \in Recs : files[r] \subseteq files'[r]
             /\ keys \subseteq keys'
    BY <2>1
  <2>2. CASE PrepareFails
    BY <2>2 DEF PrepareFails, RequestInv, disk
  <2>3. CASE WriteCompensate
    BY <2>3 DEF WriteCompensate, RequestInv, At, TypeOK, Shape, Ops, Row
  <2>4. ASSUME NEW i \in Indexes, RemoveFile(i) PROVE \A r \in Recs : Kept(r) \/ Marked(r)
    BY <2>4 DEF RemoveFile, At, DeletionInv, TypeOK
  <2>5. CASE DeleteKey
    BY <2>5 DEF DeleteKey, At, DeletionInv, disk
  <2>6. CASE WritePublish
    BY <2>6, <2>1 DEF WritePublish, TypeOK
  <2>7. CASE Preparing /\ ~PrepareFails
    BY <2>7, <2>1 DEF Preparing, StartMeeting, EndMeeting, PrepareKey, PrepareInsert,
       MarkStarted, disk
  <2>8. CASE Writing /\ ~WriteCompensate /\ ~WritePublish
    BY <2>8, <2>1 DEF Writing, WriteCheck, WritePartial, WriteFails, WriteCommit, Finalize,
       MarkFailed, disk
  <2>9. CASE Deleting /\ ~DeleteKey /\ ~\E i \in Indexes : RemoveFile(i)
    BY <2>9, <2>1 DEF Deleting, DeleteAudio, UpdateRetention, RemoveDirectory, IgnoreErrors,
       StorageFails, KeyFails, RowDeleted, RowFails, disk
  <2>10. CASE Maintaining \/ Crash \/ Tick
    BY <2>10, <2>1 DEF Maintaining, CleanupList, ReconcileList, MaintenanceDone, CleanupNext,
       CleanupSkips, ReconcileNext, ReconcileSkips, Crash, Tick, disk
  <2> QED
    BY <2>2, <2>3, <2>4, <2>5, <2>6, <2>7, <2>8, <2>9, <2>10 DEF Next
<1>2. Typed /\ Inv /\ [Next]_vars =>
        [\A r \in Recs :
            \/ \E i \in files[r] : i < row[r].timings /\ i \notin files'[r]
            \/ r \in keys /\ r \notin keys' /\ row[r].state # "none"
            => row[r].deletion \in {"deleting", "deleted"}]_vars
  BY <1>1
<1> QED BY <1>2, Invariance, PTL DEF Spec, AudioGoesByDeletionOnly

\* Every step of the stores is a step of the promised life of one row, or
\* none at all.
THEOREM ServiceCorrect == Spec => ImplementsService
<1>1. Init => Service!Init
  BY DEF Init, Service!Init, NoRow
<1>2. Typed /\ Inv /\ [Next]_vars =>
        [Service!Next]_<<[r \in Recs |-> row[r].state], [r \in Recs |-> row[r].timings]>>
  <2> SUFFICES ASSUME Typed, Inv, [Next]_vars
               PROVE  [Service!Next]_<<[r \in Recs |-> row[r].state],
                                       [r \in Recs |-> row[r].timings]>>
    OBVIOUS
  <2>1. CASE Still BY <2>1 DEF Still
  <2>2. ASSUME NEW q \in Recs, Move(q) PROVE Service!Next
    BY <2>2 DEF Move, Moved, Service!Next, Service!Prepare, Service!Start, Service!AppendSegment,
       Service!Complete, Service!Fail, Service!Lose, Service!Delete, Service!Settled,
       Service!Become
  <2> QED BY <2>1, <2>2, NextMoves DEF Moves
<1> QED BY <1>1, <1>2, Invariance, PTL DEF Spec, ImplementsService, Service!Spec

=============================================================================
