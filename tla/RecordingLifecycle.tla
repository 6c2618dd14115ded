------------------------- MODULE RecordingLifecycle -------------------------
(***************************************************************************)
(* The backend's recordings: their metadata rows and segment timings in    *)
(* the database, their keys in the keychain and their encrypted segments   *)
(* on disk, with every use case that changes one of the three stores.      *)
(*                                                                         *)
(* The use cases never suspend between two store writes (sessions, files   *)
(* and keychain are synchronous), so one request runs at a time: op.  What *)
(* can come between two of its writes is an error of a store or the death  *)
(* of the process.                                                         *)
(***************************************************************************)
EXTENDS Naturals, FiniteSets

CONSTANTS
    Recs,           \* recording identifiers
    Meetings,       \* meeting identifiers
    NoRec, NoMeeting,
    MaxSegments,    \* bound: segments per recording
    MaxNow,         \* bound: the clock stops here
    Faults          \* which stores may fail, and whether the process may die

ASSUME ConstantsAssumption ==
    /\ NoRec \notin Recs
    /\ NoMeeting \notin Meetings
    /\ MaxSegments \in Nat
    /\ MaxNow \in Nat
    /\ Faults \subseteq {"commit", "key", "file", "crash"}

VARIABLES
    meeting,    \* status of each meeting
    row,        \* row of each recording, with its timings
    rowid,      \* rows inserted so far
    keys,       \* recordings whose key is in the keychain
    dirs,       \* recordings whose directory exists
    files,      \* published segments of each recording
    partial,    \* segments of which a .partial file exists
    op,         \* the request in progress
    now         \* the clock, in retention periods

vars == <<meeting, row, rowid, keys, dirs, files, partial, op, now>>
disk == <<dirs, files, partial>>

-----------------------------------------------------------------------------
(* State *)

Indexes == 0 .. MaxSegments - 1

RowStates == {"none", "pending", "recording", "completed",
              "failed", "missing", "deleted"}
DeletionStates == {"not_scheduled", "scheduled", "deleting", "deleted", "failed"}

\* All codes of a failed capture are one: only equality with the present one
\* is ever asked.
CaptureFailed == "writer_failed"
DeletionFailures == {"storage_delete_failed", "key_delete_failed",
                     "storage_missing", "key_missing", "reconciliation_failed"}
FailureCodes == {"none", CaptureFailed} \cup DeletionFailures

\* expires = 0: no expiry.  index is current_segment_index, timings the number
\* of timing rows, count the segment_count that finalization stores.
Row == [state : RowStates, meeting : Meetings \cup {NoMeeting}, id : Nat,
        expires : Nat, protected : BOOLEAN, deletion : DeletionStates,
        failure : FailureCodes, index : Nat, timings : Nat, count : Nat]

NoRow == [state |-> "none", meeting |-> NoMeeting, id |-> 0,
          expires |-> 0, protected |-> FALSE, deletion |-> "not_scheduled",
          failure |-> "none", index |-> 0, timings |-> 0, count |-> 0]

\* A request between two store writes: what it does, where it stands, the
\* recording and the segment it is about, the row it will insert, and the
\* recordings a maintenance run has still to visit and will report as failed.
Ops == [kind : {"none", "prepare", "write", "delete", "cleanup", "reconcile"},
        pc   : {"done", "insert", "publish", "rename", "commit",
                "next", "files", "key", "row"},
        rec  : Recs \cup {NoRec}, index : Nat, new : Row,
        todo : SUBSET Recs, failed : SUBSET Recs]

NoOp == [kind |-> "none", pc |-> "done", rec |-> NoRec, index |-> 0,
         new |-> NoRow, todo |-> {}, failed |-> {}]

Idle == op = NoOp
At(pc) == op.pc = pc

TypeOK ==
    /\ meeting \in [Meetings -> {"draft", "active", "ended"}]
    /\ row \in [Recs -> Row]
    /\ rowid \in Nat
    /\ keys \subseteq Recs
    /\ dirs \subseteq Recs
    /\ files \in [Recs -> SUBSET Indexes]
    /\ partial \in [Recs -> SUBSET Indexes]
    /\ op \in Ops
    /\ now \in Nat

Init ==
    /\ meeting = [m \in Meetings |-> "draft"]
    /\ row = [r \in Recs |-> NoRow]
    /\ rowid = 0
    /\ keys = {}
    /\ dirs = {}
    /\ files = [r \in Recs |-> {}]
    /\ partial = [r \in Recs |-> {}]
    /\ op = NoOp
    /\ now = 0

-----------------------------------------------------------------------------
(* Rows *)

RowsOf(m) == {r \in Recs : row[r].state # "none" /\ row[r].meeting = m}

\* get_by_meeting_id asks for any row of the meeting without an order; the
\* database finds them through the index on meeting_id, oldest first.
FoundFor(m, r) == /\ r \in RowsOf(m)
                  /\ \A q \in RowsOf(m) : row[r].id <= row[q].id

\* Commits row c as the new row of r; the timings are part of it.
Save(r, c) == row' = [row EXCEPT ![r] = c]

Active(r) == row[r].state = "recording"

MarkDeleting(c) == IF c.state = "deleted" THEN c
                   ELSE [c EXCEPT !.deletion = "deleting"]

MarkDeleted(c) == [c EXCEPT !.state = "deleted", !.deletion = "deleted",
                            !.expires = 0, !.protected = FALSE,
                            !.failure = "none"]

MarkDeletionFailed(c, code) == [c EXCEPT !.deletion = "failed",
                                         !.failure = code]

MarkStorageMissing(c) == IF c.state = "deleted" THEN c
                         ELSE [c EXCEPT !.state = "missing",
                                        !.deletion = "failed",
                                        !.failure = "storage_missing"]

\* expires_at(created): every timed policy lasts one period of the clock.
ExpiryFrom(timed) == IF timed THEN now + 1 ELSE 0

Scheduled(timed) == IF timed THEN "scheduled" ELSE "not_scheduled"

-----------------------------------------------------------------------------
(* Meetings *)

StartMeeting(m) ==
    /\ Idle
    /\ meeting[m] = "draft"
    /\ meeting' = [meeting EXCEPT ![m] = "active"]
    /\ UNCHANGED <<row, rowid, keys, disk, op, now>>

EndMeeting(m) ==
    /\ Idle
    /\ meeting[m] = "active"
    /\ meeting' = [meeting EXCEPT ![m] = "ended"]
    /\ UNCHANGED <<row, rowid, keys, disk, op, now>>

-----------------------------------------------------------------------------
(* Preparing and starting a recording *)

\* The guards, then the key: it exists before the row that refers to it.
PrepareKey(m, r, timed) ==
    /\ Idle
    /\ meeting[m] = "active"
    /\ \A q \in RowsOf(m) : FoundFor(m, q) => row[q].state = "deleted"
    /\ row[r].state = "none" /\ r \notin keys
    /\ keys' = keys \cup {r}
    /\ op' = [NoOp EXCEPT !.kind = "prepare", !.pc = "insert", !.rec = r,
                  !.new = [NoRow EXCEPT !.state = "pending", !.meeting = m,
                              !.id = rowid, !.expires = ExpiryFrom(timed),
                              !.deletion = Scheduled(timed)]]
    /\ UNCHANGED <<meeting, row, rowid, disk, now>>

PrepareInsert ==
    /\ op.kind = "prepare"
    /\ Save(op.rec, op.new)
    /\ rowid' = rowid + 1
    /\ op' = NoOp
    /\ UNCHANGED <<meeting, keys, disk, now>>

\* The insert fails; the key is taken back unless the keychain refuses.
PrepareFails ==
    /\ op.kind = "prepare"
    /\ "commit" \in Faults
    /\ \/ keys' = keys \ {op.rec}
       \/ "key" \in Faults /\ keys' = keys
    /\ op' = NoOp
    /\ UNCHANGED <<meeting, row, rowid, disk, now>>

MarkStarted(r) ==
    /\ Idle
    /\ row[r].state = "pending"
    /\ Save(r, [row[r] EXCEPT !.state = "recording"])
    /\ UNCHANGED <<meeting, rowid, keys, disk, op, now>>

-----------------------------------------------------------------------------
(* Writing a segment *)

\* Mutant: the next index comes from the files alone.
WriteCheck_FilesOnly(r, i) ==
    /\ Idle
    /\ Active(r)
    /\ files[r] = 0 .. i - 1
    /\ op' = [NoOp EXCEPT !.kind = "write", !.pc = "publish",
                          !.rec = r, !.index = i]
    /\ UNCHANGED <<meeting, row, rowid, keys, disk, now>>

\* First phase: the row, the timings and the listed files agree on i.
WriteCheck(r, i) ==
    /\ Idle
    /\ Active(r)
    /\ i = row[r].timings /\ i = row[r].index
    /\ files[r] = 0 .. i - 1
    /\ op' = [NoOp EXCEPT !.kind = "write", !.pc = "publish",
                          !.rec = r, !.index = i]
    /\ UNCHANGED <<meeting, row, rowid, keys, disk, now>>

\* The writer makes the directory, fetches the key and opens the .partial
\* file, which must not exist.
WritePartial ==
    /\ op.kind = "write" /\ At("publish")
    /\ op.rec \in keys
    /\ op.index \notin partial[op.rec]
    /\ dirs' = dirs \cup {op.rec}
    /\ partial' = [partial EXCEPT ![op.rec] = @ \cup {op.index}]
    /\ op' = [op EXCEPT !.pc = "rename"]
    /\ UNCHANGED <<meeting, row, rowid, keys, files, now>>

\* os.replace publishes the segment atomically.
WritePublish ==
    /\ op.kind = "write" /\ At("rename")
    /\ partial' = [partial EXCEPT ![op.rec] = @ \ {op.index}]
    /\ files' = [files EXCEPT ![op.rec] = @ \cup {op.index}]
    /\ op' = [op EXCEPT !.pc = "commit"]
    /\ UNCHANGED <<meeting, row, rowid, keys, dirs, now>>

\* No key, a keychain error, a .partial left by an earlier crash, or an error
\* of the file system: the writer removes the .partial file, whoever made it,
\* if it can.
WriteFails ==
    /\ op.kind = "write"
    /\ \/ /\ At("publish")
          /\ \/ op.rec \notin keys
             \/ op.index \in partial[op.rec]
             \/ {"key", "file"} \cap Faults # {}
       \/ At("rename") /\ "file" \in Faults
    /\ \/ /\ dirs' = dirs \cup {op.rec}
          /\ partial' = [partial EXCEPT ![op.rec] = @ \ {op.index}]
       \/ "file" \in Faults /\ UNCHANGED <<dirs, partial>>
    /\ op' = NoOp
    /\ UNCHANGED <<meeting, row, rowid, keys, files, now>>

StillWritable(r, i) == Active(r) /\ row[r].index = i /\ row[r].timings = i

\* Second phase: index and timing are committed together.
WriteCommit ==
    /\ op.kind = "write" /\ At("commit")
    /\ StillWritable(op.rec, op.index)
    /\ Save(op.rec, [row[op.rec] EXCEPT !.index = op.index + 1,
                                        !.timings = @ + 1])
    /\ op' = NoOp
    /\ UNCHANGED <<meeting, rowid, keys, disk, now>>

\* Mutant: the compensation removes the recording's directory.
WriteCompensate_Whole ==
    /\ op.kind = "write" /\ At("commit")
    /\ "commit" \in Faults \/ ~StillWritable(op.rec, op.index)
    /\ files' = [files EXCEPT ![op.rec] = {}]
    /\ op' = NoOp
    /\ UNCHANGED <<meeting, row, rowid, keys, dirs, partial, now>>

\* The second phase fails: the published file is removed, if it can be.
WriteCompensate ==
    /\ op.kind = "write" /\ At("commit")
    /\ "commit" \in Faults \/ ~StillWritable(op.rec, op.index)
    /\ \/ files' = [files EXCEPT ![op.rec] = @ \ {op.index}]
       \/ "file" \in Faults /\ files' = files
    /\ op' = NoOp
    /\ UNCHANGED <<meeting, row, rowid, keys, dirs, partial, now>>

-----------------------------------------------------------------------------
(* The end of a recording *)

\* Mutant: the route does not list the files.
Finalize_Unlisted(r, n, exactDuration) ==
    /\ Idle
    /\ Active(r)
    /\ row[r].timings > 0
    /\ n = row[r].timings /\ exactDuration
    /\ Save(r, [row[r] EXCEPT !.state = "completed", !.count = n])
    /\ UNCHANGED <<meeting, rowid, keys, disk, op, now>>

\* The route compares the caller's count with the listed files, the use case
\* compares count and duration with the timings, of which there must be one.
Finalize(r, n, exactDuration) ==
    /\ Idle
    /\ n = Cardinality(files[r])
    /\ Active(r)
    /\ row[r].timings > 0
    /\ n = row[r].timings /\ exactDuration
    /\ Save(r, [row[r] EXCEPT !.state = "completed", !.count = n])
    /\ UNCHANGED <<meeting, rowid, keys, disk, op, now>>

\* Mutant: a deleted recording may fail.
MarkFailed_Deleted(r) ==
    /\ Idle
    /\ row[r].state # "none"
    /\ Save(r, [row[r] EXCEPT !.state = "failed", !.failure = CaptureFailed])
    /\ UNCHANGED <<meeting, rowid, keys, disk, op, now>>

MarkFailed(r) ==
    /\ Idle
    /\ row[r].state \notin {"none", "deleted"}
    /\ row[r].state # "failed" \/ row[r].failure # CaptureFailed
    /\ Save(r, [row[r] EXCEPT !.state = "failed", !.failure = CaptureFailed])
    /\ UNCHANGED <<meeting, rowid, keys, disk, op, now>>

\* A deletion status of the past is overwritten, its failure code forgotten.
UpdateRetention(m, r, timed, protected) ==
    /\ Idle
    /\ FoundFor(m, r)
    /\ row[r].state # "deleted"
    /\ Save(r, [row[r] EXCEPT
                  !.expires = ExpiryFrom(timed),
                  !.protected = protected,
                  !.deletion = Scheduled(timed /\ ~protected),
                  !.failure = IF row[r].deletion = "failed"
                                 /\ @ \in DeletionFailures
                              THEN "none" ELSE @])
    /\ UNCHANGED <<meeting, rowid, keys, disk, op, now>>

-----------------------------------------------------------------------------
(* Deletion: marking, files, key, row *)

\* The next recording of a maintenance run, or the end of a single deletion.
Proceed == op' = IF op.kind = "delete" THEN NoOp
                 ELSE [op EXCEPT !.pc = "next", !.rec = NoRec]

\* The same after a failure, which the result of a maintenance run tells.
GiveUp == op' = IF op.kind = "delete" THEN NoOp
                ELSE [op EXCEPT !.pc = "next", !.rec = NoRec,
                                !.failed = @ \cup {op.rec}]

DeleteAudio(m, r) ==
    /\ Idle
    /\ FoundFor(m, r)
    /\ row[r].state # "deleted"
    /\ ~Active(r)
    /\ Save(r, MarkDeleting(row[r]))
    /\ op' = [NoOp EXCEPT !.kind = "delete", !.pc = "files", !.rec = r]
    /\ UNCHANGED <<meeting, rowid, keys, disk, now>>

\* rmtree takes the files away one by one, the directory last.
RemoveFile(i) ==
    /\ At("files")
    /\ i \in files[op.rec] \cup partial[op.rec]
    /\ files' = [files EXCEPT ![op.rec] = @ \ {i}]
    /\ partial' = [partial EXCEPT ![op.rec] = @ \ {i}]
    /\ UNCHANGED <<meeting, row, rowid, keys, dirs, op, now>>

RemoveDirectory ==
    /\ At("files")
    /\ files[op.rec] \cup partial[op.rec] = {}
    /\ dirs' = dirs \ {op.rec}
    /\ op' = [op EXCEPT !.pc = "key"]
    /\ UNCHANGED <<meeting, row, rowid, keys, files, partial, now>>

\* rmtree was told to ignore errors: the caller learns nothing of them.
IgnoreErrors ==
    /\ At("files")
    /\ "file" \in Faults
    /\ op' = [op EXCEPT !.pc = "key"]
    /\ UNCHANGED <<meeting, row, rowid, keys, disk, now>>

\* Deleting a key that is not there succeeds.
DeleteKey ==
    /\ At("key")
    /\ keys' = keys \ {op.rec}
    /\ IF op.kind = "reconcile" THEN Proceed ELSE op' = [op EXCEPT !.pc = "row"]
    /\ UNCHANGED <<meeting, row, rowid, disk, now>>

\* The deletion of the key fails: the row says so unless that fails as well.
\* Reconciliation leaves a deleted row as it is.
KeyFails ==
    /\ At("key")
    /\ "key" \in Faults
    /\ \/ /\ op.kind # "reconcile"
          /\ Save(op.rec, MarkDeletionFailed(row[op.rec], "key_delete_failed"))
       \/ /\ op.kind = "reconcile" \/ "commit" \in Faults
          /\ UNCHANGED row
    /\ GiveUp
    /\ UNCHANGED <<meeting, rowid, keys, disk, now>>

\* The directory cannot be named because the database fails; the failure of
\* the deletion is recorded if the database is back by then.
StorageFails ==
    /\ At("files")
    /\ "commit" \in Faults
    /\ \/ /\ op.kind # "reconcile"
          /\ Save(op.rec, MarkDeletionFailed(row[op.rec], "storage_delete_failed"))
       \/ UNCHANGED row
    /\ GiveUp
    /\ UNCHANGED <<meeting, rowid, keys, disk, now>>

RowDeleted ==
    /\ At("row")
    /\ ~Active(op.rec)
    /\ Save(op.rec, MarkDeleted(row[op.rec]))
    /\ Proceed
    /\ UNCHANGED <<meeting, rowid, keys, disk, now>>

\* Only the cleanup records that the last commit failed.
RowFails ==
    /\ At("row")
    /\ "commit" \in Faults
    /\ \/ /\ op.kind = "cleanup"
          /\ Save(op.rec, MarkDeletionFailed(row[op.rec], "reconciliation_failed"))
       \/ UNCHANGED row
    /\ GiveUp
    /\ UNCHANGED <<meeting, rowid, keys, disk, now>>

-----------------------------------------------------------------------------
(* Maintenance: one run of the retention cleanup, one of the reconciliation *)

\* Mutant of Expired: what is being deleted is left to whoever began it.
Expired_Unbegun == {r \in Recs : /\ row[r].expires # 0 /\ row[r].expires <= now
                                 /\ ~row[r].protected
                                 /\ row[r].state \notin {"none", "deleted"}
                                 /\ row[r].deletion \notin {"deleting", "deleted"}}

Expired == {r \in Recs : /\ row[r].expires # 0 /\ row[r].expires <= now
                         /\ ~row[r].protected
                         /\ row[r].state \notin {"none", "deleted"}
                         /\ row[r].deletion # "deleted"}

\* The next recording of a maintenance run is done with, or reported as failed.
Visited(r) == op' = [op EXCEPT !.todo = @ \ {r}]
Reported(r) == op' = [op EXCEPT !.todo = @ \ {r}, !.failed = @ \cup {r}]

CleanupList ==
    /\ Idle
    /\ op' = [NoOp EXCEPT !.kind = "cleanup", !.pc = "next", !.todo = Expired]
    /\ UNCHANGED <<meeting, row, rowid, keys, disk, now>>

CleanupNext(r) ==
    /\ op.kind = "cleanup" /\ At("next")
    /\ r \in op.todo
    /\ IF Active(r)
       THEN Save(r, MarkDeletionFailed(row[r], "reconciliation_failed")) /\ Reported(r)
       ELSE /\ Save(r, MarkDeleting(row[r]))
            /\ op' = [op EXCEPT !.todo = @ \ {r}, !.pc = "files", !.rec = r]
    /\ UNCHANGED <<meeting, rowid, keys, disk, now>>

\* Marking the row fails: the recording is left for the next run, its failure
\* recorded if the database is back by then.
CleanupSkips(r) ==
    /\ op.kind = "cleanup" /\ At("next")
    /\ r \in op.todo
    /\ "commit" \in Faults
    /\ \/ Save(r, MarkDeletionFailed(row[r], "reconciliation_failed"))
       \/ UNCHANGED row
    /\ Reported(r)
    /\ UNCHANGED <<meeting, rowid, keys, disk, now>>

ReconcileList ==
    /\ Idle
    /\ \E r \in Recs : row[r].state # "none"
    /\ op' = [NoOp EXCEPT !.kind = "reconcile", !.pc = "next",
                          !.todo = {r \in Recs : row[r].state # "none"}]
    /\ UNCHANGED <<meeting, row, rowid, keys, disk, now>>

\* What is left of a deleted recording goes; a row without its directory is
\* marked missing, but not while recording; a row without its key has failed.
ReconcileNext(r) ==
    /\ op.kind = "reconcile" /\ At("next")
    /\ r \in op.todo
    /\ LET there == r \in dirs
           owned == r \in keys
       IN \/ /\ row[r].state = "deleted"
             /\ op' = [op EXCEPT !.todo = @ \ {r},
                          !.pc = IF there THEN "files"
                                 ELSE IF owned THEN "key" ELSE "next",
                          !.rec = IF there \/ owned THEN r ELSE NoRec]
             /\ UNCHANGED row
          \/ /\ row[r].state # "deleted"
             /\ IF there /\ ~owned
                THEN Save(r, MarkDeletionFailed(row[r], "key_missing")) /\ Reported(r)
                ELSE /\ IF there \/ Active(r) THEN UNCHANGED row
                        ELSE Save(r, MarkStorageMissing(row[r]))
                     /\ Visited(r)
    /\ UNCHANGED <<meeting, rowid, keys, disk, now>>

\* The keychain cannot be asked, or the database refuses the mark.
ReconcileSkips(r) ==
    /\ op.kind = "reconcile" /\ At("next")
    /\ r \in op.todo
    /\ \/ /\ "key" \in Faults /\ row[r].state # "deleted"
          /\ Save(r, MarkDeletionFailed(row[r], "reconciliation_failed"))
       \/ /\ Faults \cap {"commit", "key"} # {}
          /\ UNCHANGED row
    /\ Reported(r)
    /\ UNCHANGED <<meeting, rowid, keys, disk, now>>

MaintenanceDone ==
    /\ op.kind \in {"cleanup", "reconcile"} /\ At("next")
    /\ op.todo = {}
    /\ op' = NoOp
    /\ UNCHANGED <<meeting, row, rowid, keys, disk, now>>

-----------------------------------------------------------------------------
(* The process dies between two store writes; a request that had not begun
   to write is the same as one that never came. *)

Crash ==
    /\ "crash" \in Faults
    /\ ~Idle
    /\ op' = NoOp
    /\ UNCHANGED <<meeting, row, rowid, keys, disk, now>>

Tick ==
    /\ Idle
    /\ now < MaxNow
    /\ now' = now + 1
    /\ UNCHANGED <<meeting, row, rowid, keys, disk, op>>

-----------------------------------------------------------------------------

Preparing == \/ \E m \in Meetings : StartMeeting(m) \/ EndMeeting(m)
             \/ \E m \in Meetings, r \in Recs, timed \in BOOLEAN :
                   PrepareKey(m, r, timed)
             \/ PrepareInsert \/ PrepareFails
             \/ \E r \in Recs : MarkStarted(r)

Writing == \/ \E r \in Recs, i \in Indexes : WriteCheck(r, i)
           \/ WritePartial \/ WritePublish \/ WriteFails
           \/ WriteCommit \/ WriteCompensate
           \/ \E r \in Recs, n \in 0 .. MaxSegments, exact \in BOOLEAN :
                 Finalize(r, n, exact)
           \/ \E r \in Recs : MarkFailed(r)

Deleting == \/ \E m \in Meetings, r \in Recs :
                  \/ DeleteAudio(m, r)
                  \/ \E timed, protected \in BOOLEAN :
                        UpdateRetention(m, r, timed, protected)
            \/ \E i \in Indexes : RemoveFile(i)
            \/ RemoveDirectory \/ IgnoreErrors \/ StorageFails
            \/ DeleteKey \/ KeyFails
            \/ RowDeleted \/ RowFails

Maintaining == \/ CleanupList \/ ReconcileList \/ MaintenanceDone
               \/ \E r \in Recs : \/ CleanupNext(r) \/ CleanupSkips(r)
                                  \/ ReconcileNext(r) \/ ReconcileSkips(r)

Next == Preparing \/ Writing \/ Deleting \/ Maintaining \/ Crash \/ Tick

Spec == Init /\ [][Next]_vars

-----------------------------------------------------------------------------
(* Properties *)

\* While a recording runs, every segment whose metadata is committed is on
\* disk under a name the next write will list, its key is in the keychain,
\* and the index and the timings of the row agree: publication comes before
\* the commit, and nothing deletes under a running recording.
CommittedIsStored ==
    \A r \in Recs : Active(r) =>
        /\ row[r].index = row[r].timings
        /\ 0 .. row[r].timings - 1 \subseteq files[r]
        /\ row[r].timings > 0 => r \in keys

\* Whatever fails or dies, the files are at most one segment ahead of the
\* committed metadata: the segment a write was publishing.
OneSegmentAhead ==
    \A r \in Recs : files[r] \cup partial[r] \subseteq 0 .. row[r].timings

\* A row says deleted only once the key is gone for good: whatever rmtree
\* left behind can no longer be decrypted.
DeletedIsUnreadable ==
    \A r \in Recs : row[r].state = "deleted" => r \notin keys

\* Database, keychain and files tell one story, whatever fails or dies between
\* two writes: of a running recording, of the write under way, of a deleted one.
StoresAgree == TypeOK /\ CommittedIsStored /\ OneSegmentAhead /\ DeletedIsUnreadable

\* A recording completes only with all its audio: as many files as it counts,
\* named without a hole from 0, each with its committed timing and readable
\* with the key.  The route and the use case compare counts only.
CompletedIsWhole ==
    [][\A r \in Recs :
         row'[r].state = "completed" /\ row[r].state # "completed" =>
            /\ files[r] = 0 .. row'[r].count - 1
            /\ row'[r].count = row[r].timings
            /\ r \in keys]_vars

\* Committed audio and its key go only while the row says that it is being
\* deleted, or was: never because a write failed, a recording failed or
\* metadata disagreed.
AudioGoesByDeletionOnly ==
    [][\A r \in Recs :
         \/ \E i \in files[r] : i < row[r].timings /\ i \notin files'[r]
         \/ r \in keys /\ r \notin keys' /\ row[r].state # "none"
         => row[r].deletion \in {"deleting", "deleted"}]_vars

\* Seen through their rows, the recordings live as RecordingService promises:
\* segments are appended while recording only, reconciliation and deletion
\* leave a running recording alone, and a deleted one stays deleted.
Service == INSTANCE RecordingService WITH
             state <- [r \in Recs |-> row[r].state],
             count <- [r \in Recs |-> row[r].timings]

ImplementsService == Service!Spec

\* A retention cleanup that has come to the end of its list has deleted every
\* recording past its expiry that nobody protects, or reports it as failed:
\* also one whose deletion an earlier error or death of the process cut short,
\* or whose deletion status and policy were rewritten since.
Overdue == {r \in Recs : /\ row[r].state \notin {"none", "deleted"}
                         /\ row[r].expires # 0 /\ row[r].expires <= now
                         /\ ~row[r].protected}

ExpiredIsAccountedFor ==
    op.kind = "cleanup" /\ At("next") /\ op.todo = {} => Overdue \subseteq op.failed

\* The claim of preparation: a meeting with a recording that is not deleted
\* gets no second one.  The lookup finds the oldest row, a deleted one.
OneRecordingPerMeeting ==
    \A r, q \in Recs :
        /\ row[r].state \notin {"none", "deleted"}
        /\ row[q].state \notin {"none", "deleted"}
        /\ row[r].meeting = row[q].meeting
        => r = q

=============================================================================
