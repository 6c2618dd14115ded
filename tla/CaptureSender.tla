--------------------------- MODULE CaptureSender ---------------------------
(***************************************************************************)
(* The desktop's path from finalized audio chunks to the live-transcription *)
(* client during one capture session: the bounded queue and the sender task *)
(* of audio_capture/sender.rs, the processing worker of                     *)
(* audio_capture/coordinator.rs that fills the queue, and the coordinator's *)
(* stop, abort and status, which run one at a time under the command mutex. *)
(* The behaviour starts where a successful start_with_recording leaves it.  *)
(*                                                                          *)
(* The three tasks run in parallel on a multithreaded runtime, so a step is *)
(* one access to shared state: one atomic flag, one critical section of the *)
(* queue's lock, or one call of a tokio Notify.  A Notify keeps one permit  *)
(* for notify_one when nobody waits, and none for notify_waiters.           *)
(*                                                                          *)
(* A chunk is its number in the order of finalization.  Audio, the recorder *)
(* branch and the counts sent along with a chunk are left out.  A native    *)
(* frame that completes no chunk changes nothing here and is not a step.    *)
(***************************************************************************)
EXTENDS Integers, Sequences, FiniteSets, TLC

CONSTANTS Capacity,   \* FINALIZED_CHUNK_QUEUE_CAPACITY
          MaxChunks,  \* bound: chunks finalized in the session
          MaxBatch    \* bound: chunks one received frame may complete

ASSUME CapacityAssumption == Capacity \in Nat \ {0}
ASSUME BoundsAssumption == MaxChunks \in Nat /\ MaxBatch \in Nat \ {0}

VARIABLES
  queue,       \* chunks: the FIFO behind the queue's lock
  closed,      \* closed
  overloaded,  \* overloaded
  permit,      \* notify: the permit a notify_one left behind
  task,        \* where the sender task is
  hand,        \* the chunk the sender task has taken out, 0 for none
  stopped,     \* stopped: abort has been asked of the sender task
  failed,      \* failed: a submission was refused
  worker,      \* where the processing worker is
  phase,       \* which part of its input the worker is going through
  batch,       \* chunks still to come out of the audio in hand
  made,        \* chunks finalized so far
  dropped,     \* the worker's JoinHandle was asked to abort it
  nudged,      \* the worker's wait has been notified of the failure
  input,       \* the native frame channel: open, or closed by bridge.stop
  processingFailed, tailFailed, \* processing_failed, final_tail_admission_failed
  graceful,    \* graceful_stopping
  stopping,    \* stopping
  gap,         \* submission_gap
  state,       \* the coordinator's AudioCaptureState
  owned,       \* which of processing_task and sender_task are Some
  op,          \* the call in progress
  at,          \* where that call is
  sent,        \* history: chunks handed to the client, in order
  delivered,   \* history: chunks the client accepted
  admitted,    \* history: chunks that entered the queue
  result       \* history: what the last stop or abort returned

queueVars == <<queue, closed, overloaded, permit>>
taskVars == <<task, hand, failed>>
workerVars == <<worker, phase, batch, made, processingFailed, tailFailed, gap>>
signalVars == <<dropped, nudged, input, stopped>>
coordVars == <<graceful, stopping, state, owned, op, at, result>>
historyVars == <<sent, delivered, admitted>>
vars == <<queueVars, taskVars, workerVars, signalVars, coordVars, historyVars>>

Chunks == 1..MaxChunks

Init ==
  /\ queue = <<>> /\ closed = FALSE /\ overloaded = FALSE /\ permit = FALSE
  /\ task = "top" /\ hand = 0 /\ stopped = FALSE /\ failed = FALSE
  /\ worker = "top" /\ phase = "capture" /\ batch = 0 /\ made = 0
  /\ dropped = FALSE /\ nudged = FALSE /\ input = "open"
  /\ processingFailed = FALSE /\ tailFailed = FALSE
  /\ graceful = FALSE /\ stopping = FALSE /\ gap = FALSE
  /\ state = "capturing" /\ owned = {"worker", "sender"}
  /\ op = "none" /\ at = "idle"
  /\ sent = <<>> /\ delivered = {} /\ admitted = {}
  /\ result = "none"

-----------------------------------------------------------------------------
(* The sender task. *)

TaskGoes(from, to) == task = from /\ task' = to

\* while !task_stopped
TaskTop ==
  /\ task = "top"
  /\ task' = IF stopped THEN "done" ELSE "pop"
  /\ UNCHANGED <<hand, failed, queueVars, workerVars, signalVars, coordVars, historyVars>>

\* next: pop, under the queue's lock
Pop ==
  /\ task = "pop"
  /\ IF queue = <<>>
       THEN task' = "check" /\ UNCHANGED <<queue, hand>>
       ELSE task' = "taken" /\ hand' = Head(queue) /\ queue' = Tail(queue)
  /\ UNCHANGED <<closed, overloaded, permit, failed,
                 workerVars, signalVars, coordVars, historyVars>>

\* next: an empty queue ends the task once it is closed
CheckClosed ==
  /\ task = "check"
  /\ task' = IF closed THEN "done" ELSE "register"
  /\ UNCHANGED <<hand, failed, queueVars, workerVars, signalVars, coordVars, historyVars>>

\* notify.notified().await: a permit is taken at once, else the task sleeps
Register ==
  /\ task = "register"
  /\ task' = IF permit THEN "pop" ELSE "asleep"
  /\ permit' = FALSE
  /\ UNCHANGED <<queue, closed, overloaded, hand, failed,
                 workerVars, signalVars, coordVars, historyVars>>

\* a chunk popped after abort was asked is dropped
TaskTaken ==
  /\ task = "taken"
  /\ IF stopped
       THEN task' = "done" /\ hand' = 0 /\ UNCHANGED sent
       ELSE task' = "submitting" /\ sent' = Append(sent, hand) /\ UNCHANGED hand
  /\ UNCHANGED <<failed, delivered, admitted,
                 queueVars, workerVars, signalVars, coordVars>>

SubmitSucceeds ==
  /\ TaskGoes("submitting", "top")
  /\ delivered' = delivered \cup {hand}
  /\ hand' = 0
  /\ UNCHANGED <<failed, sent, admitted,
                 queueVars, workerVars, signalVars, coordVars>>

\* mutants: a refused chunk goes back to the queue; the task goes on after one
SubmitFails_Requeues ==
  /\ TaskGoes("submitting", "top")
  /\ queue' = Append(queue, hand) /\ hand' = 0
  /\ UNCHANGED <<closed, overloaded, permit, failed,
                 workerVars, signalVars, coordVars, historyVars>>

SubmitFails_Continues ==
  /\ TaskGoes("submitting", "top")
  /\ hand' = 0 /\ failed' = TRUE
  /\ UNCHANGED <<queueVars, workerVars, signalVars, coordVars, historyVars>>

\* Err: the failure flag, the notification and the clear are three steps
SubmitFails ==
  /\ TaskGoes("submitting", "announce")
  /\ hand' = 0 /\ failed' = TRUE
  /\ UNCHANGED <<queueVars, workerVars, signalVars, coordVars, historyVars>>

AnnounceFailure ==
  /\ TaskGoes("announce", "clear")
  /\ nudged' = (nudged \/ worker = "select")
  /\ UNCHANGED <<hand, failed, queueVars, workerVars, coordVars, historyVars,
                 dropped, input, stopped>>

ClearAfterFailure ==
  /\ TaskGoes("clear", "done")
  /\ queue' = <<>>
  /\ UNCHANGED <<closed, overloaded, permit, hand, failed,
                 workerVars, signalVars, coordVars, historyVars>>

Sender == TaskTop \/ Pop \/ CheckClosed \/ Register \/ TaskTaken
          \/ AnnounceFailure \/ ClearAfterFailure

-----------------------------------------------------------------------------
(* The processing worker. *)

\* what notify_waiters does: it wakes a task that already sleeps
Wake == task' = IF task = "asleep" THEN "pop" ELSE task

\* The loop reads the flag ...
WorkerTop ==
  /\ worker = "top"
  /\ worker' = IF failed THEN "clear" ELSE "arm"
  /\ UNCHANGED <<phase, batch, made, processingFailed, tailFailed, gap,
                 signalVars, queueVars, taskVars, coordVars, historyVars>>

\* ... and then creates the wait for its notification, which hears later ones
\* only: one that falls in between is lost.
WorkerArms ==
  /\ worker = "arm"
  /\ worker' = "select"
  /\ nudged' = FALSE
  /\ UNCHANGED <<phase, batch, made, processingFailed, tailFailed, gap,
                 dropped, input, stopped, queueVars, taskVars, coordVars, historyVars>>

\* select!: a frame that completes chunks, also one left in a closed channel
TakeFrame ==
  /\ worker = "select"
  /\ \E n \in 1..MaxBatch : made + n <= MaxChunks /\ batch' = n
  /\ worker' = "process"
  /\ UNCHANGED <<phase, made, processingFailed, tailFailed, gap,
                 signalVars, queueVars, taskVars, coordVars, historyVars>>

\* select!: the failure notification
TakeNudge ==
  /\ worker = "select" /\ nudged
  /\ worker' = "clear"
  /\ UNCHANGED <<phase, batch, made, processingFailed, tailFailed, gap,
                 signalVars, queueVars, taskVars, coordVars, historyVars>>

\* select!: the channel is closed and empty
InputEnds ==
  /\ worker = "select" /\ input = "closed"
  /\ IF stopping /\ graceful
       THEN /\ worker' = "process" /\ phase' = "flush"
            /\ \E n \in 0..MaxBatch : made + n <= MaxChunks /\ batch' = n
            /\ UNCHANGED processingFailed
       ELSE /\ worker' = "done"
            /\ processingFailed' = (processingFailed \/ ~stopping)
            /\ UNCHANGED <<phase, batch>>
  /\ UNCHANGED <<made, tailFailed, gap,
                 signalVars, queueVars, taskVars, coordVars, historyVars>>

\* An aborted task ends where it would wait, not in the middle of a frame.
WorkerDropped ==
  /\ worker = "select" /\ dropped
  /\ worker' = "done"
  /\ UNCHANGED <<phase, batch, made, processingFailed, tailFailed, gap,
                 signalVars, queueVars, taskVars, coordVars, historyVars>>

\* push, under the queue's lock: Closed, then Full, then the append
Admit ==
  /\ worker = "process" /\ batch > 0 /\ ~closed /\ Len(queue) < Capacity
  /\ made' = made + 1 /\ batch' = batch - 1
  /\ queue' = Append(queue, made + 1)
  /\ admitted' = admitted \cup {made + 1}
  /\ worker' = "notify"
  /\ UNCHANGED <<closed, overloaded, permit, phase, processingFailed, tailFailed, gap,
                 sent, delivered, signalVars, taskVars, coordVars>>

\* mutant: the oldest queued chunk makes room for the newest
Refuse_Replaces ==
  /\ worker = "process" /\ batch > 0 /\ ~closed /\ Len(queue) >= Capacity
  /\ made' = made + 1 /\ batch' = batch - 1
  /\ queue' = Append(Tail(queue), made + 1)
  /\ admitted' = admitted \cup {made + 1}
  /\ worker' = "notify" /\ overloaded' = TRUE /\ gap' = TRUE
  /\ UNCHANGED <<closed, permit, phase, tailFailed, processingFailed,
                 sent, delivered, signalVars, taskVars, coordVars>>

\* Full: capture goes on, but a refused final tail fails the session
Refuse ==
  /\ worker = "process" /\ batch > 0 /\ ~closed /\ Len(queue) >= Capacity
  /\ made' = made + 1 /\ batch' = batch - 1
  /\ overloaded' = TRUE /\ gap' = TRUE
  /\ IF phase = "tail"
       THEN worker' = "done" /\ tailFailed' = TRUE /\ processingFailed' = TRUE
       ELSE UNCHANGED <<worker, tailFailed, processingFailed>>
  /\ UNCHANGED <<queue, closed, permit, phase, sent, delivered, admitted,
                 signalVars, taskVars, coordVars>>

\* push after close, or audio the processor, the chunker or the encoder rejects
ProcessingFails ==
  /\ worker = "process" /\ (batch > 0 \/ phase = "flush")
  /\ worker' = "clear"
  /\ UNCHANGED <<phase, batch, made, processingFailed, tailFailed, gap,
                 signalVars, queueVars, taskVars, coordVars, historyVars>>

\* mutant: no permit is kept for a task that does not sleep yet
NotifyOne_NoPermit ==
  /\ worker = "notify"
  /\ worker' = "process"
  /\ Wake
  /\ UNCHANGED <<queueVars, hand, failed, phase, batch, made,
                 processingFailed, tailFailed, gap, signalVars, coordVars, historyVars>>

\* push: notify_one, after the lock is released
NotifyOne ==
  /\ worker = "notify"
  /\ worker' = "process"
  /\ IF task = "asleep"
       THEN task' = "pop" /\ UNCHANGED permit
       ELSE permit' = TRUE /\ UNCHANGED task
  /\ UNCHANGED <<queue, closed, overloaded, hand, failed, phase, batch, made,
                 processingFailed, tailFailed, gap, signalVars, coordVars, historyVars>>

\* The audio in hand is used up: back to the input, or on to the final tail.
BatchEnds ==
  /\ worker = "process" /\ batch = 0
  /\ CASE phase = "capture" -> worker' = "top" /\ UNCHANGED <<phase, batch>>
       [] phase = "flush" ->
            /\ phase' = "tail" /\ UNCHANGED worker
            /\ \E n \in 0..1 : made + n <= MaxChunks /\ batch' = n
       [] phase = "tail" -> worker' = "done" /\ UNCHANGED <<phase, batch>>
  /\ UNCHANGED <<made, processingFailed, tailFailed, gap,
                 signalVars, queueVars, taskVars, coordVars, historyVars>>

\* Every failure clears the queue before it is reported.
WorkerClears ==
  /\ worker = "clear" /\ worker' = "report"
  /\ queue' = <<>>
  /\ UNCHANGED <<closed, overloaded, permit, phase, batch, made,
                 processingFailed, tailFailed, gap,
                 signalVars, taskVars, coordVars, historyVars>>

WorkerReports ==
  /\ worker = "report" /\ worker' = "done"
  /\ processingFailed' = TRUE
  /\ UNCHANGED <<phase, batch, made, tailFailed, gap,
                 signalVars, queueVars, taskVars, coordVars, historyVars>>

Worker == WorkerTop \/ WorkerArms \/ TakeFrame \/ TakeNudge \/ InputEnds
          \/ WorkerDropped
          \/ Admit \/ Refuse \/ ProcessingFails \/ NotifyOne \/ BatchEnds
          \/ WorkerClears \/ WorkerReports

-----------------------------------------------------------------------------
(* The coordinator.  Timers run for seconds and the tasks' own steps for    *)
(* microseconds: a timer expires only on a task that waits.                 *)

TaskWaits == task \in {"asleep", "submitting"}

Returns(s, r) ==
  /\ op' = "none" /\ at' = "idle" /\ state' = s /\ result' = r

\* status, and observe_sender_failure within it
Status ==
  /\ at = "idle"
  /\ IF processingFailed \/ ("sender" \in owned /\ failed)
       THEN /\ input' = "closed"
            /\ dropped' = (dropped \/ "worker" \in owned)
            /\ owned' = owned \ {"worker"}
            /\ queue' = IF "sender" \in owned THEN <<>> ELSE queue
            /\ gap' = FALSE /\ state' = "failed"
       ELSE UNCHANGED <<input, dropped, owned, queue, gap, state>>
  /\ UNCHANGED <<closed, overloaded, permit, nudged, stopped, graceful, stopping,
                 op, at, result, worker, phase, batch, made, processingFailed,
                 tailFailed, taskVars, historyVars>>

\* stop of a running capture; bridge.stop may fail and leave the input open
StopBegins ==
  /\ at = "idle" /\ state = "capturing"
  /\ op' = "stop" /\ state' = "stopping"
  /\ stopping' = TRUE /\ graceful' = TRUE
  /\ \/ at' = "join" /\ input' = "closed" /\ UNCHANGED dropped
     \/ at' = "joinAborted" /\ dropped' = TRUE /\ UNCHANGED input
  /\ UNCHANGED <<owned, result, nudged, stopped,
                 queueVars, taskVars, workerVars, historyVars>>

\* abort, and stop of a failed capture, which aborts and returns the status
AbortBegins ==
  /\ at = "idle"
  /\ \/ op' = "abort"
     \/ op' = "stopFailed" /\ state = "failed"
  /\ graceful' = FALSE /\ stopping' = TRUE
  /\ input' = "closed" /\ dropped' = TRUE
  /\ at' = "joinAborted"
  /\ UNCHANGED <<state, owned, result, nudged, stopped,
                 queueVars, taskVars, workerVars, historyVars>>

\* stop: the worker has gone through its input; a failed one aborts the sender
Joined ==
  /\ at = "join" /\ worker = "done"
  /\ owned' = owned \ {"worker"}
  /\ at' = IF processingFailed /\ ~tailFailed THEN "abortSender" ELSE "close"
  /\ UNCHANGED <<graceful, stopping, state, op, result,
                 signalVars, queueVars, taskVars, workerVars, historyVars>>

\* stop: the worker takes longer than what is left of the budget
JoinTimesOut ==
  /\ at = "join" /\ worker # "done"
  /\ dropped' = TRUE /\ at' = "joinAborted"
  /\ UNCHANGED <<graceful, stopping, state, owned, op, result, nudged, input,
                 stopped, queueVars, taskVars, workerVars, historyVars>>

\* abort_processing_and_sender: a worker status has let go of is not awaited
JoinedAborted ==
  /\ at = "joinAborted"
  /\ "worker" \in owned => worker = "done"
  /\ owned' = owned \ {"worker"}
  /\ at' = IF "sender" \in owned THEN "abortSender" ELSE "abortWait"
  /\ UNCHANGED <<graceful, stopping, state, op, result,
                 signalVars, queueVars, taskVars, workerVars, historyVars>>

\* finish_gracefully: close
Close ==
  /\ at = "close" /\ at' = "drain"
  /\ closed' = TRUE
  /\ owned' = owned \ {"sender"}
  /\ UNCHANGED <<queue, overloaded, permit, graceful, stopping, state, op, result,
                 signalVars, taskVars, workerVars, historyVars>>

\* close: notify_waiters, after the flag
CloseWakes ==
  /\ at = "drain" /\ at' = "drained" /\ Wake
  /\ UNCHANGED <<queueVars, hand, failed, graceful, stopping, state, owned, op,
                 result, signalVars, workerVars, historyVars>>

\* finish_gracefully: the task has ended within the budget
Drained ==
  /\ at = "drained" /\ task = "done"
  /\ IF failed \/ tailFailed
       THEN Returns("failed", "undrained")
       ELSE Returns("stopped", "stopped")
  /\ gap' = FALSE
  /\ UNCHANGED <<graceful, stopping, owned, worker, phase, batch, made,
                 processingFailed, tailFailed, signalVars, queueVars, taskVars, historyVars>>

\* mutant: the time limit covers a submission only, not a sleeping task
DrainTimesOut_Submission ==
  /\ at = "drained" /\ task = "submitting"
  /\ task' = "done" /\ hand' = 0
  /\ Returns("failed", "timedOut")
  /\ gap' = FALSE
  /\ UNCHANGED <<failed, graceful, stopping, owned, worker, phase, batch, made,
                 processingFailed, tailFailed, signalVars, queueVars, historyVars>>

\* finish_gracefully: the budget is used up, the task is aborted where it waits
DrainTimesOut ==
  /\ at = "drained" /\ TaskWaits
  /\ task' = "done" /\ hand' = 0
  /\ Returns("failed", "timedOut")
  /\ gap' = FALSE
  /\ UNCHANGED <<failed, graceful, stopping, owned, worker, phase, batch, made,
                 processingFailed, tailFailed, signalVars, queueVars, historyVars>>

\* ChunkSenderTask::abort: stopped, then close and clear, then wait
AbortSender ==
  /\ at = "abortSender"
  /\ stopped' = TRUE /\ owned' = owned \ {"sender"}
  /\ closed' = TRUE /\ at' = "abortClear"
  /\ UNCHANGED <<queue, overloaded, permit, graceful, stopping, state, op, result,
                 dropped, nudged, input, taskVars, workerVars, historyVars>>

AbortClears ==
  /\ at = "abortClear" /\ at' = "abortWait"
  /\ queue' = <<>> /\ Wake
  /\ UNCHANGED <<closed, overloaded, permit, hand, failed, graceful, stopping, state,
                 owned, op, result, signalVars, workerVars, historyVars>>

\* mutant: after 250 ms the task is left to itself
AbortReturns_Detached ==
  /\ at = "abortWait"
  /\ task = "done" \/ TaskWaits
  /\ Returns("stopped", "aborted")
  /\ gap' = FALSE
  /\ UNCHANGED <<graceful, stopping, owned, worker, phase, batch, made,
                 processingFailed, tailFailed, signalVars, queueVars, taskVars, historyVars>>

\* The task ends by itself, or after 250 ms is aborted where it waits.
AbortReturns ==
  /\ at = "abortWait"
  /\ task = "done" \/ TaskWaits
  /\ task' = "done" /\ hand' = 0
  /\ CASE op = "stop" -> Returns("failed", "gaveUp")
       [] op = "abort" -> Returns("stopped", "aborted")
       [] op = "stopFailed" ->
            Returns(IF processingFailed THEN "failed" ELSE "stopped", "aborted")
  /\ gap' = FALSE
  /\ UNCHANGED <<failed, graceful, stopping, owned, worker, phase, batch, made,
                 processingFailed, tailFailed, signalVars, queueVars, historyVars>>

Timers == JoinTimesOut \/ DrainTimesOut
Coordinator == Joined \/ JoinedAborted \/ Close \/ CloseWakes \/ Drained
               \/ AbortSender \/ AbortClears \/ AbortReturns
Calls == Status \/ StopBegins \/ AbortBegins

Next == Sender \/ SubmitSucceeds \/ SubmitFails \/ Worker \/ Coordinator \/ Timers \/ Calls

Spec == Init /\ [][Next]_vars

\* The runtime runs every ready task and every due timer.  The client's
\* answer to a submission is not promised: the timers bound the wait for it.
FairSpec ==
  /\ Spec
  /\ WF_vars(Sender) /\ WF_vars(Worker) /\ WF_vars(Coordinator) /\ WF_vars(Timers)

-----------------------------------------------------------------------------
(* Properties. *)

QueueType == queue \in Seq(Chunks) /\ Len(queue) <= Capacity

FlagType ==
  /\ closed \in BOOLEAN /\ overloaded \in BOOLEAN /\ permit \in BOOLEAN
  /\ stopped \in BOOLEAN /\ failed \in BOOLEAN /\ dropped \in BOOLEAN
  /\ nudged \in BOOLEAN /\ graceful \in BOOLEAN /\ stopping \in BOOLEAN
  /\ gap \in BOOLEAN /\ processingFailed \in BOOLEAN /\ tailFailed \in BOOLEAN

TaskType ==
  /\ task \in {"top", "pop", "check", "register", "asleep", "taken", "submitting",
               "announce", "clear", "done"}
  /\ hand \in 0..MaxChunks
  /\ hand # 0 <=> task \in {"taken", "submitting"}

WorkerType ==
  /\ worker \in {"top", "arm", "select", "process", "notify", "clear", "report",
                 "done"}
  /\ phase \in {"capture", "flush", "tail"}
  /\ made \in 0..MaxChunks /\ batch \in 0..MaxBatch /\ made + batch <= MaxChunks

CallType ==
  /\ input \in {"open", "closed"}
  /\ state \in {"capturing", "stopping", "stopped", "failed"}
  /\ owned \subseteq {"worker", "sender"}
  /\ op \in {"none", "stop", "abort", "stopFailed"}
  /\ at \in {"idle", "join", "joinAborted", "close", "drain", "drained",
             "abortSender", "abortClear", "abortWait"}
  /\ op = "none" <=> at = "idle"
  /\ result \in {"none", "stopped", "undrained", "timedOut", "gaveUp", "aborted"}

HistoryType == sent \in Seq(Chunks) /\ delivered \subseteq Chunks /\ admitted \subseteq Chunks

\* Every variable keeps its type.
TypeOK == QueueType /\ FlagType /\ TaskType /\ WorkerType /\ CallType /\ HistoryType

Sent == {sent[i] : i \in DOMAIN sent}
Queued == {queue[i] : i \in DOMAIN queue}

\* Chunks reach the client in the order they were finalized, each at most
\* once, and those that wait are all newer: the sequence the client numbers
\* is the order of the audio (sender.rs: FIFO queue, one sender task).
InOrder ==
  LET line == sent \o (IF task = "taken" THEN <<hand>> ELSE <<>>) \o queue
  IN  \A i, j \in DOMAIN line : i < j => line[i] < line[j]

\* A chunk that was let into the queue leaves it towards the client or
\* because the session has failed or is being aborted, never to make room
\* for a newer one ("already queued speech ... is never replaced").
AdmittedIsKept ==
  \/ failed \/ processingFailed \/ worker = "report" \/ stopped
  \/ admitted = Sent \cup Queued \cup (IF task = "taken" THEN {hand} ELSE {})

\* A stop that reports success leaves no submission unanswered or refused and
\* has refused no final tail; what it has not delivered is still in the queue.
StopWaitsForAnswers ==
  result = "stopped" =>
    delivered = Sent /\ ~failed /\ ~tailFailed /\ admitted \ delivered = Queued

\* Admitted audio is accounted for: in the queue, at the client or given up by a
\* failure or an abort, and a stop that reports success knows every answer.
Inv == TypeOK /\ AdmittedIsKept /\ StopWaitsForAnswers

\* No chunk waits in the queue beside a sleeping sender task: the
\* push that makes the queue non-empty wakes it, or leaves a permit for the
\* wait it is about to begin.
NoChunkStranded ==
  task = "asleep" /\ queue # <<>> => worker = "notify"

\* Once a stop or an abort has returned, however it went, no sender task is
\* left that could hand audio to the client.
GoneAfterReturn == at = "idle" /\ result # "none" => task = "done"

\* After a refused submission no later chunk is handed to the client, even
\* while the worker goes on filling the queue.
NothingAfterFailure == [][failed => sent' = sent]_vars

\* Every stop and abort returns: the timers bound the wait for a worker that
\* is busy, a client that does not answer and a task that sleeps for ever.
CallsReturn == at # "idle" ~> at = "idle"

\* What sender.rs says of finish_gracefully ("Closes admission and drains all
\* already-admitted chunks in FIFO order"): success means all were delivered.
StopIsComplete == result = "stopped" => delivered = admitted

=============================================================================
