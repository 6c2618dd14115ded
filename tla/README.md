# AI Meeting Copilot: models, checks and proofs

A verification project for the AI Meeting Copilot: a desktop application
(Tauri: a TypeScript interface over a Rust core) that captures meeting audio,
and a local Python backend (FastAPI, one asyncio event loop) that transcribes
it and enriches the transcript with a local language model.

The TLA+ modules translate the code; the documents are used only for what
they promise. `PROJECT.json` lists for every definition the lines it models,
for every property the hazard it is aimed at and a mutation of the code that
breaks it.

    tlc -config Sender.cfg MCCaptureSender.tla     # one run
    tlapm AssistMode_proof.tla                           # one module of proofs

## 1. The system

    capture (Swift) -> processing worker -> bounded queue -> sender task     desktop,
       |                                                        |            Rust
       +-> recording branch -> recording writer                 v
                |                               live-transcription client
                |  HTTP                                         |  WebSocket
                v                                               v
        recording lifecycle                   live-transcription route       backend,
        (rows, keys, segment files)             |            |               Python
                                           STT provider   Assist orchestrator
                                                |            |
                                                +-> priority gate
    user interface (TypeScript) <- events <- client <- Assist updates
       |
       +-> review and translation panels -> generation routes -> text provider
       +-> player -> playback manager (Rust) -> stream and seek routes

| Component | State | Operations | Hard behaviour |
|---|---|---|---|
| Assist Mode orchestrator (`assist_mode_orchestrator.py`) | lifecycle state, pending queue, newest-translation ordinal, context, worker task | enqueue, worker loop, publish, stop | handler and worker interleave at every await; cancellation; sink failure in the middle of either |
| Priority gate (`live_transcription_priority_gate.py`) | active STT count, generation, intervals, backlog, three events | stt_started, stt_finished, set backlog, admission wait, start watcher | one event shared by all sessions and cleared by each; deadlines racing STT starts |
| Live-transcription route and protocol | configuration, expected sequence number, session, orchestrator | handshake, chunk, result, errors, stop | client retries, provider errors, disconnects during cleanup |
| Live session and chunk processing | session state, deduplicator's previous text, transcript rows | start, process a chunk, stop | one transaction per row, so a chunk may be half stored; overlap between chunks |
| Speech-to-text and text providers | loaded model | transcribe, translate, coach, simplify, summarise | blocking work beside the loop, timeouts |
| Meeting aggregate | status, transcript | create, start, end, rename, add transcript | state guards |
| Recording lifecycle | metadata rows, keys, segment files | prepare, start, write segment, finalize, fail, delete, retention, reconcile | three stores without a common transaction; crashes between their writes |
| Recording playback and seek | the open streams | stream a recording, resolve a seek | audio deleted while it is streamed; boundaries between segments |
| Review and translation artifacts | versioned artifact rows | generate, regenerate, read | overlapping generations, cancellation, rows left in processing |
| Persistence, container, configuration, sidecar authentication, diagnostics | sessions, settings, counters | commit and rollback, wiring | transaction boundaries |
| Capture sender (`sender.rs`) | queue, closed, overloaded, Notify, stopped, failed | push, next, submit, finish_gracefully, abort | truly parallel tasks; notify without permit; time budgets |
| Capture coordinator (`coordinator.rs`) | state, two task handles, five flags, pipeline | start, stop, abort, status, worker loop | a stop that hands over from task to task; an aborted worker nobody awaits |
| Recording writer | queue, segment index, state | enqueue, finalize, abort | retries and finalization beside the stop |
| Audio pipeline (reorder, mixer, chunker, resampler, WAV) | reorder heap, timelines, sample buffers | push, flush | late frames, overlaps, gaps |
| Live-transcription client (Rust) | connection state, sequence number, pending calls | connect, start, submit, end, disconnect | response timeout racing a late answer; readers of earlier connections |
| Playback manager (Rust) | state, generation, stream task, event pump | prepare, start, activate, seek, stop | a lock that is let go between the halves of a command; stale generations |
| Sidecar manager | child process, token | start, ready, stop | a child that dies while starting |
| User interface | transcript rows, Assist state, session flow, panels, player | merge updates, press, render | updates arriving before their row; answers arriving after their panel or player |

What makes each of them correct, in a sentence:

* **Assist Mode**: it never competes with live transcription, translates only
  what is newest, and never leaves a row without an answer.
* **Gate**: every STT start is seen by every watcher, nobody sleeps on a
  condition that already holds, and the forecast does not waste a translation.
* **Capture sender and coordinator**: chunks leave in order and once, an
  overload or a failure is visible, and a stop delivers everything or says no.
* **Live session**: client and handler agree on the next number; a number stands
  for one chunk, rows follow on one another in the order of capture, and a
  session that ended was shown completely.
* **Recording lifecycle**: row, key and files tell the same story after any
  crash; deleted audio is gone.
* **Reviews and translations**: a version is given out once, what is completed
  was made from the whole transcript, and nothing unfinished is served.
* **Playback**: what is heard is one recording, in order; one stream runs at a
  time.
* **Writer, sidecar**: an answer belongs to the request it was asked for.

`PROJECT.json` lists all components, modelled or not, with the reason, and
under `hazards` where each of these can go wrong in the code.

## 2. Modules

| Module | Models | Kind |
|---|---|---|
| `AssistMode` | one session: the orchestrator's worker, the WebSocket handler that feeds and stops it, the gate's counters, foreign STT | detailed specification |
| `AssistDisplay` | which sequences of updates a client may see | abstract specification |
| `PriorityGate` | the gate itself: forecast, clock, events, any number of sessions | detailed specification |
| `CaptureSender` | queue, sender task, processing worker, coordinator calls of one capture session | detailed specification |
| `RecordingLifecycle` | rows, keys and segment files, and every use case that changes one of them | detailed specification |
| `RecordingService` | the life of a recording's row as the rest may rely on it | abstract specification |
| `LiveSession` | window, desktop client, connections and backend handlers of live transcription, with the rows they store | detailed specification, a composition of both sides |
| `Meeting` | what the Meeting aggregate promises of a meeting's status and transcript | abstract specification |
| `MeetingReviews` | both generations, their artifacts, their routes and their panels | detailed specification |
| `RecordingPlayback` | stream and seek routes, reader, playback manager, player | detailed specification, a composition of both sides |
| `MC...` | the instances the `.cfg` files use | model checking |
| `Extrema` | least and greatest elements of sets of numbers | lemmas |
| `..._proof` | theorems, with their lemmas | proofs |

`AssistMode` implements `AssistDisplay`, `RecordingLifecycle` implements
`RecordingService`, and `LiveSession` implements `Meeting`: the steps of its
handlers and of its window change a meeting only as the aggregate allows.
`PriorityGate` discharges what
`AssistMode` takes for granted about the gate: there a deadline may pass at
any moment and a session is deferred at most once per STT start
(`CanDefer`, the variable `armed`); here `DeferredOncePerStart` shows that
the real forecast behaves so.

### AssistMode

*Grain.* The backend is one asyncio event loop, so an action is what one task
does between two suspensions. `worker` and `route` say at which await the
worker and the handler are suspended. The enqueue loop of the handler has no
suspension unless it publishes a drop: `LoopFree` keeps the other tasks out.

*Correspondence.* `Dequeue` to `PublishTerminal` are `_run_worker` and
`_run_translation_capability` in order: admission, the check of ordinal and
state, the PROCESSING publish, the second check (active count and
generation), the operation racing the start watcher, preemption, the terminal
publish with the removal of the newest-translation marker. `Enqueue` and
`PublishDropped` are `enqueue`; `Stop` and `Joined` are `stop`.
`CancelledWorker` says where a cancellation leaves the worker, by the await it
is delivered at; `wait_for_translation_admission` suppresses one that arrives
while it awaits the tasks it has cancelled itself. `SinkFails` is an update
the sink could not deliver: the session fails and its queue is emptied.

*Abstraction.* Segments are ordinals; their text, the contents of the reply
context (it may refuse a segment), telemetry and the sink's send lock are left
out. Time is abstract. Cancelling a task in the middle of a publish may or may
not let the frame out. Cancellation of the handler by the server's own
shutdown is not modelled, nor is a second call of `stop`.

### PriorityGate

*Correspondence.* One operator per formula of `translation_admission`
(`Shortest`, `Margin`, `Boundary`, `WaitFor`, `Admission`), one action per
await of `wait_for_translation_admission` (`WaitsForIdle`,
`WaitsForBacklog`, `Defer`, `DeferralEnds`, `Admit`) and `Watch` for one turn
of `wait_for_stt_start_after`: it clears the event all watchers share.
`Begin`, `Finish` and `Preempt` are the orchestrator's use of them.

*Abstraction.* Time is in whole milliseconds, relative to the last STT start,
and saturates at `Horizon`, beyond which no forecast distinguishes anything.
Truncation of fractions and the resolution of the loop's timer are left out: a
real timer may fire a clock tick early and be armed once more. An estimate of
zero stands for None. `armed` is a history variable.

### CaptureSender

*Grain.* Rust tasks on a multithreaded runtime: one step is one atomic access,
one critical section of the queue's lock or one call of a `Notify`. A
`notify_one` without a waiter leaves a permit, `notify_waiters` does not, and
a wait counts as such from the creation of its `notified()` future. The
coordinator's calls run one at a time, under the command mutex.

*Correspondence.* `task` goes through the loop of `ChunkSenderTask::start`
and `next`; `worker` through `run_processing_worker` with its flush and final
tail; `op` and `at` through `stop`, `abort` and `status`. An aborted task ends
where it waits, never in the middle of a frame (`WorkerDropped`), and `status`
does not await the worker it aborts.

*Abstraction.* A chunk is its number. A received frame is the chunks it
completes; a frame that completes none is no step. The worker's read of the
failure flag (`WorkerTop`) and the creation of its wait (`WorkerArms`) are two
steps: a notification in between is lost, and the worker learns of the failure
with its next frame or the end of its input. The behaviour starts after a
successful start; restarts and the recording branch are left out, and so is
the message about an unavailable recording, which hides the one about a gap.
The timers of seconds expire only on a task that waits, since a task's own
steps take microseconds; the wait for the worker may time out at any moment.

### RecordingLifecycle

*Grain.* Unit of work, file system and keychain are synchronous behind their
async signatures: a use case never suspends between two writes, so `op` is the
one request in progress, and an action is one write to one store. What comes
between two of them is an error (`Faults`) or the death of the process
(`Crash`), which loses the request and nothing else.

*Correspondence.* `PrepareKey` and `PrepareInsert` are the preparation (the
key exists before the row); `WriteCheck`, `WritePartial`, `WritePublish` and
`WriteCommit` are the two database phases of a segment write around the
writer's `.partial` file and its atomic rename, `WriteFails` and
`WriteCompensate` their error paths; `Finalize` is the route's comparison with
the listed files together with the use case's comparison with the timings. The
deletion steps (`RemoveFile` to `RowFails`) are shared by the deletion use
case, the retention cleanup and the reconciliation of deleted rows, which
differ in what they record of a failure: `op.kind` tells them apart. The marks
of a row (`MarkDeleting`, ...) are the functions of
`recording_deletion_state.py`.

*Abstraction.* A segment is its index; encryption, headers, sample counts and
the listing's read errors are left out (`exactDuration` is the comparison of
durations). A timed policy lasts one period of the clock. The codes of a
failed capture are one. The states FINALIZING and INCOMPLETE and the removal
of metadata are never used by the code. The lookup by meeting returns the oldest
row: SQLite answers it from the index on `meeting_id`. Nothing but the
container and the tests calls deletion, retention and maintenance yet; they are
modelled as the interface they are.

### Meeting and LiveSession

*Grain.* A connection is a number, and so is the session it carries. A step of
the handler is what it does between two suspensions: the wait for a message,
the transcription thread, the stop of the orchestrator. The database calls of
`process_chunk` do not suspend, so the rows of a chunk are added in one step
(`ChunkDone`) or up to the one that fails (`ChunkBreaks`); a process that dies
between two of the commits leaves the same rows. A step of the client is one
critical section of its state lock.

*Correspondence.* `Hello` to `Cleanup` are the branches of the route's loop in
the order of its checks, with its nonfatal errors (`Refuse`), its fatal ones
(`GiveUp`) and its `finally` block. `Connect` to `Disconnect` are the client's
operations, each split at its wait: `call` is the caller that waits, `client`
the state its answer is taken from, and the answer may be delivered before or
after a timeout. `Dispatch` is the reader and dispatcher of *a* connection,
the one in use or an earlier one that nobody aborted: all work on one state.
`PressStart`, `PressEnd` and `flow` are the two handlers of `App.tsx`.
`Deduplicate` and `Accepted` are the deduplicator's longest overlap and the
loop over a chunk's segments.

*Abstraction.* What transcription may make of a chunk is a parameter,
`Transcriptions`: any sets of up to three segments of any words. Chunks share a
second of audio (`chunker.rs:10-13`), which may come back as several segments.
The instance has both cases, the last word of the second again in front of new
words, and both its words in segments of their own; the deduplicator compares a
segment with the text accepted last and with nothing before it, and stores the
words of the second case again (section 5). `RowsFollowOn` therefore says what
deduplication does to the rows of a session, not that each word is stored once. A
deadline may pass whenever its caller waits. Two timings are assumed: a chunk
is finalized seconds after its session began, so that what was sent together
with `session_started` has been taken (`Settled`), and a new backend process is
ready only after the readers have seen their sockets close (`BackendReady`);
nobody presses before the window has read the new status. A send to a closed
socket fails as its reader's close does and is no step of its own.
`EndMeeting` is an environment's step: the container builds the use case and no
route calls it. `Reloads` says whether the window may be reloaded beside a
running backend, which the run has. What it leaves out is the connection that
such a window opens beside the dispatcher of the one before: the cfg's
constraint `OneDispatcher` cuts it off, and section 5 says what happens then.
Assist updates are in `AssistMode`, status messages change no state.

### MeetingReviews

*Grain.* A use case suspends only while it waits for the text provider. What it
does in between, transactions included, is one step: reading the latest
version and inserting the next one cannot be separated by another request.

*Correspondence.* `Press`, `Read`, `Show`, `Deliver` are the two panels, with
the `active` flag of their effects (`mount`) and the phases of
their state; `Refuse`, `Reuse`, `Begin` the entry of a use case;
`ProviderContinues`, `Complete`, `Fail`, `Cancel` its provider calls and its
three `except` branches. `BatchEnd` and `NextStart` are the batching of a
review's rows with their overlap: the code computes all the batches before the
first call (`build_batches` returns a tuple), the model each of them when its
call is made, from the same rows. `Latest` is each repository's order: reviews by
version, translations by time of creation and then by version.

*Abstraction.* A row is its length, what a provider answers is the rows it was
made from. `Times` are readings of a wall clock that may go back. A rejected
provider answer is a failed call like any other: `ApplicationValidationError`
is a `ValueError`, which becomes an invalid response. Each transaction may fail
(`MaxFailures`); a generation over an empty transcript has two transactions
and may lose the second. The desktop's HTTP client has no timeout: a
generation ends because its provider calls do, by the timeout of the Ollama
client.

### RecordingPlayback

*Grain.* Commands, stream task and event pump run in parallel; a step is what
one of them does under one hold of the manager's lock. Two adjacent holds are
merged where nothing can come between that either would notice; the comments
say where. `chain` is one round of commands the player has called and awaits:
`prepare`, `start`, `activate` or `seek`, each in the halves the lock leaves.

*Correspondence.* `ReadFrame`, `FinishStream` are `consume_playback_stream`
and `finish_stream`; `EmitChunk`, `Close`, `FinishPump` the pump; `Prepare` to
`Register`, `Seek`, `Resolve`, `Stop` the manager's commands. `Play`, `Pause`,
`PressStop`, `SeekTo`, `Remount` and the `Answer...` actions are the player,
`SourceEnds` and `StraySourceEnds` the callbacks of its audio sources.
`Search` is the binary search of the seek use case, checked against its
definition for every time of every small recording (`SeekFindsSample`).

*Abstraction.* A generation numbers a stream, and a stop leaves none current
(the code counts stops too). The backend's production of a frame and the
desktop's read of it are one step, and so are the delivery of an event and the
decoding behind it. An abort takes effect at once, and the audio context
suspends and resumes at once. Times are counted in half samples, enough to
tell a time between two samples from one on a sample. React's StrictMode,
which mounts twice in development, is left out. A stream that starts in the
middle is left out too: it follows only an answer to a seek that the desktop
understands, and it understands none (section 5). `MaxDisturbances` is one
bound shared by failures, deletions, seeks and stops.

## 3. Runs

| Run | Shows | Bounds |
|---|---|---|
| `assist` | translation and reply coaching over a queue of one that overflows: the inductive invariant and `DisplaySpec`; rows are resolved, the newest segment is translated, stop joins | 3 segments, 2 per chunk, 3 STT starts, one foreign call, backlog 0 or more |
| `assist_stop` | *violation*: stop does not always join | 2 segments |
| `gate` | no start missed, no wake-up lost, one deferral per start; preemption comes, everyone is admitted | 2 sessions, 2 STT starts, intervals to 1 |
| `gate_steady` | the forecast wastes no work and sees no pause in a steady cadence | 1 session, 6 starts, history 2, intervals to 4, 2 calls at once |
| `sender` | order, no eviction, nothing after a failure or a return; every stop and abort returns | capacity 2, 5 chunks, 2 per frame |
| `sender_drains` | *violation*: see section 5 | capacity 2, 2 chunks |
| `recording_safety` | database, keychain and files agree after any failure or crash; a cleanup leaves no overdue recording unaccounted for; `RecordingService` | 2 recordings of one meeting, 2 segments each, all faults |
| `recording_second` | *violation*: see section 5 | 3 recordings, no faults |
| `live` | numbers agree over errors, late answers, reconnects, reloads and a restart; rows follow on one another; an acknowledged chunk was processed; an ended session was shown; the meetings follow `Meeting`; a closed connection is cleaned up | 2 connections, 3 chunks, 3 requests, 1 restart, 1 ended meeting, 2 violations, overlap 2 |
| `reviews` | versions are unique, completed artifacts whole, nothing unfinished is shown, what is served never goes back, every generation ends | 2 requests, 3 rows of 1 or 2 characters, batches of 2 with an overlap of 1, 2 clock readings, opened twice, 1 failure or crash |
| `playback` | what is heard is one stream in order, an end means the whole recording, one stream at a time, a live handle; the search finds the segment | 2 segments, channel of 1, 2 meetings, 2 operations, 1 disturbance; searches over recordings of up to 4 segments of up to 2 samples |
| `playback_seek` | *violation*: see section 5 | 2 segments, 1 meeting |

Some invariants are conjunctions whose parts have names and comments of their
own, so that a run and a theorem can state them together: `Inv` of
`AssistMode` (type, queue order, newest translation, no silent loss, STT
preempts), of `CaptureSender` (admitted is kept, stop waits for answers), of
`LiveSession`, `MeetingReviews` and `RecordingPlayback`, and, for the steady
cadence, of `PriorityGate`; `Wakeups` of `PriorityGate` and `StoresAgree` of
`RecordingLifecycle`.

*Why the bounds are enough.* An assist session needs three segments: one in
progress, one waiting, and one that supersedes it or overflows the FIFO of one
place. The mailbox of a translation-only session has no run of its own: the
theorems hold for every set of capabilities. Two sessions are needed for one
watcher to clear the event under another, and two STT starts for the second to
come while the first is being noticed; `gate_steady` has the long cadences, and
its history of two intervals distinguishes the shortest from the longest. A
capacity of two with five chunks fills the queue with one chunk in flight and
refuses another, twice. Two segments of a recording give an orphan beside a
committed one; two recordings of one meeting give the deleted row beside the
new one and a maintenance run interrupted between its items. They are
interchangeable, hence the symmetry in `recording_safety`, the only run with
it. Two connections give a late answer of the first beside the second; three
chunks give one lost, one repeated and one that goes on. They reach the
nonfatal refusal of a wrong number and not the fatal one, which ends like the
other fatal errors, which the run has. Two
requests are enough for two generations to overlap, three rows for a batch in
the middle and a row longer than its share. Two streams give the old one beside
the new one, a channel of one a full channel; one disturbance is one failure, a
deletion, a seek or a stop at every point of a playback, not two of them. What
the runs show of small instances the theorems of section 4 show, where there is
one, of all.

The bounds on chunks, segments, requests and STT starts are guards of the
actions that count them; where a bound is reached, or where nobody has to press
a button, the model may stop, hence `CHECK_DEADLOCK FALSE` everywhere but in
the sender runs: there a status call is always possible.

*Properties worth reading first.* `NoSilentLoss`: an accepted segment that is
neither waiting nor in progress has an answer for each capability, although
handler and worker drop, reject, fail and preempt concurrently.
`TranslatesNewestWhenIdle`: the two checks around the PROCESSING publish
really exclude a translation beside STT. `NoStartMissed`: the event shared and
cleared by all watchers loses nobody. `InOrder` and `AdmittedIsKept`: FIFO,
at most once, and no eviction across failures and aborts. `CompletedIsWhole`
of the recordings: the finalization compares numbers only, yet a hole and an
orphan can never cancel out. `DeletedIsUnreadable`: whatever rmtree leaves, the
key is gone. `NumbersAgree`: the handler is level with the client or one chunk
ahead, and ahead only by a chunk it answered, over errors, timeouts, aborted
waits, reconnects and restarts. `SequenceOnce` and `RowsFollowOn`: no retry and
no half-stored chunk makes a row that was compared with a text that was not
stored. `EndedIsShown`: a clean end means that
the screen and the meeting say the same. `CompletedIsWhole` of the reviews: a
transcript read once, minutes before, is still the whole one. `OneStream` and
`EndedIsWhole`: no race of start, stop, seek and a closed player leaves a second
reader or claims an end that was not heard.

### Fairness

* `AssistMode`: weak fairness of the worker, of the handler's own steps and of
  the end of foreign STT calls. Every task of a running event loop is resumed,
  providers have timeouts, STT ends. New chunks, refusals, stops and STT
  starts are the environment's and are not fair.
* `PriorityGate`: weak fairness of the sessions' steps, of the clock and of
  the end of STT. A translation may hang: it is preempted, not awaited.
* `CaptureSender`: weak fairness of each task, of the coordinator's
  continuation and of its timers. The client's answer is not assumed.
* `RecordingLifecycle`: none. The start-up policy defers the scheduling of the
  cleanup and the backend starts no maintenance loop
  (`docs/06-development-guide.md:217-221`), so nothing makes an expired
  recording go away. What is checked instead is a safety property of a run of
  the cleanup, whenever one is made: `ExpiredIsAccountedFor`.
* `LiveSession`: weak fairness of each connection's handler: the event loop
  resumes it, the transcription thread and the stop of the orchestrator return
  (`AssistMode` says when they do). The client and the user are not fair; the
  constraint of the run cuts only their `Connect`.
* `MeetingReviews`: weak fairness of `Progress`, the serving of what is under
  way as a whole: as long as some read, request, provider call or answer is
  under way, some of it goes on. Users, cancellations and crashes are not fair.
* `RecordingPlayback`: none; it is checked for safety only, on 2.5 million
  states.
* `SteadySpec` is no fairness condition but an assumption about the speaker
  and the loop: the next STT start falls within the remembered intervals, and
  no time passes while a task is ready to run. The forecast promises nothing
  without it.

## 4. Proofs

Each theorem holds for every value of the constants that satisfies the named
assumptions (`ConstantsAssumption`, `CapacityAssumption`,
`BoundsAssumption`). The runs evaluate the assumptions on their instances.

* **AssistMode** (`AssistMode_proof`): `TypeCorrect`, then `AssistInvCorrect`
  with the inductive invariant `AssistInv`, from which `QueueInOrder`,
  `LatestIsLive`, `NoSilentLoss` and `SttPreempts` follow, and the action
  property `TranslatesNewestWhenIdle`; `InvCorrect` puts them together. None of
  the four is inductive:
  that the newest translation is live needs `OrdinalInv` (done, in progress,
  dropped and waiting segments have growing ordinals) and `LatestInv`; that
  nothing is lost needs `PartialInv`, what has been said so far of the segment
  in progress and of the one being dropped. There is one lemma per group of
  actions and conjunct; `OrdinalFrame` and `ToldFrame` carry the actions that
  disturb neither. `DisplaySpecCorrect` is the refinement of `AssistDisplay`:
  a frame of the worker or of the handler is a move of the display because a
  cell that may still change belongs to the worker from one publish to the
  next (`CellInv`), nothing has been said of what waits (`FreshInv`), and the
  handler closes the session after it has joined the worker (`ClosedInv`).
* **PriorityGate** (`PriorityGate_proof`): `NoStartMissedCorrect` and
  `NoWakeupLostCorrect`, together `WakeupsCorrect`, for any number of
  sessions. The first needs, beside what it says, that a watcher that is not
  asleep will look at the generation again. The forecast chooses by the least
  and the greatest of the remembered intervals, about which `Extrema` has the
  lemmas: `TypeCorrect` bounds every wait by them,
  `DeferredOncePerStartCorrect` shows that a deadline is put where the forecast
  will call the wait an extended idle, and `InvCorrect` (of `SteadySpec`) that a
  predicted window is left in time and a cadence never taken for a pause. Its
  invariant `SteadyInv` relates what a session still has to wait or to
  translate to the intervals and to the time since the last start.
* **CaptureSender** (`CaptureSender_proof`): `NoChunkStrandedCorrect` from
  `WakeInv` (between the emptiness test and the wait, a chunk in the queue has
  left a permit or is about to); `NothingAfterFailureCorrect` from `FailInv`;
  `GoneAfterReturnCorrect`, which is inductive; `InOrderCorrect` from
  `OrderInv`, which takes the line sent / in hand / queued apart and bounds it
  by the number last given out, and a lemma on concatenated sequences.
  `InvCorrect` proves `Inv` (`TypeOK`, `AdmittedIsKept`,
  `StopWaitsForAnswers`) from `IInv` and `OrderInv`: whoever clears the queue
  has failed or aborts (`ClearInv`), a returned call leaves no sender handle
  to a later one (`OnceInv`), a stop that waits for the sender has a finished
  worker (`JoinInv`), and every submission but the one under way is answered
  (`AnswerInv`). `StepMoves` sorts the steps by what they do to a chunk;
  `DrainedKnows` puts the parts together at the only step that reports
  success, and `StoppedFrame` says nobody touches the account afterwards.
* **RecordingLifecycle** (`RecordingLifecycle_proof`): `TypeCorrect` with the
  shape of the request (`Shape`); `Invariance` of `Inv`, from which
  `CommittedIsStored`, `OneSegmentAhead` and `DeletedIsUnreadable` follow,
  together `StoresAgreeCorrect`. The
  strengthening is what a request relies on between two writes: `RequestInv`
  (a write holds a running recording whose next index is its own, with its key
  and, before the commit, its file) and `DeletionInv` (a deletion holds a marked
  row that is not running and that the rest of its run will not visit again).
  `NextMoves` sorts every step into the moves a row can make; the action
  property `CompletedIsWhole` and the refinement `ServiceCorrect`
  (`Spec => Service!Spec`) are read off it. That equal counts mean equal
  segments is `CountTellsFiles`, from the cardinality of an interval.
  `AudioGoesByDeletionOnlyCorrect` follows from `Inv` directly.
  `ExpiredIsAccountedForCorrect` has a strengthening of its own, about what a
  cleanup under way has listed, visited and reported.

* **MeetingReviews** (`MeetingReviews_proof`): the inductive invariant `IInv` is
  the type, `VersionsAreUnique`, `RequestOK`, `ShowsCompleted` and `Bounded`.
  Uniqueness alone is not inductive: it needs that a request has stored nothing
  before it begins. `RequestOK` says what a request in progress holds (the
  transcript is the one the meeting ended with, every row before the next
  batch has been given to the provider), which gives `WholeTranscript` once
  the last batch ends at the last row. `ShowsCompleted` relates a panel, and
  an answer on its way to one, to a completed row, and with it
  `ShownFinished` and `RegenerationNew`; `Bounded` keeps the stored versions a
  finite set with a maximum, which `UniqueVersions` and `ServedForward`
  rest on. `Inv` also has that a batch keeps within the limit, which is a
  lemma only (`BatchLimit`): the definition of the batch says so. `StoreStep`
  sorts the steps by what they do to the artifacts and `AskField` reads one
  field of an updated request. `FinishedFinal` (`FinishedIsFinal`: a late
  cancellation changes nothing) and `ServedForward` (`ServedNeverGoesBack`)
  are action properties. `ProcessingWorkedOn` (`ProcessingIsWorkedOn`: without
  a failure or a crash no artifact is left processing) splits the steps into
  those that store nothing (`WorkedOnFrame`) and those that move one request
  together with its artifact (`WorkedOnOne`).
* **RecordingPlayback** (`RecordingPlayback_proof`), for any recording, any
  capacity of the channel and any number of operations and disturbances. The
  layers rest on one another: `TypeInv` is `TypeOK` with the shapes a round of
  commands may take and one generation for each of them (`ChainInv`);
  `HandleInv` says that the running reader is the one the manager holds, and
  with it follow `Inv` and `OneStream`; `ReadsInv` that what is left to read
  begins after the last segment read; `FailInv` what an undisturbed playback
  may rely on; `OrderInv` lays heard, queued and read segments end to end,
  which gives `HeardInOrder` and `EndedIsWhole`. `SeekFindsSampleCorrect` holds
  for recordings of any length. The library's sum is a recursion over subsets:
  that it exists, is unique and adds in any order is shown on a least
  counterexample (`AddsExists`, `AddsAgree`, `AddsAnyOrder`), as is
  that the search ends at the segment it looks for (`FindsExists`,
  `FindsSample`); no induction theorem is used.
* **LiveSession** (`LiveSession_proof`), for any number of connections, chunks,
  requests, restarts and refusals. `TypeCorrect`; `MeetingSpecCorrect`, the
  refinement of `Meeting`, step by step; and from `RowsInv` (what a session
  stored has numbers its handler has passed, comes of audio no later than what
  is under way, and ends with the text its handler compares with next)
  `SequenceOnceCorrect` and `RowsFollowOnCorrect`, for whatever transcription
  returns. The protocol needs the
  layers `WindowInv` (where the window's handler is), `LinkInv` (only the
  connection opened last is in use), `AnswerInv` and `ProcessedInv` (what a
  handler may have answered), `StartingInv` (what is on the wire while a
  session starts), `SessionInv` (client and handler agree, or the handler is one
  answered chunk ahead, by what is on the wire in both directions) and `EndInv`
  (what has been said is shown or on its way). None of them is inductive alone;
  `ProtocolInv` together is, and gives `InvCorrect` (with `NumbersAgree`),
  `AckedIsProcessedCorrect` and `EndedIsShownCorrect`. These three have the
  hypothesis `[]OneDispatcher`: no connection is opened beside the dispatcher of
  the one before. Reloads of the window are part of them. The hypothesis is
  needed: without it `AckedIsProcessed` is false (section 5).

Only model-checked is liveness, which needs fairness and ENABLED, out of the
prover's reach: `ProcessingResolves`, `NewestIsTranslated`, `StopJoins`,
`PreemptionComes`, `EveryoneAdmitted`, `CallsReturn`, `ClosedIsCleanedUp` and
`GenerationEnds`. Every invariant, action property and refinement that a
passing run checks has its theorem.

## 5. What the code does otherwise than it says

* `assist_stop`: a cancellation that arrives while the admission wait cleans
  up its own two tasks is swallowed; with a backlog left behind by the last
  frame, `stop` never joins the worker.
* `sender_drains`: `next` tests the queue before it tests `closed`. The
  final tail admitted between the two, followed by the close, stays in the
  queue, and the stop reports success.
* `recording_second`: the lookup by meeting returns the oldest row. Once that
  is deleted, a meeting still active gets a second recording and a third, and
  none of them can be deleted or rescheduled through the meeting.
* `playback_seek`: a seek inside a recording always fails. The route answers
  with six fields (`recording_playback.py:43-49`), the desktop knows three and
  denies the rest (`types.rs:75-81`). `docs/TESTING.md:918` asks for such a
  seek; only a seek to the end succeeds.

What follows has no run of its own: the models take the steps, or an
assumption leaves them out, and what they lead to is told here.

* The queue's `close` wakes with `notify_waiters`, which leaves no permit. A
  sender task between its `closed` test and its wait sleeps on, and the stop
  fails after its whole budget with nothing left to deliver (`sender.rs:176`).
* A chunk refused while `stop` flushes the pipeline is reported by no status:
  the flags are cleared before it is composed (`coordinator.rs:473`).
* Without the constraint `OneDispatcher` the run `live` finds
  `AckedIsProcessed` violated: a chunk times out hard, the window is reloaded
  and connects anew, and the late result, read by the dispatcher nobody
  aborted, answers chunk 0 of the new session. `client.rs:1084-1086` says that
  a timed-out sequence must never be reused.
* A word may be stored twice. The second of audio two chunks share may come back
  as several segments: the first is not what the text accepted last ends with, and
  each later one is compared with the one before it only
  (`process_live_audio_chunk.py:111-138`), so they are stored again.
  No document promises otherwise.
* A capture stopped in the middle of a submission leaves the handler one chunk
  ahead. Every `end_session` is then refused with `invalid_last_sequence`, and
  `App.tsx` does not disconnect when it fails.
* No route ends a meeting (`container.py:656`), while reviews and translations
  require an ended one.
* `finish_stream` says Ready when the stream has ended, also while segments are
  still in the channel. The pump takes the next one, finds that the state is
  not Streaming, and returns: the tail is not heard, no end is announced, and
  its handle makes the next activation fail. The comment at
  `manager.rs:424-427` expects the state to be set before the channel
  closes, while the sender is dropped before: a stream that failed may be
  announced as ended.
* After a clean end the manager is Stopped and the player starts without
  preparing again: a second Play and a seek fail. A Play before the first
  answer, and a recording streamed to its end before its activation, fail too.
* The information a closed player asked for may arrive after the next player's:
  Play then plays the other meeting's recording. Its late failure stops the
  manager under the new player.
* When the files of a recording are gone and its row still says completed, a
  playback ends at once, without audio and without an error.

The passing properties `StopJoins`, `StopWaitsForAnswers`, `CallsReturn`,
`NumbersAgree`, `EndedIsShown`, `HeardInOrder` and `EndedIsWhole` say what does
hold in these situations.

## 6. Plan

1. `AssistMode`, `AssistDisplay`: done, with proofs.
2. `PriorityGate`: done, with proofs.
3. `CaptureSender`: done for one session. Left: start and restart, and the
   recording branch.
4. `RecordingLifecycle`, `RecordingService`: done.
5. `LiveSession`, `Meeting`: done, with proofs. Left: a
   connection opened beside the dispatcher of the one before, once an answer is
   matched by session and sequence.
6. `MeetingReviews`: done, with proofs.
7. `RecordingPlayback`: done, with proofs. Left: a stream that starts in the
   middle, once the desktop understands the answer of a seek; liveness.
8. `RecordingWriter` with the coordinator's recording branch, over
   `RecordingService` as its server; `SidecarManager`; restarts of a capture.
9. Algorithms against reference definitions over bounded inputs: reorder
   buffer, mixer timeline, chunker.

## 7. Not modelled

Audio samples, inference, HTTP to the local language model, rendering, wiring,
configuration and offline benchmarks: no state whose interleaving matters, or
libraries. The rest of the components named in section 1 without a module is in
the plan.
