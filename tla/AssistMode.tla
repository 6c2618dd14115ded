------------------------------ MODULE AssistMode ------------------------------
(***************************************************************************)
(* One live-transcription session with Assist Mode, at the granularity of  *)
(* the suspension points of the backend's single asyncio event loop:       *)
(*                                                                         *)
(*   - the worker task of AssistModeOrchestrator (src/backend/app/         *)
(*     application/services/assist_mode_orchestrator.py), which enriches   *)
(*     the accepted transcript segments one at a time,                     *)
(*   - the WebSocket handler (src/backend/app/api/routes/                  *)
(*     live_transcription.py), which receives audio chunks, awaits STT,    *)
(*     enqueues the accepted segments and finally stops the orchestrator,  *)
(*   - the counters of LiveTranscriptionPriorityGate, shared by every      *)
(*     session of the container, and the STT calls of the other sessions.  *)
(*                                                                         *)
(* Each action is the code one task runs between two suspensions.  A       *)
(* segment is its ordinal, the order of its enqueue.  Time is abstract: a  *)
(* deadline may pass at any moment (PriorityGate models the clock).        *)
(***************************************************************************)
EXTENDS Integers, Sequences

CONSTANTS
    Capabilities,   \* the enabled capabilities of AssistModeConfiguration
    QueueSize,      \* max_queue_size of AssistModeConfiguration (8 in the code)
    Pendings,       \* the upstream_pending_chunks values a frame may carry
    MaxSegments,    \* bound: segments accepted in the session
    MaxPerChunk,    \* bound: segments accepted from one chunk
    MaxStarts,      \* bound: STT starts observed by the gate
    MaxForeign      \* bound: concurrent STT calls of other sessions

AllCapabilities == {"translation", "reply_coaching", "simplification"}

ASSUME ConstantsAssumption ==
    /\ Capabilities \subseteq AllCapabilities /\ Capabilities # {}
    /\ QueueSize \in Nat \ {0}
    /\ Pendings \subseteq Nat
    /\ MaxSegments \in Nat /\ MaxPerChunk \in Nat
    /\ MaxStarts \in Nat /\ MaxForeign \in Nat

VARIABLES
    \* LiveTranscriptionPriorityGate
    active,     \* active_stt_count
    gen,        \* stt_start_generation
    pending,    \* upstream_pending_stt_chunks
    foreign,    \* how many of the active STT calls belong to other sessions
    \* the WebSocket handler
    route,      \* where the handler is suspended
    todo,       \* accepted segments of the chunk still to be enqueued
    dropped,    \* the segment whose drop is being published, 0 if none
    notify,     \* the capabilities its drop is still to be published for
    \* AssistModeOrchestrator
    state,      \* AssistModeLifecycleState
    queue,      \* the pending segments, oldest first
    received,   \* _received_segment_count
    latest,     \* _latest_translation_ordinal, 0 for None
    measured,   \* whether a translation has completed: a duration is known
    \* the worker task
    worker,     \* where the worker is suspended
    cur,        \* the segment it processes, 0 if none
    cap,        \* the capability it runs
    update,     \* the state carried by the terminal update being published
    captured,   \* the STT generation captured before PROCESSING is published
    armed,      \* the STT generation of the last timed admission wait, -1 if none
    \* the desktop client
    shown       \* the last update it received, by segment and capability

gateVars   == <<active, gen, pending, foreign>>
routeVars  == <<route, todo, dropped, notify>>
orchVars   == <<state, queue, received, latest, measured>>
workerVars == <<worker, cur, cap, update, captured, armed>>
vars       == <<gateVars, routeVars, orchVars, workerVars, shown>>

Segments == 1..MaxSegments
Terminal == {"ready", "failed", "unavailable"}
Shown    == {"none", "processing"} \cup Terminal

RouteStates  == {"receiving", "transcribing", "sending", "enqueuing", "dropping",
                 "joining", "closed"}
WorkerStates == {"idle", "rejecting", "admission", "timed", "cleanup", "processing",
                 "operation", "cancelling", "terminal", "unwinding", "ended"}

TranslationOnly == Capabilities = {"translation"}

Elements(s) == {s[i] : i \in 1..Len(s)}

(* Translation, then reply coaching, then simplification.                  *)
Rank(c) == CASE c = "translation" -> 1 [] c = "reply_coaching" -> 2
             [] c = "simplification" -> 3
Later(c) == {d \in Capabilities : Rank(d) > Rank(c)}
First(S) == CHOOSE c \in S : \A d \in S : Rank(c) <= Rank(d)

Init ==
    /\ active = 0 /\ foreign = 0 /\ gen = 0
    /\ pending \in Pendings \cup {0}   \* left behind by an earlier session
    /\ route = "receiving" /\ todo = 0 /\ dropped = 0 /\ notify = {}
    /\ state = "running" /\ queue = <<>> /\ received = 0 /\ latest = 0
    /\ measured = FALSE
    /\ worker = "idle" /\ cur = 0 /\ cap = First(Capabilities)
    /\ update = "none" /\ captured = 0 /\ armed = -1
    /\ shown = [s \in Segments |-> [c \in AllCapabilities |-> "none"]]

(***************************************************************************)
(* The worker.  While the handler runs its non-suspending enqueue loop no  *)
(* other task gets the event loop.                                         *)
(***************************************************************************)
LoopFree == route # "enqueuing"

(* AssistModeOrchestrator._publish: the frame is delivered, or the sink    *)
(* raises and the session fails.                                           *)
Delivered(s, c, v) ==
    /\ shown' = [shown EXCEPT ![s][c] = v]
    /\ UNCHANGED <<state, queue>>

SinkFails ==
    /\ state' = "failed"
    /\ queue' = <<>>
    /\ UNCHANGED shown

(* The rest of _process_segment once a capability is over, and _run_worker *)
(* once the segment is: outside RUNNING nothing more is published and the  *)
(* loop ends.                                                              *)
Continue(ls) ==
    /\ worker' = IF ls # "running" THEN "ended"
                 ELSE IF Later(cap) = {} THEN "idle" ELSE "processing"
    /\ cap' = IF Later(cap) = {} THEN cap ELSE First(Later(cap))
    /\ cur' = IF ls = "running" /\ Later(cap) # {} THEN cur ELSE 0
    /\ update' = "none"
    /\ UNCHANGED <<captured, armed>>

Superseded(s) == s # latest

(* A segment whose text exceeds the context limit makes context.add raise: *)
(* only a reply-coaching failure is published and the segment is over.     *)
Dequeue ==
    /\ LoopFree /\ worker = "idle" /\ queue # <<>>
    /\ cur' = Head(queue)
    /\ queue' = Tail(queue)
    /\ cap' = First(Capabilities)
    /\ armed' = -1
    /\ \/ worker' = "rejecting" /\ update' = "failed"
       \/ /\ cap' = "translation"
          /\ Superseded(Head(queue))
          /\ worker' = "terminal" /\ update' = "unavailable"
       \/ /\ cap' = "translation"
          /\ ~Superseded(Head(queue))
          /\ worker' = "admission" /\ update' = "none"
       \/ /\ cap' # "translation"
          /\ worker' = "processing" /\ update' = "none"
    /\ UNCHANGED <<gateVars, routeVars, state, received, latest, measured, captured, shown>>

PublishRejection ==
    /\ LoopFree /\ worker = "rejecting"
    /\ \/ Delivered(cur, "reply_coaching", "failed")
       \/ SinkFails
    /\ worker' = IF state' = "running" THEN "idle" ELSE "ended"
    /\ cur' = 0 /\ update' = "none"
    /\ UNCHANGED <<gateVars, routeVars, received, latest, measured, cap, captured, armed>>

(* wait_for_translation_admission: no STT is active and no backlog is      *)
(* known; the translation is admitted, or deferred by a timed wait.  A     *)
(* deadline reached without a new STT start proves an extended idle.       *)
GateOpen == active = 0 /\ pending = 0

AdmissionGranted ==
    /\ LoopFree /\ worker = "admission" /\ GateOpen
    /\ \/ /\ state # "running"
          /\ worker' = "ended" /\ cur' = 0
          /\ UNCHANGED <<captured, update>>
       \/ /\ state = "running" /\ Superseded(cur)
          /\ worker' = "terminal" /\ update' = "unavailable"
          /\ UNCHANGED <<captured, cur>>
       \/ /\ state = "running" /\ ~Superseded(cur)
          /\ captured' = gen
          /\ worker' = "processing"
          /\ UNCHANGED <<update, cur>>
    /\ UNCHANGED <<gateVars, routeVars, orchVars, cap, armed, shown>>

CanDefer_Again == measured   \* mutant: a reached deadline does not admit
CanDefer == measured /\ armed # gen

AdmissionDeferred ==
    /\ LoopFree /\ worker = "admission" /\ GateOpen
    /\ CanDefer
    /\ armed' = gen
    /\ worker' = "timed"
    /\ UNCHANGED <<gateVars, routeVars, orchVars, cur, cap, update, captured, shown>>

(* The deadline passes or STT starts; the loser of the two is cancelled    *)
(* and awaited before the loop is taken again.                             *)
TimedWaitWakes ==
    /\ LoopFree /\ worker = "timed"
    /\ worker' = "cleanup"
    /\ UNCHANGED <<gateVars, routeVars, orchVars, cur, cap, update, captured, armed, shown>>

TimedWaitCleanedUp ==
    /\ LoopFree /\ worker = "cleanup"
    /\ worker' = "admission"
    /\ UNCHANGED <<gateVars, routeVars, orchVars, cur, cap, update, captured, armed, shown>>

(* PROCESSING has been published.  For a translation everything that may   *)
(* have changed while it was in flight is read again.                      *)
SttArrived_Unread == FALSE   \* mutant: nothing is read again
SttArrived == active > 0 \/ gen # captured

Outdated == cap = "translation" /\ (SttArrived \/ Superseded(cur))

AfterProcessing_Silent ==   \* mutant: an outdated row is left as processing
    IF state # "running" THEN "ended" ELSE IF Outdated THEN "idle" ELSE "operation"
AfterProcessing ==
    IF state # "running" THEN "ended" ELSE IF Outdated THEN "terminal" ELSE "operation"

PublishProcessing ==
    /\ LoopFree /\ worker = "processing"
    /\ \/ /\ Delivered(cur, cap, "processing")
          /\ worker' = AfterProcessing
          /\ update' = IF worker' = "terminal" THEN "unavailable" ELSE "none"
          /\ cur' = IF worker' \in {"terminal", "operation"} THEN cur ELSE 0
       \/ /\ SinkFails
          /\ worker' = "ended" /\ cur' = 0 /\ update' = "none"
    /\ UNCHANGED <<gateVars, routeVars, received, latest, measured, cap, captured, armed>>

(* The pending translation is cleared once its own run is over.            *)
ClearedLatest == IF cap = "translation" /\ latest = cur THEN 0 ELSE latest

(* The use case returns READY or FAILED, or raises (published as FAILED).  *)
Outcomes == {"ready", "failed"}

OperationCompletes ==
    /\ LoopFree /\ worker = "operation"
    /\ \E v \in Outcomes :
          /\ measured' = (measured \/ (cap = "translation" /\ v = "ready"))
          /\ IF state = "running"
             THEN /\ worker' = "terminal" /\ update' = v
                  /\ UNCHANGED <<cur, latest>>
             ELSE /\ worker' = "ended" /\ update' = "none" /\ cur' = 0
                  /\ latest' = ClearedLatest
    /\ UNCHANGED <<gateVars, routeVars, state, queue, received, cap, captured, armed, shown>>

(* wait_for_stt_start_after wins the race against the translation.         *)
Preempt ==
    /\ LoopFree /\ worker = "operation" /\ cap = "translation"
    /\ gen # captured
    /\ worker' = "cancelling"
    /\ UNCHANGED <<gateVars, routeVars, orchVars, cur, cap, update, captured, armed, shown>>

PreemptionSettles ==
    /\ LoopFree /\ worker = "cancelling"
    /\ IF state = "running"
       THEN /\ worker' = "terminal" /\ update' = "unavailable"
            /\ UNCHANGED <<cur, latest>>
       ELSE /\ worker' = "ended" /\ update' = "none" /\ cur' = 0
            /\ latest' = ClearedLatest
    /\ UNCHANGED <<gateVars, routeVars, state, queue, received, measured, cap, captured,
                   armed, shown>>

PublishTerminal ==
    /\ LoopFree /\ worker = "terminal"
    /\ \/ Delivered(cur, cap, update)
       \/ SinkFails
    /\ latest' = ClearedLatest
    /\ Continue(state')
    /\ UNCHANGED <<gateVars, routeVars, received, measured>>

(* A worker cancelled inside the race cancels and awaits the operation.    *)
Unwinds ==
    /\ LoopFree /\ worker = "unwinding"
    /\ worker' = "ended" /\ cur' = 0
    /\ latest' = ClearedLatest
    /\ UNCHANGED <<gateVars, routeVars, state, queue, received, measured, cap, update,
                   captured, armed, shown>>

Worker ==
    \/ Dequeue \/ PublishRejection
    \/ AdmissionGranted \/ AdmissionDeferred \/ TimedWaitWakes \/ TimedWaitCleanedUp
    \/ PublishProcessing \/ OperationCompletes \/ Preempt \/ PreemptionSettles
    \/ PublishTerminal \/ Unwinds

(***************************************************************************)
(* The handler.                                                            *)
(***************************************************************************)
(* set_upstream_pending_stt_chunks and stt_started run without a           *)
(* suspension between them.                                                *)
SttStarts ==
    /\ gen < MaxStarts
    /\ active' = active + 1
    /\ gen' = gen + 1

SttFinishes == active' = IF active > 0 THEN active - 1 ELSE 0

ChunkReceived ==
    /\ route = "receiving"
    /\ \E p \in Pendings : pending' = p
    /\ SttStarts
    /\ route' = "transcribing"
    /\ UNCHANGED <<foreign, todo, dropped, notify, orchVars, workerVars, shown>>

(* A frame out of sequence records its backlog and is refused.             *)
ChunkRefused ==
    /\ route = "receiving"
    /\ \E p \in Pendings : pending' = p
    /\ UNCHANGED <<active, gen, foreign, routeVars, orchVars, workerVars, shown>>

SttCompletes ==
    /\ route = "transcribing"
    /\ SttFinishes
    /\ \E k \in 0..MaxPerChunk : received + k <= MaxSegments /\ todo' = k
    /\ route' = "sending"
    /\ UNCHANGED <<gen, pending, foreign, dropped, notify, orchVars, workerVars, shown>>

SttFails ==
    /\ route = "transcribing"
    /\ SttFinishes
    /\ route' = "receiving"
    /\ UNCHANGED <<gen, pending, foreign, todo, dropped, notify, orchVars, workerVars, shown>>

(* The chunk result is on the wire before its first segment is enqueued.   *)
ResultSent ==
    /\ route = "sending"
    /\ route' = IF todo = 0 THEN "receiving" ELSE "enqueuing"
    /\ UNCHANGED <<gateVars, todo, dropped, notify, orchVars, workerVars, shown>>

Resume(left) == IF left = 0 THEN "receiving" ELSE "enqueuing"

(* AssistModeOrchestrator.enqueue.  A translation-only session replaces    *)
(* its waiting segment silently; any other one drops its oldest segment    *)
(* when full and publishes the drop.                                       *)
Replaces == TranslationOnly /\ queue # <<>>

Drops == ~TranslationOnly /\ Len(queue) >= QueueSize

Kept_Peeked == IF Replaces THEN Tail(queue) ELSE queue   \* mutant: dropped, not removed
Kept == IF Replaces \/ Drops THEN Tail(queue) ELSE queue

(* _enabled_capabilities: each of them hears of the drop.                  *)
Notified == Capabilities

Enqueue ==
    /\ route = "enqueuing" /\ state = "running"
    /\ received' = received + 1
    /\ latest' = IF "translation" \in Capabilities THEN received + 1 ELSE latest
    /\ queue' = Append(Kept, received + 1)
    /\ todo' = todo - 1
    /\ IF Drops
       THEN /\ dropped' = Head(queue) /\ notify' = Notified
            /\ route' = "dropping"
       ELSE /\ route' = Resume(todo')
            /\ UNCHANGED <<dropped, notify>>
    /\ UNCHANGED <<gateVars, state, measured, workerVars, shown>>

(* enqueue raises once the session is not RUNNING: the rest is skipped.    *)
EnqueueRefused ==
    /\ route = "enqueuing" /\ state # "running"
    /\ todo' = 0
    /\ route' = "receiving"
    /\ UNCHANGED <<gateVars, dropped, notify, orchVars, workerVars, shown>>

PublishDropped ==
    /\ route = "dropping"
    /\ \/ Delivered(dropped, First(notify), "unavailable")
       \/ SinkFails
    /\ IF state' = "running" /\ notify # {First(notify)}
       THEN /\ notify' = notify \ {First(notify)}
            /\ UNCHANGED <<route, dropped>>
       ELSE /\ notify' = {} /\ dropped' = 0
            /\ route' = Resume(todo)
    /\ UNCHANGED <<gateVars, todo, received, latest, measured, workerVars>>

(* Where cancelling the worker leads.  The CancelledError is raised at the *)
(* await the worker is suspended at; while it awaits a task it has         *)
(* cancelled itself, suppress(CancelledError) takes it for that task's.    *)
CancelledWorker ==
    CASE worker \in {"cleanup", "cancelling"} -> worker
      [] worker = "operation"                 -> "unwinding"
      [] OTHER                                -> "ended"

(* A frame being written when its task is cancelled may still go out.      *)
InFlight ==
    CASE worker = "processing" -> {[shown EXCEPT ![cur][cap] = "processing"]}
      [] worker = "terminal"   -> {[shown EXCEPT ![cur][cap] = update]}
      [] worker = "rejecting"  -> {[shown EXCEPT ![cur]["reply_coaching"] = "failed"]}
      [] OTHER                 -> {}

StoppedState_Late == state   \* mutant: cancels before leaving RUNNING
StoppedState == IF state = "running" THEN "stopping" ELSE state

Stop ==
    /\ route \in {"receiving", "sending"}
    /\ route' = "joining" /\ todo' = 0
    /\ state' = StoppedState
    /\ queue' = <<>>
    /\ worker' = CancelledWorker
    /\ cur' = IF worker' = "ended" THEN 0 ELSE cur
    /\ shown' \in {shown} \cup InFlight
    /\ UNCHANGED <<gateVars, dropped, notify, received, latest, measured, cap, update,
                   captured, armed>>

Joined ==
    /\ route = "joining" /\ worker = "ended"
    /\ state' = IF state = "failed" THEN state ELSE "stopped"
    /\ route' = "closed"
    /\ UNCHANGED <<gateVars, todo, dropped, notify, queue, received, latest, measured,
                   workerVars, shown>>

Route ==
    \/ ChunkReceived \/ ChunkRefused \/ SttCompletes \/ SttFails \/ ResultSent
    \/ Enqueue \/ EnqueueRefused \/ PublishDropped \/ Stop \/ Joined

(***************************************************************************)
(* The other sessions of the container, seen through the shared gate: one  *)
(* with Assist Mode also writes the backlog count.                         *)
(***************************************************************************)
ForeignSttStarts ==
    /\ LoopFree /\ foreign < MaxForeign
    /\ pending' \in Pendings \cup {pending}
    /\ SttStarts
    /\ foreign' = foreign + 1
    /\ UNCHANGED <<routeVars, orchVars, workerVars, shown>>

ForeignSttEnds ==
    /\ LoopFree /\ foreign > 0
    /\ foreign' = foreign - 1
    /\ SttFinishes
    /\ UNCHANGED <<gen, pending, routeVars, orchVars, workerVars, shown>>

Next == Worker \/ Route \/ ForeignSttStarts \/ ForeignSttEnds

Spec == Init /\ [][Next]_vars

(***************************************************************************)
(* Every started step ends: a publish returns or raises (the server pings  *)
(* its connections), STT and Ollama calls return or time out, a ready task *)
(* is eventually run.  Nobody has to speak or to end the session.          *)
(***************************************************************************)
RouteProgress ==
    SttCompletes \/ SttFails \/ ResultSent \/ Enqueue \/ EnqueueRefused \/ PublishDropped
    \/ Joined

Fairness ==
    /\ WF_vars(Worker)
    /\ WF_vars(RouteProgress)
    /\ WF_vars(ForeignSttEnds)

FairSpec == Spec /\ Fairness

(***************************************************************************)
(* Properties.                                                             *)
(***************************************************************************)
RouteTypeOK ==
    /\ route \in RouteStates
    /\ todo \in Nat
    /\ dropped \in 0..MaxSegments
    /\ notify \subseteq Capabilities

OrchTypeOK ==
    /\ state \in {"running", "stopping", "stopped", "failed"}
    /\ queue \in Seq(Segments)
    /\ received \in 0..MaxSegments
    /\ latest \in 0..MaxSegments

WorkerTypeOK ==
    /\ worker \in WorkerStates
    /\ cur \in 0..MaxSegments
    /\ cap \in Capabilities
    /\ update \in Terminal \cup {"none"}
    /\ captured \in Nat
    /\ armed \in Nat \cup {-1}

(* Every variable stays in its range: the type invariant.                  *)
TypeOK ==
    /\ active \in Nat /\ gen \in Nat /\ foreign \in Nat
    /\ pending \in Pendings \cup {0}
    /\ measured \in BOOLEAN
    /\ RouteTypeOK
    /\ OrchTypeOK
    /\ WorkerTypeOK
    /\ shown \in [Segments -> [AllCapabilities -> Shown]]

(* A segment the worker or the handler still has to say something about.   *)
Outstanding(s) == s \in Elements(queue) \cup {cur, dropped}

Rejected(s) == shown[s]["reply_coaching"] = "failed"

(* The queue is the FIFO the mixed-capability sessions rely on: never more *)
(* than QueueSize segments (one in a translation-only session), all newer  *)
(* than the segment in progress, in transcript order up to the newest one. *)
QueueInOrder ==
    /\ Len(queue) <= IF TranslationOnly THEN 1 ELSE QueueSize
    /\ \A i \in 1..Len(queue) : cur < queue[i]
    /\ \A i \in 1..Len(queue) : queue[i] = received - Len(queue) + i

(* _latest_translation_ordinal names the newest segment, which is waiting  *)
(* or in progress: a translation is never pending for a segment nobody     *)
(* will process (but the one the reply context refused).                   *)
LatestIsLive ==
    state = "running" /\ latest # 0 =>
        /\ latest = received
        /\ latest \in Elements(queue) \cup {cur} \/ Rejected(latest)

(* While the session runs no accepted segment is forgotten: every one that *)
(* is neither waiting nor in progress has a terminal state for each        *)
(* capability, was refused by the reply context, or was superseded in the  *)
(* mailbox of a translation-only session.                                  *)
NoSilentLoss ==
    state = "running" =>
        \A s \in 1..received : ~Outstanding(s) =>
            \/ \A c \in Capabilities : shown[s][c] \in Terminal
            \/ Rejected(s)
            \/ TranslationOnly /\ s < received

(* A translation that runs while STT is active is about to be preempted:   *)
(* the generation it captured is stale.                                    *)
SttPreempts ==
    worker = "operation" /\ cap = "translation" /\ active > 0 => gen # captured

(***************************************************************************)
(* The inductive invariant behind the four above (proved in                *)
(* AssistMode_proof): what the worker, the handler and the queue know of   *)
(* each other.                                                             *)
(***************************************************************************)
WorkerInv ==
    /\ worker \in {"idle", "ended"} <=> cur = 0
    /\ worker \in {"admission", "timed", "cleanup", "cancelling"} => cap = "translation"
    /\ worker = "terminal" => update \in Terminal
    /\ worker \in {"ended", "unwinding"} => state # "running"
    /\ route \in {"joining", "closed"} => state # "running"
    /\ captured <= gen

(* Ordinals grow along: done, in progress, dropped, waiting.               *)
OrdinalInv ==
    /\ queue # <<>> => state = "running"
    /\ cur + Len(queue) <= received
    /\ dropped + Len(queue) <= received
    /\ dropped # 0 => dropped # cur /\ dropped < received
    /\ route = "dropping" <=> dropped # 0
    /\ route = "dropping" <=> notify # {}

LatestInv ==
    /\ latest \in {0, received}
    /\ "translation" \notin Capabilities => latest = 0
    /\ state = "running" /\ cur # 0 /\ worker # "rejecting" /\ cap # "translation"
          => latest # cur

(* What has been said so far of the segments in progress and dropped.      *)
PartialInv ==
    state = "running" =>
        /\ cur # 0 /\ worker # "rejecting" =>
              \A c \in Capabilities : Rank(c) < Rank(cap) => shown[cur][c] \in Terminal
        /\ dropped # 0 =>
              \A c \in Capabilities \ notify : shown[dropped][c] \in Terminal

AssistInv ==
    /\ WorkerInv /\ OrdinalInv /\ LatestInv /\ PartialInv
    /\ QueueInOrder /\ LatestIsLive /\ NoSilentLoss /\ SttPreempts

(* The invariants of the module together: the queue is the newest segments *)
(* in order, the pending translation names a live one, no accepted segment *)
(* is forgotten, and a translation beside active STT is about to be        *)
(* preempted, whatever handler, worker and other sessions do in between.   *)
Inv == TypeOK /\ AssistInv

StartsTranslation ==
    worker # "operation" /\ worker' = "operation" /\ cap' = "translation"

(* Local translation work starts only when no STT call is active or has    *)
(* started since the PROCESSING update was decided, and only for the       *)
(* newest segment accepted so far.                                         *)
TranslatesNewestWhenIdle ==
    [][StartsTranslation => active = 0 /\ gen = captured /\ cur = received]_vars

(* The updates the client sees are the ones AssistDisplay allows.          *)
Display == INSTANCE AssistDisplay WITH
    Capabilities <- AllCapabilities, open <- (route # "closed")

DisplaySpec == Display!Spec

(* A row shown as processing gets a terminal update while the session      *)
(* runs.                                                                   *)
ProcessingResolves ==
    \A s \in Segments, c \in AllCapabilities :
        shown[s][c] = "processing" ~> (shown[s][c] \in Terminal \/ state # "running")

(* Once the backlog stays cleared, the newest segment is not left waiting: *)
(* its translation ends, a newer segment replaces it, or the session ends. *)
NewestIsTranslated ==
    <>[](pending = 0) =>
        \A s \in Segments :
            (received = s /\ "translation" \in Capabilities)
               ~> \/ shown[s]["translation"] \in Terminal \/ Rejected(s)
                  \/ received > s \/ state # "running"

(* stop() joins the worker, unless the cancellation was swallowed and the  *)
(* gate keeps the worker waiting on STT or on a backlog.                   *)
StopJoins == route = "joining" ~> (route = "closed" \/ active > 0 \/ pending > 0)

(* "Cancel queued/current work, clear session context, and join the        *)
(* worker." (assist_mode_orchestrator.py, stop)                            *)
StopAlwaysJoins == route = "joining" ~> route = "closed"
=============================================================================
