----------------------------- MODULE LiveSession ----------------------------
(***************************************************************************)
(* One desktop and one backend over the live-transcription WebSocket: the   *)
(* connection handler of api/routes/live_transcription.py with the session, *)
(* the deduplication and the transcript rows behind it, and the client of   *)
(* desktop/src-tauri/src/live_transcription/client.rs with the part of      *)
(* App.tsx that starts and ends a live session.                             *)
(*                                                                          *)
(* A connection is a number, and so is the session it may carry: a handler  *)
(* starts at most one.  Each direction of a connection is a sequence of     *)
(* messages.  A step of the handler is what it does between two             *)
(* suspensions: the wait for a message, the transcription thread, and the   *)
(* stop of the Assist Mode orchestrator.  The database calls do not suspend.*)
(* A step of the client is one critical section of its state lock.          *)
(*                                                                          *)
(* A captured audio chunk is a number, and what the speech model may make   *)
(* of it a parameter: any segments of any words, those of the second it     *)
(* shares with the chunk before included.  Time is left out: a deadline may *)
(* pass whenever its caller waits.  A send to a closed socket fails as the  *)
(* reader's close does and has no step of its own.  Assist updates, status  *)
(* messages and malformed messages, which the desktop never builds, are     *)
(* left out.                                                                *)
(***************************************************************************)
EXTENDS Integers, Sequences, FiniteSets, SequencesExt

CONSTANTS MaxConnections, \* bound: connections opened
          MaxAudio,       \* bound: audio chunks submitted
          MaxRequests,    \* bound: start and end requests; a start makes a meeting
          MaxRestarts,    \* bound: times the backend process goes down
          MaxEnded,       \* bound: meetings ended
          MaxViolations,  \* _MAX_SEQUENCE_VIOLATIONS
          MaxOverlap,     \* max_overlap_tokens of the deduplicator
          MaxWord,        \* bound: words are numbers up to it
          Transcriptions, \* what the transcription of each chunk may return
          Reloads         \* may the window be reloaded while the backend runs

Words == 0..MaxWord

\* A transcription is a sequence of segments, at most three of them.
ASSUME ConstantsAssumption ==
  /\ MaxConnections \in Nat /\ MaxAudio \in Nat /\ MaxRequests \in Nat
  /\ MaxRestarts \in Nat /\ MaxEnded \in Nat
  /\ MaxViolations \in Nat \ {0} /\ MaxOverlap \in Nat \ {0}
  /\ Reloads \in BOOLEAN
  /\ MaxWord \in Nat
  /\ Transcriptions \in [1..MaxAudio -> SUBSET Seq(Seq(Words))]
  /\ \A a \in 1..MaxAudio : \A segments \in Transcriptions[a] : Len(segments) <= 3

Connections == 1..MaxConnections
Requests == 1..MaxRequests
Meetings == Requests

VARIABLES
  backend,     \* is the sidecar process up
  handler,     \* per connection: the handler's locals and where it is
  toServer, toClient, \* per connection: messages under way
  mstatus, transcript, \* the meetings table, and the transcript rows of each meeting
  client,      \* ClientState
  readers,     \* connections whose reader and dispatcher tasks run
  call,        \* the client operation that holds operation_lock, or connects
  ui, flow,    \* liveStatus as App.tsx last saw it, and the step its handler awaits
  unread,      \* a new backend process is ready, the status not read again yet
  opened, requests, captured, restarts, \* counters behind the bounds
  shown,       \* history: texts emitted to the window, with session and number
  acked,       \* history: chunks a submission reported as done, with their session
  processed,   \* history: chunks the session answered with a result
  confirmed    \* history: sessions an end_session call reported as ended

serverVars == <<backend, handler, toClient, mstatus, transcript, processed>>
clientVars == <<client, readers, call, shown, acked, confirmed>>
uiVars == <<ui, flow, unread, opened, requests, captured, restarts>>
vars == <<serverVars, toServer, clientVars, uiVars>>

-----------------------------------------------------------------------------
(* Messages.                                                                *)

StartMessage(req) == [t |-> "start", req |-> req]
EndMessage(req, session, last) ==
  [t |-> "end", req |-> req, session |-> session, last |-> last]
AudioMessage(session, seq, audio) ==
  [t |-> "audio", session |-> session, seq |-> seq, audio |-> audio]
CloseMessage == [t |-> "close"]

HelloAck == [t |-> "hello_ack"]
Started(req, session) == [t |-> "started", req |-> req, session |-> session]
Stopped(req, session) == [t |-> "stopped", req |-> req, session |-> session]
ChunkResult(seq, parts) == [t |-> "chunk_result", seq |-> seq, parts |-> parts]
ProtocolError(code, fatal) == [t |-> "error", code |-> code, fatal |-> fatal]

Parts == Seq(Seq(Words))

\* The texts of a result, with the number of its chunk.
Texts == (0..MaxAudio) \X Seq(Words)
TextsOf(seq, parts) == {<<seq, parts[i]>> : i \in 1..Len(parts)}

ClientMessages ==
  [t : {"close"}]
    \cup [t : {"start"}, req : Requests]
    \cup [t : {"end"}, req : Requests, session : Connections, last : 0..MaxAudio]
    \cup [t : {"audio"}, session : Connections, seq : 0..MaxAudio, audio : 1..MaxAudio]

ErrorCodes ==
  {"session_already_started", "session_start_rejected", "session_start_failed",
   "assist_unavailable", "invalid_session", "invalid_last_sequence",
   "session_required", "unexpected_sequence", "provider_error", "internal_error"}

ServerMessages ==
  [t : {"hello_ack", "close"}]
    \cup [t : {"started", "stopped"}, req : Requests, session : Connections]
    \cup [t : {"error"}, code : ErrorCodes, fatal : BOOLEAN]
    \cup [t : {"chunk_result"}, seq : 0..MaxAudio, parts : Parts]

-----------------------------------------------------------------------------
(* Speech to text, deduplication and the transcript rows.                   *)

Smaller(m, n) == IF m < n THEN m ELSE n

OverlapSizes(previous, current) ==
  {n \in 0..Smaller(MaxOverlap, Smaller(Len(previous), Len(current))) :
     SubSeq(previous, Len(previous) - n + 1, Len(previous)) = SubSeq(current, 1, n)}

\* The text without the longest suffix of previous it starts with, <<>> for None.
Deduplicate(previous, current) ==
  LET size == CHOOSE n \in OverlapSizes(previous, current) :
                \A k \in OverlapSizes(previous, current) : k <= n
  IN SubSeq(current, size + 1, Len(current))

\* One more segment, compared with the text accepted before it.
Accept(acc, segment) ==
  LET text == Deduplicate(acc.previous, segment) IN
  IF text = <<>> THEN acc
  ELSE [previous |-> text, parts |-> Append(acc.parts, text)]

\* The texts one chunk adds, segment after segment.
Accepted(previous, segments) ==
  LET none == [previous |-> previous, parts |-> <<>>] IN
  CASE Len(segments) = 0 -> none
    [] Len(segments) = 1 -> Accept(none, segments[1])
    [] Len(segments) = 2 -> Accept(Accept(none, segments[1]), segments[2])
    [] Len(segments) = 3 ->
         Accept(Accept(Accept(none, segments[1]), segments[2]), segments[3])

Row(session, seq, audio, words) ==
  [session |-> session, seq |-> seq, audio |-> audio, words |-> words]

\* Mutant of MayAdd: the aggregate does not look at its status.
MayAdd_Always(m) == TRUE

\* Meeting.add_transcript accepts everything until the meeting has ended.
MayAdd(m) == mstatus[m] # "ended"

-----------------------------------------------------------------------------
(* Initial state.                                                           *)

NoCall == [kind |-> "none", answer |-> "none", req |-> 0, seq |-> 0, audio |-> 0, session |-> 0]
NoChunk == -1

NoHandler ==
  [pc |-> "none", meeting |-> 0, expected |-> 0, violations |-> 0,
   audio |-> 0, req |-> 0, previous |-> <<>>]

\* What is left of a handler that has returned.
Returned == [NoHandler EXCEPT !.pc = "closed"]

NoClient ==
  [status |-> "disconnected", writer |-> 0, tasks |-> 0, session |-> 0, next |-> 0,
   inFlight |-> FALSE, start |-> 0, chunk |-> NoChunk, end |-> 0]

Init ==
  /\ backend = TRUE
  /\ handler = [c \in Connections |-> NoHandler]
  /\ toServer = [c \in Connections |-> <<>>]
  /\ toClient = [c \in Connections |-> <<>>]
  /\ mstatus = [m \in Meetings |-> "absent"]
  /\ transcript = [m \in Meetings |-> <<>>]
  /\ client = NoClient
  /\ readers = {}
  /\ call = NoCall
  /\ ui = "disconnected"
  /\ flow = "idle"
  /\ unread = FALSE
  /\ opened = 0 /\ requests = 0 /\ captured = 0 /\ restarts = 0
  /\ shown = {} /\ acked = {} /\ processed = {} /\ confirmed = {}

-----------------------------------------------------------------------------
(* The connection handler.                                                  *)

\* The handler returns; what is still under way to it is gone.
Return(c) ==
  /\ handler' = [handler EXCEPT ![c] = Returned]
  /\ toServer' = [toServer EXCEPT ![c] = <<>>]
Goto(c, pc) == handler' = [handler EXCEPT ![c].pc = pc]

\* What is sent on a connection nobody reads any more is gone.
Read(c) == c \in readers \/ (c = opened /\ call.kind = "connect")
Reply(c, messages) ==
  toClient' = IF Read(c) THEN [toClient EXCEPT ![c] = @ \o messages] ELSE toClient
Refuse(c, code) == Reply(c, <<ProtocolError(code, FALSE)>>)
GiveUp(c, code) ==
  /\ Reply(c, <<ProtocolError(code, TRUE), CloseMessage>>)
  /\ Goto(c, "closing")

\* The hello is taken with the opening of the connection: the token is the
\* manager's own, and only a late hello is refused.
Hello(c) ==
  /\ handler[c].pc = "hello"
  /\ \/ Reply(c, <<HelloAck>>) /\ Goto(c, "open") /\ UNCHANGED toServer
     \/ Reply(c, <<CloseMessage>>) /\ Return(c)
  /\ UNCHANGED <<mstatus, transcript, processed, backend>>

\* The handler takes the next message, of kind t, off its connection.
Receive(c, t) ==
  /\ handler[c].pc = "open"
  /\ toServer[c] # <<>>
  /\ Head(toServer[c]).t = t
  /\ toServer' = [toServer EXCEPT ![c] = Tail(@)]

BeginSession(c, req) ==
  handler' = [handler EXCEPT ![c].meeting = req, ![c].expected = 0,
                             ![c].violations = 0, ![c].previous = <<>>]

HandleStart(c) ==
  /\ Receive(c, "start")
  /\ LET req == Head(toServer[c]).req IN
     \/ /\ handler[c].meeting # 0
        /\ Refuse(c, "session_already_started")
        /\ UNCHANGED handler
     \/ /\ handler[c].meeting = 0 /\ mstatus[req] # "active"
        /\ GiveUp(c, "session_start_rejected")
     \/ /\ handler[c].meeting = 0 /\ mstatus[req] = "active"
        /\ \/ GiveUp(c, "session_start_failed")
           \/ BeginSession(c, req) /\ Reply(c, <<Started(req, c)>>)
           \/ /\ BeginSession(c, req)
              /\ Reply(c, <<Started(req, c), ProtocolError("assist_unavailable", FALSE)>>)
  /\ UNCHANGED <<mstatus, transcript, processed, backend>>

\* The last sequence the handler takes for the end of its session: 0 also
\* stands for a session without chunks.
LastSequence(c) == IF handler[c].expected > 0 THEN handler[c].expected - 1 ELSE 0

HandleEnd(c) ==
  /\ Receive(c, "end")
  /\ LET m == Head(toServer[c]) IN
     \/ /\ handler[c].meeting = 0 \/ m.session # c
        /\ Refuse(c, "invalid_session")
        /\ UNCHANGED handler
     \/ /\ handler[c].meeting # 0 /\ m.session = c /\ m.last # LastSequence(c)
        /\ Refuse(c, "invalid_last_sequence")
        /\ UNCHANGED handler
     \/ /\ handler[c].meeting # 0 /\ m.session = c /\ m.last = LastSequence(c)
        /\ handler' = [handler EXCEPT ![c].pc = "ending", ![c].req = m.req]
        /\ UNCHANGED toClient
  /\ UNCHANGED <<mstatus, transcript, processed, backend>>

\* Orchestrator and session have stopped: the client is told, then the close.
Ended(c) ==
  /\ handler[c].pc = "ending"
  /\ Reply(c, <<Stopped(handler[c].req, c), CloseMessage>>)
  /\ Return(c)
  /\ UNCHANGED <<mstatus, transcript, processed, backend>>

HandleAudio(c) ==
  /\ Receive(c, "audio")
  /\ LET m == Head(toServer[c]) IN
     \/ /\ handler[c].meeting = 0
        /\ Refuse(c, "session_required")
        /\ UNCHANGED handler
     \/ /\ handler[c].meeting # 0
        /\ m.session # c \/ m.seq # handler[c].expected
        /\ IF handler[c].violations + 1 < MaxViolations
           THEN /\ Refuse(c, "unexpected_sequence")
                /\ handler' = [handler EXCEPT ![c].violations = @ + 1]
           ELSE GiveUp(c, "unexpected_sequence")
     \/ /\ handler[c].meeting # 0 /\ m.session = c /\ m.seq = handler[c].expected
        /\ handler' = [handler EXCEPT ![c].pc = "stt", ![c].audio = m.audio]
        /\ UNCHANGED toClient
  /\ UNCHANGED <<mstatus, transcript, processed, backend>>

\* Rows parts[1..n] of the chunk in hand, one transaction each.
AddRows(c, parts, n) ==
  transcript' = [transcript EXCEPT ![handler[c].meeting] =
    @ \o [i \in 1..n |-> Row(c, handler[c].expected, handler[c].audio, parts[i])]]

\* Mutant of ProviderFails: the failed chunk's number is used up.
ProviderFails_Counts(c) ==
  /\ handler[c].pc = "stt"
  /\ Refuse(c, "provider_error")
  /\ handler' = [handler EXCEPT ![c].pc = "open", ![c].expected = @ + 1]
  /\ UNCHANGED <<toServer, mstatus, transcript, processed, backend>>

\* The provider raised: nothing was added, and the same number is expected again.
ProviderFails(c) ==
  /\ handler[c].pc = "stt"
  /\ Refuse(c, "provider_error")
  /\ Goto(c, "open")
  /\ UNCHANGED <<toServer, mstatus, transcript, processed, backend>>

\* Mutant of ChunkDone: the text accepted last is not kept.
ChunkDone_Forgets(c) ==
  /\ handler[c].pc = "stt"
  /\ \E segments \in Transcriptions[handler[c].audio] :
       LET parts == Accepted(handler[c].previous, segments).parts IN
       /\ parts = <<>> \/ MayAdd(handler[c].meeting)
       /\ AddRows(c, parts, Len(parts))
       /\ handler' = [handler EXCEPT ![c].pc = "open", ![c].expected = @ + 1]
       /\ Reply(c, <<ChunkResult(handler[c].expected, parts)>>)
  /\ processed' = processed \cup {<<c, handler[c].audio>>}
  /\ UNCHANGED <<toServer, mstatus, backend>>

\* The text came back and every part of it was added.
ChunkDone(c) ==
  /\ handler[c].pc = "stt"
  /\ \E segments \in Transcriptions[handler[c].audio] :
       LET accepted == Accepted(handler[c].previous, segments) IN
       /\ accepted.parts = <<>> \/ MayAdd(handler[c].meeting)
       /\ AddRows(c, accepted.parts, Len(accepted.parts))
       /\ handler' = [handler EXCEPT ![c].pc = "open", ![c].expected = @ + 1,
                                     ![c].previous = accepted.previous]
       /\ Reply(c, <<ChunkResult(handler[c].expected, accepted.parts)>>)
  /\ processed' = processed \cup {<<c, handler[c].audio>>}
  /\ UNCHANGED <<toServer, mstatus, backend>>

\* Mutant of ChunkBreaks: the failure is answered like a provider's.
ChunkBreaks_Nonfatal(c) ==
  /\ handler[c].pc = "stt"
  /\ \E segments \in Transcriptions[handler[c].audio] :
       LET parts == Accepted(handler[c].previous, segments).parts IN
       \E n \in 0..(Len(parts) - 1) :
         /\ n > 0 => MayAdd(handler[c].meeting)
         /\ AddRows(c, parts, n)
  /\ Refuse(c, "provider_error")
  /\ Goto(c, "open")
  /\ UNCHANGED <<toServer, mstatus, processed, backend>>

\* Adding part n + 1 failed: the meeting has ended, or the database refused.
\* The parts before it stay.
ChunkBreaks(c) ==
  /\ handler[c].pc = "stt"
  /\ \E segments \in Transcriptions[handler[c].audio] :
       LET parts == Accepted(handler[c].previous, segments).parts IN
       \E n \in 0..(Len(parts) - 1) :
         /\ n > 0 => MayAdd(handler[c].meeting)
         /\ AddRows(c, parts, n)
  /\ GiveUp(c, "internal_error")
  /\ UNCHANGED <<toServer, mstatus, processed, backend>>

\* Mutant of HandleClose: the loop waits for another message.
HandleClose_Ignores(c) ==
  /\ Receive(c, "close")
  /\ UNCHANGED <<handler, toClient, mstatus, transcript, processed, backend>>

HandleClose(c) ==
  /\ Receive(c, "close")
  /\ Goto(c, "closing")
  /\ UNCHANGED <<toClient, mstatus, transcript, processed, backend>>

\* The finally block: orchestrator and session are stopped.
Cleanup(c) ==
  /\ handler[c].pc = "closing"
  /\ Return(c)
  /\ UNCHANGED <<toClient, mstatus, transcript, processed, backend>>

HandlerStep(c) ==
  \/ Hello(c) \/ HandleStart(c) \/ HandleEnd(c) \/ Ended(c)
  \/ HandleAudio(c) \/ ProviderFails(c) \/ ChunkDone(c) \/ ChunkBreaks(c)
  \/ HandleClose(c) \/ Cleanup(c)

\* end_meeting, which the container offers and no route calls.
EndMeeting ==
  /\ Cardinality({m \in Meetings : mstatus[m] = "ended"}) < MaxEnded
  /\ \E m \in Meetings :
       /\ mstatus[m] = "active"
       /\ mstatus' = [mstatus EXCEPT ![m] = "ended"]
  /\ UNCHANGED <<backend, handler, toClient, transcript, processed, toServer>>

Handled(c) == HandlerStep(c) /\ UNCHANGED <<clientVars, uiVars>>

-----------------------------------------------------------------------------
(* The client's state.                                                      *)

\* fail_pending_operations: every caller that waits is answered.
FailPending(cl) ==
  [cl EXCEPT !.start = 0, !.chunk = NoChunk, !.end = 0, !.inFlight = FALSE]

\* mark_failed_state.
MarkFailed(cl) ==
  [cl EXCEPT !.writer = 0, !.session = 0, !.next = 0, !.status = "failed"]

Waiting(kind) == call.kind = kind /\ call.answer = "waiting"
Answer(kind, answer) == IF Waiting(kind) THEN [call EXCEPT !.answer = answer] ELSE call

\* The caller of a pending operation is given an error; a connect waits for
\* the acknowledgement itself and is not pending.
FailCaller == IF Waiting("connect") THEN call ELSE Answer(call.kind, "failed")

\* A message to a handler that has returned is not read by anyone.
SendTo(c, m) ==
  toServer' = IF handler[c].pc = "closed" THEN toServer
              ELSE [toServer EXCEPT ![c] = Append(@, m)]

-----------------------------------------------------------------------------
(* The client's operations, as the window's two handlers call them.         *)

\* handleStartSession: connects unless the window believes it is connected.
\* Nobody presses before the window has taken notice of a new process.
PressStart ==
  /\ backend /\ ~unread /\ flow = "idle" /\ ui # "session_active"
  /\ requests < MaxRequests
  /\ flow' = IF ui = "connected" THEN "create" ELSE "connect"
  /\ UNCHANGED <<serverVars, toServer, clientVars, ui, opened, requests, unread, captured, restarts>>

\* connect is refused unless disconnected or failed.
Connect ==
  /\ flow = "connect" /\ call = NoCall
  /\ opened < MaxConnections
  /\ \/ /\ client.status \notin {"disconnected", "failed"}
        /\ flow' = "idle"
        /\ UNCHANGED <<client, call, opened, handler>>
     \/ /\ client.status \in {"disconnected", "failed"} /\ ~backend
        /\ flow' = "idle"
        /\ client' = MarkFailed(FailPending(client))
        /\ UNCHANGED <<call, opened, handler>>
     \/ /\ client.status \in {"disconnected", "failed"} /\ backend
        /\ client' = [client EXCEPT !.status = "connecting"]
        /\ call' = [NoCall EXCEPT !.kind = "connect", !.answer = "waiting"]
        /\ opened' = opened + 1
        /\ handler' = [handler EXCEPT ![opened + 1].pc = "hello"]
        /\ UNCHANGED flow
  /\ UNCHANGED <<backend, toServer, toClient, mstatus, transcript, processed,
                 readers, shown, acked, confirmed, ui, requests, unread, captured, restarts>>

\* hello_ack: reader and dispatcher are spawned and their handles stored over
\* those of the connection before.
ConnectDone ==
  /\ Waiting("connect")
  /\ toClient[opened] # <<>> /\ Head(toClient[opened]) = HelloAck
  /\ toClient' = [toClient EXCEPT ![opened] = Tail(@)]
  /\ client' = [client EXCEPT !.status = "connected", !.writer = opened, !.tasks = opened]
  /\ readers' = readers \cup {opened}
  /\ call' = NoCall
  /\ ui' = "connected"
  /\ flow' = "create"
  /\ UNCHANGED <<backend, handler, toServer, mstatus, transcript, processed,
                 shown, acked, confirmed, opened, requests, unread, captured, restarts>>

\* No acknowledgement in time, or the socket closed: close_then_fail.
ConnectFails ==
  /\ Waiting("connect")
  /\ SendTo(opened, CloseMessage)
  /\ toClient' = [toClient EXCEPT ![opened] = <<>>]
  /\ client' = MarkFailed(FailPending(client))
  /\ call' = NoCall
  /\ flow' = "idle"
  /\ UNCHANGED <<backend, handler, mstatus, transcript, processed, readers, shown, acked, confirmed,
                 ui, opened, requests, unread, captured, restarts>>

\* POST /meetings and POST /meetings/{id}/start.
CreateMeeting ==
  /\ flow = "create"
  /\ \/ /\ backend
        /\ requests < MaxRequests
        /\ requests' = requests + 1
        /\ mstatus' = [mstatus EXCEPT ![requests + 1] = "draft"]
        /\ flow' = "begin"
     \/ /\ ~backend
        /\ flow' = "idle"
        /\ UNCHANGED <<requests, mstatus>>
  /\ UNCHANGED <<backend, handler, toClient, transcript, processed, toServer,
                 clientVars, ui, opened, unread, captured, restarts>>

StartMeeting ==
  /\ flow = "begin"
  /\ \/ /\ backend
        /\ mstatus' = [mstatus EXCEPT ![requests] = "active"]
        /\ flow' = "session"
     \/ /\ ~backend
        /\ flow' = "idle"
        /\ UNCHANGED mstatus
  /\ UNCHANGED <<backend, handler, toClient, transcript, processed, toServer,
                 clientVars, ui, opened, requests, unread, captured, restarts>>

\* start_session up to its wait.
StartSession ==
  /\ flow = "session" /\ call = NoCall
  /\ LET refused == \/ client.status # "connected" \/ client.session # 0
                    \/ client.start # 0 \/ client.writer = 0 IN
     \/ /\ refused
        /\ flow' = "idle"
        /\ UNCHANGED <<client, call, toServer>>
     \/ /\ ~refused
        /\ client' = [client EXCEPT !.start = requests]
        /\ call' = [NoCall EXCEPT !.kind = "start", !.answer = "waiting", !.req = requests]
        /\ SendTo(client.writer, StartMessage(requests))
        /\ UNCHANGED flow
  /\ UNCHANGED <<serverVars, readers, shown, acked, confirmed,
                 ui, opened, requests, unread, captured, restarts>>

\* start_session's return.  Status and session are set whatever has happened to
\* the connection since the answer was taken.
StartReturns ==
  /\ call.kind = "start"
  /\ \/ /\ call.answer = "ok"
        /\ client' = [client EXCEPT !.status = "session_active",
                                    !.session = call.session, !.next = 0, !.inFlight = FALSE]
        /\ ui' = "session_active"
     \/ /\ call.answer \in {"failed", "waiting"}
        /\ client' = [client EXCEPT !.start = IF @ = call.req THEN 0 ELSE @]
        /\ UNCHANGED ui
  /\ call' = NoCall
  /\ flow' = "idle"
  /\ UNCHANGED <<serverVars, toServer, readers, shown, acked, confirmed,
                 opened, requests, unread, captured, restarts>>

\* A chunk is finalized seconds after the session began: what the server sent
\* together with session_started has been taken by then.
Settled == \A i \in 1..Len(toClient[client.writer]) :
             toClient[client.writer][i] # ProtocolError("assist_unavailable", FALSE)

\* submit_wav_chunk up to its wait, for the sender task of a running capture.
SubmitChunk ==
  /\ ui = "session_active" /\ flow = "idle" /\ call = NoCall
  /\ client.status = "session_active" /\ client.session # 0 /\ client.writer # 0
  /\ ~client.inFlight /\ client.chunk = NoChunk
  /\ Settled
  /\ captured < MaxAudio
  /\ captured' = captured + 1
  /\ client' = [client EXCEPT !.chunk = client.next, !.inFlight = TRUE]
  /\ call' = [NoCall EXCEPT !.kind = "chunk", !.answer = "waiting",
                            !.seq = client.next, !.audio = captured + 1]
  /\ SendTo(client.writer, AudioMessage(client.session, client.next, captured + 1))
  /\ UNCHANGED <<serverVars, readers, shown, acked, confirmed,
                 ui, flow, opened, requests, unread, restarts>>

\* complete_chunk, or the error with clear_pending_chunk.
ChunkReturns ==
  /\ call.kind = "chunk" /\ call.answer \in {"ok", "failed"}
  /\ \/ /\ call.answer = "ok" /\ client.session # 0 /\ client.next = call.seq
        /\ client' = [client EXCEPT !.next = @ + 1, !.inFlight = FALSE]
        /\ acked' = acked \cup {<<client.session, call.audio>>}
     \/ /\ call.answer = "ok" /\ ~(client.session # 0 /\ client.next = call.seq)
        /\ UNCHANGED <<client, acked>>
     \/ /\ call.answer = "failed"
        /\ client' = [client EXCEPT
             !.chunk = IF @ = call.seq THEN NoChunk ELSE @,
             !.inFlight = @ /\ ~(client.session # 0 /\ client.next = call.seq)]
        /\ UNCHANGED acked
  /\ call' = NoCall
  /\ UNCHANGED <<serverVars, toServer, readers, shown, confirmed, uiVars>>

\* Mutant of ChunkTimesOut: the sequence is given up and may be used again.
ChunkTimesOut_Reuses ==
  /\ Waiting("chunk")
  /\ client' = [client EXCEPT !.chunk = NoChunk, !.inFlight = FALSE]
  /\ call' = NoCall
  /\ UNCHANGED <<serverVars, toServer, readers, shown, acked, confirmed, uiVars>>

\* The hard deadline: mark_chunk_result_timeout_failed.  Reader and dispatcher
\* stay, and so does the socket.
ChunkTimesOut ==
  /\ Waiting("chunk")
  /\ client' = MarkFailed(FailPending(client))
  /\ call' = NoCall
  /\ UNCHANGED <<serverVars, toServer, readers, shown, acked, confirmed, uiVars>>

\* Stopping the capture aborted the sender task in the middle of its wait.
ChunkDropped ==
  /\ call.kind = "chunk"
  /\ call' = NoCall
  /\ UNCHANGED <<serverVars, toServer, client, readers, shown, acked, confirmed, uiVars>>

\* handleEndSession, once the capture is stopped.
PressEnd ==
  /\ flow = "idle" /\ ui = "session_active" /\ call = NoCall
  /\ requests < MaxRequests
  /\ flow' = "end"
  /\ UNCHANGED <<serverVars, toServer, clientVars, ui, opened, requests, unread, captured, restarts>>

\* end_session up to its wait.
EndSession ==
  /\ flow = "end" /\ call = NoCall
  /\ LET refused == client.session = 0 \/ client.end # 0 \/ client.writer = 0 IN
     \/ /\ refused
        /\ flow' = "idle"
        /\ UNCHANGED <<client, call, toServer, requests>>
     \/ /\ ~refused
        /\ requests' = requests + 1
        /\ client' = [client EXCEPT !.end = requests + 1]
        /\ call' = [NoCall EXCEPT !.kind = "end", !.answer = "waiting",
                                  !.req = requests + 1, !.session = client.session]
        /\ SendTo(client.writer,
             EndMessage(requests + 1, client.session,
                        IF client.next > 0 THEN client.next - 1 ELSE 0))
        /\ UNCHANGED flow
  /\ UNCHANGED <<serverVars, readers, shown, acked, confirmed,
                 ui, opened, unread, captured, restarts>>

EndReturns ==
  /\ call.kind = "end"
  /\ \/ /\ call.answer = "ok"
        /\ client' = [client EXCEPT !.session = 0, !.next = 0, !.status = "connected"]
        /\ confirmed' = confirmed \cup {call.session}
        /\ flow' = "leave"
     \/ /\ call.answer \in {"failed", "waiting"}
        /\ client' = [client EXCEPT !.end = IF @ = call.req THEN 0 ELSE @]
        /\ flow' = "idle"
        /\ UNCHANGED confirmed
  /\ call' = NoCall
  /\ UNCHANGED <<serverVars, toServer, readers, shown, acked,
                 ui, opened, requests, unread, captured, restarts>>

\* disconnect: the close goes out, the stored tasks are aborted.
Disconnect ==
  /\ flow = "leave" /\ call = NoCall
  /\ IF client.tasks # 0 THEN SendTo(client.tasks, CloseMessage) ELSE UNCHANGED toServer
  /\ readers' = readers \ {client.tasks}
  /\ toClient' = [c \in Connections |-> IF c = client.tasks THEN <<>> ELSE toClient[c]]
  /\ client' = NoClient
  /\ ui' = "disconnected"
  /\ flow' = "idle"
  /\ UNCHANGED <<backend, handler, mstatus, transcript, processed, call, shown, acked, confirmed,
                 opened, requests, unread, captured, restarts>>

\* The window reads the client's status: a new backend process is ready, or
\* the window was reloaded.
ReadStatus ==
  /\ backend /\ flow = "idle" /\ (unread \/ Reloads)
  /\ ui' = client.status
  /\ unread' = FALSE
  /\ UNCHANGED <<serverVars, toServer, clientVars, flow, opened, requests, captured, restarts>>

-----------------------------------------------------------------------------
(* The dispatcher of a connection, the one in use or an earlier one: all of *)
(* them work on the same client state.                                      *)

Arrived(c, t) ==
  /\ c \in readers
  /\ toClient[c] # <<>>
  /\ Head(toClient[c]).t = t

DispatchStarted(c) ==
  /\ Arrived(c, "started")
  /\ LET m == Head(toClient[c]) IN
     IF client.start = m.req
     THEN /\ client' = [client EXCEPT !.start = 0]
          /\ call' = IF Waiting("start")
                     THEN [call EXCEPT !.answer = "ok", !.session = m.session] ELSE call
     ELSE UNCHANGED <<client, call>>
  /\ UNCHANGED <<readers, shown>>

\* A result is matched by its sequence alone.  The window is shown its words
\* before the caller is told; if that fails the connection is given up.
DispatchResult(c) ==
  /\ Arrived(c, "chunk_result")
  /\ LET m == Head(toClient[c]) IN
     \/ /\ client.chunk # m.seq
        /\ UNCHANGED <<client, call, readers, shown>>
     \/ /\ client.chunk = m.seq
        /\ client' = [client EXCEPT !.chunk = NoChunk]
        /\ call' = Answer("chunk", "ok")
        /\ shown' = shown \cup {<<c, text>> : text \in TextsOf(m.seq, m.parts)}
        /\ UNCHANGED readers
     \/ /\ client.chunk = m.seq /\ m.parts # <<>>
        /\ client' = MarkFailed(FailPending(client))
        /\ call' = FailCaller
        /\ readers' = readers \ {c}
        /\ UNCHANGED shown

DispatchStopped(c) ==
  /\ Arrived(c, "stopped")
  /\ IF client.end = Head(toClient[c]).req
     THEN client' = [client EXCEPT !.end = 0] /\ call' = Answer("end", "ok")
     ELSE UNCHANGED <<client, call>>
  /\ UNCHANGED <<readers, shown>>

\* Any error fails every pending operation, a fatal one the connection too.
DispatchError(c) ==
  /\ Arrived(c, "error")
  /\ call' = FailCaller
  /\ IF Head(toClient[c]).fatal
     THEN client' = MarkFailed(FailPending(client)) /\ readers' = readers \ {c}
     ELSE client' = FailPending(client) /\ UNCHANGED readers
  /\ UNCHANGED shown

DispatchClose(c) ==
  /\ Arrived(c, "close")
  /\ call' = FailCaller
  /\ client' = MarkFailed(FailPending(client))
  /\ readers' = readers \ {c}
  /\ UNCHANGED shown

Dispatch(c) ==
  /\ \/ DispatchStarted(c) \/ DispatchResult(c) \/ DispatchStopped(c)
     \/ DispatchError(c) \/ DispatchClose(c)
  /\ toClient' = [toClient EXCEPT ![c] = IF c \in readers' THEN Tail(@) ELSE <<>>]
  /\ UNCHANGED <<backend, handler, toServer, mstatus, transcript, processed,
                 acked, confirmed, uiVars>>

-----------------------------------------------------------------------------
(* The backend process.                                                     *)

\* It exits or is stopped: what is committed stays, the sockets close.
BackendDown ==
  /\ backend /\ restarts < MaxRestarts
  /\ backend' = FALSE
  /\ restarts' = restarts + 1
  /\ handler' = [c \in Connections |-> IF c <= opened THEN Returned ELSE NoHandler]
  /\ toServer' = [c \in Connections |-> <<>>]
  /\ toClient' = [c \in Connections |->
       IF handler[c].pc \in {"none", "closed"} \/ ~Read(c) THEN toClient[c]
       ELSE Append(toClient[c], CloseMessage)]
  /\ UNCHANGED <<mstatus, transcript, processed, clientVars, ui, flow,
                 opened, requests, unread, captured>>

\* A new process is ready, seconds later: the readers have seen their sockets
\* close.
BackendReady ==
  /\ ~backend /\ flow = "idle" /\ readers = {}
  /\ backend' = TRUE
  /\ unread' = TRUE
  /\ UNCHANGED <<handler, toServer, toClient, mstatus, transcript, processed,
                 clientVars, ui, flow, opened, requests, captured, restarts>>

-----------------------------------------------------------------------------
ClientStep ==
  \/ PressStart \/ Connect \/ ConnectDone \/ ConnectFails
  \/ CreateMeeting \/ StartMeeting \/ StartSession \/ StartReturns
  \/ SubmitChunk \/ ChunkReturns \/ ChunkTimesOut \/ ChunkDropped
  \/ PressEnd \/ EndSession \/ EndReturns \/ Disconnect \/ ReadStatus

Next ==
  \/ ClientStep
  \/ \E c \in Connections : Handled(c) \/ Dispatch(c)
  \/ EndMeeting /\ UNCHANGED <<clientVars, uiVars>>
  \/ BackendDown \/ BackendReady

Spec == Init /\ [][Next]_vars

\* The event loop runs every handler that can go on: the transcription thread
\* returns and so does the orchestrator's stop.
FairSpec == Spec /\ \A c \in Connections : WF_vars(Handled(c))

-----------------------------------------------------------------------------
(* Properties.                                                              *)

HandlerType ==
  [pc : {"none", "hello", "open", "stt", "ending", "closing", "closed"},
   meeting : 0..MaxRequests, expected : 0..MaxAudio, violations : 0..(MaxViolations - 1),
   audio : 0..MaxAudio, req : 0..MaxRequests, previous : Seq(Words)]

ClientType ==
  [status : {"disconnected", "connecting", "connected", "session_active", "failed"},
   writer : 0..MaxConnections, tasks : 0..MaxConnections, session : 0..MaxConnections,
   next : 0..MaxAudio, inFlight : BOOLEAN, start : 0..MaxRequests,
   chunk : -1..MaxAudio, end : 0..MaxRequests]

CallType ==
  [kind : {"none", "connect", "start", "chunk", "end"},
   answer : {"none", "waiting", "ok", "failed"}, req : 0..MaxRequests,
   seq : 0..MaxAudio, audio : 0..MaxAudio, session : 0..MaxConnections]

Rows == [session : Connections, seq : 0..MaxAudio, audio : 1..MaxAudio, words : Seq(Words)]

\* Every variable keeps its type.
TypeOK ==
  /\ backend \in BOOLEAN /\ unread \in BOOLEAN
  /\ handler \in [Connections -> HandlerType]
  /\ toServer \in [Connections -> Seq(ClientMessages)]
  /\ toClient \in [Connections -> Seq(ServerMessages)]
  /\ mstatus \in [Meetings -> {"absent", "draft", "active", "ended"}]
  /\ transcript \in [Meetings -> Seq(Rows)]
  /\ client \in ClientType
  /\ readers \subseteq Connections
  /\ call \in CallType
  /\ ui \in {"disconnected", "connected", "session_active", "failed"}
  /\ flow \in {"idle", "connect", "create", "begin", "session", "end", "leave"}
  /\ opened \in 0..MaxConnections /\ requests \in 0..MaxRequests
  /\ captured \in 0..MaxAudio /\ restarts \in 0..MaxRestarts
  /\ shown \subseteq Connections \X Texts
  /\ acked \subseteq Connections \X (1..MaxAudio)
  /\ processed \subseteq Connections \X (1..MaxAudio)
  /\ confirmed \subseteq Connections

RowsOf(m) == 1..Len(transcript[m])

\* A sequence number of a session stands for one chunk: when the number is used
\* again after an error, nothing of the chunk that had it before was kept.
SequenceOnce ==
  \A m \in Meetings : \A i, j \in RowsOf(m) :
    LET p == transcript[m][i]  q == transcript[m][j] IN
    p.session = q.session /\ p.seq = q.seq => p.audio = q.audio

\* A row is what deduplication against the row before it in its session leaves
\* of a segment of its chunk, and the chunks come in the order of their capture:
\* over failed chunks, refusals and retries nothing is compared with a text that
\* was not stored, or no longer the last.
Follows(p, q) ==
  /\ p.audio <= q.audio
  /\ \E segments \in Transcriptions[q.audio] : \E n \in 1..Len(segments) :
       q.words = Deduplicate(p.words, segments[n])

RowsFollowOn ==
  \A m \in Meetings : \A i, j \in RowsOf(m) :
    LET p == transcript[m][i]  q == transcript[m][j] IN
    /\ i < j /\ p.session = q.session
    /\ \A k \in (i + 1)..(j - 1) : transcript[m][k].session # q.session
    => Follows(p, q)

\* No connection is opened beside the dispatcher of the one before.  A reload of
\* the window can lead to it: then the status of a client that has failed is read
\* while its tasks still run.
OneDispatcher == readers \subseteq {opened}

\* A chunk the capture was told is done was answered by the session it was
\* submitted to; a late answer to another chunk is never taken for its own.
AckedIsProcessed == acked \subseteq processed

\* While client and handler are in the same session, the handler is level with
\* the client or one chunk ahead, and ahead only by a chunk it did answer.
NumbersAgree ==
  LET c == client.session IN
  c # 0 /\ handler[c].pc \in {"open", "stt"} =>
    \/ handler[c].expected = client.next
    \/ /\ handler[c].expected = client.next + 1
       /\ \E a \in 1..MaxAudio : <<c, a>> \in processed \ acked

\* Client and handler stay in step over refusals, failures, late answers,
\* reconnects and restarts of the backend.
Inv == TypeOK /\ NumbersAgree

\* When end_session reports success, the window has been shown every text the
\* session added to the meeting.
EndedIsShown ==
  \A m \in Meetings : \A i \in RowsOf(m) :
    LET row == transcript[m][i] IN
    row.session \in confirmed => <<row.session, <<row.seq, row.words>>>> \in shown

\* The meetings table and the transcripts change as the aggregate promises:
\* the transcription of a chunk takes its time, the meeting may end meanwhile.
Aggregate == INSTANCE Meeting
MeetingSpec == Aggregate!MSpec

\* A connection whose client has closed it is cleaned up, whatever the handler
\* was doing.
ClosedIsCleanedUp ==
  \A c \in Connections :
    (toServer[c] # <<>> /\ Last(toServer[c]) = CloseMessage) ~> handler[c].pc = "closed"
=============================================================================
