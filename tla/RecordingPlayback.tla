-------------------------- MODULE RecordingPlayback --------------------------
(***************************************************************************)
(* Playback of a stored recording: the stream and seek routes of the        *)
(* backend with the reader behind them (recording_playback.py,              *)
(* encrypted_recording_playback_reader.py, resolve_recording_seek.py), the  *)
(* playback manager of the desktop (recording_playback/manager.rs) and the  *)
(* player in its window (RecordingPlayer.tsx).                              *)
(*                                                                         *)
(* The desktop's tasks and commands run in parallel: what each of them does *)
(* under one hold of the manager's lock is a step.  A stream is known by    *)
(* its generation, a segment by its position (index 0 is segment 1), and    *)
(* its audio is the number of its samples.                                  *)
(***************************************************************************)
EXTENDS Integers, Sequences, FiniteSets, Functions

CONSTANTS
    Recording,       \* numbers of samples of the segments of a recording
    MaxLength,       \* bound: segments of the recordings that are searched
    MaxCount,        \* bound: samples of their segments
    Capacity,        \* PLAYBACK_AUDIO_BUFFER_CAPACITY
    MaxMeetings,     \* bound: meetings whose player is opened, one after the other
    MaxOperations,   \* bound: players opened and uses of Play and of the seek bar
    MaxDisturbances, \* bound: failures of storage, of a connection, of event delivery,
                     \* deletions of audio, and seeks and stops of one player
    None

ASSUME ConstantsAssumption ==
    /\ Recording \in Seq(Nat \ {0}) /\ Recording # <<>>
    /\ MaxLength \in Nat /\ MaxCount \in Nat
    /\ Capacity \in Nat \ {0}
    /\ MaxMeetings \in Nat \ {0}
    /\ MaxOperations \in Nat /\ MaxDisturbances \in Nat
    /\ None \notin Nat

VARIABLES
    audio,       \* what is left of each meeting's recording
    stream,      \* the backend's side of each stream
    task,        \* the desktop's reader of each stream
    channel,     \* segments between the reader and the pump
    pump,        \* what turns them into events for the window
    manager,     \* the playback manager
    chain,       \* what the player has started and awaits
    stops,       \* stop commands on their way
    player,      \* the player
    failures

vars == <<audio, stream, task, channel, pump, manager, chain, stops, player, failures>>
streaming == <<stream, task, channel, pump>>
window == <<chain, stops, player>>

-----------------------------------------------------------------------------
(* State *)

Total(r) == SumFunction(r)

Duration == 2 * Total(Recording)

\* Where the seek bar is used: inside the recording, at its end, or beyond.  A
\* time is counted in half samples.
Times == {Total(Recording), Duration, Duration + 1}

Meetings == 1 .. MaxMeetings
Segments == DOMAIN Recording
Chains == 0 .. MaxOperations
\* The code's generation counts stops too, so that a stop outdates every stream:
\* here a generation is the number of a stream, and a stop leaves none current.
Generations == 1 .. MaxOperations

\* todo is what the backend has not read yet.
Streams == [pc : {"none", "asked", "reading"}, meeting : Meetings \cup {None},
            todo : SUBSET Segments]
NoStream == [pc |-> "none", meeting |-> None, todo |-> {}]

\* A reader that "ended" or "failed" has dropped its end of the channel and has
\* not told the manager yet.
Tasks == [pc : {"none", "consuming", "ended", "failed"}, previous : {0} \cup Segments]
NoTask == [pc |-> "none", previous |-> 0]

Pumps == {"none", "receiving", "finishing clean", "finishing failed"}

Managers == [state : {"idle", "loading", "ready", "starting", "streaming", "stopped", "failed"},
             meeting : Meetings \cup {None}, gen : Generations \cup {None},
             opened : {0} \cup Generations, task : Generations \cup {None}, pump : Generations \cup {None},
             receiver : Generations \cup {None}]

\* Commands are named for what they do next; "ok" and "err" are answers on
\* their way back to the player.
PrepareSteps == {"prepare", "fetch", "settle"}
StartSteps == {"start", "connect", "launch"}
ActivateSteps == {"activate", "register"}
SeekSteps == {"seek", "resolve"}
\* step is the command that was called last, meeting and gen what it holds.
ChainSet == [kind : {"mount", "play", "seek"}, mount : Meetings,
             pc : {"unused", "done", "ok", "err"} \cup PrepareSteps \cup StartSteps
                  \cup ActivateSteps \cup SeekSteps,
             step : {"prepare", "start", "activate", "seek"},
             gen : Generations \cup {None}, meeting : Meetings \cup {None},
             target : {0} \cup Times, request : Nat]
NoChain == [kind |-> "mount", mount |-> 1, pc |-> "unused", step |-> "prepare", gen |-> None,
            meeting |-> None, target |-> 0, request |-> 0]

\* heard is what has been scheduled since the audio was last cleared, sources
\* how much of it has not ended; a stray is the late end of a cleared source.
Players == [mount : Meetings,
            state : {"idle", "ready", "loading", "playing", "paused", "ended", "stopped", "failed"},
            known : BOOLEAN, gen : Generations \cup {None}, complete : BOOLEAN,
            last : {0} \cup Segments,
            heard : Seq([gen : Generations, segment : Segments]),
            sources : Nat, stray : BOOLEAN,
            context : {"none", "running", "suspended"},
            request : Nat, pending : Times \cup {None}, worker : BOOLEAN]

Mounted(m) ==
  [mount |-> m, state |-> "idle", known |-> FALSE, gen |-> None, complete |-> FALSE,
   last |-> 0, heard |-> <<>>, sources |-> 0, stray |-> FALSE,
   context |-> "none", request |-> 0, pending |-> None, worker |-> FALSE]

NewChain(kind, m) == [NoChain EXCEPT !.kind = kind, !.mount = m, !.pc = "prepare"]

TypeOK ==
  /\ audio \in [Meetings -> {"whole", "removed", "deleted"}]
  /\ stream \in [Generations -> Streams]
  /\ task \in [Generations -> Tasks]
  /\ channel \in [Generations -> Seq(Segments)]
  /\ \A g \in Generations : Len(channel[g]) <= Capacity
  /\ pump \in [Generations -> Pumps]
  /\ manager \in Managers
  /\ chain \in [Chains -> ChainSet]
  /\ stops \in Nat
  /\ player \in Players
  /\ failures \in 0 .. MaxDisturbances

Init ==
  /\ audio = [m \in Meetings |-> "whole"]
  /\ stream = [g \in Generations |-> NoStream]
  /\ task = [g \in Generations |-> NoTask]
  /\ channel = [g \in Generations |-> <<>>]
  /\ pump = [g \in Generations |-> "none"]
  /\ manager = [state |-> "idle", meeting |-> None, gen |-> None, opened |-> 0, task |-> None, pump |-> None,
                receiver |-> None]
  /\ chain = [c \in Chains |-> IF c = 0 THEN NewChain("mount", 1) ELSE NoChain]
  /\ stops = 0
  /\ player = Mounted(1)
  /\ failures = 0

Fails == player.request + failures < MaxDisturbances /\ failures' = failures + 1

-----------------------------------------------------------------------------
(* Time on the recording *)

StartSample(r, i) == SumFunctionOnSet(r, 1 .. i - 1)

\* Mutant of Ends: the first sample after a segment still belongs to it
Ends_Late(r, i, sample) == sample > StartSample(r, i) + r[i]

Ends(r, i, sample) == sample >= StartSample(r, i) + r[i]

\* The binary search for the segment that contains a sample; 0 when none does.
Search(r, sample) ==
  LET n == Len(r)
      find[span \in (1 .. n + 1) \X (0 .. n)] ==
        LET low == span[1]
            high == span[2]
            middle == (low + high) \div 2 IN
        IF low > high THEN 0
        ELSE IF sample < StartSample(r, middle) THEN find[<<low, middle - 1>>]
        ELSE IF Ends(r, middle, sample) THEN find[<<middle + 1, high>>]
        ELSE middle
  IN find[<<1, n>>]

\* What falls between two samples belongs to the earlier one.
TargetSample(time) == time \div 2

AtEnd(r, time) == time = 2 * Total(r)

-----------------------------------------------------------------------------
(* The backend *)

\* The audio of a meeting is deleted in one step, unless that fails or dies
\* halfway: then the files are gone and the recording still counts as completed.
DeleteAudio(m) ==
  /\ audio[m] = "whole"
  /\ Fails
  /\ \E left \in {"deleted", "removed"} : audio' = [audio EXCEPT ![m] = left]
  /\ UNCHANGED <<streaming, manager, window>>

Available(m) == audio[m] # "deleted"

\* The stored segments, listed when a stream is opened.
Files(m) == IF audio[m] = "whole" THEN Segments ELSE {}

\* Mutant of NextFile: the directory's order is not the order of the segments
NextFile_Unordered(todo) == CHOOSE i \in todo : \A j \in todo : j <= i

NextFile(todo) == CHOOSE i \in todo : \A j \in todo : i <= j

\* The frame a stream yields next.  A segment cannot be read when its file or its
\* key is gone by now.
NextFrame(g) ==
  LET m == stream[g].meeting
      todo == stream[g].todo IN
  IF stream[g].pc = "asked"
  THEN IF ~Available(m) THEN "error" ELSE IF Files(m) = {} THEN "end" ELSE "audio"
  ELSE IF todo = {} THEN "end" ELSE IF audio[m] # "whole" THEN "error" ELSE "audio"

Listed(g) == IF stream[g].pc = "asked" THEN Files(stream[g].meeting) ELSE stream[g].todo

-----------------------------------------------------------------------------
(* The stream task of the desktop: consume_playback_stream, finish_stream *)

\* The receiving end of a channel is gone when neither the manager nor a pump
\* holds it.
Dropped(g) == manager.receiver # g /\ pump[g] = "none"

HasRoom(g) == Len(channel[g]) < Capacity

\* The next frame is read: a segment goes into the channel when it comes after the
\* last one and somebody holds the other end, anything else ends the stream, as
\* does a failure on either side.
ReadFrame(g) ==
  LET i == NextFile(Listed(g))
      audible == NextFrame(g) = "audio" /\ i > task[g].previous /\ ~Dropped(g) IN
  /\ task[g].pc = "consuming"
  /\ \/ /\ audible /\ HasRoom(g)
        /\ task' = [task EXCEPT ![g].previous = i]
        /\ stream' = [stream EXCEPT ![g].pc = "reading", ![g].todo = Listed(g) \ {i}]
        /\ channel' = [channel EXCEPT ![g] = Append(@, i)]
        /\ UNCHANGED failures
     \/ /\ IF audible THEN Fails ELSE UNCHANGED failures
        /\ task' = [task EXCEPT ![g] = [NoTask EXCEPT !.pc = IF NextFrame(g) = "end" THEN "ended"
                                                             ELSE "failed"]]
        /\ UNCHANGED <<stream, channel>>
  /\ UNCHANGED <<audio, pump, manager, window>>

\* Mutant of Result: a stream that ended leaves its handle
Result_KeepsHandle(ok) ==
  [manager EXCEPT !.state = IF ok THEN "ready" ELSE "failed",
                  !.task = IF ok THEN @ ELSE None, !.receiver = IF ok THEN @ ELSE None]

Result(ok) ==
  [manager EXCEPT !.state = IF ok THEN "ready" ELSE "failed",
                  !.task = None, !.receiver = IF ok THEN @ ELSE None]

\* The result reaches the manager, unless another generation has taken over.
FinishStream(g) ==
  LET ok == task[g].pc = "ended" IN
  /\ task[g].pc \in {"ended", "failed"}
  /\ task' = [task EXCEPT ![g] = NoTask]
  /\ stream' = [stream EXCEPT ![g] = [NoStream EXCEPT !.meeting = stream[g].meeting]]
  /\ IF manager.gen = g
     THEN /\ manager' = Result(ok)
          /\ channel' = IF ok THEN channel ELSE [channel EXCEPT ![g] = <<>>]
     ELSE UNCHANGED <<manager, channel>>
  /\ UNCHANGED <<audio, pump, window, failures>>

-----------------------------------------------------------------------------
(* The player: what becomes of it *)

Cleared(p) ==
  [p EXCEPT !.heard = <<>>, !.sources = 0, !.stray = p.complete /\ p.sources > 0, !.last = 0,
            !.gen = None]

Cleaned(p) == [Cleared(p) EXCEPT !.context = "none"]

Failed(p) == [Cleaned(p) EXCEPT !.state = "failed", !.complete = FALSE]

Finished(p) == IF p.complete /\ p.sources = 0 THEN [p EXCEPT !.state = "ended"] ELSE p

\* fail() stops the manager too.
PlayerFails == player' = Failed(player) /\ stops' = stops + 1

\* A segment is decoded and scheduled behind the others, unless it is of another
\* stream.  Decoding may fail.
HearChunk(g, i) ==
  LET bad == i <= player.last \/ player.context = "none" IN
  IF g # player.gen \/ player.state = "failed" THEN UNCHANGED <<player, stops, failures>>
  ELSE \/ /\ ~bad
          /\ player' = [player EXCEPT !.last = i, !.sources = @ + 1,
                                      !.heard = Append(@, [gen |-> g, segment |-> i])]
          /\ UNCHANGED <<stops, failures>>
       \/ /\ IF bad THEN UNCHANGED failures ELSE Fails
          /\ PlayerFails

\* Mutant of HearEnd: the generation of the event is not looked at
HearEnd_Any(g, clean) ==
  IF clean THEN player' = Finished([player EXCEPT !.complete = TRUE]) /\ UNCHANGED stops
  ELSE PlayerFails

HearEnd(g, clean) ==
  IF g # player.gen THEN UNCHANGED <<player, stops>>
  ELSE IF clean THEN player' = Finished([player EXCEPT !.complete = TRUE]) /\ UNCHANGED stops
  ELSE PlayerFails

-----------------------------------------------------------------------------
(* The pump: pump_playback_events *)

Live(g) == task[g].pc = "consuming"

\* A segment is passed on only while its stream is still "streaming"; when it
\* cannot be, playback fails without a word to the window.  The way of an event
\* through the window is not told apart from the decoding behind it: whatever
\* comes in between outdates the generation.
EmitChunk(g) ==
  LET active == manager.gen = g /\ manager.state = "streaming" IN
  /\ pump[g] = "receiving" /\ channel[g] # <<>>
  /\ \/ /\ active
        /\ HearChunk(g, Head(channel[g]))
        /\ channel' = [channel EXCEPT ![g] = Tail(@)]
        /\ UNCHANGED <<pump, manager>>
     \/ /\ active
        /\ Fails
        /\ manager' = [manager EXCEPT !.state = "failed", !.receiver = None]
        /\ channel' = [channel EXCEPT ![g] = <<>>]
        /\ pump' = [pump EXCEPT ![g] = "none"]
        /\ UNCHANGED <<stops, player>>
     \/ /\ ~active
        /\ pump' = [pump EXCEPT ![g] = "none"]
        /\ channel' = [channel EXCEPT ![g] = Tail(@)]
        /\ UNCHANGED <<manager, stops, player, failures>>
  /\ UNCHANGED <<audio, stream, task, chain>>

\* The channel is closed: what the manager's state says now decides what the
\* window is told.
Close(g) ==
  LET clean == manager.state # "failed" IN
  /\ pump[g] = "receiving" /\ channel[g] = <<>> /\ ~Live(g)
  /\ IF manager.gen = g /\ manager.state \in {"ready", "streaming", "failed"}
     THEN /\ HearEnd(g, clean)
          /\ pump' = [pump EXCEPT ![g] = IF clean THEN "finishing clean" ELSE "finishing failed"]
     ELSE pump' = [pump EXCEPT ![g] = "none"] /\ UNCHANGED <<stops, player>>
  /\ UNCHANGED <<audio, stream, task, channel, manager, chain, failures>>

FinishPump(g) ==
  LET clean == pump[g] = "finishing clean" IN
  /\ pump[g] \in {"finishing clean", "finishing failed"}
  /\ pump' = [pump EXCEPT ![g] = "none"]
  /\ manager' = IF manager.gen # g THEN manager
                ELSE [manager EXCEPT !.pump = None,
                                     !.state = IF clean /\ @ = "ready" THEN "stopped" ELSE @]
  /\ UNCHANGED <<audio, stream, task, channel, window, failures>>

-----------------------------------------------------------------------------
(* The manager's commands *)

At(c, pc) == chain[c].pc = pc

Go(c, pc) == chain' = [chain EXCEPT ![c].pc = pc]

Forgotten(of, taken, nothing) ==
  [g \in Generations |-> IF g \in taken THEN nothing ELSE of[g]]

\* Mutant of Aborted: the reader of the stream is left alone
Aborted_PumpOnly ==
  /\ pump' = Forgotten(pump, {manager.gen, manager.pump}, "none")
  /\ channel' = Forgotten(channel, {manager.gen}, <<>>)
  /\ UNCHANGED <<task, stream>>

\* The tasks of the manager are aborted, and the channel is emptied.  This comes
\* after the lock is released, and a pump the manager does not hold is left to
\* itself: but an outdated task has no way left to make itself felt, so they are
\* gone at once.
Aborted ==
  /\ pump' = Forgotten(pump, {manager.gen, manager.pump}, "none")
  /\ channel' = Forgotten(channel, {manager.gen}, <<>>)
  /\ task' = Forgotten(task, {manager.task}, NoTask)
  /\ stream' = [g \in Generations |-> IF g = manager.task THEN [NoStream EXCEPT !.meeting = stream[g].meeting]
                                      ELSE stream[g]]

\* start: only from these states is anything prepared.  Between this check and
\* load_info's first update nothing but the lock is awaited: they are one step.
Prepare(c) ==
  /\ At(c, "prepare")
  /\ IF manager.state \in {"idle", "stopped", "failed"}
     THEN manager' = [manager EXCEPT !.state = "loading"] /\ Go(c, "fetch")
     ELSE Go(c, "err") /\ UNCHANGED manager
  /\ UNCHANGED <<audio, streaming, stops, player, failures>>

Fetch(c) ==
  /\ At(c, "fetch")
  /\ \/ /\ Available(chain[c].mount)
        /\ manager' = [manager EXCEPT !.state = "ready", !.meeting = chain[c].mount]
        /\ Go(c, "settle")
        /\ UNCHANGED failures
     \/ /\ IF Available(chain[c].mount) THEN Fails ELSE UNCHANGED failures
        /\ manager' = [manager EXCEPT !.state = "failed"]
        /\ Go(c, "err")
  /\ UNCHANGED <<audio, streaming, stops, player>>

\* The second half of start: the player accepts the answer only with the
\* information of its own meeting in it.
Settle(c) ==
  /\ At(c, "settle")
  /\ manager' = [manager EXCEPT !.state = "ready"]
  /\ Go(c, IF manager.meeting = chain[c].mount THEN "ok" ELSE "err")
  /\ UNCHANGED <<audio, streaming, stops, player, failures>>

MayStart == manager.state = "ready" /\ manager.task = None

\* start_streaming: the meeting to play is read under the first hold of the lock.
Start(c) ==
  /\ At(c, "start")
  /\ IF MayStart /\ manager.meeting # None
     THEN /\ manager' = [manager EXCEPT !.state = "starting"]
          /\ chain' = [chain EXCEPT ![c].pc = "connect", ![c].meeting = manager.meeting]
     ELSE Go(c, "err") /\ UNCHANGED manager
  /\ UNCHANGED <<audio, streaming, stops, player, failures>>

NextGeneration == manager.opened + 1

\* A generation that was left by a clean end is outdated now, its pump included.
Connect(c) ==
  /\ At(c, "connect")
  /\ \/ /\ manager.state = "starting"
        /\ manager' = [manager EXCEPT !.gen = NextGeneration, !.opened = NextGeneration,
                                      !.state = "streaming", !.receiver = NextGeneration]
        /\ pump' = Forgotten(pump, {manager.gen}, "none")
        /\ channel' = Forgotten(channel, {manager.gen}, <<>>)
        /\ chain' = [chain EXCEPT ![c].pc = "launch", ![c].gen = NextGeneration]
        /\ UNCHANGED failures
     \/ /\ manager.state # "starting"
        /\ Go(c, "err")
        /\ UNCHANGED <<manager, pump, channel, failures>>
     \/ /\ Fails
        /\ manager' = [manager EXCEPT !.state = "failed"]
        /\ Go(c, "err")
        /\ UNCHANGED <<pump, channel>>
  /\ UNCHANGED <<audio, stream, task, stops, player>>

\* The stream task starts only when its generation is still the one that counts.
Launch(c) ==
  LET g == chain[c].gen IN
  /\ At(c, "launch")
  /\ IF manager.gen = g /\ manager.state = "streaming"
     THEN /\ manager' = [manager EXCEPT !.task = g]
          /\ task' = [task EXCEPT ![g] = [NoTask EXCEPT !.pc = "consuming"]]
          /\ stream' = [stream EXCEPT ![g] = [NoStream EXCEPT !.pc = "asked",
                                                              !.meeting = chain[c].meeting]]
          /\ chain' = [chain EXCEPT ![c].pc = "ok", ![c].meeting = None]
     ELSE Go(c, "err") /\ UNCHANGED <<manager, task, stream>>
  /\ UNCHANGED <<audio, channel, pump, stops, player, failures>>

MayActivate(g) == manager.gen = g /\ manager.state = "streaming" /\ manager.pump = None

Activate(c) ==
  LET g == chain[c].gen IN
  /\ At(c, "activate")
  /\ IF MayActivate(g) /\ manager.receiver # None
     THEN pump' = [pump EXCEPT ![g] = "receiving"] /\ Go(c, "register")
     ELSE Go(c, "err") /\ UNCHANGED pump
  /\ UNCHANGED <<audio, stream, task, channel, manager, stops, player, failures>>

\* A pump that may not stay is aborted, perhaps too late.
Register(c) ==
  LET g == chain[c].gen IN
  /\ At(c, "register")
  /\ IF MayActivate(g)
     THEN manager' = [manager EXCEPT !.pump = g] /\ Go(c, "ok") /\ UNCHANGED pump
     ELSE /\ pump' \in {pump, [pump EXCEPT ![g] = "none"]}
          /\ Go(c, "err")
          /\ UNCHANGED manager
  /\ UNCHANGED <<audio, stream, task, channel, stops, player, failures>>

\* seek: resolved by the backend for the meeting that is loaded.
Seek(c) ==
  /\ At(c, "seek")
  /\ IF manager.state \in {"ready", "streaming"} /\ manager.meeting # None
     THEN chain' = [chain EXCEPT ![c].pc = "resolve", ![c].meeting = manager.meeting]
     ELSE Go(c, "err")
  /\ UNCHANGED <<audio, streaming, manager, stops, player, failures>>

\* What the route answers with, and what the desktop reads: it refuses an answer
\* with a field it does not know.
Answered == {"segment_index", "segment_start_sample", "segment_sample_count", "target_sample",
             "offset_samples", "resolved_seconds"}
Understood == {"segment_index", "offset_samples", "resolved_seconds"}

\* No answer with a target is understood, so only the end of the recording is
\* ever sought: stop_active_stream.
Resolve(c) ==
  LET found == Search(Recording, TargetSample(chain[c].target))
      understood == AtEnd(Recording, chain[c].target) \/ (found # 0 /\ Answered = Understood) IN
  /\ At(c, "resolve")
  /\ \/ /\ Available(chain[c].meeting) /\ understood
        /\ manager' = [manager EXCEPT !.gen = None, !.task = None, !.pump = None,
                                      !.receiver = None,
                                      !.state = IF manager.meeting # None THEN "ready" ELSE @]
        /\ Aborted
        /\ Go(c, "ok")
        /\ UNCHANGED failures
     \/ /\ IF Available(chain[c].meeting) /\ understood THEN Fails ELSE UNCHANGED failures
        /\ Go(c, "err")
        /\ UNCHANGED <<manager, streaming>>
  /\ UNCHANGED <<audio, stops, player>>

\* stop.
Stop ==
  /\ stops > 0
  /\ stops' = stops - 1
  /\ manager' = [manager EXCEPT !.state = "stopped", !.gen = None, !.meeting = None,
                                !.task = None, !.pump = None, !.receiver = None]
  /\ Aborted
  /\ UNCHANGED <<audio, chain, player, failures>>

-----------------------------------------------------------------------------
(* The player: its rounds of commands *)

Known(p) == [p EXCEPT !.state = "ready", !.known = TRUE]

Unused == {c \in Chains : chain[c].pc = "unused"}

NextChain == CHOOSE c \in Unused : \A d \in Unused : c <= d

Finish(c) == chain' = [chain EXCEPT ![c] = [NoChain EXCEPT !.pc = "done"]]

\* The information a player needs is asked for once.
Called(c, p) ==
  IF p.known THEN [c EXCEPT !.pc = IF c.kind = "seek" THEN "seek" ELSE "start",
                            !.step = IF c.kind = "seek" THEN "seek" ELSE "start"]
  ELSE [c EXCEPT !.pc = "prepare", !.step = "prepare"]

\* One round of the seek worker takes the pending target, silences the player and
\* calls the manager.
TakeTarget(p) == [Cleared(p) EXCEPT !.pending = None, !.worker = TRUE, !.context = "suspended"]

Round(p) == Called([NewChain("seek", p.mount) EXCEPT !.target = p.pending, !.request = p.request], p)

-----------------------------------------------------------------------------
(* The player's controls *)

Play ==
  /\ player.state \notin {"playing", "loading", "paused"}
  /\ Unused # {}
  /\ player' = [player EXCEPT !.state = "loading", !.context = IF @ = "none" THEN "running" ELSE @]
  /\ chain' = [chain EXCEPT ![NextChain] = Called(NewChain("play", player.mount), player)]
  /\ UNCHANGED <<audio, streaming, manager, stops, failures>>

Pause ==
  \/ /\ player.state = "playing"
     /\ player' = [player EXCEPT !.state = "paused",
                                 !.context = IF @ = "none" THEN @ ELSE "suspended"]
     /\ UNCHANGED <<audio, streaming, manager, chain, stops, failures>>
  \/ /\ player.state = "paused"
     /\ player' = [player EXCEPT !.state = "playing",
                                 !.context = IF @ = "none" THEN @ ELSE "running"]
     /\ UNCHANGED <<audio, streaming, manager, chain, stops, failures>>

PressStop ==
  /\ player.state \notin {"idle", "stopped"}
  /\ player.request + failures < MaxDisturbances
  /\ player' = [Cleaned(player) EXCEPT !.state = "stopped", !.known = FALSE, !.complete = FALSE,
                                       !.request = @ + 1, !.pending = None]
  /\ stops' = stops + 1
  /\ UNCHANGED <<audio, streaming, manager, chain, failures>>

\* A player that knows the duration does not go beyond.
SeekTo(time) ==
  LET target == IF player.known /\ time > Duration THEN Duration ELSE time
      p == [player EXCEPT !.request = @ + 1, !.pending = target] IN
  /\ player.state # "failed"
  /\ \/ player.request + failures < MaxDisturbances
     \/ player.worker /\ player.request <= MaxDisturbances
  /\ IF player.worker
     THEN player' = p /\ UNCHANGED chain
     ELSE /\ Unused # {}
          /\ player' = TakeTarget(p)
          /\ chain' = [chain EXCEPT ![NextChain] = Round(p)]
  /\ UNCHANGED <<audio, streaming, manager, stops, failures>>

\* Another meeting is opened: the old player stops the manager, the new one asks
\* it for information, and nothing orders the two.
Remount ==
  /\ player.mount + 1 \in Meetings
  /\ Unused # {}
  /\ player' = Mounted(player.mount + 1)
  /\ chain' = [chain EXCEPT ![NextChain] = NewChain("mount", player.mount + 1)]
  /\ stops' = stops + 1
  /\ UNCHANGED <<audio, streaming, manager, failures>>

-----------------------------------------------------------------------------
(* The player: answers of the manager *)

Current(c) == chain[c].mount = player.mount

\* The answers a player waits for after its own has been closed make it stop the
\* manager once more, whoever uses it by now.
AnswerGone(c) ==
  /\ ~Current(c) /\ chain[c].pc \in {"ok", "err"} /\ chain[c].kind # "seek"
  /\ IF At(c, "ok") /\ chain[c].step # "prepare"
     THEN /\ IF chain[c].step = "start"
             THEN chain' = [chain EXCEPT ![c].pc = "activate", ![c].step = "activate"]
             ELSE Finish(c)
          /\ UNCHANGED stops
     ELSE Finish(c) /\ stops' = stops + 1
  /\ UNCHANGED <<audio, streaming, manager, player, failures>>

AnswerMount(c) ==
  /\ Current(c) /\ chain[c].kind = "mount" /\ chain[c].pc \in {"ok", "err"}
  /\ Finish(c)
  /\ IF At(c, "ok") THEN player' = Known(player) /\ UNCHANGED stops ELSE PlayerFails
  /\ UNCHANGED <<audio, streaming, manager, failures>>

AnswerPlay(c) ==
  LET p == chain[c] IN
  /\ Current(c) /\ p.kind = "play" /\ p.pc \in {"ok", "err"}
  /\ \/ /\ p.pc = "err"
        /\ Finish(c)
        /\ PlayerFails
     \/ /\ p.pc = "ok" /\ p.step = "prepare"
        /\ player' = Known(player)
        /\ chain' = [chain EXCEPT ![c] = Called(p, Known(player))]
        /\ UNCHANGED stops
     \/ /\ p.pc = "ok" /\ p.step = "start"
        /\ player' = [player EXCEPT !.gen = p.gen, !.state = "playing", !.complete = FALSE]
        /\ chain' = [chain EXCEPT ![c].pc = "activate", ![c].step = "activate"]
        /\ UNCHANGED stops
     \/ /\ p.pc = "ok" /\ p.step = "activate"
        /\ Finish(c)
        /\ UNCHANGED <<player, stops>>
  /\ UNCHANGED <<audio, streaming, manager, failures>>

\* What is left of a round, unless a newer target or a stop has come.
AfterSeek(c) ==
  LET p == player IN
  IF chain[c].request # p.request THEN p
  ELSE IF At(c, "err") THEN Failed(p)
  ELSE [p EXCEPT !.gen = None, !.state = "ended", !.complete = TRUE]

AnswerSeek(c) ==
  /\ chain[c].kind = "seek" /\ chain[c].pc \in {"ok", "err"}
  /\ IF ~Current(c) THEN Finish(c) /\ UNCHANGED <<player, stops>>
     ELSE IF At(c, "ok") /\ chain[c].step = "prepare"
     THEN /\ player' = Known(player)
          /\ chain' = [chain EXCEPT ![c] = Called(@, Known(player))]
          /\ UNCHANGED stops
     ELSE LET p == AfterSeek(c) IN
          /\ IF p.pending # None
             THEN player' = TakeTarget(p) /\ chain' = [chain EXCEPT ![c] = Round(p)]
             ELSE player' = [p EXCEPT !.worker = FALSE] /\ Finish(c)
          /\ stops' = IF At(c, "err") /\ chain[c].request = player.request THEN stops + 1 ELSE stops
  /\ UNCHANGED <<audio, streaming, manager, failures>>

-----------------------------------------------------------------------------
(* The player: audio *)

SourceEnds ==
  /\ player.sources > 0 /\ player.context = "running"
  /\ player' = Finished([player EXCEPT !.sources = @ - 1])
  /\ UNCHANGED <<audio, streaming, manager, chain, stops, failures>>

\* The end of a source that was silenced is reported late; that changes something
\* only when the input was complete.
StraySourceEnds ==
  /\ player.stray
  /\ player' = Finished([player EXCEPT !.stray = FALSE])
  /\ UNCHANGED <<audio, streaming, manager, chain, stops, failures>>

-----------------------------------------------------------------------------
(* Specification *)

Manage(c) ==
  \/ Prepare(c) \/ Fetch(c) \/ Settle(c)
  \/ Start(c) \/ Connect(c) \/ Launch(c) \/ Activate(c) \/ Register(c)
  \/ Seek(c) \/ Resolve(c)

AnswerPlayer(c) == AnswerGone(c) \/ AnswerMount(c) \/ AnswerPlay(c) \/ AnswerSeek(c)

Consume(g) == ReadFrame(g) \/ FinishStream(g)

Pump(g) == EmitChunk(g) \/ Close(g) \/ FinishPump(g)

Next ==
  \/ \E m \in Meetings : DeleteAudio(m)
  \/ \E g \in Generations : Consume(g) \/ Pump(g)
  \/ \E c \in Chains : Manage(c) \/ AnswerPlayer(c)
  \/ Stop
  \/ Play \/ Pause \/ PressStop \/ Remount
  \/ \E time \in Times : SeekTo(time)
  \/ SourceEnds \/ StraySourceEnds

Spec == Init /\ [][Next]_vars

-----------------------------------------------------------------------------
(* Properties *)

SearchFinds(r) ==
  \A time \in 0 .. 2 * Total(r) - 1 :
    LET sample == TargetSample(time)
        i == Search(r, sample) IN
    i \in DOMAIN r /\ StartSample(r, i) <= sample /\ sample < StartSample(r, i + 1)

SearchIsRight == \A n \in 1 .. MaxLength : \A r \in [1 .. n -> 1 .. MaxCount] : SearchFinds(r)

\* A seek is resolved by a search that finds, for every time before the end of a
\* recording, the segment the time's sample lies in (resolve_recording_seek.py).
SeekFindsSample == \A c \in Chains : At(c, "resolve") => SearchIsRight

\* A seek to a time inside a recording is refused only when something fails
\* (docs/TESTING.md:918 has a tester seek with the progress control).  The answer
\* of the route is one the desktop does not understand.
SeekInsideWorks ==
  [][\A c \in Chains :
       /\ At(c, "resolve") /\ chain'[c].pc = "err"
       /\ chain[c].target < Duration /\ Available(chain[c].meeting)
       => failures' # failures]_vars

\* What the player has scheduled since it was last silent is one stream from its
\* first segment on without a gap, whatever stops, seeks and other players did to
\* the streams in the meantime.
HeardInOrder ==
  \A i \in DOMAIN player.heard :
    player.heard[i].segment = i /\ player.heard[i].gen = player.heard[1].gen

\* Playback that comes to its end has played everything: no event of an older
\* stream, and no stream that lost the race against its own reader, completes it.
EndedIsWhole ==
  player.complete /\ player.gen # None /\ failures = 0 =>
    /\ player.heard # <<>>
    /\ audio[stream[player.gen].meeting] = "whole" => Len(player.heard) = Len(Recording)

\* There is one stream at a time, over all the players and whatever becomes of
\* their commands: no reader is left behind with an open connection.
OneStream ==
  \A g, h \in Generations : Live(g) /\ Live(h) => g = h

\* The manager's handle of a stream task never outlives the task: a dead handle
\* would refuse every later start.
HandleIsLive == manager.task # None => task[manager.task].pc # "none"

\* The channel keeps its bound and the manager's handle its task, over every
\* race of start, stop and the end of a stream.
Inv == TypeOK /\ HandleIsLive

=============================================================================
