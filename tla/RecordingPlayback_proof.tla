----------------------- MODULE RecordingPlayback_proof -----------------------
(***************************************************************************)
(* Proofs about RecordingPlayback, for any recording, any capacity of the  *)
(* channel and any number of players, streams, seeks, stops and failures:  *)
(* the types, the single stream behind a handle that never outlives it,    *)
(* that what is heard is one stream without a gap, whole at its end, and   *)
(* that a seek is resolved to the segment its time lies in.                *)
(***************************************************************************)
EXTENDS RecordingPlayback, Extrema

-----------------------------------------------------------------------------
(* What the helpers return *)

\* Segments are numbered from 1.
LEMMA SegmentNumbers == Segments = 1 .. Len(Recording) /\ Len(Recording) \in Nat \ {0}
BY ConstantsAssumption DEF Segments

\* The least position that is left (read_entries of the playback reader).
LEMMA NextFileIsLeast ==
  ASSUME NEW todo \in SUBSET Segments, todo # {}
  PROVE  NextFile(todo) \in todo /\ \A j \in todo : NextFile(todo) <= j
<1>1. todo \in SUBSET Nat
  BY SegmentNumbers
<1> QED BY <1>1, LeastNumber DEF NextFile

\* A command takes a chain nobody has used.
LEMMA NextChainIsUnused ==
  ASSUME Unused # {}
  PROVE  NextChain \in Chains /\ chain[NextChain].pc = "unused"
<1>1. Unused \in SUBSET Nat
  BY ConstantsAssumption DEF Unused, Chains
<1>2. NextChain \in Unused
  BY <1>1, LeastNumber DEF NextChain
<1> QED BY <1>2 DEF Unused

\* What becomes of a player is a player.
LEMMA PlayerTypes ==
  ASSUME NEW p \in Players
  PROVE  /\ Cleared(p) \in Players /\ Cleaned(p) \in Players /\ Failed(p) \in Players
         /\ Finished(p) \in Players /\ Known(p) \in Players /\ TakeTarget(p) \in Players
<1>1. Cleared(p) \in Players
  <2> DEFINE stray == p.complete /\ p.sources > 0
  <2>1. stray \in BOOLEAN
    OBVIOUS
  <2>2. Cleared(p) = [p EXCEPT !.heard = <<>>, !.sources = 0, !.stray = stray, !.last = 0,
                               !.gen = None]
    BY DEF Cleared
  <2>3. <<>> \in Seq([gen : Generations, segment : Segments])
    OBVIOUS
  <2> HIDE DEF stray
  <2>4. [p EXCEPT !.heard = <<>>] \in Players
    BY <2>3 DEF Players
  <2>5. [[p EXCEPT !.heard = <<>>] EXCEPT !.sources = 0, !.stray = stray] \in Players
    BY <2>1, <2>4 DEF Players
  <2>6. [[p EXCEPT !.heard = <<>>, !.sources = 0, !.stray = stray] EXCEPT !.last = 0, !.gen = None]
          \in Players
    BY <2>5 DEF Players
  <2> QED BY <2>2, <2>6
<1>2. Cleaned(p) \in Players
  BY <1>1 DEF Cleaned, Players
<1>3. Failed(p) \in Players
  BY <1>2 DEF Failed, Players
<1>4. Finished(p) \in Players
  BY DEF Finished, Players
<1>5. Known(p) \in Players
  BY DEF Known, Players
<1>6. TakeTarget(p) \in Players
  BY <1>1 DEF TakeTarget, Players
<1> QED BY <1>1, <1>2, <1>3, <1>4, <1>5, <1>6

LEMMA MountedType == \A m \in Meetings : Mounted(m) \in Players
BY DEF Mounted, Players

-----------------------------------------------------------------------------
(* Chains: the commands a player awaits *)

\* The generation a chain holds is the one it connected, so a chain of the play
\* button has one from there on and no other chain ever has.
PlayShape(k) ==
  \/ k.gen = None /\ k.step = "prepare" /\ k.pc \in {"ok", "err"} \cup PrepareSteps
  \/ k.gen = None /\ k.step = "start" /\ k.pc \in {"start", "err"}
  \/ k.gen = None /\ k.step = "start" /\ k.pc = "connect" /\ k.meeting # None
  \/ k.gen # None /\ k.step = "start" /\ k.pc = "launch" /\ k.meeting # None
  \/ k.gen # None /\ k.step = "start" /\ k.pc \in {"ok", "err"}
  \/ k.gen # None /\ k.step = "activate" /\ k.pc \in {"ok", "err"} \cup ActivateSteps

SeekShape(k) ==
  /\ k.gen = None
  /\ \/ k.step = "prepare" /\ k.pc \in {"ok", "err"} \cup PrepareSteps
     \/ k.step = "seek" /\ k.pc \in {"ok", "err", "seek"}
     \/ k.step = "seek" /\ k.pc = "resolve" /\ k.meeting # None

MountShape(k) ==
  k.gen = None /\ k.step = "prepare" /\ k.pc \in {"ok", "err"} \cup PrepareSteps

Shape(k) ==
  \/ k.pc \in {"unused", "done"} /\ k.gen = None
  \/ k.kind = "mount" /\ MountShape(k)
  \/ k.kind = "play" /\ PlayShape(k)
  \/ k.kind = "seek" /\ SeekShape(k)

\* Chains that have had their generation; the first one never has any.
Spent == {c \in Chains \ {0} : chain[c].pc = "done" \/ chain[c].gen # None}

ChainInv ==
  /\ \A c \in Chains : Shape(chain[c])
  /\ \A c \in Chains : chain[c].gen # None => chain[c].gen <= manager.opened
  /\ \A c, d \in Chains : chain[c].gen = chain[d].gen /\ chain[c].gen # None => c = d
  /\ chain[0].pc = "done" \/ (chain[0].kind = "mount" /\ chain[0].pc # "unused")
  /\ manager.opened <= Cardinality(Spent)
  /\ manager.gen # None => manager.gen <= manager.opened

\* What a step makes of the chain it takes up, unless it connects.
Kept(old, new) ==
  /\ new \in ChainSet /\ Shape(new)
  /\ old.pc # "done"
  /\ new.gen = old.gen \/ (new.gen = None /\ new.pc = "done")
  /\ old.kind = "mount" /\ old.pc # "unused" =>
        new.pc = "done" \/ (new.kind = "mount" /\ new.pc # "unused")

LEMMA SpentBounds ==
  ASSUME NEW S \in SUBSET (Chains \ {0})
  PROVE  IsFiniteSet(S) /\ Cardinality(S) \in Nat /\ Cardinality(S) <= MaxOperations
<1>1. Chains \ {0} = 1 .. MaxOperations /\ MaxOperations \in Nat
  BY ConstantsAssumption DEF Chains
<1>2. IsFiniteSet(1 .. MaxOperations) /\ Cardinality(1 .. MaxOperations) = MaxOperations
  BY <1>1, FS_Interval
<1> QED BY <1>1, <1>2, FS_Subset, FS_CardinalityType

LEMMA ChainKept ==
  ASSUME TypeOK, ChainInv, NEW c \in Chains, NEW k, Kept(chain[c], k),
         chain' = [chain EXCEPT ![c] = k], manager'.opened = manager.opened,
         manager'.gen \in {None, manager.gen}
  PROVE  chain' \in [Chains -> ChainSet] /\ ChainInv'
<1>1. chain' \in [Chains -> ChainSet]
  BY DEF TypeOK, Kept
<1>2. chain'[c] = k /\ \A d \in Chains : d # c => chain'[d] = chain[d]
  BY DEF TypeOK
<1>3. \A d \in Chains : Shape(chain'[d])
  BY <1>2 DEF ChainInv, Kept
<1>4. \A d \in Chains : chain'[d].gen \in {None, chain[d].gen}
  BY <1>2 DEF Kept
<1>5. Spent \subseteq Spent'
  BY <1>2 DEF Spent, Kept
<1>6. Cardinality(Spent) <= Cardinality(Spent') /\ Cardinality(Spent) \in Nat
      /\ Cardinality(Spent') \in Nat
  BY <1>5, SpentBounds, FS_Subset DEF Spent
<1>7. manager'.opened <= Cardinality(Spent')
  BY <1>6 DEF ChainInv, TypeOK, Managers, Generations
<1>8. chain'[0].pc = "done" \/ (chain'[0].kind = "mount" /\ chain'[0].pc # "unused")
  BY <1>2, ConstantsAssumption DEF ChainInv, Kept, Chains
<1> QED BY <1>1, <1>3, <1>4, <1>7, <1>8 DEF ChainInv

\* A step that leaves the chains alone.
LEMMA ChainUnchanged ==
  ASSUME ChainInv, UNCHANGED chain, manager'.opened = manager.opened,
         manager'.gen \in {None, manager.gen}
  PROVE  ChainInv'
<1>1. Spent' = Spent
  BY DEF Spent
<1> QED BY <1>1 DEF ChainInv

-----------------------------------------------------------------------------
(* Types *)

TypeInv == TypeOK /\ ChainInv

LEMMA InitTypeInv == Init => TypeInv
<1> SUFFICES ASSUME Init PROVE TypeInv
  OBVIOUS
<1>1. 1 \in Meetings /\ 0 \in Chains /\ MaxOperations \in Nat
  BY ConstantsAssumption DEF Meetings, Chains
<1>2. NoChain \in ChainSet /\ NewChain("mount", 1) \in ChainSet
  BY <1>1 DEF NoChain, NewChain, ChainSet, PrepareSteps
<1>3. player \in Players
  BY <1>1, MountedType DEF Init
<1>4. manager \in Managers
  BY DEF Init, Managers
<1>5. <<>> \in Seq(Segments) /\ Len(<<>>) = 0
  OBVIOUS
<1>6. TypeOK
  <2>1. stream \in [Generations -> Streams] /\ task \in [Generations -> Tasks]
    BY DEF Init, Streams, NoStream, Tasks, NoTask
  <2>2. chain \in [Chains -> ChainSet]
    BY <1>2 DEF Init
  <2>3. /\ channel \in [Generations -> Seq(Segments)]
        /\ \A g \in Generations : Len(channel[g]) <= Capacity
    BY <1>5, ConstantsAssumption DEF Init
  <2>4. pump \in [Generations -> Pumps] /\ audio \in [Meetings -> {"whole", "removed", "deleted"}]
    BY DEF Init, Pumps
  <2> QED
    BY <1>3, <1>4, <2>1, <2>2, <2>3, <2>4, ConstantsAssumption DEF Init, TypeOK
<1>7. \A c \in Chains : Shape(chain[c]) /\ chain[c].gen = None
  BY DEF Init, NewChain, NoChain, Shape, MountShape, PrepareSteps
<1>8. chain[0].kind = "mount" /\ chain[0].pc # "unused"
  BY <1>1 DEF Init, NewChain, NoChain
<1>9. manager.opened <= Cardinality(Spent) /\ manager.gen = None
  <2>1. Spent \in SUBSET (Chains \ {0})
    BY DEF Spent
  <2>2. Cardinality(Spent) \in Nat
    BY <2>1, SpentBounds
  <2> QED BY <2>2 DEF Init
<1> QED BY <1>6, <1>7, <1>8, <1>9 DEF TypeInv, ChainInv

LEMMA FailsType ==
  ASSUME TypeOK, Fails
  PROVE  failures' \in 0 .. MaxDisturbances /\ failures' # 0
BY ConstantsAssumption DEF Fails, TypeOK, Players

\* The tasks' side: neither a chain nor the generation counter is touched.
LEMMA ReadFrameType ==
  ASSUME TypeInv, NEW g \in Generations, ReadFrame(g)
  PROVE  TypeInv'
<1> DEFINE i == NextFile(Listed(g))
           audible == NextFrame(g) = "audio" /\ i > task[g].previous /\ ~Dropped(g)
<1>1. ChainInv'
  BY ChainUnchanged DEF TypeInv, ReadFrame, window, ChainInv
<1>2. CASE /\ audible /\ HasRoom(g)
           /\ task' = [task EXCEPT ![g].previous = i]
           /\ stream' = [stream EXCEPT ![g].pc = "reading", ![g].todo = Listed(g) \ {i}]
           /\ channel' = [channel EXCEPT ![g] = Append(@, i)]
           /\ UNCHANGED failures
  <2>1. Listed(g) \in SUBSET Segments /\ Listed(g) # {}
    BY <1>2 DEF Listed, Files, NextFrame, TypeInv, TypeOK, Streams
  <2>2. i \in Segments
    BY <2>1, NextFileIsLeast
  <2> HIDE DEF i
  <2>3. task' \in [Generations -> Tasks]
    BY <1>2, <2>2 DEF TypeInv, TypeOK, Tasks
  <2>4. stream' \in [Generations -> Streams]
    BY <1>2, <2>1 DEF TypeInv, TypeOK, Streams
  <2>5. /\ channel' \in [Generations -> Seq(Segments)]
        /\ \A h \in Generations : Len(channel'[h]) <= Capacity
    <3>1. channel[g] \in Seq(Segments) /\ Len(channel[g]) < Capacity
      BY <1>2 DEF HasRoom, TypeInv, TypeOK
    <3>2. Append(channel[g], i) \in Seq(Segments) /\ Len(Append(channel[g], i)) <= Capacity
      BY <2>2, <3>1, ConstantsAssumption
    <3> QED BY <1>2, <3>2 DEF TypeInv, TypeOK
  <2> QED
    BY <1>1, <1>2, <2>3, <2>4, <2>5 DEF ReadFrame, window, TypeInv, TypeOK
<1>3. CASE /\ IF audible THEN Fails ELSE UNCHANGED failures
           /\ task' = [task EXCEPT ![g] = [NoTask EXCEPT !.pc = IF NextFrame(g) = "end"
                                                                THEN "ended" ELSE "failed"]]
           /\ UNCHANGED <<stream, channel>>
  <2>1. task' \in [Generations -> Tasks]
    BY <1>3 DEF TypeInv, TypeOK, Tasks, NoTask
  <2>2. failures' \in 0 .. MaxDisturbances
    <3>1. Fails \/ UNCHANGED failures
      BY <1>3
    <3> QED BY <3>1, FailsType DEF TypeInv, TypeOK
  <2> QED
    BY <1>1, <1>3, <2>1, <2>2 DEF ReadFrame, window, TypeInv, TypeOK
<1> QED BY <1>2, <1>3 DEF ReadFrame

LEMMA FinishStreamType ==
  ASSUME TypeInv, NEW g \in Generations, FinishStream(g)
  PROVE  TypeInv'
<1>1. task' \in [Generations -> Tasks] /\ stream' \in [Generations -> Streams]
  BY DEF FinishStream, TypeInv, TypeOK, Tasks, NoTask, Streams, NoStream
<1>2. manager' \in Managers /\ manager'.opened = manager.opened /\ manager'.gen = manager.gen
  <2>1. CASE UNCHANGED manager
    BY <2>1 DEF TypeInv, TypeOK
  <2>2. CASE manager' = [manager EXCEPT !.state = "ready", !.task = None]
    BY <2>2 DEF TypeInv, TypeOK, Managers
  <2>3. CASE manager' = [manager EXCEPT !.state = "failed", !.task = None, !.receiver = None]
    BY <2>3 DEF TypeInv, TypeOK, Managers
  <2>4. \/ UNCHANGED manager
        \/ manager' = [manager EXCEPT !.state = "ready", !.task = None, !.receiver = @]
        \/ manager' = [manager EXCEPT !.state = "failed", !.task = None, !.receiver = None]
    BY DEF FinishStream, Result
  <2>5. [manager EXCEPT !.state = "ready", !.task = None, !.receiver = @]
          = [manager EXCEPT !.state = "ready", !.task = None]
    BY DEF TypeInv, TypeOK, Managers
  <2> QED BY <2>1, <2>2, <2>3, <2>4, <2>5
<1>3. /\ channel' \in [Generations -> Seq(Segments)]
      /\ \A h \in Generations : Len(channel'[h]) <= Capacity
  <2>1. <<>> \in Seq(Segments) /\ Len(<<>>) <= Capacity
    BY ConstantsAssumption
  <2>2. channel' = channel \/ channel' = [channel EXCEPT ![g] = <<>>]
    BY DEF FinishStream
  <2> QED BY <2>1, <2>2 DEF TypeInv, TypeOK
<1>4. ChainInv'
  BY <1>2, ChainUnchanged DEF TypeInv, FinishStream, window
<1> QED BY <1>1, <1>2, <1>3, <1>4 DEF FinishStream, window, TypeInv, TypeOK

\* What the player makes of an event.
LEMMA HearChunkType ==
  ASSUME TypeInv, NEW g \in Generations, NEW i \in Segments, HearChunk(g, i)
  PROVE  player' \in Players /\ stops' \in Nat /\ failures' \in 0 .. MaxDisturbances
<1>1. CASE UNCHANGED <<player, stops, failures>>
  BY <1>1 DEF TypeInv, TypeOK
<1>2. CASE /\ player' = [player EXCEPT !.last = i, !.sources = @ + 1,
                                       !.heard = Append(@, [gen |-> g, segment |-> i])]
           /\ UNCHANGED <<stops, failures>>
  <2> DEFINE h == Append(player.heard, [gen |-> g, segment |-> i])
             n == player.sources + 1
  <2>1. h \in Seq([gen : Generations, segment : Segments]) /\ n \in Nat
    BY DEF TypeInv, TypeOK, Players
  <2>2. player' = [player EXCEPT !.last = i, !.sources = n, !.heard = h]
    BY <1>2
  <2> HIDE DEF h, n
  <2>3. player' \in Players
    BY <2>1, <2>2 DEF TypeInv, TypeOK, Players
  <2> QED BY <1>2, <2>3 DEF TypeInv, TypeOK
<1>3. CASE PlayerFails /\ (Fails \/ UNCHANGED failures)
  BY <1>3, PlayerTypes, FailsType DEF PlayerFails, TypeInv, TypeOK
<1> QED BY <1>1, <1>2, <1>3 DEF HearChunk

LEMMA EmitChunkType ==
  ASSUME TypeInv, NEW g \in Generations, EmitChunk(g)
  PROVE  TypeInv'
<1> DEFINE active == manager.gen = g /\ manager.state = "streaming"
<1>1. channel[g] \in Seq(Segments) /\ channel[g] # <<>> /\ Len(channel[g]) <= Capacity
  BY DEF EmitChunk, TypeInv, TypeOK
<1>2. /\ Head(channel[g]) \in Segments /\ Tail(channel[g]) \in Seq(Segments)
      /\ Len(Tail(channel[g])) <= Capacity
      /\ <<>> \in Seq(Segments) /\ Len(<<>>) <= Capacity
  BY <1>1, ConstantsAssumption
<1>3. /\ channel' \in [Generations -> Seq(Segments)]
      /\ \A h \in Generations : Len(channel'[h]) <= Capacity
  <2>1. channel' = [channel EXCEPT ![g] = Tail(channel[g])] \/ channel' = [channel EXCEPT ![g] = <<>>]
    BY DEF EmitChunk
  <2> QED BY <1>2, <2>1 DEF TypeInv, TypeOK
<1>4. pump' \in [Generations -> Pumps]
  BY DEF EmitChunk, TypeInv, TypeOK, Pumps
<1>5. manager' \in Managers /\ manager'.opened = manager.opened /\ manager'.gen = manager.gen
  BY DEF EmitChunk, TypeInv, TypeOK, Managers
<1>6. player' \in Players /\ stops' \in Nat /\ failures' \in 0 .. MaxDisturbances
  <2>1. \/ HearChunk(g, Head(channel[g]))
        \/ Fails /\ UNCHANGED <<stops, player>>
        \/ UNCHANGED <<stops, player, failures>>
    BY DEF EmitChunk
  <2> QED BY <1>2, <2>1, HearChunkType, FailsType DEF TypeInv, TypeOK
<1>7. ChainInv'
  BY <1>5, ChainUnchanged DEF TypeInv, EmitChunk
<1> QED BY <1>3, <1>4, <1>5, <1>6, <1>7 DEF EmitChunk, TypeInv, TypeOK

LEMMA CloseType ==
  ASSUME TypeInv, NEW g \in Generations, Close(g)
  PROVE  TypeInv'
<1>1. pump' \in [Generations -> Pumps]
  BY DEF Close, TypeInv, TypeOK, Pumps
<1>2. player' \in Players /\ stops' \in Nat
  <2>1. [player EXCEPT !.complete = TRUE] \in Players
    BY DEF TypeInv, TypeOK, Players
  <2>2. Finished([player EXCEPT !.complete = TRUE]) \in Players
    BY <2>1, PlayerTypes
  <2>3. Failed(player) \in Players /\ player \in Players /\ stops \in Nat
    BY PlayerTypes DEF TypeInv, TypeOK
  <2>4. \/ UNCHANGED <<player, stops>>
        \/ player' = Finished([player EXCEPT !.complete = TRUE]) /\ UNCHANGED stops
        \/ player' = Failed(player) /\ stops' = stops + 1
    BY DEF Close, HearEnd, PlayerFails
  <2> QED BY <2>2, <2>3, <2>4
<1>3. ChainInv'
  BY ChainUnchanged DEF TypeInv, Close, ChainInv
<1> QED BY <1>1, <1>2, <1>3 DEF Close, TypeInv, TypeOK

LEMMA FinishPumpType ==
  ASSUME TypeInv, NEW g \in Generations, FinishPump(g)
  PROVE  TypeInv'
<1>1. pump' \in [Generations -> Pumps]
  BY DEF FinishPump, TypeInv, TypeOK, Pumps
<1>2. manager' \in Managers /\ manager'.opened = manager.opened /\ manager'.gen = manager.gen
  BY DEF FinishPump, TypeInv, TypeOK, Managers
<1>3. ChainInv'
  BY <1>2, ChainUnchanged DEF TypeInv, FinishPump, window
<1> QED BY <1>1, <1>2, <1>3 DEF FinishPump, window, TypeInv, TypeOK

\* The manager's commands: each takes its chain on, and keeps the generations
\* that were opened, unless it connects.
LEMMA AbortedType ==
  ASSUME TypeOK, Aborted
  PROVE  /\ pump' \in [Generations -> Pumps] /\ task' \in [Generations -> Tasks]
         /\ stream' \in [Generations -> Streams]
         /\ channel' \in [Generations -> Seq(Segments)]
         /\ \A g \in Generations : Len(channel'[g]) <= Capacity
<1>1. <<>> \in Seq(Segments) /\ Len(<<>>) <= Capacity
  BY ConstantsAssumption
<1>2. pump' \in [Generations -> Pumps]
  BY DEF Aborted, Forgotten, TypeOK, Pumps
<1>3. task' \in [Generations -> Tasks]
  <2>1. NoTask \in Tasks
    BY DEF NoTask, Tasks
  <2> QED BY <2>1 DEF Aborted, Forgotten, TypeOK
<1>4. stream' \in [Generations -> Streams]
  <2>1. \A g \in Generations : [NoStream EXCEPT !.meeting = stream[g].meeting] \in Streams
    BY DEF NoStream, Streams, TypeOK
  <2> QED BY <2>1 DEF Aborted, TypeOK
<1>5. \A g \in Generations : channel'[g] \in {channel[g], <<>>}
  BY DEF Aborted, Forgotten
<1>6. channel' \in [Generations -> Seq(Segments)]
  BY <1>1 DEF Aborted, Forgotten, TypeOK
<1> QED BY <1>1, <1>2, <1>3, <1>4, <1>5, <1>6 DEF TypeOK

LEMMA GoKept ==
  ASSUME TypeInv, NEW c \in Chains, NEW k, Go(c, k), manager'.opened = manager.opened,
         manager'.gen \in {None, manager.gen},
         Kept(chain[c], [chain[c] EXCEPT !.pc = k])
  PROVE  chain' \in [Chains -> ChainSet] /\ ChainInv'
<1>1. chain' = [chain EXCEPT ![c] = [chain[c] EXCEPT !.pc = k]]
  BY DEF Go
<1> QED BY <1>1, ChainKept DEF TypeInv

\* The steps a chain may take without a word about anything else.
LEMMA KeptSteps ==
  ASSUME TypeInv, NEW c \in Chains
  PROVE  /\ chain[c].pc = "prepare" => Kept(chain[c], [chain[c] EXCEPT !.pc = "fetch"])
         /\ chain[c].pc = "fetch" => Kept(chain[c], [chain[c] EXCEPT !.pc = "settle"])
         /\ chain[c].pc = "settle" => Kept(chain[c], [chain[c] EXCEPT !.pc = "ok"])
         /\ chain[c].pc = "activate" => Kept(chain[c], [chain[c] EXCEPT !.pc = "register"])
         /\ chain[c].pc = "register" => Kept(chain[c], [chain[c] EXCEPT !.pc = "ok"])
         /\ chain[c].pc = "resolve" => Kept(chain[c], [chain[c] EXCEPT !.pc = "ok"])
         /\ chain[c].pc \in PrepareSteps \cup StartSteps \cup ActivateSteps \cup SeekSteps =>
               Kept(chain[c], [chain[c] EXCEPT !.pc = "err"])
<1> DEFINE old == chain[c]
<1>1. old \in ChainSet /\ Shape(old)
  BY DEF TypeInv, TypeOK, ChainInv
<1> HIDE DEF old
<1>2. ASSUME NEW k \in {"fetch", "settle", "ok", "register", "err"},
             old.pc \notin {"done", "unused"},
             Shape([old EXCEPT !.pc = k])
      PROVE  Kept(old, [old EXCEPT !.pc = k])
  <2> DEFINE new == [old EXCEPT !.pc = k]
  <2>1. new \in ChainSet /\ new.gen = old.gen /\ new.kind = old.kind /\ new.pc = k
    BY <1>1 DEF ChainSet, PrepareSteps, ActivateSteps
  <2>2. Shape(new)
    BY <1>2
  <2> SUFFICES Kept(old, new)
    OBVIOUS
  <2> HIDE DEF new
  <2> QED BY <1>2, <2>1, <2>2 DEF Kept
<1> USE DEF ChainSet, Shape, MountShape, PlayShape, SeekShape, PrepareSteps, StartSteps,
            ActivateSteps, SeekSteps
<1>3. old.pc = "prepare" => Kept(old, [old EXCEPT !.pc = "fetch"])
  BY <1>1, <1>2
<1>4. old.pc = "fetch" => Kept(old, [old EXCEPT !.pc = "settle"])
  BY <1>1, <1>2
<1>5. old.pc = "settle" => Kept(old, [old EXCEPT !.pc = "ok"])
  BY <1>1, <1>2
<1>6. old.pc = "activate" => Kept(old, [old EXCEPT !.pc = "register"])
  BY <1>1, <1>2
<1>7. old.pc = "register" => Kept(old, [old EXCEPT !.pc = "ok"])
  BY <1>1, <1>2
<1>8. old.pc = "resolve" => Kept(old, [old EXCEPT !.pc = "ok"])
  BY <1>1, <1>2
<1>9. old.pc \in PrepareSteps \cup StartSteps \cup ActivateSteps \cup SeekSteps =>
         Kept(old, [old EXCEPT !.pc = "err"])
  BY <1>1, <1>2
<1> QED BY <1>3, <1>4, <1>5, <1>6, <1>7, <1>8, <1>9 DEF old

LEMMA PrepareType ==
  ASSUME TypeInv, NEW c \in Chains, Prepare(c) \/ Fetch(c) \/ Settle(c)
  PROVE  TypeInv'
<1>1. manager' \in Managers /\ manager'.opened = manager.opened /\ manager'.gen = manager.gen
  <2>1. chain[c].mount \in Meetings
    BY DEF TypeInv, TypeOK, ChainSet
  <2>2. ASSUME NEW k \in {"loading", "ready", "failed"}, manager' = [manager EXCEPT !.state = k]
        PROVE  manager' \in Managers /\ UNCHANGED <<manager.opened, manager.gen>>
    BY <2>2 DEF TypeInv, TypeOK, Managers
  <2>3. CASE manager' = [manager EXCEPT !.state = "ready", !.meeting = chain[c].mount]
    BY <2>1, <2>3 DEF TypeInv, TypeOK, Managers
  <2>4. \/ UNCHANGED manager
        \/ manager' = [manager EXCEPT !.state = "loading"]
        \/ manager' = [manager EXCEPT !.state = "ready"]
        \/ manager' = [manager EXCEPT !.state = "failed"]
        \/ manager' = [manager EXCEPT !.state = "ready", !.meeting = chain[c].mount]
    BY DEF Prepare, Fetch, Settle
  <2> QED BY <2>2, <2>3, <2>4 DEF TypeInv, TypeOK
<1>2. failures' \in 0 .. MaxDisturbances
  <2>1. Fails \/ UNCHANGED failures
    BY DEF Prepare, Fetch, Settle
  <2> QED BY <2>1, FailsType DEF TypeInv, TypeOK
<1>3. chain' \in [Chains -> ChainSet] /\ ChainInv'
  <2>1. \/ chain[c].pc = "prepare" /\ Go(c, "fetch")
        \/ chain[c].pc = "fetch" /\ Go(c, "settle")
        \/ chain[c].pc = "settle" /\ Go(c, "ok")
        \/ chain[c].pc \in PrepareSteps /\ Go(c, "err")
    BY DEF Prepare, Fetch, Settle, At, PrepareSteps
  <2> QED BY <1>1, <2>1, GoKept, KeptSteps
<1> QED
  BY <1>1, <1>2, <1>3 DEF Prepare, Fetch, Settle, streaming, TypeInv, TypeOK

LEMMA StartType ==
  ASSUME TypeInv, NEW c \in Chains, Start(c) \/ Seek(c)
  PROVE  TypeInv'
<1>1. manager' \in Managers /\ manager'.opened = manager.opened /\ manager'.gen = manager.gen
  <2>1. manager' = manager \/ manager' = [manager EXCEPT !.state = "starting"]
    BY DEF Start, Seek
  <2> QED BY <2>1 DEF TypeInv, TypeOK, Managers
<1>2. chain' \in [Chains -> ChainSet] /\ ChainInv'
  <2> DEFINE old == chain[c]
  <2>1. old \in ChainSet /\ Shape(old) /\ manager.meeting \in Meetings \cup {None}
    BY DEF TypeInv, TypeOK, ChainInv, Managers
  <2>2. CASE Go(c, "err")
    <3>1. chain[c].pc \in StartSteps \cup SeekSteps
      BY DEF Start, Seek, At, StartSteps, SeekSteps
    <3> QED BY <1>1, <2>2, <3>1, GoKept, KeptSteps
  <2>3. ASSUME NEW k \in {"connect", "resolve"}, manager.meeting # None,
               chain' = [chain EXCEPT ![c].pc = k, ![c].meeting = manager.meeting],
               k = "connect" => old.pc = "start", k = "resolve" => old.pc = "seek"
        PROVE  chain' \in [Chains -> ChainSet] /\ ChainInv'
    <3> DEFINE new == [old EXCEPT !.pc = k, !.meeting = manager.meeting]
    <3>1. chain' = [chain EXCEPT ![c] = new]
      BY <2>3
    <3> HIDE DEF old
    <3>2. /\ new \in ChainSet /\ new.gen = old.gen /\ new.kind = old.kind /\ new.step = old.step
          /\ new.pc = k /\ new.meeting # None
      BY <2>1, <2>3 DEF ChainSet, StartSteps, SeekSteps
    <3> HIDE DEF new
    <3>3. Kept(old, new)
      BY <2>1, <2>3, <3>2
         DEF Kept, Shape, MountShape, PlayShape, SeekShape, PrepareSteps, ActivateSteps
    <3> QED BY <1>1, <3>1, <3>3, ChainKept DEF old, TypeInv
  <2> QED BY <2>2, <2>3 DEF Start, Seek, At
<1> QED BY <1>1, <1>2 DEF Start, Seek, streaming, TypeInv, TypeOK

\* A new generation is one that no chain has, and its chain counts as spent.
LEMMA ConnectType ==
  ASSUME TypeInv, NEW c \in Chains, Connect(c)
  PROVE  TypeInv'
<1> DEFINE old == chain[c]
<1>1. /\ old \in ChainSet /\ Shape(old) /\ old.pc = "connect"
      /\ manager \in Managers
  BY DEF TypeInv, TypeOK, ChainInv, Connect, At
<1>2. old.gen = None /\ old.meeting # None /\ old.kind = "play" /\ old.step = "start"
  BY <1>1 DEF Shape, MountShape, PlayShape, SeekShape, PrepareSteps, ActivateSteps, SeekSteps
<1>3. failures' \in 0 .. MaxDisturbances
  <2>1. Fails \/ UNCHANGED failures
    BY DEF Connect
  <2> QED BY <2>1, FailsType DEF TypeInv, TypeOK
<1>4. CASE Go(c, "err") /\ UNCHANGED <<pump, channel>>
           /\ (UNCHANGED manager \/ manager' = [manager EXCEPT !.state = "failed"])
  <2>1. manager' \in Managers /\ manager'.opened = manager.opened /\ manager'.gen = manager.gen
    BY <1>1, <1>4 DEF Managers
  <2>2. chain' \in [Chains -> ChainSet] /\ ChainInv'
    BY <1>1, <1>4, <2>1, GoKept, KeptSteps DEF StartSteps
  <2> QED BY <1>3, <1>4, <2>1, <2>2 DEF Connect, TypeInv, TypeOK
<1>5. CASE /\ manager' = [manager EXCEPT !.gen = NextGeneration, !.opened = NextGeneration,
                                         !.state = "streaming", !.receiver = NextGeneration]
           /\ pump' = Forgotten(pump, {manager.gen}, "none")
           /\ channel' = Forgotten(channel, {manager.gen}, <<>>)
           /\ chain' = [chain EXCEPT ![c].pc = "launch", ![c].gen = NextGeneration]
  <2> DEFINE n == NextGeneration
             new == [old EXCEPT !.pc = "launch", !.gen = n]
  <2>1. manager.opened \in 0 .. MaxOperations /\ n = manager.opened + 1
    BY <1>1, ConstantsAssumption DEF NextGeneration, Managers, Generations
  <2>2. c # 0
    BY <1>1, <1>2 DEF TypeInv, ChainInv
  <2>3. c \notin Spent /\ Spent \in SUBSET (Chains \ {0})
    BY <1>1, <1>2 DEF Spent
  <2>4. /\ Spent \cup {c} \in SUBSET (Chains \ {0})
        /\ Cardinality(Spent \cup {c}) = Cardinality(Spent) + 1
    BY <2>2, <2>3, SpentBounds, FS_AddElement
  <2>5. manager.opened <= Cardinality(Spent) /\ Cardinality(Spent \cup {c}) <= MaxOperations
        /\ Cardinality(Spent) \in Nat
    BY <2>3, <2>4, SpentBounds DEF TypeInv, ChainInv
  <2>6. n \in Generations /\ n # None
    BY <2>1, <2>4, <2>5, ConstantsAssumption DEF Generations
  <2> HIDE DEF n
  <2>7. manager' = [manager EXCEPT !.gen = n, !.opened = n, !.state = "streaming", !.receiver = n]
    BY <1>5 DEF n
  <2>8. manager' \in Managers /\ manager'.gen = n /\ manager'.opened = n
    BY <1>1, <2>6, <2>7 DEF Managers
  <2>9. /\ new \in ChainSet /\ new.gen = n /\ new.pc = "launch" /\ new.kind = "play"
        /\ new.step = "start" /\ new.meeting # None
    BY <1>1, <1>2, <2>6 DEF ChainSet, StartSteps
  <2>10. chain' = [chain EXCEPT ![c] = new]
    BY <1>5 DEF n
  <2> HIDE DEF new, old
  <2>11. chain' \in [Chains -> ChainSet] /\ chain'[c] = new
         /\ \A d \in Chains : d # c => chain'[d] = chain[d]
    BY <2>9, <2>10 DEF TypeInv, TypeOK
  <2>12. Shape(new)
    BY <2>6, <2>9 DEF Shape, PlayShape
  <2>13. Spent' = Spent \cup {c}
    BY <2>2, <2>6, <2>9, <2>11 DEF Spent
  <2>14. \A d \in Chains : chain[d].gen \in Generations \cup {None}
    BY DEF TypeInv, TypeOK, ChainSet
  <2>15. ChainInv'
    <3>1. \A d \in Chains : Shape(chain'[d])
      BY <2>11, <2>12 DEF TypeInv, ChainInv
    <3>2. \A d \in Chains : chain[d].gen # None => chain[d].gen <= manager.opened /\ chain[d].gen < n
      BY <2>1, <2>14, ConstantsAssumption DEF TypeInv, ChainInv, Generations
    <3>3. \A d \in Chains : chain'[d].gen # None => chain'[d].gen <= n
      BY <2>1, <2>6, <2>9, <2>11, <2>14, <3>2, ConstantsAssumption DEF Generations
    <3>4. \A d, e \in Chains : chain'[d].gen = chain'[e].gen /\ chain'[d].gen # None => d = e
      <4>1. \A d \in Chains : chain[d].gen # n
        BY <2>1, <2>14, <2>6, <3>2, ConstantsAssumption DEF Generations
      <4> QED BY <2>9, <2>11, <4>1 DEF TypeInv, ChainInv
    <3>5. chain'[0] = chain[0]
      BY <2>2, <2>11, ConstantsAssumption DEF Chains
    <3>6. n <= Cardinality(Spent')
      BY <2>1, <2>4, <2>5, <2>13
    <3> QED BY <2>1, <2>8, <3>1, <3>3, <3>4, <3>5, <3>6 DEF TypeInv, ChainInv
  <2>16. pump' \in [Generations -> Pumps] /\ channel' \in [Generations -> Seq(Segments)]
         /\ \A g \in Generations : Len(channel'[g]) <= Capacity
    <3>1. <<>> \in Seq(Segments) /\ Len(<<>>) <= Capacity
      BY ConstantsAssumption
    <3> QED BY <1>5, <3>1 DEF Forgotten, TypeInv, TypeOK, Pumps
  <2> QED BY <1>3, <2>8, <2>11, <2>15, <2>16 DEF Connect, TypeInv, TypeOK
<1> QED BY <1>4, <1>5 DEF Connect

LEMMA LaunchType ==
  ASSUME TypeInv, NEW c \in Chains, Launch(c)
  PROVE  TypeInv'
<1> DEFINE old == chain[c]
           g == old.gen
<1>1. /\ old \in ChainSet /\ Shape(old) /\ old.pc = "launch" /\ manager \in Managers
  BY DEF TypeInv, TypeOK, ChainInv, Launch, At
<1>2. g \in Generations /\ old.meeting \in Meetings /\ old.kind = "play" /\ old.step = "start"
  BY <1>1 DEF Shape, MountShape, PlayShape, SeekShape, PrepareSteps, ActivateSteps, SeekSteps,
              ChainSet
<1>3. CASE Go(c, "err") /\ UNCHANGED <<manager, task, stream>>
  <2>1. chain' \in [Chains -> ChainSet] /\ ChainInv'
    BY <1>1, <1>3, GoKept, KeptSteps DEF StartSteps
  <2> QED BY <1>3, <2>1 DEF Launch, TypeInv, TypeOK
<1>4. CASE /\ manager' = [manager EXCEPT !.task = g]
           /\ task' = [task EXCEPT ![g] = [NoTask EXCEPT !.pc = "consuming"]]
           /\ stream' = [stream EXCEPT ![g] = [NoStream EXCEPT !.pc = "asked",
                                                               !.meeting = old.meeting]]
           /\ chain' = [chain EXCEPT ![c].pc = "ok", ![c].meeting = None]
  <2> DEFINE new == [old EXCEPT !.pc = "ok", !.meeting = None]
  <2>1. manager' \in Managers /\ manager'.opened = manager.opened /\ manager'.gen = manager.gen
    BY <1>1, <1>2, <1>4 DEF Managers
  <2>2. task' \in [Generations -> Tasks]
    BY <1>2, <1>4 DEF TypeInv, TypeOK, Tasks, NoTask
  <2>3. stream' \in [Generations -> Streams]
    BY <1>2, <1>4 DEF TypeInv, TypeOK, Streams, NoStream
  <2>4. chain' = [chain EXCEPT ![c] = new]
    BY <1>4
  <2>5. /\ new \in ChainSet /\ new.gen = old.gen /\ new.kind = "play" /\ new.step = "start"
        /\ new.pc = "ok"
    BY <1>1, <1>2 DEF ChainSet
  <2>6. old.gen # None
    BY <1>2, ConstantsAssumption DEF Generations
  <2> HIDE DEF new
  <2>7. Kept(old, new)
    BY <1>1, <1>2, <2>5, <2>6 DEF Kept, Shape, PlayShape
  <2>8. chain' \in [Chains -> ChainSet] /\ ChainInv'
    BY <2>1, <2>4, <2>7, ChainKept DEF TypeInv
  <2> QED BY <2>1, <2>2, <2>3, <2>8 DEF Launch, TypeInv, TypeOK
<1> QED BY <1>3, <1>4 DEF Launch

LEMMA ActivateType ==
  ASSUME TypeInv, NEW c \in Chains, Activate(c) \/ Register(c)
  PROVE  TypeInv'
<1> DEFINE g == chain[c].gen
<1>1. chain[c] \in ChainSet /\ Shape(chain[c]) /\ chain[c].pc \in {"activate", "register"}
  BY DEF TypeInv, TypeOK, ChainInv, Activate, Register, At
<1>2. g \in Generations
  BY <1>1 DEF Shape, MountShape, PlayShape, SeekShape, PrepareSteps, SeekSteps, ChainSet
<1>3. manager' \in Managers /\ manager'.opened = manager.opened /\ manager'.gen = manager.gen
  <2>1. manager' = manager \/ manager' = [manager EXCEPT !.pump = g]
    BY DEF Activate, Register
  <2> QED BY <1>2, <2>1 DEF TypeInv, TypeOK, Managers
<1>4. pump' \in [Generations -> Pumps]
  BY <1>2 DEF Activate, Register, TypeInv, TypeOK, Pumps
<1>5. chain' \in [Chains -> ChainSet] /\ ChainInv'
  <2>1. \/ chain[c].pc = "activate" /\ Go(c, "register")
        \/ chain[c].pc = "register" /\ Go(c, "ok")
        \/ chain[c].pc \in ActivateSteps /\ Go(c, "err")
    BY DEF Activate, Register, At, ActivateSteps
  <2> QED BY <1>3, <2>1, GoKept, KeptSteps
<1> QED BY <1>3, <1>4, <1>5 DEF Activate, Register, TypeInv, TypeOK

LEMMA ResolveType ==
  ASSUME TypeInv, NEW c \in Chains, Resolve(c)
  PROVE  TypeInv'
<1> DEFINE left == IF manager.meeting # None THEN "ready" ELSE manager.state
           cut == [manager EXCEPT !.gen = None, !.task = None, !.pump = None, !.receiver = None,
                                  !.state = left]
<1>1. left \in {"idle", "loading", "ready", "starting", "streaming", "stopped", "failed"}
  BY DEF TypeInv, TypeOK, Managers
<1>2. \/ manager' = cut /\ Aborted /\ Go(c, "ok")
      \/ UNCHANGED <<manager, streaming>> /\ Go(c, "err")
  BY DEF Resolve
<1> HIDE DEF left
<1>3. manager' \in Managers /\ manager'.opened = manager.opened
      /\ manager'.gen \in {None, manager.gen}
  BY <1>1, <1>2 DEF TypeInv, TypeOK, Managers
<1>4. chain' \in [Chains -> ChainSet] /\ ChainInv'
  <2>1. chain[c].pc = "resolve"
    BY DEF Resolve, At
  <2> QED BY <1>2, <1>3, <2>1, GoKept, KeptSteps DEF SeekSteps
<1>5. failures' \in 0 .. MaxDisturbances
  <2>1. Fails \/ UNCHANGED failures
    BY DEF Resolve
  <2> QED BY <2>1, FailsType DEF TypeInv, TypeOK
<1>6. /\ pump' \in [Generations -> Pumps] /\ task' \in [Generations -> Tasks]
      /\ stream' \in [Generations -> Streams]
      /\ channel' \in [Generations -> Seq(Segments)]
      /\ \A g \in Generations : Len(channel'[g]) <= Capacity
  BY <1>2, AbortedType DEF streaming, TypeInv, TypeOK
<1> QED BY <1>3, <1>4, <1>5, <1>6 DEF Resolve, TypeInv, TypeOK

LEMMA StopType ==
  ASSUME TypeInv, Stop
  PROVE  TypeInv'
<1>1. manager' \in Managers /\ manager'.opened = manager.opened /\ manager'.gen = None
  BY DEF Stop, TypeInv, TypeOK, Managers
<1>2. /\ pump' \in [Generations -> Pumps] /\ task' \in [Generations -> Tasks]
      /\ stream' \in [Generations -> Streams]
      /\ channel' \in [Generations -> Seq(Segments)]
      /\ \A g \in Generations : Len(channel'[g]) <= Capacity
  BY AbortedType DEF Stop, TypeInv
<1>3. ChainInv'
  BY <1>1, ChainUnchanged DEF Stop, TypeInv
<1>4. stops' \in Nat
  BY DEF Stop, TypeInv, TypeOK
<1> QED BY <1>1, <1>2, <1>3, <1>4 DEF Stop, TypeInv, TypeOK

-----------------------------------------------------------------------------
(* Types: the player *)

\* What a chain looks like after the call that Called makes.
LEMMA CalledShape ==
  ASSUME NEW k \in ChainSet, k.kind \in {"play", "seek"}, k.gen = None, NEW p
  PROVE  /\ Called(k, p) \in ChainSet /\ Shape(Called(k, p)) /\ Called(k, p).gen = None
         /\ Called(k, p).kind = k.kind /\ Called(k, p).pc \in {"prepare", "start", "seek"}
<1> DEFINE new == Called(k, p)
<1>1. CASE p.known /\ k.kind = "seek"
  <2>1. new = [k EXCEPT !.pc = "seek", !.step = "seek"]
    BY <1>1 DEF Called
  <2>2. new \in ChainSet /\ new.gen = None /\ new.kind = "seek" /\ new.pc = "seek" /\ new.step = "seek"
    BY <1>1, <2>1 DEF ChainSet, SeekSteps
  <2> HIDE DEF new
  <2>3. Shape(new)
    BY <2>2 DEF Shape, SeekShape
  <2> QED BY <1>1, <2>2, <2>3 DEF new
<1>2. CASE p.known /\ k.kind = "play"
  <2>1. new = [k EXCEPT !.pc = "start", !.step = "start"]
    BY <1>2 DEF Called
  <2>2. new \in ChainSet /\ new.gen = None /\ new.kind = "play" /\ new.pc = "start" /\ new.step = "start"
    BY <1>2, <2>1 DEF ChainSet, StartSteps
  <2> HIDE DEF new
  <2>3. Shape(new)
    BY <2>2 DEF Shape, PlayShape
  <2> QED BY <1>2, <2>2, <2>3 DEF new
<1>3. CASE ~p.known
  <2>1. new = [k EXCEPT !.pc = "prepare", !.step = "prepare"]
    BY <1>3 DEF Called
  <2>2. new \in ChainSet /\ new.gen = None /\ new.kind = k.kind /\ new.pc = "prepare" /\ new.step = "prepare"
    BY <2>1 DEF ChainSet, PrepareSteps
  <2> HIDE DEF new
  <2>3. Shape(new)
    BY <2>2 DEF Shape, SeekShape, PlayShape, PrepareSteps
  <2> QED BY <2>2, <2>3 DEF new
<1> QED BY <1>1, <1>2, <1>3

LEMMA RoundType ==
  ASSUME NEW p \in Players, p.pending \in Times
  PROVE  /\ Round(p) \in ChainSet /\ Shape(Round(p)) /\ Round(p).gen = None
         /\ Round(p).kind = "seek" /\ Round(p).pc \in {"prepare", "start", "seek"}
<1> DEFINE k == [NewChain("seek", p.mount) EXCEPT !.target = p.pending, !.request = p.request]
<1>1. k \in ChainSet /\ k.kind = "seek" /\ k.gen = None
  BY DEF NewChain, NoChain, ChainSet, Players, PrepareSteps
<1>2. Round(p) = Called(k, p)
  BY DEF Round
<1> HIDE DEF k
<1> QED BY <1>1, <1>2, CalledShape

\* A chain that is taken up, ends or goes another round.
LEMMA KeptEnds ==
  ASSUME TypeInv, NEW c \in Chains, chain[c].pc # "done", Finish(c), UNCHANGED manager
  PROVE  chain' \in [Chains -> ChainSet] /\ ChainInv'
<1> DEFINE new == [NoChain EXCEPT !.pc = "done"]
<1>1. new \in ChainSet /\ new.gen = None /\ new.pc = "done" /\ chain' = [chain EXCEPT ![c] = new]
  BY ConstantsAssumption DEF NoChain, ChainSet, Finish, Meetings
<1> HIDE DEF new
<1>2. Kept(chain[c], new)
  BY <1>1 DEF Kept, Shape
<1> QED BY <1>1, <1>2, ChainKept DEF TypeInv

LEMMA KeptCalls ==
  ASSUME TypeInv, NEW c \in Chains, NEW k \in ChainSet, UNCHANGED manager,
         chain[c].pc \notin {"done", "unused"}, chain[c].kind # "mount", chain[c].gen = None,
         Shape(k), k.gen = None, k.pc \notin {"done", "unused"}, chain' = [chain EXCEPT ![c] = k]
  PROVE  chain' \in [Chains -> ChainSet] /\ ChainInv'
<1>1. Kept(chain[c], k)
  BY DEF Kept
<1> QED BY <1>1, ChainKept DEF TypeInv

LEMMA KeptStarts ==
  ASSUME TypeInv, NEW c \in Chains, NEW k \in ChainSet, UNCHANGED manager,
         chain[c].pc = "unused", Shape(k), k.gen = None, chain' = [chain EXCEPT ![c] = k]
  PROVE  chain' \in [Chains -> ChainSet] /\ ChainInv'
<1>1. chain[c].gen = None
  BY DEF TypeInv, TypeOK, ChainInv, Shape, MountShape, PlayShape, SeekShape, PrepareSteps,
         SeekSteps, ActivateSteps
<1>2. Kept(chain[c], k)
  BY <1>1 DEF Kept
<1> QED BY <1>2, ChainKept DEF TypeInv

\* The player's controls.
LEMMA StateType ==
  ASSUME TypeOK, NEW k \in {"loading", "paused", "playing"},
         NEW x \in {player.context, "running", "suspended"},
         player' = [player EXCEPT !.state = k, !.context = x]
  PROVE  player' \in Players
<1>1. x \in {"none", "running", "suspended"} /\ player \in Players
  BY DEF TypeOK, Players
<1> QED BY <1>1 DEF Players

LEMMA PlayType ==
  ASSUME TypeInv, Play
  PROVE  TypeInv'
<1> DEFINE k == Called(NewChain("play", player.mount), player)
<1>1. player \in Players /\ player.mount \in Meetings
  BY DEF TypeInv, TypeOK, Players
<1>2. NextChain \in Chains /\ chain[NextChain].pc = "unused"
  BY NextChainIsUnused DEF Play
<1>3. NewChain("play", player.mount) \in ChainSet /\ NewChain("play", player.mount).kind = "play"
      /\ NewChain("play", player.mount).gen = None
  BY <1>1 DEF NewChain, NoChain, ChainSet, PrepareSteps
<1>4. k \in ChainSet /\ Shape(k) /\ k.gen = None
  BY <1>3, CalledShape
<1>5. chain' = [chain EXCEPT ![NextChain] = k] /\ UNCHANGED manager
  BY DEF Play
<1> HIDE DEF k
<1>6. chain' \in [Chains -> ChainSet] /\ ChainInv'
  BY <1>2, <1>4, <1>5, KeptStarts
<1>7. player' \in Players
  <2>1. \/ player' = [player EXCEPT !.state = "loading", !.context = "running"]
        \/ player' = [player EXCEPT !.state = "loading", !.context = player.context]
    BY DEF Play
  <2> QED BY <2>1, StateType DEF TypeInv
<1> QED BY <1>6, <1>7 DEF Play, streaming, TypeInv, TypeOK

LEMMA PauseType ==
  ASSUME TypeInv, Pause
  PROVE  TypeInv'
<1>1. \/ player' = [player EXCEPT !.state = "paused", !.context = player.context]
      \/ player' = [player EXCEPT !.state = "paused", !.context = "suspended"]
      \/ player' = [player EXCEPT !.state = "playing", !.context = player.context]
      \/ player' = [player EXCEPT !.state = "playing", !.context = "running"]
  BY DEF Pause
<1>2. player' \in Players
  BY <1>1, StateType DEF TypeInv
<1>3. ChainInv'
  BY ChainUnchanged DEF TypeInv, Pause, ChainInv
<1> QED BY <1>2, <1>3 DEF Pause, streaming, TypeInv, TypeOK

LEMMA PressStopType ==
  ASSUME TypeInv, PressStop
  PROVE  TypeInv'
<1> DEFINE p == Cleaned(player)
<1>1. p \in Players
  BY PlayerTypes DEF TypeInv, TypeOK
<1>2. player.request + 1 \in Nat
  BY DEF TypeInv, TypeOK, Players
<1>3. p.request = player.request
  BY DEF Cleaned, Cleared, TypeInv, TypeOK, Players
<1>4. player' = [p EXCEPT !.state = "stopped", !.known = FALSE, !.complete = FALSE,
                          !.request = @ + 1, !.pending = None]
  BY DEF PressStop
<1> HIDE DEF p
<1>5. player' \in Players
  BY <1>1, <1>2, <1>3, <1>4 DEF Players
<1>6. ChainInv'
  BY ChainUnchanged DEF TypeInv, PressStop, ChainInv
<1>7. stops' \in Nat
  BY DEF PressStop, TypeInv, TypeOK
<1> QED BY <1>5, <1>6, <1>7 DEF PressStop, streaming, TypeInv, TypeOK

LEMMA SeekToType ==
  ASSUME TypeInv, NEW time \in Times, SeekTo(time)
  PROVE  TypeInv'
<1> DEFINE target == IF player.known /\ time > Duration THEN Duration ELSE time
           p == [player EXCEPT !.request = @ + 1, !.pending = target]
<1>1. target \in Times
  BY DEF Times
<1> HIDE DEF target
<1>2. p \in Players /\ p.pending = target
  <2> DEFINE r == player.request + 1
  <2>1. r \in Nat /\ player \in Players /\ p = [player EXCEPT !.request = r, !.pending = target]
    BY DEF TypeInv, TypeOK, Players
  <2> HIDE DEF r, p
  <2> QED BY <1>1, <2>1 DEF Players
<1> HIDE DEF p
<1>3. CASE player' = p /\ UNCHANGED chain
  <2>1. ChainInv'
    BY <1>3, ChainUnchanged DEF TypeInv, SeekTo, ChainInv
  <2> QED BY <1>2, <1>3, <2>1 DEF SeekTo, streaming, TypeInv, TypeOK
<1>4. CASE /\ Unused # {}
           /\ player' = TakeTarget(p)
           /\ chain' = [chain EXCEPT ![NextChain] = Round(p)]
  <2>1. TakeTarget(p) \in Players
    BY <1>2, PlayerTypes
  <2>2. NextChain \in Chains /\ chain[NextChain].pc = "unused"
    BY <1>4, NextChainIsUnused
  <2>3. Round(p) \in ChainSet /\ Shape(Round(p)) /\ Round(p).gen = None
    BY <1>1, <1>2, RoundType
  <2>4. chain' \in [Chains -> ChainSet] /\ ChainInv'
    BY <1>4, <2>2, <2>3, KeptStarts DEF SeekTo
  <2> QED BY <1>4, <2>1, <2>4 DEF SeekTo, streaming, TypeInv, TypeOK
<1> QED BY <1>3, <1>4 DEF SeekTo, p, target

LEMMA RemountType ==
  ASSUME TypeInv, Remount
  PROVE  TypeInv'
<1> DEFINE m == player.mount + 1
           k == NewChain("mount", m)
<1>1. m \in Meetings /\ player' = Mounted(m) /\ chain' = [chain EXCEPT ![NextChain] = k]
  BY DEF Remount
<1>2. NextChain \in Chains /\ chain[NextChain].pc = "unused"
  BY NextChainIsUnused DEF Remount
<1> HIDE DEF m
<1>3. k \in ChainSet /\ k.gen = None /\ k.kind = "mount" /\ k.pc = "prepare" /\ k.step = "prepare"
  BY <1>1 DEF NewChain, NoChain, ChainSet, PrepareSteps
<1> HIDE DEF k
<1>4. Shape(k)
  BY <1>3 DEF Shape, MountShape, PrepareSteps
<1>5. chain' \in [Chains -> ChainSet] /\ ChainInv'
  BY <1>1, <1>2, <1>3, <1>4, KeptStarts DEF Remount
<1>6. player' \in Players /\ stops' \in Nat
  BY <1>1, MountedType DEF Remount, TypeInv, TypeOK
<1> QED BY <1>5, <1>6 DEF Remount, streaming, TypeInv, TypeOK

LEMMA SourceType ==
  ASSUME TypeInv, SourceEnds \/ StraySourceEnds
  PROVE  TypeInv'
<1>1. player' \in Players
  <2>1. CASE SourceEnds
    <3> DEFINE n == player.sources - 1
    <3>1. n \in Nat /\ player \in Players /\ player' = Finished([player EXCEPT !.sources = n])
      BY <2>1 DEF SourceEnds, TypeInv, TypeOK, Players
    <3> HIDE DEF n
    <3>2. [player EXCEPT !.sources = n] \in Players
      BY <3>1 DEF Players
    <3> QED BY <3>1, <3>2, PlayerTypes
  <2>2. CASE StraySourceEnds
    <3>1. [player EXCEPT !.stray = FALSE] \in Players
      BY DEF TypeInv, TypeOK, Players
    <3> QED BY <2>2, <3>1, PlayerTypes DEF StraySourceEnds
  <2> QED BY <2>1, <2>2
<1>2. ChainInv'
  BY ChainUnchanged DEF TypeInv, SourceEnds, StraySourceEnds, ChainInv
<1> QED BY <1>1, <1>2 DEF SourceEnds, StraySourceEnds, streaming, TypeInv, TypeOK

LEMMA DeleteAudioType ==
  ASSUME TypeInv, NEW m \in Meetings, DeleteAudio(m)
  PROVE  TypeInv'
<1>1. audio' \in [Meetings -> {"whole", "removed", "deleted"}]
  BY DEF DeleteAudio, TypeInv, TypeOK
<1>2. failures' \in 0 .. MaxDisturbances
  BY FailsType DEF DeleteAudio, TypeInv
<1>3. ChainInv'
  BY ChainUnchanged DEF TypeInv, DeleteAudio, window, ChainInv
<1> QED BY <1>1, <1>2, <1>3 DEF DeleteAudio, streaming, window, TypeInv, TypeOK

\* The answers.
LEMMA AnswerGoneType ==
  ASSUME TypeInv, NEW c \in Chains, AnswerGone(c)
  PROVE  TypeInv'
<1>1. chain[c].pc \in {"ok", "err"} /\ Shape(chain[c]) /\ chain[c] \in ChainSet
  BY DEF AnswerGone, TypeInv, TypeOK, ChainInv
<1>2. CASE /\ chain[c].pc = "ok" /\ chain[c].step = "start"
           /\ chain' = [chain EXCEPT ![c].pc = "activate", ![c].step = "activate"]
  <2> DEFINE old == chain[c]
             new == [old EXCEPT !.pc = "activate", !.step = "activate"]
  <2>1. chain' = [chain EXCEPT ![c] = new]
    BY <1>2
  <2>2. old.kind = "play" /\ old.gen # None
    BY <1>1, <1>2 DEF Shape, MountShape, PlayShape, SeekShape, PrepareSteps
  <2>3. /\ new \in ChainSet /\ new.gen = old.gen /\ new.kind = "play" /\ new.pc = "activate"
        /\ new.step = "activate"
    BY <1>1, <2>2 DEF ChainSet, ActivateSteps
  <2> HIDE DEF new
  <2>4. Kept(old, new)
    BY <1>2, <2>2, <2>3 DEF Kept, Shape, PlayShape, ActivateSteps
  <2>5. UNCHANGED manager
    BY DEF AnswerGone
  <2>6. chain' \in [Chains -> ChainSet] /\ ChainInv'
    BY <2>1, <2>4, <2>5, ChainKept DEF TypeInv
  <2> QED BY <1>2, <2>6 DEF AnswerGone, TypeInv, TypeOK, streaming
<1>3. CASE Finish(c)
  <2>1. chain' \in [Chains -> ChainSet] /\ ChainInv'
    BY <1>1, <1>3, KeptEnds DEF AnswerGone
  <2> QED BY <2>1 DEF AnswerGone, TypeInv, TypeOK, streaming
<1> QED BY <1>2, <1>3 DEF AnswerGone, At

LEMMA AnswerMountType ==
  ASSUME TypeInv, NEW c \in Chains, AnswerMount(c)
  PROVE  TypeInv'
<1>1. chain' \in [Chains -> ChainSet] /\ ChainInv'
  BY KeptEnds DEF AnswerMount
<1>2. player' \in Players /\ stops' \in Nat
  BY PlayerTypes DEF AnswerMount, PlayerFails, TypeInv, TypeOK
<1> QED BY <1>1, <1>2 DEF AnswerMount, streaming, TypeInv, TypeOK

LEMMA AnswerPlayType ==
  ASSUME TypeInv, NEW c \in Chains, AnswerPlay(c)
  PROVE  TypeInv'
<1> DEFINE old == chain[c]
<1>1. old \in ChainSet /\ Shape(old) /\ old.kind = "play" /\ old.pc \in {"ok", "err"}
      /\ player \in Players
  BY DEF AnswerPlay, TypeInv, TypeOK, ChainInv
<1>2. CASE Finish(c)
  <2>1. chain' \in [Chains -> ChainSet] /\ ChainInv'
    BY <1>1, <1>2, KeptEnds DEF AnswerPlay
  <2>2. CASE PlayerFails
    BY <2>1, <2>2, PlayerTypes DEF AnswerPlay, PlayerFails, streaming, TypeInv, TypeOK
  <2>3. CASE UNCHANGED <<player, stops>>
    BY <2>1, <2>3 DEF AnswerPlay, streaming, TypeInv, TypeOK
  <2>4. CASE old.pc = "ok" /\ old.step = "prepare" /\ player' = Known(player) /\ UNCHANGED stops
    BY <2>1, <2>4, PlayerTypes DEF AnswerPlay, streaming, TypeInv, TypeOK
  <2>5. CASE old.pc = "ok" /\ old.step = "start" /\ UNCHANGED stops
             /\ player' = [player EXCEPT !.gen = old.gen, !.state = "playing", !.complete = FALSE]
    <3>1. player' \in Players
      BY <1>1, <2>5 DEF Players, ChainSet
    <3> QED BY <2>1, <2>5, <3>1 DEF AnswerPlay, streaming, TypeInv, TypeOK
  <2> QED BY <2>2, <2>3, <2>4, <2>5 DEF AnswerPlay
<1>3. CASE /\ old.pc = "ok" /\ old.step = "prepare"
           /\ player' = Known(player)
           /\ chain' = [chain EXCEPT ![c] = Called(old, Known(player))]
           /\ UNCHANGED stops
  <2> DEFINE k == Called(old, Known(player))
  <2>1. old.gen = None
    BY <1>1, <1>3 DEF Shape, PlayShape, MountShape, SeekShape
  <2>2. k \in ChainSet /\ Shape(k) /\ k.gen = None /\ k.pc \notin {"done", "unused"}
    BY <1>1, <2>1, CalledShape
  <2> HIDE DEF k
  <2>3. chain' = [chain EXCEPT ![c] = k] /\ UNCHANGED manager
    BY <1>3 DEF k, AnswerPlay
  <2>4. chain' \in [Chains -> ChainSet] /\ ChainInv'
    BY <1>1, <2>1, <2>2, <2>3, KeptCalls
  <2> QED BY <1>3, <2>4, PlayerTypes DEF AnswerPlay, streaming, TypeInv, TypeOK
<1>4. CASE /\ old.pc = "ok" /\ old.step = "start"
           /\ player' = [player EXCEPT !.gen = old.gen, !.state = "playing", !.complete = FALSE]
           /\ chain' = [chain EXCEPT ![c].pc = "activate", ![c].step = "activate"]
           /\ UNCHANGED stops
  <2> DEFINE new == [old EXCEPT !.pc = "activate", !.step = "activate"]
  <2>1. chain' = [chain EXCEPT ![c] = new]
    BY <1>4
  <2>2. old.gen # None
    BY <1>1, <1>4 DEF Shape, MountShape, PlayShape, SeekShape, PrepareSteps
  <2>3. /\ new \in ChainSet /\ new.gen = old.gen /\ new.kind = "play" /\ new.pc = "activate"
        /\ new.step = "activate"
    BY <1>1, <2>2 DEF ChainSet, ActivateSteps
  <2> HIDE DEF new
  <2>4. Kept(old, new)
    BY <1>1, <1>4, <2>2, <2>3 DEF Kept, Shape, PlayShape, ActivateSteps
  <2>5. UNCHANGED manager
    BY DEF AnswerPlay
  <2>6. chain' \in [Chains -> ChainSet] /\ ChainInv'
    BY <2>1, <2>4, <2>5, ChainKept DEF TypeInv
  <2>7. player' \in Players
    BY <1>1, <1>4 DEF Players, ChainSet
  <2> QED BY <1>4, <2>6, <2>7 DEF AnswerPlay, streaming, TypeInv, TypeOK
<1> QED BY <1>2, <1>3, <1>4 DEF AnswerPlay

LEMMA AnswerSeekType ==
  ASSUME TypeInv, NEW c \in Chains, AnswerSeek(c)
  PROVE  TypeInv'
<1> DEFINE old == chain[c]
           p == AfterSeek(c)
<1>1. old \in ChainSet /\ Shape(old) /\ old.kind = "seek" /\ old.pc \in {"ok", "err"}
      /\ player \in Players /\ old.gen = None /\ UNCHANGED manager
  BY DEF AnswerSeek, TypeInv, TypeOK, ChainInv, Shape, MountShape, PlayShape, SeekShape
<1>2. CASE Finish(c) /\ UNCHANGED <<player, stops>>
  <2>1. chain' \in [Chains -> ChainSet] /\ ChainInv'
    BY <1>1, <1>2, KeptEnds
  <2> QED BY <1>2, <2>1 DEF AnswerSeek, streaming, TypeInv, TypeOK
<1>3. CASE /\ player' = Known(player)
           /\ chain' = [chain EXCEPT ![c] = Called(old, Known(player))]
           /\ UNCHANGED stops
  <2> DEFINE k == Called(old, Known(player))
  <2>1. k \in ChainSet /\ Shape(k) /\ k.gen = None /\ k.pc \notin {"done", "unused"}
    BY <1>1, CalledShape
  <2> HIDE DEF k
  <2>2. chain' = [chain EXCEPT ![c] = k]
    BY <1>3 DEF k
  <2>3. chain' \in [Chains -> ChainSet] /\ ChainInv'
    BY <1>1, <2>1, <2>2, KeptCalls
  <2> QED BY <1>3, <2>3, PlayerTypes DEF AnswerSeek, streaming, TypeInv, TypeOK
<1>4. p \in Players
  <2>1. [player EXCEPT !.gen = None, !.state = "ended", !.complete = TRUE] \in Players
    BY <1>1 DEF Players
  <2> QED BY <1>1, <2>1, PlayerTypes DEF AfterSeek
<1> HIDE DEF p
<1>5. CASE /\ stops' = IF old.pc = "err" /\ old.request = player.request THEN stops + 1 ELSE stops
           /\ p.pending # None /\ player' = TakeTarget(p) /\ chain' = [chain EXCEPT ![c] = Round(p)]
  <2>1. p.pending \in Times
    BY <1>4, <1>5 DEF Players
  <2>2. Round(p) \in ChainSet /\ Shape(Round(p)) /\ Round(p).gen = None
        /\ Round(p).pc \notin {"done", "unused"}
    BY <1>4, <2>1, RoundType
  <2>3. chain' \in [Chains -> ChainSet] /\ ChainInv'
    BY <1>1, <1>5, <2>2, KeptCalls
  <2>4. player' \in Players
    BY <1>4, <1>5, PlayerTypes
  <2>5. stops' \in Nat
    BY <1>5 DEF TypeInv, TypeOK
  <2> QED BY <2>3, <2>4, <2>5 DEF AnswerSeek, streaming, TypeInv, TypeOK
<1>6. CASE /\ stops' = IF old.pc = "err" /\ old.request = player.request THEN stops + 1 ELSE stops
           /\ player' = [p EXCEPT !.worker = FALSE] /\ Finish(c)
  <2>1. chain' \in [Chains -> ChainSet] /\ ChainInv'
    BY <1>1, <1>6, KeptEnds
  <2>2. player' \in Players
    BY <1>4, <1>6 DEF Players
  <2>3. stops' \in Nat
    BY <1>6 DEF TypeInv, TypeOK
  <2> QED BY <2>1, <2>2, <2>3 DEF AnswerSeek, streaming, TypeInv, TypeOK
<1> QED BY <1>2, <1>3, <1>5, <1>6 DEF AnswerSeek, At, p

LEMMA TypeInvStep == TypeInv /\ [Next]_vars => TypeInv'
<1> SUFFICES ASSUME TypeInv, [Next]_vars PROVE TypeInv'
  OBVIOUS
<1>1. CASE UNCHANGED vars
  <2>1. ChainInv'
    BY <1>1, ChainUnchanged DEF TypeInv, vars, ChainInv
  <2> QED BY <1>1, <2>1 DEF vars, TypeInv, TypeOK
<1>2. ASSUME NEW c \in Chains, Manage(c) PROVE TypeInv'
  BY <1>2, PrepareType, StartType, ConnectType, LaunchType, ActivateType, ResolveType DEF Manage
<1>3. ASSUME NEW c \in Chains, AnswerPlayer(c) PROVE TypeInv'
  BY <1>3, AnswerGoneType, AnswerMountType, AnswerPlayType, AnswerSeekType DEF AnswerPlayer
<1>4. ASSUME NEW g \in Generations, Consume(g) \/ Pump(g) PROVE TypeInv'
  BY <1>4, ReadFrameType, FinishStreamType, EmitChunkType, CloseType, FinishPumpType
     DEF Consume, Pump
<1> QED
  BY <1>1, <1>2, <1>3, <1>4, DeleteAudioType, StopType, PlayType, PauseType, PressStopType,
     RemountType, SeekToType, SourceType DEF Next

\* Every variable stays in its range, whatever the recording and the bounds: the
\* channel never holds more than its capacity, a generation is never used twice.
THEOREM TypeCorrect == Spec => []TypeOK
<1>1. TypeInv => TypeOK
  BY DEF TypeInv
<1> QED BY <1>1, InitTypeInv, TypeInvStep, PTL DEF Spec

-----------------------------------------------------------------------------
(* Chains whose stream has no pump yet *)

\* From the connection of its stream until the pump is activated.
Waiting(c) ==
  \/ chain[c].pc \in {"launch", "activate"}
  \/ chain[c].pc = "ok" /\ chain[c].step = "start"

LEMMA WaitingGen ==
  ASSUME TypeInv, NEW c \in Chains, Waiting(c)
  PROVE  /\ chain[c].gen \in Generations /\ chain[c].gen <= manager.opened
         /\ chain[c].pc = "launch" => chain[c].step = "start" /\ chain[c].meeting \in Meetings
<1>1. Shape(chain[c]) /\ chain[c] \in ChainSet
  BY DEF TypeInv, TypeOK, ChainInv
<1>2. chain[c].gen # None /\ (chain[c].pc = "launch" => chain[c].step = "start" /\ chain[c].meeting # None)
  BY <1>1 DEF Waiting, Shape, MountShape, PlayShape, SeekShape, PrepareSteps, SeekSteps, ActivateSteps
<1> QED BY <1>1, <1>2 DEF ChainSet, TypeInv, ChainInv

\* A chain waits because it has just connected, launched its stream, or been
\* answered, and no other chain waits for its stream.
LEMMA WaitingFrom ==
  ASSUME TypeInv, Next, NEW c \in Chains, Waiting(c)'
  PROVE  \/ Connect(c) /\ chain'[c].pc = "launch"
         \/ Launch(c) /\ chain'[c].pc = "ok" /\ chain'[c].gen = chain[c].gen
         \/ /\ Waiting(c) /\ chain[c].pc # "launch" /\ chain'[c].pc # "launch"
            /\ chain'[c].gen = chain[c].gen
         \/ chain'[c] = chain[c]
<1>1. chain \in [Chains -> ChainSet] /\ \A d \in Chains : Shape(chain[d])
  BY DEF TypeInv, TypeOK, ChainInv
<1>2. CASE UNCHANGED chain
  BY <1>2
<1>3. ASSUME NEW d \in Chains, NEW k, chain' = [chain EXCEPT ![d] = k],
             d = c => k.pc \notin {"launch", "activate"} /\ ~(k.pc = "ok" /\ k.step = "start")
      PROVE  chain'[c] = chain[c]
  BY <1>1, <1>3 DEF Waiting
<1>4. ASSUME NEW d \in Chains, NEW k, Go(d, k), k \notin {"launch", "activate"},
             k = "ok" => chain[d].step # "start"
      PROVE  chain'[c] = chain[c]
  <2>1. chain' = [chain EXCEPT ![d] = [chain[d] EXCEPT !.pc = k]]
    BY <1>4 DEF Go
  <2>2. [chain[d] EXCEPT !.pc = k].pc = k /\ [chain[d] EXCEPT !.pc = k].step = chain[d].step
    BY <1>1 DEF ChainSet
  <2> QED BY <1>3, <1>4, <2>1, <2>2
<1>5. ASSUME NEW d \in Chains, Manage(d)
      PROVE  \/ Connect(c) /\ chain'[c].pc = "launch"
             \/ Launch(c) /\ chain'[c].pc = "ok" /\ chain'[c].gen = chain[c].gen
             \/ chain'[c] = chain[c]
  <2>1. Shape(chain[d]) /\ chain[d] \in ChainSet
    BY <1>1
  <2>2. CASE Prepare(d) \/ Fetch(d) \/ Settle(d) \/ Activate(d) \/ Register(d) \/ Resolve(d)
    <3>1. chain[d].step # "start"
      BY <2>1, <2>2 DEF Prepare, Fetch, Settle, Activate, Register, Resolve, At, Shape, MountShape,
             PlayShape, SeekShape, PrepareSteps, SeekSteps, ActivateSteps
    <3>2. \/ Go(d, "fetch") \/ Go(d, "settle") \/ Go(d, "ok") \/ Go(d, "err") \/ Go(d, "register")
      BY <2>2 DEF Prepare, Fetch, Settle, Activate, Register, Resolve
    <3> QED BY <1>4, <3>1, <3>2
  <2>3. CASE Start(d) \/ Seek(d)
    <3>1. CASE Go(d, "err")
      BY <1>4, <3>1
    <3>2. ASSUME NEW k \in {"connect", "resolve"}, NEW m,
                 chain' = [chain EXCEPT ![d].pc = k, ![d].meeting = m]
          PROVE  chain'[c] = chain[c]
      <4> DEFINE new == [chain[d] EXCEPT !.pc = k, !.meeting = m]
      <4>1. chain' = [chain EXCEPT ![d] = new]
        BY <3>2
      <4>2. new.pc = k
        BY <2>1 DEF ChainSet
      <4> HIDE DEF new
      <4> QED BY <1>3, <4>1, <4>2
    <3> QED BY <2>3, <3>1, <3>2 DEF Start, Seek
  <2>4. CASE Connect(d)
    <3>1. CASE Go(d, "err")
      BY <1>4, <3>1
    <3>2. CASE chain' = [chain EXCEPT ![d].pc = "launch", ![d].gen = NextGeneration]
      <4> DEFINE new == [chain[d] EXCEPT !.pc = "launch", !.gen = NextGeneration]
      <4>1. chain' = [chain EXCEPT ![d] = new] /\ new.pc = "launch"
        BY <2>1, <3>2 DEF ChainSet
      <4> HIDE DEF new
      <4> QED BY <1>1, <2>4, <4>1
    <3> QED BY <2>4, <3>1, <3>2 DEF Connect
  <2>5. CASE Launch(d)
    <3>1. CASE Go(d, "err")
      BY <1>4, <3>1
    <3>2. CASE chain' = [chain EXCEPT ![d].pc = "ok", ![d].meeting = None]
      <4> DEFINE new == [chain[d] EXCEPT !.pc = "ok", !.meeting = None]
      <4>1. chain' = [chain EXCEPT ![d] = new] /\ new.pc = "ok" /\ new.gen = chain[d].gen
        BY <2>1, <3>2 DEF ChainSet
      <4> HIDE DEF new
      <4> QED BY <1>1, <2>5, <4>1
    <3> QED BY <2>5, <3>1, <3>2 DEF Launch
  <2> QED BY <1>5, <2>2, <2>3, <2>4, <2>5 DEF Manage
<1>6. ASSUME NEW d \in Chains, Finish(d)
      PROVE  chain'[c] = chain[c]
  <2>1. [NoChain EXCEPT !.pc = "done"].pc = "done"
    BY DEF NoChain
  <2> QED BY <1>3, <1>6, <2>1 DEF Finish
<1>7. ASSUME NEW d \in Chains, chain[d].pc = "ok", chain[d].step = "start",
             chain' = [chain EXCEPT ![d].pc = "activate", ![d].step = "activate"]
      PROVE  \/ /\ Waiting(c) /\ chain[c].pc # "launch" /\ chain'[c].pc # "launch"
                /\ chain'[c].gen = chain[c].gen
             \/ chain'[c] = chain[c]
  <2> DEFINE new == [chain[d] EXCEPT !.pc = "activate", !.step = "activate"]
  <2>1. chain' = [chain EXCEPT ![d] = new] /\ new.pc = "activate" /\ new.gen = chain[d].gen
    BY <1>1, <1>7 DEF ChainSet
  <2> HIDE DEF new
  <2> QED BY <1>1, <1>7, <2>1 DEF Waiting
<1>8. ASSUME NEW d \in Chains, NEW k \in ChainSet, chain' = [chain EXCEPT ![d] = k],
             k.pc \in {"prepare", "start", "seek"}
      PROVE  chain'[c] = chain[c]
  BY <1>3, <1>8
<1>9. ASSUME NEW d \in Chains, AnswerPlayer(d)
      PROVE  \/ /\ Waiting(c) /\ chain[c].pc # "launch" /\ chain'[c].pc # "launch"
                /\ chain'[c].gen = chain[c].gen
             \/ chain'[c] = chain[c]
  <2>1. Shape(chain[d]) /\ chain[d] \in ChainSet /\ player \in Players
    BY <1>1 DEF TypeInv, TypeOK
  <2>2. CASE AnswerGone(d) \/ AnswerMount(d)
    BY <1>6, <1>7, <2>2 DEF AnswerGone, AnswerMount, At
  <2>3. CASE AnswerPlay(d)
    <3>1. CASE chain[d].pc = "ok" /\ chain[d].step = "prepare"
                /\ chain' = [chain EXCEPT ![d] = Called(chain[d], Known(player))]
      <4>1. chain[d].kind = "play" /\ chain[d].gen = None
        BY <2>1, <2>3, <3>1 DEF AnswerPlay, Shape, PlayShape, MountShape, SeekShape
      <4>2. Called(chain[d], Known(player)) \in ChainSet
            /\ Called(chain[d], Known(player)).pc \in {"prepare", "start", "seek"}
        BY <2>1, <4>1, CalledShape
      <4> QED BY <1>8, <3>1, <4>2
    <3> QED BY <1>6, <1>7, <2>3, <3>1 DEF AnswerPlay
  <2>4. CASE AnswerSeek(d)
    <3>1. chain[d].kind = "seek" /\ chain[d].gen = None
      BY <2>1, <2>4 DEF AnswerSeek, Shape, PlayShape, MountShape, SeekShape
    <3>2. CASE chain' = [chain EXCEPT ![d] = Called(chain[d], Known(player))]
      <4>1. Called(chain[d], Known(player)) \in ChainSet
            /\ Called(chain[d], Known(player)).pc \in {"prepare", "start", "seek"}
        BY <2>1, <3>1, CalledShape
      <4> QED BY <1>8, <3>2, <4>1
    <3>3. CASE AfterSeek(d).pending # None /\ chain' = [chain EXCEPT ![d] = Round(AfterSeek(d))]
      <4>1. AfterSeek(d) \in Players
        <5>1. [player EXCEPT !.gen = None, !.state = "ended", !.complete = TRUE] \in Players
          BY <2>1 DEF Players
        <5> QED BY <2>1, <5>1, PlayerTypes DEF AfterSeek
      <4>2. AfterSeek(d).pending \in Times
        BY <3>3, <4>1 DEF Players
      <4>3. Round(AfterSeek(d)) \in ChainSet /\ Round(AfterSeek(d)).pc \in {"prepare", "start", "seek"}
        BY <4>1, <4>2, RoundType
      <4> QED BY <1>8, <3>3, <4>3
    <3> QED BY <1>6, <2>4, <3>2, <3>3 DEF AnswerSeek
  <2> QED BY <1>9, <2>2, <2>3, <2>4 DEF AnswerPlayer
<1>10. CASE Play \/ Remount
  <2>1. NextChain \in Chains /\ chain[NextChain].pc = "unused" /\ player.mount \in Meetings
    BY <1>10, NextChainIsUnused DEF Play, Remount, TypeInv, TypeOK, Players
  <2>2. ASSUME NEW kind \in {"mount", "play"}, NEW m \in Meetings
        PROVE  /\ NewChain(kind, m) \in ChainSet /\ NewChain(kind, m).gen = None
               /\ NewChain(kind, m).kind = kind /\ NewChain(kind, m).pc = "prepare"
    BY DEF NewChain, NoChain, ChainSet, PrepareSteps
  <2>3. Called(NewChain("play", player.mount), player) \in ChainSet
        /\ Called(NewChain("play", player.mount), player).pc \in {"prepare", "start", "seek"}
    BY <2>1, <2>2, CalledShape
  <2> QED BY <1>8, <1>10, <2>1, <2>2, <2>3 DEF Play, Remount
<1>11. ASSUME NEW time \in Times, SeekTo(time)
       PROVE  chain'[c] = chain[c]
  <2> DEFINE target == IF player.known /\ time > Duration THEN Duration ELSE time
             p == [player EXCEPT !.request = @ + 1, !.pending = target]
  <2>1. target \in Times
    BY DEF Times
  <2> HIDE DEF target
  <2>2. p \in Players /\ p.pending = target
    <3> DEFINE r == player.request + 1
    <3>1. r \in Nat /\ player \in Players /\ p = [player EXCEPT !.request = r, !.pending = target]
      BY DEF TypeInv, TypeOK, Players
    <3> HIDE DEF r, p
    <3> QED BY <2>1, <3>1 DEF Players
  <2> HIDE DEF p
  <2>3. Round(p) \in ChainSet /\ Round(p).pc \in {"prepare", "start", "seek"}
    BY <2>1, <2>2, RoundType
  <2>4. CASE Unused # {} /\ chain' = [chain EXCEPT ![NextChain] = Round(p)]
    BY <1>8, <2>3, <2>4, NextChainIsUnused
  <2> QED BY <1>11, <2>4 DEF SeekTo, p, target
<1>12. \/ UNCHANGED chain \/ Play \/ Remount \/ \E time \in Times : SeekTo(time)
       \/ \E d \in Chains : Manage(d) \/ AnswerPlayer(d)
  BY DEF Next, DeleteAudio, Consume, Pump, ReadFrame, FinishStream, EmitChunk, Close, FinishPump,
         Stop, Pause, PressStop, SourceEnds, StraySourceEnds, window
<1> QED BY <1>2, <1>5, <1>9, <1>10, <1>11, <1>12

-----------------------------------------------------------------------------
(* One stream *)

\* The reader that runs is the one the manager holds, its generation is the one
\* that counts, and nothing is started before the handle is gone.
HandleInv ==
  /\ manager.task # None => manager.task = manager.gen
  /\ manager.state = "starting" => manager.task = None
  /\ \A g \in Generations : task[g].pc # "none" <=> manager.task = g
  /\ \A c \in Chains : chain[c].pc = "launch" => manager.task # chain[c].gen

LEMMA LaunchFrom ==
  ASSUME TypeInv, Next, NEW c \in Chains, chain'[c].pc = "launch"
  PROVE  Connect(c) \/ (chain[c].pc = "launch" /\ chain'[c].gen = chain[c].gen)
<1>1. Waiting(c)'
  BY DEF Waiting
<1> QED BY <1>1, WaitingFrom

LEMMA InitHandleInv == Init => HandleInv
<1> SUFFICES ASSUME Init PROVE HandleInv
  OBVIOUS
<1>1. manager.task = None /\ manager.state = "idle" /\ None \notin Generations
  BY ConstantsAssumption DEF Init, Generations
<1>2. \A g \in Generations : task[g].pc = "none"
  BY DEF Init, NoTask
<1>3. \A c \in Chains : chain[c].pc # "launch"
  BY DEF Init, NewChain, NoChain
<1> QED BY <1>1, <1>2, <1>3 DEF HandleInv

LEMMA ConnectHandle ==
  ASSUME TypeInv, HandleInv, NEW c \in Chains, Connect(c)
  PROVE  HandleInv'
<1>1. manager \in Managers /\ None \notin Generations /\ manager.opened \in Nat /\ UNCHANGED task
  BY ConstantsAssumption DEF TypeInv, TypeOK, Managers, Generations, Connect
<1>2. TypeInv' /\ Next
  <2>1. Next
    BY DEF Next, Manage
  <2> QED BY <2>1, TypeInvStep
<1>3. CASE Go(c, "err") /\ (UNCHANGED manager \/ manager' = [manager EXCEPT !.state = "failed"])
  <2>1. /\ manager'.task = manager.task /\ manager'.gen = manager.gen
        /\ manager'.state \in {manager.state, "failed"}
    BY <1>1, <1>3 DEF Managers
  <2>2. \A d \in Chains : chain'[d].pc = "launch" => chain'[d] = chain[d]
    BY <1>3 DEF Go, TypeInv, TypeOK, ChainSet
  <2> QED BY <1>1, <2>1, <2>2 DEF HandleInv
<1>4. CASE /\ manager.state = "starting"
           /\ manager' = [manager EXCEPT !.gen = NextGeneration, !.opened = NextGeneration,
                                         !.state = "streaming", !.receiver = NextGeneration]
  <2>1. manager'.task = None /\ manager.task = None /\ manager'.state = "streaming"
    BY <1>1, <1>4 DEF Managers, HandleInv
  <2>2. \A d \in Chains : chain'[d].pc = "launch" => chain'[d].gen # None
    BY <1>2 DEF TypeInv, ChainInv, Shape, MountShape, PlayShape, SeekShape, PrepareSteps,
                SeekSteps, ActivateSteps
  <2> QED BY <1>1, <2>1, <2>2 DEF HandleInv
<1> QED BY <1>3, <1>4 DEF Connect

\* Steps that leave the handle, the generation and the readers as they are.
LEMMA HandleKept ==
  ASSUME TypeInv, HandleInv, Next, \A c \in Chains : ~Connect(c),
         manager'.task = manager.task, manager'.gen = manager.gen,
         manager'.state = "starting" => manager.state = "starting" \/ manager.task = None,
         \A g \in Generations : task'[g].pc = "none" <=> task[g].pc = "none"
  PROVE  HandleInv'
<1>1. \A c \in Chains : chain'[c].pc = "launch" => chain[c].pc = "launch" /\ chain'[c].gen = chain[c].gen
  BY LaunchFrom
<1> QED BY <1>1 DEF HandleInv

LEMMA ManageHandle ==
  ASSUME TypeInv, HandleInv, NEW c \in Chains, Manage(c), \A d \in Chains : ~Connect(d)
  PROVE  HandleInv'
<1>1. manager \in Managers /\ None \notin Generations /\ Next
  BY ConstantsAssumption DEF TypeInv, TypeOK, Generations, Next
<1>2. CASE Prepare(c) \/ Fetch(c) \/ Settle(c) \/ Start(c) \/ Seek(c) \/ Activate(c) \/ Register(c)
  <2>1. UNCHANGED task
    BY <1>2 DEF Prepare, Fetch, Settle, Start, Seek, Activate, Register, streaming
  <2>2. /\ manager'.task = manager.task /\ manager'.gen = manager.gen
        /\ manager'.state = "starting" => manager.state = "starting" \/ manager.task = None
    <3>1. \/ UNCHANGED manager
          \/ manager' = [manager EXCEPT !.state = "loading"]
          \/ manager' = [manager EXCEPT !.state = "ready"]
          \/ manager' = [manager EXCEPT !.state = "failed"]
          \/ manager' = [manager EXCEPT !.state = "ready", !.meeting = chain[c].mount]
          \/ manager' = [manager EXCEPT !.state = "starting"] /\ manager.task = None
          \/ manager' = [manager EXCEPT !.pump = chain[c].gen]
      BY <1>2 DEF Prepare, Fetch, Settle, Start, MayStart, Seek, Activate, Register
    <3> QED BY <1>1, <3>1 DEF Managers
  <2> QED BY <1>1, <2>1, <2>2, HandleKept
<1>3. CASE Launch(c)
  <2> DEFINE g == chain[c].gen
  <2>1. g \in Generations /\ chain[c].pc = "launch"
    BY <1>3, WaitingGen DEF Launch, At, Waiting
  <2>2. CASE Go(c, "err") /\ UNCHANGED <<manager, task, stream>>
    BY <1>1, <2>2, HandleKept
  <2>3. CASE /\ manager.gen = g /\ manager.state = "streaming"
             /\ manager' = [manager EXCEPT !.task = g]
             /\ task' = [task EXCEPT ![g] = [NoTask EXCEPT !.pc = "consuming"]]
             /\ chain' = [chain EXCEPT ![c].pc = "ok", ![c].meeting = None]
    <3>1. manager.task = None
      BY <2>1, <2>3 DEF HandleInv
    <3>2. manager'.task = g /\ manager'.gen = g /\ manager'.state = "streaming"
      BY <1>1, <2>3 DEF Managers
    <3>3. \A h \in Generations : task'[h].pc # "none" <=> h = g
      <4>1. [NoTask EXCEPT !.pc = "consuming"].pc = "consuming"
        BY DEF NoTask
      <4>2. \A h \in Generations : task[h].pc = "none"
        BY <1>1, <3>1 DEF HandleInv
      <4> QED BY <2>1, <2>3, <4>1, <4>2 DEF TypeInv, TypeOK
    <3>4. \A d \in Chains : chain'[d].pc = "launch" => chain'[d] = chain[d] /\ d # c
      BY <2>3 DEF TypeInv, TypeOK, ChainSet
    <3>5. \A d \in Chains : chain'[d].pc = "launch" => chain'[d].gen # g
      BY <2>1, <3>4, ConstantsAssumption DEF TypeInv, ChainInv, Generations
    <3> QED BY <3>2, <3>3, <3>5 DEF HandleInv
  <2> QED BY <1>3, <2>2, <2>3 DEF Launch
<1>4. CASE Resolve(c)
  <2>1. CASE UNCHANGED <<manager, streaming>>
    BY <1>1, <2>1, HandleKept DEF streaming
  <2>2. CASE /\ manager' = [manager EXCEPT !.gen = None, !.task = None, !.pump = None,
                                           !.receiver = None,
                                           !.state = IF manager.meeting # None THEN "ready" ELSE @]
             /\ Aborted
    <3>1. manager'.task = None
      BY <1>1, <2>2 DEF Managers
    <3>2. \A g \in Generations : task'[g].pc = "none"
      BY <2>2 DEF Aborted, Forgotten, NoTask, HandleInv
    <3>3. \A d \in Chains : chain'[d].pc = "launch" => chain'[d].gen # None
      <4>1. TypeInv'
        BY <1>1, TypeInvStep
      <4> QED BY <4>1 DEF TypeInv, ChainInv, Shape, MountShape, PlayShape, SeekShape, PrepareSteps,
                SeekSteps, ActivateSteps
    <3> QED BY <1>1, <3>1, <3>2, <3>3 DEF HandleInv
  <2> QED BY <1>4, <2>1, <2>2 DEF Resolve
<1> QED BY <1>2, <1>3, <1>4 DEF Manage

LEMMA StreamHandle ==
  ASSUME TypeInv, HandleInv, NEW g \in Generations, Consume(g) \/ Pump(g),
         \A d \in Chains : ~Connect(d)
  PROVE  HandleInv'
<1>1. manager \in Managers /\ None \notin Generations /\ Next
  BY ConstantsAssumption DEF TypeInv, TypeOK, Generations, Next
<1>2. CASE ReadFrame(g)
  <2>1. UNCHANGED manager /\ task[g].pc = "consuming"
    BY <1>2 DEF ReadFrame
  <2>2. task'[g].pc # "none" /\ \A h \in Generations : h # g => task'[h] = task[h]
    <3> DEFINE left == IF NextFrame(g) = "end" THEN "ended" ELSE "failed"
    <3>1. \/ task' = [task EXCEPT ![g].previous = NextFile(Listed(g))]
          \/ task' = [task EXCEPT ![g] = [NoTask EXCEPT !.pc = left]]
      BY <1>2 DEF ReadFrame
    <3>2. left \in {"ended", "failed"}
      OBVIOUS
    <3> HIDE DEF left
    <3> QED BY <2>1, <3>1, <3>2 DEF TypeInv, TypeOK, Tasks, NoTask
  <2> QED BY <1>1, <2>1, <2>2, HandleKept
<1>3. CASE FinishStream(g)
  <2>1. manager.task = g /\ manager.gen = g
    BY <1>1, <1>3 DEF FinishStream, HandleInv
  <2>2. manager' = Result(task[g].pc = "ended") /\ task' = [task EXCEPT ![g] = NoTask]
        /\ UNCHANGED chain
    BY <1>3, <2>1 DEF FinishStream, window
  <2>3. manager'.task = None /\ manager'.state \in {"ready", "failed"}
    BY <1>1, <2>2 DEF Result, Managers
  <2>4. \A h \in Generations : task'[h].pc = "none"
    BY <2>1, <2>2 DEF HandleInv, TypeInv, TypeOK, NoTask
  <2>5. \A d \in Chains : chain'[d].pc = "launch" => chain'[d].gen # None
    BY <2>2 DEF TypeInv, ChainInv, Shape, MountShape, PlayShape, SeekShape, PrepareSteps,
                SeekSteps, ActivateSteps
  <2> QED BY <1>1, <2>3, <2>4, <2>5 DEF HandleInv
<1>4. CASE Pump(g)
  <2>1. UNCHANGED task
    BY <1>4 DEF Pump, EmitChunk, Close, FinishPump
  <2>2. /\ manager'.task = manager.task /\ manager'.gen = manager.gen
        /\ manager'.state \in {manager.state, "failed", "stopped"}
    <3>1. \/ UNCHANGED manager
          \/ manager' = [manager EXCEPT !.state = "failed", !.receiver = None]
          \/ manager' = [manager EXCEPT !.pump = None, !.state = "stopped"]
          \/ manager' = [manager EXCEPT !.pump = None, !.state = manager.state]
      BY <1>4 DEF Pump, EmitChunk, Close, FinishPump
    <3> QED BY <1>1, <3>1 DEF Managers
  <2> QED BY <1>1, <2>1, <2>2, HandleKept
<1> QED BY <1>2, <1>3, <1>4 DEF Consume

LEMMA HandleInvStep == TypeInv /\ HandleInv /\ [Next]_vars => HandleInv'
<1> SUFFICES ASSUME TypeInv, HandleInv, [Next]_vars PROVE HandleInv'
  OBVIOUS
<1>1. CASE UNCHANGED vars
  BY <1>1 DEF vars, HandleInv
<1>2. CASE \E c \in Chains : Connect(c)
  BY <1>2, ConnectHandle
<1>3. CASE Next /\ \A c \in Chains : ~Connect(c)
  <2>1. CASE UNCHANGED <<manager, task>>
    BY <1>3, <2>1, HandleKept
  <2>2. CASE Stop
    <3>1. manager \in Managers /\ None \notin Generations
      BY ConstantsAssumption DEF TypeInv, TypeOK, Generations
    <3>2. manager'.task = None /\ manager'.state = "stopped" /\ UNCHANGED chain
      BY <2>2, <3>1 DEF Stop, Managers
    <3>3. \A g \in Generations : task'[g].pc = "none"
      BY <2>2 DEF Stop, Aborted, Forgotten, NoTask, HandleInv
    <3>4. \A d \in Chains : chain'[d].pc = "launch" => chain'[d].gen # None
      BY <3>2 DEF TypeInv, ChainInv, Shape, MountShape, PlayShape, SeekShape, PrepareSteps,
                  SeekSteps, ActivateSteps
    <3> QED BY <3>1, <3>2, <3>3, <3>4 DEF HandleInv
  <2>3. \/ UNCHANGED <<manager, task>> \/ Stop
        \/ \E c \in Chains : Manage(c)
        \/ \E g \in Generations : Consume(g) \/ Pump(g)
    BY <1>3 DEF Next, DeleteAudio, AnswerPlayer, AnswerGone, AnswerMount, AnswerPlay, AnswerSeek,
           Play, Pause, PressStop, SeekTo, Remount, SourceEnds, StraySourceEnds, streaming, window
  <2> QED BY <1>3, <2>1, <2>2, <2>3, ManageHandle, StreamHandle
<1> QED BY <1>1, <1>2, <1>3

LEMMA StreamInvariant == Spec => [](TypeInv /\ HandleInv)
BY InitTypeInv, TypeInvStep, InitHandleInv, HandleInvStep, PTL DEF Spec

\* The channel keeps its bound and the manager's handle its task, over every race
\* of start, stop, seek and the end of a stream (finish_stream, stop_active_stream).
THEOREM InvCorrect == Spec => []Inv
<1>1. TypeInv /\ HandleInv => Inv
  <2> SUFFICES ASSUME TypeInv, HandleInv, manager.task # None PROVE task[manager.task].pc # "none"
    BY DEF TypeInv, Inv, HandleIsLive
  <2>1. manager.task \in Generations
    BY DEF TypeInv, TypeOK, Managers
  <2> QED BY <2>1 DEF HandleInv
<1> QED BY <1>1, StreamInvariant, PTL

\* There is one stream at a time, over all the players and whatever becomes of
\* their commands: no reader is left behind with an open connection.
THEOREM OneStreamCorrect == Spec => []OneStream
<1>1. TypeInv /\ HandleInv => OneStream
  BY DEF HandleInv, OneStream, Live
<1> QED BY <1>1, StreamInvariant, PTL

-----------------------------------------------------------------------------
(* What a reader has read *)

\* What is left to read begins right after the last segment that was read.
Reads(g) ==
  /\ stream[g].pc \in {"asked", "reading"} /\ stream[g].meeting \in Meetings
  /\ stream[g].pc = "asked" => task[g].previous = 0 /\ channel[g] = <<>>
  /\ stream[g].pc = "reading" => stream[g].todo = {i \in Segments : i > task[g].previous}

ReadsInv ==
  /\ \A g \in Generations : Live(g) => Reads(g)
  /\ \A g \in Generations : g > manager.opened => channel[g] = <<>> /\ pump[g] = "none"
  /\ \A c \in Chains : Waiting(c) => pump[chain[c].gen] = "none"
  /\ \A c \in Chains : chain[c].pc = "launch" => channel[chain[c].gen] = <<>>

LEMMA InitReadsInv == Init => ReadsInv
<1> SUFFICES ASSUME Init PROVE ReadsInv
  OBVIOUS
<1>1. \A c \in Chains : ~Waiting(c) /\ chain[c].pc # "launch"
  BY DEF Init, NewChain, NoChain, Waiting
<1> QED BY <1>1 DEF Init, ReadsInv, Live, NoTask

LEMMA WaitingKept ==
  ASSUME TypeInv, Next, \A d \in Chains : ~Connect(d), NEW c \in Chains, Waiting(c)'
  PROVE  /\ Waiting(c) /\ chain'[c].gen = chain[c].gen
         /\ chain'[c].pc = "launch" => chain[c].pc = "launch"
<1>1. CASE Launch(c) /\ chain'[c].pc = "ok" /\ chain'[c].gen = chain[c].gen
  BY <1>1 DEF Launch, At, Waiting
<1>2. CASE chain'[c] = chain[c]
  BY <1>2 DEF Waiting
<1> QED BY <1>1, <1>2, WaitingFrom

LEMMA ReadsKept ==
  ASSUME TypeInv, ReadsInv, Next, \A d \in Chains : ~Connect(d), manager'.opened = manager.opened,
         \A g \in Generations :
            /\ Live(g)' => /\ Live(g) /\ stream'[g] = stream[g] /\ task'[g] = task[g]
            /\ channel[g] = <<>> => channel'[g] = <<>>
            /\ pump[g] = "none" => pump'[g] = "none"
  PROVE  ReadsInv'
<1>1. ASSUME NEW g \in Generations PROVE (Live(g) => Reads(g))'
  BY DEF ReadsInv, Reads
<1>2. ASSUME NEW c \in Chains, Waiting(c)'
      PROVE  pump'[chain'[c].gen] = "none" /\ (chain'[c].pc = "launch" => channel'[chain'[c].gen] = <<>>)
  <2>1. /\ Waiting(c) /\ chain'[c].gen = chain[c].gen
        /\ chain'[c].pc = "launch" => chain[c].pc = "launch"
    BY <1>2, WaitingKept
  <2>2. chain[c].gen \in Generations
    BY <2>1, WaitingGen
  <2> QED BY <2>1, <2>2 DEF ReadsInv
<1>3. \A c \in Chains : chain'[c].pc = "launch" => Waiting(c)'
  BY DEF Waiting
<1> QED BY <1>1, <1>2, <1>3 DEF ReadsInv

\* The next segment in the channel is the one after the last.
LEMMA NextIsRead ==
  ASSUME TypeInv, HandleInv, ReadsInv, NEW g \in Generations, Live(g), NextFrame(g) = "audio"
  PROVE  /\ Listed(g) = {i \in Segments : i > task[g].previous} /\ Listed(g) # {}
         /\ NextFile(Listed(g)) = task[g].previous + 1
         /\ NextFile(Listed(g)) \in Segments
<1>1. Reads(g) /\ task[g].previous \in {0} \cup Segments
  BY DEF ReadsInv, TypeInv, TypeOK, Tasks
<1>2. Listed(g) = {i \in Segments : i > task[g].previous} /\ Listed(g) # {}
  <2>1. CASE stream[g].pc = "asked"
    <3>1. Listed(g) = Segments /\ task[g].previous = 0
      BY <1>1, <2>1 DEF NextFrame, Listed, Files, Reads
    <3>2. Segments = {i \in Segments : i > 0} /\ Segments # {}
      <4>1. \A i \in Segments : i > 0
        BY SegmentNumbers
      <4>2. 1 \in Segments
        BY SegmentNumbers
      <4> QED BY <4>1, <4>2
    <3> QED BY <3>1, <3>2
  <2>2. CASE stream[g].pc = "reading"
    BY <1>1, <2>2 DEF NextFrame, Listed, Reads
  <2> QED BY <1>1, <2>1, <2>2 DEF Reads
<1>3. NextFile(Listed(g)) \in Listed(g) /\ \A j \in Listed(g) : NextFile(Listed(g)) <= j
  BY <1>2, NextFileIsLeast
<1> DEFINE k == task[g].previous
           i == NextFile(Listed(g))
<1> HIDE DEF i
<1>4. k \in Nat /\ i \in Segments /\ i > k /\ \A j \in Segments : j > k => i <= j
  <2>1. i \in Segments /\ i > k /\ \A j \in Segments : j > k => i <= j
    BY <1>2, <1>3 DEF i
  <2>2. k \in Nat
    BY <1>1, SegmentNumbers
  <2> QED BY <2>1, <2>2
<1> HIDE DEF k
<1>5. i = k + 1
  BY <1>4, SegmentNumbers
<1> QED BY <1>2, <1>4, <1>5 DEF k, i

LEMMA ReadFrameReads ==
  ASSUME TypeInv, HandleInv, ReadsInv, NEW g \in Generations, ReadFrame(g),
         \A d \in Chains : ~Connect(d)
  PROVE  ReadsInv'
<1> DEFINE i == NextFile(Listed(g))
<1>1. Next /\ UNCHANGED <<audio, pump, manager, chain>> /\ Live(g)
  BY DEF Next, Consume, ReadFrame, window, Live
<1>2. CASE /\ NextFrame(g) = "audio"
           /\ task' = [task EXCEPT ![g].previous = i]
           /\ stream' = [stream EXCEPT ![g].pc = "reading", ![g].todo = Listed(g) \ {i}]
           /\ channel' = [channel EXCEPT ![g] = Append(@, i)]
  <2>1. /\ Listed(g) = {j \in Segments : j > task[g].previous}
        /\ i = task[g].previous + 1 /\ i \in Segments
    BY <1>1, <1>2, NextIsRead
  <2> DEFINE left == Listed(g) \ {i}
  <2>2. left = {j \in Segments : j > i}
    <3> DEFINE k == task[g].previous
    <3>1. k \in Nat /\ i = k + 1 /\ left = {j \in Segments : j > k} \ {i} /\ Segments \subseteq Nat
      BY <2>1, SegmentNumbers DEF TypeInv, TypeOK, Tasks
    <3> HIDE DEF k, left, i
    <3>2. \A j \in Segments : (j > k /\ j # i) <=> j > i
      BY <3>1
    <3> QED BY <3>1, <3>2
  <2> HIDE DEF left, i
  <2>3. /\ stream'[g].pc = "reading" /\ stream'[g].todo = left
        /\ stream'[g].meeting = stream[g].meeting /\ task'[g].previous = i
        /\ \A h \in Generations : h # g =>
              stream'[h] = stream[h] /\ task'[h] = task[h] /\ channel'[h] = channel[h]
    BY <1>2 DEF TypeInv, TypeOK, Streams, Tasks, left, i
  <2>4. stream[g].meeting \in Meetings
    BY <1>1 DEF ReadsInv, Reads
  <2>5. ASSUME NEW h \in Generations PROVE (Live(h) => Reads(h))'
    BY <2>2, <2>3, <2>4 DEF ReadsInv, Reads, Live
  <2>6. manager.task = g /\ manager.gen = g /\ g <= manager.opened
    BY <1>1, ConstantsAssumption DEF HandleInv, Live, TypeInv, ChainInv, Generations
  <2>7. \A h \in Generations : h > manager.opened => h # g
    BY <2>6 DEF Generations, TypeInv, TypeOK, Managers
  <2>8. \A c \in Chains : chain[c].pc = "launch" => chain[c].gen # g /\ chain[c].gen \in Generations
    BY <2>6, WaitingGen DEF HandleInv, Waiting
  <2> QED BY <1>1, <2>3, <2>5, <2>7, <2>8 DEF ReadsInv, Waiting
<1>3. CASE /\ task' = [task EXCEPT ![g] = [NoTask EXCEPT !.pc = IF NextFrame(g) = "end"
                                                                THEN "ended" ELSE "failed"]]
           /\ UNCHANGED <<stream, channel>>
  <2>1. task'[g].pc # "consuming" /\ \A h \in Generations : h # g => task'[h] = task[h]
    BY <1>3 DEF TypeInv, TypeOK, NoTask
  <2> QED BY <1>1, <1>3, <2>1, ReadsKept DEF Live
<1> QED BY <1>2, <1>3 DEF ReadFrame

LEMMA ConnectReads ==
  ASSUME TypeInv, HandleInv, ReadsInv, NEW c \in Chains, Connect(c)
  PROVE  ReadsInv'
<1>1. /\ TypeInv' /\ Next /\ manager \in Managers /\ None \notin Generations
      /\ UNCHANGED <<stream, task>>
  <2>1. Next
    BY DEF Next, Manage
  <2> QED BY <2>1, TypeInvStep, ConstantsAssumption DEF Connect, TypeInv, TypeOK, Generations
<1>2. chain[c].pc = "connect" /\ ~Waiting(c)
  BY DEF Connect, At, Waiting
<1>3. CASE Go(c, "err") /\ UNCHANGED <<pump, channel>> /\ manager'.opened = manager.opened
  <2>1. \A d \in Chains : chain'[d].pc # "err" => chain'[d] = chain[d]
    BY <1>3 DEF Go, TypeInv, TypeOK, ChainSet
  <2>2. \A d \in Chains : Waiting(d)' => Waiting(d) /\ chain'[d] = chain[d]
    BY <2>1 DEF Waiting
  <2>3. \A d \in Chains : chain'[d].pc = "launch" => chain'[d] = chain[d]
    BY <2>1
  <2> QED BY <1>1, <1>3, <2>2, <2>3 DEF ReadsInv, Reads, Live
<1>4. CASE /\ manager.state = "starting"
           /\ manager' = [manager EXCEPT !.gen = NextGeneration, !.opened = NextGeneration,
                                         !.state = "streaming", !.receiver = NextGeneration]
           /\ pump' = Forgotten(pump, {manager.gen}, "none")
           /\ channel' = Forgotten(channel, {manager.gen}, <<>>)
           /\ chain' = [chain EXCEPT ![c].pc = "launch", ![c].gen = NextGeneration]
  <2> DEFINE n == NextGeneration
  <2>1. manager'.opened = n /\ n = manager.opened + 1 /\ manager.opened \in Nat /\ n \in Generations
    <3>1. manager.opened \in Nat /\ n = manager.opened + 1 /\ manager'.opened = n
      BY <1>1, <1>4 DEF Managers, NextGeneration, Generations
    <3>2. manager'.opened \in {0} \cup Generations
      BY <1>1 DEF TypeInv, TypeOK, Managers
    <3> QED BY <3>1, <3>2
  <2>2. manager.task = None /\ \A g \in Generations : ~Live(g)'
    BY <1>1, <1>4 DEF HandleInv, Live
  <2>3. \A g \in Generations : /\ channel'[g] \in {channel[g], <<>>} /\ pump'[g] \in {pump[g], "none"}
    BY <1>4 DEF Forgotten
  <2>4. channel[n] = <<>> /\ pump[n] = "none"
    BY <2>1 DEF ReadsInv
  <2>5. chain'[c].gen = n /\ \A d \in Chains : d # c => chain'[d] = chain[d]
    BY <1>4 DEF TypeInv, TypeOK, ChainSet
  <2> HIDE DEF n
  <2>6. \A g \in Generations : g > n => g > manager.opened
    BY <2>1 DEF Generations
  <2>7. \A d \in Chains : d # c /\ Waiting(d)' => Waiting(d) /\ chain[d].gen \in Generations
    BY <2>5, WaitingGen DEF Waiting
  <2>8. \A d \in Chains : chain'[d].pc = "launch" => Waiting(d)'
    BY DEF Waiting
  <2>9. ASSUME NEW d \in Chains, Waiting(d)'
        PROVE  pump'[chain'[d].gen] = "none"
               /\ (chain'[d].pc = "launch" => channel'[chain'[d].gen] = <<>>)
    <3>1. CASE d = c
      BY <2>1, <2>3, <2>4, <2>5, <3>1
    <3>2. CASE d # c
      BY <2>3, <2>5, <2>7, <2>9, <3>2 DEF ReadsInv
    <3> QED BY <3>1, <3>2
  <2> QED BY <2>1, <2>2, <2>3, <2>6, <2>8, <2>9 DEF ReadsInv
<1> QED BY <1>1, <1>3, <1>4 DEF Connect, Managers

LEMMA LaunchReads ==
  ASSUME TypeInv, HandleInv, ReadsInv, NEW c \in Chains, Launch(c), \A d \in Chains : ~Connect(d)
  PROVE  ReadsInv'
<1> DEFINE g == chain[c].gen
<1>1. Next /\ UNCHANGED <<channel, pump>> /\ manager \in Managers /\ None \notin Generations
  <2>1. Next
    BY DEF Next, Manage
  <2> QED BY <2>1, ConstantsAssumption DEF Launch, TypeInv, TypeOK, Generations
<1>2. chain[c].pc = "launch" /\ g \in Generations /\ channel[g] = <<>> /\ chain[c].meeting \in Meetings
  BY WaitingGen DEF Launch, At, Waiting, ReadsInv
<1>3. CASE Go(c, "err") /\ UNCHANGED <<manager, task, stream>>
  BY <1>1, <1>3, ReadsKept DEF Live
<1>4. CASE /\ manager' = [manager EXCEPT !.task = g]
           /\ task' = [task EXCEPT ![g] = [NoTask EXCEPT !.pc = "consuming"]]
           /\ stream' = [stream EXCEPT ![g] = [NoStream EXCEPT !.pc = "asked",
                                                               !.meeting = chain[c].meeting]]
  <2>1. /\ stream'[g].pc = "asked" /\ stream'[g].meeting = chain[c].meeting /\ task'[g].previous = 0
        /\ \A h \in Generations : h # g => stream'[h] = stream[h] /\ task'[h] = task[h]
    BY <1>2, <1>4 DEF TypeInv, TypeOK, NoTask, NoStream
  <2>2. ASSUME NEW h \in Generations PROVE (Live(h) => Reads(h))'
    BY <1>1, <1>2, <2>1 DEF ReadsInv, Reads, Live
  <2>3. manager'.opened = manager.opened
    BY <1>1, <1>4 DEF Managers
  <2>4. ASSUME NEW d \in Chains, Waiting(d)'
        PROVE  pump'[chain'[d].gen] = "none"
               /\ (chain'[d].pc = "launch" => channel'[chain'[d].gen] = <<>>)
    BY <1>1, <2>4, WaitingKept DEF ReadsInv
  <2>5. \A d \in Chains : chain'[d].pc = "launch" => Waiting(d)'
    BY DEF Waiting
  <2> QED BY <1>1, <2>2, <2>3, <2>4, <2>5 DEF ReadsInv
<1> QED BY <1>3, <1>4 DEF Launch

LEMMA ActivateReads ==
  ASSUME TypeInv, HandleInv, ReadsInv, NEW c \in Chains, Activate(c), \A d \in Chains : ~Connect(d)
  PROVE  ReadsInv'
<1> DEFINE g == chain[c].gen
<1>1. Next /\ UNCHANGED <<stream, task, channel, manager>>
  BY DEF Next, Manage, Activate
<1>2. CASE Go(c, "err") /\ UNCHANGED pump
  BY <1>1, <1>2, ReadsKept DEF Live
<1>3. CASE pump' = [pump EXCEPT ![g] = "receiving"] /\ Go(c, "register")
  <2>1. Waiting(c) /\ g \in Generations /\ g <= manager.opened
    BY WaitingGen DEF Activate, At, Waiting
  <2>2. chain'[c].pc = "register" /\ ~Waiting(c)'
    BY <1>3 DEF Go, TypeInv, TypeOK, ChainSet, Waiting
  <2>3. ASSUME NEW d \in Chains, Waiting(d)'
        PROVE  pump'[chain'[d].gen] = "none"
               /\ (chain'[d].pc = "launch" => channel'[chain'[d].gen] = <<>>)
    <3>1. /\ Waiting(d) /\ chain'[d].gen = chain[d].gen /\ d # c /\ chain[d].gen \in Generations
          /\ chain'[d].pc = "launch" => chain[d].pc = "launch"
      BY <1>1, <2>2, <2>3, WaitingKept, WaitingGen
    <3>2. chain[d].gen # g
      BY <2>1, <3>1, ConstantsAssumption DEF TypeInv, ChainInv, Generations
    <3> QED BY <1>1, <1>3, <3>1, <3>2 DEF ReadsInv, TypeInv, TypeOK
  <2>4. \A d \in Chains : chain'[d].pc = "launch" => Waiting(d)'
    BY DEF Waiting
  <2>5. \A h \in Generations : h > manager.opened => h # g /\ pump'[h] = pump[h]
    BY <1>3, <2>1 DEF TypeInv, TypeOK, Generations, Managers
  <2> QED BY <1>1, <2>3, <2>4, <2>5 DEF ReadsInv, Reads, Live
<1> QED BY <1>2, <1>3 DEF Activate

LEMMA AbortedTasks ==
  ASSUME HandleInv, Aborted
  PROVE  \A g \in Generations : task'[g].pc = "none"
BY DEF Aborted, Forgotten, NoTask, HandleInv

\* The steps that take nothing up: what is read, kept in the channel or pumped
\* only becomes less.
LEMMA ShrinkReads ==
  ASSUME TypeInv, HandleInv, ReadsInv, Next, \A d \in Chains : ~Connect(d),
         \/ \E g \in Generations : FinishStream(g) \/ Pump(g)
         \/ \E c \in Chains : Register(c) \/ Resolve(c)
         \/ Stop
  PROVE  ReadsInv'
<1>1. ASSUME NEW g \in Generations, FinishStream(g)
      PROVE  ReadsInv'
  <2>1. manager'.opened = manager.opened
    BY <1>1 DEF FinishStream, Result, TypeInv, TypeOK, Managers
  <2>2. /\ task'[g].pc = "none" /\ UNCHANGED pump
        /\ \A h \in Generations : h # g => task'[h] = task[h] /\ stream'[h] = stream[h]
        /\ \A h \in Generations : channel'[h] \in {channel[h], <<>>}
    BY <1>1 DEF FinishStream, TypeInv, TypeOK, NoTask
  <2> QED BY <2>1, <2>2, ReadsKept DEF Live
<1>2. ASSUME NEW g \in Generations, Pump(g)
      PROVE  ReadsInv'
  <2>1. manager'.opened = manager.opened /\ UNCHANGED <<stream, task>>
    BY <1>2 DEF Pump, EmitChunk, Close, FinishPump, TypeInv, TypeOK, Managers
  <2>2. \A h \in Generations : channel[h] = <<>> => channel'[h] = <<>>
    BY <1>2 DEF Pump, EmitChunk, Close, FinishPump, TypeInv, TypeOK
  <2>3. \A h \in Generations : pump[h] = "none" => pump'[h] = "none"
    BY <1>2 DEF Pump, EmitChunk, Close, FinishPump, TypeInv, TypeOK
  <2> QED BY <2>1, <2>2, <2>3, ReadsKept DEF Live
<1>3. ASSUME NEW c \in Chains, Register(c)
      PROVE  ReadsInv'
  <2>1. manager'.opened = manager.opened /\ UNCHANGED <<stream, task, channel>>
    BY <1>3 DEF Register, TypeInv, TypeOK, Managers
  <2>2. \A h \in Generations : pump[h] = "none" => pump'[h] = "none"
    BY <1>3 DEF Register, TypeInv, TypeOK
  <2> QED BY <2>1, <2>2, ReadsKept DEF Live
<1>4. CASE Aborted /\ manager'.opened = manager.opened
  <2>1. \A g \in Generations : ~Live(g)'
    BY <1>4, AbortedTasks DEF Live
  <2>2. \A g \in Generations : /\ channel[g] = <<>> => channel'[g] = <<>>
                               /\ pump[g] = "none" => pump'[g] = "none"
    BY <1>4 DEF Aborted, Forgotten
  <2> QED BY <1>4, <2>1, <2>2, ReadsKept
<1>5. ASSUME NEW c \in Chains, Resolve(c)
      PROVE  ReadsInv'
  <2>1. manager'.opened = manager.opened
    BY <1>5 DEF Resolve, TypeInv, TypeOK, Managers
  <2>2. CASE UNCHANGED streaming
    BY <2>1, <2>2, ReadsKept DEF streaming, Live
  <2> QED BY <1>4, <1>5, <2>1, <2>2 DEF Resolve, streaming
<1>6. CASE Stop
  <2>1. manager'.opened = manager.opened
    BY <1>6 DEF Stop, TypeInv, TypeOK, Managers
  <2> QED BY <1>4, <1>6, <2>1 DEF Stop
<1> QED BY <1>1, <1>2, <1>3, <1>5, <1>6

LEMMA ReadsInvStep == TypeInv /\ HandleInv /\ ReadsInv /\ [Next]_vars => ReadsInv'
<1> SUFFICES ASSUME TypeInv, HandleInv, ReadsInv, [Next]_vars PROVE ReadsInv'
  OBVIOUS
<1>1. CASE UNCHANGED vars
  BY <1>1 DEF vars, ReadsInv, Reads, Live, Waiting
<1>2. CASE \E c \in Chains : Connect(c)
  BY <1>2, ConnectReads
<1>3. CASE Next /\ \A c \in Chains : ~Connect(c)
  <2>1. CASE UNCHANGED streaming /\ manager'.opened = manager.opened
    BY <1>3, <2>1, ReadsKept DEF streaming, Live
  <2>2. ASSUME NEW c \in Chains, Prepare(c) \/ Fetch(c) \/ Settle(c) \/ Start(c) \/ Seek(c)
        PROVE  UNCHANGED streaming /\ manager'.opened = manager.opened
    <3>1. \/ UNCHANGED manager
          \/ manager' = [manager EXCEPT !.state = "loading"]
          \/ manager' = [manager EXCEPT !.state = "ready"]
          \/ manager' = [manager EXCEPT !.state = "failed"]
          \/ manager' = [manager EXCEPT !.state = "ready", !.meeting = chain[c].mount]
          \/ manager' = [manager EXCEPT !.state = "starting"]
      BY <2>2 DEF Prepare, Fetch, Settle, Start, Seek
    <3> QED BY <2>2, <3>1 DEF Prepare, Fetch, Settle, Start, Seek, TypeInv, TypeOK, Managers
  <2>3. \/ UNCHANGED streaming /\ manager'.opened = manager.opened
        \/ \E g \in Generations : ReadFrame(g) \/ FinishStream(g) \/ Pump(g)
        \/ \E c \in Chains : Launch(c) \/ Activate(c) \/ Register(c) \/ Resolve(c)
        \/ Stop
    <3>1. \/ UNCHANGED <<streaming, manager>>
          \/ \E g \in Generations : Consume(g) \/ Pump(g)
          \/ \E c \in Chains : Manage(c)
          \/ Stop
      BY <1>3 DEF Next, DeleteAudio, AnswerPlayer, AnswerGone, AnswerMount, AnswerPlay, AnswerSeek,
             Play, Pause, PressStop, SeekTo, Remount, SourceEnds, StraySourceEnds
    <3> QED BY <1>3, <2>2, <3>1 DEF Manage, Consume
  <2> QED BY <1>3, <2>1, <2>3, ReadFrameReads, LaunchReads, ActivateReads, ShrinkReads
<1> QED BY <1>1, <1>2, <1>3

-----------------------------------------------------------------------------
(* Without a failure *)

\* Nothing was deleted, no reader fails, and the channel of the current stream
\* has somebody at its end.
FailInv ==
  failures = 0 =>
    /\ \A m \in Meetings : audio[m] = "whole"
    /\ \A g \in Generations : task[g].pc # "failed"
    /\ manager.gen # None => manager.receiver = manager.gen

LEMMA InitFailInv == Init => FailInv
BY DEF Init, FailInv, NoTask

LEMMA Unfailed ==
  ASSUME TypeInv, [Next]_vars, failures' = 0
  PROVE  failures = 0 /\ ~Fails
<1>1. failures' = failures \/ Fails
  <2>1. CASE UNCHANGED vars
    BY <2>1 DEF vars
  <2>2. CASE Next
    BY <2>2 DEF Next, DeleteAudio, Consume, ReadFrame, FinishStream, Pump, EmitChunk, HearChunk, Close,
           FinishPump, Manage, Prepare, Fetch, Settle, Start, Connect, Launch, Activate, Register,
           Seek, Resolve, AnswerPlayer, AnswerGone, AnswerMount, AnswerPlay, AnswerSeek, Stop,
           Play, Pause, PressStop, SeekTo, Remount, SourceEnds, StraySourceEnds
  <2> QED BY <2>1, <2>2
<1> QED BY <1>1, FailsType DEF TypeInv

\* A reader ends only at the end of the recording.
LEMMA UnfailedReads ==
  ASSUME TypeInv, HandleInv, ReadsInv, FailInv, failures = 0, NEW g \in Generations, Live(g)
  PROVE  /\ manager.gen = g /\ manager.receiver = g /\ ~Dropped(g)
         /\ NextFrame(g) = "audio" \/ (NextFrame(g) = "end" /\ task[g].previous = Len(Recording))
<1>1. manager.gen = g /\ manager.receiver = g
  BY ConstantsAssumption DEF HandleInv, Live, FailInv, Generations
<1>2. Reads(g) /\ audio[stream[g].meeting] = "whole" /\ task[g].previous \in {0} \cup Segments
  BY DEF ReadsInv, FailInv, Reads, TypeInv, TypeOK, Tasks
<1>3. CASE stream[g].pc = "asked"
  <2>1. 1 \in Segments
    BY SegmentNumbers
  <2> QED BY <1>1, <1>2, <1>3, <2>1 DEF NextFrame, Available, Files, Dropped
<1>4. CASE stream[g].pc = "reading" /\ stream[g].todo # {}
  BY <1>1, <1>2, <1>4 DEF NextFrame, Dropped
<1>5. CASE stream[g].pc = "reading" /\ stream[g].todo = {}
  <2>1. NextFrame(g) = "end"
    BY <1>5 DEF NextFrame
  <2>2. ~(Len(Recording) > task[g].previous)
    <3>1. Len(Recording) \in Segments
      BY SegmentNumbers
    <3> QED BY <1>2, <1>5, <3>1 DEF Reads
  <2>3. task[g].previous = Len(Recording)
    BY <1>2, <2>2, SegmentNumbers
  <2> QED BY <1>1, <2>1, <2>3 DEF Dropped
<1> QED BY <1>2, <1>3, <1>4, <1>5 DEF Reads

LEMMA FailInvStep == TypeInv /\ HandleInv /\ ReadsInv /\ FailInv /\ [Next]_vars => FailInv'
<1> SUFFICES ASSUME TypeInv, HandleInv, ReadsInv, FailInv, [Next]_vars, failures' = 0
             PROVE  /\ \A m \in Meetings : audio'[m] = "whole"
                    /\ \A g \in Generations : task'[g].pc # "failed"
                    /\ manager'.gen # None => manager'.receiver = manager'.gen
  BY DEF FailInv
<1>1. failures = 0 /\ ~Fails
  BY Unfailed
<1>2. /\ \A m \in Meetings : audio[m] = "whole"
      /\ \A g \in Generations : task[g].pc # "failed"
      /\ manager.gen # None => manager.receiver = manager.gen
      /\ manager \in Managers
  BY <1>1 DEF FailInv, TypeInv, TypeOK
<1>3. CASE UNCHANGED vars
  BY <1>2, <1>3 DEF vars
<1>4. ASSUME NEW g \in Generations, Consume(g) \/ Pump(g)
      PROVE  FailInv'
  <2>1. CASE ReadFrame(g)
    <3>1. UNCHANGED <<audio, manager>> /\ Live(g)
      BY <2>1 DEF ReadFrame, Live
    <3>2. NextFrame(g) = "audio" => NextFile(Listed(g)) > task[g].previous /\ ~Dropped(g)
      <4> SUFFICES ASSUME NextFrame(g) = "audio" PROVE NextFile(Listed(g)) > task[g].previous /\ ~Dropped(g)
        OBVIOUS
      <4>1. ~Dropped(g)
        BY <1>1, <3>1, UnfailedReads
      <4>2. NextFile(Listed(g)) = task[g].previous + 1 /\ task[g].previous \in Nat
        BY <3>1, NextIsRead, SegmentNumbers DEF TypeInv, TypeOK, Tasks
      <4> QED BY <4>1, <4>2
    <3>3. \/ task' = [task EXCEPT ![g].previous = NextFile(Listed(g))]
          \/ task' = [task EXCEPT ![g] = [NoTask EXCEPT !.pc = "ended"]]
      BY <1>1, <2>1, <3>1, <3>2, UnfailedReads DEF ReadFrame
    <3>4. \A h \in Generations : task'[h].pc # "failed"
      <4>1. CASE task' = [task EXCEPT ![g].previous = NextFile(Listed(g))]
        <5>1. task'[g].pc = task[g].pc /\ \A h \in Generations : h # g => task'[h] = task[h]
          BY <4>1 DEF TypeInv, TypeOK, Tasks
        <5> QED BY <1>2, <5>1
      <4>2. CASE task' = [task EXCEPT ![g] = [NoTask EXCEPT !.pc = "ended"]]
        <5>1. task'[g].pc = "ended" /\ \A h \in Generations : h # g => task'[h] = task[h]
          BY <4>2 DEF TypeInv, TypeOK, NoTask
        <5> QED BY <1>2, <5>1
      <4> QED BY <3>3, <4>1, <4>2
    <3> QED BY <1>2, <3>1, <3>4 DEF FailInv
  <2>2. CASE FinishStream(g)
    <3>1. task[g].pc = "ended"
      BY <1>2, <2>2 DEF FinishStream
    <3>2. manager' = manager \/ manager' = Result(TRUE)
      BY <2>2, <3>1 DEF FinishStream
    <3>3. manager'.gen = manager.gen /\ manager'.receiver = manager.receiver
      BY <1>2, <3>2 DEF Result, Managers
    <3>4. \A h \in Generations : task'[h].pc # "failed"
      BY <1>2, <2>2 DEF FinishStream, TypeInv, TypeOK, NoTask
    <3> QED BY <1>2, <2>2, <3>3, <3>4 DEF FinishStream, FailInv
  <2>3. CASE Pump(g)
    <3>1. UNCHANGED <<audio, task>>
      BY <2>3 DEF Pump, EmitChunk, Close, FinishPump
    <3>2. manager'.gen = manager.gen /\ manager'.receiver = manager.receiver
      BY <1>1, <1>2, <2>3 DEF Pump, EmitChunk, Close, FinishPump, Managers
    <3> QED BY <1>2, <3>1, <3>2 DEF FailInv
  <2> QED BY <1>4, <2>1, <2>2, <2>3 DEF Consume
<1>5. ASSUME NEW c \in Chains, Manage(c)
      PROVE  FailInv'
  <2>1. UNCHANGED audio
    BY <1>5 DEF Manage, Prepare, Fetch, Settle, Start, Connect, Launch, Activate, Register, Seek, Resolve
  <2>2. \A g \in Generations : task'[g].pc # "failed"
    <3>1. CASE UNCHANGED task
      BY <1>2, <3>1
    <3>2. CASE Launch(c)
      <4>1. [NoTask EXCEPT !.pc = "consuming"].pc = "consuming"
        BY DEF NoTask
      <4> QED BY <1>2, <3>2, <4>1 DEF Launch, TypeInv, TypeOK
    <3>3. CASE Resolve(c)
      BY <1>2, <3>3, AbortedTasks DEF Resolve, streaming
    <3> QED BY <1>5, <3>1, <3>2, <3>3
            DEF Manage, Prepare, Fetch, Settle, Start, Connect, Activate, Register, Seek, streaming
  <2>3. manager'.gen # None => manager'.receiver = manager'.gen
    <3>1. CASE manager'.gen = manager.gen /\ manager'.receiver = manager.receiver
      BY <1>2, <3>1
    <3>2. CASE Prepare(c) \/ Fetch(c) \/ Settle(c) \/ Start(c) \/ Launch(c) \/ Activate(c) \/ Register(c) \/ Seek(c)
      <4>1. \/ UNCHANGED manager
            \/ \E k \in {"loading", "ready", "failed", "starting"} : manager' = [manager EXCEPT !.state = k]
            \/ manager' = [manager EXCEPT !.state = "ready", !.meeting = chain[c].mount]
            \/ manager' = [manager EXCEPT !.task = chain[c].gen]
            \/ manager' = [manager EXCEPT !.pump = chain[c].gen]
        BY <3>2 DEF Prepare, Fetch, Settle, Start, Launch, Activate, Register, Seek
      <4> QED BY <1>2, <4>1 DEF Managers
    <3>3. CASE Connect(c)
      <4>1. \/ UNCHANGED manager
            \/ manager' = [manager EXCEPT !.state = "failed"]
            \/ manager' = [manager EXCEPT !.gen = NextGeneration, !.opened = NextGeneration,
                                          !.state = "streaming", !.receiver = NextGeneration]
        BY <3>3 DEF Connect
      <4> QED BY <1>2, <4>1 DEF Managers
    <3>4. CASE Resolve(c)
      <4>1. \/ UNCHANGED manager
            \/ manager' = [manager EXCEPT !.gen = None, !.task = None, !.pump = None, !.receiver = None,
                                          !.state = IF manager.meeting # None THEN "ready" ELSE @]
        BY <3>4 DEF Resolve
      <4> QED BY <1>2, <4>1 DEF Managers
    <3> QED BY <1>5, <3>2, <3>3, <3>4 DEF Manage
  <2> QED BY <1>2, <2>1, <2>2, <2>3 DEF FailInv
<1>6. CASE Stop
  <2>1. manager'.gen = None /\ UNCHANGED audio
    BY <1>2, <1>6 DEF Stop, Managers
  <2>2. \A g \in Generations : task'[g].pc # "failed"
    BY <1>6, AbortedTasks DEF Stop
  <2> QED BY <1>2, <2>1, <2>2
<1>7. CASE UNCHANGED <<audio, task, manager>>
  BY <1>2, <1>7
<1>8. \/ UNCHANGED <<audio, task, manager>> \/ UNCHANGED vars \/ Stop
      \/ \E g \in Generations : Consume(g) \/ Pump(g)
      \/ \E c \in Chains : Manage(c)
  BY <1>1 DEF Next, DeleteAudio, AnswerPlayer, AnswerGone, AnswerMount, AnswerPlay, AnswerSeek,
         Play, Pause, PressStop, SeekTo, Remount, SourceEnds, StraySourceEnds, streaming
<1>9. CASE FailInv'
  BY <1>9 DEF FailInv
<1> QED BY <1>3, <1>4, <1>5, <1>6, <1>7, <1>8, <1>9

-----------------------------------------------------------------------------
(* What is heard *)

\* How much of a stream the player has scheduled.
Heard(g) == IF player.heard # <<>> /\ player.heard[1].gen = g THEN Len(player.heard) ELSE 0

\* The channel continues where the player is, and the reader where the channel ends.
Position(g) ==
  /\ \A j \in 1 .. Len(channel[g]) : channel[g][j] = Heard(g) + j
  /\ Live(g) => task[g].previous = Heard(g) + Len(channel[g])

\* A stream that has ended without a failure is all there.
Whole(g) ==
  failures = 0 /\ manager.gen = g /\ ~Live(g) => Heard(g) + Len(channel[g]) = Len(Recording)

PlayerInv ==
  /\ HeardInOrder
  /\ player.last = Len(player.heard)
  /\ player.state = "failed" => player.gen = None
  /\ player.heard # <<>> => player.heard[1].gen <= manager.opened

OrderInv ==
  /\ PlayerInv
  /\ \A c \in Chains : Waiting(c) =>
        /\ Heard(chain[c].gen) = 0 /\ Position(chain[c].gen)
        /\ chain[c].pc # "launch" => Whole(chain[c].gen)
  /\ \A g \in Generations : player.gen = g /\ pump[g] = "receiving" => Position(g) /\ Whole(g)
  /\ player.complete /\ player.gen # None /\ failures = 0 => Heard(player.gen) = Len(Recording)

LEMMA InitOrderInv == Init => OrderInv
<1> SUFFICES ASSUME Init PROVE OrderInv
  OBVIOUS
<1>1. \A c \in Chains : ~Waiting(c)
  BY DEF Init, NewChain, NoChain, Waiting
<1>2. /\ player.heard = <<>> /\ player.last = 0 /\ player.state = "idle" /\ player.gen = None
      /\ player.complete = FALSE
  BY DEF Init, Mounted
<1>3. PlayerInv
  BY <1>2 DEF PlayerInv, HeardInOrder
<1>4. None \notin Generations
  BY ConstantsAssumption DEF Generations
<1> QED BY <1>1, <1>2, <1>3, <1>4 DEF OrderInv

\* Steps in which the player hears nothing new: it stays with its stream, or leaves
\* it, or is silenced.
Quiet ==
  /\ \/ player'.heard = player.heard /\ player'.last = player.last
     \/ player'.heard = <<>> /\ player'.last = 0 /\ player'.gen = None
  /\ player'.gen \in {player.gen, None}
  /\ player'.state = "failed" => player'.gen = None
  /\ player'.complete /\ player'.gen # None => player.complete

LEMMA QuietPlayer ==
  ASSUME PlayerInv, Quiet, manager'.opened = manager.opened
  PROVE  PlayerInv'
<1>1. CASE player'.heard = player.heard /\ player'.last = player.last
  BY <1>1 DEF PlayerInv, Quiet, HeardInOrder
<1>2. CASE player'.heard = <<>> /\ player'.last = 0
  <2>1. DOMAIN <<>> = {} /\ Len(<<>>) = 0
    OBVIOUS
  <2> QED BY <1>2, <2>1 DEF PlayerInv, Quiet, HeardInOrder
<1> QED BY <1>1, <1>2 DEF Quiet

\* Quiet steps that keep the position of every stream somebody waits for.
LEMMA OrderKept ==
  ASSUME TypeInv, ReadsInv, OrderInv, ReadsInv', Next, \A d \in Chains : ~Connect(d),
         manager'.opened = manager.opened, Quiet,
         \A c \in Chains : chain[c].pc = "launch" /\ Waiting(c)' => chain'[c].pc = "launch",
         \A g \in Generations : pump'[g] = "receiving" => pump[g] = "receiving",
         \A g \in Generations :
            pump'[g] = pump[g] /\ Heard(g)' = Heard(g) /\ (pump[g] = "none" \/ player'.gen = g) =>
               /\ Position(g) => Position(g)'
               /\ Position(g) /\ Whole(g) => Whole(g)'
  PROVE  OrderInv'
<1>1. PlayerInv'
  BY QuietPlayer DEF OrderInv
<1>2. ASSUME NEW c \in Chains, Waiting(c)'
      PROVE  /\ Heard(chain[c].gen)' = 0 /\ Position(chain[c].gen)'
             /\ chain'[c].pc # "launch" => Whole(chain[c].gen)'
             /\ chain'[c].gen = chain[c].gen
  <2> DEFINE g == chain[c].gen
  <2>1. /\ Waiting(c) /\ chain'[c].gen = chain[c].gen
        /\ chain'[c].pc # "launch" => chain[c].pc # "launch"
    BY <1>2, WaitingKept
  <2>2. g \in Generations /\ Heard(g) = 0 /\ Position(g) /\ (chain[c].pc # "launch" => Whole(g))
    BY <2>1, WaitingGen DEF OrderInv
  <2>3. Heard(g)' = 0
    BY <2>1, <2>2 DEF Quiet, Heard
  <2>4. pump[g] = "none" /\ pump'[g] = "none"
    BY <1>2, <2>1 DEF ReadsInv
  <2> QED BY <2>1, <2>2, <2>3, <2>4
<1>3. ASSUME NEW g \in Generations, player'.gen = g, pump'[g] = "receiving"
      PROVE  Position(g)' /\ Whole(g)'
  <2>1. player.gen = g /\ player'.heard = player.heard
    BY <1>3, ConstantsAssumption DEF Quiet, Generations
  <2>2. pump[g] = "receiving" /\ Position(g) /\ Whole(g) /\ Heard(g)' = Heard(g)
    BY <1>3, <2>1 DEF OrderInv, Heard
  <2> QED BY <1>3, <2>2
<1>4. player'.complete /\ player'.gen # None /\ failures' = 0 => Heard(player.gen)' = Len(Recording)
  <2> SUFFICES ASSUME player'.complete, player'.gen # None, failures' = 0
               PROVE  Heard(player.gen)' = Len(Recording)
    OBVIOUS
  <2>1. failures = 0
    BY Unfailed
  <2>2. player'.heard = player.heard /\ player'.gen = player.gen /\ player.complete
    BY DEF Quiet
  <2> QED BY <2>1, <2>2 DEF OrderInv, Heard
<1> QED BY <1>1, <1>2, <1>3, <1>4 DEF OrderInv, Position, Whole, Heard, Live

\* What the player's helpers leave of it.
LEMMA PlayerFields ==
  ASSUME NEW p \in Players
  PROVE  /\ Cleared(p).heard = <<>> /\ Cleared(p).last = 0 /\ Cleared(p).gen = None
         /\ Cleaned(p).heard = <<>> /\ Cleaned(p).last = 0 /\ Cleaned(p).gen = None
         /\ Failed(p).heard = <<>> /\ Failed(p).last = 0 /\ Failed(p).gen = None
         /\ TakeTarget(p).heard = <<>> /\ TakeTarget(p).last = 0 /\ TakeTarget(p).gen = None
         /\ Finished(p).heard = p.heard /\ Finished(p).last = p.last /\ Finished(p).gen = p.gen
         /\ Finished(p).complete = p.complete /\ Finished(p).state \in {p.state, "ended"}
         /\ Known(p).heard = p.heard /\ Known(p).last = p.last /\ Known(p).gen = p.gen
         /\ Known(p).complete = p.complete /\ Known(p).state = "ready"
<1>1. Cleared(p).heard = <<>> /\ Cleared(p).last = 0 /\ Cleared(p).gen = None
  BY DEF Cleared, Players
<1>2. Cleared(p) \in Players /\ Cleaned(p) \in Players
  BY PlayerTypes
<1>3. Cleaned(p).heard = <<>> /\ Cleaned(p).last = 0 /\ Cleaned(p).gen = None
  BY <1>1, <1>2 DEF Cleaned, Players
<1>4. Failed(p).heard = <<>> /\ Failed(p).last = 0 /\ Failed(p).gen = None
  BY <1>2, <1>3 DEF Failed, Players
<1>5. TakeTarget(p).heard = <<>> /\ TakeTarget(p).last = 0 /\ TakeTarget(p).gen = None
  BY <1>1, <1>2 DEF TakeTarget, Players
<1>6. /\ Finished(p).heard = p.heard /\ Finished(p).last = p.last /\ Finished(p).gen = p.gen
      /\ Finished(p).complete = p.complete /\ Finished(p).state \in {p.state, "ended"}
  BY DEF Finished, Players
<1>7. /\ Known(p).heard = p.heard /\ Known(p).last = p.last /\ Known(p).gen = p.gen
      /\ Known(p).complete = p.complete /\ Known(p).state = "ready"
  BY DEF Known, Players
<1> QED BY <1>1, <1>3, <1>4, <1>5, <1>6, <1>7

LEMMA QuietWhen ==
  ASSUME OrderInv,
         \/ /\ player'.heard = <<>> /\ player'.last = 0 /\ player'.gen = None
         \/ /\ player'.heard = player.heard /\ player'.last = player.last
            /\ player'.gen = player.gen /\ player'.complete = player.complete
            /\ player'.state = "failed" => player.state = "failed"
         \/ UNCHANGED player
  PROVE  Quiet
BY DEF Quiet, OrderInv, PlayerInv

LEMMA ControlsQuiet ==
  ASSUME TypeInv, OrderInv,
         \/ Play \/ Pause \/ PressStop \/ Remount \/ SourceEnds \/ StraySourceEnds
         \/ \E time \in Times : SeekTo(time)
  PROVE  Quiet
<1>1. player \in Players
  BY DEF TypeInv, TypeOK
<1>2. CASE Play \/ Pause
  <2>1. \E k \in {"loading", "paused", "playing"}, x \in {player.context, "running", "suspended"} :
            player' = [player EXCEPT !.state = k, !.context = x]
    BY <1>2 DEF Play, Pause
  <2> QED BY <1>1, <2>1, QuietWhen DEF Players
<1>3. CASE PressStop
  <2>1. /\ Cleaned(player) \in Players
        /\ Cleaned(player).heard = <<>> /\ Cleaned(player).last = 0 /\ Cleaned(player).gen = None
    BY <1>1, PlayerTypes, PlayerFields
  <2>2. player'.heard = <<>> /\ player'.last = 0 /\ player'.gen = None
    BY <1>3, <2>1 DEF PressStop, Players
  <2> QED BY <2>2, QuietWhen
<1>4. CASE Remount
  BY <1>4, QuietWhen DEF Remount, Mounted
<1>5. CASE SourceEnds \/ StraySourceEnds
  <2>1. PICK q \in Players :
           /\ player' = Finished(q) /\ q.heard = player.heard /\ q.last = player.last
           /\ q.gen = player.gen /\ q.complete = player.complete /\ q.state = player.state
    <3>1. CASE SourceEnds
      <4> DEFINE n == player.sources - 1
                 q == [player EXCEPT !.sources = n]
      <4>1. n \in Nat /\ player' = Finished(q)
        BY <1>1, <3>1 DEF SourceEnds, Players
      <4> HIDE DEF n
      <4>2. q \in Players /\ q.heard = player.heard /\ q.last = player.last /\ q.gen = player.gen
            /\ q.complete = player.complete /\ q.state = player.state
        BY <1>1, <4>1 DEF Players
      <4> HIDE DEF q
      <4> QED BY <4>1, <4>2
    <3>2. CASE StraySourceEnds
      <4> DEFINE q == [player EXCEPT !.stray = FALSE]
      <4>1. player' = Finished(q)
        BY <3>2 DEF StraySourceEnds
      <4>2. q \in Players /\ q.heard = player.heard /\ q.last = player.last /\ q.gen = player.gen
            /\ q.complete = player.complete /\ q.state = player.state
        BY <1>1 DEF Players
      <4> HIDE DEF q
      <4> QED BY <4>1, <4>2
    <3> QED BY <1>5, <3>1, <3>2
  <2> QED BY <2>1, PlayerFields, QuietWhen
<1>6. ASSUME NEW time \in Times, SeekTo(time)
      PROVE  Quiet
  <2> DEFINE target == IF player.known /\ time > Duration THEN Duration ELSE time
             r == player.request + 1
             q == [player EXCEPT !.request = r, !.pending = target]
  <2>1. target \in Times /\ r \in Nat
    BY <1>1 DEF Times, Players
  <2>2. player' = q \/ player' = TakeTarget(q)
    BY <1>6 DEF SeekTo
  <2> HIDE DEF target, r
  <2>3. /\ q \in Players /\ q.heard = player.heard /\ q.last = player.last /\ q.gen = player.gen
        /\ q.complete = player.complete /\ q.state = player.state
    BY <1>1, <2>1 DEF Players
  <2> HIDE DEF q
  <2> QED BY <2>2, <2>3, PlayerFields, QuietWhen
<1> QED BY <1>2, <1>3, <1>4, <1>5, <1>6

LEMMA AnswersQuiet ==
  ASSUME TypeInv, OrderInv, NEW c \in Chains, AnswerPlayer(c)
  PROVE  \/ Quiet
         \/ /\ chain[c].pc = "ok" /\ chain[c].step = "start"
            /\ player' = [player EXCEPT !.gen = chain[c].gen, !.state = "playing", !.complete = FALSE]
<1>1. player \in Players
  BY DEF TypeInv, TypeOK
<1>2. CASE UNCHANGED player \/ PlayerFails \/ player' = Known(player)
  BY <1>1, <1>2, PlayerFields, QuietWhen DEF PlayerFails
<1>3. CASE AnswerSeek(c)
  <2> DEFINE q == AfterSeek(c)
  <2>1. /\ q \in Players
        /\ q.gen \in {player.gen, None}
        /\ q.gen # None => /\ q.heard = player.heard /\ q.last = player.last
                           /\ q.complete = player.complete /\ q.state = player.state
        /\ \/ q.heard = player.heard /\ q.last = player.last
           \/ q.heard = <<>> /\ q.last = 0 /\ q.gen = None
        /\ q.state = "failed" => q.gen = None
    <3>1. CASE q = player
      BY <1>1, <3>1 DEF OrderInv, PlayerInv
    <3>2. CASE q = Failed(player)
      <4>1. /\ Failed(player) \in Players /\ Failed(player).heard = <<>>
            /\ Failed(player).last = 0 /\ Failed(player).gen = None
        BY <1>1, PlayerTypes, PlayerFields
      <4> HIDE DEF q
      <4> QED BY <3>2, <4>1
    <3>3. CASE q = [player EXCEPT !.gen = None, !.state = "ended", !.complete = TRUE]
      BY <1>1, <3>3 DEF Players
    <3> QED BY <3>1, <3>2, <3>3 DEF AfterSeek
  <2>2. \/ UNCHANGED player \/ player' = Known(player)
        \/ player' = TakeTarget(q) \/ player' = [q EXCEPT !.worker = FALSE]
    BY <1>3 DEF AnswerSeek
  <2> HIDE DEF q
  <2>3. CASE player' = TakeTarget(q)
    BY <2>1, <2>3, PlayerFields, QuietWhen
  <2>4. CASE player' = [q EXCEPT !.worker = FALSE]
    <3>1. /\ player'.heard = q.heard /\ player'.last = q.last /\ player'.gen = q.gen
          /\ player'.complete = q.complete /\ player'.state = q.state
      BY <2>1, <2>4 DEF Players
    <3> QED BY <2>1, <3>1 DEF Quiet
  <2> QED BY <1>2, <2>2, <2>3, <2>4
<1> QED BY <1>2, <1>3 DEF AnswerPlayer, AnswerGone, AnswerMount, AnswerPlay

\* The position of a stream nothing has touched.
LEMMA PositionKept ==
  ASSUME TypeInv, [Next]_vars, NEW g \in Generations, channel'[g] = channel[g],
         task'[g] = task[g], Heard(g)' = Heard(g),
         manager'.gen = manager.gen \/ manager'.gen # g
  PROVE  /\ Position(g) => Position(g)'
         /\ Position(g) /\ Whole(g) => Whole(g)'
<1>1. Position(g) => Position(g)'
  BY DEF Position, Live
<1>2. Whole(g) => Whole(g)'
  BY Unfailed DEF Whole, Live
<1> QED BY <1>1, <1>2

\* Quiet steps of commands and controls that leave the streams alone.
LEMMA StillOrder ==
  ASSUME TypeInv, ReadsInv, OrderInv, ReadsInv', Next, \A d \in Chains : ~Connect(d),
         UNCHANGED <<stream, task, channel>>, manager'.gen = manager.gen,
         manager'.opened = manager.opened, Quiet,
         \A g \in Generations : pump'[g] = "receiving" => pump[g] = "receiving",
         \A c \in Chains : chain[c].pc = "launch" /\ Waiting(c)' => chain'[c].pc = "launch"
  PROVE  OrderInv'
BY PositionKept, OrderKept

LEMMA ReadFrameOrder ==
  ASSUME TypeInv, HandleInv, ReadsInv, FailInv, OrderInv, ReadsInv', NEW g \in Generations,
         ReadFrame(g), \A d \in Chains : ~Connect(d)
  PROVE  OrderInv'
<1> DEFINE i == NextFile(Listed(g))
<1>1. /\ Next /\ Live(g) /\ UNCHANGED <<pump, manager, chain, player>>
      /\ task[g].previous \in Nat /\ channel[g] \in Seq(Segments)
  <2>1. Next
    BY DEF Next, Consume
  <2> QED BY <2>1, SegmentNumbers DEF ReadFrame, window, Live, TypeInv, TypeOK, Tasks
<1>2. \A h \in Generations : h # g =>
        task'[h] = task[h] /\ channel'[h] = channel[h]
  BY DEF ReadFrame, TypeInv, TypeOK
<1>3. Position(g) => Position(g)'
  <2> SUFFICES ASSUME Position(g) PROVE Position(g)'
    OBVIOUS
  <2>1. CASE /\ NextFrame(g) = "audio"
             /\ task' = [task EXCEPT ![g].previous = i]
             /\ channel' = [channel EXCEPT ![g] = Append(@, i)]
    <3>1. i = task[g].previous + 1 /\ i \in Segments
      BY <1>1, <2>1, NextIsRead
    <3> HIDE DEF i
    <3>2. task'[g].previous = i /\ channel'[g] = Append(channel[g], i)
      BY <2>1 DEF TypeInv, TypeOK, Tasks
    <3>3. task[g].previous = Heard(g) + Len(channel[g])
      BY <1>1 DEF Position
    <3>4. Heard(g)' = Heard(g) /\ Heard(g) \in Nat
      BY <1>1 DEF Heard, TypeInv, TypeOK, Players
    <3>5. /\ Len(channel'[g]) = Len(channel[g]) + 1
          /\ \A j \in 1 .. Len(channel[g]) : channel'[g][j] = channel[g][j]
          /\ channel'[g][Len(channel[g]) + 1] = i
      BY <1>1, <3>1, <3>2
    <3>6. task'[g].previous = Heard(g)' + Len(channel'[g])
      BY <1>1, <3>1, <3>2, <3>3, <3>4, <3>5
    <3>7. ASSUME NEW j \in 1 .. Len(channel'[g]) PROVE channel'[g][j] = Heard(g)' + j
      <4>1. CASE j = Len(channel[g]) + 1
        BY <1>1, <3>1, <3>3, <3>4, <3>5, <4>1
      <4>2. CASE j \in 1 .. Len(channel[g])
        BY <3>4, <3>5, <4>2 DEF Position
      <4> QED BY <1>1, <3>5, <4>1, <4>2
    <3> QED BY <3>6, <3>7 DEF Position
  <2>2. CASE /\ task' = [task EXCEPT ![g] = [NoTask EXCEPT !.pc = IF NextFrame(g) = "end"
                                                                  THEN "ended" ELSE "failed"]]
             /\ UNCHANGED <<stream, channel>>
    <3>1. ~Live(g)'
      BY <2>2 DEF TypeInv, TypeOK, NoTask, Live
    <3> QED BY <1>1, <2>2, <3>1 DEF Position, Heard
  <2> QED BY <2>1, <2>2 DEF ReadFrame
<1>4. Position(g) => Whole(g)'
  <2> SUFFICES ASSUME Position(g), failures' = 0, ~Live(g)'
               PROVE  Heard(g)' + Len(channel'[g]) = Len(Recording)
    BY DEF Whole
  <2>1. failures = 0 /\ ~Fails
    BY <1>1, Unfailed
  <2>2. CASE /\ task' = [task EXCEPT ![g].previous = i]
    BY <1>1, <2>2 DEF TypeInv, TypeOK, Tasks, Live
  <2>3. CASE NextFrame(g) = "audio" /\ UNCHANGED channel
             /\ IF NextFrame(g) = "audio" /\ i > task[g].previous /\ ~Dropped(g)
                THEN Fails ELSE UNCHANGED failures
    <3>1. i = task[g].previous + 1
      BY <1>1, <2>3, NextIsRead
    <3> HIDE DEF i
    <3> QED BY <1>1, <2>1, <2>3, <3>1, UnfailedReads
  <2>4. CASE NextFrame(g) # "audio" /\ UNCHANGED channel
    <3>1. task[g].previous = Len(Recording)
      BY <1>1, <2>1, <2>4, UnfailedReads
    <3> QED BY <1>1, <2>4, <3>1 DEF Position, Heard
  <2> QED BY <2>2, <2>3, <2>4 DEF ReadFrame
<1>5. Quiet
  BY <1>1, QuietWhen
<1>6. ASSUME NEW h \in Generations, Heard(h)' = Heard(h)
      PROVE  /\ Position(h) => Position(h)'
             /\ Position(h) /\ Whole(h) => Whole(h)'
  BY <1>1, <1>2, <1>3, <1>4, <1>6, PositionKept
<1> QED BY <1>1, <1>5, <1>6, OrderKept

LEMMA FinishStreamOrder ==
  ASSUME TypeInv, HandleInv, ReadsInv, FailInv, OrderInv, ReadsInv', NEW g \in Generations,
         FinishStream(g), \A d \in Chains : ~Connect(d)
  PROVE  OrderInv'
<1>1. Next /\ UNCHANGED <<pump, chain, player, failures>> /\ manager \in Managers
  <2>1. Next
    BY DEF Next, Consume
  <2> QED BY <2>1 DEF FinishStream, window, TypeInv, TypeOK
<1>2. manager'.gen = manager.gen /\ manager'.opened = manager.opened
  BY <1>1 DEF FinishStream, Result, Managers
<1>3. /\ ~Live(g) /\ ~Live(g)'
      /\ \A h \in Generations : h # g => task'[h] = task[h] /\ channel'[h] = channel[h]
  BY DEF FinishStream, Live, TypeInv, TypeOK, NoTask
<1>4. channel'[g] = channel[g] \/ (channel'[g] = <<>> /\ task[g].pc = "failed")
  BY DEF FinishStream, TypeInv, TypeOK
<1>5. Quiet
  BY <1>1, QuietWhen
<1>6. ASSUME NEW h \in Generations, Heard(h)' = Heard(h)
      PROVE  /\ Position(h) => Position(h)'
             /\ Position(h) /\ Whole(h) => Whole(h)'
  <2>1. CASE h # g
    BY <1>1, <1>2, <1>3, <1>6, <2>1, PositionKept
  <2>2. CASE h = g /\ channel'[g] = channel[g]
    BY <1>1, <1>2, <1>3, <1>6, <2>2 DEF Position, Whole
  <2>3. CASE h = g /\ channel'[g] = <<>> /\ task[g].pc = "failed"
    <3>1. failures' # 0
      BY <1>1, <2>3 DEF FailInv
    <3>2. Len(channel'[g]) = 0
      BY <2>3
    <3> QED BY <1>3, <2>3, <3>1, <3>2 DEF Position, Whole
  <2> QED BY <1>4, <2>1, <2>2, <2>3
<1> QED BY <1>1, <1>2, <1>5, <1>6, OrderKept

\* The stream the player is at: its next segment is the one the channel holds.
LEMMA ChunkHeard ==
  ASSUME TypeInv, HandleInv, ReadsInv, FailInv, OrderInv, Next, \A d \in Chains : ~Connect(d),
         NEW g \in Generations, pump[g] = "receiving", channel[g] # <<>>, player.gen = g,
         Head(channel[g]) > player.last,
         player'.last = Head(channel[g]), player'.gen = player.gen, player'.state = player.state,
         player'.complete = player.complete,
         player'.heard = Append(player.heard, [gen |-> g, segment |-> Head(channel[g])]),
         channel' = [channel EXCEPT ![g] = Tail(@)],
         UNCHANGED <<pump, manager, stream, task, chain, failures>>
  PROVE  OrderInv'
<1> DEFINE i == Head(channel[g])
           new == [gen |-> g, segment |-> i]
<1>1. /\ channel[g] \in Seq(Segments) /\ player \in Players /\ i = channel[g][1]
      /\ Len(channel[g]) \in Nat \ {0}
      /\ player.heard \in Seq([gen : Generations, segment : Segments])
  BY DEF TypeInv, TypeOK, Players
<1>2. Position(g) /\ Whole(g) /\ PlayerInv
  BY DEF OrderInv
<1>3. i = Heard(g) + 1
  BY <1>1, <1>2 DEF Position
<1>4. Heard(g) = Len(player.heard) /\ Len(player.heard) \in Nat
  BY <1>1, <1>2, <1>3 DEF PlayerInv, Heard
<1>5. \A j \in DOMAIN player.heard : player.heard[j].gen = g
  BY <1>1, <1>2, <1>4 DEF PlayerInv, HeardInOrder, Heard
<1> HIDE DEF i
<1>6. i \in Segments /\ new.gen = g /\ new.segment = i
  BY <1>1
<1> HIDE DEF new
<1>7. /\ player'.heard = Append(player.heard, new) /\ Len(player'.heard) = Len(player.heard) + 1
      /\ player'.heard # <<>> /\ player'.heard[1].gen = g
      /\ \A j \in DOMAIN player'.heard : player'.heard[j].segment = j /\ player'.heard[j].gen = g
  <2>1. player'.heard = Append(player.heard, new)
    BY DEF new, i
  <2>2. /\ DOMAIN player'.heard = 1 .. Len(player.heard) + 1
        /\ \A j \in 1 .. Len(player.heard) : player'.heard[j] = player.heard[j]
        /\ player'.heard[Len(player.heard) + 1] = new
        /\ Len(player'.heard) = Len(player.heard) + 1
    BY <1>1, <2>1
  <2>3. \A j \in DOMAIN player'.heard : player'.heard[j].segment = j /\ player'.heard[j].gen = g
    <3> SUFFICES ASSUME NEW j \in DOMAIN player'.heard
                 PROVE  player'.heard[j].segment = j /\ player'.heard[j].gen = g
      OBVIOUS
    <3>1. CASE j = Len(player.heard) + 1
      BY <1>3, <1>4, <1>6, <2>2, <3>1
    <3>2. CASE j \in 1 .. Len(player.heard)
      BY <1>1, <1>2, <1>5, <2>2, <3>2 DEF PlayerInv, HeardInOrder
    <3> QED BY <1>4, <2>2, <3>1, <3>2
  <2> QED BY <1>4, <2>1, <2>2, <2>3
<1>8. Heard(g)' = Heard(g) + 1 /\ \A h \in Generations : h # g => Heard(h)' = 0 /\ Heard(h) = 0
  BY <1>1, <1>4, <1>5, <1>7 DEF Heard
<1>9. PlayerInv'
  <2>1. HeardInOrder'
    BY <1>7 DEF HeardInOrder
  <2>2. player'.last = Len(player'.heard)
    BY <1>3, <1>4, <1>7 DEF i
  <2>3. g <= manager.opened
    BY <1>2, <1>4, SegmentNumbers DEF ReadsInv, Generations, TypeInv, TypeOK, Managers
  <2> QED BY <1>2, <1>7, <2>1, <2>2, <2>3 DEF PlayerInv
<1>10. /\ channel'[g] = Tail(channel[g]) /\ Len(channel'[g]) = Len(channel[g]) - 1
       /\ \A j \in 1 .. Len(channel[g]) - 1 : channel'[g][j] = channel[g][j + 1]
       /\ \A h \in Generations : h # g => channel'[h] = channel[h]
  BY <1>1 DEF TypeInv, TypeOK
<1>11. Position(g)' /\ Whole(g)'
  <2> DEFINE a == Heard(g)
             b == Heard(g)'
             n == Len(channel[g])
             m == Len(channel'[g])
  <2>1. a \in Nat /\ b = a + 1 /\ n \in Nat /\ m = n - 1
    BY <1>1, <1>4, <1>8, <1>10
  <2>2. \A j \in 1 .. n : channel[g][j] = a + j
    BY <1>2 DEF Position
  <2>3. \A j \in 1 .. n - 1 : channel'[g][j] = channel[g][j + 1]
    BY <1>10
  <2>4. (Live(g) => task[g].previous = a + n) /\ (Live(g)' <=> Live(g)) /\ task' = task
    BY <1>2 DEF Position, Live
  <2>5. /\ failures' = 0 /\ manager'.gen = g /\ ~Live(g)' => a + n = Len(Recording)
    BY <1>2 DEF Whole, Live
  <2> HIDE DEF a, b, n, m
  <2>6. \A j \in 1 .. m : channel'[g][j] = b + j
    <3> SUFFICES ASSUME NEW j \in 1 .. m PROVE channel'[g][j] = b + j
      OBVIOUS
    <3>1. j \in 1 .. n - 1 /\ j + 1 \in 1 .. n
      BY <2>1
    <3>2. channel'[g][j] = channel[g][j + 1]
      BY <2>3, <3>1
    <3>3. channel[g][j + 1] = a + (j + 1)
      BY <2>2, <3>1
    <3>4. b + j = a + (j + 1)
      BY <2>1, <3>1
    <3> QED BY <3>2, <3>3, <3>4
  <2>7. b + m = a + n
    BY <2>1
  <2>8. Live(g)' => task'[g].previous = b + m
    BY <2>4, <2>7
  <2>9. failures' = 0 /\ manager'.gen = g /\ ~Live(g)' => b + m = Len(Recording)
    BY <2>5, <2>7
  <2> QED BY <2>6, <2>8, <2>9 DEF Position, Whole, a, b, n, m
<1>12. ASSUME NEW c \in Chains, Waiting(c)'
       PROVE  /\ Heard(chain[c].gen)' = 0 /\ Position(chain[c].gen)'
              /\ chain'[c].pc # "launch" => Whole(chain[c].gen)'
  <2>1. PICK h \in Generations : h = chain[c].gen /\ h = chain'[c].gen
    BY <1>12, WaitingGen DEF Waiting
  <2>2. Waiting(c) /\ pump[h] = "none" /\ UNCHANGED chain
    BY <1>12, <2>1 DEF Waiting, ReadsInv
  <2>3. h # g /\ Heard(h) = 0 /\ Position(h) /\ (chain[c].pc # "launch" => Whole(h))
    BY <2>1, <2>2 DEF OrderInv
  <2>4. Heard(h)' = Heard(h) /\ channel'[h] = channel[h]
    BY <1>8, <1>10, <2>1, <2>3
  <2>5. Position(h)' /\ (Whole(h) => Whole(h)')
    BY <2>3, <2>4 DEF Position, Whole, Live
  <2>6. Heard(h)' = 0
    BY <2>3, <2>4
  <2> QED BY <2>1, <2>2, <2>3, <2>5, <2>6
<1>13. ~(player'.complete /\ player'.gen # None /\ failures' = 0)
  <2>1. i <= Len(Recording)
    BY <1>6, SegmentNumbers
  <2>2. Heard(g) # Len(Recording)
    BY <1>3, <1>4, <2>1, SegmentNumbers
  <2> QED BY <2>2, ConstantsAssumption DEF OrderInv, Generations
<1> QED BY <1>9, <1>11, <1>12, <1>13 DEF OrderInv

LEMMA EmitChunkOrder ==
  ASSUME TypeInv, HandleInv, ReadsInv, FailInv, OrderInv, ReadsInv', NEW g \in Generations,
         EmitChunk(g), \A d \in Chains : ~Connect(d)
  PROVE  OrderInv'
<1> DEFINE i == Head(channel[g])
<1>1. /\ Next /\ UNCHANGED <<stream, task, chain>> /\ manager'.gen = manager.gen
      /\ manager'.opened = manager.opened /\ pump[g] = "receiving" /\ channel[g] # <<>>
  <2>1. Next
    BY DEF Next, Pump
  <2> QED BY <2>1 DEF EmitChunk, TypeInv, TypeOK, Managers
<1>2. /\ \A h \in Generations : h # g => channel'[h] = channel[h] /\ pump'[h] = pump[h]
      /\ pump'[g] \in {"receiving", "none"}
  BY <1>1 DEF EmitChunk, TypeInv, TypeOK
<1>3. ASSUME Quiet, pump'[g] = "none" \/ player'.gen # g
      PROVE  OrderInv'
  <2>1. ASSUME NEW h \in Generations, pump'[h] = pump[h], Heard(h)' = Heard(h),
               pump[h] = "none" \/ player'.gen = h
        PROVE  /\ Position(h) => Position(h)'
               /\ Position(h) /\ Whole(h) => Whole(h)'
    <3>1. h # g
      BY <1>1, <1>3, <2>1
    <3> QED BY <1>1, <1>2, <2>1, <3>1, PositionKept
  <2> QED BY <1>1, <1>2, <1>3, <2>1, OrderKept
<1>4. CASE UNCHANGED player /\ pump'[g] = "none"
  BY <1>3, <1>4, QuietWhen
<1>5. CASE pump' = pump /\ manager' = manager /\ HearChunk(g, i)
           /\ channel' = [channel EXCEPT ![g] = Tail(@)]
  <2>1. CASE (g # player.gen \/ player.state = "failed") /\ UNCHANGED player
    <3>1. player.gen # g
      BY <2>1, ConstantsAssumption DEF OrderInv, PlayerInv, Generations
    <3> QED BY <1>3, <2>1, <3>1, QuietWhen
  <2>2. CASE player' = Failed(player)
    <3>1. player'.heard = <<>> /\ player'.last = 0 /\ player'.gen = None
      BY <2>2, PlayerFields DEF TypeInv, TypeOK
    <3> QED BY <1>3, <3>1, QuietWhen, ConstantsAssumption DEF Generations
  <2>3. CASE /\ player.gen = g /\ ~(i <= player.last) /\ UNCHANGED failures
             /\ player' = [player EXCEPT !.last = i, !.sources = @ + 1,
                                         !.heard = Append(@, [gen |-> g, segment |-> i])]
    <3> DEFINE h == Append(player.heard, [gen |-> g, segment |-> i])
               n == player.sources + 1
    <3>1. player \in Players /\ player' = [player EXCEPT !.last = i, !.sources = n, !.heard = h]
      BY <2>3 DEF TypeInv, TypeOK
    <3> HIDE DEF i, h, n
    <3>2. player'.last = i /\ player'.heard = h /\ player'.gen = player.gen
          /\ player'.state = player.state /\ player'.complete = player.complete
      BY <3>1 DEF Players
    <3>3. i > player.last
      <4>1. i \in Nat /\ player.last \in Nat
        BY <1>1, SegmentNumbers DEF i, TypeInv, TypeOK, Players
      <4> QED BY <2>3, <4>1
    <3> QED BY <1>1, <1>5, <2>3, <3>2, <3>3, ChunkHeard DEF h, i
  <2> QED BY <1>5, <2>1, <2>2, <2>3 DEF HearChunk, PlayerFails
<1> QED BY <1>4, <1>5 DEF EmitChunk, TypeInv, TypeOK

\* Only the launch takes a chain past its launch.
LEMMA LaunchStays ==
  ASSUME TypeInv, Next, \A d \in Chains : ~Launch(d)
  PROVE  \A c \in Chains : chain[c].pc = "launch" /\ Waiting(c)' => chain'[c].pc = "launch"
BY WaitingFrom DEF Connect, At

LEMMA CloseOrder ==
  ASSUME TypeInv, HandleInv, ReadsInv, FailInv, OrderInv, ReadsInv', NEW g \in Generations,
         Close(g), \A d \in Chains : ~Connect(d)
  PROVE  OrderInv'
<1>1. /\ Next /\ UNCHANGED <<stream, task, channel, manager, chain, failures>>
      /\ player \in Players /\ channel[g] = <<>> /\ ~Live(g)
  <2>1. Next
    BY DEF Next, Pump
  <2> QED BY <2>1 DEF Close, TypeInv, TypeOK
<1>2. /\ pump'[g] # "receiving" /\ \A h \in Generations : h # g => pump'[h] = pump[h]
      /\ pump[g] = "receiving"
  BY DEF Close, TypeInv, TypeOK
<1>3. CASE UNCHANGED player \/ player' = Failed(player)
  <2>1. Quiet
    BY <1>1, <1>3, PlayerFields, QuietWhen
  <2>2. \A h \in Generations : pump'[h] = "receiving" => pump[h] = "receiving"
    BY <1>2
  <2> QED BY <1>1, <2>1, <2>2, StillOrder
<1>4. CASE manager.gen = g /\ player.gen = g /\ player' = Finished([player EXCEPT !.complete = TRUE])
  <2> DEFINE q == [player EXCEPT !.complete = TRUE]
  <2>1. /\ q \in Players /\ q.heard = player.heard /\ q.last = player.last /\ q.gen = player.gen
        /\ q.state = player.state
    BY <1>1 DEF Players
  <2> HIDE DEF q
  <2>2. /\ player'.heard = player.heard /\ player'.last = player.last /\ player'.gen = player.gen
        /\ player'.state \in {player.state, "ended"}
    BY <1>4, <2>1, PlayerFields DEF q
  <2>3. PlayerInv'
    BY <1>1, <2>2 DEF OrderInv, PlayerInv, HeardInOrder
  <2>4. \A h \in Generations : (Position(h)' <=> Position(h)) /\ (Whole(h)' <=> Whole(h))
                               /\ Heard(h)' = Heard(h)
    BY <1>1, <2>2 DEF Position, Whole, Live, Heard
  <2>5. failures = 0 => Heard(g) = Len(Recording)
    <3>1. Whole(g)
      BY <1>2, <1>4 DEF OrderInv
    <3>2. Len(channel[g]) = 0
      BY <1>1
    <3>3. Heard(g) \in Nat
      BY <1>1 DEF Heard, Players
    <3> QED BY <1>1, <1>4, <3>1, <3>2, <3>3 DEF Whole
  <2>6. ASSUME NEW c \in Chains, Waiting(c)'
        PROVE  /\ Heard(chain[c].gen)' = 0 /\ Position(chain[c].gen)'
               /\ chain'[c].pc # "launch" => Whole(chain[c].gen)'
    <3>1. PICK h \in Generations : h = chain[c].gen /\ h = chain'[c].gen
      BY <1>1, <2>6, WaitingGen DEF Waiting
    <3>2. Waiting(c) /\ chain' = chain
      BY <1>1, <2>6 DEF Waiting
    <3> QED BY <2>4, <3>1, <3>2 DEF OrderInv
  <2>7. \A h \in Generations : ~(player'.gen = h /\ pump'[h] = "receiving")
    BY <1>2, <1>4, <2>2
  <2>8. failures' = 0 => Heard(player.gen)' = Len(Recording)
    BY <1>1, <1>4, <2>2, <2>4, <2>5
  <2> QED BY <2>3, <2>6, <2>7, <2>8 DEF OrderInv
<1> QED BY <1>3, <1>4 DEF Close, HearEnd, PlayerFails

LEMMA FinishPumpOrder ==
  ASSUME TypeInv, HandleInv, ReadsInv, FailInv, OrderInv, ReadsInv', NEW g \in Generations,
         FinishPump(g), \A d \in Chains : ~Connect(d)
  PROVE  OrderInv'
<1>1. Next /\ UNCHANGED <<stream, task, channel, chain, player>> /\ Quiet
  <2>1. Next
    BY DEF Next, Pump
  <2> QED BY <2>1, QuietWhen DEF FinishPump, window
<1>2. manager'.gen = manager.gen /\ manager'.opened = manager.opened
  BY DEF FinishPump, TypeInv, TypeOK, Managers
<1>3. \A h \in Generations : pump'[h] = "receiving" => pump[h] = "receiving"
  BY DEF FinishPump, TypeInv, TypeOK
<1> QED BY <1>1, <1>2, <1>3, StillOrder

LEMMA HeardGenerations ==
  ASSUME TypeInv, OrderInv, player.heard # <<>>
  PROVE  player.heard[1].gen \in Generations /\ player.heard[1].gen <= manager.opened
<1> DEFINE S == [gen : Generations, segment : Segments]
           h == player.heard
<1>1. h \in Seq(S) /\ h # <<>>
  BY DEF TypeInv, TypeOK, Players
<1>2. h[1] \in S
  <2> HIDE DEF S, h
  <2> QED BY <1>1
<1> QED BY <1>2 DEF OrderInv, PlayerInv

\* A new generation: the player hears an older one or none.
LEMMA ConnectOrder ==
  ASSUME TypeInv, HandleInv, ReadsInv, FailInv, OrderInv, NEW c \in Chains, Connect(c)
  PROVE  OrderInv'
<1>1. /\ Next /\ manager \in Managers /\ UNCHANGED <<stream, task, player>>
      /\ chain[c].pc = "connect" /\ ~Waiting(c)
  <2>1. Next
    BY DEF Next, Manage
  <2> QED BY <2>1 DEF Connect, At, Waiting, TypeInv, TypeOK
<1>2. failures' = 0 => failures = 0
  BY <1>1, Unfailed
<1>3. CASE Go(c, "err") /\ UNCHANGED <<pump, channel>> /\ manager'.opened = manager.opened
           /\ manager'.gen = manager.gen
  <2>1. \A d \in Chains : chain'[d].pc # "err" => chain'[d] = chain[d]
    BY <1>3 DEF Go, TypeInv, TypeOK, ChainSet
  <2>2. \A h \in Generations : (Position(h) => Position(h)') /\ (Whole(h) => Whole(h)')
                               /\ Heard(h)' = Heard(h)
    BY <1>1, <1>2, <1>3 DEF Position, Whole, Live, Heard
  <2>3. ASSUME NEW d \in Chains, Waiting(d)'
        PROVE  /\ Heard(chain[d].gen)' = 0 /\ Position(chain[d].gen)'
               /\ chain'[d].pc # "launch" => Whole(chain[d].gen)'
    <3>1. Waiting(d) /\ chain'[d] = chain[d]
      BY <2>1, <2>3 DEF Waiting
    <3>2. PICK h \in Generations : h = chain[d].gen /\ h = chain'[d].gen
      BY <3>1, WaitingGen
    <3> QED BY <2>2, <3>1, <3>2 DEF OrderInv
  <2>4. PlayerInv'
    BY <1>1, <1>3 DEF OrderInv, PlayerInv, HeardInOrder
  <2>5. Heard(player.gen)' = Heard(player.gen)
    BY <1>1 DEF Heard
  <2>6. \A h \in Generations : player'.gen = h /\ pump'[h] = "receiving" => Position(h)' /\ Whole(h)'
    BY <1>1, <1>3, <2>2 DEF OrderInv
  <2>7. player'.complete /\ player'.gen # None /\ failures' = 0 => Heard(player.gen)' = Len(Recording)
    BY <1>1, <1>2, <2>5 DEF OrderInv
  <2> QED BY <2>3, <2>4, <2>6, <2>7 DEF OrderInv
<1>4. CASE /\ manager.state = "starting"
           /\ manager' = [manager EXCEPT !.gen = NextGeneration, !.opened = NextGeneration,
                                         !.state = "streaming", !.receiver = NextGeneration]
           /\ pump' = Forgotten(pump, {manager.gen}, "none")
           /\ channel' = Forgotten(channel, {manager.gen}, <<>>)
           /\ chain' = [chain EXCEPT ![c].pc = "launch", ![c].gen = NextGeneration]
  <2>1. PICK n \in Generations :
           /\ n = manager.opened + 1 /\ manager.opened \in Nat /\ n = NextGeneration
           /\ manager'.gen = n /\ manager'.opened = n
    <3>1. TypeInv'
      BY <1>1, TypeInvStep
    <3>2. /\ NextGeneration = manager.opened + 1 /\ manager.opened \in Nat
          /\ manager'.gen = NextGeneration /\ manager'.opened = NextGeneration
      BY <1>1, <1>4 DEF Managers, NextGeneration, Generations
    <3> QED BY <3>1, <3>2 DEF TypeInv, TypeOK, Managers
  <2>2. \A h \in Generations : ~Live(h) /\ ~Live(h)'
    BY <1>1, <1>4, ConstantsAssumption DEF HandleInv, Live, Generations
  <2>3. channel[n] = <<>>
    BY <2>1 DEF ReadsInv
  <2>4. /\ chain'[c].gen = n /\ chain'[c].pc = "launch"
        /\ \A d \in Chains : d # c => chain'[d] = chain[d]
    BY <1>4, <2>1 DEF TypeInv, TypeOK, ChainSet
  <2>5. \A h \in Generations : /\ channel'[h] \in {channel[h], <<>>}
                               /\ h # manager.gen => channel'[h] = channel[h]
                               /\ pump'[h] = "receiving" => pump[h] = "receiving" /\ h # manager.gen
    BY <1>4 DEF Forgotten
  <2>6. \A h : Heard(h)' = Heard(h)
    BY <1>1 DEF Heard
  <2>7. \A h \in Generations : Position(h) => Position(h)'
    <3> SUFFICES ASSUME NEW h \in Generations, Position(h) PROVE Position(h)'
      OBVIOUS
    <3>1. CASE channel'[h] = channel[h]
      BY <2>2, <2>6, <3>1 DEF Position
    <3>2. CASE channel'[h] = <<>>
      <4>1. 1 .. Len(channel'[h]) = {}
        BY <3>2
      <4> QED BY <2>2, <4>1 DEF Position
    <3> QED BY <2>5, <3>1, <3>2
  <2>8. \A h \in Generations : h # n => Whole(h)'
    BY <2>1 DEF Whole
  <2>9. Heard(n)' = 0 /\ Position(n)'
    <3>1. Heard(n) = 0
      <4>1. player.heard # <<>> => player.heard[1].gen # n
        <5>1. player.heard # <<>> => player.heard[1].gen \in Generations
                                     /\ player.heard[1].gen <= manager.opened
          BY HeardGenerations
        <5> QED BY <2>1, <5>1 DEF Generations
      <4> QED BY <4>1 DEF Heard
    <3>2. channel'[n] = <<>>
      BY <2>1, <2>3, <2>5
    <3>3. 1 .. Len(channel'[n]) = {}
      BY <3>2
    <3> QED BY <2>1, <2>2, <2>6, <3>1, <3>3 DEF Position
  <2>10. ASSUME NEW d \in Chains, Waiting(d)'
         PROVE  /\ Heard(chain[d].gen)' = 0 /\ Position(chain[d].gen)'
                /\ chain'[d].pc # "launch" => Whole(chain[d].gen)'
    <3>1. CASE d = c
      BY <2>4, <2>9, <3>1
    <3>2. CASE d # c
      <4>1. Waiting(d) /\ chain'[d] = chain[d]
        BY <2>4, <2>10, <3>2 DEF Waiting
      <4>2. PICK h \in Generations : h = chain[d].gen /\ h = chain'[d].gen /\ h <= manager.opened
        BY <4>1, WaitingGen
      <4>3. h # n /\ Heard(h) = 0 /\ Position(h)
        BY <2>1, <4>1, <4>2 DEF OrderInv, Generations
      <4> QED BY <2>6, <2>7, <2>8, <4>2, <4>3
    <3> QED BY <3>1, <3>2
  <2>11. ASSUME NEW h \in Generations, player'.gen = h, pump'[h] = "receiving"
         PROVE  Position(h)' /\ Whole(h)'
    <3>1. player.gen = h /\ pump[h] = "receiving"
      BY <1>1, <2>5, <2>11
    <3>2. h # n
      BY <2>1, <3>1 DEF ReadsInv
    <3> QED BY <2>7, <2>8, <3>1, <3>2 DEF OrderInv
  <2>12. PlayerInv'
    <3>1. player.heard # <<>> => player.heard[1].gen <= n
      <4>1. player.heard # <<>> => player.heard[1].gen \in Generations
                                   /\ player.heard[1].gen <= manager.opened
        BY HeardGenerations
      <4> QED BY <2>1, <4>1 DEF Generations
    <3> QED BY <1>1, <2>1, <3>1 DEF OrderInv, PlayerInv, HeardInOrder
  <2> QED BY <1>1, <1>2, <2>6, <2>10, <2>11, <2>12 DEF OrderInv
<1> QED BY <1>1, <1>3, <1>4 DEF Connect, Managers

LEMMA LaunchOrder ==
  ASSUME TypeInv, HandleInv, ReadsInv, FailInv, OrderInv, ReadsInv', NEW c \in Chains, Launch(c),
         \A d \in Chains : ~Connect(d)
  PROVE  OrderInv'
<1>1. /\ Next /\ UNCHANGED <<channel, pump, player, failures>> /\ manager \in Managers
      /\ chain[c].pc = "launch" /\ Quiet
  <2>1. Next
    BY DEF Next, Manage
  <2> QED BY <2>1, QuietWhen DEF Launch, At, TypeInv, TypeOK
<1>2. PICK g \in Generations : g = chain[c].gen /\ g <= manager.opened
  BY <1>1, WaitingGen DEF Waiting
<1>3. CASE Go(c, "err") /\ UNCHANGED <<manager, task, stream>>
  <2>1. chain'[c].pc = "err" /\ \A d \in Chains : d # c => chain'[d] = chain[d]
    BY <1>3 DEF Go, TypeInv, TypeOK, ChainSet
  <2>2. \A d \in Chains : chain[d].pc = "launch" /\ Waiting(d)' => chain'[d].pc = "launch"
    BY <2>1 DEF Waiting
  <2> QED BY <1>1, <1>3, <2>2, StillOrder
<1>4. CASE /\ manager' = [manager EXCEPT !.task = g]
           /\ task' = [task EXCEPT ![g] = [NoTask EXCEPT !.pc = "consuming"]]
           /\ chain' = [chain EXCEPT ![c].pc = "ok", ![c].meeting = None]
  <2>1. manager'.gen = manager.gen /\ manager'.opened = manager.opened
    BY <1>1, <1>4 DEF Managers
  <2>2. /\ task'[g].pc = "consuming" /\ task'[g].previous = 0
        /\ \A h \in Generations : h # g => task'[h] = task[h]
    BY <1>4 DEF NoTask, TypeInv, TypeOK
  <2>3. /\ chain'[c].gen = g /\ \A d \in Chains : d # c => chain'[d] = chain[d]
    BY <1>2, <1>4 DEF TypeInv, TypeOK, ChainSet
  <2>4. \A h \in Generations : Heard(h)' = Heard(h)
    BY <1>1 DEF Heard
  <2>5. Heard(g) = 0 /\ channel[g] = <<>> /\ pump[g] = "none"
    BY <1>1, <1>2 DEF OrderInv, ReadsInv, Waiting
  <2>6. Position(g)' /\ Whole(g)'
    <3>1. Len(channel'[g]) = 0 /\ 1 .. 0 = {}
      BY <1>1, <2>5
    <3> QED BY <1>1, <2>2, <2>4, <2>5, <3>1 DEF Position, Whole, Live
  <2>7. ASSUME NEW h \in Generations, h # g
        PROVE  /\ Position(h) => Position(h)'
               /\ Position(h) /\ Whole(h) => Whole(h)'
    BY <1>1, <2>1, <2>2, <2>4, <2>7, PositionKept
  <2>8. ASSUME NEW d \in Chains, Waiting(d)'
        PROVE  /\ Heard(chain[d].gen)' = 0 /\ Position(chain[d].gen)'
               /\ chain'[d].pc # "launch" => Whole(chain[d].gen)'
    <3>1. CASE d = c
      BY <1>2, <2>3, <2>4, <2>5, <2>6, <3>1
    <3>2. CASE d # c
      <4>1. Waiting(d) /\ chain'[d] = chain[d]
        BY <2>3, <2>8, <3>2 DEF Waiting
      <4>2. PICK h \in Generations : h = chain[d].gen /\ h = chain'[d].gen
        BY <4>1, WaitingGen
      <4>3. h # g
        <5>1. g # None
          BY <1>2, ConstantsAssumption DEF Generations
        <5> QED BY <1>2, <3>2, <4>2, <5>1 DEF TypeInv, ChainInv
      <4>4. Heard(h) = 0 /\ Position(h) /\ (chain[d].pc # "launch" => Whole(h))
        BY <4>1, <4>2 DEF OrderInv
      <4> QED BY <2>4, <2>7, <4>1, <4>2, <4>3, <4>4
    <3> QED BY <3>1, <3>2
  <2>9. ASSUME NEW h \in Generations, player'.gen = h, pump'[h] = "receiving"
        PROVE  Position(h)' /\ Whole(h)'
    <3>1. player.gen = h /\ pump[h] = "receiving" /\ h # g
      BY <1>1, <2>5, <2>9
    <3> QED BY <2>7, <3>1 DEF OrderInv
  <2>10. PlayerInv'
    BY <1>1, <2>1, QuietPlayer DEF OrderInv
  <2>11. player'.complete /\ player'.gen # None /\ failures' = 0 => Heard(player.gen)' = Len(Recording)
    BY <1>1 DEF OrderInv, Heard
  <2> QED BY <2>8, <2>9, <2>10, <2>11 DEF OrderInv
<1> QED BY <1>2, <1>3, <1>4 DEF Launch

\* From here on the player that has the generation listens to the pump.
LEMMA ActivateOrder ==
  ASSUME TypeInv, HandleInv, ReadsInv, FailInv, OrderInv, ReadsInv', NEW c \in Chains, Activate(c),
         \A d \in Chains : ~Connect(d)
  PROVE  OrderInv'
<1>1. /\ Next /\ UNCHANGED <<stream, task, channel, manager, player, failures>>
      /\ chain[c].pc = "activate" /\ Quiet
  <2>1. Next
    BY DEF Next, Manage
  <2> QED BY <2>1, QuietWhen DEF Activate, At
<1>2. PICK g \in Generations : g = chain[c].gen
  BY <1>1, WaitingGen DEF Waiting
<1>3. chain'[c].pc \in {"err", "register"} /\ \A d \in Chains : d # c => chain'[d] = chain[d]
  BY DEF Activate, Go, TypeInv, TypeOK, ChainSet
<1>4. \A h \in Generations : h # g => pump'[h] = pump[h]
  BY <1>2 DEF Activate, TypeInv, TypeOK
<1>5. Position(g) /\ Whole(g)
  BY <1>1, <1>2 DEF OrderInv, Waiting
<1>6. \A h \in Generations : /\ Position(h)' <=> Position(h)
                             /\ Whole(h)' <=> Whole(h)
                             /\ Heard(h)' = Heard(h)
  BY <1>1 DEF Position, Whole, Live, Heard
<1>7. ASSUME NEW d \in Chains, Waiting(d)'
      PROVE  /\ Heard(chain[d].gen)' = 0 /\ Position(chain[d].gen)'
             /\ chain'[d].pc # "launch" => Whole(chain[d].gen)'
  <2>1. Waiting(d) /\ chain'[d] = chain[d]
    BY <1>3, <1>7 DEF Waiting
  <2>2. PICK h \in Generations : h = chain[d].gen /\ h = chain'[d].gen
    BY <2>1, WaitingGen
  <2> QED BY <1>6, <2>1, <2>2 DEF OrderInv
<1>8. ASSUME NEW h \in Generations, player'.gen = h, pump'[h] = "receiving"
      PROVE  Position(h)' /\ Whole(h)'
  BY <1>1, <1>4, <1>5, <1>6, <1>8 DEF OrderInv
<1>9. PlayerInv'
  BY <1>1, QuietPlayer DEF OrderInv
<1>10. player'.complete /\ player'.gen # None /\ failures' = 0 => Heard(player.gen)' = Len(Recording)
  BY <1>1 DEF OrderInv, Heard
<1> QED BY <1>7, <1>8, <1>9, <1>10 DEF OrderInv

\* The streams are aborted: what was heard stays, and nothing more will be.
LEMMA AbortedOrder ==
  ASSUME TypeInv, HandleInv, ReadsInv, OrderInv, ReadsInv', Next, \A d \in Chains : ~Connect(d),
         \A d \in Chains : ~Launch(d),
         Aborted, manager'.gen = None, manager'.opened = manager.opened, UNCHANGED player
  PROVE  OrderInv'
<1>1. /\ \A g \in Generations : ~Live(g)'
      /\ \A g \in Generations : channel'[g] \in {channel[g], <<>>}
      /\ \A g \in Generations : pump'[g] = "receiving" => pump[g] = "receiving"
  BY AbortedTasks DEF Aborted, Forgotten, Live
<1>2. ASSUME NEW g \in Generations, Heard(g)' = Heard(g)
      PROVE  /\ Position(g) => Position(g)'
             /\ Position(g) /\ Whole(g) => Whole(g)'
  <2>1. Whole(g)'
    BY ConstantsAssumption DEF Whole, Generations
  <2>2. CASE channel'[g] = channel[g]
    BY <1>1, <1>2, <2>1, <2>2 DEF Position
  <2>3. CASE channel'[g] = <<>>
    <3>1. 1 .. Len(channel'[g]) = {}
      BY <2>3
    <3> QED BY <1>1, <2>1, <3>1 DEF Position
  <2> QED BY <1>1, <2>2, <2>3
<1>3. Quiet
  BY QuietWhen
<1> QED BY <1>1, <1>2, <1>3, LaunchStays, OrderKept

LEMMA RegisterOrder ==
  ASSUME TypeInv, HandleInv, ReadsInv, FailInv, OrderInv, ReadsInv', NEW c \in Chains,
         Register(c) \/ Resolve(c), \A d \in Chains : ~Connect(d)
  PROVE  OrderInv'
<1>1. /\ Next /\ UNCHANGED player /\ manager \in Managers /\ Quiet
      /\ chain[c].pc \in {"register", "resolve"} /\ (Go(c, "ok") \/ Go(c, "err"))
  <2>1. Next
    BY DEF Next, Manage
  <2> QED BY <2>1, QuietWhen DEF Register, Resolve, At, TypeInv, TypeOK
<1>2. \A d \in Chains : d # c => chain'[d] = chain[d]
  BY <1>1 DEF Go, TypeInv, TypeOK
<1>3. \A d \in Chains : chain[d].pc = "launch" /\ Waiting(d)' => chain'[d].pc = "launch"
  BY <1>1, <1>2
<1>4. CASE Register(c)
  <2>1. /\ UNCHANGED <<stream, task, channel>> /\ manager'.gen = manager.gen
        /\ manager'.opened = manager.opened
    BY <1>1, <1>4 DEF Register, Managers
  <2>2. \A g \in Generations : pump'[g] = "receiving" => pump[g] = "receiving"
    BY <1>4 DEF Register, TypeInv, TypeOK
  <2> QED BY <1>1, <1>3, <2>1, <2>2, StillOrder
<1>5. CASE UNCHANGED <<manager, streaming>>
  BY <1>1, <1>3, <1>5, StillOrder DEF streaming
<1>6. CASE Aborted /\ manager'.gen = None /\ manager'.opened = manager.opened
  <2>1. \A d \in Chains : ~Launch(d)
    <3> SUFFICES ASSUME NEW d \in Chains, Launch(d) PROVE FALSE
      OBVIOUS
    <3>1. d # c /\ chain[d].pc = "launch" /\ chain'[d].pc # "launch"
      BY <1>1 DEF Launch, At, Go, TypeInv, TypeOK, ChainSet
    <3> QED BY <1>2, <3>1
  <2> QED BY <1>1, <1>6, <2>1, AbortedOrder
<1>7. CASE Resolve(c)
  <2>1. \/ UNCHANGED <<manager, streaming>>
        \/ /\ Aborted
           /\ manager' = [manager EXCEPT !.gen = None, !.task = None, !.pump = None, !.receiver = None,
                                         !.state = IF manager.meeting # None THEN "ready" ELSE @]
    BY <1>7 DEF Resolve
  <2> QED BY <1>1, <1>5, <1>6, <2>1 DEF Managers
<1> QED BY <1>4, <1>7

LEMMA StopOrder ==
  ASSUME TypeInv, HandleInv, ReadsInv, FailInv, OrderInv, ReadsInv', Stop, \A d \in Chains : ~Connect(d)
  PROVE  OrderInv'
<1>1. Next /\ Aborted /\ UNCHANGED <<chain, player>>
  BY DEF Next, Stop
<1>2. manager'.gen = None /\ manager'.opened = manager.opened
  BY DEF Stop, TypeInv, TypeOK, Managers
<1>3. \A d \in Chains : ~Launch(d)
  <2> SUFFICES ASSUME NEW d \in Chains, Launch(d) PROVE FALSE
    OBVIOUS
  <2>1. chain[d].pc = "launch" /\ chain'[d].pc # "launch"
    BY DEF Launch, At, Go, TypeInv, TypeOK, ChainSet
  <2> QED BY <1>1, <2>1
<1> QED BY <1>1, <1>2, <1>3, AbortedOrder

\* A player that learns its generation has not heard any of it.
LEMMA StartedOrder ==
  ASSUME TypeInv, HandleInv, ReadsInv, FailInv, OrderInv, ReadsInv', NEW c \in Chains, AnswerPlayer(c),
         \A d \in Chains : ~Connect(d), chain[c].pc = "ok", chain[c].step = "start",
         player' = [player EXCEPT !.gen = chain[c].gen, !.state = "playing", !.complete = FALSE],
         \A d \in Chains : ~Launch(d)
  PROVE  OrderInv'
<1>1. /\ Next /\ UNCHANGED <<stream, task, channel, pump, manager, failures>>
  <2>1. Next
    BY DEF Next
  <2> QED BY <2>1 DEF AnswerPlayer, AnswerGone, AnswerMount, AnswerPlay, AnswerSeek, streaming
<1>2. PICK g \in Generations : g = chain[c].gen /\ pump[g] = "none"
  BY WaitingGen DEF Waiting, ReadsInv
<1>3. /\ player'.gen = g /\ player'.heard = player.heard /\ player'.last = player.last
      /\ player'.complete = FALSE /\ player'.state = "playing"
  BY <1>2 DEF TypeInv, TypeOK, Players
<1>4. PlayerInv'
  BY <1>1, <1>3 DEF OrderInv, PlayerInv, HeardInOrder
<1>5. \A h \in Generations : /\ Position(h)' <=> Position(h)
                             /\ Whole(h)' <=> Whole(h)
                             /\ Heard(h)' = Heard(h)
  BY <1>1, <1>3 DEF Position, Whole, Live, Heard
<1>6. ASSUME NEW d \in Chains, Waiting(d)'
      PROVE  /\ Heard(chain[d].gen)' = 0 /\ Position(chain[d].gen)'
             /\ chain'[d].pc # "launch" => Whole(chain[d].gen)'
  <2>1. Waiting(d) /\ chain'[d].gen = chain[d].gen /\ (chain[d].pc = "launch" => chain'[d].pc = "launch")
    BY <1>1, <1>6, WaitingKept, LaunchStays
  <2>2. PICK h \in Generations : h = chain[d].gen /\ h = chain'[d].gen
    BY <2>1, WaitingGen
  <2> QED BY <1>5, <2>1, <2>2 DEF OrderInv
<1>7. \A h \in Generations : ~(player'.gen = h /\ pump'[h] = "receiving")
  BY <1>1, <1>2, <1>3
<1> QED BY <1>3, <1>4, <1>6, <1>7 DEF OrderInv

LEMMA OrderInvStep ==
  TypeInv /\ HandleInv /\ ReadsInv /\ FailInv /\ OrderInv /\ [Next]_vars => OrderInv'
<1> SUFFICES ASSUME TypeInv, HandleInv, ReadsInv, FailInv, OrderInv, [Next]_vars PROVE OrderInv'
  OBVIOUS
<1>1. ReadsInv'
  BY ReadsInvStep
<1>2. CASE UNCHANGED vars
  BY <1>2 DEF vars, OrderInv, PlayerInv, HeardInOrder, Position, Whole, Heard, Live, Waiting
<1>3. CASE \E c \in Chains : Connect(c)
  BY <1>3, ConnectOrder
<1>4. CASE Next /\ \A c \in Chains : ~Connect(c)
  <2>1. ASSUME NEW g \in Generations, Consume(g) \/ Pump(g)
        PROVE  OrderInv'
    BY <1>1, <1>4, <2>1, ReadFrameOrder, FinishStreamOrder, EmitChunkOrder, CloseOrder, FinishPumpOrder
       DEF Consume, Pump
  <2>2. CASE \A c \in Chains : ~Launch(c)
    <3>1. CASE /\ UNCHANGED streaming /\ manager'.gen = manager.gen
               /\ manager'.opened = manager.opened /\ Quiet
      BY <1>1, <1>4, <2>2, <3>1, LaunchStays, StillOrder DEF streaming
    <3>2. ASSUME NEW c \in Chains, Prepare(c) \/ Fetch(c) \/ Settle(c) \/ Start(c) \/ Seek(c)
          PROVE  OrderInv'
      <4>1. UNCHANGED <<streaming, player>>
        BY <3>2 DEF Prepare, Fetch, Settle, Start, Seek
      <4>2. \/ UNCHANGED manager
            \/ \E k \in {"loading", "ready", "failed", "starting"} : manager' = [manager EXCEPT !.state = k]
            \/ manager' = [manager EXCEPT !.state = "ready", !.meeting = chain[c].mount]
        BY <3>2 DEF Prepare, Fetch, Settle, Start, Seek
      <4>3. manager'.gen = manager.gen /\ manager'.opened = manager.opened
        BY <4>2 DEF TypeInv, TypeOK, Managers
      <4> QED BY <3>1, <4>1, <4>3, QuietWhen
    <3>3. ASSUME NEW c \in Chains, Manage(c)
          PROVE  OrderInv'
      BY <1>1, <1>4, <2>2, <3>2, <3>3, ActivateOrder, RegisterOrder DEF Manage
    <3>4. ASSUME NEW c \in Chains, AnswerPlayer(c)
          PROVE  OrderInv'
      <4>1. UNCHANGED <<streaming, manager>>
        BY <3>4 DEF AnswerPlayer, AnswerGone, AnswerMount, AnswerPlay, AnswerSeek
      <4> QED BY <1>1, <1>4, <2>2, <3>1, <3>4, <4>1, AnswersQuiet, StartedOrder
    <3>5. CASE \/ Play \/ Pause \/ PressStop \/ Remount \/ SourceEnds \/ StraySourceEnds
               \/ \E time \in Times : SeekTo(time)
      <4>1. UNCHANGED <<streaming, manager>>
        BY <3>5 DEF Play, Pause, PressStop, Remount, SourceEnds, StraySourceEnds, SeekTo
      <4> QED BY <3>1, <3>5, <4>1, ControlsQuiet
    <3>6. ASSUME NEW m \in Meetings, DeleteAudio(m)
          PROVE  OrderInv'
      BY <3>1, <3>6, QuietWhen DEF DeleteAudio, window
    <3> QED BY <1>1, <1>4, <2>1, <3>3, <3>4, <3>5, <3>6, StopOrder DEF Next
  <2> QED BY <1>1, <1>4, <2>2, LaunchOrder
<1> QED BY <1>2, <1>3, <1>4

LEMMA OrderInvariant == Spec => [](TypeInv /\ OrderInv)
BY InitTypeInv, TypeInvStep, InitHandleInv, HandleInvStep, InitReadsInv, ReadsInvStep,
   InitFailInv, FailInvStep, InitOrderInv, OrderInvStep, PTL DEF Spec

\* What the player has scheduled since it was last silent is one stream from its
\* first segment on without a gap (RecordingPlayer.tsx), whatever stops, seeks and
\* other players did to the streams in the meantime.
THEOREM HeardInOrderCorrect == Spec => []HeardInOrder
<1>1. OrderInv => HeardInOrder
  BY DEF OrderInv, PlayerInv
<1> QED BY <1>1, OrderInvariant, PTL

\* Playback that comes to its end has played everything: no event of an older
\* stream, and no stream that lost the race against its own reader, completes it.
THEOREM EndedIsWholeCorrect == Spec => []EndedIsWhole
<1>1. TypeInv /\ OrderInv => EndedIsWhole
  <2> SUFFICES ASSUME TypeInv, OrderInv, player.complete, player.gen # None, failures = 0
               PROVE  player.heard # <<>> /\ Len(player.heard) = Len(Recording)
    BY DEF EndedIsWhole
  <2>1. Heard(player.gen) = Len(Recording)
    BY DEF OrderInv
  <2> QED BY <2>1, SegmentNumbers DEF Heard
<1> QED BY <1>1, OrderInvariant, PTL

-----------------------------------------------------------------------------
(* The binary search of a seek *)

\* The library adds the values of a function element by element, in an order
\* of its own; Adds(g, r, S) says that g is that recursion over the subsets of S.
Picked(s) == CHOOSE y \in s : TRUE
Added(g, r, s) == IF s = {} THEN 0 ELSE r[Picked(s)] + g[s \ {Picked(s)}]
Adds(g, r, S) == g = [s \in SUBSET S |-> Added(g, r, s)]

LEMMA SumIsAdded ==
  ASSUME NEW r, NEW S
  PROVE  SumFunctionOnSet(r, S) = (CHOOSE g : Adds(g, r, S))[S]
BY DEF SumFunctionOnSet, FoldFunctionOnSet, MapThenFoldSet, Adds, Added, Picked

LEMMA PickedIn == ASSUME NEW s, s # {} PROVE Picked(s) \in s
BY DEF Picked

\* The recursion has a solution: it can be given to the subsets of k elements
\* once the smaller ones have it.
LEMMA AddsExists ==
  ASSUME NEW S, IsFiniteSet(S), NEW r, \A x \in S : r[x] \in Nat
  PROVE  \E g \in [SUBSET S -> Nat] : Adds(g, r, S)
<1> DEFINE Upto(g, k) == \A s \in SUBSET S : Cardinality(s) <= k => g[s] = Added(g, r, s)
           Bad == {k \in Nat : ~\E g \in [SUBSET S -> Nat] : Upto(g, k)}
<1>f. \A s \in SUBSET S : IsFiniteSet(s) /\ Cardinality(s) \in Nat /\ Cardinality(s) <= Cardinality(S)
  BY FS_Subset, FS_CardinalityType
<1>t. ASSUME NEW g \in [SUBSET S -> Nat], NEW s \in SUBSET S
      PROVE  Added(g, r, s) \in Nat /\ (s # {} => Picked(s) \in s /\ s \ {Picked(s)} \in SUBSET S)
  BY PickedIn DEF Added
<1>1. Bad = {}
  <2> SUFFICES ASSUME Bad # {} PROVE FALSE
    OBVIOUS
  <2>1. PICK k \in Bad : k \in Nat /\ (k # 0 => k - 1 \in Nat /\ k - 1 \notin Bad)
    <3>1. Bad \in SUBSET Nat
      OBVIOUS
    <3> HIDE DEF Bad
    <3>2. PICK k \in Bad : \A l \in Bad : k <= l
      BY <3>1, LeastNumber
    <3>3. k \in Nat /\ ~(k <= k - 1)
      BY <3>1, <3>2
    <3> QED BY <3>2, <3>3
  <2>2. PICK g \in [SUBSET S -> Nat] : k # 0 => Upto(g, k - 1)
    <3>1. CASE k = 0
      <4>1. [s \in SUBSET S |-> 0] \in [SUBSET S -> Nat]
        OBVIOUS
      <4> QED BY <3>1, <4>1
    <3>2. CASE k # 0
      <4>1. k - 1 \in Nat /\ k - 1 \notin Bad
        BY <2>1, <3>2
      <4> HIDE DEF Upto
      <4> QED BY <3>2, <4>1
    <3> QED BY <3>1, <3>2
  <2> DEFINE h == [s \in SUBSET S |-> Added(g, r, s)]
  <2>3. h \in [SUBSET S -> Nat]
    BY <1>t
  <2>4. Upto(h, k)
    <3> SUFFICES ASSUME NEW s \in SUBSET S, Cardinality(s) <= k
                 PROVE  h[s] = Added(h, r, s)
      OBVIOUS
    <3>1. CASE s = {}
      BY <3>1 DEF Added
    <3>2. CASE s # {}
      <4> DEFINE x == Picked(s)
                 s1 == s \ {x}
      <4>1. x \in s /\ s1 \in SUBSET S
        BY <3>2, <1>t, <2>2
      <4>2. Cardinality(s1) = Cardinality(s) - 1
        BY <1>f, <4>1, FS_RemoveElement
      <4>3. Cardinality(s1) <= k - 1 /\ k # 0
        BY <1>f, <2>1, <4>1, <4>2
      <4>4. g[s1] = Added(g, r, s1)
        BY <2>2, <4>1, <4>3
      <4>5. h[s1] = g[s1]
        BY <4>1, <4>4
      <4>6. Added(g, r, s) = r[x] + g[s1] /\ Added(h, r, s) = r[x] + h[s1]
        BY <3>2 DEF Added
      <4>7. h[s] = Added(g, r, s)
        OBVIOUS
      <4> HIDE DEF h
      <4> QED BY <4>5, <4>6, <4>7
    <3> QED BY <3>1, <3>2
  <2> HIDE DEF h, Upto
  <2>5. k \notin Bad
    BY <2>3, <2>4
  <2> QED BY <2>1, <2>5
<1>2. PICK g \in [SUBSET S -> Nat] : Upto(g, Cardinality(S))
  BY <1>1, FS_CardinalityType
<1>3. \A s \in SUBSET S : g[s] = Added(g, r, s)
  BY <1>2, <1>f
<1>4. Adds(g, r, S)
  BY <1>3 DEF Adds
<1> QED BY <1>2, <1>4

\* What it gives a set does not depend on the set it is defined over.
LEMMA AddsAgree ==
  ASSUME NEW S, IsFiniteSet(S), NEW T \in SUBSET S, NEW r, NEW g, NEW h,
         Adds(g, r, S), Adds(h, r, T)
  PROVE  \A s \in SUBSET T : g[s] = h[s]
<1> DEFINE Bad == {k \in Nat : \E s \in SUBSET T : Cardinality(s) = k /\ g[s] # h[s]}
<1>f. \A s \in SUBSET T : IsFiniteSet(s) /\ Cardinality(s) \in Nat
  BY FS_Subset, FS_CardinalityType
<1>1. Bad = {}
  <2> SUFFICES ASSUME Bad # {} PROVE FALSE
    OBVIOUS
  <2>1. PICK k \in Bad : k \in Nat /\ (k # 0 => k - 1 \in Nat /\ k - 1 \notin Bad)
    <3>1. Bad \in SUBSET Nat
      OBVIOUS
    <3> HIDE DEF Bad
    <3>2. PICK k \in Bad : \A l \in Bad : k <= l
      BY <3>1, LeastNumber
    <3>3. k \in Nat /\ ~(k <= k - 1)
      BY <3>1, <3>2
    <3> QED BY <3>2, <3>3
  <2>2. PICK s \in SUBSET T : Cardinality(s) = k /\ g[s] # h[s]
    BY <2>1
  <2>3. g[s] = Added(g, r, s) /\ h[s] = Added(h, r, s)
    <3>1. s \in SUBSET S
      OBVIOUS
    <3> QED BY <3>1 DEF Adds
  <2>4. s # {}
    BY <2>2, <2>3 DEF Added
  <2> DEFINE s1 == s \ {Picked(s)}
  <2>5. s1 \in SUBSET T /\ Picked(s) \in s
    BY <2>4, PickedIn
  <2>6. Cardinality(s1) = k - 1 /\ k # 0
    <3>1. Cardinality(s1) = Cardinality(s) - 1
      BY <1>f, <2>5, FS_RemoveElement
    <3> QED BY <1>f, <2>2, <2>5, <3>1
  <2>7. k - 1 \notin Bad
    BY <2>1, <2>6
  <2>8. g[s1] = h[s1]
    BY <2>5, <2>6, <2>7
  <2> QED BY <2>2, <2>3, <2>4, <2>8 DEF Added
<1> QED BY <1>1, <1>f

\* It takes the elements in any order.
AnyOrder(g, r, S) == \A s \in SUBSET S : \A x \in s : g[s] = r[x] + g[s \ {x}]

LEMMA AddsAnyOrder ==
  ASSUME NEW S, IsFiniteSet(S), NEW r, \A x \in S : r[x] \in Nat,
         NEW g \in [SUBSET S -> Nat], Adds(g, r, S)
  PROVE  AnyOrder(g, r, S)
<1> DEFINE Bad == {k \in Nat : \E s \in SUBSET S : Cardinality(s) = k
                                  /\ \E x \in s : g[s] # r[x] + g[s \ {x}]}
<1>f. \A s \in SUBSET S : IsFiniteSet(s) /\ Cardinality(s) \in Nat
  BY FS_Subset, FS_CardinalityType
<1>1. Bad = {}
  <2> SUFFICES ASSUME Bad # {} PROVE FALSE
    OBVIOUS
  <2>1. PICK k \in Bad : k \in Nat /\ (k # 0 => k - 1 \in Nat /\ k - 1 \notin Bad)
    <3>1. Bad \in SUBSET Nat
      OBVIOUS
    <3> HIDE DEF Bad
    <3>2. PICK k \in Bad : \A l \in Bad : k <= l
      BY <3>1, LeastNumber
    <3>3. k \in Nat /\ ~(k <= k - 1)
      BY <3>1, <3>2
    <3> QED BY <3>2, <3>3
  <2>2. PICK s \in SUBSET S : Cardinality(s) = k /\ \E x \in s : g[s] # r[x] + g[s \ {x}]
    BY <2>1
  <2>3. PICK x \in s : g[s] # r[x] + g[s \ {x}]
    BY <2>2
  <2>4. PICK y \in s : y = Picked(s)
    BY <2>3, PickedIn
  <2>5. g[s] = r[y] + g[s \ {y}]
    BY <2>3, <2>4 DEF Adds, Added
  <2>6. y # x
    BY <2>3, <2>5
  <2> DEFINE sx == s \ {x}
             sy == s \ {y}
             sxy == s \ {x, y}
  <2>7. /\ sx \in SUBSET S /\ sy \in SUBSET S /\ sxy \in SUBSET S
        /\ sx \ {y} = sxy /\ sy \ {x} = sxy /\ y \in sx /\ x \in sy
    BY <2>6
  <2>8. Cardinality(sx) = k - 1 /\ Cardinality(sy) = k - 1 /\ k # 0
    <3>1. Cardinality(sx) = Cardinality(s) - 1 /\ Cardinality(sy) = Cardinality(s) - 1
      BY <1>f, FS_RemoveElement
    <3>2. Cardinality(sx) \in Nat
      BY <1>f, <2>7
    <3> QED BY <2>2, <3>1, <3>2
  <2>9. k - 1 \notin Bad
    BY <2>1, <2>8
  <2>10. g[sx] = r[y] + g[sxy] /\ g[sy] = r[x] + g[sxy]
    <3>1. k - 1 \in Nat
      BY <2>1, <2>8
    <3>2. \A t \in SUBSET S : Cardinality(t) = k - 1 => \A z \in t : g[t] = r[z] + g[t \ {z}]
      BY <2>9, <3>1
    <3>3. g[sx] = r[y] + g[sx \ {y}] /\ g[sy] = r[x] + g[sy \ {x}]
      BY <2>7, <2>8, <3>2
    <3> QED BY <2>7, <3>3
  <2>11. r[x] \in Nat /\ r[y] \in Nat /\ g[sxy] \in Nat /\ g[sx] \in Nat /\ g[sy] \in Nat
    BY <2>7
  <2>12. g[s] = r[x] + g[sx]
    BY <2>5, <2>10, <2>11
  <2> QED BY <2>3, <2>12
<1> QED BY <1>1, <1>f DEF AnyOrder

\* The sum of a function over a finite set, one element at a time.
LEMMA SumStep ==
  ASSUME NEW S, IsFiniteSet(S), NEW r, \A x \in S : r[x] \in Nat
  PROVE  /\ SumFunctionOnSet(r, S) \in Nat
         /\ S = {} => SumFunctionOnSet(r, S) = 0
         /\ \A x \in S : SumFunctionOnSet(r, S) = r[x] + SumFunctionOnSet(r, S \ {x})
<1> DEFINE g == CHOOSE f : Adds(f, r, S)
<1>1. PICK f \in [SUBSET S -> Nat] : Adds(f, r, S)
  BY AddsExists
<1>2. Adds(g, r, S)
  BY <1>1
<1>3. \A s \in SUBSET S : f[s] = g[s]
  BY <1>1, <1>2, AddsAgree
<1>4. g = f
  BY <1>1, <1>2, <1>3 DEF Adds
<1>5. SumFunctionOnSet(r, S) = f[S]
  BY <1>4, SumIsAdded
<1> HIDE DEF g
<1>6. S = {} => f[S] = 0
  BY <1>1 DEF Adds, Added
<1>7. ASSUME NEW x \in S PROVE SumFunctionOnSet(r, S \ {x}) = f[S \ {x}]
  <2> DEFINE T == S \ {x}
             e == CHOOSE d : Adds(d, r, T)
  <2>1. T \in SUBSET S /\ IsFiniteSet(T)
    BY FS_Subset
  <2>2. \E d : Adds(d, r, T)
    BY <2>1, AddsExists
  <2>3. Adds(e, r, T)
    BY <2>2
  <2>4. SumFunctionOnSet(r, T) = e[T]
    BY SumIsAdded
  <2> HIDE DEF T, e
  <2>5. f[T] = e[T]
    BY <1>1, <2>1, <2>3, AddsAgree
  <2> QED BY <2>4, <2>5 DEF T
<1>8. \A x \in S : f[S] = r[x] + f[S \ {x}]
  <2>1. AnyOrder(f, r, S)
    BY <1>1, AddsAnyOrder
  <2> QED BY <2>1 DEF AnyOrder
<1> QED BY <1>1, <1>5, <1>6, <1>7, <1>8

\* A segment starts where the one before it ends, the first at 0, and the last
\* ends where the recording does.
Consecutive(r, n) ==
  /\ StartSample(r, 1) = 0 /\ Total(r) = StartSample(r, n + 1)
  /\ \A i \in 1 .. n + 1 : StartSample(r, i) \in Nat
  /\ \A i \in 1 .. n : StartSample(r, i + 1) = StartSample(r, i) + r[i]

LEMMA SegmentsFollow ==
  ASSUME NEW n \in Nat, NEW r \in [1 .. n -> Nat \ {0}]
  PROVE  Consecutive(r, n)
<1>1. \A i \in 1 .. n + 1 : IsFiniteSet(1 .. i - 1) /\ \A x \in 1 .. i - 1 : r[x] \in Nat
  <2> TAKE i \in 1 .. n + 1
  <2>1. IsFiniteSet(1 .. i - 1)
    <3>1. 1 \in Int /\ i - 1 \in Int
      OBVIOUS
    <3> QED BY <3>1, FS_Interval
  <2>2. \A x \in 1 .. i - 1 : x \in 1 .. n
    OBVIOUS
  <2>3. \A x \in 1 .. n : r[x] \in Nat
    OBVIOUS
  <2> QED BY <2>1, <2>2, <2>3
<1>2. StartSample(r, 1) = 0
  <2>1. 1 .. 1 - 1 = {} /\ IsFiniteSet(1 .. 1 - 1) /\ \A x \in 1 .. 1 - 1 : r[x] \in Nat
    BY <1>1
  <2> QED BY <2>1, SumStep DEF StartSample
<1>3. Total(r) = StartSample(r, n + 1)
  <2>1. n + 1 - 1 = n /\ DOMAIN r = 1 .. n
    OBVIOUS
  <2> QED BY <2>1 DEF Total, SumFunction, StartSample
<1>4. \A i \in 1 .. n + 1 : StartSample(r, i) \in Nat
  BY <1>1, SumStep DEF StartSample
<1>5. ASSUME NEW i \in 1 .. n PROVE StartSample(r, i + 1) = StartSample(r, i) + r[i]
  <2> DEFINE S == 1 .. i + 1 - 1
  <2>1. IsFiniteSet(S) /\ \A x \in S : r[x] \in Nat
    <3>1. i + 1 \in 1 .. n + 1
      OBVIOUS
    <3>2. IsFiniteSet(1 .. (i + 1) - 1) /\ \A x \in 1 .. (i + 1) - 1 : r[x] \in Nat
      <4> DEFINE k == i + 1
      <4>1. k \in 1 .. n + 1
        BY <3>1
      <4> HIDE DEF k
      <4>2. IsFiniteSet(1 .. k - 1) /\ \A x \in 1 .. k - 1 : r[x] \in Nat
        BY <1>1, <4>1
      <4> QED BY <4>2 DEF k
    <3> QED BY <3>2
  <2>2. i \in S /\ S \ {i} = 1 .. i - 1
    OBVIOUS
  <2>3. SumFunctionOnSet(r, S) = r[i] + SumFunctionOnSet(r, S \ {i})
    <3> HIDE DEF S
    <3> QED BY <2>1, <2>2, SumStep
  <2>4. StartSample(r, i + 1) = SumFunctionOnSet(r, S) /\ StartSample(r, i) = SumFunctionOnSet(r, S \ {i})
    <3>1. StartSample(r, i + 1) = SumFunctionOnSet(r, S)
      BY DEF StartSample
    <3>2. StartSample(r, i) = SumFunctionOnSet(r, 1 .. i - 1)
      BY DEF StartSample
    <3> HIDE DEF S
    <3> QED BY <3>1, <3>2, <2>2
  <2>5. StartSample(r, i) \in Nat /\ r[i] \in Nat
    BY <1>4
  <2> HIDE DEF S
  <2> QED BY <2>3, <2>4, <2>5
<1>6. \A i \in 1 .. n : StartSample(r, i + 1) = StartSample(r, i) + r[i]
  BY <1>5
<1> QED BY <1>2, <1>3, <1>4, <1>6 DEF Consecutive

\* No segment starts before an earlier one.
LEMMA StartGrows ==
  ASSUME NEW n \in Nat, NEW r \in [1 .. n -> Nat \ {0}], NEW i \in 1 .. n + 1
  PROVE  \A j \in i .. n + 1 : StartSample(r, i) <= StartSample(r, j)
<1> DEFINE Bad == {j \in i .. n + 1 : ~(StartSample(r, i) <= StartSample(r, j))}
<1>1. Bad = {}
  <2> SUFFICES ASSUME Bad # {} PROVE FALSE
    OBVIOUS
  <2>1. PICK j \in Bad : \A l \in Bad : j <= l
    <3>1. Bad \in SUBSET Nat
      OBVIOUS
    <3> HIDE DEF Bad
    <3> QED BY <3>1, LeastNumber
  <2>2. /\ \A k \in 1 .. n + 1 : StartSample(r, k) \in Nat
        /\ \A k \in 1 .. n : StartSample(r, k + 1) = StartSample(r, k) + r[k]
    <3>1. Consecutive(r, n)
      BY SegmentsFollow
    <3> QED BY <3>1 DEF Consecutive
  <2>3. j # i /\ j \in i .. n + 1
    BY <2>2
  <2>4. j - 1 \in i .. n + 1 /\ j - 1 \in 1 .. n /\ (j - 1) + 1 = j
    BY <2>3
  <2>5. StartSample(r, i) <= StartSample(r, j - 1)
    BY <2>1, <2>4
  <2>6. StartSample(r, j) = StartSample(r, j - 1) + r[j - 1] /\ r[j - 1] \in Nat
    BY <2>2, <2>4
  <2>7. StartSample(r, i) \in Nat /\ StartSample(r, j - 1) \in Nat /\ StartSample(r, j) \in Nat
    BY <2>2, <2>3, <2>4
  <2>8. StartSample(r, i) <= StartSample(r, j)
    BY <2>5, <2>6, <2>7
  <2> QED BY <2>8
<1> QED BY <1>1

\* One round of the search over the segments from low to high.
Found(g, r, sample, low, high) ==
  LET middle == (low + high) \div 2 IN
  IF low > high THEN 0
  ELSE IF sample < StartSample(r, middle) THEN g[<<low, middle - 1>>]
  ELSE IF Ends(r, middle, sample) THEN g[<<middle + 1, high>>]
  ELSE middle

Finds(g, r, sample) ==
  g = [span \in (1 .. Len(r) + 1) \X (0 .. Len(r)) |-> Found(g, r, sample, span[1], span[2])]

LEMMA SearchIsFound ==
  ASSUME NEW r, NEW sample
  PROVE  Search(r, sample) = (CHOOSE g : Finds(g, r, sample))[<<1, Len(r)>>]
BY DEF Search, Finds, Found

LEMMA MiddleBetween ==
  ASSUME NEW low \in Nat, NEW high \in Nat, low <= high
  PROVE  (low + high) \div 2 \in low .. high
OBVIOUS

\* The rounds end: there are answers for the spans of k segments once there are
\* for the shorter ones.
LEMMA FindsExists ==
  ASSUME NEW r, Len(r) \in Nat, NEW sample
  PROVE  \E g : Finds(g, r, sample)
<1> DEFINE n == Len(r)
           Spans == (1 .. n + 1) \X (0 .. n)
           Upto(g, k) == \A l \in 1 .. n + 1, h \in 0 .. n :
                            h - l + 1 <= k => g[<<l, h>>] = Found(g, r, sample, l, h)
           Bad == {k \in Nat : ~\E g \in [Spans -> Nat] : Upto(g, k)}
<1>n. n \in Nat
  OBVIOUS
<1> HIDE DEF n
<1>s. ASSUME NEW l \in 1 .. n + 1, NEW h \in 0 .. n
      PROVE  <<l, h>> \in Spans /\ <<l, h>>[1] = l /\ <<l, h>>[2] = h
  OBVIOUS
<1>i. \A p \in Spans : p[1] \in 1 .. n + 1 /\ p[2] \in 0 .. n /\ p = <<p[1], p[2]>>
  OBVIOUS
<1>m. ASSUME NEW l \in 1 .. n + 1, NEW h \in 0 .. n, l <= h
      PROVE  LET m == (l + h) \div 2 IN
             /\ m \in 1 .. n
             /\ m - 1 \in 0 .. n /\ m + 1 \in 1 .. n + 1
             /\ (m - 1) - l + 1 < h - l + 1 /\ h - (m + 1) + 1 < h - l + 1
  <2>1. PICK m : m = (l + h) \div 2
    OBVIOUS
  <2>2. m \in l .. h
    BY <1>m, <1>n, <2>1, MiddleBetween
  <2>3. /\ m \in 1 .. n
        /\ m - 1 \in 0 .. n /\ m + 1 \in 1 .. n + 1
        /\ (m - 1) - l + 1 < h - l + 1 /\ h - (m + 1) + 1 < h - l + 1
    BY <2>2, <1>n
  <2> QED BY <2>1, <2>3
<1>t. ASSUME NEW g \in [Spans -> Nat], NEW l \in 1 .. n + 1, NEW h \in 0 .. n
      PROVE  Found(g, r, sample, l, h) \in Nat
  <2>1. CASE l > h
    BY <2>1 DEF Found
  <2>2. CASE l <= h
    <3>1. PICK m : m = (l + h) \div 2
      OBVIOUS
    <3>2. m \in Nat /\ <<l, m - 1>> \in Spans /\ <<m + 1, h>> \in Spans
      BY <1>m, <1>n, <2>2, <3>1
    <3> HIDE DEF Spans
    <3> QED BY <3>1, <3>2, <2>2, <1>n DEF Found
  <2> QED BY <2>1, <2>2, <1>n
<1> HIDE DEF Spans
<1>1. Bad = {}
  <2> SUFFICES ASSUME Bad # {} PROVE FALSE
    OBVIOUS
  <2>1. PICK k \in Bad : k \in Nat /\ (k # 0 => k - 1 \in Nat /\ k - 1 \notin Bad)
    <3>1. Bad \in SUBSET Nat
      OBVIOUS
    <3> HIDE DEF Bad
    <3>2. PICK k \in Bad : \A l \in Bad : k <= l
      BY <3>1, LeastNumber
    <3>3. k \in Nat /\ ~(k <= k - 1)
      BY <3>1, <3>2
    <3> QED BY <3>2, <3>3
  <2>2. PICK g \in [Spans -> Nat] : k # 0 => Upto(g, k - 1)
    <3>1. CASE k = 0
      <4>1. [s \in Spans |-> 0] \in [Spans -> Nat]
        OBVIOUS
      <4> QED BY <3>1, <4>1
    <3>2. CASE k # 0
      <4>1. k - 1 \in Nat /\ k - 1 \notin Bad
        BY <2>1, <3>2
      <4> HIDE DEF Upto
      <4> QED BY <3>2, <4>1
    <3> QED BY <3>1, <3>2
  <2> DEFINE f == [p \in Spans |-> Found(g, r, sample, p[1], p[2])]
  <2>3. f \in [Spans -> Nat]
    BY <1>i, <1>t
  <2>4. \A l \in 1 .. n + 1, h \in 0 .. n : f[<<l, h>>] = Found(g, r, sample, l, h)
    BY <1>s
  <2> HIDE DEF f
  <2>5. Upto(f, k)
    <3> SUFFICES ASSUME NEW l \in 1 .. n + 1, NEW h \in 0 .. n, h - l + 1 <= k
                 PROVE  f[<<l, h>>] = Found(f, r, sample, l, h)
      OBVIOUS
    <3>1. CASE l > h
      BY <2>4, <3>1 DEF Found
    <3>2. CASE l <= h
      <4>1. PICK m : m = (l + h) \div 2
        OBVIOUS
      <4>2. /\ m - 1 \in 0 .. n /\ m + 1 \in 1 .. n + 1
            /\ (m - 1) - l + 1 < h - l + 1 /\ h - (m + 1) + 1 < h - l + 1
        BY <1>m, <3>2, <4>1
      <4>3. k # 0 /\ (m - 1) - l + 1 <= k - 1 /\ h - (m + 1) + 1 <= k - 1
        BY <1>n, <2>1, <3>2, <4>2
      <4>4. g[<<l, m - 1>>] = f[<<l, m - 1>>] /\ g[<<m + 1, h>>] = f[<<m + 1, h>>]
        BY <2>2, <2>4, <4>2, <4>3
      <4>5. Found(g, r, sample, l, h) = Found(f, r, sample, l, h)
        BY <4>1, <4>4 DEF Found
      <4> QED BY <2>4, <4>5
    <3> QED BY <1>n, <3>1, <3>2
  <2> HIDE DEF Upto
  <2>6. k \notin Bad
    BY <2>3, <2>5
  <2> QED BY <2>1, <2>6
<1>2. PICK g \in [Spans -> Nat] : Upto(g, n)
  <2>1. n \notin Bad
    BY <1>1
  <2> HIDE DEF Upto
  <2> QED BY <1>n, <2>1
<1>3. \A l \in 1 .. n + 1, h \in 0 .. n : g[<<l, h>>] = Found(g, r, sample, l, h)
  <2>1. \A l \in 1 .. n + 1, h \in 0 .. n : h - l + 1 <= n
    BY <1>n
  <2> QED BY <1>2, <2>1
<1>4. \A p \in Spans : g[p] = Found(g, r, sample, p[1], p[2])
  BY <1>3, <1>i
<1>5. g = [p \in Spans |-> Found(g, r, sample, p[1], p[2])]
  BY <1>4
<1>6. Finds(g, r, sample)
  BY <1>5 DEF Finds, Spans, n
<1> QED BY <1>6

\* The segment i holds the sample.
HoldsSample(r, n, i, sample) ==
  i \in 1 .. n /\ StartSample(r, i) <= sample /\ sample < StartSample(r, i + 1)

\* A span of segments that holds the sample leads to the segment that does: the
\* half the search goes on with holds it too.
LEMMA FindsSample ==
  ASSUME NEW n \in Nat, NEW r \in [1 .. n -> Nat \ {0}], Len(r) = n, NEW sample \in Nat,
         NEW g, Finds(g, r, sample)
  PROVE  \A low \in 1 .. n + 1, high \in 0 .. n :
           StartSample(r, low) <= sample /\ sample < StartSample(r, high + 1) =>
             HoldsSample(r, n, g[<<low, high>>], sample)
<1> DEFINE Holds(l, h) == StartSample(r, l) <= sample /\ sample < StartSample(r, h + 1)
           Right(i) == HoldsSample(r, n, i, sample)
           Bad == {k \in Nat : \E l \in 1 .. n + 1, h \in 0 .. n :
                                  k = h - l + 1 /\ Holds(l, h) /\ ~Right(g[<<l, h>>])}
<1>s. /\ \A i \in 1 .. n + 1 : StartSample(r, i) \in Nat
      /\ \A i \in 1 .. n : StartSample(r, i + 1) = StartSample(r, i) + r[i]
  <2>1. Consecutive(r, n)
    BY SegmentsFollow
  <2> QED BY <2>1 DEF Consecutive
<1>l. ASSUME NEW l \in 1 .. n + 1, NEW h \in 0 .. n, Holds(l, h) PROVE l <= h
  <2> SUFFICES ASSUME h < l PROVE FALSE
    OBVIOUS
  <2>1. h + 1 \in 1 .. n + 1 /\ l \in h + 1 .. n + 1
    OBVIOUS
  <2>2. StartSample(r, h + 1) <= StartSample(r, l)
    BY <2>1, StartGrows
  <2>3. StartSample(r, h + 1) \in Nat /\ StartSample(r, l) \in Nat
    BY <2>1, <1>s
  <2> QED BY <1>l, <2>2, <2>3
<1>1. Bad = {}
  <2> SUFFICES ASSUME Bad # {} PROVE FALSE
    OBVIOUS
  <2>1. PICK k \in Bad : \A j \in Bad : k <= j
    <3>1. Bad \in SUBSET Nat
      OBVIOUS
    <3> HIDE DEF Bad
    <3> QED BY <3>1, LeastNumber
  <2>2. PICK l \in 1 .. n + 1, h \in 0 .. n :
          k = h - l + 1 /\ Holds(l, h) /\ ~Right(g[<<l, h>>])
    <3> HIDE DEF Holds, Right
    <3> QED BY <2>1
  <2>3. l <= h
    BY <1>l, <2>2
  <2>4. PICK m : m = (l + h) \div 2
    OBVIOUS
  <2>5. m \in l .. h /\ m \in 1 .. n /\ m - 1 \in 0 .. n /\ m + 1 \in 1 .. n + 1 /\ (m - 1) + 1 = m
    <3>1. m \in l .. h
      BY <2>3, <2>4, MiddleBetween
    <3> QED BY <3>1
  <2>6. g[<<l, h>>] = Found(g, r, sample, l, h)
    <3>1. <<l, h>> \in (1 .. n + 1) \X (0 .. n) /\ <<l, h>>[1] = l /\ <<l, h>>[2] = h
      OBVIOUS
    <3> QED BY <3>1 DEF Finds
  <2>7. \A a \in 1 .. n + 1, b \in 0 .. n : Holds(a, b) /\ b - a < h - l => Right(g[<<a, b>>])
    <3> SUFFICES ASSUME NEW a \in 1 .. n + 1, NEW b \in 0 .. n, Holds(a, b), b - a < h - l
                 PROVE  Right(g[<<a, b>>])
      BY DEF Holds, Right
    <3>1. a <= b
      BY <1>l
    <3>2. b - a + 1 \in Nat /\ ~(k <= b - a + 1)
      BY <2>2, <3>1
    <3> HIDE DEF Holds, Right
    <3> QED BY <2>1, <3>2
  <2>8. CASE sample < StartSample(r, m)
    <3>1. g[<<l, h>>] = g[<<l, m - 1>>]
      BY <2>3, <2>4, <2>6, <2>8 DEF Found
    <3>2. Holds(l, m - 1) /\ (m - 1) - l < h - l
      BY <2>2, <2>5, <2>8
    <3> HIDE DEF Holds, Right
    <3> QED BY <2>2, <2>5, <2>7, <3>1, <3>2
  <2>9. CASE ~(sample < StartSample(r, m)) /\ Ends(r, m, sample)
    <3>1. g[<<l, h>>] = g[<<m + 1, h>>]
      BY <2>3, <2>4, <2>6, <2>9 DEF Found
    <3>2. StartSample(r, m + 1) <= sample
      <4>1. StartSample(r, m + 1) = StartSample(r, m) + r[m] /\ StartSample(r, m + 1) \in Nat
        BY <2>5, <1>s
      <4> QED BY <2>9, <4>1 DEF Ends
    <3>3. Holds(m + 1, h) /\ h - (m + 1) < h - l
      BY <2>2, <2>5, <3>2
    <3> HIDE DEF Holds, Right
    <3> QED BY <2>2, <2>5, <2>7, <3>1, <3>3
  <2>10. CASE ~(sample < StartSample(r, m)) /\ ~Ends(r, m, sample)
    <3>1. g[<<l, h>>] = m
      BY <2>3, <2>4, <2>6, <2>10 DEF Found
    <3>2. StartSample(r, m + 1) = StartSample(r, m) + r[m] /\ StartSample(r, m + 1) \in Nat
          /\ StartSample(r, m) \in Nat
      BY <2>5, <1>s
    <3>3. Right(m)
      BY <2>5, <2>10, <3>2 DEF Ends, HoldsSample
    <3> HIDE DEF Holds, Right
    <3> QED BY <2>2, <3>1, <3>3
  <2> QED BY <2>8, <2>9, <2>10
<1>2. ASSUME NEW l \in 1 .. n + 1, NEW h \in 0 .. n, Holds(l, h) PROVE Right(g[<<l, h>>])
  <2>1. h - l + 1 \in Nat
    BY <1>l, <1>2
  <2> HIDE DEF Holds, Right
  <2> QED BY <1>1, <1>2, <2>1
<1> QED BY <1>2

\* For every recording, of any number and any lengths of segments, the search
\* returns for every time before its end the segment the time's sample lies in.
LEMMA SearchFindsAll ==
  ASSUME NEW n \in Nat \ {0}, NEW r \in [1 .. n -> Nat \ {0}]
  PROVE  SearchFinds(r)
<1> SUFFICES ASSUME NEW time \in 0 .. 2 * Total(r) - 1
             PROVE  LET i == Search(r, TargetSample(time)) IN
                    /\ i \in DOMAIN r /\ StartSample(r, i) <= TargetSample(time)
                    /\ TargetSample(time) < StartSample(r, i + 1)
  BY DEF SearchFinds
<1>1. Len(r) = n
  <2>1. r \in Seq(Nat \ {0})
    OBVIOUS
  <2>2. DOMAIN r = 1 .. n /\ DOMAIN r = 1 .. Len(r) /\ Len(r) \in Nat
    BY <2>1
  <2> QED BY <2>2
<1>2. StartSample(r, 1) = 0 /\ Total(r) = StartSample(r, n + 1) /\ StartSample(r, n + 1) \in Nat
  <2>1. Consecutive(r, n)
    BY SegmentsFollow
  <2> QED BY <2>1 DEF Consecutive
<1>3. PICK sample \in Nat : sample = TargetSample(time) /\ sample < Total(r)
  BY <1>2 DEF TargetSample
<1> DEFINE g == CHOOSE f : Finds(f, r, sample)
<1>4. Finds(g, r, sample)
  BY <1>1, FindsExists
<1>5. Search(r, sample) = g[<<1, n>>]
  BY <1>1, SearchIsFound
<1> HIDE DEF g
<1>6. 1 \in 1 .. n + 1 /\ n \in 0 .. n /\ DOMAIN r = 1 .. n
  OBVIOUS
<1>7. HoldsSample(r, n, g[<<1, n>>], sample)
  <2>1. StartSample(r, 1) <= sample /\ sample < StartSample(r, n + 1)
    BY <1>2, <1>3
  <2>2. \A low \in 1 .. n + 1, high \in 0 .. n :
           StartSample(r, low) <= sample /\ sample < StartSample(r, high + 1) =>
             HoldsSample(r, n, g[<<low, high>>], sample)
    BY <1>1, <1>4, FindsSample
  <2> QED BY <1>6, <2>1, <2>2
<1> QED BY <1>3, <1>5, <1>6, <1>7 DEF HoldsSample

\* A seek is resolved by a search that finds the segment the time's sample lies
\* in, whatever the recordings (resolve_recording_seek.py): the bounds of the
\* runs, MaxLength and MaxCount, are any numbers here.
THEOREM SeekFindsSampleCorrect == Spec => []SeekFindsSample
<1>1. SearchIsRight
  <2> SUFFICES ASSUME NEW n \in 1 .. MaxLength, NEW r \in [1 .. n -> 1 .. MaxCount]
               PROVE  SearchFinds(r)
    BY DEF SearchIsRight
  <2>1. n \in Nat \ {0} /\ r \in [1 .. n -> Nat \ {0}]
    BY ConstantsAssumption
  <2> QED BY <2>1, SearchFindsAll
<1>2. SeekFindsSample
  BY <1>1 DEF SeekFindsSample
<1> QED BY <1>2, PTL
=============================================================================
