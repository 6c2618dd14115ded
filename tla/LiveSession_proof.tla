-------------------------- MODULE LiveSession_proof --------------------------
(***************************************************************************)
(* Proofs about LiveSession, for any number of connections, chunks,        *)
(* meetings, restarts and violations, whatever is transcribed: the types,  *)
(* that the meetings change as the aggregate of Meeting promises, that a   *)
(* number of a session stands for one chunk, and that its rows follow each *)
(* on the one before.  In every behaviour that opens no connection beside  *)
(* the dispatcher of the one before, also that client and handler keep     *)
(* their numbers in step, that a late answer is never taken for another    *)
(* chunk's, and that a session that ended was shown.                       *)
(***************************************************************************)
EXTENDS LiveSession, SequenceTheorems, Extrema, TLAPS

-----------------------------------------------------------------------------
(* The invariants *)

\* The chunk a handler had last is later than the number it expects.
HandlerBounds(c) ==
  LET h == handler[c] IN
  /\ h.expected <= h.audio /\ h.audio <= captured
  /\ h.pc = "stt" => h.meeting # 0 /\ h.expected < h.audio
  /\ h.pc = "ending" => h.req # 0

\* The chunks queue still holds come in the order of their capture, later than
\* the chunk taken last and none later than the chunk captured last.
InOrder(queue, taken, last) ==
  /\ \A i \in 1..Len(queue) : queue[i].t = "audio" =>
       taken < queue[i].audio /\ queue[i].audio <= last
  /\ \A i, j \in 1..Len(queue) :
       i < j /\ queue[i].t = "audio" /\ queue[j].t = "audio" => queue[i].audio < queue[j].audio

IncomingBounds(c) == InOrder(toServer[c], handler[c].audio, captured)

\* The numbers of the client and of its operation.
ClientBounds ==
  /\ client.next <= captured
  /\ client.status = "connecting" => call.kind = "connect"
  /\ call.kind = "chunk" => call.seq < call.audio /\ call.audio <= captured
  /\ call.kind = "end" => call.session # 0
  /\ call.kind = "connect" => flow = "connect" /\ opened # 0

\* The requests of the window, and the meetings they have made.
RequestBounds ==
  /\ flow = "end" /\ call.kind # "end" => requests < MaxRequests
  /\ flow = "begin" => requests # 0 /\ mstatus[requests] = "draft"
  /\ flow = "session" => requests # 0
  /\ \A r \in Meetings : r > requests => mstatus[r] = "absent"
  /\ \A c \in Connections : handler[c].meeting # 0 => mstatus[handler[c].meeting] # "absent"

TypeInv ==
  /\ TypeOK
  /\ \A c \in Connections : HandlerBounds(c) /\ IncomingBounds(c)
  /\ ClientBounds /\ RequestBounds

-----------------------------------------------------------------------------
(* Rows *)

\* No row is of connection c.
Unsaid(c) == \A m \in Meetings : \A i \in RowsOf(m) : transcript[m][i].session # c

\* Before its session begins a connection has no rows.  While the session runs
\* they are in its meeting, have the numbers before the one it expects and come
\* of no later chunk, and the deduplicator remembers the text of the last.
SessionRows(c) ==
  LET h == handler[c] IN
  /\ h.pc \in {"none", "hello"} \/ (h.pc \in {"open", "stt"} /\ h.meeting = 0) => Unsaid(c)
  /\ h.pc \in {"open", "stt"} =>
       \A m \in Meetings : \A i \in RowsOf(m) :
         transcript[m][i].session = c =>
           /\ m = h.meeting
           /\ transcript[m][i].seq < h.expected /\ transcript[m][i].audio <= h.audio
           /\ (\A j \in (i + 1)..Len(transcript[m]) : transcript[m][j].session # c)
                => transcript[m][i].words = h.previous

\* A handler starts when its connection is opened.
Unopened == \A c \in Connections : c > opened => handler[c].pc = "none"

RowsInv ==
  /\ Unopened
  /\ \A c \in Connections : SessionRows(c)
  /\ SequenceOnce /\ RowsFollowOn

-----------------------------------------------------------------------------
(* The connection in use *)

\* A connection that has not been opened carries nothing.
Unborn == \A c \in Connections : c > opened => handler[c] = NoHandler /\ toServer[c] = <<>>

\* The steps of the window's handlers, and what the window believes meanwhile.
WindowInv ==
  /\ flow = "connect" => ui \in {"disconnected", "failed"}
  /\ flow \in {"create", "begin", "session"} => ui = "connected"
  /\ flow \in {"end", "leave"} => ui = "session_active"
  /\ unread => flow \in {"idle", "end", "leave"}
  /\ call.kind = "start" => flow = "session"
  /\ call.kind = "end" => flow = "end"

\* Only the connection opened last is read, written and used, and none while
\* the window believes there is none.
LinkInv ==
  /\ Unborn /\ client.tasks <= opened
  /\ \A c \in readers : c = opened /\ c = client.tasks
  /\ unread \/ call.kind = "connect" => readers = {}
  /\ client.status = "session_active" => ui = "session_active"
  /\ client.status = "connected" => ui = "connected" \/ flow = "leave"
  /\ \A c \in Connections : toClient[c] # <<>> => Read(c)
  /\ client.writer # 0 => client.writer = opened /\ opened \in readers
  /\ client.session # 0 => client.session = opened /\ client.status = "session_active"
  /\ client.status \notin {"connected", "session_active"} => client.writer = 0
  /\ call.kind = "connect" => client.status = "connecting"
  /\ call.kind = "start" /\ call.answer = "ok" => call.session = opened

\* A session's answers carry its connection, and the last of them is its end or
\* its failure, never both.
LastAnswer(m) == m.t \in {"stopped", "close"} \/ (m.t = "error" /\ m.fatal)
AnswersOf(c) ==
  /\ \A m \in ToSet(toClient[c]) :
       /\ m.t \in {"started", "stopped"} => m.session = c
       /\ LastAnswer(m) => handler[c].pc \in {"closing", "closed"}
       /\ m.t = "stopped" => handler[c].pc = "closed"
  /\ \A m, k \in ToSet(toClient[c]) : ~(m.t = "stopped" /\ k.t = "error" /\ k.fatal)
AnswerInv == \A c \in Connections : AnswersOf(c)

\* The chunks a session has answered are those its handler took before.
ProcessedOf(c) ==
  handler[c].pc \in {"none", "hello", "open", "stt"} =>
    \A a \in 1..MaxAudio : <<c, a>> \in processed =>
      a <= handler[c].audio /\ (handler[c].pc = "stt" => a # handler[c].audio)
ProcessedInv == \A c \in Connections : ProcessedOf(c)

ConnectionInv == WindowInv /\ LinkInv /\ AnswerInv /\ ProcessedInv

-----------------------------------------------------------------------------
(* Before the session *)

AssistUnavailable == ProtocolError("assist_unavailable", FALSE)

\* The connection in use has no session yet that the client knows of.
Starting ==
  \/ call.kind \in {"connect", "start"}
  \/ ui = "connected" /\ client.writer # 0

\* The handler has begun nothing a client could count.
NothingYet(c) ==
  LET h == handler[c] IN
  /\ h.pc \notin {"none", "stt", "ending"} /\ h.expected = 0 /\ Unsaid(c)
  /\ h.pc = "hello" => h.meeting = 0 /\ toClient[c] = <<>> /\ call.kind = "connect"

\* Nothing but starts has been sent, the latest of them last.
OnlyStarts(c) ==
  LET Q == toServer[c] IN
  /\ \A i \in 1..Len(Q) :
       Q[i].t = "start" /\ Q[i].req <= requests /\ (i < Len(Q) => Q[i].req # requests)
  /\ flow \in {"begin", "session"} /\ call.kind # "start" =>
       handler[c].meeting # requests /\ \A i \in 1..Len(Q) : Q[i].req # requests

\* What the handler began for the latest start is the last thing it did.
FirstAnswers(c) ==
  LET h == handler[c]  R == toClient[c] IN
  /\ \A m \in ToSet(R) : m.t # "chunk_result"
  /\ h.pc = "open" => \A m \in ToSet(R) : m.t = "started" => m.req = h.meeting /\ h.meeting # 0
  /\ h.pc = "open" /\ h.meeting # 0 /\ h.meeting = requests =>
       /\ toServer[c] = <<>>
       /\ \A i \in 1..Len(R) : R[i].t = "started" =>
            i = Len(R) \/ (i + 1 = Len(R) /\ R[i + 1] = AssistUnavailable)

\* The caller waits for the latest start; once it is answered, nothing but the
\* word that Assist Mode is unavailable may be under way.
StartCall(c) ==
  /\ call.kind = "start" => call.req = requests
  /\ Waiting("start") => client.start = requests
  /\ call.kind = "start" /\ call.answer = "ok" /\ handler[c].pc = "open" =>
       /\ handler[c].meeting # 0 /\ toServer[c] = <<>>
       /\ toClient[c] \in {<<>>, <<AssistUnavailable>>}

StartingOf(c) == NothingYet(c) /\ OnlyStarts(c) /\ FirstAnswers(c) /\ StartCall(c)

StartingInv == Starting => opened # 0 /\ StartingOf(opened)

-----------------------------------------------------------------------------
(* The session *)

NoAudio(queue) == \A i \in 1..Len(queue) : queue[i].t # "audio"
OneAudio(queue) ==
  \A i, j \in 1..Len(queue) : queue[i].t = "audio" /\ queue[j].t = "audio" => i = j
NoResult(answers) == \A m \in ToSet(answers) : m.t # "chunk_result"

\* The end the client asks for after n chunks.
LastOf(n) == IF n > 0 THEN n - 1 ELSE 0

\* Handler and client expect the same number: the one chunk under way, if any,
\* is on its way to the handler, with it, or refused by the provider, and the
\* client submits no other meanwhile.
Agreed(c) ==
  LET h == handler[c]  n == client.next  Q == toServer[c]  R == toClient[c] IN
  /\ h.expected = n
  /\ \A i \in 1..Len(Q) : Q[i].t = "end" => Q[i].last = LastOf(n)
  /\ OneAudio(Q) /\ (h.pc = "stt" => NoAudio(Q))
  /\ h.pc = "stt" \/ ~NoAudio(Q) => R = <<>> /\ client.inFlight /\ client.chunk = n
  /\ R \in {<<>>, <<AssistUnavailable>>, <<ProtocolError("provider_error", FALSE)>>}
  /\ R = <<ProtocolError("provider_error", FALSE)>> => client.inFlight
  /\ Waiting("chunk") /\ h.pc = "stt" => Q = <<>> /\ h.audio = call.audio
  /\ Waiting("chunk") /\ ~NoAudio(Q) => Last(Q).t = "audio" /\ Last(Q).audio = call.audio
  /\ ~(call.kind = "chunk" /\ call.answer = "ok")

\* The handler has counted a chunk the client has not: its result is under way
\* or has just been taken, or the client gave the chunk up for good and every
\* later one is refused.
Ahead(c) ==
  LET h == handler[c]  n == client.next  Q == toServer[c]  R == toClient[c] IN
  /\ h.pc = "open" /\ h.expected = n + 1
  /\ <<c, h.audio>> \in processed \ acked
  /\ call.kind = "chunk" /\ call.answer = "ok" => Q = <<>> /\ R = <<>>
  /\ Waiting("chunk") /\ ~NoResult(R) => Q = <<>> /\ Tail(R) = <<>> /\ call.audio = h.audio

\* A result under way is the first answer, and the client waits for it.
ResultInv(c) ==
  LET R == toClient[c] IN
  /\ R # <<>> => NoResult(Tail(R))
  /\ \A m \in ToSet(R) : m.t = "chunk_result" =>
       /\ m.seq = client.next /\ client.chunk = client.next /\ client.inFlight
       /\ Waiting("chunk") => <<c, call.audio>> \in processed
  /\ call.kind = "chunk" /\ call.answer = "ok" => <<c, call.audio>> \in processed /\ NoResult(R)

\* What is on its way to the handler is of its session and has the client's number.
Underway(c) ==
  \A i \in 1..Len(toServer[c]) :
    LET m == toServer[c][i] IN
    /\ m.t \in {"end", "audio"} /\ m.session = c
    /\ m.t = "audio" => m.seq = client.next

InStep(c) ==
  handler[c].pc \in {"open", "stt"} =>
    handler[c].meeting # 0 /\ Underway(c) /\ (Agreed(c) \/ Ahead(c))

SessionOf(c) == handler[c].pc \notin {"none", "hello"} /\ ResultInv(c) /\ InStep(c)

SessionInv ==
  /\ acked \subseteq processed
  /\ call.kind = "chunk" /\ call.answer = "failed" => ~client.inFlight
  /\ \A c \in Connections : client.session = c => SessionOf(c)

-----------------------------------------------------------------------------
(* The end of the session *)

\* The text of every row of c is in texts, with the number of its chunk.
Said(c, texts) ==
  \A m \in Meetings : \A i \in RowsOf(m) : transcript[m][i].session = c =>
    <<transcript[m][i].seq, transcript[m][i].words>> \in texts

ShownOf(c) == {text \in Texts : <<c, text>> \in shown}
OnTheWay(c) ==
  UNION {TextsOf(m.seq, m.parts) : m \in {r \in ToSet(toClient[c]) : r.t = "chunk_result"}}

\* What a session whose client still reads has said is shown or on its way.
ShownOrSent(c) ==
  \/ c \notin readers
  \/ \E m \in ToSet(toClient[c]) : m.t = "error" /\ m.fatal
  \/ Said(c, ShownOf(c) \cup OnTheWay(c))

EndInv ==
  /\ \A c \in Connections : client.session = c => ShownOrSent(c)
  /\ Waiting("end") => client.session = call.session
  /\ \A c \in Connections :
       c \in confirmed \/ (call.kind = "end" /\ call.answer = "ok" /\ call.session = c) =>
         handler[c].pc = "closed" /\ Said(c, ShownOf(c))

-----------------------------------------------------------------------------
(* What the helpers return *)

\* Every message is built of what its kind may carry.
LEMMA MessageTypes ==
  /\ \A r \in Requests : StartMessage(r) \in ClientMessages
  /\ \A r \in Requests, c \in Connections, n \in 0..MaxAudio : EndMessage(r, c, n) \in ClientMessages
  /\ \A c \in Connections, n \in 0..MaxAudio, a \in 1..MaxAudio :
       AudioMessage(c, n, a) \in ClientMessages
  /\ CloseMessage \in ClientMessages /\ CloseMessage \in ServerMessages
  /\ HelloAck \in ServerMessages
  /\ \A r \in Requests, c \in Connections :
       Started(r, c) \in ServerMessages /\ Stopped(r, c) \in ServerMessages
  /\ \A n \in 0..MaxAudio, parts \in Parts : ChunkResult(n, parts) \in ServerMessages
  /\ \A e \in ErrorCodes, fatal \in BOOLEAN : ProtocolError(e, fatal) \in ServerMessages
<1> USE DEF ClientMessages, ServerMessages
<1>1. \A r \in Requests : StartMessage(r) \in ClientMessages
  BY DEF StartMessage
<1>2. \A r \in Requests, c \in Connections, n \in 0..MaxAudio :
        EndMessage(r, c, n) \in ClientMessages
  BY DEF EndMessage
<1>3. \A c \in Connections, n \in 0..MaxAudio, a \in 1..MaxAudio :
        AudioMessage(c, n, a) \in ClientMessages
  BY DEF AudioMessage
<1>4. CloseMessage \in ClientMessages /\ CloseMessage \in ServerMessages
      /\ HelloAck \in ServerMessages
  BY DEF CloseMessage, HelloAck
<1>5. \A r \in Requests, c \in Connections :
        Started(r, c) \in ServerMessages /\ Stopped(r, c) \in ServerMessages
  BY DEF Started, Stopped
<1>6. \A n \in 0..MaxAudio, parts \in Parts : ChunkResult(n, parts) \in ServerMessages
  BY DEF ChunkResult
<1>7. \A e \in ErrorCodes, fatal \in BOOLEAN : ProtocolError(e, fatal) \in ServerMessages
  BY DEF ProtocolError
<1> QED BY <1>1, <1>2, <1>3, <1>4, <1>5, <1>6, <1>7

\* A message of a kind has the fields of that kind.
LEMMA MessageFields ==
  ASSUME NEW m
  PROVE  /\ m \in ClientMessages =>
              /\ m.t \in {"close", "start", "end", "audio"}
              /\ m.t = "start" => m.req \in Requests
              /\ m.t = "end" => m.req \in Requests /\ m.session \in Connections
                                /\ m.last \in 0..MaxAudio
              /\ m.t = "audio" => m.session \in Connections /\ m.seq \in 0..MaxAudio
                                  /\ m.audio \in 1..MaxAudio
         /\ m \in ServerMessages =>
              /\ m.t \in {"hello_ack", "close", "started", "stopped", "error", "chunk_result"}
              /\ m.t \in {"started", "stopped"} => m.req \in Requests /\ m.session \in Connections
              /\ m.t = "error" => m.code \in ErrorCodes /\ m.fatal \in BOOLEAN
              /\ m.t = "chunk_result" => m.seq \in 0..MaxAudio /\ m.parts \in Parts
<1>1. m \in ClientMessages =>
        /\ m.t \in {"close", "start", "end", "audio"}
        /\ m.t = "start" => m.req \in Requests
        /\ m.t = "end" => m.req \in Requests /\ m.session \in Connections /\ m.last \in 0..MaxAudio
        /\ m.t = "audio" => m.session \in Connections /\ m.seq \in 0..MaxAudio
                            /\ m.audio \in 1..MaxAudio
  BY DEF ClientMessages
<1>2. m \in ServerMessages =>
        /\ m.t \in {"hello_ack", "close", "started", "stopped", "error", "chunk_result"}
        /\ m.t \in {"started", "stopped"} => m.req \in Requests /\ m.session \in Connections
        /\ m.t = "error" => m.code \in ErrorCodes /\ m.fatal \in BOOLEAN
        /\ m.t = "chunk_result" => m.seq \in 0..MaxAudio /\ m.parts \in Parts
  BY DEF ServerMessages
<1> QED BY <1>1, <1>2

\* Taking the head off a queue in order leaves it in order, after the head.
LEMMA InOrderTail ==
  ASSUME NEW queue \in Seq(ClientMessages), queue # <<>>, NEW taken \in Nat, NEW last \in Nat,
         InOrder(queue, taken, last)
  PROVE  /\ InOrder(Tail(queue), taken, last)
         /\ Head(queue).t = "audio" =>
              /\ taken < Head(queue).audio /\ Head(queue).audio <= last
              /\ InOrder(Tail(queue), Head(queue).audio, last)
<1> DEFINE rest == Tail(queue)
<1>1. Len(queue) \in Nat \ {0} /\ Len(rest) = Len(queue) - 1
      /\ \A i \in 1..Len(rest) : rest[i] = queue[i + 1] /\ i + 1 \in 1..Len(queue)
  BY HeadTailProperties, EmptySeq
<1>2. Head(queue) = queue[1] /\ 1 \in 1..Len(queue)
  BY <1>1
<1> HIDE DEF rest
<1>3. \A i \in 1..Len(rest) : rest[i].t = "audio" =>
        taken < rest[i].audio /\ rest[i].audio <= last
  BY <1>1 DEF InOrder
<1>4. \A i, j \in 1..Len(rest) :
        i < j /\ rest[i].t = "audio" /\ rest[j].t = "audio" => rest[i].audio < rest[j].audio
  <2> SUFFICES ASSUME NEW i \in 1..Len(rest), NEW j \in 1..Len(rest), i < j,
                      rest[i].t = "audio", rest[j].t = "audio"
               PROVE  rest[i].audio < rest[j].audio
    OBVIOUS
  <2>1. i + 1 < j + 1
    BY <1>1
  <2> QED BY <1>1, <2>1 DEF InOrder
<1>5. ASSUME Head(queue).t = "audio", NEW i \in 1..Len(rest), rest[i].t = "audio"
      PROVE  Head(queue).audio < rest[i].audio
  <2>1. 1 < i + 1
    BY <1>1
  <2> QED BY <1>1, <1>2, <1>5, <2>1 DEF InOrder
<1>6. Head(queue).t = "audio" => taken < Head(queue).audio /\ Head(queue).audio <= last
  BY <1>2 DEF InOrder
<1> QED BY <1>3, <1>4, <1>5, <1>6 DEF InOrder, rest

\* A queue in order is so with one more message, a chunk only if it is the next
\* one captured.
LEMMA InOrderAppend ==
  ASSUME NEW queue \in Seq(ClientMessages), NEW taken \in Nat, NEW last \in Nat,
         NEW m \in ClientMessages, NEW more \in Nat,
         InOrder(queue, taken, last), taken <= last,
         \/ m.t # "audio" /\ more = last
         \/ m.t = "audio" /\ more = last + 1 /\ m.audio = more
  PROVE  InOrder(Append(queue, m), taken, more)
<1> DEFINE longer == Append(queue, m)
<1>1. Len(queue) \in Nat /\ Len(longer) = Len(queue) + 1 /\ longer[Len(queue) + 1] = m
      /\ \A i \in 1..Len(queue) : longer[i] = queue[i]
  BY AppendProperties, LenProperties
<1> HIDE DEF longer
<1>2. \A i \in 1..Len(longer) : i \in 1..Len(queue) \/ i = Len(queue) + 1
  BY <1>1
<1>3. \A i \in 1..Len(queue) : queue[i].t = "audio" => queue[i].audio \in Nat
  <2> SUFFICES ASSUME NEW i \in 1..Len(queue), queue[i].t = "audio" PROVE queue[i].audio \in Nat
    OBVIOUS
  <2>1. queue[i] \in ClientMessages
    BY ElementOfSeq
  <2> QED BY <2>1, MessageFields, ConstantsAssumption
<1>4. \A i \in 1..Len(longer) : longer[i].t = "audio" =>
        taken < longer[i].audio /\ longer[i].audio <= more
  BY <1>1, <1>2, <1>3 DEF InOrder
<1>5. \A i, j \in 1..Len(longer) :
        i < j /\ longer[i].t = "audio" /\ longer[j].t = "audio" => longer[i].audio < longer[j].audio
  <2> SUFFICES ASSUME NEW i \in 1..Len(longer), NEW j \in 1..Len(longer), i < j,
                      longer[i].t = "audio", longer[j].t = "audio"
               PROVE  longer[i].audio < longer[j].audio
    OBVIOUS
  <2>1. i \in 1..Len(queue)
    BY <1>1
  <2>2. CASE j \in 1..Len(queue)
    BY <1>1, <2>1, <2>2 DEF InOrder
  <2>3. CASE j = Len(queue) + 1
    BY <1>1, <1>3, <2>1, <2>3 DEF InOrder
  <2> QED BY <1>2, <2>2, <2>3
<1> QED BY <1>4, <1>5 DEF InOrder, longer

-----------------------------------------------------------------------------
(* Deduplication *)

\* Sequences of one and of two elements.
LEMMA OneElement ==
  ASSUME NEW S, NEW x \in S
  PROVE  /\ <<x>> \in Seq(S) /\ <<x>> # <<>> /\ Len(<<x>>) = 1 /\ <<x>>[1] = x
         /\ Head(<<x>>) = x /\ Last(<<x>>) = x /\ Tail(<<x>>) = <<>>
         /\ \A i \in 1..Len(<<x>>) : i = 1
<1>1. <<x>> \in Seq(S) /\ <<x>> # <<>> /\ Len(<<x>>) = 1 /\ <<x>>[1] = x
  OBVIOUS
<1>2. Head(<<x>>) = x /\ Last(<<x>>) = x
  BY <1>1 DEF Last
<1>3. Tail(<<x>>) = <<>>
  <2>1. Len(Tail(<<x>>)) = 0 /\ Tail(<<x>>) \in Seq(S)
    BY <1>1, HeadTailProperties
  <2> QED BY <2>1, EmptySeq
<1> QED BY <1>1, <1>2, <1>3

LEMMA TwoElements ==
  ASSUME NEW S, NEW x \in S, NEW y \in S
  PROVE  /\ <<x, y>> \in Seq(S) /\ <<x, y>> # <<>> /\ Len(<<x, y>>) = 2
         /\ <<x, y>>[1] = x /\ <<x, y>>[2] = y
         /\ Head(<<x, y>>) = x /\ Last(<<x, y>>) = y /\ Tail(<<x, y>>) = <<y>>
         /\ Append(<<x>>, y) = <<x, y>>
         /\ \A i \in 1..Len(<<x, y>>) : i = 1 \/ i = 2
<1>1. <<x, y>> \in Seq(S) /\ <<x, y>> # <<>> /\ Len(<<x, y>>) = 2
      /\ <<x, y>>[1] = x /\ <<x, y>>[2] = y
  OBVIOUS
<1>2. Head(<<x, y>>) = x /\ Last(<<x, y>>) = y
  BY <1>1 DEF Last
<1>3. Tail(<<x, y>>) = <<y>>
  <2>1. Len(Tail(<<x, y>>)) = 1 /\ Tail(<<x, y>>) \in Seq(S)
        /\ \A i \in 1..Len(Tail(<<x, y>>)) : Tail(<<x, y>>)[i] = <<x, y>>[i + 1]
    BY <1>1, HeadTailProperties
  <2>2. Tail(<<x, y>>)[1] = y
    BY <1>1, <2>1
  <2> QED BY <2>1, <2>2, OneElement, SeqEqual
<1>4. Append(<<x>>, y) = <<x, y>>
  <2>1. Append(<<x>>, y) \in Seq(S) /\ Len(Append(<<x>>, y)) = 2
        /\ Append(<<x>>, y)[1] = x /\ Append(<<x>>, y)[2] = y
    BY OneElement, AppendProperties
  <2> DEFINE s == Append(<<x>>, y)
             t == <<x, y>>
  <2>2. s \in Seq(S) /\ t \in Seq(S) /\ Len(s) = Len(t) /\ \A i \in 1..Len(s) : s[i] = t[i]
    <3>1. \A i \in 1..2 : i = 1 \/ i = 2
      OBVIOUS
    <3> QED BY <1>1, <2>1, <3>1
  <2> HIDE DEF s, t
  <2>3. s = t
    BY <2>2, SeqEqual
  <2> QED BY <2>3 DEF s, t
<1>5. \A i \in 1..Len(<<x, y>>) : i = 1 \/ i = 2
  BY <1>1
<1> QED BY <1>1, <1>2, <1>3, <1>4, <1>5

LEMMA SequenceOfOne ==
  ASSUME NEW S, NEW s \in Seq(S), Len(s) = 1
  PROVE  s = <<s[1]>> /\ s[1] \in S
<1>1. s[1] \in S
  BY ElementOfSeq
<1> DEFINE t == <<s[1]>>
<1>2. t \in Seq(S) /\ Len(s) = Len(t) /\ \A i \in 1..Len(s) : s[i] = t[i]
  BY <1>1, OneElement
<1> HIDE DEF t
<1>3. s = t
  BY <1>2, SeqEqual
<1> QED BY <1>1, <1>3 DEF t

\* What deduplication leaves of a text is a text: there is a greatest overlap.
LEMMA DeduplicateType ==
  ASSUME NEW previous \in Seq(Words), NEW current \in Seq(Words)
  PROVE  Deduplicate(previous, current) \in Seq(Words)
<1>1. Len(previous) \in Nat /\ Len(current) \in Nat /\ MaxOverlap \in Nat \ {0}
  BY ConstantsAssumption, LenProperties
<1> DEFINE most == Smaller(MaxOverlap, Smaller(Len(previous), Len(current)))
           Sizes == OverlapSizes(previous, current)
           size == CHOOSE n \in Sizes : \A k \in Sizes : k <= n
<1>2. most \in Nat /\ most <= Len(previous) /\ most <= Len(current)
  BY <1>1 DEF Smaller
<1>3. Sizes = {n \in 0..most : SubSeq(previous, Len(previous) - n + 1, Len(previous))
                                 = SubSeq(current, 1, n)}
  BY DEF OverlapSizes
<1> HIDE DEF most, Sizes
<1>4. 0 \in Sizes
  <2>1. SubSeq(previous, Len(previous) - 0 + 1, Len(previous)) = <<>>
    BY <1>1, SubSeqEmpty
  <2>2. SubSeq(current, 1, 0) = <<>>
    BY SubSeqEmpty
  <2> QED BY <1>2, <1>3, <2>1, <2>2
<1>5. \E n \in Sizes : \A k \in Sizes : k <= n
  <2>0. Sizes \subseteq 0..most
    BY <1>3
  <2>1. Sizes \in SUBSET Nat /\ Sizes # {} /\ \A n \in Sizes : n <= most
    BY <1>2, <1>4, <2>0
  <2> QED BY <1>2, <2>1, GreatestNumber
<1>6. size \in Nat
  <2>1. size \in Sizes
    BY <1>5
  <2> HIDE DEF size
  <2> QED BY <1>2, <1>3, <2>1
<1>7. Deduplicate(previous, current) = SubSeq(current, size + 1, Len(current))
  BY DEF Deduplicate, Sizes
<1> HIDE DEF size
<1>8. size + 1 \in Int /\ Len(current) \in Int
      /\ \A i \in (size + 1)..Len(current) : current[i] \in Words
  <2>1. \A i \in (size + 1)..Len(current) : i \in 1..Len(current)
    BY <1>1, <1>6
  <2> QED BY <1>1, <1>6, <2>1, ElementOfSeq
<1> QED BY <1>7, <1>8, SubSeqProperties

\* The texts of parts follow on previous: each is what deduplication against
\* the text before it leaves of one of the segments.
LeftOf(previous, segments, parts) ==
  \A n \in 1..Len(parts) : \E k \in 1..Len(segments) :
    parts[n] = Deduplicate(IF n = 1 THEN previous ELSE parts[n - 1], segments[k])

\* What was accepted of the segments, and the text accepted last.
Taken(previous, segments, acc) ==
  /\ acc.parts \in Parts /\ acc.previous \in Seq(Words)
  /\ acc.previous = IF acc.parts = <<>> THEN previous ELSE acc.parts[Len(acc.parts)]
  /\ LeftOf(previous, segments, acc.parts)

\* One segment more follows on the text accepted before it.
LEMMA AcceptTaken ==
  ASSUME NEW previous \in Seq(Words), NEW segments \in Seq(Seq(Words)),
         NEW acc, Taken(previous, segments, acc), NEW k \in 1..Len(segments)
  PROVE  Taken(previous, segments, Accept(acc, segments[k]))
<1> DEFINE text == Deduplicate(acc.previous, segments[k])
           old == acc.parts
           new == Append(old, text)
           l == Len(old)
<1>1. /\ old \in Seq(Seq(Words)) /\ acc.previous \in Seq(Words)
      /\ acc.previous = (IF old = <<>> THEN previous ELSE old[l])
      /\ LeftOf(previous, segments, old)
  BY DEF Taken, Parts
<1>2. text \in Seq(Words)
  BY <1>1, ElementOfSeq, DeduplicateType
<1>3. CASE text = <<>>
  BY <1>3 DEF Accept
<1>4. CASE text # <<>>
  <2>1. Accept(acc, segments[k]) = [previous |-> text, parts |-> new]
    BY <1>4 DEF Accept
  <2>t. text = Deduplicate(acc.previous, segments[k])
    OBVIOUS
  <2> HIDE DEF text, old
  <2>2. /\ new \in Seq(Seq(Words)) /\ l \in Nat /\ Len(new) = l + 1 /\ new # <<>>
        /\ new[l + 1] = text /\ \A i \in 1..l : new[i] = old[i]
    <3>1. new \in Seq(Seq(Words)) /\ l \in Nat /\ Len(new) = l + 1
          /\ new[l + 1] = text /\ \A i \in 1..l : new[i] = old[i]
      BY <1>1, <1>2, AppendProperties, LenProperties
    <3>2. l + 1 # 0
      <4> HIDE DEF l
      <4> QED BY <3>1
    <3>3. new # <<>>
      <4> HIDE DEF new
      <4> QED BY <3>1, <3>2, EmptySeq
    <3> QED BY <3>1, <3>3
  <2>3. ASSUME NEW n \in 1..Len(new)
        PROVE  \E j \in 1..Len(segments) :
                 new[n] = Deduplicate(IF n = 1 THEN previous ELSE new[n - 1], segments[j])
    <3>1. CASE n \in 1..l
      <4>1. new[n] = old[n] /\ (n # 1 => n - 1 \in 1..l)
        BY <2>2, <3>1
      <4>2. n # 1 => new[n - 1] = old[n - 1]
        BY <2>2, <4>1
      <4>3. PICK j \in 1..Len(segments) :
              old[n] = Deduplicate(IF n = 1 THEN previous ELSE old[n - 1], segments[j])
        BY <1>1, <3>1 DEF LeftOf
      <4> QED BY <4>1, <4>2, <4>3
    <3>2. CASE n = l + 1
      <4>1. new[n] = Deduplicate(acc.previous, segments[k])
        BY <2>2, <2>t, <3>2
      <4>2. acc.previous = IF n = 1 THEN previous ELSE new[n - 1]
        <5>1. CASE old = <<>>
          <6>1. l = 0
            BY <5>1
          <6> QED BY <1>1, <3>2, <5>1, <6>1
        <5>2. CASE old # <<>>
          <6>1. l # 0
            BY <1>1, <5>2, EmptySeq
          <6>0. l \in Nat
            BY <2>2
          <6>2. n # 1 /\ n - 1 = l /\ l \in 1..l
            <7> HIDE DEF l, new
            <7> QED BY <3>2, <6>0, <6>1
          <6> QED BY <1>1, <2>2, <5>2, <6>2
        <5> QED BY <5>1, <5>2
      <4> QED BY <4>1, <4>2
    <3>3. n \in 1..l \/ n = l + 1
      <4> HIDE DEF l, new
      <4> QED BY <2>2
    <3> QED BY <3>1, <3>2, <3>3
  <2> HIDE DEF new, l
  <2>4. LeftOf(previous, segments, new)
    BY <2>3 DEF LeftOf
  <2>5. new[Len(new)] = text
    BY <2>2
  <2> DEFINE more == Accept(acc, segments[k])
  <2>6. more.previous = text /\ more.parts = new
    BY <2>1
  <2> HIDE DEF more
  <2>7. Taken(previous, segments, more)
    BY <1>2, <2>2, <2>4, <2>5, <2>6 DEF Taken, Parts
  <2> QED BY <2>7 DEF more
<1> QED BY <1>3, <1>4

\* What the handler makes of the transcription of the chunk in hand: texts that
\* follow on the one accepted last.
LEMMA AddedParts ==
  ASSUME NEW h \in HandlerType, h.audio \in 1..MaxAudio, NEW segments \in Transcriptions[h.audio]
  PROVE  LET accepted == Accepted(h.previous, segments)
             parts == accepted.parts
         IN /\ parts \in Parts /\ accepted.previous \in Seq(Words)
            /\ Len(parts) \in Nat
            /\ accepted.previous = IF parts = <<>> THEN h.previous ELSE parts[Len(parts)]
            /\ LeftOf(h.previous, segments, parts)
<1> DEFINE a == h.audio
           w == h.previous
           none == [previous |-> w, parts |-> <<>>]
           s == segments
<1>1. a \in 1..MaxAudio /\ w \in Seq(Words) /\ s \in Transcriptions[a]
  BY DEF HandlerType
<1> HIDE DEF a, w
<1>2. s \in Seq(Seq(Words)) /\ Len(s) \in Nat /\ Len(s) <= 3
  <2>1. Transcriptions[a] \subseteq Seq(Seq(Words)) /\ \A t \in Transcriptions[a] : Len(t) <= 3
    BY <1>1, ConstantsAssumption
  <2> QED BY <1>1, <2>1, LenProperties
<1>3. Taken(w, s, none)
  <2>1. none.parts = <<>> /\ none.previous = w /\ <<>> \in Seq(Seq(Words)) /\ Len(<<>>) = 0
    OBVIOUS
  <2> QED BY <1>1, <2>1 DEF Taken, LeftOf, Parts
<1> HIDE DEF none, s
<1> DEFINE l == Len(s)
<1>4. l \in {0, 1, 2, 3} /\ l \in Nat
  <2>1. l \in Nat /\ l <= 3
    BY <1>2
  <2> HIDE DEF l
  <2> QED BY <2>1
<1>5. CASE Len(s) = 0
  <2>1. Accepted(w, s) = none
    BY <1>5 DEF Accepted, none
  <2> QED BY <1>3, <2>1, LenProperties DEF Taken, Parts, a, w, s
<1>6. CASE Len(s) # 0
  <2>1. 1 \in 1..l /\ (l # 1 => 2 \in 1..l) /\ (l = 3 => 3 \in 1..l)
    <3>1. l # 0
      BY <1>6
    <3> HIDE DEF l
    <3> QED BY <1>4, <3>1
  <2> DEFINE one == Accept(none, s[1])
             two == Accept(one, s[2])
             three == Accept(two, s[3])
  <2>2. /\ Len(s) = 1 => Accepted(w, s) = one
        /\ Len(s) = 2 => Accepted(w, s) = two
        /\ Len(s) = 3 => Accepted(w, s) = three
    BY DEF Accepted, none
  <2>3. Taken(w, s, one)
    BY <1>1, <1>2, <1>3, <2>1, AcceptTaken
  <2> HIDE DEF one
  <2>4. Len(s) # 1 => Taken(w, s, two)
    BY <1>1, <1>2, <2>1, <2>3, AcceptTaken
  <2> HIDE DEF two
  <2>5. Len(s) = 3 => Taken(w, s, three)
    BY <1>1, <1>2, <2>1, <2>4, AcceptTaken
  <2> HIDE DEF three
  <2>6. Taken(w, s, Accepted(w, s))
    BY <1>4, <1>6, <2>2, <2>3, <2>4, <2>5
  <2> QED BY <2>6, LenProperties DEF Taken, Parts, a, w, s
<1> QED BY <1>5, <1>6

-----------------------------------------------------------------------------
(* Types: the backend's steps *)

LEMMA ConstantTypes ==
  /\ MaxConnections \in Nat /\ MaxAudio \in Nat /\ MaxRequests \in Nat
  /\ MaxViolations \in Nat \ {0} /\ MaxOverlap \in Nat \ {0}
  /\ Connections \subseteq Nat \ {0} /\ Meetings \subseteq Nat \ {0}
  /\ 0 \notin Connections /\ 0 \notin Meetings
BY ConstantsAssumption DEF Connections, Requests, Meetings

\* The records the program starts from and falls back to.
LEMMA RecordTypes ==
  /\ NoHandler \in HandlerType /\ Returned \in HandlerType
  /\ NoClient \in ClientType /\ NoCall \in CallType
  /\ \A cl \in ClientType : FailPending(cl) \in ClientType /\ MarkFailed(cl) \in ClientType
                            /\ MarkFailed(FailPending(cl)) \in ClientType
<1>1. NoHandler \in HandlerType
  BY ConstantTypes DEF NoHandler, HandlerType
<1>2. Returned \in HandlerType
  BY <1>1 DEF Returned, HandlerType, NoHandler
<1>3. NoClient \in ClientType /\ NoCall \in CallType
  BY ConstantTypes DEF NoClient, NoCall, ClientType, CallType, NoChunk
<1>a. 0 \in 0..MaxConnections /\ 0 \in 0..MaxAudio /\ 0 \in 0..MaxRequests /\ NoChunk \in -1..MaxAudio
  BY ConstantTypes DEF NoChunk
<1>b. \A cl \in ClientType :
        /\ \A v \in 0..MaxConnections : [cl EXCEPT !.writer = v] \in ClientType
                                        /\ [cl EXCEPT !.session = v] \in ClientType
        /\ \A v \in 0..MaxAudio : [cl EXCEPT !.next = v] \in ClientType
        /\ \A v \in -1..MaxAudio : [cl EXCEPT !.chunk = v] \in ClientType
  BY DEF ClientType
<1>4. ASSUME NEW cl \in ClientType PROVE FailPending(cl) \in ClientType
  <2>1. [cl EXCEPT !.start = 0] \in ClientType
    BY ConstantTypes DEF ClientType
  <2>2. [cl EXCEPT !.start = 0, !.chunk = NoChunk] \in ClientType
    <3> DEFINE x == [cl EXCEPT !.start = 0]
    <3>1. [x EXCEPT !.chunk = NoChunk] = [cl EXCEPT !.start = 0, !.chunk = NoChunk]
      OBVIOUS
    <3> HIDE DEF x
    <3>2. [x EXCEPT !.chunk = NoChunk] \in ClientType
      BY <1>a, <1>b, <2>1 DEF x
    <3> QED BY <3>1, <3>2
  <2>3. [cl EXCEPT !.start = 0, !.chunk = NoChunk, !.end = 0] \in ClientType
    BY <2>2, ConstantTypes DEF ClientType
  <2>4. [cl EXCEPT !.start = 0, !.chunk = NoChunk, !.end = 0, !.inFlight = FALSE] \in ClientType
    BY <2>3, ConstantTypes DEF ClientType
  <2> QED BY <2>4 DEF FailPending
<1>5. ASSUME NEW cl \in ClientType PROVE MarkFailed(cl) \in ClientType
  <2>1. [cl EXCEPT !.writer = 0] \in ClientType
    BY ConstantTypes DEF ClientType
  <2>2. [cl EXCEPT !.writer = 0, !.session = 0] \in ClientType
    BY <2>1, ConstantTypes DEF ClientType
  <2>3. [cl EXCEPT !.writer = 0, !.session = 0, !.next = 0] \in ClientType
    <3> DEFINE x == [cl EXCEPT !.writer = 0, !.session = 0]
    <3>1. [x EXCEPT !.next = 0] = [cl EXCEPT !.writer = 0, !.session = 0, !.next = 0]
      OBVIOUS
    <3> HIDE DEF x
    <3>2. [x EXCEPT !.next = 0] \in ClientType
      BY <1>a, <1>b, <2>2 DEF x
    <3> QED BY <3>1, <3>2
  <2>4. [cl EXCEPT !.writer = 0, !.session = 0, !.next = 0, !.status = "failed"] \in ClientType
    BY <2>3, ConstantTypes DEF ClientType
  <2> QED BY <2>4 DEF MarkFailed
<1> QED BY <1>1, <1>2, <1>3, <1>4, <1>5

\* What TypeInv says of one connection.
LEMMA ConnectionTypes ==
  ASSUME TypeInv, NEW c \in Connections
  PROVE  /\ handler[c] \in HandlerType
         /\ handler[c].pc \in {"none", "hello", "open", "stt", "ending", "closing", "closed"}
         /\ handler[c].meeting \in 0..MaxRequests /\ handler[c].expected \in 0..MaxAudio
         /\ handler[c].violations \in 0..(MaxViolations - 1)
         /\ handler[c].audio \in 0..MaxAudio /\ handler[c].req \in 0..MaxRequests
         /\ handler[c].previous \in Seq(Words)
         /\ toServer[c] \in Seq(ClientMessages) /\ toClient[c] \in Seq(ServerMessages)
         /\ HandlerBounds(c) /\ IncomingBounds(c) /\ captured \in Nat
BY ConstantTypes DEF TypeInv, TypeOK, HandlerType

\* A reply is made of server messages.
LEMMA ReplyType ==
  ASSUME toClient \in [Connections -> Seq(ServerMessages)], NEW c \in Connections,
         NEW messages \in Seq(ServerMessages), Reply(c, messages)
  PROVE  toClient' \in [Connections -> Seq(ServerMessages)]
<1>1. toClient[c] \o messages \in Seq(ServerMessages)
  BY ConcatProperties
<1> QED BY <1>1 DEF Reply

\* What the handler sends.
LEMMA AnswerTypes ==
  /\ <<HelloAck>> \in Seq(ServerMessages) /\ <<CloseMessage>> \in Seq(ServerMessages)
  /\ \A e \in ErrorCodes, fatal \in BOOLEAN :
       /\ <<ProtocolError(e, fatal)>> \in Seq(ServerMessages)
       /\ <<ProtocolError(e, fatal), CloseMessage>> \in Seq(ServerMessages)
  /\ \A r \in Requests, c \in Connections :
       /\ <<Started(r, c)>> \in Seq(ServerMessages)
       /\ \A e \in ErrorCodes :
            <<Started(r, c), ProtocolError(e, FALSE)>> \in Seq(ServerMessages)
       /\ <<Stopped(r, c), CloseMessage>> \in Seq(ServerMessages)
  /\ \A n \in 0..MaxAudio, parts \in Parts : <<ChunkResult(n, parts)>> \in Seq(ServerMessages)
BY MessageTypes, OneElement, TwoElements

\* Taking a message off a connection.
LEMMA ReceiveTypes ==
  ASSUME TypeInv, NEW c \in Connections, NEW t, Receive(c, t)
  PROVE  /\ handler[c].pc = "open"
         /\ Head(toServer[c]) \in ClientMessages /\ Head(toServer[c]).t = t
         /\ toServer' = [toServer EXCEPT ![c] = toServer'[c]]
         /\ toServer'[c] \in Seq(ClientMessages)
         /\ InOrder(toServer'[c], handler[c].audio, captured)
         /\ t = "audio" => /\ handler[c].audio < Head(toServer[c]).audio
                           /\ Head(toServer[c]).audio <= captured
                           /\ InOrder(toServer'[c], Head(toServer[c]).audio, captured)
<1>1. toServer[c] \in Seq(ClientMessages) /\ toServer[c] # <<>> /\ Head(toServer[c]).t = t
      /\ handler[c].pc = "open" /\ toServer' = [toServer EXCEPT ![c] = Tail(toServer[c])]
      /\ handler[c].audio \in Nat /\ captured \in Nat
      /\ InOrder(toServer[c], handler[c].audio, captured)
  BY ConnectionTypes, ConstantTypes DEF Receive, IncomingBounds
<1>2. toServer'[c] = Tail(toServer[c])
  BY <1>1 DEF TypeInv, TypeOK
<1>3. Head(toServer[c]) \in ClientMessages /\ Tail(toServer[c]) \in Seq(ClientMessages)
  BY <1>1, HeadTailProperties
<1>4. InOrder(Tail(toServer[c]), handler[c].audio, captured)
      /\ (t = "audio" => /\ handler[c].audio < Head(toServer[c]).audio
                         /\ Head(toServer[c]).audio <= captured
                         /\ InOrder(Tail(toServer[c]), Head(toServer[c]).audio, captured))
  BY <1>1, InOrderTail
<1> QED BY <1>1, <1>2, <1>3, <1>4

\* A step of one handler keeps the types if it keeps its own.
LEMMA OneHandlerTypes ==
  ASSUME TypeInv, NEW c \in Connections, UNCHANGED <<clientVars, uiVars, mstatus, backend>>,
         NEW h \in HandlerType, handler' = [handler EXCEPT ![c] = h],
         NEW queue \in Seq(ClientMessages), toServer' = [toServer EXCEPT ![c] = queue],
         toClient' \in [Connections -> Seq(ServerMessages)],
         transcript' \in [Meetings -> Seq(Rows)],
         processed' \subseteq Connections \X (1..MaxAudio),
         h.expected <= h.audio, h.audio <= captured,
         h.pc = "stt" => h.meeting # 0 /\ h.expected < h.audio,
         h.pc = "ending" => h.req # 0,
         InOrder(queue, h.audio, captured),
         h.meeting # 0 => mstatus[h.meeting] # "absent"
  PROVE  TypeInv'
<1> USE DEF clientVars, uiVars
<1>1. TypeOK'
  BY DEF TypeInv, TypeOK
<1>2. \A d \in Connections : handler'[d] = IF d = c THEN h ELSE handler[d]
  BY DEF TypeInv, TypeOK
<1>3. \A d \in Connections : toServer'[d] = IF d = c THEN queue ELSE toServer[d]
  BY DEF TypeInv, TypeOK
<1>4. ASSUME NEW d \in Connections PROVE HandlerBounds(d)'
  BY <1>2 DEF HandlerBounds, TypeInv
<1>5. ASSUME NEW d \in Connections PROVE IncomingBounds(d)'
  BY <1>2, <1>3 DEF IncomingBounds, TypeInv
<1>6. ClientBounds'
  BY DEF ClientBounds, TypeInv
<1>7. RequestBounds'
  BY <1>2 DEF RequestBounds, TypeInv
<1> QED BY <1>1, <1>4, <1>5, <1>6, <1>7 DEF TypeInv

\* A handler that has returned.
LEMMA ReturnTypes ==
  ASSUME TypeInv, NEW c \in Connections, Return(c),
         UNCHANGED <<clientVars, uiVars, mstatus, backend, transcript, processed>>,
         toClient' \in [Connections -> Seq(ServerMessages)]
  PROVE  TypeInv'
<1>1. Returned \in HandlerType /\ Returned.expected = 0 /\ Returned.audio = 0
      /\ Returned.pc = "closed" /\ Returned.meeting = 0
  BY RecordTypes DEF Returned, NoHandler
<1>2. captured \in Nat /\ transcript' \in [Meetings -> Seq(Rows)]
      /\ processed' \subseteq Connections \X (1..MaxAudio)
  BY ConnectionTypes DEF TypeInv, TypeOK
<1>3. <<>> \in Seq(ClientMessages) /\ InOrder(<<>>, 0, captured)
  BY EmptySeq DEF InOrder
<1>4. handler' = [handler EXCEPT ![c] = Returned] /\ toServer' = [toServer EXCEPT ![c] = <<>>]
  BY DEF Return
<1>5. /\ Returned.expected <= Returned.audio /\ Returned.audio <= captured
      /\ (Returned.pc = "stt" => Returned.meeting # 0 /\ Returned.expected < Returned.audio)
      /\ (Returned.pc = "ending" => Returned.req # 0)
      /\ InOrder(<<>>, Returned.audio, captured)
      /\ (Returned.meeting # 0 => mstatus[Returned.meeting] # "absent")
  BY <1>1, <1>2, <1>3
<1> DEFINE h == Returned
           queue == <<>>
<1>6. h \in HandlerType /\ queue \in Seq(ClientMessages)
  BY <1>1, <1>3
<1>7. handler' = [handler EXCEPT ![c] = h] /\ toServer' = [toServer EXCEPT ![c] = queue]
  BY <1>4
<1>8. /\ h.expected <= h.audio /\ h.audio <= captured
      /\ (h.pc = "stt" => h.meeting # 0 /\ h.expected < h.audio)
      /\ (h.pc = "ending" => h.req # 0)
      /\ InOrder(queue, h.audio, captured)
      /\ (h.meeting # 0 => mstatus[h.meeting] # "absent")
  BY <1>5
<1> HIDE DEF h, queue
<1> QED BY <1>2, <1>6, <1>7, <1>8, OneHandlerTypes

\* The transcript with what a step of the handler adds to it.
LEMMA AddRowsTypes ==
  ASSUME TypeInv, NEW c \in Connections, handler[c].pc = "stt",
         NEW parts \in Parts, NEW n \in 0..Len(parts), AddRows(c, parts, n)
  PROVE  /\ handler[c].meeting \in Meetings
         /\ transcript' \in [Meetings -> Seq(Rows)]
         /\ \A m \in Meetings \ {handler[c].meeting} : transcript'[m] = transcript[m]
         /\ LET old == transcript[handler[c].meeting]
                new == transcript'[handler[c].meeting]
            IN /\ Len(new) = Len(old) + n
               /\ \A i \in 1..Len(old) : new[i] = old[i]
               /\ \A i \in (Len(old) + 1)..Len(new) :
                    /\ i - Len(old) \in 1..n
                    /\ new[i] = Row(c, handler[c].expected, handler[c].audio, parts[i - Len(old)])
<1>1. handler[c].meeting \in Meetings /\ handler[c].expected \in 0..MaxAudio
      /\ handler[c].audio \in 1..MaxAudio
  <2> DEFINE h == handler[c]
             a == h.audio
             r == h.meeting
  <2>1. r \in 0..MaxRequests /\ h.expected \in 0..MaxAudio /\ a \in 0..MaxAudio
        /\ r # 0 /\ h.expected < a
    BY ConnectionTypes DEF HandlerBounds
  <2>2. a \in 1..MaxAudio
    <3> DEFINE e == h.expected
    <3>1. e \in Nat /\ e < a /\ a \in 0..MaxAudio
      BY <2>1, ConstantTypes
    <3> HIDE DEF a, e
    <3> QED BY <3>1, ConstantTypes
  <2>3. r \in 1..MaxRequests
    <3> HIDE DEF r
    <3> QED BY <2>1, ConstantTypes
  <2> QED BY <2>1, <2>2, <2>3 DEF Meetings, Requests
<1> DEFINE m == handler[c].meeting
           old == transcript[m]
           more == [i \in 1..n |-> Row(c, handler[c].expected, handler[c].audio, parts[i])]
<1>2. Len(parts) \in Nat /\ \A i \in 1..n : parts[i] \in Seq(Words)
  <2>1. Len(parts) \in Nat
    BY LenProperties DEF Parts
  <2>2. \A i \in 1..Len(parts) : parts[i] \in Seq(Words)
    BY ElementOfSeq DEF Parts
  <2> QED BY <2>1, <2>2
<1>3. \A i \in 1..n : Row(c, handler[c].expected, handler[c].audio, parts[i]) \in Rows
  BY <1>1, <1>2 DEF Row, Rows
<1>4. more \in Seq(Rows) /\ Len(more) = n
      /\ \A i \in 1..n : more[i] = Row(c, handler[c].expected, handler[c].audio, parts[i])
  BY <1>2, <1>3
<1>5. old \in Seq(Rows) /\ transcript \in [Meetings -> Seq(Rows)]
  BY <1>1 DEF TypeInv, TypeOK
<1>6. transcript' = [transcript EXCEPT ![m] = old \o more]
  BY DEF AddRows
<1> HIDE DEF more
<1>7. old \o more \in Seq(Rows) /\ Len(old \o more) = Len(old) + n /\ Len(old) \in Nat
      /\ \A i \in 1..(Len(old) + n) :
           (old \o more)[i] = IF i <= Len(old) THEN old[i] ELSE more[i - Len(old)]
  BY <1>4, <1>5, ConcatProperties, LenProperties
<1>8. transcript' \in [Meetings -> Seq(Rows)] /\ transcript'[m] = old \o more
      /\ \A k \in Meetings \ {m} : transcript'[k] = transcript[k]
  BY <1>1, <1>5, <1>6, <1>7
<1> HIDE DEF m
<1>9. \A i \in 1..Len(old) : transcript'[m][i] = old[i]
  BY <1>7, <1>8
<1>10. \A i \in (Len(old) + 1)..Len(transcript'[m]) :
         /\ i - Len(old) \in 1..n
         /\ transcript'[m][i] = Row(c, handler[c].expected, handler[c].audio, parts[i - Len(old)])
  <2> SUFFICES ASSUME NEW i \in (Len(old) + 1)..Len(transcript'[m])
               PROVE  /\ i - Len(old) \in 1..n
                      /\ transcript'[m][i]
                           = Row(c, handler[c].expected, handler[c].audio, parts[i - Len(old)])
    OBVIOUS
  <2>1. i \in 1..(Len(old) + n) /\ ~(i <= Len(old)) /\ i - Len(old) \in 1..n
    <3> DEFINE x == Len(old)
               y == Len(transcript'[m])
    <3>1. x \in Nat /\ y = x + n /\ i \in (x + 1)..y /\ n \in Nat
      BY <1>2, <1>7, <1>8
    <3> HIDE DEF x, y
    <3>2. i \in 1..(x + n) /\ ~(i <= x) /\ i - x \in 1..n
      BY <3>1
    <3> QED BY <3>2 DEF x
  <2>2. transcript'[m][i] = more[i - Len(old)]
    BY <1>7, <1>8, <2>1
  <2> QED BY <1>4, <2>1, <2>2
<1>11. Len(transcript'[m]) = Len(old) + n
  BY <1>7, <1>8
<1> QED BY <1>1, <1>8, <1>9, <1>10, <1>11 DEF m

\* A step of a handler keeps the types.
LEMMA HandledTypes ==
  ASSUME TypeInv, NEW c \in Connections, Handled(c)
  PROVE  TypeInv'
<1> DEFINE h == handler[c]
<1>a. UNCHANGED <<clientVars, uiVars>> /\ HandlerStep(c)
  BY DEF Handled
<1>b. /\ h \in HandlerType
      /\ h.pc \in {"none", "hello", "open", "stt", "ending", "closing", "closed"}
      /\ h.meeting \in 0..MaxRequests /\ h.expected \in 0..MaxAudio
      /\ h.violations \in 0..(MaxViolations - 1)
      /\ h.audio \in 0..MaxAudio /\ h.req \in 0..MaxRequests /\ h.previous \in Seq(Words)
      /\ toServer[c] \in Seq(ClientMessages) /\ toClient[c] \in Seq(ServerMessages)
      /\ InOrder(toServer[c], h.audio, captured) /\ captured \in Nat
      /\ h.expected <= h.audio /\ h.audio <= captured
      /\ (h.pc = "stt" => h.meeting # 0 /\ h.expected < h.audio)
      /\ (h.pc = "ending" => h.req # 0)
  BY ConnectionTypes DEF HandlerBounds, IncomingBounds
<1>n. /\ h.audio \in Nat /\ h.audio <= MaxAudio /\ h.expected \in Nat /\ h.expected <= h.audio
      /\ (h.pc = "stt" => h.expected < h.audio)
      /\ h.violations \in Nat
  BY <1>b, ConstantTypes
<1>c. h.meeting # 0 => mstatus[h.meeting] # "absent"
  BY DEF TypeInv, RequestBounds
<1>d. /\ toClient \in [Connections -> Seq(ServerMessages)]
      /\ toServer = [toServer EXCEPT ![c] = toServer[c]]
      /\ handler = [handler EXCEPT ![c] = handler[c]]
      /\ transcript \in [Meetings -> Seq(Rows)]
      /\ processed \subseteq Connections \X (1..MaxAudio)
  BY DEF TypeInv, TypeOK
<1>e. \A messages \in Seq(ServerMessages) :
        Reply(c, messages) => toClient' \in [Connections -> Seq(ServerMessages)]
  BY <1>d, ReplyType
<1>f. \A code \in ErrorCodes :
        /\ Refuse(c, code) => toClient' \in [Connections -> Seq(ServerMessages)]
        /\ GiveUp(c, code) => /\ toClient' \in [Connections -> Seq(ServerMessages)]
                              /\ handler' = [handler EXCEPT ![c] = [h EXCEPT !.pc = "closing"]]
  BY <1>e, AnswerTypes DEF Refuse, GiveUp, Goto
<1>g. \A pc \in {"open", "closing"} :
        LET g == [h EXCEPT !.pc = pc] IN
        /\ g \in HandlerType /\ g.pc = pc
        /\ g.meeting = h.meeting /\ g.expected = h.expected /\ g.audio = h.audio /\ g.req = h.req
        /\ g.previous = h.previous
  BY <1>b DEF HandlerType
<1>1. CASE Hello(c)
  <2>1. CASE Reply(c, <<HelloAck>>) /\ Goto(c, "open") /\ UNCHANGED toServer
    <3> DEFINE g == [h EXCEPT !.pc = "open"]
    <3>1. handler' = [handler EXCEPT ![c] = g]
      BY <2>1 DEF Goto
    <3>2. toClient' \in [Connections -> Seq(ServerMessages)]
      BY <1>e, <2>1, AnswerTypes
    <3>3. UNCHANGED <<clientVars, uiVars, mstatus, backend>> /\ transcript' = transcript
          /\ processed' = processed /\ toServer' = [toServer EXCEPT ![c] = toServer[c]]
      BY <1>1, <1>a, <1>d, <2>1 DEF Hello
    <3>4. g \in HandlerType /\ g.pc = "open" /\ g.meeting = h.meeting /\ g.expected = h.expected
          /\ g.audio = h.audio /\ g.req = h.req /\ g.previous = h.previous
      BY <1>g
    <3> HIDE DEF g
    <3> QED BY <1>b, <1>c, <1>d, <3>1, <3>2, <3>3, <3>4, OneHandlerTypes
  <2>2. CASE Reply(c, <<CloseMessage>>) /\ Return(c)
    BY <1>1, <1>a, <1>e, <2>2, AnswerTypes, ReturnTypes DEF Hello
  <2> QED BY <1>1, <2>1, <2>2 DEF Hello
<1>2. CASE HandleStart(c)
  <2> DEFINE req == Head(toServer[c]).req
             queue == toServer'[c]
  <2>1. /\ Head(toServer[c]) \in ClientMessages /\ Head(toServer[c]).t = "start"
        /\ toServer' = [toServer EXCEPT ![c] = queue] /\ queue \in Seq(ClientMessages)
        /\ InOrder(queue, h.audio, captured) /\ h.pc = "open"
    BY <1>2, ReceiveTypes DEF HandleStart
  <2>2. req \in Requests
    BY <2>1, MessageFields
  <2>3. UNCHANGED <<clientVars, uiVars, mstatus, backend>> /\ transcript' = transcript
        /\ processed' = processed
    BY <1>2, <1>a DEF HandleStart
  <2>4. CASE Refuse(c, "session_already_started") /\ UNCHANGED handler
    <3>1. toClient' \in [Connections -> Seq(ServerMessages)]
      BY <1>f, <2>4 DEF ErrorCodes
    <3> HIDE DEF queue
    <3> QED BY <1>b, <1>c, <1>d, <2>1, <2>3, <2>4, <3>1, OneHandlerTypes
  <2>5. CASE GiveUp(c, "session_start_rejected") \/ GiveUp(c, "session_start_failed")
    <3> DEFINE g == [h EXCEPT !.pc = "closing"]
    <3>1. toClient' \in [Connections -> Seq(ServerMessages)]
          /\ handler' = [handler EXCEPT ![c] = g]
      BY <1>f, <2>5 DEF ErrorCodes
    <3>2. g \in HandlerType /\ g.pc = "closing" /\ g.meeting = h.meeting
          /\ g.expected = h.expected /\ g.audio = h.audio /\ g.req = h.req /\ g.previous = h.previous
      BY <1>g
    <3> HIDE DEF queue, g
    <3> QED BY <1>b, <1>c, <1>d, <2>1, <2>3, <3>1, <3>2, OneHandlerTypes
  <2>6. CASE /\ mstatus[req] = "active" /\ BeginSession(c, req)
             /\ \/ Reply(c, <<Started(req, c)>>)
                \/ Reply(c, <<Started(req, c), ProtocolError("assist_unavailable", FALSE)>>)
    <3> DEFINE g == [h EXCEPT !.meeting = req, !.expected = 0, !.violations = 0, !.previous = <<>>]
    <3>1. toClient' \in [Connections -> Seq(ServerMessages)]
      BY <1>e, <2>2, <2>6, AnswerTypes DEF ErrorCodes
    <3>2. handler' = [handler EXCEPT ![c] = g]
      BY <2>6 DEF BeginSession
    <3>3. g \in HandlerType /\ g.pc = "open" /\ g.meeting = req /\ g.expected = 0
          /\ g.audio = h.audio /\ g.previous = <<>>
      <4>1. [h EXCEPT !.meeting = req, !.expected = 0] \in HandlerType
        <5>1. req \in 0..MaxRequests /\ 0 \in 0..MaxAudio
          BY <2>2, ConstantTypes DEF Requests
        <5> HIDE DEF req
        <5>2. [h EXCEPT !.meeting = req] \in HandlerType
          BY <1>b, <5>1 DEF HandlerType
        <5> QED BY <1>b, <5>1, <5>2 DEF HandlerType
      <4>2. <<>> \in Seq(Words) /\ 0 \in 0..(MaxViolations - 1)
        BY EmptySeq, ConstantTypes
      <4>3. g \in HandlerType
        BY <4>1, <4>2 DEF HandlerType
      <4> QED BY <1>b, <2>1, <4>3 DEF HandlerType
    <3>4. 0 <= h.audio
      BY <1>b, ConstantTypes
    <3> HIDE DEF queue, g
    <3> QED BY <1>b, <1>d, <2>1, <2>3, <2>6, <3>1, <3>2, <3>3, <3>4, OneHandlerTypes
  <2> QED BY <1>2, <2>4, <2>5, <2>6 DEF HandleStart
<1>3. CASE HandleEnd(c)
  <2> DEFINE m == Head(toServer[c])
             queue == toServer'[c]
  <2>1. /\ m \in ClientMessages /\ m.t = "end"
        /\ toServer' = [toServer EXCEPT ![c] = queue] /\ queue \in Seq(ClientMessages)
        /\ InOrder(queue, h.audio, captured) /\ h.pc = "open"
    BY <1>3, ReceiveTypes DEF HandleEnd
  <2>2. m.req \in Requests
    BY <2>1, MessageFields
  <2>3. UNCHANGED <<clientVars, uiVars, mstatus, backend>> /\ transcript' = transcript
        /\ processed' = processed
    BY <1>3, <1>a DEF HandleEnd
  <2>4. CASE (Refuse(c, "invalid_session") \/ Refuse(c, "invalid_last_sequence"))
             /\ UNCHANGED handler
    <3>1. toClient' \in [Connections -> Seq(ServerMessages)]
      BY <1>f, <2>4 DEF ErrorCodes
    <3> HIDE DEF queue
    <3> QED BY <1>b, <1>c, <1>d, <2>1, <2>3, <2>4, <3>1, OneHandlerTypes
  <2>5. CASE handler' = [handler EXCEPT ![c].pc = "ending", ![c].req = m.req] /\ UNCHANGED toClient
    <3> DEFINE g == [h EXCEPT !.pc = "ending", !.req = m.req]
    <3>1. handler' = [handler EXCEPT ![c] = g]
      BY <2>5
    <3>2. g \in HandlerType /\ g.pc = "ending" /\ g.req = m.req /\ g.meeting = h.meeting
          /\ g.expected = h.expected /\ g.audio = h.audio /\ g.previous = h.previous
      <4> DEFINE q == m.req
      <4>1. q \in 0..MaxRequests
        BY <2>2, ConstantTypes DEF Requests
      <4> HIDE DEF q
      <4>2. [h EXCEPT !.pc = "ending", !.req = q] \in HandlerType
        BY <1>b, <4>1 DEF HandlerType
      <4> QED BY <1>b, <4>2 DEF HandlerType, q
    <3>3. m.req # 0
      BY <2>2, ConstantTypes DEF Requests
    <3>4. g.expected <= g.audio /\ g.audio <= captured /\ g.pc # "stt"
      BY <1>b, <1>c, <3>2
    <3>5. toClient' \in [Connections -> Seq(ServerMessages)]
      BY <1>d, <2>5
    <3> HIDE DEF queue, g, m
    <3> QED BY <1>b, <1>c, <1>d, <2>1, <2>3, <3>1, <3>2, <3>3, <3>4, <3>5, OneHandlerTypes
  <2> QED BY <1>3, <2>4, <2>5 DEF HandleEnd
<1>4. CASE Ended(c)
  <2>1. h.req \in Requests
    BY <1>4, <1>b, ConstantTypes DEF Ended, Requests
  <2>2. toClient' \in [Connections -> Seq(ServerMessages)]
    BY <1>4, <1>e, <2>1, AnswerTypes DEF Ended
  <2> QED BY <1>4, <1>a, <2>2, ReturnTypes DEF Ended
<1>5. CASE HandleAudio(c)
  <2> DEFINE m == Head(toServer[c])
             queue == toServer'[c]
  <2>1. /\ m \in ClientMessages /\ m.t = "audio"
        /\ toServer' = [toServer EXCEPT ![c] = queue] /\ queue \in Seq(ClientMessages)
        /\ InOrder(queue, h.audio, captured) /\ h.pc = "open"
        /\ h.audio < m.audio /\ m.audio <= captured /\ InOrder(queue, m.audio, captured)
    BY <1>5, ReceiveTypes DEF HandleAudio
  <2>2. m.audio \in 1..MaxAudio /\ m.audio \in Nat
    BY <2>1, MessageFields, ConstantTypes
  <2>3. UNCHANGED <<clientVars, uiVars, mstatus, backend>> /\ transcript' = transcript
        /\ processed' = processed
    BY <1>5, <1>a DEF HandleAudio
  <2>4. CASE Refuse(c, "session_required") /\ UNCHANGED handler
    <3>1. toClient' \in [Connections -> Seq(ServerMessages)]
      BY <1>f, <2>4 DEF ErrorCodes
    <3> HIDE DEF queue
    <3> QED BY <1>b, <1>c, <1>d, <2>1, <2>3, <2>4, <3>1, OneHandlerTypes
  <2>5. CASE /\ h.violations + 1 < MaxViolations /\ Refuse(c, "unexpected_sequence")
             /\ handler' = [handler EXCEPT ![c].violations = @ + 1]
    <3> DEFINE n == h.violations + 1
               g == [h EXCEPT !.violations = n]
    <3>1. handler' = [handler EXCEPT ![c] = g]
      BY <2>5
    <3>2. n \in 0..(MaxViolations - 1)
      <4> DEFINE v == h.violations
      <4>1. v \in Nat /\ v + 1 < MaxViolations /\ n = v + 1
        BY <1>n, <2>5
      <4> HIDE DEF v, n
      <4> QED BY <4>1, ConstantTypes
    <3> HIDE DEF n
    <3>3. g \in HandlerType /\ g.pc = h.pc /\ g.req = h.req /\ g.meeting = h.meeting
          /\ g.expected = h.expected /\ g.audio = h.audio /\ g.previous = h.previous
      BY <1>b, <3>2 DEF HandlerType
    <3>4. toClient' \in [Connections -> Seq(ServerMessages)]
      BY <1>f, <2>5 DEF ErrorCodes
    <3> HIDE DEF queue, g
    <3> QED BY <1>b, <1>c, <1>d, <2>1, <2>3, <3>1, <3>3, <3>4, OneHandlerTypes
  <2>6. CASE GiveUp(c, "unexpected_sequence")
    <3> DEFINE g == [h EXCEPT !.pc = "closing"]
    <3>1. toClient' \in [Connections -> Seq(ServerMessages)]
          /\ handler' = [handler EXCEPT ![c] = g]
      BY <1>f, <2>6 DEF ErrorCodes
    <3>2. g \in HandlerType /\ g.pc = "closing" /\ g.meeting = h.meeting
          /\ g.expected = h.expected /\ g.audio = h.audio /\ g.req = h.req /\ g.previous = h.previous
      BY <1>g
    <3> HIDE DEF queue, g
    <3> QED BY <1>b, <1>c, <1>d, <2>1, <2>3, <3>1, <3>2, OneHandlerTypes
  <2>7. CASE /\ h.meeting # 0 /\ UNCHANGED toClient
             /\ handler' = [handler EXCEPT ![c].pc = "stt", ![c].audio = m.audio]
    <3> DEFINE g == [h EXCEPT !.pc = "stt", !.audio = m.audio]
    <3>1. handler' = [handler EXCEPT ![c] = g]
      BY <2>7
    <3>2. m.audio \in 0..MaxAudio
      BY <2>2, ConstantTypes
    <3>3. g \in HandlerType /\ g.pc = "stt" /\ g.req = h.req /\ g.meeting = h.meeting
          /\ g.expected = h.expected /\ g.audio = m.audio /\ g.previous = h.previous
      BY <1>b, <3>2 DEF HandlerType
    <3>4. h.expected < m.audio /\ h.expected <= m.audio
      <4> DEFINE a == h.audio
                 e == h.expected
                 b == m.audio
      <4>1. a \in Nat /\ e \in Nat /\ e <= a /\ b \in Nat /\ a < b
        BY <1>n, <2>1, <2>2
      <4> HIDE DEF a, b, e, m
      <4>2. e < b /\ e <= b
        BY <4>1
      <4> QED BY <4>2 DEF a, b, e
    <3> HIDE DEF queue, g, m
    <3> QED BY <1>b, <1>c, <1>d, <2>1, <2>3, <2>7, <3>1, <3>3, <3>4, OneHandlerTypes
  <2> QED BY <1>5, <2>4, <2>5, <2>6, <2>7 DEF HandleAudio
<1>6. CASE ProviderFails(c)
  <2> DEFINE g == [h EXCEPT !.pc = "open"]
  <2>1. handler' = [handler EXCEPT ![c] = g]
    BY <1>6 DEF ProviderFails, Goto
  <2>2. toClient' \in [Connections -> Seq(ServerMessages)]
    BY <1>6, <1>f DEF ProviderFails, ErrorCodes
  <2>3. UNCHANGED <<clientVars, uiVars, mstatus, backend>> /\ transcript' = transcript
        /\ processed' = processed /\ toServer' = [toServer EXCEPT ![c] = toServer[c]]
    BY <1>6, <1>a, <1>d DEF ProviderFails
  <2>4. g \in HandlerType /\ g.pc = "open" /\ g.meeting = h.meeting /\ g.expected = h.expected
        /\ g.audio = h.audio /\ g.req = h.req /\ g.previous = h.previous
    BY <1>g
  <2> HIDE DEF g
  <2> QED BY <1>b, <1>c, <1>d, <2>1, <2>2, <2>3, <2>4, OneHandlerTypes
<1>h. h.pc = "stt" => h.audio \in 1..MaxAudio /\ h.expected + 1 \in 0..MaxAudio
                      /\ h.expected + 1 <= h.audio
  <2> DEFINE a == h.audio
             e == h.expected
  <2> SUFFICES ASSUME h.pc = "stt" PROVE a \in 1..MaxAudio /\ e + 1 \in 0..MaxAudio /\ e + 1 <= a
    OBVIOUS
  <2>1. a \in Nat /\ a <= MaxAudio /\ e \in Nat /\ e < a
    BY <1>n
  <2> HIDE DEF a, e
  <2> QED BY <2>1, ConstantTypes
<1>7. CASE ChunkDone(c)
  <2>a. h.pc = "stt"
    BY <1>7 DEF ChunkDone
  <2>1. PICK segments \in Transcriptions[h.audio] :
          LET accepted == Accepted(h.previous, segments) IN
          /\ AddRows(c, accepted.parts, Len(accepted.parts))
          /\ handler' = [handler EXCEPT ![c].pc = "open", ![c].expected = @ + 1,
                                        ![c].previous = accepted.previous]
          /\ Reply(c, <<ChunkResult(h.expected, accepted.parts)>>)
    BY <1>7 DEF ChunkDone
  <2> DEFINE parts == Accepted(h.previous, segments).parts
             previous == Accepted(h.previous, segments).previous
  <2>2. parts \in Parts /\ previous \in Seq(Words) /\ Len(parts) \in Nat
    BY <1>b, <1>h, <2>a, AddedParts
  <2> DEFINE n == h.expected + 1
             g == [h EXCEPT !.pc = "open", !.expected = n, !.previous = previous]
  <2>3. handler' = [handler EXCEPT ![c] = g]
    BY <2>1
  <2> HIDE DEF parts, previous
  <2>4. transcript' \in [Meetings -> Seq(Rows)]
    BY <2>1, <2>2, <2>a, AddRowsTypes DEF parts
  <2>5. toClient' \in [Connections -> Seq(ServerMessages)]
    BY <1>b, <1>e, <2>1, <2>2, AnswerTypes DEF parts
  <2>6. processed' \subseteq Connections \X (1..MaxAudio)
    BY <1>7, <1>d, <1>h, <2>a DEF ChunkDone
  <2>7. UNCHANGED <<clientVars, uiVars, mstatus, backend>>
        /\ toServer' = [toServer EXCEPT ![c] = toServer[c]]
    BY <1>7, <1>a, <1>d DEF ChunkDone
  <2>8. n \in 0..MaxAudio /\ n <= h.audio
    BY <1>h, <2>a
  <2> HIDE DEF n
  <2>9. g \in HandlerType /\ g.pc = "open" /\ g.meeting = h.meeting /\ g.expected = n
        /\ g.audio = h.audio /\ g.req = h.req /\ g.previous = previous
    BY <1>b, <2>2, <2>8 DEF HandlerType
  <2> HIDE DEF g
  <2> QED BY <1>b, <1>c, <1>d, <2>2, <2>3, <2>4, <2>5, <2>6, <2>7, <2>8, <2>9, OneHandlerTypes
<1>8. CASE ChunkBreaks(c)
  <2>a. h.pc = "stt"
    BY <1>8 DEF ChunkBreaks
  <2>1. PICK segments \in Transcriptions[h.audio] :
          LET parts == Accepted(h.previous, segments).parts IN
          \E n \in 0..(Len(parts) - 1) : AddRows(c, parts, n)
    BY <1>8 DEF ChunkBreaks
  <2> DEFINE parts == Accepted(h.previous, segments).parts
  <2>2. parts \in Parts /\ Len(parts) \in Nat
    BY <1>b, <1>h, <2>a, AddedParts
  <2>3. PICK n \in 0..(Len(parts) - 1) : AddRows(c, parts, n)
    BY <2>1
  <2> HIDE DEF parts
  <2>4. transcript' \in [Meetings -> Seq(Rows)]
    <3>1. n \in 0..Len(parts)
      BY <2>2
    <3> QED BY <2>2, <2>3, <2>a, <3>1, AddRowsTypes
  <2> DEFINE g == [h EXCEPT !.pc = "closing"]
  <2>5. toClient' \in [Connections -> Seq(ServerMessages)]
        /\ handler' = [handler EXCEPT ![c] = g]
    BY <1>8, <1>f DEF ChunkBreaks, ErrorCodes
  <2>6. UNCHANGED <<clientVars, uiVars, mstatus, backend>> /\ processed' = processed
        /\ toServer' = [toServer EXCEPT ![c] = toServer[c]]
    BY <1>8, <1>a, <1>d DEF ChunkBreaks
  <2>7. g \in HandlerType /\ g.pc = "closing" /\ g.meeting = h.meeting
        /\ g.expected = h.expected /\ g.audio = h.audio /\ g.req = h.req /\ g.previous = h.previous
    BY <1>g
  <2> HIDE DEF g
  <2> QED BY <1>b, <1>c, <1>d, <2>4, <2>5, <2>6, <2>7, OneHandlerTypes
<1>9. CASE HandleClose(c)
  <2> DEFINE queue == toServer'[c]
             g == [h EXCEPT !.pc = "closing"]
  <2>1. /\ toServer' = [toServer EXCEPT ![c] = queue] /\ queue \in Seq(ClientMessages)
        /\ InOrder(queue, h.audio, captured) /\ h.pc = "open"
    BY <1>9, ReceiveTypes DEF HandleClose
  <2>2. handler' = [handler EXCEPT ![c] = g]
    BY <1>9 DEF HandleClose, Goto
  <2>3. UNCHANGED <<clientVars, uiVars, mstatus, backend>> /\ transcript' = transcript
        /\ processed' = processed /\ toClient' = toClient
    BY <1>9, <1>a DEF HandleClose
  <2>4. g \in HandlerType /\ g.pc = "closing" /\ g.meeting = h.meeting
        /\ g.expected = h.expected /\ g.audio = h.audio /\ g.req = h.req /\ g.previous = h.previous
    BY <1>g
  <2> HIDE DEF queue, g
  <2> QED BY <1>b, <1>c, <1>d, <2>1, <2>2, <2>3, <2>4, OneHandlerTypes
<1>10. CASE Cleanup(c)
  BY <1>10, <1>a, <1>d, ReturnTypes DEF Cleanup
<1> QED BY <1>a, <1>1, <1>2, <1>3, <1>4, <1>5, <1>6, <1>7, <1>8, <1>9, <1>10 DEF HandlerStep

-----------------------------------------------------------------------------
(* Types: the client's steps *)

\* What TypeInv says of the client and its operation.
LEMMA ClientTypes ==
  ASSUME TypeInv
  PROVE  /\ client \in ClientType /\ call \in CallType
         /\ client.status \in {"disconnected", "connecting", "connected", "session_active", "failed"}
         /\ client.writer \in 0..MaxConnections /\ client.tasks \in 0..MaxConnections
         /\ client.session \in 0..MaxConnections /\ client.next \in 0..MaxAudio
         /\ client.inFlight \in BOOLEAN /\ client.start \in 0..MaxRequests
         /\ client.chunk \in -1..MaxAudio /\ client.end \in 0..MaxRequests
         /\ call.kind \in {"none", "connect", "start", "chunk", "end"}
         /\ call.answer \in {"none", "waiting", "ok", "failed"}
         /\ call.req \in 0..MaxRequests /\ call.seq \in 0..MaxAudio
         /\ call.audio \in 0..MaxAudio /\ call.session \in 0..MaxConnections
<1>1. client \in ClientType /\ call \in CallType
  BY DEF TypeInv, TypeOK
<1>2. /\ client.status \in {"disconnected", "connecting", "connected", "session_active", "failed"}
      /\ client.writer \in 0..MaxConnections /\ client.tasks \in 0..MaxConnections
      /\ client.session \in 0..MaxConnections /\ client.next \in 0..MaxAudio
      /\ client.inFlight \in BOOLEAN /\ client.start \in 0..MaxRequests
      /\ client.chunk \in -1..MaxAudio /\ client.end \in 0..MaxRequests
  BY <1>1 DEF ClientType
<1>3. /\ call.kind \in {"none", "connect", "start", "chunk", "end"}
      /\ call.answer \in {"none", "waiting", "ok", "failed"}
      /\ call.req \in 0..MaxRequests /\ call.seq \in 0..MaxAudio
      /\ call.audio \in 0..MaxAudio /\ call.session \in 0..MaxConnections
  BY <1>1 DEF CallType
<1> QED BY <1>1, <1>2, <1>3

\* A field of the client, of its operation or of a handler set to a value of its type.
LEMMA FieldTypes ==
  /\ \A cl \in ClientType :
       /\ \A v \in {"disconnected", "connecting", "connected", "session_active", "failed"} :
            [cl EXCEPT !.status = v] \in ClientType
       /\ \A v \in 0..MaxConnections : /\ [cl EXCEPT !.writer = v] \in ClientType
                                       /\ [cl EXCEPT !.tasks = v] \in ClientType
                                       /\ [cl EXCEPT !.session = v] \in ClientType
       /\ \A v \in 0..MaxAudio : [cl EXCEPT !.next = v] \in ClientType
       /\ \A v \in BOOLEAN : [cl EXCEPT !.inFlight = v] \in ClientType
       /\ \A v \in 0..MaxRequests : /\ [cl EXCEPT !.start = v] \in ClientType
                                    /\ [cl EXCEPT !.end = v] \in ClientType
       /\ \A v \in -1..MaxAudio : [cl EXCEPT !.chunk = v] \in ClientType
  /\ \A op \in CallType :
       /\ \A v \in {"none", "connect", "start", "chunk", "end"} : [op EXCEPT !.kind = v] \in CallType
       /\ \A v \in {"none", "waiting", "ok", "failed"} : [op EXCEPT !.answer = v] \in CallType
       /\ \A v \in 0..MaxRequests : [op EXCEPT !.req = v] \in CallType
       /\ \A v \in 0..MaxAudio : /\ [op EXCEPT !.seq = v] \in CallType
                                 /\ [op EXCEPT !.audio = v] \in CallType
       /\ \A v \in 0..MaxConnections : [op EXCEPT !.session = v] \in CallType
<1>1. \A cl \in ClientType :
        /\ \A v \in {"disconnected", "connecting", "connected", "session_active", "failed"} :
             [cl EXCEPT !.status = v] \in ClientType
        /\ \A v \in 0..MaxConnections : /\ [cl EXCEPT !.writer = v] \in ClientType
                                        /\ [cl EXCEPT !.tasks = v] \in ClientType
                                        /\ [cl EXCEPT !.session = v] \in ClientType
        /\ \A v \in 0..MaxAudio : [cl EXCEPT !.next = v] \in ClientType
        /\ \A v \in BOOLEAN : [cl EXCEPT !.inFlight = v] \in ClientType
        /\ \A v \in 0..MaxRequests : /\ [cl EXCEPT !.start = v] \in ClientType
                                     /\ [cl EXCEPT !.end = v] \in ClientType
        /\ \A v \in -1..MaxAudio : [cl EXCEPT !.chunk = v] \in ClientType
  BY DEF ClientType
<1>2. \A op \in CallType :
        /\ \A v \in {"none", "connect", "start", "chunk", "end"} : [op EXCEPT !.kind = v] \in CallType
        /\ \A v \in {"none", "waiting", "ok", "failed"} : [op EXCEPT !.answer = v] \in CallType
        /\ \A v \in 0..MaxRequests : [op EXCEPT !.req = v] \in CallType
        /\ \A v \in 0..MaxAudio : /\ [op EXCEPT !.seq = v] \in CallType
                                  /\ [op EXCEPT !.audio = v] \in CallType
        /\ \A v \in 0..MaxConnections : [op EXCEPT !.session = v] \in CallType
  BY DEF CallType
<1> QED BY <1>1, <1>2

\* Setting one field leaves the others alone.
LEMMA OtherFields ==
  ASSUME NEW cl \in ClientType, NEW v
  PROVE  /\ [cl EXCEPT !.status = v].next = cl.next
         /\ [cl EXCEPT !.start = v].next = cl.next /\ [cl EXCEPT !.start = v].status = cl.status
         /\ [cl EXCEPT !.end = v].next = cl.next /\ [cl EXCEPT !.end = v].status = cl.status
BY DEF ClientType

\* A call that is answered stays what it was.
LEMMA AnswerKeeps ==
  ASSUME TypeInv, NEW kind, NEW answer \in {"ok", "failed"}
  PROVE  /\ Answer(kind, answer) \in CallType /\ FailCaller \in CallType
         /\ \A op \in {Answer(kind, answer), FailCaller} :
              /\ op.kind = call.kind /\ op.req = call.req /\ op.seq = call.seq
              /\ op.audio = call.audio /\ op.session = call.session
<1>1. \A v \in {"none", "waiting", "ok", "failed"} :
        LET op == [call EXCEPT !.answer = v] IN
        /\ op \in CallType /\ op.answer = v
        /\ op.kind = call.kind /\ op.req = call.req /\ op.seq = call.seq
        /\ op.audio = call.audio /\ op.session = call.session
  BY ClientTypes, FieldTypes DEF CallType
<1>2. \A k : \A v \in {"ok", "failed"} :
        /\ Answer(k, v) \in CallType
        /\ Answer(k, v).kind = call.kind /\ Answer(k, v).req = call.req
        /\ Answer(k, v).seq = call.seq /\ Answer(k, v).audio = call.audio
        /\ Answer(k, v).session = call.session
  <2> SUFFICES ASSUME NEW k, NEW v \in {"ok", "failed"}
               PROVE  /\ Answer(k, v) \in CallType
                      /\ Answer(k, v).kind = call.kind /\ Answer(k, v).req = call.req
                      /\ Answer(k, v).seq = call.seq /\ Answer(k, v).audio = call.audio
                      /\ Answer(k, v).session = call.session
                  OBVIOUS
  <2>1. CASE Waiting(k)
    <3>1. Answer(k, v) = [call EXCEPT !.answer = v]
      BY <2>1 DEF Answer
    <3> QED BY <1>1, <3>1
  <2>2. CASE ~Waiting(k)
    <3>1. Answer(k, v) = call
      BY <2>2 DEF Answer
    <3> QED BY <3>1, ClientTypes
  <2> QED BY <2>1, <2>2
<1>3. FailCaller = call \/ FailCaller = Answer(call.kind, "failed")
  BY DEF FailCaller
<1>4. call \in CallType
  BY ClientTypes
<1> QED BY <1>2, <1>3, <1>4

\* A queue in order stays so when more chunks are captured.
LEMMA InOrderLater ==
  ASSUME NEW queue \in Seq(ClientMessages), NEW taken, NEW last \in Nat, NEW more \in Nat,
         last <= more, InOrder(queue, taken, last)
  PROVE  InOrder(queue, taken, more)
<1>1. \A i \in 1..Len(queue) : queue[i].t = "audio" => queue[i].audio \in Nat
  <2> SUFFICES ASSUME NEW i \in 1..Len(queue), queue[i].t = "audio" PROVE queue[i].audio \in Nat
    OBVIOUS
  <2>1. queue[i] \in ClientMessages
    BY ElementOfSeq
  <2> QED BY <2>1, MessageFields, ConstantTypes
<1>2. \A i \in 1..Len(queue) : queue[i].t = "audio" => queue[i].audio <= more
  BY <1>1 DEF InOrder
<1> QED BY <1>2 DEF InOrder

\* A message to a handler: it keeps what it has, in order.
LEMMA SendToTypes ==
  ASSUME TypeInv, NEW c \in Connections, NEW m \in ClientMessages, SendTo(c, m),
         UNCHANGED handler, NEW more \in Nat, captured' = more,
         \/ m.t # "audio" /\ more = captured
         \/ m.t = "audio" /\ more = captured + 1 /\ m.audio = more
  PROVE  /\ toServer' \in [Connections -> Seq(ClientMessages)]
         /\ \A d \in Connections : HandlerBounds(d)' /\ IncomingBounds(d)'
<1>1. captured \in Nat /\ captured <= more
  BY ConstantTypes DEF TypeInv, TypeOK
<1>2. toServer' = toServer \/ toServer' = [toServer EXCEPT ![c] = Append(toServer[c], m)]
  BY DEF SendTo
<1>3. Append(toServer[c], m) \in Seq(ClientMessages)
  BY ConnectionTypes, AppendProperties
<1>4. toServer' \in [Connections -> Seq(ClientMessages)]
  BY <1>2, <1>3 DEF TypeInv, TypeOK
<1>5. ASSUME NEW d \in Connections PROVE HandlerBounds(d)'
  <2>1. handler'[d].audio \in Nat /\ handler[d] = handler'[d] /\ HandlerBounds(d)
    BY ConnectionTypes, ConstantTypes
  <2>2. handler[d].audio <= captured'
    BY <1>1, <2>1 DEF HandlerBounds
  <2> QED BY <2>1, <2>2 DEF HandlerBounds
<1>6. ASSUME NEW d \in Connections PROVE IncomingBounds(d)'
  <2>1. /\ toServer[d] \in Seq(ClientMessages) /\ handler[d].audio \in Nat
        /\ handler[d].audio <= captured /\ InOrder(toServer[d], handler[d].audio, captured)
    BY ConnectionTypes, ConstantTypes DEF HandlerBounds, IncomingBounds
  <2>2. InOrder(toServer[d], handler[d].audio, more)
    BY <1>1, <2>1, InOrderLater
  <2>3. InOrder(Append(toServer[d], m), handler[d].audio, more)
    BY <1>1, <2>1, InOrderAppend
  <2>4. toServer'[d] = toServer[d] \/ toServer'[d] = Append(toServer[d], m)
    BY <1>2 DEF TypeInv, TypeOK
  <2> QED BY <2>2, <2>3, <2>4 DEF IncomingBounds
<1> QED BY <1>4, <1>5, <1>6

\* A step that leaves the handlers and their queues alone.
LEMMA QuietTypes ==
  ASSUME TypeInv, UNCHANGED <<handler, toServer, captured>>
  PROVE  \A d \in Connections : HandlerBounds(d)' /\ IncomingBounds(d)'
BY DEF TypeInv, HandlerBounds, IncomingBounds

\* A step of the window or of an operation of the client keeps the types.
LEMMA ClientStepTypes ==
  ASSUME TypeInv, ClientStep
  PROVE  TypeInv'
<1> USE DEF serverVars, clientVars, uiVars
<1>a. TypeOK /\ ClientBounds /\ RequestBounds
  BY DEF TypeInv
<1>b. /\ 0 \in 0..MaxConnections /\ 0 \in 0..MaxAudio /\ 0 \in 0..MaxRequests
      /\ NoChunk \in -1..MaxAudio /\ (\A n \in 0..MaxAudio : n \in -1..MaxAudio)
      /\ NoClient \in ClientType /\ NoCall \in CallType
      /\ MarkFailed(FailPending(client)) \in ClientType
      /\ captured \in Nat /\ opened \in Nat /\ requests \in Nat
  BY <1>a, ConstantTypes, ClientTypes, RecordTypes DEF NoChunk, TypeOK
<1>k. NoCall.kind = "none" /\ NoCall.answer = "none" /\ NoClient.status = "disconnected"
      /\ NoClient.next = 0
  BY DEF NoCall, NoClient
<1>m. /\ CloseMessage \in ClientMessages /\ CloseMessage.t = "close"
  BY MessageTypes DEF CloseMessage
<1>f. MarkFailed(FailPending(client)).status = "failed" /\ MarkFailed(FailPending(client)).next = 0
  BY ClientTypes DEF MarkFailed, FailPending, ClientType
<1>1. CASE PressStart
  <2>1. TypeOK'
    BY <1>1, <1>a DEF PressStart, TypeOK
  <2>2. \A d \in Connections : HandlerBounds(d)' /\ IncomingBounds(d)'
    BY <1>1, QuietTypes DEF PressStart
  <2>3. ClientBounds'
    BY <1>1, <1>a DEF PressStart, ClientBounds
  <2>4. RequestBounds'
    BY <1>1, <1>a DEF PressStart, RequestBounds
  <2> QED BY <2>1, <2>2, <2>3, <2>4 DEF TypeInv
<1>2. CASE Connect
  <2>1. CASE client.status \notin {"disconnected", "failed"} /\ flow' = "idle"
             /\ UNCHANGED <<client, call, opened, handler>>
    <3>1. TypeOK'
      BY <1>2, <1>a, <2>1 DEF Connect, TypeOK
    <3>2. \A d \in Connections : HandlerBounds(d)' /\ IncomingBounds(d)'
      BY <1>2, <2>1, QuietTypes DEF Connect
    <3>3. ClientBounds'
      BY <1>2, <1>a, <1>k, <2>1 DEF Connect, ClientBounds
    <3>4. RequestBounds'
      BY <1>2, <1>a, <2>1 DEF Connect, RequestBounds
    <3> QED BY <3>1, <3>2, <3>3, <3>4 DEF TypeInv
  <2>2. CASE flow' = "idle" /\ client' = MarkFailed(FailPending(client))
             /\ UNCHANGED <<call, opened, handler>>
    <3>1. TypeOK'
      BY <1>2, <1>a, <1>b, <2>2 DEF Connect, TypeOK
    <3>2. \A d \in Connections : HandlerBounds(d)' /\ IncomingBounds(d)'
      BY <1>2, <2>2, QuietTypes DEF Connect
    <3>3. ClientBounds'
      BY <1>2, <1>a, <1>b, <1>f, <1>k, <2>2 DEF Connect, ClientBounds
    <3>4. RequestBounds'
      BY <1>2, <1>a, <2>2 DEF Connect, RequestBounds
    <3> QED BY <3>1, <3>2, <3>3, <3>4 DEF TypeInv
  <2>3. CASE /\ client' = [client EXCEPT !.status = "connecting"]
             /\ call' = [NoCall EXCEPT !.kind = "connect", !.answer = "waiting"]
             /\ opened' = opened + 1
             /\ handler' = [handler EXCEPT ![opened + 1].pc = "hello"]
             /\ UNCHANGED flow
    <3> DEFINE new == opened + 1
    <3>1. new \in Connections /\ new \in 0..MaxConnections /\ new # 0
      BY <1>2, <1>b, ConstantTypes DEF Connect, Connections
    <3>2. client' \in ClientType /\ call' \in CallType /\ client'.next = client.next
          /\ call'.kind = "connect" /\ call' # NoCall
      <4>1. client' \in ClientType /\ client'.next = client.next
        BY <2>3, ClientTypes, FieldTypes, OtherFields
      <4>2. [NoCall EXCEPT !.kind = "connect"] \in CallType
        BY <1>b, FieldTypes
      <4>3. call' \in CallType /\ call'.kind = "connect"
        BY <2>3, <4>2 DEF CallType, NoCall
      <4> QED BY <1>k, <4>1, <4>3
    <3> HIDE DEF new
    <3>3. handler' = [handler EXCEPT ![new] = [handler[new] EXCEPT !.pc = "hello"]]
      BY <2>3 DEF new
    <3>4. [handler[new] EXCEPT !.pc = "hello"] \in HandlerType
      BY <3>1, ConnectionTypes DEF HandlerType
    <3>5. handler' \in [Connections -> HandlerType]
      BY <1>a, <3>1, <3>3, <3>4 DEF TypeOK
    <3>6. \A d \in Connections :
            /\ handler'[d] = handler[d] \/ handler'[d] = [handler[d] EXCEPT !.pc = "hello"]
            /\ handler'[d].meeting = handler[d].meeting /\ handler'[d].audio = handler[d].audio
      BY <1>a, <3>1, <3>3, ConnectionTypes DEF TypeOK, HandlerType
    <3>7. TypeOK'
      BY <1>2, <1>a, <2>3, <3>1, <3>2, <3>5 DEF Connect, TypeOK, new
    <3>8. ASSUME NEW d \in Connections PROVE HandlerBounds(d)' /\ IncomingBounds(d)'
      <4>1. HandlerBounds(d) /\ IncomingBounds(d) /\ handler[d] \in HandlerType
        BY ConnectionTypes
      <4>2. captured' = captured /\ toServer' = toServer
        BY <1>2 DEF Connect
      <4>3. CASE handler'[d] = handler[d]
        BY <4>1, <4>2, <4>3 DEF HandlerBounds, IncomingBounds
      <4>4. CASE handler'[d] = [handler[d] EXCEPT !.pc = "hello"]
        <5>1. handler'[d].pc = "hello" /\ handler'[d].audio = handler[d].audio
              /\ handler'[d].expected = handler[d].expected
              /\ handler'[d].previous = handler[d].previous
          BY <4>1, <4>4 DEF HandlerType
        <5> QED BY <4>1, <4>2, <5>1 DEF HandlerBounds, IncomingBounds
      <4> QED BY <3>6, <4>3, <4>4
    <3>9. ClientBounds'
      BY <1>2, <1>a, <2>3, <3>1, <3>2 DEF Connect, ClientBounds, new
    <3>10. RequestBounds'
      BY <1>2, <1>a, <2>3, <3>2, <3>6 DEF Connect, RequestBounds
    <3> QED BY <3>7, <3>8, <3>9, <3>10 DEF TypeInv
  <2> QED BY <1>2, <2>1, <2>2, <2>3 DEF Connect
<1>3. CASE ConnectDone
  <2>1. opened \in Connections /\ opened \in 0..MaxConnections
    BY <1>3, <1>a, <1>b, ConstantTypes DEF ConnectDone, ClientBounds, Waiting, TypeOK, Connections
  <2>2. client' \in ClientType /\ client'.next = client.next /\ client'.status = "connected"
    <3>1. [client EXCEPT !.status = "connected"] \in ClientType
      BY ClientTypes, FieldTypes
    <3>2. [client EXCEPT !.status = "connected", !.writer = opened] \in ClientType
      <4> DEFINE cl == [client EXCEPT !.status = "connected"]
      <4>1. cl \in ClientType
        BY <3>1
      <4> HIDE DEF cl
      <4>2. [cl EXCEPT !.writer = opened] \in ClientType
        BY <2>1, <4>1, FieldTypes
      <4> QED BY <4>2, Zenon DEF cl
    <3> QED BY <1>3, <2>1, <3>2 DEF ConnectDone, ClientType
  <2>3. toClient' \in [Connections -> Seq(ServerMessages)]
    <3>1. Tail(toClient[opened]) \in Seq(ServerMessages)
      BY <1>3, <2>1, ConnectionTypes, HeadTailProperties DEF ConnectDone
    <3> QED BY <1>3, <1>a, <3>1 DEF ConnectDone, TypeOK
  <2>4. TypeOK'
    BY <1>3, <1>a, <1>b, <2>1, <2>2, <2>3 DEF ConnectDone, TypeOK
  <2>5. \A d \in Connections : HandlerBounds(d)' /\ IncomingBounds(d)'
    BY <1>3, QuietTypes DEF ConnectDone
  <2>6. ClientBounds'
    BY <1>3, <1>a, <1>k, <2>2 DEF ConnectDone, ClientBounds
  <2>7. RequestBounds'
    BY <1>3, <1>a DEF ConnectDone, RequestBounds
  <2> QED BY <2>4, <2>5, <2>6, <2>7 DEF TypeInv
<1>4. CASE ConnectFails
  <2>1. opened \in Connections
    BY <1>4, <1>a, <1>b, ConstantTypes DEF ConnectFails, ClientBounds, Waiting, TypeOK, Connections
  <2>2. toServer' \in [Connections -> Seq(ClientMessages)]
        /\ \A d \in Connections : HandlerBounds(d)' /\ IncomingBounds(d)'
    BY <1>4, <1>b, <1>m, <2>1, SendToTypes DEF ConnectFails
  <2>3. toClient' \in [Connections -> Seq(ServerMessages)]
    BY <1>4, <1>a, EmptySeq DEF ConnectFails, TypeOK
  <2>4. TypeOK'
    BY <1>4, <1>a, <1>b, <2>2, <2>3 DEF ConnectFails, TypeOK
  <2>6. ClientBounds'
    BY <1>4, <1>a, <1>b, <1>f, <1>k DEF ConnectFails, ClientBounds
  <2>7. RequestBounds'
    BY <1>4, <1>a DEF ConnectFails, RequestBounds
  <2> QED BY <2>2, <2>4, <2>6, <2>7 DEF TypeInv
<1>5. CASE CreateMeeting
  <2>1. CASE ~backend /\ flow' = "idle" /\ UNCHANGED <<requests, mstatus>>
    <3>1. TypeOK'
      BY <1>5, <1>a, <2>1 DEF CreateMeeting, TypeOK
    <3>2. \A d \in Connections : HandlerBounds(d)' /\ IncomingBounds(d)'
      BY <1>5, QuietTypes DEF CreateMeeting
    <3>3. ClientBounds'
      BY <1>5, <1>a DEF CreateMeeting, ClientBounds
    <3>4. RequestBounds'
      BY <1>5, <1>a, <2>1 DEF CreateMeeting, RequestBounds
    <3> QED BY <3>1, <3>2, <3>3, <3>4 DEF TypeInv
  <2>2. CASE /\ requests < MaxRequests /\ requests' = requests + 1
             /\ mstatus' = [mstatus EXCEPT ![requests + 1] = "draft"] /\ flow' = "begin"
    <3> DEFINE new == requests + 1
    <3>1. new \in Meetings /\ new \in 0..MaxRequests /\ new # 0
      BY <1>b, <2>2, ConstantTypes DEF Meetings, Requests
    <3> HIDE DEF new
    <3>2. mstatus' = [mstatus EXCEPT ![new] = "draft"] /\ requests' = new
      BY <2>2 DEF new
    <3>3. TypeOK'
      BY <1>5, <1>a, <2>2, <3>1, <3>2 DEF CreateMeeting, TypeOK
    <3>4. \A d \in Connections : HandlerBounds(d)' /\ IncomingBounds(d)'
      BY <1>5, QuietTypes DEF CreateMeeting
    <3>5. ClientBounds'
      BY <1>5, <1>a DEF CreateMeeting, ClientBounds
    <3>6. \A r \in Meetings : mstatus'[r] = IF r = new THEN "draft" ELSE mstatus[r]
      BY <1>a, <3>2 DEF TypeOK
    <3>7. \A r \in Meetings : r > new => r > requests /\ r # new
      BY <1>b, ConstantTypes DEF new
    <3>8. \A d \in Connections : handler[d].meeting # 0 => mstatus'[handler[d].meeting] # "absent"
      <4>1. \A d \in Connections : handler[d].meeting # 0 => handler[d].meeting \in Meetings
        BY ConnectionTypes, ConstantTypes DEF Meetings, Requests
      <4> QED BY <1>a, <3>6, <4>1 DEF RequestBounds
    <3>9. RequestBounds'
      BY <1>5, <1>a, <2>2, <3>1, <3>2, <3>6, <3>7, <3>8 DEF CreateMeeting, RequestBounds
    <3> QED BY <3>3, <3>4, <3>5, <3>9 DEF TypeInv
  <2> QED BY <1>5, <2>1, <2>2 DEF CreateMeeting
<1>6. CASE StartMeeting
  <2>1. \A r \in Meetings : mstatus'[r] = mstatus[r]
                            \/ (r = requests /\ mstatus'[r] = "active" /\ flow = "begin")
    BY <1>6, <1>a DEF StartMeeting, TypeOK
  <2>2. TypeOK'
    BY <1>6, <1>a DEF StartMeeting, TypeOK
  <2>3. \A d \in Connections : HandlerBounds(d)' /\ IncomingBounds(d)'
    BY <1>6, QuietTypes DEF StartMeeting
  <2>4. ClientBounds'
    BY <1>6, <1>a DEF StartMeeting, ClientBounds
  <2>5. \A d \in Connections : handler[d].meeting # 0 => mstatus'[handler[d].meeting] # "absent"
    <3>1. \A d \in Connections : handler[d].meeting # 0 => handler[d].meeting \in Meetings
      BY ConnectionTypes, ConstantTypes DEF Meetings, Requests
    <3> QED BY <1>a, <2>1, <3>1 DEF RequestBounds
  <2>6. \A r \in Meetings : r > requests => mstatus'[r] = "absent"
    BY <1>a, <1>b, <2>1, ConstantTypes DEF RequestBounds
  <2>7. requests' = requests /\ flow' \in {"idle", "session"} /\ handler' = handler /\ requests # 0
    BY <1>6, <1>a DEF StartMeeting, RequestBounds
  <2>8. RequestBounds'
    BY <2>5, <2>6, <2>7 DEF RequestBounds
  <2> QED BY <2>2, <2>3, <2>4, <2>8 DEF TypeInv
<1>7. CASE StartSession
  <2>1. CASE flow' = "idle" /\ UNCHANGED <<client, call, toServer>>
    <3>1. TypeOK'
      BY <1>7, <1>a, <2>1 DEF StartSession, TypeOK
    <3>2. \A d \in Connections : HandlerBounds(d)' /\ IncomingBounds(d)'
      BY <1>7, <2>1, QuietTypes DEF StartSession
    <3>3. ClientBounds'
      BY <1>7, <1>a, <2>1, <1>k DEF StartSession, ClientBounds
    <3>4. RequestBounds'
      BY <1>7, <1>a, <2>1 DEF StartSession, RequestBounds
    <3> QED BY <3>1, <3>2, <3>3, <3>4 DEF TypeInv
  <2>2. CASE /\ client.writer # 0 /\ client.status = "connected"
             /\ client' = [client EXCEPT !.start = requests]
             /\ call' = [NoCall EXCEPT !.kind = "start", !.answer = "waiting", !.req = requests]
             /\ SendTo(client.writer, StartMessage(requests))
             /\ UNCHANGED flow
    <3>1. requests \in Requests /\ requests \in 0..MaxRequests
      BY <1>7, <1>a, <1>b, ConstantTypes DEF StartSession, RequestBounds, TypeOK, Requests
    <3>2. client.writer \in Connections
      BY <2>2, ClientTypes, ConstantTypes DEF Connections
    <3>3. StartMessage(requests) \in ClientMessages /\ StartMessage(requests).t = "start"
      BY <3>1, MessageTypes DEF StartMessage
    <3>4. toServer' \in [Connections -> Seq(ClientMessages)]
          /\ \A d \in Connections : HandlerBounds(d)' /\ IncomingBounds(d)'
      BY <1>7, <1>b, <2>2, <3>2, <3>3, SendToTypes DEF StartSession
    <3>5. client' \in ClientType /\ client'.status = client.status /\ client'.next = client.next
      BY <2>2, <3>1, ClientTypes, FieldTypes, OtherFields
    <3>6. call' \in CallType /\ call'.kind = "start"
      <4>1. [NoCall EXCEPT !.kind = "start"] \in CallType
        BY <1>b, FieldTypes
      <4>2. [NoCall EXCEPT !.kind = "start", !.answer = "waiting"] \in CallType
        BY <4>1 DEF CallType
      <4>3. call' \in CallType
        BY <2>2, <3>1, <4>2 DEF CallType
      <4> QED BY <2>2, <4>3 DEF CallType, NoCall
    <3>7. TypeOK'
      BY <1>7, <1>a, <2>2, <3>4, <3>5, <3>6 DEF StartSession, TypeOK
    <3>8. ClientBounds'
      BY <1>7, <1>a, <2>2, <3>5, <3>6 DEF StartSession, ClientBounds
    <3>9. RequestBounds'
      BY <1>7, <1>a, <2>2 DEF StartSession, RequestBounds
    <3> QED BY <3>4, <3>7, <3>8, <3>9 DEF TypeInv
  <2> QED BY <1>7, <2>1, <2>2 DEF StartSession
<1>8. CASE StartReturns
  <2>1. client' \in ClientType /\ client'.next <= captured /\ client'.status # "connecting"
    <3>1. CASE client' = [client EXCEPT !.status = "session_active",
                                        !.session = call.session, !.next = 0, !.inFlight = FALSE]
      <4>1. [client EXCEPT !.status = "session_active"] \in ClientType
        BY ClientTypes, FieldTypes
      <4>2. [client EXCEPT !.status = "session_active", !.session = call.session] \in ClientType
        BY <4>1, ClientTypes, FieldTypes DEF ClientType
      <4> DEFINE cl == [client EXCEPT !.status = "session_active", !.session = call.session]
      <4>3. client' = [cl EXCEPT !.next = 0, !.inFlight = FALSE]
        BY <3>1
      <4>4. cl.status = "session_active"
        BY ClientTypes DEF ClientType
      <4> HIDE DEF cl
      <4>5. [cl EXCEPT !.next = 0] \in ClientType
        BY <1>b, <4>2, FieldTypes DEF cl
      <4>6. client' \in ClientType
        BY <4>3, <4>5 DEF ClientType
      <4>7. client'.next = 0 /\ client'.status = "session_active"
        BY <4>2, <4>3, <4>4 DEF ClientType, cl
      <4> QED BY <1>b, <4>6, <4>7
    <3>2. CASE client' = [client EXCEPT !.start = IF @ = call.req THEN 0 ELSE @]
      <4> DEFINE v == IF client.start = call.req THEN 0 ELSE client.start
      <4>0. v \in 0..MaxRequests /\ client \in ClientType
        BY <1>b, ClientTypes
      <4>a. client' = [client EXCEPT !.start = v]
        BY <3>2
      <4> HIDE DEF v
      <4>1. client' \in ClientType
        BY <4>0, <4>a, FieldTypes
      <4>2. client'.next = client.next /\ client'.status = client.status
        BY <4>0, <4>a, OtherFields
      <4> QED BY <1>8, <1>a, <4>1, <4>2 DEF StartReturns, ClientBounds
    <3> QED BY <1>8, <3>1, <3>2 DEF StartReturns
  <2>2. TypeOK'
    BY <1>8, <1>a, <1>b, <2>1 DEF StartReturns, TypeOK
  <2>3. \A d \in Connections : HandlerBounds(d)' /\ IncomingBounds(d)'
    BY <1>8, QuietTypes DEF StartReturns
  <2>4. ClientBounds'
    BY <1>8, <1>a, <1>k, <2>1 DEF StartReturns, ClientBounds
  <2>5. RequestBounds'
    BY <1>8, <1>a DEF StartReturns, RequestBounds
  <2> QED BY <2>2, <2>3, <2>4, <2>5 DEF TypeInv
<1>9. CASE SubmitChunk
  <2> DEFINE new == captured + 1
             m == AudioMessage(client.session, client.next, new)
  <2>1. new \in 1..MaxAudio /\ new \in 0..MaxAudio /\ new \in Nat /\ client.next < new
        /\ client.next <= new
    BY <1>9, <1>a, <1>b, ClientTypes, ConstantTypes DEF SubmitChunk, ClientBounds
  <2>2. client.writer \in Connections /\ client.session \in Connections
    BY <1>9, ClientTypes, ConstantTypes DEF SubmitChunk, Connections
  <2>3. m \in ClientMessages /\ m.t = "audio" /\ m.audio = new
    BY <2>1, <2>2, ClientTypes, MessageTypes DEF AudioMessage
  <2>4. SendTo(client.writer, m) /\ captured' = new /\ handler' = handler
    BY <1>9 DEF SubmitChunk
  <2>5. new = captured + 1
    OBVIOUS
  <2>s. client.status = "session_active" /\ flow = "idle"
    BY <1>9 DEF SubmitChunk
  <2>6. client' = [client EXCEPT !.chunk = client.next, !.inFlight = TRUE]
        /\ call' = [NoCall EXCEPT !.kind = "chunk", !.answer = "waiting",
                                  !.seq = client.next, !.audio = new]
    BY <1>9 DEF SubmitChunk
  <2> HIDE DEF new, m
  <2>7. toServer' \in [Connections -> Seq(ClientMessages)]
        /\ \A d \in Connections : HandlerBounds(d)' /\ IncomingBounds(d)'
    BY <2>1, <2>2, <2>3, <2>4, <2>5, SendToTypes
  <2>8. client' \in ClientType /\ client'.status = client.status /\ client'.next = client.next
    <3>1. [client EXCEPT !.chunk = client.next] \in ClientType
      BY <1>b, ClientTypes, FieldTypes
    <3> QED BY <2>6, <3>1 DEF ClientType
  <2>9. call' \in CallType /\ call'.kind = "chunk" /\ call'.seq = client.next /\ call'.audio = new
    <3>1. [NoCall EXCEPT !.kind = "chunk"] \in CallType
      BY <1>b, FieldTypes
    <3>2. [NoCall EXCEPT !.kind = "chunk", !.answer = "waiting"] \in CallType
      BY <3>1 DEF CallType
    <3>3. [NoCall EXCEPT !.kind = "chunk", !.answer = "waiting", !.seq = client.next] \in CallType
      BY <3>2, ClientTypes DEF CallType
    <3>4. call' \in CallType
      BY <2>1, <2>6, <3>3 DEF CallType
    <3> QED BY <2>6, <3>4 DEF CallType, NoCall
  <2>10. TypeOK'
    BY <1>9, <1>a, <2>1, <2>4, <2>7, <2>8, <2>9 DEF SubmitChunk, TypeOK
  <2>11. ClientBounds'
    BY <1>9, <2>1, <2>4, <2>8, <2>9, <2>s DEF SubmitChunk, ClientBounds
  <2>12. RequestBounds'
    BY <1>9, <1>a DEF SubmitChunk, RequestBounds
  <2> QED BY <2>7, <2>10, <2>11, <2>12 DEF TypeInv
<1>10. CASE ChunkReturns
  <2>0. call.seq < call.audio /\ call.audio <= captured /\ captured <= MaxAudio
        /\ call.seq \in Nat /\ call.audio \in Nat
    BY <1>10, <1>a, <1>b, ClientTypes, ConstantTypes DEF ChunkReturns, ClientBounds, TypeOK
  <2>1. /\ client' \in ClientType /\ client'.status = client.status
        /\ client'.next <= captured /\ acked' \subseteq Connections \X (1..MaxAudio)
    <3>1. CASE /\ client.session # 0 /\ client.next = call.seq
               /\ client' = [client EXCEPT !.next = @ + 1, !.inFlight = FALSE]
               /\ acked' = acked \cup {<<client.session, call.audio>>}
      <4> DEFINE n == client.next + 1
      <4>1. n \in 0..MaxAudio /\ n <= captured
        BY <1>b, <2>0, <3>1, ConstantTypes
      <4>2. client' = [client EXCEPT !.next = n, !.inFlight = FALSE]
        BY <3>1
      <4> HIDE DEF n
      <4>3. [client EXCEPT !.next = n] \in ClientType
        BY <4>1, ClientTypes, FieldTypes
      <4>4. client' \in ClientType /\ client'.status = client.status /\ client'.next = n
        BY <4>2, <4>3, ClientTypes DEF ClientType
      <4>5. client.session \in Connections /\ call.audio \in 1..MaxAudio
        BY <1>b, <2>0, <3>1, ClientTypes, ConstantTypes DEF Connections
      <4> QED BY <1>a, <3>1, <4>1, <4>4, <4>5 DEF TypeOK
    <3>2. CASE UNCHANGED <<client, acked>>
      BY <1>a, <3>2, ClientTypes DEF TypeOK, ClientBounds
    <3>3. CASE /\ client' = [client EXCEPT
                    !.chunk = IF @ = call.seq THEN NoChunk ELSE @,
                    !.inFlight = @ /\ ~(client.session # 0 /\ client.next = call.seq)]
               /\ UNCHANGED acked
      <4> DEFINE v == IF client.chunk = call.seq THEN NoChunk ELSE client.chunk
                 b == client.inFlight /\ ~(client.session # 0 /\ client.next = call.seq)
      <4>1. v \in -1..MaxAudio /\ b \in BOOLEAN
        BY <1>b, ClientTypes
      <4>2. client' = [client EXCEPT !.chunk = v, !.inFlight = b]
        BY <3>3
      <4> HIDE DEF v, b
      <4>3. [client EXCEPT !.chunk = v] \in ClientType
        BY <4>1, ClientTypes, FieldTypes
      <4>4. client' \in ClientType /\ client'.status = client.status /\ client'.next = client.next
        BY <4>1, <4>2, <4>3, ClientTypes DEF ClientType
      <4> QED BY <1>a, <3>3, <4>4 DEF TypeOK, ClientBounds
    <3> QED BY <1>10, <3>1, <3>2, <3>3 DEF ChunkReturns
  <2>2. TypeOK'
    BY <1>10, <1>a, <1>b, <2>1 DEF ChunkReturns, TypeOK
  <2>3. \A d \in Connections : HandlerBounds(d)' /\ IncomingBounds(d)'
    BY <1>10, QuietTypes DEF ChunkReturns
  <2>4. ClientBounds'
    BY <1>10, <1>a, <1>k, <2>1 DEF ChunkReturns, ClientBounds
  <2>5. RequestBounds'
    BY <1>10, <1>a, <1>k DEF ChunkReturns, RequestBounds
  <2> QED BY <2>2, <2>3, <2>4, <2>5 DEF TypeInv
<1>11. CASE ChunkTimesOut
  <2>1. TypeOK'
    BY <1>11, <1>a, <1>b DEF ChunkTimesOut, TypeOK
  <2>2. \A d \in Connections : HandlerBounds(d)' /\ IncomingBounds(d)'
    BY <1>11, QuietTypes DEF ChunkTimesOut
  <2>3. ClientBounds'
    BY <1>11, <1>a, <1>b, <1>f, <1>k DEF ChunkTimesOut, ClientBounds
  <2>4. RequestBounds'
    BY <1>11, <1>a, <1>k DEF ChunkTimesOut, RequestBounds, Waiting
  <2> QED BY <2>1, <2>2, <2>3, <2>4 DEF TypeInv
<1>12. CASE ChunkDropped
  <2>1. TypeOK'
    BY <1>12, <1>a, <1>b DEF ChunkDropped, TypeOK
  <2>2. \A d \in Connections : HandlerBounds(d)' /\ IncomingBounds(d)'
    BY <1>12, QuietTypes DEF ChunkDropped
  <2>3. ClientBounds'
    BY <1>12, <1>a, <1>k DEF ChunkDropped, ClientBounds
  <2>4. RequestBounds'
    BY <1>12, <1>a, <1>k DEF ChunkDropped, RequestBounds
  <2> QED BY <2>1, <2>2, <2>3, <2>4 DEF TypeInv
<1>13. CASE PressEnd
  <2>1. TypeOK'
    BY <1>13, <1>a DEF PressEnd, TypeOK
  <2>2. \A d \in Connections : HandlerBounds(d)' /\ IncomingBounds(d)'
    BY <1>13, QuietTypes DEF PressEnd
  <2>3. ClientBounds'
    BY <1>13, <1>a, <1>k DEF PressEnd, ClientBounds
  <2>4. RequestBounds'
    BY <1>13, <1>a DEF PressEnd, RequestBounds
  <2> QED BY <2>1, <2>2, <2>3, <2>4 DEF TypeInv
<1>14. CASE EndSession
  <2>1. CASE flow' = "idle" /\ UNCHANGED <<client, call, toServer, requests>>
    <3>1. TypeOK'
      BY <1>14, <1>a, <2>1 DEF EndSession, TypeOK
    <3>2. \A d \in Connections : HandlerBounds(d)' /\ IncomingBounds(d)'
      BY <1>14, <2>1, QuietTypes DEF EndSession
    <3>3. ClientBounds'
      BY <1>14, <1>a, <1>k, <2>1 DEF EndSession, ClientBounds
    <3>4. RequestBounds'
      BY <1>14, <1>a, <2>1 DEF EndSession, RequestBounds
    <3> QED BY <3>1, <3>2, <3>3, <3>4 DEF TypeInv
  <2>2. CASE /\ client.session # 0 /\ client.writer # 0
             /\ requests' = requests + 1
             /\ client' = [client EXCEPT !.end = requests + 1]
             /\ call' = [NoCall EXCEPT !.kind = "end", !.answer = "waiting",
                                       !.req = requests + 1, !.session = client.session]
             /\ SendTo(client.writer,
                  EndMessage(requests + 1, client.session,
                             IF client.next > 0 THEN client.next - 1 ELSE 0))
             /\ UNCHANGED flow
    <3> DEFINE new == requests + 1
               last == IF client.next > 0 THEN client.next - 1 ELSE 0
    <3>0. requests < MaxRequests
      BY <1>14, <1>a, <1>k DEF EndSession, RequestBounds
    <3>1. new \in Requests /\ new \in 0..MaxRequests /\ new # 0
      BY <1>b, <3>0, ConstantTypes DEF Requests
    <3>2. client.writer \in Connections /\ client.session \in Connections
      BY <2>2, ClientTypes, ConstantTypes DEF Connections
    <3>3. last \in 0..MaxAudio
      BY ClientTypes, ConstantTypes
    <3>d. \A r \in Meetings : r > new => r > requests
      BY <1>b, ConstantTypes
    <3> DEFINE m == EndMessage(new, client.session, last)
    <3>4. /\ requests' = new /\ client' = [client EXCEPT !.end = new]
          /\ call' = [NoCall EXCEPT !.kind = "end", !.answer = "waiting",
                                    !.req = new, !.session = client.session]
          /\ SendTo(client.writer, m)
      BY <2>2
    <3> HIDE DEF new, last
    <3>5. m \in ClientMessages /\ m.t = "end"
      BY <3>1, <3>2, <3>3, MessageTypes DEF EndMessage
    <3> HIDE DEF m
    <3>6. toServer' \in [Connections -> Seq(ClientMessages)]
          /\ \A d \in Connections : HandlerBounds(d)' /\ IncomingBounds(d)'
      BY <1>14, <1>b, <3>2, <3>4, <3>5, SendToTypes DEF EndSession
    <3>7. client' \in ClientType /\ client'.status = client.status /\ client'.next = client.next
      BY <3>1, <3>4, ClientTypes, FieldTypes, OtherFields
    <3>8. call' \in CallType /\ call'.kind = "end" /\ call'.session # 0
      <4>1. [NoCall EXCEPT !.kind = "end"] \in CallType
        BY <1>b, FieldTypes
      <4>2. [NoCall EXCEPT !.kind = "end", !.answer = "waiting"] \in CallType
        BY <4>1 DEF CallType
      <4>3. [NoCall EXCEPT !.kind = "end", !.answer = "waiting", !.req = new] \in CallType
        BY <3>1, <4>2 DEF CallType
      <4>4. call' \in CallType
        BY <3>4, <4>3, ClientTypes DEF CallType
      <4> QED BY <2>2, <3>4, <4>4 DEF CallType, NoCall
    <3>9. TypeOK'
      BY <1>14, <1>a, <3>1, <3>4, <2>2, <3>6, <3>7, <3>8 DEF EndSession, TypeOK
    <3>10. client.status = "connecting" => FALSE
      BY <1>14, <1>a, <1>k DEF EndSession, ClientBounds
    <3>11. ClientBounds'
      BY <1>14, <1>a, <2>2, <3>7, <3>8, <3>10 DEF EndSession, ClientBounds
    <3>12. RequestBounds'
      BY <1>14, <1>a, <2>2, <3>1, <3>4, <3>8, <3>d DEF EndSession, RequestBounds
    <3> QED BY <3>6, <3>9, <3>11, <3>12 DEF TypeInv
  <2> QED BY <1>14, <2>1, <2>2 DEF EndSession
<1>15. CASE EndReturns
  <2>0. call.session \in Connections
    BY <1>15, <1>a, ClientTypes, ConstantTypes DEF EndReturns, ClientBounds, Connections
  <2>1. client' \in ClientType /\ client'.next <= captured /\ client'.status # "connecting"
    <3>1. CASE client' = [client EXCEPT !.session = 0, !.next = 0, !.status = "connected"]
      <4>1. [client EXCEPT !.session = 0] \in ClientType
        BY <1>b, ClientTypes, FieldTypes
      <4>2. [client EXCEPT !.session = 0, !.next = 0] \in ClientType
        BY <1>b, <4>1 DEF ClientType
      <4>3. client' \in ClientType
        BY <3>1, <4>2 DEF ClientType
      <4>4. client'.next = 0 /\ client'.status = "connected"
        BY <3>1, ClientTypes DEF ClientType
      <4> QED BY <1>b, <4>3, <4>4
    <3>2. CASE client' = [client EXCEPT !.end = IF @ = call.req THEN 0 ELSE @]
      <4> DEFINE v == IF client.end = call.req THEN 0 ELSE client.end
      <4>0. v \in 0..MaxRequests /\ client \in ClientType
        BY <1>b, ClientTypes
      <4>a. client' = [client EXCEPT !.end = v]
        BY <3>2
      <4> HIDE DEF v
      <4>1. client' \in ClientType
        BY <4>0, <4>a, FieldTypes
      <4>2. client'.next = client.next /\ client'.status = client.status
        BY <4>0, <4>a, OtherFields
      <4> QED BY <1>15, <1>a, <4>1, <4>2 DEF EndReturns, ClientBounds
    <3> QED BY <1>15, <3>1, <3>2 DEF EndReturns
  <2>2. TypeOK'
    BY <1>15, <1>a, <1>b, <2>0, <2>1 DEF EndReturns, TypeOK
  <2>3. \A d \in Connections : HandlerBounds(d)' /\ IncomingBounds(d)'
    BY <1>15, QuietTypes DEF EndReturns
  <2>4. ClientBounds'
    BY <1>15, <1>a, <1>k, <2>1 DEF EndReturns, ClientBounds
  <2>5. RequestBounds'
    BY <1>15, <1>a DEF EndReturns, RequestBounds
  <2> QED BY <2>2, <2>3, <2>4, <2>5 DEF TypeInv
<1>16. CASE Disconnect
  <2>1. toServer' \in [Connections -> Seq(ClientMessages)]
        /\ \A d \in Connections : HandlerBounds(d)' /\ IncomingBounds(d)'
    <3>1. CASE client.tasks # 0 /\ SendTo(client.tasks, CloseMessage)
      <4>1. client.tasks \in Connections
        BY <3>1, ClientTypes, ConstantTypes DEF Connections
      <4> QED BY <1>16, <1>b, <1>m, <3>1, <4>1, SendToTypes DEF Disconnect
    <3>2. CASE UNCHANGED toServer
      BY <1>16, <1>a, <3>2, QuietTypes DEF Disconnect, TypeOK
    <3> QED BY <1>16, <3>1, <3>2 DEF Disconnect
  <2>2. toClient' \in [Connections -> Seq(ServerMessages)]
    BY <1>16, <1>a, EmptySeq DEF Disconnect, TypeOK
  <2>3. TypeOK'
    BY <1>16, <1>a, <1>b, <2>1, <2>2 DEF Disconnect, TypeOK
  <2>4. ClientBounds'
    BY <1>16, <1>a, <1>b, <1>k DEF Disconnect, ClientBounds
  <2>5. RequestBounds'
    BY <1>16, <1>a DEF Disconnect, RequestBounds
  <2> QED BY <2>1, <2>3, <2>4, <2>5 DEF TypeInv
<1>17. CASE ReadStatus
  <2>1. client.status \in {"disconnected", "connected", "session_active", "failed"}
    BY <1>17, <1>a, ClientTypes DEF ReadStatus, ClientBounds
  <2>2. TypeOK'
    BY <1>17, <1>a, <2>1 DEF ReadStatus, TypeOK
  <2>3. \A d \in Connections : HandlerBounds(d)' /\ IncomingBounds(d)'
    BY <1>17, QuietTypes DEF ReadStatus
  <2>4. ClientBounds'
    BY <1>17, <1>a DEF ReadStatus, ClientBounds
  <2>5. RequestBounds'
    BY <1>17, <1>a DEF ReadStatus, RequestBounds
  <2> QED BY <2>2, <2>3, <2>4, <2>5 DEF TypeInv
<1> QED BY <1>1, <1>2, <1>3, <1>4, <1>5, <1>6, <1>7, <1>8, <1>9, <1>10, <1>11, <1>12, <1>13,
           <1>14, <1>15, <1>16, <1>17 DEF ClientStep

\* The texts of a result are texts.
LEMMA TextsOfTypes ==
  ASSUME NEW seq \in 0..MaxAudio, NEW parts \in Parts
  PROVE  TextsOf(seq, parts) \subseteq Texts
<1>1. \A i \in 1..Len(parts) : parts[i] \in Seq(Words)
  BY ElementOfSeq DEF Parts
<1> QED BY <1>1 DEF TextsOf, Texts

\* A step of a dispatcher keeps the types.
LEMMA DispatchTypes ==
  ASSUME TypeInv, NEW c \in Connections, Dispatch(c)
  PROVE  TypeInv'
<1>a. TypeOK /\ ClientBounds /\ RequestBounds
  BY DEF TypeInv
<1>u. /\ UNCHANGED <<backend, handler, toServer, mstatus, transcript, processed, acked, confirmed>>
      /\ UNCHANGED <<ui, flow, unread, opened, requests, captured, restarts>>
      /\ toClient' = [toClient EXCEPT ![c] = IF c \in readers' THEN Tail(@) ELSE <<>>]
  BY DEF Dispatch, uiVars
<1>b. c \in readers /\ toClient[c] # <<>> /\ captured \in Nat
  BY <1>a, ConstantTypes DEF Dispatch, DispatchStarted, DispatchResult, DispatchStopped, DispatchError,
       DispatchClose, Arrived, TypeOK
<1> DEFINE m == Head(toClient[c])
<1>c. toClient[c] \in Seq(ServerMessages) /\ m \in ServerMessages
      /\ Tail(toClient[c]) \in Seq(ServerMessages) /\ <<>> \in Seq(ServerMessages)
  BY <1>b, ConnectionTypes, HeadTailProperties, EmptySeq
<1>d. toClient' \in [Connections -> Seq(ServerMessages)]
  BY <1>a, <1>c, <1>u DEF TypeOK
<1>f. /\ FailPending(client) \in ClientType /\ MarkFailed(FailPending(client)) \in ClientType
      /\ FailPending(client).next = client.next /\ FailPending(client).status = client.status
      /\ MarkFailed(FailPending(client)).next = 0
      /\ MarkFailed(FailPending(client)).status = "failed"
  <2>1. FailPending(client) \in ClientType /\ MarkFailed(FailPending(client)) \in ClientType
    BY ClientTypes, RecordTypes
  <2>2. FailPending(client).next = client.next /\ FailPending(client).status = client.status
    BY ClientTypes DEF FailPending, ClientType
  <2> DEFINE cl == FailPending(client)
  <2>3. cl \in ClientType
    BY <2>1
  <2> HIDE DEF cl
  <2>4. MarkFailed(cl).next = 0 /\ MarkFailed(cl).status = "failed"
    BY <2>3 DEF MarkFailed, ClientType
  <2> QED BY <2>1, <2>2, <2>4 DEF cl
<1>g. \A v \in -1..MaxAudio :
        LET cl == [client EXCEPT !.chunk = v] IN
        cl \in ClientType /\ cl.next = client.next /\ cl.status = client.status
  BY ClientTypes, FieldTypes DEF ClientType
<1>h. \A v \in 0..MaxRequests :
        /\ LET cl == [client EXCEPT !.start = v] IN
           cl \in ClientType /\ cl.next = client.next /\ cl.status = client.status
        /\ LET cl == [client EXCEPT !.end = v] IN
           cl \in ClientType /\ cl.next = client.next /\ cl.status = client.status
  BY ClientTypes, FieldTypes, OtherFields
<1>z. 0 \in 0..MaxRequests /\ NoChunk \in -1..MaxAudio
  BY ConstantTypes DEF NoChunk
<1>1. /\ client' \in ClientType
      /\ client'.next = client.next \/ client'.next = 0
      /\ client'.status = client.status \/ client'.status = "failed"
  <2>1. \/ client' = client \/ client' = [client EXCEPT !.start = 0]
        \/ client' = [client EXCEPT !.chunk = NoChunk] \/ client' = [client EXCEPT !.end = 0]
        \/ client' = FailPending(client) \/ client' = MarkFailed(FailPending(client))
    BY DEF Dispatch, DispatchStarted, DispatchResult, DispatchStopped, DispatchError, DispatchClose
  <2> QED BY <1>f, <1>g, <1>h, <1>z, <2>1, ClientTypes
<1>2. /\ call' \in CallType /\ call'.kind = call.kind /\ call'.seq = call.seq
      /\ call'.audio = call.audio /\ (call'.session = call.session \/ call.kind = "start")
  <2>1. \/ call' = call \/ call' = FailCaller
        \/ \E kind : \E answer \in {"ok", "failed"} : call' = Answer(kind, answer)
        \/ /\ DispatchStarted(c) /\ Waiting("start")
           /\ call' = [call EXCEPT !.answer = "ok", !.session = m.session]
    BY DEF Dispatch, DispatchStarted, DispatchResult, DispatchStopped, DispatchError, DispatchClose
  <2>2. CASE call' = call
    BY <2>2, ClientTypes
  <2>3. CASE call' = FailCaller
    BY <2>3, AnswerKeeps
  <2>4. CASE \E kind : \E answer \in {"ok", "failed"} : call' = Answer(kind, answer)
    BY <2>4, AnswerKeeps
  <2>5. CASE /\ DispatchStarted(c) /\ Waiting("start")
             /\ call' = [call EXCEPT !.answer = "ok", !.session = m.session]
    <3>1. m.session \in 0..MaxConnections
      BY <1>c, <2>5, MessageFields, ConstantTypes DEF DispatchStarted, Arrived, Connections
    <3>2. [call EXCEPT !.answer = "ok"] \in CallType
      BY ClientTypes, FieldTypes
    <3> DEFINE s == m.session
    <3> HIDE DEF s
    <3>3. [call EXCEPT !.answer = "ok", !.session = s] \in CallType
      BY <3>1, <3>2 DEF CallType, s
    <3>4. call' = [call EXCEPT !.answer = "ok", !.session = s] /\ call.kind = "start"
      BY <2>5 DEF s, Waiting
    <3> QED BY <3>3, <3>4, ClientTypes DEF CallType
  <2> QED BY <2>1, <2>2, <2>3, <2>4, <2>5
<1>3. readers' \subseteq readers
  BY DEF Dispatch, DispatchStarted, DispatchResult, DispatchStopped, DispatchError, DispatchClose
<1>4. shown' \subseteq Connections \X Texts
  <2>1. shown' = shown
        \/ /\ m.t = "chunk_result"
           /\ shown' = shown \cup {<<c, text>> : text \in TextsOf(m.seq, m.parts)}
    BY DEF Dispatch, DispatchStarted, DispatchResult, DispatchStopped, DispatchError, DispatchClose,
           Arrived
  <2>2. m.t = "chunk_result" => TextsOf(m.seq, m.parts) \subseteq Texts
    BY <1>c, MessageFields, TextsOfTypes
  <2> QED BY <1>a, <2>1, <2>2 DEF TypeOK
<1>5. TypeOK'
  BY <1>a, <1>d, <1>u, <1>1, <1>2, <1>3, <1>4 DEF TypeOK
<1>6. \A d \in Connections : HandlerBounds(d)' /\ IncomingBounds(d)'
  BY <1>u, QuietTypes
<1>7. ClientBounds'
  BY <1>a, <1>b, <1>u, <1>1, <1>2 DEF ClientBounds
<1>8. RequestBounds'
  BY <1>a, <1>u, <1>2 DEF RequestBounds
<1> QED BY <1>5, <1>6, <1>7, <1>8 DEF TypeInv

\* The backend goes down and comes up again.
LEMMA BackendTypes ==
  ASSUME TypeInv, BackendDown \/ BackendReady
  PROVE  TypeInv'
<1> USE DEF clientVars
<1>a. TypeOK /\ ClientBounds /\ RequestBounds
  BY DEF TypeInv
<1>1. CASE BackendDown
  <2>1. handler' \in [Connections -> HandlerType]
        /\ \A d \in Connections : handler'[d] \in {NoHandler, Returned}
    BY <1>1, RecordTypes DEF BackendDown
  <2>2. \A h \in {NoHandler, Returned} :
          /\ h.expected = 0 /\ h.audio = 0 /\ h.pc \notin {"stt", "ending"}
          /\ h.meeting = 0 /\ h.previous = <<>>
    BY DEF NoHandler, Returned
  <2>3. toServer' = [d \in Connections |-> <<>>] /\ toServer' \in [Connections -> Seq(ClientMessages)]
    BY <1>1, EmptySeq DEF BackendDown
  <2>4. toClient' \in [Connections -> Seq(ServerMessages)]
    <3>1. \A d \in Connections : toClient[d] \in Seq(ServerMessages)
                                 /\ Append(toClient[d], CloseMessage) \in Seq(ServerMessages)
      BY ConnectionTypes, MessageTypes, AppendProperties
    <3> QED BY <1>1, <3>1 DEF BackendDown
  <2>5. restarts' \in 0..MaxRestarts
    BY <1>1, <1>a, ConstantsAssumption DEF BackendDown, TypeOK
  <2>6. TypeOK'
    BY <1>1, <1>a, <2>1, <2>3, <2>4, <2>5 DEF BackendDown, TypeOK
  <2>7. captured' = captured /\ captured \in Nat
    BY <1>1, <1>a, ConstantTypes DEF BackendDown, TypeOK
  <2>8. ASSUME NEW d \in Connections PROVE HandlerBounds(d)' /\ IncomingBounds(d)'
    <3>1. handler'[d].expected = 0 /\ handler'[d].audio = 0 /\ handler'[d].previous = <<>>
          /\ handler'[d].pc \notin {"stt", "ending"} /\ toServer'[d] = <<>>
      BY <2>1, <2>2, <2>3
    <3> QED BY <2>7, <3>1 DEF HandlerBounds, IncomingBounds, InOrder
  <2>9. ClientBounds'
    BY <1>1, <1>a DEF BackendDown, ClientBounds
  <2>10. RequestBounds'
    BY <1>1, <1>a, <2>1, <2>2 DEF BackendDown, RequestBounds
  <2> QED BY <2>6, <2>8, <2>9, <2>10 DEF TypeInv
<1>2. CASE BackendReady
  <2>1. TypeOK'
    BY <1>2, <1>a DEF BackendReady, TypeOK
  <2>2. \A d \in Connections : HandlerBounds(d)' /\ IncomingBounds(d)'
    BY <1>2, QuietTypes DEF BackendReady
  <2>3. ClientBounds'
    BY <1>2, <1>a DEF BackendReady, ClientBounds
  <2>4. RequestBounds'
    BY <1>2, <1>a DEF BackendReady, RequestBounds
  <2> QED BY <2>1, <2>2, <2>3, <2>4 DEF TypeInv
<1> QED BY <1>1, <1>2

\* A meeting ends.
LEMMA EndMeetingTypes ==
  ASSUME TypeInv, EndMeeting, UNCHANGED <<clientVars, uiVars>>
  PROVE  TypeInv'
<1> USE DEF clientVars, uiVars
<1>a. TypeOK /\ ClientBounds /\ RequestBounds
  BY DEF TypeInv
<1>1. PICK m \in Meetings : mstatus[m] = "active" /\ mstatus' = [mstatus EXCEPT ![m] = "ended"]
  BY DEF EndMeeting
<1>2. \A r \in Meetings : mstatus'[r] = IF r = m THEN "ended" ELSE mstatus[r]
  BY <1>a, <1>1 DEF TypeOK
<1>3. TypeOK'
  BY <1>a, <1>1 DEF EndMeeting, TypeOK
<1>4. \A d \in Connections : HandlerBounds(d)' /\ IncomingBounds(d)'
  BY QuietTypes DEF EndMeeting
<1>5. ClientBounds'
  BY <1>a DEF EndMeeting, ClientBounds
<1>6. \A d \in Connections : handler[d].meeting # 0 => mstatus'[handler[d].meeting] # "absent"
  <2>1. \A d \in Connections : handler[d].meeting # 0 => handler[d].meeting \in Meetings
    BY ConnectionTypes, ConstantTypes DEF Meetings, Requests
  <2> QED BY <1>a, <1>2, <2>1 DEF RequestBounds
<1>7. \A r \in Meetings : r > requests => mstatus'[r] = "absent"
  BY <1>a, <1>1, <1>2 DEF RequestBounds
<1>8. flow = "begin" => requests # 0 /\ mstatus'[requests] = "draft"
  <2>1. flow = "begin" => requests \in Meetings
    BY <1>a, ConstantTypes DEF RequestBounds, TypeOK, Meetings, Requests
  <2> QED BY <1>a, <1>1, <1>2, <2>1 DEF RequestBounds
<1>9. RequestBounds'
  BY <1>a, <1>6, <1>7, <1>8 DEF EndMeeting, RequestBounds
<1> QED BY <1>3, <1>4, <1>5, <1>9 DEF TypeInv

LEMMA InitTypes == Init => TypeInv
<1> SUFFICES ASSUME Init PROVE TypeInv
  OBVIOUS
<1>1. \A c \in Connections : handler[c] = NoHandler /\ toServer[c] = <<>>
  BY DEF Init
<1>2. NoHandler.expected = 0 /\ NoHandler.audio = 0 /\ NoHandler.pc = "none"
      /\ NoHandler.meeting = 0 /\ NoHandler.previous = <<>>
  BY DEF NoHandler
<1>3. NoCall.kind = "none" /\ NoClient.status = "disconnected" /\ NoClient.next = 0
  BY DEF NoCall, NoClient
<1>4. TypeOK
  <2>1. <<>> \in Seq(ClientMessages) /\ <<>> \in Seq(ServerMessages) /\ <<>> \in Seq(Rows)
    BY EmptySeq
  <2>2. 0 \in 0..MaxConnections /\ 0 \in 0..MaxRequests /\ 0 \in 0..MaxAudio /\ 0 \in 0..MaxRestarts
    BY ConstantsAssumption
  <2> QED BY <2>1, <2>2, RecordTypes DEF Init, TypeOK
<1>5. ASSUME NEW c \in Connections PROVE HandlerBounds(c) /\ IncomingBounds(c)
  <2>1. captured = 0
    BY DEF Init
  <2> QED BY <1>1, <1>2, <2>1 DEF HandlerBounds, IncomingBounds, InOrder
<1>6. ClientBounds
  BY <1>3 DEF Init, ClientBounds
<1>7. RequestBounds
  BY <1>1, <1>2 DEF Init, RequestBounds
<1> QED BY <1>4, <1>5, <1>6, <1>7 DEF TypeInv

LEMMA StutterTypes == TypeInv /\ UNCHANGED vars => TypeInv'
<1> SUFFICES ASSUME TypeInv, UNCHANGED vars PROVE TypeInv'
  OBVIOUS
<1> USE DEF vars, serverVars, clientVars, uiVars
<1>1. TypeOK'
  BY DEF TypeInv, TypeOK
<1>2. \A d \in Connections : HandlerBounds(d)' /\ IncomingBounds(d)'
  BY QuietTypes
<1>3. ClientBounds' /\ RequestBounds'
  BY DEF TypeInv, ClientBounds, RequestBounds
<1> QED BY <1>1, <1>2, <1>3 DEF TypeInv

LEMMA TypeStep == TypeInv /\ [Next]_vars => TypeInv'
BY ClientStepTypes, HandledTypes, DispatchTypes, EndMeetingTypes, BackendTypes, StutterTypes DEF Next

\* Every variable keeps its type; the chunks under way to a handler are in the
\* order of their capture, and the numbers of client and handler stay within
\* what was captured.
THEOREM TypeCorrect == Spec => []TypeInv
<1>1. TypeInv /\ [Next]_vars => TypeInv'
  BY TypeStep
<1> QED BY <1>1, InitTypes, PTL DEF Spec

-----------------------------------------------------------------------------
(* The meetings change as the aggregate promises *)

\* Rows added behind the others.
LEMMA AddedIsLonger ==
  ASSUME NEW s \in Seq(Rows), NEW t \in Seq(Rows), Len(s) < Len(t),
         \A i \in 1..Len(s) : t[i] = s[i]
  PROVE  IsStrictPrefix(s, t)
<1>1. Len(s) \in Nat /\ Len(t) \in Nat
  BY LenProperties
<1>2. SubSeq(s, 1, Len(s)) = s
  BY SubSeqFull
<1>3. /\ SubSeq(t, 1, Len(s)) \in Seq(Rows) /\ Len(SubSeq(t, 1, Len(s))) = Len(s)
      /\ \A i \in 1..Len(s) : SubSeq(t, 1, Len(s))[i] = t[i]
  <2> DEFINE n == Len(s)
  <2>1. n \in Nat /\ n \in Int /\ \A i \in 1..n : t[i] \in Rows
    BY <1>1, ElementOfSeq
  <2> HIDE DEF n
  <2>2. /\ SubSeq(t, 1, n) \in Seq(Rows)
        /\ Len(SubSeq(t, 1, n)) = IF 1 <= n THEN n - 1 + 1 ELSE 0
        /\ \A i \in 1..(n - 1 + 1) : SubSeq(t, 1, n)[i] = t[1 + i - 1]
    BY <2>1, SubSeqProperties
  <2>3. n - 1 + 1 = n /\ (IF 1 <= n THEN n - 1 + 1 ELSE 0) = n /\ \A i \in 1..n : 1 + i - 1 = i
    BY <2>1
  <2>4. \A i \in 1..n : SubSeq(t, 1, n)[i] = t[i]
    BY <2>2, <2>3
  <2> QED BY <2>2, <2>3, <2>4 DEF n
<1>4. SubSeq(t, 1, Len(s)) = s
  <2> DEFINE u == SubSeq(t, 1, Len(s))
  <2>1. u \in Seq(Rows) /\ Len(u) = Len(s) /\ \A i \in 1..Len(u) : u[i] = s[i]
    BY <1>3
  <2> HIDE DEF u
  <2>2. u = s
    BY <2>1, SeqEqual
  <2> QED BY <2>2 DEF u
<1>5. s # t
  BY <1>1
<1> QED BY <1>1, <1>2, <1>4, <1>5 DEF IsStrictPrefix, IsPrefix

\* The part of a chunk that is stored.
LEMMA StoredPart ==
  ASSUME TypeInv, NEW c \in Connections, ChunkDone(c) \/ ChunkBreaks(c)
  PROVE  \E segments \in Transcriptions[handler[c].audio] :
           LET parts == Accepted(handler[c].previous, segments).parts IN
           \E n \in 0..Len(parts) :
             /\ parts \in Parts /\ n \in Nat
             /\ n > 0 => MayAdd(handler[c].meeting)
             /\ AddRows(c, parts, n)
             /\ handler[c].pc = "stt"
<1> DEFINE h == handler[c]
<1>1. h \in HandlerType /\ h.pc = "stt" /\ h.audio \in 1..MaxAudio
  <2> DEFINE a == h.audio
             e == h.expected
  <2>1. h \in HandlerType /\ h.pc = "stt" /\ a \in 0..MaxAudio /\ e \in 0..MaxAudio /\ e < a
    BY ConnectionTypes DEF HandlerBounds, ChunkDone, ChunkBreaks
  <2>2. a \in 1..MaxAudio
    <3> HIDE DEF a, e
    <3> QED BY <2>1, ConstantTypes
  <2> QED BY <2>1, <2>2
<1>2. \A segments \in Transcriptions[h.audio] :
        LET parts == Accepted(h.previous, segments).parts IN
        parts \in Parts /\ Len(parts) \in Nat /\ (parts = <<>> => Len(parts) = 0)
  <2>1. \A segments \in Transcriptions[h.audio] :
          LET parts == Accepted(h.previous, segments).parts IN
          parts \in Parts /\ Len(parts) \in Nat
    BY <1>1, AddedParts
  <2> QED BY <2>1, EmptySeq
<1>3. CASE ChunkDone(c)
  <2>1. PICK segments \in Transcriptions[h.audio] :
          LET parts == Accepted(h.previous, segments).parts IN
          /\ parts = <<>> \/ MayAdd(h.meeting)
          /\ AddRows(c, parts, Len(parts))
    BY <1>3 DEF ChunkDone
  <2> DEFINE parts == Accepted(h.previous, segments).parts
  <2>2. parts \in Parts /\ Len(parts) \in Nat /\ (parts = <<>> => Len(parts) = 0)
        /\ AddRows(c, parts, Len(parts)) /\ (parts = <<>> \/ MayAdd(h.meeting))
    BY <1>2, <2>1
  <2> HIDE DEF parts
  <2>3. Len(parts) \in 0..Len(parts) /\ (Len(parts) > 0 => MayAdd(h.meeting))
    BY <2>2
  <2> QED BY <1>1, <2>2, <2>3 DEF parts
<1>4. CASE ChunkBreaks(c)
  <2>1. PICK segments \in Transcriptions[h.audio] :
          LET parts == Accepted(h.previous, segments).parts IN
          \E n \in 0..(Len(parts) - 1) :
            (n > 0 => MayAdd(h.meeting)) /\ AddRows(c, parts, n)
    BY <1>4 DEF ChunkBreaks
  <2> DEFINE parts == Accepted(h.previous, segments).parts
  <2>2. parts \in Parts /\ Len(parts) \in Nat
    BY <1>2
  <2>3. PICK n \in 0..(Len(parts) - 1) : (n > 0 => MayAdd(h.meeting)) /\ AddRows(c, parts, n)
    BY <2>1
  <2> HIDE DEF parts
  <2>4. n \in 0..Len(parts) /\ n \in Nat
    BY <2>2
  <2> QED BY <1>1, <2>2, <2>3, <2>4 DEF parts
<1> QED BY <1>3, <1>4

LEMMA MeetingStep == TypeInv /\ [Next]_vars => [Aggregate!MNext]_(Aggregate!mvars)
<1> SUFFICES ASSUME TypeInv, [Next]_vars
             PROVE  Aggregate!MNext \/ UNCHANGED <<mstatus, transcript>>
  BY DEF Aggregate!mvars
<1> USE DEF serverVars, clientVars, uiVars
<1>1. ASSUME NEW c \in Connections, ChunkDone(c) \/ ChunkBreaks(c)
      PROVE  Aggregate!MNext \/ UNCHANGED <<mstatus, transcript>>
  <2>1. PICK segments \in Transcriptions[handler[c].audio] :
          LET parts == Accepted(handler[c].previous, segments).parts IN
          \E n \in 0..Len(parts) :
            /\ parts \in Parts /\ n \in Nat
            /\ n > 0 => MayAdd(handler[c].meeting)
            /\ AddRows(c, parts, n)
            /\ handler[c].pc = "stt"
    BY <1>1, StoredPart
  <2> DEFINE parts == Accepted(handler[c].previous, segments).parts
             m == handler[c].meeting
  <2>2. PICK n \in 0..Len(parts) :
          /\ parts \in Parts /\ n \in Nat /\ (n > 0 => MayAdd(m))
          /\ AddRows(c, parts, n) /\ handler[c].pc = "stt"
    BY <2>1
  <2> HIDE DEF parts
  <2>3. /\ m \in Meetings /\ transcript' \in [Meetings -> Seq(Rows)]
        /\ \A k \in Meetings \ {m} : transcript'[k] = transcript[k]
        /\ Len(transcript'[m]) = Len(transcript[m]) + n
        /\ \A i \in 1..Len(transcript[m]) : transcript'[m][i] = transcript[m][i]
    BY <2>2, AddRowsTypes
  <2>4. transcript \in [Meetings -> Seq(Rows)] /\ mstatus' = mstatus
    BY <1>1 DEF TypeInv, TypeOK, ChunkDone, ChunkBreaks
  <2>5. m # 0
    BY <2>3, ConstantTypes
  <2>6. mstatus[m] \in {"draft", "active", "ended"}
    BY <2>3, <2>5 DEF TypeInv, TypeOK, RequestBounds
  <2> HIDE DEF m
  <2>7. Len(transcript[m]) \in Nat /\ transcript[m] \in Seq(Rows) /\ transcript'[m] \in Seq(Rows)
    BY <2>3, <2>4, LenProperties
  <2>8. CASE n = 0
    <3>1. Len(transcript'[m]) = Len(transcript[m])
      BY <2>3, <2>7, <2>8
    <3>2. transcript'[m] = transcript[m]
      BY <2>3, <2>7, <3>1, SeqEqual
    <3>3. transcript' = transcript
      BY <2>3, <2>4, <3>2
    <3> QED BY <2>4, <3>3
  <2>9. CASE n > 0
    <3>1. mstatus[m] \in {"draft", "active"}
      BY <2>2, <2>6, <2>9 DEF MayAdd, m
    <3> DEFINE before == transcript[m]
               after == transcript'[m]
    <3>5. /\ before \in Seq(Rows) /\ after \in Seq(Rows) /\ n \in Nat /\ n > 0
          /\ Len(after) = Len(before) + n /\ Len(before) \in Nat
          /\ \A i \in 1..Len(before) : after[i] = before[i]
      BY <2>2, <2>3, <2>7, <2>9
    <3>2. IsStrictPrefix(transcript[m], transcript'[m])
      <4> HIDE DEF before, after
      <4>1. Len(before) < Len(after)
        BY <3>5
      <4>2. IsStrictPrefix(before, after)
        BY <3>5, <4>1, AddedIsLonger
      <4> QED BY <4>2 DEF before, after
    <3>3. transcript' = [transcript EXCEPT ![m] = transcript'[m]]
      BY <2>3, <2>4
    <3>4. Aggregate!AddTranscripts(m)
      <4>1. Aggregate!IsStrictPrefix(transcript[m], transcript'[m])
        BY <3>2 DEF IsStrictPrefix, IsPrefix, Aggregate!IsStrictPrefix, Aggregate!IsPrefix
      <4> QED BY <2>4, <2>7, <3>1, <3>3, <4>1 DEF Aggregate!AddTranscripts
    <3> QED BY <2>3, <3>4 DEF Aggregate!MNext
  <2> QED BY <2>2, <2>8, <2>9
<1>2. ASSUME NEW c \in Connections, Handled(c)
      PROVE  Aggregate!MNext \/ UNCHANGED <<mstatus, transcript>>
  <2>1. \/ ChunkDone(c) \/ ChunkBreaks(c)
        \/ UNCHANGED <<mstatus, transcript>>
    BY <1>2 DEF Handled, HandlerStep, Hello, HandleStart, HandleEnd, Ended, HandleAudio,
                ProviderFails, HandleClose, Cleanup
  <2> QED BY <1>1, <2>1
<1>3. CASE CreateMeeting
  <2>1. CASE UNCHANGED mstatus
    BY <1>3, <2>1 DEF CreateMeeting
  <2>2. CASE requests < MaxRequests /\ mstatus' = [mstatus EXCEPT ![requests + 1] = "draft"]
    <3> DEFINE m == requests + 1
    <3>1. m \in Meetings /\ m > requests
      BY <2>2, ConstantTypes DEF TypeInv, TypeOK, Meetings, Requests
    <3>2. mstatus[m] = "absent"
      BY <3>1 DEF TypeInv, RequestBounds
    <3>3. Aggregate!CreateMeeting(m)
      BY <1>3, <2>2, <3>2 DEF CreateMeeting, Aggregate!CreateMeeting
    <3> QED BY <3>1, <3>3 DEF Aggregate!MNext
  <2> QED BY <1>3, <2>1, <2>2 DEF CreateMeeting
<1>4. CASE StartMeeting
  <2>1. CASE UNCHANGED mstatus
    BY <1>4, <2>1 DEF StartMeeting
  <2>2. CASE mstatus' = [mstatus EXCEPT ![requests] = "active"]
    <3>1. requests \in Meetings /\ mstatus[requests] = "draft"
      BY <1>4, ConstantTypes DEF StartMeeting, TypeInv, TypeOK, RequestBounds, Meetings, Requests
    <3>2. Aggregate!StartMeeting(requests)
      BY <1>4, <2>2, <3>1 DEF StartMeeting, Aggregate!StartMeeting
    <3> QED BY <3>1, <3>2 DEF Aggregate!MNext
  <2> QED BY <1>4, <2>1, <2>2 DEF StartMeeting
<1>5. CASE EndMeeting
  <2>1. PICK m \in Meetings : mstatus[m] = "active" /\ mstatus' = [mstatus EXCEPT ![m] = "ended"]
    BY <1>5 DEF EndMeeting
  <2>2. Aggregate!EndMeeting(m)
    BY <1>5, <2>1 DEF EndMeeting, Aggregate!EndMeeting
  <2> QED BY <2>1, <2>2 DEF Aggregate!MNext
<1>6. CASE ClientStep /\ ~CreateMeeting /\ ~StartMeeting
  BY <1>6 DEF ClientStep, PressStart, Connect, ConnectDone, ConnectFails, StartSession, StartReturns,
     SubmitChunk, ChunkReturns, ChunkTimesOut, ChunkDropped, PressEnd, EndSession, EndReturns,
     Disconnect, ReadStatus
<1>7. ASSUME NEW c \in Connections, Dispatch(c)
      PROVE  UNCHANGED <<mstatus, transcript>>
  BY <1>7 DEF Dispatch
<1>8. CASE BackendDown \/ BackendReady
  BY <1>8 DEF BackendDown, BackendReady
<1>9. CASE UNCHANGED vars
  BY <1>9 DEF vars
<1> QED BY <1>2, <1>3, <1>4, <1>5, <1>6, <1>7, <1>8, <1>9 DEF Next

\* Whatever window, client, handlers and backend do, a meeting goes from draft
\* to active to ended, rows are only added behind the others, and none is added
\* to a meeting that has ended, although its last chunk may still be with the
\* speech-to-text provider (Meeting.add_transcript).
THEOREM MeetingSpecCorrect == Spec => MeetingSpec
<1>1. Init => Aggregate!MInit
  BY DEF Init, Aggregate!MInit
<1>2. TypeInv /\ [Next]_vars => [Aggregate!MNext]_(Aggregate!mvars)
  BY MeetingStep
<1> QED BY <1>1, <1>2, TypeCorrect, PTL DEF Spec, MeetingSpec, Aggregate!MSpec

-----------------------------------------------------------------------------
(* Rows: every step *)

\* What a row is made of.
LEMMA RowTypes ==
  ASSUME TypeInv, NEW m \in Meetings, NEW i \in RowsOf(m)
  PROVE  /\ transcript[m][i].seq \in Nat /\ transcript[m][i].audio \in Nat
         /\ transcript[m][i].words \in Seq(Words) /\ transcript[m][i].seq \in 0..MaxAudio
<1>1. transcript[m] \in Seq(Rows) /\ i \in 1..Len(transcript[m])
  BY DEF TypeInv, TypeOK, RowsOf
<1>2. transcript[m][i] \in Rows
  BY <1>1, ElementOfSeq
<1> QED BY <1>2, ConstantTypes DEF Rows

\* A step that adds no row: the handlers it touches have no rows yet, or stop
\* counting, or go on with the number and the text they had.
LEMMA QuietRows ==
  ASSUME TypeInv, TypeInv', RowsInv, transcript' = transcript, Unopened',
         \A c \in Connections :
           \/ handler'[c] = handler[c] \/ Unsaid(c)
           \/ handler'[c].pc \in {"ending", "closing", "closed"}
           \/ /\ handler[c].pc \in {"open", "stt"} /\ handler'[c].pc \in {"open", "stt"}
              /\ handler'[c].meeting = handler[c].meeting
              /\ handler'[c].expected = handler[c].expected
              /\ handler'[c].previous = handler[c].previous
              /\ handler[c].audio <= handler'[c].audio
  PROVE  RowsInv'
<1>1. SequenceOnce' /\ RowsFollowOn'
  BY DEF RowsInv, SequenceOnce, RowsFollowOn, RowsOf
<1>2. \A c \in Connections : Unsaid(c)' <=> Unsaid(c)
  BY DEF Unsaid, RowsOf
<1>3. ASSUME NEW c \in Connections PROVE SessionRows(c)'
  <2>1. CASE Unsaid(c)
    BY <1>2, <2>1 DEF SessionRows, Unsaid
  <2>2. CASE handler'[c] = handler[c]
    BY <1>2, <2>2 DEF RowsInv, SessionRows, RowsOf
  <2>3. CASE handler'[c].pc \in {"ending", "closing", "closed"}
    BY <2>3 DEF SessionRows
  <2>4. CASE /\ handler[c].pc \in {"open", "stt"} /\ handler'[c].pc \in {"open", "stt"}
             /\ handler'[c].meeting = handler[c].meeting
             /\ handler'[c].expected = handler[c].expected
             /\ handler'[c].previous = handler[c].previous
             /\ handler[c].audio <= handler'[c].audio
    <3> DEFINE a == handler[c].audio
               b == handler'[c].audio
    <3>1. a \in Nat /\ b \in Nat /\ a <= b
      BY <2>4, ConstantTypes DEF TypeInv, TypeOK, HandlerType
    <3>2. \A m \in Meetings : \A i \in RowsOf(m) :
            transcript[m][i].audio <= a => transcript[m][i].audio <= b
      <4> SUFFICES ASSUME NEW m \in Meetings, NEW i \in RowsOf(m), transcript[m][i].audio <= a
                   PROVE  transcript[m][i].audio <= b
        OBVIOUS
      <4> DEFINE x == transcript[m][i].audio
      <4>1. x \in Nat /\ x <= a
        BY RowTypes
      <4> HIDE DEF a, b, x
      <4>2. x <= b
        BY <3>1, <4>1
      <4> QED BY <4>2 DEF x
    <3>3. \A m \in Meetings : \A i \in RowsOf(m) : transcript[m][i].session = c =>
            /\ m = handler[c].meeting /\ transcript[m][i].seq < handler[c].expected
            /\ transcript[m][i].audio <= a
            /\ (\A j \in (i + 1)..Len(transcript[m]) : transcript[m][j].session # c)
                 => transcript[m][i].words = handler[c].previous
      BY <2>4 DEF RowsInv, SessionRows
    <3> HIDE DEF a, b
    <3>4. \A m \in Meetings : \A i \in RowsOf(m) : transcript[m][i].session = c =>
            /\ m = handler'[c].meeting /\ transcript[m][i].seq < handler'[c].expected
            /\ transcript[m][i].audio <= b
            /\ (\A j \in (i + 1)..Len(transcript[m]) : transcript[m][j].session # c)
                 => transcript[m][i].words = handler'[c].previous
      BY <2>4, <3>2, <3>3
    <3>5. handler[c].meeting = 0 => Unsaid(c)
      BY <2>4 DEF RowsInv, SessionRows
    <3> QED BY <1>2, <2>4, <3>4, <3>5 DEF SessionRows, RowsOf, b
  <2> QED BY <2>1, <2>2, <2>3, <2>4
<1> QED BY <1>1, <1>3 DEF RowsInv

\* The rows a chunk in hand adds to its meeting, behind those it has.
Adds(c, parts, n) ==
  LET m == handler[c].meeting
      x == Len(transcript[m])
  IN /\ m \in Meetings /\ x \in Nat
     /\ \A k \in Meetings \ {m} : transcript'[k] = transcript[k]
     /\ Len(transcript'[m]) = x + n
     /\ \A i \in 1..x : transcript'[m][i] = transcript[m][i]
     /\ \A i \in 1..n :
          LET row == transcript'[m][x + i] IN
          /\ row.session = c /\ row.seq = handler[c].expected /\ row.audio = handler[c].audio
          /\ row.words = parts[i]

LEMMA AddsRows ==
  ASSUME TypeInv, NEW c \in Connections, handler[c].pc = "stt",
         NEW parts \in Parts, NEW n \in 0..Len(parts), AddRows(c, parts, n)
  PROVE  Adds(c, parts, n)
<1> DEFINE m == handler[c].meeting
           old == transcript[m]
           new == transcript'[m]
           e == handler[c].expected
           a == handler[c].audio
           x == Len(old)
           l == Len(parts)
<1>1. /\ m \in Meetings
      /\ \A k \in Meetings \ {m} : transcript'[k] = transcript[k]
      /\ Len(new) = x + n
      /\ \A i \in 1..x : new[i] = old[i]
      /\ \A i \in (x + 1)..Len(new) : new[i] = Row(c, e, a, parts[i - x])
  BY AddRowsTypes
<1>2. x \in Nat /\ l \in Nat /\ n \in 0..l
  BY <1>1, LenProperties DEF TypeInv, TypeOK, Parts
<1> HIDE DEF x, l, e, a, m, old, new
<1>3. ASSUME NEW i \in 1..n PROVE new[x + i] = Row(c, e, a, parts[i])
  <2> DEFINE j == x + i
             d == j - x
  <2>1. j \in (x + 1)..Len(new) /\ d = i
    BY <1>1, <1>2
  <2>2. \A v \in (x + 1)..Len(new) : new[v] = Row(c, e, a, parts[v - x])
    BY <1>1
  <2> HIDE DEF j
  <2>3. new[j] = Row(c, e, a, parts[d])
    BY <2>1, <2>2
  <2> QED BY <2>1, <2>3 DEF j
<1>4. ASSUME NEW i \in 1..n
      PROVE  /\ new[x + i].session = c /\ new[x + i].seq = e /\ new[x + i].audio = a
             /\ new[x + i].words = parts[i]
  <2> DEFINE row == new[x + i]
             p == parts[i]
  <2>1. row = Row(c, e, a, p)
    BY <1>3
  <2> HIDE DEF row, p
  <2>2. row.session = c /\ row.seq = e /\ row.audio = a /\ row.words = p
    BY <2>1 DEF Row
  <2> QED BY <2>2 DEF row, p
<1> QED BY <1>1, <1>2, <1>4 DEF Adds, m, x, old, new, e, a

\* A row that was there, or a row that was added.
LEMMA OldOrNew ==
  ASSUME NEW c \in Connections, NEW parts, NEW n \in Nat, Adds(c, parts, n),
         NEW m \in Meetings, NEW i \in 1..Len(transcript'[m])
  PROVE  \/ i \in 1..Len(transcript[m]) /\ transcript'[m][i] = transcript[m][i]
         \/ /\ m = handler[c].meeting
            /\ \E k \in 1..n :
                 /\ i = Len(transcript[m]) + k
                 /\ transcript'[m][i].session = c /\ transcript'[m][i].words = parts[k]
                 /\ transcript'[m][i].seq = handler[c].expected
                 /\ transcript'[m][i].audio = handler[c].audio
<1>1. CASE m # handler[c].meeting
  BY <1>1 DEF Adds
<1>2. CASE m = handler[c].meeting
  <2> DEFINE x == Len(transcript[m])
             y == Len(transcript'[m])
  <2>1. x \in Nat /\ y = x + n /\ i \in 1..y
    BY <1>2 DEF Adds
  <2>2. CASE i \in 1..x
    BY <1>2, <2>2 DEF Adds
  <2>3. CASE i \notin 1..x
    <3>1. i = x + (i - x) /\ i - x \in 1..n
      <4> HIDE DEF x, y
      <4> QED BY <2>1, <2>3
    <3>2. PICK k \in 1..n : i = x + k
      BY <3>1
    <3> QED BY <1>2, <3>2 DEF Adds
  <2> QED BY <2>2, <2>3
<1> QED BY <1>1, <1>2

\* The rows of a meeting follow on each other.
FollowOn(rows) ==
  \A i, j \in 1..Len(rows) :
    /\ i < j /\ rows[i].session = rows[j].session
    /\ \A k \in (i + 1)..(j - 1) : rows[k].session # rows[j].session
    => Follows(rows[i], rows[j])

\* What a chunk adds follows on the row its session had last.
LEMMA AddedRows ==
  ASSUME TypeInv, RowsInv, NEW c \in Connections, handler[c].pc = "stt",
         NEW segments \in Transcriptions[handler[c].audio],
         NEW parts, Len(parts) \in Nat, LeftOf(handler[c].previous, segments, parts),
         NEW n \in 0..Len(parts), Adds(c, parts, n)
  PROVE  SequenceOnce' /\ RowsFollowOn'
<1> DEFINE h == handler[c]
           a == h.audio
           e == h.expected
           w == h.previous
           m == h.meeting
           old == transcript[m]
           new == transcript'[m]
           x == Len(old)
<1>1. /\ n \in Nat /\ a \in Nat /\ e \in Nat /\ x \in Nat /\ m \in Meetings
      /\ Len(new) = x + n
      /\ \A k \in Meetings \ {m} : transcript'[k] = transcript[k]
      /\ \A i \in 1..x : new[i] = old[i]
      /\ \A i \in 1..n :
           /\ new[x + i].session = c /\ new[x + i].seq = e /\ new[x + i].audio = a
           /\ new[x + i].words = parts[i]
  <2>1. n \in Nat
    OBVIOUS
  <2>2. a \in Nat /\ e \in Nat
    BY ConnectionTypes, ConstantTypes
  <2> HIDE DEF h
  <2>3. /\ x \in Nat /\ m \in Meetings
        /\ Len(new) = x + n
        /\ \A k \in Meetings \ {m} : transcript'[k] = transcript[k]
        /\ \A i \in 1..x : new[i] = old[i]
    BY DEF Adds, h
  <2>4. \A i \in 1..n :
          /\ new[x + i].session = c /\ new[x + i].seq = e /\ new[x + i].audio = a
          /\ new[x + i].words = parts[i]
    BY DEF Adds, h
  <2> QED BY <2>1, <2>2, <2>3, <2>4
<1>2. \A i \in 1..x : old[i].session = c =>
        /\ old[i].seq \in Nat /\ old[i].seq < e /\ old[i].audio <= a
        /\ (\A j \in (i + 1)..x : old[j].session # c) => old[i].words = w
  BY <1>1, RowTypes DEF RowsInv, SessionRows, RowsOf
<1>3. ASSUME NEW i \in 1..Len(new), i \notin 1..x
      PROVE  \E k \in 1..n : i = x + k
  <2> HIDE DEF x, new
  <2>1. i - x \in 1..n /\ i = x + (i - x)
    BY <1>1, <1>3
  <2> QED BY <2>1
<1>4. \A p \in Nat, q \in Nat : (x + p < x + q => p < q) /\ (x + p = x + q => p = q)
  <2> HIDE DEF x
  <2> QED BY <1>1
<1> HIDE DEF a, e, w, m, old, new, x
<1>5. SequenceOnce'
  <2> SUFFICES ASSUME NEW k \in Meetings, NEW i \in 1..Len(transcript'[k]),
                      NEW j \in 1..Len(transcript'[k]),
                      transcript'[k][i].session = transcript'[k][j].session,
                      transcript'[k][i].seq = transcript'[k][j].seq
               PROVE  transcript'[k][i].audio = transcript'[k][j].audio
    BY DEF SequenceOnce, RowsOf
  <2>1. CASE k # m
    BY <1>1, <2>1 DEF RowsInv, SequenceOnce, RowsOf
  <2>2. CASE k = m
    <3>1. i \in 1..Len(new) /\ j \in 1..Len(new) /\ transcript'[k] = new /\ transcript[k] = old
      BY <2>2 DEF new, old
    <3>2. CASE i \in 1..x /\ j \in 1..x
      BY <1>1, <2>2, <3>1, <3>2 DEF RowsInv, SequenceOnce, RowsOf, x
    <3>3. ASSUME NEW p \in 1..x, old[p].session = c PROVE old[p].seq # e
      <4> DEFINE s == old[p].seq
      <4>1. s \in Nat /\ s < e
        BY <1>2, <3>3
      <4> HIDE DEF s
      <4>2. s # e
        BY <1>1, <4>1
      <4> QED BY <4>2 DEF s
    <3>4. ASSUME NEW p \in 1..Len(new), p \notin 1..x
          PROVE  new[p].session = c /\ new[p].seq = e /\ new[p].audio = a
      <4>1. PICK q \in 1..n : p = x + q
        BY <1>3, <3>4
      <4> QED BY <1>1, <4>1
    <3>5. CASE i \notin 1..x /\ j \notin 1..x
      BY <3>1, <3>4, <3>5
    <3>6. CASE i \in 1..x /\ j \notin 1..x
      BY <1>1, <3>1, <3>3, <3>4, <3>6
    <3>7. CASE i \notin 1..x /\ j \in 1..x
      BY <1>1, <3>1, <3>3, <3>4, <3>7
    <3> QED BY <3>2, <3>5, <3>6, <3>7
  <2> QED BY <2>1, <2>2
<1>6. RowsFollowOn'
  <2>a. \A k \in Meetings : FollowOn(transcript[k])
    BY DEF RowsInv, RowsFollowOn, RowsOf, FollowOn
  <2> SUFFICES ASSUME NEW k \in Meetings PROVE FollowOn(transcript'[k])
    BY DEF RowsFollowOn, RowsOf, FollowOn
  <2>1. CASE k # m
    BY <1>1, <2>1, <2>a
  <2>2. CASE k = m
    <3>b. transcript'[k] = new /\ FollowOn(old)
      BY <2>2, <2>a DEF new, old
    <3> SUFFICES ASSUME NEW i \in 1..Len(new), NEW j \in 1..Len(new), i < j,
                        new[i].session = new[j].session,
                        \A l \in (i + 1)..(j - 1) : new[l].session # new[j].session
                 PROVE  Follows(new[i], new[j])
      BY <3>b DEF FollowOn
    <3>1. /\ i \in 1..Len(new) /\ j \in 1..Len(new) /\ new[i].session = new[j].session
          /\ \A l \in (i + 1)..(j - 1) : new[l].session # new[j].session
      OBVIOUS
    <3>a. i \in Nat /\ j \in Nat
      OBVIOUS
    <3>2. CASE j \in 1..x
      <4>1. i \in 1..x /\ \A l \in (i + 1)..(j - 1) : l \in 1..x
        BY <1>1, <3>2, <3>a
      <4>2. /\ old[i].session = old[j].session
            /\ \A l \in (i + 1)..(j - 1) : old[l].session # old[j].session
        BY <1>1, <3>1, <3>2, <4>1
      <4>3. Follows(old[i], old[j])
        BY <3>2, <3>b, <4>1, <4>2 DEF FollowOn, x
      <4> QED BY <1>1, <3>1, <3>2, <4>1, <4>3
    <3>3. CASE j \notin 1..x
      <4>1. PICK q \in 1..n : j = x + q
        BY <1>3, <3>1, <3>3
      <4>2. /\ new[j].session = c /\ new[j].audio = a /\ new[j].words = parts[q]
            /\ q \in 1..Len(parts) /\ q \in Nat
        BY <1>1, <4>1
      <4>3. PICK s \in 1..Len(segments) :
              parts[q] = Deduplicate(IF q = 1 THEN w ELSE parts[q - 1], segments[s])
        BY <4>2 DEF LeftOf, w
      <4>4. new[i].audio <= a /\ new[i].words = IF q = 1 THEN w ELSE parts[q - 1]
        <5>1. CASE i \in 1..x
          <6>1. q = 1
            <7> SUFFICES ASSUME q # 1 PROVE FALSE
              OBVIOUS
            <7>1. x + 1 \in (i + 1)..(j - 1) /\ 1 \in 1..n
              BY <1>1, <4>1, <4>2, <5>1
            <7> QED BY <1>1, <3>1, <4>2, <7>1
          <6>2. \A l \in (i + 1)..x : old[l].session # c
            <7>1. \A l \in (i + 1)..x : l \in (i + 1)..(j - 1) /\ l \in 1..x
              BY <1>1, <4>1, <4>2, <5>1
            <7> QED BY <1>1, <3>1, <4>2, <7>1
          <6>3. new[i] = old[i] /\ old[i].session = c
            BY <1>1, <3>1, <4>2, <5>1
          <6> QED BY <1>2, <5>1, <6>1, <6>2, <6>3
        <5>2. CASE i \notin 1..x
          <6>1. PICK p \in 1..n : i = x + p
            BY <1>3, <3>1, <5>2
          <6>2. new[i].audio = a /\ new[i].words = parts[p] /\ p \in Nat
            BY <1>1, <6>1
          <6>3. p < q
            BY <1>4, <4>1, <4>2, <6>1, <6>2
          <6>4. p = q - 1
            <7> SUFFICES ASSUME p # q - 1 PROVE FALSE
              OBVIOUS
            <7>a. x \in Nat /\ n \in Nat
              BY <1>1
            <7>b. i = x + p /\ j = x + q
              BY <4>1, <6>1
            <7>1. x + (p + 1) \in (i + 1)..(j - 1) /\ p + 1 \in 1..n
              BY <6>3, <7>a, <7>b
            <7> QED BY <1>1, <3>1, <4>2, <7>1
          <6>5. q # 1 /\ a <= a
            BY <1>1, <6>1, <6>4
          <6> QED BY <6>2, <6>4, <6>5
        <5> QED BY <5>1, <5>2
      <4>5. segments \in Transcriptions[new[j].audio]
        BY <4>2 DEF a
      <4>6. new[i].audio <= new[j].audio /\ new[j].words = Deduplicate(new[i].words, segments[s])
        BY <4>2, <4>3, <4>4
      <4>7. Follows(new[i], new[j])
        BY <4>5, <4>6 DEF Follows
      <4> QED BY <3>1, <4>7
    <3> QED BY <3>2, <3>3
  <2> QED BY <2>1, <2>2
<1> QED BY <1>5, <1>6

\* A chunk whose transcription came back, whole or in part.
LEMMA ChunkRows ==
  ASSUME TypeInv, RowsInv, NEW c \in Connections, ChunkDone(c) \/ ChunkBreaks(c), opened' = opened
  PROVE  RowsInv'
<1> DEFINE h == handler[c]
<1>1. /\ h \in HandlerType /\ h.pc = "stt" /\ h.meeting # 0
      /\ h.audio \in 1..MaxAudio /\ h.expected \in Nat
      /\ handler \in [Connections -> HandlerType]
  <2> DEFINE a == h.audio
             e == h.expected
  <2>1. /\ h \in HandlerType /\ h.pc = "stt" /\ h.meeting # 0
        /\ a \in 0..MaxAudio /\ e \in 0..MaxAudio /\ e < a
        /\ handler \in [Connections -> HandlerType]
    BY ConnectionTypes DEF HandlerBounds, ChunkDone, ChunkBreaks, TypeInv, TypeOK
  <2>2. a \in 1..MaxAudio /\ e \in Nat
    <3> HIDE DEF a, e
    <3> QED BY <2>1, ConstantTypes
  <2> QED BY <2>1, <2>2
<1>2. PICK segments \in Transcriptions[h.audio] :
        LET accepted == Accepted(h.previous, segments) IN
        \E n \in 0..Len(accepted.parts) :
          /\ AddRows(c, accepted.parts, n)
          /\ \/ GiveUp(c, "internal_error")
             \/ /\ n = Len(accepted.parts)
                /\ handler' = [handler EXCEPT ![c].pc = "open", ![c].expected = @ + 1,
                                              ![c].previous = accepted.previous]
  <2>1. CASE ChunkDone(c)
    <3>1. PICK segments \in Transcriptions[h.audio] :
            LET accepted == Accepted(h.previous, segments) IN
            /\ AddRows(c, accepted.parts, Len(accepted.parts))
            /\ handler' = [handler EXCEPT ![c].pc = "open", ![c].expected = @ + 1,
                                          ![c].previous = accepted.previous]
      BY <2>1 DEF ChunkDone
    <3> DEFINE parts == Accepted(h.previous, segments).parts
    <3>2. Len(parts) \in Nat
      BY <1>1, AddedParts
    <3>3. Len(parts) \in 0..Len(parts)
      <4> HIDE DEF parts
      <4> QED BY <3>2
    <3> QED BY <3>1, <3>3
  <2>2. CASE ChunkBreaks(c)
    <3>1. PICK segments \in Transcriptions[h.audio] :
            LET parts == Accepted(h.previous, segments).parts IN
            \E n \in 0..(Len(parts) - 1) : AddRows(c, parts, n)
      BY <2>2 DEF ChunkBreaks
    <3> DEFINE parts == Accepted(h.previous, segments).parts
    <3>2. Len(parts) \in Nat
      BY <1>1, AddedParts
    <3>3. PICK n \in 0..(Len(parts) - 1) : AddRows(c, parts, n)
      BY <3>1
    <3>4. n \in 0..Len(parts)
      <4> HIDE DEF parts
      <4> QED BY <3>2
    <3> QED BY <2>2, <3>3, <3>4 DEF ChunkBreaks
  <2> QED BY <2>1, <2>2
<1> DEFINE parts == Accepted(h.previous, segments).parts
           previous == Accepted(h.previous, segments).previous
<1>3. PICK n \in 0..Len(parts) :
        /\ AddRows(c, parts, n)
        /\ \/ GiveUp(c, "internal_error")
           \/ /\ n = Len(parts)
              /\ handler' = [handler EXCEPT ![c].pc = "open", ![c].expected = @ + 1,
                                            ![c].previous = previous]
  BY <1>2
<1>a. /\ parts \in Parts /\ Len(parts) \in Nat
      /\ previous = IF parts = <<>> THEN h.previous ELSE parts[Len(parts)]
      /\ LeftOf(h.previous, segments, parts)
  BY <1>1, AddedParts
<1> HIDE DEF parts, previous
<1>4. /\ parts \in Parts /\ Len(parts) \in Nat /\ n \in Nat
      /\ previous = IF parts = <<>> THEN h.previous ELSE parts[Len(parts)]
      /\ LeftOf(h.previous, segments, parts)
  BY <1>a
<1>5. Adds(c, parts, n)
  BY <1>1, <1>3, <1>4, AddsRows
<1>6. SequenceOnce' /\ RowsFollowOn'
  BY <1>1, <1>2, <1>3, <1>4, <1>5, AddedRows
<1>7. \A d \in Connections \ {c} : handler'[d] = handler[d]
  BY <1>1, <1>3 DEF GiveUp, Goto
<1>8. Unopened'
  <2>1. handler'[c].pc # "none" => handler[c].pc # "none"
    BY <1>1
  <2> QED BY <1>1, <1>7, <2>1 DEF RowsInv, Unopened
<1>9. ASSUME NEW d \in Connections, d # c PROVE SessionRows(d)'
  <2>1. handler'[d] = handler[d]
    BY <1>7, <1>9
  <2>2. \A m \in Meetings : \A i \in 1..Len(transcript'[m]) :
          transcript'[m][i].session = d =>
            i \in 1..Len(transcript[m]) /\ transcript'[m][i] = transcript[m][i]
    BY <1>4, <1>5, <1>9, OldOrNew
  <2>3. Unsaid(d) => Unsaid(d)'
    BY <2>2 DEF Unsaid, RowsOf
  <2>4. \A m \in Meetings : \A i \in 1..Len(transcript[m]) :
          i \in 1..Len(transcript'[m]) /\ transcript'[m][i] = transcript[m][i]
    <3> SUFFICES ASSUME NEW m \in Meetings, NEW i \in 1..Len(transcript[m])
                 PROVE  i \in 1..Len(transcript'[m]) /\ transcript'[m][i] = transcript[m][i]
      OBVIOUS
    <3>1. CASE m # h.meeting
      BY <1>5, <3>1 DEF Adds
    <3>2. CASE m = h.meeting
      <4> DEFINE x == Len(transcript[m])
                 y == Len(transcript'[m])
      <4>1. x \in Nat /\ y = x + n /\ i \in 1..x /\ transcript'[m][i] = transcript[m][i]
        BY <1>5, <3>2 DEF Adds
      <4> HIDE DEF x, y
      <4>2. i \in 1..y
        BY <1>4, <4>1
      <4> QED BY <4>1, <4>2 DEF y
    <3> QED BY <3>1, <3>2
  <2>5. \A m \in Meetings : Len(transcript[m]) \in Nat
    BY LenProperties DEF TypeInv, TypeOK
  <2>6. ASSUME NEW m \in Meetings, NEW i \in 1..Len(transcript'[m]),
               transcript'[m][i].session = d,
               \A j \in (i + 1)..Len(transcript'[m]) : transcript'[m][j].session # d
        PROVE  \A j \in (i + 1)..Len(transcript[m]) : transcript[m][j].session # d
    <3>1. i \in 1..Len(transcript[m]) /\ Len(transcript[m]) \in Nat
      BY <2>2, <2>5, <2>6
    <3>2. \A j \in (i + 1)..Len(transcript[m]) : j \in 1..Len(transcript[m])
      BY <3>1
    <3>3. \A j \in (i + 1)..Len(transcript[m]) :
            j \in (i + 1)..Len(transcript'[m]) /\ transcript'[m][j] = transcript[m][j]
      BY <2>4, <3>1, <3>2
    <3> QED BY <2>6, <3>3
  <2>7. SessionRows(d)
    BY DEF RowsInv
  <2>8. ASSUME handler[d].pc \in {"open", "stt"}, NEW m \in Meetings,
               NEW i \in 1..Len(transcript'[m]), transcript'[m][i].session = d
        PROVE  /\ m = handler[d].meeting
               /\ transcript'[m][i].seq < handler[d].expected
               /\ transcript'[m][i].audio <= handler[d].audio
               /\ (\A j \in (i + 1)..Len(transcript'[m]) : transcript'[m][j].session # d)
                    => transcript'[m][i].words = handler[d].previous
    <3>1. i \in 1..Len(transcript[m]) /\ transcript'[m][i] = transcript[m][i]
      BY <2>2, <2>8
    <3>2. /\ m = handler[d].meeting
          /\ transcript[m][i].seq < handler[d].expected
          /\ transcript[m][i].audio <= handler[d].audio
          /\ (\A j \in (i + 1)..Len(transcript[m]) : transcript[m][j].session # d)
               => transcript[m][i].words = handler[d].previous
      BY <2>7, <2>8, <3>1 DEF SessionRows, RowsOf
    <3>3. (\A j \in (i + 1)..Len(transcript'[m]) : transcript'[m][j].session # d) =>
            \A j \in (i + 1)..Len(transcript[m]) : transcript[m][j].session # d
      BY <2>6, <2>8
    <3> QED BY <3>1, <3>2, <3>3
  <2> QED BY <2>1, <2>3, <2>7, <2>8 DEF SessionRows, RowsOf
<1>10. SessionRows(c)'
  <2>1. CASE GiveUp(c, "internal_error")
    <3>1. handler'[c].pc = "closing"
      BY <1>1, <2>1 DEF GiveUp, Goto
    <3> QED BY <3>1 DEF SessionRows
  <2>2. CASE /\ n = Len(parts)
             /\ handler' = [handler EXCEPT ![c].pc = "open", ![c].expected = @ + 1,
                                           ![c].previous = previous]
    <3> DEFINE e == h.expected
               a == h.audio
               r == h.meeting
               x == Len(transcript[r])
    <3>1. /\ handler'[c].pc = "open" /\ handler'[c].meeting = r /\ r # 0
          /\ handler'[c].expected = e + 1 /\ handler'[c].previous = previous
          /\ handler'[c].audio = a
      BY <1>1, <2>2 DEF HandlerType
    <3>2. /\ r \in Meetings /\ x \in Nat /\ Len(transcript'[r]) = x + n
          /\ \A i \in 1..x : transcript'[r][i] = transcript[r][i]
          /\ \A i \in 1..n : transcript'[r][x + i].session = c
      BY <1>5 DEF Adds
    <3>3. ASSUME NEW m \in Meetings, NEW i \in 1..Len(transcript'[m]),
                 transcript'[m][i].session = c
          PROVE  /\ m = r /\ transcript'[m][i].seq < e + 1 /\ transcript'[m][i].audio <= a
                 /\ (\A j \in (i + 1)..Len(transcript'[m]) : transcript'[m][j].session # c)
                      => transcript'[m][i].words = previous
      <4> DEFINE row == transcript'[m][i]
      <4>1. CASE i \in 1..Len(transcript[m]) /\ row = transcript[m][i]
        <5>1. /\ m = r /\ row.seq < e /\ row.audio <= a
              /\ (\A j \in (i + 1)..Len(transcript[m]) : transcript[m][j].session # c)
                   => row.words = h.previous
          BY <1>1, <3>3, <4>1 DEF RowsInv, SessionRows, RowsOf
        <5>2. row.seq < e + 1
          <6> DEFINE q == row.seq
          <6>1. q \in Nat /\ e \in Nat /\ q < e
            BY <1>1, <4>1, <5>1, RowTypes DEF RowsOf
          <6> HIDE DEF q, e
          <6>2. q < e + 1
            BY <6>1
          <6> QED BY <6>2 DEF q
        <5>3. ASSUME \A j \in (i + 1)..Len(transcript'[m]) : transcript'[m][j].session # c
              PROVE  row.words = previous
          <6>1. n = 0
            <7> SUFFICES ASSUME n # 0 PROVE FALSE
              OBVIOUS
            <7> HIDE DEF x, r
            <7>1. x + 1 \in (i + 1)..Len(transcript'[m]) /\ 1 \in 1..n
              <8>1. i \in 1..x
                BY <4>1, <5>1 DEF x
              <8> QED BY <1>4, <3>2, <5>1, <8>1
            <7> QED BY <3>2, <5>1, <5>3, <7>1
          <6>2. parts = <<>> /\ previous = h.previous
            BY <1>4, <2>2, <6>1, EmptySeq DEF Parts
          <6>3. \A j \in (i + 1)..Len(transcript[m]) : transcript[m][j].session # c
            <7> HIDE DEF x, r
            <7>1. Len(transcript[m]) = x /\ i \in 1..x /\ Len(transcript'[m]) = x
              BY <3>2, <4>1, <5>1, <6>1 DEF x
            <7>2. \A j \in (i + 1)..x : j \in 1..x
              BY <3>2, <7>1
            <7> QED BY <3>2, <5>1, <5>3, <7>1, <7>2
          <6> QED BY <5>1, <6>2, <6>3
        <5> QED BY <5>1, <5>2, <5>3
      <4>2. CASE /\ m = r
                 /\ \E k \in 1..n :
                      /\ i = Len(transcript[m]) + k
                      /\ row.session = c /\ row.words = parts[k] /\ row.seq = e /\ row.audio = a
        <5>1. PICK k \in 1..n : /\ i = x + k /\ row.words = parts[k]
                                /\ row.seq = e /\ row.audio = a
          BY <4>2
        <5>2. e \in Nat /\ a \in Nat /\ e < e + 1 /\ a <= a
          <6>1. e \in Nat /\ a \in Nat
            BY <1>1, ConstantTypes
          <6> HIDE DEF e, a
          <6> QED BY <6>1
        <5>3. ASSUME \A j \in (i + 1)..Len(transcript'[m]) : transcript'[m][j].session # c
              PROVE  row.words = previous
          <6>1. k = n
            <7> SUFFICES ASSUME k # n PROVE FALSE
              OBVIOUS
            <7> HIDE DEF x, r
            <7>1. x + (k + 1) \in (i + 1)..Len(transcript'[m]) /\ k + 1 \in 1..n
              BY <1>4, <3>2, <4>2, <5>1
            <7> QED BY <3>2, <4>2, <5>3, <7>1
          <6>2. parts # <<>> /\ previous = parts[Len(parts)]
            <7>1. Len(parts) # 0
              BY <1>4, <2>2, <5>1, <6>1
            <7> QED BY <1>4, <7>1
          <6>3. n = Len(parts)
            BY <2>2
          <6> QED BY <5>1, <6>1, <6>2, <6>3
        <5> QED BY <4>2, <5>1, <5>2, <5>3
      <4> QED BY <1>4, <1>5, <3>3, <4>1, <4>2, OldOrNew
    <3> HIDE DEF e, a, r, x
    <3> QED BY <3>1, <3>3, ConstantTypes DEF SessionRows, RowsOf
  <2> QED BY <1>3, <2>1, <2>2
<1> QED BY <1>6, <1>8, <1>9, <1>10 DEF RowsInv

\* Every step keeps the rows in order.
LEMMA RowsStep == TypeInv /\ RowsInv /\ [Next]_vars => RowsInv'
<1> SUFFICES ASSUME TypeInv, RowsInv, [Next]_vars PROVE RowsInv'
  OBVIOUS
<1> USE DEF serverVars, clientVars, uiVars
<1>0. handler \in [Connections -> HandlerType] /\ opened \in Nat /\ TypeInv'
      /\ \A c \in Connections : handler[c].audio \in Nat /\ handler[c].audio <= handler[c].audio
  <2>1. handler \in [Connections -> HandlerType] /\ opened \in Nat /\ TypeInv'
    BY TypeStep, ConstantTypes DEF TypeInv, TypeOK
  <2>2. \A c \in Connections : handler[c].audio \in Nat
    BY <2>1, ConstantTypes DEF HandlerType
  <2> QED BY <2>1, <2>2
<1>1. ASSUME NEW c \in Connections, Handled(c), ~ChunkDone(c), ~ChunkBreaks(c) PROVE RowsInv'
  <2> DEFINE h == handler[c]
  <2>1. transcript' = transcript /\ opened' = opened /\ h.pc # "none"
        /\ \A d \in Connections \ {c} : handler'[d] = handler[d]
    <3> USE <1>0, <1>1 DEF Handled, HandlerStep
    <3>1. transcript' = transcript /\ opened' = opened /\ h.pc # "none"
      BY DEF Hello, HandleStart, HandleEnd, Ended, HandleAudio, ProviderFails, HandleClose,
             Cleanup, Receive
    <3>2. \A d \in Connections \ {c} : handler'[d] = handler[d]
      BY DEF Hello, HandleStart, HandleEnd, Ended, HandleAudio, ProviderFails, HandleClose,
             Cleanup, Goto, GiveUp, Return, BeginSession
    <3> QED BY <3>1, <3>2
  <2>2. \/ handler'[c] = handler[c] \/ Unsaid(c)
        \/ handler'[c].pc \in {"ending", "closing", "closed"}
        \/ /\ handler[c].pc \in {"open", "stt"} /\ handler'[c].pc \in {"open", "stt"}
           /\ handler'[c].meeting = handler[c].meeting
           /\ handler'[c].expected = handler[c].expected
           /\ handler'[c].previous = handler[c].previous
           /\ handler[c].audio <= handler'[c].audio
    <3>1. CASE Hello(c)
      BY <3>1 DEF Hello, RowsInv, SessionRows
    <3>2. CASE HandleStart(c)
      <4>1. h.pc = "open" /\ (h.meeting = 0 => Unsaid(c))
        BY <3>2 DEF HandleStart, Receive, RowsInv, SessionRows
      <4> QED BY <1>0, <3>2, <4>1 DEF HandleStart, GiveUp, Goto
    <3>3. CASE HandleEnd(c)
      BY <1>0, <3>3 DEF HandleEnd, HandlerType
    <3>4. CASE Ended(c) \/ Cleanup(c)
      BY <1>0, <3>4 DEF Ended, Cleanup, Return, Returned, NoHandler
    <3>5. CASE HandleAudio(c)
      <4>1. h.pc = "open" /\ h.audio < Head(toServer[c]).audio
            /\ Head(toServer[c]).audio \in Nat
        BY <3>5, ReceiveTypes, MessageFields, ConstantTypes DEF HandleAudio
      <4>2. h.audio <= Head(toServer[c]).audio
        <5> DEFINE a == h.audio
                   b == Head(toServer[c]).audio
        <5>1. a \in Nat /\ b \in Nat /\ a < b
          BY <1>0, <4>1
        <5> HIDE DEF a, b
        <5>2. a <= b
          BY <5>1
        <5> QED BY <5>2 DEF a, b
      <4>3. CASE handler' = handler
        BY <4>3
      <4>4. CASE GiveUp(c, "unexpected_sequence")
        BY <1>0, <4>4 DEF GiveUp, Goto, HandlerType
      <4>5. CASE handler' = [handler EXCEPT ![c].violations = @ + 1]
        BY <1>0, <4>1, <4>5 DEF HandlerType
      <4>6. CASE handler' = [handler EXCEPT ![c].pc = "stt", ![c].audio = Head(toServer[c]).audio]
        BY <1>0, <4>1, <4>2, <4>6 DEF HandlerType
      <4> QED BY <3>5, <4>3, <4>4, <4>5, <4>6 DEF HandleAudio
    <3>6. CASE ProviderFails(c)
      BY <1>0, <3>6 DEF ProviderFails, Goto, HandlerType
    <3>7. CASE HandleClose(c)
      BY <1>0, <3>7 DEF HandleClose, Goto, HandlerType
    <3> QED BY <1>1, <3>1, <3>2, <3>3, <3>4, <3>5, <3>6, <3>7 DEF Handled, HandlerStep
  <2>3. Unopened'
    BY <2>1 DEF RowsInv, Unopened
  <2> QED BY <1>0, <2>1, <2>2, <2>3, QuietRows
<1>2. ASSUME NEW c \in Connections, Handled(c) PROVE RowsInv'
  BY <1>1, <1>2, ChunkRows DEF Handled
<1>3. CASE Connect
  <2>1. CASE handler' = handler /\ opened' = opened
    BY <1>0, <1>3, <2>1, QuietRows DEF Connect, RowsInv, Unopened
  <2>2. CASE handler' = [handler EXCEPT ![opened + 1].pc = "hello"] /\ opened' = opened + 1
    <3> DEFINE c == opened + 1
    <3>1. c \in Connections /\ c > opened
      BY <1>0, <1>3, <2>2, ConstantTypes DEF Connect, Connections
    <3>2. handler[c].pc = "none" /\ Unsaid(c)
      BY <3>1 DEF RowsInv, Unopened, SessionRows
    <3>3. transcript' = transcript /\ \A d \in Connections \ {c} : handler'[d] = handler[d]
      BY <1>0, <1>3, <2>2 DEF Connect
    <3>4. Unopened'
      <4> SUFFICES ASSUME NEW d \in Connections, d > opened' PROVE handler'[d].pc = "none"
        BY DEF Unopened
      <4>1. d # c /\ d > opened
        BY <1>0, <2>2, ConstantTypes
      <4> QED BY <3>3, <4>1 DEF RowsInv, Unopened
    <3> QED BY <1>0, <3>2, <3>3, <3>4, QuietRows
  <2> QED BY <1>3, <2>1, <2>2 DEF Connect
<1>4. CASE ClientStep /\ ~Connect
  <2>1. transcript' = transcript /\ handler' = handler /\ opened' = opened
    BY <1>4 DEF ClientStep, PressStart, ConnectDone, ConnectFails, CreateMeeting, StartMeeting,
       StartSession, StartReturns, SubmitChunk, ChunkReturns, ChunkTimesOut, ChunkDropped,
       PressEnd, EndSession, EndReturns, Disconnect, ReadStatus
  <2> QED BY <1>0, <2>1, QuietRows DEF RowsInv, Unopened
<1>5. ASSUME NEW c \in Connections, Dispatch(c) PROVE RowsInv'
  BY <1>0, <1>5, QuietRows DEF Dispatch, RowsInv, Unopened
<1>6. CASE EndMeeting /\ UNCHANGED <<clientVars, uiVars>>
  BY <1>0, <1>6, QuietRows DEF EndMeeting, RowsInv, Unopened
<1>7. CASE BackendDown
  <2>1. transcript' = transcript /\ opened' = opened
        /\ \A c \in Connections : handler'[c] = IF c <= opened THEN Returned ELSE NoHandler
    BY <1>7 DEF BackendDown
  <2>2. \A c \in Connections : c > opened => ~(c <= opened)
    BY <1>0, ConstantTypes
  <2>3. Unopened'
    BY <2>1, <2>2 DEF Unopened, NoHandler
  <2>4. ASSUME NEW c \in Connections, ~(c <= opened) PROVE Unsaid(c)
    <3>1. c > opened
      BY <1>0, <2>4, ConstantTypes
    <3> QED BY <3>1 DEF RowsInv, Unopened, SessionRows
  <2> QED BY <1>0, <2>1, <2>3, <2>4, QuietRows DEF Returned, NoHandler
<1>8. CASE BackendReady
  BY <1>0, <1>8, QuietRows DEF BackendReady, RowsInv, Unopened
<1>9. CASE UNCHANGED vars
  BY <1>0, <1>9, QuietRows DEF vars, RowsInv, Unopened
<1> QED BY <1>2, <1>3, <1>4, <1>5, <1>6, <1>7, <1>8, <1>9 DEF Next

LEMMA RowsInit == Init => RowsInv
<1> SUFFICES ASSUME Init PROVE RowsInv
  OBVIOUS
<1>1. \A m \in Meetings : RowsOf(m) = {}
  <2>1. \A m \in Meetings : transcript[m] = <<>> /\ Len(transcript[m]) = 0
    BY DEF Init
  <2> QED BY <2>1 DEF RowsOf
<1>2. \A c \in Connections : Unsaid(c) /\ SessionRows(c)
  BY <1>1 DEF Unsaid, SessionRows
<1>3. Unopened
  BY DEF Init, Unopened, NoHandler
<1>4. SequenceOnce /\ RowsFollowOn
  BY <1>1 DEF SequenceOnce, RowsFollowOn
<1> QED BY <1>2, <1>3, <1>4 DEF RowsInv

LEMMA RowsCorrect == Spec => []RowsInv
<1>1. TypeInv /\ RowsInv /\ [Next]_vars => RowsInv'
  BY RowsStep
<1> QED BY <1>1, RowsInit, TypeCorrect, PTL DEF Spec

\* A number of a session is the number of one chunk only: a number is used again
\* after an error, and then nothing of the chunk that had it was kept
\* (live_transcription and ProcessLiveAudioChunkUseCase).
THEOREM SequenceOnceCorrect == Spec => []SequenceOnce
<1>1. RowsInv => SequenceOnce
  BY DEF RowsInv
<1> QED BY <1>1, RowsCorrect, PTL

\* A row of a session follows on the row before it: over failed chunks, refusals
\* and retries the deduplicator compares with the text stored last, and chunks
\* are stored in the order of their capture (TranscriptDeduplicator and
\* ProcessLiveAudioChunkUseCase), for any number of chunks and whatever is transcribed.
THEOREM RowsFollowOnCorrect == Spec => []RowsFollowOn
<1>1. RowsInv => RowsFollowOn
  BY DEF RowsInv
<1> QED BY <1>1, RowsCorrect, PTL

-----------------------------------------------------------------------------
(* Queues as sets *)

LEMMA SetOfElements ==
  ASSUME NEW S, NEW s \in Seq(S)
  PROVE  ToSet(s) = {s[i] : i \in 1..Len(s)}
<1>1. DOMAIN s = 1..Len(s)
  OBVIOUS
<1> QED BY <1>1 DEF ToSet

LEMMA Elements ==
  ASSUME NEW S, NEW s \in Seq(S)
  PROVE  /\ ToSet(<<>>) = {} /\ ToSet(s) \subseteq S
         /\ \A x \in S : ToSet(Append(s, x)) = ToSet(s) \cup {x}
         /\ \A t \in Seq(S) : ToSet(s \o t) = ToSet(s) \cup ToSet(t)
         /\ s # <<>> => /\ Head(s) \in ToSet(s) /\ Head(s) \in S /\ Tail(s) \in Seq(S)
                        /\ ToSet(s) = {Head(s)} \cup ToSet(Tail(s))
<1>1. ToSet(<<>>) = {}
  BY DEF ToSet
<1>2. ToSet(s) \subseteq S
  BY ElementOfSeq DEF ToSet
<1>3. ASSUME NEW x \in S PROVE ToSet(Append(s, x)) = ToSet(s) \cup {x}
  BY AppendProperties, LenProperties DEF ToSet
<1>4. ASSUME NEW t \in Seq(S) PROVE ToSet(s \o t) = ToSet(s) \cup ToSet(t)
  <2> DEFINE u == s \o t
  <2>1. /\ u \in Seq(S) /\ Len(u) = Len(s) + Len(t) /\ Len(s) \in Nat /\ Len(t) \in Nat
        /\ \A i \in 1..Len(u) : u[i] = IF i <= Len(s) THEN s[i] ELSE t[i - Len(s)]
    BY ConcatProperties, LenProperties
  <2> HIDE DEF u
  <2>2. ToSet(u) = {u[i] : i \in 1..Len(u)} /\ ToSet(s) = {s[i] : i \in 1..Len(s)}
        /\ ToSet(t) = {t[i] : i \in 1..Len(t)}
    BY <2>1, SetOfElements
  <2>3. ToSet(u) \subseteq ToSet(s) \cup ToSet(t)
    <3> SUFFICES ASSUME NEW i \in 1..Len(u) PROVE u[i] \in ToSet(s) \cup ToSet(t)
      BY <2>2
    <3>1. CASE i <= Len(s)
      BY <2>1, <2>2, <3>1
    <3>2. CASE ~(i <= Len(s))
      <4>1. i - Len(s) \in 1..Len(t)
        BY <2>1, <3>2
      <4> QED BY <2>1, <2>2, <3>2, <4>1
    <3> QED BY <3>1, <3>2
  <2>4. ToSet(s) \subseteq ToSet(u)
    <3> SUFFICES ASSUME NEW i \in 1..Len(s) PROVE s[i] \in ToSet(u)
      BY <2>2
    <3>1. i \in 1..Len(u) /\ i <= Len(s)
      BY <2>1
    <3> QED BY <2>1, <2>2, <3>1
  <2>5. ToSet(t) \subseteq ToSet(u)
    <3> SUFFICES ASSUME NEW i \in 1..Len(t) PROVE t[i] \in ToSet(u)
      BY <2>2
    <3>1. Len(s) + i \in 1..Len(u) /\ ~(Len(s) + i <= Len(s)) /\ Len(s) + i - Len(s) = i
      BY <2>1
    <3>2. u[Len(s) + i] = t[i]
      BY <2>1, <3>1
    <3> QED BY <2>2, <3>1, <3>2
  <2> QED BY <2>3, <2>4, <2>5 DEF u
<1>5. ASSUME s # <<>>
      PROVE  /\ Head(s) \in ToSet(s) /\ Head(s) \in S /\ Tail(s) \in Seq(S)
             /\ ToSet(s) = {Head(s)} \cup ToSet(Tail(s))
  <2> DEFINE u == Tail(s)
  <2>1. /\ Len(s) \in Nat \ {0} /\ u \in Seq(S) /\ Len(u) = Len(s) - 1 /\ Head(s) \in S
        /\ \A i \in 1..Len(u) : u[i] = s[i + 1]
    BY <1>5, HeadTailProperties, EmptySeq
  <2>2. Head(s) = s[1] /\ 1 \in 1..Len(s)
    BY <2>1
  <2> HIDE DEF u
  <2>3. ToSet(u) = {u[i] : i \in 1..Len(u)} /\ ToSet(s) = {s[i] : i \in 1..Len(s)}
    BY <2>1, SetOfElements
  <2>4. ToSet(s) \subseteq {Head(s)} \cup ToSet(u)
    <3> SUFFICES ASSUME NEW i \in 1..Len(s) PROVE s[i] = s[1] \/ s[i] \in ToSet(u)
      BY <2>2, <2>3
    <3>1. CASE i = 1
      BY <3>1
    <3>2. CASE i # 1
      <4>1. i - 1 \in 1..Len(u) /\ i - 1 + 1 = i
        BY <2>1, <3>2
      <4>2. u[i - 1] = s[i]
        BY <2>1, <4>1
      <4> QED BY <2>3, <4>1, <4>2
    <3> QED BY <3>1, <3>2
  <2>5. ToSet(u) \subseteq ToSet(s)
    <3> SUFFICES ASSUME NEW i \in 1..Len(u) PROVE u[i] \in ToSet(s)
      BY <2>3
    <3>1. i + 1 \in 1..Len(s)
      BY <2>1
    <3> QED BY <2>1, <2>3, <3>1
  <2> QED BY <2>1, <2>2, <2>3, <2>4, <2>5 DEF u
<1> QED BY <1>1, <1>2, <1>3, <1>4, <1>5

LEMMA ElementsOfFew ==
  /\ \A x : ToSet(<<x>>) = {x}
  /\ \A x, y : ToSet(<<x, y>>) = {x, y}
<1>1. ASSUME NEW x PROVE ToSet(<<x>>) = {x}
  BY DEF ToSet
<1>2. ASSUME NEW x, NEW y PROVE ToSet(<<x, y>>) = {x, y}
  <2>1. DOMAIN <<x, y>> = {1, 2} /\ <<x, y>>[1] = x /\ <<x, y>>[2] = y
    OBVIOUS
  <2> QED BY <2>1 DEF ToSet
<1> QED BY <1>1, <1>2

-----------------------------------------------------------------------------
(* The handler's steps, connection by connection *)

\* What the handler sends arrives if the connection is read.
Sent(c, messages) == toClient'[c] = IF Read(c) THEN toClient[c] \o messages ELSE toClient[c]

LEMMA ReplyFacts ==
  ASSUME TypeInv, NEW c \in Connections, NEW messages, Reply(c, messages)
  PROVE  Sent(c, messages) /\ \A d \in Connections \ {c} : toClient'[d] = toClient[d]
BY DEF TypeInv, TypeOK, Reply, Sent

\* A handler's step touches its own connection and nothing of the client.
LEMMA HandledFrame ==
  ASSUME TypeInv, NEW c \in Connections, Handled(c)
  PROVE  /\ UNCHANGED <<client, readers, call, shown, acked, confirmed, ui, flow, unread,
                        opened, requests, captured, restarts, backend, mstatus>>
         /\ handler[c].pc # "none"
         /\ \A d \in Connections \ {c} :
              /\ handler'[d] = handler[d] /\ toServer'[d] = toServer[d]
              /\ toClient'[d] = toClient[d]
         /\ \A d \in Connections : Read(d)' <=> Read(d)
<1> USE DEF Handled, HandlerStep, clientVars, uiVars
<1>0. /\ handler \in [Connections -> HandlerType]
      /\ toServer \in [Connections -> Seq(ClientMessages)]
      /\ toClient \in [Connections -> Seq(ServerMessages)]
  BY DEF TypeInv, TypeOK
<1>1. UNCHANGED <<client, readers, call, shown, acked, confirmed, ui, flow, unread,
                  opened, requests, captured, restarts>>
  BY DEF Handled
<1>2. UNCHANGED <<backend, mstatus>> /\ handler[c].pc # "none"
  BY DEF Hello, HandleStart, HandleEnd, Ended, HandleAudio, ProviderFails, ChunkDone,
         ChunkBreaks, HandleClose, Cleanup, Receive
<1>3. \A d \in Connections \ {c} : handler'[d] = handler[d]
  BY <1>0 DEF Hello, HandleStart, HandleEnd, Ended, HandleAudio, ProviderFails, ChunkDone,
         ChunkBreaks, HandleClose, Cleanup, GiveUp, Goto, Return, BeginSession
<1>4. \A d \in Connections \ {c} : toServer'[d] = toServer[d]
  BY <1>0 DEF Hello, HandleStart, HandleEnd, Ended, HandleAudio, ProviderFails, ChunkDone,
         ChunkBreaks, HandleClose, Cleanup, Receive, Return
<1>5. \A d \in Connections \ {c} : toClient'[d] = toClient[d]
  BY <1>0 DEF Hello, HandleStart, HandleEnd, Ended, HandleAudio, ProviderFails, ChunkDone,
         ChunkBreaks, HandleClose, Cleanup, Reply, Refuse, GiveUp
<1>6. \A d \in Connections : Read(d)' <=> Read(d)
  BY <1>1 DEF Read
<1> QED BY <1>1, <1>2, <1>3, <1>4, <1>5, <1>6

\* What of a handler's locals the later answers depend on.
Kept(c) ==
  /\ handler'[c].meeting = handler[c].meeting
  /\ handler'[c].expected = handler[c].expected
  /\ handler'[c].audio = handler[c].audio

\* The message the handler takes, and what it leaves behind.
Takes(c, t) ==
  /\ handler[c].pc = "open" /\ toServer[c] # <<>> /\ Head(toServer[c]).t = t
  /\ toServer'[c] = Tail(toServer[c])

LEMMA HelloFacts ==
  ASSUME TypeInv, NEW c \in Connections, Hello(c)
  PROVE  /\ handler[c].pc = "hello" /\ transcript' = transcript /\ processed' = processed
         /\ \/ /\ handler'[c].pc = "open" /\ Kept(c) /\ toServer'[c] = toServer[c]
               /\ Sent(c, <<HelloAck>>)
            \/ handler'[c] = Returned /\ toServer'[c] = <<>> /\ Sent(c, <<CloseMessage>>)
<1>1. handler \in [Connections -> HandlerType] /\ toServer \in [Connections -> Seq(ClientMessages)]
  BY DEF TypeInv, TypeOK
<1>2. \A messages : Reply(c, messages) => Sent(c, messages)
  BY ReplyFacts
<1> QED BY <1>1, <1>2 DEF Hello, Goto, Return, Kept, HandlerType

LEMMA StartFacts ==
  ASSUME TypeInv, NEW c \in Connections, HandleStart(c)
  PROVE  LET m == Head(toServer[c]) IN
         /\ Takes(c, "start") /\ transcript' = transcript /\ processed' = processed
         /\ m \in ClientMessages /\ m.t = "start" /\ m.req \in Requests
         /\ \/ /\ handler[c].meeting # 0 /\ handler'[c] = handler[c]
               /\ Sent(c, <<ProtocolError("session_already_started", FALSE)>>)
            \/ /\ handler'[c].pc = "closing" /\ Kept(c)
               /\ \E code \in ErrorCodes : Sent(c, <<ProtocolError(code, TRUE), CloseMessage>>)
            \/ /\ handler[c].meeting = 0
               /\ handler'[c].pc = "open" /\ handler'[c].meeting = m.req
               /\ handler'[c].expected = 0 /\ handler'[c].audio = handler[c].audio
               /\ \/ Sent(c, <<Started(m.req, c)>>)
                  \/ Sent(c, <<Started(m.req, c), ProtocolError("assist_unavailable", FALSE)>>)
<1>1. handler \in [Connections -> HandlerType] /\ toServer \in [Connections -> Seq(ClientMessages)]
  BY DEF TypeInv, TypeOK
<1>2. \A messages : Reply(c, messages) => Sent(c, messages)
  BY ReplyFacts
<1>3. Takes(c, "start")
  BY <1>1 DEF HandleStart, Receive, Takes
<1>4. Head(toServer[c]) \in ClientMessages
  BY <1>1, <1>3, HeadTailProperties DEF Takes
<1>5. Head(toServer[c]).req \in Requests /\ Head(toServer[c]).t = "start"
  BY <1>3, <1>4, MessageFields DEF Takes
<1>6. {"session_start_rejected", "session_start_failed"} \subseteq ErrorCodes
  BY DEF ErrorCodes
<1>7. \A code \in ErrorCodes : GiveUp(c, code) =>
        /\ handler'[c].pc = "closing" /\ Kept(c)
        /\ Sent(c, <<ProtocolError(code, TRUE), CloseMessage>>)
  BY <1>1, <1>2 DEF GiveUp, Goto, Kept, HandlerType
<1>8. \A req : BeginSession(c, req) =>
        /\ handler'[c].pc = handler[c].pc /\ handler'[c].meeting = req
        /\ handler'[c].expected = 0 /\ handler'[c].audio = handler[c].audio
  BY <1>1 DEF BeginSession, HandlerType
<1> QED BY <1>2, <1>3, <1>4, <1>5, <1>6, <1>7, <1>8 DEF HandleStart, Refuse, Takes

LEMMA EndFacts ==
  ASSUME TypeInv, NEW c \in Connections, HandleEnd(c)
  PROVE  LET m == Head(toServer[c]) IN
         /\ Takes(c, "end") /\ transcript' = transcript /\ processed' = processed
         /\ m \in ClientMessages
         /\ \/ /\ handler[c].meeting = 0 \/ m.session # c \/ m.last # LastSequence(c)
               /\ handler'[c] = handler[c]
               /\ \E code \in ErrorCodes : Sent(c, <<ProtocolError(code, FALSE)>>)
            \/ handler'[c].pc = "ending" /\ toClient'[c] = toClient[c]
<1>1. handler \in [Connections -> HandlerType] /\ toServer \in [Connections -> Seq(ClientMessages)]
  BY DEF TypeInv, TypeOK
<1>2. \A messages : Reply(c, messages) => Sent(c, messages)
  BY ReplyFacts
<1>3. Takes(c, "end")
  BY <1>1 DEF HandleEnd, Receive, Takes
<1>4. Head(toServer[c]) \in ClientMessages
  BY <1>1, <1>3, HeadTailProperties DEF Takes
<1>6. {"invalid_session", "invalid_last_sequence"} \subseteq ErrorCodes
  BY DEF ErrorCodes
<1>7. \A req : handler' = [handler EXCEPT ![c].pc = "ending", ![c].req = req]
        => handler'[c].pc = "ending"
  BY <1>1 DEF HandlerType
<1> QED BY <1>2, <1>3, <1>4, <1>6, <1>7 DEF HandleEnd, Refuse

LEMMA EndedFacts ==
  ASSUME TypeInv, NEW c \in Connections, Ended(c)
  PROVE  /\ handler[c].pc = "ending" /\ transcript' = transcript /\ processed' = processed
         /\ handler'[c] = Returned /\ toServer'[c] = <<>>
         /\ handler[c].req \in Requests /\ Sent(c, <<Stopped(handler[c].req, c), CloseMessage>>)
<1>1. handler \in [Connections -> HandlerType] /\ toServer \in [Connections -> Seq(ClientMessages)]
  BY DEF TypeInv, TypeOK
<1>2. \A messages : Reply(c, messages) => Sent(c, messages)
  BY ReplyFacts
<1>3. handler[c].pc = "ending"
  BY DEF Ended
<1>4. handler[c].req \in Requests
  <2> DEFINE r == handler[c].req
  <2>1. r \in 0..MaxRequests /\ r # 0
    BY <1>3, ConnectionTypes DEF HandlerBounds
  <2> HIDE DEF r
  <2>2. r \in 1..MaxRequests
    BY <2>1, ConstantTypes
  <2> QED BY <2>2 DEF r, Requests
<1> QED BY <1>1, <1>2, <1>3, <1>4 DEF Ended, Return

LEMMA AudioFacts ==
  ASSUME TypeInv, NEW c \in Connections, HandleAudio(c)
  PROVE  LET m == Head(toServer[c]) IN
         /\ Takes(c, "audio") /\ transcript' = transcript /\ processed' = processed
         /\ m \in ClientMessages /\ m.t = "audio" /\ m.audio \in 1..MaxAudio
         /\ handler[c].audio < m.audio
         /\ \/ /\ handler[c].meeting = 0 \/ m.session # c \/ m.seq # handler[c].expected
               /\ handler'[c].pc = "open" /\ Kept(c)
               /\ \E code \in ErrorCodes \ {"assist_unavailable", "provider_error"} :
                    Sent(c, <<ProtocolError(code, FALSE)>>)
            \/ /\ handler'[c].pc = "closing" /\ Kept(c)
               /\ \E code \in ErrorCodes : Sent(c, <<ProtocolError(code, TRUE), CloseMessage>>)
            \/ /\ m.session = c /\ m.seq = handler[c].expected
               /\ handler'[c].pc = "stt" /\ handler'[c].audio = m.audio
               /\ handler'[c].expected = handler[c].expected
               /\ handler'[c].meeting = handler[c].meeting /\ handler[c].meeting # 0
               /\ toClient'[c] = toClient[c]
<1>1. handler \in [Connections -> HandlerType] /\ toServer \in [Connections -> Seq(ClientMessages)]
  BY DEF TypeInv, TypeOK
<1>2. \A messages : Reply(c, messages) => Sent(c, messages)
  BY ReplyFacts
<1>a. Receive(c, "audio")
  BY DEF HandleAudio
<1>3. Takes(c, "audio")
  BY <1>1, <1>a DEF Receive, Takes
<1>4. Head(toServer[c]) \in ClientMessages /\ handler[c].audio < Head(toServer[c]).audio
  BY <1>a, ReceiveTypes
<1>5. Head(toServer[c]).audio \in 1..MaxAudio /\ Head(toServer[c]).t = "audio"
  BY <1>3, <1>4, MessageFields DEF Takes
<1>6. {"session_required", "unexpected_sequence"} \subseteq ErrorCodes \ {"assist_unavailable", "provider_error"}
  BY DEF ErrorCodes
<1>7. \A code \in ErrorCodes : GiveUp(c, code) =>
        /\ handler'[c].pc = "closing" /\ Kept(c)
        /\ Sent(c, <<ProtocolError(code, TRUE), CloseMessage>>)
  BY <1>1, <1>2 DEF GiveUp, Goto, Kept, HandlerType
<1>8. handler' = [handler EXCEPT ![c].violations = @ + 1] =>
        Kept(c) /\ handler'[c].pc = handler[c].pc
  BY <1>1 DEF Kept, HandlerType
<1>9. \A a : handler' = [handler EXCEPT ![c].pc = "stt", ![c].audio = a] =>
        /\ handler'[c].pc = "stt" /\ handler'[c].audio = a
        /\ handler'[c].expected = handler[c].expected /\ handler'[c].meeting = handler[c].meeting
  BY <1>1 DEF HandlerType
<1>10. handler' = handler => Kept(c) /\ handler'[c].pc = handler[c].pc
  BY DEF Kept
<1> DEFINE m == Head(toServer[c])
<1>11. \/ /\ handler[c].meeting = 0 /\ Refuse(c, "session_required") /\ UNCHANGED handler
       \/ /\ m.session # c \/ m.seq # handler[c].expected
          /\ \/ /\ Refuse(c, "unexpected_sequence")
                /\ handler' = [handler EXCEPT ![c].violations = @ + 1]
             \/ GiveUp(c, "unexpected_sequence")
       \/ /\ handler[c].meeting # 0 /\ m.session = c /\ m.seq = handler[c].expected
          /\ handler' = [handler EXCEPT ![c].pc = "stt", ![c].audio = m.audio]
          /\ UNCHANGED toClient
  BY DEF HandleAudio
<1>12. UNCHANGED <<transcript, processed>> /\ handler[c].pc = "open"
  BY <1>3 DEF HandleAudio, Takes
<1> HIDE DEF m
<1> QED BY <1>2, <1>3, <1>4, <1>5, <1>6, <1>7, <1>8, <1>9, <1>10, <1>11, <1>12 DEF Refuse, m

LEMMA ProviderFacts ==
  ASSUME TypeInv, NEW c \in Connections, ProviderFails(c)
  PROVE  /\ handler[c].pc = "stt" /\ transcript' = transcript /\ processed' = processed
         /\ handler'[c].pc = "open" /\ Kept(c) /\ toServer'[c] = toServer[c]
         /\ Sent(c, <<ProtocolError("provider_error", FALSE)>>)
<1>1. handler \in [Connections -> HandlerType]
  BY DEF TypeInv, TypeOK
<1>2. \A messages : Reply(c, messages) => Sent(c, messages)
  BY ReplyFacts
<1> QED BY <1>1, <1>2 DEF ProviderFails, Refuse, Goto, Kept, HandlerType

LEMMA DoneFacts ==
  ASSUME TypeInv, NEW c \in Connections, ChunkDone(c)
  PROVE  /\ handler[c].pc = "stt" /\ handler'[c].pc = "open"
         /\ handler'[c].meeting = handler[c].meeting /\ handler[c].meeting # 0
         /\ handler'[c].expected = handler[c].expected + 1
         /\ handler'[c].audio = handler[c].audio /\ handler[c].audio \in 1..MaxAudio
         /\ toServer'[c] = toServer[c]
         /\ processed' = processed \cup {<<c, handler[c].audio>>}
         /\ \E parts \in Parts :
              /\ Sent(c, <<ChunkResult(handler[c].expected, parts)>>)
              /\ ChunkResult(handler[c].expected, parts) \in ServerMessages
              /\ AddRows(c, parts, Len(parts))
<1> DEFINE h == handler[c]
<1>1. handler \in [Connections -> HandlerType] /\ h.pc = "stt"
  BY DEF TypeInv, TypeOK, ChunkDone
<1>2. \A messages : Reply(c, messages) => Sent(c, messages)
  BY ReplyFacts
<1>3. h \in HandlerType /\ h.meeting # 0 /\ h.audio \in 1..MaxAudio /\ h.expected \in 0..MaxAudio
  <2> DEFINE a == h.audio
             e == h.expected
  <2>1. h \in HandlerType /\ h.meeting # 0 /\ a \in 0..MaxAudio /\ e \in 0..MaxAudio /\ e < a
    BY <1>1, ConnectionTypes DEF HandlerBounds
  <2>2. a \in 1..MaxAudio
    <3> HIDE DEF a, e
    <3> QED BY <2>1, ConstantTypes
  <2> QED BY <2>1, <2>2
<1>4. PICK segments \in Transcriptions[h.audio] :
        LET accepted == Accepted(h.previous, segments) IN
        /\ AddRows(c, accepted.parts, Len(accepted.parts))
        /\ handler' = [handler EXCEPT ![c].pc = "open", ![c].expected = @ + 1,
                                      ![c].previous = accepted.previous]
        /\ Reply(c, <<ChunkResult(h.expected, accepted.parts)>>)
  BY DEF ChunkDone
<1> DEFINE parts == Accepted(h.previous, segments).parts
           previous == Accepted(h.previous, segments).previous
<1>5. parts \in Parts
  BY <1>3, AddedParts
<1> HIDE DEF parts, previous
<1>6. handler'[c].pc = "open" /\ handler'[c].meeting = h.meeting /\ handler'[c].audio = h.audio
      /\ handler'[c].expected = h.expected + 1
  BY <1>1, <1>4 DEF HandlerType, parts, previous
<1>7. ChunkResult(h.expected, parts) \in ServerMessages /\ AddRows(c, parts, Len(parts))
      /\ Sent(c, <<ChunkResult(h.expected, parts)>>)
  BY <1>2, <1>3, <1>4, <1>5, MessageTypes DEF parts
<1>8. toServer' = toServer /\ processed' = processed \cup {<<c, h.audio>>}
  BY DEF ChunkDone
<1> QED BY <1>1, <1>3, <1>5, <1>6, <1>7, <1>8

LEMMA BreaksFacts ==
  ASSUME TypeInv, NEW c \in Connections, ChunkBreaks(c)
  PROVE  /\ handler[c].pc = "stt" /\ handler'[c].pc = "closing" /\ Kept(c)
         /\ toServer'[c] = toServer[c] /\ processed' = processed
         /\ Sent(c, <<ProtocolError("internal_error", TRUE), CloseMessage>>)
<1>1. handler \in [Connections -> HandlerType] /\ handler[c].pc = "stt"
      /\ toServer' = toServer /\ processed' = processed /\ GiveUp(c, "internal_error")
  BY DEF TypeInv, TypeOK, ChunkBreaks
<1>2. \A messages : Reply(c, messages) => Sent(c, messages)
  BY ReplyFacts
<1> QED BY <1>1, <1>2 DEF GiveUp, Goto, Kept, HandlerType

LEMMA CloseFacts ==
  ASSUME TypeInv, NEW c \in Connections
  PROVE  /\ HandleClose(c) =>
              /\ Takes(c, "close") /\ transcript' = transcript /\ processed' = processed
              /\ handler'[c].pc = "closing" /\ Kept(c) /\ toClient'[c] = toClient[c]
         /\ Cleanup(c) =>
              /\ handler[c].pc = "closing" /\ transcript' = transcript /\ processed' = processed
              /\ handler'[c] = Returned /\ toServer'[c] = <<>> /\ toClient'[c] = toClient[c]
<1>1. handler \in [Connections -> HandlerType] /\ toServer \in [Connections -> Seq(ClientMessages)]
  BY DEF TypeInv, TypeOK
<1>2. HandleClose(c) =>
        /\ Takes(c, "close") /\ transcript' = transcript /\ processed' = processed
        /\ handler'[c].pc = "closing" /\ Kept(c) /\ toClient'[c] = toClient[c]
  BY <1>1 DEF HandleClose, Receive, Goto, Kept, HandlerType, Takes
<1>3. Cleanup(c) =>
        /\ handler[c].pc = "closing" /\ transcript' = transcript /\ processed' = processed
        /\ handler'[c] = Returned /\ toServer'[c] = <<>> /\ toClient'[c] = toClient[c]
  BY <1>1 DEF Cleanup, Return
<1> QED BY <1>2, <1>3

-----------------------------------------------------------------------------
(* The client's records *)

\* What failing every operation, or the connection, leaves of the client.
LEMMA FailedClient ==
  ASSUME NEW cl \in ClientType
  PROVE  /\ LET f == FailPending(cl) IN
              /\ f \in ClientType /\ f.start = 0 /\ f.chunk = NoChunk /\ f.end = 0
              /\ f.inFlight = FALSE /\ f.writer = cl.writer /\ f.session = cl.session
              /\ f.next = cl.next /\ f.status = cl.status /\ f.tasks = cl.tasks
         /\ LET f == MarkFailed(cl) IN
              /\ f \in ClientType /\ f.writer = 0 /\ f.session = 0 /\ f.next = 0
              /\ f.status = "failed" /\ f.start = cl.start /\ f.chunk = cl.chunk
              /\ f.end = cl.end /\ f.inFlight = cl.inFlight /\ f.tasks = cl.tasks
<1>1. FailPending(cl) \in ClientType /\ MarkFailed(cl) \in ClientType
  BY RecordTypes
<1>2. LET f == FailPending(cl) IN
        /\ f.start = 0 /\ f.chunk = NoChunk /\ f.end = 0 /\ f.inFlight = FALSE
        /\ f.writer = cl.writer /\ f.session = cl.session /\ f.next = cl.next
        /\ f.status = cl.status /\ f.tasks = cl.tasks
  BY DEF ClientType, FailPending
<1>3. LET f == MarkFailed(cl) IN
        /\ f.writer = 0 /\ f.session = 0 /\ f.next = 0 /\ f.status = "failed"
        /\ f.start = cl.start /\ f.chunk = cl.chunk /\ f.end = cl.end
        /\ f.inFlight = cl.inFlight /\ f.tasks = cl.tasks
  BY DEF ClientType, MarkFailed
<1> QED BY <1>1, <1>2, <1>3

LEMMA FailedTwice ==
  ASSUME NEW cl \in ClientType
  PROVE  LET f == MarkFailed(FailPending(cl)) IN
         /\ f \in ClientType /\ f.writer = 0 /\ f.session = 0 /\ f.next = 0
         /\ f.status = "failed" /\ f.start = 0 /\ f.chunk = NoChunk
         /\ f.end = 0 /\ f.inFlight = FALSE /\ f.tasks = cl.tasks
<1> DEFINE p == FailPending(cl)
<1>1. p \in ClientType /\ p.start = 0 /\ p.chunk = NoChunk /\ p.end = 0
      /\ p.inFlight = FALSE /\ p.tasks = cl.tasks
  BY FailedClient
<1> HIDE DEF p
<1>2. LET f == MarkFailed(p) IN
         /\ f \in ClientType /\ f.writer = 0 /\ f.session = 0 /\ f.next = 0
         /\ f.status = "failed" /\ f.start = 0 /\ f.chunk = NoChunk
         /\ f.end = 0 /\ f.inFlight = FALSE /\ f.tasks = cl.tasks
  BY <1>1, FailedClient
<1> QED BY <1>2 DEF p

\* A caller that waits is answered, another operation is left alone.
LEMMA AnswerFacts ==
  ASSUME TypeInv
  PROVE  /\ \A kind : \A v \in {"ok", "failed"} :
              /\ Answer(kind, v).kind = call.kind /\ Answer(kind, v).req = call.req
              /\ Answer(kind, v).seq = call.seq /\ Answer(kind, v).audio = call.audio
              /\ Answer(kind, v).session = call.session
              /\ Answer(kind, v).answer = IF Waiting(kind) THEN v ELSE call.answer
         /\ FailCaller.kind = call.kind /\ FailCaller.req = call.req
         /\ FailCaller.seq = call.seq /\ FailCaller.audio = call.audio
         /\ FailCaller.session = call.session
         /\ FailCaller.answer = IF call.answer = "waiting" /\ call.kind # "connect"
                                THEN "failed" ELSE call.answer
<1>1. \A v : LET op == [call EXCEPT !.answer = v] IN
        /\ op.answer = v /\ op.kind = call.kind /\ op.req = call.req /\ op.seq = call.seq
        /\ op.audio = call.audio /\ op.session = call.session
  BY ClientTypes DEF CallType
<1>2. \A kind : \A v \in {"ok", "failed"} :
        /\ Answer(kind, v).kind = call.kind /\ Answer(kind, v).req = call.req
        /\ Answer(kind, v).seq = call.seq /\ Answer(kind, v).audio = call.audio
        /\ Answer(kind, v).session = call.session
        /\ Answer(kind, v).answer = IF Waiting(kind) THEN v ELSE call.answer
  BY <1>1 DEF Answer
<1>3. FailCaller = IF Waiting("connect") THEN call ELSE Answer(call.kind, "failed")
  BY DEF FailCaller
<1>4. Waiting(call.kind) <=> call.answer = "waiting"
  BY DEF Waiting
<1>5. Waiting("connect") <=> call.kind = "connect" /\ call.answer = "waiting"
  BY DEF Waiting
<1> QED BY <1>2, <1>3, <1>4, <1>5

\* What the client sends is the last thing under way, unless nobody reads it.
LEMMA SendFacts ==
  ASSUME TypeInv, NEW c \in Connections, NEW m, SendTo(c, m)
  PROVE  /\ toServer'[c] = IF handler[c].pc = "closed" THEN toServer[c] ELSE Append(toServer[c], m)
         /\ \A d \in Connections \ {c} : toServer'[d] = toServer[d]
BY DEF TypeInv, TypeOK, SendTo

\* No operation.
LEMMA NoCallFacts ==
  /\ NoCall.kind = "none" /\ NoCall.answer = "none" /\ NoCall.req = 0
  /\ \A kind, req : LET op == [NoCall EXCEPT !.kind = kind, !.answer = "waiting", !.req = req] IN
       op.kind = kind /\ op.answer = "waiting" /\ op.req = req /\ op.session = 0
  /\ LET op == [NoCall EXCEPT !.kind = "connect", !.answer = "waiting"] IN
       op.kind = "connect" /\ op.answer = "waiting"
  /\ \A seq, audio :
       LET op == [NoCall EXCEPT !.kind = "chunk", !.answer = "waiting", !.seq = seq, !.audio = audio]
       IN op.kind = "chunk" /\ op.answer = "waiting" /\ op.seq = seq /\ op.audio = audio
  /\ \A req, session :
       LET op == [NoCall EXCEPT !.kind = "end", !.answer = "waiting", !.req = req, !.session = session]
       IN op.kind = "end" /\ op.answer = "waiting" /\ op.req = req /\ op.session = session
BY DEF NoCall

-----------------------------------------------------------------------------
(* The window *)

LEMMA DispatchFrame ==
  ASSUME TypeInv, NEW c \in Connections, Dispatch(c)
  PROVE  /\ UNCHANGED <<backend, handler, toServer, mstatus, transcript, processed, acked,
                        confirmed, ui, flow, unread, opened, requests, captured, restarts>>
         /\ c \in readers /\ toClient[c] # <<>>
         /\ readers' = readers \/ readers' = readers \ {c}
         /\ toClient'[c] = IF c \in readers' THEN Tail(toClient[c]) ELSE <<>>
         /\ \A d \in Connections \ {c} : toClient'[d] = toClient[d]
         /\ call'.kind = call.kind /\ call'.req = call.req /\ call'.seq = call.seq
         /\ call'.audio = call.audio
<1>1. toClient \in [Connections -> Seq(ServerMessages)] /\ call \in CallType
  BY DEF TypeInv, TypeOK
<1>2. \/ DispatchStarted(c) \/ DispatchResult(c) \/ DispatchStopped(c)
      \/ DispatchError(c) \/ DispatchClose(c)
  BY DEF Dispatch
<1>3. UNCHANGED <<backend, handler, toServer, mstatus, transcript, processed, acked,
                  confirmed, ui, flow, unread, opened, requests, captured, restarts>>
      /\ toClient' = [toClient EXCEPT ![c] = IF c \in readers' THEN Tail(@) ELSE <<>>]
  BY DEF Dispatch, uiVars
<1>4. c \in readers /\ toClient[c] # <<>> /\ (readers' = readers \/ readers' = readers \ {c})
  BY <1>2 DEF DispatchStarted, DispatchResult, DispatchStopped, DispatchError, DispatchClose, Arrived
<1>5. call'.kind = call.kind /\ call'.req = call.req /\ call'.seq = call.seq
      /\ call'.audio = call.audio
  <2>1. CASE DispatchStarted(c)
    BY <1>1, <2>1 DEF DispatchStarted, CallType
  <2>2. CASE ~DispatchStarted(c)
    BY <1>2, <2>2, AnswerFacts DEF DispatchResult, DispatchStopped, DispatchError, DispatchClose
  <2> QED BY <2>1, <2>2
<1> QED BY <1>1, <1>3, <1>4, <1>5

LEMMA WindowStep ==
  ASSUME TypeInv, WindowInv, [Next]_vars
  PROVE  WindowInv'
<1> USE DEF serverVars, clientVars, uiVars, WindowInv
<1>0. ui \in {"disconnected", "connected", "session_active", "failed"}
      /\ (call.kind = "connect" => flow = "connect")
  BY DEF TypeInv, TypeOK, ClientBounds
<1>1. CASE PressStart
  BY <1>0, <1>1 DEF PressStart
<1>2. CASE Connect
  BY <1>0, <1>2, NoCallFacts DEF Connect
<1>3. CASE ConnectDone
  BY <1>0, <1>3, NoCallFacts DEF ConnectDone, Waiting
<1>4. CASE ConnectFails
  BY <1>0, <1>4, NoCallFacts DEF ConnectFails
<1>5. CASE CreateMeeting
  BY <1>0, <1>5 DEF CreateMeeting
<1>6. CASE StartMeeting
  BY <1>0, <1>6 DEF StartMeeting
<1>7. CASE StartSession
  <2>1. /\ flow = "session" /\ UNCHANGED <<ui, unread>>
        /\ \/ call' = call /\ call = NoCall /\ flow' = "idle"
           \/ /\ flow' = flow
              /\ call' = [NoCall EXCEPT !.kind = "start", !.answer = "waiting", !.req = requests]
    BY <1>7 DEF StartSession
  <2>2. CASE call' = call /\ call = NoCall /\ flow' = "idle"
    BY <2>1, <2>2, NoCallFacts
  <2>3. CASE flow' = flow /\ call' = [NoCall EXCEPT !.kind = "start", !.answer = "waiting", !.req = requests]
    <3>1. call'.kind = "start"
      BY <2>3, NoCallFacts
    <3> QED BY <2>1, <2>3, <3>1
  <2> QED BY <2>1, <2>2, <2>3
<1>8. CASE StartReturns
  BY <1>0, <1>8, NoCallFacts DEF StartReturns
<1>9. CASE SubmitChunk
  <2>1. call'.kind = "chunk" /\ UNCHANGED <<flow, ui, unread>>
    BY <1>9, NoCallFacts DEF SubmitChunk
  <2> QED BY <2>1
<1>10. CASE ChunkReturns \/ ChunkTimesOut \/ ChunkDropped
  BY <1>0, <1>10, NoCallFacts DEF ChunkReturns, ChunkTimesOut, ChunkDropped
<1>11. CASE PressEnd
  BY <1>0, <1>11, NoCallFacts DEF PressEnd
<1>12. CASE EndSession
  <2>1. /\ flow = "end" /\ UNCHANGED <<ui, unread>>
        /\ \/ call' = call /\ call = NoCall /\ flow' = "idle"
           \/ /\ flow' = flow
              /\ call' = [NoCall EXCEPT !.kind = "end", !.answer = "waiting",
                                        !.req = requests + 1, !.session = client.session]
    BY <1>12 DEF EndSession
  <2>2. CASE call' = call /\ call = NoCall /\ flow' = "idle"
    BY <2>1, <2>2, NoCallFacts
  <2>3. CASE /\ flow' = flow
             /\ call' = [NoCall EXCEPT !.kind = "end", !.answer = "waiting",
                                       !.req = requests + 1, !.session = client.session]
    <3>1. call'.kind = "end"
      BY <2>3, NoCallFacts
    <3> QED BY <2>1, <2>3, <3>1
  <2> QED BY <2>1, <2>2, <2>3
<1>13. CASE EndReturns
  BY <1>0, <1>13, NoCallFacts DEF EndReturns
<1>14. CASE Disconnect
  BY <1>0, <1>14, NoCallFacts DEF Disconnect
<1>15. CASE ReadStatus
  <2>1. flow = "idle" /\ flow' = "idle" /\ unread' = FALSE /\ call' = call
    BY <1>15 DEF ReadStatus
  <2> QED BY <2>1
<1>16. ASSUME NEW c \in Connections, Handled(c) PROVE WindowInv'
  BY <1>16, HandledFrame
<1>17. ASSUME NEW c \in Connections, Dispatch(c) PROVE WindowInv'
  BY <1>17, DispatchFrame
<1>18. CASE EndMeeting /\ UNCHANGED <<clientVars, uiVars>>
  BY <1>18
<1>19. CASE BackendDown \/ BackendReady
  BY <1>19 DEF BackendDown, BackendReady
<1>20. CASE UNCHANGED vars
  BY <1>20 DEF vars
<1> QED BY <1>1, <1>2, <1>3, <1>4, <1>5, <1>6, <1>7, <1>8, <1>9, <1>10, <1>11, <1>12, <1>13,
           <1>14, <1>15, <1>16, <1>17, <1>18, <1>19, <1>20 DEF Next, ClientStep

-----------------------------------------------------------------------------
(* The connection in use *)

\* The fields a step of the client sets, and those it keeps.
LEMMA ClientFields ==
  ASSUME NEW cl \in ClientType
  PROVE  /\ \A v : LET f == [cl EXCEPT !.status = v] IN
              /\ f.status = v /\ f.writer = cl.writer /\ f.session = cl.session
              /\ f.tasks = cl.tasks /\ f.next = cl.next /\ f.chunk = cl.chunk
              /\ f.inFlight = cl.inFlight /\ f.start = cl.start /\ f.end = cl.end
         /\ \A v, d, t : LET f == [cl EXCEPT !.status = v, !.writer = d, !.tasks = t] IN
              /\ f.status = v /\ f.writer = d /\ f.tasks = t /\ f.session = cl.session
              /\ f.next = cl.next /\ f.chunk = cl.chunk
              /\ f.inFlight = cl.inFlight /\ f.start = cl.start /\ f.end = cl.end
         /\ \A v, s, n, b :
              LET f == [cl EXCEPT !.status = v, !.session = s, !.next = n, !.inFlight = b] IN
              /\ f.status = v /\ f.session = s /\ f.next = n /\ f.inFlight = b
              /\ f.writer = cl.writer /\ f.tasks = cl.tasks /\ f.chunk = cl.chunk
              /\ f.start = cl.start /\ f.end = cl.end
         /\ \A n, b : LET f == [cl EXCEPT !.next = n, !.inFlight = b] IN
              /\ f.next = n /\ f.inFlight = b /\ f.status = cl.status /\ f.session = cl.session
              /\ f.writer = cl.writer /\ f.tasks = cl.tasks /\ f.chunk = cl.chunk
              /\ f.start = cl.start /\ f.end = cl.end
         /\ \A k, b : LET f == [cl EXCEPT !.chunk = k, !.inFlight = b] IN
              /\ f.chunk = k /\ f.inFlight = b /\ f.status = cl.status /\ f.session = cl.session
              /\ f.writer = cl.writer /\ f.tasks = cl.tasks /\ f.next = cl.next
              /\ f.start = cl.start /\ f.end = cl.end
         /\ \A s, n, v : LET f == [cl EXCEPT !.session = s, !.next = n, !.status = v] IN
              /\ f.status = v /\ f.session = s /\ f.next = n
              /\ f.writer = cl.writer /\ f.tasks = cl.tasks /\ f.chunk = cl.chunk
              /\ f.inFlight = cl.inFlight /\ f.start = cl.start /\ f.end = cl.end
         /\ \A r : LET f == [cl EXCEPT !.start = r] IN
              /\ f.start = r /\ f.status = cl.status /\ f.session = cl.session
              /\ f.writer = cl.writer /\ f.tasks = cl.tasks /\ f.next = cl.next
              /\ f.chunk = cl.chunk /\ f.inFlight = cl.inFlight /\ f.end = cl.end
         /\ \A r : LET f == [cl EXCEPT !.end = r] IN
              /\ f.end = r /\ f.status = cl.status /\ f.session = cl.session
              /\ f.writer = cl.writer /\ f.tasks = cl.tasks /\ f.next = cl.next
              /\ f.chunk = cl.chunk /\ f.inFlight = cl.inFlight /\ f.start = cl.start
         /\ \A k : LET f == [cl EXCEPT !.chunk = k] IN
              /\ f.chunk = k /\ f.status = cl.status /\ f.session = cl.session
              /\ f.writer = cl.writer /\ f.tasks = cl.tasks /\ f.next = cl.next
              /\ f.inFlight = cl.inFlight /\ f.start = cl.start /\ f.end = cl.end
BY DEF ClientType

\* A submission that returns leaves the connection and the session alone.
LEMMA ReturnsFacts ==
  ASSUME TypeInv, ChunkReturns
  PROVE  /\ client'.status = client.status /\ client'.writer = client.writer
         /\ client'.session = client.session /\ client'.tasks = client.tasks
         /\ client'.start = client.start /\ client'.end = client.end
         /\ call.answer = "failed" => client'.next = client.next
<1> DEFINE k == IF client.chunk = call.seq THEN NoChunk ELSE client.chunk
           b == client.inFlight /\ ~(client.session # 0 /\ client.next = call.seq)
           n == client.next + 1
<1>1. client \in ClientType /\ call.answer \in {"ok", "failed"}
  BY DEF TypeInv, TypeOK, ChunkReturns
<1>2. CASE call.answer = "failed"
  <2>1. client' = [client EXCEPT !.chunk = k, !.inFlight = b]
    BY <1>2 DEF ChunkReturns
  <2> HIDE DEF k, b
  <2> QED BY <1>1, <2>1, ClientFields
<1>3. CASE call.answer = "ok"
  <2>1. client' = client \/ client' = [client EXCEPT !.next = n, !.inFlight = FALSE]
    BY <1>3 DEF ChunkReturns
  <2> HIDE DEF n
  <2>2. CASE client' = client
    BY <1>3, <2>2
  <2>3. CASE client' = [client EXCEPT !.next = n, !.inFlight = FALSE]
    BY <1>1, <1>3, <2>3, ClientFields
  <2> QED BY <2>1, <2>2, <2>3
<1> QED BY <1>1, <1>2, <1>3

\* LinkInv as the facts its proof uses.
LEMMA LinkFacts ==
  ASSUME TypeInv, WindowInv, LinkInv
  PROVE  /\ client \in ClientType /\ opened \in Nat /\ opened <= MaxConnections
         /\ \A c \in Connections : c \in Nat /\ c > 0 /\ c <= MaxConnections
         /\ opened # 0 => opened \in Connections
         /\ client.writer # 0 => client.writer = opened /\ opened \in Connections
         /\ client.tasks # 0 => client.tasks \in Connections
         /\ readers \subseteq {opened} /\ readers \subseteq Connections
         /\ call.kind = "connect" => /\ readers = {} /\ flow = "connect" /\ opened \in Connections
                                     /\ client.status = "connecting" /\ client.session = 0
                                     /\ client.writer = 0 /\ ~unread
         /\ flow = "connect" => client.writer = 0 /\ ~unread
<1>1. /\ client \in ClientType /\ opened \in Nat /\ opened <= MaxConnections
      /\ \A c \in Connections : c \in Nat /\ c > 0 /\ c <= MaxConnections
      /\ (opened # 0 => opened \in Connections) /\ readers \subseteq Connections
      /\ client.tasks \in 0..MaxConnections
  BY DEF TypeInv, TypeOK, ConstantsAssumption, Connections, ClientType
<1>2. (call.kind = "connect" => flow = "connect" /\ opened # 0)
  BY DEF TypeInv, ClientBounds
<1>3. client.writer # 0 => client.writer = opened /\ opened \in readers
  BY DEF LinkInv
<1>4. readers \subseteq {opened}
  BY DEF LinkInv
<1>5. flow = "connect" => client.writer = 0 /\ ~unread
  <2>1. flow = "connect" => client.status \notin {"connected", "session_active"}
    BY DEF WindowInv, LinkInv
  <2> QED BY <2>1 DEF WindowInv, LinkInv
<1>6. call.kind = "connect" => client.status = "connecting" /\ readers = {}
  BY DEF LinkInv
<1>7. client.status = "connecting" => client.session = 0
  BY DEF LinkInv
<1>8. client.tasks # 0 => client.tasks \in Connections
  <2> DEFINE t == client.tasks
  <2>1. t \in 0..MaxConnections
    BY <1>1
  <2> HIDE DEF t
  <2>2. t # 0 => t \in 1..MaxConnections
    BY <2>1, ConstantTypes
  <2> QED BY <2>2 DEF t, Connections
<1>9. call.kind = "connect" => /\ readers = {} /\ flow = "connect" /\ opened \in Connections
                               /\ client.status = "connecting" /\ client.session = 0
                               /\ client.writer = 0 /\ ~unread
  BY <1>1, <1>2, <1>5, <1>6, <1>7
<1>10. client.writer # 0 => client.writer = opened /\ opened \in Connections
  BY <1>1, <1>3
<1> QED BY <1>1, <1>4, <1>5, <1>8, <1>9, <1>10

LEMMA LinkStep ==
  ASSUME TypeInv, WindowInv, LinkInv, AnswerInv, [Next]_vars, TypeInv', WindowInv',
         OneDispatcher'
  PROVE  LinkInv'
<1> USE DEF serverVars, clientVars, uiVars
<1>0. /\ client \in ClientType /\ handler \in [Connections -> HandlerType]
      /\ toServer \in [Connections -> Seq(ClientMessages)]
      /\ toClient \in [Connections -> Seq(ServerMessages)]
  BY DEF TypeInv, TypeOK
<1>1. CASE PressStart \/ StartMeeting \/ CreateMeeting \/ PressEnd
  BY <1>1 DEF PressStart, StartMeeting, CreateMeeting, PressEnd, LinkInv, Unborn, Read
<1>2. CASE Connect
  <2>1. CASE UNCHANGED <<client, call, opened, handler>>
    BY <1>2, <2>1 DEF Connect, LinkInv, Unborn, Read
  <2>2. CASE client' = MarkFailed(FailPending(client)) /\ UNCHANGED <<call, opened, handler>>
    <3>1. client'.writer = 0 /\ client'.session = 0 /\ client'.tasks = client.tasks
          /\ client'.status = "failed"
      BY <1>0, <2>2, FailedTwice
    <3>2. call.kind = "none"
      BY <1>2, NoCallFacts DEF Connect
    <3> QED BY <1>2, <2>2, <3>1, <3>2 DEF Connect, LinkInv, Unborn, Read
  <2>3. CASE /\ client' = [client EXCEPT !.status = "connecting"]
             /\ call' = [NoCall EXCEPT !.kind = "connect", !.answer = "waiting"]
             /\ opened' = opened + 1
             /\ handler' = [handler EXCEPT ![opened + 1].pc = "hello"]
    <3>1. client.status \in {"disconnected", "failed"} /\ flow = "connect"
          /\ UNCHANGED <<readers, toClient, toServer, ui, unread>>
      BY <1>2, <2>3, <1>0, NoCallFacts DEF Connect
    <3>2. client'.status = "connecting" /\ client'.writer = 0 /\ client'.session = 0
          /\ client'.tasks = client.tasks /\ call'.kind = "connect" /\ readers = {}
      <4>1. client'.status = "connecting" /\ client'.writer = 0 /\ client'.session = 0
            /\ client'.tasks = client.tasks /\ call'.kind = "connect"
        BY <1>0, <2>3, <3>1, LinkFacts, ClientFields, NoCallFacts DEF LinkInv
      <4>2. readers \subseteq {opened + 1} /\ readers \subseteq {opened}
        BY <2>3, <3>1, LinkFacts DEF OneDispatcher
      <4>3. opened + 1 # opened
        BY LinkFacts
      <4> QED BY <4>1, <4>2, <4>3
    <3>3. \A c \in Connections : toClient[c] = <<>>
      BY <1>2, <3>2, NoCallFacts DEF LinkInv, Read, Connect
    <3>4. Unborn'
      <4> SUFFICES ASSUME NEW c \in Connections, c > opened + 1
                   PROVE  handler'[c] = NoHandler /\ toServer[c] = <<>>
        BY <2>3, <3>1 DEF Unborn
      <4>1. c > opened /\ c # opened + 1
        BY LinkFacts
      <4>2. handler'[c] = handler[c]
        BY <2>3, <1>0, <4>1
      <4> QED BY <4>1, <4>2 DEF LinkInv, Unborn
    <3>5. client.tasks <= opened + 1
      BY LinkFacts, <1>0 DEF LinkInv, ClientType, ConstantsAssumption
    <3> QED BY <2>3, <3>1, <3>2, <3>3, <3>4, <3>5, LinkFacts DEF LinkInv, Read
  <2> QED BY <1>2, <2>1, <2>2, <2>3 DEF Connect
<1>3. CASE ConnectDone
  <2>1. call.kind = "connect" /\ UNCHANGED <<handler, toServer, opened, unread>>
        /\ toClient' = [toClient EXCEPT ![opened] = Tail(@)] /\ readers' = readers \cup {opened}
        /\ ui' = "connected" /\ call' = NoCall
    BY <1>3 DEF ConnectDone, Waiting
  <2>2. readers' = {opened} /\ ~unread /\ client.session = 0 /\ opened \in Connections
    BY <2>1, LinkFacts
  <2>3. client'.status = "connected" /\ client'.writer = opened /\ client'.tasks = opened
        /\ client'.session = client.session
    BY <1>0, <1>3, ClientFields DEF ConnectDone
  <2>4. \A c \in Connections \ {opened} : toClient'[c] = toClient[c]
    BY <1>0, <2>1
  <2> QED BY <2>1, <2>2, <2>3, <2>4, NoCallFacts, LinkFacts DEF LinkInv, Unborn, Read
<1>4. CASE ConnectFails
  <2>1. call.kind = "connect" /\ UNCHANGED <<handler, opened, unread, ui, readers>>
        /\ toClient' = [toClient EXCEPT ![opened] = <<>>] /\ call' = NoCall
        /\ client' = MarkFailed(FailPending(client)) /\ SendTo(opened, CloseMessage)
    BY <1>4 DEF ConnectFails, Waiting
  <2>2. readers = {} /\ opened \in Connections
    BY <2>1, LinkFacts
  <2>3. client'.status = "failed" /\ client'.writer = 0 /\ client'.session = 0
        /\ client'.tasks = client.tasks
    BY <1>0, <2>1, FailedTwice
  <2>4. \A c \in Connections \ {opened} : toClient'[c] = toClient[c] /\ toServer'[c] = toServer[c]
    BY <1>0, <2>1, <2>2, SendFacts
  <2>5. \A c \in Connections : toClient'[c] = <<>>
    BY <1>0, <2>1, <2>2, <2>4 DEF LinkInv, Read
  <2> QED BY <2>1, <2>2, <2>3, <2>4, <2>5, NoCallFacts, LinkFacts DEF LinkInv, Unborn
<1>7. CASE StartSession
  <2>1. UNCHANGED <<handler, toClient, readers, opened, unread, ui>> /\ flow # "leave"
        /\ \/ UNCHANGED <<client, call, toServer>>
           \/ /\ client' = [client EXCEPT !.start = requests] /\ client.writer # 0
              /\ call' = [NoCall EXCEPT !.kind = "start", !.answer = "waiting", !.req = requests]
              /\ SendTo(client.writer, StartMessage(requests))
    BY <1>7 DEF StartSession
  <2>2. CASE UNCHANGED <<client, call, toServer>>
    BY <2>1, <2>2 DEF LinkInv, Unborn, Read
  <2>3. CASE /\ client' = [client EXCEPT !.start = requests] /\ client.writer # 0
             /\ call' = [NoCall EXCEPT !.kind = "start", !.answer = "waiting", !.req = requests]
             /\ SendTo(client.writer, StartMessage(requests))
    <3>1. client'.status = client.status /\ client'.writer = client.writer
          /\ client'.session = client.session /\ client'.tasks = client.tasks
          /\ call'.kind = "start" /\ call'.answer = "waiting" /\ call.kind = "none"
      BY <1>0, <1>7, <2>3, ClientFields, NoCallFacts DEF StartSession
    <3>2. \A c \in Connections \ {opened} : toServer'[c] = toServer[c]
      BY <2>3, SendFacts, LinkFacts
    <3> QED BY <2>1, <3>1, <3>2, LinkFacts DEF LinkInv, Unborn, Read
  <2> QED BY <2>1, <2>2, <2>3
<1>8. CASE StartReturns
  <2>1. call.kind = "start" /\ UNCHANGED <<handler, toClient, toServer, readers, opened, unread>>
        /\ call' = NoCall
        /\ \/ /\ call.answer = "ok" /\ ui' = "session_active"
              /\ client' = [client EXCEPT !.status = "session_active",
                                    !.session = call.session, !.next = 0, !.inFlight = FALSE]
           \/ /\ ui' = ui
              /\ client' = [client EXCEPT !.start = IF @ = call.req THEN 0 ELSE @]
    BY <1>8 DEF StartReturns
  <2>2. ~unread /\ flow # "leave"
    BY <2>1 DEF WindowInv
  <2>3. /\ client'.writer = client.writer /\ client'.tasks = client.tasks
        /\ \/ call.answer = "ok" /\ ui' = "session_active"
              /\ client'.status = "session_active" /\ client'.session = call.session
           \/ ui' = ui /\ client'.status = client.status /\ client'.session = client.session
    <3>1. CASE client' = [client EXCEPT !.start = IF @ = call.req THEN 0 ELSE @] /\ ui' = ui
      <4>1. \E r : client' = [client EXCEPT !.start = r]
        BY <3>1
      <4> QED BY <1>0, <3>1, <4>1, ClientFields
    <3>2. CASE /\ call.answer = "ok" /\ ui' = "session_active"
               /\ client' = [client EXCEPT !.status = "session_active",
                                    !.session = call.session, !.next = 0, !.inFlight = FALSE]
      BY <1>0, <3>2, ClientFields
    <3> QED BY <2>1, <3>1, <3>2
  <2> QED BY <2>1, <2>2, <2>3, NoCallFacts, LinkFacts DEF LinkInv, Unborn, Read
<1>9. CASE SubmitChunk
  <2>1. UNCHANGED <<handler, toClient, readers, opened, unread, ui, flow>>
        /\ client' = [client EXCEPT !.chunk = client.next, !.inFlight = TRUE] /\ client.writer # 0
        /\ call' = [NoCall EXCEPT !.kind = "chunk", !.answer = "waiting",
                            !.seq = client.next, !.audio = captured + 1]
        /\ SendTo(client.writer, AudioMessage(client.session, client.next, captured + 1))
        /\ call = NoCall
    BY <1>9 DEF SubmitChunk
  <2>2. client'.status = client.status /\ client'.writer = client.writer
        /\ client'.session = client.session /\ client'.tasks = client.tasks
        /\ call'.kind = "chunk" /\ call.kind = "none"
    BY <1>0, <2>1, ClientFields, NoCallFacts
  <2>3. \A c \in Connections \ {opened} : toServer'[c] = toServer[c]
    BY <2>1, SendFacts, LinkFacts
  <2> QED BY <2>1, <2>2, <2>3, LinkFacts DEF LinkInv, Unborn, Read
<1>10. CASE ChunkReturns \/ ChunkTimesOut \/ ChunkDropped
  <2>1. UNCHANGED <<handler, toClient, toServer, readers, opened, unread, ui, flow>>
        /\ call' = NoCall /\ call.kind = "chunk"
    BY <1>10 DEF ChunkReturns, ChunkTimesOut, ChunkDropped, Waiting
  <2>2. \/ client'.status = client.status /\ client'.writer = client.writer
           /\ client'.session = client.session /\ client'.tasks = client.tasks
        \/ client'.status = "failed" /\ client'.writer = 0 /\ client'.session = 0
           /\ client'.tasks = client.tasks
    <3>1. CASE ChunkReturns
      BY <3>1, ReturnsFacts
    <3>2. CASE ChunkTimesOut
      <4>1. client' = MarkFailed(FailPending(client))
        BY <3>2 DEF ChunkTimesOut
      <4> QED BY <1>0, <4>1, FailedTwice
    <3> QED BY <1>10, <3>1, <3>2 DEF ChunkDropped
  <2> QED BY <2>1, <2>2, NoCallFacts, LinkFacts DEF LinkInv, Unborn, Read
<1>12. CASE EndSession
  <2>1. UNCHANGED <<handler, toClient, readers, opened, unread, ui>> /\ call = NoCall
        /\ flow # "leave"
        /\ \/ UNCHANGED <<client, call, toServer>>
           \/ /\ client' = [client EXCEPT !.end = requests + 1] /\ client.writer # 0
              /\ call' = [NoCall EXCEPT !.kind = "end", !.answer = "waiting",
                                  !.req = requests + 1, !.session = client.session]
              /\ \E m \in {EndMessage(requests + 1, client.session,
                             IF client.next > 0 THEN client.next - 1 ELSE 0)} :
                   SendTo(client.writer, m)
    BY <1>12 DEF EndSession
  <2>2. CASE UNCHANGED <<client, call, toServer>>
    BY <2>1, <2>2 DEF LinkInv, Unborn, Read
  <2>3. CASE /\ client' = [client EXCEPT !.end = requests + 1] /\ client.writer # 0
             /\ call' = [NoCall EXCEPT !.kind = "end", !.answer = "waiting",
                                  !.req = requests + 1, !.session = client.session]
             /\ \E m : SendTo(client.writer, m)
    <3>1. client'.status = client.status /\ client'.writer = client.writer
          /\ client'.session = client.session /\ client'.tasks = client.tasks
          /\ call'.kind = "end" /\ call.kind = "none"
      BY <1>0, <2>1, <2>3, ClientFields, NoCallFacts
    <3>2. \A c \in Connections \ {opened} : toServer'[c] = toServer[c]
      BY <2>3, SendFacts, LinkFacts
    <3> QED BY <2>1, <3>1, <3>2, LinkFacts DEF LinkInv, Unborn, Read
  <2> QED BY <2>1, <2>2, <2>3
<1>13. CASE EndReturns
  <2>1. UNCHANGED <<handler, toClient, toServer, readers, opened, unread, ui>>
        /\ call' = NoCall /\ call.kind = "end"
    BY <1>13 DEF EndReturns
  <2>2. ui = "session_active" /\ flow # "leave"
    BY <2>1 DEF WindowInv
  <2>3. /\ client'.writer = client.writer /\ client'.tasks = client.tasks
        /\ \/ client'.status = "connected" /\ client'.session = 0 /\ flow' = "leave"
           \/ client'.status = client.status /\ client'.session = client.session
    <3>1. \/ /\ client' = [client EXCEPT !.session = 0, !.next = 0, !.status = "connected"]
             /\ flow' = "leave"
          \/ \E r : client' = [client EXCEPT !.end = r]
      BY <1>13 DEF EndReturns
    <3>2. CASE /\ client' = [client EXCEPT !.session = 0, !.next = 0, !.status = "connected"]
               /\ flow' = "leave"
      BY <1>0, <3>2, ClientFields
    <3>3. CASE \E r : client' = [client EXCEPT !.end = r]
      BY <1>0, <3>3, ClientFields
    <3> QED BY <3>1, <3>2, <3>3
  <2> QED BY <2>1, <2>2, <2>3, NoCallFacts, LinkFacts DEF LinkInv, Unborn, Read
<1>14. CASE Disconnect
  <2>1. UNCHANGED <<handler, opened, unread, call>> /\ client' = NoClient
        /\ readers' = readers \ {client.tasks} /\ call = NoCall
        /\ toClient' = [c \in Connections |-> IF c = client.tasks THEN <<>> ELSE toClient[c]]
        /\ \/ SendTo(client.tasks, CloseMessage) /\ client.tasks # 0
           \/ UNCHANGED toServer
    BY <1>14 DEF Disconnect
  <2>2. readers' = {}
    BY <2>1 DEF LinkInv
  <2>3. \A c \in Connections : toClient'[c] = <<>>
    BY <2>1, NoCallFacts DEF LinkInv, Read
  <2>4. client'.status = "disconnected" /\ client'.writer = 0 /\ client'.session = 0 /\ client'.tasks = 0
    BY <2>1 DEF NoClient
  <2>5. Unborn'
    <3> SUFFICES ASSUME NEW c \in Connections, c > opened PROVE toServer'[c] = toServer[c]
      BY <2>1 DEF Unborn, LinkInv
    <3>1. client.tasks # 0 => c # client.tasks /\ client.tasks \in Connections
      BY LinkFacts, <1>0 DEF LinkInv
    <3> QED BY <2>1, <3>1, SendFacts
  <2> QED BY <2>1, <2>2, <2>3, <2>4, <2>5, NoCallFacts, LinkFacts DEF LinkInv
<1>15. CASE ReadStatus
  <2>1. /\ UNCHANGED <<handler, toServer, toClient, client, readers, call, opened>>
        /\ ui' = client.status /\ ~unread' /\ flow' = flow
    BY <1>15 DEF ReadStatus
  <2> QED BY <2>1 DEF LinkInv, Unborn, Read
<1>16. ASSUME NEW c \in Connections, Handled(c) PROVE LinkInv'
  <2>1. c <= opened
    BY <1>16, HandledFrame, LinkFacts DEF LinkInv, Unborn, NoHandler
  <2>2. Unborn'
    BY <1>16, HandledFrame, <2>1, LinkFacts DEF LinkInv, Unborn
  <2>3. \A d \in Connections : toClient'[d] # <<>> => Read(d)
    <3>1. toClient'[c] # <<>> => Read(c)
      <4>1. CASE Read(c)
        BY <4>1
      <4>2. CASE ~Read(c)
        <5>1. toClient' = toClient
          BY <1>16, <4>2 DEF Handled, HandlerStep, Hello, HandleStart, HandleEnd, Ended, HandleAudio,
               ProviderFails, ChunkDone, ChunkBreaks, HandleClose, Cleanup, Reply, Refuse, GiveUp
        <5> QED BY <5>1 DEF LinkInv
      <4> QED BY <4>1, <4>2
    <3> QED BY <3>1, <1>16, HandledFrame DEF LinkInv
  <2> QED BY <1>16, <2>2, <2>3, HandledFrame DEF LinkInv, Read
<1>17. ASSUME NEW c \in Connections, Dispatch(c) PROVE LinkInv'
  <2>1. c = opened /\ c = client.tasks /\ call.kind # "connect"
    BY <1>17, DispatchFrame, LinkFacts DEF LinkInv
  <2>2. /\ client'.tasks = client.tasks
        /\ \/ client'.status = client.status /\ client'.writer = client.writer
              /\ client'.session = client.session /\ readers' = readers
           \/ client'.status = "failed" /\ client'.writer = 0 /\ client'.session = 0
    <3>1. \/ client' = MarkFailed(FailPending(client))
          \/ /\ readers' = readers
             /\ \/ client' = client \/ client' = FailPending(client)
                \/ \E r : client' = [client EXCEPT !.start = r]
                \/ \E k : client' = [client EXCEPT !.chunk = k]
                \/ \E r : client' = [client EXCEPT !.end = r]
      BY <1>17 DEF Dispatch, DispatchStarted, DispatchResult, DispatchStopped, DispatchError,
         DispatchClose
    <3>2. CASE client' = MarkFailed(FailPending(client))
      BY <1>0, <3>2, FailedTwice
    <3>3. CASE client' = FailPending(client) /\ readers' = readers
      BY <1>0, <3>3, FailedClient
    <3>4. CASE readers' = readers /\ \E r : client' = [client EXCEPT !.start = r]
      BY <1>0, <3>4, ClientFields
    <3>5. CASE readers' = readers /\ \E k : client' = [client EXCEPT !.chunk = k]
      BY <1>0, <3>5, ClientFields
    <3>6. CASE readers' = readers /\ \E r : client' = [client EXCEPT !.end = r]
      BY <1>0, <3>6, ClientFields
    <3> QED BY <3>1, <3>2, <3>3, <3>4, <3>5, <3>6
  <2>3. call'.kind = "start" /\ call'.answer = "ok" => call'.session = opened
    <3>1. CASE DispatchStarted(c)
      <4>1. Head(toClient[c]) \in ToSet(toClient[c]) /\ Head(toClient[c]).t = "started"
        BY <1>0, <3>1, Elements DEF DispatchStarted, Arrived
      <4>2. Head(toClient[c]).session = c
        BY <4>1 DEF AnswerInv, AnswersOf
      <4>3. call' = [call EXCEPT !.answer = "ok", !.session = c] \/ call' = call
        BY <3>1, <4>2 DEF DispatchStarted
      <4> QED BY <2>1, <4>3, ClientTypes DEF LinkInv, CallType
    <3>2. CASE ~DispatchStarted(c)
      <4>1. call' = call \/ call' = FailCaller \/ call' = Answer("chunk", "ok") \/ call' = Answer("end", "ok")
        BY <1>17, <3>2 DEF Dispatch, DispatchResult, DispatchStopped, DispatchError, DispatchClose
      <4> QED BY <4>1, AnswerFacts DEF LinkInv, Waiting
    <3> QED BY <3>1, <3>2
  <2>4. \A d \in Connections : toClient'[d] # <<>> => d \in readers'
    BY <1>17, <2>1, DispatchFrame, LinkFacts DEF LinkInv, Read
  <2> QED BY <1>17, <2>1, <2>2, <2>3, <2>4, DispatchFrame, LinkFacts DEF LinkInv, Unborn, Read
<1>18. CASE EndMeeting /\ UNCHANGED <<clientVars, uiVars>>
  BY <1>18 DEF EndMeeting, LinkInv, Unborn, Read
<1>19. CASE BackendDown
  <2>1. /\ handler' = [c \in Connections |-> IF c <= opened THEN Returned ELSE NoHandler]
        /\ toServer' = [c \in Connections |-> <<>>]
        /\ toClient' = [c \in Connections |->
             IF handler[c].pc \in {"none", "closed"} \/ ~Read(c) THEN toClient[c]
             ELSE Append(toClient[c], CloseMessage)]
        /\ UNCHANGED <<client, readers, call, opened, unread, ui, flow>>
    BY <1>19 DEF BackendDown
  <2>2. \A c \in Connections : toClient'[c] # <<>> => Read(c)
    BY <2>1 DEF LinkInv
  <2>3. Unborn'
    BY <2>1, LinkFacts DEF Unborn
  <2> QED BY <2>1, <2>2, <2>3 DEF LinkInv, Read
<1>20. CASE BackendReady
  BY <1>20 DEF BackendReady, LinkInv, Unborn, Read
<1>21. CASE UNCHANGED vars
  BY <1>21 DEF vars, LinkInv, Unborn, Read
<1> QED BY <1>1, <1>2, <1>3, <1>4, <1>7, <1>8, <1>9, <1>10, <1>12, <1>13,
           <1>14, <1>15, <1>16, <1>17, <1>18, <1>19, <1>20, <1>21 DEF Next, ClientStep

-----------------------------------------------------------------------------
(* The answers under way *)

\* What a handler sends joins what was under way.
LEMMA SentElements ==
  ASSUME TypeInv, NEW c \in Connections, NEW messages \in Seq(ServerMessages), Sent(c, messages)
  PROVE  ToSet(toClient'[c]) \subseteq ToSet(toClient[c]) \cup ToSet(messages)
<1>1. toClient[c] \in Seq(ServerMessages)
  BY DEF TypeInv, TypeOK
<1>2. ToSet(toClient[c] \o messages) = ToSet(toClient[c]) \cup ToSet(messages)
  BY <1>1, Elements
<1> QED BY <1>2 DEF Sent

\* Later answers leave the promises about a connection's answers in force.
LEMMA AnswersGrow ==
  ASSUME NEW c \in Connections, AnswersOf(c), NEW more,
         ToSet(toClient'[c]) \subseteq ToSet(toClient[c]) \cup more,
         handler[c].pc \in {"closing", "closed"} => handler'[c].pc \in {"closing", "closed"},
         handler[c].pc = "closed" => handler'[c].pc = "closed",
         \A m \in more :
           /\ m.t \in {"started", "stopped"} => m.session = c
           /\ LastAnswer(m) => handler'[c].pc \in {"closing", "closed"}
           /\ m.t = "stopped" => handler'[c].pc = "closed"
           /\ m.t = "stopped" \/ (m.t = "error" /\ m.fatal) =>
                handler[c].pc \notin {"closing", "closed"},
         \A m, k \in more : ~(m.t = "stopped" /\ k.t = "error" /\ k.fatal)
  PROVE  AnswersOf(c)'
<1>1. \A m \in ToSet(toClient'[c]) :
        /\ m.t \in {"started", "stopped"} => m.session = c
        /\ LastAnswer(m) => handler'[c].pc \in {"closing", "closed"}
        /\ m.t = "stopped" => handler'[c].pc = "closed"
  BY DEF AnswersOf
<1>2. ASSUME NEW m \in ToSet(toClient'[c]), NEW k \in ToSet(toClient'[c]),
             m.t = "stopped", k.t = "error", k.fatal
      PROVE  FALSE
  <2>1. CASE m \in more /\ k \in ToSet(toClient[c])
    BY <1>2, <2>1 DEF AnswersOf, LastAnswer
  <2>2. CASE m \in ToSet(toClient[c]) /\ k \in more
    BY <1>2, <2>2 DEF AnswersOf
  <2>3. CASE m \in ToSet(toClient[c]) /\ k \in ToSet(toClient[c])
    BY <1>2, <2>3 DEF AnswersOf
  <2> QED BY <1>2, <2>1, <2>2, <2>3
<1> QED BY <1>1, <1>2 DEF AnswersOf, LastAnswer

\* And so does taking answers.
LEMMA AnswersShrink ==
  ASSUME NEW c \in Connections, AnswersOf(c),
         ToSet(toClient'[c]) \subseteq ToSet(toClient[c]),
         handler[c].pc \in {"closing", "closed"} => handler'[c].pc \in {"closing", "closed"},
         handler[c].pc = "closed" => handler'[c].pc = "closed"
  PROVE  AnswersOf(c)'
<1>1. \A m \in ToSet(toClient'[c]) :
        /\ m.t \in {"started", "stopped"} => m.session = c
        /\ LastAnswer(m) => handler'[c].pc \in {"closing", "closed"}
        /\ m.t = "stopped" => handler'[c].pc = "closed"
  BY DEF AnswersOf
<1>2. \A m, k \in ToSet(toClient'[c]) : ~(m.t = "stopped" /\ k.t = "error" /\ k.fatal)
  BY DEF AnswersOf
<1> QED BY <1>1, <1>2 DEF AnswersOf, LastAnswer

\* One or two answers of a handler, as a sequence and as a set.
LEMMA FewAnswers ==
  ASSUME NEW m \in ServerMessages, NEW k \in ServerMessages
  PROVE  /\ <<m>> \in Seq(ServerMessages) /\ ToSet(<<m>>) = {m}
         /\ <<m, k>> \in Seq(ServerMessages) /\ ToSet(<<m, k>>) = {m, k}
BY OneElement, TwoElements, ElementsOfFew

\* The kinds of the server's messages.
LEMMA AnswerKinds ==
  /\ HelloAck.t = "hello_ack" /\ CloseMessage.t = "close"
  /\ \A r, c : /\ Started(r, c).t = "started" /\ Started(r, c).session = c
               /\ Started(r, c).req = r
               /\ Stopped(r, c).t = "stopped" /\ Stopped(r, c).session = c
               /\ Stopped(r, c).req = r
  /\ \A n, parts : /\ ChunkResult(n, parts).t = "chunk_result"
                   /\ ChunkResult(n, parts).seq = n /\ ChunkResult(n, parts).parts = parts
  /\ \A e : /\ ProtocolError(e, FALSE).t = "error" /\ ProtocolError(e, FALSE).code = e
            /\ ~ProtocolError(e, FALSE).fatal
            /\ ProtocolError(e, TRUE).t = "error" /\ ProtocolError(e, TRUE).code = e
            /\ ProtocolError(e, TRUE).fatal
BY DEF HelloAck, CloseMessage, Started, Stopped, ChunkResult, ProtocolError

\* What joins the answers of c in a step of its handler.
Answering(c, more) ==
  /\ more \subseteq ServerMessages
  /\ ToSet(toClient'[c]) \subseteq ToSet(toClient[c]) \cup more
  /\ \A m \in more :
       /\ m.t \in {"started", "stopped"} => m.session = c
       /\ LastAnswer(m) => handler'[c].pc \in {"closing", "closed"}
       /\ m.t = "stopped" => handler'[c].pc = "closed"
       /\ m.t = "chunk_result" => ChunkDone(c)
       /\ m.t = "stopped" => Ended(c)
  /\ \A m, k \in more : ~(m.t = "stopped" /\ k.t = "error" /\ k.fatal)

\* One answer, or two, sent by the handler.
LEMMA AnsweringFew ==
  ASSUME TypeInv, NEW c \in Connections, NEW m \in ServerMessages, NEW k \in ServerMessages,
         Sent(c, <<m>>) \/ Sent(c, <<m, k>>),
         \A e \in {m, k} :
           /\ e.t \in {"started", "stopped"} => e.session = c
           /\ LastAnswer(e) => handler'[c].pc \in {"closing", "closed"}
           /\ e.t = "stopped" => handler'[c].pc = "closed"
           /\ e.t = "chunk_result" => ChunkDone(c)
           /\ e.t = "stopped" => Ended(c),
         m.t # "stopped" \/ k.t # "error",
         k.t # "stopped"
  PROVE  Answering(c, {m, k})
<1>1. ToSet(toClient'[c]) \subseteq ToSet(toClient[c]) \cup {m, k}
  <2>1. CASE Sent(c, <<m>>)
    <3>1. ToSet(toClient'[c]) \subseteq ToSet(toClient[c]) \cup {m}
      BY <2>1, FewAnswers, SentElements
    <3> QED BY <3>1
  <2>2. CASE Sent(c, <<m, k>>)
    <3> DEFINE both == <<m, k>>
    <3>1. both \in Seq(ServerMessages) /\ ToSet(both) = {m, k} /\ Sent(c, both)
      BY <2>2, FewAnswers
    <3> HIDE DEF both
    <3>2. ToSet(toClient'[c]) \subseteq ToSet(toClient[c]) \cup ToSet(both)
      BY <3>1, SentElements
    <3> QED BY <3>1, <3>2
  <2> QED BY <2>1, <2>2
<1>2. \A e, f \in {m, k} : ~(e.t = "stopped" /\ f.t = "error" /\ f.fatal)
  <2>1. ASSUME NEW e \in {m, k}, NEW f \in {m, k}, e.t = "stopped", f.t = "error" PROVE FALSE
    BY <2>1
  <2> QED BY <2>1
<1> QED BY <1>1, <1>2 DEF Answering

\* A handler's step adds the answers it gives.
LEMMA HandledAnswers ==
  ASSUME TypeInv, NEW c \in Connections, Handled(c)
  PROVE  /\ handler[c].pc # "closed"
         /\ handler[c].pc = "closing" => /\ handler'[c].pc = "closed"
                                         /\ toClient'[c] = toClient[c]
         /\ \E more : Answering(c, more)
<1>1. CloseMessage \in ServerMessages /\ HelloAck \in ServerMessages
      /\ CloseMessage.t = "close" /\ HelloAck.t = "hello_ack"
  BY MessageTypes, AnswerKinds
<1>2. \A code \in ErrorCodes : /\ ProtocolError(code, FALSE) \in ServerMessages
                               /\ ProtocolError(code, TRUE) \in ServerMessages
  BY MessageTypes
<1>3. Returned.pc = "closed"
  BY DEF Returned, NoHandler
<1>4. CASE Hello(c)
  <2>1. CASE handler'[c].pc = "open" /\ Sent(c, <<HelloAck>>)
    <3>1. Answering(c, {HelloAck, HelloAck})
      BY <1>1, <2>1, AnsweringFew DEF LastAnswer
    <3> QED BY <1>4, <3>1, HelloFacts
  <2>2. CASE handler'[c] = Returned /\ Sent(c, <<CloseMessage>>)
    <3>1. Answering(c, {CloseMessage, CloseMessage})
      BY <1>1, <1>3, <2>2, AnsweringFew
    <3> QED BY <1>4, <3>1, HelloFacts
  <2> QED BY <1>4, <2>1, <2>2, HelloFacts
<1>5. ASSUME NEW code \in ErrorCodes, Sent(c, <<ProtocolError(code, FALSE)>>)
      PROVE  \E more : Answering(c, more)
  <2> DEFINE e == ProtocolError(code, FALSE)
  <2>1. e \in ServerMessages /\ e.t = "error"
    BY <1>2, AnswerKinds
  <2>2. ~e.fatal
    BY AnswerKinds
  <2>3. Sent(c, <<e>>)
    BY <1>5
  <2> HIDE DEF e
  <2>4. ~LastAnswer(e)
    BY <2>1, <2>2 DEF LastAnswer
  <2>5. Answering(c, {e, e})
    BY <2>1, <2>3, <2>4, AnsweringFew
  <2> QED BY <2>5
<1>6. ASSUME NEW code \in ErrorCodes, Sent(c, <<ProtocolError(code, TRUE), CloseMessage>>),
             handler'[c].pc = "closing"
      PROVE  \E more : Answering(c, more)
  <2> DEFINE e == ProtocolError(code, TRUE)
  <2>1. e \in ServerMessages /\ e.t = "error" /\ Sent(c, <<e, CloseMessage>>)
    BY <1>2, <1>6, AnswerKinds
  <2> HIDE DEF e
  <2>2. Answering(c, {e, CloseMessage})
    BY <1>1, <1>6, <2>1, AnsweringFew
  <2> QED BY <2>2
<1>7. CASE HandleStart(c)
  <2> DEFINE r == Head(toServer[c]).req
  <2>1. r \in Requests /\ handler[c].pc = "open"
    BY <1>7, StartFacts DEF Takes
  <2>2. CASE Sent(c, <<ProtocolError("session_already_started", FALSE)>>)
    BY <1>5, <2>1, <2>2 DEF ErrorCodes
  <2>3. CASE /\ handler'[c].pc = "closing"
             /\ \E code \in ErrorCodes : Sent(c, <<ProtocolError(code, TRUE), CloseMessage>>)
    BY <1>6, <2>1, <2>3
  <2>4. CASE Sent(c, <<Started(r, c)>>) \/ Sent(c, <<Started(r, c), ProtocolError("assist_unavailable", FALSE)>>)
    <3> DEFINE m == Started(r, c)
               e == ProtocolError("assist_unavailable", FALSE)
    <3>1. m \in ServerMessages /\ m.t = "started" /\ m.session = c
      BY <2>1, MessageTypes, AnswerKinds
    <3>2. e \in ServerMessages /\ e.t = "error"
      BY <1>2, AnswerKinds DEF ErrorCodes
    <3>3. ~e.fatal
      BY AnswerKinds
    <3>4. Sent(c, <<m>>) \/ Sent(c, <<m, e>>)
      BY <2>4
    <3> HIDE DEF m, e
    <3>5. ~LastAnswer(m) /\ ~LastAnswer(e)
      BY <3>1, <3>2, <3>3 DEF LastAnswer
    <3>6. Answering(c, {m, e})
      BY <3>1, <3>2, <3>4, <3>5, AnsweringFew
    <3> QED BY <2>1, <3>6
  <2> QED BY <1>7, <2>1, <2>2, <2>3, <2>4, StartFacts
<1>8. CASE HandleEnd(c)
  <2>1. handler[c].pc = "open"
    BY <1>8, EndFacts DEF Takes
  <2>2. CASE \E code \in ErrorCodes : Sent(c, <<ProtocolError(code, FALSE)>>)
    BY <1>5, <2>1, <2>2
  <2>3. CASE toClient'[c] = toClient[c]
    <3>1. Answering(c, {})
      BY <2>3 DEF Answering
    <3> QED BY <2>1, <3>1
  <2> QED BY <1>8, <2>2, <2>3, EndFacts
<1>9. CASE Ended(c)
  <2> DEFINE m == Stopped(handler[c].req, c)
  <2>1. handler[c].pc = "ending" /\ handler'[c].pc = "closed" /\ handler[c].req \in Requests
        /\ Sent(c, <<m, CloseMessage>>)
    BY <1>3, <1>9, EndedFacts
  <2>3. m \in ServerMessages /\ m.t = "stopped" /\ m.session = c
    BY <2>1, MessageTypes, AnswerKinds
  <2> HIDE DEF m
  <2>2. Answering(c, {m, CloseMessage})
    BY <1>1, <1>9, <2>1, <2>3, AnsweringFew
  <2> QED BY <2>1, <2>2
<1>10. CASE HandleAudio(c)
  <2>1. handler[c].pc = "open"
    BY <1>10, AudioFacts DEF Takes
  <2>2. CASE \E code \in ErrorCodes \ {"assist_unavailable", "provider_error"} :
               Sent(c, <<ProtocolError(code, FALSE)>>)
    BY <1>5, <2>1, <2>2
  <2>3. CASE /\ handler'[c].pc = "closing"
             /\ \E code \in ErrorCodes : Sent(c, <<ProtocolError(code, TRUE), CloseMessage>>)
    BY <1>6, <2>1, <2>3
  <2>4. CASE toClient'[c] = toClient[c]
    <3>1. Answering(c, {})
      BY <2>4 DEF Answering
    <3> QED BY <2>1, <3>1
  <2> QED BY <1>10, <2>2, <2>3, <2>4, AudioFacts
<1>11. CASE ProviderFails(c)
  <2>1. Sent(c, <<ProtocolError("provider_error", FALSE)>>) /\ handler[c].pc = "stt"
    BY <1>11, ProviderFacts
  <2> QED BY <1>5, <2>1 DEF ErrorCodes
<1>12. CASE ChunkDone(c)
  <2>1. handler[c].pc = "stt"
    BY <1>12, DoneFacts
  <2>2. PICK parts \in Parts : /\ Sent(c, <<ChunkResult(handler[c].expected, parts)>>)
                               /\ ChunkResult(handler[c].expected, parts) \in ServerMessages
    BY <1>12, DoneFacts
  <2> DEFINE m == ChunkResult(handler[c].expected, parts)
  <2>3. m \in ServerMessages /\ m.t = "chunk_result" /\ Sent(c, <<m>>)
    BY <2>2, AnswerKinds
  <2> HIDE DEF m
  <2>4. Answering(c, {m, m})
    BY <1>12, <2>3, AnsweringFew DEF LastAnswer
  <2> QED BY <2>1, <2>4
<1>13. CASE ChunkBreaks(c)
  <2>1. /\ Sent(c, <<ProtocolError("internal_error", TRUE), CloseMessage>>)
        /\ handler[c].pc = "stt" /\ handler'[c].pc = "closing"
    BY <1>13, BreaksFacts
  <2> QED BY <1>6, <2>1 DEF ErrorCodes
<1>14. CASE HandleClose(c) \/ Cleanup(c)
  <2>1. /\ toClient'[c] = toClient[c]
        /\ handler[c].pc = "open" \/ (handler[c].pc = "closing" /\ handler'[c].pc = "closed")
    BY <1>3, <1>14, CloseFacts DEF Takes
  <2>2. Answering(c, {})
    BY <2>1 DEF Answering
  <2> QED BY <2>1, <2>2
<1> QED BY <1>4, <1>7, <1>8, <1>9, <1>10, <1>11, <1>12, <1>13, <1>14 DEF Handled, HandlerStep

LEMMA AnswerStep ==
  ASSUME TypeInv, WindowInv, LinkInv, AnswerInv, [Next]_vars
  PROVE  AnswerInv'
<1> USE DEF serverVars, clientVars, uiVars
<1>0. /\ toClient \in [Connections -> Seq(ServerMessages)]
      /\ handler \in [Connections -> HandlerType]
  BY DEF TypeInv, TypeOK
<1>a. CloseMessage \in ServerMessages /\ CloseMessage.t = "close"
  BY MessageTypes, AnswerKinds
\* Nothing new is under way.
<1>b. ASSUME NEW c \in Connections, ToSet(toClient'[c]) \subseteq ToSet(toClient[c]),
             handler'[c] = handler[c]
      PROVE  AnswersOf(c)'
  <2>1. AnswersOf(c)
    BY DEF AnswerInv
  <2> QED BY <1>b, <2>1, AnswersShrink
<1>c. ToSet(<<>>) = {}
  BY DEF ToSet
<1>1. CASE UNCHANGED <<toClient, handler>>
  BY <1>b, <1>1 DEF AnswerInv
<1>2. CASE Connect
  <2> SUFFICES ASSUME NEW c \in Connections PROVE AnswersOf(c)'
    BY DEF AnswerInv
  <2>1. toClient' = toClient
        /\ (handler' = handler \/ handler' = [handler EXCEPT ![opened + 1].pc = "hello"])
    BY <1>2 DEF Connect
  <2>2. CASE handler'[c] = handler[c]
    BY <1>b, <2>1, <2>2
  <2>3. CASE c = opened + 1
    <3>1. handler[c] = NoHandler
      BY <2>3, LinkFacts DEF LinkInv, Unborn
    <3>2. AnswersOf(c)
      BY DEF AnswerInv
    <3>3. handler[c].pc = "none"
      BY <3>1 DEF NoHandler
    <3> QED BY <2>1, <3>2, <3>3, AnswersShrink
  <2> QED BY <1>0, <2>1, <2>2, <2>3
<1>3. CASE ConnectDone
  <2>1. /\ handler' = handler /\ toClient' = [toClient EXCEPT ![opened] = Tail(@)]
        /\ toClient[opened] # <<>>
    BY <1>3 DEF ConnectDone
  <2>2. \A c \in Connections : ToSet(toClient'[c]) \subseteq ToSet(toClient[c])
    BY <1>0, <2>1, Elements
  <2> QED BY <1>b, <2>1, <2>2 DEF AnswerInv
<1>4. CASE ConnectFails
  <2>1. handler' = handler /\ toClient' = [toClient EXCEPT ![opened] = <<>>]
    BY <1>4 DEF ConnectFails
  <2>2. \A c \in Connections : ToSet(toClient'[c]) \subseteq ToSet(toClient[c])
    BY <1>0, <1>c, <2>1
  <2> QED BY <1>b, <2>1, <2>2 DEF AnswerInv
<1>5. CASE Disconnect
  <2>1. /\ handler' = handler
        /\ toClient' = [c \in Connections |-> IF c = client.tasks THEN <<>> ELSE toClient[c]]
    BY <1>5 DEF Disconnect
  <2>2. \A c \in Connections : ToSet(toClient'[c]) \subseteq ToSet(toClient[c])
    BY <1>c, <2>1
  <2> QED BY <1>b, <2>1, <2>2 DEF AnswerInv
<1>6. ASSUME NEW c \in Connections, Handled(c) PROVE AnswerInv'
  <2> SUFFICES ASSUME NEW d \in Connections PROVE AnswersOf(d)'
    BY DEF AnswerInv
  <2>1. CASE d # c
    BY <1>6, <1>b, <2>1, HandledFrame
  <2>2. CASE d = c
    <3>1. CASE handler[c].pc = "closing"
      <4>1. handler'[c].pc = "closed" /\ toClient'[c] = toClient[c]
        BY <1>6, <3>1, HandledAnswers
      <4>2. AnswersOf(c)
        BY DEF AnswerInv
      <4> QED BY <2>2, <3>1, <4>1, <4>2, AnswersShrink
    <3>2. CASE handler[c].pc # "closing"
      <4>1. handler[c].pc \notin {"closing", "closed"}
        BY <1>6, <3>2, HandledAnswers
      <4>2. PICK more : Answering(c, more)
        BY <1>6, HandledAnswers
      <4>3. AnswersOf(c)
        BY DEF AnswerInv
      <4> QED BY <2>2, <4>1, <4>2, <4>3, AnswersGrow DEF Answering
    <3> QED BY <3>1, <3>2
  <2> QED BY <2>1, <2>2
<1>7. ASSUME NEW c \in Connections, Dispatch(c) PROVE AnswerInv'
  <2> SUFFICES ASSUME NEW d \in Connections PROVE AnswersOf(d)'
    BY DEF AnswerInv
  <2>1. handler' = handler
    BY <1>7, DispatchFrame
  <2>2. CASE d # c
    BY <1>7, <1>b, <2>1, <2>2, DispatchFrame
  <2>3. CASE d = c
    <3>1. toClient[c] # <<>> /\ (toClient'[c] = Tail(toClient[c]) \/ toClient'[c] = <<>>)
      BY <1>7, DispatchFrame
    <3>2. ToSet(toClient'[c]) \subseteq ToSet(toClient[c])
      <4> DEFINE answers == toClient[c]
      <4>1. answers \in Seq(ServerMessages) /\ answers # <<>>
        BY <1>0, <3>1
      <4>2. ToSet(Tail(answers)) \subseteq ToSet(answers)
        BY <4>1, Elements
      <4> QED BY <1>c, <3>1, <4>2
    <3> QED BY <1>b, <2>1, <2>3, <3>2
  <2> QED BY <2>2, <2>3
<1>8. CASE BackendDown
  <2>1. /\ handler' = [c \in Connections |-> IF c <= opened THEN Returned ELSE NoHandler]
        /\ toClient' = [c \in Connections |->
             IF handler[c].pc \in {"none", "closed"} \/ ~Read(c) THEN toClient[c]
             ELSE Append(toClient[c], CloseMessage)]
    BY <1>8 DEF BackendDown
  <2> SUFFICES ASSUME NEW c \in Connections PROVE AnswersOf(c)'
    BY DEF AnswerInv
  <2>2. AnswersOf(c) /\ NoHandler.pc = "none" /\ Returned.pc = "closed"
    BY DEF AnswerInv, NoHandler, Returned
  <2>3. CASE c <= opened
    <3>1. handler'[c].pc = "closed"
      BY <2>1, <2>2, <2>3
    <3>2. ToSet(toClient'[c]) \subseteq ToSet(toClient[c]) \cup {CloseMessage}
      <4>1. CASE toClient'[c] = toClient[c]
        BY <4>1
      <4>2. CASE toClient'[c] = Append(toClient[c], CloseMessage)
        BY <1>0, <1>a, <4>2, Elements
      <4> QED BY <2>1, <4>1, <4>2
    <3> DEFINE more == {CloseMessage}
    <3>3. \A m \in more : m.t = "close"
      BY <1>a
    <3>4. ToSet(toClient'[c]) \subseteq ToSet(toClient[c]) \cup more
      BY <3>2
    <3> HIDE DEF more
    <3> QED BY <2>2, <3>1, <3>3, <3>4, AnswersGrow
  <2>4. CASE c > opened
    <3>1. handler[c] = NoHandler
      BY <2>4 DEF LinkInv, Unborn
    <3>2. handler'[c] = NoHandler
      BY <2>1, <2>4, LinkFacts
    <3>3. toClient'[c] = toClient[c]
      BY <2>1, <2>2, <3>1
    <3> QED BY <1>b, <3>1, <3>2, <3>3
  <2> QED BY <2>3, <2>4, LinkFacts
<1>9. CASE \/ PressStart \/ CreateMeeting \/ StartMeeting \/ StartSession \/ StartReturns
           \/ SubmitChunk \/ ChunkReturns \/ ChunkTimesOut \/ ChunkDropped
           \/ PressEnd \/ EndSession \/ EndReturns \/ ReadStatus
           \/ (EndMeeting /\ UNCHANGED <<clientVars, uiVars>>) \/ BackendReady \/ UNCHANGED vars
  BY <1>1, <1>9 DEF PressStart, CreateMeeting, StartMeeting, StartSession, StartReturns,
     SubmitChunk, ChunkReturns, ChunkTimesOut, ChunkDropped, PressEnd, EndSession, EndReturns,
     ReadStatus, EndMeeting, BackendReady, vars
<1> QED BY <1>2, <1>3, <1>4, <1>5, <1>6, <1>7, <1>8, <1>9 DEF Next, ClientStep

\* Which chunks a session has answered.
LEMMA ProcessedStep ==
  ASSUME TypeInv, WindowInv, LinkInv, ProcessedInv, [Next]_vars
  PROVE  ProcessedInv'
<1> USE DEF serverVars, clientVars, uiVars
<1>0. /\ handler \in [Connections -> HandlerType]
      /\ processed \subseteq Connections \X (1..MaxAudio)
  BY DEF TypeInv, TypeOK
<1>1. CASE UNCHANGED <<handler, processed>>
  BY <1>1 DEF ProcessedInv, ProcessedOf
<1>2. CASE Connect
  <2>1. /\ processed' = processed
        /\ handler' = handler \/ handler' = [handler EXCEPT ![opened + 1].pc = "hello"]
    BY <1>2 DEF Connect
  <2> SUFFICES ASSUME NEW c \in Connections PROVE ProcessedOf(c)'
    BY DEF ProcessedInv
  <2>2. ProcessedOf(c)
    BY DEF ProcessedInv
  <2>3. CASE handler'[c] = handler[c]
    BY <2>1, <2>2, <2>3 DEF ProcessedOf
  <2>4. CASE c = opened + 1
    <3>1. handler[c] = NoHandler
      BY <2>4, LinkFacts DEF LinkInv, Unborn
    <3>2. handler'[c].audio = handler[c].audio /\ (handler'[c].pc = "stt" => handler[c].pc = "stt")
      BY <1>0, <2>1, <2>4 DEF HandlerType
    <3> QED BY <2>1, <2>2, <3>1, <3>2 DEF ProcessedOf, NoHandler
  <2> QED BY <1>0, <2>1, <2>3, <2>4
<1>3. ASSUME NEW c \in Connections, Handled(c) PROVE ProcessedInv'
  <2> SUFFICES ASSUME NEW d \in Connections PROVE ProcessedOf(d)'
    BY DEF ProcessedInv
  <2>0. ProcessedOf(d)
    BY DEF ProcessedInv
  <2>1. CASE processed' = processed /\ handler'[d] = handler[d]
    BY <2>0, <2>1 DEF ProcessedOf
  <2>2. CASE d # c
    <3>1. handler'[d] = handler[d]
      BY <1>3, <2>2, HandledFrame
    <3>2. \A a \in 1..MaxAudio : <<d, a>> \in processed' <=> <<d, a>> \in processed
      <4>1. CASE ChunkDone(c)
        BY <2>2, <4>1, DoneFacts
      <4>2. CASE ~ChunkDone(c)
        <5>1. processed' = processed
          BY <1>3, <4>2 DEF Handled, HandlerStep, Hello, HandleStart, HandleEnd, Ended, HandleAudio,
             ProviderFails, ChunkBreaks, HandleClose, Cleanup
        <5> QED BY <5>1
      <4> QED BY <4>1, <4>2
    <3> QED BY <2>0, <3>1, <3>2 DEF ProcessedOf
  <2>3. CASE d = c
    <3> USE <2>3
    <3>0. \A a \in 1..MaxAudio : a \in Nat
      BY ConstantTypes
    <3>a. handler[c].audio \in Nat
      BY <1>0, ConstantTypes DEF HandlerType
    <3>1. CASE ChunkDone(c)
      BY <2>0, <3>0, <3>a, <3>1, DoneFacts DEF ProcessedOf
    <3>2. CASE HandleAudio(c)
      <4> DEFINE n == Head(toServer[c]).audio
      <4>1. /\ processed' = processed /\ handler[c].audio < n /\ n \in Nat /\ handler[c].pc = "open"
            /\ \/ handler'[c].audio = n /\ handler'[c].pc = "stt"
               \/ handler'[c].audio = handler[c].audio /\ handler'[c].pc \in {"open", "closing"}
        BY <3>2, <3>0, AudioFacts DEF Takes, Kept
      <4> HIDE DEF n
      <4> QED BY <2>0, <3>0, <3>a, <4>1 DEF ProcessedOf
    <3>3. CASE ~ChunkDone(c) /\ ~HandleAudio(c)
      <4>1. processed' = processed
        BY <1>3, <3>3 DEF Handled, HandlerStep, Hello, HandleStart, HandleEnd, Ended, HandleAudio,
             ProviderFails, ChunkBreaks, HandleClose, Cleanup
      <4>2. \/ handler'[c].pc \in {"closing", "closed", "ending"}
            \/ /\ handler'[c].audio = handler[c].audio /\ handler'[c].pc = "open"
               /\ handler[c].pc \in {"hello", "open", "stt"}
        <5>1. CASE Hello(c)
          BY <5>1, HelloFacts DEF Kept, Returned, NoHandler
        <5>2. CASE HandleStart(c)
          BY <5>2, StartFacts DEF Takes
        <5>3. CASE HandleEnd(c)
          BY <5>3, EndFacts DEF Takes
        <5>4. CASE Ended(c)
          BY <5>4, EndedFacts DEF Returned, NoHandler
        <5>5. CASE ProviderFails(c)
          BY <5>5, ProviderFacts DEF Kept
        <5>6. CASE ChunkBreaks(c)
          BY <5>6, BreaksFacts
        <5>7. CASE HandleClose(c) \/ Cleanup(c)
          BY <5>7, CloseFacts DEF Returned, NoHandler
        <5> QED BY <1>3, <3>3, <5>1, <5>2, <5>3, <5>4, <5>5, <5>6, <5>7 DEF Handled, HandlerStep
      <4> QED BY <2>0, <4>1, <4>2 DEF ProcessedOf
    <3> QED BY <3>1, <3>2, <3>3
  <2> QED BY <2>2, <2>3
<1>4. CASE BackendDown
  <2>1. /\ handler' = [c \in Connections |-> IF c <= opened THEN Returned ELSE NoHandler]
        /\ processed' = processed
    BY <1>4 DEF BackendDown
  <2> SUFFICES ASSUME NEW c \in Connections PROVE ProcessedOf(c)'
    BY DEF ProcessedInv
  <2>2. ProcessedOf(c) /\ NoHandler.pc = "none" /\ Returned.pc = "closed"
    BY DEF ProcessedInv, NoHandler, Returned
  <2>3. CASE c <= opened
    BY <2>1, <2>2, <2>3 DEF ProcessedOf
  <2>4. CASE c > opened
    <3>1. handler[c] = NoHandler
      BY <2>4 DEF LinkInv, Unborn
    <3>2. handler'[c] = NoHandler
      BY <2>1, <2>4, LinkFacts
    <3> QED BY <2>1, <2>2, <3>1, <3>2 DEF ProcessedOf
  <2> QED BY <2>3, <2>4, LinkFacts
<1>5. ASSUME NEW c \in Connections, Dispatch(c) PROVE ProcessedInv'
  BY <1>1, <1>5, DispatchFrame
<1>6. CASE \/ PressStart \/ CreateMeeting \/ StartMeeting \/ StartSession \/ StartReturns
           \/ ConnectDone \/ ConnectFails \/ Disconnect
           \/ SubmitChunk \/ ChunkReturns \/ ChunkTimesOut \/ ChunkDropped
           \/ PressEnd \/ EndSession \/ EndReturns \/ ReadStatus
           \/ (EndMeeting /\ UNCHANGED <<clientVars, uiVars>>) \/ BackendReady \/ UNCHANGED vars
  BY <1>1, <1>6 DEF PressStart, CreateMeeting, StartMeeting, StartSession, StartReturns,
     ConnectDone, ConnectFails, Disconnect,
     SubmitChunk, ChunkReturns, ChunkTimesOut, ChunkDropped, PressEnd, EndSession, EndReturns,
     ReadStatus, EndMeeting, BackendReady, vars
<1> QED BY <1>2, <1>3, <1>4, <1>5, <1>6 DEF Next, ClientStep

-----------------------------------------------------------------------------
(* Before the session *)

\* A handler's step adds rows to its own session only, and only words of the
\* result it sends or, when it breaks, of the part stored before.
LEMMA RowsFrame ==
  ASSUME TypeInv, NEW c \in Connections, Handled(c)
  PROVE  /\ transcript' = transcript \/ ChunkDone(c) \/ ChunkBreaks(c)
         /\ \A m \in Meetings : \A i \in 1..Len(transcript'[m]) :
              \/ i \in RowsOf(m) /\ transcript'[m][i] = transcript[m][i]
              \/ transcript'[m][i].session = c
<1>1. transcript' = transcript \/ ChunkDone(c) \/ ChunkBreaks(c)
  BY DEF Handled, HandlerStep, Hello, HandleStart, HandleEnd, Ended, HandleAudio,
     ProviderFails, HandleClose, Cleanup
<1>2. ASSUME ChunkDone(c) \/ ChunkBreaks(c), NEW m \in Meetings, NEW i \in 1..Len(transcript'[m])
      PROVE  \/ i \in RowsOf(m) /\ transcript'[m][i] = transcript[m][i]
             \/ transcript'[m][i].session = c
  <2>1. PICK segments \in Transcriptions[handler[c].audio] :
          LET parts == Accepted(handler[c].previous, segments).parts IN
          \E n \in 0..Len(parts) :
             parts \in Parts /\ n \in Nat /\ AddRows(c, parts, n) /\ handler[c].pc = "stt"
    BY <1>2, StoredPart
  <2> DEFINE parts == Accepted(handler[c].previous, segments).parts
  <2>2. PICK n \in 0..Len(parts) :
          parts \in Parts /\ n \in Nat /\ AddRows(c, parts, n) /\ handler[c].pc = "stt"
    BY <2>1
  <2> HIDE DEF parts
  <2> DEFINE k == handler[c].meeting
             old == transcript[k]
             new == transcript'[k]
  <2>3. /\ k \in Meetings /\ \A p \in Meetings \ {k} : transcript'[p] = transcript[p]
        /\ Len(new) = Len(old) + n
        /\ \A j \in 1..Len(old) : new[j] = old[j]
        /\ \A j \in (Len(old) + 1)..Len(new) :
             /\ j - Len(old) \in 1..n
             /\ new[j] = Row(c, handler[c].expected, handler[c].audio, parts[j - Len(old)])
    BY <2>2, AddRowsTypes
  <2>4. CASE m # k
    BY <2>3, <2>4 DEF RowsOf
  <2>5. CASE m = k
    <3>1. Len(old) \in Nat
      BY <2>3, LenProperties DEF TypeInv, TypeOK
    <3>2. CASE i \in 1..Len(old)
      BY <2>3, <2>5, <3>2 DEF RowsOf
    <3>3. CASE i \notin 1..Len(old)
      <4>1. i \in (Len(old) + 1)..Len(new)
        <5> HIDE DEF old, new
        <5> QED BY <2>3, <2>5, <3>1, <3>3 DEF new
      <4>0. \A e, a, w : Row(c, e, a, w).session = c
        BY DEF Row
      <4>2. \A j \in (Len(old) + 1)..Len(new) : new[j].session = c
        <5> HIDE DEF old, new
        <5> QED BY <2>3, <4>0
      <4>3. transcript'[k][i].session = c
        BY <4>1, <4>2
      <4> QED BY <2>5, <4>3
    <3> QED BY <3>2, <3>3
  <2> QED BY <2>4, <2>5
<1>3. ASSUME transcript' = transcript, NEW m \in Meetings, NEW i \in 1..Len(transcript'[m])
      PROVE  i \in RowsOf(m) /\ transcript'[m][i] = transcript[m][i]
  BY <1>3 DEF RowsOf
<1> QED BY <1>1, <1>2, <1>3

\* A step of another handler, or one that adds no rows, leaves a session unsaid.
LEMMA StillUnsaid ==
  ASSUME TypeInv, NEW c \in Connections, Unsaid(c)
  PROVE  /\ transcript' = transcript => Unsaid(c)'
         /\ \A d \in Connections \ {c} : Handled(d) => Unsaid(c)'
<1>1. transcript' = transcript => Unsaid(c)'
  BY DEF Unsaid, RowsOf
<1>2. ASSUME NEW d \in Connections \ {c}, Handled(d) PROVE Unsaid(c)'
  BY <1>2, RowsFrame DEF Unsaid, RowsOf
<1> QED BY <1>1, <1>2

\* A step that leaves the connection alone and asks for nothing new.
LEMMA StartingQuiet ==
  ASSUME NEW c \in Connections, StartingOf(c), Unsaid(c)',
         handler'[c] = handler[c], toServer'[c] = toServer[c], toClient'[c] = toClient[c],
         requests' = requests,
         flow' \in {"begin", "session"} /\ call'.kind # "start" =>
           flow \in {"begin", "session"} /\ call.kind # "start",
         handler[c].pc = "hello" => call'.kind = call.kind,
         \/ call'.kind # "start"
         \/ call' = call /\ client'.start = client.start
  PROVE  StartingOf(c)'
<1>1. NothingYet(c)'
  BY DEF StartingOf, NothingYet
<1>2. OnlyStarts(c)'
  BY DEF StartingOf, OnlyStarts
<1>3. FirstAnswers(c)'
  BY DEF StartingOf, FirstAnswers
<1>4. StartCall(c)'
  BY DEF StartingOf, StartCall, Waiting
<1> QED BY <1>1, <1>2, <1>3, <1>4 DEF StartingOf

\* The client is on the way to a session only because it connected.
LEMMA StartingBefore ==
  ASSUME TypeInv, WindowInv, LinkInv, [Next]_vars, Starting'
  PROVE  Starting \/ (Connect /\ call'.kind = "connect")
<1> USE DEF serverVars, clientVars, uiVars
<1> SUFFICES ASSUME ~Starting PROVE Connect /\ call'.kind = "connect"
  OBVIOUS
<1>0. client \in ClientType
  BY DEF TypeInv, TypeOK
<1>1. CASE UNCHANGED <<call, ui>> /\ client'.writer = client.writer
  BY <1>1 DEF Starting
<1>2. CASE ui' = ui /\ client'.writer = client.writer /\ call'.kind \in {"none", "chunk", "end", call.kind}
  BY <1>2 DEF Starting
<1>2a. CASE ui' = ui /\ client'.writer = 0 /\ call'.kind \in {"none", "chunk", "end", call.kind}
  BY <1>2a DEF Starting
<1>3. CASE PressStart \/ CreateMeeting \/ StartMeeting \/ PressEnd
           \/ (EndMeeting /\ UNCHANGED <<clientVars, uiVars>>) \/ BackendDown \/ BackendReady
           \/ UNCHANGED vars
  BY <1>1, <1>3 DEF PressStart, CreateMeeting, StartMeeting, PressEnd, EndMeeting, BackendDown,
     BackendReady, vars
<1>4. CASE Connect
  <2>1. CASE UNCHANGED <<client, call>>
    BY <1>1, <1>4, <2>1 DEF Connect
  <2>2. CASE client' = MarkFailed(FailPending(client)) /\ call' = call
    BY <1>0, <1>2a, <1>4, <2>2, FailedTwice DEF Connect
  <2>3. CASE call' = [NoCall EXCEPT !.kind = "connect", !.answer = "waiting"]
    BY <1>4, <2>3, NoCallFacts
  <2> QED BY <1>4, <2>1, <2>2, <2>3 DEF Connect
<1>5. CASE ConnectDone \/ ConnectFails \/ StartReturns
  BY <1>5 DEF Starting, ConnectDone, ConnectFails, StartReturns, Waiting
<1>6. CASE StartSession
  <2>1. ui = "connected"
    BY <1>6 DEF StartSession, WindowInv
  <2>2. client.writer = 0
    BY <2>1 DEF Starting
  <2> QED BY <1>1, <1>6, <2>2 DEF StartSession
<1>7. CASE SubmitChunk \/ EndSession
  <2>1. ui = "session_active" /\ ui' = ui
    BY <1>7 DEF SubmitChunk, EndSession, WindowInv
  <2>2. call'.kind \in {"none", "chunk", "end"}
    <3>1. \/ call' = NoCall
          \/ call' = [NoCall EXCEPT !.kind = "chunk", !.answer = "waiting",
                            !.seq = client.next, !.audio = captured + 1]
          \/ call' = [NoCall EXCEPT !.kind = "end", !.answer = "waiting",
                                  !.req = requests + 1, !.session = client.session]
      BY <1>7 DEF SubmitChunk, EndSession
    <3>2. [NoCall EXCEPT !.kind = "chunk", !.answer = "waiting",
                         !.seq = client.next, !.audio = captured + 1].kind = "chunk"
      BY NoCallFacts
    <3>3. [NoCall EXCEPT !.kind = "end", !.answer = "waiting",
                         !.req = requests + 1, !.session = client.session].kind = "end"
      BY NoCallFacts
    <3> QED BY <3>1, <3>2, <3>3, NoCallFacts
  <2> QED BY <2>1, <2>2 DEF Starting
<1>8. CASE ChunkReturns \/ ChunkTimesOut \/ ChunkDropped
  <2>1. call' = NoCall /\ ui' = ui
    BY <1>8 DEF ChunkReturns, ChunkTimesOut, ChunkDropped
  <2>2. client'.writer = client.writer \/ client'.writer = 0
    <3>1. CASE ChunkReturns
      BY <3>1, ReturnsFacts
    <3>2. CASE ChunkTimesOut
      BY <1>0, <3>2, FailedTwice DEF ChunkTimesOut
    <3> QED BY <1>8, <3>1, <3>2 DEF ChunkDropped
  <2> QED BY <1>2, <1>2a, <2>1, <2>2, NoCallFacts
<1>9. CASE EndReturns
  <2>1. ui' = "session_active" /\ call' = NoCall
    BY <1>9 DEF EndReturns, WindowInv
  <2> QED BY <2>1, NoCallFacts DEF Starting
<1>10. CASE Disconnect
  <2>1. ui' = "disconnected" /\ call' = NoCall
    BY <1>10 DEF Disconnect
  <2> QED BY <2>1, NoCallFacts DEF Starting
<1>11. CASE ReadStatus
  <2>1. flow = "idle" /\ ui' = client.status /\ UNCHANGED <<client, call>>
    BY <1>11 DEF ReadStatus
  <2>2. ui' = "connected" => ui = "connected"
    BY <2>1 DEF LinkInv
  <2> QED BY <2>1, <2>2 DEF Starting
<1>12. ASSUME NEW c \in Connections, Handled(c) PROVE FALSE
  BY <1>1, <1>12, HandledFrame DEF Starting
<1>13. ASSUME NEW c \in Connections, Dispatch(c) PROVE FALSE
  <2>1. ui' = ui /\ call'.kind = call.kind
    BY <1>13, DispatchFrame
  <2>2. client'.writer = client.writer \/ client'.writer = 0
    <3>1. \/ client' = MarkFailed(FailPending(client)) \/ client' = client
          \/ client' = FailPending(client)
          \/ \E r : client' = [client EXCEPT !.start = r]
          \/ \E k : client' = [client EXCEPT !.chunk = k]
          \/ \E r : client' = [client EXCEPT !.end = r]
      BY <1>13 DEF Dispatch, DispatchStarted, DispatchResult, DispatchStopped, DispatchError,
         DispatchClose
    <3>2. client' = MarkFailed(FailPending(client)) => client'.writer = 0
      BY <1>0, FailedTwice
    <3>3. client' = FailPending(client) => client'.writer = client.writer
      <4>1. FailPending(client).writer = client.writer
        BY <1>0, FailedClient
      <4> QED BY <4>1
    <3> QED BY <1>0, <3>1, <3>2, <3>3 DEF ClientType
  <2> QED BY <2>1, <2>2 DEF Starting
<1> QED BY <1>3, <1>4, <1>5, <1>6, <1>7, <1>8, <1>9, <1>10, <1>11, <1>12, <1>13 DEF Next, ClientStep
-----------------------------------------------------------------------------
(* Before the session: the client's steps *)

\* A queue without its head, and with one more message.
LEMMA QueueFacts ==
  ASSUME NEW S, NEW s \in Seq(S)
  PROVE  /\ Len(s) \in Nat /\ (s = <<>> <=> Len(s) = 0)
         /\ s # <<>> => /\ Tail(s) \in Seq(S) /\ Len(Tail(s)) = Len(s) - 1 /\ Len(s) >= 1
                        /\ s[1] = Head(s) /\ Head(s) \in S
                        /\ \A i \in 1..Len(Tail(s)) : /\ Tail(s)[i] = s[i + 1]
                                                      /\ i + 1 \in 1..Len(s)
         /\ \A x \in S : /\ Append(s, x) \in Seq(S) /\ Len(Append(s, x)) = Len(s) + 1
                         /\ Append(s, x)[Len(s) + 1] = x /\ Append(s, x) # <<>>
                         /\ \A i \in 1..Len(s) : Append(s, x)[i] = s[i]
<1>1. Len(s) \in Nat /\ (s = <<>> <=> Len(s) = 0)
  BY EmptySeq, LenProperties
<1>2. s # <<>> => /\ Tail(s) \in Seq(S) /\ Len(Tail(s)) = Len(s) - 1 /\ Len(s) >= 1
                  /\ s[1] = Head(s) /\ Head(s) \in S
                  /\ \A i \in 1..Len(Tail(s)) : /\ Tail(s)[i] = s[i + 1]
                                                /\ i + 1 \in 1..Len(s)
  <2> SUFFICES ASSUME s # <<>>
               PROVE  /\ Tail(s) \in Seq(S) /\ Len(Tail(s)) = Len(s) - 1 /\ Len(s) >= 1
                      /\ s[1] = Head(s) /\ Head(s) \in S
                      /\ \A i \in 1..Len(Tail(s)) : /\ Tail(s)[i] = s[i + 1]
                                                    /\ i + 1 \in 1..Len(s)
    OBVIOUS
  <2> DEFINE u == Tail(s)
  <2>1. /\ u \in Seq(S) /\ Len(u) = Len(s) - 1 /\ Head(s) \in S
        /\ \A i \in 1..Len(u) : u[i] = s[i + 1]
    BY HeadTailProperties
  <2>2. Head(s) = s[1]
    OBVIOUS
  <2> HIDE DEF u
  <2>3. Len(s) >= 1 /\ \A i \in 1..Len(u) : i + 1 \in 1..Len(s)
    BY <1>1, <2>1
  <2> QED BY <2>1, <2>2, <2>3 DEF u
<1>3. ASSUME NEW x \in S
      PROVE  /\ Append(s, x) \in Seq(S) /\ Len(Append(s, x)) = Len(s) + 1
             /\ Append(s, x)[Len(s) + 1] = x /\ Append(s, x) # <<>>
             /\ \A i \in 1..Len(s) : Append(s, x)[i] = s[i]
  BY AppendProperties
<1> QED BY <1>1, <1>2, <1>3

LEMMA StartingClient ==
  ASSUME TypeInv, RowsInv, ConnectionInv, StartingInv, ClientStep,
         TypeInv', RowsInv', Starting, Starting', ~Connect
  PROVE  opened' # 0 /\ StartingOf(opened)'
<1> USE DEF serverVars, clientVars, uiVars
<1> DEFINE c == opened
<1>0. /\ client \in ClientType /\ handler \in [Connections -> HandlerType]
      /\ toServer \in [Connections -> Seq(ClientMessages)]
      /\ toClient \in [Connections -> Seq(ServerMessages)]
      /\ mstatus \in [Meetings -> {"absent", "draft", "active", "ended"}]
  BY DEF TypeInv, TypeOK
<1>1. TypeInv /\ WindowInv /\ LinkInv
  BY DEF ConnectionInv
<1>2. c \in Connections /\ c # 0 /\ StartingOf(c)
  BY <1>1, LinkFacts DEF StartingInv
<1>3. requests \in Nat /\ requests' \in Nat /\ MaxRequests \in Nat
      /\ handler[c].meeting \in Nat
  BY <1>0, <1>2, ConstantTypes DEF TypeInv, TypeOK, HandlerType
<1>4. opened' = opened /\ transcript' = transcript /\ handler' = handler
  BY DEF ClientStep, PressStart, ConnectDone, ConnectFails, CreateMeeting, StartMeeting,
     StartSession, StartReturns, SubmitChunk, ChunkReturns, ChunkTimesOut, ChunkDropped,
     PressEnd, EndSession, EndReturns, Disconnect, ReadStatus
<1>5. Unsaid(c)' /\ Unsaid(c)
  <2>1. Unsaid(c)
    BY <1>2 DEF StartingOf, NothingYet
  <2> QED BY <1>1, <1>2, <1>4, <2>1, StillUnsaid
<1> SUFFICES StartingOf(c)'
  BY <1>2, <1>4
<1>6. handler[c].pc = "hello" => call.kind = "connect"
  BY <1>2 DEF StartingOf, NothingYet
<1>10. CASE PressStart
  <2>1. UNCHANGED <<toServer, toClient, requests, call, client>> /\ flow' \in {"create", "connect"}
    BY <1>10 DEF PressStart
  <2> QED BY <1>2, <1>4, <1>5, <2>1, StartingQuiet
<1>11. CASE ConnectDone
  <2>1. /\ toServer' = toServer /\ requests' = requests /\ call' = NoCall /\ flow' = "create"
        /\ toClient[c] # <<>> /\ toClient'[c] = Tail(toClient[c])
    BY <1>0, <1>2, <1>11 DEF ConnectDone
  <2> DEFINE R == toClient[c]
  <2>2. R \in Seq(ServerMessages) /\ ToSet(Tail(R)) \subseteq ToSet(R)
        /\ Len(Tail(R)) = Len(R) - 1 /\ Len(R) \in Nat
        /\ \A i \in 1..Len(Tail(R)) : Tail(R)[i] = R[i + 1] /\ i + 1 \in 1..Len(R)
    BY <1>0, <1>2, <2>1, Elements, QueueFacts
  <2>3. NothingYet(c)'
    BY <1>2, <1>4, <1>5, <2>1 DEF StartingOf, NothingYet
  <2>4. OnlyStarts(c)'
    BY <1>2, <1>4, <2>1 DEF StartingOf, OnlyStarts
  <2>5. FirstAnswers(c)'
    <3>1. \A m \in ToSet(Tail(R)) : m.t # "chunk_result"
      BY <1>2, <2>2 DEF StartingOf, FirstAnswers
    <3>2. handler[c].pc = "open" => \A m \in ToSet(Tail(R)) :
            m.t = "started" => m.req = handler[c].meeting /\ handler[c].meeting # 0
      BY <1>2, <2>2 DEF StartingOf, FirstAnswers
    <3>3. ASSUME handler[c].pc = "open", handler[c].meeting # 0, handler[c].meeting = requests
          PROVE  /\ toServer[c] = <<>>
                 /\ \A i \in 1..Len(Tail(R)) : Tail(R)[i].t = "started" =>
                      \/ i = Len(Tail(R))
                      \/ (i + 1 = Len(Tail(R)) /\ Tail(R)[i + 1] = AssistUnavailable)
      <4>1. /\ toServer[c] = <<>>
            /\ \A i \in 1..Len(R) : R[i].t = "started" =>
                 i = Len(R) \/ (i + 1 = Len(R) /\ R[i + 1] = AssistUnavailable)
        BY <1>2, <3>3 DEF StartingOf, FirstAnswers
      <4> SUFFICES ASSUME NEW i \in 1..Len(Tail(R)), Tail(R)[i].t = "started"
                   PROVE  \/ i = Len(Tail(R))
                          \/ (i + 1 = Len(Tail(R)) /\ Tail(R)[i + 1] = AssistUnavailable)
        BY <4>1
      <4>2. R[i + 1].t = "started" /\ i + 1 \in 1..Len(R)
        BY <2>2
      <4>3. CASE i + 1 = Len(R)
        BY <2>2, <4>3
      <4>4. CASE i + 1 + 1 = Len(R) /\ R[i + 1 + 1] = AssistUnavailable
        <5>1. i + 1 = Len(Tail(R)) /\ i + 1 \in 1..Len(Tail(R))
          BY <2>2, <4>4
        <5> QED BY <2>2, <4>4, <5>1
      <4> QED BY <4>1, <4>2, <4>3, <4>4
    <3> QED BY <1>4, <2>1, <3>1, <3>2, <3>3 DEF FirstAnswers
  <2>6. StartCall(c)'
    BY <2>1, NoCallFacts DEF StartCall, Waiting
  <2> QED BY <2>3, <2>4, <2>5, <2>6 DEF StartingOf
<1>12. CASE ConnectFails
  <2>1. ui \in {"disconnected", "failed"} /\ ui' = ui /\ call' = NoCall
    BY <1>1, <1>12, LinkFacts DEF ConnectFails, Waiting, WindowInv
  <2> QED BY <2>1, NoCallFacts DEF Starting
<1>13. CASE CreateMeeting
  <2>1. flow = "create" /\ UNCHANGED <<toServer, toClient, call, client>>
        /\ call.kind \notin {"start", "connect"}
        /\ \/ requests' = requests + 1 /\ flow' = "begin"
           \/ requests' = requests /\ flow' = "idle"
    BY <1>1, <1>13, LinkFacts DEF CreateMeeting, WindowInv
  <2>2. CASE requests' = requests
    BY <1>2, <1>4, <1>5, <2>1, <2>2, <1>3, StartingQuiet
  <2>3. CASE requests' = requests + 1
    <3>1. NothingYet(c)'
      BY <1>2, <1>4, <1>5, <2>1 DEF StartingOf, NothingYet
    <3>2. handler[c].meeting # requests'
      <4>1. handler[c].meeting # 0 => mstatus[handler[c].meeting] # "absent"
        BY <1>1, <1>2 DEF TypeInv, RequestBounds
      <4>2. requests' \in Meetings
        BY <1>13, <2>3, <1>3 DEF CreateMeeting, Meetings, Requests
      <4>3. mstatus[requests'] = "absent"
        BY <1>1, <1>3, <2>3, <4>2 DEF TypeInv, RequestBounds
      <4> QED BY <1>3, <2>3, <4>1, <4>3
    <3>3. \A i \in 1..Len(toServer[c]) :
            toServer[c][i].t = "start" /\ toServer[c][i].req <= requests
      BY <1>2 DEF StartingOf, OnlyStarts
    <3>4. \A i \in 1..Len(toServer[c]) : toServer[c][i].req \in Nat
      <4> SUFFICES ASSUME NEW i \in 1..Len(toServer[c]) PROVE toServer[c][i].req \in Nat
        OBVIOUS
      <4>1. toServer[c][i] \in ClientMessages
        BY <1>0, <1>2, ElementOfSeq
      <4>2. toServer[c][i].req \in Requests
        BY <3>3, <4>1, MessageFields
      <4> QED BY <4>2 DEF Requests
    <3>5. OnlyStarts(c)'
      BY <1>3, <1>4, <2>1, <2>3, <3>2, <3>3, <3>4 DEF OnlyStarts
    <3>6. FirstAnswers(c)'
      BY <1>2, <1>4, <2>1, <3>2 DEF StartingOf, FirstAnswers
    <3>7. StartCall(c)'
      BY <2>1 DEF StartCall, Waiting
    <3> QED BY <3>1, <3>5, <3>6, <3>7 DEF StartingOf
  <2> QED BY <2>1, <2>2, <2>3
<1>14. CASE StartMeeting
  <2>1. flow = "begin" /\ UNCHANGED <<toServer, toClient, call, client, requests>>
    BY <1>14 DEF StartMeeting
  <2> QED BY <1>2, <1>4, <1>5, <2>1, StartingQuiet
<1>15. CASE StartSession
  <2>1. UNCHANGED <<toClient, requests>> /\ call.kind = "none" /\ flow = "session"
    BY <1>15, NoCallFacts DEF StartSession
  <2>2. CASE UNCHANGED <<client, call, toServer>>
    BY <1>2, <1>4, <1>5, <2>1, <2>2, StartingQuiet
  <2>3. CASE /\ client' = [client EXCEPT !.start = requests]
             /\ call' = [NoCall EXCEPT !.kind = "start", !.answer = "waiting", !.req = requests]
             /\ client.writer # 0 /\ SendTo(client.writer, StartMessage(requests))
    <3> DEFINE Q == toServer[c]
               m == StartMessage(requests)
    <3>1. client'.start = requests /\ call'.kind = "start" /\ call'.answer = "waiting"
          /\ call'.req = requests
      BY <1>0, <2>3, ClientFields, NoCallFacts
    <3>2. client.writer = c
      BY <1>1, <2>3, LinkFacts
    <3>3. toServer'[c] = IF handler[c].pc = "closed" THEN Q ELSE Append(Q, m)
      BY <1>1, <1>2, <2>3, <3>2, SendFacts
    <3>4. m.t = "start" /\ m.req = requests
      BY DEF StartMessage
    <3>5. m \in ClientMessages
      <4>1. requests \in Requests
        BY <1>1, <1>3, <2>1, ConstantTypes DEF TypeInv, TypeOK, RequestBounds, Requests
      <4> QED BY <4>1, MessageTypes
    <3>6. NothingYet(c)'
      BY <1>2, <1>4, <1>5, <1>6, <2>1 DEF StartingOf, NothingYet
    <3>7. /\ handler[c].meeting # requests
          /\ \A i \in 1..Len(Q) : Q[i].t = "start" /\ Q[i].req <= requests /\ Q[i].req # requests
      BY <1>2, <2>1 DEF StartingOf, OnlyStarts
    <3> HIDE DEF m
    <3>8. OnlyStarts(c)'
      <4>1. CASE toServer'[c] = Q
        BY <1>4, <2>1, <3>1, <3>7, <4>1 DEF OnlyStarts
      <4>2. CASE toServer'[c] = Append(Q, m)
        <5> DEFINE P == Append(Q, m)
        <5>1. /\ Q \in Seq(ClientMessages) /\ Len(Q) \in Nat /\ Len(P) = Len(Q) + 1
              /\ P[Len(Q) + 1] = m /\ \A i \in 1..Len(Q) : P[i] = Q[i]
          BY <1>0, <1>2, <3>5, QueueFacts
        <5>2. \A i \in 1..Len(P) : P[i].t = "start" /\ P[i].req <= requests
                                   /\ (i < Len(P) => P[i].req # requests)
          <6> HIDE DEF P, Q
          <6> QED BY <1>3, <3>4, <3>7, <5>1
        <5>3. toServer'[c] = P
          BY <4>2
        <5> HIDE DEF P
        <5> QED BY <1>4, <2>1, <3>1, <5>2, <5>3 DEF OnlyStarts
      <4> QED BY <3>3, <4>1, <4>2
    <3>9. FirstAnswers(c)'
      BY <1>2, <1>4, <2>1, <3>7 DEF StartingOf, FirstAnswers
    <3>10. StartCall(c)'
      BY <2>1, <3>1 DEF StartCall, Waiting
    <3> QED BY <3>6, <3>8, <3>9, <3>10 DEF StartingOf
  <2> QED BY <1>15, <2>2, <2>3 DEF StartSession
<1>16. CASE StartReturns
  <2>1. call' = NoCall /\ call.kind = "start" /\ flow' = "idle"
        /\ UNCHANGED <<toServer, toClient, requests>>
    BY <1>16 DEF StartReturns
  <2> QED BY <1>2, <1>4, <1>5, <1>6, <2>1, NoCallFacts, StartingQuiet
<1>17. CASE ChunkReturns \/ ChunkTimesOut \/ ChunkDropped
  <2>1. call' = NoCall /\ call.kind = "chunk"
        /\ UNCHANGED <<toServer, toClient, requests, flow>>
    BY <1>17 DEF ChunkReturns, ChunkTimesOut, ChunkDropped, Waiting
  <2> QED BY <1>2, <1>4, <1>5, <1>6, <2>1, NoCallFacts, StartingQuiet
<1>18. CASE SubmitChunk \/ PressEnd \/ EndSession
  <2>1. ui = "session_active" /\ call = NoCall
    BY <1>1, <1>18 DEF SubmitChunk, PressEnd, EndSession, WindowInv
  <2> QED BY <2>1, NoCallFacts DEF Starting
<1>19. CASE EndReturns
  <2>1. ui = "session_active" /\ call.kind = "end"
    BY <1>1, <1>19 DEF EndReturns, WindowInv
  <2> QED BY <2>1 DEF Starting
<1>20. CASE Disconnect
  <2>1. ui' = "disconnected" /\ call' = NoCall
    BY <1>20 DEF Disconnect
  <2> QED BY <2>1, NoCallFacts DEF Starting
<1>21. CASE ReadStatus
  <2>1. UNCHANGED <<toServer, toClient, requests, flow, client, call>>
    BY <1>21 DEF ReadStatus
  <2> QED BY <1>2, <1>4, <1>5, <2>1, StartingQuiet
<1> QED BY <1>10, <1>11, <1>12, <1>13, <1>14, <1>15, <1>16, <1>17, <1>18, <1>19, <1>20, <1>21
        DEF ClientStep

-----------------------------------------------------------------------------
(* Before the session: the handler and the dispatcher *)

\* The handler of the connection in use.
LEMMA StartingHandled ==
  ASSUME TypeInv, ConnectionInv, NEW c \in Connections, c = opened, StartingOf(c), Handled(c)
  PROVE  StartingOf(c)'
<1> DEFINE h == handler[c]
           Q == toServer[c]
           R == toClient[c]
<1>0. /\ h \in HandlerType /\ Q \in Seq(ClientMessages) /\ R \in Seq(ServerMessages)
      /\ requests \in Nat
  BY ConnectionTypes, ConstantTypes DEF TypeInv, TypeOK
<1>1. /\ UNCHANGED <<client, call, flow, requests>> /\ h.pc # "none"
  BY HandledFrame
<1>2. NothingYet(c) /\ OnlyStarts(c) /\ FirstAnswers(c) /\ StartCall(c)
  BY DEF StartingOf
<1>3. h.pc \notin {"none", "stt", "ending"} /\ h.expected = 0 /\ Unsaid(c)
  BY <1>2 DEF NothingYet
<1>4. transcript' = transcript /\ ~ChunkDone(c) /\ ~ChunkBreaks(c) /\ ~ProviderFails(c) /\ ~Ended(c)
  BY <1>3, RowsFrame, DoneFacts, BreaksFacts, ProviderFacts, EndedFacts
<1>5. Unsaid(c)'
  BY <1>3, <1>4, StillUnsaid
<1>6. Returned.pc = "closed" /\ Returned.expected = 0 /\ Returned.meeting = 0
  BY DEF Returned, NoHandler
<1>7. flow \in {"begin", "session"} => requests # 0
  BY DEF TypeInv, RequestBounds
<1>8. ASSUME handler'[c] = Returned, toServer'[c] = <<>>,
             \A m \in ToSet(toClient'[c]) : m.t # "chunk_result"
      PROVE  StartingOf(c)'
  <2>1. NothingYet(c)'
    BY <1>5, <1>6, <1>8 DEF NothingYet
  <2>2. OnlyStarts(c)'
    BY <1>1, <1>6, <1>7, <1>8 DEF OnlyStarts
  <2>3. FirstAnswers(c)'
    BY <1>6, <1>8 DEF FirstAnswers
  <2>4. StartCall(c)'
    BY <1>1, <1>2, <1>6, <1>8 DEF StartCall, Waiting
  <2> QED BY <2>1, <2>2, <2>3, <2>4 DEF StartingOf
<1>9. \A m \in ToSet(toClient'[c]) : m.t # "chunk_result"
  <2>1. PICK more : Answering(c, more)
    BY HandledAnswers
  <2>2. \A m \in more : m.t # "chunk_result"
    BY <1>4, <2>1 DEF Answering
  <2>3. \A m \in ToSet(R) : m.t # "chunk_result"
    BY <1>2 DEF FirstAnswers
  <2> QED BY <2>1, <2>2, <2>3 DEF Answering
\* The queue without its head.
<1>10. ASSUME Q # <<>>
       PROVE  LET P == Tail(Q) IN
              /\ \A i \in 1..Len(P) :
                   P[i].t = "start" /\ P[i].req <= requests /\ (i < Len(P) => P[i].req # requests)
              /\ flow \in {"begin", "session"} /\ call.kind # "start" =>
                   \A i \in 1..Len(P) : P[i].req # requests
              /\ Head(Q).req = requests => P = <<>>
              /\ Head(Q).t = "start"
              /\ flow \in {"begin", "session"} /\ call.kind # "start" => Head(Q).req # requests
  <2> DEFINE P == Tail(Q)
  <2>1. /\ Len(Q) \in Nat /\ Len(Q) >= 1 /\ Len(P) = Len(Q) - 1 /\ P \in Seq(ClientMessages)
        /\ Q[1] = Head(Q) /\ \A i \in 1..Len(P) : P[i] = Q[i + 1] /\ i + 1 \in 1..Len(Q)
    BY <1>0, <1>10, QueueFacts
  <2>2. P = <<>> <=> Len(P) = 0
    BY <2>1, QueueFacts
  <2> HIDE DEF P
  <2>3. /\ \A i \in 1..Len(Q) :
             Q[i].t = "start" /\ Q[i].req <= requests /\ (i < Len(Q) => Q[i].req # requests)
        /\ flow \in {"begin", "session"} /\ call.kind # "start" =>
             \A i \in 1..Len(Q) : Q[i].req # requests
    BY <1>2 DEF OnlyStarts
  <2> HIDE DEF Q
  <2>4. 1 \in 1..Len(Q) /\ \A i \in 1..Len(P) : i < Len(P) => i + 1 < Len(Q)
    BY <2>1
  <2>5. Head(Q).req = requests => P = <<>>
    BY <2>1, <2>2, <2>3, <2>4
  <2> QED BY <2>1, <2>3, <2>4, <2>5 DEF P
<1>11. CASE Hello(c)
  <2>1. h.pc = "hello" /\ h.meeting = 0 /\ R = <<>> /\ call.kind = "connect"
    BY <1>2, <1>11, HelloFacts DEF NothingYet
  <2>2. CASE /\ handler'[c].pc = "open" /\ Kept(c) /\ toServer'[c] = Q
             /\ Sent(c, <<HelloAck>>)
    <3>1. \A m \in ToSet(toClient'[c]) : m.t = "hello_ack"
      <4>1. ToSet(toClient'[c]) \subseteq ToSet(R) \cup {HelloAck} /\ ToSet(R) = {}
        BY <2>1, <2>2, MessageTypes, FewAnswers, SentElements, Elements
      <4> QED BY <4>1, AnswerKinds
    <3>2. NothingYet(c)'
      BY <1>3, <1>5, <2>2 DEF NothingYet, Kept
    <3>3. OnlyStarts(c)'
      BY <1>1, <1>2, <2>2 DEF OnlyStarts, Kept
    <3>4. FirstAnswers(c)'
      BY <2>1, <2>2, <3>1 DEF FirstAnswers, Kept
    <3>5. StartCall(c)'
      BY <1>1, <1>2, <2>1 DEF StartCall, Waiting
    <3> QED BY <3>2, <3>3, <3>4, <3>5 DEF StartingOf
  <2>3. CASE handler'[c] = Returned /\ toServer'[c] = <<>> /\ Sent(c, <<CloseMessage>>)
    BY <1>8, <1>9, <2>3
  <2> QED BY <1>11, <2>2, <2>3, HelloFacts
<1>12. CASE HandleStart(c)
  <2> DEFINE m == Head(Q)
             P == Tail(Q)
  <2>1. /\ h.pc = "open" /\ Q # <<>> /\ toServer'[c] = P /\ m.t = "start" /\ m.req \in Requests
        /\ m.req # 0
    BY <1>12, StartFacts, ConstantTypes DEF Takes, Meetings
  <2>2. ~(call.kind = "start" /\ call.answer = "ok") /\ ~(h.meeting # 0 /\ h.meeting = requests)
    BY <1>2, <2>1 DEF StartCall, FirstAnswers
  <2>3. StartCall(c)'
    BY <1>1, <1>2, <2>2 DEF StartCall, Waiting
  <2>4. handler'[c].meeting \in {h.meeting, m.req} => OnlyStarts(c)'
    <3>1. flow \in {"begin", "session"} /\ call.kind # "start" => h.meeting # requests
      BY <1>2 DEF OnlyStarts
    <3> QED BY <1>1, <1>10, <2>1, <3>1 DEF OnlyStarts
  <2>5. CASE /\ h.meeting # 0 /\ handler'[c] = h
             /\ Sent(c, <<ProtocolError("session_already_started", FALSE)>>)
    <3>1. NothingYet(c)'
      BY <1>3, <1>5, <2>1, <2>5 DEF NothingYet
    <3>2. FirstAnswers(c)'
      <4> DEFINE e == ProtocolError("session_already_started", FALSE)
      <4>1. e \in ServerMessages /\ e.t = "error"
        BY MessageTypes, AnswerKinds DEF ErrorCodes
      <4>2. ToSet(toClient'[c]) \subseteq ToSet(R) \cup {e}
        BY <2>5, <4>1, FewAnswers, SentElements
      <4> QED BY <1>1, <1>2, <1>9, <2>1, <2>2, <2>5, <4>1, <4>2 DEF FirstAnswers
    <3> QED BY <2>3, <2>4, <2>5, <3>1, <3>2 DEF StartingOf
  <2>6. CASE handler'[c].pc = "closing" /\ Kept(c)
    <3>1. NothingYet(c)'
      BY <1>3, <1>5, <2>6 DEF NothingYet, Kept
    <3>2. FirstAnswers(c)'
      BY <1>9, <2>6 DEF FirstAnswers
    <3> QED BY <2>3, <2>4, <2>6, <3>1, <3>2 DEF StartingOf, Kept
  <2>7. CASE /\ h.meeting = 0 /\ handler'[c].pc = "open" /\ handler'[c].meeting = m.req
             /\ handler'[c].expected = 0
             /\ \/ Sent(c, <<Started(m.req, c)>>)
                \/ Sent(c, <<Started(m.req, c), AssistUnavailable>>)
    <3>1. NothingYet(c)'
      BY <1>5, <2>7 DEF NothingYet
    <3>2. FirstAnswers(c)'
      <4> DEFINE s == Started(m.req, c)
                 T == toClient'[c]
      <4>1. s \in ServerMessages /\ s.t = "started" /\ s.req = m.req
        BY <2>1, MessageTypes, AnswerKinds
      <4>2. AssistUnavailable \in ServerMessages /\ AssistUnavailable.t = "error"
        BY MessageTypes, AnswerKinds DEF ErrorCodes, AssistUnavailable
      <4>3. T = R \/ T = R \o <<s>> \/ T = R \o <<s, AssistUnavailable>>
        BY <2>7 DEF Sent
      <4>4. \A k \in ToSet(R) : k.t # "started"
        BY <1>2, <2>1, <2>7 DEF FirstAnswers
      <4>5. ToSet(T) \subseteq ToSet(R) \cup {s, AssistUnavailable}
        <5>1. <<s>> \in Seq(ServerMessages) /\ ToSet(<<s>>) = {s}
          BY <4>1, FewAnswers
        <5>2. <<s, AssistUnavailable>> \in Seq(ServerMessages)
              /\ ToSet(<<s, AssistUnavailable>>) = {s, AssistUnavailable}
          BY <4>1, <4>2, FewAnswers
        <5>3. CASE T = R
          BY <5>3
        <5>4. CASE T = R \o <<s>>
          <6> DEFINE one == <<s>>
          <6>1. one \in Seq(ServerMessages) /\ ToSet(one) = {s} /\ T = R \o one
            BY <5>1, <5>4
          <6> HIDE DEF one, T, R
          <6>2. ToSet(T) = ToSet(R) \cup ToSet(one)
            BY <1>0, <6>1, Elements DEF R
          <6> QED BY <6>1, <6>2
        <5>5. CASE T = R \o <<s, AssistUnavailable>>
          <6> DEFINE two == <<s, AssistUnavailable>>
          <6>1. two \in Seq(ServerMessages) /\ ToSet(two) = {s, AssistUnavailable} /\ T = R \o two
            BY <5>2, <5>5
          <6> HIDE DEF two, T, R
          <6>2. ToSet(T) = ToSet(R) \cup ToSet(two)
            BY <1>0, <6>1, Elements DEF R
          <6> QED BY <6>1, <6>2
        <5> QED BY <4>3, <5>3, <5>4, <5>5
      <4>6. \A i \in 1..Len(R) : R[i].t # "started"
        <5>1. \A i \in 1..Len(R) : R[i] \in ToSet(R)
          BY <1>0, SetOfElements
        <5> QED BY <4>4, <5>1
      <4>7. \A i \in 1..Len(T) : T[i].t = "started" =>
              i = Len(T) \/ (i + 1 = Len(T) /\ T[i + 1] = AssistUnavailable)
        <5>1. CASE T = R
          BY <4>6, <5>1
        <5>2. CASE T = R \o <<s>>
          <6>1. Len(T) = Len(R) + 1 /\ Len(R) \in Nat /\ \A i \in 1..Len(R) : T[i] = R[i]
            BY <1>0, <4>1, <5>2, OneElement, ConcatProperties, LenProperties
          <6> HIDE DEF R, T
          <6>2. \A i \in 1..Len(T) : i \in 1..Len(R) \/ i = Len(T)
            BY <6>1
          <6> QED BY <4>6, <6>1, <6>2
        <5>3. CASE T = R \o <<s, AssistUnavailable>>
          <6> DEFINE two == <<s, AssistUnavailable>>
          <6>1. two \in Seq(ServerMessages) /\ Len(two) = 2 /\ two[1] = s /\ two[2] = AssistUnavailable
            BY <4>1, <4>2, TwoElements
          <6>2. T = R \o two
            BY <5>3
          <6> HIDE DEF two
          <6> HIDE DEF R, T
          <6>0. R \in Seq(ServerMessages)
            BY <1>0 DEF R
          <6>3. /\ Len(T) = Len(R) + 2 /\ Len(R) \in Nat
                /\ \A i \in 1..Len(T) : T[i] = IF i <= Len(R) THEN R[i] ELSE two[i - Len(R)]
            <7>1. /\ Len(R \o two) = Len(R) + Len(two) /\ Len(R) \in Nat
                  /\ \A i \in 1..Len(R \o two) :
                       (R \o two)[i] = IF i <= Len(R) THEN R[i] ELSE two[i - Len(R)]
              BY <6>0, <6>1, ConcatProperties, LenProperties
            <7> QED BY <6>1, <6>2, <7>1
          <6>4. \A i \in 1..Len(T) : i \in 1..Len(R) \/ i = Len(R) + 1 \/ i = Len(T)
            BY <6>3
          <6>5. T[Len(R) + 2] = two[2] /\ Len(R) + 1 + 1 = Len(T)
            <7>1. Len(R) + 2 \in 1..Len(T) /\ ~(Len(R) + 2 <= Len(R)) /\ Len(R) + 2 - Len(R) = 2
              BY <6>3
            <7> QED BY <6>3, <7>1
          <6>6. \A i \in 1..Len(R) : T[i] = R[i]
            BY <6>3
          <6> QED BY <4>6, <6>1, <6>3, <6>4, <6>5, <6>6
        <5> QED BY <4>3, <5>1, <5>2, <5>3
      <4>8. m.req = requests => P = <<>>
        BY <1>10, <2>1
      <4>9. \A k \in ToSet(T) : k.t = "started" => k.req = m.req
        BY <4>1, <4>2, <4>4, <4>5
      <4> HIDE DEF T, m, P
      <4> QED BY <1>1, <1>9, <2>1, <2>7, <4>7, <4>8, <4>9 DEF FirstAnswers, T
    <3> QED BY <2>3, <2>4, <2>7, <3>1, <3>2 DEF StartingOf
  <2> QED BY <1>12, <2>5, <2>6, <2>7, StartFacts DEF AssistUnavailable
<1>13. CASE HandleEnd(c) \/ HandleAudio(c) \/ HandleClose(c)
  <2>1. Q # <<>> /\ Head(Q).t # "start"
    BY <1>13, EndFacts, AudioFacts, CloseFacts DEF Takes
  <2> QED BY <1>10, <2>1
<1>14. CASE Cleanup(c)
  BY <1>8, <1>9, <1>14, CloseFacts
<1> QED BY <1>4, <1>11, <1>12, <1>13, <1>14 DEF Handled, HandlerStep

\* The dispatcher of the connection in use.
LEMMA StartingDispatch ==
  ASSUME TypeInv, ConnectionInv, NEW c \in Connections, c = opened, StartingOf(c), Dispatch(c)
  PROVE  StartingOf(c)'
<1> DEFINE h == handler[c]
           R == toClient[c]
<1>0. /\ R \in Seq(ServerMessages) /\ client \in ClientType /\ call \in CallType
  BY ConnectionTypes DEF TypeInv, TypeOK
<1>1. /\ UNCHANGED <<handler, toServer, transcript, flow, requests>>
      /\ R # <<>> /\ (toClient'[c] = Tail(R) \/ toClient'[c] = <<>>)
      /\ call'.kind = call.kind /\ call'.req = call.req
  BY DispatchFrame
<1>2. NothingYet(c) /\ OnlyStarts(c) /\ FirstAnswers(c) /\ StartCall(c)
  BY DEF StartingOf
<1>3. NothingYet(c)'
  <2>1. Unsaid(c)'
    BY <1>1, <1>2, StillUnsaid DEF NothingYet
  <2> QED BY <1>1, <1>2, <2>1 DEF NothingYet
<1>4. OnlyStarts(c)'
  BY <1>1, <1>2 DEF OnlyStarts
<1> DEFINE T == toClient'[c]
<1>5. /\ ToSet(T) \subseteq ToSet(R) /\ Len(R) \in Nat /\ Head(R) = R[1] /\ Head(R) \in ToSet(R)
      /\ Len(R) >= 1 /\ Head(R) \in ServerMessages
      /\ T = <<>> \/ (Len(T) = Len(R) - 1 /\ T = Tail(R))
      /\ \A i \in 1..Len(T) : T[i] = R[i + 1] /\ i + 1 \in 1..Len(R)
  <2>1. /\ Tail(R) \in Seq(ServerMessages) /\ Len(Tail(R)) = Len(R) - 1 /\ Len(R) \in Nat
        /\ Len(R) >= 1 /\ Head(R) = R[1] /\ Head(R) \in ServerMessages
        /\ \A i \in 1..Len(Tail(R)) : Tail(R)[i] = R[i + 1] /\ i + 1 \in 1..Len(R)
    BY <1>0, <1>1, QueueFacts
  <2>2. ToSet(Tail(R)) \subseteq ToSet(R) /\ ToSet(<<>>) = {} /\ Head(R) \in ToSet(R)
    BY <1>0, <1>1, Elements
  <2>3. CASE T = <<>>
    BY <2>1, <2>2, <2>3
  <2>4. CASE T = Tail(R)
    BY <2>1, <2>2, <2>4
  <2> QED BY <1>1, <2>3, <2>4
<1>6. FirstAnswers(c)'
  <2>1. ASSUME h.pc = "open", h.meeting # 0, h.meeting = requests
        PROVE  /\ toServer[c] = <<>>
               /\ \A i \in 1..Len(T) : T[i].t = "started" =>
                    i = Len(T) \/ (i + 1 = Len(T) /\ T[i + 1] = AssistUnavailable)
    <3>1. /\ toServer[c] = <<>>
          /\ \A i \in 1..Len(R) : R[i].t = "started" =>
               i = Len(R) \/ (i + 1 = Len(R) /\ R[i + 1] = AssistUnavailable)
      BY <1>2, <2>1 DEF FirstAnswers
    <3> HIDE DEF T, R
    <3> SUFFICES ASSUME NEW i \in 1..Len(T), T[i].t = "started"
                 PROVE  i = Len(T) \/ (i + 1 = Len(T) /\ T[i + 1] = AssistUnavailable)
      BY <3>1
    <3>2. Len(T) = Len(R) - 1
      <4>1. T # <<>>
        OBVIOUS
      <4> QED BY <1>5, <4>1
    <3>3. R[i + 1].t = "started" /\ i + 1 \in 1..Len(R)
      BY <1>5
    <3>4. CASE i + 1 = Len(R)
      BY <3>2, <3>4, <1>5
    <3>5. CASE i + 1 + 1 = Len(R) /\ R[i + 1 + 1] = AssistUnavailable
      <4>1. i + 1 = Len(T) /\ i + 1 \in 1..Len(T)
        BY <1>5, <3>2, <3>5
      <4> QED BY <1>5, <3>5, <4>1
    <3> QED BY <3>1, <3>3, <3>4, <3>5
  <2> QED BY <1>1, <1>2, <1>5, <2>1 DEF FirstAnswers
<1>7. StartCall(c)'
  <2>1. CASE DispatchStarted(c)
    <3> DEFINE m == Head(R)
    <3>1. m.t = "started" /\ (h.pc = "open" => m.req = h.meeting /\ h.meeting # 0)
      BY <1>2, <1>5, <2>1 DEF FirstAnswers, DispatchStarted, Arrived
    <3>2. CASE client.start # m.req
      <4>1. call' = call /\ client' = client
        BY <2>1, <3>2 DEF DispatchStarted
      <4>2. toClient'[c] = Tail(R)
        BY <2>1, DispatchFrame DEF DispatchStarted
      <4>3. R = <<AssistUnavailable>> => Tail(R) = <<>>
        BY OneElement, MessageTypes DEF AssistUnavailable, ErrorCodes
      <4> QED BY <1>1, <1>2, <4>1, <4>2, <4>3 DEF StartCall, Waiting
    <3>3. CASE client.start = m.req /\ ~Waiting("start")
      <4>1. call' = call
        BY <2>1, <3>3 DEF DispatchStarted
      <4>2. toClient'[c] = Tail(R)
        BY <2>1, DispatchFrame DEF DispatchStarted
      <4>3. R = <<AssistUnavailable>> => Tail(R) = <<>>
        BY OneElement, MessageTypes DEF AssistUnavailable, ErrorCodes
      <4> QED BY <1>1, <1>2, <3>3, <4>1, <4>2, <4>3 DEF StartCall, Waiting
    <3>4. CASE client.start = m.req /\ Waiting("start")
      <4>1. call'.answer = "ok" /\ call'.kind = "start"
        BY <1>0, <2>1, <3>4 DEF DispatchStarted, CallType, Waiting
      <4>2. m.req = requests
        BY <1>2, <3>4 DEF StartCall
      <4>3. h.pc = "open" => h.meeting # 0 /\ toServer[c] = <<>> /\ T \in {<<>>, <<AssistUnavailable>>}
        <5> SUFFICES ASSUME h.pc = "open"
                     PROVE h.meeting # 0 /\ toServer[c] = <<>> /\ T \in {<<>>, <<AssistUnavailable>>}
          OBVIOUS
        <5>1. /\ h.meeting # 0 /\ toServer[c] = <<>>
              /\ 1 = Len(R) \/ (1 + 1 = Len(R) /\ R[1 + 1] = AssistUnavailable)
          <6>1. 1 \in 1..Len(R) /\ R[1].t = "started" /\ h.meeting # 0 /\ h.meeting = requests
            BY <1>5, <3>1, <4>2
          <6> QED BY <1>2, <6>1 DEF FirstAnswers
        <5>2. T = Tail(R) /\ Tail(R) \in Seq(ServerMessages) /\ Len(Tail(R)) = Len(R) - 1
              /\ (Tail(R) = <<>> <=> Len(Tail(R)) = 0)
          <6>1. T = Tail(R) /\ Tail(R) \in Seq(ServerMessages) /\ Len(Tail(R)) = Len(R) - 1
            BY <1>0, <1>1, <2>1, DispatchFrame, QueueFacts DEF DispatchStarted
          <6> QED BY <6>1, QueueFacts
        <5>3. CASE 1 = Len(R)
          BY <5>1, <5>2, <5>3
        <5>4. CASE 1 + 1 = Len(R) /\ R[1 + 1] = AssistUnavailable
          <6>1. Len(T) = 1 /\ T[1] = AssistUnavailable
            BY <1>5, <5>2, <5>4
          <6>2. T = <<T[1]>>
            BY <5>2, <6>1, SequenceOfOne
          <6> QED BY <5>1, <6>1, <6>2
        <5> QED BY <5>1, <5>3, <5>4
      <4> QED BY <1>1, <1>2, <4>1, <4>3 DEF StartCall, Waiting
    <3> QED BY <3>2, <3>3, <3>4
  <2>2. CASE ~DispatchStarted(c)
    <3>1. \/ call' = call \/ call' = FailCaller
          \/ call' = Answer("chunk", "ok") \/ call' = Answer("end", "ok")
      BY <2>2 DEF Dispatch, DispatchResult, DispatchStopped, DispatchError, DispatchClose
    <3>2. ASSUME call'.kind = "start", call'.answer = "waiting" PROVE client'.start = client.start
      <4>1. Head(R).t # "chunk_result"
        BY <1>2, <1>5 DEF FirstAnswers
      <4>2. ~DispatchResult(c)
        BY <4>1 DEF DispatchResult, Arrived
      <4>3. call' # FailCaller
        BY <1>1, <3>2, AnswerFacts
      <4>4. DispatchStopped(c)
        BY <2>2, <4>2, <4>3 DEF Dispatch, DispatchError, DispatchClose
      <4>5. client' = client \/ \E r : client' = [client EXCEPT !.end = r]
        BY <4>4 DEF DispatchStopped
      <4>6. CASE \E r : client' = [client EXCEPT !.end = r]
        BY <1>0, <4>6, ClientFields
      <4> QED BY <4>5, <4>6
    <3>3. call'.kind = "start" /\ call'.answer \in {"waiting", "ok"} => call'.answer = call.answer
      BY <1>1, <3>1, AnswerFacts DEF Waiting
    <3>4. R = <<AssistUnavailable>> => Tail(R) = <<>>
      BY OneElement, MessageTypes DEF AssistUnavailable, ErrorCodes
    <3> QED BY <1>1, <1>2, <3>2, <3>3, <3>4 DEF StartCall, Waiting
  <2> QED BY <2>1, <2>2
<1> QED BY <1>3, <1>4, <1>6, <1>7 DEF StartingOf

LEMMA StartingStep ==
  ASSUME TypeInv, RowsInv, ConnectionInv, StartingInv, [Next]_vars,
         TypeInv', RowsInv', ConnectionInv'
  PROVE  StartingInv'
<1> USE DEF serverVars, clientVars, uiVars
<1>0. /\ client \in ClientType /\ handler \in [Connections -> HandlerType]
      /\ toServer \in [Connections -> Seq(ClientMessages)]
      /\ toClient \in [Connections -> Seq(ServerMessages)]
  BY DEF TypeInv, TypeOK
<1>1. TypeInv /\ WindowInv /\ LinkInv
  BY DEF ConnectionInv
<1> SUFFICES ASSUME Starting' PROVE (opened # 0 /\ StartingOf(opened))'
  BY DEF StartingInv
<1>2. CASE Connect /\ call'.kind = "connect"
  <2>1. call.kind = "none" /\ flow = "connect" /\ UNCHANGED <<toServer, toClient, transcript, flow>>
    BY <1>2, NoCallFacts DEF Connect
  <2>2. opened' = opened + 1 /\ handler' = [handler EXCEPT ![opened + 1].pc = "hello"]
    BY <1>2, <2>1 DEF Connect
  <2>3. PICK c \in Connections : c = opened + 1 /\ c # 0 /\ c > opened
    BY <1>0, <1>1, <1>2, <2>2, LinkFacts, ConstantTypes DEF Connect, Connections
  <2>4. handler[c] = NoHandler /\ toServer[c] = <<>> /\ toClient[c] = <<>>
    <3>1. c \notin readers /\ c # opened
      BY <1>0, <1>1, <2>3, LinkFacts
    <3> QED BY <1>1, <2>3, <3>1 DEF LinkInv, Unborn, Read
  <2>5. handler'[c].pc = "hello" /\ handler'[c].meeting = 0 /\ handler'[c].expected = 0
    BY <1>0, <2>2, <2>3, <2>4 DEF NoHandler, HandlerType
  <2>6. Unsaid(c)'
    <3>1. Unsaid(c)
      BY <2>3, <2>4 DEF RowsInv, SessionRows, NoHandler
    <3> QED BY <2>1, <2>3, <3>1, StillUnsaid
  <2>7. NothingYet(c)'
    BY <1>2, <2>1, <2>4, <2>5, <2>6 DEF NothingYet
  <2>8. OnlyStarts(c)'
    BY <2>1, <2>4 DEF OnlyStarts
  <2>9. FirstAnswers(c)'
    <3>1. ToSet(toClient'[c]) = {}
      BY <2>1, <2>4 DEF ToSet
    <3> QED BY <2>5, <3>1 DEF FirstAnswers
  <2>10. StartCall(c)'
    BY <1>2 DEF StartCall, Waiting
  <2> QED BY <2>2, <2>3, <2>7, <2>8, <2>9, <2>10 DEF StartingOf
<1>3. CASE ~(Connect /\ call'.kind = "connect")
  <2>1. Starting
    BY <1>1, <1>3, StartingBefore
  <2>2. PICK c \in Connections : c = opened /\ c # 0 /\ StartingOf(c)
    BY <1>1, <2>1, LinkFacts DEF StartingInv
  <2>3. Unsaid(c) /\ (handler[c].pc = "hello" => call.kind = "connect")
    BY <2>2 DEF StartingOf, NothingYet
  <2>4. CASE ClientStep /\ ~Connect
    BY <2>1, <2>4, StartingClient
  <2>5. CASE Connect
    <3>1. UNCHANGED <<toServer, toClient, transcript, requests, handler, opened, call>>
          /\ flow' = "idle"
      BY <1>3, <2>5, NoCallFacts DEF Connect
    <3>2. Unsaid(c)' /\ call.kind = "none"
      BY <2>2, <2>3, <2>5, <3>1, StillUnsaid, NoCallFacts DEF Connect
    <3> QED BY <2>2, <3>1, <3>2, StartingQuiet
  <2>6. ASSUME NEW d \in Connections, Handled(d), d # c PROVE (opened # 0 /\ StartingOf(opened))'
    <3>1. UNCHANGED <<client, call, flow, opened, requests>>
          /\ handler'[c] = handler[c] /\ toServer'[c] = toServer[c] /\ toClient'[c] = toClient[c]
      BY <2>2, <2>6, HandledFrame
    <3>2. Unsaid(c)'
      BY <2>2, <2>3, <2>6, StillUnsaid
    <3> QED BY <2>2, <3>1, <3>2, StartingQuiet
  <2>7. ASSUME Handled(c) PROVE (opened # 0 /\ StartingOf(opened))'
    <3>1. opened' = opened
      BY <2>2, <2>7, HandledFrame
    <3> QED BY <2>2, <2>7, <3>1, StartingHandled
  <2>8. ASSUME NEW d \in Connections, Dispatch(d) PROVE (opened # 0 /\ StartingOf(opened))'
    <3>1. d = c /\ opened' = opened
      BY <1>1, <2>2, <2>8, DispatchFrame, LinkFacts
    <3> QED BY <2>2, <2>8, <3>1, StartingDispatch
  <2>9. CASE BackendDown
    <3>1. /\ handler' = [d \in Connections |-> IF d <= opened THEN Returned ELSE NoHandler]
          /\ toServer' = [d \in Connections |-> <<>>]
          /\ toClient' = [d \in Connections |->
             IF handler[d].pc \in {"none", "closed"} \/ ~Read(d) THEN toClient[d]
             ELSE Append(toClient[d], CloseMessage)]
          /\ UNCHANGED <<transcript, call, client, opened, requests, flow>>
      BY <2>9 DEF BackendDown
    <3>2. /\ handler'[c].pc = "closed" /\ handler'[c].meeting = 0 /\ handler'[c].expected = 0
          /\ toServer'[c] = <<>>
      BY <1>1, <2>2, <3>1, LinkFacts DEF Returned, NoHandler
    <3>3. Unsaid(c)'
      BY <2>2, <2>3, <3>1, StillUnsaid
    <3>4. NothingYet(c)'
      BY <3>1, <3>2, <3>3 DEF NothingYet
    <3>5. OnlyStarts(c)'
      BY <1>1, <3>1, <3>2 DEF OnlyStarts, TypeInv, RequestBounds
    <3>6. FirstAnswers(c)'
      <4>1. CloseMessage \in ServerMessages /\ CloseMessage.t = "close"
        BY MessageTypes, AnswerKinds
      <4>2. ToSet(toClient'[c]) \subseteq ToSet(toClient[c]) \cup {CloseMessage}
        <5>1. CASE toClient'[c] = toClient[c]
          BY <5>1
        <5>2. CASE toClient'[c] = Append(toClient[c], CloseMessage)
          BY <1>0, <2>2, <4>1, <5>2, Elements
        <5> QED BY <2>2, <3>1, <5>1, <5>2
      <4>3. \A m \in ToSet(toClient[c]) : m.t # "chunk_result"
        BY <2>2 DEF StartingOf, FirstAnswers
      <4>4. \A m \in ToSet(toClient'[c]) : m.t # "chunk_result"
        BY <4>1, <4>2, <4>3
      <4> QED BY <3>1, <3>2, <4>4 DEF FirstAnswers
    <3>7. StartCall(c)'
      BY <2>2, <3>1, <3>2 DEF StartingOf, StartCall, Waiting
    <3> QED BY <2>2, <3>1, <3>4, <3>5, <3>6, <3>7 DEF StartingOf
  <2>10. CASE (EndMeeting /\ UNCHANGED <<clientVars, uiVars>>) \/ BackendReady \/ UNCHANGED vars
    <3>1. UNCHANGED <<toServer, toClient, transcript, requests, handler, opened, call, flow, client>>
      BY <2>10 DEF EndMeeting, BackendReady, vars
    <3>2. Unsaid(c)'
      BY <2>2, <2>3, <3>1, StillUnsaid
    <3> QED BY <2>2, <3>1, <3>2, StartingQuiet
  <2> QED BY <2>4, <2>5, <2>6, <2>7, <2>8, <2>9, <2>10 DEF Next
<1> QED BY <1>2, <1>3

-----------------------------------------------------------------------------
(* The session *)

\* What holds of the chunks and ends a queue carries, as it is read and written.
LEMMA AudioQueue ==
  ASSUME NEW Q \in Seq(ClientMessages)
  PROVE  /\ NoAudio(<<>>) /\ OneAudio(<<>>)
         /\ Q # <<>> =>
              /\ OneAudio(Q) => OneAudio(Tail(Q))
              /\ NoAudio(Q) => NoAudio(Tail(Q))
              /\ Head(Q).t = "audio" => ~NoAudio(Q)
              /\ Head(Q).t = "audio" /\ OneAudio(Q) => NoAudio(Tail(Q))
              /\ Head(Q).t = "audio" /\ OneAudio(Q) /\ Last(Q).t = "audio" =>
                   Tail(Q) = <<>> /\ Last(Q) = Head(Q)
         /\ \A m \in ClientMessages :
              /\ m.t = "audio" /\ NoAudio(Q) => OneAudio(Append(Q, m))
              /\ m.t # "audio" /\ OneAudio(Q) => OneAudio(Append(Q, m))
              /\ m.t # "audio" /\ NoAudio(Q) => NoAudio(Append(Q, m))
              /\ Last(Append(Q, m)) = m
<1>0. /\ Len(Q) \in Nat /\ (Q = <<>> <=> Len(Q) = 0)
      /\ Q # <<>> => /\ Tail(Q) \in Seq(ClientMessages) /\ Len(Tail(Q)) = Len(Q) - 1
                     /\ Q[1] = Head(Q) /\ Len(Q) >= 1
                     /\ \A i \in 1..Len(Tail(Q)) : Tail(Q)[i] = Q[i + 1] /\ i + 1 \in 1..Len(Q)
      /\ \A m \in ClientMessages :
           /\ Append(Q, m) \in Seq(ClientMessages) /\ Len(Append(Q, m)) = Len(Q) + 1
           /\ Append(Q, m)[Len(Q) + 1] = m
           /\ \A i \in 1..Len(Q) : Append(Q, m)[i] = Q[i]
  BY QueueFacts
<1>1. NoAudio(<<>>) /\ OneAudio(<<>>)
  BY DEF NoAudio, OneAudio
<1>2. ASSUME Q # <<>>
      PROVE  /\ OneAudio(Q) => OneAudio(Tail(Q))
             /\ NoAudio(Q) => NoAudio(Tail(Q))
             /\ Head(Q).t = "audio" => ~NoAudio(Q)
             /\ Head(Q).t = "audio" /\ OneAudio(Q) => NoAudio(Tail(Q))
             /\ Head(Q).t = "audio" /\ OneAudio(Q) /\ Last(Q).t = "audio" =>
                  Tail(Q) = <<>> /\ Last(Q) = Head(Q)
  <2> DEFINE T == Tail(Q)  n == Len(Q)
  <2>1. /\ n \in Nat /\ n >= 1 /\ Q[1] = Head(Q) /\ Len(T) = n - 1
        /\ \A i \in 1..Len(T) : T[i] = Q[i + 1] /\ i + 1 \in 1..n
    BY <1>0, <1>2
  <2>2. OneAudio(Q) => OneAudio(T)
    <3> SUFFICES ASSUME OneAudio(Q), NEW i \in 1..Len(T), NEW j \in 1..Len(T),
                        T[i].t = "audio", T[j].t = "audio"
                 PROVE  i = j
      BY DEF OneAudio
    <3>1. /\ i + 1 \in 1..n /\ j + 1 \in 1..n /\ i \in Nat /\ j \in Nat
          /\ Q[i + 1].t = "audio" /\ Q[j + 1].t = "audio"
      BY <2>1
    <3>2. i + 1 = j + 1
      BY <3>1 DEF OneAudio
    <3> QED BY <3>1, <3>2
  <2>3. NoAudio(Q) => NoAudio(T)
    BY <2>1 DEF NoAudio
  <2>4. Head(Q).t = "audio" => ~NoAudio(Q)
    BY <2>1 DEF NoAudio
  <2>5. Head(Q).t = "audio" /\ OneAudio(Q) => NoAudio(T)
    <3> SUFFICES ASSUME Head(Q).t = "audio", OneAudio(Q), NEW i \in 1..Len(T), T[i].t = "audio"
                 PROVE  FALSE
      BY DEF NoAudio
    <3>1. i + 1 \in 1..n /\ i \in Nat /\ i >= 1 /\ 1 \in 1..n /\ Q[i + 1].t = "audio"
      BY <2>1
    <3>2. i + 1 = 1
      BY <2>1, <3>1 DEF OneAudio
    <3> QED BY <3>1, <3>2
  <2>6. ASSUME Head(Q).t = "audio", OneAudio(Q), Last(Q).t = "audio"
        PROVE  T = <<>> /\ Last(Q) = Head(Q)
    <3>1. Last(Q) = Q[n] /\ n \in 1..n /\ 1 \in 1..n
      BY <2>1 DEF Last
    <3>2. n = 1
      BY <2>1, <2>6, <3>1 DEF OneAudio
    <3>3. Len(T) = 0 /\ T \in Seq(ClientMessages)
      BY <1>0, <1>2, <2>1, <3>2
    <3>4. T = <<>>
      BY <3>3, QueueFacts
    <3> QED BY <2>1, <3>1, <3>2, <3>4
  <2> QED BY <2>2, <2>3, <2>4, <2>5, <2>6
<1>3. ASSUME NEW m \in ClientMessages
      PROVE  /\ m.t = "audio" /\ NoAudio(Q) => OneAudio(Append(Q, m))
             /\ m.t # "audio" /\ OneAudio(Q) => OneAudio(Append(Q, m))
             /\ m.t # "audio" /\ NoAudio(Q) => NoAudio(Append(Q, m))
             /\ Last(Append(Q, m)) = m
  <2> DEFINE A == Append(Q, m)  n == Len(Q)
  <2>1. n \in Nat /\ Len(A) = n + 1 /\ A[n + 1] = m /\ \A i \in 1..n : A[i] = Q[i]
    BY <1>0
  <2>2. Last(A) = m
    BY <2>1 DEF Last
  <2> HIDE DEF A, n
  <2>3. \A i \in 1..(n + 1) : i \in 1..n \/ i = n + 1
    BY <2>1
  <2>4. m.t # "audio" /\ NoAudio(Q) => NoAudio(A)
    BY <2>1, <2>3 DEF NoAudio, n
  <2>5. m.t = "audio" /\ NoAudio(Q) => OneAudio(A)
    <3> SUFFICES ASSUME NoAudio(Q), NEW i \in 1..(n + 1), A[i].t = "audio" PROVE i = n + 1
      BY <2>1 DEF OneAudio
    <3> QED BY <2>1, <2>3 DEF NoAudio, n
  <2>6. m.t # "audio" /\ OneAudio(Q) => OneAudio(A)
    <3> SUFFICES ASSUME m.t # "audio", OneAudio(Q), NEW i \in 1..(n + 1), NEW j \in 1..(n + 1),
                        A[i].t = "audio", A[j].t = "audio"
                 PROVE  i = j
      BY <2>1 DEF OneAudio
    <3>1. i \in 1..n /\ j \in 1..n
      BY <2>1, <2>3
    <3>2. Q[i].t = "audio" /\ Q[j].t = "audio"
      BY <2>1, <3>1
    <3> QED BY <3>1, <3>2 DEF OneAudio, n
  <2> QED BY <2>2, <2>4, <2>5, <2>6 DEF A
<1> QED BY <1>1, <1>2, <1>3

\* What holds of the results among the answers, as they are read and sent.
LEMMA ResultQueue ==
  ASSUME NEW R \in Seq(ServerMessages)
  PROVE  /\ NoResult(<<>>)
         /\ R # <<>> =>
              /\ NoResult(R) => NoResult(Tail(R))
              /\ NoResult(Tail(R)) => (Tail(R) # <<>> => NoResult(Tail(Tail(R))))
              /\ Head(R) \in ToSet(R) /\ Head(R) \in ServerMessages
         /\ \A M \in Seq(ServerMessages) : NoResult(M) =>
              /\ NoResult(R) => NoResult(R \o M)
              /\ \A m \in ToSet(R \o M) : m.t = "chunk_result" => m \in ToSet(R)
              /\ (R # <<>> => NoResult(Tail(R))) => (R \o M # <<>> => NoResult(Tail(R \o M)))
<1>1. NoResult(<<>>)
  BY Elements DEF NoResult
<1>2. ASSUME R # <<>>
      PROVE  /\ NoResult(R) => NoResult(Tail(R))
             /\ NoResult(Tail(R)) => (Tail(R) # <<>> => NoResult(Tail(Tail(R))))
             /\ Head(R) \in ToSet(R) /\ Head(R) \in ServerMessages
  <2>1. /\ Head(R) \in ToSet(R) /\ Head(R) \in ServerMessages /\ Tail(R) \in Seq(ServerMessages)
        /\ ToSet(Tail(R)) \subseteq ToSet(R)
    BY <1>2, Elements
  <2>2. Tail(R) # <<>> => ToSet(Tail(Tail(R))) \subseteq ToSet(Tail(R))
    <3> DEFINE T == Tail(R)
    <3>1. T \in Seq(ServerMessages)
      BY <2>1
    <3> HIDE DEF T
    <3>2. T # <<>> => ToSet(Tail(T)) \subseteq ToSet(T)
      BY <3>1, Elements
    <3> QED BY <3>2 DEF T
  <2> QED BY <2>1, <2>2 DEF NoResult
<1>3. ASSUME NEW M \in Seq(ServerMessages), NoResult(M)
      PROVE  /\ NoResult(R) => NoResult(R \o M)
             /\ \A m \in ToSet(R \o M) : m.t = "chunk_result" => m \in ToSet(R)
             /\ (R # <<>> => NoResult(Tail(R))) => (R \o M # <<>> => NoResult(Tail(R \o M)))
  <2>1. ToSet(R \o M) = ToSet(R) \cup ToSet(M)
    BY Elements
  <2>2. CASE R = <<>>
    <3>1. R \o M = M
      BY <2>2, ConcatEmptySeq
    <3>2. M # <<>> => NoResult(Tail(M))
      <4>1. M # <<>> => ToSet(Tail(M)) \subseteq ToSet(M)
        BY Elements
      <4> QED BY <1>3, <4>1 DEF NoResult
    <3> QED BY <1>3, <2>1, <3>1, <3>2 DEF NoResult
  <2>3. CASE R # <<>>
    <3>1. Tail(R) \in Seq(ServerMessages) /\ Tail(R \o M) = Tail(R) \o M
      <4>1. Tail(R) \in Seq(ServerMessages) /\ Len(Tail(R)) = Len(R) - 1 /\ Len(R) >= 1
        BY <2>3, QueueFacts
      <4> QED BY <4>1, <2>3
    <3>2. ToSet(Tail(R) \o M) = ToSet(Tail(R)) \cup ToSet(M)
      <4> DEFINE T == Tail(R)
      <4>1. T \in Seq(ServerMessages)
        BY <3>1
      <4> HIDE DEF T
      <4>2. ToSet(T \o M) = ToSet(T) \cup ToSet(M)
        BY <4>1, Elements
      <4> QED BY <4>2 DEF T
    <3>3. NoResult(Tail(R)) => NoResult(Tail(R \o M))
      BY <1>3, <3>1, <3>2 DEF NoResult
    <3> QED BY <1>3, <2>1, <2>3, <3>3 DEF NoResult
  <2> QED BY <2>2, <2>3
<1> QED BY <1>1, <1>2, <1>3

\* Answers that are no results leave the result under way the first.
LEMMA OtherAnswers ==
  ASSUME TypeInv, NEW c \in Connections, ResultInv(c), UNCHANGED <<client, call>>,
         processed \subseteq processed', NEW more \in Seq(ServerMessages), NoResult(more),
         \/ toClient'[c] = toClient[c]
         \/ toClient'[c] = toClient[c] \o more
  PROVE  /\ ResultInv(c)'
         /\ NoResult(toClient[c]) => NoResult(toClient'[c])
<1>1. toClient[c] \in Seq(ServerMessages)
  BY DEF TypeInv, TypeOK
<1>2. CASE toClient'[c] = toClient[c]
  <2>1. ResultInv(c)'
    BY <1>2 DEF ResultInv, Waiting
  <2> QED BY <1>2, <2>1
<1>3. CASE toClient'[c] = toClient[c] \o more
  <2> DEFINE R == toClient[c]  new == toClient'[c]
  <2>1. /\ NoResult(R) => NoResult(new)
        /\ \A m \in ToSet(new) : m.t = "chunk_result" => m \in ToSet(R)
        /\ (R # <<>> => NoResult(Tail(R))) => (new # <<>> => NoResult(Tail(new)))
    BY <1>1, <1>3, ResultQueue
  <2> QED BY <2>1 DEF ResultInv, Waiting
<1> QED BY <1>2, <1>3

\* The handler's answers one by one.
LEMMA PlainAnswers ==
  /\ \A code \in ErrorCodes :
       /\ NoResult(<<ProtocolError(code, FALSE)>>)
       /\ <<ProtocolError(code, FALSE)>> \in Seq(ServerMessages)
       /\ NoResult(<<ProtocolError(code, TRUE), CloseMessage>>)
       /\ <<ProtocolError(code, TRUE), CloseMessage>> \in Seq(ServerMessages)
  /\ \A req \in Requests, c \in Connections :
       /\ NoResult(<<Stopped(req, c), CloseMessage>>)
       /\ <<Stopped(req, c), CloseMessage>> \in Seq(ServerMessages)
  /\ NoResult(<<CloseMessage>>) /\ <<CloseMessage>> \in Seq(ServerMessages)
<1>1. CloseMessage \in ServerMessages /\ CloseMessage.t = "close"
  BY AnswerKinds, MessageTypes
<1>2. ASSUME NEW code \in ErrorCodes
      PROVE  /\ NoResult(<<ProtocolError(code, FALSE)>>)
             /\ <<ProtocolError(code, FALSE)>> \in Seq(ServerMessages)
             /\ NoResult(<<ProtocolError(code, TRUE), CloseMessage>>)
             /\ <<ProtocolError(code, TRUE), CloseMessage>> \in Seq(ServerMessages)
  <2> DEFINE m == ProtocolError(code, FALSE)  k == ProtocolError(code, TRUE)
  <2>1. m \in ServerMessages /\ k \in ServerMessages
    BY MessageTypes
  <2>2. m.t = "error" /\ k.t = "error"
    BY AnswerKinds
  <2> HIDE DEF m, k
  <2>3. <<m>> \in Seq(ServerMessages) /\ ToSet(<<m>>) = {m}
    BY <2>1, FewAnswers
  <2>4. <<k, CloseMessage>> \in Seq(ServerMessages) /\ ToSet(<<k, CloseMessage>>) = {k, CloseMessage}
    BY <1>1, <2>1, FewAnswers
  <2>5. NoResult(<<m>>) /\ NoResult(<<k, CloseMessage>>)
    BY <1>1, <2>2, <2>3, <2>4 DEF NoResult
  <2> QED BY <2>3, <2>4, <2>5 DEF m, k
<1>3. ASSUME NEW req \in Requests, NEW c \in Connections
      PROVE  /\ NoResult(<<Stopped(req, c), CloseMessage>>)
             /\ <<Stopped(req, c), CloseMessage>> \in Seq(ServerMessages)
  <2> DEFINE m == Stopped(req, c)
  <2>1. m \in ServerMessages /\ m.t = "stopped"
    BY MessageTypes, AnswerKinds
  <2> HIDE DEF m
  <2>2. <<m, CloseMessage>> \in Seq(ServerMessages) /\ ToSet(<<m, CloseMessage>>) = {m, CloseMessage}
    BY <1>1, <2>1, FewAnswers
  <2>3. NoResult(<<m, CloseMessage>>)
    BY <1>1, <2>1, <2>2 DEF NoResult
  <2> QED BY <2>2, <2>3 DEF m
<1>4. NoResult(<<CloseMessage>>) /\ <<CloseMessage>> \in Seq(ServerMessages)
  BY <1>1, FewAnswers DEF NoResult
<1> QED BY <1>2, <1>3, <1>4

\* A step that leaves the connection and what the client counts alone.
LEMMA SessionQuiet ==
  ASSUME NEW c \in Connections, SessionOf(c),
         handler'[c] = handler[c], toServer'[c] = toServer[c], toClient'[c] = toClient[c],
         client'.next = client.next, client'.inFlight = client.inFlight,
         client'.chunk = client.chunk, call' = call \/ call'.kind # "chunk",
         acked' = acked, processed \subseteq processed'
  PROVE  SessionOf(c)'
<1>1. ResultInv(c)'
  BY DEF SessionOf, ResultInv, Waiting
<1>2. Underway(c) => Underway(c)'
  BY DEF Underway
<1>3. Agreed(c) => Agreed(c)'
  BY DEF Agreed, Waiting
<1>4. Ahead(c) => Ahead(c)'
  BY DEF Ahead, Waiting
<1> QED BY <1>1, <1>2, <1>3, <1>4 DEF SessionOf, InStep

\* What the handler takes off its queue: the rest is still the session's.
LEMMA UnderwayTail ==
  ASSUME TypeInv, NEW c \in Connections, Underway(c), toServer[c] # <<>>, client' = client,
         toServer'[c] = Tail(toServer[c])
  PROVE  /\ Underway(c)'
         /\ Head(toServer[c]).t \in {"end", "audio"} /\ Head(toServer[c]).session = c
         /\ Head(toServer[c]).t = "audio" => Head(toServer[c]).seq = client.next
         /\ \A i \in 1..Len(toServer'[c]) : \E j \in 1..Len(toServer[c]) :
              toServer'[c][i] = toServer[c][j]
         /\ \E i \in 1..Len(toServer[c]) : Head(toServer[c]) = toServer[c][i]
<1> DEFINE Q == toServer[c]  T == Tail(Q)
<1>1. /\ Len(Q) \in Nat /\ Len(Q) >= 1 /\ Q[1] = Head(Q)
      /\ \A i \in 1..Len(T) : T[i] = Q[i + 1] /\ i + 1 \in 1..Len(Q)
  BY QueueFacts DEF TypeInv, TypeOK
<1>2. 1 \in 1..Len(Q) /\ toServer'[c] = T
  BY <1>1
<1>3. \A i \in 1..Len(T) : \E j \in 1..Len(Q) : T[i] = Q[j]
  BY <1>1
<1>4. Underway(c) <=> \A i \in 1..Len(Q) : /\ Q[i].t \in {"end", "audio"} /\ Q[i].session = c
                                           /\ Q[i].t = "audio" => Q[i].seq = client.next
  BY DEF Underway
<1>5. Underway(c)' <=> \A i \in 1..Len(T) : /\ T[i].t \in {"end", "audio"} /\ T[i].session = c
                                            /\ T[i].t = "audio" => T[i].seq = client.next
  BY <1>2 DEF Underway
<1> HIDE DEF Q, T
<1>6. Underway(c)'
  BY <1>3, <1>4, <1>5
<1>7. /\ Head(Q).t \in {"end", "audio"} /\ Head(Q).session = c
      /\ Head(Q).t = "audio" => Head(Q).seq = client.next
  BY <1>1, <1>2, <1>4
<1> QED BY <1>1, <1>2, <1>3, <1>6, <1>7 DEF Q, T

\* Of the queue, an ahead session only waits for refusals.
LEMMA AheadRefuses ==
  ASSUME TypeInv, NEW c \in Connections, Ahead(c), toServer[c] # <<>>,
         UNCHANGED <<client, call, processed, acked>>, handler'[c].pc = "open", Kept(c),
         NoResult(toClient[c]) => NoResult(toClient'[c])
  PROVE  Ahead(c)'
BY DEF Ahead, Waiting, Kept

\* A step of the session's own handler.
LEMMA SessionHandled ==
  ASSUME TypeInv, ConnectionInv, NEW c \in Connections, Handled(c), SessionOf(c),
         acked \subseteq processed
  PROVE  SessionOf(c)'
<1> DEFINE h == handler[c]  n == client.next  Q == toServer[c]  R == toClient[c]
<1>0. /\ handler \in [Connections -> HandlerType] /\ Q \in Seq(ClientMessages)
      /\ R \in Seq(ServerMessages) /\ client \in ClientType
  BY DEF TypeInv, TypeOK
<1>n. n \in Nat /\ h.expected \in Nat
  BY <1>0, ConstantTypes DEF HandlerType, ClientType
<1>1. UNCHANGED <<client, call, acked>>
  BY HandledFrame
<1>2. processed \subseteq processed'
  BY DoneFacts DEF Handled, HandlerStep, Hello, HandleStart, HandleEnd, Ended, HandleAudio,
     ProviderFails, ChunkBreaks, HandleClose, Cleanup
<1>3. h.pc \notin {"none", "hello"} /\ ResultInv(c) /\ InStep(c)
  BY DEF SessionOf
<1>4. h.pc \in {"open", "stt"} => h.meeting # 0 /\ Underway(c) /\ (Agreed(c) \/ Ahead(c))
  BY <1>3 DEF InStep
<1>5. CASE Hello(c)
  BY <1>3, <1>5, HelloFacts
<1>6. CASE HandleStart(c)
  <2>1. Takes(c, "start")
    BY <1>6, StartFacts
  <2> QED BY <1>1, <1>4, <2>1, UnderwayTail DEF Takes
<1>7. CASE HandleClose(c)
  <2>1. Takes(c, "close")
    BY <1>7, CloseFacts
  <2> QED BY <1>1, <1>4, <2>1, UnderwayTail DEF Takes
<1>8. CASE Cleanup(c)
  <2>1. handler'[c] = Returned /\ toClient'[c] = R
    BY <1>8, CloseFacts
  <2>2. handler'[c].pc = "closed"
    BY <2>1 DEF Returned, NoHandler
  <2>3. ResultInv(c)'
    BY <1>1, <1>2, <1>3, <2>1, PlainAnswers, OtherAnswers
  <2> QED BY <2>2, <2>3 DEF SessionOf, InStep
<1>9. CASE Ended(c)
  <2>1. /\ handler'[c] = Returned /\ h.req \in Requests
        /\ Sent(c, <<Stopped(h.req, c), CloseMessage>>)
    BY <1>9, EndedFacts
  <2>2. handler'[c].pc = "closed"
    BY <2>1 DEF Returned, NoHandler
  <2> DEFINE more == <<Stopped(h.req, c), CloseMessage>>
  <2>3. /\ more \in Seq(ServerMessages) /\ NoResult(more)
        /\ (toClient'[c] = R \/ toClient'[c] = R \o more)
    BY <2>1, PlainAnswers DEF Sent
  <2> HIDE DEF more
  <2>4. ResultInv(c)'
    BY <1>1, <1>2, <1>3, <2>3, OtherAnswers
  <2> QED BY <2>2, <2>4 DEF SessionOf, InStep
<1>10. CASE ChunkBreaks(c)
  <2>1. handler'[c].pc = "closing" /\ Sent(c, <<ProtocolError("internal_error", TRUE), CloseMessage>>)
    BY <1>10, BreaksFacts
  <2> DEFINE more == <<ProtocolError("internal_error", TRUE), CloseMessage>>
  <2>2. /\ more \in Seq(ServerMessages) /\ NoResult(more)
        /\ (toClient'[c] = R \/ toClient'[c] = R \o more)
    BY <2>1, PlainAnswers DEF Sent, ErrorCodes
  <2> HIDE DEF more
  <2>3. ResultInv(c)'
    BY <1>1, <1>2, <1>3, <2>2, OtherAnswers
  <2> QED BY <2>1, <2>3 DEF SessionOf, InStep
<1>11. CASE HandleEnd(c)
  <2> DEFINE m == Head(Q)
  <2>1. /\ Takes(c, "end") /\ processed' = processed
        /\ \/ /\ h.meeting = 0 \/ m.session # c \/ m.last # LastSequence(c)
              /\ handler'[c] = h /\ \E code \in ErrorCodes : Sent(c, <<ProtocolError(code, FALSE)>>)
           \/ handler'[c].pc = "ending" /\ toClient'[c] = R
    BY <1>11, EndFacts
  <2>2. /\ h.pc = "open" /\ Q # <<>> /\ m.t = "end" /\ toServer'[c] = Tail(Q)
        /\ h.meeting # 0 /\ Underway(c) /\ (Agreed(c) \/ Ahead(c))
    BY <1>4, <2>1 DEF Takes
  <2>3. CASE handler'[c].pc = "ending" /\ toClient'[c] = R
    <3>1. ResultInv(c)'
      BY <1>1, <1>2, <1>3, <2>3, PlainAnswers, OtherAnswers
    <3> QED BY <2>3, <3>1 DEF SessionOf, InStep
  <2>4. CASE /\ h.meeting = 0 \/ m.session # c \/ m.last # LastSequence(c)
             /\ handler'[c] = h /\ \E code \in ErrorCodes : Sent(c, <<ProtocolError(code, FALSE)>>)
    <3>1. /\ Underway(c)' /\ m.session = c /\ \E i \in 1..Len(Q) : m = Q[i]
      BY <1>1, <2>2, UnderwayTail
    <3>2. ~Agreed(c)
      <4> SUFFICES ASSUME Agreed(c) PROVE FALSE
        OBVIOUS
      <4>1. h.expected = n /\ m.last = LastOf(n)
        BY <2>2, <3>1 DEF Agreed
      <4> QED BY <2>2, <2>4, <3>1, <4>1 DEF LastOf, LastSequence
    <3>3. PICK code \in ErrorCodes : Sent(c, <<ProtocolError(code, FALSE)>>)
      BY <2>4
    <3> DEFINE more == <<ProtocolError(code, FALSE)>>
    <3>4. /\ more \in Seq(ServerMessages) /\ NoResult(more)
          /\ (toClient'[c] = R \/ toClient'[c] = R \o more)
      BY <3>3, PlainAnswers DEF Sent
    <3> HIDE DEF more
    <3>5. ResultInv(c)' /\ (NoResult(R) => NoResult(toClient'[c]))
      BY <1>1, <1>2, <1>3, <3>4, OtherAnswers
    <3>6. Ahead(c)'
      BY <1>1, <2>1, <2>2, <2>4, <3>2, <3>5, AheadRefuses DEF Kept
    <3> QED BY <2>2, <2>4, <3>1, <3>5, <3>6 DEF SessionOf, InStep
  <2> QED BY <2>1, <2>3, <2>4
<1>12. CASE HandleAudio(c)
  <2> DEFINE m == Head(Q)
  <2>1. /\ Takes(c, "audio") /\ processed' = processed
        /\ \/ /\ h.meeting = 0 \/ m.session # c \/ m.seq # h.expected
              /\ handler'[c].pc = "open" /\ Kept(c)
              /\ \E code \in ErrorCodes : Sent(c, <<ProtocolError(code, FALSE)>>)
           \/ /\ handler'[c].pc = "closing"
              /\ \E code \in ErrorCodes : Sent(c, <<ProtocolError(code, TRUE), CloseMessage>>)
           \/ /\ m.seq = h.expected
              /\ handler'[c].pc = "stt" /\ handler'[c].audio = m.audio
              /\ handler'[c].expected = h.expected /\ handler'[c].meeting = h.meeting
              /\ toClient'[c] = R
    BY <1>12, AudioFacts
  <2>2. /\ h.pc = "open" /\ Q # <<>> /\ m.t = "audio" /\ toServer'[c] = Tail(Q)
        /\ h.meeting # 0 /\ Underway(c) /\ (Agreed(c) \/ Ahead(c))
    BY <1>4, <2>1 DEF Takes
  <2>3. /\ Underway(c)' /\ m.session = c /\ m.seq = n
        /\ \A i \in 1..Len(toServer'[c]) : \E j \in 1..Len(Q) : toServer'[c][i] = Q[j]
    BY <1>1, <2>2, UnderwayTail
  <2>4. CASE handler'[c].pc = "closing"
             /\ \E code \in ErrorCodes : Sent(c, <<ProtocolError(code, TRUE), CloseMessage>>)
    <3>1. PICK code \in ErrorCodes : Sent(c, <<ProtocolError(code, TRUE), CloseMessage>>)
      BY <2>4
    <3> DEFINE more == <<ProtocolError(code, TRUE), CloseMessage>>
    <3>2. /\ more \in Seq(ServerMessages) /\ NoResult(more)
          /\ (toClient'[c] = R \/ toClient'[c] = R \o more)
      BY <3>1, PlainAnswers DEF Sent
    <3> HIDE DEF more
    <3>3. ResultInv(c)'
      BY <1>1, <1>2, <1>3, <3>2, OtherAnswers
    <3> QED BY <2>4, <3>3 DEF SessionOf, InStep
  <2>5. CASE /\ h.meeting = 0 \/ m.session # c \/ m.seq # h.expected
             /\ handler'[c].pc = "open" /\ Kept(c)
             /\ \E code \in ErrorCodes : Sent(c, <<ProtocolError(code, FALSE)>>)
    <3>1. Ahead(c)
      BY <2>2, <2>3, <2>5 DEF Agreed
    <3>2. PICK code \in ErrorCodes : Sent(c, <<ProtocolError(code, FALSE)>>)
      BY <2>5
    <3> DEFINE more == <<ProtocolError(code, FALSE)>>
    <3>3. /\ more \in Seq(ServerMessages) /\ NoResult(more)
          /\ (toClient'[c] = R \/ toClient'[c] = R \o more)
      BY <3>2, PlainAnswers DEF Sent
    <3> HIDE DEF more
    <3>4. ResultInv(c)' /\ (NoResult(R) => NoResult(toClient'[c]))
      BY <1>1, <1>2, <1>3, <3>3, OtherAnswers
    <3>5. Ahead(c)'
      BY <1>1, <2>1, <2>2, <2>5, <3>1, <3>4, AheadRefuses
    <3> QED BY <2>2, <2>3, <2>5, <3>4, <3>5 DEF SessionOf, InStep, Kept
  <2>6. CASE /\ m.seq = h.expected
             /\ handler'[c].pc = "stt" /\ handler'[c].audio = m.audio
             /\ handler'[c].expected = h.expected /\ handler'[c].meeting = h.meeting
             /\ toClient'[c] = R
    <3>1. Agreed(c)
      BY <1>n, <2>2, <2>3, <2>6 DEF Ahead
    <3>2. /\ OneAudio(Q) /\ ~NoAudio(Q) /\ OneAudio(Tail(Q)) /\ NoAudio(Tail(Q))
          /\ Last(Q).t = "audio" => Tail(Q) = <<>> /\ Last(Q) = m
      BY <1>0, <2>2, <3>1, AudioQueue DEF Agreed
    <3>3. ResultInv(c)'
      BY <1>1, <1>2, <1>3, <2>6, PlainAnswers, OtherAnswers
    <3>4. Agreed(c)'
      <4>1. R = <<>> /\ client.inFlight /\ client.chunk = n /\ h.expected = n
        BY <3>1, <3>2 DEF Agreed
      <4>2. \A i \in 1..Len(toServer'[c]) : toServer'[c][i].t = "end" =>
              toServer'[c][i].last = LastOf(n)
        BY <2>3, <3>1 DEF Agreed
      <4>3. Waiting("chunk") => Tail(Q) = <<>> /\ m.audio = call.audio
        BY <3>1, <3>2 DEF Agreed
      <4>4. ~(call.kind = "chunk" /\ call.answer = "ok")
        BY <3>1 DEF Agreed
      <4>5. <<>> # <<ProtocolError("provider_error", FALSE)>>
        OBVIOUS
      <4> QED BY <1>1, <2>2, <2>6, <3>2, <4>1, <4>2, <4>3, <4>4, <4>5 DEF Agreed, Waiting
    <3> QED BY <2>2, <2>3, <2>6, <3>3, <3>4 DEF SessionOf, InStep
  <2> QED BY <2>1, <2>4, <2>5, <2>6
<1>13. CASE ProviderFails(c) \/ ChunkDone(c)
  <2>1. h.pc = "stt" /\ toServer'[c] = Q
    BY <1>13, ProviderFacts, DoneFacts
  <2>2. Agreed(c) /\ Underway(c) /\ h.meeting # 0
    BY <1>4, <2>1 DEF Ahead
  <2>3. /\ R = <<>> /\ client.inFlight /\ client.chunk = n /\ h.expected = n
        /\ NoAudio(Q) /\ OneAudio(Q)
        /\ \A i \in 1..Len(Q) : Q[i].t = "end" => Q[i].last = LastOf(n)
        /\ ~(call.kind = "chunk" /\ call.answer = "ok")
        /\ Waiting("chunk") => Q = <<>> /\ h.audio = call.audio
    BY <2>1, <2>2 DEF Agreed
  <2>4. Underway(c)'
    BY <1>1, <2>1, <2>2 DEF Underway
  <2>5. CASE ProviderFails(c)
    <3>1. handler'[c].pc = "open" /\ Kept(c) /\ Sent(c, <<ProtocolError("provider_error", FALSE)>>)
      BY <2>5, ProviderFacts
    <3> DEFINE more == <<ProtocolError("provider_error", FALSE)>>
    <3>2. /\ more \in Seq(ServerMessages) /\ NoResult(more)
          /\ (toClient'[c] = R \/ toClient'[c] = R \o more)
      BY <3>1, PlainAnswers DEF Sent, ErrorCodes
    <3> HIDE DEF more
    <3>3. ResultInv(c)'
      BY <1>1, <1>2, <1>3, <3>2, OtherAnswers
    <3>4. toClient'[c] \in {<<>>, more}
      BY <2>3, <3>2, ConcatEmptySeq
    <3>5. Agreed(c)'
      BY <1>1, <2>1, <2>3, <3>1, <3>4 DEF Agreed, Kept, Waiting, more
    <3> QED BY <2>2, <2>4, <3>1, <3>3, <3>5 DEF SessionOf, InStep, Kept
  <2>6. CASE ChunkDone(c)
    <3>1. /\ handler'[c].pc = "open" /\ handler'[c].meeting = h.meeting
          /\ handler'[c].expected = n + 1 /\ handler'[c].audio = h.audio
          /\ h.audio \in 1..MaxAudio
          /\ processed' = processed \cup {<<c, h.audio>>}
      BY <2>3, <2>6, DoneFacts
    <3>2. PICK parts \in Parts :
            /\ Sent(c, <<ChunkResult(n, parts)>>) /\ ChunkResult(n, parts) \in ServerMessages
      BY <2>3, <2>6, DoneFacts
    <3> DEFINE m == ChunkResult(n, parts)
    <3>3. m \in ServerMessages /\ m.seq = n
      BY <3>2, AnswerKinds
    <3>4. toClient'[c] \in {<<>>, <<m>>}
      BY <2>3, <3>2, <3>3, FewAnswers, ConcatEmptySeq DEF Sent
    <3> HIDE DEF m
    <3>5. ToSet(<<m>>) = {m} /\ Tail(<<m>>) = <<>> /\ NoResult(<<>>)
      <4>1. ToSet(<<m>>) = {m}
        BY <3>3, FewAnswers
      <4>2. NoResult(<<>>)
        BY <1>0, ResultQueue
      <4>3. Tail(<<m>>) = <<>>
        OBVIOUS
      <4> QED BY <4>1, <4>2, <4>3
    <3>6. <<c, h.audio>> \notin acked
      BY <2>1, <3>1 DEF ConnectionInv, ProcessedInv, ProcessedOf
    <3>7. ResultInv(c)'
      BY <1>1, <2>3, <3>1, <3>3, <3>4, <3>5 DEF ResultInv, Waiting, NoResult
    <3>8. Ahead(c)'
      BY <1>1, <2>1, <2>3, <3>1, <3>4, <3>5, <3>6 DEF Ahead, Waiting
    <3> QED BY <2>2, <2>4, <3>1, <3>7, <3>8 DEF SessionOf, InStep
  <2> QED BY <1>13, <2>5, <2>6
<1> QED BY <1>5, <1>6, <1>7, <1>8, <1>9, <1>10, <1>11, <1>12, <1>13 DEF Handled, HandlerStep

\* A step of the session's reader that leaves the session.
LEMMA SessionDispatch ==
  ASSUME TypeInv, ConnectionInv, NEW c \in Connections, Dispatch(c), SessionOf(c),
         client'.session = c
  PROVE  SessionOf(c)'
<1> DEFINE h == handler[c]  n == client.next  Q == toServer[c]  R == toClient[c]
<1>0. /\ client \in ClientType /\ R \in Seq(ServerMessages) /\ R # <<>> /\ c # 0
      /\ UNCHANGED <<handler, toServer, processed, acked>>
      /\ toClient'[c] = (IF c \in readers' THEN Tail(R) ELSE <<>>) /\ c \in readers
  BY DispatchFrame, ConstantTypes DEF TypeInv, TypeOK
<1>1. /\ h.pc \notin {"none", "hello"} /\ ResultInv(c)
      /\ h.pc \in {"open", "stt"} => h.meeting # 0 /\ Underway(c) /\ (Agreed(c) \/ Ahead(c))
  BY DEF SessionOf, InStep
<1>2. /\ Head(R) \in ToSet(R) /\ NoResult(Tail(R)) /\ NoResult(<<>>)
      /\ Tail(R) # <<>> => NoResult(Tail(Tail(R)))
  BY <1>0, <1>1, ResultQueue DEF ResultInv
<1>3. /\ NoResult(toClient'[c])
      /\ toClient'[c] # <<>> => NoResult(Tail(toClient'[c]))
  BY <1>0, <1>2
<1>4. \/ DispatchError(c) /\ client' = FailPending(client) /\ call' = FailCaller /\ readers' = readers
      \/ DispatchStarted(c) /\ (client' = client \/ \E r : client' = [client EXCEPT !.start = r])
           /\ (call' = call \/ call.kind = "start")
      \/ DispatchStopped(c) /\ (client' = client \/ \E r : client' = [client EXCEPT !.end = r])
           /\ (call' = call \/ call' = Answer("end", "ok"))
      \/ DispatchResult(c) /\ UNCHANGED <<client, call>>
      \/ /\ DispatchResult(c) /\ client' = [client EXCEPT !.chunk = NoChunk]
         /\ call' = Answer("chunk", "ok") /\ readers' = readers
  <2>1. client' # MarkFailed(FailPending(client))
    BY <1>0, FailedTwice
  <2>2. CASE DispatchError(c)
    BY <2>1, <2>2 DEF DispatchError
  <2>3. CASE DispatchStarted(c)
    BY <2>3 DEF DispatchStarted, Waiting
  <2>4. CASE DispatchStopped(c)
    BY <2>4 DEF DispatchStopped
  <2>5. CASE DispatchResult(c)
    BY <2>1, <2>5 DEF DispatchResult
  <2>6. CASE DispatchClose(c)
    BY <2>1, <2>6 DEF DispatchClose
  <2> QED BY <2>2, <2>3, <2>4, <2>5, <2>6 DEF Dispatch
<1>5. /\ client'.next = n /\ client'.session = client.session
      /\ DispatchError(c) \/ (client'.inFlight = client.inFlight)
  <2>1. CASE client' = FailPending(client) /\ DispatchError(c)
    BY <1>0, <2>1, FailedClient
  <2>2. CASE \E r : client' = [client EXCEPT !.start = r]
    BY <1>0, <2>2, ClientFields
  <2>3. CASE \E r : client' = [client EXCEPT !.end = r]
    BY <1>0, <2>3, ClientFields
  <2>4. CASE \E k : client' = [client EXCEPT !.chunk = k]
    BY <1>0, <2>4, ClientFields
  <2> QED BY <1>4, <2>1, <2>2, <2>3, <2>4
<1>6. call'.kind = "chunk" /\ call'.answer = "ok" =>
        \/ call.kind = "chunk" /\ call.answer = "ok" /\ call' = call
        \/ DispatchResult(c) /\ Waiting("chunk") /\ readers' = readers /\ call'.audio = call.audio
  <2>1. CASE call' = call
    BY <2>1
  <2>2. CASE call' = FailCaller
    <3>1. call'.answer # "ok" \/ call' = call
      BY <2>2, ClientTypes, AnswerFacts DEF FailCaller, Answer, Waiting
    <3> QED BY <3>1
  <2>3. CASE call.kind = "start"
    BY <2>3, DispatchFrame
  <2>4. CASE call' = Answer("end", "ok")
    BY <2>4, AnswerFacts DEF Waiting, Answer
  <2>5. CASE call' = Answer("chunk", "ok") /\ DispatchResult(c) /\ readers' = readers
    <3>1. CASE Waiting("chunk")
      BY <2>5, <3>1, AnswerFacts
    <3>2. CASE ~Waiting("chunk")
      BY <2>5, <3>2 DEF Answer
    <3> QED BY <3>1, <3>2
  <2> QED BY <1>4, <2>1, <2>2, <2>3, <2>4, <2>5
<1>7. DispatchResult(c) => Head(R).t = "chunk_result"
  BY DEF DispatchResult, Arrived
<1>8. ResultInv(c)'
  <2>1. call'.kind = "chunk" /\ call'.answer = "ok" => <<c, call'.audio>> \in processed
    BY <1>1, <1>2, <1>6, <1>7 DEF ResultInv
  <2> QED BY <1>0, <1>3, <2>1 DEF ResultInv, NoResult
<1>9. ASSUME h.pc \in {"open", "stt"} PROVE Agreed(c)' \/ Ahead(c)'
  <2>1. CASE Agreed(c)
    <3>1. R \in {<<AssistUnavailable>>, <<ProtocolError("provider_error", FALSE)>>}
      BY <1>0, <2>1 DEF Agreed
    <3>2. Head(R).t = "error" /\ ~Head(R).fatal /\ Tail(R) = <<>>
      <4>1. PICK e \in {"assist_unavailable", "provider_error"} : R = <<ProtocolError(e, FALSE)>>
        BY <3>1 DEF AssistUnavailable
      <4>2. ProtocolError(e, FALSE).t = "error"
        BY AnswerKinds
      <4>3. ~ProtocolError(e, FALSE).fatal
        BY AnswerKinds
      <4> DEFINE m == ProtocolError(e, FALSE)
      <4>4. m.t = "error" /\ R = <<m>>
        BY <4>1, <4>2
      <4>5. ~m.fatal
        BY <4>3
      <4> HIDE DEF m
      <4>6. Head(R) = m /\ Tail(R) = <<>>
        BY <4>4
      <4> QED BY <4>4, <4>5, <4>6
    <3>3. /\ client' = FailPending(client) /\ call' = FailCaller /\ toClient'[c] = <<>>
      BY <1>0, <1>4, <3>2 DEF DispatchStarted, DispatchStopped, DispatchResult, Arrived
    <3>4. NoAudio(Q) /\ h.pc = "open"
      BY <1>0, <1>9, <2>1 DEF Agreed
    <3>5. ~(call'.kind = "chunk" /\ call'.answer = "ok")
      BY <1>6, <1>7, <2>1, <3>2 DEF Agreed
    <3>6. <<>> # <<ProtocolError("provider_error", FALSE)>>
      OBVIOUS
    <3>7. /\ toServer'[c] = Q /\ handler'[c] = h /\ client'.next = n
          /\ h.expected = n /\ (\A i \in 1..Len(Q) : Q[i].t = "end" => Q[i].last = LastOf(n))
          /\ OneAudio(Q)
      BY <1>0, <1>5, <2>1 DEF Agreed
    <3>8. ~(call'.kind = "chunk" /\ call'.answer = "waiting" /\ h.pc = "stt") /\ h.pc # "stt"
      BY <3>4
    <3> QED BY <3>3, <3>4, <3>5, <3>6, <3>7, <3>8 DEF Agreed, Waiting
  <2>2. CASE Ahead(c)
    <3>1. call'.kind = "chunk" /\ call'.answer = "ok" => Q = <<>> /\ toClient'[c] = <<>>
      <4> SUFFICES ASSUME call'.kind = "chunk", call'.answer = "ok"
                   PROVE  Q = <<>> /\ toClient'[c] = <<>>
        OBVIOUS
      <4>1. DispatchResult(c) /\ Waiting("chunk") /\ readers' = readers
        BY <1>0, <1>6, <2>2 DEF Ahead
      <4>2. ~NoResult(R)
        BY <1>2, <1>7, <4>1 DEF NoResult
      <4>3. Q = <<>> /\ Tail(R) = <<>>
        BY <2>2, <4>1, <4>2 DEF Ahead
      <4> QED BY <1>0, <4>1, <4>3
    <3> QED BY <1>0, <1>3, <1>5, <2>2, <3>1 DEF Ahead
  <2> QED BY <1>1, <1>9, <2>1, <2>2
<1>10. Underway(c) => Underway(c)'
  BY <1>0, <1>5 DEF Underway
<1> QED BY <1>0, <1>1, <1>8, <1>9, <1>10 DEF SessionOf, InStep

\* The session begins at its first number with nothing under way.
LEMMA SessionEntry ==
  ASSUME TypeInv, ConnectionInv, StartingInv, StartReturns, call.answer = "ok"
  PROVE  client'.session = opened /\ opened \in Connections /\ SessionOf(opened)'
<1> DEFINE c == opened
<1>0. /\ client \in ClientType /\ call.kind = "start" /\ call' = NoCall
      /\ client' = [client EXCEPT !.status = "session_active",
                                  !.session = call.session, !.next = 0, !.inFlight = FALSE]
      /\ UNCHANGED <<handler, toServer, toClient, processed, acked, opened>>
  BY DEF StartReturns, TypeInv, TypeOK, serverVars
<1>1. client'.session = c /\ client'.next = 0 /\ ~client'.inFlight /\ call'.kind = "none"
  BY <1>0, ClientFields, NoCallFacts DEF ConnectionInv, LinkInv
<1>2. c # 0 /\ StartingOf(c) /\ c \in Connections
  BY <1>0, LinkFacts DEF StartingInv, Starting, ConnectionInv
<1>3. /\ handler[c].pc \notin {"none", "stt", "ending", "hello"} /\ handler[c].expected = 0
      /\ NoResult(toClient[c])
      /\ handler[c].pc = "open" => /\ handler[c].meeting # 0 /\ toServer[c] = <<>>
                                   /\ toClient[c] \in {<<>>, <<AssistUnavailable>>}
  BY <1>0, <1>2 DEF StartingOf, NothingYet, StartCall, FirstAnswers, NoResult
<1>4. toClient[c] # <<>> => NoResult(Tail(toClient[c]))
  <2>1. toClient[c] \in Seq(ServerMessages)
    BY <1>2 DEF TypeInv, TypeOK
  <2> QED BY <1>3, <2>1, ResultQueue
<1>5. ResultInv(c)'
  BY <1>0, <1>1, <1>3, <1>4 DEF ResultInv, NoResult, Waiting
<1>6. ASSUME handler[c].pc = "open" PROVE Underway(c)' /\ Agreed(c)'
  <2>1. <<AssistUnavailable>> # <<ProtocolError("provider_error", FALSE)>>
    <3>1. /\ AssistUnavailable.code = "assist_unavailable"
          /\ ProtocolError("provider_error", FALSE).code = "provider_error"
      BY AnswerKinds DEF AssistUnavailable
    <3> DEFINE m == AssistUnavailable  k == ProtocolError("provider_error", FALSE)
    <3>2. m # k
      BY <3>1
    <3> HIDE DEF m, k
    <3>3. <<m>> # <<k>>
      BY <3>2
    <3> QED BY <3>3 DEF m, k
  <2>2. <<>> # <<ProtocolError("provider_error", FALSE)>>
    OBVIOUS
  <2>3. Underway(c)'
    BY <1>0, <1>3, <1>6 DEF Underway
  <2>4. Agreed(c)'
    <3>1. /\ toServer'[c] = <<>> /\ NoAudio(<<>>) /\ OneAudio(<<>>)
          /\ \A i \in 1..Len(toServer'[c]) : FALSE
      BY <1>0, <1>3, <1>6 DEF NoAudio, OneAudio
    <3>2. /\ toClient'[c] \in {<<>>, <<AssistUnavailable>>} /\ handler'[c].pc = "open"
          /\ handler'[c].expected = client'.next
          /\ toClient'[c] # <<ProtocolError("provider_error", FALSE)>>
      BY <1>0, <1>1, <1>3, <1>6, <2>1, <2>2
    <3> QED BY <1>0, <1>1, <3>1, <3>2 DEF Agreed, Waiting
  <2> QED BY <2>3, <2>4
<1> QED BY <1>0, <1>1, <1>2, <1>3, <1>5, <1>6 DEF SessionOf, InStep

\* The chunk that is submitted finds nothing else under way.
LEMMA SessionSubmit ==
  ASSUME TypeInv, ConnectionInv, SubmitChunk, NEW c \in Connections, client.session = c,
         SessionOf(c)
  PROVE  SessionOf(c)'
<1> DEFINE n == client.next  Q == toServer[c]  R == toClient[c]
           m == AudioMessage(c, n, captured + 1)
<1>0. /\ client \in ClientType /\ Q \in Seq(ClientMessages) /\ R \in Seq(ServerMessages)
      /\ call' = [NoCall EXCEPT !.kind = "chunk", !.answer = "waiting",
                            !.seq = client.next, !.audio = captured + 1]
      /\ client' = [client EXCEPT !.chunk = n, !.inFlight = TRUE]
      /\ UNCHANGED <<handler, toClient, processed, acked>>
      /\ ~client.inFlight /\ client.writer # 0 /\ Settled /\ captured < MaxAudio
      /\ SendTo(client.writer, AudioMessage(client.session, client.next, captured + 1))
  BY DEF SubmitChunk, TypeInv, TypeOK, serverVars
<1>1. /\ client'.next = n /\ client'.chunk = n /\ client'.inFlight = TRUE
      /\ call'.kind = "chunk" /\ call'.answer = "waiting" /\ call'.audio = captured + 1
  BY <1>0, ClientFields, NoCallFacts
<1>2. client.writer = c
  BY <1>0, ConstantTypes DEF ConnectionInv, LinkInv
<1>3. toServer'[c] = IF handler[c].pc = "closed" THEN Q ELSE Append(Q, m)
  BY <1>0, <1>2, SendFacts
<1>4. m \in ClientMessages /\ m.t = "audio" /\ m.session = c /\ m.seq = n /\ m.audio = captured + 1
  <2>1. n \in 0..MaxAudio /\ captured + 1 \in 1..MaxAudio
    <3>1. captured \in 0..MaxAudio /\ captured < MaxAudio
      BY <1>0 DEF TypeInv, TypeOK
    <3>2. n \in 0..MaxAudio
      BY ClientTypes
    <3> QED BY <3>1, <3>2, ConstantTypes
  <2>2. m \in ClientMessages
    BY <2>1, MessageTypes
  <2> QED BY <2>2 DEF AudioMessage
<1> HIDE DEF m
<1>5. /\ ResultInv(c) /\ NoResult(R)
      /\ handler[c].pc \notin {"none", "hello"}
      /\ handler[c].pc \in {"open", "stt"} =>
           handler[c].meeting # 0 /\ Underway(c) /\ (Agreed(c) \/ Ahead(c))
  BY <1>0 DEF SessionOf, InStep, ResultInv, NoResult
<1>6. ResultInv(c)'
  BY <1>0, <1>1, <1>5 DEF ResultInv, NoResult
<1>7. ASSUME handler[c].pc \in {"open", "stt"} PROVE Underway(c)' /\ (Agreed(c)' \/ Ahead(c)')
  <2> DEFINE A == Append(Q, m)
  <2>0. toServer'[c] = A
    BY <1>3, <1>7
  <2>1. /\ Len(Q) \in Nat /\ Len(A) = Len(Q) + 1 /\ A[Len(Q) + 1] = m
        /\ \A i \in 1..Len(Q) : A[i] = Q[i]
    BY <1>0, <1>4, QueueFacts
  <2>2. \A i \in 1..Len(A) : A[i] = m \/ \E j \in 1..Len(Q) : A[i] = Q[j]
    <3> HIDE DEF A
    <3> QED BY <2>1
  <2>3. Last(A) = m /\ (NoAudio(Q) => OneAudio(A))
    BY <1>0, <1>4, AudioQueue
  <2> HIDE DEF A
  <2>4. Underway(c)'
    BY <1>1, <1>4, <1>5, <1>7, <2>0, <2>2 DEF Underway
  <2>5. CASE Agreed(c)
    <3>1. handler[c].pc = "open" /\ NoAudio(Q) /\ handler[c].expected = n
      BY <1>0, <1>7, <2>5 DEF Agreed
    <3>2. R = <<>>
      <4>1. R # <<AssistUnavailable>>
        <5> SUFFICES ASSUME R = <<AssistUnavailable>> PROVE FALSE
          OBVIOUS
        <5>1. 1 \in 1..Len(R) /\ R[1] = AssistUnavailable
          OBVIOUS
        <5> QED BY <1>0, <1>2, <5>1 DEF Settled, AssistUnavailable
      <4> QED BY <1>0, <2>5, <4>1 DEF Agreed
    <3>3. \A i \in 1..Len(A) : A[i].t = "end" => A[i].last = LastOf(n)
      BY <1>4, <2>2, <2>5 DEF Agreed
    <3>4. <<>> # <<ProtocolError("provider_error", FALSE)>>
      OBVIOUS
    <3>5. Agreed(c)'
      BY <1>0, <1>1, <1>4, <2>0, <2>3, <3>1, <3>2, <3>3, <3>4 DEF Agreed, Waiting
    <3> QED BY <2>4, <3>5
  <2>6. CASE Ahead(c)
    BY <1>0, <1>1, <1>5, <2>4, <2>6 DEF Ahead
  <2> QED BY <1>5, <1>7, <2>5, <2>6
<1> QED BY <1>0, <1>5, <1>6, <1>7 DEF SessionOf, InStep

\* The result that is reported levels the numbers.
LEMMA SessionReturns ==
  ASSUME TypeInv, ConnectionInv, ChunkReturns, NEW c \in Connections, client.session = c,
         call.kind = "chunk" /\ call.answer = "failed" => ~client.inFlight,
         SessionOf(c)
  PROVE  SessionOf(c)'
<1> DEFINE n == client.next  Q == toServer[c]  R == toClient[c]
<1>0. /\ client \in ClientType /\ call' = NoCall /\ call.kind = "chunk"
      /\ UNCHANGED <<handler, toServer, toClient, processed>>
  BY DEF ChunkReturns, TypeInv, TypeOK, serverVars
<1>1. call'.kind = "none"
  BY <1>0, NoCallFacts
<1>2. /\ ResultInv(c)
      /\ handler[c].pc \notin {"none", "hello"}
      /\ handler[c].pc \in {"open", "stt"} =>
           handler[c].meeting # 0 /\ Underway(c) /\ (Agreed(c) \/ Ahead(c))
  BY DEF SessionOf, InStep
<1>3. CASE UNCHANGED <<client, acked>>
  BY <1>0, <1>1, <1>3, SessionQuiet
<1>4. CASE call.answer = "ok" /\ client' = [client EXCEPT !.next = @ + 1, !.inFlight = FALSE]
  <2>1. client' = [client EXCEPT !.next = n + 1, !.inFlight = FALSE]
    BY <1>4
  <2>2. client'.next = n + 1 /\ ~client'.inFlight
    BY <1>0, <2>1, ClientFields
  <2>3. ResultInv(c)'
    BY <1>0, <1>1, <1>2, <1>4 DEF ResultInv, Waiting, NoResult
  <2>4. handler[c].pc \in {"open", "stt"} =>
          /\ handler[c].pc = "open" /\ handler[c].expected = n + 1 /\ Q = <<>> /\ R = <<>>
    BY <1>0, <1>2, <1>4 DEF Agreed, Ahead
  <2>5. <<>> # <<ProtocolError("provider_error", FALSE)>>
    OBVIOUS
  <2>6. ASSUME handler[c].pc \in {"open", "stt"} PROVE Underway(c)' /\ Agreed(c)'
    <3>1. /\ toServer'[c] = <<>> /\ NoAudio(<<>>) /\ OneAudio(<<>>)
          /\ \A i \in 1..Len(toServer'[c]) : FALSE
      BY <1>0, <2>4, <2>6 DEF NoAudio, OneAudio
    <3>2. /\ toClient'[c] = <<>> /\ handler'[c].pc = "open"
          /\ handler'[c].expected = client'.next
      BY <1>0, <2>2, <2>4, <2>6
    <3>3. Underway(c)'
      BY <3>1 DEF Underway
    <3> QED BY <1>1, <2>5, <3>1, <3>2, <3>3 DEF Agreed, Waiting
  <2> QED BY <1>0, <1>2, <2>3, <2>6 DEF SessionOf, InStep
<1>5. CASE /\ call.answer = "failed" /\ acked' = acked
           /\ client' = [client EXCEPT
             !.chunk = IF @ = call.seq THEN NoChunk ELSE @,
             !.inFlight = @ /\ ~(client.session # 0 /\ client.next = call.seq)]
  <2>2. client'.next = n
    BY <1>5, ReturnsFacts
  <2>3. ~client.inFlight /\ ~client'.inFlight
    BY <1>0, <1>5 DEF ClientType
  <2>4. NoResult(R)
    BY <1>2, <2>3 DEF ResultInv, NoResult
  <2>5. ResultInv(c)'
    BY <1>0, <1>1, <1>2, <2>4 DEF ResultInv, Waiting, NoResult
  <2>6. Underway(c) => Underway(c)'
    BY <1>0, <2>2 DEF Underway
  <2>7. Agreed(c) => Agreed(c)'
    BY <1>0, <1>1, <2>2, <2>3 DEF Agreed, Waiting
  <2>8. Ahead(c) => Ahead(c)'
    BY <1>0, <1>1, <1>5, <2>2 DEF Ahead, Waiting
  <2> QED BY <1>0, <1>2, <2>5, <2>6, <2>7, <2>8 DEF SessionOf, InStep
<1> QED BY <1>3, <1>4, <1>5 DEF ChunkReturns

\* The end is asked for with the client's own last number.
LEMMA SessionAsks ==
  ASSUME TypeInv, ConnectionInv, EndSession, NEW c \in Connections, client.session = c,
         SessionOf(c)
  PROVE  SessionOf(c)'
<1> DEFINE n == client.next  Q == toServer[c]  R == toClient[c]
           m == EndMessage(requests + 1, c, LastOf(n))
<1>0. /\ client \in ClientType /\ Q \in Seq(ClientMessages)
      /\ UNCHANGED <<handler, toClient, processed, acked>> /\ call = NoCall /\ flow = "end"
  BY DEF EndSession, TypeInv, TypeOK, serverVars
<1>1. CASE UNCHANGED <<client, call, toServer>>
  BY <1>0, <1>1, SessionQuiet
<1>2. CASE /\ client' = [client EXCEPT !.end = requests + 1] /\ client.writer # 0
           /\ call' = [NoCall EXCEPT !.kind = "end", !.answer = "waiting",
                               !.req = requests + 1, !.session = client.session]
           /\ SendTo(client.writer, EndMessage(requests + 1, client.session,
                        IF client.next > 0 THEN client.next - 1 ELSE 0))
  <2>1. /\ client'.next = n /\ client'.chunk = client.chunk /\ client'.inFlight = client.inFlight
        /\ call'.kind = "end"
    BY <1>0, <1>2, ClientFields, NoCallFacts
  <2>2. client.writer = c
    BY <1>2, ConstantTypes DEF ConnectionInv, LinkInv
  <2>3. toServer'[c] = IF handler[c].pc = "closed" THEN Q ELSE Append(Q, m)
    BY <1>2, <2>2, SendFacts DEF LastOf
  <2>4. m \in ClientMessages /\ m.t = "end" /\ m.session = c /\ m.last = LastOf(n)
    <3>1. n \in 0..MaxAudio /\ requests \in 0..MaxRequests /\ requests < MaxRequests
      BY <1>0, NoCallFacts DEF ClientType, TypeInv, TypeOK, RequestBounds
    <3>2. LastOf(n) \in 0..MaxAudio /\ requests + 1 \in Requests
      BY <3>1, ConstantTypes DEF LastOf, Requests
    <3>3. m \in ClientMessages
      BY <3>2, MessageTypes
    <3> QED BY <3>3 DEF EndMessage
  <2> HIDE DEF m
  <2>5. /\ ResultInv(c) /\ handler[c].pc \notin {"none", "hello"}
        /\ handler[c].pc \in {"open", "stt"} =>
             handler[c].meeting # 0 /\ Underway(c) /\ (Agreed(c) \/ Ahead(c))
    BY DEF SessionOf, InStep
  <2>6. ResultInv(c)'
    BY <1>0, <2>1, <2>5 DEF ResultInv, Waiting
  <2>7. ASSUME handler[c].pc \in {"open", "stt"} PROVE Underway(c)' /\ (Agreed(c)' \/ Ahead(c)')
    <3> DEFINE A == Append(Q, m)
    <3>0. toServer'[c] = A
      BY <2>3, <2>7
    <3>1. /\ Len(Q) \in Nat /\ Len(A) = Len(Q) + 1 /\ A[Len(Q) + 1] = m
          /\ \A i \in 1..Len(Q) : A[i] = Q[i]
      BY <1>0, <2>4, QueueFacts
    <3>2. \A i \in 1..Len(A) : A[i] = m \/ \E j \in 1..Len(Q) : A[i] = Q[j]
      <4> HIDE DEF A
      <4> QED BY <3>1
    <3>3. (NoAudio(Q) => NoAudio(A)) /\ (OneAudio(Q) => OneAudio(A))
      BY <1>0, <2>4, AudioQueue
    <3> HIDE DEF A
    <3>4. Underway(c)'
      BY <2>1, <2>4, <2>5, <2>7, <3>0, <3>2 DEF Underway
    <3>5. CASE Agreed(c)
      <4>1. \A i \in 1..Len(A) : A[i].t = "end" => A[i].last = LastOf(n)
        BY <2>4, <3>2, <3>5 DEF Agreed
      <4>2. Agreed(c)'
        BY <1>0, <2>1, <3>0, <3>3, <3>5, <4>1 DEF Agreed, Waiting
      <4> QED BY <3>4, <4>2
    <3>6. CASE Ahead(c)
      BY <1>0, <2>1, <3>4, <3>6 DEF Ahead, Waiting
    <3> QED BY <2>5, <2>7, <3>5, <3>6
  <2> QED BY <1>0, <2>5, <2>6, <2>7 DEF SessionOf, InStep
<1> QED BY <1>1, <1>2 DEF EndSession

\* A session is the one before, or start_session has just returned.
LEMMA SessionBefore ==
  ASSUME TypeInv, WindowInv, LinkInv, [Next]_vars, NEW c \in Connections, client'.session = c
  PROVE  \/ StartReturns /\ call.answer = "ok"
         \/ /\ client.session = c /\ ~ConnectDone /\ ~ConnectFails /\ ~ChunkTimesOut /\ ~Disconnect
            /\ Connect => UNCHANGED <<client, call, handler>>
<1> USE DEF serverVars, clientVars, uiVars
<1>0. client \in ClientType /\ c # 0
  BY ConstantTypes DEF TypeInv, TypeOK
<1>1. client' # MarkFailed(FailPending(client)) /\ client' # NoClient
  <2>1. client' # NoClient
    BY <1>0 DEF NoClient
  <2> QED BY <1>0, <2>1, FailedTwice
<1>a. ~ConnectFails /\ ~ChunkTimesOut /\ ~Disconnect
  BY <1>1 DEF ConnectFails, ChunkTimesOut, Disconnect
<1>2. CASE Connect
  <2>1. CASE UNCHANGED <<client, call, handler>>
    BY <1>2, <1>a, <2>1, NoCallFacts DEF Connect, ConnectDone, Waiting
  <2>2. CASE /\ client.status \in {"disconnected", "failed"}
             /\ client' = [client EXCEPT !.status = "connecting"]
    <3>1. client'.session = client.session
      BY <1>0, <2>2, ClientFields
    <3> QED BY <1>0, <2>2, <3>1 DEF LinkInv
  <2> QED BY <1>1, <1>2, <2>1, <2>2 DEF Connect
<1>3. CASE ConnectDone
  <2>1. client.session = 0
    BY <1>3, LinkFacts DEF ConnectDone, Waiting
  <2>2. client' = [client EXCEPT !.status = "connected", !.writer = opened, !.tasks = opened]
    BY <1>3 DEF ConnectDone
  <2> QED BY <1>0, <2>1, <2>2, ClientFields
<1>4. SUFFICES ASSUME ~Connect, ~ConnectDone, ~(StartReturns /\ call.answer = "ok")
               PROVE  client.session = c
  BY <1>2, <1>3, <1>a
<1>5. CASE client' = client
  BY <1>5
<1>6. CASE StartSession
  <2>1. client' = client \/ \E r : client' = [client EXCEPT !.start = r]
    BY <1>6 DEF StartSession
  <2>2. CASE \E r : client' = [client EXCEPT !.start = r]
    BY <1>0, <2>2, ClientFields
  <2> QED BY <1>5, <2>1, <2>2
<1>7. CASE StartReturns
  <2>1. \E r : client' = [client EXCEPT !.start = r]
    BY <1>4, <1>7 DEF StartReturns
  <2> QED BY <1>0, <2>1, ClientFields
<1>8. CASE SubmitChunk
  <2>1. client' = [client EXCEPT !.chunk = client.next, !.inFlight = TRUE]
    BY <1>8 DEF SubmitChunk
  <2> QED BY <1>0, <2>1, ClientFields
<1>9. CASE ChunkReturns
  BY <1>4, <1>9, ReturnsFacts
<1>10. CASE EndSession \/ EndReturns
  <2>1. \/ client' = client
        \/ client' = [client EXCEPT !.session = 0, !.next = 0, !.status = "connected"]
        \/ \E r : client' = [client EXCEPT !.end = r]
    BY <1>10 DEF EndSession, EndReturns
  <2>2. CASE client' = [client EXCEPT !.session = 0, !.next = 0, !.status = "connected"]
    BY <1>0, <2>2, ClientFields
  <2>3. CASE \E r : client' = [client EXCEPT !.end = r]
    BY <1>0, <2>3, ClientFields
  <2> QED BY <1>5, <2>1, <2>2, <2>3
<1>11. ASSUME NEW d \in Connections, Dispatch(d) PROVE client.session = c
  <2>1. \/ client' = client \/ client' = FailPending(client)
        \/ \E r : client' = [client EXCEPT !.start = r]
        \/ \E k : client' = [client EXCEPT !.chunk = k]
        \/ \E r : client' = [client EXCEPT !.end = r]
    BY <1>1, <1>11 DEF Dispatch, DispatchStarted, DispatchResult, DispatchStopped, DispatchError,
       DispatchClose
  <2>2. CASE client' = FailPending(client)
    BY <1>0, <2>2, FailedClient
  <2>3. CASE \E r : client' = [client EXCEPT !.start = r]
    BY <1>0, <2>3, ClientFields
  <2>4. CASE \E k : client' = [client EXCEPT !.chunk = k]
    BY <1>0, <2>4, ClientFields
  <2>5. CASE \E r : client' = [client EXCEPT !.end = r]
    BY <1>0, <2>5, ClientFields
  <2> QED BY <1>5, <2>1, <2>2, <2>3, <2>4, <2>5
<1>12. ASSUME NEW d \in Connections, Handled(d) PROVE client.session = c
  BY <1>5, <1>12 DEF Handled
<1>13. CASE \/ PressStart \/ CreateMeeting \/ StartMeeting \/ ChunkDropped \/ PressEnd \/ ReadStatus
            \/ (EndMeeting /\ UNCHANGED <<clientVars, uiVars>>) \/ BackendDown \/ BackendReady
            \/ UNCHANGED vars
  BY <1>5, <1>13 DEF PressStart, CreateMeeting, StartMeeting, ChunkDropped, PressEnd, ReadStatus,
     BackendDown, BackendReady, vars
<1> QED BY <1>a, <1>4, <1>6, <1>7, <1>8, <1>9, <1>10, <1>11, <1>12, <1>13 DEF Next, ClientStep

\* A report of a chunk is of one that was answered, and a failed one is over.
LEMMA ReportStep ==
  ASSUME TypeInv, ConnectionInv, SessionInv, [Next]_vars
  PROVE  /\ acked' \subseteq processed' /\ processed \subseteq processed'
         /\ call'.kind = "chunk" /\ call'.answer = "failed" => ~client'.inFlight
<1> USE DEF serverVars, clientVars, uiVars
<1>0. /\ client \in ClientType /\ acked \subseteq processed
      /\ call.kind = "chunk" /\ call.answer = "failed" => ~client.inFlight
      /\ processed \subseteq Connections \X (1..MaxAudio)
  BY DEF TypeInv, TypeOK, SessionInv
<1>1. CASE UNCHANGED <<client, call, acked, processed>>
  BY <1>0, <1>1
<1>2. CASE UNCHANGED <<acked, processed>> /\ call'.kind # "chunk"
  BY <1>0, <1>2
<1>3. CASE \/ PressStart \/ CreateMeeting \/ StartMeeting \/ PressEnd \/ ReadStatus
           \/ (EndMeeting /\ UNCHANGED <<clientVars, uiVars>>) \/ BackendDown \/ BackendReady
           \/ UNCHANGED vars
  BY <1>1, <1>3 DEF PressStart, CreateMeeting, StartMeeting, PressEnd, ReadStatus, EndMeeting,
     BackendDown, BackendReady, vars
<1>4. CASE ConnectDone \/ ConnectFails \/ StartReturns \/ ChunkTimesOut \/ ChunkDropped \/ EndReturns
  BY <1>2, <1>4, NoCallFacts DEF ConnectDone, ConnectFails, StartReturns, ChunkTimesOut,
     ChunkDropped, EndReturns
<1>5. CASE Disconnect
  <2>1. call' = NoCall /\ UNCHANGED <<acked, processed>>
    BY <1>5 DEF Disconnect
  <2> QED BY <1>2, <2>1, NoCallFacts
<1>6. CASE Connect
  <2>1. /\ call = NoCall /\ UNCHANGED <<acked, processed>>
        /\ call' = call \/ call' = [NoCall EXCEPT !.kind = "connect", !.answer = "waiting"]
    BY <1>6 DEF Connect
  <2>2. call'.kind # "chunk"
    BY <2>1, NoCallFacts
  <2> QED BY <1>2, <2>1, <2>2
<1>7. CASE StartSession
  <2>1. /\ call = NoCall /\ UNCHANGED <<acked, processed>>
        /\ call' = call \/ call' = [NoCall EXCEPT !.kind = "start", !.answer = "waiting", !.req = requests]
    BY <1>7 DEF StartSession
  <2>2. CASE call' = call
    BY <1>2, <2>1, <2>2, NoCallFacts
  <2>3. CASE call' = [NoCall EXCEPT !.kind = "start", !.answer = "waiting", !.req = requests]
    <3>1. call'.kind = "start"
      BY <2>3, NoCallFacts
    <3> QED BY <1>2, <2>1, <3>1
  <2> QED BY <2>1, <2>2, <2>3
<1>8. CASE EndSession
  <2>1. /\ call = NoCall /\ UNCHANGED <<acked, processed>>
        /\ \/ call' = call
           \/ call' = [NoCall EXCEPT !.kind = "end", !.answer = "waiting",
                               !.req = requests + 1, !.session = client.session]
    BY <1>8 DEF EndSession
  <2>2. CASE call' = call
    BY <1>2, <2>1, <2>2, NoCallFacts
  <2>3. CASE call' = [NoCall EXCEPT !.kind = "end", !.answer = "waiting",
                               !.req = requests + 1, !.session = client.session]
    <3>1. call'.kind = "end"
      BY <2>3, NoCallFacts
    <3> QED BY <1>2, <2>1, <3>1
  <2> QED BY <2>1, <2>2, <2>3
<1>9. CASE SubmitChunk
  <2>1. /\ UNCHANGED <<acked, processed>>
        /\ call' = [NoCall EXCEPT !.kind = "chunk", !.answer = "waiting",
                            !.seq = client.next, !.audio = captured + 1]
    BY <1>9 DEF SubmitChunk
  <2>2. call'.answer = "waiting"
    BY <2>1, NoCallFacts
  <2> QED BY <1>0, <2>1, <2>2
<1>10. CASE ChunkReturns
  <2>1. /\ call' = NoCall /\ processed' = processed
        /\ \/ acked' = acked
           \/ /\ call.kind = "chunk" /\ call.answer = "ok" /\ client.session # 0
              /\ acked' = acked \cup {<<client.session, call.audio>>}
    BY <1>10 DEF ChunkReturns
  <2>2. acked' \subseteq processed
    <3>1. CASE acked' = acked
      BY <1>0, <3>1
    <3>2. CASE /\ call.kind = "chunk" /\ call.answer = "ok" /\ client.session # 0
               /\ acked' = acked \cup {<<client.session, call.audio>>}
      <4>1. client.session \in Connections
        BY <1>0, <3>2, LinkFacts DEF ConnectionInv, LinkInv
      <4>2. SessionOf(client.session)
        BY <4>1 DEF SessionInv
      <4>3. <<client.session, call.audio>> \in processed
        BY <3>2, <4>2 DEF SessionOf, ResultInv
      <4> QED BY <1>0, <3>2, <4>3
    <3> QED BY <2>1, <3>1, <3>2
  <2> QED BY <2>1, <2>2, NoCallFacts
<1>11. ASSUME NEW c \in Connections, Handled(c)
       PROVE  /\ acked' \subseteq processed' /\ processed \subseteq processed'
              /\ call'.kind = "chunk" /\ call'.answer = "failed" => ~client'.inFlight
  <2>1. UNCHANGED <<client, call, acked>>
    BY <1>11, HandledFrame
  <2>2. processed \subseteq processed'
    BY <1>11, DoneFacts DEF Handled, HandlerStep, Hello, HandleStart, HandleEnd, Ended, HandleAudio,
       ProviderFails, ChunkBreaks, HandleClose, Cleanup
  <2> QED BY <1>0, <2>1, <2>2
<1>12. ASSUME NEW c \in Connections, Dispatch(c)
       PROVE  /\ acked' \subseteq processed' /\ processed \subseteq processed'
              /\ call'.kind = "chunk" /\ call'.answer = "failed" => ~client'.inFlight
  <2>1. UNCHANGED <<processed, acked>>
    BY <1>12, DispatchFrame
  <2>2. \/ client' = MarkFailed(FailPending(client)) \/ client' = FailPending(client)
        \/ /\ call' = call \/ call.kind = "start"
           /\ client' = client \/ \E r : client' = [client EXCEPT !.start = r]
        \/ /\ call' = Answer("chunk", "ok")
           /\ \E k : client' = [client EXCEPT !.chunk = k]
        \/ /\ call' = call \/ call' = Answer("end", "ok")
           /\ client' = client \/ \E r : client' = [client EXCEPT !.end = r]
    <3>1. CASE DispatchStarted(c)
      BY <3>1 DEF DispatchStarted, Waiting
    <3>2. CASE DispatchResult(c)
      BY <3>2 DEF DispatchResult
    <3>3. CASE DispatchStopped(c)
      BY <3>3 DEF DispatchStopped
    <3>4. CASE DispatchError(c) \/ DispatchClose(c)
      BY <3>4 DEF DispatchError, DispatchClose
    <3> QED BY <1>12, <3>1, <3>2, <3>3, <3>4 DEF Dispatch
  <2>3. CASE client' = MarkFailed(FailPending(client)) \/ client' = FailPending(client)
    <3>1. client'.inFlight = FALSE
      <4>1. CASE client' = MarkFailed(FailPending(client))
        BY <1>0, <4>1, FailedTwice
      <4>2. CASE client' = FailPending(client)
        BY <1>0, <4>2, FailedClient
      <4> QED BY <2>3, <4>1, <4>2
    <3> QED BY <1>0, <2>1, <3>1
  <2>4. CASE /\ call' = call \/ call.kind = "start"
             /\ client' = client \/ \E r : client' = [client EXCEPT !.start = r]
    <3>1. client'.inFlight = client.inFlight
      <4>1. CASE \E r : client' = [client EXCEPT !.start = r]
        BY <1>0, <4>1, ClientFields
      <4> QED BY <2>4, <4>1
    <3>2. call'.kind = call.kind
      BY <1>12, DispatchFrame
    <3> QED BY <1>0, <2>1, <2>4, <3>1, <3>2
  <2>5. CASE /\ call' = Answer("chunk", "ok")
             /\ \E k : client' = [client EXCEPT !.chunk = k]
    <3>1. client'.inFlight = client.inFlight
      BY <1>0, <2>5, ClientFields
    <3>2. call'.answer \in {"ok", call.answer} /\ call'.kind = call.kind
      BY <2>5, AnswerFacts
    <3> QED BY <1>0, <2>1, <3>1, <3>2
  <2>6. CASE /\ call' = call \/ call' = Answer("end", "ok")
             /\ client' = client \/ \E r : client' = [client EXCEPT !.end = r]
    <3>1. client'.inFlight = client.inFlight
      <4>1. CASE \E r : client' = [client EXCEPT !.end = r]
        BY <1>0, <4>1, ClientFields
      <4> QED BY <2>6, <4>1
    <3>2. call'.answer \in {"ok", call.answer} /\ call'.kind = call.kind
      BY <2>6, AnswerFacts
    <3> QED BY <1>0, <2>1, <3>1, <3>2
  <2> QED BY <2>2, <2>3, <2>4, <2>5, <2>6
<1> QED BY <1>0, <1>3, <1>4, <1>5, <1>6, <1>7, <1>8, <1>9, <1>10, <1>11, <1>12 DEF Next, ClientStep

\* Handler and client of a session stay in step.
LEMMA SessionStep ==
  ASSUME TypeInv, ConnectionInv, StartingInv, SessionInv, [Next]_vars
  PROVE  SessionInv'
<1> USE DEF serverVars, clientVars, uiVars
<1>0. /\ acked' \subseteq processed' /\ processed \subseteq processed'
      /\ call'.kind = "chunk" /\ call'.answer = "failed" => ~client'.inFlight
  BY ReportStep
<1> SUFFICES ASSUME NEW c \in Connections, client'.session = c PROVE SessionOf(c)'
  BY <1>0 DEF SessionInv
<1>1. CASE StartReturns /\ call.answer = "ok"
  <2>1. client'.session = opened /\ SessionOf(opened)'
    BY <1>1, SessionEntry
  <2>2. opened' = opened
    BY <1>1 DEF StartReturns
  <2> QED BY <2>1, <2>2 DEF SessionOf, ResultInv, InStep, Underway, Agreed, Ahead
<1>2. CASE ~(StartReturns /\ call.answer = "ok")
  <2>1. /\ client.session = c /\ ~ConnectDone /\ ~ConnectFails /\ ~ChunkTimesOut /\ ~Disconnect
        /\ Connect => UNCHANGED <<client, call, handler>>
    BY <1>2, SessionBefore DEF ConnectionInv
  <2>2. /\ SessionOf(c) /\ acked \subseteq processed /\ c = opened /\ c # 0
        /\ call.kind = "chunk" /\ call.answer = "failed" => ~client.inFlight
    BY <2>1, ConstantTypes DEF SessionInv, ConnectionInv, LinkInv
  <2>0. client \in ClientType
    BY DEF TypeInv, TypeOK
  <2>3. CASE UNCHANGED <<handler, toServer, toClient, client, call, acked>>
    BY <1>0, <2>2, <2>3, SessionQuiet
  <2>4. CASE \/ PressStart \/ CreateMeeting \/ StartMeeting \/ PressEnd \/ ReadStatus
             \/ (EndMeeting /\ UNCHANGED <<clientVars, uiVars>>) \/ BackendReady
             \/ UNCHANGED vars \/ Connect
    BY <2>1, <2>3, <2>4 DEF PressStart, CreateMeeting, StartMeeting, PressEnd, ReadStatus,
       EndMeeting, BackendReady, vars, Connect
  <2>5. CASE StartSession
    BY <2>1, <2>2, <2>3, <2>5 DEF StartSession
  <2>6. CASE StartReturns
    <3>1. /\ UNCHANGED <<handler, toServer, toClient, acked>> /\ call' = NoCall
          /\ \E r : client' = [client EXCEPT !.start = r]
      BY <1>2, <2>6 DEF StartReturns
    <3>2. /\ client'.next = client.next /\ client'.inFlight = client.inFlight
          /\ client'.chunk = client.chunk /\ call'.kind # "chunk"
      BY <2>0, <3>1, ClientFields, NoCallFacts
    <3> QED BY <1>0, <2>2, <3>1, <3>2, SessionQuiet
  <2>7. CASE SubmitChunk
    BY <2>1, <2>2, <2>7, SessionSubmit
  <2>8. CASE ChunkReturns
    BY <2>1, <2>2, <2>8, SessionReturns
  <2>9. CASE ChunkDropped
    <3>1. UNCHANGED <<handler, toServer, toClient, client, acked>> /\ call' = NoCall
      BY <2>9 DEF ChunkDropped
    <3> QED BY <1>0, <2>2, <3>1, NoCallFacts, SessionQuiet
  <2>10. CASE EndSession
    BY <2>1, <2>2, <2>10, SessionAsks
  <2>11. CASE EndReturns
    <3>1. /\ UNCHANGED <<handler, toServer, toClient, acked>> /\ call' = NoCall
          /\ \/ client' = [client EXCEPT !.session = 0, !.next = 0, !.status = "connected"]
             \/ \E r : client' = [client EXCEPT !.end = r]
      BY <2>11 DEF EndReturns
    <3>2. client' # [client EXCEPT !.session = 0, !.next = 0, !.status = "connected"]
      <4>1. ASSUME client' = [client EXCEPT !.session = 0, !.next = 0, !.status = "connected"]
            PROVE  client'.session = 0
        BY <2>0, <4>1, ClientFields
      <4> QED BY <2>2, <4>1
    <3>3. \E r : client' = [client EXCEPT !.end = r]
      BY <3>1, <3>2
    <3>4. /\ client'.next = client.next /\ client'.inFlight = client.inFlight
          /\ client'.chunk = client.chunk /\ call'.kind # "chunk"
      BY <2>0, <3>1, <3>3, ClientFields, NoCallFacts
    <3> QED BY <1>0, <2>2, <3>1, <3>4, SessionQuiet
  <2>12. ASSUME NEW d \in Connections, Handled(d) PROVE SessionOf(c)'
    <3>1. CASE d = c
      BY <2>2, <2>12, <3>1, SessionHandled
    <3>2. CASE d # c
      <4>1. /\ handler'[c] = handler[c] /\ toServer'[c] = toServer[c] /\ toClient'[c] = toClient[c]
            /\ UNCHANGED <<client, call, acked>>
        BY <2>12, <3>2, HandledFrame
      <4> QED BY <1>0, <2>2, <4>1, SessionQuiet
    <3> QED BY <3>1, <3>2
  <2>13. ASSUME NEW d \in Connections, Dispatch(d) PROVE SessionOf(c)'
    <3>1. d = c
      BY <2>2, <2>13, DispatchFrame DEF ConnectionInv, LinkInv
    <3> QED BY <2>2, <2>13, <3>1, SessionDispatch
  <2>14. CASE BackendDown
    <3>1. /\ handler'[c] = Returned /\ UNCHANGED <<client, call, processed>>
          /\ toClient'[c] = toClient[c] \/ toClient'[c] = Append(toClient[c], CloseMessage)
      BY <2>2, <2>14, LinkFacts DEF BackendDown, ConnectionInv
    <3>2. toClient[c] \in Seq(ServerMessages) /\ CloseMessage \in ServerMessages
      BY MessageTypes DEF TypeInv, TypeOK
    <3>3. Append(toClient[c], CloseMessage) = toClient[c] \o <<CloseMessage>>
      BY <3>2, AppendIsConcat
    <3>4. ResultInv(c)'
      BY <2>2, <3>1, <3>3, PlainAnswers, OtherAnswers DEF SessionOf
    <3>5. handler'[c].pc = "closed"
      BY <3>1 DEF Returned, NoHandler
    <3> QED BY <3>4, <3>5 DEF SessionOf, InStep
  <2> QED BY <2>1, <2>4, <2>5, <2>6, <2>7, <2>8, <2>9, <2>10, <2>11, <2>12, <2>13, <2>14
          DEF Next, ClientStep
<1> QED BY <1>1, <1>2

-----------------------------------------------------------------------------
(* The end of the session *)

\* The texts of the rows a finished chunk adds are those of its result.
LEMMA DoneRows ==
  ASSUME TypeInv, NEW c \in Connections, ChunkDone(c)
  PROVE  \E parts \in Parts :
           /\ Sent(c, <<ChunkResult(handler[c].expected, parts)>>)
           /\ ChunkResult(handler[c].expected, parts) \in ServerMessages
           /\ \A m \in Meetings : \A i \in 1..Len(transcript'[m]) :
                \/ i \in RowsOf(m) /\ transcript'[m][i] = transcript[m][i]
                \/ <<transcript'[m][i].seq, transcript'[m][i].words>>
                     \in TextsOf(handler[c].expected, parts)
<1>1. PICK parts \in Parts :
        /\ Sent(c, <<ChunkResult(handler[c].expected, parts)>>)
        /\ ChunkResult(handler[c].expected, parts) \in ServerMessages
        /\ AddRows(c, parts, Len(parts))
  BY DoneFacts
<1> DEFINE n == Len(parts)
<1>2. handler[c].pc = "stt" /\ n \in Nat /\ n \in 0..Len(parts) /\ AddRows(c, parts, n)
  <2>1. n \in Nat
    BY LenProperties DEF Parts
  <2>2. n \in 0..n
    <3> HIDE DEF n
    <3> QED BY <2>1
  <2> QED BY <1>1, <2>1, <2>2, DoneFacts
<1>3. Adds(c, parts, n)
  BY <1>2, AddsRows
<1>4. \A k \in 1..n : <<handler[c].expected, parts[k]>> \in TextsOf(handler[c].expected, parts)
  BY DEF TextsOf
<1> HIDE DEF n
<1>5. ASSUME NEW m \in Meetings, NEW i \in 1..Len(transcript'[m])
      PROVE  \/ i \in RowsOf(m) /\ transcript'[m][i] = transcript[m][i]
             \/ <<transcript'[m][i].seq, transcript'[m][i].words>>
                  \in TextsOf(handler[c].expected, parts)
  <2> DEFINE row == transcript'[m][i]
  <2>1. CASE i \in 1..Len(transcript[m]) /\ row = transcript[m][i]
    BY <2>1 DEF RowsOf
  <2>2. CASE \E k \in 1..n : row.words = parts[k] /\ row.seq = handler[c].expected
    <3> HIDE DEF row
    <3>1. <<row.seq, row.words>> \in TextsOf(handler[c].expected, parts)
      BY <1>4, <2>2
    <3> QED BY <3>1 DEF row
  <2> QED BY <1>2, <1>3, <2>1, <2>2, OldOrNew
<1> QED BY <1>1, <1>5

\* The rows of a session change with its own handler's result or failure only.
LEMMA RowsKept ==
  ASSUME TypeInv, [Next]_vars, NEW c \in Connections
  PROVE  \/ Handled(c) /\ (ChunkDone(c) \/ ChunkBreaks(c))
         \/ \A m \in Meetings : \A i \in 1..Len(transcript'[m]) :
              transcript'[m][i].session = c =>
                i \in RowsOf(m) /\ transcript'[m][i] = transcript[m][i]
<1> USE DEF serverVars, clientVars, uiVars
<1>1. CASE transcript' = transcript
  BY <1>1 DEF RowsOf
<1>2. ASSUME NEW d \in Connections, Handled(d), d # c
      PROVE  \A m \in Meetings : \A i \in 1..Len(transcript'[m]) :
               transcript'[m][i].session = c =>
                 i \in RowsOf(m) /\ transcript'[m][i] = transcript[m][i]
  BY <1>2, RowsFrame
<1>3. CASE Handled(c)
  BY <1>1, <1>3, RowsFrame
<1>4. CASE ClientStep
  BY <1>1, <1>4 DEF ClientStep, PressStart, Connect, ConnectDone, ConnectFails, CreateMeeting,
     StartMeeting, StartSession, StartReturns, SubmitChunk, ChunkReturns, ChunkTimesOut,
     ChunkDropped, PressEnd, EndSession, EndReturns, Disconnect, ReadStatus
<1>5. ASSUME NEW d \in Connections, Dispatch(d) PROVE transcript' = transcript
  BY <1>5, DispatchFrame
<1>6. CASE (EndMeeting /\ UNCHANGED <<clientVars, uiVars>>) \/ BackendDown \/ BackendReady
           \/ UNCHANGED vars
  BY <1>1, <1>6 DEF EndMeeting, BackendDown, BackendReady, vars
<1> QED BY <1>1, <1>2, <1>3, <1>4, <1>5, <1>6 DEF Next

\* What has been shown stays shown, and a handler that has returned stays so.
LEMMA EndKept ==
  ASSUME TypeInv, WindowInv, LinkInv, [Next]_vars, NEW c \in Connections,
         handler[c].pc = "closed"
  PROVE  handler'[c].pc = "closed" /\ ~Handled(c)
<1> USE DEF serverVars, clientVars, uiVars
<1>1. ~Handled(c)
  BY HandledAnswers
<1>a. c <= opened
  <2>1. NoHandler.pc = "none"
    BY DEF NoHandler
  <2> QED BY <2>1, LinkFacts DEF LinkInv, Unborn
<1> SUFFICES handler'[c].pc = "closed"
  BY <1>1
<1>2. ASSUME NEW d \in Connections, Handled(d) PROVE handler'[c].pc = "closed"
  BY <1>1, <1>2, HandledFrame
<1>3. CASE Connect
  <2>1. handler' = handler \/ handler' = [handler EXCEPT ![opened + 1].pc = "hello"]
    BY <1>3 DEF Connect
  <2>2. c # opened + 1
    BY <1>a, LinkFacts
  <2>3. handler \in [Connections -> HandlerType]
    BY DEF TypeInv, TypeOK
  <2> QED BY <2>1, <2>2, <2>3
<1>4. CASE BackendDown
  <2>1. handler'[c] = Returned
    BY <1>a, <1>4 DEF BackendDown
  <2> QED BY <2>1 DEF Returned, NoHandler
<1>5. CASE UNCHANGED handler
  BY <1>5
<1>6. CASE ClientStep /\ ~Connect
  BY <1>5, <1>6 DEF ClientStep, PressStart, ConnectDone, ConnectFails, CreateMeeting,
     StartMeeting, StartSession, StartReturns, SubmitChunk, ChunkReturns, ChunkTimesOut,
     ChunkDropped, PressEnd, EndSession, EndReturns, Disconnect, ReadStatus
<1>7. ASSUME NEW d \in Connections, Dispatch(d) PROVE UNCHANGED handler
  BY <1>7, DispatchFrame
<1>8. CASE (EndMeeting /\ UNCHANGED <<clientVars, uiVars>>) \/ BackendReady \/ UNCHANGED vars
  BY <1>5, <1>8 DEF EndMeeting, BackendReady, vars
<1> QED BY <1>1, <1>2, <1>3, <1>4, <1>5, <1>6, <1>7, <1>8 DEF Next

\* Texts are shown for good.
LEMMA ShownKept ==
  ASSUME [Next]_vars
  PROVE  shown \subseteq shown'
<1> USE DEF serverVars, clientVars, uiVars
<1>1. CASE ClientStep
  BY <1>1 DEF ClientStep, PressStart, Connect, ConnectDone, ConnectFails, CreateMeeting,
     StartMeeting, StartSession, StartReturns, SubmitChunk, ChunkReturns, ChunkTimesOut,
     ChunkDropped, PressEnd, EndSession, EndReturns, Disconnect, ReadStatus
<1>2. ASSUME NEW d \in Connections, Dispatch(d) PROVE shown \subseteq shown'
  BY <1>2 DEF Dispatch, DispatchStarted, DispatchResult, DispatchStopped, DispatchError,
     DispatchClose
<1>3. ASSUME NEW d \in Connections, Handled(d) PROVE shown' = shown
  BY <1>3 DEF Handled
<1>4. CASE (EndMeeting /\ UNCHANGED <<clientVars, uiVars>>) \/ BackendDown \/ BackendReady
           \/ UNCHANGED vars
  BY <1>4 DEF BackendDown, BackendReady, vars
<1> QED BY <1>1, <1>2, <1>3, <1>4 DEF Next

\* While end_session waits, the session is the one it ends.
LEMMA EndWait ==
  ASSUME TypeInv, WindowInv, LinkInv, [Next]_vars,
         Waiting("end") => client.session = call.session, Waiting("end")'
  PROVE  client'.session = call'.session
<1> USE DEF serverVars, clientVars, uiVars
<1>0. client \in ClientType /\ call'.kind = "end" /\ call'.answer = "waiting"
  BY DEF Waiting, TypeInv, TypeOK
<1>1. CASE call' = call /\ client'.session = client.session
  BY <1>0, <1>1 DEF Waiting
<1>2. CASE \/ PressStart \/ CreateMeeting \/ StartMeeting \/ PressEnd \/ ReadStatus
           \/ (EndMeeting /\ UNCHANGED <<clientVars, uiVars>>) \/ BackendDown \/ BackendReady
           \/ UNCHANGED vars
  BY <1>1, <1>2 DEF PressStart, CreateMeeting, StartMeeting, PressEnd, ReadStatus, EndMeeting,
     BackendDown, BackendReady, vars
<1>3. CASE \/ ConnectDone \/ ConnectFails \/ StartReturns \/ ChunkReturns \/ ChunkTimesOut
           \/ ChunkDropped \/ EndReturns
  <2>1. call' = NoCall
    BY <1>3 DEF ConnectDone, ConnectFails, StartReturns, ChunkReturns, ChunkTimesOut, ChunkDropped,
       EndReturns
  <2> QED BY <1>0, <2>1, NoCallFacts
<1>4. CASE Disconnect
  <2>1. call' = NoCall
    BY <1>4 DEF Disconnect
  <2> QED BY <1>0, <2>1, NoCallFacts
<1>5. CASE Connect
  <2>1. call' = NoCall \/ call' = [NoCall EXCEPT !.kind = "connect", !.answer = "waiting"]
    BY <1>5 DEF Connect
  <2> QED BY <1>0, <2>1, NoCallFacts
<1>6. CASE StartSession
  <2>1. call' = NoCall
        \/ call' = [NoCall EXCEPT !.kind = "start", !.answer = "waiting", !.req = requests]
    BY <1>6 DEF StartSession
  <2>2. call'.kind # "end"
    <3>1. CASE call' = NoCall
      BY <3>1, NoCallFacts
    <3>2. CASE call' = [NoCall EXCEPT !.kind = "start", !.answer = "waiting", !.req = requests]
      BY <3>2, NoCallFacts
    <3> QED BY <2>1, <3>1, <3>2
  <2> QED BY <1>0, <2>2
<1>7. CASE SubmitChunk
  <2>1. call' = [NoCall EXCEPT !.kind = "chunk", !.answer = "waiting",
                            !.seq = client.next, !.audio = captured + 1]
    BY <1>7 DEF SubmitChunk
  <2> QED BY <1>0, <2>1, NoCallFacts
<1>8. CASE EndSession
  <2>1. \/ call' = NoCall
        \/ /\ client' = [client EXCEPT !.end = requests + 1]
           /\ call' = [NoCall EXCEPT !.kind = "end", !.answer = "waiting",
                               !.req = requests + 1, !.session = client.session]
    BY <1>8 DEF EndSession
  <2>2. CASE call' = NoCall
    BY <1>0, <2>2, NoCallFacts
  <2>3. CASE /\ client' = [client EXCEPT !.end = requests + 1]
             /\ call' = [NoCall EXCEPT !.kind = "end", !.answer = "waiting",
                               !.req = requests + 1, !.session = client.session]
    <3>1. call'.session = client.session
      BY <2>3, NoCallFacts
    <3>2. client'.session = client.session
      BY <1>0, <2>3, ClientFields
    <3> QED BY <3>1, <3>2
  <2> QED BY <2>1, <2>2, <2>3
<1>9. ASSUME NEW c \in Connections, Handled(c) PROVE client'.session = call'.session
  BY <1>1, <1>9, HandledFrame
<1>10. ASSUME NEW c \in Connections, Dispatch(c) PROVE client'.session = call'.session
  <2>1. call.kind = "end"
    BY <1>0, <1>10, DispatchFrame
  <2>2. \/ call' = FailCaller
        \/ call' = call \/ call' = Answer("chunk", "ok") \/ call' = Answer("end", "ok")
    BY <1>10, <2>1 DEF Dispatch, DispatchStarted, DispatchResult, DispatchStopped, DispatchError,
       DispatchClose, Waiting
  <2>3. call'.session = call.session /\ call.answer = "waiting" /\ call' # FailCaller
    BY <1>0, <2>1, <2>2, AnswerFacts DEF Waiting
  <2>4. \/ client' = client
        \/ \E r : client' = [client EXCEPT !.start = r]
        \/ \E k : client' = [client EXCEPT !.chunk = k]
        \/ \E r : client' = [client EXCEPT !.end = r]
    BY <1>10, <2>3 DEF Dispatch, DispatchStarted, DispatchResult, DispatchStopped, DispatchError,
       DispatchClose
  <2>5. client'.session = client.session
    <3>1. CASE \E r : client' = [client EXCEPT !.start = r]
      BY <1>0, <3>1, ClientFields
    <3>2. CASE \E k : client' = [client EXCEPT !.chunk = k]
      BY <1>0, <3>2, ClientFields
    <3>3. CASE \E r : client' = [client EXCEPT !.end = r]
      BY <1>0, <3>3, ClientFields
    <3> QED BY <2>4, <3>1, <3>2, <3>3
  <2> QED BY <2>1, <2>3, <2>5 DEF Waiting
<1> QED BY <1>2, <1>3, <1>4, <1>5, <1>6, <1>7, <1>8, <1>9, <1>10 DEF Next, ClientStep

\* What a report of success was true of stays true.
LEMMA EndStays ==
  ASSUME TypeInv, WindowInv, LinkInv, [Next]_vars, NEW c \in Connections,
         handler[c].pc = "closed", Said(c, ShownOf(c))
  PROVE  handler'[c].pc = "closed" /\ Said(c, ShownOf(c))'
<1>1. handler'[c].pc = "closed" /\ ~Handled(c)
  BY EndKept
<1>2. \A m \in Meetings : \A i \in 1..Len(transcript'[m]) :
        transcript'[m][i].session = c =>
          i \in RowsOf(m) /\ transcript'[m][i] = transcript[m][i]
  BY <1>1, RowsKept
<1>3. ShownOf(c) \subseteq ShownOf(c)'
  BY ShownKept DEF ShownOf
<1>4. Said(c, ShownOf(c))'
  BY <1>2, <1>3 DEF Said, RowsOf
<1> QED BY <1>1, <1>4

\* The answer to end_session is taken when everything is shown.
LEMMA EndAnswered ==
  ASSUME TypeInv, ConnectionInv, SessionInv, EndInv, [Next]_vars, NEW c \in Connections,
         call'.kind = "end", call'.answer = "ok", call'.session = c
  PROVE  handler[c].pc = "closed" /\ Said(c, ShownOf(c))
<1> USE DEF serverVars, clientVars, uiVars
<1>1. CASE call.kind = "end" /\ call.answer = "ok" /\ call.session = c
  BY <1>1 DEF EndInv
<1>2. ASSUME NEW d \in Connections, Dispatch(d), ~(call.kind = "end" /\ call.answer = "ok" /\ call.session = c)
      PROVE  handler[c].pc = "closed" /\ Said(c, ShownOf(c))
  <2>0. call.kind = "end"
    BY <1>2, DispatchFrame
  <2>1. \/ call' \in {call, FailCaller, Answer("chunk", "ok")}
        \/ DispatchStopped(d) /\ call' = Answer("end", "ok")
    BY <1>2, <2>0 DEF Dispatch, DispatchStarted, DispatchResult, DispatchStopped, DispatchError,
       DispatchClose, Waiting
  <2>2. call' \notin {call, FailCaller, Answer("chunk", "ok")}
    BY <1>2, <2>0, AnswerFacts DEF Waiting
  <2>3. DispatchStopped(d) /\ Waiting("end") /\ call.session = c
    <3>1. call' = Answer("end", "ok") /\ call' # call
      BY <2>1, <2>2
    <3>2. Waiting("end")
      BY <3>1 DEF Answer
    <3> QED BY <2>1, <2>2, <3>1, <3>2, AnswerFacts
  <2>4. client.session = c /\ c # 0
    BY <2>3, ConstantTypes DEF EndInv
  <2>5. d = c /\ c \in readers
    BY <1>2, <2>4, DispatchFrame DEF ConnectionInv, LinkInv
  <2> DEFINE R == toClient[c]
  <2>6. /\ R \in Seq(ServerMessages) /\ R # <<>> /\ Head(R).t = "stopped"
        /\ Head(R) \in ToSet(R) /\ ToSet(R) = {Head(R)} \cup ToSet(Tail(R))
    <3>1. R \in Seq(ServerMessages) /\ R # <<>> /\ Head(R).t = "stopped"
      BY <2>3, <2>5 DEF DispatchStopped, Arrived, TypeInv, TypeOK
    <3> QED BY <3>1, Elements
  <2>7. /\ handler[c].pc = "closed"
        /\ \A m \in ToSet(R) : ~(m.t = "error" /\ m.fatal)
    BY <2>6 DEF ConnectionInv, AnswerInv, AnswersOf
  <2>8. NoResult(Tail(R))
    BY <2>4, <2>6 DEF SessionInv, SessionOf, ResultInv
  <2>9. OnTheWay(c) = {}
    BY <2>6, <2>8 DEF OnTheWay, NoResult
  <2>10. Said(c, ShownOf(c) \cup OnTheWay(c))
    BY <2>4, <2>5, <2>7 DEF EndInv, ShownOrSent
  <2>11. ShownOf(c) \cup OnTheWay(c) = ShownOf(c)
    BY <2>9
  <2> QED BY <2>7, <2>10, <2>11 DEF Said
<1>3. ASSUME ~ \E d \in Connections : Dispatch(d) PROVE call' = call
  <2>1. CASE \/ PressStart \/ CreateMeeting \/ StartMeeting \/ PressEnd \/ ReadStatus
             \/ (EndMeeting /\ UNCHANGED <<clientVars, uiVars>>) \/ BackendDown \/ BackendReady
             \/ UNCHANGED vars
    BY <2>1 DEF PressStart, CreateMeeting, StartMeeting, PressEnd, ReadStatus, EndMeeting,
       BackendDown, BackendReady, vars
  <2>2. CASE \/ ConnectDone \/ ConnectFails \/ StartReturns \/ ChunkReturns \/ ChunkTimesOut
             \/ ChunkDropped \/ EndReturns
    <3>1. call' = NoCall
      BY <2>2 DEF ConnectDone, ConnectFails, StartReturns, ChunkReturns, ChunkTimesOut, ChunkDropped,
         EndReturns
    <3> QED BY <3>1, NoCallFacts
  <2>3. CASE Disconnect
    BY <2>3 DEF Disconnect
  <2>4. CASE Connect
    <3>1. call' = call \/ call' = [NoCall EXCEPT !.kind = "connect", !.answer = "waiting"]
      BY <2>4 DEF Connect
    <3> QED BY <3>1, NoCallFacts
  <2>5. CASE StartSession
    <3>1. call' = call
          \/ call' = [NoCall EXCEPT !.kind = "start", !.answer = "waiting", !.req = requests]
      BY <2>5 DEF StartSession
    <3>2. CASE call' = [NoCall EXCEPT !.kind = "start", !.answer = "waiting", !.req = requests]
      <4>1. call'.answer = "waiting"
        BY <3>2, NoCallFacts
      <4> QED BY <4>1
    <3> QED BY <3>1, <3>2
  <2>6. CASE SubmitChunk
    <3>1. call' = [NoCall EXCEPT !.kind = "chunk", !.answer = "waiting",
                              !.seq = client.next, !.audio = captured + 1]
      BY <2>6 DEF SubmitChunk
    <3> QED BY <3>1, NoCallFacts
  <2>7. CASE EndSession
    <3>1. call' = call \/ call' = [NoCall EXCEPT !.kind = "end", !.answer = "waiting",
                                 !.req = requests + 1, !.session = client.session]
      BY <2>7 DEF EndSession
    <3>2. CASE call' = [NoCall EXCEPT !.kind = "end", !.answer = "waiting",
                                 !.req = requests + 1, !.session = client.session]
      <4>1. call'.answer = "waiting"
        BY <3>2, NoCallFacts
      <4> QED BY <4>1
    <3> QED BY <3>1, <3>2
  <2>8. ASSUME NEW d \in Connections, Handled(d) PROVE call' = call
    BY <2>8, HandledFrame
  <2> QED BY <1>3, <2>1, <2>2, <2>3, <2>4, <2>5, <2>6, <2>7, <2>8 DEF Next, ClientStep
<1> QED BY <1>1, <1>2, <1>3

\* What a session confirmed, or a waiting caller was told, is shown.
LEMMA EndConfirmed ==
  ASSUME TypeInv, ConnectionInv, SessionInv, EndInv, [Next]_vars, NEW c \in Connections,
         c \in confirmed' \/ (call'.kind = "end" /\ call'.answer = "ok" /\ call'.session = c)
  PROVE  handler'[c].pc = "closed" /\ Said(c, ShownOf(c))'
<1> USE DEF serverVars, clientVars, uiVars
<1>1. handler[c].pc = "closed" /\ Said(c, ShownOf(c))
  <2>1. CASE call'.kind = "end" /\ call'.answer = "ok" /\ call'.session = c
    BY <2>1, EndAnswered
  <2>2. CASE c \in confirmed'
    <3>1. CASE EndReturns
      <4>1. c \in confirmed \/ (call.kind = "end" /\ call.answer = "ok" /\ call.session = c)
        BY <2>2, <3>1 DEF EndReturns
      <4> QED BY <4>1 DEF EndInv
    <3>2. CASE confirmed' = confirmed
      BY <2>2, <3>2 DEF EndInv
    <3>3. CASE ClientStep /\ ~EndReturns
      BY <3>2, <3>3 DEF ClientStep, PressStart, Connect, ConnectDone, ConnectFails, CreateMeeting,
         StartMeeting, StartSession, StartReturns, SubmitChunk, ChunkReturns, ChunkTimesOut,
         ChunkDropped, PressEnd, EndSession, Disconnect, ReadStatus
    <3>4. ASSUME NEW d \in Connections, Dispatch(d) PROVE confirmed' = confirmed
      BY <3>4, DispatchFrame
    <3>5. ASSUME NEW d \in Connections, Handled(d) PROVE confirmed' = confirmed
      BY <3>5, HandledFrame
    <3>6. CASE (EndMeeting /\ UNCHANGED <<clientVars, uiVars>>) \/ BackendDown \/ BackendReady
               \/ UNCHANGED vars
      BY <3>2, <3>6 DEF BackendDown, BackendReady, vars
    <3> QED BY <3>1, <3>2, <3>3, <3>4, <3>5, <3>6 DEF Next
  <2> QED BY <2>1, <2>2
<1> QED BY <1>1, EndStays DEF ConnectionInv

\* A step that takes nothing from the session's reader.
LEMMA ShownQuiet ==
  ASSUME [Next]_vars, NEW c \in Connections, ShownOrSent(c), c \in readers' => c \in readers,
         ToSet(toClient[c]) \subseteq ToSet(toClient'[c]),
         \A m \in Meetings : \A i \in 1..Len(transcript'[m]) :
           transcript'[m][i].session = c =>
             i \in RowsOf(m) /\ transcript'[m][i] = transcript[m][i]
  PROVE  ShownOrSent(c)'
<1>1. CASE c \notin readers
  BY <1>1 DEF ShownOrSent
<1>2. CASE \E m \in ToSet(toClient[c]) : m.t = "error" /\ m.fatal
  BY <1>2 DEF ShownOrSent
<1>3. CASE Said(c, ShownOf(c) \cup OnTheWay(c))
  <2>1. ShownOf(c) \subseteq ShownOf(c)'
    BY ShownKept DEF ShownOf
  <2>2. OnTheWay(c) \subseteq OnTheWay(c)'
    BY DEF OnTheWay
  <2>3. Said(c, ShownOf(c) \cup OnTheWay(c))'
    BY <1>3, <2>1, <2>2 DEF Said, RowsOf
  <2> QED BY <2>3 DEF ShownOrSent
<1> QED BY <1>1, <1>2, <1>3 DEF ShownOrSent

\* A handler takes back nothing it has sent.
LEMMA AnswersStay ==
  ASSUME TypeInv, NEW c \in Connections, Handled(c)
  PROVE  ToSet(toClient[c]) \subseteq ToSet(toClient'[c])
<1>0. toClient[c] \in Seq(ServerMessages)
  BY DEF TypeInv, TypeOK
<1>1. CASE toClient'[c] = toClient[c]
  BY <1>1
<1>2. ASSUME NEW messages \in Seq(ServerMessages), Sent(c, messages)
      PROVE  ToSet(toClient[c]) \subseteq ToSet(toClient'[c])
  <2>1. ToSet(toClient[c] \o messages) = ToSet(toClient[c]) \cup ToSet(messages)
    BY <1>0, Elements
  <2> QED BY <1>2, <2>1 DEF Sent
<1>3. ASSUME NEW m \in ServerMessages, Sent(c, <<m>>)
      PROVE  ToSet(toClient[c]) \subseteq ToSet(toClient'[c])
  <2>1. <<m>> \in Seq(ServerMessages)
    BY FewAnswers
  <2> QED BY <1>2, <1>3, <2>1
<1>4. ASSUME NEW m \in ServerMessages, NEW k \in ServerMessages, Sent(c, <<m, k>>)
      PROVE  ToSet(toClient[c]) \subseteq ToSet(toClient'[c])
  <2>1. <<m, k>> \in Seq(ServerMessages)
    BY FewAnswers
  <2> QED BY <1>2, <1>4, <2>1
<1>5. /\ CloseMessage \in ServerMessages /\ HelloAck \in ServerMessages
      /\ \A e \in ErrorCodes : /\ ProtocolError(e, FALSE) \in ServerMessages
                               /\ ProtocolError(e, TRUE) \in ServerMessages
      /\ \A r \in Requests : Started(r, c) \in ServerMessages /\ Stopped(r, c) \in ServerMessages
      /\ {"assist_unavailable", "provider_error", "internal_error", "session_already_started"}
           \subseteq ErrorCodes
  BY MessageTypes DEF ErrorCodes
<1>6. CASE Hello(c)
  BY <1>3, <1>5, <1>6, HelloFacts
<1>7. CASE HandleStart(c)
  <2>1. /\ Head(toServer[c]).req \in Requests
        /\ \/ Sent(c, <<ProtocolError("session_already_started", FALSE)>>)
           \/ \E code \in ErrorCodes : Sent(c, <<ProtocolError(code, TRUE), CloseMessage>>)
           \/ Sent(c, <<Started(Head(toServer[c]).req, c)>>)
           \/ Sent(c, <<Started(Head(toServer[c]).req, c), ProtocolError("assist_unavailable", FALSE)>>)
    BY <1>7, StartFacts
  <2> QED BY <1>3, <1>4, <1>5, <2>1
<1>8. CASE HandleEnd(c)
  BY <1>1, <1>3, <1>5, <1>8, EndFacts
<1>9. CASE Ended(c)
  BY <1>4, <1>5, <1>9, EndedFacts
<1>10. CASE HandleAudio(c)
  <2>1. \/ \E code \in ErrorCodes : Sent(c, <<ProtocolError(code, FALSE)>>)
        \/ \E code \in ErrorCodes : Sent(c, <<ProtocolError(code, TRUE), CloseMessage>>)
        \/ toClient'[c] = toClient[c]
    BY <1>10, AudioFacts
  <2> QED BY <1>1, <1>3, <1>4, <1>5, <2>1
<1>11. CASE ProviderFails(c)
  BY <1>3, <1>5, <1>11, ProviderFacts
<1>12. CASE ChunkDone(c)
  <2>1. \E parts \in Parts : /\ Sent(c, <<ChunkResult(handler[c].expected, parts)>>)
                             /\ ChunkResult(handler[c].expected, parts) \in ServerMessages
    BY <1>12, DoneFacts
  <2> QED BY <1>3, <2>1
<1>13. CASE ChunkBreaks(c)
  BY <1>4, <1>5, <1>13, BreaksFacts
<1>14. CASE HandleClose(c) \/ Cleanup(c)
  BY <1>1, <1>14, CloseFacts
<1> QED BY <1>6, <1>7, <1>8, <1>9, <1>10, <1>11, <1>12, <1>13, <1>14 DEF Handled, HandlerStep

\* The handler's results and failures reach a client that reads.
LEMMA ShownHandled ==
  ASSUME TypeInv, [Next]_vars, NEW c \in Connections, Handled(c), ShownOrSent(c)
  PROVE  ShownOrSent(c)'
<1>0. toClient[c] \in Seq(ServerMessages) /\ readers' = readers
  BY HandledFrame DEF TypeInv, TypeOK
<1>1. CASE c \notin readers
  BY <1>0, <1>1 DEF ShownOrSent
<1>2. ASSUME c \in readers PROVE Read(c)
  BY <1>2 DEF Read
<1>3. CASE c \in readers /\ ChunkBreaks(c)
  <2>1. Sent(c, <<ProtocolError("internal_error", TRUE), CloseMessage>>)
    BY <1>3, BreaksFacts
  <2> DEFINE m == ProtocolError("internal_error", TRUE)
  <2>2. m \in ServerMessages /\ CloseMessage \in ServerMessages
    BY MessageTypes DEF ErrorCodes
  <2>3. m.t = "error"
    BY AnswerKinds
  <2>4. m.fatal
    BY AnswerKinds
  <2>5. toClient'[c] = toClient[c] \o <<m, CloseMessage>>
    BY <1>2, <1>3, <2>1 DEF Sent
  <2> HIDE DEF m
  <2>6. /\ <<m, CloseMessage>> \in Seq(ServerMessages)
        /\ ToSet(<<m, CloseMessage>>) = {m, CloseMessage}
    BY <2>2, FewAnswers
  <2>7. m \in ToSet(toClient'[c])
    <3> DEFINE more == <<m, CloseMessage>>
    <3>1. more \in Seq(ServerMessages) /\ m \in ToSet(more) /\ toClient'[c] = toClient[c] \o more
      BY <2>5, <2>6
    <3> HIDE DEF more
    <3>2. ToSet(toClient'[c]) = ToSet(toClient[c]) \cup ToSet(more)
      BY <1>0, <3>1, Elements
    <3> QED BY <3>1, <3>2
  <2> QED BY <2>3, <2>4, <2>7 DEF ShownOrSent
<1>4. CASE c \in readers /\ ChunkDone(c)
  <2>1. PICK parts \in Parts :
          /\ Sent(c, <<ChunkResult(handler[c].expected, parts)>>)
          /\ ChunkResult(handler[c].expected, parts) \in ServerMessages
          /\ \A m \in Meetings : \A i \in 1..Len(transcript'[m]) :
               \/ i \in RowsOf(m) /\ transcript'[m][i] = transcript[m][i]
               \/ <<transcript'[m][i].seq, transcript'[m][i].words>>
                    \in TextsOf(handler[c].expected, parts)
    BY <1>4, DoneRows
  <2> DEFINE m == ChunkResult(handler[c].expected, parts)
  <2>2. m \in ServerMessages /\ m.t = "chunk_result"
        /\ m.parts = parts /\ m.seq = handler[c].expected
    BY <2>1, AnswerKinds
  <2>3. toClient'[c] = toClient[c] \o <<m>>
    BY <1>2, <1>4, <2>1 DEF Sent
  <2> HIDE DEF m
  <2>4. <<m>> \in Seq(ServerMessages) /\ ToSet(<<m>>) = {m}
    BY <2>2, FewAnswers
  <2>5. ToSet(toClient'[c]) = ToSet(toClient[c]) \cup {m}
    BY <1>0, <2>3, <2>4, Elements
  <2>6. CASE \E e \in ToSet(toClient[c]) : e.t = "error" /\ e.fatal
    BY <2>5, <2>6 DEF ShownOrSent
  <2>7. CASE Said(c, ShownOf(c) \cup OnTheWay(c))
    <3>1. ShownOf(c) \subseteq ShownOf(c)'
      BY ShownKept DEF ShownOf
    <3>2. OnTheWay(c) \subseteq OnTheWay(c)'
          /\ TextsOf(handler[c].expected, parts) \subseteq OnTheWay(c)'
      BY <2>2, <2>5 DEF OnTheWay
    <3>3. Said(c, ShownOf(c) \cup OnTheWay(c))'
      BY <2>1, <2>7, <3>1, <3>2 DEF Said, RowsOf
    <3> QED BY <3>3 DEF ShownOrSent
  <2> QED BY <1>4, <2>6, <2>7 DEF ShownOrSent
<1>5. CASE ~ChunkBreaks(c) /\ ~ChunkDone(c)
  <2>1. ToSet(toClient[c]) \subseteq ToSet(toClient'[c])
    BY AnswersStay
  <2>2. transcript' = transcript
    BY <1>5, RowsFrame
  <2> QED BY <1>0, <2>1, <2>2, ShownQuiet DEF RowsOf
<1> QED BY <1>1, <1>3, <1>4, <1>5

\* The reader shows what it takes.
LEMMA ShownDispatch ==
  ASSUME TypeInv, [Next]_vars, NEW c \in Connections, Dispatch(c), ShownOrSent(c), ResultInv(c),
         client.session = c, client'.session = c
  PROVE  ShownOrSent(c)'
<1> DEFINE R == toClient[c]
<1>0. /\ R \in Seq(ServerMessages) /\ R # <<>> /\ c \in readers /\ client \in ClientType /\ c # 0
      /\ toClient'[c] = (IF c \in readers' THEN Tail(R) ELSE <<>>) /\ transcript' = transcript
  BY DispatchFrame, ConstantTypes DEF TypeInv, TypeOK
<1>1. /\ Head(R) \in ToSet(R) /\ Head(R) \in ServerMessages
      /\ ToSet(R) = {Head(R)} \cup ToSet(Tail(R))
  BY <1>0, Elements
<1>2. client' # MarkFailed(FailPending(client))
  BY <1>0, FailedTwice
<1>3. readers' = readers /\ toClient'[c] = Tail(R)
  <2>1. readers' = readers
    BY <1>2 DEF Dispatch, DispatchStarted, DispatchResult, DispatchStopped, DispatchError,
       DispatchClose
  <2> QED BY <1>0, <2>1
<1>4. ~(Head(R).t = "error" /\ Head(R).fatal)
  BY <1>2 DEF Dispatch, DispatchStarted, DispatchResult, DispatchStopped, DispatchError,
     DispatchClose, Arrived
<1>5. Head(R).t = "chunk_result" =>
        shown' = shown \cup {<<c, text>> : text \in TextsOf(Head(R).seq, Head(R).parts)}
  <2> SUFFICES ASSUME Head(R).t = "chunk_result"
               PROVE  shown' = shown \cup {<<c, text>> : text \in TextsOf(Head(R).seq, Head(R).parts)}
    OBVIOUS
  <2>1. DispatchResult(c)
    BY DEF Dispatch, DispatchStarted, DispatchStopped, DispatchError, DispatchClose, Arrived
  <2>2. client.chunk = Head(R).seq
    BY <1>1 DEF ResultInv
  <2> QED BY <1>2, <2>1, <2>2 DEF DispatchResult
<1>6. ShownOf(c) \subseteq ShownOf(c)'
  BY ShownKept DEF ShownOf
<1>7. OnTheWay(c) \subseteq ShownOf(c)' \cup OnTheWay(c)'
  <2>1. CASE Head(R).t = "chunk_result"
    <3>1. Head(R).parts \in Parts /\ Head(R).seq \in 0..MaxAudio
      BY <1>1, <2>1, MessageFields
    <3>2. TextsOf(Head(R).seq, Head(R).parts) \subseteq Texts
      BY <3>1, TextsOfTypes
    <3>3. TextsOf(Head(R).seq, Head(R).parts) \subseteq ShownOf(c)'
      BY <1>5, <2>1, <3>2 DEF ShownOf
    <3> QED BY <1>1, <1>3, <3>3 DEF OnTheWay
  <2>2. CASE Head(R).t # "chunk_result"
    BY <1>1, <1>3, <2>2 DEF OnTheWay
  <2> QED BY <2>1, <2>2
<1>8. CASE \E m \in ToSet(R) : m.t = "error" /\ m.fatal
  BY <1>1, <1>3, <1>4, <1>8 DEF ShownOrSent
<1>9. CASE Said(c, ShownOf(c) \cup OnTheWay(c))
  <2>1. Said(c, ShownOf(c) \cup OnTheWay(c))'
    BY <1>0, <1>6, <1>7, <1>9 DEF Said, RowsOf
  <2> QED BY <2>1 DEF ShownOrSent
<1> QED BY <1>0, <1>8, <1>9 DEF ShownOrSent

\* What the window is shown and told at the end.
LEMMA EndStep ==
  ASSUME TypeInv, ConnectionInv, StartingInv, SessionInv, EndInv, [Next]_vars
  PROVE  EndInv'
<1> USE DEF serverVars, clientVars, uiVars
<1>1. Waiting("end")' => client'.session = call'.session
  BY EndWait DEF EndInv, ConnectionInv
<1>2. \A c \in Connections :
        c \in confirmed' \/ (call'.kind = "end" /\ call'.answer = "ok" /\ call'.session = c) =>
          handler'[c].pc = "closed" /\ Said(c, ShownOf(c))'
  BY EndConfirmed
<1>3. ASSUME NEW c \in Connections, client'.session = c PROVE ShownOrSent(c)'
  <2>1. CASE StartReturns /\ call.answer = "ok"
    <3>1. client'.session = opened /\ call.kind = "start" /\ UNCHANGED <<transcript, opened>>
      BY <2>1, SessionEntry DEF StartReturns
    <3>2. Unsaid(c)
      BY <1>3, <3>1 DEF StartingInv, Starting, StartingOf, NothingYet
    <3>3. Said(c, ShownOf(c) \cup OnTheWay(c))'
      BY <3>1, <3>2 DEF Said, Unsaid, RowsOf
    <3> QED BY <3>3 DEF ShownOrSent
  <2>2. CASE ~(StartReturns /\ call.answer = "ok")
    <3>1. /\ client.session = c /\ ~ConnectDone /\ ~ConnectFails /\ ~ChunkTimesOut /\ ~Disconnect
      BY <1>3, <2>2, SessionBefore DEF ConnectionInv
    <3>2. ShownOrSent(c) /\ ResultInv(c) /\ c = opened
      BY <3>1, ConstantTypes DEF EndInv, ShownOrSent, SessionInv, SessionOf, ConnectionInv, LinkInv
    <3>3. CASE UNCHANGED <<transcript, toClient, readers>>
      BY <3>2, <3>3, ShownQuiet DEF RowsOf
    <3>4. CASE ClientStep
      BY <3>1, <3>3, <3>4 DEF ClientStep, PressStart, Connect, CreateMeeting,
         StartMeeting, StartSession, StartReturns, SubmitChunk, ChunkReturns,
         ChunkDropped, PressEnd, EndSession, EndReturns, ReadStatus
    <3>5. ASSUME NEW d \in Connections, Handled(d) PROVE ShownOrSent(c)'
      <4>1. CASE d = c
        BY <3>2, <3>5, <4>1, ShownHandled
      <4>2. CASE d # c
        <5>1. toClient'[c] = toClient[c] /\ readers' = readers
          BY <3>5, <4>2, HandledFrame
        <5>2. \A m \in Meetings : \A i \in 1..Len(transcript'[m]) :
                transcript'[m][i].session = c =>
                  i \in RowsOf(m) /\ transcript'[m][i] = transcript[m][i]
          BY <3>5, <4>2, RowsFrame
        <5> QED BY <3>2, <5>1, <5>2, ShownQuiet
      <4> QED BY <4>1, <4>2
    <3>6. ASSUME NEW d \in Connections, Dispatch(d) PROVE ShownOrSent(c)'
      <4>1. d = c
        BY <3>2, <3>6, DispatchFrame DEF ConnectionInv, LinkInv
      <4> QED BY <1>3, <3>1, <3>2, <3>6, <4>1, ShownDispatch
    <3>7. CASE BackendDown
      <4>1. /\ UNCHANGED <<transcript, readers>>
            /\ toClient'[c] = toClient[c] \/ toClient'[c] = Append(toClient[c], CloseMessage)
        BY <3>7 DEF BackendDown
      <4>2. ToSet(toClient[c]) \subseteq ToSet(toClient'[c])
        <5>1. toClient[c] \in Seq(ServerMessages) /\ CloseMessage \in ServerMessages
          BY MessageTypes DEF TypeInv, TypeOK
        <5>2. ToSet(Append(toClient[c], CloseMessage)) = ToSet(toClient[c]) \cup {CloseMessage}
          BY <5>1, Elements
        <5> QED BY <4>1, <5>2
      <4> QED BY <3>2, <4>1, <4>2, ShownQuiet DEF RowsOf
    <3>8. CASE (EndMeeting /\ UNCHANGED <<clientVars, uiVars>>) \/ BackendReady \/ UNCHANGED vars
      BY <3>3, <3>8 DEF EndMeeting, BackendReady, vars
    <3> QED BY <3>4, <3>5, <3>6, <3>7, <3>8 DEF Next
  <2> QED BY <2>1, <2>2
<1> QED BY <1>1, <1>2, <1>3 DEF EndInv, ShownOrSent, Waiting

-----------------------------------------------------------------------------
(* The theorems about the session *)

\* Everything above together: the invariant the steps need.
ProtocolInv ==
  TypeInv /\ RowsInv /\ ConnectionInv /\ StartingInv /\ SessionInv /\ EndInv

\* Every step keeps it, layer by layer.
LEMMA ProtocolStep ==
  ASSUME ProtocolInv, [Next]_vars, OneDispatcher'
  PROVE  ProtocolInv'
<1> USE DEF ProtocolInv
<1>1. TypeInv' /\ RowsInv'
  BY TypeStep, RowsStep
<1>2. WindowInv'
  BY WindowStep DEF ConnectionInv
<1>3. LinkInv'
  BY <1>1, <1>2, LinkStep DEF ConnectionInv
<1>4. AnswerInv' /\ ProcessedInv'
  BY AnswerStep, ProcessedStep DEF ConnectionInv
<1>5. ConnectionInv'
  BY <1>2, <1>3, <1>4 DEF ConnectionInv
<1>6. StartingInv'
  BY <1>1, <1>5, StartingStep
<1>7. SessionInv' /\ EndInv'
  BY SessionStep, EndStep
<1> QED BY <1>1, <1>5, <1>6, <1>7

\* It holds before anything has happened.
LEMMA ProtocolInit == Init => ProtocolInv
<1> SUFFICES ASSUME Init PROVE ProtocolInv
  OBVIOUS
<1>0. /\ NoHandler.pc = "none" /\ call = NoCall /\ client = NoClient
      /\ client.tasks = 0 /\ client.writer = 0 /\ client.session = 0
      /\ client.status = "disconnected"
      /\ ui = "disconnected" /\ flow = "idle" /\ ~unread /\ readers = {} /\ opened = 0
      /\ acked = {} /\ processed = {} /\ confirmed = {}
      /\ \A c \in Connections : /\ handler[c] = NoHandler /\ toServer[c] = <<>>
                                /\ toClient[c] = <<>>
  BY DEF Init, NoHandler, NoClient
<1>1. TypeInv /\ RowsInv
  BY InitTypes, RowsInit
<1>2. WindowInv
  BY <1>0, NoCallFacts DEF WindowInv
<1>3. LinkInv
  BY <1>0, NoCallFacts DEF LinkInv, Unborn
<1>4. AnswerInv
  <2>1. \A c \in Connections : ToSet(toClient[c]) = {}
    <3>1. <<>> \in Seq(ServerMessages)
      OBVIOUS
    <3> QED BY <1>0, <3>1, Elements
  <2> QED BY <2>1 DEF AnswerInv, AnswersOf
<1>5. ProcessedInv
  BY <1>0 DEF ProcessedInv, ProcessedOf
<1>6. StartingInv
  BY <1>0, NoCallFacts DEF StartingInv, Starting
<1>7. SessionInv
  BY <1>0, NoCallFacts, ConstantTypes DEF SessionInv
<1>8. EndInv
  BY <1>0, NoCallFacts, ConstantTypes DEF EndInv, Waiting
<1> QED BY <1>1, <1>2, <1>3, <1>4, <1>5, <1>6, <1>7, <1>8 DEF ProtocolInv, ConnectionInv

\* It holds for good, unless a connection is opened beside an older dispatcher.
LEMMA ProtocolCorrect == Spec /\ []OneDispatcher => []ProtocolInv
<1>1. ProtocolInv /\ OneDispatcher' /\ [Next]_vars => ProtocolInv'
  BY ProtocolStep
<1> QED BY <1>1, ProtocolInit, PTL DEF Spec

\* A chunk the capture was told is done was answered by the session it was
\* submitted to: client.rs matches a result by its number alone, and still no
\* late answer to another chunk is taken for its own, reloads of the window
\* included.  Two dispatchers at a time are left out: there it fails.
THEOREM AckedIsProcessedCorrect == Spec /\ []OneDispatcher => []AckedIsProcessed
<1>1. ProtocolInv => AckedIsProcessed
  BY DEF ProtocolInv, SessionInv, AckedIsProcessed
<1> QED BY <1>1, ProtocolCorrect, PTL

\* Client and handler stay in step: while both are in the session the handler
\* expects the client's number, or the next one for a chunk it did answer.
THEOREM InvCorrect == Spec /\ []OneDispatcher => []Inv
<1>1. ProtocolInv => Inv
  <2> SUFFICES ASSUME ProtocolInv PROVE Inv
    OBVIOUS
  <2> DEFINE c == client.session
  <2>1. TypeOK
    BY DEF ProtocolInv, TypeInv
  <2>2. ASSUME c # 0, handler[c].pc \in {"open", "stt"}
        PROVE  \/ handler[c].expected = client.next
               \/ /\ handler[c].expected = client.next + 1
                  /\ \E a \in 1..MaxAudio : <<c, a>> \in processed \ acked
    <3>1. c \in Connections
      BY <2>1, <2>2, ConstantTypes DEF TypeOK, ClientType, Connections
    <3>2. Agreed(c) \/ Ahead(c)
      BY <2>2, <3>1 DEF ProtocolInv, SessionInv, SessionOf, InStep
    <3>3. processed \subseteq Connections \X (1..MaxAudio)
      BY <2>1 DEF TypeOK
    <3>4. CASE Ahead(c)
      <4>1. <<c, handler[c].audio>> \in processed \ acked /\ handler[c].expected = client.next + 1
        BY <3>4 DEF Ahead
      <4>2. handler[c].audio \in 1..MaxAudio
        BY <3>3, <4>1
      <4> QED BY <4>1, <4>2
    <3> QED BY <3>2, <3>4 DEF Agreed
  <2>3. NumbersAgree
    BY <2>2 DEF NumbersAgree
  <2> QED BY <2>1, <2>3 DEF Inv
<1> QED BY <1>1, ProtocolCorrect, PTL

\* When end_session reports success, every text the session added to the
\* meeting has been emitted to the window.
THEOREM EndedIsShownCorrect == Spec /\ []OneDispatcher => []EndedIsShown
<1>1. ProtocolInv => EndedIsShown
  <2> SUFFICES ASSUME ProtocolInv, NEW m \in Meetings, NEW i \in RowsOf(m),
                      transcript[m][i].session \in confirmed
               PROVE  <<transcript[m][i].session,
                        <<transcript[m][i].seq, transcript[m][i].words>>>> \in shown
    BY DEF EndedIsShown
  <2> DEFINE c == transcript[m][i].session
  <2>1. c \in Connections
    BY DEF ProtocolInv, TypeInv, TypeOK
  <2>2. Said(c, ShownOf(c))
    BY <2>1 DEF ProtocolInv, EndInv
  <2> QED BY <2>2 DEF Said, ShownOf
<1> QED BY <1>1, ProtocolCorrect, PTL
=============================================================================
