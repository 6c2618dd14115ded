----------------------- MODULE CaptureSender_proof -----------------------
(***************************************************************************)
(* Proofs about CaptureSender, for every capacity and every bound: no chunk *)
(* is stranded beside a sleeping task, no sender outlives its session,      *)
(* nothing follows a refused submission, chunks reach the client in the     *)
(* order they were finalized, each at most once, and a stop that reports    *)
(* success accounts for all the audio that was admitted.                    *)
(***************************************************************************)
EXTENDS CaptureSender, TLAPS

\* Between finding the queue empty and falling asleep the task relies on the
\* permit: a chunk that arrives meanwhile has left one, or is about to.
WakeInv ==
  /\ task \in {"check", "register"} /\ queue # <<>> => permit \/ worker = "notify"
  /\ NoChunkStranded

LEMMA InitWakeInv == Init => WakeInv
  BY DEF Init, WakeInv, NoChunkStranded

LEMMA SenderKeepsWakeInv ==
  ASSUME WakeInv, Sender \/ SubmitSucceeds \/ SubmitFails
  PROVE  WakeInv'
<1> USE DEF WakeInv, NoChunkStranded
<1>1. CASE TaskTop \/ TaskTaken \/ SubmitSucceeds \/ SubmitFails
  BY <1>1 DEF TaskTop, TaskTaken, SubmitSucceeds, SubmitFails, TaskGoes
<1>2. CASE Pop
  BY <1>2 DEF Pop, workerVars
<1>3. CASE CheckClosed
  BY <1>3 DEF CheckClosed, queueVars, workerVars
<1>4. CASE Register
  BY <1>4 DEF Register, workerVars
<1>5. CASE AnnounceFailure \/ ClearAfterFailure
  BY <1>5 DEF AnnounceFailure, ClearAfterFailure, TaskGoes
<1> QED BY <1>1, <1>2, <1>3, <1>4, <1>5 DEF Sender

LEMMA WorkerKeepsWakeInv ==
  ASSUME WakeInv, Worker
  PROVE  WakeInv'
<1> USE DEF WakeInv, NoChunkStranded
<1>1. CASE WorkerTop \/ WorkerArms \/ TakeFrame \/ TakeNudge \/ InputEnds \/ WorkerDropped
  BY <1>1 DEF WorkerTop, WorkerArms, TakeFrame, TakeNudge, InputEnds, WorkerDropped, taskVars, queueVars
<1>2. CASE Admit
  BY <1>2 DEF Admit
<1>3. CASE Refuse
  BY <1>3 DEF Refuse, taskVars
<1>4. CASE ProcessingFails \/ BatchEnds \/ WorkerReports
  BY <1>4 DEF ProcessingFails, BatchEnds, WorkerReports, taskVars, queueVars
<1>5. CASE NotifyOne
  BY <1>5 DEF NotifyOne
<1>6. CASE WorkerClears
  BY <1>6 DEF WorkerClears, taskVars
<1> QED BY <1>1, <1>2, <1>3, <1>4, <1>5, <1>6 DEF Worker

LEMMA CoordinatorKeepsWakeInv ==
  ASSUME WakeInv, Coordinator \/ Timers \/ Calls
  PROVE  WakeInv'
<1> USE DEF WakeInv, NoChunkStranded
<1>1. CASE Status
  BY <1>1 DEF Status, taskVars
<1>2. CASE StopBegins \/ AbortBegins \/ Joined \/ JoinTimesOut \/ JoinedAborted
  BY <1>2 DEF StopBegins, AbortBegins, Joined, JoinTimesOut, JoinedAborted,
              taskVars, queueVars, workerVars
<1>3. CASE Close \/ AbortSender
  BY <1>3 DEF Close, AbortSender, taskVars, workerVars
<1>4. CASE CloseWakes
  BY <1>4 DEF CloseWakes, Wake, queueVars, workerVars
<1>5. CASE Drained
  BY <1>5 DEF Drained, taskVars, queueVars
<1>6. CASE DrainTimesOut \/ AbortReturns
  BY <1>6 DEF DrainTimesOut, AbortReturns, queueVars, TaskWaits
<1>7. CASE AbortClears
  BY <1>7 DEF AbortClears, Wake, workerVars
<1> QED
  BY <1>1, <1>2, <1>3, <1>4, <1>5, <1>6, <1>7 DEF Coordinator, Timers, Calls

\* The push that makes the queue non-empty always wakes the sender task:
\* notify_one after the append, and the emptiness test before the wait
\* (sender.rs, push and next).
THEOREM NoChunkStrandedCorrect == Spec => []NoChunkStranded
<1>1. WakeInv /\ [Next]_vars => WakeInv'
  <2> SUFFICES ASSUME WakeInv, [Next]_vars PROVE WakeInv' OBVIOUS
  <2>1. CASE UNCHANGED vars
    BY <2>1 DEF vars, queueVars, taskVars, workerVars, WakeInv, NoChunkStranded
  <2> QED
    BY <2>1, SenderKeepsWakeInv, WorkerKeepsWakeInv, CoordinatorKeepsWakeInv DEF Next
<1>2. WakeInv => NoChunkStranded BY DEF WakeInv
<1> QED BY <1>1, <1>2, InitWakeInv, PTL DEF Spec

-----------------------------------------------------------------------------
(* Nothing follows a failure, nobody outlives a return. *)

\* the task's way out once a submission is refused
FailInv == failed => task \in {"announce", "clear", "done"}

LEMMA FailInvStep == FailInv /\ [Next]_vars => FailInv'
<1> SUFFICES ASSUME FailInv, [Next]_vars PROVE FailInv' OBVIOUS
<1> USE DEF FailInv
<1>1. CASE Sender \/ SubmitSucceeds \/ SubmitFails
  BY <1>1 DEF Sender, SubmitSucceeds, SubmitFails, TaskTop, Pop, CheckClosed, Register,
              TaskTaken, AnnounceFailure, ClearAfterFailure, TaskGoes
<1>2. CASE Worker
  BY <1>2 DEF Worker, WorkerTop, WorkerArms, TakeFrame, TakeNudge, InputEnds, WorkerDropped, Admit,
              Refuse, ProcessingFails, NotifyOne, BatchEnds, WorkerClears, WorkerReports,
              taskVars
<1>3. CASE Coordinator \/ Timers
  BY <1>3 DEF Coordinator, Timers, Joined, JoinedAborted, JoinTimesOut, Close, CloseWakes,
              Drained, DrainTimesOut, AbortSender, AbortClears, AbortReturns, Wake, taskVars
<1>4. CASE Calls
  BY <1>4 DEF Calls, Status, StopBegins, AbortBegins, taskVars
<1>5. CASE UNCHANGED vars
  BY <1>5 DEF vars, taskVars
<1> QED BY <1>1, <1>2, <1>3, <1>4, <1>5 DEF Next

LEMMA OnlyTakenIsSent == ASSUME [Next]_vars, task # "taken" PROVE sent' = sent
<1>1. CASE Sender \/ SubmitSucceeds \/ SubmitFails
  BY <1>1 DEF Sender, SubmitSucceeds, SubmitFails, TaskTop, Pop, CheckClosed, Register,
              TaskTaken, AnnounceFailure, ClearAfterFailure, historyVars
<1>2. CASE Worker
  BY <1>2 DEF Worker, WorkerTop, WorkerArms, TakeFrame, TakeNudge, InputEnds, WorkerDropped, Admit,
              Refuse, ProcessingFails, NotifyOne, BatchEnds, WorkerClears, WorkerReports,
              historyVars
<1>3. CASE Coordinator \/ Timers
  BY <1>3 DEF Coordinator, Timers, Joined, JoinedAborted, JoinTimesOut, Close, CloseWakes,
              Drained, DrainTimesOut, AbortSender, AbortClears, AbortReturns, historyVars
<1>4. CASE Calls
  BY <1>4 DEF Calls, Status, StopBegins, AbortBegins, historyVars
<1>5. CASE UNCHANGED vars
  BY <1>5 DEF vars, historyVars
<1> QED BY <1>1, <1>2, <1>3, <1>4, <1>5 DEF Next

\* A refused submission is the last thing the client is given (sender.rs: the
\* task returns, whatever the worker still pushes).
THEOREM NothingAfterFailureCorrect == Spec => NothingAfterFailure
<1>1. Init => FailInv BY DEF Init, FailInv
<1>2. FailInv /\ [Next]_vars => [failed => sent' = sent]_vars
  BY OnlyTakenIsSent DEF FailInv
<1> QED BY <1>1, <1>2, FailInvStep, PTL DEF Spec, NothingAfterFailure

LEMMA GoneStep == GoneAfterReturn /\ [Next]_vars => GoneAfterReturn'
<1> SUFFICES ASSUME GoneAfterReturn, [Next]_vars PROVE GoneAfterReturn' OBVIOUS
<1> USE DEF GoneAfterReturn
<1>1. CASE Sender \/ SubmitSucceeds \/ SubmitFails
  BY <1>1 DEF Sender, SubmitSucceeds, SubmitFails, TaskTop, Pop, CheckClosed, Register,
              TaskTaken, AnnounceFailure, ClearAfterFailure, TaskGoes, coordVars
<1>2. CASE Worker
  BY <1>2 DEF Worker, WorkerTop, WorkerArms, TakeFrame, TakeNudge, InputEnds, WorkerDropped, Admit,
              Refuse, ProcessingFails, NotifyOne, BatchEnds, WorkerClears, WorkerReports,
              taskVars, coordVars
<1>3. CASE Joined \/ JoinedAborted \/ JoinTimesOut \/ Close \/ AbortSender
  BY <1>3 DEF Joined, JoinedAborted, JoinTimesOut, Close, AbortSender
<1>4. CASE CloseWakes \/ AbortClears
  BY <1>4 DEF CloseWakes, AbortClears
<1>5. CASE Drained \/ DrainTimesOut \/ AbortReturns
  BY <1>5 DEF Drained, DrainTimesOut, AbortReturns, taskVars
<1>6. CASE Calls
  BY <1>6 DEF Calls, Status, StopBegins, AbortBegins, taskVars
<1>7. CASE UNCHANGED vars
  BY <1>7 DEF vars, taskVars, coordVars
<1> QED BY <1>1, <1>2, <1>3, <1>4, <1>5, <1>6, <1>7 DEF Next, Coordinator, Timers

\* Whichever way a stop or an abort returns, it has awaited the sender task or
\* aborted it (sender.rs, finish_gracefully and abort).
THEOREM GoneAfterReturnCorrect == Spec => []GoneAfterReturn
<1>1. Init => GoneAfterReturn BY DEF Init, GoneAfterReturn
<1> QED BY <1>1, GoneStep, PTL DEF Spec

-----------------------------------------------------------------------------
(* Chunks reach the client in order. *)

Increasing(s) == \A i, j \in DOMAIN s : i < j => s[i] < s[j]
Below(s, n) == \A i \in DOMAIN s : s[i] < n
Above(s, n) == \A i \in DOMAIN s : n < s[i]

\* InOrder taken apart, and the last number given out bounds them all.
OrderInv ==
  /\ sent \in Seq(Nat) /\ queue \in Seq(Nat) /\ made \in Nat
  /\ Increasing(sent) /\ Increasing(queue)
  /\ \A i \in DOMAIN sent : Above(queue, sent[i])
  /\ Below(sent, made + 1) /\ Below(queue, made + 1)
  /\ task = "taken" =>
       hand \in Nat /\ hand <= made /\ Below(sent, hand) /\ Above(queue, hand)

LEMMA InitOrderInv == Init => OrderInv
  BY DEF Init, OrderInv, Increasing, Below, Above

\* A step that moves no chunk, or empties the queue, keeps the order.
LEMMA OrderFrame ==
  ASSUME OrderInv, sent' = sent, made' = made, queue' = queue \/ queue' = <<>>,
         task' = "taken" => task = "taken" /\ hand' = hand
  PROVE  OrderInv'
<1>1. CASE queue' = queue
  BY <1>1 DEF OrderInv, Increasing, Below, Above
<1>2. CASE queue' = <<>>
  BY <1>2 DEF OrderInv, Increasing, Below, Above
<1> QED BY <1>1, <1>2

LEMMA PopKeepsOrder == ASSUME OrderInv, Pop PROVE OrderInv'
<1>1. CASE queue = <<>>
  BY <1>1, OrderFrame DEF Pop, workerVars, historyVars
<1>2. CASE queue # <<>>
  <2>1. /\ hand' = Head(queue) /\ queue' = Tail(queue) /\ sent' = sent /\ made' = made
        /\ queue \in Seq(Nat) /\ sent \in Seq(Nat) /\ made \in Nat
    BY <1>2 DEF Pop, workerVars, historyVars, OrderInv
  <2>2. /\ Head(queue) = queue[1] /\ 1 \in DOMAIN queue /\ Head(queue) \in Nat
        /\ Tail(queue) \in Seq(Nat)
        /\ \A i \in DOMAIN Tail(queue) :
             i + 1 \in DOMAIN queue /\ Tail(queue)[i] = queue[i + 1] /\ i \in Nat \ {0}
    BY <1>2, <2>1
  <2> DEFINE q == Tail(queue)
  <2>a. Increasing(queue) BY DEF OrderInv
  <2>b. queue' = q /\ hand' = queue[1] BY <2>1, <2>2
  <2>c. \A i \in DOMAIN q : i + 1 \in DOMAIN queue /\ q[i] = queue[i + 1] /\ i \in Nat \ {0}
    BY <2>2
  <2>d. 1 \in DOMAIN queue BY <2>2
  <2>3. Increasing(queue') /\ Above(queue', hand')
    <3> HIDE DEF q
    <3>1. \A i, j \in DOMAIN q : i < j => q[i] < q[j]
      <4> SUFFICES ASSUME NEW i \in DOMAIN q, NEW j \in DOMAIN q, i < j PROVE q[i] < q[j]
        OBVIOUS
      <4>1. i + 1 < j + 1 BY <2>c
      <4> QED BY <2>a, <2>c, <4>1 DEF Increasing
    <3>2. \A i \in DOMAIN q : queue[1] < q[i]
      <4> SUFFICES ASSUME NEW i \in DOMAIN q PROVE queue[1] < q[i]
        OBVIOUS
      <4>1. 1 < i + 1 BY <2>c
      <4> QED BY <2>a, <2>c, <2>d, <4>1 DEF Increasing
    <3> QED BY <3>1, <3>2, <2>b DEF Increasing, Above
  <2>4. hand' <= made /\ Below(queue', made + 1) /\ hand' \in Nat
    BY <2>1, <2>2 DEF OrderInv, Below
  <2>5. Below(sent, hand') /\ \A i \in DOMAIN sent : Above(queue', sent[i])
    BY <2>1, <2>2 DEF OrderInv, Below, Above
  <2> QED BY <2>1, <2>2, <2>3, <2>4, <2>5 DEF OrderInv
<1> QED BY <1>1, <1>2

LEMMA TakenKeepsOrder == ASSUME OrderInv, TaskTaken PROVE OrderInv'
<1>1. CASE stopped
  BY <1>1, OrderFrame DEF TaskTaken, queueVars, workerVars
<1>2. CASE ~stopped
  <2>1. /\ task = "taken" /\ task' = "submitting"
        /\ sent' = Append(sent, hand) /\ queue' = queue /\ made' = made
        /\ sent \in Seq(Nat) /\ hand \in Nat
    BY <1>2 DEF TaskTaken, queueVars, workerVars, OrderInv
  <2>2. /\ sent' \in Seq(Nat) /\ DOMAIN sent' = DOMAIN sent \cup {Len(sent) + 1}
        /\ \A i \in DOMAIN sent : sent'[i] = sent[i] /\ i <= Len(sent) /\ i \in Nat
        /\ sent'[Len(sent) + 1] = hand /\ Len(sent) \in Nat
    BY <2>1
  <2>3. Increasing(sent')
    BY <2>1, <2>2 DEF OrderInv, Increasing, Below
  <2>4. Below(sent', made' + 1)
    BY <2>1, <2>2 DEF OrderInv, Below
  <2>5. \A i \in DOMAIN sent' : Above(queue', sent'[i])
    BY <2>1, <2>2 DEF OrderInv, Above
  <2> QED BY <2>1, <2>2, <2>3, <2>4, <2>5 DEF OrderInv
<1> QED BY <1>1, <1>2

LEMMA AdmitKeepsOrder == ASSUME OrderInv, Admit PROVE OrderInv'
<1>1. /\ made' = made + 1 /\ queue' = Append(queue, made + 1) /\ sent' = sent
      /\ task' = task /\ hand' = hand
      /\ queue \in Seq(Nat) /\ sent \in Seq(Nat) /\ made \in Nat
  BY DEF Admit, taskVars, OrderInv
<1>2. /\ queue' \in Seq(Nat) /\ DOMAIN queue' = DOMAIN queue \cup {Len(queue) + 1}
      /\ \A i \in DOMAIN queue :
           queue'[i] = queue[i] /\ i <= Len(queue) /\ i \in Nat /\ queue[i] \in Nat
      /\ queue'[Len(queue) + 1] = made + 1 /\ Len(queue) \in Nat
  BY <1>1
<1>3. \A i \in DOMAIN sent : sent[i] \in Nat
  BY <1>1
<1>4. Increasing(queue')
  BY <1>1, <1>2 DEF OrderInv, Increasing, Below
<1>5. Below(queue', made' + 1) /\ Below(sent', made' + 1)
  BY <1>1, <1>2, <1>3 DEF OrderInv, Below
<1>6. \A i \in DOMAIN sent' : Above(queue', sent'[i])
  BY <1>1, <1>2, <1>3 DEF OrderInv, Above, Below
<1>7. task' = "taken" => hand' \in Nat /\ hand' <= made' /\ Below(sent', hand')
                         /\ Above(queue', hand')
  BY <1>1, <1>2, <1>3 DEF OrderInv, Below, Above
<1> QED BY <1>1, <1>2, <1>4, <1>5, <1>6, <1>7 DEF OrderInv

LEMMA RefuseKeepsOrder == ASSUME OrderInv, Refuse PROVE OrderInv'
<1>1. /\ made' = made + 1 /\ queue' = queue /\ sent' = sent /\ task' = task /\ hand' = hand
      /\ made \in Nat
  BY DEF Refuse, taskVars, OrderInv
<1>2. /\ \A i \in DOMAIN sent : sent[i] \in Nat
      /\ \A i \in DOMAIN queue : queue[i] \in Nat
  BY DEF OrderInv
<1>3. Below(queue', made' + 1) /\ Below(sent', made' + 1)
  BY <1>1, <1>2 DEF OrderInv, Below
<1> QED BY <1>1, <1>3 DEF OrderInv, Increasing, Below, Above

LEMMA OrderStep == OrderInv /\ [Next]_vars => OrderInv'
<1> SUFFICES ASSUME OrderInv, [Next]_vars PROVE OrderInv' OBVIOUS
<1>1. CASE TaskTop \/ CheckClosed \/ Register \/ AnnounceFailure \/ ClearAfterFailure
           \/ SubmitSucceeds \/ SubmitFails
  BY <1>1, OrderFrame DEF TaskTop, CheckClosed, Register, AnnounceFailure,
     ClearAfterFailure, SubmitSucceeds, SubmitFails, TaskGoes, queueVars, workerVars,
     historyVars
<1>2. CASE Worker /\ ~Admit /\ ~Refuse
  BY <1>2, OrderFrame DEF Worker, WorkerTop, WorkerArms, TakeFrame, TakeNudge, InputEnds,
     WorkerDropped, ProcessingFails, NotifyOne, BatchEnds, WorkerClears, WorkerReports,
     queueVars, taskVars, historyVars
<1>3. CASE Coordinator \/ Timers
  BY <1>3, OrderFrame DEF Coordinator, Timers, Joined, JoinedAborted, JoinTimesOut, Close,
     CloseWakes, Drained, DrainTimesOut, AbortSender, AbortClears, AbortReturns, Wake,
     queueVars, taskVars, workerVars, historyVars
<1>4. CASE Calls
  BY <1>4, OrderFrame DEF Calls, Status, StopBegins, AbortBegins, queueVars, taskVars,
     workerVars, historyVars
<1>5. CASE UNCHANGED vars
  BY <1>5, OrderFrame DEF vars, queueVars, taskVars, workerVars, historyVars
<1> QED
  BY <1>1, <1>2, <1>3, <1>4, <1>5, PopKeepsOrder, TakenKeepsOrder, AdmitKeepsOrder,
     RefuseKeepsOrder DEF Next, Sender

\* Two increasing sequences, one below the other, make an increasing one.
LEMMA IncreasingConcat ==
  ASSUME NEW s \in Seq(Nat), NEW t \in Seq(Nat), Increasing(s), Increasing(t),
         \A i \in DOMAIN s : Above(t, s[i])
  PROVE  Increasing(s \o t)
<1> SUFFICES ASSUME NEW i \in DOMAIN (s \o t), NEW j \in DOMAIN (s \o t), i < j
             PROVE  (s \o t)[i] < (s \o t)[j]
  BY DEF Increasing
<1>1. /\ i \in Nat /\ j \in Nat /\ Len(s) \in Nat /\ Len(t) \in Nat
      /\ i \in 1..(Len(s) + Len(t)) /\ j \in 1..(Len(s) + Len(t))
  OBVIOUS
<1>2. CASE j <= Len(s)
  <2>1. i \in DOMAIN s /\ j \in DOMAIN s /\ (s \o t)[i] = s[i] /\ (s \o t)[j] = s[j]
    BY <1>1, <1>2
  <2> QED BY <2>1 DEF Increasing
<1>3. CASE i <= Len(s) /\ j > Len(s)
  <2>1. /\ i \in DOMAIN s /\ j - Len(s) \in DOMAIN t
        /\ (s \o t)[i] = s[i] /\ (s \o t)[j] = t[j - Len(s)]
    BY <1>1, <1>3
  <2> QED BY <2>1 DEF Above
<1>4. CASE i > Len(s)
  <2>1. /\ i - Len(s) \in DOMAIN t /\ j - Len(s) \in DOMAIN t /\ i - Len(s) < j - Len(s)
        /\ (s \o t)[i] = t[i - Len(s)] /\ (s \o t)[j] = t[j - Len(s)]
    BY <1>1, <1>4
  <2> QED BY <2>1 DEF Increasing
<1>5. j <= Len(s) \/ (i <= Len(s) /\ j > Len(s)) \/ i > Len(s)
  <2>1. \A a, b, n \in Nat : b <= n \/ (a <= n /\ b > n) \/ a > n
    OBVIOUS
  <2> QED BY <1>1, <2>1
<1> QED BY <1>2, <1>3, <1>4, <1>5

LEMMA OrderInvImpliesInOrder == OrderInv => InOrder
<1> SUFFICES ASSUME OrderInv PROVE InOrder OBVIOUS
<1> DEFINE mid == IF task = "taken" THEN <<hand>> ELSE <<>>
<1>1. sent \in Seq(Nat) /\ mid \in Seq(Nat) /\ queue \in Seq(Nat)
  BY DEF OrderInv
<1>2. Increasing(sent) /\ Increasing(mid) /\ Increasing(queue)
  BY DEF OrderInv, Increasing
<1>3. \A i \in DOMAIN sent : Above(mid, sent[i]) /\ Above(queue, sent[i])
  BY DEF OrderInv, Above, Below
<1>4. \A i \in DOMAIN mid : Above(queue, mid[i])
  BY DEF OrderInv, Above
<1> DEFINE front == sent \o mid
<1>5. front \in Seq(Nat) /\ Increasing(front)
  <2> HIDE DEF mid
  <2>1. Increasing(front)
    BY <1>1, <1>2, <1>3, IncreasingConcat
  <2> QED BY <2>1, <1>1
<1>6. \A i \in DOMAIN front : Above(queue, front[i])
  <2> SUFFICES ASSUME NEW i \in DOMAIN front PROVE Above(queue, front[i]) OBVIOUS
  <2>1. CASE i <= Len(sent)
    <3>1. i \in DOMAIN sent /\ front[i] = sent[i]
      BY <1>1, <2>1
    <3> QED BY <3>1, <1>3
  <2>2. CASE i > Len(sent)
    <3>1. i - Len(sent) \in DOMAIN mid /\ front[i] = mid[i - Len(sent)]
      BY <1>1, <2>2
    <3> QED BY <3>1, <1>4
  <2> QED BY <2>1, <2>2, <1>1
<1>7. Increasing(front \o queue)
  <2> HIDE DEF front
  <2> QED BY <1>1, <1>2, <1>5, <1>6, IncreasingConcat
<1>8. front \o queue = sent \o mid \o queue
  OBVIOUS
<1> QED BY <1>7, <1>8 DEF InOrder, Increasing

\* The client is given each chunk at most once and in the order of
\* finalization, whatever the capacity (sender.rs: push_back, pop_front, and
\* one task that submits).
THEOREM InOrderCorrect == Spec => []InOrder
<1> QED BY InitOrderInv, OrderStep, OrderInvImpliesInOrder, PTL DEF Spec

-----------------------------------------------------------------------------
(* Types, and what a stop that reports success knows. *)

\* The task of one chunk, as a set.
Taken == IF task = "taken" THEN {hand} ELSE {}
Submitting == IF task = "submitting" THEN {hand} ELSE {}

\* Whoever clears the queue has failed or is aborting.
ClearInv ==
  /\ task \in {"announce", "clear"} => failed
  /\ at = "abortClear" => stopped

\* A sender that was stopped, or a call that returned, leaves no sender to a
\* later call, and no later call is a stop of a running capture.
OnceInv ==
  /\ stopped \/ result # "none" =>
       "sender" \notin owned /\ (at = "idle" => state # "capturing")
  /\ stopped => at \in {"idle", "joinAborted", "abortClear", "abortWait"}
  /\ result # "none" => at \in {"idle", "joinAborted", "abortWait"}
  /\ at \in {"drain", "drained", "abortClear", "abortWait"} => "sender" \notin owned

\* While a stop waits for the sender, the worker is done and has not failed but
\* on the final tail.
JoinInv ==
  at \in {"close", "drain", "drained"} =>
    worker = "done" /\ (processingFailed => tailFailed)

\* Every submission but the one under way has been answered.
AnswerInv ==
  \/ failed \/ result \notin {"none", "stopped"}
  \/ Sent = delivered \cup Submitting

StopInv ==
  /\ ClearInv /\ OnceInv /\ JoinInv /\ AnswerInv /\ StopWaitsForAnswers
  /\ result = "stopped" => task = "done" /\ worker = "done"

IInv == TypeOK /\ AdmittedIsKept /\ StopInv

LEMMA InitIInv == Init => IInv
<1> SUFFICES ASSUME Init PROVE IInv OBVIOUS
<1>1. TypeOK
  <2>1. QueueType /\ HistoryType
    BY CapacityAssumption DEF Init, QueueType, HistoryType
  <2>2. FlagType
    BY DEF Init, FlagType
  <2>3. TaskType /\ WorkerType /\ CallType
    BY BoundsAssumption DEF Init, TaskType, WorkerType, CallType
  <2> QED BY <2>1, <2>2, <2>3 DEF TypeOK
<1>2. AdmittedIsKept /\ StopInv
  BY DEF Init, AdmittedIsKept, StopInv, ClearInv, OnceInv, JoinInv, AnswerInv,
         StopWaitsForAnswers, Sent, Queued, Submitting
<1> QED BY <1>1, <1>2 DEF IInv

LEMMA QueueTypeStep == TypeOK /\ [Next]_vars => QueueType'
<1> SUFFICES ASSUME TypeOK, [Next]_vars PROVE QueueType' OBVIOUS
<1>1. queue \in Seq(Chunks) /\ Len(queue) <= Capacity /\ Capacity \in Nat \ {0} /\ made \in Nat
      /\ 0 <= Capacity
  BY CapacityAssumption, BoundsAssumption DEF TypeOK, QueueType, WorkerType
<1>2. CASE queue' \in {queue, <<>>}
  <2>1. <<>> \in Seq(Chunks) /\ Len(<<>>) = 0
    OBVIOUS
  <2>2. CASE queue' = queue
    BY <1>1, <2>2 DEF QueueType
  <2>3. CASE queue' = <<>>
    BY <1>1, <2>1, <2>3 DEF QueueType
  <2> QED BY <1>2, <2>2, <2>3
<1>3. CASE Pop
  <2>1. queue = <<>> \/ (queue # <<>> /\ queue' = Tail(queue))
    BY <1>3 DEF Pop
  <2>2. queue # <<>> => Tail(queue) \in Seq(Chunks) /\ Len(Tail(queue)) = Len(queue) - 1
                        /\ Len(queue) \in Nat
    BY <1>1
  <2> QED BY <1>1, <1>2, <1>3, <2>1, <2>2 DEF QueueType, Pop
<1>4. CASE Admit
  <2>1. queue' = Append(queue, made + 1) /\ Len(queue) < Capacity /\ made + 1 \in Chunks
    BY <1>4, BoundsAssumption DEF Admit, TypeOK, WorkerType, Chunks
  <2> QED BY <1>1, <2>1 DEF QueueType
<1>5. CASE (Sender /\ ~Pop) \/ SubmitSucceeds \/ SubmitFails
  BY <1>2, <1>5 DEF Sender, SubmitSucceeds, SubmitFails, TaskTop, CheckClosed, Register,
              TaskTaken, AnnounceFailure, ClearAfterFailure, queueVars
<1>6. CASE Worker /\ ~Admit
  BY <1>2, <1>6 DEF Worker, WorkerTop, WorkerArms, TakeFrame, TakeNudge, InputEnds, WorkerDropped,
              Refuse, ProcessingFails, NotifyOne, BatchEnds, WorkerClears, WorkerReports,
              queueVars
<1>7. CASE Coordinator \/ Timers
  BY <1>2, <1>7 DEF Coordinator, Timers, Joined, JoinedAborted, JoinTimesOut, Close, CloseWakes,
              Drained, DrainTimesOut, AbortSender, AbortClears, AbortReturns, queueVars
<1>8. CASE Calls
  BY <1>2, <1>8 DEF Calls, Status, StopBegins, AbortBegins, queueVars
<1>9. CASE UNCHANGED vars
  BY <1>2, <1>9 DEF vars, queueVars
<1> QED BY <1>3, <1>4, <1>5, <1>6, <1>7, <1>8, <1>9 DEF Next

\* The flags, by who sets them.
QueueFlags == closed \in BOOLEAN /\ overloaded \in BOOLEAN /\ permit \in BOOLEAN
TaskFlags == failed \in BOOLEAN
SignalFlags == dropped \in BOOLEAN /\ nudged \in BOOLEAN /\ stopped \in BOOLEAN
WorkerFlags == gap \in BOOLEAN /\ processingFailed \in BOOLEAN /\ tailFailed \in BOOLEAN
CallFlags == graceful \in BOOLEAN /\ stopping \in BOOLEAN

LEMMA FlagTypeParts ==
  FlagType <=> QueueFlags /\ TaskFlags /\ SignalFlags /\ WorkerFlags /\ CallFlags
  BY DEF FlagType, QueueFlags, TaskFlags, SignalFlags, WorkerFlags, CallFlags

LEMMA QueueFlagsStep == QueueFlags /\ [Next]_vars => QueueFlags'
<1> SUFFICES ASSUME QueueFlags, [Next]_vars PROVE QueueFlags' OBVIOUS
<1>1. /\ closed' = closed \/ closed' = TRUE
      /\ overloaded' = overloaded \/ overloaded' = TRUE
      /\ permit' = permit \/ permit' = TRUE \/ permit' = FALSE
  <2>1. CASE Sender \/ SubmitSucceeds \/ SubmitFails
    BY <2>1 DEF Sender, SubmitSucceeds, SubmitFails, TaskTop, Pop, CheckClosed, Register,
                TaskTaken, AnnounceFailure, ClearAfterFailure, queueVars
  <2>2. CASE Worker
    BY <2>2 DEF Worker, WorkerTop, WorkerArms, TakeFrame, TakeNudge, InputEnds, WorkerDropped, Admit,
                Refuse, ProcessingFails, NotifyOne, BatchEnds, WorkerClears, WorkerReports,
                queueVars
  <2>3. CASE Coordinator \/ Timers
    BY <2>3 DEF Coordinator, Timers, Joined, JoinedAborted, JoinTimesOut, Close, CloseWakes,
                Drained, DrainTimesOut, AbortSender, AbortClears, AbortReturns, queueVars
  <2>4. CASE Calls \/ UNCHANGED vars
    BY <2>4 DEF Calls, Status, StopBegins, AbortBegins, vars, queueVars
  <2> QED BY <2>1, <2>2, <2>3, <2>4 DEF Next
<1> QED BY <1>1 DEF QueueFlags

LEMMA TaskFlagsStep == TaskFlags /\ [Next]_vars => TaskFlags'
<1> SUFFICES ASSUME TaskFlags, [Next]_vars PROVE TaskFlags' OBVIOUS
<1>1. failed' = failed \/ failed' = TRUE
  BY DEF Next, Sender, SubmitSucceeds, SubmitFails, TaskTop, Pop, CheckClosed, Register,
     TaskTaken, AnnounceFailure, ClearAfterFailure, Worker, WorkerTop, WorkerArms, TakeFrame, TakeNudge,
     InputEnds, WorkerDropped, Admit, Refuse, ProcessingFails, NotifyOne, BatchEnds,
     WorkerClears, WorkerReports, Coordinator, Timers, Joined, JoinedAborted, JoinTimesOut,
     Close, CloseWakes, Drained, DrainTimesOut, AbortSender, AbortClears, AbortReturns, Calls,
     Status, StopBegins, AbortBegins, vars, taskVars
<1> QED BY <1>1 DEF TaskFlags

LEMMA SignalFlagsStep == SignalFlags /\ [Next]_vars => SignalFlags'
<1> SUFFICES ASSUME SignalFlags, [Next]_vars PROVE SignalFlags' OBVIOUS
<1>1. /\ dropped' = dropped \/ dropped' = TRUE \/ dropped' = (dropped \/ "worker" \in owned)
      /\ nudged' = nudged \/ nudged' = FALSE \/ nudged' = (nudged \/ worker = "select")
      /\ stopped' = stopped \/ stopped' = TRUE
  <2>1. CASE Sender \/ SubmitSucceeds \/ SubmitFails
    BY <2>1 DEF Sender, SubmitSucceeds, SubmitFails, TaskTop, Pop, CheckClosed, Register,
                TaskTaken, AnnounceFailure, ClearAfterFailure, signalVars
  <2>2. CASE Worker
    BY <2>2 DEF Worker, WorkerTop, WorkerArms, TakeFrame, TakeNudge, InputEnds, WorkerDropped, Admit,
                Refuse, ProcessingFails, NotifyOne, BatchEnds, WorkerClears, WorkerReports,
                signalVars
  <2>3. CASE Coordinator \/ Timers
    BY <2>3 DEF Coordinator, Timers, Joined, JoinedAborted, JoinTimesOut, Close, CloseWakes,
                Drained, DrainTimesOut, AbortSender, AbortClears, AbortReturns, signalVars
  <2>4. CASE Calls \/ UNCHANGED vars
    BY <2>4 DEF Calls, Status, StopBegins, AbortBegins, vars, signalVars
  <2> QED BY <2>1, <2>2, <2>3, <2>4 DEF Next
<1> QED BY <1>1 DEF SignalFlags

LEMMA WorkerFlagsStep == WorkerFlags /\ [Next]_vars => WorkerFlags'
<1> SUFFICES ASSUME WorkerFlags, [Next]_vars PROVE WorkerFlags' OBVIOUS
<1>1. /\ gap' = gap \/ gap' = TRUE \/ gap' = FALSE
      /\ \/ processingFailed' = processingFailed \/ processingFailed' = TRUE
         \/ processingFailed' = (processingFailed \/ ~stopping)
      /\ tailFailed' = tailFailed \/ tailFailed' = TRUE
  <2>1. CASE Sender \/ SubmitSucceeds \/ SubmitFails
    BY <2>1 DEF Sender, SubmitSucceeds, SubmitFails, TaskTop, Pop, CheckClosed, Register,
                TaskTaken, AnnounceFailure, ClearAfterFailure, workerVars
  <2>2. CASE Worker
    BY <2>2 DEF Worker, WorkerTop, WorkerArms, TakeFrame, TakeNudge, InputEnds, WorkerDropped, Admit,
                Refuse, ProcessingFails, NotifyOne, BatchEnds, WorkerClears, WorkerReports
  <2>3. CASE Coordinator \/ Timers
    BY <2>3 DEF Coordinator, Timers, Joined, JoinedAborted, JoinTimesOut, Close, CloseWakes,
                Drained, DrainTimesOut, AbortSender, AbortClears, AbortReturns, workerVars
  <2>4. CASE Calls \/ UNCHANGED vars
    BY <2>4 DEF Calls, Status, StopBegins, AbortBegins, vars, workerVars
  <2> QED BY <2>1, <2>2, <2>3, <2>4 DEF Next
<1> QED BY <1>1 DEF WorkerFlags

LEMMA CallFlagsStep == CallFlags /\ [Next]_vars => CallFlags'
<1> SUFFICES ASSUME CallFlags, [Next]_vars PROVE CallFlags' OBVIOUS
<1>1. /\ graceful' = graceful \/ graceful' = TRUE \/ graceful' = FALSE
      /\ stopping' = stopping \/ stopping' = TRUE
  BY DEF Next, Sender, SubmitSucceeds, SubmitFails, TaskTop, Pop, CheckClosed, Register,
     TaskTaken, AnnounceFailure, ClearAfterFailure, Worker, WorkerTop, WorkerArms, TakeFrame, TakeNudge,
     InputEnds, WorkerDropped, Admit, Refuse, ProcessingFails, NotifyOne, BatchEnds,
     WorkerClears, WorkerReports, Coordinator, Timers, Joined, JoinedAborted, JoinTimesOut,
     Close, CloseWakes, Drained, DrainTimesOut, AbortSender, AbortClears, AbortReturns, Calls,
     Status, StopBegins, AbortBegins, vars, coordVars
<1> QED BY <1>1 DEF CallFlags

LEMMA FlagTypeStep == TypeOK /\ [Next]_vars => FlagType'
<1> SUFFICES ASSUME FlagType, [Next]_vars PROVE FlagType' BY DEF TypeOK
<1>1. FlagType' <=> QueueFlags' /\ TaskFlags' /\ SignalFlags' /\ WorkerFlags' /\ CallFlags'
  BY DEF FlagType, QueueFlags, TaskFlags, SignalFlags, WorkerFlags, CallFlags
<1> QED
  BY <1>1, FlagTypeParts, QueueFlagsStep, TaskFlagsStep, SignalFlagsStep, WorkerFlagsStep,
     CallFlagsStep

LEMMA TaskTypeStep == TypeOK /\ [Next]_vars => TaskType'
<1> SUFFICES ASSUME TypeOK, [Next]_vars PROVE TaskType' OBVIOUS
<1> USE DEF TaskType
<1>1. TaskType BY DEF TypeOK
<1>2. MaxChunks \in Nat BY BoundsAssumption
<1>3. CASE Pop
  <2>1. queue # <<>> => Head(queue) \in Chunks
    BY DEF TypeOK, QueueType
  <2> QED BY <1>1, <1>2, <1>3, <2>1 DEF Pop, Chunks
<1>4. CASE (Sender /\ ~Pop) \/ SubmitSucceeds \/ SubmitFails
  BY <1>1, <1>2, <1>4 DEF Sender, SubmitSucceeds, SubmitFails, TaskTop, CheckClosed, Register,
              TaskTaken, AnnounceFailure, ClearAfterFailure, TaskGoes
<1>5. CASE Worker
  BY <1>1, <1>5 DEF Worker, WorkerTop, WorkerArms, TakeFrame, TakeNudge, InputEnds, WorkerDropped, Admit,
              Refuse, ProcessingFails, NotifyOne, BatchEnds, WorkerClears, WorkerReports,
              taskVars
<1>6. CASE Coordinator \/ Timers
  <2>1. \/ UNCHANGED taskVars
        \/ Wake /\ hand' = hand
        \/ task' = "done" /\ hand' = 0
    BY <1>6 DEF Coordinator, Timers, Joined, JoinedAborted, JoinTimesOut, Close, CloseWakes,
                Drained, DrainTimesOut, AbortSender, AbortClears, AbortReturns, taskVars
  <2> QED BY <1>1, <1>2, <2>1 DEF Wake, taskVars
<1>7. CASE Calls \/ UNCHANGED vars
  BY <1>1, <1>7 DEF Calls, Status, StopBegins, AbortBegins, vars, taskVars
<1> QED BY <1>3, <1>4, <1>5, <1>6, <1>7 DEF Next

LEMMA WorkerTypeStep == TypeOK /\ [Next]_vars => WorkerType'
<1> SUFFICES ASSUME WorkerType, [Next]_vars PROVE WorkerType' BY DEF TypeOK
<1> USE BoundsAssumption DEF WorkerType
<1>1. CASE WorkerTop \/ WorkerArms \/ TakeNudge \/ WorkerDropped \/ ProcessingFails \/ NotifyOne
           \/ WorkerClears \/ WorkerReports
  BY <1>1 DEF WorkerTop, WorkerArms, TakeNudge, WorkerDropped, ProcessingFails, NotifyOne, WorkerClears,
              WorkerReports
<1>2. CASE TakeFrame
  BY <1>2 DEF TakeFrame
<1>3. CASE InputEnds
  BY <1>3 DEF InputEnds
<1>4. CASE Admit \/ Refuse
  BY <1>4 DEF Admit, Refuse
<1>5. CASE BatchEnds
  <2>1. phase = "capture" => worker' = "top" /\ phase' = phase /\ batch' = batch
    BY <1>5 DEF BatchEnds
  <2>2. phase = "flush" => /\ phase' = "tail" /\ worker' = worker
                           /\ \E n \in 0..1 : made + n <= MaxChunks /\ batch' = n
    BY <1>5 DEF BatchEnds
  <2>3. phase = "tail" => worker' = "done" /\ phase' = phase /\ batch' = batch
    BY <1>5 DEF BatchEnds
  <2>4. made' = made
    BY <1>5 DEF BatchEnds
  <2> QED BY <2>1, <2>2, <2>3, <2>4
<1>6. CASE Sender \/ SubmitSucceeds \/ SubmitFails \/ Coordinator \/ Timers \/ Calls
           \/ UNCHANGED vars
  <2>1. UNCHANGED <<worker, phase, made, batch>>
    BY <1>6 DEF Sender, SubmitSucceeds, SubmitFails, TaskTop, Pop, CheckClosed, Register,
       TaskTaken, AnnounceFailure, ClearAfterFailure, Coordinator, Timers, Joined,
       JoinedAborted, JoinTimesOut, Close, CloseWakes, Drained, DrainTimesOut, AbortSender,
       AbortClears, AbortReturns, Calls, Status, StopBegins, AbortBegins, vars, workerVars
  <2> QED BY <2>1
<1> QED BY <1>1, <1>2, <1>3, <1>4, <1>5, <1>6 DEF Next, Worker

LEMMA CallTypeStep == TypeOK /\ [Next]_vars => CallType'
<1> SUFFICES ASSUME CallType, [Next]_vars PROVE CallType' BY DEF TypeOK
<1> USE DEF CallType
<1>1. CASE Sender \/ SubmitSucceeds \/ SubmitFails \/ Worker \/ UNCHANGED vars
  <2>1. UNCHANGED <<input, state, owned, op, at, result>>
    BY <1>1 DEF Sender, SubmitSucceeds, SubmitFails, TaskTop, Pop, CheckClosed, Register,
       TaskTaken, AnnounceFailure, ClearAfterFailure, Worker, WorkerTop, WorkerArms, TakeFrame, TakeNudge,
       InputEnds, WorkerDropped, Admit, Refuse, ProcessingFails, NotifyOne, BatchEnds,
       WorkerClears, WorkerReports, vars, signalVars, coordVars
  <2> QED BY <2>1
<1>2. CASE Status
  BY <1>2 DEF Status
<1>3. CASE StopBegins \/ AbortBegins
  BY <1>3 DEF StopBegins, AbortBegins
<1>4. CASE Joined \/ JoinTimesOut \/ JoinedAborted
  BY <1>4 DEF Joined, JoinTimesOut, JoinedAborted, signalVars
<1>5. CASE Close \/ AbortSender
  BY <1>5 DEF Close, AbortSender, signalVars
<1>6. CASE CloseWakes \/ AbortClears
  BY <1>6 DEF CloseWakes, AbortClears, signalVars
<1>7. CASE Drained \/ DrainTimesOut
  BY <1>7 DEF Drained, DrainTimesOut, Returns, signalVars
<1>8. CASE AbortReturns
  BY <1>8 DEF AbortReturns, Returns, signalVars
<1> QED
  BY <1>1, <1>2, <1>3, <1>4, <1>5, <1>6, <1>7, <1>8 DEF Next, Coordinator, Timers, Calls

LEMMA HistoryTypeStep == TypeOK /\ [Next]_vars => HistoryType'
<1> SUFFICES ASSUME TypeOK, [Next]_vars PROVE HistoryType' OBVIOUS
<1>1. HistoryType BY DEF TypeOK
<1>2. task \in {"taken", "submitting"} => hand \in Chunks
  BY BoundsAssumption DEF TypeOK, TaskType, Chunks
<1>3. CASE TaskTaken
  BY <1>1, <1>2, <1>3 DEF TaskTaken, HistoryType
<1>4. CASE SubmitSucceeds
  BY <1>1, <1>2, <1>4 DEF SubmitSucceeds, TaskGoes, HistoryType
<1>5. CASE Admit
  <2>1. made + 1 \in Chunks
    BY <1>5, BoundsAssumption DEF Admit, TypeOK, WorkerType, Chunks
  <2> QED BY <1>1, <1>5, <2>1 DEF Admit, HistoryType
<1>6. CASE UNCHANGED historyVars
  BY <1>1, <1>6 DEF HistoryType, historyVars
<1>7. CASE (Sender /\ ~TaskTaken) \/ SubmitFails \/ (Worker /\ ~Admit)
  BY <1>6, <1>7 DEF Sender, SubmitFails, TaskTop, Pop, CheckClosed, Register,
     AnnounceFailure, ClearAfterFailure, Worker, WorkerTop, WorkerArms, TakeFrame, TakeNudge,
     InputEnds, WorkerDropped, Refuse, ProcessingFails, NotifyOne, BatchEnds,
     WorkerClears, WorkerReports, historyVars
<1>8. CASE Coordinator \/ Timers \/ Calls \/ UNCHANGED vars
  BY <1>6, <1>8 DEF Coordinator, Timers, Joined, JoinedAborted, JoinTimesOut, Close, CloseWakes,
     Drained, DrainTimesOut, AbortSender, AbortClears, AbortReturns, Calls, Status, StopBegins,
     AbortBegins, vars
<1> QED BY <1>3, <1>4, <1>5, <1>7, <1>8 DEF Next

LEMMA TypeStep == TypeOK /\ [Next]_vars => TypeOK'
  BY QueueTypeStep, FlagTypeStep, TaskTypeStep, WorkerTypeStep, CallTypeStep, HistoryTypeStep
     DEF TypeOK

-----------------------------------------------------------------------------
(* What is admitted is kept, and a stop that reports success knows it. *)

\* The elements of a sequence, as Sent and Queued take them.
Elements(s) == {s[i] : i \in DOMAIN s}

LEMMA AppendElements ==
  ASSUME NEW s \in Seq(Chunks), NEW c \in Chunks
  PROVE  Elements(Append(s, c)) = Elements(s) \cup {c}
<1>1. /\ DOMAIN Append(s, c) = DOMAIN s \cup {Len(s) + 1}
      /\ \A i \in DOMAIN s : Append(s, c)[i] = s[i]
      /\ Append(s, c)[Len(s) + 1] = c
  OBVIOUS
<1> QED BY <1>1 DEF Elements

LEMMA TailElements ==
  ASSUME NEW s \in Seq(Chunks), s # <<>>
  PROVE  Elements(s) = {Head(s)} \cup Elements(Tail(s))
<1>1. /\ Head(s) = s[1] /\ Len(s) \in Nat \ {0}
      /\ DOMAIN s = 1 .. Len(s) /\ DOMAIN Tail(s) = 1 .. Len(s) - 1
      /\ \A i \in DOMAIN Tail(s) : Tail(s)[i] = s[i + 1]
  OBVIOUS
<1>2. \A i \in DOMAIN Tail(s) : i + 1 \in DOMAIN s
  BY <1>1
<1>3. \A i \in DOMAIN s : i = 1 \/ (i - 1 \in DOMAIN Tail(s) /\ (i - 1) + 1 = i)
  BY <1>1
<1>4. 1 \in DOMAIN s
  BY <1>1
<1> QED BY <1>1, <1>2, <1>3, <1>4 DEF Elements

\* What becomes of the queue and of what was sent: a chunk moves on, or the
\* queue is cleared by somebody who has failed or is aborting.
Moves ==
  \/ /\ UNCHANGED <<queue, sent, admitted>>
     /\ Taken' = Taken
  \/ Pop /\ queue # <<>>
  \/ TaskTaken
  \/ Admit
  \/ /\ queue' = <<>>
     /\ failed' \/ processingFailed' \/ worker' = "report" \/ stopped'

LEMMA StepMoves == IInv /\ [Next]_vars => Moves
<1> SUFFICES ASSUME IInv, [Next]_vars PROVE Moves OBVIOUS
<1> USE DEF Moves, Taken
<1>1. CASE Pop
  BY <1>1 DEF Pop, historyVars
<1>2. CASE TaskTaken \/ Admit
  BY <1>2
<1>3. CASE TaskTop \/ CheckClosed \/ Register \/ AnnounceFailure \/ SubmitSucceeds
           \/ SubmitFails
  BY <1>3 DEF TaskTop, CheckClosed, Register, AnnounceFailure, SubmitSucceeds, SubmitFails,
              TaskGoes, queueVars, historyVars
<1>4. CASE ClearAfterFailure
  BY <1>4 DEF ClearAfterFailure, TaskGoes, IInv, StopInv, ClearInv
<1>5. CASE WorkerClears
  BY <1>5 DEF WorkerClears
<1>6. CASE Worker /\ ~Admit /\ ~WorkerClears
  BY <1>6 DEF Worker, WorkerTop, WorkerArms, TakeFrame, TakeNudge, InputEnds, WorkerDropped,
              Refuse, ProcessingFails, NotifyOne, BatchEnds, WorkerReports,
              queueVars, taskVars, historyVars
<1>7. CASE AbortClears
  BY <1>7 DEF AbortClears, signalVars, IInv, StopInv, ClearInv
<1>8. CASE (Coordinator \/ Timers) /\ ~AbortClears
  BY <1>8 DEF Coordinator, Timers, Joined, JoinedAborted, JoinTimesOut, Close, CloseWakes,
              Drained, DrainTimesOut, AbortSender, AbortReturns, Wake, TaskWaits,
              queueVars, taskVars, historyVars
<1>9. CASE Status
  BY <1>9 DEF Status, taskVars, historyVars
<1>10. CASE StopBegins \/ AbortBegins \/ UNCHANGED vars
  BY <1>10 DEF StopBegins, AbortBegins, vars, queueVars, taskVars, historyVars
<1> QED
  BY <1>1, <1>2, <1>3, <1>4, <1>5, <1>6, <1>7, <1>8, <1>9, <1>10 DEF Next, Sender, Calls

\* Nobody takes a failure back.
GivenUp == failed \/ processingFailed \/ worker = "report" \/ stopped

LEMMA GivenUpForGood == [Next]_vars /\ GivenUp => GivenUp'
<1> SUFFICES ASSUME [Next]_vars, GivenUp PROVE GivenUp' OBVIOUS
<1> USE DEF GivenUp
<1>1. CASE Sender \/ SubmitSucceeds \/ SubmitFails
  BY <1>1 DEF Sender, SubmitSucceeds, SubmitFails, TaskTop, Pop, CheckClosed, Register,
              TaskTaken, AnnounceFailure, ClearAfterFailure, TaskGoes, workerVars, signalVars
<1>2. CASE Worker
  BY <1>2 DEF Worker, WorkerTop, WorkerArms, TakeFrame, TakeNudge, InputEnds, WorkerDropped, Admit,
              Refuse, ProcessingFails, NotifyOne, BatchEnds, WorkerClears, WorkerReports,
              taskVars, signalVars
<1>3. CASE Coordinator \/ Timers
  BY <1>3 DEF Coordinator, Timers, Joined, JoinedAborted, JoinTimesOut, Close, CloseWakes,
              Drained, DrainTimesOut, AbortSender, AbortClears, AbortReturns, taskVars,
              workerVars, signalVars
<1>4. CASE Calls \/ UNCHANGED vars
  BY <1>4 DEF Calls, Status, StopBegins, AbortBegins, vars, taskVars, workerVars, signalVars
<1> QED BY <1>1, <1>2, <1>3, <1>4 DEF Next

LEMMA KeptStep == IInv /\ [Next]_vars => AdmittedIsKept'
<1> SUFFICES ASSUME IInv, [Next]_vars, ~GivenUp' PROVE AdmittedIsKept'
  BY DEF AdmittedIsKept, GivenUp
<1>1. admitted = Elements(sent) \cup Elements(queue) \cup Taken
  BY GivenUpForGood DEF IInv, AdmittedIsKept, GivenUp, Sent, Queued, Elements, Taken
<1>2. SUFFICES admitted' = Elements(sent') \cup Elements(queue') \cup Taken'
  BY DEF AdmittedIsKept, Sent, Queued, Elements, Taken
<1>3. queue \in Seq(Chunks) /\ sent \in Seq(Chunks)
  BY DEF IInv, TypeOK, QueueType, HistoryType
<1>4. CASE UNCHANGED <<queue, sent, admitted>> /\ Taken' = Taken
  BY <1>1, <1>4
<1>5. CASE Pop /\ queue # <<>>
  <2>1. Taken = {} /\ Taken' = {Head(queue)} /\ queue' = Tail(queue)
        /\ sent' = sent /\ admitted' = admitted
    BY <1>5 DEF Pop, Taken, historyVars
  <2> QED BY <1>1, <1>3, <1>5, <2>1, TailElements
<1>6. CASE TaskTaken
  <2>1. /\ Taken = {hand} /\ Taken' = {} /\ hand \in Chunks
        /\ sent' = Append(sent, hand) /\ queue' = queue /\ admitted' = admitted
    <3>1. ~stopped
      BY <1>6 DEF TaskTaken, GivenUp, signalVars
    <3>2. hand \in Chunks
      BY <1>6, BoundsAssumption DEF TaskTaken, IInv, TypeOK, TaskType, Chunks
    <3> QED BY <1>6, <3>1, <3>2 DEF TaskTaken, Taken, queueVars
  <2> QED BY <1>1, <1>3, <2>1, AppendElements
<1>7. CASE Admit
  <2>1. made + 1 \in Chunks
    BY <1>7, BoundsAssumption DEF Admit, IInv, TypeOK, WorkerType, Chunks
  <2>2. Taken' = Taken /\ sent' = sent /\ queue' = Append(queue, made + 1)
        /\ admitted' = admitted \cup {made + 1}
    BY <1>7 DEF Admit, Taken, taskVars
  <2> QED BY <1>1, <1>3, <2>1, <2>2, AppendElements
<1> QED BY <1>4, <1>5, <1>6, <1>7, StepMoves DEF Moves, GivenUp

\* The three ways a call that waits for the sender task returns.
LEMMA ReturnsIdle ==
  ASSUME CallType, Drained \/ DrainTimesOut \/ AbortReturns
  PROVE  /\ at' = "idle" /\ state' \in {"stopped", "failed"}
         /\ owned' = owned /\ stopped' = stopped
         /\ task' = "done" /\ worker' = worker
         /\ Drained \/ result' \in {"timedOut", "gaveUp", "aborted"}
<1>1. CASE Drained
  BY <1>1 DEF Drained, Returns, signalVars, taskVars
<1>2. CASE DrainTimesOut
  BY <1>2 DEF DrainTimesOut, Returns, signalVars
<1>3. CASE AbortReturns
  <2>1. op \in {"stop", "abort", "stopFailed"}
    BY <1>3 DEF AbortReturns, CallType
  <2>2. CASE op = "stop"
    BY <1>3, <2>2 DEF AbortReturns, Returns, signalVars
  <2>3. CASE op = "abort"
    BY <1>3, <2>3 DEF AbortReturns, Returns, signalVars
  <2>4. CASE op = "stopFailed"
    BY <1>3, <2>4 DEF AbortReturns, Returns, signalVars
  <2> QED BY <2>1, <2>2, <2>3, <2>4
<1> QED BY <1>1, <1>2, <1>3

LEMMA ClearStep == IInv /\ [Next]_vars => ClearInv'
<1> SUFFICES ASSUME ClearInv, CallType, [Next]_vars PROVE ClearInv'
  BY DEF IInv, StopInv, TypeOK
<1> USE DEF ClearInv
<1>1. CASE Sender \/ SubmitSucceeds \/ SubmitFails
  BY <1>1 DEF Sender, SubmitSucceeds, SubmitFails, TaskTop, Pop, CheckClosed, Register,
              TaskTaken, AnnounceFailure, ClearAfterFailure, TaskGoes, signalVars, coordVars
<1>2. CASE Worker
  BY <1>2 DEF Worker, WorkerTop, WorkerArms, TakeFrame, TakeNudge, InputEnds, WorkerDropped, Admit,
              Refuse, ProcessingFails, NotifyOne, BatchEnds, WorkerClears, WorkerReports,
              taskVars, signalVars, coordVars
<1>3. CASE Joined \/ JoinedAborted \/ JoinTimesOut \/ Close \/ CloseWakes \/ AbortSender
           \/ AbortClears
  BY <1>3 DEF Joined, JoinedAborted, JoinTimesOut, Close, CloseWakes, AbortSender, AbortClears,
              Wake, taskVars, signalVars
<1>4. CASE Drained \/ DrainTimesOut \/ AbortReturns
  BY <1>4, ReturnsIdle
<1>5. CASE Calls \/ UNCHANGED vars
  BY <1>5 DEF Calls, Status, StopBegins, AbortBegins, vars, taskVars, signalVars, coordVars
<1> QED BY <1>1, <1>2, <1>3, <1>4, <1>5 DEF Next, Coordinator, Timers

LEMMA OnceStep == IInv /\ [Next]_vars => OnceInv'
<1> SUFFICES ASSUME OnceInv, CallType, [Next]_vars PROVE OnceInv'
  BY DEF IInv, StopInv, TypeOK
<1> USE DEF OnceInv
<1>1. CASE Sender \/ SubmitSucceeds \/ SubmitFails \/ Worker \/ UNCHANGED vars
  <2>1. UNCHANGED <<stopped, result, owned, at, state>>
    BY <1>1 DEF Sender, SubmitSucceeds, SubmitFails, TaskTop, Pop, CheckClosed, Register,
       TaskTaken, AnnounceFailure, ClearAfterFailure, Worker, WorkerTop, WorkerArms, TakeFrame, TakeNudge,
       InputEnds, WorkerDropped, Admit, Refuse, ProcessingFails, NotifyOne, BatchEnds,
       WorkerClears, WorkerReports, vars, signalVars, coordVars
  <2> QED BY <2>1
<1>2. CASE Status
  BY <1>2 DEF Status
<1>3. CASE StopBegins \/ AbortBegins
  BY <1>3 DEF StopBegins, AbortBegins
<1>4. CASE Joined \/ JoinTimesOut \/ JoinedAborted
  BY <1>4 DEF Joined, JoinTimesOut, JoinedAborted, signalVars
<1>5. CASE Close \/ AbortSender
  BY <1>5 DEF Close, AbortSender, signalVars
<1>6. CASE CloseWakes \/ AbortClears
  BY <1>6 DEF CloseWakes, AbortClears, signalVars
<1>7. CASE Drained \/ DrainTimesOut \/ AbortReturns
  <2>1. at \in {"drained", "abortWait"}
    BY <1>7 DEF Drained, DrainTimesOut, AbortReturns
  <2> QED BY <1>7, <2>1, ReturnsIdle
<1> QED
  BY <1>1, <1>2, <1>3, <1>4, <1>5, <1>6, <1>7 DEF Next, Coordinator, Timers, Calls

LEMMA JoinStep == IInv /\ [Next]_vars => JoinInv'
<1> SUFFICES ASSUME JoinInv, CallType, [Next]_vars PROVE JoinInv'
  BY DEF IInv, StopInv, TypeOK
<1> USE DEF JoinInv
<1>1. CASE Sender \/ SubmitSucceeds \/ SubmitFails \/ UNCHANGED vars
  <2>1. UNCHANGED <<at, worker, processingFailed, tailFailed>>
    BY <1>1 DEF Sender, SubmitSucceeds, SubmitFails, TaskTop, Pop, CheckClosed, Register,
       TaskTaken, AnnounceFailure, ClearAfterFailure, vars, workerVars, coordVars
  <2> QED BY <2>1
<1>2. CASE Worker
  <2>1. at' = at /\ worker # "done"
    BY <1>2 DEF Worker, WorkerTop, WorkerArms, TakeFrame, TakeNudge, InputEnds, WorkerDropped, Admit,
       Refuse, ProcessingFails, NotifyOne, BatchEnds, WorkerClears, WorkerReports, coordVars
  <2> QED BY <2>1
<1>3. CASE Calls
  BY <1>3 DEF Calls, Status, StopBegins, AbortBegins
<1>4. CASE Joined \/ JoinTimesOut \/ JoinedAborted
  BY <1>4 DEF Joined, JoinTimesOut, JoinedAborted, workerVars
<1>5. CASE Close \/ CloseWakes
  BY <1>5 DEF Close, CloseWakes, workerVars
<1>6. CASE AbortSender \/ AbortClears
  BY <1>6 DEF AbortSender, AbortClears
<1>7. CASE Drained \/ DrainTimesOut \/ AbortReturns
  BY <1>7, ReturnsIdle
<1> QED
  BY <1>1, <1>2, <1>3, <1>4, <1>5, <1>6, <1>7 DEF Next, Coordinator, Timers

\* Steps that neither hand a chunk over nor hear of one.
LEMMA AnswerFrame ==
  ASSUME AnswerInv, sent' = sent, delivered' = delivered, failed' = failed, result' = result,
         Submitting' = Submitting
  PROVE  AnswerInv'
  BY DEF AnswerInv, Sent

LEMMA AnswerStep == IInv /\ [Next]_vars => AnswerInv'
<1> SUFFICES ASSUME IInv, [Next]_vars PROVE AnswerInv' OBVIOUS
<1>1. AnswerInv /\ OnceInv /\ CallType
  BY DEF IInv, StopInv, TypeOK
<1>2. CASE TaskTaken
  <2>1. CASE stopped
    BY <1>1, <1>2, <2>1, AnswerFrame DEF TaskTaken, Submitting, coordVars
  <2>2. CASE ~stopped
    <3>1. /\ sent' = Append(sent, hand) /\ Submitting = {} /\ Submitting' = {hand}
          /\ delivered' = delivered /\ failed' = failed /\ result' = result
      BY <1>2, <2>2 DEF TaskTaken, Submitting, coordVars
    <3>2. hand \in Chunks /\ sent \in Seq(Chunks)
      BY <1>2, BoundsAssumption
         DEF TaskTaken, IInv, TypeOK, TaskType, HistoryType, Chunks
    <3>3. Elements(sent') = Elements(sent) \cup {hand}
      BY <3>1, <3>2, AppendElements
    <3> QED BY <1>1, <3>1, <3>3 DEF AnswerInv, Sent, Elements
  <2> QED BY <2>1, <2>2
<1>3. CASE SubmitSucceeds
  <2>1. /\ sent' = sent /\ delivered' = delivered \cup {hand}
        /\ Submitting = {hand} /\ Submitting' = {}
        /\ failed' = failed /\ result' = result
    BY <1>3 DEF SubmitSucceeds, TaskGoes, Submitting, coordVars
  <2> QED BY <1>1, <2>1 DEF AnswerInv, Sent
<1>4. CASE SubmitFails
  BY <1>4 DEF SubmitFails, AnswerInv
<1>5. CASE (Sender /\ ~TaskTaken) \/ UNCHANGED vars
  <2>1. /\ UNCHANGED <<sent, delivered, failed, result>>
        /\ Submitting' = Submitting
    BY <1>5 DEF Sender, TaskTop, Pop, CheckClosed, Register, AnnounceFailure,
       ClearAfterFailure, TaskGoes, Submitting, vars, taskVars, historyVars, coordVars
  <2> QED BY <1>1, <2>1, AnswerFrame
<1>6. CASE Worker
  <2>1. /\ UNCHANGED <<sent, delivered, failed, result>>
        /\ Submitting' = Submitting
    BY <1>6 DEF Worker, WorkerTop, WorkerArms, TakeFrame, TakeNudge, InputEnds, WorkerDropped, Admit,
       Refuse, ProcessingFails, NotifyOne, BatchEnds, WorkerClears, WorkerReports,
       Submitting, taskVars, historyVars, coordVars
  <2> QED BY <1>1, <2>1, AnswerFrame
<1>7. CASE Calls \/ Joined \/ JoinTimesOut \/ JoinedAborted \/ Close \/ CloseWakes
           \/ AbortSender \/ AbortClears
  <2>1. /\ UNCHANGED <<sent, delivered, failed, result>>
        /\ Submitting' = Submitting
    BY <1>7 DEF Calls, Status, StopBegins, AbortBegins, Joined, JoinTimesOut, JoinedAborted,
       Close, CloseWakes, AbortSender, AbortClears, Wake, Submitting, taskVars, historyVars
  <2> QED BY <1>1, <2>1, AnswerFrame
<1>8. CASE Drained
  <2>1. UNCHANGED <<sent, delivered, failed>> /\ Submitting' = Submitting
    BY <1>8 DEF Drained, Submitting, taskVars, historyVars
  <2>2. result = "none"
    BY <1>1, <1>8 DEF Drained, OnceInv
  <2> QED BY <1>1, <2>1, <2>2 DEF AnswerInv, Sent
<1>9. CASE (DrainTimesOut \/ AbortReturns) /\ ~Drained
  BY <1>1, <1>9, ReturnsIdle DEF AnswerInv
<1> QED
  BY <1>2, <1>3, <1>4, <1>5, <1>6, <1>7, <1>8, <1>9 DEF Next, Coordinator, Timers

\* What a stop that has just succeeded knows: the chunks sent were answered,
\* and the queue is all that is left of the admitted ones.
LEMMA DrainedKnows ==
  ASSUME IInv, OrderInv, Drained, result' = "stopped"
  PROVE  StopWaitsForAnswers' /\ task' = "done" /\ worker' = "done"
<1>1. /\ at = "drained" /\ task = "done" /\ ~failed /\ ~tailFailed
      /\ UNCHANGED <<sent, delivered, admitted, queue, failed, tailFailed, task, worker>>
  BY DEF Drained, Returns, taskVars, historyVars, queueVars
<1>2. worker = "done" /\ ~processingFailed /\ ~stopped /\ result = "none"
  BY <1>1 DEF IInv, StopInv, JoinInv, OnceInv
<1>3. admitted = Sent \cup Queued
  BY <1>1, <1>2 DEF IInv, AdmittedIsKept
<1>4. Sent = delivered
  BY <1>1, <1>2 DEF IInv, StopInv, AnswerInv, Submitting
<1>5. Sent \cap Queued = {}
  <2>1. sent \in Seq(Nat) /\ queue \in Seq(Nat)
    BY DEF OrderInv
  <2>2. \A i \in DOMAIN sent, j \in DOMAIN queue : sent[i] # queue[j]
    BY <2>1 DEF OrderInv, Above
  <2> QED BY <2>2 DEF Sent, Queued
<1> QED BY <1>1, <1>2, <1>3, <1>4, <1>5 DEF StopWaitsForAnswers, Sent, Queued

\* Afterwards nobody is left to touch what the stop has counted.
LEMMA StoppedFrame ==
  ASSUME IInv, [Next]_vars, result = "stopped", result' = "stopped"
  PROVE  UNCHANGED <<sent, delivered, admitted, queue, failed, tailFailed, task, worker>>
<1>1. /\ task = "done" /\ worker = "done" /\ "sender" \notin owned
      /\ at \in {"idle", "joinAborted", "abortWait"} /\ CallType
  BY DEF IInv, StopInv, OnceInv, TypeOK
<1>2. CASE Sender \/ SubmitSucceeds \/ SubmitFails
  BY <1>1, <1>2 DEF Sender, SubmitSucceeds, SubmitFails, TaskTop, Pop, CheckClosed, Register,
     TaskTaken, AnnounceFailure, ClearAfterFailure, TaskGoes
<1>3. CASE Worker
  BY <1>1, <1>3 DEF Worker, WorkerTop, WorkerArms, TakeFrame, TakeNudge, InputEnds, WorkerDropped, Admit,
     Refuse, ProcessingFails, NotifyOne, BatchEnds, WorkerClears, WorkerReports
<1>4. CASE Joined \/ JoinTimesOut \/ Close \/ CloseWakes \/ Drained \/ DrainTimesOut
           \/ AbortSender \/ AbortClears
  BY <1>1, <1>4 DEF Joined, JoinTimesOut, Close, CloseWakes, Drained, DrainTimesOut,
     AbortSender, AbortClears
<1>5. CASE JoinedAborted
  BY <1>5 DEF JoinedAborted, queueVars, taskVars, workerVars, historyVars
<1>6. CASE AbortReturns
  <2>1. ~Drained
    BY <1>6 DEF AbortReturns, Drained
  <2> QED BY <1>1, <1>6, <2>1, ReturnsIdle
<1>7. CASE Calls
  BY <1>1, <1>7 DEF Calls, Status, StopBegins, AbortBegins, queueVars, taskVars, workerVars,
     historyVars
<1>8. CASE UNCHANGED vars
  BY <1>8 DEF vars, queueVars, taskVars, workerVars, historyVars
<1> QED
  BY <1>2, <1>3, <1>4, <1>5, <1>6, <1>7, <1>8 DEF Next, Coordinator, Timers

\* Only a drained stop reports success.
LEMMA OnlyDrainedStops ==
  ASSUME CallType, [Next]_vars, result' = "stopped"
  PROVE  Drained \/ result = "stopped"
<1>1. CASE Sender \/ SubmitSucceeds \/ SubmitFails \/ Worker \/ UNCHANGED vars
  BY <1>1 DEF Sender, SubmitSucceeds, SubmitFails, TaskTop, Pop, CheckClosed, Register,
     TaskTaken, AnnounceFailure, ClearAfterFailure, Worker, WorkerTop, WorkerArms, TakeFrame, TakeNudge,
     InputEnds, WorkerDropped, Admit, Refuse, ProcessingFails, NotifyOne, BatchEnds,
     WorkerClears, WorkerReports, vars, coordVars
<1>2. CASE Calls \/ Joined \/ JoinTimesOut \/ JoinedAborted \/ Close \/ CloseWakes
           \/ AbortSender \/ AbortClears
  BY <1>2 DEF Calls, Status, StopBegins, AbortBegins, Joined, JoinTimesOut, JoinedAborted,
     Close, CloseWakes, AbortSender, AbortClears
<1>3. CASE Drained \/ DrainTimesOut \/ AbortReturns
  BY <1>3, ReturnsIdle
<1> QED BY <1>1, <1>2, <1>3 DEF Next, Coordinator, Timers

LEMMA StopStep ==
  IInv /\ OrderInv /\ [Next]_vars =>
    /\ StopWaitsForAnswers'
    /\ (result = "stopped" => task = "done" /\ worker = "done")'
<1> SUFFICES ASSUME IInv, OrderInv, [Next]_vars, result' = "stopped"
             PROVE  StopWaitsForAnswers' /\ task' = "done" /\ worker' = "done"
  BY DEF StopWaitsForAnswers
<1>1. CASE Drained
  BY <1>1, DrainedKnows
<1>2. CASE result = "stopped"
  <2>1. StopWaitsForAnswers /\ task = "done" /\ worker = "done"
    BY <1>2 DEF IInv, StopInv
  <2>2. UNCHANGED <<sent, delivered, admitted, queue, failed, tailFailed, task, worker>>
    BY <1>2, StoppedFrame
  <2> QED BY <1>2, <2>1, <2>2 DEF StopWaitsForAnswers, Sent, Queued
<1> QED BY <1>1, <1>2, OnlyDrainedStops DEF IInv, TypeOK

LEMMA IInvStep == IInv /\ OrderInv /\ [Next]_vars => IInv'
  BY TypeStep, KeptStep, ClearStep, OnceStep, JoinStep, AnswerStep, StopStep
     DEF IInv, StopInv

\* Every variable keeps its type: the queue stays within its capacity, and a
\* chunk is in hand exactly while the task handles one.
THEOREM TypeCorrect == Spec => []TypeOK
<1>1. TypeOK /\ [Next]_vars => TypeOK' BY TypeStep
<1>2. Init => TypeOK BY InitIInv DEF IInv
<1> QED BY <1>1, <1>2, PTL DEF Spec

\* A chunk let into the queue is given up only by a failure or an abort, and a
\* stop that reports success has heard every answer of the client and knows
\* what is left in the queue (sender.rs, push and finish_gracefully;
\* coordinator.rs, stop).
THEOREM InvCorrect == Spec => []Inv
<1>1. Init => IInv /\ OrderInv BY InitIInv, InitOrderInv
<1>2. IInv /\ OrderInv /\ [Next]_vars => IInv' /\ OrderInv' BY IInvStep, OrderStep
<1>3. IInv => Inv BY DEF IInv, StopInv, Inv
<1> QED BY <1>1, <1>2, <1>3, PTL DEF Spec

=============================================================================
