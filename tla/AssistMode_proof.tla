--------------------------- MODULE AssistMode_proof ---------------------------
(***************************************************************************)
(* Theorems about AssistMode for every value of its constants.             *)
(***************************************************************************)
EXTENDS AssistMode, TLAPS

(* The first of a set of capabilities is its element of lowest rank.       *)
LEMMA FirstIn ==
    ASSUME NEW S, S \subseteq AllCapabilities, S # {}
    PROVE  First(S) \in S /\ \A d \in S : Rank(First(S)) <= Rank(d)
<1>1. \E c \in S : \A d \in S : Rank(c) <= Rank(d)
  <2>1. CASE "translation" \in S
    BY <2>1 DEF AllCapabilities, Rank
  <2>2. CASE "translation" \notin S /\ "reply_coaching" \in S
    BY <2>2 DEF AllCapabilities, Rank
  <2>3. CASE S = {"simplification"}
    BY <2>3 DEF AllCapabilities, Rank
  <2> QED BY <2>1, <2>2, <2>3 DEF AllCapabilities
<1> QED BY <1>1 DEF First

(* The handler only enqueues what the bound leaves room for.               *)
RouteOK ==
    /\ received + todo <= MaxSegments
    /\ route = "enqueuing" => todo > 0

TypeInv == TypeOK /\ RouteOK

LEMMA InitTypeInv == Init => TypeInv
<1> SUFFICES ASSUME Init PROVE TypeInv
  OBVIOUS
<1> USE ConstantsAssumption
<1>1. First(Capabilities) \in Capabilities
  BY FirstIn
<1>2. shown \in [Segments -> [AllCapabilities -> Shown]]
  BY DEF Init, Shown, Terminal
<1>3. RouteTypeOK
  BY DEF Init, RouteTypeOK, RouteStates
<1>4. OrchTypeOK
  BY DEF Init, OrchTypeOK
<1>5. WorkerTypeOK
  BY <1>1 DEF Init, WorkerTypeOK, WorkerStates
<1>6. active \in Nat /\ gen \in Nat /\ foreign \in Nat /\ pending \in Pendings \cup {0}
  BY DEF Init
<1>7. measured \in BOOLEAN
  BY DEF Init
<1> QED
  BY <1>2, <1>3, <1>4, <1>5, <1>6, <1>7 DEF Init, TypeInv, TypeOK, RouteOK

(* A delivered frame keeps the type of the client's view.                  *)
LEMMA DeliveredType ==
    ASSUME NEW s, NEW c, NEW v \in Shown,
           shown \in [Segments -> [AllCapabilities -> Shown]],
           Delivered(s, c, v)
    PROVE  shown' \in [Segments -> [AllCapabilities -> Shown]]
BY DEF Delivered

(* So does either outcome of a publish with the session's own state.       *)
LEMMA PublishType ==
    ASSUME NEW s, NEW c, NEW v, OrchTypeOK, Delivered(s, c, v) \/ SinkFails
    PROVE  /\ state' \in {"running", "stopping", "stopped", "failed"}
           /\ queue' \in Seq(Segments)
<1>1. CASE Delivered(s, c, v)
  BY <1>1 DEF Delivered, OrchTypeOK
<1>2. CASE SinkFails
  <2>1. queue' = <<>> /\ state' = "failed"
    BY <1>2 DEF SinkFails
  <2> QED BY <2>1
<1> QED BY <1>1, <1>2

LEMMA KeptType == OrchTypeOK => Kept \in Seq(Segments)
BY ConstantsAssumption DEF OrchTypeOK, Kept, Replaces, Drops

LEMMA NextTypeInv == TypeInv /\ [Next]_vars => TypeInv'
<1> SUFFICES ASSUME TypeInv, [Next]_vars PROVE TypeInv'
  OBVIOUS
<1> USE ConstantsAssumption DEF TypeInv, TypeOK, RouteOK, gateVars, routeVars,
                                orchVars, workerVars
<1>a. First(Capabilities) \in Capabilities
  BY FirstIn
<1>b. Later(cap) # {} => First(Later(cap)) \in Capabilities
  BY FirstIn DEF Later
<1>e. <<>> \in Seq(Segments)
  OBVIOUS
<1>v. Shown = {"none", "processing", "ready", "failed", "unavailable"}
  BY DEF Shown, Terminal
<1>1. CASE Dequeue
  <2>1. OrchTypeOK'
    BY <1>1 DEF Dequeue, OrchTypeOK
  <2>2. Head(queue) \in Segments
    BY <1>1 DEF Dequeue, OrchTypeOK
  <2>3. WorkerTypeOK'
    BY <1>1, <1>a, <2>2 DEF Dequeue, WorkerTypeOK, WorkerStates, Terminal, Segments
  <2> QED BY <1>1, <2>1, <2>3 DEF Dequeue, RouteTypeOK
<1>2. CASE PublishRejection
  <2>1. shown' \in [Segments -> [AllCapabilities -> Shown]]
    BY <1>2, <1>v, DeliveredType DEF PublishRejection, SinkFails
  <2>2. OrchTypeOK'
    BY <1>2, PublishType DEF PublishRejection, OrchTypeOK
  <2>3. WorkerTypeOK'
    BY <1>2 DEF PublishRejection, WorkerTypeOK, WorkerStates
  <2> QED BY <1>2, <2>1, <2>2, <2>3 DEF PublishRejection, RouteTypeOK
<1>3. CASE AdmissionGranted
  <2>1. WorkerTypeOK'
    BY <1>3 DEF AdmissionGranted, WorkerTypeOK, WorkerStates, Terminal
  <2> QED BY <1>3, <2>1 DEF AdmissionGranted, RouteTypeOK, OrchTypeOK
<1>4. CASE AdmissionDeferred \/ TimedWaitWakes \/ TimedWaitCleanedUp \/ Preempt
  <2>1. WorkerTypeOK'
    BY <1>4 DEF AdmissionDeferred, TimedWaitWakes, TimedWaitCleanedUp, Preempt,
                WorkerTypeOK, WorkerStates
  <2> QED
    BY <1>4, <2>1 DEF AdmissionDeferred, TimedWaitWakes, TimedWaitCleanedUp, Preempt,
                      RouteTypeOK, OrchTypeOK
<1>5. CASE PublishProcessing
  <2>1. shown' \in [Segments -> [AllCapabilities -> Shown]]
    BY <1>5, <1>v, DeliveredType DEF PublishProcessing, SinkFails
  <2>2. OrchTypeOK'
    BY <1>5, PublishType DEF PublishProcessing, OrchTypeOK
  <2>3. WorkerTypeOK'
    BY <1>5 DEF PublishProcessing, AfterProcessing, WorkerTypeOK, WorkerStates, Terminal
  <2> QED BY <1>5, <2>1, <2>2, <2>3 DEF PublishProcessing, RouteTypeOK
<1>6. CASE OperationCompletes \/ PreemptionSettles \/ Unwinds
  <2>1. WorkerTypeOK'
    BY <1>6 DEF OperationCompletes, Outcomes, PreemptionSettles, Unwinds,
                WorkerTypeOK, WorkerStates, Terminal
  <2>2. latest' \in 0..MaxSegments /\ UNCHANGED <<state, queue, received>>
    BY <1>6 DEF OperationCompletes, PreemptionSettles, Unwinds, ClearedLatest, OrchTypeOK
  <2>3. measured' \in BOOLEAN
    BY <1>6 DEF OperationCompletes, PreemptionSettles, Unwinds, OrchTypeOK
  <2> QED
    BY <1>6, <2>1, <2>2, <2>3 DEF OperationCompletes, PreemptionSettles, Unwinds,
                                  RouteTypeOK, OrchTypeOK
<1>7. CASE PublishTerminal
  <2>1. update \in Shown
    BY <1>v DEF WorkerTypeOK, Terminal
  <2>2. shown' \in [Segments -> [AllCapabilities -> Shown]]
    BY <1>7, <2>1, DeliveredType DEF PublishTerminal, SinkFails
  <2>3. OrchTypeOK'
    BY <1>7, PublishType DEF PublishTerminal, ClearedLatest, OrchTypeOK
  <2>4. WorkerTypeOK'
    BY <1>7, <1>b DEF PublishTerminal, Continue, WorkerTypeOK, WorkerStates
  <2> QED BY <1>7, <2>2, <2>3, <2>4 DEF PublishTerminal, RouteTypeOK
<1>8. CASE ChunkReceived \/ ChunkRefused \/ SttCompletes \/ SttFails \/ ResultSent
           \/ EnqueueRefused
  <2>1. RouteTypeOK' /\ RouteOK'
    BY <1>8 DEF ChunkReceived, ChunkRefused, SttCompletes, SttFails, ResultSent,
                EnqueueRefused, RouteTypeOK, RouteStates, OrchTypeOK, orchVars
  <2>2. OrchTypeOK' /\ WorkerTypeOK'
    BY <1>8 DEF ChunkReceived, ChunkRefused, SttCompletes, SttFails, ResultSent,
                EnqueueRefused, OrchTypeOK, WorkerTypeOK
  <2> QED
    BY <1>8, <2>1, <2>2 DEF ChunkReceived, ChunkRefused, SttCompletes, SttFails,
                            ResultSent, EnqueueRefused, SttStarts, SttFinishes
<1>9. CASE Enqueue
  <2>1. received' \in Segments /\ received' + todo' <= MaxSegments /\ todo' \in Nat
    BY <1>9 DEF Enqueue, OrchTypeOK, RouteTypeOK, Segments
  <2>2. queue' \in Seq(Segments)
    BY <1>9, <2>1, KeptType DEF Enqueue
  <2>3. OrchTypeOK'
    BY <1>9, <2>1, <2>2 DEF Enqueue, OrchTypeOK, Segments
  <2>4. Drops => Head(queue) \in Segments
    BY DEF Drops, OrchTypeOK
  <2>5. RouteTypeOK' /\ RouteOK'
    BY <1>9, <2>1, <2>4 DEF Enqueue, Resume, Notified, RouteTypeOK, RouteStates, Segments
  <2>6. WorkerTypeOK'
    BY <1>9 DEF Enqueue, WorkerTypeOK
  <2> QED BY <1>9, <2>3, <2>5, <2>6 DEF Enqueue
<1>10. CASE PublishDropped
  <2>1. shown' \in [Segments -> [AllCapabilities -> Shown]]
    BY <1>10, <1>v, DeliveredType DEF PublishDropped, SinkFails
  <2>2. OrchTypeOK'
    BY <1>10, PublishType DEF PublishDropped, OrchTypeOK
  <2>3. RouteTypeOK' /\ RouteOK'
    BY <1>10 DEF PublishDropped, Resume, RouteTypeOK, RouteStates
  <2> QED BY <1>10, <2>1, <2>2, <2>3 DEF PublishDropped, WorkerTypeOK
<1>11. CASE Stop
  <2>1. \A x \in InFlight : x \in [Segments -> [AllCapabilities -> Shown]]
    BY <1>v DEF InFlight, WorkerTypeOK, Terminal
  <2>2. OrchTypeOK'
    BY <1>11 DEF Stop, StoppedState, OrchTypeOK
  <2>3. WorkerTypeOK'
    BY <1>11 DEF Stop, CancelledWorker, WorkerTypeOK, WorkerStates
  <2>4. RouteTypeOK' /\ RouteOK'
    BY <1>11 DEF Stop, RouteTypeOK, RouteStates, OrchTypeOK
  <2> QED BY <1>11, <2>1, <2>2, <2>3, <2>4 DEF Stop
<1>12. CASE Joined
  <2>1. RouteTypeOK' /\ RouteOK'
    BY <1>12 DEF Joined, RouteTypeOK, RouteStates
  <2>2. OrchTypeOK'
    BY <1>12 DEF Joined, OrchTypeOK
  <2> QED BY <1>12, <2>1, <2>2 DEF Joined, WorkerTypeOK
<1>13. CASE ForeignSttStarts \/ ForeignSttEnds
  <2>1. UNCHANGED <<routeVars, orchVars, workerVars, shown>>
    BY <1>13 DEF ForeignSttStarts, ForeignSttEnds
  <2>2. active' \in Nat /\ gen' \in Nat /\ foreign' \in Nat /\ pending' \in Pendings \cup {0}
    BY <1>13 DEF ForeignSttStarts, ForeignSttEnds, SttStarts, SttFinishes
  <2>3. RouteTypeOK' /\ RouteOK' /\ measured' \in BOOLEAN
    BY <2>1 DEF RouteTypeOK
  <2>4. OrchTypeOK' /\ WorkerTypeOK'
    BY <2>1 DEF OrchTypeOK, WorkerTypeOK
  <2> QED BY <2>1, <2>2, <2>3, <2>4
<1>14. CASE UNCHANGED vars
  <2>1. RouteTypeOK' /\ RouteOK'
    BY <1>14 DEF vars, RouteTypeOK
  <2>2. OrchTypeOK'
    BY <1>14 DEF vars, OrchTypeOK
  <2>3. WorkerTypeOK'
    BY <1>14 DEF vars, WorkerTypeOK
  <2> QED BY <1>14, <2>1, <2>2, <2>3 DEF vars
<1> QED
  BY <1>1, <1>2, <1>3, <1>4, <1>5, <1>6, <1>7, <1>8, <1>9, <1>10, <1>11, <1>12,
     <1>13, <1>14 DEF Next, Worker, Route

(* Every variable of AssistMode stays in its range.                        *)
THEOREM TypeCorrect == Spec => []TypeOK
<1>1. Spec => []TypeInv
  BY InitTypeInv, NextTypeInv, PTL DEF Spec
<1>2. TypeInv => TypeOK
  BY DEF TypeInv
<1> QED BY <1>1, <1>2, PTL

(***************************************************************************)
(* The inductive invariant, one lemma per part.                            *)
(***************************************************************************)
LEMMA InitAssistInv == Init => AssistInv
<1> SUFFICES ASSUME Init PROVE AssistInv
  OBVIOUS
<1> USE ConstantsAssumption DEF Init
<1>1. WorkerInv /\ OrdinalInv /\ LatestInv /\ PartialInv
  BY DEF WorkerInv, OrdinalInv, LatestInv, PartialInv
<1>2. QueueInOrder /\ LatestIsLive /\ NoSilentLoss /\ SttPreempts
  BY DEF QueueInOrder, LatestIsLive, NoSilentLoss, SttPreempts
<1> QED BY <1>1, <1>2 DEF AssistInv

LEMMA WorkerInvStep ==
    ASSUME TypeInv, TypeInv', AssistInv, [Next]_vars
    PROVE  WorkerInv'
<1> USE DEF AssistInv, WorkerInv, gateVars, routeVars, orchVars, workerVars
<1>t. cur \in Nat /\ captured \in Nat /\ gen \in Nat
  BY ConstantsAssumption DEF TypeInv, TypeOK, WorkerTypeOK
<1>1. CASE Dequeue
  <2>1. Head(queue) # 0 /\ state = "running"
    <3>1. queue # <<>> /\ queue \in Seq(Segments)
      BY <1>1 DEF Dequeue, TypeInv, TypeOK, OrchTypeOK
    <3>2. Head(queue) \in Segments
      BY <3>1
    <3> QED BY <3>1, <3>2 DEF OrdinalInv, Segments
  <2> QED BY <1>1, <2>1 DEF Dequeue, Terminal
<1>2. CASE PublishRejection
  BY <1>2 DEF PublishRejection, Delivered, SinkFails
<1>3. CASE AdmissionGranted
  BY <1>3, <1>t DEF AdmissionGranted, Terminal
<1>4. CASE AdmissionDeferred \/ TimedWaitWakes \/ TimedWaitCleanedUp \/ Preempt
  BY <1>4 DEF AdmissionDeferred, TimedWaitWakes, TimedWaitCleanedUp, Preempt
<1>5. CASE PublishProcessing
  BY <1>5 DEF PublishProcessing, AfterProcessing, Delivered, SinkFails, Terminal
<1>6. CASE OperationCompletes
  BY <1>6 DEF OperationCompletes, Outcomes, Terminal
<1>7. CASE PreemptionSettles \/ Unwinds
  BY <1>7 DEF PreemptionSettles, Unwinds, Terminal
<1>8. CASE PublishTerminal
  BY <1>8 DEF PublishTerminal, Continue, Delivered, SinkFails
<1>9. CASE ChunkReceived \/ ChunkRefused \/ SttCompletes \/ SttFails \/ ResultSent
  BY <1>9, <1>t DEF ChunkReceived, ChunkRefused, SttCompletes, SttFails, ResultSent, SttStarts
<1>10. CASE Enqueue \/ EnqueueRefused
  BY <1>10 DEF Enqueue, EnqueueRefused, Resume
<1>11. CASE PublishDropped
  BY <1>11 DEF PublishDropped, Delivered, SinkFails, Resume
<1>12. CASE Stop
  BY <1>12 DEF Stop, StoppedState, CancelledWorker
<1>13. CASE Joined
  BY <1>13 DEF Joined
<1>14. CASE ForeignSttStarts \/ ForeignSttEnds
  BY <1>14, <1>t DEF ForeignSttStarts, ForeignSttEnds, SttStarts
<1>15. CASE UNCHANGED vars
  BY <1>15 DEF vars
<1> QED
  BY <1>1, <1>2, <1>3, <1>4, <1>5, <1>6, <1>7, <1>8, <1>9, <1>10, <1>11, <1>12,
     <1>13, <1>14, <1>15 DEF Next, Worker, Route

(* What the queue holds, for the steps that change it.                     *)
LEMMA QueueFacts ==
    ASSUME TypeInv
    PROVE  /\ Len(queue) \in Nat
           /\ \A i \in 1..Len(queue) : queue[i] \in Nat \ {0}
           /\ queue # <<>> =>
                 /\ Len(queue) >= 1
                 /\ Head(queue) = queue[1]
                 /\ Len(Tail(queue)) = Len(queue) - 1
                 /\ \A i \in 1..(Len(queue) - 1) : Tail(queue)[i] = queue[i + 1]
           /\ received \in Nat /\ cur \in Nat /\ dropped \in Nat /\ latest \in Nat
BY ConstantsAssumption
   DEF TypeInv, TypeOK, OrchTypeOK, WorkerTypeOK, RouteTypeOK, Segments

(* A step that leaves the ordinals alone, but may end the segment in       *)
(* progress or, outside RUNNING, empty the queue.                          *)
LEMMA OrdinalFrame ==
    ASSUME TypeInv, OrdinalInv, QueueInOrder,
           UNCHANGED <<received, dropped>>, cur' \in {cur, 0},
           \/ UNCHANGED <<queue, state>>
           \/ queue' = <<>>,
           route' = "dropping" <=> route = "dropping",
           route' = "dropping" => notify' # {},
           route' # "dropping" => notify' = {}
    PROVE  OrdinalInv' /\ QueueInOrder'
<1> USE ConstantsAssumption, QueueFacts DEF OrdinalInv, QueueInOrder
<1>1. CASE UNCHANGED <<queue, state>>
  <2>1. /\ Len(queue) \in Nat /\ received \in Nat /\ cur \in Nat /\ dropped \in Nat
        /\ \A i \in 1..Len(queue) : queue[i] \in Nat \ {0}
        /\ queue' = queue /\ state' = state
        /\ received' = received /\ dropped' = dropped /\ cur' \in {cur, 0}
    BY <1>1
  <2>2. CASE cur' = cur
    BY <2>1, <2>2
  <2>3. CASE cur' = 0
    <3>1. OrdinalInv'
      BY <2>1, <2>3
    <3>2. QueueInOrder'
      BY <2>1, <2>3
    <3> QED BY <3>1, <3>2
  <2> QED BY <2>1, <2>2, <2>3
<1>2. CASE queue' = <<>>
  <2>1. Len(queue') = 0 /\ queue' = <<>>
    BY <1>2
  <2>2. /\ cur' + Len(queue') <= received' /\ dropped' + Len(queue') <= received'
        /\ dropped' # 0 => dropped' # cur' /\ dropped' < received'
    <3>1. /\ Len(queue) \in Nat /\ received \in Nat /\ cur \in Nat /\ dropped \in Nat
          /\ cur + Len(queue) <= received /\ dropped + Len(queue) <= received
          /\ dropped # 0 => dropped # cur /\ dropped < received
          /\ received' = received /\ dropped' = dropped /\ cur' \in {cur, 0}
      OBVIOUS
    <3>2. CASE cur' = cur
      BY <2>1, <3>1, <3>2
    <3>3. CASE cur' = 0
      BY <2>1, <3>1, <3>3
    <3> QED BY <3>1, <3>2, <3>3
  <2>3. /\ route' = "dropping" <=> dropped' # 0
        /\ route' = "dropping" <=> notify' # {}
    OBVIOUS
  <2>4. OrdinalInv'
    BY <2>1, <2>2, <2>3
  <2>5. QueueInOrder'
    BY <2>1
  <2> QED BY <2>4, <2>5
<1> QED BY <1>1, <1>2

LEMMA OrdinalInvStep ==
    ASSUME TypeInv, TypeInv', AssistInv, WorkerInv', [Next]_vars
    PROVE  OrdinalInv' /\ QueueInOrder'
<1> USE DEF AssistInv, gateVars, routeVars, orchVars, workerVars
<1>n. /\ route # "dropping" => notify = {}
      /\ route = "dropping" => notify # {}
  BY DEF OrdinalInv
<1>1. CASE Dequeue
  <2>1. /\ queue # <<>> /\ cur' = Head(queue) /\ queue' = Tail(queue)
        /\ UNCHANGED <<routeVars, state, received>>
    BY <1>1 DEF Dequeue
  <2>2. Len(queue') = Len(queue) - 1 /\ cur' = received - Len(queue) + 1
    BY <2>1, QueueFacts DEF QueueInOrder
  <2>3. \A i \in 1..Len(queue') : queue'[i] = received - Len(queue') + i
    BY <2>1, <2>2, QueueFacts DEF QueueInOrder
  <2>4. Len(queue) >= 1 /\ state' = "running"
    BY <2>1, QueueFacts DEF OrdinalInv
  <2>5. QueueInOrder'
    BY <2>1, <2>2, <2>3, <2>4, QueueFacts, ConstantsAssumption DEF QueueInOrder
  <2>6. OrdinalInv'
    BY <2>1, <2>2, <2>4, <1>n, QueueFacts DEF OrdinalInv
  <2> QED BY <2>5, <2>6
<1>2. CASE PublishRejection \/ PublishProcessing \/ PublishTerminal
  <2>1. UNCHANGED <<received, dropped, route, notify>> /\ cur' \in {cur, 0}
    BY <1>2 DEF PublishRejection, PublishProcessing, PublishTerminal, Continue
  <2>2. UNCHANGED <<queue, state>> \/ queue' = <<>>
    BY <1>2 DEF PublishRejection, PublishProcessing, PublishTerminal, Delivered, SinkFails
  <2> QED BY <2>1, <2>2, <1>n, OrdinalFrame
<1>3. CASE \/ AdmissionGranted \/ AdmissionDeferred \/ TimedWaitWakes
           \/ TimedWaitCleanedUp \/ Preempt
  <2>1. UNCHANGED <<received, dropped, route, notify, queue, state>> /\ cur' \in {cur, 0}
    BY <1>3 DEF AdmissionGranted, AdmissionDeferred, TimedWaitWakes, TimedWaitCleanedUp,
                Preempt
  <2> QED BY <2>1, <1>n, OrdinalFrame
<1>4. CASE OperationCompletes \/ PreemptionSettles \/ Unwinds
  <2>1. UNCHANGED <<received, dropped, route, notify, queue, state>> /\ cur' \in {cur, 0}
    BY <1>4 DEF OperationCompletes, PreemptionSettles, Unwinds
  <2> QED BY <2>1, <1>n, OrdinalFrame
<1>5. CASE ChunkReceived \/ ChunkRefused \/ SttCompletes \/ SttFails \/ ResultSent
           \/ EnqueueRefused
  <2>1. UNCHANGED <<received, dropped, notify, queue, state, cur>>
    BY <1>5 DEF ChunkReceived, ChunkRefused, SttCompletes, SttFails, ResultSent,
                EnqueueRefused
  <2>2. route # "dropping" /\ route' # "dropping"
    BY <1>5 DEF ChunkReceived, ChunkRefused, SttCompletes, SttFails, ResultSent,
                EnqueueRefused
  <2> QED BY <2>1, <2>2, <1>n, OrdinalFrame
<1>6. CASE Enqueue
  <2> DEFINE full == Replaces \/ Drops
  <2>1. /\ queue' = Append(Kept, received + 1) /\ received' = received + 1
        /\ state = "running" /\ state' = state /\ cur' = cur
        /\ route = "enqueuing"
    BY <1>6 DEF Enqueue
  <2>2. full => queue # <<>>
    BY ConstantsAssumption, QueueFacts DEF Replaces, Drops
  <2>3. Kept \in Seq(Segments) /\ Len(Kept) = IF full THEN Len(queue) - 1 ELSE Len(queue)
    BY <2>2, QueueFacts, KeptType DEF Kept, TypeInv, TypeOK
  <2>4. \A i \in 1..Len(Kept) : Kept[i] = received - Len(Kept) + i
    BY <2>2, <2>3, QueueFacts DEF Kept, QueueInOrder
  <2>5. /\ Len(queue') = Len(Kept) + 1
        /\ \A i \in 1..Len(Kept) : queue'[i] = Kept[i]
        /\ queue'[Len(Kept) + 1] = received + 1
    BY <2>1, <2>3, KeptType, QueueFacts DEF TypeInv, TypeOK
  <2>6. \A i \in 1..Len(queue') : queue'[i] = received' - Len(queue') + i
    <3> SUFFICES ASSUME NEW i \in 1..Len(queue')
                 PROVE  queue'[i] = received' - Len(queue') + i
      OBVIOUS
    <3>1. Len(Kept) \in Nat /\ received \in Nat
      BY <2>3, QueueFacts
    <3>2. CASE i = Len(Kept) + 1
      BY <2>1, <2>5, <3>1, <3>2
    <3>3. CASE i # Len(Kept) + 1
      <4>1. i \in 1..Len(Kept)
        BY <2>5, <3>1, <3>3
      <4>2. queue'[i] = received - Len(Kept) + i
        BY <2>4, <2>5, <4>1
      <4> QED BY <2>1, <2>5, <3>1, <4>1, <4>2
    <3> QED BY <3>2, <3>3
  <2>7. Len(queue') <= IF TranslationOnly THEN 1 ELSE QueueSize
    BY <2>3, <2>5, QueueFacts, ConstantsAssumption DEF QueueInOrder, Replaces, Drops
  <2>8. cur + Len(queue') <= received' /\ Len(queue') \in Nat
    BY <2>1, <2>3, <2>5, QueueFacts DEF OrdinalInv
  <2>9. QueueInOrder'
    <3>1. \A i \in 1..Len(queue') : cur' < queue'[i]
      <4> SUFFICES ASSUME NEW i \in 1..Len(queue')
                   PROVE  cur' < queue'[i]
        OBVIOUS
      <4>1. /\ queue'[i] = received' - Len(queue') + i /\ cur \in Nat /\ received \in Nat
            /\ cur' = cur /\ received' = received + 1 /\ cur + Len(queue') <= received'
            /\ Len(queue') \in Nat
        BY <2>1, <2>6, <2>8, QueueFacts
      <4> QED BY <4>1
    <3> QED BY <2>1, <2>6, <2>7, <3>1 DEF QueueInOrder, TranslationOnly
  <2>10. CASE Drops
    <3>1. dropped' = Head(queue) /\ notify' = Capabilities /\ route' = "dropping"
      BY <1>6, <2>10 DEF Enqueue, Notified
    <3>2. dropped' = received - Len(queue) + 1 /\ Len(queue) >= 1
      BY <2>2, <2>10, <3>1, QueueFacts DEF QueueInOrder
    <3>3. dropped' + Len(queue') <= received'
      BY <2>1, <2>3, <2>5, <2>10, <3>2, QueueFacts
    <3>4. dropped' # cur' /\ dropped' < received' /\ dropped' # 0
      BY <2>1, <3>2, QueueFacts DEF OrdinalInv
    <3> QED
      BY <2>1, <2>8, <2>9, <3>1, <3>3, <3>4, ConstantsAssumption DEF OrdinalInv
  <2>11. CASE ~Drops
    <3>1. UNCHANGED <<dropped, notify>> /\ route' # "dropping"
      BY <1>6, <2>11 DEF Enqueue, Resume
    <3>2. dropped = 0 /\ notify = {}
      BY <2>1 DEF OrdinalInv
    <3>3. dropped' + Len(queue') <= received'
      <4>1. received + 1 \in Nat /\ dropped' = 0 /\ Len(queue') <= received'
        BY <2>1, <2>8, <3>1, <3>2, QueueFacts
      <4> QED BY <2>8, <4>1
    <3> QED BY <2>1, <2>8, <2>9, <3>1, <3>2, <3>3 DEF OrdinalInv
  <2> QED BY <2>9, <2>10, <2>11
<1>7. CASE PublishDropped
  <2>1. /\ UNCHANGED <<received, cur>> /\ route = "dropping"
        /\ UNCHANGED <<queue, state>> \/ queue' = <<>>
    BY <1>7 DEF PublishDropped, Delivered, SinkFails
  <2>2. CASE route' = "dropping"
    <3>1. UNCHANGED <<route, dropped>> /\ notify' # {}
        <4>1. route' # Resume(todo)
        BY <2>2 DEF Resume
      <4>2. UNCHANGED <<route, dropped>> /\ notify # {First(notify)}
            /\ notify' = notify \ {First(notify)}
        BY <1>7, <4>1 DEF PublishDropped
      <4> QED BY <2>1, <4>2, <1>n
    <3> QED BY <2>1, <3>1, OrdinalFrame
  <2>3. CASE route' # "dropping"
    <3>1. dropped' = 0 /\ notify' = {}
      BY <1>7, <2>1, <2>3 DEF PublishDropped
    <3>2. CASE UNCHANGED <<queue, state>>
      BY <2>1, <2>3, <3>1, <3>2, QueueFacts DEF OrdinalInv, QueueInOrder
    <3>3. CASE queue' = <<>>
      <4>1. Len(queue') = 0
        BY <3>3
      <4> QED
        BY <2>1, <2>3, <3>1, <3>3, <4>1, QueueFacts, ConstantsAssumption
           DEF OrdinalInv, QueueInOrder
    <3> QED BY <2>1, <3>2, <3>3
  <2> QED BY <2>2, <2>3
<1>8. CASE Stop
  <2>1. /\ UNCHANGED <<received, dropped, notify>> /\ queue' = <<>> /\ cur' \in {cur, 0}
        /\ route # "dropping" /\ route' # "dropping"
    BY <1>8 DEF Stop
  <2> QED BY <2>1, <1>n, OrdinalFrame
<1>9. CASE Joined
  <2>1. /\ UNCHANGED <<received, dropped, notify, cur, queue>>
        /\ route # "dropping" /\ route' # "dropping" /\ route = "joining"
    BY <1>9 DEF Joined
  <2>2. queue = <<>>
    BY <2>1 DEF OrdinalInv, WorkerInv
  <2> QED BY <2>1, <2>2, <1>n, OrdinalFrame
<1>10. CASE ForeignSttStarts \/ ForeignSttEnds \/ UNCHANGED vars
  <2>1. UNCHANGED <<received, dropped, route, notify, queue, state, cur>>
    BY <1>10 DEF ForeignSttStarts, ForeignSttEnds, vars
  <2> QED BY <2>1, <1>n, OrdinalFrame
<1> QED
  BY <1>1, <1>2, <1>3, <1>4, <1>5, <1>6, <1>7, <1>8, <1>9, <1>10 DEF Next, Worker, Route

(***************************************************************************)
(* What the client has been told.                                          *)
(***************************************************************************)
ToldInv == LatestInv /\ PartialInv /\ LatestIsLive /\ NoSilentLoss

(* A delivered frame changes one cell.                                     *)
LEMMA DeliveredRows ==
    ASSUME NEW s \in Segments, NEW c \in AllCapabilities, NEW v, TypeInv,
           Delivered(s, c, v)
    PROVE  /\ \A t \in Segments : t # s => shown'[t] = shown[t]
           /\ \A d \in AllCapabilities : d # c => shown'[s][d] = shown[s][d]
           /\ shown'[s][c] = v
           /\ UNCHANGED <<state, queue>>
BY DEF Delivered, TypeInv, TypeOK

(* A step that says nothing, or after which the session is not RUNNING.    *)
LEMMA ToldFrame ==
    ASSUME ToldInv, UNCHANGED received, latest' \in {latest, 0},
           \/ state' # "running"
           \/ /\ UNCHANGED <<state, queue, latest, shown, dropped, notify, cur, cap>>
              /\ worker = "rejecting" => worker' = "rejecting"
              /\ worker' = "rejecting" => worker = "rejecting"
    PROVE  ToldInv'
<1> USE DEF ToldInv, LatestInv, PartialInv, LatestIsLive, NoSilentLoss
<1>1. CASE state' # "running"
  BY <1>1
<1>2. CASE /\ UNCHANGED <<state, queue, latest, shown, dropped, notify, cur, cap>>
           /\ worker = "rejecting" => worker' = "rejecting"
           /\ worker' = "rejecting" => worker = "rejecting"
  <2>1. LatestInv' /\ PartialInv'
    BY <1>2
  <2>2. LatestIsLive'
    BY <1>2 DEF Rejected, Elements
  <2>3. \A s : /\ Outstanding(s) => Outstanding(s)'
               /\ Rejected(s) => Rejected(s)'
    BY <1>2 DEF Rejected, Outstanding, Elements
  <2>4. NoSilentLoss'
    BY <1>2, <2>3
  <2> QED BY <2>1, <2>2, <2>4
<1> QED BY <1>1, <1>2

(* The quiet actions.                                                      *)
LEMMA ToldQuiet ==
    ASSUME TypeInv, AssistInv,
           \/ AdmissionGranted \/ AdmissionDeferred \/ TimedWaitWakes \/ TimedWaitCleanedUp
           \/ OperationCompletes \/ Preempt \/ PreemptionSettles \/ Unwinds
           \/ ChunkReceived \/ ChunkRefused \/ SttCompletes \/ SttFails \/ ResultSent
           \/ EnqueueRefused \/ Stop \/ Joined \/ ForeignSttStarts \/ ForeignSttEnds
           \/ UNCHANGED vars
    PROVE  ToldInv'
<1> USE DEF gateVars, routeVars, orchVars, workerVars
<1>i. ToldInv
  BY DEF AssistInv, ToldInv
<1>1. CASE AdmissionGranted
  <2>1. /\ UNCHANGED <<received, latest, state, queue, shown, dropped, notify, cap>>
        /\ state = "running" => UNCHANGED cur
        /\ worker # "rejecting" /\ worker' # "rejecting"
    BY <1>1 DEF AdmissionGranted
  <2> QED BY <2>1, <1>i, ToldFrame
<1>2. CASE AdmissionDeferred \/ TimedWaitWakes \/ TimedWaitCleanedUp \/ Preempt
  <2>1. /\ UNCHANGED <<received, latest, state, queue, shown, dropped, notify, cur, cap>>
        /\ worker # "rejecting" /\ worker' # "rejecting"
    BY <1>2 DEF AdmissionDeferred, TimedWaitWakes, TimedWaitCleanedUp, Preempt
  <2> QED BY <2>1, <1>i, ToldFrame
<1>3. CASE OperationCompletes \/ PreemptionSettles
  <2>1. /\ UNCHANGED <<received, state, queue, shown, dropped, notify, cap>>
        /\ latest' \in {latest, 0}
        /\ state = "running" => UNCHANGED <<cur, latest>>
        /\ worker # "rejecting" /\ worker' # "rejecting"
    BY <1>3 DEF OperationCompletes, PreemptionSettles, ClearedLatest
  <2> QED BY <2>1, <1>i, ToldFrame
<1>4. CASE Unwinds
  <2>1. UNCHANGED <<received, state>> /\ latest' \in {latest, 0} /\ state # "running"
    BY <1>4 DEF Unwinds, ClearedLatest, AssistInv, WorkerInv
  <2> QED BY <2>1, <1>i, ToldFrame
<1>5. CASE ChunkReceived \/ ChunkRefused \/ SttCompletes \/ SttFails \/ ResultSent
           \/ EnqueueRefused
  <2>1. UNCHANGED <<received, latest, state, queue, shown, dropped, notify, cur, cap, worker>>
    BY <1>5 DEF ChunkReceived, ChunkRefused, SttCompletes, SttFails, ResultSent,
                EnqueueRefused
  <2> QED BY <2>1, <1>i, ToldFrame
<1>6. CASE Stop
  <2>1. UNCHANGED <<received, latest>> /\ state' # "running"
    BY <1>6 DEF Stop, StoppedState
  <2> QED BY <2>1, <1>i, ToldFrame
<1>7. CASE Joined
  <2>1. UNCHANGED <<received, latest>> /\ state' # "running"
    BY <1>7 DEF Joined, AssistInv, WorkerInv
  <2> QED BY <2>1, <1>i, ToldFrame
<1>8. CASE ForeignSttStarts \/ ForeignSttEnds \/ UNCHANGED vars
  <2>1. UNCHANGED <<received, latest, state, queue, shown, dropped, notify, cur, cap, worker>>
    BY <1>8 DEF ForeignSttStarts, ForeignSttEnds, vars
  <2> QED BY <2>1, <1>i, ToldFrame
<1> QED BY <1>1, <1>2, <1>3, <1>4, <1>5, <1>6, <1>7, <1>8

(* The ranges the arguments below use.                                     *)
LEMMA Ranges ==
    ASSUME TypeInv
    PROVE  /\ cur # 0 => cur \in Segments
           /\ dropped # 0 => dropped \in Segments
           /\ \A s \in 1..received : s \in Segments
           /\ latest # 0 => latest \in Segments
           /\ cap \in Capabilities /\ Capabilities \subseteq AllCapabilities
           /\ MaxSegments \in Nat
           /\ \A c \in AllCapabilities : Rank(c) \in Nat
           /\ \A c, d \in AllCapabilities : Rank(c) = Rank(d) => c = d
<1>1. \A c \in AllCapabilities : Rank(c) \in Nat
  BY DEF AllCapabilities, Rank
<1>2. \A c, d \in AllCapabilities : Rank(c) = Rank(d) => c = d
  BY DEF AllCapabilities, Rank
<1>3. /\ cap \in Capabilities /\ Capabilities \subseteq AllCapabilities
      /\ MaxSegments \in Nat
  BY ConstantsAssumption DEF TypeInv, TypeOK, WorkerTypeOK
<1>4. cur \in 0..MaxSegments /\ dropped \in 0..MaxSegments /\ latest \in 0..MaxSegments
      /\ received \in 0..MaxSegments
  BY DEF TypeInv, TypeOK, OrchTypeOK, WorkerTypeOK, RouteTypeOK
<1>5. /\ cur # 0 => cur \in Segments
      /\ dropped # 0 => dropped \in Segments
      /\ \A s \in 1..received : s \in Segments
      /\ latest # 0 => latest \in Segments
  BY <1>3, <1>4 DEF Segments
<1> QED BY <1>1, <1>2, <1>3, <1>5

LEMMA ToldDequeue ==
    ASSUME TypeInv, AssistInv, Dequeue
    PROVE  ToldInv'
<1> USE DEF AssistInv, ToldInv, gateVars, routeVars, orchVars, workerVars
<1>1. /\ queue # <<>> /\ cur' = Head(queue) /\ queue' = Tail(queue) /\ cur = 0
      /\ cap' = First(Capabilities)
      /\ UNCHANGED <<dropped, notify, state, received, latest, shown>>
  BY DEF Dequeue, WorkerInv
<1>2. Elements(queue) = Elements(queue') \cup {cur'}
  <2>1. ASSUME NEW x \in Elements(queue) PROVE x \in Elements(queue') \cup {cur'}
    <3>1. PICK i \in 1..Len(queue) : x = queue[i]
      BY <2>1 DEF Elements
    <3>2. CASE i = 1
      BY <1>1, <3>1, <3>2, QueueFacts
    <3>3. CASE i # 1
      <4>1. i - 1 \in 1..Len(queue') /\ queue'[i - 1] = x
        BY <1>1, <3>1, <3>3, QueueFacts
      <4> QED BY <4>1 DEF Elements
    <3> QED BY <3>2, <3>3
  <2>2. ASSUME NEW x \in Elements(queue') \cup {cur'} PROVE x \in Elements(queue)
    <3>1. CASE x = cur'
      <4>1. 1 \in 1..Len(queue) /\ x = queue[1]
        BY <1>1, <3>1, QueueFacts
      <4> QED BY <4>1 DEF Elements
    <3>2. CASE x \in Elements(queue')
      <4>1. PICK i \in 1..Len(queue') : x = queue'[i]
        BY <3>2 DEF Elements
      <4>2. i + 1 \in 1..Len(queue) /\ queue[i + 1] = x
        BY <1>1, <4>1, QueueFacts
      <4> QED BY <4>2 DEF Elements
    <3> QED BY <2>2, <3>1, <3>2
  <2> QED BY <2>1, <2>2
<1>3. 0 \notin Elements(queue) /\ cur' # 0
  BY <1>1, QueueFacts DEF Elements
<1>4. LatestInv'
  <2>1. CASE "translation" \in Capabilities
    <3>1. cap' = "translation"
      <4>1. cap' \in Capabilities /\ Rank(cap') <= Rank("translation")
        BY <1>1, <2>1, FirstIn, ConstantsAssumption
      <4> QED BY <4>1, ConstantsAssumption DEF Rank, AllCapabilities
    <3> QED BY <1>1, <2>1, <3>1 DEF LatestInv
  <2>2. CASE "translation" \notin Capabilities
    BY <1>1, <1>3, <2>2 DEF LatestInv
  <2> QED BY <2>1, <2>2
<1>5. PartialInv'
  <2>1. \A c \in Capabilities : ~ (Rank(c) < Rank(cap'))
    <3>1. \A c \in Capabilities : Rank(cap') <= Rank(c)
      BY <1>1, FirstIn, ConstantsAssumption
    <3>2. cap' \in AllCapabilities
      BY <1>1, FirstIn, ConstantsAssumption
    <3> QED BY <3>1, <3>2, Ranges
  <2> QED BY <1>1, <2>1 DEF PartialInv
<1>6. LatestIsLive'
  BY <1>1, <1>2 DEF LatestIsLive, Rejected
<1>7. \A s \in 1..received : Outstanding(s) => Outstanding(s)'
  <2>1. \A s : s \in Elements(queue) \cup {cur, dropped}
                  => s \in Elements(queue') \cup {cur', dropped'} \/ s = 0
    BY <1>1, <1>2
  <2> QED BY <2>1, QueueFacts DEF Outstanding
<1>8. NoSilentLoss'
  BY <1>1, <1>7 DEF NoSilentLoss, Rejected
<1> QED BY <1>4, <1>5, <1>6, <1>8

LEMMA ToldRejection ==
    ASSUME TypeInv, AssistInv, PublishRejection
    PROVE  ToldInv'
<1> USE DEF AssistInv, ToldInv, gateVars, routeVars, orchVars, workerVars
<1>1. CASE SinkFails
  <2>1. state' # "running" /\ UNCHANGED <<received, latest>>
    BY <1>1 DEF PublishRejection, SinkFails
  <2> QED BY <2>1, ToldFrame
<1>2. CASE Delivered(cur, "reply_coaching", "failed")
  <2>1. /\ UNCHANGED <<received, latest, dropped, notify>> /\ cur' = 0
        /\ worker = "rejecting" /\ cur \in Segments
    BY Ranges DEF PublishRejection, WorkerInv
  <2>2. /\ \A s \in Segments : s # cur => shown'[s] = shown[s]
        /\ shown'[cur]["reply_coaching"] = "failed"
        /\ UNCHANGED <<state, queue>>
    BY <1>2, <2>1, DeliveredRows DEF AllCapabilities
  <2>3. LatestInv'
    BY <2>1, <2>2 DEF LatestInv
  <2>4. PartialInv'
    <3>1. dropped # 0 => dropped # cur /\ dropped \in Segments
      BY Ranges DEF OrdinalInv
    <3> QED BY <2>1, <2>2, <3>1 DEF PartialInv
  <2>5. LatestIsLive'
    <3>1. latest # 0 => latest \in Segments
      BY Ranges
    <3>2. CASE latest = cur
      BY <2>1, <2>2, <3>2 DEF LatestIsLive, Rejected
    <3>3. CASE latest # cur
      BY <2>1, <2>2, <3>1, <3>3 DEF LatestIsLive, Rejected, Elements
    <3> QED BY <3>2, <3>3
  <2>6. NoSilentLoss'
    <3> SUFFICES ASSUME state' = "running", NEW s \in 1..received', ~Outstanding(s)'
                 PROVE  \/ \A c \in Capabilities : shown'[s][c] \in Terminal
                        \/ Rejected(s)'
                        \/ TranslationOnly /\ s < received'
      BY DEF NoSilentLoss
    <3>1. s \in Segments
      BY <2>1, Ranges
    <3>2. CASE s = cur
      BY <2>2, <3>2 DEF Rejected
    <3>3. CASE s # cur
      <4>1. ~Outstanding(s) /\ shown'[s] = shown[s]
        BY <2>1, <2>2, <3>1, <3>3 DEF Outstanding, Elements
      <4> QED BY <2>1, <2>2, <4>1 DEF NoSilentLoss, Rejected
    <3> QED BY <3>2, <3>3
  <2> QED BY <2>3, <2>4, <2>5, <2>6
<1> QED BY <1>1, <1>2 DEF PublishRejection

LEMMA ToldProcessing ==
    ASSUME TypeInv, AssistInv, PublishProcessing
    PROVE  ToldInv'
<1> USE DEF AssistInv, ToldInv, gateVars, routeVars, orchVars, workerVars
<1>1. CASE state' # "running"
  <2>1. UNCHANGED <<received, latest>>
    BY DEF PublishProcessing
  <2> QED BY <1>1, <2>1, ToldFrame
<1>2. CASE state' = "running"
  <2>1. /\ UNCHANGED <<received, latest, dropped, notify, cap>>
        /\ worker = "processing" /\ cur \in Segments
    BY Ranges DEF PublishProcessing, WorkerInv
  <2>2. Delivered(cur, cap, "processing")
    BY <1>2 DEF PublishProcessing, SinkFails
  <2>3. UNCHANGED <<state, queue>>
    BY <2>2 DEF Delivered
  <2>4. cur' = cur /\ worker' \in {"terminal", "operation"}
    BY <1>2, <2>2, <2>3 DEF PublishProcessing, AfterProcessing, SinkFails
  <2>5. /\ \A s \in Segments : s # cur => shown'[s] = shown[s]
        /\ \A d \in AllCapabilities : d # cap => shown'[cur][d] = shown[cur][d]
    BY <2>1, <2>2, DeliveredRows, Ranges
  <2>6. LatestInv'
    BY <2>1, <2>3, <2>4 DEF LatestInv
  <2>7. PartialInv'
    <3>1. dropped # 0 => dropped # cur /\ dropped \in Segments
      BY Ranges DEF OrdinalInv
    <3>2. \A c \in Capabilities : Rank(c) < Rank(cap) => shown'[cur][c] = shown[cur][c]
      BY <2>5, Ranges
    <3> QED BY <2>1, <2>3, <2>4, <2>5, <3>1, <3>2 DEF PartialInv
  <2>8. LatestIsLive'
    <3>1. latest # 0 => latest \in Segments
      BY Ranges
    <3> QED BY <2>1, <2>3, <2>4, <2>5, <3>1 DEF LatestIsLive, Rejected, Elements
  <2>9. NoSilentLoss'
    <3> SUFFICES ASSUME NEW s \in 1..received', ~Outstanding(s)'
                 PROVE  \/ \A c \in Capabilities : shown'[s][c] \in Terminal
                        \/ Rejected(s)'
                        \/ TranslationOnly /\ s < received'
      BY DEF NoSilentLoss
    <3>1. s \in Segments
      BY <2>1, Ranges
    <3>2. ~Outstanding(s) /\ s # cur
      BY <2>1, <2>3, <2>4 DEF Outstanding, Elements
    <3>3. shown'[s] = shown[s]
      BY <2>5, <3>1, <3>2
    <3> QED BY <1>2, <2>1, <2>3, <3>2, <3>3 DEF NoSilentLoss, Rejected
  <2> QED BY <2>6, <2>7, <2>8, <2>9
<1> QED BY <1>1, <1>2

LEMMA ToldTerminal ==
    ASSUME TypeInv, AssistInv, PublishTerminal
    PROVE  ToldInv'
<1> USE DEF AssistInv, ToldInv, gateVars, routeVars, orchVars, workerVars
<1>1. CASE state' # "running"
  <2>1. UNCHANGED received /\ latest' \in {latest, 0}
    BY DEF PublishTerminal, ClearedLatest
  <2> QED BY <1>1, <2>1, ToldFrame
<1>2. CASE state' = "running"
  <2>1. /\ UNCHANGED <<received, dropped, notify>>
        /\ worker = "terminal" /\ cur \in Segments /\ update \in Terminal
        /\ latest' = ClearedLatest
    BY Ranges DEF PublishTerminal, WorkerInv
  <2>2. Delivered(cur, cap, update)
    BY <1>2 DEF PublishTerminal, SinkFails
  <2>3. UNCHANGED <<state, queue>>
    BY <2>2 DEF Delivered
  <2>4. /\ cap' = IF Later(cap) = {} THEN cap ELSE First(Later(cap))
        /\ cur' = IF Later(cap) = {} THEN 0 ELSE cur
        /\ worker' # "rejecting"
    BY <1>2 DEF PublishTerminal, Continue
  <2>5. /\ \A s \in Segments : s # cur => shown'[s] = shown[s]
        /\ \A d \in AllCapabilities : d # cap => shown'[cur][d] = shown[cur][d]
        /\ shown'[cur][cap] = update
    BY <2>1, <2>2, DeliveredRows, Ranges
  <2>6. \A c \in Capabilities : Rank(c) <= Rank(cap) => shown'[cur][c] \in Terminal
    <3> SUFFICES ASSUME NEW c \in Capabilities, Rank(c) <= Rank(cap)
                 PROVE  shown'[cur][c] \in Terminal
      OBVIOUS
    <3>1. CASE c = cap
      BY <2>1, <2>5, <3>1
    <3>2. CASE c # cap
      <4>1. Rank(c) < Rank(cap)
        BY <3>2, Ranges
      <4>2. cur # 0 /\ worker # "rejecting" /\ state = "running"
        BY <1>2, <2>1, <2>3 DEF Segments
      <4>3. shown[cur][c] \in Terminal
        BY <4>1, <4>2 DEF PartialInv
      <4>4. shown'[cur][c] = shown[cur][c]
        BY <2>5, <3>2, Ranges
      <4> QED BY <4>3, <4>4
    <3> QED BY <3>1, <3>2
  <2>7. \A c \in Capabilities : c \in Later(cap) \/ Rank(c) <= Rank(cap)
    BY Ranges DEF Later
  <2>8. latest' # 0 => latest' = latest /\ latest # cur
    BY <1>2, <2>1, <2>3 DEF ClearedLatest, LatestInv
  <2>9. LatestInv'
    BY <1>2, <2>1, <2>3, <2>4, <2>8 DEF LatestInv
  <2>10. PartialInv'
    <3>1. dropped # 0 => dropped # cur /\ dropped \in Segments
      BY Ranges DEF OrdinalInv
    <3>2. ASSUME Later(cap) # {}, NEW c \in Capabilities, Rank(c) < Rank(cap')
          PROVE  shown'[cur'][c] \in Terminal
      <4>1. cap' \in Later(cap) /\ \A d \in Later(cap) : Rank(cap') <= Rank(d)
        BY <2>4, <3>2, FirstIn, Ranges DEF Later
      <4>2. c \notin Later(cap)
        BY <3>2, <4>1, Ranges DEF Later
      <4> QED BY <2>4, <2>6, <2>7, <3>2, <4>2
    <3> QED BY <2>1, <2>3, <2>4, <2>5, <3>1, <3>2 DEF PartialInv
  <2>11. LatestIsLive'
    <3>1. latest # 0 => latest \in Segments
      BY Ranges
    <3>2. CASE latest' # 0
      <4>1. latest' = latest /\ latest \in Segments /\ latest # cur
        BY <2>8, <3>1, <3>2
      <4>2. shown'[latest] = shown[latest]
        BY <2>5, <4>1
      <4> QED BY <1>2, <2>1, <2>3, <3>2, <4>1, <4>2 DEF LatestIsLive, Rejected, Elements
    <3> QED BY <3>2 DEF LatestIsLive
  <2>12. NoSilentLoss'
    <3> SUFFICES ASSUME NEW s \in 1..received', ~Outstanding(s)'
                 PROVE  \/ \A c \in Capabilities : shown'[s][c] \in Terminal
                        \/ Rejected(s)'
                        \/ TranslationOnly /\ s < received'
      BY DEF NoSilentLoss
    <3>1. s \in Segments
      BY <2>1, Ranges
    <3>2. CASE s = cur
      <4>1. Later(cap) = {}
        BY <2>4, <3>2 DEF Outstanding
      <4> QED BY <2>6, <2>7, <3>2, <4>1
    <3>3. CASE s # cur
      <4>1. ~Outstanding(s) /\ shown'[s] = shown[s]
        BY <2>1, <2>3, <2>5, <3>1, <3>3 DEF Outstanding, Elements
      <4> QED BY <1>2, <2>1, <2>3, <4>1 DEF NoSilentLoss, Rejected
    <3> QED BY <3>2, <3>3
  <2> QED BY <2>9, <2>10, <2>11, <2>12
<1> QED BY <1>1, <1>2

LEMMA ToldDropped ==
    ASSUME TypeInv, AssistInv, PublishDropped
    PROVE  ToldInv'
<1> USE DEF AssistInv, ToldInv, gateVars, routeVars, orchVars, workerVars
<1>1. CASE state' # "running"
  <2>1. UNCHANGED <<received, latest>>
    BY DEF PublishDropped
  <2> QED BY <1>1, <2>1, ToldFrame
<1>2. CASE state' = "running"
  <2> DEFINE first == First(notify)
  <2>1. /\ UNCHANGED <<received, latest, cur, cap, worker>>
        /\ dropped \in Segments /\ dropped # cur /\ dropped < received
        /\ notify # {} /\ notify \subseteq Capabilities
    BY Ranges DEF PublishDropped, OrdinalInv, TypeInv, TypeOK, RouteTypeOK
  <2>2. first \in notify /\ first \in AllCapabilities
    BY <2>1, FirstIn, Ranges
  <2>3. Delivered(dropped, first, "unavailable")
    BY <1>2 DEF PublishDropped, SinkFails
  <2>4. UNCHANGED <<state, queue>>
    BY <2>3 DEF Delivered
  <2>5. /\ notify' = notify \ {first}
        /\ dropped' = IF notify = {first} THEN 0 ELSE dropped
    BY <1>2 DEF PublishDropped
  <2>6. /\ \A s \in Segments : s # dropped => shown'[s] = shown[s]
        /\ \A d \in AllCapabilities : d # first => shown'[dropped][d] = shown[dropped][d]
        /\ shown'[dropped][first] = "unavailable"
    BY <2>1, <2>2, <2>3, DeliveredRows
  <2>7. \A c \in Capabilities \ notify' : shown'[dropped][c] \in Terminal
    <3> SUFFICES ASSUME NEW c \in Capabilities \ notify'
                 PROVE  shown'[dropped][c] \in Terminal
      OBVIOUS
    <3>1. CASE c = first
      BY <2>6, <3>1 DEF Terminal
    <3>2. CASE c # first
      <4>1. c \notin notify /\ dropped # 0 /\ state = "running"
        BY <1>2, <2>1, <2>4, <2>5, <3>2 DEF Segments
      <4>2. shown[dropped][c] \in Terminal
        BY <4>1 DEF PartialInv
      <4> QED BY <2>6, <3>2, <4>2, Ranges
    <3> QED BY <3>1, <3>2
  <2>8. LatestInv'
    BY <2>1, <2>4 DEF LatestInv
  <2>9. PartialInv'
    <3>1. cur # 0 => cur \in Segments
      BY Ranges
    <3> QED BY <2>1, <2>4, <2>5, <2>6, <2>7, <3>1 DEF PartialInv
  <2>10. LatestIsLive'
    <3>1. latest # 0 => latest \in Segments /\ latest # dropped
      BY <2>1, Ranges, QueueFacts DEF LatestInv
    <3> QED BY <2>1, <2>4, <2>6, <3>1 DEF LatestIsLive, Rejected, Elements
  <2>11. NoSilentLoss'
    <3> SUFFICES ASSUME NEW s \in 1..received', ~Outstanding(s)'
                 PROVE  \/ \A c \in Capabilities : shown'[s][c] \in Terminal
                        \/ Rejected(s)'
                        \/ TranslationOnly /\ s < received'
      BY DEF NoSilentLoss
    <3>1. s \in Segments
      BY <2>1, Ranges
    <3>2. CASE s = dropped
      <4>1. notify' = {}
        BY <2>1, <2>5, <3>2 DEF Outstanding
      <4> QED BY <2>7, <3>2, <4>1
    <3>3. CASE s # dropped
      <4>1. ~Outstanding(s) /\ shown'[s] = shown[s]
        BY <2>1, <2>4, <2>5, <2>6, <3>1, <3>3 DEF Outstanding, Elements
      <4> QED BY <1>2, <2>1, <2>4, <4>1 DEF NoSilentLoss, Rejected
    <3> QED BY <3>2, <3>3
  <2> QED BY <2>8, <2>9, <2>10, <2>11
<1> QED BY <1>1, <1>2

LEMMA ToldEnqueue ==
    ASSUME TypeInv, AssistInv, OrdinalInv', QueueInOrder', Enqueue
    PROVE  ToldInv'
<1> USE DEF AssistInv, ToldInv, gateVars, routeVars, orchVars, workerVars
<1>1. /\ UNCHANGED <<state, cur, cap, worker, shown>> /\ state = "running"
      /\ received' = received + 1 /\ queue' = Append(Kept, received + 1)
      /\ latest' = IF "translation" \in Capabilities THEN received + 1 ELSE latest
      /\ dropped = 0 /\ received \in Nat
  BY QueueFacts DEF Enqueue, OrdinalInv
<1>2. Kept \in Seq(Segments) /\ (Kept = queue \/ (queue # <<>> /\ Kept = Tail(queue)))
  BY KeptType, QueueFacts, ConstantsAssumption
     DEF Kept, Replaces, Drops, TypeInv, TypeOK
<1>3. received' \in Elements(queue')
  <2>1. Len(queue') = Len(Kept) + 1 /\ queue'[Len(Kept) + 1] = received' /\ Len(Kept) \in Nat
    BY <1>1, <1>2
  <2>2. Len(Kept) + 1 \in 1..Len(queue')
    BY <2>1
  <2> QED BY <2>1, <2>2 DEF Elements
<1>4. \A x \in Elements(Kept) : x \in Elements(queue')
  <2> SUFFICES ASSUME NEW i \in 1..Len(Kept)
               PROVE  Kept[i] \in Elements(queue')
    BY DEF Elements
  <2>1. i \in 1..Len(queue') /\ queue'[i] = Kept[i]
    BY <1>1, <1>2
  <2> QED BY <2>1 DEF Elements
<1>5. \A x \in Elements(queue) : x \in Elements(Kept) \/ (Kept # queue /\ x = Head(queue))
  <2> SUFFICES ASSUME NEW i \in 1..Len(queue), Kept # queue
               PROVE  queue[i] \in Elements(Kept) \/ queue[i] = Head(queue)
    BY DEF Elements
  <2>1. queue # <<>> /\ Kept = Tail(queue)
    BY <1>2
  <2>2. CASE i = 1
    BY <2>1, <2>2, QueueFacts
  <2>3. CASE i # 1
    <3>1. i - 1 \in 1..(Len(queue) - 1) /\ i - 1 + 1 = i
      BY <2>3, QueueFacts
    <3>2. Tail(queue)[i - 1] = queue[i] /\ Len(Kept) = Len(queue) - 1
      BY <2>1, <3>1, QueueFacts
    <3> QED BY <2>1, <3>1, <3>2 DEF Elements
  <2> QED BY <2>2, <2>3
<1>6. LatestInv'
  <2>1. "translation" \in Capabilities => latest' > cur
    BY <1>1, QueueFacts DEF OrdinalInv
  <2> QED BY <1>1, <2>1, QueueFacts DEF LatestInv
<1>7. PartialInv'
  <2>1. dropped' # 0 => notify' = Capabilities
    BY <1>1 DEF Enqueue, Notified
  <2> QED BY <1>1, <2>1 DEF PartialInv
<1>8. LatestIsLive'
  BY <1>1, <1>3 DEF LatestIsLive, LatestInv
<1>9. NoSilentLoss'
  <2> SUFFICES ASSUME NEW s \in 1..received', ~Outstanding(s)'
               PROVE  \/ \A c \in Capabilities : shown'[s][c] \in Terminal
                      \/ Rejected(s)'
                      \/ TranslationOnly /\ s < received'
    BY DEF NoSilentLoss
  <2>1. s \in 1..received /\ s < received'
    BY <1>1, <1>3 DEF Outstanding
  <2>2. CASE ~Outstanding(s)
    BY <1>1, <2>1, <2>2 DEF NoSilentLoss, Rejected
  <2>3. CASE Outstanding(s)
    <3>1. s \in Elements(queue) /\ s \notin Elements(queue')
      BY <1>1, <2>1, <2>3 DEF Outstanding
    <3>2. Kept # queue /\ s = Head(queue)
      BY <1>4, <1>5, <3>1
    <3>3. ~Drops
      BY <1>1, <3>2 DEF Enqueue, Outstanding
    <3>4. TranslationOnly
      BY <3>2, <3>3 DEF Kept, Replaces
    <3> QED BY <2>1, <3>4
  <2> QED BY <2>2, <2>3
<1> QED BY <1>6, <1>7, <1>8, <1>9

LEMMA ToldInvStep ==
    ASSUME TypeInv, AssistInv, OrdinalInv', QueueInOrder', [Next]_vars
    PROVE  ToldInv'
BY ToldQuiet, ToldDequeue, ToldRejection, ToldProcessing, ToldTerminal, ToldDropped,
   ToldEnqueue DEF Next, Worker, Route

LEMMA SttPreemptsStep ==
    ASSUME TypeInv, AssistInv, [Next]_vars
    PROVE  SttPreempts'
<1> USE DEF AssistInv, SttPreempts, gateVars, routeVars, orchVars, workerVars
<1>t. active \in Nat /\ gen \in Nat /\ captured \in Nat /\ captured <= gen
  BY DEF TypeInv, TypeOK, WorkerTypeOK, WorkerInv
<1>1. CASE PublishProcessing
  <2>1. UNCHANGED <<active, gen, captured, cap>>
    BY <1>1 DEF PublishProcessing
  <2>2. worker' = "operation" /\ cap = "translation" => ~SttArrived
    BY <1>1 DEF PublishProcessing, AfterProcessing, Outdated, SinkFails
  <2> QED BY <2>1, <2>2 DEF SttArrived
<1>2. CASE ChunkReceived \/ ForeignSttStarts
  <2>1. gen' = gen + 1 /\ UNCHANGED captured
    BY <1>2 DEF ChunkReceived, ForeignSttStarts, SttStarts
  <2> QED BY <1>t, <2>1
<1>3. CASE SttCompletes \/ SttFails \/ ForeignSttEnds
  <2>1. UNCHANGED <<gen, captured, worker, cap>> /\ (active' > 0 => active > 0)
    BY <1>3, <1>t DEF SttCompletes, SttFails, ForeignSttEnds, SttFinishes
  <2> QED BY <2>1
<1>4. CASE \/ Dequeue \/ PublishRejection \/ AdmissionGranted \/ AdmissionDeferred
           \/ TimedWaitWakes \/ TimedWaitCleanedUp \/ OperationCompletes \/ Preempt
           \/ PreemptionSettles \/ PublishTerminal \/ Unwinds \/ Stop
  <2>1. worker' # "operation"
    BY <1>4 DEF Dequeue, PublishRejection, AdmissionGranted, AdmissionDeferred,
                TimedWaitWakes, TimedWaitCleanedUp, OperationCompletes, Preempt,
                PreemptionSettles, PublishTerminal, Continue, Unwinds, Stop, CancelledWorker
  <2> QED BY <2>1
<1>5. CASE \/ ChunkRefused \/ ResultSent \/ Enqueue \/ EnqueueRefused \/ PublishDropped
           \/ Joined \/ UNCHANGED vars
  <2>1. UNCHANGED <<active, gen, captured, worker, cap>>
    BY <1>5 DEF ChunkRefused, ResultSent, Enqueue, EnqueueRefused, PublishDropped, Joined,
                vars
  <2> QED BY <2>1
<1> QED BY <1>1, <1>2, <1>3, <1>4, <1>5 DEF Next, Worker, Route

LEMMA AssistInvStep == TypeInv /\ AssistInv /\ [Next]_vars => (TypeInv /\ AssistInv)'
<1> SUFFICES ASSUME TypeInv, AssistInv, [Next]_vars
             PROVE  TypeInv' /\ AssistInv'
  OBVIOUS
<1>1. TypeInv'
  BY NextTypeInv
<1>2. WorkerInv'
  BY <1>1, WorkerInvStep
<1>3. OrdinalInv' /\ QueueInOrder'
  BY <1>1, <1>2, OrdinalInvStep
<1>4. ToldInv'
  BY <1>3, ToldInvStep
<1>5. SttPreempts'
  BY SttPreemptsStep
<1> QED BY <1>1, <1>2, <1>3, <1>4, <1>5 DEF AssistInv, ToldInv

(* AssistInv is an inductive invariant of AssistMode: what the worker, the *)
(* handler and the queue know of each other never drifts apart.            *)
THEOREM AssistInvCorrect == Spec => [](TypeInv /\ AssistInv)
BY InitTypeInv, InitAssistInv, AssistInvStep, PTL DEF Spec

(* AssistModeOrchestrator's queue is a bounded FIFO in transcript order.   *)
THEOREM QueueInOrderCorrect == Spec => []QueueInOrder
<1>1. TypeInv /\ AssistInv => QueueInOrder
  BY DEF AssistInv
<1> QED BY <1>1, AssistInvCorrect, PTL

(* The pending translation is always that of a segment still to be         *)
(* processed.                                                              *)
THEOREM LatestIsLiveCorrect == Spec => []LatestIsLive
<1>1. TypeInv /\ AssistInv => LatestIsLive
  BY DEF AssistInv
<1> QED BY <1>1, AssistInvCorrect, PTL

(* No accepted segment is forgotten while the session runs.                *)
THEOREM NoSilentLossCorrect == Spec => []NoSilentLoss
<1>1. TypeInv /\ AssistInv => NoSilentLoss
  BY DEF AssistInv
<1> QED BY <1>1, AssistInvCorrect, PTL

(* A translation running beside an STT call is about to be preempted.      *)
THEOREM SttPreemptsCorrect == Spec => []SttPreempts
<1>1. TypeInv /\ AssistInv => SttPreempts
  BY DEF AssistInv
<1> QED BY <1>1, AssistInvCorrect, PTL

(* A translation operation starts only on an idle STT, and only for the    *)
(* newest accepted segment.                                                *)
THEOREM TranslatesNewestWhenIdleCorrect == Spec => TranslatesNewestWhenIdle
<1>1. TypeInv /\ AssistInv /\ [Next]_vars
         => [StartsTranslation => active = 0 /\ gen = captured /\ cur = received]_vars
  <2> SUFFICES ASSUME TypeInv, AssistInv, Next, StartsTranslation
               PROVE  active = 0 /\ gen = captured /\ cur = received
    OBVIOUS
  <2> USE DEF StartsTranslation
  <2>1. CASE PublishProcessing
    <3>1. /\ ~Outdated /\ cap = "translation" /\ worker = "processing"
      BY <2>1 DEF PublishProcessing, AfterProcessing, SinkFails, workerVars
    <3>2. cur # 0 /\ cur = latest /\ latest \in {0, received}
      BY <3>1 DEF Outdated, Superseded, AssistInv, WorkerInv, LatestInv
    <3>3. active \in Nat
      BY DEF TypeInv, TypeOK
    <3> QED BY <3>1, <3>2, <3>3 DEF Outdated, SttArrived
  <2>2. CASE ~PublishProcessing
    <3>1. worker' # "operation" \/ worker' = worker
      BY <2>2
         DEF Next, Worker, Route, Dequeue, PublishRejection, AdmissionGranted,
             AdmissionDeferred, TimedWaitWakes, TimedWaitCleanedUp, OperationCompletes,
             Preempt, PreemptionSettles, PublishTerminal, Continue, Unwinds, Stop,
             CancelledWorker, ChunkReceived, ChunkRefused, SttCompletes, SttFails,
             ResultSent, Enqueue, EnqueueRefused, PublishDropped, Joined,
             ForeignSttStarts, ForeignSttEnds, workerVars
    <3> QED BY <3>1
  <2> QED BY <2>1, <2>2
<1> QED BY <1>1, AssistInvCorrect, PTL DEF Spec, TranslatesNewestWhenIdle

(* The invariants of the module together, for any capabilities and bounds. *)
THEOREM InvCorrect == Spec => []Inv
<1>1. TypeInv /\ AssistInv => Inv
  BY DEF TypeInv, Inv
<1> QED BY <1>1, AssistInvCorrect, PTL
(***************************************************************************)
(* The updates the client sees are the ones AssistDisplay allows: what the *)
(* worker and the handler know of the cells they are about to update.      *)
(***************************************************************************)
(* A cell shown as processing may be the worker's only from the delivery   *)
(* of the PROCESSING frame to that of the terminal one.                    *)
Underway == worker \in {"operation", "cancelling", "terminal", "unwinding"}

(* Only the cell the worker is at is ever in progress (until it ends), and *)
(* a capability it has not come to yet has not been shown.                 *)
CellInv ==
    /\ \A s \in Segments, c \in AllCapabilities :
          shown[s][c] = "processing" => worker = "ended" \/ (Underway /\ s = cur /\ c = cap)
    /\ worker \in {"admission", "timed", "cleanup", "processing"} => shown[cur][cap] = "none"
    /\ worker \in {"operation", "cancelling"} => shown[cur][cap] = "processing"
    /\ worker = "terminal" =>
          \/ shown[cur][cap] = "processing"
          \/ shown[cur][cap] = "none" /\ update = "unavailable"
    /\ worker = "rejecting" => shown[cur]["reply_coaching"] = "none"
    /\ worker \notin {"idle", "ended", "rejecting"} =>
          \A c \in Later(cap) : shown[cur][c] = "none"

(* Nothing has been said of a segment that waits or is still to come, nor  *)
(* of a dropped one to a capability that is still to hear of it; newer     *)
(* segments than the one in progress are at most dropped.                  *)
FreshInv ==
    /\ \A s \in Segments, c \in AllCapabilities :
          s > received - Len(queue) => shown[s][c] = "none"
    /\ \A c \in notify : shown[dropped][c] = "none"
    /\ cur # 0 => \A t \in Segments, c \in AllCapabilities :
          t > cur => shown[t][c] \in {"none", "unavailable"}

(* The session is closed by the handler that has joined the worker.        *)
ClosedInv == route = "closed" => worker = "ended"

DisplayInv == CellInv /\ FreshInv /\ ClosedInv

LEMMA InitDisplayInv == Init => DisplayInv
<1> SUFFICES ASSUME Init PROVE DisplayInv
  OBVIOUS
<1>1. \A s \in Segments, c \in AllCapabilities : shown[s][c] = "none"
  BY DEF Init
<1>2. CellInv
  BY <1>1 DEF Init, CellInv
<1>3. FreshInv
  BY <1>1 DEF Init, FreshInv
<1> QED BY <1>2, <1>3 DEF Init, DisplayInv, ClosedInv

(* One cell changes, all others stay.                                      *)
LEMMA CellFrame ==
    ASSUME NEW s \in Segments, NEW c \in AllCapabilities, NEW v, TypeInv,
           shown' = [shown EXCEPT ![s][c] = v]
    PROVE  /\ \A t \in Segments, d \in AllCapabilities :
                 t # s \/ d # c => shown'[t][d] = shown[t][d]
           /\ shown'[s][c] = v
BY DEF TypeInv, TypeOK

(* What the worker is at is a segment and a capability of the view, and so *)
(* is what is dropped.                                                     *)
LEMMA AtCell ==
    ASSUME TypeInv, AssistInv
    PROVE  /\ worker \notin {"idle", "ended"} => cur \in Segments
           /\ cap \in AllCapabilities /\ "reply_coaching" \in AllCapabilities
           /\ notify \subseteq AllCapabilities
           /\ route = "dropping" =>
                 /\ dropped \in Segments /\ dropped # cur
                 /\ notify # {} /\ First(notify) \in notify
           /\ Later(cap) \subseteq AllCapabilities /\ cap \notin Later(cap)
           /\ Later(cap) # {} => First(Later(cap)) \in Later(cap)
                                 /\ Later(First(Later(cap))) \subseteq Later(cap)
<1> USE ConstantsAssumption
<1>1. /\ cap \in AllCapabilities /\ "reply_coaching" \in AllCapabilities
      /\ notify \subseteq AllCapabilities
  BY DEF TypeInv, TypeOK, WorkerTypeOK, RouteTypeOK, AllCapabilities
<1>2. worker \notin {"idle", "ended"} => cur \in Segments
  BY DEF TypeInv, TypeOK, WorkerTypeOK, AssistInv, WorkerInv, Segments
<1>3. route = "dropping" =>
                 /\ dropped \in Segments /\ dropped # cur
                 /\ notify # {} /\ First(notify) \in notify
  BY <1>1, FirstIn DEF TypeInv, TypeOK, RouteTypeOK, AssistInv, OrdinalInv, Segments
<1>4. \A c \in AllCapabilities : Rank(c) \in Nat
  BY DEF AllCapabilities, Rank
<1>5. Later(cap) \subseteq AllCapabilities /\ cap \notin Later(cap)
  BY <1>1, <1>4 DEF Later
<1>6. Later(cap) # {} => First(Later(cap)) \in Later(cap)
                         /\ Later(First(Later(cap))) \subseteq Later(cap)
  <2> SUFFICES ASSUME Later(cap) # {}
               PROVE  First(Later(cap)) \in Later(cap)
                      /\ Later(First(Later(cap))) \subseteq Later(cap)
    OBVIOUS
  <2>1. First(Later(cap)) \in Later(cap)
    BY <1>5, FirstIn
  <2> DEFINE f == First(Later(cap))
  <2>2. f \in AllCapabilities /\ Rank(f) > Rank(cap)
    BY <2>1, <1>5 DEF Later
  <2>3. \A d \in Capabilities : Rank(d) > Rank(f) => Rank(d) > Rank(cap)
    BY <2>2, <1>1, <1>4
  <2>4. Later(f) \subseteq Later(cap)
    BY <2>3 DEF Later
  <2> QED BY <2>1, <2>4
<1> QED BY <1>1, <1>2, <1>3, <1>5, <1>6

(* The three frames of the worker and the handler's frame are moves of the *)
(* display, as long as the session is open.                                *)
LEMMA ProcessingFrame ==
    ASSUME TypeInv, AssistInv, DisplayInv, worker = "processing",
           shown' = [shown EXCEPT ![cur][cap] = "processing"]
    PROVE  Display!Start(cur, cap)
<1>1. \A t \in Segments, d \in AllCapabilities : shown[t][d] # "processing"
  BY DEF DisplayInv, CellInv, Underway
<1>2. cur # 0
  BY DEF AssistInv, WorkerInv
<1>3. \A t \in Segments, d \in AllCapabilities :
         t > cur => shown[t][d] \in {"none", "unavailable"}
  BY <1>2 DEF DisplayInv, FreshInv
<1>4. shown[cur][cap] = "none"
  BY DEF DisplayInv, CellInv
<1> QED BY <1>1, <1>3, <1>4 DEF Display!Start, Display!Shows

LEMMA TerminalFrame ==
    ASSUME TypeInv, AssistInv, DisplayInv, worker = "terminal",
           shown' = [shown EXCEPT ![cur][cap] = update]
    PROVE  Display!Resolve(cur, cap) \/ Display!Skip(cur, cap)
<1>1. update \in {"ready", "failed", "unavailable"}
  BY DEF AssistInv, WorkerInv, Terminal
<1>2. CASE shown[cur][cap] = "processing"
  BY <1>1, <1>2 DEF Display!Resolve, Display!Shows
<1>3. CASE shown[cur][cap] = "none" /\ update = "unavailable"
  BY <1>3 DEF Display!Skip, Display!Shows
<1> QED BY <1>2, <1>3 DEF DisplayInv, CellInv

LEMMA RejectionFrame ==
    ASSUME DisplayInv, worker = "rejecting",
           shown' = [shown EXCEPT ![cur]["reply_coaching"] = "failed"]
    PROVE  Display!Reject(cur)
BY DEF DisplayInv, CellInv, Display!Reject, Display!Shows

(* Every step shows the client what AssistDisplay allows, or nothing.      *)
LEMMA DisplayStep ==
    ASSUME TypeInv, AssistInv, DisplayInv, [Next]_vars
    PROVE  [Display!Next]_(Display!vars)
<1> USE DEF gateVars, routeVars, orchVars, workerVars
<1>u. ASSUME UNCHANGED shown, route' = "closed" <=> route = "closed"
      PROVE  UNCHANGED Display!vars
  BY <1>u DEF Display!vars
<1>w. ASSUME route # "closed", route' # "closed",
             \E s \in Segments : \/ Display!Reject(s)
                                 \/ \E c \in AllCapabilities :
                                       \/ Display!Start(s, c) \/ Display!Resolve(s, c)
                                       \/ Display!Skip(s, c)
      PROVE  Display!Next
  BY <1>w DEF Display!Next, Display!Update
<1>o. worker # "ended" => route # "closed"
  BY DEF DisplayInv, ClosedInv
<1>1. CASE PublishRejection
  <2>1. worker = "rejecting" /\ UNCHANGED route /\ cur \in Segments
    BY <1>1, AtCell DEF PublishRejection
  <2>2. CASE Delivered(cur, "reply_coaching", "failed")
    BY <1>o, <1>w, <2>1, <2>2, RejectionFrame DEF Delivered
  <2>3. CASE SinkFails
    BY <1>u, <2>1, <2>3 DEF SinkFails
  <2> QED BY <1>1, <2>2, <2>3 DEF PublishRejection
<1>2. CASE PublishProcessing
  <2>1. /\ worker = "processing" /\ UNCHANGED route
        /\ cur \in Segments /\ cap \in AllCapabilities
    BY <1>2, AtCell DEF PublishProcessing
  <2>2. CASE Delivered(cur, cap, "processing")
    BY <1>o, <1>w, <2>1, <2>2, ProcessingFrame DEF Delivered
  <2>3. CASE SinkFails
    BY <1>u, <2>1, <2>3 DEF SinkFails
  <2> QED BY <1>2, <2>2, <2>3 DEF PublishProcessing
<1>3. CASE PublishTerminal
  <2>1. /\ worker = "terminal" /\ UNCHANGED route
        /\ cur \in Segments /\ cap \in AllCapabilities
    BY <1>3, AtCell DEF PublishTerminal
  <2>2. CASE Delivered(cur, cap, update)
    BY <1>o, <1>w, <2>1, <2>2, TerminalFrame DEF Delivered
  <2>3. CASE SinkFails
    BY <1>u, <2>1, <2>3 DEF SinkFails
  <2> QED BY <1>3, <2>2, <2>3 DEF PublishTerminal
<1>4. CASE PublishDropped
  <2>1. /\ route = "dropping" /\ route' # "closed" /\ dropped \in Segments
        /\ First(notify) \in notify /\ First(notify) \in AllCapabilities
    BY <1>4, AtCell DEF PublishDropped, Resume
  <2>2. CASE Delivered(dropped, First(notify), "unavailable")
    <3>1. shown[dropped][First(notify)] = "none"
      BY <2>1 DEF DisplayInv, FreshInv
    <3>2. Display!Skip(dropped, First(notify))
      BY <2>2, <3>1 DEF Delivered, Display!Skip, Display!Shows
    <3> QED BY <1>w, <2>1, <3>2
  <2>3. CASE SinkFails
    BY <1>u, <2>1, <2>3 DEF SinkFails
  <2> QED BY <1>4, <2>2, <2>3 DEF PublishDropped
<1>5. CASE Stop
  <2>1. route # "closed" /\ route' # "closed"
    BY <1>5 DEF Stop
  <2>2. CASE UNCHANGED shown
    BY <1>u, <2>1, <2>2
  <2>3. CASE shown' \in InFlight
    <3>1. CASE worker = "processing"
      <4>1. shown' = [shown EXCEPT ![cur][cap] = "processing"]
        BY <2>3, <3>1 DEF InFlight
      <4> QED BY <1>w, <2>1, <3>1, <4>1, AtCell, ProcessingFrame
    <3>2. CASE worker = "terminal"
      <4>1. shown' = [shown EXCEPT ![cur][cap] = update]
        BY <2>3, <3>2 DEF InFlight
      <4> QED BY <1>w, <2>1, <3>2, <4>1, AtCell, TerminalFrame
    <3>3. CASE worker = "rejecting"
      <4>1. shown' = [shown EXCEPT ![cur]["reply_coaching"] = "failed"]
        BY <2>3, <3>3 DEF InFlight
      <4> QED BY <1>w, <2>1, <3>3, <4>1, AtCell, RejectionFrame
    <3>4. CASE worker \notin {"processing", "terminal", "rejecting"}
      BY <2>3, <3>4 DEF InFlight
    <3> QED BY <3>1, <3>2, <3>3, <3>4
  <2> QED BY <1>5, <2>2, <2>3 DEF Stop
<1>6. CASE Joined
  <2>1. route = "joining" /\ route' = "closed" /\ UNCHANGED shown
    BY <1>6 DEF Joined
  <2> QED BY <2>1 DEF Display!Next, Display!Close
<1>7. CASE \/ Dequeue \/ AdmissionGranted \/ AdmissionDeferred \/ TimedWaitWakes
           \/ TimedWaitCleanedUp \/ OperationCompletes \/ Preempt \/ PreemptionSettles
           \/ Unwinds \/ ForeignSttStarts \/ ForeignSttEnds \/ UNCHANGED vars
  <2>1. UNCHANGED <<shown, route>>
    BY <1>7 DEF Dequeue, AdmissionGranted, AdmissionDeferred, TimedWaitWakes,
                TimedWaitCleanedUp, OperationCompletes, Preempt, PreemptionSettles, Unwinds,
                ForeignSttStarts, ForeignSttEnds, vars
  <2> QED BY <1>u, <2>1
<1>8. CASE \/ ChunkReceived \/ ChunkRefused \/ SttCompletes \/ SttFails \/ ResultSent
           \/ Enqueue \/ EnqueueRefused
  <2>1. UNCHANGED shown /\ route # "closed" /\ route' # "closed"
    BY <1>8 DEF ChunkReceived, ChunkRefused, SttCompletes, SttFails, ResultSent, Enqueue,
                Resume, EnqueueRefused
  <2> QED BY <1>u, <2>1
<1> QED
  BY <1>1, <1>2, <1>3, <1>4, <1>5, <1>6, <1>7, <1>8 DEF Next, Worker, Route

(* A step that publishes at most one frame about the segment in progress   *)
(* and accepts or takes no segment.                                        *)
LEMMA FreshFrame ==
    ASSUME TypeInv, AssistInv, FreshInv,
           UNCHANGED <<received, dropped, notify>>, queue' = queue \/ queue' = <<>>,
           cur' \in {cur, 0},
           \/ UNCHANGED shown
           \/ cur \in Segments /\ \E c \in AllCapabilities, v \in Shown :
                                     shown' = [shown EXCEPT ![cur][c] = v]
    PROVE  FreshInv'
<1>1. /\ received \in Nat /\ Len(queue) \in Nat /\ cur + Len(queue) <= received /\ cur \in Nat
      /\ Len(queue') \in Nat /\ Len(queue') <= Len(queue) /\ received' = received
  BY QueueFacts DEF AssistInv, OrdinalInv
<1>2. \A t \in Segments, c \in AllCapabilities : t # cur => shown'[t][c] = shown[t][c]
  <2>1. CASE UNCHANGED shown
    BY <2>1
  <2>2. CASE cur \in Segments /\ \E c \in AllCapabilities, v \in Shown :
                                     shown' = [shown EXCEPT ![cur][c] = v]
    BY <2>2, CellFrame
  <2> QED BY <2>1, <2>2
<1>3. \A s \in Segments, c \in AllCapabilities :
         s > received' - Len(queue') => shown'[s][c] = "none"
  <2> SUFFICES ASSUME NEW s \in Segments, NEW c \in AllCapabilities,
                      s > received' - Len(queue')
               PROVE  shown'[s][c] = "none"
    OBVIOUS
  <2>1. s > received - Len(queue) /\ s # cur
    BY <1>1, ConstantsAssumption DEF Segments
  <2> QED BY <1>2, <2>1 DEF FreshInv
<1>4. \A c \in notify' : shown'[dropped'][c] = "none"
  <2> SUFFICES ASSUME NEW c \in notify PROVE shown'[dropped][c] = "none"
    OBVIOUS
  <2>1. dropped \in Segments /\ dropped # cur /\ c \in AllCapabilities
    BY AtCell DEF AssistInv, OrdinalInv
  <2> QED BY <1>2, <2>1 DEF FreshInv
<1>5. cur' # 0 => \A t \in Segments, c \in AllCapabilities :
                     t > cur' => shown'[t][c] \in {"none", "unavailable"}
  <2> SUFFICES ASSUME cur' # 0, NEW t \in Segments, NEW c \in AllCapabilities, t > cur'
               PROVE  shown'[t][c] \in {"none", "unavailable"}
    OBVIOUS
  <2>1. cur' = cur /\ t # cur
    BY <1>1
  <2> QED BY <1>2, <2>1 DEF FreshInv
<1> QED BY <1>3, <1>4, <1>5 DEF FreshInv

LEMMA FreshInvStep ==
    ASSUME TypeInv, AssistInv, AssistInv', FreshInv, [Next]_vars
    PROVE  FreshInv'
<1> USE DEF gateVars, routeVars, orchVars, workerVars
<1>v. {"processing", "failed", "unavailable"} \cup Terminal \subseteq Shown
  BY DEF Shown, Terminal
<1>1. CASE Dequeue
  <2>1. /\ queue # <<>> /\ cur' = Head(queue) /\ queue' = Tail(queue)
        /\ UNCHANGED <<routeVars, received, shown>>
    BY <1>1 DEF Dequeue
  <2>2. /\ Len(queue') = Len(queue) - 1 /\ cur' = received - Len(queue) + 1
        /\ Len(queue) \in Nat /\ received \in Nat
    BY <2>1, QueueFacts DEF AssistInv, QueueInOrder
  <2>3. \A s \in Segments : s > received' - Len(queue') \/ s > cur'
                               => s > received - Len(queue)
    BY <2>1, <2>2, ConstantsAssumption DEF Segments
  <2> QED BY <2>1, <2>3 DEF FreshInv
<1>2. CASE PublishRejection
  <2>1. UNCHANGED <<received, dropped, notify>> /\ cur' = 0 /\ worker = "rejecting"
    BY <1>2 DEF PublishRejection
  <2>2. CASE Delivered(cur, "reply_coaching", "failed")
    BY <1>v, <2>1, <2>2, FreshFrame, AtCell DEF Delivered
  <2>3. CASE SinkFails
    BY <2>1, <2>3, FreshFrame DEF SinkFails
  <2> QED BY <1>2, <2>2, <2>3 DEF PublishRejection
<1>3. CASE PublishProcessing
  <2>1. UNCHANGED <<received, dropped, notify>> /\ cur' \in {cur, 0} /\ worker = "processing"
    BY <1>3 DEF PublishProcessing
  <2>2. CASE Delivered(cur, cap, "processing")
    BY <1>v, <2>1, <2>2, FreshFrame, AtCell DEF Delivered
  <2>3. CASE SinkFails
    BY <2>1, <2>3, FreshFrame DEF SinkFails
  <2> QED BY <1>3, <2>2, <2>3 DEF PublishProcessing
<1>4. CASE PublishTerminal
  <2>1. UNCHANGED <<received, dropped, notify>> /\ cur' \in {cur, 0} /\ worker = "terminal"
    BY <1>4 DEF PublishTerminal, Continue
  <2>2. CASE Delivered(cur, cap, update)
    <3>1. update \in Shown
      BY <1>v, <2>1 DEF AssistInv, WorkerInv
    <3> QED BY <2>1, <2>2, <3>1, FreshFrame, AtCell DEF Delivered
  <2>3. CASE SinkFails
    BY <2>1, <2>3, FreshFrame DEF SinkFails
  <2> QED BY <1>4, <2>2, <2>3 DEF PublishTerminal
<1>5. CASE PublishDropped
  <2>1. /\ route = "dropping" /\ UNCHANGED <<received, cur>>
        /\ queue' = queue \/ queue' = <<>>
    BY <1>5 DEF PublishDropped, Delivered, SinkFails
  <2>2. /\ dropped \in Segments /\ First(notify) \in notify /\ First(notify) \in AllCapabilities
        /\ notify \subseteq AllCapabilities
    BY <2>1, AtCell
  <2>3. /\ received \in Nat /\ Len(queue) \in Nat /\ dropped + Len(queue) <= received
        /\ dropped \in Nat /\ Len(queue') \in Nat /\ Len(queue') <= Len(queue)
    BY <2>1, QueueFacts DEF AssistInv, OrdinalInv
  <2>4. /\ \A t \in Segments, d \in AllCapabilities :
              t # dropped \/ d # First(notify) => shown'[t][d] = shown[t][d]
        /\ shown'[dropped][First(notify)] \in {"unavailable", shown[dropped][First(notify)]}
    <3>1. CASE Delivered(dropped, First(notify), "unavailable")
      BY <2>2, <3>1, CellFrame DEF Delivered
    <3>2. CASE SinkFails
      BY <3>2 DEF SinkFails
    <3> QED BY <1>5, <3>1, <3>2 DEF PublishDropped
  <2>5. \A s \in Segments, c \in AllCapabilities :
           s > received' - Len(queue') => shown'[s][c] = "none"
    <3> SUFFICES ASSUME NEW s \in Segments, NEW c \in AllCapabilities,
                        s > received' - Len(queue')
                 PROVE  shown'[s][c] = "none"
      OBVIOUS
    <3>1. s > received - Len(queue) /\ s # dropped
      BY <2>1, <2>3, ConstantsAssumption DEF Segments
    <3> QED BY <2>4, <3>1 DEF FreshInv
  <2>6. \A c \in notify' : shown'[dropped'][c] = "none"
    <3>1. CASE notify' = {}
      BY <3>1
    <3>2. CASE notify' = notify \ {First(notify)} /\ UNCHANGED dropped
      BY <2>2, <2>4, <3>2 DEF FreshInv
    <3> QED BY <1>5, <3>1, <3>2 DEF PublishDropped
  <2>7. cur' # 0 => \A t \in Segments, c \in AllCapabilities :
                       t > cur' => shown'[t][c] \in {"none", "unavailable"}
    <3> SUFFICES ASSUME cur # 0, NEW t \in Segments, NEW c \in AllCapabilities, t > cur
                 PROVE  shown'[t][c] \in {"none", "unavailable"}
      BY <2>1
    <3>1. shown[t][c] \in {"none", "unavailable"}
      BY DEF FreshInv
    <3>2. CASE t # dropped \/ c # First(notify)
      BY <2>4, <3>1, <3>2
    <3>3. CASE t = dropped /\ c = First(notify)
      BY <2>4, <3>1, <3>3
    <3> QED BY <3>2, <3>3
  <2> QED BY <2>5, <2>6, <2>7 DEF FreshInv
<1>6. CASE Enqueue
  <2>1. /\ received' = received + 1 /\ UNCHANGED <<shown, cur>>
        /\ queue' = Append(Kept, received + 1) /\ route = "enqueuing"
    BY <1>6 DEF Enqueue
  <2>2. /\ Len(queue) \in Nat /\ received \in Nat
        /\ Kept \in Seq(Segments) /\ Len(Kept) <= Len(queue) /\ Len(Kept) \in Nat
    BY QueueFacts, KeptType, ConstantsAssumption
       DEF Kept, Replaces, Drops, TypeInv, TypeOK
  <2>3. Len(queue') = Len(Kept) + 1
    BY <2>1, <2>2
  <2>4. \A s \in Segments : s > received' - Len(queue') => s > received - Len(Kept)
    BY <2>1, <2>2, <2>3, ConstantsAssumption DEF Segments
  <2>5. CASE Drops
    <3>1. /\ dropped' = Head(queue) /\ notify' = Capabilities
          /\ queue # <<>> /\ Len(Kept) = Len(queue) - 1
      BY <1>6, <2>5, QueueFacts, ConstantsAssumption DEF Enqueue, Notified, Drops, Kept
    <3>2. /\ dropped' = received - Len(queue) + 1 /\ Len(queue) >= 1
          /\ dropped' \in Segments
      BY <3>1, QueueFacts DEF AssistInv, QueueInOrder, TypeInv, TypeOK, OrchTypeOK
    <3>3. dropped' > received - Len(queue)
      BY <2>2, <3>2
    <3>4. \A c \in notify' : shown'[dropped'][c] = "none"
      BY <2>1, <3>1, <3>2, <3>3, ConstantsAssumption DEF FreshInv
    <3>5. \A s \in Segments : s > received - Len(Kept) => s > received - Len(queue)
      BY <2>2, ConstantsAssumption DEF Segments
    <3> QED BY <2>1, <2>4, <3>4, <3>5 DEF FreshInv
  <2>6. CASE ~Drops
    <3>1. UNCHANGED <<dropped, notify>>
      BY <1>6, <2>6 DEF Enqueue
    <3>2. \A s \in Segments : s > received - Len(Kept) => s > received - Len(queue)
      BY <2>2, ConstantsAssumption DEF Segments
    <3> QED BY <2>1, <2>4, <3>1, <3>2 DEF FreshInv
  <2> QED BY <2>5, <2>6
<1>7. CASE Stop
  <2>1. /\ UNCHANGED <<received, dropped, notify>> /\ queue' = <<>> /\ cur' \in {cur, 0}
        /\ shown' \in {shown} \cup InFlight
    BY <1>7 DEF Stop
  <2>2. CASE UNCHANGED shown
    BY <2>1, <2>2, FreshFrame
  <2>3. CASE shown' \in InFlight
    <3>1. worker \in {"processing", "terminal", "rejecting"}
      BY <2>3 DEF InFlight
    <3>2. worker = "terminal" => update \in Shown
      BY <1>v DEF AssistInv, WorkerInv
    <3>3. cur \in Segments /\ \E c \in AllCapabilities, v \in Shown :
                                     shown' = [shown EXCEPT ![cur][c] = v]
      BY <1>v, <2>3, <3>1, <3>2, AtCell DEF InFlight
    <3> QED BY <2>1, <3>3, FreshFrame
  <2> QED BY <2>1, <2>2, <2>3
<1>8. CASE \/ AdmissionGranted \/ AdmissionDeferred \/ TimedWaitWakes
           \/ TimedWaitCleanedUp \/ OperationCompletes \/ Preempt \/ PreemptionSettles
           \/ Unwinds
  <2>1. UNCHANGED <<received, dropped, notify, queue, shown>> /\ cur' \in {cur, 0}
    BY <1>8 DEF AdmissionGranted, AdmissionDeferred, TimedWaitWakes, TimedWaitCleanedUp,
                OperationCompletes, Preempt, PreemptionSettles, Unwinds
  <2> QED BY <2>1, FreshFrame
<1>9. CASE \/ ChunkReceived \/ ChunkRefused \/ SttCompletes \/ SttFails \/ ResultSent
           \/ EnqueueRefused \/ Joined \/ ForeignSttStarts \/ ForeignSttEnds
           \/ UNCHANGED vars
  <2>1. UNCHANGED <<received, dropped, notify, queue, shown, cur>>
    BY <1>9 DEF ChunkReceived, ChunkRefused, SttCompletes, SttFails, ResultSent,
                EnqueueRefused, Joined, ForeignSttStarts, ForeignSttEnds, vars
  <2> QED BY <2>1, FreshFrame
<1> QED
  BY <1>1, <1>2, <1>3, <1>4, <1>5, <1>6, <1>7, <1>8, <1>9 DEF Next, Worker, Route

LEMMA ClosedInvStep ==
    ASSUME ClosedInv, [Next]_vars
    PROVE  ClosedInv'
<1> USE DEF ClosedInv, routeVars, workerVars
<1>1. CASE Worker
  <2>1. route' = route
    BY <1>1 DEF Worker, Dequeue, PublishRejection, AdmissionGranted, AdmissionDeferred,
                TimedWaitWakes, TimedWaitCleanedUp, PublishProcessing, OperationCompletes,
                Preempt, PreemptionSettles, PublishTerminal, Unwinds
  <2>2. worker # "ended"
    BY <1>1 DEF Worker, Dequeue, PublishRejection, AdmissionGranted, AdmissionDeferred,
                TimedWaitWakes, TimedWaitCleanedUp, PublishProcessing, OperationCompletes,
                Preempt, PreemptionSettles, PublishTerminal, Unwinds
  <2> QED BY <2>1, <2>2
<1>2. CASE Joined
  BY <1>2 DEF Joined
<1>3. CASE \/ ChunkReceived \/ ChunkRefused \/ SttCompletes \/ SttFails \/ ResultSent
           \/ Enqueue \/ EnqueueRefused \/ PublishDropped \/ Stop
  <2>1. route' # "closed"
    BY <1>3 DEF ChunkReceived, ChunkRefused, SttCompletes, SttFails, ResultSent, Enqueue,
                EnqueueRefused, PublishDropped, Stop, Resume
  <2> QED BY <2>1
<1>4. CASE ForeignSttStarts \/ ForeignSttEnds \/ UNCHANGED vars
  BY <1>4 DEF ForeignSttStarts, ForeignSttEnds, vars
<1> QED BY <1>1, <1>2, <1>3, <1>4 DEF Next, Route

LEMMA CellInvStep ==
    ASSUME TypeInv, AssistInv, CellInv, FreshInv, [Next]_vars
    PROVE  CellInv'
<1> USE DEF gateVars, routeVars, orchVars, workerVars
<1>1. CASE Dequeue
  <2>1. /\ worker = "idle" /\ queue # <<>> /\ cur' = Head(queue) /\ UNCHANGED shown
        /\ cap' \in Capabilities
    BY <1>1, FirstIn, ConstantsAssumption DEF Dequeue
  <2>2. cur' \in Segments /\ cur' > received - Len(queue)
    BY <2>1, QueueFacts DEF AssistInv, QueueInOrder, TypeInv, TypeOK, OrchTypeOK
  <2>3. \A c \in AllCapabilities : shown'[cur'][c] = "none"
    BY <2>1, <2>2 DEF FreshInv
  <2>4. \A s \in Segments, c \in AllCapabilities : shown'[s][c] # "processing"
    BY <2>1 DEF CellInv, Underway
  <2>5. worker' \in {"rejecting", "terminal", "admission", "processing"}
        /\ (worker' = "terminal" => update' = "unavailable")
    BY <1>1 DEF Dequeue
  <2>6. Later(cap)' \subseteq AllCapabilities /\ cap' \in AllCapabilities
        /\ "reply_coaching" \in AllCapabilities
    BY <2>1, ConstantsAssumption DEF Later, AllCapabilities
  <2> QED BY <2>3, <2>4, <2>5, <2>6 DEF CellInv
<1>2. CASE PublishRejection
  <2>1. worker = "rejecting" /\ worker' \in {"idle", "ended"} /\ cur \in Segments
        /\ "reply_coaching" \in AllCapabilities
    BY <1>2, AtCell DEF PublishRejection
  <2>2. \A s \in Segments, c \in AllCapabilities : shown[s][c] # "processing"
    BY <2>1 DEF CellInv, Underway
  <2>3. \A s \in Segments, c \in AllCapabilities : shown'[s][c] # "processing"
    <3>1. CASE Delivered(cur, "reply_coaching", "failed")
      BY <2>1, <2>2, <3>1, CellFrame DEF Delivered
    <3>2. CASE SinkFails
      BY <2>2, <3>2 DEF SinkFails
    <3> QED BY <1>2, <3>1, <3>2 DEF PublishRejection
  <2> QED BY <2>1, <2>3 DEF CellInv
<1>3. CASE PublishProcessing
  <2>1. /\ worker = "processing" /\ UNCHANGED cap
        /\ cur \in Segments /\ cap \in AllCapabilities
        /\ Later(cap) \subseteq AllCapabilities /\ cap \notin Later(cap)
    BY <1>3, AtCell DEF PublishProcessing
  <2>2. CASE Delivered(cur, cap, "processing")
    <3>a. shown' = [shown EXCEPT ![cur][cap] = "processing"]
      BY <2>2 DEF Delivered
    <3>1. /\ \A t \in Segments, d \in AllCapabilities :
                t # cur \/ d # cap => shown'[t][d] = shown[t][d]
          /\ shown'[cur][cap] = "processing"
      BY <2>1, <3>a DEF TypeInv, TypeOK
    <3>2. \A t \in Segments, d \in AllCapabilities :
             shown'[t][d] = "processing" => t = cur /\ d = cap
      BY <2>1, <3>1 DEF CellInv, Underway
    <3>3. CASE worker' = "ended"
      BY <3>3 DEF CellInv
    <3>4. CASE worker' \in {"terminal", "operation"}
      <4>1. cur' = cur
        BY <1>3, <3>4 DEF PublishProcessing
      <4>2. \A c \in Later(cap) : shown'[cur][c] = "none"
        BY <2>1, <3>1 DEF CellInv
      <4>3. Later(cap)' = Later(cap)
        BY <2>1 DEF Later
      <4>4. Underway'
        BY <3>4 DEF Underway
      <4> QED BY <2>1, <3>1, <3>2, <3>4, <4>1, <4>2, <4>3, <4>4 DEF CellInv
    <3>5. CASE worker' = "idle"
      <4>1. FALSE
        BY <1>3, <3>5 DEF PublishProcessing, AfterProcessing
      <4> QED BY <4>1
    <3>6. worker' \in {"ended", "terminal", "operation"}
      BY <1>3 DEF PublishProcessing, AfterProcessing
    <3> QED BY <3>3, <3>4, <3>6
  <2>3. CASE worker' = "ended"
    BY <2>3 DEF CellInv
  <2> QED BY <1>3, <2>2, <2>3 DEF PublishProcessing
<1>4. CASE PublishTerminal
  <2>1. /\ worker = "terminal" /\ cur \in Segments /\ cap \in AllCapabilities
        /\ Later(cap) \subseteq AllCapabilities /\ cap \notin Later(cap)
        /\ Later(cap) # {} => First(Later(cap)) \in Later(cap)
                              /\ Later(First(Later(cap))) \subseteq Later(cap)
    BY <1>4, AtCell DEF PublishTerminal
  <2>2. CASE worker' = "ended"
    BY <2>2 DEF CellInv
  <2>3. CASE worker' # "ended"
    <3>1. state' = "running" /\ worker' \in {"idle", "processing"}
      BY <1>4, <2>3 DEF PublishTerminal, Continue
    <3>2. Delivered(cur, cap, update)
      BY <1>4, <3>1 DEF PublishTerminal, SinkFails
    <3>a. shown' = [shown EXCEPT ![cur][cap] = update]
      BY <3>2 DEF Delivered
    <3>3. /\ \A t \in Segments, d \in AllCapabilities :
                t # cur \/ d # cap => shown'[t][d] = shown[t][d]
          /\ shown'[cur][cap] = update
      BY <2>1, <3>a DEF TypeInv, TypeOK
    <3>4. update # "processing"
      BY <2>1 DEF AssistInv, WorkerInv, Terminal
    <3>5. \A t \in Segments, d \in AllCapabilities : shown'[t][d] # "processing"
      BY <2>1, <3>3, <3>4 DEF CellInv
    <3>6. \A c \in Later(cap) : shown'[cur][c] = "none"
      BY <2>1, <3>3 DEF CellInv
    <3>7. CASE worker' = "idle"
      BY <3>5, <3>7 DEF CellInv
    <3>8. CASE worker' = "processing"
      <4>1. Later(cap) # {} /\ cap' = First(Later(cap)) /\ cur' = cur
        BY <1>4, <3>1, <3>8 DEF PublishTerminal, Continue
      <4>2. Later(cap)' = Later(First(Later(cap)))
        BY <4>1 DEF Later
      <4> QED BY <2>1, <3>5, <3>6, <3>8, <4>1, <4>2 DEF CellInv
    <3> QED BY <3>1, <3>7, <3>8
  <2> QED BY <2>2, <2>3
<1>5. CASE PublishDropped
  <2>1. /\ UNCHANGED <<worker, cur, cap, update>> /\ route = "dropping"
    BY <1>5 DEF PublishDropped
  <2>2. /\ dropped \in Segments /\ dropped # cur
        /\ First(notify) \in AllCapabilities
        /\ cap \in AllCapabilities /\ "reply_coaching" \in AllCapabilities
        /\ Later(cap) \subseteq AllCapabilities
        /\ worker \notin {"idle", "ended"} => cur \in Segments
    BY <2>1, AtCell
  <2>3. /\ \A t \in Segments, d \in AllCapabilities :
              t # dropped \/ d # First(notify) => shown'[t][d] = shown[t][d]
        /\ shown'[dropped][First(notify)] \in {"unavailable", shown[dropped][First(notify)]}
    <3>1. CASE Delivered(dropped, First(notify), "unavailable")
      BY <2>2, <3>1, CellFrame DEF Delivered
    <3>2. CASE SinkFails
      BY <3>2 DEF SinkFails
    <3> QED BY <1>5, <3>1, <3>2 DEF PublishDropped
  <2>4. \A t \in Segments, d \in AllCapabilities :
           shown'[t][d] = "processing" => shown[t][d] = "processing"
    <3> SUFFICES ASSUME NEW t \in Segments, NEW d \in AllCapabilities,
                        shown'[t][d] = "processing"
                 PROVE  shown[t][d] = "processing"
      OBVIOUS
    <3>1. CASE t # dropped \/ d # First(notify)
      BY <2>3, <3>1
    <3>2. CASE t = dropped /\ d = First(notify)
      BY <2>3, <3>2
    <3> QED BY <3>1, <3>2
  <2>5. worker \notin {"idle", "ended"} =>
           \A d \in AllCapabilities : shown'[cur][d] = shown[cur][d]
    BY <2>2, <2>3
  <2>6. Later(cap)' = Later(cap) /\ Underway' = Underway
    BY <2>1 DEF Later, Underway
  <2> QED BY <2>1, <2>2, <2>4, <2>5, <2>6 DEF CellInv
<1>6. CASE Stop
  <2>1. worker' = CancelledWorker /\ UNCHANGED <<cap, update>>
    BY <1>6 DEF Stop
  <2>2. CASE worker' = "ended"
    BY <2>2 DEF CellInv
  <2>3. CASE worker' # "ended"
    <3>1. /\ worker \in {"cleanup", "cancelling", "operation"}
          /\ worker' = IF worker = "operation" THEN "unwinding" ELSE worker
      BY <2>1, <2>3 DEF CancelledWorker
    <3>2. UNCHANGED <<shown, cur>>
      BY <1>6, <2>3, <3>1 DEF Stop, InFlight
    <3>3. Later(cap)' = Later(cap)
      BY <2>1 DEF Later
    <3>4. Underway' = Underway
      BY <3>1 DEF Underway
    <3> QED BY <2>1, <3>1, <3>2, <3>3, <3>4 DEF CellInv
  <2> QED BY <2>2, <2>3
<1>7. CASE \/ AdmissionGranted \/ AdmissionDeferred \/ TimedWaitWakes
           \/ TimedWaitCleanedUp
  <2>1. /\ UNCHANGED <<shown, cap>>
        /\ worker \in {"admission", "timed", "cleanup"}
    BY <1>7 DEF AdmissionGranted, AdmissionDeferred, TimedWaitWakes, TimedWaitCleanedUp
  <2>2. CASE worker' = "ended"
    BY <2>2 DEF CellInv
  <2>3. CASE worker' # "ended"
    <3>1. /\ UNCHANGED cur
          /\ worker' \in {"admission", "timed", "cleanup", "processing", "terminal"}
          /\ worker' = "terminal" => update' = "unavailable"
      BY <1>7, <2>3 DEF AdmissionGranted, AdmissionDeferred, TimedWaitWakes, TimedWaitCleanedUp
    <3>2. Later(cap)' = Later(cap)
      BY <2>1 DEF Later
    <3>3. \A s \in Segments, c \in AllCapabilities : shown'[s][c] # "processing"
      BY <2>1 DEF CellInv, Underway
    <3> QED BY <2>1, <3>1, <3>2, <3>3 DEF CellInv
  <2> QED BY <2>2, <2>3
<1>8. CASE OperationCompletes \/ Preempt \/ PreemptionSettles \/ Unwinds
  <2>1. /\ UNCHANGED <<shown, cap>>
        /\ worker \in {"operation", "cancelling", "unwinding"}
    BY <1>8 DEF OperationCompletes, Preempt, PreemptionSettles, Unwinds
  <2>2. CASE worker' = "ended"
    BY <2>2 DEF CellInv
  <2>3. CASE worker' # "ended"
    <3>1. /\ UNCHANGED cur /\ worker \in {"operation", "cancelling"}
          /\ worker' \in {"terminal", "cancelling"}
      BY <1>8, <2>3 DEF OperationCompletes, Preempt, PreemptionSettles, Unwinds
    <3>2. Later(cap)' = Later(cap)
      BY <2>1 DEF Later
    <3>3. Underway /\ Underway'
      BY <3>1 DEF Underway
    <3> QED BY <2>1, <3>1, <3>2, <3>3 DEF CellInv
  <2> QED BY <2>2, <2>3
<1>9. CASE \/ ChunkReceived \/ ChunkRefused \/ SttCompletes \/ SttFails \/ ResultSent
           \/ Enqueue \/ EnqueueRefused \/ Joined \/ ForeignSttStarts \/ ForeignSttEnds
           \/ UNCHANGED vars
  <2>1. UNCHANGED <<shown, worker, cur, cap, update>>
    BY <1>9 DEF ChunkReceived, ChunkRefused, SttCompletes, SttFails, ResultSent, Enqueue,
                EnqueueRefused, Joined, ForeignSttStarts, ForeignSttEnds, vars
  <2>2. Later(cap)' = Later(cap) /\ Underway' = Underway
    BY <2>1 DEF Later, Underway
  <2> QED BY <2>1, <2>2 DEF CellInv
<1> QED
  BY <1>1, <1>2, <1>3, <1>4, <1>5, <1>6, <1>7, <1>8, <1>9 DEF Next, Worker, Route

LEMMA DisplayInvCorrect == Spec => [](TypeInv /\ AssistInv /\ DisplayInv)
<1>1. TypeInv /\ AssistInv /\ DisplayInv /\ [Next]_vars
         => (TypeInv /\ AssistInv /\ DisplayInv)'
  <2> SUFFICES ASSUME TypeInv, AssistInv, DisplayInv, [Next]_vars
               PROVE  TypeInv' /\ AssistInv' /\ DisplayInv'
    OBVIOUS
  <2>1. TypeInv' /\ AssistInv'
    BY AssistInvStep
  <2>2. CellInv' /\ FreshInv' /\ ClosedInv'
    BY <2>1, CellInvStep, FreshInvStep, ClosedInvStep DEF DisplayInv
  <2> QED BY <2>1, <2>2 DEF DisplayInv
<1> QED BY <1>1, InitTypeInv, InitAssistInv, InitDisplayInv, PTL DEF Spec

(* A session shows its client only what AssistDisplay promises, for every  *)
(* set of capabilities and every interleaving of worker, handler, failing  *)
(* sink, stop and foreign STT: one cell at a time is processing, in        *)
(* transcript order, every cell ends at most once, and nothing moves after *)
(* the session is closed.                                                  *)
THEOREM DisplaySpecCorrect == Spec => DisplaySpec
<1>1. Init => Display!Init
  BY DEF Init, Display!Init
<1>2. TypeInv /\ AssistInv /\ DisplayInv /\ [Next]_vars => [Display!Next]_(Display!vars)
  BY DisplayStep
<1> QED BY <1>1, <1>2, DisplayInvCorrect, PTL DEF Spec, DisplaySpec, Display!Spec
=============================================================================
