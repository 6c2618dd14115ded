-------------------------- MODULE PriorityGate_proof --------------------------
(***************************************************************************)
(* Proofs about PriorityGate, for any number of sessions, any history and  *)
(* any estimates: no wake-up is lost, a session is deferred at most once   *)
(* per STT start, and the forecast keeps what it promises a steady speaker.*)
(***************************************************************************)
EXTENDS PriorityGate, Extrema

PcStates    == {"idle", "asking", "busy", "backlog", "timed", "admitted", "translating"}
WatchStates == {"none", "new", "waiting", "woken", "fired"}

(* The part of the type invariant the argument needs.                      *)
Shape ==
    /\ active \in Nat /\ gen \in Nat
    /\ pc \in [Sessions -> PcStates]
    /\ watch \in [Sessions -> WatchStates]
    /\ watched \in [Sessions -> Nat]

(* Only a session that races its watcher has one.                          *)
OwnWatcher ==
    \A s \in Sessions : watch[s] # "none" => pc[s] \in {"timed", "translating"}

WakeInv == Shape /\ OwnWatcher /\ NoStartMissed /\ NoWakeupLost

LEMMA InitWakeInv == Init => WakeInv
BY DEF Init, WakeInv, Shape, OwnWatcher, NoStartMissed, NoWakeupLost, PcStates, WatchStates

(* Setting the activity event leaves no watcher asleep.                    *)
LEMMA SignalWakes ==
    ASSUME WakeInv, SignalActivity
    PROVE  /\ watch' \in [Sessions -> WatchStates]
           /\ \A s \in Sessions : watch'[s] # "waiting"
           /\ \A s \in Sessions : watch'[s] # "none" => watch[s] # "none"
BY DEF WakeInv, Shape, SignalActivity, Woken, WatchStates

(* Setting another event leaves no session suspended on it.                *)
LEMMA ReleasedLeaves ==
    ASSUME WakeInv, NEW where \in {"busy", "backlog"}
    PROVE  /\ Released(where) \in [Sessions -> PcStates]
           /\ \A s \in Sessions : Released(where)[s] # where
           /\ \A s \in Sessions :
                 Released(where)[s] # pc[s] => pc[s] = where /\ Released(where)[s] = "asking"
BY DEF WakeInv, Shape, Released, PcStates

LEMMA SttStartedStep == WakeInv /\ SttStarted => WakeInv'
<1> SUFFICES ASSUME WakeInv, SttStarted PROVE WakeInv'
  OBVIOUS
<1>1. SignalActivity /\ UNCHANGED <<pc, watched, backlog>> /\ active' = active + 1 /\ gen' = gen + 1
  BY DEF SttStarted, StartSignal, sessionVars
<1>2. Shape'
  BY <1>1, SignalWakes DEF WakeInv, Shape
<1>3. OwnWatcher'
  BY <1>1, SignalWakes DEF WakeInv, OwnWatcher
<1>4. NoStartMissed'
  BY SignalWakes, <1>1 DEF NoStartMissed
<1>5. NoWakeupLost'
  BY <1>1 DEF WakeInv, Shape, NoWakeupLost
<1> QED BY <1>2, <1>3, <1>4, <1>5 DEF WakeInv

LEMMA SttFinishedStep == WakeInv /\ SttFinished => WakeInv'
<1> SUFFICES ASSUME WakeInv, SttFinished PROVE WakeInv'
  OBVIOUS
<1>1. /\ SignalActivity /\ UNCHANGED <<gen, watched, backlog>>
      /\ active > 0 /\ active' = active - 1
      /\ pc' = IF active = 1 THEN Released("busy") ELSE pc
  BY DEF SttFinished, IdleReleases
<1>2. pc' \in [Sessions -> PcStates]
  BY <1>1, ReleasedLeaves DEF WakeInv, Shape
<1>3. \A s \in Sessions : pc'[s] # pc[s] => pc[s] = "busy" /\ pc'[s] = "asking"
  BY <1>1, ReleasedLeaves
<1>4. Shape'
  BY <1>1, <1>2, SignalWakes DEF WakeInv, Shape
<1>5. OwnWatcher'
  BY <1>1, <1>3, SignalWakes DEF WakeInv, OwnWatcher
<1>6. NoStartMissed'
  BY SignalWakes, <1>1 DEF NoStartMissed
<1>7. NoWakeupLost'
  <2>1. CASE active = 1
    BY <1>1, <1>3, <2>1, ReleasedLeaves DEF WakeInv, NoWakeupLost
  <2>2. CASE active # 1
    BY <1>1, <2>2 DEF WakeInv, Shape, NoWakeupLost
  <2> QED BY <2>1, <2>2
<1> QED BY <1>4, <1>5, <1>6, <1>7 DEF WakeInv

LEMMA SetUpstreamPendingStep == WakeInv /\ SetUpstreamPending => WakeInv'
<1> SUFFICES ASSUME WakeInv, NEW b \in BOOLEAN, backlog' = b,
                    pc' = (IF b THEN pc ELSE Released("backlog")),
                    UNCHANGED <<active, gen, activity, watchVars>>
             PROVE  WakeInv'
  BY DEF SetUpstreamPending
<1>1. pc' \in [Sessions -> PcStates]
  BY ReleasedLeaves DEF WakeInv, Shape
<1>2. \A s \in Sessions : pc'[s] # pc[s] => pc[s] = "backlog" /\ pc'[s] = "asking"
  BY ReleasedLeaves
<1>3. Shape'
  BY <1>1 DEF WakeInv, Shape, watchVars
<1>4. OwnWatcher'
  BY <1>2 DEF WakeInv, OwnWatcher, watchVars
<1>5. NoStartMissed'
  BY DEF WakeInv, NoStartMissed, watchVars
<1>6. NoWakeupLost'
  BY <1>2, ReleasedLeaves DEF WakeInv, NoWakeupLost
<1> QED BY <1>3, <1>4, <1>5, <1>6 DEF WakeInv

(* The steps of one session: its own pc and watcher, nobody else's.        *)
LEMMA SessionStep ==
    ASSUME WakeInv, NEW s \in Sessions, Ask(s) \/ Finish(s) \/ Session(s)
    PROVE  WakeInv'
<1> USE DEF gateVars, watchVars
<1>1. CASE Ask(s) \/ WaitsForIdle(s) \/ WaitsForBacklog(s)
  <2>1. /\ pc' \in [Sessions -> PcStates]
        /\ UNCHANGED <<active, gen, backlog, activity, watch, watched>>
        /\ pc[s] \in {"idle", "asking"}
        /\ \A t \in Sessions \ {s} : pc'[t] = pc[t]
        /\ pc'[s] = "busy" => active > 0
        /\ pc'[s] = "backlog" => backlog
    BY <1>1 DEF Ask, WaitsForIdle, WaitsForBacklog, WakeInv, Shape, PcStates
  <2> QED BY <2>1 DEF WakeInv, Shape, OwnWatcher, NoStartMissed, NoWakeupLost
<1>2. CASE Admit(s) \/ Defer(s)
  <2>1. /\ pc' \in [Sessions -> PcStates]
        /\ watch' \in [Sessions -> WatchStates]
        /\ watched' \in [Sessions -> Nat]
        /\ UNCHANGED <<active, gen, backlog, activity>>
        /\ \A t \in Sessions \ {s} : pc'[t] = pc[t] /\ watch'[t] = watch[t]
                                       /\ watched'[t] = watched[t]
    BY <1>2 DEF Admit, Defer, WakeInv, Shape, PcStates, WatchStates
  <2>2. /\ pc[s] = "asking" /\ pc'[s] \in {"admitted", "timed"}
        /\ watch'[s] \in {watch[s], "new"}
        /\ pc'[s] = "admitted" => watch'[s] = watch[s]
    BY <1>2 DEF Admit, Defer, WakeInv, Shape
  <2>3. watch[s] = "none"
    BY <2>2 DEF WakeInv, OwnWatcher
  <2> QED BY <2>1, <2>2, <2>3 DEF WakeInv, Shape, OwnWatcher, NoStartMissed, NoWakeupLost
<1>3. CASE DeferralEnds(s) \/ Begin(s) \/ Finish(s) \/ Preempt(s)
  <2>1. /\ pc' \in [Sessions -> PcStates]
        /\ watch' \in [Sessions -> WatchStates]
        /\ UNCHANGED <<active, gen, backlog, activity, watched>>
        /\ \A t \in Sessions \ {s} : pc'[t] = pc[t] /\ watch'[t] = watch[t]
    BY <1>3 DEF DeferralEnds, Begin, Finish, Preempt, WakeInv, Shape, PcStates, WatchStates
  <2>2. /\ pc'[s] \in {"idle", "asking", "translating"}
        /\ pc'[s] = "translating" \/ watch'[s] = "none"
        /\ watch'[s] \in {"none", "new"}
    BY <1>3 DEF DeferralEnds, Begin, Finish, Preempt, WakeInv, Shape, OwnWatcher
  <2> QED BY <2>1, <2>2 DEF WakeInv, Shape, OwnWatcher, NoStartMissed, NoWakeupLost
<1>4. CASE Watch(s)
  <2>1. /\ UNCHANGED <<active, gen, backlog, pc, watched>>
        /\ watch' \in [Sessions -> WatchStates]
        /\ \A t \in Sessions \ {s} : watch'[t] = watch[t]
        /\ watch[s] # "none"
        /\ activity' \in {activity, FALSE}
    BY <1>4 DEF Watch, WakeInv, Shape, WatchStates, sessionVars
  <2>2. watch'[s] = "waiting" => gen = watched[s] /\ ~activity'
    BY <1>4 DEF Watch, WakeInv, Shape
  <2>3. Shape' /\ OwnWatcher' /\ NoWakeupLost'
    BY <2>1 DEF WakeInv, Shape, OwnWatcher, NoWakeupLost
  <2>4. ASSUME NEW t \in Sessions, watch'[t] = "waiting"
        PROVE  gen' = watched'[t] /\ ~activity'
    <3>1. CASE t = s
      BY <2>1, <2>2, <2>4, <3>1
    <3>2. CASE t # s
      <4>1. gen = watched[t] /\ ~activity
        BY <2>1, <2>4, <3>2 DEF WakeInv, NoStartMissed
      <4>2. gen' = watched'[t]
        BY <2>1, <4>1
      <4>3. ~activity'
        BY <2>1, <4>1, Zenon
      <4> QED BY <4>2, <4>3
    <3> QED BY <3>1, <3>2
  <2> QED BY <2>3, <2>4 DEF WakeInv, NoStartMissed
<1> QED BY <1>1, <1>2, <1>3, <1>4 DEF Session

LEMMA WakeInvStep == WakeInv /\ [Next]_vars => WakeInv'
<1> SUFFICES ASSUME WakeInv, [Next]_vars PROVE WakeInv'
  OBVIOUS
<1>1. CASE Tick \/ UNCHANGED vars
  <2>1. UNCHANGED <<active, gen, backlog, activity, pc, watch, watched>>
    BY <1>1 DEF Tick, vars, gateVars, sessionVars, watchVars
  <2> QED BY <2>1 DEF WakeInv, Shape, OwnWatcher, NoStartMissed, NoWakeupLost
<1> QED
  BY <1>1, SttStartedStep, SttFinishedStep, SetUpstreamPendingStep, SessionStep DEF Next

(* Every watcher hears of every STT start, although the watchers clear the *)
(* event they share.                                                       *)
THEOREM NoStartMissedCorrect == Spec => []NoStartMissed
<1>1. WakeInv => NoStartMissed
  BY DEF WakeInv
<1> QED BY <1>1, InitWakeInv, WakeInvStep, PTL DEF Spec

(* No session stays suspended on an idle or backlog event that is set.     *)
THEOREM NoWakeupLostCorrect == Spec => []NoWakeupLost
<1>1. WakeInv => NoWakeupLost
  BY DEF WakeInv
<1> QED BY <1>1, InitWakeInv, WakeInvStep, PTL DEF Spec

(* No wake-up of the gate is lost, for any number of sessions: neither on   *)
(* the event they share nor on the idle and the backlog event.             *)
THEOREM WakeupsCorrect == Spec => []Wakeups
<1>1. WakeInv => Wakeups
  BY DEF WakeInv, Wakeups
<1> QED BY <1>1, InitWakeInv, WakeInvStep, PTL DEF Spec

(***************************************************************************)
(* The forecast.                                                           *)
(***************************************************************************)
IntervalType ==
    /\ intervals \in Seq(1..MaxInterval) /\ Len(intervals) <= History
    /\ since \in -1..Horizon

LEMMA HorizonBounds ==
    /\ Horizon \in Nat
    /\ \A e \in Estimates : e \in Nat \ {0} /\ 2 * MaxInterval + e <= Horizon
<1>1. MaxOf(Estimates) \in Nat /\ \A e \in Estimates : e <= MaxOf(Estimates)
  BY ConstantsAssumption, MaxIsGreatest DEF MaxOf
<1> QED BY <1>1, ConstantsAssumption DEF Horizon

(* Shortest and Longest are the ends of what has been observed.            *)
LEMMA ObservedBounds ==
    ASSUME IntervalType, intervals # <<>>
    PROVE  /\ Shortest \in 1..MaxInterval /\ Longest \in 1..MaxInterval
           /\ Shortest \in Observed /\ Longest \in Observed
           /\ \A x \in Observed : x \in 1..MaxInterval /\ Shortest <= x /\ x <= Longest
<1>1. \A i \in 1..Len(intervals) : intervals[i] \in 1..MaxInterval
  <2> DEFINE I == 1..MaxInterval
  <2>1. intervals \in Seq(I)
    BY DEF IntervalType
  <2> HIDE DEF I
  <2>2. \A i \in 1..Len(intervals) : intervals[i] \in I
    BY <2>1
  <2> QED BY <2>2 DEF I
<1>2. Observed \in SUBSET (1..MaxInterval)
  BY <1>1 DEF Observed
<1>3. Observed # {}
  <2>1. 1 \in 1..Len(intervals)
    BY DEF IntervalType
  <2> QED BY <2>1 DEF Observed
<1>4. IsFiniteSet(Observed)
  <2>1. MaxInterval \in Int /\ 1 \in Int
    BY ConstantsAssumption
  <2>2. IsFiniteSet(1..MaxInterval)
    BY <2>1, FS_Interval
  <2> QED BY <1>2, <2>2, FS_Subset
<1>5. Observed \in SUBSET Nat
  BY <1>2, ConstantsAssumption
<1>6. Shortest \in Observed /\ \A x \in Observed : Shortest <= x
  BY <1>3, <1>5, MinIsLeast DEF Shortest
<1>7. Longest \in Observed /\ \A x \in Observed : x <= Longest
  BY <1>3, <1>4, <1>5, MaxIsGreatest DEF Longest
<1> QED BY <1>2, <1>6, <1>7

(* The boundary of an extended idle lies behind the longest interval and   *)
(* within the horizon of the clock.                                        *)
LEMMA BoundaryBounds ==
    ASSUME IntervalType, intervals # <<>>, NEW e \in Estimates
    PROVE  /\ Boundary(e) \in Nat
           /\ Longest + e <= Boundary(e) /\ Longest < Boundary(e)
           /\ Boundary(e) <= Horizon
<1>1. /\ Shortest \in 1..MaxInterval /\ Longest \in 1..MaxInterval /\ Shortest <= Longest
      /\ e \in Nat \ {0} /\ 2 * MaxInterval + e <= Horizon /\ Horizon \in Nat
      /\ MaxInterval \in Nat
  BY ObservedBounds, HorizonBounds, ConstantsAssumption
<1>2. Margin(e) = IF Longest - Shortest >= e THEN Longest - Shortest ELSE e
  BY <1>1, MaxOfTwo DEF Margin
<1> QED BY <1>1, <1>2 DEF Boundary

(* What an admission that is not held up by a backlog says.                *)
LEMMA AdmissionSays ==
    ASSUME IntervalType, ~backlog, NEW e \in Estimates \cup {None}
    PROVE  LET a == Admission(e) IN
           /\ a.reason \in {"probe", "predicted_window", "extended_idle"}
           /\ a.wait \in 0..Horizon
           /\ a.wait > 0 => /\ e \in Estimates /\ since \in Nat /\ intervals # <<>>
                            /\ since + a.wait = Boundary(e)
           /\ a.reason = "extended_idle" =>
                 e \in Estimates /\ intervals # <<>> /\ since >= Boundary(e)
           /\ a.reason = "predicted_window" /\ a.wait = 0 =>
                 /\ e \in Estimates /\ since \in Nat /\ intervals # <<>>
                 /\ since + e <= Shortest \/ since >= Boundary(e)
<1> DEFINE a == Admission(e)
<1>1. None \notin Estimates /\ Horizon \in Nat
  BY HorizonBounds DEF None
<1>2. since \in -1..Horizon
  BY DEF IntervalType
<1>3. CASE e = None \/ since = -1 \/ intervals = <<>>
  <2>1. a = [reason |-> "probe", wait |-> 0]
    BY <1>3 DEF Admission
  <2> QED BY <1>1, <2>1
<1>4. CASE ~(e = None \/ since = -1 \/ intervals = <<>>)
  <2>1. /\ e \in Estimates /\ e \in Nat /\ since \in Nat /\ intervals # <<>>
        /\ Shortest \in Nat /\ Boundary(e) \in Nat /\ Boundary(e) <= Horizon
    BY <1>2, <1>4, ObservedBounds, BoundaryBounds, HorizonBounds, ConstantsAssumption
  <2>2. /\ WaitFor(e) = IF 0 >= Boundary(e) - since THEN 0 ELSE Boundary(e) - since
        /\ IdleWindow = IF 0 >= Shortest - since THEN 0 ELSE Shortest - since
    BY <2>1, MaxOfTwo DEF WaitFor, IdleWindow
  <2>3. CASE since >= Shortest /\ since >= Boundary(e)
    <3>1. a = [reason |-> "extended_idle", wait |-> 0]
      BY <1>4, <2>3 DEF Admission
    <3> QED BY <1>1, <2>1, <2>3, <3>1
  <2>4. CASE ~(since >= Shortest /\ since >= Boundary(e)) /\ IdleWindow >= e
    <3>1. a = [reason |-> "predicted_window", wait |-> 0]
      BY <1>4, <2>4 DEF Admission
    <3>2. since + e <= Shortest
      BY <2>1, <2>2, <2>4, HorizonBounds
    <3> QED BY <1>1, <2>1, <3>1, <3>2
  <2>5. CASE ~(since >= Shortest /\ since >= Boundary(e)) /\ ~(IdleWindow >= e)
    <3>1. a = [reason |-> "predicted_window", wait |-> WaitFor(e)]
      BY <1>4, <2>5 DEF Admission
    <3> QED BY <1>1, <2>1, <2>2, <3>1
  <2> QED BY <2>3, <2>4, <2>5
<1> QED BY <1>3, <1>4

(* Past the boundary nothing is deferred.                                  *)
LEMMA PastBoundary ==
    ASSUME IntervalType, ~backlog, NEW e \in Estimates, intervals # <<>>, since >= Boundary(e)
    PROVE  Admission(e).wait = 0
<1>1. /\ e # None /\ since \in Int /\ Boundary(e) \in Nat /\ Longest < Boundary(e)
      /\ Longest \in Nat /\ Shortest \in Nat /\ Shortest <= Longest
  BY HorizonBounds, BoundaryBounds, ObservedBounds, ConstantsAssumption DEF None, IntervalType
<1>2. since # -1 /\ since >= Shortest
  BY <1>1
<1> QED BY <1>1, <1>2 DEF Admission

(***************************************************************************)
(* Types.                                                                  *)
(***************************************************************************)
LEMMA TypeHasShape == TypeOK => IntervalType
BY DEF TypeOK, IntervalType

LEMMA InitTypeOK == Init => TypeOK
<1> SUFFICES ASSUME Init PROVE TypeOK
  OBVIOUS
<1>1. Horizon \in Nat
  BY HorizonBounds
<1>2. /\ 0 \in 0..Horizon /\ -1 \in -1..Horizon
      /\ 0 \in 0..MaxStarts /\ -1 \in -1..MaxStarts /\ 0 \in 0..MaxActive
  BY <1>1, ConstantsAssumption
<1>3. <<>> \in Seq(1..MaxInterval) /\ Len(<<>>) = 0 /\ 0 <= History
  BY ConstantsAssumption
<1> QED BY <1>2, <1>3 DEF Init, TypeOK

LEMMA RecordedType ==
    ASSUME TypeOK, since <= MaxInterval
    PROVE  Recorded \in Seq(1..MaxInterval) /\ Len(Recorded) <= History
<1> DEFINE all == Append(intervals, since)
<1>1. intervals \in Seq(1..MaxInterval) /\ Len(intervals) <= History /\ since \in Int
      /\ History \in Nat \ {0}
  BY HorizonBounds, ConstantsAssumption DEF TypeOK
<1>2. CASE since > 0
  <2>1. since \in 1..MaxInterval
    BY <1>1, <1>2, ConstantsAssumption
  <2>2. all \in Seq(1..MaxInterval) /\ Len(all) = Len(intervals) + 1 /\ all # <<>>
    BY <1>1, <2>1
  <2>3. Tail(all) \in Seq(1..MaxInterval) /\ Len(Tail(all)) = Len(all) - 1
    BY <2>2
  <2>4. Recorded = IF Len(all) > History THEN Tail(all) ELSE all
    BY <1>1, <1>2 DEF Recorded, Trimmed
  <2>5. Len(intervals) \in Nat
    BY <1>1
  <2> HIDE DEF all
  <2>6. CASE Len(all) > History
    BY <1>1, <2>2, <2>3, <2>4, <2>5, <2>6
  <2>7. CASE ~(Len(all) > History)
    BY <1>1, <2>2, <2>4, <2>5, <2>7
  <2> QED BY <2>6, <2>7
<1> QED BY <1>1, <1>2 DEF Recorded

LEMMA TypeStep == TypeOK /\ [Next]_vars => TypeOK'
<1> SUFFICES ASSUME TypeOK, [Next]_vars PROVE TypeOK'
  OBVIOUS
<1> USE DEF gateVars, sessionVars, watchVars
<1>1. Horizon \in Nat /\ MaxStarts \in Nat /\ MaxActive \in Nat
  BY HorizonBounds, ConstantsAssumption
<1>2. CASE SttStarted
  <2>1. intervals' \in Seq(1..MaxInterval) /\ Len(intervals') <= History
    BY <1>2, RecordedType DEF SttStarted
  <2>2. active' \in 0..MaxActive /\ gen' \in 0..MaxStarts /\ since' \in -1..Horizon
    BY <1>1, <1>2 DEF SttStarted, TypeOK
  <2>3. activity' \in BOOLEAN /\ watch' \in [Sessions -> WatchStates]
    BY <1>2 DEF SttStarted, StartSignal, SignalActivity, Woken, TypeOK, WatchStates
  <2> QED BY <1>2, <2>1, <2>2, <2>3 DEF SttStarted, TypeOK, WatchStates
<1>3. CASE SttFinished
  <2>1. active' \in 0..MaxActive
    BY <1>1, <1>3 DEF SttFinished, TypeOK
  <2>2. pc' \in [Sessions -> PcStates]
    BY <1>3 DEF SttFinished, IdleReleases, Released, TypeOK, PcStates
  <2>3. activity' \in BOOLEAN /\ watch' \in [Sessions -> WatchStates]
    BY <1>3 DEF SttFinished, SignalActivity, Woken, TypeOK, WatchStates
  <2> QED BY <1>3, <2>1, <2>2, <2>3 DEF SttFinished, TypeOK, PcStates, WatchStates
<1>4. CASE SetUpstreamPending
  <2>1. pc' \in [Sessions -> PcStates]
    BY <1>4 DEF SetUpstreamPending, Released, TypeOK, PcStates
  <2> QED BY <1>4, <2>1 DEF SetUpstreamPending, TypeOK, PcStates
<1>5. CASE Tick
  <2>1. since' \in -1..Horizon
    BY <1>1, <1>5 DEF Tick, TypeOK
  <2>2. left' \in [Sessions -> 0..Horizon]
    BY <1>1, <1>5 DEF Tick, Passed, TypeOK
  <2> QED BY <1>5, <2>1, <2>2 DEF Tick, TypeOK
<1>6. ASSUME NEW s \in Sessions, Ask(s) \/ Finish(s) \/ Session(s)
      PROVE  TypeOK'
  <2>1. CASE Ask(s) \/ WaitsForIdle(s) \/ WaitsForBacklog(s)
    <3>1. -1 \in -1..MaxStarts
      BY <1>1
    <3>2. pc' \in [Sessions -> PcStates]
      BY <2>1 DEF Ask, WaitsForIdle, WaitsForBacklog, TypeOK, PcStates
    <3>3. est' \in [Sessions -> Estimates \cup {None}]
      BY <2>1 DEF Ask, WaitsForIdle, WaitsForBacklog, TypeOK
    <3>4. armed' \in [Sessions -> -1..MaxStarts]
      BY <2>1, <3>1 DEF Ask, WaitsForIdle, WaitsForBacklog, TypeOK
    <3>5. UNCHANGED <<gateVars, reason, left, watchVars>>
      BY <2>1 DEF Ask, WaitsForIdle, WaitsForBacklog
    <3> QED BY <3>2, <3>3, <3>4, <3>5 DEF TypeOK, PcStates
  <2>2. CASE Admit(s)
    <3>1. Admission(est[s]).reason \in {"probe", "predicted_window", "extended_idle"}
      BY <2>2, AdmissionSays, TypeHasShape DEF Admit, TypeOK
    <3> QED BY <2>2, <3>1 DEF Admit, TypeOK
  <2>3. CASE Defer(s)
    <3>1. Admission(est[s]).wait \in 0..Horizon
      BY <2>3, AdmissionSays, TypeHasShape DEF Defer, TypeOK
    <3>2. gen \in -1..MaxStarts
      BY <1>1 DEF TypeOK
    <3> QED BY <2>3, <3>1, <3>2 DEF Defer, TypeOK
  <2>4. CASE Begin(s)
    <3>1. est[s] \in 0..Horizon
      <4>1. est[s] \in Estimates \cup {None}
        BY DEF TypeOK
      <4>2. MaxInterval \in Nat
        BY ConstantsAssumption
      <4> QED BY <1>1, <4>1, <4>2, HorizonBounds DEF None
    <3> QED BY <2>4, <3>1 DEF Begin, TypeOK
  <2>5. CASE DeferralEnds(s) \/ Finish(s) \/ Preempt(s)
    BY <2>5 DEF DeferralEnds, Finish, Preempt, TypeOK
  <2>6. CASE Watch(s)
    BY <2>6 DEF Watch, TypeOK
  <2> QED BY <1>6, <2>1, <2>2, <2>3, <2>4, <2>5, <2>6 DEF Session
<1>7. CASE UNCHANGED vars
  BY <1>7 DEF vars, TypeOK
<1> QED BY <1>2, <1>3, <1>4, <1>5, <1>6, <1>7 DEF Next

(* Every variable stays in its range, for every step of the gate and its   *)
(* sessions: the forecast never asks for a wait beyond the horizon.        *)
THEOREM TypeCorrect == Spec => []TypeOK
<1> QED BY InitTypeOK, TypeStep, PTL DEF Spec


(***************************************************************************)
(* A session is deferred at most once per STT start.                       *)
(***************************************************************************)
Waiting == {"timed", "asking", "busy", "backlog"}

(* Generations only look back, a deferral's watcher is its own, and until  *)
(* the next STT start a deferred session has or will have reached the      *)
(* boundary when it asks again.                                            *)
Deferral(s) ==
    /\ watched[s] <= gen /\ armed[s] <= gen
    /\ watch[s] = "fired" => gen # watched[s]
    /\ pc[s] = "timed" => watched[s] = armed[s]
    /\ armed[s] = gen /\ pc[s] \in Waiting =>
          /\ est[s] \in Estimates /\ intervals # <<>> /\ since \in Nat
          /\ pc[s] = "timed" => since + left[s] >= Boundary(est[s])
          /\ pc[s] # "timed" => since >= Boundary(est[s])

DeferInv == TypeOK /\ WakeInv /\ \A s \in Sessions : Deferral(s)

LEMMA InitDeferInv == Init => DeferInv
<1> SUFFICES ASSUME Init PROVE DeferInv
  OBVIOUS
<1>1. \A s \in Sessions : Deferral(s)
  BY DEF Init, Deferral
<1> QED BY <1>1, InitTypeOK, InitWakeInv DEF DeferInv

LEMMA BoundaryIsTheirs ==
    ASSUME intervals' = intervals, NEW e
    PROVE  Boundary(e)' = Boundary(e)
BY DEF Boundary, Margin, Longest, Shortest, Observed

LEMMA SttStartedDefers ==
    ASSUME DeferInv, SttStarted, NEW s \in Sessions
    PROVE  Deferral(s)'
<1>1. gen' = gen + 1 /\ UNCHANGED <<pc, armed, watched>> /\ SignalActivity /\ gen \in Nat
  BY DEF SttStarted, StartSignal, sessionVars, DeferInv, TypeOK
<1>2. watch'[s] = "fired" => watch[s] = "fired"
  BY <1>1 DEF SignalActivity, Woken, DeferInv, TypeOK
<1>3. watched[s] \in Int /\ armed[s] \in Int /\ watched[s] <= gen /\ armed[s] <= gen
  BY ConstantsAssumption DEF DeferInv, TypeOK, Deferral
<1>4. pc[s] = "timed" => watched[s] = armed[s]
  BY DEF DeferInv, Deferral
<1> QED BY <1>1, <1>2, <1>3, <1>4 DEF Deferral

(* Events of the gate that leave the forecast alone.                       *)
LEMMA EventDefers ==
    ASSUME DeferInv, SttFinished \/ SetUpstreamPending, NEW s \in Sessions
    PROVE  Deferral(s)'
<1>1. UNCHANGED <<gen, since, intervals, est, left, armed, watched>>
  BY DEF SttFinished, SetUpstreamPending, watchVars
<1>2. watch'[s] = "fired" => watch[s] = "fired"
  BY DEF SttFinished, SetUpstreamPending, SignalActivity, Woken, DeferInv, TypeOK, watchVars
<1>3. \/ pc'[s] = pc[s]
      \/ pc[s] \in {"busy", "backlog"} /\ pc'[s] = "asking"
  BY DEF SttFinished, SetUpstreamPending, IdleReleases, Released, DeferInv, TypeOK
<1>4. Boundary(est[s])' = Boundary(est[s])
  BY <1>1 DEF Boundary, Margin, Longest, Shortest, Observed
<1>5. Deferral(s)
  BY DEF DeferInv
<1> QED BY <1>1, <1>2, <1>3, <1>4, <1>5 DEF Deferral, Waiting

LEMMA TickDefers ==
    ASSUME DeferInv, Tick, NEW s \in Sessions
    PROVE  Deferral(s)'
<1>1. UNCHANGED <<gen, intervals, est, armed, pc, watch, watched>>
  BY DEF Tick, watchVars
<1>2. Boundary(est[s])' = Boundary(est[s])
  BY <1>1 DEF Boundary, Margin, Longest, Shortest, Observed
<1>3. Deferral(s)
  BY DEF DeferInv
<1>4. ASSUME armed[s] = gen, pc[s] \in Waiting
      PROVE  /\ since' \in Nat
             /\ pc[s] = "timed" => since' + left'[s] >= Boundary(est[s])
             /\ pc[s] # "timed" => since' >= Boundary(est[s])
  <2>1. /\ est[s] \in Estimates /\ intervals # <<>> /\ since \in Nat /\ since <= Horizon
        /\ Boundary(est[s]) \in Nat /\ Boundary(est[s]) <= Horizon /\ Horizon \in Nat
        /\ left[s] \in Nat
    BY <1>3, <1>4, BoundaryBounds, HorizonBounds, TypeHasShape
       DEF Deferral, DeferInv, TypeOK, IntervalType
  <2>2. /\ since' = IF since < Horizon THEN since + 1 ELSE since
        /\ left'[s] = IF left[s] > 0 THEN left[s] - 1 ELSE 0
    BY <2>1 DEF Tick, Passed
  <2>3. /\ pc[s] = "timed" => since + left[s] >= Boundary(est[s])
        /\ pc[s] # "timed" => since >= Boundary(est[s])
    BY <1>3, <1>4 DEF Deferral
  <2> QED BY <2>1, <2>2, <2>3
<1> QED BY <1>1, <1>2, <1>3, <1>4 DEF Deferral

(* A session that asks again past its boundary is not deferred.            *)
LEMMA NotDeferredAgain ==
    ASSUME DeferInv, NEW s \in Sessions, Defer(s)
    PROVE  armed[s] # gen
<1> SUFFICES ASSUME armed[s] = gen PROVE FALSE
  OBVIOUS
<1>1. pc[s] = "asking" /\ ~backlog /\ Admission(est[s]).wait > 0
  BY DEF Defer
<1>2. est[s] \in Estimates /\ intervals # <<>> /\ since >= Boundary(est[s])
  BY <1>1 DEF DeferInv, Deferral, Waiting
<1>3. Admission(est[s]).wait = 0
  BY <1>1, <1>2, PastBoundary, TypeHasShape DEF DeferInv
<1> QED BY <1>1, <1>3

LEMMA SessionDefers ==
    ASSUME DeferInv, NEW t \in Sessions, Ask(t) \/ Finish(t) \/ Session(t), NEW s \in Sessions
    PROVE  Deferral(s)'
<1> USE DEF gateVars, sessionVars, watchVars
<1>1. UNCHANGED <<gen, since, intervals>> /\ gen \in Nat
  BY DEF Ask, Finish, Session, WaitsForIdle, WaitsForBacklog, Admit, Defer, DeferralEnds, Begin,
         Preempt, Watch, DeferInv, TypeOK
<1>2. \A e : Boundary(e)' = Boundary(e)
  BY <1>1, BoundaryIsTheirs
<1>3. Deferral(s) /\ watched[s] \in Int /\ armed[s] \in Int
  BY ConstantsAssumption DEF DeferInv, TypeOK
<1>4. CASE s # t
  <2>1. /\ pc'[s] = pc[s] /\ est'[s] = est[s] /\ left'[s] = left[s] /\ armed'[s] = armed[s]
        /\ watch'[s] = watch[s] /\ watched'[s] = watched[s]
    BY <1>4 DEF Ask, Finish, Session, WaitsForIdle, WaitsForBacklog, Admit, Defer, DeferralEnds,
           Begin, Preempt, Watch, DeferInv, TypeOK
  <2> QED BY <1>1, <1>2, <1>3, <2>1 DEF Deferral
<1>5. CASE s = t
  <2>1. CASE Ask(s)
    <3>1. /\ armed'[s] = -1 /\ pc'[s] = "asking"
          /\ watch' = watch /\ watched' = watched
      BY <2>1 DEF Ask, DeferInv, TypeOK
    <3> QED BY <1>1, <1>3, <3>1 DEF Deferral
  <2>2. CASE WaitsForIdle(s) \/ WaitsForBacklog(s)
    <3>1. /\ pc[s] = "asking" /\ pc'[s] \in {"busy", "backlog"}
          /\ UNCHANGED <<est, left, armed, watch, watched>>
      BY <2>2 DEF WaitsForIdle, WaitsForBacklog, DeferInv, TypeOK
    <3> QED BY <1>1, <1>2, <1>3, <3>1 DEF Deferral, Waiting
  <2>3. CASE Admit(s)
    <3>1. /\ pc[s] = "asking" /\ pc'[s] = "admitted" /\ watched'[s] = gen
          /\ armed' = armed /\ watch' = watch
      BY <2>3 DEF Admit, DeferInv, TypeOK
    <3>2. watch[s] = "none"
      BY <3>1 DEF DeferInv, WakeInv, OwnWatcher
    <3> QED BY <1>1, <1>3, <3>1, <3>2 DEF Deferral, Waiting
  <2>4. CASE Defer(s)
    <3>1. /\ pc'[s] = "timed" /\ watched'[s] = gen /\ armed'[s] = gen /\ watch'[s] = "new"
          /\ left'[s] = Admission(est[s]).wait /\ est' = est
      BY <2>4 DEF Defer, DeferInv, TypeOK
    <3>2. /\ est[s] \in Estimates /\ since \in Nat /\ intervals # <<>>
          /\ since + Admission(est[s]).wait = Boundary(est[s])
      BY <2>4, AdmissionSays, TypeHasShape DEF Defer, DeferInv, TypeOK
    <3>3. Boundary(est[s]) \in Nat
      BY <3>2, BoundaryBounds, TypeHasShape DEF DeferInv
    <3>4. Boundary(est[s])' = Boundary(est[s])
      BY <1>1, <3>1 DEF Boundary, Margin, Longest, Shortest, Observed
    <3>5. Boundary(est[s])' \in Nat /\ since' = since /\ since' + left'[s] = Boundary(est[s])'
      BY <1>1, <3>1, <3>2, <3>3, <3>4
    <3> HIDE DEF Boundary
    <3> QED BY <1>1, <3>1, <3>2, <3>5 DEF Deferral
  <2>5. CASE DeferralEnds(s)
    <3>1. /\ pc[s] = "timed" /\ pc'[s] = "asking" /\ watch'[s] = "none"
          /\ left[s] = 0 \/ watch[s] = "fired"
          /\ UNCHANGED <<est, armed, watched>>
      BY <2>5 DEF DeferralEnds, DeferInv, TypeOK
    <3>2. armed[s] = gen => left[s] = 0
      BY <1>3, <3>1 DEF Deferral
    <3> QED BY <1>1, <1>2, <1>3, <3>1, <3>2 DEF Deferral, Waiting
  <2>6. CASE Begin(s) \/ Finish(s) \/ Preempt(s)
    <3>1. /\ pc'[s] \in {"idle", "translating"} /\ watch'[s] \in {watch[s], "none", "new"}
          /\ UNCHANGED <<armed, watched>>
      BY <2>6 DEF Begin, Finish, Preempt, DeferInv, TypeOK
    <3> QED BY <1>1, <1>3, <3>1 DEF Deferral, Waiting
  <2>7. CASE Watch(s)
    <3>1. /\ UNCHANGED <<pc, est, left, armed, watched>>
          /\ watch'[s] = "fired" => gen # watched[s]
      BY <2>7 DEF Watch, DeferInv, TypeOK
    <3> QED BY <1>1, <1>2, <1>3, <3>1 DEF Deferral
  <2> QED BY <1>5, <2>1, <2>2, <2>3, <2>4, <2>5, <2>6, <2>7 DEF Session
<1> QED BY <1>4, <1>5

LEMMA DeferInvStep == DeferInv /\ [Next]_vars => DeferInv'
<1> SUFFICES ASSUME DeferInv, [Next]_vars PROVE DeferInv'
  OBVIOUS
<1>1. TypeOK' /\ WakeInv'
  BY TypeStep, WakeInvStep DEF DeferInv
<1>2. ASSUME NEW s \in Sessions PROVE Deferral(s)'
  <2>1. CASE UNCHANGED vars
    <3>1. Deferral(s)
      BY DEF DeferInv
    <3> QED
      BY <2>1, <3>1 DEF vars, gateVars, sessionVars, watchVars, Deferral, Boundary, Margin,
         Longest, Shortest, Observed
  <2> QED BY <2>1, SttStartedDefers, EventDefers, TickDefers, SessionDefers DEF Next
<1> QED BY <1>1, <1>2 DEF DeferInv

(* Only Defer sends a session that asks to the timer.                      *)
LEMMA OnlyDeferTimes ==
    ASSUME TypeOK, Next, NEW s \in Sessions, pc[s] = "asking", pc'[s] = "timed"
    PROVE  Defer(s)
<1>1. CASE SttStarted \/ SttFinished \/ SetUpstreamPending \/ Tick
  BY <1>1 DEF SttStarted, SttFinished, SetUpstreamPending, Tick, IdleReleases, Released, TypeOK,
     sessionVars
<1>2. ASSUME NEW t \in Sessions, Ask(t) \/ Finish(t) \/ Session(t)
      PROVE  Defer(s)
  BY <1>2 DEF Ask, Finish, Session, WaitsForIdle, WaitsForBacklog, Admit, Defer, DeferralEnds,
     Begin, Preempt, Watch, TypeOK, sessionVars
<1> QED BY <1>1, <1>2 DEF Next

(* Reaching the deadline proves an extended idle: whatever the cadence was,*)
(* a session is not deferred again before another STT call starts          *)
(* (translation_admission, extended_idle_boundary).                        *)
THEOREM DeferredOncePerStartCorrect == Spec => DeferredOncePerStart
<1>1. DeferInv /\ [Next]_vars
        => [\A s \in Sessions : pc[s] = "asking" /\ pc'[s] = "timed" => armed[s] # gen]_vars
  BY OnlyDeferTimes, NotDeferredAgain DEF DeferInv
<1> QED BY <1>1, InitDeferInv, DeferInvStep, PTL DEF Spec, DeferredOncePerStart

(***************************************************************************)
(* A steady speaker.                                                       *)
(***************************************************************************)
(* Within the learned cadence the clock never leaves the observed range,   *)
(* nobody asks earlier, and a translation in a predicted window has room.  *)
Steady(s) ==
    /\ watched[s] <= gen
    /\ pc[s] # "idle" => Learned
    /\ pc[s] \in {"admitted", "translating"} => reason[s] # "extended_idle"
    /\ pc[s] = "admitted" /\ reason[s] = "predicted_window" /\ gen = watched[s] =>
          est[s] \in Estimates /\ since + est[s] <= Shortest
    /\ pc[s] = "translating" /\ reason[s] = "predicted_window" =>
          left[s] = 0 \/ (gen = watched[s] /\ since + left[s] <= Shortest)

SteadyInv ==
    /\ TypeOK
    /\ Learned => since <= Longest
    /\ \A s \in Sessions : Steady(s)

LEMMA InitSteadyInv == Init => SteadyInv
<1> SUFFICES ASSUME Init PROVE SteadyInv
  OBVIOUS
<1>1. ~Learned
  <2>1. Len(<<>>) = 0 /\ History # 0
    BY ConstantsAssumption
  <2> QED BY <2>1 DEF Init, Learned
<1>2. \A s \in Sessions : Steady(s)
  BY DEF Init, Steady
<1> QED BY <1>1, <1>2, InitTypeOK DEF SteadyInv

LEMMA LearnedBounds ==
    ASSUME TypeOK, Learned
    PROVE  /\ intervals # <<>>
           /\ Shortest \in Nat \ {0} /\ Longest \in Nat /\ Shortest <= Longest
           /\ Shortest = Min(Observed) /\ Longest = Max(Observed)
<1>1. intervals # <<>>
  BY ConstantsAssumption DEF Learned
<1> QED BY <1>1, ObservedBounds, TypeHasShape, ConstantsAssumption DEF Shortest, Longest

LEMMA LongestIsNat == TypeOK /\ Learned => Longest \in Nat
BY LearnedBounds

LEMMA SttStartedSteady ==
    ASSUME SteadyInv, SttStarted, Learned => since \in Min(Observed)..Max(Observed)
    PROVE  SteadyInv'
<1>1. TypeOK' /\ gen' = gen + 1 /\ since' = 0 /\ gen \in Nat
      /\ UNCHANGED <<pc, est, reason, left, watched>>
  <2>1. Next
    BY DEF Next
  <2>2. TypeOK'
    BY <2>1, TypeStep DEF SteadyInv
  <2>3. gen' = gen + 1 /\ since' = 0 /\ UNCHANGED <<pc, est, reason, left, watched>>
    BY DEF SttStarted, sessionVars
  <2>4. gen \in Nat
    BY ConstantsAssumption DEF SteadyInv, TypeOK
  <2> QED BY <2>2, <2>3, <2>4
<1>2. Learned => Learned'
  <2> SUFFICES ASSUME Learned PROVE Learned'
    OBVIOUS
  <2> DEFINE all == Append(intervals, since)
  <2>1. intervals' = Recorded /\ History \in Nat \ {0} /\ Len(intervals) = History
        /\ intervals \in Seq(1..MaxInterval)
    BY ConstantsAssumption DEF SttStarted, Learned, SteadyInv, TypeOK
  <2>2. since \in Nat \ {0} /\ since <= MaxInterval
    BY LearnedBounds DEF SttStarted, SteadyInv
  <2>3. intervals' = IF Len(all) > History THEN Tail(all) ELSE all
    BY <2>1, <2>2 DEF Recorded, Trimmed
  <2>4. since \in 1..MaxInterval
    BY <2>2, ConstantsAssumption
  <2>5. Len(all) = History + 1 /\ all \in Seq(1..MaxInterval) /\ all # <<>>
    BY <2>1, <2>4
  <2>6. Len(Tail(all)) = History
    BY <2>1, <2>5
  <2> HIDE DEF all
  <2> QED BY <2>1, <2>3, <2>5, <2>6 DEF Learned
<1>3. Learned' => since' <= Longest'
  <2>1. (TypeOK /\ Learned)' => (Longest \in Nat)'
    BY LongestIsNat, PTL
  <2> QED BY <1>1, <2>1
<1>4. ASSUME NEW s \in Sessions PROVE Steady(s)'
  <2>1. Steady(s) /\ watched[s] \in Nat /\ left[s] \in Nat
    BY HorizonBounds, ConstantsAssumption DEF SteadyInv, TypeOK
  <2>2. gen' # watched'[s] /\ watched'[s] <= gen'
    BY <1>1, <2>1 DEF Steady
  <2>3. pc[s] = "translating" /\ reason[s] = "predicted_window" => left[s] = 0
    <3> SUFFICES ASSUME pc[s] = "translating", since + left[s] <= Shortest PROVE left[s] = 0
      BY <2>1 DEF Steady
    <3>1. Learned
      BY <2>1 DEF Steady
    <3>2. since \in Nat /\ since >= Shortest /\ Shortest \in Nat
      BY <3>1, LearnedBounds DEF SteadyInv
    <3> QED BY <2>1, <3>2
  <2> QED BY <1>1, <1>2, <2>1, <2>2, <2>3 DEF Steady
<1> QED BY <1>1, <1>3, <1>4 DEF SteadyInv

LEMMA TickSteady ==
    ASSUME SteadyInv, Tick, \A s \in Sessions : ~Ready(s), Learned => since < Max(Observed)
    PROVE  SteadyInv'
<1>1. TypeOK' /\ UNCHANGED <<gen, intervals, pc, est, reason, watched>>
  BY TypeStep DEF Tick, SteadyInv, Next, watchVars
<1>2. Learned' = Learned /\ Shortest' = Shortest /\ Longest' = Longest
  BY <1>1 DEF Learned, Shortest, Longest, Observed
<1>3. since' \in {since, since + 1} /\ since \in Int
  BY HorizonBounds DEF Tick, SteadyInv, TypeOK
<1>4. Learned' => since' <= Longest'
  BY <1>2, <1>3, LearnedBounds DEF SteadyInv
<1>5. ASSUME NEW s \in Sessions PROVE Steady(s)'
  <2>1. Steady(s) /\ pc[s] # "admitted" /\ left[s] \in Nat
        /\ left'[s] = IF left[s] > 0 THEN left[s] - 1 ELSE 0
    BY HorizonBounds DEF SteadyInv, Ready, Tick, Passed, TypeOK
  <2>2. pc[s] = "translating" => Shortest \in Nat
    BY <2>1, LearnedBounds DEF Steady, SteadyInv
  <2> QED BY <1>1, <1>2, <1>3, <2>1, <2>2 DEF Steady
<1> QED BY <1>1, <1>4, <1>5 DEF SteadyInv

LEMMA EventSteady ==
    ASSUME SteadyInv, SttFinished \/ SetUpstreamPending
    PROVE  SteadyInv'
<1>1. TypeOK' /\ UNCHANGED <<gen, since, intervals, est, reason, left, watched>>
  BY TypeStep DEF SttFinished, SetUpstreamPending, SteadyInv, Next, watchVars
<1>2. Learned' = Learned /\ Shortest' = Shortest /\ Longest' = Longest
  BY <1>1 DEF Learned, Shortest, Longest, Observed
<1>3. ASSUME NEW s \in Sessions PROVE Steady(s)'
  <2>1. \/ pc'[s] = pc[s]
        \/ pc[s] # "idle" /\ pc'[s] = "asking"
    BY DEF SttFinished, SetUpstreamPending, IdleReleases, Released, SteadyInv, TypeOK
  <2>2. Steady(s)
    BY DEF SteadyInv
  <2> QED BY <1>1, <1>2, <2>1, <2>2 DEF Steady
<1> QED BY <1>1, <1>2, <1>3 DEF SteadyInv

LEMMA SessionSteady ==
    ASSUME SteadyInv, NEW t \in Sessions, (Learned /\ Ask(t)) \/ Finish(t) \/ Session(t)
    PROVE  SteadyInv'
<1> USE DEF gateVars, sessionVars, watchVars
<1>1. TypeOK' /\ UNCHANGED <<gen, since, intervals, backlog>> /\ gen \in Nat
  <2>1. TypeOK'
    BY TypeStep DEF SteadyInv, Next
  <2>2. UNCHANGED <<gen, since, intervals, backlog>>
    BY DEF Ask, Finish, Session, WaitsForIdle, WaitsForBacklog, Admit, Defer, DeferralEnds,
       Begin, Preempt, Watch
  <2>3. gen \in Nat
    BY DEF SteadyInv, TypeOK
  <2> QED BY <2>1, <2>2, <2>3
<1>2. Learned' = Learned /\ Shortest' = Shortest /\ Longest' = Longest
  BY <1>1 DEF Learned, Shortest, Longest, Observed
<1>3. ASSUME NEW s \in Sessions PROVE Steady(s)'
  <2>1. Steady(s) /\ watched[s] \in Int
    BY ConstantsAssumption DEF SteadyInv, TypeOK
  <2>2. CASE s # t
    <3>1. /\ pc'[s] = pc[s] /\ est'[s] = est[s] /\ left'[s] = left[s] /\ reason'[s] = reason[s]
          /\ watched'[s] = watched[s]
      BY <2>2 DEF Ask, Finish, Session, WaitsForIdle, WaitsForBacklog, Admit, Defer,
         DeferralEnds, Begin, Preempt, Watch, SteadyInv, TypeOK
    <3> QED BY <1>1, <1>2, <2>1, <3>1 DEF Steady
  <2>3. CASE s = t
    <3>1. CASE Learned /\ Ask(s)
      BY <1>1, <1>2, <2>1, <3>1 DEF Ask, Steady, SteadyInv, TypeOK
    <3>2. CASE WaitsForIdle(s) \/ WaitsForBacklog(s) \/ DeferralEnds(s)
      <4>1. /\ pc[s] # "idle" /\ pc'[s] \in {"busy", "backlog", "asking"}
            /\ watched' = watched
        BY <3>2 DEF WaitsForIdle, WaitsForBacklog, DeferralEnds, SteadyInv, TypeOK
      <4> QED BY <1>1, <1>2, <2>1, <4>1 DEF Steady
    <3>3. CASE Defer(s)
      <4>1. pc[s] # "idle" /\ pc'[s] = "timed" /\ watched'[s] = gen
        BY <3>3 DEF Defer, SteadyInv, TypeOK
      <4> QED BY <1>1, <1>2, <2>1, <4>1 DEF Steady
    <3>4. CASE Admit(s)
      <4>1. /\ pc[s] = "asking" /\ pc'[s] = "admitted" /\ watched'[s] = gen /\ ~backlog
            /\ reason'[s] = Admission(est[s]).reason /\ Admission(est[s]).wait = 0
            /\ est' = est /\ est[s] \in Estimates \cup {None}
        BY <3>4 DEF Admit, SteadyInv, TypeOK
      <4>2. Learned /\ since <= Longest /\ since \in Int
        BY <2>1, <4>1, HorizonBounds DEF Steady, SteadyInv, TypeOK
      <4>3. intervals # <<>> /\ Longest \in Nat
        BY <4>2, LearnedBounds DEF SteadyInv
      <4>4. \A e \in Estimates : ~(since >= Boundary(e))
        BY <4>2, <4>3, BoundaryBounds, TypeHasShape DEF SteadyInv
      <4>5. /\ reason'[s] # "extended_idle"
            /\ reason'[s] = "predicted_window" =>
                  est[s] \in Estimates /\ since + est[s] <= Shortest
        BY <4>1, <4>4, AdmissionSays, TypeHasShape DEF SteadyInv
      <4> QED BY <1>1, <1>2, <2>1, <4>1, <4>2, <4>5 DEF Steady
    <3>5. CASE Begin(s)
      <4>1. CASE active > 0 \/ gen # watched[s]
        <5>1. pc'[s] = "idle" /\ watched' = watched
          BY <3>5, <4>1 DEF Begin, SteadyInv, TypeOK
        <5> QED BY <1>1, <2>1, <5>1 DEF Steady
      <4>2. CASE ~(active > 0 \/ gen # watched[s])
        <5>1. /\ pc[s] = "admitted" /\ pc'[s] = "translating" /\ left'[s] = est[s]
              /\ UNCHANGED <<reason, watched>>
          BY <3>5, <4>2 DEF Begin, SteadyInv, TypeOK
        <5> QED BY <1>1, <1>2, <2>1, <4>2, <5>1 DEF Steady
      <4> QED BY <4>1, <4>2
    <3>6. CASE Finish(s) \/ Preempt(s)
      <4>1. pc'[s] = "idle" /\ watched' = watched
        BY <3>6 DEF Finish, Preempt, SteadyInv, TypeOK
      <4> QED BY <1>1, <2>1, <4>1 DEF Steady
    <3>7. CASE Watch(s)
      <4>1. UNCHANGED <<pc, est, reason, left, watched>>
        BY <3>7 DEF Watch
      <4> QED BY <1>1, <1>2, <2>1, <4>1 DEF Steady
    <3> QED BY <2>3, <3>1, <3>2, <3>3, <3>4, <3>5, <3>6, <3>7 DEF Session
  <2> QED BY <2>2, <2>3
<1> QED BY <1>1, <1>2, <1>3 DEF SteadyInv

LEMMA SteadyInvStep == SteadyInv /\ [SteadyNext]_vars => SteadyInv'
<1> SUFFICES ASSUME SteadyInv, [SteadyNext]_vars PROVE SteadyInv'
  OBVIOUS
<1>1. CASE UNCHANGED vars
  <2>1. UNCHANGED <<gen, since, intervals, pc, est, reason, left, watched>> /\ TypeOK'
    BY <1>1, TypeStep DEF vars, gateVars, sessionVars, watchVars, SteadyInv
  <2>2. Learned' = Learned /\ Shortest' = Shortest /\ Longest' = Longest
    BY <2>1 DEF Learned, Shortest, Longest, Observed
  <2>3. \A s \in Sessions : Steady(s)'
    BY <2>1, <2>2 DEF SteadyInv, Steady
  <2> QED BY <2>1, <2>2, <2>3 DEF SteadyInv
<1> QED
  BY <1>1, SttStartedSteady, TickSteady, EventSteady, SessionSteady DEF SteadyNext

(* What the forecast promises a steady speaker it keeps, for any history   *)
(* and any estimates: predicted windows hold, and no pause is declared     *)
(* inside the cadence (translation_admission).                             *)
THEOREM InvCorrect == SteadySpec => []Inv
<1>1. SteadyInv => Inv
  <2> SUFFICES ASSUME SteadyInv PROVE Inv
    OBVIOUS
  <2>1. NoWastedWork
    BY DEF SteadyInv, Steady, NoWastedWork
  <2>2. NoFalsePause
    BY DEF SteadyInv, Steady, NoFalsePause
  <2> QED BY <2>1, <2>2 DEF SteadyInv, Inv
<1> QED BY <1>1, InitSteadyInv, SteadyInvStep, PTL DEF SteadySpec
==============================================================================
