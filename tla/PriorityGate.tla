----------------------------- MODULE PriorityGate -----------------------------
(***************************************************************************)
(* LiveTranscriptionPriorityGate (src/backend/app/application/services/    *)
(* live_transcription_priority_gate.py), the object through which every    *)
(* session of a container decides when a local translation may run beside  *)
(* live speech-to-text: the cadence forecast of translation_admission, the *)
(* loop of wait_for_translation_admission and the shared activity event    *)
(* of wait_for_stt_start_after, with a discrete clock.                     *)
(*                                                                         *)
(* Time is kept relative to the last STT start (all the forecast uses) and *)
(* in whole milliseconds.  A session is a task that asks for admission,    *)
(* publishes PROCESSING, checks again and runs its translation; its        *)
(* watcher is the wait_for_stt_start_after task it races against.          *)
(***************************************************************************)
EXTENDS Integers, Sequences, FiniteSetsExt

CONSTANTS
    Sessions,       \* the sessions with Assist Mode
    Estimates,      \* the translation durations a session may have measured
    History,        \* _CADENCE_HISTORY_SIZE (4 in the code)
    MaxInterval,    \* bound: the longest time between two STT starts
    MaxStarts,      \* bound: STT starts
    MaxActive       \* bound: STT calls at once

ASSUME ConstantsAssumption ==
    /\ Estimates \subseteq Nat \ {0}
    /\ IsFiniteSet(Estimates)
    /\ History \in Nat \ {0} /\ MaxInterval \in Nat \ {0}
    /\ MaxStarts \in Nat /\ MaxActive \in Nat

VARIABLES
    \* the gate
    active,     \* _active_stt_count
    gen,        \* _stt_start_generation
    since,      \* the clock minus _last_stt_started_at, -1 for None
    intervals,  \* _stt_start_intervals
    backlog,    \* whether _upstream_pending_stt_chunks is positive
    activity,   \* whether _activity_event is set
    \* the sessions
    pc,         \* where the session is suspended
    est,        \* estimated_translation_duration_ms, 0 for None
    reason,     \* the reason of its last admission decision
    left,       \* time left of the wait or the translation it runs
    armed,      \* the generation of its last timed wait, -1 before
    watch,      \* its watcher
    watched     \* the generation the watcher, or the session, has captured

gateVars    == <<active, gen, since, intervals, backlog, activity>>
sessionVars == <<pc, est, reason, left, armed>>
watchVars   == <<watch, watched>>
vars        == <<gateVars, sessionVars, watchVars>>

None       == 0
MaxOf(S)   == IF S = {} THEN 0 ELSE Max(S)
(* No forecast looks further than this: the clock saturates.               *)
Horizon    == 2 * MaxInterval + MaxOf(Estimates)

Init ==
    /\ active = 0 /\ gen = 0 /\ since = -1 /\ intervals = <<>>
    /\ backlog = FALSE /\ activity = FALSE
    /\ pc = [s \in Sessions |-> "idle"]
    /\ est = [s \in Sessions |-> None]
    /\ reason = [s \in Sessions |-> "none"]
    /\ left = [s \in Sessions |-> 0]
    /\ armed = [s \in Sessions |-> -1]
    /\ watch = [s \in Sessions |-> "none"]
    /\ watched = [s \in Sessions |-> 0]

(***************************************************************************)
(* The forecast.                                                           *)
(***************************************************************************)
Observed == {intervals[i] : i \in 1..Len(intervals)}
Longest  == Max(Observed)

Shortest_Longest == Max(Observed)   \* mutant: predicts from the longest interval
Shortest == Min(Observed)

Margin(e) == Max({Longest - Shortest, e})

(* extended_idle_boundary, relative to the last STT start.                 *)
Boundary(e) == Longest + Margin(e)

IdleWindow == Max({0, Shortest - since})

WaitFor_Polled(e) == 1   \* mutant: polls instead of waiting for the boundary
WaitFor(e) == Max({0, Boundary(e) - since})

(* translation_admission while no STT call is active: its reason and wait. *)
Admission(e) ==
    IF backlog
      THEN [reason |-> "upstream_backlog", wait |-> 0]
    ELSE IF e = None \/ since = -1 \/ intervals = <<>>
      THEN [reason |-> "probe", wait |-> 0]
    ELSE IF since >= Shortest /\ since >= Boundary(e)
      THEN [reason |-> "extended_idle", wait |-> 0]
    ELSE IF IdleWindow >= e
      THEN [reason |-> "predicted_window", wait |-> 0]
    ELSE [reason |-> "predicted_window", wait |-> WaitFor(e)]

(***************************************************************************)
(* STT activity.                                                           *)
(***************************************************************************)
(* _activity_event.set(): every watcher suspended on it gets to run, even  *)
(* if another one clears the event first.                                  *)
Woken_Nobody == watch   \* mutant: only later waiters see the event
Woken == [s \in Sessions |-> IF watch[s] = "waiting" THEN "woken" ELSE watch[s]]

SignalActivity == activity' = TRUE /\ watch' = Woken

StartSignal_Dropped == UNCHANGED <<activity, watch>>   \* mutant: starts are not signalled
StartSignal == SignalActivity

(* The deque keeps the newest History intervals; a zero one is not kept.   *)
Trimmed(all) == IF Len(all) > History THEN Tail(all) ELSE all

Recorded == IF since <= 0 THEN intervals ELSE Trimmed(Append(intervals, since))

SttStarted ==
    /\ gen < MaxStarts /\ active < MaxActive
    /\ since <= MaxInterval
    /\ intervals' = Recorded
    /\ since' = 0
    /\ active' = active + 1
    /\ gen' = gen + 1
    /\ StartSignal
    /\ UNCHANGED <<backlog, sessionVars, watched>>

(* _idle_event and _backlog_cleared_event: the sessions suspended on it    *)
(* read everything again when they run.                                    *)
Released(where) == [s \in Sessions |-> IF pc[s] = where THEN "asking" ELSE pc[s]]

IdleReleases_Never == pc   \* mutant: the idle event is not set
IdleReleases == IF active = 1 THEN Released("busy") ELSE pc

SttFinished ==
    /\ active > 0
    /\ active' = active - 1
    /\ pc' = IdleReleases
    /\ SignalActivity
    /\ UNCHANGED <<gen, since, intervals, backlog, est, reason, left, armed, watched>>

SetUpstreamPending ==
    /\ \E b \in BOOLEAN :
          /\ backlog' = b
          /\ pc' = IF b THEN pc ELSE Released("backlog")
    /\ UNCHANGED <<active, gen, since, intervals, activity, est, reason, left, armed,
                   watchVars>>

(***************************************************************************)
(* wait_for_translation_admission.                                         *)
(***************************************************************************)
Ask(s) ==
    /\ pc[s] = "idle"
    /\ \E e \in Estimates \cup {None} : est' = [est EXCEPT ![s] = e]
    /\ pc' = [pc EXCEPT ![s] = "asking"]
    /\ armed' = [armed EXCEPT ![s] = -1]
    /\ UNCHANGED <<gateVars, reason, left, watchVars>>

WaitsForIdle(s) ==
    /\ pc[s] = "asking" /\ active > 0
    /\ pc' = [pc EXCEPT ![s] = "busy"]
    /\ UNCHANGED <<gateVars, est, reason, left, armed, watchVars>>

WaitsForBacklog(s) ==
    /\ pc[s] = "asking" /\ active = 0 /\ backlog
    /\ pc' = [pc EXCEPT ![s] = "backlog"]
    /\ UNCHANGED <<gateVars, est, reason, left, armed, watchVars>>

(* Admitted: the session captures the generation and publishes PROCESSING. *)
Admit(s) ==
    /\ pc[s] = "asking" /\ active = 0 /\ ~backlog
    /\ Admission(est[s]).wait = 0
    /\ reason' = [reason EXCEPT ![s] = Admission(est[s]).reason]
    /\ watched' = [watched EXCEPT ![s] = gen]
    /\ pc' = [pc EXCEPT ![s] = "admitted"]
    /\ UNCHANGED <<gateVars, est, left, armed, watch>>

(* Deferred: a timer and a watcher of the next STT start.                  *)
Defer(s) ==
    /\ pc[s] = "asking" /\ active = 0 /\ ~backlog
    /\ Admission(est[s]).wait > 0
    /\ left' = [left EXCEPT ![s] = Admission(est[s]).wait]
    /\ armed' = [armed EXCEPT ![s] = gen]
    /\ watch' = [watch EXCEPT ![s] = "new"]
    /\ watched' = [watched EXCEPT ![s] = gen]
    /\ pc' = [pc EXCEPT ![s] = "timed"]
    /\ UNCHANGED <<gateVars, est, reason>>

DeferralEnds(s) ==
    /\ pc[s] = "timed"
    /\ left[s] = 0 \/ watch[s] = "fired"
    /\ watch' = [watch EXCEPT ![s] = "none"]
    /\ pc' = [pc EXCEPT ![s] = "asking"]
    /\ UNCHANGED <<gateVars, est, reason, left, armed, watched>>

(***************************************************************************)
(* The session's use of its admission.                                     *)
(***************************************************************************)
(* PROCESSING is out: the gate is read again before the work starts.       *)
Begin(s) ==
    /\ pc[s] = "admitted"
    /\ IF active > 0 \/ gen # watched[s]
       THEN /\ pc' = [pc EXCEPT ![s] = "idle"]
            /\ UNCHANGED <<watch, left>>
       ELSE /\ pc' = [pc EXCEPT ![s] = "translating"]
            /\ watch' = [watch EXCEPT ![s] = "new"]
            /\ left' = [left EXCEPT ![s] = est[s]]
    /\ UNCHANGED <<gateVars, est, reason, armed, watched>>

(* The translation ends, or the watcher fires first and it is cancelled.   *)
Finish(s) ==
    /\ pc[s] = "translating"
    /\ pc' = [pc EXCEPT ![s] = "idle"]
    /\ watch' = [watch EXCEPT ![s] = "none"]
    /\ UNCHANGED <<gateVars, est, reason, left, armed, watched>>

Preempt(s) ==
    /\ pc[s] = "translating"
    /\ watch[s] = "fired"
    /\ pc' = [pc EXCEPT ![s] = "idle"]
    /\ watch' = [watch EXCEPT ![s] = "none"]
    /\ UNCHANGED <<gateVars, est, reason, left, armed, watched>>

(* One turn of wait_for_stt_start_after: on an event already set wait()    *)
(* returns at once, so both turns end with the event cleared.              *)
Watch(s) ==
    /\ watch[s] \in {"new", "woken"}
    /\ IF watch[s] = "new" /\ gen # watched[s]
       THEN UNCHANGED activity
       ELSE activity' = FALSE
    /\ watch' = [watch EXCEPT ![s] = IF gen # watched[s] THEN "fired" ELSE "waiting"]
    /\ UNCHANGED <<active, gen, since, intervals, backlog, sessionVars, watched>>

Passed(t) == IF t > 0 THEN t - 1 ELSE 0

Tick ==
    /\ since' = IF since \in 0..(Horizon - 1) THEN since + 1 ELSE since
    /\ left' = [s \in Sessions |-> Passed(left[s])]
    /\ UNCHANGED <<active, gen, intervals, backlog, activity, pc, est, reason, armed,
                   watchVars>>

Session(s) ==
    \/ WaitsForIdle(s) \/ WaitsForBacklog(s) \/ Admit(s) \/ Defer(s) \/ DeferralEnds(s)
    \/ Begin(s) \/ Preempt(s) \/ Watch(s)

Next ==
    \/ SttStarted \/ SttFinished \/ SetUpstreamPending \/ Tick
    \/ \E s \in Sessions : Ask(s) \/ Finish(s) \/ Session(s)

Spec == Init /\ [][Next]_vars

(* Tasks are run, clocks advance and STT calls end; a translation may hang.*)
Fairness ==
    /\ WF_vars(SttFinished)
    /\ WF_vars(Tick)
    /\ \A s \in Sessions : WF_vars(Session(s))

FairSpec == Spec /\ Fairness

(***************************************************************************)
(* A steady speaker on a responsive event loop: the history is full and    *)
(* representative (the next STT start comes within the observed intervals) *)
(* when translations are asked for, and no time passes while a task is     *)
(* ready to run.                                                           *)
(***************************************************************************)
Ready(s) ==
    \/ pc[s] \in {"asking", "admitted"}
    \/ pc[s] \in {"timed", "translating"} /\ (left[s] = 0 \/ watch[s] = "fired")
    \/ watch[s] \in {"new", "woken"}

Learned == Len(intervals) = History

SteadyNext ==
    \/ /\ SttStarted
       /\ Learned => since \in Min(Observed)..Max(Observed)
    \/ /\ Tick
       /\ \A s \in Sessions : ~Ready(s)
       /\ Learned => since < Max(Observed)
    \/ SttFinished \/ SetUpstreamPending
    \/ \E s \in Sessions : (Learned /\ Ask(s)) \/ Finish(s) \/ Session(s)

SteadySpec == Init /\ [][SteadyNext]_vars

(***************************************************************************)
(* Properties.                                                             *)
(***************************************************************************)
(* Every variable stays in its range: the type invariant.                  *)
TypeOK ==
    /\ active \in 0..MaxActive /\ gen \in 0..MaxStarts
    /\ since \in -1..Horizon
    /\ intervals \in Seq(1..MaxInterval) /\ Len(intervals) <= History
    /\ backlog \in BOOLEAN /\ activity \in BOOLEAN
    /\ pc \in [Sessions -> {"idle", "asking", "busy", "backlog", "timed", "admitted",
                            "translating"}]
    /\ est \in [Sessions -> Estimates \cup {None}]
    /\ reason \in [Sessions -> {"none", "probe", "predicted_window", "extended_idle"}]
    /\ left \in [Sessions -> 0..Horizon]
    /\ armed \in [Sessions -> -1..MaxStarts]
    /\ watch \in [Sessions -> {"none", "new", "waiting", "woken", "fired"}]
    /\ watched \in [Sessions -> 0..MaxStarts]

(* No watcher sleeps through an STT start, although all of them share one  *)
(* event and each clears it for the others.                                *)
NoStartMissed ==
    \A s \in Sessions : watch[s] = "waiting" => gen = watched[s] /\ ~activity

(* No session sleeps on a condition that already holds.                    *)
NoWakeupLost ==
    \A s \in Sessions :
        /\ pc[s] = "busy" => active > 0
        /\ pc[s] = "backlog" => backlog

(* No wake-up of the gate is lost, neither on the shared activity event nor *)
(* on the idle and the backlog event (the asyncio events of the gate).      *)
Wakeups == NoStartMissed /\ NoWakeupLost

(* Reaching the deadline proves an extended idle: without a new STT start  *)
(* a session is deferred at most once (AssistMode rests on this).          *)
DeferredOncePerStart ==
    [][\A s \in Sessions : pc[s] = "asking" /\ pc'[s] = "timed" => armed[s] # gen]_vars

(* Work that fits the forecast is not wasted: with a steady cadence a      *)
(* translation started in a predicted window is over by the next start.    *)
NoWastedWork ==
    \A s \in Sessions :
        pc[s] = "translating" /\ reason[s] = "predicted_window" /\ gen # watched[s]
            => left[s] = 0

(* A steady cadence is never taken for a natural pause.                    *)
NoFalsePause ==
    \A s \in Sessions :
        pc[s] \in {"admitted", "translating"} => reason[s] # "extended_idle"

(* What the forecast promises a steady speaker: predicted windows hold and *)
(* no pause is declared inside the cadence (translation_admission).        *)
Inv == TypeOK /\ NoWastedWork /\ NoFalsePause

(* A translation overtaken by an STT start does not keep the processor.    *)
PreemptionComes ==
    \A s \in Sessions :
        pc[s] = "translating" /\ gen # watched[s] ~> pc[s] # "translating"

(* Once the backlog stays cleared and no more STT starts come (MaxStarts)  *)
(* every session that asks is admitted.                                    *)
EveryoneAdmitted ==
    <>[]~backlog =>
        \A s \in Sessions : pc[s] = "asking" ~> pc[s] \in {"admitted", "idle"}
=============================================================================
