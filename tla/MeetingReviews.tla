--------------------------- MODULE MeetingReviews ---------------------------
(***************************************************************************)
(* Reviews and Turkish translations of one meeting: the use cases           *)
(* generate_meeting_review and generate_meeting_translation, the            *)
(* repositories their versioned artifacts live in, the routes in front of   *)
(* them, and the two panels of the desktop that ask for them.               *)
(*                                                                         *)
(* A use case suspends only while it waits for the text provider: what it   *)
(* does between two provider calls, database transactions included, is one  *)
(* step.  Both use cases have one shape; where they differ the action asks  *)
(* for the kind.  A text is its length in characters: nothing else of it    *)
(* decides anything here.                                                   *)
(***************************************************************************)
EXTENDS Integers, Sequences, FiniteSets, Functions

CONSTANTS
    Requests,            \* generation requests, numbered in the order they are made
    MaxBatchCharacters,
    OverlapSegments,
    Lengths,             \* lengths a transcript row may have
    Times,               \* readings of the wall clock, which may go back
    MaxRows,             \* bound: rows of the transcript
    MaxMounts,           \* bound: times the meeting is opened
    MaxFailures,         \* bound: failures of a transaction and deaths of the backend
    None

ASSUME ConstantsAssumption ==
    /\ Requests \subseteq Nat
    /\ None \notin Requests
    /\ MaxBatchCharacters \in Nat \ {0}
    /\ OverlapSegments \in Nat
    /\ Lengths \subseteq Nat \ {0}
    /\ Times \subseteq Nat
    /\ MaxRows \in Nat /\ MaxMounts \in Nat \ {0}
    /\ MaxFailures \in Nat

VARIABLES
    ended,       \* the meeting is ended
    transcript,  \* its transcript rows
    store,       \* the artifact each request has stored
    req,         \* each request: what was asked and how far its use case is
    panel,       \* the panel of each kind
    mount,       \* times the meeting has been opened
    failures     \* transactions that failed and deaths of the backend

vars == <<ended, transcript, store, req, panel, mount, failures>>
meeting == <<ended, transcript>>

-----------------------------------------------------------------------------
(* State *)

Kinds == {"review", "translation"}

Terminal == {"completed", "failed", "cancelled"}

\* count is source_transcript_count, entries the transcript rows the content
\* was made from.
Artifacts == [kind : Kinds, version : Nat, status : {"absent", "processing"} \cup Terminal,
              created : Nat, count : Nat, entries : SUBSET Nat]

NoArtifact == [kind |-> "review", version |-> 0, status |-> "absent",
               created |-> 0, count |-> 0, entries |-> {}]

\* detail is the transcript read at the start, start the row of the next
\* provider call, seen the rows already given to the provider, result the
\* artifact answered with; replaced is the artifact the panel showed.
Waiting == {"provider", "reduce"}
Asks == [pc : {"new", "sent", "answered", "done"} \cup Waiting, kind : Kinds,
         force : BOOLEAN, mount : Nat, replaced : Requests \cup {None},
         detail : Seq(Lengths), start : Nat, seen : SUBSET Nat,
         result : Requests \cup {None}]

NoAsk == [pc |-> "new", kind |-> "review", force |-> FALSE, mount |-> 0,
          replaced |-> None, detail |-> <<>>, start |-> 1, seen |-> {}, result |-> None]

Done == [NoAsk EXCEPT !.pc = "done"]

\* A panel that is "loaded" has an answer to its first read under way.
Panels == [state : {"loading", "loaded", "ready", "generating", "unavailable", "failed"},
           shown : Requests \cup {None}]

Loading == [state |-> "loading", shown |-> None]

TypeOK ==
  /\ ended \in BOOLEAN
  /\ transcript \in Seq(Lengths) /\ Len(transcript) <= MaxRows
  /\ store \in [Requests -> Artifacts]
  /\ req \in [Requests -> Asks]
  /\ \A r \in Requests : req[r].pc = "provider" => req[r].start \in 1 .. Len(req[r].detail)
  /\ panel \in [Kinds -> Panels]
  /\ mount \in 1 .. MaxMounts
  /\ failures \in 0 .. MaxFailures

Init ==
  /\ ended = FALSE
  /\ transcript = <<>>
  /\ store = [r \in Requests |-> NoArtifact]
  /\ req = [r \in Requests |-> NoAsk]
  /\ panel = [k \in Kinds |-> Loading]
  /\ mount = 1
  /\ failures = 0

-----------------------------------------------------------------------------
(* The meeting *)

MayAdd_Always == TRUE   \* Mutant of MayAdd: an ended meeting takes rows
MayAdd == ~ended

AddRow == \E n \in Lengths :
  /\ Len(transcript) < MaxRows
  /\ MayAdd
  /\ transcript' = Append(transcript, n)
  /\ UNCHANGED <<ended, store, req, panel, mount, failures>>

EndMeeting ==
  /\ ~ended
  /\ ended' = TRUE
  /\ UNCHANGED <<transcript, store, req, panel, mount, failures>>

-----------------------------------------------------------------------------
(* The batches of a review: whole rows, with an overlap *)

\* The characters of the rows from s to e.
Characters(detail, s, e) == SumFunctionOnSet(detail, s .. e)

Full(detail, s, e) ==
  \/ e = Len(detail)
  \/ Characters(detail, s, e) >= MaxBatchCharacters
  \/ Characters(detail, s, e + 1) > MaxBatchCharacters

\* The last row of the batch that starts at row s: it is filled row by row.
BatchEnd(detail, s) ==
  CHOOSE e \in s .. Len(detail) :
    Full(detail, s, e) /\ \A d \in s .. e - 1 : ~Full(detail, s, d)

Larger(m, n) == IF m >= n THEN m ELSE n

\* The next batch repeats some rows of the last one, but starts after it.
NextStart(s, e) == Larger(s + 1, e + 1 - OverlapSegments)

-----------------------------------------------------------------------------
(* The artifacts in the database *)

Stored(k) == {r \in Requests : store[r].status # "absent" /\ store[r].kind = k}
Completed(k) == {r \in Stored(k) : store[r].status = "completed"}

\* Mutant of Versions: only finished versions are counted
Versions_Finished(k) == {0} \cup {store[r].version : r \in Completed(k)}

Versions(k) == {0} \cup {store[r].version : r \in Stored(k)}

LatestVersion(k) == CHOOSE v \in Versions(k) : \A w \in Versions(k) : w <= v

Older(a, b) ==
  \/ a.created < b.created
  \/ a.created = b.created /\ a.version < b.version

\* Mutant of Precedes: reviews too are ordered by the time of their creation
Precedes_ByTime(k, a, b) == Older(a, b)
\* Reviews are ordered by version, translations by the time of their creation
\* and then by version.
Precedes(k, a, b) == IF k = "review" THEN a.version < b.version ELSE Older(a, b)

\* Mutant of Latest: the newest artifact, whatever its status
Latest_Any(k) ==
  IF Stored(k) = {} THEN None
  ELSE CHOOSE r \in Stored(k) : \A q \in Stored(k) : ~Precedes(k, store[r], store[q])

Latest(k) ==
  IF Completed(k) = {} THEN None
  ELSE CHOOSE r \in Completed(k) :
         \A q \in Completed(k) : ~Precedes(k, store[r], store[q])

-----------------------------------------------------------------------------
(* Requests of the desktop *)

IsNext(r) == req[r].pc = "new" /\ \A q \in Requests : q < r => req[q].pc # "new"

ShouldForce(k) == panel[k].state = "ready"

\* The button of a panel: generate, or regenerate what is shown.
Press(k, r) ==
  /\ panel[k].state \in {"ready", "unavailable", "failed"}
  /\ IsNext(r)
  /\ panel' = [panel EXCEPT ![k] = [state |-> "generating", shown |-> None]]
  /\ req' = [req EXCEPT ![r] = [@ EXCEPT !.pc = "sent", !.kind = k, !.force = ShouldForce(k),
                                       !.mount = mount, !.replaced = panel[k].shown]]
  /\ UNCHANGED <<meeting, store, mount, failures>>

\* Opening the meeting, again or for the first time, mounts both panels anew:
\* what the old ones still wait for is dropped.
Open ==
  /\ mount < MaxMounts
  /\ mount' = mount + 1
  /\ panel' = [k \in Kinds |-> Loading]
  /\ UNCHANGED <<meeting, store, req, failures>>

\* A panel's first read, at the backend and back in the panel.
Read(k) ==
  /\ panel[k].state = "loading"
  /\ panel' = [panel EXCEPT ![k] = [state |-> "loaded", shown |-> Latest(k)]]
  /\ UNCHANGED <<meeting, store, req, mount, failures>>

Show(k) ==
  /\ panel[k].state = "loaded"
  /\ panel' = [panel EXCEPT ![k].state = IF panel[k].shown = None THEN "unavailable" ELSE "ready"]
  /\ UNCHANGED <<meeting, store, req, mount, failures>>

\* Mutant of Deliver: an error is not caught in the panel
Deliver_Uncaught(r) ==
  /\ req[r].pc = "answered"
  /\ req' = [req EXCEPT ![r] = Done]
  /\ panel' = IF req[r].mount # mount \/ req[r].result = None THEN panel
              ELSE [panel EXCEPT ![req[r].kind] = [state |-> "ready", shown |-> req[r].result]]
  /\ UNCHANGED <<meeting, store, mount, failures>>

\* The answer to a generation reaches the panel that asked for it, if it is
\* still there.
Deliver(r) ==
  LET k == req[r].kind
      answer == req[r].result IN
  /\ req[r].pc = "answered"
  /\ req' = [req EXCEPT ![r] = Done]
  /\ panel' = IF req[r].mount # mount \/ panel[k].state # "generating" THEN panel
              ELSE [panel EXCEPT ![k] =
                      [state |-> IF answer = None THEN "failed" ELSE "ready",
                       shown |-> answer]]
  /\ UNCHANGED <<meeting, store, mount, failures>>

-----------------------------------------------------------------------------
(* The use cases *)

\* The end of a use case: the route answers with an artifact, or with an error.
Answer(r, a) ==
  req' = [req EXCEPT ![r] = [@ EXCEPT !.pc = "answered", !.result = a,
                                       !.detail = <<>>, !.start = 1, !.seen = {}]]

CanReuse(k) ==
  /\ k = "translation"
  /\ Latest(k) # None
  /\ LET a == store[Latest(k)] IN
       a.count = Len(transcript) /\ a.entries = 1 .. Len(transcript)

Refuse(r) ==
  /\ req[r].pc = "sent"
  /\ ~ended
  /\ Answer(r, None)
  /\ UNCHANGED <<meeting, store, panel, mount, failures>>

Reuses(r) == ~req[r].force /\ CanReuse(req[r].kind)

Reuse(r) ==
  /\ req[r].pc = "sent"
  /\ ended /\ Reuses(r)
  /\ Answer(r, Latest(req[r].kind))
  /\ UNCHANGED <<meeting, store, panel, mount, failures>>

\* The artifact of a new version, before anything is generated.
NewArtifact(k, now) ==
  [kind |-> k, version |-> LatestVersion(k) + 1, status |-> "processing",
   created |-> now, count |-> Len(transcript), entries |-> {}]

\* An empty transcript needs no provider: its artifact is completed in the
\* same step.
Begin(r) == \E now \in Times :
  LET new == NewArtifact(req[r].kind, now) IN
  /\ req[r].pc = "sent"
  /\ ended /\ ~Reuses(r)
  /\ IF transcript = <<>>
     THEN /\ store' = [store EXCEPT ![r] = [new EXCEPT !.status = "completed"]]
          /\ Answer(r, r)
     ELSE /\ store' = [store EXCEPT ![r] = new]
          /\ req' = [req EXCEPT ![r].pc = "provider", ![r].detail = transcript]
  /\ UNCHANGED <<meeting, panel, mount, failures>>

\* The first transaction fails, or the second one of an empty transcript.
BeginFails(r) == \E now \in Times :
  /\ req[r].pc = "sent"
  /\ ended /\ ~Reuses(r)
  /\ failures < MaxFailures
  /\ failures' = failures + 1
  /\ \/ UNCHANGED store
     \/ /\ transcript = <<>>
        /\ store' = [store EXCEPT ![r] = NewArtifact(req[r].kind, now)]
  /\ Answer(r, None)
  /\ UNCHANGED <<meeting, panel, mount>>

\* The row of a provider call, or the rows of its batch.
CallEnd(r) == IF req[r].kind = "review" THEN BatchEnd(req[r].detail, req[r].start)
              ELSE req[r].start

GivenTo(r) == req[r].seen \cup (req[r].start .. CallEnd(r))

CallNext(r) == IF req[r].kind = "review" THEN NextStart(req[r].start, CallEnd(r))
               ELSE req[r].start + 1

\* The provider answers and another call is needed.
ProviderContinues(r) ==
  LET last == CallEnd(r) = Len(req[r].detail) IN
  /\ req[r].pc = "provider"
  /\ last => req[r].kind = "review"
  /\ req' = [req EXCEPT ![r].seen = GivenTo(r),
                        ![r].pc = IF last THEN "reduce" ELSE "provider",
                        ![r].start = IF last THEN @ ELSE CallNext(r)]
  /\ UNCHANGED <<meeting, store, panel, mount, failures>>

\* The last call: the reduction of a review, the last row of a translation.
LastCall(r) ==
  \/ req[r].pc = "reduce"
  \/ /\ req[r].pc = "provider"
     /\ req[r].kind = "translation"
     /\ req[r].start = Len(req[r].detail)

\* What the artifact is made from when the last call returns.
Content(r) == IF req[r].pc = "reduce" THEN req[r].seen ELSE GivenTo(r)

\* The terminal transaction of a request: it is committed and the caller told,
\* or it fails and the artifact stays as it is.
Terminate(r, status, entries, answer) ==
  \/ /\ store' = [store EXCEPT ![r].status = status, ![r].entries = entries]
     /\ Answer(r, answer)
     /\ UNCHANGED <<meeting, panel, mount, failures>>
  \/ /\ failures < MaxFailures
     /\ failures' = failures + 1
     /\ Answer(r, None)
     /\ UNCHANGED <<meeting, store, panel, mount>>

Complete(r) ==
  /\ LastCall(r)
  /\ Terminate(r, "completed", Content(r), r)

\* Mutant of Fail: the provider's error is passed on and nothing is stored
Fail_Unrecorded(r) ==
  /\ req[r].pc \in Waiting
  /\ Answer(r, None)
  /\ UNCHANGED <<meeting, store, panel, mount, failures>>

Fail(r) ==
  /\ req[r].pc \in Waiting
  /\ Terminate(r, "failed", {}, None)

\* The task is cancelled while it waits: a failure to record it is swallowed.
Cancel(r) ==
  /\ req[r].pc \in Waiting
  /\ Terminate(r, "cancelled", {}, None)

\* The backend dies: what it was doing is lost, and the panels that waited for
\* it fail.
Crash ==
  /\ failures < MaxFailures
  /\ failures' = failures + 1
  /\ req' = [r \in Requests |->
               IF req[r].pc = "new" THEN req[r] ELSE Done]
  /\ panel' = [k \in Kinds |->
                 IF panel[k].state \in {"loading", "loaded", "generating"}
                 THEN [state |-> "failed", shown |-> None] ELSE panel[k]]
  /\ UNCHANGED <<meeting, store, mount>>

-----------------------------------------------------------------------------
(* Specification *)

Serve(r) == Refuse(r) \/ Reuse(r) \/ Begin(r) \/ BeginFails(r)
Provide(r) == ProviderContinues(r) \/ Complete(r) \/ Fail(r)

Next ==
  \/ AddRow \/ EndMeeting \/ Open \/ Crash
  \/ \E k \in Kinds : Read(k) \/ Show(k) \/ \E r \in Requests : Press(k, r)
  \/ \E r \in Requests : Serve(r) \/ Provide(r) \/ Cancel(r) \/ Deliver(r)

Spec == Init /\ [][Next]_vars

\* Reads and requests are served, a provider call ends (with an answer or at
\* the timeout of the Ollama client) and answers arrive: as long as any of
\* this is under way, some of it goes on.
Progress ==
  \/ \E k \in Kinds : Read(k) \/ Show(k)
  \/ \E r \in Requests : Serve(r) \/ Provide(r) \/ Deliver(r)

FairSpec == Spec /\ WF_vars(Progress)

-----------------------------------------------------------------------------
(* Properties *)

\* Two generations for one meeting, however they overlap and whatever became
\* of earlier ones, never store the same version of one kind: the version is
\* read in one transaction and stored in the next.
VersionsAreUnique ==
  \A k \in Kinds : \A q, r \in Stored(k) : store[q].version = store[r].version => q = r

\* A completed review or translation was made from every row of the transcript
\* the meeting ended with, whatever the lengths of the rows and the batches.
CompletedIsWhole ==
  \A r \in Requests : store[r].status = "completed" =>
    /\ ended
    /\ store[r].entries = 1 .. Len(transcript)
    /\ store[r].count = Len(transcript)

\* No batch given to the provider is larger than the limit, unless it is a
\* single row.
BatchesFit ==
  \A r \in Requests : req[r].pc = "provider" /\ req[r].kind = "review" =>
    LET s == req[r].start
        e == CallEnd(r) IN
    e > s => ~(Characters(req[r].detail, s, e) > MaxBatchCharacters)

\* An artifact that is still "processing" is being worked on, unless a
\* transaction failed or the backend died.
ProcessingIsWorkedOn ==
  failures = 0 =>
    \A r \in Requests : store[r].status = "processing" => req[r].pc \in Waiting

\* What a panel shows is a finished artifact of its kind, made from the whole
\* transcript, also while others are generated or were left unfinished.
ShownIsFinished ==
  \A k \in Kinds : panel[k].state = "ready" =>
    /\ panel[k].shown \in Completed(k)
    /\ store[panel[k].shown].entries = 1 .. Len(transcript)

\* Regenerating what a panel shows gives a version that is newer than it.
RegenerateIsNew ==
  \A r \in Requests : req[r].replaced # None /\ req[r].result # None =>
    store[req[r].result].version > store[req[r].replaced].version

\* Versions, batches and regenerations: what two overlapping generations and the
\* batches of one must keep, whatever is cancelled, fails or dies.
Inv == TypeOK /\ VersionsAreUnique /\ BatchesFit /\ RegenerateIsNew

\* A finished artifact never changes again.
FinishedIsFinal ==
  [][\A r \in Requests : store[r].status \in Terminal => store'[r] = store[r]]_vars

\* The artifact served to readers is only ever replaced by one that comes after
\* it: for reviews by version, whatever the clock does, for translations by
\* time of creation.
ServedNeverGoesBack ==
  [][\A k \in Kinds : LET a == Latest(k)  b == Latest(k)' IN
       a # None => b # None /\ (k = "review" => store'[b].version >= store[a].version)
                             /\ (k = "translation" => ~Older(store'[b], store[a]))]_vars

\* A panel does not generate for ever: a generation that is asked for ends,
\* whatever fails and whatever earlier generations left behind.
GenerationEnds ==
  \A k \in Kinds : []<>(panel[k].state # "generating")
=============================================================================
