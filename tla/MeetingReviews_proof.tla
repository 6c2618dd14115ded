------------------------ MODULE MeetingReviews_proof ------------------------
(***************************************************************************)
(* Proofs about MeetingReviews, for any requests, any transcript, any limit *)
(* and overlap of the batches: versions are unique, what is completed was   *)
(* made from the whole transcript, and what is finished stays as it is.     *)
(***************************************************************************)
EXTENDS MeetingReviews, Extrema

-----------------------------------------------------------------------------
(* Batches *)

\* A batch starts and ends inside the transcript, and ends at the first row
\* that fills it.
LEMMA BatchEndFills ==
  ASSUME NEW detail \in Seq(Lengths), NEW s \in 1 .. Len(detail)
  PROVE  /\ BatchEnd(detail, s) \in s .. Len(detail)
         /\ \A d \in s .. BatchEnd(detail, s) - 1 : ~Full(detail, s, d)
<1> DEFINE T == {e \in s .. Len(detail) : Full(detail, s, e)}
<1>1. Len(detail) \in Nat /\ T \in SUBSET Nat /\ Len(detail) \in T
  BY DEF Full
<1>2. PICK e \in T : \A d \in T : e <= d
  <2> HIDE DEF T
  <2> QED BY <1>1, LeastNumber
<1>3. \A d \in s .. e - 1 : ~Full(detail, s, d)
  BY <1>1, <1>2
<1>4. e \in s .. Len(detail) /\ Full(detail, s, e)
  BY <1>2
<1> HIDE DEF T
<1> QED BY <1>3, <1>4 DEF BatchEnd

-----------------------------------------------------------------------------
(* The inductive invariant *)

\* A request that waits for the provider owns a "processing" artifact and has
\* given every row before the next one to the provider.
Owns(r) ==
  req[r].pc \in Waiting =>
    /\ ended
    /\ req[r].detail = transcript
    /\ store[r].status = "processing"
    /\ store[r].kind = req[r].kind
    /\ req[r].seen \subseteq 1 .. Len(transcript)
    /\ req[r].pc = "provider" => 1 .. req[r].start - 1 \subseteq req[r].seen
    /\ req[r].pc = "reduce" => req[r].seen = 1 .. Len(transcript)

\* A request that has not been served has read and stored nothing.
Fresh(r) ==
  req[r].pc \in {"new", "sent"} =>
    /\ store[r].status = "absent"
    /\ req[r].start = 1 /\ req[r].seen = {} /\ req[r].result = None

\* An artifact counts the rows of an ended meeting, and has them all once it
\* is completed.
Counts(r) ==
  /\ store[r].status # "absent" => ended /\ store[r].count = Len(transcript)
  /\ store[r].status = "completed" => store[r].entries = 1 .. Len(transcript)

\* A generation asked for in place of an artifact makes a newer one.
Replaces(r) ==
  req[r].replaced # None =>
    /\ req[r].force
    /\ req[r].replaced \in Completed(req[r].kind)
    /\ req[r].pc \in Waiting => store[r].version > store[req[r].replaced].version
    /\ req[r].result # None => store[req[r].result].version > store[req[r].replaced].version

\* What is answered or shown is completed.
AnswersCompleted(r) == req[r].result # None => req[r].result \in Completed(req[r].kind)

ShowsCompleted(k) ==
  /\ panel[k].shown # None =>
       panel[k].state \in {"loaded", "ready"} /\ panel[k].shown \in Completed(k)
  /\ panel[k].state = "ready" => panel[k].shown # None

\* Only so many artifacts have been made: their versions and the times of
\* their creation have a bound.
Bounded == \E b \in Nat :
  \A r \in Requests : store[r].version <= b /\ store[r].created <= b

RequestOK(r) ==
  Owns(r) /\ Fresh(r) /\ Counts(r) /\ Replaces(r) /\ AnswersCompleted(r)

IInv ==
  /\ TypeOK
  /\ \A r \in Requests : RequestOK(r)
  /\ \A k \in Kinds : ShowsCompleted(k)
  /\ VersionsAreUnique
  /\ Bounded

-----------------------------------------------------------------------------
(* Types *)

LEMMA NoneTyped == NoArtifact \in Artifacts /\ NoAsk \in Asks /\ Done \in Asks
                   /\ Loading \in Panels
<1>1. <<>> \in Seq(Lengths)
  OBVIOUS
<1> QED BY <1>1 DEF NoArtifact, Artifacts, Terminal, NoAsk, Asks, Done, Kinds, Loading, Panels, Waiting

LEMMA InitTyped == Init => TypeOK
<1> SUFFICES ASSUME Init PROVE TypeOK
  OBVIOUS
<1>1. transcript \in Seq(Lengths) /\ Len(transcript) <= MaxRows
  BY ConstantsAssumption DEF Init
<1>2. \A r \in Requests : req[r].pc = "new"
  BY DEF Init, NoAsk
<1>3. store \in [Requests -> Artifacts] /\ req \in [Requests -> Asks] /\ panel \in [Kinds -> Panels]
  BY NoneTyped DEF Init
<1>4. ended \in BOOLEAN /\ mount \in 1 .. MaxMounts /\ failures \in 0 .. MaxFailures
  <2>1. ended = FALSE /\ mount = 1 /\ failures = 0
    BY DEF Init
  <2>2. MaxMounts \in Nat \ {0} /\ MaxFailures \in Nat
    BY ConstantsAssumption
  <2>3. 1 <= MaxMounts /\ 0 <= MaxFailures
    BY <2>2
  <2>4. ended \in BOOLEAN
    BY <2>1
  <2>5. mount \in 1 .. MaxMounts /\ failures \in 0 .. MaxFailures
    BY <2>1, <2>2, <2>3
  <2> QED BY <2>4, <2>5
<1> QED BY <1>1, <1>2, <1>3, <1>4 DEF TypeOK

\* The call under way gives rows of the transcript, and leaves the next one a
\* row to start with.
LEMMA CallInside ==
  ASSUME NEW r \in Requests, req[r] \in Asks, req[r].start \in 1 .. Len(req[r].detail)
  PROVE  /\ CallEnd(r) \in req[r].start .. Len(req[r].detail)
         /\ CallEnd(r) # Len(req[r].detail) =>
              /\ CallNext(r) \in req[r].start + 1 .. CallEnd(r) + 1
              /\ CallNext(r) \in 1 .. Len(req[r].detail)
<1> DEFINE d == req[r].detail
          s == req[r].start
          e == CallEnd(r)
<1>1. d \in Seq(Lengths) /\ s \in 1 .. Len(d) /\ Len(d) \in Nat
  BY DEF Asks
<1>2. BatchEnd(d, s) \in s .. Len(d)
  BY <1>1, BatchEndFills
<1>3. e \in s .. Len(d)
  BY <1>1, <1>2 DEF CallEnd
<1>4. \A t \in s .. Len(d) : NextStart(s, t) \in s + 1 .. t + 1
  BY <1>1, ConstantsAssumption DEF NextStart, Larger
<1>5. CallNext(r) \in s + 1 .. e + 1
  BY <1>1, <1>3, <1>4 DEF CallNext, CallEnd
<1> QED BY <1>1, <1>3, <1>5

\* An ask stays one when a field changes; what Begin and Answer change at once
\* is a chain of such changes.
LEMMA AskField ==
  ASSUME NEW o \in Asks
  PROVE  /\ \A v \in {"new", "sent", "answered", "done"} \cup Waiting : [o EXCEPT !.pc = v] \in Asks
         /\ \A v \in Seq(Lengths) : [o EXCEPT !.detail = v] \in Asks
         /\ \A v \in Requests \cup {None} : [o EXCEPT !.result = v] \in Asks
         /\ [o EXCEPT !.start = 1] \in Asks
         /\ [o EXCEPT !.seen = {}] \in Asks
<1>1. ASSUME NEW v \in {"new", "sent", "answered", "done"} \cup Waiting PROVE [o EXCEPT !.pc = v] \in Asks
  BY DEF Asks
<1>2. ASSUME NEW v \in Seq(Lengths) PROVE [o EXCEPT !.detail = v] \in Asks
  BY DEF Asks
<1>3. ASSUME NEW v \in Requests \cup {None} PROVE [o EXCEPT !.result = v] \in Asks
  BY DEF Asks
<1>4. [o EXCEPT !.start = 1] \in Asks
  BY DEF Asks
<1>5. [o EXCEPT !.seen = {}] \in Asks
  BY DEF Asks
<1> QED BY <1>1, <1>2, <1>3, <1>4, <1>5

\* What a request becomes keeps its type.
LEMMA AnswerTyped ==
  ASSUME TypeOK, NEW r \in Requests, NEW a \in Requests \cup {None}, Answer(r, a)
  PROVE  /\ req' \in [Requests -> Asks]
         /\ req'[r].pc = "answered" /\ req'[r].result = a
         /\ req'[r].kind = req[r].kind /\ req'[r].force = req[r].force
         /\ req'[r].replaced = req[r].replaced
         /\ \A q \in Requests : q # r => req'[q] = req[q]
<1>1. req \in [Requests -> Asks]
  BY DEF TypeOK
<1>2. <<>> \in Seq(Lengths)
  OBVIOUS
<1>3. [req[r] EXCEPT !.pc = "answered", !.result = a, !.detail = <<>>, !.start = 1, !.seen = {}]
        \in Asks
  <2>1. PICK o \in Asks : o = [req[r] EXCEPT !.pc = "answered"]
    BY <1>1, AskField
  <2>2. PICK p \in Asks : p = [o EXCEPT !.result = a]
    BY AskField
  <2>3. PICK q \in Asks : q = [p EXCEPT !.detail = <<>>]
    BY <1>2, AskField
  <2>4. PICK s \in Asks : s = [q EXCEPT !.start = 1]
    BY AskField
  <2>5. [s EXCEPT !.seen = {}] \in Asks
    BY AskField
  <2> QED BY <2>1, <2>2, <2>3, <2>4, <2>5
<1> QED BY <1>1, <1>3 DEF Answer, Asks

\* A new version is larger than every stored one of its kind.
LEMMA VersionTyped ==
  ASSUME TypeOK, Bounded, NEW k \in Kinds
  PROVE  /\ LatestVersion(k) \in Nat
         /\ \A r \in Stored(k) : store[r].version <= LatestVersion(k)
<1>1. \A r \in Requests : store[r].version \in Nat
  BY DEF TypeOK, Artifacts
<1>2. Versions(k) \in SUBSET Nat /\ 0 \in Versions(k)
  BY <1>1 DEF Versions, Stored
<1>3. PICK b \in Nat : \A r \in Requests : store[r].version <= b
  BY DEF Bounded
<1>4. \A v \in Versions(k) : v <= b
  BY <1>3 DEF Versions, Stored
<1>5. \E v \in Versions(k) : \A w \in Versions(k) : w <= v
  BY <1>2, <1>4, GreatestNumber
<1>6. LatestVersion(k) \in Versions(k) /\ \A w \in Versions(k) : w <= LatestVersion(k)
  BY <1>5 DEF LatestVersion
<1> QED BY <1>2, <1>6 DEF Versions

\* What is served is a completed artifact that precedes no other, or nothing
\* when none is completed.
LEMMA LatestServes ==
  ASSUME TypeOK, Bounded, NEW k \in Kinds
  PROVE  IF Completed(k) = {} THEN Latest(k) = None
         ELSE /\ Latest(k) \in Completed(k)
              /\ \A q \in Completed(k) : ~Precedes(k, store[Latest(k)], store[q])
<1>1. CASE Completed(k) = {}
  BY <1>1 DEF Latest
<1>2. CASE Completed(k) # {}
  <2> DEFINE C == Completed(k)
  <2>1. \A r \in C : r \in Requests /\ store[r].version \in Nat /\ store[r].created \in Nat
    BY DEF TypeOK, Artifacts, Completed, Stored
  <2>2. PICK b \in Nat : \A r \in C : store[r].version <= b /\ store[r].created <= b
    BY DEF Bounded, Completed, Stored
  <2>3. \E r \in C : \A q \in C : ~Precedes(k, store[r], store[q])
    <3>1. CASE k = "review"
      <4> DEFINE V == {store[r].version : r \in C}
      <4>1. V \in SUBSET Nat /\ V # {} /\ \A v \in V : v <= b
        BY <1>2, <2>1, <2>2
      <4>2. PICK v \in V : \A w \in V : w <= v
        <5> HIDE DEF V
        <5> QED BY <4>1, GreatestNumber
      <4>3. PICK r \in C : store[r].version = v
        OBVIOUS
      <4>4. \A q \in C : store[q].version <= store[r].version
        BY <4>2, <4>3
      <4>5. \A q \in C : ~(store[r].version < store[q].version)
        BY <4>4, <2>1
      <4> QED BY <3>1, <4>5 DEF Precedes
    <3>2. CASE k # "review"
      <4> DEFINE T == {store[r].created : r \in C}
      <4>1. T \in SUBSET Nat /\ T # {} /\ \A t \in T : t <= b
        BY <1>2, <2>1, <2>2
      <4>2. PICK t \in T : \A u \in T : u <= t
        <5> HIDE DEF T
        <5> QED BY <4>1, GreatestNumber
      <4> DEFINE D == {r \in C : store[r].created = t}
                V == {store[r].version : r \in D}
      <4>3. V \in SUBSET Nat /\ V # {} /\ \A v \in V : v <= b
        BY <4>2, <2>1, <2>2
      <4>4. PICK v \in V : \A w \in V : w <= v
        <5> HIDE DEF V
        <5> QED BY <4>3, GreatestNumber
      <4>5. PICK r \in D : store[r].version = v
        OBVIOUS
      <4>6. ASSUME NEW q \in C PROVE ~Older(store[r], store[q])
        <5>1. store[q].created <= store[r].created
          BY <4>2, <4>5
        <5>2. store[q].created = store[r].created => store[q].version <= store[r].version
          BY <4>4, <4>5
        <5>3. r \in C
          BY <4>5
        <5> QED BY <5>1, <5>2, <5>3, <2>1 DEF Older
      <4>7. r \in C /\ \A q \in C : ~Precedes(k, store[r], store[q])
        BY <3>2, <4>5, <4>6 DEF Precedes
      <4> QED BY <4>7
    <3> QED BY <3>1, <3>2
  <2>4. Latest(k) = CHOOSE r \in C : \A q \in C : ~Precedes(k, store[r], store[q])
    BY <1>2 DEF Latest
  <2> HIDE DEF C
  <2>5. Latest(k) \in C /\ \A q \in C : ~Precedes(k, store[Latest(k)], store[q])
    BY <2>3, <2>4
  <2> QED BY <1>2, <2>5 DEF C
<1> QED BY <1>1, <1>2

-----------------------------------------------------------------------------
(* What a step does to the artifacts *)

\* A step writes the artifact of one request: a new one, of a version that is
\* larger than every other of its kind, or the end of one being processed.
Creates(r) == \E now \in Times :
  /\ ended /\ req[r].pc = "sent"
  /\ LET new == NewArtifact(req[r].kind, now) IN
       \/ store' = [store EXCEPT ![r] = new]
       \/ /\ transcript = <<>>
          /\ store' = [store EXCEPT ![r] = [new EXCEPT !.status = "completed"]]

Ends(r) == \E s \in Terminal, e \in SUBSET (1 .. Len(transcript)) :
  /\ req[r].pc \in Waiting
  /\ s = "completed" => e = 1 .. Len(transcript)
  /\ store' = [store EXCEPT ![r].status = s, ![r].entries = e]

Keeps == store' = store

\* What then holds of the artifacts, whatever the step does to the rest.
StoreStep ==
  /\ store' \in [Requests -> Artifacts]
  /\ \A q \in Requests : store[q].status # "absent" =>
       /\ store'[q].status # "absent"
       /\ store'[q].kind = store[q].kind
       /\ store'[q].version = store[q].version
       /\ store'[q].count = store[q].count
  /\ \A q \in Requests : store[q].status \in Terminal => store'[q] = store[q]
  /\ VersionsAreUnique'
  /\ Bounded'
  /\ \A k \in Kinds : Completed(k) \subseteq Completed(k)'

LEMMA NewTyped ==
  ASSUME TypeOK, Bounded, NEW k \in Kinds, NEW now \in Times
  PROVE  NewArtifact(k, now) \in Artifacts
<1>1. LatestVersion(k) + 1 \in Nat /\ now \in Nat /\ Len(transcript) \in Nat
  BY VersionTyped, ConstantsAssumption DEF TypeOK
<1> QED BY <1>1 DEF NewArtifact, Artifacts

LEMMA CreatesStore ==
  ASSUME IInv, NEW r \in Requests, Creates(r)
  PROVE  StoreStep
<1>1. PICK now \in Times, a \in Artifacts :
        /\ store' = [store EXCEPT ![r] = a]
        /\ a.kind = req[r].kind /\ a.version = LatestVersion(req[r].kind) + 1
        /\ a.created = now /\ a.status # "absent"
  <2>1. TypeOK /\ Bounded /\ req[r].kind \in Kinds
    BY DEF IInv, TypeOK, Asks
  <2>2. PICK now \in Times :
          LET new == NewArtifact(req[r].kind, now) IN
            \/ store' = [store EXCEPT ![r] = new]
            \/ store' = [store EXCEPT ![r] = [new EXCEPT !.status = "completed"]]
    BY DEF Creates
  <2>3. NewArtifact(req[r].kind, now) \in Artifacts
    BY <2>1, NewTyped
  <2>4. [NewArtifact(req[r].kind, now) EXCEPT !.status = "completed"] \in Artifacts
    BY <2>3 DEF Artifacts, Terminal
  <2> QED BY <2>2, <2>3, <2>4 DEF NewArtifact
<1>2. /\ store \in [Requests -> Artifacts] /\ req[r].kind \in Kinds
      /\ store[r].status = "absent"
  BY DEF IInv, TypeOK, Asks, Fresh, RequestOK, Creates
<1>3. store' \in [Requests -> Artifacts] /\ store'[r] = a
      /\ \A q \in Requests : q # r => store'[q] = store[q]
  BY <1>1, <1>2
<1>4. LatestVersion(req[r].kind) \in Nat
      /\ \A q \in Stored(req[r].kind) : store[q].version <= LatestVersion(req[r].kind)
  BY <1>2, VersionTyped DEF IInv
<1>5. VersionsAreUnique'
  <2> SUFFICES ASSUME NEW k \in Kinds, NEW p \in Stored(k)', NEW q \in Stored(k)',
                      store'[p].version = store'[q].version
               PROVE  p = q
    BY DEF VersionsAreUnique
  <2>1. p \in Requests /\ q \in Requests
    BY DEF Stored
  <2>2. \A t \in Requests : t # r /\ t \in Stored(k)' => t \in Stored(k)
    BY <1>3 DEF Stored
  <2>3. \A t \in Stored(k) : t # r /\ r \in Stored(k)' => store'[t].version # store'[r].version
    <3> SUFFICES ASSUME NEW t \in Stored(k), t # r, r \in Stored(k)'
                 PROVE  store'[t].version # store'[r].version
      OBVIOUS
    <3>1. k = req[r].kind
      BY <1>1, <1>3 DEF Stored
    <3>2. store'[t].version <= LatestVersion(k)
      BY <3>1, <1>3, <1>4 DEF Stored
    <3>3. store'[t].version \in Nat
      BY <1>3 DEF Artifacts, Stored
    <3> QED BY <3>1, <3>2, <3>3, <1>1, <1>3, <1>4
  <2>4. p # r /\ q # r => store[p].version = store[q].version
    BY <1>3, <2>1
  <2> QED BY <2>1, <2>2, <2>3, <2>4 DEF IInv, VersionsAreUnique
<1>6. Bounded'
  <2>1. PICK b \in Nat : \A q \in Requests : store[q].version <= b /\ store[q].created <= b
    BY DEF IInv, Bounded
  <2>2. a.version \in Nat /\ a.created \in Nat
    BY DEF Artifacts
  <2>3. \A q \in Requests : store[q].version \in Nat /\ store[q].created \in Nat
    BY <1>2 DEF Artifacts
  <2>4. \A q \in Requests : /\ store'[q].version <= b + a.version + a.created
                          /\ store'[q].created <= b + a.version + a.created
    BY <1>3, <2>1, <2>2, <2>3
  <2>5. b + a.version + a.created \in Nat
    BY <2>2
  <2> QED BY <2>4, <2>5 DEF Bounded
<1>7. \A q \in Requests : store[q].status # "absent" => store'[q] = store[q]
  BY <1>2, <1>3
<1>8. \A k \in Kinds : Completed(k) \subseteq Completed(k)'
  BY <1>7 DEF Completed, Stored
<1>9. \A q \in Requests : store[q].status \in Terminal => store'[q] = store[q]
  BY <1>7 DEF Terminal
<1> QED BY <1>3, <1>5, <1>6, <1>7, <1>8, <1>9 DEF StoreStep

LEMMA EndsStore ==
  ASSUME IInv, NEW r \in Requests, Ends(r)
  PROVE  StoreStep
<1>1. PICK s \in Terminal, e \in SUBSET (1 .. Len(transcript)) :
        store' = [store EXCEPT ![r].status = s, ![r].entries = e]
  BY DEF Ends
<1>2. store \in [Requests -> Artifacts] /\ store[r].status = "processing"
  BY DEF IInv, TypeOK, Owns, RequestOK, Ends
<1>3. e \in SUBSET Nat
  OBVIOUS
<1>4. /\ store' \in [Requests -> Artifacts]
      /\ \A q \in Requests : q # r => store'[q] = store[q]
      /\ store'[r] = [store[r] EXCEPT !.status = s, !.entries = e]
  BY <1>1, <1>2, <1>3 DEF Artifacts
<1>5. \A q \in Requests :
        /\ store'[q].kind = store[q].kind /\ store'[q].version = store[q].version
        /\ store'[q].count = store[q].count /\ store'[q].created = store[q].created
        /\ store'[q].status # "absent" <=> store[q].status # "absent"
  <2>1. s # "absent"
    BY DEF Terminal
  <2>2. store[r] \in Artifacts
    BY <1>2
  <2>3. /\ store'[r].kind = store[r].kind /\ store'[r].version = store[r].version
        /\ store'[r].count = store[r].count /\ store'[r].created = store[r].created
        /\ store'[r].status = s
    BY <1>4, <2>2 DEF Artifacts
  <2> QED BY <1>2, <1>4, <2>1, <2>3
<1>6. \A q \in Requests : store[q].status \in Terminal => store'[q] = store[q]
  BY <1>2, <1>4 DEF Terminal
<1>7. \A k \in Kinds : Stored(k)' = Stored(k)
  BY <1>5 DEF Stored
<1>8. VersionsAreUnique'
  BY <1>5, <1>7 DEF IInv, VersionsAreUnique, Stored
<1>9. Bounded'
  BY <1>5 DEF IInv, Bounded
<1>10. \A k \in Kinds : Completed(k) \subseteq Completed(k)'
  BY <1>6, <1>7 DEF Completed, Terminal, Stored
<1> QED BY <1>4, <1>5, <1>6, <1>8, <1>9, <1>10 DEF StoreStep

LEMMA KeepsStore ==
  ASSUME IInv, Keeps
  PROVE  StoreStep
BY DEF IInv, TypeOK, Keeps, StoreStep, VersionsAreUnique, Bounded, Completed, Stored

-----------------------------------------------------------------------------
(* What a step does to the requests and the panels *)

\* A request that the step leaves alone, with its artifact, stays as it should be.
LEMMA OthersOK ==
  ASSUME IInv, StoreStep, UNCHANGED meeting,
         NEW q \in Requests, req'[q] = req[q], store'[q] = store[q]
  PROVE  RequestOK(q)'
<1>1. RequestOK(q) /\ req[q] \in Asks
  BY DEF IInv, TypeOK
<1>2. \A k \in Kinds : \A p \in Completed(k) : p \in Completed(k)' /\ store'[p] = store[p]
  BY DEF StoreStep, Completed, Stored, Terminal
<1>3. Owns(q)' /\ Fresh(q)' /\ Counts(q)'
  BY <1>1 DEF RequestOK, Owns, Fresh, Counts, meeting
<1>4. req[q].kind \in Kinds
  BY <1>1 DEF Asks
<1>5. AnswersCompleted(q)'
  BY <1>1, <1>2, <1>4 DEF RequestOK, AnswersCompleted
<1>6. Replaces(q)'
  BY <1>1, <1>2, <1>4 DEF RequestOK, Replaces, AnswersCompleted
<1> QED BY <1>3, <1>5, <1>6 DEF RequestOK

LEMMA PanelsOK ==
  ASSUME IInv, StoreStep, NEW k \in Kinds, panel'[k] = panel[k]
  PROVE  ShowsCompleted(k)'
BY DEF IInv, StoreStep, ShowsCompleted

\* The invariant of the next state, from what the step did.
LEMMA Assemble ==
  ASSUME IInv, StoreStep, UNCHANGED meeting,
         req' \in [Requests -> Asks], panel' \in [Kinds -> Panels],
         mount' \in 1 .. MaxMounts, failures' \in 0 .. MaxFailures,
         \A q \in Requests :
           \/ req'[q] = req[q] /\ store'[q] = store[q]
           \/ /\ RequestOK(q)'
              /\ req'[q].pc = "provider" => req'[q].start \in 1 .. Len(req'[q].detail),
         \A k \in Kinds : panel'[k] = panel[k] \/ ShowsCompleted(k)'
  PROVE  IInv'
<1>1. \A q \in Requests : RequestOK(q)'
  BY OthersOK
<1>2. \A k \in Kinds : ShowsCompleted(k)'
  BY PanelsOK
<1>3. \A q \in Requests :
        req'[q].pc = "provider" => req'[q].start \in 1 .. Len(req'[q].detail)
  BY DEF IInv, TypeOK
<1>4. /\ ended' \in BOOLEAN
      /\ transcript' \in Seq(Lengths) /\ Len(transcript') <= MaxRows
  BY DEF IInv, TypeOK, meeting
<1>5. TypeOK'
  BY <1>3, <1>4 DEF TypeOK, StoreStep
<1> QED BY <1>1, <1>2, <1>5 DEF IInv, StoreStep

\* Actions of the meeting: nothing is stored, or asked in vain, before its end.
LEMMA MeetingSteps ==
  ASSUME IInv, AddRow \/ EndMeeting
  PROVE  IInv' /\ StoreStep
<1>1. ~ended /\ UNCHANGED <<store, req, panel, mount, failures>>
  BY DEF AddRow, EndMeeting, MayAdd
<1>2. StoreStep
  BY <1>1, KeepsStore DEF Keeps
<1>3. ended' \in BOOLEAN /\ transcript' \in Seq(Lengths) /\ Len(transcript') <= MaxRows
  <2>1. CASE AddRow
    <3>1. PICK n \in Lengths : Len(transcript) < MaxRows /\ transcript' = Append(transcript, n)
      BY <2>1 DEF AddRow
    <3>2. transcript \in Seq(Lengths) /\ ended' \in BOOLEAN /\ MaxRows \in Nat
      BY <2>1, ConstantsAssumption DEF AddRow, IInv, TypeOK
    <3> QED BY <3>1, <3>2
  <2>2. CASE EndMeeting
    BY <2>2 DEF EndMeeting, IInv, TypeOK
  <2> QED BY <2>1, <2>2
<1>4. TypeOK'
  BY <1>1, <1>3 DEF IInv, TypeOK
<1>5. \A q \in Requests : store[q].status = "absent"
  BY <1>1 DEF IInv, RequestOK, Counts
<1>6. \A k \in Kinds : Completed(k) = {} /\ Completed(k)' = {}
  BY <1>1, <1>5 DEF Completed, Stored
<1>7. ASSUME NEW q \in Requests PROVE RequestOK(q)'
  <2>1. RequestOK(q) /\ req'[q] = req[q] /\ store'[q] = store[q] /\ req[q].kind \in Kinds
    BY <1>1 DEF IInv, TypeOK, Asks
  <2>2. req[q].pc \notin Waiting
    BY <2>1, <1>1 DEF RequestOK, Owns
  <2>3. req[q].replaced = None /\ req[q].result = None
    BY <2>1, <1>6 DEF RequestOK, Replaces, AnswersCompleted
  <2> QED BY <2>1, <2>2, <2>3, <1>5 DEF RequestOK, Owns, Fresh, Counts, Replaces, AnswersCompleted
<1>8. \A k \in Kinds : ShowsCompleted(k)'
  BY <1>1, <1>2, PanelsOK
<1> QED BY <1>2, <1>4, <1>7, <1>8 DEF IInv, StoreStep

\* Actions of the desktop.
LEMMA PressStep ==
  ASSUME IInv, NEW k \in Kinds, NEW r \in Requests, Press(k, r)
  PROVE  IInv' /\ StoreStep
<1>1. UNCHANGED <<meeting, store, mount, failures>> /\ StoreStep
  BY KeepsStore DEF Press, Keeps
<1>2. /\ req \in [Requests -> Asks] /\ panel \in [Kinds -> Panels] /\ mount \in 1 .. MaxMounts
      /\ failures \in 0 .. MaxFailures
  BY DEF IInv, TypeOK
<1>3. req[r].pc = "new" /\ panel[k].state \in {"ready", "unavailable", "failed"}
  BY DEF Press, IsNext
<1>4. /\ panel'[k].shown = None /\ panel'[k].state = "generating" /\ panel' \in [Kinds -> Panels]
      /\ \A j \in Kinds : j # k => panel'[j] = panel[j]
  BY <1>2 DEF Press, Panels
<1> DEFINE ask == [req[r] EXCEPT !.pc = "sent", !.kind = k, !.force = ShouldForce(k),
                                 !.mount = mount, !.replaced = panel[k].shown]
<1>5. req' = [req EXCEPT ![r] = ask]
  BY DEF Press
<1>6. ask \in Asks
  <2>1. ShouldForce(k) \in BOOLEAN
    BY DEF ShouldForce
  <2>2. mount \in Nat /\ panel[k].shown \in Requests \cup {None}
    BY <1>2 DEF Panels
  <2>3. req[r] \in Asks
    BY <1>2
  <2> QED BY <2>1, <2>2, <2>3 DEF Asks
<1>7. /\ ask.pc = "sent" /\ ask.kind = k /\ ask.replaced = panel[k].shown
      /\ ask.start = req[r].start /\ ask.seen = req[r].seen /\ ask.result = req[r].result
      /\ (panel[k].state = "ready" => ask.force)
  BY <1>2 DEF Asks, ShouldForce
<1> HIDE DEF ask
<1>8. /\ req' \in [Requests -> Asks] /\ req'[r] = ask
      /\ \A q \in Requests : q # r => req'[q] = req[q] /\ store'[q] = store[q]
  BY <1>1, <1>2, <1>5, <1>6
<1>9. RequestOK(r)'
  <2>1. Fresh(r) /\ Counts(r) /\ ShowsCompleted(k)
    BY DEF IInv, RequestOK
  <2>2. store'[r] = store[r] /\ Completed(k)' = Completed(k)
    BY <1>1 DEF Completed, Stored
  <2>3. Owns(r)' /\ Fresh(r)' /\ Counts(r)' /\ AnswersCompleted(r)'
    BY <1>1, <1>3, <1>7, <1>8, <2>1, <2>2
    DEF Owns, Fresh, Counts, AnswersCompleted, Waiting, meeting
  <2>4. Replaces(r)'
    BY <1>3, <1>7, <1>8, <2>1, <2>2 DEF Replaces, ShowsCompleted, Fresh, Waiting
  <2> QED BY <2>3, <2>4 DEF RequestOK
<1>10. req'[r].pc # "provider"
  BY <1>7, <1>8
<1>11. \A j \in Kinds : panel'[j] = panel[j] \/ ShowsCompleted(j)'
  BY <1>4 DEF ShowsCompleted
<1> QED BY <1>1, <1>2, <1>4, <1>8, <1>9, <1>10, <1>11, Assemble

LEMMA PanelSteps ==
  ASSUME IInv, Open \/ \E k \in Kinds : Read(k) \/ Show(k)
  PROVE  IInv' /\ StoreStep
<1>1. UNCHANGED <<meeting, store, req, failures>> /\ StoreStep
  BY KeepsStore DEF Open, Read, Show, Keeps
<1>2. /\ req \in [Requests -> Asks] /\ panel \in [Kinds -> Panels] /\ mount \in 1 .. MaxMounts
      /\ failures \in 0 .. MaxFailures
  BY DEF IInv, TypeOK
<1>3. \A k \in Kinds : Completed(k)' = Completed(k)
  BY <1>1 DEF Completed, Stored
<1>4. CASE Open
  <2>1. mount' \in 1 .. MaxMounts /\ panel' \in [Kinds -> Panels]
    BY <1>2, <1>4, NoneTyped, ConstantsAssumption DEF Open
  <2>2. \A k \in Kinds : ShowsCompleted(k)'
    BY <1>4 DEF Open, Loading, ShowsCompleted
  <2> QED BY <1>1, <1>2, <2>1, <2>2, Assemble
<1>5. ASSUME NEW k \in Kinds, Read(k) PROVE IInv'
  <2>1. Latest(k) # None => Latest(k) \in Completed(k)
    BY LatestServes DEF IInv
  <2>2. Latest(k) \in Requests \cup {None}
    BY <2>1 DEF Completed, Stored
  <2>3. /\ panel' \in [Kinds -> Panels] /\ panel'[k] = [state |-> "loaded", shown |-> Latest(k)]
        /\ \A j \in Kinds : j # k => panel'[j] = panel[j]
    BY <1>2, <1>5, <2>2 DEF Read, Panels
  <2>4. ShowsCompleted(k)'
    BY <2>1, <2>3, <1>3 DEF ShowsCompleted
  <2>5. mount' = mount
    BY <1>5 DEF Read
  <2> QED BY <1>1, <1>2, <2>3, <2>4, <2>5, Assemble
<1>6. ASSUME NEW k \in Kinds, Show(k) PROVE IInv'
  <2>1. /\ panel' \in [Kinds -> Panels] /\ panel'[k].shown = panel[k].shown
        /\ panel'[k].state = IF panel[k].shown = None THEN "unavailable" ELSE "ready"
        /\ \A j \in Kinds : j # k => panel'[j] = panel[j]
    BY <1>2, <1>6 DEF Show, Panels
  <2>2. ShowsCompleted(k)
    BY DEF IInv
  <2>3. ShowsCompleted(k)'
    BY <2>1, <2>2, <1>3 DEF ShowsCompleted
  <2>4. mount' = mount
    BY <1>6 DEF Show
  <2> QED BY <1>1, <1>2, <2>1, <2>3, <2>4, Assemble
<1> QED BY <1>1, <1>4, <1>5, <1>6

\* A request that is done asks for nothing.
LEMMA DoneOK ==
  ASSUME IInv, StoreStep, UNCHANGED meeting,
         NEW q \in Requests, req'[q] = Done, store'[q] = store[q]
  PROVE  RequestOK(q)'
<1>1. Counts(q)
  BY DEF IInv, RequestOK
<1> QED BY <1>1 DEF RequestOK, Owns, Fresh, Counts, Replaces, AnswersCompleted, Done, NoAsk,
                    Waiting, meeting

LEMMA DeliverStep ==
  ASSUME IInv, NEW r \in Requests, Deliver(r)
  PROVE  IInv' /\ StoreStep
<1>1. UNCHANGED <<meeting, store, mount, failures>> /\ StoreStep
  BY KeepsStore DEF Deliver, Keeps
<1>2. /\ req \in [Requests -> Asks] /\ panel \in [Kinds -> Panels] /\ mount \in 1 .. MaxMounts
      /\ failures \in 0 .. MaxFailures
  BY DEF IInv, TypeOK
<1>3. /\ req' \in [Requests -> Asks] /\ req'[r] = Done
      /\ \A q \in Requests : q # r => req'[q] = req[q] /\ store'[q] = store[q]
  BY <1>1, <1>2, NoneTyped DEF Deliver
<1>4. RequestOK(r)' /\ req'[r].pc # "provider"
  BY <1>1, <1>3, DoneOK DEF Done
<1>5. PICK k \in Kinds, answer \in Requests \cup {None} :
        k = req[r].kind /\ answer = req[r].result
  BY <1>2 DEF Asks
<1>6. answer # None => answer \in Completed(k)'
  BY <1>1, <1>5 DEF IInv, RequestOK, AnswersCompleted, StoreStep
<1>7. /\ panel' \in [Kinds -> Panels]
      /\ \A j \in Kinds : panel'[j] = panel[j] \/ ShowsCompleted(j)'
  <2>1. CASE panel' = panel
    BY <2>1, <1>2
  <2>2. CASE panel' = [panel EXCEPT ![k] = [state |-> IF answer = None THEN "failed" ELSE "ready",
                                            shown |-> answer]]
    <3>1. panel' \in [Kinds -> Panels] /\ \A j \in Kinds : j # k => panel'[j] = panel[j]
      BY <2>2, <1>2, <1>5 DEF Panels
    <3>2. panel'[k] = [state |-> IF answer = None THEN "failed" ELSE "ready", shown |-> answer]
      BY <2>2, <1>2, <1>5
    <3>3. ShowsCompleted(k)'
      BY <3>2, <1>6 DEF ShowsCompleted
    <3> QED BY <3>1, <3>3
  <2> QED BY <1>5, <2>1, <2>2 DEF Deliver
<1> QED BY <1>1, <1>2, <1>3, <1>4, <1>7, Assemble

LEMMA CrashStep ==
  ASSUME IInv, Crash
  PROVE  IInv' /\ StoreStep
<1>1. UNCHANGED <<meeting, store, mount>> /\ StoreStep
  BY KeepsStore DEF Crash, Keeps
<1>2. /\ req \in [Requests -> Asks] /\ panel \in [Kinds -> Panels] /\ mount \in 1 .. MaxMounts
      /\ failures \in 0 .. MaxFailures
  BY DEF IInv, TypeOK
<1>3. failures' \in 0 .. MaxFailures
  BY <1>2, ConstantsAssumption DEF Crash
<1>4. /\ req' \in [Requests -> Asks]
      /\ \A q \in Requests : req'[q] = req[q] \/ req'[q] = Done
  BY <1>2, NoneTyped DEF Crash
<1>5. /\ panel' \in [Kinds -> Panels]
      /\ \A k \in Kinds : panel'[k] = panel[k] \/ panel'[k] = [state |-> "failed", shown |-> None]
  BY <1>2 DEF Crash, Panels
<1>6. \A k \in Kinds : panel'[k] = panel[k] \/ ShowsCompleted(k)'
  BY <1>5 DEF ShowsCompleted
<1>7. \A q \in Requests :
        \/ req'[q] = req[q] /\ store'[q] = store[q]
        \/ RequestOK(q)' /\ req'[q].pc # "provider"
  <2> SUFFICES ASSUME NEW q \in Requests, req'[q] = Done
               PROVE  RequestOK(q)' /\ req'[q].pc # "provider"
    BY <1>1, <1>4
  <2>1. store'[q] = store[q] /\ Done.pc = "done"
    BY <1>1 DEF Done, NoAsk
  <2> QED BY <1>1, <2>1, DoneOK
<1> QED BY <1>1, <1>2, <1>3, <1>4, <1>5, <1>6, <1>7, Assemble

\* Actions of the use cases that answer: what is answered with is completed, and
\* newer than what it was asked in place of.
LEMMA AnswerOK ==
  ASSUME IInv, StoreStep, UNCHANGED <<meeting, panel, mount>>, failures' \in 0 .. MaxFailures,
         NEW r \in Requests, NEW a \in Requests \cup {None}, Answer(r, a),
         NEW k \in Kinds, k = req[r].kind,
         \A q \in Requests : q # r => store'[q] = store[q],
         Counts(r)',
         a # None => /\ a \in Completed(k)'
                     /\ req[r].replaced # None =>
                          store'[a].version > store[req[r].replaced].version
  PROVE  IInv'
<1>1. TypeOK /\ req[r] \in Asks /\ RequestOK(r)
  BY DEF IInv, TypeOK
<1>2. /\ req' \in [Requests -> Asks]
      /\ req'[r].pc = "answered" /\ req'[r].result = a
      /\ req'[r].kind = k /\ req'[r].force = req[r].force
      /\ req'[r].replaced = req[r].replaced
      /\ \A q \in Requests : q # r => req'[q] = req[q]
  BY <1>1, AnswerTyped
<1>3. Owns(r)' /\ Fresh(r)' /\ AnswersCompleted(r)'
  BY <1>2 DEF Owns, Fresh, AnswersCompleted, Waiting
<1>4. Replaces(r)'
  <2> SUFFICES ASSUME req[r].replaced # None PROVE Replaces(r)'
    BY <1>2 DEF Replaces
  <2>1. req[r].force /\ req[r].replaced \in Completed(k)
    BY <1>1 DEF RequestOK, Replaces
  <2>2. PICK p \in Completed(k) : p = req[r].replaced
    BY <2>1
  <2>3. p \in Completed(k)' /\ store'[p] = store[p]
    BY DEF StoreStep, Completed, Stored, Terminal
  <2> QED BY <1>2, <2>1, <2>2, <2>3 DEF Replaces, Waiting
<1>5. RequestOK(r)' /\ req'[r].pc # "provider"
  BY <1>2, <1>3, <1>4 DEF RequestOK
<1>6. panel' \in [Kinds -> Panels] /\ mount' \in 1 .. MaxMounts
  BY <1>1 DEF TypeOK
<1> QED BY <1>2, <1>5, <1>6, Assemble

LEMMA RefuseStep ==
  ASSUME IInv, NEW r \in Requests, Refuse(r) \/ Reuse(r)
  PROVE  IInv' /\ StoreStep
<1>1. UNCHANGED <<meeting, store, panel, mount, failures>> /\ StoreStep
  BY KeepsStore DEF Refuse, Reuse, Keeps
<1>2. PICK k \in Kinds : k = req[r].kind
  BY DEF IInv, TypeOK, Asks
<1>3. failures' \in 0 .. MaxFailures /\ RequestOK(r) /\ TypeOK /\ Bounded
  BY <1>1 DEF IInv, TypeOK
<1>4. Counts(r)'
  BY <1>1, <1>3 DEF RequestOK, Counts, meeting
<1>5. CASE Refuse(r)
  BY <1>1, <1>2, <1>3, <1>4, <1>5, AnswerOK DEF Refuse
<1>6. CASE Reuse(r)
  <2>1. PICK a : a = Latest(k)
    OBVIOUS
  <2>2. a # None /\ ~req[r].force /\ Answer(r, a)
    BY <1>2, <1>6, <2>1 DEF Reuse, Reuses, CanReuse
  <2>3. a \in Completed(k) /\ a \in Requests
    BY <1>3, <2>1, <2>2, LatestServes DEF Completed, Stored
  <2>4. a \in Completed(k)'
    BY <2>3, <1>1 DEF StoreStep
  <2>5. req[r].replaced = None
    BY <1>3, <2>2 DEF RequestOK, Replaces
  <2> QED BY <1>1, <1>2, <1>3, <1>4, <2>2, <2>3, <2>4, <2>5, AnswerOK
<1> QED BY <1>1, <1>5, <1>6

\* The first transaction of a generation.
LEMMA BeginStep ==
  ASSUME IInv, NEW r \in Requests, Begin(r) \/ BeginFails(r)
  PROVE  IInv' /\ StoreStep /\ (Keeps \/ Creates(r))
<1>1. PICK k \in Kinds : k = req[r].kind
  BY DEF IInv, TypeOK, Asks
<1>2. /\ TypeOK /\ Bounded /\ RequestOK(r) /\ req \in [Requests -> Asks]
      /\ store \in [Requests -> Artifacts] /\ panel \in [Kinds -> Panels]
      /\ mount \in 1 .. MaxMounts /\ failures \in 0 .. MaxFailures
      /\ transcript \in Seq(Lengths) /\ Len(transcript) \in Nat
  BY DEF IInv, TypeOK
<1>3. /\ UNCHANGED <<meeting, panel, mount>> /\ failures' \in 0 .. MaxFailures
      /\ ended /\ req[r].pc = "sent"
  BY <1>2, ConstantsAssumption DEF Begin, BeginFails
<1>4. /\ store[r].status = "absent" /\ req[r].start = 1 /\ req[r].seen = {}
      /\ req[r].result = None
  BY <1>2, <1>3 DEF RequestOK, Fresh
<1>5. \A now \in Times : LET new == NewArtifact(k, now) IN
        /\ new \in Artifacts /\ new.kind = k /\ new.version = LatestVersion(k) + 1
        /\ new.status = "processing" /\ new.count = Len(transcript) /\ new.entries = {}
  BY <1>2, NewTyped DEF NewArtifact
<1>6. \A p \in Completed(k) : p \in Requests /\ store[p].version < LatestVersion(k) + 1
  <2> SUFFICES ASSUME NEW p \in Completed(k) PROVE p \in Requests /\ store[p].version < LatestVersion(k) + 1
    OBVIOUS
  <2>1. p \in Stored(k) /\ p \in Requests
    BY DEF Completed, Stored
  <2>2. store[p].version \in Nat
    BY <2>1, <1>2 DEF Artifacts
  <2> QED BY <2>1, <2>2, <1>2, VersionTyped
<1>7. transcript = <<>> => 1 .. Len(transcript) = {}
  OBVIOUS
<1>8. CASE Begin(r) /\ transcript = <<>>
  <2>1. PICK now \in Times :
          /\ store' = [store EXCEPT ![r] = [NewArtifact(k, now) EXCEPT !.status = "completed"]]
          /\ Answer(r, r)
    BY <1>1, <1>8 DEF Begin
  <2>2. Creates(r) /\ StoreStep
    BY <1>1, <1>3, <1>8, <2>1, CreatesStore DEF Creates
  <2>3. /\ store'[r].status = "completed" /\ store'[r].kind = k
        /\ store'[r].version = LatestVersion(k) + 1 /\ store'[r].count = Len(transcript)
        /\ store'[r].entries = {}
        /\ \A q \in Requests : q # r => store'[q] = store[q]
    BY <1>2, <1>5, <2>1 DEF Artifacts
  <2>4. Counts(r)'
    BY <1>3, <1>7, <1>8, <2>3 DEF Counts, meeting
  <2>5. r \in Completed(k)'
    BY <2>3 DEF Completed, Stored
  <2>6. req[r].replaced # None => store'[r].version > store[req[r].replaced].version
    <3> SUFFICES ASSUME req[r].replaced # None PROVE store'[r].version > store[req[r].replaced].version
      OBVIOUS
    <3>1. req[r].replaced \in Completed(k)
      BY <1>1, <1>2 DEF RequestOK, Replaces
    <3>2. store[req[r].replaced].version \in Nat /\ LatestVersion(k) \in Nat
      BY <3>1, <1>2, <1>6, VersionTyped DEF Artifacts
    <3> QED BY <3>1, <3>2, <1>6, <2>3
  <2>7. IInv'
    BY <1>1, <1>3, <2>1, <2>2, <2>3, <2>4, <2>5, <2>6, AnswerOK
  <2> QED BY <2>2, <2>7
<1>9. CASE Begin(r) /\ transcript # <<>>
  <2>1. PICK now \in Times :
          /\ store' = [store EXCEPT ![r] = NewArtifact(k, now)]
          /\ req' = [req EXCEPT ![r].pc = "provider", ![r].detail = transcript]
    BY <1>1, <1>9 DEF Begin
  <2>2. Creates(r) /\ StoreStep
    BY <1>1, <1>3, <2>1, CreatesStore DEF Creates
  <2>3. /\ store'[r].status = "processing" /\ store'[r].kind = k
        /\ store'[r].version = LatestVersion(k) + 1 /\ store'[r].count = Len(transcript)
        /\ \A q \in Requests : q # r => store'[q] = store[q]
    BY <1>2, <1>5, <2>1
  <2>4. /\ req' \in [Requests -> Asks]
        /\ req'[r].pc = "provider" /\ req'[r].detail = transcript /\ req'[r].kind = k
        /\ req'[r].start = 1 /\ req'[r].seen = {} /\ req'[r].result = None
        /\ req'[r].replaced = req[r].replaced /\ req'[r].force = req[r].force
        /\ \A q \in Requests : q # r => req'[q] = req[q]
    <3>1. [req[r] EXCEPT !.pc = "provider", !.detail = transcript] \in Asks
      <4>1. "provider" \in Waiting /\ req[r] \in Asks /\ transcript \in Seq(Lengths)
        BY <1>2 DEF Waiting
      <4>2. PICK o \in Asks : o = [req[r] EXCEPT !.pc = "provider"]
        BY <4>1, AskField
      <4>3. [o EXCEPT !.detail = transcript] \in Asks
        BY <4>1, AskField
      <4> QED BY <4>2, <4>3
    <3> QED BY <3>1, <1>1, <1>2, <1>4, <2>1 DEF Asks
  <2>5. 1 .. 1 - 1 = {} /\ 1 \in 1 .. Len(transcript)
    BY <1>2, <1>9
  <2>6. Owns(r)' /\ Fresh(r)' /\ Counts(r)' /\ AnswersCompleted(r)'
    BY <1>3, <2>3, <2>4, <2>5 DEF Owns, Fresh, Counts, AnswersCompleted, meeting
  <2>7. Replaces(r)'
    <3> SUFFICES ASSUME req[r].replaced # None PROVE Replaces(r)'
      BY <2>4 DEF Replaces
    <3>1. PICK p \in Completed(k) : p = req[r].replaced /\ req[r].force
      BY <1>1, <1>2 DEF RequestOK, Replaces
    <3>2. p \in Completed(k)' /\ store'[p] = store[p] /\ p \in Requests
      BY <2>2 DEF StoreStep, Completed, Stored, Terminal
    <3>3. store[p].version \in Nat /\ LatestVersion(k) \in Nat
      BY <3>2, <1>2, VersionTyped DEF Artifacts
    <3>4. store'[r].version > store'[p].version
      BY <3>1, <3>2, <3>3, <1>6, <2>3
    <3> QED BY <2>4, <3>1, <3>2, <3>4 DEF Replaces
  <2>8. RequestOK(r)' /\ req'[r].start \in 1 .. Len(req'[r].detail)
    BY <2>4, <2>5, <2>6, <2>7 DEF RequestOK
  <2>9. panel' \in [Kinds -> Panels] /\ mount' \in 1 .. MaxMounts /\ \A j \in Kinds : panel'[j] = panel[j]
    BY <1>2, <1>3
  <2>10. IInv'
    BY <1>3, <2>2, <2>3, <2>4, <2>8, <2>9, Assemble
  <2> QED BY <2>2, <2>10
<1>10. CASE BeginFails(r)
  <2>1. Answer(r, None)
    BY <1>10 DEF BeginFails
  <2>2. CASE UNCHANGED store
    <3>1. StoreStep /\ Keeps /\ Counts(r)'
      BY <2>2, <1>2, <1>3, KeepsStore DEF Keeps, RequestOK, Counts, meeting
    <3>2. IInv'
      BY <1>1, <1>3, <2>1, <2>2, <3>1, AnswerOK
    <3> QED BY <3>1, <3>2
  <2>3. CASE ~UNCHANGED store
    <3>1. PICK now \in Times : store' = [store EXCEPT ![r] = NewArtifact(k, now)]
      BY <1>1, <1>10, <2>3 DEF BeginFails
    <3>2. Creates(r) /\ StoreStep
      BY <1>1, <1>3, <3>1, CreatesStore DEF Creates
    <3>3. /\ store'[r].status = "processing" /\ store'[r].count = Len(transcript)
          /\ \A q \in Requests : q # r => store'[q] = store[q]
      BY <1>2, <1>5, <3>1
    <3>4. Counts(r)'
      BY <1>3, <3>3 DEF Counts, meeting
    <3>5. IInv'
      BY <1>1, <1>3, <2>1, <3>2, <3>3, <3>4, AnswerOK
    <3> QED BY <3>2, <3>5
  <2> QED BY <2>2, <2>3
<1> QED BY <1>8, <1>9, <1>10

\* A provider call that is not the last one.
LEMMA ContinueStep ==
  ASSUME IInv, NEW r \in Requests, ProviderContinues(r)
  PROVE  IInv' /\ StoreStep
<1>1. UNCHANGED <<meeting, store, panel, mount, failures>> /\ StoreStep
  BY KeepsStore DEF ProviderContinues, Keeps
<1>2. /\ req \in [Requests -> Asks] /\ panel \in [Kinds -> Panels] /\ mount \in 1 .. MaxMounts
      /\ failures \in 0 .. MaxFailures /\ RequestOK(r) /\ req[r].pc = "provider"
      /\ req[r].start \in 1 .. Len(req[r].detail)
      /\ transcript \in Seq(Lengths) /\ Len(transcript) \in Nat
  BY DEF IInv, TypeOK, ProviderContinues
<1>3. /\ ended /\ req[r].detail = transcript /\ store[r].status = "processing"
      /\ store[r].kind = req[r].kind /\ req[r].seen \subseteq 1 .. Len(transcript)
      /\ 1 .. req[r].start - 1 \subseteq req[r].seen
  BY <1>2 DEF RequestOK, Owns, Waiting
<1> DEFINE n == Len(req[r].detail)
           last == CallEnd(r) = n
           ask == [req[r] EXCEPT !.seen = GivenTo(r),
                                 !.pc = IF last THEN "reduce" ELSE "provider",
                                 !.start = IF last THEN @ ELSE CallNext(r)]
<1>4. /\ CallEnd(r) \in req[r].start .. n
      /\ ~last => CallNext(r) \in req[r].start + 1 .. CallEnd(r) + 1 /\ CallNext(r) \in 1 .. n
  BY <1>2, CallInside
<1>5. /\ GivenTo(r) \subseteq 1 .. n /\ 1 .. CallEnd(r) \subseteq GivenTo(r)
      /\ GivenTo(r) \in SUBSET Nat
  BY <1>2, <1>3, <1>4 DEF GivenTo
<1>6. req' = [req EXCEPT ![r] = ask]
  BY <1>2 DEF ProviderContinues
<1>7. /\ ask \in Asks /\ ask.seen = GivenTo(r) /\ ask.detail = req[r].detail
      /\ ask.pc = (IF last THEN "reduce" ELSE "provider")
      /\ ask.start = (IF last THEN req[r].start ELSE CallNext(r))
      /\ ask.kind = req[r].kind /\ ask.force = req[r].force /\ ask.result = req[r].result
      /\ ask.replaced = req[r].replaced
  <2>1. req[r] \in Asks /\ (IF last THEN req[r].start ELSE CallNext(r)) \in Nat
    BY <1>2, <1>4
  <2> QED BY <2>1, <1>5 DEF Asks, Waiting
<1> HIDE DEF ask
<1>8. /\ req' \in [Requests -> Asks] /\ req'[r] = ask
      /\ \A q \in Requests : q # r => req'[q] = req[q] /\ store'[q] = store[q]
  BY <1>1, <1>2, <1>6, <1>7
<1>9. Owns(r)'
  <2>1. last => GivenTo(r) = 1 .. Len(transcript)
    BY <1>3, <1>5
  <2>2. ~last => 1 .. CallNext(r) - 1 \subseteq GivenTo(r)
    BY <1>2, <1>4, <1>5
  <2> QED BY <1>1, <1>3, <1>5, <1>7, <1>8, <2>1, <2>2 DEF Owns, Waiting, meeting
<1>10. Fresh(r)' /\ Counts(r)' /\ AnswersCompleted(r)' /\ Replaces(r)'
  <2>1. \A k : Completed(k)' = Completed(k)
    BY <1>1 DEF Completed, Stored
  <2>2. PICK k : k = req[r].kind
    OBVIOUS
  <2>3. Counts(r) /\ AnswersCompleted(r) /\ Replaces(r)
    BY <1>2 DEF RequestOK
  <2>4. Fresh(r)' /\ Counts(r)'
    BY <1>1, <1>7, <1>8, <2>3 DEF Fresh, Counts, meeting
  <2>5. AnswersCompleted(r)' /\ Replaces(r)'
    BY <1>1, <1>2, <1>7, <1>8, <2>1, <2>2, <2>3 DEF AnswersCompleted, Replaces, Waiting
  <2> QED BY <2>4, <2>5
<1>11. req'[r].pc = "provider" => req'[r].start \in 1 .. Len(req'[r].detail)
  BY <1>4, <1>7, <1>8
<1>12. RequestOK(r)'
  BY <1>9, <1>10 DEF RequestOK
<1> QED BY <1>1, <1>2, <1>8, <1>11, <1>12, Assemble

\* The terminal transaction of a generation.
LEMMA TerminateStep ==
  ASSUME IInv, NEW r \in Requests, req[r].pc \in Waiting,
         NEW s \in Terminal, NEW e \in SUBSET (1 .. Len(transcript)),
         s = "completed" => e = 1 .. Len(transcript),
         NEW a \in Requests \cup {None}, a = None \/ (a = r /\ s = "completed"),
         Terminate(r, s, e, a)
  PROVE  IInv' /\ StoreStep
<1>1. PICK k \in Kinds : k = req[r].kind
  BY DEF IInv, TypeOK, Asks
<1>2. /\ RequestOK(r) /\ store \in [Requests -> Artifacts] /\ failures \in 0 .. MaxFailures
      /\ UNCHANGED <<meeting, panel, mount>> /\ failures' \in 0 .. MaxFailures
  BY ConstantsAssumption DEF IInv, TypeOK, Terminate
<1>3. CASE store' = [store EXCEPT ![r].status = s, ![r].entries = e] /\ Answer(r, a)
  <2>1. StoreStep
    BY <1>3, EndsStore DEF Ends
  <2>2. store[r] \in Artifacts /\ store[r].kind = k /\ ended
        /\ store[r].count = Len(transcript)
    BY <1>1, <1>2 DEF RequestOK, Owns, Counts
  <2>3. /\ store'[r].status = s /\ store'[r].entries = e /\ store'[r].kind = k
        /\ store'[r].version = store[r].version /\ store'[r].count = Len(transcript)
        /\ \A q \in Requests : q # r => store'[q] = store[q]
    BY <1>2, <1>3, <2>2 DEF Artifacts
  <2>4. Counts(r)'
    BY <1>2, <2>2, <2>3 DEF Counts, meeting
  <2>5. a # None => a \in Completed(k)'
    BY <2>3 DEF Completed, Stored
  <2>6. a # None /\ req[r].replaced # None =>
          store'[a].version > store[req[r].replaced].version
    BY <1>2, <2>3 DEF RequestOK, Replaces
  <2>7. IInv'
    BY <1>1, <1>2, <1>3, <2>1, <2>3, <2>4, <2>5, <2>6, AnswerOK
  <2> QED BY <2>1, <2>7
<1>4. CASE UNCHANGED store /\ Answer(r, None)
  <2>1. StoreStep /\ Counts(r)'
    BY <1>2, <1>4, KeepsStore DEF Keeps, RequestOK, Counts, meeting
  <2>2. IInv'
    BY <1>1, <1>2, <1>4, <2>1, AnswerOK
  <2> QED BY <2>1, <2>2
<1> QED BY <1>3, <1>4 DEF Terminate

\* A generation ends: what a completed one was made from is the transcript.
LEMMA TerminateSteps ==
  ASSUME IInv, NEW r \in Requests, Complete(r) \/ Fail(r) \/ Cancel(r)
  PROVE  IInv' /\ StoreStep
<1>1. "completed" \in Terminal /\ "failed" \in Terminal /\ "cancelled" \in Terminal
      /\ {} \in SUBSET (1 .. Len(transcript))
  BY DEF Terminal
<1>2. CASE Fail(r)
  BY <1>1, <1>2, TerminateStep DEF Fail
<1>3. CASE Cancel(r)
  BY <1>1, <1>3, TerminateStep DEF Cancel
<1>4. CASE Complete(r)
  <2>1. req[r].pc \in Waiting /\ RequestOK(r) /\ req[r] \in Asks
    BY <1>4 DEF IInv, TypeOK, Complete, LastCall, Waiting
  <2>2. Content(r) = 1 .. Len(transcript)
    <3>1. CASE req[r].pc = "reduce"
      BY <2>1, <3>1 DEF Content, RequestOK, Owns
    <3>2. CASE req[r].pc # "reduce"
      <4>1. /\ req[r].pc = "provider" /\ req[r].kind = "translation"
            /\ req[r].start = Len(req[r].detail) /\ req[r].start \in 1 .. Len(req[r].detail)
        BY <1>4, <3>2 DEF IInv, TypeOK, Complete, LastCall
      <4>2. /\ req[r].detail = transcript /\ req[r].seen \subseteq 1 .. Len(transcript)
            /\ 1 .. req[r].start - 1 \subseteq req[r].seen
        BY <2>1, <4>1 DEF RequestOK, Owns
      <4>3. Content(r) = req[r].seen \cup (Len(transcript) .. Len(transcript))
        BY <4>1, <4>2 DEF Content, GivenTo, CallEnd
      <4>4. Len(transcript) \in Nat
        BY DEF IInv, TypeOK
      <4> QED BY <4>1, <4>2, <4>3, <4>4
    <3> QED BY <3>1, <3>2
  <2>3. Terminate(r, "completed", 1 .. Len(transcript), r)
    BY <1>4, <2>2 DEF Complete, Terminate
  <2> QED BY <1>1, <2>1, <2>3, TerminateStep
<1> QED BY <1>2, <1>3, <1>4

-----------------------------------------------------------------------------
(* Theorems *)

LEMMA InitInv == Init => IInv
<1> SUFFICES ASSUME Init PROVE IInv
  OBVIOUS
<1>1. TypeOK
  BY InitTyped
<1>2. /\ \A r \in Requests : req[r] = NoAsk /\ store[r] = NoArtifact
      /\ \A k \in Kinds : panel[k] = Loading
  BY DEF Init
<1>3. \A r \in Requests : RequestOK(r)
  BY <1>2 DEF RequestOK, Owns, Fresh, Counts, Replaces, AnswersCompleted, NoAsk, NoArtifact, Waiting
<1>4. \A k \in Kinds : ShowsCompleted(k)
  BY <1>2 DEF ShowsCompleted, Loading
<1>5. VersionsAreUnique
  BY <1>2 DEF VersionsAreUnique, Stored, NoArtifact
<1>6. Bounded
  BY <1>2 DEF Bounded, NoArtifact
<1> QED BY <1>1, <1>3, <1>4, <1>5, <1>6 DEF IInv

LEMMA Step == IInv /\ [Next]_vars => IInv' /\ StoreStep
<1> SUFFICES ASSUME IInv, [Next]_vars PROVE IInv' /\ StoreStep
  OBVIOUS
<1>1. CASE UNCHANGED vars
  <2>1. UNCHANGED <<meeting, store, req, panel, mount, failures>> /\ StoreStep
    BY <1>1, KeepsStore DEF vars, meeting, Keeps
  <2>2. /\ req \in [Requests -> Asks] /\ panel \in [Kinds -> Panels] /\ mount \in 1 .. MaxMounts
        /\ failures \in 0 .. MaxFailures
    BY DEF IInv, TypeOK
  <2> QED BY <2>1, <2>2, Assemble
<1>2. CASE AddRow \/ EndMeeting
  BY <1>2, MeetingSteps
<1>3. CASE Open \/ \E k \in Kinds : Read(k) \/ Show(k)
  BY <1>3, PanelSteps
<1>4. CASE Crash
  BY <1>4, CrashStep
<1>5. ASSUME NEW k \in Kinds, NEW r \in Requests, Press(k, r) PROVE IInv' /\ StoreStep
  BY <1>5, PressStep
<1>6. ASSUME NEW r \in Requests, Serve(r) PROVE IInv' /\ StoreStep
  BY <1>6, RefuseStep, BeginStep DEF Serve
<1>7. ASSUME NEW r \in Requests, Provide(r) \/ Cancel(r) PROVE IInv' /\ StoreStep
  BY <1>7, ContinueStep, TerminateSteps DEF Provide
<1>8. ASSUME NEW r \in Requests, Deliver(r) PROVE IInv' /\ StoreStep
  BY <1>8, DeliverStep
<1> QED BY <1>1, <1>2, <1>3, <1>4, <1>5, <1>6, <1>7, <1>8 DEF Next

LEMMA Invariance == Spec => []IInv
<1> QED BY InitInv, Step, PTL DEF Spec

\* Whatever is pressed, answered, cancelled or lost, the state keeps its type,
\* and a provider call always has a row to start with.
THEOREM TypeCorrect == Spec => []TypeOK
<1>1. IInv => TypeOK
  BY DEF IInv
<1> QED BY <1>1, Invariance, PTL

\* No two artifacts of one kind ever have the same version, however many
\* generations overlap, fail or are lost: the version is read and stored
\* without a suspension in between (_persist_new and get_latest_version).
THEOREM UniqueVersions == Spec => []VersionsAreUnique
<1>1. IInv => VersionsAreUnique
  BY DEF IInv
<1> QED BY <1>1, Invariance, PTL

\* The batches of the batcher, for every limit and overlap, and the reuse of a
\* translation leave out no row of the transcript: what is completed was made
\* from all of it, and the meeting had ended.
THEOREM WholeTranscript == Spec => []CompletedIsWhole
<1>1. IInv => CompletedIsWhole
  BY DEF IInv, RequestOK, Counts, CompletedIsWhole
<1> QED BY <1>1, Invariance, PTL

\* A batch of several rows is never larger than the limit, whatever the rows
\* and the overlap (build_batches and _next_end_index).
LEMMA BatchLimit == Spec => []BatchesFit
<1>1. IInv => BatchesFit
  <2> SUFFICES ASSUME IInv, NEW r \in Requests, req[r].pc = "provider", req[r].kind = "review",
                      CallEnd(r) > req[r].start
               PROVE  ~(Characters(req[r].detail, req[r].start, CallEnd(r)) > MaxBatchCharacters)
    BY DEF BatchesFit
  <2> DEFINE d == req[r].detail
            s == req[r].start
            e == CallEnd(r)
  <2>1. d \in Seq(Lengths) /\ s \in 1 .. Len(d) /\ Len(d) \in Nat
    BY DEF IInv, TypeOK, Asks
  <2>2. e = BatchEnd(d, s)
    BY DEF CallEnd
  <2>3. e \in s .. Len(d) /\ \A t \in s .. e - 1 : ~Full(d, s, t)
    BY <2>1, <2>2, BatchEndFills
  <2>4. e - 1 \in s .. e - 1
    BY <2>1, <2>3
  <2>5. ~Full(d, s, e - 1) /\ (e - 1) + 1 = e
    BY <2>1, <2>3, <2>4
  <2> QED BY <2>5 DEF Full
<1> QED BY <1>1, Invariance, PTL

\* A panel shows only what is completed and made from the whole transcript,
\* whichever other generations are under way.
THEOREM ShownFinished == Spec => []ShownIsFinished
<1>1. IInv => ShownIsFinished
  BY DEF IInv, ShownIsFinished, ShowsCompleted, RequestOK, Counts, Completed, Stored
<1> QED BY <1>1, Invariance, PTL

\* What a panel gets when it regenerates is newer than what it showed when it
\* asked.
THEOREM RegenerationNew == Spec => []RegenerateIsNew
<1>1. IInv => RegenerateIsNew
  BY DEF IInv, RequestOK, Replaces, RegenerateIsNew
<1> QED BY <1>1, Invariance, PTL

\* Versions, batches and regenerations together, for any limit, overlap and
\* number of requests.
THEOREM InvCorrect == Spec => []Inv
BY TypeCorrect, UniqueVersions, BatchLimit, RegenerationNew, PTL DEF Inv

\* No step, a late cancellation or a second generation included, changes an
\* artifact that is completed, failed or cancelled.
THEOREM FinishedFinal == Spec => FinishedIsFinal
<1>1. IInv /\ [Next]_vars =>
        [\A r \in Requests : store[r].status \in Terminal => store'[r] = store[r]]_vars
  BY Step DEF StoreStep
<1> QED BY <1>1, Invariance, PTL DEF Spec, FinishedIsFinal

\* What a reader is served is only ever replaced by what comes after it in the
\* order of its repository: nothing completed is lost, and a newer artifact is
\* never hidden again by an older one.
THEOREM ServedForward == Spec => ServedNeverGoesBack
<1> DEFINE Forward(k, a, b) ==
             a # None => b # None /\ (k = "review" => store'[b].version >= store[a].version)
                                  /\ (k = "translation" => ~Older(store'[b], store[a]))
<1>1. ASSUME IInv, [Next]_vars, NEW k \in Kinds PROVE Forward(k, Latest(k), Latest(k)')
  <2>1. IInv' /\ StoreStep
    BY <1>1, Step
  <2>2. TypeOK /\ Bounded /\ TypeOK' /\ Bounded'
    BY <1>1, <2>1 DEF IInv
  <2>3. PICK a : a = Latest(k)
    OBVIOUS
  <2>4. PICK b : b = Latest(k)'
    OBVIOUS
  <2>5. SUFFICES ASSUME a # None PROVE Forward(k, a, b)
    BY <2>3, <2>4
  <2>6. a \in Completed(k)
    BY <2>2, <2>3, <2>5, LatestServes
  <2>7. a \in Completed(k)' /\ store'[a] = store[a] /\ a \in Requests
    BY <2>1, <2>6 DEF StoreStep, Completed, Stored, Terminal
  <2>8. (IF Completed(k) = {} THEN Latest(k) = None
         ELSE /\ Latest(k) \in Completed(k)
              /\ \A q \in Completed(k) : ~Precedes(k, store[Latest(k)], store[q]))'
    BY <2>2, LatestServes, PTL
  <2>9. b \in Completed(k)' /\ ~Precedes(k, store'[b], store'[a])
    BY <2>4, <2>7, <2>8
  <2>10. b \in Requests /\ b # None
    BY <2>9, ConstantsAssumption DEF Completed, Stored
  <2>11. store'[b].version \in Nat /\ store'[a].version \in Nat
    BY <2>2, <2>7, <2>10 DEF TypeOK, Artifacts
  <2>12. k = "review" => store'[b].version >= store[a].version
    BY <2>7, <2>9, <2>11 DEF Precedes
  <2>13. k = "translation" => ~Older(store'[b], store[a])
    BY <2>7, <2>9 DEF Precedes
  <2> QED BY <2>10, <2>12, <2>13
<1>2. IInv /\ [Next]_vars =>
        [\A k \in Kinds : LET a == Latest(k)  b == Latest(k)' IN
           a # None => b # None /\ (k = "review" => store'[b].version >= store[a].version)
                                 /\ (k = "translation" => ~Older(store'[b], store[a]))]_vars
  BY <1>1
<1> QED BY <1>2, Invariance, PTL DEF Spec, ServedNeverGoesBack
-----------------------------------------------------------------------------
(* Nothing is left processing *)

\* A step that stores nothing and takes no request away from the provider, or
\* that counts as a failure.
LEMMA WorkedOnFrame ==
  ASSUME IInv, ProcessingIsWorkedOn,
         \/ /\ UNCHANGED <<store, failures>>
            /\ \A q \in Requests : req[q].pc \in Waiting => req'[q].pc \in Waiting
         \/ failures' = failures + 1
  PROVE  ProcessingIsWorkedOn'
<1>1. failures \in Nat
  BY ConstantsAssumption DEF IInv, TypeOK
<1>2. CASE failures' = failures + 1
  BY <1>1, <1>2 DEF ProcessingIsWorkedOn
<1>3. CASE /\ UNCHANGED <<store, failures>>
           /\ \A q \in Requests : req[q].pc \in Waiting => req'[q].pc \in Waiting
  BY <1>3 DEF ProcessingIsWorkedOn
<1> QED BY <1>2, <1>3

\* A step that moves one request and its artifact, and nobody else's.
LEMMA WorkedOnOne ==
  ASSUME ProcessingIsWorkedOn, UNCHANGED failures, NEW r \in Requests,
         \A q \in Requests : q # r => req'[q] = req[q] /\ store'[q] = store[q],
         store'[r].status = "processing" => req'[r].pc \in Waiting
  PROVE  ProcessingIsWorkedOn'
BY DEF ProcessingIsWorkedOn

\* What an answer does to the requests.
LEMMA AnswerEnds ==
  ASSUME TypeOK, NEW r \in Requests, NEW a, Answer(r, a)
  PROVE  \A q \in Requests : q # r => req'[q] = req[q]
BY DEF TypeOK, Answer

LEMMA WorkedOnServe ==
  ASSUME IInv, ProcessingIsWorkedOn, NEW r \in Requests, Serve(r)
  PROVE  ProcessingIsWorkedOn'
<1>1. req \in [Requests -> Asks] /\ store \in [Requests -> Artifacts] /\ TypeOK
      /\ req[r].pc = "sent" /\ "sent" \notin Waiting
  BY DEF IInv, TypeOK, Serve, Refuse, Reuse, Begin, BeginFails, Waiting
<1>2. CASE Refuse(r) \/ Reuse(r)
  <2>1. PICK a : Answer(r, a)
    BY <1>2 DEF Refuse, Reuse
  <2>2. UNCHANGED <<store, failures>>
    BY <1>2 DEF Refuse, Reuse
  <2>3. \A q \in Requests : req[q].pc \in Waiting => req'[q].pc \in Waiting
    BY <1>1, <2>1, AnswerEnds
  <2> QED BY <2>2, <2>3, WorkedOnFrame
<1>3. CASE Begin(r)
  <2>1. PICK now \in Times :
          LET new == NewArtifact(req[r].kind, now) IN
          IF transcript = <<>>
          THEN /\ store' = [store EXCEPT ![r] = [new EXCEPT !.status = "completed"]]
               /\ Answer(r, r)
          ELSE /\ store' = [store EXCEPT ![r] = new]
               /\ req' = [req EXCEPT ![r].pc = "provider", ![r].detail = transcript]
    BY <1>3 DEF Begin
  <2> DEFINE new == NewArtifact(req[r].kind, now)
  <2>2. UNCHANGED failures
    BY <1>3 DEF Begin
  <2>3. CASE transcript = <<>>
    <3>1. store' = [store EXCEPT ![r] = [new EXCEPT !.status = "completed"]] /\ Answer(r, r)
      BY <2>1, <2>3
    <3>2. [new EXCEPT !.status = "completed"].status = "completed"
      BY DEF NewArtifact
    <3>3. store'[r].status # "processing"
      BY <1>1, <3>1, <3>2
    <3>4. \A q \in Requests : q # r => req'[q] = req[q] /\ store'[q] = store[q]
      BY <1>1, <3>1, AnswerEnds
    <3> QED BY <2>2, <3>3, <3>4, WorkedOnOne
  <2>4. CASE transcript # <<>>
    <3>1. /\ store' = [store EXCEPT ![r] = new]
          /\ req' = [req EXCEPT ![r] = [[@ EXCEPT !.pc = "provider"] EXCEPT !.detail = transcript]]
      BY <2>1, <2>4
    <3>2. req'[r].pc = "provider"
      BY <1>1, <3>1 DEF Asks
    <3>3. \A q \in Requests : q # r => req'[q] = req[q] /\ store'[q] = store[q]
      BY <1>1, <3>1
    <3> QED BY <2>2, <3>2, <3>3, WorkedOnOne DEF Waiting
  <2> QED BY <2>3, <2>4
<1>4. CASE BeginFails(r)
  <2>1. failures' = failures + 1
    BY <1>4 DEF BeginFails
  <2> QED BY <2>1, WorkedOnFrame
<1> QED BY <1>2, <1>3, <1>4 DEF Serve

LEMMA WorkedOnProvide ==
  ASSUME IInv, ProcessingIsWorkedOn, NEW r \in Requests, Provide(r) \/ Cancel(r)
  PROVE  ProcessingIsWorkedOn'
<1>1. req \in [Requests -> Asks] /\ store \in [Requests -> Artifacts] /\ TypeOK
  BY DEF IInv, TypeOK
<1>2. CASE ProviderContinues(r)
  <2>1. UNCHANGED <<store, failures>> /\ \A q \in Requests : q # r => req'[q] = req[q]
    BY <1>1, <1>2 DEF ProviderContinues
  <2>2. req'[r].pc \in Waiting
    BY <1>1, <1>2 DEF ProviderContinues, Asks, Waiting
  <2> QED BY <2>1, <2>2, WorkedOnFrame
<1>3. ASSUME NEW s \in Terminal, NEW e, NEW a, Terminate(r, s, e, a)
      PROVE  ProcessingIsWorkedOn'
  <2>1. CASE /\ store' = [store EXCEPT ![r].status = s, ![r].entries = e]
             /\ Answer(r, a) /\ UNCHANGED failures
    <3>1. store'[r].status = s /\ s # "processing"
      BY <1>1, <2>1 DEF Artifacts, Terminal
    <3>2. \A q \in Requests : q # r => req'[q] = req[q] /\ store'[q] = store[q]
      BY <1>1, <2>1, AnswerEnds
    <3> QED BY <2>1, <3>1, <3>2, WorkedOnOne
  <2>2. CASE failures' = failures + 1
    BY <2>2, WorkedOnFrame
  <2> QED BY <1>3, <2>1, <2>2 DEF Terminate
<1>4. CASE Complete(r) \/ Fail(r) \/ Cancel(r)
  BY <1>3, <1>4 DEF Complete, Fail, Cancel, Terminal
<1> QED BY <1>2, <1>4 DEF Provide

LEMMA WorkedOnStep ==
  ASSUME IInv, ProcessingIsWorkedOn, [Next]_vars
  PROVE  ProcessingIsWorkedOn'
<1>1. req \in [Requests -> Asks]
  BY DEF IInv, TypeOK
<1>2. CASE AddRow \/ EndMeeting \/ Open \/ (\E k \in Kinds : Read(k) \/ Show(k)) \/ UNCHANGED vars
  <2>1. UNCHANGED <<store, failures, req>>
    BY <1>2 DEF AddRow, EndMeeting, Open, Read, Show, vars
  <2> QED BY <2>1, WorkedOnFrame
<1>3. CASE Crash
  <2>1. failures' = failures + 1
    BY <1>3 DEF Crash
  <2> QED BY <2>1, WorkedOnFrame
<1>4. ASSUME NEW k \in Kinds, NEW r \in Requests, Press(k, r) PROVE ProcessingIsWorkedOn'
  <2>1. UNCHANGED <<store, failures>> /\ \A q \in Requests : q # r => req'[q] = req[q]
    BY <1>1, <1>4 DEF Press
  <2>2. req[r].pc \notin Waiting
    BY <1>4 DEF Press, IsNext, Waiting
  <2>3. \A q \in Requests : req[q].pc \in Waiting => req'[q].pc \in Waiting
    BY <2>1, <2>2
  <2> QED BY <2>1, <2>3, WorkedOnFrame
<1>5. ASSUME NEW r \in Requests, Deliver(r) PROVE ProcessingIsWorkedOn'
  <2>1. UNCHANGED <<store, failures>> /\ \A q \in Requests : q # r => req'[q] = req[q]
    BY <1>1, <1>5 DEF Deliver
  <2>2. req[r].pc \notin Waiting
    BY <1>5 DEF Deliver, Waiting
  <2>3. \A q \in Requests : req[q].pc \in Waiting => req'[q].pc \in Waiting
    BY <2>1, <2>2
  <2> QED BY <2>1, <2>3, WorkedOnFrame
<1> QED BY <1>2, <1>3, <1>4, <1>5, WorkedOnServe, WorkedOnProvide DEF Next

\* As long as no transaction fails and the backend lives, an artifact that says
\* "processing" has a request that works on it: every path out of a generation,
\* an error of the provider and a cancellation included, stores how it ended.
THEOREM ProcessingWorkedOn == Spec => []ProcessingIsWorkedOn
<1>1. Init => ProcessingIsWorkedOn
  BY DEF Init, ProcessingIsWorkedOn, NoArtifact
<1>2. IInv /\ ProcessingIsWorkedOn /\ [Next]_vars => ProcessingIsWorkedOn'
  BY WorkedOnStep
<1> QED BY <1>1, <1>2, Invariance, PTL DEF Spec
=============================================================================
