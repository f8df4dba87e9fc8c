------------------------- MODULE NvrSnapshotsProofs -------------------------
(***************************************************************************)
(* Proofs about NvrSnapshots, for any cameras, any number of browsers and  *)
(* of runs of the job, and any limit of failures.  The uploads and the     *)
(* circuit of the job share no state but the pictures, so there are two    *)
(* inductive invariants, each left alone by the other side's steps.  The   *)
(* second half is about FrameCapture, one capture of the job.              *)
(***************************************************************************)
EXTENDS NvrSnapshots, FrameCapture, TLAPS

prepare == "snapshot.refresh.prepare"
Uploading == {"open", "put", "final", "rollback"}

-----------------------------------------------------------------------------
(* The invariant of the uploads. *)

\* The part of the type invariant that is about the browsers and the pictures.
WebTypes ==
    /\ object \in [Cameras -> Pictures \cup {None}]
    /\ pc \in [Requests -> {"new", "open", "put", "final", "rollback", "done"}]
    /\ camera \in [Requests -> Uploadable \cup {None}]
    /\ old \in [Requests -> Pictures \cup {None}]
    /\ expected \in [Requests -> Pictures \cup {None, Unknown}]
    /\ answer \in [Requests -> Answers \cup {None}]

\* Past the write gate an upload is announced, and so is the picture it may put back.
Announced(r) ==
    /\ pc[r] \in Uploading => <<r, prepare>> \in audit
    /\ old[r] \in Requests => <<old[r], prepare>> \in audit

\* Where an upload stands, and what it still knows of the picture it found.
FlowInv(r) ==
    /\ pc[r] = "new" => expected[r] = Unknown
    /\ pc[r] # "new" => camera[r] \in Cameras
    /\ pc[r] # "done" => answer[r] = None
    /\ expected[r] # Unknown =>
         /\ pc[r] \in {"open", "put"} => object[camera[r]] = expected[r]
         /\ pc[r] \in {"put", "final", "rollback"} => old[r] = expected[r]
         /\ answer[r] = "audit_failed" => object[camera[r]] = expected[r]

WebInv ==
    /\ WebTypes
    /\ PicturesAreAudited
    /\ \A r \in Requests : Announced(r)
    /\ \A r \in Requests : FlowInv(r)

-----------------------------------------------------------------------------
(* The invariant of the circuit. *)

\* MaxFailures failures of the recorder's side, from the i-th camera asked on.
RowAt(i) ==
    i + MaxFailures - 1 <= Len(trail)
    /\ \A k \in i..(i + MaxFailures - 1) : isCircuitFailure(trail[k])

\* While the job runs it counts the failures at the end of the trail.
Counting ==
    /\ job.consecutive \in 0..(MaxFailures - 1) /\ job.consecutive <= Len(trail)
    /\ \A k \in (Len(trail) - job.consecutive + 1)..Len(trail) : isCircuitFailure(trail[k])
    /\ job.consecutive < Len(trail) => ~isCircuitFailure(trail[Len(trail) - job.consecutive])
    /\ \A i \in 1..Len(trail) : ~RowAt(i)
    /\ job.outcome # "circuit"

CircuitInv ==
    /\ DOMAIN job = {"at", "force", "list", "pos", "captured", "consecutive", "outcome"}
    /\ trail \in Seq(Codes \cup {"succeeded", "oss_upload_failed"})
    /\ job.at # "idle" => Counting
    /\ CircuitOpensOnTime

-----------------------------------------------------------------------------
(* The uploads. *)

\* What step by `who' does to the pictures: nothing, or one write of a picture that
\* is nobody's or is announced.
WritesAtMost(who) ==
    \/ object' = object /\ \A s \in Requests : s # who => expected'[s] = expected[s]
    \/ \E c, p : Write(who, c, p) /\ (p \in Requests => <<p, prepare>> \in audit)

\* The upload of another browser than the one that moves.
Aloof(s) == pc'[s] = pc[s] /\ camera'[s] = camera[s] /\ old'[s] = old[s] /\ answer'[s] = answer[s]

\* Another upload knows what it knew, or knows that it knows nothing any more.
LEMMA OthersKept ==
    ASSUME WebInv, NEW who, NEW s \in Requests, s # who, Aloof(s), WritesAtMost(who),
           audit \subseteq audit'
    PROVE  Announced(s)' /\ FlowInv(s)'
<1> USE DEF WebInv, Aloof
<1>1. Announced(s)' BY DEF Announced
<1>2. CASE object' = object /\ expected'[s] = expected[s] BY <1>1, <1>2 DEF FlowInv
<1>3. ASSUME NEW c, NEW p, Write(who, c, p) PROVE FlowInv(s)'
  <2>1. expected'[s] = IF camera[s] = c THEN Unknown ELSE expected[s] BY <1>3 DEF Write
  <2>2. object' = [object EXCEPT ![c] = p] BY <1>3 DEF Write
  <2>3. CASE camera[s] = c BY <2>1, <2>3 DEF FlowInv
  <2>4. CASE camera[s] # c
    <3>1. expected'[s] = expected[s] BY <2>1, <2>4
    <3>2. pc[s] # "new" => camera[s] \in Cameras /\ object'[camera[s]] = object[camera[s]]
      BY <2>2, <2>4 DEF FlowInv, WebTypes
    <3>3. answer[s] = "audit_failed" => pc[s] # "new"
      BY SnapshotsAssumption DEF FlowInv, Answers
    <3> QED BY <3>1, <3>2, <3>3 DEF FlowInv
  <2> QED BY <2>3, <2>4
<1> QED BY <1>1, <1>2, <1>3 DEF WritesAtMost

\* A picture stays announced.
LEMMA PicturesKept ==
    ASSUME WebInv, NEW who, WritesAtMost(who), audit \subseteq audit', NEW c \in Cameras,
           object'[c] \in Requests
    PROVE  <<object'[c], prepare>> \in audit'
<1> USE DEF WebInv, PicturesAreAudited, prepare
<1>1. CASE object' = object BY <1>1
<1>2. ASSUME NEW d, NEW p, Write(who, d, p), p \in Requests => <<p, prepare>> \in audit
      PROVE  <<object'[c], prepare>> \in audit'
  <2>1. object'[c] = IF c = d THEN p ELSE object[c] BY <1>2 DEF Write, WebTypes
  <2> QED BY <1>2, <2>1
<1> QED BY <1>1, <1>2 DEF WritesAtMost

\* What has to be shown of a browser's step: only what concerns this browser.
LEMMA BrowserKeeps ==
    ASSUME WebInv, NEW r \in Requests, WritesAtMost(r), audit \subseteq audit', WebTypes',
           \A s \in Requests : s # r => Aloof(s),
           Announced(r)', FlowInv(r)',
           answer'[r] = "saved" => <<r, "snapshot.refresh">> \in audit',
           answer'[r] = "url" => <<r, "view">> \in audit'
    PROVE  WebInv'
<1>1. ASSUME NEW s \in Requests PROVE Announced(s)' /\ FlowInv(s)'
  <2>1. CASE s = r BY <2>1
  <2>2. CASE s # r BY <2>2, OthersKept
  <2> QED BY <2>1, <2>2
<1>2. \A c \in Cameras : object'[c] \in Requests => <<object'[c], prepare>> \in audit'
  BY PicturesKept
<1>3. ASSUME NEW s \in Requests
      PROVE  /\ answer'[s] = "saved" => <<s, "snapshot.refresh">> \in audit'
             /\ answer'[s] = "url" => <<s, "view">> \in audit'
  <2>1. CASE s = r BY <2>1
  <2>2. CASE s # r BY <2>2 DEF Aloof, WebInv, PicturesAreAudited
  <2> QED BY <2>1, <2>2
<1>4. PicturesAreAudited' BY <1>2, <1>3 DEF PicturesAreAudited, prepare
<1> QED BY <1>1, <1>4 DEF WebInv

\* The job writes its own pictures and touches nothing else of the browsers.
LEMMA JobKeeps ==
    ASSUME WebInv, UNCHANGED <<audit, web>>,
           UNCHANGED <<object, expected>> \/ \E c : Write(Job, c, Job)
    PROVE  WebInv'
<1> USE DEF WebInv
<1>1. WritesAtMost(Job) BY SnapshotsAssumption DEF WritesAtMost
<1>2. \A s \in Requests : s # Job /\ Aloof(s) BY SnapshotsAssumption DEF Aloof, web
<1>3. \A s \in Requests : Announced(s)' /\ FlowInv(s)' BY <1>1, <1>2, OthersKept
<1>4. \A c \in Cameras : object'[c] \in Requests => <<object'[c], prepare>> \in audit'
  BY <1>1, PicturesKept
<1>5. PicturesAreAudited' BY <1>2, <1>4 DEF PicturesAreAudited, prepare, Aloof
<1>6. WebTypes'
  <2>1. CASE UNCHANGED <<object, expected>> BY <2>1 DEF WebTypes, web
  <2>2. ASSUME NEW c, Write(Job, c, Job) PROVE WebTypes'
    BY <2>2 DEF WebTypes, web, Write, Pictures
  <2> QED BY <2>1, <2>2
<1> QED BY <1>3, <1>5, <1>6

LEMMA InitWebInv == Init => WebInv
<1> SUFFICES ASSUME Init PROVE WebInv OBVIOUS
<1>1. PICK s \in SUBSET Stored : object = [c \in Cameras |-> IF c \in s THEN Earlier ELSE None]
  BY DEF Init
<1>2. WebTypes BY <1>1 DEF Init, WebTypes, Pictures
<1>3. PicturesAreAudited BY <1>1, SnapshotsAssumption DEF Init, PicturesAreAudited, Answers
<1>4. \A r \in Requests : Announced(r)
  BY SnapshotsAssumption DEF Init, Announced, Uploading
<1>5. \A r \in Requests : FlowInv(r) BY SnapshotsAssumption DEF Init, FlowInv, Answers
<1> QED BY <1>2, <1>3, <1>4, <1>5 DEF WebInv

LEMMA ViewKeeps ==
    ASSUME WebInv, NEW r \in Requests, NEW c \in Uploadable, View(r, c)
    PROVE  WebInv'
<1>1. PICK a \in Answers :
        /\ Answer(r, a) /\ audit \subseteq audit'
        /\ a # "saved" /\ (a = "url" => <<r, "view">> \in audit')
  BY DEF View, ensureCanViewStore, Recorded, AuditFails, Answers
<1>2. /\ pc[r] = "new" /\ camera' = [camera EXCEPT ![r] = c]
      /\ object' = object /\ expected' = expected
  BY DEF View
<1>3. WebTypes' BY <1>1, <1>2 DEF WebInv, WebTypes, Answer
<1>4. \A s \in Requests : s # r => Aloof(s) BY <1>1, <1>2 DEF Aloof, Answer, WebInv, WebTypes
<1>5. pc'[r] = "done" /\ answer'[r] = a /\ old'[r] = None /\ camera'[r] = c
  BY <1>1, <1>2 DEF Answer, WebInv, WebTypes
<1>6. Announced(r)' BY <1>5, SnapshotsAssumption DEF Announced, Uploading
<1>7. expected'[r] = Unknown BY <1>2 DEF WebInv, FlowInv
<1>8. FlowInv(r)' BY <1>5, <1>7, SnapshotsAssumption DEF FlowInv
<1>9. WritesAtMost(r) BY <1>2 DEF WritesAtMost
<1> QED BY <1>1, <1>3, <1>4, <1>5, <1>6, <1>8, <1>9, BrowserKeeps

LEMMA SaveSnapshotKeeps ==
    ASSUME WebInv, NEW r \in Requests, NEW c \in Uploadable, SaveSnapshot(r, c)
    PROVE  WebInv'
<1>1. /\ pc[r] = "new" /\ camera' = [camera EXCEPT ![r] = c]
      /\ object' = object /\ expected' = [expected EXCEPT ![r] = object[c]]
      /\ c \in Cameras /\ answer[r] = None
  BY SnapshotsAssumption DEF SaveSnapshot, WebInv, FlowInv
<1>2. \/ \E a \in {"refused", "audit_failed"} : Answer(r, a) /\ audit \subseteq audit'
      \/ Step(r, "open") /\ Recorded(r, prepare)
  BY DEF SaveSnapshot, ensureCanBackfillSnapshot, Prepare, Recorded, AuditFails, prepare
<1>3. expected' \in [Requests -> Pictures \cup {None, Unknown}] BY <1>1 DEF WebInv, WebTypes
<1>4. expected'[r] = object'[c] /\ camera'[r] = c BY <1>1 DEF WebInv, WebTypes
<1>5. WritesAtMost(r) BY <1>1 DEF WritesAtMost, WebInv, WebTypes
<1>6. ASSUME NEW a \in {"refused", "audit_failed"}, Answer(r, a), audit \subseteq audit'
      PROVE  WebInv'
  <2>1. WebTypes' BY <1>1, <1>3, <1>6 DEF WebInv, WebTypes, Answer, Answers
  <2>2. \A s \in Requests : s # r => Aloof(s) BY <1>1, <1>6 DEF Aloof, Answer, WebInv, WebTypes
  <2>3. pc'[r] = "done" /\ answer'[r] = a /\ old'[r] = None BY <1>6 DEF Answer, WebInv, WebTypes
  <2>4. Announced(r)' BY <2>3, SnapshotsAssumption DEF Announced, Uploading
  <2>5. FlowInv(r)' BY <2>3, <1>1, <1>4 DEF FlowInv
  <2> QED BY <1>5, <1>6, <2>1, <2>2, <2>3, <2>4, <2>5, BrowserKeeps
<1>7. CASE Step(r, "open") /\ Recorded(r, prepare)
  <2>1. WebTypes' BY <1>1, <1>3, <1>7 DEF WebInv, WebTypes, Step
  <2>2. \A s \in Requests : s # r => Aloof(s) BY <1>1, <1>7 DEF Aloof, Step, WebInv, WebTypes
  <2>3. pc'[r] = "open" /\ answer'[r] = None /\ old'[r] = old[r]
    BY <1>1, <1>7 DEF Step, WebInv, WebTypes
  <2>4. audit' = audit \cup {<<r, prepare>>} BY <1>7 DEF Recorded
  <2>5. Announced(r)' BY <2>3, <2>4 DEF Announced, WebInv
  <2>6. FlowInv(r)' BY <2>3, <1>1, <1>4, SnapshotsAssumption DEF FlowInv, Answers
  <2> QED BY <1>5, <2>1, <2>2, <2>3, <2>4, <2>5, <2>6, SnapshotsAssumption, BrowserKeeps DEF Answers
<1> QED BY <1>2, <1>6, <1>7

\* A step that ends the request with an answer for which nothing has to be recorded.
LEMMA AnswerKeeps ==
    ASSUME WebInv, NEW r \in Requests, pc[r] # "new",
           NEW a \in {"failed", "rollback_failed", None}, Answer(r, a),
           UNCHANGED <<camera, audit>>,
           UNCHANGED <<object, expected>>
             \/ \E p \in Pictures \cup {None} :
                   Write(r, camera[r], p) /\ (p \in Requests => <<p, prepare>> \in audit)
    PROVE  WebInv'
<1>1. object' \in [Cameras -> Pictures \cup {None}]
      /\ expected' \in [Requests -> Pictures \cup {None, Unknown}]
  BY DEF WebInv, WebTypes, Write
<1>2. WebTypes' BY <1>1 DEF WebInv, WebTypes, Answer, Answers
<1>3. \A s \in Requests : s # r => Aloof(s) BY DEF Aloof, Answer, WebInv, WebTypes
<1>4. pc'[r] = "done" /\ answer'[r] = a /\ old'[r] = None BY DEF Answer, WebInv, WebTypes
<1>5. a \notin {"saved", "url", "audit_failed"} BY SnapshotsAssumption DEF Answers
<1>6. Announced(r)' BY <1>4, SnapshotsAssumption DEF Announced, Uploading
<1>7. camera'[r] \in Cameras BY DEF WebInv, FlowInv
<1>8. FlowInv(r)' BY <1>4, <1>5, <1>7 DEF FlowInv
<1>9. WritesAtMost(r) BY DEF WritesAtMost
<1> QED BY <1>2, <1>3, <1>4, <1>5, <1>6, <1>8, <1>9, BrowserKeeps

LEMMA OpenKeeps ==
    ASSUME WebInv, NEW r \in Requests, Open(r)
    PROVE  WebInv'
<1>1. pc[r] = "open" /\ UNCHANGED <<camera, object, expected>> BY DEF Open
<1>2. CASE SaveFailed(r)
  BY <1>1, <1>2, AnswerKeeps DEF SaveFailed
<1>3. CASE /\ old' = [old EXCEPT ![r] = object[camera[r]]]
           /\ pc' = [pc EXCEPT ![r] = "put"] /\ UNCHANGED <<answer, audit>>
  <2>1. camera[r] \in Cameras /\ answer[r] = None /\ <<r, prepare>> \in audit
    BY <1>1 DEF WebInv, FlowInv, Announced, Uploading
  <2>2. object[camera[r]] \in Pictures \cup {None} BY <2>1 DEF WebInv, WebTypes
  <2>3. WebTypes' BY <1>1, <1>3, <2>2 DEF WebInv, WebTypes
  <2>4. \A s \in Requests : s # r => Aloof(s) BY <1>1, <1>3 DEF Aloof, WebInv, WebTypes
  <2>5. pc'[r] = "put" /\ old'[r] = object[camera[r]] /\ answer'[r] = None
    BY <1>3, <2>1 DEF WebInv, WebTypes
  <2>6. Announced(r)'
    BY <1>3, <2>1, <2>5 DEF Announced, Uploading, WebInv, PicturesAreAudited, prepare
  <2>7. FlowInv(r)' BY <1>1, <2>1, <2>5, SnapshotsAssumption DEF FlowInv, WebInv, Answers
  <2>8. WritesAtMost(r) BY <1>1 DEF WritesAtMost
  <2> QED BY <1>3, <2>3, <2>4, <2>5, <2>6, <2>7, <2>8, SnapshotsAssumption, BrowserKeeps DEF Answers
<1> QED BY <1>2, <1>3 DEF Open

LEMMA PutKeeps ==
    ASSUME WebInv, NEW r \in Requests, Put(r)
    PROVE  WebInv'
<1>1. pc[r] = "put" /\ UNCHANGED camera BY DEF Put
<1>2. <<r, prepare>> \in audit /\ r \in Pictures /\ camera[r] \in Cameras /\ answer[r] = None
  BY <1>1 DEF WebInv, Announced, Uploading, Pictures, FlowInv
<1>3. CASE SaveFailed(r) /\ (Write(r, camera[r], r) \/ UNCHANGED <<object, expected>>)
  BY <1>1, <1>2, <1>3, AnswerKeeps DEF SaveFailed
<1>4. CASE Step(r, "final") /\ Write(r, camera[r], r) /\ UNCHANGED audit
  <2>1. WebTypes' BY <1>1, <1>2, <1>4 DEF WebInv, WebTypes, Write, Step
  <2>2. \A s \in Requests : s # r => Aloof(s) BY <1>1, <1>4 DEF Aloof, Step, WebInv, WebTypes
  <2>3. pc'[r] = "final" /\ answer'[r] = None /\ old'[r] = old[r] /\ expected'[r] = expected[r]
    BY <1>2, <1>4 DEF Step, Write, WebInv, WebTypes
  <2>4. Announced(r)' BY <1>2, <1>4, <2>3 DEF Announced, WebInv
  <2>5. FlowInv(r)' BY <1>1, <1>2, <2>3, SnapshotsAssumption DEF FlowInv, WebInv, Answers
  <2>6. WritesAtMost(r) BY <1>2, <1>4 DEF WritesAtMost
  <2> QED BY <1>4, <2>1, <2>2, <2>3, <2>4, <2>5, <2>6, SnapshotsAssumption, BrowserKeeps DEF Answers
<1> QED BY <1>3, <1>4 DEF Put

LEMMA FinalKeeps ==
    ASSUME WebInv, NEW r \in Requests, Final(r)
    PROVE  WebInv'
<1>1. pc[r] = "final" /\ UNCHANGED <<camera, object, expected>> BY DEF Final
<1>2. audit \subseteq audit' BY DEF Final, Recorded, AuditFails
<1>3. camera[r] \in Cameras /\ answer[r] = None BY <1>1 DEF WebInv, FlowInv
<1>4. WritesAtMost(r) BY <1>1 DEF WritesAtMost
<1>5. CASE Answer(r, "saved") /\ Recorded(r, "snapshot.refresh")
  <2>1. WebTypes' BY <1>1, <1>5 DEF WebInv, WebTypes, Answer, Answers
  <2>2. \A s \in Requests : s # r => Aloof(s) BY <1>1, <1>5 DEF Aloof, Answer, WebInv, WebTypes
  <2>3. pc'[r] = "done" /\ answer'[r] = "saved" /\ old'[r] = None
    BY <1>5 DEF Answer, WebInv, WebTypes
  <2>4. Announced(r)' BY <2>3, SnapshotsAssumption DEF Announced, Uploading
  <2>5. FlowInv(r)' BY <1>1, <1>3, <2>3 DEF FlowInv
  <2>6. <<r, "snapshot.refresh">> \in audit' BY <1>5 DEF Recorded
  <2> QED BY <1>2, <1>4, <2>1, <2>2, <2>3, <2>4, <2>5, <2>6, BrowserKeeps
<1>6. CASE Step(r, "rollback")
  <2>1. WebTypes' BY <1>1, <1>6 DEF WebInv, WebTypes, Step
  <2>2. \A s \in Requests : s # r => Aloof(s) BY <1>1, <1>6 DEF Aloof, Step, WebInv, WebTypes
  <2>3. pc'[r] = "rollback" /\ answer'[r] = None /\ old'[r] = old[r]
    BY <1>3, <1>6 DEF Step, WebInv, WebTypes
  <2>4. Announced(r)' BY <1>1, <1>2, <2>3 DEF Announced, WebInv, Uploading
  <2>5. FlowInv(r)' BY <1>1, <1>3, <2>3, SnapshotsAssumption DEF FlowInv, WebInv, Answers
  <2> QED BY <1>2, <1>4, <2>1, <2>2, <2>3, <2>4, <2>5, SnapshotsAssumption, BrowserKeeps DEF Answers
<1> QED BY <1>5, <1>6 DEF Final

LEMMA RollbackKeeps ==
    ASSUME WebInv, NEW r \in Requests, Rollback(r)
    PROVE  WebInv'
<1>1. pc[r] = "rollback" /\ UNCHANGED <<camera, audit>> BY DEF Rollback
<1>2. camera[r] \in Cameras /\ old[r] \in Pictures \cup {None} BY <1>1 DEF WebInv, FlowInv, WebTypes
<1>3. old[r] \in Requests => <<old[r], prepare>> \in audit BY DEF WebInv, Announced
<1>4. CASE Answer(r, "rollback_failed") /\ (Restore(r) \/ UNCHANGED <<object, expected>>)
  BY <1>1, <1>2, <1>3, <1>4, AnswerKeeps DEF Restore
<1>5. CASE Answer(r, "audit_failed") /\ Restore(r)
  <2>1. Write(r, camera[r], old[r]) BY <1>5 DEF Restore
  <2>2. WebTypes' BY <1>1, <1>2, <1>5, <2>1 DEF WebInv, WebTypes, Answer, Answers, Write
  <2>3. \A s \in Requests : s # r => Aloof(s) BY <1>1, <1>5 DEF Aloof, Answer, WebInv, WebTypes
  <2>4. pc'[r] = "done" /\ answer'[r] = "audit_failed" /\ old'[r] = None
    BY <1>5 DEF Answer, WebInv, WebTypes
  <2>5. Announced(r)' BY <2>4, SnapshotsAssumption DEF Announced, Uploading
  <2>6. expected'[r] = expected[r] /\ object'[camera[r]] = old[r]
    BY <1>2, <2>1 DEF Write, WebInv, WebTypes
  <2>7. FlowInv(r)' BY <1>1, <1>2, <2>4, <2>6 DEF FlowInv, WebInv
  <2>8. WritesAtMost(r) BY <1>3, <2>1 DEF WritesAtMost
  <2> QED BY <1>1, <2>2, <2>3, <2>4, <2>5, <2>7, <2>8, BrowserKeeps
<1> QED BY <1>4, <1>5 DEF Rollback

LEMMA LostKeeps ==
    ASSUME WebInv, NEW r \in Requests, Lost(r)
    PROVE  WebInv'
BY AnswerKeeps DEF Lost

\* The invariant of the uploads holds whatever the job does.
THEOREM UploadsInductive == Spec => []WebInv
<1>1. Init => WebInv BY InitWebInv
<1>2. ASSUME WebInv, [Next]_vars PROVE WebInv'
  <2>1. ASSUME NEW r \in Requests, Browser(r) PROVE WebInv'
    BY <1>2, <2>1, ViewKeeps, SaveSnapshotKeeps, OpenKeeps, PutKeeps, FinalKeeps, RollbackKeeps,
       LostKeeps DEF Browser
  <2>2. ASSUME NEW c \in Uploadable, Retire(c) PROVE WebInv' BY <1>2, <2>2, JobKeeps DEF Retire
  <2>3. CASE Start \/ List \/ Look \/ Pause \/ Ask \/ Done \/ Signal \/ Kill
    BY <1>2, <2>3, JobKeeps DEF Start, List, Look, Pause, Ask, Done, Signal, Kill, aside
  <2>4. CASE Capture BY <1>2, <2>4, JobKeeps DEF Capture, aside
  <2>5. CASE Store BY <1>2, <2>5, JobKeeps DEF Store, aside
  <2>6. CASE Rest \/ UNCHANGED vars BY <1>2, <2>6, JobKeeps DEF Rest, vars
  <2> QED BY <1>2, <2>1, <2>2, <2>3, <2>4, <2>5, <2>6 DEF Next, Batch
<1> QED BY <1>1, <1>2, PTL DEF Spec

\* No picture of a browser is ever stored that is not announced in the audit log, and
\* nobody is told of a stored picture or given an address without a success event.
THEOREM PicturesAudited == Spec => []PicturesAreAudited
<1>1. WebInv => PicturesAreAudited BY DEF WebInv
<1> QED BY <1>1, UploadsInductive, PTL

\* An upload refused for its audit leaves the picture it found, for any number of
\* uploads to the camera, unless somebody else has written it.
THEOREM RefusedTraceless == Spec => []RefusedLeavesNoTrace
<1>1. WebInv => RefusedLeavesNoTrace BY DEF WebInv, FlowInv, RefusedLeavesNoTrace
<1> QED BY <1>1, UploadsInductive, PTL

-----------------------------------------------------------------------------
(* The circuit. *)

\* The steps of the job that count nothing keep the count.
LEMMA CountKept ==
    ASSUME CircuitInv, job.at # "idle", trail' = trail,
           DOMAIN job' = DOMAIN job, job'.at # "idle",
           job'.consecutive = job.consecutive, job'.outcome = job.outcome
    PROVE  CircuitInv'
<1>1. Counting' BY DEF CircuitInv, Counting, RowAt
<1>2. CircuitOpensOnTime' BY DEF CircuitInv, CircuitOpensOnTime
<1> QED BY <1>1, <1>2 DEF CircuitInv

\* The job may end at any time with another outcome than the circuit.
LEMMA EndKept ==
    ASSUME CircuitInv, job.at # "idle", trail' = trail, DOMAIN job' = DOMAIN job,
           job'.at = "idle", job'.outcome # "circuit"
    PROVE  CircuitInv'
<1>1. \A i \in 1..Len(trail) : ~RowAt(i) BY DEF CircuitInv, Counting
<1>2. CircuitOpensOnTime' BY <1>1 DEF CircuitOpensOnTime, RowAt
<1> QED BY <1>2 DEF CircuitInv

\* With nothing asked there is no row.
LEMMA FreshKept ==
    ASSUME DOMAIN job' = {"at", "force", "list", "pos", "captured", "consecutive", "outcome"},
           trail' = <<>>, job'.consecutive = 0, job'.outcome # "circuit"
    PROVE  CircuitInv'
<1>1. Len(trail') = 0 OBVIOUS
<1>2. Counting' BY <1>1, SnapshotsAssumption DEF Counting
<1>3. CircuitOpensOnTime' BY <1>1 DEF CircuitOpensOnTime
<1> QED BY <1>2, <1>3 DEF CircuitInv

\* One camera more: the count follows the trail, and the job gives up exactly when
\* the row is full.
LEMMA FinishKept ==
    ASSUME CircuitInv, job.at # "idle",
           NEW answered \in Codes \cup {"succeeded", "oss_upload_failed"}, Finish(answered)
    PROVE  CircuitInv'
<1> DEFINE n == Len(trail)
           bad == isCircuitFailure(answered)
           T == Codes \cup {"succeeded", "oss_upload_failed"}
<1>1. trail \in Seq(T) /\ Counting BY DEF CircuitInv
<1>2. trail' = Append(trail, answered) BY DEF Finish
<1> HIDE DEF T
<1>3. /\ n \in Nat /\ trail' \in Seq(T) /\ Len(trail') = n + 1 /\ trail'[n + 1] = answered
      /\ \A k \in 1..n : trail'[k] = trail[k]
  <2>1. answered \in T BY DEF T
  <2> QED BY <1>1, <1>2, <2>1
<1>4. PICK m \in Nat : m = job.consecutive /\ m < MaxFailures /\ m <= n
  BY <1>1, SnapshotsAssumption DEF Counting
<1>5. PICK h \in Nat : h = n BY <1>3
<1>6. MaxFailures \in Nat /\ MaxFailures >= 1 BY SnapshotsAssumption
<1> HIDE DEF n
<1>7. /\ \A k \in (h - m + 1)..h : isCircuitFailure(trail[k])
      /\ m < h => ~isCircuitFailure(trail[h - m])
      /\ \A i \in 1..h : ~RowAt(i)
      /\ job.outcome # "circuit"
  BY <1>1, <1>4, <1>5 DEF Counting, n
\* A row within the trail ends with the camera just asked, and is then the row counted.
<1>8. ASSUME NEW i \in 1..(h + 1), i + MaxFailures - 1 <= h + 1,
             \A k \in i..(i + MaxFailures - 1) : isCircuitFailure(trail'[k])
      PROVE  bad /\ m + 1 >= MaxFailures /\ i + MaxFailures - 1 = h + 1
  <2>1. i + MaxFailures - 1 = h + 1
    <3>1. SUFFICES ASSUME i + MaxFailures - 1 <= h PROVE FALSE BY <1>6, <1>8
    <3>2. \A k \in i..(i + MaxFailures - 1) : k \in 1..h BY <3>1, <1>6
    <3>3. \A k \in i..(i + MaxFailures - 1) : isCircuitFailure(trail[k])
      BY <3>2, <1>8, <1>3, <1>5
    <3>4. i \in 1..h BY <3>1, <1>6
    <3> QED BY <3>1, <3>3, <3>4, <1>5, <1>7 DEF RowAt, n
  <2>2. bad
    <3>1. h + 1 \in i..(i + MaxFailures - 1) BY <2>1, <1>6
    <3> QED BY <3>1, <1>8, <1>3, <1>5
  <2>3. m + 1 >= MaxFailures
    <3>1. SUFFICES ASSUME m + 1 < MaxFailures PROVE FALSE BY <1>6
    <3>2. h - m \in i..(i + MaxFailures - 1) /\ h - m \in 1..h /\ m < h BY <3>1, <2>1, <1>6, <1>4, <1>5
    <3>3. isCircuitFailure(trail'[h - m]) BY <3>2, <1>8
    <3>4. trail'[h - m] = trail[h - m] BY <3>2, <1>3, <1>5
    <3> QED BY <3>2, <3>3, <3>4, <1>7
  <2> QED BY <2>1, <2>2, <2>3
<1>9. CASE bad /\ m + 1 >= MaxFailures
  <2>1. ~(answered = "succeeded") BY <1>9 DEF isCircuitFailure
  <2>2. Consecutive(answered) = m + 1 BY <1>4, <1>9 DEF Consecutive
  <2>3. job' = [NoJob EXCEPT !.pos = job.pos + 1, !.outcome = "circuit"]
    BY <2>1, <2>2, <1>9 DEF Finish
  <2>4. /\ job'.at = "idle" /\ job'.outcome = "circuit"
        /\ DOMAIN job' = {"at", "force", "list", "pos", "captured", "consecutive", "outcome"}
    BY <2>3 DEF NoJob
  <2>5. m + 1 = MaxFailures /\ h + 1 - MaxFailures + 1 = h - m + 1 BY <1>4, <1>6, <1>9
  <2>6. \A k \in (h - m + 1)..(h + 1) : isCircuitFailure(trail'[k])
    <3>1. ASSUME NEW k \in (h - m + 1)..(h + 1) PROVE isCircuitFailure(trail'[k])
      <4>1. CASE k = h + 1 BY <4>1, <1>3, <1>5, <1>9
      <4>2. CASE k # h + 1
        <5>1. k \in (h - m + 1)..h /\ k \in 1..h BY <4>2, <1>4, <1>5
        <5> QED BY <5>1, <1>3, <1>5, <1>7
      <4> QED BY <4>1, <4>2
    <3> QED BY <3>1
  <2>7. (h - m + 1) + MaxFailures - 1 = h + 1 BY <2>5
  <2>8. CircuitOpensOnTime'
    BY <2>4, <2>5, <2>6, <2>7, <1>3, <1>5, <1>8 DEF CircuitOpensOnTime
  <2> QED BY <2>4, <2>8, <1>3 DEF CircuitInv, T
<1>10. CASE ~(bad /\ m + 1 >= MaxFailures)
  <2>1. \A i \in 1..(h + 1) :
          ~(/\ i + MaxFailures - 1 <= h + 1
            /\ \A k \in i..(i + MaxFailures - 1) : isCircuitFailure(trail'[k]))
    BY <1>8, <1>10
  <2>2. /\ DOMAIN job' = {"at", "force", "list", "pos", "captured", "consecutive", "outcome"}
        /\ job'.outcome = job.outcome
        /\ job'.consecutive = IF bad THEN m + 1 ELSE 0
    <3>1. DOMAIN job = {"at", "force", "list", "pos", "captured", "consecutive", "outcome"}
      BY DEF CircuitInv
    <3>2. CASE answered = "succeeded"
      <4>1. job' = [job EXCEPT !.at = "look", !.pos = @ + 1, !.consecutive = 0] BY <3>2 DEF Finish
      <4>2. ~bad BY <3>2 DEF isCircuitFailure
      <4> QED BY <3>1, <4>1, <4>2
    <3>3. CASE answered # "succeeded"
      <4>1. Consecutive(answered) = IF bad THEN m + 1 ELSE 0 BY <1>4 DEF Consecutive
      <4>2. ~(isCircuitFailure(answered) /\ Consecutive(answered) >= MaxFailures) BY <4>1, <1>10
      <4>3. job' = [job EXCEPT !.at = "look", !.pos = @ + 1, !.consecutive = Consecutive(answered)]
        BY <3>3, <4>2 DEF Finish
      <4> QED BY <3>1, <4>1, <4>3
    <3> QED BY <3>2, <3>3
  <2>3. \A i \in 1..(h + 1) : ~RowAt(i)' BY <2>1, <1>3, <1>5 DEF RowAt
  <2>4. CircuitOpensOnTime' BY <2>1, <2>2, <1>3, <1>5, <1>7 DEF CircuitOpensOnTime
  <2>5. CASE bad
    <3>1. job'.consecutive = m + 1 /\ m + 1 \in 0..(MaxFailures - 1) /\ m + 1 <= h + 1
      BY <2>2, <2>5, <1>10, <1>4, <1>5, <1>6
    <3>2. ASSUME NEW k \in (h - m + 1)..(h + 1) PROVE isCircuitFailure(trail'[k])
      <4>1. CASE k = h + 1 BY <4>1, <1>3, <1>5, <2>5
      <4>2. CASE k # h + 1
        <5>1. k \in (h - m + 1)..h /\ k \in 1..h BY <4>2, <1>4, <1>5
        <5> QED BY <5>1, <1>3, <1>5, <1>7
      <4> QED BY <4>1, <4>2
    <3>3. m + 1 < h + 1 => ~isCircuitFailure(trail'[h - m])
      <4>1. m < h => h - m \in 1..h BY <1>4, <1>5
      <4> QED BY <4>1, <1>3, <1>4, <1>5, <1>7
    <3>4. (h + 1) - (m + 1) + 1 = h - m + 1 /\ (h + 1) - (m + 1) = h - m BY <1>4, <1>5
    <3>5. Counting' BY <3>1, <3>2, <3>3, <3>4, <2>2, <2>3, <1>3, <1>5, <1>7 DEF Counting
    <3> QED BY <3>5, <2>2, <2>4, <1>3 DEF CircuitInv, T
  <2>6. CASE ~bad
    <3>1. job'.consecutive = 0 BY <2>2, <2>6
    <3>2. Counting' BY <3>1, <2>2, <2>3, <2>6, <1>3, <1>5, <1>6, <1>7 DEF Counting
    <3> QED BY <3>2, <2>2, <2>4, <1>3 DEF CircuitInv, T
  <2> QED BY <2>5, <2>6
<1> QED BY <1>9, <1>10

LEMMA InitCircuitInv == Init => CircuitInv
<1> SUFFICES ASSUME Init PROVE CircuitInv OBVIOUS
<1>1. job = NoJob /\ trail = <<>> BY DEF Init
<1>2. /\ DOMAIN job = {"at", "force", "list", "pos", "captured", "consecutive", "outcome"}
      /\ job.at = "idle" /\ job.outcome = None
  BY <1>1 DEF NoJob
<1>3. CircuitOpensOnTime BY <1>1, <1>2, SnapshotsAssumption DEF CircuitOpensOnTime
<1> QED BY <1>1, <1>2, <1>3 DEF CircuitInv

\* The loop of the job.
LEMMA LoopKept ==
    ASSUME CircuitInv, Batch
    PROVE  CircuitInv'
<1>1. job.at # "idle" BY DEF Batch, List, Look, Pause, Ask, Capture, Store, Done, Running
<1>2. DOMAIN job = {"at", "force", "list", "pos", "captured", "consecutive", "outcome"}
  BY DEF CircuitInv
<1>3. ASSUME NEW o \in {"done", "failed"}, End(o), trail' = trail PROVE CircuitInv'
  <2>1. /\ job'.at = "idle" /\ job'.outcome = o
        /\ DOMAIN job' = {"at", "force", "list", "pos", "captured", "consecutive", "outcome"}
    BY <1>3 DEF End, NoJob
  <2>2. o # "circuit" OBVIOUS
  <2> QED BY <1>1, <1>2, <1>3, <2>1, <2>2, EndKept
<1>4. CASE List
  <2>1. CASE job' = [job EXCEPT !.at = "look", !.list = ListCandidates]
    <3>1. /\ job'.at = "look" /\ job'.consecutive = job.consecutive /\ job'.outcome = job.outcome
          /\ DOMAIN job' = DOMAIN job
      BY <1>2, <2>1
    <3> QED BY <1>1, <1>4, <3>1, CountKept DEF List
  <2> QED BY <1>3, <1>4, <2>1 DEF List
<1>5. CASE Look
  <2>1. CASE job' = [job EXCEPT !.at = "pause"]
    <3>1. /\ job'.at = "pause" /\ job'.consecutive = job.consecutive /\ job'.outcome = job.outcome
          /\ DOMAIN job' = DOMAIN job
      BY <1>2, <2>1
    <3> QED BY <1>1, <1>5, <3>1, CountKept DEF Look
  <2>2. CASE job' = [job EXCEPT !.pos = @ + 1]
    <3>1. /\ job'.at = job.at /\ job'.consecutive = job.consecutive /\ job'.outcome = job.outcome
          /\ DOMAIN job' = DOMAIN job
      BY <1>2, <2>2
    <3> QED BY <1>1, <1>5, <3>1, CountKept DEF Look
  <2> QED BY <1>3, <1>5, <2>1, <2>2 DEF Look
<1>6. CASE Pause
  <2>1. CASE job' = [job EXCEPT !.at = "ask"]
    <3>1. /\ job'.at = "ask" /\ job'.consecutive = job.consecutive /\ job'.outcome = job.outcome
          /\ DOMAIN job' = DOMAIN job
      BY <1>2, <2>1
    <3> QED BY <1>1, <1>6, <3>1, CountKept DEF Pause
  <2> QED BY <1>3, <1>6, <2>1 DEF Pause
<1>7. CASE Ask
  <2>1. job' = [job EXCEPT !.at = "capture", !.captured = TRUE] BY <1>7 DEF Ask
  <2>2. /\ job'.at = "capture" /\ job'.consecutive = job.consecutive /\ job'.outcome = job.outcome
        /\ DOMAIN job' = DOMAIN job
    BY <1>2, <2>1
  <2> QED BY <1>1, <1>7, <2>2, CountKept DEF Ask
<1>8. CASE Capture
  <2>1. CASE job' = [job EXCEPT !.at = "store"] /\ trail' = trail
    <3>1. /\ job'.at = "store" /\ job'.consecutive = job.consecutive /\ job'.outcome = job.outcome
          /\ DOMAIN job' = DOMAIN job
      BY <1>2, <2>1
    <3> QED BY <1>1, <2>1, <3>1, CountKept
  <2> QED BY <1>1, <1>8, <2>1, FinishKept DEF Capture
<1>9. CASE Store BY <1>1, <1>9, FinishKept DEF Store
<1>10. CASE Done BY <1>3, <1>10 DEF Done
<1> QED BY <1>4, <1>5, <1>6, <1>7, <1>8, <1>9, <1>10 DEF Batch

\* The invariant of the circuit holds whatever the browsers do.
THEOREM CircuitInductive == Spec => []CircuitInv
<1>1. Init => CircuitInv BY InitCircuitInv
<1>2. ASSUME CircuitInv, [Next]_vars PROVE CircuitInv'
  <2>1. CASE Batch BY <1>2, <2>1, LoopKept
  <2>2. CASE Start
    <3>1. PICK force \in BOOLEAN : job' = [NoJob EXCEPT !.at = "list", !.force = force]
      BY <2>2 DEF Start
    <3>2. /\ DOMAIN job' = {"at", "force", "list", "pos", "captured", "consecutive", "outcome"}
          /\ job'.consecutive = 0 /\ job'.outcome = None
      BY <3>1 DEF NoJob
    <3> QED BY <2>2, <3>2, SnapshotsAssumption, FreshKept DEF Start
  <2>3. CASE Kill
    <3>1. job' = [NoJob EXCEPT !.outcome = "killed"] BY <2>3 DEF Kill
    <3>2. /\ DOMAIN job' = {"at", "force", "list", "pos", "captured", "consecutive", "outcome"}
          /\ job'.consecutive = 0 /\ job'.outcome = "killed"
      BY <3>1 DEF NoJob
    <3> QED BY <2>3, <3>2, FreshKept DEF Kill
  <2>4. CASE UNCHANGED <<job, trail>>
    BY <1>2, <2>4 DEF CircuitInv, Counting, RowAt, CircuitOpensOnTime
  <2>5. CASE Signal BY <2>4, <2>5 DEF Signal
  <2>6. ASSUME NEW r \in Requests, Browser(r) PROVE CircuitInv'
    BY <2>4, <2>6 DEF Browser, View, SaveSnapshot, Open, Put, Final, Rollback, Lost, batch
  <2>7. ASSUME NEW c \in Uploadable, Retire(c) PROVE CircuitInv' BY <2>4, <2>7 DEF Retire, batch
  <2>8. CASE Rest \/ UNCHANGED vars BY <2>4, <2>8 DEF Rest, vars, batch
  <2> QED BY <1>2, <2>1, <2>2, <2>3, <2>5, <2>6, <2>7, <2>8 DEF Next
<1> QED BY <1>1, <1>2, PTL DEF Spec

\* The job asks no further camera after MaxFailures failures in a row of the
\* recorder's side, and gives up for no shorter row, for any limit and any cameras.
THEOREM CircuitOnTime == Spec => []CircuitOpensOnTime
<1>1. CircuitInv => CircuitOpensOnTime BY DEF CircuitInv
<1> QED BY <1>1, CircuitInductive, PTL

-----------------------------------------------------------------------------
(* What a single capture does inside: FrameCapture, for any stream,        *)
(* however packets are lost, whatever size the sequence numbers and the    *)
(* NAL units have.  The inductive invariant says which fragments the       *)
(* depacketizer holds, and what each step of the decoder leaves for the    *)
(* next one to collect.                                                    *)

\* The fragments held are the first ones of the NAL unit being sent, up to the last
\* packet, and at least one is still to come.
FuInv ==
    /\ nal.first <= pos
    /\ fu # Nothing => /\ fu.next = (pos + 1) % SeqCycle
                       /\ fu.parts = 1..(pos - nal.first + 1)
                       /\ pos + 1 < EndOf(nal)

\* Units put together are whole and of one picture.
UnitInv == au.whole /\ \E t \in {0, 1} : au.stamps \subseteq {t}

\* What is still to be collected.
Untouched == proc = "none" /\ ~stdin /\ ~stdout /\ reader = Nothing /\ writer = Nothing
CollectInv ==
    /\ stage \in {"dial", "read", "start"} => Untouched
    /\ stage \in {"reap", "drain"} => ~stdin /\ ~stdout
    /\ stage = "drain" => proc \in {"none", "reaped"}
    /\ NothingLeftBehind

FrameInv == CaptureTypeOK /\ FuInv /\ UnitInv /\ MediaIsWhole /\ CollectInv


\* A number and the same number with less than a cycle added differ modulo the cycle.
LEMMA GapIsSeen ==
    ASSUME NEW m \in Nat, NEW a \in Nat, NEW g \in Nat, g < m, (a + g) % m = a % m
    PROVE  g = 0
<1>1. a = m * (a \div m) + (a % m) /\ (a \div m) \in Nat
  OBVIOUS
<1>2. a + g = m * ((a + g) \div m) + ((a + g) % m) /\ ((a + g) \div m) \in Nat
  OBVIOUS
<1>3. PICK p \in Nat, q \in Nat : p = a \div m /\ q = (a + g) \div m
  BY <1>1, <1>2
<1>4. g = m * q - m * p
  BY <1>1, <1>2, <1>3
<1>5. ASSUME p < q PROVE FALSE
  BY <1>4, <1>5
<1>6. ASSUME q < p PROVE FALSE
  BY <1>4, <1>6
<1> QED BY <1>3, <1>4, <1>5, <1>6

\* The remainder is the only one there is.
LEMMA RemainderUnique ==
    ASSUME NEW m \in Nat, NEW n \in Nat, NEW q \in Nat, NEW r \in Nat, r < m, n = m * q + r
    PROVE  n % m = r
<1>1. n = m * (n \div m) + (n % m) /\ (n \div m) \in Nat /\ (n % m) \in Nat /\ (n % m) < m
  OBVIOUS
<1>2. PICK p \in Nat, t \in Nat : p = n \div m /\ t = n % m
  BY <1>1
<1>3. m * q + r = m * p + t /\ t < m
  BY <1>1, <1>2
<1>4. ASSUME p < q PROVE FALSE
  <2>1. PICK d \in Nat : q = p + 1 + d
    <3>1. q = p + 1 + (q - p - 1) /\ q - p - 1 \in Nat
      BY <1>4
    <3> QED BY <3>1
  <2>2. m * q = m * p + m + m * d /\ m * d \in Nat
    BY <2>1
  <2> QED BY <1>3, <2>2
<1>5. ASSUME q < p PROVE FALSE
  <2>1. PICK d \in Nat : p = q + 1 + d
    <3>1. p = q + 1 + (p - q - 1) /\ p - q - 1 \in Nat
      BY <1>5
    <3> QED BY <3>1
  <2>2. m * p = m * q + m + m * d /\ m * d \in Nat
    BY <2>1
  <2> QED BY <1>3, <2>2
<1> QED BY <1>2, <1>3, <1>4, <1>5

\* A remainder is below the cycle.
LEMMA RemainderRange == ASSUME NEW m \in Nat, m > 1, NEW n \in Nat PROVE n % m \in 0..(m - 1)
OBVIOUS

\* Adding one to a sequence number of 16 bits is adding one to the packet's place.
LEMMA SequenceWraps ==
    ASSUME NEW m \in Nat, m > 1, NEW n \in Nat
    PROVE  ((n % m) + 1) % m = (n + 1) % m
<1>1. PICK q \in Nat, r \in Nat : n = m * q + r /\ r = n % m /\ r < m
  <2>1. n = m * (n \div m) + (n % m) /\ (n \div m) \in Nat /\ (n % m) \in Nat /\ (n % m) < m
    OBVIOUS
  <2> QED BY <2>1
<1>2. CASE r + 1 < m
  <2>1. n + 1 = m * q + (r + 1) /\ r + 1 = m * 0 + (r + 1) /\ n + 1 \in Nat /\ r + 1 \in Nat
    BY <1>1
  <2>2. (n + 1) % m = r + 1
    BY ONLY <1>2, <2>1, m \in Nat, q \in Nat, RemainderUnique
  <2>3. (r + 1) % m = r + 1
    BY ONLY <1>2, <2>1, m \in Nat, 0 \in Nat, RemainderUnique
  <2> QED BY <1>1, <2>2, <2>3
<1>3. CASE r + 1 = m
  <2>1. /\ n + 1 = m * (q + 1) + 0 /\ r + 1 = m * 1 + 0
        /\ n + 1 \in Nat /\ r + 1 \in Nat /\ q + 1 \in Nat
    BY <1>1, <1>3
  <2>2. PICK one \in Nat, next \in Nat, none \in Nat : one = 1 /\ next = q + 1 /\ none = 0
    OBVIOUS
  <2>3. n + 1 = m * next + none /\ r + 1 = m * one + none
    BY <2>1, <2>2
  <2>a. none < m
    BY <2>2
  <2>4. (n + 1) % m = none
    BY ONLY <2>1, <2>3, <2>a, next \in Nat, none \in Nat, m \in Nat, m > 1, RemainderUnique
  <2>5. (r + 1) % m = none
    BY ONLY <2>1, <2>3, <2>a, one \in Nat, none \in Nat, m \in Nat, m > 1, RemainderUnique
  <2> QED BY <1>1, <2>4, <2>5
<1> QED BY <1>1, <1>2, <1>3

\* The packet delivered is a fragment of its NAL unit.
LEMMA DeliverEffect ==
    ASSUME CaptureTypeOK, FuInv, Deliver
    PROVE  /\ pos' \in 0..MaxPos /\ nal'.first \in Nat /\ nal'.len \in 1..MaxFragments
           /\ nal' \in [first : 0..MaxPos, len : 0..MaxFragments, type : Types,
                        stamp : {0, 1}, last : BOOLEAN]
           /\ nal'.first <= pos' /\ pos' < nal'.first + nal'.len
           /\ pos' < EndOf(nal) => nal' = nal
           /\ \E gap \in 0..MaxGap : pos' = pos + 1 + gap
<1>0. /\ pos \in Nat /\ nal.first \in Nat /\ nal.len \in Nat /\ nal.len <= MaxFragments
      /\ nal.stamp \in {0, 1} /\ MaxPos \in Nat /\ MaxGap \in Nat /\ nal.first <= pos
      /\ MaxFragments \in Nat
  BY CaptureAssumption DEF CaptureTypeOK, FuInv
<1>1. PICK gap \in 0..MaxGap :
        /\ pos' = pos + 1 + gap /\ pos' <= MaxPos
        /\ IF pos' < EndOf(nal) THEN UNCHANGED nal
           ELSE \E first \in EndOf(nal)..pos', len \in 1..MaxFragments, type \in Types,
                   step \in {0, 1}, last \in BOOLEAN :
                   /\ pos' < first + len
                   /\ nal' = [first |-> first, len |-> len, type |-> type,
                              stamp |-> IF nal.last \/ gap > 0 THEN (nal.stamp + step) % 2
                                        ELSE nal.stamp,
                              last |-> last]
  BY DEF Deliver
<1>2. pos' \in 0..MaxPos /\ pos' \in Nat
  BY <1>0, <1>1
<1>3. CASE pos' < EndOf(nal)
  BY <1>0, <1>1, <1>2, <1>3 DEF EndOf, CaptureTypeOK
<1>4. CASE ~(pos' < EndOf(nal))
  <2>1. PICK first \in EndOf(nal)..pos', len \in 1..MaxFragments, type \in Types,
             step \in {0, 1}, last \in BOOLEAN :
                   /\ pos' < first + len
                   /\ nal' = [first |-> first, len |-> len, type |-> type,
                              stamp |-> IF nal.last \/ gap > 0 THEN (nal.stamp + step) % 2
                                        ELSE nal.stamp,
                              last |-> last]
    BY <1>1, <1>4
  <2>2. first \in 0..MaxPos /\ first <= pos'
    BY <1>0, <1>1, <1>2, <2>1 DEF EndOf
  <2>3. (nal.stamp + step) % 2 \in {0, 1}
    BY <1>0
  <2>4. (IF nal.last \/ gap > 0 THEN (nal.stamp + step) % 2 ELSE nal.stamp) \in {0, 1}
    BY <1>0, <2>3
  <2>5. len \in 0..MaxFragments
    BY <1>0
  <2>6. nal' \in [first : 0..MaxPos, len : 0..MaxFragments, type : Types,
                  stamp : {0, 1}, last : BOOLEAN]
    BY <2>1, <2>2, <2>4, <2>5
  <2>7. nal'.first = first /\ nal'.len = len
    BY <2>1
  <2> QED BY <1>0, <1>1, <1>2, <1>4, <2>1, <2>2, <2>6, <2>7
<1> QED BY <1>3, <1>4

\* What feedH265 hands on consists of all fragments up to the packet just delivered:
\* a lost packet changes the sequence number, and the fragment is refused.
LEMMA FeedWhole ==
    ASSUME CaptureTypeOK, FuInv, Deliver
    PROVE  /\ feedH265.is \in {"nal", "part", "bad"}
           /\ feedH265.is = "nal" => feedH265.parts = 1..nal'.len
           /\ feedH265.is = "part" => /\ feedH265.parts = 1..(pos' - nal'.first + 1)
                                      /\ pos' + 1 < nal'.first + nal'.len
<1>0. /\ pos' \in Nat /\ nal'.first \in Nat /\ nal'.len \in Nat \ {0} /\ nal'.first <= pos'
      /\ pos' < nal'.first + nal'.len
  BY DeliverEffect
<1>1. Fragment \in Nat \ {0} /\ Fragment <= nal'.len /\ Fragment = pos' - nal'.first + 1
  BY <1>0 DEF Fragment
<1>2. ASSUME Fragment # 1, Continues
      PROVE  fu.parts \cup {Fragment} = 1..Fragment
  <2>1. PICK gap \in 0..MaxGap : pos' = pos + 1 + gap
    BY DeliverEffect
  <2>2. /\ fu.next = (pos + 1) % SeqCycle /\ fu.parts = 1..(pos - nal.first + 1)
        /\ pos + 1 < EndOf(nal) /\ pos' % SeqCycle = fu.next
        /\ pos \in Nat /\ nal.first \in Nat /\ nal.first <= pos
    BY <1>2 DEF FuInv, Continues, PacketSeq, CaptureTypeOK
  <2>3. gap = 0
    <3>1. gap \in Nat /\ gap < SeqCycle /\ pos + 1 \in Nat /\ SeqCycle \in Nat
      BY <2>2, CaptureAssumption
    <3>2. ((pos + 1) + gap) % SeqCycle = (pos + 1) % SeqCycle
      BY <2>1, <2>2
    <3> QED BY <3>1, <3>2, GapIsSeen
  <2>4. pos' = pos + 1 /\ nal' = nal
    BY <2>1, <2>2, <2>3, DeliverEffect
  <2>5. Fragment = (pos - nal.first + 1) + 1
    <3>1. Fragment = (pos + 1) - nal.first + 1
      BY <1>1, <2>4
    <3> QED BY <2>2, <3>1
  <2> QED BY <1>1, <2>2, <2>5
<1>3. CASE Single
  BY <1>3 DEF feedH265, Single
<1>4. CASE ~Single /\ Fragment # 1 /\ ~Continues
  BY <1>4 DEF feedH265
<1>5. CASE ~Single /\ ~(Fragment # 1 /\ ~Continues)
  <2>1. (IF Fragment = 1 THEN {1} ELSE fu.parts \cup {Fragment}) = 1..Fragment
    <3>1. CASE Fragment = 1
      BY <3>1
    <3>2. CASE Fragment # 1
      BY <1>2, <1>5, <3>2
    <3> QED BY <3>1, <3>2
  <2>2. feedH265.is = (IF Fragment = nal'.len THEN "nal" ELSE "part")
        /\ feedH265.parts = 1..Fragment
    BY <1>5, <2>1 DEF feedH265
  <2> QED BY <1>0, <1>1, <2>2
<1> QED BY <1>3, <1>4, <1>5

\* A unit appended to whole units of one picture leaves whole units of one picture.
LEMMA AppendWhole ==
    ASSUME CaptureTypeOK, UnitInv, nal'.stamp \in {0, 1}
    PROVE  /\ appendUnit(TRUE) \in [stamps : SUBSET {0, 1}, whole : BOOLEAN, key : BOOLEAN]
           /\ appendUnit(TRUE).whole
           /\ appendUnit(TRUE).stamps = {nal'.stamp}
<1> DEFINE base == IF au.stamps \subseteq {nal'.stamp} THEN au ELSE NoUnit
           unit == appendUnit(TRUE)
<1>1. /\ base \in [stamps : SUBSET {0, 1}, whole : BOOLEAN, key : BOOLEAN]
      /\ base.whole /\ base.stamps \subseteq {nal'.stamp}
  BY DEF CaptureTypeOK, UnitInv, NoUnit
<1>2. unit = [stamps |-> base.stamps \cup {nal'.stamp}, whole |-> base.whole /\ TRUE,
              key |-> base.key \/ nal'.type = "key"]
  BY DEF appendUnit
<1>3. base.stamps \in SUBSET {0, 1} /\ base.whole = TRUE /\ base.key \in BOOLEAN
  BY <1>1
<1> HIDE DEF base, unit
<1>4. (base.whole /\ TRUE) = TRUE /\ (base.key \/ nal'.type = "key") \in BOOLEAN
      /\ base.stamps \cup {nal'.stamp} = {nal'.stamp}
  BY <1>1, <1>3
<1>5. PICK k \in BOOLEAN : unit = [stamps |-> {nal'.stamp}, whole |-> TRUE, key |-> k]
  BY <1>2, <1>4
<1>6. [stamps |-> {nal'.stamp}, whole |-> TRUE, key |-> k]
        \in [stamps : SUBSET {0, 1}, whole : BOOLEAN, key : BOOLEAN]
  OBVIOUS
<1>7. unit.whole = TRUE /\ unit.stamps = {nal'.stamp}
  BY <1>5
<1> QED BY <1>5, <1>6, <1>7 DEF unit

\* One message keeps the invariant of the demultiplexer.
LEMMA ReadStep ==
    ASSUME FrameInv, Read
    PROVE  CaptureTypeOK' /\ FuInv' /\ UnitInv' /\ MediaIsWhole' /\ CollectInv'
<1>0. CaptureTypeOK /\ FuInv /\ UnitInv /\ CollectInv /\ stage = "read" /\ Deliver
  BY DEF FrameInv, Read
<1>1. UNCHANGED <<expired, pipes, main>>
  BY DEF Read
<1>2. /\ pos' \in 0..MaxPos /\ pos' \in Nat
      /\ nal' \in [first : 0..MaxPos, len : 0..MaxFragments, type : Types,
                   stamp : {0, 1}, last : BOOLEAN]
      /\ nal'.first <= pos' /\ nal'.first \in Nat
      /\ nal'.len \in 1..MaxFragments
  BY <1>0, DeliverEffect
<1>a. PICK place \in Nat : place = pos'
  BY <1>0, DeliverEffect
<1>3. Untouched
  BY <1>0 DEF CollectInv
<1>4. CASE feedH265.is = "bad"
  <2>1. stage' = "done" /\ code' = "demux_failed" /\ fu' = Nothing /\ UNCHANGED <<params, au>>
    BY <1>4 DEF Read, Return
  <2>2. CaptureTypeOK'
    BY <1>0, <1>1, <1>2, <2>1 DEF CaptureTypeOK, CaptureCodes, pipes, main
  <2>3. FuInv' /\ MediaIsWhole'
    BY <1>2, <2>1 DEF FuInv, MediaIsWhole
  <2>4. UnitInv'
    BY <1>0, <2>1 DEF UnitInv
  <2>5. CollectInv'
    BY <1>1, <1>3, <2>1, CaptureAssumption DEF CollectInv, NothingLeftBehind, Untouched, pipes
  <2> QED BY <2>2, <2>3, <2>4, <2>5
<1>5. CASE feedH265.is = "part"
  <2>1. /\ fu' = [next |-> NextSeq, type |-> nal'.type, stamp |-> nal'.stamp,
                  parts |-> feedH265.parts]
        /\ UNCHANGED <<stage, code, params, au>>
    BY <1>5 DEF Read
  <2>2. /\ feedH265.parts = 1..(pos' - nal'.first + 1) /\ pos' + 1 < nal'.first + nal'.len
    BY <1>0, <1>5, FeedWhole
  <2>3. NextSeq = (pos' + 1) % SeqCycle /\ NextSeq \in 0..(SeqCycle - 1)
    <3>1. SeqCycle \in Nat /\ SeqCycle > 1 /\ place + 1 \in Nat
      BY CaptureAssumption
    <3>2. ((place % SeqCycle) + 1) % SeqCycle = (place + 1) % SeqCycle
      BY <3>1, SequenceWraps
    <3>3. (place + 1) % SeqCycle \in 0..(SeqCycle - 1)
      BY <3>1, RemainderRange
    <3> QED BY <1>a, <3>2, <3>3 DEF NextSeq, PacketSeq
  <2>4. feedH265.parts \subseteq 1..MaxFragments
    BY <1>2, <2>2, CaptureAssumption, SMTT(60)
  <2>5. fu' \in [next : 0..(SeqCycle - 1), type : Types, stamp : {0, 1},
                 parts : SUBSET (1..MaxFragments)]
    BY <1>2, <2>1, <2>3, <2>4
  <2>6. CaptureTypeOK'
    BY <1>0, <1>1, <1>2, <2>1, <2>5 DEF CaptureTypeOK, pipes, main
  <2>7. FuInv'
    BY <1>2, <2>1, <2>2, <2>3 DEF FuInv, EndOf
  <2> QED BY <1>0, <1>1, <1>3, <2>1, <2>6, <2>7
          DEF UnitInv, MediaIsWhole, CollectInv, NothingLeftBehind, Untouched, pipes
<1>6. CASE feedH265.is = "nal"
  <2>1. fu' = Nothing /\ TakeNAL(TRUE) /\ UNCHANGED code
    BY <1>0, <1>6, FeedWhole DEF Read
  <2>2. CASE nal'.type \in ParameterSets
    <3>1. params' = params \cup {nal'.type} /\ UNCHANGED <<au, stage>>
      BY <2>1, <2>2 DEF TakeNAL
    <3>2. CaptureTypeOK'
      BY <1>0, <1>1, <1>2, <2>1, <2>2, <3>1 DEF CaptureTypeOK, pipes, main
    <3> QED BY <1>0, <1>1, <1>2, <1>3, <2>1, <3>1, <3>2
            DEF FuInv, UnitInv, MediaIsWhole, CollectInv, NothingLeftBehind, Untouched, pipes
  <2>3. CASE nal'.type \notin ParameterSets
    <3> DEFINE unit == appendUnit(TRUE)
    <3>1. /\ IF ~nal'.last THEN au' = unit /\ UNCHANGED stage
             ELSE IF unit.key /\ hasAllParameterSets THEN au' = unit /\ stage' = "start"
             ELSE au' = NoUnit /\ UNCHANGED stage
          /\ UNCHANGED params
      BY <2>1, <2>3 DEF TakeNAL
    <3>2. /\ unit \in [stamps : SUBSET {0, 1}, whole : BOOLEAN, key : BOOLEAN]
          /\ unit.whole /\ unit.stamps = {nal'.stamp}
      BY <1>0, <1>2, AppendWhole
    <3>3. /\ NoUnit \in [stamps : SUBSET {0, 1}, whole : BOOLEAN, key : BOOLEAN]
          /\ NoUnit.whole /\ NoUnit.stamps = {}
      BY DEF NoUnit
    <3> HIDE DEF unit
    <3>4. au' \in {unit, NoUnit} /\ stage' \in {"read", "start"}
      BY <1>0, <3>1
    <3>5. CaptureTypeOK'
      BY <1>0, <1>1, <1>2, <2>1, <3>1, <3>2, <3>3, <3>4 DEF CaptureTypeOK, pipes, main
    <3>6. UnitInv'
      BY <1>2, <3>2, <3>3, <3>4 DEF UnitInv
    <3>7. MediaIsWhole'
      BY <1>0, <1>2, <3>1, <3>2, <3>4 DEF MediaIsWhole, hasAllParameterSets
    <3> QED BY <1>0, <1>1, <1>2, <1>3, <2>1, <3>4, <3>5, <3>6, <3>7
            DEF FuInv, CollectInv, NothingLeftBehind, Untouched, pipes
  <2> QED BY <2>2, <2>3
<1> QED BY <1>0, <1>4, <1>5, <1>6, FeedWhole

\* Steps that leave the stream and the units alone and start no decoder.
Aside ==
    /\ UNCHANGED <<stream, demux>>
    /\ stage' \in {"start", "select", "wait"} => stage \in {"start", "select", "wait"}

\* They keep what holds of the units.
LEMMA AsideStep == ASSUME FrameInv, Aside PROVE FuInv' /\ UnitInv' /\ MediaIsWhole'
<1>1. UNCHANGED <<pos, nal, fu, params, au>>
  BY DEF Aside, stream, demux
<1>2. FuInv' /\ UnitInv'
  BY <1>1 DEF FrameInv, FuInv, UnitInv
<1>3. MediaIsWhole'
  BY <1>1 DEF FrameInv, Aside, MediaIsWhole
<1> QED BY <1>2, <1>3

\* The types of the stream and of the units.
LEMMA AsideTypes ==
    ASSUME CaptureTypeOK, Aside
    PROVE  /\ pos' \in 0..MaxPos
           /\ nal' \in [first : 0..MaxPos, len : 0..MaxFragments, type : Types, stamp : {0, 1},
                        last : BOOLEAN]
           /\ fu' = Nothing \/ fu' \in [next : 0..(SeqCycle - 1), type : Types, stamp : {0, 1},
                                     parts : SUBSET (1..MaxFragments)]
           /\ params' \subseteq ParameterSets
           /\ au' \in [stamps : SUBSET {0, 1}, whole : BOOLEAN, key : BOOLEAN]
BY DEF CaptureTypeOK, Aside, stream, demux

\* The caller's steps keep the types and leave for the next step what it collects.
LEMMA CallerStep ==
    ASSUME CaptureTypeOK, CollectInv,
           Dial \/ ReadFails \/ Decode \/ Deadline \/ Returned
    PROVE  Aside /\ CaptureTypeOK' /\ CollectInv'
<1> USE DEF CollectInv, NothingLeftBehind, Untouched
<1>1. Aside
  <2>1. CASE Dial \/ ReadFails \/ Deadline \/ Returned
    BY <2>1 DEF Dial, ReadFails, Deadline, Returned, Return, Aside, captureVars
  <2>2. CASE StartDecoder \/ SelectRead \/ SelectWrite \/ SelectDeadline
    BY <2>2 DEF StartDecoder, SelectRead, SelectWrite, SelectDeadline, Fail, Aside
  <2>3. CASE Wait \/ Close \/ Reap \/ Drain
    BY <2>3 DEF Wait, Close, Reap, Drain, Fail, Aside
  <2> QED BY <2>1, <2>2, <2>3 DEF Decode
<1>2. CASE Dial \/ ReadFails
  <2>1. UNCHANGED <<expired, pipes, main>> /\ stage' \in {"read", "done"} /\ stage \in {"dial", "read"}
        /\ code' \in CaptureCodes \cup {code}
    BY <1>2 DEF Dial, ReadFails, Return, CaptureCodes
  <2>2. CaptureTypeOK'
    BY <1>1, <2>1, AsideTypes DEF CaptureTypeOK, pipes, main
  <2>3. CollectInv'
    BY <2>1, CaptureAssumption DEF pipes
  <2> QED BY <1>1, <2>2, <2>3
<1>3. CASE Deadline \/ Returned
  <2>1. UNCHANGED <<stage, code, pipes, main>> /\ expired' \in BOOLEAN
    BY <1>3 DEF Deadline, Returned, captureVars, CaptureTypeOK
  <2>2. CaptureTypeOK'
    BY <1>1, <2>1, AsideTypes DEF CaptureTypeOK, pipes, main
  <2>3. CollectInv'
    BY <2>1 DEF pipes
  <2> QED BY <1>1, <2>2, <2>3
<1>4. CASE StartDecoder
  <2>1. CaptureTypeOK'
    BY <1>1, <1>4, AsideTypes, ZenonT(60) DEF StartDecoder, Fail, CaptureTypeOK, CaptureCodes, main
  <2>2. CollectInv'
    BY <1>4 DEF StartDecoder, Fail
  <2> QED BY <1>1, <2>1, <2>2
<1>5. CASE SelectRead \/ SelectWrite \/ SelectDeadline
  <2>1. CaptureTypeOK'
    <3>1. CASE SelectRead
      BY <1>1, <3>1, AsideTypes DEF SelectRead, Fail, CaptureTypeOK, CaptureCodes, pipes
    <3>2. CASE SelectWrite
      <4>1. /\ stdin' \in BOOLEAN /\ writeFinished' \in BOOLEAN
            /\ stage' \in {"select", "wait", "close"} /\ code' \in CaptureCodes \cup {code}
        BY <3>2 DEF SelectWrite, Fail, CaptureTypeOK, CaptureCodes
      <4>2. UNCHANGED <<expired, proc, good, stdout, reader, writer, readFinished, output>>
        BY <3>2 DEF SelectWrite
      <4> QED BY <1>1, <4>1, <4>2, AsideTypes DEF CaptureTypeOK
    <3>3. CASE SelectDeadline
      BY <1>1, <3>3, AsideTypes DEF SelectDeadline, Fail, CaptureTypeOK, CaptureCodes, pipes, main
    <3> QED BY <1>5, <3>1, <3>2, <3>3
  <2>2. stage' \in {"select", "wait", "close"}
    BY <1>5 DEF SelectRead, SelectWrite, SelectDeadline, Fail
  <2>3. CollectInv'
    BY <2>2
  <2> QED BY <1>1, <2>1, <2>3
<1>6. CASE Wait
  <2>1. CaptureTypeOK'
    BY <1>1, <1>6, AsideTypes DEF Wait, Fail, CaptureTypeOK, CaptureCodes, main
  <2>2. CollectInv'
    BY <1>6 DEF Wait, Fail
  <2> QED BY <1>1, <2>1, <2>2
<1>7. CASE Close
  <2>1. CaptureTypeOK'
    <3>1. /\ stdin' \in BOOLEAN /\ stdout' \in BOOLEAN /\ stage' \in {"reap", "drain"}
          /\ UNCHANGED <<code, expired, proc, good, reader, writer, main>>
      BY <1>7 DEF Close
    <3> QED BY <1>1, <3>1, AsideTypes DEF CaptureTypeOK, main
  <2>2. CollectInv'
    BY <1>7 DEF Close, CaptureTypeOK
  <2> QED BY <1>1, <2>1, <2>2
<1>8. CASE Reap
  <2>1. CaptureTypeOK'
    BY <1>1, <1>8, AsideTypes DEF Reap, CaptureTypeOK, main
  <2>2. CollectInv'
    BY <1>8 DEF Reap
  <2> QED BY <1>1, <2>1, <2>2
<1>9. CASE Drain
  <2>1. CaptureTypeOK'
    BY <1>1, <1>9, AsideTypes DEF Drain, CaptureTypeOK, pipes
  <2>2. CollectInv'
    BY <1>9 DEF Drain, pipes
  <2> QED BY <1>1, <2>1, <2>2
<1> QED BY <1>2, <1>3, <1>4, <1>5, <1>6, <1>7, <1>8, <1>9 DEF Decode

\* So do the goroutines and ffmpeg, whenever they end.
LEMMA HelperStep ==
    ASSUME CaptureTypeOK, CollectInv, Reader \/ Writer \/ Exit
    PROVE  Aside /\ CaptureTypeOK' /\ CollectInv'
<1> USE DEF CollectInv, NothingLeftBehind, Untouched
<1>1. Aside
  BY DEF Reader, Writer, Exit, Aside
<1>2. CASE Reader
  <2>1. CaptureTypeOK'
    BY <1>1, <1>2, AsideTypes DEF Reader, CaptureTypeOK, main
  <2> QED BY <1>1, <1>2, <2>1, CaptureAssumption DEF Reader
<1>3. CASE Writer
  <2>1. CaptureTypeOK'
    BY <1>1, <1>3, AsideTypes DEF Writer, CaptureTypeOK, main
  <2> QED BY <1>1, <1>3, <2>1, CaptureAssumption DEF Writer
<1>4. CASE Exit
  <2>1. CaptureTypeOK'
    <3>1. /\ good' \in BOOLEAN /\ proc' = "exited"
          /\ UNCHANGED <<stage, code, expired, stdin, stdout, reader, writer, main>>
      BY <1>4 DEF Exit
    <3> QED BY <1>1, <3>1, AsideTypes DEF CaptureTypeOK, main
  <2> QED BY <1>1, <1>4, <2>1 DEF Exit
<1> QED BY <1>2, <1>3, <1>4

\* The initial state satisfies the invariant.
LEMMA InitFrameInv == ASSUME CaptureInit PROVE FrameInv
<1>1. CaptureTypeOK
  <2>1. nal \in [first : 0..MaxPos, len : 0..MaxFragments, type : Types, stamp : {0, 1},
                 last : BOOLEAN]
    BY CaptureAssumption DEF CaptureInit, Types
  <2>2. au \in [stamps : SUBSET {0, 1}, whole : BOOLEAN, key : BOOLEAN]
    BY DEF CaptureInit, NoUnit
  <2> QED BY <2>1, <2>2 DEF CaptureInit, CaptureTypeOK
<1>2. FuInv /\ UnitInv
  BY DEF CaptureInit, FuInv, UnitInv, NoUnit
<1>3. MediaIsWhole /\ CollectInv
  BY DEF CaptureInit, MediaIsWhole, CollectInv, Untouched, NothingLeftBehind
<1> QED BY <1>1, <1>2, <1>3 DEF FrameInv

\* The inductive invariant of a capture, with the types.
THEOREM CaptureInductive == CaptureSpec => []FrameInv
<1>1. FrameInv /\ [CaptureNext]_captureVars => FrameInv'
  <2> SUFFICES ASSUME FrameInv, [CaptureNext]_captureVars PROVE FrameInv'
    OBVIOUS
  <2>1. CASE Read
    BY <2>1, ReadStep DEF FrameInv
  <2>2. CASE Dial \/ ReadFails \/ Decode \/ Deadline \/ Returned
    BY <2>2, CallerStep, AsideStep DEF FrameInv
  <2>3. CASE Reader \/ Writer \/ Exit
    BY <2>3, HelperStep, AsideStep DEF FrameInv
  <2>4. CASE UNCHANGED captureVars
    BY <2>4 DEF FrameInv, CaptureTypeOK, FuInv, UnitInv, MediaIsWhole, CollectInv, NothingLeftBehind,
       Untouched, captureVars, stream, demux, pipes, main
  <2> QED BY <2>1, <2>2, <2>3, <2>4 DEF CaptureNext
<1>2. CaptureInit => FrameInv
  BY InitFrameInv
<1> QED BY <1>1, <1>2, PTL DEF CaptureSpec

\* ffmpeg is only ever given whole NAL units of one picture with a key frame and all
\* parameter sets (Depacketizer, accessUnit and the loop of Capture), for every
\* width of the sequence numbers that is longer than the gaps.
THEOREM MediaWhole == CaptureSpec => []MediaIsWhole
<1>1. FrameInv => MediaIsWhole
  BY DEF FrameInv
<1> QED BY <1>1, CaptureInductive, PTL

\* A capture that has returned left no process, no goroutine and no open pipe
\* (captureJPEG's deferred shutdown), whichever of them ended or failed first.
THEOREM NothingLeft == CaptureSpec => []NothingLeftBehind
<1>1. FrameInv => NothingLeftBehind
  BY DEF FrameInv, CollectInv
<1> QED BY <1>1, CaptureInductive, PTL
=============================================================================
