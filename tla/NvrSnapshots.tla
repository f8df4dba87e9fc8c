---------------------------- MODULE NvrSnapshots ----------------------------
(***************************************************************************)
(* The pictures of the cameras: the backfill job of internal/nvrsnapshot   *)
(* walks over the cameras while browsers upload pictures to, and open      *)
(* streams through, internal/nvrmonitor.  Both write the same object of a  *)
(* camera, and the audit of an upload decides whether it stays.  What a    *)
(* single capture does inside is in FrameCapture.                          *)
(***************************************************************************)
EXTENDS Integers, Sequences, SequencesExt, FiniteSetsExt

CONSTANTS
    Cameras,     \* the cameras, in the order of their ids
    Uploadable,  \* those the browsers ask for
    Stored,      \* those an earlier job may have left a picture of
    Requests,    \* requests of browsers, each for one camera and with one picture
    Codes,       \* what a capture may answer instead of a picture
    MaxFailures, \* maxConsecutiveFailures
    MaxRuns,     \* bound on the runs of the job
    None

\* Whose picture it is: a request's, the job's, or one left by an earlier job.
Job == "job"
Earlier == "earlier"
Answers == {"refused", "failed", "audit_failed", "rollback_failed", "saved", "url"}

ASSUME SnapshotsAssumption ==
    /\ Cameras \subseteq Nat /\ IsFiniteSet(Cameras)
    /\ Uploadable \subseteq Cameras /\ Stored \subseteq Cameras
    /\ MaxFailures \in Nat \ {0} /\ MaxRuns \in Nat
    /\ Requests \cap {None, Job, Earlier} = {}
    /\ None \notin Answers /\ None \notin {"done", "failed", "circuit", "killed"}

VARIABLES
    devices,   \* cameras in service
    object,    \* camera -> whose picture is stored, or None
    audit,     \* <<request, action>>: the success events
    \* browsers
    pc, camera, old, answer,
    \* the job
    job,       \* step, force, list, position, captured, consecutive, outcome
    summary,   \* selected, skipped, succeeded, failed
    term,      \* a signal to stop arrived
    runs,
    \* history
    trail,     \* results of the cameras asked in this run
    expected   \* what an upload found of its camera, and nobody else has written since

web == <<pc, camera, old, answer>>
batch == <<job, summary, term, runs, trail>>
vars == <<devices, object, audit, web, batch, expected>>
Unknown == "any"

Pictures == Requests \cup {Job, Earlier}

NoJob == [at |-> "idle", force |-> FALSE, list |-> <<>>, pos |-> 1, captured |-> FALSE,
          consecutive |-> 0, outcome |-> None]
NoSummary == [selected |-> 0, skipped |-> 0, succeeded |-> 0, failed |-> 0]

TypeOK ==
    /\ devices \subseteq Cameras
    /\ object \in [Cameras -> Pictures \cup {None}]
    /\ audit \subseteq Requests \X {"snapshot.refresh.prepare", "snapshot.refresh", "view"}
    /\ pc \in [Requests -> {"new", "open", "put", "final", "rollback", "done"}]
    /\ camera \in [Requests -> Uploadable \cup {None}]
    /\ old \in [Requests -> Pictures \cup {None}]
    /\ expected \in [Requests -> Pictures \cup {None, Unknown}]
    /\ answer \in [Requests -> Answers \cup {None}]
    /\ job.at \in {"idle", "list", "look", "pause", "ask", "capture", "store"}
    /\ job.force \in BOOLEAN /\ job.captured \in BOOLEAN
    /\ job.pos \in 1..(summary.selected + 1) /\ ToSet(job.list) \subseteq Cameras
    /\ job.consecutive \in 0..MaxFailures
    /\ job.outcome \in {None, "done", "failed", "circuit", "killed"}
    /\ \A k \in DOMAIN summary : summary[k] \in 0..Cardinality(Cameras)
    /\ term \in BOOLEAN /\ runs \in 0..MaxRuns
    /\ trail \in Seq(Codes \cup {"succeeded", "oss_upload_failed"})

Init ==
    /\ devices = Cameras
    /\ \E s \in SUBSET Stored : object = [c \in Cameras |-> IF c \in s THEN Earlier ELSE None]
    /\ audit = {}
    /\ pc = [r \in Requests |-> "new"] /\ camera = [r \in Requests |-> None]
    /\ old = [r \in Requests |-> None] /\ answer = [r \in Requests |-> None]
    /\ job = NoJob /\ summary = NoSummary /\ term = FALSE /\ runs = 0
    /\ trail = <<>>
    /\ expected = [r \in Requests |-> Unknown]

\* snapshotObjectKey is the same in both packages: one object for each camera.
Write(writer, c, picture) ==
    /\ object' = [object EXCEPT ![c] = picture]
    /\ expected' = [r \in Requests |-> IF r # writer /\ camera[r] = c THEN Unknown ELSE expected[r]]

-----------------------------------------------------------------------------
(* Browsers: internal/nvrmonitor. *)

\* recordAudit of a success: an error does not say that the event is not in the
\* table.  Events of refusals and failures are written if possible and decide
\* nothing; they are left out.
Recorded(r, action) == audit' = audit \cup {<<r, action>>}
AuditFails(r, action) == UNCHANGED audit \/ Recorded(r, action)

Answer(r, a) ==
    /\ pc' = [pc EXCEPT ![r] = "done"] /\ answer' = [answer EXCEPT ![r] = a]
    /\ old' = [old EXCEPT ![r] = None]

Step(r, to) == pc' = [pc EXCEPT ![r] = to] /\ UNCHANGED <<answer, old>>

\* ensureCanViewStore: somebody without the right is told so.
ensureCanViewStore(r) == Answer(r, "refused") /\ UNCHANGED audit

\* CreateSessionWithAuditTarget: the camera must be in service, and the
\* authorization service must answer with an address.
CreateSession(c) == c \in devices

\* createSession.
View(r, c) ==
    /\ pc[r] = "new"
    /\ camera' = [camera EXCEPT ![r] = c]
    /\ \/ ensureCanViewStore(r)
       \/ Answer(r, "refused") /\ UNCHANGED audit
       \/ Answer(r, "failed") /\ UNCHANGED audit
       \/ CreateSession(c) /\ Answer(r, "url") /\ Recorded(r, "view")
       \/ CreateSession(c) /\ Answer(r, "audit_failed") /\ AuditFails(r, "view")
    /\ UNCHANGED <<devices, object, batch, expected>>

\* ensureCanBackfillSnapshot.
ensureCanBackfillSnapshot(r) == Answer(r, "refused") /\ UNCHANGED audit

\* Mutant: the prepare event is recorded if possible.
Prepare_Ungated(r) ==
    /\ Step(r, "open") /\ AuditFails(r, "snapshot.refresh.prepare")

\* The write gate of saveSnapshot.
Prepare(r) ==
    \/ Step(r, "open") /\ Recorded(r, "snapshot.refresh.prepare")
    \/ Answer(r, "audit_failed") /\ AuditFails(r, "snapshot.refresh.prepare")

\* saveSnapshot up to its write gate: rights, camera id, type and size of the body.
SaveSnapshot(r, c) ==
    /\ pc[r] = "new"
    /\ camera' = [camera EXCEPT ![r] = c]
    /\ expected' = [expected EXCEPT ![r] = object[c]]
    /\ \/ ensureCanBackfillSnapshot(r)
       \/ Answer(r, "refused") /\ UNCHANGED audit
       \/ Prepare(r)
    /\ UNCHANGED <<devices, object, batch>>

\* The error path of saveSnapshot: nothing is rolled back.
SaveFailed(r) == Answer(r, "failed") /\ UNCHANGED audit

\* SaveSnapshotWithRollback reads what it is about to replace; only a picture that
\* is known not to exist counts as missing.
Open(r) ==
    /\ pc[r] = "open"
    /\ \/ /\ camera[r] \in devices
          /\ old' = [old EXCEPT ![r] = object[camera[r]]]
          /\ pc' = [pc EXCEPT ![r] = "put"] /\ UNCHANGED <<answer, audit>>
       \/ SaveFailed(r)
    /\ UNCHANGED <<devices, object, camera, batch, expected>>

\* AssetSnapshotStore.Save: an error does not say that nothing was stored.
Put(r) ==
    /\ pc[r] = "put"
    /\ \/ Step(r, "final") /\ Write(r, camera[r], r) /\ UNCHANGED audit
       \/ SaveFailed(r) /\ (Write(r, camera[r], r) \/ UNCHANGED <<object, expected>>)
    /\ UNCHANGED <<devices, camera, batch>>

\* The final event.
Final(r) ==
    /\ pc[r] = "final"
    /\ \/ Answer(r, "saved") /\ Recorded(r, "snapshot.refresh")
       \/ Step(r, "rollback") /\ AuditFails(r, "snapshot.refresh")
    /\ UNCHANGED <<devices, object, camera, batch, expected>>

\* Mutant: the picture is deleted whether or not there was one.
Restore_Delete(r) == Write(r, camera[r], None)

\* assetSnapshotRollback.Rollback.
Restore(r) == Write(r, camera[r], old[r])

Rollback(r) ==
    /\ pc[r] = "rollback"
    /\ \/ Answer(r, "audit_failed") /\ Restore(r)
       \/ Answer(r, "rollback_failed") /\ (Restore(r) \/ UNCHANGED <<object, expected>>)
    /\ UNCHANGED <<devices, audit, camera, batch>>

\* The server dies under a request; nobody takes it up again.
Lost(r) ==
    /\ pc[r] \in {"open", "put", "final", "rollback"}
    /\ Answer(r, None)
    /\ UNCHANGED <<devices, object, audit, camera, batch, expected>>

\* The CRM takes a camera out of service.
Retire(c) ==
    /\ c \in devices /\ devices' = devices \ {c}
    /\ UNCHANGED <<object, audit, web, batch, expected>>

-----------------------------------------------------------------------------
(* The job: internal/nvrsnapshot and cmd/nvr-snapshot-backfill. *)

aside == <<devices, audit, web>>

\* run: a new job, with or without -force.
Start ==
    /\ job.at = "idle" /\ runs < MaxRuns
    /\ \E force \in BOOLEAN : job' = [NoJob EXCEPT !.at = "list", !.force = force]
    /\ runs' = runs + 1 /\ summary' = NoSummary /\ term' = FALSE /\ trail' = <<>>
    /\ UNCHANGED <<aside, object, expected>>

End(outcome) == job' = [NoJob EXCEPT !.pos = job.pos, !.outcome = outcome]

\* MySQLRepository.ListCandidates.
ListCandidates == SetToSortSeq(devices, <)

List ==
    /\ job.at = "list"
    /\ \/ End("failed") /\ UNCHANGED summary
       \/ /\ ~term
          /\ job' = [job EXCEPT !.at = "look", !.list = ListCandidates]
          /\ summary' = [summary EXCEPT !.selected = Len(ListCandidates)]
    /\ UNCHANGED <<aside, object, expected, term, runs, trail>>

Candidate == job.list[job.pos]
Running(at) == job.at = at /\ job.pos <= Len(job.list)

\* objectExists in the loop of Run.
Look ==
    /\ Running("look")
    /\ \/ /\ job.force \/ object[Candidate] = None
          /\ job' = [job EXCEPT !.at = "pause"]
          /\ UNCHANGED summary
       \/ /\ ~job.force /\ object[Candidate] # None
          /\ job' = [job EXCEPT !.pos = @ + 1]
          /\ summary' = [summary EXCEPT !.skipped = @ + 1]
       \/ ~job.force /\ End("failed") /\ UNCHANGED summary
    /\ UNCHANGED <<aside, object, expected, term, runs, trail>>

\* sleepContext between two captures.
Pause ==
    /\ Running("pause")
    /\ \/ job.captured /\ term /\ End("failed")
       \/ ~(job.captured /\ term) /\ job' = [job EXCEPT !.at = "ask"]
    /\ UNCHANGED <<aside, object, expected, summary, term, runs, trail>>

Ask ==
    /\ Running("ask")
    /\ job' = [job EXCEPT !.at = "capture", !.captured = TRUE]
    /\ UNCHANGED <<aside, object, expected, summary, term, runs, trail>>

isCircuitFailure(code) ==
    code \in {"authorization_failed", "wss_connect_failed", "wss_connect_timeout"}

\* Mutant: a camera that failed otherwise leaves the count alone.
Consecutive_Kept(code) == IF isCircuitFailure(code) THEN job.consecutive + 1 ELSE job.consecutive

Consecutive(code) == IF isCircuitFailure(code) THEN job.consecutive + 1 ELSE 0

\* The rest of the loop of Run.
Finish(code) ==
    /\ trail' = Append(trail, code)
    /\ IF code = "succeeded"
       THEN /\ summary' = [summary EXCEPT !.succeeded = @ + 1]
            /\ job' = [job EXCEPT !.at = "look", !.pos = @ + 1, !.consecutive = 0]
       ELSE LET n == Consecutive(code)
                open == isCircuitFailure(code) /\ n >= MaxFailures
            IN  /\ summary' = [summary EXCEPT !.failed = @ + 1]
                /\ job' = IF open THEN [NoJob EXCEPT !.pos = job.pos + 1, !.outcome = "circuit"]
                          ELSE [job EXCEPT !.at = "look", !.pos = @ + 1, !.consecutive = n]

\* CaptureService.Capture within processCandidate.
Capture ==
    /\ Running("capture")
    /\ \/ job' = [job EXCEPT !.at = "store"] /\ UNCHANGED <<summary, trail>>
       \/ \E code \in Codes : Finish(code)
    /\ UNCHANGED <<aside, object, expected, term, runs>>

\* objects.Save within processCandidate: an error does not say that nothing was stored.
Store ==
    /\ Running("store")
    /\ \/ Finish("succeeded") /\ Write(Job, Candidate, Job)
       \/ /\ Finish("oss_upload_failed")
          /\ Write(Job, Candidate, Job) \/ UNCHANGED <<object, expected>>
    /\ UNCHANGED <<aside, term, runs>>

\* The loop of Run is over.
Done ==
    /\ job.at = "look" /\ job.pos > Len(job.list)
    /\ End("done")
    /\ UNCHANGED <<aside, object, expected, summary, term, runs, trail>>

Signal ==
    /\ job.at # "idle" /\ ~term
    /\ term' = TRUE
    /\ UNCHANGED <<aside, object, expected, job, summary, runs, trail>>

\* The container is killed.
Kill ==
    /\ job.at # "idle"
    /\ job' = [NoJob EXCEPT !.outcome = "killed"]
    /\ summary' = NoSummary /\ term' = FALSE /\ trail' = <<>>
    /\ UNCHANGED <<aside, object, expected, runs>>

Rest ==
    /\ job.at = "idle" /\ runs = MaxRuns /\ \A r \in Requests : pc[r] = "done"
    /\ UNCHANGED vars

Browser(r) ==
    \/ \E c \in Uploadable : View(r, c) \/ SaveSnapshot(r, c)
    \/ Open(r) \/ Put(r) \/ Final(r) \/ Rollback(r) \/ Lost(r)

Batch == List \/ Look \/ Pause \/ Ask \/ Capture \/ Store \/ Done

Next ==
    \/ \E r \in Requests : Browser(r)
    \/ \E c \in Uploadable : Retire(c)
    \/ Start \/ Batch \/ Signal \/ Kill \/ Rest

Spec == Init /\ [][Next]_vars

-----------------------------------------------------------------------------
(* Properties. *)

\* The circuit: after MaxFailures failures in a row of the recorder's side no
\* further camera is asked, and the job gives up for no other reason.  The row is
\* counted over the cameras really asked, skipped ones aside.
CircuitOpensOnTime ==
    LET Row(i) == i + MaxFailures - 1 <= Len(trail)
                  /\ \A k \in i..(i + MaxFailures - 1) : isCircuitFailure(trail[k])
    IN  /\ \A i \in 1..Len(trail) : Row(i) => /\ i + MaxFailures - 1 = Len(trail)
                                              /\ job.outcome = "circuit"
        /\ job.outcome = "circuit" => Row(Len(trail) - MaxFailures + 1)

\* Every picture a browser stored, also one that came back by a rollback, was
\* announced in the audit log before it was written; who was told that it is stored, or
\* was given an address, has a success event.
PicturesAreAudited ==
    /\ \A c \in Cameras : object[c] \in Requests =>
           <<object[c], "snapshot.refresh.prepare">> \in audit
    /\ \A r \in Requests :
           /\ answer[r] = "saved" => <<r, "snapshot.refresh">> \in audit
           /\ answer[r] = "url" => <<r, "view">> \in audit

\* An upload refused because its audit failed has left the camera's picture as it
\* was, unless somebody else wrote it meanwhile.
RefusedLeavesNoTrace ==
    \A r \in Requests :
        answer[r] = "audit_failed" /\ expected[r] # Unknown => object[camera[r]] = expected[r]
=============================================================================
