--------------------------- MODULE ChannelMapping ---------------------------
(***************************************************************************)
(* The channels of one video recorder and the areas of its store, as       *)
(* internal/storespace keeps them in MySQL.  Operators scan the recorder,  *)
(* have a picture recognised by the AI service, confirm what a channel     *)
(* shows, unlock it, delete it, or save a design plan that names areas.    *)
(* Scans, captures and recognitions call slow services between the read    *)
(* that starts them and the write that ends them; confirmations, unlocks   *)
(* and design plans read a snapshot in their transaction and write later.  *)
(* Names, pictures, notes, bed labels, scene types, attempt counts and     *)
(* the operation log are left out: no step reads them back.                *)
(***************************************************************************)
EXTENDS Integers, FiniteSets

CONSTANTS
    Nos,           \* channel numbers of the recorder
    Labels,        \* what an area is called: [type, num]
    Results,       \* what the AI service may answer: [type, num], either may be None
    Procs,         \* HTTP requests that run at the same time
    Kinds,         \* the routes that are used
    None, Missing,
    MaxRequests,   \* bound on the requests of a behaviour
    MaxAreas       \* bound on the area rows ever inserted

VARIABLES
    recorder,  \* tb_video_recorders: Missing, or status and effective_channel_count
    channels,  \* tb_video_channels by channel_no; gen stands for the row's id
    gen,       \* how many rows a channel number has had
    areas,     \* tb_store_areas by id
    noted,     \* areas with a row in tb_design_plan_annotations
    reqs,      \* the request every process serves
    started, lastArea,
    decision,  \* history: the operator's confirmation that holds for a channel
    late       \* history: recognitions overtaken by a confirmation

vars == <<recorder, channels, gen, areas, noted, reqs, started, lastArea,
          decision, late>>
rows == <<recorder, channels, gen, areas, noted, lastArea>>
history == <<decision, late>>

Statuses == {"pending_recognition", "pending_confirmation",
             "recognition_failed", "confirmed_business",
             "confirmed_non_business", "inactive"}
Sources == {"design_plan", "video_channel", "multiple"}
Ops == {"idle", "scan", "probe", "recognize", "capture", "confirm", "unlock",
        "design"}

Row(g, a, s, t, n, r, c) ==
    [gen |-> g, active |-> a, status |-> s, type |-> t, num |-> n,
     area |-> r, confirmed |-> c]
Area(t, n, s) == [type |-> t, num |-> n, source |-> s]
Request(op, no, g, t, n, a, s) ==
    [op |-> op, no |-> no, gen |-> g, type |-> t, num |-> n, area |-> a,
     source |-> s]
Idle == Request("idle", None, None, None, None, None, None)

Types == {l.type : l \in Labels} \cup {r.type : r \in Results} \cup {None}
Nums == {l.num : l \in Labels} \cup {r.num : r \in Results} \cup {None}
AreaIds == 1..MaxAreas

ChannelRows == [gen : Nat, active : BOOLEAN, status : Statuses, type : Types,
                num : Nums, area : AreaIds \cup {None}, confirmed : BOOLEAN]
AreaRows == [type : Types, num : Nums, source : Sources]
RecorderRows == [online : BOOLEAN, count : Nat]
Requests == [op : Ops, no : Nos \cup {None}, gen : Nat \cup {None}, type : Types,
             num : Nums, area : AreaIds \cup {None}, source : Sources \cup {None}]

ASSUME ChannelAssumption ==
    /\ Nos \subseteq Nat /\ IsFiniteSet(Nos) /\ None \notin Nos
    /\ \A l \in Labels : l.type # None /\ l.num # None
    /\ MaxRequests \in Nat
    /\ MaxAreas \in Nat /\ None \notin AreaIds
    /\ None \notin ChannelRows
    /\ Missing \notin ChannelRows /\ Missing \notin AreaRows
    /\ Missing \notin RecorderRows

Present == {n \in Nos : channels[n] # Missing}

TypeOK ==
    /\ recorder = Missing \/ recorder \in RecorderRows
    /\ channels \in [Nos -> ChannelRows \cup {Missing}]
    /\ gen \in [Nos -> Nat]
    /\ areas \in [AreaIds -> AreaRows \cup {Missing}]
    /\ noted \subseteq AreaIds
    /\ reqs \in [Procs -> Requests]
    /\ started \in 0..MaxRequests
    /\ lastArea \in 0..MaxAreas
    /\ decision \in [Nos -> ChannelRows \cup {None}]
    /\ late \subseteq Procs

Init ==
    /\ recorder = [online |-> FALSE, count |-> 0]
    /\ channels = [n \in Nos |-> Missing]
    /\ gen = [n \in Nos |-> 0]
    /\ areas = [a \in AreaIds |-> Missing]
    /\ noted = {}
    /\ reqs = [p \in Procs |-> Idle]
    /\ started = 0
    /\ lastArea = 0
    /\ decision = [n \in Nos |-> None]
    /\ late = {}

---------------------------------------------------------------------------
(* Requests. *)

Accept(kind) == kind \in Kinds /\ started < MaxRequests /\ started' = started + 1
Begin(p, kind, req) ==
    /\ Accept(kind)
    /\ reqs[p] = Idle
    /\ reqs' = [reqs EXCEPT ![p] = req]
Finish(p) == reqs' = [reqs EXCEPT ![p] = Idle] /\ UNCHANGED started

Addressed_ByNumber(p) == channels[reqs[p].no] # Missing
\* The row that request p was begun on is still there: "where id = ?".
Addressed(p) ==
    /\ channels[reqs[p].no] # Missing
    /\ channels[reqs[p].no].gen = reqs[p].gen

Confirmed(s) == s \in {"confirmed_business", "confirmed_non_business"}
Usable(r) == r # Missing /\ r.active /\ r.status # "inactive"

ActiveNos(chs) ==
    {n \in Nos : chs[n] # Missing /\ chs[n].active /\ chs[n].status # "inactive"}
ActiveCount(chs) == Cardinality(ActiveNos(chs))
Counted(chs) == [online |-> ActiveCount(chs) > 0, count |-> ActiveCount(chs)]

\* mysqlQueryArea: the area with this type and number.
Find(label) ==
    {a \in AreaIds : /\ areas[a] # Missing
                     /\ areas[a].type = label.type /\ areas[a].num = label.num}

---------------------------------------------------------------------------
(* Scanning. *)

Recovered_ByArea(r) ==
    IF r.status # "inactive" THEN r.status
    ELSE IF r.type # None THEN "confirmed_business"
    ELSE IF r.area # None \/ r.num # None THEN "confirmed_non_business"
    ELSE "pending_recognition"

\* The status of a row that was inactive and is found again.
Recovered(r) ==
    IF r.status # "inactive" THEN r.status
    ELSE IF r.type # None THEN "confirmed_business"
    ELSE IF r.area # None \/ r.num # None \/ r.confirmed
         THEN "confirmed_non_business"
    ELSE "pending_recognition"

Found(n) ==
    IF channels[n] = Missing
    THEN Row(gen[n] + 1, TRUE, "pending_recognition", None, None, None, FALSE)
    ELSE LET r == channels[n] IN
         Row(r.gen, TRUE, Recovered(r), r.type, r.num, r.area, r.confirmed)

Lost(n) ==
    IF channels[n] = Missing THEN Missing
    ELSE LET r == channels[n] IN
         Row(r.gen, FALSE, "inactive", r.type, r.num, r.area, r.confirmed)

ScanRecorderChannels(p) ==
    /\ recorder # Missing
    /\ Begin(p, "scan", Request("scan", None, None, None, None, None, None))
    /\ UNCHANGED <<rows, history>>

\* The camera list has answered with the active numbers S.  The update of the
\* numbers that are not in S locks the recorder's whole key range, so the
\* count that follows is exact.
ReplaceRecorderChannels(p, S) ==
    /\ reqs[p].op = "scan"
    /\ recorder # Missing
    /\ channels' = [n \in Nos |-> IF n \in S THEN Found(n) ELSE Lost(n)]
    /\ gen' = [n \in Nos |-> IF n \in S /\ channels[n] = Missing
                             THEN gen[n] + 1 ELSE gen[n]]
    /\ recorder' = Counted(channels')
    /\ Finish(p)
    /\ UNCHANGED <<areas, noted, lastArea, history>>

ProbeRecognizeChannel(p, n) ==
    /\ recorder # Missing
    /\ Begin(p, "probe", Request("probe", n, None, None, None, None, None))
    /\ UNCHANGED <<rows, history>>

UpsertRecorderChannel_NotCounted(p) ==
    LET n == reqs[p].no
        r == Found(n) IN
    /\ reqs[p].op = "probe"
    /\ recorder # Missing
    /\ channels' = [channels EXCEPT ![n] = r]
    /\ gen' = [gen EXCEPT ![n] = r.gen]
    /\ reqs' = [reqs EXCEPT ![p] =
                  Request(IF Confirmed(r.status) THEN "capture" ELSE "recognize",
                          n, r.gen, None, None, None, None)]
    /\ UNCHANGED <<recorder, areas, noted, lastArea, started, history>>

\* The probe's capture succeeded.  The row it reads back decides whether the
\* AI service is asked.  Two inserts share the foreign-key lock of the
\* recorder row, which both then want to update: one of them is rolled back.
UpsertRecorderChannel(p) ==
    LET n == reqs[p].no
        r == Found(n) IN
    /\ reqs[p].op = "probe"
    /\ recorder # Missing
    /\ channels' = [channels EXCEPT ![n] = r]
    /\ gen' = [gen EXCEPT ![n] = r.gen]
    /\ recorder' = Counted(channels')
    /\ reqs' = [reqs EXCEPT ![p] =
                  Request(IF Confirmed(r.status) THEN "capture" ELSE "recognize",
                          n, r.gen, None, None, None, None)]
    /\ UNCHANGED <<areas, noted, lastArea, started, history>>

---------------------------------------------------------------------------
(* Recognition and snapshots. *)

Recognizable(n) == Usable(channels[n]) /\ ~Confirmed(channels[n].status)

RecognizeChannel(p, n) ==
    /\ Recognizable(n)
    /\ Begin(p, "recognize",
             Request("recognize", n, channels[n].gen, None, None, None, None))
    /\ UNCHANGED <<rows, history>>

\* The batch route takes the lowest number only
\* (maxRecorderRecognitionChannelsPerRequest = 1).
RecognizeRecorderChannels(p) ==
    /\ recorder # Missing
    /\ \E n \in {m \in Nos : Recognizable(m)} :
        /\ \A m \in Nos : Recognizable(m) => n <= m
        /\ Begin(p, "batch",
                 Request("recognize", n, channels[n].gen, None, None, None, None))
    /\ UNCHANGED <<rows, history>>

RefreshChannelSnapshot(p, n) ==
    /\ Usable(channels[n])
    /\ Begin(p, "refresh",
             Request("capture", n, channels[n].gen, None, None, None, None))
    /\ UNCHANGED <<rows, history>>

\* SaveChannelSnapshot with a status: status, area_type and area_number are
\* overwritten whatever the row holds by now; area_id and confirmed_at stay.
SaveChannelSnapshot(p, status, t, k) ==
    LET n == reqs[p].no
        r == channels[n] IN
    /\ reqs[p].op = "recognize"
    /\ Addressed(p)
    /\ channels' = [channels EXCEPT ![n] =
                      Row(r.gen, r.active, status, t, k, r.area, r.confirmed)]
    /\ decision' = [decision EXCEPT ![n] = IF p \in late THEN None ELSE @]
    /\ late' = late \ {p}
    /\ Finish(p)
    /\ UNCHANGED <<recorder, gen, areas, noted, lastArea>>

ApplyRecognition(p, result) ==
    SaveChannelSnapshot(p, "pending_confirmation", result.type, result.num)
RecognitionFails(p) ==
    SaveChannelSnapshot(p, "recognition_failed", None, None)

\* SaveChannelSnapshot without a status: a refresh, a probe of a confirmed
\* channel, a failed capture.  Only pictures and attempts change.
SaveSnapshotOnly(p) ==
    /\ reqs[p].op \in {"recognize", "capture"}
    /\ Addressed(p)
    /\ late' = late \ {p}
    /\ Finish(p)
    /\ UNCHANGED <<rows, decision>>

---------------------------------------------------------------------------
(* Operators' decisions. *)

\* The requests whose recognition a decision on row n overtakes.
Overtaken(n) == {p \in Procs : /\ reqs[p].op = "recognize" /\ reqs[p].no = n
                               /\ reqs[p].gen = channels[n].gen}

\* The area of a confirmation, None if it has to be inserted.
VideoArea(label) == IF Find(label) = {} THEN {None} ELSE Find(label)

ConfirmChannel(p, n, label) ==
    /\ channels[n] # Missing
    /\ \E a \in VideoArea(label) :
        Begin(p, "confirm",
              Request("confirm", n, channels[n].gen, label.type, label.num, a,
                      IF a = None THEN None ELSE areas[a].source))
    /\ UNCHANGED <<rows, history>>

\* The writes of ConfirmChannel.  An insert meets the unique key, the new
\* area_id its foreign key; a channel deleted meanwhile matches no row.
ConfirmCommit(p) ==
    LET q == reqs[p]
        a == IF q.area = None THEN lastArea + 1 ELSE q.area IN
    /\ q.op = "confirm"
    /\ IF q.area = None
       THEN /\ Find(q) = {} /\ a \in AreaIds
            /\ areas' = [areas EXCEPT ![a] = Area(q.type, q.num, "video_channel")]
            /\ lastArea' = a
       ELSE /\ areas[a] # Missing
            /\ areas' = [areas EXCEPT ![a] =
                           IF q.source \in {"video_channel", "multiple"} THEN @
                           ELSE Area(@.type, @.num, "multiple")]
            /\ UNCHANGED lastArea
    /\ IF Addressed(p)
       THEN /\ channels' = [channels EXCEPT ![q.no] =
                 Row(q.gen, @.active, "confirmed_business", q.type, q.num, a, TRUE)]
            /\ decision' = [decision EXCEPT ![q.no] =
                 Row(q.gen, TRUE, "confirmed_business", q.type, q.num, a, TRUE)]
            /\ late' = late \cup Overtaken(q.no)
       ELSE UNCHANGED <<channels, decision, late>>
    /\ Finish(p)
    /\ UNCHANGED <<recorder, gen, noted>>

ConfirmNonBusinessChannel(n) ==
    /\ channels[n] # Missing
    /\ Accept("nonbusiness")
    /\ channels' = [channels EXCEPT ![n] =
         Row(@.gen, @.active, "confirmed_non_business", None, None, None, TRUE)]
    /\ decision' = [decision EXCEPT ![n] =
         Row(channels[n].gen, TRUE, "confirmed_non_business", None, None, None, TRUE)]
    /\ late' = late \cup Overtaken(n)
    /\ UNCHANGED <<recorder, gen, areas, noted, lastArea, reqs>>

UnlockChannelForEdit(p, n) ==
    /\ Usable(channels[n])
    /\ Begin(p, "unlock",
             Request("unlock", n, channels[n].gen, None, None, None, None))
    /\ UNCHANGED <<rows, history>>

UnlockCommit(p) ==
    LET n == reqs[p].no
        r == channels[n] IN
    /\ reqs[p].op = "unlock"
    /\ Addressed(p)
    /\ channels' = [channels EXCEPT ![n] =
         Row(r.gen, r.active, "pending_confirmation", r.type, r.num, r.area, FALSE)]
    /\ decision' = [decision EXCEPT ![n] = None]
    /\ Finish(p)
    /\ UNCHANGED <<recorder, gen, areas, noted, lastArea, late>>

Used(chs) == {chs[n].area : n \in {m \in Nos : chs[m] # Missing}}

DeleteUnusedVideoAreas_NotInPlan(chs) ==
    areas' = [a \in AreaIds |->
        IF areas[a] # Missing /\ areas[a].source = "video_channel" /\ a \notin noted
        THEN Missing ELSE areas[a]]

\* Areas that only channels made and that neither a channel nor a plan uses.
DeleteUnusedVideoAreas(chs) ==
    areas' = [a \in AreaIds |->
        IF /\ areas[a] # Missing
           /\ areas[a].source = "video_channel"
           /\ a \notin noted
           /\ a \notin Used(chs)
        THEN Missing ELSE areas[a]]

DeleteChannel(n) ==
    /\ channels[n] # Missing
    /\ Accept("delete")
    /\ channels' = [channels EXCEPT ![n] = Missing]
    /\ DeleteUnusedVideoAreas(channels')
    /\ recorder' = Counted(channels')
    /\ decision' = [decision EXCEPT ![n] = None]
    /\ UNCHANGED <<gen, noted, lastArea, reqs, late>>

\* The channels go with the recorder (on delete cascade); no area does.
DeleteRecorder ==
    /\ recorder # Missing
    /\ Accept("remove")
    /\ recorder' = Missing
    /\ channels' = [n \in Nos |-> Missing]
    /\ decision' = [n \in Nos |-> None]
    /\ UNCHANGED <<gen, areas, noted, lastArea, reqs, late>>

---------------------------------------------------------------------------
(* Design plans, one area of a plan at a time. *)

MergeSource(s) == IF s = "design_plan" THEN s ELSE "multiple"

QueryAreaByID(i) == i # None /\ areas[i] # Missing

\* The area the transaction's snapshot gives: the one with the id the plan
\* names, or else the one with the label, or none.  An area that channels use
\* keeps its own label when it is named by id.
SaveDesignPlan(p, i, label) ==
    LET byId == QueryAreaByID(i)
        a == IF byId THEN i
             ELSE IF Find(label) = {} THEN None
             ELSE CHOOSE x \in Find(label) : TRUE IN
    /\ IF byId /\ areas[i].source \in {"video_channel", "multiple"}
       THEN Begin(p, "design", Request("design", None, None, None, None, a,
                    IF areas[i].source = "multiple" THEN None ELSE "multiple"))
       ELSE Begin(p, "design", Request("design", None, None, label.type, label.num, a,
                    IF a = None THEN "design_plan" ELSE MergeSource(areas[a].source)))
    /\ UNCHANGED <<rows, history>>

\* A row that no channel uses takes the plan's label; one that channels use keeps
\* its own and notes at most that a plan has it, too.
UpdateDesignAreaSource(q, old) ==
    IF q.type # None THEN Area(q.type, q.num, q.source)
    ELSE IF q.source = None THEN old
    ELSE Area(old.type, old.num, q.source)

\* An area without a box on the plan gets no annotation.
UpsertDesignAnnotation(a) == noted' \in {noted, noted \cup {a}}

\* The writes of SaveDesignPlan; the annotation's foreign key needs the area.
SaveDesignCommit(p) ==
    LET q == reqs[p]
        a == IF q.area = None THEN lastArea + 1 ELSE q.area IN
    /\ q.op = "design"
    /\ a \in AreaIds
    /\ q.area # None => areas[a] # Missing
    /\ q.type # None => Find(q) \subseteq {a}
    /\ areas' = [areas EXCEPT ![a] = UpdateDesignAreaSource(q, @)]
    /\ lastArea' = IF q.area = None THEN a ELSE lastArea
    /\ UpsertDesignAnnotation(a)
    /\ Finish(p)
    /\ UNCHANGED <<recorder, channels, gen, history>>

---------------------------------------------------------------------------
\* A service, the database or the client's connection fails, or the row is
\* gone: the request ends and its transaction is rolled back.
Fail(p) ==
    /\ reqs[p] # Idle
    /\ late' = late \ {p}
    /\ Finish(p)
    /\ UNCHANGED <<rows, decision>>

\* Nobody sends a request.
Rest ==
    /\ \A p \in Procs : reqs[p] = Idle
    /\ UNCHANGED vars

Step(p) ==
    \/ ScanRecorderChannels(p)
    \/ \E S \in SUBSET Nos : ReplaceRecorderChannels(p, S)
    \/ UpsertRecorderChannel(p)
    \/ RecognizeRecorderChannels(p)
    \/ \E result \in Results : ApplyRecognition(p, result)
    \/ RecognitionFails(p)
    \/ SaveSnapshotOnly(p)
    \/ ConfirmCommit(p)
    \/ UnlockCommit(p)
    \/ \E i \in (1..lastArea) \cup {None}, l \in Labels : SaveDesignPlan(p, i, l)
    \/ SaveDesignCommit(p)
    \/ Fail(p)
    \/ \E n \in Nos : \/ ProbeRecognizeChannel(p, n)
                      \/ RecognizeChannel(p, n)
                      \/ RefreshChannelSnapshot(p, n)
                      \/ UnlockChannelForEdit(p, n)
                      \/ \E l \in Labels : ConfirmChannel(p, n, l)

Next ==
    \/ \E p \in Procs : Step(p)
    \/ \E n \in Nos : ConfirmNonBusinessChannel(n) \/ DeleteChannel(n)
    \/ DeleteRecorder
    \/ Rest

Spec == Init /\ [][Next]_vars

---------------------------------------------------------------------------
(* Properties. *)

\* effective_channel_count and the recorder's status always agree with the
\* channel rows, through scans, probes, deletions and everything that changes
\* the status of a channel without counting.
CountExact == recorder # Missing => recorder = Counted(channels)

\* An operator's confirmation holds until somebody unlocks or deletes the
\* channel, confirms it again, or a recognition that was already running
\* overtakes it: the row keeps the label and the area that were confirmed,
\* and whenever the channel is active, after however many scans that lost it
\* and found it again, it is in the status that was confirmed.
DecisionHonoured ==
    \A n \in Nos : decision[n] # None =>
        LET r == channels[n]
            d == decision[n] IN
        /\ r # Missing /\ r.gen = d.gen
        /\ r.type = d.type /\ r.num = d.num /\ r.area = d.area
        /\ r.active => r.status = d.status

\* A row's area type, number, area and confirmation time change only by a
\* request that was begun on this very row, never by a scan or a probe and
\* never by a request for a deleted row whose number was scanned again.
MappingChangesOnPurpose ==
    [][\A n \in Nos :
        LET r == channels[n]
            s == channels'[n] IN
        /\ r # Missing /\ s # Missing
        /\ <<r.type, r.num, r.area, r.confirmed>> #
           <<s.type, s.num, s.area, s.confirmed>>
        => \/ s.status = "confirmed_non_business" /\ s.confirmed
           \/ \E p \in Procs : /\ reqs[p].no = n /\ reqs[p].gen = r.gen
                               /\ reqs[p].op \in {"recognize", "confirm", "unlock"}
                               /\ reqs'[p] = Idle]_vars

\* No channel and no plan annotation refers to an area that is gone, whichever
\* of a confirmation and a deletion that drops unused areas comes first, and
\* no channel survives its recorder.
ReferencesLive ==
    /\ \A n \in Present : /\ recorder # Missing
                          /\ channels[n].area # None => areas[channels[n].area] # Missing
    /\ \A a \in noted : areas[a] # Missing
=============================================================================
