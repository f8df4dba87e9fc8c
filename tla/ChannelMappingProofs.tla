------------------------ MODULE ChannelMappingProofs ------------------------
(***************************************************************************)
(* The recorder's count is exact and an operator's decision holds, for any *)
(* channel numbers, labels, AI answers and number of requests at a time.   *)
(* The strengthening says what a running request may rely on: its channel  *)
(* number, the label of a confirmation, and that a recognition running on  *)
(* a decided row is known to be late.                                      *)
(***************************************************************************)
EXTENDS ChannelViews, AlgorithmProofs

\* What a request carries from the step that began it.
RequestOK(p) ==
    /\ reqs[p].op \in {"probe", "recognize", "capture", "confirm", "unlock"}
       => reqs[p].no \in Nos
    /\ reqs[p].op = "confirm" => reqs[p].type # None
    /\ reqs[p].op = "design" => IF reqs[p].type # None THEN reqs[p].source \in Sources
                                                       ELSE reqs[p].area # None

\* An active row never has the status of a lost one.
ActiveOK(n) ==
    channels[n] # Missing /\ channels[n].active => channels[n].status # "inactive"

\* What a row keeps, lost or active, of the decision made on it.
DecisionOK(n) ==
    LET r == channels[n]
        d == decision[n] IN
    d # None =>
      /\ r # Missing /\ r.gen = d.gen /\ r.confirmed = TRUE
      /\ r.type = d.type /\ r.num = d.num /\ r.area = d.area
      /\ d.status = IF d.type # None THEN "confirmed_business"
                                     ELSE "confirmed_non_business"
      /\ r.status = d.status \/ (r.status = "inactive" /\ r.active = FALSE)

\* A recognition that still runs on a decided row was overtaken.
LateOK(p, n) ==
    /\ reqs[p].op = "recognize" /\ reqs[p].no = n
    /\ decision[n] # None /\ reqs[p].gen = channels[n].gen
    => p \in late

IInv ==
    /\ TypeOK
    /\ CountExact
    /\ \A p \in Procs : RequestOK(p)
    /\ \A n \in Nos : ActiveOK(n) /\ DecisionOK(n)
    /\ \A p \in Procs, n \in Nos : LateOK(p, n)

---------------------------------------------------------------------------
(* The operators the actions are built from. *)

\* A recorder row holds what Counted computes.
LEMMA CountedType == ASSUME NEW chs PROVE Counted(chs) \in RecorderRows
<1>1. IsFiniteSet(ActiveNos(chs))
  BY ChannelAssumption, FS_Subset DEF ActiveNos
<1>2. Cardinality(ActiveNos(chs)) \in Nat
  BY <1>1, FS_CardinalityType
<1> QED BY <1>2 DEF Counted, ActiveCount, RecorderRows

\* Counted depends on nothing but the active numbers.
LEMMA CountedSame ==
    ASSUME NEW c, NEW d, ActiveNos(c) = ActiveNos(d)
    PROVE  Counted(c) = Counted(d)
BY DEF Counted, ActiveCount

\* A found channel is an active row, and keeps what an existing row held.
LEMMA FoundRow ==
    ASSUME TypeOK, NEW n \in Nos
    PROVE  /\ Found(n) \in ChannelRows
           /\ Found(n).active = TRUE /\ Found(n).status # "inactive"
           /\ channels[n] # Missing =>
                /\ Found(n).gen = channels[n].gen
                /\ Found(n).type = channels[n].type
                /\ Found(n).num = channels[n].num
                /\ Found(n).area = channels[n].area
                /\ Found(n).confirmed = channels[n].confirmed
                /\ Found(n).status = Recovered(channels[n])
<1>1. CASE channels[n] = Missing
  BY <1>1 DEF Found, Row, ChannelRows, TypeOK, Statuses, Types, Nums
<1>2. CASE channels[n] # Missing
  <2>1. channels[n] \in ChannelRows
    BY <1>2 DEF TypeOK
  <2>2. Recovered(channels[n]) \in Statuses /\ Recovered(channels[n]) # "inactive"
    BY <2>1 DEF Recovered, ChannelRows, Statuses
  <2> QED BY <1>2, <2>1, <2>2 DEF Found, Row, ChannelRows
<1> QED BY <1>1, <1>2

\* A lost channel is an inactive row that keeps the rest.
LEMMA LostRow ==
    ASSUME TypeOK, NEW n \in Nos
    PROVE  /\ channels[n] = Missing => Lost(n) = Missing
           /\ channels[n] # Missing =>
                /\ Lost(n) \in ChannelRows
                /\ Lost(n).active = FALSE /\ Lost(n).status = "inactive"
                /\ Lost(n).gen = channels[n].gen
                /\ Lost(n).type = channels[n].type
                /\ Lost(n).num = channels[n].num
                /\ Lost(n).area = channels[n].area
                /\ Lost(n).confirmed = channels[n].confirmed
BY DEF Lost, Row, ChannelRows, TypeOK, Statuses

\* The initial states satisfy the invariant.
LEMMA InitInv == Init => IInv
<1> SUFFICES ASSUME Init PROVE IInv
  OBVIOUS
<1>1. TypeOK
  BY ChannelAssumption DEF Init, TypeOK, RecorderRows, Requests, Idle, Request,
     Ops, Types, Nums
<1>2. CountExact
  <2>1. ActiveNos(channels) = {}
    BY DEF Init, ActiveNos
  <2>2. Cardinality({}) = 0
    BY FS_EmptySet
  <2>3. ActiveCount(channels) = 0 /\ (ActiveCount(channels) > 0) = FALSE
    BY <2>1, <2>2 DEF ActiveCount
  <2> QED BY <2>3 DEF Init, CountExact, Counted
<1>3. \A p \in Procs : RequestOK(p)
  BY DEF Init, RequestOK, Idle, Request
<1>4. \A n \in Nos : ActiveOK(n) /\ DecisionOK(n)
  BY DEF Init, ActiveOK, DecisionOK
<1>5. \A p \in Procs, n \in Nos : LateOK(p, n)
  BY DEF Init, LateOK, Idle, Request
<1> QED BY <1>1, <1>2, <1>3, <1>4, <1>5 DEF IInv

---------------------------------------------------------------------------
(* Types. *)

\* The record of a process without a request is well typed.
LEMMA IdleType == Idle \in Requests
BY DEF Idle, Request, Requests, Ops, Types, Nums

\* A request is begun with a well-typed record or ended with the idle one.
LEMMA BeginType ==
    ASSUME TypeOK, NEW p \in Procs, NEW kind, NEW req \in Requests, Begin(p, kind, req)
    PROVE  reqs' \in [Procs -> Requests] /\ started' \in 0..MaxRequests
BY ChannelAssumption DEF Begin, Accept, TypeOK

\* Ending a request keeps the types of the requests and of their number.
LEMMA FinishType ==
    ASSUME TypeOK, NEW p \in Procs, Finish(p)
    PROVE  reqs' \in [Procs -> Requests] /\ started' \in 0..MaxRequests
BY IdleType DEF Finish, TypeOK

\* Every way to begin a request leaves the tables alone.
LEMMA BeginStepType ==
    ASSUME TypeOK, NEW p \in Procs, NEW kind, NEW req \in Requests,
           Begin(p, kind, req), UNCHANGED <<rows, history>>
    PROVE  TypeOK'
BY BeginType DEF TypeOK, rows, history

\* The requests of the routes that begin on a channel or on the recorder.
LEMMA RequestTypes ==
    ASSUME TypeOK, NEW n \in Nos
    PROVE  /\ \A op \in Ops : Request(op, None, None, None, None, None, None) \in Requests
           /\ \A op \in Ops : Request(op, n, None, None, None, None, None) \in Requests
           /\ \A op \in Ops, g \in Nat : Request(op, n, g, None, None, None, None) \in Requests
BY DEF Request, Requests, Types, Nums

\* A row that is present has a row number.
LEMMA PresentGen ==
    ASSUME TypeOK, NEW n \in Nos, channels[n] # Missing
    PROVE  channels[n] \in ChannelRows /\ channels[n].gen \in Nat
BY DEF TypeOK, ChannelRows

\* Every route begins with a well-typed request.
LEMMA BeginActionsType ==
    ASSUME TypeOK, NEW p \in Procs,
           \/ ScanRecorderChannels(p)
           \/ RecognizeRecorderChannels(p)
           \/ \E i \in (1..lastArea) \cup {None}, l \in Labels : SaveDesignPlan(p, i, l)
           \/ \E n \in Nos : \/ ProbeRecognizeChannel(p, n)
                             \/ RecognizeChannel(p, n)
                             \/ RefreshChannelSnapshot(p, n)
                             \/ UnlockChannelForEdit(p, n)
                             \/ \E l \in Labels : ConfirmChannel(p, n, l)
    PROVE  TypeOK'
<1> USE DEF Ops
<1>1. CASE ScanRecorderChannels(p)
  <2>1. Request("scan", None, None, None, None, None, None) \in Requests
    BY DEF Request, Requests, Types, Nums
  <2> QED BY <1>1, <2>1, BeginStepType DEF ScanRecorderChannels
<1>2. CASE RecognizeRecorderChannels(p)
  <2>1. PICK n \in Nos : Recognizable(n)
           /\ Begin(p, "batch", Request("recognize", n, channels[n].gen, None, None, None, None))
    BY <1>2 DEF RecognizeRecorderChannels
  <2>2. channels[n].gen \in Nat
    BY <2>1, PresentGen DEF Recognizable, Usable
  <2>3. Request("recognize", n, channels[n].gen, None, None, None, None) \in Requests
    BY <2>2, RequestTypes
  <2> QED BY <1>2, <2>1, <2>3, BeginStepType DEF RecognizeRecorderChannels
<1>3. ASSUME NEW i \in (1..lastArea) \cup {None}, NEW l \in Labels, SaveDesignPlan(p, i, l)
      PROVE  TypeOK'
  <2> DEFINE byId == i # None /\ areas[i] # Missing
             a == IF byId THEN i
                  ELSE IF Find(l) = {} THEN None ELSE CHOOSE x \in Find(l) : TRUE
             r1 == Request("design", None, None, None, None, a,
                     IF areas[i].source = "multiple" THEN None ELSE "multiple")
             r2 == Request("design", None, None, l.type, l.num, a,
                     IF a = None THEN "design_plan" ELSE MergeSource(areas[a].source))
  <2>1. a \in AreaIds \cup {None}
    <3>1. i \in AreaIds \cup {None}
      BY ChannelAssumption DEF TypeOK, AreaIds
    <3>2. Find(l) # {} => (CHOOSE x \in Find(l) : TRUE) \in AreaIds
      BY DEF Find
    <3> QED BY <3>1, <3>2
  <2>2. a # None => areas[a] # Missing
    <3>1. Find(l) # {} => (CHOOSE x \in Find(l) : TRUE) \in Find(l)
      OBVIOUS
    <3> QED BY <3>1 DEF Find
  <2>3. l.type \in Types /\ l.num \in Nums
    BY DEF Types, Nums
  <2>4. r1 \in Requests
    <3> HIDE DEF a
    <3> QED BY <2>1 DEF Request, Requests, Types, Nums, Sources
  <2>5. r2 \in Requests
    <3>1. (IF a = None THEN "design_plan" ELSE MergeSource(areas[a].source))
            \in Sources \cup {None}
      BY DEF MergeSource, Sources
    <3> HIDE DEF a
    <3> QED BY <2>1, <2>3, <3>1 DEF Request, Requests
  <2>6. Begin(p, "design", r1) \/ Begin(p, "design", r2)
    BY <1>3 DEF SaveDesignPlan, QueryAreaByID
  <2>7. UNCHANGED <<rows, history>>
    BY <1>3 DEF SaveDesignPlan, QueryAreaByID
  <2> HIDE DEF r1, r2
  <2> QED BY <2>4, <2>5, <2>6, <2>7, BeginStepType
<1>4. ASSUME NEW n \in Nos, ProbeRecognizeChannel(p, n) PROVE TypeOK'
  <2>1. Request("probe", n, None, None, None, None, None) \in Requests
    BY RequestTypes
  <2> QED BY <1>4, <2>1, BeginStepType DEF ProbeRecognizeChannel
<1>5. ASSUME NEW n \in Nos, RecognizeChannel(p, n) PROVE TypeOK'
  <2>1. channels[n].gen \in Nat
    BY <1>5, PresentGen DEF RecognizeChannel, Recognizable, Usable
  <2>2. Request("recognize", n, channels[n].gen, None, None, None, None) \in Requests
    BY <2>1, RequestTypes
  <2> QED BY <1>5, <2>2, BeginStepType DEF RecognizeChannel
<1>6. ASSUME NEW n \in Nos, RefreshChannelSnapshot(p, n) PROVE TypeOK'
  <2>1. channels[n].gen \in Nat
    BY <1>6, PresentGen DEF RefreshChannelSnapshot, Usable
  <2>2. Request("capture", n, channels[n].gen, None, None, None, None) \in Requests
    BY <2>1, RequestTypes
  <2> QED BY <1>6, <2>2, BeginStepType DEF RefreshChannelSnapshot
<1>7. ASSUME NEW n \in Nos, UnlockChannelForEdit(p, n) PROVE TypeOK'
  <2>1. channels[n].gen \in Nat
    BY <1>7, PresentGen DEF UnlockChannelForEdit, Usable
  <2>2. Request("unlock", n, channels[n].gen, None, None, None, None) \in Requests
    BY <2>1, RequestTypes
  <2> QED BY <1>7, <2>2, BeginStepType DEF UnlockChannelForEdit
<1>8. ASSUME NEW n \in Nos, NEW l \in Labels, ConfirmChannel(p, n, l) PROVE TypeOK'
  <2>1. PICK a \in IF Find(l) = {} THEN {None} ELSE Find(l) :
          Begin(p, "confirm", Request("confirm", n, channels[n].gen, l.type, l.num, a,
                                      IF a = None THEN None ELSE areas[a].source))
    BY <1>8 DEF ConfirmChannel, VideoArea
  <2>2. channels[n].gen \in Nat
    BY <1>8, PresentGen DEF ConfirmChannel
  <2>3. a \in AreaIds \cup {None} /\ (a # None => areas[a] \in AreaRows)
    BY <2>1 DEF Find, TypeOK
  <2>4. (IF a = None THEN None ELSE areas[a].source) \in Sources \cup {None}
    BY <2>3 DEF AreaRows
  <2>5. l.type \in Types /\ l.num \in Nums
    BY DEF Types, Nums
  <2>6. Request("confirm", n, channels[n].gen, l.type, l.num, a,
                IF a = None THEN None ELSE areas[a].source) \in Requests
    BY <2>2, <2>3, <2>4, <2>5 DEF Request, Requests
  <2> QED BY <1>8, <2>1, <2>6, BeginStepType DEF ConfirmChannel
<1> QED BY <1>1, <1>2, <1>3, <1>4, <1>5, <1>6, <1>7, <1>8

\* The actions that change the tables keep the types.
LEMMA TypeStep == ASSUME TypeOK, \A p \in Procs : RequestOK(p), [Next]_vars PROVE TypeOK'
<1>1. CASE UNCHANGED vars
  BY <1>1 DEF TypeOK, vars
<1>2. ASSUME NEW p \in Procs, Step(p) PROVE TypeOK'
  <2>1. ASSUME NEW S \in SUBSET Nos, ReplaceRecorderChannels(p, S) PROVE TypeOK'
    <3>1. \A n \in Nos : Found(n) \in ChannelRows /\ Lost(n) \in ChannelRows \cup {Missing}
      BY FoundRow, LostRow
    <3>2. channels' \in [Nos -> ChannelRows \cup {Missing}]
      BY <2>1, <3>1 DEF ReplaceRecorderChannels
    <3>3. gen' \in [Nos -> Nat]
      BY <2>1 DEF ReplaceRecorderChannels, TypeOK
    <3>4. recorder' \in RecorderRows
      BY <2>1, CountedType DEF ReplaceRecorderChannels
    <3>5. reqs' \in [Procs -> Requests] /\ started' \in 0..MaxRequests
      BY <2>1, FinishType DEF ReplaceRecorderChannels
    <3> QED BY <2>1, <3>2, <3>3, <3>4, <3>5
          DEF ReplaceRecorderChannels, TypeOK, history
  <2>2. CASE UpsertRecorderChannel(p)
    <3> DEFINE n == reqs[p].no
               req == Request(IF Confirmed(Found(n).status) THEN "capture" ELSE "recognize",
                              n, Found(n).gen, None, None, None, None)
    <3>1. n \in Nos
      BY <2>2 DEF UpsertRecorderChannel, RequestOK
    <3>2. Found(n) \in ChannelRows /\ Found(n).gen \in Nat
      BY <3>1, FoundRow DEF ChannelRows
    <3>3. req \in Requests
      BY <3>1, <3>2, RequestTypes DEF Ops
    <3>4. reqs' = [reqs EXCEPT ![p] = req] /\ channels' = [channels EXCEPT ![n] = Found(n)]
          /\ gen' = [gen EXCEPT ![n] = Found(n).gen]
      BY <2>2 DEF UpsertRecorderChannel
    <3>5. recorder' \in RecorderRows
      BY <2>2, CountedType DEF UpsertRecorderChannel
    <3>6. UNCHANGED <<areas, noted, lastArea, started, decision, late>>
      BY <2>2 DEF UpsertRecorderChannel, history
    <3> HIDE DEF n, req
    <3>7. reqs' \in [Procs -> Requests]
      BY <3>3, <3>4 DEF TypeOK
    <3>8. channels' \in [Nos -> ChannelRows \cup {Missing}]
      BY <3>2, <3>4 DEF TypeOK
    <3>9. gen' \in [Nos -> Nat]
      BY <3>2, <3>4 DEF TypeOK
    <3> QED BY <3>5, <3>6, <3>7, <3>8, <3>9 DEF TypeOK
  <2>3. ASSUME NEW status \in Statuses, NEW t \in Types, NEW k \in Nums,
               SaveChannelSnapshot(p, status, t, k)
        PROVE  TypeOK'
    <3> DEFINE n == reqs[p].no
               r == channels[n]
    <3>1. n \in Nos /\ r \in ChannelRows
      BY <2>3, PresentGen DEF SaveChannelSnapshot, Addressed, RequestOK
    <3>2. Row(r.gen, r.active, status, t, k, r.area, r.confirmed) \in ChannelRows
      BY <3>1 DEF Row, ChannelRows
    <3>3. channels' \in [Nos -> ChannelRows \cup {Missing}]
      BY <2>3, <3>2 DEF SaveChannelSnapshot, TypeOK
    <3>4. decision' \in [Nos -> ChannelRows \cup {None}]
      BY <2>3 DEF SaveChannelSnapshot, TypeOK
    <3>5. reqs' \in [Procs -> Requests] /\ started' \in 0..MaxRequests
      BY <2>3, FinishType DEF SaveChannelSnapshot
    <3> QED BY <2>3, <3>3, <3>4, <3>5 DEF SaveChannelSnapshot, TypeOK
  <2>4. ASSUME NEW result \in Results, ApplyRecognition(p, result) PROVE TypeOK'
    BY <2>3, <2>4 DEF ApplyRecognition, Statuses, Types, Nums
  <2>5. CASE RecognitionFails(p)
    BY <2>3, <2>5 DEF RecognitionFails, Statuses, Types, Nums
  <2>6. CASE SaveSnapshotOnly(p)
    BY <2>6, FinishType DEF SaveSnapshotOnly, TypeOK, rows
  <2>7. CASE Fail(p)
    BY <2>7, FinishType DEF Fail, TypeOK, rows
  <2>8. CASE ConfirmCommit(p)
    <3> DEFINE q == reqs[p]
               a == IF q.area = None THEN lastArea + 1 ELSE q.area
    <3>1. q \in Requests /\ q.no \in Nos
      BY <2>8 DEF ConfirmCommit, RequestOK, TypeOK
    <3>2. a \in AreaIds
      BY <2>8, <3>1 DEF ConfirmCommit, Requests
    <3>3. areas' \in [AreaIds -> AreaRows \cup {Missing}] /\ lastArea' \in 0..MaxAreas
      <4>1. CASE q.area = None
        BY <2>8, <3>1, <3>2, <4>1
           DEF ConfirmCommit, TypeOK, Requests, Area, AreaRows, Sources, AreaIds
      <4>2. CASE q.area # None
        <5>1. areas[a] \in AreaRows
          BY <2>8, <3>2, <4>2 DEF ConfirmCommit, TypeOK
        <5>2. Area(areas[a].type, areas[a].num, "multiple") \in AreaRows
          BY <5>1 DEF Area, AreaRows, Sources
        <5> QED BY <2>8, <3>2, <4>2, <5>1, <5>2 DEF ConfirmCommit, TypeOK
      <4> QED BY <4>1, <4>2
    <3>4. channels' \in [Nos -> ChannelRows \cup {Missing}]
          /\ decision' \in [Nos -> ChannelRows \cup {None}]
          /\ late' \subseteq Procs
      <4>1. CASE Addressed(p)
        <5>1. channels[q.no] \in ChannelRows /\ q.gen = channels[q.no].gen
          BY <3>1, <4>1, PresentGen DEF Addressed
        <5>2. /\ Row(q.gen, channels[q.no].active, "confirmed_business", q.type, q.num, a, TRUE)
                   \in ChannelRows
              /\ Row(q.gen, TRUE, "confirmed_business", q.type, q.num, a, TRUE)
                   \in ChannelRows
          <6> HIDE DEF a
          <6> QED BY <3>1, <3>2, <5>1 DEF Row, ChannelRows, Requests, Statuses
        <5> QED BY <2>8, <4>1, <5>2 DEF ConfirmCommit, TypeOK, Overtaken
      <4>2. CASE ~Addressed(p)
        BY <2>8, <4>2 DEF ConfirmCommit, TypeOK
      <4> QED BY <4>1, <4>2
    <3>5. reqs' \in [Procs -> Requests] /\ started' \in 0..MaxRequests
      BY <2>8, FinishType DEF ConfirmCommit
    <3> QED BY <2>8, <3>3, <3>4, <3>5 DEF ConfirmCommit, TypeOK
  <2>9. CASE UnlockCommit(p)
    <3> DEFINE n == reqs[p].no
               r == channels[n]
    <3>1. n \in Nos /\ r \in ChannelRows
      BY <2>9, PresentGen DEF UnlockCommit, Addressed, RequestOK
    <3>2. Row(r.gen, r.active, "pending_confirmation", r.type, r.num, r.area, FALSE)
            \in ChannelRows
      BY <3>1 DEF Row, ChannelRows, Statuses
    <3>3. channels' \in [Nos -> ChannelRows \cup {Missing}]
          /\ decision' \in [Nos -> ChannelRows \cup {None}]
      BY <2>9, <3>2 DEF UnlockCommit, TypeOK
    <3> QED BY <2>9, <3>3, FinishType DEF UnlockCommit, TypeOK
  <2>10. CASE SaveDesignCommit(p)
    <3> DEFINE q == reqs[p]
               a == IF q.area = None THEN lastArea + 1 ELSE q.area
               b == IF q.type # None THEN Area(q.type, q.num, q.source)
                    ELSE IF q.source = None THEN areas[a]
                    ELSE Area(areas[a].type, areas[a].num, q.source)
    <3>1. areas' \in [AreaIds -> AreaRows \cup {Missing}]
      <4>1. q \in Requests /\ a \in AreaIds
        BY <2>10 DEF SaveDesignCommit, TypeOK
      <4>2. q.type # None => Area(q.type, q.num, q.source) \in AreaRows
        BY <2>10, <4>1 DEF SaveDesignCommit, RequestOK, Requests, Area, AreaRows
      <4>3. q.type = None => areas[a] \in AreaRows
        BY <2>10, <4>1 DEF SaveDesignCommit, RequestOK, TypeOK
      <4>4. q.type = None /\ q.source # None =>
              Area(areas[a].type, areas[a].num, q.source) \in AreaRows
        <5> HIDE DEF a
        <5> QED BY <4>1, <4>3 DEF Requests, Area, AreaRows
      <4>5. b \in AreaRows
        BY <4>2, <4>3, <4>4
      <4>6. areas' = [areas EXCEPT ![a] = b]
        BY <2>10 DEF SaveDesignCommit, UpdateDesignAreaSource
      <4> HIDE DEF a, b
      <4> QED BY <4>1, <4>5, <4>6 DEF TypeOK
    <3>2. noted' \subseteq AreaIds
      BY <2>10 DEF SaveDesignCommit, UpsertDesignAnnotation, TypeOK
    <3>3. lastArea' \in 0..MaxAreas
      <4>1. CASE q.area = None
        BY <2>10, <4>1 DEF SaveDesignCommit, TypeOK, AreaIds
      <4>2. CASE q.area # None
        BY <2>10, <4>2 DEF SaveDesignCommit, TypeOK
      <4> QED BY <4>1, <4>2
    <3> QED BY <2>10, <3>1, <3>2, <3>3, FinishType DEF SaveDesignCommit, TypeOK, history
  <2> QED BY <1>2, <2>1, <2>2, <2>4, <2>5, <2>6, <2>7, <2>8, <2>9, <2>10,
             BeginActionsType DEF Step
<1>3. ASSUME NEW n \in Nos, ConfirmNonBusinessChannel(n) PROVE TypeOK'
  <2>1. channels[n] \in ChannelRows
    BY <1>3, PresentGen DEF ConfirmNonBusinessChannel
  <2>2. /\ Row(channels[n].gen, channels[n].active, "confirmed_non_business",
               None, None, None, TRUE) \in ChannelRows
        /\ Row(channels[n].gen, TRUE, "confirmed_non_business",
               None, None, None, TRUE) \in ChannelRows
    BY <2>1 DEF Row, ChannelRows, Statuses, Types, Nums
  <2>3. channels' \in [Nos -> ChannelRows \cup {Missing}]
    BY <1>3, <2>2 DEF ConfirmNonBusinessChannel, TypeOK
  <2>4. decision' \in [Nos -> ChannelRows \cup {None}]
    BY <1>3, <2>2 DEF ConfirmNonBusinessChannel, TypeOK
  <2>5. started' \in 0..MaxRequests /\ late' \subseteq Procs
    BY <1>3, ChannelAssumption DEF ConfirmNonBusinessChannel, Accept, Overtaken, TypeOK
  <2> QED BY <1>3, <2>3, <2>4, <2>5 DEF ConfirmNonBusinessChannel, TypeOK
<1>4. ASSUME NEW n \in Nos, DeleteChannel(n) PROVE TypeOK'
  BY <1>4, CountedType, ChannelAssumption DEF DeleteChannel, DeleteUnusedVideoAreas, Accept, TypeOK
<1>5. CASE DeleteRecorder
  BY <1>5, ChannelAssumption DEF DeleteRecorder, Accept, TypeOK
<1>6. CASE Rest
  BY <1>6 DEF Rest, TypeOK, vars
<1> QED BY <1>1, <1>2, <1>3, <1>4, <1>5, <1>6 DEF Next

---------------------------------------------------------------------------
(* What requests carry. *)

\* The end of a request leaves all requests in shape.
LEMMA FinishOK ==
    ASSUME TypeOK, \A x \in Procs : RequestOK(x), NEW p \in Procs, Finish(p)
    PROVE  \A x \in Procs : RequestOK(x)'
BY DEF Finish, RequestOK, TypeOK, Idle, Request

\* A new request with a number, a label or an area, as its kind needs it,
\* leaves all requests in shape.
LEMMA BeginOK ==
    ASSUME TypeOK, \A x \in Procs : RequestOK(x), NEW p \in Procs, NEW kind, NEW req,
           Begin(p, kind, req),
           req.op \in {"probe", "recognize", "capture", "confirm", "unlock"}
             => req.no \in Nos,
           req.op = "confirm" => req.type # None,
           req.op = "design" => IF req.type # None THEN req.source \in Sources
                                                   ELSE req.area # None
    PROVE  \A x \in Procs : RequestOK(x)'
BY DEF Begin, RequestOK, TypeOK

\* Every step leaves the requests in a shape that their next step can use.
LEMMA RequestStep ==
    ASSUME TypeOK, \A x \in Procs : RequestOK(x), [Next]_vars
    PROVE  \A x \in Procs : RequestOK(x)'
<1>1. CASE UNCHANGED reqs
  BY <1>1 DEF RequestOK
<1>3. ASSUME NEW p \in Procs, Step(p) PROVE \A x \in Procs : RequestOK(x)'
  <2>1. CASE ScanRecorderChannels(p)
    BY <2>1, BeginOK DEF ScanRecorderChannels, Request
  <2>2. CASE UpsertRecorderChannel(p)
    BY <2>2 DEF UpsertRecorderChannel, RequestOK, Request, TypeOK
  <2>3. CASE RecognizeRecorderChannels(p)
    <3>1. PICK n \in Nos :
             Begin(p, "batch", Request("recognize", n, channels[n].gen, None, None, None, None))
      BY <2>3 DEF RecognizeRecorderChannels
    <3> QED BY <3>1, BeginOK DEF Request
  <2>4. ASSUME NEW i \in (1..lastArea) \cup {None}, NEW l \in Labels, SaveDesignPlan(p, i, l)
        PROVE  \A x \in Procs : RequestOK(x)'
    <3> DEFINE byId == i # None /\ areas[i] # Missing
               a == IF byId THEN i
                    ELSE IF Find(l) = {} THEN None ELSE CHOOSE x \in Find(l) : TRUE
               r1 == Request("design", None, None, None, None, a,
                       IF areas[i].source = "multiple" THEN None ELSE "multiple")
               r2 == Request("design", None, None, l.type, l.num, a,
                       IF a = None THEN "design_plan" ELSE MergeSource(areas[a].source))
    <3>1. \/ byId /\ Begin(p, "design", r1)
          \/ Begin(p, "design", r2)
      BY <2>4 DEF SaveDesignPlan, QueryAreaByID
    <3>2. byId => r1.op = "design" /\ r1.type = None /\ r1.area # None
      BY DEF Request
    <3>3. r2.op = "design" /\ r2.type # None /\ r2.source \in Sources
      BY ChannelAssumption DEF Request, MergeSource, Sources
    <3> HIDE DEF byId, r1, r2
    <3> QED BY <3>1, <3>2, <3>3, BeginOK
  <2>5. ASSUME NEW n \in Nos,
               \/ ProbeRecognizeChannel(p, n) \/ RecognizeChannel(p, n)
               \/ RefreshChannelSnapshot(p, n) \/ UnlockChannelForEdit(p, n)
        PROVE  \A x \in Procs : RequestOK(x)'
    BY <2>5, BeginOK DEF ProbeRecognizeChannel, RecognizeChannel, RefreshChannelSnapshot,
       UnlockChannelForEdit, Request
  <2>6. ASSUME NEW n \in Nos, NEW l \in Labels, ConfirmChannel(p, n, l)
        PROVE  \A x \in Procs : RequestOK(x)'
    <3>1. PICK a, s : Begin(p, "confirm",
                            Request("confirm", n, channels[n].gen, l.type, l.num, a, s))
      BY <2>6 DEF ConfirmChannel
    <3> QED BY <3>1, BeginOK, ChannelAssumption DEF Request
  <2>7. ASSUME NEW S \in SUBSET Nos, ReplaceRecorderChannels(p, S)
        PROVE  \A x \in Procs : RequestOK(x)'
    BY <2>7, FinishOK DEF ReplaceRecorderChannels
  <2>8. ASSUME NEW result \in Results, ApplyRecognition(p, result)
        PROVE  \A x \in Procs : RequestOK(x)'
    BY <2>8, FinishOK DEF ApplyRecognition, SaveChannelSnapshot
  <2>9. CASE RecognitionFails(p)
    BY <2>9, FinishOK DEF RecognitionFails, SaveChannelSnapshot
  <2>10. CASE \/ SaveSnapshotOnly(p) \/ ConfirmCommit(p) \/ UnlockCommit(p)
              \/ SaveDesignCommit(p) \/ Fail(p)
    <3>1. Finish(p)
      BY <2>10 DEF SaveSnapshotOnly, ConfirmCommit, UnlockCommit, SaveDesignCommit, Fail
    <3> QED BY <3>1, FinishOK
  <2> QED BY <1>3, <2>1, <2>2, <2>3, <2>4, <2>5, <2>6, <2>7, <2>8, <2>9, <2>10 DEF Step
<1>4. (\E n \in Nos : ConfirmNonBusinessChannel(n) \/ DeleteChannel(n)) \/ DeleteRecorder \/ Rest
        => UNCHANGED reqs
  BY DEF ConfirmNonBusinessChannel, DeleteChannel, DeleteRecorder, Rest, vars
<1> QED BY <1>1, <1>3, <1>4 DEF Next, vars

---------------------------------------------------------------------------
(* The count. *)

\* A row that stays as active as it was changes no count.
LEMMA RowChange ==
    ASSUME TypeOK, CountExact, \A m \in Nos : ActiveOK(m),
           NEW n \in Nos, channels[n] # Missing, NEW r \in ChannelRows,
           channels' = [channels EXCEPT ![n] = r], UNCHANGED recorder,
           r.active = channels[n].active, r.status # "inactive"
    PROVE  CountExact' /\ \A m \in Nos : ActiveOK(m)'
<1>1. r # Missing
  BY ChannelAssumption
<1>2. \A m \in Nos : channels'[m] = IF m = n THEN r ELSE channels[m]
  BY DEF TypeOK
<1>3. \A m \in Nos : ActiveOK(m)'
  BY <1>1, <1>2 DEF ActiveOK
<1>4. n \in ActiveNos(channels) <=> n \in ActiveNos(channels')
  BY <1>1, <1>2 DEF ActiveNos, ActiveOK
<1>5. \A m \in Nos \ {n} : m \in ActiveNos(channels) <=> m \in ActiveNos(channels')
  BY <1>2 DEF ActiveNos
<1>6. ActiveNos(channels') = ActiveNos(channels)
  <2>1. ActiveNos(channels) \subseteq Nos /\ ActiveNos(channels') \subseteq Nos
    BY DEF ActiveNos
  <2>2. \A m \in Nos : m \in ActiveNos(channels) <=> m \in ActiveNos(channels')
    BY <1>4, <1>5
  <2> DEFINE A == ActiveNos(channels)
             B == ActiveNos(channels')
  <2> HIDE DEF A, B
  <2>3. A \subseteq Nos /\ B \subseteq Nos /\ \A m \in Nos : m \in A <=> m \in B
    BY <2>1, <2>2 DEF A, B
  <2>4. A = B
    BY <2>3
  <2> QED BY <2>4 DEF A, B
<1>7. Counted(channels') = Counted(channels)
  BY <1>6, CountedSame
<1> QED BY <1>3, <1>7 DEF CountExact

\* The recorder's count stays exact through every step.
LEMMA CountStep ==
    ASSUME IInv, TypeOK', [Next]_vars
    PROVE  CountExact' /\ \A m \in Nos : ActiveOK(m)'
<1> USE DEF IInv
<1>1. CASE UNCHANGED <<channels, recorder>>
  BY <1>1 DEF CountExact, ActiveOK, Counted, ActiveCount, ActiveNos
<1>2. ASSUME NEW p \in Procs, Step(p) PROVE CountExact' /\ \A m \in Nos : ActiveOK(m)'
  <2>1. ASSUME NEW S \in SUBSET Nos, ReplaceRecorderChannels(p, S)
        PROVE  CountExact' /\ \A m \in Nos : ActiveOK(m)'
    <3>1. CountExact'
      BY <2>1 DEF ReplaceRecorderChannels, CountExact
    <3>2. ASSUME NEW m \in Nos PROVE ActiveOK(m)'
      <4>1. channels'[m] = IF m \in S THEN Found(m) ELSE Lost(m)
        BY <2>1 DEF ReplaceRecorderChannels
      <4> QED BY <4>1, FoundRow, LostRow DEF ActiveOK
    <3> QED BY <3>1, <3>2
  <2>2. CASE UpsertRecorderChannel(p)
    <3>1. CountExact'
      BY <2>2 DEF UpsertRecorderChannel, CountExact
    <3>2. ASSUME NEW m \in Nos PROVE ActiveOK(m)'
      <4>1. channels'[m] = channels[m] \/ channels'[m] = Found(m)
        BY <2>2 DEF UpsertRecorderChannel, TypeOK
      <4> QED BY <4>1, FoundRow DEF ActiveOK
    <3> QED BY <3>1, <3>2
  <2>3. ASSUME NEW status \in Statuses, status # "inactive", NEW t \in Types, NEW k \in Nums,
               SaveChannelSnapshot(p, status, t, k)
        PROVE  CountExact' /\ \A m \in Nos : ActiveOK(m)'
    <3> DEFINE n == reqs[p].no
               r == Row(channels[n].gen, channels[n].active, status, t, k,
                        channels[n].area, channels[n].confirmed)
    <3>1. n \in Nos /\ channels[n] # Missing /\ channels[n] \in ChannelRows
      BY <2>3, PresentGen DEF SaveChannelSnapshot, Addressed, RequestOK
    <3>2. r \in ChannelRows /\ r.active = channels[n].active /\ r.status # "inactive"
      BY <2>3, <3>1 DEF Row, ChannelRows
    <3>3. channels' = [channels EXCEPT ![n] = r] /\ UNCHANGED recorder
      BY <2>3 DEF SaveChannelSnapshot
    <3> HIDE DEF n, r
    <3> QED BY <3>1, <3>2, <3>3, RowChange
  <2>4. ASSUME NEW result \in Results, ApplyRecognition(p, result)
        PROVE  CountExact' /\ \A m \in Nos : ActiveOK(m)'
    BY <2>3, <2>4 DEF ApplyRecognition, Statuses, Types, Nums
  <2>5. CASE RecognitionFails(p)
    BY <2>3, <2>5 DEF RecognitionFails, Statuses, Types, Nums
  <2>6. CASE ConfirmCommit(p)
    <3> DEFINE n == reqs[p].no
               a == IF reqs[p].area = None THEN lastArea + 1 ELSE reqs[p].area
               r == Row(reqs[p].gen, channels[n].active, "confirmed_business",
                        reqs[p].type, reqs[p].num, a, TRUE)
    <3>1. CASE ~Addressed(p)
      BY <2>6, <3>1, <1>1 DEF ConfirmCommit
    <3>2. CASE Addressed(p)
      <4>1. n \in Nos /\ channels[n] # Missing
        BY <2>6, <3>2 DEF ConfirmCommit, Addressed, RequestOK
      <4>2. channels' = [channels EXCEPT ![n] = r] /\ UNCHANGED recorder
        BY <2>6, <3>2 DEF ConfirmCommit
      <4>3. channels'[n] = r
        BY <4>1, <4>2 DEF TypeOK
      <4>4. r.active = channels[n].active /\ r.status # "inactive" /\ r.gen = reqs[p].gen
        BY DEF Row
      <4>5. r \in ChannelRows
        <5>1. channels[n] \in ChannelRows /\ reqs[p].gen = channels[n].gen
          BY <3>2, <4>1, PresentGen DEF Addressed
        <5>2. reqs[p] \in Requests /\ a \in AreaIds
          BY <2>6 DEF ConfirmCommit, TypeOK, Requests
        <5> HIDE DEF a
        <5> QED BY <5>1, <5>2 DEF Row, ChannelRows, Requests, Statuses
      <4> HIDE DEF n, r
      <4> QED BY <4>1, <4>2, <4>4, <4>5, RowChange
    <3> QED BY <3>1, <3>2
  <2>7. CASE UnlockCommit(p)
    <3> DEFINE n == reqs[p].no
               r == Row(channels[n].gen, channels[n].active, "pending_confirmation",
                        channels[n].type, channels[n].num, channels[n].area, FALSE)
    <3>1. n \in Nos /\ channels[n] # Missing /\ channels[n] \in ChannelRows
      BY <2>7, PresentGen DEF UnlockCommit, Addressed, RequestOK
    <3>2. r \in ChannelRows /\ r.active = channels[n].active /\ r.status # "inactive"
      BY <3>1 DEF Row, ChannelRows, Statuses
    <3>3. channels' = [channels EXCEPT ![n] = r] /\ UNCHANGED recorder
      BY <2>7 DEF UnlockCommit
    <3> HIDE DEF n, r
    <3> QED BY <3>1, <3>2, <3>3, RowChange
  <2>8. CASE UNCHANGED rows
    BY <1>1, <2>8 DEF rows
  <2>9. CASE SaveDesignCommit(p)
    BY <1>1, <2>9 DEF SaveDesignCommit
  <2>10. CASE SaveSnapshotOnly(p) \/ Fail(p)
    BY <2>8, <2>10 DEF SaveSnapshotOnly, Fail
  <2>11. CASE \/ ScanRecorderChannels(p) \/ RecognizeRecorderChannels(p)
              \/ \E i \in (1..lastArea) \cup {None}, l \in Labels : SaveDesignPlan(p, i, l)
    BY <2>8, <2>11 DEF ScanRecorderChannels, RecognizeRecorderChannels, SaveDesignPlan
  <2>12. ASSUME NEW n \in Nos,
               \/ ProbeRecognizeChannel(p, n) \/ RecognizeChannel(p, n)
               \/ RefreshChannelSnapshot(p, n) \/ UnlockChannelForEdit(p, n)
               \/ \E l \in Labels : ConfirmChannel(p, n, l)
         PROVE UNCHANGED rows
    BY <2>12 DEF ProbeRecognizeChannel, RecognizeChannel, RefreshChannelSnapshot,
       UnlockChannelForEdit, ConfirmChannel
  <2> QED BY <1>2, <2>1, <2>2, <2>4, <2>5, <2>6, <2>7, <2>8, <2>9, <2>10, <2>11, <2>12 DEF Step
<1>3. ASSUME NEW n \in Nos, ConfirmNonBusinessChannel(n)
      PROVE  CountExact' /\ \A m \in Nos : ActiveOK(m)'
  <2> DEFINE r == Row(channels[n].gen, channels[n].active, "confirmed_non_business",
                      None, None, None, TRUE)
  <2>1. channels[n] # Missing /\ channels[n] \in ChannelRows
    BY <1>3, PresentGen DEF ConfirmNonBusinessChannel
  <2>2. r \in ChannelRows /\ r.active = channels[n].active /\ r.status # "inactive"
    BY <2>1 DEF Row, ChannelRows, Statuses, Types, Nums
  <2>3. channels' = [channels EXCEPT ![n] = r] /\ UNCHANGED recorder
    BY <1>3 DEF ConfirmNonBusinessChannel
  <2> HIDE DEF r
  <2> QED BY <2>1, <2>2, <2>3, RowChange
<1>4. ASSUME NEW n \in Nos, DeleteChannel(n)
      PROVE  CountExact' /\ \A m \in Nos : ActiveOK(m)'
  BY <1>4 DEF DeleteChannel, CountExact, ActiveOK, TypeOK
<1>5. CASE DeleteRecorder
  BY <1>5 DEF DeleteRecorder, CountExact, ActiveOK
<1>6. CASE Rest
  BY <1>1, <1>6 DEF Rest, vars
<1> QED BY <1>1, <1>2, <1>3, <1>4, <1>5, <1>6 DEF Next, vars

---------------------------------------------------------------------------
(* Decisions. *)

DecisionsOK == /\ \A n \in Nos : DecisionOK(n)
               /\ \A p \in Procs, n \in Nos : LateOK(p, n)

\* Ending a request on unchanged rows disturbs no decision.
LEMMA FinishLate ==
    ASSUME IInv, NEW p \in Procs, Finish(p), UNCHANGED <<channels, decision>>,
           late \ {p} \subseteq late'
    PROVE  DecisionsOK'
<1>1. \A n \in Nos : DecisionOK(n)'
  BY DEF IInv, DecisionOK
<1>2. ASSUME NEW x \in Procs, NEW n \in Nos PROVE LateOK(x, n)'
  <2>1. CASE x = p
    BY <2>1 DEF IInv, TypeOK, Finish, LateOK, Idle, Request
  <2>2. CASE x # p
    BY <2>2 DEF IInv, TypeOK, Finish, LateOK
  <2> QED BY <2>1, <2>2
<1> QED BY <1>1, <1>2 DEF DecisionsOK

\* Beginning a request disturbs none either, unless it is a recognition, which
\* begins on rows without a decision only.
LEMMA BeginLate ==
    ASSUME IInv, NEW p \in Procs, NEW kind, NEW req, Begin(p, kind, req),
           UNCHANGED <<rows, history>>,
           req.op = "recognize" => decision[req.no] = None
    PROVE  DecisionsOK'
<1>1. \A n \in Nos : DecisionOK(n)'
  BY DEF IInv, DecisionOK, rows, history
<1>2. ASSUME NEW x \in Procs, NEW n \in Nos PROVE LateOK(x, n)'
  <2>1. CASE x = p
    BY <2>1 DEF IInv, TypeOK, Begin, LateOK, rows, history
  <2>2. CASE x # p
    BY <2>2 DEF IInv, TypeOK, Begin, LateOK, rows, history
  <2> QED BY <2>1, <2>2
<1> QED BY <1>1, <1>2 DEF DecisionsOK

\* RecognizeChannel and the batch route refuse every decided channel.
LEMMA Undecided ==
    ASSUME IInv, NEW n \in Nos, Recognizable(n)
    PROVE  decision[n] = None
<1> SUFFICES ASSUME decision[n] # None PROVE FALSE
  OBVIOUS
<1>1. DecisionOK(n)
  BY DEF IInv
<1>2. channels[n].active # FALSE
  BY DEF Recognizable, Usable
<1>3. channels[n].status = decision[n].status /\ Confirmed(channels[n].status)
  BY <1>1, <1>2 DEF DecisionOK, Confirmed
<1> QED BY <1>3 DEF Recognizable

\* A scan or a probe that finds a decided channel restores the status that was
\* decided, also from the inactive row of an earlier scan.
LEMMA FoundDecided ==
    ASSUME IInv, NEW n \in Nos, decision[n] # None
    PROVE  /\ channels[n] # Missing
           /\ Found(n).status = decision[n].status /\ Confirmed(Found(n).status)
<1>1. DecisionOK(n) /\ TypeOK
  BY DEF IInv
<1>2. channels[n] # Missing /\ Found(n).status = Recovered(channels[n])
  BY <1>1, FoundRow DEF DecisionOK
<1>3. Recovered(channels[n]) = decision[n].status
  BY <1>1 DEF DecisionOK, Recovered
<1>4. Confirmed(decision[n].status)
  BY <1>1 DEF DecisionOK, Confirmed
<1> QED BY <1>2, <1>3, <1>4

\* A decided row that was found, or lost, still honours the decision.
LEMMA ScannedRow ==
    ASSUME IInv, NEW m \in Nos, decision'[m] = decision[m],
           channels'[m] = Found(m) \/ channels'[m] = Lost(m) \/ channels'[m] = channels[m]
    PROVE  /\ DecisionOK(m)'
           /\ decision'[m] # None => channels'[m].gen = channels[m].gen
<1>1. CASE decision[m] = None
  BY <1>1 DEF DecisionOK
<1>2. CASE decision[m] # None
  <2>1. DecisionOK(m) /\ TypeOK
    BY DEF IInv
  <2>2. channels[m] # Missing /\ Found(m) # Missing /\ Lost(m) # Missing
    BY <1>2, <2>1, FoundRow, LostRow, ChannelAssumption DEF DecisionOK
  <2>3. CASE channels'[m] = Found(m)
    BY <1>2, <2>1, <2>2, <2>3, FoundRow, FoundDecided, ZenonT(60) DEF DecisionOK
  <2>4. CASE channels'[m] = Lost(m)
    BY <1>2, <2>1, <2>2, <2>4, LostRow, ZenonT(60) DEF DecisionOK
  <2>5. CASE channels'[m] = channels[m]
    BY <2>1, <2>5 DEF DecisionOK
  <2> QED BY <2>3, <2>4, <2>5
<1> QED BY <1>1, <1>2

\* Decisions survive every step, and recognitions on decided rows are late.
LEMMA DecisionStep == ASSUME IInv, [Next]_vars PROVE DecisionsOK'
<1>1. CASE UNCHANGED vars
  BY <1>1 DEF IInv, DecisionsOK, DecisionOK, LateOK, vars
<1>2. ASSUME NEW p \in Procs, Step(p) PROVE DecisionsOK'
  <2>1. ASSUME NEW S \in SUBSET Nos, ReplaceRecorderChannels(p, S) PROVE DecisionsOK'
    <3>1. UNCHANGED <<decision, late>> /\ Finish(p)
      BY <2>1 DEF ReplaceRecorderChannels, history
    <3>2. \A m \in Nos : channels'[m] = Found(m) \/ channels'[m] = Lost(m)
      BY <2>1 DEF ReplaceRecorderChannels
    <3>3. \A m \in Nos : /\ DecisionOK(m)'
                         /\ decision'[m] # None => channels'[m].gen = channels[m].gen
      BY <3>1, <3>2, ScannedRow
    <3>4. ASSUME NEW x \in Procs, NEW m \in Nos PROVE LateOK(x, m)'
      <4>1. CASE x = p
        BY <3>1, <4>1 DEF IInv, TypeOK, Finish, LateOK, Idle, Request
      <4>2. CASE x # p
        BY <3>1, <3>3, <4>2 DEF IInv, TypeOK, Finish, LateOK
      <4> QED BY <4>1, <4>2
    <3> QED BY <3>3, <3>4 DEF DecisionsOK
  <2>2. CASE UpsertRecorderChannel(p)
    <3> DEFINE n == reqs[p].no
    <3>1. n \in Nos /\ UNCHANGED <<decision, late>>
      BY <2>2 DEF UpsertRecorderChannel, IInv, RequestOK, history
    <3>2. \A m \in Nos : channels'[m] = Found(m) \/ channels'[m] = channels[m]
      BY <2>2 DEF UpsertRecorderChannel, IInv, TypeOK
    <3>3. \A m \in Nos : /\ DecisionOK(m)'
                         /\ decision'[m] # None => channels'[m].gen = channels[m].gen
      BY <3>1, <3>2, ScannedRow
    <3>4. ASSUME NEW x \in Procs, NEW m \in Nos PROVE LateOK(x, m)'
      <4>1. CASE x = p
        <5>1. reqs'[p] = Request(IF Confirmed(Found(n).status) THEN "capture" ELSE "recognize",
                                 n, Found(n).gen, None, None, None, None)
          BY <2>2 DEF UpsertRecorderChannel, IInv, TypeOK
        <5>2. reqs'[p].no = n
          BY <5>1 DEF Request
        <5>3. reqs'[p].op = "recognize" => ~Confirmed(Found(n).status)
          BY <5>1 DEF Request
        <5>4. reqs'[p].op = "recognize" => decision'[n] = None
          BY <3>1, <5>3, FoundDecided
        <5> QED BY <4>1, <5>2, <5>4 DEF LateOK
      <4>2. CASE x # p
        <5>1. reqs'[x] = reqs[x]
          BY <2>2, <4>2 DEF UpsertRecorderChannel, IInv, TypeOK
        <5> QED BY <3>1, <3>3, <5>1 DEF IInv, LateOK
      <4> QED BY <4>1, <4>2
    <3> QED BY <3>3, <3>4 DEF DecisionsOK
  <2>3. ASSUME NEW status, NEW t, NEW k, SaveChannelSnapshot(p, status, t, k)
        PROVE  DecisionsOK'
    <3> DEFINE n == reqs[p].no
    <3>1. n \in Nos /\ Addressed(p) /\ reqs[p].op = "recognize"
      BY <2>3 DEF SaveChannelSnapshot, IInv, RequestOK
    <3>2. decision[n] # None => p \in late
      BY <3>1 DEF IInv, LateOK, Addressed
    <3>3. decision'[n] = None
      BY <2>3, <3>1, <3>2 DEF SaveChannelSnapshot, IInv, TypeOK
    <3>4. \A m \in Nos \ {n} : channels'[m] = channels[m] /\ decision'[m] = decision[m]
      BY <2>3 DEF SaveChannelSnapshot, IInv, TypeOK
    <3>5. \A m \in Nos : DecisionOK(m)'
      BY <3>3, <3>4 DEF IInv, DecisionOK
    <3>6. ASSUME NEW x \in Procs, NEW m \in Nos PROVE LateOK(x, m)'
      <4>1. Finish(p) /\ late' = late \ {p}
        BY <2>3 DEF SaveChannelSnapshot
      <4>2. CASE x = p
        BY <4>1, <4>2 DEF IInv, TypeOK, Finish, LateOK, Idle, Request
      <4>3. CASE x # p
        BY <3>3, <3>4, <4>1, <4>3 DEF IInv, TypeOK, Finish, LateOK
      <4> QED BY <4>2, <4>3
    <3> QED BY <3>5, <3>6 DEF DecisionsOK
  <2>4. ASSUME NEW result \in Results, ApplyRecognition(p, result) PROVE DecisionsOK'
    BY <2>3, <2>4 DEF ApplyRecognition
  <2>5. CASE RecognitionFails(p)
    BY <2>3, <2>5 DEF RecognitionFails
  <2>6. CASE ConfirmCommit(p)
    <3>0. PICK n \in Nos : n = reqs[p].no
      BY <2>6 DEF ConfirmCommit, IInv, RequestOK
    <3> DEFINE a == IF reqs[p].area = None THEN lastArea + 1 ELSE reqs[p].area
               d == Row(reqs[p].gen, TRUE, "confirmed_business", reqs[p].type, reqs[p].num, a, TRUE)
               r == Row(reqs[p].gen, channels[n].active, "confirmed_business",
                        reqs[p].type, reqs[p].num, a, TRUE)
    <3>1. reqs[p].type # None /\ Finish(p)
      BY <2>6 DEF ConfirmCommit, IInv, RequestOK
    <3>2. CASE ~Addressed(p)
      BY <2>6, <3>1, <3>2, FinishLate DEF ConfirmCommit
    <3>3. CASE Addressed(p)
      <4>1. channels'[n] = r /\ decision'[n] = d /\ late' = late \cup Overtaken(n)
        BY <2>6, <3>0, <3>3 DEF ConfirmCommit, IInv, TypeOK
      <4>2. \A m \in Nos \ {n} : channels'[m] = channels[m] /\ decision'[m] = decision[m]
        BY <2>6, <3>0, <3>3 DEF ConfirmCommit, IInv, TypeOK
      <4>3. r # Missing
        <5>1. channels[n] \in ChannelRows /\ reqs[p].gen = channels[n].gen
          BY <3>0, <3>3, PresentGen DEF Addressed, IInv
        <5>2. reqs[p] \in Requests /\ a \in AreaIds
          BY <2>6 DEF ConfirmCommit, IInv, TypeOK, Requests
        <5> HIDE DEF a
        <5>3. r \in ChannelRows
          BY <5>1, <5>2 DEF Row, ChannelRows, Requests, Statuses
        <5> HIDE DEF r
        <5> QED BY <5>3, ChannelAssumption
      <4>4. DecisionOK(n)'
        <5> HIDE DEF a
        <5>1. /\ r.gen = d.gen /\ r.type = d.type /\ r.num = d.num /\ r.area = d.area
              /\ r.confirmed = TRUE /\ r.status = d.status
              /\ d.status = "confirmed_business" /\ d.type = reqs[p].type
          BY DEF Row
        <5> HIDE DEF r, d
        <5> QED BY <3>1, <4>1, <4>3, <5>1 DEF DecisionOK
      <4>5. ASSUME NEW m \in Nos PROVE DecisionOK(m)'
        <5>1. DecisionOK(m)
          BY DEF IInv
        <5>2. m # n => DecisionOK(m)'
          BY <4>2, <5>1 DEF DecisionOK
        <5> QED BY <4>4, <5>2
      <4>6. channels'[n].gen = channels[n].gen
        BY <3>0, <3>3, <4>1 DEF Addressed, Row
      <4>7. ASSUME NEW x \in Procs, NEW m \in Nos PROVE LateOK(x, m)'
        <5>1. CASE x = p
          BY <3>1, <5>1 DEF IInv, TypeOK, Finish, LateOK, Idle, Request
        <5>2. CASE x # p /\ m = n
          BY <3>1, <4>1, <4>6, <5>2 DEF IInv, TypeOK, Finish, LateOK, Overtaken
        <5>3. CASE x # p /\ m # n
          BY <3>1, <4>1, <4>2, <5>3 DEF IInv, TypeOK, Finish, LateOK
        <5> QED BY <5>1, <5>2, <5>3
      <4> QED BY <4>5, <4>7 DEF DecisionsOK
    <3> QED BY <3>2, <3>3
  <2>7. CASE UnlockCommit(p)
    <3> DEFINE n == reqs[p].no
    <3>1. n \in Nos /\ Finish(p) /\ UNCHANGED late
      BY <2>7 DEF UnlockCommit, IInv, RequestOK
    <3>2. decision'[n] = None
      BY <2>7, <3>1 DEF UnlockCommit, IInv, TypeOK
    <3>3. \A m \in Nos \ {n} : channels'[m] = channels[m] /\ decision'[m] = decision[m]
      BY <2>7 DEF UnlockCommit, IInv, TypeOK
    <3>4. \A m \in Nos : DecisionOK(m)'
      BY <3>2, <3>3 DEF IInv, DecisionOK
    <3>5. ASSUME NEW x \in Procs, NEW m \in Nos PROVE LateOK(x, m)'
      <4>1. CASE x = p
        BY <3>1, <4>1 DEF IInv, TypeOK, Finish, LateOK, Idle, Request
      <4>2. CASE x # p
        BY <3>1, <3>2, <3>3, <4>2 DEF IInv, TypeOK, Finish, LateOK
      <4> QED BY <4>1, <4>2
    <3> QED BY <3>4, <3>5 DEF DecisionsOK
  <2>8. CASE SaveDesignCommit(p)
    BY <2>8, FinishLate DEF SaveDesignCommit, history
  <2>9. CASE SaveSnapshotOnly(p) \/ Fail(p)
    BY <2>9, FinishLate DEF SaveSnapshotOnly, Fail, rows
  <2>10. CASE ScanRecorderChannels(p)
    BY <2>10, BeginLate DEF ScanRecorderChannels, Request
  <2>11. CASE RecognizeRecorderChannels(p)
    <3>1. PICK n \in Nos : Recognizable(n)
             /\ Begin(p, "batch", Request("recognize", n, channels[n].gen, None, None, None, None))
      BY <2>11 DEF RecognizeRecorderChannels
    <3>2. decision[n] = None
      BY <3>1, Undecided
    <3> QED BY <2>11, <3>1, <3>2, BeginLate DEF RecognizeRecorderChannels, Request
  <2>12. ASSUME NEW i \in (1..lastArea) \cup {None}, NEW l \in Labels, SaveDesignPlan(p, i, l)
         PROVE  DecisionsOK'
    <3>1. PICK t, k, a, s : Begin(p, "design", Request("design", None, None, t, k, a, s))
      BY <2>12 DEF SaveDesignPlan, QueryAreaByID
    <3>2. UNCHANGED <<rows, history>>
      BY <2>12 DEF SaveDesignPlan, QueryAreaByID
    <3> QED BY <3>1, <3>2, BeginLate DEF Request
  <2>13. ASSUME NEW n \in Nos, RecognizeChannel(p, n) PROVE DecisionsOK'
    <3>1. decision[n] = None
      BY <2>13, Undecided DEF RecognizeChannel
    <3> QED BY <2>13, <3>1, BeginLate DEF RecognizeChannel, Request
  <2>14. ASSUME NEW n \in Nos, \/ ProbeRecognizeChannel(p, n) \/ RefreshChannelSnapshot(p, n)
                               \/ UnlockChannelForEdit(p, n)
         PROVE  DecisionsOK'
    BY <2>14, BeginLate DEF ProbeRecognizeChannel, RefreshChannelSnapshot,
       UnlockChannelForEdit, Request
  <2>15. ASSUME NEW n \in Nos, NEW l \in Labels, ConfirmChannel(p, n, l) PROVE DecisionsOK'
    <3>1. PICK a, s : Begin(p, "confirm",
                            Request("confirm", n, channels[n].gen, l.type, l.num, a, s))
      BY <2>15 DEF ConfirmChannel
    <3>2. UNCHANGED <<rows, history>>
      BY <2>15 DEF ConfirmChannel
    <3> QED BY <3>1, <3>2, BeginLate DEF Request
  <2> QED BY <1>2, <2>1, <2>2, <2>4, <2>5, <2>6, <2>7, <2>8, <2>9, <2>10, <2>11, <2>12,
             <2>13, <2>14, <2>15 DEF Step
<1>3. ASSUME NEW n \in Nos, ConfirmNonBusinessChannel(n) PROVE DecisionsOK'
  <2> DEFINE r == Row(channels[n].gen, channels[n].active, "confirmed_non_business",
                      None, None, None, TRUE)
             d == Row(channels[n].gen, TRUE, "confirmed_non_business", None, None, None, TRUE)
  <2>1. channels[n] \in ChannelRows /\ UNCHANGED reqs
    BY <1>3, PresentGen DEF ConfirmNonBusinessChannel, IInv
  <2>2. r # Missing
    <3>1. r \in ChannelRows
      BY <2>1 DEF Row, ChannelRows, Statuses, Types, Nums
    <3> HIDE DEF r
    <3> QED BY <3>1, ChannelAssumption
  <2>3. channels'[n] = r /\ decision'[n] = d /\ late' = late \cup Overtaken(n)
    BY <1>3 DEF ConfirmNonBusinessChannel, IInv, TypeOK
  <2>4. \A m \in Nos \ {n} : channels'[m] = channels[m] /\ decision'[m] = decision[m]
    BY <1>3 DEF ConfirmNonBusinessChannel, IInv, TypeOK
  <2>5. DecisionOK(n)'
    BY <2>2, <2>3 DEF DecisionOK, Row
  <2>6. \A m \in Nos : DecisionOK(m)'
    BY <2>4, <2>5 DEF IInv, DecisionOK
  <2>7. channels'[n].gen = channels[n].gen
    BY <2>3 DEF Row
  <2>8. ASSUME NEW x \in Procs, NEW m \in Nos PROVE LateOK(x, m)'
    <3>1. CASE m = n
      BY <2>1, <2>3, <2>7, <3>1 DEF LateOK, Overtaken
    <3>2. CASE m # n
      BY <2>1, <2>3, <2>4, <3>2 DEF IInv, LateOK
    <3> QED BY <3>1, <3>2
  <2> QED BY <2>6, <2>8 DEF DecisionsOK
<1>4. ASSUME NEW n \in Nos, DeleteChannel(n) PROVE DecisionsOK'
  <2>1. decision'[n] = None /\ UNCHANGED <<reqs, late>>
    BY <1>4 DEF DeleteChannel, IInv, TypeOK
  <2>2. \A m \in Nos \ {n} : channels'[m] = channels[m] /\ decision'[m] = decision[m]
    BY <1>4 DEF DeleteChannel, IInv, TypeOK
  <2> QED BY <2>1, <2>2 DEF IInv, DecisionsOK, DecisionOK, LateOK
<1>5. CASE DeleteRecorder
  BY <1>5 DEF DeleteRecorder, DecisionsOK, DecisionOK, LateOK
<1>6. CASE Rest
  BY <1>1, <1>6 DEF Rest
<1> QED BY <1>1, <1>2, <1>3, <1>4, <1>5, <1>6 DEF Next

---------------------------------------------------------------------------
(* Theorems. *)

\* Every behaviour keeps the inductive invariant.
THEOREM Inductive == Spec => []IInv
<1>1. IInv /\ [Next]_vars => IInv'
  <2> SUFFICES ASSUME IInv, [Next]_vars PROVE IInv'
    OBVIOUS
  <2>1. TypeOK'
    BY TypeStep DEF IInv
  <2>2. \A p \in Procs : RequestOK(p)'
    BY RequestStep DEF IInv
  <2>3. CountExact' /\ \A n \in Nos : ActiveOK(n)'
    BY <2>1, CountStep
  <2>4. DecisionsOK'
    BY DecisionStep
  <2> QED BY <2>1, <2>2, <2>3, <2>4 DEF IInv, DecisionsOK
<1> QED BY <1>1, InitInv, PTL DEF Spec

\* The tables and the requests have their types, whatever runs at a time.
THEOREM ChannelTypes == Spec => []TypeOK
<1>1. IInv => TypeOK
  BY DEF IInv
<1> QED BY <1>1, Inductive, PTL

\* effective_channel_count is the number of active channels in every state.
THEOREM RecorderCounts == Spec => []CountExact
<1>1. IInv => CountExact
  BY DEF IInv
<1> QED BY <1>1, Inductive, PTL

\* A confirmation holds through scans, probes, captures and every recognition
\* that did not start before it.
THEOREM DecisionsHold == Spec => []DecisionHonoured
<1>1. IInv => DecisionHonoured
  <2> SUFFICES ASSUME IInv, NEW n \in Nos, decision[n] # None
               PROVE  LET r == channels[n]
                          d == decision[n] IN
                      /\ r # Missing /\ r.gen = d.gen
                      /\ r.type = d.type /\ r.num = d.num /\ r.area = d.area
                      /\ r.active => r.status = d.status
    BY DEF DecisionHonoured
  <2>1. DecisionOK(n)
    BY DEF IInv
  <2> QED BY <2>1 DEF DecisionOK
<1> QED BY <1>1, Inductive, PTL

---------------------------------------------------------------------------
(* References between the tables. *)

\* A confirmation writes an area row that is there afterwards.
LEMMA ConfirmArea ==
    ASSUME IInv, NEW p \in Procs, ConfirmCommit(p)
    PROVE  LET a == IF reqs[p].area = None THEN lastArea + 1 ELSE reqs[p].area IN
           /\ a \in AreaIds /\ areas'[a] # Missing
           /\ \A b \in AreaIds \ {a} : areas'[b] = areas[b]
<1> DEFINE q == reqs[p]
           a == IF q.area = None THEN lastArea + 1 ELSE q.area
<1>0. TypeOK /\ q \in Requests
  BY DEF IInv, TypeOK
<1>1. a \in AreaIds
  BY <1>0 DEF ConfirmCommit, Requests
<1>2. CASE q.area = None
  <2>1. areas' = [areas EXCEPT ![a] = Area(q.type, q.num, "video_channel")]
    BY <1>2 DEF ConfirmCommit
  <2>2. Area(q.type, q.num, "video_channel") \in AreaRows
    BY <1>0 DEF Area, AreaRows, Requests, Sources
  <2> HIDE DEF a
  <2> QED BY <1>0, <1>1, <2>1, <2>2, ChannelAssumption DEF TypeOK, a
<1>3. CASE q.area # None
  <2>1. areas[a] # Missing
    BY <1>3 DEF ConfirmCommit
  <2>2. areas[a] \in AreaRows
    BY <1>0, <1>1, <2>1 DEF TypeOK
  <2>3. Area(areas[a].type, areas[a].num, "multiple") \in AreaRows
    BY <2>2 DEF Area, AreaRows, Sources
  <2>4. areas' = [areas EXCEPT ![a] = IF q.source \in {"video_channel", "multiple"} THEN areas[a]
                                      ELSE Area(areas[a].type, areas[a].num, "multiple")]
    BY <1>3 DEF ConfirmCommit
  <2>5. areas'[a] \in AreaRows /\ \A b \in AreaIds \ {a} : areas'[b] = areas[b]
    <3> HIDE DEF a
    <3> QED BY <1>0, <1>1, <2>2, <2>3, <2>4 DEF TypeOK
  <2> QED BY <1>1, <2>5, ChannelAssumption
<1> QED BY <1>2, <1>3

\* A design plan's area row is there after its commit.
LEMMA DesignArea ==
    ASSUME IInv, NEW p \in Procs, SaveDesignCommit(p)
    PROVE  LET a == IF reqs[p].area = None THEN lastArea + 1 ELSE reqs[p].area IN
           /\ a \in AreaIds /\ areas'[a] # Missing
           /\ \A b \in AreaIds \ {a} : areas'[b] = areas[b]
           /\ noted' \in {noted, noted \cup {a}}
<1> DEFINE q == reqs[p]
           a == IF q.area = None THEN lastArea + 1 ELSE q.area
           b == UpdateDesignAreaSource(q, areas[a])
<1>0. TypeOK /\ q \in Requests /\ RequestOK(p)
  BY DEF IInv, TypeOK
<1>1. a \in AreaIds /\ noted' \in {noted, noted \cup {a}}
  BY DEF SaveDesignCommit, UpsertDesignAnnotation
<1>2. areas' = [areas EXCEPT ![a] = b]
  BY DEF SaveDesignCommit
<1>3. q.type # None => Area(q.type, q.num, q.source) \in AreaRows
  BY <1>0 DEF SaveDesignCommit, RequestOK, Requests, Area, AreaRows
<1>4. q.type = None => areas[a] \in AreaRows
  BY <1>0, <1>1 DEF SaveDesignCommit, RequestOK, TypeOK
<1>5. q.type = None /\ q.source # None => Area(areas[a].type, areas[a].num, q.source) \in AreaRows
  <2> HIDE DEF a
  <2> QED BY <1>0, <1>4 DEF Requests, Area, AreaRows
<1>6. b \in AreaRows
  BY <1>3, <1>4, <1>5 DEF UpdateDesignAreaSource
<1>7. areas'[a] = b /\ \A c \in AreaIds \ {a} : areas'[c] = areas[c]
  <2> HIDE DEF a, b
  <2> QED BY <1>0, <1>1, <1>2 DEF TypeOK
<1> HIDE DEF b
<1>8. areas'[a] # Missing
  BY <1>6, <1>7, ChannelAssumption
<1> QED BY <1>1, <1>7, <1>8

\* The recorder row that a count writes is a row.
LEMMA CountedPresent == ASSUME NEW chs PROVE Counted(chs) # Missing
BY CountedType, ChannelAssumption

\* The foreign keys and the sweep of unused areas keep every reference alive.
LEMMA LiveStep == ASSUME IInv, ReferencesLive, [Next]_vars PROVE ReferencesLive'
<1>0. TypeOK /\ \A p \in Procs : RequestOK(p)
  BY DEF IInv
<1> DEFINE RowLive(n) == channels[n] # Missing =>
               /\ recorder # Missing
               /\ channels[n].area # None => areas[channels[n].area] # Missing
<1>1. /\ \A n \in Nos : RowLive(n)
      /\ \A a \in noted : areas[a] # Missing
  BY DEF ReferencesLive, Present
<1>2. (\A n \in Nos : RowLive(n)') /\ (\A a \in noted' : areas'[a] # Missing)
      => ReferencesLive'
  BY DEF ReferencesLive, Present
<1>3. CASE UNCHANGED rows
  BY <1>3 DEF ReferencesLive, Present, rows
<1>4. ASSUME UNCHANGED <<areas, noted>>, recorder' # Missing,
             \A n \in Nos : \/ channels'[n] = Missing
                            \/ channels'[n].area = None
                            \/ channels[n] # Missing /\ channels'[n].area = channels[n].area
      PROVE  ReferencesLive'
  BY <1>1, <1>2, <1>4
<1>5. ASSUME NEW p \in Procs, Step(p) PROVE ReferencesLive'
  <2>1. ASSUME NEW n \in Nos
        PROVE  /\ \/ Found(n).area = None
                  \/ channels[n] # Missing /\ Found(n).area = channels[n].area
               /\ \/ Lost(n) = Missing
                  \/ channels[n] # Missing /\ Lost(n).area = channels[n].area
    <3>1. channels[n] = Missing => Found(n).area = None
      BY DEF Found, Row
    <3> QED BY <1>0, <3>1, FoundRow, LostRow
  <2>2. ASSUME NEW S \in SUBSET Nos, ReplaceRecorderChannels(p, S) PROVE ReferencesLive'
    <3>1. UNCHANGED <<areas, noted>> /\ recorder' # Missing
      BY <2>2, CountedPresent DEF ReplaceRecorderChannels
    <3>2. \A n \in Nos : channels'[n] = Found(n) \/ channels'[n] = Lost(n)
      BY <2>2 DEF ReplaceRecorderChannels
    <3> QED BY <1>4, <2>1, <3>1, <3>2
  <2>3. CASE UpsertRecorderChannel(p)
    <3>1. UNCHANGED <<areas, noted>> /\ recorder' # Missing
      BY <2>3, CountedPresent DEF UpsertRecorderChannel
    <3>2. \A n \in Nos : channels'[n] = Found(n) \/ channels'[n] = channels[n]
      BY <1>0, <2>3 DEF UpsertRecorderChannel, TypeOK
    <3> QED BY <1>4, <2>1, <3>1, <3>2
  <2>4. ASSUME NEW n \in Nos, channels[n] # Missing, NEW g, NEW c, NEW st, NEW t, NEW k, NEW f,
               channels' = [channels EXCEPT ![n] = Row(g, c, st, t, k, channels[n].area, f)],
               UNCHANGED <<recorder, areas, noted>>
        PROVE  ReferencesLive'
    <3>1. recorder # Missing
      BY <1>1, <2>4
    <3>2. channels'[n].area = channels[n].area
      BY <1>0, <2>4 DEF TypeOK, Row
    <3>3. \A m \in Nos \ {n} : channels'[m] = channels[m]
      BY <1>0, <2>4 DEF TypeOK
    <3> QED BY <1>4, <2>4, <3>1, <3>2, <3>3
  <2>5. ASSUME NEW st, NEW t, NEW k, SaveChannelSnapshot(p, st, t, k) PROVE ReferencesLive'
    BY <1>0, <2>4, <2>5 DEF SaveChannelSnapshot, Addressed, RequestOK
  <2>6. CASE UnlockCommit(p)
    BY <1>0, <2>4, <2>6 DEF UnlockCommit, Addressed, RequestOK
  <2>7. CASE ConfirmCommit(p)
    <3> DEFINE n == reqs[p].no
               a == IF reqs[p].area = None THEN lastArea + 1 ELSE reqs[p].area
    <3>1. /\ a \in AreaIds /\ areas'[a] # Missing
          /\ \A b \in AreaIds \ {a} : areas'[b] = areas[b]
      BY <2>7, ConfirmArea
    <3>2. n \in Nos /\ UNCHANGED <<recorder, noted>>
      BY <1>0, <2>7 DEF ConfirmCommit, RequestOK
    <3>3. \A b \in noted' : areas'[b] # Missing
      <4> HIDE DEF a
      <4> QED BY <1>0, <1>1, <3>1, <3>2 DEF TypeOK
    <3>4. \A b \in AreaIds : areas[b] # Missing => areas'[b] # Missing
      <4> HIDE DEF a
      <4> QED BY <3>1
    <3>5. \A m \in Nos : channels[m] # Missing => channels[m].area \in AreaIds \cup {None}
      BY <1>0 DEF TypeOK, ChannelRows
    <3>6. CASE Addressed(p)
      <4>1. channels[n] # Missing
        BY <3>6 DEF Addressed
      <4>2. channels'[n].area = a
        BY <1>0, <2>7, <3>2, <3>6 DEF ConfirmCommit, TypeOK, Row
      <4>3. \A m \in Nos \ {n} : channels'[m] = channels[m]
        BY <1>0, <2>7, <3>6 DEF ConfirmCommit, TypeOK
      <4> HIDE DEF a, n
      <4>4. \A m \in Nos : RowLive(m)'
        BY <1>1, <3>1, <3>2, <3>4, <3>5, <4>1, <4>2, <4>3
      <4> QED BY <1>2, <3>3, <4>4
    <3>7. CASE ~Addressed(p)
      <4>1. UNCHANGED channels
        BY <2>7, <3>7 DEF ConfirmCommit
      <4>2. \A m \in Nos : RowLive(m)'
        BY <1>1, <3>2, <3>4, <3>5, <4>1
      <4> QED BY <1>2, <3>3, <4>2
    <3> QED BY <3>6, <3>7
  <2>8. CASE SaveDesignCommit(p)
    <3> DEFINE a == IF reqs[p].area = None THEN lastArea + 1 ELSE reqs[p].area
    <3>1. /\ a \in AreaIds /\ areas'[a] # Missing
          /\ \A b \in AreaIds \ {a} : areas'[b] = areas[b]
          /\ noted' \in {noted, noted \cup {a}}
      BY <2>8, DesignArea
    <3>2. UNCHANGED <<recorder, channels>>
      BY <2>8 DEF SaveDesignCommit
    <3> HIDE DEF a
    <3>3. \A b \in noted' : areas'[b] # Missing
      BY <1>0, <1>1, <3>1 DEF TypeOK
    <3>4. \A b \in AreaIds : areas[b] # Missing => areas'[b] # Missing
      BY <3>1
    <3>5. \A m \in Nos : channels[m] # Missing => channels[m].area \in AreaIds \cup {None}
      BY <1>0 DEF TypeOK, ChannelRows
    <3>6. \A m \in Nos : RowLive(m)'
      BY <1>1, <3>2, <3>4, <3>5
    <3> QED BY <1>2, <3>3, <3>6
  <2>9. CASE \/ ScanRecorderChannels(p) \/ RecognizeRecorderChannels(p)
             \/ SaveSnapshotOnly(p) \/ Fail(p)
             \/ \E i \in (1..lastArea) \cup {None}, l \in Labels : SaveDesignPlan(p, i, l)
             \/ \E n \in Nos : \/ ProbeRecognizeChannel(p, n)
                               \/ RecognizeChannel(p, n)
                               \/ RefreshChannelSnapshot(p, n)
                               \/ UnlockChannelForEdit(p, n)
                               \/ \E l \in Labels : ConfirmChannel(p, n, l)
    <3>1. UNCHANGED rows
      BY <2>9 DEF ScanRecorderChannels, RecognizeRecorderChannels, SaveSnapshotOnly, Fail,
         SaveDesignPlan, ProbeRecognizeChannel, RecognizeChannel, RefreshChannelSnapshot,
         UnlockChannelForEdit, ConfirmChannel
    <3> QED BY <1>3, <3>1
  <2> QED BY <1>5, <2>2, <2>3, <2>5, <2>6, <2>7, <2>8, <2>9
          DEF Step, ApplyRecognition, RecognitionFails
<1>6. ASSUME NEW n \in Nos, ConfirmNonBusinessChannel(n) PROVE ReferencesLive'
  <2>1. UNCHANGED <<areas, noted>> /\ recorder' # Missing
    BY <1>1, <1>6 DEF ConfirmNonBusinessChannel
  <2>2. channels'[n].area = None /\ \A m \in Nos \ {n} : channels'[m] = channels[m]
    BY <1>0, <1>6 DEF ConfirmNonBusinessChannel, TypeOK, Row
  <2> QED BY <1>4, <2>1, <2>2
<1>7. ASSUME NEW n \in Nos, DeleteChannel(n) PROVE ReferencesLive'
  <2>1. channels' = [channels EXCEPT ![n] = Missing] /\ recorder' # Missing /\ UNCHANGED noted
    BY <1>7, CountedPresent DEF DeleteChannel
  <2>2. ASSUME NEW a \in AreaIds, areas[a] # Missing, a \in noted \cup Used(channels')
        PROVE  areas'[a] # Missing
    BY <1>7, <2>2 DEF DeleteChannel, DeleteUnusedVideoAreas
  <2>3. \A a \in noted' : areas'[a] # Missing
    BY <1>0, <1>1, <2>1, <2>2 DEF TypeOK
  <2>4. ASSUME NEW m \in Nos PROVE RowLive(m)'
    <3>1. CASE channels'[m] = Missing
      BY <3>1
    <3>2. CASE channels'[m] # Missing
      <4>1. channels'[m] = channels[m] /\ channels[m] # Missing
        BY <1>0, <2>1, <3>2 DEF TypeOK
      <4>2. channels'[m].area \in Used(channels')
        BY <3>2 DEF Used
      <4>3. channels[m].area \in AreaIds \cup {None}
        BY <1>0, <4>1 DEF TypeOK, ChannelRows
      <4> QED BY <1>1, <2>1, <2>2, <4>1, <4>2, <4>3
    <3> QED BY <3>1, <3>2
  <2> QED BY <1>2, <2>3, <2>4
<1>8. CASE DeleteRecorder
  <2>1. UNCHANGED <<areas, noted>> /\ \A n \in Nos : channels'[n] = Missing
    BY <1>8 DEF DeleteRecorder
  <2> QED BY <1>1, <1>2, <2>1
<1>9. CASE Rest \/ UNCHANGED vars
  BY <1>3, <1>9 DEF Rest, vars, rows
<1> QED BY <1>5, <1>6, <1>7, <1>8, <1>9 DEF Next

\* No row and no annotation refers to an area that is gone, and no channel outlives
\* its recorder, however confirmations, design plans and deletions interleave.
THEOREM ReferencesHold == Spec => []ReferencesLive
<1>1. Init => ReferencesLive
  BY DEF Init, ReferencesLive, Present
<1>2. IInv /\ ReferencesLive /\ [Next]_vars => ReferencesLive'
  BY LiveStep
<1> QED BY <1>1, <1>2, Inductive, PTL DEF Spec

---------------------------------------------------------------------------
(* Who may change what a channel shows. *)

\* The two rows show the same: type, number, area and confirmation.
SameMapping(r, s) ==
    r.type = s.type /\ r.num = s.num /\ r.area = s.area /\ r.confirmed = s.confirmed

\* One of the permitted reasons for a change of row n.
OnPurpose(n) ==
    \/ channels'[n].status = "confirmed_non_business" /\ channels'[n].confirmed
    \/ \E p \in Procs : /\ reqs[p].no = n /\ reqs[p].gen = channels[n].gen
                        /\ reqs[p].op \in {"recognize", "confirm", "unlock"}
                        /\ reqs'[p] = Idle

\* What a step does to one row that is there before and after it.
LEMMA MappingStep ==
    ASSUME IInv, [Next]_vars, NEW n \in Nos, channels[n] # Missing, channels'[n] # Missing
    PROVE  SameMapping(channels[n], channels'[n]) \/ OnPurpose(n)
<1>0. TypeOK /\ \A p \in Procs : RequestOK(p)
  BY DEF IInv
<1>1. CASE channels'[n] = channels[n]
  BY <1>1 DEF SameMapping
<1>2. CASE channels'[n] = Found(n) \/ channels'[n] = Lost(n)
  BY <1>0, <1>2, FoundRow, LostRow DEF SameMapping
<1>3. ASSUME NEW p \in Procs, Addressed(p), reqs[p].op \in {"recognize", "confirm", "unlock"},
             Finish(p), channels'[reqs[p].no] # channels[reqs[p].no],
             \A m \in Nos \ {reqs[p].no} : channels'[m] = channels[m]
      PROVE  channels'[n] = channels[n] \/ OnPurpose(n)
  <2>1. reqs'[p] = Idle
    BY <1>0, <1>3 DEF Finish, TypeOK
  <2> QED BY <1>3, <2>1 DEF OnPurpose, Addressed
<1>4. ASSUME NEW p \in Procs, Step(p)
      PROVE  SameMapping(channels[n], channels'[n]) \/ OnPurpose(n)
  <2>1. ASSUME NEW S \in SUBSET Nos, ReplaceRecorderChannels(p, S)
        PROVE  channels'[n] = Found(n) \/ channels'[n] = Lost(n)
    BY <2>1 DEF ReplaceRecorderChannels
  <2>2. CASE UpsertRecorderChannel(p)
    BY <1>0, <1>1, <1>2, <2>2 DEF UpsertRecorderChannel, TypeOK
  <2>3. ASSUME NEW st, NEW t, NEW k, SaveChannelSnapshot(p, st, t, k)
        PROVE  SameMapping(channels[n], channels'[n]) \/ OnPurpose(n)
    <3>1. \A m \in Nos \ {reqs[p].no} : channels'[m] = channels[m]
      BY <1>0, <2>3 DEF SaveChannelSnapshot, TypeOK
    <3>2. Addressed(p) /\ reqs[p].op = "recognize" /\ Finish(p) /\ reqs[p].no \in Nos
      BY <1>0, <2>3 DEF SaveChannelSnapshot, RequestOK
    <3> QED BY <1>1, <1>3, <3>1, <3>2
  <2>4. CASE UnlockCommit(p)
    <3>1. \A m \in Nos \ {reqs[p].no} : channels'[m] = channels[m]
      BY <1>0, <2>4 DEF UnlockCommit, TypeOK
    <3>2. Addressed(p) /\ reqs[p].op = "unlock" /\ Finish(p) /\ reqs[p].no \in Nos
      BY <1>0, <2>4 DEF UnlockCommit, RequestOK
    <3> QED BY <1>1, <1>3, <3>1, <3>2
  <2>5. CASE ConfirmCommit(p)
    <3>1. CASE Addressed(p)
      <4>1. \A m \in Nos \ {reqs[p].no} : channels'[m] = channels[m]
        BY <1>0, <2>5, <3>1 DEF ConfirmCommit, TypeOK
      <4>2. reqs[p].op = "confirm" /\ Finish(p) /\ reqs[p].no \in Nos
        BY <1>0, <2>5 DEF ConfirmCommit, RequestOK
      <4> QED BY <1>1, <1>3, <3>1, <4>1, <4>2
    <3>2. CASE ~Addressed(p)
      BY <1>1, <2>5, <3>2 DEF ConfirmCommit
    <3> QED BY <3>1, <3>2
  <2>6. CASE \/ ScanRecorderChannels(p) \/ RecognizeRecorderChannels(p)
             \/ SaveSnapshotOnly(p) \/ Fail(p) \/ SaveDesignCommit(p)
             \/ \E i \in (1..lastArea) \cup {None}, l \in Labels : SaveDesignPlan(p, i, l)
             \/ \E m \in Nos : \/ ProbeRecognizeChannel(p, m)
                               \/ RecognizeChannel(p, m)
                               \/ RefreshChannelSnapshot(p, m)
                               \/ UnlockChannelForEdit(p, m)
                               \/ \E l \in Labels : ConfirmChannel(p, m, l)
    <3>1. UNCHANGED channels
      BY <2>6 DEF ScanRecorderChannels, RecognizeRecorderChannels, SaveSnapshotOnly, Fail,
         SaveDesignPlan, ProbeRecognizeChannel, RecognizeChannel, RefreshChannelSnapshot,
         UnlockChannelForEdit, ConfirmChannel, SaveDesignCommit, rows
    <3> QED BY <1>1, <3>1
  <2> QED BY <1>2, <1>4, <2>1, <2>2, <2>3, <2>4, <2>5, <2>6
          DEF Step, ApplyRecognition, RecognitionFails
<1>5. ASSUME NEW m \in Nos, ConfirmNonBusinessChannel(m)
      PROVE  SameMapping(channels[n], channels'[n]) \/ OnPurpose(n)
  <2>1. CASE m = n
    BY <1>0, <1>5, <2>1 DEF ConfirmNonBusinessChannel, TypeOK, Row, OnPurpose
  <2>2. CASE m # n
    BY <1>0, <1>1, <1>5, <2>2 DEF ConfirmNonBusinessChannel, TypeOK
  <2> QED BY <2>1, <2>2
<1>6. ASSUME NEW m \in Nos, DeleteChannel(m) PROVE channels'[n] = channels[n]
  BY <1>0, <1>6 DEF DeleteChannel, TypeOK
<1>7. CASE DeleteRecorder
  BY <1>7 DEF DeleteRecorder
<1>8. CASE Rest \/ UNCHANGED vars
  BY <1>1, <1>8 DEF Rest, vars
<1> QED BY <1>1, <1>4, <1>5, <1>6, <1>7, <1>8 DEF Next

\* What a channel shows changes only by a request that was begun on this very row:
\* scans, probes and late requests for a deleted row leave it alone.
THEOREM MappingPurposeful == Spec => MappingChangesOnPurpose
<1> DEFINE A == \A n \in Nos :
        LET r == channels[n]
            s == channels'[n] IN
        /\ r # Missing /\ s # Missing
        /\ <<r.type, r.num, r.area, r.confirmed>> #
           <<s.type, s.num, s.area, s.confirmed>>
        => \/ s.status = "confirmed_non_business" /\ s.confirmed
           \/ \E p \in Procs : /\ reqs[p].no = n /\ reqs[p].gen = r.gen
                               /\ reqs[p].op \in {"recognize", "confirm", "unlock"}
                               /\ reqs'[p] = Idle
<1>1. IInv /\ [Next]_vars => [A]_vars
  BY MappingStep DEF SameMapping, OnPurpose
<1> QED BY Inductive, <1>1, PTL DEF Spec, MappingChangesOnPurpose

---------------------------------------------------------------------------
(* What the pages show of the channels. *)

\* The store list, which asks for is_active alone, and the monitor, which asks for
\* a positive number as well, count what the recorder's row stores, although
\* recognitions and unlocks of lost channels rewrite the status of inactive rows;
\* no store is fully confirmed while a channel is left to recognise.
THEOREM CountsShownAgree == Spec => []CountsAgree
<1>1. IInv => CountsAgree
  <2> SUFFICES ASSUME IInv, recorder # Missing
               PROVE  /\ ChannelCount = recorder.count
                      /\ AvailableChannelCount({"own"}, TRUE) = recorder.count
                      /\ FullyConfirmed <=> recorder.count > 0 /\ \A n \in Nos : ~Recognizable(n)
    BY DEF CountsAgree
  <2>1. recorder.count = Cardinality(ActiveNos(channels))
    BY DEF IInv, CountExact, Counted, ActiveCount
  <2>2. \A n \in Nos : channels[n] # Missing /\ channels[n].active => channels[n].status # "inactive"
    BY DEF IInv, ActiveOK
  <2>3. {n \in Present : channels[n].active} = ActiveNos(channels)
    BY <2>2 DEF Present, ActiveNos
  <2>4. {c \in OfOrg({"own"}) : KeysOf(c, TRUE)} = ActiveNos(channels)
    <3>1. \A n \in Nos : n > 0
      <4>1. \A n \in Nos : n \in Nat
        BY ChannelAssumption, Zenon
      <4>2. \A n \in Nos : n # 0
        BY ViewsAssumption, Zenon
      <4> QED BY <4>1, <4>2
    <3>2. \A n \in Nos : n \in MonitorChannelQuery <=> n \in ActiveNos(channels)
      <4>1. \A n \in Nos : n \in Ids /\ RowOf(n) = channels[n] /\ NoOf(n) = n
        BY DEF Ids, RowOf, NoOf
      <4> QED BY <4>1, <2>2, <3>1 DEF MonitorChannelQuery, ActiveNos
    <3>3. \A c \in OfOrg({"own"}) : c \in Nos
      BY DEF OfOrg, StoreOf
    <3> QED BY <3>2, <3>3 DEF OfOrg, StoreOf, KeysOf, ActiveNos
  <2>5. ChannelCount = recorder.count /\ AvailableChannelCount({"own"}, TRUE) = recorder.count
    BY <2>1, <2>3, <2>4 DEF ChannelCount, AvailableChannelCount
  <2>6. (\A n \in Present : channels[n].active => Confirmed(channels[n].status))
        <=> \A n \in Nos : ~Recognizable(n)
    BY <2>2 DEF Present, Recognizable, Usable
  <2> QED BY <2>5, <2>6 DEF FullyConfirmed
<1> QED BY <1>1, Inductive, PTL

\* The loop of FlattenSeq, when it has seen the first n sequences.
Joining(f, ss, n) == f = [i \in 1..n |-> IF i = 1 THEN ss[i] ELSE f[i - 1] \o ss[i]]

LEMMA JoiningAt ==
    ASSUME NEW f, NEW ss, NEW n \in Nat, Joining(f, ss, n), NEW i \in 1..n
    PROVE  f[i] = IF i = 1 THEN ss[i] ELSE f[i - 1] \o ss[i]
<1> DEFINE h == [j \in 1..n |-> IF j = 1 THEN ss[j] ELSE f[j - 1] \o ss[j]]
<1>1. h[i] = IF i = 1 THEN ss[i] ELSE f[i - 1] \o ss[i]
  OBVIOUS
<1>2. f = h
  BY DEF Joining
<1> HIDE DEF h
<1> QED BY <1>1, <1>2

LEMMA JoiningExists ==
    ASSUME NEW ss, NEW n \in Nat
    PROVE  \E f : Joining(f, ss, n)
<1> DEFINE S == {m \in 0..n : \E f : Joining(f, ss, m)}
<1>1. 0 \in S
  <2> DEFINE f == [i \in 1..0 |-> << >>]
  <2>1. Joining(f, ss, 0)
    BY DEF Joining
  <2> QED BY <2>1
<1>2. ASSUME NEW m \in 0..(n - 1), m \in S PROVE m + 1 \in S
  <2>1. PICK f : Joining(f, ss, m)
    BY <1>2
  <2> DEFINE g == [i \in 1..(m + 1) |-> IF i <= m THEN f[i]
                                        ELSE IF i = 1 THEN ss[i] ELSE f[m] \o ss[i]]
  <2>2. Joining(g, ss, m + 1)
    <3> SUFFICES ASSUME NEW i \in 1..(m + 1)
                 PROVE  g[i] = IF i = 1 THEN ss[i] ELSE g[i - 1] \o ss[i]
      BY DEF Joining
    <3>1. CASE i <= m
      <4>1. f[i] = IF i = 1 THEN ss[i] ELSE f[i - 1] \o ss[i]
        BY <2>1, <3>1, JoiningAt
      <4>2. g[i] = f[i] /\ (i # 1 => g[i - 1] = f[i - 1])
        BY <3>1
      <4> QED BY <4>1, <4>2
    <3>2. CASE i = m + 1
      <4>1. i # 1 => g[i - 1] = f[m]
        BY <3>2
      <4> QED BY <4>1, <3>2
    <3> QED BY <3>1, <3>2
  <2> QED BY <2>2
<1>3. \A i \in 0..n : i \in S
  <2> HIDE DEF S
  <2> QED BY <1>1, <1>2, SetInduction
<1> QED BY <1>3

\* x holds every element of T once.
Lists(x, T) ==
    /\ x \in Seq(T) /\ IsFiniteSet(T) /\ Len(x) = Cardinality(T)
    /\ \A e \in T : \E k \in 1..Len(x) : x[k] = e

LEMMA ListsJoined ==
    ASSUME NEW x, NEW T, Lists(x, T), NEW y, NEW U, Lists(y, U), T \cap U = {}
    PROVE  Lists(x \o y, T \cup U)
<1>1. x \in Seq(T \cup U) /\ y \in Seq(T \cup U)
  BY DEF Lists
<1>2. x \o y \in Seq(T \cup U) /\ Len(x \o y) = Len(x) + Len(y)
  BY <1>1
<1>3. IsFiniteSet(T \cup U) /\ Cardinality(T \cup U) = Cardinality(T) + Cardinality(U)
  <2>1. Cardinality(T \cap U) = 0 /\ Cardinality(T) \in Nat /\ Cardinality(U) \in Nat
    BY FS_EmptySet, FS_CardinalityType DEF Lists
  <2>2. /\ IsFiniteSet(T \cup U)
        /\ Cardinality(T \cup U) = Cardinality(T) + Cardinality(U) - Cardinality(T \cap U)
    BY FS_Union DEF Lists
  <2> QED BY <2>1, <2>2
<1>4. ASSUME NEW e \in T \cup U PROVE \E k \in 1..Len(x \o y) : (x \o y)[k] = e
  <2>1. CASE e \in T
    <3>1. PICK k \in 1..Len(x) : x[k] = e
      BY <2>1 DEF Lists
    <3>2. k \in 1..Len(x \o y) /\ (x \o y)[k] = x[k]
      BY <1>1, <1>2
    <3> QED BY <3>1, <3>2
  <2>2. CASE e \in U
    <3>1. PICK k \in 1..Len(y) : y[k] = e
      BY <2>2 DEF Lists
    <3>2. Len(x) + k \in 1..Len(x \o y) /\ (x \o y)[Len(x) + k] = y[k]
      BY <1>1, <1>2
    <3> QED BY <3>1, <3>2
  <2> QED BY <2>1, <2>2
<1> QED BY <1>2, <1>3, <1>4 DEF Lists

\* Sequences of different elements, put together, give every element once.
LEMMA FlattenLists ==
    ASSUME NEW ss, Len(ss) \in Nat, Len(ss) = 0 => ss = << >>, NEW A,
           \A i \in 1..Len(ss) : Lists(ss[i], A[i]),
           \A i, j \in 1..Len(ss) : i # j => A[i] \cap A[j] = {}
    PROVE  Lists(FlattenSeq(ss), UNION {A[j] : j \in 1..Len(ss)})
<1> DEFINE n == Len(ss)
           U(i) == UNION {A[j] : j \in 1..i}
<1>1. CASE n = 0
  <2>1. FlattenSeq(ss) = << >>
    BY <1>1 DEF FlattenSeq
  <2>2. U(n) = {}
    BY <1>1
  <2>3. Lists(<< >>, {})
    BY FS_EmptySet DEF Lists
  <2> QED BY <2>1, <2>2, <2>3
<1>2. CASE n # 0
  <2> DEFINE f == CHOOSE f : Joining(f, ss, n)
  <2>1. Joining(f, ss, n)
    BY JoiningExists
  <2>2. FlattenSeq(ss) = f[n]
    BY <1>2 DEF FlattenSeq, Joining
  <2> HIDE DEF f
  <2> DEFINE G == {k \in 0..(n - 1) : Lists(f[k + 1], U(k + 1))}
  <2>3. 0 \in G
    <3>1. f[1] = ss[1] /\ U(1) = A[1]
      BY <1>2, <2>1, JoiningAt
    <3>2. 0 + 1 = 1 /\ 0 \in 0..(n - 1) /\ 1 \in 1..n
      BY <1>2
    <3>3. Lists(f[0 + 1], U(0 + 1))
      <4>1. Lists(ss[1], A[1])
        BY <3>2
      <4> HIDE DEF U
      <4> QED BY <3>1, <3>2, <4>1, Zenon
    <3> QED BY <3>2, <3>3
  <2>4. ASSUME NEW k \in 0..((n - 1) - 1), k \in G PROVE k + 1 \in G
    <3>1. k + 1 \in 1..n /\ k + 2 \in 1..n /\ k + 1 \in 0..(n - 1) /\ (k + 1) + 1 = k + 2
      OBVIOUS
    <3>2. f[k + 2] = f[k + 1] \o ss[k + 2]
      <4>1. f[k + 2] = IF k + 2 = 1 THEN ss[k + 2] ELSE f[(k + 2) - 1] \o ss[k + 2]
        BY <3>1, <2>1, JoiningAt
      <4>2. k + 2 # 1 /\ (k + 2) - 1 = k + 1
        OBVIOUS
      <4> QED BY <4>1, <4>2
    <3>3. U(k + 2) = U(k + 1) \cup A[k + 2] /\ U(k + 1) \cap A[k + 2] = {}
      <4>1. 1..(k + 2) = 1..(k + 1) \cup {k + 2}
        OBVIOUS
      <4>2. \A j \in 1..(k + 1) : j \in 1..n /\ j # k + 2
        OBVIOUS
      <4> QED BY <3>1, <4>1, <4>2
    <3>4. Lists(f[k + 1], U(k + 1)) /\ Lists(ss[k + 2], A[k + 2])
      BY <2>4, <3>1
    <3>5. Lists(f[k + 2], U(k + 2))
      <4> HIDE DEF U
      <4> QED BY <3>2, <3>3, <3>4, ListsJoined
    <3> QED BY <3>1, <3>5
  <2>5. n - 1 \in G
    <3>1. n - 1 \in Nat /\ n - 1 \in 0..(n - 1)
      BY <1>2
    <3> HIDE DEF G
    <3> QED BY <2>3, <2>4, <3>1, SetInduction
  <2>6. Lists(f[n], U(n))
    <3>1. (n - 1) + 1 = n
      OBVIOUS
    <3> QED BY <2>5, <3>1
  <2> QED BY <2>2, <2>6
<1> QED BY <1>1, <1>2

LEMMA NumberTyped ==
    ASSUME IInv, NEW n \in Present
    PROVE  n \in Nat /\ n > 0 /\ Text[n] \in Nat /\ Number(n) \in Nat
<1>1. channels[n] \in ChannelRows
  BY DEF IInv, TypeOK, Present
<1>2. channels[n].num \in Nat \cup {None}
  BY <1>1, ViewsAssumption DEF ChannelRows
<1>3. n \in Nos /\ n \in Ids /\ RowOf(n) = channels[n]
  BY DEF Present, Ids, RowOf
<1> QED BY <1>2, <1>3, ChannelAssumption, ViewsAssumption DEF Number

\* The channels the monitor may show: those of the recorder and of the second store.
LEMMA IdsTyped ==
    ASSUME IInv, NEW c \in Present \cup Second
    PROVE  /\ c \in Ids /\ c \in Nat /\ NoOf(c) \in Nat /\ NoOf(c) > 0
           /\ Text[c] \in Nat /\ Number(c) \in Nat
<1>1. CASE c \in Present
  <2>1. NoOf(c) = c /\ c \in Ids
    BY <1>1 DEF Present, NoOf, Ids
  <2> QED BY <1>1, <2>1, NumberTyped
<1>2. CASE c \in Second
  <2>1. c \notin Nos /\ c \in Ids
    BY <1>2, ViewsAssumption DEF Ids
  <2>2. NoOf(c) = Neighbour[c].no /\ RowOf(c) = Neighbour[c]
    BY <2>1 DEF NoOf, RowOf
  <2> QED BY <1>2, <2>1, <2>2, ViewsAssumption DEF Number
<1> QED BY <1>1, <1>2

\* The orders of the pages leave no two channels in doubt.
LEMMA PageOrdered ==
    ASSUME IInv, NEW category, NEW T \in SUBSET (Present \cup Second)
    PROVE  Orders(PageOrder(category), T)
<1>1. \A c \in T : /\ c \in Ids /\ c \in Nat /\ NoOf(c) \in Nat
                   /\ Text[c] \in Nat /\ Number(c) \in Nat
  BY IdsTyped
<1>2. \A l, r \in T : <<l, r>> \in PageOrder(category) <=> Before(category, l, r)
  BY <1>1 DEF PageOrder
<1>3. \A l, r \in T : l # r => Before(category, l, r) \/ Before(category, r, l)
  BY <1>1 DEF Before
<1>4. \A l, r \in T : ~ (Before(category, l, r) /\ Before(category, r, l))
  BY <1>1 DEF Before
<1>5. \A l, m, r \in T : Before(category, l, m) /\ Before(category, m, r) => Before(category, l, r)
  BY <1>1 DEF Before
<1> QED BY <1>2, <1>3, <1>4, <1>5 DEF Orders

LEMMA NumbersOrdered ==
    ASSUME NEW T \in SUBSET Present
    PROVE  Orders({pair \in Nos \X Nos : pair[1] < pair[2]}, T)
<1>1. \A n \in T : n \in Nos /\ n \in Nat
  BY ChannelAssumption DEF Present
<1> QED BY <1>1 DEF Orders

LEMMA SheetOrdered ==
    ASSUME IInv, NEW T \in SUBSET Present
    PROVE  Orders(SheetOrder, T)
<1> DEFINE rank(n) == ChannelExportTypeRank(channels[n].type)
           text(n) == ChannelNumberOrNote(n)
<1>1. \A n \in T : n \in Nos /\ n \in Nat /\ rank(n) \in Nat
  BY NumberTyped DEF Present, ChannelExportTypeRank
<1>2. \A n \in T : text(n).kind \in Nat /\ text(n).value \in Nat
  BY NumberTyped DEF ChannelNumberOrNote
<1>3. \A l, r \in T : AheadInSheet(l, r) <=>
          IF rank(l) # rank(r) THEN rank(l) < rank(r)
          ELSE IF text(l).kind # text(r).kind THEN text(l).kind < text(r).kind
          ELSE IF text(l).value # text(r).value THEN text(l).value < text(r).value
          ELSE l < r
  <2> TAKE l, r \in T
  <2>1. AheadInSheet(l, r) <=>
          IF rank(l) # rank(r) THEN rank(l) < rank(r)
          ELSE IF CompareNumberOrText(text(l), text(r)) # 0
               THEN CompareNumberOrText(text(l), text(r)) < 0
          ELSE l < r
    BY Zenon DEF AheadInSheet
  <2> HIDE DEF rank, text
  <2>2. /\ text(l).kind \in Nat /\ text(r).kind \in Nat
        /\ text(l).value \in Nat /\ text(r).value \in Nat
    BY <1>2
  <2>3. /\ CompareNumberOrText(text(l), text(r)) # 0 <=>
               text(l).kind # text(r).kind \/ text(l).value # text(r).value
        /\ CompareNumberOrText(text(l), text(r)) < 0 <=>
               IF text(l).kind # text(r).kind THEN text(l).kind < text(r).kind
               ELSE text(l).value < text(r).value
    BY <2>2 DEF CompareNumberOrText
  <2> QED BY <2>1, <2>3, Zenon
<1>4. \A l, r \in T : <<l, r>> \in SheetOrder <=> AheadInSheet(l, r)
  BY <1>1 DEF SheetOrder
<1> HIDE DEF rank, text
<1>5. \A l, r \in T : l # r => AheadInSheet(l, r) \/ AheadInSheet(r, l)
  BY <1>1, <1>2, <1>3
<1>6. \A l, r \in T : ~ (AheadInSheet(l, r) /\ AheadInSheet(r, l))
  BY <1>1, <1>2, <1>3
<1>7. \A l, m, r \in T : AheadInSheet(l, m) /\ AheadInSheet(m, r) => AheadInSheet(l, r)
  BY <1>1, <1>2, <1>3
<1> QED BY <1>4, <1>5, <1>6, <1>7 DEF Orders

LEMMA PresentFinite ==
    ASSUME NEW T \in SUBSET Present
    PROVE  IsFiniteSet(T) /\ Cardinality(T) \in Nat
<1>1. T \subseteq Nos
  BY DEF Present
<1> QED BY <1>1, ChannelAssumption, FS_Subset, FS_CardinalityType

LEMMA SortedLists ==
    ASSUME NEW T, IsFiniteSet(T), NEW R, Orders(R, T)
    PROVE  Lists(Sorted(T, R), T)
<1>2. /\ Sorted(T, R) \in Seq(T) /\ Len(Sorted(T, R)) = Cardinality(T)
      /\ \A x : x \in T <=> \E i \in 1..Cardinality(T) : Sorted(T, R)[i] = x
  BY SortedElements
<1> QED BY <1>2 DEF Lists

LEMMA ListsAll ==
    ASSUME NEW x, NEW T, Lists(x, T)
    PROVE  ToSet(x) = T /\ Len(x) = Cardinality(T)
<1>1. DOMAIN x = 1..Len(x) /\ x \in Seq(T)
  BY DEF Lists
<1>2. \A i \in DOMAIN x : x[i] \in T
  BY <1>1
<1> QED BY <1>1, <1>2 DEF Lists, ToSet

\* The sheet has a row for each channel that the recorder's row counts, and every
\* list of channels says how many there are.
LEMMA SheetRows ==
    ASSUME IInv, recorder # Missing
    PROVE  /\ Len(ChannelMappingExportRows) = recorder.count
           /\ Exportable <=> recorder.online
<1> DEFINE T == {n \in Present : Usable(channels[n])}
<1>1. recorder = [online |-> Cardinality(ActiveNos(channels)) > 0,
                  count |-> Cardinality(ActiveNos(channels))]
  BY DEF IInv, CountExact, Counted, ActiveCount
<1>2. T = ActiveNos(channels) /\ T \in SUBSET Present
  BY DEF ActiveNos, Present, Usable
<1> HIDE DEF T
<1>3. /\ IsFiniteSet(T) /\ Cardinality(T) \in Nat
      /\ recorder.count = Cardinality(T) /\ (recorder.online <=> Cardinality(T) > 0)
  BY <1>1, <1>2, PresentFinite
<1>4. ToSet(ListRecorderChannels) = Present
  <2>1. Lists(ListRecorderChannels, Present)
    BY NumbersOrdered, PresentFinite, SortedLists DEF ListRecorderChannels
  <2> QED BY <2>1, ListsAll
<1>5. CASE recorder.online
  <2>1. ChannelMappingExportRows = Sorted(T, SheetOrder)
    BY <1>4, <1>5 DEF ChannelMappingExportRows, T
  <2>2. Lists(Sorted(T, SheetOrder), T)
    BY <1>2, <1>3, SheetOrdered, SortedLists
  <2>3. Len(Sorted(T, SheetOrder)) = Cardinality(T)
    BY <2>2, ListsAll
  <2>4. Cardinality(T) > 0
    BY <1>3, <1>5
  <2>5. Sorted(T, SheetOrder) # << >>
    BY <2>3, <2>4
  <2> QED BY <2>1, <2>3, <2>5, <1>3, <1>5 DEF Exportable
<1>6. CASE ~recorder.online
  <2>1. ChannelMappingExportRows = << >>
    BY <1>6 DEF ChannelMappingExportRows
  <2>2. Cardinality(T) = 0
    BY <1>3, <1>6
  <2> QED BY <2>1, <2>2, <1>3, <1>6 DEF Exportable
<1> QED BY <1>5, <1>6

\* Every page and the sheet agree with the recorder's row on how many channels there
\* are, through late recognitions and unlocks of lost channels, and a sheet is
\* refused exactly when the recorder counts as offline.
THEOREM ViewsHold == Spec => []ViewsAgree
<1>1. IInv /\ CountsAgree => ViewsAgree
  BY SheetRows DEF ViewsAgree
<1> QED BY <1>1, Inductive, CountsShownAgree, PTL

\* The channels of the page: those with is_active, of the stores with the organisation
\* id, if the account is known.
Monitored(org, keys) == {c \in OfOrg(org) : KeysOf(c, keys)}

LEMMA MonitoredPlays ==
    ASSUME NEW org, NEW keys \in BOOLEAN
    PROVE  /\ Monitored(org, keys) \in SUBSET (Present \cup Second)
           /\ IsFiniteSet(Monitored(org, keys))
           /\ \A home \in org :
                 {c \in Ids : Plays(c, home, keys)} = {c \in Monitored(org, keys) : StoreOf(c) = home}
           /\ {c.id : c \in {x \in ListActiveChannelsByOrgID(org, keys) : ValidChannel(x)}}
                 = Monitored(org, keys)
<1>1. \A c \in MonitorChannelQuery :
          /\ c \in Ids /\ c \in Present \cup Second
          /\ ApplyCredentials(c, keys).id = c
          /\ ApplyCredentials(c, keys).store = StoreOf(c)
          /\ ValidChannel(ApplyCredentials(c, keys)) <=> KeysOf(c, keys)
          /\ ApplyCredentials(c, keys).keys = KeysOf(c, keys)
  BY DEF MonitorChannelQuery, Present, ApplyCredentials, ValidChannel, Ids
<1>2. Monitored(org, keys) \in SUBSET (Present \cup Second)
  BY <1>1 DEF Monitored, OfOrg
<1>3. IsFiniteSet(Present \cup Second)
  BY PresentFinite, ViewsAssumption, FS_Union
<1>4. IsFiniteSet(Monitored(org, keys))
  BY <1>2, <1>3, FS_Subset
<1>5. ASSUME NEW home \in org
      PROVE  {c \in Ids : Plays(c, home, keys)} = {c \in Monitored(org, keys) : StoreOf(c) = home}
  <2>1. \A c \in Ids : Plays(c, home, keys)
            <=> c \in MonitorChannelQuery /\ StoreOf(c) = home /\ KeysOf(c, keys)
    BY <1>1 DEF Plays, GetChannelByID
  <2> QED BY <1>1, <2>1 DEF Monitored, OfOrg
<1>6. {c.id : c \in {x \in ListActiveChannelsByOrgID(org, keys) : ValidChannel(x)}} = Monitored(org, keys)
  BY <1>1 DEF ListActiveChannelsByOrgID, ScanMonitorChannels, Monitored, OfOrg
<1> QED BY <1>2, <1>4, <1>5, <1>6

\* The groups of the page: no channel is in two, and none is in no group.
LEMMA HomeLists ==
    ASSUME IInv, NEW org, NEW keys \in BOOLEAN
    PROVE  LET groups == GetMonitorHome(org, keys)
           IN  Lists(FlattenSeq([i \in 1..Len(groups) |-> groups[i].channels]), Monitored(org, keys))
<1> DEFINE V == Monitored(org, keys)
           Part(category) == {c \in V : ChannelCategory(c) = category}
           Group(category) == [category |-> category,
                               channels |-> Sorted(Part(category), PageOrder(category))]
           all == [i \in 1..Len(Categories) |-> Group(Categories[i])]
           empty == [category : ToSet(Categories), channels : {<< >>}]
           w == Without(all, empty)
<1>1. GetMonitorHome(org, keys) = w
  BY MonitoredPlays DEF GetMonitorHome, GroupChannels
<1>2. V \in SUBSET (Present \cup Second) /\ IsFiniteSet(V)
  BY MonitoredPlays
<1>3. \A category : Lists(Sorted(Part(category), PageOrder(category)), Part(category))
  <2> TAKE category
  <2>1. Part(category) \in SUBSET (Present \cup Second) /\ IsFiniteSet(Part(category))
    BY <1>2, FS_Subset
  <2> HIDE DEF Part
  <2> QED BY <2>1, PageOrdered, SortedLists
<1> DEFINE C == {"consultation", "treatment", "beauty", "front_waiting", "other"}
           Gs == {Group(category) : category \in C}
<1>4. /\ Len(Categories) = 5 /\ ToSet(Categories) = C
      /\ \A i \in 1..5 : Categories[i] \in C
      /\ \A i, j \in 1..5 : Categories[i] = Categories[j] => i = j
      /\ \A category \in C : \E i \in 1..5 : Categories[i] = category
  <2>1. Len(Categories) = 5 /\ DOMAIN Categories = 1..5
    BY DEF Categories
  <2>2. /\ Categories[1] = "consultation" /\ Categories[2] = "treatment" /\ Categories[3] = "beauty"
        /\ Categories[4] = "front_waiting" /\ Categories[5] = "other"
    BY DEF Categories
  <2>3. \A i \in 1..5 : i = 1 \/ i = 2 \/ i = 3 \/ i = 4 \/ i = 5
    OBVIOUS
  <2> QED BY <2>1, <2>2, <2>3 DEF ToSet
<1>5. \A n \in V : ChannelCategory(n) \in C
  BY DEF ChannelCategory
<1> HIDE DEF Part, V, C
<1>6. /\ all \in Seq(Gs) /\ Len(all) = 5
      /\ \A i \in 1..5 : all[i] = Group(Categories[i]) /\ all[i].category = Categories[i]
      /\ \A i, j \in 1..5 : all[i] = all[j] => i = j
  <2>1. \A i \in 1..5 : all[i] = Group(Categories[i]) /\ all[i] \in Gs /\ all[i].category = Categories[i]
    BY <1>4
  <2>2. all \in Seq(Gs) /\ Len(all) = 5
    BY <1>4, <2>1
  <2>3. \A i, j \in 1..5 : all[i] = all[j] => i = j
    <3> HIDE DEF all
    <3> QED BY <1>4, <2>1
  <2> QED BY <2>1, <2>2, <2>3
<1> HIDE DEF all, empty, Gs
<1>7. /\ w \in Seq(Gs \ empty)
      /\ \A x : (\E k \in 1..Len(w) : w[k] = x) <=> x \notin empty /\ \E i \in 1..5 : all[i] = x
      /\ \A k, l \in 1..Len(w) : w[k] = w[l] => k = l
  <2>1. all \in Seq(Gs) /\ 1..Len(all) = 1..5
    BY <1>6
  <2>2. /\ w \in Seq(Gs \ empty)
        /\ \A x : (\E k \in 1..Len(w) : w[k] = x)
                     <=> x \notin empty /\ \E i \in 1..Len(all) : all[i] = x
        /\ (\A i, j \in 1..Len(all) : all[i] = all[j] => i = j) =>
                \A k, l \in 1..Len(w) : w[k] = w[l] => k = l
    BY <2>1, WithoutElements
  <2> HIDE DEF w
  <2> QED BY <1>6, <2>1, <2>2, Zenon
<1> HIDE DEF w
<1> DEFINE ss == [k \in 1..Len(w) |-> w[k].channels]
           A == [k \in 1..Len(w) |-> Part(w[k].category)]
<1>8. Len(w) \in Nat /\ Len(ss) = Len(w) /\ (Len(ss) = 0 => ss = << >>)
  BY <1>7
<1>9. ASSUME NEW k \in 1..Len(w)
      PROVE  \E category \in C : w[k] = Group(category) /\ w[k].category = category
  <2>1. PICK i \in 1..5 : all[i] = w[k]
    BY <1>7
  <2> QED BY <2>1, <1>4, <1>6
<1>10. \A k \in 1..Len(ss) : Lists(ss[k], A[k])
  <2> TAKE k \in 1..Len(ss)
  <2>1. PICK category \in C : w[k] = Group(category) /\ w[k].category = category
    BY <1>8, <1>9
  <2>2. ss[k] = Sorted(Part(category), PageOrder(category)) /\ A[k] = Part(category)
    BY <1>8, <2>1
  <2> QED BY <2>2, <1>3
<1>11. \A k, l \in 1..Len(ss) : k # l => A[k] \cap A[l] = {}
  <2> SUFFICES ASSUME NEW k \in 1..Len(w), NEW l \in 1..Len(w), k # l PROVE A[k] \cap A[l] = {}
    BY <1>8
  <2>1. PICK c1 \in C : w[k] = Group(c1) /\ w[k].category = c1
    BY <1>9
  <2>2. PICK c2 \in C : w[l] = Group(c2) /\ w[l].category = c2
    BY <1>9
  <2>3. c1 # c2
    BY <1>7, <2>1, <2>2
  <2> QED BY <2>1, <2>2, <2>3 DEF Part
<1>12. UNION {A[k] : k \in 1..Len(ss)} = V
  <2>1. \A k \in 1..Len(w) : A[k] \subseteq V
    BY DEF Part
  <2>2. ASSUME NEW n \in V PROVE \E k \in 1..Len(w) : n \in A[k]
    <3> DEFINE category == ChannelCategory(n)
    <3>1. category \in C /\ n \in Part(category)
      BY <1>5 DEF Part
    <3>2. PICK i \in 1..5 : Categories[i] = category
      BY <1>4, <3>1
    <3> HIDE DEF category
    <3>3. Sorted(Part(category), PageOrder(category)) # << >>
      <4>1. \E k \in 1..Len(Sorted(Part(category), PageOrder(category))) : TRUE
        BY <1>3, <3>1 DEF Lists
      <4> QED BY <4>1
    <3>4. all[i] = Group(category) /\ all[i] \notin empty
      BY <1>6, <3>2, <3>3 DEF empty
    <3>5. PICK k \in 1..Len(w) : w[k] = all[i]
      BY <1>7, <3>4
    <3> QED BY <3>1, <3>4, <3>5
  <2> HIDE DEF A
  <2> QED BY <2>1, <2>2, <1>8
<1>13. Lists(FlattenSeq(ss), UNION {A[k] : k \in 1..Len(ss)})
  <2>1. Len(ss) \in Nat
    BY <1>8
  <2> HIDE DEF ss, A
  <2> QED BY <2>1, <1>8, <1>10, <1>11, FlattenLists
<1> QED BY <1>1, <1>12, <1>13 DEF V

\* The page of a store shows every channel that the stream routes agree to play, each
\* once and in one group, and the list of stores announces as many; what it shows and
\* they refuse are the channels of another store with the organisation id.
THEOREM HomeHolds == Spec => []HomeShowsWhatPlays
<1>1. IInv => HomeShowsWhatPlays
  <2> SUFFICES ASSUME IInv, NEW org \in {{"own"}, {"own", "second"}}, NEW keys \in BOOLEAN
               PROVE  LET groups == GetMonitorHome(org, keys)
                          shown == FlattenSeq([i \in 1..Len(groups) |-> groups[i].channels])
                      IN  /\ Len(shown) = AvailableChannelCount(org, keys)
                          /\ Cardinality(ToSet(shown)) = Len(shown)
                          /\ \A home \in org : {c \in Ids : Plays(c, home, keys)}
                                                 = {c \in ToSet(shown) : StoreOf(c) = home}
    BY DEF HomeShowsWhatPlays
  <2> DEFINE groups == GetMonitorHome(org, keys)
             shown == FlattenSeq([i \in 1..Len(groups) |-> groups[i].channels])
  <2>1. Lists(shown, Monitored(org, keys))
    BY HomeLists
  <2> HIDE DEF shown
  <2>2. /\ ToSet(shown) = Monitored(org, keys)
        /\ Len(shown) = Cardinality(Monitored(org, keys))
    BY <2>1, ListsAll
  <2>3. Cardinality(Monitored(org, keys)) = AvailableChannelCount(org, keys)
    BY DEF Monitored, AvailableChannelCount
  <2>4. \A home \in org : {c \in Ids : Plays(c, home, keys)} = {c \in ToSet(shown) : StoreOf(c) = home}
    BY <2>2, MonitoredPlays
  <2> QED BY <2>2, <2>3, <2>4 DEF shown
<1> QED BY <1>1, Inductive, PTL
=============================================================================
