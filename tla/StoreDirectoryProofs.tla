------------------------ MODULE StoreDirectoryProofs ------------------------
(***************************************************************************)
(* The store directory, for any inputs, number of requests at a time and   *)
(* limit of recorders, on both repositories.  A request reads in one step  *)
(* and writes in another, so the invariant says what it still may rely on  *)
(* and, where it may rely on nothing, how far the requests that read       *)
(* together can go.                                                        *)
(***************************************************************************)
EXTENDS StoreDirectory, AlgorithmProofs

-----------------------------------------------------------------------------
(* The invariant of the tables. *)

Fields == {"arg", "step", "i", "id", "calm", "answer", "page"}

\* A request that may still insert a store or a recorder.
IsAdding(x) ==
    /\ x.arg.op \in {"createStore", "addRecorder"}
    /\ x.step \in {"name", "store", "code", "find", "commit"}
Adding == {p \in Procs : IsAdding(reqs[p])}

\* A request that has found store s below its limit and has not inserted yet.
IsPast(x, s) ==
    /\ x.arg.op = "addRecorder" /\ x.step \in {"code", "find", "commit"}
    /\ x.arg.store = s
Past(s) == {p \in Procs : IsPast(reqs[p], s)}

\* What a request in flight may rely on.
RequestOK(x) ==
    /\ DOMAIN x = Fields
    /\ x.step # "idle" => x.arg \in Inputs
    /\ x.arg.op = "createStore" /\ x.step \in {"name", "code", "commit"} =>
           ValidCreateStoreInput(x.arg)
    /\ x.arg.op = "addRecorder" /\ x.step \in {"store", "code", "find", "commit"} =>
           CodesOf(x.arg.codes) # << >>
    /\ x.arg.op = "addRecorder" /\ x.step \in {"code", "find", "commit"} =>
           x.arg.store \in 1..last.store
    /\ MySQL /\ x.arg.op = "deleteStore" /\ x.step = "commit" =>
           x.arg.store \in 1..last.store
    /\ MySQL /\ x.arg.op = "deleteRecorder" /\ x.step = "commit" =>
           /\ x.arg.recorder \in 1..last.recorder /\ x.id \in 1..last.store
           /\ \A s \in StoreIds :
                  <<"create", "recorder", x.arg.recorder, s>> \in log => s = x.id
RequestsOK == DOMAIN reqs = Procs /\ \A p \in Procs : RequestOK(reqs[p])

\* Ids are given out once, and recorders belong to stores that exist.
TablesOK ==
    /\ deployment \in Deployments
    /\ DOMAIN stores = StoreIds /\ DOMAIN recorders = RecorderIds
    /\ DOMAIN last = {"store", "recorder", "account"}
    /\ last.store \in Nat /\ last.recorder \in Nat
    /\ \A s \in Live(stores) : s <= last.store
    /\ \A r \in Live(recorders) : /\ r <= last.recorder
                                  /\ recorders[r].store \in Live(stores)
                                  /\ recorders[r].code \in Codes

\* Every request adds at most one store and as many recorders as a store may
\* have: what was given out was given to requests that are over, or at the start.
Over == 1 + started - Cardinality(Adding)
IdsSuffice ==
    /\ started \in 0..MaxRequests
    /\ last.store <= Over /\ last.recorder <= RecorderLimit * Over

\* The index of the memory store; with MySQL it is not used.
IndexOK ==
    /\ deviceCodes \in [Codes -> Nat]
    /\ MySQL => \A c \in Codes : deviceCodes[c] = 0
    /\ IndexNeverDangles

\* An entry is about an id that was given out, and a recorder was created for
\* one store.
LogOK ==
    /\ \A s \in StoreIds :
           <<"create", "store", s, s>> \in log \/ <<"delete", "store", s, s>> \in log =>
               s <= last.store
    /\ \A r \in RecorderIds, s \in StoreIds :
           /\ <<"delete", "recorder", r, s>> \in log => r <= last.recorder
           /\ <<"create", "recorder", r, s>> \in log =>
                  /\ r <= last.recorder
                  /\ r \in Live(recorders) => recorders[r].store = s
                  /\ \A t \in StoreIds : <<"create", "recorder", r, t>> \in log => t = s
    /\ LogTellsDirectory

\* Whoever is past the test of the limit is counted with the recorders.
LimitOK ==
    \A s \in StoreIds :
        Cardinality(RecordersOf(s)) + Cardinality(Past(s)) <= RecorderLimit + Cardinality(Procs) - 1

IInv == RequestsOK /\ TablesOK /\ IdsSuffice /\ IndexOK /\ LogOK /\ LimitOK

-----------------------------------------------------------------------------
(* Requests. *)

\* The numbers among the constants.
LEMMA Limits ==
    RecorderLimit \in Nat \ {0} /\ PageSize \in Nat \ {0} /\ MaxRequests \in Nat
BY DirectoryAssumption

\* What the helpers make of a request.
LEMMA AtFields ==
    ASSUME NEW x, DOMAIN x = Fields, NEW step
    PROVE  /\ DOMAIN At(x, step) = Fields /\ At(x, step).step = step
           /\ At(x, step).arg = x.arg /\ At(x, step).i = x.i /\ At(x, step).id = x.id
           /\ At(x, step).calm = x.calm /\ At(x, step).answer = x.answer
           /\ At(x, step).page = x.page
BY DEF At, Fields
LEMMA AnsweredFields ==
    ASSUME NEW x, DOMAIN x = Fields, NEW answer
    PROVE  /\ DOMAIN Answered(x, answer) = Fields
           /\ Answered(x, answer).step = "done" /\ Answered(x, answer).answer = answer
           /\ Answered(x, answer).arg = x.arg /\ Answered(x, answer).i = x.i
           /\ Answered(x, answer).id = x.id /\ Answered(x, answer).calm = x.calm
           /\ Answered(x, answer).page = x.page
BY DEF Answered, Fields

LEMMA AcceptedRequest ==
    ASSUME NEW in
    PROVE  /\ DOMAIN Accepted(in) = Fields /\ Accepted(in).arg = in
           /\ Accepted(in).i = 1 /\ Accepted(in).calm = TRUE /\ Accepted(in).page = NoPage
BY DEF Accepted, Idle, Fields

\* A request that was answered owes nothing and may rely on nothing.
LEMMA AnsweredOK ==
    ASSUME NEW x, DOMAIN x = Fields, x.arg \in Inputs, NEW answer
    PROVE  /\ RequestOK(Answered(x, answer)) /\ ~IsAdding(Answered(x, answer))
           /\ \A s : ~IsPast(Answered(x, answer), s)
<1>1. /\ DOMAIN Answered(x, answer) = Fields
      /\ Answered(x, answer).step = "done" /\ Answered(x, answer).arg = x.arg
  BY AnsweredFields
<1> QED BY <1>1 DEF RequestOK, IsAdding, IsPast

\* The codes of an input, blank ones left out.
LEMMA InputCodes ==
    ASSUME NEW in \in Coded \cup {Seed}
    PROVE  CodesOf(in.codes) \in Seq(Codes) /\ Len(CodesOf(in.codes)) <= Len(in.codes)
<1> DEFINE raws == in.codes
           S == {NormalizeDeviceCode(raws[i]) : i \in DOMAIN raws}
           t == [i \in DOMAIN raws |-> NormalizeDeviceCode(raws[i])]
           c == CodesOf(raws)
<1>1. raws \in Seq(ToSet(raws))
  BY DirectoryAssumption
<1>2. t \in Seq(S) /\ Len(t) = Len(raws)
  BY <1>1
<1>3. c = Without(t, {Blank})
  BY DEF CodesOf
<1> HIDE DEF t, S, c
<1>4. c \in Seq(S \ {Blank}) /\ Len(c) <= Len(t)
  BY <1>2, <1>3, WithoutElements
<1>5. DOMAIN c = 1..Len(c) /\ Len(c) \in Nat
  BY <1>4
<1>6. \A k \in 1..Len(c) : c[k] \in Codes
  <2>1. \A k \in 1..Len(c) : c[k] \in ToSet(c)
    BY <1>5 DEF ToSet
  <2>2. ToSet(c) \subseteq Codes
    BY DEF Codes, c
  <2> QED BY <2>1, <2>2
<1>7. c \in Seq(Codes)
  <2>1. c \in [1..Len(c) -> Codes]
    BY <1>4, <1>5, <1>6
  <2> QED BY <2>1, <1>5
<1> QED BY <1>2, <1>4, <1>7 DEF c

\* The sets that are counted are finite.
LEMMA CountsFinite ==
    ASSUME NEW s
    PROVE  /\ IsFiniteSet(Adding) /\ Cardinality(Adding) \in Nat
           /\ IsFiniteSet(Past(s)) /\ Cardinality(Past(s)) \in Nat
           /\ Cardinality(Past(s)) <= Cardinality(Procs)
           /\ Cardinality(Procs) \in Nat \ {0}
<1>1. Adding \subseteq Procs /\ Past(s) \subseteq Procs
  BY DEF Adding, Past
<1>2. IsFiniteSet(Procs) /\ Procs # {}
  BY DirectoryAssumption
<1>3. Cardinality(Procs) \in Nat \ {0}
  BY <1>2, FS_CardinalityType, FS_EmptySet
<1>4. IsFiniteSet(Adding) /\ IsFiniteSet(Past(s)) /\ Cardinality(Past(s)) <= Cardinality(Procs)
  BY <1>1, <1>2, FS_Subset
<1> QED BY <1>3, <1>4, FS_CardinalityType

LEMMA RecordersFinite ==
    ASSUME TablesOK, NEW s
    PROVE  IsFiniteSet(RecordersOf(s)) /\ Cardinality(RecordersOf(s)) \in Nat
<1>1. RecordersOf(s) \subseteq RecorderIds
  BY DEF RecordersOf, Live, TablesOK
<1>2. IsFiniteSet(RecorderIds)
  BY FS_Interval, Limits DEF RecorderIds
<1>3. IsFiniteSet(RecordersOf(s))
  BY <1>1, <1>2, FS_Subset
<1> QED BY <1>3, FS_CardinalityType

\* The variables but those of the requests.
tables == <<deployment, stores, times, recorders, deviceCodes, accounts, log, last>>

LEMMA TimesMonotone ==
    ASSUME NEW n \in Nat, NEW a \in Int, NEW b \in Int, a <= b
    PROVE  n * a <= n * b /\ n * a \in Int /\ n * b \in Int /\ n * (a + 1) = n * a + n
<1>1. PICK d \in Nat : b = a + d
  <2>1. b = a + (b - a) /\ b - a \in Nat
    OBVIOUS
  <2> QED BY <2>1
<1>2. n * b = n * a + n * d /\ n * d \in Nat /\ n * a \in Int
  BY <1>1
<1> QED BY <1>2

\* A step that leaves the tables alone and moves request p to x.
LEMMA ReadStep ==
    ASSUME IInv, NEW p \in Procs, NEW x, RequestOK(x), UNCHANGED tables,
           reqs' = [reqs EXCEPT ![p] = x],
           \/ started' = started /\ (IsAdding(x) => IsAdding(reqs[p]))
           \/ started' = started + 1 /\ started < MaxRequests,
           \A s \in StoreIds :
               IsPast(x, s) => \/ IsPast(reqs[p], s)
                               \/ Cardinality(RecordersOf(s)) < RecorderLimit
    PROVE  IInv'
<1> USE DEF IInv, tables
<1>1. RequestsOK'
  <2>1. DOMAIN reqs' = Procs /\ reqs'[p] = x /\ \A q \in Procs \ {p} : reqs'[q] = reqs[q]
    BY DEF RequestsOK
  <2>2. \A q \in Procs : RequestOK(reqs'[q])
    BY <2>1 DEF RequestsOK
  <2>3. \A q \in Procs : RequestOK(reqs[q])'
    BY <2>2 DEF RequestOK, MySQL
  <2> QED BY <2>1, <2>3 DEF RequestsOK
<1>2. TablesOK'
  BY DEF TablesOK, Live
<1>3. IndexOK'
  BY DEF IndexOK, IndexNeverDangles, Live, MySQL
<1>4. LogOK'
  BY DEF LogOK, LogTellsDirectory, Live, MySQL
<1>5. reqs'[p] = x /\ \A q \in Procs \ {p} : reqs'[q] = reqs[q]
  BY DEF RequestsOK
<1>6. IdsSuffice'
  <2>1. started' \in 0..MaxRequests /\ Over \in Int /\ Over' \in Int /\ Over <= Over'
    <3>1. CASE started' = started /\ (IsAdding(x) => IsAdding(reqs[p]))
      <4>1. Adding' \subseteq Adding
        BY <1>5, <3>1 DEF Adding, IsAdding
      <4>2. Cardinality(Adding') <= Cardinality(Adding) /\ Cardinality(Adding') \in Nat
        BY <4>1, CountsFinite, FS_Subset, FS_CardinalityType
      <4> QED BY <3>1, <4>2, CountsFinite DEF IdsSuffice, Over
    <3>2. CASE started' = started + 1 /\ started < MaxRequests
      <4>1. Adding' \subseteq Adding \cup {p}
        BY <1>5 DEF Adding, IsAdding
      <4>2. IsFiniteSet(Adding)
        BY CountsFinite
      <4>3. IsFiniteSet(Adding \cup {p}) /\ Cardinality(Adding \cup {p}) <= Cardinality(Adding) + 1
        <5>1. /\ IsFiniteSet(Adding \cup {p})
              /\ Cardinality(Adding \cup {p}) =
                     IF p \in Adding THEN Cardinality(Adding) ELSE Cardinality(Adding) + 1
          BY <4>2, FS_AddElement, Zenon
        <5>2. Cardinality(Adding) \in Nat
          BY CountsFinite
        <5> QED BY <5>1, <5>2
      <4>4. Cardinality(Adding') <= Cardinality(Adding) + 1 /\ Cardinality(Adding') \in Nat
        BY <4>1, <4>3, CountsFinite, FS_Subset, FS_CardinalityType
      <4>5. Cardinality(Adding) \in Nat /\ MaxRequests \in Nat
        BY CountsFinite, Limits
      <4> QED BY <3>2, <4>4, <4>5 DEF IdsSuffice, Over
    <3> QED BY <3>1, <3>2
  <2>2. RecorderLimit * Over <= RecorderLimit * Over' /\ RecorderLimit * Over \in Int
        /\ RecorderLimit * Over' \in Int
    BY <2>1, TimesMonotone, Limits
  <2> QED BY <2>1, <2>2 DEF IdsSuffice, TablesOK
<1>7. LimitOK'
  <2> SUFFICES ASSUME NEW s \in StoreIds
               PROVE  Cardinality(RecordersOf(s)') + Cardinality(Past(s)')
                          <= RecorderLimit + Cardinality(Procs) - 1
    BY DEF LimitOK
  <2>1. RecordersOf(s)' = RecordersOf(s)
    BY DEF RecordersOf, Live
  <2>2. CASE IsPast(x, s) => IsPast(reqs[p], s)
    <3>1. Past(s)' \subseteq Past(s)
      BY <1>5, <2>2 DEF Past, IsPast
    <3>2. Cardinality(Past(s)') <= Cardinality(Past(s)) /\ Cardinality(Past(s)') \in Nat
      BY <3>1, CountsFinite, FS_Subset, FS_CardinalityType
    <3> QED BY <2>1, <3>2, CountsFinite, RecordersFinite, Limits DEF LimitOK
  <2>3. CASE Cardinality(RecordersOf(s)) < RecorderLimit
    <3>1. Past(s)' \subseteq Procs
      BY DEF Past
    <3>2. Cardinality(Past(s)') <= Cardinality(Procs) /\ Cardinality(Past(s)') \in Nat
      BY <3>1, CountsFinite, FS_Subset, FS_CardinalityType, DirectoryAssumption
    <3> QED BY <2>1, <2>3, <3>2, CountsFinite, RecordersFinite, Limits
  <2> QED BY <2>2, <2>3
<1> QED BY <1>1, <1>2, <1>3, <1>4, <1>6, <1>7

\* A request that is none of those in flight is easy to move.
LEMMA PlainRequest ==
    ASSUME NEW x, DOMAIN x = Fields, x.arg \in Inputs,
           \/ x.arg.op \notin {"createStore", "addRecorder", "deleteStore", "deleteRecorder"}
           \/ x.step \notin {"name", "store", "code", "find", "commit"}
           \/ x.arg.op \in {"deleteStore", "deleteRecorder"} /\ (x.step # "commit" \/ ~MySQL)
    PROVE  RequestOK(x) /\ ~IsAdding(x) /\ \A s : ~IsPast(x, s)
BY DEF RequestOK, IsAdding, IsPast

\* The fields of a request in flight.
LEMMA InFlight ==
    ASSUME IInv, NEW p \in Procs
    PROVE  /\ DOMAIN reqs[p] = Fields /\ RequestOK(reqs[p])
           /\ reqs[p].step # "idle" => reqs[p].arg \in Inputs
BY DEF IInv, RequestsOK, RequestOK

\* Requests that come in.
LEMMA BeginStep ==
    ASSUME IInv, NEW p \in Procs, NEW in \in Inputs, NEW x, RequestOK(x), \A s : ~IsPast(x, s),
           started < MaxRequests, started' = started + 1, Set(p, x),
           UNCHANGED <<deployment, storeTables, accounts, last>>
    PROVE  IInv'
BY ReadStep DEF Set, tables, storeTables

LEMMA BeginActions ==
    ASSUME IInv, NEW p \in Procs,
           \/ CreateStore(p) \/ UpdateStoreBasicInfo(p) \/ DeleteStore(p) \/ AddRecorder(p)
           \/ DeleteRecorder(p) \/ CreateEzvizAccount(p) \/ SyncEzvizAccountNames(p)
    PROVE  IInv'
<1> DEFINE Comes(in, x) ==
        /\ started < MaxRequests /\ started' = started + 1 /\ Set(p, x)
        /\ UNCHANGED <<deployment, storeTables, accounts, last>>
<1>0. ASSUME NEW in \in Inputs, NEW answer, Comes(in, Answered(Accepted(in), answer))
      PROVE  IInv'
  <2>1. RequestOK(Answered(Accepted(in), answer)) /\ \A s : ~IsPast(Answered(Accepted(in), answer), s)
    BY AcceptedRequest, AnsweredOK
  <2> QED BY <1>0, <2>1, BeginStep
<1>00. ASSUME NEW in \in Inputs, NEW step, Comes(in, At(Accepted(in), step)),
              step # "idle", RequestOK(At(Accepted(in), step)), \A s : ~IsPast(At(Accepted(in), step), s)
       PROVE  IInv'
  BY <1>00, BeginStep
<1>000. ASSUME NEW in, NEW step
        PROVE  /\ DOMAIN At(Accepted(in), step) = Fields
               /\ At(Accepted(in), step).arg = in /\ At(Accepted(in), step).step = step
  <2> DEFINE x == Accepted(in)
  <2>1. DOMAIN x = Fields /\ x.arg = in
    BY AcceptedRequest
  <2> HIDE DEF x
  <2>2. DOMAIN At(x, step) = Fields /\ At(x, step).arg = x.arg /\ At(x, step).step = step
    BY <2>1, AtFields
  <2> QED BY <2>1, <2>2 DEF x
<1>1. CASE CreateStore(p)
  <2>1. PICK in \in Inputs :
            /\ in.op = "createStore"
            /\ Comes(in, IF deployment.crm THEN Answered(Accepted(in), "read_only")
                      ELSE IF ~ValidCreateStoreInput(Accepted(in).arg) THEN Answered(Accepted(in), "invalid")
                      ELSE At(Accepted(in), "name"))
    BY <1>1 DEF CreateStore, Begin
  <2>2. Accepted(in).arg = in
    BY AcceptedRequest
  <2>3. ValidCreateStoreInput(in) => /\ RequestOK(At(Accepted(in), "name"))
             /\ \A s : ~IsPast(At(Accepted(in), "name"), s)
    BY <1>000, <2>1 DEF RequestOK, IsPast
  <2> HIDE DEF Comes
  <2> QED BY <2>1, <2>2, <2>3, <1>0, <1>00
<1>2. CASE UpdateStoreBasicInfo(p)
  <2>1. PICK in \in Inputs :
            /\ in.op = "updateStore"
            /\ Comes(in, IF deployment.crm THEN Answered(Accepted(in), "read_only")
                      ELSE IF ~ValidStoreFields(Accepted(in).arg) THEN Answered(Accepted(in), "invalid")
                      ELSE At(Accepted(in), "name"))
    BY <1>2 DEF UpdateStoreBasicInfo, Begin
  <2>2. Accepted(in).arg = in
    BY AcceptedRequest
  <2>3. RequestOK(At(Accepted(in), "name")) /\ \A s : ~IsPast(At(Accepted(in), "name"), s)
    BY <1>000, <2>1, PlainRequest
  <2> HIDE DEF Comes
  <2> QED BY <2>1, <2>2, <2>3, <1>0, <1>00
<1>3. CASE DeleteStore(p)
  <2>1. PICK in \in Inputs :
            /\ in.op = "deleteStore"
            /\ Comes(in, IF deployment.crm THEN Answered(Accepted(in), "read_only")
                      ELSE At(Accepted(in), IF MySQL THEN "find" ELSE "commit"))
    BY <1>3 DEF DeleteStore, Begin
  <2>2. Accepted(in).arg = in
    BY AcceptedRequest
  <2>3. /\ RequestOK(At(Accepted(in), IF MySQL THEN "find" ELSE "commit"))
        /\ \A s : ~IsPast(At(Accepted(in), IF MySQL THEN "find" ELSE "commit"), s)
    BY <1>000, <2>1, PlainRequest
  <2> HIDE DEF Comes
  <2> QED BY <2>1, <2>2, <2>3, <1>0, <1>00
<1>4. CASE AddRecorder(p)
  <2>1. PICK in \in Inputs :
            /\ in.op = "addRecorder"
            /\ Comes(in, IF CodesOf(Accepted(in).arg.codes) = << >> THEN Answered(Accepted(in), "invalid")
                      ELSE At(Accepted(in), "store"))
    BY <1>4 DEF AddRecorder, Begin
  <2>2. Accepted(in).arg = in
    BY AcceptedRequest
  <2>3. CodesOf(in.codes) # << >> => /\ RequestOK(At(Accepted(in), "store"))
             /\ \A s : ~IsPast(At(Accepted(in), "store"), s)
    BY <1>000, <2>1 DEF RequestOK, IsPast
  <2> HIDE DEF Comes
  <2> QED BY <2>1, <2>2, <2>3, <1>0, <1>00
<1>5. CASE DeleteRecorder(p)
  <2>1. PICK in \in Inputs :
            /\ in.op = "deleteRecorder"
            /\ Comes(in, At(Accepted(in), IF MySQL THEN "find" ELSE "commit"))
    BY <1>5 DEF DeleteRecorder, Begin
  <2>2. Accepted(in).arg = in
    BY AcceptedRequest
  <2>3. /\ RequestOK(At(Accepted(in), IF MySQL THEN "find" ELSE "commit"))
        /\ \A s : ~IsPast(At(Accepted(in), IF MySQL THEN "find" ELSE "commit"), s)
    BY <1>000, <2>1, PlainRequest
  <2> HIDE DEF Comes
  <2> QED BY <2>1, <2>2, <2>3, <1>0, <1>00
<1>6. CASE CreateEzvizAccount(p)
  <2>1. PICK in \in Inputs :
            /\ in.op = "createAccount"
            /\ Comes(in, IF Accepted(in).arg.name = Blank THEN Answered(Accepted(in), "invalid")
                      ELSE At(Accepted(in), "name"))
    BY <1>6 DEF CreateEzvizAccount, Begin
  <2>2. Accepted(in).arg = in
    BY AcceptedRequest
  <2>3. RequestOK(At(Accepted(in), "name")) /\ \A s : ~IsPast(At(Accepted(in), "name"), s)
    BY <1>000, <2>1, PlainRequest
  <2> HIDE DEF Comes
  <2> QED BY <2>1, <2>2, <2>3, <1>0, <1>00
<1>7. CASE SyncEzvizAccountNames(p)
  <2>1. PICK in \in Inputs :
            /\ in.op = "sync"
            /\ Comes(in, At(Accepted(in), "upsert"))
    BY <1>7 DEF SyncEzvizAccountNames, Begin
  <2>2. Accepted(in).arg = in
    BY AcceptedRequest
  <2>3. RequestOK(At(Accepted(in), "upsert")) /\ \A s : ~IsPast(At(Accepted(in), "upsert"), s)
    BY <1>000, <2>1, PlainRequest
  <2> HIDE DEF Comes
  <2> QED BY <2>1, <2>2, <2>3, <1>0, <1>00
<1> QED BY <1>1, <1>2, <1>3, <1>4, <1>5, <1>6, <1>7

\* Requests in flight that only read.
LEMMA ReadsStep ==
    ASSUME IInv, NEW p \in Procs, NEW x, RequestOK(x), IsAdding(x) => IsAdding(reqs[p]),
           \A s \in StoreIds :
               IsPast(x, s) => \/ IsPast(reqs[p], s)
                               \/ Cardinality(RecordersOf(s)) < RecorderLimit,
           Set(p, x), Reads
    PROVE  IInv'
BY ReadStep DEF Set, Reads, tables, storeTables

LEMMA ReadsAnswer ==
    ASSUME IInv, NEW p \in Procs, reqs[p].step # "idle", NEW answer,
           Set(p, Answered(reqs[p], answer)), Reads
    PROVE  IInv'
<1> DEFINE x == Answered(reqs[p], answer)
<1>1. RequestOK(x) /\ ~IsAdding(x) /\ \A s : ~IsPast(x, s)
  BY InFlight, AnsweredOK
<1> HIDE DEF x
<1>2. Set(p, x)
  BY DEF x
<1> QED BY <1>1, <1>2, ReadsStep

LEMMA ReadsOn ==
    ASSUME IInv, NEW p \in Procs, reqs[p].step # "idle", NEW step,
           RequestOK(At(reqs[p], step)), IsAdding(At(reqs[p], step)) => IsAdding(reqs[p]),
           \A s \in StoreIds :
               IsPast(At(reqs[p], step), s) => \/ IsPast(reqs[p], s)
                                               \/ Cardinality(RecordersOf(s)) < RecorderLimit,
           Set(p, At(reqs[p], step)), Reads
    PROVE  IInv'
BY ReadsStep

LEMMA AtInFlight ==
    ASSUME IInv, NEW p \in Procs, NEW step
    PROVE  /\ DOMAIN At(reqs[p], step) = Fields /\ At(reqs[p], step).step = step
           /\ At(reqs[p], step).arg = reqs[p].arg /\ At(reqs[p], step).id = reqs[p].id
BY InFlight, AtFields

LEMMA CreateReads ==
    ASSUME IInv, NEW p \in Procs, CreateStoreName(p) \/ CreateStoreCode(p) \/ ReadStore(p)
    PROVE  IInv'
<1>1. CASE CreateStoreName(p)
  <2>1. /\ reqs[p].arg.op = "createStore" /\ reqs[p].step = "name" /\ Reads
        /\ \/ Set(p, Answered(reqs[p], "invalid")) \/ Set(p, At(reqs[p], "code"))
    BY <1>1 DEF CreateStoreName, Serves, EnsureNoExactDuplicate
  <2>2. RequestOK(At(reqs[p], "code")) /\ IsAdding(reqs[p]) /\ \A s : ~IsPast(At(reqs[p], "code"), s)
    BY <2>1, InFlight, AtInFlight DEF RequestOK, IsAdding, IsPast
  <2> QED BY <2>1, <2>2, ReadsAnswer, ReadsOn
<1>2. CASE CreateStoreCode(p)
  <2> DEFINE y == [reqs[p] EXCEPT !.i = @ + 1]
  <2>1. /\ reqs[p].arg.op = "createStore" /\ reqs[p].step = "code" /\ Reads
        /\ \/ Set(p, Answered(reqs[p], "invalid")) \/ Set(p, At(reqs[p], "commit")) \/ Set(p, y)
    BY <1>2 DEF CreateStoreCode, Serves
  <2>2. RequestOK(At(reqs[p], "commit")) /\ IsAdding(reqs[p]) /\ \A s : ~IsPast(At(reqs[p], "commit"), s)
    BY <2>1, InFlight, AtInFlight DEF RequestOK, IsAdding, IsPast
  <2>3. DOMAIN y = Fields /\ y.arg = reqs[p].arg /\ y.step = reqs[p].step /\ y.id = reqs[p].id
    BY InFlight DEF Fields
  <2> HIDE DEF y
  <2>4. RequestOK(y) /\ \A s : ~IsPast(y, s)
    BY <2>1, <2>3, InFlight DEF RequestOK, IsPast
  <2> QED BY <2>1, <2>2, <2>4, ReadsAnswer, ReadsOn, ReadsStep
<1>3. CASE ReadStore(p)
  <2>1. reqs[p].step = "read" /\ Reads /\ \E answer : Set(p, Answered(reqs[p], answer))
    BY <1>3 DEF ReadStore
  <2> QED BY <2>1, ReadsAnswer
<1> QED BY <1>1, <1>2, <1>3

LEMMA DirectoryReads ==
    ASSUME IInv, NEW p \in Procs,
           UpdateStoreName(p) \/ FindStore(p) \/ FindRecorder(p) \/ CreateAccountName(p)
    PROVE  IInv'
<1>1. CASE UpdateStoreName(p)
  <2>1. /\ reqs[p].arg.op = "updateStore" /\ reqs[p].step = "name" /\ Reads
        /\ \/ Set(p, Answered(reqs[p], "invalid")) \/ Set(p, At(reqs[p], "commit"))
    BY <1>1 DEF UpdateStoreName, Serves, EnsureNoExactDuplicate
  <2>2. /\ RequestOK(At(reqs[p], "commit")) /\ ~IsAdding(At(reqs[p], "commit"))
        /\ \A s : ~IsPast(At(reqs[p], "commit"), s)
    BY <2>1, InFlight, AtInFlight, PlainRequest
  <2> QED BY <2>1, <2>2, ReadsAnswer, ReadsOn
<1>2. CASE FindStore(p)
  <2>1. /\ reqs[p].arg.op = "deleteStore" /\ reqs[p].step = "find" /\ Reads
        /\ \/ Set(p, Answered(reqs[p], "not_found"))
           \/ reqs[p].arg.store \in Live(stores) /\ Set(p, At(reqs[p], "commit"))
    BY <1>2 DEF FindStore, Serves
  <2>2. ASSUME reqs[p].arg.store \in Live(stores)
        PROVE  /\ RequestOK(At(reqs[p], "commit")) /\ ~IsAdding(At(reqs[p], "commit"))
               /\ \A s : ~IsPast(At(reqs[p], "commit"), s)
    <3>1. reqs[p].arg.store \in 1..last.store
      BY <2>2, Limits DEF IInv, TablesOK, Live, StoreIds
    <3> QED BY <2>1, <3>1, InFlight, AtInFlight DEF RequestOK, IsAdding, IsPast
  <2> QED BY <2>1, <2>2, ReadsAnswer, ReadsOn
<1>3. CASE FindRecorder(p)
  <2> DEFINE r == reqs[p].arg.recorder
             y == [At(reqs[p], "commit") EXCEPT !.id = recorders[r].store]
  <2>1. /\ reqs[p].arg.op = "deleteRecorder" /\ reqs[p].step = "find" /\ Reads
        /\ \/ Set(p, Answered(reqs[p], "not_found"))
           \/ r \in Live(recorders) /\ Set(p, y)
    BY <1>3 DEF FindRecorder, Serves
  <2>2. /\ DOMAIN y = Fields /\ y.arg = reqs[p].arg /\ y.step = "commit"
        /\ y.id = recorders[r].store
    BY AtInFlight DEF Fields
  <2> HIDE DEF y
  <2>3. ASSUME r \in Live(recorders) PROVE RequestOK(y) /\ ~IsAdding(y) /\ \A s : ~IsPast(y, s)
    <3>1. r \in 1..last.recorder /\ recorders[r].store \in Live(stores) /\ r \in RecorderIds
      BY <2>3, Limits DEF IInv, TablesOK, Live, RecorderIds
    <3>2. recorders[r].store \in 1..last.store
      BY <3>1, Limits DEF IInv, TablesOK, Live, StoreIds
    <3>3. \A s \in StoreIds : <<"create", "recorder", r, s>> \in log => s = recorders[r].store
      BY <2>3, <3>1 DEF IInv, LogOK
    <3> QED BY <2>1, <2>2, <3>1, <3>2, <3>3, InFlight DEF RequestOK, IsAdding, IsPast
  <2> QED BY <2>1, <2>3, ReadsAnswer, ReadsStep
<1>4. CASE CreateAccountName(p)
  <2>1. /\ reqs[p].arg.op = "createAccount" /\ reqs[p].step = "name" /\ Reads
        /\ \/ Set(p, Answered(reqs[p], "invalid")) \/ Set(p, At(reqs[p], "commit"))
    BY <1>4 DEF CreateAccountName, Serves
  <2>2. /\ RequestOK(At(reqs[p], "commit")) /\ ~IsAdding(At(reqs[p], "commit"))
        /\ \A s : ~IsPast(At(reqs[p], "commit"), s)
    BY <2>1, InFlight, AtInFlight, PlainRequest
  <2> QED BY <2>1, <2>2, ReadsAnswer, ReadsOn
<1> QED BY <1>1, <1>2, <1>3, <1>4

LEMMA RecorderReads ==
    ASSUME IInv, NEW p \in Procs,
           AddRecorderLimit(p) \/ AddRecorderCode(p) \/ FindRecorderStore(p)
    PROVE  IInv'
<1>1. CASE AddRecorderLimit(p)
  <2> DEFINE t == reqs[p].arg.store
  <2>1. /\ reqs[p].arg.op = "addRecorder" /\ reqs[p].step = "store" /\ Reads
        /\ \/ \E answer : Set(p, Answered(reqs[p], answer))
           \/ /\ t \in Live(stores) /\ ~(Cardinality(RecordersOf(t)) >= RecorderLimit)
              /\ Set(p, At(reqs[p], "code"))
    BY <1>1 DEF AddRecorderLimit, Serves
  <2>2. ASSUME t \in Live(stores), ~(Cardinality(RecordersOf(t)) >= RecorderLimit)
        PROVE  /\ RequestOK(At(reqs[p], "code")) /\ IsAdding(reqs[p])
               /\ \A s : IsPast(At(reqs[p], "code"), s) => Cardinality(RecordersOf(s)) < RecorderLimit
    <3>1. t \in 1..last.store
      BY <2>2, Limits DEF IInv, TablesOK, Live, StoreIds
    <3>2. Cardinality(RecordersOf(t)) < RecorderLimit
      BY <2>2, RecordersFinite, Limits DEF IInv
    <3> QED BY <2>1, <3>1, <3>2, InFlight, AtInFlight DEF RequestOK, IsAdding, IsPast
  <2> QED BY <2>1, <2>2, ReadsAnswer, ReadsOn
<1>2. CASE AddRecorderCode(p)
  <2>1. /\ reqs[p].arg.op = "addRecorder" /\ reqs[p].step = "code" /\ Reads
        /\ \/ Set(p, Answered(reqs[p], "invalid"))
           \/ \E step \in {"find", "commit"} : Set(p, At(reqs[p], step))
    BY <1>2 DEF AddRecorderCode, Serves
  <2>2. ASSUME NEW step \in {"find", "commit"}
        PROVE  /\ RequestOK(At(reqs[p], step)) /\ IsAdding(reqs[p])
               /\ \A s : IsPast(At(reqs[p], step), s) => IsPast(reqs[p], s)
    BY <2>1, <2>2, InFlight, AtInFlight DEF RequestOK, IsAdding, IsPast
  <2> QED BY <2>1, <2>2, ReadsAnswer, ReadsOn
<1>3. CASE FindRecorderStore(p)
  <2>1. /\ reqs[p].arg.op = "addRecorder" /\ reqs[p].step = "find" /\ Reads
        /\ \/ Set(p, Answered(reqs[p], "not_found")) \/ Set(p, At(reqs[p], "commit"))
    BY <1>3 DEF FindRecorderStore, Serves
  <2>2. /\ RequestOK(At(reqs[p], "commit")) /\ IsAdding(reqs[p])
        /\ \A s : IsPast(At(reqs[p], "commit"), s) => IsPast(reqs[p], s)
    BY <2>1, InFlight, AtInFlight DEF RequestOK, IsAdding, IsPast
  <2> QED BY <2>1, <2>2, ReadsAnswer, ReadsOn
<1> QED BY <1>1, <1>2, <1>3

LEMMA ListReads ==
    ASSUME IInv, NEW p \in Procs,
           ListCities(p) \/ ListRows(p) \/ ListMetrics(p) \/ ListSummary(p) \/ ListFails(p)
    PROVE  IInv'
<1>0. ASSUME NEW x, DOMAIN x = Fields, x.arg = reqs[p].arg, Set(p, x), Reads,
             reqs[p].arg.op = "list", reqs[p].step # "idle"
      PROVE  IInv'
  <2>1. RequestOK(x) /\ ~IsAdding(x) /\ \A s : ~IsPast(x, s)
    BY <1>0, InFlight, PlainRequest
  <2> QED BY <1>0, <2>1, ReadsStep
<1>1. CASE ListCities(p)
  <2> DEFINE y == At(reqs[p], "rows")
             x(cities) == [y EXCEPT !.page.cities = cities]
  <2>1. DOMAIN y = Fields /\ y.arg = reqs[p].arg
    BY AtInFlight
  <2>2. PICK cities : reqs[p].arg.op = "list" /\ reqs[p].step = "cities" /\ Reads /\ Set(p, x(cities))
    BY <1>1 DEF ListCities, Serves
  <2> HIDE DEF y
  <2>3. DOMAIN x(cities) = Fields /\ x(cities).arg = y.arg
    BY <2>1 DEF Fields
  <2> HIDE DEF x
  <2> QED BY <1>0, <2>1, <2>2, <2>3
<1>2. CASE ListRows(p)
  <2> DEFINE y == At(reqs[p], "metrics")
             x(order) == [y EXCEPT !.page.items = ListedItems(order, reqs[p].arg)]
  <2>1. DOMAIN y = Fields /\ y.arg = reqs[p].arg
    BY AtInFlight
  <2>2. PICK order : reqs[p].arg.op = "list" /\ reqs[p].step = "rows" /\ Reads /\ Set(p, x(order))
    BY <1>2 DEF ListRows, Serves
  <2> HIDE DEF y
  <2>3. DOMAIN x(order) = Fields /\ x(order).arg = y.arg
    BY <2>1 DEF Fields
  <2> HIDE DEF x
  <2> QED BY <1>0, <2>1, <2>2, <2>3
<1>3. CASE ListMetrics(p)
  <2> DEFINE req == reqs[p]
             x == [req EXCEPT !.page.items[req.i] = WithMetrics(@), !.i = @ + 1]
             y == [req EXCEPT !.i = @ + 1]
  <2>1. DOMAIN At(reqs[p], "summary") = Fields /\ At(reqs[p], "summary").arg = reqs[p].arg
    BY AtInFlight
  <2>2. /\ reqs[p].arg.op = "list" /\ reqs[p].step = "metrics" /\ Reads
        /\ Set(p, At(reqs[p], "summary")) \/ Set(p, x) \/ Set(p, y)
    BY <1>3 DEF ListMetrics, Serves
  <2>3. DOMAIN x = Fields /\ x.arg = reqs[p].arg /\ DOMAIN y = Fields /\ y.arg = reqs[p].arg
    BY InFlight DEF Fields
  <2> HIDE DEF x, y
  <2> QED BY <1>0, <2>1, <2>2, <2>3
<1>4. CASE ListSummary(p)
  <2> DEFINE y == Answered(reqs[p], "ok")
             x == [y EXCEPT !.page.stores = StoreListSummary(reqs[p].arg)]
  <2>1. DOMAIN y = Fields /\ y.arg = reqs[p].arg
    BY InFlight, AnsweredFields
  <2>2. reqs[p].arg.op = "list" /\ reqs[p].step = "summary" /\ Reads /\ Set(p, x)
    BY <1>4 DEF ListSummary, Serves
  <2> HIDE DEF y
  <2>3. DOMAIN x = Fields /\ x.arg = y.arg
    BY <2>1 DEF Fields
  <2> HIDE DEF x
  <2> QED BY <1>0, <2>1, <2>2, <2>3
<1>5. CASE ListFails(p)
  <2>1. /\ DOMAIN Answered(reqs[p], "error") = Fields
        /\ Answered(reqs[p], "error").arg = reqs[p].arg
    BY InFlight, AnsweredFields
  <2>2. /\ reqs[p].arg.op = "list" /\ reqs[p].step # "idle" /\ Reads
        /\ Set(p, Answered(reqs[p], "error"))
    BY <1>5 DEF ListFails
  <2> QED BY <1>0, <2>1, <2>2
<1> QED BY <1>1, <1>2, <1>3, <1>4, <1>5

LEMMA ListBegins ==
    ASSUME IInv, NEW p \in Procs, ListStores(p)
    PROVE  IInv'
<1> DEFINE A(in) == [At(Accepted(in), "cities") EXCEPT
                         !.page.total = Cardinality(Found(Accepted(in).arg))]
           B(order, in) == [Answered(Accepted(in), "ok") EXCEPT
                                !.page = MemoryPage(order, Accepted(in).arg)]
<1>1. PICK in \in Inputs, order \in ListOrders :
          /\ in.op = "list" /\ started < MaxRequests /\ started' = started + 1
          /\ Set(p, FirstQuery(order, Accepted(in)))
          /\ UNCHANGED <<deployment, storeTables, accounts, last>>
  BY DEF ListStores, Begin
<1>2. DOMAIN A(in) = Fields /\ A(in).arg = in
  <2> DEFINE y == At(Accepted(in), "cities")
             v == Cardinality(Found(Accepted(in).arg))
  <2>1. DOMAIN y = Fields /\ y.arg = in
    BY AcceptedRequest, AtFields
  <2> HIDE DEF y, v
  <2>2. DOMAIN [y EXCEPT !.page.total = v] = Fields /\ [y EXCEPT !.page.total = v].arg = in
    BY <2>1 DEF Fields
  <2> QED BY <2>2 DEF y, v
<1>3. DOMAIN B(order, in) = Fields /\ B(order, in).arg = in
  <2> DEFINE y == Answered(Accepted(in), "ok")
             v == MemoryPage(order, Accepted(in).arg)
  <2>1. DOMAIN y = Fields /\ y.arg = in
    BY AcceptedRequest, AnsweredFields
  <2> HIDE DEF y, v
  <2>2. DOMAIN [y EXCEPT !.page = v] = Fields /\ [y EXCEPT !.page = v].arg = in
    BY <2>1 DEF Fields
  <2> QED BY <2>2 DEF y, v
<1>4. PICK x : x = FirstQuery(order, Accepted(in)) /\ x \in {A(in), B(order, in)}
  BY DEF FirstQuery
<1> HIDE DEF A, B
<1>5. Set(p, x) /\ DOMAIN x = Fields /\ x.arg = in
  BY <1>1, <1>2, <1>3, <1>4
<1>6. RequestOK(x) /\ \A s : ~IsPast(x, s)
  BY <1>1, <1>5, PlainRequest
<1> QED BY <1>1, <1>5, <1>6, BeginStep

-----------------------------------------------------------------------------
(* Writes. *)

\* A request that has written and is over with the tables.
Finished(x) ==
    /\ DOMAIN x = Fields /\ x.arg \in Inputs
    /\ \/ x.step \in {"read", "done"}
       \/ x.arg.op \notin {"createStore", "addRecorder", "deleteStore", "deleteRecorder"}

\* The other requests keep what they rely on: ids are never given out again.
LEMMA WriteRequests ==
    ASSUME IInv, NEW p \in Procs, NEW x, Finished(x), SetWriting(p, x),
           UNCHANGED deployment,
           last'.store \in Nat, last'.recorder \in Nat,
           last.store <= last'.store, last.recorder <= last'.recorder,
           \A r \in 1..last.recorder, s \in StoreIds :
               <<"create", "recorder", r, s>> \in log' => <<"create", "recorder", r, s>> \in log
    PROVE  /\ RequestsOK'
           /\ Adding' = Adding \ {p}
           /\ \A s : Past(s)' = Past(s) \ {p}
<1>1. DOMAIN reqs' = Procs /\ reqs'[p] = x
  BY DEF SetWriting
<1>2. ASSUME NEW q \in Procs, q # p
      PROVE  /\ DOMAIN reqs'[q] = Fields /\ reqs'[q].arg = reqs[q].arg
             /\ reqs'[q].step = reqs[q].step /\ reqs'[q].id = reqs[q].id
  <2> DEFINE y == reqs[q]
  <2>1. reqs'[q] = [y EXCEPT !.calm = FALSE] /\ DOMAIN y = Fields
    BY <1>2, InFlight DEF SetWriting
  <2> HIDE DEF y
  <2> QED BY <2>1 DEF Fields, y
<1>3. ASSUME NEW q \in Procs, q # p PROVE RequestOK(reqs[q])'
  <2>1. RequestOK(reqs[q])
    BY InFlight
  <2>2. last.store \in Nat /\ last.recorder \in Nat
    BY DEF IInv, TablesOK
  <2>3. 1..last.store \subseteq 1..last'.store /\ 1..last.recorder \subseteq 1..last'.recorder
    BY <2>2
  <2>4. /\ reqs'[q].step # "idle" => reqs'[q].arg \in Inputs
        /\ reqs'[q].arg.op = "createStore" /\ reqs'[q].step \in {"name", "code", "commit"} =>
               ValidCreateStoreInput(reqs'[q].arg)
        /\ reqs'[q].arg.op = "addRecorder" /\ reqs'[q].step \in {"store", "code", "find", "commit"} =>
               CodesOf(reqs'[q].arg.codes) # << >>
    BY <2>1, <1>2, <1>3 DEF RequestOK
  <2>5. /\ reqs'[q].arg.op = "addRecorder" /\ reqs'[q].step \in {"code", "find", "commit"} =>
               reqs'[q].arg.store \in 1..last'.store
        /\ MySQL' /\ reqs'[q].arg.op = "deleteStore" /\ reqs'[q].step = "commit" =>
               reqs'[q].arg.store \in 1..last'.store
    BY <2>1, <2>3, <1>2, <1>3 DEF RequestOK, MySQL
  <2>6. MySQL' /\ reqs'[q].arg.op = "deleteRecorder" /\ reqs'[q].step = "commit" =>
           /\ reqs'[q].arg.recorder \in 1..last'.recorder /\ reqs'[q].id \in 1..last'.store
           /\ \A s \in StoreIds :
                  <<"create", "recorder", reqs'[q].arg.recorder, s>> \in log' => s = reqs'[q].id
    BY <2>1, <2>3, <1>2, <1>3 DEF RequestOK, MySQL
  <2> QED BY <2>4, <2>5, <2>6, <1>2, <1>3 DEF RequestOK
<1>4. RequestOK(reqs[p])'
  BY <1>1 DEF RequestOK, Finished
<1>5. Adding' = Adding \ {p}
  BY <1>1, <1>2 DEF Adding, IsAdding, Finished
<1>6. \A s : Past(s)' = Past(s) \ {p}
  BY <1>1, <1>2 DEF Past, IsPast, Finished
<1> QED BY <1>1, <1>3, <1>4, <1>5, <1>6 DEF RequestsOK

\* There is an id for what is inserted.
LEMMA IdsFor ==
    ASSUME IInv, NEW p \in Procs, IsAdding(reqs[p])
    PROVE  /\ last.store + 1 \in StoreIds
           /\ last.recorder + RecorderLimit <= RecorderLimit * (1 + MaxRequests)
           /\ \A n \in 1..RecorderLimit : last.recorder + n \in RecorderIds
<1>1. Cardinality(Adding) \in Nat /\ Cardinality(Adding) >= 1
  <2>1. p \in Adding /\ IsFiniteSet(Adding) /\ Cardinality(Adding) \in Nat
    BY CountsFinite DEF Adding
  <2>2. Cardinality(Adding) # 0
    BY <2>1, FS_EmptySet
  <2> QED BY <2>1, <2>2
<1>2. Over \in Int /\ Over <= MaxRequests /\ MaxRequests \in Nat /\ RecorderLimit \in Nat
  BY <1>1, Limits DEF IInv, IdsSuffice, Over
<1>3. last.store \in Nat /\ last.recorder \in Nat /\ last.store <= Over /\ last.recorder <= RecorderLimit * Over
  BY DEF IInv, IdsSuffice, TablesOK
<1>4. /\ RecorderLimit * Over <= RecorderLimit * MaxRequests
      /\ RecorderLimit * (MaxRequests + 1) = RecorderLimit * MaxRequests + RecorderLimit
      /\ RecorderLimit * Over \in Int /\ RecorderLimit * MaxRequests \in Int
  BY <1>2, TimesMonotone
<1>5. 1 + MaxRequests = MaxRequests + 1
  BY <1>2
<1>6. last.recorder + RecorderLimit <= RecorderLimit * (1 + MaxRequests)
  BY <1>2, <1>3, <1>4, <1>5
<1>7. \A n \in 1..RecorderLimit : last.recorder + n \in RecorderIds
  BY <1>2, <1>3, <1>4, <1>5, <1>6 DEF RecorderIds
<1> QED BY <1>2, <1>3, <1>6, <1>7 DEF StoreIds

LEMMA IdsAfterInsert ==
    ASSUME IInv, NEW p \in Procs, IsAdding(reqs[p]), Adding' = Adding \ {p},
           UNCHANGED started, last'.store \in Nat, last'.recorder \in Nat,
           last'.store <= last.store + 1, last'.recorder <= last.recorder + RecorderLimit
    PROVE  IdsSuffice'
<1>1. p \in Adding /\ IsFiniteSet(Adding) /\ Cardinality(Adding) \in Nat
  BY CountsFinite DEF Adding
<1>2. Cardinality(Adding') = Cardinality(Adding) - 1
  BY <1>1, FS_RemoveElement
<1>3. Over' = Over + 1 /\ Over \in Int /\ RecorderLimit \in Nat
  BY <1>1, <1>2, Limits DEF Over, IInv, IdsSuffice
<1>4. last.store \in Nat /\ last.recorder \in Nat /\ last.store <= Over /\ last.recorder <= RecorderLimit * Over
  BY DEF IInv, IdsSuffice, TablesOK
<1>5. RecorderLimit * (Over + 1) = RecorderLimit * Over + RecorderLimit /\ RecorderLimit * Over \in Int
  BY <1>3, TimesMonotone
<1>6. RecorderLimit * Over' = RecorderLimit * Over + RecorderLimit
  BY <1>3, <1>5
<1> QED BY <1>3, <1>4, <1>5, <1>6 DEF IdsSuffice, IInv

LEMMA IdsAfterWrite ==
    ASSUME IInv, NEW p \in Procs, Adding' = Adding \ {p}, UNCHANGED started,
           last'.store = last.store, last'.recorder = last.recorder
    PROVE  IdsSuffice'
<1>1. CASE IsAdding(reqs[p])
  <2>1. last.store \in Nat /\ last.recorder \in Nat /\ RecorderLimit \in Nat
    BY Limits DEF IInv, TablesOK
  <2> QED BY <1>1, <2>1, IdsAfterInsert
<1>2. CASE ~IsAdding(reqs[p])
  <2>1. Adding' = Adding
    BY <1>2 DEF Adding
  <2> QED BY <2>1 DEF IdsSuffice, IInv, Over
<1> QED BY <1>1, <1>2

\* Fewer recorders and fewer requests that may add one keep the limit.
LEMMA LimitShrinks ==
    ASSUME IInv, NEW s \in StoreIds, RecordersOf(s)' \subseteq RecordersOf(s), Past(s)' \subseteq Past(s)
    PROVE  (Cardinality(RecordersOf(s)) + Cardinality(Past(s))
                <= RecorderLimit + Cardinality(Procs) - 1)'
<1>1. Cardinality(Past(s)') <= Cardinality(Past(s)) /\ Cardinality(Past(s)') \in Nat
  BY CountsFinite, FS_Subset, FS_CardinalityType
<1>2. /\ Cardinality(RecordersOf(s)') <= Cardinality(RecordersOf(s))
      /\ Cardinality(RecordersOf(s)') \in Nat
  BY RecordersFinite, FS_Subset, FS_CardinalityType DEF IInv
<1>3. Cardinality(Past(s)) \in Nat /\ Cardinality(Procs) \in Nat /\ RecorderLimit \in Nat
  BY CountsFinite, Limits
<1>4. Cardinality(RecordersOf(s)) \in Nat
  BY RecordersFinite DEF IInv
<1>5. Cardinality(RecordersOf(s)) + Cardinality(Past(s)) <= RecorderLimit + Cardinality(Procs) - 1
  BY DEF IInv, LimitOK
<1> QED BY <1>1, <1>2, <1>3, <1>4, <1>5

\* The rows that are inserted, and the others.
Fresh(codes) == (last.recorder + 1)..(last.recorder + Len(codes))

LEMMA InsertedRecorders ==
    ASSUME IInv, NEW p \in Procs, IsAdding(reqs[p]), NEW codes \in Seq(Codes),
           Len(codes) <= RecorderLimit, NEW s \in StoreIds, recorders' = NewRecorders(codes, s)
    PROVE  /\ DOMAIN recorders' = RecorderIds /\ Fresh(codes) \subseteq RecorderIds
           /\ \A r \in Fresh(codes) :
                  /\ recorders'[r].store = s /\ recorders'[r].code = codes[r - last.recorder]
                  /\ recorders'[r].code \in Codes /\ r \notin Live(recorders)
           /\ \A r \in RecorderIds \ Fresh(codes) : recorders'[r] = recorders[r]
           /\ Live(recorders)' = Live(recorders) \cup Fresh(codes)
<1>1. last.recorder \in Nat /\ RecorderLimit \in Nat /\ Len(codes) \in Nat
  BY Limits DEF IInv, TablesOK
<1>2. Fresh(codes) \subseteq RecorderIds
  <2> SUFFICES ASSUME NEW r \in Fresh(codes) PROVE r \in RecorderIds
    OBVIOUS
  <2>1. r - last.recorder \in 1..RecorderLimit /\ r = last.recorder + (r - last.recorder)
    BY <1>1 DEF Fresh
  <2> QED BY <2>1, IdsFor
<1>3. /\ DOMAIN recorders' = RecorderIds
      /\ \A r \in RecorderIds : recorders'[r] = IF r \in Fresh(codes)
             THEN [store |-> s, code |-> codes[r - last.recorder]] ELSE recorders[r]
  BY DEF NewRecorders, Fresh
<1>4. ASSUME NEW r \in Fresh(codes)
      PROVE  /\ recorders'[r].store = s /\ recorders'[r].code = codes[r - last.recorder]
             /\ recorders'[r].code \in Codes /\ r \notin Live(recorders) /\ recorders'[r] # Missing
  <2>1. r - last.recorder \in 1..Len(codes)
    BY <1>1 DEF Fresh
  <2>2. codes[r - last.recorder] \in Codes
    BY <2>1
  <2>3. recorders'[r] = [store |-> s, code |-> codes[r - last.recorder]]
    BY <1>2, <1>3
  <2>4. recorders'[r] # Missing
    BY <2>2, <2>3, DirectoryAssumption
  <2>5. r \notin Live(recorders)
    BY <1>1 DEF IInv, TablesOK, Fresh
  <2> QED BY <2>2, <2>3, <2>4, <2>5
<1>5. \A r \in RecorderIds \ Fresh(codes) : recorders'[r] = recorders[r]
  BY <1>3
<1>6. Live(recorders)' = Live(recorders) \cup Fresh(codes)
  <2>1. DOMAIN recorders = RecorderIds
    BY DEF IInv, TablesOK
  <2> QED BY <2>1, <1>2, <1>3, <1>4, <1>5 DEF Live
<1> QED BY <1>2, <1>3, <1>4, <1>5, <1>6

LEMMA InsertedOf ==
    ASSUME IInv, NEW p \in Procs, IsAdding(reqs[p]), NEW codes \in Seq(Codes),
           Len(codes) <= RecorderLimit, NEW s \in StoreIds, recorders' = NewRecorders(codes, s)
    PROVE  /\ RecordersOf(s)' = RecordersOf(s) \cup Fresh(codes)
           /\ \A t : t # s => RecordersOf(t)' = RecordersOf(t)
<1>1. Live(recorders) \subseteq RecorderIds
  BY DEF IInv, TablesOK, Live
<1> QED BY <1>1, InsertedRecorders DEF RecordersOf

\* The codes of a request that inserts.
LEMMA AddingCodes ==
    ASSUME IInv, NEW p \in Procs, reqs[p].step = "commit",
           reqs[p].arg.op \in {"createStore", "addRecorder"}
    PROVE  /\ IsAdding(reqs[p]) /\ reqs[p].arg \in Inputs
           /\ CodesOf(reqs[p].arg.codes) \in Seq(Codes)
           /\ Len(CodesOf(reqs[p].arg.codes)) <= RecorderLimit
           /\ reqs[p].arg.op = "createStore" =>
                  \A i, j \in 1..Len(CodesOf(reqs[p].arg.codes)) :
                      CodesOf(reqs[p].arg.codes)[i] = CodesOf(reqs[p].arg.codes)[j] => i = j
           /\ reqs[p].arg.op = "addRecorder" =>
                  /\ Len(CodesOf(reqs[p].arg.codes)) = 1
                  /\ reqs[p].arg.store \in 1..last.store /\ reqs[p].arg.store \in StoreIds
<1> DEFINE in == reqs[p].arg
           codes == CodesOf(in.codes)
<1>1. IsAdding(reqs[p]) /\ in \in Inputs
  BY InFlight DEF IsAdding
<1>2. in \in Coded
  BY <1>1 DEF Coded
<1>3. codes \in Seq(Codes) /\ Len(codes) <= Len(in.codes)
  BY <1>2, InputCodes
<1>4. Len(in.codes) \in Nat /\ Len(codes) \in Nat /\ RecorderLimit \in Nat \ {0}
  BY <1>2, <1>3, DirectoryAssumption
<1>5. CASE in.op = "createStore"
  <2>1. Len(in.codes) <= RecorderLimit /\ IsInjective(codes)
    BY <1>5, InFlight DEF RequestOK, ValidCreateStoreInput
  <2> HIDE DEF codes
  <2>2. DOMAIN codes = 1..Len(codes)
    BY <1>3
  <2>3. \A i, j \in 1..Len(codes) : codes[i] = codes[j] => i = j
    BY <2>1, <2>2 DEF IsInjective
  <2> QED BY <1>1, <1>3, <1>4, <1>5, <2>1, <2>3 DEF codes
<1>6. CASE in.op = "addRecorder"
  <2>1. Len(in.codes) = 1 /\ codes # << >> /\ in.store \in 1..last.store
    BY <1>1, <1>6, InFlight, DirectoryAssumption DEF RequestOK
  <2> HIDE DEF codes, in
  <2>2. Len(codes) = 1
    <3>1. Len(codes) = 0 => codes = << >>
      BY <1>3
    <3>2. Len(codes) # 0
      BY <3>1, <2>1, Zenon
    <3>3. Len(codes) <= 1 /\ Len(codes) \in Nat
      BY <1>3, <1>4, <2>1
    <3>4. \A n \in Nat : n # 0 /\ n <= 1 => n = 1
      OBVIOUS
    <3> QED BY <3>2, <3>3, <3>4, Zenon
  <2>3. last.store + 1 \in StoreIds
    BY <1>1, IdsFor
  <2>4. in.store \in StoreIds
    BY <2>1, <2>3, Limits DEF StoreIds, IInv, TablesOK
  <2> QED BY <1>1, <1>3, <1>4, <1>6, <2>1, <2>2, <2>4 DEF codes, in
<1> QED BY <1>5, <1>6

\* An answer in place of a write.
LEMMA Refused ==
    ASSUME IInv, NEW p \in Procs, reqs[p].step # "idle", NEW answer,
           Set(p, Answered(reqs[p], answer)), UNCHANGED <<tables, started>>
    PROVE  IInv'
BY ReadsAnswer DEF Reads, tables, storeTables

LEMMA FinishedAnswer ==
    ASSUME IInv, NEW p \in Procs, reqs[p].step # "idle"
    PROVE  /\ \A answer : Finished(Answered(reqs[p], answer))
           /\ \A id : Finished([At(reqs[p], "read") EXCEPT !.id = id])
<1>1. ASSUME NEW answer PROVE Finished(Answered(reqs[p], answer))
  BY InFlight, AnsweredFields DEF Finished
<1>2. ASSUME NEW id PROVE Finished([At(reqs[p], "read") EXCEPT !.id = id])
  <2> DEFINE y == At(reqs[p], "read")
  <2>1. DOMAIN y = Fields /\ y.arg \in Inputs /\ y.step = "read"
    BY InFlight, AtInFlight
  <2> HIDE DEF y
  <2>2. Finished([y EXCEPT !.id = id])
    BY <2>1 DEF Fields, Finished
  <2> QED BY <2>2 DEF y
<1> QED BY <1>1, <1>2

\* A store and its recorders are inserted, on either repository.
LEMMA InsertedStore ==
    ASSUME IInv, NEW p \in Procs, Serves(p, "createStore", "commit"),
           InsertStore(reqs[p], CodesOf(reqs[p].arg.codes)), UNCHANGED deployment
    PROVE  /\ TablesOK' /\ last.store + 1 \in StoreIds
           /\ Live(stores)' = Live(stores) \cup {last.store + 1}
           /\ last'.store = last.store + 1
           /\ last'.recorder = last.recorder + Len(CodesOf(reqs[p].arg.codes))
           /\ Len(CodesOf(reqs[p].arg.codes)) \in 0..RecorderLimit
<1> DEFINE in == reqs[p].arg
           codes == CodesOf(in.codes)
           s == last.store + 1
<1>1. /\ reqs[p].step = "commit" /\ in.op = "createStore"
      /\ stores' = [stores EXCEPT ![s] = NewStore(in)]
      /\ recorders' = NewRecorders(codes, s)
      /\ last' = [last EXCEPT !.store = s, !.recorder = @ + Len(codes)]
  BY DEF Serves, InsertStore
<1>2. IsAdding(reqs[p]) /\ in \in Inputs /\ codes \in Seq(Codes) /\ Len(codes) <= RecorderLimit
  BY <1>1, AddingCodes
<1>3. s \in StoreIds
  BY <1>2, IdsFor
<1> HIDE DEF codes
<1>4. Len(codes) \in Nat /\ Len(codes) \in 0..RecorderLimit
  BY <1>2, DirectoryAssumption
<1>5. /\ DOMAIN stores = StoreIds /\ DOMAIN recorders = RecorderIds /\ deployment \in Deployments
      /\ DOMAIN last = {"store", "recorder", "account"}
      /\ last.store \in Nat /\ last.recorder \in Nat
      /\ \A t \in Live(stores) : t <= last.store
      /\ \A r \in Live(recorders) : /\ r <= last.recorder
                                    /\ recorders[r].store \in Live(stores)
                                    /\ recorders[r].code \in Codes
  BY DEF IInv, TablesOK
<1>6. /\ DOMAIN last' = {"store", "recorder", "account"}
      /\ last'.store = s /\ last'.recorder = last.recorder + Len(codes)
  BY <1>1, <1>5
<1>7. NewStore(in) # Missing
  BY <1>1, <1>2, DirectoryAssumption DEF NewStore
<1>8. DOMAIN stores' = StoreIds /\ Live(stores)' = Live(stores) \cup {s}
  BY <1>1, <1>3, <1>5, <1>7 DEF Live
<1>9. /\ DOMAIN recorders' = RecorderIds /\ Live(recorders)' = Live(recorders) \cup Fresh(codes)
      /\ \A r \in Fresh(codes) : recorders'[r].store = s /\ recorders'[r].code \in Codes
      /\ \A r \in RecorderIds \ Fresh(codes) : recorders'[r] = recorders[r]
  BY <1>1, <1>2, <1>3, InsertedRecorders
<1>10. \A r \in Live(recorders) : r \in RecorderIds \ Fresh(codes)
  BY <1>5 DEF Live, Fresh
<1>11. ASSUME NEW r \in Live(recorders)'
       PROVE  /\ r <= last'.recorder /\ recorders'[r].store \in Live(stores)'
              /\ recorders'[r].code \in Codes
  <2>1. CASE r \in Live(recorders)
    <3>1. r \in Nat
      BY <2>1, <1>10, Limits DEF RecorderIds
    <3> QED BY <2>1, <3>1, <1>4, <1>5, <1>6, <1>8, <1>9, <1>10
  <2>2. CASE r \in Fresh(codes)
    <3>1. r <= last.recorder + Len(codes)
      BY <2>2, <1>4, <1>5 DEF Fresh
    <3> QED BY <2>2, <3>1, <1>6, <1>8, <1>9
  <2> QED BY <2>1, <2>2, <1>9, <1>11
<1>12. \A t \in Live(stores)' : t <= last'.store
  <2>1. \A t \in Live(stores) : t \in Int
    BY <1>5 DEF Live, StoreIds
  <2> QED BY <2>1, <1>5, <1>6, <1>8
<1>13. TablesOK'
  BY <1>4, <1>5, <1>6, <1>8, <1>9, <1>11, <1>12 DEF TablesOK
<1> QED BY <1>3, <1>4, <1>6, <1>8, <1>13 DEF codes

\* A new store has at most as many recorders as a store may have, and no
\* request has found it yet.
LEMMA InsertedStoreLimit ==
    ASSUME IInv, NEW p \in Procs, Serves(p, "createStore", "commit"),
           InsertStore(reqs[p], CodesOf(reqs[p].arg.codes)),
           \A s : Past(s)' = Past(s) \ {p}
    PROVE  LimitOK'
<1> DEFINE in == reqs[p].arg
           codes == CodesOf(in.codes)
<1>0. PICK s : s = last.store + 1
  OBVIOUS
<1>1. reqs[p].step = "commit" /\ in.op = "createStore" /\ recorders' = NewRecorders(codes, s)
  BY <1>0 DEF Serves, InsertStore
<1>2. IsAdding(reqs[p]) /\ codes \in Seq(Codes) /\ Len(codes) <= RecorderLimit
  BY <1>1, AddingCodes
<1>3. s \in StoreIds
  BY <1>0, <1>2, IdsFor
<1>4. last.store \in Nat /\ last.recorder \in Nat /\ RecorderLimit \in Nat
  BY Limits DEF IInv, TablesOK
<1> HIDE DEF codes
<1>5. /\ RecordersOf(s)' = RecordersOf(s) \cup Fresh(codes)
      /\ \A t : t # s => RecordersOf(t)' = RecordersOf(t)
  BY <1>1, <1>2, <1>3, InsertedOf
<1>6. RecordersOf(s) = {}
  BY <1>0, <1>4 DEF RecordersOf, IInv, TablesOK, Live, StoreIds
<1>7. Cardinality(RecordersOf(s)') = Len(codes) /\ Len(codes) \in Nat
  <2>1. Len(codes) \in Nat
    BY <1>2
  <2>0. last.recorder + 1 \in Int /\ last.recorder + Len(codes) \in Int
    BY <2>1, <1>4
  <2>2. Cardinality(Fresh(codes)) =
            IF last.recorder + 1 > last.recorder + Len(codes) THEN 0
            ELSE (last.recorder + Len(codes)) - (last.recorder + 1) + 1
    BY <2>0, FS_Interval, Zenon DEF Fresh
  <2>3. Cardinality(Fresh(codes)) = Len(codes)
    <3> DEFINE n == Len(codes)
    <3> HIDE DEF n
    <3>1. n \in Nat /\ Cardinality(Fresh(codes)) =
            IF last.recorder + 1 > last.recorder + n THEN 0
            ELSE (last.recorder + n) - (last.recorder + 1) + 1
      BY <2>1, <2>2 DEF n
    <3>2. Cardinality(Fresh(codes)) = n
      BY <3>1, <1>4
    <3> QED BY <3>2 DEF n
  <2>4. RecordersOf(s)' = Fresh(codes)
    BY <1>5, <1>6
  <2> QED BY <2>1, <2>3, <2>4
<1>8. Past(s)' = {}
  <2>1. \A q \in Procs : ~IsPast(reqs[q], s)
    BY <1>0, <1>4, InFlight DEF RequestOK, IsPast
  <2> QED BY <2>1 DEF Past
<1>9. Cardinality(Past(s)') = 0 /\ Cardinality(Procs) \in Nat \ {0}
  BY <1>8, FS_EmptySet, CountsFinite
<1>10. ASSUME NEW t \in StoreIds
       PROVE  (Cardinality(RecordersOf(t)) + Cardinality(Past(t))
                <= RecorderLimit + Cardinality(Procs) - 1)'
  <2>1. CASE t = s
    BY <2>1, <1>2, <1>4, <1>7, <1>9
  <2>2. CASE t # s
    <3>1. RecordersOf(t)' \subseteq RecordersOf(t) /\ Past(t)' \subseteq Past(t)
      BY <2>2, <1>5
    <3> QED BY <3>1, LimitShrinks
  <2> QED BY <2>1, <2>2
<1> QED BY <1>10 DEF LimitOK

LEMMA MySQLCreates ==
    ASSUME IInv, NEW p \in Procs, MySQLCreateStore(p)
    PROVE  IInv'
<1> DEFINE req == reqs[p]
           codes == CodesOf(req.arg.codes)
           y == [At(req, "read") EXCEPT !.id = last.store + 1]
<1>0. Serves(p, "createStore", "commit") /\ req.step # "idle" /\ MySQL
  BY DEF MySQLCreateStore, Serves
<1>1. CASE Set(p, Answered(req, "error")) /\ UNCHANGED <<tables, started>>
  BY <1>0, <1>1, Refused
<1>2. CASE /\ InsertStore(req, codes) /\ SetWriting(p, y)
           /\ log' = log \cup {<<"create", "store", last.store + 1, last.store + 1>>}
           /\ UNCHANGED <<deployment, deviceCodes, accounts, started>>
  <2>0. PICK s : s = last.store + 1
    OBVIOUS
  <2>1. /\ TablesOK' /\ s \in StoreIds /\ Live(stores)' = Live(stores) \cup {s}
        /\ last'.store = s /\ last'.recorder = last.recorder + Len(codes)
        /\ Len(codes) \in 0..RecorderLimit
    BY <1>0, <1>2, <2>0, InsertedStore
  <2>2. Finished(y)
    BY <1>0, FinishedAnswer
  <2>3. last.store \in Nat /\ last.recorder \in Nat /\ RecorderLimit \in Nat
    BY Limits DEF IInv, TablesOK
  <2>4. IsAdding(req)
    BY <1>0, AddingCodes DEF Serves
  <2> HIDE DEF y, codes
  <2>5. /\ last'.store \in Nat /\ last'.recorder \in Nat
        /\ last.store <= last'.store /\ last.recorder <= last'.recorder
        /\ last'.store <= last.store + 1 /\ last'.recorder <= last.recorder + RecorderLimit
    BY <2>0, <2>1, <2>3
  <2>6. RequestsOK' /\ Adding' = Adding \ {p} /\ \A t : Past(t)' = Past(t) \ {p}
    BY <1>2, <2>2, <2>5, WriteRequests
  <2>7. IdsSuffice'
    BY <1>2, <2>4, <2>5, <2>6, IdsAfterInsert
  <2>8. LimitOK'
    BY <1>0, <1>2, <2>6, InsertedStoreLimit DEF codes
  <2>9. IndexOK'
    BY <1>0, <1>2 DEF IInv, IndexOK, IndexNeverDangles, MySQL
  <2>10. LogOK'
    <3>1. \A r \in RecorderIds, t \in StoreIds :
              /\ <<"create", "recorder", r, t>> \in log' <=> <<"create", "recorder", r, t>> \in log
              /\ <<"delete", "recorder", r, t>> \in log' <=> <<"delete", "recorder", r, t>> \in log
              /\ <<"delete", "store", t, t>> \in log' <=> <<"delete", "store", t, t>> \in log
              /\ <<"create", "store", t, t>> \in log' <=> <<"create", "store", t, t>> \in log \/ t = s
      BY <1>2, <2>0
    <3>2. \A t \in StoreIds :
              /\ <<"create", "store", t, t>> \in log' <=> <<"create", "store", t, t>> \in log \/ t = s
              /\ <<"delete", "store", t, t>> \in log' <=> <<"delete", "store", t, t>> \in log
      BY <1>2, <2>0
    <3>3. /\ \A r \in RecorderIds : r <= last.recorder =>
                 recorders'[r] = recorders[r] /\ (r \in Live(recorders)' <=> r \in Live(recorders))
      <4>1. /\ \A r \in RecorderIds \ Fresh(codes) : recorders'[r] = recorders[r]
            /\ Live(recorders)' = Live(recorders) \cup Fresh(codes)
        <5>1. recorders' = NewRecorders(codes, s) /\ codes \in Seq(Codes) /\ Len(codes) <= RecorderLimit
          BY <1>0, <1>2, <2>0, AddingCodes DEF codes, InsertStore, Serves
        <5> QED BY <5>1, <2>1, <2>4, InsertedRecorders
      <4>2. \A r \in RecorderIds : r <= last.recorder => r \notin Fresh(codes)
        BY <2>1, <2>3 DEF Fresh, RecorderIds
      <4> QED BY <4>1, <4>2
    <3>4. StoreIds \subseteq Int /\ RecorderIds \subseteq Int
      BY DEF StoreIds, RecorderIds
    <3>5. \A t \in StoreIds :
            <<"create", "store", t, t>> \in log' \/ <<"delete", "store", t, t>> \in log' => t <= last'.store
      BY <2>1, <2>3, <2>5, <3>2, <3>4 DEF IInv, LogOK
    <3>6. \A r \in RecorderIds, t \in StoreIds :
             /\ <<"delete", "recorder", r, t>> \in log' => r <= last'.recorder
             /\ <<"create", "recorder", r, t>> \in log' =>
                  /\ r <= last'.recorder
                  /\ r \in Live(recorders)' => recorders'[r].store = t
                  /\ \A u \in StoreIds : <<"create", "recorder", r, u>> \in log' => u = t
      <4> TAKE r \in RecorderIds, t \in StoreIds
      <4>1. r <= last.recorder => r <= last'.recorder
        BY <2>3, <2>5, <3>4
      <4> QED BY <4>1, <3>1, <3>3 DEF IInv, LogOK
    <3>7. Live(stores)' = {t \in StoreIds : /\ <<"create", "store", t, t>> \in log'
                                            /\ <<"delete", "store", t, t>> \notin log'}
      <4>1. Live(stores) = {t \in StoreIds : /\ <<"create", "store", t, t>> \in log
                                             /\ <<"delete", "store", t, t>> \notin log}
        BY <1>0 DEF IInv, LogOK, LogTellsDirectory
      <4>2. <<"delete", "store", s, s>> \notin log
        <5>1. <<"delete", "store", s, s>> \in log => s <= last.store
          BY <2>1, Zenon DEF IInv, LogOK
        <5>2. ~(s <= last.store)
          BY <2>0, <2>3
        <5> QED BY <5>1, <5>2
      <4> QED BY <4>1, <4>2, <2>1, <3>2
    <3>8. \A r \in RecorderIds, t \in StoreIds :
               <<"create", "recorder", r, t>> \in log' =>
                   (r \in Live(recorders)' <=> /\ <<"delete", "recorder", r, t>> \notin log'
                                               /\ <<"delete", "store", t, t>> \notin log')
      BY <1>0, <3>1, <3>3, ZenonT(60) DEF IInv, LogOK, LogTellsDirectory
    <3> QED BY <3>5, <3>6, <3>7, <3>8 DEF LogOK, LogTellsDirectory
  <2> QED BY <2>1, <2>6, <2>7, <2>8, <2>9, <2>10 DEF IInv
<1> QED BY <1>1, <1>2 DEF MySQLCreateStore, tables

LEMMA MemoryCreates ==
    ASSUME IInv, NEW p \in Procs, MemoryCreateStore(p)
    PROVE  IInv'
<1> DEFINE req == reqs[p]
           codes == CodesOf(req.arg.codes)
           y == Answered(req, "created")
<1>1. /\ Serves(p, "createStore", "commit") /\ req.step = "commit" /\ req.arg.op = "createStore"
      /\ ~MySQL /\ InsertStore(req, codes)
      /\ deviceCodes' = [c \in Codes |->
               IF \E i \in DOMAIN codes : codes[i] = c
               THEN last.recorder + (CHOOSE i \in DOMAIN codes : codes[i] = c)
               ELSE deviceCodes[c]]
      /\ SetWriting(p, y) /\ UNCHANGED <<deployment, accounts, log, started>>
  BY DEF MemoryCreateStore, Serves
<1>0. PICK s : s = last.store + 1
  OBVIOUS
<1>2. /\ TablesOK' /\ s \in StoreIds
      /\ last'.store = s /\ last'.recorder = last.recorder + Len(codes)
      /\ Len(codes) \in 0..RecorderLimit
  BY <1>0, <1>1, InsertedStore
<1>3. Finished(y)
  BY <1>1, FinishedAnswer
<1>4. last.store \in Nat /\ last.recorder \in Nat /\ RecorderLimit \in Nat
  BY Limits DEF IInv, TablesOK
<1>5. IsAdding(req) /\ codes \in Seq(Codes) /\ Len(codes) <= RecorderLimit
  BY <1>1, AddingCodes
<1>6. recorders' = NewRecorders(codes, s)
  BY <1>0, <1>1 DEF InsertStore
<1> HIDE DEF y, codes
<1>7. /\ last'.store \in Nat /\ last'.recorder \in Nat
      /\ last.store <= last'.store /\ last.recorder <= last'.recorder
      /\ last'.store <= last.store + 1 /\ last'.recorder <= last.recorder + RecorderLimit
  BY <1>0, <1>2, <1>4
<1>8. RequestsOK' /\ Adding' = Adding \ {p} /\ \A t : Past(t)' = Past(t) \ {p}
  BY <1>1, <1>3, <1>7, WriteRequests
<1>9. IdsSuffice'
  BY <1>1, <1>5, <1>7, <1>8, IdsAfterInsert
<1>10. LimitOK'
  BY <1>1, <1>8, InsertedStoreLimit DEF codes
<1>11. /\ Fresh(codes) \subseteq RecorderIds
       /\ \A r \in Fresh(codes) : recorders'[r].code = codes[r - last.recorder]
       /\ \A r \in RecorderIds \ Fresh(codes) : recorders'[r] = recorders[r]
       /\ Live(recorders)' = Live(recorders) \cup Fresh(codes)
  BY <1>2, <1>5, <1>6, InsertedRecorders
<1>12. IndexOK'
  <2>1. ASSUME NEW c \in Codes
        PROVE  /\ deviceCodes'[c] \in Nat
               /\ deviceCodes'[c] # 0 => /\ deviceCodes'[c] \in Live(recorders)'
                                         /\ recorders'[deviceCodes'[c]].code = c
    <3>1. CASE \E i \in DOMAIN codes : codes[i] = c
      <4>1. PICK i \in DOMAIN codes : codes[i] = c /\ deviceCodes'[c] = last.recorder + i
        BY <1>1, <3>1
      <4>2. i \in 1..Len(codes) /\ Len(codes) \in Nat
        BY <1>5
      <4>3. last.recorder + i \in Fresh(codes) /\ (last.recorder + i) - last.recorder = i
        BY <1>4, <4>2 DEF Fresh
      <4>4. last.recorder + i \in Nat
        BY <1>4, <4>2
      <4> QED BY <1>11, <4>1, <4>3, <4>4
    <3>2. CASE ~\E i \in DOMAIN codes : codes[i] = c
      <4>1. deviceCodes'[c] = deviceCodes[c] /\ deviceCodes[c] \in Nat
        BY <1>1, <3>2 DEF IInv, IndexOK
      <4>2. deviceCodes[c] # 0 => /\ deviceCodes[c] \in Live(recorders)
                                  /\ recorders[deviceCodes[c]].code = c
        BY DEF IInv, IndexOK, IndexNeverDangles
      <4>3. \A r \in Live(recorders) : r \in RecorderIds \ Fresh(codes)
        BY <1>4 DEF IInv, TablesOK, Live, Fresh
      <4> QED BY <1>11, <4>1, <4>2, <4>3
    <3> QED BY <3>1, <3>2
  <2>2. deviceCodes' \in [Codes -> Nat]
    BY <1>1, <2>1
  <2>3. IndexNeverDangles'
    BY <2>1 DEF IndexNeverDangles
  <2>4. ~MySQL'
    BY <1>1 DEF MySQL
  <2> QED BY <2>2, <2>3, <2>4 DEF IndexOK
<1>13. LogOK'
  <2>1. ASSUME NEW r \in RecorderIds, r <= last.recorder
        PROVE  recorders'[r] = recorders[r] /\ (r \in Live(recorders)' <=> r \in Live(recorders))
    <3>1. r \notin Fresh(codes)
      BY <2>1, <1>2, <1>4 DEF Fresh, RecorderIds
    <3> QED BY <3>1, <1>11
  <2>2. StoreIds \subseteq Int /\ RecorderIds \subseteq Int
    BY DEF StoreIds, RecorderIds
  <2>3. \A t \in StoreIds : t <= last.store => t <= last'.store
    BY <2>2, <1>4, <1>7
  <2>4. \A r \in RecorderIds : r <= last.recorder => r <= last'.recorder
    BY <2>2, <1>4, <1>7
  <2>5. ~MySQL'
    BY <1>1 DEF MySQL
  <2> QED BY <1>1, <2>1, <2>3, <2>4, <2>5 DEF IInv, LogOK, LogTellsDirectory
<1> QED BY <1>2, <1>8, <1>9, <1>10, <1>12, <1>13 DEF IInv

\* The ids that were given out are ids of the tables.
LEMMA GivenIds ==
    ASSUME IInv
    PROVE  1..last.recorder \subseteq RecorderIds /\ 1..last.store \subseteq StoreIds
<1>1. /\ Cardinality(Adding) \in Nat /\ started \in Nat /\ started <= MaxRequests /\ RecorderLimit \in Nat
      /\ MaxRequests \in Nat
  BY CountsFinite, Limits DEF IInv, IdsSuffice
<1>2. Over \in Int /\ Over <= 1 + MaxRequests
  BY <1>1 DEF Over
<1>3. /\ RecorderLimit * Over <= RecorderLimit * (1 + MaxRequests) /\ RecorderLimit * Over \in Int
      /\ RecorderLimit * (1 + MaxRequests) \in Int
  BY <1>1, <1>2, TimesMonotone
<1>4. /\ last.recorder \in Nat /\ last.store \in Nat
      /\ last.recorder <= RecorderLimit * Over /\ last.store <= Over
  BY DEF IInv, IdsSuffice, TablesOK
<1>5. last.recorder <= RecorderLimit * (1 + MaxRequests) /\ last.store <= 1 + MaxRequests
  BY <1>1, <1>2, <1>3, <1>4
<1> QED BY <1>1, <1>3, <1>4, <1>5 DEF RecorderIds, StoreIds

\* A store is changed: the ids stay those there are.
LEMMA CommitsUpdate ==
    ASSUME IInv, NEW p \in Procs, CommitUpdateStore(p)
    PROVE  IInv'
<1> DEFINE req == reqs[p]
           s == req.arg.store
           y == IF MySQL THEN [At(req, "read") EXCEPT !.id = s] ELSE Answered(req, "ok")
<1>0. Serves(p, "updateStore", "commit") /\ req.step # "idle" /\ req.arg.op = "updateStore"
  BY DEF CommitUpdateStore, Serves
<1>1. CASE (\E answer : Set(p, Answered(req, answer))) /\ UNCHANGED <<tables, started>>
  BY <1>0, <1>1, Refused
<1>2. CASE /\ s \in Live(stores) /\ stores' = [stores EXCEPT ![s] = NewStore(req.arg)]
           /\ log' = IF MySQL THEN log \cup {<<"update", "store", s, s>>} ELSE log
           /\ SetWriting(p, y)
           /\ UNCHANGED <<deployment, recorders, deviceCodes, accounts, last, started>>
  <2>1. Finished(y)
    BY <1>0, FinishedAnswer
  <2> HIDE DEF y
  <2>2. NewStore(req.arg) # Missing
    BY <1>0, InFlight, DirectoryAssumption DEF NewStore
  <2>3. DOMAIN stores' = DOMAIN stores /\ Live(stores)' = Live(stores)
    BY <1>2, <2>2 DEF Live
  <2>4. last.store \in Nat /\ last.recorder \in Nat
    BY DEF IInv, TablesOK
  <2>5. \A a, e, i, t : a # "update" => (<<a, e, i, t>> \in log' <=> <<a, e, i, t>> \in log)
    BY <1>2
  <2>6. RequestsOK' /\ Adding' = Adding \ {p} /\ \A t : Past(t)' = Past(t) \ {p}
    BY <1>2, <2>1, <2>4, <2>5, WriteRequests
  <2>7. IdsSuffice'
    BY <1>2, <2>6, IdsAfterWrite
  <2>8. TablesOK'
    BY <1>2, <2>3 DEF IInv, TablesOK, Live
  <2>9. Live(recorders)' = Live(recorders) /\ \A t : RecordersOf(t)' = RecordersOf(t)
    BY <1>2 DEF RecordersOf, Live
  <2>10. LimitOK'
    BY <2>6, <2>9, LimitShrinks DEF LimitOK
  <2>11. IndexOK'
    BY <1>2, <2>9 DEF IInv, IndexOK, IndexNeverDangles, MySQL
  <2>12. LogOK'
    BY <1>2, <2>3, <2>5, <2>9 DEF IInv, LogOK, LogTellsDirectory, MySQL
  <2> QED BY <2>6, <2>7, <2>8, <2>10, <2>11, <2>12 DEF IInv
<1> QED BY <1>1, <1>2 DEF CommitUpdateStore, tables

\* A store goes with its recorders, on either repository.
LEMMA RemovedStore ==
    ASSUME IInv, NEW p \in Procs, NEW s \in StoreIds, RemoveStore(s),
           UNCHANGED <<deployment, last, started>>,
           NEW x, Finished(x), SetWriting(p, x),
           \A r \in RecorderIds, t \in StoreIds :
               <<"create", "recorder", r, t>> \in log' <=> <<"create", "recorder", r, t>> \in log
    PROVE  /\ RequestsOK' /\ IdsSuffice' /\ TablesOK' /\ LimitOK'
           /\ Live(stores)' = Live(stores) \ {s}
           /\ Live(recorders)' = Live(recorders) \ RecordersOf(s)
           /\ \A r \in Live(recorders)' : recorders'[r] = recorders[r]
<1>1. /\ DOMAIN stores = StoreIds /\ DOMAIN recorders = RecorderIds
      /\ last.store \in Nat /\ last.recorder \in Nat
  BY DEF IInv, TablesOK
<1>2. DOMAIN stores' = StoreIds /\ Live(stores)' = Live(stores) \ {s}
  BY <1>1 DEF RemoveStore, Live
<1>3. /\ DOMAIN recorders' = RecorderIds
      /\ Live(recorders)' = Live(recorders) \ RecordersOf(s)
      /\ \A r \in Live(recorders)' : recorders'[r] = recorders[r]
  <2>1. /\ DOMAIN recorders' = RecorderIds
        /\ \A r \in RecorderIds : recorders'[r] = IF r \in RecordersOf(s) THEN Missing ELSE recorders[r]
    BY DEF RemoveStore
  <2> QED BY <1>1, <2>1 DEF Live
<1>4. \A t : RecordersOf(t)' \subseteq RecordersOf(t)
  BY <1>3 DEF RecordersOf
<1>5. RequestsOK' /\ Adding' = Adding \ {p} /\ \A t : Past(t)' = Past(t) \ {p}
  <2>1. 1..last.recorder \subseteq RecorderIds
    BY GivenIds
  <2> QED BY <1>1, <2>1, WriteRequests
<1>6. IdsSuffice'
  BY <1>5, IdsAfterWrite
<1>7. TablesOK'
  <2>1. \A r \in Live(recorders)' : /\ recorders'[r].store \in Live(stores)' /\ r <= last'.recorder
                                    /\ recorders'[r].code \in Codes
    BY <1>2, <1>3 DEF IInv, TablesOK, RecordersOf
  <2> QED BY <1>1, <1>2, <1>3, <2>1 DEF IInv, TablesOK
<1>8. LimitOK'
  BY <1>4, <1>5, LimitShrinks DEF LimitOK
<1> QED BY <1>2, <1>3, <1>5, <1>6, <1>7, <1>8

LEMMA MySQLDeletes ==
    ASSUME IInv, NEW p \in Procs, MySQLDeleteStore(p)
    PROVE  IInv'
<1> DEFINE y == Answered(reqs[p], "no_content")
<1>0. PICK s : s = reqs[p].arg.store
  OBVIOUS
<1>1. /\ reqs[p].arg.op = "deleteStore" /\ reqs[p].step = "commit" /\ MySQL /\ RemoveStore(s)
      /\ log' = log \cup {<<"delete", "store", s, s>>} /\ SetWriting(p, y)
      /\ UNCHANGED <<deployment, deviceCodes, accounts, last, started>>
  BY <1>0 DEF MySQLDeleteStore, Serves
<1>2. s \in 1..last.store /\ s \in StoreIds
  BY <1>0, <1>1, InFlight, GivenIds DEF RequestOK
<1>3. Finished(y)
  BY <1>1, FinishedAnswer
<1> HIDE DEF y
<1>4. \A e, i, t : /\ <<"create", e, i, t>> \in log' <=> <<"create", e, i, t>> \in log
                   /\ <<"delete", "recorder", i, t>> \in log' <=> <<"delete", "recorder", i, t>> \in log
  BY <1>1
<1>5. \A t : <<"delete", "store", t, t>> \in log' <=> <<"delete", "store", t, t>> \in log \/ t = s
  BY <1>1
<1>6. /\ RequestsOK' /\ IdsSuffice' /\ TablesOK' /\ LimitOK'
      /\ Live(stores)' = Live(stores) \ {s}
      /\ Live(recorders)' = Live(recorders) \ RecordersOf(s)
      /\ \A r \in Live(recorders)' : recorders'[r] = recorders[r]
  BY <1>1, <1>2, <1>3, <1>4, RemovedStore
<1>7. IndexOK'
  BY <1>1 DEF IInv, IndexOK, IndexNeverDangles, MySQL
<1>8. LogOK'
  <2>1. \A t \in StoreIds :
           <<"create", "store", t, t>> \in log' \/ <<"delete", "store", t, t>> \in log' => t <= last'.store
    BY <1>1, <1>2, <1>4, <1>5 DEF IInv, LogOK, TablesOK
  <2>2. \A r \in RecorderIds, t \in StoreIds :
           /\ <<"delete", "recorder", r, t>> \in log' => r <= last'.recorder
           /\ <<"create", "recorder", r, t>> \in log' =>
                  /\ r <= last'.recorder
                  /\ r \in Live(recorders)' => recorders'[r].store = t
                  /\ \A u \in StoreIds : <<"create", "recorder", r, u>> \in log' => u = t
    BY <1>1, <1>4, <1>6 DEF IInv, LogOK
  <2>3. Live(stores)' = {t \in StoreIds : /\ <<"create", "store", t, t>> \in log'
                                          /\ <<"delete", "store", t, t>> \notin log'}
    <3>1. Live(stores) = {t \in StoreIds : /\ <<"create", "store", t, t>> \in log
                                           /\ <<"delete", "store", t, t>> \notin log}
      BY <1>1 DEF IInv, LogOK, LogTellsDirectory
    <3> QED BY <3>1, <1>4, <1>5, <1>6
  <2>4. ASSUME NEW r \in RecorderIds, NEW t \in StoreIds, <<"create", "recorder", r, t>> \in log'
        PROVE  r \in Live(recorders)' <=> /\ <<"delete", "recorder", r, t>> \notin log'
                                          /\ <<"delete", "store", t, t>> \notin log'
    <3>1. /\ r \in Live(recorders) <=> /\ <<"delete", "recorder", r, t>> \notin log
                                       /\ <<"delete", "store", t, t>> \notin log
          /\ r \in Live(recorders) => recorders[r].store = t
      BY <1>1, <1>4, <2>4 DEF IInv, LogOK, LogTellsDirectory
    <3>2. r \in Live(recorders) => (r \in RecordersOf(s) <=> t = s)
      BY <3>1 DEF RecordersOf
    <3> QED BY <3>1, <3>2, <1>4, <1>5, <1>6
  <2> QED BY <2>1, <2>2, <2>3, <2>4 DEF LogOK, LogTellsDirectory
<1> QED BY <1>6, <1>7, <1>8 DEF IInv

LEMMA MemoryDeletes ==
    ASSUME IInv, NEW p \in Procs, MemoryDeleteStore(p)
    PROVE  IInv'
<1> DEFINE y == Answered(reqs[p], "no_content")
<1>0. PICK s : s = reqs[p].arg.store
  OBVIOUS
<1>1. reqs[p].step # "idle" /\ ~MySQL /\ ~MySQL'
  BY DEF MemoryDeleteStore, Serves, MySQL
<1>2. CASE Set(p, Answered(reqs[p], "not_found")) /\ UNCHANGED <<tables, started>>
  BY <1>1, <1>2, Refused
<1>3. CASE /\ s \in Live(stores) /\ RemoveStore(s) /\ SetWriting(p, y)
           /\ deviceCodes' = [c \in Codes |->
                       IF \E r \in RecordersOf(s) : recorders[r].code = c THEN 0
                       ELSE deviceCodes[c]]
           /\ UNCHANGED <<deployment, accounts, log, last, started>>
  <2>1. s \in StoreIds
    BY <1>3 DEF IInv, TablesOK, Live
  <2>2. Finished(y)
    BY <1>1, FinishedAnswer
  <2> HIDE DEF y
  <2>3. /\ RequestsOK' /\ IdsSuffice' /\ TablesOK' /\ LimitOK'
        /\ Live(recorders)' = Live(recorders) \ RecordersOf(s)
        /\ \A r \in Live(recorders)' : recorders'[r] = recorders[r]
    BY <1>3, <2>1, <2>2, RemovedStore
  <2>4. IndexOK'
    <3>1. ASSUME NEW c \in Codes
          PROVE  /\ deviceCodes'[c] \in Nat
                 /\ deviceCodes'[c] # 0 => /\ deviceCodes'[c] \in Live(recorders)'
                                           /\ recorders'[deviceCodes'[c]].code = c
      <4>1. deviceCodes[c] \in Nat
        BY DEF IInv, IndexOK
      <4>2. deviceCodes[c] # 0 => deviceCodes[c] \in Live(recorders) /\ recorders[deviceCodes[c]].code = c
        BY DEF IInv, IndexOK, IndexNeverDangles
      <4>3. deviceCodes'[c] # 0 => deviceCodes'[c] = deviceCodes[c] /\ deviceCodes[c] \notin RecordersOf(s)
        BY <1>3, <4>2
      <4>4. deviceCodes'[c] \in Nat
        BY <1>3, <4>1
      <4> QED BY <2>3, <4>2, <4>3, <4>4
    <3>2. deviceCodes' \in [Codes -> Nat]
      BY <1>3, <3>1
    <3> QED BY <1>1, <3>1, <3>2 DEF IndexOK, IndexNeverDangles
  <2>5. LogOK'
    BY <1>1, <1>3, <2>3 DEF IInv, LogOK, LogTellsDirectory
  <2> QED BY <2>3, <2>4, <2>5 DEF IInv
<1> QED BY <1>0, <1>2, <1>3 DEF MemoryDeleteStore, tables

\* One recorder is added, on either repository.
LEMMA AddedRecorder ==
    ASSUME IInv, NEW p \in Procs, Serves(p, "addRecorder", "commit"), InsertRecorder(reqs[p]),
           NEW s, s = reqs[p].arg.store, NEW n, n = last.recorder + 1,
           s \in Live(stores), UNCHANGED <<deployment, stores, started>>,
           NEW x, Finished(x), SetWriting(p, x),
           \A r \in 1..last.recorder, t \in StoreIds :
               <<"create", "recorder", r, t>> \in log' => <<"create", "recorder", r, t>> \in log
    PROVE  /\ RequestsOK' /\ IdsSuffice' /\ TablesOK' /\ LimitOK'
           /\ n \in RecorderIds /\ s \in StoreIds /\ n \notin Live(recorders)
           /\ last'.recorder = n /\ last'.store = last.store
           /\ Live(recorders)' = Live(recorders) \cup {n}
           /\ recorders'[n].store = s /\ recorders'[n].code = CodesOf(reqs[p].arg.codes)[1]
           /\ recorders'[n].code \in Codes
           /\ \A r \in RecorderIds \ {n} : recorders'[r] = recorders[r]
<1> DEFINE codes == CodesOf(reqs[p].arg.codes)
<1>1. /\ reqs[p].step = "commit" /\ reqs[p].arg.op = "addRecorder"
      /\ recorders' = NewRecorders(codes, s)
      /\ last' = [last EXCEPT !.recorder = @ + 1]
  BY DEF Serves, InsertRecorder
<1>2. /\ IsAdding(reqs[p]) /\ codes \in Seq(Codes) /\ Len(codes) <= RecorderLimit
      /\ Len(codes) = 1 /\ s \in StoreIds
  BY <1>1, AddingCodes
<1> HIDE DEF codes
<1>3. /\ DOMAIN stores = StoreIds /\ DOMAIN recorders = RecorderIds
      /\ DOMAIN last = {"store", "recorder", "account"} /\ RecorderLimit \in Nat \ {0}
      /\ last.store \in Nat /\ last.recorder \in Nat
  BY Limits DEF IInv, TablesOK
<1>4. Fresh(codes) = {n}
  BY <1>2, <1>3 DEF Fresh
<1>5. /\ DOMAIN recorders' = RecorderIds /\ Fresh(codes) \subseteq RecorderIds
      /\ \A r \in Fresh(codes) :
             /\ recorders'[r].store = s /\ recorders'[r].code = codes[r - last.recorder]
             /\ recorders'[r].code \in Codes /\ r \notin Live(recorders)
      /\ \A r \in RecorderIds \ Fresh(codes) : recorders'[r] = recorders[r]
      /\ Live(recorders)' = Live(recorders) \cup Fresh(codes)
  BY <1>1, <1>2, InsertedRecorders
<1>6. n - last.recorder = 1 /\ n \in Nat
  BY <1>3
<1>7. /\ n \in RecorderIds /\ n \notin Live(recorders)
      /\ Live(recorders)' = Live(recorders) \cup {n}
      /\ recorders'[n].store = s /\ recorders'[n].code = codes[1] /\ recorders'[n].code \in Codes
      /\ \A r \in RecorderIds \ {n} : recorders'[r] = recorders[r]
  BY <1>4, <1>5, <1>6
<1>8. /\ last'.recorder = n /\ last'.store = last.store
      /\ DOMAIN last' = {"store", "recorder", "account"}
  BY <1>1, <1>3
<1>9. RequestsOK' /\ Adding' = Adding \ {p} /\ \A t : Past(t)' = Past(t) \ {p}
  BY <1>3, <1>6, <1>8, WriteRequests
<1>10. IdsSuffice'
  <2>1. /\ last'.store \in Nat /\ last'.recorder \in Nat
        /\ last'.store <= last.store + 1 /\ last'.recorder <= last.recorder + RecorderLimit
    BY <1>3, <1>6, <1>8
  <2> QED BY <2>1, <1>2, <1>9, IdsAfterInsert
<1>11. Live(stores)' = Live(stores)
  BY DEF Live
<1>12. TablesOK'
  <2>1. ASSUME NEW r \in Live(recorders)'
        PROVE  /\ r <= last'.recorder /\ recorders'[r].store \in Live(stores)'
               /\ recorders'[r].code \in Codes
    <3>1. CASE r = n
      BY <3>1, <1>6, <1>7, <1>8, <1>11
    <3>2. CASE r \in Live(recorders) /\ r # n
      <4>1. r \in RecorderIds \ {n} /\ r <= last.recorder /\ recorders[r].store \in Live(stores)
            /\ recorders[r].code \in Codes
        BY <3>2 DEF IInv, TablesOK, Live
      <4>2. r \in Int
        BY <4>1 DEF RecorderIds
      <4> QED BY <4>1, <4>2, <1>3, <1>7, <1>8, <1>11
    <3> QED BY <3>1, <3>2, <1>7, <2>1
  <2> QED BY <2>1, <1>3, <1>5, <1>6, <1>8, <1>11 DEF IInv, TablesOK
<1>13. LimitOK'
  <2>1. /\ RecordersOf(s)' = RecordersOf(s) \cup {n}
        /\ \A t : t # s => RecordersOf(t)' = RecordersOf(t)
    BY <1>1, <1>2, <1>4, InsertedOf
  <2>2. n \notin RecordersOf(s) /\ p \in Past(s)
    BY <1>1, <1>7 DEF RecordersOf, Past, IsPast
  <2>3. IsFiniteSet(RecordersOf(s)) /\ Cardinality(RecordersOf(s)) \in Nat
    BY RecordersFinite DEF IInv
  <2>4. IsFiniteSet(Past(s)) /\ Cardinality(Past(s)) \in Nat
    BY CountsFinite
  <2>5. Cardinality(RecordersOf(s)') = Cardinality(RecordersOf(s)) + 1
    BY <2>1, <2>2, <2>3, FS_AddElement
  <2>6. Cardinality(Past(s)') = Cardinality(Past(s)) - 1
    BY <1>9, <2>2, <2>4, FS_RemoveElement
  <2>7. ASSUME NEW t \in StoreIds
        PROVE  (Cardinality(RecordersOf(t)) + Cardinality(Past(t))
                <= RecorderLimit + Cardinality(Procs) - 1)'
    <3>1. CASE t = s
      <4>1. Cardinality(RecordersOf(s)) + Cardinality(Past(s)) <= RecorderLimit + Cardinality(Procs) - 1
        BY <1>2 DEF IInv, LimitOK
      <4>2. Cardinality(Procs) \in Nat
        BY CountsFinite
      <4>3. Cardinality(RecordersOf(s)') + Cardinality(Past(s)') <= RecorderLimit + Cardinality(Procs) - 1
        BY <4>1, <4>2, <1>3, <2>3, <2>4, <2>5, <2>6
      <4> QED BY <3>1, <4>3
    <3>2. CASE t # s
      <4>1. RecordersOf(t)' \subseteq RecordersOf(t) /\ Past(t)' \subseteq Past(t)
        BY <3>2, <1>9, <2>1
      <4> QED BY <4>1, LimitShrinks
    <3> QED BY <3>1, <3>2
  <2> QED BY <2>7 DEF LimitOK
<1> QED BY <1>2, <1>7, <1>8, <1>9, <1>10, <1>12, <1>13 DEF codes

LEMMA MySQLAdds ==
    ASSUME IInv, NEW p \in Procs, MySQLAddRecorder(p)
    PROVE  IInv'
<1> DEFINE req == reqs[p]
           y == [At(req, "read") EXCEPT !.id = req.arg.store]
<1>0. Serves(p, "addRecorder", "commit") /\ req.step # "idle" /\ MySQL
  BY DEF MySQLAddRecorder, Serves
<1>1. CASE Set(p, Answered(req, "error")) /\ UNCHANGED <<tables, started>>
  BY <1>0, <1>1, Refused
<1>2. CASE /\ req.arg.store \in Live(stores) /\ InsertRecorder(req) /\ SetWriting(p, y)
           /\ log' = log \cup {<<"create", "recorder", last.recorder + 1, req.arg.store>>}
           /\ UNCHANGED <<deployment, stores, deviceCodes, accounts, started>>
  <2>0. PICK s, n : s = req.arg.store /\ n = last.recorder + 1
    OBVIOUS
  <2>1. Finished(y)
    BY <1>0, FinishedAnswer
  <2> HIDE DEF y
  <2>2. last.store \in Nat /\ last.recorder \in Nat /\ n \in Nat /\ n > last.recorder
    BY <2>0 DEF IInv, TablesOK
  <2>3. /\ \A a, e, r, t : a # "create" \/ e # "recorder" \/ r # n =>
               (<<a, e, r, t>> \in log' <=> <<a, e, r, t>> \in log)
        /\ \A t : <<"create", "recorder", n, t>> \in log' <=> <<"create", "recorder", n, t>> \in log \/ t = s
    BY <1>2, <2>0
  <2>4. /\ RequestsOK' /\ IdsSuffice' /\ TablesOK' /\ LimitOK'
        /\ n \in RecorderIds /\ s \in StoreIds /\ n \notin Live(recorders)
        /\ last'.recorder = n /\ last'.store = last.store
        /\ Live(recorders)' = Live(recorders) \cup {n}
        /\ recorders'[n].store = s
        /\ \A r \in RecorderIds \ {n} : recorders'[r] = recorders[r]
    <3>1. \A r \in 1..last.recorder : r # n
      BY <2>2
    <3> QED BY <1>0, <1>2, <2>0, <2>1, <2>3, <3>1, AddedRecorder
  <2>5. IndexOK'
    BY <1>0, <1>2 DEF IInv, IndexOK, IndexNeverDangles, MySQL
  <2>6. LogOK'
    <3>1. Live(stores)' = Live(stores)
      BY <1>2 DEF Live
    <3>2. \A t \in StoreIds : /\ <<"create", "recorder", n, t>> \notin log
                              /\ <<"delete", "recorder", n, t>> \notin log
      <4>1. ~(n <= last.recorder)
        BY <2>2
      <4> QED BY <2>4, <4>1 DEF IInv, LogOK
    <3>3. \A r \in RecorderIds : r <= last.recorder => r <= last'.recorder
      BY <2>2, <2>4 DEF RecorderIds
    <3>4. \A t \in StoreIds :
           <<"create", "store", t, t>> \in log' \/ <<"delete", "store", t, t>> \in log' => t <= last'.store
      BY <2>3, <2>4 DEF IInv, LogOK
    <3>5. ASSUME NEW r \in RecorderIds, NEW t \in StoreIds
          PROVE  /\ <<"delete", "recorder", r, t>> \in log' => r <= last'.recorder
                 /\ <<"create", "recorder", r, t>> \in log' =>
                     /\ r <= last'.recorder
                     /\ r \in Live(recorders)' => recorders'[r].store = t
                     /\ \A u \in StoreIds : <<"create", "recorder", r, u>> \in log' => u = t
                     /\ (r \in Live(recorders)' <=> /\ <<"delete", "recorder", r, t>> \notin log'
                                                    /\ <<"delete", "store", t, t>> \notin log')
      <4>1. CASE r = n
        <5>1. n <= last'.recorder
          BY <2>2, <2>4
        <5>2. <<"delete", "store", s, s>> \notin log
          <6>1. Live(stores) = {u \in StoreIds : /\ <<"create", "store", u, u>> \in log
                                                 /\ <<"delete", "store", u, u>> \notin log}
            BY <1>0 DEF IInv, LogOK, LogTellsDirectory
          <6> QED BY <1>2, <2>0, <6>1
        <5> QED BY <4>1, <5>1, <5>2, <2>3, <2>4, <3>2
      <4>2. CASE r # n
        <5>1. /\ r \in Live(recorders)' <=> r \in Live(recorders)
              /\ recorders'[r] = recorders[r]
          BY <4>2, <2>4
        <5>2. \A u : /\ <<"delete", "recorder", r, u>> \in log' <=> <<"delete", "recorder", r, u>> \in log
                     /\ <<"create", "recorder", r, u>> \in log' <=> <<"create", "recorder", r, u>> \in log
                     /\ <<"delete", "store", t, t>> \in log' <=> <<"delete", "store", t, t>> \in log
          BY <4>2, <2>3
        <5> QED BY <5>1, <5>2, <3>3, <1>0 DEF IInv, LogOK, LogTellsDirectory
      <4> QED BY <4>1, <4>2
    <3>6. Live(stores)' = {t \in StoreIds : /\ <<"create", "store", t, t>> \in log'
                                            /\ <<"delete", "store", t, t>> \notin log'}
      <4>1. Live(stores) = {t \in StoreIds : /\ <<"create", "store", t, t>> \in log
                                             /\ <<"delete", "store", t, t>> \notin log}
        BY <1>0 DEF IInv, LogOK, LogTellsDirectory
      <4>2. \A t : /\ <<"create", "store", t, t>> \in log' <=> <<"create", "store", t, t>> \in log
                   /\ <<"delete", "store", t, t>> \in log' <=> <<"delete", "store", t, t>> \in log
        BY <2>3
      <4> QED BY <4>1, <4>2, <3>1
    <3> QED BY <3>4, <3>5, <3>6 DEF LogOK, LogTellsDirectory
  <2> QED BY <2>4, <2>5, <2>6 DEF IInv
<1> QED BY <1>1, <1>2 DEF MySQLAddRecorder, tables

LEMMA MemoryAdds ==
    ASSUME IInv, NEW p \in Procs, MemoryAddRecorder(p)
    PROVE  IInv'
<1> DEFINE req == reqs[p]
           code == CodesOf(req.arg.codes)[1]
           y == Answered(req, "created")
<1>0. Serves(p, "addRecorder", "commit") /\ req.step # "idle" /\ ~MySQL /\ ~MySQL'
  BY DEF MemoryAddRecorder, Serves, MySQL
<1>1. CASE Set(p, Answered(req, "not_found")) /\ UNCHANGED <<tables, started>>
  BY <1>0, <1>1, Refused
<1>2. CASE /\ req.arg.store \in Live(stores) /\ InsertRecorder(req) /\ SetWriting(p, y)
           /\ deviceCodes' = [deviceCodes EXCEPT ![code] = last.recorder + 1]
           /\ UNCHANGED <<deployment, stores, accounts, log, started>>
  <2>0. PICK s, n : s = req.arg.store /\ n = last.recorder + 1
    OBVIOUS
  <2>1. Finished(y)
    BY <1>0, FinishedAnswer
  <2> HIDE DEF y, code
  <2>2. last.store \in Nat /\ last.recorder \in Nat /\ n \in Nat /\ n > last.recorder
    BY <2>0 DEF IInv, TablesOK
  <2>3. /\ RequestsOK' /\ IdsSuffice' /\ TablesOK' /\ LimitOK'
        /\ n \in RecorderIds /\ n \notin Live(recorders)
        /\ last'.recorder = n /\ last'.store = last.store
        /\ Live(recorders)' = Live(recorders) \cup {n}
        /\ recorders'[n].code = code /\ code \in Codes
        /\ \A r \in RecorderIds \ {n} : recorders'[r] = recorders[r]
    BY <1>0, <1>2, <2>0, <2>1, AddedRecorder DEF code
  <2>4. \A r \in Live(recorders) : r \in RecorderIds /\ r # n /\ recorders'[r] = recorders[r]
    BY <2>3 DEF IInv, TablesOK, Live
  <2>5. IndexOK'
    <3>1. /\ \A c \in Codes : deviceCodes'[c] = IF c = code THEN n ELSE deviceCodes[c]
          /\ deviceCodes' \in [Codes -> Nat]
      BY <1>2, <2>0, <2>2 DEF IInv, IndexOK
    <3>2. IndexNeverDangles'
      BY <2>3, <2>4, <3>1 DEF IInv, IndexOK, IndexNeverDangles
    <3> QED BY <1>0, <3>1, <3>2 DEF IndexOK
  <2>6. LogOK'
    <3>1. \A r \in RecorderIds : r <= last.recorder =>
              r <= last'.recorder /\ recorders'[r] = recorders[r]
              /\ (r \in Live(recorders)' <=> r \in Live(recorders))
      <4>1. \A r \in RecorderIds : r <= last.recorder => r <= last'.recorder /\ r # n
        BY <2>2, <2>3 DEF RecorderIds
      <4> QED BY <4>1, <2>3
    <3> QED BY <1>0, <1>2, <2>3, <3>1 DEF IInv, LogOK, LogTellsDirectory
  <2> QED BY <2>3, <2>5, <2>6 DEF IInv
<1> QED BY <1>1, <1>2 DEF MemoryAddRecorder, tables

\* One recorder is deleted, on either repository.
LEMMA DeletedRecorder ==
    ASSUME IInv, NEW p \in Procs, NEW r \in RecorderIds, recorders' = [recorders EXCEPT ![r] = Missing],
           UNCHANGED <<deployment, stores, last, started>>,
           NEW x, Finished(x), SetWriting(p, x),
           \A i \in RecorderIds, t \in StoreIds :
               <<"create", "recorder", i, t>> \in log' <=> <<"create", "recorder", i, t>> \in log
    PROVE  /\ RequestsOK' /\ IdsSuffice' /\ TablesOK' /\ LimitOK'
           /\ Live(stores)' = Live(stores)
           /\ Live(recorders)' = Live(recorders) \ {r}
           /\ \A i \in Live(recorders)' : recorders'[i] = recorders[i]
<1>1. /\ DOMAIN stores = StoreIds /\ DOMAIN recorders = RecorderIds
      /\ last.store \in Nat /\ last.recorder \in Nat
  BY DEF IInv, TablesOK
<1>2. /\ DOMAIN recorders' = RecorderIds /\ Live(recorders)' = Live(recorders) \ {r}
      /\ \A i \in Live(recorders)' : recorders'[i] = recorders[i]
  BY <1>1 DEF Live
<1>3. Live(stores)' = Live(stores)
  BY DEF Live
<1>4. \A t : RecordersOf(t)' \subseteq RecordersOf(t)
  BY <1>2 DEF RecordersOf
<1>5. RequestsOK' /\ Adding' = Adding \ {p} /\ \A t : Past(t)' = Past(t) \ {p}
  <2>1. 1..last.recorder \subseteq RecorderIds
    BY GivenIds
  <2> QED BY <1>1, <2>1, WriteRequests
<1>6. IdsSuffice'
  BY <1>5, IdsAfterWrite
<1>7. TablesOK'
  BY <1>1, <1>2, <1>3 DEF IInv, TablesOK
<1>8. LimitOK'
  BY <1>4, <1>5, LimitShrinks DEF LimitOK
<1> QED BY <1>2, <1>3, <1>5, <1>6, <1>7, <1>8

LEMMA MySQLDeletesRecorder ==
    ASSUME IInv, NEW p \in Procs, MySQLDeleteRecorder(p)
    PROVE  IInv'
<1> DEFINE y == Answered(reqs[p], "no_content")
<1>0. PICK r, s : r = reqs[p].arg.recorder /\ s = reqs[p].id
  OBVIOUS
<1>1. /\ reqs[p].arg.op = "deleteRecorder" /\ reqs[p].step = "commit" /\ MySQL
      /\ recorders' = [recorders EXCEPT ![r] = Missing]
      /\ log' = log \cup {<<"delete", "recorder", r, s>>} /\ SetWriting(p, y)
      /\ UNCHANGED <<deployment, stores, deviceCodes, accounts, last, started>>
  BY <1>0 DEF MySQLDeleteRecorder, Serves
<1>2. /\ r \in 1..last.recorder /\ r \in RecorderIds
      /\ \A t \in StoreIds : <<"create", "recorder", r, t>> \in log => t = s
  BY <1>0, <1>1, InFlight, GivenIds DEF RequestOK
<1>3. Finished(y)
  BY <1>1, FinishedAnswer
<1> HIDE DEF y
<1>4. /\ \A a, e, i, t : a # "delete" \/ e # "recorder" \/ i # r =>
             (<<a, e, i, t>> \in log' <=> <<a, e, i, t>> \in log)
      /\ <<"delete", "recorder", r, s>> \in log'
  BY <1>1
<1>5. /\ RequestsOK' /\ IdsSuffice' /\ TablesOK' /\ LimitOK'
      /\ Live(stores)' = Live(stores)
      /\ Live(recorders)' = Live(recorders) \ {r}
      /\ \A i \in Live(recorders)' : recorders'[i] = recorders[i]
  BY <1>1, <1>2, <1>3, <1>4, DeletedRecorder
<1>6. IndexOK'
  BY <1>1 DEF IInv, IndexOK, IndexNeverDangles, MySQL
<1>7. LogOK'
  <2>1. \A t : /\ <<"create", "store", t, t>> \in log' <=> <<"create", "store", t, t>> \in log
               /\ <<"delete", "store", t, t>> \in log' <=> <<"delete", "store", t, t>> \in log
    BY <1>4
  <2>2. \A t \in StoreIds :
           <<"create", "store", t, t>> \in log' \/ <<"delete", "store", t, t>> \in log' => t <= last'.store
    BY <1>1, <2>1 DEF IInv, LogOK
  <2>3. Live(stores)' = {t \in StoreIds : /\ <<"create", "store", t, t>> \in log'
                                          /\ <<"delete", "store", t, t>> \notin log'}
    <3>1. Live(stores) = {t \in StoreIds : /\ <<"create", "store", t, t>> \in log
                                           /\ <<"delete", "store", t, t>> \notin log}
      BY <1>1 DEF IInv, LogOK, LogTellsDirectory
    <3> QED BY <3>1, <2>1, <1>5
  <2>4. ASSUME NEW i \in RecorderIds, NEW t \in StoreIds
        PROVE  /\ <<"delete", "recorder", i, t>> \in log' => i <= last'.recorder
               /\ <<"create", "recorder", i, t>> \in log' =>
                   /\ i <= last'.recorder
                   /\ i \in Live(recorders)' => recorders'[i].store = t
                   /\ \A u \in StoreIds : <<"create", "recorder", i, u>> \in log' => u = t
                   /\ (i \in Live(recorders)' <=> /\ <<"delete", "recorder", i, t>> \notin log'
                                                  /\ <<"delete", "store", t, t>> \notin log')
    <3>1. CASE i = r
      <4>1. i <= last'.recorder
        BY <3>1, <1>1, <1>2 DEF IInv, TablesOK
      <4>2. \A u : <<"create", "recorder", i, u>> \in log' <=> <<"create", "recorder", i, u>> \in log
        BY <1>4
      <4>3. i \notin Live(recorders)'
        BY <3>1, <1>5
      <4> QED BY <3>1, <4>1, <4>2, <4>3, <1>2, <1>4
    <3>2. CASE i # r
      <4>1. /\ i \in Live(recorders)' <=> i \in Live(recorders)
            /\ i \in Live(recorders)' => recorders'[i] = recorders[i]
        BY <3>2, <1>5
      <4>2. \A u : /\ <<"delete", "recorder", i, u>> \in log' <=> <<"delete", "recorder", i, u>> \in log
                   /\ <<"create", "recorder", i, u>> \in log' <=> <<"create", "recorder", i, u>> \in log
        BY <3>2, <1>4
      <4> QED BY <4>1, <4>2, <2>1, <1>1 DEF IInv, LogOK, LogTellsDirectory
    <3> QED BY <3>1, <3>2
  <2> QED BY <2>2, <2>3, <2>4 DEF LogOK, LogTellsDirectory
<1> QED BY <1>5, <1>6, <1>7 DEF IInv

LEMMA MemoryDeletesRecorder ==
    ASSUME IInv, NEW p \in Procs, MemoryDeleteRecorder(p)
    PROVE  IInv'
<1> DEFINE y == Answered(reqs[p], "no_content")
<1>0. PICK r : r = reqs[p].arg.recorder
  OBVIOUS
<1>1. reqs[p].step # "idle" /\ ~MySQL /\ ~MySQL'
  BY DEF MemoryDeleteRecorder, Serves, MySQL
<1>2. CASE Set(p, Answered(reqs[p], "not_found")) /\ UNCHANGED <<tables, started>>
  BY <1>1, <1>2, Refused
<1>3. CASE /\ r \in Live(recorders) /\ SetWriting(p, y)
           /\ recorders' = [recorders EXCEPT ![r] = Missing]
           /\ deviceCodes' = [deviceCodes EXCEPT ![recorders[r].code] = 0]
           /\ UNCHANGED <<deployment, stores, accounts, log, last, started>>
  <2>1. r \in RecorderIds
    BY <1>3 DEF IInv, TablesOK, Live
  <2>2. Finished(y)
    BY <1>1, FinishedAnswer
  <2> HIDE DEF y
  <2>3. /\ RequestsOK' /\ IdsSuffice' /\ TablesOK' /\ LimitOK'
        /\ Live(stores)' = Live(stores)
        /\ Live(recorders)' = Live(recorders) \ {r}
        /\ \A i \in Live(recorders)' : recorders'[i] = recorders[i]
    BY <1>3, <2>1, <2>2, DeletedRecorder
  <2>4. IndexOK'
    <3>1. /\ \A c \in Codes : deviceCodes'[c] = IF c = recorders[r].code THEN 0 ELSE deviceCodes[c]
          /\ deviceCodes' \in [Codes -> Nat]
      BY <1>3 DEF IInv, IndexOK
    <3>2. IndexNeverDangles'
      <4> SUFFICES ASSUME NEW c \in Codes, deviceCodes'[c] # 0
                   PROVE  deviceCodes'[c] \in Live(recorders)' /\ recorders'[deviceCodes'[c]].code = c
        BY DEF IndexNeverDangles
      <4>1. c # recorders[r].code /\ deviceCodes'[c] = deviceCodes[c]
        BY <3>1
      <4>2. deviceCodes[c] \in Live(recorders) /\ recorders[deviceCodes[c]].code = c
        BY <4>1 DEF IInv, IndexOK, IndexNeverDangles
      <4>3. deviceCodes[c] # r
        BY <4>1, <4>2
      <4> QED BY <4>1, <4>2, <4>3, <2>3
    <3> QED BY <1>1, <3>1, <3>2 DEF IndexOK
  <2>5. LogOK'
    BY <1>1, <1>3, <2>3 DEF IInv, LogOK, LogTellsDirectory
  <2> QED BY <2>3, <2>4, <2>5 DEF IInv
<1> QED BY <1>0, <1>2, <1>3 DEF MemoryDeleteRecorder, tables

\* The accounts are a table of their own.
LEMMA AccountWrites ==
    ASSUME IInv, NEW p \in Procs, InsertEzvizAccount(p) \/ UpsertEzvizAccountName(p)
    PROVE  IInv'
<1>1. /\ reqs[p].step # "idle" /\ reqs[p].arg.op \in {"createAccount", "sync"}
      /\ reqs[p].arg \in Inputs
  BY InFlight DEF InsertEzvizAccount, UpsertEzvizAccountName, Serves
<1>2. ASSUME NEW x, Finished(x), SetWriting(p, x),
             \/ last' = last \/ last' = [last EXCEPT !.account = @ + 1],
             UNCHANGED <<deployment, storeTables, started>>
      PROVE  IInv'
  <2>1. /\ last'.store = last.store /\ last'.recorder = last.recorder
        /\ DOMAIN last' = {"store", "recorder", "account"}
        /\ last.store \in Nat /\ last.recorder \in Nat
    BY <1>2 DEF IInv, TablesOK
  <2>2. UNCHANGED <<deployment, stores, recorders, deviceCodes, log, started>>
    BY <1>2 DEF storeTables
  <2>3. RequestsOK' /\ Adding' = Adding \ {p} /\ \A t : Past(t)' = Past(t) \ {p}
    BY <1>2, <2>1, <2>2, WriteRequests
  <2>4. IdsSuffice'
    BY <2>1, <2>2, <2>3, IdsAfterWrite
  <2>5. \A t : RecordersOf(t)' = RecordersOf(t)
    BY <2>2 DEF RecordersOf, Live
  <2>6. LimitOK'
    BY <2>3, <2>5, LimitShrinks DEF LimitOK
  <2>7. TablesOK'
    BY <2>1, <2>2 DEF IInv, TablesOK, Live
  <2>8. IndexOK'
    BY <2>2 DEF IInv, IndexOK, IndexNeverDangles, Live, MySQL
  <2>9. LogOK'
    BY <2>1, <2>2 DEF IInv, LogOK, LogTellsDirectory, Live, MySQL
  <2> QED BY <2>3, <2>4, <2>6, <2>7, <2>8, <2>9 DEF IInv
<1>3. CASE InsertEzvizAccount(p)
  <2>1. CASE Set(p, Answered(reqs[p], "error")) /\ UNCHANGED <<tables, started>>
    BY <1>1, <2>1, Refused
  <2>2. CASE /\ SetWriting(p, Answered(reqs[p], "created")) /\ last' = [last EXCEPT !.account = @ + 1]
             /\ UNCHANGED <<deployment, storeTables, started>>
    BY <1>1, <1>2, <2>2, FinishedAnswer
  <2> QED BY <1>3, <2>1, <2>2 DEF InsertEzvizAccount, InsertAccount, tables, storeTables
<1>4. CASE UpsertEzvizAccountName(p)
  <2> DEFINE y == [reqs[p] EXCEPT !.i = @ + 1]
  <2>1. CASE Set(p, Answered(reqs[p], "ok")) /\ UNCHANGED <<tables, started>>
    BY <1>1, <2>1, Refused
  <2>2. CASE /\ SetWriting(p, y)
             /\ last' = last \/ last' = [last EXCEPT !.account = @ + 1]
             /\ UNCHANGED <<deployment, storeTables, started>>
    <3>1. DOMAIN y = Fields /\ y.arg = reqs[p].arg
      BY InFlight DEF Fields
    <3> HIDE DEF y
    <3>2. Finished(y)
      BY <1>1, <3>1 DEF Finished
    <3> QED BY <1>2, <2>2, <3>2
  <2> QED BY <1>4, <2>1, <2>2 DEF UpsertEzvizAccountName, InsertAccount, tables, storeTables
<1> QED BY <1>3, <1>4

-----------------------------------------------------------------------------
(* The directory is kept. *)

LEMMA DirectoryInit ==
    ASSUME Init PROVE IInv
<1> DEFINE codes == IF MySQL THEN CodesOf(Seed.codes) ELSE << >>
           row == [name |-> Seed.name, city |-> Seed.city, org |-> Seed.org]
<1>1. /\ deployment \in Deployments
      /\ stores = [s \in StoreIds |-> IF MySQL /\ s = 1 THEN row ELSE Missing]
      /\ recorders = [r \in RecorderIds |-> IF r <= Len(codes)
                             THEN [store |-> 1, code |-> codes[r]] ELSE Missing]
      /\ log = IF MySQL THEN {<<"create", "store", 1, 1>>} ELSE {}
      /\ last = [store |-> IF MySQL THEN 1 ELSE 0, recorder |-> Len(codes), account |-> 0]
      /\ deviceCodes = [c \in Codes |-> 0]
      /\ reqs = [p \in Procs |-> Idle]
      /\ started = 0
  BY DEF Init
<1>2. codes \in Seq(Codes) /\ Len(codes) \in 0..RecorderLimit /\ (~MySQL => Len(codes) = 0)
  <2>1. CASE MySQL
    <3>1. CodesOf(Seed.codes) \in Seq(Codes) /\ Len(CodesOf(Seed.codes)) <= Len(Seed.codes)
      BY InputCodes
    <3>2. Len(Seed.codes) <= RecorderLimit /\ Len(Seed.codes) \in Nat /\ RecorderLimit \in Nat
      BY DirectoryAssumption
    <3>3. Len(CodesOf(Seed.codes)) \in Nat
      BY <3>1
    <3>4. Len(CodesOf(Seed.codes)) \in 0..RecorderLimit
      BY <3>1, <3>2, <3>3
    <3> QED BY <2>1, <3>1, <3>4
  <2>2. CASE ~MySQL
    BY <2>2, DirectoryAssumption
  <2> QED BY <2>1, <2>2
<1>3. row # Missing
  BY DirectoryAssumption
<1> HIDE DEF codes, row
<1>4. /\ MaxRequests \in Nat /\ RecorderLimit \in Nat \ {0} /\ 1 \in StoreIds /\ Len(codes) \in Nat
      /\ RecorderLimit * 1 = RecorderLimit
  BY <1>2, DirectoryAssumption DEF StoreIds
<1>5. DOMAIN stores = StoreIds /\ Live(stores) = IF MySQL THEN {1} ELSE {}
  BY <1>1, <1>3, <1>4 DEF Live
<1>6. \A r \in RecorderIds : r \in Nat \ {0}
  BY DEF RecorderIds
<1>7. \A i \in 1..Len(codes) : codes[i] \in Codes
  BY <1>2
<1>8. /\ DOMAIN recorders = RecorderIds
      /\ \A r \in Live(recorders) : /\ r <= Len(codes) /\ recorders[r].store = 1 /\ MySQL
                                    /\ recorders[r].code \in Codes
  <2>1. \A r \in RecorderIds : r <= Len(codes) => r \in 1..Len(codes) /\ MySQL
    BY <1>2, <1>4, <1>6
  <2> QED BY <1>1, <1>7, <2>1 DEF Live
<1>9. TablesOK
  BY <1>1, <1>4, <1>5, <1>8 DEF TablesOK
<1>10. RequestsOK
  <2>1. RequestOK(Idle)
    BY DEF RequestOK, Idle, Fields
  <2> QED BY <1>1, <2>1 DEF RequestsOK
<1>11. Adding = {} /\ \A s : Past(s) = {}
  BY <1>1 DEF Adding, Past, IsAdding, IsPast, Idle
<1>12. IdsSuffice
  <2>1. Cardinality(Adding) = 0
    BY <1>11, FS_EmptySet
  <2>2. Over = 1
    BY <1>1, <2>1 DEF Over
  <2>3. last.store <= 1 /\ last.recorder <= RecorderLimit
    BY <1>1, <1>2
  <2> QED BY <1>1, <1>4, <2>2, <2>3 DEF IdsSuffice
<1>13. IndexOK
  BY <1>1 DEF IndexOK, IndexNeverDangles
<1>14. LogOK
  <2>1. \A r, s : <<"create", "recorder", r, s>> \notin log /\ <<"delete", "recorder", r, s>> \notin log
    BY <1>1
  <2>2. \A s : /\ <<"delete", "store", s, s>> \notin log
               /\ <<"create", "store", s, s>> \in log <=> MySQL /\ s = 1
    BY <1>1
  <2>3. MySQL => last.store = 1
    BY <1>1
  <2> QED BY <1>4, <1>5, <2>1, <2>2, <2>3 DEF LogOK, LogTellsDirectory
<1>15. LimitOK
  <2> SUFFICES ASSUME NEW s \in StoreIds
               PROVE  Cardinality(RecordersOf(s)) + Cardinality(Past(s)) <= RecorderLimit + Cardinality(Procs) - 1
    BY DEF LimitOK
  <2>1. RecordersOf(s) \subseteq 1..Len(codes)
    <3>1. \A r \in Live(recorders) : r \in RecorderIds
      BY <1>8 DEF Live
    <3> QED BY <3>1, <1>4, <1>6, <1>8 DEF RecordersOf
  <2>2. IsFiniteSet(1..Len(codes)) /\ Cardinality(1..Len(codes)) = Len(codes)
    BY <1>4, FS_Interval
  <2>3. Cardinality(RecordersOf(s)) <= Len(codes) /\ Cardinality(RecordersOf(s)) \in Nat
    BY <2>1, <2>2, FS_Subset, FS_CardinalityType
  <2>4. Cardinality(Past(s)) = 0 /\ Cardinality(Procs) \in Nat \ {0}
    BY <1>11, FS_EmptySet, CountsFinite
  <2>5. Len(codes) <= RecorderLimit
    BY <1>2
  <2> QED BY <1>4, <2>3, <2>4, <2>5
<1> QED BY <1>9, <1>10, <1>12, <1>13, <1>14, <1>15 DEF IInv

LEMMA DirectoryStutters ==
    ASSUME IInv, UNCHANGED vars PROVE IInv'
<1>1. \A s : RecordersOf(s)' = RecordersOf(s) /\ Past(s)' = Past(s)
  BY DEF RecordersOf, Past, Live, IsPast, vars
<1> QED BY <1>1 DEF IInv, RequestsOK, RequestOK, TablesOK, IdsSuffice, Over, Adding, IsAdding, IndexOK,
            IndexNeverDangles, LogOK, LogTellsDirectory, LimitOK, Live, MySQL, vars

LEMMA DirectoryNext ==
    ASSUME IInv, Next PROVE IInv'
<1>1. PICK p \in Procs :
        \/ CreateStore(p) \/ CreateStoreName(p) \/ CreateStoreCode(p)
        \/ MySQLCreateStore(p) \/ MemoryCreateStore(p) \/ ReadStore(p)
        \/ UpdateStoreBasicInfo(p) \/ UpdateStoreName(p) \/ CommitUpdateStore(p)
        \/ DeleteStore(p) \/ FindStore(p)
        \/ MySQLDeleteStore(p) \/ MemoryDeleteStore(p)
        \/ AddRecorder(p) \/ AddRecorderLimit(p) \/ AddRecorderCode(p)
        \/ FindRecorderStore(p) \/ MySQLAddRecorder(p) \/ MemoryAddRecorder(p)
        \/ DeleteRecorder(p) \/ FindRecorder(p)
        \/ MySQLDeleteRecorder(p) \/ MemoryDeleteRecorder(p)
        \/ CreateEzvizAccount(p) \/ CreateAccountName(p) \/ InsertEzvizAccount(p)
        \/ SyncEzvizAccountNames(p) \/ UpsertEzvizAccountName(p)
        \/ ListStores(p) \/ ListCities(p) \/ ListRows(p) \/ ListMetrics(p)
        \/ ListSummary(p) \/ ListFails(p)
  BY DEF Next
<1>2. CASE \/ CreateStore(p) \/ UpdateStoreBasicInfo(p) \/ DeleteStore(p) \/ AddRecorder(p)
           \/ DeleteRecorder(p) \/ CreateEzvizAccount(p) \/ SyncEzvizAccountNames(p)
  BY <1>2, BeginActions
<1>3. CASE CreateStoreName(p) \/ CreateStoreCode(p) \/ ReadStore(p)
  BY <1>3, CreateReads
<1>4. CASE UpdateStoreName(p) \/ FindStore(p) \/ FindRecorder(p) \/ CreateAccountName(p)
  BY <1>4, DirectoryReads
<1>5. CASE AddRecorderLimit(p) \/ AddRecorderCode(p) \/ FindRecorderStore(p)
  BY <1>5, RecorderReads
<1>6. CASE \/ ListStores(p) \/ ListCities(p) \/ ListRows(p) \/ ListMetrics(p)
           \/ ListSummary(p) \/ ListFails(p)
  BY <1>6, ListBegins, ListReads
<1>7. CASE MySQLCreateStore(p) \/ MemoryCreateStore(p) \/ CommitUpdateStore(p)
  BY <1>7, MySQLCreates, MemoryCreates, CommitsUpdate
<1>8. CASE MySQLDeleteStore(p) \/ MemoryDeleteStore(p)
  BY <1>8, MySQLDeletes, MemoryDeletes
<1>9. CASE \/ MySQLAddRecorder(p) \/ MemoryAddRecorder(p)
           \/ MySQLDeleteRecorder(p) \/ MemoryDeleteRecorder(p)
  BY <1>9, MySQLAdds, MemoryAdds, MySQLDeletesRecorder, MemoryDeletesRecorder
<1>10. CASE InsertEzvizAccount(p) \/ UpsertEzvizAccountName(p)
  BY <1>10, AccountWrites
<1> QED BY <1>1, <1>2, <1>3, <1>4, <1>5, <1>6, <1>7, <1>8, <1>9, <1>10

\* The invariant of the directory: what requests in flight may rely on, ids
\* given out once, the index, the log and the recorders counted together with
\* the requests past the limit test.
THEOREM DirectoryInductive == Spec => []IInv
<1>1. Init => IInv
  BY DirectoryInit
<1>2. IInv /\ [Next]_vars => IInv'
  BY DirectoryNext, DirectoryStutters
<1> QED BY <1>1, <1>2, PTL DEF Spec

\* AddRecorder reads the number of recorders before it inserts: a store
\* exceeds the limit at most by the requests that were served together.
THEOREM LimitHolds == Spec => []LimitExceededOnlyByRace
<1>1. IInv => LimitExceededOnlyByRace
  <2> SUFFICES ASSUME IInv, NEW s \in Live(stores)
               PROVE  Cardinality(RecordersOf(s)) <= RecorderLimit + Cardinality(Procs) - 1
    BY DEF LimitExceededOnlyByRace
  <2>1. s \in StoreIds
    BY DEF IInv, TablesOK, Live
  <2>2. Cardinality(RecordersOf(s)) \in Nat /\ RecorderLimit \in Nat
    BY RecordersFinite, Limits DEF IInv
  <2>3. Cardinality(Past(s)) \in Nat /\ Cardinality(Procs) \in Nat
    BY CountsFinite
  <2>4. Cardinality(RecordersOf(s)) + Cardinality(Past(s)) <= RecorderLimit + Cardinality(Procs) - 1
    BY <2>1 DEF IInv, LimitOK
  <2> QED BY <2>2, <2>3, <2>4
<1> QED BY <1>1, DirectoryInductive, PTL

\* The operation log of MySQL tells which stores and recorders there are,
\* whatever deletes race with each other and with inserts.
THEOREM LogHolds == Spec => []LogTellsDirectory
<1>1. IInv => LogTellsDirectory
  BY DEF IInv, LogOK
<1> QED BY <1>1, DirectoryInductive, PTL

\* MemoryStore.deviceCodes never names a recorder that is gone or has another
\* code, though two requests may have given one code twice.
THEOREM IndexHolds == Spec => []IndexNeverDangles
<1>1. IInv => IndexNeverDangles
  BY DEF IInv, IndexOK
<1> QED BY <1>1, DirectoryInductive, PTL

-----------------------------------------------------------------------------
(* The list of stores. *)

TimesOK == updated \in [StoreIds -> Nat] /\ clock \in Nat

PageFields == {"total", "cities", "items", "stores"}
ItemKeys == {"id", "view", "recorders"}
Rowed == {"metrics", "summary", "done"}

\* What a list that nobody wrote beside has read so far.
Counted(x) == x.page.total = Cardinality(Found(x.arg))
Located(x) ==
    \/ x.page.cities = ListStoreCities(x.arg)
    \/ MySQL /\ x.page.cities = {}
\* The rows of a page: their number, their ranks, and no store twice.
RightRows(items, in) ==
    /\ DOMAIN items = 1..Len(items) /\ Len(items) \in Nat
    /\ {Offset(in) + i : i \in DOMAIN items} =
           ((Offset(in) + 1)..(Offset(in) + PageSize)) \cap (1..Cardinality(Found(in)))
    /\ \A i \in DOMAIN items : /\ DOMAIN items[i] = ItemKeys /\ items[i].id \in Found(in)
                               /\ Offset(in) + i > Cardinality(Newer(in, items[i].id))
                               /\ Offset(in) + i <= Cardinality(NotOlder(in, items[i].id))
    /\ \A i, j \in DOMAIN items : items[i].id = items[j].id => i = j
Measured(items) ==
    \A k \in DOMAIN items : \/ items[k].recorders = Cardinality(RecordersOf(items[k].id))
                            \/ MySQL /\ items[k].recorders = 0

QuietOK(x) ==
    x.arg.op = "list" /\ x.calm =>
        /\ x.step \in {"cities", "rows", "metrics", "summary", "done"}
        /\ x.step # "done" => MySQL /\ x.answer = "none"
        /\ DOMAIN x.page = PageFields
        /\ x.answer # "error" =>
               /\ Counted(x)
               /\ x.step # "cities" => Located(x)
               /\ x.step \in Rowed => RightRows(x.page.items, x.arg) /\ Measured(x.page.items)
               /\ x.step = "done" => x.page.stores = StoreListSummary(x.arg)

QuietInv == TimesOK /\ \A p \in Procs : QuietOK(reqs[p])

\* What a list reads.
listed == <<deployment, stores, times, recorders>>

LEMMA QuietFrame ==
    ASSUME UNCHANGED listed PROVE (TimesOK => TimesOK') /\ \A x : QuietOK(x) => QuietOK(x)'
<1>0. UNCHANGED <<deployment, stores, updated, clock, recorders>>
  BY DEF listed, times
<1>1. TimesOK => TimesOK'
  BY <1>0 DEF TimesOK
<1>2. \A x : QuietOK(x) => QuietOK(x)'
  <2> TAKE x
  <2>1. Found(x.arg)' = Found(x.arg)
    BY <1>0 DEF Found, StoreListWhere, MatchesStoreSearch, MatchesStoreCity, StoreCityOption, Live, MySQL
  <2>2. ListStoreCities(x.arg)' = ListStoreCities(x.arg) /\ MySQL' = MySQL
    BY <1>0 DEF ListStoreCities, MatchesStoreSearch, StoreCityOption, Live, MySQL
  <2>3. Counted(x)' = Counted(x) /\ Located(x)' = Located(x)
    BY <2>1, <2>2 DEF Counted, Located
  <2>4. \A s : Newer(x.arg, s)' = Newer(x.arg, s) /\ NotOlder(x.arg, s)' = NotOlder(x.arg, s)
    BY <1>0, <2>1 DEF Newer, NotOlder
  <2>5. RightRows(x.page.items, x.arg)' = RightRows(x.page.items, x.arg)
    BY <2>1, <2>4 DEF RightRows, Offset, NormalizedPage
  <2>6. \A s : RecordersOf(s)' = RecordersOf(s)
    BY <1>0 DEF RecordersOf, Live
  <2>7. Measured(x.page.items)' = Measured(x.page.items)
    BY <2>2, <2>6 DEF Measured
  <2>8. StoreListSummary(x.arg)' = StoreListSummary(x.arg)
    BY <2>1 DEF StoreListSummary
  <2> QED BY <2>2, <2>3, <2>5, <2>7, <2>8 DEF QuietOK
<1> QED BY <1>1, <1>2

\* A step that changes nothing a list reads and moves request p to y.
LEMMA QuietStep ==
    ASSUME IInv, QuietInv, UNCHANGED listed, NEW p \in Procs, NEW y, Set(p, y), QuietOK(y)
    PROVE  QuietInv'
<1>1. DOMAIN reqs = Procs
  BY DEF IInv, RequestsOK
<1>2. reqs'[p] = y /\ \A q \in Procs \ {p} : reqs'[q] = reqs[q]
  BY <1>1 DEF Set
<1>3. \A q \in Procs : QuietOK(reqs[q])'
  <2> TAKE q \in Procs
  <2>1. PICK x : x = reqs'[q]
    OBVIOUS
  <2>2. QuietOK(x)
    BY <1>2, <2>1 DEF QuietInv
  <2>3. QuietOK(x)'
    BY <2>2, QuietFrame
  <2> QED BY <2>1, <2>3 DEF QuietOK, Counted, Located
<1> QED BY <1>3, QuietFrame DEF QuietInv

\* A step that writes: nobody who lists is calm any more.
LEMMA QuietWrite ==
    ASSUME IInv, TimesOK', NEW p \in Procs, NEW y, SetWriting(p, y), y.arg.op # "list"
    PROVE  QuietInv'
<1>1. \A q \in Procs : DOMAIN reqs[q] = Fields
  BY DEF IInv, RequestsOK, RequestOK
<1>2. \A q \in Procs : reqs'[q] = IF q = p THEN y ELSE [reqs[q] EXCEPT !.calm = FALSE]
  BY DEF SetWriting
<1>3. \A q \in Procs : reqs'[q].arg.op = "list" => ~reqs'[q].calm
  BY <1>1, <1>2 DEF Fields
<1> QED BY <1>3 DEF QuietInv, QuietOK

\* Distinct elements, and which they are.
Distinct(w) == \A i, j \in 1..Len(w) : w[i] = w[j] => i = j
Holds(w, x) == \E i \in 1..Len(w) : w[i] = x

\* The writes of the directory keep the times what they are.
LEMMA Touched == ASSUME TimesOK, NEW s, Touch(s) PROVE TimesOK'
<1>1. PICK now \in Nat : now = clock'
  BY DEF TimesOK, Touch
<1>2. [updated EXCEPT ![s] = now] \in [StoreIds -> Nat]
  BY DEF TimesOK
<1> QED BY <1>1, <1>2 DEF TimesOK, Touch

\* What the helpers leave of a request.
LEMMA SameInput ==
    ASSUME NEW x, DOMAIN x = Fields
    PROVE  /\ \A a : Answered(x, a).arg = x.arg /\ Answered(x, a).calm = x.calm
           /\ \A t : At(x, t).arg = x.arg
           /\ \A t, d : [At(x, t) EXCEPT !.id = d].arg = x.arg
           /\ [x EXCEPT !.i = @ + 1].arg = x.arg
BY DEF Answered, At, Fields

\* Requests that do not list.
LEMMA OtherBegins ==
    ASSUME IInv, QuietInv, NEW p \in Procs,
           \/ CreateStore(p) \/ UpdateStoreBasicInfo(p) \/ DeleteStore(p) \/ AddRecorder(p)
           \/ DeleteRecorder(p) \/ CreateEzvizAccount(p) \/ SyncEzvizAccountNames(p)
    PROVE  QuietInv'
<1>1. PICK in, y :
          /\ in \in Inputs /\ in.op # "list" /\ Set(p, y) /\ UNCHANGED <<deployment, storeTables>>
          /\ (\E a : y = Answered(Accepted(in), a)) \/ (\E t : y = At(Accepted(in), t))
  <2>1. CASE CreateStore(p)
    BY <2>1 DEF CreateStore, Begin
  <2>2. CASE UpdateStoreBasicInfo(p)
    BY <2>2 DEF UpdateStoreBasicInfo, Begin
  <2>3. CASE DeleteStore(p)
    BY <2>3 DEF DeleteStore, Begin
  <2>4. CASE AddRecorder(p)
    BY <2>4 DEF AddRecorder, Begin
  <2>5. CASE DeleteRecorder(p)
    BY <2>5 DEF DeleteRecorder, Begin
  <2>6. CASE CreateEzvizAccount(p)
    BY <2>6 DEF CreateEzvizAccount, Begin
  <2>7. CASE SyncEzvizAccountNames(p)
    BY <2>7 DEF SyncEzvizAccountNames, Begin
  <2> QED BY <2>1, <2>2, <2>3, <2>4, <2>5, <2>6, <2>7
<1>2. y.arg = in
  <2>1. PICK x : x = Accepted(in)
    OBVIOUS
  <2>2. DOMAIN x = Fields /\ x.arg = in
    BY <2>1, AcceptedRequest
  <2>3. (\A a : Answered(x, a).arg = x.arg) /\ \A t : At(x, t).arg = x.arg
    BY <2>2, SameInput
  <2> QED BY <1>1, <2>1, <2>2, <2>3
<1>3. QuietOK(y) /\ UNCHANGED listed
  BY <1>1, <1>2 DEF QuietOK, storeTables, listed
<1> QED BY <1>1, <1>3, QuietStep

LEMMA OtherReads ==
    ASSUME IInv, QuietInv, NEW p \in Procs,
           \/ CreateStoreName(p) \/ CreateStoreCode(p) \/ UpdateStoreName(p) \/ FindStore(p)
           \/ FindRecorder(p) \/ CreateAccountName(p)
           \/ AddRecorderLimit(p) \/ AddRecorderCode(p) \/ FindRecorderStore(p)
    PROVE  QuietInv'
<1>1. PICK y :
          /\ reqs[p].arg.op # "list" /\ Set(p, y) /\ Reads
          /\ \/ \E a : y = Answered(reqs[p], a)
             \/ \E t : y = At(reqs[p], t)
             \/ \E t, d : y = [At(reqs[p], t) EXCEPT !.id = d]
             \/ y = [reqs[p] EXCEPT !.i = @ + 1]
  <2>1. CASE CreateStoreName(p) \/ UpdateStoreName(p)
    BY <2>1 DEF CreateStoreName, UpdateStoreName, EnsureNoExactDuplicate, Serves
  <2>2. CASE CreateStoreCode(p)
    BY <2>2 DEF CreateStoreCode, Serves
  <2>3. CASE FindStore(p) \/ CreateAccountName(p)
    BY <2>3 DEF FindStore, CreateAccountName, Serves
  <2>4. CASE FindRecorder(p)
    BY <2>4 DEF FindRecorder, Serves
  <2>5. CASE AddRecorderLimit(p) \/ AddRecorderCode(p) \/ FindRecorderStore(p)
    BY <2>5 DEF AddRecorderLimit, AddRecorderCode, FindRecorderStore, Serves
  <2> QED BY <2>1, <2>2, <2>3, <2>4, <2>5
<1>2. DOMAIN reqs[p] = Fields
  BY InFlight
<1>3. y.arg = reqs[p].arg
  <2>1. PICK x : x = reqs[p]
    OBVIOUS
  <2>2. /\ \A a : Answered(x, a).arg = x.arg
        /\ \A t : At(x, t).arg = x.arg
        /\ \A t, d : [At(x, t) EXCEPT !.id = d].arg = x.arg
        /\ [x EXCEPT !.i = @ + 1].arg = x.arg
    BY <1>2, <2>1, SameInput
  <2>3. CASE y = [reqs[p] EXCEPT !.i = @ + 1]
    BY <2>1, <2>2, <2>3
  <2>4. CASE \E t, d : y = [At(reqs[p], t) EXCEPT !.id = d]
    BY <2>1, <2>2, <2>4
  <2> QED BY <1>1, <2>1, <2>2, <2>3, <2>4
<1>4. QuietOK(y) /\ UNCHANGED listed
  BY <1>1, <1>3 DEF QuietOK, Reads, storeTables, listed
<1> QED BY <1>1, <1>4, QuietStep

\* No calm list reads its result like this.
LEMMA ReadsResult ==
    ASSUME IInv, QuietInv, NEW p \in Procs, ReadStore(p)
    PROVE  QuietInv'
<1>1. PICK a : Set(p, Answered(reqs[p], a))
  BY DEF ReadStore
<1>2. /\ Answered(reqs[p], a).arg = reqs[p].arg
      /\ Answered(reqs[p], a).calm = reqs[p].calm
  BY InFlight, SameInput
<1>3. ~(reqs[p].arg.op = "list" /\ reqs[p].calm)
  BY DEF ReadStore, QuietInv, QuietOK
<1>4. QuietOK(Answered(reqs[p], a))
  BY <1>2, <1>3 DEF QuietOK
<1>5. UNCHANGED listed
  BY DEF ReadStore, Reads, storeTables, listed
<1> QED BY <1>1, <1>4, <1>5, QuietStep

\* A write that is refused.
LEMMA QuietRefused ==
    ASSUME IInv, QuietInv, NEW p \in Procs, reqs[p].arg.op # "list", UNCHANGED listed,
           NEW a, Set(p, Answered(reqs[p], a))
    PROVE  QuietInv'
<1>1. QuietOK(Answered(reqs[p], a))
  BY InFlight, SameInput DEF QuietOK
<1> QED BY <1>1, QuietStep

LEMMA StoreWrites ==
    ASSUME IInv, QuietInv, NEW p \in Procs,
           MySQLCreateStore(p) \/ MemoryCreateStore(p) \/ CommitUpdateStore(p)
    PROVE  QuietInv'
<1> DEFINE req == reqs[p]
<1>0. /\ reqs[p].arg.op # "list" /\ UNCHANGED deployment
      /\ \A a : Answered(req, a).arg = req.arg
      /\ \A t, d : [At(req, t) EXCEPT !.id = d].arg = req.arg
  BY InFlight, SameInput DEF MySQLCreateStore, MemoryCreateStore, CommitUpdateStore, Serves
<1>1. CASE /\ \E a : Set(p, Answered(req, a))
           /\ UNCHANGED <<stores, times, recorders>>
  BY <1>0, <1>1, QuietRefused DEF listed
<1>2. CASE /\ Serves(p, "createStore", "commit") /\ InsertStore(req, CodesOf(req.arg.codes))
           /\ \E y : SetWriting(p, y) /\ y.arg = req.arg
  <2>1. PICK s : Touch(s)
    BY <1>2 DEF InsertStore
  <2>2. TimesOK'
    BY <2>1, Touched DEF QuietInv
  <2> QED BY <1>0, <1>2, <2>2, QuietWrite
<1>3. CASE Touch(req.arg.store) /\ \E y : SetWriting(p, y) /\ y.arg = req.arg
  <2>1. PICK s : s = req.arg.store
    OBVIOUS
  <2>2. TimesOK'
    BY <1>3, <2>1, Touched DEF QuietInv
  <2> QED BY <1>0, <1>3, <2>2, QuietWrite
<1>4. CASE MySQLCreateStore(p)
  <2>1. \/ /\ Set(p, Answered(req, "error")) /\ UNCHANGED <<stores, times, recorders>>
        \/ /\ InsertStore(req, CodesOf(req.arg.codes))
           /\ SetWriting(p, [At(req, "read") EXCEPT !.id = last.store + 1])
    BY <1>4 DEF MySQLCreateStore
  <2>2. Serves(p, "createStore", "commit")
    BY <1>4 DEF MySQLCreateStore
  <2> QED BY <1>0, <1>1, <1>2, <2>1, <2>2
<1>5. CASE MemoryCreateStore(p)
  <2>1. /\ Serves(p, "createStore", "commit") /\ InsertStore(req, CodesOf(req.arg.codes))
        /\ SetWriting(p, Answered(req, "created"))
    BY <1>5 DEF MemoryCreateStore
  <2> QED BY <1>0, <1>2, <2>1
<1>6. CASE CommitUpdateStore(p)
  <2>1. \/ /\ \E a : Set(p, Answered(req, a))
           /\ UNCHANGED <<stores, times, recorders>>
        \/ /\ Touch(req.arg.store)
           /\ \/ SetWriting(p, [At(req, "read") EXCEPT !.id = req.arg.store])
              \/ SetWriting(p, Answered(req, "ok"))
    BY <1>6 DEF CommitUpdateStore
  <2> QED BY <1>0, <1>1, <1>3, <2>1, ZenonT(60)
<1> QED BY <1>4, <1>5, <1>6

LEMMA OtherWrites ==
    ASSUME IInv, QuietInv, NEW p \in Procs,
           \/ MySQLDeleteStore(p) \/ MemoryDeleteStore(p)
           \/ MySQLAddRecorder(p) \/ MemoryAddRecorder(p)
           \/ MySQLDeleteRecorder(p) \/ MemoryDeleteRecorder(p)
           \/ InsertEzvizAccount(p) \/ UpsertEzvizAccountName(p)
    PROVE  QuietInv'
<1> DEFINE req == reqs[p]
           Writes == \E y : SetWriting(p, y) /\ y.arg = req.arg
           Refuses == /\ \E a : Set(p, Answered(req, a))
                      /\ UNCHANGED <<stores, times, recorders>>
<1>0. /\ reqs[p].arg.op # "list" /\ UNCHANGED deployment
      /\ \A a : Answered(req, a).arg = req.arg
      /\ \A t, d : [At(req, t) EXCEPT !.id = d].arg = req.arg
      /\ [req EXCEPT !.i = @ + 1].arg = req.arg
  BY InFlight, SameInput DEF MySQLDeleteStore, MemoryDeleteStore, MySQLAddRecorder, MemoryAddRecorder,
     MySQLDeleteRecorder, MemoryDeleteRecorder, InsertEzvizAccount, UpsertEzvizAccountName, Serves
<1>1. CASE Refuses
  BY <1>0, <1>1, QuietRefused DEF listed
<1>2. CASE Writes /\ UNCHANGED times
  <2>1. TimesOK'
    BY <1>2 DEF QuietInv, TimesOK, times
  <2> QED BY <1>0, <1>2, <2>1, QuietWrite
<1>3. ASSUME Writes, NEW s, Touch(s) PROVE QuietInv'
  <2>1. TimesOK'
    BY <1>3, Touched DEF QuietInv
  <2> QED BY <1>0, <1>3, <2>1, QuietWrite
<1>4. ASSUME Writes, NEW s, RemoveStore(s) PROVE QuietInv'
  <2>1. TimesOK'
    BY <1>4 DEF RemoveStore, QuietInv, TimesOK
  <2> QED BY <1>0, <1>4, <2>1, QuietWrite
<1>5. CASE MySQLDeleteStore(p)
  <2>1. RemoveStore(req.arg.store) /\ SetWriting(p, Answered(req, "no_content"))
    BY <1>5 DEF MySQLDeleteStore
  <2>2. PICK s : s = req.arg.store
    OBVIOUS
  <2> QED BY <1>0, <1>4, <2>1, <2>2
<1>6. CASE MemoryDeleteStore(p)
  <2>1. \/ RemoveStore(req.arg.store) /\ SetWriting(p, Answered(req, "no_content"))
        \/ Refuses
    BY <1>6 DEF MemoryDeleteStore
  <2>2. PICK s : s = req.arg.store
    OBVIOUS
  <2> QED BY <1>0, <1>1, <1>4, <2>1, <2>2
<1>7. CASE MySQLAddRecorder(p)
  <2>1. \/ /\ Touch(req.arg.store)
           /\ SetWriting(p, [At(req, "read") EXCEPT !.id = req.arg.store])
        \/ Refuses
    BY <1>7 DEF MySQLAddRecorder, InsertRecorder
  <2>2. PICK s : s = req.arg.store
    OBVIOUS
  <2> QED BY <1>0, <1>1, <1>3, <2>1, <2>2
<1>8. CASE MemoryAddRecorder(p)
  <2>1. \/ Touch(req.arg.store) /\ SetWriting(p, Answered(req, "created"))
        \/ Refuses
    BY <1>8 DEF MemoryAddRecorder, InsertRecorder
  <2>2. PICK s : s = req.arg.store
    OBVIOUS
  <2> QED BY <1>0, <1>1, <1>3, <2>1, <2>2
<1>9. CASE MySQLDeleteRecorder(p)
  <2>1. SetWriting(p, Answered(req, "no_content")) /\ (Touch(req.id) \/ UNCHANGED times)
    BY <1>9 DEF MySQLDeleteRecorder
  <2>2. PICK s : s = req.id
    OBVIOUS
  <2> QED BY <1>0, <1>2, <1>3, <2>1, <2>2
<1>10. CASE MemoryDeleteRecorder(p)
  <2>1. \/ /\ Touch(recorders[req.arg.recorder].store)
           /\ SetWriting(p, Answered(req, "no_content"))
        \/ Refuses
    BY <1>10 DEF MemoryDeleteRecorder
  <2>2. PICK s : s = recorders[req.arg.recorder].store
    OBVIOUS
  <2> QED BY <1>0, <1>1, <1>3, <2>1, <2>2
<1>11. CASE InsertEzvizAccount(p)
  <2>1. /\ UNCHANGED <<stores, times, recorders>>
        /\ (\E a : Set(p, Answered(req, a))) \/ SetWriting(p, Answered(req, "created"))
    BY <1>11 DEF InsertEzvizAccount, storeTables
  <2> QED BY <1>0, <1>1, <1>2, <2>1
<1>12. CASE UpsertEzvizAccountName(p)
  <2>1. /\ UNCHANGED <<stores, times, recorders>>
        /\ (\E a : Set(p, Answered(req, a))) \/ SetWriting(p, [req EXCEPT !.i = @ + 1])
    BY <1>12 DEF UpsertEzvizAccountName, storeTables
  <2> QED BY <1>0, <1>1, <1>2, <2>1
<1> QED BY <1>5, <1>6, <1>7, <1>8, <1>9, <1>10, <1>11, <1>12, SMTT(60)

\* Where s is in w, and how many of F come before it.
Place(w, s) == CHOOSE i \in DOMAIN w : w[i] = s
Ahead(w, F, s) == Cardinality({t \in F : Place(w, t) < Place(w, s)})

LEMMA PlaceOf ==
    ASSUME NEW S, NEW w \in Seq(S), Distinct(w), NEW i \in 1..Len(w)
    PROVE  Place(w, w[i]) = i
<1>1. DOMAIN w = 1..Len(w)
  OBVIOUS
<1>2. \E j \in DOMAIN w : w[j] = w[i]
  BY <1>1
<1>3. Place(w, w[i]) \in DOMAIN w /\ w[Place(w, w[i])] = w[i]
  BY <1>2 DEF Place
<1> QED BY <1>1, <1>3 DEF Distinct

\* Distinct elements are as many as their places.
LEMMA CountPlaces ==
    ASSUME NEW w, Distinct(w), NEW A, A \subseteq 1..Len(w), IsFiniteSet(A)
    PROVE  /\ IsFiniteSet({w[i] : i \in A})
           /\ Cardinality({w[i] : i \in A}) = Cardinality(A)
<1> DEFINE T == {w[i] : i \in A}
           g == [i \in A |-> w[i]]
<1>1. g \in [A -> T] /\ \A i, j \in A : g[i] = g[j] => i = j
  BY DEF Distinct
<1>2. \A t \in T : \E i \in A : g[i] = t
  OBVIOUS
<1>3. ExistsBijection(A, T)
  <2> HIDE DEF g, T
  <2>1. g \in Bijection(A, T)
    BY <1>1, <1>2 DEF Bijection, Injection, Surjection, IsInjective
  <2> QED BY <2>1 DEF ExistsBijection
<1> HIDE DEF T
<1>4. IsFiniteSet(T) /\ Cardinality(T) = Cardinality(A)
  BY <1>3, FS_Bijection
<1> QED BY <1>4 DEF T

\* F is what w holds without D; v lists F in the order of w.
Remain(F, w, D) == \A s : s \in F <=> Holds(w, s) /\ s \notin D
InOrder(v, w, F) ==
    /\ IsFiniteSet(F) /\ Len(v) = Cardinality(F)
    /\ \A s \in F : /\ Ahead(w, F, s) \in Nat /\ Ahead(w, F, s) < Len(v)
                    /\ v[Ahead(w, F, s) + 1] = s
    /\ \A k \in 1..Len(v) : v[k] \in F /\ Ahead(w, F, v[k]) = k - 1

\* The loop puts each element it keeps at its rank among those it keeps.
LEMMA KeptInOrder ==
    ASSUME NEW S, NEW w \in Seq(S), Distinct(w), NEW D, NEW F, Remain(F, w, D),
           NEW v, v = Without(w, D)
    PROVE  v \in Seq(S) /\ InOrder(v, w, F)
<1>1. PICK n \in Nat : n = Len(w) /\ DOMAIN w = 1..n
  OBVIOUS
<1>2. v \in Seq(S) /\ Ranked(v, w, D, n)
  BY <1>1, WithoutRanked
<1>3. F = {w[i] : i \in Kept(w, D, n)}
  <2>1. \A s : s \in F <=> \E i \in 1..n : w[i] = s /\ w[i] \notin D
    BY <1>1 DEF Holds, Remain
  <2>2. \A s : s \in F <=> \E i \in Kept(w, D, n) : s = w[i]
    BY <2>1 DEF Kept
  <2> QED BY <2>2
<1>4. \A m \in 0..n : /\ IsFiniteSet({w[i] : i \in Kept(w, D, m)})
                      /\ Cardinality({w[i] : i \in Kept(w, D, m)}) = Rank(w, D, m)
                      /\ Rank(w, D, m) \in Nat
  <2> TAKE m \in 0..n
  <2>1. IsFiniteSet(Kept(w, D, m)) /\ Rank(w, D, m) \in Nat
    BY <1>1, KeptFinite
  <2>2. Kept(w, D, m) \subseteq 1..Len(w)
    BY <1>1 DEF Kept
  <2> QED BY <2>1, <2>2, CountPlaces DEF Rank
<1>5. IsFiniteSet(F) /\ Len(v) = Cardinality(F) /\ Len(v) \in Nat
  <2>1. n \in 0..n
    BY <1>1
  <2>2. Len(v) = Rank(w, D, n)
    BY <1>2 DEF Ranked
  <2> QED BY <1>3, <1>4, <2>1, <2>2
<1>6. ASSUME NEW i \in Kept(w, D, n)
      PROVE  Ahead(w, F, w[i]) = Rank(w, D, i) - 1 /\ Rank(w, D, i) \in 1..Len(v)
  <2>1. i \in 1..n /\ w[i] \notin D
    BY DEF Kept
  <2>2. Place(w, w[i]) = i
    BY <1>1, <2>1, PlaceOf
  <2>3. \A j \in Kept(w, D, n) : Place(w, w[j]) = j /\ j \in Nat
    BY <1>1, PlaceOf DEF Kept
  <2>4. PICK m \in 0..n : m = i - 1
    BY <2>1
  <2>5. Kept(w, D, m) = {j \in Kept(w, D, n) : j < i}
    BY <2>1, <2>4 DEF Kept
  <2>6. {t \in F : Place(w, t) < Place(w, w[i])} = {w[j] : j \in Kept(w, D, m)}
    BY <1>3, <2>2, <2>3, <2>5
  <2>7. Ahead(w, F, w[i]) = Rank(w, D, m)
    BY <1>4, <2>6 DEF Ahead
  <2>8. Rank(w, D, i) = Rank(w, D, m) + 1
    <3>1. m \in Nat /\ m + 1 = i
      BY <1>1, <2>1, <2>4
    <3> QED BY <2>1, <3>1, KeptNext
  <2>9. Rank(w, D, i) \in 1..Len(v) /\ Rank(w, D, m) \in Nat
    BY <1>2, <1>4 DEF Ranked
  <2> QED BY <2>7, <2>8, <2>9
<1>7. ASSUME NEW s \in F
      PROVE  Ahead(w, F, s) \in Nat /\ Ahead(w, F, s) < Len(v) /\ v[Ahead(w, F, s) + 1] = s
  <2>1. PICK i \in Kept(w, D, n) : s = w[i]
    BY <1>3
  <2>2. PICK r \in 1..Len(v) : r = Rank(w, D, i)
    BY <1>6
  <2>3. Ahead(w, F, s) = r - 1
    BY <1>6, <2>1, <2>2
  <2>4. v[r] = s
    BY <1>2, <2>1, <2>2 DEF Ranked
  <2>5. r - 1 \in Nat /\ r - 1 < Len(v) /\ (r - 1) + 1 = r
    BY <1>5
  <2> QED BY <2>3, <2>4, <2>5
<1>8. ASSUME NEW k \in 1..Len(v)
      PROVE  v[k] \in F /\ Ahead(w, F, v[k]) = k - 1
  <2>1. PICK i \in Kept(w, D, n) : Rank(w, D, i) = k
    BY <1>2 DEF Ranked
  <2>2. v[k] = w[i]
    BY <1>2, <2>1 DEF Ranked
  <2> QED BY <1>3, <1>6, <2>1, <2>2
<1> QED BY <1>2, <1>5, <1>7, <1>8 DEF InOrder

\* The slice of a page: the rows after the first, at most size of them.
LEMMA PageSlice ==
    ASSUME NEW S, NEW v \in Seq(S), NEW first \in Nat, NEW size \in Nat \ {0}, NEW rows,
           rows = SubSeq(v, first + 1, IF first + size < Len(v) THEN first + size ELSE Len(v))
    PROVE  /\ rows \in Seq(S) /\ Len(rows) \in Nat
           /\ \A k \in 1..Len(rows) :
                  first + k \in 1..Len(v) /\ k <= size /\ rows[k] = v[first + k]
           /\ \A m \in 1..Len(v) : m > first /\ m <= first + size =>
                  m - first \in 1..Len(rows) /\ rows[m - first] = v[m]
<1>1. PICK b \in Nat : b = IF first + size < Len(v) THEN first + size ELSE Len(v)
  OBVIOUS
<1>2. b <= Len(v) /\ b <= first + size /\ (b < first + size => b = Len(v)) /\ Len(v) \in Nat
  BY <1>1
<1>3. CASE first <= b
  <2>1. rows \in Seq(S) /\ Len(rows) = b - first /\ \A k \in 1..(b - first) : rows[k] = v[first + k]
    BY <1>1, <1>2, <1>3, Slice
  <2>2. \A k \in 1..Len(rows) : first + k \in 1..Len(v) /\ k <= size /\ rows[k] = v[first + k]
    BY <1>2, <1>3, <2>1
  <2>3. ASSUME NEW m \in 1..Len(v), m > first, m <= first + size
        PROVE  m - first \in 1..Len(rows) /\ rows[m - first] = v[m]
    <3>1. m - first \in 1..(b - first) /\ first + (m - first) = m
      BY <1>2, <1>3, <2>3
    <3> QED BY <2>1, <3>1
  <2>4. Len(rows) \in Nat
    BY <1>2, <1>3, <2>1
  <2> QED BY <2>1, <2>2, <2>3, <2>4
<1>4. CASE first > b
  <2>1. rows = << >>
    BY <1>1, <1>2, <1>4
  <2>2. b = Len(v)
    BY <1>2, <1>4
  <2> QED BY <1>4, <2>1, <2>2
<1> QED BY <1>1, <1>3, <1>4

LEMMA OffsetNat == ASSUME NEW in, in.page \in Int PROVE Offset(in) \in Nat /\ PageSize \in Nat \ {0}
<1>1. NormalizedPage(in) - 1 \in Nat /\ PageSize \in Nat \ {0}
  BY Limits DEF NormalizedPage
<1> QED BY <1>1 DEF Offset

LEMMA StoresFinite ==
    ASSUME IInv, NEW T, T \subseteq Live(stores)
    PROVE  T \subseteq StoreIds /\ IsFiniteSet(T) /\ Cardinality(T) \in Nat
<1>1. T \subseteq StoreIds
  BY DEF IInv, TablesOK, Live
<1>2. IsFiniteSet(StoreIds)
  BY FS_Interval, Limits DEF StoreIds
<1>3. IsFiniteSet(T)
  BY <1>1, <1>2, FS_Subset
<1> QED BY <1>1, <1>3, FS_CardinalityType

\* An order lists the live stores, each once.
LEMMA OrderLists ==
    ASSUME IInv, NEW order \in ListOrders
    PROVE  /\ order \in Seq(Live(stores)) /\ Distinct(order)
           /\ \A s : Holds(order, s) <=> s \in Live(stores)
           /\ \A i, j \in 1..Len(order) : i < j => updated[order[i]] >= updated[order[j]]
<1>1. PICK n \in Nat : n = Cardinality(Live(stores))
  BY StoresFinite
<1>2. /\ order \in [1..n -> Live(stores)] /\ IsInjective(order) /\ ToSet(order) = Live(stores)
      /\ \A i, j \in DOMAIN order : i < j => updated[order[i]] >= updated[order[j]]
  BY <1>1 DEF ListOrders
<1>3. order \in Seq(Live(stores)) /\ Len(order) = n /\ DOMAIN order = 1..n
  BY <1>2
<1>4. Distinct(order)
  BY <1>2, <1>3 DEF Distinct, IsInjective
<1>5. \A s : Holds(order, s) <=> s \in Live(stores)
  BY <1>2, <1>3 DEF Holds, ToSet
<1> QED BY <1>2, <1>3, <1>4, <1>5

LEMMA ListedFound ==
    ASSUME IInv, NEW order \in ListOrders, NEW in
    PROVE  Listed(order, in) \in Seq(Live(stores)) /\ InOrder(Listed(order, in), order, Found(in))
<1> DEFINE D == {s \in Live(stores) : ~StoreListWhere(s, in)}
<1>1. /\ order \in Seq(Live(stores)) /\ Distinct(order)
      /\ \A s : Holds(order, s) <=> s \in Live(stores)
  BY OrderLists
<1>2. Remain(Found(in), order, D)
  BY <1>1 DEF Found, Remain
<1>3. Listed(order, in) = Without(order, D)
  BY DEF Listed
<1> HIDE DEF D
<1> QED BY <1>1, <1>2, <1>3, KeptInOrder

\* The stores updated later come before a store, those that come before it
\* were not updated earlier.
LEMMA OrderRank ==
    ASSUME IInv, TimesOK, NEW order \in ListOrders, NEW in, NEW s \in Found(in)
    PROVE  /\ Ahead(order, Found(in), s) \in Nat
           /\ Cardinality(Newer(in, s)) <= Ahead(order, Found(in), s)
           /\ Ahead(order, Found(in), s) + 1 <= Cardinality(NotOlder(in, s))
           /\ Cardinality(Newer(in, s)) \in Nat /\ Cardinality(NotOlder(in, s)) \in Nat
<1>1. PICK F : F = Found(in) /\ F \subseteq Live(stores) /\ F \subseteq StoreIds
  BY StoresFinite DEF Found
<1>2. PICK before : before = {t \in F : Place(order, t) < Place(order, s)}
  OBVIOUS
<1>3. PICK newer, notOlder : newer = Newer(in, s) /\ notOlder = NotOlder(in, s)
  OBVIOUS
<1>4. newer \subseteq F /\ notOlder \subseteq F /\ before \subseteq F
  BY <1>1, <1>2, <1>3 DEF Newer, NotOlder
<1>5. /\ IsFiniteSet(newer) /\ Cardinality(newer) \in Nat
      /\ IsFiniteSet(notOlder) /\ Cardinality(notOlder) \in Nat
      /\ IsFiniteSet(before) /\ Cardinality(before) \in Nat
  BY <1>1, <1>4, StoresFinite
<1>6. \A t \in F : /\ Place(order, t) \in 1..Len(order) /\ order[Place(order, t)] = t
                   /\ updated[t] \in Nat
  <2> TAKE t \in F
  <2>1. PICK i \in 1..Len(order) : order[i] = t
    BY <1>1, OrderLists DEF Holds
  <2>2. Place(order, order[i]) = i
    BY OrderLists, PlaceOf
  <2>3. updated[t] \in Nat
    BY <1>1 DEF TimesOK
  <2> QED BY <2>1, <2>2, <2>3
<1>7. \A t, u \in F : Place(order, t) < Place(order, u) => updated[t] >= updated[u]
  BY <1>6, OrderLists
<1>8. s \in F /\ s \notin before /\ s \in notOlder
  BY <1>1, <1>2, <1>3, <1>6 DEF NotOlder
<1>9. newer \subseteq before
  <2> SUFFICES ASSUME NEW t \in newer PROVE t \in before
    OBVIOUS
  <2>1. t \in F /\ updated[t] > updated[s]
    BY <1>1, <1>3 DEF Newer
  <2>2. updated[t] \in Nat /\ updated[s] \in Nat
    BY <1>6, <1>8, <2>1
  <2>3. Place(order, t) # Place(order, s)
    BY <1>6, <1>8, <2>1, <2>2
  <2>4. ~(Place(order, s) < Place(order, t))
    BY <1>7, <1>8, <2>1, <2>2
  <2>5. Place(order, t) \in Nat /\ Place(order, s) \in Nat
    BY <1>6, <1>8, <2>1
  <2> QED BY <1>2, <2>1, <2>3, <2>4, <2>5
<1>10. before \cup {s} \subseteq notOlder
  <2>1. \A t \in before : t \in F /\ updated[t] >= updated[s]
    BY <1>2, <1>7, <1>8
  <2> QED BY <1>1, <1>3, <1>8, <2>1 DEF NotOlder
<1>11. Cardinality(newer) <= Cardinality(before)
  BY <1>5, <1>9, FS_Subset
<1>12. Cardinality(before \cup {s}) <= Cardinality(notOlder)
  BY <1>5, <1>10, FS_Subset
<1>13. Cardinality(before \cup {s}) = Cardinality(before) + 1
  BY <1>5, <1>8, FS_AddElement
<1>14. Ahead(order, Found(in), s) = Cardinality(before)
  BY <1>1, <1>2 DEF Ahead
<1> QED BY <1>3, <1>5, <1>11, <1>12, <1>13, <1>14

\* What a page in some order shows: its rows, whatever else they tell.
LEMMA RowsRight ==
    ASSUME IInv, TimesOK, NEW order \in ListOrders, NEW in, in.page \in Int, NEW items,
           DOMAIN items = DOMAIN PageRows(order, in),
           \A i \in DOMAIN items : DOMAIN items[i] = ItemKeys /\ items[i].id = PageRows(order, in)[i]
    PROVE  RightRows(items, in)
<1>1. PICK v : v = Listed(order, in)
  OBVIOUS
<1>2. PICK rows : rows = PageRows(order, in)
  OBVIOUS
<1>3. PICK first \in Nat : first = Offset(in)
  BY OffsetNat
<1>4. PageSize \in Nat \ {0}
  BY Limits
<1>5. rows = SubSeq(v, first + 1, IF first + PageSize < Len(v) THEN first + PageSize ELSE Len(v))
  BY <1>1, <1>2, <1>3 DEF PageRows
<1>6. PICK F : F = Found(in)
  OBVIOUS
<1>7. /\ v \in Seq(Live(stores)) /\ Len(v) = Cardinality(F)
      /\ \A k \in 1..Len(v) : v[k] \in F /\ Ahead(order, F, v[k]) = k - 1
  BY <1>1, <1>6, ListedFound DEF InOrder
<1>8. /\ rows \in Seq(Live(stores)) /\ Len(rows) \in Nat
      /\ \A k \in 1..Len(rows) : first + k \in 1..Len(v) /\ k <= PageSize /\ rows[k] = v[first + k]
      /\ \A m \in 1..Len(v) : m > first /\ m <= first + PageSize =>
             m - first \in 1..Len(rows) /\ rows[m - first] = v[m]
  BY <1>4, <1>5, <1>7, PageSlice
<1>9. DOMAIN rows = 1..Len(rows) /\ Len(v) \in Nat
  BY <1>7, <1>8
<1>10. DOMAIN items = 1..Len(rows) /\ Len(items) = Len(rows)
  BY <1>2, <1>8, <1>9
<1>11. \A i \in 1..Len(rows) : DOMAIN items[i] = ItemKeys /\ items[i].id = rows[i]
  BY <1>2, <1>10
<1>12. {first + i : i \in 1..Len(rows)} = ((first + 1)..(first + PageSize)) \cap (1..Len(v))
  <2>1. ASSUME NEW m \in ((first + 1)..(first + PageSize)) \cap (1..Len(v))
        PROVE  m \in {first + i : i \in 1..Len(rows)}
    <3>1. m - first \in 1..Len(rows)
      BY <1>8, <1>4, <2>1
    <3>2. m = first + (m - first)
      BY <2>1
    <3> QED BY <3>1, <3>2
  <2>2. \A i \in 1..Len(rows) : first + i \in ((first + 1)..(first + PageSize)) \cap (1..Len(v))
    BY <1>4, <1>8
  <2> QED BY <2>1, <2>2
<1>13. ASSUME NEW i \in 1..Len(rows)
       PROVE  /\ rows[i] \in F /\ first + i > Cardinality(Newer(in, rows[i]))
              /\ first + i <= Cardinality(NotOlder(in, rows[i]))
              /\ Ahead(order, F, rows[i]) = first + i - 1
  <2>1. first + i \in 1..Len(v) /\ rows[i] = v[first + i]
    BY <1>8
  <2>2. rows[i] \in F /\ Ahead(order, F, rows[i]) = first + i - 1
    BY <1>7, <2>1
  <2>3. PICK s \in F : s = rows[i]
    BY <2>2
  <2>4. PICK a \in Nat : a = Ahead(order, F, s)
    BY <1>6, OrderRank
  <2>5. PICK n \in Nat, o \in Nat : n = Cardinality(Newer(in, s)) /\ o = Cardinality(NotOlder(in, s))
    BY <1>6, OrderRank
  <2>6. n <= a /\ a + 1 <= o
    BY <1>6, <2>4, <2>5, OrderRank
  <2>7. a = first + i - 1 /\ i \in Nat
    BY <1>8, <2>2, <2>3, <2>4
  <2>8. first + i > n /\ first + i <= o
    BY <2>6, <2>7
  <2> QED BY <2>2, <2>3, <2>5, <2>8
<1>14. \A i, j \in 1..Len(rows) : rows[i] = rows[j] => i = j
  <2> SUFFICES ASSUME NEW i \in 1..Len(rows), NEW j \in 1..Len(rows), rows[i] = rows[j] PROVE i = j
    OBVIOUS
  <2>1. first + i - 1 = first + j - 1
    BY <1>13
  <2> QED BY <2>1
<1>15. {Offset(in) + i : i \in DOMAIN items} =
           ((Offset(in) + 1)..(Offset(in) + PageSize)) \cap (1..Cardinality(Found(in)))
  BY <1>3, <1>6, <1>7, <1>10, <1>12
<1>16. \A i \in DOMAIN items : /\ DOMAIN items[i] = ItemKeys /\ items[i].id \in Found(in)
                               /\ Offset(in) + i > Cardinality(Newer(in, items[i].id))
                               /\ Offset(in) + i <= Cardinality(NotOlder(in, items[i].id))
  BY <1>3, <1>6, <1>10, <1>11, <1>13
<1>17. \A i, j \in DOMAIN items : items[i].id = items[j].id => i = j
  BY <1>10, <1>11, <1>14
<1> QED BY <1>8, <1>10, <1>15, <1>16, <1>17, Zenon DEF RightRows

\* What a finished list that nobody wrote beside shows.
LEMMA QuietAddsUp == IInv /\ QuietInv => QuietListAddsUp
<1> SUFFICES ASSUME IInv, QuietInv, NEW p \in Procs,
                    reqs[p].arg.op = "list", reqs[p].answer = "ok", reqs[p].calm
             PROVE  LET in == reqs[p].arg
                        page == reqs[p].page
                    IN  /\ page.total = Cardinality(Found(in)) /\ page.stores = page.total
                        /\ {Offset(in) + i : i \in DOMAIN page.items} =
                               ((Offset(in) + 1)..(Offset(in) + PageSize)) \cap (1..page.total)
                        /\ \A i \in DOMAIN page.items :
                               LET s == page.items[i].id
                               IN  /\ s \in Found(in)
                                   /\ Offset(in) + i > Cardinality(Newer(in, s))
                                   /\ Offset(in) + i <= Cardinality(NotOlder(in, s))
                                   /\ \/ page.items[i].recorders = Cardinality(RecordersOf(s))
                                      \/ MySQL /\ page.items[i].recorders = 0
                        /\ \A i, j \in DOMAIN page.items :
                               page.items[i].id = page.items[j].id => i = j
                        /\ \/ \A s \in Found(in) : StoreCityOption(stores[s].city) \in page.cities
                           \/ MySQL /\ page.cities = {}
  BY DEF QuietListAddsUp
<1>1. QuietOK(reqs[p])
  BY DEF QuietInv
<1>2. reqs[p].step = "done"
  BY <1>1 DEF QuietOK
<1>3. /\ Counted(reqs[p]) /\ Located(reqs[p])
      /\ RightRows(reqs[p].page.items, reqs[p].arg) /\ Measured(reqs[p].page.items)
      /\ reqs[p].page.stores = StoreListSummary(reqs[p].arg)
  BY <1>1, <1>2 DEF QuietOK, Rowed
<1>4. /\ reqs[p].page.total = Cardinality(Found(reqs[p].arg))
      /\ reqs[p].page.stores = reqs[p].page.total
  BY <1>3 DEF Counted, StoreListSummary
<1>5. \/ \A s \in Found(reqs[p].arg) : StoreCityOption(stores[s].city) \in reqs[p].page.cities
      \/ MySQL /\ reqs[p].page.cities = {}
  BY <1>3 DEF Located, ListStoreCities, Found, StoreListWhere
<1>6. \A i \in DOMAIN reqs[p].page.items :
          LET s == reqs[p].page.items[i].id
          IN  /\ s \in Found(reqs[p].arg)
              /\ Offset(reqs[p].arg) + i > Cardinality(Newer(reqs[p].arg, s))
              /\ Offset(reqs[p].arg) + i <= Cardinality(NotOlder(reqs[p].arg, s))
              /\ \/ reqs[p].page.items[i].recorders = Cardinality(RecordersOf(s))
                 \/ MySQL /\ reqs[p].page.items[i].recorders = 0
  BY <1>3 DEF RightRows, Measured
<1>7. /\ {Offset(reqs[p].arg) + i : i \in DOMAIN reqs[p].page.items} =
             ((Offset(reqs[p].arg) + 1)..(Offset(reqs[p].arg) + PageSize)) \cap (1..reqs[p].page.total)
      /\ \A i, j \in DOMAIN reqs[p].page.items :
             reqs[p].page.items[i].id = reqs[p].page.items[j].id => i = j
  BY <1>3, <1>4 DEF RightRows
<1> QED BY <1>4, <1>5, <1>6, <1>7, Zenon

\* The fields of a row.
LEMMA ItemFields ==
    ASSUME NEW s, NEW in
    PROVE  /\ DOMAIN Item(s, in) = ItemKeys /\ Item(s, in).id = s /\ Item(s, in).recorders = 0
           /\ DOMAIN WithMetrics(Item(s, in)) = ItemKeys
           /\ WithMetrics(Item(s, in)).id = s
           /\ WithMetrics(Item(s, in)).recorders = Cardinality(RecordersOf(s))
BY DEF Item, WithMetrics, ItemKeys

\* A list that comes in: the total, or with the memory store everything.
LEMMA QuietBegins ==
    ASSUME IInv, QuietInv, NEW p \in Procs, ListStores(p)
    PROVE  QuietInv'
<1> DEFINE A(in) == [At(Accepted(in), "cities") EXCEPT
                         !.page.total = Cardinality(Found(Accepted(in).arg))]
           B(order, in) == [Answered(Accepted(in), "ok") EXCEPT
                                !.page = MemoryPage(order, Accepted(in).arg)]
<1>1. PICK in \in Inputs, order \in ListOrders :
          /\ in.op = "list" /\ Set(p, FirstQuery(order, Accepted(in)))
          /\ UNCHANGED listed
  BY DEF ListStores, Begin, storeTables, listed
<1>2. in.page \in Int
  BY <1>1, DirectoryAssumption
<1>3. MySQL => QuietOK(A(in))
  <2>1. PICK y, n : y = At(Accepted(in), "cities") /\ n = Cardinality(Found(in))
    OBVIOUS
  <2>2. /\ DOMAIN y = Fields /\ y.arg = in /\ y.step = "cities" /\ y.answer = "none"
        /\ y.page = NoPage
    BY <2>1 DEF At, Accepted, Idle, Fields
  <2>3. A(in) = [y EXCEPT !.page.total = n]
    BY <2>1, AcceptedRequest
  <2>4. PICK x : x = [y EXCEPT !.page.total = n]
    OBVIOUS
  <2>5. /\ x.arg = in /\ x.step = "cities" /\ x.answer = "none"
        /\ DOMAIN x.page = PageFields /\ x.page.total = n
    BY <2>2, <2>4 DEF Fields, NoPage, PageFields
  <2>6. MySQL => QuietOK(x)
    BY <2>1, <2>5 DEF QuietOK, Counted, Rowed
  <2> QED BY <2>3, <2>4, <2>6
<1>4. QuietOK(B(order, in))
  <2>1. PICK y, n, rows, bare, items, cs, st :
            /\ y = Answered(Accepted(in), "ok") /\ n = Cardinality(Found(in))
            /\ rows = PageRows(order, in)
            /\ bare = ListedItems(order, in)
            /\ items = [i \in DOMAIN bare |-> WithMetrics(bare[i])]
            /\ cs = ListStoreCities(in) /\ st = StoreListSummary(in)
    OBVIOUS
  <2>2. DOMAIN y = Fields /\ y.arg = in /\ y.step = "done"
    BY <2>1 DEF Answered, Accepted, Idle, Fields
  <2>3. PICK g : g = [total |-> n, cities |-> cs, items |-> items, stores |-> st]
    OBVIOUS
  <2>4. B(order, in) = [y EXCEPT !.page = g]
    BY <2>1, <2>3, AcceptedRequest DEF MemoryPage
  <2>5. PICK x : x = [y EXCEPT !.page = g]
    OBVIOUS
  <2>6. x.arg = in /\ x.step = "done" /\ x.page = g
    BY <2>2, <2>5 DEF Fields
  <2>7. /\ DOMAIN g = PageFields /\ g.total = n /\ g.cities = cs /\ g.items = items /\ g.stores = st
    BY <2>3 DEF PageFields
  <2>8. bare = [i \in DOMAIN rows |-> Item(rows[i], in)]
    BY <2>1 DEF ListedItems
  <2>9. DOMAIN items = DOMAIN rows
    BY <2>1, <2>8
  <2>10. \A k \in DOMAIN items : /\ DOMAIN items[k] = ItemKeys /\ items[k].id = rows[k]
                                 /\ items[k].recorders = Cardinality(RecordersOf(rows[k]))
    BY <2>1, <2>8, ItemFields
  <2>11. RightRows(items, in)
    BY <1>2, <2>1, <2>9, <2>10, RowsRight DEF QuietInv
  <2>12. Measured(items)
    BY <2>10 DEF Measured
  <2>13. Counted(x) /\ Located(x) /\ x.page.stores = StoreListSummary(x.arg)
    BY <2>1, <2>6, <2>7 DEF Counted, Located
  <2>14. QuietOK(x)
    BY <2>6, <2>7, <2>11, <2>12, <2>13 DEF QuietOK
  <2> QED BY <2>4, <2>5, <2>14
<1>5. QuietOK(FirstQuery(order, Accepted(in)))
  BY <1>3, <1>4 DEF FirstQuery
<1> HIDE DEF A, B
<1> QED BY <1>1, <1>5, QuietStep

LEMMA QuietCities ==
    ASSUME IInv, QuietInv, NEW p \in Procs, ListCities(p)
    PROVE  QuietInv'
<1>1. PICK r, y : r = reqs[p] /\ y = At(reqs[p], "rows")
  OBVIOUS
<1>2. PICK cs \in {ListStoreCities(r.arg), {}} : Set(p, [y EXCEPT !.page.cities = cs])
  BY <1>1 DEF ListCities
<1>3. PICK x : x = [y EXCEPT !.page.cities = cs]
  OBVIOUS
<1>4. Set(p, x) /\ r.arg.op = "list" /\ r.step = "cities" /\ UNCHANGED listed
  BY <1>1, <1>2, <1>3 DEF ListCities, Serves, Reads, storeTables, listed
<1>5. DOMAIN r = Fields /\ QuietOK(r)
  BY <1>1, InFlight DEF QuietInv
<1>6. /\ DOMAIN y = Fields /\ y.arg = r.arg /\ y.step = "rows" /\ y.answer = r.answer
      /\ y.page = r.page /\ y.calm = r.calm
  BY <1>1, <1>5 DEF At, Fields
<1>7. /\ x.arg = r.arg /\ x.step = "rows" /\ x.answer = r.answer /\ x.calm = r.calm
      /\ x.page = [r.page EXCEPT !.cities = cs]
  BY <1>3, <1>6 DEF Fields
<1>8. QuietOK(x)
  <2> SUFFICES ASSUME x.calm PROVE QuietOK(x)
    BY DEF QuietOK
  <2>1. DOMAIN r.page = PageFields /\ MySQL /\ r.answer = "none" /\ Counted(r)
    BY <1>4, <1>5, <1>7 DEF QuietOK
  <2>2. DOMAIN x.page = PageFields /\ x.page.cities = cs /\ x.page.total = r.page.total
    BY <1>7, <2>1 DEF PageFields
  <2>3. Counted(x) /\ Located(x)
    BY <1>2, <1>7, <2>1, <2>2 DEF Counted, Located
  <2> QED BY <1>7, <2>1, <2>2, <2>3 DEF QuietOK, Rowed
<1> QED BY <1>4, <1>8, QuietStep

LEMMA QuietRows ==
    ASSUME IInv, QuietInv, NEW p \in Procs, ListRows(p)
    PROVE  QuietInv'
<1>1. PICK order \in ListOrders :
          Set(p, [At(reqs[p], "metrics") EXCEPT !.page.items = ListedItems(order, reqs[p].arg)])
  BY DEF ListRows
<1>2. PICK r, y : r = reqs[p] /\ y = At(reqs[p], "metrics")
  OBVIOUS
<1>3. PICK items, rows : items = ListedItems(order, r.arg) /\ rows = PageRows(order, r.arg)
  OBVIOUS
<1>4. PICK x : x = [y EXCEPT !.page.items = items]
  OBVIOUS
<1>5. Set(p, x) /\ r.arg.op = "list" /\ r.step = "rows" /\ UNCHANGED listed
  BY <1>1, <1>2, <1>3, <1>4 DEF ListRows, Serves, Reads, storeTables, listed
<1>6. DOMAIN r = Fields /\ QuietOK(r) /\ r.arg.page \in Int
  BY <1>2, <1>5, InFlight, DirectoryAssumption DEF QuietInv
<1>7. /\ DOMAIN y = Fields /\ y.arg = r.arg /\ y.step = "metrics" /\ y.answer = r.answer
      /\ y.page = r.page /\ y.calm = r.calm
  BY <1>2, <1>6 DEF At, Fields
<1>8. /\ x.arg = r.arg /\ x.step = "metrics" /\ x.answer = r.answer /\ x.calm = r.calm
      /\ x.page = [r.page EXCEPT !.items = items]
  BY <1>4, <1>7 DEF Fields
<1>9. QuietOK(x)
  <2> SUFFICES ASSUME x.calm PROVE QuietOK(x)
    BY DEF QuietOK
  <2>1. DOMAIN r.page = PageFields /\ MySQL /\ r.answer = "none" /\ Counted(r) /\ Located(r)
    BY <1>5, <1>6, <1>8 DEF QuietOK
  <2>2. /\ DOMAIN x.page = PageFields /\ x.page.items = items
        /\ x.page.total = r.page.total /\ x.page.cities = r.page.cities
    BY <1>8, <2>1 DEF PageFields
  <2>3. Counted(x) /\ Located(x)
    BY <1>8, <2>1, <2>2 DEF Counted, Located
  <2>4. items = [i \in DOMAIN rows |-> Item(rows[i], r.arg)]
    BY <1>3 DEF ListedItems
  <2>5. DOMAIN items = DOMAIN rows
    BY <2>4
  <2>6. \A k \in DOMAIN items : /\ DOMAIN items[k] = ItemKeys /\ items[k].id = rows[k]
                                /\ items[k].recorders = 0
    BY <2>4, ItemFields
  <2>7. RightRows(items, r.arg)
    BY <1>3, <1>6, <2>5, <2>6, RowsRight DEF QuietInv
  <2>8. Measured(items)
    BY <2>1, <2>6 DEF Measured
  <2> QED BY <1>8, <2>1, <2>2, <2>3, <2>7, <2>8 DEF QuietOK, Rowed
<1> QED BY <1>5, <1>9, QuietStep

\* The rows are those of their stores, whatever they show beside.
LEMMA SameRows ==
    ASSUME NEW items, NEW more, NEW in, RightRows(items, in), DOMAIN more = DOMAIN items,
           \A k \in DOMAIN items : DOMAIN more[k] = ItemKeys /\ more[k].id = items[k].id
    PROVE  RightRows(more, in)
<1>1. Len(items) \in Nat /\ DOMAIN more = 1..Len(items)
  BY DEF RightRows
<1>2. Len(more) = Len(items)
  BY <1>1
<1> QED BY <1>2 DEF RightRows

LEMMA QuietMetrics ==
    ASSUME IInv, QuietInv, NEW p \in Procs, ListMetrics(p)
    PROVE  QuietInv'
<1>1. PICK r : r = reqs[p]
  OBVIOUS
<1>2. r.arg.op = "list" /\ r.step = "metrics" /\ UNCHANGED listed
  BY <1>1 DEF ListMetrics, Serves, Reads, storeTables, listed
<1>3. DOMAIN r = Fields /\ QuietOK(r)
  BY <1>1, InFlight DEF QuietInv
<1>4. r.calm => /\ DOMAIN r.page = PageFields /\ MySQL /\ r.answer = "none"
                /\ Counted(r) /\ Located(r)
                /\ RightRows(r.page.items, r.arg) /\ Measured(r.page.items)
  BY <1>2, <1>3 DEF QuietOK, Rowed
<1>5. ASSUME NEW x, Set(p, x), x.arg = r.arg, x.step \in {"metrics", "summary"},
             x.answer = r.answer, x.page = r.page, x.calm = r.calm
      PROVE  QuietInv'
  <2>1. QuietOK(x)
    <3> SUFFICES ASSUME x.calm PROVE QuietOK(x)
      BY DEF QuietOK
    <3>1. Counted(x) /\ Located(x)
      BY <1>4, <1>5 DEF Counted, Located
    <3> QED BY <1>4, <1>5, <3>1 DEF QuietOK, Rowed
  <2> QED BY <1>2, <1>5, <2>1, QuietStep
<1>6. CASE Set(p, At(r, "summary"))
  <2>1. PICK x : x = At(r, "summary")
    OBVIOUS
  <2>2. /\ x.arg = r.arg /\ x.step = "summary" /\ x.answer = r.answer
        /\ x.page = r.page /\ x.calm = r.calm
    BY <1>3, <2>1 DEF At, Fields
  <2> QED BY <1>5, <1>6, <2>1, <2>2
<1>7. CASE Set(p, [r EXCEPT !.i = @ + 1])
  <2>1. PICK x : x = [r EXCEPT !.i = @ + 1]
    OBVIOUS
  <2>2. /\ x.arg = r.arg /\ x.step = "metrics" /\ x.answer = r.answer
        /\ x.page = r.page /\ x.calm = r.calm
    BY <1>2, <1>3, <2>1 DEF Fields
  <2> QED BY <1>5, <1>7, <2>1, <2>2
<1>8. CASE Set(p, [r EXCEPT !.page.items[r.i] = WithMetrics(@), !.i = @ + 1])
  <2>1. PICK x : x = [r EXCEPT !.page.items[r.i] = WithMetrics(@), !.i = @ + 1]
    OBVIOUS
  <2>2. Set(p, x)
    BY <1>8, <2>1
  <2>3. /\ x.arg = r.arg /\ x.step = "metrics" /\ x.answer = r.answer /\ x.calm = r.calm
        /\ x.page = [r.page EXCEPT !.items[r.i] = WithMetrics(@)]
    BY <1>2, <1>3, <2>1 DEF Fields
  <2>4. QuietOK(x)
    <3> SUFFICES ASSUME x.calm PROVE QuietOK(x)
      BY DEF QuietOK
    <3>1. PICK items, i : items = r.page.items /\ i = r.i
      OBVIOUS
    <3>2. /\ DOMAIN x.page = PageFields /\ x.page.total = r.page.total /\ x.page.cities = r.page.cities
          /\ x.page.items = [items EXCEPT ![i] = WithMetrics(@)]
      BY <1>4, <2>3, <3>1 DEF PageFields
    <3>3. Counted(x) /\ Located(x)
      BY <1>4, <2>3, <3>2 DEF Counted, Located
    <3>4. RightRows(items, r.arg) /\ Measured(items)
      BY <1>4, <2>3, <3>1
    <3>5. PICK more : more = [items EXCEPT ![i] = WithMetrics(@)]
      OBVIOUS
    <3>6. /\ DOMAIN more = DOMAIN items
          /\ \A k \in DOMAIN items : more[k] = IF k = i THEN WithMetrics(items[k]) ELSE items[k]
      BY <3>5
    <3>7. \A k \in DOMAIN items :
              /\ DOMAIN WithMetrics(items[k]) = ItemKeys
              /\ WithMetrics(items[k]).id = items[k].id
              /\ WithMetrics(items[k]).recorders = Cardinality(RecordersOf(items[k].id))
      BY <3>4 DEF RightRows, WithMetrics, ItemKeys
    <3>8. \A k \in DOMAIN items :
              /\ DOMAIN more[k] = ItemKeys /\ more[k].id = items[k].id
              /\ \/ more[k].recorders = Cardinality(RecordersOf(more[k].id))
                 \/ MySQL /\ more[k].recorders = 0
      BY <3>4, <3>6, <3>7 DEF RightRows, Measured
    <3>9. Measured(more)
      BY <3>6, <3>8 DEF Measured
    <3>10. RightRows(more, r.arg)
      BY <3>4, <3>6, <3>8, SameRows
    <3> QED BY <1>4, <2>3, <3>2, <3>3, <3>5, <3>9, <3>10 DEF QuietOK, Rowed
  <2> QED BY <1>2, <2>2, <2>4, QuietStep
<1>9. \/ Set(p, At(r, "summary")) \/ Set(p, [r EXCEPT !.i = @ + 1])
      \/ Set(p, [r EXCEPT !.page.items[r.i] = WithMetrics(@), !.i = @ + 1])
  BY <1>1 DEF ListMetrics
<1> QED BY <1>6, <1>7, <1>8, <1>9

LEMMA QuietSummary ==
    ASSUME IInv, QuietInv, NEW p \in Procs, ListSummary(p)
    PROVE  QuietInv'
<1>1. PICK r, y, st : /\ r = reqs[p] /\ y = Answered(reqs[p], "ok")
                      /\ st = StoreListSummary(reqs[p].arg)
  OBVIOUS
<1>2. PICK x : x = [y EXCEPT !.page.stores = st]
  OBVIOUS
<1>3. Set(p, x) /\ r.arg.op = "list" /\ r.step = "summary" /\ UNCHANGED listed
  BY <1>1, <1>2 DEF ListSummary, Serves, Reads, storeTables, listed
<1>4. DOMAIN r = Fields /\ QuietOK(r)
  BY <1>1, InFlight DEF QuietInv
<1>5. /\ DOMAIN y = Fields /\ y.arg = r.arg /\ y.step = "done" /\ y.page = r.page /\ y.calm = r.calm
  BY <1>1, <1>4 DEF Answered, Fields
<1>6. /\ x.arg = r.arg /\ x.step = "done" /\ x.calm = r.calm
      /\ x.page = [r.page EXCEPT !.stores = st]
  BY <1>2, <1>5 DEF Fields
<1>7. QuietOK(x)
  <2> SUFFICES ASSUME x.calm PROVE QuietOK(x)
    BY DEF QuietOK
  <2>1. /\ DOMAIN r.page = PageFields /\ Counted(r) /\ Located(r)
        /\ RightRows(r.page.items, r.arg) /\ Measured(r.page.items)
    BY <1>3, <1>4, <1>6 DEF QuietOK, Rowed
  <2>2. /\ DOMAIN x.page = PageFields /\ x.page.stores = st /\ x.page.items = r.page.items
        /\ x.page.total = r.page.total /\ x.page.cities = r.page.cities
    BY <1>6, <2>1 DEF PageFields
  <2>3. Counted(x) /\ Located(x)
    BY <1>6, <2>1, <2>2 DEF Counted, Located
  <2> QED BY <1>1, <1>6, <2>1, <2>2, <2>3 DEF QuietOK, Rowed
<1> QED BY <1>3, <1>7, QuietStep

LEMMA QuietFails ==
    ASSUME IInv, QuietInv, NEW p \in Procs, ListFails(p)
    PROVE  QuietInv'
<1>1. PICK r, x : r = reqs[p] /\ x = Answered(reqs[p], "error")
  OBVIOUS
<1>2. Set(p, x) /\ r.arg.op = "list" /\ UNCHANGED listed
  BY <1>1 DEF ListFails, Reads, storeTables, listed
<1>3. DOMAIN r = Fields /\ QuietOK(r)
  BY <1>1, InFlight DEF QuietInv
<1>4. /\ x.arg = r.arg /\ x.step = "done" /\ x.answer = "error" /\ x.page = r.page /\ x.calm = r.calm
  BY <1>1, <1>3 DEF Answered, Fields
<1>5. QuietOK(x)
  BY <1>2, <1>3, <1>4 DEF QuietOK
<1> QED BY <1>2, <1>5, QuietStep

LEMMA QuietInitial ==
    ASSUME Init PROVE QuietInv
<1>1. \A p \in Procs : reqs[p].arg.op # "list"
  BY DEF Init, Idle
<1>2. TimesOK
  BY DEF Init, TimesOK
<1> QED BY <1>1, <1>2 DEF QuietInv, QuietOK

LEMMA QuietStutters ==
    ASSUME QuietInv, UNCHANGED vars PROVE QuietInv'
<1>1. UNCHANGED listed /\ UNCHANGED reqs
  BY DEF vars, listed, times
<1>2. \A p \in Procs : QuietOK(reqs[p])'
  <2> TAKE p \in Procs
  <2>1. PICK x : x = reqs[p]
    OBVIOUS
  <2>2. QuietOK(x) /\ QuietOK(x)'
    BY <1>1, <2>1, QuietFrame DEF QuietInv
  <2> QED BY <1>1, <2>1, <2>2 DEF QuietOK, Counted, Located
<1> QED BY <1>1, <1>2, QuietFrame DEF QuietInv

LEMMA QuietNext ==
    ASSUME IInv, QuietInv, Next PROVE QuietInv'
<1>1. PICK p \in Procs :
        \/ CreateStore(p) \/ CreateStoreName(p) \/ CreateStoreCode(p)
        \/ MySQLCreateStore(p) \/ MemoryCreateStore(p) \/ ReadStore(p)
        \/ UpdateStoreBasicInfo(p) \/ UpdateStoreName(p) \/ CommitUpdateStore(p)
        \/ DeleteStore(p) \/ FindStore(p)
        \/ MySQLDeleteStore(p) \/ MemoryDeleteStore(p)
        \/ AddRecorder(p) \/ AddRecorderLimit(p) \/ AddRecorderCode(p)
        \/ FindRecorderStore(p) \/ MySQLAddRecorder(p) \/ MemoryAddRecorder(p)
        \/ DeleteRecorder(p) \/ FindRecorder(p)
        \/ MySQLDeleteRecorder(p) \/ MemoryDeleteRecorder(p)
        \/ CreateEzvizAccount(p) \/ CreateAccountName(p) \/ InsertEzvizAccount(p)
        \/ SyncEzvizAccountNames(p) \/ UpsertEzvizAccountName(p)
        \/ ListStores(p) \/ ListCities(p) \/ ListRows(p) \/ ListMetrics(p)
        \/ ListSummary(p) \/ ListFails(p)
  BY DEF Next
<1>2. CASE \/ CreateStore(p) \/ UpdateStoreBasicInfo(p) \/ DeleteStore(p) \/ AddRecorder(p)
           \/ DeleteRecorder(p) \/ CreateEzvizAccount(p) \/ SyncEzvizAccountNames(p)
  BY <1>2, OtherBegins
<1>3. CASE \/ CreateStoreName(p) \/ CreateStoreCode(p) \/ UpdateStoreName(p) \/ FindStore(p)
           \/ FindRecorder(p) \/ CreateAccountName(p)
           \/ AddRecorderLimit(p) \/ AddRecorderCode(p) \/ FindRecorderStore(p)
  BY <1>3, OtherReads
<1>4. CASE ReadStore(p)
  BY <1>4, ReadsResult
<1>5. CASE MySQLCreateStore(p) \/ MemoryCreateStore(p) \/ CommitUpdateStore(p)
  BY <1>5, StoreWrites
<1>6. CASE \/ MySQLDeleteStore(p) \/ MemoryDeleteStore(p)
           \/ MySQLAddRecorder(p) \/ MemoryAddRecorder(p)
           \/ MySQLDeleteRecorder(p) \/ MemoryDeleteRecorder(p)
           \/ InsertEzvizAccount(p) \/ UpsertEzvizAccountName(p)
  BY <1>6, OtherWrites
<1>7. CASE \/ ListStores(p) \/ ListCities(p) \/ ListRows(p) \/ ListMetrics(p)
           \/ ListSummary(p) \/ ListFails(p)
  BY <1>7, QuietBegins, QuietCities, QuietRows, QuietMetrics, QuietSummary, QuietFails
<1> QED BY <1>1, <1>2, <1>3, <1>4, <1>5, <1>6, <1>7

\* A list of stores that nobody wrote beside adds up: ListStores asks for
\* the total, the cities, the rows, the recorders of each row and the summary
\* in statements of their own; where none fails they agree on what matches and
\* on its order, and where one fails that the list does without, it shows no
\* cities or no recorders; for every search, city and page, on both
\* repositories, however the stores of one moment are ordered.
THEOREM ListHolds == Spec => []QuietListAddsUp
<1>1. Init => QuietInv
  BY QuietInitial
<1>2. IInv /\ QuietInv /\ [Next]_vars => QuietInv'
  BY QuietNext, QuietStutters
<1>3. IInv /\ QuietInv => QuietListAddsUp
  BY QuietAddsUp
<1> QED BY <1>1, <1>2, <1>3, DirectoryInductive, PTL DEF Spec
=============================================================================
