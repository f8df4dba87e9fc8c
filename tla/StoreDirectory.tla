--------------------------- MODULE StoreDirectory ---------------------------
(***************************************************************************)
(* The directory of internal/storespace: stores, their video recorders and *)
(* the Ezviz accounts, behind the service and its HTTP routes.  The        *)
(* service tests names, device codes and the number of recorders with      *)
(* queries of their own and then calls the repository, which is MySQL (a   *)
(* transaction with keys, then a read of the result) or the memory store   *)
(* (one operation under a mutex, no keys).  cmd/server joins MySQL with    *)
(* the CRM as the authority for stores, and the memory store without it;   *)
(* MySQL without the CRM is what NewService alone gives.                   *)
(* Of the times, updated_at alone is kept, to the millisecond of MySQL;    *)
(* short names, statuses and channels are left out.                        *)
(***************************************************************************)
EXTENDS Integers, FiniteSets, SequencesExt, Filtering

CONSTANTS
    Procs,          \* HTTP requests served at the same time
    Inputs,         \* the requests that are sent, each a record with its op
    Deployments,    \* how the process is put together: [backend, crm]
    Seed,           \* the store MySQL holds at the start: [name, city, org, codes]
    Dropped,        \* parts of a name that do not count: spaces, "store", ...
    Space,          \* the part that is a space
    RecorderLimit,  \* three in the code
    PageSize,
    Missing, Blank,
    MaxRequests     \* bound on the requests of a behaviour

VARIABLES
    deployment,
    stores,      \* tb_stores / MemoryStore.stores
    updated,     \* updated_at of a store, 0 without a row
    clock,       \* the moment of the last write; writes may share a moment
    recorders,   \* tb_video_recorders / Store.Recorders
    deviceCodes, \* MemoryStore.deviceCodes: the recorder a code was given to
    accounts,    \* tb_ezviz_accounts / MemoryStore.accounts
    log,         \* tb_operation_logs: <<action, entity, id, store>>
    last,        \* the last id given out, by table
    reqs,        \* the request every process serves
    started

vars == <<deployment, stores, updated, clock, recorders, deviceCodes, accounts, log,
          last, reqs, started>>
times == <<updated, clock>>
storeTables == <<stores, times, recorders, deviceCodes, log>>

MySQL == deployment.backend = "mysql"

---------------------------------------------------------------------------
(* Names and codes.  A name is a sequence of parts; a device code as it is *)
(* typed is a pair of the code and of how it is written.                   *)

NormalizeStoreName(name) == SelectSeq(name, LAMBDA x : x \notin Dropped)
NormalizeDeviceCode(raw) == raw[1]
RawName(name) == SelectSeq(name, LAMBDA x : x # Space)
Within(s, t) == \E i \in 0..(Len(s) - Len(t)) : SubSeq(s, i + 1, i + Len(t)) = t

\* The codes of a request in its order, blank ones left out.
CodesOf(raws) ==
    Without([i \in DOMAIN raws |-> NormalizeDeviceCode(raws[i])], {Blank})

Ops == {"createStore", "updateStore", "deleteStore", "addRecorder",
        "deleteRecorder", "createAccount", "sync", "list"}
Coded == {in \in Inputs : in.op \in {"createStore", "addRecorder"}}
Codes == UNION {ToSet(CodesOf(in.codes)) : in \in Coded \cup {Seed}}
StoreIds == 1..(1 + MaxRequests)
RecorderIds == 1..(RecorderLimit * (1 + MaxRequests))
AccountIds == 1..(2 * MaxRequests)
Answers == {"none", "created", "ok", "no_content", "invalid", "not_found",
            "read_only", "error"}
Steps == {"idle", "name", "code", "store", "find", "commit", "read", "upsert",
          "cities", "rows", "metrics", "summary", "done"}

ASSUME DirectoryAssumption ==
    /\ Deployments \subseteq [backend : {"mysql", "memory"}, crm : BOOLEAN]
    /\ \A in \in Inputs : in.op \in Ops
    /\ RecorderLimit \in Nat \ {0} /\ PageSize \in Nat \ {0}
    /\ MaxRequests \in Nat
    /\ Space \in Dropped
    /\ IsFiniteSet(Procs) /\ Procs # {}
    /\ \A in \in Coded \cup {Seed} : in.codes \in Seq(ToSet(in.codes))
    /\ \A in \in Inputs : in.op = "addRecorder" => Len(in.codes) = 1
    /\ \A in \in Inputs : in.op = "list" => in.page \in Int
    /\ Len(Seed.codes) <= RecorderLimit
    /\ \A in \in {j \in Inputs : j.op \in {"createStore", "updateStore"}} \cup {Seed} :
           [name |-> in.name, city |-> in.city, org |-> in.org] # Missing
    /\ \A s \in StoreIds, c \in Codes : [store |-> s, code |-> c] # Missing

Live(table) == {i \in DOMAIN table : table[i] # Missing}
RecordersOf(s) == {r \in Live(recorders) : recorders[r].store = s}

NoPage == [total |-> 0, cities |-> {}, items |-> << >>, stores |-> 0]
Idle == [arg |-> [op |-> "idle"], step |-> "idle", i |-> 1, id |-> 0,
         calm |-> TRUE, answer |-> "none", page |-> NoPage]

TypeOK ==
    /\ deployment \in Deployments
    /\ updated \in [StoreIds -> Nat] /\ clock \in Nat
    /\ \A r \in Live(recorders) :
           recorders[r].store \in Live(stores) /\ recorders[r].code \in Codes
    /\ deviceCodes \in [Codes -> RecorderIds \cup {0}]
    /\ \A a \in Live(accounts) : accounts[a].status \in {"unverified", "available"}
    /\ log \subseteq {"create", "update", "delete"} \X {"store", "recorder"}
                     \X (StoreIds \cup RecorderIds) \X StoreIds
    /\ last.store \in 0..Max(StoreIds) /\ last.recorder \in 0..Max(RecorderIds)
    /\ last.account \in 0..Max(AccountIds)
    /\ \A p \in Procs : reqs[p].step \in Steps /\ reqs[p].answer \in Answers
    /\ started \in 0..MaxRequests

Init ==
    /\ deployment \in Deployments
    /\ LET codes == IF MySQL THEN CodesOf(Seed.codes) ELSE << >>
       IN  /\ stores = [s \in StoreIds |-> IF MySQL /\ s = 1
                          THEN [name |-> Seed.name, city |-> Seed.city,
                                org |-> Seed.org]
                          ELSE Missing]
           /\ recorders = [r \in RecorderIds |-> IF r <= Len(codes)
                             THEN [store |-> 1, code |-> codes[r]]
                             ELSE Missing]
           /\ log = IF MySQL THEN {<<"create", "store", 1, 1>>} ELSE {}
           /\ last = [store |-> IF MySQL THEN 1 ELSE 0,
                      recorder |-> Len(codes), account |-> 0]
    /\ updated = [s \in StoreIds |-> 0] /\ clock = 0
    /\ deviceCodes = [c \in Codes |-> 0]
    /\ accounts = [a \in AccountIds |-> Missing]
    /\ reqs = [p \in Procs |-> Idle]
    /\ started = 0

---------------------------------------------------------------------------
(* Requests.  calm says that no other request has written since this one   *)
(* came in; no numbers the requests.                                       *)

Accepted(in) == [Idle EXCEPT !.arg = in]
At(req, step) == [req EXCEPT !.step = step]
Answered(req, answer) == [req EXCEPT !.step = "done", !.answer = answer]

Set(p, req) == reqs' = [reqs EXCEPT ![p] = req]
\* The request writes: the others are no longer calm.
SetWriting(p, req) ==
    reqs' = [q \in Procs |-> IF q = p THEN req ELSE [reqs[q] EXCEPT !.calm = FALSE]]

Begin(p, op, First(_)) ==
    /\ started < MaxRequests
    /\ reqs[p].step \in {"idle", "done"}
    /\ started' = started + 1
    /\ \E in \in {j \in Inputs : j.op = op} : Set(p, First(Accepted(in)))
    /\ UNCHANGED <<deployment, storeTables, accounts, last>>

Serves(p, op, step) == reqs[p].arg.op = op /\ reqs[p].step = step
Reads == UNCHANGED <<deployment, storeTables, accounts, last, started>>

---------------------------------------------------------------------------
(* What the repositories look up. *)

\* CheckDuplicate: stores of the same normalised name, and similar ones.
ExactMatches(name, exclude) ==
    {s \in Live(stores) : /\ s # exclude
                          /\ NormalizeStoreName(stores[s].name) = NormalizeStoreName(name)}
IsSimilarStoreName(a, b) ==
    LET x == NormalizeStoreName(a)
        y == NormalizeStoreName(b)
    IN  IF x = << >> \/ y = << >> \/ x = y THEN x = y
        ELSE Within(x, y) \/ Within(y, x)

DeviceCodeExists(code) ==
    IF MySQL THEN \E r \in Live(recorders) : recorders[r].code = code
    ELSE deviceCodes[code] # 0

AccountNameExists(name) == \E a \in Live(accounts) : accounts[a].name = name

EnsureNoExactDuplicate(req, exclude, step) ==
    IF ExactMatches(req.arg.name, exclude) # {} THEN Answered(req, "invalid")
    ELSE At(req, step)

---------------------------------------------------------------------------
(* Creating a store. *)

ValidStoreFields(in) == in.name # << >> /\ in.city # Blank
ValidCreateStoreInput(in) ==
    LET codes == CodesOf(in.codes)
    IN  /\ ValidStoreFields(in)
        /\ Len(in.codes) <= RecorderLimit
        /\ IsInjective(codes)
        /\ in.plan \/ codes # << >>

CreateStore(p) ==
    Begin(p, "createStore",
          LAMBDA req : IF deployment.crm THEN Answered(req, "read_only")
                       ELSE IF ~ValidCreateStoreInput(req.arg) THEN Answered(req, "invalid")
                       ELSE At(req, "name"))

CreateStoreName(p) ==
    /\ Serves(p, "createStore", "name")
    /\ Set(p, EnsureNoExactDuplicate(reqs[p], 0, "code"))
    /\ Reads

\* One query per device code; the insert follows the last.
CreateStoreCode(p) ==
    LET req == reqs[p]
        codes == CodesOf(req.arg.codes)
    IN  /\ Serves(p, "createStore", "code")
        /\ Set(p, IF req.i > Len(codes) THEN At(req, "commit")
                  ELSE IF DeviceCodeExists(codes[req.i]) THEN Answered(req, "invalid")
                  ELSE [req EXCEPT !.i = @ + 1])
        /\ Reads

NewStore(in) ==
    [name |-> in.name, city |-> in.city, org |-> in.org]
NewRecorders(codes, s) ==
    [r \in RecorderIds |->
        IF r \in (last.recorder + 1)..(last.recorder + Len(codes))
        THEN [store |-> s, code |-> codes[r - last.recorder]]
        ELSE recorders[r]]

\* updated_at becomes the moment of the write.
Touch(s) ==
    /\ clock' \in {clock, clock + 1}
    /\ updated' = [updated EXCEPT ![s] = clock']

InsertStore(req, codes) ==
    LET s == last.store + 1
    IN  /\ stores' = [stores EXCEPT ![s] = NewStore(req.arg)]
        /\ Touch(s)
        /\ recorders' = NewRecorders(codes, s)
        /\ last' = [last EXCEPT !.store = s, !.recorder = @ + Len(codes)]

\* The keys of tb_stores and tb_video_recorders allow the rows.
KeysFree(name, codes) ==
    /\ ExactMatches(name, 0) = {}
    /\ \A r \in Live(recorders) : recorders[r].code \notin codes

MySQLCreateStore(p) ==
    LET req == reqs[p]
        codes == CodesOf(req.arg.codes)
        s == last.store + 1
    IN  /\ Serves(p, "createStore", "commit") /\ MySQL
        /\ IF KeysFree(req.arg.name, ToSet(codes))
           THEN /\ InsertStore(req, codes)
                /\ log' = log \cup {<<"create", "store", s, s>>}
                /\ SetWriting(p, [At(req, "read") EXCEPT !.id = s])
           ELSE /\ Set(p, Answered(req, "error"))
                /\ UNCHANGED <<stores, times, recorders, log, last>>
        /\ UNCHANGED <<deployment, deviceCodes, accounts, started>>

MemoryCreateStore(p) ==
    LET req == reqs[p]
        codes == CodesOf(req.arg.codes)
    IN  /\ Serves(p, "createStore", "commit") /\ ~MySQL
        /\ InsertStore(req, codes)
        /\ deviceCodes' = [c \in Codes |->
               IF \E i \in DOMAIN codes : codes[i] = c
               THEN last.recorder + (CHOOSE i \in DOMAIN codes : codes[i] = c)
               ELSE deviceCodes[c]]
        /\ SetWriting(p, Answered(req, "created"))
        /\ UNCHANGED <<deployment, accounts, log, started>>

\* GetStore after the commit: the store may be gone again.
ReadStore(p) ==
    LET req == reqs[p]
    IN  /\ req.step = "read"
        /\ Set(p, Answered(req, IF req.id \notin Live(stores) THEN "not_found"
                                ELSE IF req.arg.op = "updateStore" THEN "ok"
                                ELSE "created"))
        /\ Reads

---------------------------------------------------------------------------
(* Changing and deleting a store. *)

UpdateStoreBasicInfo(p) ==
    Begin(p, "updateStore",
          LAMBDA req : IF deployment.crm THEN Answered(req, "read_only")
                       ELSE IF ~ValidStoreFields(req.arg) THEN Answered(req, "invalid")
                       ELSE At(req, "name"))

UpdateStoreName(p) ==
    /\ Serves(p, "updateStore", "name")
    /\ Set(p, EnsureNoExactDuplicate(reqs[p], reqs[p].arg.store, "commit"))
    /\ Reads

\* The statement fails on the key, or changes no row, or changes the row.
CommitUpdateStore(p) ==
    LET req == reqs[p]
        s == req.arg.store
    IN  /\ Serves(p, "updateStore", "commit")
        /\ \/ /\ s \notin Live(stores)
              /\ Set(p, Answered(req, "not_found"))
              /\ UNCHANGED <<stores, times, log>>
           \/ /\ s \in Live(stores)
              /\ MySQL /\ ExactMatches(req.arg.name, s) # {}
              /\ Set(p, Answered(req, "error"))
              /\ UNCHANGED <<stores, times, log>>
           \/ /\ s \in Live(stores)
              /\ MySQL => ExactMatches(req.arg.name, s) = {}
              /\ stores' = [stores EXCEPT ![s] = NewStore(req.arg)]
              /\ Touch(s)
              /\ log' = IF MySQL THEN log \cup {<<"update", "store", s, s>>} ELSE log
              /\ SetWriting(p, IF MySQL THEN [At(req, "read") EXCEPT !.id = s]
                               ELSE Answered(req, "ok"))
        /\ UNCHANGED <<deployment, recorders, deviceCodes, accounts, last, started>>

\* The service passes the id on.  MySQL reads the row first; the memory store
\* does everything at once.
DeleteStore(p) ==
    Begin(p, "deleteStore",
          LAMBDA req : IF deployment.crm THEN Answered(req, "read_only")
                       ELSE At(req, IF MySQL THEN "find" ELSE "commit"))

FindStore(p) ==
    LET req == reqs[p]
    IN  /\ Serves(p, "deleteStore", "find")
        /\ Set(p, IF req.arg.store \in Live(stores) THEN At(req, "commit")
                  ELSE Answered(req, "not_found"))
        /\ Reads

RemoveStore(s) ==
    /\ stores' = [stores EXCEPT ![s] = Missing]
    /\ updated' = [updated EXCEPT ![s] = 0] /\ UNCHANGED clock
    /\ recorders' = [r \in RecorderIds |-> IF r \in RecordersOf(s) THEN Missing
                                          ELSE recorders[r]]

\* The recorders go with the store (on delete cascade), the log entry is
\* written whether or not the row was still there.
MySQLDeleteStore_NotLogged(p) ==
    LET s == reqs[p].arg.store
    IN  /\ Serves(p, "deleteStore", "commit") /\ MySQL
        /\ RemoveStore(s)
        /\ SetWriting(p, Answered(reqs[p], "no_content"))
        /\ UNCHANGED <<deployment, deviceCodes, accounts, log, last, started>>

MySQLDeleteStore(p) ==
    LET s == reqs[p].arg.store
    IN  /\ Serves(p, "deleteStore", "commit") /\ MySQL
        /\ RemoveStore(s)
        /\ log' = log \cup {<<"delete", "store", s, s>>}
        /\ SetWriting(p, Answered(reqs[p], "no_content"))
        /\ UNCHANGED <<deployment, deviceCodes, accounts, last, started>>

\* Without the loop that gives the codes of the store's recorders back.
MemoryDeleteStore_KeepsCodes(p) ==
    LET s == reqs[p].arg.store
    IN  /\ Serves(p, "deleteStore", "commit") /\ ~MySQL
        /\ s \in Live(stores)
        /\ RemoveStore(s)
        /\ SetWriting(p, Answered(reqs[p], "no_content"))
        /\ UNCHANGED <<deployment, deviceCodes, accounts, log, last, started>>

MemoryDeleteStore(p) ==
    LET s == reqs[p].arg.store
    IN  /\ Serves(p, "deleteStore", "commit") /\ ~MySQL
        /\ IF s \in Live(stores)
           THEN /\ deviceCodes' = [c \in Codes |->
                       IF \E r \in RecordersOf(s) : recorders[r].code = c THEN 0
                       ELSE deviceCodes[c]]
                /\ RemoveStore(s)
                /\ SetWriting(p, Answered(reqs[p], "no_content"))
           ELSE /\ Set(p, Answered(reqs[p], "not_found"))
                /\ UNCHANGED <<stores, times, recorders, deviceCodes>>
        /\ UNCHANGED <<deployment, accounts, log, last, started>>

---------------------------------------------------------------------------
(* Recorders. *)

AddRecorder(p) ==
    Begin(p, "addRecorder",
          LAMBDA req : IF CodesOf(req.arg.codes) = << >> THEN Answered(req, "invalid")
                       ELSE At(req, "store"))

AddRecorderLimit_OffByOne(p) ==
    LET req == reqs[p]
    IN  /\ Serves(p, "addRecorder", "store")
        /\ Set(p, IF req.arg.store \notin Live(stores) THEN Answered(req, "not_found")
                  ELSE IF Cardinality(RecordersOf(req.arg.store)) > RecorderLimit
                       THEN Answered(req, "invalid")
                  ELSE At(req, "code"))
        /\ Reads

\* The store is read, with its recorders.
AddRecorderLimit(p) ==
    LET req == reqs[p]
    IN  /\ Serves(p, "addRecorder", "store")
        /\ Set(p, IF req.arg.store \notin Live(stores) THEN Answered(req, "not_found")
                  ELSE IF Cardinality(RecordersOf(req.arg.store)) >= RecorderLimit
                       THEN Answered(req, "invalid")
                  ELSE At(req, "code"))
        /\ Reads

AddRecorderCode(p) ==
    LET req == reqs[p]
    IN  /\ Serves(p, "addRecorder", "code")
        /\ Set(p, IF DeviceCodeExists(CodesOf(req.arg.codes)[1])
                      THEN Answered(req, "invalid")
                  ELSE At(req, IF MySQL THEN "find" ELSE "commit"))
        /\ Reads

\* The transaction first looks for the store; its insert fails on the foreign
\* key when the store is deleted after that.
FindRecorderStore(p) ==
    LET req == reqs[p]
    IN  /\ Serves(p, "addRecorder", "find")
        /\ Set(p, IF req.arg.store \in Live(stores) THEN At(req, "commit")
                  ELSE Answered(req, "not_found"))
        /\ Reads

InsertRecorder(req) ==
    /\ recorders' = NewRecorders(CodesOf(req.arg.codes), req.arg.store)
    /\ Touch(req.arg.store)
    /\ last' = [last EXCEPT !.recorder = @ + 1]

MySQLAddRecorder(p) ==
    LET req == reqs[p]
        code == CodesOf(req.arg.codes)[1]
    IN  /\ Serves(p, "addRecorder", "commit") /\ MySQL
        /\ IF /\ req.arg.store \in Live(stores)
              /\ \A r \in Live(recorders) : recorders[r].code # code
           THEN /\ InsertRecorder(req)
                /\ log' = log \cup {<<"create", "recorder", last.recorder + 1, req.arg.store>>}
                /\ SetWriting(p, [At(req, "read") EXCEPT !.id = req.arg.store])
           ELSE /\ Set(p, Answered(req, "error"))
                /\ UNCHANGED <<times, recorders, log, last>>
        /\ UNCHANGED <<deployment, stores, deviceCodes, accounts, started>>

MemoryAddRecorder(p) ==
    LET req == reqs[p]
        code == CodesOf(req.arg.codes)[1]
    IN  /\ Serves(p, "addRecorder", "commit") /\ ~MySQL
        /\ IF req.arg.store \in Live(stores)
           THEN /\ InsertRecorder(req)
                /\ deviceCodes' = [deviceCodes EXCEPT ![code] = last.recorder + 1]
                /\ SetWriting(p, Answered(req, "created"))
           ELSE /\ Set(p, Answered(req, "not_found"))
                /\ UNCHANGED <<times, recorders, deviceCodes, last>>
        /\ UNCHANGED <<deployment, stores, accounts, log, started>>

\* As DeleteStore: MySQL reads the recorder's store and code first.
DeleteRecorder(p) ==
    Begin(p, "deleteRecorder",
          LAMBDA req : At(req, IF MySQL THEN "find" ELSE "commit"))

FindRecorder(p) ==
    LET req == reqs[p]
        r == req.arg.recorder
    IN  /\ Serves(p, "deleteRecorder", "find")
        /\ Set(p, IF r \in Live(recorders)
                  THEN [At(req, "commit") EXCEPT !.id = recorders[r].store]
                  ELSE Answered(req, "not_found"))
        /\ Reads

MySQLDeleteRecorder(p) ==
    LET req == reqs[p]
        r == req.arg.recorder
    IN  /\ Serves(p, "deleteRecorder", "commit") /\ MySQL
        /\ recorders' = [recorders EXCEPT ![r] = Missing]
        /\ IF req.id \in Live(stores) THEN Touch(req.id) ELSE UNCHANGED times
        /\ log' = log \cup {<<"delete", "recorder", r, req.id>>}
        /\ SetWriting(p, Answered(req, "no_content"))
        /\ UNCHANGED <<deployment, stores, deviceCodes, accounts, last, started>>

MemoryDeleteRecorder(p) ==
    LET req == reqs[p]
        r == req.arg.recorder
    IN  /\ Serves(p, "deleteRecorder", "commit") /\ ~MySQL
        /\ IF r \in Live(recorders)
           THEN /\ recorders' = [recorders EXCEPT ![r] = Missing]
                /\ deviceCodes' = [deviceCodes EXCEPT ![recorders[r].code] = 0]
                /\ Touch(recorders[r].store)
                /\ SetWriting(p, Answered(req, "no_content"))
           ELSE /\ Set(p, Answered(req, "not_found"))
                /\ UNCHANGED <<times, recorders, deviceCodes>>
        /\ UNCHANGED <<deployment, stores, accounts, log, last, started>>

---------------------------------------------------------------------------
(* Ezviz accounts. *)

CreateEzvizAccount(p) ==
    Begin(p, "createAccount",
          LAMBDA req : IF req.arg.name = Blank THEN Answered(req, "invalid")
                       ELSE At(req, "name"))

CreateAccountName(p) ==
    LET req == reqs[p]
    IN  /\ Serves(p, "createAccount", "name")
        /\ Set(p, IF AccountNameExists(req.arg.name) THEN Answered(req, "invalid")
                  ELSE At(req, "commit"))
        /\ Reads

InsertAccount(name, status) ==
    /\ accounts' = [accounts EXCEPT ![last.account + 1] = [name |-> name, status |-> status]]
    /\ last' = [last EXCEPT !.account = @ + 1]

\* Accounts are never deleted: the read of the new row always finds it.
InsertEzvizAccount(p) ==
    LET req == reqs[p]
    IN  /\ Serves(p, "createAccount", "commit")
        /\ IF MySQL /\ AccountNameExists(req.arg.name)
           THEN Set(p, Answered(req, "error")) /\ UNCHANGED <<accounts, last>>
           ELSE /\ InsertAccount(req.arg.name, "unverified")
                /\ SetWriting(p, Answered(req, "created"))
        /\ UNCHANGED <<deployment, storeTables, started>>

\* A server starts: the names of its environment are upserted one by one.
SyncEzvizAccountNames(p) ==
    MySQL /\ Begin(p, "sync", LAMBDA req : At(req, "upsert"))

UpsertEzvizAccountName(p) ==
    LET req == reqs[p]
        name == req.arg.names[req.i]
    IN  /\ Serves(p, "sync", "upsert")
        /\ IF req.i > Len(req.arg.names)
           THEN Set(p, Answered(req, "ok")) /\ UNCHANGED <<accounts, last>>
           ELSE /\ IF AccountNameExists(name)
                   THEN /\ accounts' = [a \in AccountIds |->
                               IF accounts[a] # Missing /\ accounts[a].name = name
                               THEN [accounts[a] EXCEPT !.status = "available"]
                               ELSE accounts[a]]
                        /\ UNCHANGED last
                   ELSE InsertAccount(name, "available")
                /\ SetWriting(p, [req EXCEPT !.i = @ + 1])
        /\ UNCHANGED <<deployment, storeTables, started>>

---------------------------------------------------------------------------
(* The list of stores: in MySQL a query for the total, the cities, the     *)
(* rows of the page, the recorders of every row, and the summary.          *)

StoreCityOption(city) == IF city = Blank THEN "unset" ELSE city
MatchesStoreCity(s, city) == city = Blank \/ StoreCityOption(stores[s].city) = city

\* MySQL compares with the name and the organisation id; the memory store
\* with the name as it is and as it is normalised.
MatchesStoreSearch(s, query) ==
    \/ RawName(query) = << >>
    \/ Within(RawName(stores[s].name), RawName(query))
    \/ MySQL /\ Within(stores[s].org, RawName(query))
    \/ /\ ~MySQL /\ NormalizeStoreName(query) # << >>
       /\ Within(NormalizeStoreName(stores[s].name), NormalizeStoreName(query))

StoreListWhere(s, in) == MatchesStoreSearch(s, in.query) /\ MatchesStoreCity(s, in.city)
Found(in) == {s \in Live(stores) : StoreListWhere(s, in)}
ListStoreCities(in) ==
    {StoreCityOption(stores[s].city) : s \in {x \in Live(stores) : MatchesStoreSearch(x, in.query)}}

\* Last updated first; stores of one moment come in any order.
ListOrders ==
    {order \in [1..Cardinality(Live(stores)) -> Live(stores)] :
        /\ IsInjective(order) /\ ToSet(order) = Live(stores)
        /\ \A i, j \in DOMAIN order : i < j => updated[order[i]] >= updated[order[j]]}
Listed(order, in) == Without(order, {s \in Live(stores) : ~StoreListWhere(s, in)})

NormalizedPage(in) == IF in.page <= 0 THEN 1 ELSE in.page
Offset(in) == (NormalizedPage(in) - 1) * PageSize
PageRows(order, in) ==
    LET end == Offset(in) + PageSize
        all == Listed(order, in)
    IN  SubSeq(all, Offset(in) + 1, IF end < Len(all) THEN end ELSE Len(all))

\* The summary counts every store that matches, not only the page.
StoreListSummary_SearchOnly(in) ==
    Cardinality({s \in Live(stores) : MatchesStoreSearch(s, in.query)})
StoreListSummary(in) == Cardinality(Found(in))

CanViewMonitor(s, in) == stores[s].org # << >> /\ stores[s].org \in in.visible
Item(s, in) == [id |-> s, view |-> CanViewMonitor(s, in), recorders |-> 0]
WithMetrics(item) == [item EXCEPT !.recorders = Cardinality(RecordersOf(item.id))]

ListedItems(order, in) == [i \in DOMAIN PageRows(order, in) |-> Item(PageRows(order, in)[i], in)]

\* The memory store does everything under its mutex.
MemoryPage(order, in) ==
    [total |-> Cardinality(Found(in)), cities |-> ListStoreCities(in),
     items |-> [i \in DOMAIN ListedItems(order, in) |-> WithMetrics(ListedItems(order, in)[i])],
     stores |-> StoreListSummary(in)]

FirstQuery(order, req) ==
    IF MySQL THEN [At(req, "cities") EXCEPT !.page.total = Cardinality(Found(req.arg))]
    ELSE [Answered(req, "ok") EXCEPT !.page = MemoryPage(order, req.arg)]

ListStores(p) ==
    \E order \in ListOrders : Begin(p, "list", LAMBDA req : FirstQuery(order, req))

\* A query that fails leaves the list without cities.
ListCities(p) ==
    /\ Serves(p, "list", "cities")
    /\ \E cities \in {ListStoreCities(reqs[p].arg), {}} :
           Set(p, [At(reqs[p], "rows") EXCEPT !.page.cities = cities])
    /\ Reads

ListRows(p) ==
    /\ Serves(p, "list", "rows")
    /\ \E order \in ListOrders :
           Set(p, [At(reqs[p], "metrics") EXCEPT !.page.items = ListedItems(order, reqs[p].arg)])
    /\ Reads

\* populateStoreListItemMetrics: one row after the other.  A row whose query
\* fails keeps its count of zero.
ListMetrics(p) ==
    LET req == reqs[p]
    IN  /\ Serves(p, "list", "metrics")
        /\ IF req.i > Len(req.page.items) THEN Set(p, At(req, "summary"))
           ELSE \/ Set(p, [req EXCEPT !.page.items[req.i] = WithMetrics(@), !.i = @ + 1])
                \/ Set(p, [req EXCEPT !.i = @ + 1])
        /\ Reads

ListSummary(p) ==
    /\ Serves(p, "list", "summary")
    /\ Set(p, [Answered(reqs[p], "ok") EXCEPT !.page.stores = StoreListSummary(reqs[p].arg)])
    /\ Reads

\* The total, the rows and the summary are needed: without one of them the
\* request fails.
ListFails(p) ==
    /\ reqs[p].arg.op = "list" /\ reqs[p].step \in {"cities", "rows", "summary"}
    /\ Set(p, Answered(reqs[p], "error"))
    /\ Reads

---------------------------------------------------------------------------
Next ==
    \E p \in Procs :
        \/ CreateStore(p) \/ CreateStoreName(p) \/ CreateStoreCode(p)
        \/ MySQLCreateStore(p) \/ MemoryCreateStore(p) \/ ReadStore(p)
        \/ UpdateStoreBasicInfo(p) \/ UpdateStoreName(p) \/ CommitUpdateStore(p)
        \/ DeleteStore(p) \/ FindStore(p)
        \/ MySQLDeleteStore(p) \/ MemoryDeleteStore(p)
        \/ AddRecorder(p) \/ AddRecorderLimit(p) \/ AddRecorderCode(p)
        \/ FindRecorderStore(p) \/ MySQLAddRecorder(p) \/ MemoryAddRecorder(p)
        \/ DeleteRecorder(p) \/ FindRecorder(p)
        \/ MySQLDeleteRecorder(p) \/ MemoryDeleteRecorder(p)
        \/ CreateEzvizAccount(p) \/ CreateAccountName(p) \/ InsertEzvizAccount(p)
        \/ SyncEzvizAccountNames(p) \/ UpsertEzvizAccountName(p)
        \/ ListStores(p) \/ ListCities(p) \/ ListRows(p) \/ ListMetrics(p)
        \/ ListSummary(p) \/ ListFails(p)

Spec == Init /\ [][Next]_vars

---------------------------------------------------------------------------
(* Properties. *)

\* A store has more recorders than the limit only by as many as passed the
\* test together: the number of recorders is read before the insert.
LimitExceededOnlyByRace ==
    \A s \in Live(stores) :
        Cardinality(RecordersOf(s)) <= RecorderLimit + Cardinality(Procs) - 1

\* The operation log of MySQL tells which stores and recorders there are:
\* entry and row are written in one transaction, and a deletion that comes too
\* late repeats an entry that is already true.
LogTellsDirectory ==
    MySQL =>
        /\ Live(stores) = {s \in StoreIds : /\ <<"create", "store", s, s>> \in log
                                            /\ <<"delete", "store", s, s>> \notin log}
        /\ \A r \in RecorderIds, s \in StoreIds :
               <<"create", "recorder", r, s>> \in log =>
                   (r \in Live(recorders) <=> /\ <<"delete", "recorder", r, s>> \notin log
                                              /\ <<"delete", "store", s, s>> \notin log)

\* The memory store's index of device codes names a recorder that exists and
\* has the code, so a code is never refused without a reason; the converse
\* does not hold once two requests have given one code twice.
IndexNeverDangles ==
    \A c \in Codes : deviceCodes[c] # 0 =>
        /\ deviceCodes[c] \in Live(recorders)
        /\ recorders[deviceCodes[c]].code = c

\* Among the stores that match, those that must come before store s, and those
\* that may come before it, itself included.
Newer(in, s) == {t \in Found(in) : updated[t] > updated[s]}
NotOlder(in, s) == {t \in Found(in) : updated[t] >= updated[s]}

\* A list nobody wrote beside adds up: the total and the summary count the
\* stores that match; the rows are as many of them as the page has room for,
\* each of a rank that its last update allows, with its recorders, or none
\* where the query failed; the cities are those of the search, or none.
QuietListAddsUp ==
    \A p \in Procs :
        reqs[p].arg.op = "list" /\ reqs[p].answer = "ok" /\ reqs[p].calm =>
            LET in == reqs[p].arg
                page == reqs[p].page
            IN  /\ page.total = Cardinality(Found(in)) /\ page.stores = page.total
                /\ {Offset(in) + i : i \in DOMAIN page.items} =
                       ((Offset(in) + 1)..(Offset(in) + PageSize)) \cap (1..page.total)
                /\ \A i \in DOMAIN page.items :
                       LET s == page.items[i].id
                       IN  /\ s \in Found(in)
                           /\ Offset(in) + i > Cardinality(Newer(in, s))
                           /\ Offset(in) + i <= Cardinality(NotOlder(in, s))
                           /\ \/ page.items[i].recorders = Cardinality(RecordersOf(s))
                              \/ MySQL /\ page.items[i].recorders = 0
                /\ \A i, j \in DOMAIN page.items :
                       page.items[i].id = page.items[j].id => i = j
                /\ \/ \A s \in Found(in) : StoreCityOption(stores[s].city) \in page.cities
                   \/ MySQL /\ page.cities = {}

====
