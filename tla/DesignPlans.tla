---------------------------- MODULE DesignPlans ----------------------------
(***************************************************************************)
(* internal/designplan: PDF design plans are uploaded and rendered, an AI  *)
(* service reads their rooms, and a store with its rooms is kept in memory *)
(* beside the three files of its upload (original, preview, thumbnail) in  *)
(* the asset store.  A request tests its name before it inserts, and a     *)
(* deletion reads the store, drops it and then drops the files it named.   *)
(* File names, page images, room names, times and URLs are left out.       *)
(***************************************************************************)
EXTENDS Integers, FiniteSets, SequencesExt, Filtering, EditDistance

CONSTANTS
    Procs,        \* HTTP requests served at the same time
    Names,        \* store names that are sent: sequences of parts
    Dropped,      \* parts that normalisation drops
    Inputs,       \* stores that are sent: [name, areas, status]
    Outputs,      \* what the AI service may answer: [wrap, areas]
    Providers,    \* configured AI service, "unset" when its key is missing
    Ops,          \* the routes that are used
    Missing,
    MaxUploads, MaxPlanRequests   \* bounds on a behaviour

VARIABLES
    provider,
    files,     \* keys of the asset store: <<upload, kind>>
    local,     \* uploads with a directory on the server
    stores,    \* MemoryStore.stores
    logs,      \* MemoryStore.logs: [action, store]
    lastStore, lastUpload,
    known,     \* uploads that were answered with success
    reqs, begun,
    dropped    \* history: <<store, upload>> of the deletions of files

planVars == <<provider, files, local, stores, logs, lastStore, lastUpload, known,
              reqs, begun, dropped>>
table == <<stores, logs, lastStore>>
uploaded == <<files, local, lastUpload, known>>

Kinds == <<"original", "preview", "thumbnail">>
Uploads == 1..MaxUploads
StoreIds == 1..MaxPlanRequests
AreaTypes == {"treatment", "vip_treatment", "consultation", "beauty"}
Confidences == {"high", "medium", "low"}
StoreStatuses == {"completed", "needs_review", "incomplete"}
Actions == {"create", "update", "replace", "delete"}
Answers == {"none", "created", "ok", "no_content", "invalid", "not_found", "error"}
Steps == {"idle", "accept", "render", "stitch", "thumbnail", "save", "image", "call",
          "name", "commit", "drop", "files", "open", "done"}

ASSUME PlansAssumption ==
    /\ MaxUploads \in Nat \ {0} /\ MaxPlanRequests \in Nat \ {0}
    /\ Providers \subseteq {"responses", "chat_completions", "minimax", "unset"}
    /\ Ops \subseteq {"upload", "recognize", "create", "update", "delete", "image", "check"}
    /\ \A name \in Names : name \in Seq(ToSet(name))
    /\ \A in \in Inputs : in.name \in Names

Live == {s \in StoreIds : stores[s] # Missing}
FilesOf(u) == {<<u, Kinds[k]>> : k \in 1..3}

NoArg == [name |-> << >>, areas |-> << >>, status |-> "", upload |-> 0]
Idle == [op |-> "idle", step |-> "idle", arg |-> NoArg, i |-> 1, upload |-> 0,
         store |-> 0, calm |-> TRUE, answer |-> "none", areas |-> << >>,
         exact |-> 0, similar |-> {}]

---------------------------------------------------------------------------
(* Names. *)

NormalizeStoreName(name) == Without(name, Dropped)
Within(s, t) == \E i \in 0..(Len(s) - Len(t)) : SubSeq(s, i + 1, i + Len(t)) = t

IsSimilarStoreName(a, b) ==
    LET x == NormalizeStoreName(a)
        y == NormalizeStoreName(b)
    IN  IF x = << >> \/ y = << >> \/ x = y THEN x = y
        ELSE Within(x, y) \/ Within(y, x) \/ LevenshteinDistance(x, y) <= 2

ExactMatches(name, exclude) ==
    {s \in Live \ {exclude} : NormalizeStoreName(stores[s].name) = NormalizeStoreName(name)}
\* The store that the check keeps of those with the same name: the first one it meets
\* in a map, which may be any of them; 0 for none.
ExactMatch(name, exclude) ==
    IF ExactMatches(name, exclude) = {} THEN {0} ELSE ExactMatches(name, exclude)
SimilarMatches(name, exclude) ==
    {s \in Live \ ({exclude} \cup ExactMatches(name, exclude)) :
        IsSimilarStoreName(name, stores[s].name)}

---------------------------------------------------------------------------
(* Rooms. *)

ValidAreaType(a) == a.type \in AreaTypes
ValidArea(a) ==
    /\ ValidAreaType(a) /\ a.box = "inside"
    /\ a.conf \in Confidences \cup {""}
    /\ a.type \in {"treatment", "consultation"} => a.num # 0

ValidStoreInput(in) ==
    /\ in.name # << >> /\ in.areas # << >>
    /\ in.status \in StoreStatuses \cup {""}
    /\ \A i \in DOMAIN in.areas : ValidArea(in.areas[i])
    /\ \A i, j \in DOMAIN in.areas :
           /\ i # j /\ in.areas[i].num # 0
           => <<in.areas[i].type, in.areas[i].num>> # <<in.areas[j].type, in.areas[j].num>>

InferStoreStatus(areas) ==
    IF \E i \in DOMAIN areas : areas[i].conf = "low" \/ areas[i].review
    THEN "needs_review" ELSE "completed"

AreaFromInput(a) ==
    [a EXCEPT !.conf = IF @ = "" THEN "high" ELSE @,
              !.review = @ \/ a.conf = "low"]
StoreFromInput(in) ==
    [name |-> in.name, upload |-> in.upload,
     status |-> IF in.status = "" THEN InferStoreStatus(in.areas) ELSE in.status,
     areas |-> [i \in DOMAIN in.areas |-> AreaFromInput(in.areas[i])]]

\* Confidence and review do not count as a change.
Outline(areas) == [i \in DOMAIN areas |-> <<areas[i].type, areas[i].num, areas[i].box>>]
AreasChanged(left, right) == Outline(left) # Outline(right)

\* Every variable has its type.
PlansTypeOK ==
    /\ provider \in Providers
    /\ files \subseteq Uploads \X ToSet(Kinds)
    /\ local \subseteq Uploads /\ known \subseteq Uploads
    /\ dropped \subseteq StoreIds \X Uploads
    /\ \A s \in Live : /\ stores[s].upload \in 0..MaxUploads
                       /\ stores[s].status \in StoreStatuses
                       /\ \A i \in DOMAIN stores[s].areas :
                              stores[s].areas[i].conf \in Confidences
    /\ \A i \in DOMAIN logs : logs[i].action \in Actions /\ logs[i].store \in 1..lastStore
    /\ lastStore \in 0..MaxPlanRequests /\ lastUpload \in 0..MaxUploads
    /\ \A p \in Procs : reqs[p].step \in Steps /\ reqs[p].answer \in Answers
    /\ begun \in 0..MaxPlanRequests

PlansInit ==
    /\ provider \in Providers
    /\ files = {} /\ local = {} /\ known = {} /\ dropped = {}
    /\ stores = [s \in StoreIds |-> Missing]
    /\ logs = << >>
    /\ lastStore = 0 /\ lastUpload = 0
    /\ reqs = [p \in Procs |-> Idle]
    /\ begun = 0

---------------------------------------------------------------------------
(* Requests.  calm: no other request has changed the stores meanwhile.     *)

At(req, step) == [req EXCEPT !.step = step]
Answered(req, answer) == [req EXCEPT !.step = "done", !.answer = answer]
Set(p, req) == reqs' = [reqs EXCEPT ![p] = req]
SetWriting(p, req) ==
    reqs' = [q \in Procs |-> IF q = p THEN req ELSE [reqs[q] EXCEPT !.calm = FALSE]]

Free(p, op) == op \in Ops /\ reqs[p].step \in {"idle", "done"}
Begin(p, req) ==
    /\ begun < MaxPlanRequests /\ begun' = begun + 1
    /\ Free(p, req.op)
    /\ Set(p, req)
    /\ UNCHANGED <<provider, table, uploaded, dropped>>
Serves(p, op, step) == reqs[p].op = op /\ reqs[p].step = step
Reads == UNCHANGED <<provider, table, uploaded, begun, dropped>>

---------------------------------------------------------------------------
(* Uploads. *)

\* The form is refused, or its file is handed on.
UploadPDF(p) ==
    /\ Free(p, "upload") /\ lastUpload < MaxUploads
    /\ LET req == [Idle EXCEPT !.op = "upload"]
       IN  Set(p, Answered(req, "invalid")) \/ Set(p, At(req, "accept"))
    /\ UNCHANGED <<provider, table, uploaded, begun, dropped>>

\* A file that is too large or no PDF is refused; another gets an id and a
\* directory of its own, or making them fails.
AcceptPDF(p) ==
    /\ Serves(p, "upload", "accept") /\ lastUpload < MaxUploads
    /\ \/ /\ Set(p, Answered(reqs[p], "invalid"))
          /\ UNCHANGED <<local, lastUpload>>
       \/ /\ lastUpload' = lastUpload + 1
          /\ local' = local \cup {lastUpload'}
          /\ \/ Set(p, Answered(reqs[p], "error"))
             \/ Set(p, [At(reqs[p], "render") EXCEPT !.upload = lastUpload'])
    /\ UNCHANGED <<provider, table, files, known, begun, dropped>>

\* pdftoppm fails or gives no page, gives more than five, or up to five.  What
\* was written to the directory stays, here and in the next two steps.
RenderPDF(p) ==
    /\ Serves(p, "upload", "render")
    /\ \/ Set(p, Answered(reqs[p], "error"))
       \/ Set(p, Answered(reqs[p], "invalid"))
       \/ Set(p, At(reqs[p], "stitch"))
    /\ Reads
StitchPNGs(p) ==
    /\ Serves(p, "upload", "stitch")
    /\ Set(p, Answered(reqs[p], "error")) \/ Set(p, At(reqs[p], "thumbnail"))
    /\ Reads
CreateThumbnail(p) ==
    /\ Serves(p, "upload", "thumbnail")
    /\ Set(p, Answered(reqs[p], "error")) \/ Set(p, At(reqs[p], "save"))
    /\ Reads

\* The files go to the asset store one after the other; the first failure
\* ends the request and leaves those before it.
SaveFile(p) ==
    LET req == reqs[p]
    IN  /\ Serves(p, "upload", "save")
        /\ \/ /\ Set(p, Answered(req, "error"))
              /\ UNCHANGED <<files, known>>
           \/ /\ files' = files \cup {<<req.upload, Kinds[req.i]>>}
              /\ IF req.i = 3
                 THEN known' = known \cup {req.upload} /\ Set(p, Answered(req, "created"))
                 ELSE Set(p, [req EXCEPT !.i = @ + 1]) /\ UNCHANGED known
        /\ UNCHANGED <<provider, table, local, lastUpload, begun, dropped>>

---------------------------------------------------------------------------
(* Recognition. *)

\* Only the preview is looked for.
FindUpload(u) == <<u, "preview">> \in files

RecognizeUpload(p) ==
    \E u \in Uploads :
        LET req == [Idle EXCEPT !.op = "recognize", !.upload = u]
        IN  Begin(p, IF FindUpload(u) THEN At(req, "image") ELSE Answered(req, "not_found"))

\* Without its key a service is not asked.  The picture is opened again to be
\* sent, and a deletion may have come first.
ReadImageBytes(p) ==
    LET req == reqs[p]
    IN  /\ Serves(p, "recognize", "image")
        /\ Set(p, IF provider = "unset" THEN Answered(req, "invalid")
                  ELSE IF FindUpload(req.upload) THEN At(req, "call")
                  ELSE Answered(req, "not_found"))
        /\ Reads

\* Text around the answer: none, a code fence, or words before it.
ExtractRecognitionJSONText(out) == out.wrap \in {"plain", "fenced"}
FirstRecognitionJSONObject(out) == out.wrap = "words"
ExtractRecognitionJSONTextFromModel(out) ==
    ExtractRecognitionJSONText(out) \/ FirstRecognitionJSONObject(out)

ToRecognitionResult(out) ==
    [i \in DOMAIN out.areas |->
        LET conf == IF out.areas[i].conf = "" THEN "medium" ELSE out.areas[i].conf
        IN  [out.areas[i] EXCEPT !.conf = conf, !.review = @ \/ conf = "low"]]

\* The call fails, or an answer comes that the reader of the service reads.
Called(p, service, Readable(_)) ==
    /\ Serves(p, "recognize", "call") /\ provider = service
    /\ \/ Set(p, Answered(reqs[p], "error"))
       \/ \E out \in Outputs :
             Set(p, IF Readable(out)
                    THEN [Answered(reqs[p], "ok") EXCEPT !.areas = ToRecognitionResult(out)]
                    ELSE Answered(reqs[p], "error"))
    /\ Reads
CallResponsesAPI(p) == Called(p, "responses", ExtractRecognitionJSONText)
CallChatCompletionsAPI(p) == Called(p, "chat_completions", ExtractRecognitionJSONText)
CallMiniMax(p) == Called(p, "minimax", ExtractRecognitionJSONTextFromModel)

---------------------------------------------------------------------------
(* Stores. *)

\* What a client sends: rooms of its own or those it was just given, with the
\* files of an upload it was answered, or with none.
Sent(p) ==
    LET given == reqs[p].areas
    IN  {[name |-> in.name, areas |-> a, status |-> in.status, upload |-> u] :
            in \in Inputs, u \in known \cup {0},
            a \in {given} \ {<< >>}}
        \cup {[name |-> in.name, areas |-> in.areas, status |-> in.status, upload |-> u] :
            in \in Inputs, u \in known \cup {0}}

Checked(in, req) == IF ValidStoreInput(in) THEN At(req, "name") ELSE Answered(req, "invalid")

CreateStore(p) ==
    \E in \in Sent(p) :
        Begin(p, Checked(in, [Idle EXCEPT !.op = "create", !.arg = in]))
UpdateStore(p) ==
    \E in \in Sent(p), s \in StoreIds :
        Begin(p, Checked(in, [Idle EXCEPT !.op = "update", !.arg = in, !.store = s]))

\* The list of matches is read under the store's mutex, which is let go.
EnsureNoExactDuplicate(p) ==
    LET req == reqs[p]
    IN  /\ req.op \in {"create", "update"} /\ req.step = "name"
        /\ Set(p, IF ExactMatches(req.arg.name, req.store) = {} THEN At(req, "commit")
                  ELSE Answered(req, "invalid"))
        /\ Reads

AppendLog(actions, s) ==
    logs' = logs \o [i \in DOMAIN actions |-> [action |-> actions[i], store |-> s]]

CommitCreate(p) ==
    LET req == reqs[p]
        store == StoreFromInput(req.arg)
    IN  /\ Serves(p, "create", "commit")
        /\ lastStore' = lastStore + 1
        /\ stores' = [stores EXCEPT ![lastStore'] = store]
        /\ AppendLog(<<"create">>, lastStore')
        /\ SetWriting(p, Answered(req, "created"))
        /\ UNCHANGED <<provider, uploaded, begun, dropped>>

\* The files of the upload that is replaced stay.
CommitUpdate(p) ==
    LET req == reqs[p]
        store == StoreFromInput(req.arg)
    IN  /\ Serves(p, "update", "commit")
        /\ IF req.store \in Live
           THEN /\ stores' = [stores EXCEPT ![req.store] = store]
                /\ AppendLog(IF AreasChanged(stores[req.store].areas, store.areas)
                             THEN <<"update", "replace">> ELSE <<"update">>, req.store)
                /\ SetWriting(p, Answered(req, "ok"))
           ELSE Set(p, Answered(req, "not_found")) /\ UNCHANGED <<stores, logs>>
        /\ UNCHANGED <<provider, lastStore, uploaded, begun, dropped>>

\* The store is read, and with it the files it has at this moment.
DeleteStore(p) ==
    \E s \in StoreIds :
        LET req == [Idle EXCEPT !.op = "delete", !.store = s]
        IN  Begin(p, IF s \in Live
                     THEN [req EXCEPT !.step = "drop", !.upload = stores[s].upload]
                     ELSE Answered(req, "not_found"))

DropStore_FilesFirst(p) ==
    LET req == reqs[p]
    IN  /\ Serves(p, "delete", "drop")
        /\ files' = files \ FilesOf(req.upload)
        /\ dropped' = dropped \cup ({req.store} \X ({req.upload} \ {0}))
        /\ Set(p, At(req, "files"))
        /\ UNCHANGED <<provider, table, local, lastUpload, known, begun>>

DropStore(p) ==
    LET req == reqs[p]
    IN  /\ Serves(p, "delete", "drop")
        /\ IF req.store \in Live
           THEN /\ stores' = [stores EXCEPT ![req.store] = Missing]
                /\ AppendLog(<<"delete">>, req.store)
                /\ SetWriting(p, At(req, "files"))
           ELSE Set(p, Answered(req, "not_found")) /\ UNCHANGED <<stores, logs>>
        /\ UNCHANGED <<provider, lastStore, uploaded, begun, dropped>>

\* A failure is only logged; it leaves any of the files, and the directory.
DeleteStoredFiles(p) ==
    LET req == reqs[p]
        u == req.upload
    IN  /\ Serves(p, "delete", "files")
        /\ IF u = 0 THEN UNCHANGED <<files, local, dropped>>
           ELSE /\ dropped' = dropped \cup {<<req.store, u>>}
                /\ \/ files' = files \ FilesOf(u) /\ local' \in {local, local \ {u}}
                   \/ \E gone \in SUBSET FilesOf(u) : files' = files \ gone /\ UNCHANGED local
        /\ Set(p, Answered(req, "no_content"))
        /\ UNCHANGED <<provider, table, lastUpload, known, begun>>

\* The store is read and then its picture is opened.
ServeStoreImage(p) ==
    \E s \in StoreIds :
        LET req == [Idle EXCEPT !.op = "image", !.store = s]
        IN  Begin(p, IF s \in Live THEN [req EXCEPT !.step = "open", !.upload = stores[s].upload]
                     ELSE Answered(req, "not_found"))
OpenStored(p) ==
    /\ Serves(p, "image", "open")
    /\ \E kind \in {"preview", "thumbnail"} :
          \/ Set(p, Answered(reqs[p], IF <<reqs[p].upload, kind>> \in files
                                      THEN "ok" ELSE "not_found"))
          \/ Set(p, Answered(reqs[p], "error"))
    /\ Reads

CheckDuplicate(p) ==
    /\ Free(p, "check") /\ begun < MaxPlanRequests
    /\ \E name \in Names, exclude \in {0} \cup StoreIds :
        LET req == [Idle EXCEPT !.op = "check", !.arg.name = name, !.store = exclude]
        IN  IF name = << >> THEN Begin(p, Answered(req, "invalid"))
            ELSE \E exact \in ExactMatch(name, exclude) :
                    Begin(p, [Answered(req, "ok") EXCEPT
                                 !.exact = exact, !.similar = SimilarMatches(name, exclude)])

---------------------------------------------------------------------------
Step(p) ==
    \/ UploadPDF(p) \/ AcceptPDF(p) \/ RenderPDF(p) \/ StitchPNGs(p)
    \/ CreateThumbnail(p) \/ SaveFile(p)
    \/ RecognizeUpload(p) \/ ReadImageBytes(p)
    \/ CallResponsesAPI(p) \/ CallChatCompletionsAPI(p) \/ CallMiniMax(p)
    \/ CreateStore(p) \/ UpdateStore(p) \/ EnsureNoExactDuplicate(p)
    \/ CommitCreate(p) \/ CommitUpdate(p)
    \/ DeleteStore(p) \/ DropStore(p) \/ DeleteStoredFiles(p)
    \/ ServeStoreImage(p) \/ OpenStored(p) \/ CheckDuplicate(p)
PlansNext == \E p \in Procs : Step(p)
PlansSpec == PlansInit /\ [][PlansNext]_planVars

---------------------------------------------------------------------------
(* Properties. *)

\* A store whose upload was answered with success has its three files, unless
\* the deletion of another store that named the same upload took them
\* (DeleteStoredFiles after DeleteStore): its own deletion touches no file
\* while the store is there, and no failed save was answered with success.
StoreKeepsFiles ==
    \A s \in Live :
        LET u == stores[s].upload
        IN  u # 0 => \/ FilesOf(u) \subseteq files
                     \/ \E t \in StoreIds \ {s} : <<t, u>> \in dropped

Alphabet == (UNION {ToSet(name) : name \in Names}) \ Dropped
OneEdit(s) ==
    {RemoveAt(s, i) : i \in DOMAIN s}
    \cup {ReplaceAt(s, i, c) : i \in DOMAIN s, c \in Alphabet}
    \cup {InsertAt(s, i, c) : i \in 1..(Len(s) + 1), c \in Alphabet}
Cuts(s) == {SubSeq(s, i, j) : i \in DOMAIN s, j \in DOMAIN s}
\* Two names are alike when one is in the other or two edits lead to it.
Alike ==
    {pair \in Names \X Names :
        LET x == NormalizeStoreName(pair[1])
            y == NormalizeStoreName(pair[2])
            near == OneEdit(x)
        IN  /\ x # y /\ x # << >> /\ y # << >>
            /\ \/ x \in Cuts(y) \/ y \in Cuts(x)
               \/ y \in near \/ \E z \in near : y \in OneEdit(z)}

\* As long as no store changes, the answer of the duplicate check names a store of
\* the same name if there is one, one only of several, and all stores whose names
\* are alike, by the definition of the edit distance (CheckDuplicate,
\* IsSimilarStoreName, levenshteinDistance).
DuplicateReportRight ==
    \A p \in Procs :
        LET req == reqs[p]
            name == req.arg.name
            same == {s \in Live \ {req.store} :
                       NormalizeStoreName(stores[s].name) = NormalizeStoreName(name)}
        IN  req.op = "check" /\ req.answer = "ok" /\ req.calm =>
                /\ req.exact \in same \/ (same = {} /\ req.exact = 0)
                /\ req.similar = {s \in Live \ {req.store} : <<name, stores[s].name>> \in Alike}
====
