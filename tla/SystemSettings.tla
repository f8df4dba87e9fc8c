--------------------------- MODULE SystemSettings ---------------------------
(***************************************************************************)
(* internal/app: the settings an administrator changes (watermark of        *)
(* screenshots, AI provider), the audit log, and the requests that may only *)
(* be answered once their audit is recorded.  A change of the watermark is  *)
(* four calls: read, write, audit, and a write back when the audit failed.  *)
(* Names, addresses, summaries and the text of an event are left out.       *)
(***************************************************************************)
EXTENDS Integers, FiniteSets, SequencesExt, Filtering

CONSTANTS
    Procs,         \* HTTP requests served at the same time
    Users,         \* ids of the users, positive
    Roles,         \* "admin", "editor", "viewer"; administrators change a user's
    Deployments,   \* what a server starts with: [backend, gate, row, ai]
    Filters,       \* queries of the log: [start, end, user, action, page, size]
    Ops,           \* the routes that are used
    DefaultPageSize, MaxPageSize, RangeLimit,
    MaxInt,        \* largest int; the smallest is -MaxInt - 1
    MaxRequests, MaxDays   \* bounds on a behaviour

VARIABLES
    backend, gate,  \* deployment: the store, and whether a login is required
    mark, ai,       \* the texts in tb_app_settings, "" when there is no row
    auditLog,       \* tb_audit_logs; the id of an event is its place
    day, reqs, started,
    first,          \* history: what the watermark setting said at the start
    gaps,           \* history: the lengths the log had when a failure or a crash
                    \*          left it and the setting apart
    disturbed       \* history: two changes of the watermark met

settingsVars == <<backend, gate, mark, ai, auditLog, day, reqs, started, first,
                  gaps, disturbed>>
deployment == <<backend, gate, first>>

Answers == {"none", "ok", "invalid", "forbidden", "error",
            "unavailable", "refused", "cancelled", "stuck"}
Results == {"success", "denied", "failed"}
RequestSteps == {"idle", "permitted", "set", "audit", "rollback", "rows", "done"}

ASSUME SettingsAssumption ==
    /\ IsFiniteSet(Procs) /\ Users \subseteq Nat \ {0}
    /\ Roles \subseteq {"admin", "editor", "viewer"}
    /\ \A d \in Deployments :
           /\ d.backend \in {"mysql", "memory"} /\ d.gate \in BOOLEAN
           /\ d.backend = "memory" => d.row = "" /\ d.ai = ""
    /\ MaxInt \in Nat /\ MaxRequests \in Nat /\ MaxDays \in Nat \ {0}
    /\ DefaultPageSize \in 1..MaxPageSize /\ MaxPageSize \in 1..MaxInt
    /\ MaxRequests <= MaxInt   \* the log is not longer than an int can count
    /\ \A f \in Filters : f.page \in 0..MaxInt /\ f.size \in 0..MaxInt

NoFilter == [start |-> 0, end |-> 0, user |-> 0, action |-> "", page |-> 0, size |-> 0]
Idle == [op |-> "idle", step |-> "idle", user |-> 0, on |-> FALSE, prev |-> FALSE,
         filter |-> NoFilter, next |-> "", total |-> 0, items |-> << >>,
         calm |-> TRUE, answer |-> "none"]

---------------------------------------------------------------------------
(* Settings. *)

\* No row and an unknown text mean that screenshots are marked.
NormalizeWatermark(value) == value \notin {"false", "0", "off", "no"}

WatermarkEnabled == NormalizeWatermark(mark)

NormalizeAIProvider(value) ==
    IF value \in {"", "openai", "responses", "openai-responses"} THEN "openai"
    ELSE IF value \in {"minimax", "MiniMax"} THEN "minimax" ELSE ""

NextAIProvider(current) ==
    IF NormalizeAIProvider(current) = "minimax" THEN "openai" ELSE "minimax"

Permissions(role) ==
    CASE role = "admin" -> {"store_read", "store_write", "store_export",
                            "user_manage", "audit_view"}
      [] role = "editor" -> {"store_read", "store_write"}
      [] OTHER -> {"store_read"}
Permission ==
    [watermark |-> "user_manage", toggle |-> "user_manage",
     screenshot |-> "store_read", view |-> "store_read", export |-> "store_export",
     logs |-> "audit_view"]

Requests ==
    {[Idle EXCEPT !.op = op] : op \in DOMAIN Permission \ {"logs"}}
    \cup {[Idle EXCEPT !.op = "watermark", !.on = TRUE]}
    \cup {[Idle EXCEPT !.op = "logs", !.filter = f] : f \in Filters}

\* Every variable has its type.
SettingsTypeOK ==
    /\ \E d \in Deployments : backend = d.backend /\ gate = d.gate
    /\ mark \in {d.row : d \in Deployments} \cup {"true", "false"}
    /\ ai \in {d.ai : d \in Deployments} \cup {"openai", "minimax"}
    /\ \A i \in DOMAIN auditLog : /\ auditLog[i].result \in Results
                                  /\ auditLog[i].user \in Users \cup {0}
                                  /\ auditLog[i].day \in 1..day
    /\ day \in 1..MaxDays /\ started \in 0..MaxRequests
    /\ \A p \in Procs : reqs[p].step \in RequestSteps /\ reqs[p].answer \in Answers
    /\ gaps \subseteq 0..Len(auditLog) /\ disturbed \in BOOLEAN

SettingsInit ==
    /\ \E d \in Deployments : backend = d.backend /\ gate = d.gate /\ mark = d.row /\ ai = d.ai
    /\ auditLog = << >> /\ day = 1
    /\ reqs = [p \in Procs |-> Idle] /\ started = 0
    /\ first = WatermarkEnabled
    /\ gaps = {} /\ disturbed = FALSE

---------------------------------------------------------------------------
(* Requests.  calm: no event has been recorded by another request since.   *)

At(req, step) == [req EXCEPT !.step = step]
\* What was asked is kept with the pages of the log.
Answered(req, answer) ==
    IF answer = "ok" /\ req.op = "logs"
    THEN [req EXCEPT !.step = "done", !.answer = answer, !.user = 0, !.prev = FALSE]
    ELSE [Idle EXCEPT !.step = "done", !.answer = answer]
Set(p, req) == reqs' = [reqs EXCEPT ![p] = req]
Serves(p, op, step) == reqs[p].op = op /\ reqs[p].step = step
Others(p, op) == \E q \in Procs \ {p} : reqs[q].op = op /\ reqs[q].step \notin {"idle", "done"}
Reads == UNCHANGED <<deployment, mark, ai, auditLog, day, started, gaps, disturbed>>

\* A statement is a transaction of its own: when the database ends it with an
\* error, or its answer is lost, it may have been done all the same.
CanFail == backend = "mysql"

Event(req, action, result, user) ==
    [action |-> action, result |-> result, user |-> user,
     prev |-> req.prev, on |-> req.on, day |-> day]
Disturbed(rs) == [q \in Procs |-> [rs[q] EXCEPT !.calm = FALSE]]
Record(p, req, event) ==
    /\ auditLog' = Append(auditLog, event)
    /\ reqs' = [Disturbed(reqs) EXCEPT ![p] = req]

Counts == started < MaxRequests /\ started' = started + 1
NewRequest(p, req) ==
    /\ req.op \in Ops /\ reqs[p].step \in {"idle", "done"}
    /\ Counts

\* The gate identifies the user and keeps the identity for the request;
\* without it one who has no cookie is the administrator of an installation
\* for development.
RequirePermission(p) ==
    \E ask \in Requests, u \in Users \cup {0}, role \in Roles :
        LET req == [ask EXCEPT !.user = u]
        IN  /\ gate => u # 0
            /\ u = 0 => role = "admin"
            /\ NewRequest(p, req)
            /\ Set(p, IF Permission[req.op] \in Permissions(role) THEN At(req, "permitted")
                      ELSE Answered(req, "forbidden"))
            /\ UNCHANGED <<deployment, mark, ai, auditLog, day, gaps, disturbed>>

---------------------------------------------------------------------------
(* The audit of an answer. *)

\* The identity is read again, from the request when there is a gate and from
\* its cookie when there is none, and the event is inserted; either may fail,
\* and a cancelled request fails on both stores.
RecordMonitorAudit(p) ==
    LET req == reqs[p]
        event == Event(req, req.op, "success", req.user)
        failed == IF req.op = "watermark" THEN At(req, "rollback") ELSE Answered(req, "unavailable")
    IN  /\ req.step = "audit"
        /\ \/ Set(p, failed) /\ UNCHANGED <<auditLog, gaps>>
           \/ Record(p, Answered(req, "ok"), event) /\ UNCHANGED gaps
           \/ /\ CanFail /\ Record(p, failed, event)
              /\ gaps' = IF req.op = "watermark" THEN gaps \cup {Len(auditLog')} ELSE gaps
        /\ UNCHANGED <<deployment, mark, ai, day, started, disturbed>>

\* Viewing a channel's snapshot: the store is read and the channel looked up.
RecordChannelSnapshotView(p) ==
    /\ Serves(p, "view", "permitted")
    /\ Set(p, At(reqs[p], "audit")) \/ Set(p, Answered(reqs[p], "refused"))
    /\ Reads

\* An export with an id that is no number goes on without an audit and is
\* refused by the export itself.
StoreExportGuard(p) ==
    /\ Serves(p, "export", "permitted")
    /\ Set(p, At(reqs[p], "audit")) \/ Set(p, Answered(reqs[p], "refused"))
    /\ Reads

\* The parameters, the right to see the store and its cameras come first; then
\* the setting is read.  on: the screenshot is marked.
NvrScreenshotMetadata(p) ==
    LET req == reqs[p]
    IN  /\ Serves(p, "screenshot", "permitted")
        /\ \/ Set(p, Answered(req, "refused"))
           \/ CanFail /\ Set(p, Answered(req, "error"))
           \/ Set(p, [At(req, "audit") EXCEPT !.on = WatermarkEnabled])
        /\ Reads

---------------------------------------------------------------------------
(* Watermark. *)

UpdateWatermark(p) ==
    LET req == reqs[p]
    IN  /\ Serves(p, "watermark", "permitted")
        /\ \/ Set(p, Answered(req, "invalid"))
           \/ CanFail /\ Set(p, Answered(req, "error"))
           \/ Set(p, [At(req, "set") EXCEPT !.prev = WatermarkEnabled])
        /\ Reads

Stored(on) == IF on THEN "true" ELSE "false"

Changing(p) == reqs[p].op = "watermark" /\ reqs[p].step \in {"audit", "rollback"}

\* The setting and the log are apart from here on.
Gap == gaps' = gaps \cup {Len(auditLog)}
Meets(p) == disturbed' = (disturbed \/ Others(p, "watermark"))

SetMonitorScreenshotWatermarkEnabled(p) ==
    LET req == reqs[p]
    IN  /\ Serves(p, "watermark", "set")
        /\ \/ CanFail /\ Set(p, Answered(req, "error")) /\ UNCHANGED <<mark, gaps, disturbed>>
           \/ /\ mark' = Stored(req.on) /\ Meets(p)
              /\ \/ Set(p, At(req, "audit")) /\ UNCHANGED gaps
                 \/ CanFail /\ Set(p, Answered(req, "error")) /\ Gap
        /\ UNCHANGED <<deployment, ai, auditLog, day, started>>

RollBackWatermark_Skipped(p) ==
    /\ Serves(p, "watermark", "rollback")
    /\ Set(p, Answered(reqs[p], "cancelled"))
    /\ Reads

\* The value that was read is written back, whatever the setting is by now.
RollBackWatermark(p) ==
    LET req == reqs[p]
    IN  /\ Serves(p, "watermark", "rollback")
        /\ Meets(p)
        /\ \/ CanFail /\ Set(p, Answered(req, "stuck")) /\ Gap /\ UNCHANGED mark
           \/ /\ mark' = Stored(req.prev) /\ UNCHANGED gaps
              /\ \/ Set(p, Answered(req, "cancelled"))
                 \/ CanFail /\ Set(p, Answered(req, "stuck"))
        /\ UNCHANGED <<deployment, ai, auditLog, day, started>>

---------------------------------------------------------------------------
(* AI provider. *)

ToggleAISettings(p) ==
    LET req == reqs[p]
    IN  /\ Serves(p, "toggle", "permitted")
        /\ \/ CanFail /\ Set(p, Answered(req, "error"))
           \/ Set(p, [At(req, "set") EXCEPT !.next = NextAIProvider(ai)])
        /\ Reads
SetAIProvider(p) ==
    LET req == reqs[p]
    IN  /\ Serves(p, "toggle", "set")
        /\ \/ CanFail /\ Set(p, Answered(req, "error")) /\ UNCHANGED ai
           \/ /\ ai' = NormalizeAIProvider(req.next)
              /\ Set(p, Answered(req, "ok")) \/ (CanFail /\ Set(p, Answered(req, "error")))
        /\ UNCHANGED <<deployment, mark, auditLog, day, started, gaps, disturbed>>

---------------------------------------------------------------------------
(* Logins.  The event is written on a best-effort basis. *)

\* The cookie names nobody, is not valid, names a user who is enabled, who is
\* not (or is unknown), or the user cannot be read.
Lookups == {"no_cookie", "invalid", "enabled", "refused", "unreadable"}
LoginResult(lookup) ==
    CASE lookup = "enabled" -> "success"
      [] lookup \in {"no_cookie", "refused"} -> "denied"
      [] OTHER -> "failed"

\* The whole request: its answer does not depend on the insertion.
AuthEvent(op, user, result) ==
    /\ op \in Ops /\ Counts
    /\ \/ /\ auditLog' = Append(auditLog, Event(Idle, op, result, user))
          /\ reqs' = Disturbed(reqs)
       \/ UNCHANGED <<auditLog, reqs>>
    /\ UNCHANGED <<deployment, mark, ai, day, gaps, disturbed>>

RecordAuthLogin ==
    \E u \in Users, lookup \in Lookups :
        AuthEvent("login", IF lookup = "enabled" THEN u ELSE 0, LoginResult(lookup))

\* A user who is disabled is named, one who is unknown has no id.
RecordAuthLogout ==
    \E u \in Users, lookup \in Lookups, known \in BOOLEAN :
        AuthEvent("logout", IF lookup = "enabled" \/ (lookup = "refused" /\ known) THEN u ELSE 0,
                  LoginResult(lookup))

RecordAuthSessionTimeout == \E u \in Users : AuthEvent("timeout", u, "success")

\* Written by the snapshot service; the log's page never shows it.
RecordPrepare == \E u \in Users : AuthEvent("prepare", u, "success")

---------------------------------------------------------------------------
(* The page of the log. *)

ValidFilter(f) == f.start <= f.end /\ f.end <= f.start + RangeLimit

PageSizeOf(f) ==
    IF f.size = 0 THEN DefaultPageSize ELSE IF f.size > MaxPageSize THEN MaxPageSize ELSE f.size
PageOf(f) == IF f.page < 1 THEN 1 ELSE f.page
Wrap(n) == ((n + MaxInt + 1) % (2 * (MaxInt + 1))) - (MaxInt + 1)

Offset_Wraps(f) == Wrap((PageOf(f) - 1) * PageSizeOf(f))
Offset(f) ==
    IF PageOf(f) - 1 > MaxInt \div PageSizeOf(f) THEN MaxInt
    ELSE Wrap((PageOf(f) - 1) * PageSizeOf(f))

\* endDate is the beginning of the day after.
AuditLogWhere(f, e) ==
    /\ f.start <= e.day /\ e.day < f.end + 1
    /\ e.action # "prepare"
    /\ f.user # 0 => e.user = f.user
    /\ f.action # "" => e.action = f.action

\* The newest first.
Matching(f) ==
    Reverse(Without([i \in DOMAIN auditLog |-> i],
                    {i \in DOMAIN auditLog : ~AuditLogWhere(f, auditLog[i])}))
PageRows(f) ==
    LET rows == Matching(f)
        last == Offset(f) + PageSizeOf(f)
    IN  IF Offset(f) >= Len(rows) THEN << >>
        ELSE SubSeq(rows, Offset(f) + 1, IF last > Len(rows) THEN Len(rows) ELSE last)

AuditLogs(p) ==
    /\ Serves(p, "logs", "permitted") /\ ~ValidFilter(reqs[p].filter)
    /\ Set(p, Answered(reqs[p], "invalid"))
    /\ Reads

Counted(req) == [req EXCEPT !.total = Len(Matching(req.filter)), !.calm = TRUE]

\* Two queries of the database, one critical section in memory.
CountAuditLogs(p) ==
    /\ Serves(p, "logs", "permitted") /\ ValidFilter(reqs[p].filter) /\ backend = "mysql"
    /\ Set(p, At(Counted(reqs[p]), "rows")) \/ Set(p, Answered(reqs[p], "error"))
    /\ Reads
ListAuditLogs(p) ==
    /\ Serves(p, "logs", "rows")
    /\ \/ Set(p, [Answered(reqs[p], "ok") EXCEPT !.items = PageRows(reqs[p].filter)])
       \/ Set(p, Answered(reqs[p], "error"))
    /\ Reads
MemoryListAuditLogs(p) ==
    /\ Serves(p, "logs", "permitted") /\ ValidFilter(reqs[p].filter) /\ backend = "memory"
    /\ Set(p, [Answered(Counted(reqs[p]), "ok") EXCEPT !.items = PageRows(reqs[p].filter)])
    /\ Reads

---------------------------------------------------------------------------
NextDay ==
    /\ day < MaxDays /\ day' = day + 1
    /\ UNCHANGED <<deployment, mark, ai, auditLog, reqs, started, gaps, disturbed>>

\* The process ends and is started again: its requests are gone, the database
\* is as it was.
Restart ==
    /\ backend = "mysql"
    /\ \E p \in Procs : reqs[p].step \notin {"idle", "done"}
    /\ reqs' = [p \in Procs |-> Idle]
    /\ IF \E p \in Procs : Changing(p) THEN Gap ELSE UNCHANGED gaps
    /\ UNCHANGED <<deployment, mark, ai, auditLog, day, started, disturbed>>

RequestStep(p) ==
    \/ RequirePermission(p) \/ RecordMonitorAudit(p)
    \/ RecordChannelSnapshotView(p) \/ StoreExportGuard(p)
    \/ NvrScreenshotMetadata(p)
    \/ UpdateWatermark(p) \/ SetMonitorScreenshotWatermarkEnabled(p) \/ RollBackWatermark(p)
    \/ ToggleAISettings(p) \/ SetAIProvider(p)
    \/ AuditLogs(p) \/ CountAuditLogs(p) \/ ListAuditLogs(p) \/ MemoryListAuditLogs(p)

SettingsNext ==
    \/ \E p \in Procs : RequestStep(p)
    \/ RecordAuthLogin \/ RecordAuthLogout \/ RecordAuthSessionTimeout \/ RecordPrepare
    \/ NextDay \/ Restart
SettingsSpec == SettingsInit /\ [][SettingsNext]_settingsVars

---------------------------------------------------------------------------
(* Properties. *)

\* The changes that were recorded before the i-th event, and what the last of
\* them says of the setting; nothing, when a failure came after it.
Before(i) == {j \in 1..(i - 1) : auditLog[j].action = "watermark"}
Told(i, on) ==
    \/ Before(i) = {} /\ on = first
    \/ \E j \in Before(i) : on = auditLog[j].on /\ \A k \in Before(i) : k <= j
    \/ \E g \in gaps : g < i /\ \A k \in Before(i) : k <= g

\* Until two changes overlap the log retells the setting: each change starts
\* from what the one before left, and what the last left is what is stored
\* (the audit after the write and the write back when it fails).  A crash in
\* the middle of a change, a write back that fails and a write or an audit that
\* is done although it answers with an error leave a gap, which the next change
\* that is recorded closes.
LogTellsSetting ==
    ~disturbed =>
        /\ \A i \in DOMAIN auditLog :
               auditLog[i].action = "watermark" => Told(i, auditLog[i].prev)
        /\ (\A p \in Procs : ~Changing(p)) => Told(Len(auditLog) + 1, WatermarkEnabled)

\* A page of the log that no event came between holds the events of its place
\* in the order of time, the newest first, for any page number, and counts
\* those that are shown (normalizeAuditLogFilter's bounded offset, the two
\* queries of ListAuditLogs).
PageOfLogRight ==
    \A p \in Procs :
        LET req == reqs[p]
            f == req.filter
            shown == {i \in DOMAIN auditLog : AuditLogWhere(f, auditLog[i])}
            Newer(i) == Cardinality({j \in shown : j > i})
            from == (PageOf(f) - 1) * PageSizeOf(f)
        IN  req.op = "logs" /\ req.answer = "ok" /\ req.calm =>
                /\ req.total = Cardinality(shown)
                /\ ToSet(req.items) = {i \in shown : Newer(i) \in from..(from + PageSizeOf(f) - 1)}
                /\ \A i, j \in DOMAIN req.items : i < j => req.items[i] > req.items[j]
====
