# TLA+ models of the store-space resource system

The repository is a Go back end (`cmd/server`, `internal/*`) with a React front
end. It manages clinics ("stores") as spaces: design plans, areas, video
recorders, their channels, AI recognition of channel pictures, and monitor
viewing. It runs as several pods in front of one MySQL server and one object
store, behind a company gateway (APISIX) that signs people in. Almost no state
lives in a process: what makes the system hard is that every decision is taken
from a row read in one statement and written by another, while other tabs, other
pods, the clock, the camera cloud and the AI service move on in between.

This directory holds TLA+ modules of the parts that carry such decisions, TLC
configurations that check them on small instances, and TLAPS proofs of the
results that matter most. `PROJECT.json` lists the runs, the correspondence of
every definition to source lines, the hazards and the theorems.

To repeat a run: `tlc -config <run>.cfg <module>` (the module is named in
`PROJECT.json`); to repeat a proof: `tlapm <Module>Proofs.tla`
(the longest takes some minutes; a busy machine makes single leaves time out).

## 1. Inventory

| Component | State it keeps | Operations | What must hold |
|---|---|---|---|
| Login sessions (`internal/app/auth*.go`, `authz.go`) | `tb_auth_sessions`, the enabled flag of `tb_users`, three cookies per browser | SSO check, create from a JWT, touch, status poll, revoke, logout | one session per JWT; the dead stay dead; idle means idle; every request ends |
| User administration (`users_handler.go`, `auth_users.go`, `mysql_monitor_scopes.go`) | accounts, roles, monitor scopes, audit events | list, create, update, monitor authorisation | no lost update; an audit log that explains the tables; the list and the authorisation agree |
| Digital-twin whitelist (`digital_twin*.go`) | one row of `tb_app_settings`, missing at first | load, save under a version | no unseen overwrite, also of the missing row; true answers; no deadlock |
| Store space (`internal/storespace`) | recorders, channels, areas, annotations, recognition results | scan, probe, recognise, refresh, confirm, non-business, unlock, delete, save a design plan | exact counts; an operator's confirmation holds; live references; requests change only the row they were begun on; all views count the same channels |
| Store directory and recorders (same package) | stores, recorders, Ezviz accounts, the memory store's index of device codes, the operation log | create, change, delete, add a recorder, list with search and pages | limits exceeded by races only; a log that tells what there is; lists that add up |
| H5 monitor (`internal/h5monitor`), Ezviz client (`internal/ezviz`) | stream slots per user, an access token, in memory | start, disable, query records, refresh the token | slots count open streams; one refresh is enough |
| NVR snapshot backfill (`internal/nvrsnapshot`) | progress of a batch, a decoder process with its pipes and goroutines | list, capture, decode, skip, open the circuit | the circuit opens on time; nothing is decoded that has holes; every capture ends and leaves nothing behind |
| NVR monitor (`internal/nvrmonitor`) | one picture per camera, audit events | upload with audit gate and rollback, open a stream | pictures are accounted for; a refused upload leaves no trace |
| System settings and audit log (`internal/app`) | watermark flag, AI provider, `tb_audit_logs` | change, audit, write back, list pages | the log retells the setting; a page of the log is the right one |
| Design plans (`internal/designplan`) | uploads, three files each, stores with rooms, a log, in memory | upload, render, recognise, create, update, delete, check for duplicates | no store loses its files by its own fault; the duplicate report is right |
| Asset migration (`internal/assetmigration`, operations routes) | a manifest, a result, `tb_asset_objects`, buckets | inventory, copy, mark, import, sample | what is marked is in the bucket |
| Digital-twin metrics, resource view, NVR lab, asset stores, front end, commands | none, or pure I/O | reads and calls | see "Not modelled" |

How they interact: handlers of `internal/app` run behind `authGate`, which
authenticates a request with the gateway's JWT and the local session; the user's
role and scopes then decide what the monitor and digital-twin routes open. User
administration disables accounts under the same row lock that session creation
takes. The whitelist is checked against the monitor's directory before it is
saved. Channel confirmation and design plans write the same area table. All
writers append to the audit log, some in the same transaction, some after it.

Which behaviours are hard is the list `hazards` of `PROJECT.json`, each with its
line. In short: races of two callbacks for one JWT; a disablement between
authentication and insertion; revocation decided in one statement and written in
another; stale forms; a row that cannot be locked because it does not exist;
commits whose answer is lost; results of slow recognitions applied to rows that
have moved on; counts kept beside the rows they count.

## 2. Modules and the code they model

`M` is the model, `MCM` its instance for TLC, `MProofs` its theorems. Four proof
modules serve two models each, whose names therefore do not clash: AuthSession with
UserAdmin, TwinWhitelist with SystemSettings, NvrSnapshots with FrameCapture,
AssetMigration with DesignPlans.

**AuthSession.** State: the clock, `enabled`, the JWTs' expiry, `tb_auth_sessions`
(`row`, by token), the InnoDB lock of each user row, the cookie jars, and for
each request in flight its step, the cookies it was sent with, the user it read,
its answer. One action per statement or transaction: `CheckSSO`/`RecheckSSO`
(`authenticateSSO`), `TouchAuthSession`, `GetAuthSessionStatus`,
`RevokeAuthSession`, the three statements of `CreateAuthSession` (`LockUser`,
`CheckConsumed`, `InsertSession`), `Logout`, `Deliver` (the cookies as the
browser sees them, in any order), and failures (`UserReadFails`,
`SessionStoreFails` with a lost commit answer, `CreateFails`, `Drop` for a dead
pod). The decisions (`Touchable`, `TouchOutcome`, `Touched`, `StatusOutcome`,
`Revoked`) are operators of one row, and the memory store's versions stand beside
them so that the two can be compared on every reachable row. The host is a
company host; the local-development bypass is left out.

**UserAdmin.** State: accounts with roles, scope rows (of the legacy store
identity and of the CRM identity), the CRM's view of each institution, row
locks, and per tab the form with the revision it showed. `ListUsers` and
`ListScopes` are the two statements of the user list; `Begin` is the locking read
with the comparison of the revision, `Write` the rest of the transaction with its
three outcomes (applied, not applied, unknown), `RecordFailure` the failure event
outside it; `MemSave` and `MemAudit` are the memory store, whose audit write
comes after the mutation. Which store the process runs is the variable `store`,
fixed in `Init`. `CanView` is the authorisation query.

**TwinWhitelist.** State: the row (or `Missing`), its record lock, the gap lock of
the missing key, the directory, per tab the version loaded and the list to save,
the audit events. `LockRow` is "select ... for update" and the comparison,
`WriteRow` the insert or update, `DuplicateKey` and `GapDeadlock` the errors 1062
and 1213 that the code turns into a conflict, `Commit` audit and commit with a
possibly lost answer. The code leaves the isolation level to the server, so
`gapLocks` is chosen in `Init`: with and without gap locks. An event's `previous`
is `Missing` where the code writes the default list and marks its origin as the
system default.

**ChannelMapping.** State: one recorder, its channels by number (`gen` stands for
the row's id, a number that is deleted and scanned again is another row), areas,
annotated areas, and the request each process serves with what it read at its
start. Routes that call a service or read a snapshot first are two actions, begin
and commit (`RecognizeChannel`/`ApplyRecognition`, `ConfirmChannel`/
`ConfirmCommit`, `UnlockChannelForEdit`/`UnlockCommit`, `SaveDesignPlan`/
`SaveDesignCommit`, ...); scans, upserts and deletions write in one step because
of the locks they take: a scan's update of the numbers it did not find locks the
recorder's key range, and inserts share the foreign-key lock of the recorder row
that both then want to update, so one of them is rolled back. Every database error,
service failure and cancelled request is `Fail`. Two history variables,
`decision` (the confirmation that holds for a channel) and `late` (recognitions
that a confirmation overtook), are written by the actions and read by properties
only. Names, pictures, notes, bed labels, scene types, attempt counts and the
operation log are left out because no step reads them back; a design plan saves
one area per request.

**ChannelViews** extends ChannelMapping with what the program shows of the rows:
the H5 monitor's list of stores and page of a store (`GetMonitorHome`), the
channels its stream routes agree to play (`Plays`), the numbers of the store list
and the exported sheet (`ChannelMappingExportRows`). The monitor knows a store by its
organisation id, and no key keeps two stores from having the same one
(`db/mysql_business_schema_patch_tb.sql:90`, `:148`), so the views have a second store
whose channels are a constant: `org` is the set of the stores with the id, `home`
the one of them that `GetStoreByExternalOrgID` returns. Each view is a query with its own
idea of a channel that counts, so the interesting states are the ones that
ChannelMapping reaches by races: rows whose status and `is_active` disagree.

**Filtering**, **Sorting** and **EditDistance** hold three algorithms of the code: the
loop that appends what passes a test to a new slice (`Without`), `sort.Slice` over
elements that an order tells apart (`Sorted`), and `levenshteinDistance`. The first and
the last are recursive functions and the second a choice among functions, because the
library's `SelectSeq` and `SetToSortSeq` are forms about which nothing can be proved
here.

**AuditedRegister** is the abstract specification of `DigitalTwinSettingsStore`: a
value that one indivisible step replaces together with the event that tells what
was replaced by what, and only for a client who had loaded that value.
`TwinWhitelist!Register` instantiates it with the committed row, the audit events
and, for each tab, what it has been told so far; `ImplementsRegister` says that
the transaction refines it.

**StoreDirectory.** State: the deployment (MySQL with or without the CRM as the
authority, or the memory store), stores, recorders, accounts, `deviceCodes` of
the memory store, the operation log, the times of last updates. A route is its
tests, each a query of its own (`CreateStoreName`, `AddRecorderLimit`, ...), then
the repository's transaction (`MySQL...`, with keys) or critical section
(`Memory...`, without), then the read of the result. A list is a query for the
total, the cities, the rows, the counts of each row and the summary. A failed query for
the cities leaves the list without them, one for a row's counts leaves them zero, any
other fails the request (`ListFails`). Writes may fall into one moment (`Touch`), and
rows of one moment come in any order (`ListOrders`), in each query anew. Names are
sequences of parts and are normalised as the code does; normalisation, order and
paging are operators.

**H5Streams.** State: `active` slots per user, the cached token with its age, the
token the cloud accepts, and per request its step, the token it got and the
address. The token cache is modelled statement by statement because its mutex is
released between the look and the refresh. A call without a usable token fetches one
first; when the cloud refuses the token of a call, also one that it has just fetched,
the call fetches another and is repeated, once. Start, audit and disable are the handlers with their returns of
slots. The role is read with the rights and looked at once, by `acquireConcurrency`,
where the model chooses it. `Restart` loses slots and token. The history variable `stray` counts the
disable requests for addresses that hold no slot of the caller.

**FrameCapture.** One capture: `Read` takes any packet of a lossy H.265 stream
(`Deliver`), `feedH265` joins fragments, `TakeNAL` collects an access unit,
`Decode` is `captureJPEG` with its select and its shutdown, `Reader` and `Writer`
the two goroutines, `Exit` the process, `Deadline` the context. ffmpeg may take its
input or not, end its output before it exits or never, and hang at any point; a
close of its input may fail like the write before it. Sequence numbers
wrap at `SeqCycle`. Bytes are left out: a unit is its kind, its timestamp and
whether a fragment is missing.

**NvrSnapshots.** The job (`List`, `Look`, `Pause`, `Ask`, `Capture`, `Store`,
`Finish`, `Signal`, `Kill`) beside browsers that upload (`SaveSnapshot`, `Prepare`,
`Open`, `Put`, `Final`, `Rollback`) or watch (`View`). Both write the same object of
a camera; a store may fail before or after writing, an audit may fail, the server
may die between any two calls.

**DesignPlans.** State: files of the asset store, directories of the server, stores
with their rooms, the log, and per request what it has in hand. An upload is its
steps (accept, render, stitch, thumbnail, three saves), a recognition is the
service that is configured with its request and its reading of the answer, a
deletion reads the store, drops it and then drops the files it named. Names are
sequences of parts; normalising one drops some of them (`Without`), and
`LevenshteinDistance` fills the table of which the code keeps two rows.

**SystemSettings.** State: the two settings as stored texts, the audit log, the
day. A change of the watermark is `UpdateWatermark` (read),
`SetMonitorScreenshotWatermarkEnabled`, `RecordMonitorAudit` and, when that failed,
`RollBackWatermark`. The statements commit by themselves under the context of the
request, so each of them may be done although it answers with an error; the history
variable `gaps` remembers where in the log such an outcome, a failed write back or a
crash belongs, `disturbed` that two changes met. Screenshots, snapshot views and exports are answered after
their audit only; `AuditLogs` queries the count and the rows separately, with an
offset that is bounded so that it cannot wrap (`MaxInt`).

**AssetMigration.** State: the rows that refer to pictures, the source and target
buckets, `tb_asset_objects`, and the two papers in the operator's hands, manifest
and result. `StartInventory`, `QueryFullImages` and `FinishInventory` are the
queries of the inventory, `CopyRow` and `SkipRow` a row of the copy within the
budget, `BackfillRow` a row of the marking, `CanaryImport` and the samples the
other routes that write. Any step may be repeated with old papers, fail, or
lose its answer, while `TakeSnapshot` goes on. `env` holds the three settings that name
a bucket, each set or not: `targetBucket` and `stateBucket` are what the copy and the
backfill read from them, each in its own order (`envValue`), and a route without a
bucket is refused.

The database is assumed to be what the repository's schema and documents say: MySQL
8.0.13 with InnoDB, where CHECK constraints are not enforced and foreign and
unique keys are.

## 3. Runs

| Run | Module | Question | Properties, all of which hold |
|---|---|---|---|
| `session_races` | MCAuthSession | Two concurrent requests of one browser over the whole life of its sessions | `CredentialConsumedOnce`, `LiveMeansRecentlyUsed`, `RevokedReasonTrue`, `StoresAgree`, `DeadStaysDead`, `CreatedOnlyWhileEnabled` |
| `session_progress` | MCAuthSession | Two users sign in on one browser; does any exit of `CreateAuthSession` keep the lock? | `AnswersMatchSession`, `EveryRequestEnds` |
| `users_race` | MCUserAdmin | Two administrators, stale forms, failing statements, both stores | `NoLostUpdate`, `AuditReplaysTable`, `AnswersTellOutcome`, `ListedScopesAreViewable` |
| `twin_saves` | MCTwinWhitelist | Two administrators save, first over the missing row | `NoUnseenOverwrite`, `AuditIsHistory`, `EverySaveIsAnswered`, `ImplementsRegister` |
| `channel_lifecycle` | MCChannelMapping | Two channels, all routes, two requests at a time, and every view of every state | `CountExact`, `DecisionHonoured`, `ReferencesLive`, `MappingChangesOnPurpose`, `HomeShowsWhatPlays`, `ViewsAgree` |
| `store_directory` | MCStoreDirectory | What do tests outside the transaction let through, on three deployments? | `LimitExceededOnlyByRace`, `LogTellsDirectory`, `IndexNeverDangles`, `QuietListAddsUp` |
| `h5_streams` | MCH5Streams | Do slots leak, and does a stale token cost more than one repetition? | `SlotsAccounted`, `OneRefreshSuffices` |
| `frame_capture` | MCFrameCapture | Every stream of seven packets with losses, every failure, the deadline anywhere | `MediaIsWhole`, `NothingLeftBehind`, `CaptureEnds` |
| `nvr_snapshots` | MCNvrSnapshots | The job against two browser requests for one of its cameras | `CircuitOpensOnTime`, `PicturesAreAudited`, `RefusedLeavesNoTrace` |
| `settings` | MCSystemSettings | What does the log tell of the watermark, and what does a page of it show? | `LogTellsSetting`, `PageOfLogRight` |
| `design_plans` | MCDesignPlans | Can a store lose its files, is the duplicate report right? | `StoreKeepsFiles`, `DuplicateReportRight` |
| `asset_migration` | MCAssetMigration | Is everything that is marked where copies go, and when is that the bucket of the mark? | `MigratedMeansStored`, `ManifestNamesOneSnapshot` |

Each module states its types in `TypeOK` (`UsersTypeOK`, `CaptureTypeOK`,
`SettingsTypeOK`, `PlansTypeOK` where a proof module joins two models). The runs do
not repeat it: for AuthSession, UserAdmin and ChannelMapping it is a theorem, for
TwinWhitelist, H5Streams, FrameCapture and AssetMigration a part of the proved
invariant; the invariants of the other four carry the types they need, and their
`TypeOK` holds when it is added to the cfg.
Each property has a mutant, an operator `Definition_Bug` that stands before
the definition it replaces and changes it the way a plausible bug would; under the
mutant TLC finds the property violated.

### What the models show beyond the properties

Several properties leave out a case on purpose, because the code behaves
otherwise there. These are the cases, none of them stated by a run:

- *Sessions.* The memory store says "idle" of every revoked session, MySQL says
  "absolute" of one that is also too old (`StoresAgree` excludes it;
  `auth_session.go:75` speaks of alignment). A 401 of an older request that
  arrives after a newer login clears the new cookies.
- *Users.* The memory store keeps a change whose audit event failed and answers an
  error, although `auth_users.go:96` says that it mirrors the transactional
  contract; `AuditReplaysTable` and `AnswersTellOutcome` are stated for MySQL. Name
  and phone are not part of the revision.
- *Whitelist.* A save whose commit answer is lost may be durable, and the
  administrator is told that it did not take effect (`digital_twin.go:215`); in
  the register this answer is "unclear".
- *Channels.* A recognition that began before a confirmation and ends after it
  overwrites the confirmed label (`late` in `DecisionHonoured`); a channel that was
  only recognised, then lost by a scan and found by the next, comes back as
  confirmed; a design plan that read an area before a confirmation renames it
  afterwards; confirming again leaves the former area without a user in MySQL;
  the batch route takes an unconfirmed channel again, so it keeps the others waiting.
- *Directory.* Two requests at once exceed the limit of three recorders by one, and
  of two stores of one name the second gets an internal error from MySQL's key,
  while the memory store keeps both; channel ids of the memory store are not
  unique across recorders. The page of a store and the export read recorders and
  channels in separate queries. A list whose query for the cities or for the counts of
  a row failed answers OK with no cities or with zeroes, which look like those of a row
  without recorders; and stores that were updated in one millisecond have no order of
  their own, so that two pages can show one of them twice and another not at all.
- *H5 monitor.* With two stores of one organisation id the page of the id shows and
  counts the channels of both, and the stream routes refuse those of the store that
  `GetStoreByExternalOrgID`, a query without an order, does not return;
  `HomeShowsWhatPlays` states exactly this. The page and the stream routes are compared
  in one state; a channel that a scan loses between them is refused as well.
- *H5 streams.* A client that disappears keeps its slot until the process
  restarts; a repeated disable request frees the slot of another stream.
- *NVR snapshots.* Two uploads whose audits fail can leave the picture of a refused
  one, when the rollback of the first writes back what the second had read
  (`RefusedLeavesNoTrace` is about pictures nobody else wrote). A save that fails
  after the object was written returns no rollback. An upload between the job's
  look and its save is replaced.
- *Frame capture.* Sequence numbers are compared within a fragmented unit only:
  whole units lost between others go unnoticed.
- *Settings.* Overlapping changes leave the log and the setting different, for good; a
  failed write back (it uses the context of the request that may be cancelled), a crash
  between write and audit, and a write or an audit that is done although its answer is
  an error do so until the next change is recorded, whose `previous` then does not
  follow from the event before it. A screenshot between the write and the write back
  carries the value that is then withdrawn, and of two toggles at once one is lost.
- *Design plans.* Two stores made from one upload share its files, and deleting one
  takes the pictures of the other; replaced and failed uploads leave files that
  nothing deletes; as many stores of one name as requests at once can arise, and the
  duplicate check, which walks a map, then reports whichever of them it meets first.
- *Asset migration.* The copy reads its bucket from `TARGET_OSS_BUCKET`, then
  `K8S_SECRET_OSS_BUCKET`, then `OSS_BUCKET`; the backfill reads `OSS_BUCKET`, then
  `K8S_SECRET_OSS_BUCKET`, and never the first. With `TARGET_OSS_BUCKET` set to a bucket
  of its own, as `docs/oss-asset-stage-a-runbook.md:110` allows, or with the two others
  at odds, a mark names a bucket that the object is not in. `MigratedMeansStored` says
  what is left then: the object is where copies go. The same deployment is kept from
  the copy to the backfill.

### Bounds

- *Sessions*: one user and one JWT with two tokens and two requests give every
  race for a JWT and every order of touch, revocation and answer; with
  `IdleTimeout` = 2, `AbsTimeout` = 3 and `MaxTime` = 4 a session can be extended
  until the absolute deadline clamps it, and each deadline is met, passed by one
  and passed while a request is between two statements. `session_progress` has two
  users with a JWT each, a third JWT and one request at a time: the mixture of
  cookies comes from the order of requests, not from their overlap, a lock left
  behind stops the next request, and no time beyond one tick is needed.
- *Users*: one account suffices since no statement relates two accounts
  except the mixed-identity test of the list; the forms keep, replace and clear
  the scopes and differ in role and flag. `MaxEvents` = 2 bounds *submissions*
  once two events are written: two saves plus the ones then in flight.
- *Whitelist*: two stores, two administrators, two events: the first save over
  the missing row by both, then saves over a saved row. The submission bound also
  means that no save is cut off in the middle, so liveness is not affected.
- *Channels*: two numbers, two labels, two area rows, five requests of which two
  run at a time. A late write to a number that was deleted and scanned again is
  the longest scenario the properties are about and needs four requests; one more
  leaves room for a second actor. The views are evaluated in every state.
- *Directory*: four requests, two at a time, against a store with two recorders and
  a limit of two, so that one deletion and two additions at once exceed it; pages
  of one store give several pages; the inputs hold every route, equal names in
  different spellings, equal codes in different case and blank codes.
- *H5 streams*: two users with limits of one and two and three requests, so that a
  stream, its repeated disabling and a third start meet; two changes of the token
  by the cloud make a cached or freshly fetched one stale and then the one that was
  fetched after the refusal, the only way to the answer "expired".
- *Frame capture*: seven packets hold all parameter sets and a key frame of three
  fragments, with a packet to lose; `SeqCycle` = 3 wraps within one unit.
- *NVR snapshots*: three cameras, a circuit of two failures, one of the cameras
  with a picture and two requests; the job runs once from any stored state.
- *Settings*: three requests, two at a time, over two days; pages of one to three
  events and a largest integer of 5, which the offset of page 5 would exceed.
- *Design plans*: one upload, three requests, two at a time: two stores of one
  upload and a deletion, or an update between the steps of a deletion. The four
  names differ by an ending that is dropped and by one and two edits.
- *Asset migration*: two snapshots in four forms of reference, a budget of two rows
  and five requests: an inventory, a copy, a marking, and two more with the same
  or newer papers; five deployments, which set none, one or two of the three settings,
  the two to different buckets.
- Symmetry is used for tokens, requests, users, administrators and processes, in
  runs without liveness only. The session runs with a fixed `CredUser` do not
  permute users or JWTs. `store_directory`, `design_plans` and `settings` do not
  check deadlock: once the bounded number of requests is served they stop.

Clocks and counters are bounded by `MaxTime`, `MaxEvents`, `MaxRequests`, `MaxAreas`,
`MaxPlanRequests`, `MaxPos`, `MaxGap`, `MaxToken`, `MaxRuns`, `MaxUploads`, `MaxShots` and
`MaxDays`, each a constant and a guard of the actions that add to it.

### Fairness

Three runs need it. `AuthSession!FairSpec`: weak fairness of each request's
handler steps, because a handler runs to its answer, and strong fairness of
`LockUser`, because InnoDB queues the waiters of a row lock and grants it to each
in turn; failures, lock time-outs and broken connections are possible and not fair,
so the result does not rest on the 50-second time-out that would hide a lock left
behind. `TwinWhitelist!FairSpec`: strong fairness of the server's steps of a save for the
same two reasons; the deadlock error is one of these steps, as InnoDB detects
deadlocks at once. `FrameCapture!FairCapture`: weak fairness of the caller and of the
deadline, which ends a dial and a read of the connection that hang and kills the
process; of a goroutine's read or write only once the process is gone or the
goroutine's pipe is closed, as both then return by themselves. Neither the camera nor
ffmpeg owes anybody anything before the deadline: a capture whose ffmpeg is silent is
ended by the deadline and by nothing else.
Nothing is assumed of people, the gateway or the CRM.

## 4. Proofs

TLC's results are for the bounds above; these are for any sets and limits that meet
the named assumption of the module:

| Assumption | What it says and why |
|---|---|
| `SessionAssumption` | every JWT names a user; timeouts are naturals, the idle one positive and not above the absolute one (30 minutes and 8 hours, two constants of `auth_session.go`) |
| `UserAssumption` | there is an account name at all; forms are mutations the decoder lets through |
| `TwinAssumption`, `ChannelAssumption`, `SnapshotsAssumption` | the marks `None`, `Missing` and "the job" are not values; channel numbers are a finite set of naturals, a label has both parts |
| `ViewsAssumption` | channel numbers are positive (a check constraint of the schema, `db/mysql_schema_tb.sql`); a room number is a number or none; the second store's channels are finitely many other rows |
| `DirectoryAssumption` | limit and page size are positive; there are finitely many requests at a time; an addition carries one code and the initial store respects the limit; a row is not the mark `Missing`; the number of a page is any integer, its product with the size fits one |
| `SettingsAssumption` | numbers of a query are within the type `int`, the largest page size too, and the log is not longer than an `int` can count; finitely many requests at a time |
| `PlansAssumption` | bounds, and the names of the routes and providers that exist; a store name is a sequence, and the names that are sent are among `Names` |
| `StreamAssumption` | the two limits of `acquireConcurrency`, 15 streams for a user and 20 for an administrator: positive, and the second not below the first |
| `CaptureAssumption` | a gap of lost packets is shorter than the cycle of the sequence numbers (65536 in the code): after a longer one no receiver could tell; the mark for an empty pipe is no content |
| `MigrationAssumption` | bounds, the forms that exist, and the type of the settings: any of the three may name any bucket or be missing |

An invariant worth stating is seldom inductive. For each module this is what has to
be added, always checked by TLC on the run's instance before it was proved.

**AuthSessionProofs**
- `TypeCorrect`: `Spec => []TypeOK`.
- `OneSessionPerCredential`: `Spec => []CredentialConsumedOnce`. That no two rows
  share user and JWT is not inductive: an insert must know that the JWT is still
  unused. `LoginInv` adds `UserRead` (a request past the SSO check knows the user
  its JWT names), `LockHeld` (between first statement and commit it holds that
  user's lock, alone) and `NotYetConsumed` (what the second statement found is
  still true at the insert, because every other insert for that user needs the
  lock).
- `DeadSessionsStayDead`: `Spec => DeadStaysDead`. Each step either leaves a row
  alone, fills an empty one, touches one that is live, or revokes one
  (`RowStep`), and the clock does not run backwards (`ClockStep`).
- `OnlyUseKeepsAlive`, `ReasonsTrue`, `AnswersRight`, `StoresAlike`
  (`LiveMeansRecentlyUsed`, `RevokedReasonTrue`, `AnswersMatchSession`,
  `StoresAgree`) all follow from `SessionInv` (`SessionInductive`): the deadlines
  of a row are exact functions of its times, the cookies of a jar or a request name
  committed rows, an account stays enabled between the lock and the insert, and
  the reason a request has decided on (`ReasonHolds`) stays true while it waits
  to write it, because deadlines only pass and live rows only move away from them
  under a touch that the decision excludes. `CreatedWhileEnabled`
  (`CreatedOnlyWhileEnabled`) uses the lock again.
- `UsersTyped`, `AuditComplete`, `OutcomesTold`, `ListedIsViewable`: `UsersTypeOK`,
  `AuditReplaysTable`, `AnswersTellOutcome`, `ListedScopesAreViewable`, from `UsersInv`
  (`UsersInductive`): `TxInv` (between locking read and commit the transaction holds
  the account's lock, so the account still is the one whose revision was
  compared), `NoOrphans` (an account that does not exist has no scopes: why an
  event that creates one starts from nothing), `OutcomeInv` (in which steps a save
  has had its effect).
- `UpdatesNeverLost`: `UsersSpec => NoLostUpdate`, from `TxInv` at the writing step.

**TwinWhitelistProofs**
- `WhitelistAudited`, `WhitelistLocks`, `WhitelistNotOverwritten`: `AuditIsHistory`,
  `LocksBelongToWriters`, `NoUnseenOverwrite`. The invariant `IInv` adds `TxInv`:
  between its statements a transaction over a saved row holds the record lock and
  the row is the version it compared; one that found the row missing can rely on
  nothing until its insert has succeeded, which is why the insert's unique key
  and not the locking read protects the missing row, with gap locks or without.
- `WhitelistRefines`: `Spec => ImplementsRegister`. Initial states map to initial
  states, a commit maps to the register's `Save` (this needs `TxInv`: the row
  is still what the tab had loaded), an answer to `Close`, every other statement of
  the transaction to a stuttering step.
- `LogTold`: `LogTellsSetting`, from `SettingsInv` (`SettingsInductive`). As long as no
  two changes have met, at most one is between its write and its audit, and the
  value it will report as the old one is what the log tells, or there is a gap after
  the last recorded change (`LogPart`); an event that is recorded puts all earlier
  gaps behind it. The log is
  filtered, so the step that appends an event needs that the last event of a change
  is the last element of the filtered log.
- `PageRight`: `PageOfLogRight`. A query that no event has overtaken knows, step by
  step, the length and the rows of the log as it is (`PagePart`); the page is then
  compared by rank, the number of newer rows that pass the filter. That the offset
  never wraps is arithmetic: `CountOK` bounds the log by `MaxInt`, and a bounded page
  times a bounded size stays within it (`WrapWithin`, `Quotient`).

**ChannelMappingProofs**
- `ChannelTypes`, `RecorderCounts`, `DecisionsHold`: `TypeOK`, `CountExact`,
  `DecisionHonoured`. `IInv` adds `RequestOK` (what a request carries),
  `ActiveOK` (an active row never has the status of a lost one: why confirmations
  and recognitions, which do not recount, keep the count exact), `DecisionOK`
  (a lost row keeps enough, above all the confirmation time, for the scan that
  finds it again to restore the status) and `LateOK` (a recognition still running
  on a decided row is known to be late).
- `ReferencesHold` (`ReferencesLive`) is inductive given `IInv`; `MappingPurposeful`
  (`MappingChangesOnPurpose`) compares every action's rows before and after.
- `CountsShownAgree`: `CountsAgree`, the part of `ViewsAgree` that counts. `ActiveOK` is
  what makes the store list (which asks for `is_active`), the monitor (which also
  asks for a positive number) and the recorder's count (which also asks for
  the status) agree.
- `ViewsHold`, `HomeHolds`: all of `ViewsAgree`, and `HomeShowsWhatPlays` for any channels of a
  second store with the same organisation id. The page of a
  store and the exported sheet are sorted, grouped, filtered and flattened lists; from
  the lemmas of AlgorithmProofs each of these steps keeps every channel once, the
  groups partition the channels, and the orders of both lists are total on them
  (`PageOrdered`, `SheetOrdered`: the second because room numbers are numbers and the
  channel number decides last).

**StoreDirectoryProofs**
- `LimitHolds`, `LogHolds`, `IndexHolds`: `LimitExceededOnlyByRace`,
  `LogTellsDirectory`, `IndexNeverDangles`, from `IInv` (`DirectoryInductive`).
  `LimitOK` adds to the recorders of a store the requests that have passed the test of
  the limit and not yet written: together they are at most the limit and the number of
  processes less one, which is what an unlocked test in front of an insert is worth.
  `LogOK` says that an entry is about an id that was given out and that a recorder is
  logged for one store, `IndexOK` that the index is the memory store's alone,
  `IdsSuffice` that there is a fresh id for every request still to come.
- `ListHolds`: `QuietListAddsUp`. Its invariant `QuietInv` says what each of the
  queries has found, as long as nobody has written since the first (`calm`), the failed
  ones included. A page is right when the ranks it shows are those of the page and each
  store has a rank that its last update allows: behind every store updated later, and
  no further back than the stores not updated earlier (`RightRows`). `OrderRank` proves
  that of every order the query can come back in; without two updates of one moment it
  leaves one order.

**AlgorithmProofs** holds no theorem of a specification but the lemmas that the others
cite: what `Without` keeps and in which order (`WithoutRanked`), that a finite set
with a total order has a sorted sequence and that it holds each element once
(`SortedExists`, `SortedElements`), and what the table of `LevenshteinDistance` says
of two sequences. Induction is by the least counterexample (`LeastNat`, from `WFMin`):
the set of failing numbers, if not empty, has a least element; this needs no instance
of a schema. For the table the same is done by the sum of the two indices
(`GridInduction`). One edit of a sequence moves its distance from any other by one at
most (`EditedNear`), so two edits lead no further than two (`EditsBound`); and along
the table from the last entry back, a distance of at most two leaves a sequence
between the two, one edit from each (`OneDistance`, `TwoDistance`).

**H5StreamsProofs**
- `NoSlotLeaks`, `OneRefreshEnough`: `SlotsAccounted`, `OneRefreshSuffices`, from `IInv`
  (`StreamsInductive`): `SlotInv` (exactly the starts between admission and answer
  hold a slot that is not handed out), `TokenInv` (a call repeated after a refusal uses
  the token that it fetched itself after that refusal, not the cached one) and `CountInv`, where adding and
  removing one stream moves the cardinality by one.

**AssetMigrationProofs**
- `MigratedStored`, `ManifestOneSnapshot`: `MigratedMeansStored`,
  `ManifestNamesOneSnapshot`, from `IInv` (`MigrationInductive`): `CopiedInv` (the
  object of every row that the operator's result, or a backfill under way, reports
  as copied is in the target store, since only the sample is ever removed), `MarkInv`
  (a mark names the backfill's bucket, the target's or not), `CopyHasBucket` (a copy
  has a bucket to write to) and
  `RawInv` (each snapshot query returns one row of the channel at most).
- `FilesKept`: `StoreKeepsFiles`, from `PlanInv` (`PlansInductive`): what each request
  has in hand, by route and step, no two of them the same upload (`PlanRequests`), and
  that an upload answered with success has all its files unless a store that named it
  was deleted, which is then gone for good (`PlanTables`).
- `ReportRight`: `DuplicateReportRight`, from `ReportInv` beside `PlanInv`: a report that
  no write has overtaken (`calm`) is what the check would say now, and every name that
  is kept or about to be kept is one that was sent. What the check says is right
  (`SimilarRight`) because a name is found within another exactly where it is a cut of
  it (`CutRight`), and a distance of at most two is at most two edits over the alphabet
  of the names (`DistanceRight`, from AlgorithmProofs).

**NvrSnapshotsProofs**
- `PicturesAudited`, `RefusedTraceless`: `PicturesAreAudited`, `RefusedLeavesNoTrace`,
  from `WebInv` (`UploadsInductive`): `Announced` (past the write gate an upload has
  its event, and the picture it may put back has one, too) and `FlowInv` (until it
  writes, an upload whose camera nobody else has written sees the picture it found,
  and afterwards holds it for the rollback).
- `CircuitOnTime`: `CircuitOpensOnTime`, from `CircuitInv` (`CircuitInductive`): while
  the job runs, its counter is the length of the row of failures at the end of the
  trail, which is not yet full. The two invariants are independent: the job only
  writes pictures, the browsers never touch its counter.
- `MediaWhole`, `NothingLeft`: `MediaIsWhole`, `NothingLeftBehind`, from `FrameInv`
  (`CaptureInductive`): `FuInv` (the fragments held are a gapless beginning of the
  unit being sent, and the next sequence number expected is the next one sent,
  modulo the cycle), `UnitInv`, and `CollectInv` (what each step of the decoder
  leaves to collect). The arithmetic is in lemmas on remainders: a gap shorter than
  the cycle is always seen (`GapIsSeen`).

Only model-checked: `EveryRequestEnds`, `EverySaveIsAnswered` and `CaptureEnds`, since
liveness under fairness is out of the prover's reach. Every invariant of the runs is
proved.

## 5. Not modelled

- Audit events of the session life: written last, errors dropped, nothing reads
  them. `UpdateAuthUserProfile` writes profile fields only.
- The memory whitelist store (the same steps under one mutex) and the channel
  operations of the memory store of `internal/storespace`, which serves local
  development and tests and renames areas by other rules.
- Digital-twin metrics (`internal/digitaltwin`): three parallel read-only calls and
  an initialiser that is repeated under a mutex; a repetition costs time only.
- Resource view and NVR lab, the NVR monitor's lists of stores and cameras: read-only
  queries of another system's tables, without state.
- The channel recognisers (`internal/channelai`): stateless calls; in
  `ChannelMapping` a recognition is any answer or a failure.
- Asset stores (local, OSS, Supabase): pure I/O; the modules use them as sets of keys.
- Operations routes that only read (environment check, smoke test, canary
  validation), commands, schema, deployment scripts: wiring; keys and constraints of
  the schema are used.
- Front end: its requests are the environment of the modules.

## 6. What could follow

The channel operations of the memory store of `internal/storespace`, and a refinement
that compares them with MySQL's.
