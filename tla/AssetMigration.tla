--------------------------- MODULE AssetMigration ---------------------------
(***************************************************************************)
(* Moving the pictures of an institution to object storage with the        *)
(* operations routes of internal/app and internal/assetmigration: an       *)
(* inventory of the rows that refer to pictures becomes a manifest, the    *)
(* manifest is copied row by row within a budget, and the result marks     *)
(* tb_asset_objects.  The manifest and the result travel through the       *)
(* operator's hands, so each step may be repeated with old papers, while   *)
(* the application goes on taking snapshots.                               *)
(***************************************************************************)
EXTENDS Naturals, Sequences, FiniteSets

CONSTANTS
    Forms,         \* how a snapshot row refers to its two pictures
    Orgs, OwnOrg,  \* institutions; OwnOrg is the one being moved
    AllowedOrgs,   \* allowedOpsMigrationOrgIDs
    Buckets, None,
    Deployments,   \* the environments a deployment may give the program
    MaxRows,       \* max_rows of a copy
    MaxShots, MaxRequests

Settings == {"TARGET_OSS_BUCKET", "K8S_SECRET_OSS_BUCKET", "OSS_BUCKET"}

ASSUME MigrationAssumption ==
    /\ OwnOrg \in AllowedOrgs /\ AllowedOrgs \subseteq Orgs
    /\ Forms \subseteq {"shared", "separate", "remote", "sample"}
    /\ None \notin Buckets
    /\ Deployments \subseteq [Settings -> Buckets \cup {None}]
    /\ MaxRows \in Nat \ {0} /\ MaxShots \in Nat /\ MaxRequests \in Nat

Sample == <<0, "sample">>   \* stageASourceSampleKey
Design == <<0, "design">>   \* the original of the institution's design plan
Keys == {Sample, Design} \cup ((1..MaxShots) \X {"thumb", "full"})

VARIABLES
    env,        \* the bucket that each setting names, if it is set
    authority,  \* whether the CRM is the authority for institutions
    imported,   \* whether the institution's rows are in MySQL
    shots,      \* tb_channel_snapshots of one channel: the form of each row, by id
    source,     \* keys in the old store
    target,     \* objects of the new store, <<bucket, key>>
    state,      \* tb_asset_objects by logical key: None, or the bucket recorded
    pc, started,
    raw,        \* inventory rows read so far, by query
    manifest, result,  \* the operator's papers
    paired,     \* whether the result was made from this manifest
    request,    \* copy in progress: its institution and whether it is applied
    done,       \* copy in progress: rows of the manifest handled
    budget,     \* copy in progress: rows processed
    todo,       \* backfill in progress: rows of the result not yet handled
    book        \* backfill in progress: manifestByKey

vars == <<env, authority, imported, shots, source, target, state, pc, started, raw,
          manifest, result, paired, request, done, budget, todo, book>>
papers == <<manifest, result, paired>>
data == <<env, authority, imported, shots>>

RawRow == [id : 0..MaxShots, key : Keys \cup {None}]
NoRows == [designs |-> <<>>, thumbs |-> <<>>, fulls |-> <<>>]
ManifestRow == [id : 0..MaxShots, key : Keys \cup {None}, status : {"pending", "skipped"},
                rank : Nat]
Reasons == {"", "max_rows_reached", "filtered", "not_ready"}
ResultRow == [key : Keys \cup {None}, action : {"copied", "failed", "skipped", "would_copy"},
              why : Reasons]

TypeOK ==
    /\ env \in Deployments
    /\ authority \in {"crm", "legacy"} /\ imported \in BOOLEAN
    /\ shots \in Seq(Forms) /\ Len(shots) <= MaxShots
    /\ source \subseteq Keys
    /\ target \subseteq Buckets \X Keys
    /\ state \in [Keys -> Buckets \cup {None}]
    /\ pc \in {"idle", "full", "states", "copy", "backfill"}
    /\ started \in 0..MaxRequests
    /\ raw \in [designs : Seq(RawRow), thumbs : Seq(RawRow), fulls : Seq(RawRow)]
    /\ manifest \in Seq(ManifestRow)
    /\ result \in Seq(ResultRow) /\ paired \in BOOLEAN
    /\ request \in [org : Orgs, apply : BOOLEAN]
    /\ done \in 0..Len(manifest) /\ budget \in 0..MaxRows
    /\ todo \in Seq(ResultRow)
    /\ book \subseteq Keys

-----------------------------------------------------------------------------
(* The inventory. *)

\* normalizeMySQLAssetLogicalKey for a picture of snapshot i.
LogicalKey(i, column) ==
    IF shots[i] = "remote" THEN None
    ELSE IF shots[i] = "sample" THEN Sample
    ELSE IF shots[i] = "shared" THEN <<i, "full">> ELSE <<i, column>>

\* One query of queryMySQLAssetInventoryRows: the latest snapshot only.
QuerySnapshots(column) ==
    IF shots = <<>> THEN <<>>
    ELSE <<[id |-> Len(shots), key |-> LogicalKey(Len(shots), column)]>>

QueryDesigns == IF imported THEN <<[id |-> 0, key |-> Design]>> ELSE <<>>

\* Mutant: the queries alone are trusted to agree on the latest snapshot.
latestMySQLSnapshotRows_All(rows) == rows.designs \o rows.thumbs \o rows.fulls

\* A query's row of the channel, unless the other query read a newer snapshot.
UnlessOlder(own, other) ==
    IF own # <<>> /\ other # <<>> /\ own[1].id < other[1].id THEN <<>> ELSE own

\* latestMySQLSnapshotRows: the rows of the channel's highest snapshot id, and all others.
latestMySQLSnapshotRows(rows) ==
    rows.designs \o UnlessOlder(rows.thumbs, rows.fulls) \o UnlessOlder(rows.fulls, rows.thumbs)

\* How many of the first k rows have the key of row k.
RowRank(rows, k) ==
    IF rows[k].key = None THEN 0
    ELSE Cardinality({j \in 1..k : rows[j].key = rows[k].key})

isMigratedMySQLAsset(k) == state[k] # None

\* buildMySQLAssetInventory over the filtered rows.
buildMySQLAssetInventory(rows) ==
    LET latest == latestMySQLSnapshotRows(rows)
    IN  [k \in DOMAIN latest |->
           [id |-> latest[k].id, key |-> latest[k].key,
            status |-> IF latest[k].key = None THEN "skipped"
                       ELSE IF isMigratedMySQLAsset(latest[k].key) THEN "skipped" ELSE "pending",
            rank |-> RowRank(latest, k)]]

Accept == pc = "idle" /\ started < MaxRequests /\ started' = started + 1

Init ==
    /\ env \in Deployments
    /\ authority \in {"crm", "legacy"}
    /\ imported = FALSE
    /\ shots = <<>>
    /\ source \in SUBSET {Design}
    /\ target = {}
    /\ state = [k \in Keys |-> None]
    /\ pc = "idle" /\ started = 0
    /\ raw = NoRows /\ manifest = <<>> /\ result = <<>> /\ paired = FALSE
    /\ request = [org |-> OwnOrg, apply |-> FALSE]
    /\ done = 0 /\ budget = 0
    /\ todo = <<>> /\ book = {}

opsMigrationOrgAllowed(org) == org \in AllowedOrgs

\* mysqlAssetInventoryHandler for the institution, and the queries before
\* the last one.
StartInventory ==
    /\ Accept
    /\ opsMigrationOrgAllowed(OwnOrg)
    /\ raw' = [designs |-> QueryDesigns, thumbs |-> QuerySnapshots("thumb"), fulls |-> <<>>]
    /\ pc' = "full"
    /\ UNCHANGED <<data, source, target, state, papers, request, done, budget, todo, book>>

\* The last query runs later, in no transaction with the others.
QueryFullImages ==
    /\ pc = "full"
    /\ raw' = [raw EXCEPT !.fulls = QuerySnapshots("full")]
    /\ pc' = "states"
    /\ UNCHANGED <<data, source, target, state, started, papers, request, done, budget, todo, book>>

\* queryMySQLAssetStates, then the manifest; the operator may still have an old result.
FinishInventory ==
    /\ pc = "states"
    /\ manifest' = buildMySQLAssetInventory(raw)
    /\ paired' = FALSE
    /\ raw' = NoRows
    /\ pc' = "idle"
    /\ UNCHANGED <<data, source, target, state, started, result, request, done, budget, todo, book>>

-----------------------------------------------------------------------------
(* The copy. *)

\* rowReady without include-skipped, which the routes never set.
rowReady(row) ==
    /\ row.key # None
    /\ row.status = "pending"
    /\ row.rank \in {0, 1}

\* The first of two settings that is set.
envValue(first, second) == IF env[first] # None THEN env[first] ELSE env[second]

\* The bucket that targetOSSStoreForMigration writes to, None when it fails.
targetBucket ==
    IF env["TARGET_OSS_BUCKET"] # None THEN env["TARGET_OSS_BUCKET"]
    ELSE envValue("K8S_SECRET_OSS_BUCKET", "OSS_BUCKET")

targetObject(k) == <<targetBucket, k>>

\* A dry run may name any institution.
normalizeAssetMigrationRequest(org, apply) ==
    manifest # <<>> /\ (apply => opsMigrationOrgAllowed(org))

\* assetMigrationHandler.  Every row of the manifest is of OwnOrg.
StartCopy(org, apply) ==
    /\ Accept
    /\ normalizeAssetMigrationRequest(org, apply) /\ targetBucket # None
    /\ request' = [org |-> org, apply |-> apply]
    /\ pc' = "copy"
    /\ result' = <<>> /\ paired' = TRUE /\ done' = 0 /\ budget' = 0
    /\ UNCHANGED <<data, source, target, state, raw, manifest, todo, book>>

\* One row's result; CopyManifest goes on with the next row whatever it is.
Report(row, action, why) ==
    /\ result' = Append(result, [key |-> row.key, action |-> action, why |-> why])
    /\ done' = done + 1

rowMatchesOptions == request.org = OwnOrg

\* The rows that CopyManifest skips, in the order of its tests.
SkipRow(row) ==
    /\ budget >= MaxRows \/ ~rowMatchesOptions \/ ~rowReady(row)
    /\ Report(row, "skipped", IF budget >= MaxRows THEN "max_rows_reached"
                              ELSE IF ~rowMatchesOptions THEN "filtered" ELSE "not_ready")
    /\ UNCHANGED <<target, budget>>

\* Mutant: an object that could not be saved is reported as copied.
copyOne_ErrorDropped(row) ==
    /\ Report(row, "copied", "")
    /\ target' \in {target, target \cup {targetObject(row.key)}}

\* copyOne: the object is read from the old store and saved; a save whose answer
\* is lost is a failure and may have been done.
copyOne(row) ==
    \/ /\ row.key \in source
       /\ target' = target \cup {targetObject(row.key)}
       /\ Report(row, "copied", "")
    \/ /\ Report(row, "failed", "")
       /\ \/ UNCHANGED target
          \/ row.key \in source /\ target' = target \cup {targetObject(row.key)}

\* One row of CopyManifest.
CopyRow ==
    LET row == manifest[done + 1]
    IN  /\ pc = "copy" /\ done < Len(manifest)
        /\ \/ SkipRow(row)
           \/ /\ budget < MaxRows /\ rowMatchesOptions /\ rowReady(row)
              /\ budget' = budget + 1
              /\ IF request.apply THEN copyOne(row)
                 ELSE Report(row, "would_copy", "") /\ UNCHANGED target
        /\ UNCHANGED <<data, source, state, pc, started, raw, manifest, paired, request, todo,
                       book>>

\* runAssetMigrationFromEnv hands the result out.
FinishCopy ==
    /\ pc = "copy" /\ done = Len(manifest)
    /\ pc' = "idle"
    /\ request' = [org |-> OwnOrg, apply |-> FALSE] /\ done' = 0 /\ budget' = 0
    /\ UNCHANGED <<data, source, target, state, started, raw, papers, todo, book>>

-----------------------------------------------------------------------------
(* The state backfill. *)

\* The manifest rows that runAssetStateBackfill looks results up in.
manifestByKey(rows) ==
    {rows[k].key : k \in {j \in DOMAIN rows : rows[j].key # None /\ rows[j].rank <= 1}}

\* The bucket that runAssetStateBackfill records: other settings in another order.
stateBucket == envValue("OSS_BUCKET", "K8S_SECRET_OSS_BUCKET")

normalizeAssetStateBackfillRequest(org) ==
    manifest # <<>> /\ result # <<>> /\ opsMigrationOrgAllowed(org)

\* assetStateBackfillHandler; the rows of another institution are all skipped.
StartBackfill(org) ==
    /\ Accept
    /\ normalizeAssetStateBackfillRequest(org) /\ stateBucket # None
    /\ todo' = IF org = OwnOrg THEN result ELSE <<>>
    /\ book' = manifestByKey(manifest)
    /\ pc' = "backfill"
    /\ UNCHANGED <<data, source, target, state, raw, papers, request, done, budget>>

\* One row of runAssetStateBackfill: an upsert of its own, in no transaction.
BackfillRow ==
    LET row == Head(todo)
    IN  /\ pc = "backfill" /\ todo # <<>>
        /\ row.action = "copied" => row.key \in book
        /\ todo' = Tail(todo)
        /\ state' = IF row.action = "copied"
                    THEN [state EXCEPT ![row.key] = stateBucket] ELSE state
        /\ UNCHANGED <<data, source, target, pc, started, raw, papers, request, done, budget, book>>

FinishBackfill ==
    /\ pc = "backfill" /\ todo = <<>>
    /\ pc' = "idle" /\ book' = {}
    /\ UNCHANGED <<data, source, target, state, started, raw, papers, request, done, budget, todo>>

\* The database fails, a route's deadline passes, or a copied row is not in the
\* book ("missing manifest row"): the request ends where it is.
\* The operator keeps the papers of earlier requests, and none of this one.
Abort ==
    /\ pc # "idle"
    /\ pc' = "idle"
    /\ result' = IF pc = "copy" THEN <<>> ELSE result
    /\ raw' = NoRows /\ request' = [org |-> OwnOrg, apply |-> FALSE]
    /\ done' = 0 /\ budget' = 0 /\ todo' = <<>> /\ book' = {}
    /\ UNCHANGED <<data, source, target, state, started, manifest, paired>>

-----------------------------------------------------------------------------
(* The rest of the operations routes, and the application. *)

\* mysqlCanaryImportHandler and the scope that the import text must have.
CanaryAccepted == authority = "legacy"
normalizeMySQLCanaryImportRequest(org) == opsMigrationOrgAllowed(org) /\ org = OwnOrg

\* runMySQLCanaryImportFromEnv: one transaction, refused when the CRM rules; a lost
\* commit answer leaves the rows in place.
CanaryImport(apply) ==
    /\ Accept
    /\ CanaryAccepted /\ normalizeMySQLCanaryImportRequest(OwnOrg)
    /\ imported' \in IF apply THEN {imported, TRUE} ELSE {imported}
    /\ UNCHANGED <<env, authority, shots, source, target, state, pc, raw, papers, request, done, budget,
                   todo, book>>

\* stageASourceSampleHandler and runStageASourceSampleFromEnv.
StageSample == Accept
SeedSample ==
    /\ StageSample
    /\ source' = source \cup {Sample}
    /\ UNCHANGED <<data, target, state, pc, raw, papers, request, done, budget, todo, book>>
CleanupSourceSample ==
    /\ StageSample
    /\ source' = source \ {Sample}
    /\ UNCHANGED <<data, target, state, pc, raw, papers, request, done, budget, todo, book>>

\* runStageATargetSampleFromEnv: the exact key only.
CleanupTargetSample ==
    /\ Accept /\ targetBucket # None
    /\ target' = target \ {targetObject(Sample)}
    /\ UNCHANGED <<data, source, state, pc, raw, papers, request, done, budget, todo, book>>

\* The application saves a snapshot's pictures and then its row.
TakeSnapshot(form) ==
    /\ Len(shots) < MaxShots
    /\ shots' = Append(shots, form)
    /\ source' = source \cup {<<Len(shots) + 1, c>> :
                    c \in IF form = "shared" THEN {"full"}
                          ELSE IF form = "separate" THEN {"thumb", "full"} ELSE {}}
    /\ UNCHANGED <<env, authority, imported, target, state, pc, started, raw, papers, request, done,
                   budget, todo, book>>

Rest == pc = "idle" /\ UNCHANGED vars

Next ==
    \/ StartInventory \/ QueryFullImages \/ FinishInventory
    \/ \E org \in Orgs, apply \in BOOLEAN : StartCopy(org, apply)
    \/ CopyRow \/ FinishCopy
    \/ \E org \in Orgs : StartBackfill(org)
    \/ BackfillRow \/ FinishBackfill \/ Abort
    \/ \E apply \in BOOLEAN : CanaryImport(apply)
    \/ SeedSample \/ CleanupSourceSample \/ CleanupTargetSample
    \/ \E form \in Forms : TakeSnapshot(form)
    \/ Rest

Spec == Init /\ [][Next]_vars

-----------------------------------------------------------------------------
(* Properties. *)

\* An asset is marked as migrated only if its object is in the bucket that copies
\* go to, whichever copies failed, whichever papers were used again and whatever
\* was cleaned up (the sample itself excepted); and that is the bucket the mark
\* names, unless the deployment's settings give the backfill another one.
MigratedMeansStored ==
    \A k \in Keys \ {Sample} :
        state[k] # None =>
            /\ targetObject(k) \in target
            /\ stateBucket = targetBucket => <<state[k], k>> \in target

\* The pictures of a channel in a manifest are all of one snapshot, although they
\* are read by two queries and a new snapshot may be taken between them.
ManifestNamesOneSnapshot ==
    \A j, k \in DOMAIN manifest :
        manifest[j].id # 0 /\ manifest[k].id # 0 => manifest[j].id = manifest[k].id

=============================================================================
