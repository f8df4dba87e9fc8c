------------------------ MODULE AssetMigrationProofs ------------------------
(***************************************************************************)
(* Proofs about AssetMigration, for any settings, any numbers of requests, *)
(* snapshots and rows in a budget and any institutions.  The argument has  *)
(* two halves.  The object of every row reported as copied is in the       *)
(* target store and stays there, in whichever paper the row is carried     *)
(* about, so that a backfill may use it at any time, while a mark names    *)
(* the bucket of the backfill's own settings.  And the rows that the two   *)
(* snapshot queries return are at most one each, so that dropping the      *)
(* older one leaves one snapshot.                                          *)
(*                                                                         *)
(* The second half is about DesignPlans, whose uploads are among the       *)
(* assets: a store keeps the files it names, and the duplicate report of   *)
(* their names is right.                                                   *)
(***************************************************************************)
EXTENDS AssetMigration, DesignPlans, AlgorithmProofs

\* The object of row r is in the target store; the sample alone may be cleaned up.
Stored(r) ==
    r.action = "copied" =>
        r.key \in Keys /\ (r.key # Sample => targetObject(r.key) \in target)

\* Whatever the operator's result or the backfill in progress reports as copied is stored.
CopiedInv ==
    /\ \A k \in DOMAIN result : Stored(result[k])
    /\ \A k \in DOMAIN todo : Stored(todo[k])

\* The rows that the queries of an inventory have read.
RawInv ==
    /\ \A k \in DOMAIN raw.designs : raw.designs[k].id = 0
    /\ Len(raw.thumbs) <= 1 /\ Len(raw.fulls) <= 1

\* The cursor of a copy is zero while no copy is running.
CursorInv == pc # "copy" => done = 0

\* A mark names the bucket that the backfill is configured with.
MarkInv == \A k \in Keys : state[k] \in {None, stateBucket}

\* The inductive invariant.
IInv == TypeOK /\ RawInv /\ CursorInv /\ CopiedInv /\ MarkInv /\ MigratedMeansStored
        /\ ManifestNamesOneSnapshot

\* A copy is refused when no setting names a bucket for it.
BucketInv == pc = "copy" => targetBucket # None

\* The settings name buckets.
LEMMA BucketsTyped ==
    ASSUME env \in Deployments
    PROVE  targetBucket \in Buckets \cup {None} /\ stateBucket \in Buckets \cup {None}
<1>1. env \in [Settings -> Buckets \cup {None}] BY MigrationAssumption
<1>2. \A x \in Settings : env[x] \in Buckets \cup {None} BY <1>1
<1>3. /\ env["TARGET_OSS_BUCKET"] \in Buckets \cup {None}
      /\ env["K8S_SECRET_OSS_BUCKET"] \in Buckets \cup {None}
      /\ env["OSS_BUCKET"] \in Buckets \cup {None}
  BY <1>2 DEF Settings
<1> QED BY <1>3 DEF targetBucket, stateBucket, envValue

\* What is said of buckets depends on the environment alone.
LEMMA BucketsKept ==
    ASSUME env' = env
    PROVE  /\ targetBucket' = targetBucket /\ stateBucket' = stateBucket
           /\ \A k : targetObject(k)' = targetObject(k)
BY DEF targetBucket, stateBucket, targetObject, envValue

-----------------------------------------------------------------------------
(* Lemmas about the inventory. *)

\* An element of a concatenation is an element of one of the two sequences.
LEMMA ConcatElement ==
    ASSUME NEW S, NEW s \in Seq(S), NEW t \in Seq(S), NEW k \in DOMAIN (s \o t)
    PROVE  \/ \E j \in DOMAIN s : (s \o t)[k] = s[j]
           \/ \E j \in DOMAIN t : (s \o t)[k] = t[j]
<1>1. k \in 1..(Len(s) + Len(t)) OBVIOUS
<1>2. CASE k <= Len(s)
  <2>1. k \in DOMAIN s /\ (s \o t)[k] = s[k] BY <1>1, <1>2
  <2> QED BY <2>1
<1>3. CASE k > Len(s)
  <2>1. k - Len(s) \in DOMAIN t /\ (s \o t)[k] = t[k - Len(s)] BY <1>1, <1>3
  <2> QED BY <2>1
<1> QED BY <1>1, <1>2, <1>3

\* The sequence of rows left over has the type of the rows read.
LEMMA LatestTyped ==
    ASSUME TypeOK
    PROVE  latestMySQLSnapshotRows(raw) \in Seq(RawRow)
<1>1. raw.designs \in Seq(RawRow) /\ raw.thumbs \in Seq(RawRow) /\ raw.fulls \in Seq(RawRow)
  BY DEF TypeOK
<1>2. UnlessOlder(raw.thumbs, raw.fulls) \in Seq(RawRow) BY <1>1 DEF UnlessOlder
<1>3. UnlessOlder(raw.fulls, raw.thumbs) \in Seq(RawRow) BY <1>1 DEF UnlessOlder
<1> HIDE DEF RawRow
<1> QED BY <1>1, <1>2, <1>3 DEF latestMySQLSnapshotRows

\* Two rows left over that are of snapshots are of the same one.
LEMMA LatestIsOne ==
    ASSUME TypeOK, RawInv,
           NEW j \in DOMAIN latestMySQLSnapshotRows(raw),
           NEW k \in DOMAIN latestMySQLSnapshotRows(raw),
           latestMySQLSnapshotRows(raw)[j].id # 0, latestMySQLSnapshotRows(raw)[k].id # 0
    PROVE  latestMySQLSnapshotRows(raw)[j].id = latestMySQLSnapshotRows(raw)[k].id
<1> DEFINE d == raw.designs
           t == raw.thumbs
           f == raw.fulls
           tt == UnlessOlder(t, f)
           ff == UnlessOlder(f, t)
           Of(r) == \/ \E i \in DOMAIN d : r = d[i]
                    \/ tt # <<>> /\ tt = t /\ r = t[1]
                    \/ ff # <<>> /\ ff = f /\ r = f[1]
<1>1. d \in Seq(RawRow) /\ t \in Seq(RawRow) /\ f \in Seq(RawRow) BY DEF TypeOK
<1>2. /\ \A i \in DOMAIN d : d[i].id = 0
      /\ Len(t) <= 1 /\ Len(f) <= 1
  BY DEF RawInv
<1>3. (tt = <<>> \/ tt = t) /\ (ff = <<>> \/ ff = f) BY DEF UnlessOlder
<1>4. ASSUME NEW i \in DOMAIN latestMySQLSnapshotRows(raw)
      PROVE  Of(latestMySQLSnapshotRows(raw)[i])
  <2> HIDE DEF d, t, f, tt, ff
  <2>1. latestMySQLSnapshotRows(raw) = (d \o tt) \o ff
    BY DEF latestMySQLSnapshotRows, d, tt, ff, t, f
  <2>2. tt \in Seq(RawRow) /\ ff \in Seq(RawRow)
    <3>1. <<>> \in Seq(RawRow) OBVIOUS
    <3> QED BY <1>1, <1>3, <3>1
  <2>3. d \o tt \in Seq(RawRow) BY <1>1, <2>2
  <2> DEFINE r == latestMySQLSnapshotRows(raw)[i]
  <2>4. \/ \E m \in DOMAIN (d \o tt) : r = (d \o tt)[m]
        \/ \E m \in DOMAIN ff : r = ff[m]
    BY <2>1, <2>2, <2>3, ConcatElement
  <2> HIDE DEF r
  <2>5. CASE \E m \in DOMAIN ff : r = ff[m]
    <3>1. PICK m \in DOMAIN ff : r = ff[m] BY <2>5
    <3>2. ff = f /\ m = 1 BY <3>1, <2>2, <1>3, <1>2, <1>1
    <3> QED BY <3>1, <3>2 DEF r
  <2>6. CASE \E m \in DOMAIN (d \o tt) : r = (d \o tt)[m]
    <3>1. PICK m \in DOMAIN (d \o tt) : r = (d \o tt)[m] BY <2>6
    <3>2. \/ \E n \in DOMAIN d : r = d[n]
          \/ \E n \in DOMAIN tt : r = tt[n]
      BY <3>1, <1>1, <2>2, ConcatElement
    <3>3. CASE \E n \in DOMAIN tt : r = tt[n]
      <4>1. PICK n \in DOMAIN tt : r = tt[n] BY <3>3
      <4>2. tt = t /\ n = 1 BY <4>1, <2>2, <1>3, <1>2, <1>1
      <4> QED BY <4>1, <4>2 DEF r
    <3> QED BY <3>2, <3>3 DEF r
  <2> QED BY <2>4, <2>5, <2>6
<1>5. tt # <<>> /\ tt = t /\ ff # <<>> /\ ff = f => t[1].id = f[1].id
  <2>1. SUFFICES ASSUME tt # <<>>, tt = t, ff # <<>>, ff = f PROVE t[1].id = f[1].id
    OBVIOUS
  <2>2. ~(t[1].id < f[1].id) /\ ~(f[1].id < t[1].id) BY <2>1 DEF UnlessOlder
  <2>3. t[1] \in RawRow /\ f[1] \in RawRow BY <2>1, <1>1
  <2>4. t[1].id \in Nat /\ f[1].id \in Nat BY <2>3, MigrationAssumption DEF RawRow
  <2> HIDE DEF t, f
  <2> QED BY <2>2, <2>4
<1>6. Of(latestMySQLSnapshotRows(raw)[j]) /\ Of(latestMySQLSnapshotRows(raw)[k]) BY <1>4
<1> HIDE DEF d, t, f, tt, ff
<1> QED BY <1>2, <1>5, <1>6

\* A rank is a natural number.
LEMMA RankNat ==
    ASSUME NEW rows, NEW k \in Nat
    PROVE  RowRank(rows, k) \in Nat
<1> DEFINE same == {j \in 1..k : rows[j].key = rows[k].key}
<1>1. IsFiniteSet(1..k) BY FS_Interval
<1>2. IsFiniteSet(same) BY <1>1, FS_Subset
<1>3. Cardinality(same) \in Nat BY <1>2, FS_CardinalityType
<1> QED BY <1>3 DEF RowRank

\* The manifest has its type and names one snapshot.
LEMMA ManifestRight ==
    ASSUME TypeOK, RawInv
    PROVE  /\ buildMySQLAssetInventory(raw) \in Seq(ManifestRow)
           /\ \A j, k \in DOMAIN buildMySQLAssetInventory(raw) :
                LET m == buildMySQLAssetInventory(raw)
                IN  m[j].id # 0 /\ m[k].id # 0 => m[j].id = m[k].id
<1> DEFINE latest == latestMySQLSnapshotRows(raw)
           m == buildMySQLAssetInventory(raw)
<1>1. latest \in Seq(RawRow) BY LatestTyped
<1>2. /\ DOMAIN m = DOMAIN latest
      /\ m = [k \in DOMAIN latest |-> m[k]]
      /\ \A k \in DOMAIN latest :
           m[k] = [id |-> latest[k].id, key |-> latest[k].key,
                   status |-> IF latest[k].key = None THEN "skipped"
                              ELSE IF isMigratedMySQLAsset(latest[k].key) THEN "skipped" ELSE "pending",
                   rank |-> RowRank(latest, k)]
  BY DEF buildMySQLAssetInventory
<1>3. \A k \in DOMAIN latest : latest[k] \in RawRow /\ k \in Nat BY <1>1
<1>4. ASSUME NEW k \in DOMAIN latest PROVE m[k] \in ManifestRow
  <2>1. latest[k].id \in 0..MaxShots /\ latest[k].key \in Keys \cup {None}
    BY <1>3 DEF RawRow
  <2>2. RowRank(latest, k) \in Nat BY <1>3, RankNat
  <2> HIDE DEF latest, m
  <2> QED BY <1>2, <2>1, <2>2 DEF ManifestRow
<1>5. \A j, k \in DOMAIN latest : latest[j].id # 0 /\ latest[k].id # 0 => latest[j].id = latest[k].id
  BY LatestIsOne
<1> HIDE DEF latest, m
<1>6. m \in [1..Len(latest) -> ManifestRow] /\ Len(latest) \in Nat
  BY <1>1, <1>2, <1>4
<1>7. m \in Seq(ManifestRow) BY <1>6
<1>8. \A k \in DOMAIN latest : m[k].id = latest[k].id BY <1>2
<1> QED BY <1>2, <1>5, <1>7, <1>8 DEF m

\* What a query of the snapshots returns.
LEMMA QueryRight ==
    ASSUME TypeOK, NEW c \in {"thumb", "full"}
    PROVE  QuerySnapshots(c) \in Seq(RawRow) /\ Len(QuerySnapshots(c)) <= 1
<1>1. CASE shots = <<>> BY <1>1 DEF QuerySnapshots
<1>2. CASE shots # <<>>
  <2> DEFINE i == Len(shots)
  <2>1. i \in 1..MaxShots /\ shots[i] \in Forms
    BY <1>2, MigrationAssumption DEF TypeOK
  <2> HIDE DEF i
  <2>2. <<i, "full">> \in Keys /\ <<i, c>> \in Keys /\ Sample \in Keys BY <2>1 DEF Keys
  <2>3. LogicalKey(i, c) \in Keys \cup {None} BY <2>2 DEF LogicalKey
  <2>4. i \in 0..MaxShots BY <2>1, MigrationAssumption
  <2>5. [id |-> i, key |-> LogicalKey(i, c)] \in RawRow BY <2>3, <2>4 DEF RawRow
  <2> DEFINE r == [id |-> i, key |-> LogicalKey(i, c)]
  <2>6. QuerySnapshots(c) = <<r>> BY <1>2 DEF QuerySnapshots, i
  <2> HIDE DEF r
  <2>7. r \in RawRow BY <2>5 DEF r
  <2> QED BY <2>6, <2>7
<1> QED BY <1>1, <1>2

-----------------------------------------------------------------------------
(* Preservation of the invariant. *)

LEMMA InitIInv == Init => IInv
<1> SUFFICES ASSUME Init PROVE IInv OBVIOUS
<1>1. NoRows \in [designs : Seq(RawRow), thumbs : Seq(RawRow), fulls : Seq(RawRow)]
  BY DEF NoRows
<1>2. Design \in Keys BY DEF Keys
<1>3. TypeOK
  <2>1. imported \in BOOLEAN /\ paired \in BOOLEAN BY DEF Init
  <2>2. request \in [org : Orgs, apply : BOOLEAN] BY MigrationAssumption DEF Init
  <2>3. done \in 0..Len(manifest) /\ budget \in 0..MaxRows /\ started \in 0..MaxRequests
    BY MigrationAssumption DEF Init
  <2>4. shots \in Seq(Forms) /\ Len(shots) <= MaxShots BY MigrationAssumption DEF Init
  <2> QED BY <1>1, <1>2, <2>1, <2>2, <2>3, <2>4 DEF Init, TypeOK
<1>4. RawInv /\ CursorInv BY DEF Init, RawInv, NoRows, CursorInv
<1>5. CopiedInv BY DEF Init, CopiedInv
<1>6. MarkInv /\ MigratedMeansStored BY DEF Init, MarkInv, MigratedMeansStored
<1>7. ManifestNamesOneSnapshot BY DEF Init, ManifestNamesOneSnapshot
<1> QED BY <1>3, <1>4, <1>5, <1>6, <1>7 DEF IInv

\* Rows stay stored while nothing but the sample leaves the target store.
LEMMA StoredKept ==
    ASSUME NEW r, Stored(r), target \ {targetObject(Sample)} \subseteq target', env' = env
    PROVE  Stored(r)'
BY BucketsKept DEF Stored, targetObject

\* A step that leaves the papers and the marks alone keeps what they say.
LEMMA PapersKept ==
    ASSUME IInv, target \ {targetObject(Sample)} \subseteq target',
           UNCHANGED <<env, state, manifest, result, todo>>
    PROVE  CopiedInv' /\ MarkInv' /\ MigratedMeansStored' /\ ManifestNamesOneSnapshot'
<1>1. ASSUME NEW k \in DOMAIN result PROVE Stored(result[k])'
  <2>1. Stored(result[k]) BY DEF IInv, CopiedInv
  <2>2. result' = result OBVIOUS
  <2> QED BY <2>1, <2>2, StoredKept DEF Stored
<1>2. ASSUME NEW k \in DOMAIN todo PROVE Stored(todo[k])'
  <2>1. Stored(todo[k]) BY DEF IInv, CopiedInv
  <2>2. todo' = todo OBVIOUS
  <2> QED BY <2>1, <2>2, StoredKept DEF Stored
<1>3. CopiedInv' BY <1>1, <1>2 DEF CopiedInv
<1>4. MigratedMeansStored'
  <2>1. targetBucket' = targetBucket /\ stateBucket' = stateBucket BY BucketsKept
  <2>2. \A k \in Keys : k # Sample => /\ <<state[k], k>> # targetObject(Sample)
                                      /\ targetObject(k) # targetObject(Sample)
    BY DEF targetObject
  <2>3. ASSUME NEW k \in Keys \ {Sample}, state[k] # None
        PROVE  /\ targetObject(k) \in target'
               /\ stateBucket = targetBucket => <<state[k], k>> \in target'
    BY <2>2, <2>3 DEF IInv, MigratedMeansStored
  <2>4. \A k : targetObject(k)' = targetObject(k) BY BucketsKept
  <2> QED BY <2>1, <2>3, <2>4 DEF MigratedMeansStored
<1>5. ManifestNamesOneSnapshot' BY DEF IInv, ManifestNamesOneSnapshot
<1>6. MarkInv' BY BucketsKept DEF IInv, MarkInv
<1> QED BY <1>3, <1>4, <1>5, <1>6

\* The marks stay right while they and the target store stay as they are.
LEMMA MarksKept ==
    ASSUME IInv, UNCHANGED <<env, state, target>>
    PROVE  MarkInv' /\ MigratedMeansStored'
BY BucketsKept DEF IInv, MarkInv, MigratedMeansStored

\* The number of requests stays within its bound.
LEMMA StartedBound ==
    ASSUME TypeOK, Accept
    PROVE  started' \in 0..MaxRequests
<1>1. started \in 0..MaxRequests /\ started < MaxRequests /\ started' = started + 1
  BY DEF TypeOK, Accept
<1>2. started + 1 \in 0..MaxRequests BY <1>1, MigrationAssumption
<1> QED BY <1>1, <1>2

LEMMA InventoryIInv ==
    ASSUME IInv, StartInventory \/ QueryFullImages \/ FinishInventory
    PROVE  IInv'
<1> USE DEF IInv
<1>1. CASE StartInventory
  <2>1. QuerySnapshots("thumb") \in Seq(RawRow) /\ Len(QuerySnapshots("thumb")) <= 1
    BY QueryRight
  <2>2. [id |-> 0, key |-> Design] \in RawRow
    BY MigrationAssumption DEF RawRow, Keys
  <2> DEFINE q == QueryDesigns
  <2>3. q \in Seq(RawRow) /\ \A k \in DOMAIN q : q[k].id = 0
    <3>1. CASE imported
      <4> DEFINE r == [id |-> 0, key |-> Design]
      <4>1. r.id = 0 /\ q = <<r>> BY <3>1 DEF QueryDesigns
      <4>2. r \in RawRow BY <2>2
      <4> HIDE DEF r, q
      <4> QED BY <4>1, <4>2
    <3>2. CASE ~imported BY <3>2 DEF QueryDesigns
    <3> QED BY <3>1, <3>2
  <2> HIDE DEF q
  <2> DEFINE t == QuerySnapshots("thumb")
  <2>4. raw' = [designs |-> q, thumbs |-> t, fulls |-> <<>>] BY <1>1 DEF StartInventory, q
  <2>5. t \in Seq(RawRow) /\ Len(t) <= 1 BY <2>1
  <2> HIDE DEF t
  <2>6. raw' \in [designs : Seq(RawRow), thumbs : Seq(RawRow), fulls : Seq(RawRow)]
    BY <2>3, <2>4, <2>5
  <2>7. TypeOK'
    <3>1. started' \in 0..MaxRequests /\ pc' = "full"
      BY <1>1, StartedBound DEF StartInventory, TypeOK
    <3>2. imported' = imported /\ paired' = paired BY <1>1 DEF StartInventory, data, papers
    <3> QED BY <2>6, <3>1, <3>2, <1>1 DEF StartInventory, TypeOK, data, papers
  <2>8. RawInv' BY <2>3, <2>4, <2>5 DEF RawInv
  <2>9. CursorInv' BY <1>1 DEF StartInventory, Accept, CursorInv
  <2> QED BY <2>7, <2>8, <2>9, <1>1, PapersKept DEF StartInventory, data, papers
<1>2. CASE QueryFullImages
  <2> DEFINE q == QuerySnapshots("full")
  <2>1. q \in Seq(RawRow) /\ Len(q) <= 1 BY QueryRight
  <2>2. raw' = [raw EXCEPT !.fulls = q] BY <1>2 DEF QueryFullImages
  <2> HIDE DEF q
  <2>3. raw' \in [designs : Seq(RawRow), thumbs : Seq(RawRow), fulls : Seq(RawRow)]
    BY <2>1, <2>2 DEF TypeOK
  <2>4. raw'.designs = raw.designs /\ raw'.thumbs = raw.thumbs /\ raw'.fulls = q
    BY <2>2 DEF TypeOK
  <2>5. TypeOK' BY <2>3, <1>2 DEF QueryFullImages, TypeOK, data, papers
  <2>6. RawInv' BY <2>1, <2>4 DEF RawInv
  <2>7. CursorInv' BY <1>2 DEF QueryFullImages, CursorInv
  <2> QED BY <2>5, <2>6, <2>7, <1>2, PapersKept DEF QueryFullImages, data, papers
<1>3. CASE FinishInventory
  <2> DEFINE m == buildMySQLAssetInventory(raw)
  <2>1. /\ m \in Seq(ManifestRow)
        /\ \A j, k \in DOMAIN m : m[j].id # 0 /\ m[k].id # 0 => m[j].id = m[k].id
    BY ManifestRight
  <2>2. manifest' = m BY <1>3 DEF FinishInventory
  <2> HIDE DEF m
  <2>3. raw' \in [designs : Seq(RawRow), thumbs : Seq(RawRow), fulls : Seq(RawRow)]
    BY <1>3 DEF FinishInventory, NoRows
  <2>4. done' = 0 /\ Len(m) \in Nat BY <1>3, <2>1 DEF FinishInventory, CursorInv
  <2>5. TypeOK'
    <3>1. imported' \in BOOLEAN /\ paired' \in BOOLEAN BY <1>3 DEF FinishInventory, data, TypeOK
    <3>2. done' \in 0..Len(manifest') BY <2>2, <2>4
    <3>3. manifest' \in Seq(ManifestRow) BY <2>1, <2>2
    <3> QED BY <2>3, <3>1, <3>2, <3>3, <1>3 DEF FinishInventory, TypeOK, data
  <2>6. RawInv' BY <1>3 DEF FinishInventory, NoRows, RawInv
  <2>7. CursorInv' BY <2>4 DEF CursorInv
  <2>8. ManifestNamesOneSnapshot' BY <2>1, <2>2 DEF ManifestNamesOneSnapshot
  <2>9. CopiedInv' BY <1>3, BucketsKept DEF FinishInventory, data, CopiedInv, Stored
  <2>10. MarkInv' /\ MigratedMeansStored' BY <1>3, MarksKept DEF FinishInventory, data, IInv
  <2> QED BY <2>5, <2>6, <2>7, <2>8, <2>9, <2>10
<1> QED BY <1>1, <1>2, <1>3

LEMMA CopyEndsIInv ==
    ASSUME IInv, NEW org \in Orgs, NEW apply \in BOOLEAN, StartCopy(org, apply) \/ FinishCopy
    PROVE  IInv'
<1> USE DEF IInv
<1>1. CASE StartCopy(org, apply)
  <2>1. Len(manifest) \in Nat BY DEF TypeOK
  <2>2. TypeOK' BY <2>1, <1>1, MigrationAssumption DEF StartCopy, Accept, TypeOK, data
  <2>3. RawInv' BY <1>1 DEF StartCopy, RawInv
  <2>4. CursorInv' BY <1>1 DEF StartCopy, CursorInv
  <2>5. CopiedInv' BY <1>1, BucketsKept DEF StartCopy, data, CopiedInv, Stored
  <2>6. MarkInv' /\ MigratedMeansStored' BY <1>1, MarksKept DEF StartCopy, data, IInv
  <2>7. ManifestNamesOneSnapshot' BY <1>1 DEF StartCopy, ManifestNamesOneSnapshot
  <2> QED BY <2>2, <2>3, <2>4, <2>5, <2>6, <2>7
<1>2. CASE FinishCopy
  <2>1. Len(manifest) \in Nat BY DEF TypeOK
  <2>2. OwnOrg \in Orgs BY MigrationAssumption
  <2>3. TypeOK' BY <2>1, <2>2, <1>2, MigrationAssumption DEF FinishCopy, TypeOK, data, papers
  <2>4. RawInv' BY <1>2 DEF FinishCopy, RawInv
  <2>5. CursorInv' BY <1>2 DEF FinishCopy, CursorInv
  <2> QED BY <2>3, <2>4, <2>5, <1>2, PapersKept DEF FinishCopy, data, papers
<1> QED BY <1>1, <1>2

\* One row of the manifest: what is reported as copied was saved in this step.
LEMMA CopyRowIInv ==
    ASSUME IInv, BucketInv, CopyRow
    PROVE  IInv'
<1> USE DEF IInv, Reasons
<1> DEFINE row == manifest[done + 1]
<1>0. /\ manifest \in Seq(ManifestRow) /\ done \in 0..Len(manifest) /\ done < Len(manifest)
  BY DEF CopyRow, TypeOK
<1>1. row \in ManifestRow /\ done \in Nat /\ done + 1 \in 0..Len(manifest)
  <2> HIDE DEF IInv
  <2> QED BY <1>0
<1>2. row.key \in Keys \cup {None} BY <1>1 DEF ManifestRow
<1>3. /\ \/ SkipRow(row)
         \/ /\ budget < MaxRows /\ rowMatchesOptions /\ rowReady(row)
            /\ budget' = budget + 1
            /\ IF request.apply THEN copyOne(row)
               ELSE Report(row, "would_copy", "") /\ UNCHANGED target
      /\ UNCHANGED <<data, source, state, pc, started, raw, manifest, paired, request, todo, book>>
      /\ pc = "copy"
  BY DEF CopyRow
<1> HIDE DEF row
<1>4. \E a \in {"copied", "failed", "skipped", "would_copy"}, w \in Reasons :
        /\ Report(row, a, w)
        /\ target' = target \/ (row.key \in Keys /\ target' = target \cup {targetObject(row.key)})
        /\ a = "copied" => row.key \in Keys /\ targetObject(row.key) \in target'
        /\ budget' \in 0..MaxRows
  <2>0. budget \in 0..MaxRows /\ MaxRows \in Nat BY MigrationAssumption DEF TypeOK
  <2>1. CASE SkipRow(row)
    <3> DEFINE w == IF budget >= MaxRows THEN "max_rows_reached"
                    ELSE IF ~rowMatchesOptions THEN "filtered" ELSE "not_ready"
    <3>0. w \in Reasons BY DEF Reasons
    <3>1. Report(row, "skipped", w) BY <2>1 DEF SkipRow
    <3> HIDE DEF w
    <3>2. UNCHANGED <<target, budget>> BY <2>1 DEF SkipRow
    <3> WITNESS "skipped" \in {"copied", "failed", "skipped", "would_copy"}, w \in Reasons
    <3> QED BY <3>1, <3>2, <2>0
  <2>2. CASE /\ budget < MaxRows /\ rowMatchesOptions /\ rowReady(row)
             /\ budget' = budget + 1
             /\ IF request.apply THEN copyOne(row)
                ELSE Report(row, "would_copy", "") /\ UNCHANGED target
    <3>1. row.key \in Keys BY <2>2, <1>2 DEF rowReady
    <3>2. budget' \in 0..MaxRows
      <4>1. budget < MaxRows /\ budget' = budget + 1 BY <2>2
      <4>2. budget + 1 \in 0..MaxRows BY <2>0, <4>1
      <4> QED BY <4>1, <4>2
    <3>3. CASE request.apply
      <4>1. copyOne(row) BY <2>2, <3>3
      <4>2. CASE target' = target \cup {targetObject(row.key)} /\ Report(row, "copied", "")
        <5> WITNESS "copied" \in {"copied", "failed", "skipped", "would_copy"}, "" \in Reasons
        <5> QED BY <4>2, <3>1, <3>2
      <4>3. CASE Report(row, "failed", "")
                 /\ (target' = target \/ target' = target \cup {targetObject(row.key)})
        <5> WITNESS "failed" \in {"copied", "failed", "skipped", "would_copy"}, "" \in Reasons
        <5> QED BY <4>3, <3>1, <3>2
      <4> QED BY <4>1, <4>2, <4>3 DEF copyOne
    <3>4. CASE ~request.apply
      <4> WITNESS "would_copy" \in {"copied", "failed", "skipped", "would_copy"}, "" \in Reasons
      <4> QED BY <2>2, <3>4, <3>2
    <3> QED BY <3>3, <3>4
  <2> QED BY <1>3, <2>1, <2>2
<1>5. PICK a \in {"copied", "failed", "skipped", "would_copy"}, w \in Reasons :
        /\ Report(row, a, w)
        /\ target' = target \/ (row.key \in Keys /\ target' = target \cup {targetObject(row.key)})
        /\ a = "copied" => row.key \in Keys /\ targetObject(row.key) \in target'
        /\ budget' \in 0..MaxRows
  BY <1>4
<1>6. [key |-> row.key, action |-> a, why |-> w] \in ResultRow BY <1>2 DEF ResultRow
<1>7. PICK new \in ResultRow : /\ new.key = row.key /\ new.action = a
                              /\ result' = Append(result, new) /\ done' = done + 1
  BY <1>5, <1>6 DEF Report
<1>8. /\ result \in Seq(ResultRow) /\ result' \in Seq(ResultRow)
      /\ \A k \in DOMAIN result : k \in DOMAIN result' /\ result'[k] = result[k]
      /\ \A k \in DOMAIN result' : k \notin DOMAIN result => result'[k] = new
  <2>1. result \in Seq(ResultRow) BY DEF TypeOK
  <2>2. result' = Append(result, new) BY <1>7
  <2> HIDE DEF IInv, Reasons
  <2> QED BY <2>1, <2>2
<1>9. target' \subseteq Buckets \X Keys
  <2>1. target \subseteq Buckets \X Keys BY DEF TypeOK
  <2>2. row.key \in Keys => targetObject(row.key) \in Buckets \X Keys
    <3>1. targetBucket \in Buckets \cup {None}
      <4>1. env \in Deployments BY DEF TypeOK
      <4> QED BY <4>1, BucketsTyped
    <3>2. targetBucket # None BY <1>3 DEF BucketInv
    <3> HIDE DEF IInv, Reasons
    <3>3. targetBucket \in Buckets BY <3>1, <3>2
    <3> QED BY <3>3, Zenon DEF targetObject
  <2> HIDE DEF IInv, Reasons
  <2> QED BY <1>5, <2>1, <2>2
<1>10. TypeOK' BY <1>1, <1>3, <1>5, <1>7, <1>8, <1>9 DEF TypeOK, data
<1>11. RawInv' /\ CursorInv' BY <1>3 DEF RawInv, CursorInv
<1>12. target \subseteq target' /\ targetBucket' = targetBucket /\ stateBucket' = stateBucket
  BY <1>3, <1>5, BucketsKept DEF data
<1>13. CopiedInv'
  <2>1. ASSUME NEW k \in DOMAIN result' PROVE Stored(result[k])'
    <3>1. CASE k \in DOMAIN result
      <4>1. result'[k] = result[k] BY <3>1, <1>8
      <4>2. Stored(result[k]) BY <3>1 DEF CopiedInv
      <4> QED BY <4>1, <4>2, <1>12 DEF Stored, targetObject
    <3>2. CASE k \notin DOMAIN result
      <4>1. result'[k] = new BY <3>2, <1>8
      <4> QED BY <4>1, <1>5, <1>7, <1>12 DEF Stored, targetObject
    <3> QED BY <3>1, <3>2
  <2>2. ASSUME NEW k \in DOMAIN todo PROVE Stored(todo[k])'
    <3>1. Stored(todo[k]) /\ todo' = todo BY <1>3 DEF CopiedInv
    <3> QED BY <3>1, <1>12 DEF Stored, targetObject
  <2>3. todo' = todo BY <1>3
  <2> QED BY <2>1, <2>2, <2>3 DEF CopiedInv
<1>14. MarkInv' /\ MigratedMeansStored'
  <2>1. state' = state BY <1>3
  <2>2. \A k : targetObject(k)' = targetObject(k) BY <1>12 DEF targetObject
  <2>3. MarkInv' BY <2>1, <1>12 DEF MarkInv
  <2>4. MigratedMeansStored' BY <2>1, <2>2, <1>12 DEF MigratedMeansStored
  <2> QED BY <2>3, <2>4
<1>15. ManifestNamesOneSnapshot' BY <1>3 DEF ManifestNamesOneSnapshot
<1> QED BY <1>10, <1>11, <1>13, <1>14, <1>15

LEMMA BackfillIInv ==
    ASSUME IInv, NEW org \in Orgs, StartBackfill(org) \/ BackfillRow \/ FinishBackfill
    PROVE  IInv'
<1> USE DEF IInv
<1>1. CASE StartBackfill(org)
  <2>1. todo' \in Seq(ResultRow) BY <1>1 DEF StartBackfill, TypeOK
  <2>2. manifestByKey(manifest) \subseteq Keys
    <3>1. \A k \in DOMAIN manifest : manifest[k] \in ManifestRow BY DEF TypeOK
    <3>2. \A k \in DOMAIN manifest : manifest[k].key \in Keys \cup {None}
      BY <3>1 DEF ManifestRow
    <3> QED BY <3>2 DEF manifestByKey
  <2>3. TypeOK'
    <3>1. started' \in 0..MaxRequests BY <1>1, StartedBound DEF StartBackfill
    <3>2. imported' = imported /\ paired' = paired BY <1>1 DEF StartBackfill, data, papers
    <3> QED BY <2>1, <2>2, <3>1, <3>2, <1>1 DEF StartBackfill, TypeOK, data, papers
  <2>4. RawInv' /\ CursorInv' BY <1>1 DEF StartBackfill, Accept, RawInv, CursorInv
  <2>5. UNCHANGED <<target, state, manifest, result>> /\ (todo' = result \/ todo' = <<>>)
    BY <1>1 DEF StartBackfill, papers
  <2>6. env' = env BY <1>1 DEF StartBackfill, data
  <2>7. CopiedInv' BY <2>5, <2>6, BucketsKept DEF CopiedInv, Stored
  <2>8. MarkInv' /\ MigratedMeansStored' BY <2>5, <2>6, MarksKept DEF IInv
  <2>9. ManifestNamesOneSnapshot' BY <2>5 DEF ManifestNamesOneSnapshot
  <2> QED BY <2>3, <2>4, <2>7, <2>8, <2>9
<1>2. CASE BackfillRow
  <2> DEFINE row == todo[1]
  <2>1. /\ pc = "backfill" /\ todo # <<>>
        /\ row.action = "copied" => row.key \in book
        /\ todo' = Tail(todo)
        /\ state' = IF row.action = "copied"
                    THEN [state EXCEPT ![row.key] = stateBucket] ELSE state
        /\ UNCHANGED <<data, source, target, pc, started, raw, papers, request, done, budget, book>>
    <3>1. todo # <<>> /\ todo \in Seq(ResultRow) BY <1>2 DEF BackfillRow, TypeOK
    <3>2. Head(todo) = row BY <3>1
    <3> HIDE DEF row
    <3> QED BY <1>2, <3>2 DEF BackfillRow
  <2>2. 1 \in DOMAIN todo BY <2>1 DEF TypeOK
  <2>3. Stored(row) BY <2>2 DEF CopiedInv
  <2> HIDE DEF row
  <2>4. state' \in [Keys -> Buckets \cup {None}]
    <3>1. stateBucket \in Buckets \cup {None} BY BucketsTyped DEF TypeOK
    <3> QED BY <2>1, <3>1 DEF TypeOK
  <2>4a. targetBucket' = targetBucket /\ stateBucket' = stateBucket
    BY <2>1, BucketsKept DEF data
  <2>5. todo' \in Seq(ResultRow)
        /\ \A k \in DOMAIN todo' : k + 1 \in DOMAIN todo /\ todo'[k] = todo[k + 1]
    BY <2>1 DEF TypeOK
  <2>6. TypeOK' BY <2>1, <2>4, <2>5 DEF TypeOK, data, papers
  <2>7. RawInv' /\ CursorInv' BY <2>1 DEF RawInv, CursorInv
  <2>8. CopiedInv' BY <2>1, <2>4a, <2>5 DEF CopiedInv, Stored, targetObject, papers
  <2>9. ManifestNamesOneSnapshot' BY <2>1 DEF ManifestNamesOneSnapshot, papers
  <2>10. ASSUME NEW k \in Keys PROVE state'[k] \in {None, stateBucket}
    BY <2>1 DEF TypeOK, MarkInv
  <2>11. ASSUME NEW k \in Keys \ {Sample}, state'[k] # None
         PROVE  targetObject(k) \in target
    <3>1. CASE row.action = "copied" /\ k = row.key BY <3>1, <2>3 DEF Stored
    <3>2. CASE ~(row.action = "copied" /\ k = row.key)
      <4>1. state'[k] = state[k] BY <3>2, <2>1 DEF TypeOK
      <4> QED BY <4>1, <2>11 DEF MigratedMeansStored
    <3> QED BY <3>1, <3>2
  <2>12. MarkInv' BY <2>4a, <2>10 DEF MarkInv
  <2>13. MigratedMeansStored'
    <3>1. \A k : targetObject(k)' = targetObject(k) BY <2>4a DEF targetObject
    <3>2. target' = target BY <2>1
    <3>3. \A k \in Keys : stateBucket = targetBucket /\ state'[k] # None
                           => <<state'[k], k>> = targetObject(k)
      BY <2>10 DEF targetObject
    <3> QED BY <2>4a, <2>11, <3>1, <3>2, <3>3 DEF MigratedMeansStored
  <2> QED BY <2>6, <2>7, <2>8, <2>9, <2>12, <2>13
<1>3. CASE FinishBackfill
  <2>1. TypeOK' BY <1>3 DEF FinishBackfill, TypeOK, data, papers
  <2>2. RawInv' /\ CursorInv' BY <1>3 DEF FinishBackfill, RawInv, CursorInv
  <2> QED BY <2>1, <2>2, <1>3, PapersKept DEF FinishBackfill, data, papers
<1> QED BY <1>1, <1>2, <1>3

LEMMA AbortIInv ==
    ASSUME IInv, Abort
    PROVE  IInv'
<1> USE DEF IInv
<1>1. raw' \in [designs : Seq(RawRow), thumbs : Seq(RawRow), fulls : Seq(RawRow)]
  BY DEF Abort, NoRows
<1>2. OwnOrg \in Orgs /\ 0 \in 0..MaxRows BY MigrationAssumption
<1>3. done' \in 0..Len(manifest') BY DEF Abort, TypeOK
<1>4. TypeOK' BY <1>1, <1>2, <1>3 DEF Abort, TypeOK, data
<1>5. RawInv' /\ CursorInv' BY DEF Abort, RawInv, NoRows, CursorInv
<1>6. UNCHANGED <<target, state, manifest>> /\ todo' = <<>> /\ (result' = result \/ result' = <<>>)
  BY DEF Abort
<1>7. env' = env BY DEF Abort, data
<1>8. CopiedInv' BY <1>6, <1>7, BucketsKept DEF CopiedInv, Stored
<1>9. MarkInv' /\ MigratedMeansStored' BY <1>6, <1>7, MarksKept DEF IInv
<1>10. ManifestNamesOneSnapshot' BY <1>6 DEF ManifestNamesOneSnapshot
<1> QED BY <1>4, <1>5, <1>8, <1>9, <1>10

LEMMA OtherRoutesIInv ==
    ASSUME IInv, NEW apply \in BOOLEAN,
           CanaryImport(apply) \/ SeedSample \/ CleanupSourceSample \/ CleanupTargetSample
    PROVE  IInv'
<1> USE DEF IInv
<1>1. imported' \in BOOLEAN
  BY DEF CanaryImport, SeedSample, CleanupSourceSample, CleanupTargetSample, data, TypeOK
<1>2. Sample \in Keys BY DEF Keys
<1>3. source' \subseteq Keys
  BY <1>2 DEF CanaryImport, SeedSample, CleanupSourceSample, CleanupTargetSample, TypeOK
<1>4. /\ Accept
      /\ UNCHANGED <<env, authority, shots, state, pc, raw, manifest, result, paired, request, done,
                     budget, todo, book>>
      /\ target' \subseteq target /\ target \ {targetObject(Sample)} \subseteq target'
  BY DEF CanaryImport, SeedSample, CleanupSourceSample, CleanupTargetSample, StageSample,
         data, papers
<1>5. TypeOK'
  <2>1. started' \in 0..MaxRequests BY <1>4, StartedBound
  <2> QED BY <1>1, <1>3, <1>4, <2>1 DEF TypeOK
<1>6. RawInv' /\ CursorInv' BY <1>4 DEF RawInv, CursorInv
<1> QED BY <1>4, <1>5, <1>6, PapersKept

LEMMA TakeSnapshotIInv ==
    ASSUME IInv, NEW form \in Forms, TakeSnapshot(form)
    PROVE  IInv'
<1> USE DEF IInv
<1>1. shots' \in Seq(Forms) /\ Len(shots') <= MaxShots /\ Len(shots) + 1 \in 1..MaxShots
  BY MigrationAssumption DEF TakeSnapshot, TypeOK
<1>2. \A c \in {"thumb", "full"} : <<Len(shots) + 1, c>> \in Keys BY <1>1 DEF Keys
<1>3. source' \subseteq Keys BY <1>2 DEF TakeSnapshot, TypeOK
<1>4. UNCHANGED <<env, authority, imported, target, state, pc, started, raw, manifest, result, paired,
                  request, done, budget, todo, book>>
  BY DEF TakeSnapshot, papers
<1>5. TypeOK' BY <1>1, <1>3, <1>4 DEF TypeOK
<1>6. RawInv' /\ CursorInv' BY <1>4 DEF RawInv, CursorInv
<1> QED BY <1>4, <1>5, <1>6, PapersKept

-----------------------------------------------------------------------------
(* The theorems. *)

\* A copy runs only in a deployment that names a bucket for it.
THEOREM CopyHasBucket == Spec => []BucketInv
<1>1. Init => BucketInv BY DEF Init, BucketInv
<1>2. ASSUME BucketInv, [Next]_vars PROVE BucketInv'
  <2>1. env' = env
    BY <1>2 DEF Next, vars, data, papers, StartInventory, QueryFullImages, FinishInventory,
       StartCopy, CopyRow, FinishCopy, StartBackfill, BackfillRow, FinishBackfill, Abort,
       CanaryImport, SeedSample, CleanupSourceSample, CleanupTargetSample, TakeSnapshot, Rest
  <2>2. pc' = "copy" => pc = "copy" \/ targetBucket # None
    BY <1>2 DEF Next, vars, StartInventory, QueryFullImages, FinishInventory,
       StartCopy, CopyRow, FinishCopy, StartBackfill, BackfillRow, FinishBackfill, Abort,
       CanaryImport, SeedSample, CleanupSourceSample, CleanupTargetSample, TakeSnapshot, Rest
  <2>3. targetBucket' = targetBucket BY <2>1, BucketsKept
  <2> QED BY <1>2, <2>2, <2>3 DEF BucketInv
<1> QED BY <1>1, <1>2, PTL DEF Spec

\* The invariant holds of every behaviour of the operations routes.
THEOREM MigrationInductive == Spec => []IInv
<1>1. Init => IInv BY InitIInv
<1>2. ASSUME IInv, BucketInv, [Next]_vars PROVE IInv'
  <2>1. CASE StartInventory \/ QueryFullImages \/ FinishInventory BY <2>1, <1>2, InventoryIInv
  <2>2. CASE (\E org \in Orgs, apply \in BOOLEAN : StartCopy(org, apply))
    BY <2>2, <1>2, CopyEndsIInv
  <2>3. CASE CopyRow BY <2>3, <1>2, CopyRowIInv
  <2>4. CASE FinishCopy
    <3>1. OwnOrg \in Orgs /\ TRUE \in BOOLEAN BY MigrationAssumption
    <3> QED BY <2>4, <1>2, <3>1, CopyEndsIInv
  <2>5. CASE (\E org \in Orgs : StartBackfill(org)) BY <2>5, <1>2, BackfillIInv
  <2>6. CASE BackfillRow \/ FinishBackfill
    <3>1. OwnOrg \in Orgs BY MigrationAssumption
    <3> QED BY <2>6, <1>2, <3>1, BackfillIInv
  <2>7. CASE Abort BY <2>7, <1>2, AbortIInv
  <2>8. CASE (\E apply \in BOOLEAN : CanaryImport(apply)) BY <2>8, <1>2, OtherRoutesIInv
  <2>9. CASE SeedSample \/ CleanupSourceSample \/ CleanupTargetSample
    <3>1. TRUE \in BOOLEAN OBVIOUS
    <3> QED BY <2>9, <1>2, <3>1, OtherRoutesIInv
  <2>10. CASE (\E form \in Forms : TakeSnapshot(form)) BY <2>10, <1>2, TakeSnapshotIInv
  <2>11. CASE Rest \/ UNCHANGED vars
    <3>1. UNCHANGED vars BY <2>11 DEF Rest
    <3>2. TypeOK' BY <3>1, <1>2 DEF vars, IInv, TypeOK
    <3>3. RawInv' /\ CursorInv' BY <3>1, <1>2 DEF vars, IInv, RawInv, CursorInv
    <3> QED BY <3>1, <3>2, <3>3, <1>2, PapersKept DEF vars, IInv
  <2> QED BY <1>2, <2>1, <2>2, <2>3, <2>4, <2>5, <2>6, <2>7, <2>8, <2>9, <2>10, <2>11 DEF Next
<1> QED BY <1>1, <1>2, CopyHasBucket, PTL DEF Spec

\* An asset is marked as migrated only if its object is where copies go, and that is
\* the recorded bucket unless the settings disagree: for any settings, any budget
\* and any order of copies, backfills and clean-ups with old papers.
THEOREM MigratedStored == Spec => []MigratedMeansStored
<1>1. IInv => MigratedMeansStored BY DEF IInv
<1> QED BY <1>1, MigrationInductive, PTL

\* The rows of a manifest that are of snapshots are all of one snapshot of the
\* channel, whatever is recorded between the inventory's queries.
THEOREM ManifestOneSnapshot == Spec => []ManifestNamesOneSnapshot
<1>1. IInv => ManifestNamesOneSnapshot BY DEF IInv
<1> QED BY <1>1, MigrationInductive, PTL

-----------------------------------------------------------------------------
(* Design plans: stores and the files of their uploads.                    *)

PlanFields == {"op", "step", "arg", "i", "upload", "store", "calm", "answer",
               "areas", "exact", "similar"}

\* A request that has an upload of its own, which nobody has been told of yet.
IsUploading(x) == x.op = "upload" /\ x.step \in {"render", "stitch", "thumbnail", "save"}

\* What a request in flight may rely on: the files it has saved are there, what it
\* was sent names an upload that was answered with success, and the store whose
\* files it is about to drop is gone.
PlanRequest(x) ==
    /\ DOMAIN x = PlanFields
    /\ x.op = "upload" /\ x.step \in {"accept", "render", "stitch", "thumbnail"} => x.i = 1
    /\ IsUploading(x) => x.upload \in 1..lastUpload /\ x.upload \notin known
    /\ x.op = "upload" /\ x.step = "save" =>
           x.i \in 1..3 /\ \A k \in 1..3 : k < x.i => <<x.upload, Kinds[k]>> \in files
    /\ x.op \in {"create", "update"} /\ x.step \in {"name", "commit"} =>
           x.arg.upload \in known \cup {0}
    /\ x.op = "delete" /\ x.step \in {"drop", "files"} =>
           x.upload \in known \cup {0} /\ x.store \in StoreIds /\ x.store <= lastStore
    /\ x.op = "delete" /\ x.step = "files" => x.store \notin Live

PlanRequests ==
    /\ DOMAIN reqs = Procs
    /\ \A p \in Procs : PlanRequest(reqs[p])
    /\ \A p, q \in Procs : p # q /\ IsUploading(reqs[p]) /\ IsUploading(reqs[q]) =>
                               reqs[p].upload # reqs[q].upload

\* Ids are given out once; an upload that was answered with success keeps its files
\* until a store that named it is deleted, and such a store is gone for good.
PlanTables ==
    /\ lastStore \in Nat /\ lastUpload \in Nat
    /\ known \subseteq 1..lastUpload
    /\ DOMAIN stores = StoreIds
    /\ \A s \in Live : s <= lastStore /\ stores[s].upload \in known \cup {0}
    /\ \A u \in known : \/ FilesOf(u) \subseteq files
                        \/ \E t \in StoreIds : <<t, u>> \in dropped
    /\ dropped \subseteq StoreIds \X known
    /\ \A t \in StoreIds, u \in known : <<t, u>> \in dropped => t \notin Live /\ t <= lastStore

PlanInv == PlanRequests /\ PlanTables

LEMMA PlanFilesKept == PlanInv => StoreKeepsFiles
<1> SUFFICES ASSUME PlanInv, NEW s \in Live, stores[s].upload # 0
             PROVE  \/ FilesOf(stores[s].upload) \subseteq files
                    \/ \E t \in StoreIds \ {s} : <<t, stores[s].upload>> \in dropped
  BY DEF StoreKeepsFiles
<1>1. stores[s].upload \in known
  BY DEF PlanInv, PlanTables
<1>2. \A t \in StoreIds : <<t, stores[s].upload>> \in dropped => t # s
  BY <1>1 DEF PlanInv, PlanTables
<1> QED BY <1>1, <1>2 DEF PlanInv, PlanTables

LEMMA PlanIdle == PlanRequest(Idle)
BY DEF PlanRequest, Idle, PlanFields, IsUploading

LEMMA PlanInitial == PlansInit => PlanInv
<1> SUFFICES ASSUME PlansInit PROVE PlanInv
  OBVIOUS
<1>1. \A p \in Procs : reqs[p] = Idle
  BY DEF PlansInit
<1>2. PlanRequests
  BY <1>1, PlanIdle DEF PlansInit, PlanRequests, IsUploading, Idle
<1>3. PlanTables
  BY DEF PlansInit, PlanTables, Live
<1> QED BY <1>2, <1>3 DEF PlanInv

\* A step that changes its request only.
LEMMA PlanReads ==
    ASSUME PlanInv, UNCHANGED <<table, uploaded, dropped>>, NEW p \in Procs, NEW y, Set(p, y),
           PlanRequest(y),
           IsUploading(y) => IsUploading(reqs[p]) /\ y.upload = reqs[p].upload
    PROVE  PlanInv'
<1>1. /\ DOMAIN reqs' = Procs /\ reqs'[p] = y
      /\ \A q \in Procs \ {p} : reqs'[q] = reqs[q]
  BY DEF PlanInv, PlanRequests, Set
<1>2. \A x : PlanRequest(x) => PlanRequest(x)'
  BY DEF PlanRequest, table, uploaded, Live
<1>3. \A q \in Procs : PlanRequest(reqs[q])'
  <2> TAKE q \in Procs
  <2>1. PICK x : x = reqs'[q]
    OBVIOUS
  <2>2. PlanRequest(x)
    BY <1>1, <2>1 DEF PlanInv, PlanRequests
  <2>3. PlanRequest(x)'
    BY <1>2, <2>2
  <2> QED BY <2>1, <2>3 DEF PlanRequest, IsUploading
<1>4. \A q, r \in Procs : q # r /\ IsUploading(reqs'[q]) /\ IsUploading(reqs'[r]) =>
                               reqs'[q].upload # reqs'[r].upload
  BY <1>1 DEF PlanInv, PlanRequests
<1>5. PlanRequests'
  BY <1>1, <1>3, <1>4 DEF PlanRequests, IsUploading
<1>6. PlanTables'
  BY DEF PlanInv, PlanTables, table, uploaded, Live
<1> QED BY <1>5, <1>6 DEF PlanInv

\* A request that is answered relies on nothing.
LEMMA PlanAnswered ==
    ASSUME NEW x, DOMAIN x = PlanFields, NEW a
    PROVE  PlanRequest(Answered(x, a)) /\ ~IsUploading(Answered(x, a))
BY DEF PlanRequest, Answered, PlanFields, IsUploading

LEMMA PlanAt ==
    ASSUME NEW x, DOMAIN x = PlanFields, NEW s
    PROVE  /\ DOMAIN At(x, s) = PlanFields /\ At(x, s).step = s
           /\ \A k \in PlanFields \ {"step"} : At(x, s)[k] = x[k]
           /\ At(x, s).op = x.op /\ At(x, s).upload = x.upload /\ At(x, s).i = x.i
           /\ At(x, s).store = x.store /\ At(x, s).arg = x.arg
BY DEF At, PlanFields

\* The steps that begin a request and those that only read.
LEMMA PlanBegins ==
    ASSUME PlanInv, NEW p \in Procs, NEW y, PlanRequest(y), ~IsUploading(y), Begin(p, y)
    PROVE  PlanInv'
BY PlanReads DEF Begin

LEMMA PlanUploadReads ==
    ASSUME PlanInv, NEW p \in Procs,
           UploadPDF(p) \/ RenderPDF(p) \/ StitchPNGs(p) \/ CreateThumbnail(p)
    PROVE  PlanInv'
<1> DEFINE x == reqs[p]
<1>0. PlanRequest(x) /\ DOMAIN x = PlanFields
  BY DEF PlanInv, PlanRequests, PlanRequest
<1>1. ASSUME NEW y, Set(p, y), UNCHANGED <<table, uploaded, dropped>>,
             \/ \E a : y = Answered(x, a)
             \/ \E a : y = Answered([Idle EXCEPT !.op = "upload"], a)
             \/ y = At([Idle EXCEPT !.op = "upload"], "accept")
             \/ \E s \in {"stitch", "thumbnail", "save"} :
                    y = At(x, s) /\ x.op = "upload" /\ x.step \in {"render", "stitch", "thumbnail"}
      PROVE  PlanInv'
  <2> DEFINE n == [Idle EXCEPT !.op = "upload"]
  <2>0. DOMAIN n = PlanFields /\ n.op = "upload" /\ n.i = 1
    BY DEF Idle, PlanFields
  <2> HIDE DEF n
  <2>1. PlanRequest(y) /\ (IsUploading(y) => IsUploading(x) /\ y.upload = x.upload)
    <3>1. CASE \E a : y = Answered(x, a)
      BY <3>1, <1>0, PlanAnswered
    <3>2. CASE \E a : y = Answered(n, a)
      BY <3>2, <2>0, PlanAnswered
    <3>3. CASE y = At(n, "accept")
      BY <3>3, <2>0, PlanAt DEF PlanRequest, IsUploading
    <3>4. CASE \E s \in {"stitch", "thumbnail", "save"} :
                    y = At(x, s) /\ x.op = "upload" /\ x.step \in {"render", "stitch", "thumbnail"}
      <4>1. PICK s \in {"stitch", "thumbnail", "save"} : y = At(x, s)
        BY <3>4
      <4>2. x.op = "upload" /\ x.step \in {"render", "stitch", "thumbnail"}
        BY <3>4
      <4>3. DOMAIN y = PlanFields /\ y.op = "upload" /\ y.step = s /\ y.upload = x.upload /\ y.i = x.i
        BY <1>0, <4>1, <4>2, PlanAt
      <4>4. x.i = 1 /\ x.upload \in 1..lastUpload /\ x.upload \notin known
        BY <1>0, <4>2 DEF PlanRequest, IsUploading
      <4> QED BY <4>2, <4>3, <4>4 DEF PlanRequest, IsUploading
    <3> QED BY <1>1, <3>1, <3>2, <3>3, <3>4 DEF n
  <2> QED BY <1>1, <2>1, PlanReads
<1>2. UNCHANGED <<table, uploaded, dropped>>
  BY DEF UploadPDF, RenderPDF, StitchPNGs, CreateThumbnail, Reads
<1>3. CASE UploadPDF(p)
  BY <1>1, <1>2, <1>3 DEF UploadPDF
<1>4. CASE RenderPDF(p)
  BY <1>1, <1>2, <1>4 DEF RenderPDF, Serves
<1>5. CASE StitchPNGs(p)
  BY <1>1, <1>2, <1>5 DEF StitchPNGs, Serves
<1>6. CASE CreateThumbnail(p)
  BY <1>1, <1>2, <1>6 DEF CreateThumbnail, Serves
<1> QED BY <1>3, <1>4, <1>5, <1>6

LEMMA PlanRecognition ==
    ASSUME PlanInv, NEW p \in Procs,
           \/ RecognizeUpload(p) \/ ReadImageBytes(p)
           \/ CallResponsesAPI(p) \/ CallChatCompletionsAPI(p) \/ CallMiniMax(p)
    PROVE  PlanInv'
<1> DEFINE x == reqs[p]
<1>0. DOMAIN x = PlanFields
  BY DEF PlanInv, PlanRequests, PlanRequest
<1>1. ASSUME NEW y, DOMAIN y = PlanFields, y.op = "recognize"
      PROVE  PlanRequest(y) /\ ~IsUploading(y)
  BY <1>1 DEF PlanRequest, IsUploading
<1>2. CASE RecognizeUpload(p)
  <2>1. PICK u \in Uploads :
          LET req == [Idle EXCEPT !.op = "recognize", !.upload = u]
          IN  Begin(p, IF FindUpload(u) THEN At(req, "image") ELSE Answered(req, "not_found"))
    BY <1>2 DEF RecognizeUpload
  <2> DEFINE n == [Idle EXCEPT !.op = "recognize", !.upload = u]
  <2>2. DOMAIN n = PlanFields /\ n.op = "recognize"
    BY DEF Idle, PlanFields
  <2> HIDE DEF n
  <2>3. /\ PlanRequest(At(n, "image")) /\ ~IsUploading(At(n, "image"))
        /\ PlanRequest(Answered(n, "not_found")) /\ ~IsUploading(Answered(n, "not_found"))
    BY <1>1, <2>2, PlanAt, PlanAnswered
  <2>4. Begin(p, IF FindUpload(u) THEN At(n, "image") ELSE Answered(n, "not_found"))
    BY <2>1 DEF n
  <2>5. CASE FindUpload(u)
    <3>1. Begin(p, At(n, "image"))
      BY <2>4, <2>5
    <3> QED BY <2>3, <3>1, PlanBegins
  <2>6. CASE ~FindUpload(u)
    <3>1. Begin(p, Answered(n, "not_found"))
      BY <2>4, <2>6
    <3> QED BY <2>3, <3>1, PlanBegins
  <2> QED BY <2>5, <2>6
<1>3. CASE ReadImageBytes(p)
  <2>1. x.op = "recognize" /\ UNCHANGED <<table, uploaded, dropped>>
    BY <1>3 DEF ReadImageBytes, Serves, Reads
  <2>2. \/ \E a : Set(p, Answered(x, a))
        \/ Set(p, At(x, "call"))
    BY <1>3 DEF ReadImageBytes
  <2>3. PlanRequest(At(x, "call")) /\ ~IsUploading(At(x, "call"))
    BY <1>0, <1>1, <2>1, PlanAt
  <2>4. \A a : PlanRequest(Answered(x, a)) /\ ~IsUploading(Answered(x, a))
    BY <1>0, PlanAnswered
  <2> HIDE DEF x
  <2> QED BY <2>1, <2>2, <2>3, <2>4, PlanReads
<1>4. ASSUME UNCHANGED <<table, uploaded, dropped>>, x.op = "recognize",
             \/ Set(p, Answered(reqs[p], "error"))
             \/ \E out \in Outputs :
                  \/ Set(p, [Answered(reqs[p], "ok") EXCEPT !.areas = ToRecognitionResult(out)])
                  \/ Set(p, Answered(reqs[p], "error"))
      PROVE  PlanInv'
  <2>1. PlanRequest(Answered(x, "error")) /\ ~IsUploading(Answered(x, "error"))
    BY <1>0, PlanAnswered
  <2>2. ASSUME NEW out \in Outputs
        PROVE  LET y == [Answered(x, "ok") EXCEPT !.areas = ToRecognitionResult(out)]
               IN  PlanRequest(y) /\ ~IsUploading(y)
    <3>1. PICK r : r = ToRecognitionResult(out)
      OBVIOUS
    <3> DEFINE y == [Answered(x, "ok") EXCEPT !.areas = r]
    <3>2. DOMAIN y = PlanFields /\ y.op = "recognize"
      BY <1>0, <1>4 DEF Answered, PlanFields
    <3> HIDE DEF y
    <3>3. PlanRequest(y) /\ ~IsUploading(y)
      BY <1>1, <3>2
    <3> QED BY <3>1, <3>3 DEF y
  <2>3. CASE Set(p, Answered(x, "error"))
    BY <1>4, <2>1, <2>3, PlanReads
  <2>4. CASE \E out \in Outputs : Set(p, [Answered(reqs[p], "ok") EXCEPT !.areas = ToRecognitionResult(out)])
    <3>1. PICK out \in Outputs : Set(p, [Answered(reqs[p], "ok") EXCEPT !.areas = ToRecognitionResult(out)])
      BY <2>4
    <3>2. PICK y : y = [Answered(reqs[p], "ok") EXCEPT !.areas = ToRecognitionResult(out)]
      OBVIOUS
    <3>3. PlanRequest(y) /\ ~IsUploading(y) /\ Set(p, y)
      BY <2>2, <3>1, <3>2
    <3> QED BY <1>4, <3>3, PlanReads
  <2> QED BY <1>4, <2>3, <2>4
<1>5. CASE CallResponsesAPI(p) \/ CallChatCompletionsAPI(p) \/ CallMiniMax(p)
  <2>1. x.op = "recognize" /\ UNCHANGED <<table, uploaded, dropped>>
    BY <1>5 DEF CallResponsesAPI, CallChatCompletionsAPI, CallMiniMax, Called, Serves, Reads
  <2>2. \/ Set(p, Answered(reqs[p], "error"))
        \/ \E out \in Outputs :
             \/ Set(p, [Answered(reqs[p], "ok") EXCEPT !.areas = ToRecognitionResult(out)])
             \/ Set(p, Answered(reqs[p], "error"))
    BY <1>5 DEF CallResponsesAPI, CallChatCompletionsAPI, CallMiniMax, Called
  <2> QED BY <1>4, <2>1, <2>2
<1> QED BY <1>2, <1>3, <1>5

LEMMA PlanStoreReads ==
    ASSUME PlanInv, NEW p \in Procs,
           \/ CreateStore(p) \/ UpdateStore(p) \/ EnsureNoExactDuplicate(p) \/ DeleteStore(p)
           \/ ServeStoreImage(p) \/ OpenStored(p) \/ CheckDuplicate(p)
    PROVE  PlanInv'
<1> DEFINE x == reqs[p]
<1>0. PlanRequest(x) /\ DOMAIN x = PlanFields
  BY DEF PlanInv, PlanRequests, PlanRequest
<1>1. ASSUME NEW n, DOMAIN n = PlanFields, NEW in, in.upload \in known \cup {0}, n.arg = in,
             n.op \in {"create", "update"}, Begin(p, Checked(in, n))
      PROVE  PlanInv'
  <2>1. CASE ValidStoreInput(in)
    <3>1. Begin(p, At(n, "name"))
      BY <1>1, <2>1 DEF Checked
    <3>2. PlanRequest(At(n, "name")) /\ ~IsUploading(At(n, "name"))
      BY <1>1, PlanAt DEF PlanRequest, IsUploading
    <3> QED BY <3>1, <3>2, PlanBegins
  <2>2. CASE ~ValidStoreInput(in)
    <3>1. Begin(p, Answered(n, "invalid"))
      BY <1>1, <2>2 DEF Checked
    <3> QED BY <1>1, <3>1, PlanAnswered, PlanBegins
  <2> QED BY <2>1, <2>2
<1>2. \A in \in Sent(p) : in.upload \in known \cup {0}
  BY DEF Sent
<1>3. CASE CreateStore(p)
  <2>1. PICK in \in Sent(p) : Begin(p, Checked(in, [Idle EXCEPT !.op = "create", !.arg = in]))
    BY <1>3 DEF CreateStore
  <2>2. PICK n : n = [Idle EXCEPT !.op = "create", !.arg = in]
    OBVIOUS
  <2>3. DOMAIN n = PlanFields /\ n.op = "create" /\ n.arg = in
    BY <2>2 DEF Idle, PlanFields
  <2>4. Begin(p, Checked(in, n))
    BY <2>1, <2>2
  <2> QED BY <1>1, <1>2, <2>3, <2>4
<1>4. CASE UpdateStore(p)
  <2>1. PICK in \in Sent(p), s \in StoreIds :
            Begin(p, Checked(in, [Idle EXCEPT !.op = "update", !.arg = in, !.store = s]))
    BY <1>4 DEF UpdateStore
  <2>2. PICK n : n = [Idle EXCEPT !.op = "update", !.arg = in, !.store = s]
    OBVIOUS
  <2>3. DOMAIN n = PlanFields /\ n.op = "update" /\ n.arg = in
    BY <2>2 DEF Idle, PlanFields
  <2>4. Begin(p, Checked(in, n))
    BY <2>1, <2>2
  <2> QED BY <1>1, <1>2, <2>3, <2>4
<1>5. CASE EnsureNoExactDuplicate(p)
  <2>1. x.op \in {"create", "update"} /\ x.step = "name" /\ UNCHANGED <<table, uploaded, dropped>>
    BY <1>5 DEF EnsureNoExactDuplicate, Reads
  <2>2. Set(p, At(x, "commit")) \/ Set(p, Answered(x, "invalid"))
    BY <1>5 DEF EnsureNoExactDuplicate
  <2>3. PlanRequest(At(x, "commit")) /\ ~IsUploading(At(x, "commit"))
    BY <1>0, <2>1, PlanAt DEF PlanRequest, IsUploading
  <2>4. PlanRequest(Answered(x, "invalid")) /\ ~IsUploading(Answered(x, "invalid"))
    BY <1>0, PlanAnswered
  <2> QED BY <2>1, <2>2, <2>3, <2>4, PlanReads
<1>6. CASE DeleteStore(p)
  <2>1. PICK s \in StoreIds :
          LET req == [Idle EXCEPT !.op = "delete", !.store = s]
          IN  Begin(p, IF s \in Live
                       THEN [req EXCEPT !.step = "drop", !.upload = stores[s].upload]
                       ELSE Answered(req, "not_found"))
    BY <1>6, Zenon DEF DeleteStore
  <2>2. PICK n : n = [Idle EXCEPT !.op = "delete", !.store = s]
    OBVIOUS
  <2>3. DOMAIN n = PlanFields /\ n.op = "delete" /\ n.store = s
    BY <2>2 DEF Idle, PlanFields
  <2>4. Begin(p, IF s \in Live THEN [n EXCEPT !.step = "drop", !.upload = stores[s].upload]
                 ELSE Answered(n, "not_found"))
    BY <2>1, <2>2
  <2>5. CASE s \in Live
    <3>1. PICK u : u = stores[s].upload
      OBVIOUS
    <3>2. u \in known \cup {0} /\ s <= lastStore
      BY <2>5, <3>1 DEF PlanInv, PlanTables
    <3>3. PICK y : y = [n EXCEPT !.step = "drop", !.upload = u]
      OBVIOUS
    <3>4. /\ DOMAIN y = PlanFields /\ y.op = "delete" /\ y.step = "drop"
          /\ y.upload = u /\ y.store = s
      BY <2>3, <3>3 DEF PlanFields
    <3>5. PlanRequest(y) /\ ~IsUploading(y)
      BY <3>2, <3>4 DEF PlanRequest, IsUploading
    <3>6. Begin(p, y)
      BY <2>4, <2>5, <3>1, <3>3
    <3> QED BY <3>5, <3>6, PlanBegins
  <2>6. CASE s \notin Live
    <3>1. Begin(p, Answered(n, "not_found"))
      BY <2>4, <2>6
    <3> QED BY <2>3, <3>1, PlanAnswered, PlanBegins
  <2> QED BY <2>5, <2>6
<1>7. CASE ServeStoreImage(p)
  <2>1. PICK s \in StoreIds :
          LET req == [Idle EXCEPT !.op = "image", !.store = s]
          IN  Begin(p, IF s \in Live THEN [req EXCEPT !.step = "open", !.upload = stores[s].upload]
                       ELSE Answered(req, "not_found"))
    BY <1>7, Zenon DEF ServeStoreImage
  <2>2. PICK n : n = [Idle EXCEPT !.op = "image", !.store = s]
    OBVIOUS
  <2>3. DOMAIN n = PlanFields /\ n.op = "image"
    BY <2>2 DEF Idle, PlanFields
  <2>4. PICK y : y = IF s \in Live THEN [n EXCEPT !.step = "open", !.upload = stores[s].upload]
                     ELSE Answered(n, "not_found")
    OBVIOUS
  <2>5. Begin(p, y)
    BY <2>1, <2>2, <2>4
  <2>6. CASE s \in Live
    <3>1. DOMAIN y = PlanFields /\ y.op = "image"
      BY <2>3, <2>4, <2>6 DEF PlanFields
    <3> QED BY <2>5, <3>1, PlanBegins DEF PlanRequest, IsUploading
  <2>7. CASE s \notin Live
    BY <2>3, <2>4, <2>5, <2>7, PlanAnswered, PlanBegins
  <2> QED BY <2>6, <2>7
<1>8. CASE OpenStored(p)
  <2>1. UNCHANGED <<table, uploaded, dropped>> /\ \E a : Set(p, Answered(x, a))
    BY <1>8 DEF OpenStored, Reads
  <2>2. \A a : PlanRequest(Answered(x, a)) /\ ~IsUploading(Answered(x, a))
    BY <1>0, PlanAnswered
  <2> HIDE DEF x
  <2> QED BY <2>1, <2>2, PlanReads
<1>9. CASE CheckDuplicate(p)
  <2>1. PICK name \in Names, exclude \in {0} \cup StoreIds :
          LET req == [Idle EXCEPT !.op = "check", !.arg.name = name, !.store = exclude]
          IN  IF name = << >> THEN Begin(p, Answered(req, "invalid"))
              ELSE \E exact \in ExactMatch(name, exclude) :
                      Begin(p, [Answered(req, "ok") EXCEPT
                                   !.exact = exact, !.similar = SimilarMatches(name, exclude)])
    BY <1>9, Zenon DEF CheckDuplicate
  <2>2. PICK n : n = [Idle EXCEPT !.op = "check", !.arg.name = name, !.store = exclude]
    OBVIOUS
  <2>3. DOMAIN n = PlanFields /\ n.op = "check"
    BY <2>2 DEF Idle, PlanFields
  <2>a. PICK e, m : IF name = << >> THEN Begin(p, Answered(n, "invalid"))
                    ELSE Begin(p, [Answered(n, "ok") EXCEPT !.exact = e, !.similar = m])
    BY <2>1, <2>2
  <2>4. PICK y : y = IF name = << >> THEN Answered(n, "invalid")
                     ELSE [Answered(n, "ok") EXCEPT !.exact = e, !.similar = m]
    OBVIOUS
  <2>5. Begin(p, y)
    BY <2>4, <2>a
  <2>6. DOMAIN y = PlanFields /\ y.op = "check"
    BY <2>3, <2>4 DEF PlanFields, Answered
  <2> QED BY <2>5, <2>6, PlanBegins DEF PlanRequest, IsUploading
<1> QED BY <1>3, <1>4, <1>5, <1>6, <1>7, <1>8, <1>9

\* A step that writes: the other requests are told that they are not alone any more.
LEMMA PlanCalm ==
    ASSUME NEW x, PlanRequest(x)
    PROVE  LET y == [x EXCEPT !.calm = FALSE]
           IN  /\ PlanRequest(y) /\ (IsUploading(y) <=> IsUploading(x))
               /\ y.upload = x.upload
BY DEF PlanRequest, PlanFields, IsUploading

LEMMA PlanWrites ==
    ASSUME PlanInv, NEW p \in Procs, NEW y, Set(p, y) \/ SetWriting(p, y), PlanRequest(y)',
           \A q \in Procs \ {p} : \A x :
               /\ PlanRequest(x) /\ (IsUploading(x) <=> IsUploading(reqs[q]))
               /\ x.upload = reqs[q].upload
               => PlanRequest(x)',
           IsUploading(y) => \A q \in Procs \ {p} : IsUploading(reqs[q]) => reqs[q].upload # y.upload
    PROVE  PlanRequests'
<1>1. DOMAIN reqs' = Procs /\ reqs'[p] = y
  BY DEF PlanInv, PlanRequests, Set, SetWriting
<1>2. ASSUME NEW q \in Procs \ {p}
      PROVE  /\ PlanRequest(reqs'[q]) /\ (IsUploading(reqs'[q]) <=> IsUploading(reqs[q]))
             /\ reqs'[q].upload = reqs[q].upload
  <2>1. PlanRequest(reqs[q])
    BY DEF PlanInv, PlanRequests
  <2>2. reqs'[q] = reqs[q] \/ reqs'[q] = [reqs[q] EXCEPT !.calm = FALSE]
    BY DEF PlanInv, PlanRequests, Set, SetWriting
  <2> QED BY <2>1, <2>2, PlanCalm
<1>3. \A q \in Procs : PlanRequest(reqs[q])'
  <2> TAKE q \in Procs
  <2>1. PICK x : x = reqs'[q]
    OBVIOUS
  <2>2. PlanRequest(x)'
    BY <1>1, <1>2, <2>1
  <2> QED BY <2>1, <2>2 DEF PlanRequest, IsUploading
<1>4. ASSUME NEW q \in Procs, NEW r \in Procs, q # r, IsUploading(reqs'[q]), IsUploading(reqs'[r])
      PROVE  reqs'[q].upload # reqs'[r].upload
  <2>1. CASE q = p
    BY <1>1, <1>2, <1>4, <2>1
  <2>2. CASE r = p
    BY <1>1, <1>2, <1>4, <2>2
  <2>3. CASE q # p /\ r # p
    BY <1>2, <1>4, <2>3 DEF PlanInv, PlanRequests
  <2> QED BY <2>1, <2>2, <2>3
<1> QED BY <1>1, <1>3, <1>4 DEF PlanRequests, IsUploading

LEMMA PlanAccepts ==
    ASSUME PlanInv, NEW p \in Procs, AcceptPDF(p)
    PROVE  PlanInv'
<1>0. /\ PlanRequest(reqs[p]) /\ DOMAIN reqs[p] = PlanFields
      /\ reqs[p].op = "upload" /\ reqs[p].step = "accept" /\ reqs[p].i = 1
      /\ UNCHANGED <<table, files, known, dropped>>
  BY DEF PlanInv, PlanRequests, PlanRequest, AcceptPDF, Serves
<1>1. CASE /\ Set(p, Answered(reqs[p], "invalid"))
           /\ UNCHANGED <<local, lastUpload>>
  BY <1>0, <1>1, PlanAnswered, PlanReads DEF uploaded
<1>2. CASE /\ lastUpload' = lastUpload + 1
           /\ \/ Set(p, Answered(reqs[p], "error"))
              \/ Set(p, [At(reqs[p], "render") EXCEPT !.upload = lastUpload'])
  <2>1. lastUpload \in Nat /\ lastUpload' = lastUpload + 1 /\ known \subseteq 1..lastUpload
    BY <1>2 DEF PlanInv, PlanTables
  <2>2. \A x : PlanRequest(x) => PlanRequest(x)'
    BY <1>0, <2>1 DEF PlanRequest, table, Live
  <2>3. PICK y : Set(p, y) /\ (\/ y = Answered(reqs[p], "error")
                               \/ y = [At(reqs[p], "render") EXCEPT !.upload = lastUpload'])
    BY <1>2
  <2>4. PlanRequest(y)' /\ (IsUploading(y) => y.upload = lastUpload + 1)
    <3>1. CASE y = Answered(reqs[p], "error")
      BY <1>0, <2>2, <3>1, PlanAnswered
    <3>2. CASE y = [At(reqs[p], "render") EXCEPT !.upload = lastUpload']
      <4>1. /\ DOMAIN y = PlanFields /\ y.op = "upload" /\ y.step = "render" /\ y.i = 1
            /\ y.upload = lastUpload + 1
        BY <1>0, <2>1, <3>2 DEF At, PlanFields
      <4> QED BY <1>0, <2>1, <4>1 DEF PlanRequest, IsUploading
    <3> QED BY <2>3, <3>1, <3>2
  <2>5. IsUploading(y) => \A q \in Procs \ {p} : IsUploading(reqs[q]) => reqs[q].upload # y.upload
    <3>1. \A q \in Procs : IsUploading(reqs[q]) => reqs[q].upload \in 1..lastUpload
      BY DEF PlanInv, PlanRequests, PlanRequest
    <3> QED BY <2>1, <2>4, <3>1
  <2>6. PlanRequests'
    BY <2>2, <2>3, <2>4, <2>5, PlanWrites
  <2>7. /\ UNCHANGED <<stores, lastStore, files, known, dropped>> /\ Live' = Live
        /\ lastUpload' \in Nat /\ known' \subseteq 1..lastUpload'
    BY <1>0, <2>1 DEF table, Live
  <2>8. PlanTables'
    BY <2>7 DEF PlanInv, PlanTables
  <2> QED BY <2>6, <2>8 DEF PlanInv
<1> QED BY <1>1, <1>2 DEF AcceptPDF

LEMMA PlanSaves ==
    ASSUME PlanInv, NEW p \in Procs, SaveFile(p)
    PROVE  PlanInv'
<1>0. /\ PlanRequest(reqs[p]) /\ DOMAIN reqs[p] = PlanFields
      /\ reqs[p].op = "upload" /\ reqs[p].step = "save"
      /\ UNCHANGED <<table, local, lastUpload, dropped>>
  BY DEF PlanInv, PlanRequests, PlanRequest, SaveFile, Serves
<1>1. PICK u, i : u = reqs[p].upload /\ i = reqs[p].i
  OBVIOUS
<1>2. /\ i \in 1..3 /\ \A k \in 1..3 : k < i => <<u, Kinds[k]>> \in files
      /\ u \in 1..lastUpload /\ u \notin known
  BY <1>0, <1>1 DEF PlanRequest, IsUploading
<1>3. CASE Set(p, Answered(reqs[p], "error")) /\ UNCHANGED <<files, known>>
  BY <1>0, <1>3, PlanAnswered, PlanReads DEF uploaded
<1>4. CASE /\ files' = files \cup {<<u, Kinds[i]>>}
           /\ IF i = 3
              THEN known' = known \cup {u} /\ Set(p, Answered(reqs[p], "created"))
              ELSE Set(p, [reqs[p] EXCEPT !.i = @ + 1]) /\ UNCHANGED known
  <2>1. known \subseteq known' /\ known' \subseteq known \cup {u} /\ files \subseteq files'
    BY <1>4
  <2>2. \A q \in Procs \ {p} : IsUploading(reqs[q]) => reqs[q].upload # u
    BY <1>0, <1>1 DEF PlanInv, PlanRequests, IsUploading
  <2>3. ASSUME NEW q \in Procs \ {p}, NEW x,
               /\ PlanRequest(x) /\ (IsUploading(x) <=> IsUploading(reqs[q]))
               /\ x.upload = reqs[q].upload
        PROVE  PlanRequest(x)'
    <3>1. IsUploading(x) => x.upload # u
      BY <2>2, <2>3
    <3> QED BY <1>0, <2>1, <2>3, <3>1 DEF PlanRequest, IsUploading, table, Live
  <2>4. PICK y : Set(p, y) /\ y = IF i = 3 THEN Answered(reqs[p], "created")
                                  ELSE [reqs[p] EXCEPT !.i = @ + 1]
    BY <1>4
  <2>5. CASE i = 3
    <3>1. PlanRequest(y) /\ ~IsUploading(y) /\ y.op = "upload" /\ y.step = "done"
      BY <1>0, <2>4, <2>5, PlanAnswered DEF Answered, PlanFields
    <3>2. PlanRequest(y)'
      BY <3>1 DEF PlanRequest, IsUploading
    <3>3. PlanRequests'
      BY <2>3, <2>4, <3>1, <3>2, PlanWrites
    <3>4. FilesOf(u) \subseteq files'
      BY <1>2, <1>4, <2>5 DEF FilesOf
    <3>5. known' = known \cup {u}
      BY <1>4, <2>5
    <3>6. /\ dropped \subseteq StoreIds \X known'
          /\ \A t \in StoreIds : <<t, u>> \notin dropped
      BY <1>2, <3>5 DEF PlanInv, PlanTables
    <3>7. PlanTables'
      BY <1>0, <1>2, <2>1, <3>4, <3>5, <3>6 DEF PlanInv, PlanTables, table, Live
    <3> QED BY <3>3, <3>7 DEF PlanInv
  <2>6. CASE i # 3
    <3>1. /\ DOMAIN y = PlanFields /\ y.op = "upload" /\ y.step = "save" /\ y.upload = u
          /\ y.i = i + 1
      BY <1>0, <1>1, <2>4, <2>6 DEF PlanFields
    <3>2. known' = known /\ \A k \in 1..3 : k < i + 1 => <<u, Kinds[k]>> \in files'
      BY <1>2, <1>4, <2>6
    <3>3. PlanRequest(y)'
      BY <1>0, <1>2, <2>6, <3>1, <3>2 DEF PlanRequest, IsUploading
    <3>4. PlanRequests'
      BY <2>2, <2>3, <2>4, <3>1, <3>3, PlanWrites
    <3>5. PlanTables'
      BY <1>0, <2>1, <3>2 DEF PlanInv, PlanTables, table, Live
    <3> QED BY <3>4, <3>5 DEF PlanInv
  <2> QED BY <2>5, <2>6
<1> QED BY <1>1, <1>3, <1>4 DEF SaveFile

LEMMA PlanCommits ==
    ASSUME PlanInv, NEW p \in Procs, CommitCreate(p) \/ CommitUpdate(p)
    PROVE  PlanInv'
<1>0. /\ PlanRequest(reqs[p]) /\ DOMAIN reqs[p] = PlanFields
      /\ reqs[p].op \in {"create", "update"} /\ reqs[p].step = "commit"
      /\ UNCHANGED <<uploaded, dropped>>
  BY DEF PlanInv, PlanRequests, PlanRequest, CommitCreate, CommitUpdate, Serves
<1>1. PICK row : row = StoreFromInput(reqs[p].arg)
  OBVIOUS
<1>2. row.upload \in known \cup {0}
  BY <1>0, <1>1 DEF PlanRequest, StoreFromInput
<1>3. ASSUME NEW a, NEW s \in Nat,
             SetWriting(p, Answered(reqs[p], a)), stores' = [stores EXCEPT ![s] = row],
             \/ s = lastStore + 1 /\ lastStore' = s
             \/ s \in Live /\ lastStore' = lastStore
      PROVE  PlanInv'
  <2>0. lastStore \in Nat /\ lastStore' \in Nat /\ lastStore <= lastStore' /\ s <= lastStore'
    BY <1>3 DEF PlanInv, PlanTables
  <2>1. /\ DOMAIN stores' = StoreIds /\ Live' \subseteq Live \cup {s}
        /\ \A t \in StoreIds : t # s => stores'[t] = stores[t]
        /\ s \in StoreIds => stores'[s] = row
    BY <1>3 DEF PlanInv, PlanTables, Live
  <2>2. \A t \in StoreIds : t <= lastStore /\ t \notin Live => t \notin Live'
    BY <1>3, <2>0, <2>1
  <2>3. ASSUME NEW x, PlanRequest(x) PROVE PlanRequest(x)'
    BY <1>0, <2>0, <2>2, <2>3 DEF PlanRequest, uploaded, StoreIds
  <2>4. PICK y : y = Answered(reqs[p], a)
    OBVIOUS
  <2>5. PlanRequest(y)' /\ ~IsUploading(y)
    BY <1>0, <2>3, <2>4, PlanAnswered
  <2>6. PlanRequests'
    BY <1>3, <2>3, <2>4, <2>5, PlanWrites
  <2>7. ASSUME NEW t \in Live' PROVE t <= lastStore' /\ stores'[t].upload \in known' \cup {0}
    <3>1. t \in StoreIds
      BY DEF Live
    <3>2. CASE t = s
      BY <1>0, <1>2, <2>0, <2>1, <3>1, <3>2 DEF uploaded
    <3>3. CASE t # s
      <4>1. t \in Live /\ stores'[t] = stores[t] /\ t \in Nat
        BY <2>1, <3>1, <3>3 DEF StoreIds
      <4> QED BY <1>0, <2>0, <4>1 DEF uploaded, PlanInv, PlanTables
    <3> QED BY <3>2, <3>3
  <2>8. ASSUME NEW t \in StoreIds, NEW u \in known', <<t, u>> \in dropped'
        PROVE  t \notin Live' /\ t <= lastStore'
    <3>1. u \in known /\ <<t, u>> \in dropped /\ t \in Nat
      BY <1>0, <2>8 DEF uploaded, StoreIds
    <3>2. t \notin Live /\ t <= lastStore
      BY <3>1 DEF PlanInv, PlanTables
    <3> QED BY <2>0, <2>2, <3>1, <3>2
  <2>9. PlanTables'
    BY <1>0, <2>0, <2>1, <2>7, <2>8 DEF PlanInv, PlanTables, uploaded
  <2> QED BY <2>6, <2>9 DEF PlanInv
<1>4. CASE CommitCreate(p)
  <2>1. lastStore \in Nat
    BY DEF PlanInv, PlanTables
  <2>2. /\ lastStore' = lastStore + 1 /\ stores' = [stores EXCEPT ![lastStore + 1] = row]
        /\ SetWriting(p, Answered(reqs[p], "created"))
    BY <1>1, <1>4 DEF CommitCreate
  <2>3. PICK s \in Nat : s = lastStore + 1
    BY <2>1
  <2>4. lastStore' = s /\ stores' = [stores EXCEPT ![s] = row]
    BY <2>2, <2>3
  <2> QED BY <1>3, <2>2, <2>3, <2>4
<1>5. CASE CommitUpdate(p)
  <2>1. CASE reqs[p].store \in Live
    <3>1. /\ lastStore' = lastStore /\ stores' = [stores EXCEPT ![reqs[p].store] = row]
          /\ SetWriting(p, Answered(reqs[p], "ok"))
      BY <1>1, <1>5, <2>1 DEF CommitUpdate
    <3>2. reqs[p].store \in Nat
      BY <2>1 DEF Live, StoreIds
    <3> QED BY <1>3, <2>1, <3>1, <3>2
  <2>2. CASE reqs[p].store \notin Live
    <3>1. Set(p, Answered(reqs[p], "not_found")) /\ UNCHANGED <<stores, logs, lastStore>>
      BY <1>5, <2>2 DEF CommitUpdate
    <3> QED BY <1>0, <3>1, PlanAnswered, PlanReads DEF table
  <2> QED BY <2>1, <2>2
<1> QED BY <1>4, <1>5

LEMMA PlanDrops ==
    ASSUME PlanInv, NEW p \in Procs, DropStore(p)
    PROVE  PlanInv'
<1>0. /\ PlanRequest(reqs[p]) /\ DOMAIN reqs[p] = PlanFields
      /\ reqs[p].op = "delete" /\ reqs[p].step = "drop"
      /\ UNCHANGED <<lastStore, uploaded, dropped>>
  BY DEF PlanInv, PlanRequests, PlanRequest, DropStore, Serves
<1>1. PICK s : s = reqs[p].store
  OBVIOUS
<1>2. CASE s \in Live
  <2>1. stores' = [stores EXCEPT ![s] = Missing] /\ SetWriting(p, At(reqs[p], "files"))
    BY <1>1, <1>2 DEF DropStore
  <2>2. /\ DOMAIN stores' = StoreIds /\ Live' \subseteq Live /\ s \notin Live'
        /\ \A t \in Live' : stores'[t] = stores[t]
    BY <2>1 DEF PlanInv, PlanTables, Live
  <2>3. ASSUME NEW x, PlanRequest(x) PROVE PlanRequest(x)'
    BY <1>0, <2>2, <2>3 DEF PlanRequest, uploaded
  <2>4. PICK y : y = At(reqs[p], "files")
    OBVIOUS
  <2>5. /\ DOMAIN y = PlanFields /\ y.op = "delete" /\ y.step = "files" /\ y.store = s
        /\ y.upload = reqs[p].upload
    BY <1>0, <1>1, <2>4, PlanAt
  <2>6. y.upload \in known \cup {0} /\ s \in StoreIds /\ s <= lastStore
    BY <1>0, <1>1, <2>5 DEF PlanRequest
  <2>7. PlanRequest(y)' /\ ~IsUploading(y)
    BY <1>0, <2>2, <2>5, <2>6 DEF PlanRequest, IsUploading, uploaded
  <2>8. PlanRequests'
    BY <2>1, <2>3, <2>4, <2>7, PlanWrites
  <2>9. PlanTables'
    BY <1>0, <2>2 DEF PlanInv, PlanTables, uploaded
  <2> QED BY <2>8, <2>9 DEF PlanInv
<1>3. CASE s \notin Live
  <2>1. Set(p, Answered(reqs[p], "not_found")) /\ UNCHANGED <<stores, logs>>
    BY <1>1, <1>3 DEF DropStore
  <2> QED BY <1>0, <2>1, PlanAnswered, PlanReads DEF table
<1> QED BY <1>2, <1>3

LEMMA PlanDeletesFiles ==
    ASSUME PlanInv, NEW p \in Procs, DeleteStoredFiles(p)
    PROVE  PlanInv'
<1>0. /\ PlanRequest(reqs[p]) /\ DOMAIN reqs[p] = PlanFields
      /\ reqs[p].op = "delete" /\ reqs[p].step = "files"
      /\ UNCHANGED <<table, lastUpload, known>>
      /\ Set(p, Answered(reqs[p], "no_content"))
  BY DEF PlanInv, PlanRequests, PlanRequest, DeleteStoredFiles, Serves
<1>1. PICK u, s : u = reqs[p].upload /\ s = reqs[p].store
  OBVIOUS
<1>2. u \in known \cup {0} /\ s \in StoreIds /\ s <= lastStore /\ s \notin Live
  BY <1>0, <1>1 DEF PlanRequest
<1>3. CASE u = 0
  <2>1. UNCHANGED <<files, local, dropped>>
    BY <1>1, <1>3 DEF DeleteStoredFiles
  <2> QED BY <1>0, <2>1, PlanAnswered, PlanReads DEF uploaded
<1>4. CASE u # 0
  <2>1. dropped' = dropped \cup {<<s, u>>} /\ files \ FilesOf(u) \subseteq files'
    BY <1>1, <1>4 DEF DeleteStoredFiles
  <2>2. u \in known
    BY <1>2, <1>4
  <2>3. \A v, k : v # u /\ <<v, k>> \in files => <<v, k>> \in files'
    BY <2>1 DEF FilesOf
  <2>4. ASSUME NEW x, PlanRequest(x) PROVE PlanRequest(x)'
    <3>1. IsUploading(x) => x.upload # u
      BY <2>2, <2>4 DEF PlanRequest
    <3> QED BY <1>0, <2>3, <2>4, <3>1 DEF PlanRequest, IsUploading, table, Live
  <2>5. PICK y : y = Answered(reqs[p], "no_content")
    OBVIOUS
  <2>6. PlanRequest(y)' /\ ~IsUploading(y)
    BY <1>0, <2>4, <2>5, PlanAnswered
  <2>7. PlanRequests'
    BY <1>0, <2>4, <2>5, <2>6, PlanWrites
  <2>8. ASSUME NEW v \in known
        PROVE  FilesOf(v) \subseteq files' \/ \E t \in StoreIds : <<t, v>> \in dropped'
    <3>1. CASE v = u
      BY <1>2, <2>1, <3>1
    <3>2. CASE v # u
      BY <2>1, <2>3, <3>2 DEF PlanInv, PlanTables, FilesOf
    <3> QED BY <3>1, <3>2
  <2>9. /\ UNCHANGED <<stores, lastStore, lastUpload, known>> /\ Live' = Live
        /\ dropped' \subseteq StoreIds \X known
    BY <1>0, <1>2, <2>1, <2>2 DEF table, Live, PlanInv, PlanTables
  <2>10. \A t \in StoreIds, v \in known : <<t, v>> \in dropped' => t \notin Live /\ t <= lastStore
    BY <1>2, <2>1 DEF PlanInv, PlanTables
  <2>11. PlanTables'
    BY <2>8, <2>9, <2>10 DEF PlanInv, PlanTables
  <2> QED BY <2>7, <2>11 DEF PlanInv
<1> QED BY <1>3, <1>4

\* The inductive invariant of the design plans: which uploads have their files, and
\* what a request under way relies on.
THEOREM PlansInductive == PlansSpec => []PlanInv
<1>1. PlanInv /\ [PlansNext]_planVars => PlanInv'
  <2> SUFFICES ASSUME PlanInv, [PlansNext]_planVars PROVE PlanInv'
    OBVIOUS
  <2>1. CASE UNCHANGED planVars
    BY <2>1 DEF PlanInv, PlanRequests, PlanTables, PlanRequest, IsUploading, Live, planVars
  <2>2. ASSUME NEW p \in Procs, Step(p) PROVE PlanInv'
    BY <2>2, PlanUploadReads, PlanRecognition, PlanStoreReads, PlanAccepts, PlanSaves,
       PlanCommits, PlanDrops, PlanDeletesFiles DEF Step
  <2> QED BY <2>1, <2>2 DEF PlansNext
<1> QED BY <1>1, PlanInitial, PTL DEF PlansSpec

\* A store whose upload was answered with success has its three files unless the
\* deletion of another store that named the same upload took them (DeleteStore reads,
\* drops the store and then the files it named), for any number of requests at a time.
THEOREM FilesKept == PlansSpec => []StoreKeepsFiles
BY PlansInductive, PlanFilesKept, PTL

-----------------------------------------------------------------------------
(* Design plans: the duplicate report. *)

\* What one edit of a name is, as OneEdit writes it and element by element.
LEMMA RemovedAt ==
    ASSUME NEW S, NEW s \in Seq(S), NEW p \in 1..Len(s)
    PROVE  RemoveAt(s, p) \in Seq(S) /\ Removed(s, Len(s), RemoveAt(s, p), Len(RemoveAt(s, p)), p)
<1> DEFINE u == SubSeq(s, 1, p - 1)
           v == SubSeq(s, p + 1, Len(s))
<1>1. u \in Seq(S) /\ Len(u) = p - 1 /\ \A i \in 1..(p - 1) : u[i] = s[i]
  OBVIOUS
<1>2. v \in Seq(S) /\ Len(v) = Len(s) - p /\ \A i \in 1..(Len(s) - p) : v[i] = s[p + i]
  BY Slice
<1> HIDE DEF u, v
<1>3. u \o v \in Seq(S) /\ Len(u \o v) = Len(s) - 1
  BY <1>1, <1>2
<1>4. ASSUME NEW i \in 1..(Len(s) - 1) PROVE (u \o v)[i] = IF i < p THEN s[i] ELSE s[i + 1]
  <2>1. CASE i < p
    BY <1>1, <1>2, <2>1
  <2>2. CASE ~(i < p)
    <3>1. PICK k \in 1..(Len(s) - p) : k = i - (p - 1) /\ p + k = i + 1
      <4>1. i - (p - 1) \in 1..(Len(s) - p) /\ p + (i - (p - 1)) = i + 1
        BY <2>2
      <4> QED BY <4>1
    <3>2. (u \o v)[i] = v[k]
      BY <1>1, <1>2, <2>2, <3>1
    <3>3. v[k] = s[i + 1]
      BY <1>2, <3>1
    <3> QED BY <2>2, <3>2, <3>3
  <2> QED BY <2>1, <2>2
<1>5. RemoveAt(s, p) = u \o v
  BY DEF RemoveAt, u, v
<1>6. PICK z : z = RemoveAt(s, p) /\ z = u \o v
  BY <1>5
<1>7. Len(z) = Len(s) - 1 /\ Len(s) \in Nat /\ z \in Seq(S)
  BY <1>3, <1>6
<1>8. Len(s) = Len(z) + 1 /\ \A i \in 1..Len(z) : z[i] = IF i < p THEN s[i] ELSE s[i + 1]
  <2>1. Len(s) = Len(z) + 1 /\ 1..Len(z) = 1..(Len(s) - 1)
    BY <1>7
  <2> QED BY <1>4, <1>6, <2>1, Zenon
<1>9. Removed(s, Len(s), z, Len(z), p)
  BY <1>8 DEF Removed
<1> QED BY <1>6, <1>7, <1>9

LEMMA InsertedAt ==
    ASSUME NEW S, NEW s \in Seq(S), NEW p \in 1..(Len(s) + 1), NEW e \in S
    PROVE  /\ InsertAt(s, p, e) \in Seq(S) /\ InsertAt(s, p, e)[p] = e
           /\ Removed(InsertAt(s, p, e), Len(InsertAt(s, p, e)), s, Len(s), p)
<1> DEFINE u == SubSeq(s, 1, p - 1)
           v == SubSeq(s, p, Len(s))
           w == u \o <<e>>
<1>1. u \in Seq(S) /\ Len(u) = p - 1 /\ \A i \in 1..(p - 1) : u[i] = s[i]
  OBVIOUS
<1>2. v \in Seq(S) /\ Len(v) = Len(s) - p + 1 /\ \A i \in 1..(Len(s) - p + 1) : v[i] = s[p - 1 + i]
  OBVIOUS
<1> HIDE DEF u, v
<1>3. w \in Seq(S) /\ Len(w) = p /\ w[p] = e /\ \A i \in 1..(p - 1) : w[i] = s[i]
  BY <1>1
<1> HIDE DEF w
<1>4. w \o v \in Seq(S) /\ Len(w \o v) = Len(s) + 1 /\ (w \o v)[p] = e
  BY <1>2, <1>3
<1>5. ASSUME NEW i \in 1..Len(s) PROVE s[i] = IF i < p THEN (w \o v)[i] ELSE (w \o v)[i + 1]
  <2>1. CASE i < p
    <3>1. i \in 1..(p - 1) /\ i \in 1..Len(w) /\ i \in 1..Len(w \o v)
      BY <1>3, <1>4, <2>1
    <3>2. (w \o v)[i] = w[i]
      BY <1>2, <1>3, <3>1
    <3> QED BY <1>3, <2>1, <3>1, <3>2
  <2>2. CASE ~(i < p)
    <3>1. PICK k \in 1..(Len(s) - p + 1) : k = (i + 1) - p /\ p - 1 + k = i
      <4>1. (i + 1) - p \in 1..(Len(s) - p + 1) /\ p - 1 + ((i + 1) - p) = i
        BY <2>2
      <4> QED BY <4>1
    <3>2. (w \o v)[i + 1] = v[k]
      <4>1. Len(w) = p /\ i + 1 = p + k /\ k \in 1..Len(v) /\ w \in Seq(S) /\ v \in Seq(S)
        BY <1>2, <1>3, <3>1
      <4>2. (w \o v)[Len(w) + k] = v[k]
        BY <4>1
      <4> QED BY <4>1, <4>2
    <3>3. v[k] = s[i]
      BY <1>2, <3>1
    <3> QED BY <2>2, <3>2, <3>3
  <2> QED BY <2>1, <2>2
<1>6. InsertAt(s, p, e) = w \o v
  BY DEF InsertAt, u, v, w
<1> QED BY <1>4, <1>5, <1>6 DEF Removed

LEMMA ReplacedAt ==
    ASSUME NEW S, NEW s \in Seq(S), NEW p \in 1..Len(s), NEW e \in S
    PROVE  /\ ReplaceAt(s, p, e) \in Seq(S) /\ ReplaceAt(s, p, e)[p] = e
           /\ Replaced(s, Len(s), ReplaceAt(s, p, e), Len(ReplaceAt(s, p, e)), p)
BY DEF ReplaceAt, Replaced

LEMMA EditIsEdited ==
    ASSUME NEW s \in Seq(Alphabet), NEW z \in OneEdit(s)
    PROVE  z \in Seq(Alphabet) /\ Edited(s, Len(s), z, Len(z))
<1>1. DOMAIN s = 1..Len(s) /\ Len(s) \in Nat
  OBVIOUS
<1>2. CASE \E p \in 1..Len(s) : z = RemoveAt(s, p)
  BY <1>2, RemovedAt DEF Edited
<1>3. CASE \E p \in 1..Len(s), e \in Alphabet : z = ReplaceAt(s, p, e)
  BY <1>3, ReplacedAt DEF Edited
<1>4. CASE \E p \in 1..(Len(s) + 1), e \in Alphabet : z = InsertAt(s, p, e)
  BY <1>4, InsertedAt DEF Edited
<1> QED BY <1>1, <1>2, <1>3, <1>4 DEF OneEdit

LEMMA EditedIsEdit ==
    ASSUME NEW s \in Seq(Alphabet), NEW z \in Seq(Alphabet), Edited(s, Len(s), z, Len(z)), z # s
    PROVE  z \in OneEdit(s)
<1>1. DOMAIN s = 1..Len(s) /\ Len(s) \in Nat /\ Len(z) \in Nat
  OBVIOUS
<1>2. ~(Len(s) = Len(z) /\ Agree(s, z, Len(s)))
  BY DEF Agree
<1>3. ASSUME NEW p \in Nat, Removed(s, Len(s), z, Len(z), p) PROVE z \in OneEdit(s)
  <2>1. p \in 1..Len(s)
    BY <1>3 DEF Removed
  <2>2. /\ RemoveAt(s, p) \in Seq(Alphabet)
        /\ Removed(s, Len(s), RemoveAt(s, p), Len(RemoveAt(s, p)), p)
    BY <2>1, RemovedAt
  <2>3. PICK w \in Seq(Alphabet) : w = RemoveAt(s, p) /\ Removed(s, Len(s), w, Len(w), p)
    BY <2>2
  <2>4. Len(w) = Len(z) /\ \A i \in 1..Len(z) : w[i] = z[i]
    BY <1>3, <2>3 DEF Removed
  <2>5. z = w
    BY <2>4
  <2> QED BY <1>1, <2>1, <2>3, <2>5 DEF OneEdit
<1>4. ASSUME NEW p \in Nat, Replaced(s, Len(s), z, Len(z), p) PROVE z \in OneEdit(s)
  <2>1. p \in 1..Len(s) /\ z[p] \in Alphabet
    BY <1>4 DEF Replaced
  <2>2. PICK w \in Seq(Alphabet) : /\ w = ReplaceAt(s, p, z[p]) /\ w[p] = z[p]
                                   /\ Replaced(s, Len(s), w, Len(w), p)
    BY <2>1, ReplacedAt
  <2>3. Len(w) = Len(z) /\ \A i \in 1..Len(z) : w[i] = z[i]
    BY <1>4, <2>2 DEF Replaced
  <2>4. z = w
    BY <2>3
  <2> QED BY <1>1, <2>1, <2>2, <2>4 DEF OneEdit
<1>5. ASSUME NEW p \in Nat, Removed(z, Len(z), s, Len(s), p) PROVE z \in OneEdit(s)
  <2>1. p \in 1..(Len(s) + 1) /\ z[p] \in Alphabet /\ Len(z) = Len(s) + 1
    BY <1>5 DEF Removed
  <2>2. PICK w \in Seq(Alphabet) : /\ w = InsertAt(s, p, z[p]) /\ w[p] = z[p]
                                   /\ Removed(w, Len(w), s, Len(s), p)
    BY <2>1, InsertedAt
  <2>3. Len(w) = Len(z)
    BY <2>1, <2>2 DEF Removed
  <2>4. ASSUME NEW i \in 1..Len(z) PROVE w[i] = z[i]
    <3>1. CASE i < p
      <4>1. i \in 1..Len(s) /\ s[i] = w[i] /\ s[i] = z[i]
        BY <1>5, <2>1, <2>2, <3>1 DEF Removed
      <4> QED BY <4>1
    <3>2. CASE i = p
      BY <2>2, <3>2
    <3>3. CASE i > p
      <4>1. PICK k \in 1..Len(s) : k + 1 = i /\ k >= p /\ ~(k < p)
        <5>1. i - 1 \in 1..Len(s) /\ (i - 1) + 1 = i /\ i - 1 >= p /\ ~(i - 1 < p)
          BY <2>1, <3>3
        <5> QED BY <5>1
      <4>2. s[k] = w[k + 1] /\ s[k] = z[k + 1]
        BY <1>5, <2>2, <4>1 DEF Removed
      <4> QED BY <4>1, <4>2
    <3> QED BY <2>1, <3>1, <3>2, <3>3
  <2>5. z = w
    BY <2>3, <2>4
  <2> QED BY <2>1, <2>2, <2>5 DEF OneEdit
<1> QED BY <1>2, <1>3, <1>4, <1>5 DEF Edited

\* The distance of the code is two at most where two edits lead.
LEMMA DistanceRight ==
    ASSUME NEW x \in Seq(Alphabet), NEW y \in Seq(Alphabet), x # y
    PROVE  LevenshteinDistance(x, y) <= 2
             <=> y \in OneEdit(x) \/ \E z \in OneEdit(x) : y \in OneEdit(z)
<1>0. Len(x) \in Nat /\ Len(y) \in Nat
  OBVIOUS
<1>1. ASSUME LevenshteinDistance(x, y) <= 2
      PROVE  y \in OneEdit(x) \/ \E z \in OneEdit(x) : y \in OneEdit(z)
  <2>1. PICK g : Grid(g, x, Len(x), y, Len(y)) /\ LevenshteinDistance(x, y) = g[Len(x)][Len(y)]
    BY <1>0, DistanceGrid
  <2>2. (\A m \in 1..Len(x) : x[m] \in Alphabet) /\ (\A m \in 1..Len(y) : y[m] \in Alphabet)
    OBVIOUS
  <2>3. Len(x) \in 0..Len(x) /\ Len(y) \in 0..Len(y)
    BY <1>0
  <2>4. \A i \in 0..Len(x), j \in 0..Len(y) :
            g[i][j] <= 2 => \E w, c : Between(x, i, y, j, w, c, Alphabet)
    BY <1>0, <2>1, <2>2, TwoDistance
  <2>5. PICK w, c : Between(x, Len(x), y, Len(y), w, c, Alphabet)
    BY <1>1, <2>1, <2>3, <2>4
  <2> DEFINE z == [m \in 1..c |-> w[m]]
  <2>6. c \in Nat /\ Edited(x, Len(x), w, c) /\ Edited(w, c, y, Len(y))
    BY <2>5 DEF Between
  <2>7. z \in Seq(Alphabet) /\ Len(z) = c /\ Agree(w, z, c)
    BY <2>5 DEF Between, Agree
  <2> HIDE DEF z
  <2>8. Edited(x, Len(x), z, c) /\ Edited(z, c, y, Len(y))
    <3>1. Agree(x, x, Len(x)) /\ Agree(y, y, Len(y))
      BY DEF Agree
    <3> QED BY <1>0, <2>6, <2>7, <3>1, EditedAlike
  <2>9. CASE z = x
    BY <2>7, <2>8, <2>9, EditedIsEdit
  <2>10. CASE z = y
    BY <2>7, <2>8, <2>10, EditedIsEdit
  <2>11. CASE z # x /\ z # y
    BY <2>7, <2>8, <2>11, EditedIsEdit
  <2> QED BY <2>9, <2>10, <2>11
<1>2. ASSUME y \in OneEdit(x) PROVE LevenshteinDistance(x, y) <= 2
  <2>1. Edited(x, Len(x), y, Len(y)) /\ Edited(y, Len(y), y, Len(y))
    BY <1>2, EditIsEdited DEF Edited, Agree
  <2> QED BY <1>0, <2>1, EditsBound
<1>3. ASSUME NEW z \in OneEdit(x), y \in OneEdit(z) PROVE LevenshteinDistance(x, y) <= 2
  <2>1. z \in Seq(Alphabet) /\ Edited(x, Len(x), z, Len(z))
    BY EditIsEdited
  <2>2. Edited(z, Len(z), y, Len(y))
    BY <1>3, <2>1, EditIsEdited
  <2>3. Len(z) \in Nat
    BY <2>1
  <2> QED BY <1>0, <2>1, <2>2, <2>3, EditsBound
<1> QED BY <1>1, <1>2, <1>3

\* A name that is not empty is a cut of another where it is in it.
LEMMA CutRight ==
    ASSUME NEW S, NEW s \in Seq(S), NEW t \in Seq(S), t # << >>
    PROVE  Within(s, t) <=> t \in Cuts(s)
<1>0. Len(s) \in Nat /\ Len(t) \in Nat /\ Len(t) # 0 /\ DOMAIN s = 1..Len(s)
  OBVIOUS
<1>1. ASSUME Within(s, t) PROVE \E i \in 1..Len(s), j \in 1..Len(s) : t = SubSeq(s, i, j)
  <2>1. PICK k \in 0..(Len(s) - Len(t)) : SubSeq(s, k + 1, k + Len(t)) = t
    BY <1>1 DEF Within
  <2>2. k + 1 \in 1..Len(s) /\ k + Len(t) \in 1..Len(s)
    BY <1>0, <2>1
  <2> QED BY <2>1, <2>2, Zenon
<1>2. ASSUME NEW i \in 1..Len(s), NEW j \in 1..Len(s), t = SubSeq(s, i, j) PROVE Within(s, t)
  <2>1. i <= j /\ Len(t) = (j - i) + 1
    BY <1>0, <1>2
  <2>2. PICK k \in 0..(Len(s) - Len(t)) : k + 1 = i /\ k + Len(t) = j
    <3>1. i - 1 \in 0..(Len(s) - Len(t)) /\ (i - 1) + 1 = i /\ (i - 1) + Len(t) = j
      BY <1>0, <2>1
    <3> QED BY <3>1
  <2> QED BY <1>2, <2>2 DEF Within
<1>3. t \in Cuts(s) <=> \E i \in DOMAIN s, j \in DOMAIN s : t = SubSeq(s, i, j)
  BY DEF Cuts
<1> QED BY <1>0, <1>1, <1>2, <1>3

\* A normalised name is made of letters of the alphabet.
LEMMA NormalName ==
    ASSUME NEW name \in Names PROVE NormalizeStoreName(name) \in Seq(Alphabet)
<1>1. PICK x : x = NormalizeStoreName(name)
  OBVIOUS
<1>2. x \in Seq(ToSet(name) \ Dropped)
  BY <1>1, PlansAssumption, WithoutElements DEF NormalizeStoreName
<1>3. ToSet(name) \ Dropped \subseteq Alphabet
  BY DEF Alphabet
<1>4. x \in Seq(Alphabet)
  BY <1>2, <1>3
<1> QED BY <1>1, <1>4

\* The test of the code finds the names that are alike, and those that are the same.
LEMMA SimilarRight ==
    ASSUME NEW n \in Names, NEW m \in Names
    PROVE  NormalizeStoreName(m) # NormalizeStoreName(n) /\ IsSimilarStoreName(n, m)
             <=> <<n, m>> \in Alike
<1>1. PICK x \in Seq(Alphabet), y \in Seq(Alphabet) :
          x = NormalizeStoreName(n) /\ y = NormalizeStoreName(m)
  BY NormalName
<1> DEFINE Near == y \in OneEdit(x) \/ \E z \in OneEdit(x) : y \in OneEdit(z)
<1>2. <<n, m>> \in Alike <=> /\ x # y /\ x # << >> /\ y # << >>
                             /\ x \in Cuts(y) \/ y \in Cuts(x) \/ Near
  <2> DEFINE In(pair) == LET u == NormalizeStoreName(pair[1])
                             v == NormalizeStoreName(pair[2])
                             near == OneEdit(u)
                         IN  /\ u # v /\ u # << >> /\ v # << >>
                             /\ \/ u \in Cuts(v) \/ v \in Cuts(u)
                                \/ v \in near \/ \E z \in near : v \in OneEdit(z)
  <2>1. Alike = {pair \in Names \X Names : In(pair)}
    BY Zenon DEF Alike
  <2>2. <<n, m>> \in Names \X Names /\ <<n, m>>[1] = n /\ <<n, m>>[2] = m
    OBVIOUS
  <2>3. <<n, m>> \in Alike <=> In(<<n, m>>)
    <3> HIDE DEF In
    <3> QED BY <2>1, <2>2, Zenon
  <2>4. In(<<n, m>>) <=> /\ x # y /\ x # << >> /\ y # << >>
                         /\ x \in Cuts(y) \/ y \in Cuts(x) \/ Near
    <3> QED BY <1>1, <2>2, Zenon
  <2> HIDE DEF In, Near
  <2> QED BY <2>3, <2>4, Zenon
<1>3. IsSimilarStoreName(n, m) <=>
          IF x = << >> \/ y = << >> \/ x = y THEN x = y
          ELSE Within(x, y) \/ Within(y, x) \/ LevenshteinDistance(x, y) <= 2
  BY <1>1, Zenon DEF IsSimilarStoreName
<1>4. ASSUME x # y, x # << >>, y # << >>
      PROVE  /\ Within(x, y) <=> y \in Cuts(x)
             /\ Within(y, x) <=> x \in Cuts(y)
             /\ LevenshteinDistance(x, y) <= 2 <=> Near
  <2>1. Within(x, y) <=> y \in Cuts(x)
    BY <1>4, CutRight
  <2>2. Within(y, x) <=> x \in Cuts(y)
    BY <1>4, CutRight
  <2>3. LevenshteinDistance(x, y) <= 2 <=> Near
    BY <1>4, DistanceRight
  <2> HIDE DEF Near
  <2> QED BY <2>1, <2>2, <2>3
<1> HIDE DEF Near
<1> QED BY <1>1, <1>2, <1>3, <1>4

\* The names that are kept and that are about to be kept can be sent at all, and the
\* report of a check that no write has overtaken is what a check would say now.
NameOK(x) ==
    x.op \in {"create", "update"} /\ x.step \in {"name", "commit"} => x.arg.name \in Names
ReportOK(x) ==
    x.op = "check" /\ x.answer = "ok" /\ x.calm =>
        /\ x.arg.name \in Names
        /\ x.exact \in ExactMatch(x.arg.name, x.store)
        /\ x.similar = SimilarMatches(x.arg.name, x.store)
ReportInv ==
    /\ \A s \in Live : stores[s].name \in Names
    /\ \A p \in Procs : NameOK(reqs[p]) /\ ReportOK(reqs[p])

LEMMA ReportImplies == ReportInv => DuplicateReportRight
<1> SUFFICES ASSUME ReportInv, NEW p \in Procs,
                    reqs[p].op = "check", reqs[p].answer = "ok", reqs[p].calm
             PROVE  /\ LET same == {s \in Live \ {reqs[p].store} :
                           NormalizeStoreName(stores[s].name) = NormalizeStoreName(reqs[p].arg.name)}
                       IN  reqs[p].exact \in same \/ (same = {} /\ reqs[p].exact = 0)
                    /\ reqs[p].similar = {s \in Live \ {reqs[p].store} :
                           <<reqs[p].arg.name, stores[s].name>> \in Alike}
  BY DEF DuplicateReportRight
<1>1. PICK name, out : name = reqs[p].arg.name /\ out = reqs[p].store
  OBVIOUS
<1>2. /\ name \in Names /\ reqs[p].exact \in ExactMatch(name, out)
      /\ reqs[p].similar = SimilarMatches(name, out)
  BY <1>1 DEF ReportInv, ReportOK
<1>3. \A s \in Live : stores[s].name \in Names
  BY DEF ReportInv
<1>4. SimilarMatches(name, out) = {s \in Live \ {out} : <<name, stores[s].name>> \in Alike}
  <2>1. ASSUME NEW s \in Live \ {out}
        PROVE  s \in SimilarMatches(name, out) <=> <<name, stores[s].name>> \in Alike
    <3>1. PICK m \in Names : m = stores[s].name
      BY <1>3
    <3>2. NormalizeStoreName(m) # NormalizeStoreName(name) /\ IsSimilarStoreName(name, m)
             <=> <<name, m>> \in Alike
      BY <1>2, SimilarRight
    <3>3. s \in SimilarMatches(name, out)
             <=> s \notin ExactMatches(name, out) /\ IsSimilarStoreName(name, m)
      BY <3>1 DEF SimilarMatches
    <3>4. s \in ExactMatches(name, out) <=> NormalizeStoreName(m) = NormalizeStoreName(name)
      BY <3>1 DEF ExactMatches
    <3> QED BY <3>1, <3>2, <3>3, <3>4
  <2>2. SimilarMatches(name, out) \subseteq Live \ {out}
    BY DEF SimilarMatches
  <2> QED BY <2>1, <2>2
<1> QED BY <1>1, <1>2, <1>4 DEF ExactMatches, ExactMatch

\* While the stores stay, a report can only be disturbed by the request that is set.
LEMMA ReportSet ==
    ASSUME PlanInv, ReportInv, UNCHANGED stores, NEW p \in Procs, NEW y, Set(p, y),
           NameOK(y), ReportOK(y)
    PROVE  ReportInv'
<1>1. Live' = Live /\ UNCHANGED stores
  BY DEF Live
<1>2. \A x : ReportOK(x) => ReportOK(x)'
  BY <1>1 DEF ReportOK, ExactMatch, ExactMatches, SimilarMatches
<1>3. /\ reqs'[p] = y
      /\ \A q \in Procs : q # p => reqs'[q] = reqs[q]
  BY DEF PlanInv, PlanRequests, Set
<1>4. ASSUME NEW q \in Procs PROVE NameOK(reqs'[q]) /\ ReportOK(reqs[q])'
  <2>1. PICK x : x = reqs'[q]
    OBVIOUS
  <2>2. NameOK(x) /\ ReportOK(x)
    BY <1>3, <2>1 DEF ReportInv
  <2>3. ReportOK(x)'
    BY <1>2, <2>2
  <2> QED BY <2>1, <2>2, <2>3 DEF ReportOK
<1>5. \A s \in Live' : stores'[s].name \in Names
  BY <1>1 DEF ReportInv
<1> QED BY <1>4, <1>5 DEF ReportInv, NameOK

\* The routes that neither name a store nor report one.
Others == {"upload", "recognize", "delete", "image"}
LEMMA ReportOthers ==
    ASSUME PlanInv, ReportInv, UNCHANGED stores, NEW p \in Procs, NEW y, Set(p, y),
           y.op \in Others
    PROVE  ReportInv'
<1>1. NameOK(y) /\ ReportOK(y)
  BY DEF Others, NameOK, ReportOK
<1> QED BY <1>1, ReportSet

\* A step of an upload, a recognition, a picture, or a deletion before or after its
\* store is dropped.
LEMMA ReportAside ==
    ASSUME PlanInv, ReportInv, NEW p \in Procs,
           \/ UploadPDF(p) \/ AcceptPDF(p) \/ RenderPDF(p) \/ StitchPNGs(p)
           \/ CreateThumbnail(p) \/ SaveFile(p)
           \/ RecognizeUpload(p) \/ ReadImageBytes(p)
           \/ CallResponsesAPI(p) \/ CallChatCompletionsAPI(p) \/ CallMiniMax(p)
           \/ DeleteStore(p) \/ DeleteStoredFiles(p) \/ ServeStoreImage(p) \/ OpenStored(p)
    PROVE  ReportInv'
<1> DEFINE x == reqs[p]
<1>0. DOMAIN x = PlanFields
  BY DEF PlanInv, PlanRequests, PlanRequest
<1>1. \A z, s : DOMAIN z = PlanFields => At(z, s).op = z.op /\ Answered(z, s).op = z.op
  BY DEF At, Answered, PlanFields
<1>2. UNCHANGED stores
  BY Zenon DEF UploadPDF, AcceptPDF, RenderPDF, StitchPNGs, CreateThumbnail, SaveFile,
         RecognizeUpload, ReadImageBytes, CallResponsesAPI, CallChatCompletionsAPI, CallMiniMax,
         Called, DeleteStore, DeleteStoredFiles, ServeStoreImage, OpenStored, Begin, Reads, table
<1>3. ASSUME x.op \in Others, NEW a, Set(p, Answered(x, a)) \/ Set(p, At(x, a))
      PROVE  ReportInv'
  <2>1. PICK y : Set(p, y) /\ y.op = x.op
    BY <1>0, <1>1, <1>3
  <2> QED BY <1>2, <1>3, <2>1, ReportOthers
<1>4. CASE UploadPDF(p)
  <2>1. PICK n : n = [Idle EXCEPT !.op = "upload"]
    OBVIOUS
  <2>2. DOMAIN n = PlanFields /\ n.op = "upload"
    BY <2>1 DEF Idle, PlanFields
  <2>3. Set(p, Answered(n, "invalid")) \/ Set(p, At(n, "accept"))
    BY <1>4, <2>1 DEF UploadPDF
  <2>4. PICK y : Set(p, y) /\ y.op = "upload"
    BY <1>1, <2>2, <2>3
  <2> QED BY <1>2, <2>4, ReportOthers DEF Others
<1>5. CASE AcceptPDF(p)
  <2>1. x.op \in Others
    BY <1>5 DEF AcceptPDF, Serves, Others
  <2>2. CASE Set(p, [At(x, "render") EXCEPT !.upload = lastUpload'])
    <3>1. PICK y : y = [At(x, "render") EXCEPT !.upload = lastUpload']
      OBVIOUS
    <3>2. y.op = x.op /\ Set(p, y)
      BY <1>0, <2>2, <3>1 DEF At, PlanFields
    <3> QED BY <1>2, <2>1, <3>2, ReportOthers
  <2>3. \/ Set(p, Answered(x, "invalid")) \/ Set(p, Answered(x, "error"))
        \/ Set(p, [At(x, "render") EXCEPT !.upload = lastUpload'])
    BY <1>5 DEF AcceptPDF
  <2> HIDE DEF x
  <2> QED BY <1>3, <2>1, <2>2, <2>3
<1>6. CASE RenderPDF(p) \/ StitchPNGs(p) \/ CreateThumbnail(p)
  <2>1. x.op \in Others
    BY <1>6 DEF RenderPDF, StitchPNGs, CreateThumbnail, Serves, Others
  <2>2. \E a : Set(p, Answered(x, a)) \/ Set(p, At(x, a))
    BY <1>6 DEF RenderPDF, StitchPNGs, CreateThumbnail
  <2> QED BY <1>3, <2>1, <2>2
<1>7. CASE SaveFile(p)
  <2>1. x.op \in Others
    BY <1>7 DEF SaveFile, Serves, Others
  <2>2. CASE Set(p, [x EXCEPT !.i = @ + 1])
    <3>1. PICK y : y = [x EXCEPT !.i = @ + 1]
      OBVIOUS
    <3>2. y.op = x.op /\ Set(p, y)
      BY <1>0, <2>2, <3>1 DEF PlanFields
    <3> QED BY <1>2, <2>1, <3>2, ReportOthers
  <2>3. (\E a : Set(p, Answered(x, a))) \/ Set(p, [x EXCEPT !.i = @ + 1])
    BY <1>7 DEF SaveFile
  <2> HIDE DEF x
  <2> QED BY <1>3, <2>1, <2>2, <2>3
<1>8. CASE RecognizeUpload(p)
  <2>1. PICK u \in Uploads :
          LET req == [Idle EXCEPT !.op = "recognize", !.upload = u]
          IN  Begin(p, IF FindUpload(u) THEN At(req, "image") ELSE Answered(req, "not_found"))
    BY <1>8 DEF RecognizeUpload
  <2>2. PICK n : n = [Idle EXCEPT !.op = "recognize", !.upload = u]
    OBVIOUS
  <2>3. DOMAIN n = PlanFields /\ n.op = "recognize"
    BY <2>2 DEF Idle, PlanFields
  <2>4. Begin(p, IF FindUpload(u) THEN At(n, "image") ELSE Answered(n, "not_found"))
    BY <2>1, <2>2
  <2>5. PICK y : Set(p, y) /\ y.op = "recognize"
    BY <1>1, <2>3, <2>4 DEF Begin
  <2> QED BY <1>2, <2>5, ReportOthers DEF Others
<1>9. CASE ReadImageBytes(p)
  <2>1. x.op \in Others
    BY <1>9 DEF ReadImageBytes, Serves, Others
  <2>2. \E a : Set(p, Answered(x, a)) \/ Set(p, At(x, a))
    BY <1>9 DEF ReadImageBytes
  <2> QED BY <1>3, <2>1, <2>2
<1>10. CASE CallResponsesAPI(p) \/ CallChatCompletionsAPI(p) \/ CallMiniMax(p)
  <2>1. x.op = "recognize"
    BY <1>10 DEF CallResponsesAPI, CallChatCompletionsAPI, CallMiniMax, Called, Serves
  <2>2. \/ Set(p, Answered(reqs[p], "error"))
        \/ \E r : Set(p, [Answered(reqs[p], "ok") EXCEPT !.areas = r])
    BY <1>10 DEF CallResponsesAPI, CallChatCompletionsAPI, CallMiniMax, Called
  <2>3. CASE \E r : Set(p, [Answered(reqs[p], "ok") EXCEPT !.areas = r])
    <3>1. PICK r : Set(p, [Answered(reqs[p], "ok") EXCEPT !.areas = r])
      BY <2>3
    <3>2. PICK y : y = [Answered(x, "ok") EXCEPT !.areas = r]
      OBVIOUS
    <3>3. y.op = "recognize" /\ Set(p, y)
      BY <1>0, <2>1, <3>1, <3>2 DEF Answered, PlanFields
    <3> QED BY <1>2, <3>3, ReportOthers DEF Others
  <2> QED BY <1>3, <2>1, <2>2, <2>3 DEF Others
<1>11. CASE DeleteStore(p)
  <2>1. PICK s \in StoreIds :
          LET req == [Idle EXCEPT !.op = "delete", !.store = s]
          IN  Begin(p, IF s \in Live
                       THEN [req EXCEPT !.step = "drop", !.upload = stores[s].upload]
                       ELSE Answered(req, "not_found"))
    BY <1>11, Zenon DEF DeleteStore
  <2>2. PICK y : y = LET req == [Idle EXCEPT !.op = "delete", !.store = s]
                     IN  IF s \in Live THEN [req EXCEPT !.step = "drop", !.upload = stores[s].upload]
                         ELSE Answered(req, "not_found")
    OBVIOUS
  <2>3. Set(p, y)
    BY <2>1, <2>2 DEF Begin
  <2>4. y.op = "delete"
    BY <2>2 DEF Idle, Answered
  <2> QED BY <1>2, <2>3, <2>4, ReportOthers DEF Others
<1>12. CASE ServeStoreImage(p)
  <2>1. PICK s \in StoreIds :
          LET req == [Idle EXCEPT !.op = "image", !.store = s]
          IN  Begin(p, IF s \in Live THEN [req EXCEPT !.step = "open", !.upload = stores[s].upload]
                       ELSE Answered(req, "not_found"))
    BY <1>12, Zenon DEF ServeStoreImage
  <2>2. PICK y : y = LET req == [Idle EXCEPT !.op = "image", !.store = s]
                     IN  IF s \in Live THEN [req EXCEPT !.step = "open", !.upload = stores[s].upload]
                         ELSE Answered(req, "not_found")
    OBVIOUS
  <2>3. Set(p, y)
    BY <2>1, <2>2 DEF Begin
  <2>4. y.op = "image"
    BY <2>2 DEF Idle, Answered
  <2> QED BY <1>2, <2>3, <2>4, ReportOthers DEF Others
<1>13. CASE DeleteStoredFiles(p) \/ OpenStored(p)
  <2>1. x.op \in Others
    BY <1>13 DEF DeleteStoredFiles, OpenStored, Serves, Others
  <2>2. \E a : Set(p, Answered(x, a))
    BY <1>13 DEF DeleteStoredFiles, OpenStored
  <2> QED BY <1>3, <2>1, <2>2
<1> QED BY <1>4, <1>5, <1>6, <1>7, <1>8, <1>9, <1>10, <1>11, <1>12, <1>13

\* A request to create or to update a store, up to its commit.
LEMMA ReportAsked ==
    ASSUME PlanInv, ReportInv, NEW p \in Procs,
           CreateStore(p) \/ UpdateStore(p) \/ EnsureNoExactDuplicate(p)
    PROVE  ReportInv'
<1>1. UNCHANGED stores
  BY DEF CreateStore, UpdateStore, EnsureNoExactDuplicate, Begin, Reads, table
<1>2. ASSUME NEW n, DOMAIN n = PlanFields, n.op \in {"create", "update"}, n.arg.name \in Names,
             NEW s, Set(p, At(n, s)) \/ Set(p, Answered(n, s))
      PROVE  ReportInv'
  <2>0. /\ At(n, s).op = n.op /\ At(n, s).arg = n.arg
        /\ Answered(n, s).op = n.op /\ Answered(n, s).arg = n.arg
    BY <1>2 DEF At, Answered, PlanFields
  <2>1. PICK y : Set(p, y) /\ y.op = n.op /\ y.arg = n.arg
    BY <1>2, <2>0
  <2>2. NameOK(y) /\ ReportOK(y)
    BY <1>2, <2>1 DEF NameOK, ReportOK
  <2> QED BY <1>1, <2>1, <2>2, ReportSet
<1>3. \A in \in Sent(p) : in.name \in Names
  BY PlansAssumption DEF Sent
<1>4. CASE CreateStore(p)
  <2>1. PICK in \in Sent(p) : Begin(p, Checked(in, [Idle EXCEPT !.op = "create", !.arg = in]))
    BY <1>4 DEF CreateStore
  <2>2. PICK n : n = [Idle EXCEPT !.op = "create", !.arg = in]
    OBVIOUS
  <2>3. DOMAIN n = PlanFields /\ n.op = "create" /\ n.arg = in
    BY <2>2 DEF Idle, PlanFields
  <2>4. \E s : Set(p, At(n, s)) \/ Set(p, Answered(n, s))
    BY <2>1, <2>2 DEF Begin, Checked
  <2> QED BY <1>2, <1>3, <2>3, <2>4
<1>5. CASE UpdateStore(p)
  <2>1. PICK in \in Sent(p), s \in StoreIds :
            Begin(p, Checked(in, [Idle EXCEPT !.op = "update", !.arg = in, !.store = s]))
    BY <1>5 DEF UpdateStore
  <2>2. PICK n : n = [Idle EXCEPT !.op = "update", !.arg = in, !.store = s]
    OBVIOUS
  <2>3. DOMAIN n = PlanFields /\ n.op = "update" /\ n.arg = in
    BY <2>2 DEF Idle, PlanFields
  <2>4. \E t : Set(p, At(n, t)) \/ Set(p, Answered(n, t))
    BY <2>1, <2>2 DEF Begin, Checked
  <2> QED BY <1>2, <1>3, <2>3, <2>4
<1>6. CASE EnsureNoExactDuplicate(p)
  <2>1. PICK x : x = reqs[p]
    OBVIOUS
  <2>2. DOMAIN x = PlanFields /\ x.op \in {"create", "update"} /\ x.step = "name"
    BY <1>6, <2>1 DEF EnsureNoExactDuplicate, PlanInv, PlanRequests, PlanRequest
  <2>3. x.arg.name \in Names
    BY <2>1, <2>2 DEF ReportInv, NameOK
  <2>4. \E t : Set(p, At(x, t)) \/ Set(p, Answered(x, t))
    BY <1>6, <2>1 DEF EnsureNoExactDuplicate
  <2> QED BY <1>2, <2>2, <2>3, <2>4
<1> QED BY <1>4, <1>5, <1>6

\* A check reads the stores in one step.
LEMMA ReportChecked ==
    ASSUME PlanInv, ReportInv, NEW p \in Procs, CheckDuplicate(p)
    PROVE  ReportInv'
<1>2. PICK name \in Names, exclude \in {0} \cup StoreIds :
        LET req == [Idle EXCEPT !.op = "check", !.arg.name = name, !.store = exclude]
        IN  IF name = << >> THEN Begin(p, Answered(req, "invalid"))
            ELSE \E exact \in ExactMatch(name, exclude) :
                    Begin(p, [Answered(req, "ok") EXCEPT
                                 !.exact = exact, !.similar = SimilarMatches(name, exclude)])
  BY Zenon DEF CheckDuplicate
<1>3. PICK F : F = SimilarMatches(name, exclude)
  OBVIOUS
<1>4. PICK n : n = [Idle EXCEPT !.op = "check", !.arg.name = name, !.store = exclude]
  OBVIOUS
<1>5. /\ DOMAIN n = PlanFields /\ n.op = "check" /\ n.store = exclude /\ n.arg.name = name
  BY <1>4 DEF Idle, NoArg, PlanFields
<1>6. IF name = << >> THEN Begin(p, Answered(n, "invalid"))
      ELSE \E exact \in ExactMatch(name, exclude) :
              Begin(p, [Answered(n, "ok") EXCEPT !.exact = exact, !.similar = F])
  BY <1>2, <1>3, <1>4
<1>u. UNCHANGED stores
  BY <1>6 DEF Begin, table
<1>7. CASE name = << >>
  <2>1. PICK y : y = Answered(n, "invalid")
    OBVIOUS
  <2>2. y.op = "check" /\ y.answer = "invalid"
    BY <1>5, <2>1 DEF Answered, PlanFields
  <2>3. Set(p, y)
    BY <1>6, <1>7, <2>1 DEF Begin
  <2> QED BY <1>u, <2>2, <2>3, ReportSet DEF NameOK, ReportOK
<1>8. CASE name # << >>
  <2>0. PICK E \in ExactMatch(name, exclude) :
          Begin(p, [Answered(n, "ok") EXCEPT !.exact = E, !.similar = F])
    BY <1>6, <1>8
  <2>1. PICK y : y = [Answered(n, "ok") EXCEPT !.exact = E, !.similar = F]
    OBVIOUS
  <2>2. /\ y.op = "check" /\ y.exact = E /\ y.similar = F /\ y.arg.name = name
        /\ y.store = exclude
    BY <1>5, <2>1 DEF Answered, PlanFields
  <2>3. Set(p, y)
    BY <2>0, <2>1 DEF Begin
  <2>4. NameOK(y) /\ ReportOK(y)
    BY <1>3, <2>0, <2>2 DEF NameOK, ReportOK
  <2> QED BY <1>u, <2>3, <2>4, ReportSet
<1> QED BY <1>7, <1>8

\* A write overtakes every other request.
LEMMA ReportWritten ==
    ASSUME PlanInv, ReportInv, NEW p \in Procs, NEW y, SetWriting(p, y),
           y.op # "check", NameOK(y), \A s \in Live' : stores'[s].name \in Names
    PROVE  ReportInv'
<1>1. ASSUME NEW q \in Procs PROVE NameOK(reqs'[q]) /\ ReportOK(reqs[q])'
  <2>1. CASE q = p
    <3>1. reqs'[q] = y
      BY <2>1 DEF SetWriting
    <3> QED BY <3>1 DEF ReportOK
  <2>2. CASE q # p
    <3>1. PICK x : x = reqs[q]
      OBVIOUS
    <3>2. DOMAIN x = PlanFields /\ NameOK(x)
      BY <3>1 DEF PlanInv, PlanRequests, PlanRequest, ReportInv
    <3>3. reqs'[q] = [x EXCEPT !.calm = FALSE]
      BY <2>2, <3>1 DEF SetWriting
    <3>4. PICK z : z = reqs'[q]
      OBVIOUS
    <3>5. z.op = x.op /\ z.step = x.step /\ z.arg = x.arg /\ z.calm = FALSE
      BY <3>2, <3>3, <3>4 DEF PlanFields
    <3>6. NameOK(z)
      BY <3>2, <3>5 DEF NameOK
    <3> QED BY <3>4, <3>5, <3>6 DEF ReportOK
  <2> QED BY <2>1, <2>2
<1> QED BY <1>1 DEF ReportInv, NameOK

LEMMA ReportCommitted ==
    ASSUME PlanInv, ReportInv, NEW p \in Procs, CommitCreate(p) \/ CommitUpdate(p) \/ DropStore(p)
    PROVE  ReportInv'
<1> DEFINE x == reqs[p]
<1>1. /\ DOMAIN x = PlanFields /\ DOMAIN stores = StoreIds
      /\ \A s \in Live : stores[s].name \in Names
  BY DEF PlanInv, PlanRequests, PlanRequest, PlanTables, ReportInv
<1>2. \A a : Answered(x, a).op = x.op /\ Answered(x, a).step = "done" /\ At(x, a).op = x.op
  BY <1>1 DEF Answered, At, PlanFields
<1>3. ASSUME NEW s, NEW row, row.name \in Names, stores' = [stores EXCEPT ![s] = row],
             NEW a, SetWriting(p, Answered(x, a)), x.op # "check"
      PROVE  ReportInv'
  <2>1. \A t \in Live' : stores'[t].name \in Names
    BY <1>1, <1>3 DEF Live
  <2>2. PICK y : y = Answered(x, a)
    OBVIOUS
  <2>3. y.op # "check" /\ NameOK(y)
    BY <1>2, <1>3, <2>2 DEF NameOK
  <2> QED BY <1>3, <2>1, <2>2, <2>3, ReportWritten
<1>4. ASSUME x.op # "check", NEW a, Set(p, Answered(x, a)), UNCHANGED stores
      PROVE  ReportInv'
  <2>1. PICK y : y = Answered(x, a)
    OBVIOUS
  <2>2. NameOK(y) /\ ReportOK(y)
    BY <1>2, <1>4, <2>1 DEF NameOK, ReportOK
  <2> QED BY <1>4, <2>1, <2>2, ReportSet
<1>5. PICK row : row = StoreFromInput(x.arg)
  OBVIOUS
<1>6. x.op \in {"create", "update"} /\ x.step = "commit" => row.name \in Names
  BY <1>5 DEF ReportInv, NameOK, StoreFromInput
<1>7. CASE CommitCreate(p)
  <2>1. PICK s : s = lastStore'
    OBVIOUS
  <2>2. /\ x.op = "create" /\ x.step = "commit" /\ SetWriting(p, Answered(x, "created"))
        /\ stores' = [stores EXCEPT ![s] = row]
    BY <1>5, <1>7, <2>1 DEF CommitCreate, Serves
  <2> QED BY <1>3, <1>6, <2>2
<1>8. CASE CommitUpdate(p)
  <2>1. x.op = "update" /\ x.step = "commit"
    BY <1>8 DEF CommitUpdate, Serves
  <2>2. CASE x.store \in Live
    <3>1. PICK s : s = x.store
      OBVIOUS
    <3>2. /\ stores' = [stores EXCEPT ![s] = row]
          /\ SetWriting(p, Answered(x, "ok"))
      BY <1>5, <1>8, <2>2, <3>1 DEF CommitUpdate
    <3> QED BY <1>3, <1>6, <2>1, <3>2
  <2>3. CASE x.store \notin Live
    <3>1. Set(p, Answered(x, "not_found")) /\ UNCHANGED stores
      BY <1>8, <2>3 DEF CommitUpdate
    <3> QED BY <1>4, <2>1, <3>1
  <2> QED BY <2>2, <2>3
<1>9. CASE DropStore(p)
  <2>1. x.op = "delete"
    BY <1>9 DEF DropStore, Serves
  <2>2. CASE x.store \in Live
    <3>1. stores' = [stores EXCEPT ![x.store] = Missing] /\ SetWriting(p, At(x, "files"))
      BY <1>9, <2>2 DEF DropStore
    <3>2. \A t \in Live' : stores'[t].name \in Names
      BY <1>1, <3>1 DEF Live
    <3>3. PICK y : y = At(x, "files")
      OBVIOUS
    <3>4. y.op # "check" /\ NameOK(y)
      BY <1>2, <2>1, <3>3 DEF NameOK
    <3> QED BY <3>1, <3>2, <3>3, <3>4, ReportWritten
  <2>3. CASE x.store \notin Live
    <3>1. Set(p, Answered(x, "not_found")) /\ UNCHANGED stores
      BY <1>9, <2>3 DEF DropStore
    <3> QED BY <1>4, <2>1, <3>1
  <2> QED BY <2>2, <2>3
<1> QED BY <1>7, <1>8, <1>9

\* As long as no store changes, the report of a duplicate check names a store whose name
\* is the same after normalisation if there is one (one only, whichever, of several), and
\* exactly the stores whose name contains the other or is at most two edits from it (CheckDuplicate, IsSimilarStoreName, and the table of
\* levenshteinDistance), for names of any length over any alphabet.
THEOREM ReportRight == PlansSpec => []DuplicateReportRight
<1>1. PlansInit => ReportInv
  <2> SUFFICES ASSUME PlansInit PROVE ReportInv
    OBVIOUS
  <2>1. \A p \in Procs : reqs[p] = Idle
    BY DEF PlansInit
  <2>2. Live = {}
    BY DEF PlansInit, Live
  <2>3. Idle.op = "idle"
    BY DEF Idle
  <2> QED BY <2>1, <2>2, <2>3 DEF ReportInv, NameOK, ReportOK
<1>2. PlanInv /\ ReportInv /\ [PlansNext]_planVars => ReportInv'
  <2> SUFFICES ASSUME PlanInv, ReportInv, [PlansNext]_planVars PROVE ReportInv'
    OBVIOUS
  <2>1. CASE UNCHANGED planVars
    BY <2>1 DEF ReportInv, NameOK, ReportOK, ExactMatch, ExactMatches, SimilarMatches, Live,
       planVars
  <2>2. ASSUME NEW p \in Procs, Step(p) PROVE ReportInv'
    BY <2>2, ReportAside, ReportAsked, ReportChecked, ReportCommitted DEF Step
  <2> QED BY <2>1, <2>2 DEF PlansNext
<1> QED BY <1>1, <1>2, PlansInductive, ReportImplies, PTL DEF PlansSpec
=============================================================================
