---------------------------- MODULE SqliteProofs ----------------------------
(***************************************************************************)
(* SqliteTx implements Driver, whatever calls the processes make and       *)
(* however many there are.                                                 *)
(*                                                                         *)
(* The invariant says what a connection's snapshot is worth.  Until it has *)
(* the write lock, its snapshot is the last commit unless it is in         *)
(* `stale`, in which case SQLite refuses its first write; from then on     *)
(* nobody else commits, and its tables are the last commit with the        *)
(* statements executed so far.                                             *)
(***************************************************************************)
EXTENDS SqliteTx, DriverProofs, TLAPS

\* The statements of a transaction that holds the write lock.
Locked == {"reindex", "commit", "rollback"}

\* The SELECTs of k find nothing against it in the last commit.
Passed(k) ==
    /\ k.op = "store_user" => StoreUserResult(k.info, k.exclusive) = "Ok"
    /\ k.op = "create_bucket" => CreateBucketResult(k.info) = "Ok"
    /\ k.op = "remove_bucket" => RemoveBucketResult(k.name) = "Ok"
    /\ k.op = "put_object" => PutObjectResult(k.info) = "Ok"
    /\ k.op = "delete_object" => check_bucket(k.id)

\* The calls that write without a SELECT.
Unchecked(k) ==
    \/ k.op = "remove_user"
    \/ k.op = "store_user" /\ ~k.exclusive /\ k.info.access_keys = {}

\* The tables t are what one step of Driver makes of the last commit for k.
Prepared(k, t) ==
    /\ Passed(k)
    /\ t.users = IF k.op = "store_user" THEN UpsertUser(k.info) ELSE users
    /\ t.access_keys = IF k.op = "store_user" THEN IndexAfterStore(k.info) ELSE access_keys
    /\ t.buckets = IF k.op = "create_bucket" THEN buckets \cup {k.info}
                   ELSE IF k.op = "remove_bucket"
                   THEN {b \in buckets : b.bucket_id # load_bucket(k.name).bucket_id}
                   ELSE buckets
    /\ t.objects = IF k.op = "put_object" THEN ReplaceObject(k.info)
                   ELSE IF k.op = "delete_object"
                   THEN {o \in objects : o.bucket_id # k.id \/ o.name # k.name}
                   ELSE objects

\* The call fits the statement it has come to.
CallFits(c) ==
    /\ at[c] # "idle" => call[c] \in Call
    /\ at[c] \in {"select", "commit", "rollback"} => InTransaction(call[c])
    /\ at[c] \in {"upsert", "reindex"} => call[c].op = "store_user"
    /\ at[c] = "write" => InTransaction(call[c]) \/ call[c].op = "remove_user"
    /\ at[c] = "write" => call[c].op # "store_user"
    /\ at[c] \in {"bucket", "row", "data", "rows"} => ~InTransaction(call[c])

\* Who holds the lock, a snapshot, or an old one.
LocksFit(c) ==
    /\ at[c] \in Locked <=> writer = c
    /\ at[c] \in Locked \cup {"upsert", "write"} \/ view[c] = NoTables
    /\ c \in stale => view[c] # NoTables

\* What the open transaction sees.
SnapshotFits(c) ==
    /\ at[c] \in {"upsert", "write"} =>
          IF view[c] = NoTables THEN Unchecked(call[c])
          ELSE /\ InTransaction(call[c])
               /\ c \in stale \/ (view[c] = Committed /\ Passed(call[c]))
    /\ at[c] = "reindex" =>
          /\ view[c] = [Committed EXCEPT !.users = UpsertUser(call[c].info)]
          /\ Passed(call[c])
    /\ at[c] = "commit" => Prepared(call[c], view[c])

ConnectionTypes ==
    /\ at \in [Conn -> Statement]
    /\ call \in [Conn -> Call \cup {NoCall}]
    /\ view \in [Conn -> Tables \cup {NoTables}]
    /\ writer \in Conn \cup {NoConn}

SqliteInv ==
    /\ TypeOK
    /\ ConnectionTypes
    /\ \A c \in Conn : CallFits(c) /\ LocksFit(c) /\ SnapshotFits(c)

-----------------------------------------------------------------------------
(* Facts about calls and views *)

\* A call brings the arguments its operation takes.
LEMMA CallShapes ==
    ASSUME NEW k \in Call
    PROVE  /\ k.op = "store_user" => k.info \in UserInfo /\ k.exclusive \in BOOLEAN
           /\ k.op = "remove_user" => k.uid \in Uid
           /\ k.op = "create_bucket" => k.info \in BucketInfo
           /\ k.op = "remove_bucket" => k.name \in BucketName
           /\ k.op = "put_object" => k.info \in ObjectInfo
           /\ k.op = "delete_object" => k.id \in BucketId /\ k.name \in ObjectName
           /\ k.op \in {"store_user", "remove_user", "create_bucket", "remove_bucket",
                        "put_object", "delete_object", "head_object", "get_object",
                        "list_objects", "bucket_stats"}
  BY DEF Call

\* A connection that sees the last commit evaluates its SELECTs as Driver does.
LEMMA SelectsAgree ==
    ASSUME NEW c \in Conn, Sees(c) = Committed, NEW k \in Call, InTransaction(k),
           SelectResult(c, k) = "Ok"
    PROVE  Passed(k)
<1>1. /\ Sees(c).users = users /\ Sees(c).access_keys = access_keys
      /\ Sees(c).buckets = buckets /\ Sees(c).objects = objects
  BY DEF Committed
<1>2. CASE k.op = "store_user"
  BY <1>1, <1>2 DEF SelectResult, Passed, StoreUserResult, HasUser, UserRows, HoldsForeignKey,
     View!StoreUserResult, View!HasUser, View!UserRows, View!HoldsForeignKey
<1>3. CASE k.op = "create_bucket"
  BY <1>1, <1>3 DEF SelectResult, Passed, CreateBucketResult, check_bucket, HasBucket,
     View!CreateBucketResult, View!check_bucket, View!HasBucket
<1>4. CASE k.op = "remove_bucket"
  BY <1>1, <1>4 DEF SelectResult, Passed, RemoveBucketResult, HasBucket, load_bucket, ObjectsOf,
     View!RemoveBucketResult, View!HasBucket, View!load_bucket, View!ObjectsOf
<1>5. CASE k.op = "put_object"
  BY <1>1, <1>5 DEF SelectResult, Passed, PutObjectResult, check_bucket,
     View!PutObjectResult, View!check_bucket
<1>6. CASE k.op = "delete_object"
  BY <1>1, <1>6 DEF SelectResult, Passed, check_bucket, View!check_bucket
<1> QED
  BY <1>2, <1>3, <1>4, <1>5, <1>6 DEF InTransaction

\* What a statement sees has the shape of the tables.
LEMMA SeesTables ==
    ASSUME TypeOK, ConnectionTypes, NEW c \in Conn
    PROVE  Sees(c) \in Tables /\ Committed \in Tables
  BY DEF TypeOK, ConnectionTypes, Sees, Committed, Tables

\* A call that needs no SELECT would have passed it.
LEMMA UncheckedPasses ==
    ASSUME NEW k \in Call, Unchecked(k)
    PROVE  Passed(k)
  BY DEF Unchecked, Passed, StoreUserResult, HoldsForeignKey

\* A write finds the last commit: nobody has committed since its snapshot was pinned.
LEMMA WriterIsCurrent ==
    ASSUME SqliteInv, NEW c \in Conn, at[c] \in {"upsert", "write"}, ~Blocked(c)
    PROVE  Sees(c) = Committed /\ Passed(call[c])
<1>1. call[c] \in Call /\ c \notin stale
  BY DEF SqliteInv, CallFits, Blocked
<1>2. CASE view[c] = NoTables
  <2>1. Unchecked(call[c])
    BY <1>2 DEF SqliteInv, SnapshotFits
  <2> QED
    BY <1>1, <1>2, <2>1, UncheckedPasses DEF Sees
<1>3. CASE view[c] # NoTables
  BY <1>1, <1>3 DEF SqliteInv, SnapshotFits, Sees
<1> QED
  BY <1>2, <1>3

\* Tables that a step of Driver would leave, once published, are that step.
LEMMA PreparedIsDriverStep ==
    ASSUME NEW k \in Call, InTransaction(k), NEW t, Prepared(k, t),
           users' = t.users, access_keys' = t.access_keys,
           buckets' = t.buckets, objects' = t.objects
    PROVE  DriverNext
<1>1. CASE k.op = "store_user"
  <2>1. store_user(k.info, k.exclusive)
    BY <1>1 DEF Prepared, Passed, store_user
  <2> QED
    BY <1>1, <2>1, CallShapes DEF DriverNext
<1>2. CASE k.op = "create_bucket"
  <2>1. create_bucket(k.info)
    BY <1>2 DEF Prepared, Passed, create_bucket
  <2> QED
    BY <1>2, <2>1, CallShapes DEF DriverNext
<1>3. CASE k.op = "remove_bucket"
  <2>1. remove_bucket(k.name)
    BY <1>3 DEF Prepared, Passed, remove_bucket
  <2> QED
    BY <1>3, <2>1, CallShapes DEF DriverNext
<1>4. CASE k.op = "put_object"
  <2>1. put_object(k.info)
    BY <1>4 DEF Prepared, Passed, put_object
  <2> QED
    BY <1>4, <2>1, CallShapes DEF DriverNext
<1>5. CASE k.op = "delete_object"
  <2>1. delete_object(k.id, k.name)
    BY <1>5 DEF Prepared, Passed, delete_object
  <2> QED
    BY <1>5, <2>1, CallShapes DEF DriverNext
<1> QED
  BY <1>1, <1>2, <1>3, <1>4, <1>5 DEF InTransaction

-----------------------------------------------------------------------------
(* The other connections *)

\* A step of c that commits nothing leaves the others as they are.
LEMMA OthersKeep ==
    ASSUME SqliteInv, NEW d \in Conn, UNCHANGED store,
           at'[d] = at[d], call'[d] = call[d], view'[d] = view[d],
           d \in stale' <=> d \in stale, writer' = d <=> writer = d
    PROVE  CallFits(d)' /\ LocksFit(d)' /\ SnapshotFits(d)'
<1>1. CallFits(d)'
  BY DEF SqliteInv, CallFits, InTransaction
<1>2. LocksFit(d)'
  BY DEF SqliteInv, LocksFit, Locked
<1>3. /\ Passed(call[d])' <=> Passed(call[d])
      /\ Unchecked(call[d])' <=> Unchecked(call[d])
      /\ UpsertUser(call[d].info)' = UpsertUser(call[d].info)
      /\ IndexAfterStore(call[d].info)' = IndexAfterStore(call[d].info)
      /\ ReplaceObject(call[d].info)' = ReplaceObject(call[d].info)
      /\ load_bucket(call[d].name)' = load_bucket(call[d].name)
      /\ Committed' = Committed
      /\ InTransaction(call[d])' <=> InTransaction(call[d])
  BY DEF store, Passed, Unchecked, UpsertUser, IndexAfterStore, ReplaceObject, load_bucket,
     Committed, InTransaction, StoreUserResult, HasUser, UserRows, HoldsForeignKey,
     CreateBucketResult, check_bucket, HasBucket, RemoveBucketResult, ObjectsOf, PutObjectResult
<1>4. Prepared(call[d], view[d])' <=> Prepared(call[d], view[d])
  BY <1>3 DEF Prepared, store
<1>5. SnapshotFits(d)'
  BY <1>3, <1>4 DEF SqliteInv, SnapshotFits
<1> QED
  BY <1>1, <1>2, <1>5

\* A commit of another process makes the snapshots of d old.
LEMMA OthersAgeAtCommit ==
    ASSUME SqliteInv, NEW d \in Conn, writer # d, writer' # d,
           at'[d] = at[d], call'[d] = call[d], view'[d] = view[d],
           d \in stale' <=> d \in stale \/ view[d] # NoTables
    PROVE  CallFits(d)' /\ LocksFit(d)' /\ SnapshotFits(d)'
<1>1. CallFits(d)'
  BY DEF SqliteInv, CallFits, InTransaction
<1>2. LocksFit(d)' /\ at[d] \notin Locked
  BY DEF SqliteInv, LocksFit, Locked
<1>3. at'[d] \notin {"reindex", "commit"}
  BY <1>2 DEF Locked
<1>4. SnapshotFits(d)'
  BY <1>3 DEF SqliteInv, SnapshotFits, InTransaction, Unchecked
<1> QED
  BY <1>1, <1>2, <1>4

\* A step of c that commits nothing keeps the invariant if c itself still fits.
LEMMA QuietStep ==
    ASSUME SqliteInv, NEW c \in Conn, UNCHANGED store, ConnectionTypes',
           \A d \in Conn \ {c} : at'[d] = at[d] /\ call'[d] = call[d] /\ view'[d] = view[d],
           \A d \in Conn \ {c} : d \in stale' <=> d \in stale,
           \A d \in Conn \ {c} : writer' = d <=> writer = d,
           CallFits(c)', LocksFit(c)', SnapshotFits(c)'
    PROVE  SqliteInv' /\ [DriverNext]_store
<1>1. TypeOK'
  BY DEF SqliteInv, TypeOK, store
<1>2. ASSUME NEW d \in Conn PROVE CallFits(d)' /\ LocksFit(d)' /\ SnapshotFits(d)'
  <2>1. CASE d = c
    BY <2>1
  <2>2. CASE d # c
    BY <2>2, OthersKeep
  <2> QED
    BY <2>1, <2>2
<1> QED
  BY <1>1, <1>2 DEF SqliteInv

\* A commit of c keeps the invariant if it is a step of Driver and c still fits.
LEMMA CommitStep ==
    ASSUME SqliteInv, NEW c \in Conn, DriverNext, ConnectionTypes',
           writer \in {c, NoConn}, writer' \in {c, NoConn},
           \A d \in Conn \ {c} : at'[d] = at[d] /\ call'[d] = call[d] /\ view'[d] = view[d],
           \A d \in Conn \ {c} : d \in stale' <=> d \in stale \/ view[d] # NoTables,
           CallFits(c)', LocksFit(c)', SnapshotFits(c)'
    PROVE  SqliteInv' /\ [DriverNext]_store
<1>1. TypeOK'
  BY DriverTypeStep DEF SqliteInv
<1>2. ASSUME NEW d \in Conn PROVE CallFits(d)' /\ LocksFit(d)' /\ SnapshotFits(d)'
  <2>1. CASE d = c
    BY <2>1
  <2>2. CASE d # c
    <3>1. writer # d /\ writer' # d
      BY <2>2, SqliteAssumption
    <3> QED
      BY <2>2, <3>1, OthersAgeAtCommit
  <2> QED
    BY <2>1, <2>2
<1> QED
  BY <1>1, <1>2 DEF SqliteInv

\* A connection that is done, or idle, has let go of everything.
LEMMA AtRest ==
    ASSUME SqliteAssumption, ConnectionTypes', NEW c \in Conn, at'[c] \in {"idle", "done"},
           at'[c] = "done" => call'[c] \in Call,
           view'[c] = NoTables, writer' # c, c \notin stale'
    PROVE  CallFits(c)' /\ LocksFit(c)' /\ SnapshotFits(c)'
  BY DEF CallFits, LocksFit, SnapshotFits, Locked

\* What End does to the connections.
LEMMA EndEffect ==
    ASSUME SqliteInv, NEW c \in Conn, at[c] # "idle", NEW result, End(c, result)
    PROVE  /\ ConnectionTypes'
           /\ at'[c] = "done" /\ call'[c] \in Call /\ view'[c] = NoTables
           /\ writer' # c /\ (writer \in {c, NoConn} => writer' = NoConn)
           /\ \A d \in Conn \ {c} : at'[d] = at[d] /\ call'[d] = call[d] /\ view'[d] = view[d]
           /\ \A d \in Conn \ {c} : writer' = d <=> writer = d
<1>1. "done" \in Statement /\ NoConn \notin Conn
  BY SqliteAssumption DEF Statement
<1> QED
  BY <1>1 DEF SqliteInv, ConnectionTypes, CallFits, End, Released

LEMMA EndStep ==
    ASSUME SqliteInv, NEW c \in Conn, at[c] # "idle", NEW result, End(c, result), NoCommit(c)
    PROVE  SqliteInv' /\ [DriverNext]_store
<1>1. c \notin stale' /\ UNCHANGED store /\ \A d \in Conn \ {c} : d \in stale' <=> d \in stale
  BY EndEffect DEF NoCommit
<1>2. CallFits(c)' /\ LocksFit(c)' /\ SnapshotFits(c)'
  BY <1>1, EndEffect, AtRest, SqliteAssumption
<1> QED
  BY <1>1, <1>2, EndEffect, QuietStep

-----------------------------------------------------------------------------
(* One step per action *)

LEMMA IdleStep ==
    ASSUME SqliteInv, NEW c \in Conn, Return(c) \/ Crash(c)
    PROVE  SqliteInv' /\ [DriverNext]_store
<1>1. Idle(c) /\ writer' = (IF writer = c THEN NoConn ELSE writer)
  <2>1. CASE Return(c)
    BY <2>1 DEF SqliteInv, LocksFit, Locked, Return
  <2>2. CASE Crash(c)
    BY <2>2 DEF Crash
  <2> QED
    BY <2>1, <2>2
<1>2. "idle" \in Statement /\ NoConn \notin Conn
  BY SqliteAssumption DEF Statement
<1>3. /\ ConnectionTypes'
      /\ at'[c] = "idle" /\ view'[c] = NoTables /\ writer' # c /\ c \notin stale'
      /\ \A d \in Conn \ {c} : at'[d] = at[d] /\ call'[d] = call[d] /\ view'[d] = view[d]
      /\ \A d \in Conn \ {c} : d \in stale' <=> d \in stale
      /\ \A d \in Conn \ {c} : writer' = d <=> writer = d
      /\ UNCHANGED store
  BY <1>1, <1>2 DEF SqliteInv, ConnectionTypes, Idle
<1>4. CallFits(c)' /\ LocksFit(c)' /\ SnapshotFits(c)'
  BY <1>3, AtRest, SqliteAssumption
<1> QED
  BY <1>3, <1>4, QuietStep

LEMMA StartStep ==
    ASSUME SqliteInv, NEW c \in Conn, Start(c)
    PROVE  SqliteInv' /\ [DriverNext]_store
<1>1. PICK k \in Calls[c] : /\ call' = [call EXCEPT ![c] = k]
                            /\ at' = [at EXCEPT ![c] = FirstStatement(k)]
  BY DEF Start
<1>2. k \in Call
  BY SqliteAssumption
<1>3. /\ FirstStatement(k) \in {"select", "upsert", "write", "bucket"}
      /\ FirstStatement(k) = "select" => InTransaction(k)
      /\ FirstStatement(k) = "upsert" => k.op = "store_user" /\ Unchecked(k)
      /\ FirstStatement(k) = "write" => k.op = "remove_user"
      /\ FirstStatement(k) = "bucket" => ~InTransaction(k)
  BY <1>2, CallShapes DEF FirstStatement, InTransaction, Unchecked
<1>4. /\ at[c] = "idle" /\ UNCHANGED store /\ UNCHANGED <<view, stale, writer>>
      /\ view[c] = NoTables /\ writer # c /\ c \notin stale
  BY DEF Start, SqliteInv, LocksFit, Locked
<1>5. /\ ConnectionTypes'
      /\ at'[c] = FirstStatement(k) /\ call'[c] = k /\ view'[c] = NoTables
      /\ \A d \in Conn \ {c} : at'[d] = at[d] /\ call'[d] = call[d] /\ view'[d] = view[d]
  BY <1>1, <1>2, <1>3, <1>4 DEF SqliteInv, ConnectionTypes, Statement
<1>6. CallFits(c)'
  BY <1>2, <1>3, <1>5 DEF CallFits, InTransaction
<1>7. LocksFit(c)'
  BY <1>3, <1>4, <1>5 DEF LocksFit, Locked
<1>8. SnapshotFits(c)'
  <2>1. at'[c] \in {"upsert", "write"} => Unchecked(call[c])'
    BY <1>3, <1>5 DEF Unchecked
  <2>2. at'[c] \notin {"reindex", "commit"}
    BY <1>3, <1>5
  <2> QED
    BY <1>5, <2>1, <2>2 DEF SnapshotFits
<1> QED
  BY <1>4, <1>5, <1>6, <1>7, <1>8, QuietStep

LEMMA SelectStep ==
    ASSUME SqliteInv, NEW c \in Conn, Select(c)
    PROVE  SqliteInv' /\ [DriverNext]_store
<1>1. /\ at[c] = "select" /\ call[c] \in Call /\ InTransaction(call[c])
      /\ view[c] = NoTables /\ writer # c /\ c \notin stale
      /\ NoCommit(c)
  BY DEF Select, SqliteInv, CallFits, LocksFit, Locked
<1>2. CASE SelectResult(c, call[c]) # "Ok"
  <2>1. End(c, <<SelectResult(c, call[c])>>)
    BY <1>2 DEF Select
  <2> QED
    BY <1>1, <2>1, EndStep
<1>3. CASE SelectResult(c, call[c]) = "Ok"
  <2> DEFINE next == IF call[c].op = "store_user" THEN "upsert" ELSE "write"
  <2>1. Continue(c, next, Sees(c)) /\ UNCHANGED <<row, writer>>
    BY <1>3 DEF Select
  <2>2. Sees(c) = Committed /\ Committed \in Tables /\ Committed # NoTables
    BY <1>1, SeesTables, SqliteAssumption DEF SqliteInv, Sees
  <2>3. Passed(call[c])
    BY <1>1, <1>3, <2>2, SelectsAgree
  <2>4. /\ ConnectionTypes'
        /\ at'[c] = next /\ call'[c] = call[c] /\ view'[c] = Committed
        /\ \A d \in Conn \ {c} : at'[d] = at[d] /\ call'[d] = call[d] /\ view'[d] = view[d]
        /\ UNCHANGED <<call, writer>>
    <3>1. next \in Statement
      BY DEF Statement
    <3> HIDE DEF next
    <3> QED
      BY <1>1, <2>1, <2>2, <3>1 DEF SqliteInv, ConnectionTypes, Continue
  <2>5. UNCHANGED store /\ stale' = stale
    BY <1>1, <2>2, <2>4 DEF NoCommit
  <2>6. CallFits(c)'
    BY <1>1, <2>4 DEF CallFits, InTransaction
  <2>7. LocksFit(c)'
    BY <1>1, <2>2, <2>4, <2>5 DEF LocksFit, Locked
  <2>8. SnapshotFits(c)'
    <3>1. Passed(call[c])' /\ Committed' = Committed
      BY <2>3, <2>4, <2>5 DEF store, Passed, Committed,
         StoreUserResult, HasUser, UserRows, HoldsForeignKey,
         CreateBucketResult, check_bucket, HasBucket, RemoveBucketResult, load_bucket,
         ObjectsOf, PutObjectResult
    <3>2. InTransaction(call[c])'
      BY <1>1, <2>4 DEF InTransaction
    <3> QED
      BY <2>2, <2>4, <3>1, <3>2 DEF SnapshotFits
  <2> QED
    BY <1>1, <2>4, <2>5, <2>6, <2>7, <2>8, QuietStep
<1> QED
  BY <1>2, <1>3

\* The reads go from statement to statement without a snapshot, or end.
LEMMA ReadStep ==
    ASSUME SqliteInv, NEW c \in Conn,
           ReadBucket(c) \/ ReadRow(c) \/ ReadData(c) \/ ReadRows(c)
    PROVE  SqliteInv' /\ [DriverNext]_store
<1>1. /\ at[c] \in {"bucket", "row", "data", "rows"} /\ call[c] \in Call
      /\ ~InTransaction(call[c])
      /\ view[c] = NoTables /\ writer # c /\ c \notin stale
      /\ NoCommit(c)
  BY DEF ReadBucket, ReadRow, ReadData, ReadRows, SqliteInv, CallFits, LocksFit, Locked
<1>2. CASE \E result : End(c, result)
  BY <1>1, <1>2, EndStep
<1>3. ASSUME NEW next \in {"row", "data", "rows"}, Continue(c, next, Sees(c)), UNCHANGED writer
      PROVE  SqliteInv' /\ [DriverNext]_store
  <2>1. /\ ConnectionTypes'
        /\ at'[c] = next /\ call'[c] = call[c] /\ view'[c] = NoTables
        /\ \A d \in Conn \ {c} : at'[d] = at[d] /\ call'[d] = call[d] /\ view'[d] = view[d]
    BY <1>1, <1>3 DEF SqliteInv, ConnectionTypes, Continue, Statement
  <2>2. UNCHANGED store /\ c \notin stale' /\ \A d \in Conn \ {c} : d \in stale' <=> d \in stale
    BY <1>1 DEF NoCommit
  <2>3. CallFits(c)' /\ LocksFit(c)' /\ SnapshotFits(c)'
    BY <1>1, <1>3, <2>1, <2>2 DEF CallFits, LocksFit, SnapshotFits, Locked, InTransaction
  <2> QED
    BY <1>3, <2>1, <2>2, <2>3, QuietStep
<1>4. \/ \E result : End(c, result)
      \/ \E next \in {"row", "data", "rows"} : Continue(c, next, Sees(c)) /\ UNCHANGED writer
  <2>1. CASE ReadBucket(c)
    BY <2>1 DEF ReadBucket
  <2>2. CASE ReadRow(c)
    BY <2>2 DEF ReadRow
  <2>3. CASE ReadData(c) \/ ReadRows(c)
    BY <2>3 DEF ReadData, ReadRows
  <2> QED
    BY <2>1, <2>2, <2>3
<1> QED
  BY <1>2, <1>3, <1>4

LEMMA BusyStep ==
    ASSUME SqliteInv, NEW c \in Conn, Busy(c) \/ Rollback(c)
    PROVE  SqliteInv' /\ [DriverNext]_store
<1>1. at[c] # "idle" /\ NoCommit(c) /\ \E result : End(c, result)
  BY DEF Busy, Rollback
<1> QED
  BY <1>1, EndStep

LEMMA CommitOfTransaction ==
    ASSUME SqliteInv, NEW c \in Conn, Commit(c)
    PROVE  SqliteInv' /\ [DriverNext]_store
<1>1. /\ at[c] = "commit" /\ call[c] \in Call /\ InTransaction(call[c])
      /\ writer = c /\ Prepared(call[c], view[c])
  BY DEF Commit, SqliteInv, CallFits, LocksFit, SnapshotFits, Locked
<1>2. End(c, <<"Ok">>) /\ Publish(c, view[c])
  BY DEF Commit
<1>3. DriverNext
  BY <1>1, <1>2, PreparedIsDriverStep DEF Publish
<1>4. /\ c \notin stale'
      /\ \A d \in Conn \ {c} : d \in stale' <=> d \in stale \/ view[d] # NoTables
  BY <1>2 DEF Publish
<1>5. CallFits(c)' /\ LocksFit(c)' /\ SnapshotFits(c)'
  BY <1>1, <1>2, <1>4, EndEffect, AtRest, SqliteAssumption
<1> QED
  BY <1>1, <1>2, <1>3, <1>4, <1>5, EndEffect, CommitStep

\* A write statement of a transaction gets the lock and what it leaves is what it should be.
LEMMA LockedStep ==
    ASSUME SqliteInv, NEW c \in Conn, at[c] # "idle", InTransaction(call[c]), ~Blocked(c),
           NEW next \in Locked, NEW t \in Tables,
           at' = [at EXCEPT ![c] = next], view' = [view EXCEPT ![c] = t],
           UNCHANGED call, writer' = c, NoCommit(c),
           next = "reindex" => /\ call[c].op = "store_user" /\ Passed(call[c])
                               /\ t = [Committed EXCEPT !.users = UpsertUser(call[c].info)],
           next = "commit" => Prepared(call[c], t)
    PROVE  SqliteInv' /\ [DriverNext]_store
<1>1. t # NoTables /\ writer \in {c, NoConn} /\ NoConn \notin Conn
  BY SqliteAssumption DEF Blocked
<1>2. /\ ConnectionTypes'
      /\ at'[c] = next /\ call'[c] = call[c] /\ view'[c] = t /\ call[c] \in Call
      /\ \A d \in Conn \ {c} : at'[d] = at[d] /\ call'[d] = call[d] /\ view'[d] = view[d]
      /\ \A d \in Conn \ {c} : writer' = d <=> writer = d
  BY <1>1 DEF SqliteInv, ConnectionTypes, CallFits, Locked, Statement
<1>3. UNCHANGED store /\ stale' = stale
  BY <1>1, <1>2 DEF NoCommit
<1>4. CallFits(c)'
  BY <1>2 DEF CallFits, Locked, InTransaction
<1>5. LocksFit(c)'
  BY <1>1, <1>2 DEF LocksFit, Locked
<1>6. /\ Passed(call[c])' <=> Passed(call[c])
      /\ UpsertUser(call[c].info)' = UpsertUser(call[c].info)
      /\ IndexAfterStore(call[c].info)' = IndexAfterStore(call[c].info)
      /\ ReplaceObject(call[c].info)' = ReplaceObject(call[c].info)
      /\ load_bucket(call[c].name)' = load_bucket(call[c].name)
      /\ Committed' = Committed
  BY <1>2, <1>3 DEF store, Passed, UpsertUser, IndexAfterStore, ReplaceObject, load_bucket,
     Committed, StoreUserResult, HasUser, UserRows, HoldsForeignKey,
     CreateBucketResult, check_bucket, HasBucket, RemoveBucketResult, ObjectsOf, PutObjectResult
<1>7. next = "commit" => Prepared(call[c], view[c])'
  BY <1>2, <1>3, <1>6 DEF Prepared, store
<1>8. SnapshotFits(c)'
  BY <1>2, <1>6, <1>7 DEF SnapshotFits, Locked
<1> QED
  BY <1>2, <1>3, <1>4, <1>5, <1>8, QuietStep

\* What a write in a transaction does, one case of Execute.
LEMMA ExecuteInTransaction ==
    ASSUME NEW c \in Conn, Execute(c), InTransaction(call[c])
    PROVE  /\ writer' = c /\ NoCommit(c) /\ UNCHANGED call
           /\ WriteResult(c, call[c]) = "Ok" =>
                 /\ at' = [at EXCEPT ![c] = IF at[c] = "upsert" THEN "reindex" ELSE "commit"]
                 /\ view' = [view EXCEPT ![c] = Written(c, call[c])]
           /\ WriteResult(c, call[c]) # "Ok" =>
                 /\ at' = [at EXCEPT ![c] = "rollback"]
                 /\ view' = [view EXCEPT ![c] = Sees(c)]
  BY DEF Execute, Continue, Fail

LEMMA UpsertStep ==
    ASSUME SqliteInv, NEW c \in Conn, Execute(c), at[c] = "upsert"
    PROVE  SqliteInv' /\ [DriverNext]_store
<1> DEFINE k == call[c]
           t == [Committed EXCEPT !.users = UpsertUser(k.info)]
<1>1. k \in Call /\ k.op = "store_user" /\ InTransaction(k) /\ k.info \in UserInfo /\ ~Blocked(c)
  BY CallShapes DEF SqliteInv, CallFits, InTransaction, Execute
<1>2. Sees(c) = Committed /\ Passed(k)
  BY <1>1, WriterIsCurrent
<1>3. Written(c, k) = t
  BY <1>1, <1>2 DEF Written, View!UpsertUser, UpsertUser, Committed
<1>4. t \in Tables
  BY <1>1, <1>2 DEF Tables, Committed, UpsertUser, SqliteInv, TypeOK
<1>5. WriteResult(c, k) = "Ok"
  BY <1>1 DEF WriteResult
<1>6. "reindex" \in Locked
  BY DEF Locked
<1> HIDE DEF t
<1>7. /\ writer' = c /\ NoCommit(c) /\ UNCHANGED call
      /\ at' = [at EXCEPT ![c] = "reindex"] /\ view' = [view EXCEPT ![c] = t]
  BY <1>1, <1>3, <1>5, ExecuteInTransaction
<1> QED
  BY <1>1, <1>2, <1>4, <1>6, <1>7, LockedStep DEF t

LEMMA ReindexStep ==
    ASSUME SqliteInv, NEW c \in Conn, Execute(c), at[c] = "reindex"
    PROVE  SqliteInv' /\ [DriverNext]_store
<1> DEFINE k == call[c]
           t == [view[c] EXCEPT !.access_keys = IndexAfterStore(k.info)]
<1>1. k \in Call /\ k.op = "store_user" /\ InTransaction(k) /\ k.info \in UserInfo /\ ~Blocked(c)
  BY CallShapes DEF SqliteInv, CallFits, InTransaction, Execute
<1>2. view[c] = [Committed EXCEPT !.users = UpsertUser(k.info)] /\ Passed(k)
  BY DEF SqliteInv, SnapshotFits
<1>3. view[c] \in Tables
  BY <1>1, <1>2 DEF Tables, Committed, UpsertUser, SqliteInv, TypeOK
<1>4. Sees(c) = view[c] /\ Sees(c).access_keys = access_keys
  BY <1>2, <1>3, SqliteAssumption DEF Sees, Committed
<1>5. Written(c, k) = t
  BY <1>1, <1>4 DEF Written, View!IndexAfterStore, IndexAfterStore
<1>6. t \in Tables
  <2>1. IndexAfterStore(k.info) \subseteq KeyRow
    BY <1>1 DEF IndexAfterStore, KeyRow, UserInfo, SqliteInv, TypeOK
  <2> QED
    BY <1>3, <2>1 DEF Tables
<1>7. Prepared(k, t)
  BY <1>1, <1>2 DEF Prepared, Committed
<1>8. WriteResult(c, k) = "Ok" /\ "commit" \in Locked
  BY <1>1 DEF WriteResult, Locked
<1> HIDE DEF t
<1>9. /\ writer' = c /\ NoCommit(c) /\ UNCHANGED call
      /\ at' = [at EXCEPT ![c] = "commit"] /\ view' = [view EXCEPT ![c] = t]
  BY <1>1, <1>5, <1>8, ExecuteInTransaction
<1> QED
  BY <1>1, <1>6, <1>7, <1>8, <1>9, LockedStep

\* The one write of a bucket or object call leaves what Driver's step would.
LEMMA WritePrepares ==
    ASSUME SqliteInv, NEW c \in Conn, at[c] = "write", NEW k \in Call, k = call[c],
           InTransaction(k), k.op # "store_user", Sees(c) = Committed, Passed(k)
    PROVE  Written(c, k) \in Tables /\ Prepared(k, Written(c, k))
<1>1. Committed \in Tables /\ DOMAIN Committed = {"users", "access_keys", "buckets", "objects"}
  BY SeesTables DEF SqliteInv, Committed
<1>2. CASE k.op = "create_bucket"
  <2>1. Written(c, k) = [Committed EXCEPT !.buckets = buckets \cup {k.info}]
    BY <1>2 DEF Written, Committed
  <2>2. k.info \in BucketInfo
    BY <1>2, CallShapes
  <2> QED
    BY <1>2, <2>1, <2>2 DEF Prepared, Committed, Tables, SqliteInv, TypeOK
<1>3. CASE k.op = "remove_bucket"
  <2>1. Written(c, k) =
            [Committed EXCEPT !.buckets = {b \in buckets : b.bucket_id # load_bucket(k.name).bucket_id}]
    BY <1>3 DEF Written, Committed, View!load_bucket, load_bucket
  <2> QED
    BY <1>3, <2>1 DEF Prepared, Committed, Tables, SqliteInv, TypeOK
<1>4. CASE k.op = "put_object"
  <2>1. Written(c, k) = [Committed EXCEPT !.objects = ReplaceObject(k.info)]
    BY <1>4 DEF Written, Committed, View!ReplaceObject, ReplaceObject
  <2>2. ReplaceObject(k.info) \subseteq ObjectInfo
    BY <1>4, CallShapes DEF ReplaceObject, SqliteInv, TypeOK
  <2> QED
    BY <1>4, <2>1, <2>2 DEF Prepared, Committed, Tables, SqliteInv, TypeOK
<1>5. CASE k.op = "delete_object"
  <2>1. Written(c, k) =
            [Committed EXCEPT !.objects = {o \in objects : o.bucket_id # k.id \/ o.name # k.name}]
    BY <1>5 DEF Written, Committed
  <2> QED
    BY <1>5, <2>1 DEF Prepared, Committed, Tables, SqliteInv, TypeOK
<1> QED
  BY <1>2, <1>3, <1>4, <1>5 DEF InTransaction

LEMMA WriteStep ==
    ASSUME SqliteInv, NEW c \in Conn, Execute(c), at[c] = "write", InTransaction(call[c])
    PROVE  SqliteInv' /\ [DriverNext]_store
<1> DEFINE k == call[c]
<1>1. k \in Call /\ k.op # "store_user" /\ ~Blocked(c)
  BY DEF SqliteInv, CallFits, Execute
<1>2. Sees(c) = Committed /\ Passed(k)
  BY <1>1, WriterIsCurrent
<1>3. Written(c, k) \in Tables /\ Prepared(k, Written(c, k))
  BY <1>1, <1>2, WritePrepares
<1>4. Sees(c) \in Tables
  BY SeesTables DEF SqliteInv
<1>5. "commit" \in Locked /\ "rollback" \in Locked
  BY DEF Locked
<1>6. CASE WriteResult(c, k) = "Ok"
  <2>1. /\ writer' = c /\ NoCommit(c) /\ UNCHANGED call
        /\ at' = [at EXCEPT ![c] = "commit"] /\ view' = [view EXCEPT ![c] = Written(c, k)]
    BY <1>6, ExecuteInTransaction
  <2> QED
    BY <1>1, <1>3, <1>5, <2>1, LockedStep
<1>7. CASE WriteResult(c, k) # "Ok"
  <2>1. /\ writer' = c /\ NoCommit(c) /\ UNCHANGED call
        /\ at' = [at EXCEPT ![c] = "rollback"] /\ view' = [view EXCEPT ![c] = Sees(c)]
    BY <1>7, ExecuteInTransaction
  <2> QED
    BY <1>1, <1>4, <1>5, <2>1, LockedStep
<1> QED
  BY <1>6, <1>7

\* remove_user is one statement outside a transaction: a commit of its own.
LEMMA RemoveUserStep ==
    ASSUME SqliteInv, NEW c \in Conn, Execute(c), at[c] = "write", ~InTransaction(call[c])
    PROVE  SqliteInv' /\ [DriverNext]_store
<1> DEFINE k == call[c]
           t == Written(c, k)
<1>1. k \in Call /\ k.op = "remove_user" /\ k.uid \in Uid /\ ~Blocked(c)
  BY CallShapes DEF SqliteInv, CallFits, Execute
<1>2. Sees(c) = Committed
  BY <1>1, WriterIsCurrent
<1>3. CASE WriteResult(c, k) # "Ok"
  <2>1. End(c, <<WriteResult(c, k)>>) /\ NoCommit(c)
    BY <1>3 DEF Execute
  <2> QED
    BY <2>1, EndStep
<1>4. CASE WriteResult(c, k) = "Ok"
  <2>1. End(c, <<"Ok">>) /\ Publish(c, t)
    BY <1>4 DEF Execute
  <2>2. /\ t.users = {u \in users : u.user_id # k.uid}
        /\ t.access_keys = {r \in access_keys : r.uid # k.uid}
        /\ t.buckets = buckets /\ t.objects = objects
    <3>1. t = [Committed EXCEPT !.users = {u \in @ : u.user_id # k.uid},
                                !.access_keys = {r \in @ : r.uid # k.uid}]
      BY <1>1, <1>2 DEF Written
    <3> HIDE DEF t
    <3> QED
      BY <3>1 DEF Committed
  <2>3. RemoveUserResult(k.uid) = "Ok"
    BY <1>1, <1>2, <1>4 DEF WriteResult, Committed, RemoveUserResult, HasUser, UserRows,
       View!RemoveUserResult, View!HasUser, View!UserRows
  <2> HIDE DEF t
  <2>4. remove_user(k.uid)
    BY <2>1, <2>2, <2>3 DEF Publish, remove_user
  <2>5. DriverNext
    BY <1>1, <2>4 DEF DriverNext
  <2>6. /\ c \notin stale'
        /\ \A d \in Conn \ {c} : d \in stale' <=> d \in stale \/ view[d] # NoTables
    BY <2>1 DEF Publish
  <2>7. writer \in {c, NoConn} /\ writer' \in {c, NoConn}
    <3>1. writer \in {c, NoConn}
      BY <1>1 DEF Blocked
    <3> QED
      BY <2>1, <3>1, EndEffect
  <2>8. CallFits(c)' /\ LocksFit(c)' /\ SnapshotFits(c)'
    BY <2>1, <2>6, EndEffect, AtRest, SqliteAssumption
  <2> QED
    BY <2>1, <2>5, <2>6, <2>7, <2>8, EndEffect, CommitStep
<1> QED
  BY <1>3, <1>4

-----------------------------------------------------------------------------

LEMMA SqliteInitOK == SqliteInit => SqliteInv
<1> SUFFICES ASSUME SqliteInit PROVE SqliteInv
  OBVIOUS
<1>1. TypeOK
  BY DriverInitConsistent DEF SqliteInit
<1>2. ConnectionTypes
  BY DEF SqliteInit, ConnectionTypes, Statement
<1>3. ASSUME NEW c \in Conn PROVE CallFits(c) /\ LocksFit(c) /\ SnapshotFits(c)
  BY SqliteAssumption DEF SqliteInit, CallFits, LocksFit, SnapshotFits, Locked
<1> QED
  BY <1>1, <1>2, <1>3 DEF SqliteInv

LEMMA SqliteStep == SqliteInv /\ [SqliteNext]_sqlite => SqliteInv' /\ [DriverNext]_store
<1> SUFFICES ASSUME SqliteInv, [SqliteNext]_sqlite PROVE SqliteInv' /\ [DriverNext]_store
  OBVIOUS
<1>1. CASE UNCHANGED sqlite
  <2>1. UNCHANGED <<users, access_keys, buckets, objects, call, at, view, stale, writer>>
    BY <1>1 DEF sqlite, connections
  <2>2. TypeOK' /\ ConnectionTypes' /\ UNCHANGED store
    BY <2>1 DEF SqliteInv, TypeOK, ConnectionTypes, store
  <2>3. ASSUME NEW d \in Conn PROVE CallFits(d)' /\ LocksFit(d)' /\ SnapshotFits(d)'
    BY <2>1, <2>2, OthersKeep
  <2> QED
    BY <2>2, <2>3 DEF SqliteInv
<1>2. CASE SqliteNext
  <2>1. PICK c \in Conn : Start(c) \/ Step(c) \/ Crash(c)
    BY <1>2 DEF SqliteNext
  <2>2. CASE Execute(c)
    <3>1. at[c] \in {"upsert", "reindex", "write"}
      BY <2>2 DEF Execute
    <3> QED
      BY <2>2, <3>1, UpsertStep, ReindexStep, WriteStep, RemoveUserStep
  <2>3. CASE Start(c) \/ Crash(c) \/ Return(c)
    BY <2>3, StartStep, IdleStep
  <2>4. CASE Select(c) \/ Commit(c) \/ Busy(c) \/ Rollback(c)
    BY <2>4, SelectStep, CommitOfTransaction, BusyStep
  <2>5. CASE ReadBucket(c) \/ ReadRow(c) \/ ReadData(c) \/ ReadRows(c)
    BY <2>5, ReadStep
  <2> QED
    BY <2>1, <2>2, <2>3, <2>4, <2>5 DEF Step
<1> QED
  BY <1>1, <1>2

(***************************************************************************)
(* The processes change the committed tables as if every driver call were  *)
(* one step: with_tx's deferred transactions and SQLite's lock give the    *)
(* atomicity that Driver, and with it the gateway, takes for granted.      *)
(***************************************************************************)
THEOREM SqliteImplementsDriver == SqliteSpec => DriverSpec
<1>1. SqliteInit => SqliteInv /\ DriverInit
  BY SqliteInitOK DEF SqliteInit
<1> QED
  BY <1>1, SqliteStep, PTL DEF SqliteSpec, DriverSpec

(***************************************************************************)
(* Whatever way the closure of a driver call ends, its connection has      *)
(* given back the write lock and its snapshot (with_conn, with_tx).        *)
(***************************************************************************)
THEOREM ConnectionsLetGo == SqliteSpec => []OnlyCallsHoldLocks
<1>1. SqliteInv => OnlyCallsHoldLocks
  BY DEF SqliteInv, LocksFit, Locked, OnlyCallsHoldLocks
<1> QED
  BY <1>1, SqliteInitOK, SqliteStep, PTL DEF SqliteSpec

(***************************************************************************)
(* The key index agrees with the user records in what every process commits, *)
(* crashes between the statements of store_user and remove_user included.  *)
(***************************************************************************)
THEOREM SqliteKeysConsistent == SqliteSpec => [](KeyIndexMirrorsUsers /\ AccessKeyIdentifiesUser)
<1>1. StoreConsistent => KeyIndexMirrorsUsers /\ AccessKeyIdentifiesUser
  BY DEF StoreConsistent
<1> QED
  BY <1>1, SqliteImplementsDriver, DriverConsistent, PTL

(***************************************************************************)
(* Two processes never commit two buckets of one name, nor an object whose *)
(* bucket the other removed (create_bucket, remove_bucket, put_object).    *)
(***************************************************************************)
THEOREM SqliteBucketsConsistent == SqliteSpec => [](BucketNamesOneInstance /\ ObjectsLieInBuckets)
<1>1. StoreConsistent => BucketNamesOneInstance /\ ObjectsLieInBuckets
  BY DEF StoreConsistent
<1> QED
  BY <1>1, SqliteImplementsDriver, DriverConsistent, PTL

-----------------------------------------------------------------------------
(***************************************************************************)
(* Answers.  A call in progress has seen what Driver would answer now.     *)
(* What it has found out by earlier statements is still so, or was so at   *)
(* one moment together with what Driver would have answered then: a bucket *)
(* goes only when it is empty, and an object that get_object has found is  *)
(* not replaced, because only the process that gets objects puts them.     *)
(***************************************************************************)
\* rgwd is the one process that puts objects and the one that gets them.
OneServer ==
    \A c, d \in Conn : \A k \in Calls[c], l \in Calls[d] :
        k.op = "get_object" /\ l.op = "put_object" => c = d

Underway(c) == at[c] \notin {"idle", "done"}

\* The call fits the statement of a read.
ReadFits(c) ==
    /\ at[c] # "idle" => call[c] \in Calls[c]
    /\ at[c] = "bucket"
          => call[c].op \in {"head_object", "get_object", "list_objects", "bucket_stats"}
    /\ at[c] = "row" => call[c].op \in {"head_object", "get_object"}
    /\ at[c] = "rows" => call[c].op \in {"list_objects", "bucket_stats"}
    /\ at[c] = "data" => call[c].op = "get_object"

AnswerFits(c) ==
    /\ ReadFits(c)
    /\ Underway(c) => Outcome(call[c]) \in seen[c]
    /\ at[c] = "row" => check_bucket(call[c].id) \/ <<"NoSuchKey">> \in seen[c]
    /\ at[c] = "rows" => check_bucket(call[c].id) \/ <<"Ok", {}>> \in seen[c]
    /\ at[c] = "data" =>
          /\ <<"Ok", row[c][1], row[c][1].data>> \in seen[c]
          /\ \A o \in objects : o.bucket_id = call[c].id /\ o.name = call[c].name => o = row[c][1]
    /\ at[c] = "commit" => <<"Ok">> \in seen[c]
    /\ at[c] = "rollback" => answer[c] \in seen[c]
    /\ at[c] = "done" => answer[c] \in seen[c] \cup {<<"InternalError">>}

AnswersFit ==
    /\ DOMAIN seen = Conn /\ DOMAIN answer = Conn /\ DOMAIN row = Conn
    /\ \A c \in Conn : AnswerFits(c)

LEMMA OutcomeKept ==
    ASSUME NEW c \in Conn, UNCHANGED store, call'[c] = call[c]
    PROVE  Outcome(call[c])' = Outcome(call[c])
  BY DEF store, Outcome, LoadedObject, LoadObjectResult, load_object, HasObject, ObjectsOf,
         check_bucket, StoreUserResult, HasUser, UserRows, HoldsForeignKey, RemoveUserResult,
         CreateBucketResult, HasBucket, RemoveBucketResult, load_bucket, PutObjectResult,
         DeleteObjectResult

\* What Driver answers a write whose SELECTs find nothing against it.
LEMMA OutcomePassed ==
    ASSUME NEW k \in Call, InTransaction(k), Passed(k)
    PROVE  /\ k.op # "delete_object" => Outcome(k) = <<"Ok">>
           /\ k.op = "delete_object" =>
                 Outcome(k) = IF HasObject(k.id, k.name) THEN <<"Ok">> ELSE <<"NoSuchKey">>
  BY DEF InTransaction, Passed, Outcome, DeleteObjectResult, LoadObjectResult

\* A SELECT that finds something finds what Driver would answer.
LEMMA SelectsRefuse ==
    ASSUME NEW c \in Conn, Sees(c) = Committed, NEW k \in Call, InTransaction(k),
           SelectResult(c, k) # "Ok"
    PROVE  Outcome(k) = <<SelectResult(c, k)>>
<1>1. /\ Sees(c).users = users /\ Sees(c).access_keys = access_keys
      /\ Sees(c).buckets = buckets /\ Sees(c).objects = objects
  BY DEF Committed
<1>2. CASE k.op = "store_user"
  BY <1>1, <1>2 DEF SelectResult, Outcome, StoreUserResult, HasUser, UserRows, HoldsForeignKey,
     View!StoreUserResult, View!HasUser, View!UserRows, View!HoldsForeignKey
<1>3. CASE k.op = "create_bucket"
  BY <1>1, <1>3 DEF SelectResult, Outcome, CreateBucketResult, check_bucket, HasBucket,
     View!CreateBucketResult, View!check_bucket, View!HasBucket
<1>4. CASE k.op = "remove_bucket"
  BY <1>1, <1>4 DEF SelectResult, Outcome, RemoveBucketResult, HasBucket, load_bucket, ObjectsOf,
     View!RemoveBucketResult, View!HasBucket, View!load_bucket, View!ObjectsOf
<1>5. CASE k.op = "put_object"
  BY <1>1, <1>5 DEF SelectResult, Outcome, PutObjectResult, check_bucket,
     View!PutObjectResult, View!check_bucket
<1>6. CASE k.op = "delete_object"
  BY <1>1, <1>6 DEF SelectResult, Outcome, DeleteObjectResult, LoadObjectResult,
     check_bucket, View!check_bucket
<1> QED
  BY <1>2, <1>3, <1>4, <1>5, <1>6 DEF InTransaction

\* Another connection's step that commits nothing.
LEMMA OthersAnswer ==
    ASSUME NEW d \in Conn, AnswerFits(d), UNCHANGED store, at'[d] = at[d], call'[d] = call[d],
           answer'[d] = answer[d], row'[d] = row[d], seen'[d] = seen[d]
    PROVE  AnswerFits(d)'
<1>1. Outcome(call[d])' = Outcome(call[d])
  BY OutcomeKept
<1>2. check_bucket(call[d].id)' <=> check_bucket(call[d].id)
  BY DEF check_bucket, store
<1>3. ReadFits(d)'
  BY DEF AnswerFits, ReadFits
<1> QED
  BY <1>1, <1>2, <1>3 DEF AnswerFits, Underway, store

LEMMA QuietAnswers ==
    ASSUME AnswersFit, NEW c \in Conn, UNCHANGED store,
           DOMAIN seen' = Conn, DOMAIN answer' = Conn, DOMAIN row' = Conn,
           \A d \in Conn \ {c} : /\ at'[d] = at[d] /\ call'[d] = call[d] /\ seen'[d] = seen[d]
                                 /\ answer'[d] = answer[d] /\ row'[d] = row[d],
           AnswerFits(c)'
    PROVE  AnswersFit'
<1>1. ASSUME NEW d \in Conn \ {c} PROVE AnswerFits(d)'
  BY OthersAnswer DEF AnswersFit
<1>2. \A d \in Conn : AnswerFits(d)'
  BY <1>1
<1> QED
  BY <1>2 DEF AnswersFit

\* Another connection's commit.
LEMMA OthersAnswerAtCommit ==
    ASSUME OneServer, NEW c \in Conn, NEW d \in Conn \ {c}, AnswerFits(d), call[c] \in Calls[c],
           \A b \in buckets : (\A e \in buckets' : e.bucket_id # b.bucket_id)
                                  => ObjectsOf(b.bucket_id) = {},
           call[c].op # "put_object" => objects' \subseteq objects,
           at'[d] = at[d], call'[d] = call[d], answer'[d] = answer[d], row'[d] = row[d],
           seen[d] \subseteq seen'[d],
           Underway(d) => Outcome(call[d])' \in seen'[d]
    PROVE  AnswerFits(d)'
<1>1. ReadFits(d)' /\ ReadFits(d)
  BY DEF AnswerFits, ReadFits
<1>2. Underway(d)' => Outcome(call[d])' \in seen'[d]
  BY DEF Underway
<1>3. at[d] \in {"row", "rows"} /\ check_bucket(call[d].id) =>
         check_bucket(call[d].id)' \/ ObjectsOf(call[d].id) = {}
  BY DEF check_bucket
<1>4. at[d] = "row" => check_bucket(call[d].id)' \/ <<"NoSuchKey">> \in seen'[d]
  <2> SUFFICES ASSUME at[d] = "row", check_bucket(call[d].id), ObjectsOf(call[d].id) = {}
               PROVE  <<"NoSuchKey">> \in seen[d]
    BY <1>3 DEF AnswerFits
  <2>1. call[d].op \in {"head_object", "get_object"}
    BY <1>1 DEF ReadFits
  <2>2. Outcome(call[d]) = <<"NoSuchKey">>
    BY <2>1 DEF Outcome, LoadedObject, LoadObjectResult, HasObject, ObjectsOf
  <2> QED
    BY <2>2 DEF AnswerFits, Underway
<1>5. at[d] = "rows" => check_bucket(call[d].id)' \/ <<"Ok", {}>> \in seen'[d]
  <2> SUFFICES ASSUME at[d] = "rows", check_bucket(call[d].id), ObjectsOf(call[d].id) = {}
               PROVE  <<"Ok", {}>> \in seen[d]
    BY <1>3 DEF AnswerFits
  <2>1. call[d].op \in {"list_objects", "bucket_stats"}
    BY <1>1 DEF ReadFits
  <2>2. Outcome(call[d]) = <<"Ok", {}>>
    BY <2>1 DEF Outcome
  <2> QED
    BY <2>2 DEF AnswerFits, Underway
<1>6. at[d] = "data" => objects' \subseteq objects
  BY <1>1 DEF ReadFits, OneServer
<1> QED
  BY <1>1, <1>2, <1>4, <1>5, <1>6 DEF AnswerFits

-----------------------------------------------------------------------------
(* Answers: one lemma per action *)

\* What is left alone when c goes on to another statement and commits nothing.
LEMMA QuietFrame ==
    ASSUME SqliteInv, AnswersFit, NEW c \in Conn, NoCommit(c), UNCHANGED call, NEW next,
           at' = [at EXCEPT ![c] = next],
           answer' = answer \/ (\E r : answer' = [answer EXCEPT ![c] = r]),
           row' = row \/ (\E r : row' = [row EXCEPT ![c] = r])
    PROVE  /\ UNCHANGED store /\ seen' = seen /\ at'[c] = next /\ call'[c] = call[c]
           /\ DOMAIN seen' = Conn /\ DOMAIN answer' = Conn /\ DOMAIN row' = Conn
           /\ \A d \in Conn \ {c} : /\ at'[d] = at[d] /\ call'[d] = call[d] /\ seen'[d] = seen[d]
                                    /\ answer'[d] = answer[d] /\ row'[d] = row[d]
           /\ Outcome(call[c])' = Outcome(call[c])
<1>1. UNCHANGED store /\ seen' = seen
  BY DEF NoCommit
<1>2. Outcome(call[c])' = Outcome(call[c])
  BY <1>1, OutcomeKept
<1>3. DOMAIN at = Conn
  BY DEF SqliteInv, ConnectionTypes
<1> QED
  BY <1>1, <1>2, <1>3 DEF AnswersFit

\* A call that ends with what it has seen, or with InternalError.
LEMMA EndAnswers ==
    ASSUME SqliteInv, AnswersFit, NEW c \in Conn, at[c] # "idle", NEW result,
           End(c, result), NoCommit(c), result \in seen[c] \cup {<<"InternalError">>}
    PROVE  AnswersFit'
<1>1. /\ UNCHANGED call /\ at' = [at EXCEPT ![c] = "done"]
      /\ answer' = [answer EXCEPT ![c] = result] /\ row' = [row EXCEPT ![c] = None]
  BY DEF End
<1>2. answer'[c] = result
  BY <1>1 DEF AnswersFit
<1>3. at'[c] = "done" /\ call'[c] = call[c] /\ seen' = seen
  BY <1>1, QuietFrame
<1>4. AnswerFits(c)'
  BY <1>2, <1>3 DEF AnswersFit, AnswerFits, ReadFits, Underway
<1> QED
  BY <1>1, <1>4, QuietFrame, QuietAnswers

\* A transaction that goes on, to a statement about which nothing new is claimed.
LEMMA ContinueAnswers ==
    ASSUME SqliteInv, AnswersFit, NEW c \in Conn, Underway(c), NoCommit(c), UNCHANGED call,
           NEW next \in {"upsert", "reindex", "write", "commit", "rollback"},
           at' = [at EXCEPT ![c] = next],
           answer' = answer \/ (\E r : answer' = [answer EXCEPT ![c] = r]),
           UNCHANGED row,
           next = "commit" => <<"Ok">> \in seen[c],
           next = "rollback" => answer'[c] \in seen[c]
    PROVE  AnswersFit'
<1>1. /\ at'[c] = next /\ call'[c] = call[c] /\ seen' = seen
      /\ Outcome(call[c])' = Outcome(call[c])
  BY QuietFrame
<1>2. AnswerFits(c)'
  BY <1>1 DEF AnswersFit, AnswerFits, ReadFits, Underway
<1> QED
  BY <1>2, QuietFrame, QuietAnswers

LEMMA IdleAnswers ==
    ASSUME SqliteInv, AnswersFit, NEW c \in Conn, Return(c) \/ Crash(c)
    PROVE  AnswersFit'
<1>1. Idle(c)
  BY DEF Return, Crash
<1>2. DOMAIN at = Conn /\ DOMAIN call = Conn
  BY DEF SqliteInv, ConnectionTypes
<1>3. /\ UNCHANGED store /\ at'[c] = "idle"
      /\ DOMAIN seen' = Conn /\ DOMAIN answer' = Conn /\ DOMAIN row' = Conn
      /\ \A d \in Conn \ {c} : /\ at'[d] = at[d] /\ call'[d] = call[d] /\ seen'[d] = seen[d]
                               /\ answer'[d] = answer[d] /\ row'[d] = row[d]
  BY <1>1, <1>2 DEF Idle, AnswersFit
<1>4. AnswerFits(c)'
  BY <1>3 DEF AnswerFits, ReadFits, Underway
<1> QED
  BY <1>3, <1>4, QuietAnswers

LEMMA StartAnswers ==
    ASSUME SqliteInv, AnswersFit, NEW c \in Conn, Start(c)
    PROVE  AnswersFit'
<1>1. PICK k \in Calls[c] : /\ call' = [call EXCEPT ![c] = k]
                            /\ at' = [at EXCEPT ![c] = FirstStatement(k)]
                            /\ seen' = [seen EXCEPT ![c] = {Outcome(k)}]
  BY DEF Start
<1>2. k \in Call
  BY SqliteAssumption
<1>3. DOMAIN at = Conn /\ DOMAIN call = Conn
  BY DEF SqliteInv, ConnectionTypes
<1>4. UNCHANGED store /\ UNCHANGED <<row, answer>>
  BY DEF Start
<1>5. /\ DOMAIN seen' = Conn /\ DOMAIN answer' = Conn /\ DOMAIN row' = Conn
      /\ \A d \in Conn \ {c} : /\ at'[d] = at[d] /\ call'[d] = call[d] /\ seen'[d] = seen[d]
                               /\ answer'[d] = answer[d] /\ row'[d] = row[d]
      /\ call'[c] = k /\ at'[c] = FirstStatement(k) /\ seen'[c] = {Outcome(k)}
  BY <1>1, <1>3, <1>4 DEF AnswersFit
<1>6. Outcome(call[c])' = Outcome(k)
  BY <1>4, <1>5 DEF store, Outcome, LoadedObject, LoadObjectResult, load_object, HasObject,
     ObjectsOf, check_bucket, StoreUserResult, HasUser, UserRows, HoldsForeignKey,
     RemoveUserResult, CreateBucketResult, HasBucket, RemoveBucketResult, load_bucket,
     PutObjectResult, DeleteObjectResult
<1>7. /\ FirstStatement(k) \in {"select", "upsert", "write", "bucket"}
      /\ FirstStatement(k) = "bucket" =>
            k.op \in {"head_object", "get_object", "list_objects", "bucket_stats"}
  BY <1>2, CallShapes DEF FirstStatement
<1>8. AnswerFits(c)'
  BY <1>5, <1>6, <1>7 DEF AnswerFits, ReadFits, Underway
<1> QED
  BY <1>4, <1>5, <1>8, QuietAnswers

LEMMA SelectAnswers ==
    ASSUME SqliteInv, AnswersFit, NEW c \in Conn, Select(c)
    PROVE  AnswersFit'
<1>1. at[c] = "select" /\ NoCommit(c) /\ Underway(c)
  BY DEF Select, Underway
<1>2. call[c] \in Call /\ InTransaction(call[c]) /\ view[c] = NoTables
  BY <1>1 DEF SqliteInv, CallFits, LocksFit, Locked
<1>3. Sees(c) = Committed
  BY <1>2 DEF Sees
<1>4. CASE SelectResult(c, call[c]) = "Ok"
  <2>1. PICK next \in {"upsert", "write"} : Continue(c, next, Sees(c)) /\ UNCHANGED row
    BY <1>4 DEF Select
  <2>2. at' = [at EXCEPT ![c] = next] /\ UNCHANGED <<call, answer>>
    BY <2>1 DEF Continue
  <2> QED
    BY <1>1, <2>1, <2>2, ContinueAnswers
<1>5. CASE SelectResult(c, call[c]) # "Ok"
  <2>1. End(c, <<SelectResult(c, call[c])>>)
    BY <1>5 DEF Select
  <2>2. <<SelectResult(c, call[c])>> \in seen[c]
    BY <1>1, <1>2, <1>3, <1>5, SelectsRefuse DEF AnswersFit, AnswerFits
  <2> QED
    BY <1>1, <2>1, <2>2, EndAnswers
<1> QED
  BY <1>4, <1>5

LEMMA BusyAnswers ==
    ASSUME SqliteInv, AnswersFit, NEW c \in Conn, Busy(c) \/ Rollback(c)
    PROVE  AnswersFit'
<1>1. CASE Busy(c)
  BY <1>1, EndAnswers DEF Busy
<1>2. CASE Rollback(c)
  <2>1. at[c] = "rollback" /\ End(c, answer[c]) /\ NoCommit(c)
    BY <1>2 DEF Rollback
  <2>2. answer[c] \in seen[c]
    BY <2>1 DEF AnswersFit, AnswerFits
  <2> QED
    BY <2>1, <2>2, EndAnswers
<1> QED
  BY <1>1, <1>2

\* Outside a transaction a statement reads the last commit.
LEMMA ReadsCommitted ==
    ASSUME NEW c \in Conn, view[c] = NoTables
    PROVE  /\ \A id : View(c)!check_bucket(id) <=> check_bucket(id)
           /\ \A id, name : View(c)!HasObject(id, name) <=> HasObject(id, name)
           /\ \A id, name : View(c)!load_object(id, name) = load_object(id, name)
           /\ \A id : View(c)!ObjectsOf(id) = ObjectsOf(id)
<1>1. Sees(c).buckets = buckets /\ Sees(c).objects = objects
  BY DEF Sees, Committed
<1> QED
  BY <1>1 DEF check_bucket, HasObject, load_object, ObjectsOf, View!check_bucket,
     View!HasObject, View!load_object, View!ObjectsOf

LEMMA ReadBucketAnswers ==
    ASSUME SqliteInv, AnswersFit, NEW c \in Conn, ReadBucket(c)
    PROVE  AnswersFit'
<1>1. at[c] = "bucket" /\ NoCommit(c) /\ Underway(c)
  BY DEF ReadBucket, Underway
<1>2. view[c] = NoTables
  BY <1>1 DEF SqliteInv, LocksFit, Locked
<1>3. /\ call[c].op \in {"head_object", "get_object", "list_objects", "bucket_stats"}
      /\ Outcome(call[c]) \in seen[c] /\ call[c] \in Calls[c]
  BY <1>1 DEF AnswersFit, AnswerFits, ReadFits
<1>4. CASE ~check_bucket(call[c].id)
  <2>1. Outcome(call[c]) = <<"NoSuchBucket">>
    BY <1>3, <1>4 DEF Outcome, LoadedObject, LoadObjectResult
  <2>2. End(c, <<"NoSuchBucket">>)
    BY <1>2, <1>4, ReadsCommitted DEF ReadBucket
  <2> QED
    BY <1>1, <1>3, <2>1, <2>2, EndAnswers
<1>5. CASE check_bucket(call[c].id)
  <2> DEFINE next == IF call[c].op \in {"head_object", "get_object"} THEN "row" ELSE "rows"
  <2>1. Continue(c, next, Sees(c)) /\ UNCHANGED row
    BY <1>2, <1>5, ReadsCommitted DEF ReadBucket
  <2>2. at' = [at EXCEPT ![c] = next] /\ UNCHANGED <<call, answer>>
    BY <2>1 DEF Continue
  <2>3. \/ next = "row" /\ call[c].op \in {"head_object", "get_object"}
        \/ next = "rows" /\ call[c].op \in {"list_objects", "bucket_stats"}
    BY <1>3
  <2> HIDE DEF next
  <2>4. /\ UNCHANGED store /\ at'[c] = next /\ call'[c] = call[c] /\ seen' = seen
        /\ Outcome(call[c])' = Outcome(call[c])
    BY <1>1, <2>1, <2>2, QuietFrame
  <2>5. check_bucket(call[c].id)'
    BY <1>5, <2>4 DEF check_bucket, store
  <2>6. AnswerFits(c)'
    BY <1>3, <2>3, <2>4, <2>5 DEF AnswerFits, ReadFits, Underway
  <2> QED
    BY <1>1, <2>1, <2>2, <2>6, QuietFrame, QuietAnswers
<1> QED
  BY <1>4, <1>5

\* The row load_object returns is the one row of that name in that bucket.
LEMMA LoadedRow ==
    ASSUME ObjectsLieInBuckets, NEW id, NEW name, HasObject(id, name)
    PROVE  /\ check_bucket(id)
           /\ LoadObjectResult(id, name) = "Ok"
           /\ \A o \in objects : o.bucket_id = id /\ o.name = name => o = load_object(id, name)
<1>1. PICK o \in objects : o.bucket_id = id /\ o.name = name
  BY DEF HasObject
<1>2. check_bucket(id)
  BY <1>1 DEF ObjectsLieInBuckets
<1>3. load_object(id, name) \in objects /\ load_object(id, name).bucket_id = id
         /\ load_object(id, name).name = name
  BY <1>1 DEF load_object
<1> QED
  BY <1>2, <1>3 DEF ObjectsLieInBuckets, LoadObjectResult

LEMMA ReadRowAnswers ==
    ASSUME SqliteInv, ObjectsLieInBuckets, AnswersFit, NEW c \in Conn, ReadRow(c)
    PROVE  AnswersFit'
<1> DEFINE k == call[c]
           o == load_object(k.id, k.name)
<1>1. at[c] = "row" /\ NoCommit(c) /\ Underway(c)
  BY DEF ReadRow, Underway
<1>2. view[c] = NoTables
  BY <1>1 DEF SqliteInv, LocksFit, Locked
<1>3. /\ k.op \in {"head_object", "get_object"} /\ k \in Calls[c]
      /\ Outcome(k) \in seen[c]
      /\ check_bucket(k.id) \/ <<"NoSuchKey">> \in seen[c]
  BY <1>1 DEF AnswersFit, AnswerFits, ReadFits
<1>4. CASE ~HasObject(k.id, k.name)
  <2>1. check_bucket(k.id) => Outcome(k) = <<"NoSuchKey">>
    BY <1>3, <1>4 DEF Outcome, LoadedObject, LoadObjectResult
  <2>2. End(c, <<"NoSuchKey">>)
    BY <1>2, <1>4, ReadsCommitted DEF ReadRow
  <2> QED
    BY <1>1, <1>3, <2>1, <2>2, EndAnswers
<1>5. CASE HasObject(k.id, k.name)
  <2>1. /\ LoadObjectResult(k.id, k.name) = "Ok"
        /\ \A p \in objects : p.bucket_id = k.id /\ p.name = k.name => p = o
    BY <1>5, LoadedRow
  <2>2. k.op = "head_object" => Outcome(k) = <<"Ok", o>>
    BY <2>1 DEF Outcome, LoadedObject
  <2>3. k.op = "get_object" => Outcome(k) = <<"Ok", o, o.data>>
    BY <2>1 DEF Outcome
  <2>4. IF k.op = "head_object" THEN End(c, <<"Ok", o>>)
        ELSE IF o.data = 0 THEN End(c, <<"Ok", o, 0>>)
        ELSE Continue(c, "data", Sees(c)) /\ row' = [row EXCEPT ![c] = Some(o)]
    BY <1>2, <1>5, ReadsCommitted DEF ReadRow
  <2> HIDE DEF o
  <2>5. CASE k.op = "head_object"
    BY <1>1, <1>3, <2>2, <2>4, <2>5, EndAnswers
  <2>6. CASE k.op # "head_object" /\ o.data = 0
    BY <1>1, <1>3, <2>3, <2>4, <2>6, EndAnswers
  <2>7. CASE k.op # "head_object" /\ o.data # 0
    <3>1. /\ at' = [at EXCEPT ![c] = "data"] /\ UNCHANGED <<call, answer>>
          /\ row' = [row EXCEPT ![c] = Some(o)]
      BY <2>4, <2>7 DEF Continue
    <3>2. /\ UNCHANGED store /\ at'[c] = "data" /\ call'[c] = k /\ seen' = seen
          /\ Outcome(call[c])' = Outcome(k)
      BY <1>1, <3>1, QuietFrame
    <3>3. row'[c][1] = o
      BY <3>1 DEF AnswersFit, Some
    <3>4. <<"Ok", o, o.data>> \in seen[c] /\ k.op = "get_object"
      BY <1>3, <2>3, <2>7
    <3>5. AnswerFits(c)'
      BY <1>3, <2>1, <3>2, <3>3, <3>4 DEF AnswerFits, ReadFits, Underway, store
    <3> QED
      BY <1>1, <3>1, <3>5, QuietFrame, QuietAnswers
  <2> QED
    BY <2>5, <2>6, <2>7
<1> QED
  BY <1>4, <1>5

LEMMA ReadDataAnswers ==
    ASSUME SqliteInv, AnswersFit, NEW c \in Conn, ReadData(c)
    PROVE  AnswersFit'
<1> DEFINE k == call[c]
<1>1. at[c] = "data" /\ NoCommit(c) /\ End(c, DataRead(c, k))
  BY DEF ReadData
<1>2. view[c] = NoTables
  BY <1>1 DEF SqliteInv, LocksFit, Locked
<1>3. /\ <<"Ok", row[c][1], row[c][1].data>> \in seen[c]
      /\ \A o \in objects : o.bucket_id = k.id /\ o.name = k.name => o = row[c][1]
  BY <1>1 DEF AnswersFit, AnswerFits
<1>4. HasObject(k.id, k.name) => load_object(k.id, k.name) = row[c][1]
  BY <1>3 DEF HasObject, load_object
<1>5. DataRead(c, k) \in seen[c] \cup {<<"InternalError">>}
  BY <1>2, <1>3, <1>4, ReadsCommitted DEF DataRead
<1> QED
  BY <1>1, <1>5, EndAnswers

LEMMA ReadRowsAnswers ==
    ASSUME SqliteInv, ObjectsLieInBuckets, AnswersFit, NEW c \in Conn, ReadRows(c)
    PROVE  AnswersFit'
<1> DEFINE k == call[c]
<1>1. at[c] = "rows" /\ NoCommit(c) /\ Underway(c)
  BY DEF ReadRows, Underway
<1>2. view[c] = NoTables
  BY <1>1 DEF SqliteInv, LocksFit, Locked
<1>3. End(c, <<"Ok", ObjectsOf(k.id)>>)
  BY <1>2, ReadsCommitted DEF ReadRows
<1>4. /\ k.op \in {"list_objects", "bucket_stats"}
      /\ Outcome(k) \in seen[c]
      /\ check_bucket(k.id) \/ <<"Ok", {}>> \in seen[c]
  BY <1>1 DEF AnswersFit, AnswerFits, ReadFits
<1>5. check_bucket(k.id) => Outcome(k) = <<"Ok", ObjectsOf(k.id)>>
  BY <1>4 DEF Outcome
<1>6. ~check_bucket(k.id) => ObjectsOf(k.id) = {}
  BY DEF ObjectsLieInBuckets, ObjectsOf
<1>7. <<"Ok", ObjectsOf(k.id)>> \in seen[c]
  BY <1>4, <1>5, <1>6
<1> QED
  BY <1>1, <1>3, <1>7, EndAnswers

\* A write that SQLite lets through in a transaction.
LEMMA TransactionAnswers ==
    ASSUME SqliteInv, AnswersFit, NEW c \in Conn, Execute(c), InTransaction(call[c])
    PROVE  AnswersFit'
<1> DEFINE k == call[c]
<1>1. /\ at[c] \in {"upsert", "reindex", "write"} /\ ~Blocked(c) /\ Underway(c)
      /\ NoCommit(c) /\ UNCHANGED <<call, row>>
  BY DEF Execute, Underway, Continue, Fail
<1>2. k \in Call /\ Outcome(k) \in seen[c]
  BY <1>1 DEF SqliteInv, CallFits, AnswersFit, AnswerFits
<1>3. Passed(k)
  <2>1. CASE at[c] = "reindex"
    BY <2>1 DEF SqliteInv, SnapshotFits
  <2>2. CASE at[c] # "reindex"
    BY <1>1, <2>2, WriterIsCurrent
  <2> QED
    BY <2>1, <2>2
<1>4. CASE WriteResult(c, k) # "Ok"
  <2>1. k.op = "delete_object"
    BY <1>2, <1>4 DEF WriteResult, InTransaction
  <2>2. WriteResult(c, k) = "NoSuchKey" /\ ~View(c)!HasObject(k.id, k.name)
    BY <1>4, <2>1 DEF WriteResult
  <2>3. Sees(c) = Committed
    <3>1. at[c] = "write"
      BY <1>1, <2>1 DEF SqliteInv, CallFits
    <3> QED
      BY <1>1, <3>1, WriterIsCurrent
  <2>4. ~HasObject(k.id, k.name)
    BY <2>2, <2>3 DEF HasObject, View!HasObject, Committed
  <2>5. <<"NoSuchKey">> \in seen[c]
    BY <1>2, <1>3, <2>1, <2>4, OutcomePassed
  <2>6. at' = [at EXCEPT ![c] = "rollback"] /\ answer' = [answer EXCEPT ![c] = <<"NoSuchKey">>]
    BY <1>4, <2>2 DEF Execute, Fail
  <2>7. answer'[c] \in seen[c]
    BY <2>5, <2>6 DEF AnswersFit
  <2> QED
    BY <1>1, <2>6, <2>7, ContinueAnswers
<1>5. CASE WriteResult(c, k) = "Ok"
  <2> DEFINE next == IF at[c] = "upsert" THEN "reindex" ELSE "commit"
  <2>1. at' = [at EXCEPT ![c] = next] /\ UNCHANGED answer
    BY <1>5 DEF Execute, Continue
  <2>2. next = "commit" => <<"Ok">> \in seen[c]
    <3>1. CASE k.op # "delete_object"
      BY <1>2, <1>3, <3>1, OutcomePassed
    <3>2. CASE k.op = "delete_object"
      <4>1. Sees(c) = Committed
        BY <1>1, <3>2, WriterIsCurrent DEF SqliteInv, CallFits
      <4>2. HasObject(k.id, k.name)
        BY <1>5, <3>2, <4>1 DEF WriteResult, HasObject, View!HasObject, Committed
      <4> QED
        BY <1>2, <1>3, <3>2, <4>2, OutcomePassed
    <3> QED
      BY <3>1, <3>2
  <2>3. next \in {"reindex", "commit"}
    OBVIOUS
  <2> HIDE DEF next
  <2> QED
    BY <1>1, <2>1, <2>2, <2>3, ContinueAnswers
<1> QED
  BY <1>4, <1>5

\* What a commit of c does to the others, and to c itself.
LEMMA PublishAnswers ==
    ASSUME OneServer, SqliteInv, AnswersFit, NEW c \in Conn, at[c] # "idle", NEW t,
           End(c, <<"Ok">>), Publish(c, t), <<"Ok">> \in seen[c],
           \A b \in buckets : (\A e \in buckets' : e.bucket_id # b.bucket_id)
                                  => ObjectsOf(b.bucket_id) = {},
           call[c].op # "put_object" => objects' \subseteq objects
    PROVE  AnswersFit'
<1>1. /\ at' = [at EXCEPT ![c] = "done"] /\ answer' = [answer EXCEPT ![c] = <<"Ok">>]
      /\ row' = [row EXCEPT ![c] = None] /\ call' = call
  BY DEF End
<1>2. DOMAIN at = Conn
  BY DEF SqliteInv, ConnectionTypes
<1>3. /\ DOMAIN seen' = Conn /\ DOMAIN answer' = Conn /\ DOMAIN row' = Conn
      /\ at'[c] = "done" /\ answer'[c] = <<"Ok">> /\ seen'[c] = seen[c] /\ call'[c] = call[c]
  BY <1>1, <1>2 DEF Publish, AnswersFit
<1>4. call[c] \in Calls[c]
  BY DEF AnswersFit, AnswerFits, ReadFits
<1>5. AnswerFits(c)'
  BY <1>3, <1>4 DEF AnswerFits, ReadFits, Underway
<1>6. ASSUME NEW d \in Conn \ {c} PROVE AnswerFits(d)'
  <2>1. /\ at'[d] = at[d] /\ call'[d] = call[d] /\ answer'[d] = answer[d] /\ row'[d] = row[d]
    BY <1>1
  <2>2. /\ seen'[d] = IF at[d] \in {"idle", "done"} THEN seen[d]
                      ELSE seen[d] \cup {Outcome(call[d])'}
    BY DEF Publish
  <2>3. seen[d] \subseteq seen'[d] /\ (Underway(d) => Outcome(call[d])' \in seen'[d])
    BY <2>2 DEF Underway
  <2> QED
    BY <1>4, <2>1, <2>3, OthersAnswerAtCommit DEF AnswersFit
<1>7. \A d \in Conn : AnswerFits(d)'
  BY <1>5, <1>6
<1> QED
  BY <1>3, <1>7 DEF AnswersFit

\* Only remove_bucket takes a bucket away, and only an empty one.
LEMMA PreparedTakesEmpty ==
    ASSUME NEW k \in Call, InTransaction(k), NEW t, Prepared(k, t),
           buckets' = t.buckets, objects' = t.objects
    PROVE  /\ \A b \in buckets : (\A e \in buckets' : e.bucket_id # b.bucket_id)
                                     => ObjectsOf(b.bucket_id) = {}
           /\ k.op # "put_object" => objects' \subseteq objects
<1>1. k.op # "put_object" => objects' \subseteq objects
  BY DEF Prepared
<1>2. CASE k.op = "remove_bucket"
  <2>1. ObjectsOf(load_bucket(k.name).bucket_id) = {}
    BY <1>2 DEF Prepared, Passed, RemoveBucketResult
  <2>2. buckets' = {b \in buckets : b.bucket_id # load_bucket(k.name).bucket_id}
    BY <1>2 DEF Prepared
  <2> QED
    BY <1>1, <2>1, <2>2
<1>3. CASE k.op # "remove_bucket"
  <2>1. buckets \subseteq buckets'
    BY <1>3 DEF Prepared
  <2> QED
    BY <1>1, <2>1
<1> QED
  BY <1>2, <1>3

LEMMA CommitAnswers ==
    ASSUME OneServer, SqliteInv, AnswersFit, NEW c \in Conn, Commit(c)
    PROVE  AnswersFit'
<1>1. /\ at[c] = "commit" /\ call[c] \in Call /\ InTransaction(call[c])
      /\ Prepared(call[c], view[c])
  BY DEF Commit, SqliteInv, CallFits, SnapshotFits
<1>2. End(c, <<"Ok">>) /\ Publish(c, view[c])
  BY DEF Commit
<1>3. <<"Ok">> \in seen[c]
  BY <1>1 DEF AnswersFit, AnswerFits
<1>4. buckets' = view[c].buckets /\ objects' = view[c].objects
  BY <1>2 DEF Publish
<1>5. /\ \A b \in buckets : (\A e \in buckets' : e.bucket_id # b.bucket_id)
                                => ObjectsOf(b.bucket_id) = {}
      /\ call[c].op # "put_object" => objects' \subseteq objects
  BY <1>1, <1>4, PreparedTakesEmpty
<1> QED
  BY <1>1, <1>2, <1>3, <1>5, PublishAnswers

LEMMA RemoveUserAnswers ==
    ASSUME OneServer, SqliteInv, AnswersFit, NEW c \in Conn, Execute(c), ~InTransaction(call[c])
    PROVE  AnswersFit'
<1> DEFINE k == call[c]
           t == Written(c, k)
<1>1. at[c] = "write" /\ ~Blocked(c) /\ Underway(c)
  BY DEF Execute, SqliteInv, CallFits, InTransaction, Underway
<1>2. k \in Call /\ k.op = "remove_user" /\ Outcome(k) \in seen[c]
  BY <1>1 DEF SqliteInv, CallFits, AnswersFit, AnswerFits
<1>3. Sees(c) = Committed
  BY <1>1, WriterIsCurrent
<1>4. Outcome(k) = <<WriteResult(c, k)>>
  BY <1>2, <1>3 DEF Outcome, WriteResult, Committed, RemoveUserResult, HasUser, UserRows,
     View!RemoveUserResult, View!HasUser, View!UserRows
<1>5. CASE WriteResult(c, k) # "Ok"
  <2>1. End(c, <<WriteResult(c, k)>>) /\ NoCommit(c)
    BY <1>5 DEF Execute
  <2> QED
    BY <1>1, <1>2, <1>4, <2>1, EndAnswers
<1>6. CASE WriteResult(c, k) = "Ok"
  <2>1. End(c, <<"Ok">>) /\ Publish(c, t)
    BY <1>1, <1>6 DEF Execute
  <2>2. t.buckets = buckets /\ t.objects = objects
    <3>1. t = [Committed EXCEPT !.users = {u \in @ : u.user_id # k.uid},
                                !.access_keys = {r \in @ : r.uid # k.uid}]
      BY <1>1, <1>2, <1>3 DEF Written
    <3> HIDE DEF t
    <3> QED
      BY <3>1 DEF Committed
  <2> HIDE DEF t
  <2>3. buckets' = buckets /\ objects' = objects
    BY <2>1, <2>2 DEF Publish
  <2>4. /\ \A b \in buckets : (\A e \in buckets' : e.bucket_id # b.bucket_id)
                                  => ObjectsOf(b.bucket_id) = {}
        /\ objects' \subseteq objects
    BY <2>3
  <2>5. <<"Ok">> \in seen[c]
    BY <1>2, <1>4, <1>6
  <2> QED
    BY <1>1, <2>1, <2>4, <2>5, PublishAnswers
<1> QED
  BY <1>5, <1>6

LEMMA AnswersStep ==
    ASSUME OneServer
    PROVE  SqliteInv /\ StoreConsistent /\ AnswersFit /\ [SqliteNext]_sqlite => AnswersFit'
<1> SUFFICES ASSUME SqliteInv, StoreConsistent, AnswersFit, [SqliteNext]_sqlite
             PROVE  AnswersFit'
  OBVIOUS
<1>0. ObjectsLieInBuckets
  BY DEF StoreConsistent
<1>1. CASE UNCHANGED sqlite
  <2>1. UNCHANGED <<users, access_keys, buckets, objects, call, at, row, answer, seen>>
    BY <1>1 DEF sqlite, connections
  <2>2. UNCHANGED store
    BY <2>1 DEF store
  <2>3. ASSUME NEW d \in Conn PROVE AnswerFits(d)'
    BY <2>1, <2>2, OthersAnswer DEF AnswersFit
  <2> QED
    BY <2>1, <2>3 DEF AnswersFit
<1>2. CASE SqliteNext
  <2>1. PICK c \in Conn : Start(c) \/ Step(c) \/ Crash(c)
    BY <1>2 DEF SqliteNext
  <2>2. CASE Execute(c)
    BY <2>2, TransactionAnswers, RemoveUserAnswers
  <2>3. CASE Start(c) \/ Crash(c) \/ Return(c)
    BY <2>3, StartAnswers, IdleAnswers
  <2>4. CASE Select(c) \/ Commit(c) \/ Busy(c) \/ Rollback(c)
    BY <2>4, SelectAnswers, CommitAnswers, BusyAnswers
  <2>5. CASE ReadBucket(c) \/ ReadRow(c) \/ ReadData(c) \/ ReadRows(c)
    BY <1>0, <2>5, ReadBucketAnswers, ReadRowAnswers, ReadDataAnswers, ReadRowsAnswers
  <2> QED
    BY <2>1, <2>2, <2>3, <2>4, <2>5 DEF Step
<1> QED
  BY <1>1, <1>2

(***************************************************************************)
(* With one process serving the objects, a call that ends answers what     *)
(* Driver would have answered in one step at some moment while it ran, or  *)
(* InternalError, however many processes there are and whatever they call: *)
(* get_object's three statements and the two of the listings never mix two *)
(* commits, and no check of a writer is undone before its write.           *)
(***************************************************************************)
THEOREM AnswersHold == ASSUME OneServer PROVE SqliteSpec => []AnswersHeldOnce
<1>1. SqliteInit => SqliteInv /\ AnswersFit
  <2>1. SqliteInit => AnswersFit
    BY DEF SqliteInit, AnswersFit, AnswerFits, ReadFits, Underway
  <2> QED
    BY <2>1, SqliteInitOK
<1>2. SqliteInv /\ StoreConsistent /\ AnswersFit /\ [SqliteNext]_sqlite => AnswersFit'
  BY AnswersStep
<1>3. AnswersFit => AnswersHeldOnce
  BY DEF AnswersFit, AnswerFits, AnswersHeldOnce
<1>4. SqliteSpec => []StoreConsistent
  BY SqliteImplementsDriver, DriverConsistent, PTL
<1> QED
  BY <1>1, <1>2, <1>3, <1>4, SqliteStep, PTL DEF SqliteSpec

=============================================================================
