------------------------------ MODULE SqliteTx ------------------------------
(***************************************************************************)
(* A driver call opened into its SQL statements.  rgwd and radosgw-admin   *)
(* are two processes with a connection each to one database file in WAL    *)
(* mode.  Inside a process the mutex of with_conn makes calls one after    *)
(* the other; between processes only SQLite orders them:                   *)
(*                                                                         *)
(*  - with_tx opens a DEFERRED transaction: its first SELECT pins a        *)
(*    snapshot of the last commit, its first write asks for the one write  *)
(*    lock.  A connection whose snapshot is no longer the last commit, or  *)
(*    that finds the lock taken, gets BUSY, which the code turns into      *)
(*    InternalError and a rollback (a write with no snapshot pinned first  *)
(*    waits for the lock for the busy timeout; the wait is not taking      *)
(*    Busy yet);                                                           *)
(*  - with_conn alone runs every statement in a transaction of its own, so *)
(*    the reads that need several statements see several commits;          *)
(*  - a process may die between two statements; what it had not committed  *)
(*    is gone.                                                             *)
(*                                                                         *)
(* The committed tables are the variables of Driver, and the module shows  *)
(* that they change as if every call were one step of Driver.  View(c) is  *)
(* Driver over the tables connection c sees.  SELECTs that follow each     *)
(* other in one transaction read one snapshot and are one step here.       *)
(***************************************************************************)
EXTENDS Driver

CONSTANTS
    Conn,      \* connections, one per process
    NoConn,    \* nobody holds the write lock
    NoTables,  \* no transaction is open, or none of its statements has run
    NoCall,    \* the connection is idle
    Calls      \* Calls[c]: the calls process c makes, with their arguments

VARIABLES
    call,    \* call[c]: the call the connection's closure runs
    at,      \* at[c]: the statement it comes to next
    view,    \* view[c]: the tables as the open transaction sees and has changed them
    row,     \* row[c]: the ObjectInfo that load_object returned to get_object
    stale,   \* the connections whose snapshot is older than the last commit
    writer,  \* the connection that holds SQLite's write lock
    answer,  \* answer[c]: what the call returns, when at[c] = "done"
    seen     \* history: what Driver would have answered at some moment of the call

connections == <<call, at, view, row, stale, writer, answer, seen>>
sqlite      == <<users, access_keys, buckets, objects, connections>>

Tables == [users: SUBSET UserInfo, access_keys: SUBSET KeyRow,
           buckets: SUBSET BucketInfo, objects: SUBSET ObjectInfo]

Call ==
    [op: {"store_user"}, info: UserInfo, exclusive: BOOLEAN]
        \cup [op: {"remove_user"}, uid: Uid]
        \cup [op: {"create_bucket"}, info: BucketInfo]
        \cup [op: {"remove_bucket"}, name: BucketName]
        \cup [op: {"put_object"}, info: ObjectInfo]
        \cup [op: {"delete_object", "head_object", "get_object"}, id: BucketId, name: ObjectName]
        \cup [op: {"list_objects", "bucket_stats"}, id: BucketId]

ASSUME SqliteAssumption ==
    /\ NoConn \notin Conn
    /\ NoTables \notin Tables
    /\ NoCall \notin Call
    /\ Calls \in [Conn -> SUBSET Call]

Statement == {"idle", "select", "upsert", "reindex", "write", "commit", "rollback",
              "bucket", "row", "data", "rows", "done"}

\* What the last commit left.
Committed == [users |-> users, access_keys |-> access_keys,
              buckets |-> buckets, objects |-> objects]

\* What a statement of c reads: its transaction's tables, or else the last commit.
Sees(c) == IF view[c] = NoTables THEN Committed ELSE view[c]

View(c) == INSTANCE Driver WITH
    users <- Sees(c).users, access_keys <- Sees(c).access_keys,
    buckets <- Sees(c).buckets, objects <- Sees(c).objects

-----------------------------------------------------------------------------
(* What a call answers when it is one step of Driver *)

LoadedObject(id, name) ==
    IF LoadObjectResult(id, name) = "Ok" THEN <<"Ok", load_object(id, name)>>
    ELSE <<LoadObjectResult(id, name)>>

Outcome(k) ==
    CASE k.op = "store_user"    -> <<StoreUserResult(k.info, k.exclusive)>>
      [] k.op = "remove_user"   -> <<RemoveUserResult(k.uid)>>
      [] k.op = "create_bucket" -> <<CreateBucketResult(k.info)>>
      [] k.op = "remove_bucket" -> <<RemoveBucketResult(k.name)>>
      [] k.op = "put_object"    -> <<PutObjectResult(k.info)>>
      [] k.op = "delete_object" -> <<DeleteObjectResult(k.id, k.name)>>
      [] k.op = "head_object"   -> LoadedObject(k.id, k.name)
      [] k.op = "get_object"    ->
            IF LoadObjectResult(k.id, k.name) = "Ok"
            THEN <<"Ok", load_object(k.id, k.name), load_object(k.id, k.name).data>>
            ELSE <<LoadObjectResult(k.id, k.name)>>
      [] OTHER ->
            IF check_bucket(k.id) THEN <<"Ok", ObjectsOf(k.id)>> ELSE <<"NoSuchBucket">>

-----------------------------------------------------------------------------
(* Statements *)

\* Mutant of InTransaction: store_user runs in with_conn.
InTransactionNotUsers(k) ==
    k.op \in {"create_bucket", "remove_bucket", "put_object", "delete_object"}

\* Mutant of InTransaction: create_bucket and remove_bucket run in with_conn.
InTransactionNotBuckets(k) == k.op \in {"store_user", "put_object", "delete_object"}

\* The calls whose closure runs in with_tx; the others have with_conn alone.
InTransaction(k) ==
    k.op \in {"store_user", "create_bucket", "remove_bucket", "put_object", "delete_object"}

\* store_user has nothing to SELECT for a plain upsert of a user without keys.
FirstStatement(k) ==
    CASE k.op = "store_user" ->
            IF k.exclusive \/ k.info.access_keys # {} THEN "select" ELSE "upsert"
      [] k.op = "remove_user" -> "write"
      [] k.op \in {"create_bucket", "remove_bucket", "put_object", "delete_object"} -> "select"
      [] OTHER -> "bucket"

\* The SELECTs that precede a call's writes.
SelectResult(c, k) ==
    CASE k.op = "store_user"    -> View(c)!StoreUserResult(k.info, k.exclusive)
      [] k.op = "create_bucket" -> View(c)!CreateBucketResult(k.info)
      [] k.op = "remove_bucket" -> View(c)!RemoveBucketResult(k.name)
      [] k.op = "put_object"    -> View(c)!PutObjectResult(k.info)
      [] k.op = "delete_object" -> IF View(c)!check_bucket(k.id) THEN "Ok" ELSE "NoSuchBucket"

\* DELETE reports a row count, and 0 rows become an error.
WriteResult(c, k) ==
    CASE k.op = "remove_user"   -> View(c)!RemoveUserResult(k.uid)
      [] k.op = "delete_object" -> IF View(c)!HasObject(k.id, k.name) THEN "Ok" ELSE "NoSuchKey"
      [] OTHER -> "Ok"

\* The tables after a write statement of c (ON DELETE CASCADE included).
Written(c, k) ==
    CASE at[c] = "upsert" -> [Sees(c) EXCEPT !.users = View(c)!UpsertUser(k.info)]
      [] at[c] = "reindex" -> [Sees(c) EXCEPT !.access_keys = View(c)!IndexAfterStore(k.info)]
      [] k.op = "remove_user" ->
            [Sees(c) EXCEPT !.users = {u \in @ : u.user_id # k.uid},
                            !.access_keys = {r \in @ : r.uid # k.uid}]
      [] k.op = "create_bucket" -> [Sees(c) EXCEPT !.buckets = @ \cup {k.info}]
      [] k.op = "remove_bucket" ->
            [Sees(c) EXCEPT !.buckets =
                {b \in @ : b.bucket_id # View(c)!load_bucket(k.name).bucket_id}]
      [] k.op = "put_object" -> [Sees(c) EXCEPT !.objects = View(c)!ReplaceObject(k.info)]
      [] k.op = "delete_object" ->
            [Sees(c) EXCEPT !.objects = {o \in @ : o.bucket_id # k.id \/ o.name # k.name}]

-----------------------------------------------------------------------------
(* SQLite, as far as the statements meet it *)

\* Mutant of Released: an error leaves the transaction open.
ReleasedOnSuccess(c, result) == IF writer = c /\ result[1] = "Ok" THEN NoConn ELSE writer

\* Dropping or committing the Transaction gives the write lock back.
Released(c, result) == IF writer = c THEN NoConn ELSE writer

\* The closure of c ends with a result; an open transaction is over.
End(c, result) ==
    /\ at' = [at EXCEPT ![c] = "done"]
    /\ answer' = [answer EXCEPT ![c] = result]
    /\ view' = [view EXCEPT ![c] = NoTables]
    /\ row' = [row EXCEPT ![c] = None]
    /\ writer' = Released(c, result)
    /\ UNCHANGED call

\* The call goes on; in a transaction, with `tables` as what it sees from now on.
Continue(c, statement, tables) ==
    /\ at' = [at EXCEPT ![c] = statement]
    /\ view' = IF InTransaction(call[c]) THEN [view EXCEPT ![c] = tables] ELSE view
    /\ UNCHANGED <<call, answer>>

\* The closure returns an error with the lock held; dropping the Transaction is next.
Fail(c, result) ==
    /\ at' = [at EXCEPT ![c] = "rollback"]
    /\ answer' = [answer EXCEPT ![c] = <<result>>]
    /\ view' = [view EXCEPT ![c] = Sees(c)]
    /\ UNCHANGED call

\* A commit: snapshots the others hold are old, and they see a new state meanwhile.
Publish(c, tables) ==
    /\ users' = tables.users
    /\ access_keys' = tables.access_keys
    /\ buckets' = tables.buckets
    /\ objects' = tables.objects
    /\ stale' = (stale \ {c}) \cup {d \in Conn \ {c} : view[d] # NoTables}
    /\ seen' = [d \in Conn |-> IF d = c \/ at[d] \in {"idle", "done"} THEN seen[d]
                               ELSE seen[d] \cup {Outcome(call[d])'}]

NoCommit(c) ==
    /\ stale' = IF view'[c] = NoTables THEN stale \ {c} ELSE stale
    /\ UNCHANGED <<store, seen>>

\* BUSY for a write of c: the lock is taken, or its snapshot is not the last commit.
Blocked(c) == writer \notin {c, NoConn} \/ c \in stale

-----------------------------------------------------------------------------
(* Steps *)

Start(c) ==
    /\ at[c] = "idle"
    /\ \E k \in Calls[c] :
          /\ call' = [call EXCEPT ![c] = k]
          /\ at' = [at EXCEPT ![c] = FirstStatement(k)]
          /\ seen' = [seen EXCEPT ![c] = {Outcome(k)}]
    /\ UNCHANGED <<store, view, row, stale, writer, answer>>

Select(c) ==
    /\ at[c] = "select"
    /\ \E result \in {SelectResult(c, call[c])} :
          IF result = "Ok"
          THEN /\ Continue(c, IF call[c].op = "store_user" THEN "upsert" ELSE "write", Sees(c))
               /\ UNCHANGED <<row, writer>>
          ELSE End(c, <<result>>)
    /\ NoCommit(c)

\* A write that SQLite lets through.
Execute(c) ==
    /\ at[c] \in {"upsert", "reindex", "write"}
    /\ ~Blocked(c)
    /\ \E tables \in {Written(c, call[c])}, result \in {WriteResult(c, call[c])} :
          IF InTransaction(call[c])
          THEN /\ IF result = "Ok"
                  THEN Continue(c, IF at[c] = "upsert" THEN "reindex" ELSE "commit", tables)
                  ELSE Fail(c, result)
               /\ writer' = c
               /\ UNCHANGED row
               /\ NoCommit(c)
          ELSE IF result # "Ok"
          THEN End(c, <<result>>) /\ NoCommit(c)
          ELSE /\ IF at[c] = "upsert"
                  THEN Continue(c, "reindex", tables) /\ UNCHANGED <<row, writer>>
                  ELSE End(c, <<"Ok">>)
               /\ Publish(c, tables)

Busy(c) ==
    /\ at[c] \in {"upsert", "reindex", "write"}
    /\ Blocked(c)
    /\ End(c, <<"InternalError">>)
    /\ NoCommit(c)

Commit(c) ==
    /\ at[c] = "commit"
    /\ End(c, <<"Ok">>)
    /\ Publish(c, view[c])

Rollback(c) ==
    /\ at[c] = "rollback"
    /\ End(c, answer[c])
    /\ NoCommit(c)

\* check_bucket, the first statement of the reads.
ReadBucket(c) ==
    /\ at[c] = "bucket"
    /\ IF View(c)!check_bucket(call[c].id)
       THEN /\ Continue(c, IF call[c].op \in {"head_object", "get_object"} THEN "row" ELSE "rows",
                        Sees(c))
            /\ UNCHANGED <<row, writer>>
       ELSE End(c, <<"NoSuchBucket">>)
    /\ NoCommit(c)

\* load_object's SELECT; get_object goes on to the data unless the object is empty.
ReadRow(c) ==
    /\ at[c] = "row"
    /\ LET k == call[c] IN
          IF ~View(c)!HasObject(k.id, k.name) THEN End(c, <<"NoSuchKey">>)
          ELSE \E o \in {View(c)!load_object(k.id, k.name)} :
                  IF k.op = "head_object" THEN End(c, <<"Ok", o>>)
                  ELSE IF o.data = 0 THEN End(c, <<"Ok", o, 0>>)
                  ELSE /\ Continue(c, "data", Sees(c))
                       /\ row' = [row EXCEPT ![c] = Some(o)]
                       /\ UNCHANGED writer
    /\ NoCommit(c)

\* Mutant of DataRead: a row that is gone reads as no bytes.
DataReadOrEmpty(c, k) ==
    <<"Ok", row[c][1], IF View(c)!HasObject(k.id, k.name)
                       THEN View(c)!load_object(k.id, k.name).data ELSE 0>>

\* SELECT substr(data, ...) through query_row: no row is an error.
DataRead(c, k) ==
    IF View(c)!HasObject(k.id, k.name)
    THEN <<"Ok", row[c][1], View(c)!load_object(k.id, k.name).data>>
    ELSE <<"InternalError">>

ReadData(c) ==
    /\ at[c] = "data"
    /\ End(c, DataRead(c, call[c]))
    /\ NoCommit(c)

\* The second statement of list_objects and of bucket_stats: the bucket's rows.
ReadRows(c) ==
    /\ at[c] = "rows"
    /\ End(c, <<"Ok", View(c)!ObjectsOf(call[c].id)>>)
    /\ NoCommit(c)

\* The connection is free for the next call.
Idle(c) ==
    /\ call' = [call EXCEPT ![c] = NoCall]
    /\ at' = [at EXCEPT ![c] = "idle"]
    /\ view' = [view EXCEPT ![c] = NoTables]
    /\ row' = [row EXCEPT ![c] = None]
    /\ answer' = [answer EXCEPT ![c] = None]
    /\ seen' = [seen EXCEPT ![c] = {}]
    /\ stale' = stale \ {c}
    /\ UNCHANGED store

\* The result goes back through the mutex to whoever awaits it.
Return(c) ==
    /\ at[c] = "done"
    /\ Idle(c)
    /\ UNCHANGED writer

\* The process dies in the middle of a call and is started again.
Crash(c) ==
    /\ at[c] # "idle"
    /\ Idle(c)
    /\ writer' = IF writer = c THEN NoConn ELSE writer

SqliteInit ==
    /\ DriverInit
    /\ call = [c \in Conn |-> NoCall]
    /\ at = [c \in Conn |-> "idle"]
    /\ view = [c \in Conn |-> NoTables]
    /\ row = [c \in Conn |-> None]
    /\ stale = {}
    /\ writer = NoConn
    /\ answer = [c \in Conn |-> None]
    /\ seen = [c \in Conn |-> {}]

Step(c) ==
    \/ Select(c) \/ Execute(c) \/ Busy(c) \/ Commit(c) \/ Rollback(c)
    \/ ReadBucket(c) \/ ReadRow(c) \/ ReadData(c) \/ ReadRows(c)
    \/ Return(c)

SqliteNext == \E c \in Conn : Start(c) \/ Step(c) \/ Crash(c)

SqliteSpec == SqliteInit /\ [][SqliteNext]_sqlite

-----------------------------------------------------------------------------
(***************************************************************************)
(* A call that ends answers what Driver would have answered in one step at *)
(* some moment while it ran, or InternalError: no read mixes two commits   *)
(* (metadata of one object with the bytes of another, the rows of a bucket *)
(* that had lost them), and no writer's check is undone before its write.  *)
(***************************************************************************)
AnswersHeldOnce ==
    \A c \in Conn : at[c] = "done" => answer[c] \in seen[c] \cup {<<"InternalError">>}

(***************************************************************************)
(* Only a call in progress holds SQLite's lock or a snapshot: whatever way *)
(* a closure ends, dropping its Transaction rolls back, so no process      *)
(* keeps the other one out.                                                *)
(***************************************************************************)
OnlyCallsHoldLocks ==
    \A c \in Conn : at[c] \in {"idle", "done"} => writer # c /\ view[c] = NoTables /\ c \notin stale

=============================================================================
