------------------------------- MODULE S3Ops -------------------------------
(***************************************************************************)
(* The S3 side of rgwd: one task per request, each a sequence of awaited   *)
(* driver calls.  A step is the code from one driver call to the next; the *)
(* calls of other requests come in between.  What a handler read earlier   *)
(* (who signed, which bucket the name led to) it keeps in its request      *)
(* record, and that is what may be stale when it is used.                  *)
(***************************************************************************)
EXTENDS Auth, Sequences

CONSTANTS
    S3Req,      \* the tasks that serve requests
    S3Call,     \* the requests clients send
    NoCall,     \* the call of an idle task
    NoBucket    \* no bucket loaded yet

S3Op == {"list_buckets", "create_bucket", "delete_bucket", "stat_bucket", "get_location",
         "list_objects", "put_object", "get_object", "head_object", "delete_object", "delete_multi"}

(***************************************************************************)
(* A request: the handler `dispatch` routes it to, the key it is signed    *)
(* with, the bucket, the object names (several for delete_multi), the      *)
(* payload, whether the payload passes the handler's own checks (size,     *)
(* Content-MD5, well-formed XML), whether a batch asks for a quiet answer, *)
(* and the parsed Range header.                                            *)
(***************************************************************************)
CallType ==
    [op: S3Op, credential: Credential, name: BucketName,
     keys: Seq(ObjectName) \ {<<>>}, data: Data, intact: BOOLEAN,
     quiet: BOOLEAN, range: ByteRange \cup {NoRange}]

ASSUME S3Assumption ==
    /\ S3Call \subseteq CallType
    /\ NoCall \notin S3Call
    /\ NoBucket \notin BucketInfo
    /\ IsFiniteSet(S3Req)

VARIABLES
    s3,      \* the request each task is serving
    minted   \* the bucket ids handed out so far: Uuid::new_v4 never repeats one

s3vars == <<store, s3, minted>>

ReplyCode ==
    {"None", "Ok", "AccessDenied", "InvalidAccessKeyId", "UserSuspended", "BadDigest",
     "NoSuchBucket", "NoSuchKey", "BucketNotEmpty", "BucketAlreadyExists",
     "BucketAlreadyOwnedByYou", "TooManyBuckets", "InvalidRange", "InternalError"}

Reply == [code: ReplyCode, size: Nat, range: (Nat \X Nat) \cup {Unsatisfiable}]

Answer(code) == [code |-> code, size |-> 0, range |-> Unsatisfiable]

\* An <Error> entry of a batch.
BatchError == [key: ObjectName, code: ReplyCode]

\* Where a task is: not serving, answered, or before its next driver call.
OnBucket == {"delete_bucket", "stat_bucket", "list_objects", "put_object", "get_object", "size",
             "head_object", "delete_object", "delete_multi"}

Step == {"idle", "done", "count", "create", "whose", "load_bucket"} \cup OnBucket

Request ==
    [pc: Step, call: S3Call \cup {NoCall}, user: Identity,
     bucket: BucketInfo \cup {NoBucket},
     owned: SUBSET BucketInfo, marker: Nat,                    \* list_owned_buckets
     todo: Seq(ObjectName), deleted: Seq(ObjectName), errors: Seq(BatchError),
     reply: Reply]

Idle ==
    [pc |-> "idle", call |-> NoCall, user |-> Anonymous, bucket |-> NoBucket,
     owned |-> {}, marker |-> 0, todo |-> <<>>, deleted |-> <<>>, errors |-> <<>>,
     reply |-> Answer("None")]

\* What a task has in hand at each step: its call, a user, a loaded bucket, keys left.
RequestOK(q) ==
    /\ q.pc = "idle" <=> q.call = NoCall
    /\ q.pc \in {"count", "create", "whose"} \cup OnBucket => q.user # Anonymous
    /\ q.pc \in OnBucket => q.bucket # NoBucket
    /\ q.pc = "load_bucket" => q.call.op \notin {"list_buckets", "create_bucket"}
    /\ q.pc = "delete_multi" \/ (q.pc = "load_bucket" /\ q.call.op = "delete_multi")
           => q.todo # <<>>

(***************************************************************************)
(* Every task's record has its shape, and a task that works on a bucket    *)
(* has a user and has loaded the bucket (load_bucket_for, require_user).   *)
(***************************************************************************)
S3TypeOK ==
    /\ s3 \in [S3Req -> Request]
    /\ minted \in SUBSET BucketId
    /\ \A r \in S3Req : RequestOK(s3[r])

S3Init ==
    /\ s3 = [r \in S3Req |-> Idle]
    /\ minted = {b.bucket_id : b \in SeedBuckets}

-----------------------------------------------------------------------------
(* Moving a task along *)

Advance(r, q) == s3' = [s3 EXCEPT ![r] = q]

Answered(q, reply) == [q EXCEPT !.pc = "done", !.reply = reply]

Goto(r, pc) == Advance(r, [s3[r] EXCEPT !.pc = pc])

Finish(r, code) == Advance(r, Answered(s3[r], Answer(code)))

\* object_response, or invalid_range: the size and range a client is told.
FinishObject(r, code, size, range) ==
    Advance(r, Answered(s3[r], [code |-> code, size |-> size, range |-> range]))

(***************************************************************************)
(* The handler `dispatch` picks, entered with the identity the middleware  *)
(* found.  Checks that need no driver call run at once: list_buckets and   *)
(* create_bucket refuse anonymous users, create_bucket those who may not   *)
(* create, and it counts only when there is a limit to count towards.      *)
(***************************************************************************)
Refused(c, code) == Answered([Idle EXCEPT !.call = c], Answer(code))

Entered(c, user, pc) ==
    [Idle EXCEPT !.pc = pc, !.call = c, !.user = user,
                 !.todo = IF c.op = "delete_multi" THEN c.keys ELSE <<>>]

\* Mutant of Handler: handlers run on a bucket nobody loaded.
HandlerUnloaded(c, user) == Entered(c, user, c.op)

Handler(c, user) ==
    IF c.op \notin {"list_buckets", "create_bucket"} THEN Entered(c, user, "load_bucket")
    ELSE IF user = Anonymous THEN Refused(c, "AccessDenied")
    ELSE IF c.op = "list_buckets" THEN Entered(c, user, "count")
    ELSE IF user.max_buckets < 0 THEN Refused(c, "AccessDenied")
    ELSE IF user.max_buckets > 0 THEN Entered(c, user, "count")
    ELSE Entered(c, user, "create")

Accepted(c) ==
    LET auth == verify(c.credential)
    IN  IF auth.code = "Ok" THEN Handler(c, auth.identity) ELSE Refused(c, auth.code)

\* Bound: a request that may create a bucket starts only while an id is left for it.
Creating == {r \in S3Req : s3[r].pc \in {"count", "create"}}

IdBudget(c) ==
    c.op = "create_bucket" => Cardinality(BucketId \ minted) > Cardinality(Creating)

Authenticate(r, c) ==
    /\ s3[r].pc \in {"idle", "done"}
    /\ IdBudget(c)
    /\ \/ Advance(r, Accepted(c))
       \/ c.credential # Anonymous /\ Advance(r, Refused(c, "InternalError"))  \* the lookup failed
    /\ UNCHANGED <<store, minted>>

\* The client hangs up: axum drops the handler before its next driver call.
Cancel(r) ==
    /\ s3[r].pc \notin {"idle", "done"}
    /\ Advance(r, Idle)
    /\ UNCHANGED <<store, minted>>

-----------------------------------------------------------------------------
(* list_buckets and create_bucket *)

\* Mutant of QuotaReached: `>` where the code has `>=`.
QuotaReachedOffByOne(q, owned) ==
    q.call.op = "create_bucket" /\ Cardinality(owned) > q.user.max_buckets

\* create_bucket stops counting, and fails, at the limit; list_buckets has none.
QuotaReached(q, owned) ==
    q.call.op = "create_bucket" /\ Cardinality(owned) >= q.user.max_buckets

\* Mutants of NextMarker: the loop asks for the same page again, or skips a name.
NextMarkerStuck(page) == 0
NextMarkerSkips(page) == page.next_marker + 1

NextMarker(page) == page.next_marker

\* list_owned_buckets: one page per driver call.
CountOwned(r) ==
    /\ s3[r].pc = "count"
    /\ LET page  == list_buckets(Some(s3[r].user.user_id), s3[r].marker, PageSize)
           owned == s3[r].owned \cup page.entries
           q     == [s3[r] EXCEPT !.owned = owned]
       IN  IF QuotaReached(q, owned) THEN Advance(r, Answered(q, Answer("TooManyBuckets")))
           ELSE IF page.is_truncated THEN Advance(r, [q EXCEPT !.marker = NextMarker(page)])
           ELSE IF q.call.op = "list_buckets" THEN Advance(r, Answered(q, Answer("Ok")))
           ELSE Advance(r, [q EXCEPT !.pc = "create"])
    /\ UNCHANGED <<store, minted>>

\* Mutant of NewIds: the id of a removed bucket is handed out again.
NewIdsReused == {id \in BucketId : ~check_bucket(id)}

NewIds == BucketId \ minted

CreateBucket(r) ==
    /\ s3[r].pc = "create"
    /\ \E id \in NewIds :
          LET info == [bucket_id |-> id, name |-> s3[r].call.name, owner |-> s3[r].user.user_id]
          IN  /\ create_bucket(info)
              /\ IF CreateBucketResult(info) = "Ok"
                 THEN Finish(r, "Ok") /\ minted' = minted \cup {id}
                 ELSE Goto(r, "whose") /\ UNCHANGED minted

\* The name is taken: a second load decides which error says so.
WhoseBucket(r) ==
    /\ s3[r].pc = "whose"
    /\ LET name == s3[r].call.name
       IN  IF HasBucket(name) /\ load_bucket(name).owner = s3[r].user.user_id
           THEN Finish(r, "BucketAlreadyOwnedByYou")
           ELSE Finish(r, "BucketAlreadyExists")
    /\ UNCHANGED <<store, minted>>

-----------------------------------------------------------------------------
(* Every other handler first resolves the name and checks access.          *)

\* load_bucket_for, then whatever the handler checks before its next driver call.
LoadBucketFor(r) ==
    /\ s3[r].pc = "load_bucket"
    /\ LET c == s3[r].call
           b == load_bucket(c.name)
       IN  IF ~HasBucket(c.name) THEN Finish(r, "NoSuchBucket")
           ELSE IF ~verify_bucket_access(s3[r].user, b) THEN Finish(r, "AccessDenied")
           ELSE IF c.op \in {"put_object", "delete_multi"} /\ ~c.intact
           THEN Finish(r, "BadDigest")
           ELSE IF c.op = "get_location" THEN Finish(r, "Ok")
           ELSE Advance(r, [s3[r] EXCEPT !.pc = c.op, !.bucket = b])
    /\ UNCHANGED <<store, minted>>

\* delete_bucket removes by name, not by the instance it checked.
DeleteBucket(r) ==
    /\ s3[r].pc = "delete_bucket"
    /\ remove_bucket(s3[r].bucket.name)
    /\ Finish(r, RemoveBucketResult(s3[r].bucket.name))
    /\ UNCHANGED minted

\* stat_bucket and the object listings: one read of the instance that was loaded.
ReadBucket(r) ==
    /\ s3[r].pc \in {"stat_bucket", "list_objects"}
    /\ Finish(r, IF check_bucket(s3[r].bucket.bucket_id) THEN "Ok" ELSE "NoSuchBucket")
    /\ UNCHANGED <<store, minted>>

-----------------------------------------------------------------------------
(* Objects: always by the instance id that was loaded.                     *)

\* Mutant of TargetId: the name is resolved again when the write happens.
TargetIdByName(r) ==
    IF HasBucket(s3[r].bucket.name)
    THEN load_bucket(s3[r].bucket.name).bucket_id ELSE s3[r].bucket.bucket_id

TargetId(r) == s3[r].bucket.bucket_id

PutObject(r) ==
    /\ s3[r].pc = "put_object"
    /\ LET info == [bucket_id |-> TargetId(r), name |-> Head(s3[r].call.keys),
                    owner |-> s3[r].user.user_id, data |-> s3[r].call.data]
       IN  put_object(info) /\ Finish(r, PutObjectResult(info))
    /\ UNCHANGED minted

\* The range resolved against a size, or none when none was asked for.
Resolved(range, size) ==
    IF range = NoRange THEN Unsatisfiable ELSE driver_resolve_range(range, size)

GetObject(r) ==
    /\ s3[r].pc = "get_object"
    /\ LET key    == Head(s3[r].call.keys)
           range  == s3[r].call.range
           result == GetObjectResult(TargetId(r), key, range)
           size   == load_object(TargetId(r), key).data
       IN  CASE result = "Ok" -> FinishObject(r, "Ok", size, Resolved(range, size))
             [] result = "InvalidRange" -> Goto(r, "size")
             [] OTHER -> Finish(r, result)
    /\ UNCHANGED <<store, minted>>

\* After InvalidRange, get_object asks again for the size to put in the 416.
HeadForSize(r) ==
    /\ s3[r].pc = "size"
    /\ LET key    == Head(s3[r].call.keys)
           result == LoadObjectResult(TargetId(r), key)
       IN  IF result = "Ok"
           THEN FinishObject(r, "InvalidRange", load_object(TargetId(r), key).data, Unsatisfiable)
           ELSE Finish(r, result)
    /\ UNCHANGED <<store, minted>>

HeadObject(r) ==
    /\ s3[r].pc = "head_object"
    /\ LET key    == Head(s3[r].call.keys)
           range  == s3[r].call.range
           result == LoadObjectResult(TargetId(r), key)
           size   == load_object(TargetId(r), key).data
       IN  IF result # "Ok" THEN Finish(r, result)
           ELSE IF range = NoRange THEN FinishObject(r, "Ok", size, Unsatisfiable)
           ELSE IF s3_resolve_range(range, size) = Unsatisfiable
           THEN FinishObject(r, "InvalidRange", size, Unsatisfiable)
           ELSE FinishObject(r, "Ok", size, s3_resolve_range(range, size))
    /\ UNCHANGED <<store, minted>>

\* A missing key counts as deleted; a missing bucket does not.
Deleted(result) == result \in {"Ok", "NoSuchKey"}

DeleteObject(r) ==
    /\ s3[r].pc = "delete_object"
    /\ LET key    == Head(s3[r].call.keys)
           result == DeleteObjectResult(TargetId(r), key)
       IN  /\ delete_object(TargetId(r), key)
           /\ Finish(r, IF Deleted(result) THEN "Ok" ELSE result)
    /\ UNCHANGED minted

\* The entries of the first remaining key; a quiet batch has none for what it deleted.
Noted(q)         == Append(q.deleted, Head(q.todo))
Failed(q, result) == Append(q.errors, [key |-> Head(q.todo), code |-> result])

\* Mutants of BatchAfter: the batch stops at the first failure; a quiet one drops failures too.
BatchAfterStops(q, result) ==
    IF ~Deleted(result) THEN [q EXCEPT !.todo = <<>>, !.errors = Failed(q, result)]
    ELSE IF q.call.quiet THEN [q EXCEPT !.todo = Tail(q.todo)]
    ELSE [q EXCEPT !.todo = Tail(q.todo), !.deleted = Noted(q)]
BatchAfterHushed(q, result) ==
    IF q.call.quiet THEN [q EXCEPT !.todo = Tail(q.todo)]
    ELSE IF ~Deleted(result) THEN [q EXCEPT !.todo = Tail(q.todo), !.errors = Failed(q, result)]
    ELSE [q EXCEPT !.todo = Tail(q.todo), !.deleted = Noted(q)]

\* The batch after its first remaining key was tried.
BatchAfter(q, result) ==
    IF ~Deleted(result) THEN [q EXCEPT !.todo = Tail(q.todo), !.errors = Failed(q, result)]
    ELSE IF q.call.quiet THEN [q EXCEPT !.todo = Tail(q.todo)]
    ELSE [q EXCEPT !.todo = Tail(q.todo), !.deleted = Noted(q)]

\* On to the next key, or the answer after the last.
NextKey(r, after) ==
    Advance(r, IF after.todo # <<>> THEN after ELSE Answered(after, Answer("Ok")))

\* delete_multi: one key per driver call; a failure is noted and the next key follows.
DeleteMulti(r) ==
    /\ s3[r].pc = "delete_multi"
    /\ LET key == Head(s3[r].todo)
       IN  /\ delete_object(TargetId(r), key)
           /\ NextKey(r, BatchAfter(s3[r], DeleteObjectResult(TargetId(r), key)))
    /\ UNCHANGED minted

(***************************************************************************)
(* Any driver call may fail without having changed anything: a lock not    *)
(* had in time, a disk that fails (SqliteTx.Busy shows the former).  The   *)
(* handlers pass InternalError on, except that a batch notes it and goes   *)
(* on, and that a bucket nobody could load counts as somebody else's.      *)
(***************************************************************************)
CallFails(r) ==
    /\ s3[r].pc \notin {"idle", "done"}
    /\ CASE s3[r].pc = "delete_multi" -> NextKey(r, BatchAfter(s3[r], "InternalError"))
         [] s3[r].pc = "whose"        -> Finish(r, "BucketAlreadyExists")
         [] OTHER                     -> Finish(r, "InternalError")
    /\ UNCHANGED <<store, minted>>

-----------------------------------------------------------------------------
\* The next driver call of the task answers.
Proceed(r) ==
    \/ CountOwned(r) \/ CreateBucket(r) \/ WhoseBucket(r)
    \/ LoadBucketFor(r) \/ DeleteBucket(r) \/ ReadBucket(r)
    \/ PutObject(r) \/ GetObject(r) \/ HeadForSize(r) \/ HeadObject(r)
    \/ DeleteObject(r) \/ DeleteMulti(r)

Serve(r) == Proceed(r) \/ CallFails(r)

S3Next ==
    \E r \in S3Req :
        \/ \E c \in S3Call : Authenticate(r, c)
        \/ Serve(r)
        \/ Cancel(r)

=============================================================================
