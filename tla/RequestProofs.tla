---------------------------- MODULE RequestProofs ----------------------------
(***************************************************************************)
(* What single requests promise although others run between their driver  *)
(* calls: a batch accounts for its keys, a listing misses no bucket that   *)
(* stays, the overshoot of a quota is bounded by the number of tasks; and  *)
(* what admin operations promise.  For any number of tasks, users,         *)
(* buckets, keys and any page size.                                        *)
(***************************************************************************)
EXTENDS GatewayProofs, FiniteSetTheorems

\* A task is only at steps of its own handler.
OpFits(q) ==
    /\ q.pc \in OnBucket \ {"size"} => q.call.op = q.pc
    /\ q.pc = "size" => q.call.op = "get_object"
    /\ q.pc = "count" => q.call.op \in {"list_buckets", "create_bucket"}
    /\ q.pc \in {"create", "whose"} => q.call.op = "create_bucket"

\* What a step that neither counts nor deletes a key of a batch leaves alone.
SameWork(q, p) ==
    /\ p.call = q.call /\ p.user = q.user
    /\ p.owned = q.owned /\ p.marker = q.marker
    /\ p.todo = q.todo /\ p.deleted = q.deleted /\ p.errors = q.errors

\* Such a step ends the request, or takes it past the counting to the next driver call.
Onward(q, p) ==
    /\ SameWork(q, p)
    /\ OpFits(p)
    /\ p.pc \notin {"idle", "load_bucket", "count", "create"}
    /\ p.pc = "done" /\ p.reply.code = "Ok" => q.call.op \notin {"list_buckets", "delete_multi"}
    /\ p.pc = "delete_multi" => q.pc = "load_bucket"
    /\ p.bucket = q.bucket \/ q.pc = "load_bucket"

LEMMA AnsweredOnward ==
    ASSUME NEW q \in Request, NEW reply,
           reply.code = "Ok" => q.call.op \notin {"list_buckets", "delete_multi"}
    PROVE  Onward(q, Answered(q, reply))
  BY DEF Answered, Onward, SameWork, OpFits, OnBucket, Request

LEMMA GotoOnward ==
    ASSUME NEW q \in Request,
           NEW pc, \/ pc = "size" /\ q.call.op = "get_object"
                   \/ pc = "whose" /\ q.call.op = "create_bucket"
    PROVE  Onward(q, [q EXCEPT !.pc = pc])
  BY DEF Onward, SameWork, OpFits, OnBucket, Request

LEMMA LoadedOnward ==
    ASSUME NEW q \in Request, q.pc = "load_bucket", RequestOK(q), q.call \in CallType,
           q.call.op # "get_location", NEW b
    PROVE  Onward(q, [q EXCEPT !.pc = q.call.op, !.bucket = b])
<1>1. q.call.op \in OnBucket \ {"size"}
  BY DEF RequestOK, CallType, S3Op, OnBucket
<1> QED
  BY <1>1 DEF Onward, SameWork, OpFits, OnBucket, Request

\* One key of the batch was tried.  What came of it: the object is gone, the bucket was
\* not there, or the driver failed.
TriesKey(r) ==
    /\ s3[r].pc = "delete_multi"
    /\ \E result \in {"Ok", "NoSuchKey", "NoSuchBucket", "InternalError"} :
          /\ result = "NoSuchBucket" => ~check_bucket(s3[r].bucket.bucket_id)
          /\ NextKey(r, BatchAfter(s3[r], result))

LEMMA DeleteMultiTries ==
    ASSUME NEW r, DeleteMulti(r)
    PROVE  TriesKey(r)
<1> DEFINE result == DeleteObjectResult(TargetId(r), Head(s3[r].todo))
<1>1. s3[r].pc = "delete_multi" /\ NextKey(r, BatchAfter(s3[r], result))
  BY DEF DeleteMulti
<1>2. /\ result \in {"Ok", "NoSuchKey", "NoSuchBucket"}
      /\ result = "NoSuchBucket" => ~check_bucket(s3[r].bucket.bucket_id)
  BY DEF DeleteObjectResult, LoadObjectResult, TargetId
<1> HIDE DEF result
<1> QED
  BY <1>1, <1>2 DEF TriesKey

\* What a step does to the task that takes it.
LEMMA S3Moves ==
    ASSUME S3TypeOK, NEW r \in S3Req, OpFits(s3[r]),
           (\E c \in S3Call : Authenticate(r, c)) \/ Serve(r) \/ Cancel(r)
    PROVE  \/ s3'[r] = Idle
           \/ \E c \in S3Call : /\ s3'[r] \in {Accepted(c), Refused(c, "InternalError")}
                              /\ UNCHANGED store
           \/ CountOwned(r)
           \/ TriesKey(r)
           \/ Onward(s3[r], s3'[r])
<1>1. s3[r] \in Request
  BY DEF S3TypeOK
<1>2. CASE \E c \in S3Call : Authenticate(r, c)
  BY <1>2, AdvanceTask DEF Authenticate
<1>3. CASE Cancel(r)
  BY <1>3, AdvanceTask DEF Cancel
<1>4. ASSUME NEW code, Finish(r, code),
             code = "Ok" => s3[r].call.op \notin {"list_buckets", "delete_multi"}
      PROVE  Onward(s3[r], s3'[r])
  <2>1. s3'[r] = Answered(s3[r], Answer(code))
    BY <1>4, AdvanceTask DEF Finish
  <2>2. Answer(code).code = code
    BY DEF Answer
  <2> QED
    BY <1>1, <1>4, <2>1, <2>2, AnsweredOnward
<1>5. ASSUME NEW code, NEW size, NEW range, FinishObject(r, code, size, range),
             s3[r].call.op \notin {"list_buckets", "delete_multi"}
      PROVE  Onward(s3[r], s3'[r])
  <2>1. s3'[r] = Answered(s3[r], [code |-> code, size |-> size, range |-> range])
    BY <1>5, AdvanceTask DEF FinishObject
  <2> QED
    BY <1>1, <1>5, <2>1, AnsweredOnward
<1>6. ASSUME NEW pc, Goto(r, pc),
             \/ pc = "size" /\ s3[r].call.op = "get_object"
             \/ pc = "whose" /\ s3[r].call.op = "create_bucket"
      PROVE  Onward(s3[r], s3'[r])
  <2>1. s3'[r] = [s3[r] EXCEPT !.pc = pc]
    BY <1>6, AdvanceTask DEF Goto
  <2> QED
    BY <1>1, <1>6, <2>1, GotoOnward
<1>7. CASE WhoseBucket(r) \/ DeleteBucket(r) \/ ReadBucket(r) \/ PutObject(r) \/ DeleteObject(r)
  <2>1. /\ s3[r].pc \in {"whose", "delete_bucket", "stat_bucket", "list_objects", "put_object",
                         "delete_object"}
        /\ \E code : Finish(r, code)
    BY <1>7 DEF WhoseBucket, DeleteBucket, ReadBucket, PutObject, DeleteObject
  <2>2. s3[r].call.op \notin {"list_buckets", "delete_multi"}
    BY <2>1 DEF OpFits, OnBucket
  <2> QED
    BY <2>1, <2>2, <1>4
<1>8. CASE GetObject(r) \/ HeadForSize(r) \/ HeadObject(r)
  <2>1. /\ s3[r].pc \in {"get_object", "size", "head_object"}
        /\ \/ \E code : Finish(r, code)
           \/ \E code, size, range : FinishObject(r, code, size, range)
           \/ s3[r].pc = "get_object" /\ Goto(r, "size")
    BY <1>8 DEF GetObject, HeadForSize, HeadObject
  <2>2. /\ s3[r].call.op \notin {"list_buckets", "delete_multi"}
        /\ s3[r].pc = "get_object" => s3[r].call.op = "get_object"
    BY <2>1 DEF OpFits, OnBucket
  <2> QED
    BY <2>1, <2>2, <1>4, <1>5, <1>6
<1>9. CASE CreateBucket(r)
  <2>1. s3[r].pc = "create" /\ s3[r].call.op = "create_bucket"
    BY <1>9 DEF CreateBucket, OpFits
  <2>2. Finish(r, "Ok") \/ Goto(r, "whose")
    BY <1>9 DEF CreateBucket
  <2> QED
    BY <2>1, <2>2, <1>4, <1>6
<1>10. CASE LoadBucketFor(r)
  <2> DEFINE c == s3[r].call
             b == load_bucket(c.name)
  <2>1. s3[r].pc = "load_bucket" /\ RequestOK(s3[r]) /\ c \in CallType
    BY <1>10, ServingType DEF LoadBucketFor
  <2>2. \/ \E code : Finish(r, code) /\ code # "Ok"
        \/ c.op = "get_location" /\ Finish(r, "Ok")
        \/ c.op # "get_location" /\ Advance(r, [s3[r] EXCEPT !.pc = c.op, !.bucket = b])
    BY <1>10 DEF LoadBucketFor
  <2> HIDE DEF b
  <2>3. ASSUME c.op # "get_location", Advance(r, [s3[r] EXCEPT !.pc = c.op, !.bucket = b])
        PROVE  Onward(s3[r], s3'[r])
    <3>1. s3'[r] = [s3[r] EXCEPT !.pc = c.op, !.bucket = b]
      BY <2>3, AdvanceTask
    <3>2. Onward(s3[r], [s3[r] EXCEPT !.pc = s3[r].call.op, !.bucket = b])
      BY <1>1, <2>1, <2>3, LoadedOnward, Zenon
    <3> QED
      BY <3>1, <3>2
  <2>4. ASSUME NEW code, Finish(r, code), code = "Ok" => c.op = "get_location"
        PROVE  Onward(s3[r], s3'[r])
    BY <2>4, <1>4
  <2> QED
    BY <2>1, <2>2, <2>3, <2>4
<1>11. CASE DeleteMulti(r)
  BY <1>11, DeleteMultiTries
<1>12. CASE CallFails(r)
  <2>1. \/ TriesKey(r)
        \/ \E code : code # "Ok" /\ Finish(r, code)
    BY <1>12 DEF CallFails, TriesKey
  <2>2. ASSUME NEW code, code # "Ok", Finish(r, code) PROVE Onward(s3[r], s3'[r])
    BY <1>4, <2>2
  <2> QED
    BY <2>1, <2>2
<1> QED
  BY <1>2, <1>3, <1>7, <1>8, <1>9, <1>10, <1>11, <1>12 DEF Serve, Proceed

\* How a request starts: nothing counted, deleted or loaded, and at the first step of its
\* handler, or refused.  Counting is for list_buckets and for users with a limit.
Starting(c, p) ==
    /\ p.call = c /\ p.owned = {} /\ p.marker = 0 /\ p.bucket = NoBucket
    /\ p.deleted = <<>> /\ p.errors = <<>>
    /\ p.pc \in {"done", "load_bucket", "count", "create"}
    /\ p.pc = "done" => p.reply.code # "Ok"
    /\ p.pc = "load_bucket" /\ c.op = "delete_multi" => p.todo = c.keys
    /\ p.pc = "count" => /\ p.user \in users
                         /\ \/ c.op = "list_buckets"
                            \/ c.op = "create_bucket" /\ p.user.max_buckets > 0
    /\ p.pc = "create" => /\ p.user \in users /\ p.user.max_buckets <= 0
                          /\ c.op = "create_bucket"

LEMMA AcceptedStarts ==
    ASSUME TypeOK, NEW c \in S3Call, NEW z \in {Accepted(c), Refused(c, "InternalError")}
    PROVE  Starting(c, z)
<1>1. ASSUME NEW code, code # "Ok" PROVE Starting(c, Refused(c, code))
  BY <1>1 DEF Starting, Refused, Answered, Answer, Idle
<1>2. ASSUME NEW user, NEW pc PROVE
        LET p == Entered(c, user, pc)
        IN  /\ p.call = c /\ p.owned = {} /\ p.marker = 0 /\ p.bucket = NoBucket
            /\ p.deleted = <<>> /\ p.errors = <<>> /\ p.pc = pc /\ p.user = user
            /\ c.op = "delete_multi" => p.todo = c.keys
  BY DEF Entered, Idle
<1>3. verify(c.credential).identity \in users \cup {Anonymous}
  <2>1. KeyHolders(c.credential) # {} => load_user_by_access_key(c.credential) \in users
    BY DEF load_user_by_access_key, KeyHolders
  <2> QED
    BY <2>1 DEF verify, Denied, Granted
<1>4. ASSUME NEW user \in users \cup {Anonymous} PROVE Starting(c, Handler(c, user))
  <2>1. CASE c.op \notin {"list_buckets", "create_bucket"}
    BY <2>1, <1>2 DEF Handler, Starting
  <2>2. CASE c.op \in {"list_buckets", "create_bucket"} /\ user = Anonymous
    BY <2>2, <1>1 DEF Handler
  <2>3. CASE c.op \in {"list_buckets", "create_bucket"} /\ user # Anonymous
    <3>1. user \in users /\ user.max_buckets \in Int
      BY <2>3, DriverAssumption DEF TypeOK, UserInfo
    <3>2. \/ \E code : code # "Ok" /\ Handler(c, user) = Refused(c, code)
          \/ /\ Handler(c, user) = Entered(c, user, "count")
             /\ c.op = "list_buckets" \/ (c.op = "create_bucket" /\ user.max_buckets > 0)
          \/ /\ Handler(c, user) = Entered(c, user, "create")
             /\ c.op = "create_bucket" /\ user.max_buckets <= 0
      BY <2>3, <3>1 DEF Handler
    <3>3. /\ c.op = "list_buckets" \/ (c.op = "create_bucket" /\ user.max_buckets > 0)
             => Starting(c, Entered(c, user, "count"))
          /\ c.op = "create_bucket" /\ user.max_buckets <= 0
             => Starting(c, Entered(c, user, "create"))
      BY <3>1, <1>2 DEF Starting
    <3> QED
      BY <3>2, <3>3, <1>1
  <2> QED
    BY <2>1, <2>2, <2>3
<1>5. Starting(c, Accepted(c))
  BY <1>1, <1>3, <1>4 DEF Accepted
<1> QED
  BY <1>1, <1>5

\* The record after one page of counting.
Counted(q, page, p) ==
    /\ p.call = q.call /\ p.user = q.user /\ p.bucket = q.bucket
    /\ p.todo = q.todo /\ p.deleted = q.deleted /\ p.errors = q.errors
    /\ p.owned = q.owned \cup page.entries
    /\ \/ /\ p.pc = "done" /\ p.reply.code = "TooManyBuckets"
       \/ /\ p.pc = "count" /\ page.is_truncated /\ p.marker = page.next_marker
       \/ /\ p.pc = "done" /\ p.reply.code = "Ok" /\ ~page.is_truncated
          /\ q.call.op = "list_buckets"
       \/ /\ p.pc = "create" /\ ~page.is_truncated /\ q.call.op # "list_buckets"
          /\ ~QuotaReached(q, p.owned)

OwnedPage(q) == list_buckets(Some(q.user.user_id), q.marker, PageSize)

LEMMA CountedShape ==
    ASSUME S3TypeOK, NEW r \in S3Req, CountOwned(r)
    PROVE  s3[r].pc = "count" /\ Counted(s3[r], OwnedPage(s3[r]), s3'[r]) /\ UNCHANGED store
<1> DEFINE page  == OwnedPage(s3[r])
           owned == s3[r].owned \cup page.entries
           q     == [s3[r] EXCEPT !.owned = owned]
<1>1. s3[r] \in Request
  BY DEF S3TypeOK
<1>2. /\ s3[r].pc = "count" /\ UNCHANGED store
      /\ \/ Advance(r, Answered(q, Answer("TooManyBuckets")))
         \/ page.is_truncated /\ Advance(r, [q EXCEPT !.marker = page.next_marker])
         \/ /\ ~page.is_truncated /\ q.call.op = "list_buckets"
            /\ Advance(r, Answered(q, Answer("Ok")))
         \/ /\ ~page.is_truncated /\ q.call.op # "list_buckets" /\ ~QuotaReached(q, owned)
            /\ Advance(r, [q EXCEPT !.pc = "create"])
  BY DEF CountOwned, NextMarker, OwnedPage
<1> HIDE DEF page
<1>3. q.call = s3[r].call /\ (QuotaReached(q, owned) <=> QuotaReached(s3[r], owned))
  BY <1>1 DEF QuotaReached, Request
<1>4. ASSUME NEW code, Advance(r, Answered(q, Answer(code)))
      PROVE  /\ s3'[r].pc = "done" /\ s3'[r].reply.code = code /\ s3'[r].owned = owned
             /\ s3'[r].call = s3[r].call /\ s3'[r].user = s3[r].user
             /\ s3'[r].bucket = s3[r].bucket /\ s3'[r].todo = s3[r].todo
             /\ s3'[r].deleted = s3[r].deleted /\ s3'[r].errors = s3[r].errors
  <2>1. s3'[r] = Answered(q, Answer(code))
    BY <1>4, AdvanceTask
  <2> QED
    BY <1>1, <2>1 DEF Answered, Answer, Request
<1>5. ASSUME Advance(r, [q EXCEPT !.marker = page.next_marker])
      PROVE  /\ s3'[r].pc = s3[r].pc /\ s3'[r].owned = owned /\ s3'[r].marker = page.next_marker
             /\ s3'[r].call = s3[r].call /\ s3'[r].user = s3[r].user
             /\ s3'[r].bucket = s3[r].bucket /\ s3'[r].todo = s3[r].todo
             /\ s3'[r].deleted = s3[r].deleted /\ s3'[r].errors = s3[r].errors
  <2>1. s3'[r] = [q EXCEPT !.marker = page.next_marker]
    BY <1>5, AdvanceTask
  <2> QED
    BY <1>1, <2>1 DEF Request
<1>6. ASSUME Advance(r, [q EXCEPT !.pc = "create"])
      PROVE  /\ s3'[r].pc = "create" /\ s3'[r].owned = owned
             /\ s3'[r].call = s3[r].call /\ s3'[r].user = s3[r].user
             /\ s3'[r].bucket = s3[r].bucket /\ s3'[r].todo = s3[r].todo
             /\ s3'[r].deleted = s3[r].deleted /\ s3'[r].errors = s3[r].errors
  <2>1. s3'[r] = [q EXCEPT !.pc = "create"]
    BY <1>6, AdvanceTask
  <2> QED
    BY <1>1, <2>1 DEF Request
<1> HIDE DEF q
<1> QED
  BY <1>2, <1>3, <1>4, <1>5, <1>6, SMTT(20) DEF Counted, page

-----------------------------------------------------------------------------
(* One key of a batch *)

\* The record after one key of a batch: the key is off the list, and either its object was
\* deleted or it is among the errors, as missing only if the bucket was gone.
Batched(q, p) ==
    /\ q.pc = "delete_multi" /\ q.todo # <<>>
    /\ p.call = q.call /\ p.user = q.user /\ p.bucket = q.bucket
    /\ p.owned = q.owned /\ p.marker = q.marker
    /\ p.todo = Tail(q.todo)
    /\ \/ p.errors = q.errors /\ p.deleted = IF q.call.quiet THEN q.deleted ELSE Noted(q)
       \/ /\ p.deleted = q.deleted
          /\ \/ p.errors = Failed(q, "InternalError")
             \/ p.errors = Failed(q, "NoSuchBucket") /\ ~check_bucket(q.bucket.bucket_id)
    /\ \/ p.pc = "delete_multi"
       \/ p.pc = "done" /\ p.todo = <<>>

LEMMA BatchedShape ==
    ASSUME S3TypeOK, NEW r \in S3Req, TriesKey(r)
    PROVE  Batched(s3[r], s3'[r])
<1>1. PICK result \in {"Ok", "NoSuchKey", "NoSuchBucket", "InternalError"} :
         /\ result = "NoSuchBucket" => ~check_bucket(s3[r].bucket.bucket_id)
         /\ NextKey(r, BatchAfter(s3[r], result))
  BY DEF TriesKey
<1> DEFINE q     == s3[r]
           after == BatchAfter(q, result)
<1>2. q \in Request /\ q.pc = "delete_multi" /\ q.todo # <<>> /\ result \in ReplyCode
  BY DEF S3TypeOK, TriesKey, RequestOK, ReplyCode
<1>3. s3'[r] = IF after.todo # <<>> THEN after ELSE Answered(after, Answer("Ok"))
  BY <1>1, AdvanceTask DEF NextKey
<1>4. after \in Request
  BY <1>2, BatchAfterType
<1>5. /\ after.call = q.call /\ after.user = q.user /\ after.bucket = q.bucket
      /\ after.owned = q.owned /\ after.marker = q.marker /\ after.pc = q.pc
      /\ after.todo = Tail(q.todo)
      /\ Deleted(result) => /\ after.errors = q.errors
                            /\ after.deleted = IF q.call.quiet THEN q.deleted ELSE Noted(q)
      /\ ~Deleted(result) => after.deleted = q.deleted /\ after.errors = Failed(q, result)
  BY <1>2 DEF BatchAfter, Request
<1> HIDE DEF after, q
<1>6. \/ after.errors = q.errors /\ after.deleted = IF q.call.quiet THEN q.deleted ELSE Noted(q)
      \/ /\ after.deleted = q.deleted
         /\ \/ after.errors = Failed(q, "InternalError")
            \/ after.errors = Failed(q, "NoSuchBucket") /\ ~check_bucket(q.bucket.bucket_id)
  BY <1>1, <1>5 DEF Deleted, q
<1>7. CASE after.todo # <<>>
  BY <1>2, <1>3, <1>5, <1>6, <1>7 DEF Batched, q
<1>8. CASE after.todo = <<>>
  <2> DEFINE p == Answered(after, Answer("Ok"))
  <2>1. /\ p.call = after.call /\ p.user = after.user /\ p.bucket = after.bucket
        /\ p.owned = after.owned /\ p.marker = after.marker /\ p.pc = "done"
        /\ p.todo = after.todo /\ p.deleted = after.deleted /\ p.errors = after.errors
    BY <1>4 DEF Answered, Request
  <2> HIDE DEF p
  <2>2. s3'[r] = p
    BY <1>3, <1>8 DEF p
  <2> QED
    BY <1>2, <1>5, <1>6, <1>8, <2>1, <2>2 DEF Batched, q
<1> QED
  BY <1>7, <1>8

-----------------------------------------------------------------------------
(* What a step of the gateway does to a task *)

Moved(q, p) ==
    \/ p = q
    \/ p = Idle
    \/ \E c \in S3Call : Starting(c, p) /\ UNCHANGED store
    \/ q.pc = "count" /\ Counted(q, OwnedPage(q), p) /\ UNCHANGED store
    \/ Batched(q, p)
    \/ Onward(q, p)

LEMMA TaskMoves ==
    ASSUME Types, \A r \in S3Req : OpFits(s3[r]), [Next]_vars, NEW t \in S3Req
    PROVE  Moved(s3[t], s3'[t])
<1>1. CASE UNCHANGED s3
  BY <1>1 DEF Moved
<1>2. CASE S3Next
  <2>1. PICK r \in S3Req : (\E c \in S3Call : Authenticate(r, c)) \/ Serve(r) \/ Cancel(r)
    BY <1>2 DEF S3Next
  <2>2. CASE t # r
    BY <2>1, <2>2, S3TaskSteps DEF Types, Moved
  <2>3. CASE t = r
    <3>1. \/ s3'[t] = Idle
          \/ \E c \in S3Call : /\ s3'[t] \in {Accepted(c), Refused(c, "InternalError")}
                             /\ UNCHANGED store
          \/ CountOwned(t)
          \/ TriesKey(t)
          \/ Onward(s3[t], s3'[t])
      BY <2>1, <2>3, S3Moves DEF Types
    <3>2. ASSUME NEW c \in S3Call, s3'[t] \in {Accepted(c), Refused(c, "InternalError")},
                 UNCHANGED store
          PROVE  Moved(s3[t], s3'[t])
      BY <3>2, AcceptedStarts DEF Types, Moved
    <3>3. CASE CountOwned(t)
      BY <3>3, CountedShape DEF Types, Moved
    <3>4. CASE TriesKey(t)
      BY <3>4, BatchedShape DEF Types, Moved
    <3> QED
      BY <3>1, <3>2, <3>3, <3>4 DEF Moved
  <2> QED
    BY <2>2, <2>3
<1> QED
  BY <1>1, <1>2 DEF Next, vars

LEMMA MovedFits ==
    ASSUME NEW q, NEW p, OpFits(q), Moved(q, p)
    PROVE  OpFits(p)
<1>1. OpFits(Idle)
  BY DEF OpFits, Idle, OnBucket
<1>2. ASSUME NEW c \in S3Call, Starting(c, p) PROVE OpFits(p)
  BY <1>2 DEF Starting, OpFits, OnBucket
<1>3. CASE q.pc = "count" /\ Counted(q, OwnedPage(q), p)
  BY <1>3 DEF OpFits, Counted, OnBucket
<1>4. CASE Batched(q, p)
  BY <1>4 DEF OpFits, Batched, OnBucket
<1>5. CASE Onward(q, p)
  BY <1>5 DEF Onward
<1> QED
  BY <1>1, <1>2, <1>3, <1>4, <1>5 DEF Moved

-----------------------------------------------------------------------------
(* Counting in sequences *)

Times(s, k)    == Cardinality({i \in 1 .. Len(s) : s[i] = k})
TimesKey(s, k) == Cardinality({i \in 1 .. Len(s) : s[i].key = k})

LEMMA OneMore ==
    ASSUME NEW n \in Nat, NEW A, A \subseteq 1 .. n
    PROVE  Cardinality(A) \in Nat /\ Cardinality(A \cup {n + 1}) = Cardinality(A) + 1
<1>1. IsFiniteSet(1 .. n) /\ n + 1 \notin A
  BY FS_Interval
<1>2. IsFiniteSet(A)
  BY <1>1, FS_Subset
<1> QED
  BY <1>1, <1>2, FS_AddElement, FS_CardinalityType

LEMMA TimesAppended ==
    ASSUME NEW T, NEW s \in Seq(T), NEW x \in T, NEW k
    PROVE  /\ Times(s, k) \in Nat
           /\ x = k => Times(Append(s, x), k) = Times(s, k) + 1
           /\ x # k => Times(Append(s, x), k) = Times(s, k)
<1> DEFINE A == {i \in 1 .. Len(s) : s[i] = k}
           B == {i \in 1 .. Len(Append(s, x)) : Append(s, x)[i] = k}
<1>1. Len(s) \in Nat /\ A \subseteq 1 .. Len(s)
  OBVIOUS
<1>2. (x = k => B = A \cup {Len(s) + 1}) /\ (x # k => B = A)
  OBVIOUS
<1>3. Times(s, k) = Cardinality(A) /\ Times(Append(s, x), k) = Cardinality(B)
  BY DEF Times
<1> HIDE DEF A, B
<1> QED
  BY <1>1, <1>2, <1>3, OneMore

LEMMA TimesKeyAppended ==
    ASSUME NEW s \in Seq(BatchError), NEW x \in BatchError, NEW k
    PROVE  /\ TimesKey(s, k) \in Nat
           /\ x.key = k => TimesKey(Append(s, x), k) = TimesKey(s, k) + 1
           /\ x.key # k => TimesKey(Append(s, x), k) = TimesKey(s, k)
<1> DEFINE A == {i \in 1 .. Len(s) : s[i].key = k}
           B == {i \in 1 .. Len(Append(s, x)) : Append(s, x)[i].key = k}
<1>1. Len(s) \in Nat /\ A \subseteq 1 .. Len(s)
  OBVIOUS
<1>2. (x.key = k => B = A \cup {Len(s) + 1}) /\ (x.key # k => B = A)
  OBVIOUS
<1>3. TimesKey(s, k) = Cardinality(A) /\ TimesKey(Append(s, x), k) = Cardinality(B)
  BY DEF TimesKey
<1> HIDE DEF A, B
<1> QED
  BY <1>1, <1>2, <1>3, OneMore

(***************************************************************************)
(* Batches.  What is left of a batch is the end of its list of keys, and   *)
(* each key before it is in the answer exactly as often as it was given;   *)
(* an answer Ok comes only when none is left.  An error of a missing       *)
(* bucket stays true, for the bucket is gone for good (Snapshots).         *)
(***************************************************************************)
Batching(q) ==
    \/ q.pc \in {"load_bucket", "delete_multi"}
    \/ q.pc = "done" /\ q.reply.code = "Ok"

Tried(q) == Len(q.call.keys) - Len(q.todo)

TimesTried(q, k) == Cardinality({i \in 1 .. Tried(q) : q.call.keys[i] = k})

RestOfKeys(q) ==
    /\ Tried(q) \in Nat
    /\ \A i \in 1 .. Len(q.todo) : q.todo[i] = q.call.keys[Tried(q) + i]

Told(q) ==
    IF q.call.quiet THEN q.deleted = <<>>
    ELSE \A k \in ObjectName : TimesDeleted(q, k) + TimesFailed(q, k) = TimesTried(q, k)

ErrorsOK(q) ==
    \A i \in 1 .. Len(q.errors) :
        \/ q.errors[i].code = "InternalError"
        \/ /\ q.errors[i].code = "NoSuchBucket"
           /\ q.bucket # NoBucket /\ ~check_bucket(q.bucket.bucket_id)

BatchOK(q) ==
    /\ Batching(q) /\ q.call.op = "delete_multi" => RestOfKeys(q) /\ Told(q)
    /\ q.pc = "done" /\ q.reply.code = "Ok" /\ q.call.op = "delete_multi" => q.todo = <<>>
    /\ q.pc = "load_bucket" => q.errors = <<>>
    /\ ErrorsOK(q)

\* Nothing tried, nothing told.
LEMMA StartedBatch ==
    ASSUME NEW q, q.call \in CallType, q.todo = q.call.keys, q.deleted = <<>>, q.errors = <<>>
    PROVE  RestOfKeys(q) /\ Told(q)
<1>1. Len(q.call.keys) \in Nat
  BY DEF CallType
<1>2. Tried(q) = 0
  BY <1>1 DEF Tried
<1>3. RestOfKeys(q)
  BY <1>1, <1>2 DEF RestOfKeys
<1>4. \A k : TimesDeleted(q, k) = 0 /\ TimesFailed(q, k) = 0 /\ TimesTried(q, k) = 0
  BY <1>2, FS_EmptySet DEF TimesDeleted, TimesFailed, TimesTried
<1> QED
  BY <1>3, <1>4 DEF Told

\* One key tried, that key told.
LEMMA BatchGoesOn ==
    ASSUME NEW q \in Request, q.call \in CallType, NEW p, Batched(q, p),
           RestOfKeys(q), Told(q)
    PROVE  RestOfKeys(p) /\ Told(p)
<1> DEFINE keys == q.call.keys
           key  == Head(q.todo)
           n    == Tried(q)
<1>1. /\ keys \in Seq(ObjectName) /\ q.todo \in Seq(ObjectName) /\ q.todo # <<>>
      /\ q.deleted \in Seq(ObjectName) /\ q.errors \in Seq(BatchError)
      /\ p.call = q.call /\ p.todo = Tail(q.todo)
  BY DEF CallType, Request, Batched
<1>2. /\ Len(keys) \in Nat /\ Len(q.todo) \in Nat /\ Len(q.todo) # 0
      /\ Len(p.todo) = Len(q.todo) - 1 /\ key \in ObjectName /\ key = q.todo[1]
      /\ \A i \in 1 .. Len(p.todo) : p.todo[i] = q.todo[i + 1]
  BY <1>1
<1>3. n \in Nat /\ Tried(p) = n + 1
  <2>1. n \in Nat /\ n = Len(keys) - Len(q.todo)
    BY DEF RestOfKeys, Tried
  <2>2. Tried(p) = Len(keys) - Len(p.todo)
    BY <1>1 DEF Tried
  <2> HIDE DEF keys, n
  <2> QED
    BY <1>2, <2>1, <2>2
<1>4. \A i \in 1 .. Len(q.todo) : q.todo[i] = keys[n + i]
  BY DEF RestOfKeys
<1> HIDE DEF keys, n
<1>5. keys[n + 1] = key
  BY <1>2, <1>4
<1>6. RestOfKeys(p)
  <2>1. \A i \in 1 .. Len(p.todo) : p.todo[i] = keys[(n + 1) + i]
    BY <1>2, <1>3, <1>4
  <2> QED
    BY <1>1, <1>3, <2>1 DEF RestOfKeys, keys
<1>7. ASSUME NEW k
      PROVE  /\ TimesTried(q, k) \in Nat
             /\ key = k => TimesTried(p, k) = TimesTried(q, k) + 1
             /\ key # k => TimesTried(p, k) = TimesTried(q, k)
  <2> DEFINE A == {i \in 1 .. n : keys[i] = k}
             B == {i \in 1 .. n + 1 : keys[i] = k}
  <2>1. A \subseteq 1 .. n
    OBVIOUS
  <2>2. (key = k => B = A \cup {n + 1}) /\ (key # k => B = A)
    BY <1>3, <1>5
  <2>3. TimesTried(q, k) = Cardinality(A) /\ TimesTried(p, k) = Cardinality(B)
    BY <1>1, <1>3 DEF TimesTried, keys, n
  <2> HIDE DEF A, B
  <2> QED
    BY <1>3, <2>1, <2>2, <2>3, OneMore
<1>8. ASSUME NEW k
      PROVE  /\ TimesDeleted(q, k) \in Nat /\ TimesFailed(q, k) \in Nat
             /\ key = k => /\ p.deleted = Noted(q) => TimesDeleted(p, k) = TimesDeleted(q, k) + 1
                           /\ p.errors # q.errors => TimesFailed(p, k) = TimesFailed(q, k) + 1
             /\ p.deleted = q.deleted \/ (p.deleted = Noted(q) /\ key # k)
                   => TimesDeleted(p, k) = TimesDeleted(q, k)
             /\ p.errors = q.errors \/ key # k => TimesFailed(p, k) = TimesFailed(q, k)
  <2>1. /\ TimesDeleted(q, k) = Times(q.deleted, k) /\ TimesDeleted(p, k) = Times(p.deleted, k)
        /\ TimesFailed(q, k) = TimesKey(q.errors, k) /\ TimesFailed(p, k) = TimesKey(p.errors, k)
    BY DEF TimesDeleted, TimesFailed, Times, TimesKey
  <2>2. Noted(q) = Append(q.deleted, key) /\ key \in ObjectName
    BY <1>2 DEF Noted
  <2> DEFINE x(code) == [key |-> key, code |-> code]
  <2>3. \A code \in {"InternalError", "NoSuchBucket"} : x(code) \in BatchError /\ x(code).key = key
    BY <1>2 DEF BatchError, ReplyCode
  <2>4. p.errors # q.errors
           => \E code \in {"InternalError", "NoSuchBucket"} : p.errors = Append(q.errors, x(code))
    BY DEF Batched, Failed
  <2> HIDE DEF key, x
  <2>5. /\ Times(q.deleted, k) \in Nat
        /\ key = k => Times(Append(q.deleted, key), k) = Times(q.deleted, k) + 1
        /\ key # k => Times(Append(q.deleted, key), k) = Times(q.deleted, k)
    BY <1>1, <2>2, TimesAppended
  <2>6. \A code \in {"InternalError", "NoSuchBucket"} :
           /\ TimesKey(q.errors, k) \in Nat
           /\ key = k => TimesKey(Append(q.errors, x(code)), k) = TimesKey(q.errors, k) + 1
           /\ key # k => TimesKey(Append(q.errors, x(code)), k) = TimesKey(q.errors, k)
    BY <1>1, <2>3, TimesKeyAppended
  <2> QED
    BY <2>1, <2>2, <2>4, <2>5, <2>6
<1>9. \/ p.errors = q.errors /\ p.deleted = IF q.call.quiet THEN q.deleted ELSE Noted(q)
      \/ p.errors # q.errors /\ p.deleted = q.deleted
  <2>1. \A code : Failed(q, code) # q.errors
    <3>1. \A x : Len(Append(q.errors, x)) = Len(q.errors) + 1 /\ Len(q.errors) \in Nat
      BY <1>1
    <3>2. \A x : Append(q.errors, x) # q.errors
      BY <3>1
    <3> QED
      BY <3>2 DEF Failed
  <2> QED
    BY <2>1 DEF Batched
<1> HIDE DEF key
<1>10. Told(p)
  <2>1. CASE q.call.quiet
    BY <1>1, <1>9, <2>1 DEF Told
  <2>2. CASE ~q.call.quiet
    <3>1. ASSUME NEW k \in ObjectName
          PROVE  TimesDeleted(p, k) + TimesFailed(p, k) = TimesTried(p, k)
      <4>1. TimesDeleted(q, k) + TimesFailed(q, k) = TimesTried(q, k)
        BY <2>2 DEF Told
      <4>2. CASE p.errors = q.errors /\ p.deleted = Noted(q)
        BY <1>7, <1>8, <4>1, <4>2
      <4>3. CASE p.errors # q.errors /\ p.deleted = q.deleted
        BY <1>7, <1>8, <4>1, <4>3
      <4> QED
        BY <1>9, <2>2, <4>2, <4>3
    <3> QED
      BY <1>1, <2>2, <3>1 DEF Told
  <2> QED
    BY <2>1, <2>2
<1> QED
  BY <1>6, <1>10

\* A new error is of a failed driver or of a bucket that is not there.
LEMMA BatchErrors ==
    ASSUME NEW q \in Request, NEW p, Batched(q, p), ErrorsOK(q), q.bucket # NoBucket
    PROVE  ErrorsOK(p)
<1>1. p.bucket = q.bucket /\ q.errors \in Seq(BatchError)
  BY DEF Batched, Request
<1>2. CASE p.errors = q.errors
  BY <1>1, <1>2 DEF ErrorsOK
<1>3. ASSUME NEW code, p.errors = Failed(q, code),
             \/ code = "InternalError"
             \/ code = "NoSuchBucket" /\ ~check_bucket(q.bucket.bucket_id)
      PROVE  ErrorsOK(p)
  <2> DEFINE x == [key |-> Head(q.todo), code |-> code]
  <2>1. p.errors = Append(q.errors, x) /\ x.code = code
    BY <1>3 DEF Failed
  <2> HIDE DEF x
  <2>2. \A i \in 1 .. Len(p.errors) :
           (i \in 1 .. Len(q.errors) /\ p.errors[i] = q.errors[i]) \/ p.errors[i] = x
    BY <1>1, <2>1
  <2> QED
    BY <1>1, <1>3, <2>1, <2>2 DEF ErrorsOK
<1> QED
  BY <1>2, <1>3 DEF Batched

LEMMA NoErrors ==
    ASSUME NEW q, q.errors = <<>>
    PROVE  ErrorsOK(q)
  BY DEF ErrorsOK

LEMMA MovedBatch ==
    ASSUME NEW q \in Request, q.call \in S3Call \cup {NoCall}, NEW p, RequestOK(q), OpFits(q),
           BatchOK(q), Moved(q, p)
    PROVE  BatchOK(p) /\ (p.errors # <<>> => p.bucket = q.bucket)
<1>1. BatchOK(Idle) /\ Idle.errors = <<>>
  BY NoErrors DEF BatchOK, Batching, Idle
<1>2. ASSUME NEW c \in S3Call, Starting(c, p) PROVE BatchOK(p) /\ p.errors = <<>>
  <2>1. p.call = c /\ p.errors = <<>> /\ p.deleted = <<>> /\ c \in CallType
    BY <1>2, S3Assumption DEF Starting
  <2>2. Batching(p) /\ c.op = "delete_multi" => p.todo = c.keys
    BY <1>2 DEF Starting, Batching
  <2>3. Batching(p) /\ c.op = "delete_multi" => RestOfKeys(p) /\ Told(p)
    BY <2>1, <2>2, StartedBatch
  <2>4. ErrorsOK(p)
    BY <2>1, NoErrors
  <2> QED
    BY <1>2, <2>1, <2>3, <2>4 DEF Starting, BatchOK
<1>3. CASE q.pc = "count" /\ Counted(q, OwnedPage(q), p)
  <2>1. q.call.op # "delete_multi" /\ p.call = q.call /\ p.errors = q.errors /\ p.bucket = q.bucket
    BY <1>3 DEF OpFits, Counted
  <2>2. ErrorsOK(p)
    BY <2>1 DEF BatchOK, ErrorsOK
  <2> QED
    BY <1>3, <2>1, <2>2 DEF Counted, BatchOK
<1>4. CASE Batched(q, p)
  <2>1. q.bucket # NoBucket /\ q.call.op = "delete_multi" /\ q.call \in CallType
    BY <1>4, S3Assumption DEF Batched, OpFits, OnBucket, RequestOK
  <2>2. RestOfKeys(p) /\ Told(p)
    BY <1>4, <2>1, BatchGoesOn DEF BatchOK, Batching, Batched
  <2>3. ErrorsOK(p)
    BY <1>4, <2>1, BatchErrors DEF BatchOK
  <2> QED
    BY <1>4, <2>2, <2>3 DEF Batched, BatchOK
<1>5. CASE Onward(q, p)
  <2>1. /\ p.call = q.call /\ p.todo = q.todo /\ p.deleted = q.deleted /\ p.errors = q.errors
        /\ p.bucket = q.bucket \/ q.pc = "load_bucket"
    BY <1>5 DEF Onward, SameWork
  <2>2. RestOfKeys(q) /\ Told(q) => RestOfKeys(p) /\ Told(p)
    BY <2>1 DEF RestOfKeys, Told, Tried, TimesTried, TimesDeleted, TimesFailed
  <2>3. ErrorsOK(p)
    <3>1. CASE p.bucket = q.bucket
      BY <2>1, <3>1 DEF BatchOK, ErrorsOK
    <3>2. CASE q.pc = "load_bucket"
      BY <2>1, <3>2, NoErrors DEF BatchOK
    <3> QED
      BY <2>1, <3>1, <3>2
  <2>4. Batching(p) /\ p.call.op = "delete_multi" => Batching(q)
    BY <1>5 DEF Onward, SameWork, Batching
  <2>5. ~(p.pc = "done" /\ p.reply.code = "Ok" /\ p.call.op = "delete_multi")
    BY <1>5 DEF Onward, SameWork
  <2>6. p.pc # "load_bucket" /\ (p.errors # <<>> => p.bucket = q.bucket)
    BY <1>5, <2>1 DEF Onward, BatchOK
  <2> QED
    BY <2>1, <2>2, <2>3, <2>4, <2>5, <2>6 DEF BatchOK
<1> QED
  BY <1>1, <1>2, <1>3, <1>4, <1>5 DEF Moved

\* Both shapes are kept by every step; a bucket that is gone stays gone.
TasksOK == \A r \in S3Req : OpFits(s3[r]) /\ BatchOK(s3[r])

LEMMA StepTasks == GatewayInv /\ TasksOK /\ [Next]_vars => TasksOK'
<1> SUFFICES ASSUME GatewayInv, TasksOK, [Next]_vars, NEW t \in S3Req
             PROVE  OpFits(s3'[t]) /\ BatchOK(s3[t])'
  BY DEF TasksOK, OpFits
<1>1. Types /\ (\A r \in S3Req : OpFits(s3[r])) /\ BatchOK(s3[t])
  BY DEF GatewayInv, TasksOK
<1>2. Moved(s3[t], s3'[t])
  BY <1>1, TaskMoves
<1>3. OpFits(s3'[t])
  BY <1>1, <1>2, MovedFits
<1>4. s3[t] \in Request /\ RequestOK(s3[t]) /\ s3[t].call \in S3Call \cup {NoCall}
  BY <1>1 DEF Types, S3TypeOK, Request
<1>5. BatchOK(s3'[t]) /\ (s3'[t].errors # <<>> => s3'[t].bucket = s3[t].bucket)
  BY <1>1, <1>2, <1>4, MovedBatch
<1>6. ASSUME s3'[t].bucket # NoBucket, s3'[t].errors # <<>>,
             ~check_bucket(s3'[t].bucket.bucket_id)
      PROVE  ~check_bucket(s3[t].bucket.bucket_id)'
  <2>1. /\ s3'[t].bucket = s3[t].bucket /\ s3[t].bucket # NoBucket
        /\ ~check_bucket(s3[t].bucket.bucket_id)
    BY <1>5, <1>6
  <2>2. s3[t].bucket.bucket_id \in minted
    BY <2>1 DEF GatewayInv, Snapshots, HoldsBucket, Remembered
  <2>3. \A b \in buckets' \ buckets : b.bucket_id \notin minted
    BY NewBucketsAreFresh DEF vars, store
  <2> QED
    BY <2>1, <2>2, <2>3 DEF check_bucket
<1>7. ErrorsOK(s3[t])'
  <2>1. ErrorsOK(s3'[t])
    BY <1>5 DEF BatchOK
  <2>2. \A i \in 1 .. Len(s3'[t].errors) : s3'[t].errors # <<>>
    OBVIOUS
  <2> QED
    BY <1>6, <2>1, <2>2 DEF ErrorsOK, check_bucket
<1>8. BatchOK(s3[t])'
  BY <1>5, <1>7 DEF BatchOK, Batching, RestOfKeys, Told, Tried, TimesTried, TimesDeleted, TimesFailed
<1> QED
  BY <1>3, <1>8

LEMMA InitTasks == Init => TasksOK
  BY DEF Init, S3Init, TasksOK, OpFits, BatchOK, Batching, ErrorsOK, OnBucket, Idle

LEMMA TasksInvariant == Spec => [](GatewayInv /\ TasksOK)
  BY InitTasks, StepTasks, GatewayInvariant, PTL DEF Spec

(***************************************************************************)
(* Every delete_multi that is answered Ok has answered for each of its     *)
(* keys as often as it was given (a quiet one names failures only), and    *)
(* blames a missing bucket only if its bucket is gone.                     *)
(***************************************************************************)
THEOREM BatchesAccount == Spec => []BatchAccountsForEveryKey
<1>1. ASSUME GatewayInv, TasksOK, NEW r \in S3Req, s3[r].pc = "done",
             s3[r].call.op = "delete_multi", s3[r].reply.code = "Ok"
      PROVE  /\ IF s3[r].call.quiet THEN s3[r].deleted = <<>>
                ELSE \A k \in ObjectName : TimesDeleted(s3[r], k) + TimesFailed(s3[r], k)
                                              = TimesGiven(s3[r], k)
             /\ \A i \in 1 .. Len(s3[r].errors) :
                   \/ s3[r].errors[i].code = "InternalError"
                   \/ /\ s3[r].errors[i].code = "NoSuchBucket"
                      /\ ~check_bucket(s3[r].bucket.bucket_id)
  <2> DEFINE q == s3[r]
  <2>1. q.todo = <<>> /\ Told(q) /\ ErrorsOK(q)
    BY <1>1 DEF TasksOK, BatchOK, Batching
  <2>2. Len(q.call.keys) \in Nat
    BY <1>1, ServingType DEF GatewayInv, Types, CallType
  <2>3. Tried(q) = Len(q.call.keys)
    BY <2>1, <2>2 DEF Tried
  <2>4. \A k : TimesTried(q, k) = TimesGiven(q, k)
    BY <2>3 DEF TimesTried, TimesGiven
  <2> HIDE DEF q
  <2>5. IF q.call.quiet THEN q.deleted = <<>>
        ELSE \A k \in ObjectName : TimesDeleted(q, k) + TimesFailed(q, k) = TimesGiven(q, k)
    BY <2>1, <2>4 DEF Told
  <2>6. \A i \in 1 .. Len(q.errors) :
           \/ q.errors[i].code = "InternalError"
           \/ q.errors[i].code = "NoSuchBucket" /\ ~check_bucket(q.bucket.bucket_id)
    BY <2>1 DEF ErrorsOK
  <2> QED
    BY <2>5, <2>6 DEF q
<1>2. GatewayInv /\ TasksOK => BatchAccountsForEveryKey
  BY <1>1 DEF BatchAccountsForEveryKey
<1> QED
  BY <1>2, TasksInvariant, PTL

\* A task in the middle of a batch tries its next key, or is cancelled.
LEMMA BatchSteps ==
    ASSUME NEW r \in S3Req, s3[r].pc = "delete_multi",
           (\E c \in S3Call : Authenticate(r, c)) \/ Serve(r) \/ Cancel(r)
    PROVE  \/ Cancel(r)
           \/ DeleteMulti(r)
           \/ NextKey(r, BatchAfter(s3[r], "InternalError"))
  BY DEF Authenticate, Serve, Proceed, CountOwned, CreateBucket, WhoseBucket, LoadBucketFor, DeleteBucket,
         ReadBucket, PutObject, GetObject, HeadForSize, HeadObject, DeleteObject, CallFails

(***************************************************************************)
(* A key that gets no entry among the errors of its batch has no object in *)
(* the bucket any more: a quiet answer may be trusted.                     *)
(***************************************************************************)
THEOREM QuietBatchesDelete == Spec => UnmentionedKeysAreGone
<1> DEFINE Gone(r) ==
             ~\E o \in objects' : /\ o.bucket_id = s3[r].bucket.bucket_id
                                  /\ o.name = Head(s3[r].todo)
           Trusted == \A r \in S3Mover : InBatch(r) /\ s3'[r].errors = s3[r].errors => Gone(r)
<1>1. GatewayInv /\ [Next]_vars => [Trusted]_vars
  <2> SUFFICES ASSUME GatewayInv, Next, NEW t \in S3Mover, InBatch(t),
                      s3'[t].errors = s3[t].errors
               PROVE  Gone(t)
    OBVIOUS
  <2>1. /\ S3TypeOK /\ t \in S3Req /\ s3'[t] # s3[t] /\ s3[t].pc = "delete_multi"
        /\ s3'[t].call = s3[t].call
    BY DEF GatewayInv, Types, S3Mover, InBatch
  <2>2. PICK r \in S3Req : (\E c \in S3Call : Authenticate(r, c)) \/ Serve(r) \/ Cancel(r)
    BY <2>1 DEF Next, S3Next
  <2>3. t = r
    BY <2>1, <2>2, S3TaskSteps
  <2>4. Cancel(t) \/ DeleteMulti(t) \/ NextKey(t, BatchAfter(s3[t], "InternalError"))
    BY <2>1, <2>2, <2>3, BatchSteps
  <2>5. s3[t] \in Request /\ s3[t].call # NoCall /\ s3[t].todo # <<>>
    BY <2>1, ServingType DEF RequestOK
  <2>6. ~Cancel(t)
    <3>1. Idle.call = NoCall
      BY DEF Idle
    <3> QED
      BY <2>1, <2>5, <3>1, AdvanceTask DEF Cancel
  <2>7. ASSUME NEW result \in ReplyCode, ~Deleted(result), NextKey(t, BatchAfter(s3[t], result))
        PROVE  FALSE
    <3> DEFINE after == BatchAfter(s3[t], result)
    <3>1. after \in Request
      BY <2>5, <2>7, BatchAfterType
    <3>2. after.errors = Append(s3[t].errors, [key |-> Head(s3[t].todo), code |-> result])
      BY <2>5, <2>7 DEF BatchAfter, Failed, Request
    <3> HIDE DEF after
    <3>3. s3'[t] = IF after.todo # <<>> THEN after ELSE Answered(after, Answer("Ok"))
      BY <2>1, <2>7, AdvanceTask DEF NextKey, after
    <3>4. Answered(after, Answer("Ok")).errors = after.errors
      BY <3>1 DEF Answered, Request
    <3>5. s3'[t].errors = after.errors
      BY <3>3, <3>4
    <3>6. s3[t].errors \in Seq(BatchError)
      BY <2>5 DEF Request
    <3>7. \A x : Len(Append(s3[t].errors, x)) = Len(s3[t].errors) + 1 /\ Len(s3[t].errors) \in Nat
      BY <3>6
    <3> QED
      BY <3>2, <3>5, <3>7
  <2>8. CASE DeleteMulti(t)
    <3> DEFINE key    == Head(s3[t].todo)
               result == DeleteObjectResult(TargetId(t), key)
    <3>1. result \in ReplyCode
      BY DEF DeleteObjectResult, LoadObjectResult, ReplyCode
    <3>2. delete_object(TargetId(t), key) /\ NextKey(t, BatchAfter(s3[t], result))
      BY <2>8 DEF DeleteMulti
    <3>3. Deleted(result)
      BY <2>7, <3>1, <3>2
    <3>4. check_bucket(TargetId(t))
      BY <3>3 DEF Deleted, DeleteObjectResult, LoadObjectResult
    <3> QED
      BY <3>2, <3>4 DEF delete_object, TargetId
  <2>9. CASE NextKey(t, BatchAfter(s3[t], "InternalError"))
    BY <2>7, <2>9 DEF Deleted, ReplyCode
  <2> QED
    BY <2>4, <2>6, <2>8, <2>9
<1> QED
  BY <1>1, GatewayInvariant, PTL DEF Spec, UnmentionedKeysAreGone

-----------------------------------------------------------------------------
(* Paging *)

LEMMA PageFields ==
    ASSUME NEW rows, NEW max
    PROVE  /\ Page(rows, max).entries = PageOf(rows, max)
           /\ Page(rows, max).is_truncated = (PageOf(rows, max) # rows)
           /\ Page(rows, max).next_marker = LastName(PageOf(rows, max))
  BY DEF Page

\* A page holds every row up to its last name: nothing is skipped by resuming after it.
LEMMA PageSkipsNothing ==
    ASSUME NEW rows, IsFiniteSet(rows), \A x \in rows : x.name \in Nat \ {0}, NEW max \in Nat,
           NEW x \in rows, x.name <= LastName(PageOf(rows, max))
    PROVE  x \in PageOf(rows, max)
<1> DEFINE page     == PageOf(rows, max)
           before(n) == {y \in rows : y.name < n}
<1>1. PICK z \in page : LastName(page) = z.name
  <2>1. LastName(page) # 0
    OBVIOUS
  <2>2. \E y \in page : IsLast(y, page)
    BY <2>1 DEF LastName
  <2> QED
    BY <2>2 DEF LastName
<1>2. z \in rows /\ Cardinality(before(z.name)) < max
  BY DEF PageOf
<1>3. before(x.name) \subseteq before(z.name) /\ before(z.name) \subseteq rows
  BY <1>1, <1>2
<1>4. IsFiniteSet(before(z.name))
  BY <1>3, FS_Subset
<1>5. /\ Cardinality(before(x.name)) <= Cardinality(before(z.name))
      /\ IsFiniteSet(before(x.name))
  BY <1>3, <1>4, FS_Subset
<1>6. Cardinality(before(x.name)) \in Nat /\ Cardinality(before(z.name)) \in Nat
  BY <1>4, <1>5, FS_CardinalityType
<1>7. Cardinality(before(x.name)) < max
  BY <1>2, <1>5, <1>6
<1> QED
  BY <1>7 DEF PageOf

\* The table of buckets stays finite, and the ids it was opened with stay handed out.
FiniteStore == IsFiniteSet(buckets) /\ \A b \in SeedBuckets : b.bucket_id \in minted

LEMMA StepFinite == Types /\ FiniteStore /\ [Next]_vars => FiniteStore'
<1> SUFFICES ASSUME Types, FiniteStore, [Next]_vars PROVE FiniteStore'
  OBVIOUS
<1>1. minted \subseteq minted'
  BY NewBucketsAreFresh DEF vars
<1>2. [DriverNext]_store
  BY StepTypes
<1>3. buckets' \subseteq buckets \/ \E info : buckets' = buckets \cup {info}
  BY <1>2 DEF DriverNext, store, store_user, remove_user, create_bucket, remove_bucket,
              put_object, delete_object
<1>4. IsFiniteSet(buckets')
  BY <1>3, FS_Subset, FS_AddElement DEF FiniteStore
<1> QED
  BY <1>1, <1>4 DEF FiniteStore

\* A page of a user's buckets is the first of them after the marker.
LEMMA BucketPageCovers ==
    ASSUME TypeOK, FiniteStore, NEW uid, NEW marker \in Nat
    PROVE  LET rows == {b \in OwnedBy(Some(uid)) : b.name > marker}
               page == list_buckets(Some(uid), marker, PageSize)
           IN  /\ page.entries \subseteq rows
               /\ ~page.is_truncated => page.entries = rows
               /\ \A b \in rows : b.name <= page.next_marker => b \in page.entries
<1> DEFINE page == list_buckets(Some(uid), marker, PageSize)
           rows == {b \in OwnedBy(Some(uid)) : b.name > marker}
<1>1. page = Page(rows, PageSize)
  BY DEF list_buckets
<1>2. rows \subseteq buckets
  BY DEF OwnedBy
<1>3. IsFiniteSet(rows)
  BY <1>2, FS_Subset DEF FiniteStore
<1>4. \A x \in rows : x.name \in Nat \ {0}
  BY <1>2, DriverAssumption DEF TypeOK, BucketInfo
<1> HIDE DEF rows, page
<1>5. \A x \in rows : x.name <= LastName(PageOf(rows, PageSize)) => x \in PageOf(rows, PageSize)
  BY <1>3, <1>4, DriverAssumption, PageSkipsNothing
<1>6. PageOf(rows, PageSize) \subseteq rows
  BY DEF PageOf
<1>7. /\ page.entries = PageOf(rows, PageSize)
      /\ ~page.is_truncated => page.entries = rows
      /\ page.next_marker = LastName(PageOf(rows, PageSize))
  <2>1. /\ Page(rows, PageSize).entries = PageOf(rows, PageSize)
        /\ Page(rows, PageSize).is_truncated = (PageOf(rows, PageSize) # rows)
        /\ Page(rows, PageSize).next_marker = LastName(PageOf(rows, PageSize))
    BY PageFields
  <2>2. /\ page.entries = Page(rows, PageSize).entries
        /\ page.is_truncated = Page(rows, PageSize).is_truncated
        /\ page.next_marker = Page(rows, PageSize).next_marker
    BY <1>1
  <2> QED
    BY <2>1, <2>2
<1>8. /\ page.entries \subseteq rows
      /\ ~page.is_truncated => page.entries = rows
      /\ \A b \in rows : b.name <= page.next_marker => b \in page.entries
  BY <1>5, <1>6, <1>7
<1> QED
  BY <1>8, Zenon DEF rows, page

LEMMA OwnedPageCovers ==
    ASSUME TypeOK, FiniteStore, NEW q, q.marker \in Nat
    PROVE  LET rows == {b \in OwnedBy(Some(q.user.user_id)) : b.name > q.marker}
               page == OwnedPage(q)
           IN  /\ page.entries \subseteq rows
               /\ ~page.is_truncated => page.entries = rows
               /\ \A b \in rows : b.name <= page.next_marker => b \in page.entries
  BY BucketPageCovers DEF OwnedPage

\* A page of at least one row is empty only if there are no rows.
LEMMA PageNotEmpty ==
    ASSUME NEW rows, rows # {}, \A x \in rows : x.name \in Nat, NEW max \in Nat \ {0}
    PROVE  PageOf(rows, max) # {}
<1>1. {x.name : x \in rows} \subseteq Nat /\ {x.name : x \in rows} # {}
  OBVIOUS
<1>2. PICK n \in {x.name : x \in rows} : \A m \in {x.name : x \in rows} : n <= m
  BY <1>1, LeastName
<1>3. PICK x \in rows : x.name = n
  OBVIOUS
<1>4. {y \in rows : y.name < x.name} = {}
  BY <1>1, <1>2, <1>3
<1>5. Cardinality({y \in rows : y.name < x.name}) = 0
  BY <1>4, FS_EmptySet
<1>6. x \in PageOf(rows, max)
  BY <1>5 DEF PageOf
<1> QED
  BY <1>6

-----------------------------------------------------------------------------
(***************************************************************************)
(* Listings.  What a task has counted so far holds every bucket of its     *)
(* user that has been there since the start, up to the marker.             *)
(***************************************************************************)
ListingOK(q, steady) ==
    LET mine == {b \in steady : b.owner = q.user.user_id}
    IN  /\ q.pc = "count" => \A b \in mine : b.name <= q.marker => b \in q.owned
        /\ q.pc = "done" /\ q.call.op = "list_buckets" /\ q.reply.code = "Ok"
              => mine \subseteq q.owned

LEMMA CountedListing ==
    ASSUME TypeOK, FiniteStore, NEW q \in Request, NEW p, q.pc = "count",
           ListingOK(q, SeedBuckets \cap buckets), Counted(q, OwnedPage(q), p)
    PROVE  ListingOK(p, SeedBuckets \cap buckets)
<1> DEFINE page == OwnedPage(q)
           rows == {b \in OwnedBy(Some(q.user.user_id)) : b.name > q.marker}
           mine == {b \in SeedBuckets \cap buckets : b.owner = q.user.user_id}
<1>1. q.marker \in Nat /\ \A b \in mine : b.name \in Nat
  BY DriverAssumption DEF Request, TypeOK, BucketInfo
<1>2. /\ page.entries \subseteq rows
      /\ ~page.is_truncated => page.entries = rows
      /\ \A b \in rows : b.name <= page.next_marker => b \in page.entries
  BY <1>1, OwnedPageCovers
<1>3. \A b \in mine : b \in rows \/ b.name <= q.marker
  BY <1>1 DEF OwnedBy, Some, None
<1>4. \A b \in mine : b.name <= q.marker => b \in q.owned
  BY DEF ListingOK
<1>5. p.user = q.user /\ p.owned = q.owned \cup page.entries
  BY DEF Counted
<1> HIDE DEF rows, page
<1>6. p.pc = "count" => \A b \in mine : b.name <= p.marker => b \in p.owned
  BY <1>2, <1>3, <1>4, <1>5 DEF Counted, page
<1>7. p.pc = "done" /\ p.reply.code = "Ok" => mine \subseteq p.owned
  BY <1>2, <1>3, <1>4, <1>5 DEF Counted, page
<1> QED
  BY <1>5, <1>6, <1>7 DEF ListingOK

LEMMA MovedListing ==
    ASSUME TypeOK, FiniteStore, NEW q \in Request, NEW p, OpFits(q),
           ListingOK(q, SeedBuckets \cap buckets), Moved(q, p)
    PROVE  ListingOK(p, SeedBuckets \cap buckets)
<1>1. ListingOK(Idle, SeedBuckets \cap buckets)
  BY DEF ListingOK, Idle
<1>2. ASSUME NEW c \in S3Call, Starting(c, p) PROVE ListingOK(p, SeedBuckets \cap buckets)
  <2>1. \A b \in buckets : ~(b.name <= 0)
    <3>1. \A b \in buckets : b.name \in Nat \ {0}
      BY DriverAssumption DEF TypeOK, BucketInfo
    <3> QED
      BY <3>1
  <2>2. p.marker = 0 /\ (p.pc = "done" => p.reply.code # "Ok")
    BY <1>2 DEF Starting
  <2> QED
    BY <2>1, <2>2 DEF ListingOK
<1>3. CASE q.pc = "count" /\ Counted(q, OwnedPage(q), p)
  BY <1>3, CountedListing
<1>4. CASE Batched(q, p)
  BY <1>4 DEF Batched, ListingOK, OpFits, OnBucket
<1>5. CASE Onward(q, p)
  BY <1>5 DEF Onward, SameWork, ListingOK
<1> QED
  BY <1>1, <1>2, <1>3, <1>4, <1>5 DEF Moved

ListingsOK == FiniteStore /\ \A r \in S3Req : ListingOK(s3[r], SeedBuckets \cap buckets)

LEMMA StepListings == GatewayInv /\ TasksOK /\ ListingsOK /\ [Next]_vars => ListingsOK'
<1> SUFFICES ASSUME GatewayInv, TasksOK, ListingsOK, [Next]_vars PROVE ListingsOK'
  OBVIOUS
<1>1. Types /\ FiniteStore /\ \A r \in S3Req : OpFits(s3[r])
  BY DEF GatewayInv, ListingsOK, TasksOK
<1>2. FiniteStore'
  BY <1>1, StepFinite
<1>3. SeedBuckets \cap buckets' \subseteq buckets
  BY NewBucketsAreFresh DEF vars, store, ListingsOK, FiniteStore
<1>4. ASSUME NEW t \in S3Req PROVE ListingOK(s3'[t], SeedBuckets \cap buckets')
  <2>1. s3[t] \in Request /\ TypeOK
    BY <1>1 DEF Types, S3TypeOK
  <2>2. Moved(s3[t], s3'[t])
    BY <1>1, TaskMoves
  <2>3. ListingOK(s3'[t], SeedBuckets \cap buckets)
    BY <1>1, <2>1, <2>2, MovedListing DEF ListingsOK
  <2> QED
    BY <1>3, <2>3 DEF ListingOK
<1> QED
  BY <1>2, <1>4 DEF ListingsOK

(***************************************************************************)
(* list_buckets never misses a bucket that was there all along: not for    *)
(* any page size, however many buckets come and go between the pages.      *)
(***************************************************************************)
THEOREM ListingsAreComplete == Spec => []ListingsShowSteadyBuckets
<1>1. Init => ListingsOK
  BY SeedAssumption DEF Init, DriverInit, S3Init, ListingsOK, FiniteStore, ListingOK, Idle
<1>2. ListingsOK => ListingsShowSteadyBuckets
  BY DEF ListingsOK, ListingOK, ListingsShowSteadyBuckets, Steady
<1> QED
  BY <1>1, <1>2, StepListings, TasksInvariant, PTL DEF Spec

-----------------------------------------------------------------------------
(***************************************************************************)
(* Quotas.  A contender for a user's quota is a create_bucket of that user *)
(* that may still come to create: it is about to, or it is still counting  *)
(* and would find at most v buckets, those counted and those ahead of it.  *)
(* The potential: the buckets a user owns and the contenders for v are     *)
(* together at most v and one for every task, for every v from the limit   *)
(* less one.  Without the counting ones, or for one v only, it would not   *)
(* be inductive: a removal lets a count that was too high end lower.       *)
(***************************************************************************)
OwnedIn(uid, B) == {b \in B : b.owner = uid}

Ahead(q, B) == q.owned \cup {b \in OwnedIn(q.user.user_id, B) : b.name > q.marker}

Contends(q, uid, v, B) ==
    /\ q.pc \in {"count", "create"} /\ q.call.op = "create_bucket" /\ q.user.user_id = uid
    /\ q.pc = "count" => Cardinality(Ahead(q, B)) <= v

Contenders(tasks, uid, v, B) == {r \in S3Req : Contends(tasks[r], uid, v, B)}

QuotaUserOK(u, tasks, B) ==
    \A v \in Nat : v >= u.max_buckets - 1 =>
        Cardinality(OwnedIn(u.user_id, B)) + Cardinality(Contenders(tasks, u.user_id, v, B))
            <= Cardinality(S3Req) + v

\* The user whose quota a task counts towards is stored, and what it has counted is finite.
CountsForUser(q) ==
    /\ q.pc \in {"count", "create"} => q.user \in users
    /\ IsFiniteSet(q.owned)

QuotaOK ==
    /\ \A r \in S3Req : CountsForUser(s3[r])
    /\ \A u \in users : u.max_buckets > 0 => QuotaUserOK(u, s3, buckets)

LEMMA AheadFinite ==
    ASSUME NEW q, IsFiniteSet(q.owned), NEW B, IsFiniteSet(B)
    PROVE  /\ IsFiniteSet(Ahead(q, B)) /\ Cardinality(Ahead(q, B)) \in Nat
<1>1. {b \in OwnedIn(q.user.user_id, B) : b.name > q.marker} \subseteq B
  BY DEF OwnedIn
<1>2. IsFiniteSet({b \in OwnedIn(q.user.user_id, B) : b.name > q.marker})
  BY <1>1, FS_Subset
<1>3. IsFiniteSet(Ahead(q, B))
  BY <1>2, FS_Union DEF Ahead
<1> QED
  BY <1>3, FS_CardinalityType

\* Counting one page leaves nothing behind: what was ahead is counted or still ahead.
LEMMA CountedAhead ==
    ASSUME TypeOK, FiniteStore, NEW q \in Request, NEW p, Counted(q, OwnedPage(q), p)
    PROVE  /\ p.pc = "count" => Ahead(q, buckets) \subseteq Ahead(p, buckets)
           /\ p.pc = "create" => Ahead(q, buckets) = p.owned
<1> DEFINE page == OwnedPage(q)
           rows == {b \in OwnedBy(Some(q.user.user_id)) : b.name > q.marker}
           mine == {b \in OwnedIn(q.user.user_id, buckets) : b.name > q.marker}
<1>1. q.marker \in Nat
  BY DEF Request
<1>2. /\ page.entries \subseteq rows
      /\ ~page.is_truncated => page.entries = rows
      /\ \A b \in rows : b.name <= page.next_marker => b \in page.entries
  BY <1>1, OwnedPageCovers
<1>3. rows = mine
  BY DEF OwnedBy, OwnedIn, Some, None
<1>4. page.next_marker \in Nat
  BY BucketPageType DEF OwnedPage
<1>5. \A b \in mine : b.name \in Nat
  BY DriverAssumption DEF OwnedIn, TypeOK, BucketInfo
<1>6. p.user = q.user /\ p.owned = q.owned \cup page.entries
  BY DEF Counted
<1> HIDE DEF page, rows
<1>7. ASSUME p.pc = "count" PROVE Ahead(q, buckets) \subseteq Ahead(p, buckets)
  <2>1. p.marker = page.next_marker
    BY <1>7 DEF Counted, page
  <2>2. \A b \in mine : b \in page.entries \/ b.name > p.marker
    BY <1>2, <1>3, <1>4, <1>5, <2>1
  <2> QED
    BY <1>6, <2>2 DEF Ahead
<1>8. ASSUME p.pc = "create" PROVE Ahead(q, buckets) = p.owned
  <2>1. ~page.is_truncated
    BY <1>8 DEF Counted, page
  <2> QED
    BY <1>2, <1>3, <1>6, <2>1 DEF Ahead
<1> QED
  BY <1>7, <1>8

\* With more than v buckets owned, no step that leaves the store alone adds a contender.
LEMMA NoNewContender ==
    ASSUME TypeOK, StoreConsistent, FiniteStore, NEW q \in Request, NEW p, Moved(q, p),
           CountsForUser(q), NEW u \in users, u.max_buckets > 0, NEW v \in Nat,
           v >= u.max_buckets - 1, Cardinality(OwnedIn(u.user_id, buckets)) > v,
           Contends(p, u.user_id, v, buckets)
    PROVE  Contends(q, u.user_id, v, buckets)
<1>0. u.max_buckets \in Int /\ IsFiniteSet(buckets)
  BY DriverAssumption DEF TypeOK, UserInfo, FiniteStore
<1>1. CASE p = Idle
  BY <1>1 DEF Contends, Idle
<1>2. ASSUME NEW c \in S3Call, Starting(c, p) PROVE FALSE
  <2>1. p.user \in users /\ p.user.user_id = u.user_id
    BY <1>2 DEF Starting, Contends
  <2>2. p.user = u
    BY <2>1 DEF StoreConsistent, AccessKeyIdentifiesUser
  <2>3. p.pc = "count"
    BY <1>0, <1>2, <2>2 DEF Starting, Contends
  <2>4. Ahead(p, buckets) = OwnedIn(u.user_id, buckets)
    <3>1. \A b \in buckets : b.name \in Nat \ {0}
      BY DriverAssumption DEF TypeOK, BucketInfo
    <3>2. \A b \in buckets : b.name > 0
      BY <3>1
    <3> QED
      BY <1>2, <2>2, <3>2 DEF Starting, Ahead, OwnedIn
  <2>5. Cardinality(OwnedIn(u.user_id, buckets)) \in Nat
    <3>1. IsFiniteSet(OwnedIn(u.user_id, buckets))
      BY <1>0, FS_Subset DEF OwnedIn
    <3> QED
      BY <3>1, FS_CardinalityType
  <2> QED
    BY <2>3, <2>4, <2>5 DEF Contends
<1>3. CASE q.pc = "count" /\ Counted(q, OwnedPage(q), p)
  <2>1. IsFiniteSet(q.owned) /\ q.user \in users
    BY <1>3 DEF CountsForUser
  <2>2. q.user = u /\ q.call.op = "create_bucket"
    BY <1>3, <2>1 DEF Counted, Contends, StoreConsistent, AccessKeyIdentifiesUser
  <2>3. IsFiniteSet(Ahead(q, buckets)) /\ Cardinality(Ahead(q, buckets)) \in Nat
    BY <1>0, <2>1, AheadFinite
  <2>4. CASE p.pc = "count"
    <3>1. IsFiniteSet(p.owned)
      <4>1. OwnedPage(q).entries \subseteq buckets
        BY BucketPageType DEF OwnedPage
      <4>2. IsFiniteSet(OwnedPage(q).entries)
        BY <1>0, <4>1, FS_Subset
      <4> QED
        BY <1>3, <2>1, <4>2, FS_Union DEF Counted
    <3>2. IsFiniteSet(Ahead(p, buckets)) /\ Cardinality(Ahead(p, buckets)) \in Nat
      BY <1>0, <3>1, AheadFinite
    <3>3. Ahead(q, buckets) \subseteq Ahead(p, buckets)
      BY <1>3, <2>4, CountedAhead
    <3>4. Cardinality(Ahead(q, buckets)) <= Cardinality(Ahead(p, buckets))
      BY <3>2, <3>3, FS_Subset
    <3>5. Cardinality(Ahead(p, buckets)) <= v
      BY <2>4 DEF Contends
    <3>6. Cardinality(Ahead(q, buckets)) <= v
      BY <2>3, <3>2, <3>4, <3>5
    <3> QED
      BY <1>3, <2>2, <3>6 DEF Contends
  <2>5. CASE p.pc = "create"
    <3>1. ~QuotaReached(q, p.owned) /\ p.owned = Ahead(q, buckets)
      BY <1>3, <2>5, CountedAhead DEF Counted
    <3>2. ~(Cardinality(Ahead(q, buckets)) >= u.max_buckets)
      BY <2>2, <3>1 DEF QuotaReached
    <3>3. Cardinality(Ahead(q, buckets)) <= v
      BY <1>0, <2>3, <3>2
    <3> QED
      BY <1>3, <2>2, <3>3 DEF Contends
  <2> QED
    BY <2>4, <2>5 DEF Contends
<1>4. CASE Batched(q, p)
  BY <1>4 DEF Batched, Contends
<1>5. CASE Onward(q, p)
  BY <1>5 DEF Onward, Contends
<1> QED
  BY <1>1, <1>2, <1>3, <1>4, <1>5 DEF Moved

\* The table of buckets changes by one row at a time: one created, or one removed.
BucketCreatedBy(t) ==
    /\ s3[t].pc = "create" /\ s3'[t].pc = "done"
    /\ \E info : /\ info \notin buckets /\ info.owner = s3[t].user.user_id
                 /\ buckets' = buckets \cup {info}

LEMMA RemovesOne ==
    ASSUME StoreConsistent, NEW name, remove_bucket(name)
    PROVE  buckets' = buckets \/ \E d \in buckets : buckets' = buckets \ {d}
  BY LoadBucketType
     DEF StoreConsistent, BucketNamesOneInstance, remove_bucket, RemoveBucketResult

LEMMA BucketSteps ==
    ASSUME Types, StoreConsistent, Next
    PROVE  \/ buckets' = buckets
           \/ \E t \in S3Req : BucketCreatedBy(t)
           \/ \E d \in buckets : buckets' = buckets \ {d}
<1>1. ASSUME NEW r \in S3Req, CreateBucket(r)
      PROVE  buckets' = buckets \/ BucketCreatedBy(r)
  <2>1. s3[r].pc = "create" /\ s3[r] \in Request /\ S3TypeOK
    BY <1>1 DEF CreateBucket, Types, S3TypeOK
  <2>2. PICK id \in NewIds :
          LET info == [bucket_id |-> id, name |-> s3[r].call.name, owner |-> s3[r].user.user_id]
          IN  /\ create_bucket(info)
              /\ CreateBucketResult(info) = "Ok" => Finish(r, "Ok")
    BY <1>1 DEF CreateBucket
  <2> DEFINE info == [bucket_id |-> id, name |-> s3[r].call.name, owner |-> s3[r].user.user_id]
  <2>3. /\ info.owner = s3[r].user.user_id /\ create_bucket(info)
        /\ CreateBucketResult(info) = "Ok" => Finish(r, "Ok")
    BY <2>2
  <2> HIDE DEF info
  <2>4. CASE CreateBucketResult(info) = "Ok"
    <3>1. s3'[r] = Answered(s3[r], Answer("Ok"))
      BY <2>1, <2>3, <2>4, AdvanceTask DEF Finish
    <3>2. s3'[r].pc = "done"
      BY <2>1, <3>1 DEF Answered, Request
    <3>3. info \notin buckets /\ buckets' = buckets \cup {info}
      BY <2>3, <2>4 DEF create_bucket, CreateBucketResult, check_bucket
    <3> QED
      BY <2>1, <2>3, <3>2, <3>3 DEF BucketCreatedBy
  <2>5. CASE CreateBucketResult(info) # "Ok"
    BY <2>3, <2>5 DEF create_bucket
  <2> QED
    BY <2>4, <2>5
<1>2. ASSUME NEW r \in S3Req, DeleteBucket(r)
      PROVE  buckets' = buckets \/ \E d \in buckets : buckets' = buckets \ {d}
  BY <1>2, RemovesOne DEF DeleteBucket
<1>3. ASSUME NEW a \in AdminReq, RemoveBucket(a)
      PROVE  buckets' = buckets \/ \E d \in buckets : buckets' = buckets \ {d}
  <2>1. \E name : remove_bucket(name)
    BY <1>3 DEF RemoveBucket
  <2> QED
    BY <2>1, RemovesOne
<1>4. ASSUME NEW r \in S3Req,
             \/ \E c \in S3Call : Authenticate(r, c)
             \/ Cancel(r) \/ CountOwned(r) \/ WhoseBucket(r) \/ LoadBucketFor(r)
             \/ ReadBucket(r) \/ PutObject(r) \/ GetObject(r)
             \/ HeadForSize(r) \/ HeadObject(r) \/ DeleteObject(r) \/ DeleteMulti(r)
             \/ CallFails(r)
      PROVE  buckets' = buckets
  BY <1>4 DEF Authenticate, Cancel, CountOwned, WhoseBucket, LoadBucketFor, ReadBucket,
              PutObject, GetObject, HeadForSize, HeadObject, DeleteObject, DeleteMulti,
              CallFails, store, put_object, delete_object
<1>5. ASSUME NEW a \in AdminReq,
             \/ (\E c \in AdminCall : AdminStart(a, c)) \/ AdminCancel(a) \/ LoadUser(a)
             \/ CheckEmail(a) \/ CheckKey(a) \/ GenerateKey(a) \/ StoreUser(a) \/ OwnsAny(a)
             \/ ListBuckets(a) \/ ListStats(a) \/ LoadInstance(a) \/ ListObjects(a)
             \/ PurgeObject(a) \/ RemoveUser(a) \/ AdminCallFails(a)
      PROVE  buckets' = buckets
  BY <1>5 DEF AdminStart, AdminCancel, LoadUser, CheckEmail, CheckKey,
              GenerateKey, StoreUser, OwnsAny, ListBuckets, ListStats, LoadInstance,
              ListObjects, PurgeObject, RemoveUser, AdminCallFails, store, store_user,
              remove_user, delete_object
<1> QED
  BY <1>1, <1>2, <1>3, <1>4, <1>5 DEF Next, S3Next, Serve, Proceed, AdminNext, AdminServe, AdminProceed

\* A step that changes the table of buckets moves no task into counting or creating.
LEMMA ContendersStand ==
    ASSUME NEW q, NEW p, Moved(q, p), buckets' # buckets, p.pc \in {"count", "create"}
    PROVE  p = q
  BY DEF Moved, Starting, Counted, Batched, Onward, Idle, store

\* Contenders are tasks, so there are no more of them than tasks.
LEMMA ContendersFinite ==
    ASSUME NEW tasks, NEW uid, NEW v, NEW B
    PROVE  LET C == Contenders(tasks, uid, v, B)
           IN  /\ IsFiniteSet(C) /\ Cardinality(C) \in Nat /\ Cardinality(S3Req) \in Nat
               /\ Cardinality(C) <= Cardinality(S3Req)
<1> DEFINE C == Contenders(tasks, uid, v, B)
<1>1. C \subseteq S3Req
  BY DEF Contenders
<1> HIDE DEF C
<1>2. IsFiniteSet(S3Req) /\ IsFiniteSet(C) /\ Cardinality(C) <= Cardinality(S3Req)
  BY <1>1, S3Assumption, FS_Subset
<1>3. Cardinality(C) \in Nat /\ Cardinality(S3Req) \in Nat
  BY <1>2, FS_CardinalityType
<1> QED
  BY <1>2, <1>3 DEF C

LEMMA OwnedFinite ==
    ASSUME NEW B, IsFiniteSet(B), NEW uid
    PROVE  IsFiniteSet(OwnedIn(uid, B)) /\ Cardinality(OwnedIn(uid, B)) \in Nat
<1>1. IsFiniteSet(OwnedIn(uid, B))
  BY FS_Subset DEF OwnedIn
<1> QED
  BY <1>1, FS_CardinalityType

\* How the buckets ahead of a task change with the table.
LEMMA AheadChanges ==
    ASSUME NEW q, IsFiniteSet(q.owned), NEW B, IsFiniteSet(B), NEW B1, IsFiniteSet(B1)
    PROVE  /\ OwnedIn(q.user.user_id, B) \subseteq OwnedIn(q.user.user_id, B1)
                 => Cardinality(Ahead(q, B)) <= Cardinality(Ahead(q, B1))
           /\ \A d : B1 = B \ {d} => Cardinality(Ahead(q, B)) <= Cardinality(Ahead(q, B1)) + 1
<1>1. /\ IsFiniteSet(Ahead(q, B)) /\ Cardinality(Ahead(q, B)) \in Nat
      /\ IsFiniteSet(Ahead(q, B1)) /\ Cardinality(Ahead(q, B1)) \in Nat
  BY AheadFinite
<1>2. ASSUME OwnedIn(q.user.user_id, B) \subseteq OwnedIn(q.user.user_id, B1)
      PROVE  Cardinality(Ahead(q, B)) <= Cardinality(Ahead(q, B1))
  <2>1. Ahead(q, B) \subseteq Ahead(q, B1)
    BY <1>2 DEF Ahead
  <2> QED
    BY <1>1, <2>1, FS_Subset
<1>3. ASSUME NEW d, B1 = B \ {d}
      PROVE  Cardinality(Ahead(q, B)) <= Cardinality(Ahead(q, B1)) + 1
  <2>1. Ahead(q, B) \subseteq Ahead(q, B1) \cup {d}
    BY <1>3 DEF Ahead, OwnedIn
  <2>2. /\ IsFiniteSet(Ahead(q, B1) \cup {d})
        /\ Cardinality(Ahead(q, B1) \cup {d}) =
              IF d \in Ahead(q, B1) THEN Cardinality(Ahead(q, B1)) ELSE Cardinality(Ahead(q, B1)) + 1
    BY <1>1, FS_AddElement
  <2>3. Cardinality(Ahead(q, B)) <= Cardinality(Ahead(q, B1) \cup {d})
    BY <2>1, <2>2, FS_Subset
  <2> QED
    BY <1>1, <2>2, <2>3
<1> QED
  BY <1>2, <1>3

LEMMA StepQuotaUser ==
    ASSUME GatewayInv, TasksOK, FiniteStore, QuotaOK, Next,
           NEW u \in users, u.max_buckets > 0
    PROVE  QuotaUserOK(u, s3', buckets')
<1> DEFINE uid    == u.user_id
           N      == Cardinality(S3Req)
           own    == Cardinality(OwnedIn(uid, buckets))
           own1   == Cardinality(OwnedIn(uid, buckets'))
           C(v)   == Contenders(s3, uid, v, buckets)
           C1(v)  == Contenders(s3', uid, v, buckets')
<1>1. /\ TypeOK /\ StoreConsistent /\ Types /\ FiniteStore'
      /\ \A r \in S3Req : Moved(s3[r], s3'[r]) /\ s3[r] \in Request /\ CountsForUser(s3[r])
  BY TaskMoves, StepFinite DEF GatewayInv, TasksOK, Types, S3TypeOK, QuotaOK
<1>2. /\ IsFiniteSet(buckets) /\ IsFiniteSet(buckets')
      /\ IsFiniteSet(OwnedIn(uid, buckets)) /\ own \in Nat /\ own1 \in Nat
  BY <1>1, OwnedFinite DEF FiniteStore
<1>3. \A v : /\ IsFiniteSet(C(v)) /\ Cardinality(C(v)) \in Nat /\ N \in Nat
             /\ IsFiniteSet(C1(v)) /\ Cardinality(C1(v)) \in Nat /\ Cardinality(C1(v)) <= N
  BY ContendersFinite
<1>4. \A v \in Nat : v >= u.max_buckets - 1 => own + Cardinality(C(v)) <= N + v
  BY DEF QuotaOK, QuotaUserOK
<1>5. u.max_buckets \in Int
  BY <1>1, DriverAssumption DEF TypeOK, UserInfo
<1> SUFFICES ASSUME NEW v \in Nat, v >= u.max_buckets - 1
             PROVE  own1 + Cardinality(C1(v)) <= N + v
  BY DEF QuotaUserOK
<1>6. CASE buckets' = buckets
  <2>1. CASE own <= v
    BY <1>2, <1>3, <1>6, <2>1
  <2>2. CASE own > v
    <3>1. C1(v) \subseteq C(v)
      BY <1>1, <1>6, <2>2, NoNewContender DEF Contenders
    <3>2. Cardinality(C1(v)) <= Cardinality(C(v))
      BY <1>3, <3>1, FS_Subset
    <3> QED
      BY <1>2, <1>3, <1>4, <1>6, <3>2
  <2> QED
    BY <1>2, <2>1, <2>2
<1>7. ASSUME NEW t \in S3Req, BucketCreatedBy(t)
      PROVE  own1 + Cardinality(C1(v)) <= N + v
  <2>1. PICK info : /\ info \notin buckets /\ info.owner = s3[t].user.user_id
                    /\ buckets' = buckets \cup {info}
    BY <1>7 DEF BucketCreatedBy
  <2>2. s3[t].pc = "create" /\ s3'[t].pc = "done" /\ s3[t].call.op = "create_bucket"
    BY <1>7 DEF BucketCreatedBy, TasksOK, OpFits
  <2>3. C1(v) \subseteq C(v) \ {t}
    <3> SUFFICES ASSUME NEW r \in S3Req, Contends(s3'[r], uid, v, buckets')
                 PROVE  r # t /\ Contends(s3[r], uid, v, buckets)
      BY DEF Contenders
    <3>1. r # t /\ s3'[r] = s3[r]
      BY <1>1, <2>1, <2>2, ContendersStand DEF Contends
    <3>2. IsFiniteSet(s3[r].owned)
      BY <1>1 DEF CountsForUser
    <3>3. /\ Cardinality(Ahead(s3[r], buckets)) <= Cardinality(Ahead(s3[r], buckets'))
          /\ Cardinality(Ahead(s3[r], buckets)) \in Nat
          /\ Cardinality(Ahead(s3[r], buckets')) \in Nat
      <4>1. OwnedIn(s3[r].user.user_id, buckets) \subseteq OwnedIn(s3[r].user.user_id, buckets')
        BY <2>1 DEF OwnedIn
      <4> QED
        BY <1>2, <3>2, <4>1, AheadChanges, AheadFinite
    <3> QED
      BY <3>1, <3>3 DEF Contends
  <2>4. Cardinality(C1(v)) <= Cardinality(C(v) \ {t})
    <3>1. IsFiniteSet(C(v) \ {t})
      BY <1>3, FS_RemoveElement
    <3> QED
      BY <2>3, <3>1, FS_Subset
  <2>5. Cardinality(C(v) \ {t}) = IF t \in C(v) THEN Cardinality(C(v)) - 1 ELSE Cardinality(C(v))
    BY <1>3, FS_RemoveElement
  <2>6. CASE s3[t].user.user_id = uid
    <3>1. t \in C(v)
      BY <2>2, <2>6 DEF Contenders, Contends
    <3>2. OwnedIn(uid, buckets') = OwnedIn(uid, buckets) \cup {info}
      BY <2>1, <2>6 DEF OwnedIn
    <3>3. info \notin OwnedIn(uid, buckets)
      BY <2>1 DEF OwnedIn
    <3>4. own1 = own + 1
      BY <1>2, <3>2, <3>3, FS_AddElement
    <3> QED
      BY <1>2, <1>3, <1>4, <2>4, <2>5, <3>1, <3>4
  <2>7. CASE s3[t].user.user_id # uid
    <3>1. OwnedIn(uid, buckets') = OwnedIn(uid, buckets)
      BY <2>1, <2>7 DEF OwnedIn
    <3>2. Cardinality(C1(v)) <= Cardinality(C(v))
      BY <1>3, <2>4, <2>5
    <3> QED
      BY <1>2, <1>3, <1>4, <3>1, <3>2
  <2> QED
    BY <2>6, <2>7
<1>8. ASSUME NEW d \in buckets, buckets' = buckets \ {d}
      PROVE  own1 + Cardinality(C1(v)) <= N + v
  <2>1. ASSUME NEW r \in S3Req, Contends(s3'[r], uid, v, buckets')
        PROVE  /\ s3'[r] = s3[r] /\ s3[r].user.user_id = uid
               /\ IsFiniteSet(s3[r].owned)
               /\ Cardinality(Ahead(s3[r], buckets)) \in Nat
               /\ Cardinality(Ahead(s3[r], buckets')) \in Nat
    <3>1. s3'[r] = s3[r] /\ s3[r].user.user_id = uid
      BY <1>1, <1>8, <2>1, ContendersStand DEF Contends
    <3>2. IsFiniteSet(s3[r].owned)
      BY <1>1 DEF CountsForUser
    <3> QED
      BY <1>2, <3>1, <3>2, AheadFinite
  <2>2. CASE d.owner = uid
    <3>1. C1(v) \subseteq C(v + 1)
      <4> SUFFICES ASSUME NEW r \in S3Req, Contends(s3'[r], uid, v, buckets')
                   PROVE  Contends(s3[r], uid, v + 1, buckets)
        BY DEF Contenders
      <4>1. Cardinality(Ahead(s3[r], buckets)) <= Cardinality(Ahead(s3[r], buckets')) + 1
        BY <1>2, <1>8, <2>1, AheadChanges
      <4> QED
        BY <2>1, <4>1 DEF Contends
    <3>2. Cardinality(C1(v)) <= Cardinality(C(v + 1))
      BY <1>3, <3>1, FS_Subset
    <3>3. OwnedIn(uid, buckets') = OwnedIn(uid, buckets) \ {d} /\ d \in OwnedIn(uid, buckets)
      BY <1>8, <2>2 DEF OwnedIn
    <3>4. own1 = own - 1
      BY <1>2, <3>3, FS_RemoveElement, ZenonT(40)
    <3>5. own + Cardinality(C(v + 1)) <= N + (v + 1)
      <4>1. v + 1 \in Nat /\ v + 1 >= u.max_buckets - 1
        BY <1>5
      <4> QED
        BY <1>4, <4>1
    <3> QED
      BY <1>2, <1>3, <3>2, <3>4, <3>5
  <2>3. CASE d.owner # uid
    <3>1. OwnedIn(uid, buckets') = OwnedIn(uid, buckets)
      BY <1>8, <2>3 DEF OwnedIn
    <3>2. C1(v) \subseteq C(v)
      <4> SUFFICES ASSUME NEW r \in S3Req, Contends(s3'[r], uid, v, buckets')
                   PROVE  Contends(s3[r], uid, v, buckets)
        BY DEF Contenders
      <4>1. Cardinality(Ahead(s3[r], buckets)) <= Cardinality(Ahead(s3[r], buckets'))
        BY <1>2, <2>1, <3>1, AheadChanges
      <4> QED
        BY <2>1, <4>1 DEF Contends
    <3>3. Cardinality(C1(v)) <= Cardinality(C(v))
      BY <1>3, <3>2, FS_Subset
    <3> QED
      BY <1>2, <1>3, <1>4, <3>1, <3>3
  <2> QED
    BY <2>2, <2>3
<1> QED
  BY <1>1, <1>6, <1>7, <1>8, BucketSteps

LEMMA StepQuota ==
    ASSUME GatewayInv, TasksOK, FiniteStore, QuotaOK, [Next]_vars, UNCHANGED users
    PROVE  QuotaOK'
<1>1. CASE Next
  <2>1. ASSUME NEW r \in S3Req PROVE CountsForUser(s3'[r])
    <3>1. Moved(s3[r], s3'[r]) /\ CountsForUser(s3[r]) /\ s3[r] \in Request /\ TypeOK
      BY TaskMoves DEF GatewayInv, TasksOK, Types, S3TypeOK, QuotaOK
    <3>2. CASE s3[r].pc = "count" /\ Counted(s3[r], OwnedPage(s3[r]), s3'[r])
      <4>1. OwnedPage(s3[r]).entries \subseteq buckets
        BY <3>1, BucketPageType DEF OwnedPage
      <4>2. IsFiniteSet(OwnedPage(s3[r]).entries)
        BY <4>1, FS_Subset DEF FiniteStore
      <4>3. IsFiniteSet(s3'[r].owned)
        BY <3>1, <3>2, <4>2, FS_Union DEF Counted, CountsForUser
      <4> QED
        BY <3>1, <3>2, <4>3 DEF Counted, CountsForUser
    <3>3. CASE \E c \in S3Call : Starting(c, s3'[r])
      BY <3>3, FS_EmptySet DEF Starting, CountsForUser
    <3>4. CASE s3'[r] = Idle
      BY <3>4, FS_EmptySet DEF Idle, CountsForUser
    <3>5. CASE Batched(s3[r], s3'[r])
      BY <3>1, <3>5 DEF Batched, CountsForUser
    <3>6. CASE Onward(s3[r], s3'[r])
      BY <3>1, <3>6 DEF Onward, SameWork, CountsForUser
    <3> QED
      BY <3>1, <3>2, <3>3, <3>4, <3>5, <3>6 DEF Moved
  <2>2. \A u \in users : u.max_buckets > 0 => QuotaUserOK(u, s3', buckets')
    BY <1>1, StepQuotaUser
  <2> QED
    BY <2>1, <2>2 DEF QuotaOK, CountsForUser
<1>2. CASE UNCHANGED vars
  BY <1>2 DEF vars, store, QuotaOK, CountsForUser
<1> QED
  BY <1>1, <1>2

\* The database that is opened overshoots no quota by more than the gateway could have.
SeedWithinQuota ==
    \A u \in SeedUsers : u.max_buckets > 0 =>
        Cardinality(OwnedIn(u.user_id, SeedBuckets)) <= u.max_buckets + Cardinality(S3Req) - 1

LEMMA InitQuota == SeedWithinQuota /\ Init => QuotaOK
<1> SUFFICES ASSUME SeedWithinQuota, Init PROVE QuotaOK
  OBVIOUS
<1>1. users = SeedUsers /\ buckets = SeedBuckets /\ \A r \in S3Req : s3[r] = Idle
  BY DEF Init, DriverInit, S3Init
<1>2. \A r \in S3Req : CountsForUser(s3[r])
  <2>1. IsFiniteSet({})
    BY FS_EmptySet
  <2>2. CountsForUser(Idle)
    BY <2>1 DEF CountsForUser, Idle
  <2> QED
    BY <1>1, <2>2
<1>3. ASSUME NEW u \in users, u.max_buckets > 0 PROVE QuotaUserOK(u, s3, buckets)
  <2>1. \A v : Contenders(s3, u.user_id, v, buckets) = {}
    BY <1>1 DEF Contenders, Contends, Idle
  <2>2. /\ u.max_buckets \in Int /\ Cardinality(S3Req) \in Nat
        /\ Cardinality(OwnedIn(u.user_id, buckets)) \in Nat
    <3>1. u.max_buckets \in Int
      BY <1>1, SeedAssumption, DriverAssumption DEF UserInfo
    <3>2. IsFiniteSet(buckets) /\ IsFiniteSet(S3Req)
      BY <1>1, SeedAssumption, S3Assumption
    <3> QED
      BY <3>1, <3>2, OwnedFinite, FS_CardinalityType
  <2>3. Cardinality(OwnedIn(u.user_id, buckets)) <= u.max_buckets + Cardinality(S3Req) - 1
    BY <1>1, <1>3 DEF SeedWithinQuota
  <2>4. Cardinality({}) = 0
    BY FS_EmptySet
  <2> QED
    BY <2>1, <2>2, <2>3, <2>4 DEF QuotaUserOK
<1> QED
  BY <1>2, <1>3 DEF QuotaOK

LEMMA QuotaBound == GatewayInv /\ FiniteStore /\ QuotaOK => QuotaOvershootBounded
<1> SUFFICES ASSUME GatewayInv, FiniteStore, QuotaOK, NEW u \in users, u.max_buckets > 0
             PROVE  Cardinality(OwnedBy(Some(u.user_id)))
                       <= u.max_buckets + Cardinality(S3Req) - 1
  BY DEF QuotaOvershootBounded
<1> DEFINE v == u.max_buckets - 1
           C == Contenders(s3, u.user_id, v, buckets)
<1>1. u.max_buckets \in Int /\ v \in Nat
  <2>1. u.max_buckets \in Int
    BY DriverAssumption DEF GatewayInv, Types, TypeOK, UserInfo
  <2> QED
    BY <2>1
<1>2. OwnedBy(Some(u.user_id)) = OwnedIn(u.user_id, buckets)
  BY DEF OwnedBy, OwnedIn, Some, None
<1>3. Cardinality(OwnedIn(u.user_id, buckets)) + Cardinality(C) <= Cardinality(S3Req) + v
  BY <1>1 DEF QuotaOK, QuotaUserOK
<1>4. Cardinality(OwnedIn(u.user_id, buckets)) \in Nat
  BY OwnedFinite DEF FiniteStore
<1>5. Cardinality(C) \in Nat /\ Cardinality(S3Req) \in Nat
  BY ContendersFinite
<1> QED
  BY <1>1, <1>2, <1>3, <1>4, <1>5

(***************************************************************************)
(* While nobody edits users, create_bucket overshoots max_buckets by at    *)
(* most one bucket for every task besides the first, whatever else is      *)
(* created, listed, deleted and cancelled at the same time.                *)
(***************************************************************************)
THEOREM QuotasHold ==
    SeedWithinQuota /\ Spec /\ [][UNCHANGED users]_vars => []QuotaOvershootBounded
<1>1. SeedWithinQuota /\ Init => QuotaOK /\ FiniteStore
  BY InitQuota, SeedAssumption DEF Init, DriverInit, S3Init, FiniteStore
<1>2. GatewayInv /\ TasksOK /\ FiniteStore /\ QuotaOK /\ [Next]_vars /\ [UNCHANGED users]_vars
         => QuotaOK' /\ FiniteStore'
  <2>1. [UNCHANGED users]_vars => UNCHANGED users
    BY DEF vars, store
  <2> QED
    BY <2>1, StepQuota, StepFinite DEF GatewayInv
<1> QED
  BY <1>1, <1>2, QuotaBound, TasksInvariant, PTL DEF Spec

\* No S3 request changes a user.
LEMMA S3KeepsUsers == S3Next => UNCHANGED users
  BY ZenonT(40) DEF S3Next, Serve, Proceed, Authenticate, Cancel, CountOwned, CreateBucket, WhoseBucket,
         LoadBucketFor, DeleteBucket, ReadBucket, PutObject, GetObject, HeadForSize,
         HeadObject, DeleteObject, DeleteMulti, CallFails, store, create_bucket, remove_bucket,
         put_object, delete_object

(***************************************************************************)
(* So the bound holds of the S3 service alone.                             *)
(***************************************************************************)
THEOREM S3QuotasHold ==
    ASSUME AdminReq = {}
    PROVE  SeedWithinQuota /\ Spec => []QuotaOvershootBounded
<1>1. [Next]_vars => [UNCHANGED users]_vars
  BY S3KeepsUsers DEF Next, AdminNext
<1> QED
  BY <1>1, QuotasHold, PTL DEF Spec

-----------------------------------------------------------------------------
(***************************************************************************)
(* What admin operations promise although their check and their write are  *)
(* different driver calls: what holds whatever runs at the same time, and  *)
(* what holds while admin operations run one at a time.                    *)
(***************************************************************************)

(***************************************************************************)
(* What a step of an admin operation does to its task, in the terms the    *)
(* invariants below need.                                                  *)
(***************************************************************************)
Begins(c, p) ==
    /\ p.call = c /\ p.listed = {} /\ p.todo = {} /\ p.marker = 0
    /\ \/ p.pc = "done" /\ p.reply # "NoSuchBucket"
       \/ p.pc = "load_user"
       \/ p.pc = StepAfterInfo(c) /\ c.op = "user_create" /\ p.info = NewUser(c)
       \/ p.pc = "list_buckets" /\ c.op = "bucket_list"
       \/ p.pc = "load_bucket" /\ c.op # "bucket_list"
       \/ p.pc = "remove_bucket" /\ c.op = "bucket_remove"

Ends(q, p) ==
    /\ p.pc = "done" /\ p.listed = q.listed
    /\ p.reply = "NoSuchBucket" => \/ q.pc \in Purging \cup {"load_bucket"}
                                   \/ q.pc = "stats" /\ ~(q.todo \subseteq buckets)

LoadsUser(q, p) ==
    /\ q.pc = "load_user" /\ HasUser(q.call.uid)
    /\ \/ p.pc = StepAfterInfo(q.call) /\ p.info = Edited(load_user(q.call.uid), q.call)
       \/ /\ q.call.op = "user_remove" /\ p.listed = q.listed /\ p.marker = q.marker
          /\ p.pc = IF q.call.purge THEN "list_buckets" ELSE "owns_any"

SetsEmail(q, p) ==
    /\ q.pc = "email" /\ p.pc = StepAfterEmail(q.call)
    /\ ~EmailTaken(q.call.uid, q.call.email[1]) /\ p.info.user_email = q.call.email[1]
    /\ p.info.user_id = q.info.user_id /\ p.info.access_keys = q.info.access_keys

AddsKey(q, p) ==
    /\ q.pc = "key" /\ p.pc \in {"key", "store_user"}
    /\ p.info.user_id = q.info.user_id /\ p.info.user_email = q.info.user_email
    /\ q.info.access_keys \subseteq p.info.access_keys

FindsNone(q, p) == q.pc = "owns_any" /\ p.pc = "remove_user" /\ ~OwnsBuckets(q.call.uid)

ListedPage(q) == list_buckets(ListedOwner(q.call), q.marker, PageSize)

ListsPage(q, p) ==
    /\ q.pc = "list_buckets" /\ p.listed = q.listed \cup ListedPage(q).entries
    /\ \/ /\ p.pc = "list_buckets" /\ ListedPage(q).is_truncated
          /\ p.marker = ListedPage(q).next_marker
       \/ /\ p.pc \in {"list_objects", "remove_user"} /\ ~ListedPage(q).is_truncated
          /\ q.call.op = "user_remove"
       \/ p.pc = "stats" /\ q.call.op # "user_remove" /\ p.todo = p.listed

Stats(q, p) == /\ q.pc = "stats" /\ p.pc = "stats"
               /\ p.listed = q.listed /\ p.todo \subseteq q.todo

FindsInstance(q, p) ==
    /\ q.pc = "load_bucket" /\ p.listed = q.listed
    /\ p.pc = IF q.call.op = "bucket_info" THEN "stats" ELSE "list_objects"

Purges(q, p) ==
    /\ q.pc \in Purging /\ p.listed = q.listed
    /\ \/ p.pc \in Purging
       \/ p.pc = "remove_user" /\ q.pc = "remove_bucket" /\ q.call.op = "user_remove"

Goes(q, p) ==
    \/ Ends(q, p) \/ LoadsUser(q, p) \/ SetsEmail(q, p) \/ AddsKey(q, p) \/ FindsNone(q, p)
    \/ ListsPage(q, p) \/ Stats(q, p) \/ FindsInstance(q, p) \/ Purges(q, p)

AdminMoved(q, p) ==
    \/ p = q \/ p = AdminIdle
    \/ \E c \in AdminCall : Begins(c, p)
    \/ p.call = q.call /\ Goes(q, p)

LEMMA BegunBegins ==
    ASSUME TypeOK, NEW c \in AdminCall
    PROVE  /\ Begins(c, Begun(c)) /\ Begins(c, Ended(c, "InternalError"))
           /\ Admission(c) # "Ok" => Begins(c, Ended(c, Admission(c)))
<1>1. ASSUME NEW rc, rc # "NoSuchBucket" PROVE Begins(c, Ended(c, rc))
  BY <1>1 DEF Begins, Ended, AdminIdle
<1>2. Admission(c) # "NoSuchBucket"
  BY VerifyType DEF Admission
<1>3. ASSUME NEW pc, \/ pc = "load_user"
                     \/ pc = "list_buckets" /\ c.op = "bucket_list"
                     \/ pc = "load_bucket" /\ c.op # "bucket_list"
                     \/ pc = "remove_bucket" /\ c.op = "bucket_remove"
      PROVE  Begins(c, [AdminIdle EXCEPT !.call = c, !.pc = pc])
  BY <1>3 DEF Begins, AdminIdle
<1>4. c.op = "user_create"
         => Begins(c, [AdminIdle EXCEPT !.call = c, !.info = NewUser(c), !.pc = StepAfterInfo(c)])
  BY DEF Begins, AdminIdle
<1>5. Begins(c, Begun(c))
  <2>1. CASE Malformed(c)
    BY <2>1, <1>1 DEF Begun, Malformed
  <2>2. CASE ~Malformed(c) /\ c.op = "user_create"
    BY <2>2, <1>4 DEF Begun
  <2>3. CASE ~Malformed(c) /\ c.op = "bucket_list"
    BY <2>3, <1>3 DEF Begun
  <2>4. CASE ~Malformed(c) /\ c.op \in {"bucket_info", "bucket_remove"}
    <3> DEFINE pc == IF c.op = "bucket_info" \/ c.purge THEN "load_bucket" ELSE "remove_bucket"
    <3>1. Begun(c) = [AdminIdle EXCEPT !.call = c, !.pc = pc]
      BY <2>4 DEF Begun
    <3>2. pc = "load_bucket" \/ (pc = "remove_bucket" /\ c.op = "bucket_remove")
      BY <2>4
    <3> HIDE DEF pc
    <3> QED
      BY <2>4, <3>1, <3>2, <1>3
  <2>5. CASE ~Malformed(c) /\ c.op \notin {"user_create", "bucket_list", "bucket_info", "bucket_remove"}
    BY <2>5, <1>3 DEF Begun
  <2> QED
    BY <2>1, <2>2, <2>3, <2>4, <2>5
<1> QED
  BY <1>1, <1>2, <1>5

LEMMA NextBucketGoes ==
    ASSUME NEW q \in AdminRequest, NEW todo
    PROVE  /\ NextBucket(q, todo).call = q.call /\ NextBucket(q, todo).listed = q.listed
           /\ NextBucket(q, todo).pc \in {"list_objects", "remove_user"}
<1>1. CASE todo = {}
  BY <1>1 DEF NextBucket, AdminRequest
<1>2. CASE todo # {}
  BY <1>2 DEF NextBucket, AdminRequest
<1> QED
  BY <1>1, <1>2

LEMMA AdminMoves ==
    ASSUME Types, NEW a \in AdminReq,
           (\E c \in AdminCall : AdminStart(a, c)) \/ AdminServe(a) \/ AdminCancel(a)
    PROVE  AdminMoved(adm[a], adm'[a])
<1> DEFINE q == adm[a]
           p == adm'[a]
<1>1. q \in AdminRequest /\ AdminRequestOK(q) /\ AdminTypeOK /\ TypeOK
  BY DEF Types, AdminTypeOK
<1>2. ASSUME NEW z, Become(a, z) PROVE p = z
  BY <1>1, <1>2, BecomeTask
<1>3. ASSUME NEW rc, AdminFinish(a, rc),
             rc = "NoSuchBucket" => \/ q.pc \in Purging \cup {"load_bucket"}
                                    \/ q.pc = "stats" /\ ~(q.todo \subseteq buckets)
      PROVE  p.call = q.call /\ Goes(q, p)
  <2>1. p = [q EXCEPT !.pc = "done", !.reply = rc]
    BY <1>2, <1>3 DEF AdminFinish
  <2>2. p.call = q.call /\ p.pc = "done" /\ p.reply = rc /\ p.listed = q.listed
    BY <1>1, <2>1 DEF AdminRequest
  <2> QED
    BY <1>3, <2>2 DEF Goes, Ends
<1>4. CASE \E c \in AdminCall : AdminStart(a, c)
  <2>1. PICK c \in AdminCall : AdminStart(a, c)
    BY <1>4
  <2>2. \/ p = IF Admission(c) = "Ok" THEN Begun(c) ELSE Ended(c, Admission(c))
        \/ p = Ended(c, "InternalError")
    BY <1>2, <2>1 DEF AdminStart
  <2>3. Begins(c, p)
    BY <1>1, <2>2, BegunBegins
  <2> QED
    BY <2>3 DEF AdminMoved
<1>5. CASE AdminCancel(a)
  BY <1>2, <1>5 DEF AdminCancel, AdminMoved
<1>6. CASE LoadUser(a)
  <2> DEFINE c == q.call
             u == load_user(c.uid)
  <2>1. /\ q.pc = "load_user"
        /\ \/ \E rc : AdminFinish(a, rc) /\ rc # "NoSuchBucket"
           \/ /\ HasUser(c.uid) /\ c.op = "user_remove"
              /\ Become(a, [q EXCEPT !.pc = IF c.purge THEN "list_buckets" ELSE "owns_any"])
           \/ /\ HasUser(c.uid)
              /\ Become(a, [q EXCEPT !.info = Edited(u, c), !.pc = StepAfterInfo(c)])
    BY <1>6 DEF LoadUser
  <2>2. ASSUME NEW rc, AdminFinish(a, rc) /\ rc # "NoSuchBucket" PROVE AdminMoved(q, p)
    BY <1>3, <2>2 DEF AdminMoved
  <2>3. ASSUME HasUser(c.uid), c.op = "user_remove",
               Become(a, [q EXCEPT !.pc = IF c.purge THEN "list_buckets" ELSE "owns_any"])
        PROVE  AdminMoved(q, p)
    <3> DEFINE pc == IF c.purge THEN "list_buckets" ELSE "owns_any"
    <3>1. p = [q EXCEPT !.pc = pc]
      BY <1>2, <2>3
    <3> HIDE DEF pc
    <3>2. p.call = c /\ p.pc = pc /\ p.listed = q.listed /\ p.marker = q.marker
      BY <1>1, <3>1 DEF AdminRequest
    <3> QED
      BY <2>1, <2>3, <3>2 DEF AdminMoved, Goes, LoadsUser, pc
  <2>4. ASSUME HasUser(c.uid), Become(a, [q EXCEPT !.info = Edited(u, c), !.pc = StepAfterInfo(c)])
        PROVE  AdminMoved(q, p)
    <3>1. p = [q EXCEPT !.info = Edited(u, c), !.pc = StepAfterInfo(c)]
      BY <1>2, <2>4
    <3>2. p.call = c /\ p.pc = StepAfterInfo(c) /\ p.info = Edited(u, c)
      BY <1>1, <3>1 DEF AdminRequest
    <3> QED
      BY <2>1, <2>4, <3>2 DEF AdminMoved, Goes, LoadsUser
  <2> QED
    BY <2>1, <2>2, <2>3, <2>4
<1>7. CASE CheckEmail(a)
  <2> DEFINE c == q.call
             e == c.email[1]
  <2>1. /\ q.pc = "email"
        /\ \/ \E rc : AdminFinish(a, rc) /\ rc # "NoSuchBucket"
           \/ /\ ~EmailTaken(c.uid, e)
              /\ Become(a, [q EXCEPT !.info.user_email = e, !.pc = StepAfterEmail(c)])
    BY <1>7 DEF CheckEmail
  <2>2. ASSUME NEW rc, AdminFinish(a, rc) /\ rc # "NoSuchBucket" PROVE AdminMoved(q, p)
    BY <1>3, <2>2 DEF AdminMoved
  <2>3. q.info \in UserInfo
    BY <1>1, <2>1 DEF AdminRequest, AdminRequestOK
  <2> HIDE DEF e
  <2>4. ASSUME ~EmailTaken(c.uid, e),
               Become(a, [q EXCEPT !.info.user_email = e, !.pc = StepAfterEmail(c)])
        PROVE  AdminMoved(q, p)
    <3>1. p = [q EXCEPT !.info.user_email = e, !.pc = StepAfterEmail(c)]
      BY <1>2, <2>4
    <3>2. p.call = c /\ p.pc = StepAfterEmail(c) /\ p.info = [q.info EXCEPT !.user_email = e]
      BY <1>1, <3>1 DEF AdminRequest
    <3>3. /\ p.info.user_email = e /\ p.info.user_id = q.info.user_id
          /\ p.info.access_keys = q.info.access_keys
      BY <2>3, <3>2 DEF UserInfo
    <3> QED
      BY <2>1, <2>4, <3>2, <3>3 DEF AdminMoved, Goes, SetsEmail, e
  <2> QED
    BY <2>1, <2>2, <2>4 DEF e
<1>8. CASE CheckKey(a) \/ GenerateKey(a)
  <2>1. /\ q.pc = "key"
        /\ \/ \E rc : AdminFinish(a, rc) /\ rc # "NoSuchBucket"
           \/ \E k : Become(a, WithKey(q, k))
           \/ Become(a, [q EXCEPT !.tries = @ + 1])
    BY <1>8 DEF CheckKey, GenerateKey
  <2>2. ASSUME NEW rc, AdminFinish(a, rc) /\ rc # "NoSuchBucket" PROVE AdminMoved(q, p)
    BY <1>3, <2>2 DEF AdminMoved
  <2>3. q.info \in UserInfo
    BY <1>1, <2>1 DEF AdminRequest, AdminRequestOK
  <2>4. ASSUME NEW k, Become(a, WithKey(q, k)) PROVE AdminMoved(q, p)
    <3>1. p = [q EXCEPT !.info.access_keys = @ \cup {k}, !.pc = "store_user"]
      BY <1>2, <2>4 DEF WithKey
    <3>2. /\ p.call = q.call /\ p.pc = "store_user"
          /\ p.info = [q.info EXCEPT !.access_keys = @ \cup {k}]
      BY <1>1, <3>1 DEF AdminRequest
    <3>3. /\ p.info.user_email = q.info.user_email /\ p.info.user_id = q.info.user_id
          /\ p.info.access_keys = q.info.access_keys \cup {k}
      BY <2>3, <3>2 DEF UserInfo
    <3> QED
      BY <2>1, <3>2, <3>3 DEF AdminMoved, Goes, AddsKey
  <2>5. ASSUME Become(a, [q EXCEPT !.tries = @ + 1]) PROVE AdminMoved(q, p)
    <3>1. p = [q EXCEPT !.tries = @ + 1]
      BY <1>2, <2>5
    <3>2. p.call = q.call /\ p.pc = q.pc /\ p.info = q.info
      BY <1>1, <3>1 DEF AdminRequest
    <3> QED
      BY <2>1, <3>2 DEF AdminMoved, Goes, AddsKey
  <2> QED
    BY <2>1, <2>2, <2>4, <2>5
<1>9. CASE StoreUser(a) \/ RemoveUser(a)
  <2>1. \E rc : AdminFinish(a, rc) /\ rc # "NoSuchBucket"
    BY <1>9 DEF StoreUser, RemoveUser, StoreUserResult, RemoveUserResult
  <2> QED
    BY <1>3, <2>1 DEF AdminMoved
<1>10. CASE OwnsAny(a)
  <2>1. /\ q.pc = "owns_any"
        /\ \/ \E rc : AdminFinish(a, rc) /\ rc # "NoSuchBucket"
           \/ ~OwnsBuckets(q.call.uid) /\ Become(a, [q EXCEPT !.pc = "remove_user"])
    BY <1>10 DEF OwnsAny
  <2>2. ASSUME NEW rc, AdminFinish(a, rc) /\ rc # "NoSuchBucket" PROVE AdminMoved(q, p)
    BY <1>3, <2>2 DEF AdminMoved
  <2>3. ASSUME ~OwnsBuckets(q.call.uid), Become(a, [q EXCEPT !.pc = "remove_user"])
        PROVE  AdminMoved(q, p)
    <3>1. p = [q EXCEPT !.pc = "remove_user"]
      BY <1>2, <2>3
    <3>2. p.call = q.call /\ p.pc = "remove_user"
      BY <1>1, <3>1 DEF AdminRequest
    <3> QED
      BY <2>1, <2>3, <3>2 DEF AdminMoved, Goes, FindsNone
  <2> QED
    BY <2>1, <2>2, <2>3
<1>11. CASE ListBuckets(a)
  <2> DEFINE page   == ListedPage(q)
             listed == q.listed \cup page.entries
             next   == page.next_marker
  <2>1. /\ q.pc = "list_buckets"
        /\ \/ \E rc : AdminFinish(a, rc) /\ rc # "NoSuchBucket"
           \/ page.is_truncated /\ Become(a, [q EXCEPT !.listed = listed, !.marker = next])
           \/ /\ ~page.is_truncated /\ q.call.op = "user_remove"
              /\ Become(a, NextBucket([q EXCEPT !.listed = listed], listed))
           \/ /\ q.call.op # "user_remove"
              /\ Become(a, [q EXCEPT !.listed = listed, !.todo = listed, !.pc = "stats"])
    BY <1>11 DEF ListBuckets, ListedPage
  <2>2. ASSUME NEW rc, AdminFinish(a, rc) /\ rc # "NoSuchBucket" PROVE AdminMoved(q, p)
    BY <1>3, <2>2 DEF AdminMoved
  <2>3. listed \in SUBSET BucketInfo
    BY <1>1, BucketPageType DEF AdminRequest, ListedPage, TypeOK
  <2> HIDE DEF page, listed, next
  <2>4. ASSUME page.is_truncated, Become(a, [q EXCEPT !.listed = listed, !.marker = next])
        PROVE  AdminMoved(q, p)
    <3>1. p = [q EXCEPT !.listed = listed, !.marker = next]
      BY <1>2, <2>4
    <3>2. p.call = q.call /\ p.pc = q.pc /\ p.listed = listed /\ p.marker = next
      BY <1>1, <3>1 DEF AdminRequest
    <3> QED
      BY <2>1, <2>4, <3>2 DEF AdminMoved, Goes, ListsPage, page, listed, next
  <2>5. ASSUME ~page.is_truncated, q.call.op = "user_remove",
               Become(a, NextBucket([q EXCEPT !.listed = listed], listed))
        PROVE  AdminMoved(q, p)
    <3> DEFINE z == [q EXCEPT !.listed = listed]
    <3>1. z \in AdminRequest /\ z.call = q.call /\ z.listed = listed
      BY <1>1, <2>3 DEF AdminRequest
    <3>2. p = NextBucket(z, listed)
      BY <1>2, <2>5
    <3> HIDE DEF z
    <3>3. p.call = q.call /\ p.listed = listed /\ p.pc \in {"list_objects", "remove_user"}
      BY <3>1, <3>2, NextBucketGoes
    <3> QED
      BY <2>1, <2>5, <3>3 DEF AdminMoved, Goes, ListsPage, page, listed
  <2>6. ASSUME q.call.op # "user_remove",
               Become(a, [q EXCEPT !.listed = listed, !.todo = listed, !.pc = "stats"])
        PROVE  AdminMoved(q, p)
    <3>1. p = [q EXCEPT !.listed = listed, !.todo = listed, !.pc = "stats"]
      BY <1>2, <2>6
    <3>2. p.call = q.call /\ p.pc = "stats" /\ p.listed = listed /\ p.todo = listed
      BY <1>1, <3>1 DEF AdminRequest
    <3> QED
      BY <2>1, <2>6, <3>2 DEF AdminMoved, Goes, ListsPage, page, listed
  <2> QED
    BY <2>1, <2>2, <2>4, <2>5, <2>6
<1>12. CASE ListStats(a)
  <2> DEFINE b == First(q.todo)
  <2>1. /\ q.pc = "stats"
        /\ \/ ~check_bucket(b.bucket_id) /\ AdminFinish(a, "NoSuchBucket")
           \/ AdminFinish(a, "Ok")
           \/ Become(a, [q EXCEPT !.todo = @ \ {b}])
    BY <1>12 DEF ListStats
  <2>2. b \in q.todo
    BY <1>1, <2>1, FirstType DEF AdminRequest, AdminRequestOK
  <2> HIDE DEF b
  <2>3. ~check_bucket(b.bucket_id) => ~(q.todo \subseteq buckets)
    BY <2>2 DEF check_bucket
  <2>4. ASSUME Become(a, [q EXCEPT !.todo = @ \ {b}]) PROVE AdminMoved(q, p)
    <3>1. p = [q EXCEPT !.todo = @ \ {b}]
      BY <1>2, <2>4
    <3>2. p.call = q.call /\ p.pc = q.pc /\ p.listed = q.listed /\ p.todo = q.todo \ {b}
      BY <1>1, <3>1 DEF AdminRequest
    <3> QED
      BY <2>1, <3>2 DEF AdminMoved, Goes, Stats
  <2>5. ASSUME ~check_bucket(b.bucket_id), AdminFinish(a, "NoSuchBucket") PROVE AdminMoved(q, p)
    BY <1>3, <2>1, <2>3, <2>5 DEF AdminMoved
  <2>6. ASSUME AdminFinish(a, "Ok") PROVE AdminMoved(q, p)
    BY <1>3, <2>6 DEF AdminMoved
  <2> QED
    BY <2>1, <2>4, <2>5, <2>6
<1>13. CASE LoadInstance(a)
  <2> DEFINE b == load_bucket(q.call.name)
  <2>1. /\ q.pc = "load_bucket"
        /\ \/ \E rc : AdminFinish(a, rc)
           \/ /\ q.call.op = "bucket_info"
              /\ Become(a, [q EXCEPT !.todo = {b}, !.pc = "stats"])
           \/ /\ q.call.op # "bucket_info"
              /\ Become(a, [q EXCEPT !.bucket = b, !.pc = "list_objects"])
    BY <1>13 DEF LoadInstance
  <2> HIDE DEF b
  <2>2. ASSUME NEW rc, AdminFinish(a, rc) PROVE AdminMoved(q, p)
    BY <1>3, <2>1, <2>2 DEF AdminMoved
  <2>3. ASSUME q.call.op = "bucket_info", Become(a, [q EXCEPT !.todo = {b}, !.pc = "stats"])
        PROVE  AdminMoved(q, p)
    <3>1. p = [q EXCEPT !.todo = {b}, !.pc = "stats"]
      BY <1>2, <2>3
    <3>2. p.call = q.call /\ p.pc = "stats" /\ p.listed = q.listed
      BY <1>1, <3>1 DEF AdminRequest
    <3> QED
      BY <2>1, <2>3, <3>2 DEF AdminMoved, Goes, FindsInstance
  <2>4. ASSUME q.call.op # "bucket_info", Become(a, [q EXCEPT !.bucket = b, !.pc = "list_objects"])
        PROVE  AdminMoved(q, p)
    <3>1. p = [q EXCEPT !.bucket = b, !.pc = "list_objects"]
      BY <1>2, <2>4
    <3>2. p.call = q.call /\ p.pc = "list_objects" /\ p.listed = q.listed
      BY <1>1, <3>1 DEF AdminRequest
    <3> QED
      BY <2>1, <2>4, <3>2 DEF AdminMoved, Goes, FindsInstance
  <2> QED
    BY <2>1, <2>2, <2>3, <2>4
<1>14. ASSUME NEW z \in AdminRequest, z.call = q.call, z.listed = q.listed, q.pc \in Purging,
              p = PageDone(z)
       PROVE  AdminMoved(q, p)
  <2>1. /\ p.call = q.call /\ p.listed = q.listed
        /\ p.pc \in Purging \/ (p.pc = "done" /\ p.reply = "InternalError")
    BY <1>14 DEF PageDone, AdminRequest, Purging
  <2> QED
    BY <1>14, <2>1 DEF AdminMoved, Goes, Purges, Ends
<1>15. CASE ListObjects(a)
  <2> DEFINE page  == list_objects(q.bucket.bucket_id, q.marker, PageSize)
             names == {o.name : o \in page.entries}
             z     == [q EXCEPT !.page = names, !.next = page.next_marker,
                                !.more = page.is_truncated]
  <2>1. \/ \E rc : AdminFinish(a, rc)
        \/ Become(a, IF z.page = {} THEN PageDone(z) ELSE [z EXCEPT !.pc = "delete_object"])
    BY <1>15 DEF ListObjects
  <2>2. q.pc \in Purging
    BY <1>15 DEF ListObjects, Purging
  <2>3. /\ page.entries \subseteq ObjectInfo /\ page.next_marker \in Nat
        /\ page.is_truncated \in BOOLEAN
    BY <1>1, ObjectPageType DEF TypeOK
  <2> HIDE DEF page
  <2>4. names \in SUBSET ObjectName
    BY <2>3 DEF ObjectInfo
  <2> HIDE DEF names
  <2>5. z \in AdminRequest /\ z.call = q.call /\ z.listed = q.listed
    BY <1>1, <2>3, <2>4 DEF AdminRequest
  <2> HIDE DEF z
  <2>6. ASSUME NEW rc, AdminFinish(a, rc) PROVE AdminMoved(q, p)
    BY <1>3, <2>2, <2>6 DEF AdminMoved
  <2>7. ASSUME p = [z EXCEPT !.pc = "delete_object"] PROVE AdminMoved(q, p)
    <3>1. p.call = q.call /\ p.listed = q.listed /\ p.pc = "delete_object"
      BY <2>5, <2>7 DEF AdminRequest
    <3> QED
      BY <2>2, <3>1 DEF AdminMoved, Goes, Purges, Purging
  <2> QED
    BY <1>2, <1>14, <2>1, <2>2, <2>5, <2>6, <2>7
<1>16. CASE PurgeObject(a)
  <2> DEFINE name == CHOOSE n \in q.page : \A m \in q.page : n <= m
             z    == [q EXCEPT !.page = @ \ {name}]
  <2>1. (\E rc : AdminFinish(a, rc)) \/ Become(a, IF z.page = {} THEN PageDone(z) ELSE z)
    BY <1>16 DEF PurgeObject
  <2>2. q.pc \in Purging
    BY <1>16 DEF PurgeObject, Purging
  <2> HIDE DEF name
  <2>3. z \in AdminRequest /\ z.call = q.call /\ z.listed = q.listed /\ z.pc = q.pc
    BY <1>1 DEF AdminRequest
  <2> HIDE DEF z
  <2>4. ASSUME NEW rc, AdminFinish(a, rc) PROVE AdminMoved(q, p)
    BY <1>3, <2>2, <2>4 DEF AdminMoved
  <2>5. ASSUME p = z PROVE AdminMoved(q, p)
    BY <2>2, <2>3, <2>5 DEF AdminMoved, Goes, Purges
  <2> QED
    BY <1>2, <1>14, <2>1, <2>2, <2>3, <2>4, <2>5
<1>17. CASE RemoveBucket(a)
  <2>1. /\ q.pc = "remove_bucket"
        /\ \/ \E rc : AdminFinish(a, rc)
           \/ q.call.op = "user_remove" /\ Become(a, NextBucket(q, q.todo \ {q.bucket}))
    BY <1>17 DEF RemoveBucket
  <2>2. ASSUME NEW rc, AdminFinish(a, rc) PROVE AdminMoved(q, p)
    BY <1>3, <2>1, <2>2 DEF AdminMoved, Purging
  <2>3. ASSUME q.call.op = "user_remove", Become(a, NextBucket(q, q.todo \ {q.bucket}))
        PROVE  AdminMoved(q, p)
    <3>1. p = NextBucket(q, q.todo \ {q.bucket})
      BY <1>2, <2>3
    <3>2. p.call = q.call /\ p.listed = q.listed /\ p.pc \in {"list_objects", "remove_user"}
      BY <1>1, <3>1, NextBucketGoes
    <3> QED
      BY <2>1, <2>3, <3>2 DEF AdminMoved, Goes, Purges, Purging
  <2> QED
    BY <2>1, <2>2, <2>3
<1>18. CASE AdminCallFails(a)
  BY <1>3, <1>18 DEF AdminCallFails, AdminMoved
<1> QED
  BY <1>4, <1>5, <1>6, <1>7, <1>8, <1>9, <1>10, <1>11, <1>12, <1>13, <1>15, <1>16, <1>17, <1>18
     DEF AdminServe, AdminProceed

LEMMA AdminTaskMoves ==
    ASSUME Types, [Next]_vars, NEW t \in AdminReq
    PROVE  AdminMoved(adm[t], adm'[t])
<1>1. CASE UNCHANGED adm
  BY <1>1 DEF AdminMoved
<1>2. CASE AdminNext
  <2>1. PICK a \in AdminReq :
           (\E c \in AdminCall : AdminStart(a, c)) \/ AdminServe(a) \/ AdminCancel(a)
    BY <1>2 DEF AdminNext
  <2>2. CASE t = a
    BY <2>1, <2>2, AdminMoves
  <2>3. CASE t # a
    BY <2>1, <2>3, AdminTaskSteps DEF Types, AdminMoved
  <2> QED
    BY <2>2, <2>3
<1> QED
  BY <1>1, <1>2 DEF Next, vars

-----------------------------------------------------------------------------
(***************************************************************************)
(* Statistics.  bucket_list keeps to its listing, and an answer            *)
(* NoSuchBucket means that a bucket of it was gone, for good.              *)
(***************************************************************************)
StatsOK(q, B) ==
    /\ q.pc \in Purging \cup {"load_bucket"} => q.call.op # "bucket_list"
    /\ q.pc = "stats" /\ q.call.op = "bucket_list" => q.todo \subseteq q.listed
    /\ q.pc = "done" /\ q.call.op = "bucket_list" /\ q.reply = "NoSuchBucket"
          => ~(q.listed \subseteq B)

LEMMA MovedStats ==
    ASSUME NEW q, NEW p, StatsOK(q, buckets), AdminMoved(q, p)
    PROVE  StatsOK(p, buckets)
<1>1. CASE p = AdminIdle
  BY <1>1 DEF StatsOK, AdminIdle, Purging
<1>2. ASSUME NEW c \in AdminCall, Begins(c, p) PROVE StatsOK(p, buckets)
  <2>1. StepAfterInfo(c) \in {"email", "key", "store_user"}
    BY StepAfterInfoType
  <2> QED
    BY <1>2, <2>1 DEF Begins, StatsOK, Purging
<1>3. ASSUME p.call = q.call, Goes(q, p) PROVE StatsOK(p, buckets)
  <2>1. CASE Ends(q, p)
    BY <1>3, <2>1 DEF Ends, StatsOK, Purging
  <2>2. CASE LoadsUser(q, p)
    <3>1. p.pc \in {"email", "key", "store_user", "list_buckets", "owns_any"}
      BY <2>2, StepAfterInfoType DEF LoadsUser
    <3> QED
      BY <3>1 DEF StatsOK, Purging
  <2>3. CASE SetsEmail(q, p) \/ AddsKey(q, p) \/ FindsNone(q, p)
    <3>1. p.pc \in {"key", "store_user", "remove_user"}
      BY <2>3, StepAfterInfoType DEF SetsEmail, AddsKey, FindsNone
    <3> QED
      BY <3>1 DEF StatsOK, Purging
  <2>4. CASE ListsPage(q, p)
    BY <1>3, <2>4 DEF ListsPage, StatsOK, Purging
  <2>5. CASE Stats(q, p)
    BY <1>3, <2>5 DEF Stats, StatsOK, Purging
  <2>6. CASE FindsInstance(q, p)
    BY <1>3, <2>6 DEF FindsInstance, StatsOK, Purging
  <2>7. CASE Purges(q, p)
    BY <1>3, <2>7 DEF Purges, StatsOK, Purging
  <2> QED
    BY <1>3, <2>1, <2>2, <2>3, <2>4, <2>5, <2>6, <2>7 DEF Goes
<1> QED
  BY <1>1, <1>2, <1>3 DEF AdminMoved

AllStatsOK == \A a \in AdminReq : StatsOK(adm[a], buckets)

LEMMA StepStats == GatewayInv /\ AllStatsOK /\ [Next]_vars => AllStatsOK'
<1> SUFFICES ASSUME GatewayInv, AllStatsOK, [Next]_vars, NEW t \in AdminReq
             PROVE  StatsOK(adm'[t], buckets')
  BY DEF AllStatsOK
<1>1. StatsOK(adm'[t], buckets)
  BY AdminTaskMoves, MovedStats DEF GatewayInv, AllStatsOK
<1>2. \A b \in adm'[t].listed : b \notin buckets => b \notin buckets'
  <2> SUFFICES ASSUME NEW b \in adm'[t].listed, b \notin buckets, b \in buckets' PROVE FALSE
    OBVIOUS
  <2>1. Next /\ b.bucket_id \notin minted
    BY NewBucketsAreFresh DEF vars, store
  <2>2. b \in adm[t].listed \cup buckets
    <3>1. CASE UNCHANGED adm
      BY <3>1
    <3>2. CASE AdminNext
      BY <3>2, AdminAddsNoBucket
    <3> QED
      BY <2>1, <3>1, <3>2 DEF Next
  <2> QED
    BY <2>1, <2>2 DEF GatewayInv, Snapshots, HoldsListing, Remembered
<1> QED
  BY <1>1, <1>2 DEF StatsOK

(***************************************************************************)
(* bucket_list with stats answers NoSuchBucket only if a bucket it listed  *)
(* is gone.                                                                *)
(***************************************************************************)
THEOREM StatsFailForRemoved == Spec => []StatsFailOnlyForRemoved
<1>1. Init => AllStatsOK
  BY DEF Init, AdminInit, AllStatsOK, StatsOK, AdminIdle, Purging
<1>2. AllStatsOK => StatsFailOnlyForRemoved
  BY DEF AllStatsOK, StatsOK, StatsFailOnlyForRemoved
<1> QED
  BY <1>1, <1>2, StepStats, GatewayInvariant, PTL DEF Spec

-----------------------------------------------------------------------------
(***************************************************************************)
(* Owners.  While no bucket is created, a user_remove that has looked      *)
(* knows of every bucket the user still owns: none, or those of a listing  *)
(* that is gone through before the user is removed (PurgesOK).             *)
(***************************************************************************)
RemovalOK(q, B) ==
    /\ q.pc = "load_user" => q.marker = 0
    /\ q.pc = "list_buckets" /\ q.call.op = "user_remove" =>
          /\ q.call.purge
          /\ \A b \in OwnedIn(q.call.uid, B) : b.name <= q.marker => b \in q.listed
    /\ q.pc \in Purging /\ q.call.op = "user_remove" =>
          /\ q.call.purge
          /\ OwnedIn(q.call.uid, B) \subseteq q.listed
    /\ q.pc = "remove_user" =>
          OwnedIn(q.call.uid, B) \subseteq IF q.call.purge THEN q.listed ELSE {}

\* owns_any asks for one row only: no row means no bucket.
LEMMA OwnsNone ==
    ASSUME TypeOK, NEW uid, ~OwnsBuckets(uid)
    PROVE  OwnedIn(uid, buckets) = {}
<1> DEFINE rows == {b \in OwnedBy(Some(uid)) : b.name > 0}
<1>1. \A b \in buckets : b.name \in Nat \ {0}
  BY DriverAssumption DEF TypeOK, BucketInfo
<1>2. rows = OwnedIn(uid, buckets)
  <2>1. \A b \in buckets : b.name > 0
    BY <1>1
  <2> QED
    BY <2>1 DEF OwnedBy, OwnedIn, Some, None
<1>3. \A x \in rows : x.name \in Nat
  BY <1>1, <1>2 DEF OwnedIn
<1>4. list_buckets(Some(uid), 0, 1) = Page(rows, 1)
  BY DEF list_buckets
<1> HIDE DEF rows
<1>5. PageOf(rows, 1) = {}
  BY <1>4, PageFields DEF OwnsBuckets
<1> QED
  BY <1>2, <1>3, <1>5, PageNotEmpty

LEMMA ListsPageRemoval ==
    ASSUME TypeOK, FiniteStore, NEW q \in AdminRequest, NEW p, RemovalOK(q, buckets),
           p.call = q.call, ListsPage(q, p)
    PROVE  RemovalOK(p, buckets)
<1> DEFINE uid  == q.call.uid
           page == ListedPage(q)
           rows == {b \in OwnedBy(Some(uid)) : b.name > q.marker}
<1>1. CASE q.call.op # "user_remove"
  BY <1>1 DEF RemovalOK, ListsPage, Purging
<1>2. CASE q.call.op = "user_remove"
  <2>1. page = list_buckets(Some(uid), q.marker, PageSize) /\ q.marker \in Nat
    BY <1>2 DEF ListedPage, ListedOwner, AdminRequest
  <2>2. /\ ~page.is_truncated => page.entries = rows
        /\ \A b \in rows : b.name <= page.next_marker => b \in page.entries
    <3> DEFINE found == list_buckets(Some(uid), q.marker, PageSize)
    <3>1. /\ ~found.is_truncated => found.entries = rows
          /\ \A b \in rows : b.name <= found.next_marker => b \in found.entries
      BY <2>1, BucketPageCovers
    <3>2. page = found
      BY <2>1
    <3> HIDE DEF page, found, rows
    <3> QED
      BY <3>1, <3>2
  <2>3. \A b \in OwnedIn(uid, buckets) : b \in rows \/ b.name <= q.marker
    <3>1. \A b \in OwnedIn(uid, buckets) : b \in OwnedBy(Some(uid)) /\ b.name \in Nat
      BY DriverAssumption DEF OwnedIn, OwnedBy, Some, None, TypeOK, BucketInfo
    <3> QED
      BY <2>1, <3>1
  <2> HIDE DEF rows, page
  <2>4. q.call.purge /\ \A b \in OwnedIn(uid, buckets) : b.name <= q.marker => b \in q.listed
    BY <1>2 DEF RemovalOK, ListsPage
  <2>5. p.listed = q.listed \cup page.entries
    BY DEF ListsPage, page
  <2>6. CASE p.pc = "list_buckets"
    <3>1. p.marker = page.next_marker
      BY <2>6 DEF ListsPage, page
    <3>2. \A b \in OwnedIn(uid, buckets) : b.name <= p.marker => b \in p.listed
      BY <2>2, <2>3, <2>4, <2>5, <3>1
    <3> QED
      BY <2>4, <2>6, <3>2 DEF RemovalOK, Purging
  <2>7. CASE p.pc \in {"list_objects", "remove_user"}
    <3>1. ~page.is_truncated
      BY <2>7 DEF ListsPage, page
    <3>2. OwnedIn(uid, buckets) \subseteq p.listed
      BY <2>2, <2>3, <2>4, <2>5, <3>1
    <3> QED
      BY <2>4, <2>7, <3>2 DEF RemovalOK, Purging
  <2> QED
    BY <1>2, <2>6, <2>7 DEF ListsPage
<1> QED
  BY <1>1, <1>2

LEMMA MovedRemoval ==
    ASSUME TypeOK, FiniteStore, NEW q \in AdminRequest, NEW p,
           PurgeOK(q, buckets), RemovalOK(q, buckets), AdminMoved(q, p)
    PROVE  RemovalOK(p, buckets)
<1>1. CASE p = AdminIdle
  BY <1>1 DEF RemovalOK, AdminIdle, Purging
<1>2. ASSUME NEW c \in AdminCall, Begins(c, p) PROVE RemovalOK(p, buckets)
  <2>1. StepAfterInfo(c) \in {"email", "key", "store_user"}
    BY StepAfterInfoType
  <2> QED
    BY <1>2, <2>1 DEF Begins, RemovalOK, Purging
<1>3. ASSUME p.call = q.call, Goes(q, p) PROVE RemovalOK(p, buckets)
  <2>1. CASE Ends(q, p)
    BY <2>1 DEF Ends, RemovalOK, Purging
  <2>2. CASE LoadsUser(q, p)
    <3>1. CASE p.pc \in {"email", "key", "store_user", "owns_any"}
      BY <3>1 DEF RemovalOK, Purging
    <3>2. CASE p.pc = "list_buckets"
      <4>1. q.call.purge /\ p.marker = 0
        BY <2>2, <3>2, StepAfterInfoType DEF LoadsUser, RemovalOK
      <4>2. \A b \in buckets : ~(b.name <= 0)
        <5>1. \A b \in buckets : b.name \in Nat \ {0}
          BY DriverAssumption DEF TypeOK, BucketInfo
        <5> QED
          BY <5>1
      <4> QED
        BY <1>3, <3>2, <4>1, <4>2 DEF RemovalOK, OwnedIn, Purging
    <3> QED
      BY <2>2, <3>1, <3>2, StepAfterInfoType DEF LoadsUser
  <2>3. CASE SetsEmail(q, p) \/ AddsKey(q, p)
    <3>1. p.pc \in {"key", "store_user"}
      BY <2>3, StepAfterInfoType DEF SetsEmail, AddsKey
    <3> QED
      BY <3>1 DEF RemovalOK, Purging
  <2>4. CASE FindsNone(q, p)
    <3>1. OwnedIn(q.call.uid, buckets) = {} /\ p.pc = "remove_user"
      BY <2>4, OwnsNone DEF FindsNone
    <3> QED
      BY <1>3, <3>1 DEF RemovalOK, Purging
  <2>5. CASE ListsPage(q, p)
    BY <1>3, <2>5, ListsPageRemoval
  <2>6. CASE Stats(q, p)
    BY <2>6 DEF Stats, RemovalOK, Purging
  <2>7. CASE FindsInstance(q, p)
    BY <1>3, <2>7 DEF FindsInstance, RemovalOK, PurgeOK, Purging
  <2>8. CASE Purges(q, p)
    BY <1>3, <2>8 DEF Purges, RemovalOK, Purging
  <2> QED
    BY <1>3, <2>1, <2>2, <2>3, <2>4, <2>5, <2>6, <2>7, <2>8 DEF Goes
<1> QED
  BY <1>1, <1>2, <1>3 DEF AdminMoved

\* Only store_user and remove_user write to the table of users.
LEMMA UserWriters ==
    ASSUME [Next]_vars
    PROVE  \/ UNCHANGED users
           \/ \E a \in AdminReq : StoreUser(a) \/ RemoveUser(a)
<1>1. ASSUME NEW a \in AdminReq,
             \/ (\E c \in AdminCall : AdminStart(a, c)) \/ AdminCancel(a) \/ LoadUser(a)
             \/ CheckEmail(a) \/ CheckKey(a) \/ GenerateKey(a) \/ OwnsAny(a)
             \/ ListBuckets(a) \/ ListStats(a) \/ LoadInstance(a) \/ ListObjects(a)
             \/ PurgeObject(a) \/ RemoveBucket(a) \/ AdminCallFails(a)
      PROVE  UNCHANGED users
  BY <1>1 DEF AdminStart, AdminCancel, LoadUser, CheckEmail, CheckKey,
              GenerateKey, OwnsAny, ListBuckets, ListStats, LoadInstance,
              ListObjects, PurgeObject, RemoveBucket, AdminCallFails, store, remove_bucket,
              delete_object
<1>2. CASE AdminNext
  BY <1>1, <1>2 DEF AdminNext, AdminServe, AdminProceed
<1> QED
  BY <1>2, S3KeepsUsers DEF Next, vars, store

LEMMA StoreKeepsIds ==
    ASSUME NEW a \in AdminReq, StoreUser(a), NEW u \in users
    PROVE  \E v \in users' : v.user_id = u.user_id
  BY DEF StoreUser, store_user, UpsertUser

LEMMA RemovesOnlyItsUser ==
    ASSUME NEW a \in AdminReq, RemoveUser(a), NEW u \in users, u \notin users'
    PROVE  adm[a].pc = "remove_user" /\ u.user_id = adm[a].call.uid
  BY DEF RemoveUser, remove_user

\* The database that is opened has an owner for every bucket.
SeedOwnersExist == \A b \in SeedBuckets : \E u \in SeedUsers : u.user_id = b.owner

RemovalsOK == \A a \in AdminReq : RemovalOK(adm[a], buckets)

OwnersInv == FiniteStore /\ PurgesOK /\ RemovalsOK /\ BucketOwnersExist

LEMMA FewerBuckets ==
    ASSUME NEW q, NEW B, NEW C, C \subseteq B, RemovalOK(q, B)
    PROVE  RemovalOK(q, C)
  BY DEF RemovalOK, OwnedIn

LEMMA StepOwners ==
    GatewayInv /\ OwnersInv /\ [Next]_vars /\ buckets' \subseteq buckets => OwnersInv'
<1> SUFFICES ASSUME GatewayInv, OwnersInv, [Next]_vars, buckets' \subseteq buckets
             PROVE  OwnersInv'
  OBVIOUS
<1>1. Types /\ TypeOK /\ AdminTypeOK /\ FiniteStore
  BY DEF GatewayInv, Types, OwnersInv
<1>2. FiniteStore' /\ PurgesOK'
  BY <1>1, StepFinite, StepPurges DEF OwnersInv
<1>3. RemovalsOK'
  <2> SUFFICES ASSUME NEW a \in AdminReq PROVE RemovalOK(adm'[a], buckets')
    BY DEF RemovalsOK
  <2>1. adm[a] \in AdminRequest /\ AdminMoved(adm[a], adm'[a])
    BY <1>1, AdminTaskMoves DEF AdminTypeOK
  <2>2. PurgeOK(adm[a], buckets) /\ RemovalOK(adm[a], buckets)
    BY DEF OwnersInv, PurgesOK, RemovalsOK
  <2>3. RemovalOK(adm'[a], buckets)
    BY <1>1, <2>1, <2>2, MovedRemoval
  <2> QED
    BY <2>3, FewerBuckets
<1>4. BucketOwnersExist'
  <2> SUFFICES ASSUME NEW b \in buckets' PROVE \E v \in users' : v.user_id = b.owner
    BY DEF BucketOwnersExist, HasUser, UserRows
  <2>1. PICK u \in users : u.user_id = b.owner
    BY DEF OwnersInv, BucketOwnersExist, HasUser, UserRows
  <2>2. CASE UNCHANGED users
    BY <2>1, <2>2
  <2>3. ASSUME NEW a \in AdminReq, StoreUser(a) PROVE \E v \in users' : v.user_id = b.owner
    BY <2>1, <2>3, StoreKeepsIds
  <2>4. ASSUME NEW a \in AdminReq, RemoveUser(a), u \notin users' PROVE FALSE
    <3>1. adm[a].pc = "remove_user" /\ b.owner = adm[a].call.uid
      BY <2>1, <2>4, RemovesOnlyItsUser
    <3>2. PurgeOK(adm[a], buckets) /\ RemovalOK(adm[a], buckets)
      BY DEF OwnersInv, PurgesOK, RemovalsOK
    <3>3. b \in OwnedIn(adm[a].call.uid, buckets)
      BY <3>1 DEF OwnedIn
    <3>4. CASE adm[a].call.purge
      BY <3>1, <3>2, <3>3, <3>4 DEF RemovalOK, PurgeOK
    <3>5. CASE ~adm[a].call.purge
      BY <3>1, <3>2, <3>3, <3>5 DEF RemovalOK
    <3> QED
      BY <3>4, <3>5
  <2> QED
    BY <2>1, <2>2, <2>3, <2>4, UserWriters
<1> QED
  BY <1>2, <1>3, <1>4 DEF OwnersInv

LEMMA InitOwners == SeedOwnersExist /\ Init => OwnersInv
<1> SUFFICES ASSUME SeedOwnersExist, Init PROVE OwnersInv
  OBVIOUS
<1>1. FiniteStore
  BY SeedAssumption DEF Init, DriverInit, S3Init, FiniteStore
<1>2. PurgesOK /\ RemovalsOK
  BY DEF Init, AdminInit, AdminIdle, PurgesOK, PurgeOK, RemovalsOK, RemovalOK, Purging
<1>3. BucketOwnersExist
  BY DEF Init, DriverInit, SeedOwnersExist, BucketOwnersExist, HasUser, UserRows
<1> QED
  BY <1>1, <1>2, <1>3 DEF OwnersInv

(***************************************************************************)
(* While no bucket is created, no user_remove, with or without purge_data, *)
(* leaves a bucket without its owner, however many run at the same time    *)
(* and whatever else removes buckets and users.                            *)
(***************************************************************************)
THEOREM OwnersRemain ==
    SeedOwnersExist /\ Spec /\ [][buckets' \subseteq buckets]_vars => []BucketOwnersExist
<1>1. GatewayInv /\ OwnersInv /\ [Next]_vars /\ [buckets' \subseteq buckets]_vars => OwnersInv'
  <2>1. UNCHANGED vars => buckets' \subseteq buckets
    BY DEF vars, store
  <2> QED
    BY <2>1, StepOwners
<1>2. OwnersInv => BucketOwnersExist
  BY DEF OwnersInv
<1> QED
  BY <1>1, <1>2, InitOwners, GatewayInvariant, PTL DEF Spec

(***************************************************************************)
(* So owners remain when no client asks for a bucket to be created.        *)
(***************************************************************************)
THEOREM OwnersRemainWithoutCreation ==
    ASSUME \A c \in S3Call : c.op # "create_bucket"
    PROVE  SeedOwnersExist /\ Spec => []BucketOwnersExist
<1>1. GatewayInv /\ TasksOK /\ [Next]_vars => [buckets' \subseteq buckets]_vars
  <2> SUFFICES ASSUME GatewayInv, TasksOK, Next PROVE buckets' \subseteq buckets
    OBVIOUS
  <2>1. ASSUME NEW t \in S3Req, BucketCreatedBy(t) PROVE FALSE
    <3>1. s3[t].pc = "create" /\ s3[t].call.op = "create_bucket"
      BY <2>1 DEF BucketCreatedBy, TasksOK, OpFits
    <3>2. s3[t].call \in S3Call
      BY <3>1 DEF GatewayInv, Types, S3TypeOK, RequestOK, Request
    <3> QED
      BY <3>1, <3>2
  <2> QED
    BY <2>1, BucketSteps DEF GatewayInv
<1> QED
  BY <1>1, TasksInvariant, OwnersRemain, PTL DEF Spec

-----------------------------------------------------------------------------
(***************************************************************************)
(* Edits of a record.  From the load to the store an edit has a copy of    *)
(* the user's record in hand; the copy stays true to the table as long as  *)
(* no other task is between its load and its write of the same user.       *)
(***************************************************************************)
Editing  == {"email", "key", "store_user"}
KeepsKey == {"user_modify", "key_create", "caps_add", "caps_remove"}

\* No two tasks are about to write the same user.
EditsApart ==
    \A a, b \in {t \in AdminReq : adm[t].pc \in Editing \cup {"remove_user"}} :
        adm[a].call.uid = adm[b].call.uid => a = b

EditOK(q, U) ==
    q.pc \in Editing =>
        /\ q.info.user_id = q.call.uid
        /\ q.call.op # "user_create" => \E u \in U : u.user_id = q.call.uid
        /\ q.call.op \in KeepsKey =>
              \A u \in U : u.user_id = q.call.uid => u.access_keys \subseteq q.info.access_keys

LEMMA EditedKeeps ==
    ASSUME NEW u \in UserInfo, NEW c
    PROVE  /\ Edited(u, c).user_id = u.user_id
           /\ Edited(u, c).user_email \in {NoEmail, u.user_email}
           /\ c.op \in KeepsKey => Edited(u, c).access_keys = u.access_keys
<1>1. CASE c.op = "user_modify"
  BY <1>1 DEF Edited, Modified, UserInfo
<1>2. CASE c.op = "key_remove"
  BY <1>2 DEF Edited, UserInfo, KeepsKey
<1>3. CASE c.op \in {"caps_add", "caps_remove"}
  BY <1>3 DEF Edited, UserInfo
<1>4. CASE c.op \notin {"user_modify", "key_remove", "caps_add", "caps_remove"}
  BY <1>4 DEF Edited, UserInfo
<1> QED
  BY <1>1, <1>2, <1>3, <1>4

\* load_user returns the one record of the user.
LEMMA LoadsTheUser ==
    ASSUME TypeOK, AccessKeyIdentifiesUser, NEW uid, HasUser(uid)
    PROVE  /\ load_user(uid) \in users /\ load_user(uid).user_id = uid
           /\ load_user(uid) \in UserInfo
           /\ \A u \in users : u.user_id = uid => u = load_user(uid)
<1>1. load_user(uid) \in users /\ load_user(uid).user_id = uid
  BY DEF HasUser, UserRows, load_user
<1> QED
  BY <1>1 DEF TypeOK, AccessKeyIdentifiesUser

LEMMA MovedEdit ==
    ASSUME TypeOK, AccessKeyIdentifiesUser, NEW q, NEW p,
           EditOK(q, users), AdminMoved(q, p)
    PROVE  EditOK(p, users)
<1>1. CASE p = AdminIdle
  BY <1>1 DEF EditOK, AdminIdle, Editing
<1>2. ASSUME NEW c \in AdminCall, Begins(c, p) PROVE EditOK(p, users)
  <2>1. CASE p.pc \notin Editing
    BY <2>1 DEF EditOK
  <2>2. CASE c.op = "user_create" /\ p.info = NewUser(c)
    <3>1. p.info.user_id = c.uid /\ p.call = c
      BY <1>2, <2>2 DEF Begins, NewUser
    <3> QED
      BY <2>2, <3>1 DEF EditOK, KeepsKey
  <2> QED
    BY <1>2, <2>1, <2>2 DEF Begins, Editing
<1>3. ASSUME p.call = q.call, Goes(q, p), p.pc \in Editing PROVE EditOK(p, users)
  <2>1. CASE LoadsUser(q, p)
    <3> DEFINE u == load_user(q.call.uid)
    <3>1. HasUser(q.call.uid) /\ p.info = Edited(u, q.call)
      BY <1>3, <2>1 DEF LoadsUser, Editing
    <3>2. /\ u \in users /\ u.user_id = q.call.uid /\ u \in UserInfo
          /\ \A w \in users : w.user_id = q.call.uid => w = u
      BY <3>1, LoadsTheUser
    <3> HIDE DEF u
    <3>3. /\ p.info.user_id = u.user_id
          /\ p.call.op \in KeepsKey => p.info.access_keys = u.access_keys
      BY <1>3, <3>1, <3>2, EditedKeeps
    <3> QED
      BY <1>3, <3>2, <3>3 DEF EditOK
  <2>2. CASE SetsEmail(q, p)
    BY <1>3, <2>2 DEF SetsEmail, EditOK, Editing
  <2>3. CASE AddsKey(q, p)
    <3>1. /\ q.pc \in Editing /\ p.info.user_id = q.info.user_id
          /\ q.info.access_keys \subseteq p.info.access_keys
      BY <2>3 DEF AddsKey, Editing
    <3> QED
      BY <1>3, <3>1 DEF EditOK
  <2> QED
    BY <1>3, <2>1, <2>2, <2>3
       DEF Goes, Ends, FindsNone, ListsPage, Stats, FindsInstance, Purges, Purging, Editing
<1>4. p.pc \notin Editing => EditOK(p, users)
  BY DEF EditOK
<1> QED
  BY <1>1, <1>2, <1>3, <1>4 DEF AdminMoved

\* A write touches the rows of its user only, and ends its task.
WritesUser(a, uid) ==
    /\ adm'[a].pc = "done" /\ \A t \in AdminReq : t # a => adm'[t] = adm[t]
    /\ \A u \in users : u.user_id # uid => u \in users'
    /\ \A u \in users' : u.user_id # uid => u \in users

LEMMA StoreUserWrites ==
    ASSUME AdminTypeOK, NEW a \in AdminReq, StoreUser(a)
    PROVE  /\ adm[a].pc = "store_user" /\ WritesUser(a, adm[a].info.user_id)
           /\ users' = users \/ (adm'[a].reply = "Ok" /\ users' = UpsertUser(adm[a].info))
           /\ adm'[a].reply = "Ok" => users' = UpsertUser(adm[a].info)
<1> DEFINE rc == StoreUserResult(adm[a].info, Exclusive(adm[a].call))
<1>1. adm[a].pc = "store_user" /\ AdminFinish(a, rc)
  BY DEF StoreUser
<1>2. /\ rc = "Ok" => users' = UpsertUser(adm[a].info)
      /\ rc # "Ok" => users' = users
  BY DEF StoreUser, store_user
<1> HIDE DEF rc
<1>3. /\ adm'[a] = [adm[a] EXCEPT !.pc = "done", !.reply = rc]
      /\ \A t \in AdminReq : t # a => adm'[t] = adm[t]
  BY <1>1, BecomeTask DEF AdminFinish
<1>4. adm'[a].pc = "done" /\ adm'[a].reply = rc
  BY <1>3 DEF AdminTypeOK, AdminRequest
<1>5. \/ users' = users
      \/ users' = {u \in users : u.user_id # adm[a].info.user_id} \cup {adm[a].info}
  BY <1>2 DEF UpsertUser
<1>6. WritesUser(a, adm[a].info.user_id)
  BY <1>3, <1>4, <1>5 DEF WritesUser
<1> QED
  BY <1>1, <1>2, <1>4, <1>6

LEMMA RemoveUserWrites ==
    ASSUME AdminTypeOK, NEW a \in AdminReq, RemoveUser(a)
    PROVE  /\ adm[a].pc = "remove_user" /\ WritesUser(a, adm[a].call.uid)
           /\ users' \subseteq users
<1> DEFINE rc == RemoveUserResult(adm[a].call.uid)
<1>1. adm[a].pc = "remove_user" /\ AdminFinish(a, rc)
  BY DEF RemoveUser
<1>2. users' = users \/ users' = {u \in users : u.user_id # adm[a].call.uid}
  BY DEF RemoveUser, remove_user
<1> HIDE DEF rc
<1>3. /\ adm'[a] = [adm[a] EXCEPT !.pc = "done", !.reply = rc]
      /\ \A t \in AdminReq : t # a => adm'[t] = adm[t]
  BY <1>1, BecomeTask DEF AdminFinish
<1>4. adm'[a].pc = "done"
  BY <1>3 DEF AdminTypeOK, AdminRequest
<1> QED
  BY <1>1, <1>2, <1>3, <1>4 DEF WritesUser

EditsOK == \A a \in AdminReq : EditOK(adm[a], users)

LEMMA StepEdits ==
    GatewayInv /\ EditsOK /\ EditsApart /\ [Next]_vars => EditsOK'
<1> SUFFICES ASSUME GatewayInv, EditsOK, EditsApart, [Next]_vars, NEW t \in AdminReq
             PROVE  EditOK(adm'[t], users')
  BY DEF EditsOK
<1>1. Types /\ TypeOK /\ AdminTypeOK /\ AccessKeyIdentifiesUser
  BY DEF GatewayInv, Types, StoreConsistent
<1>2. CASE UNCHANGED users
  <2>1. EditOK(adm'[t], users)
    BY <1>1, AdminTaskMoves, MovedEdit DEF EditsOK
  <2> QED
    BY <1>2, <2>1
<1>3. ASSUME NEW a \in AdminReq, StoreUser(a) \/ RemoveUser(a) PROVE EditOK(adm'[t], users')
  <2>1. adm[a].pc \in Editing \cup {"remove_user"} /\ WritesUser(a, adm[a].call.uid)
    <3>1. EditOK(adm[a], users)
      BY DEF EditsOK
    <3> QED
      BY <1>1, <1>3, <3>1, StoreUserWrites, RemoveUserWrites DEF EditOK, Editing
  <2>2. CASE t = a
    BY <2>1, <2>2 DEF WritesUser, EditOK, Editing
  <2>3. CASE t # a
    <3>1. adm'[t] = adm[t] /\ EditOK(adm[t], users)
      BY <2>1, <2>3 DEF WritesUser, EditsOK
    <3>2. CASE adm[t].pc \notin Editing
      BY <3>1, <3>2 DEF EditOK
    <3>3. CASE adm[t].pc \in Editing
      <4>1. adm[t].call.uid # adm[a].call.uid
        BY <2>1, <2>3, <3>3 DEF EditsApart
      <4>2. \A u : u.user_id = adm[t].call.uid => (u \in users' <=> u \in users)
        BY <2>1, <4>1 DEF WritesUser
      <4> QED
        BY <3>1, <3>3, <4>2 DEF EditOK
    <3> QED
      BY <3>2, <3>3
  <2> QED
    BY <2>2, <2>3
<1> QED
  BY <1>2, <1>3, UserWriters

LEMMA InitEdits == Init => EditsOK
  BY DEF Init, AdminInit, AdminIdle, EditsOK, EditOK, Editing

LEMMA EditsInvariant == Spec /\ []EditsApart => [](GatewayInv /\ EditsOK)
  BY InitEdits, StepEdits, GatewayInvariant, PTL DEF Spec

\* A task leaves store_user by storing, or because it is cancelled.
LEMMA LeavesStoreUser ==
    ASSUME TypeOK, AdminTypeOK, [Next]_vars, NEW a \in AdminReq, adm[a].pc = "store_user",
           adm'[a] # adm[a], adm'[a].reply = "Ok"
    PROVE  StoreUser(a)
<1>1. AdminNext
  BY DEF Next, vars
<1>2. PICK b \in AdminReq :
         (\E c \in AdminCall : AdminStart(b, c)) \/ AdminServe(b) \/ AdminCancel(b)
  BY <1>1 DEF AdminNext
<1>3. b = a
  BY <1>2, AdminTaskSteps
<1>4. ~AdminCancel(a)
  <2> SUFFICES ASSUME AdminCancel(a) PROVE FALSE
    OBVIOUS
  <2>1. adm'[a] = AdminIdle
    BY BecomeTask DEF AdminCancel
  <2> QED
    BY <2>1 DEF AdminIdle
<1>5. ~AdminCallFails(a)
  <2> SUFFICES ASSUME AdminCallFails(a) PROVE FALSE
    OBVIOUS
  <2>1. adm'[a] = [adm[a] EXCEPT !.pc = "done", !.reply = "InternalError"]
    BY BecomeTask DEF AdminCallFails, AdminFinish
  <2>2. adm[a] \in AdminRequest
    BY DEF AdminTypeOK
  <2> QED
    BY <2>1, <2>2 DEF AdminRequest
<1> QED
  BY <1>2, <1>3, <1>4, <1>5
     DEF AdminStart, AdminServe, AdminProceed, LoadUser, CheckEmail, CheckKey, GenerateKey, OwnsAny,
         ListBuckets, ListStats, LoadInstance, ListObjects, PurgeObject, RemoveBucket, RemoveUser

(***************************************************************************)
(* While no two tasks are between the load and the write of one user, an   *)
(* edit that is not meant to take keys away takes none.                    *)
(***************************************************************************)
THEOREM EditsKeepKeys == Spec /\ []EditsApart => EditsKeepOtherKeys
<1> DEFINE Kept == \A a \in AdminReq : \A u \in users, v \in users' :
                      adm[a].pc = "store_user" /\ adm'[a] # adm[a] /\ adm'[a].reply = "Ok"
                          /\ u.user_id = v.user_id
                          /\ adm[a].call.op \in {"user_modify", "key_create", "caps_add", "caps_remove"}
                              => u.access_keys \subseteq v.access_keys
<1>1. GatewayInv /\ EditsOK /\ [Next]_vars => [Kept]_vars
  <2> SUFFICES ASSUME GatewayInv, EditsOK, [Next]_vars, NEW a \in AdminReq,
                      NEW u \in users, NEW v \in users', adm[a].pc = "store_user",
                      adm'[a] # adm[a], adm'[a].reply = "Ok", u.user_id = v.user_id,
                      adm[a].call.op \in KeepsKey
               PROVE  u.access_keys \subseteq v.access_keys
    BY DEF KeepsKey
  <2>1. TypeOK /\ AdminTypeOK /\ AccessKeyIdentifiesUser
    BY DEF GatewayInv, Types, StoreConsistent
  <2>2. users' = UpsertUser(adm[a].info)
    BY <2>1, LeavesStoreUser, StoreUserWrites
  <2>3. CASE v = adm[a].info
    <3>1. EditOK(adm[a], users)
      BY DEF EditsOK
    <3> QED
      BY <2>3, <3>1 DEF EditOK, Editing
  <2>4. CASE v \in users
    BY <2>1, <2>4 DEF AccessKeyIdentifiesUser
  <2> QED
    BY <2>2, <2>3, <2>4 DEF UpsertUser
<1> QED
  BY <1>1, EditsInvariant, PTL DEF Spec, EditsKeepOtherKeys

(***************************************************************************)
(* Under the same condition no edit brings a removed user back: a user     *)
(* appears through user_create only.                                       *)
(***************************************************************************)
THEOREM UsersAppearCreated == Spec /\ []EditsApart => UsersAppearByCreation
<1> DEFINE Created == \A v \in users' : ~HasUser(v.user_id) =>
                         \E a \in AdminMover : adm[a].call.op = "user_create"
<1>1. GatewayInv /\ EditsOK /\ [Next]_vars => [Created]_vars
  <2> SUFFICES ASSUME GatewayInv, EditsOK, [Next]_vars, NEW v \in users', ~HasUser(v.user_id)
               PROVE  \E a \in AdminMover : adm[a].call.op = "user_create"
    OBVIOUS
  <2>1. AdminTypeOK /\ v \notin users
    BY DEF GatewayInv, Types, HasUser, UserRows
  <2>2. PICK a \in AdminReq : StoreUser(a)
    <3>1. \A a \in AdminReq : ~RemoveUser(a)
      BY <2>1, RemoveUserWrites
    <3> QED
      BY <2>1, <3>1, UserWriters
  <2>3. adm[a].pc = "store_user" /\ adm'[a].pc = "done" /\ users' = UpsertUser(adm[a].info)
    BY <2>1, <2>2, StoreUserWrites DEF WritesUser
  <2>4. v = adm[a].info
    BY <2>1, <2>3 DEF UpsertUser
  <2>5. EditOK(adm[a], users)
    BY DEF EditsOK
  <2>6. adm[a].call.op = "user_create"
    BY <2>3, <2>4, <2>5 DEF EditOK, Editing, HasUser, UserRows
  <2> QED
    BY <2>3, <2>6 DEF AdminMover
<1> QED
  BY <1>1, EditsInvariant, PTL DEF Spec, UsersAppearByCreation

-----------------------------------------------------------------------------
(***************************************************************************)
(* Emails.  The email of the copy in hand is held by no other user, as     *)
(* long as nobody else writes any user between the check and the store.    *)
(***************************************************************************)
OneAtATime == \A a, b \in AdminReq : Working(a) /\ Working(b) => a = b

SeedEmailsUnique ==
    \A u, v \in SeedUsers : u.user_email = v.user_email /\ u.user_email # NoEmail => u = v

EmailOK(q, U) ==
    q.pc \in Editing /\ q.info.user_email # NoEmail =>
        \A u \in U : u.user_email = q.info.user_email => u.user_id = q.call.uid

\* ensure_email_free looks at the first holder only: there is at most one.
LEMMA EmailFree ==
    ASSUME TypeOK, EmailsUnique, NEW uid, NEW email, ~EmailTaken(uid, email), email # NoEmail,
           NEW u \in users, u.user_email = email
    PROVE  u.user_id = uid
<1>1. EmailHolders(email) = {u}
  BY DEF EmailHolders, EmailsUnique
<1>2. u.user_id \in Nat
  BY DriverAssumption DEF TypeOK, UserInfo
<1>3. load_user_by_email(email) = u
  BY <1>1, <1>2 DEF load_user_by_email
<1> QED
  BY <1>1, <1>3 DEF EmailTaken

LEMMA MovedEmail ==
    ASSUME TypeOK, AccessKeyIdentifiesUser, EmailsUnique, NEW q, NEW p,
           EmailOK(q, users), AdminMoved(q, p)
    PROVE  EmailOK(p, users)
<1>1. CASE p = AdminIdle
  BY <1>1 DEF EmailOK, AdminIdle, Editing
<1>2. ASSUME NEW c \in AdminCall, Begins(c, p) PROVE EmailOK(p, users)
  <2>1. CASE p.pc \notin Editing
    BY <2>1 DEF EmailOK
  <2>2. CASE p.info = NewUser(c)
    BY <2>2 DEF EmailOK, NewUser
  <2> QED
    BY <1>2, <2>1, <2>2 DEF Begins, Editing
<1>3. ASSUME p.call = q.call, Goes(q, p), p.pc \in Editing PROVE EmailOK(p, users)
  <2>1. CASE LoadsUser(q, p)
    <3> DEFINE u == load_user(q.call.uid)
    <3>1. HasUser(q.call.uid) /\ p.info = Edited(u, q.call)
      BY <1>3, <2>1 DEF LoadsUser, Editing
    <3>2. u \in users /\ u.user_id = q.call.uid /\ u \in UserInfo
      BY <3>1, LoadsTheUser
    <3> HIDE DEF u
    <3>3. p.info.user_email \in {NoEmail, u.user_email}
      BY <3>1, <3>2, EditedKeeps
    <3> QED
      BY <1>3, <3>2, <3>3 DEF EmailOK, EmailsUnique
  <2>2. CASE SetsEmail(q, p)
    BY <1>3, <2>2, EmailFree DEF SetsEmail, EmailOK
  <2>3. CASE AddsKey(q, p)
    <3>1. q.pc \in Editing /\ p.info.user_email = q.info.user_email
      BY <2>3 DEF AddsKey, Editing
    <3> QED
      BY <1>3, <3>1 DEF EmailOK
  <2> QED
    BY <1>3, <2>1, <2>2, <2>3
       DEF Goes, Ends, FindsNone, ListsPage, Stats, FindsInstance, Purges, Purging, Editing
<1>4. p.pc \notin Editing => EmailOK(p, users)
  BY DEF EmailOK
<1> QED
  BY <1>1, <1>2, <1>3, <1>4 DEF AdminMoved

EmailsOK == EmailsUnique /\ \A a \in AdminReq : EmailOK(adm[a], users)

LEMMA StepEmails ==
    GatewayInv /\ EditsOK /\ EmailsOK /\ OneAtATime /\ [Next]_vars => EmailsOK'
<1> SUFFICES ASSUME GatewayInv, EditsOK, EmailsOK, OneAtATime, [Next]_vars PROVE EmailsOK'
  OBVIOUS
<1>1. Types /\ TypeOK /\ AdminTypeOK /\ AccessKeyIdentifiesUser
  BY DEF GatewayInv, Types, StoreConsistent
<1>2. EmailsUnique /\ \A a \in AdminReq : EmailOK(adm[a], users) /\ EditOK(adm[a], users)
  BY DEF EmailsOK, EditsOK
<1>3. CASE UNCHANGED users
  <2>1. \A t \in AdminReq : EmailOK(adm'[t], users)
    BY <1>1, <1>2, AdminTaskMoves, MovedEmail
  <2> QED
    BY <1>2, <1>3, <2>1 DEF EmailsOK, EmailsUnique
<1>4. ASSUME NEW a \in AdminReq, StoreUser(a) \/ RemoveUser(a) PROVE EmailsOK'
  <2>1. /\ adm[a].pc \in {"store_user", "remove_user"} /\ adm'[a].pc = "done"
        /\ \A t \in AdminReq : t # a => adm'[t] = adm[t]
        /\ users' \subseteq users \/ (adm[a].pc = "store_user" /\ users' = UpsertUser(adm[a].info))
    BY <1>1, <1>4, StoreUserWrites, RemoveUserWrites DEF WritesUser
  <2>2. \A t \in AdminReq : adm'[t].pc \notin Editing
    BY <2>1 DEF OneAtATime, Working, Editing
  <2>3. EmailsUnique'
    <3>1. CASE users' \subseteq users
      BY <1>2, <3>1 DEF EmailsUnique
    <3>2. CASE adm[a].pc = "store_user" /\ users' = UpsertUser(adm[a].info)
      <4>1. adm[a].info.user_id = adm[a].call.uid
        BY <1>2, <3>2 DEF EditOK, Editing
      <4>2. adm[a].info.user_email # NoEmail =>
              \A u \in users : u.user_email = adm[a].info.user_email
                 => u.user_id = adm[a].info.user_id
        BY <1>2, <3>2, <4>1 DEF EmailOK, Editing
      <4> QED
        BY <1>2, <3>2, <4>2 DEF UpsertUser, EmailsUnique
    <3> QED
      BY <2>1, <3>1, <3>2
  <2> QED
    BY <2>2, <2>3 DEF EmailsOK, EmailOK
<1> QED
  BY <1>3, <1>4, UserWriters

(***************************************************************************)
(* While admin operations run one at a time, no two users come to share an *)
(* email: the check ahead of the store is enough.                          *)
(***************************************************************************)
THEOREM EmailsStayUnique ==
    SeedEmailsUnique /\ Spec /\ []OneAtATime => []EmailsUnique
<1>1. SeedEmailsUnique /\ Init => EmailsOK
  BY DEF SeedEmailsUnique, Init, DriverInit, AdminInit, AdminIdle, EmailsOK, EmailsUnique,
         EmailOK, Editing
<1>2. OneAtATime => EditsApart
  <2>1. \A a \in AdminReq : adm[a].pc \in Editing \cup {"remove_user"} => Working(a)
    BY DEF Working, Editing
  <2> QED
    BY <2>1 DEF OneAtATime, EditsApart
<1>3. EmailsOK => EmailsUnique
  BY DEF EmailsOK
<1> QED
  BY <1>1, <1>2, <1>3, StepEmails, EditsInvariant, PTL DEF Spec

==============================================================================
