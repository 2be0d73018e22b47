---------------------------- MODULE GatewayProofs ----------------------------
(***************************************************************************)
(* The gateway uses the store only through driver calls, and what its      *)
(* requests remember about buckets stays true for as long as it matters:   *)
(* for any number of requests, admin operations, users, buckets, objects.  *)
(***************************************************************************)
EXTENDS Gateway, DriverProofs, WellFoundedInduction

(***************************************************************************)
(* Every step of an S3 request or of an admin operation keeps the tasks'   *)
(* records well formed and is, on the store, one driver call or none.      *)
(***************************************************************************)

(* S3 requests *)

\* load_object returns a row of the table.
LEMMA LoadObjectType ==
    ASSUME NEW id, NEW name, LoadObjectResult(id, name) = "Ok"
    PROVE  load_object(id, name) \in objects
<1>1. HasObject(id, name)
  BY DEF LoadObjectResult
<1> QED
  BY <1>1 DEF HasObject, load_object

-----------------------------------------------------------------------------
\* One task's record is replaced by another well-formed one.
LEMMA S3Advance ==
    ASSUME S3TypeOK, NEW r \in S3Req, NEW q \in Request, RequestOK(q),
           Advance(r, q), minted' \in SUBSET BucketId
    PROVE  S3TypeOK'
  BY DEF S3TypeOK, Advance

LEMMA IdleType == Idle \in Request /\ RequestOK(Idle)
  BY DriverAssumption, AnonymousAssumption, S3Assumption
  DEF Idle, Request, RequestOK, Step, OnBucket, Identity, Reply, ReplyCode, Answer, Unsatisfiable

LEMMA AnsweredType ==
    ASSUME NEW q \in Request, q.call # NoCall, NEW reply \in Reply
    PROVE  Answered(q, reply) \in Request /\ RequestOK(Answered(q, reply))
  BY DEF Answered, Request, RequestOK, Step, OnBucket

LEMMA AnswerType ==
    ASSUME NEW code \in ReplyCode
    PROVE  Answer(code) \in Reply
  BY DEF Answer, Reply

\* A task that serves a request has a call.
LEMMA ServingType ==
    ASSUME S3TypeOK, NEW r \in S3Req, s3[r].pc # "idle"
    PROVE  /\ s3[r] \in Request /\ RequestOK(s3[r])
           /\ s3[r].call \in S3Call /\ s3[r].call \in CallType /\ s3[r].call # NoCall
  BY S3Assumption DEF S3TypeOK, Request, RequestOK

\* Ending a request with a code keeps the records well formed.
LEMMA FinishType ==
    ASSUME S3TypeOK, NEW r \in S3Req, s3[r].pc # "idle", NEW code \in ReplyCode,
           Finish(r, code), minted' \in SUBSET BucketId
    PROVE  S3TypeOK'
<1>1. s3[r] \in Request /\ s3[r].call # NoCall
  BY ServingType
<1>2. Answer(code) \in Reply
  BY AnswerType
<1> QED
  BY <1>1, <1>2, AnsweredType, S3Advance DEF Finish

\* Answering with an object's size and range.
LEMMA FinishObjectType ==
    ASSUME S3TypeOK, NEW r \in S3Req, s3[r].pc # "idle", NEW code \in ReplyCode,
           NEW size \in Nat, NEW range \in (Nat \X Nat) \cup {Unsatisfiable},
           FinishObject(r, code, size, range), minted' \in SUBSET BucketId
    PROVE  S3TypeOK'
<1>1. s3[r] \in Request /\ s3[r].call # NoCall
  BY ServingType
<1>2. [code |-> code, size |-> size, range |-> range] \in Reply
  BY DEF Reply
<1> QED
  BY <1>1, <1>2, AnsweredType, S3Advance DEF FinishObject

-----------------------------------------------------------------------------
(* One lemma per action: well formed after it, and one driver call or none *)

LEMMA AuthenticateStep ==
    ASSUME TypeOK, S3TypeOK, NEW r \in S3Req, NEW c \in S3Call, Authenticate(r, c)
    PROVE  S3TypeOK' /\ UNCHANGED store
<1>1. c \in CallType /\ c # NoCall
  BY S3Assumption
<1>2. [Idle EXCEPT !.call = c] \in Request
  BY IdleType DEF Request
<1>3. ASSUME NEW code \in ReplyCode
      PROVE  Refused(c, code) \in Request /\ RequestOK(Refused(c, code))
  <2>1. Answer(code) \in Reply
    BY <1>3, AnswerType
  <2>2. [Idle EXCEPT !.call = c].call = c
    BY IdleType DEF Request
  <2> QED
    BY <1>1, <1>2, <2>1, <2>2, AnsweredType DEF Refused
<1>4. ASSUME NEW user \in Identity, NEW pc \in {"load_bucket", "count", "create"},
             IF pc = "load_bucket" THEN c.op \notin {"list_buckets", "create_bucket"}
             ELSE user # Anonymous
      PROVE  Entered(c, user, pc) \in Request /\ RequestOK(Entered(c, user, pc))
  <2> DEFINE todo == IF c.op = "delete_multi" THEN c.keys ELSE <<>>
             q    == [Idle EXCEPT !.pc = pc, !.call = c, !.user = user, !.todo = todo]
  <2>1. todo \in Seq(ObjectName) /\ (c.op = "delete_multi" => todo # <<>>)
    BY <1>1 DEF CallType
  <2> HIDE DEF todo
  <2>2. q \in Request
    BY <2>1, <1>4, IdleType DEF Request, Step
  <2>3. q.pc = pc /\ q.call = c /\ q.user = user /\ q.todo = todo
    BY IdleType DEF Request
  <2> HIDE DEF q
  <2>4. RequestOK(q)
    BY <1>1, <1>4, <2>1, <2>3 DEF RequestOK, OnBucket
  <2> QED
    BY <2>2, <2>4 DEF Entered, q, todo
<1>5. Accepted(c) \in Request /\ RequestOK(Accepted(c))
  <2>1. verify(c.credential).code \in ReplyCode /\ verify(c.credential).identity \in Identity
    BY VerifyType DEF ReplyCode
  <2>2. ASSUME NEW user \in Identity
        PROVE  Handler(c, user) \in Request /\ RequestOK(Handler(c, user))
    BY <1>3, <1>4, <2>2 DEF Handler, ReplyCode
  <2> QED
    BY <1>3, <2>1, <2>2 DEF Accepted
<1>6. \E q \in Request : RequestOK(q) /\ Advance(r, q)
  <2>1. Refused(c, "InternalError") \in Request /\ RequestOK(Refused(c, "InternalError"))
    BY <1>3 DEF ReplyCode
  <2> QED
    BY <1>5, <2>1 DEF Authenticate
<1> QED
  BY <1>6, S3Advance DEF Authenticate, store, S3TypeOK

LEMMA CancelStep ==
    ASSUME S3TypeOK, NEW r \in S3Req, Cancel(r)
    PROVE  S3TypeOK' /\ UNCHANGED store
  BY IdleType, S3Advance DEF Cancel, store, S3TypeOK

LEMMA CountOwnedStep ==
    ASSUME TypeOK, S3TypeOK, NEW r \in S3Req, CountOwned(r)
    PROVE  S3TypeOK' /\ UNCHANGED store
<1> DEFINE page  == list_buckets(Some(s3[r].user.user_id), s3[r].marker, PageSize)
           owned == s3[r].owned \cup page.entries
           q     == [s3[r] EXCEPT !.owned = owned]
<1>1. s3[r] \in Request /\ RequestOK(s3[r]) /\ s3[r].call # NoCall /\ s3[r].pc = "count"
  BY ServingType DEF CountOwned
<1>2. page.entries \subseteq BucketInfo /\ page.next_marker \in Nat
  BY BucketPageType DEF TypeOK
<1>3. q \in Request /\ RequestOK(q) /\ q.call = s3[r].call /\ q.user = s3[r].user /\ q.pc = "count"
  <2> HIDE DEF page
  <2> QED
    BY <1>1, <1>2 DEF Request, RequestOK, OnBucket
<1>4. \/ Advance(r, Answered(q, Answer("TooManyBuckets")))
      \/ Advance(r, [q EXCEPT !.marker = page.next_marker])
      \/ Advance(r, Answered(q, Answer("Ok")))
      \/ Advance(r, [q EXCEPT !.pc = "create"])
  BY DEF CountOwned, NextMarker
<1>5. minted' \in SUBSET BucketId /\ UNCHANGED store
  BY DEF CountOwned, store, S3TypeOK
<1>6. /\ [q EXCEPT !.marker = page.next_marker] \in Request
      /\ RequestOK([q EXCEPT !.marker = page.next_marker])
      /\ [q EXCEPT !.pc = "create"] \in Request
      /\ RequestOK([q EXCEPT !.pc = "create"])
  <2> HIDE DEF page, q
  <2> QED
    BY <1>1, <1>2, <1>3 DEF Request, RequestOK, OnBucket, Step
<1>7. Answer("Ok") \in Reply /\ Answer("TooManyBuckets") \in Reply
  BY AnswerType DEF ReplyCode
<1> HIDE DEF page, q
<1> QED
  BY <1>1, <1>3, <1>4, <1>5, <1>6, <1>7, AnsweredType, S3Advance

LEMMA CreateBucketStep ==
    ASSUME TypeOK, S3TypeOK, NEW r \in S3Req, CreateBucket(r)
    PROVE  S3TypeOK' /\ DriverNext
<1>1. s3[r] \in Request /\ RequestOK(s3[r]) /\ s3[r].call \in CallType /\ s3[r].call # NoCall
      /\ s3[r].pc = "create"
  BY ServingType DEF CreateBucket
<1>2. PICK id \in NewIds :
        LET info == [bucket_id |-> id, name |-> s3[r].call.name, owner |-> s3[r].user.user_id]
        IN  /\ create_bucket(info)
            /\ IF CreateBucketResult(info) = "Ok"
               THEN Finish(r, "Ok") /\ minted' = minted \cup {id}
               ELSE Goto(r, "whose") /\ UNCHANGED minted
  BY DEF CreateBucket
<1> DEFINE info == [bucket_id |-> id, name |-> s3[r].call.name, owner |-> s3[r].user.user_id]
<1>3. id \in BucketId
  BY <1>2 DEF NewIds
<1>4. s3[r].user \in UserInfo
  BY <1>1 DEF Request, RequestOK, Identity
<1>5. info \in BucketInfo
  BY <1>1, <1>3, <1>4 DEF BucketInfo, CallType, UserInfo
<1>6. DriverNext
  BY <1>2, <1>5 DEF DriverNext
<1>7. minted' \in SUBSET BucketId
  BY <1>2, <1>3 DEF S3TypeOK
<1>8. [s3[r] EXCEPT !.pc = "whose"] \in Request /\ RequestOK([s3[r] EXCEPT !.pc = "whose"])
  BY <1>1 DEF Request, RequestOK, OnBucket, Step
<1>9. "Ok" \in ReplyCode
  BY DEF ReplyCode
<1>10. CASE Finish(r, "Ok")
  BY <1>1, <1>6, <1>7, <1>9, <1>10, FinishType
<1>11. CASE Goto(r, "whose")
  BY <1>6, <1>7, <1>8, <1>11, S3Advance DEF Goto
<1> QED
  BY <1>2, <1>10, <1>11

LEMMA WhoseBucketStep ==
    ASSUME S3TypeOK, NEW r \in S3Req, WhoseBucket(r)
    PROVE  S3TypeOK' /\ UNCHANGED store
<1>1. s3[r].pc # "idle" /\ minted' \in SUBSET BucketId /\ UNCHANGED store
  BY DEF WhoseBucket, S3TypeOK, store
<1>2. \E code \in ReplyCode : Finish(r, code)
  BY DEF WhoseBucket, ReplyCode
<1> QED
  BY <1>1, <1>2, FinishType

LEMMA LoadBucketForStep ==
    ASSUME TypeOK, S3TypeOK, NEW r \in S3Req, LoadBucketFor(r)
    PROVE  S3TypeOK' /\ UNCHANGED store
<1> DEFINE c == s3[r].call
           b == load_bucket(c.name)
           q == [s3[r] EXCEPT !.pc = c.op, !.bucket = b]
<1>1. s3[r] \in Request /\ RequestOK(s3[r]) /\ c \in CallType /\ c # NoCall
      /\ s3[r].pc = "load_bucket"
  BY ServingType DEF LoadBucketFor
<1>2. minted' \in SUBSET BucketId /\ UNCHANGED store
  BY DEF LoadBucketFor, S3TypeOK, store
<1>3. \/ \E code \in ReplyCode : Finish(r, code)
      \/ /\ HasBucket(c.name) /\ verify_bucket_access(s3[r].user, b) /\ c.op # "get_location"
         /\ Advance(r, q)
  BY DEF LoadBucketFor, ReplyCode
<1>4. CASE \E code \in ReplyCode : Finish(r, code)
  BY <1>1, <1>2, <1>4, FinishType
<1>5. CASE /\ HasBucket(c.name) /\ verify_bucket_access(s3[r].user, b) /\ c.op # "get_location"
           /\ Advance(r, q)
  <2>1. b \in BucketInfo /\ b # NoBucket
    BY <1>5, LoadBucketType, S3Assumption DEF TypeOK
  <2>2. s3[r].user # Anonymous
    BY <1>5 DEF verify_bucket_access
  <2>3. q \in Request /\ RequestOK(q)
    BY <1>1, <1>5, <2>1, <2>2 DEF Request, RequestOK, OnBucket, Step, CallType, S3Op
  <2> QED
    BY <1>2, <1>5, <2>3, S3Advance
<1> QED
  BY <1>3, <1>4, <1>5

\* A task with a bucket in hand has a user, a call and a bucket row.
LEMMA OnBucketType ==
    ASSUME S3TypeOK, NEW r \in S3Req, s3[r].pc \in OnBucket
    PROVE  /\ s3[r] \in Request /\ RequestOK(s3[r]) /\ s3[r].pc # "idle"
           /\ s3[r].call \in CallType /\ s3[r].call # NoCall
           /\ s3[r].user \in UserInfo
           /\ s3[r].bucket \in BucketInfo /\ TargetId(r) \in BucketId
           /\ Head(s3[r].call.keys) \in ObjectName
<1>1. s3[r].pc # "idle"
  BY DEF OnBucket
<1>2. s3[r] \in Request /\ RequestOK(s3[r]) /\ s3[r].call \in CallType /\ s3[r].call # NoCall
  BY <1>1, ServingType
<1>3. s3[r].user \in UserInfo /\ s3[r].bucket \in BucketInfo
  BY <1>2 DEF RequestOK, Request, Identity
<1>4. TargetId(r) \in BucketId
  BY <1>3 DEF TargetId, BucketInfo
<1>5. Head(s3[r].call.keys) \in ObjectName
  BY <1>2 DEF CallType
<1> QED
  BY <1>1, <1>2, <1>3, <1>4, <1>5

LEMMA DeleteBucketStep ==
    ASSUME S3TypeOK, NEW r \in S3Req, DeleteBucket(r)
    PROVE  S3TypeOK' /\ DriverNext
<1>1. s3[r].pc \in OnBucket /\ minted' \in SUBSET BucketId
  BY DEF DeleteBucket, OnBucket, S3TypeOK
<1>2. s3[r].bucket.name \in BucketName /\ s3[r].pc # "idle"
  BY <1>1, OnBucketType DEF BucketInfo
<1>3. RemoveBucketResult(s3[r].bucket.name) \in ReplyCode
  BY DEF RemoveBucketResult, ReplyCode
<1>4. DriverNext
  BY <1>2 DEF DeleteBucket, DriverNext
<1> QED
  BY <1>1, <1>2, <1>3, <1>4, FinishType DEF DeleteBucket

LEMMA ReadBucketStep ==
    ASSUME S3TypeOK, NEW r \in S3Req, ReadBucket(r)
    PROVE  S3TypeOK' /\ UNCHANGED store
<1>1. s3[r].pc # "idle" /\ minted' \in SUBSET BucketId /\ UNCHANGED store
  BY DEF ReadBucket, S3TypeOK, store
<1>2. \E code \in ReplyCode : Finish(r, code)
  BY DEF ReadBucket, ReplyCode
<1> QED
  BY <1>1, <1>2, FinishType

LEMMA PutObjectStep ==
    ASSUME S3TypeOK, NEW r \in S3Req, PutObject(r)
    PROVE  S3TypeOK' /\ DriverNext
<1> DEFINE info == [bucket_id |-> TargetId(r), name |-> Head(s3[r].call.keys),
                    owner |-> s3[r].user.user_id, data |-> s3[r].call.data]
<1>1. s3[r].pc \in OnBucket /\ minted' \in SUBSET BucketId
  BY DEF PutObject, OnBucket, S3TypeOK
<1>2. s3[r].pc # "idle" /\ info \in ObjectInfo
  BY <1>1, OnBucketType DEF ObjectInfo, UserInfo, CallType
<1>3. PutObjectResult(info) \in ReplyCode
  BY DEF PutObjectResult, ReplyCode
<1>4. put_object(info) /\ Finish(r, PutObjectResult(info))
  BY DEF PutObject
<1>5. DriverNext
  BY <1>2, <1>4 DEF DriverNext
<1> QED
  BY <1>1, <1>2, <1>3, <1>4, <1>5, FinishType

\* A range resolves to two positions or to nothing.
LEMMA ResolvedType ==
    ASSUME NEW range \in ByteRange, NEW size \in Nat
    PROVE  /\ driver_resolve_range(range, size) \in (Nat \X Nat) \cup {Unsatisfiable}
           /\ s3_resolve_range(range, size) \in (Nat \X Nat) \cup {Unsatisfiable}
  BY DEF driver_resolve_range, s3_resolve_range, ByteRange, AtMost, Open, Unsatisfiable

\* The size of a stored object is a number.
LEMMA ObjectSizeType ==
    ASSUME TypeOK, NEW id, NEW name, LoadObjectResult(id, name) = "Ok"
    PROVE  load_object(id, name).data \in Nat
  BY LoadObjectType, DriverAssumption, ZenonT(40) DEF TypeOK, ObjectInfo

LEMMA GetObjectStep ==
    ASSUME TypeOK, S3TypeOK, NEW r \in S3Req, GetObject(r)
    PROVE  S3TypeOK' /\ UNCHANGED store
<1> DEFINE key    == Head(s3[r].call.keys)
           range  == s3[r].call.range
           result == GetObjectResult(TargetId(r), key, range)
           size   == load_object(TargetId(r), key).data
<1>1. s3[r].pc \in OnBucket /\ minted' \in SUBSET BucketId /\ UNCHANGED store
  BY DEF GetObject, OnBucket, S3TypeOK, store
<1>2. s3[r] \in Request /\ RequestOK(s3[r]) /\ s3[r].pc # "idle" /\ range \in ByteRange \cup {NoRange}
  BY <1>1, OnBucketType DEF CallType
<1>3. result \in ReplyCode
  BY DEF GetObjectResult, LoadObjectResult, ReplyCode
<1>4. CASE result = "Ok"
  <2>1. FinishObject(r, "Ok", size, Resolved(range, size))
    BY <1>4 DEF GetObject
  <2>2. LoadObjectResult(TargetId(r), key) = "Ok"
    BY <1>4 DEF GetObjectResult
  <2>3. size \in Nat
    BY <2>2, ObjectSizeType
  <2>4. Resolved(range, size) \in (Nat \X Nat) \cup {Unsatisfiable}
    BY <1>2, <2>3, ResolvedType DEF Resolved
  <2> HIDE DEF size, range
  <2> QED
    BY <1>1, <1>2, <1>3, <1>4, <2>1, <2>3, <2>4, FinishObjectType
<1>5. CASE result = "InvalidRange"
  <2>1. Goto(r, "size")
    BY <1>5 DEF GetObject
  <2>2. [s3[r] EXCEPT !.pc = "size"] \in Request /\ RequestOK([s3[r] EXCEPT !.pc = "size"])
    BY <1>1, <1>2 DEF Request, RequestOK, OnBucket, Step
  <2> QED
    BY <1>1, <2>1, <2>2, S3Advance DEF Goto
<1>6. CASE result \notin {"Ok", "InvalidRange"}
  <2>1. Finish(r, result)
    BY <1>6 DEF GetObject
  <2> QED
    BY <1>1, <1>2, <1>3, <2>1, FinishType
<1> QED
  BY <1>4, <1>5, <1>6

LEMMA HeadForSizeStep ==
    ASSUME TypeOK, S3TypeOK, NEW r \in S3Req, HeadForSize(r)
    PROVE  S3TypeOK' /\ UNCHANGED store
<1> DEFINE key    == Head(s3[r].call.keys)
           result == LoadObjectResult(TargetId(r), key)
           size   == load_object(TargetId(r), key).data
<1>1. s3[r].pc # "idle" /\ minted' \in SUBSET BucketId /\ UNCHANGED store
  BY DEF HeadForSize, S3TypeOK, store
<1>2. result \in ReplyCode /\ "InvalidRange" \in ReplyCode
  BY DEF LoadObjectResult, ReplyCode
<1>3. CASE result = "Ok"
  <2>1. FinishObject(r, "InvalidRange", size, Unsatisfiable) /\ size \in Nat
    BY <1>3, ObjectSizeType DEF HeadForSize
  <2> HIDE DEF size
  <2> QED
    BY <1>1, <1>2, <2>1, FinishObjectType
<1>4. CASE result # "Ok"
  BY <1>1, <1>2, <1>4, FinishType DEF HeadForSize
<1> QED
  BY <1>3, <1>4

LEMMA HeadObjectStep ==
    ASSUME TypeOK, S3TypeOK, NEW r \in S3Req, HeadObject(r)
    PROVE  S3TypeOK' /\ UNCHANGED store
<1> DEFINE key    == Head(s3[r].call.keys)
           range  == s3[r].call.range
           result == LoadObjectResult(TargetId(r), key)
           size   == load_object(TargetId(r), key).data
<1>1. s3[r].pc \in OnBucket /\ minted' \in SUBSET BucketId /\ UNCHANGED store
  BY DEF HeadObject, OnBucket, S3TypeOK, store
<1>2. s3[r].pc # "idle" /\ range \in ByteRange \cup {NoRange}
  BY <1>1, OnBucketType DEF CallType
<1>3. result \in ReplyCode /\ "InvalidRange" \in ReplyCode /\ "Ok" \in ReplyCode
  BY DEF LoadObjectResult, ReplyCode
<1>4. CASE result = "Ok"
  <2>1. size \in Nat
    BY <1>4, ObjectSizeType
  <2>2. \E code \in ReplyCode, x \in (Nat \X Nat) \cup {Unsatisfiable} :
           FinishObject(r, code, size, x)
    <3>1. CASE range = NoRange
      BY <1>3, <1>4, <3>1 DEF HeadObject
    <3>2. CASE range # NoRange
      <4>1. s3_resolve_range(range, size) \in (Nat \X Nat) \cup {Unsatisfiable}
        BY <1>2, <2>1, <3>2, ResolvedType
      <4> QED
        BY <1>3, <1>4, <3>2, <4>1 DEF HeadObject
    <3> QED
      BY <3>1, <3>2
  <2> HIDE DEF size
  <2> QED
    BY <1>1, <1>2, <2>1, <2>2, FinishObjectType
<1>5. CASE result # "Ok"
  BY <1>1, <1>2, <1>3, <1>5, FinishType DEF HeadObject
<1> QED
  BY <1>4, <1>5

LEMMA DeleteObjectStep ==
    ASSUME S3TypeOK, NEW r \in S3Req, DeleteObject(r)
    PROVE  S3TypeOK' /\ DriverNext
<1>1. s3[r].pc \in OnBucket /\ minted' \in SUBSET BucketId
  BY DEF DeleteObject, OnBucket, S3TypeOK
<1>2. s3[r].pc # "idle" /\ TargetId(r) \in BucketId /\ Head(s3[r].call.keys) \in ObjectName
  BY <1>1, OnBucketType
<1>3. \E code \in ReplyCode : Finish(r, code)
  BY DEF DeleteObject, DeleteObjectResult, LoadObjectResult, ReplyCode
<1>4. DriverNext
  BY <1>2 DEF DeleteObject, DriverNext
<1> QED
  BY <1>1, <1>2, <1>3, <1>4, FinishType

\* The batch after a key was tried is one key shorter, whatever came of the key.
LEMMA BatchAfterType ==
    ASSUME NEW q \in Request, q.todo # <<>>, NEW result \in ReplyCode
    PROVE  /\ BatchAfter(q, result) \in Request
           /\ BatchAfter(q, result).pc = q.pc
           /\ BatchAfter(q, result).call = q.call
           /\ BatchAfter(q, result).user = q.user
           /\ BatchAfter(q, result).bucket = q.bucket
           /\ BatchAfter(q, result).todo = Tail(q.todo)
<1>1. /\ q.todo \in Seq(ObjectName) /\ q.deleted \in Seq(ObjectName)
      /\ q.errors \in Seq(BatchError)
  BY DEF Request
<1>2. Head(q.todo) \in ObjectName /\ Tail(q.todo) \in Seq(ObjectName)
  BY <1>1
<1>3. [key |-> Head(q.todo), code |-> result] \in BatchError
  BY <1>2 DEF BatchError
<1>4. Noted(q) \in Seq(ObjectName) /\ Failed(q, result) \in Seq(BatchError)
  BY <1>1, <1>2, <1>3 DEF Noted, Failed
<1> QED
  BY <1>2, <1>4 DEF BatchAfter, Request

\* A batch goes on to its next key with a well-formed record.
LEMMA NextKeyType ==
    ASSUME S3TypeOK, NEW r \in S3Req, s3[r].pc = "delete_multi", NEW result \in ReplyCode,
           NextKey(r, BatchAfter(s3[r], result)), minted' \in SUBSET BucketId
    PROVE  S3TypeOK'
<1> DEFINE after == BatchAfter(s3[r], result)
<1>1. s3[r] \in Request /\ RequestOK(s3[r]) /\ s3[r].call # NoCall
  BY OnBucketType DEF OnBucket
<1>2. s3[r].todo # <<>>
  BY <1>1 DEF RequestOK
<1>3. /\ after \in Request /\ after.pc = s3[r].pc /\ after.call = s3[r].call
      /\ after.user = s3[r].user /\ after.bucket = s3[r].bucket
  BY <1>1, <1>2, BatchAfterType
<1>4. Advance(r, IF after.todo # <<>> THEN after ELSE Answered(after, Answer("Ok")))
  BY DEF NextKey
<1> HIDE DEF after
<1>5. CASE after.todo # <<>>
  <2>1. RequestOK(after)
    BY <1>1, <1>3, <1>5 DEF RequestOK, OnBucket
  <2> QED
    BY <1>3, <1>4, <1>5, <2>1, S3Advance
<1>6. CASE after.todo = <<>>
  <2>1. Answer("Ok") \in Reply
    BY AnswerType DEF ReplyCode
  <2> QED
    BY <1>1, <1>3, <1>4, <1>6, <2>1, AnsweredType, S3Advance
<1> QED
  BY <1>5, <1>6

LEMMA DeleteMultiStep ==
    ASSUME S3TypeOK, NEW r \in S3Req, DeleteMulti(r)
    PROVE  S3TypeOK' /\ DriverNext
<1> DEFINE key    == Head(s3[r].todo)
           result == DeleteObjectResult(TargetId(r), key)
<1>1. s3[r].pc \in OnBucket /\ s3[r].pc = "delete_multi" /\ minted' \in SUBSET BucketId
  BY DEF DeleteMulti, OnBucket, S3TypeOK
<1>2. s3[r] \in Request /\ RequestOK(s3[r]) /\ TargetId(r) \in BucketId
  BY <1>1, OnBucketType
<1>3. s3[r].todo # <<>> /\ s3[r].todo \in Seq(ObjectName)
  BY <1>1, <1>2 DEF RequestOK, Request
<1>4. key \in ObjectName
  BY <1>3
<1>5. DriverNext
  BY <1>2, <1>4 DEF DeleteMulti, DriverNext
<1>6. result \in ReplyCode
  BY DEF DeleteObjectResult, LoadObjectResult, ReplyCode
<1>7. NextKey(r, BatchAfter(s3[r], result))
  BY DEF DeleteMulti
<1> HIDE DEF result
<1> QED
  BY <1>1, <1>5, <1>6, <1>7, NextKeyType

\* A failed driver call moves its task on, or ends it, and leaves the store alone.
LEMMA CallFailsStep ==
    ASSUME S3TypeOK, NEW r \in S3Req, CallFails(r)
    PROVE  S3TypeOK' /\ UNCHANGED store
<1>1. s3[r].pc # "idle" /\ minted' \in SUBSET BucketId /\ UNCHANGED store
  BY DEF CallFails, S3TypeOK, store
<1>2. /\ "InternalError" \in ReplyCode
      /\ \/ s3[r].pc = "delete_multi" /\ NextKey(r, BatchAfter(s3[r], "InternalError"))
         \/ \E code \in ReplyCode : Finish(r, code)
  BY DEF CallFails, ReplyCode
<1> QED
  BY <1>1, <1>2, NextKeyType, FinishType

(***************************************************************************)
(* Every step of the S3 side keeps the request records well formed and is  *)
(* on the store a driver call with well-typed arguments, or none.          *)
(***************************************************************************)
LEMMA S3Step ==
    TypeOK /\ S3TypeOK /\ S3Next => S3TypeOK' /\ [DriverNext]_store
<1> SUFFICES ASSUME TypeOK, S3TypeOK, S3Next PROVE S3TypeOK' /\ [DriverNext]_store
  OBVIOUS
<1>1. PICK r \in S3Req : (\E c \in S3Call : Authenticate(r, c)) \/ Serve(r) \/ Cancel(r)
  BY DEF S3Next
<1>2. CASE \E c \in S3Call : Authenticate(r, c)
  BY <1>2, AuthenticateStep
<1>3. CASE Cancel(r)
  BY <1>3, CancelStep
<1>4. CASE Serve(r)
  BY <1>4, CountOwnedStep, CreateBucketStep, WhoseBucketStep, LoadBucketForStep,
     DeleteBucketStep, ReadBucketStep, PutObjectStep, GetObjectStep, HeadForSizeStep,
     HeadObjectStep, DeleteObjectStep, DeleteMultiStep, CallFailsStep DEF Serve, Proceed
<1> QED
  BY <1>1, <1>2, <1>3, <1>4

-----------------------------------------------------------------------------
(* Admin operations *)

\* A set of numbers that is not empty has a least one: the loops' next element exists.
LEMMA LeastName ==
    ASSUME NEW T, T \subseteq Nat, T # {}
    PROVE  \E n \in T : \A m \in T : n <= m
<1> DEFINE R == {ss \in Nat \X Nat : ss[1] < ss[2]}
<1>1. IsWellFoundedOn(R, Nat)
  BY NatLessThanWellFounded DEF OpToRel
<1> HIDE DEF R
<1>2. PICK n \in T : \A m \in T : ~(<<m, n>> \in R)
  BY <1>1, WFMin, Zenon
<1>3. ASSUME NEW m \in T PROVE n <= m
  <2>1. m \in Nat /\ n \in Nat /\ <<m, n>> \notin R
    BY <1>2
  <2>2. ~(<<m, n>>[1] < <<m, n>>[2])
    BY <2>1 DEF R
  <2> QED
    BY <2>1, <2>2
<1> QED
  BY <1>3

\* The first bucket of a set of listed buckets is one of them.
LEMMA FirstType ==
    ASSUME NEW S, S \subseteq BucketInfo, S # {}
    PROVE  First(S) \in S
<1>1. {b.name : b \in S} \subseteq Nat /\ {b.name : b \in S} # {}
  BY DriverAssumption DEF BucketInfo
<1>2. PICK n \in {b.name : b \in S} : \A m \in {b.name : b \in S} : n <= m
  BY <1>1, LeastName
<1>3. \E b \in S : \A c \in S : b.name <= c.name
  BY <1>2
<1> QED
  BY <1>3 DEF First

\* The name purge_objects deletes next is on the page.
LEMMA NextNameType ==
    ASSUME NEW page, page \subseteq ObjectName, page # {}
    PROVE  (CHOOSE n \in page : \A m \in page : n <= m) \in page
<1>1. \E n \in page : \A m \in page : n <= m
  BY LeastName, DriverAssumption
<1> QED
  BY <1>1

-----------------------------------------------------------------------------
\* One task's record is replaced by another well-formed one.
LEMMA BecomeType ==
    ASSUME AdminTypeOK, NEW a \in AdminReq, NEW q \in AdminRequest, AdminRequestOK(q),
           Become(a, q)
    PROVE  AdminTypeOK'
  BY DEF AdminTypeOK, Become

LEMMA AdminIdleType == AdminIdle \in AdminRequest /\ AdminRequestOK(AdminIdle)
  BY DEF AdminIdle, AdminRequest, AdminRequestOK, AdminStep, AdminReplyCode

\* A task that runs an operation has a call.
LEMMA WorkingType ==
    ASSUME AdminTypeOK, NEW a \in AdminReq, adm[a].pc # "idle"
    PROVE  /\ adm[a] \in AdminRequest /\ AdminRequestOK(adm[a])
           /\ adm[a].call \in AdminCallType /\ adm[a].call # NoAdminCall
  BY AdminAssumption DEF AdminTypeOK, AdminRequest, AdminRequestOK

\* Ending an operation with a code keeps the records well formed.
LEMMA AdminFinishType ==
    ASSUME AdminTypeOK, NEW a \in AdminReq, adm[a].pc # "idle", NEW rc \in AdminReplyCode,
           AdminFinish(a, rc)
    PROVE  AdminTypeOK'
<1> DEFINE q == [adm[a] EXCEPT !.pc = "done", !.reply = rc]
<1>1. adm[a] \in AdminRequest /\ adm[a].call # NoAdminCall
  BY WorkingType
<1>2. q \in AdminRequest
  BY <1>1 DEF AdminRequest, AdminStep
<1>3. AdminRequestOK(q)
  BY <1>1 DEF AdminRequest, AdminRequestOK
<1>4. Become(a, q)
  BY DEF AdminFinish
<1> HIDE DEF q
<1> QED
  BY <1>2, <1>3, <1>4, BecomeType

\* An optional parameter or its default.
LEMMA GivenType ==
    ASSUME NEW S, NEW option \in Opt(S), NEW default \in S
    PROVE  Given(option, default) \in S
  BY DEF Given, Opt, None, Some

\* user_create starts from a proper record.
LEMMA NewUserType ==
    ASSUME NEW c \in AdminCallType
    PROVE  NewUser(c) \in UserInfo
<1>1. /\ Given(c.suspended, FALSE) \in BOOLEAN
      /\ Given(c.system, FALSE) \in BOOLEAN
      /\ Given(c.admin, FALSE) \in BOOLEAN
      /\ Given(c.max_buckets, DefaultLimit) \in BucketLimit
  BY GivenType, AdminAssumption DEF AdminCallType
<1>2. c.uid \in Uid /\ c.caps \in SUBSET Cap
  BY DEF AdminCallType
<1> QED
  BY <1>1, <1>2 DEF NewUser, UserInfo

\* Every operation turns a proper record into a proper record.
LEMMA EditedType ==
    ASSUME NEW u \in UserInfo, NEW c \in AdminCallType
    PROVE  Edited(u, c) \in UserInfo
<1>1. /\ Given(c.suspended, u.suspended) \in BOOLEAN
      /\ Given(c.system, u.system) \in BOOLEAN
      /\ Given(c.admin, u.admin) \in BOOLEAN
      /\ Given(c.max_buckets, u.max_buckets) \in BucketLimit
  BY GivenType DEF AdminCallType, UserInfo
<1>2. Modified(u, c) \in UserInfo
  BY <1>1 DEF Modified, UserInfo
<1>3. c.caps \in SUBSET Cap
  BY DEF AdminCallType
<1>4. /\ [u EXCEPT !.access_keys = @ \ {c.key[1]}] \in UserInfo
      /\ [u EXCEPT !.caps = @ \cup c.caps] \in UserInfo
      /\ [u EXCEPT !.caps = @ \ c.caps] \in UserInfo
  BY <1>3 DEF UserInfo
<1> QED
  BY <1>2, <1>4 DEF Edited

\* The step after a record is in hand, and what that step needs.
LEMMA StepAfterInfoType ==
    ASSUME NEW c
    PROVE  /\ StepAfterInfo(c) \in {"email", "key", "store_user"}
           /\ StepAfterInfo(c) = "email" => c.email # None
           /\ StepAfterEmail(c) \in {"key", "store_user"}
  BY DEF StepAfterInfo, StepAfterEmail, NewEmail

\* A record in hand and the step after it.
LEMMA WithInfoType ==
    ASSUME NEW q \in AdminRequest, q.call # NoAdminCall, NEW info \in UserInfo,
           NEW pc \in {"email", "key", "store_user"}, pc = "email" => q.call.email # None
    PROVE  /\ [q EXCEPT !.info = info, !.pc = pc] \in AdminRequest
           /\ AdminRequestOK([q EXCEPT !.info = info, !.pc = pc])
<1> DEFINE p == [q EXCEPT !.info = info, !.pc = pc]
<1>1. p \in AdminRequest
  BY DEF AdminRequest, AdminStep
<1>2. p.call = q.call /\ p.pc = pc /\ p.info = info
  BY DEF AdminRequest
<1>3. info # NoUser
  BY AdminAssumption
<1> HIDE DEF p
<1>4. AdminRequestOK(p)
  BY <1>2, <1>3 DEF AdminRequestOK
<1> QED
  BY <1>1, <1>4 DEF p

-----------------------------------------------------------------------------
(* One lemma per action: well formed after it, and one driver call or none *)

LEMMA AdminStartStep ==
    ASSUME TypeOK, AdminTypeOK, NEW a \in AdminReq, NEW c \in AdminCall, AdminStart(a, c)
    PROVE  AdminTypeOK' /\ UNCHANGED store
<1>1. c \in AdminCallType /\ c # NoAdminCall
  BY AdminAssumption
<1> DEFINE q == [AdminIdle EXCEPT !.call = c]
<1>2. q \in AdminRequest /\ q.call = c
  BY AdminIdleType DEF AdminRequest
<1>3. ASSUME NEW rc \in AdminReplyCode
      PROVE  Ended(c, rc) \in AdminRequest /\ AdminRequestOK(Ended(c, rc))
  BY <1>1, <1>3, AdminIdleType DEF Ended, AdminRequest, AdminRequestOK, AdminStep
<1>4. ASSUME NEW pc \in {"list_buckets", "load_bucket", "remove_bucket", "load_user"},
             pc = "remove_bucket" => c.op # "user_remove"
      PROVE  /\ [AdminIdle EXCEPT !.call = c, !.pc = pc] \in AdminRequest
             /\ AdminRequestOK([AdminIdle EXCEPT !.call = c, !.pc = pc])
  BY <1>1, <1>4, AdminIdleType DEF AdminRequest, AdminRequestOK, AdminStep
<1>5. /\ [AdminIdle EXCEPT !.call = c, !.info = NewUser(c), !.pc = StepAfterInfo(c)] \in AdminRequest
      /\ AdminRequestOK([AdminIdle EXCEPT !.call = c, !.info = NewUser(c), !.pc = StepAfterInfo(c)])
  <2>1. NewUser(c) \in UserInfo
    BY <1>1, NewUserType
  <2>2. /\ StepAfterInfo(c) \in {"email", "key", "store_user"}
        /\ StepAfterInfo(c) = "email" => c.email # None
    BY StepAfterInfoType
  <2>3. [q EXCEPT !.info = NewUser(c), !.pc = StepAfterInfo(c)]
          = [AdminIdle EXCEPT !.call = c, !.info = NewUser(c), !.pc = StepAfterInfo(c)]
    OBVIOUS
  <2> HIDE DEF q
  <2> QED
    BY <1>1, <1>2, <2>1, <2>2, <2>3, WithInfoType, ZenonT(40)
<1>6. Begun(c) \in AdminRequest /\ AdminRequestOK(Begun(c))
  <2>1. "InvalidArgument" \in AdminReplyCode
    BY DEF AdminReplyCode
  <2> QED
    BY <1>3, <1>4, <1>5, <2>1 DEF Begun
<1>7. Admission(c) \in AdminReplyCode /\ "InternalError" \in AdminReplyCode
  BY VerifyType DEF Admission, AdminReplyCode
<1> QED
  BY <1>3, <1>6, <1>7, BecomeType DEF AdminStart

LEMMA AdminCancelStep ==
    ASSUME AdminTypeOK, NEW a \in AdminReq, AdminCancel(a)
    PROVE  AdminTypeOK' /\ UNCHANGED store
  BY AdminIdleType, BecomeType DEF AdminCancel

LEMMA LoadUserStep ==
    ASSUME TypeOK, AdminTypeOK, NEW a \in AdminReq, LoadUser(a)
    PROVE  AdminTypeOK' /\ UNCHANGED store
<1> DEFINE c == adm[a].call
           u == load_user(c.uid)
<1>1. /\ adm[a] \in AdminRequest /\ AdminRequestOK(adm[a]) /\ adm[a].pc = "load_user"
      /\ c \in AdminCallType /\ c # NoAdminCall
  BY WorkingType DEF LoadUser
<1>2. UNCHANGED store
  BY DEF LoadUser
<1>3. \/ \E rc \in AdminReplyCode : AdminFinish(a, rc)
      \/ \E pc \in {"list_buckets", "owns_any"} : Become(a, [adm[a] EXCEPT !.pc = pc])
      \/ HasUser(c.uid) /\ Become(a, [adm[a] EXCEPT !.info = Edited(u, c), !.pc = StepAfterInfo(c)])
  BY DEF LoadUser, AdminReplyCode
<1>4. CASE \E rc \in AdminReplyCode : AdminFinish(a, rc)
  BY <1>1, <1>2, <1>4, AdminFinishType
<1>5. ASSUME NEW pc \in {"list_buckets", "owns_any"}, Become(a, [adm[a] EXCEPT !.pc = pc])
      PROVE  AdminTypeOK'
  <2>1. [adm[a] EXCEPT !.pc = pc] \in AdminRequest /\ AdminRequestOK([adm[a] EXCEPT !.pc = pc])
    BY <1>1 DEF AdminRequest, AdminRequestOK, AdminStep
  <2> QED
    BY <1>5, <2>1, BecomeType
<1>6. CASE HasUser(c.uid) /\ Become(a, [adm[a] EXCEPT !.info = Edited(u, c), !.pc = StepAfterInfo(c)])
  <2>1. u \in UserInfo
    BY <1>6 DEF HasUser, UserRows, load_user, TypeOK
  <2>2. Edited(u, c) \in UserInfo
    BY <1>1, <2>1, EditedType
  <2> HIDE DEF u
  <2> QED
    BY <1>1, <1>2, <1>6, <2>2, StepAfterInfoType, WithInfoType, BecomeType
<1> QED
  BY <1>2, <1>3, <1>4, <1>5, <1>6

LEMMA CheckEmailStep ==
    ASSUME AdminTypeOK, NEW a \in AdminReq, CheckEmail(a)
    PROVE  AdminTypeOK' /\ UNCHANGED store
<1> DEFINE c    == adm[a].call
           info == [adm[a].info EXCEPT !.user_email = c.email[1]]
           q    == [adm[a] EXCEPT !.info.user_email = c.email[1], !.pc = StepAfterEmail(c)]
<1>1. /\ adm[a] \in AdminRequest /\ AdminRequestOK(adm[a]) /\ adm[a].pc = "email"
      /\ c \in AdminCallType /\ c # NoAdminCall
  BY WorkingType DEF CheckEmail
<1>2. UNCHANGED store
  BY DEF CheckEmail
<1>3. AdminFinish(a, "UserAlreadyExists") \/ Become(a, q)
  BY DEF CheckEmail
<1>4. CASE AdminFinish(a, "UserAlreadyExists")
  BY <1>1, <1>2, <1>4, AdminFinishType DEF AdminReplyCode
<1>5. CASE Become(a, q)
  <2>1. c.email[1] \in Email \cup {NoEmail} /\ adm[a].info \in UserInfo
    BY <1>1 DEF AdminRequestOK, AdminRequest, AdminCallType, Opt, None, Some
  <2>2. info \in UserInfo
    BY <2>1 DEF UserInfo
  <2>3. q = [adm[a] EXCEPT !.info = info, !.pc = StepAfterEmail(c)]
    BY <1>1 DEF AdminRequest
  <2> HIDE DEF info, q
  <2> QED
    BY <1>1, <1>2, <1>5, <2>2, <2>3, StepAfterInfoType, WithInfoType, BecomeType
<1> QED
  BY <1>3, <1>4, <1>5

\* Adding a key to the record in hand.
LEMMA WithKeyType ==
    ASSUME NEW q \in AdminRequest, AdminRequestOK(q), q.pc = "key", NEW k \in AccessKey
    PROVE  WithKey(q, k) \in AdminRequest /\ AdminRequestOK(WithKey(q, k))
<1> DEFINE info == [q.info EXCEPT !.access_keys = @ \cup {k}]
<1>1. q.call # NoAdminCall /\ q.info \in UserInfo
  BY DEF AdminRequestOK, AdminRequest
<1>2. info \in UserInfo
  BY <1>1 DEF UserInfo
<1>3. WithKey(q, k) = [q EXCEPT !.info = info, !.pc = "store_user"]
  BY DEF WithKey, AdminRequest
<1> HIDE DEF info
<1> QED
  BY <1>1, <1>2, <1>3, WithInfoType

LEMMA KeySteps ==
    ASSUME AdminTypeOK, NEW a \in AdminReq, CheckKey(a) \/ GenerateKey(a)
    PROVE  AdminTypeOK' /\ UNCHANGED store
<1>1. /\ adm[a] \in AdminRequest /\ AdminRequestOK(adm[a]) /\ adm[a].pc = "key"
      /\ adm[a].call \in AdminCallType
  BY WorkingType DEF CheckKey, GenerateKey
<1>2. UNCHANGED store
  BY DEF CheckKey, GenerateKey
<1>3. adm[a].call.key # None => adm[a].call.key[1] \in AccessKey
  BY <1>1 DEF AdminCallType, Opt, None, Some
<1>4. \/ \E rc \in AdminReplyCode : AdminFinish(a, rc)
      \/ \E k \in AccessKey : Become(a, WithKey(adm[a], k))
      \/ Become(a, [adm[a] EXCEPT !.tries = @ + 1])
  BY <1>3 DEF CheckKey, GenerateKey, AdminReplyCode
<1>5. [adm[a] EXCEPT !.tries = @ + 1] \in AdminRequest /\ AdminRequestOK([adm[a] EXCEPT !.tries = @ + 1])
  BY <1>1 DEF AdminRequest, AdminRequestOK
<1> QED
  BY <1>1, <1>2, <1>4, <1>5, WithKeyType, AdminFinishType, BecomeType

LEMMA StoreUserStep ==
    ASSUME AdminTypeOK, NEW a \in AdminReq, StoreUser(a)
    PROVE  AdminTypeOK' /\ DriverNext
<1>1. /\ adm[a] \in AdminRequest /\ AdminRequestOK(adm[a]) /\ adm[a].pc = "store_user"
  BY WorkingType DEF StoreUser
<1>2. adm[a].info \in UserInfo
  BY <1>1 DEF AdminRequestOK, AdminRequest
<1>3. Exclusive(adm[a].call) \in BOOLEAN
  BY DEF Exclusive
<1>4. DriverNext
  BY <1>2, <1>3 DEF StoreUser, DriverNext
<1>5. StoreUserResult(adm[a].info, Exclusive(adm[a].call)) \in AdminReplyCode
  BY DEF StoreUserResult, AdminReplyCode
<1> QED
  BY <1>1, <1>4, <1>5, AdminFinishType DEF StoreUser

LEMMA OwnsAnyStep ==
    ASSUME AdminTypeOK, NEW a \in AdminReq, OwnsAny(a)
    PROVE  AdminTypeOK' /\ UNCHANGED store
<1>1. adm[a] \in AdminRequest /\ AdminRequestOK(adm[a]) /\ adm[a].pc = "owns_any"
  BY WorkingType DEF OwnsAny
<1>2. [adm[a] EXCEPT !.pc = "remove_user"] \in AdminRequest
      /\ AdminRequestOK([adm[a] EXCEPT !.pc = "remove_user"])
  BY <1>1 DEF AdminRequest, AdminRequestOK, AdminStep
<1>3. "InvalidRequest" \in AdminReplyCode
  BY DEF AdminReplyCode
<1> QED
  BY <1>1, <1>2, <1>3, AdminFinishType, BecomeType DEF OwnsAny

\* The purge loop's next bucket, or its end.
LEMMA NextBucketType ==
    ASSUME NEW q \in AdminRequest, q.call # NoAdminCall, NEW todo \in SUBSET BucketInfo
    PROVE  NextBucket(q, todo) \in AdminRequest /\ AdminRequestOK(NextBucket(q, todo))
<1>1. CASE todo = {}
  BY <1>1 DEF NextBucket, AdminRequest, AdminRequestOK, AdminStep
<1>2. CASE todo # {}
  <2> DEFINE b == First(todo)
             p == [q EXCEPT !.todo = todo, !.bucket = b, !.marker = 0, !.pc = "list_objects"]
  <2>1. b \in BucketInfo /\ b # NoInstance
    BY <1>2, FirstType, AdminAssumption
  <2> HIDE DEF b
  <2>2. p \in AdminRequest /\ p.call = q.call /\ p.pc = "list_objects" /\ p.bucket = b
    BY <2>1 DEF AdminRequest, AdminStep
  <2>3. NextBucket(q, todo) = p
    BY <1>2 DEF NextBucket, b
  <2> HIDE DEF p
  <2>4. AdminRequestOK(p)
    BY <2>1, <2>2 DEF AdminRequestOK
  <2> QED
    BY <2>2, <2>3, <2>4
<1> QED
  BY <1>1, <1>2

LEMMA ListBucketsStep ==
    ASSUME TypeOK, AdminTypeOK, NEW a \in AdminReq, ListBuckets(a)
    PROVE  AdminTypeOK' /\ UNCHANGED store
<1> DEFINE q      == adm[a]
           page   == list_buckets(ListedOwner(q.call), q.marker, PageSize)
           listed == q.listed \cup page.entries
<1>1. /\ q \in AdminRequest /\ AdminRequestOK(q) /\ q.pc = "list_buckets"
      /\ q.call # NoAdminCall
  BY WorkingType DEF ListBuckets
<1>2. UNCHANGED store
  BY DEF ListBuckets
<1>3. page.next_marker \in Nat /\ page.entries \subseteq BucketInfo
  BY BucketPageType DEF TypeOK
<1>4. \/ \E rc \in AdminReplyCode : AdminFinish(a, rc)
      \/ Become(a, [q EXCEPT !.listed = listed, !.marker = page.next_marker])
      \/ Become(a, NextBucket([q EXCEPT !.listed = listed], listed))
      \/ listed # {} /\ Become(a, [q EXCEPT !.listed = listed, !.todo = listed, !.pc = "stats"])
  BY DEF ListBuckets, AdminReplyCode
<1> HIDE DEF page
<1>5. listed \in SUBSET BucketInfo
  BY <1>1, <1>3 DEF AdminRequest
<1> HIDE DEF listed
<1>6. /\ [q EXCEPT !.listed = listed, !.marker = page.next_marker] \in AdminRequest
      /\ AdminRequestOK([q EXCEPT !.listed = listed, !.marker = page.next_marker])
  BY <1>1, <1>3, <1>5 DEF AdminRequest, AdminRequestOK
<1>7. [q EXCEPT !.listed = listed] \in AdminRequest /\ [q EXCEPT !.listed = listed].call = q.call
  BY <1>1, <1>5 DEF AdminRequest
<1>8. /\ NextBucket([q EXCEPT !.listed = listed], listed) \in AdminRequest
      /\ AdminRequestOK(NextBucket([q EXCEPT !.listed = listed], listed))
  BY <1>1, <1>5, <1>7, NextBucketType
<1>9. ASSUME listed # {}
      PROVE  /\ [q EXCEPT !.listed = listed, !.todo = listed, !.pc = "stats"] \in AdminRequest
             /\ AdminRequestOK([q EXCEPT !.listed = listed, !.todo = listed, !.pc = "stats"])
  BY <1>1, <1>5, <1>9 DEF AdminRequest, AdminRequestOK, AdminStep
<1> QED
  BY <1>1, <1>2, <1>4, <1>6, <1>8, <1>9, AdminFinishType, BecomeType

LEMMA ListStatsStep ==
    ASSUME AdminTypeOK, NEW a \in AdminReq, ListStats(a)
    PROVE  AdminTypeOK' /\ UNCHANGED store
<1> DEFINE b == First(adm[a].todo)
<1>1. /\ adm[a] \in AdminRequest /\ AdminRequestOK(adm[a]) /\ adm[a].pc = "stats"
      /\ adm[a].call # NoAdminCall
  BY WorkingType DEF ListStats
<1>2. UNCHANGED store
  BY DEF ListStats
<1>3. \/ \E rc \in AdminReplyCode : AdminFinish(a, rc)
      \/ adm[a].todo # {b} /\ Become(a, [adm[a] EXCEPT !.todo = @ \ {b}])
  BY DEF ListStats, AdminReplyCode
<1>4. adm[a].todo # {} /\ adm[a].todo \subseteq BucketInfo
  BY <1>1 DEF AdminRequest, AdminRequestOK
<1>5. b \in adm[a].todo
  BY <1>4, FirstType
<1> HIDE DEF b
<1>6. ASSUME adm[a].todo # {b}
      PROVE  /\ [adm[a] EXCEPT !.todo = @ \ {b}] \in AdminRequest
             /\ AdminRequestOK([adm[a] EXCEPT !.todo = @ \ {b}])
  <2>1. adm[a].todo \ {b} # {} /\ adm[a].todo \ {b} \in SUBSET BucketInfo
    BY <1>4, <1>5, <1>6
  <2> QED
    BY <1>1, <2>1 DEF AdminRequest, AdminRequestOK
<1> QED
  BY <1>1, <1>2, <1>3, <1>6, AdminFinishType, BecomeType

LEMMA LoadInstanceStep ==
    ASSUME TypeOK, AdminTypeOK, NEW a \in AdminReq, LoadInstance(a)
    PROVE  AdminTypeOK' /\ UNCHANGED store
<1> DEFINE b == load_bucket(adm[a].call.name)
<1>1. /\ adm[a] \in AdminRequest /\ AdminRequestOK(adm[a]) /\ adm[a].pc = "load_bucket"
      /\ adm[a].call # NoAdminCall
  BY WorkingType DEF LoadInstance
<1>2. UNCHANGED store
  BY DEF LoadInstance
<1>3. \/ \E rc \in AdminReplyCode : AdminFinish(a, rc)
      \/ /\ HasBucket(adm[a].call.name)
         /\ \/ Become(a, [adm[a] EXCEPT !.todo = {b}, !.pc = "stats"])
            \/ Become(a, [adm[a] EXCEPT !.bucket = b, !.pc = "list_objects"])
  BY DEF LoadInstance, AdminReplyCode
<1>4. ASSUME HasBucket(adm[a].call.name)
      PROVE  /\ [adm[a] EXCEPT !.todo = {b}, !.pc = "stats"] \in AdminRequest
             /\ AdminRequestOK([adm[a] EXCEPT !.todo = {b}, !.pc = "stats"])
             /\ [adm[a] EXCEPT !.bucket = b, !.pc = "list_objects"] \in AdminRequest
             /\ AdminRequestOK([adm[a] EXCEPT !.bucket = b, !.pc = "list_objects"])
  <2>1. b \in BucketInfo /\ b # NoInstance
    BY <1>4, LoadBucketType, AdminAssumption DEF TypeOK
  <2> HIDE DEF b
  <2> QED
    BY <1>1, <2>1 DEF AdminRequest, AdminRequestOK, AdminStep
<1> HIDE DEF b
<1> QED
  BY <1>1, <1>2, <1>3, <1>4, AdminFinishType, BecomeType

\* The end of a page of purge_objects.
LEMMA PageDoneType ==
    ASSUME NEW q \in AdminRequest, q.call # NoAdminCall, q.bucket # NoInstance
    PROVE  PageDone(q) \in AdminRequest /\ AdminRequestOK(PageDone(q))
  BY ZenonT(40) DEF PageDone, AdminRequest, AdminRequestOK, AdminStep, AdminReplyCode

LEMMA ListObjectsStep ==
    ASSUME TypeOK, AdminTypeOK, NEW a \in AdminReq, ListObjects(a)
    PROVE  AdminTypeOK' /\ UNCHANGED store
<1> DEFINE page  == list_objects(adm[a].bucket.bucket_id, adm[a].marker, PageSize)
           names == {o.name : o \in page.entries}
           q     == [adm[a] EXCEPT !.page = names, !.next = page.next_marker,
                                   !.more = page.is_truncated]
<1>1. /\ adm[a] \in AdminRequest /\ AdminRequestOK(adm[a]) /\ adm[a].pc = "list_objects"
      /\ adm[a].call # NoAdminCall
  BY WorkingType DEF ListObjects
<1>2. UNCHANGED store
  BY DEF ListObjects
<1>3. /\ page.entries \subseteq ObjectInfo /\ page.next_marker \in Nat
      /\ page.is_truncated \in BOOLEAN
  BY ObjectPageType DEF TypeOK
<1>4. \/ AdminFinish(a, "NoSuchBucket")
      \/ Become(a, IF q.page = {} THEN PageDone(q) ELSE [q EXCEPT !.pc = "delete_object"])
  BY DEF ListObjects
<1> HIDE DEF page
<1>5. names \in SUBSET ObjectName
  BY <1>3 DEF ObjectInfo
<1> HIDE DEF names
<1>6. /\ q \in AdminRequest /\ q.call # NoAdminCall /\ q.bucket # NoInstance
  BY <1>1, <1>3, <1>5 DEF AdminRequest, AdminRequestOK
<1> HIDE DEF q
<1>7. ASSUME q.page # {}
      PROVE  /\ [q EXCEPT !.pc = "delete_object"] \in AdminRequest
             /\ AdminRequestOK([q EXCEPT !.pc = "delete_object"])
  BY <1>6, <1>7 DEF AdminRequest, AdminRequestOK, AdminStep
<1>8. "NoSuchBucket" \in AdminReplyCode
  BY DEF AdminReplyCode
<1> QED
  BY <1>1, <1>2, <1>4, <1>6, <1>7, <1>8, PageDoneType, AdminFinishType, BecomeType

LEMMA PurgeObjectStep ==
    ASSUME AdminTypeOK, NEW a \in AdminReq, PurgeObject(a)
    PROVE  AdminTypeOK' /\ DriverNext
<1> DEFINE name == CHOOSE n \in adm[a].page : \A m \in adm[a].page : n <= m
           id   == adm[a].bucket.bucket_id
           q    == [adm[a] EXCEPT !.page = @ \ {name}]
<1>1. /\ adm[a] \in AdminRequest /\ AdminRequestOK(adm[a]) /\ adm[a].pc = "delete_object"
      /\ adm[a].call # NoAdminCall
  BY WorkingType DEF PurgeObject
<1>2. adm[a].bucket \in BucketInfo /\ adm[a].page \subseteq ObjectName /\ adm[a].page # {}
  BY <1>1 DEF AdminRequest, AdminRequestOK
<1>3. name \in ObjectName /\ id \in BucketId
  BY <1>2, NextNameType DEF BucketInfo
<1>4. /\ delete_object(id, name)
      /\ \/ AdminFinish(a, "NoSuchBucket")
         \/ Become(a, IF q.page = {} THEN PageDone(q) ELSE q)
  BY DEF PurgeObject, PurgeTarget
<1> HIDE DEF name, id
<1>5. DriverNext
  BY <1>3, <1>4 DEF DriverNext
<1>6. /\ q \in AdminRequest /\ q.call # NoAdminCall /\ q.bucket # NoInstance
      /\ q.page # {} => AdminRequestOK(q)
  BY <1>1 DEF AdminRequest, AdminRequestOK
<1> HIDE DEF q
<1>7. "NoSuchBucket" \in AdminReplyCode
  BY DEF AdminReplyCode
<1> QED
  BY <1>1, <1>4, <1>5, <1>6, <1>7, PageDoneType, AdminFinishType, BecomeType

LEMMA RemoveBucketStep ==
    ASSUME AdminTypeOK, NEW a \in AdminReq, RemoveBucket(a)
    PROVE  AdminTypeOK' /\ DriverNext
<1> DEFINE q    == adm[a]
           name == IF q.call.op = "user_remove" THEN q.bucket.name ELSE q.call.name
<1>1. /\ q \in AdminRequest /\ AdminRequestOK(q) /\ q.pc = "remove_bucket"
      /\ q.call \in AdminCallType /\ q.call # NoAdminCall
  BY WorkingType DEF RemoveBucket
<1>2. name \in BucketName
  BY <1>1 DEF AdminRequest, AdminRequestOK, AdminCallType, BucketInfo
<1>3. /\ remove_bucket(name)
      /\ \/ AdminFinish(a, RemoveBucketResult(name))
         \/ Become(a, NextBucket(q, q.todo \ {q.bucket}))
  BY DEF RemoveBucket
<1> HIDE DEF name
<1>4. DriverNext
  BY <1>2, <1>3 DEF DriverNext
<1>5. RemoveBucketResult(name) \in AdminReplyCode
  BY DEF RemoveBucketResult, AdminReplyCode
<1>6. q.todo \ {q.bucket} \in SUBSET BucketInfo
  BY <1>1 DEF AdminRequest
<1> QED
  BY <1>1, <1>3, <1>4, <1>5, <1>6, NextBucketType, AdminFinishType, BecomeType

LEMMA RemoveUserStep ==
    ASSUME AdminTypeOK, NEW a \in AdminReq, RemoveUser(a)
    PROVE  AdminTypeOK' /\ DriverNext
<1>1. adm[a].pc = "remove_user" /\ adm[a].call \in AdminCallType
  BY WorkingType DEF RemoveUser
<1>2. DriverNext
  BY <1>1 DEF RemoveUser, DriverNext, AdminCallType
<1>3. RemoveUserResult(adm[a].call.uid) \in AdminReplyCode
  BY DEF RemoveUserResult, AdminReplyCode
<1> QED
  BY <1>1, <1>2, <1>3, AdminFinishType DEF RemoveUser

\* A failed driver call ends the operation and leaves the store alone.
LEMMA AdminCallFailsStep ==
    ASSUME AdminTypeOK, NEW a \in AdminReq, AdminCallFails(a)
    PROVE  AdminTypeOK' /\ UNCHANGED store
<1>1. adm[a].pc \notin {"idle", "done"} /\ AdminFinish(a, "InternalError") /\ UNCHANGED store
  BY DEF AdminCallFails
<1>2. "InternalError" \in AdminReplyCode
  BY DEF AdminReplyCode
<1> QED
  BY <1>1, <1>2, AdminFinishType

(***************************************************************************)
(* Every step of an admin operation keeps the records well formed and is   *)
(* on the store a driver call with well-typed arguments, or none.          *)
(***************************************************************************)
LEMMA AdminStepsAreCalls ==
    TypeOK /\ AdminTypeOK /\ AdminNext => AdminTypeOK' /\ [DriverNext]_store
<1> SUFFICES ASSUME TypeOK, AdminTypeOK, AdminNext PROVE AdminTypeOK' /\ [DriverNext]_store
  OBVIOUS
<1>1. PICK a \in AdminReq : (\E c \in AdminCall : AdminStart(a, c)) \/ AdminServe(a) \/ AdminCancel(a)
  BY DEF AdminNext
<1>2. CASE \E c \in AdminCall : AdminStart(a, c)
  BY <1>2, AdminStartStep
<1>3. CASE AdminCancel(a)
  BY <1>3, AdminCancelStep
<1>4. CASE AdminServe(a)
  BY <1>4, LoadUserStep, CheckEmailStep, KeySteps, StoreUserStep, OwnsAnyStep, ListBucketsStep,
     ListStatsStep, LoadInstanceStep, ListObjectsStep, PurgeObjectStep, RemoveBucketStep,
     RemoveUserStep, AdminCallFailsStep DEF AdminServe, AdminProceed
<1> QED
  BY <1>1, <1>2, <1>3, <1>4

-----------------------------------------------------------------------------
(* The gateway *)

Types == TypeOK /\ S3TypeOK /\ AdminTypeOK

LEMMA InitTypes == Init => Types /\ StoreConsistent
<1> SUFFICES ASSUME Init PROVE Types /\ StoreConsistent
  OBVIOUS
<1>1. TypeOK /\ StoreConsistent
  BY DriverInitConsistent DEF Init
<1>2. S3TypeOK
  BY IdleType, SeedAssumption DEF Init, S3Init, S3TypeOK, BucketInfo
<1>3. AdminTypeOK
  BY AdminIdleType DEF Init, AdminInit, AdminTypeOK
<1> QED
  BY <1>1, <1>2, <1>3 DEF Types

LEMMA StepTypes ==
    Types /\ [Next]_vars => Types' /\ [DriverNext]_store
<1> SUFFICES ASSUME Types, [Next]_vars PROVE Types' /\ [DriverNext]_store
  OBVIOUS
<1>1. CASE S3Next /\ UNCHANGED adm
  <2>1. S3TypeOK' /\ [DriverNext]_store
    BY <1>1, S3Step DEF Types
  <2>2. AdminTypeOK'
    BY <1>1 DEF Types, AdminTypeOK
  <2> QED
    BY <2>1, <2>2, DriverTypeStep DEF Types
<1>2. CASE AdminNext /\ UNCHANGED <<s3, minted>>
  <2>1. AdminTypeOK' /\ [DriverNext]_store
    BY <1>2, AdminStepsAreCalls DEF Types
  <2>2. S3TypeOK'
    BY <1>2 DEF Types, S3TypeOK
  <2> QED
    BY <2>1, <2>2, DriverTypeStep DEF Types
<1>3. CASE UNCHANGED vars
  <2>1. UNCHANGED store /\ UNCHANGED <<s3, minted, adm>>
    BY <1>3 DEF vars
  <2>2. S3TypeOK' /\ AdminTypeOK'
    BY <2>1 DEF Types, S3TypeOK, AdminTypeOK
  <2> QED
    BY <2>1, <2>2, DriverTypeStep DEF Types
<1> QED
  BY <1>1, <1>2, <1>3 DEF Next

(***************************************************************************)
(* Whatever requests are served in whatever order, every record keeps its  *)
(* shape, and no task reaches a step without what the step works on.       *)
(***************************************************************************)
THEOREM GatewayTypes == Spec => [](TypeOK /\ S3TypeOK /\ AdminTypeOK)
<1>1. Init => Types
  BY InitTypes
<1>2. Types /\ [Next]_vars => Types'
  BY StepTypes
<1>3. Types => TypeOK /\ S3TypeOK /\ AdminTypeOK
  BY DEF Types
<1> QED
  BY <1>1, <1>2, <1>3, PTL DEF Spec

(***************************************************************************)
(* The gateway implements the driver's specification: seen from the store, *)
(* S3 requests and admin operations are a sequence of driver calls.        *)
(***************************************************************************)
THEOREM GatewayImplementsDriver == Spec => DriverSpec
<1>1. Init => Types /\ DriverInit
  BY InitTypes DEF Init
<1>2. Types /\ [Next]_vars => Types' /\ [DriverNext]_store
  BY StepTypes
<1> QED
  BY <1>1, <1>2, PTL DEF Spec, DriverSpec

(***************************************************************************)
(* So the key index always agrees with the user records and a key leads to *)
(* one user, whatever the gateway is asked to do (store_user, remove_user). *)
(***************************************************************************)
THEOREM GatewayKeysConsistent == Spec => [](KeyIndexMirrorsUsers /\ AccessKeyIdentifiesUser)
<1>1. StoreConsistent => KeyIndexMirrorsUsers /\ AccessKeyIdentifiesUser
  BY DEF StoreConsistent
<1> QED
  BY <1>1, GatewayImplementsDriver, DriverConsistent, PTL

(***************************************************************************)
(* And a bucket name leads to one instance and no object is left without   *)
(* its bucket, whatever is created, removed, put and purged meanwhile.     *)
(***************************************************************************)
THEOREM GatewayBucketsConsistent == Spec => [](BucketNamesOneInstance /\ ObjectsLieInBuckets)
<1>1. StoreConsistent => BucketNamesOneInstance /\ ObjectsLieInBuckets
  BY DEF StoreConsistent
<1> QED
  BY <1>1, GatewayImplementsDriver, DriverConsistent, PTL

-----------------------------------------------------------------------------
(***************************************************************************)
(* The inductive invariant behind the rest.  A bucket row somebody has     *)
(* seen is still right: its id was handed out, so no later bucket gets it, *)
(* and if an instance of that id is there it is that very row.             *)
(***************************************************************************)
Remembered(c) ==
    /\ c.bucket_id \in minted
    /\ \A b \in buckets : b.bucket_id = c.bucket_id => b = c

\* The same of the state after a step, for a row that is known before it.
RememberedNext(c) ==
    /\ c.bucket_id \in minted'
    /\ \A b \in buckets' : b.bucket_id = c.bucket_id => b = c

\* What an S3 task holds: a bucket that is remembered, and access to it.
HoldsBucket(q) ==
    q.bucket # NoBucket => Remembered(q.bucket) /\ verify_bucket_access(q.user, q.bucket)

\* What an admin task holds: listed buckets and the one it purges, all remembered.
HoldsListing(q) ==
    /\ \A c \in q.listed \cup q.todo : Remembered(c)
    /\ q.bucket # NoInstance => Remembered(q.bucket)

Snapshots ==
    /\ \A b \in buckets : Remembered(b)
    /\ \A r \in S3Req : HoldsBucket(s3[r])
    /\ \A a \in AdminReq : HoldsListing(adm[a])

LEMMA InitSnapshots == Init => Snapshots
<1> SUFFICES ASSUME Init PROVE Snapshots
  OBVIOUS
<1>1. \A b \in buckets : Remembered(b)
  BY SeedAssumption DEF Init, DriverInit, S3Init, Remembered
<1>2. \A r \in S3Req : HoldsBucket(s3[r])
  BY DEF Init, S3Init, Idle, HoldsBucket
<1>3. \A a \in AdminReq : HoldsListing(adm[a])
  BY DEF Init, AdminInit, AdminIdle, HoldsListing
<1> QED
  BY <1>1, <1>2, <1>3 DEF Snapshots

\* No admin operation adds a bucket.
LEMMA AdminAddsNoBucket == AdminNext => buckets' \subseteq buckets
  BY ZenonT(40) DEF AdminNext, AdminStart, AdminCancel, AdminServe, AdminProceed, LoadUser, CheckEmail,
         CheckKey, GenerateKey, StoreUser, OwnsAny, ListBuckets, ListStats, LoadInstance,
         ListObjects, PurgeObject, RemoveBucket, RemoveUser, AdminCallFails, store, store_user,
         remove_user, remove_bucket, delete_object

\* Only create_bucket adds a bucket row, and with an id nobody had before.
LEMMA NewBucketsAreFresh ==
    ASSUME Next
    PROVE  /\ minted \subseteq minted'
           /\ \A b \in buckets' \ buckets : b.bucket_id \in minted' \ minted
<1>1. ASSUME NEW r \in S3Req, CreateBucket(r)
      PROVE  /\ minted \subseteq minted'
             /\ \A b \in buckets' \ buckets : b.bucket_id \in minted' \ minted
  BY <1>1 DEF CreateBucket, NewIds, create_bucket
<1>2. ASSUME NEW r \in S3Req,
             \/ \E c \in S3Call : Authenticate(r, c)
             \/ Cancel(r) \/ CountOwned(r) \/ WhoseBucket(r) \/ LoadBucketFor(r)
             \/ DeleteBucket(r) \/ ReadBucket(r) \/ PutObject(r) \/ GetObject(r)
             \/ HeadForSize(r) \/ HeadObject(r) \/ DeleteObject(r) \/ DeleteMulti(r)
             \/ CallFails(r)
      PROVE  buckets' \subseteq buckets /\ minted' = minted
  BY <1>2 DEF Authenticate, Cancel, CountOwned, WhoseBucket, LoadBucketFor, DeleteBucket,
              ReadBucket, PutObject, GetObject, HeadForSize, HeadObject, DeleteObject,
              DeleteMulti, CallFails, store, remove_bucket, put_object, delete_object
<1>3. ASSUME AdminNext
      PROVE  buckets' \subseteq buckets
  BY <1>3, AdminAddsNoBucket
<1> QED
  BY <1>1, <1>2, <1>3 DEF Next, S3Next, Serve, Proceed

\* What is remembered stays so.
LEMMA RememberedStays ==
    ASSUME Next
    PROVE  \A c : Remembered(c) => RememberedNext(c)
  BY NewBucketsAreFresh DEF Remembered, RememberedNext

\* A bucket that is gone stays gone: its id is not handed out again.
LEMMA GoneStaysGone ==
    ASSUME Next
    PROVE  \A c : Remembered(c) /\ c \notin buckets => c \notin buckets'
  BY NewBucketsAreFresh DEF Remembered

\* Every stored bucket is remembered.
LEMMA StoredAreRemembered ==
    ASSUME Types, StoreConsistent, Next, \A b \in buckets : Remembered(b)
    PROVE  \A b \in buckets' : RememberedNext(b)
<1>1. BucketNamesOneInstance'
  BY StepTypes, DriverStepConsistent DEF Types, StoreConsistent
<1>2. ASSUME NEW b \in buckets' PROVE b.bucket_id \in minted'
  <2>1. CASE b \in buckets
    BY <2>1, NewBucketsAreFresh DEF Remembered
  <2>2. CASE b \notin buckets
    BY <2>2, NewBucketsAreFresh
  <2> QED
    BY <2>1, <2>2
<1> QED
  BY <1>1, <1>2 DEF RememberedNext, BucketNamesOneInstance

-----------------------------------------------------------------------------
\* How a step leaves the bucket and user a task holds.
SameBucket(q, p) == p.bucket = q.bucket /\ p.user = q.user

FoundBucket(p) == p.bucket \in buckets /\ verify_bucket_access(p.user, p.bucket)

LEMMA AdvanceTask ==
    ASSUME S3TypeOK, NEW r \in S3Req, NEW q, Advance(r, q)
    PROVE  s3'[r] = q /\ \A t \in S3Req : t # r => s3'[t] = s3[t]
  BY DEF S3TypeOK, Advance

LEMMA AnsweredKeeps ==
    ASSUME NEW q \in Request, NEW reply
    PROVE  SameBucket(q, Answered(q, reply))
  BY DEF Answered, SameBucket, Request

\* A request enters, or is refused, with no bucket.
LEMMA AcceptedHoldsNone ==
    ASSUME NEW c
    PROVE  Accepted(c).bucket = NoBucket /\ \A code : Refused(c, code).bucket = NoBucket
<1>1. ASSUME NEW code PROVE Refused(c, code).bucket = NoBucket
  BY DEF Refused, Answered, Idle
<1>2. ASSUME NEW user, NEW pc PROVE Entered(c, user, pc).bucket = NoBucket
  BY DEF Entered, Idle
<1>3. ASSUME NEW user PROVE Handler(c, user).bucket = NoBucket
  BY <1>1, <1>2 DEF Handler
<1> QED
  BY <1>1, <1>3 DEF Accepted

\* Every S3 step keeps the task's bucket and user, drops them, or finds a bucket with access.
LEMMA S3TaskSteps ==
    ASSUME S3TypeOK, NEW r \in S3Req,
           (\E c \in S3Call : Authenticate(r, c)) \/ Serve(r) \/ Cancel(r)
    PROVE  /\ \A t \in S3Req : t # r => s3'[t] = s3[t]
           /\ s3'[r].bucket = NoBucket \/ SameBucket(s3[r], s3'[r]) \/ FoundBucket(s3'[r])
<1>1. s3[r] \in Request
  BY DEF S3TypeOK
<1>2. CASE \E c \in S3Call : Authenticate(r, c)
  BY <1>2, AdvanceTask, AcceptedHoldsNone DEF Authenticate
<1>3. CASE Cancel(r)
  BY <1>3, AdvanceTask DEF Cancel, Idle
<1>4. ASSUME \E code : Finish(r, code)
      PROVE  (\A t \in S3Req : t # r => s3'[t] = s3[t]) /\ SameBucket(s3[r], s3'[r])
  BY <1>1, <1>4, AdvanceTask, AnsweredKeeps DEF Finish
<1>5. ASSUME \E code, size, range : FinishObject(r, code, size, range)
      PROVE  (\A t \in S3Req : t # r => s3'[t] = s3[t]) /\ SameBucket(s3[r], s3'[r])
  BY <1>1, <1>5, AdvanceTask, AnsweredKeeps DEF FinishObject
<1>6. ASSUME NEW pc, Goto(r, pc)
      PROVE  (\A t \in S3Req : t # r => s3'[t] = s3[t]) /\ SameBucket(s3[r], s3'[r])
  BY <1>1, <1>6, AdvanceTask DEF Goto, SameBucket, Request
<1>7. CASE WhoseBucket(r) \/ DeleteBucket(r) \/ ReadBucket(r) \/ PutObject(r) \/ DeleteObject(r)
  BY <1>7, <1>4 DEF WhoseBucket, DeleteBucket, ReadBucket, PutObject, DeleteObject
<1>8. CASE GetObject(r) \/ HeadForSize(r) \/ HeadObject(r)
  BY <1>8, <1>4, <1>5, <1>6 DEF GetObject, HeadForSize, HeadObject
<1>9. CASE CreateBucket(r)
  BY <1>9, <1>4, <1>6 DEF CreateBucket
<1>10. CASE CountOwned(r)
  <2> DEFINE page == list_buckets(Some(s3[r].user.user_id), s3[r].marker, PageSize)
             q    == [s3[r] EXCEPT !.owned = s3[r].owned \cup page.entries]
  <2>1. \/ Advance(r, Answered(q, Answer("TooManyBuckets")))
        \/ Advance(r, [q EXCEPT !.marker = NextMarker(page)])
        \/ Advance(r, Answered(q, Answer("Ok")))
        \/ Advance(r, [q EXCEPT !.pc = "create"])
    BY <1>10 DEF CountOwned
  <2> HIDE DEF page
  <2>2. \A reply : SameBucket(s3[r], Answered(q, reply))
    BY <1>1 DEF SameBucket, Answered, Request
  <2>3. /\ SameBucket(s3[r], [q EXCEPT !.marker = NextMarker(page)])
        /\ SameBucket(s3[r], [q EXCEPT !.pc = "create"])
    BY <1>1 DEF SameBucket, Request
  <2> HIDE DEF q
  <2> QED
    BY <2>1, <2>2, <2>3, AdvanceTask
<1>11. CASE LoadBucketFor(r)
  <2> DEFINE c == s3[r].call
             b == load_bucket(c.name)
             q == [s3[r] EXCEPT !.pc = c.op, !.bucket = b]
  <2>1. \/ \E code : Finish(r, code)
        \/ HasBucket(c.name) /\ verify_bucket_access(s3[r].user, b) /\ Advance(r, q)
    BY <1>11 DEF LoadBucketFor
  <2>2. CASE HasBucket(c.name) /\ verify_bucket_access(s3[r].user, b) /\ Advance(r, q)
    <3>1. b \in buckets
      BY <2>2, LoadBucketType
    <3>2. q.bucket = b /\ q.user = s3[r].user
      BY <1>1 DEF Request
    <3> HIDE DEF b, q
    <3>3. FoundBucket(q)
      BY <2>2, <3>1, <3>2 DEF FoundBucket
    <3> QED
      BY <2>2, <3>3, AdvanceTask
  <2> QED
    BY <2>1, <2>2, <1>4
<1>12. ASSUME s3[r].pc = "delete_multi", NEW result \in ReplyCode,
             NextKey(r, BatchAfter(s3[r], result))
      PROVE  (\A t \in S3Req : t # r => s3'[t] = s3[t]) /\ SameBucket(s3[r], s3'[r])
  <2> DEFINE after == BatchAfter(s3[r], result)
  <2>1. Advance(r, IF after.todo # <<>> THEN after ELSE Answered(after, Answer("Ok")))
    BY <1>12 DEF NextKey
  <2>2. SameBucket(s3[r], after) /\ after \in Request
    <3>1. s3[r].todo # <<>>
      BY <1>12 DEF S3TypeOK, RequestOK
    <3> QED
      BY <1>1, <1>12, <3>1, BatchAfterType DEF SameBucket
  <2> HIDE DEF after
  <2>3. SameBucket(s3[r], Answered(after, Answer("Ok")))
    BY <2>2, AnsweredKeeps DEF SameBucket
  <2> QED
    BY <2>1, <2>2, <2>3, AdvanceTask
<1>13. CASE DeleteMulti(r)
  <2>1. DeleteObjectResult(TargetId(r), Head(s3[r].todo)) \in ReplyCode
    BY DEF DeleteObjectResult, LoadObjectResult, ReplyCode
  <2> QED
    BY <1>12, <1>13, <2>1 DEF DeleteMulti
<1>14. CASE CallFails(r)
  BY <1>4, <1>12, <1>14 DEF CallFails, ReplyCode
<1> QED
  BY <1>2, <1>3, <1>7, <1>8, <1>9, <1>10, <1>11, <1>13, <1>14 DEF Serve, Proceed

\* So what S3 tasks hold is still right after the step.
LEMMA S3Snapshots ==
    ASSUME Types, Snapshots, Next, S3Next
    PROVE  \A t \in S3Req : HoldsBucket(s3[t])'
<1>1. PICK r \in S3Req : (\E c \in S3Call : Authenticate(r, c)) \/ Serve(r) \/ Cancel(r)
  BY DEF S3Next
<1>2. /\ \A t \in S3Req : t # r => s3'[t] = s3[t]
      /\ s3'[r].bucket = NoBucket \/ SameBucket(s3[r], s3'[r]) \/ FoundBucket(s3'[r])
  BY <1>1, S3TaskSteps DEF Types
<1> SUFFICES ASSUME NEW t \in S3Req, s3'[t].bucket # NoBucket
             PROVE  RememberedNext(s3'[t].bucket) /\ verify_bucket_access(s3'[t].user, s3'[t].bucket)
  BY DEF HoldsBucket, Remembered, RememberedNext, verify_bucket_access
<1>3. CASE SameBucket(s3[t], s3'[t])
  BY <1>3, RememberedStays DEF SameBucket, Snapshots, HoldsBucket
<1>4. CASE FoundBucket(s3'[t])
  BY <1>4, RememberedStays DEF FoundBucket, Snapshots
<1> QED
  BY <1>2, <1>3, <1>4 DEF SameBucket

-----------------------------------------------------------------------------
\* What an admin task holds after a step it held before, or has just read from the store.
KnownOnly(q, p) ==
    /\ p.listed \subseteq q.listed \cup buckets
    /\ p.todo \subseteq q.listed \cup q.todo \cup buckets
    /\ p.bucket \in {NoInstance, q.bucket} \cup q.listed \cup q.todo \cup buckets

LEMMA BecomeTask ==
    ASSUME AdminTypeOK, NEW a \in AdminReq, NEW q, Become(a, q)
    PROVE  adm'[a] = q /\ \A t \in AdminReq : t # a => adm'[t] = adm[t]
  BY DEF AdminTypeOK, Become

LEMMA EndedHoldsNone ==
    ASSUME NEW q, NEW c
    PROVE  (\A rc : KnownOnly(q, Ended(c, rc))) /\ KnownOnly(q, Begun(c))
<1>1. ASSUME NEW rc PROVE KnownOnly(q, Ended(c, rc))
  BY DEF KnownOnly, Ended, AdminIdle
<1>2. ASSUME NEW pc PROVE KnownOnly(q, [AdminIdle EXCEPT !.call = c, !.pc = pc])
  BY DEF KnownOnly, AdminIdle
<1>3. ASSUME NEW info, NEW pc
      PROVE  KnownOnly(q, [AdminIdle EXCEPT !.call = c, !.info = info, !.pc = pc])
  BY DEF KnownOnly, AdminIdle
<1>4. KnownOnly(q, Begun(c))
  <2>1. CASE Malformed(c)
    BY <2>1, <1>1 DEF Begun, Malformed
  <2>2. CASE ~Malformed(c) /\ c.op = "user_create"
    BY <2>2, <1>3 DEF Begun, Malformed
  <2>3. CASE ~Malformed(c) /\ c.op = "bucket_list"
    BY <2>3, <1>2 DEF Begun, Malformed
  <2>4. CASE ~Malformed(c) /\ c.op \in {"bucket_info", "bucket_remove"}
    <3>1. Begun(c) = [AdminIdle EXCEPT !.call = c,
                         !.pc = IF c.op = "bucket_info" \/ c.purge THEN "load_bucket"
                                ELSE "remove_bucket"]
      BY <2>4 DEF Begun, Malformed
    <3> QED
      BY <3>1, <1>2
  <2>5. CASE ~Malformed(c) /\ c.op \notin {"user_create", "bucket_list", "bucket_info", "bucket_remove"}
    BY <2>5, <1>2 DEF Begun, Malformed
  <2> QED
    BY <2>1, <2>2, <2>3, <2>4, <2>5
<1> QED
  BY <1>1, <1>4

LEMMA NextBucketKnown ==
    ASSUME NEW q \in AdminRequest, NEW p \in AdminRequest, p.listed \subseteq q.listed \cup buckets,
           NEW todo \in SUBSET BucketInfo, todo \subseteq q.listed \cup q.todo \cup buckets
    PROVE  KnownOnly(q, NextBucket(p, todo))
<1>1. CASE todo = {}
  BY <1>1 DEF NextBucket, KnownOnly, AdminRequest
<1>2. CASE todo # {}
  <2>1. First(todo) \in todo
    BY <1>2, FirstType
  <2> QED
    BY <1>2, <2>1 DEF NextBucket, KnownOnly, AdminRequest
<1> QED
  BY <1>1, <1>2

LEMMA AdminTaskSteps ==
    ASSUME TypeOK, AdminTypeOK, NEW a \in AdminReq,
           (\E c \in AdminCall : AdminStart(a, c)) \/ AdminServe(a) \/ AdminCancel(a)
    PROVE  /\ \A t \in AdminReq : t # a => adm'[t] = adm[t]
           /\ KnownOnly(adm[a], adm'[a])
<1>1. adm[a] \in AdminRequest
  BY DEF AdminTypeOK
<1>2. CASE \E c \in AdminCall : AdminStart(a, c)
  <2>1. PICK c \in AdminCall : AdminStart(a, c)
    BY <1>2
  <2>2. Become(a, Begun(c)) \/ \E rc : Become(a, Ended(c, rc))
    BY <2>1 DEF AdminStart
  <2> QED
    BY <2>2, BecomeTask, EndedHoldsNone, ZenonT(40)
<1>3. CASE AdminCancel(a)
  BY <1>3, BecomeTask DEF AdminCancel, AdminIdle, KnownOnly
<1>4. ASSUME \E rc : AdminFinish(a, rc)
      PROVE  (\A t \in AdminReq : t # a => adm'[t] = adm[t]) /\ KnownOnly(adm[a], adm'[a])
  <2>1. PICK rc : AdminFinish(a, rc)
    BY <1>4
  <2> DEFINE q == [adm[a] EXCEPT !.pc = "done", !.reply = rc]
  <2>2. KnownOnly(adm[a], q)
    BY <1>1 DEF KnownOnly, AdminRequest
  <2>3. Become(a, q)
    BY <2>1 DEF AdminFinish
  <2> HIDE DEF q
  <2> QED
    BY <2>2, <2>3, BecomeTask
<1>5. ASSUME NEW q, Become(a, q), KnownOnly(adm[a], q)
      PROVE  (\A t \in AdminReq : t # a => adm'[t] = adm[t]) /\ KnownOnly(adm[a], adm'[a])
  BY <1>5, BecomeTask
<1>6. CASE LoadUser(a)
  <2>1. \/ \E rc : AdminFinish(a, rc)
        \/ \E pc : Become(a, [adm[a] EXCEPT !.pc = pc])
        \/ \E info, pc : Become(a, [adm[a] EXCEPT !.info = info, !.pc = pc])
    BY <1>6, Zenon DEF LoadUser
  <2>2. \A pc : KnownOnly(adm[a], [adm[a] EXCEPT !.pc = pc])
    BY <1>1 DEF KnownOnly, AdminRequest
  <2>3. \A info, pc : KnownOnly(adm[a], [adm[a] EXCEPT !.info = info, !.pc = pc])
    BY <1>1 DEF KnownOnly, AdminRequest
  <2> QED
    BY <2>1, <2>2, <2>3, <1>4, <1>5
<1>7. CASE CheckEmail(a) \/ CheckKey(a) \/ GenerateKey(a)
  <2> DEFINE email(e, pc) == [adm[a] EXCEPT !.info.user_email = e, !.pc = pc]
             tried        == [adm[a] EXCEPT !.tries = @ + 1]
  <2>1. \/ \E rc : AdminFinish(a, rc)
        \/ \E e, pc : Become(a, email(e, pc))
        \/ \E k : Become(a, WithKey(adm[a], k))
        \/ Become(a, tried)
    BY <1>7 DEF CheckEmail, CheckKey, GenerateKey
  <2>2. \A e, pc : KnownOnly(adm[a], email(e, pc))
    BY <1>1 DEF KnownOnly, AdminRequest
  <2>3. \A k : KnownOnly(adm[a], WithKey(adm[a], k))
    BY <1>1 DEF KnownOnly, AdminRequest, WithKey
  <2>4. KnownOnly(adm[a], tried)
    BY <1>1 DEF KnownOnly, AdminRequest
  <2> HIDE DEF email, tried
  <2> QED
    BY <2>1, <2>2, <2>3, <2>4, <1>4, <1>5
<1>8. CASE StoreUser(a) \/ RemoveUser(a)
  BY <1>8, <1>4 DEF StoreUser, RemoveUser
<1>9. CASE OwnsAny(a)
  <2>1. KnownOnly(adm[a], [adm[a] EXCEPT !.pc = "remove_user"])
    BY <1>1 DEF KnownOnly, AdminRequest
  <2> QED
    BY <1>9, <2>1, <1>4, <1>5 DEF OwnsAny
<1>10. CASE ListBuckets(a)
  <2> DEFINE q      == adm[a]
             page   == list_buckets(ListedOwner(q.call), q.marker, PageSize)
             listed == q.listed \cup page.entries
             next   == page.next_marker
  <2>1. \/ \E rc : AdminFinish(a, rc)
        \/ Become(a, [q EXCEPT !.listed = listed, !.marker = next])
        \/ Become(a, NextBucket([q EXCEPT !.listed = listed], listed))
        \/ Become(a, [q EXCEPT !.listed = listed, !.todo = listed, !.pc = "stats"])
    BY <1>10 DEF ListBuckets
  <2>2. page.entries \subseteq buckets /\ buckets \subseteq BucketInfo
    BY BucketPageType DEF TypeOK
  <2> HIDE DEF page
  <2>3. listed \subseteq q.listed \cup buckets /\ listed \in SUBSET BucketInfo
    BY <1>1, <2>2 DEF AdminRequest
  <2> HIDE DEF listed, next
  <2>4. /\ KnownOnly(q, [q EXCEPT !.listed = listed, !.marker = next])
        /\ KnownOnly(q, [q EXCEPT !.listed = listed, !.todo = listed, !.pc = "stats"])
    BY <1>1, <2>3 DEF KnownOnly, AdminRequest
  <2>5. [q EXCEPT !.listed = listed] \in AdminRequest /\ [q EXCEPT !.listed = listed].listed = listed
    BY <1>1, <2>3 DEF AdminRequest
  <2>6. KnownOnly(q, NextBucket([q EXCEPT !.listed = listed], listed))
    BY <1>1, <2>3, <2>5, NextBucketKnown
  <2> QED
    BY <2>1, <2>4, <2>6, <1>4, <1>5
<1>11. CASE ListStats(a)
  <2> DEFINE b == First(adm[a].todo)
  <2>1. (\E rc : AdminFinish(a, rc)) \/ Become(a, [adm[a] EXCEPT !.todo = @ \ {b}])
    BY <1>11 DEF ListStats
  <2> HIDE DEF b
  <2>2. KnownOnly(adm[a], [adm[a] EXCEPT !.todo = @ \ {b}])
    BY <1>1 DEF KnownOnly, AdminRequest
  <2> QED
    BY <2>1, <2>2, <1>4, <1>5
<1>12. CASE LoadInstance(a)
  <2> DEFINE b == load_bucket(adm[a].call.name)
  <2>1. \/ \E rc : AdminFinish(a, rc)
        \/ /\ HasBucket(adm[a].call.name)
           /\ \/ Become(a, [adm[a] EXCEPT !.todo = {b}, !.pc = "stats"])
              \/ Become(a, [adm[a] EXCEPT !.bucket = b, !.pc = "list_objects"])
    BY <1>12 DEF LoadInstance
  <2>2. HasBucket(adm[a].call.name) => b \in buckets
    BY LoadBucketType
  <2> HIDE DEF b
  <2>3. b \in buckets => /\ KnownOnly(adm[a], [adm[a] EXCEPT !.todo = {b}, !.pc = "stats"])
                         /\ KnownOnly(adm[a], [adm[a] EXCEPT !.bucket = b, !.pc = "list_objects"])
    BY <1>1 DEF KnownOnly, AdminRequest
  <2> QED
    BY <2>1, <2>2, <2>3, <1>4, <1>5
<1>13. ASSUME NEW p \in AdminRequest, KnownOnly(adm[a], p)
       PROVE  KnownOnly(adm[a], PageDone(p))
  BY <1>13 DEF PageDone, KnownOnly, AdminRequest
<1>14. CASE ListObjects(a)
  <2> DEFINE page  == list_objects(adm[a].bucket.bucket_id, adm[a].marker, PageSize)
             names == {o.name : o \in page.entries}
             q     == [adm[a] EXCEPT !.page = names, !.next = page.next_marker,
                                     !.more = page.is_truncated]
  <2>1. \/ \E rc : AdminFinish(a, rc)
        \/ Become(a, IF q.page = {} THEN PageDone(q) ELSE [q EXCEPT !.pc = "delete_object"])
    BY <1>14 DEF ListObjects
  <2>2. /\ page.entries \subseteq ObjectInfo /\ page.next_marker \in Nat
        /\ page.is_truncated \in BOOLEAN
    BY ObjectPageType DEF TypeOK
  <2> HIDE DEF page
  <2>3. names \in SUBSET ObjectName
    BY <2>2 DEF ObjectInfo
  <2> HIDE DEF names
  <2>4. q \in AdminRequest /\ KnownOnly(adm[a], q)
    BY <1>1, <2>2, <2>3 DEF AdminRequest, KnownOnly
  <2> HIDE DEF q
  <2>5. KnownOnly(adm[a], [q EXCEPT !.pc = "delete_object"])
    BY <2>4 DEF KnownOnly, AdminRequest
  <2> QED
    BY <2>1, <2>4, <2>5, <1>4, <1>5, <1>13
<1>15. CASE PurgeObject(a)
  <2> DEFINE name == CHOOSE n \in adm[a].page : \A m \in adm[a].page : n <= m
             q    == [adm[a] EXCEPT !.page = @ \ {name}]
  <2>1. \/ \E rc : AdminFinish(a, rc)
        \/ Become(a, IF q.page = {} THEN PageDone(q) ELSE q)
    BY <1>15 DEF PurgeObject
  <2> HIDE DEF name
  <2>2. q \in AdminRequest /\ KnownOnly(adm[a], q)
    BY <1>1 DEF AdminRequest, KnownOnly
  <2> HIDE DEF q
  <2> QED
    BY <2>1, <2>2, <1>4, <1>5, <1>13
<1>16. CASE RemoveBucket(a)
  <2>1. \/ \E rc : AdminFinish(a, rc)
        \/ Become(a, NextBucket(adm[a], adm[a].todo \ {adm[a].bucket}))
    BY <1>16 DEF RemoveBucket
  <2>2. adm[a].todo \ {adm[a].bucket} \in SUBSET BucketInfo
    BY <1>1 DEF AdminRequest
  <2>3. KnownOnly(adm[a], NextBucket(adm[a], adm[a].todo \ {adm[a].bucket}))
    BY <1>1, <2>2, NextBucketKnown
  <2> QED
    BY <2>1, <2>3, <1>4, <1>5
<1>17. CASE AdminCallFails(a)
  BY <1>4, <1>17 DEF AdminCallFails
<1> QED
  BY <1>2, <1>3, <1>6, <1>7, <1>8, <1>9, <1>10, <1>11, <1>12, <1>14, <1>15, <1>16, <1>17
     DEF AdminServe, AdminProceed

\* So what admin tasks hold is still right after the step.
LEMMA AdminSnapshots ==
    ASSUME Types, Snapshots, Next, AdminNext
    PROVE  \A t \in AdminReq : HoldsListing(adm[t])'
<1>1. PICK a \in AdminReq : (\E c \in AdminCall : AdminStart(a, c)) \/ AdminServe(a) \/ AdminCancel(a)
  BY DEF AdminNext
<1>2. (\A t \in AdminReq : t # a => adm'[t] = adm[t]) /\ KnownOnly(adm[a], adm'[a])
  BY <1>1, AdminTaskSteps DEF Types
<1> SUFFICES ASSUME NEW t \in AdminReq
             PROVE  /\ \A c \in adm'[t].listed \cup adm'[t].todo : RememberedNext(c)
                    /\ adm'[t].bucket # NoInstance => RememberedNext(adm'[t].bucket)
  BY DEF HoldsListing, Remembered, RememberedNext
<1>3. /\ \A c \in adm[t].listed \cup adm[t].todo \cup buckets : RememberedNext(c)
      /\ adm[t].bucket # NoInstance => RememberedNext(adm[t].bucket)
  BY RememberedStays DEF Snapshots, HoldsListing
<1>4. KnownOnly(adm[t], adm'[t])
  BY <1>2 DEF KnownOnly
<1> QED
  BY <1>3, <1>4 DEF KnownOnly

LEMMA StepSnapshots ==
    Types /\ StoreConsistent /\ Snapshots /\ [Next]_vars => Snapshots'
<1> SUFFICES ASSUME Types, StoreConsistent, Snapshots, [Next]_vars PROVE Snapshots'
  OBVIOUS
<1>1. CASE UNCHANGED vars
  <2>1. UNCHANGED <<buckets, s3, minted, adm>>
    BY <1>1 DEF vars, store
  <2> QED
    BY <2>1 DEF Snapshots, HoldsBucket, HoldsListing, Remembered, verify_bucket_access
<1>2. CASE Next
  <2>1. (\A b \in buckets : Remembered(b))'
    BY <1>2, StoredAreRemembered DEF Snapshots, Remembered, RememberedNext
  <2>2. (\A r \in S3Req : HoldsBucket(s3[r]))'
    <3>1. CASE S3Next
      BY <1>2, <3>1, S3Snapshots
    <3>2. CASE UNCHANGED s3
      BY <1>2, <3>2, RememberedStays
         DEF Snapshots, HoldsBucket, Remembered, RememberedNext, verify_bucket_access
    <3> QED
      BY <1>2, <3>1, <3>2 DEF Next
  <2>3. (\A a \in AdminReq : HoldsListing(adm[a]))'
    <3>1. CASE AdminNext
      BY <1>2, <3>1, AdminSnapshots
    <3>2. CASE UNCHANGED adm
      BY <1>2, <3>2, RememberedStays DEF Snapshots, HoldsListing, Remembered, RememberedNext
    <3> QED
      BY <1>2, <3>1, <3>2 DEF Next
  <2> QED
    BY <2>1, <2>2, <2>3 DEF Snapshots
<1> QED
  BY <1>1, <1>2

\* Everything that is proved to hold in every reachable state.
GatewayInv == Types /\ StoreConsistent /\ Snapshots

LEMMA GatewayInvariant == Spec => []GatewayInv
<1>1. Init => GatewayInv
  BY InitTypes, InitSnapshots DEF GatewayInv
<1>2. GatewayInv /\ [Next]_vars => GatewayInv'
  BY StepTypes, DriverStepConsistent, StepSnapshots DEF GatewayInv, Types
<1> QED
  BY <1>1, <1>2, PTL DEF Spec

(***************************************************************************)
(* The bucket a request acts on is, while it exists, the one its access    *)
(* check was about, whatever happens to the name in between.               *)
(***************************************************************************)
THEOREM BucketStaysAuthorised == Spec => []LoadedBucketStaysAuthorised
<1>1. GatewayInv => LoadedBucketStaysAuthorised
  BY DEF GatewayInv, Snapshots, HoldsBucket, Remembered, LoadedBucketStaysAuthorised
<1> QED
  BY <1>1, GatewayInvariant, PTL

-----------------------------------------------------------------------------
\* An object call changes rows of one bucket only, and only while that bucket exists.
ChangesOnly(id) ==
    \A o \in (objects \ objects') \cup (objects' \ objects) :
        check_bucket(id) /\ o.bucket_id = id

LEMMA ObjectCallsAreLocal ==
    /\ \A info : put_object(info) => ChangesOnly(info.bucket_id)
    /\ \A id, name : delete_object(id, name) => ChangesOnly(id)
  BY DEF put_object, PutObjectResult, ReplaceObject, delete_object, ChangesOnly

\* The handlers and the purge that change objects, and the instance they work on.
LEMMA ObjectWriters ==
    ASSUME Types, Next
    PROVE  \/ objects' = objects
           \/ \E r \in S3Req : /\ s3[r].bucket # NoBucket /\ s3'[r] # s3[r]
                               /\ ChangesOnly(s3[r].bucket.bucket_id)
           \/ \E a \in AdminReq : /\ adm[a].bucket # NoInstance /\ adm'[a] # adm[a]
                                  /\ ChangesOnly(adm[a].bucket.bucket_id)
<1>1. ASSUME NEW r \in S3Req, PutObject(r) \/ DeleteObject(r)
      PROVE  s3[r].bucket # NoBucket /\ s3'[r] # s3[r] /\ ChangesOnly(s3[r].bucket.bucket_id)
  <2>1. s3[r] \in Request /\ s3[r].pc \in {"put_object", "delete_object"} /\ RequestOK(s3[r])
    BY <1>1 DEF Types, S3TypeOK, PutObject, DeleteObject
  <2>2. PICK code : Finish(r, code)
    BY <1>1 DEF PutObject, DeleteObject
  <2>3. s3'[r].pc = "done"
    <3>1. s3'[r] = Answered(s3[r], Answer(code))
      BY <2>2, AdvanceTask DEF Finish, Types
    <3> QED
      BY <2>1, <3>1 DEF Answered, Request
  <2>4. CASE PutObject(r)
    <3>1. PICK name, owner, data :
             put_object([bucket_id |-> TargetId(r), name |-> name, owner |-> owner, data |-> data])
      BY <2>4 DEF PutObject
    <3> QED
      BY <2>1, <2>3, <3>1, ObjectCallsAreLocal DEF TargetId, RequestOK, OnBucket
  <2>5. CASE DeleteObject(r)
    BY <2>1, <2>3, <2>5, ObjectCallsAreLocal DEF DeleteObject, TargetId, RequestOK, OnBucket
  <2> QED
    BY <1>1, <2>4, <2>5
<1>2. ASSUME NEW r \in S3Req, DeleteMulti(r)
      PROVE  s3[r].bucket # NoBucket /\ s3'[r] # s3[r] /\ ChangesOnly(s3[r].bucket.bucket_id)
  <2> DEFINE key   == Head(s3[r].todo)
             result == DeleteObjectResult(TargetId(r), key)
             after == BatchAfter(s3[r], result)
  <2>1. s3[r] \in Request /\ s3[r].pc = "delete_multi" /\ RequestOK(s3[r])
    BY <1>2 DEF Types, S3TypeOK, DeleteMulti
  <2>2. /\ delete_object(TargetId(r), key)
        /\ Advance(r, IF after.todo # <<>> THEN after ELSE Answered(after, Answer("Ok")))
    BY <1>2 DEF DeleteMulti, NextKey
  <2>3. after.todo # s3[r].todo /\ after \in Request
    <3>1. s3[r].todo # <<>> /\ s3[r].todo \in Seq(ObjectName)
      BY <2>1 DEF RequestOK, Request
    <3>2. result \in ReplyCode
      BY DEF DeleteObjectResult, LoadObjectResult, ReplyCode
    <3>3. after.todo = Tail(s3[r].todo) /\ after \in Request
      BY <2>1, <3>1, <3>2, BatchAfterType
    <3>4. ASSUME NEW keys \in Seq(ObjectName), keys # <<>> PROVE Tail(keys) # keys
      <4>1. Len(keys) \in Nat /\ Len(Tail(keys)) = Len(keys) - 1
        BY <3>4
      <4>2. ASSUME Tail(keys) = keys PROVE Len(keys) = Len(keys) - 1
        BY <4>1, <4>2, Zenon
      <4> QED
        BY <4>1, <4>2, Len(keys) # Len(keys) - 1
    <3> QED
      BY <3>1, <3>3, <3>4
  <2> HIDE DEF after
  <2>4. Answered(after, Answer("Ok")).todo = after.todo
    BY <2>3 DEF Answered, Request
  <2>5. s3'[r] # s3[r]
    BY <2>2, <2>3, <2>4, AdvanceTask DEF Types
  <2> QED
    BY <2>1, <2>2, <2>5, ObjectCallsAreLocal DEF TargetId, RequestOK, OnBucket
<1>3. ASSUME NEW a \in AdminReq, PurgeObject(a)
      PROVE  adm[a].bucket # NoInstance /\ adm'[a] # adm[a]
                /\ ChangesOnly(adm[a].bucket.bucket_id)
  <2> DEFINE name == CHOOSE n \in adm[a].page : \A m \in adm[a].page : n <= m
             q    == [adm[a] EXCEPT !.page = @ \ {name}]
  <2>1. /\ adm[a] \in AdminRequest /\ AdminRequestOK(adm[a]) /\ adm[a].pc = "delete_object"
    BY <1>3 DEF Types, AdminTypeOK, PurgeObject
  <2>2. adm[a].page \subseteq ObjectName /\ adm[a].page # {} /\ adm[a].bucket # NoInstance
    BY <2>1 DEF AdminRequest, AdminRequestOK
  <2>3. name \in adm[a].page
    BY <2>2, NextNameType
  <2>4. /\ delete_object(adm[a].bucket.bucket_id, name)
        /\ \/ AdminFinish(a, "NoSuchBucket")
           \/ Become(a, IF q.page = {} THEN PageDone(q) ELSE q)
    BY <1>3 DEF PurgeObject, PurgeTarget
  <2> HIDE DEF name
  <2>5. q.page # adm[a].page /\ q \in AdminRequest
    BY <2>1, <2>3 DEF AdminRequest
  <2> HIDE DEF q
  <2>6. PageDone(q).page = q.page
    BY <2>5 DEF PageDone, AdminRequest
  <2>7. adm'[a] # adm[a]
    <3>1. ASSUME AdminFinish(a, "NoSuchBucket") PROVE adm'[a] # adm[a]
      <4>1. adm'[a] = [adm[a] EXCEPT !.pc = "done", !.reply = "NoSuchBucket"]
        BY <3>1, BecomeTask DEF AdminFinish, Types
      <4> QED
        BY <2>1, <4>1 DEF AdminRequest
    <3>2. ASSUME Become(a, IF q.page = {} THEN PageDone(q) ELSE q) PROVE adm'[a] # adm[a]
      BY <2>5, <2>6, <3>2, BecomeTask DEF Types
    <3> QED
      BY <2>4, <3>1, <3>2
  <2> QED
    BY <2>2, <2>4, <2>7, ObjectCallsAreLocal
<1>4. ASSUME NEW r \in S3Req,
             \/ \E c \in S3Call : Authenticate(r, c)
             \/ Cancel(r) \/ CountOwned(r) \/ CreateBucket(r) \/ WhoseBucket(r)
             \/ LoadBucketFor(r) \/ DeleteBucket(r) \/ ReadBucket(r) \/ GetObject(r)
             \/ HeadForSize(r) \/ HeadObject(r) \/ CallFails(r)
      PROVE  objects' = objects
  BY <1>4 DEF Authenticate, Cancel, CountOwned, CreateBucket, create_bucket, WhoseBucket,
              LoadBucketFor, DeleteBucket, remove_bucket, ReadBucket, GetObject, HeadForSize,
              HeadObject, CallFails, store
<1>5. ASSUME NEW a \in AdminReq,
             \/ \E c \in AdminCall : AdminStart(a, c)
             \/ AdminCancel(a) \/ LoadUser(a) \/ CheckEmail(a) \/ CheckKey(a) \/ GenerateKey(a)
             \/ StoreUser(a) \/ OwnsAny(a) \/ ListBuckets(a) \/ ListStats(a) \/ LoadInstance(a)
             \/ ListObjects(a) \/ RemoveBucket(a) \/ RemoveUser(a) \/ AdminCallFails(a)
      PROVE  objects' = objects
  BY <1>5 DEF AdminStart, AdminCancel, LoadUser, CheckEmail, CheckKey, GenerateKey, StoreUser,
              store_user, OwnsAny, ListBuckets, ListStats, LoadInstance, ListObjects,
              RemoveBucket, remove_bucket, RemoveUser, remove_user, AdminCallFails, store
<1>6. CASE S3Next
  BY <1>6, <1>1, <1>2, <1>4 DEF S3Next, Serve, Proceed
<1>7. CASE AdminNext
  BY <1>7, <1>3, <1>5 DEF AdminNext, AdminServe, AdminProceed
<1> QED
  BY <1>6, <1>7 DEF Next

(***************************************************************************)
(* Objects are written and deleted only where the requester has access at  *)
(* that moment, or by a purge of that very bucket instance.                *)
(***************************************************************************)
THEOREM WritesStayUnderAccess == Spec => ObjectsChangeUnderAccess
<1> DEFINE Allowed ==
             \A o \in (objects \ objects') \cup (objects' \ objects) :
                \E b \in buckets :
                    /\ b.bucket_id = o.bucket_id
                    /\ \/ \E r \in S3Mover : verify_bucket_access(s3[r].user, b)
                       \/ \E a \in AdminMover : adm[a].bucket = b
<1>1. GatewayInv /\ [Next]_vars => [Allowed]_vars
  <2> SUFFICES ASSUME GatewayInv, Next PROVE Allowed
    OBVIOUS
  <2>1. CASE objects' = objects
    BY <2>1
  <2>2. ASSUME NEW r \in S3Req, s3[r].bucket # NoBucket, s3'[r] # s3[r],
               ChangesOnly(s3[r].bucket.bucket_id)
        PROVE  Allowed
    <3>1. /\ verify_bucket_access(s3[r].user, s3[r].bucket)
          /\ \A b \in buckets : b.bucket_id = s3[r].bucket.bucket_id => b = s3[r].bucket
      BY <2>2 DEF GatewayInv, Snapshots, HoldsBucket, Remembered
    <3>2. r \in S3Mover
      BY <2>2 DEF S3Mover
    <3> QED
      BY <2>2, <3>1, <3>2 DEF ChangesOnly, check_bucket
  <2>3. ASSUME NEW a \in AdminReq, adm[a].bucket # NoInstance, adm'[a] # adm[a],
               ChangesOnly(adm[a].bucket.bucket_id)
        PROVE  Allowed
    <3>1. \A b \in buckets : b.bucket_id = adm[a].bucket.bucket_id => b = adm[a].bucket
      BY <2>3 DEF GatewayInv, Snapshots, HoldsListing, Remembered
    <3>2. a \in AdminMover
      BY <2>3 DEF AdminMover
    <3> QED
      BY <2>3, <3>1, <3>2 DEF ChangesOnly, check_bucket
  <2> QED
    BY <2>1, <2>2, <2>3, ObjectWriters DEF GatewayInv
<1> QED
  BY <1>1, GatewayInvariant, PTL DEF Spec, ObjectsChangeUnderAccess

-----------------------------------------------------------------------------
(***************************************************************************)
(* How far a purge has come, for a set B of buckets: those of its listing  *)
(* that it is done with are not in B.  Inductive together with Snapshots,  *)
(* which keeps a listed bucket that is gone from coming back.              *)
(***************************************************************************)
Purging == {"list_objects", "delete_object", "remove_bucket"}

PurgeOK(q, B) ==
    /\ q.pc = "load_bucket" => q.call.op # "user_remove"
    /\ q.pc = "owns_any" => ~q.call.purge
    /\ q.pc = "remove_user" /\ q.call.purge => q.listed \cap B = {}
    /\ q.pc \in Purging /\ q.call.op = "user_remove" => (q.listed \ q.todo) \cap B = {}

LEMMA NextBucketPurge ==
    ASSUME NEW q \in AdminRequest, NEW todo \in SUBSET BucketInfo, NEW B,
           (q.listed \ todo) \cap B = {}
    PROVE  PurgeOK(NextBucket(q, todo), B)
<1>1. CASE todo = {}
  BY <1>1 DEF NextBucket, PurgeOK, Purging, AdminRequest
<1>2. CASE todo # {}
  <2> DEFINE p == [q EXCEPT !.todo = todo, !.bucket = First(todo), !.marker = 0,
                            !.pc = "list_objects"]
  <2>1. p.pc = "list_objects" /\ p.listed = q.listed /\ p.todo = todo
    BY DEF AdminRequest
  <2>2. NextBucket(q, todo) = p
    BY <1>2 DEF NextBucket
  <2> HIDE DEF p
  <2> QED
    BY <2>1, <2>2 DEF PurgeOK
<1> QED
  BY <1>1, <1>2

LEMMA BegunPurge ==
    ASSUME NEW c, NEW B
    PROVE  (\A rc : PurgeOK(Ended(c, rc), B)) /\ PurgeOK(Begun(c), B)
<1>1. ASSUME NEW rc PROVE PurgeOK(Ended(c, rc), B)
  BY DEF PurgeOK, Ended, AdminIdle, Purging
<1>2. ASSUME NEW pc, pc \in {"list_buckets", "load_user"}
      PROVE  PurgeOK([AdminIdle EXCEPT !.call = c, !.pc = pc], B)
  BY <1>2 DEF PurgeOK, AdminIdle, Purging
<1>3. ASSUME NEW pc, pc \in {"load_bucket", "remove_bucket"}, c.op # "user_remove"
      PROVE  PurgeOK([AdminIdle EXCEPT !.call = c, !.pc = pc], B)
  BY <1>3 DEF PurgeOK, AdminIdle, Purging
<1>4. ASSUME NEW info, NEW pc, pc \in {"email", "key", "store_user"}
      PROVE  PurgeOK([AdminIdle EXCEPT !.call = c, !.info = info, !.pc = pc], B)
  BY <1>4 DEF PurgeOK, AdminIdle, Purging
<1>5. PurgeOK(Begun(c), B)
  <2>1. CASE Malformed(c)
    BY <2>1, <1>1 DEF Begun, Malformed
  <2>2. CASE ~Malformed(c) /\ c.op = "user_create"
    BY <2>2, <1>4, StepAfterInfoType DEF Begun
  <2>3. CASE ~Malformed(c) /\ c.op = "bucket_list"
    BY <2>3, <1>2 DEF Begun
  <2>4. CASE ~Malformed(c) /\ c.op \in {"bucket_info", "bucket_remove"}
    <3> DEFINE pc == IF c.op = "bucket_info" \/ c.purge THEN "load_bucket" ELSE "remove_bucket"
    <3>1. Begun(c) = [AdminIdle EXCEPT !.call = c, !.pc = pc]
      BY <2>4 DEF Begun
    <3>2. pc \in {"load_bucket", "remove_bucket"} /\ c.op # "user_remove"
      BY <2>4
    <3> HIDE DEF pc
    <3> QED
      BY <3>1, <3>2, <1>3
  <2>5. CASE ~Malformed(c) /\ c.op \notin {"user_create", "bucket_list", "bucket_info", "bucket_remove"}
    BY <2>5, <1>2 DEF Begun
  <2> QED
    BY <2>1, <2>2, <2>3, <2>4, <2>5
<1> QED
  BY <1>1, <1>5

\* remove_bucket that succeeds leaves no bucket of that name.
LEMMA RemovedIsGone ==
    ASSUME StoreConsistent, NEW b, remove_bucket(b.name), RemoveBucketResult(b.name) = "Ok"
    PROVE  b \notin buckets' /\ buckets' \subseteq buckets
  BY LoadBucketType DEF StoreConsistent, BucketNamesOneInstance, remove_bucket, RemoveBucketResult

LEMMA PurgeTaskSteps ==
    ASSUME Types, StoreConsistent, NEW a \in AdminReq, PurgeOK(adm[a], buckets),
           buckets' \subseteq buckets,
           (\E c \in AdminCall : AdminStart(a, c)) \/ AdminServe(a) \/ AdminCancel(a)
    PROVE  PurgeOK(adm'[a], buckets')
<1>1. adm[a] \in AdminRequest /\ AdminTypeOK
  BY DEF Types, AdminTypeOK
<1>2. ASSUME NEW q, Become(a, q), PurgeOK(q, buckets)
      PROVE  PurgeOK(adm'[a], buckets')
  <2>1. adm'[a] = q
    BY <1>1, <1>2, BecomeTask
  <2> QED
    BY <1>2, <2>1 DEF PurgeOK
<1>3. ASSUME \E rc : AdminFinish(a, rc)
      PROVE  PurgeOK(adm'[a], buckets')
  <2>1. PICK rc : AdminFinish(a, rc)
    BY <1>3
  <2> DEFINE q == [adm[a] EXCEPT !.pc = "done", !.reply = rc]
  <2>2. PurgeOK(q, buckets)
    BY <1>1 DEF PurgeOK, AdminRequest, Purging
  <2>3. Become(a, q)
    BY <2>1 DEF AdminFinish
  <2> HIDE DEF q
  <2> QED
    BY <2>2, <2>3, <1>2
<1>4. CASE \E c \in AdminCall : AdminStart(a, c)
  <2>1. PICK c \in AdminCall : AdminStart(a, c)
    BY <1>4
  <2>2. Become(a, Begun(c)) \/ \E rc : Become(a, Ended(c, rc))
    BY <2>1 DEF AdminStart
  <2> QED
    BY <2>2, <1>2, BegunPurge
<1>5. CASE AdminCancel(a)
  <2>1. PurgeOK(AdminIdle, buckets)
    BY DEF PurgeOK, AdminIdle, Purging
  <2> QED
    BY <1>5, <2>1, <1>2 DEF AdminCancel
<1>6. CASE LoadUser(a)
  <2> DEFINE c == adm[a].call
  <2>1. \/ \E rc : AdminFinish(a, rc)
        \/ c.purge /\ Become(a, [adm[a] EXCEPT !.pc = "list_buckets"])
        \/ ~c.purge /\ Become(a, [adm[a] EXCEPT !.pc = "owns_any"])
        \/ \E info : Become(a, [adm[a] EXCEPT !.info = info, !.pc = StepAfterInfo(c)])
    BY <1>6 DEF LoadUser
  <2>2. /\ PurgeOK([adm[a] EXCEPT !.pc = "list_buckets"], buckets)
        /\ ~c.purge => PurgeOK([adm[a] EXCEPT !.pc = "owns_any"], buckets)
    BY <1>1 DEF PurgeOK, Purging, AdminRequest
  <2>3. \A info, pc : pc \in {"email", "key", "store_user"} =>
           PurgeOK([adm[a] EXCEPT !.info = info, !.pc = pc], buckets)
    BY <1>1 DEF PurgeOK, Purging, AdminRequest
  <2>4. StepAfterInfo(c) \in {"email", "key", "store_user"}
    BY StepAfterInfoType
  <2> HIDE DEF c
  <2> QED
    BY <2>1, <2>2, <2>3, <2>4, <1>2, <1>3
<1>7. CASE CheckEmail(a) \/ CheckKey(a) \/ GenerateKey(a)
  <2> DEFINE email(e) == [adm[a] EXCEPT !.info.user_email = e, !.pc = StepAfterEmail(adm[a].call)]
             tried    == [adm[a] EXCEPT !.tries = @ + 1]
  <2>1. \/ \E rc : AdminFinish(a, rc)
        \/ \E e : Become(a, email(e))
        \/ \E k : Become(a, WithKey(adm[a], k))
        \/ adm[a].pc = "key" /\ Become(a, tried)
    BY <1>7 DEF CheckEmail, CheckKey, GenerateKey
  <2>2. \A e : email(e).pc \in {"key", "store_user"}
    BY <1>1, StepAfterInfoType DEF AdminRequest
  <2>3. \A k : WithKey(adm[a], k).pc = "store_user"
    BY <1>1 DEF AdminRequest, WithKey
  <2>4. tried.pc = adm[a].pc
    BY <1>1 DEF AdminRequest
  <2> HIDE DEF email, tried
  <2>5. /\ \A e : PurgeOK(email(e), buckets)
        /\ \A k : PurgeOK(WithKey(adm[a], k), buckets)
        /\ adm[a].pc = "key" => PurgeOK(tried, buckets)
    BY <2>2, <2>3, <2>4 DEF PurgeOK, Purging
  <2> QED
    BY <2>1, <2>5, <1>2, <1>3
<1>8. CASE StoreUser(a) \/ RemoveUser(a)
  BY <1>8, <1>3 DEF StoreUser, RemoveUser
<1>9. CASE OwnsAny(a)
  <2>1. ~adm[a].call.purge
    BY <1>9 DEF OwnsAny, PurgeOK
  <2>2. PurgeOK([adm[a] EXCEPT !.pc = "remove_user"], buckets)
    BY <1>1, <2>1 DEF PurgeOK, Purging, AdminRequest
  <2> QED
    BY <1>9, <2>2, <1>2, <1>3 DEF OwnsAny
<1>10. CASE ListBuckets(a)
  <2> DEFINE q      == adm[a]
             page   == list_buckets(ListedOwner(q.call), q.marker, PageSize)
             listed == q.listed \cup page.entries
             next   == page.next_marker
  <2>1. \/ \E rc : AdminFinish(a, rc)
        \/ Become(a, [q EXCEPT !.listed = listed, !.marker = next])
        \/ Become(a, NextBucket([q EXCEPT !.listed = listed], listed))
        \/ Become(a, [q EXCEPT !.listed = listed, !.todo = listed, !.pc = "stats"])
    BY <1>10 DEF ListBuckets
  <2>2. page.entries \subseteq buckets /\ buckets \subseteq BucketInfo
    BY BucketPageType DEF Types, TypeOK
  <2> HIDE DEF page
  <2>3. listed \in SUBSET BucketInfo /\ q.pc = "list_buckets"
    BY <1>1, <2>2, <1>10 DEF AdminRequest, ListBuckets
  <2> HIDE DEF listed, next
  <2>4. /\ PurgeOK([q EXCEPT !.listed = listed, !.marker = next], buckets)
        /\ PurgeOK([q EXCEPT !.listed = listed, !.todo = listed, !.pc = "stats"], buckets)
    BY <1>1, <2>3 DEF PurgeOK, Purging, AdminRequest
  <2>5. [q EXCEPT !.listed = listed] \in AdminRequest /\ [q EXCEPT !.listed = listed].listed = listed
    BY <1>1, <2>3 DEF AdminRequest
  <2>6. PurgeOK(NextBucket([q EXCEPT !.listed = listed], listed), buckets)
    BY <2>3, <2>5, NextBucketPurge
  <2> QED
    BY <2>1, <2>4, <2>6, <1>2, <1>3
<1>11. CASE ListStats(a)
  <2> DEFINE b == First(adm[a].todo)
  <2>1. (\E rc : AdminFinish(a, rc)) \/ Become(a, [adm[a] EXCEPT !.todo = @ \ {b}])
    BY <1>11 DEF ListStats
  <2> HIDE DEF b
  <2>2. PurgeOK([adm[a] EXCEPT !.todo = @ \ {b}], buckets)
    BY <1>1, <1>11 DEF PurgeOK, Purging, AdminRequest, ListStats
  <2> QED
    BY <2>1, <2>2, <1>2, <1>3
<1>12. CASE LoadInstance(a)
  <2> DEFINE b == load_bucket(adm[a].call.name)
  <2>1. \/ \E rc : AdminFinish(a, rc)
        \/ Become(a, [adm[a] EXCEPT !.todo = {b}, !.pc = "stats"])
        \/ Become(a, [adm[a] EXCEPT !.bucket = b, !.pc = "list_objects"])
    BY <1>12 DEF LoadInstance
  <2>2. adm[a].call.op # "user_remove"
    BY <1>12 DEF LoadInstance, PurgeOK
  <2> HIDE DEF b
  <2>3. /\ PurgeOK([adm[a] EXCEPT !.todo = {b}, !.pc = "stats"], buckets)
        /\ PurgeOK([adm[a] EXCEPT !.bucket = b, !.pc = "list_objects"], buckets)
    BY <1>1, <2>2 DEF PurgeOK, Purging, AdminRequest
  <2> QED
    BY <2>1, <2>3, <1>2, <1>3
<1>13. ASSUME NEW p \in AdminRequest, p.pc \in Purging, PurgeOK(p, buckets)
       PROVE  PurgeOK(PageDone(p), buckets)
  BY <1>13 DEF PageDone, PurgeOK, Purging, AdminRequest
<1>14. CASE ListObjects(a)
  <2> DEFINE page  == list_objects(adm[a].bucket.bucket_id, adm[a].marker, PageSize)
             names == {o.name : o \in page.entries}
             q     == [adm[a] EXCEPT !.page = names, !.next = page.next_marker,
                                     !.more = page.is_truncated]
  <2>1. \/ \E rc : AdminFinish(a, rc)
        \/ Become(a, IF q.page = {} THEN PageDone(q) ELSE [q EXCEPT !.pc = "delete_object"])
    BY <1>14 DEF ListObjects
  <2>2. /\ page.entries \subseteq ObjectInfo /\ page.next_marker \in Nat
        /\ page.is_truncated \in BOOLEAN
    BY ObjectPageType DEF Types, TypeOK
  <2> HIDE DEF page
  <2>3. names \in SUBSET ObjectName /\ adm[a].pc = "list_objects"
    BY <2>2, <1>14 DEF ObjectInfo, ListObjects
  <2> HIDE DEF names
  <2>4. q \in AdminRequest /\ q.pc \in Purging /\ PurgeOK(q, buckets)
    BY <1>1, <2>2, <2>3 DEF AdminRequest, PurgeOK, Purging
  <2> HIDE DEF q
  <2>5. PurgeOK([q EXCEPT !.pc = "delete_object"], buckets)
    BY <2>4 DEF PurgeOK, Purging, AdminRequest
  <2> QED
    BY <2>1, <2>4, <2>5, <1>2, <1>3, <1>13
<1>15. CASE PurgeObject(a)
  <2> DEFINE name == CHOOSE n \in adm[a].page : \A m \in adm[a].page : n <= m
             q    == [adm[a] EXCEPT !.page = @ \ {name}]
  <2>1. \/ \E rc : AdminFinish(a, rc)
        \/ Become(a, IF q.page = {} THEN PageDone(q) ELSE q)
    BY <1>15 DEF PurgeObject
  <2> HIDE DEF name
  <2>2. q \in AdminRequest /\ q.pc \in Purging /\ PurgeOK(q, buckets)
    BY <1>1, <1>15 DEF AdminRequest, PurgeOK, Purging, PurgeObject
  <2> HIDE DEF q
  <2> QED
    BY <2>1, <2>2, <1>2, <1>3, <1>13
<1>16. CASE RemoveBucket(a)
  <2> DEFINE q    == adm[a]
             todo == q.todo \ {q.bucket}
  <2>1. \/ \E rc : AdminFinish(a, rc)
        \/ /\ q.call.op = "user_remove" /\ Become(a, NextBucket(q, todo))
           /\ remove_bucket(q.bucket.name) /\ RemoveBucketResult(q.bucket.name) = "Ok"
    BY <1>16 DEF RemoveBucket, RemovalFailed
  <2>2. ASSUME /\ q.call.op = "user_remove" /\ Become(a, NextBucket(q, todo))
               /\ remove_bucket(q.bucket.name) /\ RemoveBucketResult(q.bucket.name) = "Ok"
        PROVE  PurgeOK(adm'[a], buckets')
    <3>1. (q.listed \ q.todo) \cap buckets = {}
      BY <1>16, <2>2 DEF RemoveBucket, PurgeOK, Purging
    <3>2. q.bucket \notin buckets'
      BY <2>2, RemovedIsGone
    <3>3. (q.listed \ todo) \cap buckets' = {}
      BY <3>1, <3>2
    <3>4. todo \in SUBSET BucketInfo
      BY <1>1 DEF AdminRequest
    <3> HIDE DEF todo
    <3>5. PurgeOK(NextBucket(q, todo), buckets')
      BY <1>1, <3>3, <3>4, NextBucketPurge
    <3> QED
      BY <1>1, <2>2, <3>5, BecomeTask
  <2> QED
    BY <2>1, <2>2, <1>3
<1>17. CASE AdminCallFails(a)
  BY <1>3, <1>17 DEF AdminCallFails
<1> QED
  BY <1>4, <1>5, <1>6, <1>7, <1>8, <1>9, <1>10, <1>11, <1>12, <1>14, <1>15, <1>16, <1>17
     DEF AdminServe, AdminProceed

PurgesOK == \A a \in AdminReq : PurgeOK(adm[a], buckets)

LEMMA StepPurges == GatewayInv /\ PurgesOK /\ [Next]_vars => PurgesOK'
<1> SUFFICES ASSUME GatewayInv, PurgesOK, [Next]_vars, NEW t \in AdminReq
             PROVE  PurgeOK(adm'[t], buckets')
  BY DEF PurgesOK
<1>1. PurgeOK(adm[t], buckets)
  BY DEF PurgesOK
<1>2. CASE UNCHANGED vars
  BY <1>1, <1>2 DEF vars, store
<1>3. CASE Next
  <2>1. \A c \in adm[t].listed : c \notin buckets => c \notin buckets'
    BY <1>3, GoneStaysGone DEF GatewayInv, Snapshots, HoldsListing
  <2>2. PurgeOK(adm[t], buckets')
    BY <1>1, <2>1 DEF PurgeOK
  <2>3. CASE AdminNext
    <3>1. PICK a \in AdminReq :
             (\E c \in AdminCall : AdminStart(a, c)) \/ AdminServe(a) \/ AdminCancel(a)
      BY <2>3 DEF AdminNext
    <3>2. CASE t = a
      BY <1>1, <2>3, <3>1, <3>2, AdminAddsNoBucket, PurgeTaskSteps DEF GatewayInv
    <3>3. CASE t # a
      BY <2>2, <3>1, <3>3, AdminTaskSteps DEF GatewayInv, Types
    <3> QED
      BY <3>2, <3>3
  <2>4. CASE UNCHANGED adm
    BY <2>2, <2>4
  <2> QED
    BY <1>3, <2>3, <2>4 DEF Next
<1> QED
  BY <1>2, <1>3

(***************************************************************************)
(* A purging user_remove reaches the removal of the user only with every   *)
(* bucket of its listing gone.                                             *)
(***************************************************************************)
THEOREM PurgesComeFirst == Spec => []PurgePrecedesUserRemoval
<1>1. Init => PurgesOK
  BY DEF Init, AdminInit, AdminIdle, PurgesOK, PurgeOK, Purging
<1>2. PurgesOK => PurgePrecedesUserRemoval
  BY DEF PurgesOK, PurgeOK, PurgePrecedesUserRemoval
<1> QED
  BY <1>1, <1>2, StepPurges, GatewayInvariant, PTL DEF Spec

==============================================================================
