------------------------------ MODULE Gateway ------------------------------
(***************************************************************************)
(* rgwd as a whole: S3 requests and admin operations interleaving on one   *)
(* store.  With no admin tasks it is the S3 service alone, with no S3      *)
(* tasks the admin service alone.                                          *)
(***************************************************************************)
EXTENDS S3Ops, AdminOps

vars == <<store, s3, minted, adm>>

Init == DriverInit /\ S3Init /\ AdminInit

Next ==
    \/ S3Next /\ UNCHANGED adm
    \/ AdminNext /\ UNCHANGED <<s3, minted>>

Spec == Init /\ [][Next]_vars

(***************************************************************************)
(* The runtime polls every task that can make progress: a request that is  *)
(* not cancelled gets to its next driver call, and the call answers unless *)
(* it fails.  Nothing makes calls fail, clients send requests or hang up:  *)
(* a loop that only a failure or the client would end does not end.        *)
(***************************************************************************)
Fairness ==
    /\ \A r \in S3Req : WF_vars(Proceed(r) /\ UNCHANGED adm)
    /\ \A a \in AdminReq : WF_vars(AdminProceed(a) /\ UNCHANGED <<s3, minted>>)

FairSpec == Spec /\ Fairness

-----------------------------------------------------------------------------
(* Buckets and the requests that work on them *)

(***************************************************************************)
(* A bucket instance a request has loaded is the one it was when access    *)
(* was checked for as long as it exists, however often its name is deleted *)
(* and created again meanwhile: instance ids are never reused, and no      *)
(* operation changes an instance's name or owner.                          *)
(***************************************************************************)
LoadedBucketStaysAuthorised ==
    \A r \in S3Req : \A b \in buckets :
        s3[r].bucket # NoBucket /\ b.bucket_id = s3[r].bucket.bucket_id
            => b = s3[r].bucket /\ verify_bucket_access(s3[r].user, b)

\* The S3 requests, and the purges, that take a step from here to there.
S3Mover    == {r \in S3Req : s3'[r] # s3[r]}
AdminMover == {a \in AdminReq : adm'[a] # adm[a]}

(***************************************************************************)
(* An object row appears, changes or disappears only in a bucket whose     *)
(* stored owner gives the requester access at that very moment, or through *)
(* a purge of that very instance: between load_bucket_for and the object   *)
(* call the name may come to lead elsewhere, the id may not.               *)
(***************************************************************************)
ObjectsChangeUnderAccess ==
    [][\A o \in (objects \ objects') \cup (objects' \ objects) :
          \E b \in buckets :
              /\ b.bucket_id = o.bucket_id
              /\ \/ \E r \in S3Mover : verify_bucket_access(s3[r].user, b)
                 \/ \E a \in AdminMover : adm[a].bucket = b]_vars

(***************************************************************************)
(* A bucket is removed by delete_bucket only on behalf of a user with      *)
(* access to it ("Allow the bucket's owner and `system` or `admin` users;  *)
(* deny everyone else", perm.rs).  It does not hold: delete_bucket checks  *)
(* one instance and removes whatever the name leads to afterwards.         *)
(***************************************************************************)
BucketsRemovedUnderAccess ==
    [][\A b \in buckets \ buckets' : \A r \in S3Mover :
          verify_bucket_access(s3[r].user, b)]_vars

-----------------------------------------------------------------------------
(* Quotas, batches and ranges *)

(***************************************************************************)
(* A bucket that was there all along is in every listing its owner gets,   *)
(* however many others came and went between the pages: list_owned_buckets *)
(* resumes after the last name it saw, not at a position.                  *)
(***************************************************************************)
Steady == {b \in SeedBuckets : \A c \in S3Call : c.op = "delete_bucket" => c.name # b.name}

ListingsShowSteadyBuckets ==
    \A r \in S3Req :
        s3[r].pc = "done" /\ s3[r].call.op = "list_buckets" /\ s3[r].reply.code = "Ok" =>
            {b \in Steady \cap buckets : b.owner = s3[r].user.user_id} \subseteq s3[r].owned

(***************************************************************************)
(* max_buckets may be overshot by requests that count at the same time,    *)
(* but by no more than the tasks there are besides the first: every create *)
(* is preceded by a count that was below the limit.  (With one task it is  *)
(* the limit itself, as the test max_buckets_enforced has it.)             *)
(***************************************************************************)
QuotaOvershootBounded ==
    \A u \in users : u.max_buckets > 0 =>
        Cardinality(OwnedBy(Some(u.user_id))) <= u.max_buckets + Cardinality(S3Req) - 1

(***************************************************************************)
(* delete_multi answers for every key exactly as often as it was given,    *)
(* among the deleted or among the errors, whatever fails on the way ("any  *)
(* other failure becomes an <Error> entry without stopping the batch",     *)
(* object.rs); a quiet one lists no deleted keys.  An error says           *)
(* NoSuchBucket only when the bucket was removed under the batch, and else *)
(* that the driver failed.                                                 *)
(***************************************************************************)
TimesDeleted(q, k) == Cardinality({i \in 1 .. Len(q.deleted) : q.deleted[i] = k})
TimesFailed(q, k)  == Cardinality({i \in 1 .. Len(q.errors) : q.errors[i].key = k})
TimesGiven(q, k)   == Cardinality({i \in 1 .. Len(q.call.keys) : q.call.keys[i] = k})

BatchAccountsForEveryKey ==
    \A r \in S3Req :
        LET q == s3[r]
        IN  q.pc = "done" /\ q.call.op = "delete_multi" /\ q.reply.code = "Ok" =>
               /\ IF q.call.quiet THEN q.deleted = <<>>
                  ELSE \A k \in ObjectName :
                          TimesDeleted(q, k) + TimesFailed(q, k) = TimesGiven(q, k)
               /\ \A i \in 1 .. Len(q.errors) :
                     \/ q.errors[i].code = "InternalError"
                     \/ q.errors[i].code = "NoSuchBucket" /\ ~check_bucket(q.bucket.bucket_id)

(***************************************************************************)
(* A key leaves a batch without an <Error> entry only when its object is   *)
(* gone from the bucket: what a quiet answer does not mention is deleted   *)
(* ("a missing key is reported as deleted, and any other failure becomes   *)
(* an <Error> entry", object.rs).                                          *)
(***************************************************************************)
InBatch(r) == s3[r].pc = "delete_multi" /\ s3'[r].call = s3[r].call

UnmentionedKeysAreGone ==
    [][\A r \in S3Mover : InBatch(r) /\ s3'[r].errors = s3[r].errors =>
          ~\E o \in objects' : /\ o.bucket_id = s3[r].bucket.bucket_id
                               /\ o.name = Head(s3[r].todo)]_vars

(***************************************************************************)
(* A ranged GET answers what a HEAD of an object of the size it reports    *)
(* would ("it reports the same status and Content-Range a GET would",      *)
(* object.rs).  It does not hold: the size in a 416 is read by a second    *)
(* driver call and may belong to a later object that admits the range.     *)
(***************************************************************************)
GetAnswersAsHeadWould ==
    \A r \in S3Req :
        LET q == s3[r]
        IN  q.pc = "done" /\ q.call.op = "get_object" /\ q.call.range # NoRange =>
               /\ q.reply.code = "Ok" => q.reply.range = s3_resolve_range(q.call.range, q.reply.size)
               /\ q.reply.code = "InvalidRange"
                     => s3_resolve_range(q.call.range, q.reply.size) = Unsatisfiable

-----------------------------------------------------------------------------
(* Users *)

(***************************************************************************)
(* user_remove with purge_data removes the user only once every bucket its *)
(* listing showed is gone, whatever happened to their names since.         *)
(***************************************************************************)
PurgePrecedesUserRemoval ==
    \A a \in AdminReq :
        adm[a].pc = "remove_user" /\ adm[a].call.purge => adm[a].listed \cap buckets = {}

(***************************************************************************)
(* Every bucket's owner exists: "A user who owns buckets is refused unless *)
(* `purge_data`, which deletes every object and bucket they own first"     *)
(* (user_remove).  It holds while no request creates buckets meanwhile.    *)
(***************************************************************************)
BucketOwnersExist == \A b \in buckets : HasUser(b.owner)

(***************************************************************************)
(* No two users share an email: "an email already held by another user is  *)
(* [UserAlreadyExists] too" (user_create).  It holds while admin           *)
(* operations run one at a time: the check and the store are two calls.    *)
(***************************************************************************)
EmailsUnique ==
    \A u, v \in users : u.user_email = v.user_email /\ u.user_email # NoEmail => u = v

(***************************************************************************)
(* Storing an edited record takes no access key away that the operation    *)
(* did not mean to take: "A key pair, or `generate_key`, adds a key        *)
(* alongside the existing ones" (user_modify).  It holds while admin       *)
(* operations run one at a time: the record stored is an edit of the one   *)
(* loaded, not of the one there is.                                        *)
(***************************************************************************)
EditsKeepOtherKeys ==
    [][\A a \in AdminReq : \A u \in users, v \in users' :
          adm[a].pc = "store_user" /\ adm'[a] # adm[a] /\ adm'[a].reply = "Ok"
              /\ u.user_id = v.user_id
              /\ adm[a].call.op \in {"user_modify", "key_create", "caps_add", "caps_remove"}
                  => u.access_keys \subseteq v.access_keys]_vars

(***************************************************************************)
(* A user comes into being by user_create only: an edit of a user who is   *)
(* not there answers NoSuchUser and stores nothing (user_modify, key and   *)
(* caps operations).  It holds while admin operations run one at a time:   *)
(* an edit in flight across a user_remove stores the removed user again.   *)
(***************************************************************************)
UsersAppearByCreation ==
    [][\A v \in users' : ~HasUser(v.user_id) =>
          \E a \in AdminMover : adm[a].call.op = "user_create"]_vars

(***************************************************************************)
(* bucket_list with stats answers NoSuchBucket only when a bucket it       *)
(* listed was removed before its turn came; empty buckets, new ones and    *)
(* other instances under a listed name do not disturb it.                  *)
(***************************************************************************)
StatsFailOnlyForRemoved ==
    \A a \in AdminReq :
        adm[a].pc = "done" /\ adm[a].call.op = "bucket_list" /\ adm[a].reply = "NoSuchBucket"
            => ~(adm[a].listed \subseteq buckets)

-----------------------------------------------------------------------------
(* Progress *)

Serving(r) == s3[r].pc \notin {"idle", "done"}
Working(a) == adm[a].pc \notin {"idle", "done"}

(***************************************************************************)
(* Every request is answered, unless its client hangs up: the paging loop  *)
(* of create_bucket ends although other requests add and remove buckets.   *)
(***************************************************************************)
S3RequestsEnd == \A r \in S3Req : Serving(r) ~> ~Serving(r)

(***************************************************************************)
(* Every admin operation ends: purging gets through listing, deleting and  *)
(* removing although uploads to the same bucket go on meanwhile.           *)
(***************************************************************************)
AdminOpsEnd == \A a \in AdminReq : Working(a) ~> ~Working(a)

=============================================================================
