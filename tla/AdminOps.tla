------------------------------ MODULE AdminOps ------------------------------
(***************************************************************************)
(* The administrative operations of rgw-admin-ops, reached over the REST   *)
(* admin API of rgwd or from the radosgw-admin command line.  User edits   *)
(* read the whole record, change their copy, check for clashes with        *)
(* further reads, and store the whole record back; removals with purging   *)
(* list, delete and remove step by step.  Each step is one driver call.    *)
(***************************************************************************)
EXTENDS Auth

CONSTANTS
    AdminReq,          \* the tasks (or processes) that run admin operations
    AdminCall,         \* the operations administrators ask for
    NoAdminCall,       \* the call of an idle task
    Cli,               \* the credential of the command line: no check at all
    UsersRead, UsersWrite, BucketsRead, BucketsWrite,   \* what the REST API asks for
    DefaultLimit,      \* RGW_DEFAULT_MAX_BUCKETS
    KEYGEN_ATTEMPTS,   \* 10 in the code
    NoUser,            \* no user record loaded yet
    NoInstance         \* no bucket being worked on

KeyOp    == {"user_create", "user_modify", "key_create"}
UserOp   == KeyOp \cup {"key_remove", "caps_add", "caps_remove", "user_info", "user_remove"}
AdminOp  == UserOp \cup {"bucket_info", "bucket_list", "bucket_remove"}

\* The parameters of every operation; an operation reads the ones it has.
AdminCallType ==
    [op: AdminOp, credential: Credential \cup {Cli}, uid: Uid,
     email: Opt(Email \cup {NoEmail}), key: Opt(AccessKey), generate: BOOLEAN,
     caps: SUBSET Cap, suspended: Opt(BOOLEAN), system: Opt(BOOLEAN), admin: Opt(BOOLEAN),
     max_buckets: Opt(BucketLimit), owner: Opt(Uid), name: BucketName,
     stats: BOOLEAN, purge: BOOLEAN]

ASSUME AdminAssumption ==
    /\ AdminCall \subseteq AdminCallType
    /\ NoAdminCall \notin AdminCall
    /\ \A c \in AdminCall :   \* REST cannot set `admin`, the command line asks for no stats
          IF c.credential = Cli THEN ~c.stats ELSE c.admin = None
    /\ {UsersRead, UsersWrite, BucketsRead, BucketsWrite} \subseteq Cap
    /\ Cli \notin Credential
    /\ DefaultLimit \in BucketLimit
    /\ KEYGEN_ATTEMPTS \in Nat \ {0}
    /\ NoUser \notin UserInfo
    /\ NoInstance \notin BucketInfo

VARIABLE adm   \* the operation each task is running

AdminReplyCode ==
    {"None", "Ok", "AccessDenied", "InvalidAccessKeyId", "UserSuspended", "NoSuchUser",
     "UserAlreadyExists", "KeyExists", "InvalidArgument", "InvalidRequest", "InternalError",
     "NoSuchBucket", "BucketNotEmpty"}

AdminStep ==
    {"idle", "done", "load_user", "email", "key", "store_user", "owns_any", "list_buckets",
     "load_bucket", "list_objects", "delete_object", "remove_bucket", "remove_user", "stats"}

AdminRequest ==
    [pc: AdminStep, call: AdminCall \cup {NoAdminCall},
     info: UserInfo \cup {NoUser},             \* the copy of the record being edited
     tries: Nat,                               \* unused_access_key
     listed: SUBSET BucketInfo,                \* list_all_buckets
     todo: SUBSET BucketInfo,                  \* the listed buckets still to be handled
     bucket: BucketInfo \cup {NoInstance},     \* the one being purged
     marker: Nat, page: SUBSET ObjectName, next: Nat, more: BOOLEAN,   \* purge_objects
     reply: AdminReplyCode]

AdminIdle ==
    [pc |-> "idle", call |-> NoAdminCall, info |-> NoUser, tries |-> 0, listed |-> {},
     todo |-> {}, bucket |-> NoInstance, marker |-> 0, page |-> {}, next |-> 0, more |-> FALSE,
     reply |-> "None"]

\* What a task has in hand at each step: the record it edits, the bucket it purges.
AdminRequestOK(q) ==
    /\ q.pc = "idle" <=> q.call = NoAdminCall
    /\ q.pc \in {"email", "key", "store_user"} => q.info # NoUser
    /\ q.pc = "email" => q.call.email # None
    /\ q.pc \in {"list_objects", "delete_object"} => q.bucket # NoInstance
    /\ q.pc = "remove_bucket" /\ q.call.op = "user_remove" => q.bucket # NoInstance
    /\ q.pc = "delete_object" => q.page # {}
    /\ q.pc = "stats" => q.todo # {}

(***************************************************************************)
(* Every task's record has its shape, and a task that edits, purges or     *)
(* stats something has loaded it.                                          *)
(***************************************************************************)
AdminTypeOK ==
    /\ adm \in [AdminReq -> AdminRequest]
    /\ \A a \in AdminReq : AdminRequestOK(adm[a])

AdminInit == adm = [a \in AdminReq |-> AdminIdle]

-----------------------------------------------------------------------------
(* Moving a task along *)

Become(a, q) == adm' = [adm EXCEPT ![a] = q]

AdminFinish(a, rc) == Become(a, [adm[a] EXCEPT !.pc = "done", !.reply = rc])

Given(option, default) == IF option = None THEN default ELSE option[1]

\* UserInfo::new with the parameters of user_create but the email and the key.
NewUser(c) ==
    [user_id |-> c.uid, user_email |-> NoEmail, access_keys |-> {}, caps |-> c.caps,
     suspended |-> Given(c.suspended, FALSE), max_buckets |-> Given(c.max_buckets, DefaultLimit),
     system |-> Given(c.system, FALSE), admin |-> Given(c.admin, FALSE)]

\* An email that has to be checked: given, and not the empty one.
NewEmail(c) == c.email # None /\ c.email # Some(NoEmail)

WantsKey(c) == c.op \in KeyOp /\ (c.key # None \/ c.generate)

\* What comes after the email is settled.
StepAfterEmail(c) == IF WantsKey(c) THEN "key" ELSE "store_user"

StepAfterInfo(c) == IF c.op \in {"user_create", "user_modify"} /\ NewEmail(c)
                    THEN "email" ELSE StepAfterEmail(c)

(***************************************************************************)
(* A call comes in.  Over REST it is authenticated and needs a capability; *)
(* the command line needs neither.  The lookup of the signer may fail.     *)
(* user_create starts from a new record, the other user operations from    *)
(* the stored one.                                                         *)
(***************************************************************************)
RequiredCap(c) == CASE c.op = "bucket_remove"                    -> BucketsWrite
                    [] c.op \in {"bucket_list", "bucket_info"} -> BucketsRead
                    [] c.op = "user_info"                        -> UsersRead
                    [] OTHER                                     -> UsersWrite

Admission(c) ==
    IF c.credential = Cli THEN "Ok"
    ELSE IF verify(c.credential).code # "Ok" THEN verify(c.credential).code
    ELSE IF check_cap(verify(c.credential).identity, RequiredCap(c)) THEN "Ok"
    ELSE "AccessDenied"

\* Parameters an operation refuses before it asks the store anything.
Malformed(c) ==
    \/ c.op = "key_remove" /\ c.key = None
    \/ c.op \in {"caps_add", "caps_remove"} /\ c.caps = {}

Ended(c, rc) == [AdminIdle EXCEPT !.call = c, !.pc = "done", !.reply = rc]

Begun(c) ==
    CASE Malformed(c) -> Ended(c, "InvalidArgument")
      [] c.op = "user_create" -> [AdminIdle EXCEPT !.call = c, !.info = NewUser(c),
                                                   !.pc = StepAfterInfo(c)]
      [] c.op = "bucket_list" -> [AdminIdle EXCEPT !.call = c, !.pc = "list_buckets"]
      [] c.op \in {"bucket_info", "bucket_remove"} ->
            [AdminIdle EXCEPT !.call = c,
                !.pc = IF c.op = "bucket_info" \/ c.purge THEN "load_bucket" ELSE "remove_bucket"]
      [] OTHER -> [AdminIdle EXCEPT !.call = c, !.pc = "load_user"]

AdminStart(a, c) ==
    /\ adm[a].pc \in {"idle", "done"}
    /\ \/ Become(a, IF Admission(c) = "Ok" THEN Begun(c) ELSE Ended(c, Admission(c)))
       \/ c.credential \notin {Cli, Anonymous} /\ Become(a, Ended(c, "InternalError"))
    /\ UNCHANGED store

\* The client hangs up, or the command is killed, before the next driver call.
AdminCancel(a) ==
    /\ adm[a].pc \notin {"idle", "done"}
    /\ Become(a, AdminIdle)
    /\ UNCHANGED store

-----------------------------------------------------------------------------
(* Editing a user *)

\* The fields user_modify sets without asking the store; an empty email needs no check.
Modified(u, c) ==
    [u EXCEPT !.suspended   = Given(c.suspended, u.suspended),
              !.system      = Given(c.system, u.system),
              !.admin       = Given(c.admin, u.admin),
              !.max_buckets = Given(c.max_buckets, u.max_buckets),
              !.user_email  = IF c.email = Some(NoEmail) THEN NoEmail ELSE u.user_email]

\* The loaded record as each operation changes it before its next driver call.
Edited(u, c) ==
    CASE c.op = "user_modify" -> Modified(u, c)
      [] c.op = "key_remove"  -> [u EXCEPT !.access_keys = @ \ {c.key[1]}]
      [] c.op = "caps_add"    -> [u EXCEPT !.caps = @ \cup c.caps]
      [] c.op = "caps_remove" -> [u EXCEPT !.caps = @ \ c.caps]
      [] OTHER                -> u

\* Mutant of LoadUser: an edit of a user that is not there starts from a new record.
LoadUserOrNew(a) ==
    /\ adm[a].pc = "load_user"
    /\ LET c == adm[a].call
           u == IF HasUser(c.uid) THEN load_user(c.uid) ELSE NewUser(c)
       IN  IF c.op = "user_info" THEN AdminFinish(a, "Ok")
           ELSE IF c.op = "user_remove"
           THEN Become(a, [adm[a] EXCEPT !.pc = IF c.purge THEN "list_buckets" ELSE "owns_any"])
           ELSE Become(a, [adm[a] EXCEPT !.info = Edited(u, c), !.pc = StepAfterInfo(c)])
    /\ UNCHANGED store

LoadUser(a) ==
    /\ adm[a].pc = "load_user"
    /\ LET c == adm[a].call
           u == load_user(c.uid)
       IN  IF ~HasUser(c.uid) THEN AdminFinish(a, "NoSuchUser")
           ELSE IF c.op = "user_info" THEN AdminFinish(a, "Ok")
           ELSE IF c.op = "user_remove"
           THEN Become(a, [adm[a] EXCEPT !.pc = IF c.purge THEN "list_buckets" ELSE "owns_any"])
           ELSE IF c.op = "key_remove" /\ c.key[1] \notin u.access_keys
           THEN AdminFinish(a, "InvalidAccessKeyId")
           ELSE IF c.op = "key_create" /\ ~WantsKey(c) THEN AdminFinish(a, "InvalidArgument")
           ELSE Become(a, [adm[a] EXCEPT !.info = Edited(u, c), !.pc = StepAfterInfo(c)])
    /\ UNCHANGED store

\* Mutant of EmailTaken: the lookup is done but its answer ignored.
EmailTakenNever(uid, email) == FALSE

EmailTaken(uid, email) ==
    EmailHolders(email) # {} /\ load_user_by_email(email).user_id # uid

\* ensure_email_free, then the email goes into the copy.
CheckEmail(a) ==
    /\ adm[a].pc = "email"
    /\ LET c == adm[a].call
       IN  IF EmailTaken(c.uid, c.email[1]) THEN AdminFinish(a, "UserAlreadyExists")
           ELSE Become(a, [adm[a] EXCEPT !.info.user_email = c.email[1], !.pc = StepAfterEmail(c)])
    /\ UNCHANGED store

\* Mutant of WithKey: the new key replaces the ones there are.
WithKeyReplaces(q, k) == [q EXCEPT !.info.access_keys = {k}, !.pc = "store_user"]

WithKey(q, k) == [q EXCEPT !.info.access_keys = @ \cup {k}, !.pc = "store_user"]

\* ensure_key_free, then the key goes into the copy.
CheckKey(a) ==
    /\ adm[a].pc = "key"
    /\ adm[a].call.key # None
    /\ LET k == adm[a].call.key[1]
       IN  IF /\ KeyHolders(k) # {}
              /\ load_user_by_access_key(k).user_id # adm[a].call.uid
           THEN AdminFinish(a, "KeyExists")
           ELSE Become(a, WithKey(adm[a], k))
    /\ UNCHANGED store

\* unused_access_key: draw a key at random, retry when it is in use, give up in the end.
GenerateKey(a) ==
    /\ adm[a].pc = "key"
    /\ adm[a].call.key = None
    /\ \E k \in AccessKey :
          IF KeyHolders(k) = {} THEN Become(a, WithKey(adm[a], k))
          ELSE IF adm[a].tries + 1 = KEYGEN_ATTEMPTS THEN AdminFinish(a, "InternalError")
          ELSE Become(a, [adm[a] EXCEPT !.tries = @ + 1])
    /\ UNCHANGED store

Exclusive(c) == c.op = "user_create"

StoreUser(a) ==
    /\ adm[a].pc = "store_user"
    /\ store_user(adm[a].info, Exclusive(adm[a].call))
    /\ AdminFinish(a, StoreUserResult(adm[a].info, Exclusive(adm[a].call)))

-----------------------------------------------------------------------------
(* Listing buckets, purging and removing *)

First(S) == CHOOSE b \in S : \A c \in S : b.name <= c.name

\* The next bucket of user_remove's loop over the listing, or the end of it.
NextBucket(q, todo) ==
    IF todo = {} THEN [q EXCEPT !.todo = {}, !.bucket = NoInstance, !.pc = "remove_user"]
    ELSE [q EXCEPT !.todo = todo, !.bucket = First(todo), !.marker = 0, !.pc = "list_objects"]

\* The buckets a listing asks for: the user's being removed, or bucket_list's owner or all.
ListedOwner(c) == IF c.op = "bucket_list" THEN c.owner ELSE Some(c.uid)

\* A page that reports more rows but does not move the marker would loop forever.
DidNotAdvance(truncated, next, marker) == truncated /\ next \in {0, marker}

OwnsBuckets(uid) == list_buckets(Some(uid), 0, 1).entries # {}

\* user_remove without purge_data: any bucket at all refuses it.
OwnsAny(a) ==
    /\ adm[a].pc = "owns_any"
    /\ IF OwnsBuckets(adm[a].call.uid)
       THEN AdminFinish(a, "InvalidRequest")
       ELSE Become(a, [adm[a] EXCEPT !.pc = "remove_user"])
    /\ UNCHANGED store

\* list_all_buckets, one page per driver call.
ListBuckets(a) ==
    /\ adm[a].pc = "list_buckets"
    /\ LET q      == adm[a]
           page   == list_buckets(ListedOwner(q.call), q.marker, PageSize)
           listed == q.listed \cup page.entries
       IN  IF DidNotAdvance(page.is_truncated, page.next_marker, q.marker)
           THEN AdminFinish(a, "InternalError")
           ELSE IF page.is_truncated
           THEN Become(a, [q EXCEPT !.listed = listed, !.marker = page.next_marker])
           ELSE IF q.call.op = "user_remove"
           THEN Become(a, NextBucket([q EXCEPT !.listed = listed], listed))
           ELSE IF listed = {} \/ ~q.call.stats THEN AdminFinish(a, "Ok")
           ELSE Become(a, [q EXCEPT !.listed = listed, !.todo = listed, !.pc = "stats"])
    /\ UNCHANGED store

\* Mutant of ListStats: a bucket without objects has no row to count.
ListStatsOfRows(a) ==
    /\ adm[a].pc = "stats"
    /\ LET b == First(adm[a].todo)
       IN  IF \A o \in objects : o.bucket_id # b.bucket_id THEN AdminFinish(a, "NoSuchBucket")
           ELSE IF adm[a].todo = {b} THEN AdminFinish(a, "Ok")
           ELSE Become(a, [adm[a] EXCEPT !.todo = @ \ {b}])
    /\ UNCHANGED store

\* bucket_stats, for the one bucket of bucket_info or for each of a listing in turn.
ListStats(a) ==
    /\ adm[a].pc = "stats"
    /\ LET b == First(adm[a].todo)
       IN  IF ~check_bucket(b.bucket_id) THEN AdminFinish(a, "NoSuchBucket")
           ELSE IF adm[a].todo = {b} THEN AdminFinish(a, "Ok")
           ELSE Become(a, [adm[a] EXCEPT !.todo = @ \ {b}])
    /\ UNCHANGED store

\* bucket_info, and bucket_remove when it purges, resolve the name first.
LoadInstance(a) ==
    /\ adm[a].pc = "load_bucket"
    /\ LET name == adm[a].call.name
           b    == load_bucket(name)
       IN  IF ~HasBucket(name) THEN AdminFinish(a, "NoSuchBucket")
           ELSE IF adm[a].call.op = "bucket_info"
           THEN Become(a, [adm[a] EXCEPT !.todo = {b}, !.pc = "stats"])
           ELSE Become(a, [adm[a] EXCEPT !.bucket = b, !.pc = "list_objects"])
    /\ UNCHANGED store

\* Mutant of PageDone: every page starts from the beginning again.
PageDoneRestarts(q) ==
    [q EXCEPT !.pc = IF q.more THEN "list_objects" ELSE "remove_bucket", !.marker = 0]

\* The end of a page: the bucket is purged, or there is another page to get.
PageDone(q) ==
    IF ~q.more THEN [q EXCEPT !.pc = "remove_bucket"]
    ELSE IF DidNotAdvance(q.more, q.next, q.marker)
    THEN [q EXCEPT !.pc = "done", !.reply = "InternalError"]
    ELSE [q EXCEPT !.pc = "list_objects", !.marker = q.next]

\* purge_objects: the next page of names, by instance id.
ListObjects(a) ==
    /\ adm[a].pc = "list_objects"
    /\ LET page == list_objects(adm[a].bucket.bucket_id, adm[a].marker, PageSize)
           q    == [adm[a] EXCEPT !.page = {o.name : o \in page.entries},
                                  !.next = page.next_marker, !.more = page.is_truncated]
       IN  IF ~check_bucket(q.bucket.bucket_id) THEN AdminFinish(a, "NoSuchBucket")
           ELSE Become(a, IF q.page = {} THEN PageDone(q) ELSE [q EXCEPT !.pc = "delete_object"])
    /\ UNCHANGED store

\* Mutant of PurgeTarget: the bucket's name is resolved again for every object.
PurgeTargetByName(q) ==
    IF HasBucket(q.bucket.name) THEN load_bucket(q.bucket.name).bucket_id ELSE q.bucket.bucket_id

PurgeTarget(q) == q.bucket.bucket_id

\* purge_objects: delete one object of the page; one that is gone already is fine.
PurgeObject(a) ==
    /\ adm[a].pc = "delete_object"
    /\ LET name == CHOOSE n \in adm[a].page : \A m \in adm[a].page : n <= m
           id   == PurgeTarget(adm[a])
           q    == [adm[a] EXCEPT !.page = @ \ {name}]
       IN  /\ delete_object(id, name)
           /\ IF DeleteObjectResult(id, name) = "NoSuchBucket"
              THEN AdminFinish(a, "NoSuchBucket")
              ELSE Become(a, IF q.page = {} THEN PageDone(q) ELSE q)

\* Mutant of RemovalFailed: a bucket that could not be removed is skipped.
RemovalFailedNever(result) == FALSE

RemovalFailed(result) == result # "Ok"

\* Remove by name what was purged by id; user_remove then goes on to its next bucket.
RemoveBucket(a) ==
    /\ adm[a].pc = "remove_bucket"
    /\ LET q      == adm[a]
           name   == IF q.call.op = "user_remove" THEN q.bucket.name ELSE q.call.name
           result == RemoveBucketResult(name)
       IN  /\ remove_bucket(name)
           /\ IF q.call.op # "user_remove" \/ RemovalFailed(result)
              THEN AdminFinish(a, result)
              ELSE Become(a, NextBucket(q, q.todo \ {q.bucket}))

RemoveUser(a) ==
    /\ adm[a].pc = "remove_user"
    /\ remove_user(adm[a].call.uid)
    /\ AdminFinish(a, RemoveUserResult(adm[a].call.uid))

\* A driver call fails without having changed anything, and the operation with it.
AdminCallFails(a) ==
    /\ adm[a].pc \notin {"idle", "done"}
    /\ AdminFinish(a, "InternalError")
    /\ UNCHANGED store

-----------------------------------------------------------------------------
AdminProceed(a) ==
    \/ LoadUser(a) \/ CheckEmail(a) \/ CheckKey(a) \/ GenerateKey(a) \/ StoreUser(a)
    \/ OwnsAny(a) \/ ListBuckets(a) \/ ListStats(a) \/ LoadInstance(a)
    \/ ListObjects(a) \/ PurgeObject(a) \/ RemoveBucket(a) \/ RemoveUser(a)

AdminServe(a) == AdminProceed(a) \/ AdminCallFails(a)

AdminNext ==
    \E a \in AdminReq :
        \/ \E c \in AdminCall : AdminStart(a, c)
        \/ AdminServe(a)
        \/ AdminCancel(a)

=============================================================================
