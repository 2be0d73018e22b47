------------------------------- MODULE Driver -------------------------------
(***************************************************************************)
(* The storage layer: the Driver trait of rgw-sal as rgw-sal-sqlite        *)
(* implements it, one atomic step per call.  Inside rgwd a call holds the  *)
(* one connection's mutex for the whole closure (with_conn), and a writing *)
(* call is one transaction that a failed check rolls back (with_tx), so    *)
(* calls never interleave; what interleaves is the handlers that make them *)
(* (S3Ops, AdminOps).                                                      *)
(*                                                                         *)
(* The four SQL tables are sets of rows.  SQLite's own constraints         *)
(* (PRIMARY KEY, UNIQUE, REFERENCES) are NOT built into the model, except  *)
(* for the ON DELETE CASCADE that remove_user relies on: that they are     *)
(* never hit, and so never surface as InternalError, is what the           *)
(* invariants at the end say of the checks in the code.                    *)
(***************************************************************************)
EXTENDS Integers, FiniteSets, ByteRanges

CONSTANTS
    Uid,          \* user ids, ordered as the code orders them (`tenant$id` strings)
    AccessKey,    \* access key ids
    Email,        \* email addresses
    NoEmail,      \* the empty email
    Cap,          \* single capability bits, such as users=write
    BucketLimit,  \* values of max_buckets: negative, 0 (unlimited), positive
    BucketName,   \* bucket names in the empty tenant, ordered; 0 is the empty marker
    BucketId,     \* bucket instance ids (UUIDs)
    ObjectName,   \* object names, ordered; 0 is the empty marker
    Data,         \* payloads, told apart by their size in bytes
    PageSize,     \* rows on a listing page (DEFAULT_MAX_ENTRIES, 1000 in the code)
    SeedUsers, SeedBuckets, SeedObjects   \* the rows of the database file that is opened

ASSUME DriverAssumption ==
    /\ Uid \subseteq Nat
    /\ NoEmail \notin Email
    /\ BucketLimit \subseteq Int
    /\ BucketName \subseteq Nat \ {0}
    /\ ObjectName \subseteq Nat \ {0}
    /\ Data \subseteq Nat
    /\ PageSize \in Nat \ {0}

\* Rust's Option: nothing, or one value.
None    == <<>>
Some(x) == <<x>>
Opt(S)  == {None} \cup {Some(x) : x \in S}

VARIABLES
    users,        \* rows of `users`: the UserInfo JSON with its uid and email columns
    access_keys,  \* rows of `access_keys`: the index from key id to uid
    buckets,      \* rows of `buckets`
    objects       \* rows of `objects`

store == <<users, access_keys, buckets, objects>>

UserInfo ==
    [user_id: Uid, user_email: Email \cup {NoEmail}, access_keys: SUBSET AccessKey,
     caps: SUBSET Cap, suspended: BOOLEAN, max_buckets: BucketLimit,
     system: BOOLEAN, admin: BOOLEAN]

KeyRow     == [access_key: AccessKey, uid: Uid]
BucketInfo == [bucket_id: BucketId, name: BucketName, owner: Uid]
ObjectInfo == [bucket_id: BucketId, name: ObjectName, owner: Uid, data: Data]

(***************************************************************************)
(* SqliteDriver::open finds an empty file or one an earlier process left   *)
(* behind; its rows are finitely many and satisfy the constraints SQLite   *)
(* enforces.                                                               *)
(***************************************************************************)
ASSUME SeedAssumption ==
    /\ SeedUsers \subseteq UserInfo
    /\ SeedBuckets \subseteq BucketInfo
    /\ IsFiniteSet(SeedBuckets)
    /\ SeedObjects \subseteq ObjectInfo
    /\ \A u, v \in SeedUsers :
          u.user_id = v.user_id \/ u.access_keys \cap v.access_keys # {} => u = v
    /\ \A b, c \in SeedBuckets : b.bucket_id = c.bucket_id \/ b.name = c.name => b = c
    /\ \A o \in SeedObjects : \E b \in SeedBuckets : b.bucket_id = o.bucket_id
    /\ \A o, p \in SeedObjects : o.bucket_id = p.bucket_id /\ o.name = p.name => o = p

\* The tables created by SCHEMA hold rows of these shapes.
TypeOK ==
    /\ users \subseteq UserInfo
    /\ access_keys \subseteq KeyRow
    /\ buckets \subseteq BucketInfo
    /\ objects \subseteq ObjectInfo

-----------------------------------------------------------------------------
(* Users *)

UserRows(uid) == {u \in users : u.user_id = uid}

HasUser(uid) == UserRows(uid) # {}

\* load_user, when it does not fail with NoSuchUser (~HasUser).
load_user(uid) == CHOOSE u \in users : u.user_id = uid

\* The users the access_keys JOIN users query can return for a key.
KeyHolders(key) ==
    {u \in users : \E row \in access_keys : row.access_key = key /\ row.uid = u.user_id}

\* load_user_by_access_key, when KeyHolders is not empty.
load_user_by_access_key(key) == CHOOSE u \in KeyHolders(key) : TRUE

EmailHolders(email) == {u \in users : email # NoEmail /\ u.user_email = email}

\* load_user_by_email: ORDER BY uid LIMIT 1.
load_user_by_email(email) ==
    CHOOSE u \in EmailHolders(email) : \A v \in EmailHolders(email) : u.user_id <= v.user_id

\* Some key of `info` is in the index under another user.
HoldsForeignKey(info) ==
    \E row \in access_keys : row.access_key \in info.access_keys /\ row.uid # info.user_id

\* Mutant of StoreUserResult: the KeyExists check is left to the caller.
StoreUserResultKeyUnchecked(info, exclusive) ==
    IF exclusive /\ HasUser(info.user_id) THEN "UserAlreadyExists" ELSE "Ok"

StoreUserResult(info, exclusive) ==
    IF exclusive /\ HasUser(info.user_id) THEN "UserAlreadyExists"
    ELSE IF HoldsForeignKey(info) THEN "KeyExists"
    ELSE "Ok"

\* DELETE the user's index rows, then INSERT one per key of the record.
IndexAfterStore(info) ==
    {row \in access_keys : row.uid # info.user_id}
        \cup {[access_key |-> k, uid |-> info.user_id] : k \in info.access_keys}

\* INSERT ... ON CONFLICT(uid) DO UPDATE.
UpsertUser(info) == {u \in users : u.user_id # info.user_id} \cup {info}

store_user(info, exclusive) ==
    /\ IF StoreUserResult(info, exclusive) = "Ok"
       THEN /\ users' = UpsertUser(info)
            /\ access_keys' = IndexAfterStore(info)
       ELSE UNCHANGED <<users, access_keys>>
    /\ UNCHANGED <<buckets, objects>>

RemoveUserResult(uid) == IF HasUser(uid) THEN "Ok" ELSE "NoSuchUser"

\* DELETE FROM users; the index rows go by ON DELETE CASCADE, the buckets stay.
remove_user(uid) ==
    /\ IF RemoveUserResult(uid) = "Ok"
       THEN /\ users' = {u \in users : u.user_id # uid}
            /\ access_keys' = {row \in access_keys : row.uid # uid}
       ELSE UNCHANGED <<users, access_keys>>
    /\ UNCHANGED <<buckets, objects>>

-----------------------------------------------------------------------------
(* Buckets *)

HasBucket(name) == \E b \in buckets : b.name = name

\* load_bucket, when it does not fail with NoSuchBucket (~HasBucket).
load_bucket(name) == CHOOSE b \in buckets : b.name = name

\* check_bucket: the instance still exists.
check_bucket(id) == \E b \in buckets : b.bucket_id = id

\* Mutant of CreateBucketResult: only the instance id is checked.
CreateBucketResultIdOnly(info) ==
    IF check_bucket(info.bucket_id) THEN "BucketAlreadyExists" ELSE "Ok"

CreateBucketResult(info) ==
    IF check_bucket(info.bucket_id) \/ HasBucket(info.name) THEN "BucketAlreadyExists" ELSE "Ok"

create_bucket(info) ==
    /\ buckets' = IF CreateBucketResult(info) = "Ok" THEN buckets \cup {info} ELSE buckets
    /\ UNCHANGED <<users, access_keys, objects>>

\* The rows of `objects` in one bucket instance.
ObjectsOf(id) == {o \in objects : o.bucket_id = id}

RemoveBucketResult(name) ==
    IF ~HasBucket(name) THEN "NoSuchBucket"
    ELSE IF ObjectsOf(load_bucket(name).bucket_id) # {} THEN "BucketNotEmpty"
    ELSE "Ok"

remove_bucket(name) ==
    /\ buckets' = IF RemoveBucketResult(name) = "Ok"
                  THEN {b \in buckets : b.bucket_id # load_bucket(name).bucket_id}
                  ELSE buckets
    /\ UNCHANGED <<users, access_keys, objects>>

(***************************************************************************)
(* One page of rows ordered by name: the first `max` after the marker.     *)
(* The row after them decides is_truncated; next_marker is the last name   *)
(* on the page and stays empty (0) on an empty one.                        *)
(***************************************************************************)
PageOf(rows, max) == {x \in rows : Cardinality({y \in rows : y.name < x.name}) < max}

IsLast(x, page) == \A y \in page : y.name <= x.name

LastName(page) ==
    IF \E x \in page : IsLast(x, page) THEN (CHOOSE x \in page : IsLast(x, page)).name ELSE 0

Page(rows, max) ==
    [entries      |-> PageOf(rows, max),
     is_truncated |-> PageOf(rows, max) # rows,
     next_marker  |-> LastName(PageOf(rows, max))]

\* WHERE ?2 IS NULL OR owner = ?2.
OwnedBy(owner) == {b \in buckets : owner = None \/ b.owner = owner[1]}

list_buckets(owner, marker, max) == Page({b \in OwnedBy(owner) : b.name > marker}, max)

-----------------------------------------------------------------------------
(* Objects *)

HasObject(id, name) == \E o \in objects : o.bucket_id = id /\ o.name = name

\* load_object's outcome, and its row when that is "Ok".
LoadObjectResult(id, name) ==
    IF ~check_bucket(id) THEN "NoSuchBucket"
    ELSE IF ~HasObject(id, name) THEN "NoSuchKey"
    ELSE "Ok"

load_object(id, name) == CHOOSE o \in objects : o.bucket_id = id /\ o.name = name

\* get_object: the row, the range resolved against its size, InvalidRange if it cannot be.
GetObjectResult(id, name, range) ==
    IF LoadObjectResult(id, name) # "Ok" THEN LoadObjectResult(id, name)
    ELSE IF /\ range # NoRange
            /\ driver_resolve_range(range, load_object(id, name).data) = Unsatisfiable
         THEN "InvalidRange"
    ELSE "Ok"

\* list_objects with the default parameters: no prefix, no delimiter.
list_objects(id, marker, max) == Page({o \in ObjectsOf(id) : o.name > marker}, max)

PutObjectResult(info) == IF check_bucket(info.bucket_id) THEN "Ok" ELSE "NoSuchBucket"

\* INSERT OR REPLACE on the key (bucket_id, name).
ReplaceObject(info) ==
    {o \in objects : o.bucket_id # info.bucket_id \/ o.name # info.name} \cup {info}

put_object(info) ==
    /\ objects' = IF PutObjectResult(info) = "Ok" THEN ReplaceObject(info) ELSE objects
    /\ UNCHANGED <<users, access_keys, buckets>>

DeleteObjectResult(id, name) == LoadObjectResult(id, name)

delete_object(id, name) ==
    /\ objects' = IF check_bucket(id)
                  THEN {o \in objects : o.bucket_id # id \/ o.name # name}
                  ELSE objects
    /\ UNCHANGED <<users, access_keys, buckets>>

-----------------------------------------------------------------------------
(***************************************************************************)
(* The store on its own: any sequence of calls with any arguments.         *)
(***************************************************************************)
DriverInit ==
    /\ users = SeedUsers
    /\ access_keys = {row \in KeyRow : \E u \in SeedUsers :
                        row.uid = u.user_id /\ row.access_key \in u.access_keys}
    /\ buckets = SeedBuckets
    /\ objects = SeedObjects

DriverNext ==
    \/ \E info \in UserInfo, exclusive \in BOOLEAN : store_user(info, exclusive)
    \/ \E uid \in Uid : remove_user(uid)
    \/ \E info \in BucketInfo : create_bucket(info)
    \/ \E name \in BucketName : remove_bucket(name)
    \/ \E info \in ObjectInfo : put_object(info)
    \/ \E id \in BucketId, name \in ObjectName : delete_object(id, name)

DriverSpec == DriverInit /\ [][DriverNext]_store

-----------------------------------------------------------------------------
(***************************************************************************)
(* The access key index says exactly what the user records say: the code   *)
(* keeps keys twice, in the JSON of `users` and in `access_keys`, and      *)
(* authentication goes through the second and then looks into the first.   *)
(***************************************************************************)
KeyIndexMirrorsUsers ==
    /\ \A row \in access_keys :
          \E u \in users : u.user_id = row.uid /\ row.access_key \in u.access_keys
    /\ \A u \in users : \A k \in u.access_keys :
          [access_key |-> k, uid |-> u.user_id] \in access_keys

(***************************************************************************)
(* An access key identifies one user (PRIMARY KEY of access_keys), and a   *)
(* uid one record: whoever signs with a key is one known user.             *)
(***************************************************************************)
AccessKeyIdentifiesUser ==
    /\ \A r, s \in access_keys : r.access_key = s.access_key => r = s
    /\ \A u, v \in users : u.user_id = v.user_id => u = v

(***************************************************************************)
(* A bucket name leads to one instance and an instance has one name        *)
(* (PRIMARY KEY and UNIQUE(tenant, name) of buckets).                      *)
(***************************************************************************)
BucketNamesOneInstance ==
    \A b, c \in buckets : b.bucket_id = c.bucket_id \/ b.name = c.name => b = c

(***************************************************************************)
(* Every object lies in a bucket that exists, and no bucket holds two      *)
(* objects of one name (REFERENCES and PRIMARY KEY of objects).            *)
(***************************************************************************)
ObjectsLieInBuckets ==
    /\ \A o \in objects : check_bucket(o.bucket_id)
    /\ \A o, p \in objects : o.bucket_id = p.bucket_id /\ o.name = p.name => o = p

\* Every constraint of SCHEMA and the agreement of the key index: inductive as it stands.
StoreConsistent ==
    /\ KeyIndexMirrorsUsers
    /\ AccessKeyIdentifiesUser
    /\ BucketNamesOneInstance
    /\ ObjectsLieInBuckets

=============================================================================
