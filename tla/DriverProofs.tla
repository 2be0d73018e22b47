---------------------------- MODULE DriverProofs ----------------------------
(***************************************************************************)
(* The store stays consistent under every sequence of driver calls, for    *)
(* every set of users, keys, buckets, objects and payloads.                *)
(***************************************************************************)
EXTENDS Auth, TLAPS

\* What a driver call returns or changes has the shape its table asks for.
LEMMA DriverTypeStep == TypeOK /\ [DriverNext]_store => TypeOK'
<1> SUFFICES ASSUME TypeOK, [DriverNext]_store PROVE TypeOK'
  OBVIOUS
<1>1. ASSUME NEW info \in UserInfo, NEW exclusive \in BOOLEAN, store_user(info, exclusive)
      PROVE  TypeOK'
  BY <1>1 DEF TypeOK, store_user, UpsertUser, IndexAfterStore, UserInfo, KeyRow
<1>2. ASSUME NEW uid \in Uid, remove_user(uid) PROVE TypeOK'
  BY <1>2 DEF TypeOK, remove_user
<1>3. ASSUME NEW info \in BucketInfo, create_bucket(info) PROVE TypeOK'
  BY <1>3 DEF TypeOK, create_bucket
<1>4. ASSUME NEW name \in BucketName, remove_bucket(name) PROVE TypeOK'
  BY <1>4 DEF TypeOK, remove_bucket
<1>5. ASSUME NEW info \in ObjectInfo, put_object(info) PROVE TypeOK'
  BY <1>5 DEF TypeOK, put_object, ReplaceObject
<1>6. ASSUME NEW id \in BucketId, NEW name \in ObjectName, delete_object(id, name)
      PROVE  TypeOK'
  BY <1>6 DEF TypeOK, delete_object
<1>7. CASE UNCHANGED store
  BY <1>7 DEF TypeOK, store
<1> QED
  BY <1>1, <1>2, <1>3, <1>4, <1>5, <1>6, <1>7 DEF DriverNext

\* store_user rewrites one user's record and index rows together.
LEMMA StoreUserConsistent ==
    ASSUME TypeOK, StoreConsistent, NEW info \in UserInfo, NEW exclusive \in BOOLEAN,
           store_user(info, exclusive)
    PROVE  StoreConsistent'
<1>1. CASE StoreUserResult(info, exclusive) = "Ok"
  <2>1. users' = UpsertUser(info) /\ access_keys' = IndexAfterStore(info)
    BY <1>1 DEF store_user
  <2>2. ~HoldsForeignKey(info)
    BY <1>1 DEF StoreUserResult
  <2>3. KeyIndexMirrorsUsers'
    BY <2>1 DEF StoreConsistent, KeyIndexMirrorsUsers, UpsertUser, IndexAfterStore, TypeOK,
                UserInfo, KeyRow
  <2>4. AccessKeyIdentifiesUser'
    BY <2>1, <2>2 DEF StoreConsistent, AccessKeyIdentifiesUser, UpsertUser, IndexAfterStore,
                      HoldsForeignKey, TypeOK, UserInfo, KeyRow
  <2>5. BucketNamesOneInstance' /\ ObjectsLieInBuckets'
    BY DEF store_user, StoreConsistent, BucketNamesOneInstance, ObjectsLieInBuckets, check_bucket
  <2> QED
    BY <2>3, <2>4, <2>5 DEF StoreConsistent
<1>2. CASE StoreUserResult(info, exclusive) # "Ok"
  BY <1>2 DEF store_user, StoreConsistent, KeyIndexMirrorsUsers, AccessKeyIdentifiesUser,
              BucketNamesOneInstance, ObjectsLieInBuckets, check_bucket
<1> QED
  BY <1>1, <1>2

\* remove_user takes the index rows with the record, by ON DELETE CASCADE.
LEMMA RemoveUserConsistent ==
    ASSUME TypeOK, StoreConsistent, NEW uid \in Uid, remove_user(uid)
    PROVE  StoreConsistent'
<1>1. KeyIndexMirrorsUsers'
  BY DEF remove_user, StoreConsistent, KeyIndexMirrorsUsers, TypeOK, UserInfo, KeyRow
<1>2. AccessKeyIdentifiesUser'
  BY DEF remove_user, StoreConsistent, AccessKeyIdentifiesUser
<1>3. BucketNamesOneInstance' /\ ObjectsLieInBuckets'
  BY DEF remove_user, StoreConsistent, BucketNamesOneInstance, ObjectsLieInBuckets, check_bucket
<1> QED
  BY <1>1, <1>2, <1>3 DEF StoreConsistent

\* create_bucket checks the id and the name before it inserts.
LEMMA CreateBucketConsistent ==
    ASSUME TypeOK, StoreConsistent, NEW info \in BucketInfo, create_bucket(info)
    PROVE  StoreConsistent'
<1>1. BucketNamesOneInstance'
  BY DEF create_bucket, CreateBucketResult, check_bucket, HasBucket, StoreConsistent,
         BucketNamesOneInstance
<1>2. ObjectsLieInBuckets'
  BY DEF create_bucket, StoreConsistent, ObjectsLieInBuckets, check_bucket
<1>3. KeyIndexMirrorsUsers' /\ AccessKeyIdentifiesUser'
  BY DEF create_bucket, StoreConsistent, KeyIndexMirrorsUsers, AccessKeyIdentifiesUser
<1> QED
  BY <1>1, <1>2, <1>3 DEF StoreConsistent

\* remove_bucket removes an instance only when no object row refers to it.
LEMMA RemoveBucketConsistent ==
    ASSUME TypeOK, StoreConsistent, NEW name \in BucketName, remove_bucket(name)
    PROVE  StoreConsistent'
<1>1. BucketNamesOneInstance'
  BY DEF remove_bucket, StoreConsistent, BucketNamesOneInstance
<1>2. ObjectsLieInBuckets'
  <2>1. CASE RemoveBucketResult(name) = "Ok"
    <3>1. ObjectsOf(load_bucket(name).bucket_id) = {}
      BY <2>1 DEF RemoveBucketResult
    <3> QED
      BY <2>1, <3>1 DEF remove_bucket, StoreConsistent, ObjectsLieInBuckets, check_bucket,
                        ObjectsOf
  <2>2. CASE RemoveBucketResult(name) # "Ok"
    BY <2>2 DEF remove_bucket, StoreConsistent, ObjectsLieInBuckets, check_bucket
  <2> QED
    BY <2>1, <2>2
<1>3. KeyIndexMirrorsUsers' /\ AccessKeyIdentifiesUser'
  BY DEF remove_bucket, StoreConsistent, KeyIndexMirrorsUsers, AccessKeyIdentifiesUser
<1> QED
  BY <1>1, <1>2, <1>3 DEF StoreConsistent

\* put_object and delete_object touch one (bucket_id, name) of an existing instance.
LEMMA ObjectCallsConsistent ==
    ASSUME TypeOK, StoreConsistent,
           \/ \E info \in ObjectInfo : put_object(info)
           \/ \E id \in BucketId, name \in ObjectName : delete_object(id, name)
    PROVE  StoreConsistent'
<1>1. UNCHANGED <<users, access_keys, buckets>>
  BY DEF put_object, delete_object
<1>2. ObjectsLieInBuckets'
  BY <1>1 DEF put_object, PutObjectResult, ReplaceObject, delete_object, check_bucket,
              StoreConsistent, ObjectsLieInBuckets
<1>3. KeyIndexMirrorsUsers' /\ AccessKeyIdentifiesUser' /\ BucketNamesOneInstance'
  BY <1>1 DEF StoreConsistent, KeyIndexMirrorsUsers, AccessKeyIdentifiesUser,
              BucketNamesOneInstance
<1> QED
  BY <1>2, <1>3 DEF StoreConsistent

\* Every driver call keeps the store consistent.
LEMMA DriverStepConsistent ==
    TypeOK /\ StoreConsistent /\ [DriverNext]_store => StoreConsistent'
<1> SUFFICES ASSUME TypeOK, StoreConsistent, [DriverNext]_store PROVE StoreConsistent'
  OBVIOUS
<1>1. CASE UNCHANGED store
  BY <1>1 DEF store, StoreConsistent, KeyIndexMirrorsUsers, AccessKeyIdentifiesUser,
              BucketNamesOneInstance, ObjectsLieInBuckets, check_bucket
<1>2. CASE DriverNext
  BY <1>2, StoreUserConsistent, RemoveUserConsistent, CreateBucketConsistent,
     RemoveBucketConsistent, ObjectCallsConsistent DEF DriverNext
<1> QED
  BY <1>1, <1>2

\* A database file that satisfies SCHEMA's constraints is consistent when opened.
LEMMA DriverInitConsistent == DriverInit => TypeOK /\ StoreConsistent
<1> SUFFICES ASSUME DriverInit PROVE TypeOK /\ StoreConsistent
  OBVIOUS
<1>1. TypeOK
  BY SeedAssumption DEF DriverInit, TypeOK
<1>2. KeyIndexMirrorsUsers
  BY SeedAssumption DEF DriverInit, KeyIndexMirrorsUsers, KeyRow, UserInfo
<1>3. AccessKeyIdentifiesUser
  BY SeedAssumption DEF DriverInit, AccessKeyIdentifiesUser, KeyRow, UserInfo
<1>4. BucketNamesOneInstance /\ ObjectsLieInBuckets
  BY SeedAssumption DEF DriverInit, BucketNamesOneInstance, ObjectsLieInBuckets, check_bucket
<1> QED
  BY <1>1, <1>2, <1>3, <1>4 DEF StoreConsistent

(***************************************************************************)
(* Type correctness and consistency of the store: no driver call, whatever *)
(* its arguments, can break the agreement of the key index with the user   *)
(* records or run into one of SCHEMA's constraints.                        *)
(***************************************************************************)
THEOREM DriverConsistent == DriverSpec => [](TypeOK /\ StoreConsistent)
<1>1. DriverInit => TypeOK /\ StoreConsistent
  BY DriverInitConsistent
<1>2. TypeOK /\ StoreConsistent /\ [DriverNext]_store => (TypeOK /\ StoreConsistent)'
  BY DriverTypeStep, DriverStepConsistent
<1> QED
  BY <1>1, <1>2, PTL DEF DriverSpec

-----------------------------------------------------------------------------
(* What the reading calls return *)

\* A listing's marker is a number, whatever the page.
LEMMA LastNameType ==
    ASSUME NEW page, \A x \in page : x.name \in Nat
    PROVE  LastName(page) \in Nat
<1>1. CASE \E x \in page : IsLast(x, page)
  <2>1. (CHOOSE x \in page : IsLast(x, page)) \in page
    BY <1>1
  <2> QED
    BY <1>1, <2>1 DEF LastName
<1>2. CASE ~\E x \in page : IsLast(x, page)
  BY <1>2 DEF LastName
<1> QED
  BY <1>1, <1>2

\* A page of buckets holds bucket rows and a numeric marker.
LEMMA BucketPageType ==
    ASSUME TypeOK, NEW owner, NEW marker
    PROVE  /\ list_buckets(owner, marker, PageSize).entries \subseteq buckets
           /\ list_buckets(owner, marker, PageSize).next_marker \in Nat
<1> DEFINE rows == {b \in OwnedBy(owner) : b.name > marker}
<1>1. PageOf(rows, PageSize) \subseteq rows
  BY DEF PageOf
<1>2. rows \subseteq buckets
  BY DEF OwnedBy
<1>3. \A x \in PageOf(rows, PageSize) : x.name \in Nat
  BY <1>1, <1>2, DriverAssumption DEF TypeOK, BucketInfo
<1>4. LastName(PageOf(rows, PageSize)) \in Nat
  BY <1>3, LastNameType
<1> QED
  BY <1>1, <1>2, <1>4 DEF list_buckets, Page

\* load_bucket returns a row of the table.
LEMMA LoadBucketType ==
    ASSUME NEW name, HasBucket(name)
    PROVE  load_bucket(name) \in buckets /\ load_bucket(name).name = name
  BY DEF HasBucket, load_bucket

\* A page of objects holds rows of that bucket and a numeric marker.
LEMMA ObjectPageType ==
    ASSUME TypeOK, NEW id, NEW marker
    PROVE  /\ list_objects(id, marker, PageSize).entries \subseteq objects
           /\ list_objects(id, marker, PageSize).next_marker \in Nat
           /\ list_objects(id, marker, PageSize).is_truncated \in BOOLEAN
<1> DEFINE rows == {o \in ObjectsOf(id) : o.name > marker}
<1>1. PageOf(rows, PageSize) \subseteq rows
  BY DEF PageOf
<1>2. rows \subseteq objects
  BY DEF ObjectsOf
<1>3. \A x \in PageOf(rows, PageSize) : x.name \in Nat
  BY <1>1, <1>2, DriverAssumption DEF TypeOK, ObjectInfo
<1>4. LastName(PageOf(rows, PageSize)) \in Nat
  BY <1>3, LastNameType
<1> QED
  BY <1>1, <1>2, <1>4 DEF list_objects, Page

\* verify grants an identity: nobody, or a stored user.
LEMMA VerifyType ==
    ASSUME TypeOK, NEW credential
    PROVE  /\ verify(credential).code \in {"Ok", "InvalidAccessKeyId", "UserSuspended"}
           /\ verify(credential).identity \in Identity
<1>1. KeyHolders(credential) # {} => load_user_by_access_key(credential) \in users
  BY DEF load_user_by_access_key, KeyHolders
<1> QED
  BY <1>1 DEF verify, Denied, Granted, Identity, TypeOK

=============================================================================
