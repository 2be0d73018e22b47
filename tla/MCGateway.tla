----------------------------- MODULE MCGateway -----------------------------
(***************************************************************************)
(* Instances of Gateway for TLC: who the users are, what the database      *)
(* holds at the start, and which requests are sent.  Every bound is here   *)
(* or in the .cfg file.                                                    *)
(***************************************************************************)
EXTENDS Gateway, TLC

CONSTANTS ak1, ak2, ak3, id1, id2, id3, e1

(* Users 1, 2 and 3 sign with ak1, ak2 and ak3.                            *)

User(uid, key, limit) ==
    [user_id |-> uid, user_email |-> NoEmail, access_keys |-> {key}, caps |-> {},
     suspended |-> FALSE, max_buckets |-> limit, system |-> FALSE, admin |-> FALSE]

OneUser      == {User(1, ak1, 0)}
TwoUsers     == {User(1, ak1, 0), User(2, ak2, 0)}
LimitedUser  == {User(1, ak1, 2)}
Limits       == {-1, 0, 2}

Bucket(id, name, owner) == [bucket_id |-> id, name |-> name, owner |-> owner]
Object(id, name, owner, data) ==
    [bucket_id |-> id, name |-> name, owner |-> owner, data |-> data]

OneBucket  == {Bucket(id1, 1, 1)}
SteadyBucket == {Bucket(id1, 2, 1)}
TwoBuckets == {Bucket(id1, 1, 1), Bucket(id2, 2, 1)}
OneObject  == {Object(id1, 1, 1, 0)}
TwoObjects == {Object(id1, 1, 1, 0), Object(id1, 2, 1, 0)}

(* S3 requests *)

S3(op, key, name, keys, data) ==
    [op |-> op, credential |-> key, name |-> name, keys |-> keys, data |-> data,
     intact |-> TRUE, quiet |-> FALSE, range |-> NoRange]

Ranged(op, key, range) == [S3(op, key, 1, <<1>>, 0) EXCEPT !.range = range]

\* Both users fight over one bucket name; the owner works on its objects.
BucketFight ==
    {S3(op, k, 1, <<1>>, 0) : op \in {"create_bucket", "delete_bucket"}, k \in {ak1, ak2}}
        \cup {S3(op, ak1, 1, <<1>>, 0) : op \in {"put_object", "delete_object"}}
        \cup {[S3("delete_multi", ak1, 1, <<1, 2, 1>>, 0) EXCEPT !.quiet = b] : b \in BOOLEAN}

\* The same with every kind of request, damaged payloads and strangers.
EveryRequest ==
    BucketFight
        \cup {S3(op, k, 1, <<1>>, 0) : op \in {"list_objects", "stat_bucket"},
                                      k \in {ak1, ak3, Anonymous}}
        \cup {S3("create_bucket", Anonymous, 1, <<1>>, 0), S3("get_location", ak2, 1, <<1>>, 0)}
        \cup {[S3("put_object", ak1, 1, <<1>>, 0) EXCEPT !.intact = FALSE]}
        \cup {Ranged("get_object", ak1, Absolute(0, Open)), Ranged("head_object", ak1, NoRange)}

\* Downloads of a range that overwrites make and unmake satisfiable.
RangeRequests ==
    {Ranged(op, ak1, r) : op \in {"get_object", "head_object"}, r \in {Absolute(1, Open), NoRange}}
        \cup {S3("put_object", ak1, 1, <<1>>, d) : d \in Data}
        \cup {S3("delete_object", ak1, 1, <<1>>, 0), S3("delete_bucket", ak1, 1, <<1>>, 0)}

Creations == {S3("create_bucket", ak1, n, <<1>>, 0) : n \in BucketName}

\* Listing and counting while buckets on both sides of the second come, and the one before it goes.
Churn == {S3("create_bucket", ak1, n, <<1>>, 0) : n \in {1, 3, 4}}
            \cup {S3("delete_bucket", ak1, 1, <<1>>, 0)}
            \cup {S3("list_buckets", ak1, 1, <<1>>, 0)}

\* What the owner of a bucket does while it is being purged.
Uploads ==
    {S3("put_object", ak1, 1, <<n>>, 0) : n \in ObjectName}
        \cup {S3(op, ak1, 1, <<2>>, 0) : op \in {"create_bucket", "delete_bucket", "delete_object"}}

(* Tasks are interchangeable, and so are the ids no bucket has at the start.  *)
NewId == BucketId \ {b.bucket_id : b \in SeedBuckets}

Interchangeable == Permutations(S3Req) \cup Permutations(NewId)

(* Admin operations, from the command line unless said otherwise *)

Admin(op, uid) ==
    [op |-> op, credential |-> Cli, uid |-> uid, email |-> None, key |-> None,
     generate |-> FALSE, caps |-> {}, suspended |-> None, system |-> None, admin |-> None,
     max_buckets |-> None, owner |-> None, name |-> 1, stats |-> FALSE, purge |-> FALSE]

\* Creating, editing and removing users who want the same email and the same key.
UserEdits ==
    {[Admin("user_create", u) EXCEPT !.email = Some(e1), !.key = Some(ak1)] : u \in Uid}
        \cup {[Admin("user_modify", u) EXCEPT !.email = Some(e)] : u \in Uid, e \in {e1, NoEmail}}
        \cup {[Admin("key_create", u) EXCEPT !.generate = TRUE] : u \in Uid}
        \cup {[Admin("key_remove", u) EXCEPT !.key = Some(ak1)] : u \in Uid}
        \cup {Admin("user_remove", u) : u \in Uid}

\* The same over REST by user 1, with capabilities, flags and malformed parameters.
Rest(op, uid, key) == [Admin(op, uid) EXCEPT !.credential = key]

RestEdits ==
    {[Rest("caps_add", 2, k) EXCEPT !.caps = Cap] : k \in {ak1, ak2, ak3, Anonymous}}
        \cup {[Rest("caps_remove", 2, k) EXCEPT !.caps = Cap] : k \in {ak1, ak2}}
        \cup {Rest(op, 2, ak1) : op \in {"caps_add", "key_remove", "key_create", "user_info"}}
        \cup {[Admin("user_modify", 2) EXCEPT !.suspended = Some(s)] : s \in BOOLEAN}
        \cup {[Admin("user_modify", 2) EXCEPT !.admin = Some(s), !.max_buckets = Some(2)]
                   : s \in BOOLEAN}

SerialEdits == UserEdits \cup RestEdits

Administrator == {[User(1, ak1, 0) EXCEPT !.caps = Cap], User(2, ak2, 0)}

\* Removing users and buckets with and without their contents, and looking at them.
Removals ==
    {[Admin("user_remove", 1) EXCEPT !.purge = p] : p \in BOOLEAN}
        \cup {[Admin("bucket_remove", 1) EXCEPT !.purge = p] : p \in BOOLEAN}
        \cup {Admin("bucket_info", 1)}
        \cup {Rest("bucket_list", 1, k) : k \in {ak1, ak2}}
        \cup {[Rest("bucket_list", 1, ak2) EXCEPT !.owner = o, !.stats = TRUE] : o \in {None, Some(2)}}

BucketAdmin == {User(1, ak1, 0), [User(2, ak2, 0) EXCEPT !.caps = Cap]}

\* The edits of the races.
RemoveOwner == {Admin("user_remove", 1)}
AddKeys     == {[Admin("key_create", 1) EXCEPT !.key = Some(k)] : k \in {ak2, ak3}}

=============================================================================
