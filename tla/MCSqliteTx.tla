----------------------------- MODULE MCSqliteTx -----------------------------
(* rgwd and radosgw-admin on one database, each with the calls it makes.   *)
EXTENDS SqliteTx

CONSTANTS rgwd, radosgw_admin, k1, id1, id2

MCLimit == {0}

User(uid, keys) ==
    [user_id |-> uid, user_email |-> NoEmail, access_keys |-> keys, caps |-> {},
     suspended |-> FALSE, max_buckets |-> 0, system |-> FALSE, admin |-> FALSE]

Store(uid, keys, exclusive) ==
    [op |-> "store_user", info |-> User(uid, keys), exclusive |-> exclusive]

UserCalls ==
    {Store(1, {k1}, FALSE), Store(1, {}, FALSE), Store(2, {k1}, TRUE),
     [op |-> "remove_user", uid |-> 1]}

BucketCalls ==
    {[op |-> "remove_bucket", name |-> 1],
     [op |-> "delete_object", id |-> id1, name |-> 1],
     [op |-> "list_objects", id |-> id1]}

\* rgwd creates the buckets and the objects; the command line only ever removes them.
ServerCalls ==
    [op: {"create_bucket"}, info: [bucket_id: {id1, id2}, name: {1}, owner: {1}]]
        \cup [op: {"put_object"},
              info: [bucket_id: {id1}, name: {1}, owner: {1}, data: Data]]
        \cup [op: {"head_object", "get_object"}, id: {id1}, name: {1}]

MCCalls == [c \in Conn |->
    UserCalls \cup BucketCalls \cup IF c = rgwd THEN ServerCalls ELSE {}]
=============================================================================
