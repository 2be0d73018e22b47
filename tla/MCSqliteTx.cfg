CONSTANTS
    U64Max = 4
    Uid = {1, 2}
    AccessKey = {k1}
    Email = {}
    NoEmail = NoEmail
    Cap = {}
    BucketLimit <- MCLimit
    BucketName = {1}
    id1 = id1
    id2 = id2
    k1 = k1
    rgwd = rgwd
    radosgw_admin = radosgw_admin
    BucketId = {id1, id2}
    ObjectName = {1}
    Data = {0, 1, 2}
    PageSize = 1
    SeedUsers = {}
    SeedBuckets = {}
    SeedObjects = {}
    Conn = {rgwd, radosgw_admin}
    NoConn = NoConn
    NoTables = NoTables
    NoCall = NoCall
    Calls <- MCCalls
SPECIFICATION SqliteSpec
INVARIANTS
    KeyIndexMirrorsUsers
    AccessKeyIdentifiesUser
    BucketNamesOneInstance
    ObjectsLieInBuckets
    AnswersHeldOnce
    OnlyCallsHoldLocks
PROPERTIES
    DriverSpec
