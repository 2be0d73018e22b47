\* Two administrators add a key to the same user.
CONSTANTS
    U64Max = 4
    Uid = {1, 2}
    AccessKey = {ak1, ak2, ak3}
    ak1 = ak1
    ak2 = ak2
    ak3 = ak3
    id1 = id1
    id2 = id2
    id3 = id3
    e1 = e1
    Email = {}
    NoEmail = NoEmail
    Cap = {cap}
    UsersRead = cap
    UsersWrite = cap
    BucketsRead = cap
    BucketsWrite = cap
    BucketLimit = {0}
    DefaultLimit = 0
    BucketName = {1}
    BucketId = {id1, id2, id3}
    ObjectName = {1}
    Data = {0}
    PageSize = 1
    KEYGEN_ATTEMPTS = 2
    Anonymous = Anonymous
    Cli = Cli
    NoCall = NoCall
    NoAdminCall = NoAdminCall
    NoBucket = NoBucket
    NoInstance = NoInstance
    NoUser = NoUser
    S3Req = {}
    AdminReq = {a1, a2}
    S3Call = {}
    AdminCall <- AddKeys
    SeedUsers <- OneUser
    SeedBuckets = {}
    SeedObjects = {}
SPECIFICATION Spec
PROPERTIES
    EditsKeepOtherKeys
