\* One administrator at a time, three keys, one email that both users want.
CONSTANTS
    U64Max = 4
    Uid = {1, 2}
    AccessKey = {ak1, ak2, ak3}
    ak1 = ak1
    ak2 = ak2
    ak3 = ak3
    id1 = id1
    id2 = id2
    id3 = id3
    e1 = e1
    Email = {e1}
    NoEmail = NoEmail
    Cap = {cap}
    UsersRead = cap
    UsersWrite = cap
    BucketsRead = cap
    BucketsWrite = cap
    BucketLimit <- Limits
    DefaultLimit = 0
    BucketName = {1}
    BucketId = {id1}
    ObjectName = {1}
    Data = {0}
    PageSize = 1
    KEYGEN_ATTEMPTS = 2
    Anonymous = Anonymous
    Cli = Cli
    NoCall = NoCall
    NoAdminCall = NoAdminCall
    NoBucket = NoBucket
    NoInstance = NoInstance
    NoUser = NoUser
    S3Req = {}
    AdminReq = {a1}
    S3Call = {}
    AdminCall <- SerialEdits
    SeedUsers <- Administrator
    SeedBuckets = {}
    SeedObjects = {}
SPECIFICATION Spec
INVARIANTS
    EmailsUnique
PROPERTIES
    EditsKeepOtherKeys
    UsersAppearByCreation
