\* A user who may own two buckets, two tasks, four names, one bucket to a page.
\* The second bucket is there from the start and stays.
CONSTANTS
    U64Max = 4
    Uid = {1, 2}
    AccessKey = {ak1, ak2, ak3}
    ak1 = ak1
    ak2 = ak2
    ak3 = ak3
    id1 = id1
    id2 = id2
    id3 = id3
    e1 = e1
    Email = {}
    NoEmail = NoEmail
    Cap = {cap}
    UsersRead = cap
    UsersWrite = cap
    BucketsRead = cap
    BucketsWrite = cap
    BucketLimit <- Limits
    DefaultLimit = 0
    BucketName = {1, 2, 3, 4}
    BucketId = {id1, id2, id3, id4}
    ObjectName = {1}
    Data = {0}
    PageSize = 1
    KEYGEN_ATTEMPTS = 2
    Anonymous = Anonymous
    Cli = Cli
    NoCall = NoCall
    NoAdminCall = NoAdminCall
    NoBucket = NoBucket
    NoInstance = NoInstance
    NoUser = NoUser
    S3Req = {r1, r2}
    AdminReq = {}
    S3Call <- Churn
    AdminCall = {}
    SeedUsers <- LimitedUser
    SeedBuckets <- SteadyBucket
    SeedObjects = {}
SPECIFICATION FairSpec
INVARIANTS
    QuotaOvershootBounded
    ListingsShowSteadyBuckets
PROPERTIES
    S3RequestsEnd
