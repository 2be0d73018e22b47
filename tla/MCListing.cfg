\* A client lists page by page while keys are put and deleted; users are listed likewise.
CONSTANTS
    Name <- MCName
    ListArgs <- MCListArgs
    MAX_KEYS = 2
    Uid <- MCUid
    MaxEntries = {0, 1, 3}
    Dollar = 0
    DEFAULT_MAX_ENTRIES = 2
SPECIFICATION MCSpec
INVARIANTS
    PageHoldsFirstEntries
    ListedInOrderOnce
    SteadyKeysListed
    SteadyUsersListed
PROPERTIES
    MarkersAdvance
    UserListingEnds
