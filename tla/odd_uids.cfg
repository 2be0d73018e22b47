\* Users whose ids start with a dollar sign, two to a page.
CONSTANTS
    Name = {}
    ListArgs <- MCListArgs
    MAX_KEYS = 2
    Uid <- DollarUid
    MaxEntries = {0}
    Dollar = 0
    DEFAULT_MAX_ENTRIES = 2
SPECIFICATION MCSpec
INVARIANTS
    EveryUserListed
