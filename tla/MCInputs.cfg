\* Numbers up to 5 in a Range header with the u64 bound at 4, objects of up to 4 bytes; delete
\* lists of up to three elements against a limit of two; names one byte over a limit of 7, which
\* four numbers with dots just fit; two known types; days of three ticks and a skew of one;
\* two faults on any body, the longest over the limit, the next when a unit of it is repeated.
CONSTANTS
    U64Max = 4
    MaxToken = 5
    MaxSize = 4
    Document <- MCDocument
    MAX_MULTI_DELETE = 2
    NoKey = NoKey
    MaxName = 7
    LongName = 8
    VALID_CAP_TYPES = {1, 2}
    CapsString <- MCCapsString
    Intent <- MCIntent
    Key <- MCKey
    Day = 3
    MaxSkew = 1
    Byte = {1, 2}
    Request <- MCRequest
    BodyLimit = 15
    MaxFaults = 2
SPECIFICATION Spec
INVARIANTS
    HeadReportsWhatGetServes
    ServesSelectedBytes
    DeleteReadAsWritten
    CutDeletesOnlyNamed
    NamesAreLabels
    CapsReadBackAsPairs
    HandledAsSigned
    ReplayWindow
    SignedPayloadIntact
    ChecksumNoticesOneFault
    WellFormedDelivered
PROPERTIES
    SpellingsAccepted
\* A request that has been served is the end of its behaviour.
CHECK_DEADLOCK FALSE
