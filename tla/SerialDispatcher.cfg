\* Two threads, of which the second has a flag outside the mask; rings of two
\* bytes to send and one received.
SPECIFICATION FairSpec
CONSTANTS
    Thread = {t1, t2}
    TxSize = 2
    RxSize = 1
    FlagBits = 1
    NoThread = NoThread
    NoBuffer = NoBuffer
    MaxLen = 2
    MaxCalls = 4
    MaxEnds = 1
INVARIANTS
    UsersRegistered
    NothingLost
    BlockedTogether
    EveryReaderSees
PROPERTIES
    RefinesPort
    RingsEmptied
    CallsReturn
\* The threads stop at the bounds.
CHECK_DEADLOCK FALSE
