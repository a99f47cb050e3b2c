\* Two clients with three requests and a mailbox of two blocks.
\* A client that met a null response stops, the system may end there.
CHECK_DEADLOCK FALSE
SPECIFICATION FairSpec
CONSTANTS
    c1 = c1
    c2 = c2
    q1 = q1
    q2 = q2
    q3 = q3
    Client = {c1, c2}
    Request = {q1, q2, q3}
    OwnerOf <- Owners
    QueueSize = 2
    Nobody = Nobody
    Worker = Worker
    NoRequest = NoRequest
INVARIANTS
    TypeOK
    BlocksAccounted
    RequestOutlivesTransaction
    NoLostCompletion
    MutualExclusion
    NullOnlyWhenFull
PROPERTIES
    RefinesService
    ServiceProgress
    CallsReturn
    DestroyReturns
