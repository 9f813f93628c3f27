SPECIFICATION ClientsSpec
CONSTANTS
    Clients = {a, b}
    Nobody = nobody
    Called <- Some
    Trusts <- Models
    QueueSize = 2
SYMMETRY Symmetry
INVARIANTS
    ReachedAsAllowed
    AnswersAreTrue
    NoOrphanCallBack
CHECK_DEADLOCK FALSE
