SPECIFICATION ClientsSpec
CONSTANTS
    Clients = {a,b}
    Nobody = nobody
    Called = {"RegisterCallBack"}
    Trusts <- Trusted
    QueueSize = 2
\* Both are violated: the second is shown when the first is taken out.
PROPERTIES
    UnInitSticks
    FirstStaysRegistered
