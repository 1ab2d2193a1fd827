\* Requests race on a switch whose interceptors revert or abort.
SPECIFICATION FairSpec
CONSTANTS
    Switches = {1}
    Dependencies <- Alone
    Interceptors <- Mixed
    Requests <- AnyOfOne
    Serial = FALSE
    Threads = {1, 2}
    MaxRequests = 2
INVARIANT PendingHasRunner
PROPERTY RequestsEnd
