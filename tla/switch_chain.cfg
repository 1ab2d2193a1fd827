\* A chain of switches with interceptors in all phases, one request at a time.
SPECIFICATION Spec
CONSTANTS
    Switches = {1, 2, 3}
    Dependencies <- Chain
    Interceptors <- Lenient
    Requests <- PoliciesOfOne
    Serial = TRUE
    Threads = {1, 2, 3}
    MaxRequests = 3
INVARIANTS   AnnouncedAtRest
