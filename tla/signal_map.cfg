\* Two threads emit, clear, connect and synchronize a caching signal.
SPECIFICATION Spec
CONSTANTS
    Threads = {t1, t2}
    Handles = {h1, h2}
    Keys = {k1, k2}
    Values = {v1, v2}
    Caching = TRUE
    MaxCalls = 5
SYMMETRY Symmetry
INVARIANT ViewsFollowCache
PROPERTY SynchronizeInstalls
