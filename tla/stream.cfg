\* A client watches two signals through broken streams and server restarts.
SPECIFICATION FairSpec
CONSTANTS
    NumSignals = 2
    Keys = {k}
    MaxStreams = 2
    MaxEmits = 2
INVARIANT NothingMissed
PROPERTIES CompleteMeansReplayed MirrorCatchesUp
CHECK_DEADLOCK FALSE
