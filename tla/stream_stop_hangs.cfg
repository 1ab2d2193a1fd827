\* stop_watching() comes between the test of keepalive and the new context.
SPECIFICATION FairSpec
CONSTANTS
    NumSignals = 1
    Keys = {k}
    MaxStreams = 2
    MaxEmits = 1
PROPERTY StopEnds
CHECK_DEADLOCK FALSE
