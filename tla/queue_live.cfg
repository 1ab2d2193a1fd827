\* BLOCK, without clear(): nobody is left behind.
SPECIFICATION FairSpecNoClear
CONSTANTS
    Producers = {p1, p2}
    Consumers = {c1}
    Controllers = {k1}
    MaxSize = 1
    Disposition = "BLOCK"
    MaxPuts = 1
    MaxControls = 2
PROPERTIES BlockedPutEnds CloseReleasesGet ItemsLeave
