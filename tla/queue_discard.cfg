\* DISCARD_OLDEST, with clear(): the threads implement the atomic channel.
SPECIFICATION Spec
CONSTANTS
    Producers = {p1, p2}
    Consumers = {c1}
    Controllers = {k1}
    MaxSize = 2
    Disposition = "DISCARD_OLDEST"
    MaxPuts = 2
    MaxControls = 2

PROPERTY ImplementsChannel
