\* BLOCK: three producers compete for one slot while two consumers free it
\* and a controller closes and reopens the queue.
SPECIFICATION SpecNoClear
CONSTANTS
    Producers = {p1, p2, p3}
    Consumers = {c1, c2}
    Controllers = {k1}
    MaxSize = 1
    Disposition = "BLOCK"
    MaxPuts = 1
    MaxControls = 1
SYMMETRY Symmetry
INVARIANTS  WithinCapacity NoLostSpaceWakeup
PROPERTY ImplementsChannel
