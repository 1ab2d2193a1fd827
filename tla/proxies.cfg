\* A client's mirror of the server's signals, and a board of local switches.
SPECIFICATION Spec
CONSTANTS
    readings = readings
    alarm = alarm
    k1 = k1
    v1 = v1
    v2 = v2
    s1 = s1
    a1 = a1
    en = en
    c1 = c1
    t1 = t1
    t2 = t2
    None = None
    Nil = Nil
    Names = {readings, alarm}
    EventNames = {alarm}
    Order <- MCOrder
    Mappings <- MCMappings
    Client <- MCClient
    Updates <- MCUpdates
    Keys = {k1}
    Values = {v1, v2}
    Clients = {c1}
    Streams = {t1, t2}
    Workers = 1
    QueueSize = 3
    MaxEmits = 2
    SwitchNames = {s1, a1}
    Languages = {en}
    Handles <- MCHandles
    OtherRequests <- MCOtherRequests
    MaxRequests = 4
  
PROPERTIES WatchAnswers DeadStreamsEnd SignalsReceived
CHECK_DEADLOCK FALSE
