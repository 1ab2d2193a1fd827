\* Calls and publications by ZMQ, and log messages on their way.
SPECIFICATION Spec
CONSTANTS
    c1 = c1
    c2 = c2
    h1 = h1
    h2 = h2
    h3 = h3
    t1 = t1
    t2 = t2
    RpcClients = {c1, c2}
    Kinds = {"method", "raises", "nomethod", "nointerface"}
    NoAddress = NoAddress
    Given <- MCGiven
    Settings <- MCSettings
    MaxCalls = 3
    MaxStarts = 3
    Threads <- MCThreads
    TopicOf <- MCTopicOf
    Publisher <- MCPublisher
    Handlers = {h1, h2, h3}
    FilterOf <- MCFilterOf
    StartsWith <- MCStartsWith
    MaxPublished = 2
    MaxChanges = 4
    MaxWire = 2
    Loggers = {t1, t2}
    Transports = {"grpc", "zmq"}
    LogQueueSize = 2
    Waits = TRUE
    Deinits = TRUE
    MaxOpens = 2
    MaxMessages = 2
    MaxDowns = 1
INVARIANTS CallsHold HandlersHearTheirs 
  
CHECK_DEADLOCK FALSE
