SPECIFICATION FairSpec
CONSTANTS
    m1 = m1
    m2 = m2
    p1 = p1
    p2 = p2
    Messages = {m1, m2}
    EventCount <- OneEventEach
    Publishers = {p1}
    BatchSize = 2
    DeleteBatchSize = 3
    ProcessCap = 1
    PublishCap = 1
    PublishedCap = 2
    DeleteCap = 1
    MaxInFlight = 4
    None = None
    MaxFaults = 1
    MaxTimeouts = 0
    MaxSignals = 1
PROPERTIES EventsDelivered MessagesDeleted
