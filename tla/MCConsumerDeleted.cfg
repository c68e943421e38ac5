SPECIFICATION Spec
CONSTANTS
    m1 = m1
    m2 = m2
    p1 = p1
    p2 = p2
    Messages = {m1}
    EventCount <- TwoEventsOnly
    Publishers = {p1}
    BatchSize = 1
    DeleteBatchSize = 2
    ProcessCap = 1
    PublishCap = 1
    PublishedCap = 2
    DeleteCap = 1
    MaxInFlight = 4
    None = None
    MaxFaults = 0
    MaxTimeouts = 0
    MaxSignals = 0
INVARIANTS DeletedPublished
