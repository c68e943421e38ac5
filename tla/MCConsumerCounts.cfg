SPECIFICATION Spec
CONSTANTS
    m1 = m1
    m2 = m2
    p1 = p1
    p2 = p2
    Messages = {m1, m2}
    EventCount <- TwoAndNone
    Publishers = {p1, p2}
    BatchSize = 1
    DeleteBatchSize = 2
    ProcessCap = 1
    PublishCap = 1
    PublishedCap = 2
    DeleteCap = 1
    MaxInFlight = 4
    None = None
    MaxFaults = 1
    MaxTimeouts = 1
    MaxSignals = 0
SYMMETRY PublisherSymmetry
INVARIANTS TypeOK EventsCounted
