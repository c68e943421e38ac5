SPECIFICATION Spec
CONSTANTS
    b1 = b1
    b2 = b2
    app = app
    c1 = c1
    c2 = c2
    c3 = c3
    c4 = c4
    c5 = c5
    t1 = t1
    sn = sn
    user = user
    Targets <- MCTargets
    Bundles <- MCNoBundles
    BundleBinaries <- MCNoBundleBinaries
    Sha256 <- MCSha256
    Policies <- AllowBlock
    Messages = {"", "m"}
    EmptyMessage = ""
    Scopes <- MCEverywhere
    SerialNumber = sn
    PrimaryUser = user
    NoUser = NoUser
    BatchSize = 1
    MaxVersion = 3
    TagSets <- MCNoTags
    Cursors = {c1, c2, c3, c4, c5}
    NoCursor = NoCursor
    NoCache = NoCache
    MaxEdits = 4
    MaxFaults = 1
    MaxLate = 1
    CanRemove = FALSE
SYMMETRY CursorSymmetry
INVARIANTS MessagesTold
PROPERTIES DoneMeansCurrentMessage
