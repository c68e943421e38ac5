SPECIFICATION FairSpec
CONSTANTS
    b1 = b1
    b2 = b2
    app = app
    c1 = c1
    c2 = c2
    c3 = c3
    c4 = c4
    c5 = c5
    t1 = t1
    sn = sn
    user = user
    Targets <- MCTargets
    Bundles <- MCNoBundles
    BundleBinaries <- MCNoBundleBinaries
    Sha256 <- MCSha256
    Policies <- AllowBlock
    Messages = {""}
    EmptyMessage = ""
    Scopes <- MCTagScopes
    SerialNumber = sn
    PrimaryUser = user
    NoUser = NoUser
    BatchSize = 1
    MaxVersion = 1
    TagSets <- MCTags
    Cursors = {c1, c2, c3, c4}
    NoCursor = NoCursor
    NoCache = NoCache
    MaxEdits = 2
    MaxFaults = 1
    MaxLate = 1
    CanRemove = TRUE
PROPERTIES SyncEnds Converges
