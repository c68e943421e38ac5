SPECIFICATION Spec
CONSTANTS
    b1 = b1
    b2 = b2
    app = app
    c1 = c1
    c2 = c2
    c3 = c3
    c4 = c4
    c5 = c5
    t1 = t1
    sn = sn
    user = user
    Targets <- MCBigTargets
    Bundles <- MCBundles
    BundleBinaries <- MCBigBundleBinaries
    Sha256 <- MCSha256
    Policies <- AllowBlock
    Messages = {""}
    EmptyMessage = ""
    Scopes <- MCTagScopes
    SerialNumber = sn
    PrimaryUser = user
    NoUser = NoUser
    BatchSize = 1
    MaxVersion = 1
    TagSets <- MCTags
    Cursors = {c1, c2, c3, c4}
    NoCursor = NoCursor
    NoCache = NoCache
    MaxEdits = 4
    MaxFaults = 0
    MaxLate = 0
    CanRemove = TRUE
SYMMETRY CursorSymmetry
PROPERTIES DoneMeansRemoved DoneMeansErased
