SPECIFICATION Spec
CONSTANTS
    b1 = b1
    b2 = b2
    app = app
    c1 = c1
    c2 = c2
    c3 = c3
    c4 = c4
    c5 = c5
    t1 = t1
    sn = sn
    user = user
    Targets <- MCBundleTargets
    Bundles <- MCBundles
    BundleBinaries <- MCBundleBinaries
    Sha256 <- MCSha256
    Policies <- AllowBlock
    Messages = {""}
    EmptyMessage = ""
    Scopes <- MCEverywhere
    SerialNumber = sn
    PrimaryUser = user
    NoUser = NoUser
    BatchSize = 1
    MaxVersion = 1
    TagSets <- MCNoTags
    Cursors = {c1, c2, c3}
    NoCursor = NoCursor
    NoCache = NoCache
    MaxEdits = 2
    MaxFaults = 0
    MaxLate = 0
    CanRemove = TRUE
INVARIANTS BundlePolicies
