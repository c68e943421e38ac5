SPECIFICATION SmallSpec
CONSTANTS
    p1 = p1
    a1 = a1
    Profiles = {p1}
    Apps = {a1}
    Bundled = {a1}
    MaxVersion = 2
    Rejected <- NoneRejected
    Platforms = {"macOS", "iOS"}
    RequiresAccounts = {"macOS"}
    MaxRetries = 1
    NoArtifact = NoArtifact
    NoForm = NoForm
    MaxEdits = 1
    MaxFaults = 1
INVARIANTS TypeOK OneRowPerProfile BelievedInstalled InstalledKnown
PROPERTIES DeviceConfiguredLast ProfilesConverge
CHECK_DEADLOCK FALSE
