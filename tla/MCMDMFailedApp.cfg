SPECIFICATION Spec
CONSTANTS
    p1 = p1
    a1 = a1
    Profiles = {}
    Apps = {a1}
    Bundled = {a1}
    MaxVersion = 2
    Rejected <- NoneRejected
    Platforms = {"macOS"}
    RequiresAccounts = {"macOS"}
    MaxRetries = 1
    NoArtifact = NoArtifact
    NoForm = NoForm
    MaxEdits = 1
    MaxFaults = 1
INVARIANT FailedAppForgotten
CHECK_DEADLOCK FALSE
