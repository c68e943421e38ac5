SPECIFICATION FairSpec
CONSTANTS
    a1 = a1
    a2 = a2
    s1 = s1
    s2 = s2
    Agents = {a1, a2}
    Requests = {r1, r2}
    Binaries = {b1, b2}
    Counts = {0}
    BatchSize = 1
    None = None
    MaxLost = 1
    Sessions = {s1, s2}
    Configurations = {c1}
    Targets = {t1, t2}
    BundleTarget = t2
    Rulesets = {rs1}
    NoRuleset = NoRuleset
    Policies = {"ALLOWLIST", "BLOCKLIST"}
    Blocklist = "BLOCKLIST"
    BundlePolicies = {"ALLOWLIST"}
    Messages = {"", "m"}
    NoMessage = ""
    Ids = {1, 2, 3, 4, 5, 6}
    Nothing = Nothing
    Parties <- MCApart
    MaxOps = 3
INVARIANTS UploadedComplete MessagesOfBlocklist
PROPERTIES OwnRules RequestsApplied BlockedBundleUploaded
\* The requests of the sessions are bounded.
CHECK_DEADLOCK FALSE
