SPECIFICATION Spec
CONSTANTS
    d1 = d1
    d2 = d2
    Devices = {d1, d2}
    NoDevice = NoDevice
    MaxSessions = 2
    Quotas = {0, 1}
    AccountQuota = 3
    MaxEdits = 1
    MaxFaults = 1
INVARIANTS
    TypeOK
    OneDevice
    QuotaSuffices
    SessionsExplained
PROPERTIES
    Forward
    EnrollmentEnds
CHECK_DEADLOCK FALSE
