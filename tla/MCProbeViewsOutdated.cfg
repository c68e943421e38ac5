SPECIFICATION FairSpec
CONSTANTS
    w1 = w1
    c1 = c1
    Workers = {w1}
    Lookups = {"dict"}
    Dict = Dict
    Children = {c1}
    Root = Root
    Sync = Sync
    None = None
    MaxChanges = 1
    MaxFaults = 0
PROPERTIES ViewsUpToDate
CHECK_DEADLOCK FALSE
