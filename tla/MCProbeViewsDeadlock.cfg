SPECIFICATION FairSpec
CONSTANTS
    w1 = w1
    c1 = c1
    Workers = {w1}
    Lookups = {"dict"}
    Dict = Dict
    Children = {c1}
    Root = Root
    Sync = Sync
    None = None
    MaxChanges = 2
    MaxFaults = 0
PROPERTIES LookupsEnd
CHECK_DEADLOCK FALSE
