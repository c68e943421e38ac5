SPECIFICATION Spec
CONSTANTS
    w1 = w1
    w2 = w2
    c1 = c1
    c2 = c2
    c3 = c3
    Workers = {w1, w2}
    Lookups = {"dict", "filter"}
    Dict = Dict
    Children = {c1, c2, c3}
    Root = Root
    Sync = Sync
    None = None
    MaxChanges = 3
    MaxFaults = 2
SYMMETRY Symmetric
CHECK_DEADLOCK FALSE
INVARIANTS TypeOK ViewsInv SameAsParent
