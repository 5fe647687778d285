SPECIFICATION Spec
CONSTANTS
    a = a
    b = b
    v = v
    w = w
    None = None
    Works = {}
    Keys = {a, b}
    Values = {v, w}
    Coalescing = {}
    Refusable = {a}
    Decisions = {}
    PageSize = 7
    MaxEdits = 3
    MaxOthers = 1
    MaxRivals = 0
    MaxLosses = 1
    MaxRevision = 7
INVARIANTS
    QueueCarriesEdit
    LogKeepsOrder
    OnlyRealConflicts
SYMMETRY Interchangeable
