SPECIFICATION Spec
CONSTANTS
    a = a
    b = b
    v = v
    w = w
    None = None
    Works = {}
    Keys = {a, b}
    Values = {v, w}
    Coalescing = {}
    Refusable = {a}
    Decisions = {}
    PageSize = 1
    MaxEdits = 2
    MaxOthers = 1
    MaxRivals = 0
    MaxLosses = 1
    MaxRevision = 6
INVARIANTS
    SyncedIsLatest
PROPERTIES
    EveryEditSettles
    Converges
