SPECIFICATION Spec
CONSTANTS
    a = a
    b = b
    v = v
    w = w
    None = None
    Works = {}
    Keys = {a}
    Values = {v, w}
    Coalescing = {}
    Refusable = {}
    Decisions = {"client"}
    PageSize = 2
    MaxEdits = 2
    MaxOthers = 1
    MaxRivals = 1
    MaxLosses = 0
    MaxRevision = 6
INVARIANTS
    EditSurvives
    NoStuckConflict
PROPERTIES
    StoreSpec
SYMMETRY Interchangeable
