SPECIFICATION Spec
CONSTANTS
    p = p
    c = c
    d = d
    o = o
    k = k
    w = w
    m = m
    Rows = {p, c, d, o, k, w, m}
    Excluded = {m}
    Retained = {w}
    Chapters = {c, d}
    Deletable = {p, c, d, o, k, w}
    Owners <- OwnersDef
    Mentions <- MentionsDef
    Later <- LaterDef
    Texts = {A, Discarded}
    Discarded = Discarded
    None = None
    Stamps = {0, 1, 2, 3, 4, 5, 6, 7, 8, 9, 10, 11, 12}
    MaxEntries = 2
    Project = p
    Threads = {t1, t2}
    Boot = boot
    t1 = t1
    t2 = t2
    TryLimit = 2
    MaxEvents = 3
SYMMETRY AnyThread
INVARIANTS ReferencesHold DeletionCanBeUndone MirrorSettles
PROPERTIES RestoreUndoesDeletion
CHECK_DEADLOCK FALSE
