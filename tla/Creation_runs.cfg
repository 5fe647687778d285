CONSTANTS
    r1 = r1
    r2 = r2
    r3 = r3
    k1 = k1
    k2 = k2
    s1 = s1
    s2 = s2
    s3 = s3
    whole = whole
    entity = entity
    NoRun = NoRun
    Runs = {r1, r2}
    Keys = {k1}
    Stages = {s1, s3}
    Concepts = s3
    Units = {whole, entity}
    Whole = whole
    Targets <- WholeEntityOrConcepts
    Hurried = {r2}
    MaxRevision = 1
    MaxSaved = 3

SPECIFICATION Spec
INVARIANTS
    ClaimFollowsRun
    OneProducer
    OperationFollowsRun
PROPERTIES
    PausedCanGoOn
    Fenced
