CONSTANTS
    desktop = desktop
    mcp = mcp
    Procs = {desktop}
    Desktop = desktop
    MaxJobs = 2
    Length = 1
    MaxVersion = 2
    MaxAttempts = 1
    Attended = {}
    Phoned = {2}
    Hurried = {}

SPECIFICATION Spec
INVARIANTS
    ReleasedIsDescribed
    StopHasRun
    OperationFollowsJob
    WorkingHasWorker
PROPERTIES
    CancelStands
