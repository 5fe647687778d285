CONSTANTS
    desktop = desktop
    mcp = mcp
    Procs = {desktop, mcp}
    Desktop = desktop
    MaxJobs = 1
    Length = 1
    MaxVersion = 2
    MaxAttempts = 1
    Attended = {1}
    Phoned = {1}
    Hurried = {1}

SPECIFICATION Spec
INVARIANT OneWorker
