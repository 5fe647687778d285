CONSTANTS
    desktop = desktop
    mcp = mcp
    Procs = {desktop}
    Desktop = desktop
    MaxJobs = 1
    Length = 2
    MaxVersion = 2
    MaxAttempts = 2
    Attended = {1}
    Phoned = {}
    Hurried = {}

SPECIFICATION FairSpec
PROPERTY JobSettles
