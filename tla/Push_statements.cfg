CONSTANTS
    desktop = desktop
    mcp = mcp
    push = push
    import = import
    save = save
    job = job
    agent = agent
    loop = loop
    pool = pool
    other = other
    x = x
    y = y
    Nobody = Nobody
    NoView = NoView
    Conns = {push, import, save, job, agent}
    Procs = {desktop, mcp}
    Process <- MCProcess
    Thread <- MCThread
    Dispatcher <- MCDispatcher
    Patient = {import}
    Keys = {x, y}
    Batch <- MCBatch
    Authors = {save, agent}
    MaxSaves = 1

SPECIFICATION Spec
INVARIANTS
    CheckedWrites
    WritesAreLogged
    NeverWaitsForItself
PROPERTIES
    LeaseSpec
    SessionsEnd
CHECK_DEADLOCK FALSE
