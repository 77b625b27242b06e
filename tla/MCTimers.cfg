SPECIFICATION Spec
CONSTANTS
    NPROC = 4
    QUANTUM = 1
    INITPRIO = 2
    MINSTK = 1
    INITSTK = 1
    MemUnits = 6
    Prios = {1,2}
    StkSizes = {1}
    Calls = {"create", "kill", "resume", "chprio", "sleep", "stopclk", "strtclk"}
    NSEM = 2
    OBUFLEN = 1
    Counts = {}
    MaxCount = 1
    Msgs = {}
    TICKS = 1
    TENTHS = 1
    CHUNK = 2
    Seconds = {0, 3}
    MaxDefer = 1
    MaxDiff = 2
INVARIANTS
    QueuesAgree
    ReadyListByPriority
    SleepTopAgrees
    HighestPriorityRuns
PROPERTIES
    SleepersAreTimed
CHECK_DEADLOCK FALSE
