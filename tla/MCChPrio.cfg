SPECIFICATION FairSpec
CONSTANTS
    NPROC = 3
    QUANTUM = 2
    INITPRIO = 2
    MINSTK = 1
    INITSTK = 1
    MemUnits = 6
    Prios = {1, 2}
    StkSizes = {1}
    Calls = {"create", "resume", "chprio"}
    NSEM = 2
    OBUFLEN = 1
    Counts = {}
    MaxCount = 1
    Msgs = {}
    TICKS = 1
    TENTHS = 1
    CHUNK = 2
    Seconds = {}
    MaxDefer = 0
    MaxDiff = 0
PROPERTIES
    ReadyProcessRuns
