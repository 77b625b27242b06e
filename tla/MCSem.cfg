SPECIFICATION Spec
CONSTANTS
    NPROC = 4
    QUANTUM = 1
    INITPRIO = 2
    MINSTK = 1
    INITSTK = 1
    MemUnits = 6
    Prios = {3}
    StkSizes = {1}
    Calls = {"create", "kill", "resume", "screate", "sdelete", "sreset", "wait", "signal", "signaln", "IOdispatcher"}
    NSEM = 2
    OBUFLEN = 1
    Counts <- SemCounts
    MaxCount = 2
    Msgs = {}
    TICKS = 1
    TENTHS = 1
    CHUNK = 2
    Seconds = {}
    MaxDefer = 0
    MaxDiff = 0
INVARIANTS
    QueuesAgree
    SemaphoreCountOwesQueue
    HighestPriorityRuns
PROPERTIES
    WaitersServedInOrder
