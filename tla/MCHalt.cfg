SPECIFICATION SystemFairSpec
CONSTANTS
    NPROC = 7
    QUANTUM = 1
    INITPRIO = 2
    MINSTK = 1
    INITSTK = 1
    MemUnits = 20
    Prios = {2}
    StkSizes = {1}
    Calls = {"create", "kill", "suspend", "resume", "screate", "wait", "signal", "send", "receive", "sleep", "command"}
    NSEM = 3
    OBUFLEN = 1
    Counts = {}
    MaxCount = 3
    Msgs = {9}
    TICKS = 1
    TENTHS = 1
    CHUNK = 4
    Seconds = {2}
    MaxDefer = 0
    MaxDiff = 0
    SLEEPTIME = 8
    CliSeconds <- TypedNumbers
    CliCounts <- TypedNumbers
    CliPids = {2, 4, 5, 6, 7}
    CliSems = {0, 3}
    PACE = 5
    MaxEvents = 1
PROPERTIES
    HaltEndsProgram
