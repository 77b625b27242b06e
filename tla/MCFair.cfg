SPECIFICATION FairSpec
CONSTANTS
    NPROC = 4
    QUANTUM = 2
    INITPRIO = 2
    MINSTK = 1
    INITSTK = 1
    MemUnits = 6
    Prios = {0, 1, 2}
    StkSizes = {0, 1}
    Calls = {"create", "kill", "suspend", "resume", "sleep"}
    NSEM = 2
    OBUFLEN = 1
    Counts = {}
    MaxCount = 1
    Msgs = {}
    TICKS = 2
    TENTHS = 1
    CHUNK = 3
    Seconds = {0, 2}
    MaxDefer = 0
    MaxDiff = 0
INVARIANTS
    NullProcessReady
    QuantumRunsOut
PROPERTIES
    EqualsTakeTurns
    ReadyProcessRuns
    SleepersWake
