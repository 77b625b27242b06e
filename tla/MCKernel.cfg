SPECIFICATION Spec
CONSTANTS
    NPROC = 3
    QUANTUM = 1
    INITPRIO = 2
    MINSTK = 1
    INITSTK = 1
    MemUnits = 4
    Prios = {1, 2}
    StkSizes = {1}
    Calls = {"create", "kill", "suspend", "resume", "wait", "signal", "send", "receive", "recvclr", "sleep"}
    NSEM = 2
    OBUFLEN = 1
    Counts = {1}
    MaxCount = 1
    Msgs = {1, 2}
    TICKS = 1
    TENTHS = 1
    CHUNK = 1
    Seconds = {2}
    MaxDefer = 0
    MaxDiff = 0
INVARIANTS
    TypeOK
    IInv
    ReceiverFindsMessage
PROPERTIES
    MessageNotOverwritten
CHECK_DEADLOCK FALSE
