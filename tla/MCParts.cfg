SPECIFICATION PartsSpec
CONSTANTS
    ADMIN_Q_DEPTH = 2
    IO_Q_DEPTH = 2
    MQES = 3
    CID_MOD = 2
    BLOCK_COUNT = 2
    LBA_BYTES = 2
    PAGE_SIZE = 2
    MaxLen = 4
    Data = {d1, d2}
    RX_COUNT = 3
    TX_COUNT = 2
    TX_POLLS = 2
    RX_POLLS = 2
    COUNT_MAX = 2
    Address = {a1, "0.0.0.0"}
    INPUT_QUEUE = 2
    Scancodes = {30, 14, 28, 1, 42, 170, 224}
    LineSize = 3
    MaxTyped = 4
    MAX_IN_FLIGHT = 7
    MaxRuns = 8
    Task = {t1, t2}
    Spring = t1
    Name = {n1}
    MaxPort = 1
    MaxCapId = 3
    PortQueue = 2
    MAX_CAPS = 2
    ScanLimit = 1
INVARIANTS PartsTypeOK AnswerIsOwn FramesBalanced RxRing SendingOrStuck InfoCurrent NoLeak LineAsEdited ReadyIsOwn DrawnInOrder TerminalAlone
PROPERTIES IsBlockDevice CallReturns ConfigureReturns SessionEnds ReceiverReturns
CHECK_DEADLOCK FALSE
