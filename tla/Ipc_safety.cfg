SPECIFICATION Spec
CONSTANTS
    Task = {spring, svc}
    Spring = spring
    Name = {name}
    MaxPort = 2
    MaxCapId = 3
    MAX_IN_FLIGHT = 1
    MAX_CAPS = 2
    ScanLimit = 1
INVARIANTS TypeOK UniqueRecv UniqueRegistrar SoleReceiver ParkedPortEmpty
CHECK_DEADLOCK FALSE
