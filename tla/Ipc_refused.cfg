SPECIFICATION Spec
CONSTANTS
    Task = {spring, svc}
    Spring = spring
    Name = {name}
    MaxPort = 1
    MaxCapId = 3
    MAX_IN_FLIGHT = 2
    MAX_CAPS = 2
    ScanLimit = 1
PROPERTY RefusedSendKeepsCaps
CHECK_DEADLOCK FALSE
