SPECIFICATION FairSpec
CONSTANTS
    MaxPid = 5
    Codes = {0, 1}
    Killable <- MCKillable
    KillStates <- MCNotParked
INVARIANTS TypeOK Placement NoLostWakeup
PROPERTIES NoOvertaking DeadIsFinal StarvationFree WaitpidReturns
