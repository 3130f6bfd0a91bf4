SPECIFICATION Spec
CONSTANTS
    MaxPid = 4
    Codes = {0}
    Killable <- MCKillable
    KillStates <- MCAnyState
PROPERTY DeadIsFinal
