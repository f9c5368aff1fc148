SPECIFICATION Spec
CONSTANTS
    Bot = {b1, b2}
    Period = 3
    Window = 3
    MaxLate = 2
    Horizon = 9
    MaxFaults = 2
SYMMETRY Symmetric
INVARIANTS TypeOK ScheduledIsStarted LossBudget
CHECK_DEADLOCK FALSE
