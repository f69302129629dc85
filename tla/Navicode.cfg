SPECIFICATION Spec
CONSTANTS
    CounterValues = 3
    None = none
    MaxFrames = 4
    MaxCaptures = 6
    MaxRestarts = 1
CHECK_DEADLOCK FALSE
INVARIANTS TypeOK NewsNotInvented NewsNotMissed
