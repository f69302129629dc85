SPECIFICATION TimedSpec
CONSTANTS
    Period = 3
    MaxBlock = 2
    Lag = 1
    Limits = {2, 3}
    Far = 10
    Depth = 3
    Delay = 2
    Stale = 3
    TickPeriod = 2
    TooOld = 8
INVARIANTS DiagnosticsTypeOK ReportFresh NoFalseAlarm FollowerTypeOK DriveFresh
