SPECIFICATION Spec
CONSTANT MaxFrames = 3
CHECK_DEADLOCK FALSE
INVARIANTS TypeOK Accounted StatsConsistent AppliedAtOnce ReportedOnce
PROPERTIES DropsReported
