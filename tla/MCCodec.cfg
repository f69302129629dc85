SPECIFICATION Spec
CHECK_DEADLOCK FALSE
INVARIANTS FramesSorted PayloadsKept InversionsUndone TransfersKept
