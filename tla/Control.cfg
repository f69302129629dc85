SPECIFICATION ControlSpec
CONSTANTS
    Owner = owner
    Reader = reader
    Senders = {h1, h2, zero}
    Zero = zero
    Nobody = nobody
    Handles = {b1, b2, b3}
    NoBus = NoBus
    Periods = {1, 3}
    Retries = 1
    MaxFailures = 1
CHECK_DEADLOCK FALSE
INVARIANTS ControlTypeOK SilenceIsSuccess QuietAfterStop
