SPECIFICATION ControlSpec
CONSTANTS
    Owner = owner
    Reader = reader
    Senders = {h1, zero}
    Zero = zero
    Nobody = nobody
    Handles = {b1, b2}
    NoBus = NoBus
    Periods = {1}
    Retries = 1
    MaxFailures = 1
CHECK_DEADLOCK FALSE
PROPERTIES TpdoOnce
