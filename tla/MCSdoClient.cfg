SPECIFICATION Spec
CONSTANTS
    zero = zero
    period = period
    Calls = {k1, k2}
    NoCall = none
    Requests <- MCRequests
    Retries = 1
CHECK_DEADLOCK FALSE
INVARIANTS TypeOK RetryBound FreshUnlessTimedOut OkIsSomeExecution
PROPERTIES ContractKept CallReturns
