SPECIFICATION Spec
CONSTANTS
    e1 = e1
    e2 = e2
    junk = junk
    Event <- Orders
    Malformed = {}
    Flaky = {}
    maxRetries = 3
    TripAfter = 5
    MaxRequests = 3
    MaxLog = 2
    MaxStop = 0
INVARIANTS
    OpensAfterFailures
