SPECIFICATION FairSpec
CONSTANTS
    e1 = e1
    e2 = e2
    junk = junk
    Event <- Records
    Malformed = {junk}
    Flaky = {"db"}
    maxRetries = 3
    TripAfter = 5
    MaxRequests = 2
    MaxLog = 2
    MaxStop = 2
INVARIANTS
    TypeOK
    NothingDropped
    LogsTruthful
PROPERTIES
    OpensOnFailuresOnly
    AllCommitted
