SPECIFICATION FairSpec
CONSTANTS
    Capacity = 1
    AutoChoices = {TRUE}
    MaxTimers = 2
INVARIANTS TypeOK AcceptedStaysCovered
PROPERTIES OfflineRetried
