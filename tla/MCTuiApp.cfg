CONSTANTS
    Hashes = {1, 2}
    Categories = 1
    Windows = 1
    Limit = 2
    Totals = {3}
    MaxRequests = 2
SPECIFICATION FairSpec
INVARIANT TypeOK
INVARIANT BusyWhilePending
INVARIANT LoadingIsFetched
INVARIANT SelectionOnRow
PROPERTY AnswersSettle
CHECK_DEADLOCK FALSE
