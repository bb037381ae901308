SPECIFICATION ChangesFairSpec
CONSTANTS
    Last = 3
    Budgets = {1}
    BaselineRequests = 2
    MaxSeq = 3
    Reminded = {2}
    MaxStrays = 1
    MaxFails = 1
INVARIANTS
    TokenCoversReported
PROPERTIES
    CatchesUp
