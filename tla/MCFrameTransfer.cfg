SPECIFICATION FairSpec
CONSTANTS
    Requests <- MCRequests
    Answers <- MCAnswers
    NoisyLengths = {0, 1, 2, 4, 8, 15}
    MaxFrame = 8
    Word = 16
    MaxPollingRetry = 2
INVARIANTS TypeOK FramesRestored StatusIsAuthentic DeliveredInOrder
PROPERTIES CallsReturn
