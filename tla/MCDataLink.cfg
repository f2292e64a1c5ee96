SPECIFICATION LinkFairSpec
CONSTANTS
    Calls <- MCCalls
    ZoneSize = 3
    Versions = {"first", "new"}
    OtherVersions = {"first"}
    FirstCounter = 2
    Word = 16
    Byte = 4
    LAmountRange = 2
    AMaxFrame = 9
    NoisyLengths = {0, 4}
    BusTypes = {"I2C", "ST1WIRE"}
    MaxFrame = 11
    MaxPollingRetry = 2
INVARIANTS TypeOK LinkTypeOK ReadDelivers ChunkInBuffer StoredWhenOK CounterIsCurrent
    OKMeansFull FramesComeBack
PROPERTIES StorageSpec CallsEnd
CHECK_DEADLOCK FALSE
