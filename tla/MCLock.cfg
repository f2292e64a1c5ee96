SPECIFICATION Spec
CONSTANTS
    Word = 65536
    Byte = 256
    EccInfo <- MCEccInfo
    KeyTypes = {"P256", "CURVE25519", "ED25519"}
    HashIdLength <- MCHashIdLength
    DigestSize <- MCDigestSize
    NonceSize = 13
    CounterSize = 4
    PasswordLength = 16
    MaskIdSize = 3
    ChallengeSize = 16
    I2CParameters = 4
    UsageLimitSize = 2
    ConfigurationSize = 2
    CurveIdSize = 11
    PrivateSlotSize = 18
    SymmetricSlotSize = 14
    ConfirmationMac = 8
    HostKeySize <- MCHostKeySize
    HostKeyRoom <- MCHostKeyRoom
    MaxFrame <- MCMaxFrame
    MaxRng = 255
    HashIdSize = 11
    LChallenge = 16
    MaskA100 = 16384
    MaskA110 = 17920
    MaskA120 = 24576
    MaxAddress = 127
    MaxStandby = 31
    SessionIdSize = 4
    MaxDerivedKeys = 32
    Calls <- MCCalls
    Finds <- MCFinds
    Types = {"A100", "L010"}
    Masks = {16383, 16384, 17920, 24576}
    MaxTries = 2
    SlotCount = 2
    GarbageCounts = {0, 2, 3}
    PrkSlots = {1, 2}
    OtherSession = 3
INVARIANT LockTakesEffect
