SPECIFICATION Spec
CONSTANTS
    MaxCode = 3
    Tables <- MCHashOnly
    ZoneCodes = {1}
    Lengths = {1, 2}
    MaxFrame = 2
INVARIANT ConfigIsStored
