SPECIFICATION SafeSpec
CONSTANTS
    Versions = {v1, v2, v3}
    FirstVersion = v1
    Resetting = {v2}
    GarbageSlots = {}
    Broken = broken
    Package = package
    NoVersion = noVersion
    START_COUNT_LIMIT = 1
    MAX_RESETS_SINCE_LP_MODE = 6
    ResetCountWrap = 8
    NumDownloads = 3
    NumFaults = 1
INVARIANTS
    RunningImageKept
PROPERTIES
    ResettingImageAbandoned
