SPECIFICATION KeptSpec
CONSTANTS
    Versions = {v1, v2, v3}
    FirstVersion = v1
    Resetting = {}
    GarbageSlots = {}
    Broken = broken
    Package = package
    NoVersion = noVersion
    START_COUNT_LIMIT = 1
    MAX_RESETS_SINCE_LP_MODE = 2
    ResetCountWrap = 4
    NumDownloads = 3
    NumFaults = 1
PROPERTIES
    DownloadSparesRunningImage
