SPECIFICATION Spec
CONSTANTS
    HeaderLen = 3
    AmLen = 6
    SsmLen = 5
    FirstMin = 4
    BufferMax = 5
    PageSize = 4
    LongPacket = 5
    StaleMax = 4
    NumDownloads = 2
INVARIANTS TypeOK BufferFits
PROPERTIES CopiesFile
