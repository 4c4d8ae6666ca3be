SPECIFICATION OrderlySpec
CONSTANTS
    Size = 3
    TransmissionRate = 2
    MAX_RETRIES = 3
    QueueLength = 3
    EntriesWrap = 8
    NumDays = 5
    NumFaults = 3
INVARIANTS
    TypeOK
    ReadyWhenAllStored
    RoomForCommands
    FewDuplicates
PROPERTIES
    OnlyStoredLogsLeave
    LogsArrive
