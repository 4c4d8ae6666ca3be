SPECIFICATION OrderlySpec
CONSTANTS
    MAX_SENSOR_DATA_LOGS = 3
    NumLogs = 8
INVARIANTS
    RamHeaderFresh
PROPERTIES
    QueueSpec
INVARIANTS
    TypeOK
    PersistedFullAgrees
