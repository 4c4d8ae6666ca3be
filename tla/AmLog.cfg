SPECIFICATION OrderlySpec
CONSTANTS
    MAX_SENSOR_DATA_LOGS = 3
    NumLogs = 8
PROPERTIES
    StackSpec
INVARIANTS
    TypeOK
    PopNeverUnderflows
    PersistedFullAgrees
