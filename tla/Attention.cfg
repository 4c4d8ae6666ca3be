SPECIFICATION OrderlySpec
CONSTANTS
    Recovery = 4
    DutyGap = 2
    NumFaults = 1
CHECK_DEADLOCK TRUE
INVARIANTS TypeOK PendingKeepsWaking AmErrorMeansWaiting
PROPERTIES PowerCycledOnlyIfBroken HungAmIsReset LogsAreCollected UseActivates TimeComes
