SPECIFICATION Spec
CONSTANTS
    Recovery = 4
    DutyGap = 2
    NumFaults = 1
PROPERTY SilentAmIsNoticed
