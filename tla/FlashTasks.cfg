SPECIFICATION Spec
CONSTANTS
    Tasks = {eventTask, downloadTask}
    Blocks = {config, logs}
    Erased = erased
    NoTask = noTask
    NumPages = 2
    Data = {d1}
INVARIANTS
    OnlyReplacesItsData
PROPERTIES
    ReadsWhatWasWritten
PROPERTIES
    CallsEnd
