\* One wake by the SSM, a job of every type and a second one, one lost message.
CONSTANTS
    EventQueueLen = 2
    MqttQueueLen = 3
    MAX_GPS_RETRIES = 2
    NumJobs = 2
    JobRequests <- MCJobRequests
    NumWakes = 1
    NumAttn = 1
    NumLogs = 1
    NumLost = 1
SPECIFICATION OrderlySpec
INVARIANTS
    TypeOK
    PublishesWhatWasQueued
    OneJobAtATime
    
PROPERTIES
    NoJobsMeansDone
    SessionEnds
CHECK_DEADLOCK FALSE
