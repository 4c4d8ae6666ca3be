-------------------------- MODULE AmSessionProofs --------------------------
(* AmSession: the types, and what the event manager and the MQTT task keep   *)
(* between them in orderly sessions.                                         *)
(*                                                                           *)
(* The argument: one thing at a time moves the session with the cloud on.    *)
(* It is the script (what the running handler has still to queue), then the  *)
(* last message queued if it is one that somebody answers (Askers), then a   *)
(* request with the cloud, a publication in flight or a download, then the   *)
(* event that ends it (ChainIds), whose handler leaves the next script:      *)
(* ChainInv.  Events of the other tasks stay beside it (Aside).  Before      *)
(* MQTT_READY is handled nothing of it exists (QuietInv), so that only an    *)
(* earlier GPS_FIX_SUCCESS can be waiting with it (EventInv).  A handler     *)
(* publishes twice only where the MQTT task comes in between (Topical), so   *)
(* that the shared buffer holds what is queued (BufferInv).  And the job in  *)
(* hand stays the one that was started until its one report, which says what *)
(* became of it (JobInv, HandedBackInv).                                     *)
EXTENDS AmSession, SequenceTheorems, FiniteSetTheorems, TLAPS

-----------------------------------------------------------------------------
(* Types.                                                                  *)
EventRec == [id : Events, job : Jobs \cup {NoJob}]
Steps == Messages \cup {"SetGpsSent", "RESET"}
Queueable == Messages \cup {"NEW_JOB", "NO_NEW_JOBS"}

LEMMA TailTyped ==
    ASSUME NEW S, NEW q \in Seq(S), q # <<>>
    PROVE  /\ Tail(q) \in Seq(S) /\ Len(Tail(q)) = Len(q) - 1
           /\ Head(q) \in S /\ Len(q) \in Nat \ {0}
  OBVIOUS

LEMMA PostedTyped ==
    ASSUME NEW q \in Seq(EventRec), Len(q) <= EventQueueLen,
           NEW id \in Events, NEW job \in Jobs \cup {NoJob}
    PROVE  Posted(q, id, job) \in Seq(EventRec) /\ Len(Posted(q, id, job)) <= EventQueueLen
<1>1. Event(id, job) \in EventRec
  BY DEF Event, EventRec
<1>2. EventQueueLen \in Nat
  BY SessionAssumption
<1> QED
  BY <1>1, <1>2 DEF Posted

LEMMA QueuedTyped ==
    ASSUME NEW q \in Seq(Queueable), Len(q) <= MqttQueueLen, NEW m \in Queueable
    PROVE  LET r == IF Len(q) < MqttQueueLen THEN Append(q, m) ELSE q
           IN  r \in Seq(Queueable) /\ Len(r) <= MqttQueueLen
<1>2. MqttQueueLen \in Nat
  BY SessionAssumption
<1> QED
  BY <1>2

LEMMA EventOfTyped ==
    ASSUME NEW r \in Requests, r \notin {"UNKNOWN", "RESET"}
    PROVE  EventOf[r] \in Events
  BY DEF EventOf, Requests, Events

LEMMA MessagesAre ==
    /\ Messages = {"STATUS", "GPS", "DATA", "PASS", "FAIL", "BAD_CONFIGS", "GET_NEW_JOBS"}
    /\ Topics \subseteq Messages /\ Reports \subseteq Messages
    /\ Messages \subseteq Steps /\ Messages \subseteq Queueable
  BY DEF Messages, Topics, Reports, Steps, Queueable

(* The records.                                                            *)
EmType == [xWaitingOnCell : BOOLEAN, xAwsConnected : BOOLEAN,
           xSensorDataReady : BOOLEAN, gpsRetryCount : Nat,
           xAllowedTimeOn : {"normal", "ota"}, late : BOOLEAN,
           installs : Jobs \cup {NoJob}]
MemType == [fixed : BOOLEAN, sent : BOOLEAN, retries : Nat, logs : Nat]
HwType == [gps : {"off", "on", "ending"},
           cell : {"off", "starting", "up", "failed", "lost"},
           transfer : BOOLEAN, download : Jobs \cup {NoJob, NoDownload},
           resetDue : BOOLEAN]
MqttType == [status : {"IDLE", "IN_PROGRESS"}, request : Requests,
             id : Jobs \cup {NoJob}, buf : Topics \cup {"none"},
             flagDue : BOOLEAN, xCloudTxInProgress : BOOLEAN, inFlight : Nat]
CloudType == [Jobs -> [request : Requests, status :
                {"NONE", "IN_PROGRESS", "SUCCEEDED", "FAILED"}]]
SpentType == [wakes : 0 .. NumWakes, attn : 0 .. NumAttn,
              logs : 0 .. NumLogs, lost : 0 .. NumLost]
OutcomeType == [Jobs \cup {NoJob} -> {"none"} \cup Succeeded \cup Failed]

QueuesTyped ==
    /\ eventQueue \in Seq(EventRec) /\ Len(eventQueue) <= EventQueueLen
    /\ script \in Seq(Steps)
    /\ mqttQueue \in Seq(Queueable) /\ Len(mqttQueue) <= MqttQueueLen
RecordsTyped ==
    /\ em \in EmType /\ mem \in MemType /\ hw \in HwType /\ mqtt \in MqttType
    /\ power \in {"on", "standby", "reset"} /\ asked \in Nat
    /\ spent \in SpentType
JobsTyped == cloud \in CloudType /\ outcome \in OutcomeType

LEMMA TypeOKIs ==
    /\ TypeOK <=> QueuesTyped /\ RecordsTyped /\ JobsTyped
    /\ TypeOK' <=> QueuesTyped' /\ RecordsTyped' /\ JobsTyped'
  BY DEF TypeOK, QueuesTyped, RecordsTyped, JobsTyped, EventRec, Steps, Queueable, EmType,
         MemType, HwType, MqttType, CloudType, SpentType, OutcomeType

LEMMA RamTyped == RamOfEvents \in EmType /\ AllOff \in HwType /\ RamOfMqtt \in MqttType
  BY DEF RamOfEvents, AllOff, RamOfMqtt, EmType, HwType, MqttType, Requests, NoDownload

LEMMA InitTyped == Init => TypeOK
<1> SUFFICES ASSUME Init PROVE TypeOK
  OBVIOUS
<1>1. QueuesTyped
  BY SessionAssumption DEF Init, QueuesTyped
<1>2. mem \in MemType
  BY DEF Init, MemType
<1>3. spent \in SpentType
  BY SessionAssumption DEF Init, SpentType
<1>4. cloud \in CloudType
  BY DEF Init, CloudType, Requests
<1>5. outcome \in OutcomeType
  BY DEF Init, OutcomeType
<1>6. RecordsTyped
  BY RamTyped, <1>2, <1>3 DEF Init, RecordsTyped
<1> QED
  BY <1>1, <1>4, <1>5, <1>6, TypeOKIs DEF JobsTyped

LEMMA DownTyped ==
    ASSUME TypeOK, NEW how \in {"reset", "standby"}, Down(how),
           UNCHANGED <<mem, cloud, spent>>, outcome' \in OutcomeType
    PROVE  TypeOK'
<1>1. QueuesTyped'
  BY SessionAssumption DEF Down, QueuesTyped
<1>2. RecordsTyped'
  BY RamTyped, TypeOKIs DEF Down, RecordsTyped
<1> QED
  BY <1>1, <1>2, TypeOKIs DEF JobsTyped

LEMMA TakesTyped ==
    ASSUME TypeOK, NEW ids, Takes(ids)
    PROVE  /\ Tail(eventQueue) \in Seq(EventRec)
           /\ Len(Tail(eventQueue)) <= EventQueueLen
           /\ Job \in Jobs \cup {NoJob} /\ Head(eventQueue).id \in Events \cap ids
<1>1. eventQueue \in Seq(EventRec) /\ Len(eventQueue) <= EventQueueLen
  BY TypeOKIs DEF QueuesTyped
<1>2. eventQueue # <<>> /\ Head(eventQueue).id \in ids
  BY DEF Takes
<1>3. EventQueueLen \in Nat
  BY SessionAssumption
<1>4. Head(eventQueue) \in EventRec
  BY <1>1, <1>2
<1>5. Job \in Jobs \cup {NoJob} /\ Head(eventQueue).id \in Events
  BY <1>4 DEF EventRec, Job
<1>6. Tail(eventQueue) \in Seq(EventRec) /\ Len(Tail(eventQueue)) = Len(eventQueue) - 1
  BY <1>1, <1>2
<1>7. Len(eventQueue) \in Nat
  BY <1>1
<1> QED
  BY <1>1, <1>2, <1>3, <1>5, <1>6, <1>7

LEMMA HandlesTyped ==
    ASSUME TypeOK, NEW ids, Handles(ids), script' \in Seq(Steps),
           em' \in EmType, mem' \in MemType, hw' \in HwType, outcome' \in OutcomeType
    PROVE  TypeOK'
<1>1. Takes(ids) /\ eventQueue' = Tail(eventQueue)
      /\ UNCHANGED <<power, mqttQueue, mqtt, cloud, asked, spent>>
  BY DEF Handles
<1>2. QueuesTyped'
  BY <1>1, TakesTyped, TypeOKIs DEF QueuesTyped
<1>3. RecordsTyped'
  BY <1>1, TypeOKIs DEF RecordsTyped
<1> QED
  BY <1>1, <1>2, <1>3, TypeOKIs DEF JobsTyped

LEMMA ScriptsTyped ==
    /\ \A s, t \in Seq(Steps) : s \o t \in Seq(Steps)
    /\ \A a \in Steps : <<a>> \in Seq(Steps)
    /\ \A a, b \in Steps : <<a, b>> \in Seq(Steps)
    /\ \A a, b, c \in Steps : <<a, b, c>> \in Seq(Steps)
    /\ <<>> \in Seq(Steps)
    /\ UnsentFix \in Seq(Steps)
    /\ \A logs : SendSensorData(logs) \in Seq(Steps)
    /\ \A s \in Seq(Steps) : Sends(s) \in Seq(Steps)
    /\ \A pass \in BOOLEAN : Report(pass) \in Seq(Steps)
<1>1. {"DATA", "GPS", "GET_NEW_JOBS", "PASS", "FAIL", "SetGpsSent"} \subseteq Steps
  BY MessagesAre DEF Steps
<1>2. \A a \in Steps : <<a>> \in Seq(Steps)
  OBVIOUS
<1>3. \A a, b \in Steps : <<a, b>> \in Seq(Steps)
  OBVIOUS
<1>4. \A a, b, c \in Steps : <<a, b, c>> \in Seq(Steps)
  OBVIOUS
<1>5. \A s, t \in Seq(Steps) : s \o t \in Seq(Steps)
  OBVIOUS
<1>6. <<>> \in Seq(Steps)
  OBVIOUS
<1> QED
  BY <1>1, <1>2, <1>3, <1>4, <1>5, <1>6 DEF UnsentFix, SendSensorData, Sends, Report

LEMMA FieldsTyped ==
    ASSUME TypeOK
    PROVE  /\ em \in EmType /\ mem \in MemType /\ hw \in HwType /\ outcome \in OutcomeType
           /\ CellStarted \in HwType /\ GpsEnabled(hw) \in HwType
           /\ GpsEnabled(CellStarted) \in HwType
           /\ \A m \in MemType : NoFix(m) \in MemType
           /\ \A job \in Jobs \cup {NoJob}, result \in Succeeded \cup Failed :
                 Becomes(job, result) \in OutcomeType
           /\ \A job \in Jobs \cup {NoJob}, pass \in BOOLEAN : Ends(job, pass) \in OutcomeType
           /\ \A logs \in AfterRead(mem.logs) : logs \in Nat
           /\ \A logs \in AfterRead(IF mem.logs > 0 THEN mem.logs - 1 ELSE 0) : logs \in Nat
           /\ script \in Seq(Steps)
<1>1. em \in EmType /\ mem \in MemType /\ hw \in HwType /\ outcome \in OutcomeType
  BY TypeOKIs DEF RecordsTyped, JobsTyped
<1>2. CellStarted \in HwType
  BY <1>1 DEF CellStarted, HwType
<1>3. \A h \in HwType : GpsEnabled(h) \in HwType
  BY DEF GpsEnabled, HwType
<1>4. \A m \in MemType : NoFix(m) \in MemType
  BY DEF NoFix, MemType
<1>9. \A job \in Jobs \cup {NoJob}, result \in Succeeded \cup Failed :
        Becomes(job, result) \in OutcomeType
  BY <1>1 DEF Becomes, OutcomeType
<1>5. \A job \in Jobs \cup {NoJob}, pass \in BOOLEAN : Ends(job, pass) \in OutcomeType
  BY <1>9 DEF Ends, Succeeded, Failed
<1>6. mem.logs \in Nat
  BY <1>1 DEF MemType
<1>7. script \in Seq(Steps)
  BY TypeOKIs DEF QueuesTyped
<1> QED
  BY <1>1, <1>2, <1>3, <1>4, <1>5, <1>6, <1>7, <1>9 DEF AfterRead

LEMMA SsmActivateTyped == TypeOK /\ SsmActivate => TypeOK'
<1> SUFFICES ASSUME TypeOK, SsmActivate PROVE TypeOK'
  OBVIOUS
<1>1. Handles({"SSM_ACTIVATE_EVT"}) /\ Takes({"SSM_ACTIVATE_EVT"})
  BY DEF SsmActivate, Handles
<1>2. Job \in Jobs \cup {NoJob}
  BY <1>1, TakesTyped
<1>3. script' \in Seq(Steps)
  BY FieldsTyped, ScriptsTyped, MessagesAre DEF SsmActivate, Steps
<1>4. em' \in EmType /\ mem' \in MemType /\ hw' \in HwType
  BY FieldsTyped, <1>2 DEF SsmActivate, EmType
<1>5. outcome' \in OutcomeType
  BY FieldsTyped, <1>2 DEF SsmActivate
<1> QED
  BY <1>1, <1>3, <1>4, <1>5, HandlesTyped

LEMMA CheckInDeactivatedTyped == TypeOK /\ CheckInDeactivated => TypeOK'
<1> SUFFICES ASSUME TypeOK, CheckInDeactivated PROVE TypeOK'
  OBVIOUS
<1>1. Handles({"CHECK_IN_EVT_DEACTIVATED"}) /\ Takes({"CHECK_IN_EVT_DEACTIVATED"})
  BY DEF CheckInDeactivated, Handles
<1>2. Job \in Jobs \cup {NoJob}
  BY <1>1, TakesTyped
<1>3. script' \in Seq(Steps)
  BY FieldsTyped, ScriptsTyped, MessagesAre DEF CheckInDeactivated, Steps
<1>4. em' \in EmType /\ mem' \in MemType /\ hw' \in HwType
  BY FieldsTyped, <1>2 DEF CheckInDeactivated, EmType
<1>5. outcome' \in OutcomeType
  BY FieldsTyped, <1>2 DEF CheckInDeactivated
<1> QED
  BY <1>1, <1>3, <1>4, <1>5, HandlesTyped

LEMMA CheckInActivatedTyped == TypeOK /\ CheckInActivated => TypeOK'
<1> SUFFICES ASSUME TypeOK, CheckInActivated PROVE TypeOK'
  OBVIOUS
<1>1. Handles({"CHECK_IN_EVT_ACTIVATED"}) /\ Takes({"CHECK_IN_EVT_ACTIVATED"})
  BY DEF CheckInActivated, Handles
<1>2. Job \in Jobs \cup {NoJob}
  BY <1>1, TakesTyped
<1>3. script' \in Seq(Steps)
  BY FieldsTyped, ScriptsTyped, MessagesAre DEF CheckInActivated, Steps
<1>4. em' \in EmType /\ mem' \in MemType /\ hw' \in HwType
  BY FieldsTyped, <1>2 DEF CheckInActivated, EmType, HwType
<1>5. outcome' \in OutcomeType
  BY FieldsTyped, <1>2 DEF CheckInActivated
<1> QED
  BY <1>1, <1>3, <1>4, <1>5, HandlesTyped

LEMMA StoreLogTyped == TypeOK /\ StoreLog => TypeOK'
<1> SUFFICES ASSUME TypeOK, StoreLog PROVE TypeOK'
  OBVIOUS
<1>1. Handles({"SENSOR_DATA_MSG_RECEIVED"}) /\ Takes({"SENSOR_DATA_MSG_RECEIVED"})
  BY DEF StoreLog, Handles
<1>2. Job \in Jobs \cup {NoJob}
  BY <1>1, TakesTyped
<1>3. script' \in Seq(Steps)
  BY FieldsTyped, ScriptsTyped, MessagesAre DEF StoreLog, Steps
<1>4. em' \in EmType /\ mem' \in MemType /\ hw' \in HwType
  BY FieldsTyped, <1>2 DEF StoreLog, MemType
<1>5. outcome' \in OutcomeType
  BY FieldsTyped, <1>2 DEF StoreLog
<1> QED
  BY <1>1, <1>3, <1>4, <1>5, HandlesTyped

LEMMA SensorDataReadyTyped == TypeOK /\ SensorDataReady => TypeOK'
<1> SUFFICES ASSUME TypeOK, SensorDataReady PROVE TypeOK'
  OBVIOUS
<1>1. Handles({"SENSOR_DATA_READY"}) /\ Takes({"SENSOR_DATA_READY"})
  BY DEF SensorDataReady, Handles
<1>2. Job \in Jobs \cup {NoJob}
  BY <1>1, TakesTyped
<1>3. script' \in Seq(Steps)
  BY FieldsTyped, ScriptsTyped, MessagesAre DEF SensorDataReady, Steps
<1>4. em' \in EmType /\ mem' \in MemType /\ hw' \in HwType
  BY FieldsTyped, <1>2 DEF SensorDataReady, EmType
<1>5. outcome' \in OutcomeType
  BY FieldsTyped, <1>2 DEF SensorDataReady
<1> QED
  BY <1>1, <1>3, <1>4, <1>5, HandlesTyped

LEMMA MqttReadyTyped == TypeOK /\ MqttReady => TypeOK'
<1> SUFFICES ASSUME TypeOK, MqttReady PROVE TypeOK'
  OBVIOUS
<1>1. Handles({"MQTT_READY"}) /\ Takes({"MQTT_READY"})
  BY DEF MqttReady, Handles
<1>2. Job \in Jobs \cup {NoJob}
  BY <1>1, TakesTyped
<1>3. script' \in Seq(Steps)
  BY FieldsTyped, ScriptsTyped, MessagesAre DEF MqttReady, Steps
<1>4. em' \in EmType /\ mem' \in MemType /\ hw' \in HwType
  BY FieldsTyped, <1>2 DEF MqttReady, EmType, MemType
<1>5. outcome' \in OutcomeType
  BY FieldsTyped, <1>2 DEF MqttReady
<1> QED
  BY <1>1, <1>3, <1>4, <1>5, HandlesTyped

LEMMA PublishSuccessTyped == TypeOK /\ PublishSuccess => TypeOK'
<1> SUFFICES ASSUME TypeOK, PublishSuccess PROVE TypeOK'
  OBVIOUS
<1>1. Handles({"SENSOR_DATA_PUBLISH_SUCCESS"}) /\ Takes({"SENSOR_DATA_PUBLISH_SUCCESS"})
  BY DEF PublishSuccess, Handles
<1>2. Job \in Jobs \cup {NoJob}
  BY <1>1, TakesTyped
<1>3. script' \in Seq(Steps)
  BY FieldsTyped, ScriptsTyped, MessagesAre DEF PublishSuccess, Steps
<1>4. em' \in EmType /\ mem' \in MemType /\ hw' \in HwType
  BY FieldsTyped, <1>2 DEF PublishSuccess, MemType
<1>5. outcome' \in OutcomeType
  BY FieldsTyped, <1>2 DEF PublishSuccess
<1> QED
  BY <1>1, <1>3, <1>4, <1>5, HandlesTyped

LEMMA FixSuccessTyped == TypeOK /\ FixSuccess => TypeOK'
<1> SUFFICES ASSUME TypeOK, FixSuccess PROVE TypeOK'
  OBVIOUS
<1>1. Handles({"GPS_FIX_SUCCESS"}) /\ Takes({"GPS_FIX_SUCCESS"})
  BY DEF FixSuccess, Handles
<1>2. Job \in Jobs \cup {NoJob}
  BY <1>1, TakesTyped
<1>3. script' \in Seq(Steps)
  BY FieldsTyped, ScriptsTyped, MessagesAre DEF FixSuccess, Steps
<1>4. em' \in EmType /\ mem' \in MemType /\ hw' \in HwType
  BY FieldsTyped, <1>2 DEF FixSuccess
<1>5. outcome' \in OutcomeType
  BY FieldsTyped, <1>2 DEF FixSuccess
<1> QED
  BY <1>1, <1>3, <1>4, <1>5, HandlesTyped

LEMMA CloudActivateTyped == TypeOK /\ CloudActivate => TypeOK'
<1> SUFFICES ASSUME TypeOK, CloudActivate PROVE TypeOK'
  OBVIOUS
<1>1. Handles({"CLOUD_ACTIVATE_EVT"}) /\ Takes({"CLOUD_ACTIVATE_EVT"})
  BY DEF CloudActivate, Handles
<1>2. Job \in Jobs \cup {NoJob}
  BY <1>1, TakesTyped
<1>3. script' \in Seq(Steps)
  BY FieldsTyped, ScriptsTyped, MessagesAre DEF CloudActivate, Steps
<1>4. em' \in EmType /\ mem' \in MemType /\ hw' \in HwType
  BY FieldsTyped, <1>2 DEF CloudActivate
<1>5. outcome' \in OutcomeType
  BY FieldsTyped, <1>2 DEF CloudActivate
<1> QED
  BY <1>1, <1>3, <1>4, <1>5, HandlesTyped

LEMMA DeactivateTyped == TypeOK /\ Deactivate => TypeOK'
<1> SUFFICES ASSUME TypeOK, Deactivate PROVE TypeOK'
  OBVIOUS
<1>1. Handles({"DEACTIVATE_EVT"}) /\ Takes({"DEACTIVATE_EVT"})
  BY DEF Deactivate, Handles
<1>2. Job \in Jobs \cup {NoJob}
  BY <1>1, TakesTyped
<1>3. script' \in Seq(Steps)
  BY FieldsTyped, ScriptsTyped, MessagesAre DEF Deactivate, Steps
<1>4. em' \in EmType /\ mem' \in MemType /\ hw' \in HwType
  <2>1. [mem EXCEPT !.logs = 0] \in MemType
    BY FieldsTyped DEF MemType
  <2> QED
    BY <2>1, FieldsTyped DEF Deactivate
<1>5. outcome' \in OutcomeType
  BY FieldsTyped, <1>2 DEF Deactivate
<1> QED
  BY <1>1, <1>3, <1>4, <1>5, HandlesTyped

LEMMA ConfigureTyped == TypeOK /\ Configure => TypeOK'
<1> SUFFICES ASSUME TypeOK, Configure PROVE TypeOK'
  OBVIOUS
<1>1. Handles({"CONFIGURE_EVT"}) /\ Takes({"CONFIGURE_EVT"})
  BY DEF Configure, Handles
<1>2. Job \in Jobs \cup {NoJob}
  BY <1>1, TakesTyped
<1>3. script' \in Seq(Steps)
  BY FieldsTyped, ScriptsTyped, MessagesAre DEF Configure, Steps
<1>4. em' \in EmType /\ mem' \in MemType /\ hw' \in HwType
  BY FieldsTyped, <1>2 DEF Configure
<1>5. outcome' \in OutcomeType
  BY FieldsTyped, <1>2 DEF Configure, Succeeded, Failed
<1> QED
  BY <1>1, <1>3, <1>4, <1>5, HandlesTyped

LEMMA ResetAlarmsTyped == TypeOK /\ ResetAlarms => TypeOK'
<1> SUFFICES ASSUME TypeOK, ResetAlarms PROVE TypeOK'
  OBVIOUS
<1>1. Handles({"RESET_ALARMS_CMD"}) /\ Takes({"RESET_ALARMS_CMD"})
  BY DEF ResetAlarms, Handles
<1>2. Job \in Jobs \cup {NoJob}
  BY <1>1, TakesTyped
<1>3. script' \in Seq(Steps)
  BY FieldsTyped, ScriptsTyped, MessagesAre DEF ResetAlarms, Steps
<1>4. em' \in EmType /\ mem' \in MemType /\ hw' \in HwType
  BY FieldsTyped, <1>2 DEF ResetAlarms
<1>5. outcome' \in OutcomeType
  BY FieldsTyped, <1>2 DEF ResetAlarms, Succeeded, Failed
<1> QED
  BY <1>1, <1>3, <1>4, <1>5, HandlesTyped

LEMMA GpsJobNewTyped == TypeOK /\ GpsJobNew => TypeOK'
<1> SUFFICES ASSUME TypeOK, GpsJobNew PROVE TypeOK'
  OBVIOUS
<1>1. Handles({"GPS_NEW"}) /\ Takes({"GPS_NEW"})
  BY DEF GpsJobNew, Handles
<1>2. Job \in Jobs \cup {NoJob}
  BY <1>1, TakesTyped
<1>3. script' \in Seq(Steps)
  BY FieldsTyped, ScriptsTyped, MessagesAre DEF GpsJobNew, Steps
<1>4. em' \in EmType /\ mem' \in MemType /\ hw' \in HwType
  BY FieldsTyped, <1>2 DEF GpsJobNew
<1>5. outcome' \in OutcomeType
  BY FieldsTyped, <1>2 DEF GpsJobNew, Succeeded, Failed
<1> QED
  BY <1>1, <1>3, <1>4, <1>5, HandlesTyped

LEMMA GpsJobLastTyped == TypeOK /\ GpsJobLast => TypeOK'
<1> SUFFICES ASSUME TypeOK, GpsJobLast PROVE TypeOK'
  OBVIOUS
<1>1. Handles({"GPS_LAST"}) /\ Takes({"GPS_LAST"})
  BY DEF GpsJobLast, Handles
<1>2. Job \in Jobs \cup {NoJob}
  BY <1>1, TakesTyped
<1>3. script' \in Seq(Steps)
  BY FieldsTyped, ScriptsTyped, MessagesAre DEF GpsJobLast, Steps
<1>4. em' \in EmType /\ mem' \in MemType /\ hw' \in HwType
  BY FieldsTyped, <1>2 DEF GpsJobLast, MemType
<1>5. outcome' \in OutcomeType
  <2>1. mem.fixed \in BOOLEAN
    BY FieldsTyped DEF MemType
  <2> QED
    BY <2>1, FieldsTyped, <1>2 DEF GpsJobLast
<1> QED
  BY <1>1, <1>3, <1>4, <1>5, HandlesTyped

LEMMA HwResetTyped == TypeOK /\ HwReset => TypeOK'
<1> SUFFICES ASSUME TypeOK, HwReset PROVE TypeOK'
  OBVIOUS
<1>1. Handles({"HW_RESET_CMD"}) /\ Takes({"HW_RESET_CMD"})
  BY DEF HwReset, Handles
<1>2. Job \in Jobs \cup {NoJob}
  BY <1>1, TakesTyped
<1>3. script' \in Seq(Steps)
  <2>1. {"PASS", "FAIL", "GET_NEW_JOBS"} \subseteq Steps
    BY MessagesAre DEF Steps
  <2>2. <<"PASS">> \in Seq(Steps) /\ <<"FAIL", "GET_NEW_JOBS">> \in Seq(Steps)
    BY <2>1, ScriptsTyped
  <2>3. script' = <<"PASS">> \/ script' = <<"FAIL", "GET_NEW_JOBS">>
    BY DEF HwReset
  <2> QED
    BY <2>2, <2>3
<1>4. em' \in EmType /\ mem' \in MemType /\ hw' \in HwType
  <2>1. [mem EXCEPT !.logs = 0] \in MemType
    BY FieldsTyped DEF MemType
  <2>2. \A resets \in BOOLEAN : [hw EXCEPT !.resetDue = @ \/ resets] \in HwType
    BY FieldsTyped DEF HwType
  <2> QED
    BY <2>1, <2>2, FieldsTyped DEF HwReset
<1>5. outcome' \in OutcomeType
  BY FieldsTyped, <1>2 DEF HwReset, Succeeded, Failed
<1> QED
  BY <1>1, <1>3, <1>4, <1>5, HandlesTyped

LEMMA OtaTyped == TypeOK /\ Ota => TypeOK'
<1> SUFFICES ASSUME TypeOK, Ota PROVE TypeOK'
  OBVIOUS
<1>1. Handles({"OTA"}) /\ Takes({"OTA"})
  BY DEF Ota, Handles
<1>2. Job \in Jobs \cup {NoJob}
  BY <1>1, TakesTyped
<1>3. script' \in Seq(Steps)
  BY FieldsTyped, ScriptsTyped, MessagesAre DEF Ota, Steps
<1>4. em' \in EmType /\ mem' \in MemType /\ hw' \in HwType
  BY FieldsTyped, <1>2 DEF Ota, EmType, HwType
<1>5. outcome' \in OutcomeType
  BY FieldsTyped, <1>2 DEF Ota
<1> QED
  BY <1>1, <1>3, <1>4, <1>5, HandlesTyped

LEMMA DownloadCompleteTyped == TypeOK /\ DownloadComplete => TypeOK'
<1> SUFFICES ASSUME TypeOK, DownloadComplete PROVE TypeOK'
  OBVIOUS
<1>1. Handles({"FW_DOWNLOAD_COMPLETE"}) /\ Takes({"FW_DOWNLOAD_COMPLETE"})
  BY DEF DownloadComplete, Handles
<1>2. Job \in Jobs \cup {NoJob}
  BY <1>1, TakesTyped
<1>3. script' \in Seq(Steps)
  BY FieldsTyped, ScriptsTyped, MessagesAre DEF DownloadComplete, Steps
<1>4. em' \in EmType /\ mem' \in MemType /\ hw' \in HwType
  BY FieldsTyped, <1>2 DEF DownloadComplete, EmType
<1>5. outcome' \in OutcomeType
  BY FieldsTyped, <1>2 DEF DownloadComplete, Succeeded, Failed
<1> QED
  BY <1>1, <1>3, <1>4, <1>5, HandlesTyped

LEMMA DownloadFailTyped == TypeOK /\ DownloadFail => TypeOK'
<1> SUFFICES ASSUME TypeOK, DownloadFail PROVE TypeOK'
  OBVIOUS
<1>1. Handles({"FW_DOWNLOAD_FAIL"}) /\ Takes({"FW_DOWNLOAD_FAIL"})
  BY DEF DownloadFail, Handles
<1>2. Job \in Jobs \cup {NoJob}
  BY <1>1, TakesTyped
<1>3. script' \in Seq(Steps)
  BY FieldsTyped, ScriptsTyped, MessagesAre DEF DownloadFail, Steps
<1>4. em' \in EmType /\ mem' \in MemType /\ hw' \in HwType
  BY FieldsTyped, <1>2 DEF DownloadFail
<1>5. outcome' \in OutcomeType
  BY FieldsTyped, <1>2 DEF DownloadFail
<1> QED
  BY <1>1, <1>3, <1>4, <1>5, HandlesTyped

LEMMA FixTimeoutTyped == TypeOK /\ FixTimeout => TypeOK'
<1> SUFFICES ASSUME TypeOK, FixTimeout PROVE TypeOK'
  OBVIOUS
<1>1. Takes({"GPS_FIX_TIMEOUT"}) /\ mem' \in MemType
  BY FieldsTyped DEF FixTimeout, EmType, MemType
<1>2. CASE Down("standby")
  <2>1. QueuesTyped'
    BY SessionAssumption, <1>2 DEF Down, QueuesTyped
  <2>2. RecordsTyped'
    BY RamTyped, TypeOKIs, <1>1, <1>2 DEF Down, RecordsTyped, FixTimeout
  <2> QED
    BY <2>1, <2>2, TypeOKIs DEF JobsTyped, FixTimeout
<1>3. CASE eventQueue' = Tail(eventQueue)
           /\ em' = [em EXCEPT !.gpsRetryCount = @ + 1]
           /\ UNCHANGED <<power, script, hw, mqttQueue, mqtt, asked>>
  <2>1. QueuesTyped'
    BY TakesTyped, TypeOKIs, <1>1, <1>3 DEF QueuesTyped
  <2>2. em' \in EmType
    BY FieldsTyped, <1>3 DEF EmType
  <2>3. RecordsTyped'
    BY TypeOKIs, <1>1, <1>3, <2>2 DEF RecordsTyped, FixTimeout
  <2> QED
    BY <2>1, <2>3, TypeOKIs DEF JobsTyped, FixTimeout
<1> QED
  BY <1>2, <1>3 DEF FixTimeout

(* A handler that goes to standby, or else leaves all but the event        *)
(* manager's RAM alone.                                                    *)
LEMMA DownOrOnTyped ==
    ASSUME TypeOK, UNCHANGED <<mem, cloud, spent, outcome>>,
           \/ Down("standby")
           \/ /\ eventQueue' \in Seq(EventRec) /\ Len(eventQueue') <= EventQueueLen
              /\ em' \in EmType
              /\ UNCHANGED <<power, script, hw, mqttQueue, mqtt, asked>>
    PROVE  TypeOK'
<1>1. CASE Down("standby")
  BY DownTyped, FieldsTyped, <1>1
<1>2. CASE /\ eventQueue' \in Seq(EventRec) /\ Len(eventQueue') <= EventQueueLen
           /\ em' \in EmType
           /\ UNCHANGED <<power, script, hw, mqttQueue, mqtt, asked>>
  BY <1>2, TypeOKIs DEF QueuesTyped, RecordsTyped, JobsTyped
<1> QED
  BY <1>1, <1>2

LEMMA NoJobsTyped == TypeOK /\ NoJobs => TypeOK'
<1> SUFFICES ASSUME TypeOK, NoJobs PROVE TypeOK'
  OBVIOUS
<1>1. [em EXCEPT !.xWaitingOnCell = FALSE] \in EmType
  BY FieldsTyped DEF EmType
<1> QED
  BY TakesTyped, DownOrOnTyped, <1>1 DEF NoJobs

LEMMA CloudConnectFailureTyped == TypeOK /\ CloudConnectFailure => TypeOK'
  BY TakesTyped, DownOrOnTyped, FieldsTyped DEF CloudConnectFailure

LEMMA TimeIsUpTyped == TypeOK /\ TimeIsUp => TypeOK'
<1> SUFFICES ASSUME TypeOK, TimeIsUp PROVE TypeOK'
  OBVIOUS
<1>1. [em EXCEPT !.late = TRUE] \in EmType
  BY FieldsTyped DEF EmType
<1>2. eventQueue \in Seq(EventRec) /\ Len(eventQueue) <= EventQueueLen
  BY TypeOKIs DEF QueuesTyped
<1> QED
  BY DownOrOnTyped, <1>1, <1>2 DEF TimeIsUp

LEMMA StartTyped ==
    ASSUME TypeOK, Start, spent' \in SpentType
    PROVE  TypeOK'
<1>1. em' \in EmType /\ hw' \in HwType
  BY FieldsTyped DEF Start, EmType, MemType, HwType
<1>2. RecordsTyped'
  BY <1>1, TypeOKIs DEF Start, RecordsTyped
<1> QED
  BY <1>2, TypeOKIs DEF Start, QueuesTyped, JobsTyped

LEMMA WakeTyped == TypeOK /\ (Wake \/ Boot) => TypeOK'
<1>1. ASSUME TypeOK, Wake \/ Boot PROVE spent' \in SpentType /\ Start
  BY SessionAssumption, TypeOKIs, <1>1 DEF Wake, Boot, RecordsTyped, SpentType
<1> QED
  BY <1>1, StartTyped

LEMMA QueueTyped == TypeOK /\ Queue => TypeOK'
<1> SUFFICES ASSUME TypeOK, Queue PROVE TypeOK'
  OBVIOUS
<1> DEFINE m == Head(script)
<1>1. m \in Messages /\ script # <<>> /\ m \in Queueable
  BY MessagesAre DEF Queue
<1>2. mqttQueue' \in Seq(Queueable) /\ Len(mqttQueue') <= MqttQueueLen
  BY <1>1, QueuedTyped, TypeOKIs DEF Queue, QueuesTyped
<1>3. script' \in Seq(Steps)
  BY <1>1, TailTyped, FieldsTyped DEF Queue
<1>4. mqtt' \in MqttType
  BY TypeOKIs, <1>1 DEF Queue, RecordsTyped, MqttType
<1>5. QueuesTyped'
  BY <1>2, <1>3, TypeOKIs DEF Queue, QueuesTyped
<1>6. RecordsTyped'
  BY <1>4, TypeOKIs DEF Queue, RecordsTyped
<1> QED
  BY <1>5, <1>6, TypeOKIs DEF Queue, JobsTyped

LEMMA SetGpsSentTyped == TypeOK /\ SetGpsSent => TypeOK'
<1> SUFFICES ASSUME TypeOK, SetGpsSent PROVE TypeOK'
  OBVIOUS
<1>1. mem' \in MemType
  BY FieldsTyped DEF SetGpsSent, MemType
<1>2. script' \in Seq(Steps)
  BY TailTyped, FieldsTyped DEF SetGpsSent, InScript
<1>3. QueuesTyped'
  BY <1>2, TypeOKIs DEF SetGpsSent, QueuesTyped
<1>4. RecordsTyped'
  BY <1>1, TypeOKIs DEF SetGpsSent, RecordsTyped
<1> QED
  BY <1>3, <1>4, TypeOKIs DEF SetGpsSent, JobsTyped

LEMMA ResetTyped == TypeOK /\ Reset => TypeOK'
<1> SUFFICES ASSUME TypeOK, Reset PROVE TypeOK'
  OBVIOUS
<1>0. outcome' \in OutcomeType
  <2>1. em.installs \in Jobs \cup {NoJob}
    BY FieldsTyped DEF EmType
  <2> QED
    BY <2>1, FieldsTyped DEF Reset, Succeeded
<1>1. CASE \E how \in {"reset", "standby"} : Down(how)
  BY <1>0, <1>1, DownTyped DEF Reset
<1>2. CASE /\ script' = <<>> /\ mqttQueue' = <<>>
           /\ hw' = [hw EXCEPT !.cell = "failed"]
           /\ em' = [em EXCEPT !.installs = NoJob]
           /\ UNCHANGED <<power, eventQueue, mqtt, asked>>
  <2>1. hw' \in HwType /\ em' \in EmType
    BY <1>2, FieldsTyped DEF HwType, EmType
  <2>2. QueuesTyped'
    BY <1>2, TypeOKIs, SessionAssumption DEF QueuesTyped
  <2>3. RecordsTyped'
    BY <1>2, <2>1, TypeOKIs DEF Reset, RecordsTyped
  <2> QED
    BY <1>0, <2>2, <2>3, TypeOKIs DEF Reset, JobsTyped
<1> QED
  BY <1>1, <1>2 DEF Reset

LEMMA SsmResetsAmTyped == TypeOK /\ SsmResetsAm => TypeOK'
  BY DownTyped, FieldsTyped DEF SsmResetsAm

LEMMA ServesTyped ==
    ASSUME TypeOK, NEW messages, Serves(messages)
    PROVE  /\ mqttQueue' \in Seq(Queueable) /\ Len(mqttQueue') <= MqttQueueLen
           /\ Head(mqttQueue) \in messages \cap Queueable
           /\ UNCHANGED <<power, script, em, mem, hw>>
<1>1. mqttQueue \in Seq(Queueable) /\ Len(mqttQueue) <= MqttQueueLen
  BY TypeOKIs DEF QueuesTyped
<1>2. mqttQueue # <<>> /\ Head(mqttQueue) \in messages /\ mqttQueue' = Tail(mqttQueue)
      /\ UNCHANGED <<power, script, em, mem, hw>>
  BY DEF Serves, MqttServes
<1>3. /\ Tail(mqttQueue) \in Seq(Queueable) /\ Len(Tail(mqttQueue)) = Len(mqttQueue) - 1
      /\ Head(mqttQueue) \in Queueable /\ Len(mqttQueue) \in Nat \ {0}
  BY <1>1, <1>2, TailTyped
<1>4. MqttQueueLen \in Nat
  BY SessionAssumption
<1> QED
  BY <1>1, <1>2, <1>3, <1>4

LEMMA ServedTyped ==
    ASSUME TypeOK, NEW messages, Serves(messages),
           eventQueue' \in Seq(EventRec), Len(eventQueue') <= EventQueueLen,
           mqtt' \in MqttType, cloud' \in CloudType, asked' \in Nat,
           spent' \in SpentType, outcome' \in OutcomeType
    PROVE  TypeOK'
<1>1. QueuesTyped'
  BY ServesTyped, TypeOKIs DEF QueuesTyped
<1>2. RecordsTyped'
  BY ServesTyped, TypeOKIs DEF RecordsTyped
<1> QED
  BY <1>1, <1>2, TypeOKIs DEF JobsTyped

LEMMA MqttFieldsTyped ==
    ASSUME TypeOK
    PROVE  /\ mqtt \in MqttType /\ cloud \in CloudType /\ asked \in Nat
           /\ spent \in SpentType /\ outcome \in OutcomeType
           /\ eventQueue \in Seq(EventRec) /\ Len(eventQueue) <= EventQueueLen
           /\ mqttQueue \in Seq(Queueable) /\ Len(mqttQueue) <= MqttQueueLen
           /\ Idle \in MqttType /\ mqtt.id \in Jobs \cup {NoJob}
           /\ mqtt.request \in Requests /\ mqtt.inFlight \in Nat
           /\ \A job, status : status \in {"IN_PROGRESS", "SUCCEEDED", "FAILED"}
                => Updated(job, status) \in CloudType
<1>1. /\ mqtt \in MqttType /\ cloud \in CloudType /\ asked \in Nat
      /\ spent \in SpentType /\ outcome \in OutcomeType
      /\ eventQueue \in Seq(EventRec) /\ Len(eventQueue) <= EventQueueLen
      /\ mqttQueue \in Seq(Queueable) /\ Len(mqttQueue) <= MqttQueueLen
  BY TypeOKIs DEF RecordsTyped, QueuesTyped, JobsTyped
<1>2. Idle \in MqttType /\ mqtt.id \in Jobs \cup {NoJob} /\ mqtt.request \in Requests
      /\ mqtt.inFlight \in Nat
  BY <1>1 DEF Idle, MqttType
<1>3. \A job, status : status \in {"IN_PROGRESS", "SUCCEEDED", "FAILED"}
                => Updated(job, status) \in CloudType
  BY <1>1 DEF Updated, CloudType
<1> QED
  BY <1>1, <1>2, <1>3

LEMMA OneMore ==
    ASSUME NEW n \in Nat, NEW k \in 0 .. n, k < n PROVE k + 1 \in 0 .. n
  OBVIOUS

LEMMA SpentBounds ==
    ASSUME TypeOK
    PROVE  /\ spent \in SpentType /\ {NumWakes, NumAttn, NumLogs, NumLost} \subseteq Nat
           /\ spent.lost \in 0 .. NumLost /\ spent.attn \in 0 .. NumAttn
           /\ spent.logs \in 0 .. NumLogs
  BY MqttFieldsTyped, SessionAssumption DEF SpentType

LEMMA LostTyped == ASSUME TypeOK, Lost \/ Arrives PROVE spent' \in SpentType
<1>1. CASE UNCHANGED spent
  BY <1>1, MqttFieldsTyped
<1>2. CASE spent.lost < NumLost /\ spent' = [spent EXCEPT !.lost = @ + 1]
  <2>1. spent.lost + 1 \in 0 .. NumLost
    BY <1>2, SpentBounds, OneMore
  <2> QED
    BY <1>2, <2>1, SpentBounds DEF SpentType
<1> QED
  BY <1>1, <1>2 DEF Lost, Arrives

LEMMA UpdateTyped ==
    ASSUME TypeOK, NEW status \in {"IN_PROGRESS", "SUCCEEDED", "FAILED"}, Update(status)
    PROVE  spent' \in SpentType /\ cloud' \in CloudType
<1>1. spent' \in SpentType
  BY LostTyped DEF Update
<1>2. cloud' = Updated(mqtt.id, status) \/ cloud' = cloud
  BY DEF Update
<1> QED
  BY <1>1, <1>2, MqttFieldsTyped

LEMMA StartJobTyped == TypeOK /\ StartJob => TypeOK'
<1> SUFFICES ASSUME TypeOK, StartJob PROVE TypeOK'
  OBVIOUS
<1>1. Serves({"NEW_JOB"}) /\ UNCHANGED <<cloud, asked, spent, outcome>>
      /\ mqtt.request # "UNKNOWN" /\ HandedOn
  BY DEF StartJob
<1>2. mqtt' \in MqttType
  BY MqttFieldsTyped DEF StartJob, MqttType
<1>3. mqtt.request # "RESET" => EventOf[mqtt.request] \in Events
  BY <1>1, EventOfTyped, MqttFieldsTyped
<1>4. eventQueue' \in Seq(EventRec) /\ Len(eventQueue') <= EventQueueLen
  BY <1>1, <1>3, PostedTyped, MqttFieldsTyped DEF HandedOn
<1> QED
  BY <1>1, <1>2, <1>4, MqttFieldsTyped, ServedTyped

LEMMA RefuseJobTyped == TypeOK /\ RefuseJob => TypeOK'
<1> SUFFICES ASSUME TypeOK, RefuseJob PROVE TypeOK'
  OBVIOUS
<1>1. Serves({"NEW_JOB"}) /\ UNCHANGED <<eventQueue, asked>>
      /\ mqtt' = Idle /\ Update("FAILED") /\ outcome' = Ends(mqtt.id, FALSE)
  BY DEF RefuseJob
<1>2. outcome' \in OutcomeType
  BY <1>1, FieldsTyped, MqttFieldsTyped
<1>3. spent' \in SpentType /\ cloud' \in CloudType
  BY <1>1, UpdateTyped
<1> QED
  BY <1>1, <1>2, <1>3, MqttFieldsTyped, ServedTyped

LEMMA AskForJobsTyped == TypeOK /\ AskForJobs => TypeOK'
<1> SUFFICES ASSUME TypeOK, AskForJobs PROVE TypeOK'
  OBVIOUS
<1>1. Serves({"GET_NEW_JOBS"}) /\ UNCHANGED <<eventQueue, mqtt, cloud, outcome>>
  BY DEF AskForJobs
<1>2. spent' \in SpentType /\ asked' \in Nat
  BY LostTyped, MqttFieldsTyped DEF AskForJobs
<1> QED
  BY <1>1, <1>2, MqttFieldsTyped, ServedTyped

LEMMA NoNewJobsTyped == TypeOK /\ NoNewJobs => TypeOK'
<1> SUFFICES ASSUME TypeOK, NoNewJobs PROVE TypeOK'
  OBVIOUS
<1>1. Serves({"NO_NEW_JOBS"}) /\ UNCHANGED <<mqtt, cloud, asked, spent, outcome>>
      /\ eventQueue' = Posted(eventQueue, "MQTT_NO_JOBS", NoJob)
  BY DEF NoNewJobs
<1>2. eventQueue' \in Seq(EventRec) /\ Len(eventQueue') <= EventQueueLen
  BY <1>1, PostedTyped, MqttFieldsTyped DEF Events
<1> QED
  BY <1>1, <1>2, MqttFieldsTyped, ServedTyped

LEMMA ReportJobTyped == TypeOK /\ ReportJob => TypeOK'
<1> SUFFICES ASSUME TypeOK, ReportJob PROVE TypeOK'
  OBVIOUS
<1>1. Serves(Reports) /\ UNCHANGED <<eventQueue, asked, outcome>> /\ mqtt' = Idle
  BY DEF ReportJob
<1>2. spent' \in SpentType /\ cloud' \in CloudType
  BY UpdateTyped DEF ReportJob
<1> QED
  BY <1>1, <1>2, MqttFieldsTyped, ServedTyped

LEMMA PublishPlainTyped == TypeOK /\ PublishPlain => TypeOK'
  BY MqttFieldsTyped, ServedTyped DEF PublishPlain

LEMMA PublishDataTyped == TypeOK /\ PublishData => TypeOK'
<1> SUFFICES ASSUME TypeOK, PublishData PROVE TypeOK'
  OBVIOUS
<1>1. Serves({"DATA"}) /\ UNCHANGED <<eventQueue, cloud, asked, outcome>>
  BY DEF PublishData
<1>2. mqtt' \in MqttType
  <2>1. [mqtt EXCEPT !.flagDue = TRUE, !.inFlight = @ + 1] \in MqttType
    <3>1. mqtt \in MqttType /\ mqtt.inFlight + 1 \in Nat
      BY MqttFieldsTyped
    <3> QED
      BY <3>1 DEF MqttType
  <2>2. [mqtt EXCEPT !.flagDue = TRUE] \in MqttType
    BY MqttFieldsTyped DEF MqttType
  <2> QED
    BY <2>1, <2>2 DEF PublishData
<1>3. spent' \in SpentType
  BY LostTyped, MqttFieldsTyped DEF PublishData
<1> QED
  BY <1>1, <1>2, <1>3, MqttFieldsTyped, ServedTyped

LEMMA SetTxFlagTyped == TypeOK /\ SetTxFlag => TypeOK'
<1> SUFFICES ASSUME TypeOK, SetTxFlag PROVE TypeOK'
  OBVIOUS
<1>1. mqtt' \in MqttType
  BY MqttFieldsTyped DEF SetTxFlag, MqttType
<1> QED
  BY <1>1, TypeOKIs DEF SetTxFlag, QueuesTyped, RecordsTyped, JobsTyped

LEMMA PublishDoneTyped == TypeOK /\ PublishDone => TypeOK'
<1> SUFFICES ASSUME TypeOK, PublishDone PROVE TypeOK'
  OBVIOUS
<1>1. mqtt' \in MqttType
  <2>1. mqtt.inFlight - 1 \in Nat
    BY MqttFieldsTyped DEF PublishDone
  <2> QED
    BY <2>1, MqttFieldsTyped DEF PublishDone, MqttType
<1>2. spent' \in SpentType
  BY LostTyped DEF PublishDone
<1>3. eventQueue' \in Seq(EventRec) /\ Len(eventQueue') <= EventQueueLen
  BY PostedTyped, MqttFieldsTyped DEF PublishDone, Events
<1> QED
  BY <1>1, <1>2, <1>3, TypeOKIs DEF PublishDone, QueuesTyped, RecordsTyped, JobsTyped

LEMMA AnswerTyped == TypeOK /\ Answer => TypeOK'
<1> SUFFICES ASSUME TypeOK, Answer PROVE TypeOK'
  OBVIOUS
<1>1. asked' \in Nat
  <2>1. asked' = asked - 1 /\ asked > 0
    BY DEF Answer
  <2> QED
    BY <2>1, MqttFieldsTyped
<1>2. mqttQueue' \in Seq(Queueable) /\ Len(mqttQueue') <= MqttQueueLen
  BY QueuedTyped, MqttFieldsTyped DEF Answer, ToMqtt, Queueable
<1>3. mqtt' \in MqttType
  BY MqttFieldsTyped DEF Answer, MqttType
<1>4. cloud' \in CloudType
  <2>1. ASSUME NEW j \in Jobs, NEW request \in Requests
        PROVE  [cloud EXCEPT ![j] = [request |-> request,
                                     status |-> "IN_PROGRESS"]] \in CloudType
    BY MqttFieldsTyped DEF CloudType
  <2>2. \/ cloud' = cloud
        \/ \E j \in Jobs, request \in Requests :
              cloud' = [cloud EXCEPT ![j] = [request |-> request,
                                             status |-> "IN_PROGRESS"]]
    BY DEF Answer
  <2> QED
    BY <2>1, <2>2, MqttFieldsTyped
<1> QED
  BY <1>1, <1>2, <1>3, <1>4, TypeOKIs DEF Answer, QueuesTyped, RecordsTyped, JobsTyped

LEMMA RejectTyped == TypeOK /\ Reject => TypeOK'
<1> SUFFICES ASSUME TypeOK, Reject PROVE TypeOK'
  OBVIOUS
<1>1. asked' \in Nat
  BY MqttFieldsTyped DEF Reject
<1>2. mqttQueue' \in Seq(Queueable) /\ Len(mqttQueue') <= MqttQueueLen
  BY QueuedTyped, MqttFieldsTyped DEF Reject, ToMqtt, Queueable
<1>3. spent' \in SpentType
  BY LostTyped DEF Reject
<1> QED
  BY <1>1, <1>2, <1>3, TypeOKIs DEF Reject, QueuesTyped, RecordsTyped, JobsTyped

LEMMA LoseAnswerTyped == TypeOK /\ LoseAnswer => TypeOK'
<1> SUFFICES ASSUME TypeOK, LoseAnswer PROVE TypeOK'
  OBVIOUS
<1>1. asked' \in Nat
  BY MqttFieldsTyped DEF LoseAnswer
<1>3. spent' \in SpentType
  BY LostTyped DEF LoseAnswer
<1> QED
  BY <1>1, <1>3, TypeOKIs DEF LoseAnswer, QueuesTyped, RecordsTyped, JobsTyped

LEMMA PostsTyped ==
    ASSUME TypeOK, NEW id \in Events, NEW job \in Jobs \cup {NoJob}, Posts(id, job),
           mem' \in MemType, hw' \in HwType, spent' \in SpentType
    PROVE  TypeOK'
<1>1. eventQueue' \in Seq(EventRec) /\ Len(eventQueue') <= EventQueueLen
  BY PostedTyped, MqttFieldsTyped DEF Posts
<1> QED
  BY <1>1, TypeOKIs DEF Posts, QueuesTyped, RecordsTyped, JobsTyped

LEMMA AttentionTyped == TypeOK /\ Attention => TypeOK'
<1> SUFFICES ASSUME TypeOK, Attention PROVE TypeOK'
  OBVIOUS
<1>1. spent' \in SpentType
  <2>1. spent.attn + 1 \in 0 .. NumAttn
    BY SpentBounds, OneMore DEF Attention
  <2> QED
    BY <2>1, SpentBounds DEF Attention, SpentType
<1>2. PICK id \in Attentions : Posts(id, NoJob)
  BY DEF Attention
<1> QED
  BY <1>1, <1>2, FieldsTyped, PostsTyped DEF Attention, Events

LEMMA LogArrivesTyped == TypeOK /\ LogArrives => TypeOK'
<1> SUFFICES ASSUME TypeOK, LogArrives PROVE TypeOK'
  OBVIOUS
<1>1. spent' \in SpentType
  <2>1. spent.logs + 1 \in 0 .. NumLogs
    BY SpentBounds, OneMore DEF LogArrives
  <2> QED
    BY <2>1, SpentBounds DEF LogArrives, SpentType
<1> QED
  BY <1>1, FieldsTyped, PostsTyped DEF LogArrives, Events

LEMMA PostsOfHwTyped ==
    TypeOK /\ (TransferDone \/ CellUp \/ CellFails) => TypeOK'
<1> SUFFICES ASSUME TypeOK, TransferDone \/ CellUp \/ CellFails PROVE TypeOK'
  OBVIOUS
<1>1. hw' \in HwType
  BY FieldsTyped DEF TransferDone, CellUp, CellFails, HwType
<1>2. mem' \in MemType /\ spent' \in SpentType
  BY FieldsTyped, MqttFieldsTyped DEF TransferDone, CellUp, CellFails
<1>3. \E id \in Events : Posts(id, NoJob)
  BY DEF TransferDone, CellUp, CellFails, Events
<1> QED
  BY <1>1, <1>2, <1>3, PostsTyped

LEMMA GpsTyped == TypeOK /\ (GpsFix \/ GpsGivesUp) => TypeOK'
<1> SUFFICES ASSUME TypeOK, GpsFix \/ GpsGivesUp PROVE TypeOK'
  OBVIOUS
<1>1. hw' \in HwType
  BY FieldsTyped DEF GpsFix, GpsGivesUp, HwType
<1>2. mem' \in MemType
  BY FieldsTyped DEF GpsFix, GpsGivesUp, MemType
<1>3. spent' \in SpentType
  BY MqttFieldsTyped DEF GpsFix, GpsGivesUp
<1>4. \E id \in Events : Posts(id, NoJob)
  BY DEF GpsFix, GpsGivesUp, Events
<1> QED
  BY <1>1, <1>2, <1>3, <1>4, PostsTyped

LEMMA GpsOffTyped == TypeOK /\ GpsOff => TypeOK'
<1> SUFFICES ASSUME TypeOK, GpsOff PROVE TypeOK'
  OBVIOUS
<1>1. hw' \in HwType
  BY FieldsTyped DEF GpsOff, HwType
<1> QED
  BY <1>1, TypeOKIs DEF GpsOff, QueuesTyped, RecordsTyped, JobsTyped

LEMMA DownloadEndsTyped == TypeOK /\ DownloadEnds => TypeOK'
<1> SUFFICES ASSUME TypeOK, DownloadEnds PROVE TypeOK'
  OBVIOUS
<1>1. hw' \in HwType /\ hw.download \in Jobs \cup {NoJob}
  BY FieldsTyped DEF DownloadEnds, HwType
<1>2. mem' \in MemType /\ spent' \in SpentType
  BY FieldsTyped, MqttFieldsTyped DEF DownloadEnds
<1>3. \E id \in Events : Posts(id, hw.download)
  BY DEF DownloadEnds, Events
<1> QED
  BY <1>1, <1>2, <1>3, PostsTyped

LEMMA NextTyped == TypeOK /\ [Next]_vars => TypeOK'
<1> SUFFICES ASSUME TypeOK, [Next]_vars PROVE TypeOK'
  OBVIOUS
<1>1. CASE Wake \/ Boot
  BY <1>1, WakeTyped
<1>2. CASE EventManager
  BY <1>2, SsmActivateTyped, CheckInDeactivatedTyped, CheckInActivatedTyped,
     StoreLogTyped, SensorDataReadyTyped, MqttReadyTyped, PublishSuccessTyped,
     FixSuccessTyped, FixTimeoutTyped, NoJobsTyped, CloudConnectFailureTyped,
     CloudActivateTyped, DeactivateTyped, ConfigureTyped, ResetAlarmsTyped,
     GpsJobNewTyped, GpsJobLastTyped, HwResetTyped, OtaTyped,
     DownloadCompleteTyped, DownloadFailTyped
     DEF EventManager
<1>3. CASE Queue \/ SetGpsSent \/ Reset \/ TimeIsUp \/ SsmResetsAm
  BY <1>3, QueueTyped, SetGpsSentTyped, ResetTyped, TimeIsUpTyped, SsmResetsAmTyped
<1>4. CASE MqttTask \/ PublishDone
  BY <1>4, StartJobTyped, RefuseJobTyped, AskForJobsTyped, NoNewJobsTyped,
     ReportJobTyped, PublishPlainTyped, PublishDataTyped, SetTxFlagTyped,
     PublishDoneTyped
     DEF MqttTask
<1>5. CASE Cloud
  BY <1>5, AnswerTyped, RejectTyped, LoseAnswerTyped DEF Cloud
<1>6. CASE OtherTasks
  BY <1>6, AttentionTyped, LogArrivesTyped, PostsOfHwTyped, GpsTyped,
     GpsOffTyped, DownloadEndsTyped
     DEF OtherTasks
<1>7. CASE UNCHANGED vars
  BY <1>7, TypeOKIs DEF vars, QueuesTyped, RecordsTyped, JobsTyped
<1> QED
  BY <1>1, <1>2, <1>3, <1>4, <1>5, <1>6, <1>7 DEF Next, EventLoop

\* The variables hold what the code can put there and neither queue is overfull,
\* in every session, orderly or not.
THEOREM TypeCorrect == Spec => []TypeOK
<1> QED
  BY InitTyped, NextTyped, PTL DEF Spec

-----------------------------------------------------------------------------
(* The two queues.                                                         *)

\* Messages after which the cloud, or the event manager, is the next to act.
Askers == {"GET_NEW_JOBS", "DATA", "NEW_JOB", "NO_NEW_JOBS"}
\* Events whose handlers may talk to the cloud.
Ready == {"MQTT_READY"}
Late == JobEvents \cup {"MQTT_NO_JOBS", "SENSOR_DATA_PUBLISH_SUCCESS"}
Early == {"MQTT_READY", "GPS_FIX_SUCCESS"}
ChainIds == Late \cup Early
Answers == ChainIds \ JobEvents

EvHas(q, S) == \E i \in 1 .. Len(q) : q[i].id \in S
InOrder(q) ==
    \A i, j \in 1 .. Len(q) : i < j =>
        /\ q[i].id \in ChainIds /\ q[j].id \in ChainIds
              => q[i].id = "GPS_FIX_SUCCESS" /\ q[j].id = "MQTT_READY"
        /\ q[j].id \in Attentions => q[i].id # "MQTT_NO_JOBS"
AreOf(q, job) == \A i \in 1 .. Len(q) : q[i].id \in JobEvents => q[i].job = job

QHas(q, S) == \E i \in 1 .. Len(q) : q[i] \in S
AskerLast(q) == \A i \in 1 .. Len(q) : q[i] \in Askers => i = Len(q)
Encoded(q, buf) == \A i \in 1 .. Len(q) : q[i] \in Topics => q[i] = buf
OneReport(q) ==
    \A i, j \in 1 .. Len(q) : q[i] \in Reports /\ q[j] \in Reports => i = j
Means(r, o) == o \in IF r = "PASS" THEN Succeeded ELSE Failed
AllMean(q, o) == \A i \in 1 .. Len(q) : q[i] \in Reports => Means(q[i], o)

LEMMA JobEventsAre ==
    JobEvents = {"CLOUD_ACTIVATE_EVT", "DEACTIVATE_EVT", "CONFIGURE_EVT",
        "RESET_ALARMS_CMD", "HW_RESET_CMD", "OTA", "GPS_NEW", "GPS_LAST",
        "FW_DOWNLOAD_COMPLETE", "FW_DOWNLOAD_FAIL"}
<1> DEFINE J == {"CLOUD_ACTIVATE_EVT", "DEACTIVATE_EVT", "CONFIGURE_EVT",
        "RESET_ALARMS_CMD", "HW_RESET_CMD", "OTA", "GPS_NEW", "GPS_LAST"}
           D == {"FW_DOWNLOAD_COMPLETE", "FW_DOWNLOAD_FAIL"}
<1>1. \A r \in DOMAIN EventOf : EventOf[r] \in J
  BY DEF EventOf
<1>2. \A e \in J : \E r \in DOMAIN EventOf : e = EventOf[r]
  BY DEF EventOf
<1>3. {EventOf[r] : r \in DOMAIN EventOf} = J
  BY <1>1, <1>2
<1> QED
  BY <1>3 DEF JobEvents

LEMMA TailIs ==
    ASSUME NEW S, NEW q \in Seq(S), q # <<>>
    PROVE  /\ Len(q) \in Nat \ {0} /\ Len(Tail(q)) = Len(q) - 1
           /\ \A i \in 1 .. Len(Tail(q)) : i + 1 \in 1 .. Len(q) /\ Tail(q)[i] = q[i + 1]
           /\ Head(q) = q[1] /\ 1 \in 1 .. Len(q)
           /\ \A i \in 1 .. Len(q) : i = 1 \/ \E j \in 1 .. Len(Tail(q)) : i = j + 1
           /\ Len(q) = 1 => Tail(q) = <<>>
<1>1. Len(q) \in Nat \ {0} /\ Len(Tail(q)) = Len(q) - 1 /\ Tail(q) \in Seq(S)
  OBVIOUS
<1>2. \A i \in 1 .. Len(q) - 1 : Tail(q)[i] = q[i + 1]
  OBVIOUS
<1>3. Head(q) = q[1]
  OBVIOUS
<1>4. Len(q) = 1 => Tail(q) = <<>>
  <2> DEFINE t == Tail(q)
  <2>1. t \in Seq(S) /\ (Len(q) = 1 => Len(t) = 0)
    BY <1>1
  <2> HIDE DEF t
  <2>2. Len(q) = 1 => t = <<>>
    BY <2>1, EmptySeq
  <2> QED
    BY <2>2 DEF t
<1>5. /\ \A i \in 1 .. Len(q) - 1 : i + 1 \in 1 .. Len(q)
      /\ 1 \in 1 .. Len(q)
  BY <1>1
<1>6. ASSUME NEW i \in 1 .. Len(q), i # 1
      PROVE  \E j \in 1 .. Len(Tail(q)) : i = j + 1
  <2>1. i - 1 \in 1 .. Len(q) - 1 /\ i = (i - 1) + 1
    BY <1>1, <1>6
  <2> QED
    BY <1>1, <2>1
<1> QED
  BY <1>1, <1>2, <1>3, <1>4, <1>5, <1>6

LEMMA AppendIs ==
    ASSUME NEW S, NEW q \in Seq(S), NEW x \in S
    PROVE  /\ Len(q) \in Nat /\ Len(Append(q, x)) = Len(q) + 1
           /\ \A i \in 1 .. Len(q) : i \in 1 .. Len(q) + 1 /\ Append(q, x)[i] = q[i]
           /\ Append(q, x)[Len(q) + 1] = x /\ Len(q) + 1 \in 1 .. Len(q) + 1
           /\ \A i \in 1 .. Len(q) + 1 : i \in 1 .. Len(q) \/ i = Len(q) + 1
<1>1. Len(q) \in Nat /\ Len(Append(q, x)) = Len(q) + 1
  OBVIOUS
<1>2. \A i \in 1 .. Len(q) : Append(q, x)[i] = q[i]
  OBVIOUS
<1>3. Append(q, x)[Len(q) + 1] = x
  OBVIOUS
<1>4. /\ \A i \in 1 .. Len(q) : i \in 1 .. Len(q) + 1
      /\ Len(q) + 1 \in 1 .. Len(q) + 1
      /\ \A i \in 1 .. Len(q) + 1 : i \in 1 .. Len(q) \/ i = Len(q) + 1
  BY <1>1
<1> QED
  BY <1>1, <1>2, <1>3, <1>4

(* An event is taken.                                                      *)
LEMMA EventTaken ==
    ASSUME NEW q \in Seq(EventRec), q # <<>>
    PROVE  /\ \A S : EvHas(Tail(q), S) => EvHas(q, S)
           /\ \A S : Head(q).id \in S => EvHas(q, S)
           /\ \A S : EvHas(q, S) => Head(q).id \in S \/ EvHas(Tail(q), S)
           /\ InOrder(q) => InOrder(Tail(q))
           /\ \A job : AreOf(q, job) => AreOf(Tail(q), job)
           /\ \A job : AreOf(q, job) /\ Head(q).id \in JobEvents => Head(q).job = job
           /\ InOrder(q) /\ Head(q).id \in ChainIds /\ EvHas(Tail(q), ChainIds)
                 => /\ Head(q).id = "GPS_FIX_SUCCESS"
                    /\ ~EvHas(Tail(q), Late) /\ EvHas(Tail(q), Ready)
           /\ InOrder(q) /\ Head(q).id = "MQTT_NO_JOBS" => ~EvHas(Tail(q), Attentions)
<1> DEFINE t == Tail(q)
<1>0. /\ Len(q) \in Nat \ {0} /\ Len(t) = Len(q) - 1
      /\ \A i \in 1 .. Len(t) : i + 1 \in 1 .. Len(q) /\ t[i] = q[i + 1]
      /\ Head(q) = q[1] /\ 1 \in 1 .. Len(q)
  BY TailIs
<1>i. /\ \A i \in 1 .. Len(t) : i + 1 \in 1 .. Len(q)
      /\ \A i \in 1 .. Len(t) : 1 < i + 1
      /\ \A i, j \in 1 .. Len(t) : i < j => i + 1 < j + 1
  BY <1>0
<1>h. "MQTT_READY" \notin Late
  BY JobEventsAre DEF Late
<1> HIDE DEF t
<1>1. \A S : EvHas(t, S) => EvHas(q, S)
  BY <1>0, <1>i DEF EvHas
<1>2. \A S : Head(q).id \in S => EvHas(q, S)
  BY <1>0 DEF EvHas
<1>9. \A S : EvHas(q, S) => Head(q).id \in S \/ EvHas(t, S)
  <2> SUFFICES ASSUME NEW S, NEW i \in 1 .. Len(q), q[i].id \in S, i # 1
               PROVE  EvHas(t, S)
    BY <1>0 DEF EvHas
  <2>1. PICK j \in 1 .. Len(t) : i = j + 1
    BY TailIs DEF t
  <2>2. t[j].id \in S
    BY <1>0, <2>1
  <2> QED
    BY <2>2 DEF EvHas
<1>3. InOrder(q) => InOrder(t)
  <2> SUFFICES ASSUME InOrder(q), NEW i \in 1 .. Len(t), NEW j \in 1 .. Len(t), i < j
               PROVE  /\ t[i].id \in ChainIds /\ t[j].id \in ChainIds
                            => t[i].id = "GPS_FIX_SUCCESS" /\ t[j].id = "MQTT_READY"
                      /\ t[j].id \in Attentions => t[i].id # "MQTT_NO_JOBS"
    BY DEF InOrder
  <2>1. i + 1 \in 1 .. Len(q) /\ j + 1 \in 1 .. Len(q) /\ i + 1 < j + 1
        /\ t[i] = q[i + 1] /\ t[j] = q[j + 1]
    BY <1>0, <1>i
  <2> QED
    BY <2>1 DEF InOrder
<1>4. \A job : AreOf(q, job) => AreOf(t, job)
  BY <1>0, <1>i DEF AreOf
<1>5. \A job : AreOf(q, job) /\ Head(q).id \in JobEvents => Head(q).job = job
  BY <1>0 DEF AreOf
<1>6. ASSUME InOrder(q), Head(q).id \in ChainIds, NEW i \in 1 .. Len(t), t[i].id \in ChainIds
      PROVE  Head(q).id = "GPS_FIX_SUCCESS" /\ t[i].id = "MQTT_READY"
  BY <1>0, <1>i, <1>6 DEF InOrder
<1>7. ASSUME InOrder(q), Head(q).id \in ChainIds, EvHas(t, ChainIds)
      PROVE  Head(q).id = "GPS_FIX_SUCCESS" /\ ~EvHas(t, Late) /\ EvHas(t, Ready)
  BY <1>6, <1>7, <1>h DEF EvHas, ChainIds, Ready
<1>8. ASSUME InOrder(q), Head(q).id = "MQTT_NO_JOBS", EvHas(t, Attentions)
      PROVE  FALSE
  BY <1>0, <1>i, <1>8 DEF InOrder, EvHas
<1> QED
  BY <1>1, <1>2, <1>3, <1>4, <1>5, <1>7, <1>8, <1>9 DEF t

(* An event is posted, or dropped.                                         *)
LEMMA EventPosted ==
    ASSUME NEW q \in Seq(EventRec), NEW id \in Events, NEW job \in Jobs \cup {NoJob}
    PROVE  LET r == Posted(q, id, job) IN
           /\ \A S : EvHas(r, S) => EvHas(q, S) \/ id \in S
           /\ InOrder(q)
              /\ (id \in ChainIds /\ EvHas(q, ChainIds)
                    => id = "MQTT_READY" /\ ~EvHas(q, Late \cup Ready))
              /\ (id \in Attentions => ~EvHas(q, {"MQTT_NO_JOBS"}))
                 => InOrder(r)
           /\ \A j : AreOf(q, j) /\ (id \in JobEvents => job = j) => AreOf(r, j)
           /\ \A j : id \in JobEvents /\ ~EvHas(q, JobEvents) => AreOf(r, job)
<1> DEFINE e == Event(id, job)
           r == Append(q, e)
<1>e. e \in EventRec /\ e.id = id /\ e.job = job
  BY DEF Event, EventRec
<1> HIDE DEF e
<1>0. /\ Len(q) \in Nat /\ Len(r) = Len(q) + 1
      /\ \A i \in 1 .. Len(q) : i \in 1 .. Len(r) /\ r[i] = q[i]
      /\ r[Len(q) + 1] = e
      /\ \A i \in 1 .. Len(r) : i \in 1 .. Len(q) \/ i = Len(q) + 1
  BY <1>e, AppendIs
<1> HIDE DEF r
<1>1. \A S : EvHas(r, S) => EvHas(q, S) \/ id \in S
  BY <1>0, <1>e DEF EvHas
<1>2. ASSUME InOrder(q),
             id \in ChainIds /\ EvHas(q, ChainIds)
                    => id = "MQTT_READY" /\ ~EvHas(q, Late \cup Ready),
             id \in Attentions => ~EvHas(q, {"MQTT_NO_JOBS"})
      PROVE  InOrder(r)
  <2> SUFFICES ASSUME NEW i \in 1 .. Len(r), NEW j \in 1 .. Len(r), i < j
               PROVE  /\ r[i].id \in ChainIds /\ r[j].id \in ChainIds
                            => r[i].id = "GPS_FIX_SUCCESS" /\ r[j].id = "MQTT_READY"
                      /\ r[j].id \in Attentions => r[i].id # "MQTT_NO_JOBS"
    BY DEF InOrder
  <2>1. CASE j \in 1 .. Len(q)
    <3>1. i \in 1 .. Len(q)
      BY <1>0, <2>1
    <3> QED
      BY <1>0, <1>2, <2>1, <3>1 DEF InOrder
  <2>2. CASE j = Len(q) + 1
    <3>1. i \in 1 .. Len(q) /\ r[j].id = id /\ r[i] = q[i]
      BY <1>0, <1>e, <2>2
    <3>2. r[i].id \in ChainIds => EvHas(q, ChainIds)
      BY <3>1 DEF EvHas
    <3>3. r[i].id \in Late \cup Ready => EvHas(q, Late \cup Ready)
      BY <3>1 DEF EvHas
    <3>4. r[i].id = "MQTT_NO_JOBS" => EvHas(q, {"MQTT_NO_JOBS"})
      BY <3>1 DEF EvHas
    <3>5. r[i].id \in ChainIds /\ r[i].id \notin Late \cup Ready => r[i].id = "GPS_FIX_SUCCESS"
      BY DEF ChainIds, Early, Ready
    <3> QED
      BY <1>2, <3>1, <3>2, <3>3, <3>4, <3>5
  <2> QED
    BY <1>0, <2>1, <2>2
<1>3. \A j : AreOf(q, j) /\ (id \in JobEvents => job = j) => AreOf(r, j)
  BY <1>0, <1>e DEF AreOf
<1>4. ~EvHas(q, JobEvents) => AreOf(r, job)
  BY <1>0, <1>e DEF AreOf, EvHas
<1>5. ~EvHas(q, JobEvents) => AreOf(q, job)
  BY DEF AreOf, EvHas
<1> QED
  BY <1>1, <1>2, <1>3, <1>4, <1>5 DEF Posted, r, e

(* The MQTT task takes a message.                                          *)
LEMMA MessageTaken ==
    ASSUME NEW q \in Seq(Queueable), q # <<>>
    PROVE  /\ \A S : QHas(Tail(q), S) => QHas(q, S)
           /\ \A S : Head(q) \in S => QHas(q, S)
           /\ \A S : QHas(q, S) => Head(q) \in S \/ QHas(Tail(q), S)
           /\ AskerLast(q) => AskerLast(Tail(q))
           /\ AskerLast(q) /\ Head(q) \in Askers => Tail(q) = <<>>
           /\ \A buf : Encoded(q, buf) => Encoded(Tail(q), buf)
           /\ OneReport(q) => OneReport(Tail(q))
           /\ OneReport(q) /\ Head(q) \in Reports => ~QHas(Tail(q), Reports)
           /\ \A o : AllMean(q, o) => AllMean(Tail(q), o)
           /\ \A o : AllMean(q, o) /\ Head(q) \in Reports => Means(Head(q), o)
<1> DEFINE t == Tail(q)
<1>0. /\ Len(q) \in Nat \ {0} /\ Len(t) = Len(q) - 1
      /\ \A i \in 1 .. Len(t) : i + 1 \in 1 .. Len(q) /\ t[i] = q[i + 1]
      /\ Head(q) = q[1] /\ 1 \in 1 .. Len(q)
      /\ Len(q) = 1 => t = <<>>
  BY TailIs
<1>i. /\ \A i \in 1 .. Len(t) : i + 1 \in 1 .. Len(q)
      /\ \A i \in 1 .. Len(t) : 1 # i + 1
      /\ \A i \in 1 .. Len(t) : i + 1 = Len(q) => i = Len(t)
      /\ \A i, j \in 1 .. Len(t) : i + 1 = j + 1 => i = j
  <2> HIDE DEF t
  <2> QED
    BY <1>0
<1> HIDE DEF t
<1>10. \A S : QHas(q, S) => Head(q) \in S \/ QHas(t, S)
  <2> SUFFICES ASSUME NEW S, NEW i \in 1 .. Len(q), q[i] \in S, i # 1
               PROVE  QHas(t, S)
    BY <1>0 DEF QHas
  <2>1. PICK j \in 1 .. Len(t) : i = j + 1
    BY TailIs DEF t
  <2>2. t[j] \in S
    BY <1>0, <2>1
  <2> QED
    BY <2>2 DEF QHas
<1>1. \A S : QHas(t, S) => QHas(q, S)
  BY <1>0, <1>i DEF QHas
<1>2. \A S : Head(q) \in S => QHas(q, S)
  BY <1>0 DEF QHas
<1>3. AskerLast(q) => AskerLast(t)
  BY <1>0, <1>i DEF AskerLast
<1>4. AskerLast(q) /\ Head(q) \in Askers => t = <<>>
  BY <1>0 DEF AskerLast
<1>5. \A buf : Encoded(q, buf) => Encoded(t, buf)
  BY <1>0, <1>i DEF Encoded
<1>6. OneReport(q) => OneReport(t)
  BY <1>0, <1>i DEF OneReport
<1>7. OneReport(q) /\ Head(q) \in Reports => ~QHas(t, Reports)
  BY <1>0, <1>i DEF OneReport, QHas
<1>8. \A o : AllMean(q, o) => AllMean(t, o)
  BY <1>0, <1>i DEF AllMean
<1>9. \A o : AllMean(q, o) /\ Head(q) \in Reports => Means(Head(q), o)
  BY <1>0 DEF AllMean
<1> QED
  BY <1>1, <1>2, <1>3, <1>4, <1>5, <1>6, <1>7, <1>8, <1>9, <1>10 DEF t

(* A message is queued.                                                    *)
LEMMA MessageQueued ==
    ASSUME NEW q \in Seq(Queueable), NEW m \in Queueable
    PROVE  LET r == Append(q, m) IN
           /\ \A S : QHas(r, S) <=> QHas(q, S) \/ m \in S
           /\ AskerLast(q) /\ ~QHas(q, Askers) => AskerLast(r)
           /\ \A buf : Encoded(q, buf) /\ (m \in Topics => m = buf) => Encoded(r, buf)
           /\ OneReport(q) /\ (m \in Reports => ~QHas(q, Reports)) => OneReport(r)
           /\ \A o : AllMean(q, o) /\ (m \in Reports => Means(m, o)) => AllMean(r, o)
           /\ Len(r) = Len(q) + 1
<1> DEFINE r == Append(q, m)
<1>0. /\ Len(q) \in Nat /\ Len(r) = Len(q) + 1
      /\ \A i \in 1 .. Len(q) : i \in 1 .. Len(r) /\ r[i] = q[i]
      /\ r[Len(q) + 1] = m /\ Len(q) + 1 \in 1 .. Len(r)
      /\ \A i \in 1 .. Len(r) : i \in 1 .. Len(q) \/ i = Len(q) + 1
  BY AppendIs
<1> HIDE DEF r
<1>1. \A S : QHas(r, S) <=> QHas(q, S) \/ m \in S
  BY <1>0 DEF QHas
<1>2. AskerLast(q) /\ ~QHas(q, Askers) => AskerLast(r)
  BY <1>0 DEF AskerLast, QHas
<1>3. \A buf : Encoded(q, buf) /\ (m \in Topics => m = buf) => Encoded(r, buf)
  BY <1>0 DEF Encoded
<1>4. OneReport(q) /\ (m \in Reports => ~QHas(q, Reports)) => OneReport(r)
  BY <1>0 DEF OneReport, QHas
<1>5. \A o : AllMean(q, o) /\ (m \in Reports => Means(m, o)) => AllMean(r, o)
  BY <1>0 DEF AllMean
<1> QED
  BY <1>0, <1>1, <1>2, <1>3, <1>4, <1>5 DEF r

LEMMA Empty ==
    /\ \A S : ~EvHas(<<>>, S) /\ ~QHas(<<>>, S)
    /\ InOrder(<<>>) /\ AskerLast(<<>>) /\ OneReport(<<>>)
    /\ \A job : AreOf(<<>>, job)
    /\ \A buf : Encoded(<<>>, buf)
    /\ \A o : AllMean(<<>>, o)
    /\ \A q, buf : ~QHas(q, Topics) => Encoded(q, buf)
    /\ \A q, o : ~QHas(q, Reports) => AllMean(q, o)
    /\ \A q, job : ~EvHas(q, JobEvents) => AreOf(q, job)
    /\ \A q : ~EvHas(q, ChainIds) => ~EvHas(q, Late) /\ ~EvHas(q, Ready)
                   /\ ~EvHas(q, JobEvents) /\ ~EvHas(q, Answers)
                   /\ ~EvHas(q, {"MQTT_NO_JOBS"})
    /\ \A q : ~EvHas(q, Late) => ~EvHas(q, JobEvents) /\ ~EvHas(q, {"MQTT_NO_JOBS"})
    /\ \A q : ~EvHas(q, Late) /\ ~EvHas(q, Ready) => ~EvHas(q, Late \cup Ready)
  BY DEF EvHas, QHas, InOrder, AskerLast, OneReport, AreOf, Encoded, AllMean,
         ChainIds, Late, Early, Ready, Answers

(* What the handlers put together: <<"GPS", "SetGpsSent">> \o <<"DATA">> ... *)
LEMMA Concat11 == ASSUME NEW a, NEW b PROVE <<a>> \o <<b>> = <<a, b>>
<1> DEFINE s == <<a>> \o <<b>>
           t == <<a, b>>
           S == {a, b}
<1>1. s \in Seq(S) /\ t \in Seq(S) /\ Len(s) = 2 /\ Len(t) = 2
  OBVIOUS
<1>2. s[1] = a /\ t[1] = a /\ s[2] = b /\ t[2] = b
  OBVIOUS
<1> HIDE DEF s, t, S
<1>3. \A i \in 1 .. Len(s) : s[i] = t[i]
  BY <1>1, <1>2
<1>4. s = t
  BY <1>1, <1>3, SeqEqual
<1> QED
  BY <1>4 DEF s, t

LEMMA Concat12 ==
    ASSUME NEW a, NEW b, NEW c
    PROVE  <<a>> \o <<b, c>> = <<a, b, c>>
<1> DEFINE s == <<a>> \o <<b, c>>
           t == <<a, b, c>>
           S == {a, b, c}
<1>1. s \in Seq(S) /\ t \in Seq(S) /\ Len(s) = 3 /\ Len(t) = 3
  OBVIOUS
<1>2. s[1] = a /\ t[1] = a /\ s[2] = b /\ t[2] = b /\ s[3] = c /\ t[3] = c
  OBVIOUS
<1> HIDE DEF s, t, S
<1>3. \A i \in 1 .. Len(s) : s[i] = t[i]
  BY <1>1, <1>2
<1>4. s = t
  BY <1>1, <1>3, SeqEqual
<1> QED
  BY <1>4 DEF s, t

LEMMA Concat21 ==
    ASSUME NEW a, NEW b, NEW c
    PROVE  <<a, b>> \o <<c>> = <<a, b, c>>
<1> DEFINE s == <<a, b>> \o <<c>>
           t == <<a, b, c>>
           S == {a, b, c}
<1>1. s \in Seq(S) /\ t \in Seq(S) /\ Len(s) = 3 /\ Len(t) = 3
  OBVIOUS
<1>2. s[1] = a /\ t[1] = a /\ s[2] = b /\ t[2] = b /\ s[3] = c /\ t[3] = c
  OBVIOUS
<1> HIDE DEF s, t, S
<1>3. \A i \in 1 .. Len(s) : s[i] = t[i]
  BY <1>1, <1>2
<1>4. s = t
  BY <1>1, <1>3, SeqEqual
<1> QED
  BY <1>4 DEF s, t

LEMMA Concat22 ==
    ASSUME NEW a, NEW b, NEW c, NEW d
    PROVE  <<a, b>> \o <<c, d>> = <<a, b, c, d>>
<1> DEFINE s == <<a, b>> \o <<c, d>>
           t == <<a, b, c, d>>
           S == {a, b, c, d}
<1>1. s \in Seq(S) /\ t \in Seq(S) /\ Len(s) = 4 /\ Len(t) = 4
  OBVIOUS
<1>2. /\ s[1] = a /\ t[1] = a /\ s[2] = b /\ t[2] = b
      /\ s[3] = c /\ t[3] = c /\ s[4] = d /\ t[4] = d
  OBVIOUS
<1> HIDE DEF s, t, S
<1>3. \A i \in 1 .. Len(s) : s[i] = t[i]
  BY <1>1, <1>2
<1>4. s = t
  BY <1>1, <1>3, SeqEqual
<1> QED
  BY <1>4 DEF s, t

-----------------------------------------------------------------------------
(* What is left of a handler, by what may be queued beside it.             *)

\* The next publication finds no other one queued.
Topical ==
    {<<"DATA">>, <<"STATUS", "GET_NEW_JOBS">>,
     <<"GPS", "SetGpsSent", "GET_NEW_JOBS">>, <<"GPS", "SetGpsSent", "DATA">>,
     <<"GPS", "SetGpsSent", "STATUS", "GET_NEW_JOBS">>}
    \cup {<<r, "STATUS", "GET_NEW_JOBS">> : r \in Reports}
    \cup {<<"GPS", r, "GET_NEW_JOBS">> : r \in Reports}
\* The fix is marked as sent before the next publication.
Unsent ==
    {<<"SetGpsSent", "DATA">>, <<"SetGpsSent", "STATUS", "GET_NEW_JOBS">>,
     <<"GPS", "SetGpsSent", "DATA">>,
     <<"GPS", "SetGpsSent", "STATUS", "GET_NEW_JOBS">>}
\* The report r of the job in hand is still to be queued ...
Alone(r) ==
    {<<r, "STATUS", "GET_NEW_JOBS">>, <<"GPS", r, "GET_NEW_JOBS">>, <<r>>,
     <<r, "RESET">>}
\* ... which leaves room for one publication of the same handler.
Reporting(r) == Alone(r) \cup {<<r, "GET_NEW_JOBS">>}
Scripts ==
    {<<>>, <<"GET_NEW_JOBS">>, <<"SetGpsSent", "GET_NEW_JOBS">>, <<"RESET">>}
    \cup Topical \cup Unsent \cup UNION {Reporting(r) : r \in Reports}

(* What a step of the script leaves of it.                                 *)
Moves(s, h, t) ==
    /\ t \in Scripts
    /\ h \in Askers => t = <<>>
    /\ t \in Unsent => s \in Unsent /\ h = "GPS"
    /\ t \in Topical => \/ h \in Reports /\ s \in Topical
                        \/ h = "SetGpsSent" /\ s \in Unsent
    /\ h \in Topics => s \in Topical
    /\ h \in Reports => s \in Reporting(h)
    /\ \A r \in Reports : t \in Reporting(r) => s \in Alone(r) /\ h = "GPS"
    /\ \A r \in Reports : t \notin Alone(r)
    /\ \A r \in Reports : s \in Reporting(r) => h = r \/ t = <<r, "GET_NEW_JOBS">>

LEMMA ScriptMoves ==
    ASSUME NEW s \in Scripts, s # <<>>
    PROVE  Moves(s, Head(s), Tail(s))
<1>1. ASSUME s = <<"GET_NEW_JOBS">>
      PROVE  Moves(s, Head(s), Tail(s))
  <2>1. Moves(<<"GET_NEW_JOBS">>, "GET_NEW_JOBS", <<>>)
    BY DEF Moves, Scripts, Topical, Unsent, Reporting, Alone, Reports, Topics,
           Askers
  <2> QED
    BY <1>1, <2>1
<1>2. ASSUME s = <<"RESET">>
      PROVE  Moves(s, Head(s), Tail(s))
  <2>1. Moves(<<"RESET">>, "RESET", <<>>)
    BY DEF Moves, Scripts, Topical, Unsent, Reporting, Alone, Reports, Topics,
           Askers
  <2> QED
    BY <1>2, <2>1
<1>3. ASSUME s = <<"SetGpsSent", "GET_NEW_JOBS">>
      PROVE  Moves(s, Head(s), Tail(s))
  <2>1. Moves(<<"SetGpsSent", "GET_NEW_JOBS">>, "SetGpsSent",
             <<"GET_NEW_JOBS">>)
    BY DEF Moves, Scripts, Topical, Unsent, Reporting, Alone, Reports, Topics,
           Askers
  <2> QED
    BY <1>3, <2>1
<1>4. ASSUME s = <<"DATA">>
      PROVE  Moves(s, Head(s), Tail(s))
  <2>1. Moves(<<"DATA">>, "DATA", <<>>)
    BY DEF Moves, Scripts, Topical, Unsent, Reporting, Alone, Reports, Topics,
           Askers
  <2> QED
    BY <1>4, <2>1
<1>5. ASSUME s = <<"STATUS", "GET_NEW_JOBS">>
      PROVE  Moves(s, Head(s), Tail(s))
  <2>1. Moves(<<"STATUS", "GET_NEW_JOBS">>, "STATUS", <<"GET_NEW_JOBS">>)
    BY DEF Moves, Scripts, Topical, Unsent, Reporting, Alone, Reports, Topics,
           Askers
  <2> QED
    BY <1>5, <2>1
<1>6. ASSUME s = <<"GPS", "SetGpsSent", "GET_NEW_JOBS">>
      PROVE  Moves(s, Head(s), Tail(s))
  <2>1. Moves(<<"GPS", "SetGpsSent", "GET_NEW_JOBS">>, "GPS",
             <<"SetGpsSent", "GET_NEW_JOBS">>)
    BY DEF Moves, Scripts, Topical, Unsent, Reporting, Alone, Reports, Topics,
           Askers
  <2> QED
    BY <1>6, <2>1
<1>7. ASSUME s = <<"GPS", "SetGpsSent", "DATA">>
      PROVE  Moves(s, Head(s), Tail(s))
  <2>1. Moves(<<"GPS", "SetGpsSent", "DATA">>, "GPS", <<"SetGpsSent", "DATA">>)
    BY DEF Moves, Scripts, Topical, Unsent, Reporting, Alone, Reports, Topics,
           Askers
  <2> QED
    BY <1>7, <2>1
<1>8. ASSUME s = <<"GPS", "SetGpsSent", "STATUS", "GET_NEW_JOBS">>
      PROVE  Moves(s, Head(s), Tail(s))
  <2>1. Moves(<<"GPS", "SetGpsSent", "STATUS", "GET_NEW_JOBS">>, "GPS",
             <<"SetGpsSent", "STATUS", "GET_NEW_JOBS">>)
    BY DEF Moves, Scripts, Topical, Unsent, Reporting, Alone, Reports, Topics,
           Askers
  <2> QED
    BY <1>8, <2>1
<1>9. ASSUME s = <<"SetGpsSent", "DATA">>
      PROVE  Moves(s, Head(s), Tail(s))
  <2>1. Moves(<<"SetGpsSent", "DATA">>, "SetGpsSent", <<"DATA">>)
    BY DEF Moves, Scripts, Topical, Unsent, Reporting, Alone, Reports, Topics,
           Askers
  <2> QED
    BY <1>9, <2>1
<1>10. ASSUME s = <<"SetGpsSent", "STATUS", "GET_NEW_JOBS">>
      PROVE  Moves(s, Head(s), Tail(s))
  <2>1. Moves(<<"SetGpsSent", "STATUS", "GET_NEW_JOBS">>, "SetGpsSent",
             <<"STATUS", "GET_NEW_JOBS">>)
    BY DEF Moves, Scripts, Topical, Unsent, Reporting, Alone, Reports, Topics,
           Askers
  <2> QED
    BY <1>10, <2>1
<1>11. ASSUME NEW r \in Reports, s = <<r, "GET_NEW_JOBS">>
      PROVE  Moves(s, Head(s), Tail(s))
  <2>1. Moves(<<r, "GET_NEW_JOBS">>, r, <<"GET_NEW_JOBS">>)
    BY DEF Moves, Scripts, Topical, Unsent, Reporting, Alone, Reports, Topics,
           Askers
  <2> QED
    BY <1>11, <2>1
<1>12. ASSUME NEW r \in Reports, s = <<r, "STATUS", "GET_NEW_JOBS">>
      PROVE  Moves(s, Head(s), Tail(s))
  <2>1. Moves(<<r, "STATUS", "GET_NEW_JOBS">>, r, <<"STATUS", "GET_NEW_JOBS">>)
    BY DEF Moves, Scripts, Topical, Unsent, Reporting, Alone, Reports, Topics,
           Askers
  <2> QED
    BY <1>12, <2>1
<1>13. ASSUME NEW r \in Reports, s = <<"GPS", r, "GET_NEW_JOBS">>
      PROVE  Moves(s, Head(s), Tail(s))
  <2>1. Moves(<<"GPS", r, "GET_NEW_JOBS">>, "GPS", <<r, "GET_NEW_JOBS">>)
    BY DEF Moves, Scripts, Topical, Unsent, Reporting, Alone, Reports, Topics,
           Askers
  <2> QED
    BY <1>13, <2>1
<1>14. ASSUME NEW r \in Reports, s = <<r>>
      PROVE  Moves(s, Head(s), Tail(s))
  <2>1. Moves(<<r>>, r, <<>>)
    BY DEF Moves, Scripts, Topical, Unsent, Reporting, Alone, Reports, Topics,
           Askers
  <2> QED
    BY <1>14, <2>1
<1>15. ASSUME NEW r \in Reports, s = <<r, "RESET">>
      PROVE  Moves(s, Head(s), Tail(s))
  <2>1. Moves(<<r, "RESET">>, r, <<"RESET">>)
    BY DEF Moves, Scripts, Topical, Unsent, Reporting, Alone, Reports, Topics,
           Askers
  <2> QED
    BY <1>15, <2>1
<1> QED
  BY <1>1, <1>2, <1>3, <1>4, <1>5, <1>6, <1>7, <1>8, <1>9, <1>10, <1>11, <1>12,
     <1>13, <1>14, <1>15
     DEF Scripts, Topical, Unsent, Reporting, Alone

(* What the handlers leave.                                                *)
Quiet(s) == s \in Scripts /\ \A r \in Reports : s \notin Reporting(r)

LEMMA ScriptsAre ==
    /\ Quiet(<<>>) /\ <<>> \notin Topical /\ <<>> \notin Unsent
    /\ Quiet(<<"RESET">>) /\ <<"RESET">> \notin Topical /\ <<"RESET">> \notin Unsent
    /\ Quiet(<<"DATA">>) /\ <<"DATA">> \notin Unsent
    /\ Quiet(<<"GET_NEW_JOBS">>) /\ <<"GET_NEW_JOBS">> \notin Unsent
    /\ Quiet(<<"STATUS", "GET_NEW_JOBS">>)
    /\ <<"STATUS", "GET_NEW_JOBS">> \notin Unsent
    /\ Quiet(<<"GPS", "SetGpsSent", "GET_NEW_JOBS">>)
    /\ <<"GPS", "SetGpsSent", "GET_NEW_JOBS">> \notin Unsent
    /\ Quiet(<<"GPS", "SetGpsSent", "DATA">>)
    /\ Quiet(<<"GPS", "SetGpsSent", "STATUS", "GET_NEW_JOBS">>)
    /\ \A r \in Reports : \A s \in Reporting(r) :
          s \in Scripts /\ s \notin Unsent /\ s # <<>>
    /\ \A r, r1 \in Reports : \A s \in Reporting(r) : s \in Reporting(r1) => r = r1
  BY DEF Quiet, Scripts, Topical, Unsent, Reporting, Alone, Reports

-----------------------------------------------------------------------------
(* The inductive invariant.                                                *)
\* A job is in hand: between the start of it and its report.
Running == mqtt.status = "IN_PROGRESS"

\* Reset and standby lose the RAM of the AM.
OffInv == power # "on" =>
    /\ eventQueue = <<>> /\ script = <<>> /\ mqttQueue = <<>>
    /\ em = RamOfEvents /\ hw = AllOff /\ mqtt = RamOfMqtt /\ asked = 0

\* Nothing is said to the cloud, or heard from it, before MQTT_READY is handled.
QuietInv == ~em.xAwsConnected =>
    /\ script = <<>> /\ mqttQueue = <<>> /\ asked = 0 /\ ~Running
    /\ mqtt.inFlight = 0 /\ hw.download = NoDownload
    /\ ~EvHas(eventQueue, Late)

\* MQTT_READY comes once, after the cell was started; no two events that talk to
\* the cloud are queued, but for a fix found before the connection was up; and the
\* SSM is not heard behind MQTT_NO_JOBS (OrderlyNext).
EventInv ==
    /\ hw.cell \in {"off", "starting"} => ~em.xAwsConnected /\ ~EvHas(eventQueue, Ready)
    /\ em.xAwsConnected => ~EvHas(eventQueue, Ready)
    /\ InOrder(eventQueue)
    /\ EvHas(eventQueue, Attentions) => hw.cell = "off" \/ em.xWaitingOnCell

\* One thing at a time moves the session on.
ChainInv ==
    /\ EvHas(eventQueue, ChainIds) => script = <<>> /\ mqttQueue = <<>>
    /\ EvHas(eventQueue, ChainIds) \/ script # <<>> \/ QHas(mqttQueue, Askers)
         => asked = 0 /\ mqtt.inFlight = 0 /\ hw.download = NoDownload
    /\ asked \in {0, 1} /\ mqtt.inFlight \in {0, 1}
    /\ AskerLast(mqttQueue) /\ (QHas(mqttQueue, Askers) => script = <<>>)
    /\ asked # 0 \/ mqtt.inFlight # 0 \/ hw.download # NoDownload => mqttQueue = <<>>
    /\ asked # 0 => mqtt.inFlight = 0 /\ hw.download = NoDownload
    /\ mqtt.inFlight # 0 => hw.download = NoDownload

\* Every publication of the script finds the buffer free, and the one that is
\* queued finds itself encoded there.
BufferInv ==
    /\ script \in Scripts
    /\ script \in Unsent => ~mem.sent
    /\ script \in Topical => ~QHas(mqttQueue, Topics)
    /\ Encoded(mqttQueue, mqtt.buf)

\* The job in hand is the one that was started, it is IN_PROGRESS in the cloud,
\* and the one report of it that is scripted or queued says what became of it.
JobInv ==
    /\ Running \/ QHas(mqttQueue, {"NEW_JOB"})
         => mqtt.id \in Jobs /\ cloud[mqtt.id].status = "IN_PROGRESS"
    /\ QHas(mqttQueue, {"NEW_JOB"}) => ~Running
    /\ EvHas(eventQueue, JobEvents) => Running
    /\ AreOf(eventQueue, mqtt.id)
    /\ hw.download # NoDownload => Running /\ hw.download = mqtt.id
    /\ \A r \in Reports : script \in Reporting(r) =>
          Running /\ ~QHas(mqttQueue, Reports) /\ Means(r, outcome[mqtt.id])
    /\ QHas(mqttQueue, Reports) => Running
    /\ AllMean(mqttQueue, outcome[mqtt.id]) /\ OneReport(mqttQueue)
    /\ ReportedAsDone

\* While a job is in hand nothing is asked of the cloud: its report is queued
\* before the request for the next one.  With room for one message only, the
\* report would be dropped and the request queued.
HandedBackInv == MqttQueueLen > 1 /\ Running =>
    /\ asked = 0 /\ mqtt.inFlight = 0 /\ ~EvHas(eventQueue, Answers)
    /\ QHas(mqttQueue, Askers) => QHas(mqttQueue, Reports)
    /\ script \notin {<<>>, <<"RESET">>} =>
          QHas(mqttQueue, Reports) \/ \E r \in Reports : script \in Reporting(r)
    /\ \A r \in Reports : script \in Alone(r) => mqttQueue = <<>>
    /\ \A r \in Reports : script = <<r, "GET_NEW_JOBS">> => Len(mqttQueue) < 2

Inv == /\ OffInv /\ QuietInv /\ EventInv /\ ChainInv /\ BufferInv /\ JobInv
       /\ HandedBackInv

\* Until the SSM is programmed nothing else becomes of the job it is done for.
InstallInv == em.installs # NoJob =>
    /\ script \in {<<"PASS", "RESET">>, <<"RESET">>}
    /\ outcome[em.installs] \in Succeeded

LEMMA RamIs ==
    /\ ~RamOfEvents.xAwsConnected /\ RamOfEvents.installs = NoJob
    /\ AllOff.cell = "off" /\ AllOff.download = NoDownload
    /\ RamOfMqtt.status = "IDLE" /\ RamOfMqtt.inFlight = 0 /\ RamOfMqtt.id = NoJob
  BY DEF RamOfEvents, AllOff, RamOfMqtt

LEMMA InitInv == Init => Inv
<1> SUFFICES ASSUME Init PROVE Inv
  OBVIOUS
<1>1. /\ eventQueue = <<>> /\ script = <<>> /\ mqttQueue = <<>>
      /\ em = RamOfEvents /\ hw = AllOff /\ mqtt = RamOfMqtt /\ asked = 0
      /\ ReportedAsDone
  BY DEF Init, ReportedAsDone
<1>2. OffInv /\ QuietInv /\ EventInv
  BY <1>1, RamIs, Empty DEF OffInv, QuietInv, EventInv, Running
<1>3. ChainInv /\ BufferInv
  BY <1>1, RamIs, Empty, ScriptsAre DEF ChainInv, BufferInv, Quiet
<1>4. JobInv /\ HandedBackInv
  BY <1>1, RamIs, Empty, ScriptsAre DEF JobInv, HandedBackInv, Quiet, Running
<1> QED
  BY <1>2, <1>3, <1>4 DEF Inv

(* The AM goes down.                                                       *)
LEMMA DownLeaves ==
    ASSUME NEW how, Down(how), ReportedAsDone'
    PROVE  Inv'
<1>1. /\ eventQueue' = <<>> /\ script' = <<>> /\ mqttQueue' = <<>>
      /\ em' = RamOfEvents /\ hw' = AllOff /\ mqtt' = RamOfMqtt /\ asked' = 0
  BY DEF Down
<1>2. OffInv' /\ QuietInv' /\ EventInv'
  BY <1>1, RamIs, Empty DEF OffInv, QuietInv, EventInv, Running
<1>3. ChainInv' /\ BufferInv'
  BY <1>1, RamIs, Empty, ScriptsAre DEF ChainInv, BufferInv, Quiet
<1>4. JobInv' /\ HandedBackInv'
  BY <1>1, RamIs, Empty, ScriptsAre DEF JobInv, HandedBackInv, Quiet, Running
<1> QED
  BY <1>2, <1>3, <1>4 DEF Inv

LEMMA DownInv ==
    ASSUME JobInv, NEW how, Down(how), UNCHANGED <<cloud, outcome>>
    PROVE  Inv'
<1>1. ReportedAsDone'
  BY DEF JobInv, ReportedAsDone
<1> QED
  BY <1>1, DownLeaves

LEMMA StartInv == TypeOK /\ Inv /\ (Wake \/ Boot) => Inv'
<1> SUFFICES ASSUME TypeOK, Inv, Wake \/ Boot PROVE Inv'
  OBVIOUS
<1>1. /\ eventQueue = <<>> /\ script = <<>> /\ mqttQueue = <<>>
      /\ em = RamOfEvents /\ hw = AllOff /\ mqtt = RamOfMqtt /\ asked = 0
  BY DEF Wake, Boot, Inv, OffInv
<1>2. em \in EmType /\ hw \in HwType
  BY FieldsTyped
<1>3. /\ eventQueue' = <<>> /\ script' = <<>> /\ mqttQueue' = <<>>
      /\ mqtt' = RamOfMqtt /\ asked' = 0 /\ power' = "on" /\ ~em'.xAwsConnected
      /\ hw'.cell = "off" /\ hw'.download = NoDownload
  BY <1>1, <1>2, RamIs DEF Wake, Boot, Start, EmType, HwType
<1>4. ReportedAsDone'
  BY DEF Wake, Boot, Start, Inv, JobInv, ReportedAsDone
<1>5. OffInv' /\ QuietInv' /\ EventInv'
  BY <1>3, RamIs, Empty DEF OffInv, QuietInv, EventInv, Running
<1>6. ChainInv' /\ BufferInv'
  BY <1>3, RamIs, Empty, ScriptsAre DEF ChainInv, BufferInv, Quiet
<1>7. JobInv' /\ HandedBackInv'
  BY <1>3, <1>4, RamIs, Empty, ScriptsAre DEF JobInv, HandedBackInv, Quiet, Running
<1> QED
  BY <1>5, <1>6, <1>7 DEF Inv

(* Steps beside the session with the cloud.                                *)
Aside ==
    /\ power' = "on"
    /\ UNCHANGED <<script, mqttQueue, mqtt, cloud, asked, outcome>>
    /\ mem'.sent = mem.sent /\ hw'.download = hw.download
    /\ em'.xAwsConnected = em.xAwsConnected
    /\ \A S \in {ChainIds, Late, Ready, JobEvents, Answers} :
          EvHas(eventQueue', S) => EvHas(eventQueue, S)
    /\ \A job : AreOf(eventQueue, job) => AreOf(eventQueue', job)
    /\ InOrder(eventQueue')

LEMMA AsideInv ==
    ASSUME Inv, Aside,
           hw'.cell \in {"off", "starting"} => hw.cell \in {"off", "starting"},
           EvHas(eventQueue', Attentions) => hw'.cell = "off" \/ em'.xWaitingOnCell
    PROVE  Inv'
<1>1. OffInv' /\ QuietInv'
  BY DEF Inv, Aside, OffInv, QuietInv, Running
<1>2. EventInv'
  BY DEF Inv, Aside, EventInv
<1>3. ChainInv'
  BY DEF Inv, Aside, ChainInv
<1>4. BufferInv'
  BY DEF Inv, Aside, BufferInv
<1>5. JobInv'
  <2>1. ReportedAsDone'
    BY DEF Inv, Aside, JobInv, ReportedAsDone
  <2> QED
    BY <2>1 DEF Inv, Aside, JobInv, Running
<1>6. HandedBackInv'
  BY DEF Inv, Aside, HandedBackInv, Running
<1> QED
  BY <1>1, <1>2, <1>3, <1>4, <1>5, <1>6 DEF Inv

(* What the next handler finds.                                            *)
LEMMA Taken ==
    ASSUME TypeOK, Inv, NEW ids, Takes(ids)
    PROVE  /\ power = "on" /\ script = <<>> /\ Head(eventQueue).id \in ids
           /\ \A S : EvHas(Tail(eventQueue), S) => EvHas(eventQueue, S)
           /\ \A S : Head(eventQueue).id \in S => EvHas(eventQueue, S)
           /\ \A job : AreOf(eventQueue, job) => AreOf(Tail(eventQueue), job)
           /\ InOrder(Tail(eventQueue))
           /\ Head(eventQueue).id = "MQTT_NO_JOBS" => ~EvHas(Tail(eventQueue), Attentions)
           /\ Head(eventQueue).id \in ChainIds \ {"GPS_FIX_SUCCESS"}
                => ~EvHas(Tail(eventQueue), ChainIds)
           /\ Head(eventQueue).id \in ChainIds =>
                 /\ ~EvHas(Tail(eventQueue), Late)
                 /\ EvHas(Tail(eventQueue), ChainIds) => EvHas(Tail(eventQueue), Ready)
           /\ Head(eventQueue).id \in JobEvents => Job = mqtt.id
<1>1. eventQueue \in Seq(EventRec) /\ InOrder(eventQueue) /\ AreOf(eventQueue, mqtt.id)
  BY TypeOKIs DEF QueuesTyped, Inv, EventInv, JobInv
<1>2. power = "on" /\ script = <<>> /\ Head(eventQueue).id \in ids /\ eventQueue # <<>>
  BY DEF Takes, On
<1>3. ~EvHas(Tail(eventQueue), ChainIds) => ~EvHas(Tail(eventQueue), Late)
  BY Empty
<1> QED
  BY <1>1, <1>2, <1>3, EventTaken DEF Job

\* A handler that leaves the session with the cloud alone.
LEMMA HandledAside ==
    ASSUME TypeOK, Inv, NEW ids, Takes(ids), eventQueue' = Tail(eventQueue),
           UNCHANGED <<power, script, mqttQueue, mqtt, cloud, asked, outcome>>,
           mem'.sent = mem.sent, hw'.download = hw.download,
           em'.xAwsConnected = em.xAwsConnected
    PROVE  /\ Aside
           /\ EvHas(eventQueue', Attentions) => EvHas(eventQueue, Attentions)
  BY Taken DEF Aside

\* An attention of the SSM starts the cell, unless it is waited for already.
LEMMA AttentionHandled ==
    ASSUME TypeOK, Inv, NEW ids \in SUBSET Attentions, Handles(ids),
           em' = [em EXCEPT !.xWaitingOnCell = TRUE],
           mem' = mem, script' = script, outcome' = outcome,
           hw'.download = CellStarted.download, hw'.cell = CellStarted.cell
    PROVE  Inv'
<1>0. em \in EmType /\ hw \in HwType
  BY FieldsTyped
<1>1. Takes(ids) /\ eventQueue' = Tail(eventQueue)
      /\ UNCHANGED <<power, mqttQueue, mqtt, cloud, asked>>
  BY DEF Handles
<1>2. em'.xWaitingOnCell /\ em'.xAwsConnected = em.xAwsConnected
  BY <1>0 DEF EmType
<1>3. EvHas(eventQueue, Attentions)
  BY <1>1, Taken
<1>4. hw.cell = "off" \/ em.xWaitingOnCell
  BY <1>3 DEF Inv, EventInv
<1>5. hw'.download = hw.download
      /\ (hw'.cell \in {"off", "starting"} => hw.cell \in {"off", "starting"})
  BY <1>0, <1>4 DEF CellStarted, HwType
<1> QED
  BY <1>1, <1>2, <1>5, HandledAside, AsideInv

LEMMA SsmActivateInv == TypeOK /\ Inv /\ SsmActivate => Inv'
<1> SUFFICES ASSUME TypeOK, Inv, SsmActivate PROVE Inv'
  OBVIOUS
<1>1. CellStarted \in HwType
  BY FieldsTyped
<1>2. hw'.download = CellStarted.download /\ hw'.cell = CellStarted.cell
  BY <1>1 DEF SsmActivate, GpsEnabled, HwType
<1> QED
  BY <1>2, AttentionHandled DEF SsmActivate, Attentions

LEMMA CheckInInv == TypeOK /\ Inv /\ (CheckInDeactivated \/ CheckInActivated) => Inv'
<1> SUFFICES ASSUME TypeOK, Inv, CheckInDeactivated \/ CheckInActivated PROVE Inv'
  OBVIOUS
<1>1. CellStarted \in HwType
  BY FieldsTyped
<1>2. hw'.download = CellStarted.download /\ hw'.cell = CellStarted.cell
  BY <1>1 DEF CheckInDeactivated, CheckInActivated, HwType
<1> QED
  BY <1>2, AttentionHandled DEF CheckInDeactivated, CheckInActivated, Attentions

LEMMA LogInv == TypeOK /\ Inv /\ (StoreLog \/ SensorDataReady) => Inv'
<1> SUFFICES ASSUME TypeOK, Inv, StoreLog \/ SensorDataReady PROVE Inv'
  OBVIOUS
<1>0. em \in EmType /\ mem \in MemType
  BY FieldsTyped
<1>1. \E ids : Takes(ids)
  BY DEF StoreLog, SensorDataReady, Handles
<1>2. /\ eventQueue' = Tail(eventQueue) /\ hw' = hw
      /\ UNCHANGED <<power, script, mqttQueue, mqtt, cloud, asked, outcome>>
  BY DEF StoreLog, SensorDataReady, Handles
<1>3. mem'.sent = mem.sent /\ em'.xAwsConnected = em.xAwsConnected
      /\ em'.xWaitingOnCell = em.xWaitingOnCell
  BY <1>0 DEF StoreLog, SensorDataReady, MemType, EmType
<1>4. Aside /\ (EvHas(eventQueue', Attentions) => EvHas(eventQueue, Attentions))
  BY <1>1, <1>2, <1>3, HandledAside
<1>5. EvHas(eventQueue, Attentions) => hw.cell = "off" \/ em.xWaitingOnCell
  BY DEF Inv, EventInv
<1> QED
  BY <1>2, <1>3, <1>4, <1>5, AsideInv

LEMMA FixTimeoutInv == TypeOK /\ Inv /\ FixTimeout => Inv'
<1> SUFFICES ASSUME TypeOK, Inv, FixTimeout PROVE Inv'
  OBVIOUS
<1>1. CASE Down("standby")
  BY <1>1, DownInv DEF FixTimeout, Inv
<1>2. CASE ~Down("standby")
  <2>0. em \in EmType /\ mem \in MemType
    BY FieldsTyped
  <2>1. /\ eventQueue' = Tail(eventQueue) /\ hw' = hw
        /\ UNCHANGED <<power, script, mqttQueue, mqtt, cloud, asked, outcome>>
        /\ Takes({"GPS_FIX_TIMEOUT"})
    BY <1>2 DEF FixTimeout
  <2>2. mem'.sent = mem.sent /\ em'.xAwsConnected = em.xAwsConnected
        /\ em'.xWaitingOnCell = em.xWaitingOnCell
    BY <1>2, <2>0 DEF FixTimeout, MemType, EmType
  <2>3. Aside /\ (EvHas(eventQueue', Attentions) => EvHas(eventQueue, Attentions))
    BY <2>1, <2>2, HandledAside
  <2>4. EvHas(eventQueue, Attentions) => hw.cell = "off" \/ em.xWaitingOnCell
    BY DEF Inv, EventInv
  <2> QED
    BY <2>1, <2>2, <2>3, <2>4, AsideInv
<1> QED
  BY <1>1, <1>2

LEMMA NoJobsInv == TypeOK /\ Inv /\ NoJobs => Inv'
<1> SUFFICES ASSUME TypeOK, Inv, NoJobs PROVE Inv'
  OBVIOUS
<1>1. CASE Down("standby")
  BY <1>1, DownInv DEF NoJobs, Inv
<1>2. CASE ~Down("standby")
  <2>0. em \in EmType
    BY FieldsTyped
  <2>1. /\ eventQueue' = Tail(eventQueue) /\ hw' = hw /\ mem' = mem
        /\ UNCHANGED <<power, script, mqttQueue, mqtt, cloud, asked, outcome>>
        /\ Takes({"MQTT_NO_JOBS"})
    BY <1>2 DEF NoJobs
  <2>2. em'.xAwsConnected = em.xAwsConnected
    BY <1>2, <2>0 DEF NoJobs, EmType
  <2>3. Aside
    BY <2>1, <2>2, HandledAside
  <2>4. ~EvHas(eventQueue', Attentions)
    BY <2>1, Taken
  <2> QED
    BY <2>1, <2>3, <2>4, AsideInv
<1> QED
  BY <1>1, <1>2

LEMMA CloudConnectFailureInv == TypeOK /\ Inv /\ CloudConnectFailure => Inv'
<1> SUFFICES ASSUME TypeOK, Inv, CloudConnectFailure PROVE Inv'
  OBVIOUS
<1>1. CASE Down("standby")
  BY <1>1, DownInv DEF CloudConnectFailure, Inv
<1>2. CASE ~Down("standby")
  <2>1. /\ eventQueue' = Tail(eventQueue) /\ hw' = hw /\ mem' = mem /\ em' = em
        /\ UNCHANGED <<power, script, mqttQueue, mqtt, cloud, asked, outcome>>
        /\ Takes({"CLOUD_CONNECT_FAILURE"})
    BY <1>2 DEF CloudConnectFailure
  <2>3. Aside /\ (EvHas(eventQueue', Attentions) => EvHas(eventQueue, Attentions))
    BY <2>1, HandledAside
  <2>4. EvHas(eventQueue, Attentions) => hw.cell = "off" \/ em.xWaitingOnCell
    BY DEF Inv, EventInv
  <2> QED
    BY <2>1, <2>3, <2>4, AsideInv
<1> QED
  BY <1>1, <1>2

LEMMA TimeIsUpInv == TypeOK /\ Inv /\ TimeIsUp => Inv'
<1> SUFFICES ASSUME TypeOK, Inv, TimeIsUp PROVE Inv'
  OBVIOUS
<1>1. CASE Down("standby")
  BY <1>1, DownInv DEF TimeIsUp, Inv
<1>2. CASE ~Down("standby")
  <2>0. em \in EmType
    BY FieldsTyped
  <2>1. /\ UNCHANGED <<eventQueue, script, mqttQueue, mqtt, cloud, asked, outcome,
                       hw, mem, power>>
        /\ power = "on"
    BY <1>2 DEF TimeIsUp, On
  <2>2. em'.xAwsConnected = em.xAwsConnected /\ em'.xWaitingOnCell = em.xWaitingOnCell
    BY <1>2, <2>0 DEF TimeIsUp, EmType
  <2>3. EvHas(eventQueue, Attentions) => hw.cell = "off" \/ em.xWaitingOnCell
    BY DEF Inv, EventInv
  <2>4. Aside
    BY <2>1, <2>2 DEF Aside, Inv, EventInv
  <2> QED
    BY <2>1, <2>2, <2>3, <2>4, AsideInv
<1> QED
  BY <1>1, <1>2

LEMMA SsmResetsAmInv == Inv /\ SsmResetsAm => Inv'
  BY DownInv DEF SsmResetsAm, Inv

(* Events posted beside the session.                                       *)
LEMMA PostedAside ==
    ASSUME TypeOK, Inv, NEW id \in Events \ ChainIds, Posts(id, NoJob),
           id \in Attentions => ~EvHas(eventQueue, {"MQTT_NO_JOBS"}),
           mem'.sent = mem.sent, hw'.download = hw.download
    PROVE  /\ Aside /\ em' = em
           /\ EvHas(eventQueue', Attentions) => EvHas(eventQueue, Attentions) \/ id \in Attentions
<1>1. eventQueue \in Seq(EventRec) /\ InOrder(eventQueue)
  BY TypeOKIs DEF QueuesTyped, Inv, EventInv
<1>2. /\ eventQueue' = Posted(eventQueue, id, NoJob) /\ power = "on"
      /\ UNCHANGED <<power, script, em, mqttQueue, mqtt, cloud, asked, outcome>>
  BY DEF Posts, On
<1>3. /\ \A S : EvHas(eventQueue', S) => EvHas(eventQueue, S) \/ id \in S
      /\ InOrder(eventQueue')
      /\ \A j : AreOf(eventQueue, j) => AreOf(eventQueue', j)
  BY <1>1, <1>2, EventPosted DEF ChainIds, Late
<1>4. \A S \in {ChainIds, Late, Ready, JobEvents, Answers} : id \notin S
  BY DEF ChainIds, Late, Early, Ready, Answers
<1> QED
  BY <1>2, <1>3, <1>4 DEF Aside

LEMMA EventIdsAre == ASSUME TypeOK, NEW S PROVE EvHas(eventQueue, S) <=> EventIds \cap S # {}
<1>1. eventQueue \in Seq(EventRec)
  BY TypeOKIs DEF QueuesTyped
<1>2. DOMAIN eventQueue = 1 .. Len(eventQueue)
  BY <1>1
<1> QED
  BY <1>2 DEF EvHas, EventIds

LEMMA Others ==
    /\ \A id \in Attentions : id \in Events \ ChainIds
    /\ {"SENSOR_DATA_MSG_RECEIVED", "SENSOR_DATA_READY", "CLOUD_CONNECT_FAILURE",
        "GPS_FIX_TIMEOUT"} \subseteq (Events \ ChainIds) \ Attentions
    /\ \A id \in ChainIds : id \in Events \ Attentions
  BY JobEventsAre DEF Events, ChainIds, Late, Early, Attentions

LEMMA AttentionInv == TypeOK /\ Inv /\ Attention /\ OrderlyNext => Inv'
<1> SUFFICES ASSUME TypeOK, Inv, Attention, OrderlyNext PROVE Inv'
  OBVIOUS
<1>1. PICK id \in Attentions : Posts(id, NoJob)
  BY DEF Attention
<1>2. hw' = hw /\ mem' = mem
  BY DEF Attention
<1>3. spent'.attn > spent.attn
  <2>1. spent \in SpentType /\ spent.attn \in Nat
    BY SpentBounds
  <2>2. spent'.attn = spent.attn + 1
    BY <2>1 DEF Attention, SpentType
  <2> QED
    BY <2>1, <2>2
<1>4. hw.cell = "off" \/ (em.xWaitingOnCell /\ "MQTT_NO_JOBS" \notin EventIds)
  BY <1>3 DEF OrderlyNext
<1>5. ~EvHas(eventQueue, {"MQTT_NO_JOBS"})
  <2>1. CASE hw.cell = "off"
    BY <2>1, Empty DEF Inv, QuietInv, EventInv
  <2>2. CASE "MQTT_NO_JOBS" \notin EventIds
    BY <2>2, EventIdsAre
  <2> QED
    BY <1>4, <2>1, <2>2
<1>6. Aside /\ em' = em
  BY <1>1, <1>2, <1>5, PostedAside, Others
<1> QED
  BY <1>2, <1>4, <1>6, AsideInv

LEMMA PostsInv == TypeOK /\ Inv
    /\ (LogArrives \/ TransferDone \/ CellFails \/ GpsGivesUp \/ GpsOff) => Inv'
<1> SUFFICES ASSUME TypeOK, Inv,
                    LogArrives \/ TransferDone \/ CellFails \/ GpsGivesUp \/ GpsOff
             PROVE  Inv'
  OBVIOUS
<1>0. hw \in HwType /\ mem \in MemType
  BY FieldsTyped
<1>1. mem'.sent = mem.sent /\ hw'.download = hw.download
  BY <1>0 DEF LogArrives, TransferDone, CellFails, GpsGivesUp, GpsOff, MemType, HwType
<1>2. /\ hw'.cell \in {"off", "starting"} => hw.cell \in {"off", "starting"}
      /\ hw.cell = "off" => hw'.cell = "off"
  BY <1>0 DEF LogArrives, TransferDone, CellFails, GpsGivesUp, GpsOff, HwType
<1>3. Aside /\ em' = em
      /\ (EvHas(eventQueue', Attentions) => EvHas(eventQueue, Attentions))
  <2>1. CASE LogArrives \/ TransferDone \/ CellFails \/ GpsGivesUp
    <3>1. \E id \in (Events \ ChainIds) \ Attentions : Posts(id, NoJob)
      BY <2>1, Others DEF LogArrives, TransferDone, CellFails, GpsGivesUp
    <3> QED
      BY <1>1, <3>1, PostedAside
  <2>2. CASE GpsOff
    BY <1>1, <2>2 DEF GpsOff, Aside, On, Inv, EventInv
  <2> QED
    BY <2>1, <2>2
<1>4. EvHas(eventQueue, Attentions) => hw.cell = "off" \/ em.xWaitingOnCell
  BY DEF Inv, EventInv
<1> QED
  BY <1>2, <1>3, <1>4, AsideInv

(* Handlers that talk to the cloud.                                        *)
LEMMA ChainTaken ==
    ASSUME TypeOK, Inv, NEW ids \in SUBSET ChainIds, Takes(ids)
    PROVE  /\ mqttQueue = <<>> /\ asked = 0 /\ mqtt.inFlight = 0
           /\ hw.download = NoDownload
           /\ em.xAwsConnected => ~EvHas(Tail(eventQueue), ChainIds)
           /\ em.xAwsConnected => hw.cell \notin {"off", "starting"}
           /\ EvHas(Tail(eventQueue), Attentions) => EvHas(eventQueue, Attentions)
           /\ EvHas(eventQueue, Attentions) => hw.cell = "off" \/ em.xWaitingOnCell
<1>1. Head(eventQueue).id \in ChainIds /\ EvHas(eventQueue, ChainIds)
  BY Taken
<1> QED
  BY <1>1, Taken DEF Inv, ChainInv, EventInv

\* A handler that leaves a script without a report.
LEMMA ScriptLeft ==
    ASSUME TypeOK, Inv, NEW ids \in SUBSET Answers, Handles(ids),
           hw' = hw, outcome' = outcome,
           em'.xAwsConnected, em'.xWaitingOnCell = em.xWaitingOnCell,
           ~EvHas(Tail(eventQueue), ChainIds), hw.cell \notin {"off", "starting"},
           Quiet(script'), script' \in Unsent => ~mem'.sent
    PROVE  Inv'
<1>1. /\ Takes(ids) /\ ids \in SUBSET ChainIds /\ eventQueue' = Tail(eventQueue)
      /\ UNCHANGED <<power, mqttQueue, mqtt, cloud, asked>>
  BY DEF Handles, Answers
<1>2. /\ mqttQueue' = <<>> /\ asked' = 0 /\ mqtt'.inFlight = 0
      /\ hw'.download = NoDownload /\ power' = "on"
      /\ ~EvHas(eventQueue', ChainIds) /\ InOrder(eventQueue')
      /\ EvHas(eventQueue', Attentions) => hw'.cell = "off" \/ em'.xWaitingOnCell
      /\ EvHas(eventQueue, Answers)
  BY <1>1, ChainTaken, Taken
<1>3. /\ ~EvHas(eventQueue', Late) /\ ~EvHas(eventQueue', Ready)
      /\ ~EvHas(eventQueue', JobEvents) /\ ~EvHas(eventQueue', Answers)
      /\ AreOf(eventQueue', mqtt'.id)
  BY <1>2, Empty
<1>4. OffInv' /\ QuietInv' /\ EventInv'
  BY <1>2, <1>3 DEF OffInv, QuietInv, EventInv
<1>5. ChainInv'
  BY <1>2, Empty DEF ChainInv
<1>6. BufferInv'
  BY <1>2, Empty DEF BufferInv, Quiet
<1>7. ReportedAsDone'
  BY <1>1 DEF Inv, JobInv, ReportedAsDone
<1>8. JobInv'
  BY <1>1, <1>2, <1>3, <1>7, Empty DEF Inv, JobInv, Quiet, Running
<1>9. HandedBackInv'
  BY <1>1, <1>2 DEF Inv, HandedBackInv, Running
<1> QED
  BY <1>4, <1>5, <1>6, <1>8, <1>9 DEF Inv

LEMMA ChainIdsAre ==
    /\ {"MQTT_READY", "SENSOR_DATA_PUBLISH_SUCCESS", "GPS_FIX_SUCCESS", "MQTT_NO_JOBS"}
          \subseteq Answers
    /\ JobEvents \subseteq Late /\ Late \subseteq ChainIds
    /\ "SENSOR_DATA_PUBLISH_SUCCESS" \in Late /\ "MQTT_NO_JOBS" \in Late
    /\ "MQTT_READY" \in Ready
    /\ "GPS_FIX_SUCCESS" \notin Late \cup Ready
    /\ Answers \subseteq ChainIds /\ Ready \subseteq ChainIds
  BY JobEventsAre DEF Answers, ChainIds, Late, Early, Ready

LEMMA ReadyScript ==
    ASSUME NEW logs
    PROVE  /\ Quiet(UnsentFix \o SendSensorData(logs))
           /\ UnsentFix \o SendSensorData(logs) \in Unsent => ~mem.sent
           /\ Quiet(UnsentFix \o <<"STATUS", "GET_NEW_JOBS">>)
           /\ UnsentFix \o <<"STATUS", "GET_NEW_JOBS">> \in Unsent => ~mem.sent
<1>1. CASE UnsentFix = <<>>
  <2>1. /\ UnsentFix \o SendSensorData(logs) = SendSensorData(logs)
        /\ UnsentFix \o <<"STATUS", "GET_NEW_JOBS">> = <<"STATUS", "GET_NEW_JOBS">>
    BY <1>1 DEF SendSensorData
  <2>2. SendSensorData(logs) \in {<<"DATA">>, <<"GET_NEW_JOBS">>}
    BY DEF SendSensorData
  <2> QED
    BY <2>1, <2>2, ScriptsAre
<1>2. CASE UnsentFix = <<"GPS", "SetGpsSent">> /\ ~mem.sent
  <2>1. /\ UnsentFix \o <<"DATA">> = <<"GPS", "SetGpsSent", "DATA">>
        /\ UnsentFix \o <<"GET_NEW_JOBS">> = <<"GPS", "SetGpsSent", "GET_NEW_JOBS">>
        /\ UnsentFix \o <<"STATUS", "GET_NEW_JOBS">>
             = <<"GPS", "SetGpsSent", "STATUS", "GET_NEW_JOBS">>
    BY <1>2, Concat21, Concat22
  <2>2. SendSensorData(logs) \in {<<"DATA">>, <<"GET_NEW_JOBS">>}
    BY DEF SendSensorData
  <2> QED
    BY <1>2, <2>1, <2>2, ScriptsAre
<1> QED
  BY <1>1, <1>2 DEF UnsentFix

LEMMA MqttReadyInv == TypeOK /\ Inv /\ MqttReady => Inv'
<1> SUFFICES ASSUME TypeOK, Inv, MqttReady PROVE Inv'
  OBVIOUS
<1>0. em \in EmType /\ mem \in MemType
  BY FieldsTyped
<1>1. Handles({"MQTT_READY"}) /\ Takes({"MQTT_READY"}) /\ hw' = hw /\ outcome' = outcome
  BY DEF MqttReady, Handles
<1>2. em'.xAwsConnected /\ em'.xWaitingOnCell = em.xWaitingOnCell
  BY <1>0 DEF MqttReady, EmType
<1>3. ~EvHas(Tail(eventQueue), ChainIds) /\ EvHas(eventQueue, Ready)
  BY <1>1, Taken, ChainIdsAre
<1>4. hw.cell \notin {"off", "starting"}
  BY <1>3 DEF Inv, EventInv
<1>5. Quiet(script') /\ (script' \in Unsent => ~mem'.sent)
  <2>1. mem'.sent = mem.sent
    BY <1>0 DEF MqttReady, MemType
  <2>2. \/ script' = <<"GET_NEW_JOBS">>
        \/ \E logs : script' = UnsentFix \o SendSensorData(logs)
        \/ script' = UnsentFix \o <<"STATUS", "GET_NEW_JOBS">>
    BY DEF MqttReady
  <2> QED
    BY <2>1, <2>2, ReadyScript, ScriptsAre
<1> QED
  BY <1>1, <1>2, <1>3, <1>4, <1>5, ScriptLeft, ChainIdsAre

LEMMA PublishSuccessInv == TypeOK /\ Inv /\ PublishSuccess => Inv'
<1> SUFFICES ASSUME TypeOK, Inv, PublishSuccess PROVE Inv'
  OBVIOUS
<1>1. /\ Handles({"SENSOR_DATA_PUBLISH_SUCCESS"}) /\ Takes({"SENSOR_DATA_PUBLISH_SUCCESS"})
      /\ hw' = hw /\ outcome' = outcome /\ em' = em
  BY DEF PublishSuccess, Handles
<1>2. EvHas(eventQueue, Late) /\ ~EvHas(Tail(eventQueue), ChainIds)
  BY <1>1, Taken, ChainIdsAre
<1>3. em.xAwsConnected
  BY <1>2 DEF Inv, QuietInv
<1>4. hw.cell \notin {"off", "starting"}
  BY <1>3 DEF Inv, EventInv
<1>5. script' \in {<<"DATA">>, <<"GET_NEW_JOBS">>}
  BY DEF PublishSuccess, SendSensorData
<1>6. Quiet(script') /\ (script' \in Unsent => ~mem'.sent)
  BY <1>5, ScriptsAre
<1> QED
  BY <1>1, <1>2, <1>3, <1>4, <1>6, ScriptLeft, ChainIdsAre

LEMMA FixSuccessInv == TypeOK /\ Inv /\ FixSuccess => Inv'
<1> SUFFICES ASSUME TypeOK, Inv, FixSuccess PROVE Inv'
  OBVIOUS
<1>1. /\ Handles({"GPS_FIX_SUCCESS"}) /\ Takes({"GPS_FIX_SUCCESS"})
      /\ hw' = hw /\ outcome' = outcome /\ em' = em /\ mem' = mem
  BY DEF FixSuccess, Handles
<1>2. CASE em.xAwsConnected
  <2>1. ~EvHas(Tail(eventQueue), ChainIds) /\ hw.cell \notin {"off", "starting"}
    BY <1>1, <1>2, ChainTaken, ChainIdsAre
  <2>2. Quiet(script') /\ script' \notin Unsent
    BY <1>2, ScriptsAre DEF FixSuccess
  <2> QED
    BY <1>1, <1>2, <2>1, <2>2, ScriptLeft, ChainIdsAre
<1>3. CASE ~em.xAwsConnected
  <2>1. script' = script
    BY <1>1, <1>3, Taken DEF FixSuccess
  <2>2. Aside /\ (EvHas(eventQueue', Attentions) => EvHas(eventQueue, Attentions))
    BY <1>1, <2>1, HandledAside DEF Handles
  <2>3. EvHas(eventQueue, Attentions) => hw.cell = "off" \/ em.xWaitingOnCell
    BY DEF Inv, EventInv
  <2> QED
    BY <1>1, <2>2, <2>3, AsideInv
<1> QED
  BY <1>2, <1>3

(* The jobs.                                                               *)
LEMMA JobTaken ==
    ASSUME TypeOK, Inv, NEW ids \in SUBSET JobEvents, Takes(ids)
    PROVE  /\ Running /\ Job = mqtt.id /\ mqtt.id \in Jobs
           /\ cloud[mqtt.id].status = "IN_PROGRESS"
           /\ em.xAwsConnected /\ ~EvHas(Tail(eventQueue), ChainIds)
           /\ Takes(ids) /\ ids \in SUBSET ChainIds
<1>1. ids \in SUBSET ChainIds /\ ids \in SUBSET Late /\ "GPS_FIX_SUCCESS" \notin ids
  BY ChainIdsAre
<1>2. EvHas(eventQueue, JobEvents) /\ EvHas(eventQueue, Late) /\ Job = mqtt.id
      /\ ~EvHas(Tail(eventQueue), ChainIds)
  BY <1>1, Taken
<1>3. em.xAwsConnected
  BY <1>2 DEF Inv, QuietInv
<1> QED
  BY <1>1, <1>2, <1>3 DEF Inv, JobInv

\* A handler that ends the job in hand and leaves its report to be queued.
LEMMA JobEnds ==
    ASSUME TypeOK, Inv, NEW ids \in SUBSET JobEvents, Handles(ids),
           em'.xAwsConnected = em.xAwsConnected, em'.xWaitingOnCell = em.xWaitingOnCell,
           hw'.cell = hw.cell, hw'.download = hw.download,
           NEW o, outcome' = Becomes(Job, o),
           NEW r \in Reports, script' \in Reporting(r), Means(r, o)
    PROVE  Inv'
<1>1. /\ Takes(ids) /\ eventQueue' = Tail(eventQueue)
      /\ UNCHANGED <<power, mqttQueue, mqtt, cloud, asked>>
  BY DEF Handles
<1>2. /\ Running /\ Job = mqtt.id /\ mqtt.id \in Jobs
      /\ cloud[mqtt.id].status = "IN_PROGRESS"
      /\ em.xAwsConnected /\ ~EvHas(Tail(eventQueue), ChainIds)
      /\ ids \in SUBSET ChainIds
  BY <1>1, JobTaken
<1>3. /\ mqttQueue' = <<>> /\ asked' = 0 /\ mqtt'.inFlight = 0
      /\ hw'.download = NoDownload /\ power' = "on"
      /\ ~EvHas(eventQueue', ChainIds) /\ InOrder(eventQueue')
      /\ hw'.cell \notin {"off", "starting"} /\ em'.xAwsConnected
      /\ EvHas(eventQueue', Attentions) => hw'.cell = "off" \/ em'.xWaitingOnCell
  BY <1>1, <1>2, ChainTaken, Taken
<1>4. /\ ~EvHas(eventQueue', Late) /\ ~EvHas(eventQueue', Ready)
      /\ ~EvHas(eventQueue', JobEvents) /\ ~EvHas(eventQueue', Answers)
      /\ AreOf(eventQueue', mqtt'.id)
  BY <1>3, Empty
<1>5. OffInv' /\ QuietInv' /\ EventInv'
  BY <1>3, <1>4 DEF OffInv, QuietInv, EventInv
<1>6. ChainInv'
  BY <1>3, Empty DEF ChainInv
<1>7. BufferInv'
  BY <1>3, Empty, ScriptsAre DEF BufferInv
<1>8. outcome \in OutcomeType /\ mqtt.id \in Jobs \cup {NoJob}
  BY MqttFieldsTyped
<1>9. /\ outcome'[mqtt.id] = o
      /\ \A j \in Jobs : j # mqtt.id => outcome'[j] = outcome[j]
  BY <1>2, <1>8 DEF Becomes, OutcomeType
<1>10. ReportedAsDone'
  BY <1>1, <1>2, <1>9 DEF Inv, JobInv, ReportedAsDone
<1>11. JobInv'
  <2>1. Means(r, outcome'[mqtt'.id])
    BY <1>1, <1>9
  <2>2. \A r1 \in Reports : script' \in Reporting(r1) => r1 = r
    BY ScriptsAre
  <2>3. mqtt' = mqtt /\ cloud' = cloud
    BY <1>1
  <2> QED
    BY <1>2, <1>3, <1>4, <1>10, <2>1, <2>2, <2>3, Empty DEF JobInv, Running
<1>12. HandedBackInv'
  BY <1>3, <1>4, Empty DEF HandedBackInv
<1> QED
  BY <1>5, <1>6, <1>7, <1>11, <1>12 DEF Inv

LEMMA ReportScripts ==
    \A r \in Reports :
        /\ <<r>> \in Reporting(r) /\ <<r, "RESET">> \in Reporting(r)
        /\ <<r, "GET_NEW_JOBS">> \in Reporting(r)
        /\ <<r>> \o <<"GET_NEW_JOBS">> \in Reporting(r)
        /\ <<r>> \o <<"STATUS", "GET_NEW_JOBS">> \in Reporting(r)
        /\ <<"GPS", r>> \o <<"GET_NEW_JOBS">> \in Reporting(r)
<1> SUFFICES ASSUME NEW r \in Reports
             PROVE  /\ <<r>> \in Reporting(r) /\ <<r, "RESET">> \in Reporting(r)
                    /\ <<r, "GET_NEW_JOBS">> \in Reporting(r)
                    /\ <<r>> \o <<"GET_NEW_JOBS">> \in Reporting(r)
                    /\ <<r>> \o <<"STATUS", "GET_NEW_JOBS">> \in Reporting(r)
                    /\ <<"GPS", r>> \o <<"GET_NEW_JOBS">> \in Reporting(r)
  OBVIOUS
<1>1. /\ <<r>> \o <<"GET_NEW_JOBS">> = <<r, "GET_NEW_JOBS">>
      /\ <<r>> \o <<"STATUS", "GET_NEW_JOBS">> = <<r, "STATUS", "GET_NEW_JOBS">>
      /\ <<"GPS", r>> \o <<"GET_NEW_JOBS">> = <<"GPS", r, "GET_NEW_JOBS">>
  BY Concat11, Concat12, Concat21
<1> QED
  BY <1>1 DEF Reporting, Alone

LEMMA CloudActivateInv == TypeOK /\ Inv /\ CloudActivate => Inv'
<1> SUFFICES ASSUME TypeOK, Inv, CloudActivate PROVE Inv'
  OBVIOUS
<1>0. hw \in HwType /\ mem.fixed \in BOOLEAN
  BY FieldsTyped DEF MemType
<1>1. Handles({"CLOUD_ACTIVATE_EVT"}) /\ Takes({"CLOUD_ACTIVATE_EVT"}) /\ em' = em
      /\ {"CLOUD_ACTIVATE_EVT"} \in SUBSET JobEvents
  BY JobEventsAre DEF CloudActivate, Handles
<1>2. em.xAwsConnected
  BY <1>1, JobTaken
<1>3. hw'.cell = hw.cell /\ hw'.download = hw.download
  BY <1>0 DEF CloudActivate, GpsEnabled, HwType
<1>4. \E o \in Succeeded \cup Failed, r \in Reports :
        outcome' = Becomes(Job, o) /\ script' \in Reporting(r) /\ Means(r, o)
  BY <1>0, <1>2, ReportScripts
     DEF CloudActivate, Sends, Report, Reports, Ends, Means, Succeeded, Failed
<1> QED
  BY <1>1, <1>3, <1>4, JobEnds

LEMMA DeactivateInv == TypeOK /\ Inv /\ Deactivate => Inv'
<1> SUFFICES ASSUME TypeOK, Inv, Deactivate PROVE Inv'
  OBVIOUS
<1>0. hw \in HwType /\ mem.fixed \in BOOLEAN
  BY FieldsTyped DEF MemType
<1>1. Handles({"DEACTIVATE_EVT"}) /\ Takes({"DEACTIVATE_EVT"}) /\ em' = em
      /\ {"DEACTIVATE_EVT"} \in SUBSET JobEvents
  BY JobEventsAre DEF Deactivate, Handles
<1>2. em.xAwsConnected
  BY <1>1, JobTaken
<1>3. hw'.cell = hw.cell /\ hw'.download = hw.download
  BY <1>0 DEF Deactivate, GpsEnabled, HwType
<1>4. \E o \in Succeeded \cup Failed, r \in Reports :
        outcome' = Becomes(Job, o) /\ script' \in Reporting(r) /\ Means(r, o)
  BY <1>0, <1>2, ReportScripts
     DEF Deactivate, Sends, Report, Reports, Ends, Means, Succeeded, Failed
<1> QED
  BY <1>1, <1>3, <1>4, JobEnds

LEMMA ConfigureInv == TypeOK /\ Inv /\ Configure => Inv'
<1> SUFFICES ASSUME TypeOK, Inv, Configure PROVE Inv'
  OBVIOUS
<1>0. hw \in HwType /\ mem.fixed \in BOOLEAN
  BY FieldsTyped DEF MemType
<1>1. Handles({"CONFIGURE_EVT"}) /\ Takes({"CONFIGURE_EVT"}) /\ em' = em
      /\ {"CONFIGURE_EVT"} \in SUBSET JobEvents
  BY JobEventsAre DEF Configure, Handles
<1>2. em.xAwsConnected
  BY <1>1, JobTaken
<1>3. hw'.cell = hw.cell /\ hw'.download = hw.download
  BY <1>0 DEF Configure, GpsEnabled, HwType
<1>4. \E o \in Succeeded \cup Failed, r \in Reports :
        outcome' = Becomes(Job, o) /\ script' \in Reporting(r) /\ Means(r, o)
  BY <1>0, <1>2, ReportScripts
     DEF Configure, Sends, Report, Reports, Ends, Means, Succeeded, Failed
<1> QED
  BY <1>1, <1>3, <1>4, JobEnds

LEMMA ResetAlarmsInv == TypeOK /\ Inv /\ ResetAlarms => Inv'
<1> SUFFICES ASSUME TypeOK, Inv, ResetAlarms PROVE Inv'
  OBVIOUS
<1>0. hw \in HwType /\ mem.fixed \in BOOLEAN
  BY FieldsTyped DEF MemType
<1>1. Handles({"RESET_ALARMS_CMD"}) /\ Takes({"RESET_ALARMS_CMD"}) /\ em' = em
      /\ {"RESET_ALARMS_CMD"} \in SUBSET JobEvents
  BY JobEventsAre DEF ResetAlarms, Handles
<1>2. em.xAwsConnected
  BY <1>1, JobTaken
<1>3. hw'.cell = hw.cell /\ hw'.download = hw.download
  BY <1>0 DEF ResetAlarms, GpsEnabled, HwType
<1>4. \E o \in Succeeded \cup Failed, r \in Reports :
        outcome' = Becomes(Job, o) /\ script' \in Reporting(r) /\ Means(r, o)
  BY <1>0, <1>2, ReportScripts
     DEF ResetAlarms, Sends, Report, Reports, Ends, Means, Succeeded, Failed
<1> QED
  BY <1>1, <1>3, <1>4, JobEnds

LEMMA GpsJobNewInv == TypeOK /\ Inv /\ GpsJobNew => Inv'
<1> SUFFICES ASSUME TypeOK, Inv, GpsJobNew PROVE Inv'
  OBVIOUS
<1>0. hw \in HwType /\ mem.fixed \in BOOLEAN
  BY FieldsTyped DEF MemType
<1>1. Handles({"GPS_NEW"}) /\ Takes({"GPS_NEW"}) /\ em' = em
      /\ {"GPS_NEW"} \in SUBSET JobEvents
  BY JobEventsAre DEF GpsJobNew, Handles
<1>2. em.xAwsConnected
  BY <1>1, JobTaken
<1>3. hw'.cell = hw.cell /\ hw'.download = hw.download
  BY <1>0 DEF GpsJobNew, GpsEnabled, HwType
<1>4. \E o \in Succeeded \cup Failed, r \in Reports :
        outcome' = Becomes(Job, o) /\ script' \in Reporting(r) /\ Means(r, o)
  BY <1>0, <1>2, ReportScripts
     DEF GpsJobNew, Sends, Report, Reports, Ends, Means, Succeeded, Failed
<1> QED
  BY <1>1, <1>3, <1>4, JobEnds

LEMMA GpsJobLastInv == TypeOK /\ Inv /\ GpsJobLast => Inv'
<1> SUFFICES ASSUME TypeOK, Inv, GpsJobLast PROVE Inv'
  OBVIOUS
<1>0. hw \in HwType /\ mem.fixed \in BOOLEAN
  BY FieldsTyped DEF MemType
<1>1. Handles({"GPS_LAST"}) /\ Takes({"GPS_LAST"}) /\ em' = em
      /\ {"GPS_LAST"} \in SUBSET JobEvents
  BY JobEventsAre DEF GpsJobLast, Handles
<1>2. em.xAwsConnected
  BY <1>1, JobTaken
<1>3. hw'.cell = hw.cell /\ hw'.download = hw.download
  BY <1>0 DEF GpsJobLast, GpsEnabled, HwType
<1>4. \E o \in Succeeded \cup Failed, r \in Reports :
        outcome' = Becomes(Job, o) /\ script' \in Reporting(r) /\ Means(r, o)
  BY <1>0, <1>2, ReportScripts
     DEF GpsJobLast, Sends, Report, Reports, Ends, Means, Succeeded, Failed
<1> QED
  BY <1>1, <1>3, <1>4, JobEnds

LEMMA HwResetInv == TypeOK /\ Inv /\ HwReset => Inv'
<1> SUFFICES ASSUME TypeOK, Inv, HwReset PROVE Inv'
  OBVIOUS
<1>0. hw \in HwType /\ mem.fixed \in BOOLEAN
  BY FieldsTyped DEF MemType
<1>1. Handles({"HW_RESET_CMD"}) /\ Takes({"HW_RESET_CMD"}) /\ em' = em
      /\ {"HW_RESET_CMD"} \in SUBSET JobEvents
  BY JobEventsAre DEF HwReset, Handles
<1>2. em.xAwsConnected
  BY <1>1, JobTaken
<1>3. hw'.cell = hw.cell /\ hw'.download = hw.download
  BY <1>0 DEF HwReset, GpsEnabled, HwType
<1>4. \E o \in Succeeded \cup Failed, r \in Reports :
        outcome' = Becomes(Job, o) /\ script' \in Reporting(r) /\ Means(r, o)
  BY <1>0, <1>2, ReportScripts
     DEF HwReset, Sends, Report, Reports, Ends, Means, Succeeded, Failed
<1> QED
  BY <1>1, <1>3, <1>4, JobEnds

LEMMA DownloadCompleteInv == TypeOK /\ Inv /\ DownloadComplete => Inv'
<1> SUFFICES ASSUME TypeOK, Inv, DownloadComplete PROVE Inv'
  OBVIOUS
<1>0. hw \in HwType /\ mem.fixed \in BOOLEAN
  BY FieldsTyped DEF MemType
<1>e. /\ em'.xAwsConnected = em.xAwsConnected
      /\ em'.xWaitingOnCell = em.xWaitingOnCell
  BY FieldsTyped DEF DownloadComplete, EmType
<1>1. Handles({"FW_DOWNLOAD_COMPLETE"}) /\ Takes({"FW_DOWNLOAD_COMPLETE"})
      /\ {"FW_DOWNLOAD_COMPLETE"} \in SUBSET JobEvents
  BY JobEventsAre DEF DownloadComplete, Handles
<1>2. em.xAwsConnected
  BY <1>1, JobTaken
<1>3. hw'.cell = hw.cell /\ hw'.download = hw.download
  BY <1>0 DEF DownloadComplete, GpsEnabled, HwType
<1>4. \E o \in Succeeded \cup Failed, r \in Reports :
        outcome' = Becomes(Job, o) /\ script' \in Reporting(r) /\ Means(r, o)
  BY <1>0, <1>2, ReportScripts
     DEF DownloadComplete, Sends, Report, Reports, Ends, Means, Succeeded, Failed
<1> QED
  BY <1>e, <1>1, <1>3, <1>4, JobEnds

LEMMA DownloadFailInv == TypeOK /\ Inv /\ DownloadFail => Inv'
<1> SUFFICES ASSUME TypeOK, Inv, DownloadFail PROVE Inv'
  OBVIOUS
<1>0. hw \in HwType /\ mem.fixed \in BOOLEAN
  BY FieldsTyped DEF MemType
<1>1. Handles({"FW_DOWNLOAD_FAIL"}) /\ Takes({"FW_DOWNLOAD_FAIL"}) /\ em' = em
      /\ {"FW_DOWNLOAD_FAIL"} \in SUBSET JobEvents
  BY JobEventsAre DEF DownloadFail, Handles
<1>2. em.xAwsConnected
  BY <1>1, JobTaken
<1>3. hw'.cell = hw.cell /\ hw'.download = hw.download
  BY <1>0 DEF DownloadFail, GpsEnabled, HwType
<1>4. \E o \in Succeeded \cup Failed, r \in Reports :
        outcome' = Becomes(Job, o) /\ script' \in Reporting(r) /\ Means(r, o)
  BY <1>0, <1>2, ReportScripts
     DEF DownloadFail, Sends, Report, Reports, Ends, Means, Succeeded, Failed
<1> QED
  BY <1>1, <1>3, <1>4, JobEnds

LEMMA OtaInv == TypeOK /\ Inv /\ Ota => Inv'
<1> SUFFICES ASSUME TypeOK, Inv, Ota PROVE Inv'
  OBVIOUS
<1>0. hw \in HwType /\ em \in EmType
  BY FieldsTyped
<1>1. /\ Takes({"OTA"}) /\ {"OTA"} \in SUBSET JobEvents
      /\ eventQueue' = Tail(eventQueue)
      /\ UNCHANGED <<power, script, mqttQueue, mqtt, cloud, asked, mem, outcome>>
  BY JobEventsAre DEF Ota, Handles
<1>2. /\ Running /\ Job = mqtt.id /\ mqtt.id \in Jobs
      /\ em.xAwsConnected /\ ~EvHas(Tail(eventQueue), ChainIds)
      /\ {"OTA"} \in SUBSET ChainIds
  BY <1>1, JobTaken
<1>3. hw'.cell = hw.cell /\ hw'.download = mqtt.id
      /\ em'.xAwsConnected /\ em'.xWaitingOnCell = em.xWaitingOnCell
  BY <1>0, <1>2 DEF Ota, HwType, EmType
<1>4. /\ mqttQueue' = <<>> /\ asked' = 0 /\ mqtt'.inFlight = 0 /\ script' = <<>>
      /\ power' = "on" /\ ~EvHas(eventQueue', ChainIds) /\ InOrder(eventQueue')
      /\ hw'.cell \notin {"off", "starting"}
      /\ EvHas(eventQueue', Attentions) => hw'.cell = "off" \/ em'.xWaitingOnCell
  BY <1>1, <1>2, <1>3, ChainTaken, Taken
<1>5. /\ ~EvHas(eventQueue', Late) /\ ~EvHas(eventQueue', Ready)
      /\ ~EvHas(eventQueue', JobEvents) /\ ~EvHas(eventQueue', Answers)
      /\ AreOf(eventQueue', mqtt'.id)
  BY <1>4, Empty
<1>6. OffInv' /\ QuietInv' /\ EventInv'
  BY <1>3, <1>4, <1>5 DEF OffInv, QuietInv, EventInv
<1>7. ChainInv'
  BY <1>4, Empty DEF ChainInv
<1>8. BufferInv'
  BY <1>4, Empty, ScriptsAre DEF BufferInv, Quiet
<1>9. ReportedAsDone'
  BY <1>1 DEF Inv, JobInv, ReportedAsDone
<1>10. JobInv'
  BY <1>1, <1>2, <1>3, <1>4, <1>5, <1>9, Empty, ScriptsAre
     DEF Inv, JobInv, Running, Quiet
<1>11. HandedBackInv'
  BY <1>4, <1>5, Empty, ScriptsAre DEF HandedBackInv, Quiet, Reporting
<1> QED
  BY <1>6, <1>7, <1>8, <1>10, <1>11 DEF Inv

(* A step of the script.                                                   *)
LEMMA ScriptTaken ==
    ASSUME TypeOK, Inv, On, script # <<>>
    PROVE  /\ Moves(script, Head(script), Tail(script))
           /\ em.xAwsConnected /\ hw.cell \notin {"off", "starting"}
           /\ asked = 0 /\ mqtt.inFlight = 0 /\ hw.download = NoDownload
           /\ ~EvHas(eventQueue, ChainIds) /\ ~EvHas(eventQueue, JobEvents)
           /\ ~QHas(mqttQueue, Askers) /\ ~QHas(mqttQueue, {"NEW_JOB"})
<1>1. ~QHas(mqttQueue, Askers) => ~QHas(mqttQueue, {"NEW_JOB"})
  BY DEF QHas, Askers
<1>2. ~EvHas(eventQueue, ChainIds) => ~EvHas(eventQueue, JobEvents)
  BY Empty
<1> QED
  BY <1>1, <1>2, ScriptMoves DEF Inv, BufferInv, ChainInv, QuietInv, EventInv

LEMMA QueueInv == TypeOK /\ Inv /\ Queue => Inv'
<1> SUFFICES ASSUME TypeOK, Inv, Queue PROVE Inv'
  OBVIOUS
<1> DEFINE m == Head(script)
           t == Tail(script)
<1>0. mqtt \in MqttType /\ mqttQueue \in Seq(Queueable) /\ Len(mqttQueue) \in Nat
      /\ MqttQueueLen \in Nat
  BY MqttFieldsTyped, SessionAssumption
<1>1. /\ power = "on" /\ m \in Messages /\ m \in Queueable /\ script' = t
      /\ UNCHANGED <<power, eventQueue, em, mem, hw, cloud, asked, outcome>>
      /\ mqttQueue' = IF Len(mqttQueue) < MqttQueueLen
                      THEN Append(mqttQueue, m) ELSE mqttQueue
  BY MessagesAre DEF Queue, On
<1>2. /\ Moves(script, m, t)
      /\ em.xAwsConnected /\ hw.cell \notin {"off", "starting"}
      /\ asked = 0 /\ mqtt.inFlight = 0 /\ hw.download = NoDownload
      /\ ~EvHas(eventQueue, ChainIds) /\ ~EvHas(eventQueue, JobEvents)
      /\ ~QHas(mqttQueue, Askers) /\ ~QHas(mqttQueue, {"NEW_JOB"})
  BY ScriptTaken DEF Queue
<1>3. /\ mqtt'.status = mqtt.status /\ mqtt'.id = mqtt.id /\ mqtt'.inFlight = 0
      /\ m \in Topics => mqtt'.buf = m
      /\ m \notin Topics => mqtt'.buf = mqtt.buf
  BY <1>0, <1>2 DEF Queue, MqttType
<1>4. /\ \A S : QHas(mqttQueue', S) => QHas(mqttQueue, S) \/ m \in S
      /\ \A S : QHas(mqttQueue, S) => QHas(mqttQueue', S)
      /\ AskerLast(mqttQueue) => AskerLast(mqttQueue')
      /\ \A buf : Encoded(mqttQueue, buf) /\ (m \in Topics => m = buf)
                    => Encoded(mqttQueue', buf)
      /\ OneReport(mqttQueue) /\ (m \in Reports => ~QHas(mqttQueue, Reports))
           => OneReport(mqttQueue')
      /\ \A o : AllMean(mqttQueue, o) /\ (m \in Reports => Means(m, o))
                    => AllMean(mqttQueue', o)
      /\ Len(mqttQueue) < MqttQueueLen =>
            /\ Len(mqttQueue') = Len(mqttQueue) + 1
            /\ \A S : m \in S => QHas(mqttQueue', S)
  BY <1>0, <1>1, <1>2, MessageQueued
<1>5. OffInv' /\ QuietInv' /\ EventInv'
  BY <1>1, <1>2 DEF OffInv, QuietInv, EventInv, Inv
<1>6. ChainInv'
  <2>1. AskerLast(mqttQueue)
    BY DEF Inv, ChainInv
  <2>2. QHas(mqttQueue', Askers) => script' = <<>>
    BY <1>1, <1>2, <1>4 DEF Moves
  <2> QED
    BY <1>1, <1>2, <1>3, <1>4, <2>1, <2>2 DEF ChainInv
<1>7. m \in {"STATUS", "GPS", "DATA", "PASS", "FAIL", "BAD_CONFIGS", "GET_NEW_JOBS"}
  BY <1>1, MessagesAre
<1>8. BufferInv'
  <2>1. script' \in Scripts /\ (script' \in Unsent => ~mem'.sent)
    BY <1>1, <1>2 DEF Moves, Inv, BufferInv
  <2>2. script' \in Topical => ~QHas(mqttQueue', Topics)
    <3>1. m # "SetGpsSent" /\ (m \in Reports => m \notin Topics)
      BY <1>7 DEF Reports, Topics
    <3> QED
      BY <1>1, <1>2, <1>4, <3>1 DEF Moves, Inv, BufferInv
  <2>3. Encoded(mqttQueue', mqtt'.buf)
    <3>1. CASE m \in Topics
      <4>1. ~QHas(mqttQueue, Topics)
        BY <1>2, <3>1 DEF Moves, Inv, BufferInv
      <4>2. Encoded(mqttQueue, m)
        BY <4>1, Empty
      <4> QED
        BY <1>3, <1>4, <3>1, <4>2
    <3>2. CASE m \notin Topics
      BY <1>3, <1>4, <3>2 DEF Inv, BufferInv
    <3> QED
      BY <3>1, <3>2
  <2> QED
    BY <2>1, <2>2, <2>3 DEF BufferInv
<1>9. JobInv'
  <2>1. ReportedAsDone' /\ mqtt'.id = mqtt.id /\ outcome' = outcome /\ cloud' = cloud
        /\ eventQueue' = eventQueue /\ hw' = hw /\ (Running' <=> Running)
    BY <1>1, <1>3 DEF Inv, JobInv, ReportedAsDone, Running
  <2>2. m \in Reports =>
          Running /\ ~QHas(mqttQueue, Reports) /\ Means(m, outcome[mqtt.id])
    BY <1>2 DEF Moves, Inv, JobInv
  <2>3. ~QHas(mqttQueue', {"NEW_JOB"})
    BY <1>2, <1>4, <1>7
  <2>4. AllMean(mqttQueue', outcome[mqtt.id]) /\ OneReport(mqttQueue')
        /\ (QHas(mqttQueue', Reports) => Running)
    BY <1>4, <2>2 DEF Inv, JobInv
  <2>5. ASSUME NEW r \in Reports, script' \in Reporting(r)
        PROVE  Running /\ ~QHas(mqttQueue', Reports) /\ Means(r, outcome[mqtt.id])
    <3>1. script \in Reporting(r) /\ m \notin Reports
      BY <1>1, <1>2, <2>5 DEF Moves, Reporting, Reports
    <3> QED
      BY <1>4, <3>1 DEF Inv, JobInv
  <2> QED
    BY <1>2, <2>1, <2>3, <2>4, <2>5 DEF Inv, JobInv
<1>10. HandedBackInv'
  <2>1. CASE ~(MqttQueueLen > 1 /\ Running')
    BY <2>1 DEF HandedBackInv
  <2>2. CASE MqttQueueLen > 1 /\ Running'
    <3>1. /\ ~EvHas(eventQueue, Answers) /\ script \notin {<<>>, <<"RESET">>}
          /\ QHas(mqttQueue, Reports) \/ \E r \in Reports : script \in Reporting(r)
          /\ \A r \in Reports : script \in Alone(r) => mqttQueue = <<>>
          /\ \A r \in Reports : script = <<r, "GET_NEW_JOBS">> => Len(mqttQueue) < 2
      <4>1. script # <<>> /\ script # <<"RESET">>
        BY <1>7 DEF Queue
      <4> QED
        BY <1>3, <2>2, <4>1 DEF Inv, HandedBackInv, Running
    <3>2. ASSUME QHas(mqttQueue', Askers) PROVE QHas(mqttQueue', Reports)
      <4>1. m \in Askers /\ t = <<>>
        BY <1>2, <1>4, <3>2 DEF Moves
      <4>2. \A r \in Reports : script \notin Reporting(r)
        BY <1>2, <4>1 DEF Moves, Askers, Reports
      <4> QED
        BY <1>4, <3>1, <4>2
    <3>3. ASSUME NEW r \in Reports, script \in Reporting(r), m = r
          PROVE  QHas(mqttQueue', Reports)
      <4>1. Len(mqttQueue) < 2
        BY <3>1, <3>3 DEF Reporting
      <4> QED
        BY <1>0, <1>4, <2>2, <3>3, <4>1
    <3>4. ASSUME NEW r \in Reports, script \in Reporting(r), m # r
          PROVE  script' \in Reporting(r)
      BY <1>1, <1>2, <3>4 DEF Moves, Reporting
    <3>5. QHas(mqttQueue', Reports) \/ \E r \in Reports : script' \in Reporting(r)
      BY <1>4, <3>1, <3>3, <3>4
    <3>6. \A r \in Reports : script' \notin Alone(r)
      BY <1>1, <1>2 DEF Moves
    <3>7. ASSUME NEW r \in Reports, script' = <<r, "GET_NEW_JOBS">>
          PROVE  Len(mqttQueue') < 2
      <4>1. script \in Alone(r)
        BY <1>1, <1>2, <3>7 DEF Moves, Reporting
      <4>2. Len(mqttQueue) = 0
        BY <3>1, <4>1
      <4> QED
        BY <1>0, <1>1, <1>4, <4>2
    <3> QED
      BY <1>1, <1>2, <1>3, <3>1, <3>2, <3>5, <3>6, <3>7 DEF HandedBackInv
  <2> QED
    BY <2>1, <2>2
<1> QED
  BY <1>5, <1>6, <1>8, <1>9, <1>10 DEF Inv

LEMMA SetGpsSentInv == TypeOK /\ Inv /\ SetGpsSent /\ OrderlyNext => Inv'
<1> SUFFICES ASSUME TypeOK, Inv, SetGpsSent, OrderlyNext PROVE Inv'
  OBVIOUS
<1> DEFINE t == Tail(script)
<1>0. mem \in MemType
  BY FieldsTyped
<1>1. /\ power = "on" /\ Head(script) = "SetGpsSent" /\ script' = t /\ script # <<>>
      /\ UNCHANGED <<power, eventQueue, em, hw, mqttQueue, mqtt, cloud, asked, outcome>>
      /\ mem'.sent
  BY <1>0 DEF SetGpsSent, InScript, On, MemType
<1>2. /\ Moves(script, "SetGpsSent", t)
      /\ em.xAwsConnected /\ hw.cell \notin {"off", "starting"}
      /\ asked = 0 /\ mqtt.inFlight = 0 /\ hw.download = NoDownload
      /\ ~EvHas(eventQueue, ChainIds) /\ ~QHas(mqttQueue, Askers)
  BY <1>1, ScriptTaken DEF On
<1>3. ~mem.sent => mqttQueue = <<>>
  BY <1>1 DEF OrderlyNext
<1>4. OffInv' /\ QuietInv' /\ EventInv'
  BY <1>1, <1>2 DEF OffInv, QuietInv, EventInv, Inv
<1>5. ChainInv'
  BY <1>1, <1>2 DEF ChainInv, Inv
<1>6. BufferInv'
  <2>1. t \notin Unsent /\ t \in Scripts /\ (t \in Topical => script \in Unsent)
    BY <1>2 DEF Moves, Reports
  <2>2. t \in Topical => mqttQueue = <<>>
    BY <1>3, <2>1 DEF Inv, BufferInv
  <2> QED
    BY <1>1, <2>1, <2>2, Empty DEF Inv, BufferInv
<1>7. /\ \A r \in Reports : t \notin Reporting(r)
      /\ \A r \in Reports : script \notin Reporting(r)
  <2>1. \A r \in Reports : t \notin Reporting(r)
    BY <1>2 DEF Moves
  <2>2. \A r \in Reports : <<r, "GET_NEW_JOBS">> \in Reporting(r) /\ r # "SetGpsSent"
    BY DEF Reporting, Reports
  <2> QED
    BY <1>2, <2>1, <2>2 DEF Moves
<1>8. JobInv'
  <2>1. ReportedAsDone'
    BY <1>1 DEF Inv, JobInv, ReportedAsDone
  <2> QED
    BY <1>1, <1>7, <2>1 DEF Inv, JobInv, Running
<1>9. HandedBackInv'
  <2>1. script \notin {<<>>, <<"RESET">>}
    BY <1>1
  <2>2. \A r \in Reports : t \notin Alone(r) /\ t # <<r, "GET_NEW_JOBS">>
    BY <1>7 DEF Reporting
  <2> QED
    BY <1>1, <1>2, <1>7, <2>1, <2>2 DEF Inv, HandedBackInv, Running
<1> QED
  BY <1>4, <1>5, <1>6, <1>8, <1>9 DEF Inv

LEMMA ResetInv == TypeOK /\ Inv /\ InstallInv /\ Reset => Inv'
<1> SUFFICES ASSUME TypeOK, Inv, InstallInv, Reset PROVE Inv'
  OBVIOUS
<1>d. ReportedAsDone'
  <2>1. outcome \in OutcomeType /\ em.installs \in Jobs \cup {NoJob} /\ NoJob \notin Jobs
    BY FieldsTyped, SessionAssumption DEF EmType, Jobs, NoJob
  <2>2. PICK o \in {"pass", "undone"} : outcome' = Becomes(em.installs, o) /\ cloud' = cloud
    BY DEF Reset
  <2>3. /\ em.installs # NoJob => outcome[em.installs] \in Succeeded
        /\ o \in Succeeded /\ Succeeded \cap Failed = {}
    BY DEF InstallInv, Succeeded, Failed
  <2>4. /\ \A j \in Jobs : j # em.installs => outcome'[j] = outcome[j]
        /\ outcome'[em.installs] = o
    BY <2>1, <2>2 DEF Becomes, OutcomeType
  <2>5. ReportedAsDone
    BY DEF Inv, JobInv
  <2>6. ASSUME NEW j \in Jobs
        PROVE  /\ cloud'[j].status = "SUCCEEDED" => outcome'[j] \in Succeeded
               /\ cloud'[j].status = "FAILED" => outcome'[j] \in Failed
    <3>1. CASE j # em.installs
      BY <2>2, <2>4, <2>5, <3>1 DEF ReportedAsDone
    <3>2. CASE j = em.installs
      <4>1. outcome[j] \in Succeeded /\ outcome'[j] \in Succeeded
        BY <2>1, <2>3, <2>4, <3>2
      <4>2. cloud[j].status # "FAILED"
        BY <2>3, <2>5, <4>1 DEF ReportedAsDone
      <4> QED
        BY <2>2, <4>1, <4>2
    <3> QED
      BY <3>1, <3>2
  <2> QED
    BY <2>6 DEF ReportedAsDone
<1>1. CASE \E how \in {"reset", "standby"} : Down(how)
  BY <1>1, <1>d, DownLeaves
<1>2. CASE ~\E how \in {"reset", "standby"} : Down(how)
  <2>0. hw \in HwType /\ em \in EmType
    BY FieldsTyped
  <2>1. /\ power = "on" /\ script # <<>> /\ script' = <<>> /\ mqttQueue' = <<>>
        /\ UNCHANGED <<power, eventQueue, mqtt, asked, mem, cloud>>
        /\ hw'.cell = "failed" /\ hw'.download = hw.download
        /\ em'.xAwsConnected = em.xAwsConnected /\ em'.xWaitingOnCell = em.xWaitingOnCell
    BY <1>2, <2>0 DEF Reset, InScript, On, HwType, EmType
  <2>2. /\ em.xAwsConnected /\ hw.cell \notin {"off", "starting"}
        /\ asked = 0 /\ mqtt.inFlight = 0 /\ hw.download = NoDownload
        /\ ~EvHas(eventQueue, ChainIds)
    BY <2>1, ScriptTaken DEF On
  <2>3. OffInv' /\ QuietInv' /\ EventInv'
    BY <2>1, <2>2 DEF OffInv, QuietInv, EventInv, Inv
  <2>4. ChainInv'
    BY <2>1, <2>2, Empty DEF ChainInv, Inv
  <2>5. BufferInv'
    BY <2>1, Empty, ScriptsAre DEF BufferInv, Quiet
  <2>7. JobInv'
    BY <2>1, <1>d, Empty, ScriptsAre DEF Inv, JobInv, Running, Quiet
  <2>8. HandedBackInv'
    BY <2>1, <2>2, Empty, ScriptsAre DEF Inv, HandedBackInv, Running, Quiet
  <2> QED
    BY <2>3, <2>4, <2>5, <2>7, <2>8 DEF Inv
<1> QED
  BY <1>1, <1>2

(* The MQTT task.                                                          *)
LEMMA MessageServed ==
    ASSUME TypeOK, Inv, NEW messages, Serves(messages)
    PROVE  /\ power = "on" /\ mqttQueue # <<>> /\ Head(mqttQueue) \in messages
           /\ UNCHANGED <<power, script, em, mem, hw>>
           /\ mqttQueue' = Tail(mqttQueue)
           /\ \A S : QHas(mqttQueue', S) => QHas(mqttQueue, S)
           /\ \A S : Head(mqttQueue) \in S => QHas(mqttQueue, S)
           /\ \A S : QHas(mqttQueue, S) => Head(mqttQueue) \in S \/ QHas(mqttQueue', S)
           /\ AskerLast(mqttQueue')
           /\ Encoded(mqttQueue', mqtt.buf)
           /\ Head(mqttQueue) \in Reports =>
                 /\ ~QHas(mqttQueue', Reports) /\ Running
                 /\ Means(Head(mqttQueue), outcome[mqtt.id])
           /\ OneReport(mqttQueue') /\ AllMean(mqttQueue', outcome[mqtt.id])
           /\ Len(mqttQueue') < Len(mqttQueue)
           /\ ~EvHas(eventQueue, ChainIds) /\ ~EvHas(eventQueue, JobEvents)
           /\ asked = 0 /\ mqtt.inFlight = 0 /\ hw.download = NoDownload
           /\ em.xAwsConnected
           /\ Head(mqttQueue) \in Askers => mqttQueue' = <<>> /\ script = <<>>
<1>1. mqttQueue \in Seq(Queueable)
  BY MqttFieldsTyped
<1>2. /\ power = "on" /\ mqttQueue # <<>> /\ Head(mqttQueue) \in messages
      /\ UNCHANGED <<power, script, em, mem, hw>>
      /\ mqttQueue' = Tail(mqttQueue)
  BY DEF Serves, MqttServes, On
<1>3. Len(mqttQueue') < Len(mqttQueue)
  BY <1>1, <1>2, TailTyped
<1>4. ~EvHas(eventQueue, ChainIds) => ~EvHas(eventQueue, JobEvents)
  BY Empty
<1>5. asked = 0 /\ mqtt.inFlight = 0 /\ hw.download = NoDownload
      /\ ~EvHas(eventQueue, ChainIds) /\ ~EvHas(eventQueue, JobEvents)
      /\ em.xAwsConnected /\ AskerLast(mqttQueue)
  BY <1>2, <1>4 DEF Inv, ChainInv, QuietInv
<1>6. Head(mqttQueue) \in Askers => mqttQueue' = <<>> /\ script = <<>>
  BY <1>1, <1>2, <1>5, MessageTaken DEF Inv, ChainInv
<1>7. /\ Encoded(mqttQueue, mqtt.buf) /\ OneReport(mqttQueue)
      /\ AllMean(mqttQueue, outcome[mqtt.id])
      /\ QHas(mqttQueue, Reports) => Running
  BY DEF Inv, BufferInv, JobInv
<1> QED
  BY <1>1, <1>2, <1>3, <1>5, <1>6, <1>7, MessageTaken

\* What holds of every step that only takes a message.
LEMMA ServedAside ==
    ASSUME TypeOK, Inv, NEW messages, Serves(messages),
           mqtt'.buf = mqtt.buf,
           EvHas(eventQueue', Ready) => EvHas(eventQueue, Ready),
           InOrder(eventQueue'),
           EvHas(eventQueue', Attentions) => EvHas(eventQueue, Attentions)
    PROVE  OffInv' /\ QuietInv' /\ EventInv' /\ BufferInv'
<1>1. /\ power = "on" /\ em.xAwsConnected
      /\ UNCHANGED <<power, script, em, mem, hw>>
      /\ QHas(mqttQueue', Topics) => QHas(mqttQueue, Topics)
      /\ Encoded(mqttQueue', mqtt.buf)
  BY MessageServed
<1>2. OffInv' /\ QuietInv'
  BY <1>1 DEF OffInv, QuietInv
<1>3. EventInv'
  BY <1>1 DEF EventInv, Inv
<1>4. BufferInv'
  BY <1>1 DEF BufferInv, Inv
<1> QED
  BY <1>2, <1>3, <1>4

LEMMA MessageSets ==
    /\ Reports \cap Askers = {} /\ "NEW_JOB" \in Askers /\ "DATA" \in Askers
    /\ {"GET_NEW_JOBS", "NO_NEW_JOBS"} \subseteq Askers
    /\ {"STATUS", "GPS"} \cap (Askers \cup Reports) = {}
    /\ {"NEW_JOB"} \subseteq Askers
    /\ \A q : QHas(q, {"NEW_JOB"}) => QHas(q, Askers)
  BY DEF Reports, Askers, QHas

LEMMA StartJobInv == TypeOK /\ Inv /\ StartJob => Inv'
<1> SUFFICES ASSUME TypeOK, Inv, StartJob PROVE Inv'
  OBVIOUS
<1>0. /\ mqtt \in MqttType /\ eventQueue \in Seq(EventRec)
      /\ mqtt.id \in Jobs \cup {NoJob} /\ mqtt.request \in Requests
  BY MqttFieldsTyped
<1>1. /\ Serves({"NEW_JOB"}) /\ UNCHANGED <<cloud, asked, outcome>>
      /\ mqtt.request # "UNKNOWN" /\ HandedOn
  BY DEF StartJob
<1>2. /\ mqtt'.status = "IN_PROGRESS" /\ mqtt'.id = mqtt.id /\ mqtt'.buf = mqtt.buf
      /\ mqtt'.inFlight = mqtt.inFlight
  BY <1>0 DEF StartJob, MqttType
<1>3. mqtt.request # "RESET" =>
        EventOf[mqtt.request] \in Events /\ EventOf[mqtt.request] \in JobEvents
  <2>1. mqtt.request # "RESET" => mqtt.request \in DOMAIN EventOf
    BY <1>0, <1>1 DEF EventOf, Requests
  <2> QED
    BY <1>0, <1>1, <2>1, EventOfTyped DEF JobEvents
<1>4. /\ Ready \cap JobEvents = {} /\ Attentions \cap JobEvents = {}
      /\ Answers \cap JobEvents = {}
  BY JobEventsAre DEF Ready, Attentions, Answers
<1>5. /\ power = "on" /\ UNCHANGED <<power, script, em, mem, hw>>
      /\ mqttQueue' = <<>> /\ script = <<>> /\ QHas(mqttQueue, {"NEW_JOB"})
      /\ ~EvHas(eventQueue, ChainIds) /\ ~EvHas(eventQueue, JobEvents)
      /\ asked = 0 /\ mqtt.inFlight = 0 /\ hw.download = NoDownload
  BY <1>1, MessageServed, MessageSets
<1>6. mqtt.id \in Jobs /\ cloud[mqtt.id].status = "IN_PROGRESS"
  BY <1>5 DEF Inv, JobInv
<1>7. /\ \A S : EvHas(eventQueue', S) => EvHas(eventQueue, S) \/ S \cap JobEvents # {}
      /\ InOrder(eventQueue') /\ AreOf(eventQueue', mqtt.id)
  <2>1. CASE mqtt.request = "RESET"
    BY <1>1, <2>1 DEF HandedOn, Inv, EventInv, JobInv
  <2>2. CASE mqtt.request # "RESET"
    <3>1. eventQueue' = Posted(eventQueue, EventOf[mqtt.request], mqtt.id)
      BY <1>1, <2>2 DEF HandedOn
    <3> DEFINE id == EventOf[mqtt.request]
    <3>2. id \in Events /\ id \in JobEvents /\ id \notin Ready /\ id \notin Attentions
      BY <1>3, <1>4, <2>2
    <3> HIDE DEF id
    <3>3. \A S : id \in S => S \cap JobEvents # {}
      BY <3>2
    <3> QED
      BY <1>0, <1>5, <3>1, <3>2, <3>3, EventPosted DEF Inv, EventInv, id
  <2> QED
    BY <2>1, <2>2
<1>8. OffInv' /\ QuietInv' /\ EventInv' /\ BufferInv'
  BY <1>1, <1>2, <1>4, <1>7, ServedAside
<1>9. ChainInv'
  BY <1>1, <1>2, <1>5, Empty DEF ChainInv
<1>10. ReportedAsDone'
  BY <1>1 DEF Inv, JobInv, ReportedAsDone
<1>11. JobInv'
  BY <1>1, <1>2, <1>5, <1>6, <1>7, <1>10, Empty, ScriptsAre DEF JobInv, Running, Quiet
<1>12. HandedBackInv'
  <2>1. ~EvHas(eventQueue, Answers)
    BY <1>5, Empty
  <2> QED
    BY <1>1, <1>2, <1>4, <1>5, <1>7, <2>1, Empty, ScriptsAre
       DEF HandedBackInv, Quiet, Reporting
<1> QED
  BY <1>8, <1>9, <1>11, <1>12 DEF Inv

(* A job's status in the cloud ends as its outcome.                        *)
LEMMA UpdateInv ==
    ASSUME TypeOK, Inv, NEW status \in {"SUCCEEDED", "FAILED"}, Update(status),
           NEW o, o \in (IF status = "SUCCEEDED" THEN Succeeded ELSE Failed),
           \A j \in Jobs : IF j = mqtt.id THEN outcome'[j] = o ELSE outcome'[j] = outcome[j],
           mqtt.id \in Jobs => cloud[mqtt.id].status = "IN_PROGRESS"
    PROVE  ReportedAsDone'
<1>1. cloud \in CloudType
  BY MqttFieldsTyped
<1>2. ReportedAsDone
  BY DEF Inv, JobInv
<1>3. CASE cloud' = cloud
  BY <1>2, <1>3 DEF ReportedAsDone
<1>4. CASE cloud' = Updated(mqtt.id, status)
  BY <1>1, <1>2, <1>4 DEF Updated, ReportedAsDone, CloudType
<1> QED
  BY <1>3, <1>4 DEF Update

LEMMA IdleIs ==
    ASSUME TypeOK
    PROVE  /\ Idle.status = "IDLE" /\ Idle.buf = mqtt.buf /\ Idle.inFlight = mqtt.inFlight
           /\ Idle.id = NoJob
  BY MqttFieldsTyped DEF Idle, MqttType

LEMMA RefuseJobInv == TypeOK /\ Inv /\ RefuseJob => Inv'
<1> SUFFICES ASSUME TypeOK, Inv, RefuseJob PROVE Inv'
  OBVIOUS
<1>0. outcome \in OutcomeType /\ mqtt.id \in Jobs \cup {NoJob}
  BY MqttFieldsTyped
<1>1. /\ Serves({"NEW_JOB"}) /\ UNCHANGED <<eventQueue, asked>>
      /\ Update("FAILED") /\ mqtt' = Idle /\ outcome' = Ends(mqtt.id, FALSE)
  BY DEF RefuseJob
<1>2. /\ mqtt'.status = "IDLE" /\ mqtt'.buf = mqtt.buf /\ mqtt'.inFlight = mqtt.inFlight
  BY <1>1, IdleIs
<1>3. /\ power = "on" /\ UNCHANGED <<power, script, em, mem, hw>>
      /\ mqttQueue' = <<>> /\ script = <<>> /\ QHas(mqttQueue, {"NEW_JOB"})
      /\ ~EvHas(eventQueue, ChainIds) /\ ~EvHas(eventQueue, JobEvents)
      /\ asked = 0 /\ mqtt.inFlight = 0 /\ hw.download = NoDownload
  BY <1>1, MessageServed, MessageSets
<1>4. mqtt.id \in Jobs /\ cloud[mqtt.id].status = "IN_PROGRESS"
  BY <1>3 DEF Inv, JobInv
<1>5. OffInv' /\ QuietInv' /\ EventInv' /\ BufferInv'
  BY <1>1, <1>2, ServedAside DEF Inv, EventInv
<1>6. ChainInv'
  BY <1>1, <1>2, <1>3, Empty DEF ChainInv
<1>7. \A j \in Jobs : IF j = mqtt.id THEN outcome'[j] = "fail" ELSE outcome'[j] = outcome[j]
  BY <1>0, <1>1 DEF Ends, Becomes, OutcomeType
<1>8. ReportedAsDone'
  BY <1>1, <1>4, <1>7, UpdateInv DEF Failed
<1>9. JobInv'
  BY <1>1, <1>2, <1>3, <1>8, Empty, ScriptsAre DEF JobInv, Running, Quiet
<1>10. HandedBackInv'
  BY <1>2 DEF HandedBackInv, Running
<1> QED
  BY <1>5, <1>6, <1>9, <1>10 DEF Inv

LEMMA ReportJobInv == TypeOK /\ Inv /\ ReportJob => Inv'
<1> SUFFICES ASSUME TypeOK, Inv, ReportJob PROVE Inv'
  OBVIOUS
<1> DEFINE status == IF Head(mqttQueue) = "PASS" THEN "SUCCEEDED" ELSE "FAILED"
<1>1. /\ Serves(Reports) /\ UNCHANGED <<eventQueue, asked, outcome>>
      /\ Update(status) /\ mqtt' = Idle
  BY DEF ReportJob
<1>2. /\ mqtt'.status = "IDLE" /\ mqtt'.buf = mqtt.buf /\ mqtt'.inFlight = mqtt.inFlight
  BY <1>1, IdleIs
<1>3. /\ power = "on" /\ UNCHANGED <<power, script, em, mem, hw>>
      /\ ~QHas(mqttQueue', Reports) /\ Running /\ AskerLast(mqttQueue')
      /\ Means(Head(mqttQueue), outcome[mqtt.id])
      /\ OneReport(mqttQueue')
      /\ ~EvHas(eventQueue, ChainIds) /\ ~EvHas(eventQueue, JobEvents)
      /\ asked = 0 /\ mqtt.inFlight = 0 /\ hw.download = NoDownload
      /\ QHas(mqttQueue, Reports)
      /\ \A S : QHas(mqttQueue', S) => QHas(mqttQueue, S)
  BY <1>1, MessageServed
<1>4. mqtt.id \in Jobs /\ cloud[mqtt.id].status = "IN_PROGRESS"
      /\ ~QHas(mqttQueue', {"NEW_JOB"})
      /\ \A r \in Reports : script \notin Reporting(r)
  BY <1>3 DEF Inv, JobInv
<1>5. OffInv' /\ QuietInv' /\ EventInv' /\ BufferInv'
  BY <1>1, <1>2, ServedAside DEF Inv, EventInv
<1>6. ChainInv'
  BY <1>1, <1>2, <1>3 DEF ChainInv, Inv
<1>8. ReportedAsDone'
  <2>1. outcome[mqtt.id] \in (IF status = "SUCCEEDED" THEN Succeeded ELSE Failed)
    BY <1>3 DEF Means
  <2>2. status \in {"SUCCEEDED", "FAILED"}
    OBVIOUS
  <2> HIDE DEF status
  <2>3. \A j \in Jobs : IF j = mqtt.id THEN outcome'[j] = outcome[mqtt.id]
                        ELSE outcome'[j] = outcome[j]
    BY <1>1
  <2> QED
    BY <1>1, <1>4, <2>1, <2>2, <2>3, UpdateInv
<1>9. JobInv'
  BY <1>1, <1>2, <1>3, <1>4, <1>8, Empty DEF JobInv, Running
<1>10. HandedBackInv'
  BY <1>2 DEF HandedBackInv, Running
<1> QED
  BY <1>5, <1>6, <1>9, <1>10 DEF Inv

\* A message that ends nothing: what it asks for is on its way, or lost.
LEMMA Sent ==
    ASSUME TypeOK, Inv, NEW messages, Serves(messages),
           messages \cap (Reports \cup {"NEW_JOB"}) = {},
           UNCHANGED <<cloud, outcome>>,
           mqtt'.status = mqtt.status, mqtt'.id = mqtt.id, mqtt'.buf = mqtt.buf,
           InOrder(eventQueue'), ~EvHas(eventQueue', JobEvents),
           EvHas(eventQueue', Ready) => EvHas(eventQueue, Ready),
           EvHas(eventQueue', Attentions) => EvHas(eventQueue, Attentions),
           \/ /\ asked' = asked /\ mqtt'.inFlight = mqtt.inFlight
              /\ eventQueue' = eventQueue
           \/ /\ messages \subseteq Askers
              /\ asked' \in {0, 1} /\ mqtt'.inFlight \in {0, 1}
              /\ asked' # 0 => mqtt'.inFlight = 0
              /\ EvHas(eventQueue', ChainIds) => asked' = 0 /\ mqtt'.inFlight = 0
    PROVE  Inv'
<1>1. /\ power = "on" /\ UNCHANGED <<power, script, em, mem, hw>>
      /\ AskerLast(mqttQueue') /\ OneReport(mqttQueue')
      /\ AllMean(mqttQueue', outcome[mqtt.id])
      /\ ~EvHas(eventQueue, ChainIds) /\ ~EvHas(eventQueue, JobEvents)
      /\ asked = 0 /\ mqtt.inFlight = 0 /\ hw.download = NoDownload
      /\ \A S : QHas(mqttQueue', S) => QHas(mqttQueue, S)
      /\ messages \subseteq Askers => mqttQueue' = <<>> /\ script = <<>>
                                      /\ QHas(mqttQueue, Askers)
      /\ Head(mqttQueue) \in messages /\ mqttQueue # <<>>
      /\ QHas(mqttQueue, Reports) => QHas(mqttQueue', Reports)
      /\ Len(mqttQueue') < Len(mqttQueue)
      /\ Len(mqttQueue) \in Nat /\ Len(mqttQueue') \in Nat
  <2>1. mqttQueue \in Seq(Queueable) /\ mqttQueue' \in Seq(Queueable)
    BY MqttFieldsTyped, ServesTyped
  <2>2. Len(mqttQueue) \in Nat /\ Len(mqttQueue') \in Nat
    BY <2>1
  <2> QED
    BY <2>2, MessageServed
<1>2. OffInv' /\ QuietInv' /\ EventInv' /\ BufferInv'
  BY ServedAside
<1>3. ChainInv'
  BY <1>1, Empty DEF ChainInv, Inv
<1>4. ReportedAsDone'
  BY DEF Inv, JobInv, ReportedAsDone
<1>5. JobInv'
  BY <1>1, <1>4, Empty DEF JobInv, Running, Inv
<1>6. HandedBackInv'
  <2>1. CASE ~(MqttQueueLen > 1 /\ Running')
    BY <2>1 DEF HandedBackInv
  <2>2. CASE MqttQueueLen > 1 /\ Running'
    <3>1. /\ QHas(mqttQueue, Askers) => QHas(mqttQueue, Reports)
          /\ script \notin {<<>>, <<"RESET">>} =>
                QHas(mqttQueue, Reports) \/ \E r \in Reports : script \in Reporting(r)
          /\ \A r \in Reports : script \in Alone(r) => mqttQueue = <<>>
          /\ \A r \in Reports : script = <<r, "GET_NEW_JOBS">> => Len(mqttQueue) < 2
      BY <2>2 DEF Inv, HandedBackInv, Running
    <3>2. ~(messages \subseteq Askers)
      BY <1>1, <3>1, Empty
    <3>3. ~EvHas(eventQueue, Answers)
      BY <1>1, Empty
    <3>4. Len(mqttQueue) < 2 => Len(mqttQueue') < 2
      BY <1>1
    <3> QED
      BY <1>1, <3>1, <3>2, <3>3, <3>4 DEF HandedBackInv
  <2> QED
    BY <2>1, <2>2
<1> QED
  BY <1>2, <1>3, <1>5, <1>6 DEF Inv

LEMMA AskForJobsInv == TypeOK /\ Inv /\ AskForJobs => Inv'
<1> SUFFICES ASSUME TypeOK, Inv, AskForJobs PROVE Inv'
  OBVIOUS
<1>1. /\ Serves({"GET_NEW_JOBS"}) /\ UNCHANGED <<eventQueue, mqtt, cloud, outcome>>
      /\ asked' \in {asked + 1, asked}
  BY DEF AskForJobs
<1>2. asked' \in {0, 1} /\ mqtt'.inFlight = 0
      /\ ~EvHas(eventQueue', ChainIds) /\ ~EvHas(eventQueue', JobEvents)
  BY <1>1, MessageServed
<1>3. InOrder(eventQueue')
  BY <1>1 DEF Inv, EventInv
<1>4. {"GET_NEW_JOBS"} \subseteq Askers
      /\ {"GET_NEW_JOBS"} \cap (Reports \cup {"NEW_JOB"}) = {}
  BY DEF Reports, Askers
<1> QED
  BY <1>1, <1>2, <1>3, <1>4, Sent

LEMMA NoNewJobsInv == TypeOK /\ Inv /\ NoNewJobs => Inv'
<1> SUFFICES ASSUME TypeOK, Inv, NoNewJobs PROVE Inv'
  OBVIOUS
<1>1. /\ Serves({"NO_NEW_JOBS"}) /\ UNCHANGED <<mqtt, cloud, asked, outcome>>
      /\ eventQueue' = Posted(eventQueue, "MQTT_NO_JOBS", NoJob)
  BY DEF NoNewJobs
<1>2. /\ asked' = 0 /\ mqtt'.inFlight = 0
      /\ ~EvHas(eventQueue, ChainIds) /\ ~EvHas(eventQueue, JobEvents)
  BY <1>1, MessageServed
<1>3. eventQueue \in Seq(EventRec) /\ InOrder(eventQueue)
  BY MqttFieldsTyped DEF Inv, EventInv
<1>4. /\ "MQTT_NO_JOBS" \in Events \ JobEvents
      /\ "MQTT_NO_JOBS" \notin Attentions /\ "MQTT_NO_JOBS" \notin Ready
  BY JobEventsAre DEF Events, Attentions, Ready
<1>5. /\ \A S : EvHas(eventQueue', S) => EvHas(eventQueue, S) \/ "MQTT_NO_JOBS" \in S
      /\ InOrder(eventQueue')
  BY <1>1, <1>2, <1>3, <1>4, EventPosted
<1>6. {"NO_NEW_JOBS"} \subseteq Askers
      /\ {"NO_NEW_JOBS"} \cap (Reports \cup {"NEW_JOB"}) = {}
  BY DEF Reports, Askers
<1> QED
  BY <1>1, <1>2, <1>4, <1>5, <1>6, Sent

LEMMA PublishPlainInv == TypeOK /\ Inv /\ PublishPlain => Inv'
<1> SUFFICES ASSUME TypeOK, Inv, PublishPlain PROVE Inv'
  OBVIOUS
<1>1. /\ Serves({"STATUS", "GPS"})
      /\ UNCHANGED <<eventQueue, mqtt, cloud, asked, outcome>>
  BY DEF PublishPlain
<1>2. ~EvHas(eventQueue', JobEvents) /\ InOrder(eventQueue')
  BY <1>1, MessageServed DEF Inv, EventInv
<1>3. {"STATUS", "GPS"} \cap (Reports \cup {"NEW_JOB"}) = {}
  BY DEF Reports
<1> QED
  BY <1>1, <1>2, <1>3, Sent

LEMMA PublishDataInv == TypeOK /\ Inv /\ PublishData => Inv'
<1> SUFFICES ASSUME TypeOK, Inv, PublishData PROVE Inv'
  OBVIOUS
<1>1. Serves({"DATA"}) /\ UNCHANGED <<eventQueue, cloud, asked, outcome>>
  BY DEF PublishData
<1>2. /\ asked = 0 /\ mqtt.inFlight = 0
      /\ ~EvHas(eventQueue', ChainIds) /\ ~EvHas(eventQueue', JobEvents)
  BY <1>1, MessageServed
<1>3. /\ mqtt'.status = mqtt.status /\ mqtt'.id = mqtt.id /\ mqtt'.buf = mqtt.buf
      /\ mqtt'.inFlight \in {0, 1}
  <2>1. mqtt \in MqttType
    BY MqttFieldsTyped
  <2>2. CASE mqtt' = [mqtt EXCEPT !.flagDue = TRUE, !.inFlight = @ + 1]
    <3>1. mqtt.inFlight + 1 = 1
      BY <1>2
    <3> QED
      BY <2>1, <2>2, <3>1 DEF MqttType
  <2>3. CASE mqtt' = [mqtt EXCEPT !.flagDue = TRUE]
    BY <1>2, <2>1, <2>3 DEF MqttType
  <2> QED
    BY <2>2, <2>3 DEF PublishData
<1>4. InOrder(eventQueue')
  BY <1>1 DEF Inv, EventInv
<1>5. {"DATA"} \subseteq Askers /\ {"DATA"} \cap (Reports \cup {"NEW_JOB"}) = {}
  BY DEF Reports, Askers
<1> QED
  BY <1>1, <1>2, <1>3, <1>4, <1>5, Sent

\* Steps that only the publication or the cloud's answer is about: the queues
\* of the session are empty.
LEMMA SetTxFlagInv == TypeOK /\ Inv /\ SetTxFlag => Inv'
<1> SUFFICES ASSUME TypeOK, Inv, SetTxFlag PROVE Inv'
  OBVIOUS
<1>1. /\ UNCHANGED <<power, eventQueue, script, em, mem, hw, mqttQueue, cloud, asked,
                     outcome>>
      /\ power = "on"
  BY DEF SetTxFlag, On
<1>2. /\ mqtt'.status = mqtt.status /\ mqtt'.id = mqtt.id /\ mqtt'.buf = mqtt.buf
      /\ mqtt'.inFlight = mqtt.inFlight
  <2>1. mqtt \in MqttType
    BY MqttFieldsTyped
  <2> QED
    BY <2>1 DEF SetTxFlag, MqttType
<1>3. OffInv' /\ QuietInv' /\ EventInv'
  BY <1>1, <1>2 DEF Inv, OffInv, QuietInv, EventInv, Running
<1>4. ChainInv' /\ BufferInv'
  BY <1>1, <1>2 DEF Inv, ChainInv, BufferInv
<1>5. ReportedAsDone'
  BY <1>1 DEF Inv, JobInv, ReportedAsDone
<1>6. JobInv' /\ HandedBackInv'
  BY <1>1, <1>2, <1>5 DEF Inv, JobInv, HandedBackInv, Running
<1> QED
  BY <1>3, <1>4, <1>6 DEF Inv

LEMMA PublishDoneInv == TypeOK /\ Inv /\ PublishDone => Inv'
<1> SUFFICES ASSUME TypeOK, Inv, PublishDone PROVE Inv'
  OBVIOUS
<1> DEFINE id == "SENSOR_DATA_PUBLISH_SUCCESS"
<1>1. /\ power = "on" /\ mqtt.inFlight > 0
      /\ eventQueue' \in {Posted(eventQueue, id, NoJob), eventQueue}
      /\ UNCHANGED <<power, script, em, mem, hw, mqttQueue, cloud, asked, outcome>>
  BY DEF PublishDone, On
<1>2. /\ mqttQueue = <<>> /\ script = <<>> /\ asked = 0 /\ hw.download = NoDownload
      /\ ~EvHas(eventQueue, ChainIds) /\ mqtt.inFlight = 1 /\ em.xAwsConnected
  BY <1>1 DEF Inv, ChainInv, QuietInv
<1>3. /\ mqtt'.status = mqtt.status /\ mqtt'.id = mqtt.id /\ mqtt'.buf = mqtt.buf
      /\ mqtt'.inFlight = 0
  <2>1. mqtt \in MqttType
    BY MqttFieldsTyped
  <2> QED
    BY <1>2, <2>1 DEF PublishDone, MqttType
<1>4. eventQueue \in Seq(EventRec) /\ InOrder(eventQueue) /\ AreOf(eventQueue, mqtt.id)
  BY MqttFieldsTyped DEF Inv, EventInv, JobInv
<1>5. id \in Events /\ id \notin JobEvents /\ id \notin Attentions /\ id \notin Ready
  BY JobEventsAre DEF Events, Attentions, Ready
<1>6. /\ \A S : EvHas(eventQueue', S) => EvHas(eventQueue, S) \/ id \in S
      /\ InOrder(eventQueue') /\ AreOf(eventQueue', mqtt.id)
  BY <1>1, <1>2, <1>4, <1>5, EventPosted
<1>7. ~EvHas(eventQueue', JobEvents) /\ ~EvHas(eventQueue', Ready)
  BY <1>2, <1>5, <1>6, Empty
<1>8. OffInv' /\ QuietInv' /\ EventInv'
  BY <1>1, <1>2, <1>5, <1>6, <1>7 DEF Inv, OffInv, QuietInv, EventInv
<1>9. ChainInv' /\ BufferInv'
  BY <1>1, <1>2, <1>3, Empty DEF Inv, ChainInv, BufferInv
<1>10. ReportedAsDone'
  BY <1>1 DEF Inv, JobInv, ReportedAsDone
<1>11. JobInv'
  BY <1>1, <1>2, <1>3, <1>6, <1>7, <1>10, Empty DEF Inv, JobInv, Running
<1>12. HandedBackInv'
  BY <1>2, <1>3 DEF Inv, HandedBackInv, Running
<1> QED
  BY <1>8, <1>9, <1>11, <1>12 DEF Inv

(* The cloud's answers.                                                    *)
LEMMA Awaited ==
    ASSUME TypeOK, Inv, On, asked > 0
    PROVE  /\ asked = 1 /\ mqttQueue = <<>> /\ script = <<>>
           /\ mqtt.inFlight = 0 /\ hw.download = NoDownload
           /\ ~EvHas(eventQueue, ChainIds) /\ ~EvHas(eventQueue, JobEvents)
           /\ em.xAwsConnected /\ power = "on"
           /\ MqttQueueLen > 1 => ~Running
<1>1. asked # 0 /\ asked = 1
  BY DEF Inv, ChainInv
<1> QED
  BY <1>1, Empty DEF Inv, ChainInv, QuietInv, HandedBackInv, On

\* The queue after an answer, and what it tells of.
LEMMA AnsweredQueue ==
    ASSUME NEW m \in {"NEW_JOB", "NO_NEW_JOBS"}, mqttQueue = <<>>
    PROVE  /\ \A S : QHas(ToMqtt(m), S) => m \in S
           /\ AskerLast(ToMqtt(m)) /\ OneReport(ToMqtt(m))
           /\ \A buf : Encoded(ToMqtt(m), buf)
           /\ \A o : AllMean(ToMqtt(m), o)
           /\ m \notin Reports /\ m \notin Topics
<1>1. <<>> \in Seq(Queueable) /\ m \in Queueable
  BY DEF Queueable
<1>2. m \notin Reports /\ m \notin Topics
  BY DEF Reports, Topics
<1>3. ToMqtt(m) \in {<<>>, Append(<<>>, m)}
  BY DEF ToMqtt
<1>4. \A S : QHas(Append(<<>>, m), S) => m \in S
  BY <1>1, MessageQueued, Empty
<1>5. /\ AskerLast(Append(<<>>, m)) /\ OneReport(Append(<<>>, m))
      /\ \A buf : Encoded(Append(<<>>, m), buf)
      /\ \A o : AllMean(Append(<<>>, m), o)
  BY <1>1, <1>2, MessageQueued, Empty
<1> QED
  BY <1>2, <1>3, <1>4, <1>5, Empty

\* The request is no longer waited for: what holds of every answer.
LEMMA Answered ==
    ASSUME TypeOK, Inv, On, asked > 0, asked' = asked - 1,
           UNCHANGED <<power, eventQueue, script, em, mem, hw>>,
           \/ mqttQueue' = mqttQueue
           \/ \E m \in {"NEW_JOB", "NO_NEW_JOBS"} : mqttQueue' = ToMqtt(m),
           mqtt'.inFlight = mqtt.inFlight, mqtt'.status = mqtt.status
    PROVE  OffInv' /\ QuietInv' /\ EventInv' /\ ChainInv' /\ BufferInv'
<1>1. /\ asked' = 0 /\ mqtt.inFlight = 0 /\ hw.download = NoDownload /\ script = <<>>
      /\ ~EvHas(eventQueue, ChainIds) /\ em.xAwsConnected /\ power = "on"
      /\ mqttQueue = <<>>
  BY Awaited
<1>2. /\ AskerLast(mqttQueue') /\ \A buf : Encoded(mqttQueue', buf)
      /\ ~QHas(mqttQueue', Topics)
  BY <1>1, AnsweredQueue, Empty
<1>3. OffInv' /\ QuietInv' /\ EventInv'
  BY <1>1 DEF Inv, OffInv, QuietInv, EventInv
<1>4. ChainInv'
  BY <1>1, <1>2 DEF ChainInv
<1>5. BufferInv'
  BY <1>1, <1>2 DEF BufferInv, Inv
<1> QED
  BY <1>3, <1>4, <1>5

\* An answer that tells of no job leaves the one in hand alone.
LEMMA NoJobAnswered ==
    ASSUME TypeOK, Inv, On, asked > 0, asked' = asked - 1,
           UNCHANGED <<power, eventQueue, script, em, mem, hw, mqtt, cloud, outcome>>,
           mqttQueue' = mqttQueue \/ mqttQueue' = ToMqtt("NO_NEW_JOBS")
    PROVE  Inv'
<1>1. /\ mqttQueue = <<>> /\ script = <<>>
      /\ MqttQueueLen > 1 => ~Running
  BY Awaited
<1>2. /\ ~QHas(mqttQueue', {"NEW_JOB"}) /\ ~QHas(mqttQueue', Reports)
      /\ AllMean(mqttQueue', outcome[mqtt.id]) /\ OneReport(mqttQueue')
  BY <1>1, AnsweredQueue, Empty
<1>3. OffInv' /\ QuietInv' /\ EventInv' /\ ChainInv' /\ BufferInv'
  BY Answered
<1>4. ReportedAsDone'
  BY DEF Inv, JobInv, ReportedAsDone
<1>5. JobInv'
  BY <1>1, <1>2, <1>4 DEF Inv, JobInv, Running
<1>6. HandedBackInv'
  BY <1>1 DEF HandedBackInv, Running
<1> QED
  BY <1>3, <1>5, <1>6 DEF Inv

LEMMA RejectInv == TypeOK /\ Inv /\ (Reject \/ LoseAnswer) => Inv'
  BY NoJobAnswered DEF Reject, LoseAnswer

LEMMA AnswerInv == TypeOK /\ Inv /\ Answer => Inv'
<1> SUFFICES ASSUME TypeOK, Inv, Answer PROVE Inv'
  OBVIOUS
<1>1. /\ On /\ asked > 0 /\ asked' = asked - 1
      /\ UNCHANGED <<power, eventQueue, script, em, mem, hw, outcome>>
  BY DEF Answer
<1>2. CASE UNCHANGED <<mqtt, cloud>>
           /\ (mqttQueue' = mqttQueue \/ mqttQueue' = ToMqtt("NO_NEW_JOBS"))
  BY <1>1, <1>2, NoJobAnswered
<1>3. ASSUME NEW j \in Jobs, NEW request \in Requests, Offers(j, request),
             cloud' = [cloud EXCEPT ![j] = [request |-> request,
                                            status |-> "IN_PROGRESS"]],
             IF mqtt.status = "IDLE"
             THEN /\ mqtt' = [mqtt EXCEPT !.id = j, !.request = request]
                  /\ mqttQueue' = ToMqtt("NEW_JOB")
             ELSE UNCHANGED <<mqtt, mqttQueue>>
      PROVE  Inv'
  <2>0. cloud \in CloudType /\ mqtt \in MqttType
    BY MqttFieldsTyped
  <2>1. /\ mqttQueue = <<>> /\ script = <<>>
        /\ MqttQueueLen > 1 => ~Running
        /\ ~EvHas(eventQueue, JobEvents) /\ hw.download = NoDownload
    BY <1>1, Awaited
  <2>2. mqtt'.inFlight = mqtt.inFlight /\ mqtt'.status = mqtt.status
    BY <1>3, <2>0 DEF MqttType
  <2>3. OffInv' /\ QuietInv' /\ EventInv' /\ ChainInv' /\ BufferInv'
    BY <1>1, <1>3, <2>2, Answered
  <2>4. /\ cloud'[j].status = "IN_PROGRESS"
        /\ \A k \in Jobs : k # j => cloud'[k] = cloud[k]
    BY <1>3, <2>0 DEF CloudType
  <2>5. ReportedAsDone'
    BY <1>1, <2>4 DEF Inv, JobInv, ReportedAsDone
  <2>6. ~QHas(mqttQueue', Reports) /\ OneReport(mqttQueue')
        /\ \A o : AllMean(mqttQueue', o)
    BY <1>3, <2>1, AnsweredQueue, Empty
  <2>7. JobInv'
    <3>1. CASE Running
      <4>1. mqtt' = mqtt /\ mqttQueue' = mqttQueue
        BY <1>3, <3>1 DEF Running
      <4>2. mqtt.id \in Jobs /\ cloud[mqtt.id].status = "IN_PROGRESS"
        BY <3>1 DEF Inv, JobInv
      <4>3. cloud'[mqtt.id].status = "IN_PROGRESS"
        BY <2>4, <4>2
      <4> QED
        BY <1>1, <2>1, <2>5, <2>6, <3>1, <4>1, <4>2, <4>3, Empty, ScriptsAre
           DEF Inv, JobInv, Running, Quiet
    <3>2. CASE ~Running
      <4>1. mqtt.status = "IDLE"
        BY <2>0, <3>2 DEF MqttType, Running
      <4>2. mqtt'.id = j
        BY <1>3, <2>0, <4>1 DEF MqttType
      <4> QED
        BY <1>1, <2>1, <2>2, <2>4, <2>5, <2>6, <3>2, <4>2, Empty, ScriptsAre
           DEF JobInv, Running, Quiet
    <3> QED
      BY <3>1, <3>2
  <2>8. HandedBackInv'
    BY <2>1, <2>2 DEF HandedBackInv, Running
  <2> QED
    BY <2>3, <2>7, <2>8 DEF Inv
<1> QED
  BY <1>2, <1>3 DEF Answer

(* Events of the session posted by the other tasks.                        *)
LEMMA CellUpInv == TypeOK /\ Inv /\ CellUp => Inv'
<1> SUFFICES ASSUME TypeOK, Inv, CellUp PROVE Inv'
  OBVIOUS
<1>0. hw \in HwType /\ eventQueue \in Seq(EventRec)
  BY FieldsTyped, MqttFieldsTyped
<1>1. /\ power = "on" /\ hw.cell = "starting"
      /\ eventQueue' = Posted(eventQueue, "MQTT_READY", NoJob)
      /\ UNCHANGED <<power, script, em, mem, mqttQueue, mqtt, cloud, asked, outcome>>
      /\ hw'.cell = "up" /\ hw'.download = hw.download
  BY <1>0 DEF CellUp, Posts, On, HwType
<1>2. /\ ~em.xAwsConnected /\ ~EvHas(eventQueue, Ready)
      /\ InOrder(eventQueue) /\ AreOf(eventQueue, mqtt.id)
      /\ EvHas(eventQueue, Attentions) => em.xWaitingOnCell
  BY <1>1 DEF Inv, EventInv, JobInv
<1>3. /\ script = <<>> /\ mqttQueue = <<>> /\ asked = 0 /\ ~Running
      /\ mqtt.inFlight = 0 /\ hw.download = NoDownload /\ ~EvHas(eventQueue, Late)
  BY <1>2 DEF Inv, QuietInv
<1>4. /\ "MQTT_READY" \in Events \ JobEvents /\ "MQTT_READY" \notin Attentions
      /\ "MQTT_READY" \notin Late
  BY JobEventsAre DEF Events, Attentions, Late
<1>5. /\ \A S : EvHas(eventQueue', S) => EvHas(eventQueue, S) \/ "MQTT_READY" \in S
      /\ InOrder(eventQueue') /\ AreOf(eventQueue', mqtt.id)
  BY <1>0, <1>1, <1>2, <1>3, <1>4, Empty, EventPosted
<1>6. ~EvHas(eventQueue', Late) /\ ~EvHas(eventQueue', JobEvents)
      /\ (EvHas(eventQueue', Attentions) => EvHas(eventQueue, Attentions))
  BY <1>3, <1>4, <1>5, Empty
<1>7. OffInv' /\ QuietInv' /\ EventInv'
  BY <1>1, <1>2, <1>3, <1>5, <1>6 DEF OffInv, QuietInv, EventInv, Running
<1>8. ChainInv' /\ BufferInv'
  BY <1>1, <1>3, Empty, ScriptsAre DEF ChainInv, BufferInv, Quiet
<1>9. ReportedAsDone'
  BY <1>1 DEF Inv, JobInv, ReportedAsDone
<1>10. JobInv' /\ HandedBackInv'
  BY <1>1, <1>3, <1>5, <1>6, <1>9, Empty, ScriptsAre
     DEF JobInv, HandedBackInv, Running, Quiet
<1> QED
  BY <1>7, <1>8, <1>10 DEF Inv

LEMMA GpsFixInv == TypeOK /\ Inv /\ GpsFix /\ OrderlyNext => Inv'
<1> SUFFICES ASSUME TypeOK, Inv, GpsFix, OrderlyNext PROVE Inv'
  OBVIOUS
<1>0. hw \in HwType /\ mem \in MemType /\ eventQueue \in Seq(EventRec) /\ mqtt \in MqttType
      /\ asked \in Nat /\ mqtt.inFlight \in Nat
  BY FieldsTyped, MqttFieldsTyped
<1>1. /\ power = "on" /\ hw.gps = "on"
      /\ eventQueue' = Posted(eventQueue, "GPS_FIX_SUCCESS", NoJob)
      /\ UNCHANGED <<power, script, em, mqttQueue, mqtt, cloud, asked, outcome>>
      /\ hw'.cell = hw.cell /\ hw'.download = hw.download /\ hw'.gps = "ending"
      /\ mem'.fixed
  BY <1>0 DEF GpsFix, Posts, On, HwType, MemType
<1>2. ~WillAsk
  BY <1>1 DEF OrderlyNext
<1>3. /\ script = <<>> /\ mqttQueue = <<>> /\ asked = 0 /\ ~Running
      /\ mqtt.inFlight = 0
      /\ EventIds \cap ChainIds = {}
  <2>1. /\ EventIds \cap ChainIds = {}
        /\ mqtt.status = "IDLE" /\ ~(asked > 0) /\ ~(mqtt.inFlight > 0)
        /\ script = <<>> /\ mqttQueue = <<>>
    BY <1>2 DEF WillAsk, ChainIds, Late, Early
  <2> QED
    BY <1>0, <2>1 DEF Running
<1>4. /\ ~EvHas(eventQueue, ChainIds) /\ ~EvHas(eventQueue, Ready)
      /\ ~EvHas(eventQueue, JobEvents) /\ ~EvHas(eventQueue, Late)
  BY <1>3, EventIdsAre, Empty
<1>5. hw.download = NoDownload
  BY <1>3 DEF Inv, JobInv
<1>6. /\ "GPS_FIX_SUCCESS" \in Events \ JobEvents /\ "GPS_FIX_SUCCESS" \notin Attentions
      /\ "GPS_FIX_SUCCESS" \notin Late /\ "GPS_FIX_SUCCESS" \notin Ready
  BY JobEventsAre DEF Events, Attentions, Late, Ready
<1>7. /\ \A S : EvHas(eventQueue', S) => EvHas(eventQueue, S) \/ "GPS_FIX_SUCCESS" \in S
      /\ InOrder(eventQueue') /\ AreOf(eventQueue', mqtt.id)
  BY <1>0, <1>1, <1>4, <1>6, Empty, EventPosted DEF Inv, EventInv
<1>8. /\ ~EvHas(eventQueue', Late) /\ ~EvHas(eventQueue', Ready)
      /\ ~EvHas(eventQueue', JobEvents)
      /\ EvHas(eventQueue', Attentions) => EvHas(eventQueue, Attentions)
  BY <1>4, <1>6, <1>7, Empty
<1>9. OffInv' /\ QuietInv' /\ EventInv'
  BY <1>1, <1>3, <1>5, <1>7, <1>8 DEF Inv, OffInv, QuietInv, EventInv, Running
<1>10. ChainInv' /\ BufferInv'
  BY <1>1, <1>3, <1>5, Empty, ScriptsAre DEF ChainInv, BufferInv, Quiet
<1>11. ReportedAsDone'
  BY <1>1 DEF Inv, JobInv, ReportedAsDone
<1>12. JobInv' /\ HandedBackInv'
  BY <1>1, <1>3, <1>5, <1>7, <1>8, <1>11, Empty, ScriptsAre
     DEF JobInv, HandedBackInv, Running, Quiet
<1> QED
  BY <1>9, <1>10, <1>12 DEF Inv

LEMMA DownloadEndsInv == TypeOK /\ Inv /\ DownloadEnds => Inv'
<1> SUFFICES ASSUME TypeOK, Inv, DownloadEnds PROVE Inv'
  OBVIOUS
<1>0. hw \in HwType /\ eventQueue \in Seq(EventRec) /\ mqtt.id \in Jobs \cup {NoJob}
  BY FieldsTyped, MqttFieldsTyped
<1>1. /\ power = "on" /\ hw.download # NoDownload
      /\ UNCHANGED <<power, script, em, mem, mqttQueue, mqtt, cloud, asked, outcome>>
      /\ hw'.cell = hw.cell /\ hw'.download = NoDownload
  BY <1>0 DEF DownloadEnds, Posts, On, HwType
<1>2. PICK id \in {"FW_DOWNLOAD_COMPLETE", "FW_DOWNLOAD_FAIL"} :
        eventQueue' = Posted(eventQueue, id, hw.download)
  BY DEF DownloadEnds, Posts
<1>3. hw.download = mqtt.id /\ Running /\ mqtt.id \in Jobs
      /\ cloud[mqtt.id].status = "IN_PROGRESS"
  BY <1>1 DEF Inv, JobInv
<1>4. /\ script = <<>> /\ mqttQueue = <<>> /\ asked = 0 /\ mqtt.inFlight = 0
      /\ ~EvHas(eventQueue, ChainIds) /\ em.xAwsConnected
  BY <1>1 DEF Inv, ChainInv, QuietInv
<1>5. /\ id \in Events /\ id \in JobEvents /\ id \notin Attentions /\ id \notin Ready
      /\ id \notin Answers
  BY JobEventsAre DEF Events, Attentions, Ready, Answers
<1>6. ~EvHas(eventQueue, JobEvents) /\ ~EvHas(eventQueue, Ready)
      /\ ~EvHas(eventQueue, Answers)
  BY <1>4, Empty
<1>7. /\ \A S : EvHas(eventQueue', S) => EvHas(eventQueue, S) \/ id \in S
      /\ InOrder(eventQueue') /\ AreOf(eventQueue', mqtt.id)
  BY <1>0, <1>2, <1>3, <1>4, <1>5, <1>6, EventPosted DEF Inv, EventInv
<1>8. ~EvHas(eventQueue', Ready) /\ ~EvHas(eventQueue', Answers)
      /\ (EvHas(eventQueue', Attentions) => EvHas(eventQueue, Attentions))
  BY <1>5, <1>6, <1>7
<1>9. OffInv' /\ QuietInv' /\ EventInv'
  BY <1>1, <1>4, <1>7, <1>8 DEF Inv, OffInv, QuietInv, EventInv
<1>10. ChainInv' /\ BufferInv'
  BY <1>1, <1>4, Empty, ScriptsAre DEF ChainInv, BufferInv, Quiet
<1>11. ReportedAsDone'
  BY <1>1 DEF Inv, JobInv, ReportedAsDone
<1>12. JobInv'
  BY <1>1, <1>3, <1>4, <1>7, <1>11, Empty, ScriptsAre DEF JobInv, Running, Quiet
<1>13. HandedBackInv'
  BY <1>1, <1>4, <1>8, Empty, ScriptsAre DEF HandedBackInv, Running, Quiet, Reporting
<1> QED
  BY <1>9, <1>10, <1>12, <1>13 DEF Inv

-----------------------------------------------------------------------------
(* The invariant holds, and what it is for.                                *)
LEMMA NextInv == TypeOK /\ Inv /\ InstallInv /\ [OrderlyNext]_vars => Inv'
<1> SUFFICES ASSUME TypeOK, Inv, InstallInv, [OrderlyNext]_vars PROVE Inv'
  OBVIOUS
<1>1. CASE OrderlyNext
  <2>0. Next
    BY <1>1 DEF OrderlyNext
  <2>1. CASE Wake \/ Boot
    BY <2>1, StartInv
  <2>2. CASE EventManager
    BY <2>2, SsmActivateInv, CheckInInv, LogInv, MqttReadyInv, PublishSuccessInv,
       FixSuccessInv, FixTimeoutInv, NoJobsInv, CloudConnectFailureInv,
       CloudActivateInv, DeactivateInv, ConfigureInv, ResetAlarmsInv, GpsJobNewInv,
       GpsJobLastInv, HwResetInv, OtaInv, DownloadCompleteInv, DownloadFailInv
       DEF EventManager
  <2>3. CASE Queue \/ SetGpsSent \/ Reset \/ TimeIsUp \/ SsmResetsAm
    BY <1>1, <2>3, QueueInv, SetGpsSentInv, ResetInv, TimeIsUpInv, SsmResetsAmInv
  <2>4. CASE MqttTask \/ PublishDone
    BY <2>4, StartJobInv, RefuseJobInv, AskForJobsInv, NoNewJobsInv, ReportJobInv,
       PublishPlainInv, PublishDataInv, SetTxFlagInv, PublishDoneInv
       DEF MqttTask
  <2>5. CASE Cloud
    BY <2>5, AnswerInv, RejectInv DEF Cloud
  <2>6. CASE OtherTasks
    BY <1>1, <2>6, AttentionInv, PostsInv, CellUpInv, GpsFixInv, DownloadEndsInv
       DEF OtherTasks
  <2> QED
    BY <2>0, <2>1, <2>2, <2>3, <2>4, <2>5, <2>6 DEF Next, EventLoop
<1>2. CASE UNCHANGED vars
  <2>1. OffInv' /\ QuietInv' /\ EventInv'
    BY <1>2 DEF vars, Inv, OffInv, QuietInv, EventInv, Running
  <2>2. ChainInv' /\ BufferInv'
    BY <1>2 DEF vars, Inv, ChainInv, BufferInv
  <2>3. ReportedAsDone'
    BY <1>2 DEF vars, Inv, JobInv, ReportedAsDone
  <2>4. JobInv' /\ HandedBackInv'
    BY <1>2, <2>3 DEF vars, Inv, JobInv, HandedBackInv, Running
  <2> QED
    BY <2>1, <2>2, <2>4 DEF Inv
<1> QED
  BY <1>1, <1>2

\* A handler runs when the script is done, and only xOtaFwDownloadSuccessful goes
\* on to program the SSM.
LEMMA NothingInstalled ==
    ASSUME TypeOK, InstallInv, script = <<>>, em'.installs = em.installs
    PROVE  InstallInv'
  BY Empty DEF InstallInv

LEMMA HandlerInstalls ==
    ASSUME TypeOK, InstallInv, EventManager
    PROVE  InstallInv'
<1>0. em \in EmType /\ em.installs \in Jobs \cup {NoJob} /\ outcome \in OutcomeType
  BY FieldsTyped DEF EmType
<1>1. script = <<>>
  BY DEF EventManager, SsmActivate, CheckInDeactivated, CheckInActivated, StoreLog,
         SensorDataReady, MqttReady, PublishSuccess, FixSuccess, FixTimeout, NoJobs,
         CloudConnectFailure, CloudActivate, Deactivate, Configure, ResetAlarms,
         GpsJobNew, GpsJobLast, HwReset, Ota, DownloadComplete, DownloadFail,
         Handles, Takes
<1>2. em.installs = NoJob
  BY <1>1 DEF InstallInv
<1>3. CASE DownloadComplete
  <2>1. Job \in Jobs \cup {NoJob}
    BY <1>3, TakesTyped DEF DownloadComplete, Handles
  <2>2. em'.installs = Job /\ outcome'[Job] = "begun" /\ script' = <<"PASS", "RESET">>
    BY <1>0, <1>3, <2>1 DEF DownloadComplete, EmType, OutcomeType, Becomes
  <2> QED
    BY <2>2 DEF InstallInv, Succeeded
<1>4. CASE FixTimeout \/ NoJobs \/ CloudConnectFailure
  <2>1. em' = RamOfEvents \/ em'.installs = em.installs
    BY <1>0, <1>4 DEF FixTimeout, NoJobs, CloudConnectFailure, Down, EmType
  <2> QED
    BY <1>2, <2>1, RamIs DEF InstallInv
<1>5. CASE \/ SsmActivate \/ CheckInDeactivated \/ CheckInActivated \/ StoreLog
           \/ SensorDataReady \/ MqttReady \/ PublishSuccess \/ FixSuccess
  <2>1. em'.installs = em.installs
    BY <1>0, <1>5 DEF SsmActivate, CheckInDeactivated, CheckInActivated, StoreLog,
       SensorDataReady, MqttReady, PublishSuccess, FixSuccess, EmType
  <2> QED
    BY <1>1, <2>1, NothingInstalled
<1>6. CASE \/ CloudActivate \/ Deactivate \/ Configure \/ ResetAlarms \/ GpsJobNew
           \/ GpsJobLast \/ HwReset \/ Ota \/ DownloadFail
  <2>1. em'.installs = em.installs
    BY <1>0, <1>6 DEF CloudActivate, Deactivate, Configure, ResetAlarms, GpsJobNew,
       GpsJobLast, HwReset, Ota, DownloadFail, EmType
  <2> QED
    BY <1>1, <2>1, NothingInstalled
<1> QED
  BY <1>3, <1>4, <1>5, <1>6 DEF EventManager

\* The script of an installation goes on to its end, the programming of the SSM.
LEMMA QueueInstalls ==
    ASSUME InstallInv, Queue \/ SetGpsSent
    PROVE  InstallInv'
<1>1. em' = em /\ outcome' = outcome /\ script' = Tail(script)
  BY DEF Queue, SetGpsSent
<1>2. Head(script) # "RESET"
  BY MessagesAre DEF Queue, SetGpsSent, InScript
<1>3. CASE script = <<"RESET">>
  BY <1>2, <1>3
<1>4. CASE script = <<"PASS", "RESET">>
  <2>1. script' = <<"RESET">>
    BY <1>1, <1>4
  <2> QED
    BY <1>1, <2>1 DEF InstallInv
<1> QED
  BY <1>1, <1>3, <1>4 DEF InstallInv

LEMMA InstallNext == TypeOK /\ Inv /\ InstallInv /\ [Next]_vars => InstallInv'
<1> SUFFICES ASSUME TypeOK, Inv, InstallInv, [Next]_vars PROVE InstallInv'
  OBVIOUS
<1>0. em \in EmType
  BY FieldsTyped
<1>1. CASE Wake \/ Boot
  <2>1. em = RamOfEvents /\ em'.installs = em.installs
    BY <1>0, <1>1 DEF Wake, Boot, Start, Inv, OffInv, EmType
  <2> QED
    BY <2>1, RamIs DEF InstallInv
<1>2. CASE EventManager
  BY <1>2, HandlerInstalls
<1>3. CASE Queue \/ SetGpsSent
  BY <1>3, QueueInstalls
<1>4. CASE Reset
  <2>1. em' = RamOfEvents \/ em'.installs = NoJob
    BY <1>0, <1>4 DEF Reset, Down, EmType
  <2> QED
    BY <2>1, RamIs DEF InstallInv
<1>5. CASE TimeIsUp \/ SsmResetsAm
  <2>1. em' = RamOfEvents \/ (script = <<>> /\ em'.installs = em.installs)
    BY <1>0, <1>5 DEF TimeIsUp, SsmResetsAm, Down, EmType
  <2> QED
    BY <2>1, NothingInstalled, RamIs DEF InstallInv
<1>6. CASE RefuseJob
  <2>1. script = <<>> /\ em' = em
    BY <1>6, MessageServed, MessageSets DEF RefuseJob
  <2> QED
    BY <2>1, NothingInstalled
<1>7. CASE \/ StartJob \/ AskForJobs \/ NoNewJobs \/ ReportJob \/ PublishPlain
           \/ PublishData \/ SetTxFlag \/ PublishDone \/ Cloud
  <2>1. UNCHANGED <<script, em, outcome>>
    BY <1>7 DEF StartJob, AskForJobs, NoNewJobs, ReportJob, PublishPlain, PublishData,
       SetTxFlag, PublishDone, Cloud, Answer, Reject, LoseAnswer, Serves
  <2> QED
    BY <2>1 DEF InstallInv
<1>8. CASE OtherTasks \/ UNCHANGED vars
  <2>1. UNCHANGED <<script, em, outcome>>
    BY <1>8 DEF OtherTasks, Attention, LogArrives, TransferDone, CellUp, CellFails,
       GpsFix, GpsGivesUp, GpsOff, DownloadEnds, Posts, vars
  <2> QED
    BY <2>1 DEF InstallInv
<1> QED
  BY <1>1, <1>2, <1>3, <1>4, <1>5, <1>6, <1>7, <1>8 DEF Next, EventLoop, MqttTask

LEMMA Orderly == OrderlySpec => [](TypeOK /\ Inv)
<1>1. Init => TypeOK /\ Inv /\ InstallInv
  BY InitTyped, InitInv, RamIs DEF Init, InstallInv
<1>2. (TypeOK /\ Inv /\ InstallInv) /\ [OrderlyNext]_vars
        => (TypeOK /\ Inv /\ InstallInv)'
  <2>1. [OrderlyNext]_vars => [Next]_vars
    BY DEF OrderlyNext
  <2> QED
    BY <2>1, NextTyped, NextInv, InstallNext
<1> QED
  BY <1>1, <1>2, PTL DEF OrderlySpec

\* In orderly sessions a publication that is queued is the one that was encoded
\* last in payloadBufferOutgoingTopic, whatever the order in which the event
\* manager, the MQTT task and the cloud take their steps.
THEOREM QueuedIsPublished == OrderlySpec => []PublishesWhatWasQueued
<1>1. TypeOK /\ Inv => PublishesWhatWasQueued
  <2> SUFFICES ASSUME TypeOK, Inv, NEW message \in InMqttQueue \cap Topics
               PROVE  mqtt.buf = message
    BY DEF PublishesWhatWasQueued
  <2>1. DOMAIN mqttQueue = 1 .. Len(mqttQueue)
    BY MqttFieldsTyped
  <2> QED
    BY <2>1 DEF InMqttQueue, Inv, BufferInv, Encoded
<1> QED
  BY <1>1, Orderly, PTL

\* In orderly sessions xStartNextJobAcceptRejectCb hands a job on only when none
\* is in hand or on its way, for any number of jobs, wakes and lost messages.
THEOREM OneJobInHand == OrderlySpec => []OneJobAtATime
<1>1. TypeOK /\ Inv => OneJobAtATime
  <2> SUFFICES ASSUME TypeOK, Inv, "NEW_JOB" \in InMqttQueue
               PROVE  /\ mqtt.status = "IDLE" /\ mqtt.id # NoJob
                      /\ EventIds \cap JobEvents = {}
                      /\ Cardinality({i \in DOMAIN mqttQueue : mqttQueue[i] = "NEW_JOB"}) = 1
    BY DEF OneJobAtATime
  <2>1. mqttQueue \in Seq(Queueable) /\ DOMAIN mqttQueue = 1 .. Len(mqttQueue)
        /\ mqtt \in MqttType /\ Len(mqttQueue) \in Nat
    BY MqttFieldsTyped
  <2>2. PICK i \in 1 .. Len(mqttQueue) : mqttQueue[i] = "NEW_JOB"
    BY <2>1 DEF InMqttQueue
  <2>3. QHas(mqttQueue, {"NEW_JOB"}) /\ QHas(mqttQueue, Askers) /\ mqttQueue # <<>>
    BY <2>1, <2>2 DEF QHas, Askers
  <2>4. mqtt.id \in Jobs /\ ~Running
    BY <2>3 DEF Inv, JobInv
  <2>5. mqtt.status = "IDLE" /\ mqtt.id # NoJob
    BY <2>1, <2>4, SessionAssumption DEF MqttType, Running, Jobs, NoJob
  <2>6. ~EvHas(eventQueue, ChainIds)
    BY <2>3 DEF Inv, ChainInv
  <2>7. EventIds \cap JobEvents = {}
    BY <2>6, Empty, EventIdsAre
  <2>8. \A j \in 1 .. Len(mqttQueue) : mqttQueue[j] = "NEW_JOB" => j = Len(mqttQueue)
    BY DEF Inv, ChainInv, AskerLast, Askers
  <2>9. {j \in DOMAIN mqttQueue : mqttQueue[j] = "NEW_JOB"} = {Len(mqttQueue)}
    BY <2>1, <2>2, <2>8
  <2> QED
    BY <2>5, <2>7, <2>9, FS_Singleton
<1> QED
  BY <1>1, Orderly, PTL

\* In orderly sessions a job that the cloud shows as SUCCEEDED was done or begun
\* when it was last run, and one that it shows as FAILED was not, or is a reset of
\* the hardware whose ACK was lost: across resets, lost reports and what becomes
\* of the job when its report is out.
THEOREM OutcomeIsReported == OrderlySpec => []ReportedAsDone
<1>1. Inv => ReportedAsDone
  BY DEF Inv, JobInv
<1> QED
  BY <1>1, Orderly, PTL

\* In orderly sessions MQTT_NO_JOBS finds nothing queued, in hand or on its way
\* when it puts the AM to standby.  The queue must hold two messages: a handler
\* queues the report of a job and the request for the next one without waiting.
\* mqttQueue holds 3 (mqttHandler.c:332).
THEOREM StandbyWhenDone ==
    ASSUME MqttQueueLen > 1
    PROVE  OrderlySpec => NoJobsMeansDone
<1>1. TypeOK /\ Inv /\ [OrderlyNext]_vars
        => [NoJobs /\ power' = "standby" =>
              /\ mqttQueue = <<>> /\ mqtt.status = "IDLE" /\ mqtt.inFlight = 0
              /\ hw.download = NoDownload
              /\ EventIds \cap (JobEvents \cup {"SENSOR_DATA_PUBLISH_SUCCESS"}) = {}
           ]_vars
  <2> SUFFICES ASSUME TypeOK, Inv, NoJobs
               PROVE  /\ mqttQueue = <<>> /\ mqtt.status = "IDLE" /\ mqtt.inFlight = 0
                      /\ hw.download = NoDownload
                      /\ EventIds \cap (JobEvents \cup {"SENSOR_DATA_PUBLISH_SUCCESS"}) = {}
    OBVIOUS
  <2>0. mqtt \in MqttType
    BY MqttFieldsTyped
  <2>1. Takes({"MQTT_NO_JOBS"}) /\ {"MQTT_NO_JOBS"} \in SUBSET ChainIds
    BY ChainIdsAre DEF NoJobs
  <2>2. /\ mqttQueue = <<>> /\ mqtt.inFlight = 0 /\ hw.download = NoDownload
    BY <2>1, ChainTaken
  <2>3. /\ Head(eventQueue).id = "MQTT_NO_JOBS" /\ eventQueue # <<>>
        /\ EvHas(eventQueue, Answers) /\ ~EvHas(Tail(eventQueue), ChainIds)
    BY <2>1, Taken, ChainIdsAre DEF Takes
  <2>4. ~Running
    BY <2>3 DEF Inv, HandedBackInv
  <2>5. mqtt.status = "IDLE"
    BY <2>0, <2>4 DEF MqttType, Running
  <2> DEFINE S == JobEvents \cup {"SENSOR_DATA_PUBLISH_SUCCESS"}
  <2>6. S \subseteq ChainIds /\ "MQTT_NO_JOBS" \notin S
    BY ChainIdsAre, JobEventsAre
  <2>7. ~EvHas(eventQueue, S)
    <3>1. ~EvHas(Tail(eventQueue), S)
      BY <2>3, <2>6 DEF EvHas
    <3>2. eventQueue \in Seq(EventRec)
      BY MqttFieldsTyped
    <3> QED
      BY <2>3, <2>6, <3>1, <3>2, EventTaken
  <2>8. EventIds \cap S = {}
    BY <2>7, EventIdsAre
  <2> QED
    BY <2>2, <2>5, <2>8
<1> QED
  BY <1>1, Orderly, PTL DEF OrderlySpec, NoJobsMeansDone
=============================================================================
