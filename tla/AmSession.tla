------------------------------ MODULE AmSession ------------------------------
(* One session of the AM, from the wake by the SSM to standby: the event    *)
(* manager (eventManager.c), the MQTT task with its jobs and publications   *)
(* (mqttHandler.c), the GPS task as far as the session waits for it         *)
(* (gpsManager.c) and the cell connection (connectivity.c).  The tasks run  *)
(* at one priority and are interleaved step by step: a handler of the event *)
(* manager leaves a script of messages for the MQTT task and of flash       *)
(* writes, and works through it one at a time.  The broker and the cloud's  *)
(* jobs are external.                                                       *)
EXTENDS Integers, Sequences, FiniteSets

CONSTANTS
    EventQueueLen,      \* EVT_initializeEventQueue: 10 in the code
    MqttQueueLen,       \* MQTT_task: 3 in the code
    MAX_GPS_RETRIES,
    NumJobs,            \* bound: jobs the cloud creates ...
    JobRequests,        \* bound: ... and the requests each may be for
    NumWakes,           \* bound: wakes by the SSM
    NumAttn,            \* bound: attentions of the SSM
    NumLogs,            \* bound: logs the SSM has to send
    NumLost             \* bound: messages of QoS 0 and answers lost or refused

Requests == {"RESET_ALARMS", "ACTIVATE", "DEACTIVATE", "CONFIGURE", "GPS_NEW",
             "GPS_LAST", "UPDATE", "HW_RESET", "RESET", "UNKNOWN"}

ASSUME SessionAssumption ==
    /\ {EventQueueLen, MqttQueueLen, MAX_GPS_RETRIES} \subseteq Nat \ {0}
    /\ {NumJobs, NumWakes, NumAttn, NumLogs, NumLost} \subseteq Nat
    /\ JobRequests \in [1 .. NumJobs -> SUBSET Requests]

VARIABLES
    power,      \* "on", "standby", or "reset" until the application starts
    eventQueue, \* eventQueue: [id, job], job being the one an event is about
    script,     \* what is left of the handler the event manager is in
    em,         \* the event manager's RAM; late: its time is up, but it publishes;
                \* installs: the job whose image it goes on to program
    mem,        \* flash: GPS flags and retries, number of sensor logs
    hw,         \* what runs beside it: GPS, cell, log transfer, download
    mqttQueue,
    mqtt,       \* the MQTT task's RAM, its shared buffer, its publications
    cloud,      \* the cloud's jobs; "NONE" also stands for one still queued
    asked,      \* start-next requests the cloud has not answered
    spent,      \* the bounded occurrences so far
    outcome     \* history: what became of a job when it was last run

vars == <<power, eventQueue, script, em, mem, hw, mqttQueue, mqtt, cloud,
          asked, spent, outcome>>

Jobs == 1 .. NumJobs
NoJob == 0              \* xCurrentJobId zeroed
NoDownload == -1
Attentions == {"SSM_ACTIVATE_EVT", "CHECK_IN_EVT_ACTIVATED",
               "CHECK_IN_EVT_DEACTIVATED"}
\* Publications, encoded in payloadBufferOutgoingTopic ...
Topics == {"STATUS", "GPS", "DATA"}
\* ... and the messages of mqttQueue without a payload.
Reports == {"PASS", "FAIL", "BAD_CONFIGS"}
Messages == Topics \cup Reports \cup {"GET_NEW_JOBS"}

\* What becomes of a job.  "begun": an order is queued for the SSM, a measurement
\* is started, an image is downloaded; nothing checks yet that it takes effect.
\* "undone": the SSM did not take the image.  "unseen": the SSM took the command,
\* but not a word of it reached the AM.
Succeeded == {"pass", "begun", "undone"}
Failed == {"fail", "unseen"}

RamOfEvents ==
    [xWaitingOnCell |-> FALSE, xAwsConnected |-> FALSE,
     xSensorDataReady |-> FALSE, gpsRetryCount |-> 0,
     xAllowedTimeOn |-> "normal", late |-> FALSE, installs |-> NoJob]
AllOff == [gps |-> "off", cell |-> "off", transfer |-> FALSE,
           download |-> NoDownload, resetDue |-> FALSE]
RamOfMqtt ==
    [status |-> "IDLE", request |-> "UNKNOWN", id |-> NoJob, buf |-> "none",
     flagDue |-> FALSE, xCloudTxInProgress |-> FALSE, inFlight |-> 0]

Init ==
    /\ power = "standby"
    /\ eventQueue = <<>> /\ script = <<>> /\ mqttQueue = <<>>
    /\ em = RamOfEvents /\ hw = AllOff /\ mqtt = RamOfMqtt
    /\ mem = [fixed |-> FALSE, sent |-> FALSE, retries |-> 0, logs |-> 0]
    /\ cloud = [j \in Jobs |-> [request |-> "UNKNOWN", status |-> "NONE"]]
    /\ asked = 0
    /\ spent = [wakes |-> 0, attn |-> 0, logs |-> 0, lost |-> 0]
    /\ outcome = [j \in Jobs \cup {NoJob} |-> "none"]

-----------------------------------------------------------------------------
(* Power.                                                                  *)
\* RAM and modem are gone; an answer on its way finds nobody.
Down(how) ==
    /\ power' = how
    /\ eventQueue' = <<>> /\ script' = <<>> /\ mqttQueue' = <<>>
    /\ em' = RamOfEvents /\ hw' = AllOff /\ mqtt' = RamOfMqtt
    /\ asked' = 0

\* xInitStateManager: a fix that failed before is tried again.
GpsRetryAtStart ==
    ~mem.fixed /\ mem.retries > 0 /\ mem.retries < MAX_GPS_RETRIES

Start ==
    /\ power' = "on"
    /\ em' = [em EXCEPT !.gpsRetryCount = mem.retries]
    /\ hw' = [hw EXCEPT !.gps = IF GpsRetryAtStart THEN "on" ELSE "off"]
    /\ UNCHANGED <<eventQueue, script, mem, mqttQueue, mqtt, cloud, asked,
                   outcome>>

\* The SSM raises the wake line.
Wake ==
    /\ power = "standby"
    /\ spent.wakes < NumWakes
    /\ spent' = [spent EXCEPT !.wakes = @ + 1]
    /\ Start

\* After a reset the bootloader starts the application again.
Boot ==
    /\ power = "reset"
    /\ Start
    /\ UNCHANGED spent

On == power = "on"

-----------------------------------------------------------------------------
(* The event manager's queue.                                              *)
\* eventID_t, as far as it is modelled; GPS_FIX_REQUESTED by what it asks for.
Events == Attentions \cup
    {"SENSOR_DATA_MSG_RECEIVED", "SENSOR_DATA_READY", "MQTT_READY", "MQTT_NO_JOBS",
     "SENSOR_DATA_PUBLISH_SUCCESS", "CLOUD_CONNECT_FAILURE", "GPS_FIX_SUCCESS",
     "GPS_FIX_TIMEOUT", "CLOUD_ACTIVATE_EVT", "DEACTIVATE_EVT", "CONFIGURE_EVT",
     "RESET_ALARMS_CMD", "HW_RESET_CMD", "OTA", "GPS_NEW", "GPS_LAST",
     "FW_DOWNLOAD_COMPLETE", "FW_DOWNLOAD_FAIL"}
Event(id, job) == [id |-> id, job |-> job]
\* Mutant of Posted: events are queued without a look at the room left.
PostedBlindly(q, id, job) == Append(q, Event(id, job))
\* EVT_indicate...: an event is dropped when the queue stays full.
Posted(q, id, job) ==
    IF Len(q) < EventQueueLen THEN Append(q, Event(id, job)) ELSE q

\* EVT_eventManagerTask takes an event when its last handler has returned.
Takes(ids) ==
    /\ On
    /\ script = <<>>
    /\ eventQueue # <<>>
    /\ Head(eventQueue).id \in ids

\* A handler that leaves the MQTT task, the cloud and the power alone.
Handles(ids) ==
    /\ Takes(ids)
    /\ eventQueue' = Tail(eventQueue)
    /\ UNCHANGED <<power, mqttQueue, mqtt, cloud, asked, spent>>

Job == Head(eventQueue).job
Becomes(job, result) == [outcome EXCEPT ![job] = result]
Ends(job, pass) == Becomes(job, IF pass THEN "pass" ELSE "fail")
Report(pass) == IF pass THEN <<"PASS">> ELSE <<"FAIL">>

\* CONN_init, unless the cell is waited for already.
CellStarted == IF em.xWaitingOnCell THEN hw ELSE [hw EXCEPT !.cell = "starting"]
\* GPS_Enable, unless gpsEnabled.
GpsEnabled(h) == IF h.gps = "off" THEN [h EXCEPT !.gps = "on"] ELSE h

\* xHandleSsmActivate
SsmActivate ==
    /\ Handles({"SSM_ACTIVATE_EVT"})
    /\ em' = [em EXCEPT !.xWaitingOnCell = TRUE]
    /\ hw' = GpsEnabled(CellStarted)
    /\ UNCHANGED <<script, mem, outcome>>

\* xHandleCheckInDeactivated
CheckInDeactivated ==
    /\ Handles({"CHECK_IN_EVT_DEACTIVATED"})
    /\ em' = [em EXCEPT !.xWaitingOnCell = TRUE]
    /\ hw' = CellStarted
    /\ UNCHANGED <<script, mem, outcome>>

\* xHandleCheckInActivated: the SSM is asked for its logs as well.
CheckInActivated ==
    /\ Handles({"CHECK_IN_EVT_ACTIVATED"})
    /\ em' = [em EXCEPT !.xWaitingOnCell = TRUE]
    /\ hw' = [CellStarted EXCEPT !.transfer = TRUE]
    /\ UNCHANGED <<script, mem, outcome>>

\* xPackageAndStoreSensorDataToFlash
StoreLog ==
    /\ Handles({"SENSOR_DATA_MSG_RECEIVED"})
    /\ mem' = [mem EXCEPT !.logs = @ + 1]
    /\ UNCHANGED <<script, em, hw, outcome>>

\* xHandleSensorDataReady
SensorDataReady ==
    /\ Handles({"SENSOR_DATA_READY"})
    /\ em' = [em EXCEPT !.xSensorDataReady = TRUE]
    /\ UNCHANGED <<script, mem, hw, outcome>>

-----------------------------------------------------------------------------
(* What the event manager sends.                                           *)
\* xPackageAndSendSensorDataToCloud: the newest log, or a request for jobs.
SendSensorData(logs) == IF logs > 0 THEN <<"DATA">> ELSE <<"GET_NEW_JOBS">>
\* MEM_getSensorDataLog defaults the section when the log is not readable.
AfterRead(logs) == {logs, 0}

UnsentFix == IF mem.fixed /\ ~mem.sent THEN <<"GPS", "SetGpsSent">> ELSE <<>>

\* Mutant of MqttReady: the status is sent beside the sensor data.
MqttReadySendsBoth ==
    /\ Handles({"MQTT_READY"})
    /\ em' = [em EXCEPT !.xAwsConnected = TRUE,
                        !.xSensorDataReady = @ /\ ~em.xWaitingOnCell]
    /\ \E logs \in AfterRead(mem.logs) :
          /\ mem' = [mem EXCEPT !.logs = IF em.xSensorDataReady THEN logs ELSE @]
          /\ script' = UnsentFix \o <<"STATUS">> \o SendSensorData(mem'.logs)
    /\ UNCHANGED <<hw, outcome>>

\* xHandleMqttReady
MqttReady ==
    /\ Handles({"MQTT_READY"})
    /\ em' = [em EXCEPT !.xAwsConnected = TRUE,
                        !.xSensorDataReady = @ /\ ~em.xWaitingOnCell]
    /\ \/ /\ ~em.xWaitingOnCell
          /\ script' = <<"GET_NEW_JOBS">>
          /\ UNCHANGED mem
       \/ /\ em.xWaitingOnCell /\ em.xSensorDataReady
          /\ \E logs \in AfterRead(mem.logs) :
                /\ mem' = [mem EXCEPT !.logs = logs]
                /\ script' = UnsentFix \o SendSensorData(logs)
       \/ /\ em.xWaitingOnCell /\ ~em.xSensorDataReady
          /\ script' = UnsentFix \o <<"STATUS", "GET_NEW_JOBS">>
          /\ UNCHANGED mem
    /\ UNCHANGED <<hw, outcome>>

\* Mutant of PublishSuccess: jobs are requested after every log.
PublishSuccessAsks ==
    /\ Handles({"SENSOR_DATA_PUBLISH_SUCCESS"})
    /\ \E logs \in AfterRead(IF mem.logs > 0 THEN mem.logs - 1 ELSE 0) :
          /\ mem' = [mem EXCEPT !.logs = logs]
          /\ script' = SendSensorData(logs) \o <<"GET_NEW_JOBS">>
    /\ UNCHANGED <<em, hw, outcome>>

\* SENSOR_DATA_PUBLISH_SUCCESS: the log is popped, the next one sent.
PublishSuccess ==
    /\ Handles({"SENSOR_DATA_PUBLISH_SUCCESS"})
    /\ \E logs \in AfterRead(IF mem.logs > 0 THEN mem.logs - 1 ELSE 0) :
          /\ mem' = [mem EXCEPT !.logs = logs]
          /\ script' = SendSensorData(logs)
    /\ UNCHANGED <<em, hw, outcome>>

\* GPS_FIX_SUCCESS
FixSuccess ==
    /\ Handles({"GPS_FIX_SUCCESS"})
    /\ script' = IF em.xAwsConnected
                 THEN <<"GPS", "SetGpsSent", "GET_NEW_JOBS">> ELSE <<>>
    /\ UNCHANGED <<em, mem, hw, outcome>>

\* GPS_FIX_TIMEOUT: the try is counted; nothing else to do, so standby.
FixTimeout ==
    /\ Takes({"GPS_FIX_TIMEOUT"})
    /\ mem' = [mem EXCEPT !.retries = em.gpsRetryCount + 1]
    /\ \/ /\ em.xWaitingOnCell
          /\ eventQueue' = Tail(eventQueue)
          /\ em' = [em EXCEPT !.gpsRetryCount = @ + 1]
          /\ UNCHANGED <<power, script, hw, mqttQueue, mqtt, asked>>
       \/ /\ ~em.xWaitingOnCell
          /\ Down("standby")
    /\ UNCHANGED <<cloud, spent, outcome>>

-----------------------------------------------------------------------------
(* The jobs.                                                               *)
Sends(s) == IF em.xAwsConnected THEN s ELSE <<>>
NoFix(m) == [m EXCEPT !.fixed = FALSE, !.sent = FALSE, !.retries = 0]

\* xHandleCloudActivate: the status of the SSM decides.
CloudActivate ==
    /\ Handles({"CLOUD_ACTIVATE_EVT"})
    /\ hw' = GpsEnabled(hw)
    /\ \E pass \in BOOLEAN :
          /\ script' = Sends(Report(pass) \o <<"STATUS", "GET_NEW_JOBS">>)
          /\ outcome' = Ends(Job, pass)
    /\ UNCHANGED <<em, mem>>

\* xHandleDeactivate: logs and location are cleared, then the SSM is told.
Deactivate ==
    /\ Handles({"DEACTIVATE_EVT"})
    /\ \E cleared, deactivated \in BOOLEAN :
          /\ mem' = IF cleared THEN NoFix([mem EXCEPT !.logs = 0]) ELSE mem
          /\ script' = Sends(Report(cleared /\ deactivated)
                               \o <<"STATUS", "GET_NEW_JOBS">>)
          /\ outcome' = Ends(Job, cleared /\ deactivated)
    /\ UNCHANGED <<em, hw>>

\* xHandleConfigs: the settings are stored, and SSM_sendConfigs queued.
Configure ==
    /\ Handles({"CONFIGURE_EVT"})
    /\ \E valid \in BOOLEAN :
          /\ script' = Sends((IF valid THEN <<"PASS">> ELSE <<"BAD_CONFIGS">>)
                               \o <<"GET_NEW_JOBS">>)
          /\ outcome' = Becomes(Job, IF valid THEN "begun" ELSE "fail")
    /\ UNCHANGED <<em, mem, hw>>

\* xHandleResetAlarmsCloudCmd: the command is queued for the SSM.
ResetAlarms ==
    /\ Handles({"RESET_ALARMS_CMD"})
    /\ script' = <<"PASS", "GET_NEW_JOBS">>
    /\ outcome' = Becomes(Job, "begun")
    /\ UNCHANGED <<em, mem, hw>>

\* xHandleGpsJob: a new measurement; xGpsRetryCount keeps its old value.
GpsJobNew ==
    /\ Handles({"GPS_NEW"})
    /\ mem' = NoFix(mem)
    /\ hw' = GpsEnabled(hw)
    /\ script' = <<"PASS">> \o Sends(<<"GET_NEW_JOBS">>)
    /\ outcome' = Becomes(Job, "begun")
    /\ UNCHANGED em

\* xHandleGpsJob: the latest measurement.
GpsJobLast ==
    /\ Handles({"GPS_LAST"})
    /\ script' = Sends((IF mem.fixed THEN <<"GPS", "PASS">> ELSE <<"FAIL">>)
                         \o <<"GET_NEW_JOBS">>)
    /\ outcome' = Ends(Job, mem.fixed)
    /\ UNCHANGED <<em, mem, hw>>

\* xHandleHwResetCloudCmd: with a deactivation the logs are cleared first, and
\* the job goes on if the SSM is deactivated.  The SSM may take the command
\* although its ACK is not seen.
HwReset ==
    /\ Handles({"HW_RESET_CMD"})
    /\ \E cleared, goesOn, acked, resets \in BOOLEAN :
          /\ (acked => goesOn) /\ (resets => goesOn) /\ (acked => resets)
          /\ mem' = IF cleared THEN [mem EXCEPT !.logs = 0] ELSE mem
          /\ hw' = [hw EXCEPT !.resetDue = @ \/ resets]
          /\ script' = IF acked THEN <<"PASS">> ELSE <<"FAIL", "GET_NEW_JOBS">>
          /\ outcome' = Becomes(Job, IF acked THEN "pass"
                                   ELSE IF resets THEN "unseen" ELSE "fail")
    /\ UNCHANGED em

\* OTA: more time, from the start of the session, and OTA_initDownload.
Ota ==
    /\ Handles({"OTA"})
    /\ em' = [em EXCEPT !.xAllowedTimeOn = "ota",
                        !.late = @ /\ em.xAllowedTimeOn = "ota"]
    /\ hw' = [hw EXCEPT !.download = Job]
    /\ UNCHANGED <<script, mem, outcome>>

\* xOtaFwDownloadSuccessful, up to its report: before the SSM is programmed.
DownloadComplete ==
    /\ Handles({"FW_DOWNLOAD_COMPLETE"})
    /\ em' = [em EXCEPT !.installs = Job]
    /\ script' = <<"PASS", "RESET">>
    /\ outcome' = Becomes(Job, "begun")
    /\ UNCHANGED <<mem, hw>>

\* FW_DOWNLOAD_FAIL
DownloadFail ==
    /\ Handles({"FW_DOWNLOAD_FAIL"})
    /\ script' = <<"FAIL", "GET_NEW_JOBS">>
    /\ outcome' = Ends(Job, FALSE)
    /\ UNCHANGED <<em, mem, hw>>

\* MQTT_NO_JOBS and CLOUD_CONNECT_FAILURE put the AM to standby unless the
\* GPS runs (gpsEnabled).
NoJobs ==
    /\ Takes({"MQTT_NO_JOBS"})
    /\ \/ /\ hw.gps = "off"
          /\ Down("standby")
       \/ /\ hw.gps # "off"
          /\ eventQueue' = Tail(eventQueue)
          /\ em' = [em EXCEPT !.xWaitingOnCell = FALSE]
          /\ UNCHANGED <<power, script, hw, mqttQueue, mqtt, asked>>
    /\ UNCHANGED <<mem, cloud, spent, outcome>>

CloudConnectFailure ==
    /\ Takes({"CLOUD_CONNECT_FAILURE"})
    /\ \/ /\ hw.gps = "off"
          /\ Down("standby")
       \/ /\ hw.gps # "off"
          /\ eventQueue' = Tail(eventQueue)
          /\ UNCHANGED <<power, em, script, hw, mqttQueue, mqtt, asked>>
    /\ UNCHANGED <<mem, cloud, spent, outcome>>

EventManager ==
    \/ SsmActivate \/ CheckInDeactivated \/ CheckInActivated
    \/ StoreLog \/ SensorDataReady \/ MqttReady \/ PublishSuccess
    \/ FixSuccess \/ FixTimeout \/ NoJobs \/ CloudConnectFailure
    \/ CloudActivate \/ Deactivate \/ Configure \/ ResetAlarms
    \/ GpsJobNew \/ GpsJobLast \/ HwReset
    \/ Ota \/ DownloadComplete \/ DownloadFail

-----------------------------------------------------------------------------
(* What is left of a handler.                                              *)
InScript(step) == On /\ script # <<>> /\ Head(script) = step

\* MQTT_send... and MQTT_indicate...: a payload is encoded in the one buffer;
\* a message is dropped when the queue stays full.
Queue ==
    /\ On
    /\ script # <<>>
    /\ LET message == Head(script) IN
          /\ message \in Messages
          /\ mqtt' = IF message \in Topics
                     THEN [mqtt EXCEPT !.buf = message] ELSE mqtt
          /\ mqttQueue' = IF Len(mqttQueue) < MqttQueueLen
                          THEN Append(mqttQueue, message) ELSE mqttQueue
    /\ script' = Tail(script)
    /\ UNCHANGED <<power, eventQueue, em, mem, hw, cloud, asked, spent,
                   outcome>>

\* MEM_SetGpsSentToCloud(true), a write to flash
SetGpsSent ==
    /\ InScript("SetGpsSent")
    /\ mem' = [mem EXCEPT !.sent = TRUE]
    /\ script' = Tail(script)
    /\ UNCHANGED <<power, eventQueue, em, hw, mqttQueue, mqtt, cloud, asked,
                   spent, outcome>>

\* xOtaFwDownloadSuccessful, a second after its report, which the MQTT task has
\* taken by then: the SSM is programmed
\* and the AM reset, or the SSM rolled back and the AM put to standby, or the
\* SSM has no image and the AM stays on without its MQTT task.
Reset ==
    /\ InScript("RESET")
    /\ mqttQueue = <<>> \/ hw.cell # "up"
    /\ \/ /\ Down("reset")
          /\ outcome' = Becomes(em.installs, "pass")
       \/ /\ Down("standby")
          /\ outcome' = Becomes(em.installs, "undone")
       \/ /\ script' = <<>> /\ mqttQueue' = <<>>
          /\ hw' = [hw EXCEPT !.cell = "failed"]
          /\ outcome' = Becomes(em.installs, "undone")
          /\ em' = [em EXCEPT !.installs = NoJob]
          /\ UNCHANGED <<power, eventQueue, mqtt, asked>>
    /\ UNCHANGED <<mem, cloud, spent>>

\* Mutant of TimeIsUp: a publication under way keeps the AM on.
TimeIsUpWaits ==
    /\ On
    /\ script = <<>>
    /\ \/ /\ ~mqtt.xCloudTxInProgress
          /\ Down("standby")
       \/ /\ ~em.late /\ mqtt.xCloudTxInProgress
          /\ em' = [em EXCEPT !.late = TRUE]
          /\ UNCHANGED <<power, eventQueue, script, hw, mqttQueue, mqtt, asked>>
    /\ UNCHANGED <<mem, cloud, spent, outcome>>

\* The end of the loop: xTimeAmHasBeenOn has reached xAllowedTimeOn, and while
\* something is being published AM_ALLOWED_TOLERANCE_MS more.
TimeIsUp ==
    /\ On
    /\ script = <<>>
    /\ \/ /\ em.late \/ ~mqtt.xCloudTxInProgress
          /\ Down("standby")
       \/ /\ ~em.late /\ mqtt.xCloudTxInProgress
          /\ em' = [em EXCEPT !.late = TRUE]
          /\ UNCHANGED <<power, eventQueue, script, hw, mqttQueue, mqtt, asked>>
    /\ UNCHANGED <<mem, cloud, spent, outcome>>

\* The SSM resets the AM ten seconds after it took the command.
SsmResetsAm ==
    /\ On
    /\ hw.resetDue
    /\ Down("reset")
    /\ UNCHANGED <<mem, cloud, spent, outcome>>

-----------------------------------------------------------------------------
(* The MQTT task.                                                          *)
MqttServes == On /\ hw.cell \in {"up", "lost"} /\ mqttQueue # <<>>

\* MQTT_task takes a message; the event manager is not involved.
Serves(messages) ==
    /\ MqttServes
    /\ Head(mqttQueue) \in messages
    /\ mqttQueue' = Tail(mqttQueue)
    /\ UNCHANGED <<power, script, em, mem, hw>>

\* QoS 0: a message reaches the broker, or is lost without a trace.
Arrives == hw.cell = "up" /\ UNCHANGED spent
Lost ==
    \/ hw.cell = "lost" /\ UNCHANGED spent
    \/ hw.cell = "up" /\ spent.lost < NumLost /\ spent' = [spent EXCEPT !.lost = @ + 1]

\* xCurrentJobStatus and xCurrentJobId after an update
Idle == [mqtt EXCEPT !.status = "IDLE", !.id = NoJob]

\* A job that was not started, or has ended already, takes no update.
Updated(job, status) ==
    IF job \in Jobs /\ cloud[job].status = "IN_PROGRESS"
    THEN [cloud EXCEPT ![job].status = status] ELSE cloud

\* xSendJobUpdate
Update(status) ==
    \/ Arrives /\ cloud' = Updated(mqtt.id, status)
    \/ Lost /\ UNCHANGED cloud

EventOf == [ACTIVATE |-> "CLOUD_ACTIVATE_EVT", DEACTIVATE |-> "DEACTIVATE_EVT",
            CONFIGURE |-> "CONFIGURE_EVT", RESET_ALARMS |-> "RESET_ALARMS_CMD",
            HW_RESET |-> "HW_RESET_CMD", UPDATE |-> "OTA",
            GPS_NEW |-> "GPS_NEW", GPS_LAST |-> "GPS_LAST"]

\* The type RESET has no case of its own: nobody is told of the job.
HandedOn ==
    IF mqtt.request = "RESET" THEN UNCHANGED eventQueue
    ELSE eventQueue' = Posted(eventQueue, EventOf[mqtt.request], mqtt.id)

\* Mutant of StartJob: the job is handed on but not marked as in hand.
StartJobStaysIdle ==
    /\ Serves({"NEW_JOB"})
    /\ mqtt.request # "UNKNOWN"
    /\ HandedOn
    /\ UNCHANGED <<mqtt, cloud, asked, spent, outcome>>

\* NEW_JOB
StartJob ==
    /\ Serves({"NEW_JOB"})
    /\ mqtt.request # "UNKNOWN"
    /\ mqtt' = [mqtt EXCEPT !.status = "IN_PROGRESS"]
    /\ HandedOn
    /\ UNCHANGED <<cloud, asked, spent, outcome>>

\* NEW_JOB of a type this version does not know; no further job is requested.
RefuseJob ==
    /\ Serves({"NEW_JOB"})
    /\ mqtt.request = "UNKNOWN"
    /\ Update("FAILED")
    /\ outcome' = Ends(mqtt.id, FALSE)
    /\ mqtt' = Idle
    /\ UNCHANGED <<eventQueue, asked>>

\* GET_NEW_JOBS
AskForJobs ==
    /\ Serves({"GET_NEW_JOBS"})
    /\ \/ Arrives /\ asked' = asked + 1
       \/ Lost /\ UNCHANGED asked
    /\ UNCHANGED <<eventQueue, mqtt, cloud, outcome>>

\* NO_NEW_JOBS
NoNewJobs ==
    /\ Serves({"NO_NEW_JOBS"})
    /\ eventQueue' = Posted(eventQueue, "MQTT_NO_JOBS", NoJob)
    /\ UNCHANGED <<mqtt, cloud, asked, spent, outcome>>

\* Mutant of ReportJob: every report is a success.
ReportJobSucceeds ==
    /\ Serves(Reports)
    /\ Update("SUCCEEDED")
    /\ mqtt' = Idle
    /\ UNCHANGED <<eventQueue, asked, outcome>>

\* SEND_JOB_PASS, SEND_JOB_FAIL, SEND_JOB_FAIL_BAD_CONFIGS
ReportJob ==
    /\ Serves(Reports)
    /\ Update(IF Head(mqttQueue) = "PASS" THEN "SUCCEEDED" ELSE "FAILED")
    /\ mqtt' = Idle
    /\ UNCHANGED <<eventQueue, asked, outcome>>

\* SEND_STATUS_MSG and SEND_GPS_DATA_MSG, QoS 0: no callback.
PublishPlain ==
    /\ Serves({"STATUS", "GPS"})
    /\ UNCHANGED <<eventQueue, mqtt, cloud, asked, spent, outcome>>

\* SEND_SENSOR_DATA_MSG, QoS 1: IotMqtt_Publish takes it, its callback will
\* run; or refuses it.  xCloudTxInProgress is set after the call.
PublishData ==
    /\ Serves({"DATA"})
    /\ \/ /\ mqtt' = [mqtt EXCEPT !.flagDue = TRUE, !.inFlight = @ + 1]
          /\ UNCHANGED spent
       \/ /\ mqtt' = [mqtt EXCEPT !.flagDue = TRUE]
          /\ Lost
    /\ UNCHANGED <<eventQueue, cloud, asked, outcome>>

SetTxFlag ==
    /\ On
    /\ mqtt.flagDue
    /\ mqtt' = [mqtt EXCEPT !.flagDue = FALSE, !.xCloudTxInProgress = TRUE]
    /\ UNCHANGED <<power, eventQueue, script, em, mem, hw, mqttQueue, cloud,
                   asked, spent, outcome>>

MqttTask ==
    IF mqtt.flagDue THEN SetTxFlag
    ELSE \/ StartJob \/ RefuseJob \/ AskForJobs \/ NoNewJobs \/ ReportJob
         \/ PublishPlain \/ PublishData

\* xOperationCompleteCb, in a task of the MQTT library: acknowledged, or given
\* up after its retries.
PublishDone ==
    /\ On
    /\ mqtt.inFlight > 0
    /\ mqtt' = [mqtt EXCEPT !.inFlight = @ - 1, !.xCloudTxInProgress = FALSE]
    /\ \/ /\ Arrives
          /\ eventQueue' = Posted(eventQueue, "SENSOR_DATA_PUBLISH_SUCCESS", NoJob)
       \/ /\ Lost
          /\ UNCHANGED eventQueue
    /\ UNCHANGED <<power, script, em, mem, hw, mqttQueue, cloud, asked,
                   outcome>>

-----------------------------------------------------------------------------
(* The cloud's jobs.                                                       *)
\* start-next: the job in progress, else one that was queued by then, with a
\* request of any type.
NoOffer == \A j \in Jobs : cloud[j].status # "IN_PROGRESS"
Offers(j, request) ==
    \/ cloud[j] = [request |-> request, status |-> "IN_PROGRESS"]
    \/ /\ NoOffer
       /\ cloud[j].status = "NONE" /\ request \in JobRequests[j]
       /\ \A k \in Jobs : cloud[k].status = "NONE" => j <= k

ToMqtt(message) ==
    IF Len(mqttQueue) < MqttQueueLen THEN Append(mqttQueue, message) ELSE mqttQueue

\* xStartNextJobAcceptRejectCb, in a task of the MQTT library: the answer
\* counts only while no job is in hand.
Answer ==
    /\ On /\ hw.cell = "up" /\ asked > 0
    /\ asked' = asked - 1
    /\ \/ /\ NoOffer
          /\ mqttQueue' = IF mqtt.status = "IDLE" THEN ToMqtt("NO_NEW_JOBS")
                          ELSE mqttQueue
          /\ UNCHANGED <<mqtt, cloud>>
       \/ \E j \in Jobs, request \in Requests :
          /\ Offers(j, request)
          /\ cloud' = [cloud EXCEPT ![j] = [request |-> request,
                                            status |-> "IN_PROGRESS"]]
          /\ IF mqtt.status = "IDLE"
             THEN /\ mqtt' = [mqtt EXCEPT !.id = j, !.request = request]
                  /\ mqttQueue' = ToMqtt("NEW_JOB")
             ELSE UNCHANGED <<mqtt, mqttQueue>>
    /\ UNCHANGED <<power, eventQueue, script, em, mem, hw, spent, outcome>>

\* A rejected request counts as "no jobs", whatever is in hand.
Reject ==
    /\ On /\ hw.cell = "up" /\ asked > 0
    /\ asked' = asked - 1
    /\ Lost
    /\ mqttQueue' = ToMqtt("NO_NEW_JOBS")
    /\ UNCHANGED <<power, eventQueue, script, em, mem, hw, mqtt, cloud, outcome>>

LoseAnswer ==
    /\ On /\ asked > 0
    /\ asked' = asked - 1
    /\ Lost
    /\ UNCHANGED <<power, eventQueue, script, em, mem, hw, mqttQueue, mqtt,
                   cloud, outcome>>

Cloud ==
    \/ Answer \/ Reject \/ LoseAnswer

-----------------------------------------------------------------------------
(* The other tasks of the AM, as far as the event manager hears of them.   *)
Posts(id, job) ==
    /\ On
    /\ eventQueue' = Posted(eventQueue, id, job)
    /\ UNCHANGED <<power, script, em, mqttQueue, mqtt, cloud, asked, outcome>>

\* ssm.c hands an attention of the SSM on (see SsmAttention).
Attention ==
    /\ spent.attn < NumAttn
    /\ spent' = [spent EXCEPT !.attn = @ + 1]
    /\ \E id \in Attentions : Posts(id, NoJob)
    /\ UNCHANGED <<hw, mem>>

\* The SSM's logs arrive one by one, the next when one is stored.
LogArrives ==
    /\ hw.transfer
    /\ \A i \in DOMAIN eventQueue : eventQueue[i].id # "SENSOR_DATA_MSG_RECEIVED"
    /\ spent.logs < NumLogs
    /\ spent' = [spent EXCEPT !.logs = @ + 1]
    /\ Posts("SENSOR_DATA_MSG_RECEIVED", NoJob)
    /\ UNCHANGED <<hw, mem>>

TransferDone ==
    /\ hw.transfer
    /\ \A i \in DOMAIN eventQueue : eventQueue[i].id # "SENSOR_DATA_MSG_RECEIVED"
    /\ hw' = [hw EXCEPT !.transfer = FALSE]
    /\ Posts("SENSOR_DATA_READY", NoJob)
    /\ UNCHANGED <<mem, spent>>

\* CONN_task and MQTT_task up to the subscription
CellUp ==
    /\ hw.cell = "starting"
    /\ hw' = [hw EXCEPT !.cell = "up"]
    /\ Posts("MQTT_READY", NoJob)
    /\ UNCHANGED <<mem, spent>>

\* No network, no connection, or ppposStatusCb when it is lost.
CellFails ==
    /\ hw.cell \in {"starting", "up"}
    /\ hw' = [hw EXCEPT !.cell = IF @ = "up" THEN "lost" ELSE "failed"]
    /\ Posts("CLOUD_CONNECT_FAILURE", NoJob)
    /\ UNCHANGED <<mem, spent>>

\* GPS_monitorTask: flags and event first, GPS_Disable last.
GpsFix ==
    /\ hw.gps = "on"
    /\ hw' = [hw EXCEPT !.gps = "ending"]
    /\ mem' = [mem EXCEPT !.fixed = TRUE]
    /\ Posts("GPS_FIX_SUCCESS", NoJob)
    /\ UNCHANGED spent

GpsGivesUp ==
    /\ hw.gps = "on"
    /\ hw' = [hw EXCEPT !.gps = "ending"]
    /\ mem' = [mem EXCEPT !.fixed = FALSE]
    /\ Posts("GPS_FIX_TIMEOUT", NoJob)
    /\ UNCHANGED spent

GpsOff ==
    /\ On
    /\ hw.gps = "ending"
    /\ hw' = [hw EXCEPT !.gps = "off"]
    /\ UNCHANGED <<power, eventQueue, script, em, mem, mqttQueue, mqtt, cloud,
                   asked, spent, outcome>>

\* otaUpdate.c: FW_DOWNLOAD_COMPLETE or FW_DOWNLOAD_FAIL
DownloadEnds ==
    /\ hw.download # NoDownload
    /\ hw' = [hw EXCEPT !.download = NoDownload]
    /\ \E id \in {"FW_DOWNLOAD_COMPLETE", "FW_DOWNLOAD_FAIL"} :
          Posts(id, hw.download)
    /\ UNCHANGED <<mem, spent>>

OtherTasks ==
    \/ Attention \/ LogArrives \/ TransferDone \/ CellUp \/ CellFails
    \/ GpsFix \/ GpsGivesUp \/ GpsOff \/ DownloadEnds

-----------------------------------------------------------------------------
EventLoop == EventManager \/ Queue \/ SetGpsSent \/ Reset

Next ==
    \/ Wake \/ Boot
    \/ EventLoop \/ TimeIsUp
    \/ MqttTask \/ PublishDone \/ Cloud \/ OtherTasks
    \/ SsmResetsAm

\* The event manager's loop runs and its time passes; the MQTT task runs; the
\* bootloader boots.
Fairness ==
    /\ WF_vars(EventLoop) /\ WF_vars(TimeIsUp)
    /\ WF_vars(MqttTask) /\ WF_vars(Boot)

Spec == Init /\ [][Next]_vars /\ Fairness

-----------------------------------------------------------------------------
(* Orderly sessions: without the overlaps the hazards list.                *)
EventIds == {eventQueue[i].id : i \in DOMAIN eventQueue}
InMqttQueue == {mqttQueue[i] : i \in DOMAIN mqttQueue}
JobEvents == {EventOf[r] : r \in DOMAIN EventOf}
                \cup {"FW_DOWNLOAD_COMPLETE", "FW_DOWNLOAD_FAIL"}

\* Something is under way that will ask for jobs when it ends.
WillAsk ==
    \/ script # <<>> \/ mqttQueue # <<>> \/ asked > 0
    \/ mqtt.status # "IDLE" \/ mqtt.inFlight > 0
    \/ EventIds \cap (JobEvents \cup {"MQTT_READY", "MQTT_NO_JOBS",
           "SENSOR_DATA_PUBLISH_SUCCESS", "GPS_FIX_SUCCESS"}) # {}

OrderlyNext ==
    /\ Next
    \* A fix is found before the cell is up, or when the jobs are done.
    /\ (hw.gps = "on" /\ hw'.gps = "ending" /\ mem'.fixed) => ~WillAsk
    \* The SSM does not ask for a second cell session within this one.
    /\ spent'.attn > spent.attn =>
          \/ hw.cell = "off"
          \/ em.xWaitingOnCell /\ "MQTT_NO_JOBS" \notin EventIds
    \* The MQTT task runs while the event manager waits for the flash.
    /\ (~mem.sent /\ mem'.sent) => mqttQueue = <<>>

OrderlySpec == Init /\ [][OrderlyNext]_vars /\ Fairness

-----------------------------------------------------------------------------
(* Properties.                                                             *)
\* The variables hold what the code can put there; no queue is overfull.
TypeOK ==
    /\ power \in {"on", "standby", "reset"}
    /\ eventQueue \in Seq([id : Events, job : Jobs \cup {NoJob}])
    /\ Len(eventQueue) <= EventQueueLen
    /\ script \in Seq(Messages \cup {"SetGpsSent", "RESET"})
    /\ em \in [xWaitingOnCell : BOOLEAN, xAwsConnected : BOOLEAN,
               xSensorDataReady : BOOLEAN, gpsRetryCount : Nat,
               xAllowedTimeOn : {"normal", "ota"}, late : BOOLEAN,
               installs : Jobs \cup {NoJob}]
    /\ mem \in [fixed : BOOLEAN, sent : BOOLEAN, retries : Nat, logs : Nat]
    /\ hw \in [gps : {"off", "on", "ending"},
               cell : {"off", "starting", "up", "failed", "lost"},
               transfer : BOOLEAN, download : Jobs \cup {NoJob, NoDownload},
               resetDue : BOOLEAN]
    /\ mqttQueue \in Seq(Messages \cup {"NEW_JOB", "NO_NEW_JOBS"})
    /\ Len(mqttQueue) <= MqttQueueLen
    /\ mqtt \in [status : {"IDLE", "IN_PROGRESS"}, request : Requests,
                 id : Jobs \cup {NoJob}, buf : Topics \cup {"none"},
                 flagDue : BOOLEAN, xCloudTxInProgress : BOOLEAN,
                 inFlight : Nat]
    /\ cloud \in [Jobs -> [request : Requests, status :
               {"NONE", "IN_PROGRESS", "SUCCEEDED", "FAILED"}]]
    /\ asked \in Nat
    /\ spent \in [wakes : 0 .. NumWakes, attn : 0 .. NumAttn,
                 logs : 0 .. NumLogs, lost : 0 .. NumLost]
    /\ outcome \in [Jobs \cup {NoJob} -> {"none"} \cup Succeeded \cup Failed]

\* payloadBufferOutgoingTopic is shared by all publications, and a queued one
\* only points to it: it is not encoded over before the MQTT task takes it.
PublishesWhatWasQueued ==
    \A message \in InMqttQueue \cap Topics : mqtt.buf = message

\* A job is handed to the event manager only when none is in hand: the one that
\* is reported next is the one that was run (xStartNextJobAcceptRejectCb).
OneJobAtATime ==
    "NEW_JOB" \in InMqttQueue =>
        /\ mqtt.status = "IDLE"
        /\ mqtt.id # NoJob
        /\ EventIds \cap JobEvents = {}
        /\ Cardinality({i \in DOMAIN mqttQueue : mqttQueue[i] = "NEW_JOB"}) = 1

\* What the cloud's status says of a job, across lost reports, resets, repeated
\* executions and what becomes of it after the report.  SUCCEEDED: it was done,
\* or begun; of an UPDATE only that its image was downloaded and checked, for the
\* SSM may still refuse it.  FAILED: it was not done, but for a reset of the
\* hardware whose ACK was lost.
ReportedAsDone ==
    \A j \in Jobs :
        /\ cloud[j].status = "SUCCEEDED" => outcome[j] \in Succeeded
        /\ cloud[j].status = "FAILED" => outcome[j] \in Failed

\* MQTT_NO_JOBS puts the AM to standby only when "there is nothing left to do":
\* no message for the cloud is queued, no job or download is in hand.
NoJobsMeansDone ==
    [][NoJobs /\ power' = "standby" =>
          /\ mqttQueue = <<>> /\ mqtt.status = "IDLE" /\ mqtt.inFlight = 0
          /\ hw.download = NoDownload
          /\ EventIds \cap (JobEvents \cup {"SENSOR_DATA_PUBLISH_SUCCESS"}) = {}
      ]_vars

\* Whatever is lost, refused or never answered, the AM goes back to standby: it
\* does not drain the battery.
SessionEnds == power = "on" ~> power = "standby"
=============================================================================
