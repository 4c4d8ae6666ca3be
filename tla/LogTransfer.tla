---------------------------- MODULE LogTransfer ----------------------------
(***************************************************************************)
(* How the daily logs get from the SSM to the AM's flash.                  *)
(*                                                                         *)
(* The SSM raises a check-in and wakes the AM.  On the AM two tasks work   *)
(* together: SSM_SPI_Task (ssm.c) talks to the SSM, one request at a time, *)
(* each tried up to MAX_RETRIES times; the event manager stores the log    *)
(* received and has the SSM told so.  They hand over through two queues    *)
(* and the variable xCurrentEntry.                                         *)
(*                                                                         *)
(* The SSM's sensor data section is taken as what SsmSensorLog is checked  *)
(* to implement, the queue of SensorQueue; the AM's as the sequence of     *)
(* logs put into it.  The AM is on for minutes only and a log is written   *)
(* once a day, so the AM is off when the SSM writes one.                   *)
(***************************************************************************)
EXTENDS Naturals, Sequences, FiniteSets

CONSTANTS
    Size,           \* MAX_SENSOR_DATA_LOGS of the SSM
    TransmissionRate, \* xTransmissionRateInDays
    MAX_RETRIES,    \* tries of a request
    QueueLength,    \* of ssmMsgQueue (3)
    EntriesWrap,    \* entriesLeftToRequest is a uint16_t (65536)
    NumDays,        \* bound: logs written
    NumFaults       \* bound: failures

ASSUME TransferAssumption ==
    /\ {Size, TransmissionRate, MAX_RETRIES} \subseteq Nat \ {0}
    /\ QueueLength \in Nat /\ QueueLength > 2
    /\ EntriesWrap \in Nat /\ EntriesWrap > Size
    /\ NumDays \in Nat /\ NumFaults \in Nat

VARIABLES
    queue, day,     \* SSM: the logs not acknowledged; number of the newest
    checkIn,        \* SSM: ASP_CHECK_IN_ACTIVATED is set, and the wake line
    stored,         \* AM flash: the logs stored, in order
    up,             \* the AM is on
    task, tries,    \* SSM_SPI_Task: what it does, and how often it has tried
    ssmMsgQueue,    \* commands to SSM_SPI_Task
    eventQueue,     \* events to the event manager
    toSend,         \* commands the event manager has yet to send
    xCurrentEntry, entriesLeftToRequest, numEntries,  \* ssm.c
    xSensorDataReady,  \* eventManager.c
    faults

vars == <<queue, day, checkIn, stored, up, task, tries, ssmMsgQueue, eventQueue,
          toSend, xCurrentEntry, entriesLeftToRequest, numEntries,
          xSensorDataReady, faults>>

ssm == <<queue, day, checkIn>>
ram == <<xCurrentEntry, entriesLeftToRequest, numEntries>>

Queue == INSTANCE SensorQueue WITH written <- day, up <- TRUE

Command == {"REQUEST_STATUS", "REQUEST_NUM_ENTRIES", "REQUEST_ENTRY", "ENTRY_STORED"}
Request == Command \cup {"GET_ATTN_LIST", "SEND_ATTN_ACK"}

\* xQueueSend waits 10 ms for room, then the command is lost.
Enqueue(cmd) ==
    IF Len(ssmMsgQueue) < QueueLength THEN Append(ssmMsgQueue, cmd) ELSE ssmMsgQueue

\* A failure; none hits the last day.
Fault ==
    /\ faults < NumFaults /\ day < NumDays
    /\ faults' = faults + 1

-----------------------------------------------------------------------------
(* The SSM.                                                                *)

\* APP_periodic: a day's log is written; with enough of them, or a new red or
\* green flag, APP_indicateCheckIn wakes the AM.
DailyLog ==
    /\ ~up
    /\ day < NumDays
    /\ Queue!Push
    /\ \E flag \in BOOLEAN :
          checkIn' = (checkIn \/ flag \/ Len(queue') >= TransmissionRate)
    /\ UNCHANGED <<stored, up, task, tries, ssmMsgQueue, eventQueue, toSend, ram,
                   xSensorDataReady, faults>>

\* APP_NVM_SensorDataMsgAcked on an empty section moves the tail past the
\* head: the ring then holds entries of an earlier lap (0).
Emptied == [i \in 1 .. Size - 1 |-> 0]

\* Mutant of SsmHandles: the tail is not incremented.
SsmHandlesNoIncrement ==
    /\ checkIn' = (checkIn /\ task # "SEND_ATTN_ACK")
    /\ UNCHANGED <<queue, day>>

\* What a request that arrives does to the SSM.  An attention ACK clears the
\* whole list.
SsmHandles ==
    /\ queue' = CASE task # "ENTRY_STORED" -> queue
                  [] task = "ENTRY_STORED" /\ queue = <<>> -> Emptied
                  [] OTHER -> Tail(queue)
    /\ checkIn' = (checkIn /\ task # "SEND_ATTN_ACK")
    /\ UNCHANGED day

-----------------------------------------------------------------------------
(* SSM_SPI_Task: a command, then the wake line.                            *)

\* The next command; a REQUEST_ENTRY is ignored when there are no entries.
TakeCommand ==
    /\ up /\ task = "idle" /\ ssmMsgQueue # <<>>
    /\ LET cmd == Head(ssmMsgQueue)
           asks == cmd = "REQUEST_ENTRY" /\ numEntries # 0
       IN  /\ task' = IF cmd = "REQUEST_ENTRY" /\ ~asks THEN "poll" ELSE cmd
           /\ numEntries' = IF cmd = "REQUEST_NUM_ENTRIES" THEN 0 ELSE numEntries
           /\ entriesLeftToRequest' =
                 CASE ~asks -> entriesLeftToRequest
                   [] asks /\ entriesLeftToRequest = 0 -> EntriesWrap - 1
                   [] OTHER -> entriesLeftToRequest - 1
    /\ tries' = 0
    /\ ssmMsgQueue' = Tail(ssmMsgQueue)
    /\ UNCHANGED <<ssm, stored, up, eventQueue, toSend, xCurrentEntry,
                   xSensorDataReady, faults>>

\* The wake line is read after a command, or when none came for 100 ms.
PollLine ==
    /\ up
    /\ task = "poll" \/ (task = "idle" /\ ssmMsgQueue = <<>> /\ checkIn)
    /\ task' = IF checkIn THEN "GET_ATTN_LIST" ELSE "idle"
    /\ tries' = 0
    /\ UNCHANGED <<ssm, stored, up, ssmMsgQueue, eventQueue, toSend, ram,
                   xSensorDataReady, faults>>

AfterRequest == IF task \in Command THEN "poll" ELSE "idle"

\* No answer, or a NACK: the request is tried again, or given up.
AmRetries ==
    /\ tries' = tries + 1
    /\ IF tries' = MAX_RETRIES THEN task' = AfterRequest /\ Fault
       ELSE UNCHANGED <<task, faults>>
    /\ UNCHANGED <<stored, up, ssmMsgQueue, eventQueue, toSend, ram, xSensorDataReady>>

\* The request does not arrive, or arrives garbled.
RequestLost ==
    /\ up /\ task \in Request
    /\ AmRetries
    /\ UNCHANGED ssm

\* The SSM handles the request, but its answer is late or garbled.
ReplyLost ==
    /\ up /\ task \in Request
    /\ SsmHandles
    /\ AmRetries

\* A request is answered.
Answered(request) ==
    /\ up /\ task = request
    /\ SsmHandles
    /\ UNCHANGED <<stored, up, toSend, xSensorDataReady, faults>>

Status ==
    /\ Answered("REQUEST_STATUS")
    /\ task' = "poll"
    /\ UNCHANGED <<tries, ssmMsgQueue, eventQueue, ram>>

\* SSM_requestNewDataLogEntryFromSsm, whatever the number.
NumEntries ==
    /\ Answered("REQUEST_NUM_ENTRIES")
    /\ numEntries' = Len(queue)
    /\ entriesLeftToRequest' = Len(queue)
    /\ ssmMsgQueue' = Enqueue("REQUEST_ENTRY")
    /\ task' = "poll"
    /\ UNCHANGED <<tries, eventQueue, xCurrentEntry>>

\* handleSensorDataEntry.  Without an entry the SSM NACKs.
Entry ==
    /\ queue # <<>>
    /\ Answered("REQUEST_ENTRY")
    /\ xCurrentEntry' = Head(queue)
    /\ eventQueue' = Append(eventQueue, "SENSOR_DATA_MSG_RECEIVED")
    /\ task' = "poll"
    /\ UNCHANGED <<tries, ssmMsgQueue, entriesLeftToRequest, numEntries>>

\* Mutant of EntryStored: the last entry is taken for all of them.
EntryStoredOneLess ==
    /\ Answered("ENTRY_STORED")
    /\ IF entriesLeftToRequest > 1
       THEN ssmMsgQueue' = Enqueue("REQUEST_ENTRY") /\ UNCHANGED eventQueue
       ELSE eventQueue' = Append(eventQueue, "SENSOR_DATA_READY") /\ UNCHANGED ssmMsgQueue
    /\ task' = "poll"
    /\ UNCHANGED <<tries, ram>>

\* Mutant of EntryStored: the next entry is not requested.
EntryStoredStops ==
    /\ Answered("ENTRY_STORED")
    /\ task' = "poll"
    /\ UNCHANGED <<tries, ram, ssmMsgQueue, eventQueue>>

\* Mutant of EntryStored: there always is a next entry.
EntryStoredAlwaysNext ==
    /\ Answered("ENTRY_STORED")
    /\ ssmMsgQueue' = Enqueue("REQUEST_ENTRY")
    /\ task' = "poll"
    /\ UNCHANGED <<tries, ram, eventQueue>>

\* getNextSensorDataEntry
EntryStored ==
    /\ Answered("ENTRY_STORED")
    /\ IF entriesLeftToRequest > 0
       THEN ssmMsgQueue' = Enqueue("REQUEST_ENTRY") /\ UNCHANGED eventQueue
       ELSE eventQueue' = Append(eventQueue, "SENSOR_DATA_READY") /\ UNCHANGED ssmMsgQueue
    /\ task' = "poll"
    /\ UNCHANGED <<tries, ram>>

\* Mutant of AttnList: the list is handled and not acknowledged.
AttnListNoAck ==
    /\ Answered("GET_ATTN_LIST")
    /\ eventQueue' = Append(eventQueue, "CHECK_IN_EVT_ACTIVATED")
    /\ task' = "idle"
    /\ UNCHANGED <<tries, ssmMsgQueue, ram>>

\* SSM_getandHandleAttnList: the event is sent before the ACK.  (While the
\* wake line is set the list is not empty.)
AttnList ==
    /\ Answered("GET_ATTN_LIST")
    /\ eventQueue' = Append(eventQueue, "CHECK_IN_EVT_ACTIVATED")
    /\ task' = "SEND_ATTN_ACK"
    /\ tries' = 0
    /\ UNCHANGED <<ssmMsgQueue, ram>>

AttnAck ==
    /\ Answered("SEND_ATTN_ACK")
    /\ task' = "idle"
    /\ UNCHANGED <<tries, ssmMsgQueue, eventQueue, ram>>

-----------------------------------------------------------------------------
(* The event manager: one event, with the commands it sends, at a time.    *)

NextEvent(event) ==
    /\ up /\ toSend = <<>>
    /\ eventQueue # <<>> /\ Head(eventQueue) = event
    /\ eventQueue' = Tail(eventQueue)
    /\ UNCHANGED <<ssm, up, task, tries, ssmMsgQueue, ram>>

\* xHandleCheckInActivated
CheckInActivated ==
    /\ NextEvent("CHECK_IN_EVT_ACTIVATED")
    /\ toSend' = <<"REQUEST_STATUS", "REQUEST_NUM_ENTRIES">>
    /\ UNCHANGED <<stored, xSensorDataReady, faults>>

\* Mutant of StoreEntry: the SSM is told before the log is in flash.
StoreEntryUnchecked ==
    /\ NextEvent("SENSOR_DATA_MSG_RECEIVED")
    /\ \/ stored' = Append(stored, xCurrentEntry) /\ UNCHANGED faults
       \/ Fault /\ UNCHANGED stored
    /\ toSend' = <<"ENTRY_STORED">>
    /\ UNCHANGED xSensorDataReady

\* xPackageAndStoreSensorDataToFlash; the write of the log may fail.
StoreEntry ==
    /\ NextEvent("SENSOR_DATA_MSG_RECEIVED")
    /\ \/ /\ stored' = Append(stored, xCurrentEntry)
          /\ toSend' = <<"ENTRY_STORED">>
          /\ UNCHANGED faults
       \/ Fault /\ UNCHANGED <<stored, toSend>>
    /\ UNCHANGED xSensorDataReady

\* xHandleSensorDataReady
SensorDataReady ==
    /\ NextEvent("SENSOR_DATA_READY")
    /\ xSensorDataReady' = TRUE
    /\ UNCHANGED <<stored, toSend, faults>>

SendCommand ==
    /\ up /\ toSend # <<>>
    /\ ssmMsgQueue' = Enqueue(Head(toSend))
    /\ toSend' = Tail(toSend)
    /\ UNCHANGED <<ssm, stored, up, task, tries, eventQueue, ram, xSensorDataReady, faults>>

-----------------------------------------------------------------------------
(* The AM's power.                                                         *)

\* The wake line, or any other power-up.
Wake ==
    /\ ~up
    /\ up' = TRUE
    /\ UNCHANGED <<ssm, stored, task, tries, ssmMsgQueue, eventQueue, toSend, ram,
                   xSensorDataReady, faults>>

TurnOff ==
    /\ up' = FALSE
    /\ task' = "idle" /\ tries' = 0
    /\ ssmMsgQueue' = <<>> /\ eventQueue' = <<>> /\ toSend' = <<>>
    /\ xCurrentEntry' = 0 /\ entriesLeftToRequest' = 0 /\ numEntries' = 0
    /\ xSensorDataReady' = FALSE
    /\ UNCHANGED <<ssm, stored>>

AtRest ==
    /\ task = "idle" /\ ~checkIn
    /\ ssmMsgQueue = <<>> /\ eventQueue = <<>> /\ toSend = <<>>

\* xTurnOffCellAndPowerDown, minutes later.
Sleep == up /\ AtRest /\ TurnOff /\ UNCHANGED faults

\* A reset, a power loss, or the allowed time used up, in a transfer.
Cut == up /\ ~AtRest /\ TurnOff /\ Fault

-----------------------------------------------------------------------------
Init ==
    /\ Queue!Init
    /\ checkIn = FALSE
    /\ stored = <<>>
    /\ up = FALSE
    /\ task = "idle" /\ tries = 0
    /\ ssmMsgQueue = <<>> /\ eventQueue = <<>> /\ toSend = <<>>
    /\ xCurrentEntry = 0 /\ entriesLeftToRequest = 0 /\ numEntries = 0
    /\ xSensorDataReady = FALSE
    /\ faults = 0

SpiTask ==
    TakeCommand \/ PollLine \/ Status \/ NumEntries \/ Entry \/ EntryStored
    \/ AttnList \/ AttnAck
EventTask == CheckInActivated \/ StoreEntry \/ SensorDataReady \/ SendCommand

PromptNext ==
    \/ DailyLog \/ SpiTask \/ EventTask \/ RequestLost \/ Wake \/ Sleep \/ Cut

Next == PromptNext \/ ReplyLost

\* Both tasks run, the event manager's sends included; the SSM wakes the AM
\* for a check-in, retries every five minutes, and logs every day, on most of
\* which the AM is off; the AM's time on is limited.
Fairness ==
    /\ WF_vars(SpiTask) /\ WF_vars(EventTask)
    /\ WF_vars(Wake /\ checkIn) /\ WF_vars(Sleep) /\ SF_vars(DailyLog)

Spec == Init /\ [][Next]_vars /\ Fairness

\* An SSM that answers in time what it handles, and that hears one of the
\* MAX_RETRIES attention ACKs.
OrderlyNext ==
    /\ PromptNext
    /\ RequestLost => ~(task = "SEND_ATTN_ACK" /\ tries' = MAX_RETRIES)

OrderlySpec == Init /\ [][OrderlyNext]_vars /\ Fairness

-----------------------------------------------------------------------------
TypeOK ==
    /\ queue \in Seq(0 .. day) /\ Len(queue) <= Size
    /\ day \in 0 .. NumDays
    /\ checkIn \in BOOLEAN /\ up \in BOOLEAN /\ xSensorDataReady \in BOOLEAN
    /\ stored \in Seq(0 .. day)
    /\ task \in Request \cup {"idle", "poll"}
    /\ tries \in 0 .. MAX_RETRIES
    /\ ssmMsgQueue \in Seq(Command) /\ Len(ssmMsgQueue) <= QueueLength
    /\ eventQueue \in Seq({"CHECK_IN_EVT_ACTIVATED", "SENSOR_DATA_MSG_RECEIVED",
                           "SENSOR_DATA_READY"})
    /\ toSend \in Seq(Command)
    /\ xCurrentEntry \in 0 .. day
    /\ entriesLeftToRequest \in 0 .. Size
    /\ numEntries \in 0 .. Size
    /\ faults \in 0 .. NumFaults

(* "let the SSM know that the last requested sensor data log has been      *)
(* stored to flash successfully": a log the SSM gives up for the AM is the *)
(* one the AM stored last, whatever requests were lost, however the two    *)
(* tasks of the AM interleave and wherever the AM is cut off.              *)
OnlyStoredLogsLeave ==
    [][Len(queue') < Len(queue) =>
          /\ stored # <<>>
          /\ Head(queue) = stored[Len(stored)]]_vars

(* Commands to SSM_SPI_Task are dropped when ssmMsgQueue is full.  As long *)
(* as attentions are acknowledged it always has room, although both tasks  *)
(* send to it: no command of a transfer is lost on its way.                *)
RoomForCommands == Len(ssmMsgQueue) < QueueLength

(* SENSOR_DATA_READY: the event manager takes the transfer for finished    *)
(* only when the SSM has no log left.                                      *)
ReadyWhenAllStored == xSensorDataReady => queue = <<>>

(* A log is stored twice only where a failure came between its storing and *)
(* its acknowledgement: failures bound the duplicates.                     *)
FewDuplicates ==
    Len(stored) <= Cardinality({stored[i] : i \in 1 .. Len(stored)}) + faults

(* Transfers cut off are made up for: in the end the SSM holds fewer logs  *)
(* than it waits for to wake the AM.                                       *)
LogsArrive == <>[](Len(queue) < TransmissionRate)
=============================================================================
