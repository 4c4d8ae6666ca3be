--------------------------- MODULE SsmSensorLog ---------------------------
(***************************************************************************)
(* The daily sensor logs of the SSM (the MSP430 sensor board): a circular  *)
(* buffer in EEPROM written by APP_periodic and drained by SPI commands of *)
(* the AM (ssm/src/APP/APP_NVM.c, APP_NVM_Custom.c, APP.c).                *)
(*                                                                         *)
(* The SSM runs one background loop, so its handlers never interleave with *)
(* each other.  Power can fail between any two EEPROM writes, so a handler *)
(* is split at its EEPROM writes: pc names the write that comes next.      *)
(*                                                                         *)
(* A log is an identifier in 1..NumLogs.  A slot whose checksum does not   *)
(* match its data has ok = FALSE.  The 8-bit checksums are taken to detect *)
(* every half-written section; the header (8 bytes on one EEPROM page) is  *)
(* written in one page write except when it is defaulted byte by byte.     *)
(***************************************************************************)
EXTENDS Naturals, Sequences

CONSTANTS
    MAX_SENSOR_DATA_LOGS,   \* ring size (56 in the code)
    NumLogs                 \* bound: how many logs are ever written

ASSUME RingSizeAssumption == MAX_SENSOR_DATA_LOGS \in Nat \ {0}
ASSUME NumLogsAssumption == NumLogs \in Nat

VARIABLES
    hdr,         \* EEPROM: section header, with its checksum verdict
    slot,        \* EEPROM: the entries of the sensor data section
    dev,         \* EEPROM: the fields of Dev_Info that matter here
    SensorDataHdr,      \* RAM copy of the header
    xSensorDataIsFull,  \* RAM full flag
    xCurrentState,      \* RAM high level state
    pc,          \* the EEPROM write the current handler makes next
    cur,         \* identifier of the newest log
    sent         \* the log the AM was sent and may still acknowledge, 0 if none

vars == <<hdr, slot, dev, SensorDataHdr, xSensorDataIsFull, xCurrentState,
          pc, cur, sent>>

Index == 0 .. MAX_SENSOR_DATA_LOGS - 1

\* Mutant of Bump: the index is not wrapped.
BumpUnwrapped(i) == i + 1

\* Head and tail move modulo the ring size.
Bump(i) == (i + 1) % MAX_SENSOR_DATA_LOGS

DefaultHdr == [head |-> 0, tail |-> 0, ok |-> TRUE]

\* Device_Info_Default
DefaultDev == [full |-> FALSE, state |-> "DEACTIVATED", ok |-> TRUE]

Fields(h) == [head |-> h.head, tail |-> h.tail]

-----------------------------------------------------------------------------
(* APP_NVM_Custom_GetSensorDataNumEntries, on the header h and full flag.  *)
NumEntriesOf(h, full) ==
    IF full THEN MAX_SENSOR_DATA_LOGS
    ELSE IF h.head >= h.tail THEN h.head - h.tail
         ELSE (MAX_SENSOR_DATA_LOGS - h.tail) + h.head

NumEntries == NumEntriesOf(hdr, xSensorDataIsFull)

Idle == pc = "idle"

-----------------------------------------------------------------------------
(* The daily log: APP_periodic calls APP_NVM_Custom_LogSensorData while    *)
(* the state is ACTIVATED, then APP_NVM_Custom_GetSensorDataNumEntries,    *)
(* which refreshes SensorDataHdr.                                          *)

\* Mutant of LogHeader: a full ring overwrites its oldest log but the tail
\* stays on that slot.
LogHeaderKeepsTail ==
    /\ Idle
    /\ xCurrentState = "ACTIVATED"
    /\ cur < NumLogs
    /\ hdr' = [hdr EXCEPT !.head = Bump(hdr.head)]
    /\ xSensorDataIsFull' = (xSensorDataIsFull \/ Bump(hdr.head) = hdr.tail)
    /\ cur' = cur + 1
    /\ pc' = "logData"
    /\ UNCHANGED <<slot, dev, SensorDataHdr, xCurrentState, sent>>

\* APP_NVM_UpdateCurrentEntry(.., bump_addr = true): the header is written
\* before the data; a full ring moves its tail with its head.
LogHeader ==
    /\ Idle
    /\ xCurrentState = "ACTIVATED"
    /\ cur < NumLogs
    /\ LET newTail == IF xSensorDataIsFull THEN Bump(hdr.tail) ELSE hdr.tail
           newHead == Bump(hdr.head)
       IN  /\ hdr' = [hdr EXCEPT !.head = newHead, !.tail = newTail]
           /\ xSensorDataIsFull' = (xSensorDataIsFull \/ newHead = newTail)
    /\ cur' = cur + 1
    /\ pc' = "logData"
    /\ UNCHANGED <<slot, dev, SensorDataHdr, xCurrentState, sent>>

\* The slot a log in progress is written to: the one before the new head.
LogSlot == CHOOSE i \in Index : Bump(i) = hdr.head

\* The data block, not yet followed by its checksum byte.
LogData ==
    /\ pc = "logData"
    /\ slot' = [slot EXCEPT ![LogSlot] = [id |-> cur, ok |-> FALSE]]
    /\ pc' = "logSum"
    /\ UNCHANGED <<hdr, dev, SensorDataHdr, xSensorDataIsFull, xCurrentState,
                   cur, sent>>

\* Mutant of LogSum: the header is not re-read after the log.
LogSumNoRefresh ==
    /\ pc = "logSum"
    /\ slot' = [slot EXCEPT ![LogSlot].ok = TRUE]
    /\ pc' = IF xSensorDataIsFull THEN "logDev" ELSE "idle"
    /\ UNCHANGED <<hdr, dev, SensorDataHdr, xSensorDataIsFull, xCurrentState,
                   cur, sent>>

\* The checksum byte.  APP_NVM_Custom_LogSensorData then persists the full
\* flag; otherwise the header is re-read and the handler ends.
LogSum ==
    /\ pc = "logSum"
    /\ slot' = [slot EXCEPT ![LogSlot].ok = TRUE]
    /\ IF xSensorDataIsFull
       THEN /\ pc' = "logDev"
            /\ UNCHANGED SensorDataHdr
       ELSE /\ pc' = "idle"
            /\ SensorDataHdr' = Fields(hdr)
    /\ UNCHANGED <<hdr, dev, xSensorDataIsFull, xCurrentState, cur, sent>>

\* Dev_Info is rewritten with sensorDataBufferFull = true: first its bytes,
\* whose old checksum is wrong if the flag changed, then its checksum.
LogDev ==
    /\ pc = "logDev"
    /\ dev' = [dev EXCEPT !.full = TRUE, !.ok = dev.full]
    /\ pc' = "logDevSum"
    /\ UNCHANGED <<hdr, slot, SensorDataHdr, xSensorDataIsFull, xCurrentState,
                   cur, sent>>

LogDevSum ==
    /\ pc = "logDevSum"
    /\ dev' = [dev EXCEPT !.ok = TRUE]
    /\ SensorDataHdr' = Fields(hdr)
    /\ pc' = "idle"
    /\ UNCHANGED <<hdr, slot, xSensorDataIsFull, xCurrentState, cur, sent>>

-----------------------------------------------------------------------------
(* Commands of the AM.                                                     *)

\* ASP_HandleGetSensorDataMsg / APP_NVM_GetSensorData: the entry at the tail
\* is sent, or the request is NACKed when there is none.  Either way
\* GetSensorDataNumEntries has re-read the header.
GetSensorData ==
    /\ Idle
    /\ SensorDataHdr' = Fields(hdr)
    /\ sent' = IF NumEntries = 0 THEN 0 ELSE slot[hdr.tail].id
    /\ UNCHANGED <<hdr, slot, dev, xSensorDataIsFull, xCurrentState, pc, cur>>

\* CMD_GET_ENTRIES_IN_LOG: the count is sent, and the header re-read for it.
GetEntriesInLog ==
    /\ Idle
    /\ SensorDataHdr' = Fields(hdr)
    /\ UNCHANGED <<hdr, slot, dev, xSensorDataIsFull, xCurrentState, pc, cur,
                   sent>>

\* Mutant of AckFull: only the RAM flag is cleared.
AckFullRamOnly ==
    /\ Idle
    /\ xSensorDataIsFull
    /\ xSensorDataIsFull' = FALSE
    /\ pc' = "ackDevSum"
    /\ UNCHANGED <<hdr, slot, dev, SensorDataHdr, xCurrentState, cur, sent>>

\* CMD_INCREMENT_SENSOR_DATA_TAIL / APP_NVM_SensorDataMsgAcked.  It is
\* handled whenever it arrives, whatever was sent before and however many
\* entries there are.  A full ring first persists that it no longer is full.
AckFull ==
    /\ Idle
    /\ xSensorDataIsFull
    /\ xSensorDataIsFull' = FALSE
    /\ dev' = [dev EXCEPT !.full = FALSE, !.ok = ~dev.full]
    /\ pc' = "ackDevSum"
    /\ UNCHANGED <<hdr, slot, SensorDataHdr, xCurrentState, cur, sent>>

AckDevSum ==
    /\ pc = "ackDevSum"
    /\ dev' = [dev EXCEPT !.ok = TRUE]
    /\ pc' = "ackHdr"
    /\ UNCHANGED <<hdr, slot, SensorDataHdr, xSensorDataIsFull, xCurrentState,
                   cur, sent>>

\* The tail is advanced in the RAM copy of the header, which is then written
\* whole: the head in EEPROM becomes the head of the RAM copy.  If the answer
\* reaches the AM it has done with the log, if not it repeats the command.
AckHdr ==
    /\ \/ pc = "ackHdr"
       \/ Idle /\ ~xSensorDataIsFull
    /\ SensorDataHdr' = [SensorDataHdr EXCEPT !.tail = Bump(SensorDataHdr.tail)]
    /\ hdr' = [head |-> SensorDataHdr.head, tail |-> SensorDataHdr'.tail,
               ok |-> TRUE]
    /\ pc' = "idle"
    /\ sent' \in {0, sent}
    /\ UNCHANGED <<slot, dev, xSensorDataIsFull, xCurrentState, cur>>

\* The AM restarts or gives up: it forgets the log and will ask again.
AmRestart ==
    /\ Idle
    /\ sent # 0
    /\ sent' = 0
    /\ UNCHANGED <<hdr, slot, dev, SensorDataHdr, xSensorDataIsFull,
                   xCurrentState, pc, cur>>

\* APP_handleActivateCmd: Dev_Info is rewritten twice (state, date).
Activate ==
    /\ Idle
    /\ xCurrentState # "ACTIVATED"
    /\ xCurrentState' = "ACTIVATED"
    /\ dev' = [dev EXCEPT !.state = "ACTIVATED", !.ok = FALSE]
    /\ pc' = "actDevSum"
    /\ UNCHANGED <<hdr, slot, SensorDataHdr, xSensorDataIsFull, cur, sent>>

ActDevSum ==
    /\ pc = "actDevSum"
    /\ dev' = [dev EXCEPT !.ok = TRUE]
    /\ pc' = "idle"
    /\ UNCHANGED <<hdr, slot, SensorDataHdr, xSensorDataIsFull, xCurrentState,
                   cur, sent>>

\* APP_handleDeactivateCmd: Dev_Info is rewritten (state and dates), then
\* APP_NVM_DefaultSensorDataLogs writes a default header byte by byte.  The
\* RAM copy of the header and the full flag are left as they are.
Deactivate ==
    /\ Idle
    /\ xCurrentState # "DEACTIVATED"
    /\ xCurrentState' = "DEACTIVATED"
    /\ dev' = [dev EXCEPT !.state = "DEACTIVATED", !.ok = FALSE]
    /\ pc' = "deactDevSum"
    /\ UNCHANGED <<hdr, slot, SensorDataHdr, xSensorDataIsFull, cur, sent>>

DeactDevSum ==
    /\ pc = "deactDevSum"
    /\ dev' = [dev EXCEPT !.ok = TRUE]
    /\ pc' = "deactHdr"
    /\ UNCHANGED <<hdr, slot, SensorDataHdr, xSensorDataIsFull, xCurrentState,
                   cur, sent>>

DeactHdr ==
    /\ pc = "deactHdr"
    /\ hdr' = [hdr EXCEPT !.ok = FALSE]
    /\ pc' = "deactHdrSum"
    /\ UNCHANGED <<slot, dev, SensorDataHdr, xSensorDataIsFull, xCurrentState,
                   cur, sent>>

DeactHdrSum ==
    /\ pc = "deactHdrSum"
    /\ hdr' = DefaultHdr
    /\ pc' = "idle"
    /\ UNCHANGED <<slot, dev, SensorDataHdr, xSensorDataIsFull, xCurrentState,
                   cur, sent>>

-----------------------------------------------------------------------------
(* Power loss and boot.                                                    *)

\* The AM has the same battery, and forgets the log it held if it loses
\* power too.
PowerLoss ==
    /\ pc' = "boot"
    /\ sent' \in {0, sent}
    /\ SensorDataHdr' = [head |-> 0, tail |-> 0]
    /\ xSensorDataIsFull' = FALSE
    /\ xCurrentState' = "FAULT"
    /\ UNCHANGED <<hdr, slot, dev, cur>>

\* The entries APP_NVM_GenericCheckData reads.  It runs before the full flag
\* is restored.  When the ring wraps, the second loop starts at the tail
\* again, so the entries before the head are not read.
CheckedEntries(h) ==
    IF h.tail > h.head THEN h.tail .. MAX_SENSOR_DATA_LOGS - 1
    ELSE {i \in Index : h.tail <= i /\ i < h.head}

SectionGood == hdr.ok /\ \A i \in CheckedEntries(hdr) : slot[i].ok

\* APP_NVM_Validate defaults a section that fails its checks.  Only headers
\* and Dev_Info are written, and a second boot after a power loss in here
\* reaches the same result.  Then APP_NVM_Custom_InitDeviceInfo restores the
\* RAM state and rewrites Dev_Info (rtc_time_status, reset state).
Boot ==
    /\ pc = "boot"
    /\ LET d == IF dev.ok THEN dev ELSE DefaultDev
       IN  /\ dev' = [d EXCEPT !.ok = FALSE]
           /\ xSensorDataIsFull' = d.full
           /\ xCurrentState' = d.state
    /\ hdr' = IF SectionGood THEN hdr ELSE DefaultHdr
    /\ SensorDataHdr' = IF hdr.ok THEN Fields(hdr) ELSE SensorDataHdr
    /\ pc' = "bootDevSum"
    /\ UNCHANGED <<slot, cur, sent>>

BootDevSum ==
    /\ pc = "bootDevSum"
    /\ dev' = [dev EXCEPT !.ok = TRUE]
    /\ pc' = "idle"
    /\ UNCHANGED <<hdr, slot, SensorDataHdr, xSensorDataIsFull, xCurrentState,
                   cur, sent>>

-----------------------------------------------------------------------------
\* A board whose EEPROM has just been defaulted (no magic value) and that
\* has started: no entry has a good checksum yet.
Init ==
    /\ hdr = DefaultHdr
    /\ slot = [i \in Index |-> [id |-> 0, ok |-> FALSE]]
    /\ dev = DefaultDev
    /\ SensorDataHdr = [head |-> 0, tail |-> 0]
    /\ xSensorDataIsFull = FALSE
    /\ xCurrentState = "DEACTIVATED"
    /\ pc = "idle"
    /\ cur = 0
    /\ sent = 0

Log == LogHeader \/ LogData \/ LogSum \/ LogDev \/ LogDevSum
Ack == AckFull \/ AckDevSum \/ AckHdr
Activation ==
    Activate \/ ActDevSum \/ Deactivate \/ DeactDevSum \/ DeactHdr \/ DeactHdrSum

Next ==
    \/ Log \/ GetSensorData \/ GetEntriesInLog \/ Ack \/ AmRestart \/ Activation
    \/ PowerLoss \/ Boot \/ BootDevSum

\* An AM that acknowledges, perhaps repeatedly, only a log it was sent,
\* deactivates the SSM only when it has done with it, and loses power when
\* the SSM does.
OrderlyNext ==
    /\ Next
    /\ Ack => sent # 0
    /\ Deactivate => sent = 0
    /\ PowerLoss => sent' = 0

OrderlySpec == Init /\ [][OrderlyNext]_vars
Spec == Init /\ [][Next]_vars

-----------------------------------------------------------------------------
TypeOK ==
    /\ hdr \in [head : Index, tail : Index, ok : BOOLEAN]
    /\ slot \in [Index -> [id : 0 .. NumLogs, ok : BOOLEAN]]
    /\ dev \in [full : BOOLEAN, state : {"ACTIVATED", "DEACTIVATED"},
                ok : BOOLEAN]
    /\ SensorDataHdr \in [head : Index, tail : Index]
    /\ xSensorDataIsFull \in BOOLEAN
    /\ xCurrentState \in {"ACTIVATED", "DEACTIVATED", "FAULT"}
    /\ pc \in {"idle", "logData", "logSum", "logDev", "logDevSum",
               "ackDevSum", "ackHdr", "actDevSum", "deactDevSum", "deactHdr",
               "deactHdrSum", "boot", "bootDevSum"}
    /\ cur \in 0 .. NumLogs
    /\ sent \in 0 .. NumLogs

(* Whenever power may fail, the persisted full flag, if it is set, agrees  *)
(* with the persisted header: a reboot never counts MAX_SENSOR_DATA_LOGS   *)
(* entries in a ring whose head and tail differ.  It rests on the order of *)
(* the writes: a log writes the header before the flag, an acknowledgement *)
(* clears the flag before it moves the tail.                               *)
PersistedFullAgrees == dev.ok /\ dev.full /\ hdr.ok => hdr.head = hdr.tail

(* An acknowledgement writes the whole RAM copy of the header back, so the *)
(* copy must be current whenever the AM may acknowledge: a daily log that  *)
(* comes between a request and its acknowledgement, or between the copies  *)
(* of an acknowledgement that is repeated, must not be undone.             *)
RamHeaderFresh == Idle /\ sent # 0 => SensorDataHdr = Fields(hdr)

-----------------------------------------------------------------------------
(* The board implements SensorQueue.  A log takes effect when the header   *)
(* is written, an acknowledgement when the tail moves.                     *)

Content(i) ==
    IF pc \in {"logData", "logSum"} /\ i = LogSlot THEN cur ELSE slot[i].id

FullView == xSensorDataIsFull \/ pc \in {"ackDevSum", "ackHdr"}

QueueView ==
    [k \in 1 .. NumEntriesOf(hdr, FullView) |->
        Content((hdr.tail + (k - 1)) % MAX_SENSOR_DATA_LOGS)]

Queue == INSTANCE SensorQueue WITH
            Size <- MAX_SENSOR_DATA_LOGS, queue <- QueueView, written <- cur,
            up <- pc # "boot"

(* While the board is powered the ring is a queue: logs leave in the order *)
(* they were written, one per acknowledgement that arrives, repeated ones  *)
(* included, and only a full ring gives up its oldest log.  The one way    *)
(* out of the queue is an acknowledgement of an empty ring (Underrun).     *)
QueueSpec == Queue!Spec
=============================================================================
