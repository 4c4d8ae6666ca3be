---------------------------- MODULE AmSensorLog ----------------------------
(***************************************************************************)
(* The sensor logs the AM (the STM32 board with the modem) keeps in its    *)
(* NAND flash until the cloud has them: a circular buffer used as a LIFO   *)
(* (am/src/handlers/memMapHandler.c), with the event handlers that store,  *)
(* publish, pop and delete logs (am/src/application/eventManager.c).       *)
(*                                                                         *)
(* The handlers run one at a time in the event task.  Power can fail in    *)
(* the middle of any FLASH_write, so a handler is split at its flash       *)
(* writes: pc names the one that comes next, busy the block of the latest. *)
(* FLASH_write erases a whole block and programs it again from the lowest  *)
(* page, and the header lies at the start of the block that holds the      *)
(* logs: a power loss may take a suffix of the logs, or header and logs.   *)
(* Erased flash reads as 16#FF bytes, whose checksum is wrong.             *)
(***************************************************************************)
EXTENDS Naturals, Sequences

CONSTANTS
    MAX_SENSOR_DATA_LOGS,   \* ring size (56 in the code)
    NumLogs                 \* bound: how many logs are ever stored

ASSUME RingSizeAssumption ==
    MAX_SENSOR_DATA_LOGS \in Nat \ {0} /\ MAX_SENSOR_DATA_LOGS < 256
ASSUME NumLogsAssumption == NumLogs \in Nat

VARIABLES
    hdr,        \* flash: section header
    slot,       \* flash: the entries
    cfg,        \* flash: sensorDataBufferFull of the device info section
    sensorDataHdr,      \* RAM copy of the header
    xSensorDataIsFull,  \* RAM full flag
    pc,         \* the flash write the current handler makes next
    busy,       \* the block the latest flash write went to
    cur,        \* identifier of the newest log
    pub         \* the log handed to MQTT and not yet confirmed, 0 if none

vars == <<hdr, slot, cfg, sensorDataHdr, xSensorDataIsFull, pc, busy, cur, pub>>

Index == 0 .. MAX_SENSOR_DATA_LOGS - 1

\* Mutant of Bump: the index is not wrapped.
BumpUnwrapped(i) == i + 1

Bump(i) == (i + 1) % MAX_SENSOR_DATA_LOGS

Prev(i) == (i + MAX_SENSOR_DATA_LOGS - 1) % MAX_SENSOR_DATA_LOGS

DefaultHdr == [head |-> 0, lifoCount |-> 0, ok |-> TRUE]
ErasedHdr == [head |-> 255, lifoCount |-> 255, ok |-> FALSE]
ErasedSlot == [id |-> 0, ok |-> FALSE]

DefaultCfg == [full |-> FALSE, ok |-> TRUE]

Fields(h) == [head |-> h.head, lifoCount |-> h.lifoCount]

Idle == pc = "idle"

-----------------------------------------------------------------------------
(* SENSOR_DATA_MSG_RECEIVED: xPackageAndStoreSensorDataToFlash calls       *)
(* MEM_writeSensorDataLog, then MEM_updateMsgNumber.                       *)

\* xUpdateCurrentEntry: the header is read from flash into a local copy,
\* bumped and written before the data.  lifoCount is a uint8_t.
StoreHdr ==
    /\ Idle
    /\ cur < NumLogs
    /\ LET count == IF xSensorDataIsFull THEN MAX_SENSOR_DATA_LOGS
                    ELSE (hdr.lifoCount + 1) % 256
       IN  /\ hdr' = [head |-> Bump(hdr.head), lifoCount |-> count, ok |-> TRUE]
           /\ xSensorDataIsFull' =
                 (xSensorDataIsFull \/ count = MAX_SENSOR_DATA_LOGS)
    /\ cur' = cur + 1
    /\ pc' = "storeData"
    /\ busy' = "data"
    /\ UNCHANGED <<slot, cfg, sensorDataHdr, pub>>

\* The entry goes to the address the header had before it was bumped.
StoreData ==
    /\ pc = "storeData"
    /\ slot' = [slot EXCEPT ![Prev(hdr.head)] = [id |-> cur, ok |-> TRUE]]
    /\ pc' = "storeCfg"
    /\ busy' = "data"
    /\ UNCHANGED <<hdr, cfg, sensorDataHdr, xSensorDataIsFull, cur, pub>>

\* The device info is written with the full flag if it is set, and then
\* again with the new message number.
StoreCfg ==
    /\ pc = "storeCfg"
    /\ cfg' = [full |-> cfg.full \/ xSensorDataIsFull, ok |-> TRUE]
    /\ pc' = "idle"
    /\ busy' = "cfg"
    /\ UNCHANGED <<hdr, slot, sensorDataHdr, xSensorDataIsFull, cur, pub>>

-----------------------------------------------------------------------------
\* Mutant of SendNewest: the entry below the head is sent whatever the count.
SendNewestUncounted ==
    LET newest == slot[Prev(hdr.head)]
    IN  /\ sensorDataHdr' = Fields(hdr)
        /\ pub' = IF newest.ok THEN newest.id ELSE 0
        /\ pc' = "idle"
        /\ UNCHANGED <<hdr, slot, cfg, xSensorDataIsFull, busy, cur>>

(* xPackageAndSendSensorDataToCloud, called when MQTT is ready and after   *)
(* each pop: the header is read into RAM, and the newest log handed to     *)
(* MQTT.  A log with a bad checksum makes the section default.  An erased  *)
(* header never gets here: it is replaced at boot.                         *)
SendNewest ==
    LET newest == slot[Prev(hdr.head)]
    IN  /\ sensorDataHdr' = Fields(hdr)
        /\ pub' = IF hdr.lifoCount > 0 /\ newest.ok THEN newest.id ELSE 0
        /\ IF hdr.lifoCount > 0 /\ ~newest.ok
           THEN hdr' = DefaultHdr /\ busy' = "data"
           ELSE UNCHANGED <<hdr, busy>>
        /\ pc' = "idle"
        /\ UNCHANGED <<slot, cfg, xSensorDataIsFull, cur>>

\* MQTT_READY after SENSOR_DATA_READY.
MqttReady == Idle /\ pub = 0 /\ SendNewest

\* Mutant of PopHdr: the count is not decremented with the head.
PopHdrKeepsCount ==
    /\ \/ pc = "popHdr"
       \/ Idle /\ pub # 0 /\ ~xSensorDataIsFull
    /\ sensorDataHdr' = [sensorDataHdr EXCEPT !.head = Prev(sensorDataHdr.head)]
    /\ hdr' = [head |-> sensorDataHdr'.head,
               lifoCount |-> sensorDataHdr.lifoCount, ok |-> TRUE]
    /\ pub' = 0
    /\ pc' = "sendNext"
    /\ busy' = "data"
    /\ UNCHANGED <<slot, cfg, xSensorDataIsFull, cur>>

\* Mutant of PopCfg: only the RAM flag is cleared.
PopCfgRamOnly ==
    /\ Idle
    /\ pub # 0
    /\ xSensorDataIsFull
    /\ xSensorDataIsFull' = FALSE
    /\ pc' = "popHdr"
    /\ UNCHANGED <<hdr, slot, cfg, sensorDataHdr, busy, cur, pub>>

\* SENSOR_DATA_PUBLISH_SUCCESS: MEM_updateSensorDataHeadAndLifoCount.  A full
\* ring first persists that it no longer is full.
PopCfg ==
    /\ Idle
    /\ pub # 0
    /\ xSensorDataIsFull
    /\ xSensorDataIsFull' = FALSE
    /\ cfg' = [full |-> FALSE, ok |-> TRUE]
    /\ pc' = "popHdr"
    /\ busy' = "cfg"
    /\ UNCHANGED <<hdr, slot, sensorDataHdr, cur, pub>>

\* Head and count move in the RAM copy, which is written whole.  The count
\* is a uint8_t that is decremented without a test for zero.
PopHdr ==
    /\ \/ pc = "popHdr"
       \/ Idle /\ pub # 0 /\ ~xSensorDataIsFull
    /\ sensorDataHdr' = [head |-> Prev(sensorDataHdr.head),
                         lifoCount |-> (sensorDataHdr.lifoCount + 255) % 256]
    /\ hdr' = [head |-> sensorDataHdr'.head,
               lifoCount |-> sensorDataHdr'.lifoCount, ok |-> TRUE]
    /\ pub' = 0
    /\ pc' = "sendNext"
    /\ busy' = "data"
    /\ UNCHANGED <<slot, cfg, xSensorDataIsFull, cur>>

\* The same handler goes on with the next log.
SendNext == pc = "sendNext" /\ SendNewest

\* The broker does not confirm: no event, the log stays.
PublishFails ==
    /\ Idle
    /\ pub # 0
    /\ pub' = 0
    /\ UNCHANGED <<hdr, slot, cfg, sensorDataHdr, xSensorDataIsFull, pc, busy, cur>>

\* DEACTIVATE_EVT: xHandleDeactivate defaults the header of the section (it
\* has no default entries), not the full flag nor the RAM copy ...
Deactivate ==
    /\ Idle
    /\ hdr' = DefaultHdr
    /\ pc' = "deactCfg"
    /\ busy' = "data"
    /\ UNCHANGED <<slot, cfg, sensorDataHdr, xSensorDataIsFull, cur, pub>>

\* ... and rewrites the device info without its GPS location.
DeactCfg ==
    /\ pc = "deactCfg"
    /\ pc' = "idle"
    /\ busy' = "cfg"
    /\ UNCHANGED <<hdr, slot, cfg, sensorDataHdr, xSensorDataIsFull, cur, pub>>

-----------------------------------------------------------------------------
(* Power loss, in the middle of the latest flash write or after it: the    *)
(* first keep entries of a data block survive, and the header if any does. *)
PowerLoss ==
    /\ \E keep \in 0 .. MAX_SENSOR_DATA_LOGS :
          IF busy = "data"
          THEN /\ slot' = [i \in Index |-> IF i < keep THEN slot[i] ELSE ErasedSlot]
               /\ hdr' = IF keep = 0 THEN ErasedHdr ELSE hdr
          ELSE UNCHANGED <<slot, hdr>>
    /\ \/ UNCHANGED cfg
       \/ busy = "cfg" /\ cfg' = [full |-> FALSE, ok |-> FALSE]
    /\ pc' = "boot"
    /\ busy' = "none"
    /\ pub' = 0
    /\ UNCHANGED <<sensorDataHdr, xSensorDataIsFull, cur>>

\* MEM_init: xReadConfigs defaults a bad device info, and writes it with its
\* reset count; xReadSensorDataHeader defaults a bad header in flash, while
\* RAM keeps what was read.  The full flag comes from the device info.
Boot ==
    /\ pc = "boot"
    /\ cfg' = IF cfg.ok THEN cfg ELSE DefaultCfg
    /\ xSensorDataIsFull' = cfg'.full
    /\ sensorDataHdr' = Fields(hdr)
    /\ hdr' = IF hdr.ok THEN hdr ELSE DefaultHdr
    /\ pc' = "idle"
    /\ busy' = "cfg"
    /\ UNCHANGED <<slot, cur, pub>>

-----------------------------------------------------------------------------
\* Flash that xDefaultAllSections has just written, after a start.
Init ==
    /\ hdr = DefaultHdr
    /\ slot = [i \in Index |-> ErasedSlot]
    /\ cfg = DefaultCfg
    /\ sensorDataHdr = Fields(DefaultHdr)
    /\ xSensorDataIsFull = FALSE
    /\ pc = "idle"
    /\ busy = "none"
    /\ cur = 0
    /\ pub = 0

Store == StoreHdr \/ StoreData \/ StoreCfg
Publish == MqttReady \/ PopCfg \/ PopHdr \/ SendNext \/ PublishFails

Next == Store \/ Publish \/ Deactivate \/ DeactCfg \/ PowerLoss \/ Boot

\* An AM in which no log arrives and no deactivation happens while a publish
\* is outstanding, and that is neither deactivated nor loses power while the
\* ring is full.
OrderlyNext ==
    /\ Next
    /\ StoreHdr => pub = 0
    /\ Deactivate => pub = 0 /\ ~xSensorDataIsFull
    /\ PowerLoss => hdr.lifoCount < MAX_SENSOR_DATA_LOGS

OrderlySpec == Init /\ [][OrderlyNext]_vars
Spec == Init /\ [][Next]_vars

-----------------------------------------------------------------------------
ValidHdr == [head : Index, lifoCount : 0 .. 255, ok : {TRUE}]

TypeOK ==
    /\ hdr \in ValidHdr \/ hdr = ErasedHdr
    /\ slot \in [Index -> [id : 0 .. NumLogs, ok : BOOLEAN]]
    /\ cfg \in [full : BOOLEAN, ok : BOOLEAN]
    /\ sensorDataHdr \in [head : 0 .. 255, lifoCount : 0 .. 255]
    /\ xSensorDataIsFull \in BOOLEAN
    /\ pc \in {"idle", "storeData", "storeCfg", "popHdr", "sendNext",
               "deactCfg", "boot"}
    /\ busy \in {"none", "data", "cfg"}
    /\ cur \in 0 .. NumLogs
    /\ pub \in 0 .. NumLogs

(* The 8-bit count is decremented without a guard: whenever the AM may pop *)
(* (a publish is outstanding, or a pop in progress) the RAM copy of the    *)
(* count is positive, whatever was stored, deleted or lost in between.     *)
PopNeverUnderflows ==
    pub # 0 => sensorDataHdr.lifoCount > 0 /\ sensorDataHdr.head \in Index

(* Whenever power may fail, a persisted full flag stands beside a header   *)
(* that counts a full ring, or one a deactivation has defaulted: a store   *)
(* writes the header before the flag, a pop clears the flag first.         *)
PersistedFullAgrees ==
    cfg.ok /\ cfg.full /\ hdr.ok => hdr.lifoCount \in {0, MAX_SENSOR_DATA_LOGS}

-----------------------------------------------------------------------------
(* The stack the flash holds: the lifoCount entries below the head.  A log *)
(* being stored counts from the write of its header.                       *)
Content(i) == IF pc = "storeData" /\ i = Prev(hdr.head) THEN cur ELSE slot[i].id

StackView ==
    [k \in 1 .. IF hdr.ok THEN hdr.lifoCount ELSE 0 |->
        Content((hdr.head + 2 * MAX_SENSOR_DATA_LOGS - 1 - (hdr.lifoCount - k))
                % MAX_SENSOR_DATA_LOGS)]

Stack == INSTANCE SensorStack WITH
            Size <- MAX_SENSOR_DATA_LOGS, stack <- StackView, stored <- cur,
            up <- pc # "boot"

(* Used in an orderly way the ring is a stack: the newest log is published *)
(* and popped first, and only a full ring gives up its oldest log.         *)
StackSpec == Stack!Spec
=============================================================================
