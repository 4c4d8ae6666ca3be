# India Mark II sensor: TLA+ models and proofs

These modules model the firmware under `src/Firmware`: what it keeps in
non-volatile memory, how its two boards exchange it, and which firmware image
runs after updates and failures. TLC checks them on small instances; TLAPS
proves some of their invariants for every size. All paths below are relative to
`src/Firmware`.

## 1. The system

The sensor sits on a hand pump and has two processors.

* The **SSM** (MSP430, `ssm/`) is always on. It measures water, keeps one log a
  day in EEPROM, and wakes the other board when there is something to send. It
  runs one background loop (`APP_periodic` and the drivers' periodic
  functions), so its handlers never interleave with each other.
* The **AM** (STM32 with a cell modem, `am/`) is switched on by the SSM for
  minutes. It runs FreeRTOS tasks: the event manager, SSM_SPI_Task, MQTT, GPS,
  OTA download, connectivity, the task monitor. It asks the SSM for its logs,
  stores them in NAND flash, publishes them over MQTT and executes cloud jobs.
* The **bootloader** of the AM (`amBootloader/`) chooses the firmware image at
  every reset.

They share the ASP protocol over SPI (`shared/asp`), a wake line the SSM raises,
and the SSM's boot pin, which the AM uses to program the SSM.

| component | state | operations | interacts with | hard behaviour | correct when |
|---|---|---|---|---|---|
| SSM sensor log (`APP_NVM.c`, `APP_NVM_Custom.c`) | EEPROM header, entries, Dev_Info; RAM header, full flag, state | log, read, acknowledge, activate, deactivate, validate at boot | SSM loop, ASP handlers | power loss between EEPROM writes, stale RAM header, wrap and overwrite | a queue: no log lost but the oldest of a full ring |
| SSM application (`APP.c`) | attention sources, timers, error bits, state | periodic, attention list and ACK, commands | wake line, ASP | retries every five minutes, ACK racing a new source, fault flow | every source is handled, the AM is woken again until it answers |
| SSM algorithms (`APP_ALGO.c`, `APP_WTR.c`) | filters, hourly volumes | run on samples | SSM application | numeric | (not modelled) |
| ASP (`shared/asp`) | receive state, buffers | frame, check, dispatch, ACK or NACK | SPI drivers | garbled and late frames, ISR against loop | a message is handled at most once, its answer is its own |
| SSM driver of the AM (`device-drivers/ssm.c`) | command queue, entries left, current entry | one request at a time, retries, attention list | event manager, ASP | lost or late answers, non-idempotent commands | a log leaves the SSM only after it was stored |
| AM memory map (`memMapHandler.c`) | device info, log header and entries, image registry, RAM copies | store, pop, default, registry writes | flash handler, most tasks | power loss in a block rewrite, uint8 count, tasks | a stack of logs; registry and images agree |
| Flash handler (`flashHandler.c`) | NAND blocks, one block buffer | read, read-modify-write | all tasks | the shared buffer | a write replaces its own bytes only |
| Event manager (`eventManager.c`) | event queue, "ready" flags, time on | one handler per event | all AM parts | order of events from several tasks | logs published once, power-down in time |
| MQTT and jobs (`mqttHandler.c`) | operation flags, payload buffer | publish, subscribe, job updates | event manager, AWS SDK | callbacks, reconnects | a confirmed publish is the one handed over |
| OTA (`otaUpdate.c`, `updateSsmFw.c`) | download state, CRCs, slots | download, check, register, program the SSM | flash, registry, event manager | cut-off downloads, order of registry writes | the running image survives |
| Bootloader (`bootloader.c`, `updateFw.c`, `manufacturing.c`) | cache in RAM, registry, internal flash | cases 1 to 19, load a slot | registry | torn internal flash, reset loops | a working image runs again |
| Application start (`am/src/main.c`) | registry, reset count | verify SSM, update registry, roll back | bootloader cache | second tries, fallback | AM and SSM images belong together |
| Connectivity, NTP, GPS, power manager, task monitor | timers, retries, flags | connect, get time, fix, standby, check-in | event manager | timeouts | each ends, one way or the other |

Vendored and generated code (HAL, CMSIS, FreeRTOS, lwIP, AWS SDK, driverlib,
CapTIvate, nanopb output, MATLAB-generated filters), drivers that only touch
registers, loggers and command lines are left out.

## 2. Modules

| module | models | composes |
|---|---|---|
| `SensorQueue` | abstract: what the SSM's log promises | |
| `SsmSensorLog` | `APP_NVM.c`, `APP_NVM_Custom.c`, the daily log and log commands of `APP.c` | implements `SensorQueue` |
| `SensorStack` | abstract: what the AM's log promises | |
| `AmSensorLog` | log part of `memMapHandler.c`, the event handlers that use it | implements `SensorStack` |
| `FlashHandler` | `flashHandler.c` under several tasks, `xMemMapMutex` | |
| `FwImages` | bootloader, start of the application, image registry | |
| `OtaCopy` | abstract: what a download promises | |
| `OtaDownload` | reassembly of a package in `otaUpdate.c` | implements `OtaCopy` |
| `SsmAttention` | `APP.c`: attention sources, errors, fault flow; `ssm.c`: attention handling | |
| `LogTransfer` | `ssm.c`, event manager and SSM during a transfer | takes `SensorQueue` as the SSM |
| `AmSession` | `eventManager.c`, `mqttHandler.c`, parts of `gpsManager.c` and `connectivity.c` in one session | |
| `SsmSensorLogProofs`, `AmSensorLogProofs`, `FlashHandlerProofs`, `FwImagesProofs`, `OtaDownloadProofs`, `SsmAttentionProofs`, `LogTransferProofs`, `AmSessionProofs` | theorems about the module they extend | |
| `MC*` | the instances TLC checks | |

An operator whose comment begins "Mutant of" is a plausible bug in the operator
after it. Nothing uses it; it is kept to show that a property can tell the two
apart.

Several modules have a `Spec` with everything the code allows and an
`OrderlySpec` that leaves out named overlaps. The sections below say which, and
what TLC shows without the restriction.

### SsmSensorLog

`hdr`, `slot`, `dev` are the EEPROM; `SensorDataHdr`, `xSensorDataIsFull`,
`xCurrentState` the RAM. A handler is cut at its EEPROM writes and `pc` names
the next one, so `PowerLoss` can come between any two: a log writes the header
(`LogHeader`), the data (`LogData`), the checksum (`LogSum`) and, if the ring is
full, Dev_Info (`LogDev`, `LogDevSum`). The other handlers cannot start before
`pc` is back at "idle", because the SSM has one loop. `Boot` is
`APP_NVM_Validate` with `APP_NVM_Custom_InitDeviceInfo`: sections with bad
checksums are defaulted. A section half written has `ok = FALSE`, which assumes
that the 8-bit checksum finds every such case.

The AM may repeat an acknowledgement (its answer may be lost) and `Spec` lets it
do anything, an acknowledgement of nothing included: the handler looks at no
head. `OrderlySpec` excludes three things: an acknowledgement before the AM was
sent a log, a deactivation while the AM holds an unacknowledged log, and an AM
that survives a power loss of the SSM with such a log. In each an
acknowledgement would hit a header it does not belong to. Repeated
acknowledgements are not excluded. One that comes to an empty ring moves the
tail past the head, and the ring then appears to hold entries in all places but
one: that is the step `Underrun` of `SensorQueue`, so `QueueSpec` promises one
log per acknowledgement that arrives, not per log the AM has stored. What a
repetition costs is the subject of `LogTransfer`. Also, a deactivation does not
do all that its comment, "clear sensor logs" (`APP.c:678`), says: with a full
ring it leaves the full flag, and the old logs can be read again.

### AmSensorLog

The NAND block with header and logs is erased and rewritten by every write, from
the lowest page, so a power loss leaves a prefix of it (`PowerLoss`, with `busy`
naming the block). `StoreHdr`, `StoreData`, `StoreCfg` are
`xUpdateCurrentEntry` and `MEM_updateMsgNumber`; `SendNewest` is
`xPackageAndSendSensorDataToCloud`; `PopCfg`, `PopHdr` are
`MEM_updateSensorDataHeadAndLifoCount`, after which the next log is sent at
once. `OrderlySpec` excludes a log that arrives, or a deactivation, while a
publish is outstanding, and power losses and deactivations while the ring is
full. The first is needed because the pop (`memMapHandler.c:648`) removes the
newest log, whichever was published: a log stored during the publish is removed
unsent and the published one is sent again. The last is needed for `StackSpec`:
the full flag may then be ahead of, or behind, the header. The theorems do not
need `OrderlySpec`. A lost magic value, the cloud's reset job and the other
fields of the device info are left out.

### FlashHandler

One page is the unit of data. A write is the walk that fills `blockBuffer`, the
erase, and the walk that programs; a read is one page into the buffer and a copy
out of it. A task makes each call under `xMemMapMutex` or without it, as in the
code: `xReadCurrentEntry` and `xUpdateCurrentEntry` hold the mutex, the reads and
pops of the sensor log (`memMapHandler.c:613`, `654`), the section defaults
(`684`-`712`), the OTA download (`otaUpdate.c:407`, `546`, `671`) and the SSM
programming (`updateSsmFw.c:213`, `266`) do not. `overlapped` is a history: the
tasks whose present call overlapped one of another task, one of the two without
the mutex.

So the two safety properties are of every mixture of calls, and say which calls
can be relied on: those that overlap none, or only calls under the mutex while
holding it themselves. The others do interfere: a write is said to
replace "only LEN bytes" (`flashHandler.c:81`), but if a call without the mutex
comes between the fill of the buffer and the programming of the block, it programs
its block with pages that the other task has put into the buffer. TLC finds this
in eight steps if overlapped writes are judged too, and a read of a wrong page in
seven if overlapped reads are. A block that fails to erase
or program and writes across blocks are not modelled.

### FwImages

An image is its version or `Broken`. `Decide` is the bootloader's choice, case
by case as in `bootloader.c`; `BootErase` and `BootProgram` split the load, so
that power can fail in between. `AppStart` to `RollSsm` are `MEM_init`,
`xCacheAndAppInit` and `xVerifySsmAppIsRunning`, one action per flash write or
SSM programming; `DownloadAm` to `OtaRollSsm` the download and
`xOtaFwDownloadSuccessful`. The registry is one flash write at a time, and a
power loss right after a write may destroy it (`valid`).

Programming the SSM erases it first (`EraseSsm`, the wrong password at
`updateSsmFw.c:95`), so that a reset or power loss may leave it blank. A blank SSM
wakes nobody: `PowerUp` needs one that runs. Then nobody kicks the external
watchdog either once the AM is in standby or hangs: it is kicked by the SSM, or by
the AM's TIM2 while it expects none ("start kicking the watchdog in the event that
the SSM is in the weeds", `main.c:182`; "take over the watchdog kick",
`eventManager.c:1403`), and it cuts the supply of the board (the schematic
`Electrical/TTS0108-05.pdf`: the TPS3823 is fed by either processor and opens the
load switch). That is `WatchdogCycle`. Inside `xCacheAndAppInit` only power losses
come between the flash writes, not hangs.

The AM record of a download is in its slot, complete and loadable, from the
write at `otaUpdate.c:546` on (`DownloadSsm`), under the operational state and
version of the image it replaced, until the SSM record has come and the registry
is written (`DownloadGood`, `SetVersion`, `SetPrimary`). Standby, resets, power
losses and a packet out of place (`DownloadBail`) may end the download anywhere.

The specifications differ in what they leave out:

* `KeptSpec`: the cloud sends no version that runs or that the other slot holds,
  for the code finds "its" slot by version; and power losses do not destroy the
  registry.
* `WholeSpec`: the same of the cloud, registries may be lost, but nothing comes
  between the end of an AM record and the registry writes for it.
* `SafeSpec`: both.

What these leave out matters, and TLC finds without:

* A download overwrites the running image. That is the run `FwHalfDownload`, with
  `KeptSpec` and one fault: a rollback whose SSM programming fails leaves slot A
  primary while B runs, a download into A is cut off after its AM record, the
  bootloader loads it, and the next download, finding B loaded in the registry,
  goes over A.
* The same happens after a registry that was lost and defaulted, in which the slot
  in use is unknown (`otaUpdate.c:175`). So `RunningImageKept` is of `SafeSpec`,
  and demands there that the slot of the running image is known.
* A torn internal flash may be started for ever, with `KeptSpec`: after a cut in
  the part of a download that `WholeSpec` keeps whole, the bootloader takes the
  slot it loaded last from a version that is not the image's, and after a power
  loss in a later load finds nothing to load. `BrokenFlashIsReloaded` and
  `RunsAgain` are of `WholeSpec`.
* The SSM does not always get the image of the primary slot: a rollback to slot A
  whose first programming fails programs image B in its second try (`main.c:464`).
  No property says that it does.

### OtaCopy and OtaDownload

A byte is `<<package, place>>`, so what is where it should be can be compared
without any payload. TCP delivers packets of any length (`Packet`);
`FirstPacket`, `Inside`, `CrossOver` and `RestOfHeader` are the states of
`RecvImageBytesCallback`, with what it does to `nextFlashWriteBuffer` and the
flash. `odd` is a history of what the code was not written for: an SSM header in
two packets, a packet of more than three pbufs or longer than a page, and a
second download without a reset. Such a download may follow any that failed,
with the static variables as that one left them: state, counts, buffer and CRCs,
and the bytes of refused packages that `tempBufferIdx` still counts (`stale`),
which come between the packet and what is copied. After "complete" the AM
programs the SSM and resets, so no download follows.

`OtaCopy` says that the bytes that have arrived are in their half of the slot,
headers stripped, and that a good package, and no other, is complete. When
something odd has come it promises only that complete means complete: the CRCs
must catch the rest. One odd thing is said to work, "wait for the next chunk and
then process this edge case" (`otaUpdate.c:586`), and does not: of an SSM header
in two packets the missing bytes are copied from the second pbuf, and none is
skipped (`otaUpdate.c:596`), so a good package is refused. A first packet too
short for the version and the HTTP exchange are not modelled.

### SsmAttention

`app` has the state variables of `APP.c`. Its functions are operators on that
record, composed as the code calls them: one `Periodic` is a round of
`APP_periodic`, with the duties of a day (log, time request, check-in) or
without. The unit of time is five minutes, which the waits for the AM, for
recovery and in FAULT are one or four of; a round may or may not let one pass.
`GetAttnList`, `Ack` and the event actions are the AM: off, idle, owing an ACK
or hung, with the events it has yet to handle. `Cut`, `Hang`, `SsmReset`,
`AckLost`, `AckAnswerLost`, `CommandLost`, `HwReset` and `Deactivate` draw on
one bound, `NumFaults`. The ACK handler ANDs the start of the received message,
which is zero, into the list (`HandleAttnSourceAck`), so an ACK wipes sources
raised after the list was read: `LogsAreCollected` and `TimeComes` say that they
come back.

`OrderlySpec` excludes one thing: an AM that hangs while an activation may be
pending is not noticed, because each round restarts the wait. That is the run
`AttentionSilentAm`.

### LogTransfer

SSM_SPI_Task (`task`, `tries`), the event manager (`toSend`), their queues, and
the SSM reduced to `SensorQueue` with its check-in. Requests may be lost
(`RequestLost`) or handled and answered late (`ReplyLost`); each is tried
`MAX_RETRIES` times. `Cut` is a reset, power loss or timeout in a transfer.
`OrderlySpec` has no late answers and an SSM that hears one of three attention
ACKs; `Spec` has late answers.

### AmSession

From the wake by the SSM to standby. A handler of the event manager changes `em`
and leaves a `script`: the messages for the MQTT task and the flash writes it
still makes, worked off one at a time (`Queue`, `SetGpsSent`, `Reset`), because
other tasks of the same priority run in between. `mqtt` is the MQTT task's RAM
with the job in hand, `buf` what the shared payload buffer was last encoded for.
The cloud creates jobs, answers start-next and job updates, or loses or refuses
them. GPS, cell, log transfer and download are what posts their events
(`OtherTasks`). `outcome` records what became of the latest execution of a job,
also after its report: an UPDATE is "begun" when it is reported as SUCCEEDED,
which is before the SSM is programmed (`eventManager.c:1410`), and becomes
"pass" at the reset into the new image, or "undone" when the SSM takes none and
both processors stay with, or go back to, the old one (`Reset`). The report then
stays. Nothing in the repository says what SUCCEEDED means of an update, so
`ReportedAsDone` asks of it only that the image was downloaded and checked; and
of a hardware reset whose ACK was lost it allows FAILED ("unseen"). A job of
type RESET is marked as in progress and handed to nobody (`HandedOn`,
`mqttHandler.c:404`), so it is never reported and no further job is fetched in
the session.

Reduced: the time limit may strike at any moment (`TimeIsUp`); a power-down is
one step; a reset comes after a second in which the report is taken; a cloud job
"NONE" is also one that is queued. The manufacturing timer, the NTP events and
the image state of a firmware job are left out (`FwImages` has the last).

`OrderlySpec` excludes three overlaps, and TLC finds without them:

* A GPS fix while something under way will still ask for jobs. If the answer to
  the last start-next request is on its way when the fix is found, the GPS
  message is queued, the flag that it was sent is written, and then MQTT_NO_JOBS
  powers the AM down: the fix is not published, and not tried again.
* A second attention that starts the cell within one session. After
  MQTT_NO_JOBS has been posted for the first one, the AM goes down with the work
  of the second undone.
* A flash write of the sent flag that ends before the MQTT queue is empty, so
  that the AM may power down with the message still in it.

## 3. What the runs show

| run | expects | bounds | shows |
|---|---|---|---|
| `SsmLog` | pass | ring of 3, 8 logs | `QueueSpec`: the ring implements `SensorQueue` through wraps, overwrites, acknowledgements and power losses at every write; `PersistedFullAgrees`: a reboot never takes a partly filled ring for a full one; `RamHeaderFresh`: an acknowledgement, the first or a repeated one, never writes a stale header back |
| `AmLog` | pass | ring of 3, 8 logs | `StackSpec`: the ring implements `SensorStack`; `PopNeverUnderflows`; `PersistedFullAgrees` |
| `FlashTasks` | pass | 2 tasks, 2 blocks of 2 pages, one content | `OnlyReplacesItsData`, `ReadsWhatWasWritten`: calls under the mutex are not disturbed by each other, nor by what calls without it left; `CallsEnd` |
| `FwImages` | pass | `WholeSpec`, 3 versions, 3 downloads, 5 faults | `BrokenFlashIsReloaded`, `RunsAgain`, `SsmReprogrammed` |
| `FwResetting` | pass | `SafeSpec`, 3 versions, 3 downloads, 1 fault | `ResettingImageAbandoned`: an image that resets at start is abandoned; `RunningImageKept` |
| `FwHalfDownload` | violation | `KeptSpec`, 3 versions, 3 downloads, 1 fault | a download overwrites the running image, against the comment at `otaUpdate.c:173` |
| `Transfer` | pass | SSM queue of 3, rate 2, 3 tries, command queue of 3, 5 days, 3 faults | `OnlyStoredLogsLeave`, `ReadyWhenAllStored`, `RoomForCommands`, `FewDuplicates`, `LogsArrive` |
| `TransferLateReply` | violation | same, with late answers | a repeated acknowledgement drops a log that was not stored |
| `Attention` | pass | recovery of 4 units, 2 units between duties, 1 fault | `PendingKeepsWaking`, `AmErrorMeansWaiting`, `PowerCycledOnlyIfBroken`; `HungAmIsReset`, `LogsAreCollected`, `UseActivates`, `TimeComes` |
| `AttentionSilentAm` | violation | same, with an AM that hangs at any time | `APP.c:285` restarts the wait in every round while an activation is pending, so `AM_NOT_RESPONSIVE` is never raised, and the system not power cycled as the comment at `APP.c:359` says |
| `Session` | pass | 2 jobs, 1 wake, 1 attention, 1 log, 1 loss, event queue of 2 | `PublishesWhatWasQueued`, `OneJobAtATime`, `ReportedAsDone`, `NoJobsMeansDone`, `SessionEnds` |
| `Ota` | pass | header 3, records 6 and 5, page 4, buffer 5, 2 downloads, 4 stale bytes | `CopiesFile`: the callback implements `OtaCopy`; `BufferFits` |

Why the bounds are enough.

* A ring of three has an empty, a partly filled, a full and an overwritten state
  with head before, at and behind tail; eight logs let it go round twice with
  acknowledgements in between.
* Two tasks and two pages show every overlap of two flash calls, because a call
  walks the pages one by one.
* A page of one content is enough, because it is compared with an erased one and
  pages of both blocks are told apart by what was written to them last.
* Three downloads fill both slots and overwrite one of them; five faults allow a
  failed update, a failed rollback and power losses in the recovery. A start
  limit of one (ten in the code) makes reset loops short.
  `MAX_RESETS_SINCE_LP_MODE` (30 in the code) is 2 in `FwImages`, so that its
  fallback is taken, and 6 in `FwResetting`, so that it is not: when it is
  reached, a running image that is good may be marked FAILED, and an update that
  resets at its start then has nothing to fall back to.
* Five days with a queue of three overflow it, and three faults use up all tries
  or all chances to transfer but the last.
* In `Attention` four units are the code's twenty minutes; a duty every few
  units lets errors, duties and retries overlap, and one fault is enough to lose
  an ACK, hang the AM or reset either side at any point.
* In `Session` the first job is of any type and the second a configuration, so
  every handler meets a following job. An event queue of two (ten in the code)
  overflows. Larger instances found no error either: two wakes and two
  attentions with one job (1.5 million states), two jobs of any type
  (0.8 million), two wakes with both jobs (0.6 million).
* In `Ota` packets of one byte to one more than a page put each boundary of the
  package at every place of a packet and of the buffer, which is flushed in
  the middle of each record. One packet of a download is not taken in whole.
  Four stale bytes are a whole refused packet. Three downloads (8 million states)
  found no error either.

### Fairness

* `FlashHandler`: weak fairness of each task's steps. The tasks have one
  priority and are time-sliced; a mutex wait ends by itself after 6000 ticks.
* `FwImages`: weak fairness of boot, start and update steps (the processor goes
  on), of `PowerUp \/ WatchdogCycle` (an SSM that runs wakes the AM at the latest
  for its check-in, and power cycles one that does not answer; beside one that is
  blank the external watchdog cycles the board, see section 2) and of `Sleep` (the
  AM's allowed time is limited, `xAllowedTimeOn`). The window watchdog is not
  counted on: `TM_initialize` is never called, so it is never started.
* `LogTransfer`: weak fairness of the two tasks, of waking for a check-in (the
  SSM retries every five minutes, `APP.c:360`) and of the power-down; strong
  fairness of the daily log, because the AM is off on most of the day. Failures
  are never fair, and none hits the last day: `LogsArrive` says that transfers
  recover when failures stop.
* `SsmAttention`: weak fairness of a round in which time passes and strong
  fairness of one with the day's duties (the SSM is always on). Strong fairness
  of `Wake \/ Answers`, because the AM that is up polls the line, and of
  `Handles`, because an event of a session may be cut off but not for ever:
  faults are bounded.
* `AmSession`: weak fairness of the event manager's loop, of its time limit, of
  the MQTT task and of the bootloader. Cloud, broker, GPS and cell are not fair:
  `SessionEnds` holds even if they never answer.
* `OtaDownload` has none: its questions are of safety.

### Deadlock

It is checked in all runs but `Session`, where the AM rests in standby when its
wakes are used up.

## 4. What is proved

`SsmSensorLogProofs`, for every ring size and number of logs:

* `TypeCorrect`: `Spec => []TypeOK`. One step per action; `LogSlot` needs that
  `Bump` is onto (`BumpOnto`).
* `FullFlagSurvivesPowerLoss`: `Spec => []PersistedFullAgrees`. The property is
  not inductive: it says nothing of the RAM flag from which Dev_Info is written.
  `FullFlagInv` adds what the RAM flag means in each phase of a log and of an
  acknowledgement, up to the write that makes the persisted flag agree.
* `AckWritesFreshHeader`: `OrderlySpec => []RamHeaderFresh`, for repeated
  acknowledgements too. `FreshInv` adds that the copy may lag only in the middle
  of a log or after a reboot or deactivation, when no log is unacknowledged. It
  does not hold of `Spec`: a deactivation or reboot between a request and its
  acknowledgement leaves the RAM header behind.
* `QueueImplemented`: `OrderlySpec => QueueSpec`, the refinement of
  `SensorQueue`. The queue a ring stands for is a function of its contents, its
  tail and its count (`View`), and what can be done to it are lemmas of their
  own, without the model's variables: a log at the head is appended
  (`ViewAppends`), a moved tail takes the oldest log off (`ViewLeaves`), and a
  ring that stays full while its cursors go to slot 0 is rotated (`ViewRotates`,
  what a deactivation may do). `QueueInv` adds to the invariants above what the
  header, the slot being written and the AM hold between two writes. The header
  write of a log is `Push`, that of an acknowledgement `Pop`, or `Underrun` if
  the ring is empty, the end of a deactivation `Clear` or `Rotate`; every other
  step with power leaves the view as it was (`StuttersKept`). Of a power loss
  `SensorQueue` asks no more than that at most a ring of logs is left.

`AmSensorLogProofs`, for every ring size below 256:

* `TypeCorrect`, `PopIsSafe` (`Spec => []PopNeverUnderflows`) and
  `FullFlagSurvivesPowerLoss`, all from one inductive invariant `LogInv`, which
  relates the RAM header, the header in flash and the outstanding publish in
  each phase. `PopIsSafe` holds without `OrderlySpec`.
* `StackImplemented`: `OrderlySpec => StackSpec`, the refinement of
  `SensorStack`, along the same lines: the view of a ring is read downwards from
  its head (`ViewAppends`, `ViewDropsOldest`, `ViewDropsNewest`). `StackInv`
  says when the full flag, the 8-bit count and the checksum of the newest log
  agree, and that the RAM copy of the header is current while a publication is
  out, so that its confirmation pops the log that was published.

`FlashHandlerProofs`, for any tasks, blocks and pages:

* `TypeCorrect`: `Spec => []TypeOK`, whichever calls are made under the mutex
  (the run leaves it to the proof). `CallsKnown` adds that a task past the mutex
  has a call.
* `WritesDoNotInterfere` (`Spec => []OnlyReplacesItsData`) and `ReadsAreRight`
  (`Spec => ReadsWhatWasWritten`) hold of every mixture of calls with and without
  the mutex. `FlashInv` adds that a call under the mutex holds it while it
  is inside the flash (`Exclusive`), that two tasks inside are both marked as
  overlapped (`Overlaps`), so that a task which is not is alone, and, for that
  task, which pages of `blockBuffer` and of the block already hold the wanted
  data in each phase (`BufferInv`).

`SsmAttentionProofs`, for every recovery time, gap between duties and number of
faults, and for `Spec`, an AM that hangs at any time included:

* `TypeCorrect`, `SourcesKeepWaking` (`[]PendingKeepsWaking`) and
  `ErrorEndsWithWait` (`[]AmErrorMeansWaiting`). The two properties are one
  predicate `Linked` of the SSM's record. Each function of `APP.c` has a lemma
  that it keeps `Linked`, so a round of `APP_periodic`, which composes many of
  them, follows without opening any; `AttentionInv` is `TypeOK /\ Linked(app)`.
* `PowerCyclesAreDue` (`PowerCycledOnlyIfBroken`). `ErrorClock` says that the
  time since xErrorStartTimeSeconds is never longer than there has really been a
  critical error. Again each function of `APP.c` has a lemma (`KeepsClock`): it
  leaves the state and a running clock alone, and only the first critical error
  starts the clock, at zero.

`LogTransferProofs`, for every ring size, transmission rate, number of retries,
days and faults, and every command queue of more than two:

* `TypeCorrect`, `CommandsFindRoom` (`[]RoomForCommands`), `ReadyMeansDrained`
  (`[]ReadyWhenAllStored`) and `NoLogIsLost` (`OnlyStoredLogsLeave`), all of
  `OrderlySpec`. The inductive invariant `TransferInv` says that a transfer is a
  single chain of commands and events (`Chain`): at any time it is in one of the
  phases `Quiet`, `Noticed`, `Asking`, `Requesting`, `Fetching`, `Received`,
  `Storing` or `Finished`, each with what the two queues hold, and with the
  oldest log of the SSM being the one in hand from its receipt to its
  acknowledgement. `NoLogIsLost` does not hold of `Spec`, where an
  acknowledgement that was answered late is sent twice.
* `FailuresBoundDuplicates` (`OrderlySpec => []FewDuplicates`). `DupInv` adds
  that the SSM holds its logs in rising order, none older than what the AM has
  stored, and that whenever its next log is stored already without an
  acknowledgement under way (`StoresAgain`), a failure has paid for the copy to
  come. The chain of `TransferInv` says when an acknowledgement is under way.

`OtaDownloadProofs`, for records, header, buffer, page and packets of every
length and any number of downloads:

* `TypeCorrect`, `BufferNeverOverflows` (`[]BufferFits`) and `CopyImplemented`
  (`Spec => CopiesFile`, the refinement of `OtaCopy`). The inductive invariant
  `DownloadInv` says that the slot's half up to the write position and the
  buffer after it hold one unbroken run of the package (`Laid`), that a download
  whose packets were in order stands where its bytes say (`Exact`), and that the
  AM half begins with a byte of this package if the CRCs can still hold
  (`InSsm`), also after refused packages whose bytes are still counted, so that
  "complete" is never reported of a mixture of two packages. `FlushKeeps` is the
  central lemma: writing the buffer out first changes none of this. Each kind of
  packet has a lemma that it continues the run or gives up (`CallbackIs`), from
  which both the invariant and the refinement follow.

`FwImagesProofs`, for any versions, start limit, reset limit and numbers of
downloads and faults:

* `TypeCorrect`: `Spec => []TypeOK`. It needs `PcOK`: at each point of the
  start and of an update where the code indexes the registry by a slot it has
  computed, that slot is A or B.
* `RunningImageIsKept`: `SafeSpec => []RunningImageKept`. Not inductive: the
  slot for a download follows the slot that was loaded last, the running image
  its version. `ImagesInv` says that no slot but the one with the running image
  has the running version in the registry, that the version of the slot loaded
  last is that of its image, and that the two slots hold different images and
  are known by different versions. `NamesInv`
  adds that the registry names the image of each slot but the one that a download
  has written and not registered yet, and so names the one that runs.
* `BrokenFlashReloaded`: `WholeSpec => []BrokenFlashIsReloaded`, lost registries
  included. `RegistryInv` adds which operational states and primary slot the
  registry may have beside the loaded slot in each phase of a start or an
  update, and `BootInv` what the bootloader's cache may remember beside each
  registry, so that the decision after a power loss, which has no cache, is to
  load a good image.

`AmSessionProofs`, for any queue lengths, retries, jobs, wakes, logs and losses:

* `TypeCorrect`: `Spec => []TypeOK`.
* `QueuedIsPublished` (`[]PublishesWhatWasQueued`), `OneJobInHand`
  (`[]OneJobAtATime`), `OutcomeIsReported` (`[]ReportedAsDone`) and
  `StandbyWhenDone` (`NoJobsMeansDone`), all of `OrderlySpec`. The inductive
  invariant `Inv` says that one thing at a time moves the session with the cloud
  on (`ChainInv`): the script of the running handler, a queued message that is
  answered, a request, publication or download under way, or the event that ends
  it. `QuietInv` and `EventInv` say that nothing of this exists before
  MQTT_READY is handled, but for a fix found earlier; `BufferInv` that a second
  publication is scripted only where the MQTT task comes in between; `JobInv`
  that the job in hand is the one started and its one report says what had
  become of it by then, `InstallInv` that only an update that was reported is
  installed or undone; `HandedBackInv` that its report is queued before the
  request for the next job. The last needs an MQTT queue of at least two (three
  in the code, `mqttHandler.c:332`), which `StandbyWhenDone` assumes: with one,
  TLC finds the report dropped and the AM in standby with the job in hand.

They rest on the named assumptions on the constants: the rings have at least one
entry (and, on the AM, fewer than 256, the range of its uint8 count), a block
has at least one page, an erased page is no data, `NoTask` is no task, an OTA page
is shorter than the buffer and than the AM record, the stale bytes and a page fit
into the buffer and a header, and the bounds are natural numbers.

Model-checked only: liveness, which the prover does not reach (`CallsEnd`,
`RunsAgain`, `SsmReprogrammed`, `ResettingImageAbandoned`, `LogsArrive`,
`HungAmIsReset`, `LogsAreCollected`, `UseActivates`, `TimeComes`,
`SessionEnds`), and the three disagreements, which are counterexamples. Every
other property of a run is a theorem.

## 5. Not modelled

* **The ASP frames and the SPI transfer byte by byte** (`shared/asp`, the SPI
  drivers). A frame has no sequence number and no address; beyond what loss,
  repetition and late answers do, which `LogTransfer` and `SsmAttention` have,
  its format only decides whether it is dropped. The drivers below are register
  access.
* **Setters and getters of single configuration values** on either board. They
  rewrite the sections that `SsmSensorLog` and `AmSensorLog` model without
  touching the fields there.
* **SSM algorithms** (`APP_ALGO.c`, `APP_WTR.c` and the MATLAB-generated
  filters): numeric, without a protocol. `SsmAttention` has the sensor error and
  the use of the pump that they report.
* **Modem, PPP, choice of the antenna, NTP, HTTP, TLS, JSON, protobuf, NMEA**:
  I/O and formats. Their outcomes are actions of `AmSession`, `SsmAttention` and
  `OtaDownload`.
* **The protocol of the SSM's bootstrap loader**: in `FwImages` the SSM is
  erased, and then programmed or not.
* **The manufacturing timer** (MANF_COMPLETE), test mode and the commands of the
  serial port: they are not part of a session in the field.
* **Task monitor**: its check-ins have no effect, for `TM_initialize` is not
  called.
* **Power manager, hardware drivers, loggers, command lines**: hardware access
  and debug output.
* **Vendored and generated code** (HAL, CMSIS, FreeRTOS, lwIP, AWS SDK,
  driverlib, CapTIvate, nanopb output). Nearly all of the repository's lines are
  of this kind, the vendor's headers twice; the models cover a good part of the
  firmware's own logic and a small part of the repository.

A run that shows a disagreement is kept as long as the code has it.
