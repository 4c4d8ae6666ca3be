------------------------------ MODULE FwImages ------------------------------
(***************************************************************************)
(* Which firmware runs: the AM bootloader (amBootloader/bootloader.c), the *)
(* start of the AM application (am/src/main.c), the OTA download           *)
(* (otaUpdate.c) and the event handlers that finish it (eventManager.c).   *)
(*                                                                         *)
(* The NAND flash holds an AM and an SSM image in each of two slots and    *)
(* the image registry.  The bootloader keeps a cache in RAM that survives  *)
(* a reset but not a power cycle or standby.  It may program a slot's      *)
(* image into the internal flash, and always jumps to what is there.       *)
(*                                                                         *)
(* An image is its version, or Broken (its CRC or contents are bad).  An   *)
(* image programmed into the SSM runs and answers SSM_communicationCheck   *)
(* if it is not Broken.  A reset comes from NVIC_SystemReset, from a       *)
(* faulty image, or from the external watchdog, which fires when neither   *)
(* processor kicks it: the AM kicks from TIM2 when it starts and while it  *)
(* programs the SSM, the SSM whenever it runs.  An AM that does not answer *)
(* is power cycled by the SSM.                                             *)
(***************************************************************************)
EXTENDS Naturals

CONSTANTS
    Versions,       \* firmware versions
    FirstVersion,   \* the one installed at the factory
    Resetting,      \* versions whose AM application resets when it starts
    GarbageSlots,   \* slots that uninitialised RAM may happen to name
    Broken, Package, NoVersion,
    START_COUNT_LIMIT,
    MAX_RESETS_SINCE_LP_MODE,
    ResetCountWrap, \* resetsSinceLpMode is a uint8_t (256)
    NumDownloads,   \* bound: OTA downloads started
    NumFaults       \* bound: power losses, failed programming, bad downloads

ASSUME VersionsAssumption ==
    /\ FirstVersion \in Versions
    /\ Resetting \subseteq Versions
    /\ {Broken, Package, NoVersion} \cap Versions = {}
    /\ Broken # Package
    /\ GarbageSlots \subseteq {"A", "B"}
ASSUME BoundsAssumption ==
    /\ START_COUNT_LIMIT \in Nat /\ MAX_RESETS_SINCE_LP_MODE \in Nat
    /\ ResetCountWrap \in Nat \ {0}
    /\ NumDownloads \in Nat /\ NumFaults \in Nat

VARIABLES
    app,        \* the AM's internal flash behind the bootloader
    ssm,        \* the SSM's firmware
    amImage, ssmImage,  \* the slots
    registry,   \* flash: the image registry
    wrote,      \* the latest step wrote the registry
    resets,     \* flash: resetsSinceLpMode
    blCache,    \* RAM: the bootloader's cache
    pc,         \* what the AM does next
    downloads, faults

vars == <<app, ssm, amImage, ssmImage, registry, wrote, resets, blCache, pc,
          downloads, faults>>

images == <<amImage, ssmImage>>
bounds == <<downloads, faults>>

Slot == {"A", "B"}
UNKNOWN_SLOT == "UNKNOWN_SLOT"

\* xGetAlternateSlot, MEM_getAlternateSlot
Alternate(s) == CASE s = "A" -> "B" [] s = "B" -> "A" [] OTHER -> UNKNOWN_SLOT

OpState == {"OP_UNKNOWN", "PARTIAL", "FULL", "FAILED"}

imageRegistryDefault ==
    [valid |-> TRUE, op |-> [s \in Slot |-> "OP_UNKNOWN"],
     loaded |-> UNKNOWN_SLOT, primary |-> UNKNOWN_SLOT,
     version |-> [s \in Slot |-> NoVersion]]

\* A flash write of the registry.
Write(r) == registry' = r /\ wrote' = TRUE
NoWrite == UNCHANGED registry /\ wrote' = FALSE

\* A step that needs a fault counts it.
FaultIf(b) ==
    /\ b => faults < NumFaults
    /\ faults' = IF b THEN faults + 1 ELSE faults
    /\ UNCHANGED downloads

-----------------------------------------------------------------------------
(* The bootloader's decision, from its cache c: the slot to load, if any,  *)
(* and the cache it leaves.                                                *)

ImageOk(s) == s \in Slot /\ amImage[s] # Broken

Load(s, r) == [load |-> s, last |-> s, reason |-> r, count |-> 0]
Start(c, s, r) == [load |-> UNKNOWN_SLOT, last |-> s, reason |-> r, count |-> c.count]

\* Cases 5 to 9: no registry, or it does not know the slot last loaded.
xPanicMode(c) ==
    CASE c.last = "A" ->
            IF c.count <= START_COUNT_LIMIT THEN Start(c, "A", "PANIC")
            ELSE IF ImageOk("B") THEN Load("B", "PANIC") ELSE Start(c, "A", c.reason)
      [] c.last = "B" ->
            IF c.count <= START_COUNT_LIMIT THEN Start(c, "B", "PANIC")
            ELSE Start(c, "B", c.reason)
      [] OTHER ->
            IF ImageOk("A") THEN Load("A", "PANIC")
            ELSE IF ImageOk("B") THEN Load("B", "PANIC")
                 ELSE [Start(c, UNKNOWN_SLOT, "PANIC") EXCEPT !.count = 0]

\* Mutant of xCasesTenThroughSixteen: starts are never too many.
CasesTenNoLimit(c) ==
    LET p == registry.primary
        alternateOk == registry.op[Alternate(p)] # "FAILED" /\ ImageOk(Alternate(p))
    IN  CASE registry.op[p] = "OP_UNKNOWN" -> Start(c, p, "UPGRADE")
          [] registry.op[p] = "PARTIAL" -> Start(c, p, "UPGRADE")
          [] registry.op[p] = "FULL" -> Start(c, p, "NOMINAL")
          [] OTHER -> IF alternateOk THEN Load(Alternate(p), "FALLBACK")
                      ELSE Start(c, p, "PANIC")

\* Cases 10 to 16: the primary image was loaded last.
xCasesTenThroughSixteen(c) ==
    LET p == registry.primary
        alternateOk == registry.op[Alternate(p)] # "FAILED" /\ ImageOk(Alternate(p))
    IN  CASE registry.op[p] = "OP_UNKNOWN" /\ c.count <= START_COUNT_LIMIT ->
                Start(c, p, "UPGRADE")
          [] registry.op[p] = "PARTIAL" -> Start(c, p, "UPGRADE")
          [] registry.op[p] = "FULL" -> Start(c, p, "NOMINAL")
          [] OTHER -> IF alternateOk THEN Load(Alternate(p), "FALLBACK")
                      ELSE Start(c, p, "PANIC")

\* Cases 17 to 19: the alternate image was loaded last.
xCasesSeventeenThroughNineteen(c) ==
    LET p == registry.primary
    IN  IF registry.op[p] # "FAILED" /\ ImageOk(p) THEN Load(p, "UPGRADE")
        ELSE Start(c, Alternate(p),
                   IF registry.op[Alternate(p)] # "FAILED" THEN "OFF_NOMINAL"
                   ELSE "PANIC")

xNominalMode(c) ==
    CASE c.last = registry.primary -> xCasesTenThroughSixteen(c)
      [] c.last = Alternate(registry.primary) -> xCasesSeventeenThroughNineteen(c)
      [] OTHER -> Start(c, c.last, c.reason)

xManufacturingMode(c) ==
    IF ImageOk("A") THEN Load("A", "MANUFACTURING") ELSE Start(c, c.last, c.reason)

Decide(c) ==
    IF registry.valid /\ c.last \in Slot THEN xNominalMode(c)
    ELSE IF c.reason = "MANUFACTURING" THEN xManufacturingMode(c)
         ELSE xPanicMode(c)

\* Mutant of PowerUpCache: the primary slot is taken for the one loaded.
PowerUpFromPrimary ==
    [key |-> TRUE, reason |-> "UNKNOWN", count |-> 0,
     last |-> IF registry.valid THEN registry.primary ELSE UNKNOWN_SLOT]

\* The cache after a power cycle.
PowerUpCache ==
    [key |-> TRUE, reason |-> "UNKNOWN", count |-> 0,
     last |-> IF registry.valid THEN registry.loaded ELSE UNKNOWN_SLOT]

BootCache == IF blCache.key THEN blCache ELSE PowerUpCache

\* startCount is incremented last; it only is compared with its limit.
Entered(d) ==
    [key |-> TRUE, last |-> d.last, reason |-> d.reason,
     count |-> IF d.count > START_COUNT_LIMIT THEN d.count ELSE d.count + 1]

\* xSetupExternalFlashWithImage, at the first power-up: the image package in
\* the internal flash is copied to slot A, and the bootloader resets.  The
\* slot last loaded is left as RAM happened to hold it (UNKNOWN_SLOT stands
\* for every value that is no slot).
MfgSetup ==
    /\ pc = "bl"
    /\ app = Package /\ ~blCache.key
    /\ amImage' = [amImage EXCEPT !["A"] = FirstVersion]
    /\ ssmImage' = [ssmImage EXCEPT !["A"] = FirstVersion]
    /\ Write([imageRegistryDefault EXCEPT !.primary = "A",
                                          !.version["A"] = FirstVersion])
    /\ \E s \in GarbageSlots \cup {UNKNOWN_SLOT} :
          blCache' = [key |-> TRUE, last |-> s, reason |-> "MANUFACTURING", count |-> 0]
    /\ UNCHANGED <<app, ssm, resets, pc, bounds>>

\* The bootloader runs and has nothing to load ...
BootStart ==
    /\ pc = "bl"
    /\ app = Package => blCache.key
    /\ Decide(BootCache).load = UNKNOWN_SLOT
    /\ blCache' = Entered(Decide(BootCache))
    /\ pc' = "app"
    /\ NoWrite
    /\ UNCHANGED <<app, ssm, images, resets, bounds>>

\* ... or erases the internal flash for the image of a slot ...
BootErase ==
    /\ pc = "bl"
    /\ app = Package => blCache.key
    /\ Decide(BootCache).load # UNKNOWN_SLOT
    /\ app' = Broken
    /\ blCache' = BootCache
    /\ pc' = "load"
    /\ NoWrite
    /\ UNCHANGED <<ssm, images, resets, bounds>>

\* ... and programs it, or fails three times and jumps all the same.
BootProgram ==
    /\ pc = "load"
    /\ LET d == Decide(blCache)
       IN  /\ app' \in {amImage[d.load], Broken}
           /\ FaultIf(app' = Broken)
           /\ blCache' = Entered(d)
    /\ pc' = "app"
    /\ NoWrite
    /\ UNCHANGED <<ssm, images, resets>>

-----------------------------------------------------------------------------
(* The start of the application.                                           *)

Hangs == pc = "app" /\ app \in {Broken, Package}

\* A faulty image resets before it touches the flash.
CrashReset ==
    /\ pc = "app"
    /\ app \in Resetting
    /\ pc' = "bl"
    /\ NoWrite
    /\ UNCHANGED <<app, ssm, images, resets, blCache, bounds>>

\* MEM_init counts the reset, and defaults a bad registry.
AppStart ==
    /\ pc = "app"
    /\ app \in Versions \ Resetting
    /\ resets' = (resets + 1) % ResetCountWrap
    /\ IF registry.valid THEN NoWrite ELSE Write(imageRegistryDefault)
    /\ pc' = "cacheInit"
    /\ UNCHANGED <<app, ssm, images, blCache, bounds>>

\* MEM_getSlotWithThisVersion
CurrentSlot ==
    CASE registry.version["A"] = app -> "A"
      [] registry.version["A"] # app /\ registry.version["B"] = app -> "B"
      [] OTHER -> UNKNOWN_SLOT

\* xCacheAndAppInit: the loaded slot is the one with this version.
SetLoaded ==
    /\ pc = "cacheInit"
    /\ IF CurrentSlot \in {UNKNOWN_SLOT, registry.loaded}
       THEN NoWrite
       ELSE Write([registry EXCEPT !.loaded = CurrentSlot])
    /\ pc' = IF CurrentSlot = UNKNOWN_SLOT THEN "verify" ELSE "opState"
    /\ UNCHANGED <<app, ssm, images, resets, blCache, bounds>>

\* A primary image that starts is PARTIAL; a fallback image marks the other
\* slot FAILED.
SetOpState ==
    /\ pc = "opState"
    /\ \/ /\ registry.primary = CurrentSlot
          /\ registry.op[CurrentSlot] \in {"OP_UNKNOWN", "FAILED"}
          /\ Write([registry EXCEPT !.op[CurrentSlot] = "PARTIAL"])
          /\ pc' = CASE blCache.reason = "UPGRADE" -> "asleep"
                     [] blCache.reason = "MANUFACTURING" -> "mfgSsm"
                     [] OTHER -> "verify"
       \/ /\ registry.primary # CurrentSlot
          /\ blCache.reason = "FALLBACK"
          /\ Write([registry EXCEPT !.op[Alternate(CurrentSlot)] = "FAILED"])
          /\ pc' = "fallbackPrimary"
       \/ /\ IF registry.primary = CurrentSlot
             THEN registry.op[CurrentSlot] \in {"PARTIAL", "FULL"}
             ELSE blCache.reason # "FALLBACK"
          /\ NoWrite
          /\ pc' = "verify"
    /\ UNCHANGED <<app, ssm, images, resets, blCache, bounds>>

SetFallbackPrimary ==
    /\ pc = "fallbackPrimary"
    /\ Write([registry EXCEPT !.primary = CurrentSlot])
    /\ pc' = "fallbackSsm"
    /\ UNCHANGED <<app, ssm, images, resets, blCache, bounds>>

ProgramPcs == {"mfgSsm", "fallbackSsm", "rollSsm", "otaProgram", "otaRollSsm"}

\* SSM_FW_programBslWithExternalFlashImage: a wrong password erases the SSM ...
EraseSsm ==
    /\ pc \in ProgramPcs
    /\ ssm # Broken
    /\ ssm' = Broken
    /\ NoWrite
    /\ UNCHANGED <<app, images, resets, blCache, pc, bounds>>

\* ... and the image of the slot first, or if that fails of the slot second, is
\* programmed: ok tells whether one of them succeeds.
ProgramSsm(first, second, ok) ==
    LET firstGood == ssmImage[first] # Broken
        secondGood == ssmImage[second] # Broken
    IN  \/ ok /\ ssm = Broken /\ firstGood /\ ssm' = ssmImage[first] /\ FaultIf(FALSE)
        \/ ok /\ ssm = Broken /\ secondGood /\ ssm' = ssmImage[second] /\ FaultIf(firstGood)
        \/ ~ok /\ ssm' = ssm /\ FaultIf(firstGood \/ secondGood)

\* The SSM gets the image of the first or of the fallback AM image.
StartSsm ==
    /\ pc \in {"mfgSsm", "fallbackSsm"}
    /\ LET s == IF pc = "mfgSsm" THEN "A" ELSE CurrentSlot
       IN  \E ok \in BOOLEAN : ProgramSsm(s, s, ok)
    /\ pc' = "verify"
    /\ NoWrite
    /\ UNCHANGED <<app, images, resets, blCache>>

HasFallback ==
    /\ registry.loaded \in Slot
    /\ registry.op[Alternate(registry.loaded)] \in {"PARTIAL", "FULL"}

\* Mutant of VerifySsm: only the resets are looked at.
VerifySsmResets ==
    /\ pc = "verify"
    /\ IF resets >= MAX_RESETS_SINCE_LP_MODE /\ HasFallback
       THEN /\ Write([registry EXCEPT !.op[registry.loaded] = "FAILED"])
            /\ pc' = "rollPrimary"
       ELSE NoWrite /\ pc' = "run"
    /\ UNCHANGED <<app, ssm, images, resets, blCache, bounds>>

\* xVerifySsmAppIsRunning: with too many resets, or no answer of the SSM, the
\* AM falls back to the other slot if that one has worked before.
VerifySsm ==
    /\ pc = "verify"
    /\ IF (resets >= MAX_RESETS_SINCE_LP_MODE \/ ssm = Broken) /\ HasFallback
       THEN /\ Write([registry EXCEPT !.op[registry.loaded] = "FAILED"])
            /\ pc' = "rollPrimary"
       ELSE NoWrite /\ pc' = "run"
    /\ UNCHANGED <<app, ssm, images, resets, blCache, bounds>>

\* xProgramSsmWithFallBackImage
RollPrimary ==
    /\ pc = "rollPrimary"
    /\ Write([registry EXCEPT !.primary = Alternate(registry.loaded)])
    /\ pc' = "rollSsm"
    /\ UNCHANGED <<app, ssm, images, resets, blCache, bounds>>

\* The second try always takes the image of slot B.
RollSsm ==
    /\ pc = "rollSsm"
    /\ \E ok \in BOOLEAN :
          /\ ProgramSsm(registry.primary, "B", ok)
          /\ pc' = IF ok THEN "bl" ELSE "run"
          /\ resets' = IF ok THEN 0 ELSE resets
    /\ NoWrite
    /\ UNCHANGED <<app, images, blCache>>

-----------------------------------------------------------------------------
(* The running application.                                                *)

\* The first connection to the cloud makes a PARTIAL image FULL.
Connect ==
    /\ pc = "run"
    /\ registry.loaded \in Slot
    /\ registry.op[registry.loaded] = "PARTIAL"
    /\ Write([registry EXCEPT !.op[registry.loaded] = "FULL"])
    /\ UNCHANGED <<app, ssm, images, resets, blCache, pc, bounds>>

\* Mutant of DownloadSlot: the image goes to the slot that is not primary.
DownloadSlotNotPrimary == IF registry.primary = "A" THEN "B" ELSE "A"

\* checkWhichAddrToStoreAmImage
DownloadSlot == IF registry.loaded = "A" THEN "B" ELSE "A"

\* The AM image is stored first, over the one in the slot ...
DownloadAm ==
    /\ pc = "run"
    /\ downloads < NumDownloads
    /\ downloads' = downloads + 1
    /\ amImage' = [amImage EXCEPT ![DownloadSlot] = Broken]
    /\ pc' = "download"
    /\ NoWrite
    /\ UNCHANGED <<app, ssm, ssmImage, resets, blCache, faults>>

\* ... and complete, or received with errors, when the SSM image begins, which
\* at some time overwrites the other one in the slot.
DownloadSsm ==
    /\ pc = "download"
    /\ \E v \in Versions \cup {Broken} :
          /\ amImage' = [amImage EXCEPT ![DownloadSlot] = v]
          /\ FaultIf(v = Broken)
    /\ \E begun \in BOOLEAN :
          ssmImage' = [ssmImage EXCEPT ![DownloadSlot] = IF begun THEN Broken ELSE @]
    /\ pc' = "downloadSsm"
    /\ NoWrite
    /\ UNCHANGED <<app, ssm, resets, blCache>>

\* Mutant of DownloadGood: the CRCs are not compared.
DownloadUnchecked ==
    /\ pc = "downloadSsm"
    /\ ssmImage' = [ssmImage EXCEPT ![DownloadSlot] = amImage[DownloadSlot]]
    /\ Write([registry EXCEPT !.op[DownloadSlot] = "OP_UNKNOWN"])
    /\ pc' = "setVersion"
    /\ UNCHANGED <<app, ssm, amImage, resets, blCache, bounds>>

\* downloadFinishedUpdateRegistry: both CRCs are good ...
DownloadGood ==
    /\ pc = "downloadSsm"
    /\ amImage[DownloadSlot] # Broken
    /\ ssmImage' = [ssmImage EXCEPT ![DownloadSlot] = amImage[DownloadSlot]]
    /\ Write([registry EXCEPT !.op[DownloadSlot] = "OP_UNKNOWN"])
    /\ pc' = "setVersion"
    /\ UNCHANGED <<app, ssm, amImage, resets, blCache, bounds>>

\* ... or one is not, and the AM image is invalidated.
DownloadBad ==
    /\ pc = "downloadSsm"
    /\ FaultIf(amImage[DownloadSlot] # Broken)
    /\ amImage' = [amImage EXCEPT ![DownloadSlot] = Broken]
    /\ ssmImage' = [ssmImage EXCEPT ![DownloadSlot] = Broken]
    /\ pc' = "run"
    /\ NoWrite
    /\ UNCHANGED <<app, ssm, resets, blCache>>

\* A packet that does not belong to a package ends the download where it is.
DownloadBail ==
    /\ pc \in {"download", "downloadSsm"}
    /\ FaultIf(TRUE)
    /\ pc' = "run"
    /\ NoWrite
    /\ UNCHANGED <<app, ssm, images, resets, blCache>>

SetVersion ==
    /\ pc = "setVersion"
    /\ Write([registry EXCEPT !.version[DownloadSlot] = amImage[DownloadSlot]])
    /\ pc' = "setPrimary"
    /\ UNCHANGED <<app, ssm, images, resets, blCache, bounds>>

SetPrimary ==
    /\ pc = "setPrimary"
    /\ Write([registry EXCEPT !.primary = DownloadSlot])
    /\ pc' = "otaSsm"
    /\ UNCHANGED <<app, ssm, images, resets, blCache, bounds>>

\* xOtaFwDownloadSuccessful turns off the modem; nothing puts the AM to sleep.
OtaBegin ==
    /\ pc = "otaSsm"
    /\ pc' = "otaProgram"
    /\ NoWrite
    /\ UNCHANGED <<app, ssm, images, resets, blCache, bounds>>

\* The SSM is programmed, and the AM resets ...
OtaSsm ==
    /\ pc = "otaProgram"
    /\ ProgramSsm(registry.primary, registry.primary, TRUE)
    /\ resets' = 0
    /\ pc' = "bl"
    /\ NoWrite
    /\ UNCHANGED <<app, images, blCache>>

\* ... or it fails twice, and the other slot becomes primary again.
OtaSsmFails ==
    /\ pc = "otaProgram"
    /\ ProgramSsm(registry.primary, registry.primary, FALSE)
    /\ Write([registry EXCEPT !.op[registry.primary] = "FAILED"])
    /\ pc' = "otaPrimary"
    /\ UNCHANGED <<app, images, resets, blCache>>

OtaPrimary ==
    /\ pc = "otaPrimary"
    /\ Write([registry EXCEPT !.primary = Alternate(registry.primary)])
    /\ pc' = "otaRollSsm"
    /\ UNCHANGED <<app, ssm, images, resets, blCache, bounds>>

OtaRollSsm ==
    /\ pc = "otaRollSsm"
    /\ \E ok \in BOOLEAN :
          /\ ProgramSsm(registry.primary, "B", ok)
          /\ pc' = IF ok THEN "asleep" ELSE "run"
          /\ resets' = IF ok THEN 0 ELSE resets
    /\ NoWrite
    /\ UNCHANGED <<app, images, blCache>>

DownloadPcs == {"download", "downloadSsm", "setVersion", "setPrimary"}

\* xTurnOffCellAndPowerDown: its work done, or the time allowed used up, the
\* AM goes to standby.  A download may still be going on.
Sleep ==
    /\ pc \in {"run", "otaSsm"} \cup DownloadPcs
    /\ pc' = "asleep"
    /\ resets' = 0
    /\ NoWrite
    /\ UNCHANGED <<app, ssm, images, blCache, bounds>>

\* The application loops with its interrupts off, after an assertion, a failed
\* allocation or a fault: TIM2 no longer kicks the external watchdog.
WatchdogReset ==
    /\ pc \in {"verify", "rollPrimary", "run", "otaSsm", "otaPrimary"}
              \cup ProgramPcs \cup DownloadPcs
    /\ FaultIf(TRUE)
    /\ pc' = "bl"
    /\ NoWrite
    /\ UNCHANGED <<app, ssm, images, resets, blCache>>

-----------------------------------------------------------------------------
FromPowerOff ==
    /\ pc = "asleep" \/ Hangs
    /\ blCache' = [blCache EXCEPT !.key = FALSE]
    /\ pc' = "bl"
    /\ NoWrite
    /\ UNCHANGED <<app, ssm, images, resets, bounds>>

\* The SSM wakes the AM, or power cycles one that hangs ...
PowerUp == ssm # Broken /\ FromPowerOff

\* ... or the external watchdog power cycles both, as neither of them kicks it.
WatchdogCycle == ssm = Broken /\ FromPowerOff

\* Power fails, perhaps in the middle of the registry write just made.
PowerLoss ==
    /\ FaultIf(TRUE)
    /\ blCache' = [blCache EXCEPT !.key = FALSE]
    /\ pc' = "bl"
    /\ \/ UNCHANGED registry
       \/ wrote /\ registry' = [registry EXCEPT !.valid = FALSE]
    /\ wrote' = FALSE
    /\ UNCHANGED <<app, ssm, images, resets>>

\* A board as it leaves the programmer.
Init ==
    /\ app = Package
    /\ ssm = Broken
    /\ amImage = [s \in Slot |-> Broken]
    /\ ssmImage = [s \in Slot |-> Broken]
    /\ registry = [imageRegistryDefault EXCEPT !.valid = FALSE]
    /\ wrote = FALSE
    /\ resets = 0
    /\ blCache = [key |-> FALSE, last |-> UNKNOWN_SLOT, reason |-> "UNKNOWN", count |-> 0]
    /\ pc = "bl"
    /\ downloads = 0
    /\ faults = 0

Boot == MfgSetup \/ BootStart \/ BootErase \/ BootProgram
Startup ==
    CrashReset \/ AppStart \/ SetLoaded \/ SetOpState \/ SetFallbackPrimary
    \/ EraseSsm \/ StartSsm \/ VerifySsm \/ RollPrimary \/ RollSsm
Ota ==
    DownloadSsm \/ DownloadGood \/ DownloadBad \/ SetVersion \/ SetPrimary
    \/ OtaBegin \/ OtaSsm \/ OtaSsmFails \/ OtaPrimary \/ OtaRollSsm

Next ==
    \/ Boot \/ Startup \/ Ota \/ Connect \/ DownloadAm \/ DownloadBail
    \/ Sleep \/ WatchdogReset \/ PowerUp \/ WatchdogCycle \/ PowerLoss

\* The AM goes on with what it does; one that sleeps or hangs is woken or power
\* cycled.
Fairness ==
    WF_vars(Boot \/ Startup \/ Ota) /\ WF_vars(PowerUp \/ WatchdogCycle) /\ WF_vars(Sleep)

Spec == Init /\ [][Next]_vars /\ Fairness

\* The device is never sent the version that runs or that its other slot
\* holds.
FreshNext ==
    /\ Next
    /\ DownloadSsm => amImage'[DownloadSlot] \notin {app, amImage[Alternate(DownloadSlot)]} \ {Broken}

\* The same of a device whose registry no power loss destroys.
KeptNext == FreshNext /\ (registry.valid => registry'.valid)

KeptSpec == Init /\ [][KeptNext]_vars /\ Fairness

\* A device on which nothing comes between the end of an AM image and the
\* registry writes that finish its download.
WholeNext == FreshNext /\ (pc \in {"downloadSsm", "setVersion", "setPrimary"} => Ota)

WholeSpec == Init /\ [][WholeNext]_vars /\ Fairness

\* Both.
SafeSpec == Init /\ [][KeptNext /\ WholeNext]_vars /\ Fairness

-----------------------------------------------------------------------------
TypeOK ==
    /\ app \in Versions \cup {Broken, Package}
    /\ ssm \in Versions \cup {Broken}
    /\ amImage \in [Slot -> Versions \cup {Broken}]
    /\ ssmImage \in [Slot -> Versions \cup {Broken}]
    /\ registry \in [valid : BOOLEAN, op : [Slot -> OpState],
                     loaded : Slot \cup {UNKNOWN_SLOT},
                     primary : Slot \cup {UNKNOWN_SLOT},
                     version : [Slot -> Versions \cup {NoVersion}]]
    /\ wrote \in BOOLEAN
    /\ resets \in 0 .. ResetCountWrap - 1
    /\ blCache \in [key : BOOLEAN, last : Slot \cup {UNKNOWN_SLOT},
                    reason : {"NOMINAL", "UPGRADE", "FALLBACK", "OFF_NOMINAL",
                              "PANIC", "UNKNOWN", "MANUFACTURING"},
                    count : 0 .. START_COUNT_LIMIT + 1]
    /\ pc \in {"bl", "load", "app", "cacheInit", "opState", "mfgSsm",
               "fallbackPrimary", "fallbackSsm", "verify", "rollPrimary",
               "rollSsm", "run", "download", "downloadSsm", "setVersion",
               "setPrimary", "otaSsm", "otaProgram", "otaPrimary", "otaRollSsm", "asleep"}
    /\ downloads \in 0 .. NumDownloads
    /\ faults \in 0 .. NumFaults

(* The registry always knows the slot of the running image, and that slot *)
(* holds it, whatever was downloaded, loaded, failed and rolled back       *)
(* before: a download, whose slot is found by another rule, from what was  *)
(* loaded last, goes to the other one.  (Of devices with SafeSpec.)        *)
RunningImageKept ==
    app \in Versions => CurrentSlot \in Slot /\ amImage[CurrentSlot] = app

(* "store the new image into the slot that does NOT contain the current    *)
(* loaded image so that the BL can fall back"                              *)
DownloadSparesRunningImage ==
    [][pc = "run" /\ pc' = "download" => amImage[DownloadSlot] # app]_vars

(* Power may fail while the bootloader programs the internal flash, or     *)
(* programming may fail: at the next power-up the bootloader loads a good  *)
(* image again rather than start what it finds, whatever faults, updates   *)
(* and rollbacks came before, if none of them came between the end of an   *)
(* AM image and the registry writes for it.                                *)
BrokenFlashIsReloaded ==
    app = Broken =>
        LET d == Decide(PowerUpCache) IN d.load \in Slot /\ ImageOk(d.load)

(* With firmware that works, a device comes back to a running application, *)
(* whatever faults hit its boots, downloads and updates, but for those     *)
(* between the end of an AM image and the registry writes for it.          *)
RunsAgain == []<>(pc = "run")

SsmFallback == HasFallback /\ ssmImage[Alternate(registry.loaded)] # Broken

(* An SSM left without firmware, by a power loss or a watchdog reset after *)
(* its mass erase or by programming that failed, gets one that works while *)
(* a slot that has worked before has one: the AM that does not find it     *)
(* answering neither stays asleep nor gives up.                            *)
SsmReprogrammed == ssm = Broken /\ SsmFallback ~> ssm # Broken \/ ~SsmFallback

(* START_COUNT_LIMIT: an AM image that resets at every start does not stay *)
(* for ever: the device ends up running another one.                       *)
ResettingImageAbandoned == app \in Resetting ~> app \notin Resetting /\ pc = "run"
=============================================================================
