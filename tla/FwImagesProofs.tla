--------------------------- MODULE FwImagesProofs ---------------------------
(***************************************************************************)
(* Proofs about FwImages, for any versions, limits and numbers of          *)
(* downloads and faults: no download destroys the running image, and the   *)
(* bootloader never starts an internal flash that it left half programmed. *)
(* Which devices each holds of, SafeSpec and WholeSpec say.                *)
(*                                                                         *)
(* What runs, what the slots hold, what the registry says of them and what *)
(* the bootloader's cache remembers are four accounts of one thing, each   *)
(* written at its own time.  The invariants say how far they may differ:   *)
(* ImagesInv relates the images to the versions in the registry,           *)
(* RegistryInv the registry's operational states, loaded and primary slot  *)
(* to one another, and BootInv the cache to the registry.                  *)
(***************************************************************************)
EXTENDS FwImages, TLAPS

-----------------------------------------------------------------------------
(* Types.                                                                  *)

Cache == [key : BOOLEAN, last : Slot \cup {UNKNOWN_SLOT},
          reason : {"NOMINAL", "UPGRADE", "FALLBACK", "OFF_NOMINAL",
                    "PANIC", "UNKNOWN", "MANUFACTURING"},
          count : 0 .. START_COUNT_LIMIT + 1]
Registry == [valid : BOOLEAN, op : [Slot -> OpState],
             loaded : Slot \cup {UNKNOWN_SLOT},
             primary : Slot \cup {UNKNOWN_SLOT},
             version : [Slot -> Versions \cup {NoVersion}]]
Decision == [load : Slot \cup {UNKNOWN_SLOT}, last : Slot \cup {UNKNOWN_SLOT},
             reason : {"NOMINAL", "UPGRADE", "FALLBACK", "OFF_NOMINAL",
                       "PANIC", "UNKNOWN", "MANUFACTURING"},
             count : 0 .. START_COUNT_LIMIT + 1]

Starting == {"opState", "mfgSsm", "fallbackPrimary", "fallbackSsm", "verify",
             "rollPrimary", "rollSsm"}
Serving == {"run", "otaSsm", "otaProgram", "otaPrimary", "otaRollSsm"} \cup DownloadPcs
Up == Starting \cup Serving

(* What the program counter says.                                          *)
PcOK ==
    /\ pc = "load" => Decide(blCache).load \in Slot
    /\ pc \in {"opState", "fallbackPrimary", "fallbackSsm"} => CurrentSlot \in Slot
    /\ pc = "rollPrimary" => registry.loaded \in Slot
    /\ pc \in {"rollSsm", "otaSsm", "otaProgram", "otaPrimary", "otaRollSsm"}
          => registry.primary \in Slot
    /\ pc = "setVersion" => amImage[DownloadSlot] \in Versions
    /\ pc \in Up \cup {"cacheInit"} => app \in Versions \ Resetting
    /\ pc \notin {"bl"} => blCache.key

TypeInv == TypeOK /\ PcOK

LEMMA SlotsAre ==
    /\ Slot = {"A", "B"} /\ UNKNOWN_SLOT \notin Slot /\ "A" # "B"
    /\ \A s \in Slot : Alternate(s) \in Slot /\ Alternate(s) # s
                       /\ Alternate(Alternate(s)) = s
    /\ Alternate(UNKNOWN_SLOT) = UNKNOWN_SLOT
  BY DEF Slot, UNKNOWN_SLOT, Alternate

(* The bootloader's decision names a slot or none, and its start counter   *)
(* stays within the limit.                                                 *)
LEMMA DecideTyped ==
    ASSUME TypeOK, NEW c \in Cache
    PROVE  Decide(c) \in Decision
<1>1. registry \in Registry
  BY DEF TypeOK, Registry
<1>2. START_COUNT_LIMIT \in Nat
  BY BoundsAssumption
<1>3. xPanicMode(c) \in Decision
  BY <1>1, <1>2
     DEF Cache, Decision, xPanicMode, Load, Start, Slot, UNKNOWN_SLOT
<1>4. ASSUME registry.valid, c.last \in Slot
      PROVE  xNominalMode(c) \in Decision
  BY <1>1, <1>2, <1>4, SlotsAre
     DEF Cache, Decision, Registry, xNominalMode, xCasesTenThroughSixteen,
         xCasesSeventeenThroughNineteen, Load, Start, OpState
<1>5. xManufacturingMode(c) \in Decision
  BY <1>1, <1>2
     DEF Cache, Decision, xManufacturingMode, Load, Start, Slot, UNKNOWN_SLOT
<1> QED
  BY <1>3, <1>4, <1>5 DEF Decide

LEMMA BootCacheTyped ==
    ASSUME TypeOK
    PROVE  BootCache \in Cache /\ PowerUpCache \in Cache /\ BootCache.key
  BY BoundsAssumption, SlotsAre DEF TypeOK, BootCache, PowerUpCache, Cache

LEMMA EnteredTyped ==
    ASSUME NEW d \in Decision
    PROVE  Entered(d) \in Cache /\ Entered(d).key
  BY BoundsAssumption DEF Decision, Entered, Cache

LEMMA CurrentSlotIs ==
    /\ CurrentSlot \in Slot \cup {UNKNOWN_SLOT}
    /\ CurrentSlot \in Slot => registry.version[CurrentSlot] = app
    /\ CurrentSlot \notin Slot => \A s \in Slot : registry.version[s] # app
  BY DEF CurrentSlot, Slot, UNKNOWN_SLOT

ResetCounts ==
    \A n \in 0 .. ResetCountWrap - 1 :
        (n + 1) % ResetCountWrap \in 0 .. ResetCountWrap - 1

LEMMA ResetCount == ResetCounts
  BY BoundsAssumption DEF ResetCounts

LEMMA FaultTyped ==
    ASSUME TypeOK, NEW b \in BOOLEAN, FaultIf(b)
    PROVE  faults' \in 0 .. NumFaults /\ downloads' = downloads
  BY BoundsAssumption DEF TypeOK, FaultIf

LEMMA ZeroTyped == 0 \in 0 .. ResetCountWrap - 1 /\ 0 \in 0 .. START_COUNT_LIMIT + 1
  BY BoundsAssumption

(* One lemma for each action.                                              *)
LEMMA MfgSetupTyped == TypeInv /\ MfgSetup => TypeInv'
<1> SUFFICES ASSUME TypeOK, PcOK, MfgSetup PROVE TypeOK' /\ PcOK'
  BY DEF TypeInv
<1>1. registry' \in Registry
  BY VersionsAssumption, SlotsAre
     DEF MfgSetup, Write, imageRegistryDefault, OpState, Registry
<1>2. blCache' \in Cache
  BY ZeroTyped, VersionsAssumption, SlotsAre DEF MfgSetup, Cache
<1>3. /\ amImage' \in [Slot -> Versions \cup {Broken}]
      /\ ssmImage' \in [Slot -> Versions \cup {Broken}]
  BY VersionsAssumption, SlotsAre DEF TypeOK, MfgSetup
<1>4. wrote' \in BOOLEAN
  BY DEF MfgSetup, Write
<1>5. TypeOK'
  BY <1>1, <1>2, <1>3, <1>4 DEF TypeOK, MfgSetup, bounds, Registry, Cache
<1>6. PcOK'
  BY VersionsAssumption, BoundsAssumption, SlotsAre
     DEF PcOK, TypeOK, MfgSetup, Write, bounds, imageRegistryDefault, OpState
<1> QED
  BY <1>5, <1>6

LEMMA BootStartTyped == TypeInv /\ BootStart => TypeInv'
<1> SUFFICES ASSUME TypeOK, PcOK, BootStart PROVE TypeOK' /\ PcOK'
  BY DEF TypeInv
<1>1. TypeOK'
  BY BootCacheTyped, DecideTyped, EnteredTyped
     DEF TypeOK, BootStart, NoWrite, images, bounds, Cache, PcOK
<1>2. PcOK'
  BY BootCacheTyped, DecideTyped, EnteredTyped
     DEF PcOK, TypeOK, BootStart, NoWrite, images, bounds, Cache, Starting,
         Serving, Up, DownloadPcs
<1> QED
  BY <1>1, <1>2

LEMMA BootEraseTyped == TypeInv /\ BootErase => TypeInv'
<1> SUFFICES ASSUME TypeInv, BootErase PROVE TypeInv'
  OBVIOUS
<1>1. BootCache \in Cache /\ BootCache.key
  BY BootCacheTyped DEF TypeInv
<1>2. Decide(BootCache).load \in Slot
  BY <1>1, DecideTyped DEF TypeInv, Decision, BootErase
<1>3. Decide(blCache)' = Decide(BootCache)
  BY DEF BootErase, NoWrite, images, Decide, xNominalMode, xPanicMode,
         xManufacturingMode, xCasesTenThroughSixteen,
         xCasesSeventeenThroughNineteen, ImageOk, Load, Start
<1> QED
  BY <1>1, <1>2, <1>3
     DEF TypeInv, PcOK, TypeOK, BootErase, NoWrite, images, bounds, Cache,
         Starting, Serving, Up, DownloadPcs

LEMMA BootProgramTyped == TypeInv /\ BootProgram => TypeInv'
<1> SUFFICES ASSUME TypeOK, PcOK, BootProgram PROVE TypeOK' /\ PcOK'
  BY DEF TypeInv
<1>1. faults' \in 0 .. NumFaults /\ downloads' = downloads
  <2>1. (app' = Broken) \in BOOLEAN
    OBVIOUS
  <2> QED
    BY <2>1, FaultTyped DEF BootProgram
<1>2. blCache' \in Cache /\ blCache'.key
  BY DecideTyped, EnteredTyped DEF TypeOK, BootProgram, Cache
<1>3. app' \in Versions \cup {Broken}
  BY DEF TypeOK, PcOK, BootProgram
<1>4. TypeOK'
  BY <1>1, <1>2, <1>3 DEF TypeOK, BootProgram, NoWrite, images, Cache
<1>5. PcOK'
  BY BootCacheTyped, DecideTyped, EnteredTyped, BoundsAssumption
     DEF PcOK, TypeOK, BootProgram, NoWrite, FaultIf, images, bounds, Cache,
         Decision, Starting, Serving, Up, DownloadPcs
<1> QED
  BY <1>4, <1>5

LEMMA CrashResetTyped == TypeInv /\ CrashReset => TypeInv'
  BY DEF TypeInv, PcOK, TypeOK, CrashReset, NoWrite, images, bounds, Starting,
         Serving, Up, DownloadPcs

LEMMA AppStartTyped == TypeInv /\ AppStart => TypeInv'
<1> SUFFICES ASSUME TypeOK, PcOK, AppStart PROVE TypeOK' /\ PcOK'
  BY DEF TypeInv
<1>1. registry' \in Registry /\ wrote' \in BOOLEAN
  <2>1. CASE registry.valid
    BY <2>1 DEF TypeOK, AppStart, NoWrite, Registry
  <2>2. CASE ~registry.valid
    <3>1. imageRegistryDefault \in Registry
      BY DEF imageRegistryDefault, OpState, Registry
    <3> QED
      BY <2>2, <3>1 DEF AppStart, Write
  <2> QED
    BY <2>1, <2>2
<1>2. resets' \in 0 .. ResetCountWrap - 1
  BY ResetCount DEF TypeOK, AppStart, ResetCounts
<1>3. TypeOK'
  BY <1>1, <1>2 DEF TypeOK, AppStart, images, bounds, Registry
<1>4. PcOK'
  BY ResetCount, SlotsAre, VersionsAssumption
     DEF PcOK, TypeOK, AppStart, NoWrite, Write, images, bounds, Starting,
         Serving, Up, DownloadPcs, ResetCounts, imageRegistryDefault, OpState
<1> QED
  BY <1>3, <1>4

LEMMA SetLoadedTyped == TypeInv /\ SetLoaded => TypeInv'
<1> SUFFICES ASSUME TypeOK, PcOK, SetLoaded PROVE TypeOK' /\ PcOK'
  BY DEF TypeInv
<1>1. CurrentSlot' = CurrentSlot
  BY DEF TypeOK, SetLoaded, NoWrite, Write, CurrentSlot
<1>2. registry' \in Registry /\ wrote' \in BOOLEAN
  <2>1. CASE NoWrite
    BY <2>1 DEF TypeOK, NoWrite, Registry
  <2>2. CASE Write([registry EXCEPT !.loaded = CurrentSlot])
    BY <2>2, CurrentSlotIs DEF TypeOK, Write, Registry
  <2> QED
    BY <2>1, <2>2 DEF SetLoaded
<1>3. pc' \in {"verify", "opState"} /\ (pc' = "opState" => CurrentSlot \in Slot)
  BY CurrentSlotIs DEF SetLoaded
<1>4. TypeOK'
  BY <1>2, <1>3 DEF TypeOK, SetLoaded, images, bounds, Registry
<1>5. PcOK'
  BY <1>1, <1>3 DEF PcOK, SetLoaded, Starting, Serving, Up, DownloadPcs
<1> QED
  BY <1>4, <1>5

LEMMA SetOpStateTyped == TypeInv /\ SetOpState => TypeInv'
<1> SUFFICES ASSUME TypeOK, PcOK, SetOpState PROVE TypeOK' /\ PcOK'
  BY DEF TypeInv
<1>1. CurrentSlot' = CurrentSlot
  BY DEF TypeInv, TypeOK, SetOpState, NoWrite, Write, CurrentSlot
<1>2. registry' \in Registry /\ wrote' \in BOOLEAN
  <2>1. CASE NoWrite
    BY <2>1 DEF TypeOK, NoWrite, Registry
  <2>2. CASE Write([registry EXCEPT !.op[CurrentSlot] = "PARTIAL"])
    BY <2>2 DEF TypeOK, Write, Registry, OpState
  <2>3. CASE Write([registry EXCEPT !.op[Alternate(CurrentSlot)] = "FAILED"])
    BY <2>3 DEF TypeOK, Write, Registry, OpState
  <2> QED
    BY <2>1, <2>2, <2>3 DEF SetOpState
<1>3. TypeOK'
  BY <1>2 DEF TypeOK, SetOpState, images, bounds, Registry
<1>4. PcOK'
  BY <1>1, SlotsAre
     DEF PcOK, TypeOK, SetOpState, NoWrite, Write, images, bounds, Starting,
         Serving, Up, DownloadPcs, OpState
<1> QED
  BY <1>3, <1>4

LEMMA SetFallbackPrimaryTyped == TypeInv /\ SetFallbackPrimary => TypeInv'
<1> SUFFICES ASSUME TypeOK, PcOK, SetFallbackPrimary PROVE TypeOK' /\ PcOK'
  BY DEF TypeInv
<1>1. CurrentSlot' = CurrentSlot
  BY DEF TypeInv, TypeOK, SetFallbackPrimary, NoWrite, Write, CurrentSlot
<1>2. TypeOK'
  BY <1>1, SlotsAre
     DEF TypeOK, SetFallbackPrimary, NoWrite, Write, images, bounds, OpState,
         PcOK
<1>3. PcOK'
  BY <1>1, SlotsAre
     DEF PcOK, TypeOK, SetFallbackPrimary, NoWrite, Write, images, bounds,
         Starting, Serving, Up, DownloadPcs, OpState
<1> QED
  BY <1>2, <1>3

LEMMA ProgramSsmTyped ==
    ASSUME TypeOK, NEW first \in Slot, NEW second \in Slot, NEW ok \in BOOLEAN,
           ProgramSsm(first, second, ok)
    PROVE  /\ ssm' \in Versions \cup {Broken} /\ faults' \in 0 .. NumFaults
           /\ downloads' = downloads
<1>1. faults \in 0 .. NumFaults /\ NumFaults \in Nat
  BY BoundsAssumption DEF TypeOK
<1>2. ssmImage[first] \in Versions \cup {Broken} /\ ssmImage[second] \in Versions \cup {Broken}
  BY DEF TypeOK
<1>3. /\ \E b \in BOOLEAN : FaultIf(b)
      /\ ssm' \in {ssm, ssmImage[first], ssmImage[second]}
  BY DEF ProgramSsm
<1> QED
  BY <1>1, <1>2, <1>3 DEF TypeOK, FaultIf

LEMMA EraseSsmTyped == TypeInv /\ EraseSsm => TypeInv'
<1> SUFFICES ASSUME TypeOK, PcOK, EraseSsm PROVE TypeOK' /\ PcOK'
  BY DEF TypeInv
<1>1. TypeOK'
  <2>1. /\ ssm' \in Versions \cup {Broken} /\ wrote' \in BOOLEAN
        /\ app' = app /\ amImage' = amImage /\ ssmImage' = ssmImage
        /\ registry' = registry /\ resets' = resets /\ blCache' = blCache
        /\ pc' = pc /\ downloads' = downloads /\ faults' = faults
    BY DEF EraseSsm, NoWrite, images, bounds
  <2>2. registry \in Registry /\ blCache \in Cache
    BY DEF TypeOK, Registry, Cache
  <2> QED
    BY <2>1, <2>2 DEF TypeOK, Registry, Cache
<1>2. /\ app' = app /\ amImage' = amImage /\ registry' = registry
      /\ blCache' = blCache /\ pc' = pc /\ pc # "load"
  BY DEF EraseSsm, NoWrite, images, ProgramPcs
<1>3. CurrentSlot' = CurrentSlot /\ DownloadSlot' = DownloadSlot
  BY <1>2 DEF CurrentSlot, DownloadSlot
<1>4. PcOK'
  BY <1>2, <1>3 DEF PcOK
<1> QED
  BY <1>1, <1>4

LEMMA StartSsmTyped == TypeInv /\ StartSsm => TypeInv'
  BY ProgramSsmTyped, SlotsAre
     DEF TypeInv, PcOK, TypeOK, StartSsm, NoWrite, images, Starting, Serving,
         Up, DownloadPcs

LEMMA VerifySsmTyped == TypeInv /\ VerifySsm => TypeInv'
<1> SUFFICES ASSUME TypeOK, PcOK, VerifySsm PROVE TypeOK' /\ PcOK'
  BY DEF TypeInv
<1>1. registry' \in Registry /\ wrote' \in BOOLEAN
  <2>1. CASE NoWrite
    BY <2>1 DEF TypeOK, NoWrite, Registry
  <2>2. CASE Write([registry EXCEPT !.op[registry.loaded] = "FAILED"])
    BY <2>2 DEF TypeOK, Write, Registry, OpState
  <2> QED
    BY <2>1, <2>2 DEF VerifySsm
<1>2. pc' \in {"rollPrimary", "run"}
  BY DEF VerifySsm
<1>3. TypeOK'
  BY <1>1, <1>2 DEF TypeOK, VerifySsm, images, bounds, Registry
<1>4. PcOK'
  BY SlotsAre
     DEF PcOK, TypeOK, VerifySsm, HasFallback, NoWrite, Write, images, bounds,
         Starting, Serving, Up, DownloadPcs, OpState
<1> QED
  BY <1>3, <1>4

LEMMA RollPrimaryTyped == TypeInv /\ RollPrimary => TypeInv'
  BY SlotsAre
     DEF TypeInv, PcOK, TypeOK, RollPrimary, NoWrite, Write, images, bounds,
         Starting, Serving, Up, DownloadPcs, OpState

LEMMA RollSsmTyped == TypeInv /\ RollSsm => TypeInv'
<1> SUFFICES ASSUME TypeOK, PcOK, RollSsm PROVE TypeOK' /\ PcOK'
  BY DEF TypeInv
<1>1. /\ ssm' \in Versions \cup {Broken} /\ faults' \in 0 .. NumFaults
      /\ downloads' = downloads
  BY ProgramSsmTyped, SlotsAre DEF RollSsm, PcOK, Slot
<1>2. resets' \in 0 .. ResetCountWrap - 1 /\ pc' \in {"bl", "run"}
  BY ZeroTyped DEF TypeOK, RollSsm
<1>3. UNCHANGED <<app, amImage, ssmImage, registry, blCache>> /\ wrote' = FALSE
  BY DEF RollSsm, NoWrite, images
<1>4. TypeOK'
  <2>1. CASE pc' = "bl"
    BY <1>1, <1>2, <1>3, <2>1 DEF TypeOK
  <2>2. CASE pc' = "run"
    BY <1>1, <1>2, <1>3, <2>2 DEF TypeOK
  <2> QED
    BY <1>2, <2>1, <2>2
<1>5. pc = "rollSsm"
  BY DEF RollSsm
<1>6. PcOK'
  BY <1>2, <1>3, <1>5 DEF PcOK, Starting, Serving, Up, DownloadPcs
<1> QED
  BY <1>4, <1>6

LEMMA ConnectTyped == TypeInv /\ Connect => TypeInv'
  BY SlotsAre
     DEF TypeInv, PcOK, TypeOK, Connect, NoWrite, Write, images, bounds,
         Starting, Serving, Up, DownloadPcs, OpState

LEMMA DownloadAmTyped == TypeInv /\ DownloadAm => TypeInv'
<1> SUFFICES ASSUME TypeOK, PcOK, DownloadAm PROVE TypeOK' /\ PcOK'
  BY DEF TypeInv
<1>1. downloads' \in 0 .. NumDownloads
  BY BoundsAssumption DEF TypeOK, DownloadAm
<1>2. TypeOK'
  BY <1>1, SlotsAre DEF TypeOK, DownloadAm, NoWrite, Write
<1>3. PcOK'
  BY BoundsAssumption, SlotsAre
     DEF PcOK, TypeOK, DownloadAm, NoWrite, Write, Starting, Serving, Up,
         DownloadPcs
<1> QED
  BY <1>2, <1>3

LEMMA DownloadSlotIs ==
    /\ DownloadSlot \in Slot
    /\ registry.loaded \in Slot => DownloadSlot = Alternate(registry.loaded)
    /\ registry.loaded \notin Slot => DownloadSlot = "A"
  BY DEF DownloadSlot, Slot, Alternate

LEMMA DownloadSsmTyped == TypeInv /\ DownloadSsm => TypeInv'
<1> SUFFICES ASSUME TypeOK, PcOK, DownloadSsm PROVE TypeOK' /\ PcOK'
  BY DEF TypeInv
<1>1. /\ pc = "download" /\ pc' = "downloadSsm" /\ app' = app /\ blCache' = blCache
      /\ registry' = registry /\ wrote' = FALSE /\ ssm' = ssm /\ resets' = resets
  BY DEF DownloadSsm, NoWrite
<1>2. PICK v \in Versions \cup {Broken} :
         amImage' = [amImage EXCEPT ![DownloadSlot] = v] /\ FaultIf(v = Broken)
  BY DEF DownloadSsm
<1>3. faults' \in 0 .. NumFaults /\ downloads' = downloads
  <2>1. (v = Broken) \in BOOLEAN
    OBVIOUS
  <2> QED
    BY <1>2, <2>1, FaultTyped
<1>4. amImage' \in [Slot -> Versions \cup {Broken}]
  BY <1>2, DownloadSlotIs DEF TypeOK
<1>5. ssmImage' \in [Slot -> Versions \cup {Broken}]
  BY DownloadSlotIs DEF TypeOK, DownloadSsm
<1>6. TypeOK'
  BY <1>1, <1>3, <1>4, <1>5 DEF TypeOK
<1>7. PcOK'
  BY <1>1 DEF PcOK, Starting, Serving, Up, DownloadPcs
<1> QED
  BY <1>6, <1>7

LEMMA DownloadGoodTyped == TypeInv /\ DownloadGood => TypeInv'
<1> SUFFICES ASSUME TypeInv, DownloadGood PROVE TypeInv'
  OBVIOUS
<1>1. DownloadSlot' = DownloadSlot /\ amImage[DownloadSlot] \in Versions
  BY DownloadSlotIs DEF TypeInv, TypeOK, DownloadGood, Write, DownloadSlot
<1> QED
  BY <1>1, DownloadSlotIs, SlotsAre
     DEF TypeInv, PcOK, TypeOK, DownloadGood, Write, bounds, Starting, Serving,
         Up, DownloadPcs, OpState

LEMMA DownloadBadTyped == TypeInv /\ DownloadBad => TypeInv'
<1> SUFFICES ASSUME TypeOK, PcOK, DownloadBad PROVE TypeOK' /\ PcOK'
  BY DEF TypeInv
<1>1. faults' \in 0 .. NumFaults /\ downloads' = downloads
  <2>1. (amImage[DownloadSlot] # Broken) \in BOOLEAN
    OBVIOUS
  <2> QED
    BY <2>1, FaultTyped DEF DownloadBad
<1>2. TypeOK'
  BY <1>1, DownloadSlotIs DEF TypeOK, DownloadBad, NoWrite
<1>3. pc = "downloadSsm" /\ pc' = "run" /\ app' = app /\ blCache' = blCache
  BY DEF DownloadBad
<1>4. PcOK'
  BY <1>3 DEF PcOK, Starting, Serving, Up, DownloadPcs
<1> QED
  BY <1>2, <1>4

LEMMA DownloadBailTyped == TypeInv /\ DownloadBail => TypeInv'
<1> SUFFICES ASSUME TypeOK, PcOK, DownloadBail PROVE TypeOK' /\ PcOK'
  BY DEF TypeInv
<1>1. faults' \in 0 .. NumFaults /\ downloads' = downloads
  BY FaultTyped DEF DownloadBail
<1>2. TypeOK'
  BY <1>1 DEF TypeOK, DownloadBail, NoWrite, images
<1>3. pc \in {"download", "downloadSsm"} /\ pc' = "run" /\ app' = app /\ blCache' = blCache
  BY DEF DownloadBail
<1>4. PcOK'
  BY <1>3 DEF PcOK, Starting, Serving, Up, DownloadPcs
<1> QED
  BY <1>2, <1>4

LEMMA SetVersionTyped == TypeInv /\ SetVersion => TypeInv'
  BY DownloadSlotIs, SlotsAre
     DEF TypeInv, PcOK, TypeOK, SetVersion, Write, images, bounds, Starting,
         Serving, Up, DownloadPcs, OpState

LEMMA SetPrimaryTyped == TypeInv /\ SetPrimary => TypeInv'
  BY DownloadSlotIs, SlotsAre
     DEF TypeInv, PcOK, TypeOK, SetPrimary, Write, images, bounds, Starting,
         Serving, Up, DownloadPcs, OpState

LEMMA OtaBeginTyped == TypeInv /\ OtaBegin => TypeInv'
<1> SUFFICES ASSUME TypeOK, PcOK, OtaBegin PROVE TypeOK' /\ PcOK'
  BY DEF TypeInv
<1>1. TypeOK'
  BY DEF TypeOK, OtaBegin, NoWrite, images, bounds
<1>2. /\ pc = "otaSsm" /\ pc' = "otaProgram" /\ app' = app /\ blCache' = blCache
      /\ registry' = registry
  BY DEF OtaBegin, NoWrite
<1>3. PcOK'
  BY <1>2 DEF PcOK, Starting, Serving, Up, DownloadPcs
<1> QED
  BY <1>1, <1>3

LEMMA OtaSsmTyped == TypeInv /\ OtaSsm => TypeInv'
<1> SUFFICES ASSUME TypeOK, PcOK, OtaSsm PROVE TypeOK' /\ PcOK'
  BY DEF TypeInv
<1>1. /\ ssm' \in Versions \cup {Broken} /\ faults' \in 0 .. NumFaults
      /\ downloads' = downloads
  BY ProgramSsmTyped, SlotsAre DEF OtaSsm, PcOK, Slot
<1>2. resets' \in 0 .. ResetCountWrap - 1 /\ pc' \in {"bl"}
  BY ZeroTyped DEF TypeOK, OtaSsm
<1>3. UNCHANGED <<app, amImage, ssmImage, registry, blCache>> /\ wrote' = FALSE
  BY DEF OtaSsm, NoWrite, images
<1>4. TypeOK'
  BY <1>1, <1>2, <1>3 DEF TypeOK
<1>5. pc = "otaProgram"
  BY DEF OtaSsm
<1>6. PcOK'
  BY <1>2, <1>3, <1>5 DEF PcOK, Starting, Serving, Up, DownloadPcs
<1> QED
  BY <1>4, <1>6

LEMMA OtaSsmFailsTyped == TypeInv /\ OtaSsmFails => TypeInv'
<1> SUFFICES ASSUME TypeOK, PcOK, OtaSsmFails PROVE TypeOK' /\ PcOK'
  BY DEF TypeInv
<1>1. TypeOK'
  BY ProgramSsmTyped, BoundsAssumption, SlotsAre
     DEF TypeOK, OtaSsmFails, Write, images, OpState, PcOK
<1>2. PcOK'
  BY ProgramSsmTyped, BoundsAssumption, SlotsAre
     DEF PcOK, TypeOK, OtaSsmFails, Write, images, Starting, Serving, Up,
         DownloadPcs, OpState
<1> QED
  BY <1>1, <1>2

LEMMA OtaPrimaryTyped == TypeInv /\ OtaPrimary => TypeInv'
  BY SlotsAre
     DEF TypeInv, PcOK, TypeOK, OtaPrimary, Write, images, bounds, Starting,
         Serving, Up, DownloadPcs, OpState

LEMMA OtaRollSsmTyped == TypeInv /\ OtaRollSsm => TypeInv'
<1> SUFFICES ASSUME TypeOK, PcOK, OtaRollSsm PROVE TypeOK' /\ PcOK'
  BY DEF TypeInv
<1>1. /\ ssm' \in Versions \cup {Broken} /\ faults' \in 0 .. NumFaults
      /\ downloads' = downloads
  BY ProgramSsmTyped, SlotsAre DEF OtaRollSsm, PcOK, Slot
<1>2. resets' \in 0 .. ResetCountWrap - 1 /\ pc' \in {"asleep", "run"}
  BY ZeroTyped DEF TypeOK, OtaRollSsm
<1>3. UNCHANGED <<app, amImage, ssmImage, registry, blCache>> /\ wrote' = FALSE
  BY DEF OtaRollSsm, NoWrite, images
<1>4. TypeOK'
  <2>1. CASE pc' = "asleep"
    BY <1>1, <1>2, <1>3, <2>1 DEF TypeOK
  <2>2. CASE pc' = "run"
    BY <1>1, <1>2, <1>3, <2>2 DEF TypeOK
  <2> QED
    BY <1>2, <2>1, <2>2
<1>5. pc = "otaRollSsm"
  BY DEF OtaRollSsm
<1>6. PcOK'
  BY <1>2, <1>3, <1>5 DEF PcOK, Starting, Serving, Up, DownloadPcs
<1> QED
  BY <1>4, <1>6

LEMMA SleepTyped == TypeInv /\ Sleep => TypeInv'
<1> SUFFICES ASSUME TypeOK, PcOK, Sleep PROVE TypeOK' /\ PcOK'
  BY DEF TypeInv
<1>1. TypeOK'
  BY ZeroTyped DEF TypeOK, Sleep, NoWrite, images, bounds
<1>2. PcOK'
  BY BoundsAssumption
     DEF PcOK, TypeOK, Sleep, NoWrite, images, bounds, Starting, Serving, Up,
         DownloadPcs
<1> QED
  BY <1>1, <1>2

LEMMA WatchdogResetTyped == TypeInv /\ WatchdogReset => TypeInv'
<1> SUFFICES ASSUME TypeOK, PcOK, WatchdogReset PROVE TypeOK' /\ PcOK'
  BY DEF TypeInv
<1>1. faults' \in 0 .. NumFaults /\ downloads' = downloads
  BY FaultTyped DEF WatchdogReset
<1>2. TypeOK'
  BY <1>1 DEF TypeOK, WatchdogReset, NoWrite, images
<1>3. PcOK'
  BY BoundsAssumption
     DEF PcOK, TypeOK, WatchdogReset, NoWrite, FaultIf, images, Starting,
         Serving, Up, DownloadPcs
<1> QED
  BY <1>2, <1>3

LEMMA PowerUpTyped == TypeInv /\ FromPowerOff => TypeInv'
  BY DEF TypeInv, PcOK, TypeOK, FromPowerOff, NoWrite, images, bounds, Starting,
         Serving, Up, DownloadPcs

LEMMA PowerLossTyped == TypeInv /\ PowerLoss => TypeInv'
<1> SUFFICES ASSUME TypeOK, PcOK, PowerLoss PROVE TypeOK' /\ PcOK'
  BY DEF TypeInv
<1>1. faults' \in 0 .. NumFaults /\ downloads' = downloads
  BY FaultTyped DEF PowerLoss
<1>2. TypeOK'
  BY <1>1 DEF TypeOK, PowerLoss, images
<1>3. PcOK'
  BY BoundsAssumption
     DEF PcOK, TypeOK, PowerLoss, FaultIf, images, Starting, Serving, Up,
         DownloadPcs
<1> QED
  BY <1>2, <1>3

LEMMA StutterTyped == TypeInv /\ UNCHANGED vars => TypeInv'
  BY DEF TypeInv, PcOK, TypeOK, vars, Decide, xNominalMode, xPanicMode,
         xManufacturingMode, xCasesTenThroughSixteen,
         xCasesSeventeenThroughNineteen, ImageOk, Load, Start, CurrentSlot,
         DownloadSlot

LEMMA InitTyped == Init => TypeInv
<1> SUFFICES ASSUME Init PROVE TypeInv
  OBVIOUS
<1>1. registry \in Registry
  BY DEF Init, imageRegistryDefault, OpState, Registry
<1>2. blCache \in Cache /\ resets \in 0 .. ResetCountWrap - 1
  BY ZeroTyped DEF Init, Cache
<1>3. downloads \in 0 .. NumDownloads /\ faults \in 0 .. NumFaults
  BY BoundsAssumption DEF Init
<1>4. TypeOK
  BY <1>1, <1>2, <1>3 DEF Init, TypeOK, Registry, Cache
<1>5. PcOK
  BY DEF Init, PcOK, Starting, Serving, Up, DownloadPcs
<1> QED
  BY <1>4, <1>5 DEF TypeInv

LEMMA StepTyped == TypeInv /\ [Next]_vars => TypeInv'
<1> SUFFICES ASSUME TypeInv, [Next]_vars PROVE TypeInv'
  OBVIOUS
<1>1. CASE Boot
  BY <1>1, MfgSetupTyped, BootStartTyped, BootEraseTyped, BootProgramTyped
     DEF Boot
<1>2. CASE Startup
  BY <1>2, CrashResetTyped, AppStartTyped, SetLoadedTyped, SetOpStateTyped,
     SetFallbackPrimaryTyped, EraseSsmTyped, StartSsmTyped, VerifySsmTyped, RollPrimaryTyped,
     RollSsmTyped DEF Startup
<1>3. CASE Ota
  BY <1>3, DownloadSsmTyped, DownloadGoodTyped, DownloadBadTyped,
     SetVersionTyped, SetPrimaryTyped, OtaBeginTyped, OtaSsmTyped,
     OtaSsmFailsTyped, OtaPrimaryTyped, OtaRollSsmTyped
     DEF Ota
<1>4. CASE Connect \/ DownloadAm \/ DownloadBail \/ Sleep \/ WatchdogReset
  BY <1>4, ConnectTyped, DownloadAmTyped, DownloadBailTyped, SleepTyped,
     WatchdogResetTyped
<1>5. CASE PowerUp \/ WatchdogCycle \/ PowerLoss
  BY <1>5, PowerUpTyped, PowerLossTyped DEF PowerUp, WatchdogCycle
<1>6. CASE UNCHANGED vars
  BY <1>6, StutterTyped
<1> QED
  BY <1>1, <1>2, <1>3, <1>4, <1>5, <1>6 DEF Next

(* Every variable of the boot and update model keeps its type, whatever    *)
(* versions, limits and numbers of downloads and faults.  PcOK is needed:  *)
(* wherever an image or the state of a slot is read or written, the slot   *)
(* that the code computes is A or B.                                       *)
THEOREM TypeCorrect == Spec => []TypeOK
  BY InitTyped, StepTyped, PTL DEF Spec, TypeInv
-----------------------------------------------------------------------------
(* The images and the versions that the registry has for them.             *)

Known(s) == registry.version[s] \in Versions

(* A slot named by the running version holds it; the slot loaded last is   *)
(* named by what it holds; no version is in both slots; before a slot has  *)
(* been loaded, slot B has never been used; and the application never      *)
(* downloads over the version that runs.                                   *)
ImagesInv ==
    /\ \A s \in Slot :
          app \in Versions /\ registry.version[s] = app => amImage[s] = app
    /\ registry.loaded \in Slot
          => Known(registry.loaded)
             /\ registry.version[registry.loaded] = amImage[registry.loaded]
    /\ \A s \in Slot :
          Known(s) => registry.version[s] # registry.version[Alternate(s)]
    /\ \A s \in Slot :
          amImage[s] \in Versions => amImage[s] # amImage[Alternate(s)]
    /\ registry.loaded = UNKNOWN_SLOT
          => /\ registry.version["B"] = NoVersion
             /\ Known("A") => registry.version["A"] # amImage["B"]
    /\ app = Package => amImage["B"] = Broken /\ pc \in {"bl", "app"}
    /\ pc \in Up => CurrentSlot \in {UNKNOWN_SLOT, registry.loaded}
    /\ pc \in DownloadPcs => registry.version[DownloadSlot] # app
    /\ pc \in {"downloadSsm", "setVersion"} => amImage[DownloadSlot] # app

(* The registry's version of a slot is never the image of the other slot. *)
LEMMA OtherImageIsOther ==
    ASSUME TypeInv, ImagesInv
    PROVE  \A s \in Slot : Known(s) => registry.version[s] # amImage[Alternate(s)]
<1> SUFFICES ASSUME NEW s \in Slot, Known(s)
             PROVE  registry.version[s] # amImage[Alternate(s)]
  OBVIOUS
<1>1. CASE registry.loaded = s
  BY <1>1, SlotsAre DEF ImagesInv, Known
<1>2. CASE registry.loaded = Alternate(s)
  BY <1>2, SlotsAre DEF ImagesInv, Known
<1>3. CASE registry.loaded = UNKNOWN_SLOT
  <2>1. s = "A" /\ Alternate(s) = "B"
    BY <1>3, VersionsAssumption DEF ImagesInv, Known, Slot, Alternate
  <2> QED
    BY <1>3, <2>1 DEF ImagesInv
<1>4. registry.loaded \in Slot \cup {UNKNOWN_SLOT}
  BY DEF TypeInv, TypeOK
<1> QED
  BY <1>1, <1>2, <1>3, <1>4 DEF Slot, Alternate

(* MEM_getSlotWithThisVersion finds the only slot of the running version.  *)
LEMMA CurrentIsOnly ==
    ASSUME ImagesInv, NEW s \in Slot, app \in Versions, registry.version[s] = app
    PROVE  CurrentSlot = s
  BY DEF ImagesInv, Known, CurrentSlot, Slot, Alternate

LEMMA DownloadSpares ==
    ASSUME TypeInv, ImagesInv, pc = "run"
    PROVE  registry.version[DownloadSlot] # app
<1>1. app \in Versions
  BY DEF TypeInv, PcOK, Up, Serving
<1>2. CurrentSlot \in {UNKNOWN_SLOT, registry.loaded}
  BY DEF ImagesInv, Up, Serving
<1>3. registry.loaded \in Slot \cup {UNKNOWN_SLOT}
  BY DEF TypeInv, TypeOK
<1>4. DownloadSlot \in Slot /\ DownloadSlot # registry.loaded
  BY <1>3, DownloadSlotIs, SlotsAre
<1> QED
  BY <1>1, <1>2, <1>4, CurrentIsOnly, SlotsAre

(* Steps that touch neither an image nor what the registry knows of one. *)
Quiet ==
    /\ UNCHANGED <<app, amImage>>
    /\ registry'.version = registry.version
    /\ registry'.loaded = registry.loaded
    /\ pc' \in Up => pc \in Up
    /\ pc' \in DownloadPcs => pc \in DownloadPcs
    /\ pc' \in {"downloadSsm", "setVersion"} => pc \in {"downloadSsm", "setVersion"}
    /\ app = Package => pc' \in {"bl", "app"}

LEMMA SameSlots ==
    ASSUME registry'.version = registry.version, registry'.loaded = registry.loaded,
           app' = app
    PROVE  CurrentSlot' = CurrentSlot /\ DownloadSlot' = DownloadSlot
  BY DEF CurrentSlot, DownloadSlot

LEMMA QuietKeeps == ImagesInv /\ Quiet => ImagesInv'
<1> SUFFICES ASSUME ImagesInv, Quiet PROVE ImagesInv'
  OBVIOUS
<1>1. CurrentSlot' = CurrentSlot /\ DownloadSlot' = DownloadSlot
  BY SameSlots DEF Quiet
<1> QED
  BY <1>1 DEF ImagesInv, Quiet, Known

LEMMA StartupIsQuiet ==
    ASSUME TypeInv, ImagesInv,
           CrashReset \/ SetOpState \/ SetFallbackPrimary \/ EraseSsm \/ StartSsm
           \/ VerifySsm \/ RollPrimary \/ RollSsm \/ (AppStart /\ registry.valid)
    PROVE  Quiet
<1> USE DEF Quiet, Up, Starting, Serving, DownloadPcs, ImagesInv, images
<1>1. CASE CrashReset
  BY <1>1, VersionsAssumption DEF CrashReset, NoWrite
<1>2. CASE SetOpState
  BY <1>2 DEF SetOpState, NoWrite, Write, TypeInv, TypeOK
<1>3. CASE SetFallbackPrimary
  BY <1>3 DEF SetFallbackPrimary, NoWrite, Write, TypeInv, TypeOK
<1>4. CASE StartSsm
  BY <1>4 DEF StartSsm, NoWrite, Write
<1>5. CASE VerifySsm
  BY <1>5 DEF VerifySsm, NoWrite, Write, TypeInv, TypeOK
<1>6. CASE RollPrimary
  BY <1>6 DEF RollPrimary, NoWrite, Write, TypeInv, TypeOK
<1>7. CASE RollSsm
  BY <1>7 DEF RollSsm, NoWrite, Write
<1>8. CASE AppStart /\ registry.valid
  BY <1>8, VersionsAssumption DEF AppStart, NoWrite, Write
<1>9. CASE EraseSsm
  BY <1>9 DEF EraseSsm, NoWrite
<1> QED
  BY <1>1, <1>2, <1>3, <1>4, <1>5, <1>6, <1>7, <1>8, <1>9

LEMMA ServingIsQuiet ==
    ASSUME TypeInv, ImagesInv,
           Connect \/ DownloadGood \/ DownloadBail \/ SetPrimary \/ OtaBegin \/ OtaSsm
           \/ OtaSsmFails \/ OtaPrimary \/ OtaRollSsm
    PROVE  Quiet
<1> USE DEF Quiet, Up, Starting, Serving, DownloadPcs, ImagesInv, images
<1>1. CASE Connect
  BY <1>1 DEF Connect, Write, TypeInv, TypeOK
<1>2. CASE DownloadGood
  BY <1>2 DEF DownloadGood, Write, TypeInv, TypeOK
<1>3. CASE DownloadBail
  BY <1>3 DEF DownloadBail, NoWrite
<1>4. CASE SetPrimary
  BY <1>4 DEF SetPrimary, Write, TypeInv, TypeOK
<1>5. CASE OtaSsm
  BY <1>5 DEF OtaSsm, NoWrite
<1>6. CASE OtaSsmFails
  BY <1>6 DEF OtaSsmFails, Write, TypeInv, TypeOK
<1>7. CASE OtaPrimary
  BY <1>7 DEF OtaPrimary, Write, TypeInv, TypeOK
<1>8. CASE OtaRollSsm
  BY <1>8 DEF OtaRollSsm, NoWrite
<1>9. CASE OtaBegin
  BY <1>9 DEF OtaBegin, NoWrite
<1> QED
  BY <1>1, <1>2, <1>3, <1>4, <1>5, <1>6, <1>7, <1>8, <1>9

LEMMA PowerIsQuiet ==
    ASSUME TypeInv, ImagesInv,
           BootStart \/ Sleep \/ WatchdogReset \/ FromPowerOff \/ PowerLoss
           \/ UNCHANGED vars
    PROVE  Quiet
<1> USE DEF Quiet, Up, Starting, Serving, DownloadPcs, ImagesInv, images
<1>1. CASE BootStart
  BY <1>1 DEF BootStart, NoWrite
<1>2. CASE Sleep
  BY <1>2 DEF Sleep, NoWrite
<1>3. CASE WatchdogReset
  BY <1>3 DEF WatchdogReset, NoWrite
<1>4. CASE FromPowerOff
  BY <1>4 DEF FromPowerOff, NoWrite
<1>5. CASE PowerLoss
  BY <1>5 DEF PowerLoss, TypeInv, TypeOK
<1>6. CASE UNCHANGED vars
  BY <1>6 DEF vars
<1> QED
  BY <1>1, <1>2, <1>3, <1>4, <1>5, <1>6

LEMMA NoNames ==
    /\ Broken \notin Versions /\ Package \notin Versions /\ NoVersion \notin Versions
    /\ Broken # Package /\ FirstVersion \in Versions
  BY VersionsAssumption

LEMMA DefaultIs ==
    /\ imageRegistryDefault.loaded = UNKNOWN_SLOT
    /\ imageRegistryDefault.valid
    /\ imageRegistryDefault.primary = UNKNOWN_SLOT
    /\ \A s \in Slot : /\ imageRegistryDefault.version[s] = NoVersion
                       /\ imageRegistryDefault.op[s] = "OP_UNKNOWN"
  BY DEF imageRegistryDefault

LEMMA MfgSetupKeepsImages == TypeInv /\ ImagesInv /\ MfgSetup => ImagesInv'
<1> SUFFICES ASSUME TypeInv, ImagesInv, MfgSetup PROVE ImagesInv'
  OBVIOUS
<1>1. app' = Package /\ pc' = "bl" /\ app = Package
  BY DEF MfgSetup
<1>2. amImage'["A"] = FirstVersion /\ amImage'["B"] = Broken
  BY <1>1 DEF MfgSetup, TypeInv, TypeOK, ImagesInv, Slot
<1>3. /\ registry'.loaded = UNKNOWN_SLOT
      /\ registry'.version["A"] = FirstVersion /\ registry'.version["B"] = NoVersion
  BY DEF MfgSetup, Write, imageRegistryDefault, Slot
<1> QED
  BY <1>1, <1>2, <1>3, NoNames
     DEF ImagesInv, Known, Slot, Alternate, UNKNOWN_SLOT, Up, Starting,
         Serving, DownloadPcs

LEMMA BootEraseKeepsImages == TypeInv /\ ImagesInv /\ BootErase => ImagesInv'
<1> SUFFICES ASSUME TypeInv, ImagesInv, BootErase PROVE ImagesInv'
  OBVIOUS
<1>1. app' = Broken /\ pc' = "load" /\ amImage' = amImage /\ registry' = registry
  BY DEF BootErase, NoWrite, images
<1> QED
  BY <1>1, NoNames DEF ImagesInv, Known, Up, Starting, Serving, DownloadPcs

LEMMA BootProgramKeepsImages == TypeInv /\ ImagesInv /\ BootProgram => ImagesInv'
<1> SUFFICES ASSUME TypeInv, ImagesInv, BootProgram PROVE ImagesInv'
  OBVIOUS
<1>1. pc' = "app" /\ amImage' = amImage /\ registry' = registry
  BY DEF BootProgram, NoWrite, images
<1>2. PICK s \in Slot : app' \in {amImage[s], Broken}
  BY DEF BootProgram, TypeInv, PcOK
<1>3. app' # Package
  BY <1>2, NoNames DEF TypeInv, TypeOK
<1>4. ASSUME NEW t \in Slot, app' \in Versions, registry.version[t] = app'
      PROVE  amImage[t] = app'
  <2>1. Known(t) /\ app' = amImage[s]
    BY <1>2, <1>4, NoNames DEF Known
  <2>2. s # Alternate(t)
    BY <2>1, <1>4, OtherImageIsOther
  <2>3. s = t
    BY <2>2 DEF Slot, Alternate
  <2> QED
    BY <2>1, <2>3
<1> QED
  BY <1>1, <1>3, <1>4 DEF ImagesInv, Known, Up, Starting, Serving, DownloadPcs

LEMMA AppStartKeepsImages ==
    TypeInv /\ ImagesInv /\ AppStart /\ ~registry.valid => ImagesInv'
<1> SUFFICES ASSUME TypeInv, ImagesInv, AppStart, ~registry.valid
             PROVE  ImagesInv'
  OBVIOUS
<1>1. /\ app' = app /\ pc' = "cacheInit" /\ amImage' = amImage
      /\ registry' = imageRegistryDefault /\ app \in Versions
  BY DEF AppStart, Write, images
<1>2. \A s \in Slot : registry'.version[s] = NoVersion
  BY <1>1, DefaultIs
<1>3. registry'.loaded = UNKNOWN_SLOT
  BY <1>1, DefaultIs
<1> QED
  BY <1>1, <1>2, <1>3, NoNames, SlotsAre
     DEF ImagesInv, Known, Up, Starting, Serving, DownloadPcs

LEMMA SetLoadedKeepsImages == TypeInv /\ ImagesInv /\ SetLoaded => ImagesInv'
<1> SUFFICES ASSUME TypeInv, ImagesInv, SetLoaded PROVE ImagesInv'
  OBVIOUS
<1>1. /\ app' = app /\ pc' \in {"verify", "opState"} /\ amImage' = amImage
      /\ registry'.version = registry.version /\ app \in Versions
  BY DEF SetLoaded, NoWrite, Write, images, TypeInv, TypeOK, PcOK
<1>2. registry'.loaded = IF CurrentSlot \in Slot THEN CurrentSlot ELSE registry.loaded
  BY CurrentSlotIs, SlotsAre DEF SetLoaded, NoWrite, Write, TypeInv, TypeOK
<1>3. CurrentSlot' = CurrentSlot
  BY <1>1 DEF CurrentSlot
<1>4. CurrentSlot \in Slot => registry.version[CurrentSlot] = app /\ amImage[CurrentSlot] = app
  BY <1>1, CurrentSlotIs DEF ImagesInv
<1>5. CurrentSlot' \in {UNKNOWN_SLOT, registry'.loaded}
  BY <1>2, <1>3, CurrentSlotIs
<1>6. registry'.loaded \in Slot
          => Known(registry'.loaded)
             /\ registry.version[registry'.loaded] = amImage[registry'.loaded]
  BY <1>1, <1>2, <1>4 DEF ImagesInv, Known
<1>7. registry'.loaded = UNKNOWN_SLOT => registry.loaded = UNKNOWN_SLOT
  BY <1>2, SlotsAre
<1> QED
  BY <1>1, <1>5, <1>6, <1>7, NoNames DEF ImagesInv, Known, DownloadPcs

(* Steps of a download that write the AM image of its slot.                *)
LEMMA NewImageKeeps ==
    ASSUME TypeInv, ImagesInv, NEW v \in Versions \cup {Broken},
           pc \in {"run", "download", "downloadSsm"},
           pc' \in {"run", "download", "downloadSsm"},
           app' = app, registry' = registry,
           amImage' = [amImage EXCEPT ![DownloadSlot] = v],
           v \in Versions => v \notin {app, amImage[Alternate(DownloadSlot)]}
    PROVE  ImagesInv'
<1>1. CurrentSlot' = CurrentSlot /\ DownloadSlot' = DownloadSlot
  BY SameSlots
<1>2. registry.version[DownloadSlot] # app
  BY DownloadSpares DEF ImagesInv, DownloadPcs
<1>3. \A s \in Slot : amImage'[s] = IF s = DownloadSlot THEN v ELSE amImage[s]
  BY DEF TypeInv, TypeOK
<1>4. registry.loaded # DownloadSlot /\ DownloadSlot \in Slot
  BY DownloadSlotIs, SlotsAre
<1>5. registry.loaded = UNKNOWN_SLOT => DownloadSlot = "A"
  BY DownloadSlotIs, SlotsAre
<1>6. \A s \in Slot : amImage'[s] \in Versions => amImage'[s] # amImage'[Alternate(s)]
  BY <1>3, <1>4, NoNames, SlotsAre DEF ImagesInv, Slot, Alternate
<1>7. app \in Versions
  BY DEF TypeInv, PcOK, Up, Serving, DownloadPcs
<1>8. CurrentSlot \in {UNKNOWN_SLOT, registry.loaded}
  BY DEF ImagesInv, Up, Serving, DownloadPcs
<1>9. amImage'[DownloadSlot] # app
  BY <1>3, <1>4, <1>7, NoNames
<1>10. pc' \in Up /\ pc' # "bl"
  BY DEF Up, Serving, DownloadPcs
<1> QED
  BY <1>1, <1>2, <1>3, <1>4, <1>5, <1>6, <1>7, <1>8, <1>9, <1>10, NoNames
     DEF ImagesInv, Known, Slot

LEMMA DownloadAmKeepsImages == TypeInv /\ ImagesInv /\ DownloadAm => ImagesInv'
  BY NewImageKeeps, NoNames DEF DownloadAm, NoWrite

LEMMA DownloadBadKeepsImages == TypeInv /\ ImagesInv /\ DownloadBad => ImagesInv'
  BY NewImageKeeps, NoNames DEF DownloadBad, NoWrite

LEMMA DownloadSsmKeepsImages ==
    ASSUME TypeInv, ImagesInv, DownloadSsm,
           amImage'[DownloadSlot] \notin {app, amImage[Alternate(DownloadSlot)]} \ {Broken}
    PROVE  ImagesInv'
<1>1. PICK v \in Versions \cup {Broken} : amImage' = [amImage EXCEPT ![DownloadSlot] = v]
  BY DEF DownloadSsm
<1>2. amImage'[DownloadSlot] = v
  BY <1>1, DownloadSlotIs DEF TypeInv, TypeOK
<1>3. pc = "download" /\ pc' = "downloadSsm" /\ app' = app /\ registry' = registry
  BY DEF DownloadSsm, NoWrite
<1> QED
  BY <1>1, <1>2, <1>3, NewImageKeeps, NoNames

LEMMA SetVersionKeepsImages == TypeInv /\ ImagesInv /\ SetVersion => ImagesInv'
<1> SUFFICES ASSUME TypeInv, ImagesInv, SetVersion PROVE ImagesInv'
  OBVIOUS
<1> DEFINE v == amImage[DownloadSlot]
<1>1. v \in Versions /\ v \notin {app, amImage[Alternate(DownloadSlot)]}
  BY DownloadSlotIs DEF SetVersion, TypeInv, PcOK, ImagesInv
<1>2. /\ app' = app /\ pc' = "setPrimary" /\ pc = "setVersion" /\ amImage' = amImage
      /\ registry'.loaded = registry.loaded
  BY DEF SetVersion, Write, TypeInv, TypeOK, images
<1>3. \A s \in Slot :
         registry'.version[s] = IF s = DownloadSlot THEN v ELSE registry.version[s]
  BY DEF SetVersion, Write, TypeInv, TypeOK
<1>4. registry.version[DownloadSlot] # app
  BY <1>2 DEF ImagesInv, DownloadPcs
<1>5. app \in Versions
  BY <1>2 DEF TypeInv, PcOK, Up, Serving, DownloadPcs
<1>6. CurrentSlot' = CurrentSlot /\ DownloadSlot' = DownloadSlot
  BY <1>1, <1>2, <1>3, <1>4 DEF CurrentSlot, DownloadSlot, Slot
<1>7. registry.loaded # DownloadSlot /\ DownloadSlot \in Slot
  BY DownloadSlotIs, SlotsAre
<1>8. registry.loaded = UNKNOWN_SLOT => DownloadSlot = "A"
  BY DownloadSlotIs, SlotsAre
<1>9. CurrentSlot \in {UNKNOWN_SLOT, registry.loaded}
  BY <1>2 DEF ImagesInv, Up, Serving, DownloadPcs
<1>10. registry.version[Alternate(DownloadSlot)] # v
  <2>1. CASE registry.loaded \in Slot
    BY <2>1, <1>1, DownloadSlotIs, SlotsAre DEF ImagesInv
  <2>2. CASE registry.loaded = UNKNOWN_SLOT
    BY <2>2, <1>1, <1>8, NoNames DEF ImagesInv, Alternate
  <2> QED
    BY <2>1, <2>2 DEF TypeInv, TypeOK
<1>11. \A s \in Slot : registry'.version[s] \in Versions
          => registry'.version[s] # registry'.version[Alternate(s)]
  BY <1>3, <1>10, <1>7 DEF ImagesInv, Known, Slot, Alternate
<1>12. registry.loaded = UNKNOWN_SLOT
          => /\ registry'.version["B"] = NoVersion
             /\ registry'.version["A"] # amImage["B"]
  BY <1>1, <1>3, <1>8 DEF ImagesInv, Slot, Alternate
<1>13. \A s \in Slot :
          app \in Versions /\ registry'.version[s] = app => amImage[s] = app
  BY <1>1, <1>3 DEF ImagesInv
<1>14. registry.loaded \in Slot
          => registry'.version[registry.loaded] \in Versions
             /\ registry'.version[registry.loaded] = amImage[registry.loaded]
  BY <1>3, <1>7 DEF ImagesInv, Known
<1>15. registry'.version[DownloadSlot] # app
  BY <1>1, <1>3, <1>7
<1> QED
  BY <1>2, <1>5, <1>6, <1>9, <1>11, <1>12, <1>13, <1>14, <1>15, NoNames
     DEF ImagesInv, Known

LEMMA StepKeepsImages == TypeInv /\ ImagesInv /\ [FreshNext]_vars => ImagesInv'
<1> SUFFICES ASSUME TypeInv, ImagesInv, [FreshNext]_vars PROVE ImagesInv'
  OBVIOUS
<1> USE QuietKeeps
<1>1. CASE Boot
  BY <1>1, MfgSetupKeepsImages, BootEraseKeepsImages, BootProgramKeepsImages,
     PowerIsQuiet
     DEF Boot
<1>2. CASE Startup
  BY <1>2, StartupIsQuiet, AppStartKeepsImages, SetLoadedKeepsImages
     DEF Startup
<1>3. CASE Ota
  <2>1. DownloadSsm => amImage'[DownloadSlot]
                          \notin {app, amImage[Alternate(DownloadSlot)]} \ {Broken}
    BY <1>3 DEF FreshNext, vars, DownloadSsm
  <2> QED
    BY <1>3, <2>1, ServingIsQuiet, DownloadSsmKeepsImages,
       DownloadBadKeepsImages, SetVersionKeepsImages
       DEF Ota
<1>4. CASE Connect \/ DownloadAm \/ DownloadBail
  BY <1>4, ServingIsQuiet, DownloadAmKeepsImages
<1>5. CASE Sleep \/ WatchdogReset \/ PowerUp \/ WatchdogCycle \/ PowerLoss
           \/ UNCHANGED vars
  BY <1>5, PowerIsQuiet DEF PowerUp, WatchdogCycle
<1> QED
  BY <1>1, <1>2, <1>3, <1>4, <1>5 DEF FreshNext, Next

LEMMA InitImages == Init => ImagesInv
  BY NoNames
     DEF Init, ImagesInv, Known, imageRegistryDefault, Slot, Alternate,
         UNKNOWN_SLOT, Up, Starting, Serving, DownloadPcs

-----------------------------------------------------------------------------
(* The bootloader's decision.                                              *)

Loads(c) == Decide(c).load \in Slot

(* When the bootloader loads a slot: it always loads a good image, and the *)
(* other slot than the one loaded last.                                    *)
LEMMA LoadsWhen ==
    ASSUME TypeInv, NEW c \in Cache
    PROVE  LET p == registry.primary
               q == Alternate(p)
               l == Decide(c).load
           IN  /\ Loads(c) => ImageOk(l)
               /\ ~Loads(c) => Decide(c).last = c.last
               /\ registry.valid /\ c.last \in Slot =>
                     /\ Loads(c) => {l, c.last} = Slot /\ {l, p} \subseteq Slot
                     /\ c.last = p => (Loads(c) <=>
                           /\ registry.op[p] = "FAILED"
                              \/ (registry.op[p] = "OP_UNKNOWN" /\ c.count > START_COUNT_LIMIT)
                           /\ registry.op[q] # "FAILED" /\ ImageOk(q))
                     /\ c.last # p /\ p \in Slot
                           => (Loads(c) <=> registry.op[p] # "FAILED" /\ ImageOk(p))
               /\ ~registry.valid \/ c.last \notin Slot =>
                     /\ c.reason = "MANUFACTURING" => (Loads(c) <=> ImageOk("A"))
                     /\ c.reason # "MANUFACTURING" /\ c.last \notin Slot
                          => /\ Loads(c) <=> ImageOk("A") \/ ImageOk("B")
                             /\ ~Loads(c) => Decide(c).reason = "PANIC"
<1> DEFINE p == registry.primary
           l == Decide(c).load
<1>1. /\ p \in Slot \cup {UNKNOWN_SLOT} /\ c.last \in Slot \cup {UNKNOWN_SLOT}
      /\ c.count \in Nat /\ START_COUNT_LIMIT \in Nat
  BY BoundsAssumption DEF TypeInv, TypeOK, Cache
<1>2. CASE registry.valid /\ c.last \in Slot
  <2>1. Decide(c) = xNominalMode(c)
    BY <1>2 DEF Decide
  <2>2. CASE c.last = p
    <3> DEFINE q == Alternate(p)
               tooMany == registry.op[p] = "OP_UNKNOWN" /\ c.count > START_COUNT_LIMIT
               alternateOk == registry.op[q] # "FAILED" /\ ImageOk(q)
    <3>1. p \in Slot /\ q \in Slot /\ {p, q} = Slot /\ registry.op[p] \in OpState
      BY <1>2, <2>2, SlotsAre DEF TypeInv, TypeOK, Slot, Alternate
    <3>2. Decide(c) = xCasesTenThroughSixteen(c)
      BY <2>1, <2>2, <3>1, SlotsAre DEF xNominalMode
    <3>3. CASE \/ registry.op[p] \in {"PARTIAL", "FULL"}
               \/ registry.op[p] = "OP_UNKNOWN" /\ ~tooMany
      <4>1. Decide(c).load = UNKNOWN_SLOT /\ Decide(c).last = p
        BY <1>1, <3>2, <3>3 DEF xCasesTenThroughSixteen, Start
      <4> QED
        BY <1>1, <1>2, <2>2, <3>3, <4>1, SlotsAre DEF Loads
    <3>4. CASE registry.op[p] = "FAILED" \/ tooMany
      <4>1. Decide(c) = IF alternateOk THEN Load(q, "FALLBACK") ELSE Start(c, p, "PANIC")
        BY <1>1, <3>2, <3>4 DEF xCasesTenThroughSixteen
      <4>2. CASE alternateOk
        <5>1. Decide(c).load = q
          BY <4>1, <4>2 DEF Load
        <5>2. Loads(c) /\ l = q /\ ImageOk(q) /\ registry.op[q] # "FAILED"
          BY <3>1, <4>2, <5>1 DEF Loads
        <5>3. {l, c.last} = Slot /\ {l, p} \subseteq Slot
          BY <2>2, <3>1, <5>2
        <5> QED
          BY <1>2, <2>2, <3>4, <5>2, <5>3
      <4>3. CASE ~alternateOk
        BY <1>1, <1>2, <2>2, <3>1, <3>4, <4>1, <4>3, SlotsAre DEF Loads, Start
      <4> QED
        BY <4>2, <4>3
    <3> QED
      BY <3>1, <3>3, <3>4 DEF OpState
  <2>3. CASE c.last # p /\ p \in Slot
    BY <1>1, <1>2, <2>1, <2>3
       DEF Loads, xNominalMode, xCasesSeventeenThroughNineteen, Load, Start,
           Slot, UNKNOWN_SLOT, Alternate, TypeInv, TypeOK, OpState
  <2>4. CASE p \notin Slot
    BY <1>1, <1>2, <2>1, <2>4
       DEF Loads, xNominalMode, Start, Slot, UNKNOWN_SLOT, Alternate
  <2> QED
    BY <2>2, <2>3, <2>4, <1>2
<1>3. CASE ~(registry.valid /\ c.last \in Slot) /\ c.reason = "MANUFACTURING"
  <2>1. Decide(c) = xManufacturingMode(c)
    BY <1>3 DEF Decide
  <2> QED
    BY <1>3, <2>1
       DEF Loads, xManufacturingMode, Load, Start, Slot, UNKNOWN_SLOT
<1>4. CASE ~(registry.valid /\ c.last \in Slot) /\ c.reason # "MANUFACTURING"
  <2>1. Decide(c) = xPanicMode(c)
    BY <1>4 DEF Decide
  <2> QED
    BY <1>1, <1>4, <2>1 DEF Loads, xPanicMode, Load, Start, Slot, UNKNOWN_SLOT
<1> QED
  BY <1>2, <1>3, <1>4

(* A slot that holds another image than the registry says.                 *)
Hidden(s) == amImage[s] \in Versions /\ registry.version[s] # amImage[s]

(* What the registry says, if nothing comes between the writes that finish *)
(* a download.  A slot marked as working holds what the registry says; the *)
(* slot loaded last is primary or has failed while the other one is        *)
(* hidden; and an image that runs without having been marked as working is *)
(* primary only while the other slot has failed.                           *)
RegistryInv ==
    /\ ~registry.valid => pc \in {"bl", "load", "app"}
    /\ app = Package => registry.loaded = UNKNOWN_SLOT
    /\ registry.loaded \in Slot => registry.version[registry.loaded] \notin Resetting
    /\ \A s \in Slot : Hidden(s) /\ ~(pc = "downloadSsm" /\ s = DownloadSlot)
          => registry.op[s] \notin {"PARTIAL", "FULL"}
    /\ registry.loaded \in Slot /\ Hidden(Alternate(registry.loaded))
       /\ pc \notin {"downloadSsm", "setVersion"}
          => registry.op[registry.loaded] = "FAILED" \/ registry.primary = registry.loaded
    /\ registry.loaded = UNKNOWN_SLOT /\ Known("A")
       /\ pc \notin {"setVersion", "setPrimary"}
          => registry.op["A"] = "FAILED" \/ registry.primary = "A"
    /\ pc \in Up \ {"opState", "setVersion", "setPrimary"} /\ registry.loaded \in Slot
       /\ registry.primary = registry.loaded /\ registry.op[registry.loaded] = "OP_UNKNOWN"
          => registry.op[Alternate(registry.loaded)] = "FAILED"
    /\ pc = "fallbackPrimary" => registry.op[Alternate(registry.loaded)] = "FAILED"
    /\ pc = "rollPrimary"
          => registry.op[Alternate(registry.loaded)] \in {"PARTIAL", "FULL"}
    /\ pc = "setPrimary" => registry.version[DownloadSlot] = amImage[DownloadSlot]
    /\ pc \in {"otaSsm", "otaProgram", "otaPrimary"} => registry.primary = DownloadSlot
    /\ pc = "otaPrimary" => registry.op[registry.primary] = "FAILED"

(* Steps that change no image and nothing that the registry says.          *)
Still ==
    /\ amImage' = amImage
    /\ \/ registry' = registry
       \/ pc' = "bl" /\ registry' = [registry EXCEPT !.valid = FALSE]
    /\ app' = Package => app = Package
    /\ pc \in {"downloadSsm", "setVersion", "setPrimary"} => pc' = pc
    /\ pc' \in Up
          => \/ pc' = pc
             \/ pc \in Up \ {"opState", "setVersion", "setPrimary"} /\ pc' \in {"verify", "run"}
             \/ pc = "otaSsm" /\ pc' = "otaProgram"
    /\ registry'.valid \/ pc' \in {"bl", "load", "app"}

LEMMA StillKeepsRegistry ==
    ASSUME TypeInv, RegistryInv, Still
    PROVE  RegistryInv'
<1>1. /\ registry'.op = registry.op /\ registry'.version = registry.version
      /\ registry'.loaded = registry.loaded /\ registry'.primary = registry.primary
      /\ registry' = registry \/ pc' = "bl"
  BY DEF Still, TypeInv, TypeOK
<1>2. DownloadSlot' = DownloadSlot
  BY <1>1 DEF DownloadSlot
<1>3. \A s \in Slot : Hidden(s)' <=> Hidden(s)
  BY <1>1 DEF Still, Hidden
<1>4. Known("A")' <=> Known("A")
  BY <1>1 DEF Known
<1>5. registry.loaded \in Slot => Alternate(registry.loaded) \in Slot
  BY SlotsAre
<1>6. pc' \in Up \ {"opState", "setVersion", "setPrimary"}
         => pc \in Up \ {"opState", "setVersion", "setPrimary"}
  BY DEF Still, Up, Serving
<1>7. /\ pc' \in {"fallbackPrimary", "rollPrimary", "setPrimary", "otaPrimary"}
            => pc' = pc
      /\ pc' \in {"otaSsm", "otaProgram", "otaPrimary"}
            => pc \in {"otaSsm", "otaProgram", "otaPrimary"}
      /\ pc' \in {"setVersion", "setPrimary"} <=> pc \in {"setVersion", "setPrimary"}
      /\ pc' = "setVersion" <=> pc = "setVersion"
      /\ pc' = "downloadSsm" <=> pc = "downloadSsm"
  BY DEF Still, Up, Starting, Serving, DownloadPcs
<1> QED
  BY <1>1, <1>2, <1>3, <1>4, <1>5, <1>6, <1>7 DEF RegistryInv, Still

LEMMA StillSteps ==
    ASSUME TypeInv, ImagesInv, RegistryInv,
           \/ BootStart \/ BootErase \/ BootProgram \/ CrashReset
           \/ (AppStart /\ registry.valid)
           \/ EraseSsm \/ StartSsm \/ RollSsm \/ OtaBegin \/ OtaSsm \/ OtaRollSsm
           \/ FromPowerOff \/ UNCHANGED vars
           \/ (DownloadBail \/ Sleep \/ WatchdogReset \/ PowerLoss)
              /\ pc \notin {"downloadSsm", "setVersion", "setPrimary"}
    PROVE  Still
<1> USE NoNames DEF Still, Up, Starting, Serving, DownloadPcs, images, NoWrite, RegistryInv
<1>1. CASE BootStart
  BY <1>1 DEF BootStart
<1>2. CASE BootErase
  BY <1>2 DEF BootErase
<1>3. CASE BootProgram
  <2>1. app' # Package
    BY <1>3 DEF BootProgram, TypeInv, PcOK, TypeOK
  <2> QED
    BY <1>3, <2>1 DEF BootProgram
<1>4. CASE CrashReset
  BY <1>4 DEF CrashReset
<1>5. CASE AppStart /\ registry.valid
  BY <1>5 DEF AppStart
<1>6. CASE StartSsm
  BY <1>6 DEF StartSsm
<1>7. CASE RollSsm
  BY <1>7 DEF RollSsm
<1>8. CASE EraseSsm
  BY <1>8 DEF EraseSsm
<1>9. CASE OtaBegin
  BY <1>9 DEF OtaBegin
<1>10. CASE OtaSsm
  BY <1>10 DEF OtaSsm
<1>11. CASE OtaRollSsm
  BY <1>11 DEF OtaRollSsm
<1>12. CASE FromPowerOff
  BY <1>12 DEF FromPowerOff, Hangs
<1>13. CASE UNCHANGED vars
  BY <1>13 DEF vars
<1>14. CASE Sleep /\ pc \notin {"downloadSsm", "setVersion", "setPrimary"}
  BY <1>14 DEF Sleep
<1>15. CASE WatchdogReset /\ pc \notin {"downloadSsm", "setVersion", "setPrimary"}
  BY <1>15 DEF WatchdogReset
<1>16. CASE PowerLoss /\ pc \notin {"downloadSsm", "setVersion", "setPrimary"}
  BY <1>16 DEF PowerLoss
<1>17. CASE DownloadBail /\ pc \notin {"downloadSsm", "setVersion", "setPrimary"}
  BY <1>17 DEF DownloadBail
<1> QED
  BY <1>1, <1>2, <1>3, <1>4, <1>5, <1>6, <1>7, <1>8, <1>9, <1>10, <1>11, <1>12,
     <1>13, <1>14, <1>15, <1>16, <1>17

(* The registry's fields after a step that writes one of them.             *)
SameBut(field) ==
    /\ amImage' = amImage /\ app' = app /\ registry'.valid = registry.valid
    /\ field # "op" => registry'.op = registry.op
    /\ field # "loaded" => registry'.loaded = registry.loaded
    /\ field # "primary" => registry'.primary = registry.primary
    /\ field # "version" => registry'.version = registry.version

LEMMA ValidWhenUp ==
    ASSUME RegistryInv, pc \in Up \cup {"cacheInit"}
    PROVE  registry.valid
  BY DEF RegistryInv, Up, Starting, Serving, DownloadPcs

LEMMA MfgSetupKeepsRegistry == TypeInv /\ ImagesInv /\ MfgSetup => RegistryInv'
<1> SUFFICES ASSUME TypeInv, ImagesInv, MfgSetup PROVE RegistryInv'
  OBVIOUS
<1>1. pc' = "bl" /\ app = Package
  BY DEF MfgSetup
<1>2. amImage'["A"] = FirstVersion /\ amImage'["B"] = Broken
  BY <1>1 DEF MfgSetup, TypeInv, TypeOK, ImagesInv, Slot
<1>3. /\ registry'.loaded = UNKNOWN_SLOT /\ registry'.primary = "A"
      /\ registry'.version["A"] = FirstVersion /\ registry'.valid
  BY DEF MfgSetup, Write, imageRegistryDefault, Slot
<1> QED
  BY <1>1, <1>2, <1>3, NoNames
     DEF RegistryInv, Hidden, Known, Slot, UNKNOWN_SLOT, Up, Starting, Serving,
         DownloadPcs

LEMMA AppStartKeepsRegistry == AppStart /\ ~registry.valid => RegistryInv'
<1> SUFFICES ASSUME AppStart, ~registry.valid PROVE RegistryInv'
  OBVIOUS
<1>1. pc' = "cacheInit" /\ registry' = imageRegistryDefault
  BY DEF AppStart, Write
<1>2. /\ registry'.loaded = UNKNOWN_SLOT /\ registry'.valid
      /\ \A s \in Slot : registry'.version[s] = NoVersion /\ registry'.op[s] = "OP_UNKNOWN"
  BY <1>1, DefaultIs
<1> QED
  BY <1>1, <1>2, NoNames, SlotsAre
     DEF RegistryInv, Hidden, Known, Up, Starting, Serving, DownloadPcs

(* A version that the registry does not know runs only when the one it     *)
(* names has failed.                                                       *)
StrangerRuns ==
    registry.valid /\ app \in Versions /\ CurrentSlot \notin Slot /\ registry.loaded \in Slot
        => registry.op[registry.loaded] = "FAILED"

LEMMA SetLoadedKeepsRegistry ==
    ASSUME TypeInv, ImagesInv, RegistryInv, StrangerRuns, SetLoaded
    PROVE  RegistryInv'
<1>1. SameBut("loaded") /\ pc = "cacheInit" /\ app \in Versions \ Resetting
      /\ pc' = IF CurrentSlot \in Slot THEN "opState" ELSE "verify"
  BY CurrentSlotIs, SlotsAre
     DEF SetLoaded, Write, NoWrite, images, SameBut, TypeInv, TypeOK, PcOK
<1>2. registry.valid
  BY <1>1, ValidWhenUp
<1>3. registry'.loaded = IF CurrentSlot \in Slot THEN CurrentSlot ELSE registry.loaded
  BY CurrentSlotIs, SlotsAre DEF SetLoaded, NoWrite, Write, TypeInv, TypeOK
<1>4. app # Package
  BY <1>1, NoNames
<1>5. \A s \in Slot : (Hidden(s)' <=> Hidden(s)) /\ (Known(s)' <=> Known(s))
  BY <1>1 DEF SameBut, Hidden, Known
<1>6. CASE CurrentSlot \notin Slot
  BY <1>1, <1>2, <1>3, <1>4, <1>5, <1>6, SlotsAre
     DEF RegistryInv, StrangerRuns, SameBut, Slot
<1>7. CASE CurrentSlot \in Slot
  <2> DEFINE s == CurrentSlot
  <2>1. registry.version[s] = app /\ registry'.loaded = s /\ pc' = "opState"
    BY <1>1, <1>3, <1>7, CurrentSlotIs
  <2>2. Hidden(Alternate(s)) => registry.op[s] = "FAILED" \/ registry.primary = s
    <3>1. CASE registry.loaded = s
      BY <1>1, <1>7, <3>1 DEF RegistryInv
    <3>2. CASE registry.loaded = Alternate(s)
      BY <1>7, <3>2, SlotsAre DEF ImagesInv, Hidden
    <3>3. CASE registry.loaded = UNKNOWN_SLOT
      <4>1. s = "A"
        BY <1>1, <1>7, <2>1, <3>3, NoNames DEF ImagesInv, Slot
      <4>2. Known("A")
        BY <1>1, <2>1, <4>1 DEF Known
      <4> QED
        BY <1>1, <3>3, <4>1, <4>2 DEF RegistryInv
    <3> QED
      BY <1>7, <3>1, <3>2, <3>3 DEF TypeInv, TypeOK, Slot, Alternate
  <2>3. \A t \in Slot : Hidden(t) => registry.op[t] \notin {"PARTIAL", "FULL"}
    BY <1>1 DEF RegistryInv
  <2> HIDE DEF s
  <2>4. s \in Slot /\ Alternate(s) \in Slot /\ s # UNKNOWN_SLOT
    BY <1>7, SlotsAre DEF s
  <2> QED
    BY <1>1, <1>2, <1>4, <1>5, <2>1, <2>2, <2>3, <2>4
       DEF RegistryInv, SameBut, Up, Starting, Serving, DownloadPcs
<1> QED
  BY <1>6, <1>7

LEMMA SetOpStateKeepsRegistry ==
    ASSUME TypeInv, ImagesInv, RegistryInv, SetOpState
    PROVE  RegistryInv'
<1> DEFINE s == CurrentSlot
           t == Alternate(s)
<1>1. /\ pc = "opState" /\ s \in Slot /\ registry.loaded = s /\ registry.valid
      /\ app \in Versions
  BY ValidWhenUp, SlotsAre
     DEF SetOpState, TypeInv, PcOK, ImagesInv, Up, Starting
<1>2. t \in Slot /\ t # s /\ s # UNKNOWN_SLOT /\ {s, t} = Slot
  BY <1>1, SlotsAre DEF Slot, Alternate
<1>3. SameBut("op")
  BY DEF SetOpState, Write, NoWrite, images, SameBut, TypeInv, TypeOK
<1>4. ~Hidden(s) /\ app # Package
  BY <1>1, CurrentSlotIs, NoNames DEF ImagesInv, Hidden
<1>5. \A u \in Slot : (Hidden(u)' <=> Hidden(u))
  BY <1>3 DEF SameBut, Hidden
<1>6. /\ pc' \in {"asleep", "mfgSsm", "verify", "fallbackPrimary"}
      /\ pc' = "fallbackPrimary" => registry'.op[t] = "FAILED"
      /\ registry.primary = s => registry'.op[s] \in {"PARTIAL", "FULL"}
      /\ registry.primary # s => registry'.op[s] = registry.op[s]
      /\ registry'.op[t] \in {registry.op[t], "FAILED"}
  <2> HIDE DEF s, t
  <2>1. CASE registry.primary = s /\ registry' = [registry EXCEPT !.op[s] = "PARTIAL"]
             /\ pc' \in {"asleep", "mfgSsm", "verify"}
    BY <1>1, <1>2, <2>1 DEF TypeInv, TypeOK
  <2>2. CASE registry.primary # s /\ registry' = [registry EXCEPT !.op[t] = "FAILED"]
             /\ pc' = "fallbackPrimary"
    BY <1>1, <1>2, <2>2 DEF TypeInv, TypeOK
  <2>3. CASE (registry.primary = s => registry.op[s] \in {"PARTIAL", "FULL"})
             /\ registry' = registry /\ pc' = "verify"
    BY <1>1, <1>2, <2>3 DEF TypeInv, TypeOK
  <2> QED
    BY <2>1, <2>2, <2>3 DEF SetOpState, Write, NoWrite, s, t
<1> HIDE DEF s, t
<1>7. t = Alternate(s)
  BY DEF t
<1> QED
  BY <1>1, <1>2, <1>3, <1>4, <1>5, <1>6, <1>7 DEF RegistryInv, SameBut

LEMMA SetFallbackPrimaryKeepsRegistry ==
    ASSUME TypeInv, ImagesInv, RegistryInv, SetFallbackPrimary
    PROVE  RegistryInv'
<1>1. /\ SameBut("primary") /\ pc = "fallbackPrimary" /\ pc' = "fallbackSsm"
      /\ registry'.primary = CurrentSlot
  BY DEF SetFallbackPrimary, Write, images, SameBut, TypeInv, TypeOK
<1>2. registry.loaded = CurrentSlot /\ CurrentSlot \in Slot /\ registry.valid
  BY <1>1, ValidWhenUp, SlotsAre DEF TypeInv, PcOK, ImagesInv, Up, Starting
<1>3. \A s \in Slot : Hidden(s)' <=> Hidden(s)
  BY <1>1 DEF SameBut, Hidden
<1> QED
  BY <1>1, <1>2, <1>3, SlotsAre DEF RegistryInv, SameBut

LEMMA VerifySsmKeepsRegistry ==
    ASSUME TypeInv, ImagesInv, RegistryInv, VerifySsm
    PROVE  RegistryInv'
<1>1. SameBut("op") /\ pc = "verify" /\ registry.valid
  BY ValidWhenUp
     DEF VerifySsm, Write, NoWrite, images, SameBut, TypeInv, TypeOK, Up,
         Starting
<1>2. \A s \in Slot : (Hidden(s)' <=> Hidden(s)) /\ (Known(s)' <=> Known(s))
  BY <1>1 DEF SameBut, Hidden, Known
<1>3. CASE NoWrite /\ pc' = "run"
  BY <1>1, <1>2, <1>3, SlotsAre
     DEF RegistryInv, SameBut, NoWrite, Slot, Up, Starting, Serving
<1>4. CASE HasFallback /\ Write([registry EXCEPT !.op[registry.loaded] = "FAILED"])
           /\ pc' = "rollPrimary"
  <2>1. /\ registry.loaded \in Slot /\ Alternate(registry.loaded) \in Slot
        /\ registry.op[Alternate(registry.loaded)] \in {"PARTIAL", "FULL"}
        /\ registry.loaded # UNKNOWN_SLOT
    BY <1>4, SlotsAre DEF HasFallback
  <2>2. \A s \in Slot :
           registry'.op[s] = IF s = registry.loaded THEN "FAILED" ELSE registry.op[s]
    BY <1>4, <2>1 DEF Write, TypeInv, TypeOK
  <2>3. registry'.op[registry.loaded] = "FAILED"
        /\ registry'.op[Alternate(registry.loaded)] \in {"PARTIAL", "FULL"}
    BY <2>1, <2>2, SlotsAre
  <2> QED
    BY <1>1, <1>2, <1>4, <2>1, <2>2, <2>3 DEF RegistryInv, SameBut
<1> QED
  BY <1>3, <1>4 DEF VerifySsm

LEMMA RollPrimaryKeepsRegistry ==
    ASSUME TypeInv, ImagesInv, RegistryInv, RollPrimary
    PROVE  RegistryInv'
<1>1. /\ SameBut("primary") /\ pc = "rollPrimary" /\ pc' = "rollSsm"
      /\ registry'.primary = Alternate(registry.loaded) /\ registry.valid
  BY ValidWhenUp
     DEF RollPrimary, Write, images, SameBut, TypeInv, TypeOK, Up, Starting
<1>2. registry.loaded \in Slot /\ registry.loaded # UNKNOWN_SLOT
      /\ Alternate(registry.loaded) \in Slot /\ Alternate(registry.loaded) # registry.loaded
  BY <1>1, SlotsAre DEF TypeInv, PcOK
<1>3. ~Hidden(Alternate(registry.loaded))
  BY <1>1, <1>2 DEF RegistryInv
<1>4. \A s \in Slot : Hidden(s)' <=> Hidden(s)
  BY <1>1 DEF SameBut, Hidden
<1> QED
  BY <1>1, <1>2, <1>3, <1>4 DEF RegistryInv, SameBut

LEMMA ConnectKeepsRegistry ==
    ASSUME TypeInv, ImagesInv, RegistryInv, Connect
    PROVE  RegistryInv'
<1>1. SameBut("op") /\ pc = "run" /\ pc' = "run" /\ registry.valid
  BY ValidWhenUp
     DEF Connect, Write, images, SameBut, TypeInv, TypeOK, Up, Serving
<1>2. \A s \in Slot : Hidden(s)' <=> Hidden(s)
  BY <1>1 DEF SameBut, Hidden
<1>3. /\ registry.loaded \in Slot /\ registry.loaded # UNKNOWN_SLOT
      /\ Alternate(registry.loaded) \in Slot /\ Alternate(registry.loaded) # registry.loaded
      /\ registry.op[registry.loaded] = "PARTIAL"
  BY SlotsAre DEF Connect
<1>4. \A s \in Slot :
         registry'.op[s] = IF s = registry.loaded THEN "FULL" ELSE registry.op[s]
  BY <1>3 DEF Connect, Write, TypeInv, TypeOK
<1>5. ~Hidden(registry.loaded)
  BY <1>3 DEF ImagesInv, Hidden
<1> QED
  BY <1>1, <1>2, <1>3, <1>4, <1>5 DEF RegistryInv, SameBut, Up, Serving

LEMMA DownloadAmKeepsRegistry ==
    ASSUME TypeInv, ImagesInv, RegistryInv, DownloadAm
    PROVE  RegistryInv'
<1>1. /\ registry' = registry /\ pc = "run" /\ pc' = "download" /\ app' = app
      /\ registry.valid
      /\ amImage' = [amImage EXCEPT ![DownloadSlot] = Broken]
  BY ValidWhenUp DEF DownloadAm, NoWrite, Up, Serving
<1>2. \A s \in Slot : (Hidden(s)' => Hidden(s)) /\ (Known(s)' <=> Known(s))
  BY <1>1, NoNames DEF Hidden, Known, TypeInv, TypeOK
<1> QED
  BY <1>1, <1>2, SlotsAre DEF RegistryInv, Up, Serving, DownloadPcs, Slot

LEMMA DownloadSsmKeepsRegistry ==
    ASSUME TypeInv, ImagesInv, RegistryInv, DownloadSsm
    PROVE  RegistryInv'
<1>1. /\ registry' = registry /\ pc = "download" /\ pc' = "downloadSsm" /\ app' = app
      /\ registry.valid
  BY ValidWhenUp DEF DownloadSsm, NoWrite, Up, Serving, DownloadPcs
<1>2. DownloadSlot' = DownloadSlot
  BY <1>1 DEF DownloadSlot
<1>3. \A s \in Slot \ {DownloadSlot} : Hidden(s)' <=> Hidden(s)
  BY <1>1 DEF DownloadSsm, Hidden, TypeInv, TypeOK
<1>4. \A s \in Slot : Known(s)' <=> Known(s)
  BY <1>1 DEF Known
<1> QED
  BY <1>1, <1>2, <1>3, <1>4, SlotsAre DEF RegistryInv, Up, Serving, DownloadPcs, Slot

LEMMA DownloadBadKeepsRegistry ==
    ASSUME TypeInv, ImagesInv, RegistryInv, DownloadBad
    PROVE  RegistryInv'
<1>1. /\ registry' = registry /\ pc = "downloadSsm" /\ pc' = "run" /\ app' = app
      /\ registry.valid
  BY ValidWhenUp DEF DownloadBad, NoWrite, Up, Serving, DownloadPcs
<1>2. \A s \in Slot : /\ Hidden(s)' => Hidden(s) /\ s # DownloadSlot
                      /\ Known(s)' <=> Known(s)
  BY <1>1, NoNames DEF DownloadBad, Hidden, Known, TypeInv, TypeOK
<1>3. registry.loaded \in Slot => DownloadSlot = Alternate(registry.loaded)
  BY DownloadSlotIs
<1>4. registry.loaded \in Slot => ~Hidden(Alternate(registry.loaded))'
  <2>1. DownloadSlot' = DownloadSlot
    BY <1>1 DEF DownloadSlot
  <2>2. amImage'[DownloadSlot] = Broken
    BY DownloadSlotIs DEF DownloadBad, TypeInv, TypeOK
  <2>3. registry.loaded \in Slot => amImage'[Alternate(registry'.loaded)] = Broken
    BY <1>1, <1>3, <2>2
  <2> QED
    BY <1>1, <2>3, NoNames DEF Hidden
<1>5. ASSUME NEW s \in Slot, Hidden(s)'
      PROVE  registry.op[s] \notin {"PARTIAL", "FULL"}
  <2>1. Hidden(s) /\ s # DownloadSlot
    BY <1>2, <1>5
  <2> QED
    BY <2>1 DEF RegistryInv
<1>6. pc' # "setPrimary" /\ pc' \notin {"otaSsm", "otaProgram", "otaPrimary"}
      /\ pc \in Up \ {"opState", "setVersion", "setPrimary"}
  BY <1>1 DEF Up, Serving, DownloadPcs
<1>7. Known("A")' <=> Known("A")
  BY <1>1 DEF Known
<1> QED
  BY <1>1, <1>4, <1>5, <1>6, <1>7 DEF RegistryInv

LEMMA DownloadGoodKeepsRegistry ==
    ASSUME TypeInv, ImagesInv, RegistryInv, DownloadGood
    PROVE  RegistryInv'
<1>1. /\ pc = "downloadSsm" /\ pc' = "setVersion" /\ app' = app /\ registry.valid
      /\ registry'.valid = registry.valid /\ registry'.loaded = registry.loaded
      /\ registry'.primary = registry.primary /\ registry'.version = registry.version
  BY ValidWhenUp
     DEF DownloadGood, Write, TypeInv, TypeOK, Up, Serving, DownloadPcs
<1>2. \A s \in Slot :
         registry'.op[s] = IF s = DownloadSlot THEN "OP_UNKNOWN" ELSE registry.op[s]
  BY DownloadSlotIs DEF DownloadGood, Write, TypeInv, TypeOK
<1>3. \A s \in Slot \ {DownloadSlot} : Hidden(s)' <=> Hidden(s)
  BY <1>1 DEF DownloadGood, Hidden, TypeInv, TypeOK
<1> QED
  BY <1>1, <1>2, <1>3 DEF RegistryInv

LEMMA SetVersionKeepsRegistry ==
    ASSUME TypeInv, ImagesInv, RegistryInv, SetVersion
    PROVE  RegistryInv'
<1>1. SameBut("version") /\ pc = "setVersion" /\ pc' = "setPrimary" /\ registry.valid
  BY ValidWhenUp
     DEF SetVersion, Write, images, SameBut, TypeInv, TypeOK, Up, Serving,
         DownloadPcs
<1>2. \A s \in Slot : registry'.version[s]
                        = IF s = DownloadSlot THEN amImage[s] ELSE registry.version[s]
  BY DownloadSlotIs DEF SetVersion, Write, TypeInv, TypeOK
<1>3. DownloadSlot' = DownloadSlot
  BY <1>1 DEF SameBut, DownloadSlot
<1>4. \A s \in Slot : Hidden(s)' => Hidden(s) /\ s # DownloadSlot
  BY <1>1, <1>2 DEF SameBut, Hidden
<1>5. DownloadSlot # registry.loaded /\ DownloadSlot \in Slot
      /\ (registry.loaded \in Slot => DownloadSlot = Alternate(registry.loaded))
  BY DownloadSlotIs, SlotsAre
<1> QED
  BY <1>1, <1>2, <1>3, <1>4, <1>5, SlotsAre DEF RegistryInv, SameBut

LEMMA SetPrimaryKeepsRegistry ==
    ASSUME TypeInv, ImagesInv, RegistryInv, SetPrimary
    PROVE  RegistryInv'
<1>1. /\ SameBut("primary") /\ pc = "setPrimary" /\ pc' = "otaSsm" /\ registry.valid
      /\ registry'.primary = DownloadSlot
  BY ValidWhenUp
     DEF SetPrimary, Write, images, SameBut, TypeInv, TypeOK, Up, Serving,
         DownloadPcs
<1>2. DownloadSlot' = DownloadSlot
  BY <1>1 DEF SameBut, DownloadSlot
<1>3. \A s \in Slot : Hidden(s)' => Hidden(s) /\ s # DownloadSlot
  BY <1>1 DEF SameBut, Hidden, RegistryInv
<1>4. DownloadSlot # registry.loaded /\ DownloadSlot \in Slot
      /\ (registry.loaded \in Slot => DownloadSlot = Alternate(registry.loaded))
      /\ (registry.loaded = UNKNOWN_SLOT => DownloadSlot = "A")
  BY DownloadSlotIs, SlotsAre
<1> QED
  BY <1>1, <1>2, <1>3, <1>4, SlotsAre DEF RegistryInv, SameBut

LEMMA OtaSsmFailsKeepsRegistry ==
    ASSUME TypeInv, ImagesInv, RegistryInv, OtaSsmFails
    PROVE  RegistryInv'
<1>1. SameBut("op") /\ pc = "otaProgram" /\ pc' = "otaPrimary" /\ registry.valid
  BY ValidWhenUp
     DEF OtaSsmFails, Write, images, SameBut, TypeInv, TypeOK, Up, Serving
<1>2. registry.primary = DownloadSlot /\ DownloadSlot' = DownloadSlot
  BY <1>1 DEF SameBut, DownloadSlot, RegistryInv
<1>3. \A s \in Slot :
         registry'.op[s] = IF s = DownloadSlot THEN "FAILED" ELSE registry.op[s]
  BY <1>2, DownloadSlotIs DEF OtaSsmFails, Write, TypeInv, TypeOK
<1>4. \A s \in Slot : Hidden(s)' <=> Hidden(s)
  BY <1>1 DEF SameBut, Hidden
<1>5. DownloadSlot # registry.loaded /\ DownloadSlot \in Slot
      /\ (registry.loaded \in Slot => DownloadSlot = Alternate(registry.loaded))
      /\ (registry.loaded = UNKNOWN_SLOT => DownloadSlot = "A")
  BY DownloadSlotIs, SlotsAre
<1> QED
  BY <1>1, <1>2, <1>3, <1>4, <1>5, SlotsAre DEF RegistryInv, SameBut

LEMMA OtaPrimaryKeepsRegistry ==
    ASSUME TypeInv, ImagesInv, RegistryInv, OtaPrimary
    PROVE  RegistryInv'
<1>1. /\ SameBut("primary") /\ pc = "otaPrimary" /\ pc' = "otaRollSsm" /\ registry.valid
      /\ registry'.primary = Alternate(registry.primary)
  BY ValidWhenUp
     DEF OtaPrimary, Write, images, SameBut, TypeInv, TypeOK, Up, Serving
<1>2. registry.primary = DownloadSlot /\ registry.op[DownloadSlot] = "FAILED"
  BY <1>1 DEF RegistryInv
<1>3. \A s \in Slot : Hidden(s)' <=> Hidden(s)
  BY <1>1 DEF SameBut, Hidden
<1>4. DownloadSlot # registry.loaded /\ DownloadSlot \in Slot
      /\ (registry.loaded \in Slot => DownloadSlot = Alternate(registry.loaded))
      /\ (registry.loaded = UNKNOWN_SLOT => DownloadSlot = "A")
  BY DownloadSlotIs, SlotsAre
<1> QED
  BY <1>1, <1>2, <1>3, <1>4, SlotsAre DEF RegistryInv, SameBut

LEMMA InitRegistry == Init => RegistryInv
  BY NoNames
     DEF Init, RegistryInv, Hidden, Known, imageRegistryDefault, Slot,
         UNKNOWN_SLOT, Up, Starting, Serving, DownloadPcs

-----------------------------------------------------------------------------
(* The bootloader's cache.                                                 *)

(* The image that runs has not been noted as the one loaded: a power cycle *)
(* loads it once more.                                                     *)
Pending ==
    pc \in {"bl", "load", "app", "cacheInit"} /\ ~wrote /\ Loads(PowerUpCache)

(* A half programmed internal flash is loaded again at the next power-up;  *)
(* another version runs than the one the registry says was loaded only     *)
(* when the registry has not been told yet, or holds that one for failed;  *)
(* the cache has the slot of the image that runs, or none when no slot has *)
(* an image; and too many starts are counted of an untried image only      *)
(* while the other slot has failed.                                        *)
BootInv ==
    /\ app = Broken => ~wrote /\ pc \in {"bl", "load", "app"} /\ Loads(PowerUpCache)
    /\ pc = "load" => app = Broken
    /\ StrangerRuns
    /\ app \in Versions /\ CurrentSlot \in Slot /\ CurrentSlot # registry.loaded
          => Pending /\ (blCache.key => blCache.last = CurrentSlot)
    /\ registry.valid /\ blCache.key /\ registry.loaded \in Slot
       /\ app = registry.version[registry.loaded]
          => blCache.last = registry.loaded
    /\ registry.valid /\ blCache.key /\ pc \in {"bl", "load"}
       /\ blCache.count > START_COUNT_LIMIT /\ registry.loaded \in Slot
       /\ registry.primary = registry.loaded /\ registry.op[registry.loaded] = "OP_UNKNOWN"
          => registry.op[Alternate(registry.loaded)] = "FAILED"
    /\ registry.valid /\ blCache.key /\ blCache.last = UNKNOWN_SLOT
          => registry.loaded = UNKNOWN_SLOT
    /\ blCache.key /\ blCache.last = UNKNOWN_SLOT /\ pc \in {"app", "cacheInit"}
          => ~ImageOk("A") /\ ~ImageOk("B")
    /\ blCache.key /\ blCache.last = UNKNOWN_SLOT /\ blCache.reason = "MANUFACTURING"
          => pc \in {"bl", "load"} /\ ImageOk("A")

LEMMA PowerUpIs ==
    /\ PowerUpCache.last = IF registry.valid THEN registry.loaded ELSE UNKNOWN_SLOT
    /\ PowerUpCache.reason = "UNKNOWN" /\ PowerUpCache.count = 0 /\ PowerUpCache.key
  BY DEF PowerUpCache

LEMMA SamePowerUp ==
    ASSUME registry' = registry, amImage' = amImage
    PROVE  /\ Loads(PowerUpCache)' <=> Loads(PowerUpCache)
           /\ \A s \in Slot : ImageOk(s)' <=> ImageOk(s)
  BY DEF Loads, PowerUpCache, Decide, xNominalMode, xPanicMode,
         xManufacturingMode, xCasesTenThroughSixteen,
         xCasesSeventeenThroughNineteen, ImageOk, Load, Start

(* A cache that is not about the slot that the registry says was loaded.   *)
LEMMA CacheIs ==
    ASSUME TypeInv, ImagesInv, RegistryInv, BootInv,
           registry.valid, blCache.key, registry.loaded \in Slot
    PROVE  \/ blCache.last = registry.loaded
           \/ registry.op[registry.loaded] = "FAILED"
           \/ Loads(PowerUpCache) /\ app # registry.version[registry.loaded]
<1>1. CASE app = registry.version[registry.loaded]
  BY <1>1 DEF BootInv
<1>2. CASE app \in Versions /\ app # registry.version[registry.loaded]
  <2>1. CASE CurrentSlot \in Slot
    BY <1>2, <2>1, CurrentSlotIs DEF BootInv, Pending
  <2>2. CASE CurrentSlot \notin Slot
    BY <1>2, <2>2 DEF BootInv, StrangerRuns
  <2> QED
    BY <2>1, <2>2
<1>3. CASE app = Broken
  BY <1>3, NoNames DEF BootInv, ImagesInv, Known
<1>4. app # Package
  BY SlotsAre DEF RegistryInv
<1> QED
  BY <1>1, <1>2, <1>3, <1>4 DEF TypeInv, TypeOK

(* What the cache makes the bootloader load, it would load after a power   *)
(* cycle as well.                                                          *)
LEMMA PowerUpLoadsToo ==
    ASSUME TypeInv, ImagesInv, RegistryInv, BootInv, pc = "bl", Loads(BootCache)
    PROVE  Loads(PowerUpCache)
<1> DEFINE l == registry.loaded
           p == registry.primary
<1>1. CASE ~blCache.key
  BY <1>1 DEF BootCache
<1>2. CASE blCache.key /\ ~(registry.valid /\ l \in Slot)
  <2>1. /\ PowerUpCache.last \notin Slot /\ PowerUpCache.reason = "UNKNOWN"
        /\ PowerUpCache \in Cache
    BY <1>2, PowerUpIs, BootCacheTyped, SlotsAre DEF TypeInv
  <2>2. ImageOk(Decide(BootCache).load) /\ Decide(BootCache).load \in {"A", "B"}
    BY LoadsWhen, BootCacheTyped DEF TypeInv, Loads, Slot
  <2> QED
    BY <2>1, <2>2, LoadsWhen
<1>3. CASE blCache.key /\ registry.valid /\ l \in Slot
  <2>1. BootCache = blCache /\ blCache \in Cache /\ PowerUpCache \in Cache
        /\ PowerUpCache.last = l /\ PowerUpCache.count = 0
    BY <1>3, PowerUpIs, BootCacheTyped DEF BootCache, TypeInv
  <2>2. blCache.last \in Slot
    BY <1>3, <2>1, SlotsAre DEF BootInv, Cache
  <2>3. p \in Slot /\ {p, Alternate(p)} = Slot /\ Alternate(p) # p /\ p # UNKNOWN_SLOT
    BY <1>3, <2>1, <2>2, LoadsWhen, SlotsAre DEF Slot, Alternate
  <2>4. CASE blCache.last = l /\ l = p
    BY <1>3, <2>1, <2>3, <2>4, LoadsWhen DEF BootInv
  <2>5. CASE blCache.last = l /\ l # p
    BY <1>3, <2>1, <2>3, <2>5, LoadsWhen
  <2>6. CASE blCache.last # l /\ registry.op[l] = "FAILED" /\ l = p
    BY <1>3, <2>1, <2>2, <2>3, <2>6, LoadsWhen
  <2>7. CASE blCache.last # l /\ registry.op[l] = "FAILED" /\ l # p
    <3>1. l = Alternate(p) /\ blCache.last = p
      BY <1>3, <2>2, <2>3, <2>7
    <3> QED
      BY <1>3, <2>1, <2>2, <2>7, <3>1, LoadsWhen
  <2> QED
    BY <1>3, <2>4, <2>5, <2>6, <2>7, CacheIs
<1> QED
  BY <1>1, <1>2, <1>3

(* Steps of an application that runs: none of them touches the cache.      *)
Onward ==
    /\ pc \in Up /\ pc' \notin {"load", "app", "cacheInit"}
    /\ app' = app /\ blCache' = blCache
    /\ registry'.valid = registry.valid /\ registry'.loaded = registry.loaded
    /\ registry.loaded \in Slot
          => /\ registry'.version[registry.loaded] = registry.version[registry.loaded]
             /\ CurrentSlot \in Slot
                \/ registry'.op[registry.loaded]
                      \in {registry.op[registry.loaded], "FAILED"}
    /\ CurrentSlot' = CurrentSlot
    /\ pc' = "bl"
          => registry' = registry /\ pc \notin {"opState", "setVersion", "setPrimary"}

LEMMA OnwardKeepsBoot ==
    ASSUME TypeInv, ImagesInv, RegistryInv, BootInv, Onward
    PROVE  BootInv'
<1>1. /\ app \in Versions /\ blCache.key /\ pc \notin {"bl", "load", "app", "cacheInit"}
      /\ CurrentSlot \in {UNKNOWN_SLOT, registry.loaded} /\ registry.valid
  BY ValidWhenUp
     DEF Onward, TypeInv, PcOK, ImagesInv, Up, Starting, Serving, DownloadPcs
<1>2. app' # Broken /\ app' \in Versions
  BY <1>1, NoNames DEF Onward
<1>3. StrangerRuns'
  BY <1>1 DEF BootInv, StrangerRuns, Onward
<1>4. ~(CurrentSlot' \in Slot /\ CurrentSlot' # registry'.loaded)
  BY <1>1, SlotsAre DEF Onward
<1>5. ~(blCache'.key /\ blCache'.last = UNKNOWN_SLOT /\ blCache'.reason = "MANUFACTURING")
  BY <1>1 DEF BootInv, Onward
<1>6. pc' = "bl" /\ registry.loaded \in Slot /\ registry'.primary = registry'.loaded
         /\ registry'.op[registry.loaded] = "OP_UNKNOWN"
      => registry'.op[Alternate(registry.loaded)] = "FAILED"
  BY <1>1 DEF RegistryInv, Onward
<1> QED
  BY <1>1, <1>2, <1>3, <1>4, <1>5, <1>6 DEF BootInv, Onward

LEMMA OnwardSteps ==
    ASSUME TypeInv, ImagesInv, RegistryInv, BootInv,
           \/ SetOpState \/ SetFallbackPrimary \/ EraseSsm \/ StartSsm \/ VerifySsm
           \/ RollPrimary \/ RollSsm \/ Connect \/ DownloadAm \/ DownloadSsm
           \/ DownloadGood \/ DownloadBad \/ DownloadBail \/ SetVersion \/ SetPrimary
           \/ OtaBegin \/ OtaSsm \/ OtaSsmFails \/ OtaPrimary \/ OtaRollSsm \/ Sleep
           \/ WatchdogReset /\ pc \notin {"setVersion", "setPrimary"}
    PROVE  Onward
<1>1. DownloadSlot \in Slot /\ DownloadSlot # registry.loaded
      /\ (registry.loaded \in Slot => Alternate(registry.loaded) # registry.loaded)
  BY DownloadSlotIs, SlotsAre
<1> USE DEF Onward, Up, Starting, Serving, DownloadPcs, NoWrite, Write, images
<1>2. CASE SetOpState
  <2>1. registry'.version = registry.version /\ registry'.loaded = registry.loaded
        /\ registry'.valid = registry.valid /\ app' = app
    BY <1>2 DEF SetOpState, TypeInv, TypeOK
  <2>2. CurrentSlot' = CurrentSlot /\ CurrentSlot \in Slot
    BY <1>2, <2>1, SameSlots DEF SetOpState, TypeInv, PcOK
  <2> QED
    BY <1>2, <2>1, <2>2 DEF SetOpState
<1>3. CASE SetFallbackPrimary
  BY <1>3, SameSlots DEF SetFallbackPrimary, TypeInv, TypeOK
<1>4. CASE StartSsm
  BY <1>4, SameSlots DEF StartSsm
<1>5. CASE VerifySsm
  <2>1. registry'.version = registry.version /\ registry'.loaded = registry.loaded
        /\ registry'.valid = registry.valid /\ app' = app
    BY <1>5 DEF VerifySsm, TypeInv, TypeOK
  <2>2. registry.loaded \in Slot
           => registry'.op[registry.loaded] \in {registry.op[registry.loaded], "FAILED"}
    BY <1>5 DEF VerifySsm, TypeInv, TypeOK
  <2> QED
    BY <1>5, <2>1, <2>2, SameSlots DEF VerifySsm
<1>6. CASE RollPrimary
  BY <1>6, SameSlots DEF RollPrimary, TypeInv, TypeOK
<1>7. CASE RollSsm
  BY <1>7, SameSlots DEF RollSsm
<1>8. CASE Connect
  <2>1. registry'.version = registry.version /\ registry'.loaded = registry.loaded
        /\ registry'.valid = registry.valid /\ app' = app
    BY <1>8 DEF Connect, TypeInv, TypeOK
  <2>2. CurrentSlot \in Slot
    BY <1>8, ValidWhenUp DEF Connect, BootInv, StrangerRuns, TypeInv, PcOK
  <2> QED
    BY <1>8, <2>1, <2>2, SameSlots DEF Connect
<1>9. CASE DownloadAm
  BY <1>9, SameSlots DEF DownloadAm
<1>10. CASE DownloadSsm
  BY <1>10, SameSlots DEF DownloadSsm
<1>11. CASE DownloadGood
  <2>1. registry'.version = registry.version /\ registry'.loaded = registry.loaded
        /\ registry'.valid = registry.valid /\ app' = app
    BY <1>11 DEF DownloadGood, TypeInv, TypeOK
  <2>2. registry.loaded \in Slot
           => registry'.op[registry.loaded] = registry.op[registry.loaded]
    BY <1>1, <1>11 DEF DownloadGood, TypeInv, TypeOK
  <2> QED
    BY <1>11, <2>1, <2>2, SameSlots DEF DownloadGood
<1>12. CASE DownloadBad
  BY <1>12, SameSlots DEF DownloadBad
<1>13. CASE SetVersion
  <2>1. /\ registry'.op = registry.op /\ registry'.loaded = registry.loaded
        /\ registry'.valid = registry.valid /\ app' = app
        /\ \A s \in Slot : registry'.version[s]
              = IF s = DownloadSlot THEN amImage[DownloadSlot] ELSE registry.version[s]
    BY <1>13 DEF SetVersion, TypeInv, TypeOK
  <2>2. registry.version[DownloadSlot] # app /\ amImage[DownloadSlot] # app
    BY <1>13 DEF ImagesInv, SetVersion
  <2>3. CurrentSlot' = CurrentSlot
    BY <2>1, <2>2 DEF CurrentSlot, Slot
  <2> QED
    BY <1>1, <1>13, <2>1, <2>3 DEF SetVersion
<1>14. CASE SetPrimary
  BY <1>14, SameSlots DEF SetPrimary, TypeInv, TypeOK
<1>15. CASE OtaSsm
  BY <1>15, SameSlots DEF OtaSsm
<1>16. CASE OtaSsmFails
  <2>1. registry'.version = registry.version /\ registry'.loaded = registry.loaded
        /\ registry'.valid = registry.valid /\ app' = app
    BY <1>16 DEF OtaSsmFails, TypeInv, TypeOK
  <2>2. registry.loaded \in Slot
           => registry'.op[registry.loaded] \in {registry.op[registry.loaded], "FAILED"}
    BY <1>16 DEF OtaSsmFails, TypeInv, TypeOK
  <2> QED
    BY <1>16, <2>1, <2>2, SameSlots DEF OtaSsmFails
<1>17. CASE OtaPrimary
  BY <1>17, SameSlots DEF OtaPrimary, TypeInv, TypeOK
<1>18. CASE OtaRollSsm
  BY <1>18, SameSlots DEF OtaRollSsm
<1>19. CASE Sleep
  BY <1>19, SameSlots DEF Sleep
<1>20. CASE WatchdogReset /\ pc \notin {"setVersion", "setPrimary"}
  BY <1>20, SameSlots DEF WatchdogReset, ProgramPcs
<1>21. CASE EraseSsm
  BY <1>21, SameSlots DEF EraseSsm, ProgramPcs
<1>22. CASE DownloadBail
  BY <1>22, SameSlots DEF DownloadBail
<1>23. CASE OtaBegin
  BY <1>23, SameSlots DEF OtaBegin
<1> QED
  BY <1>2, <1>3, <1>4, <1>5, <1>6, <1>7, <1>8, <1>9, <1>10, <1>11, <1>12,
     <1>13, <1>14, <1>15, <1>16, <1>17, <1>18, <1>19, <1>20, <1>21, <1>22,
     <1>23

LEMMA MfgSetupKeepsBoot ==
    ASSUME TypeInv, ImagesInv, MfgSetup
    PROVE  BootInv'
<1>1. /\ pc' = "bl" /\ app' = Package /\ amImage'["A"] = FirstVersion
      /\ registry'.loaded = UNKNOWN_SLOT /\ blCache'.count = 0
  BY DEF MfgSetup, Write, imageRegistryDefault, TypeInv, TypeOK, Slot
<1>2. ImageOk("A")'
  BY <1>1, NoNames DEF ImageOk, Slot
<1> QED
  BY <1>1, <1>2, NoNames, SlotsAre DEF BootInv, StrangerRuns

(* Nothing is loaded: the cache goes on about the same slot.               *)
LEMMA BootStartKeepsBoot ==
    ASSUME TypeInv, ImagesInv, RegistryInv, BootInv, BootStart
    PROVE  BootInv'
<1>1. /\ pc = "bl" /\ pc' = "app" /\ app' = app /\ amImage' = amImage
      /\ registry' = registry /\ wrote' = FALSE /\ blCache' = Entered(Decide(BootCache))
      /\ ~Loads(BootCache)
  BY SlotsAre DEF BootStart, NoWrite, images, Loads
<1>2. blCache'.last = BootCache.last /\ blCache'.key
  BY <1>1, LoadsWhen, BootCacheTyped DEF Entered, TypeInv
<1>3. /\ Loads(PowerUpCache)' <=> Loads(PowerUpCache)
      /\ \A s \in Slot : ImageOk(s)' <=> ImageOk(s)
  BY <1>1, SamePowerUp
<1>4. CurrentSlot' = CurrentSlot
  BY <1>1 DEF CurrentSlot
<1>5. CurrentSlot \in Slot /\ app \in Versions /\ CurrentSlot # registry.loaded
         => blCache.key /\ BootCache = blCache
  BY <1>1 DEF BootInv, Pending, BootCache
<1>6. /\ blCache.key => BootCache = blCache
      /\ ~blCache.key => BootCache = PowerUpCache
  BY DEF BootCache
<1>7. BootCache.last = UNKNOWN_SLOT
         => ~ImageOk("A") /\ ~ImageOk("B") /\ Decide(BootCache).reason = "PANIC"
  <2> SUFFICES ASSUME BootCache.last = UNKNOWN_SLOT
               PROVE  /\ ~ImageOk("A") /\ ~ImageOk("B")
                      /\ Decide(BootCache).reason = "PANIC"
    OBVIOUS
  <2>1. BootCache.last \notin Slot /\ BootCache \in Cache
    BY BootCacheTyped, SlotsAre DEF TypeInv
  <2>2. BootCache.reason # "MANUFACTURING"
    BY <1>1, <1>6, <2>1, LoadsWhen, PowerUpIs DEF BootInv
  <2> QED
    BY <1>1, <2>1, <2>2, LoadsWhen
<1>8. blCache'.reason = Decide(BootCache).reason
  BY <1>1 DEF Entered
<1>9. ImageOk("A")' <=> ImageOk("A")
  BY <1>1 DEF ImageOk
<1>10. ImageOk("B")' <=> ImageOk("B")
  BY <1>1 DEF ImageOk
<1>11. registry.valid /\ registry.loaded \in Slot
       /\ app = registry.version[registry.loaded]
          => BootCache.last = registry.loaded
  BY <1>6, PowerUpIs DEF BootInv
<1>12. registry.valid /\ BootCache.last = UNKNOWN_SLOT => registry.loaded = UNKNOWN_SLOT
  BY <1>6, PowerUpIs DEF BootInv
<1> QED
  BY <1>1, <1>2, <1>3, <1>4, <1>5, <1>7, <1>8, <1>9, <1>10, <1>11, <1>12
     DEF BootInv, StrangerRuns, Pending

LEMMA BootEraseKeepsBoot ==
    ASSUME TypeInv, ImagesInv, RegistryInv, BootInv, BootErase
    PROVE  BootInv'
<1>1. /\ pc = "bl" /\ pc' = "load" /\ app' = Broken /\ amImage' = amImage
      /\ registry' = registry /\ wrote' = FALSE /\ blCache' = BootCache
  BY DEF BootErase, NoWrite, images
<1>2. Loads(BootCache)
  BY BootCacheTyped, DecideTyped DEF BootErase, Loads, TypeInv, Decision
<1>3. Loads(PowerUpCache)'
  BY <1>1, <1>2, SamePowerUp, PowerUpLoadsToo
<1>4. /\ blCache.key => BootCache = blCache
      /\ ~blCache.key => BootCache = PowerUpCache
  BY DEF BootCache
<1>5. app' \notin Versions
      /\ (registry.loaded \in Slot => app' # registry.version[registry.loaded])
  BY <1>1, NoNames DEF ImagesInv, Known
<1>6. BootCache.count > START_COUNT_LIMIT \/ BootCache.reason = "MANUFACTURING"
         => blCache.key
  BY <1>4, PowerUpIs, BoundsAssumption
<1>7. registry.valid /\ BootCache.last = UNKNOWN_SLOT => registry.loaded = UNKNOWN_SLOT
  BY <1>4, PowerUpIs DEF BootInv
<1>8. ImageOk("A")' <=> ImageOk("A")
  BY <1>1 DEF ImageOk
<1> QED
  BY <1>1, <1>3, <1>4, <1>5, <1>6, <1>7, <1>8 DEF BootInv, StrangerRuns

LEMMA BootProgramKeepsBoot ==
    ASSUME TypeInv, ImagesInv, RegistryInv, BootInv, BootProgram
    PROVE  BootInv'
<1> DEFINE s == Decide(blCache).load
           l == registry.loaded
<1>1. /\ pc = "load" /\ pc' = "app" /\ app = Broken /\ amImage' = amImage
      /\ registry' = registry /\ wrote' = FALSE /\ blCache' = Entered(Decide(blCache))
      /\ app' \in {amImage[s], Broken} /\ blCache.key
  BY DEF BootProgram, NoWrite, images, BootInv, TypeInv, PcOK
<1>2. s \in Slot /\ Loads(blCache) /\ blCache \in Cache
  BY <1>1 DEF TypeInv, PcOK, TypeOK, Loads, Cache
<1>3. blCache'.last = s /\ blCache'.key
  <2>1. Decide(blCache).last = s
    BY <1>2, SlotsAre DEF Decide, xNominalMode, xPanicMode, xManufacturingMode,
       xCasesTenThroughSixteen, xCasesSeventeenThroughNineteen, Load, Start
  <2> QED
    BY <1>1, <2>1 DEF Entered
<1>4. Loads(PowerUpCache)'
  BY <1>1, SamePowerUp DEF BootInv
<1>5. ASSUME app' \in Versions, NEW t \in Slot, registry.version[t] = app'
      PROVE  t = s
  <2>1. Known(t) /\ app' = amImage[s]
    BY <1>1, <1>5, NoNames DEF Known
  <2> QED
    BY <1>2, <1>5, <2>1, OtherImageIsOther DEF Slot, Alternate
<1>6. StrangerRuns'
  <2> SUFFICES ASSUME registry.valid, app' \in Versions,
                      CurrentSlot' \notin Slot, l \in Slot
               PROVE  registry.op[l] = "FAILED"
    BY <1>1 DEF StrangerRuns
  <2>1. app' = amImage[s] /\ registry.version[s] # app'
    <3>1. registry'.version[s] # app'
      BY <1>2, CurrentSlotIs DEF CurrentSlot, Slot
    <3> QED
      BY <1>1, <3>1, NoNames
  <2>2. Hidden(s) /\ s # l
    BY <2>1 DEF Hidden, ImagesInv
  <2>3. s = Alternate(l) /\ l = Alternate(s) /\ {s, l} = Slot
    BY <1>2, <2>2 DEF Slot, Alternate
  <2>4. SUFFICES ASSUME registry.op[l] # "FAILED" PROVE FALSE
    OBVIOUS
  <2>5. registry.primary = l
    BY <1>1, <2>2, <2>3, <2>4 DEF RegistryInv
  <2>6. registry.op[l] = "OP_UNKNOWN" /\ blCache.count > START_COUNT_LIMIT
           => registry.op[s] = "FAILED"
    BY <1>1, <2>3, <2>5 DEF BootInv
  <2>7. blCache.last \in Slot
    BY <1>1, <1>2, SlotsAre DEF BootInv, Cache
  <2>8. blCache.last = l
    BY <1>2, <2>3, <2>7, LoadsWhen
  <2> QED
    BY <1>2, <2>3, <2>4, <2>5, <2>6, <2>7, <2>8, LoadsWhen
<1>7. CurrentSlot' \in Slot /\ app' \in Versions => CurrentSlot' = s
  <2> SUFFICES ASSUME CurrentSlot' \in Slot, app' \in Versions PROVE CurrentSlot' = s
    OBVIOUS
  <2>1. registry'.version[CurrentSlot'] = app'
    BY DEF CurrentSlot, Slot, UNKNOWN_SLOT
  <2> QED
    BY <1>1, <1>5, <2>1
<1>8. l \in Slot /\ app' = registry.version[l] => s = l
  BY <1>5 DEF ImagesInv, Known
<1> QED
  BY <1>1, <1>2, <1>3, <1>4, <1>6, <1>7, <1>8, SlotsAre DEF BootInv, Pending

LEMMA CrashResetKeepsBoot ==
    ASSUME TypeInv, ImagesInv, RegistryInv, BootInv, CrashReset
    PROVE  BootInv'
<1>1. /\ pc = "app" /\ pc' = "bl" /\ app \in Resetting /\ app' = app /\ amImage' = amImage
      /\ registry' = registry /\ wrote' = FALSE /\ blCache' = blCache /\ app \in Versions
  BY VersionsAssumption DEF CrashReset, NoWrite, images
<1>2. CurrentSlot' = CurrentSlot
  BY <1>1 DEF CurrentSlot
<1>3. Loads(PowerUpCache)' <=> Loads(PowerUpCache)
  BY <1>1, SamePowerUp
<1>4. ASSUME registry.valid, registry.loaded \in Slot, registry.primary = registry.loaded,
             registry.op[registry.loaded] = "OP_UNKNOWN"
      PROVE  FALSE
  <2>1. /\ PowerUpCache \in Cache /\ PowerUpCache.last = registry.loaded
        /\ PowerUpCache.count = 0
    BY <1>4, PowerUpIs, BootCacheTyped DEF TypeInv
  <2>2. ~Loads(PowerUpCache)
    BY <1>4, <2>1, LoadsWhen, BoundsAssumption
  <2>3. app # registry.version[registry.loaded]
    BY <1>1, <1>4 DEF RegistryInv
  <2>4. CurrentSlot \in Slot
    BY <1>1, <1>4 DEF BootInv, StrangerRuns
  <2>5. CurrentSlot # registry.loaded
    BY <2>3, <2>4, CurrentSlotIs
  <2> QED
    BY <1>1, <2>2, <2>4, <2>5 DEF BootInv, Pending
<1> QED
  BY <1>1, <1>2, <1>3, <1>4, NoNames DEF BootInv, StrangerRuns, Pending

LEMMA AppStartKeepsBoot ==
    ASSUME TypeInv, ImagesInv, RegistryInv, BootInv, AppStart
    PROVE  BootInv'
<1>1. /\ pc = "app" /\ pc' = "cacheInit" /\ app \in Versions /\ app' = app
      /\ amImage' = amImage /\ blCache' = blCache /\ blCache.key
  BY DEF AppStart, images, TypeInv, PcOK
<1>2. ~(blCache.last = UNKNOWN_SLOT /\ blCache.reason = "MANUFACTURING")
  BY <1>1 DEF BootInv
<1>3. CASE registry.valid
  <2>1. registry' = registry /\ wrote' = FALSE
    BY <1>3 DEF AppStart, NoWrite
  <2>2. CurrentSlot' = CurrentSlot
    BY <1>1, <2>1 DEF CurrentSlot
  <2>3. /\ Loads(PowerUpCache)' <=> Loads(PowerUpCache)
        /\ ImageOk("A")' <=> ImageOk("A")
        /\ ImageOk("B")' <=> ImageOk("B")
    BY <1>1, <2>1, SamePowerUp DEF ImageOk
  <2> QED
    BY <1>1, <1>2, <2>1, <2>2, <2>3, NoNames DEF BootInv, StrangerRuns, Pending
<1>4. CASE ~registry.valid
  <2>1. registry' = imageRegistryDefault
    BY <1>4 DEF AppStart, Write
  <2>2. CurrentSlot' \notin Slot
    BY <1>1, <2>1, DefaultIs, NoNames DEF CurrentSlot, Slot, UNKNOWN_SLOT
  <2>3. registry'.loaded \notin Slot /\ registry'.loaded = UNKNOWN_SLOT
    BY <2>1, DefaultIs, SlotsAre
  <2>4. (ImageOk("A")' <=> ImageOk("A")) /\ (ImageOk("B")' <=> ImageOk("B"))
    BY <1>1 DEF ImageOk
  <2> QED
    BY <1>1, <1>2, <2>2, <2>3, <2>4, NoNames DEF BootInv, StrangerRuns
<1> QED
  BY <1>3, <1>4

LEMMA SetLoadedKeepsBoot ==
    ASSUME TypeInv, ImagesInv, RegistryInv, BootInv, SetLoaded
    PROVE  BootInv'
<1>1. /\ SameBut("loaded") /\ pc = "cacheInit" /\ app \in Versions /\ app # Broken
      /\ pc' \in {"opState", "verify"} /\ blCache' = blCache /\ blCache.key
      /\ registry.valid
  BY NoNames, ValidWhenUp
     DEF SetLoaded, Write, NoWrite, images, SameBut, TypeInv, TypeOK, PcOK
<1>2. registry'.loaded = IF CurrentSlot \in Slot THEN CurrentSlot ELSE registry.loaded
  BY CurrentSlotIs, SlotsAre DEF SetLoaded, NoWrite, Write, TypeInv, TypeOK
<1>3. CurrentSlot' = CurrentSlot
  BY <1>1 DEF SameBut, CurrentSlot
<1>4. ~(blCache.last = UNKNOWN_SLOT /\ blCache.reason = "MANUFACTURING")
  BY <1>1 DEF BootInv
<1>5. CASE CurrentSlot \in Slot
  <2>1. blCache.last = CurrentSlot
    <3>1. CASE CurrentSlot = registry.loaded
      BY <1>1, <1>5, <3>1, CurrentSlotIs DEF BootInv
    <3>2. CASE CurrentSlot # registry.loaded
      BY <1>1, <1>5, <3>2 DEF BootInv
    <3> QED
      BY <3>1, <3>2
  <2> QED
    BY <1>1, <1>2, <1>3, <1>5, <2>1, SlotsAre
       DEF BootInv, StrangerRuns, SameBut
<1>6. CASE CurrentSlot \notin Slot
  BY <1>1, <1>2, <1>3, <1>4, <1>6 DEF BootInv, StrangerRuns, SameBut
<1> QED
  BY <1>5, <1>6

LEMMA PowerKeepsBoot ==
    ASSUME TypeInv, ImagesInv, RegistryInv, BootInv, FromPowerOff \/ PowerLoss
    PROVE  BootInv'
<1>1. /\ pc' = "bl" /\ app' = app /\ amImage' = amImage /\ wrote' = FALSE
      /\ ~blCache'.key
      /\ registry' = registry
         \/ (wrote /\ registry' = [registry EXCEPT !.valid = FALSE])
  BY DEF FromPowerOff, PowerLoss, NoWrite, images, TypeInv, TypeOK
<1>2. registry'.version = registry.version /\ registry'.loaded = registry.loaded
  BY <1>1 DEF TypeInv, TypeOK
<1>3. CurrentSlot' = CurrentSlot
  BY <1>1, <1>2 DEF CurrentSlot
<1>4. CASE registry' = registry
  <2>1. Loads(PowerUpCache)' <=> Loads(PowerUpCache)
    BY <1>1, <1>4, SamePowerUp
  <2> QED
    BY <1>1, <1>3, <1>4, <2>1 DEF BootInv, StrangerRuns, Pending
<1>5. CASE wrote /\ ~registry'.valid
  <2>1. /\ app # Broken
        /\ ~(app \in Versions /\ CurrentSlot \in Slot /\ CurrentSlot # registry.loaded)
    BY <1>5 DEF BootInv, Pending
  <2> QED
    BY <1>1, <1>2, <1>3, <1>5, <2>1 DEF BootInv, StrangerRuns
<1> QED
  BY <1>1, <1>4, <1>5 DEF TypeInv, TypeOK

LEMMA StutterKeepsBoot == BootInv /\ UNCHANGED vars => BootInv'
<1> SUFFICES ASSUME BootInv, UNCHANGED vars PROVE BootInv'
  OBVIOUS
<1>1. /\ app' = app /\ amImage' = amImage /\ registry' = registry /\ wrote' = wrote
      /\ blCache' = blCache /\ pc' = pc
  BY DEF vars
<1>2. CurrentSlot' = CurrentSlot
  BY <1>1 DEF CurrentSlot
<1>3. /\ Loads(PowerUpCache)' <=> Loads(PowerUpCache)
      /\ ImageOk("A")' <=> ImageOk("A")
      /\ ImageOk("B")' <=> ImageOk("B")
  BY <1>1, SamePowerUp DEF ImageOk
<1> QED
  BY <1>1, <1>2, <1>3 DEF BootInv, StrangerRuns, Pending

LEMMA InitBoot == Init => BootInv
  BY NoNames, SlotsAre DEF Init, BootInv, StrangerRuns, imageRegistryDefault

(* The two invariants hold one another up.                                 *)
LEMMA StepKeepsRegistry ==
    TypeInv /\ ImagesInv /\ RegistryInv /\ BootInv /\ [WholeNext]_vars => RegistryInv'
<1> SUFFICES ASSUME TypeInv, ImagesInv, RegistryInv, BootInv, [WholeNext]_vars
             PROVE  RegistryInv'
  OBVIOUS
<1> USE StillSteps, StillKeepsRegistry
<1>1. StrangerRuns
  BY DEF BootInv
<1>2. CASE UNCHANGED vars
  BY <1>2
<1>3. CASE WholeNext
  <2>1. CASE Boot
    BY <2>1, MfgSetupKeepsRegistry DEF Boot
  <2>2. CASE Startup
    BY <1>1, <2>2, AppStartKeepsRegistry, SetLoadedKeepsRegistry,
       SetOpStateKeepsRegistry, SetFallbackPrimaryKeepsRegistry,
       VerifySsmKeepsRegistry, RollPrimaryKeepsRegistry
       DEF Startup
  <2>3. CASE Ota
    BY <2>3, DownloadSsmKeepsRegistry, DownloadGoodKeepsRegistry,
       DownloadBadKeepsRegistry, SetVersionKeepsRegistry,
       SetPrimaryKeepsRegistry, OtaSsmFailsKeepsRegistry,
       OtaPrimaryKeepsRegistry
       DEF Ota
  <2>4. CASE (Connect \/ DownloadAm) /\ ~Ota
    BY <1>1, <2>4, ConnectKeepsRegistry, DownloadAmKeepsRegistry
  <2>5. CASE (DownloadBail \/ Sleep \/ WatchdogReset \/ PowerLoss) /\ ~Ota
    BY <1>3, <2>5 DEF WholeNext
  <2>6. CASE PowerUp \/ WatchdogCycle
    BY <2>6 DEF PowerUp, WatchdogCycle
  <2> QED
    BY <1>3, <2>1, <2>2, <2>3, <2>4, <2>5, <2>6 DEF WholeNext, FreshNext, Next
<1> QED
  BY <1>2, <1>3

LEMMA StepKeepsBoot ==
    TypeInv /\ ImagesInv /\ RegistryInv /\ BootInv /\ [WholeNext]_vars => BootInv'
<1> SUFFICES ASSUME TypeInv, ImagesInv, RegistryInv, BootInv, [WholeNext]_vars
             PROVE  BootInv'
  OBVIOUS
<1> USE OnwardSteps, OnwardKeepsBoot
<1>1. CASE UNCHANGED vars
  BY <1>1, StutterKeepsBoot
<1>2. CASE WholeNext
  <2>1. CASE Boot
    BY <2>1, MfgSetupKeepsBoot, BootStartKeepsBoot, BootEraseKeepsBoot,
       BootProgramKeepsBoot DEF Boot
  <2>2. CASE Startup
    BY <2>2, CrashResetKeepsBoot, AppStartKeepsBoot, SetLoadedKeepsBoot
       DEF Startup
  <2>3. CASE Ota
    BY <2>3 DEF Ota
  <2>4. CASE Connect \/ DownloadAm \/ DownloadBail \/ Sleep
    BY <2>4
  <2>5. CASE WatchdogReset /\ ~Ota
    BY <1>2, <2>5 DEF WholeNext
  <2>6. CASE PowerUp \/ WatchdogCycle \/ PowerLoss
    BY <2>6, PowerKeepsBoot DEF PowerUp, WatchdogCycle
  <2> QED
    BY <1>2, <2>1, <2>2, <2>3, <2>4, <2>5, <2>6 DEF WholeNext, FreshNext, Next
<1> QED
  BY <1>1, <1>2

-----------------------------------------------------------------------------
(* A registry that no power loss destroys.                                 *)

(* The registry names the image in each slot but the one that a download   *)
(* has written and not registered yet, and it names the one that runs.     *)
NamesInv ==
    /\ ~registry.valid => app = Package /\ ~blCache.key
    /\ \A s \in Slot : Hidden(s)
          => pc \in {"downloadSsm", "setVersion"} /\ s = DownloadSlot
    /\ app \in Versions => CurrentSlot \in Slot

SafeNext == KeptNext /\ WholeNext

(* Steps that change no image and nothing that the registry says of one.   *)
Nameless ==
    /\ UNCHANGED <<app, amImage>>
    /\ registry'.version = registry.version /\ registry'.loaded = registry.loaded
    /\ registry'.valid
    /\ pc \in {"downloadSsm", "setVersion"} => pc' \in {"downloadSsm", "setVersion"}

LEMMA NamelessKeeps == NamesInv /\ Nameless => NamesInv'
<1> SUFFICES ASSUME NamesInv, Nameless PROVE NamesInv'
  OBVIOUS
<1>1. CurrentSlot' = CurrentSlot /\ DownloadSlot' = DownloadSlot
  BY SameSlots DEF Nameless
<1>2. \A s \in Slot : Hidden(s)' <=> Hidden(s)
  BY DEF Nameless, Hidden
<1> QED
  BY <1>1, <1>2 DEF NamesInv, Nameless

LEMMA QuietSteps ==
    ASSUME TypeInv, ImagesInv, [SafeNext]_vars
    PROVE  \/ Quiet
           \/ MfgSetup \/ BootErase \/ BootProgram \/ (AppStart /\ ~registry.valid)
           \/ SetLoaded \/ DownloadAm \/ DownloadSsm \/ DownloadBad \/ SetVersion
<1>1. CASE Boot
  BY <1>1, PowerIsQuiet DEF Boot
<1>2. CASE Startup
  BY <1>2, StartupIsQuiet DEF Startup
<1>3. CASE Ota
  BY <1>3, ServingIsQuiet DEF Ota
<1>4. CASE Connect \/ DownloadAm \/ DownloadBail
  BY <1>4, ServingIsQuiet
<1>5. CASE Sleep \/ WatchdogReset \/ PowerUp \/ WatchdogCycle \/ PowerLoss
           \/ UNCHANGED vars
  BY <1>5, PowerIsQuiet DEF PowerUp, WatchdogCycle
<1> QED
  BY <1>1, <1>2, <1>3, <1>4, <1>5 DEF SafeNext, WholeNext, FreshNext, Next

(* Before there is a registry the device only makes one.                  *)
LEMMA FirstStep ==
    ASSUME TypeInv, ImagesInv, NamesInv, [SafeNext]_vars, ~registry.valid, ~MfgSetup
    PROVE  NamesInv'
<1>1. pc = "bl" /\ app = Package /\ ~blCache.key
  BY DEF NamesInv, TypeInv, PcOK
<1>2. ~BootStart /\ ~BootErase /\ ~BootProgram
  BY <1>1 DEF BootStart, BootErase, BootProgram
<1>3. ~Startup
  BY <1>1 DEF Startup, CrashReset, AppStart, SetLoaded, SetOpState, SetFallbackPrimary,
         EraseSsm, StartSsm, VerifySsm, RollPrimary, RollSsm, ProgramPcs
<1>4. ~Ota
  BY <1>1 DEF Ota, DownloadSsm, DownloadGood, DownloadBad, SetVersion, SetPrimary,
         OtaBegin, OtaSsm, OtaSsmFails, OtaPrimary, OtaRollSsm
<1>5. ~Connect /\ ~DownloadAm /\ ~DownloadBail /\ ~Sleep /\ ~WatchdogReset
  BY <1>1 DEF Connect, DownloadAm, DownloadBail, Sleep, WatchdogReset, ProgramPcs, DownloadPcs
<1>6. ~PowerUp /\ ~WatchdogCycle
  BY <1>1 DEF PowerUp, WatchdogCycle, FromPowerOff, Hangs
<1>7. PowerLoss \/ UNCHANGED vars
  BY <1>2, <1>3, <1>4, <1>5, <1>6 DEF SafeNext, WholeNext, FreshNext, Next, Boot
<1>8. /\ app' = app /\ amImage' = amImage /\ registry'.version = registry.version
      /\ ~blCache'.key
  BY <1>1, <1>7 DEF PowerLoss, images, vars, TypeInv, TypeOK
<1>9. \A s \in Slot : ~Hidden(s)'
  BY <1>1, <1>8 DEF NamesInv, Hidden
<1> QED
  BY <1>1, <1>8, <1>9, NoNames DEF NamesInv

LEMMA StepKeepsNames ==
    TypeInv /\ ImagesInv /\ NamesInv /\ [SafeNext]_vars => NamesInv'
<1> SUFFICES ASSUME TypeInv, ImagesInv, NamesInv, [SafeNext]_vars,
                    registry.valid \/ MfgSetup
             PROVE  NamesInv'
  BY FirstStep
<1>1. registry'.valid
  BY DEF SafeNext, KeptNext, vars, MfgSetup, Write, imageRegistryDefault
<1>2. CASE Quiet
  <2>1. pc \in {"downloadSsm", "setVersion"}
           => pc' \in {"downloadSsm", "setVersion"} \/ DownloadBad \/ SetVersion
    BY DEF SafeNext, WholeNext, vars, Ota, DownloadSsm, DownloadGood, SetPrimary,
           OtaBegin, OtaSsm, OtaSsmFails, OtaPrimary, OtaRollSsm
  <2>2. CASE ~DownloadBad /\ ~SetVersion
    BY <1>1, <1>2, <2>1, <2>2, NamelessKeeps DEF Nameless, Quiet
  <2>3. CASE DownloadBad
    <3>1. amImage'[DownloadSlot] = Broken
      BY <2>3, DownloadSlotIs DEF DownloadBad, TypeInv, TypeOK
    <3>2. \A s \in Slot : Hidden(s)' => Hidden(s) /\ s # DownloadSlot
      BY <1>2, <3>1, NoNames DEF Quiet, Hidden
    <3>3. CurrentSlot' = CurrentSlot
      BY <1>2, SameSlots DEF Quiet
    <3> QED
      BY <1>1, <1>2, <3>2, <3>3 DEF NamesInv, Quiet
  <2>4. CASE SetVersion
    <3>1. registry'.version[DownloadSlot] = amImage[DownloadSlot]
      BY <2>4, DownloadSlotIs DEF SetVersion, Write, TypeInv, TypeOK
    <3>2. \A s \in Slot : Hidden(s)' => Hidden(s) /\ s # DownloadSlot
      BY <1>2, <3>1 DEF Quiet, Hidden
    <3>3. CurrentSlot' = CurrentSlot
      BY <1>2, SameSlots DEF Quiet
    <3> QED
      BY <1>1, <1>2, <3>2, <3>3 DEF NamesInv, Quiet
  <2> QED
    BY <2>2, <2>3, <2>4
<1>3. CASE MfgSetup
  <2>1. /\ app' = Package /\ app = Package
        /\ registry'.version["A"] = FirstVersion
        /\ amImage'["A"] = FirstVersion /\ amImage'["B"] = amImage["B"]
    BY <1>3 DEF MfgSetup, Write, imageRegistryDefault, TypeInv, TypeOK, Slot
  <2>2. amImage["B"] = Broken
    BY <2>1 DEF ImagesInv
  <2>3. \A s \in Slot : ~Hidden(s)'
    BY <2>1, <2>2, NoNames DEF Hidden, Slot
  <2> QED
    BY <1>1, <2>1, <2>3, NoNames DEF NamesInv
<1>4. CASE BootErase
  <2>1. app' = Broken /\ amImage' = amImage /\ registry' = registry /\ pc = "bl"
    BY <1>4 DEF BootErase, NoWrite, images
  <2>2. \A s \in Slot : ~Hidden(s)'
    BY <2>1 DEF NamesInv, Hidden
  <2> QED
    BY <1>1, <2>1, <2>2, NoNames DEF NamesInv
<1>5. CASE BootProgram
  <2> DEFINE s == Decide(blCache).load
  <2>1. /\ app' \in {amImage[s], Broken} /\ s \in Slot /\ amImage' = amImage
        /\ registry' = registry /\ pc = "load"
    BY <1>5 DEF BootProgram, NoWrite, images, TypeInv, PcOK
  <2>2. \A t \in Slot : ~Hidden(t) /\ ~Hidden(t)'
    BY <2>1 DEF NamesInv, Hidden
  <2>3. app' \in Versions => registry.version[s] = app'
    BY <2>1, <2>2, NoNames DEF Hidden
  <2>4. app' \in Versions => CurrentSlot' \in Slot
    BY <2>1, <2>3 DEF CurrentSlot, Slot
  <2> QED
    BY <1>1, <2>2, <2>4 DEF NamesInv
<1>6. CASE AppStart /\ ~registry.valid
  BY <1>6 DEF AppStart, MfgSetup
<1>7. CASE SetLoaded
  <2>1. /\ app' = app /\ amImage' = amImage /\ registry'.version = registry.version
        /\ pc = "cacheInit"
    BY <1>7 DEF SetLoaded, NoWrite, Write, images, TypeInv, TypeOK
  <2>2. CurrentSlot' = CurrentSlot /\ \A s \in Slot : ~Hidden(s)'
    BY <2>1 DEF CurrentSlot, NamesInv, Hidden
  <2> QED
    BY <1>1, <2>1, <2>2 DEF NamesInv
<1>8. CASE DownloadAm \/ DownloadSsm \/ DownloadBad
  <2>1. /\ app' = app /\ registry' = registry
        /\ \A s \in Slot \ {DownloadSlot} : amImage'[s] = amImage[s]
        /\ pc' = "downloadSsm" \/ amImage'[DownloadSlot] = Broken
    BY <1>8, DownloadSlotIs DEF DownloadAm, DownloadSsm, DownloadBad, NoWrite, TypeInv, TypeOK
  <2>2. CurrentSlot' = CurrentSlot /\ DownloadSlot' = DownloadSlot
    BY <2>1, SameSlots
  <2>3. \A s \in Slot : Hidden(s)' => s = DownloadSlot /\ pc' = "downloadSsm"
    BY <1>8, <2>1, NoNames DEF NamesInv, Hidden
  <2> QED
    BY <1>1, <2>1, <2>2, <2>3 DEF NamesInv
<1>9. CASE SetVersion
  <2>1. /\ app' = app /\ amImage' = amImage /\ registry'.valid = registry.valid
        /\ \A s \in Slot : registry'.version[s]
              = IF s = DownloadSlot THEN amImage[s] ELSE registry.version[s]
        /\ pc = "setVersion"
    BY <1>9, DownloadSlotIs DEF SetVersion, Write, images, TypeInv, TypeOK
  <2>2. registry.version[DownloadSlot] # app /\ amImage[DownloadSlot] # app
    BY <2>1 DEF ImagesInv, DownloadPcs
  <2>3. CurrentSlot' = CurrentSlot
    BY <2>1, <2>2 DEF CurrentSlot, Slot
  <2>4. \A s \in Slot : ~Hidden(s)'
    BY <2>1 DEF NamesInv, Hidden
  <2> QED
    BY <1>1, <2>1, <2>3, <2>4 DEF NamesInv
<1> QED
  BY <1>2, <1>3, <1>4, <1>5, <1>6, <1>7, <1>8, <1>9, QuietSteps

LEMMA InitNames == Init => NamesInv
  BY NoNames DEF Init, NamesInv, Hidden

LEMMA WholeSteps ==
    /\ [FreshNext]_vars => [Next]_vars
    /\ [WholeNext]_vars => [FreshNext]_vars
  BY DEF WholeNext, FreshNext

(* Of devices with SafeSpec: no download destroys the copy of the running  *)
(* image, and the registry never loses track of it.  The slot for a        *)
(* download follows the slot loaded last, the running image its version:   *)
(* checkWhichAddrToStoreAmImage and MEM_getSlotWithThisVersion cannot be   *)
(* brought to disagree, whatever was downloaded, loaded and rolled back    *)
(* before, and however boots and SSM programming were cut.                 *)
THEOREM RunningImageIsKept == SafeSpec => []RunningImageKept
<1> DEFINE IInv == TypeInv /\ ImagesInv /\ NamesInv
<1>1. Init => IInv
  BY InitTyped, InitImages, InitNames
<1>2. IInv /\ [SafeNext]_vars => IInv'
  BY StepTyped, StepKeepsImages, StepKeepsNames, WholeSteps DEF SafeNext
<1>3. IInv => RunningImageKept
  <2> SUFFICES ASSUME IInv, app \in Versions
               PROVE  CurrentSlot \in Slot /\ amImage[CurrentSlot] = app
    BY DEF RunningImageKept
  <2>1. CurrentSlot \in Slot
    BY DEF NamesInv
  <2>2. registry.version[CurrentSlot] = app
    BY <2>1, CurrentSlotIs
  <2> QED
    BY <2>1, <2>2 DEF ImagesInv
<1> QED
  BY <1>1, <1>2, <1>3, PTL DEF SafeSpec, SafeNext

(* Of devices on which nothing comes between the end of an AM image and    *)
(* the registry writes that finish its download: an internal flash left    *)
(* half programmed, by a power loss or by failures, is programmed again    *)
(* from a good image at the next power-up.  The registry then decides for  *)
(* a load whatever the cache that was lost had decided from.               *)
THEOREM BrokenFlashReloaded == WholeSpec => []BrokenFlashIsReloaded
<1> DEFINE IInv == TypeInv /\ ImagesInv /\ RegistryInv /\ BootInv
<1>1. Init => IInv
  BY InitTyped, InitImages, InitRegistry, InitBoot
<1>2. IInv /\ [WholeNext]_vars => IInv'
  BY StepTyped, StepKeepsImages, StepKeepsRegistry, StepKeepsBoot, WholeSteps
<1>3. IInv => BrokenFlashIsReloaded
  <2> SUFFICES ASSUME IInv, app = Broken
               PROVE  /\ Decide(PowerUpCache).load \in Slot
                      /\ ImageOk(Decide(PowerUpCache).load)
    BY DEF BrokenFlashIsReloaded
  <2>1. Loads(PowerUpCache) /\ PowerUpCache \in Cache
    BY BootCacheTyped DEF BootInv, TypeInv
  <2> QED
    BY <2>1, LoadsWhen DEF Loads
<1> QED
  BY <1>1, <1>2, <1>3, PTL DEF WholeSpec
=============================================================================
