------------------------- MODULE AmSensorLogProofs -------------------------
(***************************************************************************)
(* Proofs about AmSensorLog, for every ring size below 256, every number   *)
(* of logs and power losses in every flash write: the types, that a pop    *)
(* never underflows the 8-bit count, that a persisted full flag agrees     *)
(* with the persisted header, and that an AM used in an orderly way        *)
(* implements the stack of SensorStack.                                    *)
(***************************************************************************)
EXTENDS AmSensorLog, SequenceTheorems, TLAPS

(* Bump and Prev give slots of the ring, for any byte a header may hold.   *)
LEMMA StepsInRing == \A i \in 0 .. 255 : Bump(i) \in Index /\ Prev(i) \in Index
BY RingSizeAssumption DEF Bump, Prev, Index

(* A slot index is a byte.                                                 *)
LEMMA IndexIsByte == Index \subseteq 0 .. 255 /\ 0 \in Index
BY RingSizeAssumption DEF Index

-----------------------------------------------------------------------------
(* The inductive invariant.  Outside boot the flash header is valid; the   *)
(* RAM flag is set whenever the persisted one is, and then the count says  *)
(* full or zero; a pop in progress has a publish to confirm and a cleared  *)
(* flag.                                                                   *)
LogInv ==
    /\ TypeOK
    /\ PopNeverUnderflows
    /\ PersistedFullAgrees
    /\ pc # "boot" => hdr.ok
    /\ pc # "boot" /\ cfg.full => xSensorDataIsFull
    /\ pc # "boot" /\ xSensorDataIsFull
          => hdr.lifoCount \in {0, MAX_SENSOR_DATA_LOGS}
    /\ pc = "popHdr" => pub # 0 /\ ~xSensorDataIsFull
    /\ pc = "boot" => pub = 0
    /\ cfg.full => cfg.ok

(* A header outside boot is one of the valid headers.                      *)
LEMMA HdrValid ==
    ASSUME TypeOK, hdr.ok
    PROVE  hdr \in ValidHdr
<1>1. hdr # ErasedHdr
  BY DEF ErasedHdr
<1> QED BY <1>1 DEF TypeOK

(* The parts of a valid header.                                            *)
LEMMA ValidHdrParts ==
    ASSUME NEW h \in ValidHdr
    PROVE  /\ h.head \in Index /\ h.head \in 0 .. 255
           /\ h.lifoCount \in 0 .. 255 /\ h.ok
BY IndexIsByte DEF ValidHdr

(* A header built from a slot and a byte is valid.                         *)
LEMMA ValidHdrBuilt ==
    ASSUME NEW i \in Index, NEW c \in 0 .. 255
    PROVE  [head |-> i, lifoCount |-> c, ok |-> TRUE] \in ValidHdr
BY DEF ValidHdr

LEMMA DefaultHdrValid == DefaultHdr \in ValidHdr /\ DefaultHdr.lifoCount = 0
BY IndexIsByte DEF DefaultHdr, ValidHdr

LEMMA LogInvInit == Init => LogInv
<1> SUFFICES ASSUME Init PROVE LogInv
  OBVIOUS
<1>1. 0 \in Index /\ 0 \in 0 .. NumLogs /\ 0 \in 0 .. 255
  BY IndexIsByte, NumLogsAssumption
<1>2. slot \in [Index -> [id : 0 .. NumLogs, ok : BOOLEAN]]
  BY <1>1 DEF Init, ErasedSlot
<1>3. hdr \in ValidHdr
  BY DefaultHdrValid DEF Init
<1>4. sensorDataHdr \in [head : 0 .. 255, lifoCount : 0 .. 255]
  BY <1>1 DEF Init, DefaultHdr, Fields
<1>5. cfg \in [full : BOOLEAN, ok : BOOLEAN] /\ ~cfg.full
  BY DEF Init, DefaultCfg
<1>6. TypeOK
  BY <1>1, <1>2, <1>3, <1>4, <1>5 DEF Init, TypeOK
<1>7. hdr.ok
  BY <1>3, ValidHdrParts
<1> QED
  BY <1>5, <1>6, <1>7
     DEF Init, LogInv, PopNeverUnderflows, PersistedFullAgrees

LEMMA LogInvStep == LogInv /\ [Next]_vars => LogInv'
<1> SUFFICES ASSUME LogInv, [Next]_vars PROVE LogInv'
  OBVIOUS
<1> USE DEF LogInv, PopNeverUnderflows, PersistedFullAgrees
<1>0. TypeOK
  OBVIOUS
<1>1. CASE StoreHdr
  <2>1. hdr \in ValidHdr
    BY <1>1, <1>0, HdrValid DEF StoreHdr, Idle
  <2>2. hdr' \in ValidHdr
    <3> DEFINE count == IF xSensorDataIsFull THEN MAX_SENSOR_DATA_LOGS
                        ELSE (hdr.lifoCount + 1) % 256
    <3>1. Bump(hdr.head) \in Index
      BY <2>1, StepsInRing, ValidHdrParts
    <3>2. count \in 0 .. 255
      BY <2>1, ValidHdrParts, RingSizeAssumption
    <3>3. hdr' = [head |-> Bump(hdr.head), lifoCount |-> count, ok |-> TRUE]
      BY <1>1 DEF StoreHdr
    <3> HIDE DEF count
    <3> QED BY <3>1, <3>2, <3>3, ValidHdrBuilt
  <2>3. /\ xSensorDataIsFull' => hdr'.lifoCount = MAX_SENSOR_DATA_LOGS
        /\ xSensorDataIsFull => xSensorDataIsFull'
        /\ xSensorDataIsFull' \in BOOLEAN
    BY <1>1 DEF StoreHdr, TypeOK
  <2>4. cur' \in 0 .. NumLogs
    BY <1>0, <1>1, NumLogsAssumption DEF StoreHdr, TypeOK
  <2>5. TypeOK'
    BY <1>0, <1>1, <2>2, <2>3, <2>4 DEF StoreHdr, TypeOK
  <2>6. hdr'.ok
    BY <2>2, ValidHdrParts
  <2> QED BY <1>1, <2>3, <2>5, <2>6 DEF StoreHdr, Idle
<1>2. CASE StoreData
  <2>1. Prev(hdr.head) \in Index
    BY <1>2, <1>0, HdrValid, StepsInRing, ValidHdrParts DEF StoreData
  <2>2. slot' \in [Index -> [id : 0 .. NumLogs, ok : BOOLEAN]]
    BY <1>0, <1>2, <2>1 DEF StoreData, TypeOK
  <2>3. TypeOK'
    BY <1>0, <1>2, <2>2 DEF StoreData, TypeOK
  <2> QED BY <1>2, <2>3 DEF StoreData
<1>3. CASE StoreCfg
  <2>1. /\ cfg' \in [full : BOOLEAN, ok : BOOLEAN]
        /\ cfg'.ok /\ (cfg'.full => xSensorDataIsFull)
    BY <1>0, <1>3 DEF StoreCfg, TypeOK
  <2>2. TypeOK'
    BY <1>0, <1>3, <2>1 DEF StoreCfg, TypeOK
  <2> QED BY <1>3, <2>1, <2>2 DEF StoreCfg
<1>4. CASE MqttReady \/ SendNext
  <2>0. SendNewest /\ pc # "boot"
    BY <1>4 DEF MqttReady, SendNext, Idle
  <2>1. hdr \in ValidHdr
    BY <2>0, <1>0, HdrValid
  <2>2. hdr' \in ValidHdr
    BY <2>0, <2>1, DefaultHdrValid DEF SendNewest
  <2>3. hdr'.lifoCount \in {hdr.lifoCount, 0}
    BY <2>0 DEF SendNewest, DefaultHdr
  <2>4. /\ sensorDataHdr' \in [head : 0 .. 255, lifoCount : 0 .. 255]
        /\ sensorDataHdr'.head \in Index
        /\ pub' # 0 => sensorDataHdr'.lifoCount > 0
    BY <2>0, <2>1, ValidHdrParts DEF SendNewest, Fields
  <2>5. pub' \in 0 .. NumLogs
    <3>1. Prev(hdr.head) \in Index
      BY <2>1, StepsInRing, ValidHdrParts
    <3>2. slot[Prev(hdr.head)].id \in 0 .. NumLogs
      BY <1>0, <3>1 DEF TypeOK
    <3> QED BY <2>0, <3>2, NumLogsAssumption DEF SendNewest
  <2>6. TypeOK'
    BY <1>0, <2>0, <2>2, <2>4, <2>5 DEF SendNewest, TypeOK
  <2>7. hdr'.ok
    BY <2>2, ValidHdrParts
  <2> QED BY <2>0, <2>3, <2>4, <2>6, <2>7 DEF SendNewest
<1>5. CASE PopCfg
  <2>1. cfg' \in [full : BOOLEAN, ok : BOOLEAN] /\ ~cfg'.full
    BY <1>5 DEF PopCfg
  <2>2. TypeOK'
    BY <1>0, <1>5, <2>1 DEF PopCfg, TypeOK
  <2> QED BY <1>5, <2>1, <2>2 DEF PopCfg, Idle
<1>6. CASE PopHdr
  <2>1. pc # "boot" /\ ~xSensorDataIsFull /\ ~cfg.full
    BY <1>6 DEF PopHdr, Idle
  <2> DEFINE head == Prev(sensorDataHdr.head)
  <2> DEFINE count == (sensorDataHdr.lifoCount + 255) % 256
  <2>2. /\ head \in Index /\ head \in 0 .. 255
        /\ count \in 0 .. 255
    <3>1. /\ sensorDataHdr.head \in 0 .. 255
          /\ sensorDataHdr.lifoCount \in 0 .. 255
      BY <1>0 DEF TypeOK
    <3>2. head \in Index
      BY <3>1, StepsInRing
    <3>3. count \in 0 .. 255
      BY <3>1
    <3> HIDE DEF head, count
    <3> QED BY <3>2, <3>3, IndexIsByte
  <2>3. /\ sensorDataHdr' = [head |-> head, lifoCount |-> count]
        /\ hdr' = [head |-> head, lifoCount |-> count, ok |-> TRUE]
    BY <1>6 DEF PopHdr
  <2> HIDE DEF head, count
  <2>4. hdr' \in ValidHdr
    BY <2>2, <2>3, ValidHdrBuilt
  <2>5. sensorDataHdr' \in [head : 0 .. 255, lifoCount : 0 .. 255]
    BY <2>2, <2>3
  <2>6. TypeOK'
    BY <1>0, <1>6, <2>4, <2>5, NumLogsAssumption DEF PopHdr, TypeOK
  <2>7. hdr'.ok
    BY <2>4, ValidHdrParts
  <2> QED BY <1>6, <2>1, <2>6, <2>7 DEF PopHdr
<1>7. CASE PublishFails
  <2>1. TypeOK'
    BY <1>0, <1>7, NumLogsAssumption DEF PublishFails, TypeOK
  <2> QED BY <1>7, <2>1 DEF PublishFails, Idle
<1>8. CASE Deactivate
  <2>1. hdr' \in ValidHdr
        /\ hdr'.lifoCount = 0
    BY <1>8, DefaultHdrValid DEF Deactivate
  <2>2. TypeOK'
    BY <1>0, <1>8, <2>1 DEF Deactivate, TypeOK
  <2>3. hdr'.ok
    BY <2>1, ValidHdrParts
  <2> QED BY <1>8, <2>1, <2>2, <2>3 DEF Deactivate, Idle
<1>9. CASE DeactCfg
  <2>1. TypeOK'
    BY <1>0, <1>9 DEF DeactCfg, TypeOK
  <2> QED BY <1>9, <2>1 DEF DeactCfg
<1>10. CASE PowerLoss
  <2>0. PICK keep \in 0 .. MAX_SENSOR_DATA_LOGS :
          IF busy = "data"
          THEN /\ slot' = [i \in Index |-> IF i < keep THEN slot[i] ELSE ErasedSlot]
               /\ hdr' = IF keep = 0 THEN ErasedHdr ELSE hdr
          ELSE UNCHANGED <<slot, hdr>>
    BY <1>10 DEF PowerLoss
  <2>1. hdr' \in {hdr, ErasedHdr}
    BY <2>0
  <2>4. slot' \in [Index -> [id : 0 .. NumLogs, ok : BOOLEAN]]
    <3>1. ErasedSlot \in [id : 0 .. NumLogs, ok : BOOLEAN]
      BY NumLogsAssumption DEF ErasedSlot
    <3>2. slot \in [Index -> [id : 0 .. NumLogs, ok : BOOLEAN]]
      BY <1>0 DEF TypeOK
    <3> QED BY <2>0, <3>1, <3>2
  <2>2. /\ cfg' \in [full : BOOLEAN, ok : BOOLEAN]
        /\ cfg' = cfg \/ ~cfg'.full
    <3>1. CASE cfg' = cfg
      BY <1>0, <3>1 DEF TypeOK
    <3>2. CASE cfg' = [full |-> FALSE, ok |-> FALSE]
      BY <3>2
    <3> QED BY <1>10, <3>1, <3>2 DEF PowerLoss
  <2>3. TypeOK'
    BY <1>0, <1>10, <2>1, <2>2, <2>4, NumLogsAssumption DEF PowerLoss, TypeOK
  <2> QED BY <1>10, <2>1, <2>2, <2>3 DEF PowerLoss, ErasedHdr
<1>11. CASE Boot
  <2>1. cfg' \in [full : BOOLEAN, ok : BOOLEAN] /\ cfg'.ok
        /\ (cfg'.full => cfg.ok /\ cfg.full) /\ xSensorDataIsFull' = cfg'.full
    BY <1>0, <1>11 DEF Boot, TypeOK, DefaultCfg
  <2>2. hdr' \in ValidHdr
        /\ hdr'.lifoCount \in {0, hdr.lifoCount}
        /\ (hdr.ok \/ hdr'.lifoCount = 0)
    BY <1>0, <1>11, HdrValid, DefaultHdrValid DEF Boot
  <2>3. sensorDataHdr' \in [head : 0 .. 255, lifoCount : 0 .. 255]
    <3>1. CASE hdr = ErasedHdr
      BY <3>1, <1>11 DEF Boot, Fields, ErasedHdr
    <3>2. CASE hdr \in ValidHdr
      BY <3>2, <1>11, ValidHdrParts DEF Boot, Fields
    <3> QED BY <1>0, <3>1, <3>2 DEF TypeOK
  <2>4. TypeOK'
    BY <1>0, <1>11, <2>1, <2>2, <2>3 DEF Boot, TypeOK
  <2>5. xSensorDataIsFull' => hdr'.lifoCount \in {0, MAX_SENSOR_DATA_LOGS}
    BY <2>1, <2>2
  <2>6. pub' = pub /\ pc' = "idle" /\ (pub = 0)
    BY <1>11 DEF Boot
  <2>7. hdr'.ok
    BY <2>2, ValidHdrParts
  <2> QED BY <2>1, <2>4, <2>5, <2>6, <2>7
<1>12. CASE UNCHANGED vars
  <2>1. TypeOK'
    BY <1>0, <1>12 DEF vars, TypeOK
  <2> QED BY <1>12, <2>1 DEF vars
<1> QED
  BY <1>1, <1>2, <1>3, <1>4, <1>5, <1>6, <1>7, <1>8, <1>9, <1>10, <1>11, <1>12
     DEF Next, Store, Publish

-----------------------------------------------------------------------------
LEMMA LogInvariant == Spec => []LogInv
BY LogInvInit, LogInvStep, PTL DEF Spec

(* The type invariant, under power losses in every flash write.            *)
THEOREM TypeCorrect == Spec => []TypeOK
<1>1. LogInv => TypeOK
  BY DEF LogInv
<1> QED BY <1>1, LogInvariant, PTL

(* MEM_updateSensorDataHeadAndLifoCount needs no guard against an empty    *)
(* ring: when it runs, its copy of the count is positive.                  *)
THEOREM PopIsSafe == Spec => []PopNeverUnderflows
<1>1. LogInv => PopNeverUnderflows
  BY DEF LogInv
<1> QED BY <1>1, LogInvariant, PTL

(* The order of the flash writes keeps the persisted full flag and the     *)
(* persisted count in agreement at every point where power may fail.       *)
THEOREM FullFlagSurvivesPowerLoss == Spec => []PersistedFullAgrees
<1>1. LogInv => PersistedFullAgrees
  BY DEF LogInv
<1> QED BY <1>1, LogInvariant, PTL

-----------------------------------------------------------------------------
(* The ring as a sequence.                                                 *)

(* Bump without the modulus.                                               *)
LEMMA BumpIs ==
    \A i \in Index : Bump(i) = IF i = MAX_SENSOR_DATA_LOGS - 1 THEN 0 ELSE i + 1
BY RingSizeAssumption DEF Index, Bump

(* The same of Prev.                                                       *)
LEMMA PrevIs ==
    \A i \in Index : Prev(i) = IF i = 0 THEN MAX_SENSOR_DATA_LOGS - 1 ELSE i - 1
<1>1. SUFFICES ASSUME NEW i \in Index
               PROVE  Prev(i) = IF i = 0 THEN MAX_SENSOR_DATA_LOGS - 1 ELSE i - 1
  OBVIOUS
<1>2. CASE i = 0
  BY <1>2, RingSizeAssumption DEF Index, Prev
<1>3. CASE i # 0
  BY <1>3, RingSizeAssumption DEF Index, Prev
<1> QED BY <1>2, <1>3

(* The slot j places below the newest log of a stack whose head is h.      *)
Below(h, j) == (h + 2 * MAX_SENSOR_DATA_LOGS - 1 - j) % MAX_SENSOR_DATA_LOGS

(* Below without the modulus.                                              *)
LEMMA BelowIs ==
    ASSUME NEW h \in Index, NEW j \in 0 .. MAX_SENSOR_DATA_LOGS - 1
    PROVE  /\ Below(h, j) \in Index
           /\ Below(h, j) = IF j < h THEN h - 1 - j
                            ELSE h - 1 - j + MAX_SENSOR_DATA_LOGS
<1>1. CASE j < h
  <2>1. h + 2 * MAX_SENSOR_DATA_LOGS - 1 - j
          = 2 * MAX_SENSOR_DATA_LOGS + (h - 1 - j)
        /\ h - 1 - j \in Index
    BY <1>1, RingSizeAssumption DEF Index
  <2> QED BY <1>1, <2>1, RingSizeAssumption DEF Index, Below
<1>2. CASE ~(j < h)
  <2>1. h + 2 * MAX_SENSOR_DATA_LOGS - 1 - j
          = MAX_SENSOR_DATA_LOGS + (h - 1 - j + MAX_SENSOR_DATA_LOGS)
        /\ h - 1 - j + MAX_SENSOR_DATA_LOGS \in Index
    BY <1>2, RingSizeAssumption DEF Index
  <2> QED BY <1>2, <2>1, RingSizeAssumption DEF Index, Below
<1> QED BY <1>1, <1>2

(* A function on 1 .. n is a sequence of length n.                         *)
LEMMA ListIs ==
    ASSUME NEW S, NEW n \in Nat, NEW f \in [1 .. n -> S]
    PROVE  f \in Seq(S) /\ Len(f) = n
<1>1. f \in Seq(S)
  BY SeqDef
<1>2. Len(f) \in Nat /\ DOMAIN f = 1 .. Len(f)
  BY <1>1, LenProperties
<1>3. DOMAIN f = 1 .. n
  OBVIOUS
<1>4. 1 .. n = 1 .. Len(f)
  BY <1>2, <1>3
<1>5. n = Len(f)
  BY <1>4, <1>2
<1> QED BY <1>1, <1>5

(* The rings of logs drawn from S.                                         *)
Rings(S) == [Index -> S]

(* What the stack reads of a ring that holds c: the n entries below h.     *)
View(c, h, n) == [k \in 1 .. n |-> c[Below(h, n - k)]]

(* A view is a sequence of its n entries, in the order of their slots.     *)
LEMMA ViewIsList ==
    ASSUME NEW S, NEW c \in Rings(S), NEW h \in Index,
           NEW n \in 0 .. MAX_SENSOR_DATA_LOGS
    PROVE  /\ View(c, h, n) \in Seq(S) /\ Len(View(c, h, n)) = n
           /\ \A k \in 1 .. n : View(c, h, n)[k] = c[Below(h, n - k)]
<1>1. \A k \in 1 .. n : n - k \in 0 .. MAX_SENSOR_DATA_LOGS - 1
  BY RingSizeAssumption
<1>2. \A k \in 1 .. n : c[Below(h, n - k)] \in S
  <2>1. \A k \in 1 .. n : Below(h, n - k) \in Index
    BY <1>1, BelowIs
  <2> QED BY <2>1 DEF Rings
<1>3. View(c, h, n) \in [1 .. n -> S]
  BY <1>2 DEF View
<1>4. n \in Nat
  BY RingSizeAssumption
<1>5. View(c, h, n) \in Seq(S) /\ Len(View(c, h, n)) = n
  BY <1>3, <1>4, ListIs
<1> QED BY <1>5 DEF View

(* c1 is c with x in slot p.                                               *)
Writes(c, c1, p, x) == \A i \in Index : c1[i] = IF i = p THEN x ELSE c[i]

(* A log is written to the slot of the head, which moves up.               *)
LEMMA ViewAppends ==
    ASSUME NEW S, NEW c \in Rings(S), NEW c1 \in Rings(S), NEW x \in S,
           NEW h \in Index, NEW n \in 0 .. MAX_SENSOR_DATA_LOGS - 1,
           NEW m, m = n + 1, Writes(c, c1, h, x)
    PROVE  View(c1, Bump(h), m) = Append(View(c, h, n), x)
<1> DEFINE q == View(c, h, n)
           r == View(c1, Bump(h), n + 1)
<1>0. n \in 0 .. MAX_SENSOR_DATA_LOGS /\ n + 1 \in 0 .. MAX_SENSOR_DATA_LOGS
      /\ n \in Nat
  BY RingSizeAssumption
<1>a. /\ Bump(h) \in Index
      /\ Bump(h) = IF h = MAX_SENSOR_DATA_LOGS - 1 THEN 0 ELSE h + 1
  BY StepsInRing, BumpIs, IndexIsByte
<1>1. /\ q \in Seq(S) /\ Len(q) = n
      /\ \A k \in 1 .. n : q[k] = c[Below(h, n - k)]
  BY <1>0, ViewIsList
<1>2. /\ r \in Seq(S) /\ Len(r) = n + 1
      /\ \A k \in 1 .. n + 1 : r[k] = c1[Below(Bump(h), n + 1 - k)]
  <2>1. n + 1 \in 0 .. MAX_SENSOR_DATA_LOGS /\ Bump(h) \in Index
    BY <1>0, <1>a
  <2> QED BY <2>1, ViewIsList
<1>b. \A j \in 0 .. MAX_SENSOR_DATA_LOGS - 1 :
         Below(Bump(h), j) = IF j < Bump(h) THEN Bump(h) - 1 - j
                             ELSE Bump(h) - 1 - j + MAX_SENSOR_DATA_LOGS
  BY <1>a, BelowIs
<1>4. r[n + 1] = x
  <2>1. 0 \in 0 .. MAX_SENSOR_DATA_LOGS - 1 /\ n + 1 - (n + 1) = 0
        /\ n + 1 \in 1 .. n + 1
    BY <1>0, RingSizeAssumption
  <2>2. Below(Bump(h), 0) = h
    BY <1>a, <1>b, <2>1, RingSizeAssumption DEF Index
  <2>3. r[n + 1] = c1[Below(Bump(h), n + 1 - (n + 1))]
    BY <1>2, <2>1
  <2> QED BY <2>1, <2>2, <2>3 DEF Writes
<1>5. ASSUME NEW k \in 1 .. n PROVE r[k] = q[k]
  <2>1. k \in 1 .. n + 1 /\ n - k \in 0 .. MAX_SENSOR_DATA_LOGS - 1
        /\ n + 1 - k \in 0 .. MAX_SENSOR_DATA_LOGS - 1 /\ n + 1 - k > 0
    BY <1>0, RingSizeAssumption
  <2>2. /\ Below(h, n - k) \in Index /\ Below(h, n - k) # h
        /\ Below(h, n - k) = Below(Bump(h), n + 1 - k)
    <3>1. /\ Below(h, n - k) \in Index
          /\ Below(h, n - k) = IF n - k < h THEN h - 1 - (n - k)
                               ELSE h - 1 - (n - k) + MAX_SENSOR_DATA_LOGS
      BY <2>1, BelowIs
    <3>2. Below(Bump(h), n + 1 - k)
            = IF n + 1 - k < Bump(h) THEN Bump(h) - 1 - (n + 1 - k)
              ELSE Bump(h) - 1 - (n + 1 - k) + MAX_SENSOR_DATA_LOGS
      BY <2>1, <1>b
    <3> QED BY <1>0, <1>a, <2>1, <3>1, <3>2, RingSizeAssumption DEF Index
  <2> QED BY <1>1, <1>2, <2>1, <2>2 DEF Writes
<1> HIDE DEF q, r
<1>6. /\ Append(q, x) \in Seq(S) /\ Len(Append(q, x)) = n + 1
      /\ \A k \in 1 .. n : Append(q, x)[k] = q[k]
      /\ Append(q, x)[n + 1] = x
  BY <1>1, AppendProperties
<1>7. \A k \in 1 .. Len(r) : r[k] = Append(q, x)[k]
  BY <1>0, <1>2, <1>4, <1>5, <1>6
<1>8. r = Append(q, x)
  BY <1>2, <1>6, <1>7, SeqEqual
<1> QED BY <1>8 DEF q, r

(* The oldest log leaves: the others stay below the head.                  *)
LEMMA ViewDropsOldest ==
    ASSUME NEW S, NEW c \in Rings(S), NEW h \in Index,
           NEW n \in 1 .. MAX_SENSOR_DATA_LOGS
    PROVE  View(c, h, n - 1) = Tail(View(c, h, n))
<1> DEFINE q == View(c, h, n)
           r == View(c, h, n - 1)
<1>0. /\ n \in 0 .. MAX_SENSOR_DATA_LOGS /\ n - 1 \in 0 .. MAX_SENSOR_DATA_LOGS
      /\ n \in Nat /\ n > 0
  BY RingSizeAssumption
<1>1. /\ q \in Seq(S) /\ Len(q) = n
      /\ \A k \in 1 .. n : q[k] = c[Below(h, n - k)]
  BY <1>0, ViewIsList
<1>2. /\ r \in Seq(S) /\ Len(r) = n - 1
      /\ \A k \in 1 .. n - 1 : r[k] = c[Below(h, n - 1 - k)]
  BY <1>0, ViewIsList
<1>3. q # <<>>
  BY <1>0, <1>1
<1>4. ASSUME NEW k \in 1 .. n - 1 PROVE r[k] = q[k + 1]
  <2>1. k + 1 \in 1 .. n /\ n - (k + 1) = n - 1 - k
    BY <1>0
  <2>2. q[k + 1] = c[Below(h, n - (k + 1))]
    BY <1>1, <2>1
  <2> QED BY <1>2, <2>1, <2>2
<1> HIDE DEF q, r
<1>5. /\ Tail(q) \in Seq(S) /\ Len(Tail(q)) = n - 1
      /\ \A k \in 1 .. n - 1 : Tail(q)[k] = q[k + 1]
  BY <1>1, <1>3, HeadTailProperties
<1>6. r = Tail(q)
  BY <1>2, <1>4, <1>5, SeqEqual
<1> QED BY <1>6 DEF q, r

(* The newest log leaves: the head moves down.                             *)
LEMMA ViewDropsNewest ==
    ASSUME NEW S, NEW c \in Rings(S), NEW h \in Index,
           NEW n \in 1 .. MAX_SENSOR_DATA_LOGS
    PROVE  /\ View(c, h, n) # <<>>
           /\ View(c, Prev(h), n - 1) = SubSeq(View(c, h, n), 1, n - 1)
<1> DEFINE q == View(c, h, n)
           r == View(c, Prev(h), n - 1)
           b == SubSeq(q, 1, n - 1)
<1>0. /\ n \in 0 .. MAX_SENSOR_DATA_LOGS /\ n - 1 \in 0 .. MAX_SENSOR_DATA_LOGS
      /\ n \in Nat /\ n > 0
  BY RingSizeAssumption
<1>a. /\ Prev(h) \in Index
      /\ Prev(h) = IF h = 0 THEN MAX_SENSOR_DATA_LOGS - 1 ELSE h - 1
  BY StepsInRing, PrevIs, IndexIsByte
<1>1. /\ q \in Seq(S) /\ Len(q) = n
      /\ \A k \in 1 .. n : q[k] = c[Below(h, n - k)]
  BY <1>0, ViewIsList
<1>2. /\ r \in Seq(S) /\ Len(r) = n - 1
      /\ \A k \in 1 .. n - 1 : r[k] = c[Below(Prev(h), n - 1 - k)]
  BY <1>0, <1>a, ViewIsList
<1>3. q # <<>>
  BY <1>0, <1>1
<1>4. ASSUME NEW k \in 1 .. n - 1 PROVE r[k] = q[k]
  <2>1. k \in 1 .. n /\ n - k \in 0 .. MAX_SENSOR_DATA_LOGS - 1
        /\ n - 1 - k \in 0 .. MAX_SENSOR_DATA_LOGS - 1
    BY <1>0, RingSizeAssumption
  <2>2. Below(Prev(h), n - 1 - k) = Below(h, n - k)
    <3>1. Below(h, n - k) = IF n - k < h THEN h - 1 - (n - k)
                            ELSE h - 1 - (n - k) + MAX_SENSOR_DATA_LOGS
      BY <2>1, BelowIs
    <3>2. Below(Prev(h), n - 1 - k)
            = IF n - 1 - k < Prev(h) THEN Prev(h) - 1 - (n - 1 - k)
              ELSE Prev(h) - 1 - (n - 1 - k) + MAX_SENSOR_DATA_LOGS
      BY <2>1, <1>a, BelowIs
    <3> QED BY <1>0, <1>a, <2>1, <3>1, <3>2, RingSizeAssumption DEF Index
  <2> QED BY <1>1, <1>2, <2>1, <2>2
<1> HIDE DEF q, r
<1>5. /\ b \in Seq(S) /\ Len(b) = n - 1
      /\ \A i \in 1 .. n - 1 : b[i] = q[i]
  <2>1. \A i \in 1 .. n - 1 : q[i] \in S
    <3>1. \A i \in 1 .. n : q[i] \in S
      BY <1>1
    <3> QED BY <3>1, <1>0
  <2>2. 1 \in Int /\ n - 1 \in Int
    BY <1>0
  <2>3. /\ b \in Seq(S) /\ Len(b) = IF 1 <= n - 1 THEN n - 1 - 1 + 1 ELSE 0
        /\ \A i \in 1 .. n - 1 - 1 + 1 : b[i] = q[1 + i - 1]
    BY <2>1, <2>2, SubSeqProperties
  <2> HIDE DEF b
  <2>4. /\ (IF 1 <= n - 1 THEN n - 1 - 1 + 1 ELSE 0) = n - 1
        /\ n - 1 - 1 + 1 = n - 1 /\ \A i \in 1 .. n - 1 : 1 + i - 1 = i
    BY <1>0
  <2> QED BY <2>3, <2>4
<1> HIDE DEF b
<1>6. r = b
  BY <1>2, <1>4, <1>5, SeqEqual
<1> QED BY <1>3, <1>6 DEF q, r, b

-----------------------------------------------------------------------------
(* What the refinement needs beyond LogInv. Outside a pop in progress the  *)
(* full flag is set exactly when the count says full; a power loss finds   *)
(* no full ring; a full ring's newest log is good; the RAM copy of the     *)
(* header is current while a publish is outstanding; no slot holds a log   *)
(* that was not stored yet.                                                *)
StackInv ==
    /\ hdr.ok => hdr.lifoCount <= MAX_SENSOR_DATA_LOGS
    /\ pc # "boot" => (xSensorDataIsFull => hdr.lifoCount = MAX_SENSOR_DATA_LOGS)
    /\ pc \notin {"boot", "popHdr"} /\ ~xSensorDataIsFull
          => hdr.lifoCount < MAX_SENSOR_DATA_LOGS
    /\ pc = "boot" => ~cfg.full /\ (hdr.ok => hdr.lifoCount < MAX_SENSOR_DATA_LOGS)
    /\ pc \notin {"boot", "storeData"} /\ xSensorDataIsFull
          => slot[Prev(hdr.head)].ok
    /\ pub # 0 => sensorDataHdr = Fields(hdr) /\ pc \in {"idle", "popHdr"}
    /\ \A i \in Index : slot[i].id <= cur

(* The inductive invariant of an AM that is used in an orderly way.        *)
RingInv == LogInv /\ StackInv

(* The parts of a good header, and the slots beside its head.              *)
LEMMA HdrParts ==
    ASSUME LogInv, hdr.ok
    PROVE  /\ hdr.head \in Index /\ hdr.lifoCount \in 0 .. 255
           /\ Bump(hdr.head) \in Index /\ Prev(hdr.head) \in Index
<1>1. hdr \in ValidHdr
  BY HdrValid DEF LogInv
<1>2. hdr.head \in Index /\ hdr.head \in 0 .. 255 /\ hdr.lifoCount \in 0 .. 255
  BY <1>1, ValidHdrParts
<1> QED BY <1>2, StepsInRing

(* It holds of defaulted flash.                                            *)
LEMMA StackInvInit == Init => StackInv
<1> SUFFICES ASSUME Init PROVE StackInv
  OBVIOUS
<1>1. \A i \in Index : slot[i].id <= cur
  BY DEF Init, ErasedSlot
<1>2. hdr.lifoCount = 0 /\ hdr.ok
  BY DEF Init, DefaultHdr
<1> QED BY <1>1, <1>2, RingSizeAssumption DEF Init, StackInv

(* Every orderly step preserves it.                                        *)
LEMMA StackInvStep == RingInv /\ [OrderlyNext]_vars => StackInv'
<1> SUFFICES ASSUME RingInv, [OrderlyNext]_vars PROVE StackInv'
  OBVIOUS
<1>0. LogInv /\ StackInv /\ TypeOK
  BY DEF RingInv, LogInv
<1>1. CASE StoreHdr /\ pub = 0
  <2>1. /\ pc = "idle" /\ pc' = "storeData" /\ slot' = slot /\ cur' = cur + 1
        /\ pub' = 0 /\ hdr.ok
    BY <1>1, <1>0 DEF StoreHdr, Idle, LogInv
  <2> DEFINE n == hdr.lifoCount
             m == hdr'.lifoCount
  <2>2. /\ m = IF xSensorDataIsFull THEN MAX_SENSOR_DATA_LOGS ELSE (n + 1) % 256
        /\ xSensorDataIsFull' <=> (xSensorDataIsFull \/ m = MAX_SENSOR_DATA_LOGS)
        /\ hdr'.ok
    BY <1>0, <1>1 DEF StoreHdr, TypeOK
  <2>3. n \in 0 .. 255 /\ n <= MAX_SENSOR_DATA_LOGS
        /\ (~xSensorDataIsFull => n < MAX_SENSOR_DATA_LOGS)
    BY <1>0, <2>1, HdrParts DEF StackInv
  <2> HIDE DEF n, m
  <2>4. /\ m <= MAX_SENSOR_DATA_LOGS
        /\ xSensorDataIsFull' => m = MAX_SENSOR_DATA_LOGS
        /\ ~xSensorDataIsFull' => m < MAX_SENSOR_DATA_LOGS
    <3>1. CASE xSensorDataIsFull
      BY <2>2, <3>1, RingSizeAssumption
    <3>2. CASE ~xSensorDataIsFull
      <4>1. n + 1 <= MAX_SENSOR_DATA_LOGS /\ n + 1 < 256 /\ n + 1 \in Nat
        BY <2>3, <3>2, RingSizeAssumption
      <4>2. m = n + 1
        BY <2>2, <3>2, <4>1
      <4> QED BY <2>2, <3>2, <4>1, <4>2, RingSizeAssumption
    <3> QED BY <3>1, <3>2
  <2>5. \A i \in Index : slot'[i].id <= cur'
    BY <1>0, <2>1 DEF StackInv, TypeOK
  <2> QED BY <2>1, <2>4, <2>5 DEF StackInv, m
<1>2. CASE StoreData
  <2>1. /\ pc = "storeData" /\ pc' = "storeCfg"
        /\ UNCHANGED <<hdr, xSensorDataIsFull, cur, pub>> /\ hdr.ok
    BY <1>2, <1>0 DEF StoreData, LogInv
  <2>2. Prev(hdr.head) \in Index
    BY <1>0, <2>1, HdrParts
  <2>3. slot'[Prev(hdr.head)].ok /\ \A i \in Index : slot'[i].id <= cur
    <3>1. \A i \in Index : slot'[i] = IF i = Prev(hdr.head)
                                      THEN [id |-> cur, ok |-> TRUE] ELSE slot[i]
      BY <1>0, <1>2 DEF StoreData, TypeOK
    <3>2. cur <= cur
      BY <1>0 DEF TypeOK
    <3> QED BY <1>0, <2>2, <3>1, <3>2 DEF StackInv
  <2>4. pub = 0
    BY <1>0, <2>1 DEF StackInv
  <2> QED BY <1>0, <2>1, <2>3, <2>4 DEF StackInv
<1>3. CASE StoreCfg
  <2>1. /\ pc = "storeCfg" /\ pc' = "idle"
        /\ UNCHANGED <<hdr, slot, sensorDataHdr, xSensorDataIsFull, cur, pub>>
    BY <1>3 DEF StoreCfg
  <2> QED BY <1>0, <2>1 DEF StackInv
<1>4. CASE MqttReady \/ SendNext
  <2>1. /\ pc \in {"idle", "sendNext"} /\ pc' = "idle" /\ SendNewest
        /\ UNCHANGED <<slot, cfg, xSensorDataIsFull, cur>> /\ hdr.ok
    BY <1>0, <1>4 DEF MqttReady, SendNext, SendNewest, Idle, LogInv
  <2>2. CASE hdr.lifoCount > 0 /\ ~slot[Prev(hdr.head)].ok
    <3>1. hdr' = DefaultHdr /\ pub' = 0
      BY <2>1, <2>2 DEF SendNewest
    <3>2. ~xSensorDataIsFull
      BY <1>0, <2>1, <2>2 DEF StackInv
    <3>3. hdr'.ok /\ hdr'.lifoCount = 0
      BY <3>1 DEF DefaultHdr
    <3> QED BY <1>0, <2>1, <3>1, <3>2, <3>3, RingSizeAssumption DEF StackInv
  <2>3. CASE ~(hdr.lifoCount > 0 /\ ~slot[Prev(hdr.head)].ok)
    <3>1. hdr' = hdr /\ sensorDataHdr' = Fields(hdr)
      BY <2>1, <2>3 DEF SendNewest
    <3> QED BY <1>0, <2>1, <3>1 DEF StackInv
  <2> QED BY <2>2, <2>3
<1>5. CASE PopCfg
  <2>1. /\ pc = "idle" /\ pc' = "popHdr" /\ ~xSensorDataIsFull'
        /\ UNCHANGED <<hdr, slot, sensorDataHdr, cur, pub>>
    BY <1>5 DEF PopCfg, Idle
  <2> QED BY <1>0, <2>1 DEF StackInv, Fields
<1>6. CASE PopHdr
  <2>1. /\ pc \in {"idle", "popHdr"} /\ pc' = "sendNext" /\ pub # 0 /\ pub' = 0
        /\ ~xSensorDataIsFull /\ ~xSensorDataIsFull' /\ hdr.ok
        /\ UNCHANGED <<slot, cur>>
    BY <1>0, <1>6 DEF PopHdr, Idle, LogInv
  <2> DEFINE n == hdr.lifoCount
  <2>2. /\ sensorDataHdr.lifoCount = n /\ n > 0
        /\ n \in 0 .. 255 /\ n <= MAX_SENSOR_DATA_LOGS
    BY <1>0, <2>1, HdrParts DEF StackInv, LogInv, PopNeverUnderflows, Fields
  <2>3. hdr'.lifoCount = (n + 255) % 256 /\ hdr'.ok
    BY <1>6, <2>2 DEF PopHdr
  <2> HIDE DEF n
  <2>4. hdr'.lifoCount < MAX_SENSOR_DATA_LOGS /\ hdr'.lifoCount <= MAX_SENSOR_DATA_LOGS
    BY <2>2, <2>3, RingSizeAssumption
  <2> QED BY <1>0, <2>1, <2>4 DEF StackInv
<1>7. CASE PublishFails
  <2>1. /\ pc = "idle" /\ pc' = "idle" /\ pub' = 0
        /\ UNCHANGED <<hdr, slot, sensorDataHdr, xSensorDataIsFull, cur>>
    BY <1>7 DEF PublishFails, Idle
  <2> QED BY <1>0, <2>1 DEF StackInv
<1>8. CASE Deactivate /\ pub = 0 /\ ~xSensorDataIsFull
  <2>1. /\ pc' = "deactCfg" /\ pub' = 0 /\ ~xSensorDataIsFull'
        /\ UNCHANGED <<slot, cur>> /\ hdr'.ok /\ hdr'.lifoCount = 0
    BY <1>8 DEF Deactivate, DefaultHdr
  <2> QED BY <1>0, <2>1, RingSizeAssumption DEF StackInv
<1>9. CASE DeactCfg
  <2>1. /\ pc = "deactCfg" /\ pc' = "idle"
        /\ UNCHANGED <<hdr, slot, sensorDataHdr, xSensorDataIsFull, cur, pub>>
    BY <1>9 DEF DeactCfg
  <2> QED BY <1>0, <2>1 DEF StackInv
<1>10. CASE PowerLoss /\ hdr.lifoCount < MAX_SENSOR_DATA_LOGS
  <2>1. /\ pc' = "boot" /\ pub' = 0 /\ cur' = cur
        /\ cfg' = cfg \/ ~cfg'.full
    BY <1>10 DEF PowerLoss
  <2>2. hdr' = hdr \/ ~hdr'.ok
    BY <1>10 DEF PowerLoss, ErasedHdr
  <2>3. ~cfg.full
    BY <1>0, <1>10, RingSizeAssumption DEF LogInv, StackInv
  <2>4. \A i \in Index : slot'[i].id \in {slot[i].id, 0}
    <3>1. PICK keep \in 0 .. MAX_SENSOR_DATA_LOGS :
             \/ slot' = [i \in Index |-> IF i < keep THEN slot[i] ELSE ErasedSlot]
             \/ slot' = slot
      BY <1>10 DEF PowerLoss
    <3> QED BY <3>1 DEF ErasedSlot
  <2>5. \A i \in Index : slot'[i].id <= cur
    BY <1>0, <2>4 DEF StackInv, TypeOK
  <2>6. hdr'.ok => hdr'.lifoCount < MAX_SENSOR_DATA_LOGS
                   /\ hdr'.lifoCount <= MAX_SENSOR_DATA_LOGS
    BY <1>0, <1>10, <2>2 DEF StackInv
  <2> QED BY <2>1, <2>3, <2>5, <2>6 DEF StackInv
<1>11. CASE Boot
  <2>1. /\ pc = "boot" /\ pc' = "idle" /\ pub' = 0 /\ UNCHANGED <<slot, cur>>
    BY <1>0, <1>11 DEF Boot, LogInv
  <2>2. ~xSensorDataIsFull'
    BY <1>0, <1>11, <2>1 DEF Boot, DefaultCfg, StackInv
  <2>3. hdr'.lifoCount < MAX_SENSOR_DATA_LOGS
        /\ hdr'.lifoCount <= MAX_SENSOR_DATA_LOGS
    <3>1. CASE hdr.ok
      BY <1>0, <1>11, <2>1, <3>1 DEF Boot, StackInv
    <3>2. CASE ~hdr.ok
      BY <1>11, <3>2, RingSizeAssumption DEF Boot, DefaultHdr
    <3> QED BY <3>1, <3>2
  <2> QED BY <1>0, <2>1, <2>2, <2>3 DEF StackInv
<1>12. CASE UNCHANGED vars
  BY <1>0, <1>12 DEF vars, StackInv, Fields
<1> QED
  BY <1>1, <1>2, <1>3, <1>4, <1>5, <1>6, <1>7, <1>8, <1>9, <1>10, <1>11, <1>12
     DEF OrderlyNext, Next, Store, Publish

-----------------------------------------------------------------------------
(* The identifiers the ring holds, the log being stored among them.        *)
Contents == [i \in Index |-> Content(i)]

(* The ring holds identifiers of logs that were stored.                    *)
LEMMA ContentsType == RingInv => Contents \in Rings(0 .. cur)
<1> SUFFICES ASSUME RingInv PROVE Contents \in Rings(0 .. cur)
  OBVIOUS
<1>1. \A i \in Index : slot[i].id \in 0 .. cur
  BY DEF RingInv, LogInv, StackInv, TypeOK
<1>2. cur \in 0 .. cur
  BY DEF RingInv, LogInv, TypeOK
<1>3. \A i \in Index : Content(i) \in 0 .. cur
  BY <1>1, <1>2 DEF Content
<1> QED BY <1>3 DEF Contents, Rings

(* A good header counts at most a full ring.                               *)
LEMMA CountType ==
    RingInv /\ hdr.ok => /\ hdr.head \in Index
                         /\ hdr.lifoCount \in 0 .. MAX_SENSOR_DATA_LOGS
<1> SUFFICES ASSUME RingInv, hdr.ok
             PROVE  /\ hdr.head \in Index
                    /\ hdr.lifoCount \in 0 .. MAX_SENSOR_DATA_LOGS
  OBVIOUS
<1>1. hdr.head \in Index /\ hdr.lifoCount \in 0 .. 255
  BY HdrParts DEF RingInv
<1>2. hdr.lifoCount <= MAX_SENSOR_DATA_LOGS
  BY DEF RingInv, StackInv
<1> QED BY <1>1, <1>2, RingSizeAssumption

(* The stack is the view of the ring below the head; an erased header      *)
(* leaves none.                                                            *)
LEMMA StackViewIs ==
    RingInv => /\ hdr.ok => StackView = View(Contents, hdr.head, hdr.lifoCount)
               /\ ~hdr.ok => StackView = <<>>
<1> SUFFICES ASSUME RingInv
             PROVE  /\ hdr.ok => StackView = View(Contents, hdr.head, hdr.lifoCount)
                    /\ ~hdr.ok => StackView = <<>>
  OBVIOUS
<1>1. CASE hdr.ok
  <2> DEFINE h == hdr.head
             n == hdr.lifoCount
  <2>1. h \in Index /\ n \in 0 .. MAX_SENSOR_DATA_LOGS
    BY <1>1, CountType
  <2>2. ASSUME NEW k \in 1 .. n
        PROVE  Contents[Below(h, n - k)] = Content(Below(h, n - k))
    <3> HIDE DEF h, n
    <3>1. n - k \in 0 .. MAX_SENSOR_DATA_LOGS - 1
      BY <2>1, RingSizeAssumption
    <3>2. Below(h, n - k) \in Index
      BY <2>1, <3>1, BelowIs
    <3> QED BY <3>2 DEF Contents
  <2>3. StackView = [k \in 1 .. n |-> Content(Below(h, n - k))]
    BY <1>1 DEF StackView, Below
  <2>4. View(Contents, h, n) = [k \in 1 .. n |-> Contents[Below(h, n - k)]]
    BY DEF View
  <2> HIDE DEF h, n
  <2>5. StackView = View(Contents, h, n)
    BY <2>2, <2>3, <2>4
  <2> QED BY <1>1, <2>5 DEF h, n
<1>2. CASE ~hdr.ok
  BY <1>2 DEF StackView
<1> QED BY <1>1, <1>2

(* The same of the next state.                                             *)
LEMMA NextView ==
    RingInv' => /\ hdr'.ok => /\ StackView' = View(Contents', hdr'.head, hdr'.lifoCount)
                              /\ hdr'.head \in Index
                              /\ hdr'.lifoCount \in 0 .. MAX_SENSOR_DATA_LOGS
                /\ ~hdr'.ok => StackView' = <<>>
                /\ Contents' \in Rings(0 .. cur')
<1>1. RingInv' => (/\ hdr.ok => StackView = View(Contents, hdr.head, hdr.lifoCount)
                   /\ ~hdr.ok => StackView = <<>>)'
  BY StackViewIs, PTL
<1>2. (RingInv /\ hdr.ok)' => (/\ hdr.head \in Index
                               /\ hdr.lifoCount \in 0 .. MAX_SENSOR_DATA_LOGS)'
  BY CountType, PTL
<1>3. RingInv' => (Contents \in Rings(0 .. cur))'
  BY ContentsType, PTL
<1> QED BY <1>1, <1>2, <1>3

(* A step that keeps the header and the identifiers keeps the stack.       *)
LEMMA SameStack ==
    ASSUME RingInv, RingInv', hdr' = hdr, cur' = cur,
           pc # "boot", pc' # "boot",
           \A i \in Index : Content(i)' = Content(i)
    PROVE  UNCHANGED Stack!vars
<1>1. Contents' = Contents
  BY DEF Contents
<1>2. StackView' = StackView
  BY <1>1, StackViewIs, NextView
<1> QED BY <1>2 DEF Stack!vars

(* The data of a log, the writes of the device info and a publish that     *)
(* fails leave the stack as it is.                                         *)
LEMMA StackStutters ==
    ASSUME RingInv, RingInv',
           \/ StoreData \/ StoreCfg \/ PopCfg \/ PublishFails \/ DeactCfg
    PROVE  UNCHANGED Stack!vars
<1>1. CASE StoreData
  <2>1. /\ pc = "storeData" /\ pc' = "storeCfg" /\ UNCHANGED <<hdr, cur>>
        /\ Prev(hdr.head) \in Index
    BY <1>1, HdrParts DEF StoreData, RingInv, LogInv
  <2>2. \A i \in Index : slot'[i].id = IF i = Prev(hdr.head) THEN cur ELSE slot[i].id
    BY <1>1, <2>1 DEF StoreData, RingInv, LogInv, TypeOK
  <2>3. \A i \in Index : Content(i)' = Content(i)
    BY <2>1, <2>2 DEF Content
  <2> QED BY <2>1, <2>3, SameStack
<1>2. CASE StoreCfg \/ PopCfg \/ PublishFails \/ DeactCfg
  <2>1. /\ UNCHANGED <<hdr, slot, cur>>
        /\ pc \notin {"storeData", "boot"} /\ pc' \notin {"storeData", "boot"}
    BY <1>2 DEF StoreCfg, PopCfg, PublishFails, DeactCfg, Idle
  <2>2. \A i \in Index : Content(i)' = Content(i)
    BY <2>1 DEF Content
  <2> QED BY <2>1, <2>2, SameStack
<1> QED BY <1>1, <1>2

(* A defaulted header clears the stack.                                    *)
LEMMA DefaultClears ==
    ASSUME RingInv', hdr' = DefaultHdr, cur' = cur, pc # "boot", pc' # "boot"
    PROVE  Stack!Clear
<1>1. hdr'.ok /\ hdr'.lifoCount = 0
  BY DEF DefaultHdr
<1>2. /\ StackView' = View(Contents', hdr'.head, 0)
      /\ hdr'.head \in Index /\ Contents' \in Rings(0 .. cur')
  BY <1>1, NextView
<1>3. StackView' \in Seq(0 .. cur') /\ Len(StackView') = 0
  <2>1. 0 \in 0 .. MAX_SENSOR_DATA_LOGS
    BY RingSizeAssumption
  <2> QED BY <1>2, <2>1, ViewIsList
<1>4. StackView' = <<>>
  BY <1>3, EmptySeq
<1> QED BY <1>4 DEF Stack!Clear

(* xPackageAndSendSensorDataToCloud only reads the stack, or defaults the  *)
(* section when the newest log has a bad checksum.                         *)
LEMMA PublishReadsOrClears ==
    ASSUME RingInv, RingInv', MqttReady \/ SendNext
    PROVE  Stack!Clear \/ UNCHANGED Stack!vars
<1>1. /\ pc \in {"idle", "sendNext"} /\ pc' = "idle" /\ UNCHANGED <<slot, cur>>
      /\ hdr' = hdr \/ hdr' = DefaultHdr
  BY DEF MqttReady, SendNext, SendNewest, Idle
<1>2. CASE hdr' = hdr
  <2>1. \A i \in Index : Content(i)' = Content(i)
    BY <1>1, <1>2 DEF Content
  <2> QED BY <1>1, <1>2, <2>1, SameStack
<1>3. CASE hdr' = DefaultHdr
  BY <1>1, <1>3, DefaultClears
<1> QED BY <1>1, <1>2, <1>3

(* xUpdateCurrentEntry pushes: the new log counts from the write of its    *)
(* header, and a full ring loses its oldest log.                           *)
LEMMA StorePushes ==
    ASSUME RingInv, RingInv', StoreHdr
    PROVE  Stack!Push
<1> DEFINE S == 0 .. cur'
           c == Contents
           d == Contents'
           h == hdr.head
           n == hdr.lifoCount
           m == hdr'.lifoCount
<1>1. /\ pc = "idle" /\ pc' = "storeData" /\ slot' = slot /\ cur' = cur + 1
      /\ hdr.ok /\ hdr'.ok /\ hdr'.head = Bump(h) /\ cur \in Nat
  BY DEF StoreHdr, Idle, RingInv, LogInv, TypeOK
<1>2. /\ h \in Index /\ n \in 0 .. MAX_SENSOR_DATA_LOGS
      /\ d \in Rings(S) /\ cur' \in S
  BY <1>1, CountType, NextView
<1>3. c \in Rings(S)
  <2>1. \A i \in Index : slot[i].id \in S
    BY <1>1 DEF RingInv, LogInv, StackInv, TypeOK
  <2> QED BY <1>1, <2>1 DEF Contents, Content, Rings
<1>4. Writes(c, d, h, cur')
  <2>1. Prev(Bump(h)) = h
    <3>1. Bump(h) \in Index /\ Bump(h) = IF h = MAX_SENSOR_DATA_LOGS - 1 THEN 0 ELSE h + 1
      BY <1>2, StepsInRing, BumpIs, IndexIsByte
    <3>2. Prev(Bump(h)) = IF Bump(h) = 0 THEN MAX_SENSOR_DATA_LOGS - 1 ELSE Bump(h) - 1
      BY <3>1, PrevIs
    <3> HIDE DEF h
    <3> QED BY <1>2, <3>1, <3>2, RingSizeAssumption DEF Index
  <2>2. \A i \in Index : c[i] = slot[i].id
    BY <1>1 DEF Contents, Content
  <2>3. \A i \in Index : d[i] = IF i = h THEN cur' ELSE slot[i].id
    BY <1>1, <2>1 DEF Contents, Content
  <2> QED BY <2>2, <2>3 DEF Writes
<1>5. /\ StackView = View(c, h, n) /\ StackView' = View(d, Bump(h), m)
      /\ Len(StackView) = n
  <2>1. StackView = View(c, h, n) /\ StackView' = View(d, Bump(h), m)
    BY <1>1, StackViewIs, NextView
  <2> HIDE DEF c, h, n, S, d, m
  <2> QED BY <1>2, <1>3, <2>1, ViewIsList
<1>6. CASE xSensorDataIsFull
  <2>1. n = MAX_SENSOR_DATA_LOGS /\ m = MAX_SENSOR_DATA_LOGS
    BY <1>1, <1>6 DEF StoreHdr, RingInv, StackInv
  <2> DEFINE l == MAX_SENSOR_DATA_LOGS - 1
  <2> HIDE DEF c, h, n, S, d, m
  <2>2. View(c, h, l) = Tail(View(c, h, n))
    <3>1. n \in 1 .. MAX_SENSOR_DATA_LOGS /\ l = n - 1
      BY <2>1, RingSizeAssumption
    <3> QED BY <1>2, <1>3, <3>1, ViewDropsOldest
  <2>3. View(d, Bump(h), m) = Append(View(c, h, l), cur')
    <3>1. l \in 0 .. MAX_SENSOR_DATA_LOGS - 1 /\ m = l + 1
      BY <2>1, RingSizeAssumption
    <3> HIDE DEF l
    <3> QED BY <1>2, <1>3, <1>4, <3>1, ViewAppends
  <2>4. StackView' = Append(Tail(StackView), cur') /\ Len(StackView) = MAX_SENSOR_DATA_LOGS
    BY <1>5, <2>1, <2>2, <2>3
  <2> QED BY <1>1, <2>4 DEF Stack!Push
<1>7. CASE ~xSensorDataIsFull
  <2>1. n \in 0 .. MAX_SENSOR_DATA_LOGS - 1 /\ m = n + 1
    <3>1. n < MAX_SENSOR_DATA_LOGS
      BY <1>1, <1>7 DEF RingInv, StackInv
    <3>2. m = (n + 1) % 256
      BY <1>7 DEF StoreHdr
    <3> HIDE DEF n, m
    <3>3. n + 1 \in 0 .. 255
      BY <1>2, <3>1, RingSizeAssumption
    <3> QED BY <1>2, <3>1, <3>2, <3>3, RingSizeAssumption
  <2> HIDE DEF c, h, n, S, d, m
  <2>2. View(d, Bump(h), m) = Append(View(c, h, n), cur')
    BY <1>2, <1>3, <1>4, <2>1, ViewAppends
  <2>3. Len(StackView) # MAX_SENSOR_DATA_LOGS
    BY <1>5, <2>1, RingSizeAssumption
  <2>4. StackView' = Append(StackView, cur')
    BY <1>5, <2>2
  <2> QED BY <1>1, <2>3, <2>4 DEF Stack!Push
<1> QED BY <1>6, <1>7

(* MEM_updateSensorDataHeadAndLifoCount pops: the RAM copy of the header   *)
(* is current and counts at least the log that was published.              *)
LEMMA PopPops ==
    ASSUME RingInv, RingInv', PopHdr
    PROVE  Stack!Pop
<1> DEFINE S == 0 .. cur
           c == Contents
           h == hdr.head
           n == hdr.lifoCount
           m == hdr'.lifoCount
<1>1. /\ pc \in {"idle", "popHdr"} /\ pc' = "sendNext" /\ pub # 0
      /\ UNCHANGED <<slot, cur>> /\ hdr.ok
  BY DEF PopHdr, Idle, RingInv, LogInv
<1>2. /\ h \in Index /\ n \in 0 .. MAX_SENSOR_DATA_LOGS /\ c \in Rings(S)
  BY <1>1, CountType, ContentsType
<1>3. sensorDataHdr.head = h /\ sensorDataHdr.lifoCount = n /\ n > 0
  BY <1>1 DEF RingInv, LogInv, StackInv, PopNeverUnderflows, Fields
<1>4. hdr'.ok /\ hdr'.head = Prev(h) /\ m = (n + 255) % 256
  BY <1>3 DEF PopHdr
<1>5. Contents' = c
  BY <1>1 DEF Contents, Content
<1>6. StackView = View(c, h, n) /\ StackView' = View(c, Prev(h), m)
  BY <1>1, <1>4, <1>5, StackViewIs, NextView
<1> HIDE DEF S, c, h, n, m
<1>7. n \in 1 .. MAX_SENSOR_DATA_LOGS /\ m = n - 1
  BY <1>2, <1>3, <1>4, RingSizeAssumption
<1>8. View(c, h, n) # <<>> /\ View(c, Prev(h), n - 1) = SubSeq(View(c, h, n), 1, n - 1)
  BY <1>2, <1>7, ViewDropsNewest
<1>9. Len(View(c, h, n)) = n
  BY <1>2, ViewIsList
<1> QED BY <1>1, <1>6, <1>7, <1>8, <1>9 DEF Stack!Pop

(* Power fails or returns: what is left is a stack of logs that were       *)
(* stored.                                                                 *)
LEMMA PowerLeavesStack ==
    ASSUME RingInv, RingInv', PowerLoss \/ Boot
    PROVE  Stack!Power
<1>1. cur' = cur /\ ~(pc # "boot" /\ pc' # "boot")
  BY DEF PowerLoss, Boot
<1>2. StackView' \in Seq(0 .. cur') /\ Len(StackView') <= MAX_SENSOR_DATA_LOGS
  <2>1. CASE hdr'.ok
    <3> DEFINE S == 0 .. cur'
               c == Contents'
               h == hdr'.head
               n == hdr'.lifoCount
    <3>1. /\ StackView' = View(c, h, n) /\ c \in Rings(S) /\ h \in Index
          /\ n \in 0 .. MAX_SENSOR_DATA_LOGS
      BY <2>1, NextView
    <3> HIDE DEF S, c, h, n
    <3>2. StackView' \in Seq(S) /\ Len(StackView') = n
      BY <3>1, ViewIsList
    <3>3. Len(StackView') <= MAX_SENSOR_DATA_LOGS
      BY <3>1, <3>2
    <3> QED BY <3>2, <3>3 DEF S
  <2>2. CASE ~hdr'.ok
    <3>1. StackView' = <<>>
      BY <2>2, NextView
    <3> QED BY <3>1, RingSizeAssumption
  <2> QED BY <2>1, <2>2
<1> QED BY <1>1, <1>2 DEF Stack!Power

(* Defaulted flash is an empty stack.                                      *)
LEMMA StackInit == Init => Stack!Init
<1> SUFFICES ASSUME Init PROVE Stack!Init
  OBVIOUS
<1>1. hdr.lifoCount = 0 /\ pc = "idle" /\ cur = 0
  BY DEF Init, DefaultHdr
<1>2. (IF hdr.ok THEN hdr.lifoCount ELSE 0) = 0
  BY <1>1
<1>3. StackView = <<>>
  BY <1>2 DEF StackView
<1> QED BY <1>1, <1>3 DEF Stack!Init

(* Every orderly step of the AM is a step of the stack or a stutter.       *)
LEMMA StackStep ==
    RingInv /\ RingInv' /\ [OrderlyNext]_vars => [Stack!Next]_(Stack!vars)
<1> SUFFICES ASSUME RingInv, RingInv', [OrderlyNext]_vars
             PROVE  Stack!Next \/ UNCHANGED Stack!vars
  OBVIOUS
<1>1. CASE StoreHdr
  BY <1>1, StorePushes DEF Stack!Next
<1>2. CASE PopHdr
  BY <1>2, PopPops DEF Stack!Next
<1>3. CASE MqttReady \/ SendNext
  BY <1>3, PublishReadsOrClears DEF Stack!Next
<1>4. CASE Deactivate
  <2>1. hdr' = DefaultHdr /\ cur' = cur /\ pc # "boot" /\ pc' # "boot"
    BY <1>4 DEF Deactivate, Idle
  <2> QED BY <2>1, DefaultClears DEF Stack!Next
<1>5. CASE PowerLoss \/ Boot
  BY <1>5, PowerLeavesStack DEF Stack!Next
<1>6. CASE StoreData \/ StoreCfg \/ PopCfg \/ PublishFails \/ DeactCfg
  BY <1>6, StackStutters
<1>7. CASE UNCHANGED vars
  <2>1. UNCHANGED <<hdr, slot, pc, cur>>
    BY <1>7 DEF vars
  <2>2. StackView' = StackView
    BY <2>1 DEF StackView, Content
  <2> QED BY <2>1, <2>2 DEF Stack!vars
<1> QED
  BY <1>1, <1>2, <1>3, <1>4, <1>5, <1>6, <1>7
     DEF OrderlyNext, Next, Store, Publish

(* Used in an orderly way (no log arrives and no deactivation happens      *)
(* while a publish is outstanding, and a full ring is neither deactivated  *)
(* nor loses power) the AM implements SensorStack: the newest log is       *)
(* published and popped first, only a full ring gives up its oldest log,   *)
(* and a power loss leaves a stack of logs that were stored.               *)
THEOREM StackImplemented == OrderlySpec => StackSpec
<1>1. Init => RingInv
  BY LogInvInit, StackInvInit DEF RingInv
<1>2. RingInv /\ [OrderlyNext]_vars => RingInv'
  <2>1. [OrderlyNext]_vars => [Next]_vars
    BY DEF OrderlyNext
  <2> QED BY <2>1, LogInvStep, StackInvStep DEF RingInv
<1> QED BY <1>1, <1>2, StackInit, StackStep, PTL
        DEF OrderlySpec, StackSpec, Stack!Spec
=============================================================================
