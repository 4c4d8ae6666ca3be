------------------------- MODULE SsmSensorLogProofs -------------------------
(***************************************************************************)
(* Proofs about SsmSensorLog, for every ring size and every number of      *)
(* logs: the types, the agreement of the persisted full flag with the      *)
(* persisted header across power losses, the freshness of the RAM copy of  *)
(* the header when the AM acknowledges, and that the board implements the  *)
(* queue of SensorQueue.                                                   *)
(***************************************************************************)
EXTENDS SsmSensorLog, SequenceTheorems, TLAPS

(* Bump stays in the ring: head and tail computed by                       *)
(* APP_NVM_UpdateCurrentEntry and APP_NVM_SensorDataMsgAcked are indices.  *)
LEMMA BumpType == \A i \in Index : Bump(i) \in Index
BY RingSizeAssumption DEF Index, Bump

(* Bump visits every slot: each head is the successor of some slot, so the *)
(* slot a log is written to (LogSlot) exists.                              *)
LEMMA BumpOnto == \A j \in Index : \E i \in Index : Bump(i) = j
<1>1. SUFFICES ASSUME NEW j \in Index PROVE \E i \in Index : Bump(i) = j
  OBVIOUS
<1>2. CASE j = 0
  <2>1. MAX_SENSOR_DATA_LOGS - 1 \in Index /\ Bump(MAX_SENSOR_DATA_LOGS - 1) = 0
    BY RingSizeAssumption DEF Index, Bump
  <2> QED BY <1>2, <2>1
<1>3. CASE j # 0
  <2>1. j - 1 \in Index /\ Bump(j - 1) = j
    BY <1>3, RingSizeAssumption DEF Index, Bump
  <2> QED BY <2>1
<1> QED BY <1>2, <1>3

(* The slot a log in progress is written to is a slot of the ring.         *)
LEMMA LogSlotType == hdr.head \in Index => LogSlot \in Index
BY BumpOnto DEF LogSlot

-----------------------------------------------------------------------------
(* Every step of the board, a power loss included, preserves the types.    *)
LEMMA TypeStep == TypeOK /\ [Next]_vars => TypeOK'
<1> SUFFICES ASSUME TypeOK, [Next]_vars PROVE TypeOK'
  OBVIOUS
<1> USE DEF TypeOK
<1>0. 0 \in Index /\ 0 \in 0 .. NumLogs
  BY RingSizeAssumption, NumLogsAssumption DEF Index
<1>1. CASE LogHeader
  <2>1. cur' \in 0 .. NumLogs
    BY <1>1, NumLogsAssumption DEF LogHeader
  <2>2. hdr' \in [head : Index, tail : Index, ok : BOOLEAN]
    BY <1>1, BumpType DEF LogHeader
  <2> QED BY <1>1, <2>1, <2>2 DEF LogHeader
<1>2. CASE LogData
  BY <1>2, LogSlotType DEF LogData
<1>3. CASE LogSum
  <2>1. slot' \in [Index -> [id : 0 .. NumLogs, ok : BOOLEAN]]
    BY <1>3, LogSlotType DEF LogSum
  <2> QED BY <1>3, <2>1 DEF LogSum, Fields
<1>4. CASE LogDev
  <2>1. dev.full \in BOOLEAN
    OBVIOUS
  <2>2. dev' \in [full : BOOLEAN, state : {"ACTIVATED", "DEACTIVATED"},
                 ok : BOOLEAN]
    BY <1>4, <2>1, Zenon DEF LogDev
  <2> QED BY <1>4, <2>2 DEF LogDev
<1>14. CASE LogDevSum
  BY <1>14 DEF LogDevSum, Fields
<1>5. CASE GetSensorData \/ GetEntriesInLog
  BY <1>5, <1>0 DEF GetSensorData, GetEntriesInLog, Fields
<1>6. CASE AckFull \/ AckDevSum
  BY <1>6 DEF AckFull, AckDevSum
<1>7. CASE AckHdr
  BY <1>7, <1>0, BumpType DEF AckHdr
<1>8. CASE AmRestart
  BY <1>8, <1>0 DEF AmRestart
<1>9. CASE Activation
  <2>1. CASE Activate
    BY <2>1 DEF Activate
  <2>2. CASE ActDevSum
    BY <2>2 DEF ActDevSum
  <2>3. CASE Deactivate
    BY <2>3 DEF Deactivate
  <2>4. CASE DeactDevSum
    BY <2>4 DEF DeactDevSum
  <2>5. CASE DeactHdr
    BY <2>5 DEF DeactHdr
  <2>6. CASE DeactHdrSum
    BY <2>6, <1>0 DEF DeactHdrSum, DefaultHdr
  <2> QED BY <1>9, <2>1, <2>2, <2>3, <2>4, <2>5, <2>6 DEF Activation
<1>10. CASE PowerLoss
  BY <1>10, <1>0 DEF PowerLoss
<1>11. CASE Boot
  BY <1>11, <1>0 DEF Boot, DefaultDev, DefaultHdr, Fields
<1>12. CASE BootDevSum
  BY <1>12 DEF BootDevSum
<1>13. CASE UNCHANGED vars
  BY <1>13 DEF vars
<1> QED
  BY <1>1, <1>2, <1>3, <1>4, <1>5, <1>6, <1>7, <1>8, <1>9, <1>10, <1>11,
     <1>12, <1>13, <1>14 DEF Next, Log, Ack

LEMMA TypeInit == Init => TypeOK
<1> SUFFICES ASSUME Init PROVE TypeOK
  OBVIOUS
<1>1. 0 \in Index /\ 0 \in 0 .. NumLogs
  BY RingSizeAssumption, NumLogsAssumption DEF Index
<1>2. /\ hdr \in [head : Index, tail : Index, ok : BOOLEAN]
      /\ SensorDataHdr \in [head : Index, tail : Index]
  BY <1>1 DEF Init, DefaultHdr
<1>3. dev \in [full : BOOLEAN, state : {"ACTIVATED", "DEACTIVATED"},
              ok : BOOLEAN]
  BY DEF Init, DefaultDev
<1>4. slot \in [Index -> [id : 0 .. NumLogs, ok : BOOLEAN]]
  BY <1>1 DEF Init
<1> QED BY <1>1, <1>2, <1>3, <1>4 DEF Init, TypeOK

(* The type invariant, under power losses at every write.                  *)
THEOREM TypeCorrect == Spec => []TypeOK
BY TypeInit, TypeStep, PTL DEF Spec

-----------------------------------------------------------------------------
(* The strengthening that makes PersistedFullAgrees inductive.  While the  *)
(* board runs, the RAM flag is set whenever the persisted one is, and then *)
(* head and tail coincide; the flag is still set when a log persists it    *)
(* and already clear when an acknowledgement moves the tail.               *)
FullFlagInv ==
    /\ PersistedFullAgrees
    /\ pc # "boot" /\ dev.full => xSensorDataIsFull
    /\ pc # "boot" /\ xSensorDataIsFull /\ hdr.ok => hdr.head = hdr.tail
    /\ pc = "logDev" => xSensorDataIsFull
    /\ pc \in {"ackDevSum", "ackHdr"} => ~xSensorDataIsFull

LEMMA FullFlagInit == Init => FullFlagInv
BY DEF Init, FullFlagInv, PersistedFullAgrees, DefaultHdr, DefaultDev

LEMMA FullFlagStep == TypeOK /\ FullFlagInv /\ [Next]_vars => FullFlagInv'
<1> SUFFICES ASSUME TypeOK, FullFlagInv, [Next]_vars PROVE FullFlagInv'
  OBVIOUS
<1> USE DEF FullFlagInv, PersistedFullAgrees
<1>1. CASE LogHeader
  <2>1. /\ dev' = dev /\ pc' = "logData" /\ hdr'.ok = hdr.ok
        /\ xSensorDataIsFull => xSensorDataIsFull'
    BY <1>1 DEF LogHeader, TypeOK
  <2>2. dev.full => xSensorDataIsFull
    BY <1>1 DEF LogHeader, Idle
  <2>3. xSensorDataIsFull' /\ hdr.ok => hdr'.head = hdr'.tail
    BY <1>1 DEF LogHeader, Idle, TypeOK
  <2> QED BY <2>1, <2>2, <2>3
<1>2. CASE LogData
  BY <1>2 DEF LogData
<1>3. CASE LogSum
  BY <1>3 DEF LogSum
<1>4. CASE LogDev
  <2>1. xSensorDataIsFull' /\ pc' = "logDevSum" /\ hdr' = hdr
    BY <1>4 DEF LogDev
  <2> QED BY <1>4, <2>1 DEF LogDev
<1>5. CASE LogDevSum
  <2>1. dev'.full = dev.full
    BY <1>5 DEF LogDevSum, TypeOK
  <2> QED BY <1>5, <2>1 DEF LogDevSum
<1>6. CASE GetSensorData \/ GetEntriesInLog \/ AmRestart
  BY <1>6 DEF GetSensorData, GetEntriesInLog, AmRestart
<1>7. CASE AckFull
  <2>1. dev'.full = FALSE
    BY <1>7 DEF AckFull, TypeOK
  <2> QED BY <1>7, <2>1 DEF AckFull
<1>8. CASE AckDevSum
  <2>1. dev'.full = dev.full
    BY <1>8 DEF AckDevSum, TypeOK
  <2> QED BY <1>8, <2>1 DEF AckDevSum
<1>9. CASE AckHdr
  <2>1. ~xSensorDataIsFull /\ pc # "boot"
    BY <1>9 DEF AckHdr, Idle
  <2> QED BY <1>9, <2>1 DEF AckHdr
<1>10. CASE Activate \/ ActDevSum \/ Deactivate \/ DeactDevSum
  <2>1. /\ dev'.full = dev.full /\ UNCHANGED <<hdr, xSensorDataIsFull>>
        /\ pc # "boot" /\ pc' \in {"actDevSum", "idle", "deactDevSum", "deactHdr"}
    BY <1>10 DEF Activate, ActDevSum, Deactivate, DeactDevSum, Idle, TypeOK
  <2> QED BY <2>1
<1>11. CASE DeactHdr
  <2>1. hdr'.ok = FALSE
    BY <1>11 DEF DeactHdr, TypeOK
  <2> QED BY <1>11, <2>1 DEF DeactHdr
<1>12. CASE DeactHdrSum
  BY <1>12 DEF DeactHdrSum, DefaultHdr
<1>13. CASE PowerLoss
  BY <1>13 DEF PowerLoss
<1>14. CASE Boot
  <2>1. xSensorDataIsFull' = dev'.full /\ pc' = "bootDevSum"
    BY <1>14 DEF Boot, DefaultDev, TypeOK
  <2>2. xSensorDataIsFull' => dev.ok /\ dev.full
    BY <1>14 DEF Boot, DefaultDev
  <2>3. xSensorDataIsFull' => hdr'.head = hdr'.tail
    <3>1. CASE SectionGood
      BY <3>1, <1>14, <2>2 DEF Boot, SectionGood
    <3>2. CASE ~SectionGood
      BY <3>2, <1>14 DEF Boot, DefaultHdr
    <3> QED BY <3>1, <3>2
  <2> QED BY <2>1, <2>3
<1>15. CASE BootDevSum
  <2>1. dev'.full = dev.full
    BY <1>15 DEF BootDevSum, TypeOK
  <2> QED BY <1>15, <2>1 DEF BootDevSum
<1>16. CASE UNCHANGED vars
  BY <1>16 DEF vars
<1> QED
  BY <1>1, <1>2, <1>3, <1>4, <1>5, <1>6, <1>7, <1>8, <1>9, <1>10, <1>11,
     <1>12, <1>13, <1>14, <1>15, <1>16
     DEF Next, Log, Ack, Activation

(* A reboot after a power loss at any write never counts a full ring over  *)
(* a header whose head and tail differ.                                    *)
THEOREM FullFlagSurvivesPowerLoss == Spec => []PersistedFullAgrees
<1>1. Init => TypeOK /\ FullFlagInv
  BY TypeInit, FullFlagInit
<1>2. TypeOK /\ FullFlagInv /\ [Next]_vars => (TypeOK /\ FullFlagInv)'
  BY TypeStep, FullFlagStep
<1>3. FullFlagInv => PersistedFullAgrees
  BY DEF FullFlagInv
<1> QED BY <1>1, <1>2, <1>3, PTL DEF Spec

-----------------------------------------------------------------------------
(* The strengthening that makes RamHeaderFresh inductive: while the AM     *)
(* holds a log the header copy is current outside a daily log, and neither *)
(* a deactivation nor a boot is in progress; it holds one during an        *)
(* acknowledgement.                                                        *)
FreshInv ==
    /\ sent # 0 /\ pc \in {"idle", "ackDevSum", "ackHdr", "actDevSum"}
          => SensorDataHdr = Fields(hdr)
    /\ sent # 0 => pc \notin {"deactDevSum", "deactHdr", "deactHdrSum",
                              "boot", "bootDevSum"}
    /\ pc \in {"ackDevSum", "ackHdr"} => sent # 0

LEMMA FreshStep == FreshInv /\ [OrderlyNext]_vars => FreshInv'
<1> SUFFICES ASSUME FreshInv, [OrderlyNext]_vars PROVE FreshInv'
  OBVIOUS
<1> USE DEF FreshInv, Fields
<1>1. CASE Log
  BY <1>1 DEF Log, LogHeader, LogData, LogSum, LogDev, LogDevSum
<1>2. CASE GetSensorData \/ GetEntriesInLog
  BY <1>2 DEF GetSensorData, GetEntriesInLog, Idle
<1>3. CASE Ack /\ sent # 0
  BY <1>3 DEF Ack, AckFull, AckDevSum, AckHdr, Idle
<1>4. CASE AmRestart
  BY <1>4 DEF AmRestart, Idle
<1>5. CASE Activate \/ ActDevSum
  BY <1>5 DEF Activate, ActDevSum, Idle
<1>6. CASE Deactivate /\ sent = 0
  BY <1>6 DEF Deactivate
<1>7. CASE DeactDevSum \/ DeactHdr \/ DeactHdrSum
  BY <1>7 DEF DeactDevSum, DeactHdr, DeactHdrSum
<1>8. CASE PowerLoss /\ sent' = 0
  BY <1>8 DEF PowerLoss
<1>9. CASE Boot \/ BootDevSum
  BY <1>9 DEF Boot, BootDevSum
<1>10. CASE UNCHANGED vars
  BY <1>10 DEF vars
<1> QED
  BY <1>1, <1>2, <1>3, <1>4, <1>5, <1>6, <1>7, <1>8, <1>9, <1>10
     DEF OrderlyNext, Next, Activation

(* With an AM that acknowledges, perhaps repeatedly, only a log it was     *)
(* sent and has done with it before it deactivates the SSM, the header an  *)
(* acknowledgement writes back is always current.                          *)
THEOREM AckWritesFreshHeader == OrderlySpec => []RamHeaderFresh
<1>1. Init => FreshInv
  BY DEF Init, FreshInv
<1>2. FreshInv => RamHeaderFresh
  BY DEF FreshInv, RamHeaderFresh, Idle
<1> QED BY <1>1, <1>2, FreshStep, PTL DEF OrderlySpec

-----------------------------------------------------------------------------
(* The ring as a sequence.                                                 *)

(* Bump without the modulus.                                               *)
LEMMA BumpIs == \A i \in Index : Bump(i) = IF i = MAX_SENSOR_DATA_LOGS - 1 THEN 0 ELSE i + 1
BY RingSizeAssumption DEF Index, Bump

(* The slot of the k-th log of a queue that begins at slot t. *)
At(t, k) == (t + (k - 1)) % MAX_SENSOR_DATA_LOGS
(* The k-th slot from t on, without the modulus.                           *)
LEMMA AtIs ==
    ASSUME NEW t \in Index, NEW k \in 1 .. MAX_SENSOR_DATA_LOGS
    PROVE  /\ At(t, k) \in Index
           /\ At(t, k) = IF t + (k - 1) < MAX_SENSOR_DATA_LOGS THEN t + (k - 1)
                         ELSE t + (k - 1) - MAX_SENSOR_DATA_LOGS
BY RingSizeAssumption DEF Index, At

(* The slot before Bump(i) is i: after a log has moved the head, it is     *)
(* written to the slot the head was on.                                    *)
LEMMA BeforeIs ==
    ASSUME NEW i \in Index
    PROVE  (CHOOSE j \in Index : Bump(j) = Bump(i)) = i
<1>1. \A j \in Index : Bump(j) = Bump(i) => j = i
  BY BumpIs, RingSizeAssumption DEF Index
<1> QED BY <1>1

(* A function on 1 .. n is a sequence of length n.                         *)
LEMMA ListIs ==
    ASSUME NEW S, NEW n \in Nat, NEW f \in [1 .. n -> S]
    PROVE  f \in Seq(S) /\ Len(f) = n
<1>1. f \in Seq(S)
  BY SeqDef
<1>2. Len(f) \in Nat /\ DOMAIN f = 1 .. Len(f)
  BY <1>1, LenProperties
<1>3. DOMAIN f = 1 .. n
  OBVIOUS
<1>4. 1 .. n = 1 .. Len(f)
  BY <1>2, <1>3
<1>5. n = Len(f)
  BY <1>4, <1>2
<1> QED BY <1>1, <1>5

(* The rings of logs drawn from S.                                         *)
Rings(S) == [Index -> S]

(* What the queue reads of a ring that holds c: the n entries from t on.   *)
View(c, t, n) == [k \in 1 .. n |-> c[At(t, k)]]

(* A view is a sequence of its n entries, in the order of their slots.     *)
LEMMA ViewIsList ==
    ASSUME NEW S, NEW c \in Rings(S), NEW t \in Index,
           NEW n \in 0 .. MAX_SENSOR_DATA_LOGS
    PROVE  /\ View(c, t, n) \in Seq(S) /\ Len(View(c, t, n)) = n
           /\ \A k \in 1 .. n : View(c, t, n)[k] = c[At(t, k)]
<1>1. \A k \in 1 .. n : k \in 1 .. MAX_SENSOR_DATA_LOGS
  BY RingSizeAssumption
<1>2. \A k \in 1 .. n : c[At(t, k)] \in S
  BY <1>1, AtIs DEF Rings
<1>3. View(c, t, n) \in [1 .. n -> S]
  BY <1>2 DEF View
<1>4. n \in Nat
  BY RingSizeAssumption
<1>5. View(c, t, n) \in Seq(S) /\ Len(View(c, t, n)) = n
  BY <1>3, <1>4, ListIs
<1> QED BY <1>5 DEF View

(* c1 is c with x in slot p.                                               *)
Writes(c, c1, p, x) == \A i \in Index : c1[i] = IF i = p THEN x ELSE c[i]

(* A log is written to the slot after the newest one.                      *)
LEMMA ViewAppends ==
    ASSUME NEW S, NEW c \in Rings(S), NEW c1 \in Rings(S), NEW x \in S,
           NEW t \in Index, NEW n \in 0 .. MAX_SENSOR_DATA_LOGS - 1,
           NEW m, m = n + 1, Writes(c, c1, At(t, m), x)
    PROVE  View(c1, t, m) = Append(View(c, t, n), x)
<1> DEFINE q == View(c, t, n)
           r == View(c1, t, n + 1)
<1>0. n \in 0 .. MAX_SENSOR_DATA_LOGS /\ n + 1 \in 0 .. MAX_SENSOR_DATA_LOGS
      /\ n \in Nat
  BY RingSizeAssumption
<1>1. /\ q \in Seq(S) /\ Len(q) = n
      /\ \A k \in 1 .. n : q[k] = c[At(t, k)]
  BY <1>0, ViewIsList
<1>2. /\ r \in Seq(S) /\ Len(r) = n + 1
      /\ \A k \in 1 .. n + 1 : r[k] = c1[At(t, k)]
  BY <1>0, ViewIsList
<1>3. n + 1 \in 1 .. MAX_SENSOR_DATA_LOGS /\ At(t, n + 1) \in Index
  BY AtIs, RingSizeAssumption
<1>4. r[n + 1] = x
  BY <1>0, <1>2, <1>3 DEF Writes
<1>5. ASSUME NEW k \in 1 .. n PROVE r[k] = q[k]
  <2>1. k \in 1 .. MAX_SENSOR_DATA_LOGS /\ k \in 1 .. n + 1
    BY <1>0, RingSizeAssumption
  <2>2. At(t, k) \in Index /\ At(t, k) # At(t, n + 1)
    <3>1. /\ At(t, k) \in Index
          /\ At(t, k) = IF t + (k - 1) < MAX_SENSOR_DATA_LOGS THEN t + (k - 1)
                        ELSE t + (k - 1) - MAX_SENSOR_DATA_LOGS
      BY <2>1, AtIs
    <3>2. At(t, n + 1) = IF t + (n + 1 - 1) < MAX_SENSOR_DATA_LOGS
                         THEN t + (n + 1 - 1)
                         ELSE t + (n + 1 - 1) - MAX_SENSOR_DATA_LOGS
      BY <1>3, AtIs
    <3> QED BY <1>0, <3>1, <3>2, RingSizeAssumption DEF Index
  <2> QED BY <1>1, <1>2, <2>1, <2>2 DEF Writes
<1> HIDE DEF q, r
<1>6. /\ Append(q, x) \in Seq(S) /\ Len(Append(q, x)) = n + 1
      /\ \A k \in 1 .. n : Append(q, x)[k] = q[k]
      /\ Append(q, x)[n + 1] = x
  BY <1>1, AppendProperties
<1>7. \A k \in 1 .. Len(r) : r[k] = Append(q, x)[k]
  BY <1>0, <1>2, <1>4, <1>5, <1>6
<1>8. r = Append(q, x)
  BY <1>2, <1>6, <1>7, SeqEqual
<1> QED BY <1>8 DEF q, r

(* The oldest log leaves.                                                  *)
LEMMA ViewLeaves ==
    ASSUME NEW S, NEW c \in Rings(S), NEW t \in Index,
           NEW n \in 1 .. MAX_SENSOR_DATA_LOGS
    PROVE  /\ View(c, t, n) # <<>>
           /\ View(c, Bump(t), n - 1) = Tail(View(c, t, n))
<1> DEFINE q == View(c, t, n)
           r == View(c, Bump(t), n - 1)
<1>0. /\ n \in 0 .. MAX_SENSOR_DATA_LOGS /\ n - 1 \in 0 .. MAX_SENSOR_DATA_LOGS
      /\ n \in Nat /\ n > 0
  BY RingSizeAssumption
<1>1. /\ q \in Seq(S) /\ Len(q) = n
      /\ \A k \in 1 .. n : q[k] = c[At(t, k)]
  BY <1>0, ViewIsList
<1>2. /\ r \in Seq(S) /\ Len(r) = n - 1
      /\ \A k \in 1 .. n - 1 : r[k] = c[At(Bump(t), k)]
  <2>1. Bump(t) \in Index
    BY BumpType
  <2> QED BY <1>0, <2>1, ViewIsList
<1>3. q # <<>>
  BY <1>0, <1>1
<1>4. ASSUME NEW k \in 1 .. n - 1 PROVE r[k] = q[k + 1]
  <2>1. /\ k \in 1 .. MAX_SENSOR_DATA_LOGS /\ k + 1 \in 1 .. n
        /\ k + 1 \in 1 .. MAX_SENSOR_DATA_LOGS
    BY <1>0, RingSizeAssumption
  <2>2. At(Bump(t), k) = At(t, k + 1)
    <3>1. Bump(t) \in Index /\ Bump(t) = IF t = MAX_SENSOR_DATA_LOGS - 1 THEN 0 ELSE t + 1
      BY BumpType, BumpIs
    <3>2. At(Bump(t), k) = IF Bump(t) + (k - 1) < MAX_SENSOR_DATA_LOGS
                           THEN Bump(t) + (k - 1)
                           ELSE Bump(t) + (k - 1) - MAX_SENSOR_DATA_LOGS
      BY <2>1, <3>1, AtIs
    <3>3. At(t, k + 1) = IF t + (k + 1 - 1) < MAX_SENSOR_DATA_LOGS
                         THEN t + (k + 1 - 1)
                         ELSE t + (k + 1 - 1) - MAX_SENSOR_DATA_LOGS
      BY <2>1, AtIs
    <3> QED BY <2>1, <3>1, <3>2, <3>3, RingSizeAssumption DEF Index
  <2> QED BY <1>1, <1>2, <2>1, <2>2
<1> HIDE DEF q, r
<1>5. /\ Tail(q) \in Seq(S) /\ Len(Tail(q)) = n - 1
      /\ \A k \in 1 .. n - 1 : Tail(q)[k] = q[k + 1]
  BY <1>1, <1>3, HeadTailProperties
<1>6. r = Tail(q)
  BY <1>2, <1>4, <1>5, SeqEqual
<1> QED BY <1>3, <1>6 DEF q, r

(* A full ring read from another position.                                 *)
(* The same of a whole ring.                                               *)
LEMMA FullViewIsList ==
    ASSUME NEW S, NEW c \in Rings(S), NEW t \in Index
    PROVE  LET q == View(c, t, MAX_SENSOR_DATA_LOGS)
           IN  /\ q \in Seq(S) /\ Len(q) = MAX_SENSOR_DATA_LOGS
               /\ \A k \in 1 .. MAX_SENSOR_DATA_LOGS : q[k] = c[At(t, k)]
<1>1. MAX_SENSOR_DATA_LOGS \in 0 .. MAX_SENSOR_DATA_LOGS
  BY RingSizeAssumption
<1> QED BY <1>1, ViewIsList

LEMMA ViewRotates ==
    ASSUME NEW S, NEW c \in Rings(S), NEW t \in Index, NEW u \in Index,
           NEW N \in 1 .. MAX_SENSOR_DATA_LOGS, N = MAX_SENSOR_DATA_LOGS
    PROVE  \E k \in 1 .. N :
              View(c, u, N)
                = SubSeq(View(c, t, N), k, N) \o SubSeq(View(c, t, N), 1, k - 1)
<1> DEFINE q == View(c, t, N)
           r == View(c, u, N)
           k == IF u >= t THEN u - t + 1 ELSE N - t + u + 1
           a == SubSeq(q, k, N)
           b == SubSeq(q, 1, k - 1)
<1>0. N \in Nat \ {0} /\ N \in 0 .. MAX_SENSOR_DATA_LOGS /\ N = MAX_SENSOR_DATA_LOGS
  BY RingSizeAssumption
<1> HIDE DEF k
<1>1. /\ q \in Seq(S) /\ Len(q) = N
      /\ \A i \in 1 .. N : q[i] = c[At(t, i)]
  BY FullViewIsList
<1>2. /\ r \in Seq(S) /\ Len(r) = N
      /\ \A i \in 1 .. N : r[i] = c[At(u, i)]
  BY FullViewIsList
<1>3. k \in 1 .. N
  BY <1>0 DEF Index, k
<1>4. \A i \in 1 .. N : q[i] \in S
  BY <1>1
<1>5. ASSUME NEW i \in 1 .. N
      PROVE  r[i] = IF i <= N - k + 1 THEN q[k + i - 1] ELSE q[i - (N - k + 1)]
  <2>1. CASE i <= N - k + 1
    <3> DEFINE j == k + i - 1
    <3>1. j \in 1 .. N /\ j = k + i - 1
      BY <2>1, <1>0, <1>3
    <3> HIDE DEF j
    <3>2. At(u, i) = At(t, j)
      <4>1. At(u, i) = IF u + (i - 1) < N THEN u + (i - 1) ELSE u + (i - 1) - N
        BY <1>0, AtIs
      <4>2. At(t, j) = IF t + (j - 1) < N THEN t + (j - 1) ELSE t + (j - 1) - N
        BY <1>0, <3>1, AtIs
      <4> QED BY <2>1, <1>0, <3>1, <4>1, <4>2 DEF Index, k
    <3> QED BY <1>1, <1>2, <2>1, <3>1, <3>2
  <2>2. CASE ~(i <= N - k + 1)
    <3> DEFINE j == i - (N - k + 1)
    <3>1. j \in 1 .. N /\ j = i - (N - k + 1)
      BY <2>2, <1>0, <1>3
    <3> HIDE DEF j
    <3>2. At(u, i) = At(t, j)
      <4>1. At(u, i) = IF u + (i - 1) < N THEN u + (i - 1) ELSE u + (i - 1) - N
        BY <1>0, AtIs
      <4>2. At(t, j) = IF t + (j - 1) < N THEN t + (j - 1) ELSE t + (j - 1) - N
        BY <1>0, <3>1, AtIs
      <4> QED BY <2>2, <1>0, <3>1, <4>1, <4>2 DEF Index, k
    <3> QED BY <1>1, <1>2, <2>2, <3>1, <3>2
  <2> QED BY <2>1, <2>2
<1> HIDE DEF q, r
<1>6. /\ a \in Seq(S) /\ Len(a) = N - k + 1
      /\ \A i \in 1 .. N - k + 1 : a[i] = q[k + i - 1]
  <2>1. \A i \in k .. N : q[i] \in S
    BY <1>0, <1>3, <1>4
  <2>2. k \in Int /\ N \in Int /\ k <= N
    BY <1>0, <1>3
  <2> QED BY <2>1, <2>2, SubSeqProperties
<1>7. /\ b \in Seq(S) /\ Len(b) = k - 1
      /\ \A i \in 1 .. k - 1 : b[i] = q[i]
  <2>1. \A i \in 1 .. k - 1 : q[i] \in S
    BY <1>0, <1>3, <1>4
  <2>2. 1 \in Int /\ k - 1 \in Int /\ k \in Int /\ k >= 1
    BY <1>0, <1>3
  <2>3. /\ b \in Seq(S) /\ Len(b) = IF 1 <= k - 1 THEN k - 1 - 1 + 1 ELSE 0
        /\ \A i \in 1 .. k - 1 - 1 + 1 : b[i] = q[1 + i - 1]
    BY <2>1, <2>2, SubSeqProperties
  <2> HIDE DEF b
  <2>4. /\ (IF 1 <= k - 1 THEN k - 1 - 1 + 1 ELSE 0) = k - 1
        /\ k - 1 - 1 + 1 = k - 1 /\ \A i \in 1 .. k - 1 : 1 + i - 1 = i
    BY <2>2
  <2> QED BY <2>3, <2>4
<1> HIDE DEF a, b
<1>8. /\ a \o b \in Seq(S) /\ Len(a \o b) = N
      /\ \A i \in 1 .. N : (a \o b)[i] = IF i <= Len(a) THEN a[i] ELSE b[i - Len(a)]
  <2>1. Len(a) + Len(b) = N
    BY <1>0, <1>3, <1>6, <1>7
  <2> QED BY <2>1, <1>6, <1>7, ConcatProperties
<1>9. ASSUME NEW i \in 1 .. N PROVE r[i] = (a \o b)[i]
  <2>1. CASE i <= N - k + 1
    BY <1>0, <1>3, <1>5, <1>6, <1>8, <2>1
  <2>2. CASE ~(i <= N - k + 1)
    <3>1. i - (N - k + 1) \in 1 .. k - 1
      BY <1>0, <1>3, <2>2
    <3> QED BY <1>5, <1>6, <1>7, <1>8, <2>2, <3>1
  <2> QED BY <2>1, <2>2
<1>10. r = a \o b
  BY <1>2, <1>8, <1>9, SeqEqual
<1> QED BY <1>3, <1>10 DEF q, r, a, b

-----------------------------------------------------------------------------
(* The identifiers the ring holds, the log being written among them, and   *)
(* how many of them the header and the full flag count.                    *)
Contents == [i \in Index |-> Content(i)]
Count == NumEntriesOf(hdr, FullView)

(* APP_NVM_Custom_GetSensorDataNumEntries: the count stays in the ring, is *)
(* zero only for an empty ring that is not full, and the head of a ring    *)
(* that is not full is the slot after its newest log.                      *)
LEMMA CountIs ==
    ASSUME NEW h, h.head \in Index, h.tail \in Index, NEW full \in BOOLEAN
    PROVE  /\ NumEntriesOf(h, full) \in 0 .. MAX_SENSOR_DATA_LOGS
           /\ full => NumEntriesOf(h, full) = MAX_SENSOR_DATA_LOGS
           /\ ~full => NumEntriesOf(h, full) \in 0 .. MAX_SENSOR_DATA_LOGS - 1
           /\ ~full /\ h.head = h.tail => NumEntriesOf(h, full) = 0
           /\ ~full /\ h.head # h.tail => NumEntriesOf(h, full) # 0
           /\ ~full => h.head = At(h.tail, NumEntriesOf(h, full) + 1)
<1> DEFINE n == NumEntriesOf(h, full)
<1>1. /\ full => n = MAX_SENSOR_DATA_LOGS
      /\ ~full /\ h.head >= h.tail => n = h.head - h.tail
      /\ ~full /\ ~(h.head >= h.tail) => n = (MAX_SENSOR_DATA_LOGS - h.tail) + h.head
  BY DEF NumEntriesOf
<1> HIDE DEF n
<1>2. /\ full => n = MAX_SENSOR_DATA_LOGS
      /\ ~full => n \in 0 .. MAX_SENSOR_DATA_LOGS - 1
      /\ ~full /\ h.head = h.tail => n = 0
      /\ ~full /\ h.head # h.tail => n # 0
  BY <1>1, RingSizeAssumption DEF Index
<1>3. n \in 0 .. MAX_SENSOR_DATA_LOGS
  BY <1>2, RingSizeAssumption
<1>4. ASSUME ~full PROVE h.head = At(h.tail, n + 1)
  <2>1. n + 1 \in 1 .. MAX_SENSOR_DATA_LOGS /\ n \in Nat
    BY <1>2, <1>4, RingSizeAssumption
  <2>2. At(h.tail, n + 1) = IF h.tail + (n + 1 - 1) < MAX_SENSOR_DATA_LOGS
                            THEN h.tail + (n + 1 - 1)
                            ELSE h.tail + (n + 1 - 1) - MAX_SENSOR_DATA_LOGS
    BY <2>1, AtIs
  <2> QED BY <1>1, <1>4, <2>1, <2>2, RingSizeAssumption DEF Index
<1> QED BY <1>2, <1>3, <1>4 DEF n

(* The count is a number of slots.                                         *)
LEMMA CountType == TypeOK => Count \in 0 .. MAX_SENSOR_DATA_LOGS
<1>1. FullView \in BOOLEAN \/ xSensorDataIsFull \notin BOOLEAN
  BY DEF FullView
<1> QED BY <1>1, CountIs DEF TypeOK, Count

(* The ring holds identifiers of logs.                                     *)
LEMMA ContentsType ==
    TypeOK => Contents \in Rings(0 .. NumLogs)
<1> SUFFICES ASSUME TypeOK PROVE Contents \in Rings(0 .. NumLogs)
  OBVIOUS
<1>1. \A i \in Index : slot[i].id \in 0 .. NumLogs
  BY DEF TypeOK
<1>2. \A i \in Index : Content(i) \in 0 .. NumLogs
  BY <1>1 DEF TypeOK, Content
<1> QED BY <1>2 DEF Contents, Rings

(* The queue is the view of the ring from the tail on.                     *)
LEMMA QueueViewIs ==
    TypeOK => QueueView = View(Contents, hdr.tail, Count)
<1> SUFFICES ASSUME TypeOK PROVE QueueView = View(Contents, hdr.tail, Count)
  OBVIOUS
<1> DEFINE t == hdr.tail
           n == Count
<1>1. n \in 0 .. MAX_SENSOR_DATA_LOGS /\ t \in Index
  BY CountType DEF TypeOK
<1>2. ASSUME NEW k \in 1 .. n PROVE Contents[At(t, k)] = Content(At(t, k))
  <2> HIDE DEF n, t
  <2>1. k \in 1 .. MAX_SENSOR_DATA_LOGS
    BY <1>1, RingSizeAssumption
  <2>2. At(t, k) \in Index
    BY <1>1, <2>1, AtIs
  <2> QED BY <2>2 DEF Contents
<1>3. QueueView = [k \in 1 .. n |-> Content(At(t, k))]
  BY DEF QueueView, At, Count
<1>4. View(Contents, t, n) = [k \in 1 .. n |-> Contents[At(t, k)]]
  BY DEF View
<1> HIDE DEF n, t
<1>5. QueueView = View(Contents, t, n)
  BY <1>2, <1>3, <1>4
<1> QED BY <1>5 DEF n, t

(* The facts about the next state.                                         *)
LEMMA NextView ==
    TypeOK' => /\ QueueView' = View(Contents', hdr'.tail, Count')
               /\ Count' \in 0 .. MAX_SENSOR_DATA_LOGS
               /\ Contents' \in Rings(0 .. NumLogs)
<1>1. TypeOK' => (QueueView = View(Contents, hdr.tail, Count))'
  BY QueueViewIs, PTL
<1>2. TypeOK' => (Count \in 0 .. MAX_SENSOR_DATA_LOGS)'
  BY CountType, PTL
<1>3. TypeOK' => (Contents \in Rings(0 .. NumLogs))'
  BY ContentsType, PTL
<1> QED BY <1>1, <1>2, <1>3

-----------------------------------------------------------------------------
(* What the refinement needs beyond FullFlagInv and FreshInv. The header   *)
(* is good except while it is defaulted; an acknowledgement of a full ring *)
(* finds head and tail on one slot; the data of the log in progress are in *)
(* place before its checksum; no slot holds a log that was not written yet. *)
QueueInv ==
    /\ pc \notin {"deactHdrSum", "boot"} => hdr.ok
    /\ pc \in {"ackDevSum", "ackHdr"} => hdr.head = hdr.tail
    /\ pc = "logSum" => slot[LogSlot].id = cur
    /\ \A i \in Index : slot[i].id <= cur

(* It holds of a defaulted board.                                          *)
LEMMA QueueInvInit == Init => QueueInv
<1> SUFFICES ASSUME Init PROVE QueueInv
  OBVIOUS
<1>1. \A i \in Index : slot[i].id <= cur
  BY DEF Init
<1> QED BY <1>1 DEF Init, QueueInv, DefaultHdr

(* Every step with an orderly AM preserves it.                             *)
LEMMA QueueInvStep ==
    TypeOK /\ FullFlagInv /\ FreshInv /\ QueueInv /\ [OrderlyNext]_vars
        => QueueInv'
<1> SUFFICES ASSUME TypeOK, FullFlagInv, FreshInv, QueueInv, [OrderlyNext]_vars
             PROVE QueueInv'
  OBVIOUS
<1> DEFINE Unmoved == UNCHANGED <<hdr, slot, cur>>
<1>0. /\ LogSlot \in Index
      /\ hdr' = hdr => LogSlot' = LogSlot
  BY LogSlotType DEF TypeOK, LogSlot
<1>1. CASE LogHeader
  <2>1. /\ hdr.ok /\ slot' = slot /\ cur' = cur + 1 /\ pc' = "logData"
        /\ hdr'.ok = hdr.ok
    BY <1>1 DEF LogHeader, Idle, QueueInv, TypeOK
  <2>2. \A i \in Index : slot'[i].id <= cur'
    BY <2>1 DEF QueueInv, TypeOK
  <2> QED BY <2>1, <2>2 DEF QueueInv
<1>2. CASE LogData
  <2>1. /\ hdr' = hdr /\ cur' = cur /\ pc = "logData" /\ pc' = "logSum"
        /\ sent' = sent /\ xSensorDataIsFull' = xSensorDataIsFull
    BY <1>2 DEF LogData
  <2>2. slot'[LogSlot'].id = cur' /\ \A i \in Index : slot'[i].id <= cur'
    <3>1. \A i \in Index : slot'[i].id = IF i = LogSlot THEN cur ELSE slot[i].id
      BY <1>2 DEF LogData, TypeOK
    <3> QED BY <3>1, <2>1, <1>0 DEF QueueInv, TypeOK
  <2> QED BY <2>1, <2>2 DEF QueueInv, FullView
<1>3. CASE LogSum
  <2>1. /\ hdr' = hdr /\ cur' = cur /\ pc = "logSum" /\ pc' \in {"logDev", "idle"}
        /\ sent' = sent /\ xSensorDataIsFull' = xSensorDataIsFull
    BY <1>3 DEF LogSum
  <2>2. \A i \in Index : slot'[i].id <= cur'
    <3>1. \A i \in Index : slot'[i].id = slot[i].id
      BY <1>3, <1>0 DEF LogSum, TypeOK
    <3> QED BY <3>1, <2>1 DEF QueueInv
  <2> QED BY <2>1, <2>2 DEF QueueInv, FullView
<1>4. CASE LogDev \/ LogDevSum \/ GetEntriesInLog
  BY <1>4 DEF LogDev, LogDevSum, GetEntriesInLog, Idle, QueueInv, FullView
<1>5. CASE GetSensorData
  <2>1. /\ Unmoved /\ pc = "idle" /\ pc' = "idle"
    BY <1>5 DEF GetSensorData, Idle
  <2> QED BY <2>1 DEF QueueInv
<1>6. CASE AckFull
  <2>1. /\ Unmoved /\ pc = "idle" /\ pc' = "ackDevSum"
        /\ xSensorDataIsFull
    BY <1>6 DEF AckFull, Idle
  <2>2. hdr.head = hdr.tail /\ hdr.ok
    BY <2>1 DEF FullFlagInv, QueueInv
  <2> QED BY <2>1, <2>2 DEF QueueInv, FullView
<1>7. CASE AckDevSum
  BY <1>7 DEF AckDevSum, QueueInv, FullView
<1>8. CASE AckHdr
  <2>1. hdr'.ok /\ pc' = "idle" /\ UNCHANGED <<slot, cur>>
    BY <1>8 DEF AckHdr
  <2> QED BY <2>1 DEF QueueInv, FullView
<1>9. CASE AmRestart
  BY <1>9 DEF AmRestart, Idle, QueueInv, FullView
<1>10. CASE Activate \/ ActDevSum \/ Deactivate \/ DeactDevSum
  <2>1. /\ Unmoved /\ pc \in {"idle", "actDevSum", "deactDevSum"}
        /\ pc' \in {"idle", "actDevSum", "deactDevSum", "deactHdr"}
        /\ sent' = sent /\ xSensorDataIsFull' = xSensorDataIsFull
    BY <1>10 DEF Activate, ActDevSum, Deactivate, DeactDevSum, Idle
  <2> QED BY <2>1 DEF QueueInv, FullView
<1>11. CASE DeactHdr \/ DeactHdrSum
  <2>1. /\ UNCHANGED <<slot, cur>> /\ sent' = 0
        /\ pc' = "deactHdrSum" \/ (pc' = "idle" /\ hdr'.ok)
    BY <1>11 DEF DeactHdr, DeactHdrSum, DefaultHdr, FreshInv
  <2> QED BY <2>1 DEF QueueInv, FullView
<1>12. CASE PowerLoss /\ sent' = 0
  BY <1>12 DEF PowerLoss, QueueInv, FullView
<1>13. CASE Boot
  <2>1. UNCHANGED <<slot, cur>> /\ sent' = 0 /\ pc' = "bootDevSum"
    BY <1>13 DEF Boot, FreshInv
  <2>2. hdr'.ok
    <3>1. CASE SectionGood
      BY <3>1, <1>13 DEF Boot, SectionGood
    <3>2. CASE ~SectionGood
      BY <3>2, <1>13 DEF Boot, DefaultHdr
    <3> QED BY <3>1, <3>2
  <2> QED BY <2>1, <2>2 DEF QueueInv, FullView
<1>14. CASE BootDevSum
  BY <1>14 DEF BootDevSum, QueueInv, FullView
<1>15. CASE UNCHANGED vars
  <2>1. Unmoved /\ UNCHANGED <<pc, sent, xSensorDataIsFull>>
    BY <1>15 DEF vars
  <2> QED BY <2>1, <1>0 DEF QueueInv, FullView
<1> QED
  BY <1>1, <1>2, <1>3, <1>4, <1>5, <1>6, <1>7, <1>8, <1>9, <1>10, <1>11,
     <1>12, <1>13, <1>14, <1>15
     DEF OrderlyNext, Next, Log, Ack, Activation

-----------------------------------------------------------------------------
(* The inductive invariant of the board with an orderly AM.                *)
RingInv == TypeOK /\ FullFlagInv /\ FreshInv /\ QueueInv

(* A step after which the ring holds the same queue.                       *)
Kept == /\ Contents' = Contents /\ hdr'.tail = hdr.tail /\ Count' = Count
        /\ cur' = cur /\ (pc' # "boot") = (pc # "boot")

(* Such a step is no step of the queue.                                    *)
LEMMA KeptStutters == TypeOK /\ TypeOK' /\ Kept => UNCHANGED Queue!vars
<1> SUFFICES ASSUME TypeOK, TypeOK', Kept PROVE UNCHANGED Queue!vars
  OBVIOUS
<1>1. QueueView' = QueueView
  BY QueueViewIs, NextView DEF Kept
<1> QED BY <1>1 DEF Kept, Queue!vars

(* Enough for it: the indices, the count and the identifiers stay.         *)
LEMMA SameRing ==
    ASSUME hdr'.head = hdr.head, hdr'.tail = hdr.tail, FullView' = FullView,
           cur' = cur, (pc' # "boot") = (pc # "boot"),
           \A i \in Index : Content(i)' = Content(i)
    PROVE  Kept
<1>1. Contents' = Contents
  BY DEF Contents
<1>2. Count' = Count
  BY DEF Count, NumEntriesOf
<1> QED BY <1>1, <1>2 DEF Kept

(* Every write but a log's header, an acknowledgement's header and the     *)
(* default header leaves the queue as it is.                               *)
LEMMA StuttersKept ==
    ASSUME RingInv,
           \/ LogData \/ LogSum \/ LogDev \/ LogDevSum \/ GetSensorData
           \/ GetEntriesInLog \/ AckFull \/ AckDevSum \/ AmRestart
           \/ Activate \/ ActDevSum \/ Deactivate \/ DeactDevSum \/ DeactHdr
           \/ BootDevSum
    PROVE  Kept
<1> USE DEF RingInv
<1>0. /\ LogSlot \in Index
      /\ hdr' = hdr => LogSlot' = LogSlot
  BY LogSlotType DEF TypeOK, LogSlot
<1>1. CASE LogData
  <2>1. /\ hdr' = hdr /\ cur' = cur /\ pc = "logData" /\ pc' = "logSum"
        /\ xSensorDataIsFull' = xSensorDataIsFull
    BY <1>1 DEF LogData
  <2>2. \A i \in Index : slot'[i].id = IF i = LogSlot THEN cur ELSE slot[i].id
    BY <1>1 DEF LogData, TypeOK
  <2>3. \A i \in Index : Content(i)' = Content(i)
    BY <1>0, <2>1, <2>2 DEF Content
  <2> QED BY <2>1, <2>3, SameRing DEF FullView
<1>2. CASE LogSum
  <2>1. /\ hdr' = hdr /\ cur' = cur /\ pc = "logSum" /\ pc' \in {"logDev", "idle"}
        /\ xSensorDataIsFull' = xSensorDataIsFull
    BY <1>2 DEF LogSum
  <2>2. \A i \in Index : slot'[i].id = slot[i].id
    BY <1>2, <1>0 DEF LogSum, TypeOK
  <2>3. slot[LogSlot].id = cur
    BY <2>1 DEF QueueInv
  <2>4. \A i \in Index : Content(i)' = Content(i)
    BY <1>0, <2>1, <2>2, <2>3 DEF Content
  <2> QED BY <2>1, <2>4, SameRing DEF FullView
<1>3. CASE \/ LogDev \/ LogDevSum \/ GetSensorData \/ GetEntriesInLog
           \/ AckFull \/ AckDevSum \/ AmRestart \/ Activate \/ ActDevSum
           \/ Deactivate \/ DeactDevSum \/ BootDevSum
  <2>1. /\ UNCHANGED <<hdr, slot, cur>> /\ FullView' = FullView
        /\ pc \notin {"logData", "logSum", "boot"}
        /\ pc' \notin {"logData", "logSum", "boot"}
    <3>1. CASE LogDev \/ LogDevSum \/ GetSensorData \/ GetEntriesInLog
      BY <3>1 DEF LogDev, LogDevSum, GetSensorData, GetEntriesInLog, Idle, FullView
    <3>2. CASE AckFull \/ AckDevSum \/ AmRestart
      BY <3>2 DEF AckFull, AckDevSum, AmRestart, Idle, FullView
    <3>3. CASE \/ Activate \/ ActDevSum \/ Deactivate \/ DeactDevSum \/ BootDevSum
      BY <3>3 DEF Activate, ActDevSum, Deactivate, DeactDevSum, BootDevSum,
                  Idle, FullView
    <3> QED BY <1>3, <3>1, <3>2, <3>3
  <2>2. \A i \in Index : Content(i)' = Content(i)
    BY <2>1 DEF Content
  <2> QED BY <2>1, <2>2, SameRing
<1>4. CASE DeactHdr
  <2>1. /\ hdr'.head = hdr.head /\ hdr'.tail = hdr.tail
        /\ UNCHANGED <<slot, cur, xSensorDataIsFull>>
        /\ pc = "deactHdr" /\ pc' = "deactHdrSum"
    BY <1>4 DEF DeactHdr, TypeOK
  <2>2. \A i \in Index : Content(i)' = Content(i)
    BY <2>1 DEF Content
  <2> QED BY <2>1, <2>2, SameRing DEF FullView
<1> QED BY <1>1, <1>2, <1>3, <1>4

(* APP_NVM_UpdateCurrentEntry pushes: it appends the new log when it       *)
(* writes the header, before the data, and a full ring loses its oldest    *)
(* log.                                                                    *)
LEMMA LogPushes ==
    ASSUME RingInv, TypeOK', LogHeader
    PROVE  Queue!Push
<1> USE DEF RingInv
<1> DEFINE S == 0 .. NumLogs
           c == Contents
           d == Contents'
           t == hdr.tail
           n == Count
<1>1. /\ pc = "idle" /\ pc' = "logData" /\ cur' = cur + 1 /\ slot' = slot
      /\ hdr.ok /\ cur' \in S
  BY DEF LogHeader, Idle, QueueInv, TypeOK
<1>2. c \in Rings(S) /\ d \in Rings(S) /\ t \in Index /\ n \in 0 .. MAX_SENSOR_DATA_LOGS
  BY ContentsType, NextView, CountType DEF TypeOK
<1>3. LogSlot' = hdr.head
  <2>1. hdr'.head = Bump(hdr.head) /\ hdr.head \in Index
    BY DEF LogHeader, TypeOK
  <2> QED BY <2>1, BeforeIs DEF LogSlot
<1>4. Writes(c, d, hdr.head, cur')
  <2>1. \A i \in Index : c[i] = slot[i].id
    BY <1>1 DEF Contents, Content
  <2>2. \A i \in Index : d[i] = IF i = hdr.head THEN cur' ELSE slot[i].id
    BY <1>1, <1>3 DEF Contents, Content
  <2> QED BY <2>1, <2>2 DEF Writes
<1>5. QueueView = View(c, t, n) /\ QueueView' = View(d, hdr'.tail, Count')
      /\ Len(QueueView) = n
  <2>1. QueueView = View(c, t, n) /\ QueueView' = View(d, hdr'.tail, Count')
    BY QueueViewIs, NextView
  <2> HIDE DEF c, d, t, n
  <2> QED BY <2>1, <1>2, ViewIsList
<1>6. CASE xSensorDataIsFull
  <2>1. n = MAX_SENSOR_DATA_LOGS
    BY <1>6, CountIs DEF Count, FullView, TypeOK
  <2>2. hdr.head = t
    BY <1>1, <1>6 DEF FullFlagInv
  <2>3. /\ hdr'.tail = Bump(t) /\ xSensorDataIsFull'
    BY <1>6 DEF LogHeader, TypeOK
  <2>4. Count' = MAX_SENSOR_DATA_LOGS
    BY <2>3 DEF Count, FullView, NumEntriesOf
  <2>5. At(Bump(t), MAX_SENSOR_DATA_LOGS) = t
    <3> HIDE DEF t
    <3>1. Bump(t) \in Index /\ Bump(t) = IF t = MAX_SENSOR_DATA_LOGS - 1 THEN 0 ELSE t + 1
      BY <1>2, BumpType, BumpIs
    <3>2. MAX_SENSOR_DATA_LOGS \in 1 .. MAX_SENSOR_DATA_LOGS
      BY RingSizeAssumption
    <3>3. At(Bump(t), MAX_SENSOR_DATA_LOGS)
            = IF Bump(t) + (MAX_SENSOR_DATA_LOGS - 1) < MAX_SENSOR_DATA_LOGS
              THEN Bump(t) + (MAX_SENSOR_DATA_LOGS - 1)
              ELSE Bump(t) + (MAX_SENSOR_DATA_LOGS - 1) - MAX_SENSOR_DATA_LOGS
      BY <3>1, <3>2, AtIs
    <3> QED BY <1>2, <3>1, <3>3, RingSizeAssumption DEF Index
  <2> HIDE DEF c, d, t, n, S
  <2>6. View(c, Bump(t), MAX_SENSOR_DATA_LOGS - 1) = Tail(View(c, t, MAX_SENSOR_DATA_LOGS))
    <3>1. MAX_SENSOR_DATA_LOGS \in 1 .. MAX_SENSOR_DATA_LOGS
      BY RingSizeAssumption
    <3> QED BY <3>1, <1>2, ViewLeaves
  <2>7. View(d, Bump(t), MAX_SENSOR_DATA_LOGS)
          = Append(View(c, Bump(t), MAX_SENSOR_DATA_LOGS - 1), cur')
    <3> DEFINE m == MAX_SENSOR_DATA_LOGS - 1
    <3>1. m \in 0 .. MAX_SENSOR_DATA_LOGS - 1 /\ m + 1 = MAX_SENSOR_DATA_LOGS
          /\ Bump(t) \in Index
      BY <1>2, RingSizeAssumption, BumpType
    <3> HIDE DEF m
    <3>2. Writes(c, d, At(Bump(t), MAX_SENSOR_DATA_LOGS), cur')
      BY <2>2, <2>5, <1>4
    <3>3. View(d, Bump(t), MAX_SENSOR_DATA_LOGS) = Append(View(c, Bump(t), m), cur')
      <4>1. cur' \in S /\ c \in Rings(S) /\ d \in Rings(S)
        BY <1>1, <1>2
      <4> QED BY <4>1, <3>1, <3>2, ViewAppends
    <3> QED BY <3>1, <3>3 DEF m
  <2>8. QueueView' = Append(Tail(QueueView), cur') /\ Len(QueueView) = MAX_SENSOR_DATA_LOGS
    BY <1>5, <2>1, <2>3, <2>4, <2>6, <2>7
  <2> QED BY <1>1, <2>8 DEF Queue!Push
<1>7. CASE ~xSensorDataIsFull
  <2>1. /\ n \in 0 .. MAX_SENSOR_DATA_LOGS - 1 /\ hdr.head = At(t, n + 1)
        /\ ~FullView
    BY <1>1, <1>7, CountIs DEF Count, FullView, TypeOK
  <2>2. /\ hdr'.tail = t /\ hdr'.head = Bump(hdr.head)
        /\ xSensorDataIsFull' = (Bump(hdr.head) = t)
    BY <1>7 DEF LogHeader, TypeOK
  <2>3. Count' = n + 1
    <3>1. Bump(hdr.head) = IF hdr.head = MAX_SENSOR_DATA_LOGS - 1 THEN 0 ELSE hdr.head + 1
      BY BumpIs DEF TypeOK
    <3>2. FullView' = xSensorDataIsFull'
      BY <1>1 DEF FullView, TypeOK
    <3>3. Count' = IF Bump(hdr.head) = t THEN MAX_SENSOR_DATA_LOGS
                   ELSE IF Bump(hdr.head) >= t THEN Bump(hdr.head) - t
                        ELSE (MAX_SENSOR_DATA_LOGS - t) + Bump(hdr.head)
      BY <3>2, <2>2 DEF Count, NumEntriesOf
    <3>4. n = IF hdr.head >= t THEN hdr.head - t
              ELSE (MAX_SENSOR_DATA_LOGS - t) + hdr.head
      BY <2>1 DEF Count, NumEntriesOf
    <3>5. hdr.head \in Index
      BY DEF TypeOK
    <3> DEFINE h == hdr.head
               b == Bump(h)
               m == Count'
    <3>6. /\ b = IF h = MAX_SENSOR_DATA_LOGS - 1 THEN 0 ELSE h + 1
          /\ m = IF b = t THEN MAX_SENSOR_DATA_LOGS
                 ELSE IF b >= t THEN b - t ELSE (MAX_SENSOR_DATA_LOGS - t) + b
          /\ n = IF h >= t THEN h - t ELSE (MAX_SENSOR_DATA_LOGS - t) + h
          /\ h \in Index /\ t \in Index
      BY <1>2, <3>1, <3>3, <3>4, <3>5
    <3> HIDE DEF n, t, h, b, m
    <3>7. m = n + 1
      BY <3>6, RingSizeAssumption DEF Index
    <3> QED BY <3>7 DEF m
  <2> HIDE DEF c, d, t, n, S
  <2>4. View(d, t, n + 1) = Append(View(c, t, n), cur')
    <3>1. cur' \in S /\ c \in Rings(S) /\ d \in Rings(S) /\ t \in Index
      BY <1>1, <1>2
    <3>2. Writes(c, d, At(t, n + 1), cur') /\ n \in 0 .. MAX_SENSOR_DATA_LOGS - 1
      BY <1>4, <2>1
    <3> QED BY <3>1, <3>2, ViewAppends
  <2>5. QueueView' = Append(QueueView, cur') /\ Len(QueueView) # MAX_SENSOR_DATA_LOGS
    BY <1>5, <2>1, <2>2, <2>3, <2>4, RingSizeAssumption
  <2> QED BY <1>1, <2>5 DEF Queue!Push
<1> QED BY <1>6, <1>7

(* APP_NVM_SensorDataMsgAcked pops: the tail moves by one log, which needs *)
(* the RAM copy of the header to be current; past the head of an empty     *)
(* ring, all slots but one count as entries.                               *)
LEMMA AckPops ==
    ASSUME RingInv, TypeOK', AckHdr, sent # 0
    PROVE  Queue!Pop \/ Queue!Underrun
<1> USE DEF RingInv
<1> DEFINE S == 0 .. NumLogs
           c == Contents
           t == hdr.tail
           h == hdr.head
           n == Count
           m == Count'
<1>1. /\ pc \in {"idle", "ackHdr"} /\ pc' = "idle"
      /\ UNCHANGED <<slot, cur>> /\ ~xSensorDataIsFull /\ ~xSensorDataIsFull'
  BY DEF AckHdr, Idle, QueueInv, FullFlagInv
<1>2. hdr'.head = h /\ hdr'.tail = Bump(t)
  <2>1. SensorDataHdr = Fields(hdr)
    BY <1>1 DEF FreshInv
  <2> QED BY <2>1 DEF AckHdr, Fields
<1>3. /\ c \in Rings(S) /\ t \in Index /\ h \in Index
      /\ n \in 0 .. MAX_SENSOR_DATA_LOGS
  BY ContentsType, CountType DEF TypeOK
<1>4. Contents' = c
  BY <1>1 DEF Contents, Content
<1>5. QueueView = View(c, t, n) /\ QueueView' = View(c, Bump(t), m)
  BY <1>2, <1>4, QueueViewIs, NextView
<1>6. \/ n \in 1 .. MAX_SENSOR_DATA_LOGS /\ m = n - 1
      \/ n = 0 /\ m = MAX_SENSOR_DATA_LOGS - 1
  <2>1. Bump(t) = IF t = MAX_SENSOR_DATA_LOGS - 1 THEN 0 ELSE t + 1
    BY <1>3, BumpIs
  <2>2. m = IF h >= Bump(t) THEN h - Bump(t)
            ELSE (MAX_SENSOR_DATA_LOGS - Bump(t)) + h
    BY <1>1, <1>2 DEF Count, FullView, NumEntriesOf
  <2>3. \/ n = MAX_SENSOR_DATA_LOGS /\ h = t
        \/ n = IF h >= t THEN h - t ELSE (MAX_SENSOR_DATA_LOGS - t) + h
    <3>1. CASE pc = "ackHdr"
      BY <3>1 DEF QueueInv, Count, FullView, NumEntriesOf
    <3>2. CASE pc = "idle"
      BY <3>2, <1>1 DEF QueueInv, Count, FullView, NumEntriesOf
    <3> QED BY <1>1, <3>1, <3>2
  <2> HIDE DEF n, m, t, h
  <2> QED BY <1>3, <2>1, <2>2, <2>3, RingSizeAssumption DEF Index
<1> HIDE DEF c, n, m, t
<1>7. CASE n \in 1 .. MAX_SENSOR_DATA_LOGS /\ m = n - 1
  <2>1. View(c, t, n) # <<>> /\ View(c, Bump(t), n - 1) = Tail(View(c, t, n))
    BY <1>3, <1>7, ViewLeaves
  <2> QED BY <1>1, <1>5, <1>7, <2>1 DEF Queue!Pop
<1>8. CASE n = 0 /\ m = MAX_SENSOR_DATA_LOGS - 1
  <2>1. c \in Rings(0 .. cur)
    <3>1. \A i \in Index : slot[i].id \in 0 .. cur
      BY DEF QueueInv, TypeOK
    <3>2. \A i \in Index : Content(i) \in 0 .. cur
      BY <3>1 DEF Content, TypeOK
    <3> QED BY <3>2 DEF c, Contents, Rings
  <2>2. Bump(t) \in Index /\ m \in 0 .. MAX_SENSOR_DATA_LOGS
    BY <1>3, <1>8, BumpType, RingSizeAssumption
  <2>3. QueueView' \in Seq(0 .. cur) /\ Len(QueueView') = m
    BY <1>5, <2>1, <2>2, ViewIsList
  <2>4. QueueView = <<>>
    <3>1. QueueView \in Seq(0 .. cur) /\ Len(QueueView) = 0
      BY <1>3, <1>5, <1>8, <2>1, ViewIsList
    <3> QED BY <3>1, EmptySeq
  <2> QED BY <1>1, <1>8, <2>3, <2>4 DEF Queue!Underrun
<1> QED BY <1>6, <1>7, <1>8

(* Deactivation clears the ring, or, when the full flag is set, leaves     *)
(* it full and moves its beginning to slot 0.                              *)
LEMMA DeactivationClearsOrRotates ==
    ASSUME RingInv, TypeOK', DeactHdrSum
    PROVE  Queue!Clear \/ Queue!Rotate
<1> USE DEF RingInv
<1> DEFINE S == 0 .. NumLogs
           c == Contents
           t == hdr.tail
           n == Count
<1>1. /\ pc = "deactHdrSum" /\ pc' = "idle" /\ UNCHANGED <<slot, cur>>
      /\ hdr'.head = 0 /\ hdr'.tail = 0 /\ 0 \in Index
      /\ xSensorDataIsFull' = xSensorDataIsFull
  BY RingSizeAssumption DEF DeactHdrSum, DefaultHdr, Index
<1>2. /\ c \in Rings(S) /\ t \in Index /\ n \in 0 .. MAX_SENSOR_DATA_LOGS
  BY ContentsType, CountType DEF TypeOK
<1>3. Contents' = c
  BY <1>1 DEF Contents, Content
<1>4. QueueView = View(c, t, n) /\ QueueView' = View(c, 0, Count')
  BY <1>1, <1>3, QueueViewIs, NextView
<1>5. CASE xSensorDataIsFull
  <2>1. n = MAX_SENSOR_DATA_LOGS /\ Count' = MAX_SENSOR_DATA_LOGS
    BY <1>1, <1>5 DEF Count, FullView, NumEntriesOf
  <2>2. MAX_SENSOR_DATA_LOGS \in 1 .. MAX_SENSOR_DATA_LOGS
    BY RingSizeAssumption
  <2> HIDE DEF S, c, t, n
  <2>3. Len(QueueView) = MAX_SENSOR_DATA_LOGS
    BY <1>2, <1>4, <2>1, ViewIsList
  <2>4. \E k \in 1 .. MAX_SENSOR_DATA_LOGS :
           QueueView' = SubSeq(QueueView, k, MAX_SENSOR_DATA_LOGS)
                          \o SubSeq(QueueView, 1, k - 1)
    BY <1>1, <1>2, <1>4, <2>1, <2>2, ViewRotates
  <2> QED BY <1>1, <2>3, <2>4 DEF Queue!Rotate
<1>6. CASE ~xSensorDataIsFull
  <2>1. n \in 0 .. MAX_SENSOR_DATA_LOGS - 1
    BY <1>1, <1>6, CountIs DEF Count, FullView, TypeOK
  <2>2. Count' = 0
    BY <1>1, <1>6 DEF Count, FullView, NumEntriesOf
  <2> HIDE DEF S, c, t, n
  <2>3. Len(QueueView) # MAX_SENSOR_DATA_LOGS
    <3>1. Len(QueueView) = n
      BY <1>2, <1>4, ViewIsList
    <3> QED BY <3>1, <2>1, RingSizeAssumption
  <2>4. QueueView' = <<>>
    <3>1. 0 \in 0 .. MAX_SENSOR_DATA_LOGS
      BY RingSizeAssumption
    <3>2. QueueView' \in Seq(S) /\ Len(QueueView') = 0
      BY <1>1, <1>2, <1>4, <2>2, <3>1, ViewIsList
    <3> QED BY <3>2, EmptySeq
  <2> QED BY <1>1, <2>3, <2>4 DEF Queue!Clear
<1> QED BY <1>5, <1>6

(* Power fails or returns: what is left is a queue of logs written before. *)
LEMMA PowerLeavesQueue ==
    ASSUME RingInv, RingInv', PowerLoss \/ Boot
    PROVE  Queue!Power
<1> USE DEF RingInv
<1> DEFINE S == 0 .. cur
           c == Contents'
           t == hdr'.tail
           n == Count'
<1>1. cur' = cur /\ ~(pc # "boot" /\ pc' # "boot")
  BY DEF PowerLoss, Boot
<1>2. t \in Index /\ n \in 0 .. MAX_SENSOR_DATA_LOGS /\ QueueView' = View(c, t, n)
  BY NextView DEF TypeOK
<1>3. c \in Rings(S)
  <2>1. \A i \in Index : slot'[i].id \in 0 .. cur
    BY <1>1 DEF QueueInv, TypeOK
  <2>2. cur \in 0 .. cur
    BY DEF TypeOK
  <2>3. \A i \in Index : Content(i)' \in 0 .. cur
    BY <1>1, <2>1, <2>2 DEF Content
  <2> QED BY <2>3 DEF Contents, Rings
<1> HIDE DEF c, t, n
<1>4. QueueView' \in Seq(S) /\ Len(QueueView') = n
  BY <1>2, <1>3, ViewIsList
<1> HIDE DEF S
<1>5. Len(QueueView') <= MAX_SENSOR_DATA_LOGS
  BY <1>2, <1>4
<1> QED BY <1>1, <1>4, <1>5 DEF Queue!Power, S

(* A defaulted board is an empty queue.                                    *)
LEMMA QueueInit == Init => Queue!Init
<1> SUFFICES ASSUME Init PROVE Queue!Init
  OBVIOUS
<1>1. /\ hdr.head = 0 /\ hdr.tail = 0 /\ ~xSensorDataIsFull /\ pc = "idle" /\ cur = 0
  BY DEF Init, DefaultHdr
<1>2. NumEntriesOf(hdr, FullView) = 0
  BY <1>1 DEF FullView, NumEntriesOf
<1>3. QueueView = <<>>
  BY <1>2 DEF QueueView
<1> QED BY <1>1, <1>3 DEF Queue!Init

(* Every step of the board is a step of the queue or a stutter.            *)
LEMMA QueueStep ==
    RingInv /\ RingInv' /\ [OrderlyNext]_vars => [Queue!Next]_(Queue!vars)
<1> SUFFICES ASSUME RingInv, RingInv', [OrderlyNext]_vars
             PROVE  Queue!Next \/ UNCHANGED Queue!vars
  OBVIOUS
<1>1. TypeOK /\ TypeOK'
  BY DEF RingInv
<1>2. CASE LogHeader
  BY <1>1, <1>2, LogPushes DEF Queue!Next
<1>3. CASE AckHdr /\ sent # 0
  BY <1>1, <1>3, AckPops DEF Queue!Next
<1>4. CASE DeactHdrSum
  BY <1>1, <1>4, DeactivationClearsOrRotates DEF Queue!Next
<1>5. CASE PowerLoss \/ Boot
  BY <1>5, PowerLeavesQueue DEF Queue!Next
<1>6. CASE \/ LogData \/ LogSum \/ LogDev \/ LogDevSum \/ GetSensorData
           \/ GetEntriesInLog \/ AckFull \/ AckDevSum \/ AmRestart
           \/ Activate \/ ActDevSum \/ Deactivate \/ DeactDevSum \/ DeactHdr
           \/ BootDevSum
  BY <1>1, <1>6, StuttersKept, KeptStutters
<1>7. CASE UNCHANGED vars
  <2>1. UNCHANGED <<hdr, slot, xSensorDataIsFull, pc, cur>>
    BY <1>7 DEF vars
  <2>2. QueueView' = QueueView
    BY <2>1 DEF QueueView, Content, LogSlot, FullView, NumEntriesOf
  <2> QED BY <2>1, <2>2 DEF Queue!vars
<1> QED
  BY <1>2, <1>3, <1>4, <1>5, <1>6, <1>7
     DEF OrderlyNext, Next, Log, Ack, Activation

(* With an AM that acknowledges only what it was sent, has done with it    *)
(* before it deactivates the board, and loses power with it, the board     *)
(* implements SensorQueue: logs leave in the order they were written, one  *)
(* per acknowledgement that arrives, only a full ring gives up its oldest  *)
(* log, a power loss leaves a queue of logs that were written, and old     *)
(* entries reappear only when an acknowledgement meets an empty ring.      *)
THEOREM QueueImplemented == OrderlySpec => QueueSpec
<1>1. Init => RingInv
  BY TypeInit, FullFlagInit, QueueInvInit DEF RingInv, Init, FreshInv
<1>2. RingInv /\ [OrderlyNext]_vars => RingInv'
  <2>1. [OrderlyNext]_vars => [Next]_vars
    BY DEF OrderlyNext
  <2> QED BY <2>1, TypeStep, FullFlagStep, FreshStep, QueueInvStep DEF RingInv
<1> QED BY <1>1, <1>2, QueueInit, QueueStep, PTL
        DEF OrderlySpec, QueueSpec, Queue!Spec
=============================================================================
