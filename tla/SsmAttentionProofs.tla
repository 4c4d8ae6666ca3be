------------------------- MODULE SsmAttentionProofs -------------------------
(***************************************************************************)
(* Proofs about SsmAttention, for every recovery time and any number of    *)
(* failures, resets and cloud commands: the types; that the wake line is   *)
(* set, and an answer of the AM waited for, exactly as long as a source is *)
(* pending; that AM_NOT_RESPONSIVE never outlives the wait; and that the   *)
(* system is power cycled only when an error has lasted.                   *)
(***************************************************************************)
EXTENDS SsmAttention, TLAPS

(* The two invariants, of any state of APP.c: it is them, and its type,    *)
(* that each function of APP.c keeps.                                      *)
Linked(a) ==
    /\ a \in App
    /\ a.line <=> a.list # {}
    /\ a.waiting <=> a.line
    /\ "AM_NOT_RESPONSIVE" \in a.errors => a.waiting

(* The fields of a state of APP.c.                                         *)
LEMMA AppFields ==
    ASSUME NEW a \in App
    PROVE  /\ a.list \in SUBSET Source /\ a.line \in BOOLEAN
           /\ a.waiting \in BOOLEAN /\ a.waitTime \in 0 .. 1
           /\ a.errors \in SUBSET Error /\ a.errTime \in 0 .. Recovery
           /\ a.faultTime \in 0 .. 1 /\ a.state \in State
           /\ a.saved \in State \ {"FAULT"} /\ a.valid \in BOOLEAN
           /\ a.synced \in BOOLEAN /\ a.liters \in BOOLEAN /\ a.logs \in BOOLEAN
BY DEF App

-----------------------------------------------------------------------------
(* The functions of APP.c, one by one.                                     *)

(* WakeAm makes up for a source raised without it.                         *)
LEMMA WakeAmLinks ==
    ASSUME NEW a \in App, a.list # {}
    PROVE  Linked(WakeAm(a))
<1> DEFINE b == [a EXCEPT !.waiting = TRUE]
           c == [b EXCEPT !.waitTime = 0]
           d == [c EXCEPT !.line = TRUE]
<1>1. d = WakeAm(a)
  BY DEF WakeAm
<1>2. b \in App
  BY DEF App
<1> HIDE DEF b
<1>3. c \in App
  BY <1>2 DEF App
<1> HIDE DEF c
<1>4. d \in App
  BY <1>3 DEF App
<1>5. /\ WakeAm(a).list = a.list
      /\ WakeAm(a).line = TRUE /\ WakeAm(a).waiting = TRUE
  BY DEF WakeAm, App
<1> QED BY <1>1, <1>4, <1>5 DEF Linked

LEMMA IndicateErrorType ==
    ASSUME NEW a \in App, NEW e \in Error
    PROVE  /\ IndicateError(a, e) \in App
           /\ IndicateError(a, e).list = a.list
           /\ IndicateError(a, e).line = a.line
           /\ IndicateError(a, e).waiting = a.waiting
           /\ IndicateError(a, e).errors = a.errors \cup {e}
<1> DEFINE time == IF e \in Critical /\ ~IsBroken(a) THEN 0 ELSE a.errTime
           b == [a EXCEPT !.errTime = time]
           c == [b EXCEPT !.errors = @ \cup {e}]
<1>1. c = IndicateError(a, e)
  BY DEF IndicateError
<1>2. /\ c.list = a.list /\ c.line = a.line /\ c.waiting = a.waiting
      /\ c.errors = a.errors \cup {e}
  BY DEF App
<1>3. time \in 0 .. Recovery
  BY AttentionAssumption, AppFields
<1> HIDE DEF time
<1>4. b \in App
  BY <1>3 DEF App
<1> HIDE DEF b
<1>5. c \in App
  BY <1>4 DEF App
<1> QED BY <1>1, <1>2, <1>5

LEMMA IndicateActivationLinks ==
    ASSUME NEW a \in App
    PROVE  Linked(IndicateActivation(a))
<1> DEFINE b == [a EXCEPT !.list = @ \cup {"ACTIVATE"}]
<1>1. b \in App /\ b.list # {}
  BY DEF App, Source
<1> QED BY <1>1, WakeAmLinks DEF IndicateActivation

(* The request for the time alone does not wake the AM, unless there is no *)
(* time at all.                                                            *)
LEMMA IndicateNeedTimeType ==
    ASSUME NEW a \in App
    PROVE  /\ IndicateNeedTime(a) \in App
           /\ IndicateNeedTime(a).list # {}
           /\ "NO_RTC_TIME" \in a.errors => Linked(IndicateNeedTime(a))
<1> DEFINE asked == [a EXCEPT !.list = @ \cup {"REQUEST_TIME"}]
           both == [asked EXCEPT !.list = @ \cup {"CHECK_IN_DEACTIVATED"}]
<1>1. asked \in App /\ asked.list # {}
  BY DEF App, Source
<1>2. both \in App /\ both.list # {}
  BY <1>1 DEF App, Source
<1>3. Linked(WakeAm(both)) /\ WakeAm(both).list # {}
  BY <1>2, WakeAmLinks DEF WakeAm, App
<1>4. IndicateNeedTime(a)
        = IF "NO_RTC_TIME" \in a.errors THEN WakeAm(both) ELSE asked
  BY DEF IndicateNeedTime
<1> HIDE DEF asked, both
<1> QED BY <1>1, <1>3, <1>4 DEF Linked

LEMMA IndicateCheckInLinks ==
    ASSUME NEW a \in App
    PROVE  Linked(IndicateCheckIn(a))
<1> DEFINE source == IF a.state = "ACTIVATED" THEN "CHECK_IN_ACTIVATED"
                                              ELSE "CHECK_IN_DEACTIVATED"
           raised == [a EXCEPT !.list = @ \cup {source}]
<1>1. raised \in App /\ raised.list # {}
  BY DEF App, Source
<1>2. IndicateNeedTime(raised) \in App /\ IndicateNeedTime(raised).list # {}
  BY <1>1, IndicateNeedTimeType
<1>3. IndicateCheckIn(a)
        = WakeAm(IF a.synced THEN raised ELSE IndicateNeedTime(raised))
  BY DEF IndicateCheckIn
<1> HIDE DEF source, raised
<1> QED BY <1>1, <1>2, <1>3, WakeAmLinks

LEMMA HandleAttnSourceAckLinks ==
    ASSUME NEW a \in App
    PROVE  Linked(HandleAttnSourceAck(a))
<1> DEFINE b == [a EXCEPT !.list = {}]
           c == [b EXCEPT !.line = FALSE]
           d == [c EXCEPT !.waiting = FALSE]
           e == [d EXCEPT !.waitTime = 0]
           f == [e EXCEPT !.errors = @ \ {"AM_NOT_RESPONSIVE"}]
<1>1. f = HandleAttnSourceAck(a)
  BY DEF HandleAttnSourceAck
<1>2. b \in App
  BY DEF App
<1> HIDE DEF b
<1>3. c \in App
  BY <1>2 DEF App
<1> HIDE DEF c
<1>4. d \in App
  BY <1>3 DEF App
<1> HIDE DEF d
<1>5. e \in App
  BY <1>4 DEF App
<1> HIDE DEF e
<1>6. f \in App
  BY <1>5 DEF App
<1>7. /\ HandleAttnSourceAck(a).list = {}
      /\ HandleAttnSourceAck(a).line = FALSE
      /\ HandleAttnSourceAck(a).waiting = FALSE
      /\ "AM_NOT_RESPONSIVE" \notin HandleAttnSourceAck(a).errors
  BY DEF HandleAttnSourceAck, App
<1> QED BY <1>1, <1>6, <1>7 DEF Linked

LEMMA AppInitLinks ==
    ASSUME NEW a \in App, NEW valid \in BOOLEAN
    PROVE  Linked(AppInit(a, valid))
<1>1. AppInit(a, valid) \in App
  BY AttentionAssumption DEF AppInit, App, Error, State
<1>2. /\ AppInit(a, valid).list = {}
      /\ AppInit(a, valid).line = FALSE
      /\ AppInit(a, valid).waiting = FALSE
      /\ AppInit(a, valid).errors \subseteq {"NO_RTC_TIME"}
  BY DEF AppInit, App
<1> QED BY <1>1, <1>2 DEF Linked

(* What touches neither the list, nor the line, nor the wait.              *)
LEMMA SameLink ==
    ASSUME NEW a, Linked(a), NEW b \in App,
           b.list = a.list, b.line = a.line, b.waiting = a.waiting,
           b.errors \subseteq a.errors
    PROVE  Linked(b)
BY DEF Linked

LEMMA ActivateLinks ==
    ASSUME NEW a, Linked(a)
    PROVE  Linked(HandleActivateCmd(a))
<1> DEFINE b == [a EXCEPT !.state = "ACTIVATED"]
           c == [b EXCEPT !.saved = "ACTIVATED"]
           d == [c EXCEPT !.liters = FALSE]
           e == [d EXCEPT !.faultTime = 0]
<1>1. HandleActivateCmd(a) = IF a.state = "ACTIVATED" THEN a ELSE e
  BY DEF HandleActivateCmd
<1>2. a \in App
  BY DEF Linked
<1>3. /\ e.list = a.list /\ e.line = a.line /\ e.waiting = a.waiting
      /\ e.errors = a.errors
  BY <1>2 DEF App
<1>4. b \in App
  BY <1>2 DEF App, State
<1> HIDE DEF b
<1>5. c \in App
  BY <1>4 DEF App, State
<1> HIDE DEF c
<1>6. d \in App
  BY <1>5 DEF App
<1> HIDE DEF d
<1>7. e \in App
  BY <1>6 DEF App
<1> HIDE DEF e
<1> QED BY <1>1, <1>3, <1>7, SameLink

LEMMA DeactivateLinks ==
    ASSUME NEW a, Linked(a)
    PROVE  Linked(HandleDeactivateCmd(a))
<1> DEFINE b == [a EXCEPT !.state = "DEACTIVATED"]
           c == [b EXCEPT !.saved = "DEACTIVATED"]
           d == [c EXCEPT !.liters = FALSE]
           e == [d EXCEPT !.logs = FALSE]
           f == [e EXCEPT !.faultTime = 0]
<1>1. HandleDeactivateCmd(a) = IF a.state = "DEACTIVATED" THEN a ELSE f
  BY DEF HandleDeactivateCmd
<1>2. a \in App
  BY DEF Linked
<1>3. /\ f.list = a.list /\ f.line = a.line /\ f.waiting = a.waiting
      /\ f.errors = a.errors
  BY <1>2 DEF App
<1>4. b \in App
  BY <1>2 DEF App, State
<1> HIDE DEF b
<1>5. c \in App
  BY <1>4 DEF App, State
<1> HIDE DEF c
<1>6. d \in App
  BY <1>5 DEF App
<1> HIDE DEF d
<1>7. e \in App
  BY <1>6 DEF App
<1> HIDE DEF e
<1>8. f \in App
  BY <1>7 DEF App
<1> HIDE DEF f
<1> QED BY <1>1, <1>3, <1>8, SameLink

LEMMA SetTimeLinks ==
    ASSUME NEW a, Linked(a)
    PROVE  Linked(SetTimeUpdated(a)) /\ Linked(SetTimeFailed(a))
<1> DEFINE b == [a EXCEPT !.synced = TRUE]
           c == [b EXCEPT !.valid = TRUE]
           d == [c EXCEPT !.errors = @ \ {"NO_RTC_TIME"}]
           e == [a EXCEPT !.valid = FALSE]
<1>1. SetTimeUpdated(a) = d
  BY DEF SetTimeUpdated
<1>2. SetTimeFailed(a) = IF "NO_RTC_TIME" \in a.errors THEN e ELSE a
  BY DEF SetTimeFailed
<1>3. a \in App
  BY DEF Linked
<1>4. /\ d.list = a.list /\ d.line = a.line /\ d.waiting = a.waiting
      /\ d.errors \subseteq a.errors
  BY <1>3 DEF App
<1>5. /\ e.list = a.list /\ e.line = a.line /\ e.waiting = a.waiting
      /\ e.errors = a.errors
  BY <1>3 DEF App
<1>6. b \in App /\ e \in App
  BY <1>3 DEF App
<1> HIDE DEF b, e
<1>7. c \in App
  BY <1>6 DEF App
<1> HIDE DEF c
<1>8. d \in App
  BY <1>7 DEF App
<1> HIDE DEF d
<1> QED BY <1>1, <1>2, <1>4, <1>5, <1>6, <1>8, SameLink

LEMMA LogsTakenLinks ==
    ASSUME NEW a, Linked(a)
    PROVE  Linked([a EXCEPT !.logs = FALSE])
<1> DEFINE b == [a EXCEPT !.logs = FALSE]
<1>1. a \in App
  BY DEF Linked
<1>2. b \in App
  BY <1>1 DEF App
<1>3. /\ b.list = a.list /\ b.line = a.line /\ b.waiting = a.waiting
      /\ b.errors = a.errors
  BY <1>1 DEF App
<1> HIDE DEF b
<1>4. Linked(b)
  BY <1>2, <1>3, SameLink
<1> QED BY <1>4 DEF b

-----------------------------------------------------------------------------
(* The parts of APP_periodic.                                              *)

LEMMA UptoBound ==
    ASSUME NEW max \in Nat, NEW n \in 0 .. max
    PROVE  Upto(n, max) \in 0 .. max
BY DEF Upto

LEMMA ElapseLinks ==
    ASSUME NEW a, Linked(a)
    PROVE  Linked(Elapse(a))
<1> DEFINE wait == IF a.waiting THEN 1 ELSE 0
           err == Upto(a.errTime, Recovery)
           fault == IF a.state = "FAULT" THEN 1 ELSE 0
           b == [a EXCEPT !.waitTime = wait]
           c == [b EXCEPT !.errTime = err]
           d == [c EXCEPT !.faultTime = fault]
<1>1. d = Elapse(a)
  BY DEF Elapse
<1>2. a \in App
  BY DEF Linked
<1>3. err \in 0 .. Recovery
  BY <1>2, AttentionAssumption, AppFields, UptoBound
<1>4. wait \in 0 .. 1 /\ fault \in 0 .. 1
  OBVIOUS
<1> HIDE DEF wait, err, fault
<1>5. /\ d.list = a.list /\ d.line = a.line /\ d.waiting = a.waiting
      /\ d.errors = a.errors
  BY <1>2 DEF App
<1>6. b \in App
  BY <1>2, <1>4 DEF App
<1> HIDE DEF b
<1>7. c \in App
  BY <1>3, <1>6 DEF App
<1> HIDE DEF c
<1>8. d \in App
  BY <1>4, <1>7 DEF App
<1> HIDE DEF d
<1> QED BY <1>1, <1>5, <1>8, SameLink

LEMMA TimeRetryLinks ==
    ASSUME NEW a, Linked(a)
    PROVE  Linked(TimeRetry(a))
<1> DEFINE b == IndicateError(a, "NO_RTC_TIME")
<1>1. b \in App /\ "NO_RTC_TIME" \in b.errors
  BY IndicateErrorType DEF Linked, Error
<1>2. Linked(IndicateNeedTime(b))
  BY <1>1, IndicateNeedTimeType
<1> QED BY <1>2 DEF TimeRetry

LEMMA DeactivatedCheckInLinks ==
    ASSUME NEW a, Linked(a)
    PROVE  Linked(DeactivatedCheckIn(a))
<1>1. [a EXCEPT !.synced = FALSE] \in App
  BY DEF Linked, App
<1> QED BY <1>1, IndicateCheckInLinks DEF DeactivatedCheckIn

LEMMA ActivationLinks ==
    ASSUME NEW a, Linked(a), NEW pumped \in BOOLEAN
    PROVE  Linked(Activation(a, pumped))
<1>1. [a EXCEPT !.liters = TRUE] \in App
  BY DEF Linked, App
<1> QED BY <1>1, IndicateActivationLinks DEF Activation

LEMMA DailyLogLinks ==
    ASSUME NEW a, Linked(a), NEW enough \in BOOLEAN, NEW sync \in BOOLEAN
    PROVE  Linked(DailyLog(a, enough, sync))
<1>1. [a EXCEPT !.logs = TRUE, !.synced = @ /\ ~sync] \in App
  BY DEF Linked, App
<1> QED BY <1>1, IndicateCheckInLinks DEF DailyLog

(* A wait runs only while a source is pending, so retrying keeps the link. *)
LEMMA AmCommTimeoutLinks ==
    ASSUME NEW a, Linked(a)
    PROVE  Linked(AmCommTimeout(a))
<1> DEFINE b == IndicateError(a, "AM_NOT_RESPONSIVE")
           c == [b EXCEPT !.line = FALSE]
<1> SUFFICES ASSUME a.waiting
             PROVE  Linked(WakeAm(c))
  BY DEF AmCommTimeout
<1>1. b \in App /\ b.list = a.list
  BY IndicateErrorType DEF Linked, Error
<1> HIDE DEF b
<1>2. c \in App /\ c.list = b.list
  BY <1>1 DEF App
<1>3. a.list # {}
  BY DEF Linked
<1> HIDE DEF c
<1> QED BY <1>1, <1>2, <1>3, WakeAmLinks

LEMMA EnterFaultLinks ==
    ASSUME NEW a, Linked(a), NEW pumped \in BOOLEAN
    PROVE  Linked(EnterFault(a, pumped))
<1> DEFINE b == [a EXCEPT !.state = "FAULT"]
           c == [b EXCEPT !.faultTime = 0]
           d == [c EXCEPT !.liters = @ \/ pumped]
<1>1. EnterFault(a, pumped)
        = IF Overdue(a) /\ a.state # "FAULT" THEN IndicateCheckIn(d) ELSE a
  BY DEF EnterFault
<1>2. b \in App
  BY DEF Linked, App, State
<1> HIDE DEF b
<1>3. c \in App
  BY <1>2 DEF App
<1> HIDE DEF c
<1>4. d \in App
  BY <1>3 DEF App
<1> HIDE DEF d
<1> QED BY <1>1, <1>4, IndicateCheckInLinks

-----------------------------------------------------------------------------
(* The inductive invariant.                                                *)
AttentionInv == TypeOK /\ Linked(app)

LEMMA AttentionInvInit == Init => AttentionInv
<1> SUFFICES ASSUME Init PROVE AttentionInv
  OBVIOUS
<1>1. PICK state \in State \ {"FAULT"}, valid \in BOOLEAN, logs \in BOOLEAN :
         app = AppInit([saved |-> state, logs |-> logs /\ state = "ACTIVATED"], valid)
  BY DEF Init
<1>2. app \in App
  BY <1>1, AttentionAssumption DEF AppInit, App, Error, State
<1>3. /\ app.list = {} /\ app.line = FALSE /\ app.waiting = FALSE
      /\ app.errors \subseteq {"NO_RTC_TIME"}
  BY <1>1 DEF AppInit
<1>4. Linked(app)
  BY <1>2, <1>3 DEF Linked
<1> QED BY <1>2, <1>4, AttentionAssumption DEF Init, AttentionInv, TypeOK

(* A reset counts; a power cycle empties the AM's memory.                  *)
LEMMA PowerCycleLinks ==
    ASSUME AttentionInv, NEW a \in App, PowerCycle(a)
    PROVE  Linked(app') /\ am' = "off" /\ events' = <<>>
BY AppInitLinks DEF PowerCycle

(* APP_periodic: each of its parts keeps the link, so whatever is due at   *)
(* once, and in whatever state, all of them together do.                   *)
LEMMA PartsLink ==
    ASSUME Linked(app), NEW elapsed \in BOOLEAN, NEW due, NEW pumped \in BOOLEAN,
           NEW enough \in BOOLEAN, NEW sync \in BOOLEAN
    PROVE  Linked(Parts(elapsed, due, pumped, enough, sync))
<1> DEFINE a0 == IF elapsed THEN Elapse(app) ELSE app
           a1 == IF "TIME" \in due THEN TimeRetry(a0) ELSE a0
           a2 == IF "CHECK_IN" \in due THEN DeactivatedCheckIn(a1) ELSE a1
           a3 == Activation(a2, pumped)
           a4 == IF "LOG" \in due THEN DailyLog(a3, enough, sync) ELSE a3
           a5 == AmCommTimeout(a4)
<1>1. Parts(elapsed, due, pumped, enough, sync) = a5
  BY DEF Parts
<1>2. Linked(a0)
  BY ElapseLinks
<1> HIDE DEF a0
<1>3. Linked(a1)
  BY <1>2, TimeRetryLinks
<1> HIDE DEF a1
<1>4. Linked(a2)
  BY <1>3, DeactivatedCheckInLinks
<1> HIDE DEF a2
<1>5. Linked(a3)
  BY <1>4, ActivationLinks
<1> HIDE DEF a3
<1>6. Linked(a4)
  BY <1>5, DailyLogLinks
<1> HIDE DEF a4
<1>7. Linked(a5)
  BY <1>6, AmCommTimeoutLinks
<1> QED BY <1>1, <1>7

LEMMA PeriodicKeeps ==
    ASSUME AttentionInv, NEW elapsed \in BOOLEAN, NEW due \in SUBSET Duty,
           PeriodicCall(elapsed, due)
    PROVE  AttentionInv'
<1>1. PICK pumped \in BOOLEAN, enough \in BOOLEAN, sync \in BOOLEAN :
         /\ sinceDuty' = IF due # {} THEN 0
                         ELSE IF elapsed THEN Upto(sinceDuty, DutyGap) ELSE sinceDuty
         /\ IF PowerCycles(Parts(elapsed, due, pumped, enough, sync))
            THEN PowerCycle(Parts(elapsed, due, pumped, enough, sync))
            ELSE /\ app' = EnterFault(Parts(elapsed, due, pumped, enough, sync), pumped)
                 /\ UNCHANGED <<am, events>>
         /\ broken' = IF ~IsBroken(app') THEN 0
                      ELSE IF elapsed /\ IsBroken(app) THEN Upto(broken, Recovery)
                      ELSE broken
         /\ UNCHANGED faults
  BY DEF PeriodicCall
<1> DEFINE a == Parts(elapsed, due, pumped, enough, sync)
<1>2. <<>> \in Seq(Source)
  OBVIOUS
<1>3. Linked(a)
  BY PartsLink DEF AttentionInv
<1>4. IF PowerCycles(a) THEN PowerCycle(a)
      ELSE app' = EnterFault(a, pumped) /\ UNCHANGED <<am, events>>
  BY <1>1
<1> HIDE DEF a
<1>5. Linked(app') /\ ((am' = "off" /\ events' = <<>>) \/ UNCHANGED <<am, events>>)
  <2>1. CASE PowerCycles(a)
    <3>1. a \in App /\ PowerCycle(a)
      BY <1>3, <1>4, <2>1 DEF Linked
    <3> QED BY <3>1, PowerCycleLinks
  <2>2. CASE ~PowerCycles(a)
    BY <1>3, <1>4, <2>2, EnterFaultLinks
  <2> QED BY <2>1, <2>2
<1>6. sinceDuty' \in 0 .. DutyGap
  <2>1. sinceDuty \in 0 .. DutyGap /\ DutyGap \in Nat
    BY AttentionAssumption DEF AttentionInv, TypeOK
  <2> QED BY <1>1, <2>1, UptoBound
<1>7. broken' \in 0 .. Recovery
  <2>1. broken \in 0 .. Recovery /\ Recovery \in Nat
    BY AttentionAssumption DEF AttentionInv, TypeOK
  <2> QED BY <1>1, <2>1, UptoBound
<1>8. app' \in App
  BY <1>5 DEF Linked
<1>9. events' \in Seq(Source) /\ am' \in {"off", "idle", "ack", "hung"}
  BY <1>2, <1>5 DEF AttentionInv, TypeOK
<1>10. faults' \in 0 .. NumFaults
  BY <1>1 DEF AttentionInv, TypeOK
<1> QED
  BY <1>5, <1>6, <1>7, <1>8, <1>9, <1>10 DEF AttentionInv, TypeOK

-----------------------------------------------------------------------------
(* The other actions.                                                      *)

LEMMA FaultCounts ==
    ASSUME AttentionInv, Fault
    PROVE  faults' \in 0 .. NumFaults
BY AttentionAssumption DEF AttentionInv, TypeOK, Fault

(* A step that changes the state of APP.c to a linked one, and the rest    *)
(* within its types, keeps the invariant.                                  *)
LEMMA KeptByParts ==
    ASSUME Linked(app)', sinceDuty' \in 0 .. DutyGap, broken' \in 0 .. Recovery,
           am' \in {"off", "idle", "ack", "hung"}, events' \in Seq(Source),
           faults' \in 0 .. NumFaults
    PROVE  AttentionInv'
BY DEF AttentionInv, TypeOK, Linked

LEMMA EventOfType ==
    ASSUME NEW source \in Source
    PROVE  EventOf(source) \in Seq(Source)
BY DEF EventOf

LEMMA AttentionInvStep == AttentionInv /\ [Next]_vars => AttentionInv'
<1> SUFFICES ASSUME AttentionInv, [Next]_vars PROVE AttentionInv'
  OBVIOUS
<1>0. /\ Linked(app) /\ app \in App
      /\ sinceDuty \in 0 .. DutyGap /\ broken \in 0 .. Recovery
      /\ 0 \in 0 .. Recovery
      /\ am \in {"off", "idle", "ack", "hung"} /\ events \in Seq(Source)
      /\ faults \in 0 .. NumFaults
  BY AttentionAssumption DEF AttentionInv, TypeOK
<1>1. CASE Periodic
  BY <1>1, PeriodicKeeps DEF Periodic
<1>2. CASE SensorError
  <2>1. "CAP_SENSE" \in Error
    BY DEF Error
  <2>2. Linked(app')
    <3> DEFINE a == IndicateError(app, "CAP_SENSE")
    <3>1. /\ a \in App /\ a.list = app.list /\ a.line = app.line
          /\ a.waiting = app.waiting /\ a.errors = app.errors \cup {"CAP_SENSE"}
      BY <1>0, <2>1, IndicateErrorType
    <3>2. app' = a
      BY <1>2 DEF SensorError
    <3> HIDE DEF a
    <3> QED BY <1>0, <3>1, <3>2 DEF Linked
  <2> QED BY <1>0, <1>2, <2>2, FaultCounts, KeptByParts DEF SensorError
<1>3. CASE SensorRecovers
  <2> DEFINE a == [app EXCEPT !.errors = @ \ {"CAP_SENSE"}]
  <2>1. a \in App
    BY <1>0 DEF App
  <2>2. /\ a.list = app.list /\ a.line = app.line /\ a.waiting = app.waiting
        /\ a.errors \subseteq app.errors
    BY <1>0 DEF App
  <2>3. app' = a
    BY <1>3 DEF SensorRecovers
  <2> HIDE DEF a
  <2>4. Linked(app')
    BY <1>0, <2>1, <2>2, <2>3, SameLink
  <2>5. broken' \in 0 .. Recovery
    BY <1>0, <1>3 DEF SensorRecovers
  <2> QED BY <1>0, <1>3, <2>4, <2>5, KeptByParts DEF SensorRecovers
<1>4. CASE SsmReset
  <2>1. Linked(app')
    BY <1>0, <1>4, AppInitLinks DEF SsmReset
  <2> QED BY <1>0, <1>4, <2>1, FaultCounts, KeptByParts DEF SsmReset
<1>5. CASE Wake
  BY <1>0, <1>5, KeptByParts DEF Wake
<1>6. CASE GetAttnList
  <2>1. Source = {"ACTIVATE", "REQUEST_TIME", "CHECK_IN_DEACTIVATED", "CHECK_IN_ACTIVATED"}
    BY DEF Source
  <2>2. events' \in Seq(Source)
    <3> DEFINE e1 == EventOf("ACTIVATE")
               e2 == EventOf("REQUEST_TIME")
               e3 == EventOf("CHECK_IN_DEACTIVATED")
               e4 == EventOf("CHECK_IN_ACTIVATED")
    <3>1. e1 \in Seq(Source) /\ e2 \in Seq(Source) /\ e3 \in Seq(Source) /\ e4 \in Seq(Source)
      BY <2>1, EventOfType
    <3>2. events' = events \o e1 \o e2 \o e3 \o e4
      BY <1>6 DEF GetAttnList
    <3> HIDE DEF e1, e2, e3, e4
    <3> QED BY <1>0, <3>1, <3>2
  <2> QED BY <1>0, <1>6, <2>2, KeptByParts DEF GetAttnList
<1>7. SsmAcked => Linked(app') /\ broken' \in 0 .. Recovery
  BY <1>0, HandleAttnSourceAckLinks DEF SsmAcked
<1>8. CASE Ack
  BY <1>0, <1>7, <1>8, KeptByParts DEF Ack
<1>9. CASE AckAnswerLost
  BY <1>0, <1>7, <1>9, FaultCounts, KeptByParts DEF AckAnswerLost
<1>10. CASE AckLost
  BY <1>0, <1>10, FaultCounts, KeptByParts DEF AckLost
<1>11. ASSUME NEW event, NEW a, Linked(a), Handle(event, a), faults' \in 0 .. NumFaults
       PROVE  AttentionInv'
  <2>1. events' \in Seq(Source)
    BY <1>0, <1>11 DEF Handle
  <2> QED BY <1>0, <1>11, <2>1, KeptByParts DEF Handle
<1>12. CASE Handles
  <2>1. CASE ActivateEvent
    BY <1>0, <1>11, <2>1, ActivateLinks DEF ActivateEvent
  <2>2. CASE TimeEvent
    BY <1>0, <1>11, <2>2, SetTimeLinks, FaultCounts DEF TimeEvent
  <2>3. CASE CheckInActivatedEvent
    BY <1>0, <1>11, <2>3, LogsTakenLinks DEF CheckInActivatedEvent
  <2>4. CASE CheckInDeactivatedEvent
    BY <1>0, <1>11, <2>4 DEF CheckInDeactivatedEvent
  <2> QED BY <1>12, <2>1, <2>2, <2>3, <2>4 DEF Handles
<1>13. CASE CommandLost
  BY <1>0, <1>11, <1>13, FaultCounts DEF CommandLost
<1>14. CASE Deactivate
  <2>1. Linked(app')
    BY <1>0, <1>14, DeactivateLinks DEF Deactivate
  <2> QED BY <1>0, <1>14, <2>1, FaultCounts, KeptByParts DEF Deactivate
<1>15. CASE HwReset
  <2>1. Linked(app') /\ am' = "off" /\ events' = <<>>
    BY <1>0, <1>15, PowerCycleLinks DEF HwReset
  <2>2. events' \in Seq(Source)
    BY <2>1
  <2> QED BY <1>0, <1>15, <2>1, <2>2, FaultCounts, KeptByParts DEF HwReset
<1>16. CASE Sleep
  BY <1>0, <1>16, KeptByParts DEF Sleep
<1>17. CASE Cut
  <2>1. <<>> \in Seq(Source)
    OBVIOUS
  <2> QED BY <1>0, <1>17, <2>1, FaultCounts, KeptByParts DEF Cut
<1>18. CASE Hang
  <2>1. <<>> \in Seq(Source)
    OBVIOUS
  <2> QED BY <1>0, <1>18, <2>1, FaultCounts, KeptByParts DEF Hang
<1>19. CASE UNCHANGED vars
  BY <1>0, <1>19, KeptByParts DEF vars
<1> QED
  BY <1>1, <1>2, <1>3, <1>4, <1>5, <1>6, <1>8, <1>9, <1>10, <1>12, <1>13, <1>14,
     <1>15, <1>16, <1>17, <1>18, <1>19 DEF Next, Answers

-----------------------------------------------------------------------------
(* Every variable keeps its type.                                          *)
THEOREM TypeCorrect == Spec => []TypeOK
<1>1. Init => AttentionInv
  BY AttentionInvInit
<1>2. AttentionInv /\ [Next]_vars => AttentionInv'
  BY AttentionInvStep
<1>3. AttentionInv => TypeOK
  BY DEF AttentionInv
<1> QED BY <1>1, <1>2, <1>3, PTL DEF Spec

(* The wake line is set, and an answer waited for, exactly as long as a    *)
(* source is pending: none is forgotten, and none wakes the AM for ever.   *)
THEOREM SourcesKeepWaking == Spec => []PendingKeepsWaking
<1>1. Init => AttentionInv
  BY AttentionInvInit
<1>2. AttentionInv /\ [Next]_vars => AttentionInv'
  BY AttentionInvStep
<1>3. AttentionInv => PendingKeepsWaking
  BY DEF AttentionInv, Linked, PendingKeepsWaking
<1> QED BY <1>1, <1>2, <1>3, PTL DEF Spec

(* AM_NOT_RESPONSIVE, the way to a power cycle, stands only while an       *)
(* answer of the AM is due.                                                *)
THEOREM ErrorEndsWithWait == Spec => []AmErrorMeansWaiting
<1>1. Init => AttentionInv
  BY AttentionInvInit
<1>2. AttentionInv /\ [Next]_vars => AttentionInv'
  BY AttentionInvStep
<1>3. AttentionInv => AmErrorMeansWaiting
  BY DEF AttentionInv, Linked, AmErrorMeansWaiting
<1> QED BY <1>1, <1>2, <1>3, PTL DEF Spec

-----------------------------------------------------------------------------
(* How long the critical errors last.                                      *)

(* What the code knows of it, xErrorStartTimeSeconds, is never longer than *)
(* it has really been.                                                     *)
ErrorClock(a, time) == IsBroken(a) => a.errTime <= time

(* A function of APP.c that leaves the state and the errors' clock alone.  *)
(* It may add an error: the first critical one starts the clock at zero.   *)
KeepsClock(a, b) ==
    /\ b \in App
    /\ b.state = a.state
    /\ IsBroken(a) => IsBroken(b) /\ b.errTime = a.errTime
    /\ ~IsBroken(a) /\ IsBroken(b) => b.errTime = 0

(* One function after another.                                             *)
LEMMA KeepsClockTransitive ==
    ASSUME NEW a, NEW b, NEW c, KeepsClock(a, b), KeepsClock(b, c)
    PROVE  KeepsClock(a, c)
BY DEF KeepsClock

(* Same errors, same clock.                                                *)
LEMMA SameErrors ==
    ASSUME NEW a, NEW b \in App,
           b.state = a.state, b.errors = a.errors, b.errTime = a.errTime
    PROVE  KeepsClock(a, b)
BY DEF KeepsClock, IsBroken

(* The functions of APP.c, one by one.                                     *)
LEMMA WakeAmClock ==
    ASSUME NEW a \in App, a.list # {}
    PROVE  KeepsClock(a, WakeAm(a))
<1>1. WakeAm(a) \in App
  BY WakeAmLinks DEF Linked
<1>2. /\ WakeAm(a).state = a.state /\ WakeAm(a).errors = a.errors
      /\ WakeAm(a).errTime = a.errTime
  BY DEF WakeAm, App
<1> QED BY <1>1, <1>2, SameErrors

LEMMA IndicateErrorClock ==
    ASSUME NEW a \in App, NEW e \in Error
    PROVE  KeepsClock(a, IndicateError(a, e))
<1> DEFINE b == IndicateError(a, e)
<1>1. b \in App /\ b.errors = a.errors \cup {e}
  BY IndicateErrorType
<1>2. /\ b.state = a.state
      /\ b.errTime = IF e \in Critical /\ ~IsBroken(a) THEN 0 ELSE a.errTime
  BY DEF IndicateError, App
<1> HIDE DEF b
<1>3. IsBroken(b) <=> IsBroken(a) \/ e \in Critical
  BY <1>1 DEF IsBroken
<1> QED BY <1>1, <1>2, <1>3 DEF KeepsClock, b

LEMMA IndicateActivationClock ==
    ASSUME NEW a \in App
    PROVE  KeepsClock(a, IndicateActivation(a))
<1> DEFINE b == [a EXCEPT !.list = @ \cup {"ACTIVATE"}]
<1>1. b \in App /\ b.list # {}
  BY DEF App, Source
<1>2. b.state = a.state /\ b.errors = a.errors /\ b.errTime = a.errTime
  BY DEF App
<1>3. IndicateActivation(a) = WakeAm(b)
  BY DEF IndicateActivation
<1> HIDE DEF b
<1> QED BY <1>1, <1>2, <1>3, SameErrors, WakeAmClock, KeepsClockTransitive

LEMMA IndicateNeedTimeClock ==
    ASSUME NEW a \in App
    PROVE  KeepsClock(a, IndicateNeedTime(a))
<1> DEFINE asked == [a EXCEPT !.list = @ \cup {"REQUEST_TIME"}]
           both == [asked EXCEPT !.list = @ \cup {"CHECK_IN_DEACTIVATED"}]
<1>1. /\ asked \in App /\ asked.state = a.state /\ asked.errors = a.errors
      /\ asked.errTime = a.errTime
  BY DEF App, Source
<1>2. /\ both \in App /\ both.list # {} /\ both.state = a.state
      /\ both.errors = a.errors /\ both.errTime = a.errTime
  BY <1>1 DEF App, Source
<1>3. IndicateNeedTime(a)
        = IF "NO_RTC_TIME" \in a.errors THEN WakeAm(both) ELSE asked
  BY DEF IndicateNeedTime
<1> HIDE DEF asked, both
<1>4. KeepsClock(a, asked) /\ KeepsClock(a, both)
  BY <1>1, <1>2, SameErrors
<1>5. KeepsClock(a, WakeAm(both))
  BY <1>2, <1>4, WakeAmClock, KeepsClockTransitive
<1> QED BY <1>3, <1>4, <1>5

LEMMA IndicateCheckInClock ==
    ASSUME NEW a \in App
    PROVE  KeepsClock(a, IndicateCheckIn(a))
<1> DEFINE source == IF a.state = "ACTIVATED" THEN "CHECK_IN_ACTIVATED"
                                              ELSE "CHECK_IN_DEACTIVATED"
           raised == [a EXCEPT !.list = @ \cup {source}]
           asked == IndicateNeedTime(raised)
<1>1. /\ raised \in App /\ raised.list # {} /\ raised.state = a.state
      /\ raised.errors = a.errors /\ raised.errTime = a.errTime
  BY DEF App, Source
<1>2. IndicateCheckIn(a) = WakeAm(IF a.synced THEN raised ELSE asked)
  BY DEF IndicateCheckIn
<1> HIDE DEF source, raised
<1>3. asked \in App /\ asked.list # {} /\ KeepsClock(raised, asked)
  BY <1>1, IndicateNeedTimeType, IndicateNeedTimeClock
<1> HIDE DEF asked
<1>4. KeepsClock(a, raised) /\ KeepsClock(a, asked)
  BY <1>1, <1>3, SameErrors, KeepsClockTransitive
<1>5. KeepsClock(a, WakeAm(raised)) /\ KeepsClock(a, WakeAm(asked))
  BY <1>1, <1>3, <1>4, WakeAmClock, KeepsClockTransitive
<1> QED BY <1>2, <1>5

LEMMA TimeRetryClock ==
    ASSUME NEW a \in App
    PROVE  KeepsClock(a, TimeRetry(a))
<1> DEFINE b == IndicateError(a, "NO_RTC_TIME")
<1>1. "NO_RTC_TIME" \in Error
  BY DEF Error
<1>2. b \in App /\ KeepsClock(a, b)
  BY <1>1, IndicateErrorType, IndicateErrorClock
<1>3. KeepsClock(a, a)
  BY SameErrors
<1>4. TimeRetry(a) = IF a.valid THEN a ELSE IndicateNeedTime(b)
  BY DEF TimeRetry
<1> HIDE DEF b
<1> QED BY <1>2, <1>3, <1>4, IndicateNeedTimeClock, KeepsClockTransitive

LEMMA DeactivatedCheckInClock ==
    ASSUME NEW a \in App
    PROVE  KeepsClock(a, DeactivatedCheckIn(a))
<1> DEFINE b == [a EXCEPT !.synced = FALSE]
<1>1. b \in App /\ b.state = a.state /\ b.errors = a.errors /\ b.errTime = a.errTime
  BY DEF App
<1>2. DeactivatedCheckIn(a) = IF a.state = "DEACTIVATED" THEN IndicateCheckIn(b) ELSE a
  BY DEF DeactivatedCheckIn
<1> HIDE DEF b
<1> QED BY <1>1, <1>2, SameErrors, IndicateCheckInClock, KeepsClockTransitive

LEMMA ActivationClock ==
    ASSUME NEW a \in App, NEW pumped \in BOOLEAN
    PROVE  KeepsClock(a, Activation(a, pumped))
<1> DEFINE b == [a EXCEPT !.liters = TRUE]
<1>1. b \in App /\ b.state = a.state /\ b.errors = a.errors /\ b.errTime = a.errTime
  BY DEF App
<1>2. Activation(a, pumped) = IndicateActivation(b) \/ Activation(a, pumped) = a
  BY DEF Activation
<1> HIDE DEF b
<1> QED BY <1>1, <1>2, SameErrors, IndicateActivationClock, KeepsClockTransitive

LEMMA DailyLogClock ==
    ASSUME NEW a \in App, NEW enough \in BOOLEAN, NEW sync \in BOOLEAN
    PROVE  KeepsClock(a, DailyLog(a, enough, sync))
<1> DEFINE b == [a EXCEPT !.logs = TRUE, !.synced = @ /\ ~sync]
<1>1. b \in App /\ b.state = a.state /\ b.errors = a.errors /\ b.errTime = a.errTime
  BY DEF App
<1>2. DailyLog(a, enough, sync) = IndicateCheckIn(b) \/ DailyLog(a, enough, sync) = a
  BY DEF DailyLog
<1> HIDE DEF b
<1> QED BY <1>1, <1>2, SameErrors, IndicateCheckInClock, KeepsClockTransitive

LEMMA AmCommTimeoutClock ==
    ASSUME NEW a, Linked(a)
    PROVE  KeepsClock(a, AmCommTimeout(a))
<1> DEFINE b == IndicateError(a, "AM_NOT_RESPONSIVE")
           c == [b EXCEPT !.line = FALSE]
<1>1. a \in App /\ "AM_NOT_RESPONSIVE" \in Error
  BY DEF Linked, Error
<1>2. b \in App /\ b.list = a.list /\ KeepsClock(a, b)
  BY <1>1, IndicateErrorType, IndicateErrorClock
<1>3. AmCommTimeout(a) = IF a.waiting /\ a.waitTime = 1 THEN WakeAm(c) ELSE a
  BY DEF AmCommTimeout
<1> HIDE DEF b
<1>4. /\ c \in App /\ c.list = b.list /\ c.state = b.state /\ c.errors = b.errors
      /\ c.errTime = b.errTime
  BY <1>2 DEF App
<1> HIDE DEF c
<1>5. KeepsClock(a, a) /\ KeepsClock(a, c)
  BY <1>1, <1>2, <1>4, SameErrors, KeepsClockTransitive
<1>6. a.waiting => a.list # {}
  BY DEF Linked
<1> QED BY <1>2, <1>3, <1>4, <1>5, <1>6, WakeAmClock, KeepsClockTransitive

(* What comes before the test for FAULT: five minutes at most are added to *)
(* the clock, and only of an error that was there before.                  *)
LEMMA PartsClock ==
    ASSUME Linked(app), NEW elapsed \in BOOLEAN, NEW due, NEW pumped \in BOOLEAN,
           NEW enough \in BOOLEAN, NEW sync \in BOOLEAN
    PROVE  KeepsClock(IF elapsed THEN Elapse(app) ELSE app,
                      Parts(elapsed, due, pumped, enough, sync))
<1> DEFINE a0 == IF elapsed THEN Elapse(app) ELSE app
           a1 == IF "TIME" \in due THEN TimeRetry(a0) ELSE a0
           a2 == IF "CHECK_IN" \in due THEN DeactivatedCheckIn(a1) ELSE a1
           a3 == Activation(a2, pumped)
           a4 == IF "LOG" \in due THEN DailyLog(a3, enough, sync) ELSE a3
           a5 == AmCommTimeout(a4)
<1>1. Parts(elapsed, due, pumped, enough, sync) = a5
  BY DEF Parts
<1>2. Linked(a0)
  BY ElapseLinks
<1> SUFFICES KeepsClock(a0, a5)
  BY <1>1
<1> HIDE DEF a0
<1>3. Linked(a1) /\ KeepsClock(a0, a1)
  BY <1>2, TimeRetryLinks, TimeRetryClock, SameErrors DEF Linked
<1> HIDE DEF a1
<1>4. Linked(a2) /\ KeepsClock(a1, a2)
  BY <1>3, DeactivatedCheckInLinks, DeactivatedCheckInClock, SameErrors DEF Linked
<1> HIDE DEF a2
<1>5. Linked(a3) /\ KeepsClock(a2, a3)
  BY <1>4, ActivationLinks, ActivationClock DEF Linked
<1> HIDE DEF a3
<1>6. Linked(a4) /\ KeepsClock(a3, a4)
  BY <1>5, DailyLogLinks, DailyLogClock, SameErrors DEF Linked
<1> HIDE DEF a4
<1>7. KeepsClock(a4, a5)
  BY <1>6, AmCommTimeoutClock
<1> HIDE DEF a5
<1> QED BY <1>3, <1>4, <1>5, <1>6, <1>7, KeepsClockTransitive

(* Of the errors, the state and the clock after Elapse.                    *)
LEMMA ElapseClock ==
    ASSUME NEW a \in App
    PROVE  /\ Elapse(a).errors = a.errors /\ Elapse(a).state = a.state
           /\ Elapse(a).errTime = Upto(a.errTime, Recovery)
BY DEF Elapse, App

(* EnterFault raises a check-in and changes the state.                     *)
LEMMA EnterFaultClock ==
    ASSUME NEW a \in App, NEW pumped \in BOOLEAN
    PROVE  /\ IsBroken(a) => IsBroken(EnterFault(a, pumped))
           /\ IsBroken(EnterFault(a, pumped)) => IsBroken(a)
           /\ IsBroken(a) => EnterFault(a, pumped).errTime = a.errTime
           /\ a.state = "FAULT" => EnterFault(a, pumped).state = "FAULT"
<1> DEFINE b == [a EXCEPT !.state = "FAULT"]
           c == [b EXCEPT !.faultTime = 0]
           d == [c EXCEPT !.liters = @ \/ pumped]
<1>1. EnterFault(a, pumped)
        = IF Overdue(a) /\ a.state # "FAULT" THEN IndicateCheckIn(d) ELSE a
  BY DEF EnterFault
<1>2. b \in App /\ b.errors = a.errors /\ b.errTime = a.errTime
  BY DEF App, State
<1> HIDE DEF b
<1>3. c \in App /\ c.errors = b.errors /\ c.errTime = b.errTime
  BY <1>2 DEF App
<1> HIDE DEF c
<1>4. d \in App /\ d.errors = c.errors /\ d.errTime = c.errTime
  BY <1>3 DEF App
<1> HIDE DEF d
<1>5. KeepsClock(d, IndicateCheckIn(d))
  BY <1>4, IndicateCheckInClock
<1>6. IsBroken(d) <=> IsBroken(a)
  BY <1>2, <1>3, <1>4 DEF IsBroken
<1>7. Overdue(a) => IsBroken(a)
  BY DEF Overdue
<1> QED BY <1>1, <1>2, <1>3, <1>4, <1>5, <1>6, <1>7 DEF KeepsClock

(* What a call of APP_periodic does to the clock, and when it may power    *)
(* cycle the system.                                                       *)
LEMMA PeriodicClock ==
    ASSUME AttentionInv, ErrorClock(app, broken), NEW elapsed \in BOOLEAN,
           NEW due \in SUBSET Duty, PeriodicCall(elapsed, due)
    PROVE  /\ ErrorClock(app', broken')
           /\ app.state = "FAULT" /\ app'.state # "FAULT" => broken + 1 >= Recovery
<1>1. PICK pumped \in BOOLEAN, enough \in BOOLEAN, sync \in BOOLEAN :
         /\ IF PowerCycles(Parts(elapsed, due, pumped, enough, sync))
            THEN PowerCycle(Parts(elapsed, due, pumped, enough, sync))
            ELSE /\ app' = EnterFault(Parts(elapsed, due, pumped, enough, sync), pumped)
                 /\ UNCHANGED <<am, events>>
         /\ broken' = IF ~IsBroken(app') THEN 0
                      ELSE IF elapsed /\ IsBroken(app) THEN Upto(broken, Recovery)
                      ELSE broken
  BY DEF PeriodicCall
<1> DEFINE a0 == IF elapsed THEN Elapse(app) ELSE app
           a == Parts(elapsed, due, pumped, enough, sync)
<1>2. Linked(a) /\ KeepsClock(a0, a)
  BY PartsLink, PartsClock DEF AttentionInv
<1>3. /\ app \in App /\ app.errTime \in 0 .. Recovery /\ broken \in 0 .. Recovery
      /\ Recovery \in Nat \ {0}
  BY AttentionAssumption, AppFields DEF AttentionInv, TypeOK
<1>4. /\ a0.errors = app.errors /\ a0.state = app.state
      /\ a0.errTime = IF elapsed THEN Upto(app.errTime, Recovery) ELSE app.errTime
  BY <1>3, ElapseClock
<1>5. IF PowerCycles(a) THEN PowerCycle(a)
      ELSE app' = EnterFault(a, pumped)
  BY <1>1
<1>6. a \in App
  BY <1>2 DEF Linked
<1>7. IsBroken(a0) <=> IsBroken(app)
  BY <1>4 DEF IsBroken
<1> HIDE DEF a0, a
<1>8. /\ a.state = app.state
      /\ IsBroken(app) => IsBroken(a) /\ a.errTime = a0.errTime
      /\ ~IsBroken(app) /\ IsBroken(a) => a.errTime = 0
  BY <1>2, <1>4, <1>7 DEF KeepsClock
\* now: how long the errors have lasted, with the time this call takes.
<1> DEFINE now == IF elapsed /\ IsBroken(app) THEN Upto(broken, Recovery) ELSE broken
<1>9. IsBroken(a) => a.errTime <= now
  <2>1. CASE IsBroken(app)
    <3>1. app.errTime <= broken
      BY <2>1 DEF ErrorClock
    <3>2. Upto(app.errTime, Recovery) <= Upto(broken, Recovery)
      BY <1>3, <3>1 DEF Upto
    <3>3. a.errTime = IF elapsed THEN Upto(app.errTime, Recovery) ELSE app.errTime
      BY <1>4, <1>8, <2>1
    <3> QED BY <2>1, <3>1, <3>2, <3>3
  <2>2. CASE ~IsBroken(app)
    BY <1>3, <1>8, <2>2
  <2> QED BY <2>1, <2>2
<1>10. now <= broken + 1
  BY <1>3 DEF Upto
<1>11. broken' = IF IsBroken(app') THEN now ELSE 0
  BY <1>1
<1> HIDE DEF now
<1>12. CASE PowerCycles(a)
  <2>1. PICK valid \in BOOLEAN : app' = AppInit(a, valid)
    BY <1>5, <1>12 DEF PowerCycle
  <2>2. ~IsBroken(app')
    BY <2>1 DEF AppInit, IsBroken, Critical
  <2>3. IsBroken(a) /\ a.errTime = Recovery
    BY <1>12 DEF PowerCycles, Overdue
  <2>4. Recovery <= now /\ now <= broken + 1
    BY <1>9, <1>10, <2>3
  <2>5. now \in Nat
    BY <1>3, UptoBound DEF now
  <2>6. broken + 1 >= Recovery
    BY <1>3, <2>4, <2>5
  <2> QED BY <2>2, <2>6 DEF ErrorClock
<1>13. CASE ~PowerCycles(a)
  <2>1. app' = EnterFault(a, pumped)
    BY <1>5, <1>13
  <2>2. /\ IsBroken(app') => IsBroken(a) /\ app'.errTime = a.errTime
        /\ app.state = "FAULT" => app'.state = "FAULT"
    BY <1>6, <1>8, <2>1, EnterFaultClock
  <2>3. ErrorClock(app', broken')
    BY <1>9, <1>11, <2>2 DEF ErrorClock
  <2> QED BY <2>2, <2>3
<1> QED BY <1>12, <1>13

(* Errors may go; the clock of those that stay runs on.                    *)
LEMMA FewerErrors ==
    ASSUME NEW a, NEW b, NEW time, ErrorClock(a, time),
           b.errors \subseteq a.errors, b.errTime = a.errTime
    PROVE  ErrorClock(b, time)
BY DEF ErrorClock, IsBroken

(* A power cycle that no failure or command of the cloud explains.         *)
PoweredOff ==
    app.state = "FAULT" /\ app'.state # "FAULT" /\ am' = "off" /\ faults' = faults

(* The functions the AM's messages call neither start a clock nor add an   *)
(* error.                                                                  *)
LEMMA HandlersClock ==
    ASSUME NEW a \in App, NEW time, ErrorClock(a, time)
    PROVE  /\ ErrorClock(HandleActivateCmd(a), time)
           /\ ErrorClock(HandleDeactivateCmd(a), time)
           /\ ErrorClock(SetTimeUpdated(a), time)
           /\ ErrorClock(SetTimeFailed(a), time)
           /\ ErrorClock([a EXCEPT !.logs = FALSE], time)
           /\ ErrorClock(HandleAttnSourceAck(a), time)
<1>1. /\ HandleActivateCmd(a).errors = a.errors
      /\ HandleActivateCmd(a).errTime = a.errTime
  BY DEF HandleActivateCmd, App
<1>2. /\ HandleDeactivateCmd(a).errors = a.errors
      /\ HandleDeactivateCmd(a).errTime = a.errTime
  BY DEF HandleDeactivateCmd, App
<1>3. /\ SetTimeUpdated(a).errors \subseteq a.errors
      /\ SetTimeUpdated(a).errTime = a.errTime
  BY DEF SetTimeUpdated, App
<1>4. /\ SetTimeFailed(a).errors = a.errors
      /\ SetTimeFailed(a).errTime = a.errTime
  BY DEF SetTimeFailed, App
<1>5. /\ [a EXCEPT !.logs = FALSE].errors = a.errors
      /\ [a EXCEPT !.logs = FALSE].errTime = a.errTime
  BY DEF App
<1>6. /\ HandleAttnSourceAck(a).errors \subseteq a.errors
      /\ HandleAttnSourceAck(a).errTime = a.errTime
  BY DEF HandleAttnSourceAck, App
<1> QED BY <1>1, <1>2, <1>3, <1>4, <1>5, <1>6, FewerErrors

(* After a reset there is no critical error.                               *)
LEMMA AppInitClock ==
    ASSUME NEW a, NEW valid, NEW time
    PROVE  ErrorClock(AppInit(a, valid), time)
BY DEF ErrorClock, AppInit, IsBroken, Critical

(* Every step keeps the clock, and only the power cycle of APP_periodic    *)
(* ends FAULT with the AM turned off and no failure.                       *)
LEMMA ClockStep ==
    ASSUME AttentionInv, ErrorClock(app, broken), [Next]_vars
    PROVE  /\ ErrorClock(app', broken')
           /\ PoweredOff => broken + 1 >= Recovery
<1>0. app \in App /\ broken \in Nat
  BY AttentionAssumption DEF AttentionInv, TypeOK
<1>20. faults \in Nat
  BY AttentionAssumption DEF AttentionInv, TypeOK
<1>1. CASE Periodic
  BY <1>1, PeriodicClock DEF Periodic, PoweredOff
<1>2. Fault => ~PoweredOff
  BY <1>20 DEF Fault, PoweredOff
<1>3. CASE SensorError
  <2>1. "CAP_SENSE" \in Error
    BY DEF Error
  <2>2. KeepsClock(app, app')
    BY <1>0, <1>3, <2>1, IndicateErrorClock DEF SensorError
  <2>3. broken' = broken /\ Fault
    BY <1>3 DEF SensorError
  <2>4. ErrorClock(app', broken')
    BY <1>0, <2>2, <2>3 DEF ErrorClock, KeepsClock
  <2> QED BY <1>2, <2>3, <2>4
<1>4. CASE SensorRecovers
  <2>1. /\ app'.errors \subseteq app.errors /\ app'.errTime = app.errTime
        /\ app'.state = app.state
        /\ broken' = IF IsBroken(app') THEN broken ELSE 0
    BY <1>0, <1>4 DEF SensorRecovers, App
  <2>2. ErrorClock(app', broken)
    BY <2>1, FewerErrors
  <2> QED BY <2>1, <2>2 DEF ErrorClock, PoweredOff
<1>5. CASE SsmReset \/ HwReset
  <2>1. PICK a, valid : app' = AppInit(a, valid)
    BY <1>5 DEF SsmReset, HwReset, PowerCycle
  <2>2. Fault
    BY <1>5 DEF SsmReset, HwReset
  <2> QED BY <1>2, <2>1, <2>2, AppInitClock
<1>6. CASE Ack \/ AckAnswerLost
  <2>1. app' = HandleAttnSourceAck(app) /\ broken' = IF IsBroken(app') THEN broken ELSE 0
    BY <1>6 DEF Ack, AckAnswerLost, SsmAcked
  <2>2. ErrorClock(app', broken)
    BY <1>0, <2>1, HandlersClock
  <2>3. ErrorClock(app', broken')
    BY <2>1, <2>2 DEF ErrorClock
  <2>4. am' # "off"
    BY <1>6 DEF Ack, AckAnswerLost
  <2> QED BY <2>3, <2>4 DEF PoweredOff
<1>7. ASSUME NEW event, NEW a, Handle(event, a), ErrorClock(a, broken)
      PROVE  ErrorClock(app', broken') /\ ~PoweredOff
  BY <1>7 DEF Handle, PoweredOff
<1>8. CASE Handles
  BY <1>0, <1>7, <1>8, HandlersClock
     DEF Handles, ActivateEvent, TimeEvent, CheckInActivatedEvent, CheckInDeactivatedEvent
<1>9. CASE CommandLost
  BY <1>7, <1>9 DEF CommandLost
<1>10. CASE Deactivate
  <2>1. Fault /\ app' = HandleDeactivateCmd(app) /\ broken' = broken
    BY <1>10 DEF Deactivate
  <2> QED BY <1>0, <1>2, <2>1, HandlersClock
<1>11. CASE Wake \/ GetAttnList \/ AckLost \/ Sleep \/ Cut \/ Hang \/ UNCHANGED vars
  <2>1. app' = app /\ broken' = broken
    BY <1>11 DEF Wake, GetAttnList, AckLost, Sleep, Cut, Hang, vars
  <2> QED BY <2>1 DEF PoweredOff
<1> QED
  BY <1>1, <1>3, <1>4, <1>5, <1>6, <1>8, <1>9, <1>10, <1>11 DEF Next, Answers

(* The system is power cycled only when a critical error has lasted for    *)
(* WAITING_ON_SYS_RECOVERY_MINS without a break (APP_periodic of APP.c):   *)
(* the clock that one error starts is not read for a later one.            *)
THEOREM PowerCyclesAreDue == Spec => PowerCycledOnlyIfBroken
<1>1. Init => AttentionInv /\ ErrorClock(app, broken)
  BY AttentionInvInit, AppInitClock DEF Init
<1>2. AttentionInv /\ ErrorClock(app, broken) /\ [Next]_vars
        => (AttentionInv /\ ErrorClock(app, broken))'
  BY AttentionInvStep, ClockStep DEF ErrorClock
<1>3. AttentionInv /\ ErrorClock(app, broken) /\ [Next]_vars
        => [app.state = "FAULT" /\ app'.state # "FAULT" /\ am' = "off" /\ faults' = faults
              => broken + 1 >= Recovery]_vars
  BY ClockStep DEF PoweredOff
<1> QED BY <1>1, <1>2, <1>3, PTL DEF Spec, PowerCycledOnlyIfBroken
=============================================================================
