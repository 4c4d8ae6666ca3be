---------------------------- MODULE SsmAttention ----------------------------
(***************************************************************************)
(* Attention sources: how the SSM wakes the AM, waits for its answer, and  *)
(* power cycles the system when none comes (APP.c), with the AM reduced to *)
(* its attention handling (ssm.c) and to what it does for each source.     *)
(*                                                                         *)
(* app is the state of APP.c.  Its functions are operators on that state,  *)
(* composed as the code calls them.  Time is counted in units of five      *)
(* minutes; APP_periodic runs many times in one.                           *)
(***************************************************************************)
EXTENDS Naturals, Sequences

CONSTANTS
    Recovery,   \* WAITING_ON_SYS_RECOVERY_MINS: four times five minutes
    DutyGap,    \* bound: time between the SSM's daily duties
    NumFaults   \* bound: failures, resets and commands of the cloud

ASSUME AttentionAssumption ==
    /\ Recovery \in Nat \ {0} /\ DutyGap \in Nat /\ NumFaults \in Nat

VARIABLES
    app,        \* SSM: see App
    sinceDuty,  \* time since a daily duty
    broken,     \* history: how long there has been a critical error
    am,         \* SSM_SPI_Task: "off", "idle", "ack" (owes an ACK), "hung"
    events,     \* events the event manager has yet to handle, each once
    faults

vars == <<app, sinceDuty, broken, am, events, faults>>

Source == {"ACTIVATE", "REQUEST_TIME", "CHECK_IN_DEACTIVATED", "CHECK_IN_ACTIVATED"}
Error == {"AM_NOT_RESPONSIVE", "CAP_SENSE", "NO_RTC_TIME"}
Critical == Error \ {"NO_RTC_TIME"}     \* ~NON_CRITICAL_ERR_BIT_MASK
State == {"ACTIVATED", "DEACTIVATED", "FAULT"}

App == [list : SUBSET Source,       \* xCurrentAttnList
        line : BOOLEAN,             \* the wake line
        waiting : BOOLEAN,          \* waitingOnAm
        waitTime : 0 .. 1,          \* since xWaitOnAmStartTime
        errors : SUBSET Error,      \* xCurrentErrors
        errTime : 0 .. Recovery,    \* since xErrorStartTimeSeconds
        faultTime : 0 .. 1,         \* since xWaitTimeForFaultStatusMsg
        state : State,              \* xCurrentState
        saved : State \ {"FAULT"},  \* the state in EEPROM
        valid : BOOLEAN,            \* xValidTimestamp
        synced : BOOLEAN,           \* xTimeSyncStatus = RTC_TIME_UPDATED
        liters : BOOLEAN,           \* LITERS_TO_ACTIVATE reached, not activated
        logs : BOOLEAN]             \* as many logs as the transmission rate

Fault ==
    /\ faults < NumFaults
    /\ faults' = faults + 1

Upto(n, max) == IF n < max THEN n + 1 ELSE max

IsBroken(a) == a.errors \cap Critical # {}

-----------------------------------------------------------------------------
(* The functions of APP.c.                                                 *)

WakeAm(a) == [a EXCEPT !.waiting = TRUE, !.waitTime = 0, !.line = TRUE]

\* Mutant of IndicateError: the time of the first error counts for later ones.
IndicateErrorNoStart(a, e) == [a EXCEPT !.errors = @ \cup {e}]

\* The time runs from the first of the critical errors.
IndicateError(a, e) ==
    [a EXCEPT !.errTime = IF e \in Critical /\ ~IsBroken(a) THEN 0 ELSE @,
              !.errors = @ \cup {e}]

IndicateActivation(a) == WakeAm([a EXCEPT !.list = @ \cup {"ACTIVATE"}])

\* Mutant of IndicateNeedTime: the AM is not woken.
IndicateNeedTimeNoWake(a) == [a EXCEPT !.list = @ \cup {"REQUEST_TIME"}]

\* Wakes the AM only when there is no time at all.
IndicateNeedTime(a) ==
    LET asked == [a EXCEPT !.list = @ \cup {"REQUEST_TIME"}]
    IN  IF "NO_RTC_TIME" \in a.errors
        THEN WakeAm([asked EXCEPT !.list = @ \cup {"CHECK_IN_DEACTIVATED"}])
        ELSE asked

IndicateCheckIn(a) ==
    LET source == IF a.state = "ACTIVATED" THEN "CHECK_IN_ACTIVATED"
                                           ELSE "CHECK_IN_DEACTIVATED"
        raised == [a EXCEPT !.list = @ \cup {source}]
    IN  WakeAm(IF a.synced THEN raised ELSE IndicateNeedTime(raised))

\* Mutant of HandleAttnSourceAck: the error stays.
HandleAttnSourceAckKeepsError(a) ==
    [a EXCEPT !.list = {}, !.line = FALSE, !.waiting = FALSE, !.waitTime = 0]

\* What is ANDed into the list is the start of the received message, which is
\* never assigned on the SSM: zero.
HandleAttnSourceAck(a) ==
    [a EXCEPT !.list = {}, !.line = FALSE, !.waiting = FALSE, !.waitTime = 0,
              !.errors = @ \ {"AM_NOT_RESPONSIVE"}]

HandleActivateCmd(a) ==
    IF a.state = "ACTIVATED" THEN a
    ELSE [a EXCEPT !.state = "ACTIVATED", !.saved = "ACTIVATED", !.liters = FALSE,
                   !.faultTime = 0]

\* The logs are cleared, and the algorithm starts counting from zero.
HandleDeactivateCmd(a) ==
    IF a.state = "DEACTIVATED" THEN a
    ELSE [a EXCEPT !.state = "DEACTIVATED", !.saved = "DEACTIVATED",
                   !.liters = FALSE, !.logs = FALSE, !.faultTime = 0]

\* ASP_HandleSetRTCMsg, with a time.
SetTimeUpdated(a) ==
    [a EXCEPT !.synced = TRUE, !.valid = TRUE, !.errors = @ \ {"NO_RTC_TIME"}]

\* ASP_HandleSetRTCMsg, with the 0 the AM sends when it got no time.
SetTimeFailed(a) ==
    IF "NO_RTC_TIME" \in a.errors THEN [a EXCEPT !.valid = FALSE] ELSE a

\* APP_init; the RTC may have kept the time.
AppInit(a, valid) ==
    [list |-> {}, line |-> FALSE, waiting |-> FALSE, waitTime |-> 0,
     errors |-> IF valid THEN {} ELSE {"NO_RTC_TIME"}, errTime |-> 0,
     faultTime |-> 0, state |-> a.saved, saved |-> a.saved,
     valid |-> valid, synced |-> FALSE, liters |-> FALSE, logs |-> a.logs]

-----------------------------------------------------------------------------
(* APP_periodic, in the order of its parts.                                *)

Duty == {"TIME", "CHECK_IN", "LOG"}

Elapse(a) ==
    [a EXCEPT !.waitTime = IF a.waiting THEN 1 ELSE 0,
              !.errTime = Upto(@, Recovery),
              !.faultTime = IF a.state = "FAULT" THEN 1 ELSE 0]

\* Mutant of TimeRetry: the error is noted and no time asked for.
TimeRetryNoRequest(a) == IF a.valid THEN a ELSE IndicateError(a, "NO_RTC_TIME")

\* Without a time: 30 minutes after a reset, and once a day.
TimeRetry(a) ==
    IF a.valid THEN a ELSE IndicateNeedTime(IndicateError(a, "NO_RTC_TIME"))

\* Every 28 days.
DeactivatedCheckIn(a) ==
    IF a.state = "DEACTIVATED" THEN IndicateCheckIn([a EXCEPT !.synced = FALSE]) ELSE a

\* Mutant of Activation: the liters count is not looked at again.
ActivationOnce(a, pumped) ==
    IF a.state # "ACTIVATED" /\ pumped /\ ~a.liters
    THEN IndicateActivation([a EXCEPT !.liters = TRUE]) ELSE a

\* Every 50 ms.
Activation(a, pumped) ==
    IF a.state # "ACTIVATED" /\ (a.liters \/ pumped)
    THEN IndicateActivation([a EXCEPT !.liters = TRUE]) ELSE a

\* Mutant of DailyLog: the logs that were there before do not count.
DailyLogNewOnly(a, enough, sync) ==
    IF a.state = "ACTIVATED" /\ a.valid /\ enough /\ ~a.logs
    THEN IndicateCheckIn([a EXCEPT !.logs = TRUE, !.synced = @ /\ ~sync]) ELSE a

\* A day's log is written; once a week the time is asked for as well.
DailyLog(a, enough, sync) ==
    IF a.state = "ACTIVATED" /\ a.valid /\ (a.logs \/ enough)
    THEN IndicateCheckIn([a EXCEPT !.logs = TRUE, !.synced = @ /\ ~sync]) ELSE a

\* Mutant of AmCommTimeout: the wake line is set again and no error noted.
AmCommTimeoutNoError(a) ==
    IF a.waiting /\ a.waitTime = 1 THEN WakeAm([a EXCEPT !.line = FALSE]) ELSE a

\* "AM Comm Timeout, lets retry"
AmCommTimeout(a) ==
    IF a.waiting /\ a.waitTime = 1
    THEN WakeAm([IndicateError(a, "AM_NOT_RESPONSIVE") EXCEPT !.line = FALSE]) ELSE a

Overdue(a) == IsBroken(a) /\ a.errTime = Recovery

\* Mutant of EnterFault: the state is written to the EEPROM, as the others are.
EnterFaultSaved(a, pumped) ==
    IF Overdue(a) /\ a.state # "FAULT"
    THEN IndicateCheckIn([a EXCEPT !.state = "FAULT", !.saved = "FAULT", !.faultTime = 0,
                                   !.liters = @ \/ pumped])
    ELSE a

\* Twenty minutes of errors; the water counted while ACTIVATED counts as well.
EnterFault(a, pumped) ==
    IF Overdue(a) /\ a.state # "FAULT"
    THEN IndicateCheckIn([a EXCEPT !.state = "FAULT", !.faultTime = 0, !.liters = @ \/ pumped])
    ELSE a

\* xPowerCycleSystem: five minutes later.
PowerCycles(a) == Overdue(a) /\ a.state = "FAULT" /\ a.faultTime = 1

\* Both processors lose power.
PowerCycle(a) ==
    /\ \E valid \in BOOLEAN : app' = AppInit(a, valid)
    /\ am' = "off" /\ events' = <<>>

\* SSM_SPI_Task polls the line every 100 ms and a request takes at most 600 ms:
\* an AM that is up and has not hung answers within five minutes.
AmAtRest == am \in {"off", "hung"} \/ (am = "idle" /\ ~app.line)

\* What comes before the test for FAULT.
Parts(elapsed, due, pumped, enough, sync) ==
    LET a0 == IF elapsed THEN Elapse(app) ELSE app
        a1 == IF "TIME" \in due THEN TimeRetry(a0) ELSE a0
        a2 == IF "CHECK_IN" \in due THEN DeactivatedCheckIn(a1) ELSE a1
        a3 == Activation(a2, pumped)
        a4 == IF "LOG" \in due THEN DailyLog(a3, enough, sync) ELSE a3
    IN  AmCommTimeout(a4)

PeriodicCall(elapsed, due) ==
    \E pumped, enough, sync \in BOOLEAN :
        /\ enough \/ sync => "LOG" \in due
        /\ elapsed => AmAtRest
        /\ due # {} => sinceDuty = DutyGap
        /\ sinceDuty' = IF due # {} THEN 0
                        ELSE IF elapsed THEN Upto(sinceDuty, DutyGap) ELSE sinceDuty
        /\ \E a \in {Parts(elapsed, due, pumped, enough, sync)} :
              IF PowerCycles(a) THEN PowerCycle(a)
               ELSE app' = EnterFault(a, pumped) /\ UNCHANGED <<am, events>>
        /\ broken' = IF ~IsBroken(app') THEN 0
                     ELSE IF elapsed /\ IsBroken(app) THEN Upto(broken, Recovery)
                     ELSE broken
        /\ UNCHANGED faults

Periodic == \E elapsed \in BOOLEAN, due \in SUBSET Duty : PeriodicCall(elapsed, due)

\* A driver sees, or no longer sees, an error of its sensor.
SensorError ==
    /\ app' = IndicateError(app, "CAP_SENSE")
    /\ Fault
    /\ UNCHANGED <<sinceDuty, broken, am, events>>

SensorRecovers ==
    /\ "CAP_SENSE" \in app.errors
    /\ app' = [app EXCEPT !.errors = @ \ {"CAP_SENSE"}]
    /\ broken' = IF IsBroken(app') THEN broken ELSE 0
    /\ UNCHANGED <<sinceDuty, am, events, faults>>

\* A reset of the SSM alone.
SsmReset ==
    /\ \E valid \in BOOLEAN : app' = AppInit(app, valid)
    /\ broken' = 0
    /\ Fault
    /\ UNCHANGED <<sinceDuty, am, events>>

-----------------------------------------------------------------------------
(* The AM.                                                                 *)

Wake ==
    /\ am = "off" /\ app.line
    /\ am' = "idle"
    /\ UNCHANGED <<app, sinceDuty, broken, events, faults>>

\* A source in the list becomes an event.  (Handling an event twice in a row
\* does what handling it once does.)
EventOf(source) ==
    IF source \in app.list /\ \A i \in DOMAIN events : events[i] # source
    THEN <<source>> ELSE <<>>

\* The list is asked for while the line is set.
GetAttnList ==
    /\ am = "idle" /\ app.line
    /\ events' = events \o EventOf("ACTIVATE") \o EventOf("REQUEST_TIME")
                  \o EventOf("CHECK_IN_DEACTIVATED") \o EventOf("CHECK_IN_ACTIVATED")
    /\ am' = "ack"
    /\ UNCHANGED <<app, sinceDuty, broken, faults>>

SsmAcked ==
    /\ app' = HandleAttnSourceAck(app)
    /\ broken' = IF IsBroken(app') THEN broken ELSE 0

Ack ==
    /\ am = "ack"
    /\ SsmAcked
    /\ am' = "idle"
    /\ UNCHANGED <<sinceDuty, events, faults>>

\* The ACK arrives, its answer does not: it is sent again.
AckAnswerLost ==
    /\ am = "ack"
    /\ SsmAcked
    /\ Fault
    /\ UNCHANGED <<sinceDuty, am, events>>

\* Given up after MAX_RETRIES.
AckLost ==
    /\ am = "ack"
    /\ am' = "idle"
    /\ Fault
    /\ UNCHANGED <<app, sinceDuty, broken, events>>

\* SSM_SPI_Task is back in its loop and sends what the next event asks for.
Handle(event, a) ==
    /\ am = "idle" /\ events # <<>> /\ Head(events) = event
    /\ app' = a
    /\ events' = Tail(events)
    /\ UNCHANGED <<sinceDuty, broken, am>>

ActivateEvent == Handle("ACTIVATE", HandleActivateCmd(app)) /\ UNCHANGED faults

\* NTP gives a time, or not.
TimeEvent ==
    \/ Handle("REQUEST_TIME", SetTimeUpdated(app)) /\ UNCHANGED faults
    \/ Handle("REQUEST_TIME", SetTimeFailed(app)) /\ Fault

\* The transfer of all logs is LogTransfer's subject.
CheckInActivatedEvent ==
    Handle("CHECK_IN_ACTIVATED", [app EXCEPT !.logs = FALSE]) /\ UNCHANGED faults

CheckInDeactivatedEvent == Handle("CHECK_IN_DEACTIVATED", app) /\ UNCHANGED faults

\* The command of an event is given up after MAX_RETRIES.
CommandLost == \E event \in Source : Handle(event, app) /\ Fault

Answers == GetAttnList \/ Ack

Handles == ActivateEvent \/ TimeEvent \/ CheckInActivatedEvent \/ CheckInDeactivatedEvent

\* Cloud jobs.
Deactivate ==
    /\ am = "idle"
    /\ app' = HandleDeactivateCmd(app)
    /\ Fault
    /\ UNCHANGED <<sinceDuty, broken, am, events>>

HwReset ==
    /\ am = "idle"
    /\ PowerCycle(app)
    /\ broken' = 0
    /\ Fault
    /\ UNCHANGED sinceDuty

\* xTurnOffCellAndPowerDown with nothing left to do.
Sleep ==
    /\ am = "idle" /\ events = <<>> /\ ~app.line
    /\ am' = "off"
    /\ UNCHANGED <<app, sinceDuty, broken, events, faults>>

\* A reset, or the allowed time used up, anywhere.
Cut ==
    /\ am \in {"idle", "ack"}
    /\ am' = "off" /\ events' = <<>>
    /\ Fault
    /\ UNCHANGED <<app, sinceDuty, broken>>

\* The AM no longer talks to the SSM, whatever it is woken with.
Hang ==
    /\ am # "hung"
    /\ am' = "hung" /\ events' = <<>>
    /\ Fault
    /\ UNCHANGED <<app, sinceDuty, broken>>

-----------------------------------------------------------------------------
Init ==
    /\ \E state \in State \ {"FAULT"}, valid, logs \in BOOLEAN :
          app = AppInit([saved |-> state, logs |-> logs /\ state = "ACTIVATED"], valid)
    /\ sinceDuty = 0 /\ broken = 0
    /\ am = "off" /\ events = <<>>
    /\ faults = 0

Next ==
    \/ Periodic \/ SensorError \/ SensorRecovers \/ SsmReset
    \/ Wake \/ Answers \/ Handles \/ AckAnswerLost \/ AckLost \/ CommandLost
    \/ Deactivate \/ HwReset \/ Sleep \/ Cut \/ Hang

\* The SSM's loop runs, time passes, days come with their duties.  The wake line
\* in the end turns the AM on; up, it polls the line and handles its events.
Fairness ==
    /\ WF_vars(PeriodicCall(TRUE, {})) /\ SF_vars(PeriodicCall(TRUE, Duty))
    /\ SF_vars(Wake \/ Answers) /\ SF_vars(Handles)

Spec == Init /\ [][Next]_vars /\ Fairness

\* The AM does not hang while an activation may be pending.
OrderlyNext ==
    /\ Next
    /\ am' = "hung" => app.state = "ACTIVATED" \/ am = "hung"

OrderlySpec == Init /\ [][OrderlyNext]_vars /\ Fairness

-----------------------------------------------------------------------------
TypeOK ==
    /\ app \in App
    /\ sinceDuty \in 0 .. DutyGap
    /\ broken \in 0 .. Recovery
    /\ am \in {"off", "idle", "ack", "hung"}
    /\ events \in Seq(Source)
    /\ faults \in 0 .. NumFaults

(* "clear attn line if all sources are acked": the wake line is set, and   *)
(* the AM's answer waited for, exactly as long as a source is pending,     *)
(* whichever of the handlers raised it and however ACKs are repeated.      *)
PendingKeepsWaking ==
    /\ app.line <=> app.list # {}
    /\ app.waiting <=> app.line

(* AM_NOT_RESPONSIVE, which leads to a power cycle, never stays behind     *)
(* when no answer is due.                                                  *)
AmErrorMeansWaiting == "AM_NOT_RESPONSIVE" \in app.errors => app.waiting

(* The system is power cycled only when some critical error has lasted     *)
(* for twenty minutes without a break: errors of sensor and AM overlap,    *)
(* come back, and FAULT outlives the error that led to it.  (The step may  *)
(* itself take five minutes.)                                              *)
PowerCycledOnlyIfBroken ==
    [][app.state = "FAULT" /\ app'.state # "FAULT" /\ am' = "off" /\ faults' = faults
       => broken + 1 >= Recovery]_vars

(* An AM that hangs is noticed and power cycled: the SSM needs no more     *)
(* than its next source.                                                   *)
HungAmIsReset == am = "hung" /\ app.waiting ~> am # "hung"

(* Logs reach the AM in the end although an ACK wipes sources raised since *)
(* the list was read, the AM is cut off or hangs, and either side resets.  *)
LogsAreCollected ==
    app.logs /\ app.state = "ACTIVATED" ~> ~app.logs \/ app.state = "FAULT"

(* A pump that is used gets activated.                                     *)
UseActivates == app.liters ~> ~app.liters

(* Without a time the SSM asks until it has one.                           *)
TimeComes == ~app.valid ~> app.valid

(* "Keep retrying until we hit the timeout mark from logging an error and  *)
(* get reset": an AM that does not answer for five minutes is noticed.     *)
SilentAmIsNoticed == []<>(~app.waiting \/ "AM_NOT_RESPONSIVE" \in app.errors)
=============================================================================
