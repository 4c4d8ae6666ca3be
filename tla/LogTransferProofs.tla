-------------------------- MODULE LogTransferProofs --------------------------
(***************************************************************************)
(* Proofs about LogTransfer, for rings, queues and transfers of any size,  *)
(* any number of days, lost requests, failed flash writes and cut-offs:    *)
(* no log leaves the SSM before the AM has stored it, SENSOR_DATA_READY    *)
(* means that none is left, commands always find room in ssmMsgQueue, and  *)
(* no more logs are stored twice than there were failures.                 *)
(*                                                                         *)
(* All of it rests on one argument: however the two tasks interleave, a    *)
(* transfer is a single chain of commands and events, one begetting the    *)
(* next, and what the variables hold is known at each of its links.        *)
(***************************************************************************)
EXTENDS LogTransfer, SequenceTheorems, FiniteSetTheorems, TLAPS

-----------------------------------------------------------------------------
(* The chain.                                                              *)

(* SSM_SPI_Task is not busy with a command.                                *)
Free == {"idle", "poll", "GET_ATTN_LIST", "SEND_ATTN_ACK"}

(* Where the chain is: SSM_SPI_Task and the contents of the three queues.  *)
At(tasks, cmds, unsent, evts) ==
    /\ task \in tasks
    /\ ssmMsgQueue = cmds
    /\ toSend = unsent
    /\ eventQueue = evts

Quiet == At(Free, <<>>, <<>>, <<>>)

Noticed == At(Free, <<>>, <<>>, <<"CHECK_IN_EVT_ACTIVATED">>)

Asking ==
    \/ At(Free, <<>>, <<"REQUEST_STATUS", "REQUEST_NUM_ENTRIES">>, <<>>)
    \/ At(Free, <<"REQUEST_STATUS">>, <<"REQUEST_NUM_ENTRIES">>, <<>>)
    \/ At(Free \cup {"REQUEST_STATUS"}, <<>>, <<"REQUEST_NUM_ENTRIES">>, <<>>)
    \/ At(Free, <<"REQUEST_STATUS", "REQUEST_NUM_ENTRIES">>, <<>>, <<>>)
    \/ At(Free \cup {"REQUEST_STATUS"}, <<"REQUEST_NUM_ENTRIES">>, <<>>, <<>>)
    \/ At({"REQUEST_STATUS", "REQUEST_NUM_ENTRIES"}, <<>>, <<>>, <<>>)

Requesting ==
    /\ At(Free, <<"REQUEST_ENTRY">>, <<>>, <<>>)
    /\ numEntries # 0 => queue # <<>> /\ entriesLeftToRequest = Len(queue)

(* The entry under way is counted off already, and still in the SSM.       *)
OneUnderWay == queue # <<>> /\ entriesLeftToRequest = Len(queue) - 1

Fetching == At({"REQUEST_ENTRY"}, <<>>, <<>>, <<>>) /\ OneUnderWay

Received ==
    /\ At(Free, <<>>, <<>>, <<"SENSOR_DATA_MSG_RECEIVED">>)
    /\ OneUnderWay /\ xCurrentEntry = Head(queue)

Storing ==
    /\ \/ At(Free, <<>>, <<"ENTRY_STORED">>, <<>>)
       \/ At(Free, <<"ENTRY_STORED">>, <<>>, <<>>)
       \/ At({"ENTRY_STORED"}, <<>>, <<>>, <<>>)
    /\ OneUnderWay
    /\ stored # <<>> /\ stored[Len(stored)] = Head(queue)

Finished == At(Free, <<>>, <<>>, <<"SENSOR_DATA_READY">>) /\ queue = <<>>

Chain ==
    \/ Quiet \/ Noticed \/ Asking \/ Requesting \/ Fetching \/ Received
    \/ Storing \/ Finished

(* The types of what is not in the chain.                                  *)
DataOK ==
    /\ queue \in Seq(0 .. day) /\ Len(queue) <= Size
    /\ day \in 0 .. NumDays
    /\ checkIn \in BOOLEAN /\ up \in BOOLEAN /\ xSensorDataReady \in BOOLEAN
    /\ stored \in Seq(0 .. day)
    /\ tries \in 0 .. MAX_RETRIES
    /\ xCurrentEntry \in 0 .. day
    /\ entriesLeftToRequest \in 0 .. Size
    /\ numEntries \in 0 .. Size
    /\ faults \in 0 .. NumFaults

(* A check-in begins a chain only when there is none: until its attention  *)
(* is being acknowledged, all is quiet.                                    *)
TransferInv ==
    /\ DataOK
    /\ Chain
    /\ checkIn /\ task # "SEND_ATTN_ACK" => Quiet
    /\ task = "GET_ATTN_LIST" => checkIn
    /\ ~up => Quiet /\ task = "idle" /\ ~xSensorDataReady
    /\ ReadyWhenAllStored
    /\ task \in Request => tries < MAX_RETRIES

LEMMA ConstantsAreNumbers ==
    /\ Size \in Nat /\ Size > 0 /\ MAX_RETRIES \in Nat /\ MAX_RETRIES > 0
    /\ QueueLength \in Nat /\ QueueLength > 2
    /\ EntriesWrap \in Nat /\ NumDays \in Nat /\ NumFaults \in Nat
BY TransferAssumption

(* The ends of short sequences.                                            *)
LEMMA ShortSequences ==
    /\ \A a : Head(<<a>>) = a /\ Tail(<<a>>) = <<>>
    /\ \A a, b : Head(<<a, b>>) = a
    /\ \A a, b : Tail(<<a, b>>) = <<b>>
    /\ \A a : Append(<<>>, a) = <<a>>
    /\ \A a : Len(<<a>>) = 1
<1>1. \A a : Head(<<a>>) = a /\ Tail(<<a>>) = <<>>
  OBVIOUS
<1>2. \A a, b : Head(<<a, b>>) = a
  OBVIOUS
<1>3. \A a, b : Tail(<<a, b>>) = <<b>>
  OBVIOUS
<1>4. \A a : Append(<<>>, a) = <<a>>
  OBVIOUS
<1>5. \A a : Len(<<a>>) = 1
  OBVIOUS
<1> QED BY <1>1, <1>2, <1>3, <1>4, <1>5

LEMMA ShortSequenceTypes ==
    ASSUME NEW S
    PROVE  /\ <<>> \in Seq(S) /\ Len(<<>>) = 0
           /\ \A a \in S : <<a>> \in Seq(S)
           /\ \A a, b \in S : <<a, b>> \in Seq(S) /\ Len(<<a, b>>) = 2
<1>1. <<>> \in Seq(S) /\ Len(<<>>) = 0
  OBVIOUS
<1>2. \A a \in S : <<a>> \in Seq(S)
  OBVIOUS
<1>3. \A a, b \in S : <<a, b>> \in Seq(S) /\ Len(<<a, b>>) = 2
  OBVIOUS
<1> QED BY <1>1, <1>2, <1>3

LEMMA AppendSecond ==
    ASSUME NEW S, NEW a \in S, NEW b \in S
    PROVE  Append(<<a>>, b) = <<a, b>>
<1> DEFINE s == <<a>>
           t == Append(s, b)
           u == <<a, b>>
<1>1. s \in Seq(S) /\ Len(s) = 1 /\ s[1] = a
  OBVIOUS
<1> HIDE DEF s
<1>2. /\ t \in Seq(S)
      /\ Len(t) = Len(s) + 1
      /\ t[Len(s) + 1] = b
      /\ \A i \in 1 .. Len(s) : t[i] = s[i]
  <2>1. t \in Seq(S) /\ Len(t) = Len(s) + 1
    BY <1>1, AppendProperties
  <2>2. t[Len(s) + 1] = b
    BY <1>1, AppendProperties
  <2>3. \A i \in 1 .. Len(s) : t[i] = s[i]
    BY <1>1, AppendProperties
  <2> QED BY <2>1, <2>2, <2>3
<1>3. u \in Seq(S) /\ Len(u) = 2 /\ u[1] = a /\ u[2] = b
  OBVIOUS
<1> HIDE DEF t, u
<1>4. t = u
  BY <1>1, <1>2, <1>3
<1> QED BY <1>4 DEF t, u, s

(* With this many commands in it, ssmMsgQueue takes another.               *)
LEMMA EnqueueAppends ==
    ASSUME NEW cmd, Len(ssmMsgQueue) <= 1
    PROVE  Enqueue(cmd) = Append(ssmMsgQueue, cmd)
BY ConstantsAreNumbers DEF Enqueue

(* The chain is short.                                                     *)
LEMMA ChainTypes ==
    ASSUME Chain
    PROVE  /\ task \in Request \cup {"idle", "poll"}
           /\ ssmMsgQueue \in Seq(Command) /\ Len(ssmMsgQueue) <= 2
           /\ toSend \in Seq(Command)
           /\ eventQueue \in Seq({"CHECK_IN_EVT_ACTIVATED",
                                 "SENSOR_DATA_MSG_RECEIVED", "SENSOR_DATA_READY"})
<1> USE DEF Chain, Quiet, Noticed, Asking, Requesting, Fetching, Received, Storing,
            Finished, At
<1>1. task \in Request \cup {"idle", "poll"}
  BY DEF Free, Request, Command
<1>2. ssmMsgQueue \in {<<>>, <<"REQUEST_STATUS">>, <<"REQUEST_NUM_ENTRIES">>,
                       <<"REQUEST_ENTRY">>, <<"ENTRY_STORED">>,
                       <<"REQUEST_STATUS", "REQUEST_NUM_ENTRIES">>}
  OBVIOUS
<1>3. toSend \in {<<>>, <<"REQUEST_NUM_ENTRIES">>, <<"ENTRY_STORED">>,
                  <<"REQUEST_STATUS", "REQUEST_NUM_ENTRIES">>}
  OBVIOUS
<1>4. eventQueue \in {<<>>, <<"CHECK_IN_EVT_ACTIVATED">>,
                      <<"SENSOR_DATA_MSG_RECEIVED">>, <<"SENSOR_DATA_READY">>}
  OBVIOUS
<1>5. ssmMsgQueue \in Seq(Command) /\ Len(ssmMsgQueue) <= 2
  <2>1. ssmMsgQueue \in Seq(Command)
    BY ONLY <1>2, ShortSequenceTypes DEF Command
  <2>2. Len(ssmMsgQueue) = 0 \/ Len(ssmMsgQueue) = 1 \/ Len(ssmMsgQueue) = 2
    BY ONLY <1>2, ShortSequences, ShortSequenceTypes DEF Command
  <2>3. 0 <= 2 /\ 1 <= 2 /\ 2 <= 2
    OBVIOUS
  <2>4. Len(ssmMsgQueue) <= 2
    BY ONLY <2>2, <2>3, Zenon
  <2> QED BY ONLY <2>1, <2>4
<1>6. toSend \in Seq(Command)
  BY ONLY <1>3, ShortSequenceTypes DEF Command
<1>7. eventQueue \in Seq({"CHECK_IN_EVT_ACTIVATED", "SENSOR_DATA_MSG_RECEIVED",
                          "SENSOR_DATA_READY"})
  BY ONLY <1>4, ShortSequenceTypes
<1> QED BY <1>1, <1>5, <1>6, <1>7

LEMMA TransferInvInit == Init => TransferInv
<1> SUFFICES ASSUME Init PROVE TransferInv
  OBVIOUS
<1>1. /\ queue = <<>> /\ day = 0
      /\ Quiet /\ task = "idle" /\ ~xSensorDataReady /\ ~checkIn /\ ~up
  BY DEF Init, Queue!Init, Quiet, At, Free
<1>2. /\ queue \in Seq(0 .. day) /\ Len(queue) <= Size
      /\ stored \in Seq(0 .. day)
  BY <1>1, ConstantsAreNumbers, ShortSequenceTypes DEF Init
<1>3. /\ day \in 0 .. NumDays /\ tries \in 0 .. MAX_RETRIES
      /\ xCurrentEntry \in 0 .. day /\ entriesLeftToRequest \in 0 .. Size
      /\ numEntries \in 0 .. Size /\ faults \in 0 .. NumFaults
  BY <1>1, ConstantsAreNumbers DEF Init
<1>4. DataOK
  BY <1>2, <1>3 DEF Init, DataOK
<1> QED
  BY <1>1, <1>4 DEF TransferInv, Chain, ReadyWhenAllStored, Request, Command

-----------------------------------------------------------------------------
(* SSM_SPI_Task.                                                           *)

(* What the task is busy with tells which link of the chain it is at.      *)
LEMMA BusyLinks ==
    ASSUME Chain
    PROVE  /\ task = "REQUEST_STATUS" =>
                 \/ At({task}, <<>>, <<"REQUEST_NUM_ENTRIES">>, <<>>)
                 \/ At({task}, <<"REQUEST_NUM_ENTRIES">>, <<>>, <<>>)
                 \/ At({task}, <<>>, <<>>, <<>>)
           /\ task = "REQUEST_NUM_ENTRIES" => At({task}, <<>>, <<>>, <<>>)
           /\ task = "REQUEST_ENTRY" => Fetching
           /\ task = "ENTRY_STORED" => Storing /\ At({task}, <<>>, <<>>, <<>>)
BY DEF Chain, Quiet, Noticed, Asking, Requesting, Fetching, Received, Storing,
       Finished, At, Free

(* While a check-in is pending there is no chain but that of its attention.*)
LEMMA CheckInIsQuiet ==
    ASSUME TransferInv, task # "SEND_ATTN_ACK", ~Quiet
    PROVE  checkIn = FALSE
BY DEF TransferInv, DataOK

LEMMA TakeCommandKeeps == TransferInv /\ TakeCommand => TransferInv'
<1> SUFFICES ASSUME TransferInv, TakeCommand PROVE TransferInv'
  OBVIOUS
<1> DEFINE cmd == Head(ssmMsgQueue)
<1>0. task = "idle" /\ ssmMsgQueue # <<>> /\ up
  BY DEF TakeCommand
<1>1. checkIn = FALSE
  BY <1>0, CheckInIsQuiet DEF Quiet, At
<1>2. /\ UNCHANGED <<queue, day, checkIn, stored, up, eventQueue, toSend, xCurrentEntry,
                     xSensorDataReady, faults>>
      /\ tries' = 0
      /\ ssmMsgQueue' = Tail(ssmMsgQueue)
  BY DEF TakeCommand, ssm
<1>3. DataOK
  BY DEF TransferInv
<1>4. ASSUME Chain', DataOK', task' # "GET_ATTN_LIST" PROVE TransferInv'
  BY <1>0, <1>1, <1>2, <1>4, ConstantsAreNumbers DEF TransferInv, ReadyWhenAllStored
<1>5. CASE cmd # "REQUEST_ENTRY"
  <2>1. /\ task' = cmd /\ entriesLeftToRequest' = entriesLeftToRequest
        /\ numEntries' \in {0, numEntries}
    BY <1>5 DEF TakeCommand
  <2>2. DataOK'
    BY <1>2, <1>3, <2>1, ConstantsAreNumbers DEF DataOK
  <2>3. CASE At(Free, <<"REQUEST_STATUS">>, <<"REQUEST_NUM_ENTRIES">>, <<>>)
    <3>1. At({"REQUEST_STATUS"}, <<>>, <<"REQUEST_NUM_ENTRIES">>, <<>>)'
      BY <1>2, <2>1, <2>3, ShortSequences DEF At
    <3> QED BY <1>4, <2>2, <3>1 DEF Chain, Asking, At
  <2>4. CASE At(Free, <<"REQUEST_STATUS", "REQUEST_NUM_ENTRIES">>, <<>>, <<>>)
    <3>1. At({"REQUEST_STATUS"}, <<"REQUEST_NUM_ENTRIES">>, <<>>, <<>>)'
      BY <1>2, <2>1, <2>4, ShortSequences DEF At
    <3> QED BY <1>4, <2>2, <3>1 DEF Chain, Asking, At
  <2>5. CASE At(Free \cup {"REQUEST_STATUS"}, <<"REQUEST_NUM_ENTRIES">>, <<>>, <<>>)
    <3>1. At({"REQUEST_NUM_ENTRIES"}, <<>>, <<>>, <<>>)'
      BY <1>2, <2>1, <2>5, ShortSequences DEF At
    <3> QED BY <1>4, <2>2, <3>1 DEF Chain, Asking, At
  <2>6. CASE At(Free, <<"ENTRY_STORED">>, <<>>, <<>>) /\ Storing
    <3>1. At({"ENTRY_STORED"}, <<>>, <<>>, <<>>)'
      BY <1>2, <2>1, <2>6, ShortSequences DEF At
    <3>2. Storing'
      BY <1>2, <2>1, <2>6, <3>1 DEF Storing, OneUnderWay
    <3> QED BY <1>4, <2>2, <3>1, <3>2 DEF Chain, At
  <2>7. Asking \/ Storing
    BY <1>0, <1>5, ShortSequences
       DEF TransferInv, Chain, Quiet, Noticed, Requesting, Fetching, Received, Finished, At
  <2> QED BY <1>0, <2>3, <2>4, <2>5, <2>6, <2>7 DEF Asking, Storing, At
<1>6. CASE cmd = "REQUEST_ENTRY"
  <2>1. Requesting
    BY <1>0, <1>6, ShortSequences
       DEF TransferInv, Chain, Quiet, Noticed, Asking, Fetching, Received, Storing,
           Finished, At
  <2>2. ssmMsgQueue' = <<>> /\ toSend' = <<>> /\ eventQueue' = <<>>
    BY <1>2, <2>1, ShortSequences DEF Requesting, At
  <2>3. numEntries' = numEntries
    BY <1>6 DEF TakeCommand
  <2>4. CASE numEntries = 0
    <3>1. task' = "poll" /\ entriesLeftToRequest' = entriesLeftToRequest
      BY <1>6, <2>4 DEF TakeCommand
    <3>2. DataOK'
      BY <1>2, <1>3, <2>3, <3>1, ConstantsAreNumbers DEF DataOK
    <3>3. Quiet'
      BY <2>2, <3>1 DEF Quiet, At, Free
    <3> QED BY <1>4, <3>1, <3>2, <3>3 DEF Chain
  <2>5. CASE numEntries # 0
    <3>1. queue # <<>> /\ entriesLeftToRequest = Len(queue)
      BY <2>1, <2>5 DEF Requesting
    <3>2. Len(queue) \in 1 .. Size
      <4>1. queue \in Seq(0 .. day) /\ Len(queue) <= Size
        BY <1>3 DEF DataOK
      <4> QED BY <3>1, <4>1, ConstantsAreNumbers
    <3>3. task' = "REQUEST_ENTRY" /\ entriesLeftToRequest' = entriesLeftToRequest - 1
      BY <1>6, <2>5, <3>1, <3>2 DEF TakeCommand
    <3>4. entriesLeftToRequest' \in 0 .. Size
      BY <3>1, <3>2, <3>3, ConstantsAreNumbers
    <3>5. DataOK'
      BY <1>2, <1>3, <2>3, <3>4, ConstantsAreNumbers DEF DataOK
    <3>6. Fetching'
      BY <1>2, <2>2, <3>1, <3>3 DEF Fetching, At, OneUnderWay
    <3> QED BY <1>4, <3>3, <3>5, <3>6 DEF Chain
  <2> QED BY <2>4, <2>5
<1> QED BY <1>5, <1>6

LEMMA PollLineKeeps == TransferInv /\ PollLine => TransferInv'
<1> SUFFICES ASSUME TransferInv, PollLine PROVE TransferInv'
  OBVIOUS
<1>1. /\ UNCHANGED <<queue, day, checkIn, stored, up, ssmMsgQueue, eventQueue, toSend,
                     xCurrentEntry, entriesLeftToRequest, numEntries,
                     xSensorDataReady, faults>>
      /\ tries' = 0 /\ up
      /\ task \in {"poll", "idle"}
      /\ task' = IF checkIn THEN "GET_ATTN_LIST" ELSE "idle"
  BY DEF PollLine, ssm, ram
<1>2. DataOK'
  BY <1>1, ConstantsAreNumbers DEF TransferInv, DataOK
<1>3. checkIn => Quiet
  BY <1>1 DEF TransferInv
<1>4. task' \in Free /\ (Quiet => Quiet')
  BY <1>1 DEF Quiet, At, Free
<1>5. Chain'
  BY <1>1, <1>4
     DEF TransferInv, Chain, Quiet, Noticed, Asking, Requesting, Fetching, Received,
         Storing, Finished, At, OneUnderWay
<1> QED
  BY <1>1, <1>2, <1>3, <1>4, <1>5, ConstantsAreNumbers
     DEF TransferInv, ReadyWhenAllStored

(* A request lost: the transfer breaks off, or goes on unchanged.           *)
LEMMA RequestLostKeeps ==
    ASSUME TransferInv, RequestLost, task = "SEND_ATTN_ACK" => tries' # MAX_RETRIES
    PROVE  TransferInv'
<1>1. /\ UNCHANGED <<queue, day, checkIn, stored, up, ssmMsgQueue, eventQueue, toSend,
                     xCurrentEntry, entriesLeftToRequest, numEntries, xSensorDataReady>>
      /\ up /\ task \in Request
      /\ tries' = tries + 1
      /\ tries' # MAX_RETRIES => UNCHANGED <<task, faults>>
      /\ tries' = MAX_RETRIES => task' = AfterRequest /\ Fault
  BY DEF RequestLost, AmRetries, ssm, ram
<1>2. tries' \in 0 .. MAX_RETRIES
  BY <1>1, ConstantsAreNumbers DEF TransferInv, DataOK
<1>3. DataOK'
  BY <1>1, <1>2, ConstantsAreNumbers DEF TransferInv, DataOK, Fault
<1>4. CASE tries' # MAX_RETRIES
  <2>1. task' = task /\ tries' < MAX_RETRIES
    BY <1>1, <1>2, <1>4, ConstantsAreNumbers
  <2>2. Chain' /\ (Quiet => Quiet')
    BY <1>1, <2>1
       DEF TransferInv, Chain, Quiet, Noticed, Asking, Requesting, Fetching, Received,
           Storing, Finished, At, OneUnderWay
  <2> QED
    BY <1>1, <1>3, <2>1, <2>2 DEF TransferInv, ReadyWhenAllStored
<1>5. CASE tries' = MAX_RETRIES
  <2>1. task' = (IF task \in Command THEN "poll" ELSE "idle") /\ task # "SEND_ATTN_ACK"
    BY <1>1, <1>5 DEF AfterRequest
  <2>2. task' \notin Request
    BY <2>1 DEF Request, Command
  <2>3. Quiet => Quiet'
    BY <1>1, <2>1 DEF Quiet, At, Free
  <2>4. Chain'
    <3>1. CASE task = "REQUEST_STATUS"
      BY <1>1, <2>1, <3>1, BusyLinks DEF TransferInv, Chain, Asking, Quiet, At, Free, Command
    <3>2. CASE task = "REQUEST_NUM_ENTRIES"
      BY <1>1, <2>1, <3>2, BusyLinks DEF TransferInv, Chain, Quiet, At, Free, Command
    <3>3. CASE task = "REQUEST_ENTRY"
      BY <1>1, <2>1, <3>3, BusyLinks
         DEF TransferInv, Chain, Fetching, Quiet, At, Free, Command
    <3>4. CASE task = "ENTRY_STORED"
      BY <1>1, <2>1, <3>4, BusyLinks DEF TransferInv, Chain, Quiet, At, Free, Command
    <3>5. CASE task = "GET_ATTN_LIST"
      BY <2>1, <2>3, <3>5 DEF TransferInv, Chain
    <3> QED BY <1>1, <2>1, <3>1, <3>2, <3>3, <3>4, <3>5 DEF Request, Command
  <2> QED
    BY <1>1, <1>3, <2>1, <2>2, <2>3, <2>4
       DEF TransferInv, ReadyWhenAllStored, Request, Command
<1> QED BY <1>4, <1>5

(* An answer leaves the SSM's side as it is, but for an entry acknowledged  *)
(* and an attention list cleared.                                           *)
LEMMA AnsweredFrame ==
    ASSUME TransferInv, NEW request, Answered(request)
    PROVE  /\ up /\ task = request
           /\ UNCHANGED <<day, stored, up, toSend, xSensorDataReady, faults>>
           /\ request # "ENTRY_STORED" => queue' = queue
           /\ checkIn' = (checkIn /\ request # "SEND_ATTN_ACK")
           /\ checkIn' \in BOOLEAN
<1>1. /\ up /\ task = request
      /\ UNCHANGED <<stored, up, toSend, xSensorDataReady, faults>>
      /\ SsmHandles
  BY DEF Answered
<1>2. /\ day' = day
      /\ checkIn' = (checkIn /\ task # "SEND_ATTN_ACK")
  BY <1>1 DEF SsmHandles
<1>3. request # "ENTRY_STORED" => queue' = queue
  <2>1. CASE queue = <<>>
    BY <1>1, <2>1 DEF SsmHandles
  <2>2. CASE queue # <<>>
    BY <1>1, <2>2 DEF SsmHandles
  <2> QED BY <2>1, <2>2
<1>4. checkIn' \in BOOLEAN
  BY <1>2 DEF TransferInv, DataOK
<1> QED BY <1>1, <1>2, <1>3, <1>4

LEMMA StatusKeeps == TransferInv /\ Status => TransferInv'
<1> SUFFICES ASSUME TransferInv, Status PROVE TransferInv'
  OBVIOUS
<1>1. Answered("REQUEST_STATUS")
  BY DEF Status
<1>2. /\ UNCHANGED <<queue, day, stored, up, ssmMsgQueue, eventQueue, toSend, tries,
                     xCurrentEntry, entriesLeftToRequest, numEntries,
                     xSensorDataReady, faults>>
      /\ up /\ task = "REQUEST_STATUS" /\ task' = "poll"
      /\ checkIn' = checkIn
  BY <1>1, AnsweredFrame DEF Status, ram, TransferInv, DataOK
<1>3. checkIn = FALSE
  BY <1>2, CheckInIsQuiet DEF Quiet, At, Free
<1>4. DataOK'
  BY <1>2 DEF TransferInv, DataOK
<1>5. Chain'
  BY <1>2, BusyLinks DEF TransferInv, Chain, Asking, Quiet, At, Free
<1> QED
  BY <1>2, <1>3, <1>4, <1>5 DEF TransferInv, ReadyWhenAllStored, Request, Command

LEMMA NumEntriesKeeps == TransferInv /\ NumEntries => TransferInv'
<1> SUFFICES ASSUME TransferInv, NumEntries PROVE TransferInv'
  OBVIOUS
<1>1. Answered("REQUEST_NUM_ENTRIES")
  BY DEF NumEntries
<1>2. /\ UNCHANGED <<queue, day, stored, up, eventQueue, toSend, tries, xCurrentEntry,
                     xSensorDataReady, faults>>
      /\ up /\ task = "REQUEST_NUM_ENTRIES" /\ task' = "poll"
      /\ checkIn' = checkIn
      /\ numEntries' = Len(queue) /\ entriesLeftToRequest' = Len(queue)
      /\ ssmMsgQueue' = Enqueue("REQUEST_ENTRY")
  BY <1>1, AnsweredFrame DEF NumEntries, TransferInv, DataOK
<1>3. checkIn = FALSE
  BY <1>2, CheckInIsQuiet DEF Quiet, At, Free
<1>4. At({task}, <<>>, <<>>, <<>>)
  BY <1>2, BusyLinks DEF TransferInv
<1>5. queue \in Seq(0 .. day) /\ Len(queue) <= Size /\ Len(queue) \in Nat
  <2>1. queue \in Seq(0 .. day) /\ Len(queue) <= Size
    BY DEF TransferInv, DataOK
  <2> QED BY <2>1
<1>6. Len(queue) \in 0 .. Size
  BY <1>5, ConstantsAreNumbers
<1>7. DataOK'
  BY <1>2, <1>6 DEF TransferInv, DataOK
<1>8. ssmMsgQueue' = <<"REQUEST_ENTRY">>
  <2>1. ssmMsgQueue = <<>> /\ Len(ssmMsgQueue) <= 1
    BY <1>4 DEF At
  <2> QED BY <1>2, <2>1, EnqueueAppends, ShortSequences
<1>9. Len(queue) # 0 => queue # <<>>
  OBVIOUS
<1>10. Requesting'
  BY <1>2, <1>4, <1>8, <1>9 DEF Requesting, At, Free
<1> QED
  BY <1>2, <1>3, <1>7, <1>10
     DEF TransferInv, Chain, ReadyWhenAllStored, Request, Command

LEMMA EntryKeeps == TransferInv /\ Entry => TransferInv'
<1> SUFFICES ASSUME TransferInv, Entry PROVE TransferInv'
  OBVIOUS
<1>1. Answered("REQUEST_ENTRY")
  BY DEF Entry
<1>2. /\ UNCHANGED <<queue, day, stored, up, ssmMsgQueue, toSend, tries, numEntries,
                     entriesLeftToRequest, xSensorDataReady, faults>>
      /\ up /\ task = "REQUEST_ENTRY" /\ task' = "poll"
      /\ checkIn' = checkIn
      /\ queue # <<>> /\ xCurrentEntry' = Head(queue)
      /\ eventQueue' = Append(eventQueue, "SENSOR_DATA_MSG_RECEIVED")
  BY <1>1, AnsweredFrame DEF Entry, TransferInv, DataOK
<1>3. checkIn = FALSE
  BY <1>2, CheckInIsQuiet DEF Quiet, At, Free
<1>4. Fetching
  BY <1>2, BusyLinks DEF TransferInv
<1>5. xCurrentEntry' \in 0 .. day
  <2>1. queue \in Seq(0 .. day) /\ queue # <<>>
    BY <1>2 DEF TransferInv, DataOK
  <2>2. Head(queue) \in 0 .. day
    BY <2>1, HeadTailProperties
  <2> QED BY <1>2, <2>2
<1>6. DataOK'
  BY <1>2, <1>5 DEF TransferInv, DataOK
<1>7. eventQueue' = <<"SENSOR_DATA_MSG_RECEIVED">>
  BY <1>2, <1>4, ShortSequences DEF Fetching, At
<1>8. Received'
  BY <1>2, <1>4, <1>7 DEF Fetching, Received, OneUnderWay, At, Free
<1> QED
  BY <1>2, <1>3, <1>6, <1>8
     DEF TransferInv, Chain, ReadyWhenAllStored, Request, Command

(* The log the SSM gives up is the one stored last; the last one of all     *)
(* makes the data ready.                                                    *)
LEMMA EntryStoredKeeps == TransferInv /\ EntryStored => TransferInv'
<1> SUFFICES ASSUME TransferInv, EntryStored PROVE TransferInv'
  OBVIOUS
<1>1. Answered("ENTRY_STORED")
  BY DEF EntryStored
<1>2. /\ UNCHANGED <<day, stored, up, toSend, tries, numEntries, xCurrentEntry,
                     entriesLeftToRequest, xSensorDataReady, faults>>
      /\ up /\ task = "ENTRY_STORED" /\ task' = "poll"
      /\ checkIn' = checkIn
  BY <1>1, AnsweredFrame DEF EntryStored, ram, TransferInv, DataOK
<1>3. checkIn = FALSE
  BY <1>2, CheckInIsQuiet DEF Quiet, At, Free
<1>4. Storing /\ At({task}, <<>>, <<>>, <<>>)
  BY <1>2, BusyLinks DEF TransferInv
<1>5. queue \in Seq(0 .. day) /\ queue # <<>> /\ Len(queue) <= Size
  BY <1>4 DEF TransferInv, DataOK, Storing, OneUnderWay
<1>6. queue' = Tail(queue)
  <2>1. SsmHandles
    BY <1>1 DEF Answered
  <2> QED BY <1>2, <1>5, <2>1 DEF SsmHandles
<1>7. /\ queue' \in Seq(0 .. day)
      /\ Len(queue') = Len(queue) - 1
  BY <1>5, <1>6, HeadTailProperties
<1>8. entriesLeftToRequest = Len(queue')
  BY <1>4, <1>7 DEF Storing, OneUnderWay
<1>9. DataOK'
  <2>1. Len(queue) \in Nat /\ Len(queue') <= Size
    BY <1>5, <1>7, ConstantsAreNumbers
  <2> QED BY <1>2, <1>3, <1>7, <2>1 DEF TransferInv, DataOK
<1>10. ~xSensorDataReady
  BY <1>5 DEF TransferInv, ReadyWhenAllStored
<1>11. CASE entriesLeftToRequest > 0
  <2>1. ssmMsgQueue' = <<"REQUEST_ENTRY">> /\ eventQueue' = <<>>
    <3>1. ssmMsgQueue = <<>> /\ Len(ssmMsgQueue) <= 1
      BY <1>4 DEF At
    <3> QED BY <1>4, <1>11, <3>1, EnqueueAppends, ShortSequences DEF EntryStored, At
  <2>2. queue' # <<>>
    BY <1>8, <1>11
  <2>3. Requesting'
    BY <1>2, <1>4, <1>8, <2>1, <2>2 DEF Requesting, At, Free
  <2> QED
    BY <1>2, <1>3, <1>9, <1>10, <2>3
       DEF TransferInv, Chain, ReadyWhenAllStored, Request, Command
<1>12. CASE ~(entriesLeftToRequest > 0)
  <2>1. ssmMsgQueue' = <<>> /\ eventQueue' = <<"SENSOR_DATA_READY">>
    BY <1>4, <1>12, ShortSequences DEF EntryStored, At
  <2>2. queue' = <<>>
    <3>1. Len(queue') = 0
      <4>1. Len(queue') \in Nat
        BY <1>7
      <4> QED BY <1>8, <1>12, <4>1
    <3> QED BY <1>7, <3>1, EmptySeq
  <2>3. Finished'
    BY <1>2, <1>4, <2>1, <2>2 DEF Finished, At, Free
  <2> QED
    BY <1>2, <1>3, <1>9, <1>10, <2>3
       DEF TransferInv, Chain, ReadyWhenAllStored, Request, Command
<1> QED BY <1>11, <1>12

LEMMA AttnListKeeps == TransferInv /\ AttnList => TransferInv'
<1> SUFFICES ASSUME TransferInv, AttnList PROVE TransferInv'
  OBVIOUS
<1>1. Answered("GET_ATTN_LIST")
  BY DEF AttnList
<1>2. /\ UNCHANGED <<queue, day, stored, up, toSend, numEntries, xCurrentEntry,
                     ssmMsgQueue, entriesLeftToRequest, xSensorDataReady, faults>>
      /\ up /\ task = "GET_ATTN_LIST" /\ task' = "SEND_ATTN_ACK" /\ tries' = 0
      /\ checkIn' = checkIn
      /\ eventQueue' = Append(eventQueue, "CHECK_IN_EVT_ACTIVATED")
  <2>1. /\ UNCHANGED <<queue, day, stored, up, toSend, xSensorDataReady, faults>>
        /\ up /\ task = "GET_ATTN_LIST"
    BY <1>1, AnsweredFrame
  <2>2. checkIn' = checkIn
    BY <1>1, AnsweredFrame DEF TransferInv, DataOK
  <2> QED BY <2>1, <2>2 DEF AttnList, ram
<1>3. Quiet
  BY <1>2 DEF TransferInv
<1>4. DataOK'
  BY <1>2, ConstantsAreNumbers DEF TransferInv, DataOK
<1>5. eventQueue' = <<"CHECK_IN_EVT_ACTIVATED">>
  BY <1>2, <1>3, ShortSequences DEF Quiet, At
<1>6. Noticed'
  BY <1>2, <1>3, <1>5 DEF Quiet, Noticed, At, Free
<1> QED
  BY <1>2, <1>4, <1>6, ConstantsAreNumbers DEF TransferInv, Chain, ReadyWhenAllStored

LEMMA AttnAckKeeps == TransferInv /\ AttnAck => TransferInv'
<1> SUFFICES ASSUME TransferInv, AttnAck PROVE TransferInv'
  OBVIOUS
<1>1. Answered("SEND_ATTN_ACK")
  BY DEF AttnAck
<1>2. /\ UNCHANGED <<queue, day, stored, up, toSend, tries, numEntries, xCurrentEntry,
                     ssmMsgQueue, eventQueue, entriesLeftToRequest, xSensorDataReady,
                     faults>>
      /\ up /\ task = "SEND_ATTN_ACK" /\ task' = "idle"
      /\ checkIn' = FALSE
  BY <1>1, AnsweredFrame DEF AttnAck, ram, TransferInv, DataOK
<1>3. DataOK'
  BY <1>2 DEF TransferInv, DataOK
<1>4. Chain'
  BY <1>2
     DEF TransferInv, Chain, Quiet, Noticed, Asking, Requesting, Fetching, Received,
         Storing, Finished, At, OneUnderWay, Free
<1> QED
  BY <1>2, <1>3, <1>4 DEF TransferInv, ReadyWhenAllStored, Request, Command

-----------------------------------------------------------------------------
(* The event manager.                                                      *)

(* The event taken is the only one, and nothing is left to send.           *)
LEMMA NextEventFrame ==
    ASSUME TransferInv, NEW event, NextEvent(event)
    PROVE  /\ up
           /\ UNCHANGED <<queue, day, checkIn, up, task, tries, ssmMsgQueue,
                          xCurrentEntry, entriesLeftToRequest, numEntries>>
           /\ eventQueue' = <<>>
           /\ At(Free, <<>>, <<>>, <<event>>)
           /\ checkIn => task = "SEND_ATTN_ACK"
<1>1. /\ up /\ toSend = <<>>
      /\ eventQueue # <<>> /\ Head(eventQueue) = event
      /\ eventQueue' = Tail(eventQueue)
      /\ UNCHANGED <<queue, day, checkIn, up, task, tries, ssmMsgQueue,
                     xCurrentEntry, entriesLeftToRequest, numEntries>>
  BY DEF NextEvent, ssm, ram
<1>2. Noticed \/ Received \/ Finished
  BY <1>1
     DEF TransferInv, Chain, Quiet, Asking, Requesting, Fetching, Storing, At
<1>3. PICK e : eventQueue = <<e>> /\ task \in Free /\ ssmMsgQueue = <<>>
  BY <1>2 DEF Noticed, Received, Finished, At
<1>4. e = event /\ eventQueue' = <<>>
  BY <1>1, <1>3, ShortSequences
<1>5. checkIn => task = "SEND_ATTN_ACK"
  BY <1>1 DEF TransferInv, Quiet, At
<1> QED BY <1>1, <1>3, <1>4, <1>5 DEF At

LEMMA CheckInActivatedKeeps == TransferInv /\ CheckInActivated => TransferInv'
<1> SUFFICES ASSUME TransferInv, CheckInActivated PROVE TransferInv'
  OBVIOUS
<1>1. NextEvent("CHECK_IN_EVT_ACTIVATED")
  BY DEF CheckInActivated
<1>2. /\ UNCHANGED <<queue, day, checkIn, stored, up, task, tries, ssmMsgQueue,
                     xCurrentEntry, entriesLeftToRequest, numEntries,
                     xSensorDataReady, faults>>
      /\ up /\ eventQueue' = <<>> /\ ssmMsgQueue = <<>> /\ task \in Free
      /\ toSend' = <<"REQUEST_STATUS", "REQUEST_NUM_ENTRIES">>
      /\ checkIn => task = "SEND_ATTN_ACK"
  BY <1>1, NextEventFrame DEF CheckInActivated, At
<1>3. DataOK'
  BY <1>2 DEF TransferInv, DataOK
<1>4. Asking'
  BY <1>2 DEF Asking, At
<1> QED
  BY <1>2, <1>3, <1>4 DEF TransferInv, Chain, ReadyWhenAllStored

(* The log stored is the oldest one of the SSM.                            *)
LEMMA StoreEntryKeeps == TransferInv /\ StoreEntry => TransferInv'
<1> SUFFICES ASSUME TransferInv, StoreEntry PROVE TransferInv'
  OBVIOUS
<1>1. NextEvent("SENSOR_DATA_MSG_RECEIVED")
  BY DEF StoreEntry
<1>2. /\ UNCHANGED <<queue, day, checkIn, up, task, tries, ssmMsgQueue,
                     xCurrentEntry, entriesLeftToRequest, numEntries,
                     xSensorDataReady>>
      /\ up /\ eventQueue' = <<>> /\ ssmMsgQueue = <<>> /\ task \in Free
      /\ toSend = <<>> /\ eventQueue = <<"SENSOR_DATA_MSG_RECEIVED">>
      /\ checkIn => task = "SEND_ATTN_ACK"
  BY <1>1, NextEventFrame DEF StoreEntry, At
<1>3. Received
  BY <1>2
     DEF TransferInv, Chain, Quiet, Noticed, Asking, Requesting, Fetching, Storing,
         Finished, At
<1>4. stored \in Seq(0 .. day) /\ xCurrentEntry \in 0 .. day
  BY DEF TransferInv, DataOK
<1>5. CASE stored' = Append(stored, xCurrentEntry) /\ toSend' = <<"ENTRY_STORED">>
           /\ UNCHANGED faults
  <2>1. /\ stored' \in Seq(0 .. day) /\ stored' # <<>>
        /\ Len(stored') = Len(stored) + 1
        /\ stored'[Len(stored) + 1] = xCurrentEntry
    <3>1. stored' \in Seq(0 .. day) /\ stored' # <<>>
      BY <1>4, <1>5, AppendProperties
    <3>2. Len(stored') = Len(stored) + 1
      BY <1>4, <1>5, AppendProperties
    <3>3. stored'[Len(stored) + 1] = xCurrentEntry
      BY <1>4, <1>5, AppendProperties
    <3> QED BY <3>1, <3>2, <3>3
  <2>2. stored'[Len(stored')] = Head(queue')
    BY <1>2, <1>3, <2>1 DEF Received
  <2>3. DataOK'
    BY <1>2, <1>5, <2>1 DEF TransferInv, DataOK
  <2>4. Storing'
    BY <1>2, <1>3, <1>5, <2>1, <2>2 DEF Received, Storing, OneUnderWay, At
  <2> QED
    BY <1>2, <2>3, <2>4 DEF TransferInv, Chain, ReadyWhenAllStored
<1>6. CASE Fault /\ UNCHANGED <<stored, toSend>>
  <2>1. DataOK'
    BY <1>2, <1>6, ConstantsAreNumbers DEF TransferInv, DataOK, Fault
  <2>2. Quiet'
    BY <1>2, <1>6 DEF Quiet, At
  <2> QED
    BY <1>2, <2>1, <2>2 DEF TransferInv, Chain, ReadyWhenAllStored
<1> QED BY <1>5, <1>6 DEF StoreEntry

LEMMA SensorDataReadyKeeps == TransferInv /\ SensorDataReady => TransferInv'
<1> SUFFICES ASSUME TransferInv, SensorDataReady PROVE TransferInv'
  OBVIOUS
<1>1. NextEvent("SENSOR_DATA_READY")
  BY DEF SensorDataReady
<1>2. /\ UNCHANGED <<queue, day, checkIn, stored, up, task, tries, ssmMsgQueue, toSend,
                     xCurrentEntry, entriesLeftToRequest, numEntries, faults>>
      /\ up /\ eventQueue' = <<>> /\ ssmMsgQueue = <<>> /\ task \in Free
      /\ toSend = <<>> /\ eventQueue = <<"SENSOR_DATA_READY">>
      /\ xSensorDataReady' = TRUE
      /\ checkIn => task = "SEND_ATTN_ACK"
  BY <1>1, NextEventFrame DEF SensorDataReady, At
<1>3. queue = <<>>
  BY <1>2
     DEF TransferInv, Chain, Quiet, Noticed, Asking, Requesting, Fetching, Received,
         Storing, Finished, At
<1>4. DataOK'
  BY <1>2 DEF TransferInv, DataOK
<1>5. Quiet'
  BY <1>2 DEF Quiet, At
<1> QED
  BY <1>2, <1>3, <1>4, <1>5 DEF TransferInv, Chain, ReadyWhenAllStored

LEMMA SendCommandKeeps == TransferInv /\ SendCommand => TransferInv'
<1> SUFFICES ASSUME TransferInv, SendCommand PROVE TransferInv'
  OBVIOUS
<1>1. /\ UNCHANGED <<queue, day, checkIn, stored, up, task, tries, eventQueue,
                     xCurrentEntry, entriesLeftToRequest, numEntries,
                     xSensorDataReady, faults>>
      /\ up /\ toSend # <<>>
      /\ ssmMsgQueue' = Enqueue(Head(toSend)) /\ toSend' = Tail(toSend)
  BY DEF SendCommand, ssm, ram
<1>2. task # "SEND_ATTN_ACK" => checkIn = FALSE
  BY <1>1, CheckInIsQuiet DEF Quiet, At
<1>3. DataOK'
  BY <1>1 DEF TransferInv, DataOK
<1>4. ASSUME Chain' PROVE TransferInv'
  BY <1>1, <1>2, <1>3, <1>4 DEF TransferInv, ReadyWhenAllStored
<1>5. ssmMsgQueue = <<>> =>
         /\ Len(ssmMsgQueue) <= 1
         /\ \A cmd : Append(ssmMsgQueue, cmd) = <<cmd>>
  BY ShortSequences
<1>6. CASE Storing
  <2>1. At(Free, <<>>, <<"ENTRY_STORED">>, <<>>)
    BY <1>1, <1>6 DEF Storing, At
  <2>2. At(Free, <<"ENTRY_STORED">>, <<>>, <<>>)'
    BY <1>1, <1>5, <2>1, EnqueueAppends, ShortSequences DEF At
  <2> QED BY <1>1, <1>4, <1>6, <2>2 DEF Chain, Storing, OneUnderWay
<1>7. CASE At(Free, <<>>, <<"REQUEST_STATUS", "REQUEST_NUM_ENTRIES">>, <<>>)
  <2>1. At(Free, <<"REQUEST_STATUS">>, <<"REQUEST_NUM_ENTRIES">>, <<>>)'
    BY <1>1, <1>5, <1>7, EnqueueAppends, ShortSequences DEF At
  <2> QED BY <1>4, <2>1 DEF Chain, Asking
<1>8. CASE At(Free, <<"REQUEST_STATUS">>, <<"REQUEST_NUM_ENTRIES">>, <<>>)
  <2>1. Len(ssmMsgQueue) <= 1
    <3>1. ssmMsgQueue = <<"REQUEST_STATUS">>
      BY <1>8 DEF At
    <3>2. Len(ssmMsgQueue) = 1
      BY <3>1, ShortSequences
    <3> QED BY <3>2
  <2>2. ssmMsgQueue' = <<"REQUEST_STATUS", "REQUEST_NUM_ENTRIES">>
    <3>1. Append(<<"REQUEST_STATUS">>, "REQUEST_NUM_ENTRIES")
             = <<"REQUEST_STATUS", "REQUEST_NUM_ENTRIES">>
      <4>1. "REQUEST_STATUS" \in Command /\ "REQUEST_NUM_ENTRIES" \in Command
        BY DEF Command
      <4> QED BY <4>1, AppendSecond
    <3> QED BY <1>1, <1>8, <2>1, <3>1, EnqueueAppends, ShortSequences DEF At
  <2>3. At(Free, <<"REQUEST_STATUS", "REQUEST_NUM_ENTRIES">>, <<>>, <<>>)'
    BY <1>1, <1>8, <2>2, ShortSequences DEF At
  <2> QED BY <1>4, <2>3 DEF Chain, Asking
<1>9. CASE At(Free \cup {"REQUEST_STATUS"}, <<>>, <<"REQUEST_NUM_ENTRIES">>, <<>>)
  <2>1. At(Free \cup {"REQUEST_STATUS"}, <<"REQUEST_NUM_ENTRIES">>, <<>>, <<>>)'
    BY <1>1, <1>5, <1>9, EnqueueAppends, ShortSequences DEF At
  <2> QED BY <1>4, <2>1 DEF Chain, Asking
<1> QED
  BY <1>1, <1>6, <1>7, <1>8, <1>9
     DEF TransferInv, Chain, Quiet, Noticed, Asking, Requesting, Fetching, Received,
         Finished, At

-----------------------------------------------------------------------------
(* Days and power.                                                         *)

(* The new log is the last of the queue, which does not get shorter.       *)
LEMMA DailyLogQueue ==
    ASSUME TransferInv, DailyLog
    PROVE  /\ day' \in 0 .. NumDays /\ 0 .. day \subseteq 0 .. day'
           /\ queue' \in Seq(0 .. day') /\ Len(queue') <= Size
           /\ Len(queue') >= Len(queue)
<1> DEFINE kept == IF Len(queue) = Size THEN Tail(queue) ELSE queue
<1>1. day < NumDays /\ day' = day + 1 /\ queue' = Append(kept, day')
  BY DEF DailyLog, Queue!Push
<1>2. queue \in Seq(0 .. day) /\ Len(queue) <= Size /\ day \in 0 .. NumDays
  BY DEF TransferInv, DataOK
<1>3. 0 .. day \subseteq 0 .. day' /\ day' \in 0 .. NumDays /\ day' \in 0 .. day'
  BY <1>1, <1>2, ConstantsAreNumbers
<1>4. Len(queue) \in Nat
  BY <1>2, LenProperties
<1>5. /\ kept \in Seq(0 .. day)
      /\ Len(kept) + 1 <= Size /\ Len(kept) + 1 >= Len(queue)
  <2>1. CASE Len(queue) = Size
    <3>1. queue # <<>>
      BY <2>1, <1>2, ConstantsAreNumbers, EmptySeq
    <3>2. Tail(queue) \in Seq(0 .. day) /\ Len(Tail(queue)) = Len(queue) - 1
      BY <1>2, <3>1, HeadTailProperties
    <3> QED BY <2>1, <3>2, ConstantsAreNumbers
  <2>2. CASE Len(queue) # Size
    BY <1>2, <1>4, <2>2, ConstantsAreNumbers
  <2> QED BY <2>1, <2>2
<1> HIDE DEF kept
<1>6. kept \in Seq(0 .. day')
  BY <1>3, <1>5, SeqMonotonic
<1>7. queue' \in Seq(0 .. day') /\ Len(queue') = Len(kept) + 1
  BY <1>1, <1>3, <1>6, AppendProperties
<1> QED BY <1>3, <1>5, <1>7

LEMMA DailyLogKeeps == TransferInv /\ DailyLog => TransferInv'
<1> SUFFICES ASSUME TransferInv, DailyLog PROVE TransferInv'
  OBVIOUS
<1>1. /\ UNCHANGED <<stored, up, task, tries, ssmMsgQueue, eventQueue, toSend,
                     xCurrentEntry, entriesLeftToRequest, numEntries,
                     xSensorDataReady, faults>>
      /\ ~up /\ checkIn' \in BOOLEAN
  BY DEF DailyLog, Queue!Push, ram, TransferInv, DataOK
<1>2. stored' \in Seq(0 .. day') /\ xCurrentEntry' \in 0 .. day'
  <2>1. stored \in Seq(0 .. day) /\ xCurrentEntry \in 0 .. day
    BY DEF TransferInv, DataOK
  <2> QED BY <1>1, <2>1, DailyLogQueue, SeqMonotonic
<1>3. DataOK'
  BY <1>1, <1>2, DailyLogQueue DEF TransferInv, DataOK
<1>4. Quiet' /\ task' = "idle" /\ ~xSensorDataReady'
  BY <1>1 DEF TransferInv, Quiet, At
<1> QED
  BY <1>1, <1>3, <1>4
     DEF TransferInv, Chain, ReadyWhenAllStored, Request, Command

LEMMA WakeKeeps == TransferInv /\ Wake => TransferInv'
<1> SUFFICES ASSUME TransferInv, Wake PROVE TransferInv'
  OBVIOUS
<1>1. /\ UNCHANGED <<queue, day, checkIn, stored, task, tries, ssmMsgQueue, eventQueue,
                     toSend, xCurrentEntry, entriesLeftToRequest, numEntries,
                     xSensorDataReady, faults>>
      /\ ~up /\ up' = TRUE
  BY DEF Wake, ssm, ram
<1>2. DataOK'
  BY <1>1 DEF TransferInv, DataOK
<1>3. Quiet' /\ task' = "idle"
  BY <1>1 DEF TransferInv, Quiet, At
<1> QED
  BY <1>1, <1>2, <1>3 DEF TransferInv, Chain, ReadyWhenAllStored, Request, Command

LEMMA TurnOffKeeps ==
    ASSUME TransferInv, TurnOff, faults' \in 0 .. NumFaults
    PROVE  TransferInv'
<1>1. /\ UNCHANGED <<queue, day, checkIn, stored>>
      /\ up' = FALSE /\ task' = "idle" /\ tries' = 0 /\ xSensorDataReady' = FALSE
      /\ ssmMsgQueue' = <<>> /\ eventQueue' = <<>> /\ toSend' = <<>>
      /\ xCurrentEntry' = 0 /\ entriesLeftToRequest' = 0 /\ numEntries' = 0
  BY DEF TurnOff, ssm
<1>2. /\ tries' \in 0 .. MAX_RETRIES
      /\ xCurrentEntry' \in 0 .. day'
      /\ entriesLeftToRequest' \in 0 .. Size /\ numEntries' \in 0 .. Size
  BY <1>1, ConstantsAreNumbers DEF TransferInv, DataOK
<1>3. DataOK'
  BY <1>1, <1>2 DEF TransferInv, DataOK
<1>4. Quiet'
  BY <1>1 DEF Quiet, At, Free
<1> QED
  BY <1>1, <1>3, <1>4 DEF TransferInv, Chain, ReadyWhenAllStored, Request, Command

-----------------------------------------------------------------------------
(* The theorems.                                                           *)

LEMMA TransferInvNext == TransferInv /\ [OrderlyNext]_vars => TransferInv'
<1> SUFFICES ASSUME TransferInv, [OrderlyNext]_vars PROVE TransferInv'
  OBVIOUS
<1>1. CASE DailyLog
  BY <1>1, DailyLogKeeps
<1>2. CASE SpiTask
  BY <1>2, TakeCommandKeeps, PollLineKeeps, StatusKeeps, NumEntriesKeeps, EntryKeeps,
     EntryStoredKeeps, AttnListKeeps, AttnAckKeeps DEF SpiTask
<1>3. CASE EventTask
  BY <1>3, CheckInActivatedKeeps, StoreEntryKeeps, SensorDataReadyKeeps,
     SendCommandKeeps DEF EventTask
<1>4. CASE RequestLost /\ OrderlyNext
  BY <1>4, RequestLostKeeps DEF OrderlyNext
<1>5. CASE Wake
  BY <1>5, WakeKeeps
<1>6. CASE Sleep
  BY <1>6, TurnOffKeeps DEF Sleep, TransferInv, DataOK
<1>7. CASE Cut
  <2>1. faults' \in 0 .. NumFaults
    BY <1>7, ConstantsAreNumbers DEF Cut, Fault, TransferInv, DataOK
  <2> QED BY <1>7, <2>1, TurnOffKeeps DEF Cut
<1>8. CASE UNCHANGED vars
  BY <1>8
     DEF vars, TransferInv, DataOK, Chain, Quiet, Noticed, Asking, Requesting, Fetching,
         Received, Storing, Finished, At, OneUnderWay, ReadyWhenAllStored
<1> QED
  BY <1>1, <1>2, <1>3, <1>4, <1>5, <1>6, <1>7, <1>8 DEF OrderlyNext, PromptNext

THEOREM TransferInvariant == OrderlySpec => []TransferInv
BY TransferInvInit, TransferInvNext, PTL DEF OrderlySpec

(* Every variable of the transfer keeps its type, for every ring size,     *)
(* number of retries and length of ssmMsgQueue: entriesLeftToRequest in    *)
(* particular is never decremented below zero.                             *)
THEOREM TypeCorrect == OrderlySpec => []TypeOK
<1>1. TransferInv => TypeOK
  <2> SUFFICES ASSUME TransferInv PROVE TypeOK
    OBVIOUS
  <2>1. Chain /\ DataOK
    BY DEF TransferInv
  <2>2. Len(ssmMsgQueue) <= QueueLength
    <3>1. Len(ssmMsgQueue) \in Nat
      BY <2>1, ChainTypes, LenProperties
    <3> QED BY <2>1, <3>1, ChainTypes, ConstantsAreNumbers
  <2> QED BY <2>1, <2>2, ChainTypes DEF TypeOK, DataOK
<1> QED BY <1>1, TransferInvariant, PTL

(* No command of a transfer is dropped because ssmMsgQueue is full, if it  *)
(* holds three or more.                                                    *)
THEOREM CommandsFindRoom == OrderlySpec => []RoomForCommands
<1>1. TransferInv => RoomForCommands
  <2> SUFFICES ASSUME TransferInv PROVE RoomForCommands
    OBVIOUS
  <2>1. Chain
    BY DEF TransferInv
  <2>2. Len(ssmMsgQueue) \in Nat
    BY <2>1, ChainTypes, LenProperties
  <2> QED BY <2>1, <2>2, ChainTypes, ConstantsAreNumbers DEF RoomForCommands
<1> QED BY <1>1, TransferInvariant, PTL

(* SENSOR_DATA_READY means that the SSM has no log left.                   *)
THEOREM ReadyMeansDrained == OrderlySpec => []ReadyWhenAllStored
<1>1. TransferInv => ReadyWhenAllStored
  BY DEF TransferInv
<1> QED BY <1>1, TransferInvariant, PTL

(* A log that leaves the SSM for the AM is the one the AM stored last.     *)
THEOREM NoLogIsLost == OrderlySpec => OnlyStoredLogsLeave
<1>1. ASSUME TransferInv, [OrderlyNext]_vars
      PROVE  [Len(queue') < Len(queue) =>
                 /\ stored # <<>>
                 /\ Head(queue) = stored[Len(stored)]]_vars
  <2> SUFFICES ASSUME OrderlyNext, Len(queue') < Len(queue)
               PROVE  stored # <<>> /\ Head(queue) = stored[Len(stored)]
    BY <1>1
  <2>1. CASE EntryStored
    <3>1. task = "ENTRY_STORED"
      BY <2>1 DEF EntryStored, Answered
    <3> QED BY <1>1, <3>1, BusyLinks DEF TransferInv, Storing
  <2>2. CASE DailyLog
    <3>1. Len(queue') \in Nat /\ Len(queue) \in Nat
      BY <1>1, <2>2, DailyLogQueue, LenProperties DEF TransferInv, DataOK
    <3> QED BY <1>1, <2>2, <3>1, DailyLogQueue
  <2>3. CASE Status \/ NumEntries \/ Entry \/ AttnList \/ AttnAck
    <3>1. queue' = queue
      <4>1. CASE Status
        BY <1>1, <4>1, AnsweredFrame DEF Status
      <4>2. CASE NumEntries
        BY <1>1, <4>2, AnsweredFrame DEF NumEntries
      <4>3. CASE Entry
        BY <1>1, <4>3, AnsweredFrame DEF Entry
      <4>4. CASE AttnList
        BY <1>1, <4>4, AnsweredFrame DEF AttnList
      <4>5. CASE AttnAck
        BY <1>1, <4>5, AnsweredFrame DEF AttnAck
      <4> QED BY <2>3, <4>1, <4>2, <4>3, <4>4, <4>5
    <3>2. Len(queue) \in Nat
      BY <1>1, LenProperties DEF TransferInv, DataOK
    <3> QED BY <3>1, <3>2
  <2>4. CASE TakeCommand \/ PollLine \/ EventTask \/ RequestLost \/ Wake \/ Sleep \/ Cut
    <3>1. queue' = queue
      BY <2>4
         DEF TakeCommand, PollLine, EventTask, CheckInActivated, StoreEntry,
             SensorDataReady, NextEvent, SendCommand, RequestLost, Wake, Sleep, Cut,
             TurnOff, ssm
    <3>2. Len(queue) \in Nat
      BY <1>1, LenProperties DEF TransferInv, DataOK
    <3> QED BY <3>1, <3>2
  <2> QED
    BY <2>1, <2>2, <2>3, <2>4 DEF OrderlyNext, PromptNext, SpiTask
<1> QED BY <1>1, TransferInvariant, PTL DEF OrderlySpec, OnlyStoredLogsLeave

-----------------------------------------------------------------------------
(* Duplicates.                                                              *)

(* Logs are numbered upwards.                                              *)
Rising(s) == \A i, j \in 1 .. Len(s) : i < j => s[i] < s[j]

(* What follows the head of a rising sequence rises too, above that head.  *)
LEMMA RisingTail ==
    ASSUME NEW s \in Seq(Nat), Rising(s), s # <<>>
    PROVE  /\ Rising(Tail(s))
           /\ Tail(s) # <<>> => Head(s) < Head(Tail(s))
<1> DEFINE t == Tail(s)
           n == Len(s)
<1>1. /\ n \in Nat /\ n > 0 /\ Head(s) = s[1]
      /\ t \in Seq(Nat) /\ Len(t) = n - 1
      /\ \A i \in 1 .. n - 1 : t[i] = s[i + 1]
  BY HeadTailProperties, LenProperties, EmptySeq
<1>2. \A i, j \in 1 .. n : i < j => s[i] < s[j]
  BY DEF Rising
<1>3. t # <<>> => Head(t) = t[1] /\ Len(t) > 0
  BY <1>1, HeadTailProperties, LenProperties, EmptySeq
<1> HIDE DEF t, n
<1>4. \A i, j \in 1 .. n - 1 : i < j => t[i] < t[j]
  <2>1. ASSUME NEW i \in 1 .. n - 1, NEW j \in 1 .. n - 1, i < j
        PROVE  t[i] < t[j]
    <3>1. i + 1 \in 1 .. n /\ j + 1 \in 1 .. n /\ i + 1 < j + 1
      BY <1>1, <2>1
    <3> QED BY <1>1, <1>2, <2>1, <3>1
  <2> QED BY <2>1
<1>5. t # <<>> => Head(s) < Head(t)
  <2>1. ASSUME t # <<>> PROVE Head(s) < Head(t)
    <3>1. 1 \in 1 .. n /\ 2 \in 1 .. n /\ 1 \in 1 .. n - 1 /\ 1 + 1 = 2 /\ 1 < 2
      BY <1>1, <1>3, <2>1
    <3> QED BY <1>1, <1>2, <1>3, <2>1, <3>1
  <2> QED BY <2>1
<1> QED BY <1>1, <1>4, <1>5 DEF Rising, t

(* A log newer than all others keeps a sequence rising.                    *)
LEMMA RisingAppend ==
    ASSUME NEW d \in Nat, NEW s \in Seq(0 .. d), Rising(s), NEW x \in Nat, d < x
    PROVE  /\ Rising(Append(s, x))
           /\ Append(s, x) # <<>>
           /\ Head(Append(s, x)) = IF s = <<>> THEN x ELSE Head(s)
<1> DEFINE t == Append(s, x)
           n == Len(s)
<1>0. s \in Seq(Nat)
  <2>1. 0 .. d \subseteq Nat
    OBVIOUS
  <2> QED BY <2>1, SeqMonotonic
<1>1. /\ n \in Nat /\ t \in Seq(Nat) /\ Len(t) = n + 1
      /\ \A i \in 1 .. n : t[i] = s[i]
      /\ t[n + 1] = x
  BY <1>0, AppendProperties, LenProperties
<1>2. \A i, j \in 1 .. n : i < j => s[i] < s[j]
  BY DEF Rising
<1>3. \A i \in 1 .. n : s[i] \in 0 .. d
  BY LenProperties, ElementOfSeq
<1>4. t # <<>> /\ Head(t) = t[1]
  BY <1>1, HeadTailProperties, EmptySeq
<1>5. IF s = <<>> THEN n = 0 ELSE n > 0 /\ Head(s) = s[1]
  BY <1>0, HeadTailProperties, LenProperties, EmptySeq
<1> HIDE DEF t, n
<1>6. ASSUME NEW i \in 1 .. n + 1, NEW j \in 1 .. n + 1, i < j
      PROVE  t[i] < t[j]
  <2>1. i \in 1 .. n /\ t[i] = s[i]
    BY <1>1, <1>6
  <2>2. CASE j \in 1 .. n
    BY <1>1, <1>2, <1>6, <2>1, <2>2
  <2>3. CASE j = n + 1
    BY <1>1, <1>3, <2>1, <2>3
  <2> QED BY <1>1, <2>2, <2>3
<1>7. Head(t) = IF s = <<>> THEN x ELSE Head(s)
  <2>1. CASE s = <<>>
    BY <1>1, <1>4, <1>5, <2>1
  <2>2. CASE s # <<>>
    <3>1. 1 \in 1 .. n
      BY <1>1, <1>5, <2>2
    <3> QED BY <1>1, <1>4, <1>5, <2>2, <3>1
  <2> QED BY <2>1, <2>2
<1> QED BY <1>1, <1>4, <1>6, <1>7 DEF Rising, t

-----------------------------------------------------------------------------
(* The logs the AM has stored, the duplicates merged.                      *)
StoredLogs == {stored[i] : i \in 1 .. Len(stored)}

(* The logs stored are finitely many, so that they can be counted.         *)
LEMMA StoredLogsFinite ==
    ASSUME TransferInv
    PROVE  /\ StoredLogs \subseteq 0 .. day
           /\ IsFiniteSet(StoredLogs) /\ Cardinality(StoredLogs) \in Nat
<1>1. stored \in Seq(0 .. day) /\ day \in Nat
  BY ConstantsAreNumbers DEF TransferInv, DataOK
<1>2. \A i \in 1 .. Len(stored) : stored[i] \in 0 .. day
  BY <1>1, ElementOfSeq
<1>3. StoredLogs \subseteq 0 .. day
  BY <1>2 DEF StoredLogs
<1>4. IsFiniteSet(StoredLogs)
  <2>1. 0 \in Int /\ day \in Int
    BY <1>1
  <2>2. IsFiniteSet(0 .. day)
    BY <2>1, FS_Interval
  <2> QED BY <1>3, <2>2, FS_Subset
<1> QED BY <1>3, <1>4, FS_CardinalityType

(* Storing a log adds it to the logs stored.                               *)
LEMMA StoredLogsGrow ==
    ASSUME TransferInv, NEW x \in 0 .. day, stored' = Append(stored, x)
    PROVE  /\ StoredLogs' = StoredLogs \cup {x}
           /\ Len(stored') = Len(stored) + 1 /\ Len(stored) \in Nat
<1> DEFINE n == Len(stored)
<1>1. stored \in Seq(0 .. day)
  BY DEF TransferInv, DataOK
<1>2. /\ n \in Nat /\ Len(stored') = n + 1
      /\ \A i \in 1 .. n : stored'[i] = stored[i]
      /\ stored'[n + 1] = x
  BY <1>1, AppendProperties, LenProperties
<1>3. StoredLogs' = {stored'[i] : i \in 1 .. n + 1} /\ StoredLogs = {stored[i] : i \in 1 .. n}
  BY <1>2 DEF StoredLogs
<1> HIDE DEF n
<1>4. ASSUME NEW y \in StoredLogs' PROVE y \in StoredLogs \cup {x}
  <2>1. PICK i \in 1 .. n + 1 : y = stored'[i]
    BY <1>3, <1>4
  <2>2. i \in 1 .. n \/ i = n + 1
    BY <1>2
  <2> QED BY <1>2, <1>3, <2>1, <2>2
<1>5. ASSUME NEW y \in StoredLogs PROVE y \in StoredLogs'
  <2>1. PICK i \in 1 .. n : y = stored[i]
    BY <1>3, <1>5
  <2>2. i \in 1 .. n + 1
    BY <1>2
  <2> QED BY <1>2, <1>3, <2>1, <2>2
<1>6. x \in StoredLogs'
  <2>1. n + 1 \in 1 .. n + 1
    BY <1>2
  <2> QED BY <1>2, <1>3, <2>1
<1>7. StoredLogs' = StoredLogs \cup {x}
  BY <1>4, <1>5, <1>6
<1> QED BY <1>2, <1>7 DEF n

(* The acknowledgement of the log stored last is under way.                *)
Acking ==
    \/ toSend = <<"ENTRY_STORED">>
    \/ ssmMsgQueue = <<"ENTRY_STORED">>
    \/ task = "ENTRY_STORED"

(* The SSM's next log is stored already and will be stored again.          *)
StoresAgain == queue # <<>> /\ Head(queue) \in StoredLogs /\ ~Acking

(* The strengthening that makes FewDuplicates inductive: the SSM holds     *)
(* logs in rising order, none older than what is stored, and a log about   *)
(* to be stored again is paid for by a failure already.                    *)
DupInv ==
    /\ Rising(queue)
    /\ queue # <<>> => \A x \in StoredLogs : x <= Head(queue)
    /\ FewDuplicates
    /\ StoresAgain => Len(stored) + 1 <= Cardinality(StoredLogs) + faults

(* Nothing is stored and nothing queued at first.                          *)
LEMMA DupInvInit == Init => DupInv
<1> SUFFICES ASSUME Init PROVE DupInv
  OBVIOUS
<1>1. queue = <<>> /\ stored = <<>> /\ faults = 0
  BY DEF Init, Queue!Init
<1>2. Len(queue) = 0 /\ Len(stored) = 0
  BY <1>1
<1>3. StoredLogs = {}
  BY <1>2 DEF StoredLogs
<1>4. Len(stored) <= Cardinality(StoredLogs) + faults
  BY <1>1, <1>2, <1>3, FS_EmptySet
<1> QED
  BY <1>1, <1>2, <1>4 DEF DupInv, Rising, StoresAgain, FewDuplicates, StoredLogs

(* The numbers of the invariant.                                           *)
LEMMA DupNumbers ==
    ASSUME TransferInv
    PROVE  /\ Len(stored) \in Nat /\ Cardinality(StoredLogs) \in Nat /\ faults \in Nat
           /\ queue \in Seq(Nat) /\ queue \in Seq(0 .. day) /\ day \in Nat
           /\ FewDuplicates <=> Len(stored) <= Cardinality(StoredLogs) + faults
<1>1. stored \in Seq(0 .. day) /\ queue \in Seq(0 .. day) /\ day \in Nat /\ faults \in Nat
  BY ConstantsAreNumbers DEF TransferInv, DataOK
<1>2. 0 .. day \subseteq Nat
  BY <1>1
<1>3. queue \in Seq(Nat)
  BY <1>1, <1>2, SeqMonotonic
<1> QED BY <1>1, <1>3, LenProperties, StoredLogsFinite DEF FewDuplicates, StoredLogs

(* A step that changes neither the logs nor the acknowledgement, and one   *)
(* that is a failure.                                                      *)
LEMMA SameLogsKeep ==
    ASSUME TransferInv, DupInv, queue' = queue, stored' = stored,
           \/ faults' = faults /\ (Acking => Acking')
           \/ faults' = faults + 1
    PROVE  DupInv'
<1>1. StoredLogs' = StoredLogs
  BY DEF StoredLogs
<1>2. /\ Len(stored) \in Nat /\ Cardinality(StoredLogs) \in Nat /\ faults \in Nat
      /\ Len(stored) <= Cardinality(StoredLogs) + faults
  BY DupNumbers DEF DupInv
<1>3. Len(stored') <= Cardinality(StoredLogs') + faults'
  BY <1>1, <1>2
<1>4. StoresAgain' => Len(stored') + 1 <= Cardinality(StoredLogs') + faults'
  <2>1. CASE faults' = faults /\ (Acking => Acking')
    BY <1>1, <2>1 DEF DupInv, StoresAgain
  <2>2. CASE faults' = faults + 1
    BY <1>1, <1>2, <2>2
  <2> QED BY <2>1, <2>2
<1> QED BY <1>1, <1>3, <1>4 DEF DupInv, FewDuplicates, StoredLogs, Rising

(* The flash write of the AM (StoreEntry): a log stored for the second     *)
(* time was paid for, and its acknowledgement is then under way.           *)
LEMMA StoreKeepsDup ==
    ASSUME TransferInv, DupInv, StoreEntry
    PROVE  DupInv'
<1>1. CASE Fault /\ UNCHANGED <<stored, toSend>>
  BY <1>1, SameLogsKeep DEF StoreEntry, NextEvent, ssm, Fault
<1>2. CASE /\ stored' = Append(stored, xCurrentEntry)
           /\ toSend' = <<"ENTRY_STORED">>
           /\ UNCHANGED faults
  <2>1. Head(eventQueue) = "SENSOR_DATA_MSG_RECEIVED" /\ eventQueue # <<>>
        /\ queue' = queue
    BY DEF StoreEntry, NextEvent, ssm
  <2>2. Received
    BY <2>1, ShortSequences
       DEF TransferInv, Chain, Quiet, Noticed, Asking, Requesting, Fetching, Storing,
           Finished, At
  <2>3. queue # <<>> /\ xCurrentEntry = Head(queue) /\ ~Acking /\ xCurrentEntry \in 0 .. day
    <3>1. "SENSOR_DATA_MSG_RECEIVED" # "ENTRY_STORED" /\ <<>> # <<"ENTRY_STORED">>
      OBVIOUS
    <3>2. toSend = <<>> /\ ssmMsgQueue = <<>> /\ task # "ENTRY_STORED"
      BY <2>2 DEF Received, At, Free
    <3> QED BY <2>2, <3>1, <3>2 DEF Received, OneUnderWay, Acking, TransferInv, DataOK
  <2> DEFINE x == xCurrentEntry
  <2>4. /\ StoredLogs' = StoredLogs \cup {x}
        /\ Len(stored') = Len(stored) + 1
    BY <1>2, <2>3, StoredLogsGrow
  <2>5. Cardinality(StoredLogs') = IF x \in StoredLogs THEN Cardinality(StoredLogs)
                                   ELSE Cardinality(StoredLogs) + 1
    BY <2>4, StoredLogsFinite, FS_AddElement
  <2>6. x \in StoredLogs => Len(stored) + 1 <= Cardinality(StoredLogs) + faults
    BY <2>3 DEF DupInv, StoresAgain
  <2>7. Len(stored') <= Cardinality(StoredLogs') + faults'
    BY <1>2, <2>4, <2>5, <2>6, DupNumbers DEF DupInv
  <2>8. \A y \in StoredLogs' : y <= Head(queue')
    BY <2>1, <2>3, <2>4 DEF DupInv
  <2>9. Acking'
    BY <1>2 DEF Acking
  <2> QED
    BY <2>1, <2>7, <2>8, <2>9
       DEF DupInv, FewDuplicates, StoresAgain, StoredLogs, Rising
<1> QED BY <1>1, <1>2 DEF StoreEntry

(* The log acknowledged leaves the SSM; the next one is newer than any     *)
(* stored.                                                                 *)
LEMMA EntryStoredKeepsDup ==
    ASSUME TransferInv, DupInv, EntryStored
    PROVE  DupInv'
<1>1. /\ task = "ENTRY_STORED" /\ stored' = stored /\ faults' = faults
      /\ queue' = IF queue = <<>> THEN Emptied ELSE Tail(queue)
  BY DEF EntryStored, Answered, SsmHandles
<1>2. queue # <<>>
  BY <1>1, BusyLinks DEF TransferInv, Storing, OneUnderWay
<1>3. StoredLogs' = StoredLogs
  BY <1>1 DEF StoredLogs
<1>4. /\ Rising(Tail(queue))
      /\ Tail(queue) # <<>> => Head(queue) < Head(Tail(queue))
  BY <1>2, DupNumbers, RisingTail DEF DupInv
<1>5. queue' = Tail(queue)
  BY <1>1, <1>2
<1>6. queue' # <<>> => \A x \in StoredLogs : x < Head(queue')
  <2>1. ASSUME queue' # <<>>, NEW x \in StoredLogs PROVE x < Head(queue')
    <3>1. x \in Nat
      BY StoredLogsFinite, DupNumbers
    <3>2. x <= Head(queue) /\ Head(queue) < Head(queue')
      BY <1>2, <1>4, <1>5, <2>1 DEF DupInv
    <3>3. Head(queue) \in Nat
      BY <1>2, DupNumbers, HeadTailProperties
    <3>4. Tail(queue) \in Seq(Nat)
      BY <1>2, DupNumbers, HeadTailProperties
    <3>5. Head(queue') \in Nat
      BY <1>5, <2>1, <3>4, HeadTailProperties
    <3> QED BY <3>1, <3>2, <3>3, <3>5
  <2> QED BY <2>1
<1>7. /\ queue' # <<>> => \A x \in StoredLogs : x <= Head(queue')
      /\ ~StoresAgain'
  <2>1. ASSUME queue' # <<>>
        PROVE  (\A x \in StoredLogs : x <= Head(queue')) /\ Head(queue') \notin StoredLogs
    <3>1. Tail(queue) \in Seq(Nat)
      BY <1>2, DupNumbers, HeadTailProperties
    <3>2. Head(queue') \in Nat
      BY <1>5, <2>1, <3>1, HeadTailProperties
    <3>3. \A x \in StoredLogs : x \in Nat
      BY StoredLogsFinite, DupNumbers
    <3> QED BY <1>6, <2>1, <3>2, <3>3
  <2> QED BY <1>3, <2>1 DEF StoresAgain
<1>8. FewDuplicates'
  BY <1>1 DEF DupInv, FewDuplicates
<1>9. Rising(queue')
  BY <1>4, <1>5
<1> QED
  BY <1>1, <1>3, <1>7, <1>8, <1>9 DEF DupInv, Rising

(* A new log is newer than all others.                                     *)
LEMMA DailyLogKeepsDup ==
    ASSUME TransferInv, DupInv, DailyLog
    PROVE  DupInv'
<1> DEFINE kept == IF Len(queue) = Size THEN Tail(queue) ELSE queue
           x == day + 1
<1>1. /\ queue' = Append(kept, x)
      /\ UNCHANGED <<stored, faults, toSend, ssmMsgQueue, task>>
  BY DEF DailyLog, Queue!Push
<1>2. StoredLogs' = StoredLogs /\ Acking' = Acking
  BY <1>1 DEF StoredLogs, Acking
<1>3. /\ day \in Nat /\ queue \in Seq(Nat) /\ queue \in Seq(0 .. day)
      /\ \A y \in StoredLogs : y \in Nat /\ y < x
  BY DupNumbers, StoredLogsFinite
<1>4. /\ kept \in Seq(0 .. day) /\ Rising(kept)
      /\ kept # <<>> => queue # <<>> /\ Head(kept) \in Nat /\ Head(queue) \in Nat
                        /\ (kept = queue \/ Head(queue) < Head(kept))
  <2>1. CASE Len(queue) = Size
    <3>1. queue # <<>>
      BY <2>1, ConstantsAreNumbers, EmptySeq
    <3>2. Tail(queue) \in Seq(0 .. day) /\ Tail(queue) \in Seq(Nat) /\ Head(queue) \in Nat
      BY <1>3, <3>1, HeadTailProperties
    <3>3. Tail(queue) # <<>> => Head(Tail(queue)) \in Nat
      BY <3>2, HeadTailProperties
    <3>4. /\ Rising(Tail(queue))
          /\ Tail(queue) # <<>> => Head(queue) < Head(Tail(queue))
      BY <1>3, <3>1, RisingTail DEF DupInv
    <3> QED BY <2>1, <3>1, <3>2, <3>3, <3>4
  <2>2. CASE Len(queue) # Size
    <3>1. queue # <<>> => Head(queue) \in Nat
      BY <1>3, HeadTailProperties
    <3> QED BY <1>3, <2>2, <3>1 DEF DupInv
  <2> QED BY <2>1, <2>2
<1> HIDE DEF kept
<1>5. /\ Rising(queue') /\ queue' # <<>>
      /\ Head(queue') = IF kept = <<>> THEN x ELSE Head(kept)
  <2>1. x \in Nat /\ day < x
    BY <1>3
  <2> HIDE DEF x
  <2> QED BY <1>1, <1>3, <1>4, <2>1, RisingAppend
<1> HIDE DEF x
<1>6. /\ \A y \in StoredLogs : y <= Head(queue')
      /\ Head(queue') \in StoredLogs => queue # <<>> /\ Head(queue) \in StoredLogs
  <2>1. CASE kept = <<>>
    <3>1. Head(queue') = x /\ x \in Nat
      BY <1>3, <1>5, <2>1 DEF x
    <3> QED BY <1>3, <3>1
  <2>2. CASE kept # <<>>
    <3>1. \A y \in StoredLogs : y <= Head(queue) /\ y \in Nat
      BY <1>3, <1>4, <2>2 DEF DupInv
    <3>2. Head(queue') = Head(kept) /\ Head(kept) \in Nat /\ Head(queue) \in Nat
      BY <1>4, <1>5, <2>2
    <3>3. kept = queue \/ Head(queue) < Head(kept)
      BY <1>4, <2>2
    <3>4. CASE kept = queue
      BY <2>2, <3>1, <3>2, <3>4
    <3>5. CASE Head(queue) < Head(kept)
      BY <3>1, <3>2, <3>5
    <3> QED BY <3>3, <3>4, <3>5
  <2> QED BY <2>1, <2>2
<1>7. StoresAgain' => StoresAgain
  BY <1>2, <1>6 DEF StoresAgain
<1> QED
  BY <1>1, <1>2, <1>5, <1>6, <1>7 DEF DupInv, FewDuplicates, StoredLogs, Rising

(* The acknowledgement under way stays so on its way through the queues.   *)
LEMMA AckingStays ==
    ASSUME TransferInv, TakeCommand \/ SendCommand, Acking
    PROVE  Acking'
<1>1. Storing \/ task = "ENTRY_STORED"
  <2>1. <<>> # <<"ENTRY_STORED">> /\ <<"REQUEST_ENTRY">> # <<"ENTRY_STORED">>
        /\ <<"REQUEST_NUM_ENTRIES">> # <<"ENTRY_STORED">>
        /\ <<"REQUEST_STATUS">> # <<"ENTRY_STORED">>
        /\ <<"REQUEST_STATUS", "REQUEST_NUM_ENTRIES">> # <<"ENTRY_STORED">>
    OBVIOUS
  <2> QED
    BY <2>1
       DEF Acking, TransferInv, Chain, Quiet, Noticed, Asking, Requesting, Fetching,
           Received, Finished, At
<1>2. Storing
  BY <1>1, BusyLinks DEF TransferInv
<1>3. CASE TakeCommand
  <2>1. /\ task = "idle" /\ ssmMsgQueue # <<>> /\ toSend' = toSend
    BY <1>3 DEF TakeCommand
  <2>2. CASE ssmMsgQueue = <<"ENTRY_STORED">>
    <3>1. Head(ssmMsgQueue) = "ENTRY_STORED"
      BY <2>2, ShortSequences
    <3> QED BY <1>3, <3>1 DEF TakeCommand, Acking
  <2> QED BY <1>2, <2>1, <2>2 DEF Storing, At
<1>4. CASE SendCommand
  <2>1. /\ toSend # <<>> /\ task' = task
        /\ ssmMsgQueue' = Enqueue(Head(toSend))
    BY <1>4 DEF SendCommand
  <2>2. toSend = <<"ENTRY_STORED">> /\ ssmMsgQueue = <<>>
    BY <1>2, <2>1 DEF Storing, At
  <2>3. ssmMsgQueue' = <<"ENTRY_STORED">>
    <3>1. Len(ssmMsgQueue) <= 1
      BY <2>2
    <3> QED BY <2>1, <2>2, <3>1, EnqueueAppends, ShortSequences
  <2> QED BY <2>3 DEF Acking
<1> QED BY <1>3, <1>4

(* Every step of the orderly transfer keeps it.                            *)
LEMMA DupInvNext == TransferInv /\ DupInv /\ [OrderlyNext]_vars => DupInv'
<1> SUFFICES ASSUME TransferInv, DupInv, [OrderlyNext]_vars PROVE DupInv'
  OBVIOUS
<1>1. CASE DailyLog
  BY <1>1, DailyLogKeepsDup
<1>2. CASE TakeCommand \/ SendCommand
  <2>1. queue' = queue /\ stored' = stored /\ faults' = faults
    BY <1>2 DEF TakeCommand, SendCommand, ssm
  <2> QED BY <1>2, <2>1, AckingStays, SameLogsKeep
<1>3. CASE PollLine
  <2>1. /\ queue' = queue /\ stored' = stored /\ faults' = faults
        /\ UNCHANGED <<toSend, ssmMsgQueue>> /\ task # "ENTRY_STORED"
    BY <1>3 DEF PollLine, ssm
  <2> QED BY <2>1, SameLogsKeep DEF Acking
<1>4. CASE Status \/ NumEntries \/ Entry \/ AttnList \/ AttnAck
  <2>1. /\ stored' = stored /\ faults' = faults /\ toSend' = toSend
        /\ task # "ENTRY_STORED" /\ queue' = queue
    BY <1>4 DEF Status, NumEntries, Entry, AttnList, AttnAck, Answered, SsmHandles
  <2>2. Acking => Acking'
    <3>1. CASE Status \/ Entry \/ AttnList \/ AttnAck
      BY <2>1, <3>1 DEF Status, Entry, AttnList, AttnAck, Acking
    <3>2. CASE NumEntries
      <4>1. toSend = <<>> /\ ssmMsgQueue = <<>>
        BY <3>2, BusyLinks DEF NumEntries, Answered, TransferInv, At
      <4> QED BY <2>1, <4>1 DEF Acking
    <3> QED BY <1>4, <3>1, <3>2
  <2> QED BY <2>1, <2>2, SameLogsKeep
<1>5. CASE EntryStored
  BY <1>5, EntryStoredKeepsDup
<1>6. CASE StoreEntry
  BY <1>6, StoreKeepsDup
<1>7. CASE CheckInActivated \/ SensorDataReady
  <2>1. /\ queue' = queue /\ stored' = stored /\ faults' = faults
        /\ UNCHANGED <<ssmMsgQueue, task>> /\ toSend = <<>>
    BY <1>7 DEF CheckInActivated, SensorDataReady, NextEvent, ssm
  <2> QED BY <2>1, SameLogsKeep DEF Acking
<1>8. CASE RequestLost
  <2>1. /\ queue' = queue /\ stored' = stored /\ UNCHANGED <<toSend, ssmMsgQueue>>
        /\ \/ faults' = faults /\ task' = task
           \/ faults' = faults + 1
    BY <1>8 DEF RequestLost, AmRetries, Fault, ssm
  <2> QED BY <2>1, SameLogsKeep DEF Acking
<1>9. CASE Wake
  <2>1. /\ queue' = queue /\ stored' = stored /\ faults' = faults
        /\ UNCHANGED <<toSend, ssmMsgQueue, task>>
    BY <1>9 DEF Wake, ssm
  <2> QED BY <2>1, SameLogsKeep DEF Acking
<1>10. CASE Sleep
  <2>1. /\ queue' = queue /\ stored' = stored /\ faults' = faults /\ ~Acking
    BY <1>10 DEF Sleep, TurnOff, AtRest, ssm, Acking
  <2> QED BY <2>1, SameLogsKeep
<1>11. CASE Cut
  <2>1. /\ queue' = queue /\ stored' = stored /\ faults' = faults + 1
    BY <1>11 DEF Cut, TurnOff, Fault, ssm
  <2> QED BY <2>1, SameLogsKeep
<1>12. CASE UNCHANGED vars
  <2>1. /\ queue' = queue /\ stored' = stored /\ faults' = faults
        /\ UNCHANGED <<toSend, ssmMsgQueue, task>>
    BY <1>12 DEF vars
  <2> QED BY <2>1, SameLogsKeep DEF Acking
<1> QED
  BY <1>1, <1>2, <1>3, <1>4, <1>5, <1>6, <1>7, <1>8, <1>9, <1>10, <1>11, <1>12
     DEF OrderlyNext, PromptNext, SpiTask, EventTask

(* The flash of the AM holds at most one copy too many for each request    *)
(* lost, write failed or supply cut: handleEvent (eventManager.c) queues   *)
(* ENTRY_STORED once the log is written, and unless a failure loses it the *)
(* SSM drops that log, so that no second request can fetch it.             *)
THEOREM FailuresBoundDuplicates == OrderlySpec => []FewDuplicates
<1>1. DupInv => FewDuplicates
  BY DEF DupInv
<1> QED
  BY <1>1, DupInvInit, DupInvNext, TransferInvInit, TransferInvNext, PTL DEF OrderlySpec
=============================================================================
