---------------------------- MODULE FlashHandler ----------------------------
(***************************************************************************)
(* Reads and writes of the AM's NAND flash by its FreeRTOS tasks           *)
(* (am/src/handlers/flashHandler.c).  The chip erases whole blocks, so     *)
(* FLASH_write reads the block into blockBuffer, replaces the new data     *)
(* there, erases the block and programs it page by page.  blockBuffer is a *)
(* single global that FLASH_read uses too.  All tasks have one priority    *)
(* and are time-sliced, and a task may lose the CPU between any two page   *)
(* operations.                                                             *)
(*                                                                         *)
(* Only xReadCurrentEntry and xUpdateCurrentEntry of memMapHandler.c hold  *)
(* xMemMapMutex around these calls; the reads and pops of the sensor log,  *)
(* the section defaults, the OTA download and the SSM programming do not.  *)
(* A task makes some of its calls under the mutex and others without it.   *)
(*                                                                         *)
(* A page is the unit of data: what a call replaces or reads is one page.  *)
(* A block that fails to erase or to program is not modelled.              *)
(***************************************************************************)
EXTENDS Naturals

CONSTANTS
    Tasks,      \* the tasks that use the flash
    Blocks,
    NumPages,   \* pages of a block
    Data,       \* contents of a page
    Erased,     \* content of an erased page
    NoTask      \* holder of a free mutex

ASSUME TasksAssumption == NoTask \notin Tasks
ASSUME DataAssumption == Erased \notin Data
ASSUME PagesAssumption == NumPages \in Nat \ {0}

Page == 1 .. NumPages

VARIABLES
    flash,        \* contents of the pages
    blockBuffer,  \* the shared RAM buffer, one block long
    xMemMapMutex, \* its holder
    pc,           \* what a task does next
    call,         \* the call a task makes: block, page and data to write
    page,         \* next page of the task's walk through the block
    want,         \* what flash must hold: the data last written to each page
    overlapped    \* tasks whose call overlapped one without the mutex (history)

vars == <<flash, blockBuffer, xMemMapMutex, pc, call, page, want, overlapped>>

\* The value of call for a task that makes none.
NoCall == [op |-> "none"]

\* mutex: whether the call is made under xMemMapMutex.
CallRecord == [block : Blocks, page : Page, data : Data, op : {"read", "fill"},
               mutex : BOOLEAN]

\* A task inside FLASH_read or FLASH_write.
InCall(t) == pc[t] \in {"fill", "erase", "program", "read", "copy"}

\* Task t enters, with the mutex or not: it overlaps the calls it finds
\* under way, if one of the two is made without the mutex.
Enter(t, mutex) ==
    LET met == {u \in Tasks \ {t} : InCall(u) /\ ~(mutex /\ call[u].mutex)}
    IN  overlapped' = IF met = {} THEN overlapped ELSE overlapped \cup met \cup {t}

-----------------------------------------------------------------------------
\* A task calls FLASH_read or FLASH_write, through the mutex or directly.
Call(t) ==
    /\ pc[t] = "idle"
    /\ \E c \in CallRecord :
          /\ call' = [call EXCEPT ![t] = c]
          /\ pc' = [pc EXCEPT ![t] = IF c.mutex THEN "take" ELSE c.op]
          /\ IF c.mutex THEN UNCHANGED overlapped ELSE Enter(t, FALSE)
    /\ UNCHANGED <<flash, blockBuffer, xMemMapMutex, page, want>>

\* Mutant of TakeMutex: the mutex is not waited for.
TakeMutexHeld(t) ==
    /\ pc[t] = "take"
    /\ xMemMapMutex' = t
    /\ pc' = [pc EXCEPT ![t] = call[t].op]
    /\ Enter(t, TRUE)
    /\ UNCHANGED <<flash, blockBuffer, call, page, want>>

TakeMutex(t) ==
    /\ pc[t] = "take"
    /\ xMemMapMutex = NoTask
    /\ xMemMapMutex' = t
    /\ pc' = [pc EXCEPT ![t] = call[t].op]
    /\ Enter(t, TRUE)
    /\ UNCHANGED <<flash, blockBuffer, call, page, want>>

\* Mutant of MutexTimeout: the mutex is waited for without a limit.
MutexTimeoutStays(t) ==
    /\ pc[t] = "take"
    /\ xMemMapMutex # NoTask
    /\ UNCHANGED vars

\* xSemaphoreTake gives up after 6000 ticks: the entry is not read or written.
MutexTimeout(t) ==
    /\ pc[t] = "take"
    /\ xMemMapMutex # NoTask
    /\ pc' = [pc EXCEPT ![t] = "idle"]
    /\ call' = [call EXCEPT ![t] = NoCall]
    /\ UNCHANGED <<flash, blockBuffer, xMemMapMutex, page, want, overlapped>>

\* The call returns, and the mutex if it was taken.
Return(t) ==
    /\ pc' = [pc EXCEPT ![t] = "idle"]
    /\ call' = [call EXCEPT ![t] = NoCall]
    /\ page' = [page EXCEPT ![t] = 1]
    /\ xMemMapMutex' = IF call[t].mutex THEN NoTask ELSE xMemMapMutex
    /\ overlapped' = overlapped \ {t}

\* FLASH_write walks through the pages of the block and reads them.
FillBuffer(t) ==
    /\ pc[t] = "fill"
    /\ blockBuffer' = [blockBuffer EXCEPT ![page[t]] =
                          flash[call[t].block][page[t]]]
    /\ page' = [page EXCEPT ![t] = IF page[t] = NumPages THEN 1 ELSE page[t] + 1]
    /\ pc' = [pc EXCEPT ![t] = IF page[t] = NumPages THEN "erase" ELSE "fill"]
    /\ UNCHANGED <<flash, xMemMapMutex, call, want, overlapped>>

\* The new data goes into the buffer, and the block is erased.
Erase(t) ==
    /\ pc[t] = "erase"
    /\ LET c == call[t]
       IN  /\ blockBuffer' = [blockBuffer EXCEPT ![c.page] = c.data]
           /\ flash' = [flash EXCEPT ![c.block] = [p \in Page |-> Erased]]
           /\ want' = [want EXCEPT ![c.block][c.page] = c.data]
    /\ pc' = [pc EXCEPT ![t] = "program"]
    /\ UNCHANGED <<xMemMapMutex, call, page, overlapped>>

\* The pages are programmed from the buffer.  What an overlapped write leaves
\* is from then on what its block must hold.
Program(t) ==
    /\ pc[t] = "program"
    /\ flash' = [flash EXCEPT ![call[t].block][page[t]] = blockBuffer[page[t]]]
    /\ IF page[t] = NumPages
       THEN /\ Return(t)
            /\ want' = IF t \in overlapped
                       THEN [want EXCEPT ![call[t].block] = flash'[call[t].block]]
                       ELSE want
       ELSE /\ page' = [page EXCEPT ![t] = page[t] + 1]
            /\ UNCHANGED <<pc, call, xMemMapMutex, want, overlapped>>
    /\ UNCHANGED blockBuffer

\* Mutant of ReadPage: the page goes to its own place in the buffer, as in
\* FLASH_write, but is copied from the start.
ReadPageInPlace(t) ==
    /\ pc[t] = "read"
    /\ blockBuffer' = [blockBuffer EXCEPT ![call[t].page] =
                          flash[call[t].block][call[t].page]]
    /\ pc' = [pc EXCEPT ![t] = "copy"]
    /\ UNCHANGED <<flash, xMemMapMutex, call, page, want, overlapped>>

\* FLASH_read reads the page to the start of the buffer ...
ReadPage(t) ==
    /\ pc[t] = "read"
    /\ blockBuffer' = [blockBuffer EXCEPT ![1] = flash[call[t].block][call[t].page]]
    /\ pc' = [pc EXCEPT ![t] = "copy"]
    /\ UNCHANGED <<flash, xMemMapMutex, call, page, want, overlapped>>

\* ... and copies it from there to the caller.
ReadCopy(t) ==
    /\ pc[t] = "copy"
    /\ Return(t)
    /\ UNCHANGED <<flash, blockBuffer, want>>

\* FlashPageRead fails: both functions give up, and FLASH_write has not
\* erased anything yet.
PageReadFails(t) ==
    /\ pc[t] \in {"fill", "read"}
    /\ Return(t)
    /\ UNCHANGED <<flash, blockBuffer, want>>

-----------------------------------------------------------------------------
Init ==
    /\ flash = [b \in Blocks |-> [p \in Page |-> Erased]]
    /\ blockBuffer = [p \in Page |-> Erased]
    /\ xMemMapMutex = NoTask
    /\ pc = [t \in Tasks |-> "idle"]
    /\ call = [t \in Tasks |-> NoCall]
    /\ page = [t \in Tasks |-> 1]
    /\ want = flash
    /\ overlapped = {}

Step(t) ==
    \/ TakeMutex(t) \/ MutexTimeout(t)
    \/ FillBuffer(t) \/ Erase(t) \/ Program(t)
    \/ ReadPage(t) \/ ReadCopy(t) \/ PageReadFails(t)

Next == \E t \in Tasks : Call(t) \/ Step(t)

\* The scheduler's time slices let every task go on with its call.
Fairness == \A t \in Tasks : WF_vars(Step(t))

Spec == Init /\ [][Next]_vars /\ Fairness

-----------------------------------------------------------------------------
TypeOK ==
    /\ flash \in [Blocks -> [Page -> Data \cup {Erased}]]
    /\ blockBuffer \in [Page -> Data \cup {Erased}]
    /\ xMemMapMutex \in Tasks \cup {NoTask}
    /\ pc \in [Tasks -> {"idle", "take", "fill", "erase", "program", "read", "copy"}]
    /\ call \in [Tasks -> CallRecord \cup {NoCall}]
    /\ page \in [Tasks -> Page]
    /\ want \in [Blocks -> [Page -> Data \cup {Erased}]]
    /\ overlapped \subseteq Tasks

\* A block is in flux while a task has erased it and not yet programmed it.
InFlux(b) == \E t \in Tasks : pc[t] = "program" /\ call[t].block = b

(* A write changes nothing but its own block, and of that only its own     *)
(* data unless it overlapped a call made without the mutex: a block no     *)
(* task is writing holds exactly the data last written to each of its      *)
(* pages, and what the last overlapped write left of the others.  So two   *)
(* calls under the mutex never disturb each other, whatever tasks that do  *)
(* not take it do before and after.                                        *)
OnlyReplacesItsData == \A b \in Blocks : ~InFlux(b) => flash[b] = want[b]

(* A FLASH_read returns the data last written to the page it asked for,    *)
(* not what another task put in the shared buffer or has erased, unless it *)
(* overlapped a call and one of the two was made without the mutex.        *)
ReadsWhatWasWritten ==
    [][\A t \in Tasks : ReadCopy(t) /\ t \notin overlapped =>
          blockBuffer[1] = want[call[t].block][call[t].page]]_vars

(* Every call ends: no task waits for the flash or the mutex for ever.     *)
CallsEnd == \A t \in Tasks : pc[t] # "idle" ~> pc[t] = "idle"
=============================================================================
