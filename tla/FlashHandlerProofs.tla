------------------------- MODULE FlashHandlerProofs -------------------------
(***************************************************************************)
(* Proofs about FlashHandler, for any tasks, blocks, pages and data, and   *)
(* any mixture of calls with and without xMemMapMutex: the types, what     *)
(* writes can change, and what reads return.                               *)
(***************************************************************************)
EXTENDS FlashHandler, TLAPS

\* A task that is not idle has a call to make, one that waits for the mutex
\* a call under it.
CallsKnown ==
    \A t \in Tasks : /\ pc[t] # "idle" => call[t] \in CallRecord
                     /\ pc[t] = "take" => call[t].mutex

TypeInv == TypeOK /\ CallsKnown

(* The first and the last page are pages, and so is the one after a page   *)
(* that is not the last.                                                   *)
LEMMA PageSteps ==
    /\ 1 \in Page /\ NumPages \in Page
    /\ \A p \in Page : p # NumPages => p + 1 \in Page
BY PagesAssumption DEF Page

LEMMA TypeInit == Init => TypeInv
BY PageSteps DEF Init, TypeInv, TypeOK, CallsKnown, Page

\* Only tasks overlap.
LEMMA EnterType ==
    ASSUME NEW t \in Tasks, NEW m, overlapped \subseteq Tasks, Enter(t, m)
    PROVE  overlapped' \subseteq Tasks
BY DEF Enter

-----------------------------------------------------------------------------
(* Every step of a task preserves the types, with or without the mutex.    *)
LEMMA TypeStep == TypeInv /\ [Next]_vars => TypeInv'
<1> SUFFICES ASSUME TypeInv, [Next]_vars PROVE TypeInv'
  OBVIOUS
<1> USE DEF TypeInv, TypeOK, CallsKnown
<1>1. CASE UNCHANGED vars
  BY <1>1 DEF vars
<1>2. ASSUME NEW t \in Tasks, Call(t) \/ Step(t) PROVE TypeInv'
  <2>1. CASE Call(t)
    <3>1. PICK c \in CallRecord :
              /\ call' = [call EXCEPT ![t] = c]
              /\ pc' = [pc EXCEPT ![t] = IF c.mutex THEN "take" ELSE c.op]
              /\ IF c.mutex THEN UNCHANGED overlapped ELSE Enter(t, FALSE)
      BY <2>1 DEF Call
    <3>2. c.op \in {"read", "fill"}
      BY DEF CallRecord
    <3>3. overlapped' \subseteq Tasks
      BY <3>1, EnterType
    <3> QED BY <2>1, <3>1, <3>2, <3>3 DEF Call
  <2>2. CASE TakeMutex(t)
    <3>1. call[t].op \in {"read", "fill"}
      BY <2>2 DEF TakeMutex, CallRecord
    <3>2. overlapped' \subseteq Tasks
      BY <2>2, EnterType DEF TakeMutex
    <3> QED BY <2>2, <3>1, <3>2 DEF TakeMutex
  <2>3. CASE MutexTimeout(t)
    BY <2>3 DEF MutexTimeout
  <2>4. CASE FillBuffer(t)
    <3>1. call[t].block \in Blocks
      BY <2>4 DEF FillBuffer, CallRecord
    <3>2. page' \in [Tasks -> Page]
      <4>1. (IF page[t] = NumPages THEN 1 ELSE page[t] + 1) \in Page
        BY PageSteps
      <4> QED BY <2>4, <4>1 DEF FillBuffer
    <3>3. blockBuffer' \in [Page -> Data \cup {Erased}]
      BY <2>4, <3>1 DEF FillBuffer
    <3> QED BY <2>4, <3>2, <3>3 DEF FillBuffer
  <2>5. CASE Erase(t)
    <3>1. /\ call[t].block \in Blocks
          /\ call[t].page \in Page
          /\ call[t].data \in Data
      BY <2>5 DEF Erase, CallRecord
    <3>2. blockBuffer' \in [Page -> Data \cup {Erased}]
      BY <2>5, <3>1 DEF Erase
    <3>3. flash' \in [Blocks -> [Page -> Data \cup {Erased}]]
      BY <2>5, <3>1 DEF Erase
    <3>4. want' \in [Blocks -> [Page -> Data \cup {Erased}]]
      BY <2>5, <3>1 DEF Erase
    <3> QED BY <2>5, <3>2, <3>3, <3>4 DEF Erase
  <2>6. CASE Program(t)
    <3>1. call[t].block \in Blocks
      BY <2>6 DEF Program, CallRecord
    <3>2. flash' \in [Blocks -> [Page -> Data \cup {Erased}]]
      BY <2>6, <3>1 DEF Program
    <3>3. CASE page[t] = NumPages
      <4>1. want' \in [Blocks -> [Page -> Data \cup {Erased}]]
        BY <2>6, <3>1, <3>2, <3>3 DEF Program
      <4>2. Return(t) /\ blockBuffer' = blockBuffer
        BY <2>6, <3>3 DEF Program
      <4> QED BY <3>2, <4>1, <4>2, PageSteps DEF Return
    <3>4. CASE page[t] # NumPages
      <4>1. page[t] + 1 \in Page
        BY <3>4, PageSteps
      <4>2. page' \in [Tasks -> Page]
        BY <2>6, <3>4, <4>1 DEF Program
      <4> QED BY <2>6, <3>2, <3>4, <4>2 DEF Program
    <3> QED BY <3>3, <3>4
  <2>7. CASE ReadPage(t)
    <3>1. call[t].block \in Blocks /\ call[t].page \in Page
      BY <2>7 DEF ReadPage, CallRecord
    <3> QED BY <2>7, <3>1, PageSteps DEF ReadPage
  <2>8. CASE ReadCopy(t)
    BY <2>8, PageSteps DEF ReadCopy, Return
  <2>9. CASE PageReadFails(t)
    BY <2>9, PageSteps DEF PageReadFails, Return
  <2> QED
    BY <1>2, <2>1, <2>2, <2>3, <2>4, <2>5, <2>6, <2>7, <2>8, <2>9 DEF Step
<1> QED BY <1>1, <1>2 DEF Next

(* The type invariant, for tasks that take the mutex and tasks that do not. *)
THEOREM TypeCorrect == Spec => []TypeOK
<1>1. TypeInv => TypeOK
  BY DEF TypeInv
<1> QED BY <1>1, TypeInit, TypeStep, PTL DEF Spec

-----------------------------------------------------------------------------
(* The strengthening that makes OnlyReplacesItsData inductive.  A call     *)
(* under the mutex holds it, so calls that meet inside are marked as       *)
(* overlapped.  For a call that is not, the block buffer holds the wanted  *)
(* pages read so far, the whole wanted block while that block is erased    *)
(* and programmed, and the wanted page of a read.                          *)
Exclusive == \A t \in Tasks : InCall(t) /\ call[t].mutex => xMemMapMutex = t

Overlaps ==
    \A t, u \in Tasks : InCall(t) /\ InCall(u) /\ t # u => t \in overlapped

Wanted(t, p) == want[call[t].block][p]

\* What the buffer holds for the call of task t.
BufferOf(t) ==
    /\ pc[t] = "fill" => \A p \in Page : p < page[t] => blockBuffer[p] = Wanted(t, p)
    /\ pc[t] \in {"erase", "program"} => \A p \in Page : blockBuffer[p] = Wanted(t, p)
    /\ pc[t] = "program" =>
           \A p \in Page : p < page[t] => flash[call[t].block][p] = Wanted(t, p)
    /\ pc[t] = "copy" => blockBuffer[1] = Wanted(t, call[t].page)

BufferInv == \A t \in Tasks : t \notin overlapped => BufferOf(t)

\* FillBuffer and Program start with the first page.
FirstPage ==
    \A t \in Tasks : pc[t] \in {"idle", "take", "erase", "read", "copy"} => page[t] = 1

FlashInv ==
    /\ TypeInv /\ Exclusive /\ Overlaps /\ FirstPage
    /\ BufferInv /\ OnlyReplacesItsData

(* A call that overlaps none keeps all other tasks out of theirs.          *)
LEMMA OthersOutside ==
    ASSUME Overlaps, NEW t \in Tasks, NEW u \in Tasks, InCall(t), u # t,
           t \notin overlapped \/ u \notin overlapped
    PROVE  ~InCall(u)
BY DEF Overlaps

(* While such a call has not erased its block, no block is in flux; when   *)
(* it has, only that one is.                                               *)
LEMMA FluxIsMine ==
    ASSUME Overlaps, NEW t \in Tasks, InCall(t), t \notin overlapped,
           NEW b \in Blocks, InFlux(b)
    PROVE  pc[t] = "program" /\ call[t].block = b
<1>1. PICK u \in Tasks : pc[u] = "program" /\ call[u].block = b
  BY DEF InFlux
<1>2. InCall(u)
  BY <1>1 DEF InCall
<1> QED BY <1>1, <1>2, OthersOutside

(* A step of task t inside its call.                                       *)
Inside(t) ==
    FillBuffer(t) \/ Erase(t) \/ Program(t) \/ ReadPage(t) \/ ReadCopy(t)
        \/ PageReadFails(t)

(* It leaves the other tasks where they are, and t in the call or idle.    *)
LEMMA InsideStep ==
    ASSUME TypeInv, NEW t \in Tasks, Inside(t)
    PROVE  /\ InCall(t)
           /\ \A u \in Tasks : u # t => pc'[u] = pc[u] /\ call'[u] = call[u]
           /\ \/ /\ InCall(t)' /\ call'[t] = call[t] /\ overlapped' = overlapped
                 /\ xMemMapMutex' = xMemMapMutex
              \/ /\ ~InCall(t)' /\ pc'[t] = "idle" /\ overlapped' = overlapped \ {t}
                 /\ xMemMapMutex' = IF call[t].mutex THEN NoTask ELSE xMemMapMutex
<1> USE DEF TypeInv, TypeOK, InCall
<1>1. CASE FillBuffer(t)
  BY <1>1 DEF FillBuffer
<1>2. CASE Erase(t)
  BY <1>2 DEF Erase
<1>3. CASE Program(t)
  BY <1>3 DEF Program, Return
<1>4. CASE ReadPage(t)
  BY <1>4 DEF ReadPage
<1>5. CASE ReadCopy(t)
  BY <1>5 DEF ReadCopy, Return
<1>6. CASE PageReadFails(t)
  BY <1>6 DEF PageReadFails, Return
<1> QED BY <1>1, <1>2, <1>3, <1>4, <1>5, <1>6 DEF Inside

(* A call without the mutex, and one that has just taken it, begins.       *)
Begins(t, m) ==
    /\ ~InCall(t) /\ Enter(t, m) /\ m = call'[t].mutex
    /\ call'[t] \in CallRecord /\ pc'[t] = call'[t].op
    /\ \A u \in Tasks : u # t => pc'[u] = pc[u] /\ call'[u] = call[u]
    /\ IF m THEN xMemMapMutex = NoTask /\ xMemMapMutex' = t
       ELSE xMemMapMutex' = xMemMapMutex
    /\ page[t] = 1
    /\ UNCHANGED <<flash, blockBuffer, page, want>>

(* A task waits for the mutex or gives up.                                 *)
Waits(t) ==
    /\ ~InCall(t) /\ ~InCall(t)' /\ pc'[t] \in {"take", "idle"} /\ page[t] = 1
    /\ \A u \in Tasks : u # t => pc'[u] = pc[u] /\ call'[u] = call[u]
    /\ UNCHANGED <<flash, blockBuffer, xMemMapMutex, page, want, overlapped>>

(* The forms a step can take.                                              *)
LEMMA StepForms ==
    ASSUME TypeInv, FirstPage, NEW t \in Tasks, Call(t) \/ Step(t)
    PROVE  Begins(t, TRUE) \/ Begins(t, FALSE) \/ Waits(t) \/ Inside(t)
<1> USE DEF TypeInv, TypeOK, FirstPage
<1>1. CASE Call(t)
  <2>1. PICK c \in CallRecord :
            /\ call' = [call EXCEPT ![t] = c]
            /\ pc' = [pc EXCEPT ![t] = IF c.mutex THEN "take" ELSE c.op]
            /\ IF c.mutex THEN UNCHANGED overlapped ELSE Enter(t, FALSE)
    BY <1>1 DEF Call
  <2>2. pc[t] = "idle" /\ page[t] = 1 /\ ~InCall(t)
    BY <1>1 DEF Call, InCall
  <2>3. /\ call'[t] = c /\ pc'[t] = IF c.mutex THEN "take" ELSE c.op
        /\ \A u \in Tasks : u # t => pc'[u] = pc[u] /\ call'[u] = call[u]
    BY <2>1
  <2>4. c.mutex \in BOOLEAN
    BY DEF CallRecord
  <2>5. UNCHANGED <<flash, blockBuffer, xMemMapMutex, page, want>>
    BY <1>1 DEF Call
  <2>6. CASE c.mutex
    BY <2>1, <2>2, <2>3, <2>5, <2>6 DEF Waits, InCall
  <2>7. CASE ~c.mutex
    <3>1. c.mutex = FALSE
      BY <2>4, <2>7
    <3> QED BY <2>1, <2>2, <2>3, <2>5, <2>7, <3>1 DEF Begins
  <2> QED BY <2>6, <2>7
<1>2. CASE TakeMutex(t)
  <2>1. /\ pc[t] = "take" /\ call'[t] = call[t] /\ call[t] \in CallRecord
        /\ xMemMapMutex = NoTask /\ xMemMapMutex' = t /\ page[t] = 1
        /\ pc'[t] = call[t].op /\ Enter(t, TRUE)
        /\ \A u \in Tasks : u # t => pc'[u] = pc[u] /\ call'[u] = call[u]
        /\ UNCHANGED <<flash, blockBuffer, page, want>>
    BY <1>2 DEF TakeMutex, CallsKnown
  <2>2. call[t].mutex = TRUE
    BY <1>2, <2>1 DEF TakeMutex, CallsKnown, CallRecord
  <2> QED BY <2>1, <2>2 DEF Begins, InCall
<1>3. CASE MutexTimeout(t)
  BY <1>3 DEF MutexTimeout, Waits, InCall
<1> QED BY <1>1, <1>2, <1>3 DEF Step, Inside

(* Entering marks the calls that meet.                                     *)
LEMMA EnterMarks ==
    ASSUME NEW t \in Tasks, NEW m, Enter(t, m)
    PROVE  /\ overlapped \subseteq overlapped'
           /\ \A u \in Tasks : u # t /\ InCall(u) /\ ~(m /\ call[u].mutex)
                 => t \in overlapped' /\ u \in overlapped'
BY DEF Enter

(* A task that enters a call under the mutex holds it.                     *)
LEMMA ExclusiveStep ==
    ASSUME FlashInv, NEW t \in Tasks, Call(t) \/ Step(t)
    PROVE  Exclusive'
<1>1. Begins(t, TRUE) \/ Begins(t, FALSE) \/ Waits(t) \/ Inside(t)
  BY StepForms DEF FlashInv
<1>2. SUFFICES ASSUME NEW u \in Tasks, InCall(u)', call'[u].mutex
               PROVE  xMemMapMutex' = u
  BY DEF Exclusive
<1>3. ASSUME u # t, pc'[u] = pc[u], call'[u] = call[u]
      PROVE  InCall(u) /\ xMemMapMutex = u /\ xMemMapMutex # NoTask
  BY <1>2, <1>3, TasksAssumption DEF FlashInv, Exclusive, InCall
<1>4. CASE Begins(t, TRUE)
  BY <1>3, <1>4 DEF Begins
<1>5. CASE Begins(t, FALSE)
  BY <1>2, <1>3, <1>5 DEF Begins
<1>6. CASE Waits(t)
  BY <1>2, <1>3, <1>6 DEF Waits
<1>7. CASE Inside(t)
  <2>1. /\ InCall(t)
        /\ \A v \in Tasks : v # t => pc'[v] = pc[v] /\ call'[v] = call[v]
        /\ \/ /\ InCall(t)' /\ call'[t] = call[t]
              /\ xMemMapMutex' = xMemMapMutex
           \/ /\ ~InCall(t)'
              /\ xMemMapMutex' = IF call[t].mutex THEN NoTask ELSE xMemMapMutex
    BY <1>7, InsideStep DEF FlashInv
  <2>2. call[t].mutex => xMemMapMutex = t
    BY <2>1 DEF FlashInv, Exclusive
  <2> QED BY <1>2, <1>3, <2>1, <2>2
<1> QED BY <1>1, <1>4, <1>5, <1>6, <1>7

(* Two tasks inside are both marked: one entered after the other, and not  *)
(* both hold the mutex.                                                    *)
LEMMA OverlapsStep ==
    ASSUME FlashInv, NEW t \in Tasks, Call(t) \/ Step(t)
    PROVE  Overlaps'
<1>1. Begins(t, TRUE) \/ Begins(t, FALSE) \/ Waits(t) \/ Inside(t)
  BY StepForms DEF FlashInv
<1>2. SUFFICES ASSUME NEW u \in Tasks, NEW v \in Tasks, u # v, InCall(u)', InCall(v)'
               PROVE  u \in overlapped'
  BY DEF Overlaps
<1>3. ASSUME NEW m \in BOOLEAN, Begins(t, m) PROVE u \in overlapped'
  <2>1. \A w \in Tasks : w # t => pc'[w] = pc[w]
    BY <1>3 DEF Begins
  <2>2. ASSUME NEW w \in Tasks, w # t, InCall(w) PROVE ~(m /\ call[w].mutex)
    BY <1>3, <2>2, TasksAssumption DEF Begins, FlashInv, Exclusive
  <2>3. /\ overlapped \subseteq overlapped'
        /\ \A w \in Tasks : w # t /\ InCall(w) => t \in overlapped' /\ w \in overlapped'
    BY <1>3, <2>2, EnterMarks DEF Begins
  <2>4. CASE u = t \/ v = t
    BY <1>2, <2>1, <2>3, <2>4 DEF InCall
  <2>5. CASE u # t /\ v # t
    BY <1>2, <2>1, <2>3, <2>5 DEF InCall, FlashInv, Overlaps
  <2> QED BY <2>4, <2>5
<1>4. CASE Waits(t)
  <2>1. u # t /\ v # t /\ InCall(u) /\ InCall(v)
    BY <1>2, <1>4 DEF Waits, InCall
  <2> QED BY <1>2, <1>4, <2>1 DEF Waits, FlashInv, Overlaps
<1>5. CASE Inside(t)
  <2>1. /\ InCall(t)
        /\ \A w \in Tasks : w # t => pc'[w] = pc[w]
        /\ \/ InCall(t)' /\ overlapped' = overlapped
           \/ ~InCall(t)' /\ overlapped' = overlapped \ {t}
    BY <1>5, InsideStep DEF FlashInv
  <2>2. InCall(u) /\ InCall(v)
    BY <1>2, <2>1 DEF InCall
  <2>3. u \in overlapped
    BY <1>2, <2>2 DEF FlashInv, Overlaps
  <2> QED BY <1>2, <2>1, <2>3
<1> QED BY <1>1, <1>3, <1>4, <1>5

(* A call that ends or has not begun leaves the page index at 1.           *)
LEMMA FirstPageStep ==
    ASSUME TypeInv, FirstPage, NEW t \in Tasks, Call(t) \/ Step(t)
    PROVE  FirstPage'
<1> USE DEF TypeInv, TypeOK, FirstPage
<1>1. CASE Call(t)
  BY <1>1 DEF Call
<1>2. CASE TakeMutex(t) \/ MutexTimeout(t)
  BY <1>2 DEF TakeMutex, MutexTimeout
<1>3. CASE FillBuffer(t)
  BY <1>3 DEF FillBuffer
<1>4. CASE Erase(t)
  BY <1>4 DEF Erase
<1>5. CASE Program(t)
  BY <1>5 DEF Program, Return
<1>6. CASE ReadPage(t)
  BY <1>6 DEF ReadPage
<1>7. CASE ReadCopy(t)
  BY <1>7 DEF ReadCopy, Return
<1>8. CASE PageReadFails(t)
  BY <1>8 DEF PageReadFails, Return
<1> QED BY <1>1, <1>2, <1>3, <1>4, <1>5, <1>6, <1>7, <1>8 DEF Step

-----------------------------------------------------------------------------
(* What a step does to the calls of the other tasks: nothing, or it marks  *)
(* them.                                                                   *)
LEMMA OthersBuffer ==
    ASSUME FlashInv, NEW t \in Tasks, Call(t) \/ Step(t),
           NEW u \in Tasks, u # t, u \notin overlapped'
    PROVE  BufferOf(u)'
<1>1. Begins(t, TRUE) \/ Begins(t, FALSE) \/ Waits(t) \/ Inside(t)
  BY StepForms DEF FlashInv
<1>2. CASE Begins(t, TRUE) \/ Begins(t, FALSE) \/ Waits(t)
  <2>1. overlapped \subseteq overlapped'
    BY <1>2, EnterMarks DEF Begins, Waits
  <2>2. BufferOf(u)
    BY <2>1 DEF FlashInv, BufferInv
  <2>3. /\ pc'[u] = pc[u] /\ call'[u] = call[u]
        /\ UNCHANGED <<flash, blockBuffer, page, want>>
    BY <1>2 DEF Begins, Waits
  <2> QED BY <2>2, <2>3 DEF BufferOf, Wanted
<1>3. CASE Inside(t)
  <2>1. InCall(t) /\ pc'[u] = pc[u] /\ overlapped \ {t} \subseteq overlapped'
    BY <1>3, InsideStep DEF FlashInv
  <2>2. ~InCall(u)
    BY <2>1, OthersOutside DEF FlashInv
  <2> QED BY <2>1, <2>2 DEF BufferOf, InCall
<1> QED BY <1>1, <1>2, <1>3

(* What a step does to the buffer of its own call.                         *)
LEMMA OwnBuffer ==
    ASSUME FlashInv, NEW t \in Tasks, Call(t) \/ Step(t), t \notin overlapped'
    PROVE  BufferOf(t)'
<1> USE DEF FlashInv, TypeInv, TypeOK
<1>1. CASE Begins(t, TRUE) \/ Begins(t, FALSE) \/ Waits(t)
  <2>1. pc'[t] \in {"fill", "read", "take", "idle"} /\ page'[t] = 1
    BY <1>1 DEF Begins, Waits, CallRecord
  <2>2. \A p \in Page : ~(p < 1)
    BY DEF Page
  <2> QED BY <2>1, <2>2 DEF BufferOf
<1>2. CASE Inside(t)
  <2>1. pc'[t] = "idle" => BufferOf(t)'
    BY DEF BufferOf
  <2>2. InCall(t) /\ (pc'[t] # "idle" => t \notin overlapped)
    BY <1>2, InsideStep
  <2>3. pc'[t] # "idle" => BufferOf(t)
    BY <2>2 DEF BufferInv
  <2>4. call[t] \in CallRecord /\ call[t].block \in Blocks /\ call[t].page \in Page
    BY <2>2 DEF InCall, CallsKnown, CallRecord
  <2>5. CASE FillBuffer(t)
    <3>1. pc'[t] # "idle" /\ page[t] \in Page
      BY <2>5 DEF FillBuffer
    <3>2. flash[call[t].block] = want[call[t].block]
      BY <2>2, <2>4, <2>5, <3>1, FluxIsMine DEF FillBuffer, OnlyReplacesItsData
    <3>3. \A p \in Page : p <= page[t] => blockBuffer'[p] = Wanted(t, p)
      BY <2>3, <2>5, <3>1, <3>2 DEF FillBuffer, BufferOf, Wanted, Page
    <3>4. CASE page[t] = NumPages
      BY <2>5, <3>1, <3>3, <3>4 DEF FillBuffer, BufferOf, Wanted, Page
    <3>5. CASE page[t] # NumPages
      BY <2>5, <3>1, <3>3, <3>5 DEF FillBuffer, BufferOf, Wanted, Page
    <3> QED BY <3>4, <3>5
  <2>6. CASE Erase(t)
    <3>1. pc'[t] = "program" /\ page'[t] = 1
      BY <2>6 DEF Erase, FirstPage
    <3>2. \A p \in Page : blockBuffer[p] = Wanted(t, p)
      BY <2>3, <2>6, <3>1 DEF Erase, BufferOf
    <3>3. \A p \in Page : blockBuffer'[p] = want'[call[t].block][p]
      BY <2>4, <2>6, <3>2 DEF Erase, Wanted
    <3>4. \A p \in Page : ~(p < 1)
      BY DEF Page
    <3> QED BY <2>6, <3>1, <3>3, <3>4 DEF Erase, BufferOf, Wanted
  <2>7. CASE Program(t) /\ page[t] # NumPages
    <3>1. /\ page'[t] = page[t] + 1 /\ pc'[t] = "program"
          /\ UNCHANGED <<pc, call, blockBuffer, want>>
      BY <2>7 DEF Program
    <3>2. page[t] \in Page /\ BufferOf(t)
      BY <2>3, <3>1
    <3>3. \A p \in Page : p < page[t] + 1 => p < page[t] \/ p = page[t]
      BY <3>2 DEF Page
    <3>4. \A p \in Page : p < page'[t] => flash'[call[t].block][p] = Wanted(t, p)
      BY <2>4, <2>7, <3>1, <3>2, <3>3 DEF Program, BufferOf, Wanted
    <3> QED BY <2>7, <3>1, <3>2, <3>4 DEF Program, BufferOf, Wanted
  <2>8. CASE ReadPage(t)
    <3>1. pc'[t] # "idle"
      BY <2>8 DEF ReadPage
    <3>2. flash[call[t].block] = want[call[t].block]
      BY <2>2, <2>4, <2>8, <3>1, FluxIsMine DEF ReadPage, OnlyReplacesItsData
    <3>3. blockBuffer'[1] = Wanted(t, call[t].page)
      BY <2>4, <2>8, <3>2, PageSteps DEF ReadPage, Wanted
    <3> QED BY <2>8, <3>3 DEF ReadPage, BufferOf, Wanted
  <2>9. CASE ReadCopy(t) \/ PageReadFails(t) \/ (Program(t) /\ page[t] = NumPages)
    BY <2>1, <2>9 DEF ReadCopy, PageReadFails, Program, Return
  <2> QED BY <1>2, <2>5, <2>6, <2>7, <2>8, <2>9 DEF Inside
<1> QED BY <1>1, <1>2, StepForms

(* A block that is not in flux holds the wanted data after each step: only *)
(* the last page programmed brings a block out of flux.                    *)
LEMMA ReplaceStep ==
    ASSUME FlashInv, TypeInv', NEW t \in Tasks, Call(t) \/ Step(t)
    PROVE  OnlyReplacesItsData'
<1> USE DEF FlashInv, TypeInv, TypeOK
<1>1. CASE Call(t) \/ TakeMutex(t) \/ MutexTimeout(t)
  BY <1>1 DEF Call, TakeMutex, MutexTimeout, OnlyReplacesItsData, InFlux
<1>2. CASE FillBuffer(t) \/ ReadPage(t)
  BY <1>2 DEF FillBuffer, ReadPage, OnlyReplacesItsData, InFlux
<1>3. CASE ReadCopy(t) \/ PageReadFails(t)
  BY <1>3 DEF ReadCopy, PageReadFails, Return, OnlyReplacesItsData, InFlux
<1>4. CASE Erase(t)
  <2>1. call[t].block \in Blocks
    BY <1>4 DEF Erase, CallsKnown, CallRecord
  <2>2. pc'[t] = "program" /\ call'[t].block = call[t].block
    BY <1>4 DEF Erase
  <2>3. \A b \in Blocks : b # call[t].block => flash'[b] = flash[b] /\ want'[b] = want[b]
    BY <1>4, <2>1 DEF Erase
  <2>4. \A b \in Blocks : b # call[t].block /\ InFlux(b) => InFlux(b)'
    BY <1>4 DEF Erase, InFlux
  <2> QED BY <2>2, <2>3, <2>4 DEF OnlyReplacesItsData, InFlux
<1>5. CASE Program(t)
  <2> DEFINE b == call[t].block
  <2>1. pc[t] = "program" /\ page[t] \in Page /\ b \in Blocks
    BY <1>5 DEF Program, CallsKnown, CallRecord
  <2>2. \A c \in Blocks : c # b => flash'[c] = flash[c] /\ want'[c] = want[c]
    BY <1>5, <2>1 DEF Program
  <2>3. \A c \in Blocks : c # b /\ InFlux(c) => InFlux(c)'
    <3>1. \A u \in Tasks : u # t => pc'[u] = pc[u] /\ call'[u] = call[u]
      BY <1>5 DEF Program, Return
    <3> QED BY <3>1 DEF InFlux
  <2>4. \A c \in Blocks : c # b /\ ~InFlux(c)' => flash'[c] = want'[c]
    BY <2>2, <2>3 DEF OnlyReplacesItsData
  <2>5. CASE page[t] # NumPages
    <3>1. pc'[t] = "program" /\ call'[t].block = b
      BY <1>5, <2>5 DEF Program
    <3> QED BY <2>4, <3>1 DEF OnlyReplacesItsData, InFlux
  <2>6. CASE page[t] = NumPages /\ t \in overlapped
    <3>1. want'[b] = flash'[b]
      BY <1>5, <2>1, <2>6 DEF Program
    <3> QED BY <2>4, <3>1 DEF OnlyReplacesItsData
  <2>7. CASE page[t] = NumPages /\ t \notin overlapped
    <3>1. BufferOf(t) /\ want' = want
      BY <1>5, <2>7 DEF BufferInv, Program
    <3>2. \A p \in Page : p # NumPages => p < page[t]
      BY <2>7, PagesAssumption DEF Page
    <3>3. \A p \in Page : p # NumPages => flash[b][p] = want[b][p]
      BY <2>1, <3>1, <3>2 DEF BufferOf, Wanted
    <3>4. blockBuffer[NumPages] = want[b][NumPages]
      BY <2>1, <3>1, PageSteps DEF BufferOf, Wanted
    <3>5. \A p \in Page : flash'[b][p] = want'[b][p]
      BY <1>5, <2>1, <2>7, <3>1, <3>3, <3>4 DEF Program
    <3>6. flash'[b] \in [Page -> Data \cup {Erased}]
          /\ want'[b] \in [Page -> Data \cup {Erased}]
      BY <2>1
    <3>7. flash'[b] = want'[b]
      BY <3>5, <3>6
    <3> QED BY <2>4, <3>7 DEF OnlyReplacesItsData
  <2> QED BY <2>5, <2>6, <2>7
<1> QED BY <1>1, <1>2, <1>3, <1>4, <1>5 DEF Step

LEMMA FlashInvInit == Init => FlashInv
<1> SUFFICES ASSUME Init PROVE FlashInv
  OBVIOUS
<1>1. Exclusive /\ Overlaps /\ FirstPage
  BY DEF Init, Exclusive, Overlaps, InCall, FirstPage
<1>2. BufferInv /\ OnlyReplacesItsData
  BY DEF Init, BufferInv, BufferOf, OnlyReplacesItsData
<1> QED BY <1>1, <1>2, TypeInit DEF FlashInv

LEMMA FlashInvStep == FlashInv /\ [Next]_vars => FlashInv'
<1> SUFFICES ASSUME FlashInv, [Next]_vars PROVE FlashInv'
  OBVIOUS
<1>1. TypeInv'
  BY TypeStep DEF FlashInv
<1>2. ASSUME NEW t \in Tasks, Call(t) \/ Step(t) PROVE FlashInv'
  <2>1. BufferInv'
    <3>1. \A u \in Tasks : u \notin overlapped' => BufferOf(u)'
      BY <1>2, OthersBuffer, OwnBuffer
    <3> QED BY <3>1 DEF BufferInv
  <2>2. FirstPage'
    BY <1>2, FirstPageStep DEF FlashInv
  <2>3. Exclusive' /\ Overlaps' /\ OnlyReplacesItsData'
    BY <1>1, <1>2, ExclusiveStep, OverlapsStep, ReplaceStep
  <2> QED BY <1>1, <2>1, <2>2, <2>3 DEF FlashInv
<1>3. CASE UNCHANGED vars
  BY <1>1, <1>3 DEF vars, FlashInv, Exclusive, Overlaps, InCall, FirstPage,
                    BufferInv, BufferOf, Wanted, OnlyReplacesItsData, InFlux
<1> QED BY <1>2, <1>3 DEF Next

LEMMA FlashInvariant == Spec => []FlashInv
BY FlashInvInit, FlashInvStep, PTL DEF Spec

(* A FLASH_write changes its own block only, and of that its own data only *)
(* unless it overlapped a call and one of the two was made without the     *)
(* mutex: for any number of tasks, blocks and pages, whichever calls are   *)
(* made under the mutex.                                                   *)
THEOREM WritesDoNotInterfere == Spec => []OnlyReplacesItsData
<1>1. FlashInv => OnlyReplacesItsData
  BY DEF FlashInv
<1> QED BY <1>1, FlashInvariant, PTL

(* A FLASH_read returns what was last written to its page unless it        *)
(* overlapped a call and one of the two was made without the mutex.        *)
THEOREM ReadsAreRight == Spec => ReadsWhatWasWritten
<1> DEFINE Right(t) == ReadCopy(t) /\ t \notin overlapped
                          => blockBuffer[1] = want[call[t].block][call[t].page]
<1>1. FlashInv => \A t \in Tasks : Right(t)
  BY DEF FlashInv, BufferInv, BufferOf, ReadCopy, Wanted
<1>2. FlashInv /\ [Next]_vars => [\A t \in Tasks : Right(t)]_vars
  BY <1>1
<1> QED BY <1>2, FlashInvariant, PTL DEF Spec, ReadsWhatWasWritten
=============================================================================
