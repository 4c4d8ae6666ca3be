---------------------------- MODULE SensorQueue ----------------------------
(***************************************************************************)
(* What the SSM's sensor data section promises: while the board is powered *)
(* a queue of the daily logs, at most Size of them, oldest first.  Logs    *)
(* are numbered in the order they are written.  A power loss may cost      *)
(* logs, but leaves a queue.  An acknowledgement takes a log each time it  *)
(* arrives, and nothing keeps one from arriving when there is no log.      *)
(***************************************************************************)
EXTENDS Naturals, Sequences

CONSTANT Size

VARIABLES
    queue,    \* the logs the AM has not acknowledged, oldest first
    written,  \* number of the newest log
    up        \* the board is powered and has started

vars == <<queue, written, up>>

\* A new log is appended; a full queue gives up its oldest log for it.
Push ==
    /\ up
    /\ written' = written + 1
    /\ queue' = Append(IF Len(queue) = Size THEN Tail(queue) ELSE queue, written')
    /\ up' = up

\* An acknowledgement arrives: the oldest log leaves.
Pop ==
    /\ up
    /\ queue # <<>>
    /\ queue' = Tail(queue)
    /\ UNCHANGED <<written, up>>

\* An acknowledgement arrives at an empty queue: it appears to hold entries
\* in all places but one, logs that have left before or never were (0).
Underrun ==
    /\ up
    /\ queue = <<>>
    /\ queue' \in Seq(0 .. written)
    /\ Len(queue') = Size - 1
    /\ UNCHANGED <<written, up>>

\* Deactivation empties the queue.
Clear ==
    /\ up
    /\ Len(queue) # Size
    /\ queue' = <<>>
    /\ UNCHANGED <<written, up>>

\* What deactivation does to a full queue: the full flag survives, so the
\* queue stays full and keeps the same logs, read from another position.
Rotate ==
    /\ up
    /\ Len(queue) = Size
    /\ \E k \in 1 .. Size :
          queue' = SubSeq(queue, k, Size) \o SubSeq(queue, 1, k - 1)
    /\ UNCHANGED <<written, up>>

\* Power fails, or comes back: some queue is left, perhaps with entries (0)
\* that never were logs.
Power ==
    /\ ~(up /\ up')
    /\ queue' \in Seq(0 .. written)
    /\ Len(queue') <= Size
    /\ UNCHANGED written

Init ==
    /\ queue = <<>>
    /\ written = 0
    /\ up = TRUE

Next == Push \/ Pop \/ Underrun \/ Clear \/ Rotate \/ Power

Spec == Init /\ [][Next]_vars
=============================================================================
