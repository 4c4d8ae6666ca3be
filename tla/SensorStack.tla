---------------------------- MODULE SensorStack ----------------------------
(***************************************************************************)
(* What the AM's sensor data section promises while the AM is powered and  *)
(* uses it in an orderly way: a stack of at most Size logs, newest last.   *)
(* Logs are numbered in the order they are stored.  A power loss may cost  *)
(* logs, but leaves a stack.                                               *)
(***************************************************************************)
EXTENDS Naturals, Sequences

CONSTANT Size

VARIABLES
    stack,    \* the logs not yet published, newest last
    stored,   \* number of the newest log
    up        \* the AM is powered and has started

vars == <<stack, stored, up>>

\* A new log goes on top; a full stack gives up its oldest log for it.
Push ==
    /\ up
    /\ stored' = stored + 1
    /\ stack' = Append(IF Len(stack) = Size THEN Tail(stack) ELSE stack, stored')
    /\ UNCHANGED up

\* The newest log has been published.
Pop ==
    /\ up
    /\ stack # <<>>
    /\ stack' = SubSeq(stack, 1, Len(stack) - 1)
    /\ UNCHANGED <<stored, up>>

\* Deactivation.
Clear ==
    /\ up
    /\ stack' = <<>>
    /\ UNCHANGED <<stored, up>>

\* Power fails, or comes back: some stack is left, perhaps with entries (0)
\* that are no logs any more.
Power ==
    /\ ~(up /\ up')
    /\ stack' \in Seq(0 .. stored)
    /\ Len(stack') <= Size
    /\ UNCHANGED stored

Init ==
    /\ stack = <<>>
    /\ stored = 0
    /\ up = TRUE

Next == Push \/ Pop \/ Clear \/ Power

Spec == Init /\ [][Next]_vars
=============================================================================
