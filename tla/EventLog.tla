------------------------------ MODULE EventLog ------------------------------
(***************************************************************************)
(* What a Writer and a Reader at the two ends of an IR stream promise      *)
(* together: a log.  Events are accepted until the log is closed, and a    *)
(* reader sees them one by one, each once, in order and unchanged, and the *)
(* end of the log after the last of them.                                  *)
(***************************************************************************)
EXTENDS Sequences, Naturals

CONSTANT Event

VARIABLES
    log,     \* events accepted by the writing side
    closed,  \* the writing side has been closed
    seen,    \* events handed out by the reading side
    ended    \* the reading side has reported the end of the stream

vars == <<log, closed, seen, ended>>

Init ==
    /\ log = <<>>
    /\ closed = FALSE
    /\ seen = <<>>
    /\ ended = FALSE

Accept ==
    /\ ~closed
    /\ \E e \in Event : log' = Append(log, e)
    /\ UNCHANGED <<closed, seen, ended>>

Finish ==
    /\ closed' = TRUE
    /\ UNCHANGED <<log, seen, ended>>

See ==
    /\ ~ended
    /\ Len(seen) < Len(log)
    /\ seen' = Append(seen, log[Len(seen) + 1])
    /\ UNCHANGED <<log, closed, ended>>

SeeEnd ==
    /\ closed
    /\ seen = log
    /\ ended' = TRUE
    /\ UNCHANGED <<log, closed, seen>>

Next == Accept \/ Finish \/ See \/ SeeEnd

Spec == Init /\ [][Next]_vars
=============================================================================
