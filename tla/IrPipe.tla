------------------------------- MODULE IrPipe -------------------------------
(***************************************************************************)
(* A Writer and a reading side at the two ends of one IR stream: the bytes *)
(* that the io.Writer has taken are those the reading side may decode,     *)
(* while the Writer goes on.  The user of the Writer discards nothing.     *)
(*                                                                         *)
(* The reading side is the Deserializer with the loops of ir.Reader around *)
(* it, abstracted to one step per try.  That the buffer of a Reader always *)
(* holds the bytes that come next is shown in Reader.                      *)
(***************************************************************************)
EXTENDS Writer, Deserializer

VARIABLES
    rpos,   \* bytes the reading side has consumed
    seen,   \* events it has handed out
    ended   \* it has reported EndOfIr

pipeVars == <<vars, desVars, rpos, seen, ended>>

Written   == [enc |-> enc, meta |-> "ok", items |-> items, len |-> Len(sink)]
SinkBytes == [k \in 0 .. Len(sink) - 1 |-> sink[k + 1]]

PipeInit ==
    /\ Init
    /\ DesInit
    /\ rpos = 0
    /\ seen = <<>>
    /\ ended = FALSE

(* A try of the constructor, which goes on until the preamble is there. *)
OpenReader ==
    /\ native = "none"
    /\ items # <<>>
    /\ LET r == PreambleResult(Written, SinkBytes, 0, Len(sink))
       IN  r.err = Success /\ rpos' = r.pos
    /\ PreambleEffect(Written, SinkBytes, 0, Len(sink))
    /\ UNCHANGED <<vars, seen, ended>>

(* A try of Read: it takes the next event, finds the end of the stream, or *)
(* waits for more bytes.                                                   *)
ReadNext ==
    /\ cptr
    /\ \E r \in {LogEventResult(Written, SinkBytes, rpos, Len(sink))} :
           /\ LogEventEffect(rpos, Len(sink), r)
           /\ \/ /\ r.err = Success
                 /\ rpos' = rpos + Width(Written, r.item)
                 /\ seen' = Append(seen, [ts |-> r.ts, msg |-> items[r.item].msg])
                 /\ UNCHANGED ended
              \/ /\ r.err # Success
                 /\ ended' = (ended \/ r.err = EndOfIr)
                 /\ UNCHANGED <<rpos, seen>>
    /\ UNCHANGED vars

Writing == Careful /\ UNCHANGED <<desVars, rpos, seen, ended>>

PipeNext == Writing \/ OpenReader \/ ReadNext

PipeSpec == PipeInit /\ [][PipeNext]_pipeVars

(* A user who keeps draining into an io.Writer that takes something each   *)
(* time, and a reading side that keeps trying.                             *)
Drains == \E n \in 1 .. Len(wbuf) : WriteTo(n) /\ UNCHANGED <<desVars, rpos, seen, ended>>

FairPipe ==
    /\ PipeSpec
    /\ WF_pipeVars(Drains)
    /\ WF_pipeVars(OpenReader)
    /\ WF_pipeVars(ReadNext)

-----------------------------------------------------------------------------
(* Properties.                                                             *)

(* Writer and reading side together are a log: each event that Write       *)
(* accepted is read once, in order, with its message and its timestamp,    *)
(* and the end only after all of them; whatever the sizes in which the     *)
(* bytes are drained, the writes that failed, the wrap of a difference.    *)
Log == INSTANCE EventLog
    WITH Event <- LogEvents, log <- accepted, closed <- Closed, seen <- seen, ended <- ended

ImplementsLog == Log!Spec

(* Once the Writer is closed, draining what is left brings every event to  *)
(* the reading side and then the end of the stream.                        *)
ClosedIsSeen == Closed ~> ended /\ seen = accepted
=============================================================================
