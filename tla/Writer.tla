------------------------------- MODULE Writer -------------------------------
(***************************************************************************)
(* ir.Writer: a Serializer and a bytes.Buffer with the IR that has not     *)
(* been written out.  The Serializer is embedded, so its SerializeLogEvent *)
(* is a method of the Writer too, one that does not touch the buffer.      *)
(*                                                                         *)
(* The io.Writer behind WriteTo takes any number of the bytes it is given, *)
(* all of them exactly when WriteTo returns no error.  A user who handles  *)
(* the rest with Bytes and Reset, as the doc of WriteTo asks, does what a  *)
(* complete WriteTo does; Reset alone discards what is buffered.           *)
(*                                                                         *)
(* PastTheView, KeepsAll and DropsAll are mutated forms of the definitions *)
(* after them.                                                             *)
(***************************************************************************)
EXTENDS Serializer

CONSTANT MaxItems  \* bound on the items a Writer produces

ASSUME BoundAssumption == MaxItems \in Nat

VARIABLES
    opened,    \* NewWriterSize: "no", "yes" or "failed"
    wbuf,      \* writer.buf: offsets of the buffered bytes
    sink,      \* the bytes the io.Writer has taken
    accepted,  \* (history) events for which Write returned no error
    lost       \* (history) some bytes were produced and then discarded

wVars == <<opened, wbuf, sink, accepted, lost>>
vars  == <<serVars, wVars>>

Init ==
    /\ SerInit
    /\ opened = "no"
    /\ wbuf = <<>>
    /\ sink = <<>>
    /\ accepted = <<>>
    /\ lost = FALSE

(* Offsets of the bytes a step adds to the stream. *)
PastTheView == [k \in 1 .. Size' - Size + 1 |-> Size + k]

NewBytes == [k \in 1 .. Size' - Size |-> Size + k]

Closed == opened = "yes" /\ ~serPtr

-----------------------------------------------------------------------------
NewWriterSize ==
    /\ opened = "no"
    /\ \/ /\ \E referenceTs \in References : NewSerializer(referenceTs)
          /\ opened' = "yes"
          /\ wbuf' = wbuf \o NewBytes
       \/ /\ NewSerializerFails
          /\ opened' = "failed"
          /\ UNCHANGED wbuf
    /\ UNCHANGED <<sink, accepted, lost>>

(* Room is left for an end tag, so that the bound never keeps a Writer     *)
(* from being closed.                                                      *)
CanWrite == opened = "yes" /\ Len(items) + 1 < MaxItems

Write ==
    /\ CanWrite
    /\ \E event \in LogEvents :
          \/ /\ SerializeSucceeds(event)
             /\ wbuf' = wbuf \o NewBytes
             /\ accepted' = Append(accepted, event)
          \/ /\ SerializeFails(event)
             /\ UNCHANGED <<wbuf, accepted>>
    /\ UNCHANGED <<opened, sink, lost>>

(* SerializeLogEvent called on the Writer: the view is not buffered. *)
SerializeLogEvent ==
    /\ CanWrite
    /\ \E event \in LogEvents : SerializeSucceeds(event)
    /\ lost' = TRUE
    /\ UNCHANGED <<opened, wbuf, sink, accepted>>

(* What bytes.Buffer.WriteTo leaves after the io.Writer took n bytes. *)
KeepsAll(n)   == IF n = Len(wbuf) THEN <<>> ELSE wbuf
DropsAll(n)   == <<>>
Remaining(n)  == SubSeq(wbuf, n + 1, Len(wbuf))

WriteTo(n) ==
    /\ opened = "yes"
    /\ n <= Len(wbuf)
    /\ sink' = sink \o SubSeq(wbuf, 1, n)
    /\ wbuf' = Remaining(n)
    /\ UNCHANGED <<serVars, opened, accepted, lost>>

Reset ==
    /\ opened = "yes"
    /\ wbuf' = <<>>
    /\ lost' = (lost \/ wbuf # <<>>)
    /\ UNCHANGED <<serVars, opened, sink, accepted>>

(* Close appends an end tag whether or not it has been called before. *)
EndStream ==
    /\ opened = "yes"
    /\ Len(items) < MaxItems
    /\ Produce("eof", 1, 0, AnyMessage)
    /\ SerCloseNative

Close ==
    /\ EndStream
    /\ wbuf' = wbuf \o NewBytes
    /\ UNCHANGED <<opened, sink, accepted, lost>>

(* CloseTo: Close, then WriteTo of all that is buffered by then. *)
CloseTo(n) ==
    /\ EndStream
    /\ LET all == wbuf \o NewBytes
       IN  /\ n <= Len(all)
           /\ sink' = sink \o SubSeq(all, 1, n)
           /\ wbuf' = SubSeq(all, n + 1, Len(all))
    /\ UNCHANGED <<opened, accepted, lost>>

DoWriteTo == \E n \in 0 .. Len(wbuf) : WriteTo(n)
DoCloseTo == \E n \in 0 .. Len(wbuf) + 1 : CloseTo(n)

(* What a user does who wants all events in the sink. *)
Careful == NewWriterSize \/ Write \/ DoWriteTo \/ Close \/ DoCloseTo

Next == Careful \/ SerializeLogEvent \/ Reset

Spec == Init /\ [][Next]_vars

-----------------------------------------------------------------------------
(* Properties.                                                             *)

(* Every variable has its type; bytes are offsets within the stream.       *)
TypeOK ==
    /\ SerTypeOK
    /\ opened \in {"no", "yes", "failed"}
    /\ wbuf \in Seq(1 .. Size)
    /\ sink \in Seq(1 .. Size)
    /\ accepted \in Seq(LogEvents)
    /\ lost \in BOOLEAN

(* Whatever the order of writes, partial and failed drains, resets and     *)
(* closes: no byte reaches the io.Writer or the buffer twice or out of     *)
(* order, and as long as the user discarded nothing, none is missing.      *)
BytesOnce ==
    LET bytes == sink \o wbuf
    IN  /\ \A i, j \in 1 .. Len(bytes) : i < j => bytes[i] < bytes[j]
        /\ ~lost => Len(bytes) = Size

(* The stream means what was written: the timestamps a reader of all its   *)
(* bytes computes are those of the events that Write accepted, across      *)
(* failed writes and differences that wrap around.                         *)
StreamMeansLog ==
    (opened = "yes" /\ ~lost) =>
        /\ Len(accepted) < Len(items)
        /\ \A i \in 1 .. Len(accepted) :
              /\ items[i + 1].kind = "event"
              /\ items[i + 1].ts = accepted[i].ts
              /\ items[i + 1].msg = accepted[i].msg
        /\ \A i \in Len(accepted) + 2 .. Len(items) : items[i].kind = "eof"

(* After Close nothing but further end tags enters the stream, and no call *)
(* reaches the freed native object through the handle.                     *)
ClosedIsFinal ==
    /\ serPtr => serNative = "live"
    /\ \A i, j \in 1 .. Len(items) :
          i < j /\ items[i].kind = "eof" => items[j].kind = "eof"
=============================================================================
