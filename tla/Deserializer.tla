---------------------------- MODULE Deserializer ----------------------------
(***************************************************************************)
(* ir.Deserializer: a Go handle (fourByteDeserializer or                   *)
(* eightByteDeserializer) that owns a native ffi_go::ir::Deserializer.     *)
(*                                                                         *)
(* Each operation is a pair of operators: ...Result is what the call       *)
(* returns for the bytes b[lo .. hi - 1] of stream s, ...Effect what the   *)
(* call does to the handle and to the native object.  The Go slice irBuf   *)
(* is the window [lo, hi) of the caller's buffer.  An event is what a      *)
(* native call returns: [err, item, ts], the item standing for its message *)
(* and for the position behind it.                                         *)
(*                                                                         *)
(* WholeWindowPreamble, NoReferenceTs, FromReference and EmptySliceFails   *)
(* are mutated forms of the definitions after them: what a plausible slip  *)
(* would make of the code.  Nothing uses them here.                        *)
(***************************************************************************)
EXTENDS IrFormat

VARIABLES
    native,      \* the C++ object: "none", "live" or "freed"
    cptr,        \* the Go handle holds a non-nil pointer to it
    mTimestamp,  \* m_timestamp: running timestamp of the four-byte encoding
    mMsg         \* m_log_event.m_log_message: the item whose message the
                 \* native string holds, 0 when it holds none

desVars == <<native, cptr, mTimestamp, mMsg>>

DesTypeOK(s) ==
    /\ native \in {"none", "live", "freed"}
    /\ cptr \in BOOLEAN
    /\ mTimestamp \in Times
    /\ mMsg \in 0..Count(s)

DesInit ==
    /\ native = "none"
    /\ cptr = FALSE
    /\ mTimestamp = 0
    /\ mMsg = 0

-----------------------------------------------------------------------------
(* DeserializePreamble.  The native object is created as soon as the CLP   *)
(* core has decoded the preamble; only then does Go look at the metadata,  *)
(* and it returns a nil Deserializer if it cannot use it.                  *)

MetadataError(meta) ==
    CASE meta = "badType" -> UnsupportedVersion
      [] meta = "badJson" -> JsonError
      [] OTHER            -> Success

WholeWindowPreamble(s, b, lo, hi) ==
    LET d == DecodePreamble(s, b, lo, hi)
    IN  IF lo # hi /\ d.err = Success /\ s.meta \in {"ok", "noRef"}
        THEN [err |-> Success, pos |-> hi - lo]
        ELSE [err |-> IF lo = hi THEN IncompleteIr
                      ELSE IF d.err # Success THEN d.err ELSE MetadataError(s.meta),
              pos |-> 0]

PreambleResult(s, b, lo, hi) ==
    LET d   == DecodePreamble(s, b, lo, hi)
        err == IF lo = hi THEN IncompleteIr
               ELSE IF d.err # Success THEN d.err
               ELSE MetadataError(s.meta)
    IN  [err |-> err, pos |-> IF err = Success THEN Width(s, 1) ELSE 0]

(* *timestampCptr = refTs, when the metadata has a reference timestamp. *)
NoReferenceTs(s) == 0
ReferenceTs(s)   == IF s.enc = "four" /\ s.meta = "ok" THEN s.items[1].ts ELSE 0

PreambleEffect(s, b, lo, hi) ==
    IF lo # hi /\ DecodePreamble(s, b, lo, hi).err = Success
    THEN /\ native' = "live"
         /\ cptr' = (MetadataError(s.meta) = Success)
         /\ mTimestamp' = ReferenceTs(s)
         /\ mMsg' = 0
    ELSE UNCHANGED desVars

(* ir_deserializer_close. *)
DesDelete == native' = "freed"

(* Close of the handle; a second Close finds cptr nil. *)
DesClose ==
    /\ IF cptr THEN DesDelete ELSE UNCHANGED native
    /\ cptr' = FALSE
    /\ UNCHANGED <<mTimestamp, mMsg>>

-----------------------------------------------------------------------------
(* The timestamp the native code computes for item j: four-byte IR carries *)
(* the difference to the item before it.                                   *)
Delta(s, j) == Wrap(s.items[j].ts - s.items[j - 1].ts)

FromReference(e, s, j) ==
    IF e = "four" THEN Wrap(ReferenceTs(s) + Delta(s, j)) ELSE s.items[j].ts

DecodedTimestamp(e, s, j) ==
    IF e = "four" THEN Wrap(mTimestamp + Delta(s, j)) ELSE s.items[j].ts

NoEvent(err) == [err |-> err, item |-> 0, ts |-> 0]

(* What the templates deserialize_log_event<e> and                         *)
(* deserialize_wildcard_match<e> make of the bytes at their read position. *)
NextEvent(e, s, b, lo, hi) ==
    LET d == DecodeEvent(s, b, lo, hi)
    IN  [err  |-> d.err,
         item |-> d.item,
         ts   |-> IF d.err = Success THEN DecodedTimestamp(e, s, d.item) ELSE 0]

(* A nil pointer is refused before anything is decoded. *)
DeserializeLogEvent(e, s, b, lo, hi) ==
    IF cptr THEN NextEvent(e, s, b, lo, hi) ELSE NoEvent(CorruptedIr)

EightByteLogEvent(s, b, lo, hi) == DeserializeLogEvent("eight", s, b, lo, hi)
FourByteLogEvent(s, b, lo, hi)  == DeserializeLogEvent("four", s, b, lo, hi)

(* deserializeLogEvent: an empty slice is refused in Go; then the type of  *)
(* the Go handle, which is that of the preamble, selects the C function.   *)
EmptySliceFails(s, b, lo, hi) ==
    IF lo = hi THEN NoEvent(CorruptedIr)
    ELSE IF s.enc = "eight" THEN EightByteLogEvent(s, b, lo, hi)
    ELSE FourByteLogEvent(s, b, lo, hi)

LogEventResult(s, b, lo, hi) ==
    IF lo = hi THEN NoEvent(IncompleteIr)
    ELSE IF s.enc = "eight" THEN EightByteLogEvent(s, b, lo, hi)
    ELSE FourByteLogEvent(s, b, lo, hi)

(* What decoding one log event does to the native object.  When the CLP    *)
(* core fails inside the event it may already have overwritten the message *)
(* string, which backs the view returned last; the tag of the end of the   *)
(* stream is recognised before the string is touched.                      *)
DecodeEffect(event) ==
    /\ UNCHANGED <<native, cptr>>
    /\ \/ /\ event.err = Success
          /\ mTimestamp' = event.ts
          /\ mMsg' = event.item
       \/ /\ event.err # Success
          /\ UNCHANGED mTimestamp
          /\ \/ UNCHANGED mMsg
             \/ event.err \in {IncompleteIr, CorruptedIr} /\ mMsg' = 0

LogEventEffect(lo, hi, event) ==
    IF lo # hi /\ cptr THEN DecodeEffect(event) ELSE UNCHANGED desVars
=============================================================================
