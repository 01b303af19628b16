----------------------------- MODULE Serializer -----------------------------
(***************************************************************************)
(* ir.Serializer: a Go handle (fourByteSerializer or eightByteSerializer)  *)
(* that owns a native ffi_go::ir::Serializer.                              *)
(*                                                                         *)
(* Every item it serialises gets the offsets after those of the item       *)
(* before it, so that the bytes it hands out are the numbers of a stream   *)
(* in the sense of IrFormat, whatever the user does with them afterwards.  *)
(*                                                                         *)
(* MovesAnyway and KeepsPointer are mutated forms of the definitions after *)
(* them.                                                                   *)
(***************************************************************************)
EXTENDS IrFormat

CONSTANTS
    Messages,     \* log messages
    LogEvents,    \* the log events a user writes: [ts, msg]
    References,   \* the times at which the clock of the host may stand
    PreambleSize, \* bytes of the preamble
    EventSizes    \* possible sizes of a serialised log event

ASSUME MessagesAssumption == Messages # {}
ASSUME EventsAssumption ==
    LogEvents \subseteq [ts : Times, msg : Messages] /\ References \subseteq Times
ASSUME SizesAssumption ==
    PreambleSize \in Nat \ {0} /\ EventSizes \subseteq Nat \ {0}

VARIABLES
    enc,            \* encoding: "four" or "eight", by the type of the handle
    serNative,      \* the C++ object: "none", "live" or "freed"
    serPtr,         \* the Go handle holds a non-nil pointer to it
    prevTimestamp,  \* timestamp of the last event serialised (four byte)
    irBuf,          \* m_ir_buf: the item it holds, 0 when it holds no whole one
    items           \* (history) all items produced, as a reader of all their
                    \* bytes understands them

serVars == <<enc, serNative, serPtr, prevTimestamp, irBuf, items>>

Produced == [enc |-> enc, meta |-> "ok", items |-> items, len |-> 0]

Size == EndOf(Produced, Len(items))

(* The bytes of item j, as the BufView of a call points to them. *)
BytesOf(j) == [k \in 1 .. Width(Produced, j) |-> EndOf(Produced, j - 1) + k]

SerTypeOK ==
    /\ enc \in Encodings
    /\ serNative \in {"none", "live", "freed"}
    /\ serPtr \in BOOLEAN
    /\ prevTimestamp \in Times
    /\ irBuf \in 0 .. Len(items)
    /\ items \in Seq(Item(Messages))

SerInit ==
    /\ enc \in Encodings
    /\ serNative = "none"
    /\ serPtr = FALSE
    /\ prevTimestamp = 0
    /\ irBuf = 0
    /\ items = <<>>

AnyMessage == CHOOSE m \in Messages : TRUE

Produce(kind, size, ts, msg) ==
    items' = Append(items, [kind |-> kind, last |-> Size + size, ts |-> ts, msg |-> msg])

-----------------------------------------------------------------------------
(* new_serializer_with_preamble<e>.  The native object exists before the   *)
(* preamble is serialised; when that fails, Go drops the handle and the    *)
(* pointer in it.                                                          *)
NewWithPreamble(referenceTs) ==
    /\ Produce("preamble", PreambleSize, referenceTs, AnyMessage)
    /\ serNative' = "live"
    /\ serPtr' = TRUE
    /\ irBuf' = 1

(* Only the four-byte preamble has a reference timestamp. *)
EightByteSerializer ==
    /\ enc = "eight"
    /\ NewWithPreamble(0)
    /\ UNCHANGED prevTimestamp

FourByteSerializer(referenceTs) ==
    /\ enc = "four"
    /\ NewWithPreamble(referenceTs)
    /\ prevTimestamp' = referenceTs

NewSerializer(referenceTs) ==
    /\ EightByteSerializer \/ FourByteSerializer(referenceTs)
    /\ UNCHANGED enc

NewSerializerFails ==
    /\ serNative' = "live"
    /\ UNCHANGED <<enc, serPtr, prevTimestamp, irBuf, items>>

-----------------------------------------------------------------------------
(* What a reader of all bytes makes of a timestamp or a difference.        *)
Understood(wire) ==
    IF enc = "four" THEN Wrap(items[Len(items)].ts + wire) ELSE wire

(* serialize_log_event<e>.  It fails on a nil pointer, and where the CLP   *)
(* core cannot encode the message; m_ir_buf has been cleared by then.      *)
SerializeNative(wire, msg) ==
    /\ serPtr
    /\ \E size \in EventSizes : Produce("event", size, Understood(wire), msg)
    /\ irBuf' = Len(items) + 1

(* What each encoding carries: the timestamp, or the difference to the     *)
(* event serialised before.                                                *)
SerializeEightByteLogEvent(event) ==
    enc = "eight" /\ SerializeNative(event.ts, event.msg)

SerializeFourByteLogEvent(event) ==
    enc = "four" /\ SerializeNative(Wrap(event.ts - prevTimestamp), event.msg)

MovesAnyway(event, ok)    == IF enc = "four" THEN event.ts ELSE prevTimestamp
NextTimestamp(event, ok)  == IF enc = "four" /\ ok THEN event.ts ELSE prevTimestamp

(* serializeLogEvent. *)
SerializeSucceeds(event) ==
    /\ SerializeEightByteLogEvent(event) \/ SerializeFourByteLogEvent(event)
    /\ prevTimestamp' = NextTimestamp(event, TRUE)
    /\ UNCHANGED <<enc, serNative, serPtr>>

SerializeFails(event) ==
    /\ irBuf' = IF serPtr THEN 0 ELSE irBuf
    /\ prevTimestamp' = NextTimestamp(event, FALSE)
    /\ UNCHANGED <<enc, serNative, serPtr, items>>

(* ir_serializer_close. *)
SerDelete == serNative' = "freed"

(* Close of the handle; a second Close finds cptr nil. *)
KeepsPointer ==
    /\ IF serPtr THEN SerDelete ELSE UNCHANGED serNative
    /\ UNCHANGED <<enc, serPtr, prevTimestamp, irBuf>>

SerCloseNative ==
    /\ IF serPtr THEN SerDelete ELSE UNCHANGED serNative
    /\ serPtr' = FALSE
    /\ UNCHANGED <<enc, prevTimestamp, irBuf>>
=============================================================================
