------------------------------ MODULE Encoder ------------------------------
(***************************************************************************)
(* ir.Encoder: a Go handle (fourByteEncoder or eightByteEncoder) that owns *)
(* a native ffi_go::ir::Encoder, which is reused by every call.            *)
(*                                                                         *)
(* A call of EncodeLogMessage is split into its beginning, one step for    *)
(* each dictionary variable it inserts, and its return.                    *)
(*                                                                         *)
(* InsertedFirst, CutShort and KeepsEncPointer are mutated forms of the    *)
(* definitions after them.                                                 *)
(***************************************************************************)
EXTENDS LogMessage

CONSTANT MaxCalls  \* bound on the calls of EncodeLogMessage

ASSUME CallsAssumption == MaxCalls \in Nat

VARIABLES
    encoding,       \* the type parameter of the handle
    encNative,      \* the C++ object: "none", "live" or "freed"
    encPtr,         \* the Go handle holds a non-nil pointer to it
    mLogMessage,    \* encoder->m_log_message
    encPc,          \* "idle", or "insert" inside a call
    dictVarOffsets, \* the local of that name
    inserted,       \* how many dictionary variables have been inserted
    prevEndOff,     \* prev_end_off
    encResult,      \* what the last call returned: [err, view]
    encoded,        \* (history) the messages of all calls, failed ones too
    reused          \* (history) a call before the last one that the core encoded
                    \* has inserted dictionary variables

encVars == <<encoding, encNative, encPtr, mLogMessage, encPc, dictVarOffsets,
             inserted, prevEndOff, encResult, encoded, reused>>

EncTypeOK ==
    /\ encoding \in Encodings
    /\ encNative \in {"none", "live", "freed"}
    /\ encPtr \in BOOLEAN
    /\ mLogMessage \in LogMessage
    /\ encPc \in {"idle", "insert"}
    /\ dictVarOffsets \in Seq([begin : Nat, end : Nat])
    /\ inserted \in 0 .. Len(dictVarOffsets)
    /\ prevEndOff \in 0 .. Len(mLogMessage.dictVars)
    /\ encResult \in [err : Errors, view : LogMessage]
    /\ encoded \in Seq(Messages)
    /\ reused \in BOOLEAN

EncInit ==
    /\ encoding \in Encodings
    /\ encNative = "none"
    /\ encPtr = FALSE
    /\ mLogMessage = Empty
    /\ encPc = "idle"
    /\ dictVarOffsets = <<>>
    /\ inserted = 0
    /\ prevEndOff = 0
    /\ encResult = [err |-> EncodeError, view |-> Empty]
    /\ encoded = <<>>
    /\ reused = FALSE

Newest == encoded[Len(encoded)]

-----------------------------------------------------------------------------
NewEncoder(e) ==
    /\ encNative = "none"
    /\ encoding = e
    /\ encNative' = "live"
    /\ encPtr' = TRUE
    /\ UNCHANGED <<encoding, mLogMessage, encPc, dictVarOffsets, inserted,
                   prevEndOff, encResult, encoded, reused>>

EightByteNew == NewEncoder("eight")
FourByteNew  == NewEncoder("four")

EncodeFails ==
    /\ encResult' = [err |-> EncodeError, view |-> Empty]
    /\ UNCHANGED <<encPc, dictVarOffsets, inserted, prevEndOff, reused>>

(* The core writes a new logtype.  Whether it clears the vector of encoded *)
(* variables it is given or appends to it is left open.                    *)
CoreSucceeds(c) ==
    /\ \E old \in {<<>>, mLogMessage.vars} :
          mLogMessage' = [mLogMessage EXCEPT !.logtype = c.logtype, !.vars = old \o c.vars]
    /\ encPc' = "insert"
    /\ dictVarOffsets' = c.dictVarOffsets
    /\ inserted' = 0
    /\ prevEndOff' = 0
    /\ reused' = (reused \/ inserted > 0)
    /\ UNCHANGED encResult

(* When it fails it may have written either of them. *)
CoreFails(c) ==
    /\ \E logtype \in {mLogMessage.logtype, <<>>, c.logtype},
          vars \in {mLogMessage.vars, <<>>, mLogMessage.vars \o c.vars} :
          mLogMessage' = [mLogMessage EXCEPT !.logtype = logtype, !.vars = vars]
    /\ EncodeFails

BeginEncode(e, m) ==
    /\ encPc = "idle"
    /\ encNative # "none"
    /\ encoding = e
    /\ Len(encoded) < MaxCalls
    /\ encoded' = Append(encoded, m)
    /\ \/ encPtr /\ (CoreSucceeds(CoreEncode(e, m)) \/ CoreFails(CoreEncode(e, m)))
       \/ ~encPtr /\ EncodeFails /\ UNCHANGED mLogMessage
    /\ UNCHANGED <<encoding, encNative, encPtr>>

EncodeEightByte(m) == BeginEncode("eight", m)
EncodeFourByte(m)  == BeginEncode("four", m)

-----------------------------------------------------------------------------
(* m_dict_vars.insert(cbegin() + at, v...). *)
InsertedFirst(s, at, v) == v \o s

Inserted(s, at, v) ==
    [p \in 1 .. Len(s) + Len(v) |->
        IF p <= at THEN s[p]
        ELSE IF p <= at + Len(v) THEN v[p - at]
        ELSE s[p - Len(v)]]

(* The bytes of the message from one position up to another. *)
CutShort(m, o) == SubSeq(m, o.begin + 1, o.end - 1)
Cut(m, o) == SubSeq(m, o.begin + 1, o.end)

(* One turn of the loop.  The position at which it inserts starts at 0 in  *)
(* each call, while the vectors still hold what earlier calls put there.   *)
InsertNext ==
    /\ encPc = "insert"
    /\ inserted < Len(dictVarOffsets)
    /\ LET o   == dictVarOffsets[inserted + 1]
           end == prevEndOff + (o.end - o.begin)
       IN  /\ mLogMessage' =
                 [mLogMessage EXCEPT
                    !.dictVars = Inserted(mLogMessage.dictVars, prevEndOff, Cut(Newest, o)),
                    !.dictVarEndOffsets = Append(mLogMessage.dictVarEndOffsets, end)]
           /\ prevEndOff' = end
    /\ inserted' = inserted + 1
    /\ UNCHANGED <<encoding, encNative, encPtr, encPc, dictVarOffsets, encResult,
                   encoded, reused>>

ReturnEncoded ==
    /\ encPc = "insert"
    /\ inserted = Len(dictVarOffsets)
    /\ encPc' = "idle"
    /\ encResult' = [err |-> Success, view |-> NewLogMessageView(mLogMessage)]
    /\ UNCHANGED <<encoding, encNative, encPtr, mLogMessage, dictVarOffsets,
                   inserted, prevEndOff, encoded, reused>>

(* Close of the handle; a second Close finds cptr nil. *)
KeepsEncPointer ==
    /\ encPc = "idle"
    /\ encNative' = IF encPtr THEN "freed" ELSE encNative
    /\ UNCHANGED <<encoding, encPtr, mLogMessage, encPc, dictVarOffsets, inserted,
                   prevEndOff, encResult, encoded, reused>>

EncClose ==
    /\ encPc = "idle"
    /\ encNative' = IF encPtr THEN "freed" ELSE encNative
    /\ encPtr' = FALSE
    /\ UNCHANGED <<encoding, mLogMessage, encPc, dictVarOffsets, inserted,
                   prevEndOff, encResult, encoded, reused>>

EncNext ==
    \/ EightByteNew
    \/ FourByteNew
    \/ \E m \in Messages : EncodeEightByte(m) \/ EncodeFourByte(m)
    \/ InsertNext
    \/ ReturnEncoded
    \/ EncClose

-----------------------------------------------------------------------------
(* Properties.                                                             *)

(* The last call returned the encoding of the newest message. *)
JustEncoded == encPtr /\ encPc = "idle" /\ encResult.err = Success

EndOfVar(k) == IF k = 0 THEN 0 ELSE mLogMessage.dictVarEndOffsets[k]

(* What encoder.h says of the vectors a call returns: the dictionary       *)
(* variables of the message concatenated together, and the offsets at      *)
(* which each of them ends.                                                *)
DictVarsDocumented ==
    JustEncoded =>
        LET variables == CoreEncode(encoding, Newest).dictVarOffsets
            count     == Len(mLogMessage.dictVarEndOffsets)
        IN  /\ count = Len(variables)
            /\ Len(mLogMessage.dictVars) = EndOfVar(count)
            /\ \A k \in 1 .. count :
                  SubSeq(mLogMessage.dictVars, EndOfVar(k - 1) + 1, EndOfVar(k))
                      = Cut(Newest, variables[k])

(* That is so for the first message of an Encoder that has any dictionary  *)
(* variables, whatever messages without them were encoded before it, and   *)
(* whatever messages with them the core failed to encode.                  *)
FirstDictVarsDocumented == ~reused => DictVarsDocumented
=============================================================================
