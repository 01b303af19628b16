------------------------------ MODULE Decoder ------------------------------
(***************************************************************************)
(* ir.Decoder: a Go handle (fourByteDecoder or eightByteDecoder) that owns *)
(* a native ffi_go::ir::Decoder, whose string backs the view it returns.   *)
(*                                                                         *)
(* Appended and KeepsDecPointer are mutated forms of the definitions after *)
(* them.                                                                   *)
(***************************************************************************)
EXTENDS LogMessage

VARIABLES
    decNative,  \* the C++ object: "none", "live" or "freed"
    decPtr,     \* the Go handle holds a non-nil pointer to it
    mMessage,   \* decoder->m_log_message
    decResult   \* what the last call returned: [err, message]

decVars == <<decNative, decPtr, mMessage, decResult>>

DecTypeOK ==
    /\ decNative \in {"none", "live", "freed"}
    /\ decPtr \in BOOLEAN
    /\ mMessage \in Seq(Bytes)
    /\ decResult \in [err : Errors, message : Seq(Bytes)]

DecInit ==
    /\ decNative = "none"
    /\ decPtr = FALSE
    /\ mMessage = <<>>
    /\ decResult = [err |-> DecodeError, message |-> <<>>]

NewDecoder ==
    /\ decNative = "none"
    /\ decNative' = "live"
    /\ decPtr' = TRUE
    /\ UNCHANGED <<mMessage, decResult>>

(* The string is assigned, and only when decode_message does not throw. *)
Appended(d) == IF d.ok THEN mMessage \o d.message ELSE mMessage
Assigned(d) == IF d.ok THEN d.message ELSE mMessage

DecodeLogMessage(e, ir) ==
    LET d == CoreDecode(e, ir)
    IN  /\ decNative # "none"
        /\ mMessage' = IF decPtr THEN Assigned(d) ELSE mMessage
        /\ decResult' = IF decPtr /\ d.ok
                        THEN [err |-> Success, message |-> mMessage']
                        ELSE [err |-> DecodeError, message |-> <<>>]
        /\ UNCHANGED <<decNative, decPtr>>

DecodeEightByte(ir) == DecodeLogMessage("eight", ir)
DecodeFourByte(ir)  == DecodeLogMessage("four", ir)

(* The method of the handle, by its type parameter. *)
DecodeOf(e, ir) ==
    \/ e = "eight" /\ DecodeEightByte(ir)
    \/ e = "four" /\ DecodeFourByte(ir)

(* Close of the handle; a second Close finds cptr nil. *)
KeepsDecPointer ==
    /\ decNative' = IF decPtr THEN "freed" ELSE decNative
    /\ UNCHANGED <<decPtr, mMessage, decResult>>

DecClose ==
    /\ decNative' = IF decPtr THEN "freed" ELSE decNative
    /\ decPtr' = FALSE
    /\ UNCHANGED <<mMessage, decResult>>
=============================================================================
