----------------------------- MODULE LogMessage -----------------------------
(***************************************************************************)
(* ir.LogMessage: the fields into which a log message is separated by an   *)
(* encoding.  A log message is a sequence of bytes; a logtype consists of  *)
(* bytes and of placeholders for variables.                                *)
(*                                                                         *)
(* How the CLP core library encodes and decodes is left open: CoreEncode   *)
(* and CoreDecode stand for clp::ffi::encode_message and decode_message.   *)
(*                                                                         *)
(* TakesAnyDictVars is a mutated form of NewLogMessageView.                *)
(***************************************************************************)
EXTENDS IrTypes, Sequences

CONSTANTS
    Bytes,            \* of log messages
    Placeholders,     \* the symbols of a logtype that are no bytes
    EncodedVars,      \* variables encoded as integers
    Messages,         \* the log messages a user encodes
    CoreEncode(_, _), \* of an encoding and a message, where it succeeds:
                      \* [logtype, vars, dictVarOffsets]
    CoreDecode(_, _)  \* of an encoding and an ir.LogMessage: [ok, message]

LogMessage ==
    [logtype           : Seq(Bytes \cup Placeholders),
     vars              : Seq(EncodedVars),
     dictVars          : Seq(Bytes),
     dictVarEndOffsets : Seq(Nat)]

Empty == [logtype |-> <<>>, vars |-> <<>>, dictVars |-> <<>>, dictVarEndOffsets |-> <<>>]

(* dictVarOffsets are the begin and end positions of the dictionary        *)
(* variables in the message, one after the other.                          *)
IsEncoding(c, m) ==
    /\ c \in [logtype        : Seq(Bytes \cup Placeholders),
              vars           : Seq(EncodedVars),
              dictVarOffsets : Seq([begin : Nat, end : Nat])]
    /\ \A k \in 1 .. Len(c.dictVarOffsets) :
          /\ c.dictVarOffsets[k].begin <= c.dictVarOffsets[k].end
          /\ c.dictVarOffsets[k].end <= Len(m)

ASSUME MessagesAssumption == Messages \subseteq Seq(Bytes)
ASSUME CoreEncodeAssumption ==
    \A e \in Encodings : \A m \in Messages : IsEncoding(CoreEncode(e, m), m)

(* What Go makes of the spans an Encoder returns: the dictionary variables *)
(* are stored over the logtype, and DictVars stays empty.                  *)
TakesAnyDictVars(m) ==
    [m EXCEPT !.logtype = m.dictVars, !.dictVars = <<>>]

NewLogMessageView(m) ==
    [m EXCEPT !.logtype = IF m.dictVars # <<>> THEN m.dictVars ELSE m.logtype,
              !.dictVars = <<>>]
=============================================================================
