------------------------------- MODULE Codec -------------------------------
(***************************************************************************)
(* A user with one Encoder and one Decoder of the same type parameter: he  *)
(* decodes the view the Encoder returned last, and LogMessages of other    *)
(* origin, well formed or not.  A LogMessageView is used only while it is  *)
(* documented to be valid: until the next call of the Encoder.             *)
(***************************************************************************)
EXTENDS Encoder, Decoder

CONSTANTS
    Given,    \* well-formed encodings from elsewhere: [e, ir, message]
    Damaged   \* LogMessages that cannot be decoded: [e, ir]

ASSUME GivenAssumption ==
    \A g \in Given : g.ir \in LogMessage /\ CoreDecode(g.e, g.ir) = [ok |-> TRUE, message |-> g.message]
ASSUME DamagedAssumption ==
    \A g \in Damaged : g.ir \in LogMessage /\ ~CoreDecode(g.e, g.ir).ok

(* decode_message undoes encode_message; without variables for the         *)
(* dictionary nothing has to be cut out of a string for that.              *)
ASSUME CoreInverseAssumption ==
    \A e \in Encodings : \A m \in Messages :
        LET c == CoreEncode(e, m)
        IN  c.dictVarOffsets = <<>> =>
                CoreDecode(e, [logtype |-> c.logtype, vars |-> c.vars,
                               dictVars |-> <<>>, dictVarEndOffsets |-> <<>>])
                    = [ok |-> TRUE, message |-> m]

VARIABLE asked  \* (history) what the last call of the Decoder was about:
                \* [of, message, plain]

vars == <<encVars, decVars, asked>>

Ask(of, message, plain) == [of |-> of, message |-> message, plain |-> plain]

Init ==
    /\ EncInit
    /\ DecInit
    /\ asked = Ask("nothing", <<>>, FALSE)

-----------------------------------------------------------------------------
HasDictVars(m) == CoreEncode(encoding, m).dictVarOffsets # <<>>
HasVars(m)     == CoreEncode(encoding, m).vars # <<>>

(* No variable of an earlier message can be left in the Encoder, and the   *)
(* newest message has none for the dictionary.                             *)
Plain ==
    /\ ~HasDictVars(Newest)
    /\ \A i \in 1 .. Len(encoded) - 1 : ~HasDictVars(encoded[i]) /\ ~HasVars(encoded[i])

DecodeView ==
    /\ JustEncoded
    /\ DecodeOf(encoding, encResult.view)
    /\ asked' = Ask("view", Newest, Plain)

DecodeGiven ==
    \E g \in Given :
        /\ g.e = encoding
        /\ DecodeOf(g.e, g.ir)
        /\ asked' = Ask("given", g.message, FALSE)

DecodeDamaged ==
    \E g \in Damaged :
        /\ g.e = encoding
        /\ DecodeOf(g.e, g.ir)
        /\ asked' = Ask("damaged", <<>>, FALSE)

Encoding == EncNext /\ UNCHANGED <<decVars, asked>>
Decoding ==
    /\ encPc = "idle"
    /\ \/ (NewDecoder \/ DecClose) /\ UNCHANGED asked
       \/ DecodeView
       \/ DecodeGiven
       \/ DecodeDamaged
    /\ UNCHANGED encVars

Next == Encoding \/ Decoding

Spec == Init /\ [][Next]_vars

-----------------------------------------------------------------------------
(* Properties.                                                             *)

(* Every variable has its type; the insertion into m_dict_vars stays       *)
(* within it.                                                              *)
TypeOK ==
    /\ EncTypeOK
    /\ DecTypeOK
    /\ asked.of \in {"nothing", "view", "given", "damaged"}

Recovered == decResult = [err |-> Success, message |-> asked.message]

(* Decoding what an Encoder returned gives back the message. *)
RoundTrip == (asked.of = "view" /\ decPtr) => Recovered

(* It does as long as no variable of an earlier message can be left in the *)
(* Encoder and the message itself has none for the dictionary: calls that  *)
(* failed before, in the Encoder or in the Decoder, do not matter.         *)
PlainRoundTrip == asked.plain => RoundTrip

(* A Decoder depends on nothing but the LogMessage it is given: a          *)
(* well-formed one gives its message and a damaged one an error, whatever  *)
(* was decoded, or could not be decoded, before.                           *)
DecodesOnItsOwn ==
    /\ (asked.of = "given" /\ decPtr) => Recovered
    /\ asked.of = "damaged" => decResult.err = DecodeError

(* No call reaches a native object after Close has freed it: neither one   *)
(* that goes on to encode nor one that returns a message.                  *)
NoUseAfterClose ==
    [][/\ encPc' = "insert" => encNative = "live"
       /\ (decResult' # decResult /\ decResult'.err = Success) => decNative = "live"]_vars
=============================================================================
