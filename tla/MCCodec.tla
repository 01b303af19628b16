------------------------------ MODULE MCCodec ------------------------------
(***************************************************************************)
(* A small Encoder and Decoder, with a CLP core that is told how each of a *)
(* few messages falls into text and variables.                             *)
(***************************************************************************)
EXTENDS Codec, SequencesExt

(* A part of a message: text, or a variable that some encodings can        *)
(* represent as an integer; in the others it goes to the dictionary.       *)
Txt(bytes)      == [var |-> FALSE, bytes |-> bytes, int |-> {}]
Var(bytes, int) == [var |-> TRUE, bytes |-> bytes, int |-> int]

Splits ==
    {<<Txt(<<"a">>)>>,
     <<Txt(<<"a">>), Var(<<"1">>, Encodings)>>,
     <<Var(<<"2", "1">>, {"eight"}), Txt(<<"b">>)>>,
     <<Var(<<"x", "y">>, {}), Txt(<<"b">>), Var(<<"1">>, Encodings), Var(<<"z">>, {})>>}

Text(parts) == FlattenSeq([j \in DOMAIN parts |-> parts[j].bytes])

Msgs      == {Text(parts) : parts \in Splits}
AllBytes  == {"a", "b", "x", "y", "z", "1", "2"}
Marks     == {"<int>", "<dict>"}
Ints      == {<<"1">>, <<"2", "1">>}

DictMsgs  == {<<"a">>, <<"x", "y", "b", "1", "z">>}

PartsOf(m) == CHOOSE parts \in Splits : Text(parts) = m

Symbols(e, part) ==
    IF ~part.var THEN part.bytes ELSE IF e \in part.int THEN <<"<int>">> ELSE <<"<dict>">>

(* The positions of those parts of a message that have the property P. *)
Which(parts, P(_)) == SelectSeq([j \in DOMAIN parts |-> j], LAMBDA j : P(parts[j]))

Offset(parts, j) ==
    LET begin == Len(Text(SubSeq(parts, 1, j - 1)))
    IN  [begin |-> begin, end |-> begin + Len(parts[j].bytes)]

Encode(e, m) ==
    LET parts == PartsOf(m)
        ints  == Which(parts, LAMBDA p : p.var /\ e \in p.int)
        dicts == Which(parts, LAMBDA p : p.var /\ e \notin p.int)
    IN  [logtype        |-> FlattenSeq([j \in DOMAIN parts |-> Symbols(e, parts[j])]),
         vars           |-> [k \in DOMAIN ints |-> parts[ints[k]].bytes],
         dictVarOffsets |-> [k \in DOMAIN dicts |-> Offset(parts, dicts[k])]]

(* The next encoded variable, or the next dictionary variable as the end   *)
(* offsets cut it, takes the place of each placeholder.                    *)
Decode(e, ir) ==
    LET rank(k) == Cardinality({i \in 1 .. k : ir.logtype[i] = ir.logtype[k]})
        dict(n) == SubSeq(ir.dictVars,
                          (IF n = 1 THEN 0 ELSE ir.dictVarEndOffsets[n - 1]) + 1,
                          ir.dictVarEndOffsets[n])
        piece(k) == CASE ir.logtype[k] = "<int>"  -> ir.vars[rank(k)]
                      [] ir.logtype[k] = "<dict>" -> dict(rank(k))
                      [] OTHER                    -> <<ir.logtype[k]>>
        ok == \A k \in DOMAIN ir.logtype :
                 /\ ir.logtype[k] = "<int>" => rank(k) <= Len(ir.vars)
                 /\ ir.logtype[k] = "<dict>" => rank(k) <= Len(ir.dictVarEndOffsets)
                                               /\ ir.dictVarEndOffsets[rank(k)] <= Len(ir.dictVars)
    IN  [ok      |-> ok,
         message |-> IF ok THEN FlattenSeq([k \in DOMAIN ir.logtype |-> piece(k)]) ELSE <<>>]

(* The encoding of a message in an ir.LogMessage of its own. *)
IrOf(e, m) ==
    LET c     == Encode(e, m)
        dicts == SelectSeq(PartsOf(m), LAMBDA p : p.var /\ e \notin p.int)
        upTo(k) == Text(SubSeq(dicts, 1, k))
    IN  [logtype           |-> c.logtype,
         vars              |-> c.vars,
         dictVars          |-> upTo(Len(dicts)),
         dictVarEndOffsets |-> [k \in DOMAIN dicts |-> Len(upTo(k))]]

WellFormed == {[e |-> e, ir |-> IrOf(e, m), message |-> m] : e \in Encodings, m \in Msgs}

(* A placeholder more than there are variables. *)
TooFewVars ==
    {[e |-> e, ir |-> [IrOf(e, <<"a">>) EXCEPT !.logtype = <<"a", mark>>]] :
        e \in Encodings, mark \in Marks}
=============================================================================
