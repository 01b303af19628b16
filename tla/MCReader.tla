------------------------------ MODULE MCReader ------------------------------
(***************************************************************************)
(* Small streams and arguments for the model checking of Reader.           *)
(***************************************************************************)
EXTENDS Reader, FiniteSets

Msgs == {"a", "b"}

Preamble(last, ts)   == [kind |-> "preamble", last |-> last, ts |-> ts, msg |-> "a"]
Event(last, ts, msg) == [kind |-> "event", last |-> last, ts |-> ts, msg |-> msg]
Eof(last)            == [kind |-> "eof", last |-> last, ts |-> 0, msg |-> "a"]
Bad(last)            == [kind |-> "bad", last |-> last, ts |-> 0, msg |-> "a"]

Stream(enc, meta, items) ==
    [enc |-> enc, meta |-> meta, items |-> items, len |-> items[Len(items)].last]

Truncate(s, len) == [s EXCEPT !.len = len]

(* Events of one to four bytes, out of time order, with the lower and the  *)
(* upper bounds of the intervals among their timestamps.                   *)
FourByte ==
    Stream("four", "ok",
           <<Preamble(3, 1), Event(5, 2, "a"), Event(6, 5, "b"), Event(10, 3, "a"), Eof(11)>>)

EightByte ==
    Stream("eight", "ok",
           <<Preamble(2, 0), Event(4, -2, "b"), Event(5, 4, "a"), Event(8, 0, "b"), Eof(9)>>)

NoReference ==
    Stream("four", "noRef", <<Preamble(2, 0), Event(4, 2, "b"), Eof(5)>>)

Corrupted ==
    Stream("four", "ok", <<Preamble(2, 1), Event(4, 2, "a"), Event(5, 3, "b"), Bad(8)>>)

Refused ==
    {Stream("four", meta, <<Preamble(2, 1), Eof(3)>>) : meta \in {"badType", "badJson"}}
    \cup {Stream("eight", "ok", <<Bad(2), Eof(3)>>)}

Short ==
    Stream("four", "ok", <<Preamble(2, 1), Event(3, 2, "b"), Event(6, 3, "a"), Eof(7)>>)

Complete  == {FourByte, EightByte, NoReference, Corrupted} \cup Refused
Truncated == {Truncate(FourByte, 8), Truncate(EightByte, 5), Truncate(NoReference, 1)}

AllStreams  == Complete \cup Truncated
ScanStreams == {FourByte, EightByte, Corrupted, Truncate(FourByte, 8)}
LiveStreams == {Short, Corrupted} \cup Refused
FourStream  == {FourByte}

Early == MinTime
Late  == MaxTime

(* The CLP core for messages of one letter and queries without escapes: a  *)
(* clean query has no two stars in a row.                                  *)
QueryChars == {"a", "b", "B", "*"}

MCClean(q) ==
    LET kept == {i \in DOMAIN q : i = 1 \/ q[i] # "*" \/ q[i - 1] # "*"}
        nth(n) == CHOOSE i \in kept : Cardinality({j \in kept : j < i}) = n - 1
    IN  [n \in 1 .. Cardinality(kept) |-> q[nth(n)]]

MCMatches(msg, q) ==
    \/ q.query = <<"*">>
    \/ q.query = <<msg>>
    \/ ~q.caseSensitive /\ q.query = <<"B">> /\ msg = "b"

(* An empty query, the same letters with and without regard to their case, *)
(* and one that matches everything.                                        *)
FourQueries ==
    <<NewWildcardQuery(<<>>, TRUE), NewWildcardQuery(<<"B">>, TRUE),
      NewWildcardQuery(<<"B">>, FALSE), NewWildcardQuery(<<"*", "*">>, FALSE)>>

MCFilters    == {[since |-> Early, msgs |-> {"b"}], [since |-> 2, msgs |-> Msgs]}
MCQueryLists == {<<>>, <<NewWildcardQuery(<<"b">>, TRUE)>>, FourQueries}
MCIntervals  == {[lower |-> 0, upper |-> 5], [lower |-> 2, upper |-> 3],
                 [lower |-> Early, upper |-> Late]}

None        == {}
OneFilter   == {[since |-> 3, msgs |-> Msgs]}
OneQuery    == {<<NewWildcardQuery(<<"b">>, TRUE)>>}
OneInterval == {[lower |-> 2, upper |-> 3]}
=============================================================================
