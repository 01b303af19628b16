---------------------------- MODULE WildcardMatch ----------------------------
(***************************************************************************)
(* The wildcard scan of ir.Deserializer, one turn of the native loop at a  *)
(* time.  A query is what Go passes: [merged, lower, upper].               *)
(*                                                                         *)
(* AfterInterval is a mutated form of TooLate.                             *)
(***************************************************************************)
EXTENDS Deserializer, WildcardQuery

(* search.TimestampInterval is half open, and math.MaxInt64 is the Upper   *)
(* of a scan of the whole IR; MaxTime stands for it.                       *)
InInterval(t, lower, upper) == lower <= t /\ t < upper

(* The native code tests the upper bound first. *)
AfterInterval(ts, query) == query.upper < ts
TooLate(ts, query)       == query.upper <= ts
TooEarly(ts, query)      == query.lower > ts

(* One turn of the loop of deserialize_wildcard_match<e>, at the read      *)
(* position lo of its BufferReader.  "again" goes on with the next event;  *)
(* anything else leaves the loop with that error code.  The timestamp is   *)
(* stored in m_timestamp before the interval and the queries are looked    *)
(* at, and stays there whatever the call returns.                          *)
Again == -1

DeserializeWildcardMatch(e, s, b, lo, hi, query) ==
    LET event   == NextEvent(e, s, b, lo, hi)
        message == s.items[event.item].msg
        queries == SplitQueries(query.merged)
        err     == CASE event.err # Success -> event.err
                     [] event.err = Success /\ TooLate(event.ts, query) -> QueryNotFound
                     [] event.err = Success /\ ~TooLate(event.ts, query) ->
                          IF TooEarly(event.ts, query) \/ ~AnyMatch(message, queries)
                          THEN Again ELSE Success
    IN  [err   |-> err,
         event |-> event,
         index |-> IF err = Success THEN MatchIndex(message, queries) ELSE -1]

EightByteWildcardMatch(s, b, lo, hi, query) ==
    DeserializeWildcardMatch("eight", s, b, lo, hi, query)

FourByteWildcardMatch(s, b, lo, hi, query) ==
    DeserializeWildcardMatch("four", s, b, lo, hi, query)

(* By the type of the Go handle, which is that of the preamble. *)
ScanResult(s, b, lo, hi, query) ==
    IF s.enc = "eight"
    THEN EightByteWildcardMatch(s, b, lo, hi, query)
    ELSE FourByteWildcardMatch(s, b, lo, hi, query)

ScanEffect(lo, hi, event) ==
    IF lo # hi THEN DecodeEffect(event) ELSE UNCHANGED desVars
=============================================================================
