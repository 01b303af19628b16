------------------------------ MODULE IrFormat ------------------------------
(***************************************************************************)
(* The CLP IR byte stream as the code under src/ir and src/cpp uses it.    *)
(*                                                                         *)
(* A stream is a sequence of items: a preamble, log events and an end-of-  *)
(* stream tag.  The byte at offset k (counted from 1) of the stream is     *)
(* represented by the number k, so that a window of a buffer holds the     *)
(* right bytes exactly when it holds the right numbers; 0 stands for a     *)
(* byte that never came from the stream (make([]byte, n) zeroes it).       *)
(*                                                                         *)
(* A stream s is a record:                                                 *)
(*   s.enc   "four" or "eight", the encoding announced by the preamble     *)
(*   s.meta  what the metadata of the preamble is: "ok", "badType" (not    *)
(*           JSON by its type byte), "badJson" (does not parse) or "noRef" *)
(*           (JSON without a usable reference timestamp)                   *)
(*   s.items the items, each with its kind, the offset of its last byte,   *)
(*           and for an event its timestamp and message                    *)
(*   s.len   the number of bytes the io.Reader will deliver; smaller than  *)
(*           the last item's end when the stream is truncated              *)
(* The timestamp of the preamble item is the reference timestamp, 0 when   *)
(* the metadata has none.                                                  *)
(***************************************************************************)
EXTENDS Integers, Sequences, IrTypes

CONSTANT MaxTime  \* the largest epoch_time_ms_t: 2^63 - 1, less in a model

ASSUME MaxTimeAssumption == MaxTime \in Nat

MinTime == -(MaxTime + 1)
Times   == MinTime .. MaxTime

(* The sum or difference of two int64 values wraps around at most once. *)
Wrap(t) ==
    CASE t > MaxTime -> t - 2 * (MaxTime + 1)
      [] t < MinTime -> t + 2 * (MaxTime + 1)
      [] OTHER       -> t

-----------------------------------------------------------------------------
Metas     == {"ok", "noRef", "badType", "badJson"}
Kinds     == {"preamble", "event", "eof", "bad"}

Item(Messages) == [kind : Kinds, last : Nat, ts : Times, msg : Messages]

Count(s) == Len(s.items)

(* Offset of the last byte of the first j items, and the size of item j. *)
EndOf(s, j) == IF j = 0 THEN 0 ELSE s.items[j].last
Width(s, j) == EndOf(s, j) - EndOf(s, j - 1)

(* Items occupy consecutive, non-empty ranges of offsets. *)
IsStream(s, Messages) ==
    /\ s.enc \in Encodings
    /\ s.meta \in Metas
    /\ s.items \in Seq(Item(Messages))
    /\ s.items # <<>>
    /\ s.items[1].kind \in {"preamble", "bad"}
    /\ \A j \in 2 .. Count(s) : s.items[j].kind # "preamble"
    /\ s.meta = "noRef" => s.items[1].ts = 0
    /\ \A j \in 1..Count(s) : s.items[j].last >= 1
    /\ \A i, j \in 1..Count(s) : i < j => s.items[i].last < s.items[j].last
    /\ s.len \in 0..EndOf(s, Count(s))

-----------------------------------------------------------------------------
(* What the decoder of the CLP core library makes of the bytes             *)
(* b[lo], ..., b[hi - 1].  It sees only the bytes.                         *)

(* The window begins with all the bytes of item j ... *)
HoldsItem(s, b, lo, hi, j) ==
    /\ lo + Width(s, j) <= hi
    /\ \A k \in 0 .. Width(s, j) - 1 : b[lo + k] = EndOf(s, j - 1) + 1 + k

(* ... or consists of some of them only. *)
HoldsPart(s, b, lo, hi, j) ==
    /\ lo + Width(s, j) > hi
    /\ \A k \in 0 .. hi - lo - 1 : b[lo + k] = EndOf(s, j - 1) + 1 + k

Outcome(kind) ==
    CASE kind = "eof" -> EndOfIr
      [] kind = "bad" -> CorruptedIr
      [] OTHER        -> Success

NoItem(err) == [err |-> err, item |-> 0]

(* Decode one of the items in the set J at the beginning of the window. *)
Decode(s, b, lo, hi, J) ==
    LET whole == {j \in J : HoldsItem(s, b, lo, hi, j)}
        part  == {j \in J : HoldsPart(s, b, lo, hi, j)}
    IN  IF whole # {}
        THEN LET j == CHOOSE j \in whole : TRUE
             IN  [err |-> Outcome(s.items[j].kind), item |-> j]
        ELSE NoItem(IF part # {} THEN IncompleteIr ELSE CorruptedIr)

DecodePreamble(s, b, lo, hi) == Decode(s, b, lo, hi, {1})
DecodeEvent(s, b, lo, hi)    == Decode(s, b, lo, hi, 2..Count(s))
=============================================================================
