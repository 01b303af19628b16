--------------------------- MODULE IrFormatProofs ---------------------------
(***************************************************************************)
(* Facts about streams, their decoding and their timestamps, for the       *)
(* proofs about the reading and the writing side.                          *)
(***************************************************************************)
EXTENDS IrFormat, TLAPS

(* The geometry of a stream: items are not empty and do not overlap. *)
LEMMA Geometry ==
    ASSUME NEW Messages, NEW s, IsStream(s, Messages)
    PROVE  /\ Count(s) \in Nat \ {0}
           /\ \A j \in 0 .. Count(s) : EndOf(s, j) \in Nat
           /\ \A j \in 1 .. Count(s) : /\ s.items[j] \in Item(Messages)
                                       /\ Width(s, j) \in Nat \ {0}
           /\ s.len \in Nat
<1>1. IsStream(s, Messages)
  OBVIOUS
<1>2. /\ Len(s.items) \in Nat \ {0}
      /\ \A j \in 1 .. Len(s.items) : s.items[j] \in Item(Messages)
  BY <1>1 DEF IsStream
<1>3. \A j \in 1 .. Len(s.items) : s.items[j].last \in Nat /\ s.items[j].last >= 1
  BY <1>1, <1>2 DEF IsStream, Item, Count
<1>4. \A j \in 1 .. Count(s) : Width(s, j) \in Nat \ {0}
  <2>1. SUFFICES ASSUME NEW j \in 1 .. Count(s)
                 PROVE  Width(s, j) \in Nat \ {0}
    OBVIOUS
  <2>2. CASE j = 1
    BY <1>2, <1>3, <2>2 DEF Width, EndOf, Count
  <2>3. CASE j # 1
    <3>1. j - 1 \in 1 .. Len(s.items) /\ j - 1 # 0 /\ j # 0 /\ j - 1 < j
      BY <1>2, <2>3 DEF Count
    <3>2. s.items[j - 1].last < s.items[j].last
      BY <1>1, <3>1 DEF IsStream, Count
    <3>3. QED
      BY <1>2, <1>3, <3>1, <3>2 DEF Width, EndOf, Count
  <2>4. QED
    BY <2>2, <2>3
<1>5. s.len \in Nat
  <2>1. EndOf(s, Count(s)) \in Nat
    BY <1>2, <1>3 DEF EndOf, Count
  <2>2. QED
    BY <1>1, <2>1 DEF IsStream
<1>6. QED
  BY <1>2, <1>3, <1>4, <1>5 DEF EndOf, Count

(* The items lie in the stream in their order. *)
LEMMA EndsRise ==
    ASSUME NEW Messages, NEW s, IsStream(s, Messages),
           NEW i \in 0 .. Count(s), NEW j \in 0 .. Count(s)
    PROVE  /\ i < j <=> EndOf(s, i) < EndOf(s, j)
           /\ i = j <=> EndOf(s, i) = EndOf(s, j)
<1>1. \A k \in 0 .. Count(s) : EndOf(s, k) \in Nat /\ Count(s) \in Nat
  BY Geometry
<1>2. ASSUME NEW k \in 0 .. Count(s), NEW l \in 0 .. Count(s), k < l
      PROVE  EndOf(s, k) < EndOf(s, l)
  <2>1. l \in 1 .. Count(s) /\ l # 0
    BY <1>1, <1>2
  <2>2. CASE k = 0
    <3>1. s.items[l].last >= 1
      BY <2>1 DEF IsStream
    <3>2. EndOf(s, l) = s.items[l].last /\ EndOf(s, k) = 0
      BY <2>1, <2>2 DEF EndOf
    <3>3. QED
      BY <1>1, <3>1, <3>2
  <2>3. CASE k # 0
    <3>1. k \in 1 .. Count(s)
      BY <1>1, <2>3
    <3>2. s.items[k].last < s.items[l].last
      BY <1>2, <2>1, <3>1 DEF IsStream
    <3>3. QED
      BY <2>1, <2>3, <3>2 DEF EndOf
  <2>4. QED
    BY <2>2, <2>3
<1>3. QED
  <2>1. EndOf(s, i) \in Nat /\ EndOf(s, j) \in Nat /\ i \in Int /\ j \in Int
    BY <1>1
  <2>2. CASE i < j
    BY <1>2, <2>1, <2>2
  <2>3. CASE j < i
    BY <1>2, <2>1, <2>3
  <2>4. CASE i = j
    BY <2>1, <2>4
  <2>5. QED
    BY <2>1, <2>2, <2>3, <2>4

(* A decode that recognises an item found all its bytes at the front of    *)
(* the window; one that does not returns IncompleteIr or CorruptedIr.      *)
LEMMA DecodeSound ==
    ASSUME NEW s, NEW b, NEW lo, NEW hi, NEW J
    PROVE  LET d == Decode(s, b, lo, hi, J)
           IN  \/ /\ d.item \in J
                  /\ HoldsItem(s, b, lo, hi, d.item)
                  /\ d.err = Outcome(s.items[d.item].kind)
               \/ /\ d.item = 0
                  /\ d.err \in {IncompleteIr, CorruptedIr}
<1> DEFINE whole == {j \in J : HoldsItem(s, b, lo, hi, j)}
<1>1. CASE whole # {}
  <2> DEFINE c == CHOOSE j \in whole : TRUE
  <2>1. c \in whole
    BY <1>1
  <2>2. Decode(s, b, lo, hi, J) = [err |-> Outcome(s.items[c].kind), item |-> c]
    BY <1>1 DEF Decode
  <2>3. QED
    BY <2>1, <2>2
<1>2. CASE whole = {}
  BY <1>2 DEF Decode, NoItem
<1>3. QED
  BY <1>1, <1>2

(* A window that begins with an item, or with part of one, is never taken  *)
(* for corrupted: that item, or another that fits as well, is recognised.  *)
LEMMA DecodeComplete ==
    ASSUME NEW s, NEW b, NEW lo, NEW hi, NEW J, NEW j \in J,
           HoldsItem(s, b, lo, hi, j) \/ HoldsPart(s, b, lo, hi, j)
    PROVE  LET d == Decode(s, b, lo, hi, J)
           IN  d.item \in J \/ d.err = IncompleteIr
<1> DEFINE whole == {i \in J : HoldsItem(s, b, lo, hi, i)}
           part  == {i \in J : HoldsPart(s, b, lo, hi, i)}
<1>1. CASE whole # {}
  <2> DEFINE c == CHOOSE i \in whole : TRUE
  <2>1. c \in whole
    BY <1>1
  <2>2. Decode(s, b, lo, hi, J).item = c
    BY <1>1 DEF Decode
  <2>3. QED
    BY <2>1, <2>2
<1>2. CASE whole = {}
  <2>1. j \in part
    BY <1>2
  <2>2. QED
    BY <1>2, <2>1 DEF Decode, NoItem
<1>3. QED
  BY <1>1, <1>2

(* More bytes are asked for only while an item does not fit the window. *)
LEMMA DecodeIncomplete ==
    ASSUME NEW s, NEW b, NEW lo, NEW hi, NEW J, Decode(s, b, lo, hi, J).err = IncompleteIr
    PROVE  \E j \in J : lo + Width(s, j) > hi
<1> DEFINE whole == {i \in J : HoldsItem(s, b, lo, hi, i)}
           part  == {i \in J : HoldsPart(s, b, lo, hi, i)}
<1>1. \A kind : Outcome(kind) # IncompleteIr
  BY DEF Outcome, Success, EndOfIr, CorruptedIr, IncompleteIr
<1>2. whole = {}
  <2>1. SUFFICES ASSUME whole # {} PROVE FALSE
    OBVIOUS
  <2>2. \E kind : Decode(s, b, lo, hi, J).err = Outcome(kind)
    BY <2>1 DEF Decode
  <2>3. QED
    BY <1>1, <2>2
<1>3. part # {}
  BY <1>2 DEF Decode, NoItem, CorruptedIr, IncompleteIr
<1>4. QED
  BY <1>3 DEF HoldsPart

(* int64 arithmetic stays within int64, and adding a wrapped difference    *)
(* gives back the minuend exactly.                                         *)
LEMMA WrapInTimes ==
    ASSUME NEW s \in Times, NEW t \in Times
    PROVE  Wrap(s + t) \in Times /\ Wrap(s - t) \in Times
BY MaxTimeAssumption DEF Times, MinTime, Wrap

LEMMA DifferenceAddsUp ==
    ASSUME NEW s \in Times, NEW t \in Times
    PROVE  Wrap(s + Wrap(t - s)) = t
BY MaxTimeAssumption DEF Times, MinTime, Wrap
=============================================================================
