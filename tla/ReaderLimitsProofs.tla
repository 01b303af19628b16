------------------------- MODULE ReaderLimitsProofs -------------------------
(***************************************************************************)
(* What a Reader needs and what it leaves behind, proved for every stream, *)
(* buffer size and argument: how far its buffer grows, when it asks the    *)
(* io.Reader for more, that the buffer does not show in what is decoded,   *)
(* and what has to be true of a stream for no native object to leak and no *)
(* event of a ReadToWildcardMatch to be passed over.                       *)
(***************************************************************************)
EXTENDS ReaderEventsProofs

-----------------------------------------------------------------------------
(* The buffer against what was delivered.  A window that takes more than   *)
(* half of the buffer is part of what was delivered, so twice the buffer   *)
(* is still less than four times that.                                     *)

StreamInv == Inv /\ BufferFitsStream

LEMMA DeliveredGrows ==
    ASSUME Inv, [Next]_vars, ~DoFillBuf
    PROVE  cap' = cap /\ delivered' \in Nat /\ delivered <= delivered'
<1>1. delivered \in Nat /\ stream.len \in Nat
  BY ConsumedType DEF Inv
<1>2. CASE DoFirstRead
  BY <1>1, <1>2 DEF DoFirstRead, FirstRead, ReadInto
<1>3. CASE ~DoFirstRead
  <2>1. UNCHANGED <<cap, delivered>>
    BY <1>3 DEF Next, Method, Step, TryPreamble, TryRead, EnterScan, ScanEvent, Read, ReadToFunc,
                ReadToWildcardMatch, ReadToWildcardMatchWithTimeInterval, Begin, Close,
                vars, ioVars, bufVars
  <2>2. QED
    BY <1>1, <2>1
<1>4. QED
  BY <1>2, <1>3

LEMMA StreamNext ==
    ASSUME StreamInv, [Next]_vars
    PROVE  StreamInv'
<1> USE DEF StreamInv
<1>1. Inv'
  BY InvNext
<1>2. /\ Consumed \in Nat /\ start \in Nat /\ end \in Nat /\ cap \in Nat /\ delivered \in Nat
      /\ start <= end /\ end <= cap /\ stream.len \in Nat
  BY ConsumedType DEF Inv
<1>3. ASSUME NEW c, NEW d, cap' = c, delivered' = d, c <= InitialSize \/ c <= 4 * d - 2
      PROVE  StreamInv'
  BY <1>1, <1>3 DEF BufferFitsStream
<1>4. ASSUME NEW d \in Nat, delivered <= d
      PROVE  cap <= InitialSize \/ cap <= 4 * d - 2
  BY <1>2, <1>4, SizeAssumption DEF BufferFitsStream
<1>5. CASE DoFillBuf
  <2>1. PICK n \in 0 .. stream.len : FillBuf(n)
    BY <1>5 DEF DoFillBuf
  <2>2. cap' = (IF Grows THEN 2 * cap ELSE cap) /\ delivered' = delivered + n
    BY <2>1 DEF FillBuf, ReadInto
  <2>3. n \in Nat /\ delivered + n \in Nat /\ delivered <= delivered + n
    BY <1>2
  <2>4. CASE ~Grows
    BY <1>3, <1>4, <2>2, <2>3, <2>4
  <2>5. CASE Grows
    <3>1. cap \div 2 \in Nat /\ cap <= 2 * (cap \div 2) + 1
      BY <1>2
    <3>2. end - start > cap \div 2
      BY <2>5 DEF Grows
    <3>3. end - start <= delivered
      BY <1>2 DEF Consumed
    <3>4. 2 * cap <= 4 * (delivered + n) - 2
      BY <1>2, <2>3, <3>1, <3>2, <3>3
    <3>5. QED
      BY <1>3, <2>2, <2>5, <3>4
  <2>6. QED
    BY <2>4, <2>5
<1>6. CASE ~DoFillBuf
  <2>1. cap' = cap /\ delivered' \in Nat /\ delivered <= delivered'
    BY <1>6, DeliveredGrows
  <2>2. QED
    BY <1>3, <1>4, <2>1
<1>7. QED
  BY <1>5, <1>6

(* Whatever is read or scanned for, and however long a scan goes without a *)
(* match, the buffer stays at its initial size or below four times the     *)
(* number of bytes delivered.                                              *)
THEOREM ReaderBufferBounded == Spec => []BufferFitsStream
<1>1. Init => StreamInv
  <2> SUFFICES ASSUME Init PROVE StreamInv
    OBVIOUS
  <2>1. cap <= InitialSize
    BY SizeAssumption DEF Init
  <2>2. QED
    BY <2>1, InvInit DEF StreamInv, BufferFitsStream
<1>2. StreamInv /\ [Next]_vars => StreamInv'
  BY StreamNext
<1>3. StreamInv => BufferFitsStream
  BY DEF StreamInv
<1>4. QED
  BY <1>1, <1>2, <1>3, PTL DEF Spec

-----------------------------------------------------------------------------
(* Room for the next read: a buffer that is not empty stays so. *)

RoomInv == Inv /\ cap # 0

LEMMA RoomNext ==
    ASSUME RoomInv, [Next]_vars
    PROVE  RoomInv'
<1> USE DEF RoomInv
<1>1. Inv'
  BY InvNext
<1>2. CASE DoFillBuf
  <2>1. cap' = IF Grows THEN 2 * cap ELSE cap
    BY <1>2 DEF DoFillBuf, FillBuf, ReadInto
  <2>2. cap \in Nat
    BY ConsumedType DEF Inv
  <2>3. QED
    BY <1>1, <2>1, <2>2
<1>3. CASE ~DoFillBuf
  BY <1>1, <1>3, DeliveredGrows
<1>4. QED
  BY <1>2, <1>3

(* Unless NewReaderSize was given the size 0, every refill of the buffer   *)
(* asks the io.Reader for at least one byte.                               *)
THEOREM ReaderRefillHasRoom == ASSUME InitialSize # 0 PROVE Spec => []RefillHasRoom
<1>1. Init => RoomInv
  BY InvInit DEF RoomInv, Init
<1>2. RoomInv /\ [Next]_vars => RoomInv'
  BY RoomNext
<1>3. RoomInv => RefillHasRoom
  <2> SUFFICES ASSUME RoomInv PROVE RefillHasRoom
    OBVIOUS
  <2>1. /\ start \in Nat /\ end \in Nat /\ cap \in Nat /\ start <= end /\ end <= cap /\ cap # 0
    BY ConsumedType DEF RoomInv, Inv
  <2>2. end - start <= cap /\ end - start \in Nat
    BY <2>1
  <2>3. CASE Grows
    BY <2>1, <2>2, <2>3 DEF RefillHasRoom
  <2>4. CASE ~Grows
    <3>1. cap \div 2 < cap /\ cap \div 2 \in Nat
      BY <2>1
    <3>2. end - start < cap
      BY <2>1, <2>4, <3>1 DEF Grows
    <3>3. QED
      BY <2>4, <3>2 DEF RefillHasRoom
  <2>5. QED
    BY <2>3, <2>4
<1>4. QED
  BY <1>1, <1>2, <1>3, PTL DEF Spec

-----------------------------------------------------------------------------
(* The end of the stream.  Nothing is consumed before the preamble is, and *)
(* what has been consumed ends neither the stream nor its decoding, so the *)
(* item a call asks more bytes for lies before the end or is the end.      *)

AtFront == call = NewCall /\ pc # "idle" => Consumed = 0

Ending(k) == stream.items[k].kind \in {"eof", "bad"}

EndAhead == \A k \in 1 .. Count(stream) : EndOf(stream, k) <= Consumed => ~Ending(k)

EndInv == EventsInv /\ AtFront /\ EndAhead /\ NeverReadsPastEnd

LEMMA AtFrontNext ==
    ASSUME EventsInv, AtFront, [Next]_vars
    PROVE  AtFront'
<1> USE DEF EventsInv
<1>1. CASE IdleStep
  <2>1. Consumed' = Consumed
    BY <1>1 DEF IdleStep
  <2>2. CASE call' # NewCall
    BY <2>2 DEF AtFront
  <2>3. CASE call' = call /\ (pc' # "idle" => pc # "idle")
    BY <2>1, <2>3 DEF AtFront
  <2>4. QED
    BY <1>1, <2>2, <2>3 DEF IdleStep
<1>2. CASE pc = "preamble" /\ PreambleStep
  BY <1>2 DEF PreambleStep, AtFront
<1>3. CASE pc = "deser" /\ ReadStep(Decoded)
  BY <1>3 DEF ReadStep, AtFront, Phase
<1>4. CASE ScanStep(Turn)
  BY <1>4 DEF ScanStep, AtFront, Phase
<1>5. QED
  BY <1>1, <1>2, <1>3, <1>4, Steps

(* A preamble that is accepted is none of the items that end a stream. *)
LEMMA PreambleNoEnd ==
    ASSUME TypeOK, call = NewCall, TryPreamble, pc' = "idle"
    PROVE  ~Ending(1)
<1> DEFINE r == PreambleResult(stream, buf, start, end)
           d == DecodePreamble(stream, buf, start, end)
<1>1. r.err = Success
  <2>1. r.err = IncompleteIr => pc' = "fill"
    BY DEF TryPreamble, IncompleteIr, Success
  <2>2. r.err \notin {IncompleteIr, Success} => Fail(r.err)
    BY DEF TryPreamble
  <2>3. ~Fail(r.err)
    BY DEF Fail
  <2>4. QED
    BY <2>1, <2>2, <2>3
<1>2. d.err = Success
  BY <1>1 DEF PreambleResult, IncompleteIr, Success
<1>3. 1 \in 1 .. Count(stream)
  BY StreamGeometry DEF TypeOK
<1>4. d.item = 1 /\ d.err = Outcome(stream.items[1].kind)
  BY <1>2, <1>3, ItemDecoded DEF DecodePreamble, Success, IncompleteIr, CorruptedIr
<1>5. QED
  BY <1>2, <1>4 DEF Outcome, Ending, Success, EndOfIr, CorruptedIr

LEMMA EndAheadNext ==
    ASSUME EventsInv, EndAhead, [Next]_vars
    PROVE  EndAhead'
<1> USE DEF EventsInv
<1>1. /\ Count(stream) \in Nat \ {0}
      /\ \A j \in 0 .. Count(stream) : EndOf(stream, j) \in Nat
  BY LookedType
<1>2. stream' = stream
  BY Steps DEF IdleStep, PreambleStep, ReadStep, ScanStep
<1>3. CASE Consumed' = Consumed
  BY <1>2, <1>3 DEF EndAhead, Ending
<1>4. CASE Consumed' # Consumed
  <2>1. PICK i, j \in 0 .. Count(stream) :
           /\ Consumed = EndOf(stream, i)
           /\ Consumed' = EndOf(stream, j)
           /\ IF call = NewCall
              THEN j = 1
              ELSE \A k \in i + 1 .. j : stream.items[k].kind = "event"
    BY <1>4, OrderStep DEF ConsumesOneRun
  <2>2. SUFFICES ASSUME NEW k \in 1 .. Count(stream), EndOf(stream, k) <= EndOf(stream, j)
                 PROVE  ~Ending(k)
    BY <1>2, <2>1 DEF EndAhead, Ending
  <2>3. k \in 0 .. Count(stream)
    BY <1>1
  <2>4. k <= j
    <3>1. j < k => EndOf(stream, j) < EndOf(stream, k)
      BY <2>3, StreamEnds DEF Inv
    <3>2. EndOf(stream, j) \in Nat /\ EndOf(stream, k) \in Nat
      BY <1>1, <2>3
    <3>3. QED
      BY <1>1, <2>2, <3>1, <3>2
  <2>5. CASE k <= i
    <3>1. EndOf(stream, k) <= EndOf(stream, i)
      <4>1. k < i => EndOf(stream, k) < EndOf(stream, i)
        BY <2>3, StreamEnds DEF Inv
      <4>2. EndOf(stream, i) \in Nat /\ EndOf(stream, k) \in Nat
        BY <1>1, <2>3
      <4>3. QED
        BY <1>1, <2>5, <4>1, <4>2
    <3>2. QED
      BY <2>1, <3>1 DEF EndAhead
  <2>6. CASE i < k /\ call # NewCall
    BY <1>1, <2>1, <2>4, <2>6 DEF Ending
  <2>7. CASE call = NewCall
    <3>1. k = 1
      BY <1>1, <2>1, <2>4, <2>7
    <3>2. TryPreamble /\ pc' = "idle"
      <4>1. PreambleStep
        BY <1>4, <2>7, Steps DEF IdleStep, ScanStep, Phase
      <4>2. pc' = "idle"
        BY <1>4, <4>1 DEF PreambleStep
      <4>3. pc = "preamble"
        BY <1>4, <2>7, Steps DEF IdleStep, ScanStep, Phase
      <4>4. TryPreamble
        BY <1>4, <4>2, <4>3
           DEF Next, Method, Step, DoFirstRead, FirstRead, DoFillBuf, FillBuf, TryRead, EnterScan,
               ScanEvent, Read, ReadToFunc, ReadToWildcardMatch,
               ReadToWildcardMatchWithTimeInterval, Begin, Close, vars
      <4>5. QED
        BY <4>2, <4>4
    <3>3. QED
      BY <2>7, <3>1, <3>2, PreambleNoEnd DEF Inv
  <2>8. QED
    BY <1>1, <2>5, <2>6, <2>7
<1>5. QED
  BY <1>3, <1>4

(* An item is asked for only while its last byte has not been delivered. *)
LEMMA NotYetDelivered ==
    ASSUME Inv, NEW lo \in start .. end, NEW p \in 0 .. Count(stream), NEW J, p + 1 \in J,
           p + 1 \in 1 .. Count(stream),
           Consumed + (lo - start) = EndOf(stream, p),
           Decode(stream, buf, lo, end, J).err = IncompleteIr
    PROVE  delivered < EndOf(stream, p + 1)
<1>1. /\ Consumed \in Nat /\ start \in Nat /\ end \in Nat /\ delivered \in Nat /\ start <= end
      /\ lo \in Nat /\ start <= lo /\ lo <= end
  BY ConsumedType DEF Inv
<1>2. /\ Width(stream, p + 1) \in Nat
      /\ EndOf(stream, p + 1) \in Nat /\ EndOf(stream, p) \in Nat
      /\ Width(stream, p + 1) = EndOf(stream, p + 1) - EndOf(stream, p)
      /\ (p + 1) - 1 = p
  <2>1. /\ Width(stream, p + 1) \in Nat
        /\ EndOf(stream, p + 1) \in Nat /\ EndOf(stream, p) \in Nat
    BY StreamGeometry DEF Inv, TypeOK
  <2>2. (p + 1) - 1 = p
    OBVIOUS
  <2>3. QED
    BY <2>1, <2>2 DEF Width
<1>3. ~HoldsItem(stream, buf, lo, end, p + 1)
  <2>1. SUFFICES ASSUME HoldsItem(stream, buf, lo, end, p + 1) PROVE FALSE
    OBVIOUS
  <2>2. \E kind : Decode(stream, buf, lo, end, J).err = Outcome(kind)
    BY <2>1 DEF Decode
  <2>3. QED
    BY <2>2 DEF Outcome, Success, EndOfIr, CorruptedIr, IncompleteIr
<1>4. lo + Width(stream, p + 1) > end
  <2>1. SUFFICES ASSUME lo + Width(stream, p + 1) <= end
                 PROVE  \A k \in 0 .. Width(stream, p + 1) - 1 :
                           buf[lo + k] = EndOf(stream, (p + 1) - 1) + 1 + k
    BY <1>1, <1>2, <1>3 DEF HoldsItem
  <2>2. SUFFICES ASSUME NEW k \in 0 .. Width(stream, p + 1) - 1
                 PROVE  buf[lo + k] = EndOf(stream, p) + 1 + k
    BY <1>2
  <2>3. (lo - start) + k \in 0 .. end - start - 1
    BY <1>1, <1>2, <2>1
  <2>4. buf[start + ((lo - start) + k)] = Consumed + 1 + ((lo - start) + k)
    BY <2>3 DEF Inv, WindowIsStream
  <2>5. start + ((lo - start) + k) = lo + k
    BY <1>1
  <2>6. Consumed + 1 + ((lo - start) + k) = (Consumed + (lo - start)) + 1 + k
    BY <1>1
  <2>7. QED
    BY <2>4, <2>5, <2>6
<1>5. Consumed = delivered - (end - start)
  BY DEF Consumed
<1>6. QED
  <2> DEFINE w == Width(stream, p + 1)
             e == EndOf(stream, p + 1)
             f == EndOf(stream, p)
             c == Consumed
  <2>1. w \in Nat /\ e \in Nat /\ f \in Nat /\ w = e - f /\ lo + w > end
        /\ c + (lo - start) = f /\ c = delivered - (end - start) /\ c \in Nat
    BY <1>1, <1>2, <1>4, <1>5
  <2> HIDE DEF w, f, c, e
  <2>2. delivered < e
    BY <1>1, <2>1
  <2>3. QED
    BY <2>2 DEF e

(* What is still ahead of the item that a call stands behind. *)
LEMMA EndingLater ==
    ASSUME EventsInv, EndAhead, call # NewCall, NEW k \in 1 .. Count(stream), Ending(k)
    PROVE  /\ Looked < EndOf(stream, k)
           /\ \A p \in 0 .. Count(stream) :
                 EndOf(stream, p) = Looked =>
                    p + 1 \in 1 .. Count(stream) /\ EndOf(stream, p + 1) <= EndOf(stream, k)
<1> USE DEF EventsInv
<1>1. /\ Consumed \in Nat /\ Looked \in Nat /\ Count(stream) \in Nat \ {0}
      /\ \A j \in 0 .. Count(stream) : EndOf(stream, j) \in Nat
      /\ k \in 0 .. Count(stream)
  BY LookedType
<1>2. Looked < EndOf(stream, k)
  <2>1. ~(EndOf(stream, k) <= Consumed)
    BY DEF EndAhead
  <2>2. stream.items[k].kind # "event"
    BY DEF Ending
  <2>3. ~(Consumed < EndOf(stream, k) /\ EndOf(stream, k) <= Looked)
    BY <2>2 DEF Scanned
  <2>4. EndOf(stream, k) \in Nat
    BY <1>1
  <2>5. QED
    BY <1>1, <2>1, <2>3, <2>4
<1>3. ASSUME NEW p \in 0 .. Count(stream), EndOf(stream, p) = Looked
      PROVE  p + 1 \in 1 .. Count(stream) /\ EndOf(stream, p + 1) <= EndOf(stream, k)
  <2>1. p < k
    BY <1>1, <1>2, <1>3, StreamEnds DEF Inv
  <2>2. p + 1 \in 1 .. Count(stream) /\ p + 1 \in 0 .. Count(stream) /\ p + 1 <= k
    BY <1>1, <2>1
  <2>3. CASE p + 1 = k
    BY <1>1, <2>2, <2>3
  <2>4. CASE p + 1 < k
    <3>1. EndOf(stream, p + 1) < EndOf(stream, k)
      BY <1>1, <2>2, <2>4, StreamEnds DEF Inv
    <3>2. EndOf(stream, p + 1) \in Nat /\ EndOf(stream, k) \in Nat
      BY <1>1, <2>2
    <3>3. QED
      BY <2>2, <3>1, <3>2
  <2>5. QED
    BY <1>1, <2>2, <2>3, <2>4
<1>4. QED
  BY <1>2, <1>3

(* The decoder found the item at the read position lo incomplete. *)
LEMMA EventIncomplete ==
    ASSUME EventsInv, EndAhead, call # NewCall, NEW lo \in start .. end,
           Looked = Consumed + (lo - start),
           DecodeEvent(stream, buf, lo, end).err = IncompleteIr,
           NEW k \in 1 .. Count(stream), Ending(k)
    PROVE  delivered < EndOf(stream, k)
<1> USE DEF EventsInv
<1>1. /\ delivered \in Nat /\ Count(stream) \in Nat \ {0}
      /\ \A j \in 0 .. Count(stream) : EndOf(stream, j) \in Nat
  BY LookedType, ConsumedType DEF Inv
<1>2. PICK p \in 1 .. Count(stream) : Looked = EndOf(stream, p)
  BY BehindItem
<1>3. p \in 0 .. Count(stream)
  BY <1>1
<1>4. p + 1 \in 1 .. Count(stream) /\ EndOf(stream, p + 1) <= EndOf(stream, k)
  BY <1>2, <1>3, EndingLater
<1>5. p + 1 \in 2 .. Count(stream)
  BY <1>1, <1>2, <1>4
<1>6. delivered < EndOf(stream, p + 1)
  BY <1>2, <1>3, <1>4, <1>5, NotYetDelivered DEF DecodeEvent
<1>7. EndOf(stream, p + 1) \in Nat /\ EndOf(stream, k) \in Nat
  BY <1>1, <1>4
<1>8. QED
  BY <1>1, <1>4, <1>6, <1>7

(* Each way of coming to fillBuf. *)
LEMMA PreambleNotDelivered ==
    ASSUME EndInv, TryPreamble, pc' = "fill", NEW k \in 1 .. Count(stream)
    PROVE  delivered < EndOf(stream, k)
<1> USE DEF EndInv, EventsInv
<1> DEFINE r == PreambleResult(stream, buf, start, end)
<1>1. /\ delivered \in Nat /\ start \in Nat /\ end \in Nat /\ start <= end
      /\ Count(stream) \in Nat \ {0}
      /\ \A j \in 0 .. Count(stream) : EndOf(stream, j) \in Nat
  BY LookedType, ConsumedType DEF Inv
<1>2. Consumed = 0 /\ EndOf(stream, 0) = 0
  BY DEF TryPreamble, Phase, AtFront, EndOf
<1>3. k \in 0 .. Count(stream) /\ 1 \in 0 .. Count(stream) /\ 0 \in 0 .. Count(stream)
  BY <1>1
<1>4. 0 < EndOf(stream, k) /\ EndOf(stream, 1) <= EndOf(stream, k)
  <2>1. EndOf(stream, 0) < EndOf(stream, k)
    BY <1>1, <1>3, StreamEnds DEF Inv
  <2>2. k # 1 => EndOf(stream, 1) < EndOf(stream, k)
    BY <1>1, <1>3, StreamEnds DEF Inv
  <2>3. EndOf(stream, 1) \in Nat /\ EndOf(stream, k) \in Nat
    BY <1>1, <1>3
  <2>4. QED
    BY <1>2, <2>1, <2>2, <2>3
<1>5. CASE start = end
  BY <1>1, <1>2, <1>4, <1>5 DEF Consumed
<1>6. CASE start # end
  <2>1. r.err = IncompleteIr
    <3>1. r.err = Success => pc' = "idle"
      BY DEF TryPreamble, Return, IncompleteIr, Success
    <3>2. r.err \notin {Success, IncompleteIr} => pc' \in {"failed", "idle"}
      BY DEF TryPreamble, Fail
    <3>3. QED
      BY <3>1, <3>2
  <2>2. DecodePreamble(stream, buf, start, end).err = IncompleteIr
    <3>1. MetadataError(stream.meta) # IncompleteIr
      BY DEF MetadataError, IncompleteIr, Success, UnsupportedVersion, JsonError
    <3>2. QED
      BY <1>6, <2>1, <3>1 DEF PreambleResult
  <2>3. /\ start \in start .. end /\ 0 + 1 \in {1} /\ 0 + 1 \in 1 .. Count(stream)
        /\ Consumed + (start - start) = EndOf(stream, 0) /\ 0 + 1 = 1
    BY <1>1, <1>2
  <2>4. delivered < EndOf(stream, 0 + 1)
    BY <1>3, <2>2, <2>3, NotYetDelivered DEF DecodePreamble
  <2>5. EndOf(stream, 1) \in Nat /\ EndOf(stream, k) \in Nat
    BY <1>1, <1>3
  <2>6. QED
    BY <1>1, <1>4, <2>3, <2>4, <2>5
<1>7. QED
  BY <1>5, <1>6

LEMMA ReadNotDelivered ==
    ASSUME EndInv, TryRead, pc' = "fill", NEW k \in 1 .. Count(stream), Ending(k)
    PROVE  delivered < EndOf(stream, k)
<1> USE DEF EndInv, EventsInv
<1> DEFINE r == LogEventResult(stream, buf, start, end)
<1>1. /\ delivered \in Nat /\ start \in Nat /\ end \in Nat /\ start <= end /\ Consumed \in Nat
  BY ConsumedType DEF Inv
<1>2. call # NewCall /\ scanPos = 0 /\ Looked = Consumed
  <2>1. call # NewCall /\ scanPos = 0
    BY DEF TryRead, Phase, Inv, ScanInRange
  <2>2. QED
    BY <1>1, <2>1 DEF Looked
<1>3. CASE start = end
  <2>1. Looked < EndOf(stream, k)
    BY <1>2, EndingLater
  <2>2. Consumed = delivered
    BY <1>1, <1>3 DEF Consumed
  <2>3. QED
    BY <1>2, <2>1, <2>2
<1>4. CASE start # end
  <2>1. r.err = IncompleteIr
    <3>1. r.err = Success => pc' \in {"deser", "idle"}
      BY DEF TryRead, Return, IncompleteIr, Success
    <3>2. r.err \notin {Success, IncompleteIr} => Fail(r.err)
      BY DEF TryRead
    <3>3. Fail(r.err) => pc' \in {"failed", "idle"}
      BY DEF Fail
    <3>4. QED
      BY <3>1, <3>2, <3>3
  <2>2. DecodeEvent(stream, buf, start, end).err = IncompleteIr
    BY <1>4, <2>1 DEF LogEventResult, EightByteLogEvent, FourByteLogEvent, DeserializeLogEvent,
                      NextEvent, NoEvent, IncompleteIr, CorruptedIr
  <2>3. start \in start .. end /\ Looked = Consumed + (start - start)
    BY <1>1, <1>2
  <2>4. QED
    BY <1>2, <2>2, <2>3, EventIncomplete
<1>5. QED
  BY <1>3, <1>4

LEMMA ScanNotDelivered ==
    ASSUME EndInv, EnterScan \/ ScanEvent, pc' = "fill", NEW k \in 1 .. Count(stream), Ending(k)
    PROVE  delivered < EndOf(stream, k)
<1> USE DEF EndInv, EventsInv
<1>1. /\ delivered \in Nat /\ start \in Nat /\ end \in Nat /\ start <= end /\ Consumed \in Nat
      /\ scanPos \in Nat /\ Looked \in Nat
  BY ConsumedType, LookedType DEF Inv
<1>2. call # NewCall
  BY DEF EnterScan, ScanEvent, Phase
<1>3. CASE EnterScan
  <2>1. scanPos = 0 /\ start = end
    BY <1>3 DEF EnterScan, Fail, Inv, ScanInRange
  <2>2. Looked < EndOf(stream, k)
    BY <1>2, EndingLater
  <2>3. Looked = delivered
    BY <1>1, <2>1 DEF Looked, Consumed
  <2>4. QED
    BY <2>2, <2>3
<1>4. CASE ScanEvent
  <2>1. ScanStep(Turn)
    BY <1>4, ScanEventSteps DEF Turn
  <2>2. Turn.err \notin {Again, Success} /\ Turn.err = IncompleteIr
    <3>1. pc = "scan"
      BY <1>4 DEF ScanEvent
    <3>2. Turn.err = Again => pc' = pc
      BY <2>1 DEF ScanStep, Again, Success
    <3>3. Turn.err = Success => pc' = "idle"
      BY <2>1 DEF ScanStep, Again, Success
    <3>4. Turn.err \notin {Again, Success, IncompleteIr} => Fail(Turn.err)
      BY <1>4 DEF ScanEvent, Turn
    <3>5. Fail(Turn.err) => pc' \in {"failed", "idle"}
      BY DEF Fail
    <3>6. QED
      BY <3>1, <3>2, <3>3, <3>4, <3>5
  <2>3. Turn.event.err = IncompleteIr
    BY <2>1, <2>2, TurnFacts DEF QueryNotFound, IncompleteIr
  <2>4. /\ start + scanPos \in start .. end
        /\ Turn.event.err = DecodeEvent(stream, buf, start + scanPos, end).err
    BY <2>1 DEF ScanStep, DeserializeWildcardMatch, NextEvent
  <2>5. Looked = Consumed + ((start + scanPos) - start)
    BY <1>1 DEF Looked
  <2>6. QED
    BY <1>2, <2>3, <2>4, <2>5, EventIncomplete
<1>5. QED
  BY <1>3, <1>4

LEMMA EndNext == EndInv /\ [Next]_vars => EndInv'
<1> SUFFICES ASSUME EndInv, [Next]_vars PROVE EndInv'
  OBVIOUS
<1> USE DEF EndInv
<1>1. EventsInv' /\ AtFront' /\ EndAhead'
  BY EventsNext, AtFrontNext, EndAheadNext
<1>2. CASE pc' # "fill"
  BY <1>1, <1>2 DEF NeverReadsPastEnd
<1>3. CASE pc' = "fill"
  <2>1. stream' = stream
    BY Steps DEF EventsInv, IdleStep, PreambleStep, ReadStep, ScanStep
  <2>2. \/ TryPreamble \/ TryRead \/ EnterScan \/ ScanEvent
        \/ pc = "fill" /\ delivered' = delivered
    BY <1>3 DEF Next, Method, Step, DoFirstRead, FirstRead, DoFillBuf, FillBuf, ReadOutcome, Fail,
                Read, ReadToFunc, ReadToWildcardMatch,
                ReadToWildcardMatchWithTimeInterval, Begin, Close, vars, ioVars
  <2>3. delivered' = delivered
    BY <2>2 DEF TryPreamble, TryRead, EnterScan, ScanEvent, ioVars
  <2>4. SUFFICES ASSUME NEW k \in 1 .. Count(stream), Ending(k)
                 PROVE  delivered < EndOf(stream, k)
    BY <1>1, <2>1, <2>3 DEF NeverReadsPastEnd, Ending
  <2>5. QED
    BY <1>3, <2>2, <2>4, PreambleNotDelivered, ReadNotDelivered, ScanNotDelivered
       DEF NeverReadsPastEnd, Ending
<1>4. QED
  BY <1>2, <1>3

(* No call asks the io.Reader for more once the item that ends the stream, *)
(* or makes the rest of it undecodable, has been delivered: whoever keeps  *)
(* the connection open behind the end of the IR blocks no call.            *)
THEOREM ReaderStopsAtEnd == Spec => []NeverReadsPastEnd
<1>1. Init => EndInv
  <2> SUFFICES ASSUME Init PROVE EndInv
    OBVIOUS
  <2>1. EventsInv
    BY EventsInit
  <2>2. pc = "open" /\ Consumed = 0
    BY DEF Init, Consumed
  <2>3. EndAhead
    <3>1. SUFFICES ASSUME NEW k \in 1 .. Count(stream) PROVE 0 < EndOf(stream, k)
      BY <2>1, <2>2, LookedType DEF EndAhead, EventsInv
    <3>2. 0 \in 0 .. Count(stream) /\ k \in 0 .. Count(stream) /\ 0 < k
      BY <2>1, LookedType DEF EventsInv
    <3>3. QED
      BY <2>1, <3>2, StreamEnds DEF EventsInv, Inv, EndOf
  <2>4. QED
    BY <2>1, <2>2, <2>3 DEF EndInv, AtFront, NeverReadsPastEnd
<1>2. EndInv /\ [Next]_vars => EndInv'
  BY EndNext
<1>3. EndInv => NeverReadsPastEnd
  BY DEF EndInv
<1>4. QED
  BY <1>1, <1>2, <1>3, PTL DEF Spec

-----------------------------------------------------------------------------
(* The native object of a NewReaderSize that fails.  The decoder creates   *)
(* it with the preamble, and only metadata that Go then refuses makes the  *)
(* constructor fail after that.                                            *)

GoodMeta == MetadataError(stream.meta) = Success

NoneYet == (GoodMeta /\ call = NewCall /\ pc # "idle") => native # "live"

FailedIsNew == pc = "failed" => call = NewCall

LeakInv == Inv /\ Phase /\ FailedIsNew /\ NoneYet

LEMMA FailedIsNewNext ==
    ASSUME Inv, FailedIsNew, [Next]_vars
    PROVE  FailedIsNew'
<1>1. CASE pc' = pc /\ call' = call
  BY <1>1 DEF FailedIsNew
<1>2. CASE \E err : Fail(err) /\ call' = call
  BY <1>2 DEF FailedIsNew, Fail
<1>3. CASE pc' # "failed"
  BY <1>3 DEF FailedIsNew
<1>4. CASE TryPreamble \/ TryRead \/ ScanEvent
  <2>1. call' = call
    BY <1>4 DEF TryPreamble, TryRead, ScanEvent
  <2>2. \/ pc' = pc \/ pc' \in {"fill", "idle"} \/ \E err : Fail(err)
    <3>1. CASE TryPreamble
      BY <3>1 DEF TryPreamble, Return
    <3>2. CASE TryRead
      BY <3>2 DEF TryRead, Return
    <3>3. CASE ScanEvent
      BY <3>3 DEF ScanEvent, Return
    <3>4. QED
      BY <1>4, <3>1, <3>2, <3>3
  <2>3. QED
    BY <1>1, <1>2, <1>3, <2>1, <2>2
<1>5. CASE DoFirstRead \/ DoFillBuf
  BY <1>2, <1>3, <1>5 DEF DoFirstRead, FirstRead, DoFillBuf, FillBuf, ReadOutcome
<1>6. CASE EnterScan
  BY <1>2, <1>3, <1>6 DEF EnterScan
<1>7. CASE Method
  BY <1>3, <1>7 DEF Method, Read, ReadToFunc, ReadToWildcardMatch,
                    ReadToWildcardMatchWithTimeInterval, Begin, Close
<1>8. CASE UNCHANGED vars
  BY <1>1, <1>8 DEF vars
<1>9. QED
  BY <1>4, <1>5, <1>6, <1>7, <1>8 DEF Next, Step

LEMMA LeakNext ==
    ASSUME LeakInv, [Next]_vars
    PROVE  LeakInv'
<1> USE DEF LeakInv
<1>1. Inv' /\ Phase' /\ FailedIsNew'
  BY InvNext, PhaseNext, FailedIsNewNext
<1>2. stream' = stream
  BY Steps DEF IdleStep, PreambleStep, ReadStep, ScanStep
<1>3. SUFFICES ASSUME GoodMeta, call' = NewCall, pc' # "idle" PROVE native' # "live"
  BY <1>1, <1>2 DEF NoneYet, GoodMeta
<1>4. CASE native' = native /\ call' = call /\ pc # "idle"
  BY <1>3, <1>4 DEF NoneYet
<1>5. CASE TryPreamble
  <2> DEFINE r == PreambleResult(stream, buf, start, end)
  <2>1. pc = "preamble" /\ call' = call
    BY <1>5 DEF TryPreamble
  <2>2. r.err # Success
    BY <1>3, <1>5 DEF TryPreamble, Return, IncompleteIr, Success
  <2>3. ~(start # end /\ DecodePreamble(stream, buf, start, end).err = Success)
    BY <1>3, <2>2 DEF PreambleResult, GoodMeta
  <2>4. native' = native
    BY <1>5, <2>3 DEF TryPreamble, PreambleEffect, desVars
  <2>5. QED
    BY <1>4, <2>1, <2>4
<1>6. CASE Read \/ ReadToFunc \/ ReadToWildcardMatch \/ ReadToWildcardMatchWithTimeInterval
  <2>1. call' # NewCall
    BY <1>6 DEF Read, ReadToFunc, ReadToWildcardMatch, ReadToWildcardMatchWithTimeInterval, Begin,
                NewCall, ReadCall, FuncCall, ScanCall
  <2>2. QED
    BY <1>3, <2>1
<1>7. CASE Close
  BY <1>3, <1>7 DEF Close
<1>8. CASE DoFirstRead \/ DoFillBuf \/ EnterScan
  BY <1>4, <1>8 DEF DoFirstRead, FirstRead, DoFillBuf, FillBuf, EnterScan, desVars
<1>9. CASE TryRead
  BY <1>3, <1>9 DEF TryRead, Phase
<1>10. CASE ScanEvent
  BY <1>3, <1>10 DEF ScanEvent, Phase
<1>11. CASE UNCHANGED vars
  BY <1>3, <1>4, <1>11 DEF vars, desVars
<1>12. QED
  BY <1>5, <1>6, <1>7, <1>8, <1>9, <1>10, <1>11 DEF Next, Method, Step

(* Only metadata of a preamble that Go cannot use leaks the native object: *)
(* with any other, a NewReaderSize that fails leaves none behind.          *)
THEOREM ReaderLeaksOnlyOnMetadata ==
    Spec => [](MetadataError(stream.meta) = Success => NothingLeaks)
<1>1. Init => LeakInv
  BY InvInit, PhaseInit DEF LeakInv, FailedIsNew, NoneYet, Init, DesInit
<1>2. LeakInv /\ [Next]_vars => LeakInv'
  BY LeakNext
<1>3. LeakInv => (MetadataError(stream.meta) = Success => NothingLeaks)
  <2> SUFFICES ASSUME LeakInv, GoodMeta, pc = "failed" PROVE native # "live"
    BY DEF NothingLeaks, GoodMeta
  <2>1. QED
    BY DEF LeakInv, FailedIsNew, NoneYet
<1>4. QED
  BY <1>1, <1>2, <1>3, PTL DEF Spec

-----------------------------------------------------------------------------
(* The events a ReadToWildcardMatch passes over.                           *)

(* ReadToWildcardMatch reads within the entire IR: an event it passes over *)
(* matches none of the queries.                                            *)
EntireIr ==
    (Returned /\ call.op = "matchAll" /\ ret.err = Success /\ Trusted) =>
        \A j \in 1 .. mMsg - 1 :
            EndOf(stream, j) > from => ~AnyMatch(stream.items[j].msg, call.queries)

FromEvents == call # NewCall => EndOf(stream, 1) <= from

EntireInv == AnswersInv /\ EndAhead /\ FromEvents

LEMMA FromEventsNext ==
    ASSUME EventsInv, FromEvents, [Next]_vars
    PROVE  FromEvents'
<1> USE DEF EventsInv
<1>1. stream' = stream
  BY Steps DEF IdleStep, PreambleStep, ReadStep, ScanStep
<1>2. CASE UNCHANGED <<call, from>>
  BY <1>1, <1>2 DEF FromEvents
<1>3. CASE pc = "idle" /\ from' = Consumed
  BY <1>1, <1>3 DEF FromEvents, Phase
<1>4. QED
  BY <1>2, <1>3, Steps DEF IdleStep, PreambleStep, ReadStep, ScanStep

(* All events of the stream lie in the interval that ReadToWildcardMatch   *)
(* passes on for the whole IR.                                             *)
AllInWholeIr ==
    \A j \in 1 .. Count(stream) :
        stream.items[j].kind = "event" =>
            InInterval(stream.items[j].ts, WholeIr.lower, WholeIr.upper)

LEMMA EntireFromWanted ==
    ASSUME EntireInv, AllInWholeIr
    PROVE  EntireIr
<1> USE DEF EntireInv, AnswersInv, EventsInv
<1>1. SUFFICES ASSUME Returned, call.op = "matchAll", ret.err = Success, Trusted,
                      NEW j \in 1 .. mMsg - 1, EndOf(stream, j) > from
               PROVE  ~AnyMatch(stream.items[j].msg, call.queries)
  BY DEF EntireIr
<1>2. /\ Count(stream) \in Nat \ {0}
      /\ \A i \in 0 .. Count(stream) : EndOf(stream, i) \in Nat
  BY LookedType
<1>3. Consumed = EndOf(stream, mMsg) /\ ~Wanted(j)
  BY <1>1 DEF FirstWanted
<1>4. mMsg \in 0 .. Count(stream)
  BY DEF Inv, TypeOK, DesTypeOK
<1>5. j \in 1 .. Count(stream) /\ j \in 0 .. Count(stream) /\ 1 \in 0 .. Count(stream) /\ j < mMsg
  BY <1>2, <1>4
<1>6. j \in 2 .. Count(stream)
  <2>1. EndOf(stream, 1) <= from /\ from \in Nat
    BY <1>1 DEF FromEvents, Returned, Inv, TypeOK
  <2>2. EndOf(stream, 1) \in Nat /\ EndOf(stream, j) \in Nat
    BY <1>2, <1>5
  <2>3. j # 1
    BY <1>1, <2>1, <2>2
  <2>4. QED
    BY <1>2, <1>5, <2>3
<1>7. stream.items[j].kind = "event"
  <2>1. EndOf(stream, j) < EndOf(stream, mMsg)
    BY <1>4, <1>5, StreamEnds DEF Inv
  <2>2. EndOf(stream, j) \in Nat /\ EndOf(stream, mMsg) \in Nat
    BY <1>2, <1>4, <1>5
  <2>3. EndOf(stream, j) <= Consumed
    BY <1>3, <2>1, <2>2
  <2>4. ~Ending(j)
    BY <1>5, <2>3 DEF EndAhead
  <2>5. QED
    BY <1>6, <2>4, EventKind DEF Ending, Inv
<1>8. Scanning /\ call.op # "func"
  BY <1>1 DEF Scanning
<1>9. call.lower = WholeIr.lower /\ call.upper = WholeIr.upper
  BY <1>1 DEF Inv, TypeOK, IsCall, ScanCall, NewCall, ReadCall, FuncCall
<1>10. InInterval(stream.items[j].ts, call.lower, call.upper)
  BY <1>5, <1>7, <1>9 DEF AllInWholeIr
<1>11. QED
  BY <1>3, <1>7, <1>8, <1>10 DEF Wanted

(* ReadToWildcardMatch does what its comment says, and passes over no      *)
(* event that matches, in a stream whose events all lie in the interval    *)
(* [0, MaxTime): timestamps before 1970, and the largest of all, are what  *)
(* it misses, and nothing else.                                            *)
THEOREM ReaderEntire == Spec => [](AllInWholeIr => EntireIr)
<1>1. Init => EntireInv
  <2> SUFFICES ASSUME Init PROVE EntireInv
    OBVIOUS
  <2>1. AnswersInv
    BY AnswersInit
  <2>2. call = NewCall /\ Consumed = 0
    BY DEF Init, Consumed
  <2>3. EndAhead
    <3>1. SUFFICES ASSUME NEW k \in 1 .. Count(stream) PROVE 0 < EndOf(stream, k)
      BY <2>1, <2>2, LookedType DEF EndAhead, AnswersInv, EventsInv
    <3>2. 0 \in 0 .. Count(stream) /\ k \in 0 .. Count(stream) /\ 0 < k
      BY <2>1, LookedType DEF AnswersInv, EventsInv
    <3>3. QED
      BY <2>1, <3>2, StreamEnds DEF AnswersInv, EventsInv, Inv, EndOf
  <2>4. QED
    BY <2>1, <2>2, <2>3 DEF EntireInv, FromEvents
<1>2. EntireInv /\ [Next]_vars => EntireInv'
  BY AnswersNext, EndAheadNext, FromEventsNext DEF EntireInv, AnswersInv
<1>3. EntireInv => (AllInWholeIr => EntireIr)
  BY EntireFromWanted
<1>4. QED
  BY <1>1, <1>2, <1>3, PTL DEF Spec

-----------------------------------------------------------------------------
(* The buffer and what was delivered decode alike.                         *)

LEMMA SameBytes ==
    ASSUME Inv, NEW lo \in start .. end, NEW k \in Nat, lo + k < end
    PROVE  buf[lo + k] = Kept[Consumed + (lo - start) + k]
<1>1. /\ Consumed \in Nat /\ start \in Nat /\ end \in Nat /\ delivered \in Nat /\ start <= end
      /\ lo \in Nat /\ start <= lo
  BY ConsumedType DEF Inv
<1>2. (lo - start) + k \in 0 .. end - start - 1
  BY <1>1
<1>3. buf[start + ((lo - start) + k)] = Consumed + 1 + ((lo - start) + k)
  BY <1>2 DEF Inv, WindowIsStream
<1>4. /\ start + ((lo - start) + k) = lo + k
      /\ Consumed + 1 + ((lo - start) + k) = (Consumed + (lo - start) + k) + 1
  BY <1>1
<1>5. Consumed + (lo - start) + k \in 0 .. delivered - 1
  <2>1. Consumed = delivered - (end - start)
    BY DEF Consumed
  <2> DEFINE c == Consumed
  <2>2. c \in Nat /\ c = delivered - (end - start)
    BY <1>1, <2>1
  <2> HIDE DEF c
  <2>3. c + (lo - start) + k \in 0 .. delivered - 1
    BY <1>1, <2>2
  <2>4. QED
    BY <2>3 DEF c
<1>6. QED
  BY <1>3, <1>4, <1>5 DEF Kept

LEMMA SameItems ==
    ASSUME Inv, NEW lo \in start .. end, NEW j \in 1 .. Count(stream)
    PROVE  /\ HoldsItem(stream, buf, lo, end, j)
                <=> HoldsItem(stream, Kept, Consumed + (lo - start), delivered, j)
           /\ HoldsPart(stream, buf, lo, end, j)
                <=> HoldsPart(stream, Kept, Consumed + (lo - start), delivered, j)
<1> DEFINE at == Consumed + (lo - start)
           w  == Width(stream, j)
<1>1. /\ at \in Nat /\ w \in Nat /\ lo \in Nat /\ end \in Nat /\ delivered \in Nat
      /\ delivered - at = end - lo
  <2>1. /\ Consumed \in Nat /\ start \in Nat /\ end \in Nat /\ delivered \in Nat /\ start <= end
        /\ lo \in Nat /\ start <= lo
    BY ConsumedType DEF Inv
  <2>2. w \in Nat
    BY StreamGeometry DEF Inv, TypeOK
  <2>3. QED
    BY <2>1, <2>2 DEF Consumed
<1>2. ASSUME NEW k \in Nat, lo + k < end
      PROVE  buf[lo + k] = Kept[at + k]
  BY <1>2, SameBytes
<1> HIDE DEF at, w
<1>3. lo + w <= end <=> at + w <= delivered
  BY <1>1
<1>4. lo + w > end <=> at + w > delivered
  BY <1>1
<1>5. \A k \in 0 .. w - 1 : lo + w <= end => buf[lo + k] = Kept[at + k]
  BY <1>1, <1>2
<1>6. 0 .. end - lo - 1 = 0 .. delivered - at - 1
  BY <1>1
<1>7. \A k \in 0 .. end - lo - 1 : buf[lo + k] = Kept[at + k]
  BY <1>1, <1>2
<1>8. HoldsItem(stream, buf, lo, end, j) <=> HoldsItem(stream, Kept, at, delivered, j)
  BY <1>3, <1>5 DEF HoldsItem, w
<1>9. HoldsPart(stream, buf, lo, end, j) <=> HoldsPart(stream, Kept, at, delivered, j)
  BY <1>4, <1>6, <1>7 DEF HoldsPart, w
<1>10. QED
  BY <1>8, <1>9 DEF at

LEMMA SameEvent ==
    ASSUME Inv, NEW lo \in start .. end, NEW e
    PROVE  NextEvent(e, stream, buf, lo, end)
             = NextEvent(e, stream, Kept, Consumed + (lo - start), delivered)
<1> DEFINE at == Consumed + (lo - start)
           J  == 2 .. Count(stream)
<1>1. J \subseteq 1 .. Count(stream)
  BY LookedType
<1>2. /\ {j \in J : HoldsItem(stream, buf, lo, end, j)}
           = {j \in J : HoldsItem(stream, Kept, at, delivered, j)}
      /\ {j \in J : HoldsPart(stream, buf, lo, end, j)}
           = {j \in J : HoldsPart(stream, Kept, at, delivered, j)}
  BY <1>1, SameItems
<1>3. Decode(stream, buf, lo, end, J) = Decode(stream, Kept, at, delivered, J)
  BY <1>2 DEF Decode
<1>4. QED
  BY <1>3 DEF NextEvent, DecodeEvent

(* In whatever pieces the io.Reader delivers and whatever fillBuf makes of *)
(* the buffer, each decode returns what it would return from a buffer that *)
(* has kept every byte delivered.                                          *)
THEOREM ReaderBufferTransparent == Spec => []BufferTransparent
<1>1. Inv => BufferTransparent
  <2> SUFFICES ASSUME Inv PROVE BufferTransparent
    OBVIOUS
  <2>1. /\ Consumed \in Nat /\ start \in Nat /\ end \in Nat /\ delivered \in Nat /\ start <= end
        /\ scanPos \in Nat /\ scanPos <= end - start
    BY ConsumedType, LookedType DEF Inv, ScanInRange
  <2>2. start \in start .. end /\ start + scanPos \in start .. end
    BY <2>1
  <2>3. Consumed + (start - start) = Consumed /\ Consumed + ((start + scanPos) - start) = Consumed + scanPos
    BY <2>1
  <2>4. \A e : NextEvent(e, stream, buf, start, end) = NextEvent(e, stream, Kept, Consumed, delivered)
    BY <2>2, <2>3, SameEvent
  <2>5. \A e : NextEvent(e, stream, buf, start + scanPos, end)
                 = NextEvent(e, stream, Kept, Consumed + scanPos, delivered)
    BY <2>2, <2>3, SameEvent
  <2>6. start = end <=> Consumed = delivered
    BY <2>1 DEF Consumed
  <2>7. LogEventResult(stream, buf, start, end) = LogEventResult(stream, Kept, Consumed, delivered)
    BY <2>4, <2>6 DEF LogEventResult, EightByteLogEvent, FourByteLogEvent, DeserializeLogEvent
  <2>8. ScanResult(stream, buf, start + scanPos, end, call)
          = ScanResult(stream, Kept, Consumed + scanPos, delivered, call)
    BY <2>5 DEF ScanResult, EightByteWildcardMatch, FourByteWildcardMatch, DeserializeWildcardMatch
  <2>9. QED
    BY <2>7, <2>8 DEF BufferTransparent
<1>2. QED
  BY <1>1, ReaderInvariant, PTL
=============================================================================
