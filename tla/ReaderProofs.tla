---------------------------- MODULE ReaderProofs ----------------------------
(***************************************************************************)
(* Proofs about Reader, for every stream, buffer size and argument.        *)
(***************************************************************************)
EXTENDS Reader, IrFormatProofs

-----------------------------------------------------------------------------
LEMMA StreamGeometry ==
    ASSUME NEW s \in Streams
    PROVE  /\ Count(s) \in Nat \ {0}
           /\ \A j \in 0 .. Count(s) : EndOf(s, j) \in Nat
           /\ \A j \in 1 .. Count(s) : /\ s.items[j] \in Item(Messages)
                                       /\ Width(s, j) \in Nat \ {0}
           /\ s.len \in Nat
BY StreamsAssumption, Geometry

LEMMA ItemDecoded ==
    ASSUME TypeOK, NEW lo, NEW hi, NEW J \in SUBSET (1 .. Count(stream))
    PROVE  LET d == Decode(stream, buf, lo, hi, J)
           IN  \/ /\ d.item \in J
                  /\ HoldsItem(stream, buf, lo, hi, d.item)
                  /\ d.err \in {Success, EndOfIr, CorruptedIr}
                  /\ d.err = Outcome(stream.items[d.item].kind)
               \/ /\ d.item = 0
                  /\ d.err \in {IncompleteIr, CorruptedIr}
<1>1. \A k : Outcome(k) \in {Success, EndOfIr, CorruptedIr}
  BY DEF Outcome
<1>2. QED
  BY <1>1, DecodeSound

LEMMA DecodedTimestampType ==
    ASSUME TypeOK, NEW e, NEW j \in 2 .. Count(stream)
    PROVE  DecodedTimestamp(e, stream, j) \in Times
<1>1. stream.items[j].ts \in Times /\ stream.items[j - 1].ts \in Times
  BY StreamGeometry DEF TypeOK, Item
<1>2. Delta(stream, j) \in Times
  BY <1>1, WrapInTimes DEF Delta
<1>3. QED
  BY <1>1, <1>2, WrapInTimes DEF DecodedTimestamp, TypeOK, DesTypeOK

-----------------------------------------------------------------------------
(* The inductive invariant.  Besides what is to be shown it says where the *)
(* scanning loop stands: at the boundary of an item, within the window.    *)

ScanInRange ==
    /\ scanPos <= end - start
    /\ pc # "scan" => scanPos = 0
    /\ \E j \in 0 .. Count(stream) : Consumed + scanPos = EndOf(stream, j)

Unconsumed == pc \in {"open", "preamble"} => start = 0

Inv == TypeOK /\ WindowIsStream /\ OnItemBoundary /\ ScanInRange /\ Unconsumed

(* An item that the decoder recognises at lo is the item after the bytes   *)
(* that precede lo in the stream, and ends within the window.              *)
LEMMA RecognisedItem ==
    ASSUME TypeOK, WindowIsStream,
           NEW lo \in start .. end, NEW j \in 1 .. Count(stream),
           HoldsItem(stream, buf, lo, end, j)
    PROVE  /\ Width(stream, j) \in Nat \ {0}
           /\ lo + Width(stream, j) <= end
           /\ Consumed + (lo - start) = EndOf(stream, j - 1)
           /\ Consumed + (lo - start) + Width(stream, j) = EndOf(stream, j)
<1>1. /\ Width(stream, j) \in Nat \ {0}
      /\ EndOf(stream, j) \in Nat
      /\ EndOf(stream, j - 1) \in Nat
  BY StreamGeometry DEF TypeOK
<1>2. start \in Nat /\ end \in Nat /\ delivered \in Nat
  BY StreamGeometry DEF TypeOK
<1>3. lo + Width(stream, j) <= end
  BY DEF HoldsItem
<1>4. buf[lo] = EndOf(stream, j - 1) + 1
  <2>1. 0 \in 0 .. Width(stream, j) - 1
    BY <1>1
  <2>2. buf[lo + 0] = EndOf(stream, j - 1) + 1 + 0
    BY <2>1 DEF HoldsItem
  <2>3. QED
    BY <2>2, <1>1, <1>2
<1>5. buf[lo] = Consumed + 1 + (lo - start)
  <2>1. lo - start \in 0 .. end - start - 1
    BY <1>1, <1>2, <1>3
  <2>2. buf[start + (lo - start)] = Consumed + 1 + (lo - start)
    BY <2>1 DEF WindowIsStream
  <2>3. QED
    BY <2>2, <1>2
<1>6. Width(stream, j) = EndOf(stream, j) - EndOf(stream, j - 1)
  BY DEF Width
<1>7. QED
  BY <1>1, <1>2, <1>3, <1>4, <1>5, <1>6 DEF Consumed

(* reader.read appends the next bytes of the stream behind the window. *)
LEMMA ReadIntoKeepsWindow ==
    ASSUME NEW b, NEW n \in Nat, NEW c \in Nat,
           TypeOK, start' = 0,
           end - start <= c,
           b \in [0 .. c - 1 -> Nat],
           \A k \in 0 .. end - start - 1 : b[k] = Consumed + 1 + k,
           Consumed \in Nat,
           ReadInto(b, end - start, c, n)
    PROVE  /\ Consumed' = Consumed
           /\ WindowIsStream'
           /\ cap' \in Nat
           /\ buf' \in [0 .. cap' - 1 -> Nat]
           /\ end' \in 0 .. cap'
           /\ delivered' \in 0 .. stream.len
           /\ stream' = stream
<1>1. start \in Nat /\ end \in Nat /\ delivered \in Nat /\ start <= end
  BY StreamGeometry DEF TypeOK
<1>2. stream.len \in Nat
  BY StreamGeometry DEF TypeOK
<1>3. Consumed' = Consumed
  BY <1>1 DEF ReadInto, Consumed
<1>4. cap' \in Nat /\ end' \in 0 .. cap' /\ delivered' \in 0 .. stream.len /\ stream' = stream
  BY <1>1, <1>2 DEF ReadInto
<1>5. buf' \in [0 .. cap' - 1 -> Nat]
  BY <1>1 DEF ReadInto
<1>6. WindowIsStream'
  <2>1. SUFFICES ASSUME NEW k \in 0 .. end' - start' - 1
                 PROVE  buf'[start' + k] = Consumed' + 1 + k
    BY DEF WindowIsStream
  <2>2. CASE k < end - start
    BY <1>1, <1>3, <1>4, <2>2 DEF ReadInto
  <2>3. CASE k >= end - start
    BY <1>1, <1>3, <1>4, <2>3 DEF ReadInto, Consumed
  <2>4. QED
    BY <1>1, <1>4, <2>2, <2>3
<1>7. QED
  BY <1>3, <1>4, <1>5, <1>6

LEMMA ConsumedType ==
    ASSUME TypeOK, OnItemBoundary
    PROVE  /\ Consumed \in Nat
           /\ start \in Nat /\ end \in Nat /\ cap \in Nat /\ delivered \in Nat
           /\ start <= end /\ end <= cap
           /\ stream.len \in Nat
BY StreamGeometry DEF TypeOK, OnItemBoundary

-----------------------------------------------------------------------------
(* Every step preserves the invariant. *)

LEMMA InvInit == Init => Inv
<1> SUFFICES ASSUME Init PROVE Inv
  OBVIOUS
<1>1. stream.len \in Nat /\ Count(stream) \in Nat \ {0}
  BY StreamGeometry DEF Init
<1>2. 0 \in Times
  BY MaxTimeAssumption DEF Times, MinTime
<1>3. Consumed = 0 /\ EndOf(stream, 0) = 0
  BY DEF Init, Consumed, EndOf
<1>4. DesTypeOK(stream)
  <2>1. native \in {"none", "live", "freed"} /\ mTimestamp \in Times /\ mMsg \in 0 .. Count(stream)
    BY <1>1, <1>2 DEF Init, DesInit
  <2>2. cptr \in BOOLEAN
    BY DEF Init, DesInit
  <2>3. QED
    BY <2>1, <2>2 DEF DesTypeOK
<1>5. TypeOK
  <2>1. buf \in [0 .. cap - 1 -> Nat] /\ cap \in Nat /\ end \in 0 .. cap /\ start \in 0 .. end
    BY SizeAssumption DEF Init
  <2>2. IsCall(call)
    BY DEF Init, IsCall
  <2>3. ret.err \in Errors /\ ret.ts \in Times
    BY <1>2 DEF Init, NoResult, Errors, Success, IoError
  <2>4. QED
    <3>1. wasted \in BOOLEAN
      BY DEF Init
    <3>2. stream \in Streams /\ delivered \in 0 .. stream.len /\ pc \in PCs /\ scanPos \in Nat /\ from \in Nat
      BY <1>1 DEF Init, PCs
    <3>3. QED
      BY <1>4, <2>1, <2>2, <2>3, <3>1, <3>2 DEF TypeOK
<1>6. WindowIsStream /\ Unconsumed
  BY DEF Init, WindowIsStream, Unconsumed
<1>7. OnItemBoundary /\ ScanInRange
  BY <1>1, <1>3 DEF Init, OnItemBoundary, ScanInRange
<1>8. QED
  BY <1>5, <1>6, <1>7 DEF Inv

(* TypeOK of the next state, for a step that leaves alone what only calls  *)
(* and decoding change.                                                    *)
LEMMA RestTyped ==
    ASSUME TypeOK, DesTypeOK(stream)', UNCHANGED <<call, from>>,
           scanPos' \in Nat, wasted' \in BOOLEAN,
           stream' = stream, delivered' \in 0 .. stream.len,
           cap' \in Nat, buf' \in [0 .. cap' - 1 -> Nat],
           end' \in 0 .. cap', start' \in 0 .. end',
           pc' \in PCs, ret'.err \in Errors, ret'.ts \in Times
    PROVE  TypeOK'
<1>1. IsCall(call)'
  BY DEF TypeOK
<1>2. QED
  BY <1>1 DEF TypeOK

(* What the outcome of a read of the io.Reader leaves of the types. *)
LEMMA OutcomeType ==
    ASSUME TypeOK, NEW next \in PCs, ReadOutcome(next)
    PROVE  pc' \in PCs /\ ret'.err \in Errors /\ ret'.ts \in Times /\ pc' \in {next, "idle", "failed"}
<1>1. 0 \in Times
  BY MaxTimeAssumption DEF Times, MinTime
<1>2. QED
  BY <1>1 DEF ReadOutcome, Fail, Failure, TypeOK, PCs, Errors, Success, IoError

LEMMA InvFirstRead ==
    ASSUME Inv, NEW n \in 0 .. stream.len, FirstRead(n)
    PROVE  Inv'
<1> USE DEF Inv
<1>1. /\ Consumed \in Nat /\ start \in Nat /\ end \in Nat /\ cap \in Nat
      /\ start <= end /\ end <= cap /\ stream.len \in Nat
  BY ConsumedType
<1>2. start = 0 /\ start' = 0 /\ n \in Nat
  BY <1>1 DEF FirstRead, Unconsumed
<1>3. ReadInto(buf, end - start, cap, n)
  BY <1>1, <1>2 DEF FirstRead
<1>4. \A k \in 0 .. end - start - 1 : buf[k] = Consumed + 1 + k
  BY <1>1, <1>2 DEF WindowIsStream
<1>5. buf \in [0 .. cap - 1 -> Nat] /\ end - start <= cap
  BY <1>1, <1>2 DEF TypeOK
<1>6. /\ Consumed' = Consumed /\ WindowIsStream' /\ stream' = stream
      /\ cap' \in Nat /\ buf' \in [0 .. cap' - 1 -> Nat] /\ end' \in 0 .. cap'
      /\ delivered' \in 0 .. stream.len
  BY <1>1, <1>2, <1>3, <1>4, <1>5, ReadIntoKeepsWindow
<1>7. pc' \in PCs /\ ret'.err \in Errors /\ ret'.ts \in Times /\ pc' \in {"preamble", "idle", "failed"}
  BY OutcomeType DEF FirstRead, PCs
<1>8. TypeOK'
  <2>1. UNCHANGED <<call, from>> /\ scanPos' \in Nat /\ wasted' \in BOOLEAN
    BY DEF FirstRead, TypeOK
  <2>2. DesTypeOK(stream)'
    BY <1>6 DEF FirstRead, TypeOK, DesTypeOK, desVars
  <2>3. start' \in 0 .. end'
    BY <1>2, <1>6
  <2>4. QED
    BY <1>6, <1>7, <2>1, <2>2, <2>3, RestTyped
<1>9. OnItemBoundary'
  BY <1>6 DEF OnItemBoundary
<1>10. ScanInRange'
  <2>1. scanPos = 0 /\ scanPos' = 0
    BY DEF FirstRead, ScanInRange
  <2>2. QED
    <3>1. scanPos' <= end' - start'
      BY <1>1, <1>2, <1>3, <2>1 DEF ReadInto
    <3>2. Consumed' + scanPos' = Consumed'
      BY <1>1, <1>6, <2>1
    <3>3. QED
      BY <1>9, <2>1, <3>1, <3>2 DEF ScanInRange, OnItemBoundary
<1>11. Unconsumed'
  BY <1>2 DEF Unconsumed
<1>12. QED
  BY <1>6, <1>8, <1>9, <1>10, <1>11

LEMMA InvFillBuf ==
    ASSUME Inv, NEW n \in 0 .. stream.len, FillBuf(n)
    PROVE  Inv'
<1> USE DEF Inv
<1> DEFINE c == IF Grows THEN 2 * cap ELSE cap
<1>1. /\ Consumed \in Nat /\ start \in Nat /\ end \in Nat /\ cap \in Nat
      /\ start <= end /\ end <= cap /\ stream.len \in Nat
  BY ConsumedType
<1>2. start' = 0 /\ n \in Nat /\ c \in Nat /\ end - start <= c
  BY <1>1 DEF FillBuf
<1>3. ReadInto(Shifted, end - start, c, n)
  BY DEF FillBuf
<1>4. \A k \in 0 .. end - start - 1 : Shifted[k] = Consumed + 1 + k
  BY <1>1, <1>2 DEF WindowIsStream, Shifted
<1>5. Shifted \in [0 .. c - 1 -> Nat]
  <2>1. SUFFICES ASSUME NEW k \in 0 .. c - 1
                 PROVE  (IF k < end - start THEN buf[start + k]
                         ELSE IF Grows THEN 0 ELSE buf[k]) \in Nat
    BY DEF Shifted
  <2>2. buf \in [0 .. cap - 1 -> Nat]
    BY DEF TypeOK
  <2>3. CASE k < end - start
    BY <1>1, <1>2, <2>2, <2>3
  <2>4. CASE ~(k < end - start)
    BY <1>1, <1>2, <2>2, <2>4
  <2>5. QED
    BY <2>3, <2>4
<1> HIDE DEF c
<1>6. /\ Consumed' = Consumed /\ WindowIsStream' /\ stream' = stream
      /\ cap' \in Nat /\ buf' \in [0 .. cap' - 1 -> Nat] /\ end' \in 0 .. cap'
      /\ delivered' \in 0 .. stream.len
  BY <1>1, <1>2, <1>3, <1>4, <1>5, ReadIntoKeepsWindow
<1>7. /\ pc' \in PCs /\ ret'.err \in Errors /\ ret'.ts \in Times
      /\ pc' \in {"preamble", "deser", "idle", "failed"}
  BY OutcomeType DEF FillBuf, PCs
<1>8. TypeOK'
  <2>1. UNCHANGED <<call, from>> /\ scanPos' \in Nat /\ wasted' \in BOOLEAN
    BY DEF FillBuf, TypeOK
  <2>2. DesTypeOK(stream)'
    BY <1>6 DEF FillBuf, TypeOK, DesTypeOK, desVars
  <2>3. start' \in 0 .. end'
    BY <1>2, <1>6
  <2>4. QED
    BY <1>6, <1>7, <2>1, <2>2, <2>3, RestTyped
<1>9. OnItemBoundary'
  BY <1>6 DEF OnItemBoundary
<1>10. ScanInRange'
  <2>1. scanPos = 0 /\ scanPos' = 0
    BY DEF FillBuf, ScanInRange
  <2>2. QED
    <3>1. scanPos' <= end' - start'
      BY <1>1, <1>2, <1>3, <2>1 DEF ReadInto
    <3>2. Consumed' + scanPos' = Consumed'
      BY <1>1, <1>6, <2>1
    <3>3. QED
      BY <1>9, <2>1, <3>1, <3>2 DEF ScanInRange, OnItemBoundary
<1>11. Unconsumed'
  BY <1>2 DEF Unconsumed
<1>12. QED
  BY <1>6, <1>8, <1>9, <1>10, <1>11

(* Advancing reader.start within the window consumes from its front. *)
LEMMA StartAdvances ==
    ASSUME TypeOK, WindowIsStream, OnItemBoundary, NEW s \in start .. end, start' = s,
           UNCHANGED <<stream, delivered, buf, cap, end>>
    PROVE  /\ WindowIsStream'
           /\ Consumed' = Consumed + (s - start)
           /\ cap' \in Nat /\ buf' \in [0 .. cap' - 1 -> Nat] /\ end' \in 0 .. cap'
           /\ start' \in 0 .. end' /\ stream' = stream /\ delivered' \in 0 .. stream.len
<1>1. /\ Consumed \in Nat /\ start \in Nat /\ end \in Nat /\ cap \in Nat /\ delivered \in Nat
      /\ start <= end /\ end <= cap
  BY ConsumedType
<1>2. s \in Nat
  BY <1>1
<1>3. Consumed' = Consumed + (s - start)
  BY <1>1, <1>2 DEF Consumed
<1>4. WindowIsStream'
  <2>1. SUFFICES ASSUME NEW k \in 0 .. end - s - 1
                 PROVE  buf[s + k] = Consumed + (s - start) + 1 + k
    BY <1>3 DEF WindowIsStream
  <2>2. (s - start) + k \in 0 .. end - start - 1
    BY <1>1, <1>2
  <2>3. buf[start + ((s - start) + k)] = Consumed + 1 + ((s - start) + k)
    BY <2>2 DEF WindowIsStream
  <2>4. start + ((s - start) + k) = s + k
    BY <1>1, <1>2
  <2>5. QED
    BY <1>1, <1>2, <2>3, <2>4
<1>5. QED
  BY <1>1, <1>2, <1>3, <1>4 DEF TypeOK

LEMMA PreambleFacts ==
    ASSUME TypeOK
    PROVE  LET r == PreambleResult(stream, buf, start, end)
           IN  /\ r.err \in Errors
               /\ \/ /\ r.err = Success
                     /\ r.pos = Width(stream, 1)
                     /\ HoldsItem(stream, buf, start, end, 1)
                  \/ r.err # Success /\ r.pos = 0
<1> DEFINE d == DecodePreamble(stream, buf, start, end)
<1>1. 1 \in 1 .. Count(stream)
  BY StreamGeometry DEF TypeOK
<1>2. \/ /\ d.item = 1
         /\ HoldsItem(stream, buf, start, end, 1)
         /\ d.err \in {Success, EndOfIr, CorruptedIr}
      \/ d.err \in {IncompleteIr, CorruptedIr}
  BY <1>1, ItemDecoded DEF DecodePreamble
<1>3. MetadataError(stream.meta) \in {Success, UnsupportedVersion, JsonError}
  BY DEF MetadataError
<1> HIDE DEF d
<1>4. PreambleResult(stream, buf, start, end) =
          LET err == IF start = end THEN IncompleteIr
                     ELSE IF d.err # Success THEN d.err
                     ELSE MetadataError(stream.meta)
          IN  [err |-> err, pos |-> IF err = Success THEN Width(stream, 1) ELSE 0]
  BY DEF PreambleResult, d
<1>5. QED
  BY <1>2, <1>3, <1>4
     DEF Errors, Success, IoError, EndOfIr, CorruptedIr, IncompleteIr, UnsupportedVersion, JsonError

LEMMA PreambleTyped ==
    ASSUME TypeOK, PreambleEffect(stream, buf, start, end), stream' = stream
    PROVE  DesTypeOK(stream)'
<1>1. CASE UNCHANGED desVars
  BY <1>1 DEF TypeOK, DesTypeOK, desVars
<1>2. CASE /\ native' = "live"
           /\ cptr' = (MetadataError(stream.meta) = Success)
           /\ mTimestamp' = ReferenceTs(stream)
           /\ mMsg' = 0
  <2>1. ReferenceTs(stream) \in Times
    BY StreamGeometry, MaxTimeAssumption, SMTT(30) DEF TypeOK, ReferenceTs, Item, Times, MinTime
  <2>2. 0 \in 0 .. Count(stream)
    BY StreamGeometry DEF TypeOK
  <2>3. cptr' \in BOOLEAN
    BY <1>2
  <2>4. QED
    BY <1>2, <2>1, <2>2, <2>3 DEF DesTypeOK
<1>3. QED
  BY <1>1, <1>2 DEF PreambleEffect

LEMMA InvTryPreamble ==
    ASSUME Inv, TryPreamble
    PROVE  Inv'
<1> USE DEF Inv
<1> DEFINE r == PreambleResult(stream, buf, start, end)
<1>1. /\ Consumed \in Nat /\ start \in Nat /\ end \in Nat /\ start <= end
  BY ConsumedType
<1>2. start = 0 /\ scanPos = 0
  BY DEF TryPreamble, Unconsumed, ScanInRange
<1>3. /\ start' = r.pos
      /\ UNCHANGED <<stream, delivered, buf, cap, end, call, scanPos, from, wasted>>
      /\ PreambleEffect(stream, buf, start, end)
  BY DEF TryPreamble, ioVars
<1>4. /\ r.err \in Errors
      /\ \/ /\ r.err = Success
            /\ r.pos = Width(stream, 1)
            /\ HoldsItem(stream, buf, start, end, 1)
         \/ r.err # Success /\ r.pos = 0
  BY PreambleFacts
<1>5. pc' \in PCs /\ ret'.err \in Errors /\ ret'.ts \in Times /\ pc' \notin {"open", "preamble", "scan"}
  <2>1. 0 \in Times
    BY MaxTimeAssumption DEF Times, MinTime
  <2>2. CASE r.err = IncompleteIr
    <3>1. pc' = "fill" /\ ret' = ret
      BY <2>2 DEF TryPreamble, IncompleteIr, Success
    <3>2. QED
      BY <3>1 DEF TypeOK, PCs
  <2>3. CASE r.err = Success
    BY <2>1, <2>3 DEF TryPreamble, Return, NoResult, PCs, Errors, Success, IoError, IncompleteIr
  <2>4. CASE r.err \notin {IncompleteIr, Success}
    BY <1>4, <2>1, <2>4 DEF TryPreamble, Fail, Failure, PCs
  <2>5. QED
    BY <2>2, <2>3, <2>4
<1> HIDE DEF r
<1>6. \E j \in 0 .. Count(stream) :
         r.pos \in start .. end /\ Consumed + (r.pos - start) = EndOf(stream, j)
  <2>1. CASE r.err = Success
    <3>1. 1 \in 1 .. Count(stream)
      BY StreamGeometry DEF TypeOK
    <3>2. start \in start .. end
      BY <1>1
    <3>3. /\ Width(stream, 1) \in Nat
          /\ start + Width(stream, 1) <= end
          /\ Consumed + (start - start) + Width(stream, 1) = EndOf(stream, 1)
      BY <1>4, <2>1, <3>1, <3>2, RecognisedItem
    <3>4. r.pos = Width(stream, 1)
      BY <1>4, <2>1
    <3>5. QED
      BY <1>1, <1>2, <3>1, <3>3, <3>4
  <2>2. CASE r.err # Success
    BY <1>1, <1>2, <1>4, <2>2 DEF OnItemBoundary
  <2>3. QED
    BY <2>1, <2>2
<1>7. r.pos \in start .. end
  BY <1>6
<1>8. /\ WindowIsStream' /\ Consumed' = Consumed + (r.pos - start)
      /\ cap' \in Nat /\ buf' \in [0 .. cap' - 1 -> Nat] /\ end' \in 0 .. cap'
      /\ start' \in 0 .. end' /\ stream' = stream /\ delivered' \in 0 .. stream.len
  BY <1>3, <1>7, StartAdvances
<1>9. TypeOK'
  <2>1. scanPos' \in Nat /\ wasted' \in BOOLEAN /\ UNCHANGED <<call, from>>
    BY <1>3 DEF TypeOK
  <2>2. QED
    BY <1>3, <1>5, <1>8, <2>1, PreambleTyped, RestTyped
<1>10. OnItemBoundary'
  BY <1>3, <1>6, <1>8 DEF OnItemBoundary
<1>11. ScanInRange'
  <2>1. scanPos' = 0
    BY <1>2, <1>3
  <2>2. scanPos' <= end' - start'
    BY <1>1, <1>3, <1>7, <2>1
  <2>3. Consumed' + scanPos' = Consumed'
    BY <1>1, <1>7, <1>8, <2>1
  <2>4. QED
    BY <1>10, <2>1, <2>2, <2>3 DEF ScanInRange, OnItemBoundary
<1>12. Unconsumed'
  BY <1>5 DEF Unconsumed
<1>13. QED
  BY <1>8, <1>9, <1>10, <1>11, <1>12

LEMMA EventFacts ==
    ASSUME TypeOK, NEW lo
    PROVE  LET d == DecodeEvent(stream, buf, lo, end)
           IN  \/ /\ d.item \in 2 .. Count(stream)
                  /\ HoldsItem(stream, buf, lo, end, d.item)
                  /\ d.err \in {Success, EndOfIr, CorruptedIr}
                  /\ d.err = Outcome(stream.items[d.item].kind)
               \/ /\ d.item = 0
                  /\ d.err \in {IncompleteIr, CorruptedIr}
<1>1. 2 .. Count(stream) \in SUBSET (1 .. Count(stream))
  BY StreamGeometry DEF TypeOK
<1>2. QED
  BY <1>1, ItemDecoded DEF DecodeEvent

(* What a native call finds at its read position: an event with the bytes  *)
(* and the timestamp it should have, or an error.                          *)
LEMMA NextEventFacts ==
    ASSUME TypeOK, WindowIsStream, NEW e, NEW lo \in start .. end
    PROVE  LET d == NextEvent(e, stream, buf, lo, end)
           IN  /\ d.err \in {Success, EndOfIr, CorruptedIr, IncompleteIr}
               /\ d.err = Success =>
                     /\ d.item \in 2 .. Count(stream)
                     /\ d.ts \in Times
                     /\ stream.items[d.item].kind \notin {"eof", "bad"}
                     /\ Width(stream, d.item) \in Nat \ {0}
                     /\ lo + Width(stream, d.item) <= end
                     /\ Consumed + (lo - start) = EndOf(stream, d.item - 1)
                     /\ Consumed + (lo - start) + Width(stream, d.item) = EndOf(stream, d.item)
<1> DEFINE c == DecodeEvent(stream, buf, lo, end)
           d == NextEvent(e, stream, buf, lo, end)
<1>1. \/ /\ c.item \in 2 .. Count(stream)
         /\ HoldsItem(stream, buf, lo, end, c.item)
         /\ c.err \in {Success, EndOfIr, CorruptedIr}
         /\ c.err = Outcome(stream.items[c.item].kind)
      \/ /\ c.item = 0
         /\ c.err \in {IncompleteIr, CorruptedIr}
  BY EventFacts
<1>2. /\ d.err = c.err /\ d.item = c.item
      /\ d.ts = IF c.err = Success THEN DecodedTimestamp(e, stream, c.item) ELSE 0
  BY DEF NextEvent
<1> HIDE DEF c, d
<1>3. d.err \in {Success, EndOfIr, CorruptedIr, IncompleteIr}
  BY <1>1, <1>2
<1>4. ASSUME d.err = Success
      PROVE  /\ d.item \in 2 .. Count(stream)
             /\ HoldsItem(stream, buf, lo, end, d.item)
             /\ stream.items[d.item].kind \notin {"eof", "bad"}
  BY <1>1, <1>2, <1>4 DEF Success, IncompleteIr, CorruptedIr, EndOfIr, Outcome
<1>5. ASSUME d.err = Success PROVE d.ts \in Times
  <2>1. d.ts = DecodedTimestamp(e, stream, d.item)
    BY <1>2, <1>5
  <2>2. QED
    BY <1>4, <1>5, <2>1, DecodedTimestampType
<1>6. ASSUME d.err = Success
      PROVE  /\ Width(stream, d.item) \in Nat \ {0}
             /\ lo + Width(stream, d.item) <= end
             /\ Consumed + (lo - start) = EndOf(stream, d.item - 1)
             /\ Consumed + (lo - start) + Width(stream, d.item) = EndOf(stream, d.item)
  <2>1. d.item \in 1 .. Count(stream)
    BY <1>4, <1>6, StreamGeometry DEF TypeOK
  <2>2. QED
    BY <1>4, <1>6, <2>1, RecognisedItem
<1>7. QED
  BY <1>3, <1>4, <1>5, <1>6 DEF d

LEMMA DecodeTyped ==
    ASSUME TypeOK, NEW d, DecodeEffect(d), stream' = stream,
           d.err = Success => d.item \in 2 .. Count(stream) /\ d.ts \in Times
    PROVE  DesTypeOK(stream)'
<1>1. CASE d.err = Success
  <2>1. d.ts \in Times
    BY <1>1
  <2>2. native' = native /\ cptr' = cptr /\ mMsg' = d.item /\ mTimestamp' = d.ts
    BY <1>1 DEF DecodeEffect
  <2>3. d.item \in 0 .. Count(stream)
    BY <1>1, StreamGeometry DEF TypeOK
  <2>4. QED
    BY <2>1, <2>2, <2>3 DEF TypeOK, DesTypeOK
<1>2. CASE d.err # Success
  <2>1. native' = native /\ cptr' = cptr /\ mTimestamp' = mTimestamp /\ mMsg' \in {mMsg, 0}
    BY <1>2 DEF DecodeEffect
  <2>2. 0 \in 0 .. Count(stream)
    BY StreamGeometry DEF TypeOK
  <2>3. QED
    BY <2>1, <2>2 DEF TypeOK, DesTypeOK
<1>3. QED
  BY <1>1, <1>2

(* A step that leaves the buffer alone and stays out of the scanning loop  *)
(* preserves all but the types.                                            *)
LEMMA BufferUntouched ==
    ASSUME Inv, UNCHANGED <<stream, delivered, buf, cap, start, end>>,
           scanPos' = 0, pc' \notin {"open", "preamble"}
    PROVE  WindowIsStream' /\ OnItemBoundary' /\ ScanInRange' /\ Unconsumed'
<1> USE DEF Inv
<1>1. /\ Consumed \in Nat /\ start \in Nat /\ end \in Nat /\ start <= end
  BY ConsumedType
<1>2. Consumed' = Consumed
  BY DEF Consumed
<1>3. WindowIsStream'
  BY <1>2 DEF WindowIsStream
<1>4. OnItemBoundary'
  BY <1>2 DEF OnItemBoundary
<1>5. ScanInRange'
  <2>1. scanPos' <= end' - start'
    BY <1>1
  <2>2. Consumed' + scanPos' = Consumed'
    BY <1>1, <1>2
  <2>3. QED
    BY <1>4, <2>1, <2>2 DEF ScanInRange, OnItemBoundary
<1>6. Unconsumed'
  BY DEF Unconsumed
<1>7. QED
  BY <1>3, <1>4, <1>5, <1>6

LEMMA InvBegin ==
    ASSUME Inv, NEW c, IsCall(c), Begin(c)
    PROVE  Inv'
<1> USE DEF Inv
<1>1. UNCHANGED <<desVars, stream, delivered, buf, cap, start, end, scanPos, wasted>>
  BY DEF Begin, ioVars, bufVars
<1>2. scanPos' = 0 /\ pc' = "deser" /\ call' = c /\ from' = Consumed /\ ret' = NoResult
  BY <1>1 DEF Begin, ScanInRange
<1>3. WindowIsStream' /\ OnItemBoundary' /\ ScanInRange' /\ Unconsumed'
  BY <1>1, <1>2, BufferUntouched
<1>4. TypeOK'
  <2>1. from' \in Nat
    BY <1>2, ConsumedType
  <2>2. IsCall(call)'
    BY <1>2
  <2>3. ret'.err \in Errors /\ ret'.ts \in Times /\ pc' \in PCs
    BY <1>2, MaxTimeAssumption DEF NoResult, Errors, Success, IoError, Times, MinTime, PCs
  <2>4. DesTypeOK(stream)'
    BY <1>1 DEF TypeOK, DesTypeOK, desVars
  <2>5. QED
    BY <1>1, <2>1, <2>2, <2>3, <2>4 DEF TypeOK
<1>5. QED
  BY <1>3, <1>4

LEMMA InvClose ==
    ASSUME Inv, Close
    PROVE  Inv'
<1> USE DEF Inv
<1>1. /\ UNCHANGED <<stream, delivered, buf, cap, start, end, pc, call, scanPos, ret, from, wasted>>
      /\ pc = "idle"
  BY DEF Close, ioVars, bufVars
<1>2. scanPos' = 0
  BY <1>1 DEF ScanInRange
<1>3. WindowIsStream' /\ OnItemBoundary' /\ ScanInRange' /\ Unconsumed'
  BY <1>1, <1>2, BufferUntouched
<1>4. DesTypeOK(stream)'
  <2>1. native' \in {"none", "live", "freed"} /\ cptr' = FALSE /\ UNCHANGED <<mTimestamp, mMsg>>
    BY DEF Close, DesClose, DesDelete, TypeOK, DesTypeOK
  <2>2. QED
    BY <1>1, <2>1 DEF TypeOK, DesTypeOK
<1>5. TypeOK'
  <2>1. IsCall(call)'
    BY <1>1 DEF TypeOK
  <2>2. QED
    BY <1>1, <1>4, <2>1 DEF TypeOK
<1>6. QED
  BY <1>3, <1>5

(* An error that ends a call other than NewReaderSize. *)
LEMMA FailTyped ==
    ASSUME NEW err \in Errors, Fail(err)
    PROVE  /\ pc' \in {"idle", "failed"} /\ pc' \in PCs
           /\ ret'.err \in Errors /\ ret'.ts \in Times
<1>1. 0 \in Times
  BY MaxTimeAssumption DEF Times, MinTime
<1>2. QED
  BY <1>1 DEF Fail, Failure, PCs

LEMMA InvEnterScan ==
    ASSUME Inv, EnterScan
    PROVE  Inv'
<1> USE DEF Inv
<1>1. /\ UNCHANGED <<desVars, stream, delivered, buf, cap, start, end, call, scanPos, from, wasted>>
      /\ pc = "deser"
  BY DEF EnterScan, ioVars, bufVars
<1>2. scanPos' = 0
  BY <1>1 DEF ScanInRange
<1>3. /\ pc' \in PCs /\ ret'.err \in Errors /\ ret'.ts \in Times
      /\ pc' \notin {"open", "preamble"}
  <2>1. CorruptedIr \in Errors
    BY DEF CorruptedIr, Errors, Success, IoError
  <2>2. CASE start # end /\ ~cptr
    BY <2>1, <2>2, FailTyped DEF EnterScan
  <2>3. CASE start = end \/ cptr
    BY <2>3 DEF EnterScan, TypeOK, PCs
  <2>4. QED
    BY <2>2, <2>3
<1>4. WindowIsStream' /\ OnItemBoundary' /\ ScanInRange' /\ Unconsumed'
  BY <1>1, <1>2, <1>3, BufferUntouched
<1>5. TypeOK'
  <2>1. DesTypeOK(stream)'
    BY <1>1 DEF TypeOK, DesTypeOK, desVars
  <2>2. IsCall(call)'
    BY <1>1 DEF TypeOK
  <2>3. QED
    BY <1>1, <1>3, <2>1, <2>2 DEF TypeOK
<1>6. QED
  BY <1>4, <1>5

(* What a try of Read gets: an event at the front of the window, or an     *)
(* error without an event.                                                 *)
LEMMA LogEventFacts ==
    ASSUME TypeOK, WindowIsStream, OnItemBoundary
    PROVE  LET r == LogEventResult(stream, buf, start, end)
           IN  /\ r.err \in Errors
               /\ r.err = Success =>
                     /\ r.item \in 2 .. Count(stream)
                     /\ r.ts \in Times
                     /\ cptr
                     /\ stream.items[r.item].kind \notin {"eof", "bad"}
                     /\ Width(stream, r.item) \in Nat \ {0}
                     /\ start + Width(stream, r.item) <= end
                     /\ Consumed = EndOf(stream, r.item - 1)
                     /\ Consumed + Width(stream, r.item) = EndOf(stream, r.item)
<1> DEFINE r == LogEventResult(stream, buf, start, end)
<1>1. /\ Consumed \in Nat /\ start \in Nat /\ end \in Nat /\ start <= end
  BY ConsumedType
<1>2. \/ r \in {NoEvent(IncompleteIr), NoEvent(CorruptedIr)}
      \/ cptr /\ \E e \in Encodings : r = NextEvent(e, stream, buf, start, end)
  BY DEF LogEventResult, EightByteLogEvent, FourByteLogEvent, DeserializeLogEvent, Encodings
<1> HIDE DEF r
<1>3. CASE r \in {NoEvent(IncompleteIr), NoEvent(CorruptedIr)}
  BY <1>3 DEF NoEvent, Errors, Success, IoError, IncompleteIr, CorruptedIr, r
<1>4. ASSUME cptr, NEW e \in Encodings, r = NextEvent(e, stream, buf, start, end)
      PROVE  /\ r.err \in {Success, EndOfIr, CorruptedIr, IncompleteIr}
             /\ r.err = Success =>
                   /\ r.item \in 2 .. Count(stream)
                   /\ r.ts \in Times
                   /\ stream.items[r.item].kind \notin {"eof", "bad"}
                   /\ Width(stream, r.item) \in Nat \ {0}
                   /\ start + Width(stream, r.item) <= end
                   /\ Consumed + (start - start) = EndOf(stream, r.item - 1)
                   /\ Consumed + (start - start) + Width(stream, r.item) = EndOf(stream, r.item)
  <2>1. start \in start .. end
    BY <1>1
  <2>2. QED
    BY <1>4, <2>1, NextEventFacts
<1>5. CASE cptr /\ \E e \in Encodings : r = NextEvent(e, stream, buf, start, end)
  <2>1. r.err \in Errors
    BY <1>4, <1>5 DEF Errors, Success, IoError, IncompleteIr, CorruptedIr, EndOfIr
  <2>2. Consumed + (start - start) = Consumed
    BY <1>1
  <2>3. QED
    BY <1>4, <1>5, <2>1, <2>2 DEF r
<1>6. QED
  BY <1>2, <1>3, <1>5

LEMMA InvTryRead ==
    ASSUME Inv, TryRead
    PROVE  Inv'
<1> USE DEF Inv
<1> DEFINE r == LogEventResult(stream, buf, start, end)
<1> DEFINE s == StartAfter(r)
<1>1. /\ Consumed \in Nat /\ start \in Nat /\ end \in Nat /\ start <= end
  BY ConsumedType
<1>2. /\ UNCHANGED <<stream, delivered, buf, cap, end, call, scanPos, from, wasted>>
      /\ start' = s /\ pc = "deser"
      /\ LogEventEffect(start, end, r)
  BY DEF TryRead, ioVars
<1>3. scanPos = 0 /\ scanPos' = 0
  BY <1>2 DEF ScanInRange
<1>4. /\ r.err \in Errors
      /\ r.err = Success =>
            /\ r.item \in 2 .. Count(stream)
            /\ r.ts \in Times
            /\ Width(stream, r.item) \in Nat \ {0}
            /\ start + Width(stream, r.item) <= end
            /\ Consumed + Width(stream, r.item) = EndOf(stream, r.item)
  BY LogEventFacts
<1>5. /\ pc' \in PCs /\ ret'.err \in Errors /\ ret'.ts \in Times
      /\ pc' \notin {"open", "preamble", "scan"}
  <2> DEFINE ts == r.ts
  <2>1. CASE r.err = IncompleteIr
    <3>1. pc' = "fill" /\ ret' = ret
      BY <2>1 DEF TryRead, IncompleteIr, Success
    <3>2. QED
      BY <3>1 DEF TypeOK, PCs
  <2>2. CASE r.err = Success
    <3>1. \/ pc' = "idle" /\ ret' = [err |-> Success, ts |-> ts, index |-> -1]
          \/ UNCHANGED <<pc, ret>>
      BY <2>2 DEF TryRead, Return, IncompleteIr, Success
    <3>2. ts \in Times
      BY <1>4, <2>2
    <3> HIDE DEF ts
    <3>3. CASE pc' = "idle" /\ ret' = [err |-> Success, ts |-> ts, index |-> -1]
      BY <3>2, <3>3 DEF PCs, Errors, Success, IoError
    <3>4. CASE UNCHANGED <<pc, ret>>
      BY <1>2, <3>4 DEF TypeOK
    <3>5. QED
      BY <3>1, <3>3, <3>4
  <2>3. CASE r.err \notin {IncompleteIr, Success}
    <3>1. Fail(r.err)
      BY <2>3 DEF TryRead
    <3>2. QED
      BY <1>4, <3>1, FailTyped
  <2>4. QED
    BY <2>1, <2>2, <2>3
<1> HIDE DEF r
<1>6. s \in start .. end /\ \E j \in 0 .. Count(stream) : Consumed + (s - start) = EndOf(stream, j)
  <2>1. CASE r.err = Success
    <3>1. s = start + Width(stream, r.item)
      BY <2>1 DEF StartAfter
    <3>2. r.item \in 0 .. Count(stream)
      BY <1>4, <2>1, StreamGeometry DEF TypeOK
    <3>3. QED
      BY <1>1, <1>4, <2>1, <3>1, <3>2
  <2>2. CASE r.err # Success
    <3>1. s = start
      BY <2>2 DEF StartAfter
    <3>2. QED
      BY <1>1, <3>1 DEF OnItemBoundary
  <2>3. QED
    BY <2>1, <2>2
<1> HIDE DEF s
<1>7. /\ WindowIsStream' /\ Consumed' = Consumed + (s - start)
      /\ cap' \in Nat /\ buf' \in [0 .. cap' - 1 -> Nat] /\ end' \in 0 .. cap'
      /\ start' \in 0 .. end' /\ stream' = stream /\ delivered' \in 0 .. stream.len
  BY <1>2, <1>6, StartAdvances
<1>8. TypeOK'
  <2>1. scanPos' \in Nat /\ wasted' \in BOOLEAN /\ UNCHANGED <<call, from>>
    BY <1>2 DEF TypeOK
  <2>2. DesTypeOK(stream)'
    <3>1. CASE UNCHANGED desVars
      BY <1>2, <3>1 DEF TypeOK, DesTypeOK, desVars
    <3>2. CASE DecodeEffect(r)
      BY <1>2, <1>4, <3>2, DecodeTyped
    <3>3. QED
      BY <1>2, <3>1, <3>2 DEF LogEventEffect, r
  <2>3. QED
    BY <1>5, <1>7, <2>1, <2>2, RestTyped
<1>9. OnItemBoundary'
  BY <1>2, <1>6, <1>7 DEF OnItemBoundary
<1>10. ScanInRange'
  <2>1. scanPos' <= end' - start'
    BY <1>1, <1>2, <1>3, <1>6
  <2>2. Consumed' + scanPos' = Consumed'
    BY <1>1, <1>3, <1>6, <1>7
  <2>3. QED
    BY <1>3, <1>9, <2>1, <2>2 DEF ScanInRange, OnItemBoundary
<1>11. Unconsumed'
  BY <1>5 DEF Unconsumed
<1>12. QED
  BY <1>7, <1>8, <1>9, <1>10, <1>11

(* What a turn of the scanning loop finds at its read position. *)
LEMMA ScanFacts ==
    ASSUME Inv, pc = "scan"
    PROVE  LET at   == start + scanPos
               turn == ScanResult(stream, buf, at, end, call)
               d    == turn.event
               err  == turn.err
           IN  /\ at \in start .. end
               /\ err \in Errors \cup {Again}
               /\ err \in {Again, Success} => d.err = Success
               /\ d.err = Success =>
                     /\ d.item \in 2 .. Count(stream)
                     /\ d.ts \in Times
                     /\ stream.items[d.item].kind \notin {"eof", "bad"}
                     /\ Width(stream, d.item) \in Nat \ {0}
                     /\ scanPos + Width(stream, d.item) <= end - start
                     /\ Consumed + scanPos = EndOf(stream, d.item - 1)
                     /\ Consumed + (scanPos + Width(stream, d.item)) = EndOf(stream, d.item)
<1> USE DEF Inv
<1> DEFINE at   == start + scanPos
           turn == ScanResult(stream, buf, at, end, call)
           d    == turn.event
           err  == turn.err
<1>1. /\ Consumed \in Nat /\ start \in Nat /\ end \in Nat /\ start <= end
  BY ConsumedType
<1>2. scanPos \in Nat /\ scanPos <= end - start
  BY DEF TypeOK, ScanInRange
<1>3. at \in start .. end
  BY <1>1, <1>2
<1>4. PICK e \in Encodings : turn = DeserializeWildcardMatch(e, stream, buf, at, end, call)
  BY DEF ScanResult, EightByteWildcardMatch, FourByteWildcardMatch, Encodings
<1> HIDE DEF at, turn
<1>5. /\ d = NextEvent(e, stream, buf, at, end)
      /\ \/ err = d.err /\ d.err # Success
         \/ err \in {QueryNotFound, Again, Success} /\ d.err = Success
  BY <1>4 DEF DeserializeWildcardMatch
<1> HIDE DEF d, err
<1>6. /\ d.err \in {Success, EndOfIr, CorruptedIr, IncompleteIr}
      /\ d.err = Success =>
            /\ d.item \in 2 .. Count(stream)
            /\ d.ts \in Times
            /\ stream.items[d.item].kind \notin {"eof", "bad"}
            /\ Width(stream, d.item) \in Nat \ {0}
            /\ at + Width(stream, d.item) <= end
            /\ Consumed + (at - start) = EndOf(stream, d.item - 1)
            /\ Consumed + (at - start) + Width(stream, d.item) = EndOf(stream, d.item)
  BY <1>3, <1>5, NextEventFacts
<1>7. /\ err \in Errors \cup {Again}
      /\ err \in {Again, Success} => d.err = Success
  BY <1>5, <1>6
     DEF Errors, Again, Success, IoError, IncompleteIr, CorruptedIr, EndOfIr, QueryNotFound
<1>8. ASSUME d.err = Success
      PROVE  /\ scanPos + Width(stream, d.item) <= end - start
             /\ Consumed + scanPos = EndOf(stream, d.item - 1)
             /\ Consumed + (scanPos + Width(stream, d.item)) = EndOf(stream, d.item)
  BY <1>1, <1>2, <1>6, <1>8 DEF at
<1>9. QED
  BY <1>3, <1>6, <1>7, <1>8 DEF at, turn, d, err

LEMMA InvScanEvent ==
    ASSUME Inv, ScanEvent
    PROVE  Inv'
<1> USE DEF Inv
<1> DEFINE at   == start + scanPos
           turn == ScanResult(stream, buf, at, end, call)
           d    == turn.event
           err  == turn.err
           pos  == scanPos + Width(stream, d.item)
           s    == StartAfterScan(err, pos)
<1>1. /\ Consumed \in Nat /\ start \in Nat /\ end \in Nat /\ start <= end
      /\ scanPos \in Nat /\ scanPos <= end - start
  BY ConsumedType DEF TypeOK, ScanInRange
<1>2. /\ UNCHANGED <<stream, delivered, buf, cap, end, call, from>>
      /\ start' = s /\ pc = "scan"
      /\ scanPos' = IF err = Again THEN pos ELSE 0
      /\ ScanEffect(at, end, d)
  BY DEF ScanEvent, ioVars
<1>3. wasted' \in BOOLEAN
  BY DEF ScanEvent, TypeOK
<1>4. /\ at \in start .. end
      /\ err \in Errors \cup {Again}
      /\ err \in {Again, Success} => d.err = Success
      /\ d.err = Success =>
            /\ d.item \in 2 .. Count(stream)
            /\ d.ts \in Times
            /\ Width(stream, d.item) \in Nat \ {0}
            /\ pos <= end - start
            /\ Consumed + pos = EndOf(stream, d.item)
  BY <1>2, ScanFacts
<1>5. /\ pc' \in PCs /\ ret'.err \in Errors /\ ret'.ts \in Times
      /\ pc' \notin {"open", "preamble"}
      /\ err # Again => pc' # "scan"
  <2> DEFINE ts == d.ts
  <2>1. CASE err = Again
    <3>1. UNCHANGED <<pc, ret>>
      BY <2>1 DEF ScanEvent, Again, IncompleteIr, Success
    <3>2. QED
      BY <1>2, <2>1, <3>1 DEF TypeOK
  <2>2. CASE err = IncompleteIr
    <3>1. pc' = "fill" /\ ret' = ret
      BY <2>2 DEF ScanEvent, Again, IncompleteIr, Success
    <3>2. QED
      BY <3>1 DEF TypeOK, PCs
  <2>3. CASE err = Success
    <3>1. pc' = "idle" /\ ret'.err = Success /\ ret'.ts = ts
      BY <2>3 DEF ScanEvent, Return, IncompleteIr, Success, Again
    <3>2. ts \in Times
      BY <1>4, <2>3
    <3>3. QED
      BY <3>1, <3>2 DEF PCs, Errors, Success, IoError
  <2>4. CASE err \notin {Again, IncompleteIr, Success}
    <3>1. Fail(err)
      BY <2>4 DEF ScanEvent
    <3>2. QED
      BY <1>4, <2>4, <3>1, FailTyped
  <2>5. QED
    BY <2>1, <2>2, <2>3, <2>4
<1>6. DesTypeOK(stream)'
  <2>1. CASE UNCHANGED desVars
    BY <1>2, <2>1 DEF TypeOK, DesTypeOK, desVars
  <2>2. CASE DecodeEffect(d)
    BY <1>2, <1>4, <2>2, DecodeTyped
  <2>3. QED
    BY <1>2, <2>1, <2>2 DEF ScanEffect
<1> HIDE DEF turn, d, err, pos, at
<1>7. pos \in Nat \/ err \notin {Again, Success}
  BY <1>1, <1>4 DEF pos
<1>8. s \in start .. end /\ \E j \in 0 .. Count(stream) : Consumed + (s - start) = EndOf(stream, j)
  <2>1. CASE err = Success
    <3>1. s = start + pos
      BY <2>1 DEF StartAfterScan
    <3>2. d.item \in 0 .. Count(stream)
      BY <1>4, <2>1, StreamGeometry DEF TypeOK
    <3>3. QED
      BY <1>1, <1>4, <1>7, <2>1, <3>1, <3>2
  <2>2. CASE err # Success
    <3>1. s = start
      BY <2>2 DEF StartAfterScan
    <3>2. QED
      BY <1>1, <3>1 DEF OnItemBoundary
  <2>3. QED
    BY <2>1, <2>2
<1>9. err = Again => s = start
  BY DEF StartAfterScan, Again, Success
<1> HIDE DEF s
<1>10. /\ WindowIsStream' /\ Consumed' = Consumed + (s - start)
       /\ cap' \in Nat /\ buf' \in [0 .. cap' - 1 -> Nat] /\ end' \in 0 .. cap'
       /\ start' \in 0 .. end' /\ stream' = stream /\ delivered' \in 0 .. stream.len
  BY <1>2, <1>8, StartAdvances
<1>11. TypeOK'
  <2>1. scanPos' \in Nat
    BY <1>2, <1>7
  <2>2. UNCHANGED <<call, from>>
    BY <1>2
  <2>3. QED
    BY <1>3, <1>5, <1>6, <1>10, <2>1, <2>2, RestTyped
<1>12. OnItemBoundary'
  BY <1>2, <1>8, <1>10 DEF OnItemBoundary
<1>13. ScanInRange'
  <2>1. CASE err = Again
    <3>1. scanPos' = pos /\ s = start
      BY <1>2, <1>9, <2>1
    <3>2. pos \in Nat /\ pos <= end - start
          /\ Consumed + pos = EndOf(stream, d.item) /\ d.item \in 0 .. Count(stream)
      BY <1>4, <1>7, <2>1, StreamGeometry DEF TypeOK
    <3>3. scanPos' <= end' - start'
      BY <1>1, <1>2, <3>1, <3>2
    <3>4. Consumed' + scanPos' = EndOf(stream', d.item)
      BY <1>1, <1>2, <1>10, <3>1, <3>2
    <3>5. pc' = "scan"
      BY <1>2, <2>1 DEF ScanEvent, err, turn, at, Again, IncompleteIr, Success
    <3>6. QED
      BY <1>2, <3>2, <3>3, <3>4, <3>5 DEF ScanInRange
  <2>2. CASE err # Again
    <3>1. scanPos' = 0
      BY <1>2, <2>2
    <3>2. scanPos' <= end' - start'
      BY <1>1, <1>2, <1>8, <3>1
    <3>3. Consumed' + scanPos' = Consumed'
      BY <1>1, <1>8, <1>10, <3>1
    <3>4. QED
      BY <1>12, <3>1, <3>2, <3>3 DEF ScanInRange, OnItemBoundary
  <2>3. QED
    BY <2>1, <2>2
<1>14. Unconsumed'
  BY <1>5 DEF Unconsumed
<1>15. QED
  BY <1>10, <1>11, <1>12, <1>13, <1>14

-----------------------------------------------------------------------------
LEMMA InvStutter == Inv /\ UNCHANGED vars => Inv'
<1> SUFFICES ASSUME Inv, UNCHANGED vars PROVE Inv'
  OBVIOUS
<1> USE DEF Inv
<1>1. UNCHANGED <<stream, delivered, buf, cap, start, end, pc, call, scanPos, ret, from, wasted>>
  BY DEF vars, ioVars, bufVars
<1>2. UNCHANGED <<native, cptr, mTimestamp, mMsg>>
  BY DEF vars, desVars
<1>3. Consumed' = Consumed
  BY <1>1 DEF Consumed
<1>4. DesTypeOK(stream)' /\ IsCall(call)'
  BY <1>1, <1>2 DEF TypeOK, DesTypeOK
<1>5. TypeOK'
  BY <1>1, <1>4 DEF TypeOK
<1>6. WindowIsStream' /\ OnItemBoundary' /\ ScanInRange' /\ Unconsumed'
  BY <1>1, <1>3 DEF WindowIsStream, OnItemBoundary, ScanInRange, Unconsumed
<1>7. QED
  BY <1>5, <1>6

LEMMA InvNext == Inv /\ [Next]_vars => Inv'
<1> SUFFICES ASSUME Inv, [Next]_vars PROVE Inv'
  OBVIOUS
<1>1. CASE Read
  BY <1>1, InvBegin DEF Read, IsCall
<1>2. CASE ReadToFunc
  BY <1>2, InvBegin DEF ReadToFunc, IsCall
<1>3. CASE ReadToWildcardMatch
  BY <1>3, InvBegin DEF ReadToWildcardMatch, IsCall
<1>4. CASE ReadToWildcardMatchWithTimeInterval
  BY <1>4, InvBegin DEF ReadToWildcardMatchWithTimeInterval, IsCall
<1>5. CASE Close
  BY <1>5, InvClose
<1>6. CASE DoFirstRead
  BY <1>6, InvFirstRead DEF DoFirstRead
<1>7. CASE TryPreamble
  BY <1>7, InvTryPreamble
<1>8. CASE DoFillBuf
  BY <1>8, InvFillBuf DEF DoFillBuf
<1>9. CASE TryRead
  BY <1>9, InvTryRead
<1>10. CASE EnterScan
  BY <1>10, InvEnterScan
<1>11. CASE ScanEvent
  BY <1>11, InvScanEvent
<1>12. CASE UNCHANGED vars
  BY <1>12, InvStutter
<1>13. QED
  BY <1>1, <1>2, <1>3, <1>4, <1>5, <1>6, <1>7, <1>8, <1>9, <1>10, <1>11, <1>12
     DEF Next, Method, Step

(* The inductive invariant holds in every state a Reader can reach. *)
THEOREM ReaderInvariant == Spec => []Inv
<1>1. QED
  BY InvInit, InvNext, PTL DEF Spec

(* No slice expression of reader.go is out of range and no variable leaves *)
(* its type, for any stream, any initial buffer size and any io.Reader.    *)
THEOREM ReaderTyped == Spec => []TypeOK
<1>1. Inv => TypeOK
  BY DEF Inv
<1>2. QED
  BY <1>1, ReaderInvariant, PTL

(* fillBuf never loses, repeats or displaces a byte: the unconsumed window *)
(* is the part of the stream between what was consumed and what arrived.   *)
THEOREM ReaderWindow == Spec => []WindowIsStream
<1>1. Inv => WindowIsStream
  BY DEF Inv
<1>2. QED
  BY <1>1, ReaderInvariant, PTL

(* Whatever succeeds or fails, reader.start stays at the start of an item. *)
THEOREM ReaderAligned == Spec => []OnItemBoundary
<1>1. Inv => OnItemBoundary
  BY DEF Inv
<1>2. QED
  BY <1>1, ReaderInvariant, PTL
=============================================================================
