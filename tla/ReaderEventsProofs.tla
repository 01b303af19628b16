------------------------- MODULE ReaderEventsProofs -------------------------
(***************************************************************************)
(* What the calls of a Reader return, proved for every stream, buffer size *)
(* and argument: events in their order, with their timestamps, none that   *)
(* was asked for left out, and errors that mean what they say.             *)
(***************************************************************************)
EXTENDS ReaderProofs, WildcardQueryProofs

(* How far the running method has looked into the stream. *)
Looked == Consumed + scanPos

-----------------------------------------------------------------------------
(* Facts about the stream and its decoding. *)

LEMMA StreamEnds ==
    ASSUME TypeOK
    PROVE  \A i, j \in 0 .. Count(stream) :
              /\ i < j <=> EndOf(stream, i) < EndOf(stream, j)
              /\ i = j <=> EndOf(stream, i) = EndOf(stream, j)
BY StreamsAssumption, EndsRise DEF TypeOK

LEMMA LookedType ==
    ASSUME Inv
    PROVE  /\ Consumed \in Nat /\ scanPos \in Nat /\ Looked \in Nat
           /\ Count(stream) \in Nat \ {0}
           /\ \A j \in 0 .. Count(stream) : EndOf(stream, j) \in Nat
BY ConsumedType, StreamGeometry DEF Inv, TypeOK, Looked

(* An item that ends before another ends no later than its predecessor. *)
LEMMA EndBefore ==
    ASSUME TypeOK, NEW k \in 0 .. Count(stream), NEW j \in 1 .. Count(stream), k < j
    PROVE  EndOf(stream, k) <= EndOf(stream, j - 1)
<1>1. /\ Count(stream) \in Nat /\ j - 1 \in 0 .. Count(stream) /\ k <= j - 1
      /\ EndOf(stream, k) \in Nat /\ EndOf(stream, j - 1) \in Nat
  <2>1. Count(stream) \in Nat
    BY StreamGeometry DEF TypeOK
  <2>2. j - 1 \in 0 .. Count(stream) /\ k <= j - 1
    BY <2>1
  <2>3. QED
    BY <2>1, <2>2, StreamGeometry DEF TypeOK
<1>2. CASE k = j - 1
  BY <1>1, <1>2
<1>3. CASE k < j - 1
  BY <1>1, <1>3, StreamEnds
<1>4. QED
  BY <1>1, <1>2, <1>3

(* An event is neither of the items that end a stream, nor its preamble. *)
LEMMA EventKind ==
    ASSUME TypeOK, NEW j \in 2 .. Count(stream), stream.items[j].kind \notin {"eof", "bad"}
    PROVE  stream.items[j].kind = "event"
<1>1. IsStream(stream, Messages)
  BY StreamsAssumption DEF TypeOK
<1>2. stream.items[j].kind \in Kinds
  BY StreamGeometry DEF TypeOK, Item
<1>3. stream.items[j].kind # "preamble"
  BY <1>1 DEF IsStream
<1>4. QED
  BY <1>2, <1>3 DEF Kinds

(* The four-byte decoder's running timestamp is that of the item it stands *)
(* behind, as long as no scan was wasted.                                  *)
Exact ==
    (stream.enc = "four" /\ ~wasted /\ cptr) =>
        \A p \in 1 .. Count(stream) :
            EndOf(stream, p) = Looked => mTimestamp = stream.items[p].ts

LEMMA DecodedRight ==
    ASSUME Inv, Exact, Trusted, cptr, NEW j \in 2 .. Count(stream),
           Looked = EndOf(stream, j - 1)
    PROVE  DecodedTimestamp(stream.enc, stream, j) = stream.items[j].ts
<1>1. CASE stream.enc # "four"
  BY <1>1 DEF DecodedTimestamp
<1>2. CASE stream.enc = "four"
  <2>1. j - 1 \in 1 .. Count(stream) /\ j \in 1 .. Count(stream)
    BY LookedType
  <2>2. ~wasted
    BY <1>2 DEF Trusted
  <2>3. mTimestamp = stream.items[j - 1].ts
    BY <1>2, <2>1, <2>2 DEF Exact
  <2>4. stream.items[j].ts \in Times /\ stream.items[j - 1].ts \in Times
    BY <2>1, StreamGeometry DEF Inv, TypeOK, Item
  <2>5. QED
    BY <1>2, <2>3, <2>4, DifferenceAddsUp DEF DecodedTimestamp, Delta
<1>3. QED
  BY <1>1, <1>2

-----------------------------------------------------------------------------
(* What each step does, as far as the calls' results are concerned. *)

(* The steps that decode nothing: between calls, at the beginning of one,  *)
(* around a read of the io.Reader, or into the scanning loop.              *)
IdleStep ==
    /\ UNCHANGED <<stream, mTimestamp, mMsg, wasted, scanPos>>
    /\ Consumed' = Consumed
    /\ cptr' => cptr
    /\ \/ UNCHANGED <<pc, call, ret, from>> /\ (pc = "idle" \/ cptr' = cptr)
       \/ /\ pc = "idle" /\ pc' = "deser"
          /\ call' # NewCall
          /\ from' = Consumed
       \/ /\ pc = "deser" /\ Scanning
          /\ UNCHANGED <<call, from>>
          /\ \/ pc' = "fill"
             \/ pc' = "scan" /\ cptr' /\ Consumed < delivered
             \/ pc' = "idle" /\ ~cptr /\ ret'.err = CorruptedIr
       \/ /\ pc \in {"open", "fill"}
          /\ UNCHANGED <<call, from>>
          /\ \/ pc' = (IF call = NewCall THEN "preamble" ELSE "deser")
             \/ pc' = (IF call = NewCall THEN "failed" ELSE "idle") /\ ret'.err = IoError

(* The try of NewReaderSize, and that of Read, with the decoder's answer. *)
PreambleStep ==
    /\ UNCHANGED <<stream, call, scanPos, from, wasted>>
    /\ scanPos = 0
    /\ \/ /\ stream.meta \in {"ok", "noRef"}
          /\ Consumed = 0
          /\ Consumed' = EndOf(stream, 1)
          /\ mTimestamp' = ReferenceTs(stream)
          /\ pc' = "idle"
       \/ /\ Consumed' = Consumed
          /\ UNCHANGED <<cptr, mTimestamp>> \/ ~cptr'
          /\ pc' \in {"fill", "failed"}

ReadStep(r) ==
    /\ UNCHANGED <<stream, call, scanPos, from, wasted, cptr>>
    /\ scanPos = 0
    /\ \/ /\ r.err = Success
          /\ cptr
          /\ r.item \in 2 .. Count(stream)
          /\ stream.items[r.item].kind = "event"
          /\ r.ts = DecodedTimestamp(stream.enc, stream, r.item)
          /\ Looked = EndOf(stream, r.item - 1)
          /\ Consumed' = EndOf(stream, r.item)
          /\ mMsg' = r.item
          /\ mTimestamp' = r.ts
          /\ \/ Accepts(r.ts, r.item) /\ pc' = "idle" /\ ret'.err = Success /\ ret'.ts = r.ts
             \/ ~Accepts(r.ts, r.item) /\ UNCHANGED <<pc, ret>>
       \/ /\ r.err # Success
          /\ Consumed' = Consumed
          /\ mTimestamp' = mTimestamp
          /\ \/ pc' = "fill"
             \/ pc' \in {"idle", "failed"} /\ ret'.err = r.err /\ r.err # IncompleteIr

LEMMA NextEventIs ==
    ASSUME Inv, NEW lo \in start .. end,
           LET d == NextEvent(stream.enc, stream, buf, lo, end)
           IN  d.err = Success
    PROVE  LET d == NextEvent(stream.enc, stream, buf, lo, end)
           IN  /\ d.item \in 2 .. Count(stream)
               /\ stream.items[d.item].kind = "event"
               /\ d.ts = DecodedTimestamp(stream.enc, stream, d.item)
<1> DEFINE d == NextEvent(stream.enc, stream, buf, lo, end)
<1>1. d.item \in 2 .. Count(stream) /\ stream.items[d.item].kind \notin {"eof", "bad"}
  BY NextEventFacts DEF Inv
<1>2. stream.items[d.item].kind = "event"
  BY <1>1, EventKind DEF Inv
<1>3. d.ts = DecodedTimestamp(stream.enc, stream, d.item)
  BY DEF NextEvent
<1>4. QED
  BY <1>1, <1>2, <1>3

LEMMA ResultIs ==
    ASSUME Inv
    PROVE  \/ LogEventResult(stream, buf, start, end) = NoEvent(IncompleteIr)
           \/ ~cptr /\ LogEventResult(stream, buf, start, end) = NoEvent(CorruptedIr)
           \/ /\ cptr
              /\ start # end
              /\ LogEventResult(stream, buf, start, end)
                   = NextEvent(stream.enc, stream, buf, start, end)
<1>1. stream.enc \in Encodings
  BY StreamsAssumption DEF Inv, TypeOK, IsStream
<1>2. QED
  BY <1>1 DEF LogEventResult, EightByteLogEvent, FourByteLogEvent, DeserializeLogEvent, Encodings

LEMMA TryReadSteps ==
    ASSUME Inv, TryRead
    PROVE  ReadStep(LogEventResult(stream, buf, start, end))
<1> DEFINE r == LogEventResult(stream, buf, start, end)
<1>1. /\ UNCHANGED <<stream, delivered, buf, cap, end, call, scanPos, from, wasted>>
      /\ start' = StartAfter(r) /\ pc = "deser"
      /\ LogEventEffect(start, end, r)
  BY DEF TryRead, ioVars
<1>2. scanPos = 0
  BY <1>1 DEF Inv, ScanInRange
<1>3. /\ r.err \in Errors
      /\ r.err = Success =>
            /\ r.item \in 2 .. Count(stream)
            /\ r.ts \in Times
            /\ Width(stream, r.item) \in Nat \ {0}
            /\ start + Width(stream, r.item) <= end
            /\ Consumed + Width(stream, r.item) = EndOf(stream, r.item)
  BY LogEventFacts DEF Inv
<1>4. cptr' = cptr
  BY <1>1 DEF LogEventEffect, DecodeEffect, desVars
<1>5. /\ Consumed \in Nat /\ start \in Nat /\ end \in Nat /\ delivered \in Nat /\ start <= end
  BY ConsumedType DEF Inv
<1>6. CASE r.err = Success
  <2>1. /\ cptr /\ start # end
        /\ r = NextEvent(stream.enc, stream, buf, start, end)
    BY <1>6, ResultIs DEF NoEvent, Success, IncompleteIr, CorruptedIr
  <2>2. start \in start .. end
    BY <1>5
  <2>3. /\ r.item \in 2 .. Count(stream)
        /\ stream.items[r.item].kind = "event"
        /\ r.ts = DecodedTimestamp(stream.enc, stream, r.item)
    BY <1>6, <2>1, <2>2, NextEventIs
  <2>4. Consumed + (start - start) = EndOf(stream, r.item - 1)
    BY <1>6, <2>1, <2>2, NextEventFacts DEF Inv
  <2>5. mMsg' = r.item /\ mTimestamp' = r.ts
    BY <1>1, <1>6, <2>1 DEF LogEventEffect, DecodeEffect
  <2>6. \/ Accepts(r.ts, r.item) /\ pc' = "idle" /\ ret'.err = Success /\ ret'.ts = r.ts
        \/ ~Accepts(r.ts, r.item) /\ UNCHANGED <<pc, ret>>
    <3>1. IF Accepts(r.ts, r.item)
          THEN Return([err |-> Success, ts |-> r.ts, index |-> -1])
          ELSE UNCHANGED <<pc, ret>>
      BY <1>6 DEF TryRead, IncompleteIr, Success
    <3>2. QED
      BY <3>1 DEF Return
  <2> HIDE DEF r
  <2>7. Looked = EndOf(stream, r.item - 1)
    BY <1>2, <1>5, <2>4 DEF Looked
  <2>8. Consumed' = EndOf(stream, r.item)
    <3>1. start' = start + Width(stream, r.item)
      BY <1>1, <1>6 DEF StartAfter
    <3>2. Consumed' = Consumed + Width(stream, r.item)
      BY <1>1, <1>3, <1>5, <1>6, <3>1 DEF Consumed
    <3>3. QED
      BY <1>3, <1>6, <3>2
  <2>9. UNCHANGED <<stream, call, scanPos, from, wasted, cptr>> /\ cptr
    BY <1>1, <1>4, <2>1
  <2>10. ReadStep(r)
    BY <1>2, <1>6, <2>3, <2>5, <2>6, <2>7, <2>8, <2>9 DEF ReadStep
  <2>11. QED
    BY <2>10 DEF r
<1>7. CASE r.err # Success
  <2>1. Consumed' = Consumed
    BY <1>1, <1>7 DEF StartAfter, Consumed
  <2>2. mTimestamp' = mTimestamp
    BY <1>1, <1>7 DEF LogEventEffect, DecodeEffect, desVars
  <2>3. \/ pc' = "fill"
        \/ pc' \in {"idle", "failed"} /\ ret'.err = r.err /\ r.err # IncompleteIr
    <3>1. r.err = IncompleteIr => pc' = "fill"
      BY <1>7 DEF TryRead
    <3>2. r.err # IncompleteIr => Fail(r.err)
      BY <1>7 DEF TryRead
    <3>3. Fail(r.err) => pc' \in {"idle", "failed"} /\ ret'.err = r.err
      BY DEF Fail, Failure
    <3>4. QED
      BY <3>1, <3>2, <3>3
  <2>4. QED
    BY <1>1, <1>2, <1>4, <1>7, <2>1, <2>2, <2>3 DEF ReadStep
<1>8. QED
  BY <1>6, <1>7

(* A turn of the scanning loop. *)
ScanStep(turn) ==
    LET d == turn.event
        err == turn.err
    IN  /\ UNCHANGED <<stream, call, from, cptr>>
        /\ pc = "scan"
        /\ turn = DeserializeWildcardMatch(stream.enc, stream, buf, start + scanPos, end, call)
        /\ start + scanPos \in start .. end
        /\ wasted' = (wasted \/ (err \notin {Again, Success} /\ (scanPos > 0 \/ d.err = Success)))
        /\ d.err = Success =>
              /\ d.item \in 2 .. Count(stream)
              /\ stream.items[d.item].kind = "event"
              /\ d.ts = DecodedTimestamp(stream.enc, stream, d.item)
              /\ Looked = EndOf(stream, d.item - 1)
              /\ mMsg' = d.item
              /\ mTimestamp' = d.ts
        /\ d.err # Success => mTimestamp' = mTimestamp
        /\ \/ /\ err = Again /\ d.err = Success
              /\ Consumed' = Consumed
              /\ Looked' = EndOf(stream, d.item)
              /\ UNCHANGED <<pc, ret>>
           \/ /\ err = Success /\ d.err = Success
              /\ Consumed' = EndOf(stream, d.item)
              /\ scanPos' = 0
              /\ pc' = "idle" /\ ret'.err = Success /\ ret'.ts = d.ts /\ ret'.index = turn.index
           \/ /\ err \notin {Again, Success}
              /\ Consumed' = Consumed
              /\ scanPos' = 0
              /\ \/ pc' = "fill"
                 \/ pc' \in {"idle", "failed"} /\ ret'.err = err /\ err # IncompleteIr

LEMMA ScanEventSteps ==
    ASSUME Inv, ScanEvent
    PROVE  ScanStep(ScanResult(stream, buf, start + scanPos, end, call))
<1> DEFINE at   == start + scanPos
           turn == ScanResult(stream, buf, at, end, call)
           d    == turn.event
           err  == turn.err
           pos  == scanPos + Width(stream, d.item)
<1>1. /\ UNCHANGED <<stream, delivered, buf, cap, end, call, from>>
      /\ start' = StartAfterScan(err, pos) /\ pc = "scan"
      /\ scanPos' = IF err = Again THEN pos ELSE 0
      /\ ScanEffect(at, end, d)
      /\ wasted' = (wasted \/ (err \notin {Again, Success} /\ (scanPos > 0 \/ d.err = Success)))
  BY DEF ScanEvent, ioVars
<1>2. /\ Consumed \in Nat /\ start \in Nat /\ end \in Nat /\ delivered \in Nat /\ start <= end
      /\ scanPos \in Nat /\ scanPos <= end - start
  BY ConsumedType DEF Inv, TypeOK, ScanInRange
<1>3. turn = DeserializeWildcardMatch(stream.enc, stream, buf, at, end, call)
  <2>1. stream.enc \in Encodings
    BY StreamsAssumption DEF Inv, TypeOK, IsStream
  <2>2. QED
    BY <2>1 DEF ScanResult, EightByteWildcardMatch, FourByteWildcardMatch, Encodings
<1>4. d = NextEvent(stream.enc, stream, buf, at, end)
  BY <1>3 DEF DeserializeWildcardMatch
<1>5. /\ at \in start .. end
      /\ err \in {Again, Success} => d.err = Success
      /\ d.err = Success =>
            /\ Width(stream, d.item) \in Nat \ {0}
            /\ pos <= end - start
            /\ Consumed + scanPos = EndOf(stream, d.item - 1)
            /\ Consumed + pos = EndOf(stream, d.item)
  BY <1>1, ScanFacts
<1>6. cptr' = cptr
  BY <1>1 DEF ScanEffect, DecodeEffect, desVars
<1>7. d.err = Success =>
        /\ d.item \in 2 .. Count(stream)
        /\ stream.items[d.item].kind = "event"
        /\ d.ts = DecodedTimestamp(stream.enc, stream, d.item)
  BY <1>4, <1>5, NextEventIs
<1>8. \/ err = Again /\ UNCHANGED <<pc, ret>>
      \/ /\ err = Success
         /\ pc' = "idle" /\ ret'.err = Success /\ ret'.ts = d.ts /\ ret'.index = turn.index
      \/ /\ err \notin {Again, Success}
         /\ \/ pc' = "fill"
            \/ pc' \in {"idle", "failed"} /\ ret'.err = err /\ err # IncompleteIr
  <2>1. CASE err = Again
    BY <2>1 DEF ScanEvent, Again, IncompleteIr, Success
  <2>2. CASE err = IncompleteIr
    <3>1. pc' = "fill"
      BY <2>2 DEF ScanEvent, Again, IncompleteIr, Success
    <3>2. QED
      BY <2>2, <3>1 DEF Again, IncompleteIr, Success
  <2>3. CASE err = Success
    <3>1. Return([err |-> Success, ts |-> d.ts, index |-> turn.index])
      BY <2>3 DEF ScanEvent, Again, IncompleteIr, Success
    <3>2. QED
      BY <2>3, <3>1 DEF Return
  <2>4. CASE err \notin {Again, IncompleteIr, Success}
    <3>1. Fail(err)
      BY <2>4 DEF ScanEvent
    <3>2. pc' \in {"idle", "failed"} /\ ret'.err = err
      BY <3>1 DEF Fail, Failure
    <3>3. QED
      BY <2>4, <3>2
  <2>5. QED
    BY <2>1, <2>2, <2>3, <2>4
<1> HIDE DEF turn, d, err
<1>9. d.err = Success => mMsg' = d.item /\ mTimestamp' = d.ts
  <2>1. d.err = Success => at # end
    BY <1>2, <1>5
  <2>2. QED
    BY <1>1, <2>1 DEF ScanEffect, DecodeEffect
<1>10. d.err # Success => mTimestamp' = mTimestamp
  BY <1>1 DEF ScanEffect, DecodeEffect, desVars
<1>11. d.err = Success => Looked = EndOf(stream, d.item - 1)
  BY <1>5 DEF Looked
<1>12. err # Success => Consumed' = Consumed
  BY <1>1 DEF StartAfterScan, Consumed
<1>13. err = Success => Consumed' = EndOf(stream, d.item)
  <2>1. SUFFICES ASSUME err = Success PROVE Consumed' = EndOf(stream, d.item)
    OBVIOUS
  <2>2. start' = start + pos /\ pos \in Nat /\ pos <= end - start /\ Consumed + pos = EndOf(stream, d.item)
    BY <1>1, <1>2, <1>5, <2>1 DEF StartAfterScan
  <2>3. Consumed' = Consumed + pos
    BY <1>1, <1>2, <2>2 DEF Consumed
  <2>4. QED
    BY <2>2, <2>3
<1>14. err = Again => Looked' = EndOf(stream, d.item)
  <2>1. SUFFICES ASSUME err = Again PROVE Looked' = EndOf(stream, d.item)
    OBVIOUS
  <2>2. scanPos' = pos /\ Consumed + pos = EndOf(stream, d.item) /\ Consumed' = Consumed
    BY <1>1, <1>5, <1>12, <2>1 DEF Again, Success
  <2>3. QED
    BY <2>2 DEF Looked
<1>15. err # Again => scanPos' = 0
  BY <1>1
<1>16. /\ UNCHANGED <<stream, call, from, cptr>>
       /\ pc = "scan"
       /\ start + scanPos \in start .. end
       /\ turn = DeserializeWildcardMatch(stream.enc, stream, buf, start + scanPos, end, call)
  BY <1>1, <1>3, <1>5, <1>6
<1>17. \/ /\ err = Again /\ d.err = Success
          /\ Consumed' = Consumed
          /\ Looked' = EndOf(stream, d.item)
          /\ UNCHANGED <<pc, ret>>
       \/ /\ err = Success /\ d.err = Success
          /\ Consumed' = EndOf(stream, d.item)
          /\ scanPos' = 0
          /\ pc' = "idle" /\ ret'.err = Success /\ ret'.ts = d.ts /\ ret'.index = turn.index
       \/ /\ err \notin {Again, Success}
          /\ Consumed' = Consumed
          /\ scanPos' = 0
          /\ \/ pc' = "fill"
             \/ pc' \in {"idle", "failed"} /\ ret'.err = err /\ err # IncompleteIr
  BY <1>5, <1>8, <1>12, <1>13, <1>14, <1>15 DEF Again, Success
<1>18. wasted' = (wasted \/ (err \notin {Again, Success} /\ (scanPos > 0 \/ d.err = Success)))
  BY <1>1
<1>19. d.err = Success =>
              /\ d.item \in 2 .. Count(stream)
              /\ stream.items[d.item].kind = "event"
              /\ d.ts = DecodedTimestamp(stream.enc, stream, d.item)
              /\ Looked = EndOf(stream, d.item - 1)
              /\ mMsg' = d.item
              /\ mTimestamp' = d.ts
  BY <1>7, <1>9, <1>11
<1>20. ScanStep(turn)
  BY <1>10, <1>16, <1>17, <1>18, <1>19 DEF ScanStep, d, err
<1>21. QED
  BY <1>20 DEF turn, at

(* Where the methods stand: NewReaderSize before the preamble, all others  *)
(* behind it, and in the scanning loop only with something to scan.        *)
Phase ==
    /\ pc \in {"open", "preamble"} => call = NewCall
    /\ pc \in {"deser", "scan"} => call # NewCall
    /\ pc = "scan" => Scanning /\ cptr /\ 2 <= Count(stream)
    /\ (pc = "idle" \/ call # NewCall) => EndOf(stream, 1) <= Consumed

LEMMA ReadKeepsConsumed ==
    ASSUME Inv, NEW b, NEW n \in Nat, NEW c, start' = 0, ReadInto(b, end - start, c, n)
    PROVE  Consumed' = Consumed
<1>1. /\ Consumed \in Nat /\ start \in Nat /\ end \in Nat /\ delivered \in Nat
  BY ConsumedType DEF Inv
<1>2. end' = end - start + n /\ delivered' = delivered + n
  BY DEF ReadInto
<1>3. QED
  BY <1>1, <1>2 DEF Consumed

LEMMA FirstReadIdles ==
    ASSUME Inv, Phase, NEW n \in 0 .. stream.len, FirstRead(n)
    PROVE  IdleStep
<1>1. /\ pc = "open" /\ call = NewCall
      /\ UNCHANGED <<stream, desVars, scanPos, call, from, wasted>>
      /\ ReadInto(buf, end, cap, n) /\ ReadOutcome("preamble")
  BY DEF FirstRead, Phase, ReadInto
<1>2. start = 0 /\ start' = 0 /\ end - start = end
  BY ConsumedType DEF FirstRead, Inv, Unconsumed
<1>3. n \in Nat
  BY ConsumedType DEF Inv
<1>4. Consumed' = Consumed
  BY <1>1, <1>2, <1>3, ReadKeepsConsumed
<1>5. \/ pc' = "preamble"
      \/ pc' = "failed" /\ ret'.err = IoError
  BY <1>1 DEF ReadOutcome, Fail, Failure
<1>6. QED
  BY <1>1, <1>4, <1>5 DEF IdleStep, desVars

LEMMA FillBufIdles ==
    ASSUME Inv, NEW n \in 0 .. stream.len, FillBuf(n)
    PROVE  IdleStep
<1> DEFINE next == IF call = NewCall THEN "preamble" ELSE "deser"
<1>1. /\ pc = "fill"
      /\ UNCHANGED <<stream, desVars, scanPos, call, from, wasted>>
      /\ ReadOutcome(next)
  BY DEF FillBuf, ReadInto
<1>2. Consumed' = Consumed
  <2>1. n \in Nat /\ start' = 0
    BY ConsumedType DEF Inv, FillBuf
  <2>2. ReadInto(Shifted, end - start, IF Grows THEN 2 * cap ELSE cap, n)
    BY DEF FillBuf
  <2>3. QED
    BY <2>1, <2>2, ReadKeepsConsumed
<1>3. \/ pc' = next
      \/ pc' = (IF call = NewCall THEN "failed" ELSE "idle") /\ ret'.err = IoError
  BY <1>1 DEF ReadOutcome, Fail, Failure
<1>4. UNCHANGED <<stream, mTimestamp, mMsg, wasted, scanPos, call, from, cptr>>
  BY <1>1 DEF desVars
<1>5. QED
  BY <1>1, <1>2, <1>3, <1>4 DEF IdleStep

LEMMA BeginIdles ==
    ASSUME Inv, NEW c, c # NewCall, Begin(c)
    PROVE  IdleStep
<1>1. /\ UNCHANGED <<stream, mTimestamp, mMsg, wasted, scanPos, cptr, delivered, start, end>>
      /\ pc = "idle" /\ pc' = "deser" /\ call' # NewCall /\ from' = Consumed
  BY DEF Begin, ioVars, bufVars, desVars
<1>2. Consumed' = Consumed
  BY <1>1 DEF Consumed
<1>3. QED
  BY <1>1, <1>2 DEF IdleStep

LEMMA CloseIdles ==
    ASSUME Inv, Close
    PROVE  IdleStep
<1>1. /\ UNCHANGED <<stream, mTimestamp, mMsg, wasted, scanPos, delivered, start, end>>
      /\ UNCHANGED <<pc, call, ret, from>> /\ pc = "idle" /\ ~cptr'
  BY DEF Close, DesClose, ioVars, bufVars
<1>2. Consumed' = Consumed
  BY <1>1 DEF Consumed
<1>3. QED
  BY <1>1, <1>2 DEF IdleStep

LEMMA EnterScanIdles ==
    ASSUME Inv, Phase, EnterScan
    PROVE  IdleStep
<1>1. /\ UNCHANGED <<stream, mTimestamp, mMsg, wasted, scanPos, cptr, delivered, start, end, call, from>>
      /\ pc = "deser" /\ Scanning /\ call # NewCall
  BY DEF EnterScan, ioVars, bufVars, desVars, Phase
<1>2. Consumed' = Consumed
  BY <1>1 DEF Consumed
<1>3. CASE start = end
  <2>1. pc' = "fill"
    BY <1>3 DEF EnterScan
  <2>2. QED
    BY <1>1, <1>2, <2>1 DEF IdleStep
<1>4. CASE start # end /\ ~cptr
  <2>1. Fail(CorruptedIr)
    BY <1>4 DEF EnterScan
  <2>2. pc' = "idle" /\ ret'.err = CorruptedIr
    BY <1>1, <2>1 DEF Fail, Failure
  <2>3. QED
    BY <1>1, <1>2, <1>4, <2>2 DEF IdleStep
<1>5. CASE start # end /\ cptr
  <2>1. pc' = "scan" /\ cptr'
    BY <1>1, <1>5 DEF EnterScan
  <2>2. Consumed < delivered
    BY <1>5, ConsumedType DEF Inv, Consumed
  <2>3. QED
    BY <1>1, <1>2, <2>1, <2>2 DEF IdleStep
<1>6. QED
  BY <1>3, <1>4, <1>5

LEMMA TryPreambleSteps ==
    ASSUME Inv, Phase, TryPreamble
    PROVE  PreambleStep
<1> DEFINE r == PreambleResult(stream, buf, start, end)
           d == DecodePreamble(stream, buf, start, end)
<1>1. /\ UNCHANGED <<stream, delivered, buf, cap, end, call, scanPos, from, wasted>>
      /\ start' = r.pos /\ pc = "preamble" /\ call = NewCall
      /\ PreambleEffect(stream, buf, start, end)
  BY DEF TryPreamble, ioVars, Phase
<1>2. start = 0 /\ scanPos = 0
  BY <1>1 DEF Inv, Unconsumed, ScanInRange
<1>3. /\ Consumed \in Nat /\ start \in Nat /\ end \in Nat /\ delivered \in Nat /\ start <= end
  BY ConsumedType DEF Inv
<1>4. \/ /\ r.err = Success
         /\ r.pos = Width(stream, 1)
         /\ HoldsItem(stream, buf, start, end, 1)
      \/ r.err # Success /\ r.pos = 0
  BY PreambleFacts DEF Inv
<1>5. CASE r.err = Success
  <2>1. start # end /\ d.err = Success /\ MetadataError(stream.meta) = Success
    BY <1>5 DEF PreambleResult, IncompleteIr, Success
  <2>2. mTimestamp' = ReferenceTs(stream)
    BY <1>1, <2>1 DEF PreambleEffect
  <2>3. stream.meta \in {"ok", "noRef"}
    <3>1. stream.meta \in Metas
      BY StreamsAssumption DEF Inv, TypeOK, IsStream
    <3>2. QED
      BY <2>1, <3>1 DEF Metas, MetadataError, Success, UnsupportedVersion, JsonError
  <2>4. pc' = "idle"
    BY <1>5 DEF TryPreamble, Return, IncompleteIr, Success
  <2>5. 1 \in 1 .. Count(stream) /\ start \in start .. end
    BY <1>3, LookedType
  <2>6. /\ Width(stream, 1) \in Nat
        /\ start + Width(stream, 1) <= end
        /\ Consumed + (start - start) = EndOf(stream, 1 - 1)
        /\ Consumed + (start - start) + Width(stream, 1) = EndOf(stream, 1)
    BY <1>4, <1>5, <2>5, RecognisedItem DEF Inv
  <2>7. EndOf(stream, 1 - 1) = 0
    BY DEF EndOf
  <2>8. Consumed = 0 /\ start' = Width(stream, 1) /\ Consumed + Width(stream, 1) = EndOf(stream, 1)
    BY <1>1, <1>3, <1>4, <1>5, <2>6, <2>7
  <2>9. Consumed' = Consumed + Width(stream, 1)
    BY <1>1, <1>2, <1>3, <2>6, <2>8 DEF Consumed
  <2>10. QED
    BY <1>1, <1>2, <2>2, <2>3, <2>4, <2>8, <2>9 DEF PreambleStep
<1>6. CASE r.err # Success
  <2>1. start' = start
    BY <1>1, <1>2, <1>4, <1>6
  <2>2. Consumed' = Consumed
    BY <1>1, <2>1 DEF Consumed
  <2>3. UNCHANGED <<cptr, mTimestamp>> \/ ~cptr'
    <3>1. CASE start # end /\ d.err = Success
      <4>1. MetadataError(stream.meta) # Success
        BY <1>6, <3>1 DEF PreambleResult
      <4>2. QED
        BY <1>1, <3>1, <4>1 DEF PreambleEffect
    <3>2. CASE ~(start # end /\ d.err = Success)
      BY <1>1, <3>2 DEF PreambleEffect, desVars
    <3>3. QED
      BY <3>1, <3>2
  <2>4. pc' \in {"fill", "failed"}
    <3>1. r.err = IncompleteIr => pc' = "fill"
      BY <1>6 DEF TryPreamble
    <3>2. r.err # IncompleteIr => Fail(r.err)
      BY <1>6 DEF TryPreamble
    <3>3. QED
      BY <1>1, <3>1, <3>2 DEF Fail
  <2>5. QED
    BY <1>1, <1>2, <2>2, <2>3, <2>4 DEF PreambleStep
<1>7. QED
  BY <1>5, <1>6

(* Every step is one of these. *)
Decoded == LogEventResult(stream, buf, start, end)
Turn    == ScanResult(stream, buf, start + scanPos, end, call)

LEMMA Steps ==
    ASSUME Inv, Phase, [Next]_vars
    PROVE  \/ IdleStep
           \/ pc = "preamble" /\ PreambleStep
           \/ pc = "deser" /\ ~Scanning /\ ReadStep(Decoded)
           \/ ScanStep(Turn)
<1>1. CASE Read
  BY <1>1, BeginIdles DEF Read, ReadCall, NewCall
<1>2. CASE ReadToFunc
  <2>1. PICK f \in Filters : Begin(FuncCall(f))
    BY <1>2 DEF ReadToFunc
  <2>2. FuncCall(f).op # NewCall.op
    BY DEF FuncCall, NewCall
  <2>3. QED
    BY <2>1, <2>2, BeginIdles
<1>3. CASE ReadToWildcardMatch
  <2>1. PICK q \in QueryLists : Begin(ScanCall("matchAll", q, WholeIr))
    BY <1>3 DEF ReadToWildcardMatch
  <2>2. ScanCall("matchAll", q, WholeIr).op # NewCall.op
    BY DEF ScanCall, NewCall
  <2>3. QED
    BY <2>1, <2>2, BeginIdles
<1>4. CASE ReadToWildcardMatchWithTimeInterval
  <2>1. PICK q \in QueryLists, i \in Intervals : Begin(ScanCall("match", q, i))
    BY <1>4 DEF ReadToWildcardMatchWithTimeInterval
  <2>2. ScanCall("match", q, i).op # NewCall.op
    BY DEF ScanCall, NewCall
  <2>3. QED
    BY <2>1, <2>2, BeginIdles
<1>5. CASE Close
  BY <1>5, CloseIdles
<1>6. CASE DoFirstRead
  BY <1>6, FirstReadIdles DEF DoFirstRead
<1>7. CASE TryPreamble
  BY <1>7, TryPreambleSteps DEF TryPreamble
<1>8. CASE DoFillBuf
  BY <1>8, FillBufIdles DEF DoFillBuf
<1>9. CASE TryRead
  BY <1>9, TryReadSteps DEF TryRead, Decoded
<1>10. CASE EnterScan
  BY <1>10, EnterScanIdles
<1>11. CASE ScanEvent
  BY <1>11, ScanEventSteps DEF Turn
<1>12. CASE UNCHANGED vars
  <2>1. UNCHANGED <<stream, mTimestamp, mMsg, wasted, scanPos, cptr, delivered, start, end, pc, call, ret, from>>
    BY <1>12 DEF vars, desVars, ioVars, bufVars
  <2>2. Consumed' = Consumed
    BY <2>1 DEF Consumed
  <2>3. QED
    BY <2>1, <2>2 DEF IdleStep
<1>13. QED
  BY <1>1, <1>2, <1>3, <1>4, <1>5, <1>6, <1>7, <1>8, <1>9, <1>10, <1>11, <1>12
     DEF Next, Method, Step

-----------------------------------------------------------------------------
(* The inductive invariant of this module: besides where the methods stand *)
(* and what timestamp the decoder is at, whatever lies between the last    *)
(* consumed item and the place a scan has got to are events.               *)

Scanned ==
    \A k \in 1 .. Count(stream) :
        Consumed < EndOf(stream, k) /\ EndOf(stream, k) <= Looked
            => stream.items[k].kind = "event"

EventsInv == Inv /\ Phase /\ Scanned /\ Exact /\ TimestampExactWhenTrusted

LEMMA PhaseInit == Init => Phase
<1> SUFFICES ASSUME Init PROVE Phase
  OBVIOUS
<1>1. pc = "open" /\ call = NewCall
  BY DEF Init
<1>2. QED
  BY <1>1 DEF Phase

LEMMA PhaseNext ==
    ASSUME Inv, Phase, [Next]_vars
    PROVE  Phase'
<1>1. /\ Consumed \in Nat /\ Count(stream) \in Nat \ {0}
      /\ \A j \in 0 .. Count(stream) : EndOf(stream, j) \in Nat
      /\ 1 \in 0 .. Count(stream)
  BY LookedType
<1>2. CASE IdleStep
  <2>1. stream' = stream /\ Consumed' = Consumed /\ (cptr' => cptr)
    BY <1>2 DEF IdleStep
  <2>2. CASE UNCHANGED <<pc, call, ret, from>> /\ (pc = "idle" \/ cptr' = cptr)
    BY <2>1, <2>2 DEF Phase, Scanning
  <2>3. CASE pc = "idle" /\ pc' = "deser" /\ call' # NewCall
    BY <2>1, <2>3 DEF Phase
  <2>4. CASE pc = "deser" /\ Scanning /\ UNCHANGED call /\ pc' \in {"fill", "idle"}
    BY <2>1, <2>4 DEF Phase
  <2>5. CASE /\ pc = "deser" /\ Scanning /\ UNCHANGED call
             /\ pc' = "scan" /\ cptr' /\ Consumed < delivered
    <3>1. EndOf(stream, 1) <= Consumed
      BY <2>5 DEF Phase
    <3>2. delivered <= EndOf(stream, Count(stream)) /\ delivered \in Nat
      <4>1. IsStream(stream, Messages) /\ delivered \in 0 .. stream.len
        BY StreamsAssumption DEF Inv, TypeOK
      <4>2. stream.len \in 0 .. EndOf(stream, Count(stream))
        BY <4>1 DEF IsStream
      <4>3. EndOf(stream, Count(stream)) \in Nat
        BY <1>1
      <4>4. QED
        BY <4>1, <4>2, <4>3
    <3>3. EndOf(stream, 1) # EndOf(stream, Count(stream))
      BY <1>1, <2>5, <3>1, <3>2
    <3>4. 2 <= Count(stream)
      BY <1>1, <3>3
    <3>5. QED
      BY <2>1, <2>5, <3>4 DEF Phase, Scanning
  <2>6. CASE /\ pc \in {"open", "fill"} /\ UNCHANGED call
             /\ \/ pc' = (IF call = NewCall THEN "preamble" ELSE "deser")
                \/ pc' = (IF call = NewCall THEN "failed" ELSE "idle")
    <3>1. call = NewCall => pc' \in {"preamble", "failed"}
      BY <2>6
    <3>2. call # NewCall => pc' \in {"deser", "idle"}
      BY <2>6
    <3>3. QED
      BY <2>1, <2>6, <3>1, <3>2 DEF Phase
  <2>7. QED
    BY <1>2, <2>2, <2>3, <2>4, <2>5, <2>6 DEF IdleStep
<1>3. CASE pc = "preamble" /\ PreambleStep
  <2>1. stream' = stream /\ call' = call /\ call = NewCall /\ pc' \in {"idle", "fill", "failed"}
    BY <1>3 DEF PreambleStep, Phase
  <2>2. pc' = "idle" => Consumed' = EndOf(stream, 1)
    BY <1>3 DEF PreambleStep
  <2>3. EndOf(stream, 1) \in Nat
    BY <1>1
  <2>4. QED
    BY <2>1, <2>2, <2>3 DEF Phase
<1>4. CASE pc = "deser" /\ ~Scanning /\ ReadStep(Decoded)
  <2> DEFINE r == Decoded
  <2>1. stream' = stream /\ call' = call /\ call # NewCall /\ pc' \in {"deser", "idle", "fill", "failed"}
    BY <1>4 DEF ReadStep, Phase
  <2>2. EndOf(stream, 1) <= Consumed
    BY <2>1 DEF Phase
  <2>3. EndOf(stream, 1) <= Consumed'
    <3>1. CASE Consumed' = Consumed
      BY <2>2, <3>1
    <3>2. CASE r.item \in 2 .. Count(stream) /\ Consumed' = EndOf(stream, r.item)
      <4>1. r.item \in 0 .. Count(stream) /\ 1 < r.item
        BY <1>1, <3>2
      <4>2. EndOf(stream, 1) < EndOf(stream, r.item)
        BY <1>1, <4>1, StreamEnds DEF Inv
      <4>3. EndOf(stream, 1) \in Nat /\ EndOf(stream, r.item) \in Nat
        BY <1>1, <4>1
      <4>4. QED
        BY <3>2, <4>2, <4>3
    <3>3. QED
      BY <1>4, <3>1, <3>2 DEF ReadStep
  <2>4. QED
    BY <2>1, <2>3 DEF Phase
<1>5. CASE ScanStep(Turn)
  <2> DEFINE d == Turn.event
  <2>1. /\ stream' = stream /\ call' = call /\ cptr' = cptr /\ pc = "scan"
        /\ pc' \in {"scan", "idle", "fill", "failed"}
    BY <1>5 DEF ScanStep
  <2>2. call # NewCall /\ Scanning /\ cptr /\ 2 <= Count(stream) /\ EndOf(stream, 1) <= Consumed
    BY <2>1 DEF Phase
  <2>3. EndOf(stream, 1) <= Consumed'
    <3>1. CASE Consumed' = Consumed
      BY <2>2, <3>1
    <3>2. CASE d.item \in 2 .. Count(stream) /\ Consumed' = EndOf(stream, d.item)
      <4>1. d.item \in 0 .. Count(stream) /\ 1 < d.item
        BY <1>1, <3>2
      <4>2. EndOf(stream, 1) < EndOf(stream, d.item)
        BY <1>1, <4>1, StreamEnds DEF Inv
      <4>3. EndOf(stream, 1) \in Nat /\ EndOf(stream, d.item) \in Nat
        BY <1>1, <4>1
      <4>4. QED
        BY <3>2, <4>2, <4>3
    <3>3. QED
      BY <1>5, <3>1, <3>2 DEF ScanStep
  <2>4. QED
    BY <2>1, <2>2, <2>3 DEF Phase, Scanning
<1>6. QED
  BY <1>2, <1>3, <1>4, <1>5, Steps

LEMMA ScannedNext ==
    ASSUME Inv, Phase, Scanned, [Next]_vars
    PROVE  Scanned'
<1>1. /\ Consumed \in Nat /\ scanPos \in Nat /\ Count(stream) \in Nat \ {0}
      /\ \A j \in 0 .. Count(stream) : EndOf(stream, j) \in Nat
  BY LookedType
<1>2. stream' = stream /\ Inv'
  BY InvNext, Steps DEF IdleStep, PreambleStep, ReadStep, ScanStep
<1>3. CASE scanPos' = 0
  <2>1. Consumed' \in Nat /\ Looked' = Consumed'
    <3>1. Consumed' \in Nat
      BY <1>1, <1>2 DEF Inv, OnItemBoundary
    <3>2. Looked' = Consumed' + 0
      BY <1>3 DEF Looked
    <3>3. \A c \in Nat : c + 0 = c
      OBVIOUS
    <3>4. QED
      BY <3>1, <3>2, <3>3
  <2>2. SUFFICES ASSUME NEW k \in 1 .. Count(stream),
                        Consumed' < EndOf(stream, k), EndOf(stream, k) <= Looked'
                 PROVE  FALSE
    BY <1>2 DEF Scanned
  <2>3. EndOf(stream, k) \in Nat
    BY <1>1
  <2>4. QED
    BY <2>1, <2>2, <2>3
<1>4. CASE Consumed' = Consumed /\ scanPos' = scanPos
  BY <1>2, <1>4 DEF Scanned, Looked
<1>5. CASE ScanStep(Turn) /\ Consumed' = Consumed /\ Turn.event.err = Success
           /\ Looked' = EndOf(stream, Turn.event.item)
  <2> DEFINE j == Turn.event.item
  <2>1. /\ j \in 2 .. Count(stream)
        /\ stream.items[j].kind = "event"
        /\ Looked = EndOf(stream, j - 1)
        /\ Looked' = EndOf(stream, j)
    BY <1>5 DEF ScanStep
  <2> HIDE DEF j
  <2>2. SUFFICES ASSUME NEW k \in 1 .. Count(stream),
                        Consumed < EndOf(stream, k), EndOf(stream, k) <= EndOf(stream, j)
                 PROVE  stream.items[k].kind = "event"
    BY <1>2, <1>5, <2>1 DEF Scanned
  <2>3. k \in 0 .. Count(stream) /\ j \in 0 .. Count(stream) /\ j - 1 \in 0 .. Count(stream)
    BY <1>1, <2>1
  <2>4. CASE k = j
    BY <2>1, <2>4
  <2>5. CASE k # j
    <3>1. EndOf(stream, k) \in Nat /\ EndOf(stream, j) \in Nat
      BY <1>1, <2>3
    <3>2. k < j
      <4>1. j < k => EndOf(stream, j) < EndOf(stream, k)
        BY <2>3, StreamEnds DEF Inv
      <4>2. QED
        BY <2>1, <2>2, <2>5, <3>1, <4>1
    <3>3. j \in 1 .. Count(stream)
      BY <1>1, <2>1
    <3>4. EndOf(stream, k) <= Looked
      BY <2>1, <2>3, <3>2, <3>3, EndBefore DEF Inv
    <3>5. QED
      BY <2>2, <3>4 DEF Scanned
  <2>6. QED
    BY <2>4, <2>5
<1>6. QED
  BY <1>3, <1>4, <1>5, Steps DEF IdleStep, PreambleStep, ReadStep, ScanStep

(* The timestamp of an event just decoded, if timestamps can be trusted. *)
LEMMA ReadExact ==
    ASSUME Inv, Exact, Trusted, ReadStep(Decoded), Decoded.err = Success
    PROVE  Decoded.ts = stream.items[Decoded.item].ts
BY DecodedRight DEF ReadStep

LEMMA ScanExact ==
    ASSUME Inv, Phase, Exact, Trusted, ScanStep(Turn), Turn.event.err = Success
    PROVE  Turn.event.ts = stream.items[Turn.event.item].ts
<1>1. cptr
  BY DEF ScanStep, Phase
<1>2. QED
  BY <1>1, DecodedRight DEF ScanStep

LEMMA ExactNext ==
    ASSUME Inv, Phase, Exact, [Next]_vars
    PROVE  Exact'
<1>1. /\ Consumed \in Nat /\ scanPos \in Nat /\ Count(stream) \in Nat \ {0}
      /\ \A j \in 0 .. Count(stream) : EndOf(stream, j) \in Nat
  BY LookedType
<1>2. stream' = stream
  BY Steps DEF IdleStep, PreambleStep, ReadStep, ScanStep
<1>3. CASE wasted' = wasted /\ (cptr' => cptr) /\ mTimestamp' = mTimestamp /\ Looked' = Looked
  BY <1>2, <1>3 DEF Exact
<1>4. CASE IdleStep
  BY <1>3, <1>4 DEF IdleStep, Looked
<1>5. CASE PreambleStep
  <2>1. CASE ~cptr'
    BY <2>1 DEF Exact
  <2>2. CASE Consumed' = Consumed /\ UNCHANGED <<cptr, mTimestamp>>
    BY <1>3, <1>5, <2>2 DEF PreambleStep, Looked
  <2>3. CASE /\ stream.meta \in {"ok", "noRef"}
             /\ Consumed' = EndOf(stream, 1)
             /\ mTimestamp' = ReferenceTs(stream)
    <3>1. 1 \in 0 .. Count(stream)
      BY <1>1
    <3>2. Looked' = EndOf(stream, 1)
      <4>1. scanPos' = 0 /\ EndOf(stream, 1) \in Nat
        BY <1>1, <1>5, <3>1 DEF PreambleStep
      <4>2. QED
        BY <2>3, <4>1 DEF Looked
    <3>3. \A p \in 1 .. Count(stream) : EndOf(stream, p) = Looked' => p = 1
      <4>1. \A p \in 1 .. Count(stream) : p \in 0 .. Count(stream)
        BY <1>1
      <4>2. QED
        BY <3>1, <3>2, <4>1, StreamEnds DEF Inv
    <3>4. stream.enc = "four" => mTimestamp' = stream.items[1].ts
      <4>1. stream.meta = "noRef" => stream.items[1].ts = 0
        BY StreamsAssumption DEF Inv, TypeOK, IsStream
      <4>2. QED
        BY <2>3, <4>1 DEF ReferenceTs
    <3>5. QED
      BY <1>2, <3>3, <3>4 DEF Exact
  <2>4. QED
    BY <1>5, <2>1, <2>2, <2>3 DEF PreambleStep
<1>6. ASSUME NEW j \in 1 .. Count(stream), Looked' = EndOf(stream, j),
             (stream.enc = "four" /\ ~wasted') => mTimestamp' = stream.items[j].ts
      PROVE  Exact'
  <2>1. \A p \in 1 .. Count(stream) : p \in 0 .. Count(stream)
    BY <1>1
  <2>2. \A p \in 1 .. Count(stream) : EndOf(stream, p) = Looked' => p = j
    BY <1>6, <2>1, StreamEnds DEF Inv
  <2>3. QED
    BY <1>2, <1>6, <2>2 DEF Exact
<1>7. CASE ReadStep(Decoded)
  <2> DEFINE r == Decoded
  <2>1. CASE r.err # Success
    BY <1>3, <1>7, <2>1 DEF ReadStep, Looked
  <2>2. CASE r.err = Success
    <3>1. /\ r.item \in 2 .. Count(stream)
          /\ Consumed' = EndOf(stream, r.item) /\ scanPos' = 0
          /\ mTimestamp' = r.ts /\ wasted' = wasted
      BY <1>7, <2>2 DEF ReadStep
    <3>2. r.item \in 1 .. Count(stream)
      BY <1>1, <3>1
    <3>3. Looked' = EndOf(stream, r.item)
      <4>1. EndOf(stream, r.item) \in Nat
        BY <1>1, <3>2
      <4>2. QED
        BY <3>1, <4>1 DEF Looked
    <3>4. (stream.enc = "four" /\ ~wasted') => mTimestamp' = stream.items[r.item].ts
      BY <1>7, <2>2, <3>1, ReadExact DEF Trusted
    <3>5. QED
      BY <1>6, <3>2, <3>3, <3>4
  <2>3. QED
    BY <2>1, <2>2
<1>8. CASE ScanStep(Turn)
  <2> DEFINE d == Turn.event
             err == Turn.err
  <2>1. CASE d.err = Success /\ err \in {Again, Success}
    <3>1. /\ d.item \in 2 .. Count(stream)
          /\ mTimestamp' = d.ts /\ (wasted => wasted')
      BY <1>8, <2>1 DEF ScanStep
    <3>2. d.item \in 1 .. Count(stream)
      BY <1>1, <3>1
    <3>3. Looked' = EndOf(stream, d.item)
      <4>1. EndOf(stream, d.item) \in Nat
        BY <1>1, <3>2
      <4>2. \/ Looked' = EndOf(stream, d.item)
            \/ Consumed' = EndOf(stream, d.item) /\ scanPos' = 0
        BY <1>8, <2>1 DEF ScanStep, Again, Success
      <4>3. QED
        BY <4>1, <4>2 DEF Looked
    <3>4. (stream.enc = "four" /\ ~wasted') => mTimestamp' = stream.items[d.item].ts
      BY <1>8, <2>1, <3>1, ScanExact DEF Trusted
    <3>5. QED
      BY <1>6, <3>2, <3>3, <3>4
  <2>2. CASE err \notin {Again, Success} /\ (d.err = Success \/ scanPos > 0)
    <3>1. wasted'
      BY <1>8, <2>2 DEF ScanStep
    <3>2. QED
      BY <3>1 DEF Exact
  <2>3. CASE err \notin {Again, Success} /\ d.err # Success /\ ~(scanPos > 0)
    <3>1. scanPos = 0
      BY <1>1, <2>3
    <3>2. /\ cptr' = cptr /\ mTimestamp' = mTimestamp
          /\ Consumed' = Consumed /\ scanPos' = 0
      BY <1>8, <2>3 DEF ScanStep
    <3>3. wasted' = wasted
      <4>1. wasted \in BOOLEAN /\ wasted' = (wasted \/ (scanPos > 0 \/ d.err = Success))
        BY <1>8, <2>3 DEF ScanStep, Inv, TypeOK
      <4>2. QED
        BY <2>3, <4>1
    <3>4. QED
      BY <1>3, <3>1, <3>2, <3>3 DEF Looked
  <2>4. err \in {Again, Success} => d.err = Success
    BY <1>8 DEF ScanStep
  <2>5. QED
    BY <2>1, <2>2, <2>3, <2>4
<1>9. QED
  BY <1>4, <1>5, <1>7, <1>8, Steps

LEMMA TimestampNext ==
    ASSUME EventsInv, [Next]_vars
    PROVE  TimestampExactWhenTrusted'
<1> USE DEF EventsInv
<1>1. SUFFICES ASSUME Trusted', pc' = "idle", call' # NewCall, ret'.err = Success
               PROVE  ret'.ts = stream'.items[mMsg'].ts
  BY DEF TimestampExactWhenTrusted, TimestampExact
<1>2. CASE IdleStep
  <2>1. stream' = stream /\ mMsg' = mMsg /\ Trusted
    BY <1>1, <1>2 DEF IdleStep, Trusted
  <2>2. UNCHANGED <<pc, call, ret>>
    BY <1>1, <1>2 DEF IdleStep, Success, IoError, CorruptedIr
  <2>3. QED
    BY <1>1, <2>1, <2>2 DEF TimestampExactWhenTrusted, TimestampExact
<1>3. CASE pc = "preamble" /\ PreambleStep
  BY <1>1, <1>3 DEF PreambleStep, Phase
<1>4. CASE pc = "deser" /\ ReadStep(Decoded)
  <2>1. /\ stream' = stream /\ mMsg' = Decoded.item /\ ret'.ts = Decoded.ts
        /\ Decoded.err = Success
    BY <1>1, <1>4 DEF ReadStep
  <2>2. Trusted
    BY <1>1, <1>4 DEF ReadStep, Trusted
  <2>3. QED
    BY <1>4, <2>1, <2>2, ReadExact
<1>5. CASE ScanStep(Turn)
  <2>1. /\ stream' = stream /\ mMsg' = Turn.event.item /\ ret'.ts = Turn.event.ts
        /\ Turn.event.err = Success
    BY <1>1, <1>5 DEF ScanStep
  <2>2. Trusted
    BY <1>1, <1>5 DEF ScanStep, Trusted
  <2>3. QED
    BY <1>5, <2>1, <2>2, ScanExact
<1>6. QED
  BY <1>2, <1>3, <1>4, <1>5, Steps

LEMMA OrderStep ==
    ASSUME EventsInv, [Next]_vars, Consumed' # Consumed
    PROVE  ConsumesOneRun
<1> USE DEF EventsInv
<1>1. /\ Consumed \in Nat /\ scanPos \in Nat /\ Count(stream) \in Nat \ {0}
      /\ \A j \in 0 .. Count(stream) : EndOf(stream, j) \in Nat
  BY LookedType
<1>2. CASE pc = "preamble" /\ PreambleStep
  <2>1. Consumed = 0 /\ Consumed' = EndOf(stream, 1) /\ call = NewCall
    BY <1>2 DEF PreambleStep, Phase
  <2>2. 0 \in 0 .. Count(stream) /\ 1 \in 0 .. Count(stream) /\ 0 < 1 /\ Consumed = EndOf(stream, 0)
    BY <1>1, <2>1 DEF EndOf
  <2>3. QED
    BY <2>1, <2>2 DEF ConsumesOneRun
<1>3. CASE pc = "deser" /\ ReadStep(Decoded)
  <2> DEFINE j == Decoded.item
  <2>1. /\ j \in 2 .. Count(stream)
        /\ stream.items[j].kind = "event"
        /\ Looked = EndOf(stream, j - 1) /\ scanPos = 0
        /\ Consumed' = EndOf(stream, j)
        /\ mMsg' = j
    BY <1>3 DEF ReadStep
  <2> HIDE DEF j
  <2>2. j \in 0 .. Count(stream) /\ j - 1 \in 0 .. Count(stream) /\ j - 1 < j
        /\ (j - 1) + 1 .. j = {j}
    BY <1>1, <2>1
  <2>3. Consumed = EndOf(stream, j - 1)
    BY <1>1, <2>1 DEF Looked
  <2>4. call # NewCall
    BY <1>3 DEF Phase
  <2>5. j = (j - 1) + 1
    BY <2>1
  <2>6. QED
    BY <2>1, <2>2, <2>3, <2>4, <2>5 DEF ConsumesOneRun
<1>4. CASE ScanStep(Turn)
  <2> DEFINE j == Turn.event.item
  <2>1. /\ j \in 2 .. Count(stream)
        /\ stream.items[j].kind = "event"
        /\ Looked = EndOf(stream, j - 1)
        /\ Consumed' = EndOf(stream, j)
        /\ mMsg' = j
    BY <1>4 DEF ScanStep
  <2> HIDE DEF j
  <2>2. PICK i \in 0 .. Count(stream) : Consumed = EndOf(stream, i)
    BY DEF Inv, OnItemBoundary
  <2>3. j \in 0 .. Count(stream) /\ j - 1 \in 0 .. Count(stream) /\ j \in 1 .. Count(stream)
    BY <1>1, <2>1
  <2>4. i < j
    <3>1. ~(j - 1 < i)
      <4>1. j - 1 < i => EndOf(stream, j - 1) < EndOf(stream, i)
        BY <2>3, StreamEnds DEF Inv
      <4>2. Consumed <= Looked
        BY <1>1 DEF Looked
      <4>3. EndOf(stream, i) \in Nat /\ EndOf(stream, j - 1) \in Nat
        BY <1>1, <2>3
      <4>4. QED
        BY <2>1, <2>2, <4>1, <4>2, <4>3
    <3>2. QED
      BY <1>1, <2>1, <2>2, <3>1
  <2>5. ASSUME NEW k \in i + 1 .. j PROVE stream.items[k].kind = "event"
    <3>1. k \in 1 .. Count(stream) /\ k \in 0 .. Count(stream) /\ i < k
      BY <1>1, <2>1, <2>2
    <3>2. CASE k = j
      BY <2>1, <3>2
    <3>3. CASE k # j
      <4>1. k < j
        BY <2>1, <3>1, <3>3
      <4>2. EndOf(stream, k) <= Looked
        BY <2>1, <2>3, <3>1, <4>1, EndBefore DEF Inv
      <4>3. Consumed < EndOf(stream, k)
        BY <2>2, <3>1, StreamEnds DEF Inv
      <4>4. QED
        BY <3>1, <4>2, <4>3 DEF Scanned
    <3>4. QED
      BY <3>2, <3>3
  <2>6. call # NewCall /\ Scanning
    BY <1>4 DEF ScanStep, Phase
  <2>7. QED
    BY <2>1, <2>2, <2>3, <2>4, <2>5, <2>6 DEF ConsumesOneRun
<1>5. ~IdleStep
  BY DEF IdleStep
<1>6. QED
  BY <1>2, <1>3, <1>4, <1>5, Steps

LEMMA EventsInit == Init => EventsInv
<1> SUFFICES ASSUME Init PROVE EventsInv
  OBVIOUS
<1>1. Inv /\ Phase
  BY InvInit, PhaseInit
<1>2. Scanned
  <2>1. Looked = Consumed
    BY <1>1, LookedType DEF Init, Looked
  <2>2. SUFFICES ASSUME NEW k \in 1 .. Count(stream),
                        Consumed < EndOf(stream, k), EndOf(stream, k) <= Looked
                 PROVE  FALSE
    BY DEF Scanned
  <2>3. Consumed \in Nat /\ EndOf(stream, k) \in Nat
    BY <1>1, LookedType
  <2>4. QED
    BY <2>1, <2>2, <2>3
<1>3. Exact /\ TimestampExactWhenTrusted
  BY DEF Init, DesInit, Exact, TimestampExactWhenTrusted, TimestampExact
<1>4. QED
  BY <1>1, <1>2, <1>3 DEF EventsInv

LEMMA EventsNext == EventsInv /\ [Next]_vars => EventsInv'
<1> SUFFICES ASSUME EventsInv, [Next]_vars PROVE EventsInv'
  OBVIOUS
<1>1. Inv' /\ Phase' /\ Scanned' /\ Exact'
  BY InvNext, PhaseNext, ScannedNext, ExactNext DEF EventsInv
<1>2. TimestampExactWhenTrusted'
  BY TimestampNext
<1>3. QED
  BY <1>1, <1>2 DEF EventsInv

(* Where the methods of a Reader stand, what a scan has passed, and the    *)
(* timestamp of the native decoder, in every reachable state.              *)
THEOREM EventsInvariant == Spec => []EventsInv
<1>1. QED
  BY EventsInit, EventsNext, PTL DEF Spec

(* A step that consumes input hands out the event that ends what it        *)
(* consumes, and passes over events only in a scan; nothing else consumes. *)
THEOREM ReaderOrder == Spec => EventsInOrder
<1>1. EventsInv /\ [Next]_vars => [Consumed' # Consumed => ConsumesOneRun]_vars
  BY OrderStep
<1>2. QED
  BY <1>1, EventsInvariant, PTL DEF Spec, EventsInOrder

(* The timestamp returned with an event is the one the stream gives it, if *)
(* no scan of four-byte IR has decoded events in vain.                     *)
THEOREM ReaderTimestamps == Spec => []TimestampExactWhenTrusted
<1>1. EventsInv => TimestampExactWhenTrusted
  BY DEF EventsInv
<1>2. QED
  BY <1>1, EventsInvariant, PTL

-----------------------------------------------------------------------------
(* That a call returns the first event it was asked for, or an error that  *)
(* an item ahead of it justifies.  The queries of a scan are merged in Go  *)
(* and split in C++; none is changed on the way.                           *)
LEMMA QueriesSurvive ==
    \A q \in QueryLists : SplitQueries(MergeWildcardQueries(q)) = q
BY SplitUndoesMerge, QueriesAssumption

LEMMA ScanCallFacts ==
    ASSUME TypeOK, Scanning
    PROVE  /\ SplitQueries(call.merged) = call.queries
           /\ call.lower \in Int /\ call.upper \in Int
<1>1. Times \subseteq Int
  BY MaxTimeAssumption DEF Times, MinTime
<1>2. call # NewCall /\ call # ReadCall /\ \A f \in Filters : call # FuncCall(f)
  BY DEF Scanning, NewCall, ReadCall, FuncCall
<1>3. CASE \E q \in QueryLists : call = ScanCall("matchAll", q, WholeIr)
  BY <1>3, MaxTimeAssumption, QueriesSurvive DEF ScanCall, WholeIr
<1>4. CASE \E q \in QueryLists, i \in Intervals : call = ScanCall("match", q, i)
  <2>1. PICK q \in QueryLists, i \in Intervals : call = ScanCall("match", q, i)
    BY <1>4
  <2>2. i \in [lower : Times, upper : Times]
    BY QueriesAssumption
  <2>3. i.lower \in Int /\ i.upper \in Int
    BY <1>1, <2>2
  <2>4. /\ call.queries = q /\ call.merged = MergeWildcardQueries(q)
        /\ call.lower = i.lower /\ call.upper = i.upper
    BY <2>1 DEF ScanCall
  <2>5. SplitQueries(MergeWildcardQueries(q)) = q
    BY QueriesSurvive
  <2>6. QED
    BY <2>3, <2>4, <2>5
<1>5. QED
  BY <1>2, <1>3, <1>4 DEF TypeOK, IsCall

(* At the boundary behind item p the decoder finds item p + 1 or asks for  *)
(* more bytes.                                                             *)
LEMMA NextEventComplete ==
    ASSUME Inv, NEW e, NEW lo \in start .. end, NEW p \in 1 .. Count(stream),
           Consumed + (lo - start) = EndOf(stream, p),
           lo < end \/ 2 <= Count(stream)
    PROVE  LET d == NextEvent(e, stream, buf, lo, end)
           IN  \/ d.err = IncompleteIr
               \/ /\ d.item = p + 1
                  /\ p + 1 \in 2 .. Count(stream)
                  /\ d.err = Outcome(stream.items[p + 1].kind)
<1> DEFINE c == DecodeEvent(stream, buf, lo, end)
<1>1. /\ Consumed \in Nat /\ start \in Nat /\ end \in Nat /\ delivered \in Nat /\ start <= end
      /\ lo \in Nat
  BY ConsumedType DEF Inv
<1>2. /\ Count(stream) \in Nat \ {0}
      /\ \A j \in 0 .. Count(stream) : EndOf(stream, j) \in Nat
      /\ \A j \in 1 .. Count(stream) : Width(stream, j) \in Nat \ {0}
  BY StreamGeometry DEF Inv, TypeOK
<1>3. /\ NextEvent(e, stream, buf, lo, end).err = c.err
      /\ NextEvent(e, stream, buf, lo, end).item = c.item
  BY DEF NextEvent
<1>4. \/ /\ c.item \in 2 .. Count(stream)
         /\ HoldsItem(stream, buf, lo, end, c.item)
         /\ c.err = Outcome(stream.items[c.item].kind)
      \/ c.item = 0
  BY EventFacts DEF Inv
<1>5. \E j \in 2 .. Count(stream) :
         HoldsItem(stream, buf, lo, end, j) \/ HoldsPart(stream, buf, lo, end, j)
  <2>1. CASE lo < end
    <3>1. p < Count(stream)
      <4>1. delivered <= EndOf(stream, Count(stream))
        <5>1. IsStream(stream, Messages) /\ delivered \in 0 .. stream.len
          BY StreamsAssumption DEF Inv, TypeOK
        <5>2. stream.len \in 0 .. EndOf(stream, Count(stream))
          BY <5>1 DEF IsStream
        <5>3. EndOf(stream, Count(stream)) \in Nat
          BY <1>2
        <5>4. QED
          BY <5>1, <5>2, <5>3
      <4>2. Consumed = delivered - (end - start)
        BY DEF Consumed
      <4>3. EndOf(stream, p) < delivered
        BY <1>1, <2>1, <4>2
      <4>4. EndOf(stream, p) # EndOf(stream, Count(stream))
        BY <1>1, <1>2, <4>1, <4>3
      <4>5. QED
        BY <1>2, <4>4
    <3>2. p + 1 \in 2 .. Count(stream) /\ p + 1 \in 1 .. Count(stream) /\ (p + 1) - 1 = p
      BY <1>2, <3>1
    <3>3. ASSUME NEW k \in Nat, lo + k < end
          PROVE  buf[lo + k] = EndOf(stream, (p + 1) - 1) + 1 + k
      <4>1. (lo - start) + k \in 0 .. end - start - 1
        BY <1>1, <3>3
      <4>2. buf[start + ((lo - start) + k)] = Consumed + 1 + ((lo - start) + k)
        BY <4>1 DEF Inv, WindowIsStream
      <4>3. start + ((lo - start) + k) = lo + k
        BY <1>1, <3>3
      <4>4. Consumed + 1 + ((lo - start) + k) = (Consumed + (lo - start)) + 1 + k
        BY <1>1, <3>3
      <4>5. QED
        BY <3>2, <4>2, <4>3, <4>4
    <3>4. Width(stream, p + 1) \in Nat
      BY <1>2, <3>2
    <3>5. CASE lo + Width(stream, p + 1) <= end
      <4>1. HoldsItem(stream, buf, lo, end, p + 1)
        BY <1>1, <3>3, <3>4, <3>5 DEF HoldsItem
      <4>2. QED
        BY <3>2, <4>1
    <3>6. CASE lo + Width(stream, p + 1) > end
      <4>1. HoldsPart(stream, buf, lo, end, p + 1)
        BY <1>1, <3>3, <3>4, <3>6 DEF HoldsPart
      <4>2. QED
        BY <3>2, <4>1
    <3>7. QED
      BY <1>1, <3>4, <3>5, <3>6
  <2>2. CASE lo = end /\ 2 <= Count(stream)
    <3>1. 2 \in 2 .. Count(stream) /\ Width(stream, 2) \in Nat \ {0}
      BY <1>2, <2>2
    <3>2. lo + Width(stream, 2) > end /\ 0 .. end - lo - 1 = {}
      BY <1>1, <2>2, <3>1
    <3>3. HoldsPart(stream, buf, lo, end, 2)
      BY <3>2 DEF HoldsPart
    <3>4. QED
      BY <3>1, <3>3
  <2>3. QED
    BY <1>1, <2>1, <2>2
<1>6. c.item \in 2 .. Count(stream) \/ c.err = IncompleteIr
  BY <1>5, DecodeComplete DEF DecodeEvent
<1>7. CASE c.err = IncompleteIr
  BY <1>3, <1>7
<1>8. CASE c.err # IncompleteIr
  <2> HIDE DEF c
  <2>1. /\ c.item \in 2 .. Count(stream)
        /\ HoldsItem(stream, buf, lo, end, c.item)
        /\ c.err = Outcome(stream.items[c.item].kind)
    BY <1>2, <1>4, <1>6, <1>8
  <2>2. c.item \in 1 .. Count(stream) /\ c.item - 1 \in 0 .. Count(stream) /\ p \in 0 .. Count(stream)
    BY <1>2, <2>1
  <2>3. Consumed + (lo - start) = EndOf(stream, c.item - 1)
    BY <2>1, <2>2, RecognisedItem DEF Inv
  <2>4. p = c.item - 1
    BY <2>2, <2>3, StreamEnds DEF Inv
  <2>5. c.item = p + 1
    BY <1>2, <2>1, <2>4
  <2>6. QED
    BY <1>3, <2>1, <2>5
<1>9. QED
  BY <1>7, <1>8

(* A turn of the scanning loop compares the event with what was asked for. *)
LEMMA TurnFacts ==
    ASSUME Inv, Phase, ScanStep(Turn)
    PROVE  LET d == Turn.event
               message == stream.items[d.item].msg
               hit == /\ InInterval(d.ts, call.lower, call.upper)
                      /\ AnyMatch(message, call.queries)
           IN  /\ Turn.err = Again => ~hit
               /\ Turn.err = Success =>
                     hit /\ Turn.index = MatchIndex(message, call.queries)
               /\ Turn.err \notin {Again, Success} =>
                     \/ Turn.err = d.err /\ d.err # Success
                     \/ /\ Turn.err = QueryNotFound /\ d.err = Success
                        /\ call.upper <= d.ts
<1> DEFINE d == Turn.event
           message == stream.items[d.item].msg
<1>1. Turn = DeserializeWildcardMatch(stream.enc, stream, buf, start + scanPos, end, call)
  BY DEF ScanStep
<1>2. pc = "scan" /\ Scanning
  BY DEF ScanStep, Phase
<1>3. SplitQueries(call.merged) = call.queries /\ call.lower \in Int /\ call.upper \in Int
  BY <1>2, ScanCallFacts DEF Inv
<1>4. d.err = Success => d.ts \in Int
  <2>1. d.err = Success => d.ts \in Times
    BY <1>2, ScanFacts DEF Turn
  <2>2. QED
    BY <2>1, MaxTimeAssumption, SMTT(30) DEF Times, MinTime
<1>5. /\ Turn.err = (CASE d.err # Success -> d.err
                      [] d.err = Success /\ TooLate(d.ts, call) -> QueryNotFound
                      [] d.err = Success /\ ~TooLate(d.ts, call) ->
                           IF TooEarly(d.ts, call) \/ ~AnyMatch(message, call.queries)
                           THEN Again ELSE Success)
      /\ Turn.err = Success => Turn.index = MatchIndex(message, call.queries)
  BY <1>1, <1>3 DEF DeserializeWildcardMatch
<1> HIDE DEF d, message
<1>6. CASE d.err # Success
  <2>1. d.err # Again
    <3>1. start + scanPos \in start .. end /\ d = NextEvent(stream.enc, stream, buf, start + scanPos, end)
      BY <1>1 DEF ScanStep, DeserializeWildcardMatch, d
    <3>2. d.err \in {Success, EndOfIr, CorruptedIr, IncompleteIr}
      BY <3>1, NextEventFacts DEF Inv
    <3>3. QED
      BY <3>2, SMTT(30) DEF Success, EndOfIr, CorruptedIr, IncompleteIr, Again
  <2>2. Turn.err = d.err
    BY <1>5, <1>6
  <2>3. QED
    BY <1>6, <2>1, <2>2 DEF d
<1>7. CASE d.err = Success /\ TooLate(d.ts, call)
  <2>1. Turn.err = QueryNotFound /\ call.upper <= d.ts
    BY <1>5, <1>7 DEF TooLate
  <2>2. Turn.err \notin {Again, Success}
    BY <2>1 DEF QueryNotFound, IncompleteIr, Again, Success
  <2>3. QED
    BY <1>7, <2>1, <2>2 DEF d
<1>8. CASE d.err = Success /\ ~TooLate(d.ts, call)
  <2>1. d.ts < call.upper
    BY <1>3, <1>4, <1>8 DEF TooLate
  <2>2. TooEarly(d.ts, call) <=> ~(call.lower <= d.ts)
    BY <1>3, <1>4, <1>8 DEF TooEarly
  <2>3. Turn.err = IF TooEarly(d.ts, call) \/ ~AnyMatch(message, call.queries) THEN Again ELSE Success
    BY <1>5, <1>8
  <2>4. InInterval(d.ts, call.lower, call.upper) <=> ~TooEarly(d.ts, call)
    BY <2>1, <2>2 DEF InInterval
  <2>5. /\ Turn.err = Again => ~(InInterval(d.ts, call.lower, call.upper) /\ AnyMatch(message, call.queries))
        /\ Turn.err = Success => InInterval(d.ts, call.lower, call.upper) /\ AnyMatch(message, call.queries)
        /\ Turn.err \in {Again, Success}
    BY <2>3, <2>4 DEF Again, Success
  <2>6. QED
    BY <1>5, <2>5 DEF d, message
<1>9. QED
  BY <1>6, <1>7, <1>8

-----------------------------------------------------------------------------
(* While a call runs, nothing it was asked for lies between the place it   *)
(* began at and the place it has got to, and a scan has consumed nothing.  *)

Running == pc \in {"deser", "scan", "fill"} /\ call # NewCall

Passed ==
    (Running /\ Trusted) =>
        \A k \in 1 .. Count(stream) :
            from < EndOf(stream, k) /\ EndOf(stream, k) <= Looked => ~Wanted(k)

ScanFrom == Running /\ Scanning => Consumed = from

AnswersInv == EventsInv /\ Passed /\ ScanFrom /\ FirstWanted /\ HonestError

LEMMA ScanFromNext ==
    ASSUME EventsInv, ScanFrom, [Next]_vars
    PROVE  ScanFrom'
<1> USE DEF EventsInv
<1>1. CASE IdleStep
  <2>1. Consumed' = Consumed
    BY <1>1 DEF IdleStep
  <2>2. CASE pc = "idle" /\ pc' = "deser" /\ from' = Consumed
    BY <2>1, <2>2 DEF ScanFrom
  <2>3. CASE UNCHANGED <<call, from>> /\ pc' = pc
    BY <2>1, <2>3 DEF ScanFrom, Running, Scanning
  <2>4. CASE UNCHANGED <<call, from>> /\ pc = "deser"
    BY <2>1, <2>4 DEF ScanFrom, Running, Scanning
  <2>5. CASE UNCHANGED <<call, from>> /\ pc \in {"open", "fill"}
    BY <2>1, <2>5 DEF ScanFrom, Running, Scanning, Phase
  <2>6. QED
    BY <1>1, <2>2, <2>3, <2>4, <2>5 DEF IdleStep
<1>2. CASE pc = "preamble" /\ PreambleStep
  BY <1>2 DEF PreambleStep, ScanFrom, Running, Phase
<1>3. CASE pc = "deser" /\ ~Scanning /\ ReadStep(Decoded)
  BY <1>3 DEF ReadStep, ScanFrom, Scanning
<1>4. CASE ScanStep(Turn)
  <2>1. pc = "scan" /\ call # NewCall /\ UNCHANGED <<call, from>>
    BY <1>4 DEF ScanStep, Phase
  <2>2. Consumed' = Consumed \/ pc' = "idle"
    BY <1>4 DEF ScanStep
  <2>3. QED
    BY <2>1, <2>2 DEF ScanFrom, Running, Scanning
<1>5. QED
  BY <1>1, <1>2, <1>3, <1>4, Steps

(* Whether an item is wanted depends on the stream and the call alone. *)
LEMMA WantedSame ==
    ASSUME UNCHANGED <<stream, call>>, NEW k
    PROVE  Wanted(k)' <=> Wanted(k)
BY DEF Wanted, Scanning

(* What a decoded event adds to what was passed. *)
LEMMA PassedOne ==
    ASSUME Inv, Passed, Running, Trusted,
           NEW j \in 2 .. Count(stream), Looked = EndOf(stream, j - 1),
           NEW k \in 1 .. Count(stream), from < EndOf(stream, k), k < j
    PROVE  ~Wanted(k)
<1>1. k \in 0 .. Count(stream) /\ j \in 1 .. Count(stream)
  BY LookedType
<1>2. EndOf(stream, k) <= Looked
  BY <1>1, EndBefore DEF Inv
<1>3. QED
  BY <1>2 DEF Passed

LEMMA PassedMore ==
    ASSUME Inv, Passed, Running, Trusted, UNCHANGED <<stream, call, from>>,
           NEW j \in 2 .. Count(stream), Looked = EndOf(stream, j - 1),
           Looked' = EndOf(stream, j), ~Wanted(j)
    PROVE  Passed'
<1>1. SUFFICES ASSUME NEW k \in 1 .. Count(stream),
                      from < EndOf(stream, k), EndOf(stream, k) <= EndOf(stream, j)
               PROVE  ~Wanted(k)
  BY WantedSame DEF Passed
<1>2. CASE k = j
  BY <1>2
<1>3. CASE k < j
  BY <1>1, <1>3, PassedOne
<1>4. CASE j < k
  <2>1. /\ k \in 0 .. Count(stream) /\ j \in 0 .. Count(stream)
        /\ EndOf(stream, k) \in Nat /\ EndOf(stream, j) \in Nat
    BY LookedType
  <2>2. EndOf(stream, j) < EndOf(stream, k)
    BY <1>4, <2>1, StreamEnds DEF Inv
  <2>3. QED
    BY <1>1, <2>1, <2>2
<1>5. Count(stream) \in Nat
  BY LookedType
<1>6. QED
  BY <1>2, <1>3, <1>4, <1>5

LEMMA PassedNext ==
    ASSUME EventsInv, Passed, [Next]_vars
    PROVE  Passed'
<1> USE DEF EventsInv
<1>1. /\ Consumed \in Nat /\ scanPos \in Nat /\ Count(stream) \in Nat \ {0}
      /\ \A j \in 0 .. Count(stream) : EndOf(stream, j) \in Nat
  BY LookedType
<1>2. SUFFICES ASSUME Running', Trusted' PROVE Passed'
  BY DEF Passed
<1>3. CASE Running /\ UNCHANGED <<stream, call, from>> /\ Trusted /\ Looked' = Looked
  BY <1>3, WantedSame DEF Passed
<1>4. CASE IdleStep
  <2>1. stream' = stream /\ Trusted /\ Consumed' = Consumed /\ scanPos' = scanPos
    BY <1>2, <1>4 DEF IdleStep, Trusted
  <2>2. CASE pc = "idle" /\ from' = Consumed
    <3>1. scanPos = 0
      BY <2>2 DEF Inv, ScanInRange
    <3>2. Looked' = Consumed
      BY <1>1, <2>1, <3>1 DEF Looked
    <3>3. SUFFICES ASSUME NEW k \in 1 .. Count(stream),
                          Consumed < EndOf(stream, k), EndOf(stream, k) <= Consumed
                   PROVE  FALSE
      BY <2>1, <2>2, <3>2 DEF Passed
    <3>4. EndOf(stream, k) \in Nat
      BY <1>1
    <3>5. QED
      BY <1>1, <3>3, <3>4
  <2>3. CASE UNCHANGED <<call, from>> /\ Running
    BY <1>3, <2>1, <2>3 DEF Looked
  <2>4. CASE UNCHANGED <<call, from>> /\ ~Running /\ (pc' = pc \/ pc \in {"deser", "open", "fill"})
    BY <1>2, <2>4 DEF Running, Phase
  <2>5. QED
    BY <1>4, <2>2, <2>3, <2>4 DEF IdleStep
<1>5. CASE pc = "preamble" /\ PreambleStep
  BY <1>2, <1>5 DEF PreambleStep, Running, Phase
<1>6. CASE pc = "deser" /\ ~Scanning /\ ReadStep(Decoded)
  <2> DEFINE r == Decoded
  <2>1. /\ Running /\ UNCHANGED <<stream, call, from, wasted>> /\ scanPos = 0 /\ scanPos' = 0
    BY <1>6 DEF ReadStep, Running, Phase
  <2>2. Trusted
    BY <1>2, <2>1 DEF Trusted
  <2>3. CASE r.err # Success
    <3>1. Consumed' = Consumed
      BY <1>6, <2>3 DEF ReadStep
    <3>2. QED
      BY <1>3, <2>1, <2>2, <3>1 DEF Looked
  <2>4. CASE r.err = Success
    <3>1. /\ r.item \in 2 .. Count(stream)
          /\ Looked = EndOf(stream, r.item - 1)
          /\ Consumed' = EndOf(stream, r.item)
      BY <1>6, <2>4 DEF ReadStep
    <3>2. ~Accepts(r.ts, r.item)
      BY <1>2, <1>6, <2>4 DEF ReadStep, Running
    <3>3. r.ts = stream.items[r.item].ts
      BY <1>6, <2>2, <2>4, ReadExact
    <3>4. ~Wanted(r.item)
      BY <3>2, <3>3 DEF Wanted, Accepts
    <3>5. Looked' = EndOf(stream, r.item)
      <4>1. EndOf(stream, r.item) \in Nat
        BY <1>1, <3>1
      <4>2. QED
        BY <2>1, <3>1, <4>1 DEF Looked
    <3>6. QED
      BY <2>1, <2>2, <3>1, <3>4, <3>5, PassedMore
  <2>5. QED
    BY <2>3, <2>4
<1>7. CASE ScanStep(Turn)
  <2> DEFINE d == Turn.event
  <2>1. Running /\ Scanning /\ UNCHANGED <<stream, call, from>>
    BY <1>7 DEF ScanStep, Running, Phase
  <2>2. Trusted
    BY <1>2, <1>7 DEF ScanStep, Trusted
  <2>3. CASE Turn.err = Again
    <3>1. /\ d.err = Success
          /\ d.item \in 2 .. Count(stream)
          /\ Looked = EndOf(stream, d.item - 1)
          /\ Looked' = EndOf(stream, d.item)
      BY <1>7, <2>3 DEF ScanStep, Again, Success
    <3>2. ~(/\ InInterval(d.ts, call.lower, call.upper)
            /\ AnyMatch(stream.items[d.item].msg, call.queries))
      BY <1>7, <2>3, TurnFacts
    <3>3. d.ts = stream.items[d.item].ts
      BY <1>7, <2>2, <3>1, ScanExact
    <3>4. ~Wanted(d.item)
      BY <2>1, <3>2, <3>3 DEF Wanted
    <3>5. QED
      BY <2>1, <2>2, <3>1, <3>4, PassedMore
  <2>4. CASE Turn.err # Again
    <3>1. Consumed' = Consumed /\ scanPos' = 0
      BY <1>2, <1>7, <2>4 DEF ScanStep, Running
    <3>2. Looked' <= Looked
      <4>1. Looked' = Consumed + 0
        BY <3>1 DEF Looked
      <4>2. QED
        BY <1>1, <4>1 DEF Looked
    <3>3. Looked' = Consumed /\ Looked \in Nat
      <4>1. Looked' = Consumed + 0
        BY <3>1 DEF Looked
      <4>2. QED
        BY <1>1, <4>1 DEF Looked
    <3>4. SUFFICES ASSUME NEW k \in 1 .. Count(stream),
                          from < EndOf(stream, k), EndOf(stream, k) <= Looked'
                   PROVE  ~Wanted(k)
      BY <2>1, WantedSame DEF Passed
    <3>5. EndOf(stream, k) <= Looked
      <4>1. EndOf(stream, k) \in Nat
        BY <1>1
      <4>2. QED
        BY <1>1, <3>2, <3>3, <3>4, <4>1
    <3>6. QED
      BY <2>1, <2>2, <3>4, <3>5 DEF Passed
  <2>5. QED
    BY <2>3, <2>4
<1>8. QED
  BY <1>4, <1>5, <1>6, <1>7, Steps

LEMMA FirstWantedNext ==
    ASSUME EventsInv, Passed, FirstWanted, [Next]_vars
    PROVE  FirstWanted'
<1> USE DEF EventsInv
<1>1. SUFFICES ASSUME Returned', ret'.err = Success, Trusted'
               PROVE  /\ Consumed' = EndOf(stream', mMsg')
                      /\ Wanted(mMsg)'
                      /\ \A k \in 1 .. mMsg' - 1 : EndOf(stream', k) > from' => ~Wanted(k)'
                      /\ Scanning' => ret'.index = MatchIndex(stream'.items[mMsg'].msg, call'.queries)
  BY DEF FirstWanted
<1>2. /\ Count(stream) \in Nat \ {0}
      /\ \A j \in 0 .. Count(stream) : EndOf(stream, j) \in Nat
      /\ from \in Nat
  BY LookedType DEF Inv, TypeOK
<1>3. CASE IdleStep
  <2>1. UNCHANGED <<pc, call, ret, from>>
    BY <1>1, <1>3 DEF IdleStep, Returned, Success, IoError, CorruptedIr
  <2>2. UNCHANGED <<stream, mMsg>> /\ Consumed' = Consumed /\ Trusted
    BY <1>1, <1>3 DEF IdleStep, Trusted
  <2>3. /\ Consumed = EndOf(stream, mMsg) /\ Wanted(mMsg)
        /\ \A k \in 1 .. mMsg - 1 : EndOf(stream, k) > from => ~Wanted(k)
        /\ Scanning => ret.index = MatchIndex(stream.items[mMsg].msg, call.queries)
    BY <1>1, <2>1, <2>2 DEF FirstWanted, Returned
  <2>4. Wanted(mMsg)' <=> Wanted(mMsg)
    BY <2>1, <2>2 DEF Wanted, Scanning
  <2>5. \A k : Wanted(k)' <=> Wanted(k)
    BY <2>1, <2>2, WantedSame
  <2>6. Scanning' <=> Scanning
    BY <2>1 DEF Scanning
  <2>7. QED
    BY <2>1, <2>2, <2>3, <2>4, <2>5, <2>6
<1>4. CASE pc = "preamble" /\ PreambleStep
  BY <1>1, <1>4 DEF PreambleStep, Returned, Phase
<1>5. ASSUME NEW j \in 2 .. Count(stream), Running, Trusted, UNCHANGED <<stream, call, from>>,
             Looked = EndOf(stream, j - 1), Consumed' = EndOf(stream, j), mMsg' = j, Wanted(j),
             Scanning => ret'.index = MatchIndex(stream.items[j].msg, call.queries)
      PROVE  /\ Consumed' = EndOf(stream', mMsg')
             /\ Wanted(mMsg)'
             /\ \A k \in 1 .. mMsg' - 1 : EndOf(stream', k) > from' => ~Wanted(k)'
             /\ Scanning' => ret'.index = MatchIndex(stream'.items[mMsg'].msg, call'.queries)
  <2>1. Wanted(mMsg)'
    BY <1>5 DEF Wanted, Scanning
  <2>2. ASSUME NEW k \in 1 .. j - 1, EndOf(stream, k) > from
        PROVE  ~Wanted(k)'
    <3>1. k \in 1 .. Count(stream) /\ k < j /\ k \in 0 .. Count(stream)
      BY <1>2, <1>5, <2>2
    <3>2. from < EndOf(stream, k)
      BY <1>2, <2>2, <3>1
    <3>3. ~Wanted(k)
      BY <1>5, <3>1, <3>2, PassedOne
    <3>4. QED
      BY <1>5, <3>3, WantedSame
  <2>3. Scanning' <=> Scanning
    BY <1>5 DEF Scanning
  <2>4. QED
    BY <1>5, <2>1, <2>2, <2>3
<1>6. CASE pc = "deser" /\ ~Scanning /\ ReadStep(Decoded)
  <2> DEFINE r == Decoded
  <2>1. /\ r.err = Success /\ Accepts(r.ts, r.item)
        /\ UNCHANGED <<stream, call, from, wasted>>
        /\ r.item \in 2 .. Count(stream)
        /\ stream.items[r.item].kind = "event"
        /\ Looked = EndOf(stream, r.item - 1)
        /\ Consumed' = EndOf(stream, r.item)
        /\ mMsg' = r.item
    BY <1>1, <1>6 DEF ReadStep, Returned
  <2>2. Running /\ Trusted
    BY <1>1, <1>6, <2>1 DEF Running, Phase, Trusted
  <2>3. r.ts = stream.items[r.item].ts
    BY <1>6, <2>1, <2>2, ReadExact
  <2>4. Wanted(r.item)
    BY <1>6, <2>1, <2>3 DEF Wanted, Accepts
  <2> HIDE DEF r
  <2>5. QED
    BY <1>5, <1>6, <2>1, <2>2, <2>4
<1>7. CASE ScanStep(Turn)
  <2> DEFINE d == Turn.event
  <2>1. /\ Turn.err = Success /\ d.err = Success
        /\ UNCHANGED <<stream, call, from>>
        /\ d.item \in 2 .. Count(stream)
        /\ stream.items[d.item].kind = "event"
        /\ Looked = EndOf(stream, d.item - 1)
        /\ Consumed' = EndOf(stream, d.item)
        /\ mMsg' = d.item
        /\ ret'.index = Turn.index
    BY <1>1, <1>7 DEF ScanStep, Returned
  <2>2. Running /\ Scanning /\ Trusted
    BY <1>1, <1>7 DEF ScanStep, Running, Phase, Trusted
  <2>3. d.ts = stream.items[d.item].ts
    BY <1>7, <2>1, <2>2, ScanExact
  <2>4. /\ InInterval(d.ts, call.lower, call.upper)
        /\ AnyMatch(stream.items[d.item].msg, call.queries)
        /\ Turn.index = MatchIndex(stream.items[d.item].msg, call.queries)
    BY <1>7, <2>1, TurnFacts
  <2>5. call.op # "func"
    BY <2>2 DEF Scanning
  <2>6. Wanted(d.item)
    BY <2>1, <2>3, <2>4, <2>5 DEF Wanted
  <2> HIDE DEF d
  <2>7. QED
    BY <1>5, <2>1, <2>2, <2>4, <2>6
<1>8. QED
  BY <1>3, <1>4, <1>5, <1>6, <1>7, Steps

(* What the outcome of decoding item j says about it. *)
LEMMA OutcomeJustified ==
    ASSUME NEW j, NEW err, err \notin {Success, IncompleteIr}, err = Outcome(stream.items[j].kind)
    PROVE  Justifies(err, stream.items[j])
BY DEF Outcome, Justifies, Success, EndOfIr, CorruptedIr, QueryNotFound, IncompleteIr

(* The number of the item a running method stands behind. *)
LEMMA BehindItem ==
    ASSUME Inv, Phase, call # NewCall
    PROVE  \E p \in 1 .. Count(stream) : Looked = EndOf(stream, p)
<1>1. PICK p \in 0 .. Count(stream) : Looked = EndOf(stream, p)
  BY DEF Inv, ScanInRange, Looked
<1>2. p # 0
  <2>1. /\ Consumed \in Nat /\ scanPos \in Nat /\ Count(stream) \in Nat \ {0}
        /\ \A j \in 0 .. Count(stream) : EndOf(stream, j) \in Nat
    BY LookedType
  <2>2. EndOf(stream, 1) <= Consumed
    BY DEF Phase
  <2>3. 0 \in 0 .. Count(stream) /\ 1 \in 0 .. Count(stream) /\ 0 < 1
    BY <2>1
  <2>4. EndOf(stream, 0) < EndOf(stream, 1)
    BY <2>3, StreamEnds DEF Inv
  <2>5. Consumed <= Looked
    BY <2>1 DEF Looked
  <2>6. EndOf(stream, 1) \in Nat /\ EndOf(stream, 0) \in Nat
    BY <2>1, <2>3
  <2>7. p = 0 => FALSE
    BY <1>1, <2>1, <2>2, <2>4, <2>5, <2>6
  <2>8. QED
    BY <2>7
<1>3. p \in 1 .. Count(stream)
  BY <1>1, <1>2
<1>4. QED
  BY <1>1, <1>3

LEMMA HonestErrorNext ==
    ASSUME EventsInv, Passed, ScanFrom, HonestError, [Next]_vars
    PROVE  HonestError'
<1> USE DEF EventsInv
<1> DEFINE Reason(j) ==
        /\ EndOf(stream, j) > Consumed
        /\ Justifies(ret.err, stream.items[j])
        /\ \A i \in 1 .. j - 1 : EndOf(stream, i) > from => ~Wanted(i)
        /\ IF Scanning THEN Consumed = from ELSE EndOf(stream, j - 1) = Consumed
<1>1. SUFFICES ASSUME Returned', ret'.err \notin {Success, IoError}, Trusted', cptr'
               PROVE  \E j \in 1 .. Count(stream') : Reason(j)'
  BY DEF HonestError
<1>2. /\ Consumed \in Nat /\ scanPos \in Nat /\ Count(stream) \in Nat \ {0}
      /\ \A j \in 0 .. Count(stream) : EndOf(stream, j) \in Nat
      /\ from \in Nat
  BY LookedType DEF Inv, TypeOK
<1>3. CASE IdleStep
  <2>1. UNCHANGED <<pc, call, ret, from>>
    BY <1>1, <1>3 DEF IdleStep, Returned
  <2>2. UNCHANGED stream /\ Consumed' = Consumed /\ Trusted /\ cptr
    BY <1>1, <1>3 DEF IdleStep, Trusted
  <2>3. PICK j \in 1 .. Count(stream) : Reason(j)
    BY <1>1, <2>1, <2>2 DEF HonestError, Returned
  <2>4. \A k : Wanted(k)' <=> Wanted(k)
    BY <2>1, <2>2, WantedSame
  <2>5. Justifies(ret.err, stream.items[j])'
    BY <2>1, <2>2, <2>3 DEF Justifies
  <2>6. Scanning' <=> Scanning
    BY <2>1 DEF Scanning
  <2>7. Reason(j)'
    BY <2>1, <2>2, <2>3, <2>4, <2>5, <2>6
  <2>8. QED
    BY <2>2, <2>3, <2>7
<1>4. CASE pc = "preamble" /\ PreambleStep
  BY <1>1, <1>4 DEF PreambleStep, Returned, Phase
<1>5. ASSUME NEW j \in 2 .. Count(stream), Running, Trusted, UNCHANGED <<stream, call, from>>,
             Looked = EndOf(stream, j - 1), Consumed' = Consumed,
             Justifies(ret'.err, stream.items[j]),
             Scanning \/ Looked = Consumed
      PROVE  \E i \in 1 .. Count(stream') : Reason(i)'
  <2>1. j \in 1 .. Count(stream) /\ j \in 0 .. Count(stream) /\ j - 1 \in 0 .. Count(stream) /\ j - 1 < j
    BY <1>2, <1>5
  <2>2. EndOf(stream, j) > Consumed
    <3>1. EndOf(stream, j - 1) < EndOf(stream, j)
      BY <2>1, StreamEnds DEF Inv
    <3>2. EndOf(stream, j) \in Nat /\ Consumed <= Looked /\ Looked \in Nat
      BY <1>2, <2>1 DEF Looked
    <3>3. QED
      BY <1>2, <1>5, <3>1, <3>2
  <2>3. Justifies(ret.err, stream.items[j])'
    BY <1>5 DEF Justifies
  <2>4. ASSUME NEW k \in 1 .. j - 1, EndOf(stream, k) > from
        PROVE  ~Wanted(k)'
    <3>1. k \in 1 .. Count(stream) /\ k < j /\ k \in 0 .. Count(stream)
      BY <1>2, <1>5, <2>4
    <3>2. from < EndOf(stream, k)
      BY <1>2, <2>4, <3>1
    <3>3. ~Wanted(k)
      BY <1>5, <3>1, <3>2, PassedOne
    <3>4. QED
      BY <1>5, <3>3, WantedSame
  <2>5. IF Scanning' THEN Consumed' = from' ELSE EndOf(stream', j - 1) = Consumed'
    <3>1. Scanning' <=> Scanning
      BY <1>5 DEF Scanning
    <3>2. Scanning => Consumed = from
      BY <1>5 DEF ScanFrom
    <3>3. QED
      BY <1>5, <3>1, <3>2
  <2>6. Reason(j)'
    BY <1>5, <2>2, <2>3, <2>4, <2>5
  <2>7. QED
    BY <1>5, <2>1, <2>6
<1>6. CASE pc = "deser" /\ ~Scanning /\ ReadStep(Decoded)
  <2>1. /\ UNCHANGED <<stream, call, from, wasted, cptr>> /\ scanPos = 0
        /\ Decoded.err # Success /\ Decoded.err # IncompleteIr
        /\ Consumed' = Consumed /\ ret'.err = Decoded.err
    BY <1>1, <1>6 DEF ReadStep, Returned
  <2>2. Running /\ Trusted /\ cptr
    BY <1>1, <1>6, <2>1 DEF Running, Phase, Trusted
  <2>3. Decoded = NextEvent(stream.enc, stream, buf, start, end) /\ start # end
    BY <2>1, <2>2, ResultIs DEF Decoded, NoEvent
  <2>4. PICK p \in 1 .. Count(stream) : Looked = EndOf(stream, p)
    BY <2>2, BehindItem DEF Running
  <2>5. Looked = Consumed
    BY <1>2, <2>1 DEF Looked
  <2>6. start \in start .. end /\ start < end /\ Consumed + (start - start) = EndOf(stream, p)
    <3>1. start \in Nat /\ end \in Nat /\ start <= end
      BY ConsumedType DEF Inv
    <3>2. QED
      BY <1>2, <2>3, <2>4, <2>5, <3>1
  <2>7. /\ p + 1 \in 2 .. Count(stream)
        /\ Decoded.err = Outcome(stream.items[p + 1].kind)
    BY <2>1, <2>3, <2>6, NextEventComplete
  <2>8. Justifies(ret'.err, stream.items[p + 1])
    BY <2>1, <2>7, OutcomeJustified
  <2>9. Looked = EndOf(stream, (p + 1) - 1)
    BY <2>4
  <2>10. QED
    BY <1>5, <2>1, <2>2, <2>5, <2>7, <2>8, <2>9
<1>7. CASE ScanStep(Turn)
  <2> DEFINE d == Turn.event
             at == start + scanPos
  <2>1. /\ UNCHANGED <<stream, call, from, cptr>> /\ pc = "scan"
        /\ Turn.err \notin {Again, Success, IncompleteIr}
        /\ Consumed' = Consumed /\ ret'.err = Turn.err
    BY <1>1, <1>7 DEF ScanStep, Returned
  <2>2. Running /\ Scanning /\ Trusted /\ call # NewCall /\ 2 <= Count(stream)
    BY <1>1, <1>7, <2>1 DEF ScanStep, Running, Phase, Trusted
  <2>3. CASE Turn.err = d.err /\ d.err # Success
    <3>1. d = NextEvent(stream.enc, stream, buf, at, end) /\ at \in start .. end
      BY <1>7 DEF ScanStep, DeserializeWildcardMatch
    <3>2. PICK p \in 1 .. Count(stream) : Looked = EndOf(stream, p)
      BY <2>2, BehindItem
    <3>3. Consumed + (at - start) = EndOf(stream, p)
      <4>1. start \in Nat
        BY ConsumedType DEF Inv
      <4>2. at - start = scanPos
        BY <1>2, <4>1
      <4>3. QED
        BY <3>2, <4>2 DEF Looked
    <3> HIDE DEF d, at
    <3>4. /\ p + 1 \in 2 .. Count(stream)
          /\ d.err = Outcome(stream.items[p + 1].kind)
      BY <2>1, <2>2, <2>3, <3>1, <3>3, NextEventComplete
    <3>5. Justifies(ret'.err, stream.items[p + 1])
      BY <2>1, <2>3, <3>4, OutcomeJustified
    <3>6. Looked = EndOf(stream, (p + 1) - 1)
      BY <3>2
    <3>7. QED
      BY <1>5, <2>1, <2>2, <3>4, <3>5, <3>6
  <2>4. CASE Turn.err = QueryNotFound /\ d.err = Success /\ call.upper <= d.ts
    <3>1. /\ d.item \in 2 .. Count(stream)
          /\ stream.items[d.item].kind = "event"
          /\ Looked = EndOf(stream, d.item - 1)
      BY <1>7, <2>4 DEF ScanStep
    <3>2. d.ts = stream.items[d.item].ts
      BY <1>7, <2>2, <2>4, ScanExact
    <3>3. d.ts >= call.upper
      <4>1. call.upper \in Int /\ d.ts \in Int
        <5>1. d.ts \in Times
          BY <2>1, <2>4, ScanFacts DEF Turn
        <5>2. QED
          BY <2>2, <5>1, ScanCallFacts, MaxTimeAssumption DEF Inv, Times, MinTime
      <4>2. QED
        BY <2>4, <4>1
    <3>4. Justifies(ret'.err, stream.items[d.item])
      BY <2>1, <2>4, <3>1, <3>2, <3>3
         DEF Justifies, QueryNotFound, EndOfIr, CorruptedIr, IncompleteIr
    <3> HIDE DEF d
    <3>5. QED
      BY <1>5, <2>1, <2>2, <3>1, <3>4
  <2>5. QED
    BY <1>7, <2>1, <2>3, <2>4, TurnFacts
<1>8. QED
  BY <1>3, <1>4, <1>6, <1>7, Steps

LEMMA AnswersInit == Init => AnswersInv
<1> SUFFICES ASSUME Init PROVE AnswersInv
  OBVIOUS
<1>1. EventsInv
  BY EventsInit
<1>2. pc = "open" /\ call = NewCall
  BY DEF Init
<1>3. Passed /\ ScanFrom /\ FirstWanted /\ HonestError
  BY <1>2 DEF Passed, ScanFrom, Running, FirstWanted, HonestError, Returned
<1>4. QED
  BY <1>1, <1>3 DEF AnswersInv

LEMMA AnswersNext == AnswersInv /\ [Next]_vars => AnswersInv'
<1> SUFFICES ASSUME AnswersInv, [Next]_vars PROVE AnswersInv'
  OBVIOUS
<1>1. EventsInv'
  BY EventsNext DEF AnswersInv
<1>2. Passed' /\ ScanFrom'
  BY PassedNext, ScanFromNext DEF AnswersInv
<1>3. FirstWanted' /\ HonestError'
  BY FirstWantedNext, HonestErrorNext DEF AnswersInv
<1>4. QED
  BY <1>1, <1>2, <1>3 DEF AnswersInv

(* No running call has passed anything it was asked for, and those that    *)
(* have returned returned the right thing, in every reachable state.       *)
THEOREM AnswersInvariant == Spec => []AnswersInv
<1>1. Init => AnswersInv
  BY AnswersInit
<1>2. AnswersInv /\ [Next]_vars => AnswersInv'
  BY AnswersNext
<1>3. QED
  BY <1>1, <1>2, PTL DEF Spec

(* A call that succeeds returns the first event it was asked for after     *)
(* what was consumed before it, with the index of the first query matched. *)
THEOREM ReaderFirstWanted == Spec => []FirstWanted
<1>1. AnswersInv => FirstWanted
  BY DEF AnswersInv
<1>2. QED
  BY <1>1, AnswersInvariant, PTL

(* A call that fails has an item ahead of it that justifies the error, and *)
(* has passed nothing it was asked for.                                    *)
THEOREM ReaderHonest == Spec => []HonestError
<1>1. AnswersInv => HonestError
  BY DEF AnswersInv
<1>2. QED
  BY <1>1, AnswersInvariant, PTL

-----------------------------------------------------------------------------
(* Without scans, whose loop may stop at an item far behind reader.start,  *)
(* the buffer is filled only while the window is a part of one item, so    *)
(* it is doubled only when that item takes more than half of it.           *)

FillsForItem ==
    pc = "fill" => \/ start = end
                   \/ \E j \in 1 .. Count(stream) : end - start < Width(stream, j)

FitsInv == Inv /\ Phase /\ FillsForItem /\ BufferFitsItems

LEMMA FitsFillBuf ==
    ASSUME FitsInv, NEW n \in 0 .. stream.len, FillBuf(n)
    PROVE  BufferFitsItems'
<1> USE DEF FitsInv
<1>1. /\ pc = "fill" /\ stream' = stream
      /\ cap' = IF Grows THEN 2 * cap ELSE cap
  BY DEF FillBuf, ReadInto
<1>2. start \in Nat /\ end \in Nat /\ cap \in Nat
  BY ConsumedType DEF Inv
<1>3. CASE ~Grows
  BY <1>1, <1>3 DEF BufferFitsItems
<1>4. CASE Grows
  <2>1. cap \div 2 \in Nat /\ cap <= 2 * (cap \div 2) + 1
    BY <1>2
  <2>2. end - start > cap \div 2
    BY <1>4 DEF Grows
  <2>3. start # end
    BY <1>2, <2>1, <2>2
  <2>4. PICK j \in 1 .. Count(stream) : end - start < Width(stream, j)
    BY <1>1, <2>3 DEF FillsForItem
  <2>5. Width(stream, j) \in Nat
    BY StreamGeometry DEF Inv, TypeOK
  <2>6. 2 * cap <= 4 * Width(stream, j) - 6
    BY <1>2, <2>1, <2>2, <2>4, <2>5
  <2>7. QED
    BY <1>1, <1>4, <2>6 DEF BufferFitsItems
<1>5. QED
  BY <1>3, <1>4

LEMMA FillsAfterPreamble ==
    ASSUME Inv, TryPreamble
    PROVE  FillsForItem'
<1> DEFINE r == PreambleResult(stream, buf, start, end)
<1>1. SUFFICES ASSUME pc' = "fill"
               PROVE  start' = end' \/ \E j \in 1 .. Count(stream') : end' - start' < Width(stream', j)
  BY DEF FillsForItem
<1>2. r.err = IncompleteIr
  <2>1. r.err = Success => pc' = "idle"
    BY DEF TryPreamble, Return, IncompleteIr, Success
  <2>2. r.err \notin {Success, IncompleteIr} => pc' \in {"failed", "idle"}
    BY DEF TryPreamble, Fail
  <2>3. QED
    BY <1>1, <2>1, <2>2
<1>3. UNCHANGED <<stream, end>> /\ start' = r.pos /\ pc = "preamble"
  BY DEF TryPreamble, ioVars
<1>4. start = 0 /\ r.pos = 0
  <2>1. start = 0
    BY <1>3 DEF Inv, Unconsumed
  <2>2. r.pos = 0
    BY <1>2 DEF PreambleResult, IncompleteIr, Success
  <2>3. QED
    BY <2>1, <2>2
<1>5. CASE start = end
  BY <1>3, <1>4, <1>5
<1>6. CASE start # end
  <2>1. DecodePreamble(stream, buf, start, end).err = IncompleteIr
    <3>1. MetadataError(stream.meta) # IncompleteIr
      BY DEF MetadataError, IncompleteIr, Success, UnsupportedVersion, JsonError
    <3>2. QED
      BY <1>2, <1>6, <3>1 DEF PreambleResult
  <2>2. start + Width(stream, 1) > end
    BY <2>1, DecodeIncomplete DEF DecodePreamble
  <2>3. 1 \in 1 .. Count(stream) /\ Width(stream, 1) \in Nat
    BY StreamGeometry DEF Inv, TypeOK
  <2>4. start \in Nat /\ end \in Nat
    BY ConsumedType DEF Inv
  <2>5. end - start < Width(stream, 1)
    BY <2>2, <2>3, <2>4
  <2>6. QED
    BY <1>3, <1>4, <2>3, <2>5
<1>7. QED
  BY <1>5, <1>6

LEMMA FillsAfterRead ==
    ASSUME Inv, TryRead
    PROVE  FillsForItem'
<1> DEFINE r == LogEventResult(stream, buf, start, end)
<1>1. SUFFICES ASSUME pc' = "fill"
               PROVE  start' = end' \/ \E j \in 1 .. Count(stream') : end' - start' < Width(stream', j)
  BY DEF FillsForItem
<1>2. r.err = IncompleteIr
  <2>1. r.err = Success => pc' \in {"deser", "idle"}
    <3>1. r.err = Success => Return([err |-> Success, ts |-> r.ts, index |-> -1]) \/ pc' = pc
      BY DEF TryRead, IncompleteIr, Success
    <3>2. pc = "deser"
      BY DEF TryRead
    <3>3. QED
      BY <3>1, <3>2 DEF Return
  <2>2. r.err \notin {Success, IncompleteIr} => Fail(r.err)
    BY DEF TryRead
  <2>3. Fail(r.err) => pc' \in {"failed", "idle"}
    BY DEF Fail
  <2>4. QED
    BY <1>1, <2>1, <2>2, <2>3
<1>3. UNCHANGED <<stream, end>> /\ start' = start
  <2>1. UNCHANGED <<stream, end>> /\ start' = StartAfter(r)
    BY DEF TryRead, ioVars
  <2>2. QED
    BY <1>2, <2>1 DEF StartAfter, Success, IncompleteIr
<1>4. CASE start = end
  BY <1>3, <1>4
<1>5. CASE start # end
  <2>1. DecodeEvent(stream, buf, start, end).err = IncompleteIr
    BY <1>2, <1>5 DEF LogEventResult, EightByteLogEvent, FourByteLogEvent, DeserializeLogEvent,
                      NextEvent, NoEvent, IncompleteIr, CorruptedIr
  <2>2. PICK j \in 2 .. Count(stream) : start + Width(stream, j) > end
    BY <2>1, DecodeIncomplete DEF DecodeEvent
  <2>3. j \in 1 .. Count(stream) /\ Width(stream, j) \in Nat
    BY StreamGeometry DEF Inv, TypeOK
  <2>4. start \in Nat /\ end \in Nat
    BY ConsumedType DEF Inv
  <2>5. end - start < Width(stream, j)
    BY <2>2, <2>3, <2>4
  <2>6. QED
    BY <1>3, <2>3, <2>5
<1>6. QED
  BY <1>4, <1>5

LEMMA FitsNext ==
    ASSUME QueryLists = {}, FitsInv, [Next]_vars
    PROVE  FitsInv'
<1> USE DEF FitsInv
<1>1. Inv' /\ Phase'
  BY InvNext, PhaseNext
<1>2. ~Scanning
  BY DEF Inv, TypeOK, IsCall, Scanning, NewCall, ReadCall, FuncCall
<1>3. ASSUME UNCHANGED <<stream, cap>> PROVE BufferFitsItems'
  BY <1>3 DEF BufferFitsItems
<1>4. ASSUME pc' # "fill" PROVE FillsForItem'
  BY <1>4 DEF FillsForItem
<1>5. CASE Read \/ ReadToFunc \/ ReadToWildcardMatch \/ ReadToWildcardMatchWithTimeInterval
  <2>1. UNCHANGED <<stream, cap>> /\ pc' = "deser"
    BY <1>5 DEF Read, ReadToFunc, ReadToWildcardMatch, ReadToWildcardMatchWithTimeInterval,
                Begin, ioVars, bufVars
  <2>2. QED
    BY <1>1, <1>3, <1>4, <2>1
<1>6. CASE Close
  <2>1. UNCHANGED <<stream, cap, pc>> /\ pc = "idle"
    BY <1>6 DEF Close, ioVars, bufVars
  <2>2. QED
    BY <1>1, <1>3, <1>4, <2>1
<1>7. CASE DoFirstRead
  <2>1. UNCHANGED <<stream, cap>> /\ pc' # "fill"
    BY <1>7 DEF DoFirstRead, FirstRead, ReadInto, ReadOutcome, Fail
  <2>2. QED
    BY <1>1, <1>3, <1>4, <2>1
<1>8. CASE TryPreamble
  <2>1. UNCHANGED <<stream, cap>>
    BY <1>8 DEF TryPreamble, ioVars
  <2>2. QED
    BY <1>1, <1>3, <1>8, <2>1, FillsAfterPreamble
<1>9. CASE DoFillBuf
  <2>1. PICK n \in 0 .. stream.len : FillBuf(n)
    BY <1>9 DEF DoFillBuf
  <2>2. pc' # "fill"
    BY <2>1 DEF FillBuf, ReadOutcome, Fail
  <2>3. QED
    BY <1>1, <1>4, <2>1, <2>2, FitsFillBuf
<1>10. CASE TryRead
  <2>1. UNCHANGED <<stream, cap>>
    BY <1>10 DEF TryRead, ioVars
  <2>2. QED
    BY <1>1, <1>3, <1>10, <2>1, FillsAfterRead
<1>11. CASE EnterScan
  BY <1>2, <1>11 DEF EnterScan
<1>12. CASE ScanEvent
  BY <1>2, <1>12 DEF ScanEvent, Phase
<1>13. CASE UNCHANGED vars
  <2>1. UNCHANGED <<stream, cap, pc, start, end>>
    BY <1>13 DEF vars, ioVars, bufVars
  <2>2. QED
    BY <1>1, <1>3, <2>1 DEF FillsForItem
<1>14. QED
  BY <1>5, <1>6, <1>7, <1>8, <1>9, <1>10, <1>11, <1>12, <1>13 DEF Next, Method, Step

(* Reading event by event, a Reader's buffer never grows to more than four *)
(* times the longest item of the stream, or stays at its initial size.     *)
THEOREM ReaderBufferFits == ASSUME QueryLists = {} PROVE Spec => []BufferFitsItems
<1>1. Init => FitsInv
  <2> SUFFICES ASSUME Init PROVE FitsInv
    OBVIOUS
  <2>1. Inv /\ Phase
    BY InvInit, PhaseInit
  <2>2. cap <= InitialSize
    BY SizeAssumption DEF Init
  <2>3. FillsForItem
    BY DEF Init, FillsForItem
  <2>4. QED
    BY <2>1, <2>2, <2>3 DEF FitsInv, BufferFitsItems
<1>2. FitsInv /\ [Next]_vars => FitsInv'
  BY FitsNext
<1>3. FitsInv => BufferFitsItems
  BY DEF FitsInv
<1>4. QED
  BY <1>1, <1>2, <1>3, PTL DEF Spec

-----------------------------------------------------------------------------
(* Without scans no event is decoded in vain. *)

NoneWasted == Inv /\ Phase /\ ~wasted

LEMMA NoneWastedNext ==
    ASSUME QueryLists = {}, NoneWasted, [Next]_vars
    PROVE  NoneWasted'
<1>1. Inv' /\ Phase'
  BY InvNext, PhaseNext DEF NoneWasted
<1>2. ~Scanning
  BY DEF NoneWasted, Inv, TypeOK, IsCall, Scanning, NewCall, ReadCall, FuncCall
<1>3. ~ScanEvent
  BY <1>2 DEF NoneWasted, Phase, ScanEvent
<1>4. wasted' = wasted
  BY <1>3 DEF Next, Method, Step, DoFirstRead, FirstRead, TryPreamble, DoFillBuf, FillBuf, TryRead,
              EnterScan, Read, ReadToFunc, ReadToWildcardMatch,
              ReadToWildcardMatchWithTimeInterval, Begin, Close, vars
<1>5. QED
  BY <1>1, <1>4 DEF NoneWasted

(* For a user of Read and ReadToFunc the timestamp returned with an event  *)
(* is the one the stream gives it, without any condition.                  *)
THEOREM ReaderTimestampsOfReads == ASSUME QueryLists = {} PROVE Spec => []TimestampExact
<1>1. Init => NoneWasted
  BY InvInit, PhaseInit DEF NoneWasted, Init
<1>2. NoneWasted /\ [Next]_vars => NoneWasted'
  BY NoneWastedNext
<1>3. NoneWasted /\ TimestampExactWhenTrusted => TimestampExact
  BY DEF NoneWasted, TimestampExactWhenTrusted, Trusted
<1>4. QED
  BY <1>1, <1>2, <1>3, ReaderTimestamps, PTL DEF Spec
=============================================================================
