---------------------------- MODULE IrPipeProofs ----------------------------
(***************************************************************************)
(* The two ends of an IR stream implement the log of EventLog, for every   *)
(* set of messages, events and sizes: no event is lost, repeated, changed  *)
(* or reordered between Write and Read.                                    *)
(***************************************************************************)
EXTENDS IrPipe, WriterProofs

-----------------------------------------------------------------------------
(* The inductive invariant: the Writer's, and that the reading side stands *)
(* behind the item of the event it has handed out last.                    *)

Place == Len(seen) + 1

Follows ==
    /\ seen \in Seq(LogEvents)
    /\ Len(seen) <= Len(accepted)
    /\ \A i \in 1 .. Len(seen) : seen[i] = accepted[i]
    /\ ended \in BOOLEAN
    /\ ended => Closed /\ seen = accepted

Stands ==
    \/ native = "none" /\ cptr = FALSE /\ seen = <<>> /\ rpos = 0
    \/ /\ native = "live" /\ cptr = TRUE
       /\ Place <= Len(items)
       /\ rpos = items[Place].last
       /\ enc = "four" => mTimestamp = items[Place].ts

PipeInv == IInv /\ ~lost /\ Follows /\ Stands

LEMMA PipeTypes ==
    ASSUME PipeInv
    PROVE  /\ Len(items) \in Nat /\ Len(accepted) \in Nat /\ Len(seen) \in Nat /\ Len(sink) \in Nat
           /\ Place \in Nat \ {0}
           /\ items \in Seq(Item(Messages)) /\ accepted \in Seq(LogEvents)
           /\ \A i \in 1 .. Len(items) : items[i] \in Item(Messages)
           /\ \A i \in 1 .. Len(accepted) : accepted[i] \in LogEvents
           /\ enc \in Encodings
<1>1. /\ items \in Seq(Item(Messages)) /\ accepted \in Seq(LogEvents) /\ sink \in Seq(1 .. Size)
      /\ seen \in Seq(LogEvents) /\ enc \in Encodings
  BY DEF PipeInv, IInv, TypeOK, SerTypeOK, Follows
<1>2. /\ \A i \in 1 .. Len(items) : items[i] \in Item(Messages)
      /\ \A i \in 1 .. Len(accepted) : accepted[i] \in LogEvents
  BY <1>1, ElementOfSeq
<1>3. Len(items) \in Nat /\ Len(accepted) \in Nat /\ Len(seen) \in Nat /\ Len(sink) \in Nat
  BY <1>1, LenProperties
<1>4. Place \in Nat \ {0}
  BY <1>3 DEF Place
<1>5. QED
  BY <1>1, <1>2, <1>3, <1>4

(* The io.Writer has taken the first bytes of the stream. *)
LEMMA SinkIsPrefix ==
    ASSUME IInv, ~lost
    PROVE  \A k \in 0 .. Len(sink) - 1 : SinkBytes[k] = k + 1
<1>1. Whole(sink \o wbuf, Size)
  BY DEF IInv, Bytes
<1>2. sink \in Seq(1 .. Size) /\ wbuf \in Seq(1 .. Size)
  BY DEF IInv, TypeOK
<1>3. Len(sink) \in Nat /\ Len(wbuf) \in Nat
  BY <1>2, LenProperties
<1>4. /\ Len(sink \o wbuf) = Len(sink) + Len(wbuf)
      /\ \A k \in 1 .. Len(sink) + Len(wbuf) :
            (sink \o wbuf)[k] = IF k <= Len(sink) THEN sink[k] ELSE wbuf[k - Len(sink)]
  BY <1>2, ConcatProperties
<1>5. SUFFICES ASSUME NEW k \in 0 .. Len(sink) - 1 PROVE SinkBytes[k] = k + 1
  OBVIOUS
<1>6. k + 1 \in 1 .. Len(sink) + Len(wbuf) /\ k + 1 <= Len(sink)
  BY <1>3, <1>5
<1>7. (sink \o wbuf)[k + 1] = k + 1
  BY <1>1, <1>4, <1>6 DEF Whole
<1>8. sink[k + 1] = k + 1
  BY <1>4, <1>6, <1>7
<1>9. QED
  BY <1>5, <1>8 DEF SinkBytes

-----------------------------------------------------------------------------
(* What a step of the Writer means for the log. *)

Grown ==
    /\ Len(items) <= Len(items')
    /\ \A i \in 1 .. Len(items) : items'[i] = items[i]

Accepts(e) == ~Closed /\ ~Closed' /\ accepted' = Append(accepted, e)
Rests      == (Closed' <=> Closed) /\ accepted' = accepted
Finishes   == Closed' /\ accepted' = accepted

LEMMA WriterSteps ==
    ASSUME IInv, ~lost, [Careful]_vars
    PROVE  /\ ~lost' /\ enc' = enc /\ Grown
           /\ Rests \/ Finishes \/ \E e \in LogEvents : Accepts(e)
<1>1. Len(items) \in Nat
  BY SizeFacts DEF IInv, TypeOK, SerTypeOK
<1>2. CASE NewWriterSize
  <2>1. opened = "no" /\ UNCHANGED <<accepted, lost>> /\ enc' = enc
    BY <1>2 DEF NewWriterSize, NewSerializer, NewSerializerFails
  <2>2. items = <<>> /\ Len(items) = 0
    BY <2>1, EmptySeq DEF IInv, Life
  <2>3. Len(items') \in Nat
    <3>1. IInv'
      BY <1>2, OpenKeeps
    <3>2. items' \in Seq(Item(Messages))
      BY <3>1 DEF IInv, TypeOK, SerTypeOK
    <3>3. QED
      BY <3>2, LenProperties
  <2>4. ~Closed /\ ~Closed'
    <3>1. opened' = "yes" => serPtr' = TRUE
      BY <1>2 DEF NewWriterSize, NewSerializer, NewSerializerFails, EightByteSerializer,
                  FourByteSerializer, NewWithPreamble
    <3>2. QED
      BY <2>1, <3>1 DEF Closed
  <2>5. QED
    BY <2>1, <2>2, <2>3, <2>4 DEF Grown, Rests
<1>3. CASE Write
  <2>1. PICK event \in LogEvents :
           \/ SerializeSucceeds(event) /\ accepted' = Append(accepted, event)
           \/ SerializeFails(event) /\ UNCHANGED accepted
    BY <1>3 DEF Write
  <2>2. opened = "yes" /\ opened' = opened /\ lost' = lost
    BY <1>3 DEF Write, CanWrite
  <2>3. CASE SerializeSucceeds(event) /\ accepted' = Append(accepted, event)
    <3>1. /\ serPtr /\ serPtr'
          /\ Len(items') = Len(items) + 1
          /\ \A i \in 1 .. Len(items) : items'[i] = items[i]
      BY <2>3, EventProduced
    <3>2. enc' = enc
      BY <2>3 DEF SerializeSucceeds
    <3>3. Grown
      BY <1>1, <3>1 DEF Grown
    <3>4. Accepts(event)
      BY <2>3, <3>1 DEF Accepts, Closed
    <3>5. QED
      BY <2>1, <2>2, <3>2, <3>3, <3>4
  <2>4. CASE SerializeFails(event) /\ UNCHANGED accepted
    <3>1. UNCHANGED <<enc, serPtr, items>>
      BY <2>4 DEF SerializeFails
    <3>2. QED
      BY <1>1, <2>2, <2>4, <3>1 DEF Grown, Rests, Closed
  <2>5. QED
    BY <2>1, <2>3, <2>4
<1>4. CASE DoWriteTo
  <2>1. UNCHANGED <<enc, serPtr, items, opened, accepted, lost>>
    BY <1>4 DEF DoWriteTo, WriteTo, serVars
  <2>2. QED
    BY <1>1, <2>1 DEF Grown, Rests, Closed
<1>5. CASE Close \/ DoCloseTo
  <2>1. EndStream /\ UNCHANGED <<opened, accepted, lost>>
    BY <1>5 DEF Close, DoCloseTo, CloseTo
  <2>2. /\ opened = "yes" /\ ~serPtr'
        /\ Len(items') = Len(items) + 1
        /\ \A i \in 1 .. Len(items) : items'[i] = items[i]
    BY <2>1, TagProduced
  <2>3. enc' = enc
    BY <2>1 DEF EndStream, SerCloseNative
  <2>4. QED
    BY <1>1, <2>1, <2>2, <2>3 DEF Grown, Finishes, Closed
<1>6. CASE UNCHANGED vars
  <2>1. UNCHANGED <<enc, serPtr, items, opened, accepted, lost>>
    BY <1>6 DEF vars, serVars, wVars
  <2>2. QED
    BY <1>1, <2>1 DEF Grown, Rests, Closed
<1>7. QED
  BY <1>2, <1>3, <1>4, <1>5, <1>6 DEF Careful

(* Whatever the Writer does, the reading side keeps its place. *)
LEMMA WritingKeeps ==
    ASSUME PipeInv, [Careful]_vars, UNCHANGED <<desVars, rpos, seen, ended>>
    PROVE  PipeInv' /\ [Log!Next]_(Log!vars)
<1>1. IInv'
  <2>1. [Next]_vars
    BY DEF Next
  <2>2. QED
    BY <2>1, IInvNext DEF PipeInv
<1>2. /\ ~lost' /\ enc' = enc /\ Grown
      /\ Rests \/ Finishes \/ \E e \in LogEvents : Accepts(e)
  BY WriterSteps DEF PipeInv
<1>3. /\ Len(items) \in Nat /\ Len(accepted) \in Nat /\ Len(seen) \in Nat /\ Place \in Nat \ {0}
      /\ accepted \in Seq(LogEvents)
  BY PipeTypes
<1>4. Len(items') \in Nat
  BY <1>1, LenProperties DEF IInv, TypeOK, SerTypeOK
<1>5. Stands'
  <2>1. Place' = Place /\ native' = native /\ cptr' = cptr /\ mTimestamp' = mTimestamp
    BY DEF Place, desVars
  <2>2. CASE native = "none" /\ cptr = FALSE /\ seen = <<>> /\ rpos = 0
    BY <2>1, <2>2 DEF Stands
  <2>3. CASE /\ native = "live" /\ cptr = TRUE
             /\ Place <= Len(items)
             /\ rpos = items[Place].last
             /\ enc = "four" => mTimestamp = items[Place].ts
    <3>1. Place <= Len(items') /\ items'[Place] = items[Place]
      BY <1>2, <1>3, <1>4, <2>3 DEF Grown
    <3>2. QED
      BY <1>2, <2>1, <2>3, <3>1 DEF Stands
  <2>4. QED
    BY <2>2, <2>3 DEF PipeInv, Stands
<1>6. Follows
  BY DEF PipeInv
<1>7. CASE Rests
  <2>1. Follows'
    BY <1>6, <1>7 DEF Follows, Rests
  <2>2. UNCHANGED Log!vars
    BY <1>7 DEF Rests, Log!vars, Closed
  <2>3. QED
    BY <1>1, <1>2, <1>5, <2>1, <2>2 DEF PipeInv
<1>8. CASE Finishes
  <2>1. Follows'
    BY <1>6, <1>8 DEF Follows, Finishes
  <2>2. Log!Finish
    BY <1>8 DEF Finishes, Log!Finish, Closed
  <2>3. QED
    BY <1>1, <1>2, <1>5, <2>1, <2>2 DEF PipeInv, Log!Next
<1>9. CASE \E e \in LogEvents : Accepts(e)
  <2>1. PICK e \in LogEvents : Accepts(e)
    BY <1>9
  <2>2. /\ Len(accepted') = Len(accepted) + 1
        /\ \A i \in 1 .. Len(accepted) : accepted'[i] = accepted[i]
    BY <1>3, <2>1, AppendProperties DEF Accepts
  <2>3. ~ended /\ ended' = ended
    BY <1>6, <2>1 DEF Follows, Accepts
  <2>4. \A i \in 1 .. Len(seen) : i \in 1 .. Len(accepted)
    BY <1>3, <1>6 DEF Follows
  <2>5. Follows'
    <3>1. seen' = seen
      OBVIOUS
    <3>2. Len(seen') <= Len(accepted')
      BY <1>3, <1>6, <2>2, <3>1 DEF Follows
    <3>3. \A i \in 1 .. Len(seen') : seen'[i] = accepted'[i]
      BY <1>6, <2>2, <2>4, <3>1 DEF Follows
    <3>4. QED
      BY <1>6, <2>3, <3>1, <3>2, <3>3 DEF Follows
  <2>6. Log!Accept
    BY <2>1 DEF Accepts, Log!Accept, Closed
  <2>7. QED
    BY <1>1, <1>2, <1>5, <2>5, <2>6 DEF PipeInv, Log!Next
<1>10. QED
  BY <1>2, <1>7, <1>8, <1>9

-----------------------------------------------------------------------------
(* The steps of the reading side.                                          *)

(* They leave the Writer alone. *)
LEMMA WriterStands ==
    ASSUME PipeInv, UNCHANGED vars
    PROVE  /\ IInv' /\ ~lost' /\ (Closed' <=> Closed)
           /\ UNCHANGED <<enc, items, accepted>>
<1>1. IInv'
  BY StutterKeeps DEF PipeInv
<1>2. UNCHANGED <<enc, serPtr, items, opened, accepted, lost>>
  BY DEF vars, serVars, wVars
<1>3. QED
  BY <1>1, <1>2 DEF PipeInv, Closed

LEMMA OpenKeepsPlace ==
    ASSUME PipeInv, OpenReader
    PROVE  PipeInv' /\ [Log!Next]_(Log!vars)
<1> DEFINE r == PreambleResult(Written, SinkBytes, 0, Len(sink))
           d == DecodePreamble(Written, SinkBytes, 0, Len(sink))
<1>1. /\ native = "none" /\ items # <<>> /\ UNCHANGED <<vars, seen, ended>>
      /\ r.err = Success /\ rpos' = r.pos
      /\ PreambleEffect(Written, SinkBytes, 0, Len(sink))
  BY DEF OpenReader
<1>2. /\ IInv' /\ ~lost' /\ (Closed' <=> Closed)
      /\ UNCHANGED <<enc, items, accepted>>
  BY <1>1, WriterStands
<1>3. 0 # Len(sink) /\ d.err = Success /\ r.pos = Width(Written, 1)
  BY <1>1 DEF PreambleResult, IncompleteIr, Success
<1>4. MetadataError(Written.meta) = Success
  BY DEF MetadataError, Written
<1>5. native' = "live" /\ cptr' = TRUE /\ mTimestamp' = ReferenceTs(Written)
  BY <1>1, <1>3, <1>4 DEF PreambleEffect
<1>6. Len(items) \in Nat /\ items[1] \in Item(Messages) /\ Len(items) >= 1
  BY <1>1, PipeTypes, EmptySeq
<1>7. rpos' = items[1].last
  <2>1. items[1].last \in Nat
    BY <1>6 DEF Item
  <2>2. QED
    BY <1>1, <1>3, <2>1 DEF Width, EndOf, Written
<1>8. enc = "four" => mTimestamp' = items[1].ts
  BY <1>5 DEF ReferenceTs, Written
<1>9. seen = <<>> /\ Place' = 1
  BY <1>1, EmptySeq DEF PipeInv, Stands, Place
<1>10. Stands'
  BY <1>2, <1>5, <1>6, <1>7, <1>8, <1>9 DEF Stands
<1>11. Follows'
  BY <1>1, <1>2 DEF PipeInv, Follows
<1>12. UNCHANGED Log!vars
  BY <1>1, <1>2 DEF Log!vars, Closed
<1>13. QED
  BY <1>2, <1>10, <1>11, <1>12 DEF PipeInv

(* What the item behind the last event handed out is. *)
LEMMA ItemBehind ==
    ASSUME PipeInv, Place + 1 <= Len(items)
    PROVE  \/ /\ Place <= Len(accepted)
              /\ items[Place + 1].kind = "event"
              /\ [ts |-> items[Place + 1].ts, msg |-> items[Place + 1].msg] = accepted[Place]
           \/ /\ seen = accepted /\ Closed
              /\ items[Place + 1].kind = "eof"
<1>1. /\ Len(items) \in Nat /\ Len(accepted) \in Nat /\ Len(seen) \in Nat /\ Place \in Nat \ {0}
      /\ accepted \in Seq(LogEvents) /\ seen \in Seq(LogEvents)
      /\ \A i \in 1 .. Len(accepted) : accepted[i] \in LogEvents
  BY PipeTypes DEF PipeInv, Follows
<1>2. opened = "yes"
  BY <1>1, EmptySeq DEF PipeInv, IInv, Life
<1>3. /\ \A i \in 1 .. Len(accepted) :
            /\ items[i + 1].kind = "event"
            /\ items[i + 1].ts = accepted[i].ts
            /\ items[i + 1].msg = accepted[i].msg
      /\ \A i \in Len(accepted) + 2 .. Len(items) : items[i].kind = "eof"
  BY <1>2 DEF PipeInv, IInv, StreamMeansLog
<1>4. CASE Place <= Len(accepted)
  <2>1. Place \in 1 .. Len(accepted)
    BY <1>1, <1>4
  <2>2. accepted[Place] \in [ts : Times, msg : Messages]
    BY <1>1, <2>1, EventsAssumption
  <2>3. accepted[Place] = [ts |-> accepted[Place].ts, msg |-> accepted[Place].msg]
    BY <2>2
  <2>4. QED
    BY <1>3, <1>4, <2>1, <2>3
<1>5. CASE ~(Place <= Len(accepted))
  <2>1. Place + 1 \in Len(accepted) + 2 .. Len(items) /\ Place + 1 \in 1 .. Len(items)
    BY <1>1, <1>5
  <2>2. items[Place + 1].kind = "eof"
    BY <1>3, <2>1
  <2>3. Len(seen) = Len(accepted)
    BY <1>1, <1>5 DEF PipeInv, Follows, Place
  <2>4. seen = accepted
    BY <1>1, <2>3, SeqEqual DEF PipeInv, Follows
  <2>5. ~serPtr
    BY <2>1, <2>2 DEF PipeInv, IInv, Life
  <2>6. QED
    BY <1>2, <2>2, <2>4, <2>5 DEF Closed
<1>6. QED
  BY <1>4, <1>5

(* A call decodes the item behind the last event handed out, or nothing. *)
LEMMA DecodesNext ==
    ASSUME PipeInv, cptr, NEW j \in 2 .. Len(items),
           HoldsItem(Written, SinkBytes, rpos, Len(sink), j)
    PROVE  j = Place + 1 /\ rpos + Width(Written, j) = items[j].last
<1>1. /\ Len(items) \in Nat /\ Len(sink) \in Nat /\ Place \in Nat \ {0}
      /\ \A i \in 1 .. Len(items) : items[i] \in Item(Messages)
  BY PipeTypes
<1>2. \A i \in 1 .. Len(items) : items[i].last \in Nat
  BY <1>1 DEF Item
<1>3. Place \in 1 .. Len(items) /\ rpos = items[Place].last
  BY <1>1 DEF PipeInv, Stands
<1>4. j - 1 \in 1 .. Len(items) /\ j \in 1 .. Len(items)
  BY <1>1
<1>5. items[j - 1].last < items[j].last
  BY <1>1, <1>4 DEF PipeInv, IInv, Layout
<1>6. EndOf(Written, j - 1) = items[j - 1].last /\ EndOf(Written, j) = items[j].last
  BY <1>1, <1>4 DEF EndOf, Written
<1>7. Width(Written, j) = items[j].last - items[j - 1].last
  BY <1>6 DEF Width
<1>8. Width(Written, j) \in Nat \ {0}
  BY <1>2, <1>4, <1>5, <1>7
<1>9. SinkBytes[rpos] = items[j - 1].last + 1 /\ rpos + Width(Written, j) <= Len(sink)
  <2>1. 0 \in 0 .. Width(Written, j) - 1
    BY <1>8
  <2>2. /\ rpos + Width(Written, j) <= Len(sink)
        /\ SinkBytes[rpos + 0] = EndOf(Written, j - 1) + 1 + 0
    BY <2>1 DEF HoldsItem
  <2>3. rpos \in Nat /\ items[j - 1].last \in Nat
    BY <1>2, <1>3, <1>4
  <2>4. QED
    BY <1>6, <2>2, <2>3
<1>10. SinkBytes[rpos] = rpos + 1
  <2>1. rpos \in 0 .. Len(sink) - 1
    BY <1>1, <1>2, <1>3, <1>8, <1>9
  <2>2. QED
    BY <2>1, SinkIsPrefix, SMTT(30) DEF PipeInv
<1>11. items[j - 1].last = items[Place].last
  <2>1. items[j - 1].last \in Nat /\ rpos \in Nat
    BY <1>2, <1>3, <1>4
  <2>2. items[j - 1].last + 1 = rpos + 1
    BY <1>9, <1>10
  <2>3. items[j - 1].last = rpos
    BY <2>1, <2>2
  <2>4. QED
    BY <1>3, <2>3
<1>12. j - 1 = Place
  <2>1. ~(j - 1 < Place) /\ ~(Place < j - 1)
    BY <1>2, <1>3, <1>4, <1>11 DEF PipeInv, IInv, Layout
  <2>2. QED
    BY <1>1, <1>4, <2>1
<1>13. QED
  BY <1>1, <1>2, <1>3, <1>4, <1>7, <1>11, <1>12

(* The timestamp computed for the item behind the last event is its own. *)
LEMMA ComputesTimestamp ==
    ASSUME PipeInv, cptr, Place + 1 <= Len(items)
    PROVE  DecodedTimestamp(enc, Written, Place + 1) = items[Place + 1].ts
<1>1. /\ Place \in Nat \ {0} /\ Len(items) \in Nat
      /\ \A i \in 1 .. Len(items) : items[i] \in Item(Messages)
  BY PipeTypes
<1>2. Place \in 1 .. Len(items) /\ Place + 1 \in 1 .. Len(items) /\ (Place + 1) - 1 = Place
  BY <1>1
<1>3. items[Place].ts \in Times /\ items[Place + 1].ts \in Times
  BY <1>1, <1>2 DEF Item
<1>4. enc = "four" => mTimestamp = items[Place].ts
  BY DEF PipeInv, Stands
<1>5. Wrap(items[Place].ts + Wrap(items[Place + 1].ts - items[Place].ts)) = items[Place + 1].ts
  BY <1>3, DifferenceAddsUp
<1>6. QED
  BY <1>2, <1>4, <1>5 DEF DecodedTimestamp, Delta, Written

(* What a call of the native code may return. *)
LEMMA Returns ==
    ASSUME PipeInv, cptr, NEW r, r = LogEventResult(Written, SinkBytes, rpos, Len(sink))
    PROVE  \/ /\ rpos # Len(sink)
              /\ Place + 1 <= Len(items)
              /\ r.item = Place + 1
              /\ r.err = Outcome(items[Place + 1].kind)
              /\ r.err = Success => r.ts = items[Place + 1].ts
              /\ rpos + Width(Written, r.item) = items[Place + 1].last
           \/ r.err \in {IncompleteIr, CorruptedIr}
<1> DEFINE d == DecodeEvent(Written, SinkBytes, rpos, Len(sink))
<1>1. CASE rpos = Len(sink)
  BY <1>1 DEF LogEventResult, NoEvent
<1>2. CASE rpos # Len(sink)
  <2>1. r = NextEvent(enc, Written, SinkBytes, rpos, Len(sink))
    <3>1. enc \in Encodings
      BY PipeTypes
    <3>2. Written.enc = enc
      BY DEF Written
    <3>3. CASE enc = "eight"
      BY <1>2, <3>2, <3>3 DEF LogEventResult, EightByteLogEvent, DeserializeLogEvent
    <3>4. CASE enc = "four"
      BY <1>2, <3>2, <3>4 DEF LogEventResult, FourByteLogEvent, DeserializeLogEvent
    <3>5. QED
      BY <3>1, <3>3, <3>4 DEF Encodings
  <2>2. /\ r.err = d.err /\ r.item = d.item
        /\ r.err = Success => r.ts = DecodedTimestamp(enc, Written, d.item)
    BY <2>1 DEF NextEvent
  <2> HIDE DEF d
  <2>3. \/ /\ d.item \in 2 .. Len(items)
           /\ HoldsItem(Written, SinkBytes, rpos, Len(sink), d.item)
           /\ d.err = Outcome(items[d.item].kind)
        \/ d.err \in {IncompleteIr, CorruptedIr}
    BY DecodeSound DEF d, DecodeEvent, Written, Count
  <2>4. CASE d.err \in {IncompleteIr, CorruptedIr}
    BY <2>2, <2>4
  <2>5. CASE /\ d.item \in 2 .. Len(items)
             /\ HoldsItem(Written, SinkBytes, rpos, Len(sink), d.item)
             /\ d.err = Outcome(items[d.item].kind)
    <3>1. d.item = Place + 1 /\ rpos + Width(Written, d.item) = items[d.item].last
      BY <2>5, DecodesNext
    <3>2. Place + 1 <= Len(items)
      BY <2>5, <3>1
    <3>3. DecodedTimestamp(enc, Written, Place + 1) = items[Place + 1].ts
      BY <3>2, ComputesTimestamp
    <3>4. QED
      BY <1>2, <2>2, <2>5, <3>1, <3>2, <3>3
  <2>6. QED
    BY <2>3, <2>4, <2>5
<1>3. QED
  BY <1>1, <1>2

LEMMA ReadKeepsPlace ==
    ASSUME PipeInv, ReadNext
    PROVE  PipeInv' /\ [Log!Next]_(Log!vars)
<1>1. PICK r \in {LogEventResult(Written, SinkBytes, rpos, Len(sink))} :
         /\ LogEventEffect(rpos, Len(sink), r)
         /\ \/ /\ r.err = Success
               /\ rpos' = rpos + Width(Written, r.item)
               /\ seen' = Append(seen, [ts |-> r.ts, msg |-> items[r.item].msg])
               /\ UNCHANGED ended
            \/ /\ r.err # Success
               /\ ended' = (ended \/ r.err = EndOfIr)
               /\ UNCHANGED <<rpos, seen>>
  BY DEF ReadNext
<1>2. cptr /\ UNCHANGED vars
  BY DEF ReadNext
<1>3. /\ IInv' /\ ~lost' /\ (Closed' <=> Closed)
      /\ UNCHANGED <<enc, items, accepted>>
  BY <1>2, WriterStands
<1>4. /\ Len(items) \in Nat /\ Len(accepted) \in Nat /\ Len(seen) \in Nat /\ Place \in Nat \ {0}
      /\ \A i \in 1 .. Len(accepted) : accepted[i] \in LogEvents
      /\ seen \in Seq(LogEvents)
  BY PipeTypes DEF PipeInv, Follows
<1>5. /\ native = "live" /\ cptr = TRUE
      /\ Place <= Len(items)
      /\ rpos = items[Place].last
      /\ enc = "four" => mTimestamp = items[Place].ts
  BY <1>2 DEF PipeInv, Stands
<1>6. \/ /\ rpos # Len(sink)
         /\ Place + 1 <= Len(items)
         /\ r.item = Place + 1
         /\ r.err = Outcome(items[Place + 1].kind)
         /\ r.err = Success => r.ts = items[Place + 1].ts
         /\ rpos + Width(Written, r.item) = items[Place + 1].last
      \/ r.err \in {IncompleteIr, CorruptedIr}
  BY <1>1, <1>2, Returns
<1>7. native' = native /\ cptr' = cptr
  BY <1>1 DEF LogEventEffect, DecodeEffect, desVars
<1>8. CASE r.err = Success
  <2>1. /\ rpos # Len(sink)
        /\ Place + 1 <= Len(items)
        /\ r.item = Place + 1
        /\ r.err = Outcome(items[Place + 1].kind)
        /\ r.ts = items[Place + 1].ts
        /\ rpos' = items[Place + 1].last
        /\ seen' = Append(seen, [ts |-> items[Place + 1].ts, msg |-> items[Place + 1].msg])
        /\ ended' = ended
    BY <1>1, <1>6, <1>8 DEF Success, IncompleteIr, CorruptedIr
  <2>2. items[Place + 1].kind # "eof"
    BY <1>8, <2>1 DEF Outcome, EndOfIr, Success
  <2>3. /\ Place <= Len(accepted)
        /\ seen' = Append(seen, accepted[Place])
    BY <2>1, <2>2, ItemBehind
  <2>4. accepted[Place] \in LogEvents
    BY <1>4, <2>3
  <2>5. /\ seen' \in Seq(LogEvents)
        /\ Len(seen') = Len(seen) + 1
        /\ \A i \in 1 .. Len(seen) : seen'[i] = seen[i]
        /\ seen'[Len(seen) + 1] = accepted[Place]
    BY <1>4, <2>3, <2>4, AppendProperties
  <2>6. Len(seen) < Len(accepted) /\ Place = Len(seen) + 1 /\ Place' = Place + 1
    BY <1>4, <2>3, <2>5 DEF Place
  <2>7. ~ended
    BY <1>4, <2>6 DEF PipeInv, Follows
  <2>8. Follows'
    <3>1. Len(seen') <= Len(accepted')
      BY <1>3, <1>4, <2>5, <2>6
    <3>2. ASSUME NEW i \in 1 .. Len(seen') PROVE seen'[i] = accepted'[i]
      <4>1. CASE i = Len(seen) + 1
        BY <1>3, <2>5, <2>6, <4>1
      <4>2. CASE i # Len(seen) + 1
        <5>1. i \in 1 .. Len(seen)
          BY <1>4, <2>5, <4>2
        <5>2. QED
          BY <1>3, <2>5, <5>1 DEF PipeInv, Follows
      <4>3. QED
        BY <4>1, <4>2
    <3>3. ended' = FALSE
      BY <2>1, <2>7 DEF PipeInv, Follows
    <3>4. QED
      BY <2>5, <3>1, <3>2, <3>3 DEF Follows
  <2>9. enc = "four" => mTimestamp' = items[Place + 1].ts
    <3>1. mTimestamp' = r.ts
      BY <1>1, <1>2, <1>8, <2>1 DEF LogEventEffect, DecodeEffect
    <3>2. QED
      BY <2>1, <3>1
  <2>10. Stands'
    BY <1>3, <1>5, <1>7, <2>1, <2>6, <2>9 DEF Stands
  <2>11. Log!See
    BY <1>3, <2>1, <2>3, <2>6, <2>7 DEF Log!See, Closed
  <2>12. QED
    BY <1>3, <2>8, <2>10, <2>11 DEF PipeInv, Log!Next
<1>9. CASE r.err # Success
  <2>1. ended' = (ended \/ r.err = EndOfIr) /\ rpos' = rpos /\ seen' = seen
    BY <1>1, <1>9
  <2>2. mTimestamp' = mTimestamp /\ Place' = Place
    BY <1>1, <1>9, <2>1 DEF LogEventEffect, DecodeEffect, desVars, Place
  <2>3. Stands'
    BY <1>3, <1>5, <1>7, <2>1, <2>2 DEF Stands
  <2>4. CASE r.err = EndOfIr
    <3>1. Place + 1 <= Len(items) /\ r.err = Outcome(items[Place + 1].kind)
      BY <1>6, <2>4 DEF EndOfIr, IncompleteIr, CorruptedIr
    <3>2. items[Place + 1].kind # "event"
      BY <2>4, <3>1 DEF Outcome, EndOfIr, Success
    <3>3. seen = accepted /\ Closed
      BY <3>1, <3>2, ItemBehind
    <3>4. ended' = TRUE
      BY <2>1, <2>4
    <3>5. Follows'
      BY <1>3, <2>1, <3>3, <3>4 DEF PipeInv, Follows
    <3>6. Log!SeeEnd
      BY <1>3, <2>1, <3>3, <3>4 DEF Log!SeeEnd, Closed
    <3>7. QED
      BY <1>3, <2>3, <3>5, <3>6 DEF PipeInv, Log!Next
  <2>5. CASE r.err # EndOfIr
    <3>1. ended' = ended
      BY <2>1, <2>5 DEF PipeInv, Follows
    <3>2. Follows'
      BY <1>3, <2>1, <3>1 DEF PipeInv, Follows
    <3>3. UNCHANGED Log!vars
      BY <1>3, <2>1, <3>1 DEF Log!vars, Closed
    <3>4. QED
      BY <1>3, <2>3, <3>2, <3>3 DEF PipeInv
  <2>6. QED
    BY <2>4, <2>5
<1>10. QED
  BY <1>8, <1>9

-----------------------------------------------------------------------------
(* The results.                                                            *)

LEMMA PipeStarts == PipeInit => PipeInv /\ Log!Init
<1> SUFFICES ASSUME PipeInit PROVE PipeInv /\ Log!Init
  OBVIOUS
<1>1. /\ Init /\ native = "none" /\ cptr = FALSE /\ rpos = 0 /\ seen = <<>> /\ ended = FALSE
      /\ opened = "no" /\ accepted = <<>> /\ lost = FALSE
  BY DEF PipeInit, DesInit, Init
<1>2. IInv
  BY <1>1, InitHolds
<1>3. Follows
  <2>1. seen \in Seq(LogEvents) /\ Len(seen) = 0 /\ Len(accepted) = 0
    BY <1>1, EmptySeq
  <2>2. Len(seen) <= Len(accepted) /\ \A i \in 1 .. Len(seen) : seen[i] = accepted[i]
    BY <2>1
  <2>3. ended \in BOOLEAN /\ ~ended
    BY <1>1
  <2>4. QED
    BY <2>1, <2>2, <2>3 DEF Follows
<1>4. Stands
  BY <1>1 DEF Stands
<1>5. Closed = FALSE
  BY <1>1 DEF Closed
<1>6. QED
  BY <1>1, <1>2, <1>3, <1>4, <1>5 DEF PipeInv, Log!Init

LEMMA PipeSteps == PipeInv /\ [PipeNext]_pipeVars => PipeInv' /\ [Log!Next]_(Log!vars)
<1> SUFFICES ASSUME PipeInv, [PipeNext]_pipeVars
             PROVE  PipeInv' /\ [Log!Next]_(Log!vars)
  OBVIOUS
<1>1. CASE Writing
  BY <1>1, WritingKeeps DEF Writing
<1>2. CASE OpenReader
  BY <1>2, OpenKeepsPlace
<1>3. CASE ReadNext
  BY <1>3, ReadKeepsPlace
<1>4. CASE UNCHANGED pipeVars
  <2>1. UNCHANGED vars /\ UNCHANGED <<desVars, rpos, seen, ended>>
    BY <1>4 DEF pipeVars
  <2>2. QED
    BY <2>1, WritingKeeps
<1>5. QED
  BY <1>1, <1>2, <1>3, <1>4 DEF PipeNext

(* At every step of both sides what was handed out is a prefix of what was *)
(* accepted, and the reading side stands behind the last of it.            *)
THEOREM PipeInvariant == PipeSpec => []PipeInv
<1>1. QED
  BY PipeStarts, PipeSteps, PTL DEF PipeSpec

(* Writer and reading side implement the log: each event that Write        *)
(* accepted is handed out once, in order, with its message and timestamp,  *)
(* and the end after the last of them, for every size of the events, every *)
(* timestamp and every way to drain the buffer.                            *)
THEOREM PipeImplementsLog == PipeSpec => ImplementsLog
<1>1. QED
  BY PipeStarts, PipeSteps, PTL DEF PipeSpec, ImplementsLog, Log!Spec
=============================================================================
