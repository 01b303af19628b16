---------------------------- MODULE WriterProofs ----------------------------
(***************************************************************************)
(* Proofs about Writer, for every set of messages, events, sizes and       *)
(* every bound.                                                            *)
(***************************************************************************)
EXTENDS Writer, IrFormatProofs, SequenceTheorems

-----------------------------------------------------------------------------
(* Sequences of offsets. *)

Rising(b)   == \A i, j \in 1 .. Len(b) : i < j => b[i] < b[j]
Whole(b, m) == Len(b) = m /\ \A k \in 1 .. m : b[k] = k
Behind(m, d) == [k \in 1 .. d |-> m + k]

LEMMA BehindType ==
    ASSUME NEW m \in Nat, NEW d \in Nat
    PROVE  /\ Behind(m, d) \in Seq(1 .. m + d)
           /\ Len(Behind(m, d)) = d
           /\ \A k \in 1 .. d : Behind(m, d)[k] = m + k
<1>1. Behind(m, d) \in [1 .. d -> 1 .. m + d]
  BY DEF Behind
<1>2. Behind(m, d) \in Seq(1 .. m + d)
  BY <1>1, SeqDef
<1>3. DOMAIN Behind(m, d) = 1 .. d
  BY DEF Behind
<1>4. Len(Behind(m, d)) = d
  BY <1>2, <1>3, LenProperties
<1>5. QED
  BY <1>2, <1>4 DEF Behind

(* Bytes behind all others keep the order, and leave no gap. *)
LEMMA AppendBytes ==
    ASSUME NEW m \in Nat, NEW d \in Nat, NEW b \in Seq(1 .. m)
    PROVE  /\ b \o Behind(m, d) \in Seq(1 .. m + d)
           /\ Rising(b) => Rising(b \o Behind(m, d))
           /\ Whole(b, m) => Whole(b \o Behind(m, d), m + d)
<1>1. b \in Seq(1 .. m + d)
  BY SeqMonotonic, 1 .. m \subseteq 1 .. m + d
<1>2. /\ b \o Behind(m, d) \in Seq(1 .. m + d)
      /\ Len(b \o Behind(m, d)) = Len(b) + d
      /\ \A i \in 1 .. Len(b) + d :
            (b \o Behind(m, d))[i] = IF i <= Len(b) THEN b[i] ELSE Behind(m, d)[i - Len(b)]
  <2> DEFINE S == 1 .. m + d
  <2> DEFINE t == Behind(m, d)
  <2>1. b \in Seq(S) /\ t \in Seq(S) /\ Len(t) = d
    BY <1>1, BehindType
  <2> HIDE DEF S, t
  <2>2. /\ b \o t \in Seq(S)
        /\ Len(b \o t) = Len(b) + Len(t)
        /\ \A i \in 1 .. Len(b) + Len(t) : (b \o t)[i] = IF i <= Len(b) THEN b[i] ELSE t[i - Len(b)]
    BY <2>1, ConcatProperties
  <2>3. QED
    BY <2>1, <2>2 DEF S, t
<1>3. Len(b) \in Nat /\ \A i \in 1 .. Len(b) : b[i] \in 1 .. m
  BY LenProperties, ElementOfSeq
<1> DEFINE c == b \o Behind(m, d)
<1>4. /\ \A i \in 1 .. Len(b) : c[i] = b[i]
      /\ \A i \in Len(b) + 1 .. Len(b) + d : c[i] = m + (i - Len(b))
  <2> DEFINE t == Behind(m, d)
  <2>1. \A k \in 1 .. d : t[k] = m + k
    BY BehindType
  <2>2. \A i \in 1 .. Len(b) + d : c[i] = IF i <= Len(b) THEN b[i] ELSE t[i - Len(b)]
    BY <1>2
  <2> HIDE DEF t, c
  <2>3. ASSUME NEW i \in 1 .. Len(b) PROVE c[i] = b[i]
    BY <1>3, <2>2
  <2>4. ASSUME NEW i \in Len(b) + 1 .. Len(b) + d PROVE c[i] = m + (i - Len(b))
    <3>1. i - Len(b) \in 1 .. d /\ ~(i <= Len(b)) /\ i \in 1 .. Len(b) + d
      BY <1>3
    <3>2. QED
      BY <2>1, <2>2, <3>1
  <2>5. QED
    BY <2>3, <2>4
<1>5. ASSUME Rising(b) PROVE Rising(c)
  <2> SUFFICES ASSUME NEW i \in 1 .. Len(c), NEW j \in 1 .. Len(c), i < j
               PROVE  c[i] < c[j]
    BY DEF Rising
  <2> HIDE DEF c
  <2>1. Len(c) = Len(b) + d
    BY <1>2 DEF c
  <2>2. CASE j <= Len(b)
    BY <1>3, <1>4, <1>5, <2>1, <2>2 DEF Rising
  <2>3. CASE i <= Len(b) /\ j > Len(b)
    <3>1. c[i] \in 1 .. m /\ c[j] = m + (j - Len(b))
      BY <1>3, <1>4, <2>1, <2>3
    <3>2. QED
      BY <1>3, <2>1, <2>3, <3>1
  <2>4. CASE i > Len(b)
    BY <1>3, <1>4, <2>1, <2>4
  <2>5. QED
    BY <1>3, <2>1, <2>2, <2>3, <2>4
<1>6. ASSUME Whole(b, m) PROVE Whole(c, m + d)
  BY <1>2, <1>3, <1>4, <1>6 DEF Whole
<1>7. QED
  BY <1>2, <1>5, <1>6

LEMMA Associative ==
    ASSUME NEW S, NEW a \in Seq(S), NEW x \in Seq(S), NEW y \in Seq(S)
    PROVE  (a \o x) \o y = a \o (x \o y)
BY ConcatAssociative, SMT

(* A drain moves bytes from one sequence to the other. *)
LEMMA DrainKeeps ==
    ASSUME NEW m \in Nat, NEW a \in Seq(1 .. m), NEW w \in Seq(1 .. m), NEW n \in 0 .. Len(w)
    PROVE  /\ a \o SubSeq(w, 1, n) \in Seq(1 .. m)
           /\ SubSeq(w, n + 1, Len(w)) \in Seq(1 .. m)
           /\ (a \o SubSeq(w, 1, n)) \o SubSeq(w, n + 1, Len(w)) = a \o w
<1>1. Len(w) \in Nat /\ n \in Nat /\ \A i \in 1 .. Len(w) : w[i] \in 1 .. m
  BY LenProperties, ElementOfSeq
<1>2. SubSeq(w, 1, n) \in Seq(1 .. m)
  BY <1>1, SubSeqProperties
<1>3. SubSeq(w, n + 1, Len(w)) \in Seq(1 .. m)
  <2>1. \A i \in n + 1 .. Len(w) : w[i] \in 1 .. m
    BY <1>1
  <2>2. n + 1 \in Int /\ Len(w) \in Int
    BY <1>1
  <2>3. QED
    BY <2>1, <2>2, SubSeqProperties
<1>4. SubSeq(w, 1, n) \o SubSeq(w, n + 1, Len(w)) = w
  <2>1. 1 \in 1 .. Len(w) + 1 /\ n \in 1 - 1 .. Len(w) /\ Len(w) \in n .. Len(w)
    BY <1>1
  <2>2. SubSeq(w, 1, n) \o SubSeq(w, n + 1, Len(w)) = SubSeq(w, 1, Len(w))
    BY <2>1, ConcatAdjacentSubSeq
  <2>3. QED
    BY <2>2, SubSeqFull
<1>5. QED
  <2> DEFINE S == 1 .. m
  <2> DEFINE x == SubSeq(w, 1, n)
  <2> DEFINE y == SubSeq(w, n + 1, Len(w))
  <2>1. a \in Seq(S) /\ x \in Seq(S) /\ y \in Seq(S)
    BY <1>2, <1>3
  <2>2. x \o y = w
    BY <1>4
  <2> HIDE DEF S, x, y
  <2>3. a \o x \in Seq(S)
    BY <2>1, ConcatProperties
  <2>4. (a \o x) \o y = a \o (x \o y)
    BY <2>1, Associative, SMTT(30)
  <2>5. (a \o x) \o y = a \o w
    BY <2>2, <2>4, Zenon
  <2>6. QED
    BY <2>1, <2>3, <2>5 DEF S, x, y

(* Bytes added to the buffer, with the rest already in the sink. *)
LEMMA BufferGrows ==
    ASSUME NEW m \in Nat, NEW d \in Nat, NEW a \in Seq(1 .. m), NEW w \in Seq(1 .. m)
    PROVE  /\ a \in Seq(1 .. m + d)
           /\ w \o Behind(m, d) \in Seq(1 .. m + d)
           /\ a \o (w \o Behind(m, d)) = (a \o w) \o Behind(m, d)
           /\ Rising(a \o w) => Rising(a \o (w \o Behind(m, d)))
           /\ Whole(a \o w, m) => Whole(a \o (w \o Behind(m, d)), m + d)
<1>1. a \in Seq(1 .. m + d) /\ w \in Seq(1 .. m + d)
  BY SeqMonotonic, 1 .. m \subseteq 1 .. m + d
<1>2. a \o w \in Seq(1 .. m)
  BY ConcatProperties
<1>3. Behind(m, d) \in Seq(1 .. m + d)
  BY BehindType
<1>4. a \o (w \o Behind(m, d)) = (a \o w) \o Behind(m, d)
  <2> DEFINE S == 1 .. m + d
  <2> DEFINE t == Behind(m, d)
  <2>1. a \in Seq(S) /\ w \in Seq(S) /\ t \in Seq(S)
    BY <1>1, <1>3
  <2> HIDE DEF S, t
  <2>2. (a \o w) \o t = a \o (w \o t)
    BY <2>1, Associative, SMT
  <2>3. QED
    BY <2>2 DEF t
<1>5. w \o Behind(m, d) \in Seq(1 .. m + d)
  BY AppendBytes
<1>6. /\ Rising(a \o w) => Rising((a \o w) \o Behind(m, d))
      /\ Whole(a \o w, m) => Whole((a \o w) \o Behind(m, d), m + d)
  BY <1>2, AppendBytes
<1>7. QED
  BY <1>1, <1>4, <1>5, <1>6

-----------------------------------------------------------------------------
(* The inductive invariant.                                                *)

Layout ==
    /\ \A i \in 1 .. Len(items) : items[i].last >= 1
    /\ \A i, j \in 1 .. Len(items) : i < j => items[i].last < items[j].last

Life ==
    /\ opened # "yes" => /\ items = <<>> /\ wbuf = <<>> /\ sink = <<>> /\ accepted = <<>>
                         /\ ~serPtr /\ ~lost
    /\ opened = "yes" => items # <<>>
    /\ serPtr => /\ serNative = "live"
                 /\ \A i \in 1 .. Len(items) : items[i].kind # "eof"
                 /\ enc = "four" => prevTimestamp = items[Len(items)].ts
                 /\ ~lost => Len(items) = Len(accepted) + 1

Bytes ==
    /\ Rising(sink \o wbuf)
    /\ ~lost => Whole(sink \o wbuf, Size)

IInv == TypeOK /\ Layout /\ Life /\ Bytes /\ StreamMeansLog /\ ClosedIsFinal

LEMMA SizeFacts ==
    ASSUME items \in Seq(Item(Messages)), Layout
    PROVE  /\ Len(items) \in Nat
           /\ Size \in Nat
           /\ \A i \in 1 .. Len(items) : items[i] \in Item(Messages) /\ items[i].last <= Size
           /\ items # <<>> => Size = items[Len(items)].last
           /\ items = <<>> => Size = 0
<1>1. Len(items) \in Nat /\ \A i \in 1 .. Len(items) : items[i] \in Item(Messages)
  BY LenProperties, ElementOfSeq
<1>2. \A i \in 1 .. Len(items) : items[i].last \in Nat
  BY <1>1 DEF Item
<1>3. Size = IF Len(items) = 0 THEN 0 ELSE items[Len(items)].last
  BY DEF Size, EndOf, Produced
<1>4. items = <<>> <=> Len(items) = 0
  BY EmptySeq
<1>5. Size \in Nat
  BY <1>1, <1>2, <1>3
<1>6. ASSUME NEW i \in 1 .. Len(items) PROVE items[i].last <= Size
  <2>1. Len(items) # 0 /\ Len(items) \in 1 .. Len(items)
    BY <1>1
  <2>2. Size = items[Len(items)].last
    BY <1>3, <2>1
  <2>3. i = Len(items) \/ items[i].last < items[Len(items)].last
    BY <1>1, <2>1 DEF Layout
  <2>4. QED
    BY <1>2, <2>1, <2>2, <2>3
<1>7. QED
  BY <1>1, <1>3, <1>4, <1>5, <1>6

(* What an operation that produces an item does to the history. *)
LEMMA ProduceFacts ==
    ASSUME items \in Seq(Item(Messages)), Layout,
           NEW kind \in Kinds, NEW size \in Nat \ {0}, NEW ts \in Times, NEW msg \in Messages,
           Produce(kind, size, ts, msg)
    PROVE  /\ items' \in Seq(Item(Messages))
           /\ Len(items') = Len(items) + 1
           /\ \A i \in 1 .. Len(items) : items'[i] = items[i]
           /\ items'[Len(items) + 1].kind = kind
           /\ items'[Len(items) + 1].ts = ts
           /\ items'[Len(items) + 1].msg = msg
           /\ items' # <<>>
           /\ Layout'
           /\ Size' = Size + size
           /\ NewBytes = Behind(Size, size)
<1> DEFINE e == [kind |-> kind, last |-> Size + size, ts |-> ts, msg |-> msg]
<1>1. e \in Item(Messages)
  BY SizeFacts DEF Item
<1>2. items' = Append(items, e)
  BY DEF Produce
<1>3. /\ items' \in Seq(Item(Messages))
      /\ Len(items') = Len(items) + 1
      /\ \A i \in 1 .. Len(items) : items'[i] = items[i]
      /\ items'[Len(items) + 1] = e
  <2> HIDE DEF e
  <2>1. QED
    BY <1>1, <1>2, AppendProperties
<1>4. Size' = Size + size
  <2>1. Len(items') # 0 /\ items'[Len(items')].last = Size + size
    BY <1>3, SizeFacts
  <2>2. Size' = IF Len(items') = 0 THEN 0 ELSE items'[Len(items')].last
    BY DEF Size, EndOf, Produced
  <2>3. QED
    BY <2>1, <2>2
<1>5. Layout'
  <2>1. \A i \in 1 .. Len(items') : items'[i].last >= 1
    <3>1. \A i \in 1 .. Len(items) : items'[i].last >= 1
      BY <1>3 DEF Layout
    <3>2. items'[Len(items) + 1].last >= 1
      BY <1>3, SizeFacts
    <3>3. QED
      BY <1>3, <3>1, <3>2, SizeFacts
  <2>2. ASSUME NEW i \in 1 .. Len(items'), NEW j \in 1 .. Len(items'), i < j
        PROVE  items'[i].last < items'[j].last
    <3>1. i \in 1 .. Len(items)
      BY <1>3, <2>2, SizeFacts
    <3>2. CASE j \in 1 .. Len(items)
      BY <1>3, <2>2, <3>1, <3>2 DEF Layout
    <3>3. CASE j = Len(items) + 1
      <4>1. items'[j].last = Size + size /\ items'[i].last = items[i].last
        BY <1>3, <3>1, <3>3
      <4>2. items[i].last <= Size /\ items[i].last \in Nat /\ Size \in Nat
        BY <3>1, SizeFacts DEF Item
      <4>3. QED
        BY <4>1, <4>2
    <3>4. QED
      BY <1>3, <3>2, <3>3, SizeFacts
  <2>3. QED
    BY <2>1, <2>2 DEF Layout
<1>6. NewBytes = Behind(Size, size)
  <2>1. Size' - Size = size
    BY <1>4, SizeFacts
  <2>2. QED
    BY <2>1 DEF NewBytes, Behind
<1>7. QED
  BY <1>3, <1>4, <1>5, <1>6, SizeFacts, EmptySeq

-----------------------------------------------------------------------------
(* The timestamp a reader computes is that of the event, whatever was      *)
(* serialised before it.                                                   *)
LEMMA EventUnderstood ==
    ASSUME TypeOK, Life, NEW event \in LogEvents, SerializeSucceeds(event)
    PROVE  /\ \E size \in EventSizes : Produce("event", size, event.ts, event.msg)
           /\ serPtr /\ irBuf' = Len(items) + 1
           /\ event.ts \in Times /\ event.msg \in Messages
<1>1. event.ts \in Times /\ event.msg \in Messages
  BY EventsAssumption
<1>2. CASE SerializeFourByteLogEvent(event)
  <2>1. enc = "four" /\ serPtr /\ SerializeNative(Wrap(event.ts - prevTimestamp), event.msg)
    BY <1>2 DEF SerializeFourByteLogEvent, SerializeNative
  <2>2. prevTimestamp = items[Len(items)].ts /\ prevTimestamp \in Times
    BY <2>1 DEF Life, TypeOK, SerTypeOK
  <2>3. Wrap(prevTimestamp + Wrap(event.ts - prevTimestamp)) = event.ts
    BY <1>1, <2>2, DifferenceAddsUp
  <2>4. Understood(Wrap(event.ts - prevTimestamp)) = event.ts
    BY <2>1, <2>2, <2>3 DEF Understood
  <2>5. QED
    BY <1>1, <2>1, <2>4 DEF SerializeNative
<1>3. CASE SerializeEightByteLogEvent(event)
  <2>1. enc # "four" /\ SerializeNative(event.ts, event.msg)
    BY <1>3 DEF SerializeEightByteLogEvent
  <2>2. Understood(event.ts) = event.ts
    BY <2>1 DEF Understood
  <2>3. QED
    BY <1>1, <2>1, <2>2 DEF SerializeNative
<1>4. QED
  BY <1>2, <1>3 DEF SerializeSucceeds

(* A successful SerializeLogEvent. *)
LEMMA EventProduced ==
    ASSUME IInv, NEW event \in LogEvents, SerializeSucceeds(event)
    PROVE  \E d \in Nat \ {0} :
              /\ serPtr /\ serPtr' /\ serNative' = "live"
              /\ SerTypeOK' /\ Layout' /\ ClosedIsFinal'
              /\ items' # <<>>
              /\ \A i \in 1 .. Len(items') : items'[i].kind # "eof"
              /\ Len(items') = Len(items) + 1
              /\ \A i \in 1 .. Len(items) : items'[i] = items[i]
              /\ items'[Len(items) + 1].kind = "event"
              /\ items'[Len(items) + 1].ts = event.ts
              /\ items'[Len(items) + 1].msg = event.msg
              /\ enc' = "four" => prevTimestamp' = event.ts
              /\ Size' = Size + d
              /\ NewBytes = Behind(Size, d)
<1>1. serPtr /\ serPtr' /\ serNative = "live" /\ serNative' = "live" /\ enc' = enc
  BY EventUnderstood DEF IInv, Life, SerializeSucceeds
<1>2. event.ts \in Times /\ event.msg \in Messages /\ irBuf' = Len(items) + 1
  BY EventUnderstood DEF IInv
<1>3. PICK d \in EventSizes : Produce("event", d, event.ts, event.msg)
  BY EventUnderstood DEF IInv
<1>4. d \in Nat \ {0} /\ "event" \in Kinds
  BY SizesAssumption DEF Kinds
<1>5. items \in Seq(Item(Messages)) /\ Layout /\ Len(items) \in Nat
  BY SizeFacts DEF IInv, TypeOK, SerTypeOK
<1>6. /\ items' \in Seq(Item(Messages))
      /\ Len(items') = Len(items) + 1
      /\ \A i \in 1 .. Len(items) : items'[i] = items[i]
      /\ items'[Len(items) + 1].kind = "event"
      /\ items'[Len(items) + 1].ts = event.ts
      /\ items'[Len(items) + 1].msg = event.msg
      /\ items' # <<>>
      /\ Layout'
      /\ Size' = Size + d
      /\ NewBytes = Behind(Size, d)
  BY <1>2, <1>3, <1>4, <1>5, ProduceFacts
<1>7. prevTimestamp' = IF enc = "four" THEN event.ts ELSE prevTimestamp
  BY DEF SerializeSucceeds, NextTimestamp
<1>8. SerTypeOK'
  <2>1. enc' \in Encodings /\ prevTimestamp' \in Times
    BY <1>1, <1>2, <1>7 DEF IInv, TypeOK, SerTypeOK
  <2>2. irBuf' \in 0 .. Len(items')
    BY <1>2, <1>5, <1>6
  <2>3. QED
    BY <1>1, <1>6, <2>1, <2>2 DEF SerTypeOK
<1>9. \A i \in 1 .. Len(items') : items'[i].kind # "eof"
  <2>1. \A i \in 1 .. Len(items) : items'[i].kind # "eof"
    BY <1>1, <1>6 DEF IInv, Life
  <2>2. QED
    BY <1>5, <1>6, <2>1
<1>10. ClosedIsFinal'
  BY <1>1, <1>9 DEF ClosedIsFinal
<1>11. QED
  BY <1>1, <1>4, <1>6, <1>7, <1>8, <1>9, <1>10

(* The end tag, and the handle closed with it. *)
LEMMA TagProduced ==
    ASSUME IInv, EndStream
    PROVE  /\ opened = "yes" /\ ~serPtr'
           /\ SerTypeOK' /\ Layout' /\ ClosedIsFinal'
           /\ items' # <<>>
           /\ Len(items') = Len(items) + 1
           /\ \A i \in 1 .. Len(items) : items'[i] = items[i]
           /\ items'[Len(items) + 1].kind = "eof"
           /\ Size' = Size + 1
           /\ NewBytes = Behind(Size, 1)
<1>1. /\ opened = "yes" /\ Produce("eof", 1, 0, AnyMessage) /\ serPtr' = FALSE
      /\ serNative' = (IF serPtr THEN "freed" ELSE serNative)
      /\ enc' = enc /\ prevTimestamp' = prevTimestamp /\ irBuf' = irBuf
  BY DEF EndStream, SerCloseNative, SerDelete
<1>2. "eof" \in Kinds /\ 1 \in Nat \ {0} /\ 0 \in Times /\ AnyMessage \in Messages
  BY MaxTimeAssumption, MessagesAssumption DEF Kinds, Times, MinTime, AnyMessage
<1>3. items \in Seq(Item(Messages)) /\ Layout /\ Len(items) \in Nat /\ SerTypeOK
  BY SizeFacts DEF IInv, TypeOK, SerTypeOK
<1>4. /\ items' \in Seq(Item(Messages))
      /\ Len(items') = Len(items) + 1
      /\ \A i \in 1 .. Len(items) : items'[i] = items[i]
      /\ items'[Len(items) + 1].kind = "eof"
      /\ items' # <<>>
      /\ Layout'
      /\ Size' = Size + 1
      /\ NewBytes = Behind(Size, 1)
  BY <1>1, <1>2, <1>3, ProduceFacts
<1>5. SerTypeOK'
  <2>1. irBuf' \in 0 .. Len(items')
    BY <1>1, <1>3, <1>4 DEF SerTypeOK
  <2>2. serNative' \in {"none", "live", "freed"}
    BY <1>1, <1>3 DEF SerTypeOK
  <2>3. QED
    BY <1>1, <1>3, <1>4, <2>1, <2>2 DEF SerTypeOK
<1>6. ClosedIsFinal'
  <2> SUFFICES ASSUME NEW i \in 1 .. Len(items'), NEW j \in 1 .. Len(items'),
                      i < j, items'[i].kind = "eof"
               PROVE  items'[j].kind = "eof"
    BY <1>1 DEF ClosedIsFinal
  <2>1. CASE j = Len(items) + 1
    BY <1>4, <2>1
  <2>2. CASE j # Len(items) + 1
    <3>1. i \in 1 .. Len(items) /\ j \in 1 .. Len(items)
      BY <1>3, <1>4, <2>2
    <3>2. items[j].kind = "eof"
      BY <1>4, <3>1 DEF IInv, ClosedIsFinal
    <3>3. QED
      BY <1>4, <3>1, <3>2
  <2>3. QED
    BY <2>1, <2>2
<1>7. QED
  BY <1>1, <1>4, <1>5, <1>6

-----------------------------------------------------------------------------
(* One lemma per action.                                                   *)

LEMMA WriteKeeps ==
    ASSUME IInv, Write
    PROVE  IInv'
<1>1. PICK event \in LogEvents :
         \/ /\ SerializeSucceeds(event)
            /\ wbuf' = wbuf \o NewBytes
            /\ accepted' = Append(accepted, event)
         \/ /\ SerializeFails(event)
            /\ UNCHANGED <<wbuf, accepted>>
  BY DEF Write
<1>2. opened = "yes" /\ opened' = opened /\ sink' = sink /\ lost' = lost
  BY DEF Write, CanWrite
<1>3. /\ items \in Seq(Item(Messages)) /\ Layout
      /\ sink \in Seq(1 .. Size) /\ wbuf \in Seq(1 .. Size) /\ accepted \in Seq(LogEvents)
      /\ Size \in Nat /\ Len(items) \in Nat /\ Len(accepted) \in Nat /\ lost \in BOOLEAN
  BY SizeFacts, LenProperties DEF IInv, TypeOK, SerTypeOK
<1>4. CASE SerializeSucceeds(event) /\ wbuf' = wbuf \o NewBytes /\ accepted' = Append(accepted, event)
  <2>1. PICK d \in Nat \ {0} :
           /\ serPtr /\ serPtr' /\ serNative' = "live"
           /\ SerTypeOK' /\ Layout' /\ ClosedIsFinal'
           /\ items' # <<>>
           /\ \A i \in 1 .. Len(items') : items'[i].kind # "eof"
           /\ Len(items') = Len(items) + 1
           /\ \A i \in 1 .. Len(items) : items'[i] = items[i]
           /\ items'[Len(items) + 1].kind = "event"
           /\ items'[Len(items) + 1].ts = event.ts
           /\ items'[Len(items) + 1].msg = event.msg
           /\ enc' = "four" => prevTimestamp' = event.ts
           /\ Size' = Size + d
           /\ NewBytes = Behind(Size, d)
    BY <1>4, EventProduced
  <2>2. /\ accepted' \in Seq(LogEvents)
        /\ Len(accepted') = Len(accepted) + 1
        /\ \A i \in 1 .. Len(accepted) : accepted'[i] = accepted[i]
        /\ accepted'[Len(accepted) + 1] = event
    BY <1>3, <1>4, AppendProperties
  <2>3. /\ sink \in Seq(1 .. Size + d)
        /\ wbuf' \in Seq(1 .. Size + d)
        /\ Rising(sink \o wbuf) => Rising(sink \o wbuf')
        /\ Whole(sink \o wbuf, Size) => Whole(sink \o wbuf', Size + d)
    <3>1. d \in Nat /\ wbuf' = wbuf \o Behind(Size, d)
      BY <1>4, <2>1
    <3>2. QED
      BY <1>3, <3>1, BufferGrows
  <2>4. ~lost => Len(items) = Len(accepted) + 1
    BY <2>1 DEF IInv, Life
  <2>5. TypeOK'
    BY <1>2, <1>3, <2>1, <2>2, <2>3 DEF TypeOK
  <2>6. Life'
    <3>1. items'[Len(items')].ts = event.ts
      BY <2>1
    <3>2. ~lost' => Len(items') = Len(accepted') + 1
      BY <1>2, <2>1, <2>2, <2>4
    <3>3. QED
      BY <1>2, <2>1, <3>1, <3>2 DEF Life
  <2>7. Bytes'
    BY <1>2, <2>1, <2>3 DEF IInv, Bytes
  <2>8. StreamMeansLog'
    <3> SUFFICES ASSUME ~lost
                 PROVE  /\ Len(accepted') < Len(items')
                        /\ \A i \in 1 .. Len(accepted') :
                              /\ items'[i + 1].kind = "event"
                              /\ items'[i + 1].ts = accepted'[i].ts
                              /\ items'[i + 1].msg = accepted'[i].msg
                        /\ \A i \in Len(accepted') + 2 .. Len(items') : items'[i].kind = "eof"
      BY <1>2 DEF StreamMeansLog
    <3>1. Len(accepted') < Len(items') /\ Len(accepted') + 2 > Len(items')
      BY <1>3, <2>1, <2>2, <2>4
    <3>2. ASSUME NEW i \in 1 .. Len(accepted')
          PROVE  /\ items'[i + 1].kind = "event"
                 /\ items'[i + 1].ts = accepted'[i].ts
                 /\ items'[i + 1].msg = accepted'[i].msg
      <4>1. CASE i \in 1 .. Len(accepted)
        <5>1. i + 1 \in 1 .. Len(items)
          BY <1>3, <2>4, <4>1
        <5>2. /\ items[i + 1].kind = "event"
              /\ items[i + 1].ts = accepted[i].ts
              /\ items[i + 1].msg = accepted[i].msg
          BY <1>2, <4>1 DEF IInv, StreamMeansLog
        <5>3. QED
          BY <2>1, <2>2, <4>1, <5>1, <5>2
      <4>2. CASE i = Len(accepted) + 1
        <5>1. i + 1 = Len(items) + 1
          BY <2>4, <4>2
        <5>2. QED
          BY <2>1, <2>2, <4>2, <5>1
      <4>3. QED
        BY <1>3, <2>2, <4>1, <4>2
    <3>3. QED
      BY <1>3, <2>1, <2>2, <3>1, <3>2
  <2>9. QED
    BY <2>1, <2>5, <2>6, <2>7, <2>8 DEF IInv
<1>5. CASE SerializeFails(event) /\ UNCHANGED <<wbuf, accepted>>
  <2>1. /\ enc' = enc /\ serNative' = serNative /\ serPtr' = serPtr /\ items' = items
        /\ prevTimestamp' = prevTimestamp /\ irBuf' = (IF serPtr THEN 0 ELSE irBuf)
        /\ wbuf' = wbuf /\ accepted' = accepted
    BY <1>5 DEF SerializeFails, NextTimestamp
  <2>2. Size' = Size
    BY <2>1 DEF Size, EndOf, Produced
  <2>3. TypeOK'
    <3>1. irBuf' \in 0 .. Len(items')
      BY <1>3, <2>1 DEF IInv, TypeOK, SerTypeOK
    <3>2. SerTypeOK'
      BY <2>1, <3>1 DEF IInv, TypeOK, SerTypeOK
    <3>3. QED
      BY <1>2, <1>3, <2>1, <2>2, <3>2 DEF IInv, TypeOK
  <2>4. Layout' /\ Life' /\ StreamMeansLog' /\ ClosedIsFinal'
    BY <1>2, <2>1 DEF IInv, Layout, Life, StreamMeansLog, ClosedIsFinal
  <2>5. Bytes'
    BY <1>2, <2>1, <2>2 DEF IInv, Bytes
  <2>6. QED
    BY <2>3, <2>4, <2>5 DEF IInv
<1>6. QED
  BY <1>1, <1>4, <1>5

(* The view is lost: from here on only the order of the bytes and the      *)
(* finality of the end tag are promised.                                   *)
LEMMA BypassKeeps ==
    ASSUME IInv, SerializeLogEvent
    PROVE  IInv'
<1>1. PICK event \in LogEvents : SerializeSucceeds(event)
  BY DEF SerializeLogEvent
<1>2. /\ opened = "yes" /\ opened' = opened /\ wbuf' = wbuf /\ sink' = sink
      /\ accepted' = accepted /\ lost' = TRUE
  BY DEF SerializeLogEvent, CanWrite
<1>3. /\ items \in Seq(Item(Messages)) /\ Layout
      /\ sink \in Seq(1 .. Size) /\ wbuf \in Seq(1 .. Size) /\ accepted \in Seq(LogEvents)
      /\ Size \in Nat
  BY SizeFacts DEF IInv, TypeOK, SerTypeOK
<1>4. PICK d \in Nat \ {0} :
         /\ serPtr /\ serPtr' /\ serNative' = "live"
         /\ SerTypeOK' /\ Layout' /\ ClosedIsFinal'
         /\ items' # <<>>
         /\ \A i \in 1 .. Len(items') : items'[i].kind # "eof"
         /\ Len(items') = Len(items) + 1
         /\ items'[Len(items) + 1].ts = event.ts
         /\ enc' = "four" => prevTimestamp' = event.ts
         /\ Size' = Size + d
  BY <1>1, EventProduced
<1>5. sink \in Seq(1 .. Size + d) /\ wbuf \in Seq(1 .. Size + d)
  BY <1>3, SeqMonotonic, 1 .. Size \subseteq 1 .. Size + d
<1>6. TypeOK'
  BY <1>2, <1>3, <1>4, <1>5 DEF TypeOK
<1>7. Life' /\ StreamMeansLog'
  BY <1>2, <1>4 DEF Life, StreamMeansLog
<1>8. Bytes'
  BY <1>2 DEF IInv, Bytes
<1>9. QED
  BY <1>4, <1>6, <1>7, <1>8 DEF IInv

LEMMA DrainKeepsInv ==
    ASSUME IInv, DoWriteTo
    PROVE  IInv'
<1>1. PICK n \in 0 .. Len(wbuf) : WriteTo(n)
  BY DEF DoWriteTo
<1>2. /\ opened = "yes" /\ UNCHANGED <<opened, accepted, lost>>
      /\ UNCHANGED <<enc, serNative, serPtr, prevTimestamp, irBuf, items>>
      /\ sink' = sink \o SubSeq(wbuf, 1, n)
      /\ wbuf' = SubSeq(wbuf, n + 1, Len(wbuf))
  BY <1>1 DEF WriteTo, Remaining, serVars
<1>3. /\ items \in Seq(Item(Messages)) /\ Layout
      /\ sink \in Seq(1 .. Size) /\ wbuf \in Seq(1 .. Size)
      /\ Size \in Nat
  BY SizeFacts DEF IInv, TypeOK, SerTypeOK
<1>4. Size' = Size
  BY <1>2 DEF Size, EndOf, Produced
<1>5. sink' \in Seq(1 .. Size) /\ wbuf' \in Seq(1 .. Size) /\ sink' \o wbuf' = sink \o wbuf
  BY <1>2, <1>3, DrainKeeps
<1>6. TypeOK'
  <2>1. SerTypeOK'
    BY <1>2 DEF IInv, TypeOK, SerTypeOK
  <2>2. QED
    BY <1>2, <1>4, <1>5, <2>1 DEF IInv, TypeOK
<1>7. Layout' /\ StreamMeansLog' /\ ClosedIsFinal'
  BY <1>2 DEF IInv, Layout, StreamMeansLog, ClosedIsFinal
<1>8. Life'
  BY <1>2 DEF IInv, Life
<1>9. Bytes'
  BY <1>2, <1>4, <1>5 DEF IInv, Bytes
<1>10. QED
  BY <1>6, <1>7, <1>8, <1>9 DEF IInv

LEMMA ResetKeeps ==
    ASSUME IInv, Reset
    PROVE  IInv'
<1>1. /\ opened = "yes" /\ UNCHANGED <<opened, sink, accepted>>
      /\ UNCHANGED <<enc, serNative, serPtr, prevTimestamp, irBuf, items>>
      /\ wbuf' = <<>> /\ lost' = (lost \/ wbuf # <<>>)
  BY DEF Reset, serVars
<1>2. /\ sink \in Seq(1 .. Size) /\ wbuf \in Seq(1 .. Size) /\ lost \in BOOLEAN
  BY DEF IInv, TypeOK
<1>3. Size' = Size
  BY <1>1 DEF Size, EndOf, Produced
<1>4. lost' \in BOOLEAN /\ (~lost' => ~lost /\ wbuf' = wbuf)
  BY <1>1
<1>5. TypeOK'
  <2>1. SerTypeOK'
    BY <1>1 DEF IInv, TypeOK, SerTypeOK
  <2>2. wbuf' \in Seq(1 .. Size)
    BY <1>1, EmptySeq
  <2>3. QED
    BY <1>1, <1>2, <1>3, <1>4, <2>1, <2>2 DEF IInv, TypeOK
<1>6. Layout' /\ ClosedIsFinal'
  BY <1>1 DEF IInv, Layout, ClosedIsFinal
<1>7. Life' /\ StreamMeansLog'
  BY <1>1, <1>4 DEF IInv, Life, StreamMeansLog
<1>8. Bytes'
  <2>1. Rising(sink' \o wbuf')
    <3>1. sink \o <<>> = sink
      BY <1>2, ConcatEmptySeq
    <3>2. /\ Len(sink) \in Nat /\ Len(wbuf) \in Nat
          /\ Len(sink \o wbuf) = Len(sink) + Len(wbuf)
          /\ \A i \in 1 .. Len(sink) : (sink \o wbuf)[i] = sink[i]
      BY <1>2, LenProperties, ConcatProperties
    <3>3. Rising(sink)
      BY <3>2 DEF IInv, Bytes, Rising
    <3>4. QED
      BY <1>1, <3>1, <3>3
  <2>2. ~lost' => Whole(sink' \o wbuf', Size')
    BY <1>1, <1>3, <1>4 DEF IInv, Bytes
  <2>3. QED
    BY <2>1, <2>2 DEF Bytes
<1>9. QED
  BY <1>5, <1>6, <1>7, <1>8 DEF IInv

(* An end tag keeps what the stream means, however often it is written.    *)
LEMMA TagKeepsMeaning ==
    ASSUME IInv, EndStream, UNCHANGED <<opened, accepted, lost>>
    PROVE  Life' /\ StreamMeansLog'
<1>1. /\ opened = "yes" /\ ~serPtr'
      /\ items' # <<>>
      /\ Len(items') = Len(items) + 1
      /\ \A i \in 1 .. Len(items) : items'[i] = items[i]
      /\ items'[Len(items) + 1].kind = "eof"
  BY TagProduced
<1>2. Len(items) \in Nat /\ Len(accepted) \in Nat
  BY SizeFacts, LenProperties DEF IInv, TypeOK, SerTypeOK
<1>3. Life'
  BY <1>1 DEF Life
<1>4. StreamMeansLog'
  <2> SUFFICES ASSUME ~lost
               PROVE  /\ Len(accepted) < Len(items')
                      /\ \A i \in 1 .. Len(accepted) :
                            /\ items'[i + 1].kind = "event"
                            /\ items'[i + 1].ts = accepted[i].ts
                            /\ items'[i + 1].msg = accepted[i].msg
                      /\ \A i \in Len(accepted) + 2 .. Len(items') : items'[i].kind = "eof"
    BY DEF StreamMeansLog
  <2>1. /\ Len(accepted) < Len(items)
        /\ \A i \in 1 .. Len(accepted) :
              /\ items[i + 1].kind = "event"
              /\ items[i + 1].ts = accepted[i].ts
              /\ items[i + 1].msg = accepted[i].msg
        /\ \A i \in Len(accepted) + 2 .. Len(items) : items[i].kind = "eof"
    BY <1>1 DEF IInv, StreamMeansLog
  <2>2. \A i \in 1 .. Len(accepted) : i + 1 \in 1 .. Len(items)
    BY <1>2, <2>1
  <2>3. ASSUME NEW i \in Len(accepted) + 2 .. Len(items')
        PROVE  items'[i].kind = "eof"
    <3>1. CASE i = Len(items) + 1
      BY <1>1, <3>1
    <3>2. CASE i # Len(items) + 1
      <4>1. i \in Len(accepted) + 2 .. Len(items) /\ i \in 1 .. Len(items)
        BY <1>1, <1>2, <3>2
      <4>2. QED
        BY <1>1, <2>1, <4>1
    <3>3. QED
      BY <3>1, <3>2
  <2>4. QED
    BY <1>1, <1>2, <2>1, <2>2, <2>3
<1>5. QED
  BY <1>3, <1>4

(* The bytes when the end tag stands behind all others. *)
LEMMA TagKeepsBytes ==
    ASSUME IInv, EndStream
    PROVE  /\ Size \in Nat /\ Size' = Size + 1
           /\ sink \in Seq(1 .. Size')
           /\ wbuf \o NewBytes \in Seq(1 .. Size')
           /\ Rising(sink \o (wbuf \o NewBytes))
           /\ ~lost => Whole(sink \o (wbuf \o NewBytes), Size')
<1>1. NewBytes = Behind(Size, 1) /\ Size' = Size + 1
  BY TagProduced
<1>2. /\ items \in Seq(Item(Messages)) /\ Layout
      /\ sink \in Seq(1 .. Size) /\ wbuf \in Seq(1 .. Size) /\ Size \in Nat
  BY SizeFacts DEF IInv, TypeOK, SerTypeOK
<1>3. /\ sink \in Seq(1 .. Size + 1)
      /\ wbuf \o Behind(Size, 1) \in Seq(1 .. Size + 1)
      /\ Rising(sink \o wbuf) => Rising(sink \o (wbuf \o Behind(Size, 1)))
      /\ Whole(sink \o wbuf, Size) => Whole(sink \o (wbuf \o Behind(Size, 1)), Size + 1)
  <2>1. 1 \in Nat
    OBVIOUS
  <2>2. QED
    BY <1>2, <2>1, BufferGrows
<1>4. QED
  BY <1>1, <1>2, <1>3 DEF IInv, Bytes

LEMMA CloseKeeps ==
    ASSUME IInv, Close
    PROVE  IInv'
<1>1. EndStream /\ wbuf' = wbuf \o NewBytes /\ UNCHANGED <<opened, sink, accepted, lost>>
  BY DEF Close
<1>2. Life' /\ StreamMeansLog' /\ SerTypeOK' /\ Layout' /\ ClosedIsFinal'
  BY <1>1, TagKeepsMeaning, TagProduced
<1>3. TypeOK'
  BY <1>1, <1>2, TagKeepsBytes DEF IInv, TypeOK
<1>4. Bytes'
  BY <1>1, TagKeepsBytes DEF Bytes
<1>5. QED
  BY <1>2, <1>3, <1>4 DEF IInv

LEMMA CloseToKeeps ==
    ASSUME IInv, DoCloseTo
    PROVE  IInv'
<1> DEFINE all == wbuf \o NewBytes
<1>1. PICK n \in 0 .. Len(wbuf) + 1 : CloseTo(n)
  BY DEF DoCloseTo
<1>2. /\ EndStream /\ UNCHANGED <<opened, accepted, lost>>
      /\ n <= Len(all)
      /\ sink' = sink \o SubSeq(all, 1, n)
      /\ wbuf' = SubSeq(all, n + 1, Len(all))
  BY <1>1 DEF CloseTo
<1>3. Life' /\ StreamMeansLog' /\ SerTypeOK' /\ Layout' /\ ClosedIsFinal'
  BY <1>2, TagKeepsMeaning, TagProduced
<1>4. /\ Size' \in Nat
      /\ sink \in Seq(1 .. Size')
      /\ all \in Seq(1 .. Size')
      /\ Rising(sink \o all)
      /\ ~lost => Whole(sink \o all, Size')
  BY <1>2, TagKeepsBytes
<1> HIDE DEF all
<1>5. n \in 0 .. Len(all)
  BY <1>2, <1>4, LenProperties DEF IInv, TypeOK
<1>6. sink' \in Seq(1 .. Size') /\ wbuf' \in Seq(1 .. Size') /\ sink' \o wbuf' = sink \o all
  <2> DEFINE m == Size'
  <2>1. m \in Nat /\ sink \in Seq(1 .. m) /\ all \in Seq(1 .. m)
    BY <1>4
  <2> HIDE DEF m
  <2>2. sink' \in Seq(1 .. m) /\ wbuf' \in Seq(1 .. m) /\ sink' \o wbuf' = sink \o all
    BY <1>2, <1>5, <2>1, DrainKeeps
  <2>3. QED
    BY <2>2 DEF m
<1>7. TypeOK'
  BY <1>2, <1>3, <1>6 DEF IInv, TypeOK
<1>8. Bytes'
  BY <1>2, <1>4, <1>6 DEF Bytes
<1>9. QED
  BY <1>3, <1>7, <1>8 DEF IInv

LEMMA OpenKeeps ==
    ASSUME IInv, NewWriterSize
    PROVE  IInv'
<1>1. opened = "no" /\ UNCHANGED <<sink, accepted, lost>>
  BY DEF NewWriterSize
<1>2. /\ items = <<>> /\ wbuf = <<>> /\ sink = <<>> /\ accepted = <<>> /\ ~serPtr /\ ~lost
      /\ SerTypeOK /\ Layout /\ items \in Seq(Item(Messages)) /\ Len(items) = 0
      /\ Size = 0 /\ lost \in BOOLEAN
  BY <1>1, SizeFacts, EmptySeq DEF IInv, Life, TypeOK, SerTypeOK
<1>3. ASSUME NEW referenceTs \in References, NewSerializer(referenceTs),
             opened' = "yes", wbuf' = wbuf \o NewBytes
      PROVE  IInv'
  <2> DEFINE ts == IF enc = "four" THEN referenceTs ELSE 0
  <2>1. /\ Produce("preamble", PreambleSize, ts, AnyMessage)
        /\ serNative' = "live" /\ serPtr' = TRUE /\ irBuf' = 1 /\ enc' = enc
        /\ prevTimestamp' = IF enc = "four" THEN ts ELSE prevTimestamp
    BY <1>3 DEF NewSerializer, EightByteSerializer, FourByteSerializer, NewWithPreamble
  <2>2. /\ "preamble" \in Kinds /\ PreambleSize \in Nat \ {0} /\ ts \in Times
        /\ AnyMessage \in Messages
    BY MaxTimeAssumption, MessagesAssumption, EventsAssumption, SizesAssumption
       DEF Kinds, Times, MinTime, AnyMessage
  <2> HIDE DEF ts
  <2>3. /\ items' \in Seq(Item(Messages))
        /\ Len(items') = 1
        /\ items'[1].kind = "preamble"
        /\ items'[1].ts = ts
        /\ items' # <<>>
        /\ Layout'
        /\ Size' = PreambleSize
        /\ NewBytes = Behind(0, PreambleSize)
    <3>1. /\ items' \in Seq(Item(Messages))
          /\ Len(items') = Len(items) + 1
          /\ items'[Len(items) + 1].kind = "preamble"
          /\ items'[Len(items) + 1].ts = ts
          /\ items' # <<>>
          /\ Layout'
          /\ Size' = Size + PreambleSize
          /\ NewBytes = Behind(Size, PreambleSize)
      BY <1>2, <2>1, <2>2, ProduceFacts
    <3>2. QED
      BY <1>2, <2>2, <3>1
  <2>4. /\ sink \in Seq(1 .. PreambleSize)
        /\ wbuf' \in Seq(1 .. PreambleSize)
        /\ Rising(sink \o wbuf')
        /\ Whole(sink \o wbuf', PreambleSize)
    <3> DEFINE e == <<>>
    <3> DEFINE m == 0
    <3>1. e \in Seq(1 .. m) /\ e \o e = e /\ Len(e) = 0
      BY EmptySeq, ConcatEmptySeq
    <3>2. Rising(e \o e) /\ Whole(e \o e, m)
      BY <3>1 DEF Rising, Whole
    <3>3. wbuf' = e \o Behind(m, PreambleSize) /\ sink = e
      BY <1>2, <1>3, <2>3
    <3>4. m \in Nat /\ PreambleSize \in Nat /\ m + PreambleSize = PreambleSize
      BY <2>2
    <3> HIDE DEF e, m
    <3>5. /\ e \in Seq(1 .. m + PreambleSize)
          /\ e \o Behind(m, PreambleSize) \in Seq(1 .. m + PreambleSize)
          /\ Rising(e \o e) => Rising(e \o (e \o Behind(m, PreambleSize)))
          /\ Whole(e \o e, m) => Whole(e \o (e \o Behind(m, PreambleSize)), m + PreambleSize)
      BY <3>1, <3>4, BufferGrows
    <3>6. QED
      BY <3>2, <3>3, <3>4, <3>5
  <2>5. TypeOK'
    <3>1. SerTypeOK'
      BY <1>2, <2>1, <2>2, <2>3 DEF SerTypeOK
    <3>2. QED
      BY <1>1, <1>2, <1>3, <2>3, <2>4, <3>1, EmptySeq DEF TypeOK
  <2>6. Life'
    BY <1>1, <1>2, <1>3, <2>1, <2>3, EmptySeq DEF Life
  <2>7. Bytes'
    BY <1>1, <2>3, <2>4 DEF Bytes
  <2>8. StreamMeansLog'
    BY <1>1, <1>2, <2>3, EmptySeq DEF StreamMeansLog
  <2>9. ClosedIsFinal'
    BY <2>1, <2>3 DEF ClosedIsFinal
  <2>10. QED
    BY <2>3, <2>5, <2>6, <2>7, <2>8, <2>9 DEF IInv
<1>4. ASSUME NewSerializerFails, opened' = "failed", wbuf' = wbuf
      PROVE  IInv'
  <2>1. serNative' = "live" /\ UNCHANGED <<enc, serPtr, prevTimestamp, irBuf, items>>
    BY <1>4 DEF NewSerializerFails
  <2>2. Size' = Size
    BY <2>1 DEF Size, EndOf, Produced
  <2>3. TypeOK'
    <3>1. SerTypeOK'
      BY <2>1 DEF IInv, TypeOK, SerTypeOK
    <3>2. QED
      BY <1>1, <1>4, <2>2, <3>1 DEF IInv, TypeOK
  <2>4. Layout' /\ StreamMeansLog' /\ Bytes'
    BY <1>1, <1>4, <2>1, <2>2 DEF IInv, Layout, StreamMeansLog, Bytes
  <2>5. Life'
    BY <1>1, <1>2, <1>4, <2>1 DEF Life
  <2>6. ClosedIsFinal'
    BY <1>2, <2>1 DEF IInv, ClosedIsFinal
  <2>7. QED
    BY <2>3, <2>4, <2>5, <2>6 DEF IInv
<1>5. QED
  BY <1>3, <1>4 DEF NewWriterSize

LEMMA StutterKeeps ==
    ASSUME IInv, UNCHANGED vars
    PROVE  IInv'
<1>1. /\ UNCHANGED <<enc, serNative, serPtr, prevTimestamp, irBuf, items>>
      /\ UNCHANGED <<opened, wbuf, sink, accepted, lost>>
  BY DEF vars, serVars, wVars
<1>2. Size' = Size
  BY <1>1 DEF Size, EndOf, Produced
<1>3. TypeOK'
  BY <1>1, <1>2 DEF IInv, TypeOK, SerTypeOK
<1>4. Layout' /\ Life' /\ StreamMeansLog' /\ ClosedIsFinal'
  BY <1>1 DEF IInv, Layout, Life, StreamMeansLog, ClosedIsFinal
<1>5. Bytes'
  BY <1>1, <1>2 DEF IInv, Bytes
<1>6. QED
  BY <1>3, <1>4, <1>5 DEF IInv

LEMMA InitHolds == Init => IInv
<1> SUFFICES ASSUME Init PROVE IInv
  OBVIOUS
<1>1. /\ enc \in Encodings /\ serNative = "none" /\ serPtr = FALSE /\ prevTimestamp = 0
      /\ irBuf = 0 /\ items = <<>> /\ opened = "no" /\ wbuf = <<>> /\ sink = <<>>
      /\ accepted = <<>> /\ lost = FALSE
  BY DEF Init, SerInit
<1>2. Len(<<>>) = 0 /\ <<>> \o <<>> = <<>> /\ \A S : <<>> \in Seq(S)
  BY EmptySeq, ConcatEmptySeq
<1>3. Layout
  BY <1>1, <1>2 DEF Layout
<1>4. Size = 0
  BY <1>1, <1>2, <1>3, SizeFacts
<1>5. 0 \in Times
  BY MaxTimeAssumption DEF Times, MinTime
<1>6. TypeOK
  <2>1. items \in Seq(Item(Messages)) /\ irBuf \in 0 .. Len(items)
    BY <1>1, <1>2
  <2>2. SerTypeOK
    BY <1>1, <1>5, <2>1 DEF SerTypeOK
  <2>3. wbuf \in Seq(1 .. Size) /\ sink \in Seq(1 .. Size) /\ accepted \in Seq(LogEvents)
    BY <1>1, <1>2
  <2>4. QED
    BY <1>1, <2>2, <2>3 DEF TypeOK
<1>7. Life /\ Bytes /\ StreamMeansLog /\ ClosedIsFinal
  BY <1>1, <1>2, <1>4 DEF Life, Bytes, Rising, Whole, StreamMeansLog, ClosedIsFinal
<1>8. QED
  BY <1>3, <1>6, <1>7 DEF IInv

-----------------------------------------------------------------------------
(* The results.                                                            *)

LEMMA IInvNext == IInv /\ [Next]_vars => IInv'
<1> SUFFICES ASSUME IInv, [Next]_vars PROVE IInv'
  OBVIOUS
<1>1. CASE NewWriterSize
  BY <1>1, OpenKeeps
<1>2. CASE Write
  BY <1>2, WriteKeeps
<1>3. CASE DoWriteTo
  BY <1>3, DrainKeepsInv
<1>4. CASE Close
  BY <1>4, CloseKeeps
<1>5. CASE DoCloseTo
  BY <1>5, CloseToKeeps
<1>6. CASE SerializeLogEvent
  BY <1>6, BypassKeeps
<1>7. CASE Reset
  BY <1>7, ResetKeeps
<1>8. CASE UNCHANGED vars
  BY <1>8, StutterKeeps
<1>9. QED
  BY <1>1, <1>2, <1>3, <1>4, <1>5, <1>6, <1>7, <1>8 DEF Next, Careful

(* The conjunction is inductive: whatever the order of the calls.          *)
THEOREM WriterInvariant == Spec => []IInv
<1>1. QED
  BY InitHolds, IInvNext, PTL DEF Spec

(* Type correctness; the bytes in the buffer and the sink lie within the   *)
(* stream the Serializer has produced.                                     *)
THEOREM WriterTyped == Spec => []TypeOK
<1>1. IInv => TypeOK
  BY DEF IInv
<1>2. QED
  BY <1>1, WriterInvariant, PTL

(* No byte is duplicated or reordered by WriteTo, CloseTo and Reset, and   *)
(* none is missing unless the user discarded it.                           *)
THEOREM WriterBytesOnce == Spec => []BytesOnce
<1>1. IInv => BytesOnce
  BY DEF IInv, Bytes, Rising, Whole, BytesOnce
<1>2. QED
  BY <1>1, WriterInvariant, PTL

(* For every int64 timestamp, in any order: a reader of the bytes computes *)
(* the timestamps of the events that Write accepted.                       *)
THEOREM WriterMeansLog == Spec => []StreamMeansLog
<1>1. IInv => StreamMeansLog
  BY DEF IInv
<1>2. QED
  BY <1>1, WriterInvariant, PTL

(* Nothing follows an end tag but end tags, and the handle never refers to *)
(* a freed native object.                                                  *)
THEOREM WriterClosed == Spec => []ClosedIsFinal
<1>1. IInv => ClosedIsFinal
  BY DEF IInv
<1>2. QED
  BY <1>1, WriterInvariant, PTL
=============================================================================
