---------------------------- MODULE CodecProofs ----------------------------
(***************************************************************************)
(* Proofs about Codec, for every CLP core that satisfies the assumptions   *)
(* of LogMessage: the variables of the Encoder keep their types, the       *)
(* vectors it returns are as encoder.h says until a second message with    *)
(* dictionary variables is encoded, and from then on they still hold the   *)
(* newest message, between what earlier calls left in them.                *)
(***************************************************************************)
EXTENDS Codec, SequenceTheorems, TLAPS

Offset == [begin : Nat, end : Nat]

(* Inserting a sequence at a position within another one. *)
LEMMA InsertedFacts ==
    ASSUME NEW S, NEW s \in Seq(S), NEW v \in Seq(S), NEW at \in 0 .. Len(s)
    PROVE  /\ Inserted(s, at, v) \in Seq(S)
           /\ Len(Inserted(s, at, v)) = Len(s) + Len(v)
           /\ \A p \in 1 .. at : Inserted(s, at, v)[p] = s[p]
           /\ \A p \in 1 .. Len(v) : Inserted(s, at, v)[at + p] = v[p]
<1> DEFINE r == Inserted(s, at, v)
           n == Len(s) + Len(v)
<1>1. /\ Len(s) \in Nat /\ Len(v) \in Nat /\ at \in Nat
      /\ \A p \in 1 .. Len(s) : s[p] \in S
      /\ \A p \in 1 .. Len(v) : v[p] \in S
  BY LenProperties, ElementOfSeq
<1>2. r = [p \in 1 .. n |-> IF p <= at THEN s[p]
                            ELSE IF p <= at + Len(v) THEN v[p - at] ELSE s[p - Len(v)]]
  BY DEF Inserted
<1>3. ASSUME NEW p \in 1 .. n PROVE r[p] \in S
  <2>1. CASE p <= at
    BY <1>1, <1>2, <2>1
  <2>2. CASE p > at /\ p <= at + Len(v)
    BY <1>1, <1>2, <2>2
  <2>3. CASE p > at + Len(v)
    BY <1>1, <1>2, <2>3
  <2>4. QED
    BY <1>1, <2>1, <2>2, <2>3
<1>4. r \in Seq(S)
  <2>1. n \in Nat
    BY <1>1
  <2>2. r \in [1 .. n -> S]
    BY <1>2, <1>3
  <2> HIDE DEF r, n
  <2>3. QED
    BY <2>1, <2>2, SeqDef
<1>5. Len(r) = n
  <2>1. DOMAIN r = 1 .. n /\ n \in Nat
    BY <1>1, <1>2
  <2> HIDE DEF r, n
  <2>2. QED
    BY <2>1, <1>4, LenProperties
<1>6. \A p \in 1 .. at : r[p] = s[p]
  BY <1>1, <1>2
<1>7. \A p \in 1 .. Len(v) : r[at + p] = v[p]
  BY <1>1, <1>2
<1>8. QED
  BY <1>4, <1>5, <1>6, <1>7

(* The bytes of a variable. *)
LEMMA CutFacts ==
    ASSUME NEW S, NEW m \in Seq(S), NEW o \in Offset, o.begin <= o.end, o.end <= Len(m)
    PROVE  /\ Cut(m, o) \in Seq(S)
           /\ Len(Cut(m, o)) = o.end - o.begin
           /\ \A p \in 1 .. o.end - o.begin : Cut(m, o)[p] = m[o.begin + p]
<1>1. /\ o.begin \in Nat /\ o.end \in Nat /\ Len(m) \in Nat
      /\ \A i \in 1 .. Len(m) : m[i] \in S
  BY LenProperties, ElementOfSeq DEF Offset
<1> DEFINE a == o.begin + 1
           b == o.end
<1>2. /\ a \in Int /\ b \in Int /\ (\A i \in a .. b : m[i] \in S)
      /\ b - a + 1 = o.end - o.begin
      /\ (IF a <= b THEN b - a + 1 ELSE 0) = o.end - o.begin
      /\ \A p \in 1 .. o.end - o.begin : a + p - 1 = o.begin + p
  <2>1. \A i \in a .. b : i \in 1 .. Len(m)
    BY <1>1
  <2>2. \A i \in a .. b : m[i] \in S
    BY <1>1, <2>1
  <2>3. b - a + 1 = o.end - o.begin
    BY <1>1
  <2>4. (IF a <= b THEN b - a + 1 ELSE 0) = o.end - o.begin
    BY <1>1
  <2>5. \A p \in 1 .. o.end - o.begin : a + p - 1 = o.begin + p
    BY <1>1
  <2>6. QED
    BY <1>1, <2>2, <2>3, <2>4, <2>5
<1> HIDE DEF a, b
<1>3. /\ SubSeq(m, a, b) \in Seq(S)
      /\ Len(SubSeq(m, a, b)) = IF a <= b THEN b - a + 1 ELSE 0
      /\ \A i \in 1 .. b - a + 1 : SubSeq(m, a, b)[i] = m[a + i - 1]
  BY <1>2, SubSeqProperties
<1>4. QED
  BY <1>2, <1>3 DEF Cut, a, b

(* A sequence appended to another one is how the result ends. *)
EndsWith(s, t) == SubSeq(s, Len(s) - Len(t) + 1, Len(s)) = t

LEMMA AppendedIsLast ==
    ASSUME NEW S, NEW s \in Seq(S), NEW t \in Seq(S)
    PROVE  EndsWith(s \o t, t)
<1>1. Len(s) \in Nat /\ Len(t) \in Nat /\ Len(s \o t) = Len(s) + Len(t)
  BY LenProperties, ConcatProperties
<1>2. CASE Len(t) = 0
  <2>1. t = <<>>
    BY <1>2, EmptySeq
  <2>2. SubSeq(s \o t, Len(s) + 1, Len(s)) = <<>>
    BY <1>1, SubSeqEmpty
  <2>3. QED
    BY <1>1, <1>2, <2>1, <2>2 DEF EndsWith
<1>3. CASE Len(t) > 0
  <2>1. SubSeq(s \o t, Len(s) + 1, Len(s) + Len(t)) = SubSeq(t, 1, Len(t))
    <3>1. /\ Len(s) + 1 \in Len(s) + 1 .. Len(s) + Len(t)
          /\ Len(s) + Len(t) \in Len(s) + 1 .. Len(s) + Len(t)
          /\ Len(s) + 1 - Len(s) = 1 /\ Len(s) + Len(t) - Len(s) = Len(t)
      BY <1>1, <1>3
    <3> DEFINE a == Len(s) + 1
               b == Len(s) + Len(t)
    <3>2. /\ a \in Len(s) + 1 .. Len(s) + Len(t)
          /\ b \in Len(s) + 1 .. Len(s) + Len(t)
          /\ a - Len(s) = 1 /\ b - Len(s) = Len(t)
      BY <3>1
    <3> HIDE DEF a, b
    <3>3. SubSeq(s \o t, a, b) = SubSeq(t, a - Len(s), b - Len(s))
      BY <3>2, SubSeqOfConcat2
    <3>4. QED
      BY <3>2, <3>3 DEF a, b
  <2>2. Len(s \o t) - Len(t) + 1 = Len(s) + 1
    BY <1>1
  <2>3. QED
    BY <1>1, <2>1, <2>2, SubSeqFull DEF EndsWith
<1>4. QED
  BY <1>1, <1>2, <1>3

-----------------------------------------------------------------------------
(* Where the k-th of the newest n dictionary variables begins.             *)
StartOf(ends, n, k) == IF k = 1 THEN 0 ELSE ends[Len(ends) - n + k - 1]

(* The last n end offsets cut the first n variables of message m out of    *)
(* the beginning of the dictionary variables dv.                           *)
LastEnd(ends, n) == IF n = 0 THEN 0 ELSE ends[Len(ends)]

Holds(dv, ends, n, m, o) ==
    /\ n <= Len(ends)
    /\ LastEnd(ends, n) <= Len(dv)
    /\ \A k \in 1 .. n :
          /\ ends[Len(ends) - n + k] = StartOf(ends, n, k) + (o[k].end - o[k].begin)
          /\ ends[Len(ends) - n + k] <= LastEnd(ends, n)
          /\ \A p \in 1 .. o[k].end - o[k].begin :
                dv[StartOf(ends, n, k) + p] = m[o[k].begin + p]

WithinMessage(m, o) ==
    \A k \in 1 .. Len(o) : o[k].begin <= o[k].end /\ o[k].end <= Len(m)

(* One turn of the loop inserts the next one behind them, in front of what *)
(* earlier calls left.                                                     *)
LEMMA HoldsOneMore ==
    ASSUME NEW S, NEW dv \in Seq(S), NEW ends \in Seq(Nat), NEW m \in Seq(S),
           NEW o \in Seq(Offset), NEW n \in Nat, n < Len(o), WithinMessage(m, o),
           Holds(dv, ends, n, m, o)
    PROVE  LET at  == LastEnd(ends, n)
               end == at + (o[n + 1].end - o[n + 1].begin)
           IN  Holds(Inserted(dv, at, Cut(m, o[n + 1])), Append(ends, end), n + 1, m, o)
<1> DEFINE at  == LastEnd(ends, n)
           x   == o[n + 1]
           end == at + (x.end - x.begin)
           v   == Cut(m, x)
           dv2 == Inserted(dv, at, v)
           e2  == Append(ends, end)
<1>1. /\ Len(ends) \in Nat /\ Len(dv) \in Nat /\ Len(o) \in Nat /\ n <= Len(ends)
      /\ \A k \in 1 .. Len(ends) : ends[k] \in Nat
      /\ \A k \in 1 .. Len(o) : o[k].begin \in Nat /\ o[k].end \in Nat /\ o[k].begin <= o[k].end
  <2>1. Len(ends) \in Nat /\ Len(dv) \in Nat /\ Len(o) \in Nat /\ n <= Len(ends)
    BY LenProperties DEF Holds
  <2>2. \A k \in 1 .. Len(ends) : ends[k] \in Nat
    BY ElementOfSeq
  <2>3. \A k \in 1 .. Len(o) : o[k] \in Offset
    BY ElementOfSeq
  <2>4. \A k \in 1 .. Len(o) : o[k].begin \in Nat /\ o[k].end \in Nat
    BY <2>3 DEF Offset
  <2>5. \A k \in 1 .. Len(o) : o[k].begin <= o[k].end
    BY DEF WithinMessage
  <2>6. QED
    BY <2>1, <2>2, <2>4, <2>5
<1>2. x \in Offset /\ x.begin <= x.end /\ x.end <= Len(m)
  <2>1. n + 1 \in 1 .. Len(o)
    BY <1>1
  <2>2. x.begin <= x.end /\ x.end <= Len(m)
    BY <2>1 DEF WithinMessage
  <2>3. x \in Offset
    BY <2>1, ElementOfSeq
  <2>4. QED
    BY <2>2, <2>3
<1>3. /\ x.begin \in Nat /\ x.end \in Nat
      /\ v \in Seq(S) /\ Len(v) = x.end - x.begin
      /\ \A p \in 1 .. x.end - x.begin : v[p] = m[x.begin + p]
  <2> HIDE DEF x
  <2>1. QED
    BY <1>2, CutFacts DEF Offset
<1>4. at \in 0 .. Len(dv) /\ end \in Nat
  <2>1. at \in Nat
    BY <1>1 DEF Holds, LastEnd
  <2>2. at <= Len(dv)
    BY DEF Holds
  <2>3. x.end - x.begin \in Nat
    BY <1>2, <1>3
  <2> HIDE DEF at, x
  <2>4. QED
    BY <1>1, <2>1, <2>2, <2>3
<1>5. /\ dv2 \in Seq(S) /\ Len(dv2) = Len(dv) + Len(v)
      /\ \A p \in 1 .. at : dv2[p] = dv[p]
      /\ \A p \in 1 .. Len(v) : dv2[at + p] = v[p]
  <2>1. v \in Seq(S) /\ at \in 0 .. Len(dv) /\ dv \in Seq(S)
    BY <1>3, <1>4
  <2> HIDE DEF at, v, x, end, dv2, e2
  <2>2. Inserted(dv, at, v) \in Seq(S) /\ Len(Inserted(dv, at, v)) = Len(dv) + Len(v)
    BY <2>1, InsertedFacts
  <2>3. \A p \in 1 .. at : Inserted(dv, at, v)[p] = dv[p]
    BY <2>1, InsertedFacts
  <2>4. \A p \in 1 .. Len(v) : Inserted(dv, at, v)[at + p] = v[p]
    BY <2>1, InsertedFacts
  <2>5. QED
    BY <2>2, <2>3, <2>4 DEF dv2
<1>6. /\ e2 \in Seq(Nat) /\ Len(e2) = Len(ends) + 1
      /\ \A k \in 1 .. Len(ends) : e2[k] = ends[k]
      /\ e2[Len(ends) + 1] = end
  <2> HIDE DEF end
  <2>1. QED
    BY <1>4, AppendProperties
<1> HIDE DEF dv2, e2, v, x
<1>7. LastEnd(e2, n + 1) = end /\ n + 1 <= Len(e2)
  BY <1>1, <1>6 DEF LastEnd, Holds
<1>8. end <= Len(dv2)
  BY <1>1, <1>3, <1>4, <1>5
<1>9. ASSUME NEW k \in 1 .. n
      PROVE  /\ e2[Len(e2) - (n + 1) + k] = ends[Len(ends) - n + k]
             /\ StartOf(e2, n + 1, k) = StartOf(ends, n, k)
             /\ StartOf(ends, n, k) \in Nat
             /\ ends[Len(ends) - n + k] <= at
  <2>1. Len(e2) - (n + 1) + k = Len(ends) - n + k
    BY <1>1, <1>6
  <2>2. Len(ends) - n + k \in 1 .. Len(ends)
    BY <1>1 DEF Holds
  <2>6. /\ e2[Len(e2) - (n + 1) + k] = ends[Len(ends) - n + k]
        /\ ends[Len(ends) - n + k] <= at
    BY <1>6, <2>1, <2>2 DEF Holds
  <2>3. CASE k = 1
    BY <2>3, <2>6 DEF StartOf
  <2>4. CASE k > 1
    <3>1. Len(ends) - n + k - 1 \in 1 .. Len(ends)
      BY <1>1, <2>4
    <3>2. Len(e2) - (n + 1) + k - 1 = Len(ends) - n + k - 1
      BY <1>1, <1>6
    <3>3. QED
      BY <1>1, <1>6, <2>4, <2>6, <3>1, <3>2 DEF StartOf
  <2>5. QED
    BY <2>3, <2>4
<1>10. ASSUME NEW k \in 1 .. n
       PROVE  /\ e2[Len(e2) - (n + 1) + k] = StartOf(e2, n + 1, k) + (o[k].end - o[k].begin)
              /\ e2[Len(e2) - (n + 1) + k] <= end
              /\ \A p \in 1 .. o[k].end - o[k].begin :
                    dv2[StartOf(e2, n + 1, k) + p] = m[o[k].begin + p]
  <2>1. ends[Len(ends) - n + k] = StartOf(ends, n, k) + (o[k].end - o[k].begin)
    BY DEF Holds
  <2>2. o[k].end - o[k].begin \in Nat /\ x.end - x.begin \in Nat
    <3>1. k \in 1 .. Len(o)
      BY <1>1
    <3>2. o[k].begin \in Nat /\ o[k].end \in Nat /\ o[k].begin <= o[k].end
      BY <1>1, <3>1
    <3>3. o[k].end - o[k].begin \in Nat
      BY <3>2
    <3>4. x.end - x.begin \in Nat
      BY <1>2, <1>3
    <3>5. QED
      BY <3>3, <3>4
  <2>3. ASSUME NEW p \in 1 .. o[k].end - o[k].begin
        PROVE  dv2[StartOf(ends, n, k) + p] = m[o[k].begin + p]
    <3>1. StartOf(ends, n, k) + p \in 1 .. at
      <4> DEFINE from == StartOf(ends, n, k)
                 to   == ends[Len(ends) - n + k]
                 size == o[k].end - o[k].begin
      <4>1. from \in Nat /\ to = from + size /\ to <= at /\ size \in Nat /\ p \in 1 .. size
        BY <1>9, <2>1, <2>2
      <4>2. at \in Nat
        BY <1>1, <1>4
      <4> HIDE DEF from, to, size, at
      <4>3. QED
        BY <4>1, <4>2, SMTT(30) DEF from
    <3>2. dv[StartOf(ends, n, k) + p] = m[o[k].begin + p]
      BY DEF Holds
    <3>3. QED
      BY <1>5, <3>1, <3>2
  <2>4. ends[Len(ends) - n + k] <= end
    <3> DEFINE to == ends[Len(ends) - n + k]
               from == StartOf(ends, n, k)
               size == o[k].end - o[k].begin
               more == x.end - x.begin
    <3>1. /\ from \in Nat /\ size \in Nat /\ to = from + size /\ to <= at
          /\ more \in Nat /\ end = at + more
      BY <1>9, <2>1, <2>2
    <3>2. at \in Nat
      BY <1>1, <1>4
    <3> HIDE DEF from, to, size, more, at, end
    <3>3. to <= end
      BY <3>1, <3>2
    <3>4. QED
      BY <3>3 DEF to
  <2>5. QED
    BY <1>9, <2>1, <2>3, <2>4
<1>11. /\ e2[Len(e2) - (n + 1) + (n + 1)] = StartOf(e2, n + 1, n + 1) + (x.end - x.begin)
       /\ e2[Len(e2) - (n + 1) + (n + 1)] <= end
       /\ \A p \in 1 .. x.end - x.begin :
             dv2[StartOf(e2, n + 1, n + 1) + p] = m[x.begin + p]
  <2>1. StartOf(e2, n + 1, n + 1) = at
    <3>1. Len(e2) - (n + 1) + (n + 1) - 1 = Len(ends)
      BY <1>1, <1>6
    <3>2. CASE n = 0
      BY <3>2 DEF StartOf, LastEnd
    <3>3. CASE n > 0
      <4>1. Len(ends) \in 1 .. Len(ends)
        BY <1>1, <3>3 DEF Holds
      <4>2. QED
        BY <1>6, <3>1, <3>3, <4>1 DEF StartOf, LastEnd
    <3>4. QED
      BY <3>2, <3>3
  <2>2. Len(e2) - (n + 1) + (n + 1) = Len(ends) + 1
    BY <1>1, <1>6
  <2>3. e2[Len(e2) - (n + 1) + (n + 1)] = end
    BY <1>6, <2>2
  <2>4. \A p \in 1 .. x.end - x.begin : dv2[at + p] = m[x.begin + p]
    BY <1>3, <1>5
  <2>5. end <= end
    BY <1>4
  <2> HIDE DEF at
  <2>6. QED
    BY <2>1, <2>3, <2>4, <2>5
<1>12. \A k \in 1 .. n + 1 :
          /\ e2[Len(e2) - (n + 1) + k] = StartOf(e2, n + 1, k) + (o[k].end - o[k].begin)
          /\ e2[Len(e2) - (n + 1) + k] <= end
          /\ \A p \in 1 .. o[k].end - o[k].begin :
                dv2[StartOf(e2, n + 1, k) + p] = m[o[k].begin + p]
  <2>1. \A k \in 1 .. n + 1 : k \in 1 .. n \/ k = n + 1
    OBVIOUS
  <2>2. QED
    BY <1>10, <1>11, <2>1 DEF x
<1>13. Holds(dv2, e2, n + 1, m, o)
  BY <1>7, <1>8, <1>12 DEF Holds
<1>14. QED
  BY <1>13 DEF dv2, e2, v, x

(* Then cutting gives the variables back. *)
LEMMA HeldIsCut ==
    ASSUME NEW S, NEW dv \in Seq(S), NEW ends \in Seq(Nat), NEW m \in Seq(S),
           NEW o \in Seq(Offset), NEW n \in Nat, n <= Len(o), WithinMessage(m, o),
           Holds(dv, ends, n, m, o), NEW k \in 1 .. n
    PROVE  SubSeq(dv, StartOf(ends, n, k) + 1, ends[Len(ends) - n + k]) = Cut(m, o[k])
<1> DEFINE x    == o[k]
           from == StartOf(ends, n, k)
           to   == ends[Len(ends) - n + k]
           size == x.end - x.begin
<1>1. /\ Len(ends) \in Nat /\ Len(dv) \in Nat /\ Len(o) \in Nat /\ Len(m) \in Nat
      /\ \A i \in 1 .. Len(ends) : ends[i] \in Nat
  BY LenProperties, ElementOfSeq
<1>2. x \in Offset /\ x.begin <= x.end /\ x.end <= Len(m)
  BY <1>1, ElementOfSeq DEF WithinMessage
<1>3. x.begin \in Nat /\ x.end \in Nat /\ size \in Nat
  BY <1>2 DEF Offset
<1>4. from \in Nat
  <2>1. CASE k = 1
    BY <2>1 DEF StartOf
  <2>2. CASE k > 1
    <3>1. Len(ends) - n + k - 1 \in 1 .. Len(ends)
      BY <1>1, <2>2 DEF Holds
    <3>2. QED
      BY <1>1, <2>2, <3>1 DEF StartOf
  <2>3. QED
    BY <2>1, <2>2
<1>5. /\ to = from + size
      /\ to <= Len(dv)
      /\ \A p \in 1 .. size : dv[from + p] = m[x.begin + p]
  <2>1. to = from + size /\ to <= LastEnd(ends, n) /\ LastEnd(ends, n) <= Len(dv)
    BY DEF Holds
  <2>2. \A p \in 1 .. size : dv[from + p] = m[x.begin + p]
    BY DEF Holds
  <2>3. LastEnd(ends, n) \in Nat
    BY <1>1 DEF LastEnd, Holds
  <2> HIDE DEF from, to, size
  <2>4. to <= Len(dv)
    BY <1>1, <1>3, <1>4, <2>1, <2>3
  <2>5. QED
    BY <2>1, <2>2, <2>4
<1> HIDE DEF from, to, size, x
<1>6. /\ \A i \in from + 1 .. to : dv[i] \in S
      /\ \A i \in x.begin + 1 .. x.end : m[i] \in S
  <2>1. /\ \A i \in 1 .. Len(dv) : dv[i] \in S
        /\ \A i \in 1 .. Len(m) : m[i] \in S
    BY ElementOfSeq
  <2>2. QED
    BY <1>1, <1>2, <1>3, <1>4, <1>5, <2>1, SMTT(30)
<1> DEFINE s1 == SubSeq(dv, from + 1, to)
           s2 == SubSeq(m, x.begin + 1, x.end)
<1>7. /\ s1 \in Seq(S)
      /\ Len(s1) = size
      /\ \A p \in 1 .. size : s1[p] = dv[from + p]
  <2> DEFINE a == from + 1
  <2>1. a \in Int /\ to \in Int /\ (\A i \in a .. to : dv[i] \in S)
    BY <1>3, <1>4, <1>5, <1>6
  <2>2. /\ to - a + 1 = size
        /\ (IF a <= to THEN to - a + 1 ELSE 0) = size
        /\ \A p \in 1 .. size : a + p - 1 = from + p
    BY <1>3, <1>4, <1>5
  <2> HIDE DEF a
  <2>3. /\ SubSeq(dv, a, to) \in Seq(S)
        /\ Len(SubSeq(dv, a, to)) = IF a <= to THEN to - a + 1 ELSE 0
        /\ \A i \in 1 .. to - a + 1 : SubSeq(dv, a, to)[i] = dv[a + i - 1]
    BY <2>1, SubSeqProperties
  <2>4. QED
    BY <2>2, <2>3 DEF a
<1>8. /\ s2 \in Seq(S)
      /\ Len(s2) = size
      /\ \A p \in 1 .. size : s2[p] = m[x.begin + p]
  <2> DEFINE a == x.begin + 1
             b == x.end
  <2>1. a \in Int /\ b \in Int /\ (\A i \in a .. b : m[i] \in S)
    BY <1>3, <1>6
  <2>2. /\ b - a + 1 = size
        /\ (IF a <= b THEN b - a + 1 ELSE 0) = size
        /\ \A p \in 1 .. size : a + p - 1 = x.begin + p
    <3>1. x.begin <= x.end /\ x.begin \in Nat /\ x.end \in Nat /\ size = x.end - x.begin
      BY <1>2, <1>3 DEF size
    <3>2. QED
      BY <3>1, SMTT(30)
  <2> HIDE DEF a, b
  <2>3. /\ SubSeq(m, a, b) \in Seq(S)
        /\ Len(SubSeq(m, a, b)) = IF a <= b THEN b - a + 1 ELSE 0
        /\ \A i \in 1 .. b - a + 1 : SubSeq(m, a, b)[i] = m[a + i - 1]
    BY <2>1, SubSeqProperties
  <2>4. QED
    BY <2>2, <2>3 DEF a, b
<1> HIDE DEF s1, s2
<1>9. s1 = s2
  BY <1>5, <1>7, <1>8, SeqEqual
<1>10. QED
  BY <1>9 DEF s1, s2, Cut, from, to, x

-----------------------------------------------------------------------------
(* The inductive invariant: while a call inserts, and after it returned,   *)
(* the newest message is held as far as it has been inserted.              *)
Underway ==
    /\ encoded # <<>>
    /\ dictVarOffsets = CoreEncode(encoding, Newest).dictVarOffsets
    /\ mLogMessage.logtype = CoreEncode(encoding, Newest).logtype
    /\ EndsWith(mLogMessage.vars, CoreEncode(encoding, Newest).vars)
    /\ prevEndOff = LastEnd(mLogMessage.dictVarEndOffsets, inserted)
    /\ Holds(mLogMessage.dictVars, mLogMessage.dictVarEndOffsets, inserted,
             Newest, dictVarOffsets)
    /\ encPc = "idle" => inserted = Len(dictVarOffsets)

Handles ==
    /\ encPc = "insert" => encPtr
    /\ encPtr => encNative = "live"
    /\ encNative = "none" => encResult.err = EncodeError
    /\ decPtr => decNative = "live"

Inv ==
    /\ EncTypeOK
    /\ Handles
    /\ (encPc = "insert" \/ JustEncoded) => Underway

(* What the core library returns for a message of the history. *)
LEMMA CoreFacts ==
    ASSUME NEW e \in Encodings, NEW m \in Messages
    PROVE  LET c == CoreEncode(e, m)
           IN  /\ m \in Seq(Bytes)
               /\ c.logtype \in Seq(Bytes \cup Placeholders)
               /\ c.vars \in Seq(EncodedVars)
               /\ c.dictVarOffsets \in Seq(Offset)
               /\ WithinMessage(m, c.dictVarOffsets)
BY MessagesAssumption, CoreEncodeAssumption DEF IsEncoding, WithinMessage, Offset

LEMMA LastOfAppend ==
    ASSUME NEW S, NEW s \in Seq(S), NEW x \in S
    PROVE  /\ Append(s, x) \in Seq(S)
           /\ Append(s, x) # <<>>
           /\ Append(s, x)[Len(Append(s, x))] = x
<1>1. /\ Append(s, x) \in Seq(S) /\ Len(Append(s, x)) = Len(s) + 1
      /\ Append(s, x)[Len(s) + 1] = x /\ Append(s, x) # <<>>
  BY AppendProperties
<1>2. QED
  BY <1>1

LEMMA NewestType == EncTypeOK /\ encoded # <<>> => Newest \in Messages
<1> SUFFICES ASSUME EncTypeOK, encoded # <<>> PROVE Newest \in Messages
  OBVIOUS
<1>1. encoded \in Seq(Messages)
  BY DEF EncTypeOK
<1>2. Len(encoded) \in 1 .. Len(encoded)
  BY <1>1, EmptySeq, LenProperties
<1>3. QED
  BY <1>1, <1>2, ElementOfSeq DEF Newest

LEMMA ViewType == \A m \in LogMessage : NewLogMessageView(m) \in LogMessage
<1> SUFFICES ASSUME NEW m \in LogMessage PROVE NewLogMessageView(m) \in LogMessage
  OBVIOUS
<1>1. m.dictVars \in Seq(Bytes \cup Placeholders)
  BY SeqMonotonic DEF LogMessage
<1>2. <<>> \in Seq(Bytes)
  BY EmptySeq
<1>3. QED
  BY <1>1, <1>2 DEF NewLogMessageView, LogMessage

LEMMA EmptyType == Empty \in LogMessage
BY EmptySeq DEF Empty, LogMessage

LEMMA InvInit == Init => Inv
<1> SUFFICES ASSUME Init PROVE Inv
  OBVIOUS
<1>1. EncTypeOK
  <2>1. <<>> \in Seq([begin : Nat, end : Nat]) /\ <<>> \in Seq(Messages)
    BY EmptySeq
  <2>2. 0 \in 0 .. Len(<<>>) /\ Empty.dictVars = <<>>
    BY EmptySeq DEF Empty
  <2>3. [err |-> EncodeError, view |-> Empty] \in [err : Errors, view : LogMessage]
    BY EmptyType DEF EncodeError, Errors, Success, IoError
  <2>4. /\ inserted \in 0 .. Len(dictVarOffsets)
        /\ prevEndOff \in 0 .. Len(mLogMessage.dictVars)
    BY <2>2 DEF Init, EncInit
  <2>5. QED
    BY <2>1, <2>3, <2>4, EmptyType DEF Init, EncInit, EncTypeOK
<1>2. Handles
  BY DEF Init, EncInit, DecInit, Handles, EncodeError, Success
<1>3. encPc = "idle" /\ ~JustEncoded
  BY DEF Init, EncInit, JustEncoded
<1>4. QED
  BY <1>1, <1>2, <1>3 DEF Inv

LEMMA InvNewEncoder == ASSUME Inv, NEW e \in Encodings, NewEncoder(e), UNCHANGED decVars PROVE Inv'
<1>1. EncTypeOK'
  BY DEF Inv, EncTypeOK, NewEncoder
<1>2. Handles'
  BY DEF Inv, Handles, NewEncoder, decVars
<1>3. encPc' = "idle" /\ ~JustEncoded'
  BY DEF Inv, EncTypeOK, Handles, NewEncoder, JustEncoded, EncodeError, Success
<1>4. QED
  BY <1>1, <1>2, <1>3 DEF Inv

-----------------------------------------------------------------------------
(* A call that fails, in the core or because the handle is closed. *)
LEMMA InvEncodeFails ==
    ASSUME Inv, NEW m \in Messages, EncodeFails, encPc = "idle",
           encoded' = Append(encoded, m), mLogMessage' \in LogMessage,
           mLogMessage'.dictVars = mLogMessage.dictVars,
           UNCHANGED <<encoding, encNative, encPtr, decVars>>
    PROVE  Inv'
<1>1. encResult' = [err |-> EncodeError, view |-> Empty]
  BY DEF EncodeFails
<1>2. EncTypeOK'
  <2>1. encoded' \in Seq(Messages)
    BY AppendProperties DEF Inv, EncTypeOK
  <2>2. encResult' \in [err : Errors, view : LogMessage]
    BY <1>1, EmptyType DEF EncodeError, Errors, Success, IoError
  <2>3. /\ inserted' \in 0 .. Len(dictVarOffsets')
        /\ prevEndOff' \in 0 .. Len(mLogMessage'.dictVars)
    BY DEF Inv, EncTypeOK, EncodeFails
  <2>4. QED
    BY <2>1, <2>2, <2>3 DEF Inv, EncTypeOK, EncodeFails
<1>3. Handles'
  BY <1>1 DEF Inv, Handles, EncodeFails, decVars
<1>4. encPc' = "idle" /\ ~JustEncoded'
  BY <1>1 DEF EncodeFails, JustEncoded, EncodeError, Success
<1>5. QED
  BY <1>2, <1>3, <1>4 DEF Inv

(* A call whose message the core has encoded: nothing is inserted yet. *)
LEMMA InvCoreSucceeds ==
    ASSUME Inv, NEW m \in Messages, encPtr, CoreSucceeds(CoreEncode(encoding, m)),
           encoded' = Append(encoded, m),
           UNCHANGED <<encoding, encNative, encPtr, decVars>>
    PROVE  Inv'
<1> DEFINE c == CoreEncode(encoding, m)
<1>1. /\ encoding \in Encodings /\ mLogMessage \in LogMessage
      /\ encoded \in Seq(Messages)
  BY DEF Inv, EncTypeOK
<1>2. /\ m \in Seq(Bytes)
      /\ c.logtype \in Seq(Bytes \cup Placeholders)
      /\ c.vars \in Seq(EncodedVars)
      /\ c.dictVarOffsets \in Seq(Offset)
      /\ WithinMessage(m, c.dictVarOffsets)
  BY <1>1, CoreFacts
<1>3. PICK old \in {<<>>, mLogMessage.vars} :
        mLogMessage' = [mLogMessage EXCEPT !.logtype = c.logtype, !.vars = old \o c.vars]
  BY DEF CoreSucceeds
<1>4. old \in Seq(EncodedVars)
  BY <1>1, <1>3, EmptySeq DEF LogMessage
<1>5. /\ old \o c.vars \in Seq(EncodedVars)
      /\ EndsWith(old \o c.vars, c.vars)
  BY <1>2, <1>4, ConcatProperties, AppendedIsLast
<1>6. /\ mLogMessage'.logtype = c.logtype
      /\ mLogMessage'.vars = old \o c.vars
      /\ mLogMessage'.dictVars = mLogMessage.dictVars
      /\ mLogMessage'.dictVarEndOffsets = mLogMessage.dictVarEndOffsets
      /\ mLogMessage' \in LogMessage
  <2> HIDE DEF c
  <2>1. QED
    BY <1>1, <1>2, <1>3, <1>5 DEF LogMessage
<1>7. /\ encPc' = "insert" /\ dictVarOffsets' = c.dictVarOffsets
      /\ inserted' = 0 /\ prevEndOff' = 0 /\ encResult' = encResult
  BY DEF CoreSucceeds
<1>8. encoded' \in Seq(Messages) /\ encoded' # <<>> /\ Newest' = m
  BY <1>1, LastOfAppend DEF Newest
<1>9. Len(mLogMessage.dictVars) \in Nat /\ Len(c.dictVarOffsets) \in Nat
      /\ Len(mLogMessage.dictVarEndOffsets) \in Nat
  <2> HIDE DEF c
  <2>1. QED
    BY <1>1, <1>2, LenProperties DEF LogMessage
<1> HIDE DEF c
<1>10. EncTypeOK'
  <2>1. inserted' \in 0 .. Len(dictVarOffsets') /\ prevEndOff' \in 0 .. Len(mLogMessage'.dictVars)
    BY <1>6, <1>7, <1>9
  <2>2. reused' \in BOOLEAN
    BY DEF CoreSucceeds, Inv, EncTypeOK
  <2>3. QED
    BY <1>2, <1>6, <1>7, <1>8, <2>1, <2>2 DEF Inv, EncTypeOK, Offset
<1>11. Handles'
  BY <1>7 DEF Inv, Handles, decVars
<1>12. Underway'
  <2>1. CoreEncode(encoding', Newest') = c
    BY <1>8 DEF c
  <2>2. prevEndOff' = LastEnd(mLogMessage'.dictVarEndOffsets, inserted')
    BY <1>7 DEF LastEnd
  <2>3. Holds(mLogMessage'.dictVars, mLogMessage'.dictVarEndOffsets, inserted',
              Newest', dictVarOffsets')
    BY <1>6, <1>7, <1>9 DEF Holds, LastEnd
  <2>4. QED
    BY <1>5, <1>6, <1>7, <1>8, <2>1, <2>2, <2>3 DEF Underway
<1>13. QED
  BY <1>10, <1>11, <1>12 DEF Inv

LEMMA InvBeginEncode ==
    ASSUME Inv, NEW e \in Encodings, NEW m \in Messages, BeginEncode(e, m), UNCHANGED decVars
    PROVE  Inv'
<1>1. /\ encPc = "idle" /\ encoding = e /\ encoded' = Append(encoded, m)
      /\ UNCHANGED <<encoding, encNative, encPtr, decVars>>
  BY DEF BeginEncode
<1>2. CASE encPtr /\ CoreSucceeds(CoreEncode(e, m))
  BY <1>1, <1>2, InvCoreSucceeds
<1>3. CASE CoreFails(CoreEncode(e, m))
  <2> DEFINE c == CoreEncode(e, m)
  <2>1. mLogMessage \in LogMessage
    BY DEF Inv, EncTypeOK
  <2>2. c.logtype \in Seq(Bytes \cup Placeholders) /\ c.vars \in Seq(EncodedVars)
    BY CoreFacts
  <2>3. PICK logtype \in {mLogMessage.logtype, <<>>, c.logtype},
             vars_ \in {mLogMessage.vars, <<>>, mLogMessage.vars \o c.vars} :
          mLogMessage' = [mLogMessage EXCEPT !.logtype = logtype, !.vars = vars_]
    BY <1>3 DEF CoreFails
  <2>4. logtype \in Seq(Bytes \cup Placeholders)
    BY <2>1, <2>2, <2>3, EmptySeq DEF LogMessage
  <2>5. vars_ \in Seq(EncodedVars)
    <3>1. mLogMessage.vars \in Seq(EncodedVars)
      BY <2>1 DEF LogMessage
    <3> HIDE DEF c
    <3>2. mLogMessage.vars \o c.vars \in Seq(EncodedVars)
      BY <2>2, <3>1, ConcatProperties
    <3>3. <<>> \in Seq(EncodedVars)
      BY EmptySeq
    <3>4. QED
      BY <2>3, <3>1, <3>2, <3>3
  <2>6. mLogMessage' \in LogMessage /\ mLogMessage'.dictVars = mLogMessage.dictVars
    BY <2>1, <2>3, <2>4, <2>5 DEF LogMessage
  <2>7. QED
    BY <1>1, <1>3, <2>6, InvEncodeFails DEF CoreFails
<1>4. CASE ~encPtr /\ EncodeFails /\ UNCHANGED mLogMessage
  <2>1. mLogMessage' \in LogMessage /\ mLogMessage'.dictVars = mLogMessage.dictVars
    BY <1>4 DEF Inv, EncTypeOK
  <2>2. QED
    BY <1>1, <1>4, <2>1, InvEncodeFails
<1>5. QED
  BY <1>2, <1>3, <1>4 DEF BeginEncode

-----------------------------------------------------------------------------
(* What one turn of the loop does to the vectors. *)
LEMMA InsertFacts ==
    ASSUME Inv, InsertNext
    PROVE  LET x    == dictVarOffsets[inserted + 1]
               end  == prevEndOff + (x.end - x.begin)
               dv   == mLogMessage.dictVars
               ends == mLogMessage.dictVarEndOffsets
               dv2  == Inserted(dv, prevEndOff, Cut(Newest, x))
               e2   == Append(ends, end)
           IN  /\ mLogMessage' = [mLogMessage EXCEPT !.dictVars = dv2, !.dictVarEndOffsets = e2]
               /\ prevEndOff' = end /\ inserted' = inserted + 1
               /\ inserted \in Nat /\ inserted + 1 <= Len(dictVarOffsets)
               /\ x.end - x.begin \in Nat
               /\ prevEndOff = LastEnd(ends, inserted)
               /\ dv2 \in Seq(Bytes) /\ Len(dv2) = Len(dv) + (x.end - x.begin)
               /\ end \in Nat /\ end <= Len(dv2)
               /\ e2 \in Seq(Nat) /\ Len(e2) = Len(ends) + 1 /\ e2[Len(e2)] = end
               /\ Holds(dv2, e2, inserted + 1, Newest, dictVarOffsets)
<1> DEFINE o    == dictVarOffsets
           x    == o[inserted + 1]
           end  == prevEndOff + (x.end - x.begin)
           dv   == mLogMessage.dictVars
           ends == mLogMessage.dictVarEndOffsets
           dv2  == Inserted(dv, prevEndOff, Cut(Newest, x))
           e2   == Append(ends, end)
<1>1. EncTypeOK /\ Handles /\ Underway /\ encPc = "insert" /\ inserted < Len(o)
  BY DEF Inv, InsertNext
<1>2. /\ encoding \in Encodings /\ mLogMessage \in LogMessage
      /\ o \in Seq(Offset) /\ encoded \in Seq(Messages) /\ encoded # <<>>
      /\ prevEndOff \in 0 .. Len(dv) /\ inserted \in 0 .. Len(o)
  BY <1>1 DEF EncTypeOK, Underway, Offset
<1>3. /\ dv \in Seq(Bytes) /\ ends \in Seq(Nat)
      /\ Len(dv) \in Nat /\ Len(ends) \in Nat /\ Len(o) \in Nat
  <2>1. dv \in Seq(Bytes) /\ ends \in Seq(Nat)
    BY <1>2 DEF LogMessage
  <2>2. QED
    BY <1>2, <2>1, LenProperties
<1>4. inserted \in Nat /\ prevEndOff \in Nat /\ inserted + 1 \in 1 .. Len(o)
  <2>1. inserted \in Nat /\ prevEndOff \in Nat
    BY <1>2, <1>3
  <2> HIDE DEF o
  <2>2. QED
    BY <1>1, <1>3, <2>1
<1>5. Newest \in Messages
  BY <1>1, <1>2, NewestType
<1>6. Newest \in Seq(Bytes) /\ WithinMessage(Newest, o)
  BY <1>1, <1>2, <1>5, CoreFacts DEF Underway
<1>7. x \in Offset /\ x.begin \in Nat /\ x.end \in Nat /\ x.begin <= x.end /\ x.end <= Len(Newest)
  <2>1. x \in Offset
    BY <1>2, <1>4, ElementOfSeq
  <2>2. x.begin <= x.end /\ x.end <= Len(Newest)
    BY <1>4, <1>6 DEF WithinMessage
  <2>3. QED
    BY <2>1, <2>2 DEF Offset
<1>8. prevEndOff = LastEnd(ends, inserted) /\ Holds(dv, ends, inserted, Newest, o)
  BY <1>1 DEF Underway
<1>9. Holds(dv2, e2, inserted + 1, Newest, o)
  <2> HIDE DEF o, dv, ends
  <2>1. LET at  == LastEnd(ends, inserted)
            end_ == at + (o[inserted + 1].end - o[inserted + 1].begin)
        IN  Holds(Inserted(dv, at, Cut(Newest, o[inserted + 1])), Append(ends, end_),
                  inserted + 1, Newest, o)
    BY <1>1, <1>2, <1>3, <1>4, <1>6, <1>8, HoldsOneMore
  <2>2. QED
    BY <1>8, <2>1
<1>10. /\ Cut(Newest, x) \in Seq(Bytes)
       /\ Len(Cut(Newest, x)) = x.end - x.begin
  <2> HIDE DEF x
  <2>1. QED
    BY <1>6, <1>7, CutFacts
<1>11. dv2 \in Seq(Bytes) /\ Len(dv2) = Len(dv) + (x.end - x.begin)
  <2> DEFINE v == Cut(Newest, x)
  <2>1. v \in Seq(Bytes) /\ Len(v) = x.end - x.begin
    BY <1>10
  <2> HIDE DEF v, x, dv
  <2>2. Inserted(dv, prevEndOff, v) \in Seq(Bytes)
        /\ Len(Inserted(dv, prevEndOff, v)) = Len(dv) + Len(v)
    BY <1>2, <1>3, <2>1, InsertedFacts
  <2>3. QED
    BY <2>1, <2>2 DEF v
<1>12. end \in Nat /\ end <= Len(dv2)
  <2> DEFINE size == x.end - x.begin
             len2 == Len(dv2)
             len  == Len(dv)
  <2>1. size \in Nat /\ len2 = len + size /\ len \in Nat /\ prevEndOff \in 0 .. len
        /\ end = prevEndOff + size
    BY <1>2, <1>3, <1>7, <1>11, SMTT(30)
  <2> HIDE DEF size, len2, len, end
  <2>2. end \in Nat /\ end <= len2
    BY <2>1
  <2>3. QED
    BY <2>2 DEF len2
<1>13. e2 \in Seq(Nat) /\ Len(e2) = Len(ends) + 1 /\ e2[Len(e2)] = end
  <2> HIDE DEF end, ends
  <2>1. QED
    BY <1>3, <1>12, LastOfAppend, AppendProperties
<1>14. /\ mLogMessage' = [mLogMessage EXCEPT !.dictVars = dv2, !.dictVarEndOffsets = e2]
       /\ prevEndOff' = end /\ inserted' = inserted + 1
  BY DEF InsertNext
<1>15. x.end - x.begin \in Nat /\ inserted + 1 <= Len(o)
  BY <1>3, <1>4, <1>7
<1> HIDE DEF dv2, e2, end, x
<1>16. QED
  BY <1>4, <1>8, <1>9, <1>11, <1>12, <1>13, <1>14, <1>15 DEF dv2, e2, end, x

LEMMA InvInsertNext == ASSUME Inv, InsertNext, UNCHANGED decVars PROVE Inv'
<1> DEFINE x    == dictVarOffsets[inserted + 1]
           end  == prevEndOff + (x.end - x.begin)
           dv   == mLogMessage.dictVars
           ends == mLogMessage.dictVarEndOffsets
           dv2  == Inserted(dv, prevEndOff, Cut(Newest, x))
           e2   == Append(ends, end)
<1>1. EncTypeOK /\ Handles /\ Underway /\ encPc = "insert" /\ mLogMessage \in LogMessage
  BY DEF Inv, InsertNext, EncTypeOK
<1>2. /\ mLogMessage' = [mLogMessage EXCEPT !.dictVars = dv2, !.dictVarEndOffsets = e2]
      /\ prevEndOff' = end /\ inserted' = inserted + 1
      /\ inserted \in Nat /\ inserted + 1 <= Len(dictVarOffsets)
      /\ dv2 \in Seq(Bytes) /\ end \in Nat /\ end <= Len(dv2)
      /\ e2 \in Seq(Nat) /\ e2[Len(e2)] = end
      /\ Holds(dv2, e2, inserted + 1, Newest, dictVarOffsets)
  BY InsertFacts
<1> HIDE DEF dv2, e2, end, x, dv, ends
<1>3. UNCHANGED <<encoding, encNative, encPtr, encPc, dictVarOffsets, encResult, encoded, reused>>
  BY DEF InsertNext
<1>4. /\ mLogMessage' \in LogMessage
      /\ mLogMessage'.dictVars = dv2 /\ mLogMessage'.dictVarEndOffsets = e2
      /\ mLogMessage'.logtype = mLogMessage.logtype /\ mLogMessage'.vars = mLogMessage.vars
  BY <1>1, <1>2 DEF LogMessage
<1>5. EncTypeOK'
  <2>1. Len(dictVarOffsets) \in Nat /\ Len(dv2) \in Nat
    BY <1>1, <1>2, LenProperties DEF EncTypeOK
  <2>2. inserted' \in 0 .. Len(dictVarOffsets')
    BY <1>2, <1>3, <2>1
  <2>3. prevEndOff' \in 0 .. Len(mLogMessage'.dictVars)
    BY <1>2, <1>4, <2>1
  <2>4. QED
    BY <1>1, <1>3, <1>4, <2>2, <2>3 DEF EncTypeOK
<1>6. Handles'
  BY <1>1, <1>3 DEF Handles, decVars
<1>7. Underway'
  <2>1. Newest' = Newest
    BY <1>3 DEF Newest
  <2>2. LastEnd(e2, inserted + 1) = end
    BY <1>2 DEF LastEnd
  <2>3. encPc' # "idle"
    BY <1>1, <1>3
  <2>4. QED
    BY <1>1, <1>2, <1>3, <1>4, <2>1, <2>2, <2>3 DEF Underway
<1>8. QED
  BY <1>5, <1>6, <1>7 DEF Inv

LEMMA InvReturnEncoded == ASSUME Inv, ReturnEncoded, UNCHANGED decVars PROVE Inv'
<1>1. EncTypeOK /\ Handles /\ Underway /\ encPc = "insert"
  BY DEF Inv, ReturnEncoded
<1>2. NewLogMessageView(mLogMessage) \in LogMessage
  BY <1>1, ViewType DEF EncTypeOK
<1>3. EncTypeOK'
  <2>1. encResult' \in [err : Errors, view : LogMessage]
    BY <1>2 DEF ReturnEncoded, Errors, Success, IoError
  <2>2. QED
    BY <1>1, <2>1 DEF EncTypeOK, ReturnEncoded
<1>4. Handles'
  BY <1>1 DEF Handles, ReturnEncoded, decVars
<1>5. Underway'
  BY <1>1 DEF Underway, Newest, ReturnEncoded
<1>6. QED
  BY <1>3, <1>4, <1>5 DEF Inv

LEMMA InvEncClose == ASSUME Inv, EncClose, UNCHANGED decVars PROVE Inv'
<1>1. EncTypeOK'
  BY DEF Inv, EncTypeOK, EncClose
<1>2. Handles'
  BY DEF Inv, EncTypeOK, Handles, EncClose, decVars
<1>3. encPc' = "idle" /\ ~JustEncoded'
  BY DEF EncClose, JustEncoded
<1>4. QED
  BY <1>1, <1>2, <1>3 DEF Inv

(* What keeps the variables of the Encoder. *)
LEMMA InvKept == ASSUME Inv, UNCHANGED encVars, decPtr' => decNative' = "live" PROVE Inv'
<1>1. EncTypeOK' /\ Handles'
  BY DEF Inv, EncTypeOK, Handles, encVars
<1>2. (encPc' = "insert" \/ JustEncoded') => Underway'
  BY DEF Inv, JustEncoded, Underway, Newest, encVars
<1>3. QED
  BY <1>1, <1>2 DEF Inv

LEMMA DecodeKeepsHandle ==
    ASSUME Handles, NEW e, NEW ir, DecodeOf(e, ir)
    PROVE  decPtr' => decNative' = "live"
BY DEF Handles, DecodeOf, DecodeEightByte, DecodeFourByte, DecodeLogMessage

LEMMA InvNext == ASSUME Inv, [Next]_vars PROVE Inv'
<1>1. CASE Encoding
  <2>1. EncNext /\ UNCHANGED decVars
    BY <1>1 DEF Encoding
  <2>2. CASE EightByteNew \/ FourByteNew
    BY <2>1, <2>2, InvNewEncoder DEF EightByteNew, FourByteNew, Encodings
  <2>3. ASSUME NEW m \in Messages, EncodeEightByte(m) \/ EncodeFourByte(m) PROVE Inv'
    BY <2>1, <2>3, InvBeginEncode DEF EncodeEightByte, EncodeFourByte, Encodings
  <2>4. CASE InsertNext
    BY <2>1, <2>4, InvInsertNext
  <2>5. CASE ReturnEncoded
    BY <2>1, <2>5, InvReturnEncoded
  <2>6. CASE EncClose
    BY <2>1, <2>6, InvEncClose
  <2>7. QED
    BY <2>1, <2>2, <2>3, <2>4, <2>5, <2>6 DEF EncNext
<1>2. CASE Decoding
  <2>1. UNCHANGED encVars
    BY <1>2 DEF Decoding
  <2>2. CASE NewDecoder \/ DecClose
    BY <2>1, <2>2, InvKept DEF NewDecoder, DecClose
  <2>3. CASE DecodeView \/ DecodeGiven \/ DecodeDamaged
    BY <2>1, <2>3, InvKept, DecodeKeepsHandle DEF DecodeView, DecodeGiven, DecodeDamaged, Inv
  <2>4. QED
    BY <1>2, <2>2, <2>3 DEF Decoding
<1>3. CASE UNCHANGED vars
  <2>1. UNCHANGED encVars /\ UNCHANGED decVars
    BY <1>3 DEF vars
  <2>2. decPtr' => decNative' = "live"
    BY <2>1 DEF Inv, Handles, decVars
  <2>3. QED
    BY <2>1, <2>2, InvKept
<1>4. QED
  BY <1>1, <1>2, <1>3 DEF Next

-----------------------------------------------------------------------------
(* The invariant holds throughout. *)
THEOREM CodecInvariant == Spec => []Inv
<1>1. Init => Inv
  BY InvInit
<1>2. Inv /\ [Next]_vars => Inv'
  BY InvNext
<1>3. QED
  BY <1>1, <1>2, PTL DEF Spec

(* After a successful call all variables of the newest message are held.   *)
LEMMA HeldFacts ==
    ASSUME Inv, JustEncoded
    PROVE  LET o    == dictVarOffsets
               n    == Len(o)
               ends == mLogMessage.dictVarEndOffsets
               dv   == mLogMessage.dictVars
           IN  /\ Holds(dv, ends, n, Newest, o) /\ n \in Nat
               /\ \A k \in 1 .. n :
                     SubSeq(dv, StartOf(ends, n, k) + 1, ends[Len(ends) - n + k])
                         = Cut(Newest, o[k])
<1> DEFINE o    == dictVarOffsets
           n    == Len(o)
           ends == mLogMessage.dictVarEndOffsets
           dv   == mLogMessage.dictVars
<1>1. EncTypeOK /\ Underway /\ encPc = "idle"
  BY DEF Inv, JustEncoded
<1>2. /\ o = CoreEncode(encoding, Newest).dictVarOffsets
      /\ Holds(dv, ends, n, Newest, o)
      /\ encoded # <<>>
  BY <1>1 DEF Underway
<1>3. /\ encoding \in Encodings /\ Newest \in Messages
      /\ dv \in Seq(Bytes) /\ ends \in Seq(Nat) /\ o \in Seq(Offset)
  BY <1>1, <1>2, NewestType DEF EncTypeOK, LogMessage, Offset
<1>4. Newest \in Seq(Bytes) /\ WithinMessage(Newest, o)
  BY <1>2, <1>3, CoreFacts
<1>5. n \in Nat /\ n <= n
  BY <1>3, LenProperties
<1> HIDE DEF o, n, ends, dv
<1>6. ASSUME NEW k \in 1 .. n
      PROVE  SubSeq(dv, StartOf(ends, n, k) + 1, ends[Len(ends) - n + k]) = Cut(Newest, o[k])
  <2> DEFINE m == Newest
  <2>1. n <= Len(o)
    BY <1>5 DEF n
  <2>2. /\ m \in Seq(Bytes) /\ dv \in Seq(Bytes) /\ ends \in Seq(Nat)
        /\ o \in Seq(Offset)
        /\ WithinMessage(m, o) /\ Holds(dv, ends, n, m, o)
    BY <1>2, <1>3, <1>4
  <2> HIDE DEF m
  <2>3. SubSeq(dv, StartOf(ends, n, k) + 1, ends[Len(ends) - n + k]) = Cut(m, o[k])
    BY <1>5, <1>6, <2>1, <2>2, HeldIsCut
  <2>4. QED
    BY <2>3 DEF m
<1>7. QED
  BY <1>2, <1>5, <1>6 DEF o, n, ends, dv

(* Whatever earlier calls of EncodeLogMessage left in the vectors that are *)
(* never cleared, what a successful one leaves there holds the newest      *)
(* message, although not where encoder.h says: its n dictionary variables  *)
(* are the first bytes of m_dict_vars, cut by the last n end offsets, and  *)
(* its other variables the last ones in m_vars.                            *)
NewestHeld ==
    JustEncoded =>
        LET c    == CoreEncode(encoding, Newest)
            n    == Len(c.dictVarOffsets)
            ends == mLogMessage.dictVarEndOffsets
        IN  /\ mLogMessage.logtype = c.logtype
            /\ EndsWith(mLogMessage.vars, c.vars)
            /\ n <= Len(ends)
            /\ \A k \in 1 .. n :
                  SubSeq(mLogMessage.dictVars, StartOf(ends, n, k) + 1, ends[Len(ends) - n + k])
                      = Cut(Newest, c.dictVarOffsets[k])

(* What is still there of the newest message after any reuse. *)
THEOREM CodecRecoverable == Spec => []NewestHeld
<1>1. ASSUME Inv, JustEncoded
      PROVE  LET c    == CoreEncode(encoding, Newest)
                 n    == Len(c.dictVarOffsets)
                 ends == mLogMessage.dictVarEndOffsets
             IN  /\ mLogMessage.logtype = c.logtype
                 /\ EndsWith(mLogMessage.vars, c.vars)
                 /\ n <= Len(ends)
                 /\ \A k \in 1 .. n :
                       SubSeq(mLogMessage.dictVars, StartOf(ends, n, k) + 1,
                              ends[Len(ends) - n + k])
                           = Cut(Newest, c.dictVarOffsets[k])
  <2> DEFINE n    == Len(dictVarOffsets)
             ends == mLogMessage.dictVarEndOffsets
             dv   == mLogMessage.dictVars
  <2>1. /\ dictVarOffsets = CoreEncode(encoding, Newest).dictVarOffsets
        /\ mLogMessage.logtype = CoreEncode(encoding, Newest).logtype
        /\ EndsWith(mLogMessage.vars, CoreEncode(encoding, Newest).vars)
    BY <1>1 DEF Inv, Underway
  <2>2. /\ Holds(dv, ends, n, Newest, dictVarOffsets)
        /\ \A k \in 1 .. n : SubSeq(dv, StartOf(ends, n, k) + 1, ends[Len(ends) - n + k])
                                 = Cut(Newest, dictVarOffsets[k])
    BY <1>1, HeldFacts
  <2>3. QED
    BY <2>1, <2>2 DEF Holds
<1>2. Inv => NewestHeld
  BY <1>1 DEF NewestHeld
<1>3. QED
  BY <1>2, CodecInvariant, PTL

(* A call that succeeds or fails in the core, or finds the handle closed.  *)
LEMMA BegunFacts ==
    ASSUME Inv, NEW e \in Encodings, NEW m \in Messages, BeginEncode(e, m)
    PROVE  LET c == CoreEncode(encoding, m)
           IN  /\ UNCHANGED encoding
               /\ mLogMessage'.dictVars = mLogMessage.dictVars
               /\ mLogMessage'.dictVarEndOffsets = mLogMessage.dictVarEndOffsets
               /\ mLogMessage'.vars \in {mLogMessage.vars, <<>>, c.vars, mLogMessage.vars \o c.vars}
               /\ encPc' = "insert" => mLogMessage'.vars \in {c.vars, mLogMessage.vars \o c.vars}
               /\ ~JustEncoded'
<1> DEFINE c == CoreEncode(encoding, m)
<1>1. /\ encPc = "idle" /\ encoding = e /\ UNCHANGED encoding
      /\ mLogMessage \in LogMessage
  BY DEF BeginEncode, Inv, EncTypeOK
<1>2. c.vars \in Seq(EncodedVars)
  BY <1>1, CoreFacts
<1>3. <<>> \o c.vars = c.vars
  <2> HIDE DEF c
  <2>1. QED
    BY <1>2, ConcatEmptySeq
<1>4. CASE CoreSucceeds(c)
  <2> HIDE DEF c
  <2>1. PICK old \in {<<>>, mLogMessage.vars} :
          mLogMessage' = [mLogMessage EXCEPT !.logtype = c.logtype, !.vars = old \o c.vars]
    BY <1>4 DEF CoreSucceeds
  <2>2. /\ mLogMessage'.dictVars = mLogMessage.dictVars
        /\ mLogMessage'.dictVarEndOffsets = mLogMessage.dictVarEndOffsets
        /\ mLogMessage'.vars = old \o c.vars
    BY <1>1, <2>1 DEF LogMessage
  <2>3. mLogMessage'.vars \in {c.vars, mLogMessage.vars \o c.vars}
    BY <1>3, <2>1, <2>2
  <2>4. encPc' = "insert" /\ ~JustEncoded'
    BY <1>4 DEF CoreSucceeds, JustEncoded
  <2>5. QED
    BY <1>1, <2>2, <2>3, <2>4 DEF c
<1>5. CASE CoreFails(c)
  <2> HIDE DEF c
  <2>1. PICK logtype \in {mLogMessage.logtype, <<>>, c.logtype},
             vars_ \in {mLogMessage.vars, <<>>, mLogMessage.vars \o c.vars} :
          mLogMessage' = [mLogMessage EXCEPT !.logtype = logtype, !.vars = vars_]
    BY <1>5 DEF CoreFails
  <2>2. /\ mLogMessage'.dictVars = mLogMessage.dictVars
        /\ mLogMessage'.dictVarEndOffsets = mLogMessage.dictVarEndOffsets
        /\ mLogMessage'.vars = vars_
    BY <1>1, <2>1 DEF LogMessage
  <2>3. encPc' = "idle" /\ ~JustEncoded'
    BY <1>1, <1>5 DEF CoreFails, EncodeFails, JustEncoded, EncodeError, Success
  <2>4. QED
    BY <1>1, <2>1, <2>2, <2>3 DEF c
<1>6. CASE ~encPtr /\ EncodeFails /\ UNCHANGED mLogMessage
  <2>1. encPc' = "idle" /\ ~JustEncoded'
    BY <1>1, <1>6 DEF EncodeFails, JustEncoded, EncodeError, Success
  <2>2. QED
    BY <1>1, <1>6, <2>1
<1>7. QED
  BY <1>1, <1>4, <1>5, <1>6 DEF BeginEncode

(* Until a second message with dictionary variables is encoded, the        *)
(* vectors hold what the newest call has inserted and nothing else.        *)
NothingElse ==
    ~reused =>
        /\ Len(mLogMessage.dictVarEndOffsets) = inserted
        /\ Len(mLogMessage.dictVars) = LastEnd(mLogMessage.dictVarEndOffsets, inserted)

LEMMA NothingElseNext == ASSUME Inv, NothingElse, [Next]_vars PROVE NothingElse'
<1> DEFINE dv   == mLogMessage.dictVars
           ends == mLogMessage.dictVarEndOffsets
<1>1. /\ encoding \in Encodings /\ mLogMessage \in LogMessage /\ inserted \in Nat
      /\ Len(dv) \in Nat /\ Len(ends) \in Nat
  <2>1. EncTypeOK
    BY DEF Inv
  <2>2. dv \in Seq(Bytes) /\ ends \in Seq(Nat) /\ dictVarOffsets \in Seq(Offset)
    BY <2>1 DEF EncTypeOK, LogMessage, Offset
  <2>3. QED
    BY <2>1, <2>2, LenProperties DEF EncTypeOK
<1>2. CASE UNCHANGED <<mLogMessage, inserted, reused>>
  BY <1>2 DEF NothingElse
<1>3. ASSUME NEW e \in Encodings, NEW m \in Messages, BeginEncode(e, m) PROVE NothingElse'
  <2> DEFINE c == CoreEncode(encoding, m)
  <2>1. /\ mLogMessage'.dictVars = dv
        /\ mLogMessage'.dictVarEndOffsets = ends
    BY <1>3, BegunFacts
  <2>2. CASE UNCHANGED <<inserted, reused>>
    BY <2>1, <2>2 DEF NothingElse
  <2>3. CASE inserted' = 0 /\ reused' = (reused \/ inserted > 0)
    <3>1. ASSUME ~reused' PROVE Len(ends) = 0 /\ Len(dv) = 0
      <4>1. ~reused /\ ~(inserted > 0)
        BY <2>3, <3>1, Zenon
      <4>2. inserted = 0
        BY <1>1, <4>1
      <4>3. QED
        BY <4>1, <4>2 DEF NothingElse, LastEnd
    <3>2. QED
      BY <2>1, <2>3, <3>1 DEF NothingElse, LastEnd
  <2>4. QED
    BY <1>3, <2>2, <2>3 DEF BeginEncode, CoreSucceeds, CoreFails, EncodeFails
<1>4. CASE InsertNext
  <2> DEFINE x    == dictVarOffsets[inserted + 1]
             size == x.end - x.begin
             end  == prevEndOff + size
             dv2  == Inserted(dv, prevEndOff, Cut(Newest, x))
             e2   == Append(ends, end)
  <2>1. /\ mLogMessage' = [mLogMessage EXCEPT !.dictVars = dv2, !.dictVarEndOffsets = e2]
        /\ inserted' = inserted + 1
        /\ prevEndOff = LastEnd(ends, inserted)
        /\ Len(dv2) = Len(dv) + size
        /\ Len(e2) = Len(ends) + 1 /\ e2[Len(e2)] = prevEndOff + size
    BY <1>4, InsertFacts
  <2> HIDE DEF dv2, e2, end, size, x
  <2>2. /\ mLogMessage'.dictVars = dv2 /\ mLogMessage'.dictVarEndOffsets = e2
        /\ reused' = reused
    BY <1>1, <1>4, <2>1 DEF LogMessage, InsertNext
  <2>3. LastEnd(e2, inserted + 1) = prevEndOff + size
    BY <1>1, <2>1 DEF LastEnd
  <2>4. QED
    BY <2>1, <2>2, <2>3 DEF NothingElse
<1>5. QED
  BY <1>2, <1>3, <1>4 DEF Next, Encoding, Decoding, EncNext, EightByteNew, FourByteNew, NewEncoder,
     EncodeEightByte, EncodeFourByte, ReturnEncoded, EncClose, Encodings, vars, encVars

(* The vectors a call of EncodeLogMessage returns are as encoder.h says,   *)
(* the dictionary variables of the message one after the other and where   *)
(* each of them ends, unless an earlier call has inserted some.            *)
THEOREM CodecFirstDocumented == Spec => []FirstDictVarsDocumented
<1>1. Init => NothingElse
  BY EmptySeq DEF Init, EncInit, Empty, NothingElse, LastEnd
<1>2. Inv /\ NothingElse /\ [Next]_vars => NothingElse'
  BY NothingElseNext
<1>3. ASSUME Inv, NothingElse PROVE FirstDictVarsDocumented
  <2> SUFFICES ASSUME ~reused, JustEncoded
               PROVE  LET variables == CoreEncode(encoding, Newest).dictVarOffsets
                          count     == Len(mLogMessage.dictVarEndOffsets)
                      IN  /\ count = Len(variables)
                          /\ Len(mLogMessage.dictVars) = EndOfVar(count)
                          /\ \A k \in 1 .. count :
                                SubSeq(mLogMessage.dictVars, EndOfVar(k - 1) + 1, EndOfVar(k))
                                    = Cut(Newest, variables[k])
    BY DEF FirstDictVarsDocumented, DictVarsDocumented
  <2> DEFINE o    == dictVarOffsets
             n    == Len(o)
             ends == mLogMessage.dictVarEndOffsets
             dv   == mLogMessage.dictVars
  <2>1. Underway /\ inserted = n /\ o = CoreEncode(encoding, Newest).dictVarOffsets
    BY <1>3 DEF Inv, JustEncoded, Underway
  <2>2. Len(ends) = n /\ Len(dv) = LastEnd(ends, n)
    BY <1>3, <2>1 DEF NothingElse
  <2>3. /\ Holds(dv, ends, n, Newest, o) /\ n \in Nat
        /\ \A k \in 1 .. n : SubSeq(dv, StartOf(ends, n, k) + 1, ends[Len(ends) - n + k])
                                 = Cut(Newest, o[k])
    BY <1>3, <2>1, HeldFacts
  <2> HIDE DEF o, n, ends, dv
  <2>4. Len(dv) = EndOfVar(n)
    BY <2>2 DEF LastEnd, EndOfVar, ends
  <2>5. ASSUME NEW k \in 1 .. n
        PROVE  SubSeq(dv, EndOfVar(k - 1) + 1, EndOfVar(k)) = Cut(Newest, o[k])
    <3>1. Len(ends) - n + k = k /\ Len(ends) - n + k - 1 = k - 1 /\ k # 0 /\ (k = 1 <=> k - 1 = 0)
      BY <2>2, <2>3
    <3>2. EndOfVar(k) = ends[Len(ends) - n + k] /\ EndOfVar(k - 1) = StartOf(ends, n, k)
      BY <3>1 DEF EndOfVar, StartOf, ends
    <3>3. QED
      BY <2>3, <3>2
  <2>6. QED
    BY <2>1, <2>2, <2>4, <2>5 DEF n, ends, dv
<1>4. QED
  BY <1>1, <1>2, <1>3, CodecInvariant, PTL DEF Spec

(* No call goes on in a native Encoder or returns a message of a native    *)
(* Decoder that Close has freed.                                           *)
THEOREM CodecNoUseAfterClose == Spec => NoUseAfterClose
<1> DEFINE A == /\ encPc' = "insert" => encNative = "live"
                /\ (decResult' # decResult /\ decResult'.err = Success) => decNative = "live"
<1>1. ASSUME Inv, [Next]_vars PROVE [A]_vars
  <2>1. Handles
    BY <1>1 DEF Inv
  <2>2. CASE Encoding
    <3>1. decResult' = decResult
      BY <2>2 DEF Encoding, decVars
    <3>2. encPc' = "insert" => encNative = "live"
      <4>1. encPc = "insert" => encNative = "live"
        BY <2>1 DEF Handles
      <4>2. ASSUME NEW e, NEW m, BeginEncode(e, m)
            PROVE  encPc' = "insert" => encNative = "live"
        <5>1. CASE encPtr
          BY <2>1, <5>1 DEF Handles
        <5>2. CASE ~encPtr
          BY <4>1, <4>2, <5>2 DEF BeginEncode, EncodeFails
        <5>3. QED
          BY <5>1, <5>2
      <4>3. ASSUME EncNext, encPc' # encPc
            PROVE  \/ \E e \in Encodings : \E m \in Messages : BeginEncode(e, m)
                   \/ encPc' # "insert"
        BY <4>3 DEF EncNext, EightByteNew, FourByteNew, NewEncoder, EncodeEightByte,
           EncodeFourByte, InsertNext, ReturnEncoded, EncClose, Encodings
      <4>4. QED
        BY <2>2, <4>1, <4>2, <4>3 DEF Encoding
    <3>3. QED
      BY <3>1, <3>2
  <2>3. CASE Decoding
    <3>1. encPc' # "insert"
      BY <2>3 DEF Decoding, encVars
    <3>2. CASE NewDecoder \/ DecClose
      BY <3>1, <3>2 DEF NewDecoder, DecClose
    <3>3. ASSUME NEW e, NEW ir, DecodeOf(e, ir)
          PROVE  decResult'.err = Success => decNative = "live"
      BY <2>1, <3>3 DEF DecodeOf, DecodeEightByte, DecodeFourByte, DecodeLogMessage, Handles,
         DecodeError, Success
    <3>4. QED
      BY <2>3, <3>1, <3>2, <3>3 DEF Decoding, DecodeView, DecodeGiven, DecodeDamaged
  <2>4. QED
    BY <1>1, <2>2, <2>3 DEF Next
<1>2. QED
  BY <1>1, CodecInvariant, PTL DEF Spec, NoUseAfterClose

-----------------------------------------------------------------------------
(* The Decoder.  What one call of it does to its state. *)
LEMMA DecodeFacts ==
    ASSUME NEW e, NEW ir, DecodeOf(e, ir)
    PROVE  LET d == CoreDecode(e, ir)
           IN  /\ decNative # "none"
               /\ UNCHANGED <<decNative, decPtr>>
               /\ mMessage' = IF decPtr THEN Assigned(d) ELSE mMessage
               /\ decResult' = IF decPtr /\ d.ok
                               THEN [err |-> Success, message |-> d.message]
                               ELSE [err |-> DecodeError, message |-> <<>>]
BY DEF DecodeOf, DecodeEightByte, DecodeFourByte, DecodeLogMessage, Assigned

(* The inductive invariant of DecodesOnItsOwn: nothing has been asked of a *)
(* Decoder that was never made, so making it answers nothing.              *)
Answered ==
    /\ asked.of \in {"nothing", "view", "given", "damaged"}
    /\ asked.of # "nothing" => decNative # "none"
    /\ DecodesOnItsOwn

LEMMA AnsweredNext == Answered /\ [Next]_vars => Answered'
<1> SUFFICES ASSUME Answered, [Next]_vars PROVE Answered'
  OBVIOUS
<1>1. CASE UNCHANGED <<decVars, asked>>
  BY <1>1 DEF Answered, DecodesOnItsOwn, Recovered, decVars
<1>2. CASE NewDecoder /\ UNCHANGED asked
  BY <1>2 DEF NewDecoder, Answered, DecodesOnItsOwn, Recovered
<1>3. CASE DecClose /\ UNCHANGED asked
  <2>1. decNative' \in {"freed", decNative} /\ ~decPtr' /\ UNCHANGED decResult
    BY <1>3 DEF DecClose
  <2>2. QED
    BY <1>3, <2>1 DEF Answered, DecodesOnItsOwn, Recovered
<1>4. CASE DecodeView
  <2>1. decNative # "none" /\ decNative' = decNative
    BY <1>4, DecodeFacts DEF DecodeView
  <2>2. asked'.of = "view"
    BY <1>4 DEF DecodeView, Ask
  <2>3. QED
    BY <2>1, <2>2 DEF Answered, DecodesOnItsOwn
<1>5. CASE DecodeGiven
  <2>1. PICK g \in Given : DecodeOf(g.e, g.ir) /\ asked' = Ask("given", g.message, FALSE)
    BY <1>5 DEF DecodeGiven
  <2>2. /\ decNative # "none" /\ UNCHANGED <<decNative, decPtr>>
        /\ decPtr => decResult' = [err |-> Success, message |-> g.message]
    <3>1. CoreDecode(g.e, g.ir) = [ok |-> TRUE, message |-> g.message]
      BY GivenAssumption
    <3> DEFINE d == CoreDecode(g.e, g.ir)
    <3>2. /\ decNative # "none" /\ UNCHANGED <<decNative, decPtr>>
          /\ decResult' = IF decPtr /\ d.ok
                          THEN [err |-> Success, message |-> d.message]
                          ELSE [err |-> DecodeError, message |-> <<>>]
      BY <2>1, DecodeFacts
    <3>3. d.ok = TRUE /\ d.message = g.message
      BY <3>1
    <3> HIDE DEF d
    <3>4. QED
      BY <3>2, <3>3
  <2>3. asked'.of = "given" /\ asked'.message = g.message
    BY <2>1 DEF Ask
  <2>4. QED
    BY <2>2, <2>3 DEF Answered, DecodesOnItsOwn, Recovered
<1>6. CASE DecodeDamaged
  <2>1. PICK g \in Damaged : DecodeOf(g.e, g.ir) /\ asked' = Ask("damaged", <<>>, FALSE)
    BY <1>6 DEF DecodeDamaged
  <2>2. /\ decNative # "none" /\ UNCHANGED <<decNative, decPtr>>
        /\ decResult' = [err |-> DecodeError, message |-> <<>>]
    BY <2>1, DecodeFacts, DamagedAssumption
  <2>3. asked'.of = "damaged"
    BY <2>1 DEF Ask
  <2>4. QED
    BY <2>2, <2>3 DEF Answered, DecodesOnItsOwn
<1>7. QED
  BY <1>1, <1>2, <1>3, <1>4, <1>5, <1>6 DEF Next, Encoding, Decoding, vars

(* A Decoder answers each LogMessage on its own: a well-formed one with    *)
(* its message, a damaged one with an error, whatever calls came before.   *)
THEOREM CodecDecodesOnItsOwn == Spec => []DecodesOnItsOwn
<1>1. Init => Answered
  BY DEF Init, DecInit, Ask, Answered, DecodesOnItsOwn
<1>2. Answered /\ [Next]_vars => Answered'
  BY AnsweredNext
<1>3. Answered => DecodesOnItsOwn
  BY DEF Answered
<1>4. QED
  BY <1>1, <1>2, <1>3, PTL DEF Spec

-----------------------------------------------------------------------------
(* decode_message fills a std::string, whether or not it then succeeds.    *)
CoreDecodeTyped ==
    \A e \in Encodings, ir \in LogMessage :
        CoreDecode(e, ir) \in [ok : BOOLEAN, message : Seq(Bytes)]

LEMMA DecodedType ==
    ASSUME CoreDecodeTyped, DecTypeOK, NEW e \in Encodings, NEW ir \in LogMessage,
           DecodeOf(e, ir)
    PROVE  DecTypeOK'
<1> DEFINE d == CoreDecode(e, ir)
<1>1. d \in [ok : BOOLEAN, message : Seq(Bytes)]
  BY DEF CoreDecodeTyped
<1>2. d.message \in Seq(Bytes) /\ mMessage \in Seq(Bytes) /\ <<>> \in Seq(Bytes)
  BY <1>1, EmptySeq DEF DecTypeOK
<1>3. /\ UNCHANGED <<decNative, decPtr>>
      /\ mMessage' \in {d.message, mMessage}
      /\ decResult' \in {[err |-> Success, message |-> d.message],
                         [err |-> DecodeError, message |-> <<>>]}
  <2> HIDE DEF d
  <2>1. /\ UNCHANGED <<decNative, decPtr>>
        /\ mMessage' = IF decPtr THEN Assigned(d) ELSE mMessage
        /\ decResult' = IF decPtr /\ d.ok
                        THEN [err |-> Success, message |-> d.message]
                        ELSE [err |-> DecodeError, message |-> <<>>]
    BY DecodeFacts DEF d
  <2>2. QED
    BY <2>1 DEF Assigned
<1> HIDE DEF d
<1>4. mMessage' \in Seq(Bytes)
  BY <1>2, <1>3
<1>5. decResult' \in [err : Errors, message : Seq(Bytes)]
  <2>1. Success \in Errors /\ DecodeError \in Errors
    BY DEF Errors, Success, DecodeError, IoError
  <2>2. /\ [err |-> Success, message |-> d.message] \in [err : Errors, message : Seq(Bytes)]
        /\ [err |-> DecodeError, message |-> <<>>] \in [err : Errors, message : Seq(Bytes)]
    BY <1>2, <2>1
  <2>3. QED
    BY <1>3, <2>2
<1>6. QED
  BY <1>3, <1>4, <1>5 DEF DecTypeOK

LEMMA DecTypeNext ==
    ASSUME CoreDecodeTyped, Inv, DecTypeOK, [Next]_vars
    PROVE  DecTypeOK'
<1>1. CASE UNCHANGED decVars
  BY <1>1 DEF DecTypeOK, decVars
<1>2. CASE NewDecoder
  BY <1>2 DEF NewDecoder, DecTypeOK
<1>3. CASE DecClose
  BY <1>3 DEF DecClose, DecTypeOK
<1>4. encoding \in Encodings /\ encResult.view \in LogMessage
  BY DEF Inv, EncTypeOK
<1>5. CASE DecodeView
  <2>1. DecodeOf(encoding, encResult.view)
    BY <1>5 DEF DecodeView
  <2>2. QED
    BY <1>4, <2>1, DecodedType
<1>6. CASE DecodeGiven
  <2>1. PICK g \in Given : g.e = encoding /\ DecodeOf(g.e, g.ir)
    BY <1>6 DEF DecodeGiven
  <2>2. g.e \in Encodings /\ g.ir \in LogMessage
    BY <1>4, <2>1, GivenAssumption
  <2>3. QED
    BY <2>1, <2>2, DecodedType
<1>7. CASE DecodeDamaged
  <2>1. PICK g \in Damaged : g.e = encoding /\ DecodeOf(g.e, g.ir)
    BY <1>7 DEF DecodeDamaged
  <2>2. g.e \in Encodings /\ g.ir \in LogMessage
    BY <1>4, <2>1, DamagedAssumption
  <2>3. QED
    BY <2>1, <2>2, DecodedType
<1>8. QED
  BY <1>1, <1>2, <1>3, <1>5, <1>6, <1>7 DEF Next, Encoding, Decoding, vars

(* The type invariant.  What the Decoder holds is what the core library    *)
(* made of a LogMessage, which has to be a string of bytes.                *)
THEOREM CodecTypes == ASSUME CoreDecodeTyped PROVE Spec => []TypeOK
<1> DEFINE TInv == Inv /\ DecTypeOK /\ Answered
<1>1. Init => TInv
  <2>1. Init => DecTypeOK
    <3>1. <<>> \in Seq(Bytes)
      BY EmptySeq
    <3>2. DecodeError \in Errors
      BY DEF Errors, Success, DecodeError, IoError
    <3>3. [err |-> DecodeError, message |-> <<>>] \in [err : Errors, message : Seq(Bytes)]
      BY <3>1, <3>2
    <3>4. QED
      BY <3>1, <3>3 DEF Init, DecInit, DecTypeOK
  <2>2. Init => Answered
    BY DEF Init, DecInit, Ask, Answered, DecodesOnItsOwn
  <2>3. QED
    BY <2>1, <2>2, InvInit
<1>2. TInv /\ [Next]_vars => TInv'
  BY InvNext, DecTypeNext, AnsweredNext
<1>3. TInv => TypeOK
  BY DEF Inv, Answered, TypeOK
<1> HIDE DEF TInv
<1>4. QED
  BY <1>1, <1>2, <1>3, PTL DEF Spec

-----------------------------------------------------------------------------
(* What an Encoder holds that no call has left a variable in, and one that *)
(* holds the variables of the newest message only.                         *)
Bare(m) == ~HasDictVars(m) /\ ~HasVars(m)

NothingLeft ==
    /\ mLogMessage.vars = <<>>
    /\ mLogMessage.dictVars = <<>>
    /\ mLogMessage.dictVarEndOffsets = <<>>

OnlyNewest ==
    /\ mLogMessage.vars = CoreEncode(encoding, Newest).vars
    /\ mLogMessage.dictVars = <<>>
    /\ mLogMessage.dictVarEndOffsets = <<>>

(* The inductive invariant of PlainRoundTrip. *)
Clean ==
    /\ (\A i \in 1 .. Len(encoded) : Bare(encoded[i])) => NothingLeft
    /\ ((encPc = "insert" \/ JustEncoded) /\ Plain) => OnlyNewest
    /\ JustEncoded => encResult.view = NewLogMessageView(mLogMessage)
    /\ asked.of # "nothing" => decNative # "none"
    /\ PlainRoundTrip

LEMMA CleanBegun ==
    ASSUME Inv, Clean, NEW e \in Encodings, NEW m \in Messages, BeginEncode(e, m),
           UNCHANGED <<decVars, asked>>
    PROVE  Clean'
<1> DEFINE c == CoreEncode(encoding, m)
           n == Len(encoded)
<1>1. /\ encoded \in Seq(Messages) /\ encoded' = Append(encoded, m)
      /\ encoding \in Encodings
  BY DEF BeginEncode, Inv, EncTypeOK
<1>2. /\ n \in Nat /\ Len(encoded') = n + 1
      /\ \A i \in 1 .. n : encoded'[i] = encoded[i]
      /\ encoded'[n + 1] = m
  BY <1>1, AppendProperties, LenProperties
<1>3. /\ UNCHANGED encoding
      /\ mLogMessage'.dictVars = mLogMessage.dictVars
      /\ mLogMessage'.dictVarEndOffsets = mLogMessage.dictVarEndOffsets
      /\ mLogMessage'.vars \in {mLogMessage.vars, <<>>, c.vars, mLogMessage.vars \o c.vars}
      /\ encPc' = "insert" => mLogMessage'.vars \in {c.vars, mLogMessage.vars \o c.vars}
      /\ ~JustEncoded'
  BY BegunFacts
<1>4. c.vars \in Seq(EncodedVars)
  BY <1>1, CoreFacts
<1>5. <<>> \o c.vars = c.vars /\ (c.vars = <<>> => <<>> \o <<>> = <<>>)
  <2> HIDE DEF c
  <2>1. QED
    BY <1>4, ConcatEmptySeq
<1>6. Newest' = m /\ n \in 0 .. n /\ Len(encoded') - 1 = n
  <2>1. Newest' = encoded'[n + 1]
    BY <1>2 DEF Newest
  <2>2. QED
    BY <1>2, <2>1
<1>7. ASSUME \A i \in 1 .. n : Bare(encoded[i]) PROVE NothingLeft
  BY <1>7 DEF Clean
<1>8. ASSUME (\A i \in 1 .. Len(encoded) : Bare(encoded[i]))' PROVE NothingLeft'
  <2>1. \A i \in 1 .. n + 1 : Bare(encoded'[i])
    BY <1>2, <1>3, <1>8 DEF Bare, HasDictVars, HasVars
  <2>2. \A i \in 1 .. n : Bare(encoded[i])
    <3>1. \A i \in 1 .. n : i \in 1 .. n + 1
      BY <1>2
    <3>2. QED
      BY <1>2, <2>1, <3>1
  <2>3. c.vars = <<>>
    <3>1. n + 1 \in 1 .. n + 1
      BY <1>2
    <3>2. Bare(m)
      BY <1>2, <2>1, <3>1
    <3>3. QED
      BY <3>2 DEF Bare, HasVars
  <2> HIDE DEF c
  <2>4. mLogMessage'.vars = <<>>
    BY <1>3, <1>5, <1>7, <2>2, <2>3 DEF NothingLeft
  <2>5. QED
    BY <1>3, <1>7, <2>2, <2>4 DEF NothingLeft
<1>9. ASSUME encPc' = "insert", Plain' PROVE OnlyNewest'
  <2>1. \A i \in 1 .. n : Bare(encoded'[i])
    BY <1>3, <1>6, <1>9 DEF Plain, Bare, HasDictVars, HasVars
  <2>2. NothingLeft
    BY <1>2, <1>7, <2>1
  <2>3. mLogMessage'.vars = c.vars
    <3> HIDE DEF c
    <3>1. QED
      BY <1>3, <1>5, <1>9, <2>2 DEF NothingLeft
  <2>4. CoreEncode(encoding', Newest') = c
    BY <1>3, <1>6
  <2>5. QED
    BY <1>3, <2>2, <2>3, <2>4 DEF OnlyNewest, NothingLeft
<1>10. (asked.of # "nothing" => decNative # "none")' /\ PlainRoundTrip'
  BY DEF Clean, PlainRoundTrip, RoundTrip, Recovered, decVars
<1>11. QED
  BY <1>3, <1>8, <1>9, <1>10 DEF Clean

(* A message with no variable for the dictionary has none to insert.       *)
LEMMA NothingToInsert ==
    ASSUME Inv, InsertNext
    PROVE  ~Plain /\ ~(\A i \in 1 .. Len(encoded) : Bare(encoded[i]))
<1>1. encPc = "insert" /\ inserted < Len(dictVarOffsets)
  BY DEF InsertNext
<1>2. Underway /\ EncTypeOK
  BY <1>1 DEF Inv
<1>3. HasDictVars(Newest)
  <2>1. dictVarOffsets # <<>>
    <3>1. inserted \in Nat /\ Len(<<>>) = 0
      BY <1>2, EmptySeq, LenProperties DEF EncTypeOK
    <3>2. QED
      BY <1>1, <3>1
  <2>2. QED
    BY <1>2, <2>1 DEF Underway, HasDictVars
<1>4. Len(encoded) \in 1 .. Len(encoded)
  <2>1. encoded \in Seq(Messages) /\ encoded # <<>>
    BY <1>2 DEF EncTypeOK, Underway
  <2>2. QED
    BY <2>1, EmptySeq, LenProperties
<1>5. QED
  BY <1>3, <1>4 DEF Plain, Bare, Newest

(* Without dictionary variables the view is the fields themselves. *)
LEMMA ViewDecodes ==
    ASSUME Inv, Clean, JustEncoded, Plain
    PROVE  CoreDecode(encoding, encResult.view) = [ok |-> TRUE, message |-> Newest]
<1> DEFINE c == CoreEncode(encoding, Newest)
<1>1. EncTypeOK /\ Underway
  BY DEF Inv
<1>2. encoding \in Encodings /\ Newest \in Messages /\ mLogMessage \in LogMessage
  BY <1>1, NewestType DEF EncTypeOK, Underway
<1>3. OnlyNewest /\ encResult.view = NewLogMessageView(mLogMessage)
  BY DEF Clean
<1>4. mLogMessage.logtype = c.logtype /\ c.dictVarOffsets = <<>>
  BY <1>1 DEF Underway, Plain, HasDictVars
<1>5. encResult.view = [logtype |-> c.logtype, vars |-> c.vars,
                        dictVars |-> <<>>, dictVarEndOffsets |-> <<>>]
  BY <1>2, <1>3, <1>4 DEF NewLogMessageView, OnlyNewest, LogMessage
<1>6. c.dictVarOffsets = <<>> =>
          CoreDecode(encoding, [logtype |-> c.logtype, vars |-> c.vars,
                                dictVars |-> <<>>, dictVarEndOffsets |-> <<>>])
              = [ok |-> TRUE, message |-> Newest]
  BY <1>2, CoreInverseAssumption
<1> HIDE DEF c
<1>7. QED
  BY <1>4, <1>5, <1>6

LEMMA CleanNext == ASSUME Inv, Clean, [Next]_vars PROVE Clean'
<1>1. CASE Encoding
  <2>1. EncNext /\ UNCHANGED <<decVars, asked>>
    BY <1>1 DEF Encoding
  <2>2. (asked.of # "nothing" => decNative # "none")' /\ PlainRoundTrip'
    BY <2>1 DEF Clean, PlainRoundTrip, RoundTrip, Recovered, decVars
  <2>3. ASSUME NEW e \in Encodings, NewEncoder(e) PROVE Clean'
    <3>1. UNCHANGED <<encoding, mLogMessage, encoded>>
      BY <2>3 DEF NewEncoder
    <3>2. encPc' = "idle" /\ ~JustEncoded'
      BY <2>3 DEF Inv, EncTypeOK, Handles, NewEncoder, JustEncoded, EncodeError, Success
    <3>3. (\A i \in 1 .. Len(encoded) : Bare(encoded[i]))' => NothingLeft'
      BY <3>1 DEF Clean, Bare, HasDictVars, HasVars, NothingLeft
    <3>4. QED
      BY <2>2, <3>2, <3>3 DEF Clean
  <2>4. ASSUME NEW m \in Messages, EncodeEightByte(m) \/ EncodeFourByte(m) PROVE Clean'
    BY <2>1, <2>4, CleanBegun DEF EncodeEightByte, EncodeFourByte, Encodings
  <2>5. CASE InsertNext
    <3>1. UNCHANGED <<encoding, encoded>> /\ encPc' = "insert"
      BY <2>5 DEF InsertNext
    <3>2. ~Plain' /\ ~(\A i \in 1 .. Len(encoded) : Bare(encoded[i]))' /\ ~JustEncoded'
      BY <2>5, <3>1, NothingToInsert DEF Plain, Bare, HasDictVars, HasVars, Newest, JustEncoded
    <3>3. QED
      BY <2>2, <3>2 DEF Clean
  <2>6. CASE ReturnEncoded
    <3>1. /\ UNCHANGED <<encoding, mLogMessage, encoded>> /\ encPc = "insert"
          /\ encResult'.view = NewLogMessageView(mLogMessage)
      BY <2>6 DEF ReturnEncoded
    <3>2. (\A i \in 1 .. Len(encoded) : Bare(encoded[i]))' => NothingLeft'
      BY <3>1 DEF Clean, Bare, HasDictVars, HasVars, NothingLeft
    <3>3. Plain' => OnlyNewest'
      BY <3>1 DEF Clean, Plain, OnlyNewest, HasDictVars, HasVars, Newest
    <3>4. encResult'.view = NewLogMessageView(mLogMessage)'
      BY <3>1 DEF NewLogMessageView
    <3>5. QED
      BY <2>2, <3>2, <3>3, <3>4 DEF Clean
  <2>7. CASE EncClose
    <3>1. UNCHANGED <<encoding, mLogMessage, encoded>> /\ encPc' = "idle" /\ ~JustEncoded'
      BY <2>7 DEF EncClose, JustEncoded
    <3>2. (\A i \in 1 .. Len(encoded) : Bare(encoded[i]))' => NothingLeft'
      BY <3>1 DEF Clean, Bare, HasDictVars, HasVars, NothingLeft
    <3>3. QED
      BY <2>2, <3>1, <3>2 DEF Clean
  <2>8. CASE EightByteNew \/ FourByteNew
    BY <2>3, <2>8 DEF EightByteNew, FourByteNew, Encodings
  <2>9. QED
    BY <2>1, <2>4, <2>5, <2>6, <2>7, <2>8 DEF EncNext
<1>2. ASSUME UNCHANGED encVars,
             (asked.of # "nothing" => decNative # "none")', PlainRoundTrip'
      PROVE  Clean'
  <2>1. /\ UNCHANGED <<encoding, mLogMessage, encoded, encPc, encPtr, encResult>>
    BY <1>2 DEF encVars
  <2>2. (\A i \in 1 .. Len(encoded) : Bare(encoded[i]))' => NothingLeft'
    BY <2>1 DEF Clean, Bare, HasDictVars, HasVars, NothingLeft
  <2>3. ((encPc = "insert" \/ JustEncoded) /\ Plain)' => OnlyNewest'
    BY <2>1 DEF Clean, Plain, OnlyNewest, HasDictVars, HasVars, Newest, JustEncoded
  <2>4. JustEncoded' => encResult'.view = NewLogMessageView(mLogMessage)'
    BY <2>1 DEF Clean, JustEncoded, NewLogMessageView
  <2>5. QED
    BY <1>2, <2>2, <2>3, <2>4 DEF Clean
<1>3. CASE Decoding
  <2>1. UNCHANGED encVars
    BY <1>3 DEF Decoding
  <2>2. CASE NewDecoder /\ UNCHANGED asked
    BY <1>2, <2>1, <2>2 DEF NewDecoder, Clean, PlainRoundTrip, RoundTrip
  <2>3. CASE DecClose /\ UNCHANGED asked
    <3>1. decNative' \in {"freed", decNative} /\ ~decPtr'
      BY <2>3 DEF DecClose
    <3>2. QED
      BY <1>2, <2>1, <2>3, <3>1 DEF Clean, PlainRoundTrip, RoundTrip
  <2>4. CASE DecodeView
    <3>1. /\ JustEncoded /\ DecodeOf(encoding, encResult.view)
          /\ asked' = Ask("view", Newest, Plain)
      BY <2>4 DEF DecodeView
    <3>2. decNative # "none" /\ UNCHANGED <<decNative, decPtr>>
      BY <3>1, DecodeFacts
    <3>3. ASSUME asked'.plain, decPtr PROVE Recovered'
      <4>1. Plain /\ asked'.message = Newest
        BY <3>1, <3>3 DEF Ask
      <4>2. CoreDecode(encoding, encResult.view) = [ok |-> TRUE, message |-> Newest]
        BY <3>1, <4>1, ViewDecodes
      <4>3. decResult' = [err |-> Success, message |-> Newest]
        <5> DEFINE d == CoreDecode(encoding, encResult.view)
        <5>1. decResult' = IF decPtr /\ d.ok
                           THEN [err |-> Success, message |-> d.message]
                           ELSE [err |-> DecodeError, message |-> <<>>]
          BY <3>1, DecodeFacts
        <5>2. d.ok = TRUE /\ d.message = Newest
          BY <4>2
        <5> HIDE DEF d
        <5>3. QED
          BY <3>3, <5>1, <5>2
      <4>4. QED
        BY <4>1, <4>3 DEF Recovered
    <3>4. QED
      BY <1>2, <2>1, <3>2, <3>3 DEF PlainRoundTrip, RoundTrip
  <2>5. CASE DecodeGiven \/ DecodeDamaged
    <3>1. decNative # "none" /\ UNCHANGED decNative
      BY <2>5, DecodeFacts DEF DecodeGiven, DecodeDamaged
    <3>2. asked'.of # "view"
      BY <2>5 DEF DecodeGiven, DecodeDamaged, Ask
    <3>3. QED
      BY <1>2, <2>1, <3>1, <3>2 DEF PlainRoundTrip, RoundTrip
  <2>6. QED
    BY <1>3, <2>2, <2>3, <2>4, <2>5 DEF Decoding
<1>4. CASE UNCHANGED vars
  BY <1>2, <1>4 DEF vars, decVars, Clean, PlainRoundTrip, RoundTrip, Recovered
<1>5. QED
  BY <1>1, <1>3, <1>4 DEF Next

(* Decoding the view of a message without dictionary variables gives the   *)
(* message back, as long as no variable of an earlier call can be left in  *)
(* the Encoder, whatever calls of either object have failed before.        *)
THEOREM CodecPlainRoundTrip == Spec => []PlainRoundTrip
<1>1. Init => Clean
  BY DEF Init, EncInit, DecInit, Ask, Empty, Clean, NothingLeft, JustEncoded, PlainRoundTrip
<1>2. Inv /\ Clean /\ [Next]_vars => Clean'
  BY CleanNext
<1>3. Clean => PlainRoundTrip
  BY DEF Clean
<1>4. QED
  BY <1>1, <1>2, <1>3, CodecInvariant, PTL DEF Spec
=============================================================================
