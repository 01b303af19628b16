------------------------- MODULE WildcardQueryProofs -------------------------
(***************************************************************************)
(* A list of queries survives its way from Go to C++: what SplitQueries    *)
(* cuts out of the merged string are the queries that were merged, for     *)
(* every list, empty queries and queries of any length included.           *)
(*                                                                         *)
(* The induction over the list takes the least element of a set of         *)
(* numbers, the form of induction that is about sets and not operators.    *)
(***************************************************************************)
EXTENDS WildcardQuery, SequenceTheorems, WellFoundedInduction, TLAPS

LEMMA LeastElement ==
    ASSUME NEW T, T \subseteq Nat, T # {}
    PROVE  \E x \in T : \A y \in T : x <= y
<1> DEFINE R == {ss \in Nat \X Nat : ss[1] < ss[2]}
<1>1. IsWellFoundedOn(R, Nat)
  BY NatLessThanWellFounded DEF OpToRel
<1> HIDE DEF R
<1>2. PICK x \in T : \A y \in T : ~ (<<y, x>> \in R)
  BY <1>1, WFMin
<1>3. ASSUME NEW y \in T PROVE x <= y
  <2>1. x \in Nat /\ y \in Nat /\ <<y, x>> \in Nat \X Nat
    OBVIOUS
  <2>2. ~(y < x)
    BY <1>2, <2>1 DEF R
  <2>3. QED
    BY <2>1, <2>2
<1>4. QED
  BY <1>3

(* Induction over the numbers up to n, for a set of numbers. *)
LEMMA Ascent ==
    ASSUME NEW n \in Nat, NEW good, 0 \in good,
           \A i \in 0 .. n : i # n /\ i \in good => i + 1 \in good
    PROVE  0 .. n \subseteq good
<1> DEFINE T == {i \in 0 .. n : i \notin good}
<1>1. SUFFICES ASSUME T # {} PROVE FALSE
  OBVIOUS
<1>2. PICK x \in T : \A y \in T : x <= y
  <2>1. T \subseteq Nat
    OBVIOUS
  <2> HIDE DEF T
  <2>2. QED
    BY <1>1, <2>1, LeastElement
<1>3. x \in 0 .. n /\ x # 0 /\ x - 1 \in 0 .. n /\ x - 1 # n /\ ~(x <= x - 1) /\ (x - 1) + 1 = x
  OBVIOUS
<1>4. x - 1 \in good
  BY <1>2, <1>3
<1>5. QED
  BY <1>3, <1>4

-----------------------------------------------------------------------------
(* The recursive functions are what their equations say. *)

Joining(f, q) ==
    f = [i \in 0 .. Len(q) |-> IF i = 0 THEN <<>> ELSE f[i - 1] \o q[i].query]

LEMMA JoinedFcn ==
    ASSUME NEW q, Len(q) \in Nat
    PROVE  \E f : Joining(f, q) /\ Joined(q) = f[Len(q)]
<1> DEFINE Upto(f, n) == f = [i \in 0 .. n |-> IF i = 0 THEN <<>> ELSE f[i - 1] \o q[i].query]
           good == {n \in Nat : \E f : Upto(f, n)}
<1>1. 0 \in good
  <2> DEFINE f == [i \in 0 .. 0 |-> <<>>]
  <2>1. Upto(f, 0)
    OBVIOUS
  <2>2. QED
    BY <2>1
<1>2. ASSUME NEW n \in Nat, n \in good PROVE n + 1 \in good
  <2>1. PICK f : Upto(f, n)
    BY <1>2
  <2> DEFINE g == [i \in 0 .. n + 1 |-> IF i = n + 1 THEN f[n] \o q[n + 1].query ELSE f[i]]
  <2>2. \A i \in 0 .. n : f[i] = IF i = 0 THEN <<>> ELSE f[i - 1] \o q[i].query
    BY <2>1
  <2>3. ASSUME NEW i \in 0 .. n + 1
        PROVE  g[i] = IF i = 0 THEN <<>> ELSE g[i - 1] \o q[i].query
    <3>1. CASE i = n + 1
      <4>1. i - 1 = n /\ n # n + 1 /\ n \in 0 .. n + 1 /\ i # 0
        BY <3>1
      <4>2. g[n] = f[n]
        BY <4>1
      <4>3. QED
        BY <3>1, <4>1, <4>2
    <3>2. CASE i # n + 1
      <4>1. i \in 0 .. n /\ (i # 0 => i - 1 \in 0 .. n + 1 /\ i - 1 # n + 1)
        BY <3>2
      <4>2. g[i] = f[i] /\ (i # 0 => g[i - 1] = f[i - 1])
        BY <3>2, <4>1
      <4>3. QED
        BY <2>2, <4>1, <4>2
    <3>3. QED
      BY <3>1, <3>2
  <2>4. Upto(g, n + 1)
    <3>1. g = [i \in 0 .. n + 1 |-> g[i]]
      OBVIOUS
    <3> HIDE DEF g
    <3>2. QED
      BY <2>3, <3>1
  <2> HIDE DEF g, Upto
  <2>5. QED
    BY <2>4
<1> HIDE DEF good
<1>3. 0 .. Len(q) \subseteq good
  BY <1>1, <1>2, Ascent
<1>4. \E f : Upto(f, Len(q))
  <2>1. Len(q) \in good
    BY <1>3
  <2> HIDE DEF Upto
  <2>2. QED
    BY <2>1 DEF good
<1>5. Joined(q) = (CHOOSE f : Upto(f, Len(q)))[Len(q)]
  BY DEF Joined
<1>6. QED
  BY <1>4, <1>5 DEF Joining

(* The string joined so far: a string of characters that grows by one     *)
(* query a step and keeps what it has.                                     *)
LEMMA JoiningGrows ==
    ASSUME NEW q \in Seq(WildcardQuery), NEW f, Joining(f, q)
    PROVE  /\ f[0] = <<>>
           /\ \A i \in 0 .. Len(q) : f[i] \in Seq(Chars)
           /\ \A i \in 1 .. Len(q) : /\ q[i].query \in Seq(Chars)
                                     /\ f[i] = f[i - 1] \o q[i].query
                                     /\ Len(f[i]) = Len(f[i - 1]) + Len(q[i].query)
<1> DEFINE good == {i \in 0 .. Len(q) : f[i] \in Seq(Chars)}
<1>1. Len(q) \in Nat /\ \A i \in 1 .. Len(q) : q[i].query \in Seq(Chars)
  <2>1. \A i \in 1 .. Len(q) : q[i] \in WildcardQuery
    BY ElementOfSeq
  <2>2. Len(q) \in Nat
    BY LenProperties
  <2>3. QED
    BY <2>1, <2>2 DEF WildcardQuery
<1>2. \A i \in 0 .. Len(q) : f[i] = IF i = 0 THEN <<>> ELSE f[i - 1] \o q[i].query
  BY DEF Joining
<1>3. f[0] = <<>>
  <2>1. 0 \in 0 .. Len(q)
    BY <1>1
  <2>2. QED
    BY <1>2, <2>1
<1>4. \A i \in 1 .. Len(q) : f[i] = f[i - 1] \o q[i].query
  <2> TAKE i \in 1 .. Len(q)
  <2>1. i \in 0 .. Len(q) /\ i # 0
    BY <1>1
  <2>2. QED
    BY <1>2, <2>1
<1>5. 0 \in good
  <2>1. 0 \in 0 .. Len(q)
    BY <1>1
  <2>2. <<>> \in Seq(Chars)
    BY EmptySeq
  <2>3. QED
    BY <1>3, <2>1, <2>2
<1>6. ASSUME NEW i \in 0 .. Len(q), i # Len(q), i \in good PROVE i + 1 \in good
  <2>1. i + 1 \in 1 .. Len(q) /\ (i + 1) - 1 = i /\ i + 1 \in 0 .. Len(q)
    BY <1>1, <1>6
  <2>2. f[i + 1] = f[i] \o q[i + 1].query
    BY <1>4, <2>1
  <2>3. QED
    BY <1>1, <1>6, <2>1, <2>2, ConcatProperties
<1>7. \A i \in 0 .. Len(q) : f[i] \in Seq(Chars)
  <2>1. 0 .. Len(q) \subseteq good
    <3> HIDE DEF good
    <3>1. QED
      BY <1>1, <1>5, <1>6, Ascent
  <2>2. QED
    BY <2>1
<1>8. \A i \in 1 .. Len(q) : Len(f[i]) = Len(f[i - 1]) + Len(q[i].query)
  <2> TAKE i \in 1 .. Len(q)
  <2>1. i - 1 \in 0 .. Len(q)
    BY <1>1
  <2> DEFINE s == f[i - 1]
             t == q[i].query
  <2>2. s \in Seq(Chars) /\ t \in Seq(Chars) /\ f[i] = s \o t
    BY <1>1, <1>4, <1>7, <2>1
  <2> HIDE DEF s, t
  <2>3. Len(s \o t) = Len(s) + Len(t)
    BY <2>2, ConcatProperties
  <2>4. QED
    BY <2>2, <2>3 DEF s, t
<1>9. QED
  BY <1>1, <1>3, <1>4, <1>7, <1>8

LEMMA JoiningKeeps ==
    ASSUME NEW q \in Seq(WildcardQuery), NEW f, Joining(f, q), NEW i \in 0 .. Len(q)
    PROVE  /\ Len(f[i]) <= Len(f[Len(q)])
           /\ \A x \in 1 .. Len(f[i]) : f[Len(q)][x] = f[i][x]
<1> DEFINE Kept(k) == Len(f[i]) <= Len(f[k]) /\ \A x \in 1 .. Len(f[i]) : f[k][x] = f[i][x]
           good == {k \in 0 .. Len(q) : k < i \/ Kept(k)}
<1>1. Len(q) \in Nat /\ \A k \in 0 .. Len(q) : f[k] \in Seq(Chars) /\ Len(f[k]) \in Nat
  BY JoiningGrows, LenProperties
<1>2. Kept(i)
  BY <1>1
<1>3. ASSUME NEW k \in 0 .. Len(q), k # Len(q), Kept(k) PROVE Kept(k + 1)
  <2>1. k + 1 \in 1 .. Len(q) /\ (k + 1) - 1 = k
    BY <1>1, <1>3
  <2>2. f[k + 1] = f[k] \o q[k + 1].query /\ q[k + 1].query \in Seq(Chars)
    BY <2>1, JoiningGrows
  <2>3. Len(f[k + 1]) = Len(f[k]) + Len(q[k + 1].query) /\ Len(q[k + 1].query) \in Nat
    BY <1>1, <2>2, ConcatProperties, LenProperties
  <2> DEFINE a == Len(f[i])
             b == Len(f[k])
             d == Len(q[k + 1].query)
             e == Len(f[k + 1])
  <2>4. a \in Nat /\ b \in Nat /\ a <= b /\ d \in Nat /\ e = b + d
    BY <1>1, <1>3, <2>3
  <2> HIDE DEF a, b, d, e
  <2>5. \A x \in 1 .. Len(f[k]) : f[k + 1][x] = f[k][x]
    <3>1. \A x \in 1 .. b : x \in 1 .. b + d /\ x <= b
      BY <2>4
    <3> TAKE x \in 1 .. Len(f[k])
    <3>2. x \in 1 .. Len(f[k]) + Len(q[k + 1].query) /\ x <= Len(f[k])
      BY <3>1 DEF b, d
    <3>3. QED
      BY <1>1, <2>2, <3>2, ConcatProperties
  <2>6. \A x \in 1 .. Len(f[i]) : x \in 1 .. Len(f[k])
    <3>1. \A x \in 1 .. a : x \in 1 .. b
      BY <2>4
    <3>2. QED
      BY <3>1 DEF a, b
  <2>7. Len(f[i]) <= Len(f[k + 1])
    <3>1. a <= e
      BY <2>4
    <3>2. QED
      BY <3>1 DEF a, e
  <2>8. QED
    BY <1>3, <2>5, <2>6, <2>7
<1> HIDE DEF Kept
<1>4. 0 \in good
  <2>1. 0 < i \/ i = 0
    BY <1>1
  <2>2. QED
    BY <1>1, <1>2, <2>1
<1>5. ASSUME NEW k \in 0 .. Len(q), k # Len(q), k \in good PROVE k + 1 \in good
  <2>1. k + 1 \in 0 .. Len(q) /\ (k + 1 < i \/ k + 1 = i \/ ~(k < i))
    BY <1>1, <1>5
  <2>2. QED
    BY <1>2, <1>3, <1>5, <2>1
<1>6. Len(q) \in good
  <2> HIDE DEF good
  <2>1. 0 .. Len(q) \subseteq good
    BY <1>1, <1>4, <1>5, Ascent
  <2>2. QED
    BY <1>1, <2>1
<1>7. Kept(Len(q))
  BY <1>1, <1>6
<1>8. QED
  BY <1>7 DEF Kept

(* Where C++ starts to cut is where Go started to write.                   *)
Cutting(p, offsets) ==
    p = [i \in 1 .. Len(offsets) |-> IF i = 1 THEN 0 ELSE p[i - 1] + offsets[i - 1]]

LEMMA EndOffsetsOf ==
    ASSUME NEW q \in Seq(WildcardQuery)
    PROVE  /\ DOMAIN q = 1 .. Len(q) /\ Len(q) \in Nat
           /\ DOMAIN EndOffsets(q) = DOMAIN q
           /\ Len(EndOffsets(q)) = Len(q)
           /\ \A i \in 1 .. Len(q) : EndOffsets(q)[i] = Len(q[i].query)
<1>1. DOMAIN q = 1 .. Len(q) /\ Len(q) \in Nat
  BY LenProperties
<1>2. EndOffsets(q) = [i \in 1 .. Len(q) |-> Len(q[i].query)]
  BY <1>1 DEF EndOffsets
<1>3. \A i \in 1 .. Len(q) : Len(q[i].query) \in Nat
  BY ElementOfSeq, LenProperties DEF WildcardQuery
<1>4. EndOffsets(q) \in [1 .. Len(q) -> Nat]
  BY <1>2, <1>3
<1>5. Len(EndOffsets(q)) = Len(q)
  BY <1>1, <1>4
<1>6. QED
  BY <1>1, <1>2, <1>5

LEMMA CutsWhereJoined ==
    ASSUME NEW q \in Seq(WildcardQuery), NEW f, Joining(f, q)
    PROVE  LET p == CHOOSE p : Cutting(p, EndOffsets(q))
           IN  \A i \in 1 .. Len(q) : p[i] = Len(f[i - 1])
<1> DEFINE offsets == EndOffsets(q)
           g == [i \in 1 .. Len(q) |-> Len(f[i - 1])]
           p == CHOOSE p : Cutting(p, offsets)
           good == {i \in 0 .. Len(q) : i # 0 => p[i] = Len(f[i - 1])}
<1>1. /\ Len(q) \in Nat /\ Len(offsets) = Len(q)
      /\ \A i \in 1 .. Len(q) : offsets[i] = Len(q[i].query)
  BY EndOffsetsOf
<1> HIDE DEF offsets
<1>2. f[0] = <<>> /\ Len(f[0]) = 0
  BY JoiningGrows, EmptySeq
<1>3. \A i \in 2 .. Len(q) : Len(f[i - 1]) = Len(f[(i - 1) - 1]) + offsets[i - 1]
  <2> TAKE i \in 2 .. Len(q)
  <2>1. i - 1 \in 1 .. Len(q)
    BY <1>1
  <2>2. QED
    BY <1>1, <2>1, JoiningGrows
<1>4. Cutting(g, offsets)
  <2>1. ASSUME NEW i \in 1 .. Len(q)
        PROVE  g[i] = IF i = 1 THEN 0 ELSE g[i - 1] + offsets[i - 1]
    <3>1. CASE i = 1
      <4>1. i - 1 = 0
        BY <3>1
      <4>2. QED
        BY <1>2, <3>1, <4>1
    <3>2. CASE i # 1
      <4>1. i \in 2 .. Len(q) /\ i - 1 \in 1 .. Len(q)
        BY <1>1, <3>2
      <4>2. QED
        BY <1>3, <3>2, <4>1
    <3>3. QED
      BY <3>1, <3>2
  <2>2. g = [i \in 1 .. Len(q) |-> g[i]]
    OBVIOUS
  <2> HIDE DEF g
  <2>3. QED
    BY <1>1, <2>1, <2>2 DEF Cutting
<1>5. Cutting(p, offsets)
  <2> HIDE DEF g
  <2>1. QED
    BY <1>4
<1> HIDE DEF p
<1>6. \A i \in 1 .. Len(q) : p[i] = IF i = 1 THEN 0 ELSE p[i - 1] + offsets[i - 1]
  BY <1>1, <1>5 DEF Cutting
<1>7. 0 \in good
  BY <1>1
<1>8. ASSUME NEW i \in 0 .. Len(q), i # Len(q), i \in good PROVE i + 1 \in good
  <2>1. i + 1 \in 1 .. Len(q) /\ i + 1 \in 0 .. Len(q) /\ (i + 1) - 1 = i
    BY <1>1, <1>8
  <2>2. CASE i = 0
    <3>1. i + 1 = 1
      BY <2>2
    <3>2. QED
      BY <1>2, <1>6, <2>1, <2>2, <3>1
  <2>3. CASE i # 0
    <3>1. i + 1 \in 2 .. Len(q) /\ i + 1 # 1
      BY <1>1, <2>1, <2>3
    <3>2. p[i + 1] = p[i] + offsets[i]
      BY <1>6, <2>1, <3>1
    <3>3. p[i] = Len(f[i - 1])
      BY <1>8, <2>3
    <3>4. Len(f[i]) = Len(f[i - 1]) + offsets[i]
      BY <1>3, <2>1, <3>1
    <3>5. QED
      BY <2>1, <3>2, <3>3, <3>4
  <2>4. QED
    BY <2>2, <2>3
<1>9. 0 .. Len(q) \subseteq good
  <2> HIDE DEF good
  <2>1. QED
    BY <1>1, <1>7, <1>8, Ascent
<1>10. \A i \in 1 .. Len(q) : i \in 0 .. Len(q) /\ i # 0
  BY <1>1
<1>11. \A i \in 1 .. Len(q) : p[i] = Len(f[i - 1])
  BY <1>9, <1>10
<1>12. QED
  BY <1>11 DEF p, offsets

LEMMA CutsAQuery ==
    ASSUME NEW q \in Seq(WildcardQuery), NEW f, Joining(f, q), NEW i \in 1 .. Len(q)
    PROVE  Substr(f[Len(q)], Len(f[i - 1]), Len(q[i].query)) = q[i].query
<1> DEFINE s == f[Len(q)]
           w == q[i].query
           m == Len(f[i - 1])
           c == SubSeq(s, m + 1, m + Len(w))
<1>1. i - 1 \in 0 .. Len(q) /\ i \in 0 .. Len(q) /\ Len(q) \in 0 .. Len(q) /\ Len(q) \in Nat
  BY LenProperties
<1>2. /\ s \in Seq(Chars) /\ f[i - 1] \in Seq(Chars) /\ w \in Seq(Chars)
      /\ f[i] = f[i - 1] \o w /\ Len(f[i]) = m + Len(w)
  BY <1>1, JoiningGrows
<1>3. Len(s) \in Nat /\ m \in Nat /\ Len(w) \in Nat
  BY <1>2, LenProperties
<1>4. m + Len(w) <= Len(s) /\ \A x \in 1 .. m + Len(w) : s[x] = f[i][x]
  <2>1. Len(f[i]) <= Len(s) /\ \A x \in 1 .. Len(f[i]) : s[x] = f[i][x]
    BY <1>1, JoiningKeeps
  <2> HIDE DEF s, w, m
  <2>2. QED
    BY <1>2, <2>1
<1>5. \A x \in 1 .. m + Len(w) : f[i][x] = IF x <= m THEN f[i - 1][x] ELSE w[x - m]
  BY <1>2, ConcatProperties
<1> HIDE DEF s, w, m
<1>6. Substr(s, m, Len(w)) = c
  <2>1. (IF m + Len(w) < Len(s) THEN m + Len(w) ELSE Len(s)) = m + Len(w)
    BY <1>3, <1>4
  <2>2. QED
    BY <2>1 DEF Substr
<1>7. \A x \in m + 1 .. m + Len(w) : s[x] \in Chars
  <2> TAKE x \in m + 1 .. m + Len(w)
  <2>1. x \in 1 .. Len(s)
    BY <1>3, <1>4
  <2>2. QED
    BY <1>2, <2>1, ElementOfSeq
<1>8. /\ m + 1 \in Int /\ m + Len(w) \in Int
      /\ (IF m + 1 <= m + Len(w) THEN (m + Len(w)) - (m + 1) + 1 ELSE 0) = Len(w)
      /\ (m + Len(w)) - (m + 1) + 1 = Len(w)
  BY <1>3
<1>9. c \in Seq(Chars) /\ Len(c) = Len(w)
  BY <1>7, <1>8, SubSeqProperties
<1>10. \A x \in 1 .. Len(w) : c[x] = s[(m + 1) + x - 1]
  BY <1>7, <1>8, SubSeqProperties
<1>11. \A x \in 1 .. Len(w) : c[x] = w[x]
  <2> TAKE x \in 1 .. Len(w)
  <2>1. /\ (m + 1) + x - 1 = m + x
        /\ m + x \in 1 .. m + Len(w) /\ ~(m + x <= m) /\ (m + x) - m = x
    BY <1>3
  <2>2. s[m + x] = w[x]
    BY <1>4, <1>5, <2>1
  <2> HIDE DEF c
  <2>3. QED
    BY <1>10, <2>1, <2>2
<1>12. c = w
  <2> HIDE DEF c
  <2>1. QED
    BY <1>2, <1>9, <1>11, SeqEqual
<1>13. QED
  BY <1>6, <1>12 DEF s, w, m

(* The queries C++ matches with are those the Go caller passed: the merged *)
(* string, the sizes of the queries and their case sensitivity say all     *)
(* there is to say of a list (src/search/wildcard_query.go, the loop of    *)
(* deserialize_wildcard_match in src/cpp/src/ffi_go/ir/deserializer.cpp).  *)
THEOREM SplitUndoesMerge ==
    \A q \in Seq(WildcardQuery) : SplitQueries(MergeWildcardQueries(q)) = q
<1> TAKE q \in Seq(WildcardQuery)
<1> DEFINE merged == MergeWildcardQueries(q)
           p == CHOOSE p : Cutting(p, EndOffsets(q))
<1>1. /\ DOMAIN q = 1 .. Len(q) /\ Len(q) \in Nat
      /\ DOMAIN EndOffsets(q) = DOMAIN q
      /\ \A i \in 1 .. Len(q) : EndOffsets(q)[i] = Len(q[i].query)
  BY EndOffsetsOf
<1>2. PICK f : Joining(f, q) /\ Joined(q) = f[Len(q)]
  BY <1>1, JoinedFcn
<1>3. \A i \in 1 .. Len(q) : p[i] = Len(f[i - 1])
  BY <1>2, CutsWhereJoined
<1>4. SplitQueries(merged) =
        [i \in DOMAIN EndOffsets(q) |->
            [query         |-> Substr(Joined(q), p[i], EndOffsets(q)[i]),
             caseSensitive |-> merged.caseSensitivity[i]]]
  BY DEF SplitQueries, MergeWildcardQueries, Cutting
<1> HIDE DEF p
<1>5. ASSUME NEW i \in 1 .. Len(q)
      PROVE  [query         |-> Substr(Joined(q), p[i], EndOffsets(q)[i]),
              caseSensitive |-> merged.caseSensitivity[i]] = q[i]
  <2>1. Substr(Joined(q), p[i], EndOffsets(q)[i]) = q[i].query
    BY <1>1, <1>2, <1>3, CutsAQuery
  <2>2. merged.caseSensitivity[i] = q[i].caseSensitive
    BY <1>1 DEF MergeWildcardQueries
  <2>3. q[i] \in WildcardQuery
    BY ElementOfSeq
  <2>4. q[i] = [query |-> q[i].query, caseSensitive |-> q[i].caseSensitive]
    BY <2>3 DEF WildcardQuery
  <2>5. QED
    BY <2>1, <2>2, <2>4
<1>6. q = [i \in 1 .. Len(q) |-> q[i]]
  BY <1>1
<1> HIDE DEF merged
<1>7. QED
  BY <1>1, <1>4, <1>5, <1>6 DEF merged
=============================================================================
