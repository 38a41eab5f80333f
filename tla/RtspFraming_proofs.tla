------------------------- MODULE RtspFraming_proofs -------------------------
(***************************************************************************)
(* Proofs about RtspFraming: what the scan of MsgScan finds at the front   *)
(* of the buffer, and from it the types, the order in which requests are   *)
(* handled, and whose headers they go by, for every number of requests and *)
(* every size of the two buffers.                                          *)
(***************************************************************************)
EXTENDS RtspFraming, FiniteSetTheorems, WellFoundedInduction, TLAPS

-----------------------------------------------------------------------------
\* Least elements.

\* A set of naturals that is not empty has a least element.
LEMMA LeastElement ==
  ASSUME NEW S, S \subseteq Nat, S # {}
  PROVE  \E x \in S : \A y \in S : x <= y
<1> DEFINE R == OpToRel(<, Nat)
<1>1. IsWellFoundedOn(R, Nat)
  BY NatLessThanWellFounded
<1> HIDE DEF R
<1>2. PICK x \in S : \A y \in S : ~(<<y, x>> \in R)
  BY <1>1, WFMin
<1>3. ASSUME NEW y \in S PROVE x <= y
  <2>1. x \in Nat /\ y \in Nat /\ ~(<<y, x>> \in R)
    BY <1>2
  <2>2. y < x => <<y, x>> \in R
    BY <2>1 DEF R, OpToRel
  <2>3. QED
    BY <2>1, <2>2
<1>4. QED
  BY <1>3

\* The Min of FiniteSetsExt is an element of the set.
LEMMA MinIsElement ==
  ASSUME NEW S, S \subseteq Nat, S # {}
  PROVE  Min(S) \in S
<1>1. QED
  BY LeastElement DEF Min

\* The least element of a set is its Min.
LEMMA MinIs ==
  ASSUME NEW S, S \subseteq Int, NEW x \in S, \A y \in S : x <= y
  PROVE  Min(S) = x
<1>1. Min(S) \in S /\ \A y \in S : Min(S) <= y
  BY DEF Min
<1>2. PICK z \in Int : z = Min(S)
  BY <1>1
<1>3. z <= x /\ x <= z /\ x \in Int
  BY <1>1, <1>2
<1>4. QED
  BY <1>2, <1>3

-----------------------------------------------------------------------------
\* The scan of MsgScan, over a buffer b of N cells of which size were received.

Buffer(b, N) == /\ DOMAIN b = 1 .. N /\ Len(b) = N
                /\ \A k \in 1 .. N : b[k].val \in {0, 1}

\* A turn of the loop moves on or ends it.
LEMMA TurnMoves ==
  ASSUME NEW N \in Nat, NEW b, Buffer(b, N), NEW size \in 0 .. N, NEW t \in ScanState
  PROVE  \/ Turn(b, size, t) \in Results
         \/ /\ Turn(b, size, t) \in ScanState
            /\ Turn(b, size, t).ml > t.ml /\ t.ml <= size
<1> DEFINE l == WordsEnd(b, t.ml)
           e == LineEnd(b, size, l)
           header == EndsHeader(b, l, EolsIn(b, l, e))
           n == Skip(b, size, e + 2)
<1>1. t.ml \in Nat /\ t.bl \in Int /\ t.mb \in BOOLEAN /\ t.ret = "scanning"
  BY DEF ScanState
<1>2. ASSUME t.ml <= size PROVE l \in Nat /\ l >= t.ml
  <2> DEFINE S == {j \in t.ml .. Len(b) : Part(b, j) \in Eol \cup {"nul"}} \cup {Len(b)}
  <2>1. S \subseteq Nat /\ N \in S /\ \A j \in S : j >= t.ml
    BY <1>1, <1>2 DEF Buffer
  <2> HIDE DEF S
  <2>2. Min(S) \in S
    BY <2>1, MinIsElement
  <2>3. QED
    BY <2>1, <2>2 DEF WordsEnd, S
<1>3. ASSUME t.ml <= size, l <= size PROVE e \in Nat /\ e >= l
  <2> DEFINE S == {j \in l .. size :
            \/ j = size
            \/ Part(b, j) \notin Eol /\ ~(Part(b, j) = "sep" /\ EolsIn(b, l, j) < 3)}
  <2>0. l \in Nat
    BY <1>2, <1>3
  <2> HIDE DEF l
  <2>1. S \subseteq Nat /\ size \in S /\ \A j \in S : j >= l
    BY <1>3, <2>0
  <2> HIDE DEF S
  <2>2. Min(S) \in S
    BY <2>1, MinIsElement
  <2>3. QED
    BY <2>1, <2>2 DEF LineEnd, S
<1> HIDE DEF l, e, header
<1>4. ASSUME e \in Nat PROVE n \in Nat /\ n >= e + 2
  <2> DEFINE m == Max({e + 2, size})
             S == {j \in e + 2 .. size - 1 : Part(b, j) # "sep"} \cup {m}
  <2>1. m \in Nat /\ m >= e + 2
    BY <1>4 DEF Max
  <2> HIDE DEF m
  <2>2. S \subseteq Nat /\ m \in S /\ \A j \in S : j >= e + 2
    BY <1>4, <2>1
  <2> HIDE DEF S
  <2>3. Min(S) \in S
    BY <2>2, MinIsElement
  <2>4. QED
    BY <2>2, <2>3 DEF Skip, S, m
<1>5. NumberAt(b, n).val \in Int
  <2>1. \A k : At(b, k).val \in Int
    BY DEF Buffer, At, Nul
  <2>2. QED
    BY <2>1 DEF NumberAt
<1>6. ASSUME e + t.bl \in 0 .. size PROVE e + t.bl + TrailingNuls(b, size, e + t.bl) \in Int
  <2> DEFINE m == e + t.bl
             S == {j \in m .. size - 1 : Part(b, j) # "nul"} \cup {size}
  <2>1. S \subseteq Nat /\ S # {} /\ m \in Int
    BY <1>6
  <2> HIDE DEF m
  <2>2. Min(S) \in Int
    BY <2>1, MinIsElement
  <2>3. QED
    BY <2>1, <2>2 DEF TrailingNuls, m
<1> HIDE DEF n
<1> DEFINE u == Turn(b, size, t)
<1>7. u = IF t.ml > size THEN Received("RTSP_method_rcvd", t.ml)
        ELSE IF l = t.ml THEN Error
        ELSE IF l > size THEN NotFull
        ELSE IF header /\ e + t.bl \in 0 .. size
             THEN Received("RTSP_method_rcvd", e + t.bl + TrailingNuls(b, size, e + t.bl))
        ELSE IF header \/ e >= size THEN NotFull
        ELSE IF t.mb \/ Part(b, e) # "length1" \/ Part(b, e + 1) # "length2"
             THEN Scanning(e, t.bl, t.mb)
        ELSE IF NumberAt(b, n).part # "number" THEN Error
        ELSE Scanning(n, NumberAt(b, n).val, TRUE)
  BY DEF Turn, l, e, header, n
<1> HIDE DEF u
<1>8. NotFull \in Results /\ Error \in Results
  BY DEF NotFull, Error, Results
<1>9. \A x \in Int : Received("RTSP_method_rcvd", x) \in Results
  BY DEF Received, Results
<1>10. ASSUME NEW m \in Nat, NEW bl \in Int, NEW mb \in BOOLEAN
       PROVE  Scanning(m, bl, mb) \in ScanState /\ Scanning(m, bl, mb).ml = m
  BY DEF Scanning, ScanState
<1>11. CASE t.ml > size
  <2>1. u = Received("RTSP_method_rcvd", t.ml)
    BY <1>7, <1>11
  <2>2. u \in Results
    BY <1>1, <1>9, <2>1
  <2>3. QED
    BY <2>2 DEF u
<1>12. CASE t.ml <= size /\ (l = t.ml \/ l > size)
  <2>1. ~(t.ml > size)
    BY <1>1, <1>12
  <2>2. u \in Results
    BY <1>7, <1>8, <1>12, <2>1
  <2>3. QED
    BY <2>2 DEF u
<1>13. CASE t.ml <= size /\ l # t.ml /\ ~(l > size)
  <2>1. l \in Nat /\ l > t.ml /\ l <= size
    BY <1>1, <1>2, <1>13
  <2>2. e \in Nat /\ e >= l /\ n \in Nat /\ n > e
    BY <1>3, <1>4, <1>13, <2>1
  <2>3. Scanning(e, t.bl, t.mb) \in ScanState /\ Scanning(e, t.bl, t.mb).ml = e
    BY <1>1, <1>10, <2>2
  <2>4. /\ Scanning(n, NumberAt(b, n).val, TRUE) \in ScanState
        /\ Scanning(n, NumberAt(b, n).val, TRUE).ml = n
    BY <1>5, <1>10, <2>2
  <2>5. e > t.ml /\ n > t.ml
    BY <1>1, <2>1, <2>2
  <2>6. e + t.bl \in 0 .. size =>
           Received("RTSP_method_rcvd", e + t.bl + TrailingNuls(b, size, e + t.bl)) \in Results
    BY <1>6, <1>9
  <2>7. ~(t.ml > size)
    BY <1>1, <1>13
  <2>8. QED
    BY <1>7, <1>8, <1>13, <2>3, <2>4, <2>5, <2>6, <2>7 DEF u
<1>14. QED
  BY <1>1, <1>2, <1>11, <1>12, <1>13

\* Turns is the function that its definition says: a turn that moves on leaves
\* fewer turns to come.
LEMMA TurnsStep ==
  ASSUME NEW N \in Nat, NEW b, Buffer(b, N), NEW size \in 0 .. N,
         NEW t \in ScanState \cup Results
  PROVE  Turns(b, size)[t] = IF t.ret = "scanning" THEN Turns(b, size)[Turn(b, size, t)] ELSE t
<1> DEFINE D == ScanState \cup Results
           left == [x \in D |-> IF x \in Results THEN 0
                            ELSE IF x.ml <= size THEN size + 2 - x.ml ELSE 1]
           Body(f, x) == IF x.ret = "scanning" THEN f[Turn(b, size, x)] ELSE x
           Good(f, n) == \A x \in D : left[x] <= n => f[x] = Body(f, x)
           Bad == {n \in Nat : \A f : ~Good(f, n)}
<1>1. \A x \in ScanState : x.ret = "scanning" /\ x.ml \in Nat /\ x \notin Results
  BY DEF ScanState, Results
<1>2. \A x \in Results : x.ret # "scanning"
  BY DEF Results
<1>3. \A x \in D : left[x] \in 0 .. size + 2
  BY <1>1
<1>4. ASSUME NEW x \in D, x.ret = "scanning"
      PROVE  Turn(b, size, x) \in D /\ left[Turn(b, size, x)] < left[x]
  <2>1. x \in ScanState
    BY <1>2, <1>4
  <2>2. left[x] = IF x.ml <= size THEN size + 2 - x.ml ELSE 1
    BY <1>1, <2>1
  <2>3. CASE Turn(b, size, x) \in Results
    BY <1>1, <2>1, <2>2, <2>3
  <2>4. CASE /\ Turn(b, size, x) \in ScanState
             /\ Turn(b, size, x).ml > x.ml /\ x.ml <= size
    BY <1>1, <2>1, <2>2, <2>4
  <2>5. QED
    BY <2>1, <2>3, <2>4, TurnMoves
<1> HIDE DEF left, D
<1>5. Bad = {}
  <2> SUFFICES ASSUME Bad # {} PROVE FALSE
    OBVIOUS
  <2>1. PICK n \in Bad : \A m \in Bad : n <= m
    BY LeastElement
  <2>2. CASE n = 0
    <3> DEFINE f == [x \in D |-> x]
    <3>1. ASSUME NEW x \in D, left[x] <= 0 PROVE x.ret # "scanning"
      <4>1. left[x] \in Nat
        BY <1>3
      <4>2. ASSUME x.ret = "scanning" PROVE FALSE
        <5>1. PICK u \in D : left[u] < left[x]
          BY <1>4, <4>2
        <5>2. left[u] \in Nat
          BY <1>3
        <5>3. QED
          <6> HIDE DEF Bad, f
          <6>1. QED
            BY <3>1, <4>1, <5>1, <5>2
      <4>3. QED
        BY <4>2
    <3>2. Good(f, 0)
      BY <3>1
    <3>3. QED
      BY <2>2, <3>2
  <2>3. CASE n # 0
    <3>1. n \in Nat /\ n - 1 \in Nat /\ n - 1 < n
      BY <2>3
    <3>2. PICK f : Good(f, n - 1)
      <4>1. n - 1 \notin Bad
        <5> HIDE DEF Bad
        <5>1. QED
          BY <2>1, <3>1
      <4>2. QED
        BY <3>1, <4>1
    <3> DEFINE g == [x \in D |-> IF left[x] = n THEN Body(f, x) ELSE f[x]]
    <3>3. ASSUME NEW x \in D, left[x] <= n PROVE g[x] = Body(f, x) /\ Body(g, x) = Body(f, x)
      <4>0. left[x] \in Nat /\ n \in Nat
        BY <1>3, <3>1
      <4>1. g[x] = Body(f, x)
        <5>1. CASE left[x] = n
          BY <5>1
        <5>2. CASE left[x] # n
          <6>1. left[x] <= n - 1
            <7> HIDE DEF Bad, g
            <7>1. QED
              BY <3>3, <4>0, <5>2
          <6>2. f[x] = Body(f, x)
            BY <3>2, <6>1
          <6>3. QED
            BY <5>2, <6>2
        <5>3. QED
          BY <5>1, <5>2
      <4>2. ASSUME x.ret = "scanning" PROVE g[Turn(b, size, x)] = f[Turn(b, size, x)]
        <5>1. PICK u \in D : u = Turn(b, size, x) /\ left[u] < left[x]
          BY <1>4, <4>2
        <5>2. left[u] \in Nat
          BY <1>3
        <5>3. left[u] # n
          <6> HIDE DEF Bad, g
          <6>1. QED
            BY <3>3, <4>0, <5>1, <5>2
        <5>4. QED
          BY <5>1, <5>3
      <4>3. QED
        BY <4>1, <4>2
    <3>4. Good(g, n)
      BY <3>3
    <3>5. QED
      BY <2>1, <3>4
  <2>4. QED
    BY <2>2, <2>3
<1>6. PICK f : \A x \in D : f[x] = Body(f, x)
  <2>1. size + 2 \in Nat
    OBVIOUS
  <2>2. PICK f : Good(f, size + 2)
    BY <1>5, <2>1
  <2>3. QED
    BY <1>3, <2>2
<1> DEFINE h == [x \in D |-> Body(f, x)]
<1>7. h = [x \in D |-> Body(h, x)]
  <2>1. ASSUME NEW x \in D PROVE Body(f, x) = Body(h, x)
    BY <1>4, <1>6
  <2>2. QED
    BY <2>1
<1>8. Turns(b, size) = CHOOSE z : z = [x \in D |-> Body(z, x)]
  BY DEF Turns, D
<1>9. Turns(b, size) = [x \in D |-> Body(Turns(b, size), x)]
  BY <1>7, <1>8
<1>10. QED
  BY <1>9 DEF D

\* The turns end with a result when the turn gives one.
LEMMA TurnEnds ==
  ASSUME NEW N \in Nat, NEW b, Buffer(b, N), NEW size \in 0 .. N,
         NEW t \in ScanState, Turn(b, size, t) \in Results
  PROVE  Turns(b, size)[t] = Turn(b, size, t)
<1>1. t.ret = "scanning" /\ Turn(b, size, t).ret # "scanning"
  BY DEF ScanState, Results
<1>2. Turns(b, size)[t] = Turns(b, size)[Turn(b, size, t)]
  BY <1>1, TurnsStep
<1>3. Turns(b, size)[Turn(b, size, t)] = Turn(b, size, t)
  BY <1>1, TurnsStep
<1>4. QED
  BY <1>2, <1>3

\* They go on from where the turn stops scanning.
LEMMA TurnGoesOn ==
  ASSUME NEW N \in Nat, NEW b, Buffer(b, N), NEW size \in 0 .. N, NEW t \in ScanState
  PROVE  Turns(b, size)[t] = Turns(b, size)[Turn(b, size, t)]
<1>1. t.ret = "scanning"
  BY DEF ScanState
<1>2. QED
  BY <1>1, TurnsStep

\* The parts of a line.

\* strcspn stops at the first line end or zero byte.
LEMMA WordsEndIs ==
  ASSUME NEW N \in Nat, NEW b, Buffer(b, N), NEW ml \in Nat, NEW l \in ml .. N,
         \A j \in ml .. l - 1 : Part(b, j) \notin Eol \cup {"nul"},
         l = N \/ Part(b, l) \in Eol
  PROVE  WordsEnd(b, ml) = l
<1> DEFINE S == {j \in ml .. Len(b) : Part(b, j) \in Eol \cup {"nul"}} \cup {Len(b)}
<1>1. Len(b) = N
  BY DEF Buffer
<1>2. S \subseteq Int /\ l \in S /\ \A j \in S : l <= j
  BY <1>1
<1> HIDE DEF S
<1>3. Min(S) = l
  BY <1>2, MinIs
<1>4. QED
  BY <1>3 DEF WordsEnd, S

\* Where all that was received is words, strcspn goes on past it.
LEMMA WordsEndAfter ==
  ASSUME NEW N \in Nat, NEW b, Buffer(b, N), NEW ml \in Nat, NEW size \in ml .. N,
         \A j \in ml .. size - 1 : Part(b, j) \notin Eol \cup {"nul"}
  PROVE  WordsEnd(b, ml) \in Nat /\ WordsEnd(b, ml) >= size
<1> DEFINE S == {j \in ml .. Len(b) : Part(b, j) \in Eol \cup {"nul"}} \cup {Len(b)}
<1>1. Len(b) = N
  BY DEF Buffer
<1>2. S \subseteq Nat /\ S # {} /\ \A j \in S : size <= j
  BY <1>1
<1> HIDE DEF S
<1>3. Min(S) \in S
  BY <1>2, MinIsElement
<1>4. QED
  BY <1>2, <1>3 DEF WordsEnd, S

\* How many line ends there are among cells that are all line ends.
LEMMA EolsInIs ==
  ASSUME NEW b, NEW l \in Nat, NEW e \in Nat, l <= e,
         \A j \in l .. e - 1 : Part(b, j) \in Eol
  PROVE  EolsIn(b, l, e) = e - l
<1>1. {j \in l .. e - 1 : Part(b, j) \in Eol} = l .. e - 1
  OBVIOUS
<1>2. Cardinality(l .. e - 1) = e - l
  <2>1. PICK k \in Int : k = e - 1
    OBVIOUS
  <2>2. Cardinality(l .. k) = IF l > k THEN 0 ELSE k - l + 1
    BY FS_Interval
  <2>3. QED
    BY <2>1, <2>2
<1>3. QED
  BY <1>1, <1>2 DEF EolsIn

\* The line ends stop at the first cell that is neither one nor a blank.
LEMMA LineEndIs ==
  ASSUME NEW b, NEW size \in Nat, NEW l \in Nat, NEW e \in l .. size,
         \A j \in l .. e - 1 : Part(b, j) \in Eol,
         e = size \/ Part(b, e) \notin Eol \cup {"sep"}
  PROVE  LineEnd(b, size, l) = e
<1> DEFINE S == {j \in l .. size :
            \/ j = size
            \/ Part(b, j) \notin Eol /\ ~(Part(b, j) = "sep" /\ EolsIn(b, l, j) < 3)}
<1>1. S \subseteq Int /\ e \in S /\ \A j \in S : e <= j
  OBVIOUS
<1> HIDE DEF S
<1>2. Min(S) = e
  BY <1>1, MinIs
<1>3. QED
  BY <1>2 DEF LineEnd, S

\* The words of a line were not all received.
LEMMA WordCut ==
  ASSUME NEW N \in Nat, NEW b, Buffer(b, N), NEW size \in 0 .. N,
         NEW t \in ScanState, t.ml < size,
         \A j \in t.ml .. size - 1 : Part(b, j) \notin Eol \cup {"nul"}
  PROVE  Turn(b, size, t) = NotFull
<1> DEFINE l == WordsEnd(b, t.ml)
<1>1. t.ml \in Nat
  BY DEF ScanState
<1>2. l \in Nat /\ l >= size
  BY <1>1, WordsEndAfter
<1>3. CASE l > size
  <2>1. ~(t.ml > size) /\ l # t.ml
    BY <1>1, <1>2
  <2>2. QED
    BY <1>3, <2>1 DEF Turn
<1>4. CASE l = size
  <2>1. LineEnd(b, size, l) = size
    BY <1>4, LineEndIs
  <2>2. EolsIn(b, l, size) = 0
    BY <1>4, EolsInIs
  <2>3. ~EndsHeader(b, l, EolsIn(b, l, size))
    BY <2>2 DEF EndsHeader
  <2>4. ~(t.ml > size) /\ l # t.ml /\ ~(l > size) /\ size >= size
    BY <1>1, <1>2, <1>4
  <2>5. QED
    BY <2>1, <2>3, <2>4 DEF Turn
<1>5. QED
  BY <1>2, <1>3, <1>4

\* What a turn makes of a line that ends before e: where the next one begins,
\* and all of it when its line ends begin at l.
NextLine(b, size, t, e) ==
    LET n == Skip(b, size, e + 2)
    IN  IF t.mb \/ Part(b, e) # "length1" \/ Part(b, e + 1) # "length2"
        THEN Scanning(e, t.bl, t.mb)
        ELSE IF NumberAt(b, n).part # "number" THEN Error
        ELSE Scanning(n, NumberAt(b, n).val, TRUE)
IsLast(b, l, e) == e - l > 2 \/ (e - l = 2 /\ Part(b, l) = Part(b, l + 1))
LineOutcome(b, size, t, l, e) ==
    IF IsLast(b, l, e) /\ e + t.bl \in 0 .. size
    THEN Received("RTSP_method_rcvd", e + t.bl + TrailingNuls(b, size, e + t.bl))
    ELSE IF IsLast(b, l, e) \/ e >= size THEN NotFull
    ELSE NextLine(b, size, t, e)

\* A line whose first line end was received.
LEMMA LineTurn ==
  ASSUME NEW N \in Nat, NEW b, Buffer(b, N), NEW size \in 0 .. N,
         NEW t \in ScanState, NEW l \in Nat, NEW e \in Nat,
         t.ml < l, l < e, e <= size,
         \A j \in t.ml .. l - 1 : Part(b, j) \notin Eol \cup {"nul"},
         \A j \in l .. e - 1 : Part(b, j) \in Eol,
         e = size \/ Part(b, e) \notin Eol \cup {"sep"}
  PROVE  Turn(b, size, t) = LineOutcome(b, size, t, l, e)
<1>1. t.ml \in Nat
  BY DEF ScanState
<1>2. WordsEnd(b, t.ml) = l
  <2>1. l \in t.ml .. N /\ Part(b, l) \in Eol
    BY <1>1
  <2>2. QED
    BY <1>1, <2>1, WordsEndIs
<1>3. LineEnd(b, size, l) = e
  BY LineEndIs
<1>4. EolsIn(b, l, e) = e - l
  BY EolsInIs
<1>5. EndsHeader(b, l, EolsIn(b, l, e)) <=> IsLast(b, l, e)
  BY <1>4 DEF EndsHeader, IsLast
<1>6. ~(t.ml > size) /\ l # t.ml /\ ~(l > size)
  BY <1>1
<1> DEFINE words == WordsEnd(b, t.ml)
           line == LineEnd(b, size, words)
           header == EndsHeader(b, words, EolsIn(b, words, line))
<1>7. Turn(b, size, t) =
         IF t.ml > size THEN Received("RTSP_method_rcvd", t.ml)
         ELSE IF words = t.ml THEN Error
         ELSE IF words > size THEN NotFull
         ELSE IF header /\ line + t.bl \in 0 .. size
              THEN Received("RTSP_method_rcvd",
                            line + t.bl + TrailingNuls(b, size, line + t.bl))
         ELSE IF header \/ line >= size THEN NotFull
         ELSE NextLine(b, size, t, line)
  BY DEF Turn, NextLine
<1>8. words = l /\ line = e
  BY <1>2, <1>3
<1>9. header <=> IsLast(b, l, e)
  BY <1>5, <1>8
<1> HIDE DEF words, line, header
<1>10. CASE header
  BY <1>6, <1>7, <1>8, <1>9, <1>10 DEF LineOutcome
<1>11. CASE ~header
  BY <1>6, <1>7, <1>8, <1>9, <1>11 DEF LineOutcome
<1>12. QED
  BY <1>10, <1>11

\* A line with one line end, before the last line of the header.
LEMMA InnerLine ==
  ASSUME NEW N \in Nat, NEW b, Buffer(b, N), NEW size \in 0 .. N,
         NEW t \in ScanState, NEW l \in Nat, t.ml < l, t.ml < size,
         \A j \in t.ml .. l - 1 : j < size => Part(b, j) \notin Eol \cup {"nul"},
         l < size => Part(b, l) = "cr",
         l + 1 < size => Part(b, l + 1) = "lf",
         l + 2 < size => Part(b, l + 2) \notin Eol \cup {"sep"}
  PROVE  /\ size <= l + 2 => Turn(b, size, t) = NotFull
         /\ size > l + 2 => Turn(b, size, t) = NextLine(b, size, t, l + 2)
<1>0. t.ml \in Nat
  BY DEF ScanState
<1>1. ASSUME size <= l PROVE Turn(b, size, t) = NotFull
  <2>1. \A j \in t.ml .. size - 1 : Part(b, j) \notin Eol \cup {"nul"}
    BY <1>0, <1>1
  <2>2. QED
    BY <2>1, WordCut
<1>2. ASSUME size > l PROVE \A j \in t.ml .. l - 1 : Part(b, j) \notin Eol \cup {"nul"}
  BY <1>0, <1>2
<1>3. ASSUME size \in {l + 1, l + 2} PROVE Turn(b, size, t) = NotFull
  <2>1. \A j \in l .. size - 1 : Part(b, j) \in Eol
    BY <1>3 DEF Eol
  <2>2. ~IsLast(b, l, size) /\ l < size /\ size >= size
    BY <1>3 DEF IsLast
  <2>3. Turn(b, size, t) = LineOutcome(b, size, t, l, size)
    BY <1>2, <2>1, <2>2, LineTurn
  <2>4. QED
    BY <2>2, <2>3 DEF LineOutcome
<1>4. ASSUME size > l + 2 PROVE Turn(b, size, t) = NextLine(b, size, t, l + 2)
  <2>1. PICK e \in Nat : e = l + 2
    OBVIOUS
  <2>2. \A j \in l .. e - 1 : Part(b, j) \in Eol
    BY <1>4, <2>1 DEF Eol
  <2>3. ~IsLast(b, l, e) /\ l < e /\ e < size /\ ~(e >= size)
    BY <1>4, <2>1 DEF IsLast
  <2>4. e <= size /\ size > l /\ Part(b, e) \notin Eol \cup {"sep"}
    BY <1>4, <2>1
  <2>5. Turn(b, size, t) = LineOutcome(b, size, t, l, e)
    BY <1>2, <2>2, <2>3, <2>4, LineTurn
  <2>6. QED
    BY <2>1, <2>3, <2>5 DEF LineOutcome
<1>5. size <= l + 2 => size <= l \/ size \in {l + 1, l + 2}
  OBVIOUS
<1>6. QED
  BY <1>1, <1>3, <1>4, <1>5

\* The last line of the header, with its two line ends, and a body of t.bl.
LEMMA LastLine ==
  ASSUME NEW N \in Nat, NEW b, Buffer(b, N), NEW size \in 0 .. N,
         NEW t \in ScanState, t.bl \in {0, 1}, NEW l \in Nat, t.ml < l, t.ml < size,
         \A j \in t.ml .. l - 1 : j < size => Part(b, j) \notin Eol \cup {"nul"},
         \A j \in l .. l + 3 : j < size => Part(b, j) \in Eol,
         l + 1 < size => Part(b, l) # Part(b, l + 1),
         l + 4 < size => Part(b, l + 4) \notin Eol \cup {"sep"},
         l + 4 + t.bl < size => Part(b, l + 4 + t.bl) # "nul"
  PROVE  /\ size <= l + 2 => Turn(b, size, t) = NotFull
         /\ size = l + 3 /\ t.bl = 0 => Turn(b, size, t) = Received("RTSP_method_rcvd", size)
         /\ size \in {l + 3, l + 4} /\ t.bl = 1 => Turn(b, size, t) = NotFull
         /\ size >= l + 4 + t.bl =>
               Turn(b, size, t) = Received("RTSP_method_rcvd", l + 4 + t.bl)
<1>0. t.ml \in Nat
  BY DEF ScanState
<1> DEFINE NoMessage == Turn(b, size, t) = NotFull
           IsMessage(n) == Turn(b, size, t) = Received("RTSP_method_rcvd", n)
<1>1. ASSUME size <= l PROVE NoMessage
  <2>1. \A j \in t.ml .. size - 1 : Part(b, j) \notin Eol \cup {"nul"}
    BY <1>0, <1>1
  <2>2. QED
    BY <2>1, WordCut
<1>2. ASSUME NEW e \in Nat, l < e, e <= size, e <= l + 4, e = size \/ e = l + 4
      PROVE  /\ Turn(b, size, t) = LineOutcome(b, size, t, l, e)
             /\ IsLast(b, l, e) <=> e >= l + 3
  <2>1. \A j \in l .. e - 1 : Part(b, j) \in Eol
    BY <1>2
  <2>2. \A j \in t.ml .. l - 1 : Part(b, j) \notin Eol \cup {"nul"}
    BY <1>0, <1>2
  <2>3. e = size \/ Part(b, e) \notin Eol \cup {"sep"}
    BY <1>2
  <2>4. Turn(b, size, t) = LineOutcome(b, size, t, l, e)
    BY <1>2, <2>1, <2>2, <2>3, LineTurn
  <2>5. IsLast(b, l, e) <=> e >= l + 3
    BY <1>2 DEF IsLast
  <2>6. QED
    BY <2>4, <2>5
<1>3. ASSUME size \in {l + 1, l + 2} PROVE NoMessage
  <2>1. Turn(b, size, t) = LineOutcome(b, size, t, l, size) /\ ~IsLast(b, l, size)
    BY <1>2, <1>3
  <2>2. QED
    BY <2>1 DEF LineOutcome
<1>4. ASSUME size \in {l + 3, l + 4}, t.bl = 1 PROVE NoMessage
  <2>1. Turn(b, size, t) = LineOutcome(b, size, t, l, size) /\ IsLast(b, l, size)
    BY <1>2, <1>4
  <2>2. ~(size + t.bl \in 0 .. size)
    BY <1>4
  <2>3. QED
    BY <2>1, <2>2 DEF LineOutcome
<1>5. ASSUME NEW m \in 0 .. size, m = size \/ Part(b, m) # "nul"
      PROVE  TrailingNuls(b, size, m) = 0
  <2> DEFINE S == {j \in m .. size - 1 : Part(b, j) # "nul"} \cup {size}
  <2>1. S \subseteq Int /\ m \in S /\ \A j \in S : m <= j
    BY <1>5
  <2> HIDE DEF S
  <2>2. Min(S) = m
    BY <2>1, MinIs
  <2>3. QED
    BY <2>2 DEF TrailingNuls, S
<1>6. ASSUME size = l + 3, t.bl = 0 PROVE IsMessage(size)
  <2>1. Turn(b, size, t) = LineOutcome(b, size, t, l, size) /\ IsLast(b, l, size)
    BY <1>2, <1>6
  <2>2. size + t.bl = size /\ size \in 0 .. size /\ size + 0 = size
    BY <1>6
  <2>3. TrailingNuls(b, size, size) = 0
    BY <1>5, <2>2
  <2>4. QED
    BY <2>1, <2>2, <2>3 DEF LineOutcome
<1>7. ASSUME size >= l + 4 + t.bl PROVE IsMessage(l + 4 + t.bl)
  <2>1. PICK e \in Nat : e = l + 4
    OBVIOUS
  <2>2. Turn(b, size, t) = LineOutcome(b, size, t, l, e) /\ IsLast(b, l, e)
    BY <1>2, <1>7, <2>1
  <2>3. PICK m \in 0 .. size : m = e + t.bl /\ m = l + 4 + t.bl /\ m + 0 = m
    BY <1>7, <2>1
  <2>4. TrailingNuls(b, size, m) = 0
    BY <1>5, <2>3
  <2>5. QED
    BY <2>2, <2>3, <2>4 DEF LineOutcome
<1> HIDE DEF NoMessage, IsMessage
<1>8. /\ size <= l + 2 => NoMessage
      /\ size = l + 3 /\ t.bl = 0 => IsMessage(size)
      /\ size \in {l + 3, l + 4} /\ t.bl = 1 => NoMessage
      /\ size >= l + 4 + t.bl => IsMessage(l + 4 + t.bl)
  BY <1>1, <1>3, <1>4, <1>6, <1>7
<1>9. QED
  BY <1>8 DEF NoMessage, IsMessage

-----------------------------------------------------------------------------
\* What the scan makes of a request of each kind at the front of the buffer.

\* The size cells that were received begin with a request of kind k, or are a
\* first part of it, and another request follows.
FrontIs(b, size, k) ==
    /\ \A j \in 0 .. Len(Parts(k)) - 1 : j < size =>
          /\ Part(b, j) = Parts(k)[j + 1]
          /\ At(b, j).val = IF Parts(k)[j + 1] \in {"number", "byte"} THEN 1 ELSE 0
    /\ Len(Parts(k)) < size => Part(b, Len(Parts(k))) \in {"line", "dollar"}

\* A whole request is found with its length.  Of a first part, no message or
\* more than was received is found, but for one: when all except the last line
\* end of the header has come, three line ends are taken for the end.
Headers == {"plain", "session", "no_cseq"}
ScanIsRight(b, size, k) ==
    LET f == RTSP_full_msg_rcvd(b, size)
        m == Len(Parts(k))
    IN  /\ f.len \in Nat
        /\ size >= m => f.ret \in FullMessage /\ f.len = m
        /\ size < m => \/ f.ret \notin FullMessage
                       \/ f.len > size
                       \/ f.len = size /\ size = m - 1 /\ k \in Headers

\* The state in which the loop begins.
LEMMA FirstTurn ==
  /\ Scanning(0, 0, FALSE) \in ScanState
  /\ Scanning(0, 0, FALSE).ml = 0 /\ Scanning(0, 0, FALSE).bl = 0
  /\ Scanning(0, 0, FALSE).mb = FALSE
BY DEF Scanning, ScanState

\* What the results of the scan are made of.
LEMMA ResultTypes ==
  /\ NotFull \in Results /\ NotFull.ret \notin FullMessage /\ NotFull.len = 0
  /\ Error \in Results /\ Error.ret \notin FullMessage /\ Error.len = 0
  /\ \A n \in Int : /\ Received("RTSP_method_rcvd", n) \in Results
                    /\ Received("RTSP_method_rcvd", n).ret \in FullMessage
                    /\ Received("RTSP_method_rcvd", n).len = n
BY DEF NotFull, Error, Received, Results, FullMessage

\* What is not a '$' packet is scanned line by line.
LEMMA MethodScan ==
  ASSUME NEW b, NEW size, Part(b, 0) # "dollar"
  PROVE  RTSP_full_msg_rcvd(b, size) = Turns(b, size)[Scanning(0, 0, FALSE)]
BY DEF RTSP_full_msg_rcvd, Method

\* No message is the right result for a first part of a request.
LEMMA RightIfNone ==
  ASSUME NEW b, NEW size \in Nat, NEW k, size < Len(Parts(k)), Len(Parts(k)) \in Nat,
         RTSP_full_msg_rcvd(b, size) \in {NotFull, Error}
  PROVE  ScanIsRight(b, size, k)
<1>1. ~(size >= Len(Parts(k)))
  OBVIOUS
<1>2. /\ RTSP_full_msg_rcvd(b, size).ret \notin FullMessage
      /\ RTSP_full_msg_rcvd(b, size).len = 0
  BY ResultTypes
<1>3. QED
  BY <1>1, <1>2 DEF ScanIsRight

\* A message is right when it is the request, or more than was received.
LEMMA RightIfFull ==
  ASSUME NEW b, NEW size \in Nat, NEW k, NEW m \in Nat, m = Len(Parts(k)), NEW n \in Nat,
         RTSP_full_msg_rcvd(b, size) = Received("RTSP_method_rcvd", n),
         \/ size >= m /\ n = m
         \/ size < m /\ n > size
         \/ size = m - 1 /\ n = size /\ k \in Headers
  PROVE  ScanIsRight(b, size, k)
<1> DEFINE f == RTSP_full_msg_rcvd(b, size)
<1>1. f.ret \in FullMessage /\ f.len = n
  BY ResultTypes
<1> HIDE DEF f
<1>2. /\ f.len \in Nat
      /\ size >= m => f.ret \in FullMessage /\ f.len = m
      /\ size < m => \/ f.ret \notin FullMessage
                     \/ f.len > size
                     \/ f.len = size /\ size = m - 1 /\ k \in Headers
  BY <1>1
<1>3. QED
  BY <1>2 DEF ScanIsRight, f

\* A line that is not the last one of its header.
LEMMA OneLine ==
  ASSUME NEW N \in Nat, NEW b, Buffer(b, N), NEW size \in 0 .. N,
         NEW t \in ScanState, NEW l \in Nat, t.ml < l, t.ml < size,
         \A j \in t.ml .. l - 1 : j < size => Part(b, j) \notin Eol \cup {"nul"},
         l < size => Part(b, l) = "cr",
         l + 1 < size => Part(b, l + 1) = "lf",
         l + 2 < size => Part(b, l + 2) \notin Eol \cup {"sep", "length1"}
  PROVE  /\ size <= l + 2 => Turns(b, size)[t] = NotFull
         /\ size > l + 2 => Turns(b, size)[t] = Turns(b, size)[Scanning(l + 2, t.bl, t.mb)]
<1>1. /\ size <= l + 2 => Turn(b, size, t) = NotFull
      /\ size > l + 2 => Turn(b, size, t) = NextLine(b, size, t, l + 2)
  BY InnerLine
<1>2. size > l + 2 => NextLine(b, size, t, l + 2) = Scanning(l + 2, t.bl, t.mb)
  BY DEF NextLine
<1>3. Turn(b, size, t) = NotFull => Turns(b, size)[t] = NotFull
  BY TurnEnds, ResultTypes
<1>4. Turns(b, size)[t] = Turns(b, size)[Turn(b, size, t)]
  BY TurnGoesOn
<1>5. QED
  BY <1>1, <1>2, <1>3, <1>4

\* The last line of a request without a body.
LEMMA HeaderEnds ==
  ASSUME NEW N \in Nat, NEW b, Buffer(b, N), NEW size \in 0 .. N,
         NEW t \in ScanState, t.bl = 0, NEW l \in Nat, t.ml < l, t.ml < size,
         \A j \in t.ml .. l - 1 : j < size => Part(b, j) \notin Eol \cup {"nul"},
         l < size => Part(b, l) = "cr",
         l + 1 < size => Part(b, l + 1) = "lf",
         l + 2 < size => Part(b, l + 2) = "cr",
         l + 3 < size => Part(b, l + 3) = "lf",
         l + 4 < size => Part(b, l + 4) \in {"line", "dollar"},
         RTSP_full_msg_rcvd(b, size) = Turns(b, size)[t],
         NEW k \in Headers, Len(Parts(k)) = l + 4
  PROVE  ScanIsRight(b, size, k)
<1>1. /\ size <= l + 2 => Turn(b, size, t) = NotFull
      /\ size = l + 3 => Turn(b, size, t) = Received("RTSP_method_rcvd", size)
      /\ size >= l + 4 => Turn(b, size, t) = Received("RTSP_method_rcvd", l + 4)
  <2>1. \A j \in l .. l + 3 : j < size => Part(b, j) \in Eol
    BY DEF Eol
  <2>2. l + 1 < size => Part(b, l) # Part(b, l + 1)
    OBVIOUS
  <2>3. l + 4 < size => Part(b, l + 4) \notin Eol \cup {"sep"} /\ Part(b, l + 4) # "nul"
    BY DEF Eol
  <2>4. l + 4 + t.bl = l + 4 /\ t.bl \in {0, 1}
    OBVIOUS
  <2>5. /\ size <= l + 2 => Turn(b, size, t) = NotFull
        /\ size = l + 3 /\ t.bl = 0 => Turn(b, size, t) = Received("RTSP_method_rcvd", size)
        /\ size >= l + 4 + t.bl => Turn(b, size, t) = Received("RTSP_method_rcvd", l + 4 + t.bl)
    BY <2>1, <2>2, <2>3, <2>4, LastLine
  <2>6. QED
    BY <2>4, <2>5
<1>2. Turn(b, size, t) \in Results => RTSP_full_msg_rcvd(b, size) = Turn(b, size, t)
  BY TurnEnds
<1>3. CASE size <= l + 2
  <2>1. RTSP_full_msg_rcvd(b, size) \in {NotFull, Error}
    BY <1>1, <1>2, <1>3, ResultTypes
  <2>2. size < Len(Parts(k)) /\ Len(Parts(k)) \in Nat /\ size \in Nat
    BY <1>3
  <2>3. QED
    BY <2>1, <2>2, RightIfNone
<1>4. CASE size = l + 3
  <2>1. RTSP_full_msg_rcvd(b, size) = Received("RTSP_method_rcvd", size)
    BY <1>1, <1>2, <1>4, ResultTypes
  <2>2. PICK m \in Nat : m = Len(Parts(k)) /\ size = m - 1
    BY <1>4
  <2>3. QED
    BY <2>1, <2>2, RightIfFull
<1>5. CASE size >= l + 4
  <2>1. RTSP_full_msg_rcvd(b, size) = Received("RTSP_method_rcvd", l + 4)
    BY <1>1, <1>2, <1>5, ResultTypes
  <2>2. PICK m \in Nat : m = Len(Parts(k)) /\ m = l + 4 /\ size >= m
    BY <1>5
  <2>3. QED
    BY <2>1, <2>2, RightIfFull
<1>6. QED
  BY <1>3, <1>4, <1>5

\* A request without headers.
LEMMA NoCSeqScan ==
  ASSUME NEW N \in Nat, NEW b, Buffer(b, N), NEW size \in 1 .. N, FrontIs(b, size, "no_cseq")
  PROVE  ScanIsRight(b, size, "no_cseq")
<1> DEFINE t0 == Scanning(0, 0, FALSE)
<1>1. /\ Len(Parts("no_cseq")) = 1 + 4
      /\ Part(b, 0) = "line"
      /\ 1 < size => Part(b, 1) = "cr"
      /\ 1 + 1 < size => Part(b, 1 + 1) = "lf"
      /\ 1 + 2 < size => Part(b, 1 + 2) = "cr"
      /\ 1 + 3 < size => Part(b, 1 + 3) = "lf"
      /\ 1 + 4 < size => Part(b, 1 + 4) \in {"line", "dollar"}
  BY DEF FrontIs, Parts
<1>2. t0 \in ScanState /\ t0.ml = 0 /\ t0.bl = 0
  BY FirstTurn
<1>3. RTSP_full_msg_rcvd(b, size) = Turns(b, size)[t0]
  BY <1>1, MethodScan
<1> HIDE DEF t0
<1>4. \A j \in 0 .. 1 - 1 : j < size => Part(b, j) \notin Eol \cup {"nul"}
  BY <1>1 DEF Eol
<1>5. "no_cseq" \in Headers /\ size \in 0 .. N /\ 0 < size
  BY DEF Headers
<1>6. PICK l \in Nat, k \in Headers : l = 1 /\ k = "no_cseq"
  BY <1>5
<1>7. /\ t0.ml < l /\ t0.ml < size
      /\ \A j \in t0.ml .. l - 1 : j < size => Part(b, j) \notin Eol \cup {"nul"}
      /\ l < size => Part(b, l) = "cr"
      /\ l + 1 < size => Part(b, l + 1) = "lf"
      /\ l + 2 < size => Part(b, l + 2) = "cr"
      /\ l + 3 < size => Part(b, l + 3) = "lf"
      /\ l + 4 < size => Part(b, l + 4) \in {"line", "dollar"}
      /\ Len(Parts(k)) = l + 4
  BY <1>1, <1>2, <1>4, <1>5, <1>6
<1>8. ScanIsRight(b, size, k)
  BY <1>2, <1>3, <1>5, <1>7, HeaderEnds
<1>9. QED
  BY <1>6, <1>8

\* The first line of a request, and its CSeq line unless a '$' packet or a
\* request without one.
LEMMA LineScan ==
  ASSUME NEW N \in Nat, NEW b, Buffer(b, N), NEW size \in 1 .. N,
         NEW k \in {"plain", "session", "body"}, FrontIs(b, size, k)
  PROVE  LET t1 == Scanning(3, 0, FALSE)
         IN  /\ size <= 3 => RTSP_full_msg_rcvd(b, size) = NotFull
             /\ size > 3 => RTSP_full_msg_rcvd(b, size) = Turns(b, size)[t1]
<1> DEFINE t0 == Scanning(0, 0, FALSE)
<1>1. /\ Part(b, 0) = "line"
      /\ 1 < size => Part(b, 1) = "cr"
      /\ 1 + 1 < size => Part(b, 1 + 1) = "lf"
      /\ 1 + 2 < size => Part(b, 1 + 2) = "cseq"
  <2>1. CASE k = "plain"
    BY <2>1 DEF FrontIs, Parts
  <2>2. CASE k = "session"
    BY <2>2 DEF FrontIs, Parts
  <2>3. CASE k = "body"
    BY <2>3 DEF FrontIs, Parts
  <2>4. QED
    BY <2>1, <2>2, <2>3
<1>2. t0 \in ScanState /\ t0.ml = 0 /\ t0.bl = 0 /\ t0.mb = FALSE
  BY FirstTurn
<1>3. RTSP_full_msg_rcvd(b, size) = Turns(b, size)[t0]
  BY <1>1, MethodScan
<1> HIDE DEF t0
<1>4. \A j \in 0 .. 1 - 1 : j < size => Part(b, j) \notin Eol \cup {"nul"}
  BY <1>1 DEF Eol
<1>5. 1 + 2 < size => Part(b, 1 + 2) \notin Eol \cup {"sep", "length1"}
  BY <1>1 DEF Eol
<1>6. size \in 0 .. N /\ 0 < size
  OBVIOUS
<1>7. /\ size <= 1 + 2 => Turns(b, size)[t0] = NotFull
      /\ size > 1 + 2 => Turns(b, size)[t0] = Turns(b, size)[Scanning(1 + 2, t0.bl, t0.mb)]
  BY <1>1, <1>2, <1>4, <1>5, <1>6, OneLine
<1>8. 1 + 2 = 3
  OBVIOUS
<1>9. QED
  BY <1>2, <1>3, <1>7, <1>8

\* A request with a CSeq header only.
LEMMA PlainScan ==
  ASSUME NEW N \in Nat, NEW b, Buffer(b, N), NEW size \in 1 .. N, FrontIs(b, size, "plain")
  PROVE  ScanIsRight(b, size, "plain")
<1> DEFINE t1 == Scanning(3, 0, FALSE)
<1>0. Len(Parts("plain")) = 8 /\ Len(Parts("plain")) \in Nat
  BY DEF Parts
<1>1. /\ 3 < size => Part(b, 3) = "cseq"
      /\ 4 < size => Part(b, 4) = "cr"
      /\ 4 + 1 < size => Part(b, 4 + 1) = "lf"
      /\ 4 + 2 < size => Part(b, 4 + 2) = "cr"
      /\ 4 + 3 < size => Part(b, 4 + 3) = "lf"
      /\ 4 + 4 < size => Part(b, 4 + 4) \in {"line", "dollar"}
  BY DEF FrontIs, Parts
<1>2. /\ size <= 3 => RTSP_full_msg_rcvd(b, size) = NotFull
      /\ size > 3 => RTSP_full_msg_rcvd(b, size) = Turns(b, size)[t1]
  BY LineScan
<1>3. t1 \in ScanState /\ t1.ml = 3 /\ t1.bl = 0
  BY DEF Scanning, ScanState
<1> HIDE DEF t1
<1>4. CASE size <= 3
  <2>1. PICK m \in Nat : m = Len(Parts("plain")) /\ m = 8
    BY <1>0
  <2>0. size < m /\ size \in Nat
    <3>1. size \in Nat
      OBVIOUS
    <3>2. size < 8
      BY <1>4, <3>1
    <3>3. m = 8
      BY <2>1
    <3>4. QED
      BY <3>1, <3>2, <3>3
  <2>2. RTSP_full_msg_rcvd(b, size) \in {NotFull, Error}
    BY <1>2, <1>4
  <2>3. QED
    BY <2>0, <2>1, <2>2, RightIfNone
<1>5. CASE size > 3
  <2>1. PICK l \in Nat, k \in Headers : l = 4 /\ k = "plain"
    BY DEF Headers
  <2>2. \A j \in 3 .. 4 - 1 : j < size => Part(b, j) \notin Eol \cup {"nul"}
    BY <1>1 DEF Eol
  <2>3. /\ t1.ml < l /\ t1.ml < size
        /\ \A j \in t1.ml .. l - 1 : j < size => Part(b, j) \notin Eol \cup {"nul"}
        /\ l < size => Part(b, l) = "cr"
        /\ l + 1 < size => Part(b, l + 1) = "lf"
        /\ l + 2 < size => Part(b, l + 2) = "cr"
        /\ l + 3 < size => Part(b, l + 3) = "lf"
        /\ l + 4 < size => Part(b, l + 4) \in {"line", "dollar"}
        /\ Len(Parts(k)) = l + 4
    BY <1>0, <1>1, <1>3, <1>5, <2>1, <2>2
  <2>4. ScanIsRight(b, size, k)
    <3>1. RTSP_full_msg_rcvd(b, size) = Turns(b, size)[t1]
      BY <1>2, <1>5
    <3>2. size \in 0 .. N
      OBVIOUS
    <3>3. QED
      BY <1>3, <2>3, <3>1, <3>2, HeaderEnds
  <2>5. QED
    BY <2>1, <2>4
<1>6. QED
  BY <1>4, <1>5

\* A request with a CSeq and a Session header.
LEMMA SessionScan ==
  ASSUME NEW N \in Nat, NEW b, Buffer(b, N), NEW size \in 1 .. N, FrontIs(b, size, "session")
  PROVE  ScanIsRight(b, size, "session")
<1> DEFINE t1 == Scanning(3, 0, FALSE)
           t2 == Scanning(6, 0, FALSE)
<1>0. Len(Parts("session")) = 11 /\ Len(Parts("session")) \in Nat
  BY DEF Parts
<1>1. /\ 3 < size => Part(b, 3) = "cseq"
      /\ 4 < size => Part(b, 4) = "cr"
      /\ 4 + 1 < size => Part(b, 4 + 1) = "lf"
      /\ 4 + 2 < size => Part(b, 4 + 2) = "session"
      /\ 6 < size => Part(b, 6) = "session"
      /\ 7 < size => Part(b, 7) = "cr"
      /\ 7 + 1 < size => Part(b, 7 + 1) = "lf"
      /\ 7 + 2 < size => Part(b, 7 + 2) = "cr"
      /\ 7 + 3 < size => Part(b, 7 + 3) = "lf"
      /\ 7 + 4 < size => Part(b, 7 + 4) \in {"line", "dollar"}
  BY DEF FrontIs, Parts
<1>2. /\ size <= 3 => RTSP_full_msg_rcvd(b, size) = NotFull
      /\ size > 3 => RTSP_full_msg_rcvd(b, size) = Turns(b, size)[t1]
  BY LineScan
<1>3. /\ t1 \in ScanState /\ t1.ml = 3 /\ t1.bl = 0 /\ t1.mb = FALSE
      /\ t2 \in ScanState /\ t2.ml = 6 /\ t2.bl = 0
  BY DEF Scanning, ScanState
<1>4. t2 = Scanning(4 + 2, 0, FALSE)
  OBVIOUS
<1> HIDE DEF t1, t2
<1>5. /\ size <= 6 => RTSP_full_msg_rcvd(b, size) = NotFull
      /\ size > 6 => RTSP_full_msg_rcvd(b, size) = Turns(b, size)[t2]
  <2>1. CASE size > 3
    <3>1. \A j \in 3 .. 4 - 1 : j < size => Part(b, j) \notin Eol \cup {"nul"}
      BY <1>1 DEF Eol
    <3>2. 4 + 2 < size => Part(b, 4 + 2) \notin Eol \cup {"sep", "length1"}
      BY <1>1 DEF Eol
    <3>3. size \in 0 .. N /\ 3 < size
      BY <2>1
    <3>4. /\ size <= 4 + 2 => Turns(b, size)[t1] = NotFull
          /\ size > 4 + 2 => Turns(b, size)[t1] = Turns(b, size)[Scanning(4 + 2, t1.bl, t1.mb)]
      BY <1>1, <1>3, <3>1, <3>2, <3>3, OneLine
    <3>5. Scanning(4 + 2, t1.bl, t1.mb) = t2
      BY <1>3, <1>4
    <3>6. QED
      BY <1>2, <2>1, <3>4, <3>5
  <2>2. QED
    BY <1>2, <2>1
<1>6. CASE size <= 6
  <2>1. PICK m \in Nat : m = Len(Parts("session")) /\ m = 11
    BY <1>0
  <2>0. size < m /\ size \in Nat
    <3>1. size \in Nat
      OBVIOUS
    <3>2. size < 11
      BY <1>6, <3>1
    <3>3. m = 11
      BY <2>1
    <3>4. QED
      BY <3>1, <3>2, <3>3
  <2>2. RTSP_full_msg_rcvd(b, size) \in {NotFull, Error}
    BY <1>5, <1>6
  <2>3. QED
    BY <2>0, <2>1, <2>2, RightIfNone
<1>7. CASE size > 6
  <2>1. PICK l \in Nat, k \in Headers : l = 7 /\ k = "session"
    BY DEF Headers
  <2>2. \A j \in 6 .. 7 - 1 : j < size => Part(b, j) \notin Eol \cup {"nul"}
    BY <1>1 DEF Eol
  <2>3. /\ t2.ml < l /\ t2.ml < size
        /\ \A j \in t2.ml .. l - 1 : j < size => Part(b, j) \notin Eol \cup {"nul"}
        /\ l < size => Part(b, l) = "cr"
        /\ l + 1 < size => Part(b, l + 1) = "lf"
        /\ l + 2 < size => Part(b, l + 2) = "cr"
        /\ l + 3 < size => Part(b, l + 3) = "lf"
        /\ l + 4 < size => Part(b, l + 4) \in {"line", "dollar"}
        /\ Len(Parts(k)) = l + 4
    BY <1>0, <1>1, <1>3, <1>7, <2>1, <2>2
  <2>4. ScanIsRight(b, size, k)
    <3>1. RTSP_full_msg_rcvd(b, size) = Turns(b, size)[t2]
      BY <1>5, <1>7
    <3>2. size \in 0 .. N
      OBVIOUS
    <3>3. QED
      BY <1>3, <2>3, <3>1, <3>2, HeaderEnds
  <2>5. QED
    BY <2>1, <2>4
<1>8. QED
  BY <1>6, <1>7

\* A '$' packet: its length vouches for bytes that may not have come.
LEMMA PacketScan ==
  ASSUME NEW N \in Nat, NEW b, Buffer(b, N), NEW size \in 1 .. N, FrontIs(b, size, "packet")
  PROVE  ScanIsRight(b, size, "packet")
<1> DEFINE bl == 256 * At(b, 2).val + At(b, 3).val
<1>0. Len(Parts("packet")) = 5
  BY DEF Parts
<1>1. /\ Part(b, 0) = "dollar"
      /\ 2 < size => At(b, 2).val = 0
      /\ 3 < size => At(b, 3).val = 1
  BY DEF FrontIs, Parts
<1>2. At(b, 2).val \in {0, 1} /\ At(b, 3).val \in {0, 1}
  BY DEF At, Nul, Buffer
<1>3. bl \in Nat /\ (size >= 4 => bl = 1)
  BY <1>1, <1>2
<1>4. RTSP_full_msg_rcvd(b, size) =
         IF bl <= size THEN Received("RTSP_interlvd_rcvd", 4 + bl) ELSE NotFull
  BY <1>1 DEF RTSP_full_msg_rcvd, Interleaved
<1>5. /\ Received("RTSP_interlvd_rcvd", 4 + bl).ret \in FullMessage
      /\ Received("RTSP_interlvd_rcvd", 4 + bl).len = 4 + bl
  BY DEF Received, FullMessage
<1> DEFINE f == RTSP_full_msg_rcvd(b, size)
<1> HIDE DEF bl, f
<1>6. \/ f.ret \notin FullMessage /\ f.len = 0
      \/ f.ret \in FullMessage /\ f.len = 4 + bl /\ bl <= size
  BY <1>4, <1>5, ResultTypes DEF f
<1>7. CASE size < 5
  <2>1. f.len \in Nat /\ (f.ret \notin FullMessage \/ f.len > size)
    <3>1. 4 + bl > size /\ 4 + bl \in Nat
      BY <1>3, <1>7
    <3>2. QED
      BY <1>6, <3>1
  <2>2. ~(size >= 5)
    BY <1>7
  <2>3. QED
    BY <1>0, <2>1, <2>2 DEF ScanIsRight, f
<1>8. CASE size >= 5
  <2>1. bl <= size /\ 4 + bl = 5
    BY <1>3, <1>8
  <2>2. f.ret \in FullMessage /\ f.len = 5
    BY <1>4, <1>5, <2>1 DEF f
  <2>3. ~(size < 5)
    BY <1>8
  <2>4. QED
    <3>1. f.len \in Nat
      BY <2>2
    <3>2. QED
      BY <1>0, <2>2, <2>3, <3>1 DEF ScanIsRight, f
<1>9. size < 5 \/ size >= 5
  OBVIOUS
<1>10. QED
  BY <1>7, <1>8, <1>9

\* Where the loop goes after a Content-Length line: on to the number, when the
\* line was received that far, and no further than what was received.
LEMMA LengthLine ==
  ASSUME NEW N \in Nat, NEW b, Buffer(b, N), NEW size \in 7 .. N,
         8 < size => Part(b, 8) = "sep",
         9 < size => Part(b, 9) = "number" /\ At(b, 9).val = 1
  PROVE  LET n == Skip(b, size, 8)
         IN  /\ size = 7 => n = 8
             /\ size \in {8, 9} => n = size
             /\ size >= 10 => /\ n = 9 /\ NumberAt(b, n).part = "number"
                              /\ NumberAt(b, n).val = 1
<1> DEFINE m == Max({8, size})
           S == {j \in 8 .. size - 1 : Part(b, j) # "sep"} \cup {m}
<1>1. m \in Nat /\ m = IF size = 7 THEN 8 ELSE size
  BY DEF Max
<1> HIDE DEF m
<1>2. S \subseteq Int
  BY <1>1
<1>3. Skip(b, size, 8) = Min(S)
  BY DEF Skip, m
<1>4. ASSUME size <= 9 PROVE Min(S) = m
  <2>1. m \in S /\ \A j \in S : m <= j
    BY <1>1, <1>4
  <2> HIDE DEF S
  <2>2. QED
    BY <1>2, <2>1, MinIs
<1>5. ASSUME size >= 10 PROVE Min(S) = 9
  <2>1. 9 \in S /\ \A j \in S : 9 <= j
    BY <1>1, <1>5
  <2> HIDE DEF S
  <2>2. QED
    BY <1>2, <2>1, MinIs
<1>6. ASSUME size >= 10 PROVE NumberAt(b, 9) = At(b, 9) /\ Part(b, 9) = "number"
  <2> DEFINE T == {j \in 9 .. Len(b) : Part(b, j) \notin Eol} \cup {Len(b)}
  <2>1. T \subseteq Int /\ 9 \in T /\ \A j \in T : 9 <= j
    BY <1>6 DEF Buffer, Eol
  <2> HIDE DEF T
  <2>2. Min(T) = 9
    BY <2>1, MinIs
  <2>3. NumberAt(b, 9) = At(b, 9)
    BY <2>2 DEF NumberAt, T
  <2>4. QED
    BY <1>6, <2>3
<1>7. size >= 10 => NumberAt(b, 9).part = "number" /\ NumberAt(b, 9).val = 1
  BY <1>6 DEF Part
<1> HIDE DEF S
<1>8. /\ size = 7 => Skip(b, size, 8) = 8
      /\ size \in {8, 9} => Skip(b, size, 8) = size
      /\ size >= 10 => Skip(b, size, 8) = 9
  BY <1>1, <1>3, <1>4, <1>5
<1>9. QED
  BY <1>7, <1>8

\* At the end of what was received, or past it.
LEMMA PastTheEnd ==
  ASSUME NEW N \in Nat, NEW b, Buffer(b, N), NEW size \in 0 .. N,
         NEW t \in ScanState, t.ml >= size
  PROVE  \/ Turns(b, size)[t] \in {NotFull, Error}
         \/ t.ml > size /\ Turns(b, size)[t] = Received("RTSP_method_rcvd", t.ml)
<1> DEFINE l == WordsEnd(b, t.ml)
<1>1. t.ml \in Nat
  BY DEF ScanState
<1>2. CASE t.ml > size
  <2>1. Turn(b, size, t) = Received("RTSP_method_rcvd", t.ml)
    BY <1>2 DEF Turn
  <2>2. QED
    BY <1>1, <1>2, <2>1, TurnEnds, ResultTypes
<1>3. CASE t.ml = size
  <2>1. l \in Nat /\ l >= size
    BY <1>1, <1>3, WordsEndAfter
  <2>2. ~(t.ml > size)
    BY <1>1, <1>3
  <2>3. Turn(b, size, t) \in {NotFull, Error}
    <3>1. CASE l = t.ml
      BY <2>2, <3>1 DEF Turn
    <3>2. CASE l # t.ml
      <4>1. l > size
        BY <1>3, <2>1, <3>2
      <4>2. QED
        BY <2>2, <3>2, <4>1 DEF Turn
    <3>3. QED
      BY <3>1, <3>2
  <2>4. QED
    BY <2>3, TurnEnds, ResultTypes
<1>4. QED
  BY <1>1, <1>2, <1>3

\* The header of a request with a body ends, or was not received so far.
LEMMA BodyEnds ==
  ASSUME NEW N \in Nat, NEW b, Buffer(b, N), NEW size \in 10 .. N, FrontIs(b, size, "body"),
         RTSP_full_msg_rcvd(b, size) = Turns(b, size)[Scanning(9, 1, TRUE)]
  PROVE  ScanIsRight(b, size, "body")
<1> DEFINE t == Scanning(9, 1, TRUE)
<1>0. Len(Parts("body")) = 15 /\ Len(Parts("body")) \in Nat
  BY DEF Parts
<1>1. /\ Part(b, 9) = "number"
      /\ 10 < size => Part(b, 10) = "cr"
      /\ 11 < size => Part(b, 11) = "lf"
      /\ 12 < size => Part(b, 12) = "cr"
      /\ 13 < size => Part(b, 13) = "lf"
      /\ 14 < size => Part(b, 14) = "body"
      /\ 15 < size => Part(b, 15) \in {"line", "dollar"}
  BY DEF FrontIs, Parts
<1>2. t \in ScanState /\ t.ml = 9 /\ t.bl = 1
  BY DEF Scanning, ScanState
<1>3. RTSP_full_msg_rcvd(b, size) = Turns(b, size)[t] /\ size \in 0 .. N
  OBVIOUS
<1> HIDE DEF t
<1>4. PICK l \in Nat : l = 10
  OBVIOUS
<1>5. /\ t.ml < l /\ t.ml < size /\ t.bl \in {0, 1}
      /\ \A j \in t.ml .. l - 1 : j < size => Part(b, j) \notin Eol \cup {"nul"}
      /\ \A j \in l .. l + 3 : j < size => Part(b, j) \in Eol
      /\ l + 1 < size => Part(b, l) # Part(b, l + 1)
      /\ l + 4 < size => Part(b, l + 4) \notin Eol \cup {"sep"}
      /\ l + 4 + t.bl < size => Part(b, l + 4 + t.bl) # "nul"
  <2>1. \A j \in 9 .. 9 : Part(b, j) \notin Eol \cup {"nul"}
    BY <1>1 DEF Eol
  <2>2. \A j \in 10 .. 13 : j < size => Part(b, j) \in Eol
    BY <1>1 DEF Eol
  <2>3. 14 < size => Part(b, 14) \notin Eol \cup {"sep"}
    BY <1>1 DEF Eol
  <2>4. l + 4 + t.bl = 15 /\ l + 4 = 14 /\ l + 3 = 13 /\ l + 1 = 11 /\ l - 1 = 9
    BY <1>2, <1>4
  <2>5. QED
    BY <1>1, <1>2, <1>4, <2>1, <2>2, <2>3, <2>4
<1>6. /\ size <= l + 2 => Turn(b, size, t) = NotFull
      /\ size \in {l + 3, l + 4} /\ t.bl = 1 => Turn(b, size, t) = NotFull
      /\ size >= l + 4 + t.bl => Turn(b, size, t) = Received("RTSP_method_rcvd", l + 4 + t.bl)
  BY <1>2, <1>3, <1>5, LastLine
<1>7. /\ size <= 14 => Turn(b, size, t) = NotFull
      /\ size >= 15 => Turn(b, size, t) = Received("RTSP_method_rcvd", 15)
  <2>1. l + 4 + t.bl = 15 /\ l + 4 = 14 /\ l + 3 = 13 /\ l + 2 = 12
    BY <1>2, <1>4
  <2>2. size <= 14 => size <= 12 \/ size \in {13, 14}
    OBVIOUS
  <2>3. QED
    BY <1>2, <1>6, <2>1, <2>2
<1>8. Turn(b, size, t) \in Results => RTSP_full_msg_rcvd(b, size) = Turn(b, size, t)
  BY <1>2, <1>3, TurnEnds
<1>9. PICK m \in Nat : m = Len(Parts("body")) /\ m = 15
  BY <1>0
<1>10. CASE size <= 14
  <2>1. RTSP_full_msg_rcvd(b, size) \in {NotFull, Error}
    BY <1>7, <1>8, <1>10, ResultTypes
  <2>2. size < 15 /\ m = 15 /\ size \in Nat
    BY <1>9, <1>10
  <2>3. size < m /\ size \in Nat
    BY <2>2
  <2>4. QED
    BY <1>9, <2>1, <2>3, RightIfNone
<1>11. CASE size >= 15
  <2>1. RTSP_full_msg_rcvd(b, size) = Received("RTSP_method_rcvd", 15)
    <3>1. Received("RTSP_method_rcvd", 15) \in Results
      BY ResultTypes
    <3>2. Turn(b, size, t) = Received("RTSP_method_rcvd", 15)
      BY <1>7, <1>11
    <3>3. QED
      BY <1>8, <3>1, <3>2
  <2>2. size >= 15 /\ m = 15 /\ size \in Nat
    BY <1>9, <1>11
  <2>3. size >= m /\ 15 = m
    BY <2>2
  <2>4. QED
    BY <1>9, <2>1, <2>2, <2>3, RightIfFull
<1>12. QED
  BY <1>10, <1>11

\* A Content-Length cut before its number takes one from behind what was
\* received; then no message is found, or more than was received.
LEMMA BodyScan ==
  ASSUME NEW N \in Nat, NEW b, Buffer(b, N), NEW size \in 1 .. N, FrontIs(b, size, "body")
  PROVE  ScanIsRight(b, size, "body")
<1> DEFINE t1 == Scanning(3, 0, FALSE)
<1>0. PICK m \in Nat : m = Len(Parts("body")) /\ m = 15
  BY DEF Parts
<1>1. /\ 3 < size => Part(b, 3) = "cseq"
      /\ 4 < size => Part(b, 4) = "cr"
      /\ 5 < size => Part(b, 5) = "lf"
      /\ 6 < size => Part(b, 6) = "length1"
      /\ 7 < size => Part(b, 7) = "length2"
      /\ 8 < size => Part(b, 8) = "sep"
      /\ 9 < size => Part(b, 9) = "number" /\ At(b, 9).val = 1
  BY DEF FrontIs, Parts
<1>2. /\ size <= 3 => RTSP_full_msg_rcvd(b, size) = NotFull
      /\ size > 3 => RTSP_full_msg_rcvd(b, size) = Turns(b, size)[t1]
  BY LineScan
<1>3. t1 \in ScanState /\ t1.ml = 3 /\ t1.bl = 0 /\ t1.mb = FALSE
  BY DEF Scanning, ScanState
<1>4. size \in 0 .. N /\ size \in Nat
  OBVIOUS
<1> HIDE DEF t1
<1>5. ASSUME size < 15, RTSP_full_msg_rcvd(b, size) \in {NotFull, Error}
      PROVE  ScanIsRight(b, size, "body")
  <2>1. size < m
    BY <1>0, <1>4, <1>5
  <2>2. QED
    BY <1>0, <1>4, <1>5, <2>1, RightIfNone
<1>6. CASE size <= 3
  BY <1>2, <1>4, <1>5, <1>6
<1>7. ASSUME size > 3
      PROVE  /\ size <= 6 => Turn(b, size, t1) = NotFull
             /\ size > 6 => Turn(b, size, t1) = NextLine(b, size, t1, 6)
  <2>1. PICK l \in Nat : l = 4
    OBVIOUS
  <2>2. /\ t1.ml < l /\ t1.ml < size
        /\ \A j \in t1.ml .. l - 1 : j < size => Part(b, j) \notin Eol \cup {"nul"}
        /\ l < size => Part(b, l) = "cr"
        /\ l + 1 < size => Part(b, l + 1) = "lf"
        /\ l + 2 < size => Part(b, l + 2) \notin Eol \cup {"sep"}
    BY <1>1, <1>3, <1>7, <2>1 DEF Eol
  <2>3. /\ size <= l + 2 => Turn(b, size, t1) = NotFull
        /\ size > l + 2 => Turn(b, size, t1) = NextLine(b, size, t1, l + 2)
    BY <1>3, <1>4, <2>2, InnerLine
  <2>4. l + 2 = 6
    BY <2>1
  <2>5. QED
    BY <2>3, <2>4
<1>8. CASE size > 3 /\ size <= 6
  <2>1. RTSP_full_msg_rcvd(b, size) = NotFull
    BY <1>2, <1>3, <1>4, <1>7, <1>8, TurnEnds, ResultTypes
  <2>2. size < 15
    BY <1>8
  <2>3. QED
    BY <1>5, <2>1, <2>2
<1>9. CASE size > 6
  <2> DEFINE n == Skip(b, size, 8)
             next == NextLine(b, size, t1, 6)
  <2>1. RTSP_full_msg_rcvd(b, size) = Turns(b, size)[next]
    <3>1. size > 3
      BY <1>9
    <3>2. QED
      BY <1>2, <1>3, <1>4, <1>7, <1>9, <3>1, TurnGoesOn
  <2>2. next = IF Part(b, 7) # "length2" THEN Scanning(6, 0, FALSE)
               ELSE IF NumberAt(b, n).part # "number" THEN Error
               ELSE Scanning(n, NumberAt(b, n).val, TRUE)
    <3>1. 6 + 2 = 8 /\ 6 + 1 = 7 /\ Part(b, 6) = "length1"
      BY <1>1, <1>9
    <3>2. Scanning(6, t1.bl, t1.mb) = Scanning(6, 0, FALSE)
      BY <1>3
    <3>3. QED
      BY <1>3, <3>1, <3>2 DEF NextLine
  <2>3. size \in 7 .. N
    BY <1>9
  <2>4. /\ size = 7 => n = 8
        /\ size \in {8, 9} => n = size
        /\ size >= 10 => n = 9 /\ NumberAt(b, n).part = "number" /\ NumberAt(b, n).val = 1
    BY <1>1, <2>3, LengthLine
  <2>5. NumberAt(b, n).val \in Int
    <3>1. \A k : At(b, k).val \in Int
      BY DEF At, Nul, Buffer
    <3>2. QED
      BY <3>1 DEF NumberAt
  <2> HIDE DEF n, next
  <2>6. CASE size = 7 /\ Part(b, 7) # "length2"
    <3> DEFINE t2 == Scanning(6, 0, FALSE)
    <3>1. t2 \in ScanState /\ t2.ml = 6
      BY DEF Scanning, ScanState
    <3>2. next = t2
      BY <2>2, <2>6
    <3> HIDE DEF t2
    <3>3. \A j \in t2.ml .. size - 1 : Part(b, j) \notin Eol \cup {"nul"}
      BY <1>1, <2>6, <3>1 DEF Eol
    <3>4. t2.ml < size
      BY <2>6, <3>1
    <3>5. Turn(b, size, t2) = NotFull
      BY <1>4, <3>1, <3>3, <3>4, WordCut
    <3>6. RTSP_full_msg_rcvd(b, size) = NotFull
      BY <1>4, <2>1, <3>1, <3>2, <3>5, TurnEnds, ResultTypes
    <3>7. size < 15
      BY <2>6
    <3>8. QED
      BY <1>5, <3>6, <3>7
  <2>7. CASE size <= 9 /\ Part(b, 7) = "length2"
    <3>1. n \in Nat /\ n >= size /\ (n > size => size = 7 /\ n = 8)
      BY <1>9, <2>4, <2>7
    <3>2. CASE NumberAt(b, n).part # "number"
      <4>1. RTSP_full_msg_rcvd(b, size) = Error
        <5>1. next = Error
          BY <2>2, <2>7, <3>2
        <5>2. Turns(b, size)[Error] = Error
          BY <1>4, TurnsStep, ResultTypes DEF Error
        <5>3. QED
          BY <2>1, <5>1, <5>2
      <4>2. size < 15
        BY <2>7
      <4>3. QED
        BY <1>5, <4>1, <4>2
    <3>3. CASE NumberAt(b, n).part = "number"
      <4> DEFINE t2 == Scanning(n, NumberAt(b, n).val, TRUE)
      <4>1. t2 \in ScanState /\ t2.ml = n
        BY <2>5, <3>1 DEF Scanning, ScanState
      <4>2. next = t2
        BY <2>2, <2>7, <3>3
      <4> HIDE DEF t2
      <4>3. \/ RTSP_full_msg_rcvd(b, size) \in {NotFull, Error}
            \/ n > size /\ RTSP_full_msg_rcvd(b, size) = Received("RTSP_method_rcvd", n)
        <5>1. t2.ml >= size
          BY <3>1, <4>1
        <5>2. QED
          BY <1>4, <2>1, <4>1, <4>2, <5>1, PastTheEnd
      <4>4. size < 15
        BY <2>7
      <4>5. size < m
        BY <1>0, <1>4, <4>4
      <4>6. CASE n > size /\ RTSP_full_msg_rcvd(b, size) = Received("RTSP_method_rcvd", n)
        BY <1>0, <1>4, <3>1, <4>5, <4>6, RightIfFull
      <4>7. QED
        BY <1>5, <4>3, <4>4, <4>6
    <3>4. QED
      BY <3>2, <3>3
  <2>8. CASE size >= 10
    <3>1. n = 9 /\ NumberAt(b, n).part = "number" /\ NumberAt(b, n).val = 1
      BY <2>4, <2>8
    <3>2. Part(b, 7) = "length2"
      BY <1>1, <2>8
    <3>3. next = Scanning(9, 1, TRUE)
      BY <2>2, <3>1, <3>2
    <3>4. size \in 10 .. N
      BY <2>8
    <3>5. QED
      BY <2>1, <3>3, <3>4, BodyEnds
  <2>9. size = 7 \/ size \in {8, 9} \/ size >= 10
    BY <1>9
  <2>10. size \in {8, 9} => Part(b, 7) = "length2"
    BY <1>1
  <2>11. QED
    BY <2>6, <2>7, <2>8, <2>9, <2>10
<1>10. QED
  BY <1>4, <1>6, <1>8, <1>9

\* What the scan makes of a request of any kind.
LEMMA ScanOfRequest ==
  ASSUME NEW N \in Nat, NEW b, Buffer(b, N), NEW size \in 1 .. N,
         NEW k \in KnownKinds, FrontIs(b, size, k)
  PROVE  ScanIsRight(b, size, k)
<1>1. CASE k = "plain"
  BY <1>1, PlainScan
<1>2. CASE k = "session"
  BY <1>2, SessionScan
<1>3. CASE k = "body"
  BY <1>3, BodyScan
<1>4. CASE k = "no_cseq"
  BY <1>4, NoCSeqScan
<1>5. CASE k = "packet"
  BY <1>5, PacketScan
<1>6. QED
  BY <1>1, <1>2, <1>3, <1>4, <1>5 DEF KnownKinds

\* A line end at the front is an error.
LEMMA ScanOfLineEnd ==
  ASSUME NEW N \in Nat, NEW b, Buffer(b, N), NEW size \in 1 .. N, Part(b, 0) = "lf"
  PROVE  RTSP_full_msg_rcvd(b, size) = Error
<1> DEFINE t0 == Scanning(0, 0, FALSE)
<1>1. t0 \in ScanState /\ t0.ml = 0
  BY FirstTurn
<1>2. RTSP_full_msg_rcvd(b, size) = Turns(b, size)[t0]
  BY MethodScan
<1> HIDE DEF t0
<1>3. WordsEnd(b, t0.ml) = 0
  <2>1. Part(b, 0) \in Eol /\ 0 \in 0 .. N
    BY DEF Eol
  <2>2. \A j \in 0 .. 0 - 1 : Part(b, j) \notin Eol \cup {"nul"}
    OBVIOUS
  <2>3. QED
    BY <1>1, <2>1, <2>2, WordsEndIs
<1>4. ~(t0.ml > size)
  BY <1>1
<1>5. Turn(b, size, t0) = Error
  BY <1>1, <1>3, <1>4 DEF Turn
<1>6. size \in 0 .. N
  OBVIOUS
<1>7. QED
  BY <1>1, <1>2, <1>5, <1>6, TurnEnds, ResultTypes

-----------------------------------------------------------------------------
\* Where each request is in the stream.

\* Every request has five cells at least.
LEMMA PartsLen ==
  ASSUME NEW k \in KnownKinds
  PROVE  /\ Len(Parts(k)) \in Nat /\ Len(Parts(k)) >= 5
         /\ DOMAIN Parts(k) = 1 .. Len(Parts(k))
<1>1. CASE k = "plain"
  BY <1>1 DEF Parts
<1>2. CASE k = "session"
  BY <1>2 DEF Parts
<1>3. CASE k = "body"
  BY <1>3 DEF Parts
<1>4. CASE k = "no_cseq"
  BY <1>4 DEF Parts
<1>5. CASE k = "packet"
  BY <1>5 DEF Parts
<1>6. QED
  BY <1>1, <1>2, <1>3, <1>4, <1>5 DEF KnownKinds

\* A function of the length 1 .. n has the length n.
LEMMA LenIs ==
  ASSUME NEW n \in Nat, NEW S, NEW f \in [1 .. n -> S]
  PROVE  f \in Seq(S) /\ Len(f) = n /\ DOMAIN f = 1 .. n
OBVIOUS

\* Ends is the function that its definition says.
LEMMA EndsAre ==
  ASSUME NEW k \in [Requests -> Kinds]
  PROVE  Ends[k] = [r \in 0 .. MaxRequests |->
                       IF r = 0 THEN 0 ELSE Ends[k][r - 1] + Len(Parts(k[r]))]
<1> DEFINE D == 0 .. MaxRequests
           Body(f, r) == IF r = 0 THEN 0 ELSE f[r - 1] + Len(Parts(k[r]))
           Good(f, n) == \A r \in D : r <= n => f[r] = Body(f, r)
           Bad == {n \in Nat : \A f : ~Good(f, n)}
<1>0. MaxRequests \in Nat
  BY FramingAssumption
<1>1. Bad = {}
  <2> SUFFICES ASSUME Bad # {} PROVE FALSE
    OBVIOUS
  <2>1. PICK n \in Bad : \A m \in Bad : n <= m
    BY LeastElement
  <2>2. CASE n = 0
    <3> DEFINE f == [r \in D |-> 0]
    <3>1. Good(f, 0)
      BY <1>0
    <3>2. QED
      BY <2>2, <3>1
  <2>3. CASE n # 0
    <3>1. n \in Nat /\ n - 1 \in Nat /\ n - 1 < n
      BY <2>3
    <3>2. PICK f : Good(f, n - 1)
      <4>1. n - 1 \notin Bad
        <5> HIDE DEF Bad
        <5>1. QED
          BY <2>1, <3>1
      <4>2. QED
        BY <3>1, <4>1
    <3> DEFINE g == [r \in D |-> IF r = n THEN Body(f, r) ELSE f[r]]
    <3> HIDE DEF Bad
    <3>3. ASSUME NEW r \in D, r <= n PROVE g[r] = Body(g, r)
      <4>1. CASE r = n
        BY <1>0, <3>1, <4>1
      <4>2. CASE r # n
        <5>1. r <= n - 1 /\ r \in Nat
          BY <1>0, <3>1, <3>3, <4>2
        <5>2. f[r] = Body(f, r)
          BY <3>2, <5>1
        <5>3. r # 0 => r - 1 \in D /\ r - 1 # n
          BY <1>0, <3>1, <5>1
        <5>4. QED
          BY <4>2, <5>2, <5>3
      <4>3. QED
        BY <4>1, <4>2
    <3>4. Good(g, n)
      BY <3>3
    <3>5. QED
      BY <2>1, <3>4 DEF Bad
  <2>4. QED
    BY <2>2, <2>3
<1>2. PICK f : \A r \in D : f[r] = Body(f, r)
  <2>1. PICK f : Good(f, MaxRequests)
    BY <1>0, <1>1
  <2>2. QED
    BY <1>0, <2>1
<1> DEFINE h == [r \in D |-> Body(f, r)]
<1>3. h = [r \in D |-> Body(h, r)]
  <2>1. ASSUME NEW r \in D PROVE Body(f, r) = Body(h, r)
    <3>1. r # 0 => r - 1 \in D
      BY <1>0
    <3>2. QED
      BY <1>2, <3>1
  <2>2. QED
    BY <2>1
<1>4. Ends[k] = CHOOSE z : z = [r \in D |-> Body(z, r)]
  BY DEF Ends
<1>5. Ends[k] = [r \in D |-> Body(Ends[k], r)]
  <2>1. \E z : z = [r \in D |-> Body(z, r)]
    BY <1>3
  <2> HIDE DEF Body, D
  <2>2. QED
    BY <1>4, <2>1
<1>6. QED
  BY <1>5

\* A request ends as many cells behind the one before as it has.
LEMMA EndsStep ==
  ASSUME NEW k \in [Requests -> Kinds]
  PROVE  /\ Ends[k][0] = 0
         /\ \A r \in Requests : Ends[k][r] = Ends[k][r - 1] + Len(Parts(k[r]))
<1>1. MaxRequests \in Nat
  BY FramingAssumption
<1> DEFINE ends == Ends[k]
<1>2. ends = [r \in 0 .. MaxRequests |->
                 IF r = 0 THEN 0 ELSE ends[r - 1] + Len(Parts(k[r]))]
  BY EndsAre
<1> HIDE DEF ends
<1>3. 0 \in 0 .. MaxRequests /\ \A r \in Requests : r \in 0 .. MaxRequests /\ r # 0
  BY <1>1 DEF Requests
<1>4. ends[0] = 0
  BY <1>2, <1>3
<1>5. ASSUME NEW r \in Requests PROVE ends[r] = ends[r - 1] + Len(Parts(k[r]))
  BY <1>2, <1>3
<1>6. QED
  BY <1>4, <1>5 DEF ends

\* The ends of requests are positions in the stream.
LEMMA EndsType ==
  ASSUME NEW k \in [Requests -> Kinds], NEW r \in 0 .. MaxRequests
  PROVE  Ends[k][r] \in Nat
<1> DEFINE Bad == {n \in 0 .. MaxRequests : Ends[k][n] \notin Nat}
<1>0. MaxRequests \in Nat
  BY FramingAssumption
<1>1. Bad = {}
  <2> SUFFICES ASSUME Bad # {} PROVE FALSE
    OBVIOUS
  <2>1. Bad \subseteq Nat
    BY <1>0
  <2>2. PICK n \in Bad : \A m \in Bad : n <= m
    BY <2>1, LeastElement
  <2>3. n # 0
    BY EndsStep
  <2>4. n \in Requests /\ n - 1 \in 0 .. MaxRequests /\ n - 1 < n
    BY <1>0, <2>3 DEF Requests
  <2>5. Ends[k][n - 1] \in Nat
    BY <2>2, <2>4
  <2>6. Len(Parts(k[n])) \in Nat
    BY <2>4, PartsLen, FramingAssumption
  <2>7. Ends[k][n] \in Nat
    BY <2>4, <2>5, <2>6, EndsStep
  <2>8. QED
    BY <2>7
<1>2. QED
  BY <1>1

\* A later request ends later.
LEMMA EndsGrow ==
  ASSUME NEW k \in [Requests -> Kinds], NEW r \in 0 .. MaxRequests, NEW s \in r .. MaxRequests
  PROVE  Ends[k][r] <= Ends[k][s] /\ (r < s => Ends[k][r] < Ends[k][s])
<1> DEFINE Bad == {n \in r + 1 .. MaxRequests : ~(Ends[k][r] < Ends[k][n])}
<1>0. MaxRequests \in Nat /\ r \in Nat
  BY FramingAssumption
<1>1. Bad = {}
  <2> SUFFICES ASSUME Bad # {} PROVE FALSE
    OBVIOUS
  <2>1. Bad \subseteq Nat
    BY <1>0
  <2>2. PICK n \in Bad : \A m \in Bad : n <= m
    BY <2>1, LeastElement
  <2>3. n \in Requests /\ n - 1 \in 0 .. MaxRequests /\ n - 1 < n /\ n \in 0 .. MaxRequests
    BY <1>0 DEF Requests
  <2>4. Ends[k][n - 1] \in Nat /\ Ends[k][r] \in Nat
    BY <2>3, EndsType
  <2>5. n - 1 = r \/ Ends[k][r] < Ends[k][n - 1]
    <3>1. n - 1 \notin Bad
      <4> HIDE DEF Bad
      <4>1. QED
        BY <1>0, <2>1, <2>2, <2>3
    <3>2. n - 1 = r \/ n - 1 \in r + 1 .. MaxRequests
      BY <1>0, <2>3
    <3>3. QED
      BY <3>1, <3>2
  <2>6. Len(Parts(k[n])) \in Nat /\ Len(Parts(k[n])) >= 5
    BY <2>3, PartsLen, FramingAssumption
  <2>7. Ends[k][n] = Ends[k][n - 1] + Len(Parts(k[n]))
    BY <2>3, EndsStep
  <2>8. Ends[k][r] < Ends[k][n]
    BY <2>4, <2>5, <2>6, <2>7
  <2>9. QED
    BY <2>8
<1>2. s \in 0 .. MaxRequests /\ Ends[k][r] \in Nat /\ Ends[k][s] \in Nat
  BY <1>0, EndsType
<1>3. CASE s = r
  BY <1>2, <1>3
<1>4. CASE s # r
  <2>1. s \in r + 1 .. MaxRequests
    BY <1>0, <1>4
  <2>2. QED
    BY <1>1, <1>2, <2>1
<1>5. QED
  BY <1>3, <1>4

\* The stream ends with the last request.
LEMMA StreamType ==
  ASSUME kind \in [Requests -> Kinds]
  PROVE  /\ DOMAIN Stream = 1 .. EndOf(MaxRequests) /\ Len(Stream) = EndOf(MaxRequests)
         /\ EndOf(MaxRequests) \in Nat
<1>1. MaxRequests \in 0 .. MaxRequests
  BY FramingAssumption
<1>2. PICK n \in Nat : n = Ends[kind][MaxRequests]
  BY <1>1, EndsType
<1> DEFINE Of(p) == Min({s \in Requests : p <= Ends[kind][s]})
           CellAt(p) == Message(Of(p), kind[Of(p)])[p - Ends[kind][Of(p) - 1]]
<1>3. Stream = [p \in 1 .. n |-> CellAt(p)]
  BY <1>2 DEF Stream, Streams
<1> HIDE DEF CellAt
<1>4. Stream \in [1 .. n -> {CellAt(p) : p \in 1 .. n}]
  BY <1>3
<1> HIDE DEF Of
<1>5. Len(Stream) = n /\ DOMAIN Stream = 1 .. n
  BY <1>4, LenIs
<1>6. QED
  BY <1>2, <1>5 DEF EndOf

\* The request r is the cells after the end of the one before.
LEMMA StreamCells ==
  ASSUME kind \in [Requests -> Kinds], NEW r \in Requests,
         NEW q \in 1 .. Len(Parts(kind[r]))
  PROVE  /\ EndOf(r - 1) + q \in DOMAIN Stream
         /\ Stream[EndOf(r - 1) + q].req = r
         /\ Stream[EndOf(r - 1) + q].part = Parts(kind[r])[q]
         /\ Stream[EndOf(r - 1) + q].val =
               IF Parts(kind[r])[q] \in {"number", "byte"} THEN 1 ELSE 0
<1> DEFINE ends == Ends[kind]
           Of(p) == Min({s \in Requests : p <= ends[s]})
           CellAt(p) == Message(Of(p), kind[Of(p)])[p - ends[Of(p) - 1]]
<1>0. MaxRequests \in Nat /\ r \in 1 .. MaxRequests /\ r - 1 \in 0 .. MaxRequests
  BY FramingAssumption DEF Requests
<1>1. /\ Len(Parts(kind[r])) \in Nat
      /\ DOMAIN Parts(kind[r]) = 1 .. Len(Parts(kind[r]))
  BY PartsLen, FramingAssumption
<1>2. /\ ends[r - 1] \in Nat /\ ends[r] \in Nat /\ ends[MaxRequests] \in Nat
      /\ ends[r] = ends[r - 1] + Len(Parts(kind[r]))
      /\ ends[r] <= ends[MaxRequests]
  <2>1. MaxRequests \in r .. MaxRequests /\ r \in 0 .. MaxRequests /\ MaxRequests \in 0 .. MaxRequests
    BY <1>0
  <2>2. QED
    BY <1>0, <2>1, EndsType, EndsStep, EndsGrow
<1>3. PICK p \in Nat : p = ends[r - 1] + q /\ p - ends[r - 1] = q
  BY <1>1, <1>2
<1>4. p \in 1 .. ends[MaxRequests] /\ p <= ends[r] /\ p > ends[r - 1]
  BY <1>1, <1>2, <1>3
<1>5. Of(p) = r
  <2> DEFINE S == {s \in Requests : p <= ends[s]}
  <2>1. ASSUME NEW s \in S PROVE r <= s
    <3>1. s \in Nat /\ s \in Requests /\ s \in 0 .. MaxRequests /\ ends[s] \in Nat
      BY <1>0, EndsType DEF Requests
    <3>2. SUFFICES ASSUME s < r PROVE FALSE
      BY <1>0, <3>1
    <3>3. r - 1 \in s .. MaxRequests
      BY <1>0, <3>1, <3>2
    <3>4. ends[s] <= ends[r - 1]
      BY <3>1, <3>3, EndsGrow
    <3>5. p <= ends[s]
      OBVIOUS
    <3>6. QED
      BY <1>2, <1>4, <3>1, <3>4, <3>5
  <2>2. r \in S /\ S \subseteq Int
    BY <1>0, <1>4 DEF Requests
  <2> HIDE DEF S
  <2>3. Min(S) = r
    BY <2>1, <2>2, MinIs
  <2>4. QED
    BY <2>3 DEF S
<1>6. Stream = [x \in 1 .. ends[MaxRequests] |-> CellAt(x)]
  BY DEF Stream, Streams
<1> HIDE DEF ends, Of
<1>7. Stream[p] = Message(r, kind[r])[q]
  BY <1>3, <1>4, <1>5, <1>6
<1>8. Message(r, kind[r])[q] =
         [req |-> r, part |-> Parts(kind[r])[q],
          val |-> IF Parts(kind[r])[q] \in {"number", "byte"} THEN 1 ELSE 0]
  BY <1>1 DEF Message
<1>9. p = EndOf(r - 1) + q
  BY <1>3 DEF EndOf, ends
<1>10. p \in DOMAIN Stream
  BY <1>4, <1>6
<1>11. QED
  BY <1>7, <1>8, <1>9, <1>10

\* Every cell of the stream is one of a request.
LEMMA StreamReq ==
  ASSUME kind \in [Requests -> Kinds], NEW p \in DOMAIN Stream
  PROVE  Stream[p].req \in Requests /\ Stream[p].val \in {0, 1}
<1> DEFINE ends == Ends[kind]
           S == {s \in Requests : p <= ends[s]}
<1>0. MaxRequests \in Nat /\ MaxRequests \in 0 .. MaxRequests /\ 0 \in 0 .. MaxRequests
  BY FramingAssumption
<1>1. ends[MaxRequests] \in Nat /\ ends[0] = 0
  BY <1>0, EndsType, EndsStep
<1>2. p \in 1 .. ends[MaxRequests]
  BY StreamType DEF EndOf
<1>3. MaxRequests \in S
  <2>1. MaxRequests # 0
    BY <1>1, <1>2
  <2>2. QED
    BY <1>0, <1>1, <1>2, <2>1 DEF Requests
<1>4. S \subseteq Nat
  BY <1>0 DEF Requests
<1>5. PICK r \in S : \A s \in S : r <= s
  BY <1>3, <1>4, LeastElement
<1>6. r \in Requests /\ r - 1 \in 0 .. MaxRequests /\ r - 1 < r /\ ends[r] \in Nat
  <2>1. r \in Requests /\ r \in 0 .. MaxRequests /\ r - 1 \in 0 .. MaxRequests /\ r - 1 < r
    BY <1>0 DEF Requests
  <2>2. QED
    BY <2>1, EndsType
<1>7. ends[r - 1] \in Nat /\ ends[r] = ends[r - 1] + Len(Parts(kind[r]))
  BY <1>6, EndsType, EndsStep
<1>8. p > ends[r - 1]
  <2> SUFFICES ASSUME p <= ends[r - 1] PROVE FALSE
    BY <1>2, <1>7
  <2>1. r - 1 # 0
    BY <1>1, <1>2
  <2>2. r - 1 \in Requests
    BY <1>0, <1>6, <2>1 DEF Requests
  <2>3. r - 1 \in S
    BY <2>2
  <2> HIDE DEF S
  <2>4. QED
    BY <1>0, <1>4, <1>5, <1>6, <2>3
<1>9. PICK q \in Nat : q = p - ends[r - 1]
  BY <1>2, <1>7, <1>8
<1>10. Len(Parts(kind[r])) \in Nat /\ p <= ends[r]
  BY <1>5, <1>6, PartsLen, FramingAssumption
<1>11. q \in 1 .. Len(Parts(kind[r])) /\ ends[r - 1] + q = p
  BY <1>2, <1>7, <1>8, <1>9, <1>10
<1>12. Stream[ends[r - 1] + q].req = r /\ Stream[ends[r - 1] + q].val \in {0, 1}
  BY <1>6, <1>11, StreamCells DEF EndOf
<1>13. QED
  BY <1>6, <1>11, <1>12

\* A header is found in a request, or nowhere.
LEMMA FindType ==
  ASSUME TypeOK, NEW part
  PROVE  Find(part) \in 0 .. MaxRequests
<1>1. MaxRequests \in Nat
  BY FramingAssumption
<1>2. CASE Found(part) = {}
  BY <1>1, <1>2 DEF Find
<1>3. CASE Found(part) # {}
  <2> DEFINE First(k) == \A j \in 1 .. k - 1 : in_buffer[j].part # part
             c == CHOOSE k \in Found(part) : First(k)
  <2>1. Found(part) \subseteq 1 .. RTSP_BUFFERSIZE /\ Found(part) \subseteq Nat
    BY FramingAssumption DEF Found
  <2>2. PICK k \in Found(part) : \A m \in Found(part) : k <= m
    BY <1>3, <2>1, LeastElement
  <2>3. First(k)
    <3> SUFFICES ASSUME NEW j \in 1 .. k - 1, in_buffer[j].part = part PROVE FALSE
      OBVIOUS
    <3>1. k \in 1 .. RTSP_BUFFERSIZE /\ RTSP_BUFFERSIZE \in Nat
      BY <2>1, FramingAssumption
    <3>2. j \in 1 .. RTSP_BUFFERSIZE /\ j < k /\ \A i \in 1 .. j : i \in 1 .. k
      BY <3>1
    <3>3. j \in Found(part)
      BY <3>2 DEF Found
    <3>4. QED
      BY <2>2, <3>1, <3>2, <3>3
  <2> HIDE DEF First
  <2>4. c \in Found(part)
    BY <2>3
  <2>5. Find(part) = in_buffer[c].req
    BY <1>3 DEF Find, First
  <2> HIDE DEF c
  <2>6. in_buffer[c] \in {Nul} \cup {Stream[p] : p \in DOMAIN Stream}
    BY <2>1, <2>4 DEF TypeOK
  <2>7. Nul.req = 0
    BY DEF Nul
  <2>8. \A p \in DOMAIN Stream : Stream[p].req \in 0 .. MaxRequests
    BY <1>1, StreamReq DEF TypeOK, Requests
  <2>9. QED
    BY <1>1, <2>5, <2>6, <2>7, <2>8
<1>4. QED
  BY <1>2, <1>3

\* A word that comes in the request at the front, before any zero byte, is
\* found there, whatever else is in the buffer.
LEMMA FindIs ==
  ASSUME NEW part, NEW k \in 1 .. RTSP_BUFFERSIZE, in_buffer[k].part = part,
         \A j \in 1 .. k : in_buffer[j].part # "nul",
         \A j \in 1 .. k - 1 : in_buffer[j].part # part
  PROVE  Find(part) = in_buffer[k].req
<1> DEFINE First(i) == \A j \in 1 .. i - 1 : in_buffer[j].part # part
           c == CHOOSE i \in Found(part) : First(i)
<1>1. k \in Found(part) /\ First(k)
  BY DEF Found
<1>2. Find(part) = in_buffer[c].req
  BY <1>1 DEF Find
<1>3. c \in Found(part) /\ First(c)
  <2> HIDE DEF First
  <2>1. QED
    BY <1>1
<1> HIDE DEF c
<1>4. c \in 1 .. RTSP_BUFFERSIZE /\ in_buffer[c].part = part
  BY <1>3 DEF Found
<1>5. c = k
  <2>0. RTSP_BUFFERSIZE \in Nat
    BY FramingAssumption
  <2>1. ~(c < k)
    <3>1. c < k => c \in 1 .. k - 1
      BY <1>4, <2>0
    <3>2. QED
      BY <1>4, <3>1
  <2>2. ~(k < c)
    <3>1. k < c => k \in 1 .. c - 1
      BY <1>4, <2>0
    <3>2. QED
      BY <1>3, <3>1
  <2>3. QED
    BY <1>4, <2>0, <2>1, <2>2
<1>6. QED
  BY <1>2, <1>5

-----------------------------------------------------------------------------
\* The inductive invariant.

\* how many cells of the stream have left in_buffer
Gone == pos - in_size

\* in_buffer begins with what was read and has not been removed yet.
Window ==
    /\ in_size <= pos
    /\ \A q \in 1 .. in_size : in_buffer[q] = Stream[Gone + q]
    /\ pc \in {"select", "closed"} => in_size = 0
    /\ pc = "wild" => in_size > 0

\* The replies of a connection, which has answered the requests up to r.
Replied(s, r) ==
    /\ \A k \in DOMAIN s : s[k].req <= r
    /\ \A j, k \in DOMAIN s : j < k => s[j].req < s[k].req
    /\ \A k \in DOMAIN s : kind[s[k].req] \in {"plain", "session", "body"} =>
                               s[k].cseq = s[k].req
RepliedUpTo(r) == Replied(replied, r) /\ (OnCutRequest \/ Replied(replied \o out_buffer, r))

\* Each of the requests before r was handled once, those behind r were not.
HandledUpTo(r) ==
    \A x \in Requests : /\ x < r => times[x] = 1 /\ (kind[x] = "session" => session[x] = x)
                        /\ x > r => times[x] = 0

\* The request behind r is next.  When it has been handled and is still there,
\* it is cut.
AtStart(r) ==
    /\ Gone = EndOf(r)
    /\ HandledUpTo(r + 1)
    /\ r + 1 \in Requests /\ times[r + 1] > 0 => OnCutRequest /\ pos < EndOf(r + 1)
    /\ pc = "wild" => r + 1 \in Requests /\ pos < EndOf(r + 1)
    /\ RepliedUpTo(r)

\* The request r was taken to end at the line end before its last one, since no
\* more had been received then.  The line end that is left will be at the front
\* of in_buffer for ever.
AtEnd(r) ==
    /\ kind[r] \in Headers
    /\ Gone = EndOf(r) - 1
    /\ HandledUpTo(r)
    /\ pc # "wild" /\ times[r] > 0
    /\ times[r] = 2 => in_size > 0
    /\ in_size = 0 /\ kind[r] = "session" => session[r] = r
    /\ RepliedUpTo(r)

Inv == /\ TypeOK
       /\ Window
       /\ \/ \E r \in 0 .. MaxRequests : AtStart(r)
          \/ \E r \in Requests : AtEnd(r)

\* in_buffer is one for the scan, and what is in front is what comes next in
\* the stream.
LEMMA BufferType ==
  ASSUME TypeOK
  PROVE  /\ RTSP_BUFFERSIZE \in Nat /\ Buffer(in_buffer, RTSP_BUFFERSIZE)
         /\ in_size \in 0 .. RTSP_BUFFERSIZE /\ in_size \in Nat /\ pos \in Nat
<1>1. RTSP_BUFFERSIZE \in Nat
  BY FramingAssumption
<1>2. in_buffer \in [1 .. RTSP_BUFFERSIZE -> {Nul} \cup {Stream[p] : p \in DOMAIN Stream}]
  BY DEF TypeOK
<1>3. DOMAIN in_buffer = 1 .. RTSP_BUFFERSIZE /\ Len(in_buffer) = RTSP_BUFFERSIZE
  BY <1>1, <1>2, LenIs
<1>4. Len(Stream) \in Nat
  BY StreamType DEF TypeOK
<1>5. in_size \in 0 .. RTSP_BUFFERSIZE /\ pos \in 0 .. Len(Stream)
  BY DEF TypeOK
<1>6. in_size \in Nat /\ pos \in Nat
  BY <1>1, <1>4, <1>5
<1>7. \A k \in 1 .. RTSP_BUFFERSIZE : in_buffer[k].val \in {0, 1}
  <2>1. Nul.val = 0
    BY DEF Nul
  <2>2. \A p \in DOMAIN Stream : Stream[p].val \in {0, 1}
    BY StreamReq DEF TypeOK
  <2>3. QED
    BY <1>2, <2>1, <2>2
<1>8. Buffer(in_buffer, RTSP_BUFFERSIZE)
  BY <1>3, <1>7 DEF Buffer
<1>9. QED
  BY <1>1, <1>5, <1>6, <1>8

\* The facts about one request and its place that the steps need.
LEMMA EndAfter ==
  ASSUME kind \in [Requests -> Kinds], NEW r \in Requests
  PROVE  /\ r - 1 \in 0 .. MaxRequests /\ r \in 0 .. MaxRequests /\ r \in Nat
         /\ EndOf(r - 1) \in Nat /\ EndOf(r) \in Nat
         /\ kind[r] \in KnownKinds
         /\ Len(Parts(kind[r])) \in Nat /\ Len(Parts(kind[r])) >= 5
         /\ DOMAIN Parts(kind[r]) = 1 .. Len(Parts(kind[r]))
         /\ EndOf(r) = EndOf(r - 1) + Len(Parts(kind[r]))
         /\ EndOf(r) <= EndOf(MaxRequests)
<1>1. /\ r - 1 \in 0 .. MaxRequests /\ r \in 0 .. MaxRequests /\ r \in Nat
      /\ MaxRequests \in r .. MaxRequests
  BY FramingAssumption DEF Requests
<1>2. kind[r] \in KnownKinds
  BY FramingAssumption
<1>3. QED
  BY <1>1, <1>2, PartsLen, EndsType, EndsStep, EndsGrow DEF EndOf

\* The stream goes on, so that there is another request.
LEMMA NextRequest ==
  ASSUME TypeOK, NEW r \in 0 .. MaxRequests, EndOf(r) < pos
  PROVE  r + 1 \in Requests /\ (r + 1) - 1 = r
<1>1. MaxRequests \in Nat
  BY FramingAssumption
<1>2. pos <= EndOf(MaxRequests) /\ EndOf(MaxRequests) \in Nat /\ pos \in Nat
  BY StreamType, BufferType DEF TypeOK
<1>3. EndOf(r) \in Nat
  BY EndsType DEF TypeOK, EndOf
<1>4. r # MaxRequests
  BY <1>2, <1>3
<1>5. QED
  BY <1>1, <1>4 DEF Requests

\* The cells that are left of the request r in the window, of which the first
\* d are gone.
LEMMA WindowCells ==
  ASSUME TypeOK, Window, NEW r \in Requests, NEW d \in Nat, Gone = EndOf(r - 1) + d,
         NEW q \in 1 .. in_size, q + d <= Len(Parts(kind[r]))
  PROVE  /\ in_buffer[q].req = r
         /\ in_buffer[q].part = Parts(kind[r])[q + d]
         /\ in_buffer[q].val = IF Parts(kind[r])[q + d] \in {"number", "byte"} THEN 1 ELSE 0
<1>1. in_size \in Nat /\ pos \in Nat
  BY BufferType
<1>2. kind \in [Requests -> Kinds]
  BY DEF TypeOK
<1>3. EndOf(r - 1) \in Nat /\ Len(Parts(kind[r])) \in Nat
  BY <1>2, EndAfter
<1>4. PICK x \in 1 .. Len(Parts(kind[r])) : x = q + d
  BY <1>1, <1>3
<1>5. Gone + q = EndOf(r - 1) + x
  BY <1>1, <1>3, <1>4
<1>6. in_buffer[q] = Stream[EndOf(r - 1) + x]
  BY <1>5 DEF Window
<1>7. QED
  BY <1>2, <1>4, <1>6, StreamCells

\* The request behind r is at the front: the scan is right about it.
LEMMA FrontOf ==
  ASSUME TypeOK, Window, NEW r \in 0 .. MaxRequests, Gone = EndOf(r), in_size > 0
  PROVE  /\ r + 1 \in Requests /\ (r + 1) - 1 = r /\ in_buffer[1].req = r + 1
         /\ \A q \in 1 .. Len(Parts(kind[r + 1])) :
               q <= in_size => /\ in_buffer[q].req = r + 1
                               /\ in_buffer[q].part = Parts(kind[r + 1])[q]
         /\ ScanIsRight(in_buffer, in_size, kind[r + 1])
<1>0. kind \in [Requests -> Kinds]
  BY DEF TypeOK
<1>1. /\ RTSP_BUFFERSIZE \in Nat /\ Buffer(in_buffer, RTSP_BUFFERSIZE)
      /\ in_size \in 1 .. RTSP_BUFFERSIZE /\ in_size \in Nat /\ pos \in Nat
  BY BufferType
<1>2. EndOf(r) \in Nat /\ EndOf(r) = pos - in_size
  BY <1>0, EndsType DEF EndOf, Gone
<1>3. EndOf(r) < pos
  BY <1>1, <1>2
<1>4. PICK n \in Requests : n = r + 1 /\ n - 1 = r
  BY <1>3, NextRequest
<1>5. PICK m \in Nat : /\ m = Len(Parts(kind[n])) /\ m >= 5
                       /\ EndOf(n) = EndOf(n - 1) + m /\ EndOf(n) \in Nat
                       /\ DOMAIN Parts(kind[n]) = 1 .. m
  BY <1>0, EndAfter
<1>6. Gone = EndOf(n - 1) + 0
  BY <1>2, <1>4
<1>7. ASSUME NEW q \in 1 .. m, q <= in_size
      PROVE  /\ in_buffer[q].req = n
             /\ in_buffer[q].part = Parts(kind[n])[q]
             /\ in_buffer[q].val = IF Parts(kind[n])[q] \in {"number", "byte"} THEN 1 ELSE 0
  <2>1. q \in 1 .. in_size /\ q + 0 = q /\ q + 0 <= m
    BY <1>1, <1>5, <1>7
  <2>2. QED
    BY <1>5, <1>6, <2>1, WindowCells
<1>8. 1 \in 1 .. m /\ 1 <= in_size
  BY <1>1, <1>5
<1>9. FrontIs(in_buffer, in_size, kind[n])
  <2>1. ASSUME NEW j \in 0 .. m - 1, j < in_size
        PROVE  /\ Part(in_buffer, j) = Parts(kind[n])[j + 1]
               /\ At(in_buffer, j).val =
                     IF Parts(kind[n])[j + 1] \in {"number", "byte"} THEN 1 ELSE 0
    <3>1. j + 1 \in 1 .. m /\ j + 1 <= in_size /\ j + 1 \in DOMAIN in_buffer
      BY <1>1, <1>5, <2>1 DEF Buffer
    <3>2. QED
      BY <1>7, <3>1 DEF Part, At
  <2>2. ASSUME m < in_size PROVE Part(in_buffer, m) \in {"line", "dollar"}
    <3>1. n \in 0 .. MaxRequests /\ EndOf(n) < pos
      BY <1>0, <1>1, <1>2, <1>4, <1>5, <2>2, EndAfter
    <3>2. PICK o \in Requests : o = n + 1 /\ o - 1 = n
      BY <3>1, NextRequest
    <3>3. Len(Parts(kind[o])) \in Nat /\ Len(Parts(kind[o])) >= 5 /\ kind[o] \in KnownKinds
      BY <1>0, EndAfter
    <3>4. 1 \in 1 .. Len(Parts(kind[o]))
      BY <3>3
    <3>5. PICK x \in 1 .. in_size : x = m + 1
      BY <1>1, <1>5, <2>2
    <3>6. Gone + x = EndOf(o - 1) + 1
      BY <1>1, <1>2, <1>4, <1>5, <3>2, <3>5
    <3>7. in_buffer[x] = Stream[EndOf(o - 1) + 1]
      BY <3>6 DEF Window
    <3>8. in_buffer[x].part = Parts(kind[o])[1]
      BY <1>0, <3>4, <3>7, StreamCells
    <3>9. Parts(kind[o])[1] \in {"line", "dollar"}
      BY <3>3 DEF Parts, KnownKinds
    <3>10. m + 1 \in DOMAIN in_buffer
      BY <1>1, <1>5, <3>5 DEF Buffer
    <3>11. QED
      BY <3>5, <3>8, <3>9, <3>10 DEF Part, At
  <2>3. QED
    BY <1>5, <2>1, <2>2 DEF FrontIs
<1>10. ScanIsRight(in_buffer, in_size, kind[n])
  BY <1>0, <1>1, <1>9, EndAfter, ScanOfRequest
<1>11. QED
  BY <1>4, <1>5, <1>7, <1>8, <1>10

\* A Session or CSeq header of the request at the front is found, when the
\* request is there but for its last line end at most.
LEMMA OwnHeadersFound ==
  ASSUME TypeOK, Window, NEW r \in 0 .. MaxRequests, Gone = EndOf(r), in_size > 0,
         in_size >= Len(Parts(kind[r + 1])) - 1
  PROVE  /\ kind[r + 1] = "session" => Find("session") = r + 1
         /\ kind[r + 1] \in {"plain", "session", "body"} => Find("cseq") = r + 1
<1>0. /\ RTSP_BUFFERSIZE \in Nat /\ in_size \in 0 .. RTSP_BUFFERSIZE /\ in_size \in Nat
  BY BufferType
<1>1. PICK n \in Requests : n = r + 1
  BY FrontOf
<1>2. PICK m \in Nat : m = Len(Parts(kind[n])) /\ m >= 5 /\ in_size >= m - 1
  BY <1>1, EndAfter DEF TypeOK
<1>3. \A q \in 1 .. m : q <= in_size => /\ in_buffer[q].req = n
                                       /\ in_buffer[q].part = Parts(kind[n])[q]
  BY <1>1, <1>2, FrontOf
<1>4. ASSUME NEW k \in Nat, k >= 1, k <= m - 1, NEW part, Parts(kind[n])[k] = part,
             \A j \in 1 .. k : Parts(kind[n])[j] # "nul",
             \A j \in 1 .. k - 1 : Parts(kind[n])[j] # part
      PROVE  Find(part) = n
  <2>1. k \in 1 .. RTSP_BUFFERSIZE
    BY <1>0, <1>2, <1>4
  <2>2. \A j \in 1 .. k : j \in 1 .. m /\ j <= in_size
    BY <1>0, <1>2, <1>4
  <2>3. k \in 1 .. k /\ \A j \in 1 .. k - 1 : j \in 1 .. k
    BY <1>4
  <2>4. in_buffer[k].part = part /\ in_buffer[k].req = n
    BY <1>3, <1>4, <2>2, <2>3
  <2>5. \A j \in 1 .. k : in_buffer[j].part # "nul"
    BY <1>3, <1>4, <2>2
  <2>6. \A j \in 1 .. k - 1 : in_buffer[j].part # part
    BY <1>3, <1>4, <2>2, <2>3
  <2>7. QED
    BY <2>1, <2>4, <2>5, <2>6, FindIs
<1>5. ASSUME kind[n] = "session" PROVE Find("session") = n
  <2>1. m = 11
    BY <1>2, <1>5 DEF Parts
  <2>2. PICK k \in Nat : k = 7
    OBVIOUS
  <2>3. /\ Parts("session")[k] = "session"
        /\ \A j \in 1 .. k : Parts("session")[j] # "nul"
        /\ \A j \in 1 .. k - 1 : Parts("session")[j] # "session"
    BY <2>2 DEF Parts
  <2>4. k >= 1 /\ k <= m - 1
    BY <2>1, <2>2
  <2>5. QED
    BY <1>4, <1>5, <2>3, <2>4
<1>6. ASSUME kind[n] \in {"plain", "session", "body"} PROVE Find("cseq") = n
  <2>1. m \in {8, 11, 15}
    BY <1>2, <1>6 DEF Parts
  <2>2. PICK k \in Nat : k = 4
    OBVIOUS
  <2>3. /\ Parts(kind[n])[k] = "cseq"
        /\ \A j \in 1 .. k : Parts(kind[n])[j] # "nul"
        /\ \A j \in 1 .. k - 1 : Parts(kind[n])[j] # "cseq"
    BY <1>6, <2>2 DEF Parts
  <2>4. k >= 1 /\ k <= m - 1
    BY <2>1, <2>2
  <2>5. QED
    BY <1>4, <2>3, <2>4
<1>7. QED
  BY <1>1, <1>5, <1>6

\* The last line end of the request r is at the front: there is no message.
LEMMA LeftOver ==
  ASSUME TypeOK, Window, NEW r \in Requests, kind[r] \in Headers, Gone = EndOf(r) - 1,
         in_size > 0
  PROVE  in_buffer[1].req = r /\ AtFront = Error /\ ~Whole
<1>0. /\ RTSP_BUFFERSIZE \in Nat /\ in_size \in 1 .. RTSP_BUFFERSIZE /\ 1 \in 1 .. in_size
      /\ Buffer(in_buffer, RTSP_BUFFERSIZE)
  BY BufferType
<1>1. PICK m \in Nat : /\ m = Len(Parts(kind[r])) /\ m >= 5
                       /\ EndOf(r) = EndOf(r - 1) + m /\ EndOf(r - 1) \in Nat
  BY EndAfter DEF TypeOK
<1>2. PICK d \in Nat : d = m - 1 /\ 1 + d = m
  BY <1>1
<1>3. Gone = EndOf(r - 1) + d
  BY <1>1, <1>2
<1>4. in_buffer[1].req = r /\ in_buffer[1].part = Parts(kind[r])[m]
  BY <1>0, <1>1, <1>2, <1>3, WindowCells
<1>5. Parts(kind[r])[m] = "lf"
  BY <1>1 DEF Parts, Headers
<1>6. Part(in_buffer, 0) = "lf"
  BY <1>0, <1>4, <1>5 DEF Part, At, Buffer
<1>7. AtFront = Error
  BY <1>0, <1>6, ScanOfLineEnd DEF AtFront
<1>8. QED
  BY <1>4, <1>7, ResultTypes DEF Whole

-----------------------------------------------------------------------------
\* What each step does to the invariant.

\* Before anything is read.
LEMMA InitInv == Init => Inv
<1> SUFFICES ASSUME Init PROVE Inv
  OBVIOUS
<1>0. MaxRequests \in Nat /\ RTSP_BUFFERSIZE \in Nat /\ OUT_BUFFERSIZE \in Nat
  BY FramingAssumption
<1>1. /\ kind \in [Requests -> Kinds] /\ pos = 0 /\ in_size = 0 /\ rtsp_cseq = 0
      /\ out_buffer = <<>> /\ replied = <<>> /\ pc = "select"
      /\ \A x \in Requests : times[x] = 0
  BY DEF Init
<1>2. Len(Stream) \in Nat
  BY <1>1, StreamType
<1>3. TypeOK
  <2>1. times \in [Requests -> 0 .. 2] /\ session \in [Requests -> 0 .. MaxRequests]
    BY <1>0 DEF Init
  <2>2. in_buffer \in [1 .. RTSP_BUFFERSIZE -> {Nul} \cup {Stream[p] : p \in DOMAIN Stream}]
    BY DEF Init
  <2>3. /\ out_buffer \in Seq(Replies) /\ Len(out_buffer) <= OUT_BUFFERSIZE
        /\ replied \in Seq(Replies)
    BY <1>0, <1>1
  <2>4. QED
    BY <1>0, <1>1, <1>2, <2>1, <2>2, <2>3 DEF TypeOK
<1>4. Window
  BY <1>1 DEF Window
<1>5. AtStart(0)
  <2>1. Gone = EndOf(0)
    BY <1>1, EndsStep DEF Gone, EndOf
  <2>2. HandledUpTo(0 + 1)
    BY <1>0, <1>1 DEF HandledUpTo, Requests
  <2>3. RepliedUpTo(0)
    BY <1>1 DEF RepliedUpTo, Replied
  <2>4. 0 + 1 \in Requests => times[0 + 1] = 0
    BY <1>1
  <2>5. QED
    BY <1>1, <2>1, <2>2, <2>3, <2>4 DEF AtStart
<1>6. 0 \in 0 .. MaxRequests
  BY <1>0
<1>7. QED
  BY <1>3, <1>4, <1>5, <1>6 DEF Inv

\* While nothing is left in in_buffer, the handler is not caught on a request.
LEMMA NotCaught ==
  ASSUME pc # "wild", in_size = 0 \/ pc # "handle"
  PROVE  ~OnCutRequest
<1>1. ~(in_size > 0) \/ pc # "handle"
  OBVIOUS
<1>2. QED
  BY <1>1 DEF OnCutRequest

\* What stays the same when the client is the same.
LEMMA SameStream ==
  ASSUME kind' = kind
  PROVE  /\ Stream' = Stream
         /\ \A r : EndOf(r)' = EndOf(r)
         /\ \A s, r : Replied(s, r) <=> Replied(s, r)'
BY DEF Stream, EndOf, Replied

\* A read puts the next cells of the stream into the empty buffer.
LEMMA ReadStep ==
  ASSUME Inv, NEW n \in 1 .. RTSP_BUFFERSIZE, Read(n)
  PROVE  Inv'
<1>0. TypeOK /\ Window
  BY DEF Inv
<1>1. /\ pc = "select" /\ in_size = 0 /\ kind' = kind /\ pc' = "handle"
      /\ pos + n <= Len(Stream) /\ in_size' = n /\ pos' = pos + n
      /\ UNCHANGED <<rtsp_cseq, out_buffer, replied, times, session>>
      /\ n <= RTSP_BUFFERSIZE
  BY <1>0 DEF Read, Window, handled
<1>2. RTSP_BUFFERSIZE \in Nat /\ pos \in Nat /\ n \in Nat /\ n > 0 /\ Len(Stream) \in Nat
  BY <1>0, BufferType, StreamType DEF TypeOK
<1>3. in_buffer' = [k \in 1 .. RTSP_BUFFERSIZE |->
                       IF k \in 1 .. n THEN Stream[pos + k] ELSE in_buffer[k]]
  <2>1. \A k \in 1 .. RTSP_BUFFERSIZE : k - in_size = k /\ pos + k - in_size = pos + k
    BY <1>1, <1>2
  <2>2. QED
    BY <2>1 DEF Read
<1>4. Stream' = Stream
  BY <1>1 DEF Stream
<1>5. TypeOK'
  <2>1. in_buffer' \in [1 .. RTSP_BUFFERSIZE -> {Nul} \cup {Stream[p] : p \in DOMAIN Stream}]
    <3>1. \A k \in 1 .. n : pos + k \in DOMAIN Stream
      BY <1>0, <1>1, <1>2, StreamType DEF TypeOK
    <3>2. \A k \in 1 .. RTSP_BUFFERSIZE :
              in_buffer[k] \in {Nul} \cup {Stream[p] : p \in DOMAIN Stream}
      BY <1>0 DEF TypeOK
    <3>3. QED
      BY <1>3, <3>1, <3>2
  <2>2. pos' \in 0 .. Len(Stream) /\ in_size' \in 0 .. RTSP_BUFFERSIZE
    BY <1>1, <1>2
  <2>3. QED
    BY <1>0, <1>1, <1>4, <2>1, <2>2 DEF TypeOK
<1>6. Gone' = Gone /\ Gone = pos
  BY <1>1, <1>2 DEF Gone
<1>7. Window'
  <2>1. \A q \in 1 .. n : in_buffer'[q] = Stream[pos + q]
    BY <1>1, <1>2, <1>3
  <2>2. QED
    BY <1>1, <1>2, <1>4, <1>6, <2>1 DEF Window
<1>8. ~OnCutRequest
  BY <1>1, NotCaught
<1>9. \A r : HandledUpTo(r) => HandledUpTo(r)'
  BY <1>1 DEF HandledUpTo
<1>10. \A r : RepliedUpTo(r) => RepliedUpTo(r)'
  BY <1>1, <1>8, SameStream DEF RepliedUpTo
<1>11. ASSUME NEW r \in 0 .. MaxRequests, AtStart(r) PROVE AtStart(r)'
  <2>1. EndOf(r)' = EndOf(r)
    BY <1>1, SameStream
  <2>2. HandledUpTo(r + 1)' /\ RepliedUpTo(r)'
    BY <1>9, <1>10, <1>11 DEF AtStart
  <2>3. ~(r + 1 \in Requests /\ times'[r + 1] > 0)
    BY <1>1, <1>8, <1>11 DEF AtStart
  <2>4. QED
    BY <1>1, <1>6, <1>11, <2>1, <2>2, <2>3 DEF AtStart
<1>12. ASSUME NEW r \in Requests, AtEnd(r) PROVE AtEnd(r)'
  <2>1. EndOf(r)' = EndOf(r)
    BY <1>1, SameStream
  <2>2. HandledUpTo(r)' /\ RepliedUpTo(r)'
    BY <1>9, <1>10, <1>12 DEF AtEnd
  <2>3. in_size' # 0 /\ in_size' > 0
    BY <1>1, <1>2
  <2>4. QED
    BY <1>1, <1>6, <1>12, <2>1, <2>2, <2>3 DEF AtEnd
<1>13. QED
  BY <1>5, <1>7, <1>11, <1>12 DEF Inv

\* A write sends the replies, or closes the connection.
LEMMA WriteStep ==
  ASSUME Inv, Write
  PROVE  Inv'
<1>0. TypeOK /\ Window
  BY DEF Inv
<1>1. /\ pc = "handle" /\ in_size = 0 /\ kind' = kind /\ pos' = pos
      /\ UNCHANGED <<in_buffer, in_size, rtsp_cseq, times, session>>
      /\ pc' \in {"select", "closed"}
  BY DEF Write, client, input, handled
<1>2. \/ replied' = replied \o out_buffer /\ out_buffer' = <<>>
      \/ replied' = replied /\ out_buffer' = out_buffer
  BY DEF Write
<1>3. Stream' = Stream
  BY <1>1 DEF Stream
<1>4. out_buffer \in Seq(Replies) /\ replied \in Seq(Replies)
  BY <1>0 DEF TypeOK
<1>5. /\ replied' \o out_buffer' = replied \o out_buffer
      /\ replied' = replied \o out_buffer \/ replied' = replied
      /\ out_buffer' \in Seq(Replies) /\ replied' \in Seq(Replies)
      /\ Len(out_buffer') <= Len(out_buffer)
  <2>1. CASE replied' = replied \o out_buffer /\ out_buffer' = <<>>
    <3>1. replied \o out_buffer \in Seq(Replies) /\ Len(<<>>) = 0 /\ Len(out_buffer) >= 0
      BY <1>4
    <3>2. (replied \o out_buffer) \o <<>> = replied \o out_buffer
      BY <3>1
    <3>3. QED
      BY <2>1, <3>1, <3>2
  <2>2. CASE replied' = replied /\ out_buffer' = out_buffer
    BY <1>4, <2>2
  <2>3. QED
    BY <1>2, <2>1, <2>2
<1>6. TypeOK'
  <2>1. Len(out_buffer') <= OUT_BUFFERSIZE
    <3>1. Len(out_buffer) \in Nat /\ Len(out_buffer') \in Nat /\ OUT_BUFFERSIZE \in Nat
      BY <1>4, <1>5, FramingAssumption
    <3>2. Len(out_buffer) <= OUT_BUFFERSIZE
      BY <1>0 DEF TypeOK
    <3>3. QED
      BY <1>5, <3>1, <3>2
  <2>2. QED
    BY <1>0, <1>1, <1>3, <1>5, <2>1 DEF TypeOK
<1>7. Gone' = Gone
  BY <1>1 DEF Gone
<1>8. Window'
  BY <1>0, <1>1, <1>3, <1>7 DEF Window
<1>9. ~OnCutRequest
  BY <1>1, NotCaught
<1>10. \A r : HandledUpTo(r) => HandledUpTo(r)'
  BY <1>1 DEF HandledUpTo
<1>11. \A r : RepliedUpTo(r) => RepliedUpTo(r)'
  <2> SUFFICES ASSUME NEW r, RepliedUpTo(r) PROVE RepliedUpTo(r)'
    OBVIOUS
  <2>1. Replied(replied, r) /\ Replied(replied \o out_buffer, r)
    BY <1>9 DEF RepliedUpTo
  <2>2. Replied(replied', r) /\ Replied(replied' \o out_buffer', r)
    BY <1>5, <2>1
  <2>3. Replied(replied, r)' /\ Replied(replied \o out_buffer, r)'
    BY <1>1, <2>2 DEF Replied
  <2>4. QED
    BY <2>3 DEF RepliedUpTo
<1>12. ASSUME NEW r \in 0 .. MaxRequests, AtStart(r) PROVE AtStart(r)'
  <2>1. EndOf(r)' = EndOf(r)
    BY <1>1, SameStream
  <2>2. HandledUpTo(r + 1)' /\ RepliedUpTo(r)'
    BY <1>10, <1>11, <1>12 DEF AtStart
  <2>3. ~(r + 1 \in Requests /\ times'[r + 1] > 0)
    BY <1>1, <1>9, <1>12 DEF AtStart
  <2>4. QED
    BY <1>1, <1>7, <1>12, <2>1, <2>2, <2>3 DEF AtStart
<1>13. ASSUME NEW r \in Requests, AtEnd(r) PROVE AtEnd(r)'
  <2>1. EndOf(r)' = EndOf(r)
    BY <1>1, SameStream
  <2>2. HandledUpTo(r)' /\ RepliedUpTo(r)'
    BY <1>10, <1>11, <1>13 DEF AtEnd
  <2>3. QED
    BY <1>1, <1>7, <1>13, <2>1, <2>2 DEF AtEnd
<1>14. QED
  BY <1>6, <1>8, <1>12, <1>13 DEF Inv

\* What RTSP_discard_msg does with the request behind r: removes it, removes
\* it but for the last line end that had not come, goes wild, or leaves it.
LEMMA DiscardIs ==
  ASSUME TypeOK, Window, NEW r \in 0 .. MaxRequests, Gone = EndOf(r), in_size > 0,
         RTSP_discard_msg, NEW m \in Nat, m = Len(Parts(kind[r + 1])), m >= 5
  PROVE  \/ /\ Whole /\ in_size >= m /\ in_size' = in_size - m /\ pc' = pc
            /\ in_buffer' \in [1 .. RTSP_BUFFERSIZE ->
                                  {Nul} \cup {Stream[p] : p \in DOMAIN Stream}]
            /\ \A q \in 1 .. in_size' : in_buffer'[q] = in_buffer[q + m]
         \/ /\ Whole /\ in_size = m - 1 /\ kind[r + 1] \in Headers
            /\ in_size' = 0 /\ in_buffer' = in_buffer /\ pc' = pc
         \/ Whole /\ in_size < m /\ pc' = "wild" /\ UNCHANGED <<in_buffer, in_size>>
         \/ ~Whole /\ in_size < m /\ UNCHANGED <<in_buffer, in_size, pc>>
<1>0. RTSP_BUFFERSIZE \in Nat /\ in_size \in 1 .. RTSP_BUFFERSIZE
  BY BufferType
<1>1. /\ AtFront.len \in Nat
      /\ in_size >= m => Whole /\ AtFront.len = m
      /\ in_size < m => \/ ~Whole
                        \/ AtFront.len > in_size
                        \/ AtFront.len = in_size /\ in_size = m - 1 /\ kind[r + 1] \in Headers
  BY FrontOf DEF ScanIsRight, AtFront, Whole
<1>2. \/ Whole /\ RTSP_remove_msg(AtFront.len)
      \/ ~Whole /\ UNCHANGED <<input, pc>>
  BY DEF RTSP_discard_msg, Whole
<1>3. CASE ~Whole
  BY <1>0, <1>1, <1>2, <1>3 DEF input
<1>4. CASE Whole
  <2>1. RTSP_remove_msg(AtFront.len)
    BY <1>2, <1>4
  <2>2. CASE in_size >= m
    <3>1. /\ in_size' = in_size - m /\ pc' = pc
          /\ in_buffer' = IF in_size' = 0 THEN in_buffer
                          ELSE [k \in 1 .. RTSP_BUFFERSIZE |->
                                  IF k + m <= RTSP_BUFFERSIZE THEN in_buffer[k + m] ELSE Nul]
      BY <1>0, <1>1, <2>1, <2>2 DEF RTSP_remove_msg
    <3>2. in_buffer \in [1 .. RTSP_BUFFERSIZE ->
                            {Nul} \cup {Stream[p] : p \in DOMAIN Stream}]
      BY DEF TypeOK
    <3>3. \A k \in 1 .. RTSP_BUFFERSIZE :
              k + m <= RTSP_BUFFERSIZE => k + m \in 1 .. RTSP_BUFFERSIZE
      BY <1>0
    <3>4. in_buffer' \in [1 .. RTSP_BUFFERSIZE ->
                             {Nul} \cup {Stream[p] : p \in DOMAIN Stream}]
      BY <3>1, <3>2, <3>3
    <3>5. ASSUME NEW q \in 1 .. in_size' PROVE in_buffer'[q] = in_buffer[q + m]
      <4>1. in_size' # 0 /\ q \in 1 .. RTSP_BUFFERSIZE /\ q + m <= RTSP_BUFFERSIZE
        BY <1>0, <2>2, <3>1
      <4>2. QED
        BY <3>1, <4>1
    <3>6. QED
      BY <1>4, <2>2, <3>1, <3>4, <3>5
  <2>3. CASE in_size < m /\ AtFront.len > in_size
    <3>1. pc' = "wild" /\ UNCHANGED input
      <4>1. ~(AtFront.len <= in_size)
        BY <1>0, <1>1, <2>3
      <4>2. QED
        BY <2>1, <4>1 DEF RTSP_remove_msg
    <3>2. QED
      BY <1>4, <2>3, <3>1 DEF input
  <2>4. CASE in_size = m - 1 /\ AtFront.len = in_size /\ kind[r + 1] \in Headers
    BY <1>0, <1>4, <2>1, <2>4 DEF RTSP_remove_msg
  <2>5. \/ in_size >= m
        \/ in_size < m /\ AtFront.len > in_size
        \/ in_size = m - 1 /\ AtFront.len = in_size /\ kind[r + 1] \in Headers
    BY <1>0, <1>1, <1>4
  <2>6. QED
    BY <2>2, <2>3, <2>4, <2>5
<1>5. QED
  BY <1>3, <1>4

\* What the handler counts, remembers and answers of the request n.
LEMMA AnswerIs ==
  ASSUME TypeOK, Handle, NEW n \in Requests, in_buffer[1].req = n
  PROVE  /\ times' \in [Requests -> 0 .. 2] /\ times'[n] > 0 /\ (times[n] = 0 => times'[n] = 1)
         /\ session' \in [Requests -> 0 .. MaxRequests] /\ session'[n] = Find("session")
         /\ \A x \in Requests : x # n => times'[x] = times[x] /\ session'[x] = session[x]
         /\ rtsp_cseq' \in 0 .. MaxRequests
         /\ Find("cseq") # 0 => rtsp_cseq' = Find("cseq")
         /\ out_buffer' \in Seq(Replies) /\ Len(out_buffer') <= OUT_BUFFERSIZE
         /\ \/ out_buffer' = out_buffer
            \/ out_buffer' = Append(out_buffer, [req |-> n, cseq |-> rtsp_cseq'])
<1>0. /\ times \in [Requests -> 0 .. 2] /\ session \in [Requests -> 0 .. MaxRequests]
      /\ rtsp_cseq \in 0 .. MaxRequests /\ out_buffer \in Seq(Replies)
      /\ Len(out_buffer) <= OUT_BUFFERSIZE /\ OUT_BUFFERSIZE \in Nat
  BY FramingAssumption DEF TypeOK
<1>1. /\ times' = [times EXCEPT ![n] = IF @ < 2 THEN @ + 1 ELSE 2]
      /\ session' = [session EXCEPT ![n] = Find("session")]
      /\ RTSP_validate_method
      /\ bwrite(n) \/ UNCHANGED out_buffer
  BY DEF Handle
<1>2. /\ times' \in [Requests -> 0 .. 2] /\ times'[n] > 0 /\ (times[n] = 0 => times'[n] = 1)
      /\ \A x \in Requests : x # n => times'[x] = times[x]
  <2>1. times[n] \in 0 .. 2
    BY <1>0
  <2>2. (IF times[n] < 2 THEN times[n] + 1 ELSE 2) \in 1 .. 2
    BY <2>1
  <2>3. times' = [times EXCEPT ![n] = IF times[n] < 2 THEN times[n] + 1 ELSE 2]
    BY <1>0, <1>1
  <2>4. QED
    BY <1>0, <2>1, <2>2, <2>3
<1>3. /\ session' \in [Requests -> 0 .. MaxRequests] /\ session'[n] = Find("session")
      /\ \A x \in Requests : x # n => session'[x] = session[x]
  <2>1. Find("session") \in 0 .. MaxRequests
    BY FindType
  <2>2. QED
    BY <1>0, <1>1, <2>1
<1>4. /\ rtsp_cseq' \in 0 .. MaxRequests
      /\ Find("cseq") # 0 => rtsp_cseq' = Find("cseq")
  <2>1. Find("cseq") \in 0 .. MaxRequests
    BY FindType
  <2>2. rtsp_cseq' = IF Find("cseq") # 0 THEN Find("cseq") ELSE rtsp_cseq
    BY <1>1 DEF RTSP_validate_method
  <2>3. QED
    BY <1>0, <2>1, <2>2
<1>5. \/ out_buffer' = out_buffer
      \/ /\ Len(out_buffer) < OUT_BUFFERSIZE
         /\ out_buffer' = Append(out_buffer, [req |-> n, cseq |-> rtsp_cseq'])
  BY <1>1 DEF bwrite
<1>6. out_buffer' \in Seq(Replies) /\ Len(out_buffer') <= OUT_BUFFERSIZE
  <2> DEFINE e == [req |-> n, cseq |-> rtsp_cseq']
  <2>1. e \in Replies
    BY <1>4 DEF Replies
  <2> HIDE DEF e
  <2>2. Len(out_buffer) \in Nat
    BY <1>0
  <2>3. Append(out_buffer, e) \in Seq(Replies) /\ Len(Append(out_buffer, e)) = Len(out_buffer) + 1
    BY <1>0, <2>1
  <2>4. CASE out_buffer' = out_buffer
    BY <1>0, <2>4
  <2>5. CASE Len(out_buffer) < OUT_BUFFERSIZE /\ out_buffer' = Append(out_buffer, e)
    BY <1>0, <2>2, <2>3, <2>5
  <2>6. QED
    BY <1>5, <2>4, <2>5 DEF e
<1>7. QED
  BY <1>2, <1>3, <1>4, <1>5, <1>6

\* The reply to the next request goes behind those to the ones before.
LEMMA OneMore ==
  ASSUME NEW s \in Seq(Replies), NEW r \in Nat, NEW n \in Requests, r < n, Replied(s, r),
         NEW e \in Replies, e.req = n, kind[n] \in {"plain", "session", "body"} => e.cseq = n
  PROVE  Replied(s, n) /\ Replied(Append(s, e), n)
<1> DEFINE t == Append(s, e)
<1>0. n \in Nat /\ \A x \in Requests : x \in Nat
  BY FramingAssumption DEF Requests
<1>1. PICK m \in Nat : m = Len(s) /\ DOMAIN s = 1 .. m /\ DOMAIN t = 1 .. m + 1
  <2>1. Len(s) \in Nat /\ DOMAIN s = 1 .. Len(s) /\ DOMAIN t = 1 .. Len(s) + 1
    OBVIOUS
  <2>2. QED
    BY <2>1
<1>2. /\ \A k \in 1 .. m : t[k] = s[k] /\ s[k].req \in Requests
      /\ t[m + 1] = e
  <2>1. \A k \in 1 .. m : t[k] = s[k] /\ s[k] \in Replies
    BY <1>1
  <2>2. t[m + 1] = e
    BY <1>1
  <2>3. QED
    BY <2>1, <2>2 DEF Replies
<1> HIDE DEF t
<1>3. \A k \in 1 .. m : s[k].req <= r /\ s[k].req < n /\ s[k].req <= n
  <2>1. \A k \in 1 .. m : s[k].req <= r /\ s[k].req \in Nat
    BY <1>0, <1>1, <1>2 DEF Replied
  <2>2. QED
    BY <1>0, <2>1
<1>4. \A k \in 1 .. m + 1 : k \in 1 .. m \/ k = m + 1
  BY <1>1
<1>5. Replied(s, n)
  BY <1>1, <1>3 DEF Replied
<1>6. \A k \in DOMAIN t : t[k].req <= n
  BY <1>0, <1>1, <1>2, <1>3, <1>4
<1>7. ASSUME NEW j \in DOMAIN t, NEW k \in DOMAIN t, j < k PROVE t[j].req < t[k].req
  <2>1. j \in 1 .. m
    BY <1>1, <1>7
  <2>2. CASE k \in 1 .. m
    BY <1>1, <1>2, <1>7, <2>1, <2>2 DEF Replied
  <2>3. CASE k = m + 1
    BY <1>2, <1>3, <2>1, <2>3
  <2>4. QED
    BY <1>1, <1>4, <2>2, <2>3
<1>8. ASSUME NEW k \in DOMAIN t, kind[t[k].req] \in {"plain", "session", "body"}
      PROVE  t[k].cseq = t[k].req
  <2>1. CASE k \in 1 .. m
    BY <1>1, <1>2, <1>8, <2>1 DEF Replied
  <2>2. CASE k = m + 1
    BY <1>2, <1>8, <2>2
  <2>3. QED
    BY <1>1, <1>4, <2>1, <2>2
<1>9. Replied(t, n)
  BY <1>6, <1>7, <1>8 DEF Replied
<1>10. QED
  BY <1>5, <1>9 DEF t

\* A reply that is appended to out_buffer is behind all that were written.
LEMMA AppendBehind ==
  ASSUME NEW s \in Seq(Replies), NEW t \in Seq(Replies), NEW e \in Replies
  PROVE  s \o Append(t, e) = Append(s \o t, e) /\ s \o t \in Seq(Replies)
OBVIOUS

\* The request behind r is answered: the replies go on in order when it is
\* there, but for its last line end at most.
LEMMA Answered ==
  ASSUME TypeOK, Window, Handle, NEW r \in 0 .. MaxRequests, Gone = EndOf(r), in_size > 0,
         in_size >= Len(Parts(kind[r + 1])) - 1, ~OnCutRequest, RepliedUpTo(r)
  PROVE  RepliedUpTo(r + 1)'
<1>1. PICK n \in Requests : n = r + 1 /\ in_buffer[1].req = n
  BY FrontOf
<1>2. r \in Nat /\ r < n
  BY <1>1
<1>3. /\ rtsp_cseq' \in 0 .. MaxRequests
      /\ kind[n] \in {"plain", "session", "body"} => rtsp_cseq' = n
      /\ \/ out_buffer' = out_buffer
         \/ out_buffer' = Append(out_buffer, [req |-> n, cseq |-> rtsp_cseq'])
  <2>1. n \in Nat /\ n # 0
    BY <1>1, <1>2
  <2>2. kind[n] \in {"plain", "session", "body"} => Find("cseq") = n
    BY <1>1, OwnHeadersFound
  <2>3. QED
    BY <1>1, <2>1, <2>2, AnswerIs
<1>4. kind' = kind /\ replied' = replied
  BY DEF Handle, client
<1> DEFINE s == replied \o out_buffer
           e == [req |-> n, cseq |-> rtsp_cseq']
<1>5. e \in Replies /\ e.req = n /\ e.cseq = rtsp_cseq'
  BY <1>3 DEF Replies
<1>6. replied \in Seq(Replies) /\ out_buffer \in Seq(Replies) /\ s \in Seq(Replies)
  BY DEF TypeOK
<1>7. Replied(replied, r) /\ Replied(s, r)
  BY DEF RepliedUpTo
<1> HIDE DEF s, e
<1>8. Replied(replied, n) /\ Replied(s, n) /\ Replied(Append(s, e), n)
  BY <1>2, <1>3, <1>5, <1>6, <1>7, OneMore
<1>9. replied' \o out_buffer' = s \/ replied' \o out_buffer' = Append(s, e)
  <2>1. replied \o Append(out_buffer, e) = Append(s, e)
    BY <1>5, <1>6, AppendBehind DEF s
  <2>2. QED
    BY <1>3, <1>4, <2>1 DEF s, e
<1>10. Replied(replied', n) /\ Replied(replied' \o out_buffer', n)
  BY <1>4, <1>8, <1>9
<1>11. Replied(replied, n)' /\ Replied(replied \o out_buffer, n)'
  BY <1>4, <1>10 DEF Replied
<1>12. RepliedUpTo(n)'
  BY <1>11 DEF RepliedUpTo
<1>13. QED
  BY <1>1, <1>12

\* The handler goes round with a request at the front.
LEMMA HandleStart ==
  ASSUME TypeOK, Window, Handle, NEW r \in 0 .. MaxRequests, AtStart(r)
  PROVE  Inv'
<1>0. /\ RTSP_BUFFERSIZE \in Nat /\ in_size \in 1 .. RTSP_BUFFERSIZE /\ in_size > 0
      /\ in_size \in Nat /\ pos \in Nat
  BY BufferType DEF Handle
<1>1. /\ pc = "handle" /\ kind' = kind /\ pos' = pos /\ replied' = replied
      /\ RTSP_discard_msg
  BY DEF Handle, client
<1>2. Gone = EndOf(r) /\ HandledUpTo(r + 1) /\ RepliedUpTo(r)
  BY DEF AtStart
<1>3. PICK n \in Requests : n = r + 1 /\ n - 1 = r /\ in_buffer[1].req = n
  BY <1>0, <1>2, FrontOf
<1>4. PICK m \in Nat : /\ m = Len(Parts(kind[n])) /\ m >= 5
                       /\ EndOf(n) = EndOf(r) + m /\ EndOf(n) \in Nat /\ EndOf(r) \in Nat
                       /\ n \in 0 .. MaxRequests /\ n \in Nat /\ r \in Nat
  BY <1>3, EndAfter DEF TypeOK
<1>5. Stream' = Stream /\ (\A x : EndOf(x)' = EndOf(x))
  BY <1>1, SameStream
<1>6. /\ times' \in [Requests -> 0 .. 2] /\ times'[n] > 0 /\ (times[n] = 0 => times'[n] = 1)
      /\ session' \in [Requests -> 0 .. MaxRequests] /\ session'[n] = Find("session")
      /\ \A x \in Requests : x # n => times'[x] = times[x] /\ session'[x] = session[x]
      /\ rtsp_cseq' \in 0 .. MaxRequests
      /\ out_buffer' \in Seq(Replies) /\ Len(out_buffer') <= OUT_BUFFERSIZE
  BY <1>3, AnswerIs
<1>7. \A x \in Requests : x \in Nat
  BY FramingAssumption DEF Requests
<1>8. ASSUME in_size' \in 0 .. RTSP_BUFFERSIZE,
             in_buffer' \in [1 .. RTSP_BUFFERSIZE ->
                                {Nul} \cup {Stream[p] : p \in DOMAIN Stream}],
             pc' \in {"handle", "wild"}
      PROVE  TypeOK'
  BY <1>1, <1>5, <1>6, <1>8 DEF TypeOK
<1>9. \A x \in Requests :
          /\ x < n => times'[x] = 1 /\ (kind[x] = "session" => session'[x] = x)
          /\ x > n => times'[x] = 0
  BY <1>2, <1>3, <1>4, <1>6, <1>7 DEF HandledUpTo
<1>10. HandledUpTo(n)'
  BY <1>1, <1>9 DEF HandledUpTo
<1>11. ASSUME Whole, in_size >= m - 1
       PROVE  /\ ~OnCutRequest /\ times'[n] = 1 /\ RepliedUpTo(n)'
              /\ kind[n] = "session" => session'[n] = n
  <2>1. ~OnCutRequest
    BY <1>1, <1>11 DEF OnCutRequest
  <2>2. times[n] = 0
    <3>1. times[n] \in 0 .. 2 /\ ~(times[n] > 0)
      BY <1>3, <2>1 DEF AtStart, TypeOK
    <3>2. QED
      BY <3>1
  <2>3. in_size >= Len(Parts(kind[r + 1])) - 1
    BY <1>3, <1>4, <1>11
  <2>4. RepliedUpTo(r + 1)'
    BY <1>0, <1>2, <2>1, <2>3, Answered
  <2>5. kind[r + 1] = "session" => Find("session") = r + 1
    BY <1>0, <1>2, <2>3, OwnHeadersFound
  <2>6. QED
    BY <1>3, <1>6, <2>1, <2>2, <2>4, <2>5
<1>12. CASE /\ Whole /\ in_size >= m /\ in_size' = in_size - m /\ pc' = pc
            /\ in_buffer' \in [1 .. RTSP_BUFFERSIZE ->
                                  {Nul} \cup {Stream[p] : p \in DOMAIN Stream}]
            /\ \A q \in 1 .. in_size' : in_buffer'[q] = in_buffer[q + m]
  <2>1. in_size' \in 0 .. RTSP_BUFFERSIZE /\ in_size >= m - 1 /\ in_size' \in Nat
    BY <1>0, <1>4, <1>12
  <2>2. TypeOK'
    BY <1>1, <1>8, <1>12, <2>1
  <2>3. Gone' = EndOf(n) /\ Gone' = Gone + m /\ Gone \in Int
    BY <1>0, <1>1, <1>2, <1>4, <1>12 DEF Gone
  <2>4. Window'
    <3>1. ASSUME NEW q \in 1 .. in_size' PROVE in_buffer'[q] = Stream[Gone' + q]
      <4>1. q + m \in 1 .. in_size /\ Gone + (q + m) = Gone' + q
        BY <1>0, <1>4, <1>12, <2>1, <2>3
      <4>2. in_buffer[q + m] = Stream[Gone + (q + m)]
        BY <4>1 DEF Window
      <4>3. QED
        BY <1>12, <4>1, <4>2
    <3>2. in_size' <= pos'
      <4>1. in_size <= pos
        BY DEF Window
      <4>2. QED
        BY <1>0, <1>1, <1>4, <1>12, <4>1
    <3>3. QED
      BY <1>1, <1>5, <1>12, <3>1, <3>2 DEF Window
  <2>5. HandledUpTo(n + 1)'
    <3>1. \A x \in Requests : (x < n + 1 => x < n \/ x = n) /\ (x > n + 1 => x > n)
      BY <1>4, <1>7
    <3>2. times'[n] = 1 /\ (kind[n] = "session" => session'[n] = n)
      BY <1>11, <1>12, <2>1
    <3>3. QED
      BY <1>1, <1>9, <3>1, <3>2 DEF HandledUpTo
  <2>6. ~(n + 1 \in Requests /\ times'[n + 1] > 0)
    <3>1. n + 1 > n
      BY <1>4
    <3>2. n + 1 \in Requests => times'[n + 1] = 0
      BY <1>9, <3>1
    <3>3. QED
      BY <3>2
  <2>7. RepliedUpTo(n)' /\ pc' # "wild"
    BY <1>1, <1>11, <1>12, <2>1
  <2>8. AtStart(n)'
    BY <1>5, <2>3, <2>5, <2>6, <2>7 DEF AtStart
  <2>9. QED
    BY <1>4, <2>2, <2>4, <2>8 DEF Inv
<1>13. CASE /\ Whole /\ in_size = m - 1 /\ kind[n] \in Headers
            /\ in_size' = 0 /\ in_buffer' = in_buffer /\ pc' = pc
  <2>1. in_size' \in 0 .. RTSP_BUFFERSIZE /\ in_size >= m - 1
    BY <1>0, <1>4, <1>13
  <2>2. TypeOK'
    BY <1>1, <1>8, <1>13, <2>1 DEF TypeOK
  <2>3. Gone' = EndOf(n) - 1
    BY <1>0, <1>1, <1>2, <1>4, <1>13 DEF Gone
  <2>4. Window'
    BY <1>0, <1>1, <1>13 DEF Window
  <2>5. /\ times'[n] = 1 /\ RepliedUpTo(n)' /\ pc' # "wild"
        /\ kind[n] = "session" => session'[n] = n
    BY <1>1, <1>11, <1>13, <2>1
  <2>6. AtEnd(n)'
    BY <1>1, <1>5, <1>10, <1>13, <2>3, <2>5 DEF AtEnd
  <2>7. QED
    BY <2>2, <2>4, <2>6 DEF Inv
<1>14. CASE /\ in_size < m /\ UNCHANGED <<in_buffer, in_size>>
            /\ (Whole /\ pc' = "wild") \/ (~Whole /\ pc' = pc)
  <2>1. TypeOK'
    BY <1>0, <1>1, <1>8, <1>14 DEF TypeOK
  <2>2. Gone' = Gone
    BY <1>1, <1>14 DEF Gone
  <2>3. Window'
    BY <1>0, <1>1, <1>5, <1>14, <2>2 DEF Window
  <2>4. pos < EndOf(n)
    BY <1>0, <1>2, <1>4, <1>14 DEF Gone
  <2>5. OnCutRequest'
    <3>1. CASE pc' = "wild"
      BY <3>1 DEF OnCutRequest
    <3>2. CASE ~Whole /\ pc' = pc
      <4>1. ~Whole' /\ in_size' > 0
        BY <1>0, <1>14, <3>2 DEF Whole, AtFront
      <4>2. QED
        BY <1>1, <3>2, <4>1 DEF OnCutRequest
    <3>3. QED
      BY <1>14, <3>1, <3>2
  <2>6. RepliedUpTo(r)'
    <3>1. Replied(replied, r)
      BY <1>2 DEF RepliedUpTo
    <3>2. Replied(replied, r)'
      BY <1>1, <3>1 DEF Replied
    <3>3. QED
      BY <2>5, <3>2 DEF RepliedUpTo
  <2>7. AtStart(r)'
    BY <1>1, <1>2, <1>3, <1>5, <1>10, <2>2, <2>4, <2>5, <2>6 DEF AtStart
  <2>8. QED
    BY <2>1, <2>3, <2>7 DEF Inv
<1>15. QED
  <2>1. m = Len(Parts(kind[r + 1])) /\ kind[n] = kind[r + 1]
    BY <1>3, <1>4
  <2>2. \/ /\ Whole /\ in_size >= m /\ in_size' = in_size - m /\ pc' = pc
           /\ in_buffer' \in [1 .. RTSP_BUFFERSIZE ->
                                 {Nul} \cup {Stream[p] : p \in DOMAIN Stream}]
           /\ \A q \in 1 .. in_size' : in_buffer'[q] = in_buffer[q + m]
        \/ /\ Whole /\ in_size = m - 1 /\ kind[r + 1] \in Headers
           /\ in_size' = 0 /\ in_buffer' = in_buffer /\ pc' = pc
        \/ Whole /\ in_size < m /\ pc' = "wild" /\ UNCHANGED <<in_buffer, in_size>>
        \/ ~Whole /\ in_size < m /\ UNCHANGED <<in_buffer, in_size, pc>>
    BY <1>0, <1>1, <1>2, <1>4, <2>1, DiscardIs
  <2>3. QED
    BY <1>12, <1>13, <1>14, <2>1, <2>2

\* The handler goes round on the line end that it left of the request r.
LEMMA HandleEnd ==
  ASSUME TypeOK, Window, Handle, NEW r \in Requests, AtEnd(r)
  PROVE  Inv'
<1>0. in_size \in Nat /\ in_size > 0 /\ in_size # 0
  BY BufferType DEF Handle
<1>1. /\ pc = "handle" /\ kind' = kind /\ pos' = pos /\ replied' = replied
      /\ RTSP_discard_msg
  BY DEF Handle, client
<1>2. kind[r] \in Headers /\ Gone = EndOf(r) - 1 /\ HandledUpTo(r)
  BY DEF AtEnd
<1>3. in_buffer[1].req = r /\ ~Whole
  BY <1>0, <1>2, LeftOver
<1>4. UNCHANGED <<in_buffer, in_size, pc>>
  <2>1. \/ Whole /\ RTSP_remove_msg(AtFront.len)
        \/ ~Whole /\ UNCHANGED <<input, pc>>
    BY <1>1 DEF RTSP_discard_msg, Whole
  <2>2. QED
    BY <1>3, <2>1 DEF input
<1>5. Stream' = Stream /\ (\A x : EndOf(x)' = EndOf(x))
  BY <1>1, SameStream
<1>6. /\ times' \in [Requests -> 0 .. 2] /\ times'[r] > 0
      /\ session' \in [Requests -> 0 .. MaxRequests]
      /\ \A x \in Requests : x # r => times'[x] = times[x] /\ session'[x] = session[x]
      /\ rtsp_cseq' \in 0 .. MaxRequests
      /\ out_buffer' \in Seq(Replies) /\ Len(out_buffer') <= OUT_BUFFERSIZE
  BY <1>3, AnswerIs
<1>7. TypeOK'
  BY <1>1, <1>4, <1>5, <1>6 DEF TypeOK
<1>8. Gone' = Gone
  BY <1>1, <1>4 DEF Gone
<1>9. Window'
  BY <1>1, <1>4, <1>5, <1>8 DEF Window
<1>10. HandledUpTo(r)'
  <2>1. \A x \in Requests : (x < r => x # r) /\ (x > r => x # r)
    BY FramingAssumption DEF Requests
  <2>2. QED
    BY <1>1, <1>2, <1>6, <2>1 DEF HandledUpTo
<1>11. RepliedUpTo(r)'
  <2>1. ~Whole' /\ in_size' > 0
    BY <1>0, <1>3, <1>4 DEF Whole, AtFront
  <2>2. OnCutRequest'
    BY <1>1, <1>4, <2>1 DEF OnCutRequest
  <2>3. Replied(replied, r)
    BY DEF AtEnd, RepliedUpTo
  <2>4. Replied(replied, r)'
    BY <1>1, <2>3 DEF Replied
  <2>5. QED
    BY <2>2, <2>4 DEF RepliedUpTo
<1>12. AtEnd(r)'
  BY <1>0, <1>1, <1>2, <1>4, <1>5, <1>6, <1>8, <1>10, <1>11 DEF AtEnd
<1>13. QED
  BY <1>7, <1>9, <1>12 DEF Inv

\* Every step keeps the invariant.
LEMMA InvStep == Inv /\ [Next]_vars => Inv'
<1> SUFFICES ASSUME Inv, [Next]_vars PROVE Inv'
  OBVIOUS
<1>1. TypeOK /\ Window
  BY DEF Inv
<1>2. CASE Handle
  <2>1. CASE \E r \in 0 .. MaxRequests : AtStart(r)
    BY <1>1, <1>2, <2>1, HandleStart
  <2>2. CASE \E r \in Requests : AtEnd(r)
    BY <1>1, <1>2, <2>2, HandleEnd
  <2>3. QED
    BY <2>1, <2>2 DEF Inv
<1>3. CASE Write
  BY <1>3, WriteStep
<1>4. ASSUME NEW n \in 1 .. RTSP_BUFFERSIZE, Read(n) PROVE Inv'
  BY <1>4, ReadStep
<1>5. CASE UNCHANGED vars
  <2>1. /\ UNCHANGED <<kind, pos, in_buffer, in_size, rtsp_cseq, out_buffer, replied, pc>>
        /\ UNCHANGED <<times, session>>
    BY <1>5 DEF vars, client, input, handled
  <2>2. Stream' = Stream /\ (\A x : EndOf(x)' = EndOf(x)) /\ Gone' = Gone
    BY <2>1, SameStream DEF Gone
  <2>3. TypeOK' /\ Window'
    BY <1>1, <2>1, <2>2 DEF TypeOK, Window
  <2>4. OnCutRequest' <=> OnCutRequest
    BY <2>1 DEF OnCutRequest, Whole, AtFront
  <2>5. \A x : (HandledUpTo(x) => HandledUpTo(x)') /\ (RepliedUpTo(x) => RepliedUpTo(x)')
    BY <2>1, <2>4 DEF HandledUpTo, RepliedUpTo, Replied
  <2>6. \A r \in 0 .. MaxRequests : AtStart(r) => AtStart(r)'
    BY <2>1, <2>2, <2>4, <2>5 DEF AtStart
  <2>7. \A r \in Requests : AtEnd(r) => AtEnd(r)'
    BY <2>1, <2>2, <2>5 DEF AtEnd
  <2>8. QED
    BY <2>3, <2>6, <2>7 DEF Inv
<1>6. QED
  BY <1>2, <1>3, <1>4, <1>5 DEF Next, Server

\* The invariant holds in every state of every behaviour.
THEOREM Framing == Spec => []Inv
BY InitInv, InvStep, PTL DEF Spec

-----------------------------------------------------------------------------
\* What the invariant says of the properties that are model-checked.

\* The request that the handler is caught on is in in_buffer.
LEMMA OnCutHasCells ==
  ASSUME Inv, OnCutRequest
  PROVE  in_size > 0
BY DEF Inv, Window, OnCutRequest

\* Requests are handled in order.
LEMMA OrderFromInv == Inv => HandledInOrder
<1> SUFFICES ASSUME Inv PROVE HandledInOrder
  OBVIOUS
<1>0. TypeOK /\ Window /\ \A x \in Requests : x \in Nat
  BY FramingAssumption DEF Inv, Requests
<1>1. ASSUME NEW r \in 0 .. MaxRequests, AtStart(r) PROVE HandledInOrder
  <2>0. r \in Nat
    BY FramingAssumption
  <2>1. ASSUME NEW x \in Requests, NEW y \in Requests, x < y, times[y] > 0
        PROVE  times[x] = 1
    <3>1. ~(y > r + 1)
      BY <1>1, <2>1 DEF AtStart, HandledUpTo
    <3>2. x < r + 1
      BY <1>0, <2>0, <2>1, <3>1
    <3>3. QED
      BY <1>1, <3>2 DEF AtStart, HandledUpTo
  <2>2. ASSUME NEW x \in Requests, times[x] = 2
        PROVE  OnCutRequest /\ in_buffer[1].req = x
    <3>1. ~(x < r + 1) /\ ~(x > r + 1)
      BY <1>1, <2>2 DEF AtStart, HandledUpTo
    <3>2. x = r + 1 /\ times[r + 1] > 0
      BY <1>0, <2>0, <2>2, <3>1
    <3>3. OnCutRequest
      BY <1>1, <3>2 DEF AtStart
    <3>4. in_buffer[1].req = r + 1
      BY <1>0, <1>1, <3>3, OnCutHasCells, FrontOf DEF AtStart
    <3>5. QED
      BY <3>2, <3>3, <3>4
  <2>3. QED
    BY <2>1, <2>2 DEF HandledInOrder
<1>2. ASSUME NEW r \in Requests, AtEnd(r) PROVE HandledInOrder
  <2>1. ASSUME NEW x \in Requests, NEW y \in Requests, x < y, times[y] > 0
        PROVE  times[x] = 1
    <3>1. ~(y > r)
      BY <1>2, <2>1 DEF AtEnd, HandledUpTo
    <3>2. x < r
      BY <1>0, <2>1, <3>1
    <3>3. QED
      BY <1>2, <3>2 DEF AtEnd, HandledUpTo
  <2>2. ASSUME NEW x \in Requests, times[x] = 2
        PROVE  OnCutRequest /\ in_buffer[1].req = x
    <3>1. ~(x < r) /\ ~(x > r)
      BY <1>2, <2>2 DEF AtEnd, HandledUpTo
    <3>2. x = r
      BY <1>0, <3>1
    <3>3. in_size > 0
      BY <1>2, <2>2, <3>2 DEF AtEnd
    <3>4. in_buffer[1].req = r /\ ~Whole
      BY <1>0, <1>2, <3>3, LeftOver DEF AtEnd
    <3>5. pc = "handle"
      BY <1>0, <1>2, <3>3 DEF AtEnd, TypeOK, Window
    <3>6. QED
      BY <3>2, <3>3, <3>4, <3>5 DEF OnCutRequest
  <2>3. QED
    BY <2>1, <2>2 DEF HandledInOrder
<1>3. QED
  BY <1>1, <1>2 DEF Inv

\* The replies that were written are those to a first part of the requests.
LEMMA RepliedFromInv ==
  ASSUME Inv
  PROVE  \E r : Replied(replied, r)
BY DEF Inv, AtStart, AtEnd, RepliedUpTo

\* Headers are those of the own request.
LEMMA OwnFromInv == Inv => OwnHeaders
<1> SUFFICES ASSUME Inv PROVE OwnHeaders
  OBVIOUS
<1>0. TypeOK /\ Window /\ \A x \in Requests : x \in Nat
  BY FramingAssumption DEF Inv, Requests
<1> DEFINE Own(x) == times[x] > 0 /\ kind[x] = "session" /\ EndOf(x) <= pos /\ ~OnCutRequest
                     => session[x] = x
<1>1. ASSUME NEW r \in 0 .. MaxRequests, AtStart(r), NEW x \in Requests PROVE Own(x)
  <2>0. r \in Nat
    BY FramingAssumption
  <2>1. CASE x < r + 1
    BY <1>1, <2>1 DEF AtStart, HandledUpTo
  <2>2. CASE x > r + 1
    BY <1>1, <2>2 DEF AtStart, HandledUpTo
  <2>3. CASE x = r + 1
    BY <1>1, <2>3 DEF AtStart
  <2>4. QED
    BY <1>0, <2>0, <2>1, <2>2, <2>3
<1>2. ASSUME NEW r \in Requests, AtEnd(r), NEW x \in Requests PROVE Own(x)
  <2>1. CASE x < r
    BY <1>2, <2>1 DEF AtEnd, HandledUpTo
  <2>2. CASE x > r
    BY <1>2, <2>2 DEF AtEnd, HandledUpTo
  <2>3. CASE x = r
    <3>1. CASE in_size = 0
      BY <1>2, <2>3, <3>1 DEF AtEnd
    <3>2. CASE in_size > 0
      <4>1. ~Whole
        BY <1>0, <1>2, <3>2, LeftOver DEF AtEnd
      <4>2. pc = "handle"
        BY <1>0, <1>2, <3>2 DEF AtEnd, TypeOK, Window
      <4>3. QED
        BY <3>2, <4>1, <4>2 DEF OnCutRequest
    <3>3. in_size = 0 \/ in_size > 0
      BY <1>0, BufferType
    <3>4. QED
      BY <3>1, <3>2, <3>3
  <2>4. QED
    BY <1>0, <2>1, <2>2, <2>3
<1>3. \A x \in Requests : Own(x)
  BY <1>1, <1>2 DEF Inv
<1>4. \A k \in DOMAIN replied :
          kind[replied[k].req] \in {"plain", "session", "body"} =>
              replied[k].cseq = replied[k].req
  BY RepliedFromInv DEF Replied
<1>5. QED
  BY <1>3, <1>4 DEF OwnHeaders

\* Replies are in order.
LEMMA RepliesFromInv == Inv => RepliesInOrder
BY RepliedFromInv DEF RepliesInOrder, Replied

\* Only a cut request makes in_size wrap.
LEMMA WildFromInv == Inv => WildOnlyOnCut
<1> SUFFICES ASSUME Inv, pc = "wild"
             PROVE  \E r \in Requests : pos < EndOf(r) /\ in_buffer[1].req = r
  BY DEF WildOnlyOnCut
<1>1. TypeOK /\ Window /\ in_size > 0
  BY DEF Inv, Window
<1>2. PICK r \in 0 .. MaxRequests : AtStart(r)
  BY DEF Inv, AtEnd
<1>3. r + 1 \in Requests /\ pos < EndOf(r + 1)
  BY <1>2 DEF AtStart
<1>4. in_buffer[1].req = r + 1
  BY <1>1, <1>2, FrontOf DEF AtStart
<1>5. QED
  BY <1>3, <1>4

\* Every variable keeps its type: in_size stays within in_buffer, a reply is to
\* a request that was sent, and out_buffer is never overrun.
THEOREM TypeCorrect == Spec => []TypeOK
BY Framing, PTL DEF Inv

\* However TCP cuts and joins the requests, RTSP_handler handles them in the
\* order sent, and none twice but one that it is caught on.
THEOREM RequestsInOrder == Spec => []HandledInOrder
BY Framing, OrderFromInv, PTL

\* The search of the whole buffer for a Session or CSeq header finds the one of
\* the request at the front.
THEOREM HeadersAreOwn == Spec => []OwnHeaders
BY Framing, OwnFromInv, PTL

\* tcp_write sends the replies in the order of the requests, none twice.
THEOREM RepliesAreInOrder == Spec => []RepliesInOrder
BY Framing, RepliesFromInv, PTL

\* RTSP_remove_msg takes no more than was received, unless a read ended inside
\* of the request at the front.
THEOREM WrapsOnlyOnCut == Spec => []WildOnlyOnCut
BY Framing, WildFromInv, PTL
=============================================================================
