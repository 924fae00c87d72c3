-------------------------- MODULE MetNoCacheProofs --------------------------
(***************************************************************************)
(* Proofs about MetNoCache for any processes, requests, runs and bounds.   *)
(*                                                                         *)
(* First what the streaming loop writes, by induction over its batches:    *)
(* Part says that a sequence is the forecast from one hour to another, and *)
(* ChunkIs and PartJoin that batch by batch the whole comes about, with    *)
(* the count ExpectedMessageCount computes.  Then the invariant: a cached  *)
(* file is never anything but a beginning of the forecast its entry stands *)
(* for, so that one with the right count is whole, whoever wrote it.       *)
(***************************************************************************)
EXTENDS MetNoCache, FiniteSetTheorems, NaturalsInduction, WellFoundedInduction, TLAPS

(* A set of numbers has a least one.                                       *)
LEMMA Least ==
  ASSUME NEW T, T \subseteq Nat, T # {}
  PROVE  \E m \in T : \A k \in T : m <= k
<1>1. IsWellFoundedOn(OpToRel(<, Nat), Nat)
  BY NatLessThanWellFounded
<1>2. PICK m \in T : \A k \in T : <<k, m>> \notin OpToRel(<, Nat)
  BY <1>1, WFMin
<1>3. \A k \in T : ~(k < m)
  BY <1>2 DEF OpToRel
<1>4. \A k \in T : m <= k
  <2>1. m \in Nat /\ \A k \in T : k \in Nat
    OBVIOUS
  <2>. QED  BY <1>3, <2>1
<1>. QED BY <1>4

(* What holds of 0, and of n + 1 when it holds of n, holds up to N.        *)
LEMMA Induction ==
  ASSUME NEW N \in Nat, NEW T, 0 \in T, \A n \in 0 .. N - 1 : n \in T => n + 1 \in T
  PROVE  \A n \in 0 .. N : n \in T
<1>. DEFINE U == {n \in 0 .. N : n \notin T}
<1>1. SUFFICES ASSUME U # {} PROVE FALSE
  OBVIOUS
<1>2. PICK m \in U : \A k \in U : m <= k
  <2>1. U \subseteq Nat
    OBVIOUS
  <2>. HIDE DEF U
  <2>. QED  BY <1>1, <2>1, Least
<1>3. m \in 1 .. N
  OBVIOUS
<1>4. m - 1 \in 0 .. N - 1 /\ m - 1 \notin U
  BY <1>2, <1>3
<1>5. m - 1 \in T
  BY <1>4
<1>6. m - 1 + 1 \in T
  BY <1>4, <1>5
<1>. QED  BY <1>3, <1>6

Unfolds(f, N, S, s0, D) == /\ f \in [0 .. N -> S] /\ f[0] = s0
                           /\ \A n \in 1 .. N : f[n] = D[<<n, f[n - 1]>>]

(* A function that is built up from each of its values to the next exists. *)
LEMMA Recursion ==
  ASSUME NEW N \in Nat, NEW S, NEW s0 \in S, NEW D \in [(1 .. N) \X S -> S]
  PROVE  \E f : Unfolds(f, N, S, s0, D)
<1>. DEFINE Upto(n, f) == f[0] = s0 /\ \A k \in 1 .. n : f[k] = D[<<k, f[k - 1]>>]
            T == {n \in 0 .. N : \E f \in [0 .. n -> S] : Upto(n, f)}
<1>1. 0 \in T
  <2>. DEFINE f == [n \in 0 .. 0 |-> s0]
  <2>1. f \in [0 .. 0 -> S] /\ f[0] = s0 /\ 1 .. 0 = {}
    OBVIOUS
  <2>2. Upto(0, f)
    BY <2>1
  <2>. HIDE DEF f, Upto
  <2>. QED  BY <2>1, <2>2
<1>2. ASSUME NEW n \in 0 .. N - 1, n \in T
      PROVE  n + 1 \in T
  <2>1. PICK f \in [0 .. n -> S] : Upto(n, f)
    BY <1>2
  <2>2. n + 1 \in 1 .. N /\ f[n] \in S
    OBVIOUS
  <2>. DEFINE d == D[<<n + 1, f[n]>>]
              g == [k \in 0 .. n + 1 |-> IF k = n + 1 THEN d ELSE f[k]]
  <2>3. d \in S
    BY <2>2
  <2>. HIDE DEF d
  <2>4. g \in [0 .. n + 1 -> S]
    BY <2>3
  <2>5. ASSUME NEW k \in 1 .. n + 1
        PROVE  g[k] = D[<<k, g[k - 1]>>]
    <3>1. CASE k = n + 1
      <4>1. g[k] = d /\ g[k - 1] = f[n]
        BY <3>1
      <4>. HIDE DEF g
      <4>. QED  BY <3>1, <4>1 DEF d
    <3>2. CASE k # n + 1
      <4>1. k \in 1 .. n /\ k - 1 \in 0 .. n
        BY <3>2
      <4>2. g[k] = f[k] /\ g[k - 1] = f[k - 1]
        BY <4>1
      <4>. HIDE DEF g
      <4>. QED  BY <2>1, <4>1, <4>2
    <3>. QED  BY <3>1, <3>2
  <2>6. g[0] = s0
    BY <2>1
  <2>. HIDE DEF g
  <2>7. Upto(n + 1, g)
    BY <2>5, <2>6
  <2>. QED  BY <2>2, <2>4, <2>7
<1>3. N \in T
  <2>. HIDE DEF T
  <2>1. \A n \in 0 .. N : n \in T
    BY <1>1, <1>2, Induction
  <2>. QED  BY <2>1
<1>. QED  BY <1>3 DEF Unfolds

(* FlattenSeq concatenates a sequence of sequences from left to right.     *)
LEMMA FlattenIs ==
  ASSUME NEW S, NEW seqs \in Seq(Seq(S)), Len(seqs) # 0
  PROVE  \E f \in [1 .. Len(seqs) -> Seq(S)] :
           /\ f[1] = seqs[1] /\ \A i \in 2 .. Len(seqs) : f[i] = f[i-1] \o seqs[i]
           /\ FlattenSeq(seqs) = f[Len(seqs)]
<1>. DEFINE L == Len(seqs)
            N == L - 1
            D == [x \in (1 .. N) \X Seq(S) |-> x[2] \o seqs[x[1] + 1]]
<1>1. L \in Nat /\ N \in Nat /\ L = N + 1
  OBVIOUS
<1>2. \A i \in 1 .. L : seqs[i] \in Seq(S)
  OBVIOUS
<1>. HIDE DEF L, N
<1>3. D \in [(1 .. N) \X Seq(S) -> Seq(S)]
  BY <1>1, <1>2
<1>4. \A n \in 1 .. N, s \in Seq(S) : D[<<n, s>>] = s \o seqs[n + 1]
  OBVIOUS
<1>. HIDE DEF D
<1>5. PICK h \in [0 .. N -> Seq(S)] : h[0] = seqs[1] /\ \A n \in 1 .. N : h[n] = D[<<n, h[n - 1]>>]
  <2>1. seqs[1] \in Seq(S)
    BY <1>1, <1>2
  <2>. DEFINE SS == Seq(S)
              s0 == seqs[1]
  <2>2. s0 \in SS
    BY <2>1
  <2>3. D \in [(1 .. N) \X SS -> SS]
    BY <1>3
  <2>4. N \in Nat
    BY <1>1
  <2>. HIDE DEF SS, s0
  <2>5. \E h : Unfolds(h, N, SS, s0, D)
    BY <2>2, <2>3, <2>4, Recursion, Zenon
  <2>. QED  BY <2>5 DEF SS, s0, Unfolds
<1>. DEFINE F(f) == [i \in 1 .. L |-> IF i = 1 THEN seqs[i] ELSE f[i-1] \o seqs[i]]
            g == [i \in 1 .. L |-> h[i - 1]]
<1>6. \A i \in 2 .. L : h[i - 1] = h[i - 2] \o seqs[i]
  <2>. TAKE i \in 2 .. L
  <2>1. i - 1 \in 1 .. N /\ i - 2 \in 0 .. N /\ i - 1 - 1 = i - 2 /\ i - 1 + 1 = i
    BY <1>1
  <2>2. h[i - 1] = D[<<i - 1, h[i - 2]>>]
    BY <1>5, <2>1
  <2>3. h[i - 2] \in Seq(S)
    BY <2>1
  <2>. QED  BY <1>4, <2>1, <2>2, <2>3
<1>7. g = F(g)
  <2>1. ASSUME NEW i \in 1 .. L
        PROVE  h[i - 1] = IF i = 1 THEN seqs[i] ELSE g[i - 1] \o seqs[i]
    <3>1. CASE i = 1
      BY <1>1, <1>5, <3>1
    <3>2. CASE i # 1
      <4>1. i \in 2 .. L /\ i - 1 \in 1 .. L /\ i - 1 - 1 = i - 2
        BY <1>1, <3>2
      <4>2. g[i - 1] = h[i - 2]
        BY <4>1
      <4>. QED  BY <1>6, <3>2, <4>1, <4>2
    <3>. QED  BY <3>1, <3>2
  <2>. QED  BY <2>1
<1>. DEFINE flatten == CHOOSE f : f = F(f)
<1>8. flatten = F(flatten)
  BY <1>7
<1>9. FlattenSeq(seqs) = flatten[L]
  BY DEF FlattenSeq, L
<1>. HIDE DEF flatten
<1>10. flatten[1] = seqs[1] /\ \A i \in 2 .. L : flatten[i] = flatten[i - 1] \o seqs[i]
  <2>1. \A i \in 1 .. L : flatten[i] = IF i = 1 THEN seqs[i] ELSE flatten[i - 1] \o seqs[i]
    BY <1>8
  <2>2. 1 \in 1 .. L /\ \A i \in 2 .. L : i \in 1 .. L /\ i # 1
    BY <1>1
  <2>. QED  BY <2>1, <2>2
<1>11. flatten \in [1 .. L -> Seq(S)]
  <2>. DEFINE T == {n \in 0 .. N : flatten[n + 1] \in Seq(S)}
  <2>1. 0 \in T
    BY <1>1, <1>2, <1>10
  <2>2. ASSUME NEW n \in 0 .. N - 1, n \in T
        PROVE  n + 1 \in T
    <3>. DEFINE i == n + 1 + 1
    <3>1. n + 1 \in 0 .. N /\ i \in 2 .. L /\ i \in 1 .. L /\ i - 1 = n + 1
      BY <1>1
    <3>. HIDE DEF i
    <3>2. flatten[i] = flatten[n + 1] \o seqs[i]
      BY <1>10, <3>1
    <3>3. flatten[n + 1] \in Seq(S) /\ seqs[i] \in Seq(S)
      BY <1>2, <2>2, <3>1
    <3>4. flatten[i] \in Seq(S)
      BY <3>2, <3>3
    <3>. QED  BY <3>1, <3>4 DEF i
  <2>3. \A n \in 0 .. N : n \in T
    <3>. HIDE DEF T
    <3>. QED  BY <1>1, <2>1, <2>2, Induction
  <2>4. \A i \in 1 .. L : flatten[i] \in Seq(S)
    <3>. TAKE i \in 1 .. L
    <3>1. i - 1 \in 0 .. N /\ i - 1 + 1 = i
      BY <1>1
    <3>. QED  BY <2>3, <3>1
  <2>. QED  BY <1>8, <2>4
<1>. QED  BY <1>9, <1>10, <1>11 DEF L

(* MetNoForecastHours begins with the analysis hour and ascends.           *)
LEMMA HoursAre ==
  ASSUME NEW r \in Requests
  PROVE  /\ MetNoForecastHours(r) \in Seq(Nat) /\ Len(MetNoForecastHours(r)) \in Nat \ {0}
         /\ MetNoForecastHours(r)[1] = 0
         /\ \A i \in 1 .. Len(MetNoForecastHours(r)) - 1 :
              MetNoForecastHours(r)[i] < MetNoForecastHours(r)[i + 1]
<1>. DEFINE n == r.hours \div r.step
<1>1. r.hours \in Nat /\ r.step \in Nat \ {0}
  BY RequestsAssumption
<1>2. n \in Nat
  BY <1>1
<1>. HIDE DEF n
<1>3. \A i \in 1 .. n + 1 : (i - 1) * r.step \in Nat
  BY <1>1
<1>4. MetNoForecastHours(r) = [i \in 1 .. n + 1 |-> (i - 1) * r.step]
  BY DEF MetNoForecastHours, n
<1>5. MetNoForecastHours(r) \in Seq(Nat) /\ Len(MetNoForecastHours(r)) = n + 1
  BY <1>2, <1>3, <1>4
<1>6. MetNoForecastHours(r)[1] = 0
  BY <1>1, <1>2, <1>4
<1>7. ASSUME NEW i \in 1 .. n
      PROVE  (i - 1) * r.step < (i + 1 - 1) * r.step
  BY <1>1, <1>2
<1>. QED  BY <1>2, <1>4, <1>5, <1>6, <1>7

(* w holds each member of S once, in n places.                             *)
Lists(w, S, n) == /\ n \in Nat /\ w \in [1 .. n -> S]
                  /\ \A i, j \in 1 .. n : w[i] = w[j] => i = j
                  /\ \A s \in S : \E i \in 1 .. n : w[i] = s

(* Such a w is a sequence.                                                 *)
LEMMA ListsIsSeq ==
  ASSUME NEW S, NEW w, NEW n, Lists(w, S, n)
  PROVE  w \in Seq(S) /\ Len(w) = n /\ DOMAIN w = 1 .. n /\ n \in Nat
BY DEF Lists

Follows(u, v, w, m, n) == /\ \A i \in 1 .. m : u[i] = v[i]
                          /\ \A i \in m + 1 .. m + n : u[i] = w[i - m]

(* Two lists without a common member make one.                             *)
LEMMA ListsJoin ==
  ASSUME NEW S, NEW T, NEW v, NEW w, NEW m, NEW n,
         Lists(v, S, m), Lists(w, T, n), S \cap T = {}
  PROVE  /\ Lists(v \o w, S \cup T, m + n)
         /\ Follows(v \o w, v, w, m, n)
<1>. DEFINE u == v \o w
<1>1. v \in Seq(S \cup T) /\ w \in Seq(S \cup T) /\ Len(v) = m /\ Len(w) = n /\ m \in Nat /\ n \in Nat
  <2>1. v \in Seq(S) /\ Len(v) = m /\ m \in Nat
    <3>1. Lists(v, S, m)
      OBVIOUS
    <3>. QED  BY <3>1, ListsIsSeq
  <2>2. w \in Seq(T) /\ Len(w) = n /\ n \in Nat
    <3>1. Lists(w, T, n)
      OBVIOUS
    <3>. QED  BY <3>1, ListsIsSeq
  <2>. QED  BY <2>1, <2>2
<1>2. u \in Seq(S \cup T) /\ Len(u) = m + n
  BY <1>1
<1>3. \A i \in 1 .. m : u[i] = v[i]
  BY <1>1
<1>4. \A i \in m + 1 .. m + n : u[i] = w[i - m]
  BY <1>1
<1>. HIDE DEF u
<1>5. u \in [1 .. m + n -> S \cup T]
  BY <1>2
<1>6. \A i \in 1 .. m : u[i] \in S
  BY <1>3 DEF Lists
<1>7. \A i \in m + 1 .. m + n : i - m \in 1 .. n /\ u[i] \in T
  BY <1>1, <1>4 DEF Lists
<1>8. ASSUME NEW i \in 1 .. m + n, NEW j \in 1 .. m + n, u[i] = u[j]
      PROVE  i = j
  <2>1. CASE i \in 1 .. m /\ j \in 1 .. m
    BY <1>3, <1>8, <2>1 DEF Lists
  <2>2. CASE i \in m + 1 .. m + n /\ j \in m + 1 .. m + n
    <3>1. w[i - m] = w[j - m]
      BY <1>4, <1>8, <2>2
    <3>2. i - m = j - m
      BY <1>7, <2>2, <3>1 DEF Lists
    <3>. QED  BY <1>1, <3>2
  <2>3. CASE i \in 1 .. m /\ j \in m + 1 .. m + n
    BY <1>6, <1>7, <1>8, <2>3
  <2>4. CASE j \in 1 .. m /\ i \in m + 1 .. m + n
    BY <1>6, <1>7, <1>8, <2>4
  <2>. QED  BY <1>1, <2>1, <2>2, <2>3, <2>4
<1>9. ASSUME NEW s \in S \cup T
      PROVE  \E i \in 1 .. m + n : u[i] = s
  <2>1. CASE s \in S
    <3>1. PICK i \in 1 .. m : v[i] = s
      BY <2>1 DEF Lists
    <3>. QED  BY <1>1, <1>3, <3>1
  <2>2. CASE s \in T
    <3>1. PICK i \in 1 .. n : w[i] = s
      BY <2>2 DEF Lists
    <3>. DEFINE j == i + m
    <3>2. j \in m + 1 .. m + n /\ j - m = i /\ j \in 1 .. m + n
      BY <1>1
    <3>. HIDE DEF j
    <3>3. u[j] = s
      BY <1>4, <3>1, <3>2
    <3>. QED  BY <3>2, <3>3
  <2>. QED  BY <2>1, <2>2
<1>10. m + n \in Nat
  BY <1>1
<1>11. Lists(u, S \cup T, m + n)
  BY <1>5, <1>8, <1>9, <1>10 DEF Lists
<1>. QED  BY <1>3, <1>4, <1>11 DEF u, Follows

(* The list a condition selects.                                           *)
LEMMA ListsIf ==
  ASSUME NEW S, NEW w, NEW n, NEW P \in BOOLEAN, Lists(w, S, n)
  PROVE  Lists(IF P THEN w ELSE << >>, IF P THEN S ELSE {}, IF P THEN n ELSE 0)
<1>1. CASE P
  BY <1>1
<1>2. CASE ~P
  BY <1>2 DEF Lists
<1>. QED  BY <1>1, <1>2

FieldSet(r, hour) ==
  (({"10u", "10v"} \cup IF r.preset # "minimal" THEN {"prmsl", "2t"} ELSE {})
   \cup IF r.preset \in {"marine", "all"}
        THEN {"gust", "tcc"} \cup IF hour > 0 THEN {"tp"} ELSE {} ELSE {})
  \cup IF r.preset = "all" THEN {"r"} ELSE {}

FieldCount(r, hour) ==
  2 + (IF r.preset # "minimal" THEN 2 ELSE 0)
  + (IF r.preset \in {"marine", "all"} THEN 2 + (IF hour > 0 THEN 1 ELSE 0) ELSE 0)
  + (IF r.preset = "all" THEN 1 ELSE 0)

(* append adds each field of the preset once.                              *)
LEMMA FieldsAre ==
  ASSUME NEW r \in Requests, NEW hour \in Nat
  PROVE  Lists(FieldsAt(r, hour), FieldSet(r, hour), FieldCount(r, hour))
<1>. DEFINE some == r.preset # "minimal"
            most == r.preset \in {"marine", "all"}
            all  == r.preset = "all"
            rain == IF hour > 0 THEN <<"tp">> ELSE << >>
            wide == IF most THEN <<"gust", "tcc">> \o rain ELSE << >>
            pair == IF some THEN <<"prmsl", "2t">> ELSE << >>
            last == IF all THEN <<"r">> ELSE << >>
            Rain == IF hour > 0 THEN {"tp"} ELSE {}
            Wide == IF most THEN {"gust", "tcc"} \cup Rain ELSE {}
            Pair == IF some THEN {"prmsl", "2t"} ELSE {}
            Wet == IF all THEN {"r"} ELSE {}
            rains == IF hour > 0 THEN 1 ELSE 0
            wides == IF most THEN 2 + rains ELSE 0
            pairs == IF some THEN 2 ELSE 0
            lasts == IF all THEN 1 ELSE 0
<1>1. Lists(<<"10u", "10v">>, {"10u", "10v"}, 2)
  BY DEF Lists
<1>2. Lists(pair, Pair, pairs)
  <2>1. Lists(<<"prmsl", "2t">>, {"prmsl", "2t"}, 2)
    BY DEF Lists
  <2>. QED  BY <2>1, ListsIf
<1>3. Lists(rain, Rain, rains)
  <2>1. Lists(<<"tp">>, {"tp"}, 1)
    BY DEF Lists
  <2>. QED  BY <2>1, ListsIf
<1>4. Lists(wide, Wide, wides)
  <2>1. Lists(<<"gust", "tcc">>, {"gust", "tcc"}, 2)
    BY DEF Lists
  <2>2. {"gust", "tcc"} \cap Rain = {}
    OBVIOUS
  <2>. HIDE DEF rain, Rain, rains
  <2>3. Lists(<<"gust", "tcc">> \o rain, {"gust", "tcc"} \cup Rain, 2 + rains)
    BY <1>3, <2>1, <2>2, ListsJoin
  <2>. DEFINE w == <<"gust", "tcc">> \o rain
              S == {"gust", "tcc"} \cup Rain
              n == 2 + rains
  <2>. HIDE DEF w, S, n
  <2>4. Lists(w, S, n)
    BY <2>3 DEF w, S, n
  <2>5. most \in BOOLEAN
    OBVIOUS
  <2>. HIDE DEF most
  <2>6. Lists(IF most THEN w ELSE << >>, IF most THEN S ELSE {}, IF most THEN n ELSE 0)
    BY <2>4, <2>5, ListsIf
  <2>. QED  BY <2>6 DEF w, S, n
<1>5. Lists(last, Wet, lasts)
  <2>1. Lists(<<"r">>, {"r"}, 1)
    BY DEF Lists
  <2>. QED  BY <2>1, ListsIf
<1>6. /\ {"10u", "10v"} \cap Pair = {} /\ ({"10u", "10v"} \cup Pair) \cap Wide = {}
      /\ (({"10u", "10v"} \cup Pair) \cup Wide) \cap Wet = {}
  OBVIOUS
<1>7. FieldSet(r, hour) = (({"10u", "10v"} \cup Pair) \cup Wide) \cup Wet
  BY DEF FieldSet
<1>8. FieldCount(r, hour) = 2 + pairs + wides + lasts
  BY DEF FieldCount
<1>9. FieldsAt(r, hour) = ((<<"10u", "10v">> \o pair) \o wide) \o last
  BY Zenon DEF FieldsAt
<1>. HIDE DEF pair, wide, last, Pair, Wide, Wet, pairs, wides, lasts
<1>10. Lists(<<"10u", "10v">> \o pair, {"10u", "10v"} \cup Pair, 2 + pairs)
  BY <1>1, <1>2, <1>6, ListsJoin
<1>11. Lists((<<"10u", "10v">> \o pair) \o wide, ({"10u", "10v"} \cup Pair) \cup Wide, 2 + pairs + wides)
  BY <1>4, <1>6, <1>10, ListsJoin
<1>12. Lists(((<<"10u", "10v">> \o pair) \o wide) \o last,
             (({"10u", "10v"} \cup Pair) \cup Wide) \cup Wet, 2 + pairs + wides + lasts)
  BY <1>5, <1>6, <1>11, ListsJoin
<1>. QED  BY <1>7, <1>8, <1>9, <1>12
-----------------------------------------------------------------------------
Hours(r) == MetNoForecastHours(r)
AllFields == {"10u", "10v", "prmsl", "2t", "gust", "tcc", "tp", "r"}
Message == Nat \X AllFields
MessageSet(r, hour) == {hour} \X FieldSet(r, hour)

(* Messages of the first b hours.                                          *)
Count(r, b) ==
  2 * b + (IF r.preset # "minimal" THEN 2 * b ELSE 0)
  + (IF r.preset \in {"marine", "all"} THEN 2 * b + (IF b = 0 THEN 0 ELSE b - 1) ELSE 0)
  + (IF r.preset = "all" THEN b ELSE 0)

MessagesOf(r, a, b) == UNION {MessageSet(r, Hours(r)[i]) : i \in a + 1 .. b}

(* w is the forecast from the hour after the first a to the b-th.          *)
Part(w, r, a, b) ==
  /\ Lists(w, MessagesOf(r, a, b), Count(r, b) - Count(r, a))
  /\ \A i, j \in DOMAIN w : i <= j => w[i][1] <= w[j][1]

(* Later hours are greater.                                                *)
LEMMA Ascends ==
  ASSUME NEW r \in Requests, NEW i \in DOMAIN Hours(r), NEW j \in DOMAIN Hours(r), i < j
  PROVE  Hours(r)[i] < Hours(r)[j]
<1>. DEFINE n == r.hours \div r.step
            s == r.step
            a == i - 1
            b == j - 1
<1>1. r.hours \in Nat /\ s \in Nat \ {0}
  BY RequestsAssumption
<1>2. n \in Nat
  BY <1>1
<1>. HIDE DEF n
<1>3. Hours(r) = [k \in 1 .. n + 1 |-> (k - 1) * s]
  BY DEF Hours, MetNoForecastHours, n
<1>4. Hours(r)[i] = a * s /\ Hours(r)[j] = b * s /\ a \in Nat /\ b \in Nat /\ a < b
  BY <1>2, <1>3
<1>. HIDE DEF a, b, s
<1>5. a * s < b * s
  BY <1>1, <1>4
<1>. QED  BY <1>4, <1>5

(* The messages of one hour are its part of the forecast.                  *)
LEMMA OneHour ==
  ASSUME NEW r \in Requests, NEW i \in DOMAIN Hours(r)
  PROVE  Part(MessagesAt(r, Hours(r)[i]), r, i - 1, i)
<1>. DEFINE hour == Hours(r)[i]
            w == MessagesAt(r, hour)
            n == FieldCount(r, hour)
            F == FieldsAt(r, hour)
            S == FieldSet(r, hour)
<1>1. /\ hour \in Nat /\ i \in Nat \ {0} /\ Hours(r)[1] = 0 /\ 1 \in DOMAIN Hours(r)
      /\ DOMAIN Hours(r) = 1 .. Len(Hours(r)) /\ Len(Hours(r)) \in Nat
  BY HoursAre DEF Hours
<1>2. hour > 0 <=> i > 1
  <2>1. CASE i = 1
    BY <1>1, <2>1
  <2>2. CASE i # 1
    <3>1. 1 < i
      BY <1>1, <2>2
    <3>2. Hours(r)[1] < hour
      BY <1>1, <3>1, Ascends
    <3>. QED  BY <1>1, <3>1, <3>2
  <2>. QED  BY <2>1, <2>2
<1>3. n = Count(r, i) - Count(r, i - 1)
  BY <1>1, <1>2, RequestsAssumption DEF FieldCount, Count
<1>. HIDE DEF hour
<1>4. Lists(F, S, n)
  BY <1>1, FieldsAre
<1>. HIDE DEF n
<1>5. DOMAIN F = 1 .. n /\ w = [k \in 1 .. n |-> <<hour, F[k]>>] /\ n \in Nat
  <2>1. DOMAIN F = 1 .. n /\ n \in Nat
    BY <1>4, ListsIsSeq
  <2>. QED  BY <2>1 DEF MessagesAt
<1>. HIDE DEF F, S, w
<1>6. Lists(w, {hour} \X S, n)
  BY <1>4, <1>5 DEF Lists
<1>7. \A k, l \in DOMAIN w : w[k][1] <= w[l][1]
  BY <1>1, <1>5
<1>8. MessagesOf(r, i - 1, i) = {hour} \X S
  <2>1. i - 1 + 1 .. i = {i}
    BY <1>1
  <2>2. MessagesOf(r, i - 1, i) = UNION {MessageSet(r, Hours(r)[k]) : k \in {i}}
    BY <2>1 DEF MessagesOf
  <2>3. @ = MessageSet(r, Hours(r)[i])
    OBVIOUS
  <2>. QED  BY <2>2, <2>3 DEF MessageSet, S, hour
<1>. QED  BY <1>3, <1>6, <1>7, <1>8 DEF Part, w, hour

(* Nothing is the part between an hour and itself.                         *)
LEMMA PartEmpty ==
  ASSUME NEW r \in Requests, NEW a \in Nat
  PROVE  Part(<< >>, r, a, a)
<1>1. Count(r, a) - Count(r, a) = 0
  BY RequestsAssumption DEF Count
<1>2. MessagesOf(r, a, a) = {}
  BY DEF MessagesOf
<1>. QED  BY <1>1, <1>2 DEF Part, Lists

(* Two parts that follow each other make one.                              *)
LEMMA PartJoin ==
  ASSUME NEW r \in Requests, NEW a \in Nat, NEW b \in Nat, NEW c \in Nat,
         a <= b, b <= c, c <= Len(Hours(r)),
         NEW v, NEW w, Part(v, r, a, b), Part(w, r, b, c)
  PROVE  Part(v \o w, r, a, c)
<1>. DEFINE S == MessagesOf(r, a, b)
            T == MessagesOf(r, b, c)
            m == Count(r, b) - Count(r, a)
            n == Count(r, c) - Count(r, b)
<1>1. /\ Lists(v, S, m) /\ Lists(w, T, n)
      /\ \A i, j \in DOMAIN v : i <= j => v[i][1] <= v[j][1]
      /\ \A i, j \in DOMAIN w : i <= j => w[i][1] <= w[j][1]
  BY DEF Part
<1>2. DOMAIN Hours(r) = 1 .. Len(Hours(r)) /\ Len(Hours(r)) \in Nat /\ \A i \in DOMAIN Hours(r) : Hours(r)[i] \in Nat
  BY HoursAre DEF Hours
<1>3. \A s \in S : \E i \in a + 1 .. b : s[1] = Hours(r)[i]
  BY DEF MessagesOf, MessageSet
<1>4. \A s \in T : \E i \in b + 1 .. c : s[1] = Hours(r)[i]
  BY DEF MessagesOf, MessageSet
<1>5. \A s \in S, t \in T : s[1] < t[1]
  <2>. TAKE s \in S, t \in T
  <2>1. PICK i \in a + 1 .. b : s[1] = Hours(r)[i]
    BY <1>3
  <2>2. PICK j \in b + 1 .. c : t[1] = Hours(r)[j]
    BY <1>4
  <2>3. i \in DOMAIN Hours(r) /\ j \in DOMAIN Hours(r) /\ i < j
    BY <1>2
  <2>. QED  BY <2>1, <2>2, <2>3, Ascends
<1>6. (\A s \in S : s[1] \in Nat) /\ (\A s \in T : s[1] \in Nat)
  <2>1. \A i \in a + 1 .. b : i \in DOMAIN Hours(r)
    BY <1>2
  <2>2. \A i \in b + 1 .. c : i \in DOMAIN Hours(r)
    BY <1>2
  <2>. QED  BY <1>2, <1>3, <1>4, <2>1, <2>2
<1>7. S \cup T = MessagesOf(r, a, c)
  <2>1. a + 1 .. c = (a + 1 .. b) \cup (b + 1 .. c)
    OBVIOUS
  <2>. QED  BY <2>1 DEF MessagesOf
<1>8. m + n = Count(r, c) - Count(r, a)
  BY RequestsAssumption DEF Count
<1>. HIDE DEF S, T, m, n
<1>9. S \cap T = {}
  BY <1>5, <1>6
<1>10. /\ Lists(v \o w, S \cup T, m + n)
       /\ Follows(v \o w, v, w, m, n)
  <2>1. Lists(v, S, m)
    BY <1>1
  <2>2. Lists(w, T, n)
    BY <1>1
  <2>. QED  BY <1>9, <2>1, <2>2, ListsJoin
<1>. DEFINE u == v \o w
<1>. HIDE DEF u
<1>11. /\ Lists(u, S \cup T, m + n) /\ \A i \in 1 .. m : u[i] = v[i]
       /\ \A i \in m + 1 .. m + n : u[i] = w[i - m]
  BY <1>10 DEF u, Follows
<1>12. /\ DOMAIN v = 1 .. m /\ DOMAIN w = 1 .. n /\ DOMAIN u = 1 .. m + n /\ m \in Nat /\ n \in Nat
       /\ \A i \in 1 .. m : v[i] \in S
       /\ \A i \in 1 .. n : w[i] \in T
  BY <1>1, <1>11 DEF Lists
<1>13. ASSUME NEW i \in DOMAIN u, NEW j \in DOMAIN u, i <= j
       PROVE  u[i][1] <= u[j][1]
  <2>1. CASE i \in 1 .. m /\ j \in 1 .. m
    BY <1>1, <1>11, <1>12, <1>13, <2>1
  <2>2. CASE i \in m + 1 .. m + n /\ j \in m + 1 .. m + n
    <3>1. i - m \in DOMAIN w /\ j - m \in DOMAIN w /\ i - m <= j - m
      BY <1>12, <1>13, <2>2
    <3>. QED  BY <1>1, <1>11, <2>2, <3>1
  <2>3. CASE i \in 1 .. m /\ j \in m + 1 .. m + n
    <3>1. u[i] \in S /\ u[j] \in T
      <4>1. j - m \in 1 .. n
        BY <1>12, <2>3
      <4>. QED  BY <1>11, <1>12, <2>3, <4>1
    <3>. QED  BY <1>5, <1>6, <3>1
  <2>. QED  BY <1>12, <1>13, <2>1, <2>2, <2>3
<1>. QED  BY <1>7, <1>8, <1>11, <1>13 DEF Part, u, m, n

(* The messages of some hours are messages.                                *)
LEMMA MessagesTyped ==
  ASSUME NEW r \in Requests, NEW a \in Nat, NEW b \in Nat, b <= Len(Hours(r))
  PROVE  MessagesOf(r, a, b) \subseteq Message
<1>1. DOMAIN Hours(r) = 1 .. Len(Hours(r)) /\ Len(Hours(r)) \in Nat /\ \A i \in DOMAIN Hours(r) : Hours(r)[i] \in Nat
  BY HoursAre DEF Hours
<1>2. \A i \in a + 1 .. b : Hours(r)[i] \in Nat
  BY <1>1
<1>3. \A hour \in Nat : FieldSet(r, hour) \subseteq AllFields
  <2>. TAKE hour \in Nat
  <2>. DEFINE Rain == IF hour > 0 THEN {"tp"} ELSE {}
              Wide == IF r.preset \in {"marine", "all"} THEN {"gust", "tcc"} \cup Rain ELSE {}
              Pair == IF r.preset # "minimal" THEN {"prmsl", "2t"} ELSE {}
              Wet == IF r.preset = "all" THEN {"r"} ELSE {}
  <2>1. Rain \subseteq AllFields /\ Pair \subseteq AllFields /\ Wet \subseteq AllFields
    BY DEF AllFields
  <2>2. Wide \subseteq AllFields
    <3>. HIDE DEF Rain
    <3>. QED  BY <2>1 DEF AllFields
  <2>3. FieldSet(r, hour) = (({"10u", "10v"} \cup Pair) \cup Wide) \cup Wet
    BY DEF FieldSet
  <2>4. {"10u", "10v"} \subseteq AllFields
    BY DEF AllFields
  <2>. HIDE DEF Wide, Pair, Wet
  <2>. QED  BY <2>1, <2>2, <2>3, <2>4
<1>. QED  BY <1>2, <1>3 DEF MessagesOf, MessageSet, Message

(* A part is a sequence of as many messages as are counted.                *)
LEMMA PartIsSeq ==
  ASSUME NEW r \in Requests, NEW a \in Nat, NEW b \in Nat, b <= Len(Hours(r)),
         NEW w, Part(w, r, a, b)
  PROVE  w \in Seq(Message) /\ Len(w) = Count(r, b) - Count(r, a)
<1>1. Lists(w, MessagesOf(r, a, b), Count(r, b) - Count(r, a))
  BY DEF Part
<1>2. MessagesOf(r, a, b) \subseteq Message
  BY MessagesTyped
<1>3. w \in Seq(MessagesOf(r, a, b)) /\ Len(w) = Count(r, b) - Count(r, a)
  BY <1>1, ListsIsSeq
<1>. QED  BY <1>2, <1>3

UpTo(r, done) ==
  IF done + TimeBatchSize < Len(Hours(r)) THEN done + TimeBatchSize ELSE Len(Hours(r))

(* A batch writes its part of the forecast.                                *)
LEMMA ChunkIs ==
  ASSUME NEW r \in Requests, NEW a \in Nat, a < Len(Hours(r))
  PROVE  /\ Part(Chunk(r, a), r, a, UpTo(r, a))
         /\ UpTo(r, a) \in a + 1 .. Len(Hours(r))
<1>. DEFINE b == UpTo(r, a)
            L == b - a
            seqs == [i \in 1 .. L |-> MessagesAt(r, Hours(r)[a + i])]
<1>1. Len(Hours(r)) \in Nat /\ DOMAIN Hours(r) = 1 .. Len(Hours(r))
  BY HoursAre DEF Hours
<1>2. b \in a + 1 .. Len(Hours(r)) /\ L \in Nat \ {0}
  <2>. DEFINE n == Len(Hours(r))
  <2>1. b = IF a + TimeBatchSize < n THEN a + TimeBatchSize ELSE n
    BY DEF UpTo
  <2>2. n \in Nat /\ a < n
    BY <1>1
  <2>. HIDE DEF n, b
  <2>3. b \in a + 1 .. n /\ b \in Nat
    BY <2>1, <2>2, BoundsAssumption
  <2>4. L \in Nat \ {0}
    BY <2>2, <2>3
  <2>. QED  BY <2>3, <2>4 DEF n
<1>3. Chunk(r, a) = FlattenSeq(seqs)
  BY DEF Chunk, UpTo, Hours
<1>. HIDE DEF b
<1>4. ASSUME NEW i \in 1 .. L
      PROVE  Part(seqs[i], r, a + i - 1, a + i) /\ seqs[i] \in Seq(Message)
  <2>. DEFINE k == a + i
  <2>1. k \in DOMAIN Hours(r) /\ k \in Nat /\ k - 1 \in Nat /\ k <= Len(Hours(r))
    BY <1>1, <1>2
  <2>2. seqs[i] = MessagesAt(r, Hours(r)[k])
    OBVIOUS
  <2>. HIDE DEF seqs, k
  <2>3. Part(seqs[i], r, k - 1, k)
    BY <2>1, <2>2, OneHour
  <2>4. seqs[i] \in Seq(Message)
    BY <2>1, <2>3, PartIsSeq
  <2>. QED  BY <2>3, <2>4 DEF k
<1>5. seqs \in Seq(Seq(Message)) /\ Len(seqs) = L
  <2>1. Len(seqs) = L /\ seqs = [i \in 1 .. L |-> seqs[i]]
    BY <1>2
  <2>. HIDE DEF seqs, L
  <2>. QED  BY <1>2, <1>4, <2>1
<1>. HIDE DEF seqs
<1>6. PICK f \in [1 .. L -> Seq(Message)] :
        /\ f[1] = seqs[1] /\ \A i \in 2 .. L : f[i] = f[i - 1] \o seqs[i]
        /\ FlattenSeq(seqs) = f[L]
  <2>1. Len(seqs) # 0 /\ seqs \in Seq(Seq(Message))
    BY <1>2, <1>5
  <2>2. \E f \in [1 .. Len(seqs) -> Seq(Message)] :
           /\ f[1] = seqs[1] /\ \A i \in 2 .. Len(seqs) : f[i] = f[i-1] \o seqs[i]
           /\ FlattenSeq(seqs) = f[Len(seqs)]
    BY <2>1, FlattenIs
  <2>. QED  BY <1>5, <2>2
<1>. DEFINE N == L - 1
            T == {n \in 0 .. N : Part(f[n + 1], r, a, a + n + 1)}
<1>7. 0 \in T
  <2>1. 1 \in 1 .. L /\ a + 1 - 1 = a
    BY <1>2
  <2>2. Part(seqs[1], r, a + 1 - 1, a + 1)
    BY <1>4, <2>1
  <2>3. Part(f[1], r, a, a + 1)
    BY <1>6, <2>1, <2>2
  <2>4. 0 \in 0 .. N /\ 0 + 1 = 1 /\ a + 0 + 1 = a + 1
    BY <1>2
  <2>. HIDE DEF N
  <2>. QED  BY <2>3, <2>4
<1>8. ASSUME NEW n \in 0 .. N - 1, n \in T
      PROVE  n + 1 \in T
  <2>. DEFINE i == n + 1 + 1
              c == a + n + 1
              d == a + i
  <2>1. /\ i \in 2 .. L /\ i \in 1 .. L /\ i - 1 = n + 1 /\ n + 1 \in 0 .. N
        /\ c \in Nat /\ d \in Nat /\ a <= c /\ c <= d /\ d <= Len(Hours(r)) /\ d - 1 = c
        /\ a + (n + 1) + 1 = d
    BY <1>1, <1>2
  <2>. HIDE DEF i, c, d
  <2>2. f[i] = f[n + 1] \o seqs[i]
    BY <1>6, <2>1
  <2>3. Part(f[n + 1], r, a, c)
    BY <1>8 DEF c
  <2>4. Part(seqs[i], r, c, d)
    <3>1. a + i - 1 = c
      BY <2>1 DEF d
    <3>. QED  BY <1>4, <2>1, <3>1 DEF d
  <2>5. Part(f[n + 1] \o seqs[i], r, a, d)
    BY <2>1, <2>3, <2>4, PartJoin
  <2>6. Part(f[i], r, a, d)
    BY <2>2, <2>5
  <2>. QED  BY <2>1, <2>6 DEF i
<1>9. N \in T
  <2>1. N \in Nat
    BY <1>2
  <2>. HIDE DEF T, N
  <2>2. \A n \in 0 .. N : n \in T
    BY <1>7, <1>8, <2>1, Induction
  <2>. QED  BY <2>1, <2>2
<1>10. Part(f[L], r, a, b)
  <2>1. N + 1 = L /\ a + N + 1 = b
    BY <1>2
  <2>. QED  BY <1>9, <2>1
<1>. QED  BY <1>2, <1>3, <1>6, <1>10 DEF b

(* ExpectedMessageCount is the count of the whole forecast.                *)
LEMMA ExpectedIs ==
  ASSUME NEW r \in Requests
  PROVE  Expected(r) = Count(r, Len(Hours(r)))
<1>. DEFINE n == Len(Hours(r))
            later == ToSet(Hours(r)) \ {0}
<1>1. /\ n \in Nat \ {0} /\ DOMAIN Hours(r) = 1 .. n /\ Hours(r)[1] = 0
      /\ \A i \in 1 .. n : Hours(r)[i] \in Nat
  BY HoursAre DEF Hours
<1>2. \A i, j \in 1 .. n : i < j => Hours(r)[i] < Hours(r)[j]
  BY <1>1, Ascends
<1>. DEFINE g == [i \in 2 .. n |-> Hours(r)[i]]
<1>. HIDE DEF n
<1>3. later = {Hours(r)[i] : i \in 2 .. n}
  <2>1. \A i \in 2 .. n : Hours(r)[i] # 0
    BY <1>1, <1>2
  <2>. QED  BY <1>1, <2>1 DEF ToSet
<1>4. g \in Bijection(2 .. n, later)
  <2>1. \A i, j \in 2 .. n : i # j => Hours(r)[i] # Hours(r)[j]
    BY <1>1, <1>2
  <2>. QED  BY <1>3, <2>1 DEF Bijection, Injection, Surjection, IsInjective
<1>5. Cardinality(later) = n - 1
  <2>1. IsFiniteSet(2 .. n) /\ Cardinality(2 .. n) = n - 1
    BY <1>1, FS_Interval
  <2>. HIDE DEF later
  <2>2. ExistsBijection(2 .. n, later)
    BY <1>4 DEF ExistsBijection
  <2>. QED  BY <2>1, <2>2, FS_Bijection
<1>. QED  BY <1>1, <1>5 DEF Expected, ExpectedMessageCount, Count, Hours, n

-----------------------------------------------------------------------------
(* The invariant.                                                          *)

FileType == [messages : Seq(Message), cut : BOOLEAN, run : {-1, 0} \cup Runs]
MetaType == [key : {<< >>} \cup DOMAIN HashOf, count : Nat, bytes : Int]
Kinds == {"data", "metadata"}

SharedTypes ==
  /\ latest \in Runs /\ calls \in 0 .. MaxCalls /\ faults \in 0 .. MaxFaults
  /\ data \in [Entries -> FileType] /\ meta \in [Entries -> MetaType]
  /\ old \subseteq Entries \X Kinds

CallTypes ==
  /\ pc \in [Processes -> Labels]
  /\ request \in [Processes -> Requests] /\ reference \in [Processes -> Runs]
  /\ victim \in [Processes -> {NoVictim} \cup Entries \X Kinds]
  /\ result \in [Processes -> {"none", "ok", "failed", "dry", "killed"}]

WorkTypes ==
  /\ seen \in [Processes -> MetaType]
  /\ streamed \in [Processes -> [hours : Nat, messages : Nat]]
  /\ via \in [Processes -> {"cache", "source"}]
  /\ temporary \in [Processes -> FileType] /\ out \in [Processes -> FileType]

Types == SharedTypes /\ CallTypes /\ WorkTypes

(* The whole forecast of a run, and what is left of one.                   *)
Whole(file, run, r) ==
  file.run = run /\ ~file.cut /\ Part(file.messages, r, 0, Len(Hours(r)))

Begun(file, run, r) ==
  /\ file.run = run
  /\ \E w : Part(w, r, 0, Len(Hours(r))) /\ \E k \in 0 .. Len(w) : file.messages = SubSeq(w, 1, k)

(* Every hash is an entry.                                                 *)
LEMMA HashOnce == \A f \in DOMAIN HashOf : HashOf[f] \in Entries
BY DEF Entries

(* A whole forecast has the expected number of messages.                   *)
LEMMA WholeCount ==
  ASSUME NEW r \in Requests, NEW w, Part(w, r, 0, Len(Hours(r)))
  PROVE  w \in Seq(Message) /\ Len(w) = Expected(r)
<1>. DEFINE n == Len(Hours(r))
<1>1. n \in Nat /\ n <= Len(Hours(r)) /\ 0 \in Nat
  BY HoursAre DEF Hours
<1>2. Part(w, r, 0, n)
  OBVIOUS
<1>. HIDE DEF n
<1>3. w \in Seq(Message) /\ Len(w) = Count(r, n) - Count(r, 0)
  BY <1>1, <1>2, PartIsSeq
<1>4. Count(r, 0) = 0 /\ Count(r, n) \in Nat
  BY <1>1, RequestsAssumption DEF Count
<1>5. Expected(r) = Count(r, n)
  BY ExpectedIs DEF n
<1>. QED  BY <1>3, <1>4, <1>5

(* A whole forecast is a beginning of itself.                              *)
LEMMA WholeBegins ==
  ASSUME NEW r \in Requests, NEW run, NEW file, Whole(file, run, r)
  PROVE  /\ Begun(file, run, r) /\ Len(file.messages) = Expected(r)
         /\ file.messages \in Seq(Message)
<1>. DEFINE w == file.messages
            n == Len(Hours(r))
<1>1. Part(w, r, 0, n) /\ n \in Nat
  BY HoursAre DEF Whole, Hours
<1>2. w \in Seq(Message) /\ Len(w) = Expected(r)
  BY <1>1, WholeCount
<1>5. w = SubSeq(w, 1, Len(w)) /\ Len(w) \in 0 .. Len(w)
  BY <1>2
<1>6. Begun(file, run, r)
  BY <1>1, <1>5 DEF Whole, Begun
<1>. QED  BY <1>2, <1>6

(* A beginning with the expected number of messages is whole.              *)
LEMMA BegunType ==
  ASSUME NEW r \in Requests, NEW run, NEW file, Begun(file, run, r)
  PROVE  /\ file.messages \in Seq(Message)
         /\ Len(file.messages) <= Expected(r)
         /\ ~file.cut /\ Len(file.messages) = Expected(r) => Whole(file, run, r)
<1>. DEFINE n == Len(Hours(r))
<1>1. n \in Nat
  BY HoursAre DEF Hours
<1>2. PICK w : /\ Part(w, r, 0, n)
               /\ \E k \in 0 .. Len(w) : file.messages = SubSeq(w, 1, k)
  BY DEF Begun
<1>3. w \in Seq(Message) /\ Len(w) = Expected(r)
  BY <1>2, WholeCount
<1>6. PICK k \in 0 .. Len(w) : file.messages = SubSeq(w, 1, k)
  BY <1>2
<1>7. file.messages \in Seq(Message) /\ Len(file.messages) = k
  BY <1>3, <1>6
<1>8. k = Len(w) => file.messages = w
  BY <1>3, <1>6
<1>9. ASSUME ~file.cut, Len(file.messages) = Expected(r)
      PROVE  Whole(file, run, r)
  <2>1. file.messages = w
    BY <1>3, <1>7, <1>8, <1>9
  <2>2. file.run = run
    BY DEF Begun
  <2>. QED  BY <1>2, <1>9, <2>1, <2>2 DEF Whole
<1>10. Len(file.messages) <= Expected(r)
  BY <1>3, <1>7
<1>. QED  BY <1>7, <1>9, <1>10

(* What a damage leaves of it.                                             *)
LEMMA BegunShorter ==
  ASSUME NEW r \in Requests, NEW run, NEW file, Begun(file, run, r), NEW other,
         other.run = run,
         other.messages = SubSeq(file.messages, 1, Len(file.messages) - 1)
           \/ other.messages = file.messages
  PROVE  Begun(other, run, r)
<1>. DEFINE n == Len(Hours(r))
<1>1. n \in Nat
  BY HoursAre DEF Hours
<1>2. PICK w : /\ Part(w, r, 0, n)
               /\ \E k \in 0 .. Len(w) : file.messages = SubSeq(w, 1, k)
  BY DEF Begun
<1>3. w \in Seq(Message)
  BY <1>1, <1>2, PartIsSeq
<1>4. PICK k \in 0 .. Len(w) : file.messages = SubSeq(w, 1, k)
  BY <1>2
<1>5. \E l \in 0 .. Len(w) : other.messages = SubSeq(w, 1, l)
  <2>1. CASE other.messages = file.messages
    BY <1>4, <2>1
  <2>2. CASE other.messages # file.messages /\ k = 0
    <3>1. file.messages = << >>
      BY <1>3, <1>4, <2>2
    <3>2. SubSeq(<< >>, 1, Len(<< >>) - 1) = << >>
      OBVIOUS
    <3>. QED  BY <2>2, <3>1, <3>2
  <2>3. CASE other.messages # file.messages /\ k # 0
    <3>1. Len(file.messages) = k /\ k - 1 \in 0 .. Len(w)
      BY <1>3, <1>4, <2>3
    <3>2. SubSeq(SubSeq(w, 1, k), 1, k - 1) = SubSeq(w, 1, k - 1)
      BY <1>3, <3>1
    <3>. QED  BY <1>4, <2>3, <3>1, <3>2
  <2>. QED  BY <2>1, <2>2, <2>3
<1>. QED  BY <1>2, <1>5 DEF Begun

(* A fingerprint says which forecast it is.                                *)
LEMMA SameForecast ==
  ASSUME NEW r \in Requests, NEW q \in Requests, NEW run, NEW other, NEW file,
         CacheFingerprint(run, r) = CacheFingerprint(other, q), Begun(file, run, r)
  PROVE  Begun(file, other, q) /\ Expected(r) = Expected(q)
<1>1. run = other /\ r.preset = q.preset /\ Hours(r) = Hours(q)
  BY DEF CacheFingerprint, Hours
<1>2. \A hour : FieldSet(r, hour) = FieldSet(q, hour)
  BY <1>1 DEF FieldSet
<1>3. \A a, b : MessagesOf(r, a, b) = MessagesOf(q, a, b) /\ Count(r, b) = Count(q, b)
  BY <1>1, <1>2, Zenon DEF MessagesOf, MessageSet, Count
<1>4. \A w : Part(w, r, 0, Len(Hours(r))) <=> Part(w, q, 0, Len(Hours(q)))
  BY <1>1, <1>3 DEF Part
<1>5. Expected(r) = Expected(q)
  BY <1>1 DEF Expected, Hours
<1>. QED  BY <1>1, <1>4, <1>5 DEF Begun

(* A whole forecast is one in the words of the property.                   *)
LEMMA WholeIsForecast ==
  ASSUME NEW r \in Requests, NEW run, NEW file, Whole(file, run, r)
  PROVE  IsForecast(file, run, r)
<1>. DEFINE w == file.messages
            n == Len(Hours(r))
            S == MessagesOf(r, 0, n)
            m == Count(r, n) - Count(r, 0)
<1>1. n \in Nat /\ DOMAIN Hours(r) = 1 .. n
  BY HoursAre DEF Hours
<1>2. Part(w, r, 0, n) /\ file.run = run /\ ~file.cut
  BY DEF Whole
<1>3. Lists(w, S, m) /\ \A i, j \in DOMAIN w : i <= j => w[i][1] <= w[j][1]
  BY <1>2 DEF Part
<1>4. DOMAIN w = 1 .. m /\ Len(w) = m /\ m \in Nat
  BY <1>3, ListsIsSeq
<1>. HIDE DEF w, m
<1>5. IsInjective(w)
  BY <1>3, <1>4 DEF Lists, IsInjective
<1>6. ToSet(w) = S
  BY <1>3, <1>4 DEF Lists, ToSet
<1>7. \A i \in 1 .. Len(w) - 1 : w[i][1] <= w[i + 1][1]
  BY <1>3, <1>4
<1>8. S = UNION {ToSet(MessagesAt(r, hour)) : hour \in HoursOf(r)}
  <2>1. ASSUME NEW i \in 1 .. n
        PROVE  MessageSet(r, Hours(r)[i]) = ToSet(MessagesAt(r, Hours(r)[i]))
    <3>. DEFINE hour == Hours(r)[i]
                F == FieldsAt(r, hour)
                k == FieldCount(r, hour)
                T == FieldSet(r, hour)
    <3>1. hour \in Nat
      BY <1>1, HoursAre DEF Hours
    <3>. HIDE DEF hour
    <3>2. Lists(F, T, k)
      BY <3>1, FieldsAre
    <3>3. DOMAIN F = 1 .. k
      BY <3>2, ListsIsSeq
    <3>4. MessagesAt(r, hour) = [j \in 1 .. k |-> <<hour, F[j]>>]
      BY <3>3 DEF MessagesAt
    <3>. HIDE DEF F, k, T
    <3>5. ToSet(MessagesAt(r, hour)) = {<<hour, F[j]>> : j \in 1 .. k}
      BY <3>4 DEF ToSet
    <3>6. T = {F[j] : j \in 1 .. k}
      BY <3>2 DEF Lists
    <3>7. {hour} \X T = {<<hour, F[j]>> : j \in 1 .. k}
      BY <3>6
    <3>. QED  BY <3>5, <3>7 DEF MessageSet, T, hour
  <2>2. HoursOf(r) = {Hours(r)[i] : i \in 1 .. n}
    BY <1>1 DEF HoursOf, Hours, ToSet
  <2>. QED  BY <2>1, <2>2 DEF MessagesOf
<1>. QED  BY <1>2, <1>5, <1>6, <1>7, <1>8 DEF IsForecast, w

(* A cached file is what is left of the forecast its entry stands for.     *)
Stored(e, file) ==
  \E r \in Requests :
    /\ file.run \in Runs /\ CacheFingerprint(file.run, r) \in DOMAIN HashOf
    /\ HashOf[CacheFingerprint(file.run, r)] = e
    /\ Begun(file, file.run, r)

Counted(m) == m.count = ExpectedMessageCount(m.key[3], m.key[2])

DataInv == \A e \in Entries : data[e] = NoFile \/ Stored(e, data[e])
MetaInv == \A e \in Entries : meta[e] = NoMeta \/ Counted(meta[e])

Before == {"open", "metadata", "is_regular_file", "scan", "copy", "discard data",
           "discard metadata", "stream", "scan streamed", "replace", "install"}
After == {"inspect", "save", "rename data", "remove metadata", "rename metadata", "prune",
          "prune one"}
Caching == {"metadata", "is_regular_file", "scan", "copy", "discard data", "discard metadata",
            "save", "rename data", "remove metadata", "rename metadata", "prune", "prune one"}
Empty == {"idle", "open", "metadata", "is_regular_file", "scan", "copy", "discard data",
          "discard metadata"}

(* What a call knows once the dataset is open.                             *)
AskedInv(p) ==
  /\ pc[p] # "idle" => ~request[p].dry_run
  /\ pc[p] \notin {"idle", "open"} => HoursOf(request[p]) \subseteq Leads[reference[p]]
  /\ pc[p] \in Caching \/ via[p] = "cache" => request[p].cached
  /\ via[p] = "cache" => pc[p] \in {"replace", "install", "inspect"}
  /\ pc[p] = "prune one" <=> victim[p] # NoVictim

(* What is in the temporary: nothing of it is wrong, or something is lost. *)
StreamedIs(messages, file, r, run, hours) ==
  /\ hours \in 0 .. Len(Hours(r))
  /\ messages = Count(r, hours)
  /\ IF hours = 0 THEN file = NoFile ELSE file.run = run
  /\ file.cut \/ Len(file.messages) < messages \/ Part(file.messages, r, 0, hours)

Streamed(p, hours) ==
  StreamedIs(streamed[p].messages, temporary[p], request[p], reference[p], hours)

WorkInv(p) ==
  /\ pc[p] \in Empty \cup After => temporary[p] = NoFile
  /\ pc[p] \in Empty \/ via[p] = "cache" => streamed[p] = NoneStreamed
  /\ pc[p] = "stream" => /\ Streamed(p, streamed[p].hours)
                         /\ streamed[p].hours < Len(Hours(request[p]))
  /\ pc[p] = "scan streamed" => Streamed(p, Len(Hours(request[p])))
  /\ pc[p] \in {"replace", "install"} => Whole(temporary[p], reference[p], request[p])
  /\ pc[p] \in {"rename data", "remove metadata", "rename metadata"} => Counted(seen[p])

OutInv(p) ==
  /\ pc[p] # "idle" => result[p] = "none"
  /\ pc[p] \in Before => out[p] \in {NoFile, OldFile}
  /\ pc[p] \in After \/ result[p] = "ok" => Whole(out[p], reference[p], request[p])
  /\ out[p] \in {NoFile, OldFile} \/ Whole(out[p], reference[p], request[p])

(* Nobody but the call itself changes the file it is about to copy, except *)
(* that it may go.                                                         *)
CopyInv(p) ==
  pc[p] = "copy" => \/ data[CacheEntry(p)] = NoFile
                    \/ Whole(data[CacheEntry(p)], reference[p], request[p])

Own(p) == AskedInv(p) /\ WorkInv(p) /\ OutInv(p)

CacheInv == /\ Types /\ DataInv /\ MetaInv
            /\ \A p \in Processes : Own(p)
            /\ \A p \in Processes : CopyInv(p)
-----------------------------------------------------------------------------
(* Runs are numbered from one.                                             *)
LEMMA RunsAre == 1 \in Runs /\ Runs \subseteq Nat \ {0}
<1>1. Len(Leads) \in Nat \ {0} /\ Runs = 1 .. Len(Leads)
  BY RequestsAssumption DEF Runs
<1>. QED  BY <1>1

(* A call that uses the cache has an entry there.                          *)
LEMMA KnownEntry ==
  ASSUME NEW p \in Processes, Types, AskedInv(p),
         pc[p] \in Caching \/ (via[p] = "cache" /\ pc[p] # "idle")
  PROVE  FingerprintOf(p) \in DOMAIN HashOf /\ CacheEntry(p) \in Entries
<1>1. /\ request[p] \in Requests /\ reference[p] \in Runs /\ request[p].cached /\ ~request[p].dry_run
      /\ HoursOf(request[p]) \subseteq Leads[reference[p]]
  BY DEF Types, CallTypes, AskedInv, Caching
<1>2. FingerprintOf(p) \in DOMAIN HashOf
  BY <1>1, HashAssumption DEF FingerprintOf
<1>. QED  BY <1>2, HashOnce DEF CacheEntry

(* The invariant holds initially.                                          *)
LEMMA Start == Init => CacheInv
<1>. SUFFICES ASSUME Init PROVE CacheInv
  OBVIOUS
<1>1. /\ NoFile \in FileType /\ OldFile \in FileType /\ NoMeta \in MetaType
      /\ NoneStreamed \in [hours : Nat, messages : Nat]
  BY RunsAre DEF NoFile, OldFile, NoMeta, NoneStreamed, FileType, MetaType
<1>2. (CHOOSE r \in Requests : TRUE) \in Requests
  BY RequestsAssumption
<1>3. Types
  <2>1. SharedTypes
    BY <1>1, RunsAre, BoundsAssumption DEF Init, SharedTypes
  <2>2. CallTypes
    BY <1>2, RunsAre DEF Init, CallTypes, Labels
  <2>3. WorkTypes
    BY <1>1 DEF Init, WorkTypes
  <2>. QED  BY <2>1, <2>2, <2>3 DEF Types
<1>4. DataInv /\ MetaInv
  BY DEF Init, DataInv, MetaInv
<1>5. ASSUME NEW p \in Processes
      PROVE  Own(p) /\ CopyInv(p)
  <2>1. AskedInv(p)
    BY DEF Init, AskedInv, Caching
  <2>2. WorkInv(p)
    BY DEF Init, WorkInv, Empty
  <2>3. OutInv(p)
    BY DEF Init, OutInv, Before, After
  <2>. QED  BY <2>1, <2>2, <2>3 DEF Own, CopyInv, Init
<1>. QED  BY <1>3, <1>4, <1>5 DEF CacheInv

(* A process that does nothing keeps what it has.                          *)
LEMMA OthersKeep ==
  ASSUME NEW p, Own(p), UNCHANGED <<pc[p], request[p], reference[p], seen[p], streamed[p],
                                    temporary[p], via[p], out[p], victim[p], result[p]>>
  PROVE  Own(p)'
<1>1. AskedInv(p)'
  BY DEF Own, AskedInv
<1>2. WorkInv(p)'
  BY DEF Own, WorkInv, Streamed
<1>3. OutInv(p)'
  BY DEF Own, OutInv
<1>. QED  BY <1>1, <1>2, <1>3 DEF Own

(* The placeholders have their types.                                      *)
LEMMA Constants ==
  /\ NoFile \in FileType /\ OldFile \in FileType /\ NoMeta \in MetaType
  /\ NoneStreamed \in [hours : Nat, messages : Nat]
BY RunsAre DEF NoFile, OldFile, NoMeta, NoneStreamed, FileType, MetaType

(* A fault stays within its bound.                                         *)
LEMMA FaultCounts ==
  ASSUME SharedTypes, Fault
  PROVE  faults' \in 0 .. MaxFaults
BY BoundsAssumption DEF SharedTypes, Fault

(* A call ends the same way wherever it does.                              *)
Ending(p) ==
  \E how \in {"ok", "failed", "killed"} :
    /\ Ends(p, how) /\ (how = "ok" => pc[p] \in After)
    /\ Fault \/ UNCHANGED faults
    /\ UNCHANGED <<latest, files, asked, out, calls>>

(* Every way a call ends is one of these.                                  *)
LEMMA Endings ==
  ASSUME NEW p,
         \/ LacksHour(p) \/ ScanRefuses(p) \/ GenerationFails(p) \/ InspectFails(p)
         \/ Saved(p) \/ SaveFails(p) \/ Kill(p)
  PROVE  Ending(p)
<1>1. CASE LacksHour(p)
  BY <1>1, Zenon DEF LacksHour, Fails, Ending, Fault, bounds, After
<1>2. CASE ScanRefuses(p)
  BY <1>2, Zenon DEF ScanRefuses, Fails, Ending, Fault, bounds, After
<1>3. CASE GenerationFails(p)
  BY <1>3, Zenon DEF GenerationFails, Fails, Ending, Fault, bounds, After
<1>4. CASE InspectFails(p)
  BY <1>4, Zenon DEF InspectFails, Fails, Ending, Fault, bounds, After
<1>5. CASE Saved(p)
  BY <1>5, Zenon DEF Saved, Fails, Ending, Fault, bounds, After
<1>6. CASE SaveFails(p)
  BY <1>6, Zenon DEF SaveFails, Fails, Ending, Fault, bounds, After
<1>7. CASE Kill(p)
  BY <1>7, Zenon DEF Kill, Fails, Ending, Fault, bounds, After
<1>. QED  BY <1>1, <1>2, <1>3, <1>4, <1>5, <1>6, <1>7

(* The end of a call keeps the types.                                      *)
LEMMA EndingTypes ==
  ASSUME NEW p \in Processes, Types, Ending(p)
  PROVE  Types'
<1>. USE DEF Ends, Goto, files, asked
<1>1. SharedTypes'
  <2>1. faults' \in 0 .. MaxFaults
    BY FaultCounts DEF Ending, Types, SharedTypes
  <2>. QED  BY <2>1 DEF Ending, Types, SharedTypes
<1>2. CallTypes'
  <2>1. PICK how \in {"ok", "failed", "killed"} :
          Ends(p, how) /\ UNCHANGED <<request, reference>>
    BY DEF Ending
  <2>. QED  BY <2>1 DEF Types, CallTypes, Labels
<1>3. WorkTypes'
  BY Constants DEF Ending, Types, WorkTypes
<1>. QED  BY <1>1, <1>2, <1>3 DEF Types

(* A batch keeps the types.                                                *)
LEMMA StreamsChunk ==
  ASSUME NEW p \in Processes, CacheInv, StreamBatch(p)
  PROVE  LET chunk == Chunk(request[p], streamed[p].hours)
         IN  /\ chunk \in Seq(Message) /\ Front(chunk) \in Seq(Message)
             /\ Len(chunk) \in Nat /\ Len(Front(chunk)) < Len(chunk)
<1>. DEFINE r == request[p]
            a == streamed[p].hours
            chunk == Chunk(r, a)
            b == UpTo(r, a)
<1>1. r \in Requests /\ a \in Nat /\ a < Len(Hours(r))
  BY DEF CacheInv, Types, CallTypes, WorkTypes, Own, WorkInv, StreamBatch
<1>. HIDE DEF r, a
<1>2. Part(chunk, r, a, b) /\ b \in a + 1 .. Len(Hours(r)) /\ b \in Nat /\ b <= Len(Hours(r))
  <2>1. Part(chunk, r, a, b) /\ b \in a + 1 .. Len(Hours(r))
    BY <1>1, ChunkIs
  <2>2. Len(Hours(r)) \in Nat
    BY <1>1, HoursAre DEF Hours
  <2>. HIDE DEF chunk, b
  <2>. QED  BY <1>1, <2>1, <2>2
<1>. HIDE DEF chunk, b
<1>3. chunk \in Seq(Message) /\ Len(chunk) = Count(r, b) - Count(r, a)
  BY <1>1, <1>2, PartIsSeq
<1>4. Count(r, b) - Count(r, a) > 0
  BY <1>1, <1>2, RequestsAssumption DEF Count
<1>5. Front(chunk) \in Seq(Message) /\ Len(Front(chunk)) = Len(chunk) - 1
  <2>1. Front(chunk) = SubSeq(chunk, 1, Len(chunk) - 1)
    BY DEF Front
  <2>. QED  BY <1>3, <1>4, <2>1
<1>. QED  BY <1>3, <1>4, <1>5 DEF chunk, r, a

(* A step keeps the types.                                                 *)
LEMMA TypesStep ==
  ASSUME CacheInv, Next
  PROVE  Types'
<1>. USE DEF Goto, files, asked, work, ends, bounds, locals
<1>0. SharedTypes /\ CallTypes /\ WorkTypes /\ Types /\ \A p \in Processes : AskedInv(p)
  BY DEF CacheInv, Own, Types
<1>1. ASSUME NEW p \in Processes, Ending(p)
      PROVE  Types'
  BY <1>0, <1>1, EndingTypes
<1>2. ASSUME NEW p \in Processes, Call(p)
      PROVE  Types'
  <2>1. SharedTypes'
    BY <1>0, <1>2, BoundsAssumption DEF SharedTypes, Call
  <2>2. CallTypes'
    <3>1. PICK r \in Requests : request' = [request EXCEPT ![p] = r]
      BY <1>2 DEF Call
    <3>2. pc' \in [Processes -> Labels]
      BY <1>0, <1>2, ZenonT(60) DEF Call, CallTypes, Labels
    <3>3. result' \in [Processes -> {"none", "ok", "failed", "dry", "killed"}]
      BY <1>0, <1>2 DEF Call, CallTypes
    <3>. QED  BY <1>0, <1>2, <3>1, <3>2, <3>3 DEF CallTypes, Call
  <2>3. WorkTypes'
    BY <1>0, <1>2, Constants DEF WorkTypes, Call
  <2>. QED  BY <2>1, <2>2, <2>3 DEF Types
<1>3. ASSUME NEW p \in Processes, Open(p)
      PROVE  Types'
  <2>1. SharedTypes'
    BY <1>0, <1>3, Constants DEF SharedTypes, Open
  <2>2. CallTypes'
    BY <1>0, <1>3 DEF SharedTypes, CallTypes, Open, Labels
  <2>3. WorkTypes'
    BY <1>0, <1>3, Constants DEF WorkTypes, Open
  <2>. QED  BY <2>1, <2>2, <2>3 DEF Types
<1>4. ASSUME NEW p \in Processes, ReadCacheMetadata(p)
      PROVE  Types'
  <2>1. SharedTypes'
    BY <1>0, <1>4, Constants DEF SharedTypes, ReadCacheMetadata
  <2>2. CallTypes'
    BY <1>0, <1>4, Constants DEF CallTypes, ReadCacheMetadata, Labels
  <2>3. WorkTypes'
    <3>1. CacheEntry(p) \in Entries
      BY <1>0, <1>4, KnownEntry DEF ReadCacheMetadata, Caching
    <3>. QED  BY <1>0, <1>4, <3>1 DEF SharedTypes, WorkTypes, ReadCacheMetadata
  <2>. QED  BY <2>1, <2>2, <2>3 DEF Types
<1>5. ASSUME NEW p \in Processes, HasData(p)
      PROVE  Types'
  <2>1. SharedTypes'
    BY <1>0, <1>5, Constants DEF SharedTypes, HasData
  <2>2. CallTypes'
    BY <1>0, <1>5, Constants DEF CallTypes, HasData, Labels
  <2>3. WorkTypes'
    BY <1>0, <1>5, Constants DEF WorkTypes, HasData
  <2>. QED  BY <2>1, <2>2, <2>3 DEF Types
<1>6. ASSUME NEW p \in Processes, ScanCached(p)
      PROVE  Types'
  <2>1. SharedTypes'
    BY <1>0, <1>6, Constants DEF SharedTypes, ScanCached
  <2>2. CallTypes'
    BY <1>0, <1>6, Constants DEF CallTypes, ScanCached, Labels
  <2>3. WorkTypes'
    BY <1>0, <1>6, Constants DEF WorkTypes, ScanCached
  <2>. QED  BY <2>1, <2>2, <2>3 DEF Types
<1>7. ASSUME NEW p \in Processes, CopyCached(p)
      PROVE  Types'
  <2>1. SharedTypes'
    BY <1>0, <1>7, Constants DEF SharedTypes, CopyCached
  <2>2. CallTypes'
    BY <1>0, <1>7, Constants DEF CallTypes, CopyCached, Labels
  <2>3. WorkTypes'
    <3>1. CacheEntry(p) \in Entries
      BY <1>0, <1>7, KnownEntry DEF CopyCached, Caching
    <3>2. data[CacheEntry(p)] \in FileType
      BY <1>0, <3>1 DEF SharedTypes
    <3>3. temporary' \in [Processes -> FileType]
      BY <1>0, <1>7, <3>2 DEF WorkTypes, CopyCached
    <3>4. via' \in [Processes -> {"cache", "source"}]
      BY <1>0, <1>7 DEF WorkTypes, CopyCached
    <3>. QED  BY <1>0, <1>7, <3>3, <3>4 DEF WorkTypes, CopyCached
  <2>. QED  BY <2>1, <2>2, <2>3 DEF Types
<1>8. ASSUME NEW p \in Processes, RestoreFails(p)
      PROVE  Types'
  <2>1. SharedTypes'
    BY <1>0, <1>8, FaultCounts DEF SharedTypes, RestoreFails
  <2>2. CallTypes'
    BY <1>0, <1>8, Constants DEF CallTypes, RestoreFails, Labels
  <2>3. WorkTypes'
    BY <1>0, <1>8, Constants DEF WorkTypes, RestoreFails
  <2>. QED  BY <2>1, <2>2, <2>3 DEF Types
<1>9. ASSUME NEW p \in Processes, DiscardData(p)
      PROVE  Types'
  <2>1. SharedTypes'
    BY <1>0, <1>9, Constants DEF SharedTypes, DiscardData
  <2>2. CallTypes'
    BY <1>0, <1>9, Constants DEF CallTypes, DiscardData, Labels
  <2>3. WorkTypes'
    BY <1>0, <1>9, Constants DEF WorkTypes, DiscardData
  <2>. QED  BY <2>1, <2>2, <2>3 DEF Types
<1>10. ASSUME NEW p \in Processes, DiscardMetadata(p)
      PROVE  Types'
  <2>1. SharedTypes'
    BY <1>0, <1>10, Constants DEF SharedTypes, DiscardMetadata
  <2>2. CallTypes'
    BY <1>0, <1>10, Constants DEF CallTypes, DiscardMetadata, Labels
  <2>3. WorkTypes'
    BY <1>0, <1>10, Constants DEF WorkTypes, DiscardMetadata
  <2>. QED  BY <2>1, <2>2, <2>3 DEF Types
<1>11. ASSUME NEW p \in Processes, StreamBatch(p)
      PROVE  Types'
  <2>1. SharedTypes'
    BY <1>0, <1>11, FaultCounts DEF SharedTypes, StreamBatch
  <2>2. CallTypes'
    BY <1>0, <1>11, Constants DEF CallTypes, StreamBatch, Labels
  <2>3. WorkTypes'
    <3>. DEFINE chunk == Chunk(request[p], streamed[p].hours)
    <3>1. chunk \in Seq(Message) /\ Front(chunk) \in Seq(Message) /\ Len(chunk) \in Nat
      BY <1>0, <1>11, StreamsChunk
    <3>2. \A c \in Seq(Message), cut \in BOOLEAN : Appended(p, c, cut) \in FileType
      BY <1>0 DEF Appended, FileType, CallTypes, WorkTypes
    <3>. HIDE DEF chunk
    <3>3. temporary' \in [Processes -> FileType]
      <4>1. \E c \in Seq(Message), cut \in BOOLEAN :
              temporary' = [temporary EXCEPT ![p] = Appended(p, c, cut)]
        BY <1>11, <3>1 DEF StreamBatch, chunk
      <4>. QED  BY <1>0, <3>2, <4>1 DEF WorkTypes
    <3>4. streamed' \in [Processes -> [hours : Nat, messages : Nat]]
      <4>1. streamed' = [streamed EXCEPT ![p] = [hours    |-> @.hours + TimeBatchSize,
                                                 messages |-> @.messages + Len(chunk)]]
        BY <1>11 DEF StreamBatch, chunk
      <4>. QED  BY <1>0, <3>1, <4>1, BoundsAssumption DEF WorkTypes
    <3>. QED  BY <1>0, <1>11, <3>3, <3>4 DEF StreamBatch, WorkTypes
  <2>. QED  BY <2>1, <2>2, <2>3 DEF Types
<1>12. ASSUME NEW p \in Processes, ScanStreamed(p)
      PROVE  Types'
  <2>1. SharedTypes'
    BY <1>0, <1>12, Constants DEF SharedTypes, ScanStreamed
  <2>2. CallTypes'
    BY <1>0, <1>12, Constants DEF CallTypes, ScanStreamed, Labels
  <2>3. WorkTypes'
    BY <1>0, <1>12, Constants DEF WorkTypes, ScanStreamed
  <2>. QED  BY <2>1, <2>2, <2>3 DEF Types
<1>13. ASSUME NEW p \in Processes, Replace(p)
      PROVE  Types'
  <2>1. SharedTypes'
    BY <1>0, <1>13, Constants DEF SharedTypes, Replace
  <2>2. CallTypes'
    BY <1>0, <1>13, Constants DEF CallTypes, Replace, Labels
  <2>3. WorkTypes'
    BY <1>0, <1>13, Constants DEF WorkTypes, Replace
  <2>. QED  BY <2>1, <2>2, <2>3 DEF Types
<1>14. ASSUME NEW p \in Processes, Install(p)
      PROVE  Types'
  <2>1. SharedTypes'
    BY <1>0, <1>14, Constants DEF SharedTypes, Install
  <2>2. CallTypes'
    BY <1>0, <1>14, Constants DEF CallTypes, Install, Labels
  <2>3. WorkTypes'
    BY <1>0, <1>14, Constants DEF WorkTypes, Install
  <2>. QED  BY <2>1, <2>2, <2>3 DEF Types
<1>15. ASSUME NEW p \in Processes, Inspect(p)
      PROVE  Types'
  <2>1. SharedTypes'
    BY <1>0, <1>15 DEF SharedTypes, Inspect, Ends
  <2>2. CallTypes'
    BY <1>0, <1>15 DEF CallTypes, Inspect, Ends, Labels
  <2>3. WorkTypes'
    BY <1>0, <1>15, Constants, SMTT(30) DEF WorkTypes, Inspect, Ends
  <2>. QED  BY <2>1, <2>2, <2>3 DEF Types
<1>16. ASSUME NEW p \in Processes, RemoveData(p)
      PROVE  Types'
  <2>1. SharedTypes'
    BY <1>0, <1>16, Constants DEF SharedTypes, RemoveData
  <2>2. CallTypes'
    BY <1>0, <1>16, Constants DEF CallTypes, RemoveData, Labels
  <2>3. WorkTypes'
    <3>1. FingerprintOf(p) \in DOMAIN HashOf
      BY <1>0, <1>16, KnownEntry DEF RemoveData, Caching
    <3>2. out[p] \in FileType
      BY <1>0 DEF WorkTypes
    <3>3. Len(out[p].messages) \in Nat /\ Bytes(out[p]) \in Int
      BY <3>2 DEF FileType, Bytes
    <3>4. Metadata(p) \in MetaType
      BY <3>1, <3>3 DEF Metadata, MetaType
    <3>. QED  BY <1>0, <1>16, <3>4 DEF WorkTypes, RemoveData
  <2>. QED  BY <2>1, <2>2, <2>3 DEF Types
<1>17. ASSUME NEW p \in Processes, RenameData(p)
      PROVE  Types'
  <2>1. SharedTypes'
    BY <1>0, <1>17 DEF SharedTypes, WorkTypes, RenameData
  <2>2. CallTypes'
    BY <1>0, <1>17, Constants DEF CallTypes, RenameData, Labels
  <2>3. WorkTypes'
    BY <1>0, <1>17, Constants DEF WorkTypes, RenameData
  <2>. QED  BY <2>1, <2>2, <2>3 DEF Types
<1>18. ASSUME NEW p \in Processes, RemoveMetadata(p)
      PROVE  Types'
  <2>1. SharedTypes'
    BY <1>0, <1>18, Constants DEF SharedTypes, RemoveMetadata
  <2>2. CallTypes'
    BY <1>0, <1>18, Constants DEF CallTypes, RemoveMetadata, Labels
  <2>3. WorkTypes'
    BY <1>0, <1>18, Constants DEF WorkTypes, RemoveMetadata
  <2>. QED  BY <2>1, <2>2, <2>3 DEF Types
<1>19. ASSUME NEW p \in Processes, RenameMetadata(p)
      PROVE  Types'
  <2>1. SharedTypes'
    BY <1>0, <1>19 DEF SharedTypes, WorkTypes, RenameMetadata
  <2>2. CallTypes'
    BY <1>0, <1>19, Constants DEF CallTypes, RenameMetadata, Labels
  <2>3. WorkTypes'
    BY <1>0, <1>19, Constants DEF WorkTypes, RenameMetadata
  <2>. QED  BY <2>1, <2>2, <2>3 DEF Types
<1>20. ASSUME NEW p \in Processes, ReadAge(p)
      PROVE  Types'
  <2>1. SharedTypes'
    BY <1>0, <1>20, Constants DEF SharedTypes, ReadAge
  <2>2. CallTypes'
    <3>1. PICK file \in old : victim' = [victim EXCEPT ![p] = file]
      BY <1>20 DEF ReadAge
    <3>2. file \in Entries \X Kinds
      BY <1>0 DEF SharedTypes
    <3>. QED  BY <1>0, <1>20, <3>1, <3>2 DEF CallTypes, ReadAge, Labels
  <2>3. WorkTypes'
    BY <1>0, <1>20, Constants DEF WorkTypes, ReadAge
  <2>. QED  BY <2>1, <2>2, <2>3 DEF Types
<1>21. ASSUME NEW p \in Processes, PruneOne(p)
      PROVE  Types'
  <2>1. SharedTypes'
    BY <1>0, <1>21, Constants DEF SharedTypes, PruneOne
  <2>2. CallTypes'
    BY <1>0, <1>21, Constants DEF CallTypes, PruneOne, Labels
  <2>3. WorkTypes'
    BY <1>0, <1>21, Constants DEF WorkTypes, PruneOne
  <2>. QED  BY <2>1, <2>2, <2>3 DEF Types
<1>22. CASE Publish
  <2>1. SharedTypes'
    BY <1>0, <1>22, FaultCounts DEF SharedTypes, Publish, Kinds
  <2>2. CallTypes' /\ WorkTypes'
    BY <1>0, <1>22 DEF CallTypes, WorkTypes, Publish
  <2>. QED  BY <2>1, <2>2 DEF Types
<1>23. CASE Age
  <2>1. SharedTypes'
    BY <1>0, <1>23, FaultCounts DEF SharedTypes, Age, Kinds
  <2>2. CallTypes' /\ WorkTypes'
    BY <1>0, <1>23 DEF CallTypes, WorkTypes, Age
  <2>. QED  BY <2>1, <2>2 DEF Types
<1>24. ASSUME NEW e \in Entries, Damage(e)
      PROVE  Types'
  <2>1. SharedTypes'
    <3>1. faults' \in 0 .. MaxFaults
      BY <1>0, <1>24, FaultCounts DEF Damage
    <3>2. meta' \in [Entries -> MetaType]
      BY <1>0, <1>24, Constants DEF SharedTypes, Damage
    <3>3. data' \in [Entries -> FileType]
      <4>. DEFINE d == data[e]
      <4>1. d \in FileType
        BY <1>0 DEF SharedTypes
      <4>2. [d EXCEPT !.cut = TRUE] \in FileType
        BY <4>1 DEF FileType
      <4>3. [d EXCEPT !.messages = SubSeq(@, 1, Len(@) - 1)] \in FileType
        <5>1. d.messages \in Seq(Message)
          BY <4>1 DEF FileType
        <5>2. SubSeq(d.messages, 1, Len(d.messages) - 1) \in Seq(Message)
          BY <5>1
        <5>. QED  BY <4>1, <5>2 DEF FileType
      <4>4. \/ data' = [data EXCEPT ![e] = [d EXCEPT !.cut = TRUE]]
            \/ data' = [data EXCEPT ![e] = [d EXCEPT !.messages = SubSeq(@, 1, Len(@) - 1)]]
            \/ data' = data
        BY <1>24 DEF Damage
      <4>. QED  BY <1>0, <4>2, <4>3, <4>4 DEF SharedTypes
    <3>. QED  BY <1>0, <1>24, <3>1, <3>2, <3>3 DEF SharedTypes, Damage
  <2>2. CallTypes' /\ WorkTypes'
    BY <1>0, <1>24 DEF CallTypes, WorkTypes, Damage
  <2>. QED  BY <2>1, <2>2 DEF Types
<1>. QED  BY <1>1, <1>2, <1>3, <1>4, <1>5, <1>6, <1>7, <1>8, <1>9, <1>10, <1>11, <1>12, <1>13,
            <1>14, <1>15, <1>16, <1>17, <1>18, <1>19, <1>20, <1>21, <1>22, <1>23, <1>24,
            Endings
         DEF Next, Restore, Save, Generate

(* An empty temporary is what streaming begins with.                       *)
LEMMA StreamStarts ==
  ASSUME NEW r \in Requests, NEW run, NEW messages, NEW file,
         messages = NoneStreamed, file = NoFile
  PROVE  /\ StreamedIs(messages.messages, file, r, run, messages.hours)
         /\ messages.hours < Len(Hours(r))
<1>1. Len(Hours(r)) \in Nat \ {0}
  BY HoursAre DEF Hours
<1>2. Count(r, 0) = 0
  BY RequestsAssumption DEF Count
<1>3. Part(<< >>, r, 0, 0)
  BY PartEmpty
<1>. QED  BY <1>1, <1>2, <1>3 DEF StreamedIs, NoneStreamed, NoFile

(* A chunk more: if nothing is lost the temporary is whole so far.         *)
LEMMA StreamGoes ==
  ASSUME NEW r \in Requests, NEW run, NEW s, NEW t, NEW file, NEW a \in Nat,
         StreamedIs(s, t, r, run, a), a < Len(Hours(r)), t.messages \in Seq(Message),
         file.run = run,
         \/ file.messages = t.messages \o Chunk(r, a) /\ (file.cut <=> t.cut)
         \/ file.messages = t.messages \o Front(Chunk(r, a)) /\ (file.cut <=> t.cut)
         \/ file.cut
  PROVE  StreamedIs(s + Len(Chunk(r, a)), file, r, run, UpTo(r, a))
<1>. DEFINE chunk == Chunk(r, a)
            b == UpTo(r, a)
            n == Len(Hours(r))
<1>1. Part(chunk, r, a, b) /\ b \in a + 1 .. n /\ n \in Nat
  BY ChunkIs, HoursAre DEF Hours
<1>. HIDE DEF b, chunk
<1>2. b \in Nat /\ b <= n /\ a <= b /\ b \in 0 .. n /\ b # 0
  BY <1>1
<1>3. chunk \in Seq(Message) /\ Len(chunk) = Count(r, b) - Count(r, a)
  <2>. HIDE DEF n
  <2>1. b <= Len(Hours(r))
    BY <1>2 DEF n
  <2>. QED  BY <1>1, <1>2, <2>1, PartIsSeq
<1>4. Count(r, a) \in Nat /\ Count(r, b) \in Nat /\ Count(r, b) > Count(r, a)
  BY <1>1, <1>2, RequestsAssumption DEF Count
<1>5. s = Count(r, a) /\ s + Len(chunk) = Count(r, b)
  BY <1>3, <1>4 DEF StreamedIs
<1>6. Front(chunk) \in Seq(Message) /\ Len(Front(chunk)) = Len(chunk) - 1
  <2>1. Front(chunk) = SubSeq(chunk, 1, Len(chunk) - 1)
    BY DEF Front
  <2>. QED  BY <1>3, <1>4, <2>1
<1>7. Len(t.messages) <= s \/ t.cut
  <2>1. ASSUME Part(t.messages, r, 0, a)
        PROVE  Len(t.messages) = s
    <3>1. Len(t.messages) = Count(r, a) - Count(r, 0)
      BY <1>1, <1>2, <2>1, PartIsSeq
    <3>2. Count(r, 0) = 0
      BY RequestsAssumption DEF Count
    <3>. QED  BY <1>4, <1>5, <3>1, <3>2
  <2>2. s \in Nat /\ Len(t.messages) \in Nat
    BY <1>4, <1>5
  <2>. QED  BY <2>1, <2>2 DEF StreamedIs
<1>8. file.cut \/ Len(file.messages) < s + Len(chunk) \/ Part(file.messages, r, 0, b)
  <2>1. CASE file.cut
    BY <2>1
  <2>2. CASE ~file.cut /\ file.messages = t.messages \o Front(chunk) /\ ~t.cut
    <3>1. Len(file.messages) = Len(t.messages) + Len(chunk) - 1
      <4>. DEFINE u == t.messages
                  v == Front(chunk)
      <4>1. file.messages = u \o v /\ u \in Seq(Message) /\ v \in Seq(Message)
        BY <1>6, <2>2
      <4>2. Len(v) = Len(chunk) - 1 /\ Len(chunk) \in Nat
        BY <1>3, <1>6
      <4>. HIDE DEF u, v
      <4>3. Len(file.messages) = Len(u) + Len(v) /\ Len(u) \in Nat
        BY <4>1
      <4>. QED  BY <4>2, <4>3 DEF u
    <3>. QED  BY <1>3, <1>4, <1>5, <1>7, <2>2, <3>1
  <2>3. CASE file.messages = t.messages \o chunk /\ ~t.cut
    <3>1. CASE Len(t.messages) < s
      <4>1. Len(file.messages) = Len(t.messages) + Len(chunk)
        <5>. DEFINE u == t.messages
        <5>1. file.messages = u \o chunk /\ u \in Seq(Message) /\ chunk \in Seq(Message)
          BY <1>3, <2>3
        <5>. HIDE DEF u
        <5>2. Len(file.messages) = Len(u) + Len(chunk)
          BY <5>1
        <5>. QED  BY <5>2 DEF u
      <4>. QED  BY <1>3, <1>4, <1>5, <3>1, <4>1
    <3>2. CASE Part(t.messages, r, 0, a)
      <4>1. Part(t.messages \o chunk, r, 0, b)
        <5>1. 0 \in Nat /\ 0 <= a /\ b <= Len(Hours(r))
          BY <1>2
        <5>2. Part(chunk, r, a, b) /\ b \in Nat /\ a <= b
          BY <1>1, <1>2
        <5>. QED  BY <3>2, <5>1, <5>2, PartJoin
      <4>. QED  BY <2>3, <4>1
    <3>. QED  BY <2>3, <3>1, <3>2 DEF StreamedIs
  <2>. QED  BY <2>1, <2>2, <2>3 DEF chunk
<1>9. IF b = 0 THEN file = NoFile ELSE file.run = run
  BY <1>2
<1>. QED  BY <1>2, <1>5, <1>8, <1>9 DEF StreamedIs, n, b, chunk

(* The others stay where they are.                                         *)
Alone(p) == \A q \in Processes \ {p} :
  UNCHANGED <<pc[q], request[q], reference[q], seen[q], streamed[q], temporary[q], via[q],
              out[q], victim[q], result[q]>>

Moves(p) ==
  \/ Call(p) \/ Open(p) \/ ReadCacheMetadata(p) \/ HasData(p) \/ ScanCached(p) \/ CopyCached(p)
  \/ RestoreFails(p) \/ DiscardData(p) \/ DiscardMetadata(p) \/ StreamBatch(p) \/ ScanStreamed(p)
  \/ Replace(p) \/ Install(p) \/ Inspect(p) \/ RemoveData(p) \/ RenameData(p) \/ RemoveMetadata(p)
  \/ RenameMetadata(p) \/ ReadAge(p) \/ PruneOne(p) \/ Ending(p)

(* A step of a call changes nothing of another's.                          *)
LEMMA MovesAlone ==
  ASSUME NEW p \in Processes, CallTypes, WorkTypes, Moves(p)
  PROVE  Alone(p)
<1>. USE DEF Goto, Ends, files, asked, work, ends, bounds, locals, CallTypes, WorkTypes, Alone
<1>1. CASE Call(p)
  BY <1>1 DEF Call
<1>2. CASE Open(p)
  BY <1>2 DEF Open
<1>3. CASE ReadCacheMetadata(p)
  BY <1>3 DEF ReadCacheMetadata
<1>4. CASE HasData(p)
  BY <1>4 DEF HasData
<1>5. CASE ScanCached(p)
  BY <1>5 DEF ScanCached
<1>6. CASE CopyCached(p)
  BY <1>6 DEF CopyCached
<1>7. CASE RestoreFails(p)
  BY <1>7 DEF RestoreFails
<1>8. CASE DiscardData(p)
  BY <1>8 DEF DiscardData
<1>9. CASE DiscardMetadata(p)
  BY <1>9 DEF DiscardMetadata
<1>10. CASE StreamBatch(p)
  BY <1>10 DEF StreamBatch
<1>11. CASE ScanStreamed(p)
  BY <1>11 DEF ScanStreamed
<1>12. CASE Replace(p)
  BY <1>12 DEF Replace
<1>13. CASE Install(p)
  BY <1>13 DEF Install
<1>14. CASE Inspect(p)
  BY <1>14 DEF Inspect
<1>15. CASE RemoveData(p)
  BY <1>15 DEF RemoveData
<1>16. CASE RenameData(p)
  BY <1>16 DEF RenameData
<1>17. CASE RemoveMetadata(p)
  BY <1>17 DEF RemoveMetadata
<1>18. CASE RenameMetadata(p)
  BY <1>18 DEF RenameMetadata
<1>19. CASE ReadAge(p)
  BY <1>19 DEF ReadAge
<1>20. CASE PruneOne(p)
  BY <1>20 DEF PruneOne
<1>21. CASE Ending(p)
  BY <1>21 DEF Ending
<1>. QED  BY <1>1, <1>2, <1>3, <1>4, <1>5, <1>6, <1>7, <1>8, <1>9, <1>10, <1>11, <1>12, <1>13,
            <1>14, <1>15, <1>16, <1>17, <1>18, <1>19, <1>20, <1>21
         DEF Moves

(* A step of a call keeps what the call knows.                             *)
LEMMA AskedStep ==
  ASSUME NEW p \in Processes, CacheInv, Moves(p)
  PROVE  AskedInv(p)'
<1>. USE DEF Goto, Ends, files, asked, work, ends, bounds, locals, AskedInv, Caching
<1>0. AskedInv(p) /\ CallTypes /\ WorkTypes /\ SharedTypes
  BY DEF CacheInv, Types, Own
<1>1. CASE Call(p)
  BY <1>0, <1>1 DEF Call, CallTypes, WorkTypes
<1>2. CASE Open(p)
  BY <1>0, <1>2 DEF Open, CallTypes, WorkTypes
<1>3. CASE ReadCacheMetadata(p)
  BY <1>0, <1>3 DEF ReadCacheMetadata, CallTypes, WorkTypes
<1>4. CASE HasData(p)
  BY <1>0, <1>4 DEF HasData, CallTypes, WorkTypes
<1>5. CASE ScanCached(p)
  BY <1>0, <1>5 DEF ScanCached, CallTypes, WorkTypes
<1>6. CASE CopyCached(p)
  BY <1>0, <1>6 DEF CopyCached, CallTypes, WorkTypes
<1>7. CASE RestoreFails(p)
  BY <1>0, <1>7 DEF RestoreFails, CallTypes, WorkTypes
<1>8. CASE DiscardData(p)
  BY <1>0, <1>8 DEF DiscardData, CallTypes, WorkTypes
<1>9. CASE DiscardMetadata(p)
  BY <1>0, <1>9 DEF DiscardMetadata, CallTypes, WorkTypes
<1>10. CASE StreamBatch(p)
  BY <1>0, <1>10 DEF StreamBatch, CallTypes, WorkTypes
<1>11. CASE ScanStreamed(p)
  BY <1>0, <1>11 DEF ScanStreamed, CallTypes, WorkTypes
<1>12. CASE Replace(p)
  BY <1>0, <1>12 DEF Replace, CallTypes, WorkTypes
<1>13. CASE Install(p)
  BY <1>0, <1>13 DEF Install, CallTypes, WorkTypes
<1>14. CASE Inspect(p)
  <2>1. CASE via[p] = "cache" \/ ~request[p].cached
    <3>1. Ends(p, "ok") /\ UNCHANGED <<asked, out>> /\ pc[p] = "inspect"
      BY <1>14, <2>1, Zenon DEF Inspect
    <3>. QED  BY <1>0, <3>1 DEF CallTypes, WorkTypes
  <2>2. CASE ~(via[p] = "cache" \/ ~request[p].cached)
    BY <1>0, <1>14, <2>2 DEF Inspect, CallTypes, WorkTypes
  <2>. QED  BY <2>1, <2>2
<1>15. CASE RemoveData(p)
  BY <1>0, <1>15 DEF RemoveData, CallTypes, WorkTypes
<1>16. CASE RenameData(p)
  BY <1>0, <1>16 DEF RenameData, CallTypes, WorkTypes
<1>17. CASE RemoveMetadata(p)
  BY <1>0, <1>17 DEF RemoveMetadata, CallTypes, WorkTypes
<1>18. CASE RenameMetadata(p)
  BY <1>0, <1>18 DEF RenameMetadata, CallTypes, WorkTypes
<1>19. CASE ReadAge(p)
  <2>1. PICK file \in old : victim' = [victim EXCEPT ![p] = file]
    BY <1>19 DEF ReadAge
  <2>2. file # NoVictim
    <3>1. file \in Entries \X Kinds
      BY <1>0 DEF SharedTypes
    <3>2. PICK e \in Entries, kind \in Kinds : file = <<e, kind>>
      BY <3>1
    <3>3. Len(<<e, kind>>) = 2 /\ Len(<< >>) = 0
      OBVIOUS
    <3>. QED  BY <3>2, <3>3 DEF NoVictim
  <2>. QED  BY <1>0, <1>19, <2>1, <2>2 DEF ReadAge, CallTypes, WorkTypes
<1>20. CASE PruneOne(p)
  BY <1>0, <1>20 DEF PruneOne, CallTypes, WorkTypes
<1>21. CASE Ending(p)
  BY <1>0, <1>21, ZenonT(60) DEF Ending, CallTypes, WorkTypes
<1>. QED  BY <1>1, <1>2, <1>3, <1>4, <1>5, <1>6, <1>7, <1>8, <1>9, <1>10, <1>11, <1>12, <1>13,
            <1>14, <1>15, <1>16, <1>17, <1>18, <1>19, <1>20, <1>21
         DEF Moves

(* A step of a call keeps what its temporary is.                           *)
LEMMA WorkStep ==
  ASSUME NEW p \in Processes, CacheInv, Moves(p)
  PROVE  WorkInv(p)'
<1>. USE DEF Goto, Ends, files, asked, work, ends, bounds, locals, WorkInv, Empty, After
<1>0. AskedInv(p) /\ WorkInv(p) /\ CallTypes /\ WorkTypes /\ SharedTypes
  BY DEF CacheInv, Types, Own
<1>1. CASE Call(p)
  <2>1. pc[p] = "idle" /\ pc'[p] \in {"idle", "open"}
    BY <1>0, <1>1 DEF Call, CallTypes
  <2>2. UNCHANGED <<temporary, streamed, via>>
    BY <1>1 DEF Call
  <2>. QED  BY <1>0, <2>1, <2>2 DEF AskedInv
<1>2. CASE Open(p)
  <2>1. pc[p] \in Empty /\ pc'[p] \in {"metadata", "stream"} /\ via[p] = "source"
    BY <1>0, <1>2 DEF Open, CallTypes, WorkTypes, AskedInv
  <2>2. UNCHANGED <<temporary, streamed, via>>
    BY <1>2 DEF Open
  <2>3. temporary'[p] = NoFile /\ streamed'[p] = NoneStreamed
    BY <1>0, <2>1, <2>2
  <2>4. request'[p] \in Requests
    BY <1>0, <1>2 DEF Open, CallTypes
  <2>5. (Streamed(p, streamed[p].hours) /\ streamed[p].hours < Len(Hours(request[p])))'
    BY <2>3, <2>4, StreamStarts DEF Streamed
  <2>. QED  BY <2>1, <2>3, <2>5
<1>3. CASE ReadCacheMetadata(p)
  <2>1. pc[p] \in Empty /\ pc'[p] \in {"is_regular_file", "stream"} /\ via[p] = "source"
    BY <1>0, <1>3 DEF ReadCacheMetadata, CallTypes, WorkTypes, AskedInv
  <2>2. UNCHANGED <<temporary, streamed, via>>
    BY <1>3 DEF ReadCacheMetadata
  <2>3. temporary'[p] = NoFile /\ streamed'[p] = NoneStreamed
    BY <1>0, <2>1, <2>2
  <2>4. request'[p] \in Requests
    BY <1>0, <1>3 DEF ReadCacheMetadata, CallTypes
  <2>5. (Streamed(p, streamed[p].hours) /\ streamed[p].hours < Len(Hours(request[p])))'
    BY <2>3, <2>4, StreamStarts DEF Streamed
  <2>. QED  BY <2>1, <2>3, <2>5
<1>4. CASE HasData(p)
  <2>1. pc[p] \in Empty /\ pc'[p] \in {"scan", "stream"} /\ via[p] = "source"
    BY <1>0, <1>4 DEF HasData, CallTypes, WorkTypes, AskedInv
  <2>2. UNCHANGED <<temporary, streamed, via>>
    BY <1>4 DEF HasData
  <2>3. temporary'[p] = NoFile /\ streamed'[p] = NoneStreamed
    BY <1>0, <2>1, <2>2
  <2>4. request'[p] \in Requests
    BY <1>0, <1>4 DEF HasData, CallTypes
  <2>5. (Streamed(p, streamed[p].hours) /\ streamed[p].hours < Len(Hours(request[p])))'
    BY <2>3, <2>4, StreamStarts DEF Streamed
  <2>. QED  BY <2>1, <2>3, <2>5
<1>5. CASE ScanCached(p)
  <2>1. pc[p] \in Empty /\ pc'[p] \in {"copy", "discard data"} /\ via[p] = "source"
    BY <1>0, <1>5 DEF ScanCached, CallTypes, WorkTypes, AskedInv
  <2>2. UNCHANGED <<temporary, streamed, via>>
    BY <1>5 DEF ScanCached
  <2>. QED  BY <1>0, <2>1, <2>2
<1>6. CASE CopyCached(p)
  <2>1. CASE data[CacheEntry(p)] # NoFile
    <3>1. Whole(data[CacheEntry(p)], reference[p], request[p])
      BY <1>6, <2>1 DEF CopyCached, CacheInv, CopyInv
    <3>2. /\ pc'[p] = "replace" /\ temporary'[p] = data[CacheEntry(p)]
          /\ UNCHANGED <<streamed, request, reference>> /\ pc[p] = "copy"
      BY <1>0, <1>6, <2>1 DEF CopyCached, CallTypes, WorkTypes
    <3>. QED  BY <1>0, <3>1, <3>2
  <2>2. CASE data[CacheEntry(p)] = NoFile
    <3>1. /\ pc[p] = "copy" /\ pc'[p] = "discard data"
          /\ UNCHANGED <<streamed, temporary, via>>
      BY <1>0, <1>6, <2>2 DEF CopyCached, CallTypes, WorkTypes
    <3>. QED  BY <1>0, <3>1 DEF AskedInv
  <2>. QED  BY <2>1, <2>2
<1>7. CASE RestoreFails(p)
  BY <1>0, <1>7 DEF RestoreFails, CallTypes, WorkTypes
<1>8. CASE DiscardData(p)
  <2>1. /\ pc[p] = "discard data" /\ pc'[p] = "discard metadata"
        /\ UNCHANGED <<streamed, temporary, via>>
    BY <1>0, <1>8 DEF DiscardData, CallTypes
  <2>. QED  BY <1>0, <2>1 DEF AskedInv
<1>9. CASE DiscardMetadata(p)
  <2>1. pc[p] \in Empty /\ pc'[p] \in {"stream", "stream"} /\ via[p] = "source"
    BY <1>0, <1>9 DEF DiscardMetadata, CallTypes, WorkTypes, AskedInv
  <2>2. UNCHANGED <<temporary, streamed, via>>
    BY <1>9 DEF DiscardMetadata
  <2>3. temporary'[p] = NoFile /\ streamed'[p] = NoneStreamed
    BY <1>0, <2>1, <2>2
  <2>4. request'[p] \in Requests
    BY <1>0, <1>9 DEF DiscardMetadata, CallTypes
  <2>5. (Streamed(p, streamed[p].hours) /\ streamed[p].hours < Len(Hours(request[p])))'
    BY <2>3, <2>4, StreamStarts DEF Streamed
  <2>. QED  BY <2>1, <2>3, <2>5
<1>10. CASE StreamBatch(p)
  <2>. DEFINE r == request[p]
              a == streamed[p].hours
              n == Len(Hours(r))
              chunk == Chunk(r, a)
              file == temporary'[p]
              b == UpTo(r, a)
  <2>1. /\ StreamedIs(streamed[p].messages, temporary[p], r, reference[p], a) /\ a < n
        /\ a \in Nat /\ r \in Requests /\ temporary[p].messages \in Seq(Message)
    BY <1>0, <1>10 DEF StreamBatch, Streamed, CallTypes, WorkTypes, FileType
  <2>2. /\ file.run = reference[p]
        /\ \/ file.messages = temporary[p].messages \o chunk /\ (file.cut <=> temporary[p].cut)
           \/ file.messages = temporary[p].messages \o Front(chunk) /\ (file.cut <=> temporary[p].cut)
           \/ file.cut
    <3>1. \/ temporary' = [temporary EXCEPT ![p] = Appended(p, chunk, FALSE)]
          \/ temporary' = [temporary EXCEPT ![p] = Appended(p, Front(chunk), FALSE)]
          \/ temporary' = [temporary EXCEPT ![p] = Appended(p, chunk, TRUE)]
      BY <1>10 DEF StreamBatch
    <3>2. file \in {Appended(p, chunk, FALSE), Appended(p, Front(chunk), FALSE), Appended(p, chunk, TRUE)}
      BY <1>0, <3>1 DEF WorkTypes
    <3>3. temporary[p].cut \in BOOLEAN
      BY <1>0 DEF WorkTypes, FileType
    <3>. HIDE DEF chunk, file
    <3>. QED  BY <3>2, <3>3 DEF Appended
  <2>3. /\ streamed'[p] = [hours |-> a + TimeBatchSize, messages |-> streamed[p].messages + Len(chunk)]
        /\ UNCHANGED <<request, reference, via>> /\ pc[p] = "stream"
        /\ pc'[p] = IF streamed'[p].hours < HoursAsked(p) THEN "stream" ELSE "scan streamed"
    BY <1>0, <1>10 DEF StreamBatch, CallTypes, WorkTypes
  <2>4. StreamedIs(streamed[p].messages + Len(chunk), file, r, reference[p], b)
    <3>. DEFINE t == temporary[p]
    <3>. HIDE DEF t, file, r, a
    <3>. QED  BY <2>1, <2>2, StreamGoes DEF t
  <2>5. HoursAsked(p) = n
    BY DEF HoursAsked, Hours
  <2>6. CASE a + TimeBatchSize < n
    <3>1. b = a + TimeBatchSize
      BY <2>6 DEF UpTo
    <3>2. pc'[p] = "stream" /\ streamed'[p].hours = b /\ streamed'[p].messages = streamed[p].messages + Len(chunk)
      BY <2>3, <2>5, <2>6, <3>1
    <3>3. (Streamed(p, streamed[p].hours))' /\ (streamed[p].hours < Len(Hours(request[p])))'
      BY <2>3, <2>4, <2>6, <3>1, <3>2 DEF Streamed
    <3>. QED  BY <1>0, <2>3, <3>2, <3>3 DEF AskedInv
  <2>7. CASE ~(a + TimeBatchSize < n)
    <3>1. b = n
      <4>1. b = IF a + TimeBatchSize < n THEN a + TimeBatchSize ELSE n
        BY DEF UpTo
      <4>2. n \in Nat
        BY <2>1, HoursAre DEF Hours
      <4>. HIDE DEF b, a, n
      <4>. QED  BY <2>1, <2>7, <4>1, <4>2, BoundsAssumption
    <3>2. pc'[p] = "scan streamed" /\ streamed'[p].messages = streamed[p].messages + Len(chunk)
      <4>1. streamed'[p].hours = a + TimeBatchSize /\ streamed'[p].messages = streamed[p].messages + Len(chunk)
        <5>1. streamed'[p] = [hours |-> a + TimeBatchSize, messages |-> streamed[p].messages + Len(chunk)]
          BY <2>3
        <5>. HIDE DEF a, chunk
        <5>. QED  BY <5>1
      <4>2. ~(streamed'[p].hours < HoursAsked(p))
        BY <2>5, <2>7, <4>1
      <4>3. pc'[p] = "scan streamed"
        BY <2>3, <4>2, Zenon
      <4>. QED  BY <4>1, <4>3
    <3>3. (Streamed(p, Len(Hours(request[p]))))'
      BY <2>3, <2>4, <3>1, <3>2 DEF Streamed
    <3>. QED  BY <1>0, <2>3, <3>2, <3>3 DEF AskedInv
  <2>. QED  BY <2>6, <2>7
<1>11. CASE ScanStreamed(p)
  <2>1. /\ pc[p] = "scan streamed" /\ StreamedFits(p) /\ pc'[p] = "replace"
        /\ UNCHANGED <<temporary, streamed, via, request, reference>>
    BY <1>0, <1>11 DEF ScanStreamed, CallTypes
  <2>2. /\ StreamedIs(streamed[p].messages, temporary[p], request[p], reference[p], Len(Hours(request[p])))
        /\ Len(Hours(request[p])) # 0 /\ temporary[p] \in FileType /\ streamed[p].messages \in Nat
    BY <1>0, <2>1, HoursAre DEF Streamed, Hours, CallTypes, WorkTypes
  <2>3. ~temporary[p].cut /\ Len(temporary[p].messages) = streamed[p].messages
    BY <2>1 DEF StreamedFits, Scans
  <2>4. Whole(temporary[p], reference[p], request[p])
    BY <2>2, <2>3 DEF StreamedIs, Whole
  <2>. QED  BY <1>0, <2>1, <2>4 DEF AskedInv
<1>12. CASE Replace(p)
  BY <1>0, <1>12 DEF Replace, CallTypes, WorkTypes
<1>13. CASE Install(p)
  <2>1. /\ pc[p] = "install" /\ pc'[p] = "inspect" /\ UNCHANGED <<streamed, via>>
        /\ temporary'[p] = NoFile
    BY <1>0, <1>13 DEF Install, CallTypes, WorkTypes
  <2>. QED  BY <1>0, <2>1
<1>14. CASE Inspect(p)
  <2>1. CASE via[p] = "cache" \/ ~request[p].cached
    <3>1. Ends(p, "ok") /\ UNCHANGED <<asked, out>> /\ pc[p] = "inspect"
      BY <1>14, <2>1, Zenon DEF Inspect
    <3>. QED  BY <1>0, <3>1 DEF CallTypes, WorkTypes
  <2>2. CASE ~(via[p] = "cache" \/ ~request[p].cached)
    BY <1>0, <1>14, <2>2 DEF Inspect, CallTypes, WorkTypes
  <2>. QED  BY <2>1, <2>2
<1>15. CASE RemoveData(p)
  <2>1. /\ pc[p] = "save" /\ pc'[p] = "rename data" /\ seen'[p] = Metadata(p)
        /\ UNCHANGED <<streamed, temporary, via>>
    BY <1>0, <1>15 DEF RemoveData, CallTypes, WorkTypes
  <2>2. Whole(out[p], reference[p], request[p]) /\ request[p] \in Requests
    BY <1>0, <2>1 DEF CacheInv, Own, OutInv, After, CallTypes
  <2>3. Len(out[p].messages) = Expected(request[p])
    BY <2>2, WholeBegins
  <2>4. Counted(Metadata(p))
    BY <2>3 DEF Metadata, Counted, FingerprintOf, CacheFingerprint, Expected
  <2>. QED  BY <1>0, <2>1, <2>4 DEF AskedInv
<1>16. CASE RenameData(p)
  BY <1>0, <1>16 DEF RenameData, CallTypes, WorkTypes
<1>17. CASE RemoveMetadata(p)
  BY <1>0, <1>17 DEF RemoveMetadata, CallTypes, WorkTypes
<1>18. CASE RenameMetadata(p)
  BY <1>0, <1>18 DEF RenameMetadata, CallTypes, WorkTypes
<1>19. CASE ReadAge(p)
  BY <1>0, <1>19 DEF ReadAge, CallTypes, WorkTypes
<1>20. CASE PruneOne(p)
  BY <1>0, <1>20 DEF PruneOne, CallTypes, WorkTypes
<1>21. CASE Ending(p)
  BY <1>0, <1>21, ZenonT(60) DEF Ending, CallTypes, WorkTypes
<1>. QED  BY <1>1, <1>2, <1>3, <1>4, <1>5, <1>6, <1>7, <1>8, <1>9, <1>10, <1>11, <1>12, <1>13,
            <1>14, <1>15, <1>16, <1>17, <1>18, <1>19, <1>20, <1>21
         DEF Moves

(* A step of a call keeps what its output is.                              *)
LEMMA OutStep ==
  ASSUME NEW p \in Processes, CacheInv, Moves(p)
  PROVE  OutInv(p)'
<1>. USE DEF Goto, Ends, files, asked, work, ends, bounds, locals, OutInv, Before, After
<1>0. OutInv(p) /\ CallTypes /\ WorkTypes
  BY DEF CacheInv, Types, Own
<1>1. CASE Call(p)
  BY <1>0, <1>1, ZenonT(60) DEF Call, CallTypes, WorkTypes
<1>2. CASE Open(p)
  BY <1>0, <1>2 DEF Open, CallTypes, WorkTypes
<1>3. CASE ReadCacheMetadata(p)
  BY <1>0, <1>3 DEF ReadCacheMetadata, CallTypes, WorkTypes
<1>4. CASE HasData(p)
  BY <1>0, <1>4 DEF HasData, CallTypes, WorkTypes
<1>5. CASE ScanCached(p)
  BY <1>0, <1>5 DEF ScanCached, CallTypes, WorkTypes
<1>6. CASE CopyCached(p)
  BY <1>0, <1>6 DEF CopyCached, CallTypes, WorkTypes
<1>7. CASE RestoreFails(p)
  BY <1>0, <1>7 DEF RestoreFails, CallTypes, WorkTypes
<1>8. CASE DiscardData(p)
  BY <1>0, <1>8 DEF DiscardData, CallTypes, WorkTypes
<1>9. CASE DiscardMetadata(p)
  BY <1>0, <1>9 DEF DiscardMetadata, CallTypes, WorkTypes
<1>10. CASE StreamBatch(p)
  BY <1>0, <1>10 DEF StreamBatch, CallTypes, WorkTypes
<1>11. CASE ScanStreamed(p)
  BY <1>0, <1>11 DEF ScanStreamed, CallTypes, WorkTypes
<1>12. CASE Replace(p)
  BY <1>0, <1>12 DEF Replace, CallTypes, WorkTypes
<1>13. CASE Install(p)
  <2>1. /\ pc[p] = "install" /\ pc'[p] = "inspect" /\ out'[p] = temporary[p]
        /\ UNCHANGED <<request, reference, result>>
    BY <1>0, <1>13 DEF Install, CallTypes, WorkTypes
  <2>2. Whole(temporary[p], reference[p], request[p])
    BY <2>1 DEF CacheInv, Own, WorkInv
  <2>. QED  BY <1>0, <2>1, <2>2
<1>14. CASE Inspect(p)
  <2>1. CASE via[p] = "cache" \/ ~request[p].cached
    <3>1. Ends(p, "ok") /\ UNCHANGED <<asked, out>> /\ pc[p] = "inspect"
      BY <1>14, <2>1, Zenon DEF Inspect
    <3>. QED  BY <1>0, <3>1 DEF CallTypes, WorkTypes
  <2>2. CASE ~(via[p] = "cache" \/ ~request[p].cached)
    BY <1>0, <1>14, <2>2 DEF Inspect, CallTypes, WorkTypes
  <2>. QED  BY <2>1, <2>2
<1>15. CASE RemoveData(p)
  BY <1>0, <1>15 DEF RemoveData, CallTypes, WorkTypes
<1>16. CASE RenameData(p)
  BY <1>0, <1>16 DEF RenameData, CallTypes, WorkTypes
<1>17. CASE RemoveMetadata(p)
  BY <1>0, <1>17 DEF RemoveMetadata, CallTypes, WorkTypes
<1>18. CASE RenameMetadata(p)
  BY <1>0, <1>18 DEF RenameMetadata, CallTypes, WorkTypes
<1>19. CASE ReadAge(p)
  BY <1>0, <1>19 DEF ReadAge, CallTypes, WorkTypes
<1>20. CASE PruneOne(p)
  BY <1>0, <1>20 DEF PruneOne, CallTypes, WorkTypes
<1>21. CASE Ending(p)
  BY <1>0, <1>21 DEF Ending, CallTypes, WorkTypes
<1>. QED  BY <1>1, <1>2, <1>3, <1>4, <1>5, <1>6, <1>7, <1>8, <1>9, <1>10, <1>11, <1>12, <1>13,
            <1>14, <1>15, <1>16, <1>17, <1>18, <1>19, <1>20, <1>21
         DEF Moves

-----------------------------------------------------------------------------
(* The cache: what a call saves is whole, and its entry is its own.        *)

(* Calls that share an entry ask for one forecast.                         *)
LEMMA CachesOne ==
  ASSUME NEW p \in Processes, NEW q \in Processes, Types, AskedInv(p), AskedInv(q),
         pc[p] \in Caching, pc[q] \in Caching, CacheEntry(p) = CacheEntry(q)
  PROVE  FingerprintOf(p) = FingerprintOf(q)
<1>1. FingerprintOf(p) \in DOMAIN HashOf /\ FingerprintOf(q) \in DOMAIN HashOf
  BY KnownEntry
<1>. QED  BY <1>1, HashAssumption DEF CacheEntry

(* What SaveCache renames into the entry is its forecast.                  *)
LEMMA StoresWhole ==
  ASSUME NEW p \in Processes, CacheInv, pc[p] \in Caching,
         Whole(out[p], reference[p], request[p])
  PROVE  Stored(CacheEntry(p), out[p])
<1>1. Begun(out[p], reference[p], request[p]) /\ out[p].run = reference[p]
  BY WholeBegins DEF CacheInv, Types, CallTypes, Whole
<1>2. FingerprintOf(p) \in DOMAIN HashOf
  BY KnownEntry DEF CacheInv, Own
<1>3. request[p] \in Requests /\ reference[p] \in Runs
  BY DEF CacheInv, Types, CallTypes
<1>. QED  BY <1>1, <1>2, <1>3 DEF Stored, FingerprintOf, CacheEntry

(* What an entry holds is what every call that comes to it asks for.       *)
LEMMA StoredIsAsked ==
  ASSUME NEW p \in Processes, CacheInv, pc[p] \in Caching, NEW file,
         Stored(CacheEntry(p), file)
  PROVE  Begun(file, reference[p], request[p])
<1>1. FingerprintOf(p) \in DOMAIN HashOf
  BY KnownEntry DEF CacheInv, Own
<1>2. PICK r \in Requests :
        /\ file.run \in Runs /\ CacheFingerprint(file.run, r) \in DOMAIN HashOf
        /\ HashOf[CacheFingerprint(file.run, r)] = CacheEntry(p)
        /\ Begun(file, file.run, r)
  BY DEF Stored
<1>3. CacheFingerprint(file.run, r) = CacheFingerprint(reference[p], request[p])
  BY <1>1, <1>2, HashAssumption DEF CacheEntry, FingerprintOf
<1>4. request[p] \in Requests
  BY DEF CacheInv, Types, CallTypes
<1>. QED  BY <1>2, <1>3, <1>4, SameForecast

(* What a damage leaves is still a beginning.                              *)
LEMMA StoredShorter ==
  ASSUME NEW e \in Entries, NEW file, Stored(e, file), NEW other, other.run = file.run,
         other.messages = SubSeq(file.messages, 1, Len(file.messages) - 1)
           \/ other.messages = file.messages
  PROVE  Stored(e, other)
<1>1. PICK r \in Requests :
        /\ file.run \in Runs /\ CacheFingerprint(file.run, r) \in DOMAIN HashOf
        /\ HashOf[CacheFingerprint(file.run, r)] = e
        /\ Begun(file, file.run, r)
  BY DEF Stored
<1>2. Begun(other, file.run, r)
  BY <1>1, BegunShorter
<1>. QED  BY <1>1, <1>2 DEF Stored

(* What one step may do to the cached file of an entry: remove it, damage  *)
(* it while nobody is about to copy it, or replace it by a whole forecast. *)
Removed(e) == data' = [data EXCEPT ![e] = NoFile]
Damaged(e) ==
  /\ \A p \in Processes : pc[p] = "copy" => CacheEntry(p) # e
  /\ data[e] # NoFile
  /\ \/ data' = [data EXCEPT ![e] = [data[e] EXCEPT !.cut = TRUE]]
     \/ data' = [data EXCEPT ![e] = [data[e] EXCEPT !.messages = SubSeq(@, 1, Len(@) - 1)]]
Replaced(p) ==
  /\ pc[p] \in Caching /\ Whole(out[p], reference[p], request[p])
  /\ data' = [data EXCEPT ![CacheEntry(p)] = out[p]]

DataChanges ==
  \/ UNCHANGED data
  \/ \E e \in Entries : Removed(e) \/ Damaged(e)
  \/ \E p \in Processes : Replaced(p)

(* A step changes the cached data in no other way.                         *)
LEMMA DataStep ==
  ASSUME CacheInv, Next
  PROVE  DataChanges
<1>. USE DEF files, Ending, Fails, bounds
<1>0. Types /\ \A p \in Processes : AskedInv(p)
  BY DEF CacheInv, Own
<1>1. ASSUME NEW p \in Processes, Call(p)
      PROVE  UNCHANGED data
  BY <1>1 DEF Call
<1>2. ASSUME NEW p \in Processes, Open(p)
      PROVE  UNCHANGED data
  BY <1>2 DEF Open
<1>3. ASSUME NEW p \in Processes, ReadCacheMetadata(p)
      PROVE  UNCHANGED data
  BY <1>3 DEF ReadCacheMetadata
<1>4. ASSUME NEW p \in Processes, HasData(p)
      PROVE  UNCHANGED data
  BY <1>4 DEF HasData
<1>5. ASSUME NEW p \in Processes, ScanCached(p)
      PROVE  UNCHANGED data
  BY <1>5 DEF ScanCached
<1>6. ASSUME NEW p \in Processes, CopyCached(p)
      PROVE  UNCHANGED data
  BY <1>6 DEF CopyCached
<1>7. ASSUME NEW p \in Processes, RestoreFails(p)
      PROVE  UNCHANGED data
  BY <1>7 DEF RestoreFails
<1>8. ASSUME NEW p \in Processes, DiscardMetadata(p)
      PROVE  UNCHANGED data
  BY <1>8 DEF DiscardMetadata
<1>9. ASSUME NEW p \in Processes, StreamBatch(p)
      PROVE  UNCHANGED data
  BY <1>9 DEF StreamBatch
<1>10. ASSUME NEW p \in Processes, ScanStreamed(p)
      PROVE  UNCHANGED data
  BY <1>10 DEF ScanStreamed
<1>11. ASSUME NEW p \in Processes, Replace(p)
      PROVE  UNCHANGED data
  BY <1>11 DEF Replace
<1>12. ASSUME NEW p \in Processes, Install(p)
      PROVE  UNCHANGED data
  BY <1>12 DEF Install
<1>13. ASSUME NEW p \in Processes, Inspect(p)
      PROVE  UNCHANGED data
  BY <1>13 DEF Inspect
<1>14. ASSUME NEW p \in Processes, RemoveMetadata(p)
      PROVE  UNCHANGED data
  BY <1>14 DEF RemoveMetadata
<1>15. ASSUME NEW p \in Processes, RenameMetadata(p)
      PROVE  UNCHANGED data
  BY <1>15 DEF RenameMetadata
<1>16. ASSUME NEW p \in Processes, ReadAge(p)
      PROVE  UNCHANGED data
  BY <1>16 DEF ReadAge
<1>17. ASSUME NEW p \in Processes, Ending(p)
      PROVE  UNCHANGED data
  BY <1>17 DEF Ending
<1>18. ASSUME NEW p \in Processes, DiscardData(p)
      PROVE  \E e \in Entries : Removed(e)
  <2>1. CacheEntry(p) \in Entries
    BY <1>0, <1>18, KnownEntry DEF DiscardData, Caching
  <2>. QED  BY <1>18, <2>1 DEF DiscardData, Removed
<1>19. ASSUME NEW p \in Processes, RemoveData(p)
      PROVE  \E e \in Entries : Removed(e)
  <2>1. CacheEntry(p) \in Entries
    BY <1>0, <1>19, KnownEntry DEF RemoveData, Caching
  <2>. QED  BY <1>19, <2>1 DEF RemoveData, Removed
<1>20. ASSUME NEW p \in Processes, PruneOne(p)
      PROVE  UNCHANGED data \/ \E e \in Entries : Removed(e)
  <2>1. victim[p] \in Entries \X Kinds
    BY <1>0, <1>20 DEF PruneOne, AskedInv, Types, CallTypes
  <2>. QED  BY <1>20, <2>1 DEF PruneOne, Removed
<1>21. ASSUME NEW p \in Processes, RenameData(p)
      PROVE  Replaced(p)
  <2>1. pc[p] \in Caching /\ pc[p] \in After
    BY <1>21 DEF RenameData, Caching, After
  <2>2. Whole(out[p], reference[p], request[p])
    BY <2>1 DEF CacheInv, Own, OutInv
  <2>. QED  BY <1>21, <2>1, <2>2 DEF RenameData, Replaced
<1>22. CASE Publish \/ Age
  BY <1>22 DEF Publish, Age, DataChanges
<1>23. ASSUME NEW e \in Entries, Damage(e)
      PROVE  UNCHANGED data \/ Damaged(e)
  BY <1>23 DEF Damage, Damaged
<1>. QED  BY <1>1, <1>2, <1>3, <1>4, <1>5, <1>6, <1>7, <1>8, <1>9, <1>10, <1>11, <1>12, <1>13,
            <1>14, <1>15, <1>16, <1>17, <1>18, <1>19, <1>20, <1>21, <1>22, <1>23, Endings
         DEF Next, Restore, Save, Generate, DataChanges

(* Such a change keeps the entries' files.                                 *)
LEMMA DataKept ==
  ASSUME CacheInv, DataChanges
  PROVE  DataInv'
<1>0. DataInv /\ data \in [Entries -> FileType]
  BY DEF CacheInv, Types, SharedTypes
<1>1. CASE UNCHANGED data
  BY <1>0, <1>1 DEF DataInv
<1>2. ASSUME NEW e \in Entries, Removed(e)
      PROVE  DataInv'
  BY <1>0, <1>2 DEF DataInv, Removed
<1>3. ASSUME NEW e \in Entries, Damaged(e)
      PROVE  DataInv'
  <2>1. Stored(e, data[e])
    BY <1>0, <1>3 DEF DataInv, Damaged
  <2>2. data[e] \in FileType
    BY <1>0
  <2>3. /\ data'[e].run = data[e].run
        /\ \/ data'[e].messages = data[e].messages
           \/ data'[e].messages = SubSeq(data[e].messages, 1, Len(data[e].messages) - 1)
    BY <1>0, <1>3, <2>2 DEF Damaged, FileType
  <2>4. Stored(e, data'[e])
    BY <2>1, <2>3, StoredShorter
  <2>5. \A f \in Entries \ {e} : data'[f] = data[f]
    BY <1>0, <1>3 DEF Damaged
  <2>. QED  BY <1>0, <2>4, <2>5 DEF DataInv
<1>4. ASSUME NEW p \in Processes, Replaced(p)
      PROVE  DataInv'
  <2>1. Stored(CacheEntry(p), out[p])
    BY <1>4, StoresWhole DEF Replaced
  <2>. QED  BY <1>0, <1>4, <2>1 DEF DataInv, Replaced
<1>. QED  BY <1>1, <1>2, <1>3, <1>4 DEF DataChanges

(* The file a call is about to copy changes only into one as good.         *)
LEMMA CopyKept ==
  ASSUME CacheInv, DataChanges, NEW p \in Processes, pc[p] = "copy"
  PROVE  \/ data'[CacheEntry(p)] = NoFile
         \/ Whole(data'[CacheEntry(p)], reference[p], request[p])
<1>. DEFINE c == CacheEntry(p)
<1>0. /\ data \in [Entries -> FileType] /\ c \in Entries /\ pc[p] \in Caching
      /\ (data[c] = NoFile \/ Whole(data[c], reference[p], request[p]))
  BY KnownEntry DEF CacheInv, Types, SharedTypes, CopyInv, Own, Caching
<1>1. CASE UNCHANGED data
  BY <1>0, <1>1
<1>2. ASSUME NEW e \in Entries, Removed(e)
      PROVE  data'[c] = NoFile \/ data'[c] = data[c]
  BY <1>0, <1>2 DEF Removed
<1>3. ASSUME NEW e \in Entries, Damaged(e)
      PROVE  data'[c] = data[c]
  BY <1>0, <1>3 DEF Damaged
<1>4. ASSUME NEW q \in Processes, Replaced(q)
      PROVE  data'[c] = data[c] \/ Whole(data'[c], reference[p], request[p])
  <2>1. CASE CacheEntry(q) # c
    BY <1>0, <1>4, <2>1 DEF Replaced
  <2>2. CASE CacheEntry(q) = c
    <3>1. data'[c] = out[q] /\ pc[q] \in Caching /\ Whole(out[q], reference[q], request[q])
      BY <1>0, <1>4, <2>2 DEF Replaced
    <3>2. request[p] \in Requests /\ request[q] \in Requests
      BY DEF CacheInv, Types, CallTypes
    <3>3. FingerprintOf(p) = FingerprintOf(q)
      BY <1>0, <2>2, <3>1, CachesOne DEF CacheInv, Own
    <3>4. Begun(out[q], reference[q], request[q]) /\ Len(out[q].messages) = Expected(request[q])
      BY <3>1, <3>2, WholeBegins
    <3>5. Begun(out[q], reference[p], request[p]) /\ Expected(request[q]) = Expected(request[p])
      BY <3>2, <3>3, <3>4, SameForecast DEF FingerprintOf
    <3>6. ~out[q].cut
      BY <3>1 DEF Whole
    <3>7. Whole(out[q], reference[p], request[p])
      BY <3>2, <3>4, <3>5, <3>6, BegunType
    <3>. QED  BY <3>1, <3>7
  <2>. QED  BY <2>1, <2>2
<1>. QED  BY <1>0, <1>1, <1>2, <1>3, <1>4 DEF DataChanges

(* What one step may do to the metadata of an entry.                       *)
MetaChanges ==
  \/ UNCHANGED meta
  \/ \E e \in Entries : meta' = [meta EXCEPT ![e] = NoMeta]
  \/ \E p \in Processes : Counted(seen[p]) /\ meta' = [meta EXCEPT ![CacheEntry(p)] = seen[p]]

(* A step changes the metadata in no other way.                            *)
LEMMA MetaStep ==
  ASSUME CacheInv, Next
  PROVE  MetaChanges
<1>. USE DEF files, Ending, Fails, bounds
<1>0. Types /\ \A p \in Processes : AskedInv(p)
  BY DEF CacheInv, Own
<1>1. ASSUME NEW p \in Processes, Call(p)
      PROVE  UNCHANGED meta
  BY <1>1 DEF Call
<1>2. ASSUME NEW p \in Processes, Open(p)
      PROVE  UNCHANGED meta
  BY <1>2 DEF Open
<1>3. ASSUME NEW p \in Processes, ReadCacheMetadata(p)
      PROVE  UNCHANGED meta
  BY <1>3 DEF ReadCacheMetadata
<1>4. ASSUME NEW p \in Processes, HasData(p)
      PROVE  UNCHANGED meta
  BY <1>4 DEF HasData
<1>5. ASSUME NEW p \in Processes, ScanCached(p)
      PROVE  UNCHANGED meta
  BY <1>5 DEF ScanCached
<1>6. ASSUME NEW p \in Processes, CopyCached(p)
      PROVE  UNCHANGED meta
  BY <1>6 DEF CopyCached
<1>7. ASSUME NEW p \in Processes, RestoreFails(p)
      PROVE  UNCHANGED meta
  BY <1>7 DEF RestoreFails
<1>8. ASSUME NEW p \in Processes, DiscardData(p)
      PROVE  UNCHANGED meta
  BY <1>8 DEF DiscardData
<1>9. ASSUME NEW p \in Processes, StreamBatch(p)
      PROVE  UNCHANGED meta
  BY <1>9 DEF StreamBatch
<1>10. ASSUME NEW p \in Processes, ScanStreamed(p)
      PROVE  UNCHANGED meta
  BY <1>10 DEF ScanStreamed
<1>11. ASSUME NEW p \in Processes, Replace(p)
      PROVE  UNCHANGED meta
  BY <1>11 DEF Replace
<1>12. ASSUME NEW p \in Processes, Install(p)
      PROVE  UNCHANGED meta
  BY <1>12 DEF Install
<1>13. ASSUME NEW p \in Processes, Inspect(p)
      PROVE  UNCHANGED meta
  BY <1>13 DEF Inspect
<1>14. ASSUME NEW p \in Processes, RemoveData(p)
      PROVE  UNCHANGED meta
  BY <1>14 DEF RemoveData
<1>15. ASSUME NEW p \in Processes, RenameData(p)
      PROVE  UNCHANGED meta
  BY <1>15 DEF RenameData
<1>16. ASSUME NEW p \in Processes, ReadAge(p)
      PROVE  UNCHANGED meta
  BY <1>16 DEF ReadAge
<1>17. ASSUME NEW p \in Processes, Ending(p)
      PROVE  UNCHANGED meta
  BY <1>17 DEF Ending
<1>18. ASSUME NEW p \in Processes, DiscardMetadata(p)
      PROVE  \E e \in Entries : meta' = [meta EXCEPT ![e] = NoMeta]
  <2>1. CacheEntry(p) \in Entries
    BY <1>0, <1>18, KnownEntry DEF DiscardMetadata, Caching
  <2>. QED  BY <1>18, <2>1 DEF DiscardMetadata
<1>19. ASSUME NEW p \in Processes, RemoveMetadata(p)
      PROVE  \E e \in Entries : meta' = [meta EXCEPT ![e] = NoMeta]
  <2>1. CacheEntry(p) \in Entries
    BY <1>0, <1>19, KnownEntry DEF RemoveMetadata, Caching
  <2>. QED  BY <1>19, <2>1 DEF RemoveMetadata
<1>20. ASSUME NEW p \in Processes, PruneOne(p)
      PROVE  UNCHANGED meta \/ \E e \in Entries : meta' = [meta EXCEPT ![e] = NoMeta]
  <2>1. victim[p] \in Entries \X Kinds
    BY <1>0, <1>20 DEF PruneOne, AskedInv, Types, CallTypes
  <2>. QED  BY <1>20, <2>1 DEF PruneOne
<1>21. ASSUME NEW p \in Processes, RenameMetadata(p)
      PROVE  Counted(seen[p]) /\ meta' = [meta EXCEPT ![CacheEntry(p)] = seen[p]]
  <2>1. Counted(seen[p])
    BY <1>21 DEF RenameMetadata, CacheInv, Own, WorkInv
  <2>. QED  BY <1>21, <2>1 DEF RenameMetadata
<1>22. CASE Publish \/ Age
  BY <1>22 DEF Publish, Age, MetaChanges
<1>23. ASSUME NEW e \in Entries, Damage(e)
      PROVE  UNCHANGED meta \/ meta' = [meta EXCEPT ![e] = NoMeta]
  BY <1>23 DEF Damage
<1>. QED  BY <1>1, <1>2, <1>3, <1>4, <1>5, <1>6, <1>7, <1>8, <1>9, <1>10, <1>11, <1>12, <1>13,
            <1>14, <1>15, <1>16, <1>17, <1>18, <1>19, <1>20, <1>21, <1>22, <1>23, Endings
       DEF Next, Restore, Save, Generate, MetaChanges

(* Such a change keeps the entries' counts.                                *)
LEMMA MetaKept ==
  ASSUME CacheInv, MetaChanges
  PROVE  MetaInv'
<1>0. MetaInv /\ meta \in [Entries -> MetaType]
  BY DEF CacheInv, Types, SharedTypes
<1>1. CASE UNCHANGED meta
  BY <1>0, <1>1 DEF MetaInv
<1>2. ASSUME NEW e \in Entries, meta' = [meta EXCEPT ![e] = NoMeta]
      PROVE  MetaInv'
  BY <1>0, <1>2 DEF MetaInv
<1>3. ASSUME NEW p \in Processes, Counted(seen[p]), meta' = [meta EXCEPT ![CacheEntry(p)] = seen[p]]
      PROVE  MetaInv'
  BY <1>0, <1>3 DEF MetaInv
<1>. QED  BY <1>1, <1>2, <1>3 DEF MetaChanges

(* RestoreCache's scan passes only the whole forecast asked for.           *)
LEMMA ScanSeesWhole ==
  ASSUME CacheInv, NEW p \in Processes, ScanCached(p), pc'[p] = "copy"
  PROVE  Whole(data[CacheEntry(p)], reference[p], request[p])
<1>. DEFINE file == data[CacheEntry(p)]
<1>1. pc[p] = "scan" /\ pc[p] \in Caching /\ pc \in [Processes -> Labels]
  BY DEF ScanCached, Caching, CacheInv, Types, CallTypes
<1>2. CacheEntry(p) \in Entries
  BY <1>1, KnownEntry DEF CacheInv, Own
<1>3. DataFits(p, file)
  BY <1>1 DEF ScanCached, Goto
<1>4. Stored(CacheEntry(p), file)
  BY <1>2, <1>3 DEF CacheInv, DataInv, DataFits, Scans
<1>5. Begun(file, reference[p], request[p])
  BY <1>1, <1>4, StoredIsAsked
<1>6. request[p] \in Requests
  BY DEF CacheInv, Types, CallTypes
<1>7. ~file.cut /\ Len(file.messages) = Expected(request[p])
  BY <1>3 DEF DataFits, Scans
<1>. QED  BY <1>5, <1>6, <1>7, BegunType

(* Only the scan of RestoreCache leads to the copy.                        *)
LEMMA ToCopy ==
  ASSUME NEW p \in Processes, CallTypes, Moves(p), pc'[p] = "copy"
  PROVE  ScanCached(p)
<1>. USE DEF CallTypes, Goto, Ends
<1>1. ~Call(p)
  BY DEF Call
<1>2. ~Open(p)
  BY DEF Open
<1>3. ~ReadCacheMetadata(p)
  BY DEF ReadCacheMetadata
<1>4. ~HasData(p)
  BY DEF HasData
<1>5. ~CopyCached(p)
  BY DEF CopyCached
<1>6. ~RestoreFails(p)
  BY DEF RestoreFails
<1>7. ~DiscardData(p)
  BY DEF DiscardData
<1>8. ~DiscardMetadata(p)
  BY DEF DiscardMetadata
<1>9. ~StreamBatch(p)
  BY DEF StreamBatch
<1>10. ~ScanStreamed(p)
  BY DEF ScanStreamed
<1>11. ~Replace(p)
  BY DEF Replace
<1>12. ~Install(p)
  BY DEF Install
<1>13. ~RemoveData(p)
  BY DEF RemoveData
<1>14. ~RenameData(p)
  BY DEF RenameData
<1>15. ~RemoveMetadata(p)
  BY DEF RemoveMetadata
<1>16. ~RenameMetadata(p)
  BY DEF RenameMetadata
<1>17. ~ReadAge(p)
  BY DEF ReadAge
<1>18. ~PruneOne(p)
  BY DEF PruneOne
<1>19. ~Ending(p)
  BY DEF Ending
<1>20. ~Inspect(p)
  <2>1. CASE via[p] = "cache" \/ ~request[p].cached
    <3>1. Inspect(p) => Ends(p, "ok")
      BY <2>1, Zenon DEF Inspect
    <3>. QED  BY <3>1
  <2>2. CASE ~(via[p] = "cache" \/ ~request[p].cached)
    <3>1. Inspect(p) => Goto(p, "save")
      BY <2>2, Zenon DEF Inspect
    <3>. QED  BY <3>1
  <2>. QED  BY <2>1, <2>2
<1>. QED  BY <1>1, <1>2, <1>3, <1>4, <1>5, <1>6, <1>7, <1>8, <1>9, <1>10, <1>11, <1>12, <1>13,
            <1>14, <1>15, <1>16, <1>17, <1>18, <1>19, <1>20
         DEF Moves

(* A step is of one call, or of none.                                      *)
LEMMA NextIs ==
  ASSUME Next
  PROVE  (\E p \in Processes : Moves(p)) \/ UNCHANGED locals
<1>1. CASE Publish
  BY <1>1 DEF Publish
<1>2. CASE Age
  BY <1>2 DEF Age
<1>3. ASSUME NEW e \in Entries, Damage(e)
      PROVE  UNCHANGED locals
  BY <1>3 DEF Damage
<1>4. ASSUME NEW p \in Processes,
             Call(p) \/ Open(p) \/ LacksHour(p) \/ Restore(p) \/ Generate(p) \/ Save(p) \/ Kill(p)
      PROVE  Moves(p)
  BY <1>4, Endings DEF Moves, Restore, Generate, Save
<1>. QED  BY <1>1, <1>2, <1>3, <1>4 DEF Next

(* Every step keeps the invariant.                                         *)
LEMMA Steps == CacheInv /\ [Next]_vars => CacheInv'
<1>. SUFFICES ASSUME CacheInv, [Next]_vars PROVE CacheInv'
  OBVIOUS
<1>0. /\ Types /\ DataInv /\ MetaInv
      /\ \A p \in Processes : Own(p)
      /\ \A p \in Processes : CopyInv(p)
  BY DEF CacheInv
<1>1. CASE UNCHANGED vars
  <2>. USE <1>1 DEF vars, locals, files, asked, work, ends, bounds
  <2>1. Types'
    BY <1>0 DEF Types, SharedTypes, CallTypes, WorkTypes
  <2>2. DataInv' /\ MetaInv'
    BY <1>0 DEF DataInv, MetaInv
  <2>3. \A p \in Processes : Own(p)'
    BY <1>0, OthersKeep
  <2>4. \A p \in Processes : CopyInv(p)'
    BY <1>0 DEF CopyInv, CacheEntry, FingerprintOf
  <2>. QED  BY <2>1, <2>2, <2>3, <2>4 DEF CacheInv
<1>2. CASE Next
  <2>1. Types'
    BY <1>0, <1>2, TypesStep
  <2>2. DataChanges /\ MetaChanges
    BY <1>2, DataStep, MetaStep
  <2>3. DataInv' /\ MetaInv'
    BY <2>2, DataKept, MetaKept
  <2>4. CASE UNCHANGED locals
    <3>. USE <2>4 DEF locals, asked, work, ends
    <3>1. \A p \in Processes : Own(p)'
      BY <1>0, OthersKeep
    <3>2. ASSUME NEW p \in Processes
          PROVE  CopyInv(p)'
      <4>1. pc[p] = "copy" => \/ data'[CacheEntry(p)] = NoFile
                              \/ Whole(data'[CacheEntry(p)], reference[p], request[p])
        BY <2>2, CopyKept
      <4>. QED  BY <4>1 DEF CopyInv, CacheEntry, FingerprintOf
    <3>. QED  BY <2>1, <2>3, <3>1, <3>2 DEF CacheInv
  <2>5. ASSUME NEW p \in Processes, Moves(p)
        PROVE  CacheInv'
    <3>1. Alone(p)
      BY <1>0, <2>5, MovesAlone DEF Types
    <3>2. AskedInv(p)' /\ WorkInv(p)' /\ OutInv(p)'
      BY <2>5, AskedStep, WorkStep, OutStep
    <3>3. ASSUME NEW q \in Processes PROVE Own(q)'
      <4>1. CASE q = p
        BY <3>2, <4>1 DEF Own
      <4>2. CASE q # p
        BY <1>0, <3>1, <4>2, OthersKeep DEF Alone
      <4>. QED  BY <4>1, <4>2
    <3>4. ASSUME NEW q \in Processes PROVE CopyInv(q)'
      <4>1. CASE q # p
        <5>1. UNCHANGED <<pc[q], request[q], reference[q]>>
          BY <3>1, <4>1 DEF Alone
        <5>2. pc[q] = "copy" => \/ data'[CacheEntry(q)] = NoFile
                                \/ Whole(data'[CacheEntry(q)], reference[q], request[q])
          BY <2>2, CopyKept
        <5>. QED  BY <5>1, <5>2 DEF CopyInv, CacheEntry, FingerprintOf
      <4>2. CASE q = p /\ pc'[p] = "copy"
        <5>1. ScanCached(p)
          BY <1>0, <2>5, <4>2, ToCopy DEF Types
        <5>2. Whole(data[CacheEntry(p)], reference[p], request[p])
          BY <4>2, <5>1, ScanSeesWhole
        <5>3. UNCHANGED <<data, request, reference>>
          BY <5>1 DEF ScanCached, files, asked
        <5>. QED  BY <4>2, <5>2, <5>3 DEF CopyInv, CacheEntry, FingerprintOf
      <4>3. CASE q = p /\ pc'[p] # "copy"
        BY <4>3 DEF CopyInv
      <4>. QED  BY <4>1, <4>2, <4>3
    <3>. QED  BY <2>1, <2>3, <3>3, <3>4 DEF CacheInv
  <2>. QED  BY <1>2, <2>4, <2>5, NextIs
<1>. QED  BY <1>1, <1>2

-----------------------------------------------------------------------------
(* The invariant of the calls and of the directory they share, for any     *)
(* number of processes, requests, runs and faults.                         *)
THEOREM CacheHolds == Spec => []CacheInv
BY Start, Steps, PTL DEF Spec

(* Type correctness: a process is at one step of GenerateMetNoNordic, a    *)
(* victim is chosen exactly while it is about to be removed, and every     *)
(* file of the directory, the temporaries and the outputs is of a run the  *)
(* remote dataset has held.                                                *)
THEOREM TypeCorrect == Spec => []TypeOK
<1>1. CacheInv => TypeOK
  <2>. SUFFICES ASSUME CacheInv PROVE TypeOK
    OBVIOUS
  <2>0. Types /\ NoFile.run = 0 /\ OldFile.run = -1
    BY DEF CacheInv, NoFile, OldFile
  <2>1. latest \in Runs /\ calls \in 0 .. MaxCalls /\ faults \in 0 .. MaxFaults
    BY <2>0 DEF Types, SharedTypes
  <2>2. \A e \in Entries : data[e].run \in {0} \cup Runs /\ meta[e].count \in Nat
    <3>. SUFFICES ASSUME NEW e \in Entries
                  PROVE  data[e].run \in {0} \cup Runs /\ meta[e].count \in Nat
      OBVIOUS
    <3>1. data[e] = NoFile \/ data[e].run \in Runs
      BY DEF CacheInv, DataInv, Stored
    <3>2. meta[e] \in MetaType
      BY <2>0 DEF Types, SharedTypes
    <3>. QED  BY <2>0, <3>1, <3>2 DEF MetaType
  <2>3. old \subseteq Entries \X {"data", "metadata"}
    BY <2>0 DEF Types, SharedTypes, Kinds
  <2>4. ASSUME NEW p \in Processes
        PROVE  /\ pc[p] \in Labels /\ request[p] \in Requests /\ reference[p] \in Runs
               /\ via[p] \in {"cache", "source"}
               /\ result[p] \in {"none", "ok", "failed", "dry", "killed"}
    BY <2>0 DEF Types, CallTypes, WorkTypes
  <2>5. ASSUME NEW p \in Processes
        PROVE  out[p].run \in {-1, 0} \cup Runs
    <3>1. out[p] \in {NoFile, OldFile} \/ out[p].run = reference[p]
      BY DEF CacheInv, Own, OutInv, Whole
    <3>. QED  BY <2>0, <2>4, <3>1
  <2>6. ASSUME NEW p \in Processes
        PROVE  temporary[p].run \in {0} \cup Runs
    <3>1. /\ pc[p] \in Empty \cup After => temporary[p] = NoFile
          /\ pc[p] = "stream" => Streamed(p, streamed[p].hours)
          /\ pc[p] = "scan streamed" => Streamed(p, Len(Hours(request[p])))
          /\ pc[p] \in {"replace", "install"} => Whole(temporary[p], reference[p], request[p])
      BY DEF CacheInv, Own, WorkInv
    <3>2. temporary[p] = NoFile \/ temporary[p].run = reference[p]
      <4>1. CASE pc[p] = "stream"
        BY <3>1, <4>1 DEF Streamed, StreamedIs
      <4>2. CASE pc[p] = "scan streamed"
        BY <3>1, <4>2 DEF Streamed, StreamedIs
      <4>3. CASE pc[p] \in {"replace", "install"}
        BY <3>1, <4>3 DEF Whole
      <4>4. CASE pc[p] \in Empty \cup After
        BY <3>1, <4>4
      <4>. QED  BY <2>4, <4>1, <4>2, <4>3, <4>4 DEF Labels, Empty, After
    <3>. QED  BY <2>0, <2>4, <3>2
  <2>7. ASSUME NEW p \in Processes
        PROVE  victim[p] # NoVictim <=> pc[p] = "prune one"
    BY DEF CacheInv, Own, AskedInv
  <2>. QED  BY <2>1, <2>2, <2>3, <2>4, <2>5, <2>6, <2>7 DEF TypeOK
<1>. QED  BY <1>1, CacheHolds, PTL

(* What RestoreCache copies and what GenerateMetNoNordic streams is, at    *)
(* the output, the old file, nothing, or the whole forecast of the run and *)
(* request of the call, whatever other processes did to the entry between  *)
(* its validation and its copy, and a call that returns has left one.      *)
THEOREM ServesWholeForecasts == Spec => []ServedIsComplete
<1>1. CacheInv => ServedIsComplete
  <2>. SUFFICES ASSUME CacheInv, NEW p \in Processes
                PROVE  /\ \/ out[p] \in {NoFile, OldFile}
                          \/ IsForecast(out[p], reference[p], request[p])
                       /\ result[p] = "ok" => out[p] \notin {NoFile, OldFile}
    BY DEF ServedIsComplete
  <2>1. request[p] \in Requests /\ reference[p] \in Nat \ {0}
    BY RunsAre DEF CacheInv, Types, CallTypes
  <2>2. /\ out[p] \in {NoFile, OldFile} \/ Whole(out[p], reference[p], request[p])
        /\ result[p] = "ok" => Whole(out[p], reference[p], request[p])
    BY DEF CacheInv, Own, OutInv
  <2>3. Whole(out[p], reference[p], request[p]) => IsForecast(out[p], reference[p], request[p])
    BY <2>1, WholeIsForecast
  <2>4. Whole(out[p], reference[p], request[p]) => out[p] \notin {NoFile, OldFile}
    BY <2>1 DEF Whole, NoFile, OldFile
  <2>. QED  BY <2>2, <2>3, <2>4
<1>. QED  BY <1>1, CacheHolds, PTL

(* ExpectedMessageCount agrees with what the streaming loop writes: the    *)
(* metadata SaveCache leaves always has the count RestoreCache requires of *)
(* the entry's preset and hours.                                           *)
THEOREM SavesServable == Spec => []SavedIsServable
<1>1. CacheInv => SavedIsServable
  BY DEF CacheInv, MetaInv, Counted, SavedIsServable
<1>. QED  BY <1>1, CacheHolds, PTL

=============================================================================
