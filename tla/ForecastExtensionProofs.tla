----------------------- MODULE ForecastExtensionProofs -----------------------
(***************************************************************************)
(* Proofs about ForecastExtension and GribStream for any requests, merges, *)
(* horizons, cycles, files of the user and bounds.                         *)
(*                                                                         *)
(* Four parts: what children may deliver and the children themselves are   *)
(* well typed; an invariant of the call, with which neither the output nor *)
(* the temporary is ever anything but what it should be; what the reading  *)
(* loop of the composite keeps, by induction over its turns, told by the   *)
(* places of the messages in the inputs; and that what was judged to cover *)
(* the window still does when it is trimmed and put together.              *)
(*                                                                         *)
(* Least, Induction, Recursion and FlattenIs are proved in                 *)
(* MetNoCacheProofs as well, which has its own model and shares nothing    *)
(* else with this one.                                                     *)
(***************************************************************************)
EXTENDS ForecastExtension, FiniteSetTheorems, NaturalsInduction, WellFoundedInduction, TLAPS

(* A set of numbers has a least one.                                       *)
LEMMA Least ==
  ASSUME NEW T, T \subseteq Nat, T # {}
  PROVE  \E m \in T : \A k \in T : m <= k
<1>1. IsWellFoundedOn(OpToRel(<, Nat), Nat)
  BY NatLessThanWellFounded
<1>2. PICK m \in T : \A k \in T : <<k, m>> \notin OpToRel(<, Nat)
  BY <1>1, WFMin
<1>3. \A k \in T : ~(k < m)
  BY <1>2 DEF OpToRel
<1>4. \A k \in T : m <= k
  <2>1. m \in Nat /\ \A k \in T : k \in Nat
    OBVIOUS
  <2>. QED  BY <1>3, <2>1
<1>. QED BY <1>4

(* What holds of 0, and of n + 1 when it holds of n, holds up to N.        *)
LEMMA Induction ==
  ASSUME NEW N \in Nat, NEW T, 0 \in T, \A n \in 0 .. N - 1 : n \in T => n + 1 \in T
  PROVE  \A n \in 0 .. N : n \in T
<1>. DEFINE U == {n \in 0 .. N : n \notin T}
<1>1. SUFFICES ASSUME U # {} PROVE FALSE
  OBVIOUS
<1>2. PICK m \in U : \A k \in U : m <= k
  <2>1. U \subseteq Nat
    OBVIOUS
  <2>. HIDE DEF U
  <2>. QED  BY <1>1, <2>1, Least
<1>3. m \in 1 .. N
  OBVIOUS
<1>4. m - 1 \in 0 .. N - 1 /\ m - 1 \notin U
  BY <1>2, <1>3
<1>5. m - 1 \in T
  BY <1>4
<1>6. m - 1 + 1 \in T
  BY <1>4, <1>5
<1>. QED  BY <1>3, <1>6

Unfolds(f, N, S, s0, D) == /\ f \in [0 .. N -> S] /\ f[0] = s0
                           /\ \A n \in 1 .. N : f[n] = D[<<n, f[n - 1]>>]

(* A function that is built up from each of its values to the next exists. *)
LEMMA Recursion ==
  ASSUME NEW N \in Nat, NEW S, NEW s0 \in S, NEW D \in [(1 .. N) \X S -> S]
  PROVE  \E f : Unfolds(f, N, S, s0, D)
<1>. DEFINE Upto(n, f) == f[0] = s0 /\ \A k \in 1 .. n : f[k] = D[<<k, f[k - 1]>>]
            T == {n \in 0 .. N : \E f \in [0 .. n -> S] : Upto(n, f)}
<1>1. 0 \in T
  <2>. DEFINE f == [n \in 0 .. 0 |-> s0]
  <2>1. f \in [0 .. 0 -> S] /\ f[0] = s0 /\ 1 .. 0 = {}
    OBVIOUS
  <2>2. Upto(0, f)
    BY <2>1
  <2>. HIDE DEF f, Upto
  <2>. QED  BY <2>1, <2>2
<1>2. ASSUME NEW n \in 0 .. N - 1, n \in T
      PROVE  n + 1 \in T
  <2>1. PICK f \in [0 .. n -> S] : Upto(n, f)
    BY <1>2
  <2>2. n + 1 \in 1 .. N /\ f[n] \in S
    OBVIOUS
  <2>. DEFINE d == D[<<n + 1, f[n]>>]
              g == [k \in 0 .. n + 1 |-> IF k = n + 1 THEN d ELSE f[k]]
  <2>3. d \in S
    BY <2>2
  <2>. HIDE DEF d
  <2>4. g \in [0 .. n + 1 -> S]
    BY <2>3
  <2>5. ASSUME NEW k \in 1 .. n + 1
        PROVE  g[k] = D[<<k, g[k - 1]>>]
    <3>1. CASE k = n + 1
      <4>1. g[k] = d /\ g[k - 1] = f[n]
        BY <3>1
      <4>. HIDE DEF g
      <4>. QED  BY <3>1, <4>1 DEF d
    <3>2. CASE k # n + 1
      <4>1. k \in 1 .. n /\ k - 1 \in 0 .. n
        BY <3>2
      <4>2. g[k] = f[k] /\ g[k - 1] = f[k - 1]
        BY <4>1
      <4>. HIDE DEF g
      <4>. QED  BY <2>1, <4>1, <4>2
    <3>. QED  BY <3>1, <3>2
  <2>6. g[0] = s0
    BY <2>1
  <2>. HIDE DEF g
  <2>7. Upto(n + 1, g)
    BY <2>5, <2>6
  <2>. QED  BY <2>2, <2>4, <2>7
<1>3. N \in T
  <2>. HIDE DEF T
  <2>1. \A n \in 0 .. N : n \in T
    BY <1>1, <1>2, Induction
  <2>. QED  BY <2>1
<1>. QED  BY <1>3 DEF Unfolds

(* FlattenSeq concatenates a sequence of sequences from left to right.     *)
LEMMA FlattenIs ==
  ASSUME NEW S, NEW seqs \in Seq(Seq(S)), Len(seqs) # 0
  PROVE  \E f \in [1 .. Len(seqs) -> Seq(S)] :
           /\ f[1] = seqs[1] /\ \A i \in 2 .. Len(seqs) : f[i] = f[i-1] \o seqs[i]
           /\ FlattenSeq(seqs) = f[Len(seqs)]
<1>. DEFINE L == Len(seqs)
            N == L - 1
            D == [x \in (1 .. N) \X Seq(S) |-> x[2] \o seqs[x[1] + 1]]
<1>1. L \in Nat /\ N \in Nat /\ L = N + 1
  OBVIOUS
<1>2. \A i \in 1 .. L : seqs[i] \in Seq(S)
  OBVIOUS
<1>. HIDE DEF L, N
<1>3. D \in [(1 .. N) \X Seq(S) -> Seq(S)]
  BY <1>1, <1>2
<1>4. \A n \in 1 .. N, s \in Seq(S) : D[<<n, s>>] = s \o seqs[n + 1]
  OBVIOUS
<1>. HIDE DEF D
<1>5. PICK h \in [0 .. N -> Seq(S)] : h[0] = seqs[1] /\ \A n \in 1 .. N : h[n] = D[<<n, h[n - 1]>>]
  <2>1. seqs[1] \in Seq(S)
    BY <1>1, <1>2
  <2>. DEFINE SS == Seq(S)
              s0 == seqs[1]
  <2>2. s0 \in SS
    BY <2>1
  <2>3. D \in [(1 .. N) \X SS -> SS]
    BY <1>3
  <2>4. N \in Nat
    BY <1>1
  <2>. HIDE DEF SS, s0
  <2>5. \E h : Unfolds(h, N, SS, s0, D)
    BY <2>2, <2>3, <2>4, Recursion, Zenon
  <2>. QED  BY <2>5 DEF SS, s0, Unfolds
<1>. DEFINE F(f) == [i \in 1 .. L |-> IF i = 1 THEN seqs[i] ELSE f[i-1] \o seqs[i]]
            g == [i \in 1 .. L |-> h[i - 1]]
<1>6. \A i \in 2 .. L : h[i - 1] = h[i - 2] \o seqs[i]
  <2>. TAKE i \in 2 .. L
  <2>1. i - 1 \in 1 .. N /\ i - 2 \in 0 .. N /\ i - 1 - 1 = i - 2 /\ i - 1 + 1 = i
    BY <1>1
  <2>2. h[i - 1] = D[<<i - 1, h[i - 2]>>]
    BY <1>5, <2>1
  <2>3. h[i - 2] \in Seq(S)
    BY <2>1
  <2>. QED  BY <1>4, <2>1, <2>2, <2>3
<1>7. g = F(g)
  <2>1. ASSUME NEW i \in 1 .. L
        PROVE  h[i - 1] = IF i = 1 THEN seqs[i] ELSE g[i - 1] \o seqs[i]
    <3>1. CASE i = 1
      BY <1>1, <1>5, <3>1
    <3>2. CASE i # 1
      <4>1. i \in 2 .. L /\ i - 1 \in 1 .. L /\ i - 1 - 1 = i - 2
        BY <1>1, <3>2
      <4>2. g[i - 1] = h[i - 2]
        BY <4>1
      <4>. QED  BY <1>6, <3>2, <4>1, <4>2
    <3>. QED  BY <3>1, <3>2
  <2>. QED  BY <2>1
<1>. DEFINE flatten == CHOOSE f : f = F(f)
<1>8. flatten = F(flatten)
  BY <1>7
<1>9. FlattenSeq(seqs) = flatten[L]
  BY DEF FlattenSeq, L
<1>. HIDE DEF flatten
<1>10. flatten[1] = seqs[1] /\ \A i \in 2 .. L : flatten[i] = flatten[i - 1] \o seqs[i]
  <2>1. \A i \in 1 .. L : flatten[i] = IF i = 1 THEN seqs[i] ELSE flatten[i - 1] \o seqs[i]
    BY <1>8
  <2>2. 1 \in 1 .. L /\ \A i \in 2 .. L : i \in 1 .. L /\ i # 1
    BY <1>1
  <2>. QED  BY <2>1, <2>2
<1>11. flatten \in [1 .. L -> Seq(S)]
  <2>. DEFINE T == {n \in 0 .. N : flatten[n + 1] \in Seq(S)}
  <2>1. 0 \in T
    BY <1>1, <1>2, <1>10
  <2>2. ASSUME NEW n \in 0 .. N - 1, n \in T
        PROVE  n + 1 \in T
    <3>. DEFINE i == n + 1 + 1
    <3>1. n + 1 \in 0 .. N /\ i \in 2 .. L /\ i \in 1 .. L /\ i - 1 = n + 1
      BY <1>1
    <3>. HIDE DEF i
    <3>2. flatten[i] = flatten[n + 1] \o seqs[i]
      BY <1>10, <3>1
    <3>3. flatten[n + 1] \in Seq(S) /\ seqs[i] \in Seq(S)
      BY <1>2, <2>2, <3>1
    <3>4. flatten[i] \in Seq(S)
      BY <3>2, <3>3
    <3>. QED  BY <3>1, <3>4 DEF i
  <2>3. \A n \in 0 .. N : n \in T
    <3>. HIDE DEF T
    <3>. QED  BY <1>1, <2>1, <2>2, Induction
  <2>4. \A i \in 1 .. L : flatten[i] \in Seq(S)
    <3>. TAKE i \in 1 .. L
    <3>1. i - 1 \in 0 .. N /\ i - 1 + 1 = i
      BY <1>1
    <3>. QED  BY <2>3, <3>1
  <2>. QED  BY <1>8, <2>4
<1>. QED  BY <1>9, <1>10, <1>11 DEF L

-----------------------------------------------------------------------------
(* The invariant.                                                          *)
Roles == {"preferred", "fallback"}
Names == {"weather", "waves", "current"}
Labels == STRING \cup (Names \X Roles)
(* Strings of the model's own are named: the provers do not know of STRING. *)
Fields == {"wind", "rain", "wave", "current", "mask"}
MessageType == [param : STRING \cup Fields, time : Int \cup {NoTime}, content : Nat]
FileType == [exists : BOOLEAN, parts : Seq(MessageType), cut : BOOLEAN, ours : BOOLEAN]
InputType == [label : Labels, region : STRING \cup {"requested"}, file : FileType]
RunType == [complete : BOOLEAN, times : {T \in SUBSET Int : IsFiniteSet(T)}]
Extending == {"preferred", "judge", "fallback", "accept"}
Writing == {"check", "write", "scan", "rename", "inspect"}

CallTypes ==
  /\ command.how \in {"merge", "environment", "composite"} /\ command.overwrite \in BOOLEAN
  /\ existed \in BOOLEAN /\ inputs \in Seq(InputType)
  /\ pc \in Extending \cup Writing \cup {"roles", "done"}
  /\ expected \in Nat /\ faults \in 0 .. MaxFaults
  /\ result \in {"none", "ok", "error", "killed"}

ExtensionTypes ==
  /\ request \in Requests /\ component \in 1 .. 4
  /\ runs \in [Roles -> RunType]

(* Where a call is, and what it is.                                        *)
PhaseInv ==
  /\ command.how = "composite" => /\ command.overwrite = request.overwrite
                                  /\ command.through = request.hours
  /\ pc \in Extending => command.how = "composite"
  /\ pc \in {"roles", "inspect"} => command.how = "environment"
  /\ pc \in {"judge", "fallback", "accept"} => component <= 3
  /\ pc \in {"fallback", "accept"} \/ runs.fallback.complete => HaveFallback
  /\ pc \in Writing /\ command.how = "composite" => ~request.dry_run
  /\ pc = "done" <=> result # "none"

(* The output is as it was, or all that was wanted.                        *)
OutInv ==
  /\ IF out.ours THEN /\ out = File(Wanted, FALSE) /\ inputs # <<>>
                      /\ pc \in {"inspect", "done"} /\ (command.overwrite \/ ~existed)
     ELSE out \in {NoFile, OldFile} /\ (out.exists <=> existed)
  /\ pc \in {"write", "scan", "rename"} => inputs # <<>> /\ (out.exists => command.overwrite)
  /\ pc = "inspect" => out.ours
  /\ result = "error" /\ out.ours => command.how = "environment"
  /\ result = "ok" => (out.ours <=> ~(command.how = "composite" /\ request.dry_run))

(* The temporary is what was wanted, or shorter, or cut.                   *)
Short(file) == /\ file = File(file.parts, file.cut) /\ file.cut \in BOOLEAN
               /\ Len(file.parts) < Len(Wanted)
TemporaryInv ==
  /\ pc \notin {"scan", "rename"} /\ result # "killed" => temporary = NoFile
  /\ pc = "scan" => /\ expected = Len(Wanted)
                    /\ temporary = File(Wanted, FALSE) \/ Short(temporary)
  /\ pc = "rename" => temporary = File(Wanted, FALSE)

(* Each source of each component is an input once at most.                 *)
Given(label) ==
  \E c \in 1 .. 3 : \/ label = <<Components[c], "preferred">>
                       /\ (c < component \/ (c = component /\ pc # "preferred"))
                    \/ label = <<Components[c], "fallback">>
                       /\ (c < component
                           \/ (c = component /\ pc \notin {"preferred", "judge", "fallback"}))
LabelInv ==
  command.how = "composite" =>
    /\ \A i \in DOMAIN inputs : Given(inputs[i].label)
    /\ \A i, j \in DOMAIN inputs : inputs[i].label = inputs[j].label => i = j

ExtensionInv ==
  CallTypes /\ ExtensionTypes /\ PhaseInv /\ OutInv /\ TemporaryInv /\ LabelInv
-----------------------------------------------------------------------------
(* A finite set of times has a first and a last.                           *)
LEMMA FirstAndLast ==
  ASSUME NEW S \in SUBSET Int, IsFiniteSet(S), S # {}
  PROVE  /\ \E m \in S : \A k \in S : m <= k
         /\ \E m \in S : \A k \in S : k <= m
<1>. DEFINE n == Cardinality(S)
<1>1. n \in Nat /\ n # 0 /\ ExistsBijection(1 .. n, S)
  BY FS_CardinalityType, FS_EmptySet
<1>. HIDE DEF n
<1>2. PICK f \in [1 .. n -> S] : \A s \in S : \E i \in 1 .. n : f[i] = s
  BY <1>1 DEF ExistsBijection, Bijection, Surjection
<1>. DEFINE N == n - 1
            Low == {k \in 0 .. N : \E i \in 1 .. k + 1 : \A j \in 1 .. k + 1 : f[i] <= f[j]}
            High == {k \in 0 .. N : \E i \in 1 .. k + 1 : \A j \in 1 .. k + 1 : f[j] <= f[i]}
<1>3. N \in Nat /\ N + 1 = n /\ \A i \in 1 .. n : f[i] \in Int
  <2>1. N \in Nat /\ N + 1 = n
    BY <1>1
  <2>2. \A i \in 1 .. n : f[i] \in S
    BY <1>2
  <2>. QED  BY <2>1, <2>2
<1>. HIDE DEF N
<1>4. 0 \in Low /\ 0 \in High
  <2>1. 1 \in 1 .. 0 + 1 /\ \A j \in 1 .. 0 + 1 : j = 1
    OBVIOUS
  <2>2. f[1] <= f[1]
    BY <1>1, <1>3
  <2>. QED  BY <1>3, <2>1, <2>2
<1>5. ASSUME NEW k \in 0 .. N - 1, k \in Low
      PROVE  k + 1 \in Low
  <2>1. PICK i \in 1 .. k + 1 : \A j \in 1 .. k + 1 : f[i] <= f[j]
    BY <1>5
  <2>. DEFINE l == k + 1 + 1
  <2>2. /\ l \in 1 .. n /\ i \in 1 .. n /\ i \in 1 .. l /\ k + 1 \in 0 .. N
        /\ \A j \in 1 .. l : j \in 1 .. n /\ (j \in 1 .. k + 1 \/ j = l)
    BY <1>3
  <2>3. CASE f[i] <= f[l]
    <3>1. \A j \in 1 .. l : f[i] <= f[j]
      <4>. HIDE DEF l
      <4>. QED  BY <2>1, <2>2, <2>3
    <3>. QED  BY <2>2, <3>1
  <2>4. CASE ~(f[i] <= f[l])
    <3>1. \A j \in 1 .. l : f[l] <= f[j]
      <4>. HIDE DEF l
      <4>. QED  BY <1>3, <2>1, <2>2, <2>4
    <3>2. l \in 1 .. l
      BY <2>2
    <3>. QED  BY <2>2, <3>1, <3>2
  <2>. QED  BY <2>3, <2>4
<1>6. ASSUME NEW k \in 0 .. N - 1, k \in High
      PROVE  k + 1 \in High
  <2>1. PICK i \in 1 .. k + 1 : \A j \in 1 .. k + 1 : f[j] <= f[i]
    BY <1>6
  <2>. DEFINE l == k + 1 + 1
  <2>2. /\ l \in 1 .. n /\ i \in 1 .. n /\ i \in 1 .. l /\ k + 1 \in 0 .. N
        /\ \A j \in 1 .. l : j \in 1 .. n /\ (j \in 1 .. k + 1 \/ j = l)
    BY <1>3
  <2>3. CASE f[l] <= f[i]
    <3>1. \A j \in 1 .. l : f[j] <= f[i]
      <4>. HIDE DEF l
      <4>. QED  BY <2>1, <2>2, <2>3
    <3>. QED  BY <2>2, <3>1
  <2>4. CASE ~(f[l] <= f[i])
    <3>1. \A j \in 1 .. l : f[j] <= f[l]
      <4>. HIDE DEF l
      <4>. QED  BY <1>3, <2>1, <2>2, <2>4
    <3>2. l \in 1 .. l
      BY <2>2
    <3>. QED  BY <2>2, <3>1, <3>2
  <2>. QED  BY <2>3, <2>4
<1>7. N \in Low /\ N \in High
  <2>. HIDE DEF Low, High
  <2>1. \A k \in 0 .. N : k \in Low
    BY <1>3, <1>4, <1>5, Induction
  <2>2. \A k \in 0 .. N : k \in High
    BY <1>3, <1>4, <1>6, Induction
  <2>. QED  BY <1>3, <2>1, <2>2
<1>8. \E m \in S : \A k \in S : m <= k
  <2>1. PICK i \in 1 .. n : \A j \in 1 .. n : f[i] <= f[j]
    BY <1>3, <1>7
  <2>2. f[i] \in S /\ \A k \in S : f[i] <= k
    BY <1>2, <2>1
  <2>. QED  BY <2>2
<1>9. \E m \in S : \A k \in S : k <= m
  <2>1. PICK i \in 1 .. n : \A j \in 1 .. n : f[j] <= f[i]
    BY <1>3, <1>7
  <2>2. f[i] \in S /\ \A k \in S : k <= f[i]
    BY <1>2, <2>1
  <2>. QED  BY <2>2
<1>. QED  BY <1>8, <1>9

Below(S, t) == {u \in S : u < t}

(* Each member of a finite set of times has as many before it as its place *)
(* among them tells.                                                       *)
LEMMA Ranks ==
  ASSUME NEW S \in SUBSET Int, IsFiniteSet(S), NEW i \in 1 .. Cardinality(S)
  PROVE  \E t \in S : Cardinality(Below(S, t)) = i - 1
<1>. DEFINE n == Cardinality(S)
            N == n - 1
            T == {k \in 0 .. N : \E t \in S : Cardinality(Below(S, t)) = k}
<1>1. n \in Nat /\ n # 0 /\ i - 1 \in 0 .. N /\ N \in Nat /\ S # {}
  BY FS_CardinalityType, FS_EmptySet
<1>2. \A t : IsFiniteSet(Below(S, t)) /\ Below(S, t) \subseteq S
  BY FS_Subset DEF Below
<1>3. 0 \in T
  <2>1. PICK m \in S : \A k \in S : m <= k
    <3>1. \E m \in S : \A k \in S : m <= k
      BY <1>1, FirstAndLast
    <3>. QED  BY <3>1
  <2>2. Below(S, m) = {}
    <3>1. \A u \in S : ~(u < m)
      <4>. TAKE u \in S
      <4>1. u \in Int /\ m \in Int
        OBVIOUS
      <4>. QED  BY <2>1, <4>1
    <3>. QED  BY <3>1 DEF Below
  <2>3. Cardinality(Below(S, m)) = 0
    BY <2>2, FS_EmptySet
  <2>. QED  BY <1>1, <2>3
<1>4. ASSUME NEW k \in 0 .. N - 1, k \in T
      PROVE  k + 1 \in T
  <2>1. PICK t \in S : Cardinality(Below(S, t)) = k
    BY <1>4
  <2>. DEFINE A == {u \in S : t < u}
              B == Below(S, t) \cup {t}
  <2>2. IsFiniteSet(B) /\ Cardinality(B) = k + 1
    <3>1. t \notin Below(S, t)
      BY DEF Below
    <3>. QED  BY <1>2, <2>1, <3>1, FS_AddElement
  <2>3. A # {}
    <3>1. ASSUME A = {} PROVE S = B
      <4>1. \A u \in S : u < t \/ u = t
        <5>. TAKE u \in S
        <5>1. u \in Int /\ t \in Int /\ ~(t < u)
          BY <3>1
        <5>. QED  BY <5>1
      <4>. QED  BY <4>1 DEF Below
    <3>2. k + 1 # n
      BY <1>1
    <3>. QED  BY <2>2, <3>1, <3>2
  <2>4. A \in SUBSET Int /\ IsFiniteSet(A)
    BY FS_Subset
  <2>5. PICK m \in A : \A u \in A : m <= u
    <3>. HIDE DEF A
    <3>1. \E m \in A : \A u \in A : m <= u
      BY <2>3, <2>4, FirstAndLast
    <3>. QED  BY <3>1
  <2>6. Below(S, m) = B
    <3>1. m \in S /\ m \in Int /\ t \in Int /\ t < m
      BY <2>5
    <3>2. \A u \in S : u < m <=> u < t \/ u = t
      <4>. TAKE u \in S
      <4>1. u \in Int
        OBVIOUS
      <4>2. t < u => m <= u
        BY <2>5
      <4>. QED  BY <3>1, <4>1, <4>2
    <3>. QED  BY <3>2 DEF Below
  <2>7. Cardinality(Below(S, m)) = k + 1 /\ m \in S
    BY <2>2, <2>6
  <2>8. k + 1 \in 0 .. N
    BY <1>1
  <2>. QED  BY <2>7, <2>8
<1>5. i - 1 \in T
  <2>. HIDE DEF T, N
  <2>1. \A k \in 0 .. N : k \in T
    BY <1>1, <1>3, <1>4, Induction
  <2>. QED  BY <1>1, <2>1
<1>. QED  BY <1>5

(* Ascending enumerates a finite set of times, each at its rank.           *)
LEMMA AscendingIs ==
  ASSUME NEW S \in SUBSET Int, IsFiniteSet(S)
  PROVE  /\ Ascending(S) \in [1 .. Cardinality(S) -> S] /\ Cardinality(S) \in Nat
         /\ \A i \in 1 .. Cardinality(S) : Cardinality(Below(S, Ascending(S)[i])) = i - 1
<1>1. Cardinality(S) \in Nat
  BY FS_CardinalityType
<1>2. ASSUME NEW i \in 1 .. Cardinality(S)
      PROVE  /\ (CHOOSE t \in S : Cardinality({u \in S : u < t}) = i - 1) \in S
             /\ i - 1 = Cardinality(Below(S, CHOOSE t \in S :
                                              Cardinality({u \in S : u < t}) = i - 1))
  BY Ranks DEF Below
<1>. QED  BY <1>1, <1>2 DEF Ascending

(* The image of a finite set is finite.                                    *)
LEMMA Image ==
  ASSUME NEW S, IsFiniteSet(S), NEW f, DOMAIN f = S, f = [x \in S |-> f[x]]
  PROVE  IsFiniteSet({f[x] : x \in S})
<1>. DEFINE T == {f[x] : x \in S}
<1>1. f \in Surjection(S, T)
  BY DEF Surjection
<1>. HIDE DEF T
<1>2. IsFiniteSet(T)
  BY <1>1, FS_Surjection
<1>. QED  BY <1>2 DEF T

(* Concatenated sequences make a sequence.                                 *)
LEMMA FlattenTyped ==
  ASSUME NEW S, NEW seqs \in Seq(Seq(S))
  PROVE  FlattenSeq(seqs) \in Seq(S)
<1>1. CASE Len(seqs) = 0
  <2>1. seqs = << >>
    BY <1>1
  <2>2. FlattenSeq(seqs) = << >>
    BY <1>1, <2>1 DEF FlattenSeq
  <2>. QED  BY <2>2
<1>2. CASE Len(seqs) # 0
  <2>1. PICK f \in [1 .. Len(seqs) -> Seq(S)] : FlattenSeq(seqs) = f[Len(seqs)]
    BY <1>2, FlattenIs
  <2>. QED  BY <1>2, <2>1, SMTT(30)
<1>. QED  BY <1>1, <1>2

(* What a child delivers is a stream of messages.                          *)
LEMMA StreamTyped ==
  ASSUME Name \in Names, NEW source, NEW times \in SUBSET Int, IsFiniteSet(times)
  PROVE  File(Stream(source, times), FALSE) \in FileType
<1>. DEFINE fields == FieldsOf(source)
            at(t) == [f \in DOMAIN fields |-> Message(fields[f], t, f)]
            sorted == Ascending(times)
            seqs == [i \in DOMAIN sorted |-> at(sorted[i])]
            mask == IF source = "existing-file" THEN <<Message("mask", NoTime, 1)>> ELSE << >>
<1>1. fields \in Seq(Fields)
  <2>1. CASE Name = "weather" /\ source = "gfs"
    <3>1. fields = <<"wind", "rain", "rain">>
      BY <2>1 DEF FieldsOf
    <3>. QED  BY <3>1 DEF Fields
  <2>2. CASE Name = "weather" /\ source # "gfs"
    <3>1. fields = <<"wind">>
      BY <2>2 DEF FieldsOf
    <3>. QED  BY <3>1 DEF Fields
  <2>3. CASE Name = "waves"
    <3>1. fields = <<"wave">>
      BY <2>3 DEF FieldsOf
    <3>. QED  BY <3>1 DEF Fields
  <2>4. CASE Name = "current"
    <3>1. fields = <<"current">>
      BY <2>4 DEF FieldsOf
    <3>. QED  BY <3>1 DEF Fields
  <2>. QED  BY <2>1, <2>2, <2>3, <2>4 DEF Names
<1>. HIDE DEF fields
<1>2. \A t \in Int : at(t) \in Seq(MessageType)
  <2>. TAKE t \in Int
  <2>1. \A f \in DOMAIN fields : Message(fields[f], t, f) \in MessageType
    BY <1>1 DEF Message, MessageType
  <2>. QED  BY <1>1, <2>1
<1>3. sorted \in [1 .. Cardinality(times) -> times] /\ Cardinality(times) \in Nat
  BY AscendingIs
<1>. HIDE DEF sorted, at
<1>4. seqs \in Seq(Seq(MessageType))
  <2>1. \A i \in DOMAIN sorted : at(sorted[i]) \in Seq(MessageType)
    BY <1>2, <1>3
  <2>. QED  BY <1>3, <2>1
<1>. HIDE DEF seqs
<1>5. FlattenSeq(seqs) \in Seq(MessageType)
  BY <1>4, FlattenTyped
<1>6. mask \in Seq(MessageType)
  <2>1. Message("mask", NoTime, 1) \in MessageType
    BY DEF Message, MessageType, Fields
  <2>. QED  BY <2>1
<1>. HIDE DEF mask
<1>7. FlattenSeq(seqs) \o mask \in Seq(MessageType)
  BY <1>5, <1>6
<1>8. Stream(source, times) = FlattenSeq(seqs) \o mask
  BY Zenon DEF Stream, seqs, at, sorted, fields, mask
<1>. QED  BY <1>7, <1>8 DEF File, FileType

ChildType == [source : STRING, from : Int, hours : Int, step : Nat \ {0}, partial : BOOLEAN]

(* The leads of a child are finitely many integers.                        *)
LEMMA LeadsFinite ==
  ASSUME NEW hours \in Int, NEW step \in Nat \ {0}
  PROVE  Leads(hours, step) \in SUBSET Int /\ IsFiniteSet(Leads(hours, step))
<1>. DEFINE f == [k \in 0 .. hours \div step |-> k * step]
<1>1. hours \div step \in Int
  OBVIOUS
<1>2. IsFiniteSet(0 .. hours \div step)
  BY <1>1, FS_Interval
<1>3. IsFiniteSet({f[k] : k \in 0 .. hours \div step})
  <2>1. DOMAIN f = 0 .. hours \div step /\ f = [k \in 0 .. hours \div step |-> f[k]]
    OBVIOUS
  <2>. HIDE DEF f
  <2>. QED  BY <1>2, <2>1, Image
<1>4. Leads(hours, step) = {f[k] : k \in 0 .. hours \div step}
  BY DEF Leads
<1>5. \A k \in 0 .. hours \div step : k * step \in Int
  BY <1>1
<1>. QED  BY <1>3, <1>4, <1>5 DEF Leads

(* A finite set of times stays one when it is moved to a reference time.   *)
LEMMA Shifted ==
  ASSUME NEW S \in SUBSET Int, IsFiniteSet(S), NEW c \in Int
  PROVE  {c + lead : lead \in S} \in SUBSET Int /\ IsFiniteSet({c + lead : lead \in S})
<1>. DEFINE f == [lead \in S |-> c + lead]
<1>1. IsFiniteSet({f[lead] : lead \in S})
  <2>1. DOMAIN f = S /\ f = [lead \in S |-> f[lead]]
    OBVIOUS
  <2>. HIDE DEF f
  <2>. QED  BY <2>1, Image
<1>2. {f[lead] : lead \in S} = {c + lead : lead \in S}
  OBVIOUS
<1>3. \A lead \in S : c + lead \in Int
  <2>. TAKE lead \in S
  <2>1. lead \in Int
    OBVIOUS
  <2>. QED  BY <2>1
<1>. QED  BY <1>1, <1>2, <1>3

(* So are those of a series that part of an interval makes.                *)
LEMMA PartFinite ==
  ASSUME NEW from \in Int, NEW to \in Int, NEW S, S \subseteq from .. to
  PROVE  S \in SUBSET Int /\ IsFiniteSet(S)
<1>1. IsFiniteSet(from .. to) /\ from .. to \subseteq Int
  BY FS_Interval
<1>. QED  BY <1>1, FS_Subset

(* The leads of a model cycle, whatever the cadence of its source.         *)
LEMMA CycleHoursTyped ==
  ASSUME NEW source, NEW hours \in Int, NEW step \in Nat \ {0}
  PROVE  /\ CycleHours(source, hours, step) \in SUBSET Int
         /\ IsFiniteSet(CycleHours(source, hours, step))
<1>1. Leads(hours, step) \in SUBSET Int /\ IsFiniteSet(Leads(hours, step))
  BY LeadsFinite
<1>2. CASE source = "noaa_rtofs_global"
  <2>. DEFINE by == Max({RtofsStep, step})
              rounded == hours - (hours % by)
              A == {h \in RtofsStep .. hours : (h - RtofsStep) % by = 0}
              B == IF rounded >= RtofsStep THEN {rounded} ELSE {}
  <2>1. by \in Nat \ {0}
    <3>1. RtofsStep \in Nat \ {0} /\ RtofsStep \in Int /\ step \in Int
      BY SourcesAssumption
    <3>2. by \in {RtofsStep, step}
      <4>1. IsFiniteSet({RtofsStep} \cup {step}) /\ {RtofsStep, step} = {RtofsStep} \cup {step}
        BY FS_Singleton, FS_AddElement
      <4>2. {RtofsStep, step} \in SUBSET Int /\ IsFiniteSet({RtofsStep, step})
        BY <3>1, <4>1
      <4>. QED  BY <4>2, FirstAndLast DEF Max
    <3>. QED  BY <3>1, <3>2
  <2>. HIDE DEF by
  <2>2. A \in SUBSET Int /\ IsFiniteSet(A)
    <3>1. RtofsStep \in Int /\ A \subseteq RtofsStep .. hours
      BY SourcesAssumption
    <3>. HIDE DEF A
    <3>. QED  BY <3>1, PartFinite
  <2>3. rounded \in Int
    BY <2>1
  <2>4. B \in SUBSET Int /\ IsFiniteSet(B)
    BY <2>3, FS_Singleton, FS_EmptySet
  <2>5. CycleHours(source, hours, step) = A \cup B
    BY <1>2 DEF CycleHours, RtofsHours, by
  <2>. HIDE DEF A, B
  <2>. QED  BY <2>2, <2>4, <2>5, FS_Union
<1>3. CASE source = "ukmo_ukv" /\ step = 1
  <2>. DEFINE A == {lead \in 0 .. hours : lead <= UkvHourly \/ (lead - UkvHourly) % UkvStep = 0}
  <2>1. A \subseteq 0 .. hours /\ 0 \in Int
    OBVIOUS
  <2>2. CycleHours(source, hours, step) = A
    BY <1>3 DEF CycleHours, UkvHours
  <2>. HIDE DEF A
  <2>. QED  BY <2>1, <2>2, PartFinite
<1>4. CASE source # "noaa_rtofs_global" /\ ~(source = "ukmo_ukv" /\ step = 1)
  <2>1. CycleHours(source, hours, step) = Leads(hours, step)
    BY <1>4 DEF CycleHours, UkvHours
  <2>. QED  BY <1>1, <2>1
<1>. QED  BY <1>2, <1>3, <1>4

(* Whatever a child delivers is a finite set of hours.                     *)
LEMMA DeliveriesTyped ==
  ASSUME NEW child \in ChildType, NEW times \in Deliveries(child)
  PROVE  times \in SUBSET Int /\ IsFiniteSet(times)
<1>. DEFINE leads == Leads(child.hours, child.step)
            hours == CycleHours(child.source, child.hours, child.step)
<1>0. child.from \in Int /\ child.hours \in Int /\ child.step \in Nat \ {0}
  BY DEF ChildType
<1>1. leads \in SUBSET Int /\ IsFiniteSet(leads)
  BY <1>0, LeadsFinite
<1>2. hours \in SUBSET Int /\ IsFiniteSet(hours)
  BY <1>0, CycleHoursTyped
<1>3. CASE child.source \in AsGiven
  <2>1. CASE child.source = "existing-file"
    <3>1. child.source \notin OnCycle /\ child.source # "marine_ie_irish_sea"
      BY <2>1 DEF OnCycle
    <3>2. Deliveries(child) = GivenFiles
      BY <2>1, <3>1 DEF Deliveries
    <3>. QED  BY <3>2, SourcesAssumption
  <2>2. CASE child.source = "marine_ie_irish_sea"
    <3>1. child.source \notin OnCycle /\ child.source # "existing-file"
      BY <2>2 DEF OnCycle
    <3>2. Deliveries(child) = GivenFiles \ {{}}
      BY <2>2, <3>1 DEF Deliveries
    <3>. QED  BY <3>2, SourcesAssumption
  <2>. QED  BY <1>3, <2>1, <2>2 DEF AsGiven
<1>4. CASE child.source \in OnCycle
  <2>1. child.source # "existing-file" /\ child.source # "marine_ie_irish_sea"
    BY <1>4 DEF OnCycle
  <2>2. PICK c \in Cycles : times = {c + lead : lead \in hours}
    BY <1>4, <2>1 DEF Deliveries
  <2>3. c \in Int
    BY SourcesAssumption
  <2>. HIDE DEF hours
  <2>. QED  BY <1>2, <2>2, <2>3, Shifted
<1>5. CASE child.source \notin AsGiven /\ child.source \notin OnCycle
  <2>. DEFINE all == {child.from + lead : lead \in leads}
  <2>1. all \in SUBSET Int /\ IsFiniteSet(all)
    <3>. HIDE DEF leads
    <3>. QED  BY <1>0, <1>1, Shifted
  <2>2. times \in IF child.partial THEN {{t \in all : t <= last} : last \in all} ELSE {all}
    BY <1>5 DEF Deliveries, AsGiven
  <2>3. times \subseteq all
    <3>. HIDE DEF all
    <3>1. CASE child.partial
      BY <2>2, <3>1
    <3>2. CASE ~child.partial
      BY <2>2, <3>2
    <3>. QED  BY <3>1, <3>2
  <2>. HIDE DEF all
  <2>. QED  BY <2>1, <2>3, FS_Subset
<1>. QED  BY <1>3, <1>4, <1>5

(* Min and Max of a finite set of hours are its bounds.                    *)
LEMMA MinMax ==
  ASSUME NEW S \in SUBSET Int, IsFiniteSet(S), S # {}
  PROVE  /\ Min(S) \in S /\ \A k \in S : Min(S) <= k
         /\ Max(S) \in S /\ \A k \in S : k <= Max(S)
<1>1. PICK m \in S : \A k \in S : m <= k
  BY FirstAndLast
<1>2. PICK l \in S : \A k \in S : k <= l
  BY FirstAndLast
<1>3. Min(S) \in S /\ \A k \in S : Min(S) <= k
  BY <1>1 DEF Min
<1>4. Max(S) \in S /\ \A k \in S : k <= Max(S)
  BY <1>2 DEF Max
<1>. QED  BY <1>3, <1>4

(* Min and Max of two numbers.                                             *)
LEMMA OfTwo ==
  ASSUME NEW a \in Int, NEW b \in Int
  PROVE  /\ Max({a, b}) \in {a, b} /\ a <= Max({a, b}) /\ b <= Max({a, b})
         /\ Min({a, b}) \in {a, b} /\ Min({a, b}) <= a /\ Min({a, b}) <= b
<1>1. IsFiniteSet({a, b})
  <2>1. IsFiniteSet({a} \cup {b})
    BY FS_Singleton, FS_AddElement
  <2>2. {a, b} = {a} \cup {b}
    OBVIOUS
  <2>. QED  BY <2>1, <2>2
<1>2. {a, b} \in SUBSET Int /\ {a, b} # {} /\ a \in {a, b} /\ b \in {a, b}
  OBVIOUS
<1>. DEFINE S == {a, b}
<1>. HIDE DEF S
<1>3. S \in SUBSET Int /\ IsFiniteSet(S) /\ S # {} /\ a \in S /\ b \in S
  BY <1>1, <1>2 DEF S
<1>4. /\ Max(S) \in S /\ a <= Max(S) /\ b <= Max(S)
      /\ Min(S) \in S /\ Min(S) <= a /\ Min(S) <= b
  BY <1>3, MinMax
<1>. QED  BY <1>4 DEF S

(* The component in hand, and its sources and steps.                       *)
LEMMA NameIs ==
  ASSUME component \in 1 .. 3
  PROVE  Name \in Names
<1>1. component = 1 \/ component = 2 \/ component = 3
  OBVIOUS
<1>. QED  BY <1>1 DEF Name, Components, Names

(* What an accepted request holds.                                         *)
LEMMA RequestIs ==
  ASSUME request \in Requests
  PROVE  /\ \A name \in Names : /\ request[name] \in Sources
                                /\ request[name].preferred \in STRING
                                /\ request[name].fallback \in STRING
         /\ request.hours \in Nat /\ request.step \in Nat \ {0} /\ request.waveStep \in Int
         /\ request.dry_run \in BOOLEAN /\ request.overwrite \in BOOLEAN
<1>1. request \in [weather : Sources, waves : Sources, current : Sources, hours : Nat,
                   step : Nat \ {0}, waveStep : Int, dry_run : BOOLEAN, overwrite : BOOLEAN]
  BY RequestsAssumption
<1>2. /\ request["weather"] \in Sources /\ request["waves"] \in Sources
      /\ request["current"] \in Sources
  BY <1>1
<1>3. \A name \in Names : request[name] \in Sources
  BY <1>2 DEF Names
<1>4. \A x \in Sources : x.preferred \in STRING /\ x.fallback \in STRING
  BY DEF Sources
<1>. QED  BY <1>1, <1>3, <1>4

(* Whatever a component asks for, its step is at least an hour.            *)
LEMMA StepIs ==
  ASSUME request \in Requests, NEW name \in Names, NEW role \in Roles
  PROVE  StepOf(name, role) \in Nat \ {0}
<1>1. request.step \in Nat \ {0} /\ request.waveStep \in Int
  BY RequestIs
<1>2. CASE name = "weather"
  <2>. DEFINE provider == request.weather[role]
              fallback == role = "fallback"
              step == request.step
  <2>1. StepOf(name, role) = WeatherStep(provider, step, fallback)
    BY <1>2 DEF StepOf
  <2>. HIDE DEF provider, fallback, step
  <2>2. step \in Nat \ {0}
    BY <1>1 DEF step
  <2>3. CASE provider = "noaa_hrrr"
    <3>1. WeatherStep(provider, step, fallback) = 1
      BY <2>3 DEF WeatherStep
    <3>. QED  BY <2>1, <3>1
  <2>4. CASE provider \in {"ukmo_ukv", "dwd_icon_eu"}
    <3>1. WeatherStep(provider, step, fallback) = IF step = 1 THEN 1 ELSE 3
      BY <2>4 DEF WeatherStep
    <3>. QED  BY <2>1, <3>1
  <2>5. CASE provider = "metno_nordic"
    <3>1. WeatherStep(provider, step, fallback)
            = IF step = 1 THEN 1 ELSE IF step <= 3 THEN 3 ELSE IF step <= 6 THEN 6 ELSE 12
      BY <2>5 DEF WeatherStep
    <3>. QED  BY <2>1, <3>1
  <2>6. CASE provider = "ecmwf_aifs_open"
    <3>1. WeatherStep(provider, step, fallback) = 6
      BY <2>6 DEF WeatherStep
    <3>. QED  BY <2>1, <3>1
  <2>7. CASE provider = "ecmwf_ifs_open"
    <3>1. WeatherStep(provider, step, fallback) = 3
      BY <2>7 DEF WeatherStep
    <3>. QED  BY <2>1, <3>1
  <2>8. CASE provider = "gfs" /\ fallback
    <3>1. WeatherStep(provider, step, fallback) = 3
      BY <2>8 DEF WeatherStep
    <3>. QED  BY <2>1, <3>1
  <2>9. CASE /\ provider \notin {"noaa_hrrr", "ukmo_ukv", "dwd_icon_eu", "metno_nordic",
                                 "ecmwf_aifs_open", "ecmwf_ifs_open"}
             /\ ~(provider = "gfs" /\ fallback)
    <3>1. WeatherStep(provider, step, fallback) = step
      BY <2>9 DEF WeatherStep
    <3>. QED  BY <2>1, <2>2, <3>1
  <2>. QED  BY <2>3, <2>4, <2>5, <2>6, <2>7, <2>8, <2>9
<1>3. CASE name = "waves"
  <2>1. StepOf(name, role) = IF role = "fallback" THEN 3 ELSE Max({1, request.waveStep})
    BY <1>3 DEF StepOf
  <2>2. Max({1, request.waveStep}) \in {1, request.waveStep} /\ 1 <= Max({1, request.waveStep})
    <3>1. 1 \in Int /\ request.waveStep \in Int
      BY <1>1
    <3>. QED  BY <3>1, OfTwo, Zenon
  <2>. QED  BY <1>1, <2>1, <2>2
<1>4. CASE name = "current"
  <2>1. StepOf(name, role) = Max({1, request.step})
    BY <1>4 DEF StepOf
  <2>2. Max({1, request.step}) \in {1, request.step}
    <3>1. 1 \in Int /\ request.step \in Int
      BY <1>1
    <3>. QED  BY <3>1, OfTwo, Zenon
  <2>. QED  BY <1>1, <2>1, <2>2
<1>. QED  BY <1>2, <1>3, <1>4 DEF Names

(* Hours aligned to a step are hours.                                      *)
LEMMA Aligned ==
  ASSUME NEW hours \in Int, NEW step \in Nat \ {0}
  PROVE  AlignDown(hours, step) \in Int /\ AlignUp(hours, step) \in Int
<1>1. hours % step \in Int
  OBVIOUS
<1>. QED  BY <1>1 DEF AlignDown, AlignUp

(* Both children of a component are well formed.                           *)
LEMMA PreferredChildTyped ==
  ASSUME request \in Requests, Name \in Names
  PROVE  PreferredChild \in ChildType
<1>1. /\ Preferred \in STRING /\ Hours \in Nat /\ Step("preferred") \in Nat \ {0}
      /\ Allowance \in Nat
  BY RequestIs, StepIs, SourcesAssumption DEF Preferred, Hours, Step, Roles
<1>2. Target \in Int
  <2>1. CASE Name = "weather"
    <3>1. Target = AlignUp(Hours + (IF Preferred = "existing-file" THEN 0 ELSE Allowance),
                           Step("preferred"))
      BY <2>1 DEF Target
    <3>2. Hours + (IF Preferred = "existing-file" THEN 0 ELSE Allowance) \in Int
      BY <1>1
    <3>. QED  BY <1>1, <3>1, <3>2, Aligned
  <2>2. CASE Name = "waves"
    <3>1. Target = AlignUp(Hours + (IF Preferred = "gfs_wave" THEN Allowance ELSE 0),
                           Step("preferred"))
      BY <2>2 DEF Target
    <3>2. Hours + (IF Preferred = "gfs_wave" THEN Allowance ELSE 0) \in Int
      BY <1>1
    <3>. QED  BY <1>1, <3>1, <3>2, Aligned
  <2>3. CASE Name = "current"
    <3>1. Target = Hours
      BY <2>3 DEF Target
    <3>. QED  BY <1>1, <3>1
  <2>. QED  BY <2>1, <2>2, <2>3 DEF Names
<1>3. Horizon(Preferred, Target) \in Int
  <2>1. CASE Preferred \in DOMAIN HorizonOf
    <3>1. HorizonOf[Preferred] \in Nat
      BY <2>1, SourcesAssumption
    <3>2. HorizonOf[Preferred] \in Int
      BY <3>1
    <3>3. Min({Target, HorizonOf[Preferred]}) \in {Target, HorizonOf[Preferred]}
      BY <1>2, <3>2, OfTwo, Zenon
    <3>. QED  BY <1>2, <2>1, <3>2, <3>3 DEF Horizon
  <2>2. CASE Preferred \notin DOMAIN HorizonOf
    BY <1>2, <2>2 DEF Horizon
  <2>. QED  BY <2>1, <2>2
<1>4. AlignDown(Horizon(Preferred, Target), Step("preferred")) \in Int
  BY <1>1, <1>3, Aligned
<1>5. (Name = "current" /\ HaveFallback) \in BOOLEAN
  BY DEF HaveFallback
<1>. QED  BY <1>1, <1>4, <1>5 DEF PreferredChild, Child, ChildType

(* The fallback child is well formed, with the whole window or a tail.     *)
LEMMA FallbackChildTyped ==
  ASSUME request \in Requests, Name \in Names, runs \in [Roles -> RunType]
  PROVE  FallbackChild \in ChildType
<1>1. /\ Fallback \in STRING /\ Hours \in Nat /\ Step("fallback") \in Nat \ {0}
      /\ Allowance \in Nat
  BY RequestIs, StepIs, SourcesAssumption DEF Fallback, Hours, Step, Roles
<1>2. TailOnly => LastValid(runs.preferred) \in Int
  <2>1. runs["preferred"] \in RunType
    BY DEF Roles
  <2>2. runs.preferred.times \in SUBSET Int /\ IsFiniteSet(runs.preferred.times)
    BY <2>1 DEF RunType
  <2>3. TailOnly => runs.preferred.times # {}
    BY DEF TailOnly, Timed
  <2>. QED  BY <2>2, <2>3, MinMax DEF LastValid
<1>3. /\ AlignUp(Hours + Allowance, Step("fallback")) \in Int
      /\ AlignUp(Hours, Step("fallback")) \in Int
  BY <1>1, Aligned
<1>. DEFINE from == IF TailOnly THEN LastValid(runs.preferred) ELSE 0
            rest == IF TailOnly THEN Hours - from ELSE AlignUp(Hours, Step("fallback"))
<1>4. from \in Int /\ rest \in Int
  BY <1>1, <1>2, <1>3
<1>5. FallbackChild = IF Name # "current"
                      THEN Child(Fallback, 0, AlignUp(Hours + Allowance, Step("fallback")),
                                 Step("fallback"), FALSE)
                      ELSE Child(Fallback, from, rest, Step("fallback"), FALSE)
  BY DEF FallbackChild
<1>. HIDE DEF from, rest
<1>. QED  BY <1>1, <1>3, <1>4, <1>5 DEF Child, ChildType

(* A child that is asked for every hour is asked for no more leads than the*)
(* window and the age that a cycle may have.                               *)
LEMMA PreferredReach ==
  ASSUME request \in Requests, Name \in Names, PreferredChild.step = 1
  PROVE  PreferredChild.hours <= Hours + Allowance
<1>1. Hours \in Nat /\ Allowance \in Nat
  BY RequestIs, SourcesAssumption DEF Hours
<1>2. Step("preferred") = 1
  BY DEF PreferredChild, Child
<1>3. \A k \in Int : AlignUp(k, 1) = k /\ AlignDown(k, 1) = k
  <2>1. \A k \in Int : k % 1 = 0
    OBVIOUS
  <2>. QED  BY <2>1 DEF AlignUp, AlignDown
<1>4. Target \in Int /\ Target <= Hours + Allowance
  <2>1. CASE Name = "weather"
    <3>1. Target = AlignUp(Hours + (IF Preferred = "existing-file" THEN 0 ELSE Allowance), 1)
      BY <1>2, <2>1 DEF Target
    <3>. QED  BY <1>1, <1>3, <3>1
  <2>2. CASE Name = "waves"
    <3>1. Target = AlignUp(Hours + (IF Preferred = "gfs_wave" THEN Allowance ELSE 0), 1)
      BY <1>2, <2>2 DEF Target
    <3>. QED  BY <1>1, <1>3, <3>1
  <2>3. CASE Name = "current"
    BY <1>1, <2>3 DEF Target
  <2>. QED  BY <2>1, <2>2, <2>3 DEF Names
<1>5. Horizon(Preferred, Target) \in Int /\ Horizon(Preferred, Target) <= Target
  <2>1. CASE Preferred \in DOMAIN HorizonOf
    <3>1. HorizonOf[Preferred] \in Int
      BY <2>1, SourcesAssumption
    <3>2. /\ Min({Target, HorizonOf[Preferred]}) \in {Target, HorizonOf[Preferred]}
          /\ Min({Target, HorizonOf[Preferred]}) <= Target
      BY <1>4, <3>1, OfTwo, Zenon
    <3>. QED  BY <1>4, <2>1, <3>1, <3>2 DEF Horizon
  <2>2. CASE Preferred \notin DOMAIN HorizonOf
    BY <1>4, <2>2 DEF Horizon
  <2>. QED  BY <2>1, <2>2
<1>6. PreferredChild.hours = Horizon(Preferred, Target)
  BY <1>2, <1>3, <1>5 DEF PreferredChild, Child
<1>. QED  BY <1>1, <1>4, <1>5, <1>6

LEMMA FallbackReach ==
  ASSUME request \in Requests, Name \in Names, runs \in [Roles -> RunType],
         FallbackChild.step = 1
  PROVE  FallbackChild.hours <= Hours + Allowance
<1>1. Hours \in Nat /\ Allowance \in Nat
  BY RequestIs, SourcesAssumption DEF Hours
<1>2. Step("fallback") = 1
  BY DEF FallbackChild, Child
<1>3. AlignUp(Hours + Allowance, 1) = Hours + Allowance /\ AlignUp(Hours, 1) = Hours
  <2>1. \A k \in Int : k % 1 = 0
    OBVIOUS
  <2>. QED  BY <1>1, <2>1 DEF AlignUp
<1>4. TailOnly => LastValid(runs.preferred) \in Int /\ LastValid(runs.preferred) > 0
  <2>1. runs["preferred"] \in RunType
    BY DEF Roles
  <2>2. runs.preferred.times \in SUBSET Int /\ IsFiniteSet(runs.preferred.times)
    BY <2>1 DEF RunType
  <2>3. TailOnly => runs.preferred.times # {} /\ LastValid(runs.preferred) > 0
    BY DEF TailOnly, Timed
  <2>. QED  BY <2>2, <2>3, MinMax DEF LastValid
<1>5. CASE Name # "current"
  <2>1. FallbackChild.hours = AlignUp(Hours + Allowance, 1)
    BY <1>2, <1>5 DEF FallbackChild, Child
  <2>. QED  BY <1>1, <1>3, <2>1
<1>6. CASE Name = "current"
  <2>1. FallbackChild.hours = IF TailOnly THEN Hours - LastValid(runs.preferred)
                              ELSE AlignUp(Hours, 1)
    BY <1>2, <1>6 DEF FallbackChild, Child
  <2>. QED  BY <1>1, <1>3, <1>4, <2>1
<1>. QED  BY <1>5, <1>6

-----------------------------------------------------------------------------
(* What is written.                                                        *)
ReadType == [label : Labels, n : Nat, m : MessageType]

(* An input has a label and messages, and the reading loop numbers them.   *)
LEMMA InputIs ==
  ASSUME inputs \in Seq(InputType), NEW i \in DOMAIN inputs
  PROVE  /\ inputs[i].label \in Labels /\ inputs[i].file.parts \in Seq(MessageType)
         /\ Numbered(inputs[i]) \in Seq(ReadType)
<1>1. inputs[i] \in InputType
  OBVIOUS
<1>2. inputs[i].label \in Labels /\ inputs[i].file.parts \in Seq(MessageType)
  BY <1>1 DEF InputType, FileType
<1>. DEFINE x == inputs[i]
            parts == x.file.parts
<1>3. parts \in Seq(MessageType) /\ x.label \in Labels
  BY <1>2
<1>4. Numbered(x) = [n \in DOMAIN parts |-> [label |-> x.label, n |-> n, m |-> parts[n]]]
  BY DEF Numbered
<1>. HIDE DEF x, parts
<1>5. \A n \in DOMAIN parts : [label |-> x.label, n |-> n, m |-> parts[n]] \in ReadType
  BY <1>3 DEF ReadType
<1>6. Numbered(x) \in Seq(ReadType)
  BY <1>3, <1>4, <1>5
<1>. QED  BY <1>2, <1>6 DEF x

(* What the reading loop sees is a sequence of numbered messages.          *)
LEMMA ReadTyped ==
  ASSUME inputs \in Seq(InputType)
  PROVE  Read \in Seq(ReadType)
<1>. DEFINE seqs == [i \in DOMAIN inputs |-> Numbered(inputs[i])]
<1>1. seqs \in Seq(Seq(ReadType))
  <2>1. \A i \in DOMAIN inputs : Numbered(inputs[i]) \in Seq(ReadType)
    BY InputIs
  <2>. QED  BY <2>1
<1>. HIDE DEF seqs
<1>2. FlattenSeq(seqs) \in Seq(ReadType)
  BY <1>1, FlattenTyped
<1>. QED  BY <1>2 DEF Read, seqs

(* The reading loop, turn by turn.                                         *)
LEMMA KeptIs ==
  ASSUME inputs \in Seq(InputType)
  PROVE  \E k \in [0 .. Len(Read) -> Seq(ReadType)] :
           /\ k[0] = << >> /\ \A n \in 1 .. Len(Read) : k[n] = Keep(k[n - 1], Read[n])
           /\ Kept = k[Len(Read)]
<1>. DEFINE N == Len(Read)
            SS == Seq(ReadType)
            D == [x \in (1 .. N) \X SS |-> Keep(x[2], Read[x[1]])]
            F(f) == [n \in 0 .. N |-> IF n = 0 THEN << >> ELSE Keep(f[n - 1], Read[n])]
<1>1. N \in Nat /\ \A n \in 1 .. N : Read[n] \in ReadType
  BY ReadTyped
<1>2. \A n \in 1 .. N, kept \in SS : Keep(kept, Read[n]) \in SS
  BY <1>1 DEF Keep
<1>. HIDE DEF N
<1>3. << >> \in SS
  OBVIOUS
<1>. HIDE DEF SS
<1>4. D \in [(1 .. N) \X SS -> SS]
  BY <1>2
<1>5. \A n \in 1 .. N, kept \in SS : D[<<n, kept>>] = Keep(kept, Read[n])
  OBVIOUS
<1>. HIDE DEF D
<1>6. PICK h : Unfolds(h, N, SS, << >>, D)
  <2>1. \E h : Unfolds(h, N, SS, << >>, D)
    BY <1>1, <1>3, <1>4, Recursion, Zenon
  <2>. QED  BY <2>1
<1>7. h \in [0 .. N -> SS] /\ h[0] = << >> /\ \A n \in 1 .. N : h[n] = D[<<n, h[n - 1]>>]
  BY <1>6 DEF Unfolds
<1>8. \A n \in 1 .. N : h[n] = Keep(h[n - 1], Read[n])
  <2>. TAKE n \in 1 .. N
  <2>1. h[n - 1] \in SS
    BY <1>1, <1>7
  <2>. QED  BY <1>5, <1>7, <2>1
<1>9. h = F(h)
  <2>1. ASSUME NEW n \in 0 .. N
        PROVE  h[n] = IF n = 0 THEN << >> ELSE Keep(h[n - 1], Read[n])
    <3>1. n # 0 => n \in 1 .. N
      BY <1>1
    <3>. QED  BY <1>7, <1>8, <3>1
  <2>. QED  BY <1>7, <2>1
<1>. DEFINE kept == CHOOSE f : f = F(f)
<1>10. kept = F(kept)
  BY <1>9
<1>11. Kept = kept[N]
  BY DEF Kept, N
<1>. HIDE DEF kept
<1>12. kept[0] = << >> /\ \A n \in 1 .. N : kept[n] = Keep(kept[n - 1], Read[n])
  <2>1. \A n \in 0 .. N : kept[n] = IF n = 0 THEN << >> ELSE Keep(kept[n - 1], Read[n])
    BY <1>10
  <2>2. 0 \in 0 .. N /\ \A n \in 1 .. N : n \in 0 .. N /\ n # 0
    BY <1>1
  <2>. QED  BY <2>1, <2>2
<1>13. kept \in [0 .. N -> SS]
  <2>. DEFINE T == {n \in 0 .. N : kept[n] \in SS}
  <2>1. 0 \in T
    BY <1>1, <1>3, <1>12
  <2>2. ASSUME NEW n \in 0 .. N - 1, n \in T
        PROVE  n + 1 \in T
    <3>1. n + 1 \in 1 .. N /\ n + 1 - 1 = n /\ n + 1 \in 0 .. N
      BY <1>1
    <3>2. kept[n + 1] = Keep(kept[n], Read[n + 1])
      BY <1>12, <3>1
    <3>3. kept[n + 1] \in SS
      BY <1>2, <2>2, <3>1, <3>2
    <3>. QED  BY <3>1, <3>3
  <2>3. \A n \in 0 .. N : kept[n] \in SS
    <3>. HIDE DEF T
    <3>1. \A n \in 0 .. N : n \in T
      BY <1>1, <2>1, <2>2, Induction
    <3>. QED  BY <3>1 DEF T
  <2>. QED  BY <1>10, <2>3
<1>. QED  BY <1>11, <1>12, <1>13 DEF N, SS

(* What is to be written is a finite sequence of messages.                 *)
LEMMA WantedTyped ==
  ASSUME inputs \in Seq(InputType)
  PROVE  Wanted \in Seq(MessageType) /\ Len(Wanted) \in Nat
<1>1. Merged \in Seq(MessageType)
  <2>. DEFINE seqs == [i \in DOMAIN inputs |-> inputs[i].file.parts]
  <2>1. seqs \in Seq(Seq(MessageType))
    <3>1. \A i \in DOMAIN inputs : inputs[i].file.parts \in Seq(MessageType)
      BY InputIs
    <3>. QED  BY <3>1
  <2>. HIDE DEF seqs
  <2>2. FlattenSeq(seqs) \in Seq(MessageType)
    BY <2>1, FlattenTyped
  <2>. QED  BY <2>2 DEF Merged, seqs
<1>2. Composite \in Seq(MessageType)
  <2>1. Kept \in Seq(ReadType)
    <3>1. Len(Read) \in Nat
      BY ReadTyped
    <3>. QED  BY <3>1, KeptIs
  <2>2. \A k \in DOMAIN Kept : Kept[k].m \in MessageType
    <3>. TAKE k \in DOMAIN Kept
    <3>1. Kept[k] \in ReadType
      BY <2>1
    <3>. QED  BY <3>1 DEF ReadType
  <2>. QED  BY <2>1, <2>2 DEF Composite
<1>. QED  BY <1>1, <1>2 DEF Wanted

-----------------------------------------------------------------------------
(* A component begins with runs that are typed and not complete.           *)
LEMMA NoRunsTyped == NoRuns \in [Roles -> RunType] /\ ~NoRuns.fallback.complete
<1>1. NotRun \in RunType
  <2>. DEFINE FiniteTimes == {T \in SUBSET Int : IsFiniteSet(T)}
  <2>1. IsFiniteSet({})
    BY FS_EmptySet
  <2>2. {} \in FiniteTimes
    BY <2>1
  <2>3. RunType = [complete : BOOLEAN, times : FiniteTimes]
    BY DEF RunType
  <2>. HIDE DEF FiniteTimes
  <2>4. NotRun \in [complete : BOOLEAN, times : FiniteTimes]
    BY <2>2 DEF NotRun
  <2>. QED  BY <2>3, <2>4
<1>2. ~NotRun.complete
  BY DEF NotRun
<1>3. NoRuns = [role \in Roles |-> NotRun] /\ NoRuns.fallback = NotRun
  BY DEF NoRuns, Roles
<1>. QED  BY <1>1, <1>2, <1>3

(* The files of a merge are typed as the inputs of an extension are.       *)
LEMMA FilesInInputs == \A file \in Files : file \in FileType
<1>1. Messages \subseteq MessageType
  BY DEF Messages, MessageType
<1>. TAKE file \in Files
<1>2. /\ file = [exists |-> file.exists, parts |-> file.parts, cut |-> file.cut, ours |-> file.ours]
      /\ file.exists \in BOOLEAN /\ file.parts \in Seq(Messages) /\ file.cut \in BOOLEAN
      /\ file.ours \in BOOLEAN
  BY DEF Files
<1>3. file.parts \in Seq(MessageType)
  BY <1>1, <1>2
<1>. QED  BY <1>2, <1>3 DEF FileType

(* The invariant holds at first, of an extension and of a merge.           *)
LEMMA Start == Init => ExtensionInv
<1>. SUFFICES ASSUME Init PROVE ExtensionInv
  OBVIOUS
<1>0. /\ NoFile.ours = FALSE /\ OldFile.ours = FALSE /\ NoFile.exists = FALSE
      /\ OldFile.exists = TRUE
  BY DEF NoFile, OldFile
<1>1. /\ expected = 0 /\ temporary = NoFile /\ result = "none" /\ faults = 0 /\ component = 1
      /\ runs = NoRuns /\ out \in {NoFile, OldFile} /\ existed = out.exists
  BY DEF Init, CombineStart
<1>2. ~out.ours /\ existed \in BOOLEAN /\ faults \in 0 .. MaxFaults
  <2>1. out = NoFile \/ out = OldFile
    BY <1>1
  <2>2. ~out.ours /\ out.exists \in BOOLEAN
    BY <1>0, <2>1
  <2>3. 0 \in 0 .. MaxFaults
    BY StreamAssumption
  <2>. QED  BY <1>1, <2>2, <2>3
<1>3. CASE /\ request \in Requests
           /\ command = [how |-> "composite", overwrite |-> request.overwrite,
                         through |-> request.hours]
           /\ inputs = << >> /\ pc = "preferred"
  <2>1. CallTypes
    <3>1. inputs \in Seq(InputType) /\ expected \in Nat
      BY <1>1, <1>3
    <3>2. request.overwrite \in BOOLEAN
      BY <1>3, RequestIs
    <3>. QED  BY <1>1, <1>2, <1>3, <3>1, <3>2 DEF CallTypes, Extending
  <2>2. ExtensionTypes
    BY <1>1, <1>3, NoRunsTyped DEF ExtensionTypes
  <2>3. PhaseInv
    BY <1>1, <1>3, NoRunsTyped DEF PhaseInv, Extending, Writing
  <2>4. OutInv /\ TemporaryInv
    BY <1>0, <1>1, <1>2, <1>3 DEF OutInv, TemporaryInv
  <2>5. LabelInv
    BY <1>3 DEF LabelInv
  <2>. QED  BY <2>1, <2>2, <2>3, <2>4, <2>5 DEF ExtensionInv
<1>4. ASSUME NEW m \in Merges, command = m.command, inputs = m.inputs,
             pc = IF m.command.how = "environment" THEN "roles" ELSE "check",
             request = CHOOSE r \in Requests : TRUE
      PROVE  ExtensionInv
  <2>0. /\ command.how \in {"merge", "environment"} /\ command.overwrite \in BOOLEAN
        /\ inputs \in Seq([label : STRING, region : STRING, file : Files])
    BY <1>4, MergesAssumption
  <2>1. CallTypes
    <3>1. [label : STRING, region : STRING, file : Files] \subseteq InputType
      <4>. SUFFICES ASSUME NEW x \in [label : STRING, region : STRING, file : Files]
                    PROVE  x \in InputType
        OBVIOUS
      <4>1. /\ x = [label |-> x.label, region |-> x.region, file |-> x.file]
            /\ x.label \in STRING /\ x.region \in STRING /\ x.file \in Files
        OBVIOUS
      <4>2. x.label \in Labels /\ x.region \in STRING \cup {"requested"} /\ x.file \in FileType
        BY <4>1, FilesInInputs DEF Labels
      <4>. QED  BY <4>1, <4>2 DEF InputType
    <3>2. inputs \in Seq(InputType)
      <4>. DEFINE A == [label : STRING, region : STRING, file : Files]
      <4>1. inputs \in Seq(A) /\ A \subseteq InputType
        BY <2>0, <3>1
      <4>. HIDE DEF A
      <4>. QED  BY <4>1
    <3>4. expected \in Nat
      BY <1>1
    <3>3. pc \in {"roles", "check"}
      BY <1>4
    <3>. QED  BY <1>1, <1>2, <2>0, <3>2, <3>3, <3>4 DEF CallTypes, Writing
  <2>2. ExtensionTypes
    BY <1>1, <1>4, NoRunsTyped, RequestsAssumption DEF ExtensionTypes
  <2>3. PhaseInv
    <3>1. pc = "roles" => command.how = "environment"
      BY <1>4
    <3>2. pc \in {"roles", "check"}
      BY <1>4
    <3>. QED  BY <1>1, <2>0, <3>1, <3>2, NoRunsTyped DEF PhaseInv, Extending, Writing
  <2>4. OutInv /\ TemporaryInv
    <3>1. pc \in {"roles", "check"}
      BY <1>4
    <3>. QED  BY <1>0, <1>1, <1>2, <3>1 DEF OutInv, TemporaryInv
  <2>5. LabelInv
    BY <2>0 DEF LabelInv
  <2>. QED  BY <2>1, <2>2, <2>3, <2>4, <2>5 DEF ExtensionInv
<1>. QED  BY <1>3, <1>4 DEF Init

-----------------------------------------------------------------------------
(* What is wanted depends on the command and the inputs.                   *)
LEMMA WantedStays ==
  ASSUME UNCHANGED <<command, inputs>>
  PROVE  Wanted' = Wanted
<1>1. Merged' = Merged
  BY DEF Merged
<1>2. Read' = Read
  BY DEF Read, Numbered
<1>. QED  BY <1>1, <1>2 DEF Wanted, Composite, Kept, Keep, Beyond, Tuple
(* An input stays accounted for as the call goes on.                       *)
GoesOn == \/ component' = component + 1
          \/ /\ component' = component /\ pc' # "preferred"
             /\ pc' \in {"judge", "fallback"} => pc \in {"preferred", "judge"}

(* A label that is accounted for stays so when the call goes on.           *)
LEMMA GivenStays ==
  ASSUME component \in 1 .. 4, GoesOn, NEW label, Given(label)
  PROVE  Given(label)'
<1>1. PICK c \in 1 .. 3 :
        \/ label = <<Components[c], "preferred">>
           /\ (c < component \/ (c = component /\ pc # "preferred"))
        \/ label = <<Components[c], "fallback">>
           /\ (c < component
               \/ (c = component /\ pc \notin {"preferred", "judge", "fallback"}))
  BY DEF Given
<1>2. c < component =>
        c < component' \/ (c = component' /\ pc' \notin {"preferred", "judge", "fallback"})
  BY DEF GoesOn
<1>3. c = component /\ pc # "preferred" => c < component' \/ (c = component' /\ pc' # "preferred")
  BY DEF GoesOn
<1>4. c = component /\ pc \notin {"preferred", "judge", "fallback"}
        => c < component' \/ (c = component' /\ pc' \notin {"preferred", "judge", "fallback"})
  BY DEF GoesOn
<1>5. c < component => c < component' \/ (c = component' /\ pc' # "preferred")
  BY <1>2
<1>. QED  BY <1>1, <1>2, <1>3, <1>4, <1>5 DEF Given

(* Steps that give no input keep the labels of the inputs apart.           *)
LEMMA LabelsStay ==
  ASSUME component \in 1 .. 4, GoesOn, LabelInv, UNCHANGED <<command, inputs>>
  PROVE  LabelInv'
<1>1. ASSUME command.how = "composite", NEW i \in DOMAIN inputs
      PROVE  Given(inputs[i].label)'
  <2>1. Given(inputs[i].label)
    BY <1>1 DEF LabelInv
  <2>2. \A label : Given(label) => Given(label)'
    BY GivenStays
  <2>3. inputs'[i] = inputs[i]
    OBVIOUS
  <2>4. PICK label : label = inputs[i].label
    OBVIOUS
  <2>. QED  BY <2>1, <2>2, <2>3, <2>4 DEF Given
<1>. QED  BY <1>1 DEF LabelInv

(* As long as the children run, neither output nor temporary is touched.   *)
LEMMA ExtendingLeavesFiles ==
  ASSUME CallTypes, PhaseInv, OutInv, TemporaryInv, pc \in Extending,
         UNCHANGED <<command, existed, expected, out, temporary, request>>,
         pc' \in Extending \cup {"check", "done"}, result' \in {"none", "ok", "error"},
         pc' = "done" <=> result' # "none", result' = "ok" => request.dry_run
  PROVE  OutInv' /\ TemporaryInv'
<1>1. /\ command.how = "composite" /\ result = "none"
      /\ pc \notin {"inspect", "done", "scan", "rename"}
  BY DEF PhaseInv, Extending
<1>2. ~out.ours /\ out \in {NoFile, OldFile} /\ (out.exists <=> existed)
  <2>1. ~out.ours
    BY <1>1 DEF OutInv
  <2>. QED  BY <2>1 DEF OutInv
<1>3. temporary = NoFile
  BY <1>1 DEF TemporaryInv
<1>4. pc' \notin {"write", "scan", "rename", "inspect"}
  BY DEF Extending
<1>5. OutInv'
  <2>1. ~out'.ours /\ out' \in {NoFile, OldFile} /\ (out'.exists <=> existed')
    BY <1>2
  <2>2. result' = "ok" => (out'.ours <=> ~(command'.how = "composite" /\ request'.dry_run))
    BY <1>1, <2>1
  <2>. QED  BY <1>4, <2>1, <2>2, Zenon DEF OutInv
<1>6. TemporaryInv'
  BY <1>3, <1>4 DEF TemporaryInv
<1>. QED  BY <1>5, <1>6

(* Going on to the next component, or staying and turning to the fallback. *)
LEMMA ExtendingOnward ==
  ASSUME ExtensionInv, pc \in Extending, component \in 1 .. 3,
         UNCHANGED <<command, existed, inputs, expected, out, temporary, faults, request>>,
         \/ ToNextComponent
         \/ /\ UNCHANGED <<component, runs>>
            /\ \/ Stop("error")
               \/ pc = "judge" /\ pc' = "fallback" /\ HaveFallback /\ UNCHANGED result
  PROVE  ExtensionInv'
<1>. USE DEF ExtensionInv
<1>1. command.how = "composite" /\ result = "none" /\ pc # "done"
  BY DEF PhaseInv, Extending
<1>2. CASE ToNextComponent
  <2>1. /\ component' = component + 1 /\ runs' = NoRuns /\ pc' = "preferred"
        /\ result' = "none"
    BY <1>1, <1>2 DEF ToNextComponent
  <2>2. CallTypes'
    BY <2>1 DEF CallTypes, Extending
  <2>3. ExtensionTypes'
    <3>1. component' \in 1 .. 4
      BY <2>1
    <3>. QED  BY <2>1, <3>1, NoRunsTyped DEF ExtensionTypes
  <2>4. PhaseInv'
    <3>1. ~runs'.fallback.complete
      BY <2>1, NoRunsTyped
    <3>. QED  BY <1>1, <2>1, <3>1 DEF PhaseInv, Extending, Writing
  <2>5. OutInv' /\ TemporaryInv'
    BY <2>1, ExtendingLeavesFiles DEF Extending
  <2>6. LabelInv'
    BY <2>1, LabelsStay DEF GoesOn, ExtensionTypes
  <2>. QED  BY <2>2, <2>3, <2>4, <2>5, <2>6
<1>3. ASSUME UNCHANGED <<component, runs>>,
             \/ Stop("error")
             \/ pc = "judge" /\ pc' = "fallback" /\ HaveFallback /\ UNCHANGED result
      PROVE  ExtensionInv'
  <2>1. \/ pc' = "done" /\ result' = "error"
        \/ pc = "judge" /\ pc' = "fallback" /\ HaveFallback /\ result' = "none"
    BY <1>1, <1>3 DEF Stop
  <2>2. CallTypes'
    BY <2>1 DEF CallTypes, Extending
  <2>3. ExtensionTypes'
    BY <1>3 DEF ExtensionTypes
  <2>4. PhaseInv'
    <3>1. HaveFallback' <=> HaveFallback
      BY <1>3 DEF HaveFallback, Fallback, Preferred, Name
    <3>2. runs.fallback.complete => HaveFallback
      BY DEF PhaseInv
    <3>3. (pc' \in {"fallback", "accept"} \/ runs'.fallback.complete) => HaveFallback'
      BY <1>3, <2>1, <3>1, <3>2
    <3>4. /\ command'.overwrite = request'.overwrite /\ command'.through = request'.hours
          /\ command'.how = "composite"
      BY <1>1 DEF PhaseInv
    <3>5. component' <= 3 /\ pc' \notin {"roles", "inspect"} \cup Writing
      BY <1>3, <2>1 DEF Writing
    <3>6. pc' = "done" <=> result' # "none"
      BY <2>1
    <3>. QED  BY <3>3, <3>4, <3>5, <3>6 DEF PhaseInv
  <2>5. OutInv' /\ TemporaryInv'
    BY <2>1, ExtendingLeavesFiles DEF Extending
  <2>6. LabelInv'
    <3>1. GoesOn
      BY <1>3, <2>1 DEF GoesOn
    <3>. QED  BY <3>1, LabelsStay DEF ExtensionTypes
  <2>. QED  BY <2>2, <2>3, <2>4, <2>5, <2>6
<1>. QED  BY <1>2, <1>3

(* Running a child of either role.                                         *)
LEMMA RunKeeps ==
  ASSUME ExtensionInv, component \in 1 .. 3, NEW role \in Roles, pc = role,
         role = "fallback" => HaveFallback, NEW child \in ChildType, Run(role, child),
         pc' = IF result' = "error" THEN "done"
               ELSE IF role = "preferred" THEN "judge" ELSE "accept"
  PROVE  ExtensionInv'
<1>. USE DEF ExtensionInv
<1>1. /\ command.how = "composite" /\ result = "none" /\ pc \in Extending
  <2>1. pc \in Extending /\ pc # "done"
    BY DEF Extending, Roles
  <2>. QED  BY <2>1 DEF PhaseInv
<1>2. UNCHANGED <<command, existed, expected, out, temporary, request, component>>
  BY DEF Run
<1>3. Name \in Names
  BY NameIs
<1>. DEFINE Input(times) == [label |-> <<Name, role>>, region |-> "requested",
                             file |-> File(Stream(child.source, times), FALSE)]
            Done(times) == [complete |-> TRUE, times |-> times]
            Outcome ==
              /\ result' \in {"none", "error"} /\ faults' \in 0 .. MaxFaults
              /\ \/ /\ \E times : /\ times \in SUBSET Int /\ IsFiniteSet(times)
                                  /\ runs' = [runs EXCEPT ![role] = Done(times)]
                    /\ UNCHANGED inputs
                 \/ \E times : /\ times \in SUBSET Int /\ IsFiniteSet(times)
                               /\ runs' = [runs EXCEPT ![role] = Done(times)]
                               /\ inputs' = Append(inputs, Input(times))
                 \/ UNCHANGED <<runs, inputs>>
<1>4. Outcome
  <2>0. faults \in 0 .. MaxFaults /\ (Fault => faults' \in 0 .. MaxFaults)
    BY StreamAssumption DEF CallTypes, Fault
  <2>1. CASE /\ request.dry_run /\ runs' = [runs EXCEPT ![role] = [complete |-> TRUE, times |-> {}]]
             /\ UNCHANGED <<inputs, faults, result>>
    <3>1. {} \in SUBSET Int /\ IsFiniteSet({})
      BY FS_EmptySet
    <3>. QED  BY <1>1, <2>0, <2>1, <3>1
  <2>2. ASSUME NEW times \in Deliveries(child),
               runs' = [runs EXCEPT ![role] = [complete |-> TRUE, times |-> times]],
               inputs' = Append(inputs,
                  [label |-> <<Name, role>>, region |-> "requested",
                   file |-> File(Stream(child.source, times), FALSE)]),
               UNCHANGED <<faults, result>>
        PROVE  Outcome
    <3>1. times \in SUBSET Int /\ IsFiniteSet(times)
      BY DeliveriesTyped
    <3>. QED  BY <1>1, <2>0, <2>2, <3>1
  <2>3. CASE /\ IF Valid(child) THEN Fault ELSE UNCHANGED faults
             /\ result' = IF role = "preferred" /\ HaveFallback THEN "none" ELSE "error"
             /\ UNCHANGED <<runs, inputs>>
    BY <2>0, <2>3
  <2>. QED  BY <2>1, <2>2, <2>3 DEF Run
<1>. HIDE DEF Input, Done
<1>5. runs' \in [Roles -> RunType] /\ (role # "fallback" => runs'.fallback = runs.fallback)
  <2>1. runs \in [Roles -> RunType]
    BY DEF ExtensionTypes
  <2>2. ASSUME NEW times \in SUBSET Int, IsFiniteSet(times),
               runs' = [runs EXCEPT ![role] = Done(times)]
        PROVE  runs' \in [Roles -> RunType] /\ (role # "fallback" => runs'.fallback = runs.fallback)
    <3>1. Done(times) \in RunType
      <4>. DEFINE FiniteTimes == {T \in SUBSET Int : IsFiniteSet(T)}
      <4>1. times \in FiniteTimes
        BY <2>2
      <4>2. RunType = [complete : BOOLEAN, times : FiniteTimes]
        BY DEF RunType
      <4>. HIDE DEF FiniteTimes
      <4>3. Done(times) \in [complete : BOOLEAN, times : FiniteTimes]
        BY <4>1 DEF Done
      <4>. QED  BY <4>2, <4>3
    <3>. QED  BY <2>1, <2>2, <3>1
  <2>. QED  BY <1>4, <2>1, <2>2
<1>6. inputs' \in Seq(InputType)
  <2>1. inputs \in Seq(InputType)
    BY DEF CallTypes
  <2>2. ASSUME NEW times \in SUBSET Int, IsFiniteSet(times)
        PROVE  Input(times) \in InputType
    <3>1. <<Name, role>> \in Labels
      BY <1>3 DEF Labels
    <3>2. File(Stream(child.source, times), FALSE) \in FileType
      BY <1>3, <2>2, StreamTyped
    <3>. QED  BY <3>1, <3>2 DEF Input, InputType
  <2>. QED  BY <1>4, <2>1, <2>2
<1>7. pc' \in {"judge", "accept", "done"} /\ (pc' = "done" <=> result' # "none")
  BY <1>4
<1>8. CallTypes'
  BY <1>2, <1>4, <1>6, <1>7 DEF CallTypes, Extending
<1>9. ExtensionTypes'
  BY <1>2, <1>5 DEF ExtensionTypes
<1>10. PhaseInv'
  <2>1. HaveFallback' <=> HaveFallback
    BY <1>2 DEF HaveFallback, Fallback, Preferred, Name
  <2>2. (pc' \in {"fallback", "accept"} \/ runs'.fallback.complete) => HaveFallback'
    <3>1. CASE role = "fallback"
      BY <2>1, <3>1
    <3>2. CASE role = "preferred"
      <4>1. pc' \notin {"fallback", "accept"}
        BY <1>7, <3>2
      <4>2. runs.fallback.complete => HaveFallback
        BY DEF PhaseInv
      <4>. QED  BY <1>5, <2>1, <3>2, <4>1, <4>2
    <3>. QED  BY <3>1, <3>2 DEF Roles
  <2>3. /\ command'.overwrite = request'.overwrite /\ command'.through = request'.hours
        /\ command'.how = "composite"
    BY <1>1, <1>2 DEF PhaseInv
  <2>4. component' <= 3 /\ pc' \notin {"roles", "inspect"} \cup Writing
    BY <1>2, <1>7 DEF Writing
  <2>. QED  BY <1>7, <2>2, <2>3, <2>4 DEF PhaseInv
<1>11. OutInv' /\ TemporaryInv'
  BY <1>1, <1>2, <1>4, <1>7, ExtendingLeavesFiles DEF Extending
<1>12. LabelInv'
  <2>1. GoesOn
    BY <1>2, <1>7 DEF GoesOn, Roles
  <2>2. CASE UNCHANGED inputs
    BY <1>2, <2>1, <2>2, LabelsStay DEF ExtensionTypes
  <2>3. ASSUME NEW x, x.label = <<Name, role>>, inputs' = Append(inputs, x),
               result' # "error" \/ pc' = "done"
        PROVE  LabelInv'
    <3>1. inputs \in Seq(InputType) /\ Len(inputs) \in Nat
      BY DEF CallTypes
    <3>2. /\ \A i \in DOMAIN inputs' : (i \in DOMAIN inputs /\ inputs'[i] = inputs[i])
                                     \/ (i = Len(inputs) + 1 /\ inputs'[i] = x)
          /\ Len(inputs) + 1 \notin DOMAIN inputs
      BY <2>3, <3>1
    <3>3. Name = Components[component] /\ \A c \in 1 .. 3 : Components[c] = Name => c = component
      BY DEF Name, Components
    <3>4. PICK new : new = <<Name, role>>
      OBVIOUS
    <3>10. Given(new)'
      <4>1. pc' # "preferred" /\ (role = "fallback" => pc' \notin {"judge", "fallback"})
        BY <1>7
      <4>2. component \in 1 .. 3 /\ component' = component /\ new = <<Components[component], role>>
        BY <1>2, <3>3, <3>4
      <4>3. CASE role = "preferred"
        BY <4>1, <4>2, <4>3 DEF Given
      <4>4. CASE role = "fallback"
        BY <4>1, <4>2, <4>4 DEF Given
      <4>. QED  BY <4>3, <4>4 DEF Roles
    <3>5. ~Given(<<Name, role>>)
      <4>1. ASSUME NEW c \in 1 .. 3, <<Name, role>> = <<Components[c], "preferred">>,
                   c < component \/ (c = component /\ pc # "preferred")
            PROVE  FALSE
        <5>1. c = component /\ role = "preferred"
          BY <3>3, <4>1
        <5>. QED  BY <4>1, <5>1
      <4>2. ASSUME NEW c \in 1 .. 3, <<Name, role>> = <<Components[c], "fallback">>,
                   c < component \/ (c = component /\ pc \notin {"preferred", "judge", "fallback"})
            PROVE  FALSE
        <5>1. c = component /\ role = "fallback"
          BY <3>3, <4>2
        <5>. QED  BY <4>2, <5>1
      <4>. QED  BY <4>1, <4>2 DEF Given
    <3>6. /\ \A i \in DOMAIN inputs : Given(inputs[i].label)
          /\ \A i, j \in DOMAIN inputs : inputs[i].label = inputs[j].label => i = j
      BY <1>1 DEF LabelInv
    <3>7. \A label : Given(label) => Given(label)'
      BY <2>1, GivenStays DEF ExtensionTypes
    <3>8. (\A i \in DOMAIN inputs : Given(inputs[i].label))'
      <4>1. \A i \in DOMAIN inputs' : \E label : label = inputs'[i].label /\ Given(label)'
        <5>1. \A i \in DOMAIN inputs : \E label : label = inputs[i].label /\ Given(label)'
          BY <3>6, <3>7
        <5>2. \E label : label = x.label /\ Given(label)'
          BY <2>3, <3>4, <3>10
        <5>. QED  BY <3>2, <5>1, <5>2
      <4>. QED  BY <4>1 DEF Given
    <3>9. \A i, j \in DOMAIN inputs' : inputs'[i].label = inputs'[j].label => i = j
      BY <2>3, <3>2, <3>5, <3>6
    <3>. QED  BY <3>8, <3>9, Zenon DEF LabelInv
  <2>4. \A times : Input(times).label = <<Name, role>>
    BY DEF Input
  <2>5. CASE \E times : inputs' = Append(inputs, Input(times))
    BY <1>7, <2>3, <2>4, <2>5
  <2>. QED  BY <1>4, <2>2, <2>5
<1>. QED  BY <1>8, <1>9, <1>10, <1>11, <1>12


(* The components are gone through one by one.                             *)
LEMMA ExtendKeeps ==
  ASSUME ExtensionInv, Extend
  PROVE  ExtensionInv'
<1>0. /\ Len(Components) = 3 /\ component \in 1 .. 4 /\ request \in Requests
      /\ runs \in [Roles -> RunType]
  BY DEF ExtensionInv, ExtensionTypes, Components
<1>1. CASE Skip
  <2>1. component \in 1 .. 3 /\ pc \in Extending
    BY <1>0, <1>1 DEF Skip, Extending
  <2>. QED  BY <1>1, <2>1, ExtendingOnward DEF Skip, elsewhere
<1>2. CASE RunPreferred
  <2>1. /\ component \in 1 .. 3 /\ pc = "preferred" /\ Run("preferred", PreferredChild)
        /\ pc' = IF result' = "error" THEN "done" ELSE "judge"
    BY <1>0, <1>2 DEF RunPreferred
  <2>2. PreferredChild \in ChildType
    BY <1>0, <2>1, NameIs, PreferredChildTyped
  <2>3. \A role \in Roles, child \in ChildType :
          /\ pc = role /\ (role = "fallback" => HaveFallback) /\ Run(role, child)
          /\ pc' = IF result' = "error" THEN "done"
                   ELSE IF role = "preferred" THEN "judge" ELSE "accept"
          => ExtensionInv'
    BY <2>1, RunKeeps
  <2>4. "preferred" \in Roles /\ "preferred" # "fallback"
    BY DEF Roles
  <2>. QED  BY <2>1, <2>2, <2>3, <2>4
<1>3. CASE Judge
  <2>1. component \in 1 .. 3 /\ pc = "judge"
    BY <1>0, <1>3 DEF Judge, ExtensionInv, PhaseInv
  <2>2. \/ ToNextComponent
        \/ /\ UNCHANGED <<component, runs>>
           /\ \/ Stop("error")
              \/ pc = "judge" /\ pc' = "fallback" /\ HaveFallback /\ UNCHANGED result
    BY <1>3, <2>1 DEF Judge
  <2>3. UNCHANGED <<command, existed, inputs, expected, out, temporary, faults, request>>
    BY <1>3 DEF Judge, elsewhere
  <2>4. pc \in Extending
    BY <2>1 DEF Extending
  <2>. QED  BY <2>1, <2>2, <2>3, <2>4, ExtendingOnward
<1>4. CASE RunFallback
  <2>1. /\ pc = "fallback" /\ Run("fallback", FallbackChild)
        /\ pc' = IF result' = "error" THEN "done" ELSE "accept"
    BY <1>4 DEF RunFallback
  <2>2. component \in 1 .. 3 /\ HaveFallback
    BY <1>0, <2>1 DEF ExtensionInv, PhaseInv
  <2>3. FallbackChild \in ChildType
    BY <1>0, <2>2, NameIs, FallbackChildTyped
  <2>4. \A role \in Roles, child \in ChildType :
          /\ pc = role /\ (role = "fallback" => HaveFallback) /\ Run(role, child)
          /\ pc' = IF result' = "error" THEN "done"
                   ELSE IF role = "preferred" THEN "judge" ELSE "accept"
          => ExtensionInv'
    BY <2>2, RunKeeps
  <2>5. "fallback" \in Roles /\ "preferred" # "fallback"
    BY DEF Roles
  <2>. QED  BY <2>1, <2>2, <2>3, <2>4, <2>5
<1>5. CASE Accept
  <2>1. component \in 1 .. 3 /\ pc \in Extending
    BY <1>0, <1>5 DEF Accept, ExtensionInv, PhaseInv, Extending
  <2>2. ToNextComponent \/ (Stop("error") /\ UNCHANGED <<component, runs>>)
    BY <1>5 DEF Accept
  <2>3. UNCHANGED <<command, existed, inputs, expected, out, temporary, faults, request>>
    BY <1>5 DEF Accept, elsewhere
  <2>. QED  BY <2>1, <2>2, <2>3, ExtendingOnward
<1>6. CASE Conclude
  <2>. USE DEF ExtensionInv
  <2>1. /\ pc = "preferred" /\ command.how = "composite" /\ result = "none"
        /\ UNCHANGED <<command, existed, inputs, expected, out, temporary, faults, request,
                       component, runs>>
    BY <1>6 DEF Conclude, elsewhere, PhaseInv, Extending
  <2>2. \/ request.dry_run /\ pc' = "done" /\ result' = "ok"
        \/ ~request.dry_run /\ pc' = "check" /\ result' = "none"
    BY <1>6, <2>1 DEF Conclude, Stop
  <2>3. CallTypes' /\ ExtensionTypes'
    BY <2>1, <2>2 DEF CallTypes, ExtensionTypes, Writing
  <2>4. PhaseInv'
    <3>1. HaveFallback' <=> HaveFallback
      BY <2>1 DEF HaveFallback, Fallback, Preferred, Name
    <3>2. runs'.fallback.complete => HaveFallback'
      BY <2>1, <3>1 DEF PhaseInv
    <3>3. /\ command'.overwrite = request'.overwrite /\ command'.through = request'.hours
          /\ command'.how = "composite"
      BY <2>1 DEF PhaseInv
    <3>4. /\ pc' \notin Extending \cup {"roles", "inspect"}
          /\ pc' \notin {"judge", "fallback", "accept"}
      BY <2>2 DEF Extending
    <3>5. /\ pc' = "done" <=> result' # "none"
          /\ pc' \in Writing => ~request'.dry_run
      BY <2>1, <2>2 DEF Writing
    <3>. QED  BY <3>2, <3>3, <3>4, <3>5 DEF PhaseInv
  <2>5. OutInv' /\ TemporaryInv'
    BY <2>1, <2>2, ExtendingLeavesFiles DEF Extending
  <2>6. LabelInv'
    BY <2>1, <2>2, LabelsStay DEF GoesOn, ExtensionTypes
  <2>. QED  BY <2>3, <2>4, <2>5, <2>6
<1>. QED  BY <1>1, <1>2, <1>3, <1>4, <1>5, <1>6 DEF Extend
-----------------------------------------------------------------------------
(* While the streams are put together the plan stays as it is.             *)
LEMMA CombineLeavesPlan ==
  ASSUME CallTypes, ExtensionTypes, PhaseInv, LabelInv,
         UNCHANGED <<command, existed, inputs>>, UNCHANGED extensionVars,
         pc' \in Writing \cup {"done"}, pc' = "done" <=> result' # "none",
         pc' \in Writing => pc \in Writing \/ command.how = "environment",
         pc' = "inspect" => command.how = "environment",
         expected' \in Nat, faults' \in 0 .. MaxFaults,
         result' \in {"none", "ok", "error", "killed"}
  PROVE  CallTypes' /\ ExtensionTypes' /\ PhaseInv' /\ LabelInv'
<1>1. CallTypes' /\ ExtensionTypes'
  BY DEF CallTypes, ExtensionTypes, extensionVars
<1>2. LabelInv'
  <2>1. GoesOn
    BY DEF GoesOn, Writing, extensionVars
  <2>. QED  BY <2>1, LabelsStay DEF ExtensionTypes
<1>3. PhaseInv'
  <2>1. HaveFallback' <=> HaveFallback
    BY DEF HaveFallback, Fallback, Preferred, Name, extensionVars
  <2>2. runs'.fallback.complete => HaveFallback'
    BY <2>1 DEF PhaseInv, extensionVars
  <2>3. command'.how = "composite" => /\ command'.overwrite = request'.overwrite
                                      /\ command'.through = request'.hours
    BY DEF PhaseInv, extensionVars
  <2>4. pc' \notin Extending /\ pc' \notin {"judge", "fallback", "accept"} /\ pc' # "roles"
    BY DEF Extending, Writing
  <2>5. pc' \in Writing /\ command'.how = "composite" => ~request'.dry_run
    BY DEF PhaseInv, extensionVars
  <2>. QED  BY <2>2, <2>3, <2>4, <2>5 DEF PhaseInv
<1>. QED  BY <1>1, <1>2, <1>3

(* Each step of putting streams together, and a kill, keeps the invariant. *)
LEMMA CombineKeeps ==
  ASSUME ExtensionInv, Combine \/ Kill, UNCHANGED extensionVars
  PROVE  ExtensionInv'
<1>. USE DEF ExtensionInv
<1>0. /\ CallTypes /\ ExtensionTypes /\ PhaseInv /\ LabelInv /\ OutInv /\ TemporaryInv
      /\ (Fault => faults' \in 0 .. MaxFaults) /\ faults \in 0 .. MaxFaults
      /\ result # "none" <=> pc = "done"
  BY StreamAssumption DEF CallTypes, PhaseInv, Fault
<1>1. UNCHANGED <<command, existed, inputs>> /\ UNCHANGED request
  BY DEF Combine, Kill, CheckRoles, Check, Write, Rescan, Rename, Inspect, extensionVars
<1>2. Wanted' = Wanted /\ Wanted \in Seq(MessageType) /\ Len(Wanted) \in Nat
  BY <1>1, WantedStays, WantedTyped DEF CallTypes
<1>3. /\ ~out.ours => out \in {NoFile, OldFile} /\ (out.exists <=> existed)
      /\ out.ours => out = File(Wanted, FALSE) /\ inputs # <<>> /\ pc \in {"inspect", "done"}
                     /\ (command.overwrite \/ ~existed)
  BY DEF OutInv
<1>4. CASE CheckRoles
  <2>1. /\ pc = "roles" /\ UNCHANGED <<expected, out, temporary, faults>>
        /\ \/ pc' = "check" /\ result' = "none"
           \/ pc' = "done" /\ result' = "error"
    BY <1>0, <1>4 DEF CheckRoles, Stop
  <2>2. command.how = "environment" /\ ~out.ours /\ temporary = NoFile
    BY <1>0, <1>3, <2>1 DEF PhaseInv, TemporaryInv
  <2>3. CallTypes' /\ ExtensionTypes' /\ PhaseInv' /\ LabelInv'
    BY <1>0, <1>1, <2>1, <2>2, CombineLeavesPlan DEF Writing, CallTypes
  <2>4. OutInv'
    BY <1>1, <1>3, <2>1, <2>2 DEF OutInv
  <2>5. TemporaryInv'
    BY <2>1, <2>2 DEF TemporaryInv
  <2>. QED  BY <2>3, <2>4, <2>5
<1>5. CASE Check
  <2>1. /\ pc = "check" /\ UNCHANGED <<expected, out, temporary, faults>>
        /\ \/ ~Refused /\ pc' = "write" /\ result' = "none"
           \/ pc' = "done" /\ result' = "error"
    BY <1>0, <1>5 DEF Check, Stop
  <2>2. /\ ~out.ours /\ temporary = NoFile
        /\ ~Refused => inputs # <<>> /\ (out.exists => command.overwrite)
    BY <1>0, <1>3, <2>1 DEF TemporaryInv, Refused
  <2>3. CallTypes' /\ ExtensionTypes' /\ PhaseInv' /\ LabelInv'
    BY <1>0, <1>1, <2>1, <2>2, CombineLeavesPlan DEF Writing, CallTypes
  <2>4. OutInv'
    BY <1>1, <1>3, <2>1, <2>2 DEF OutInv
  <2>5. TemporaryInv'
    BY <2>1, <2>2 DEF TemporaryInv
  <2>. QED  BY <2>3, <2>4, <2>5
<1>6. CASE Write
  <2>1. /\ pc = "write" /\ UNCHANGED out
        /\ \/ /\ expected' = Len(Wanted) /\ pc' = "scan" /\ result' = "none"
              /\ \/ temporary' = File(Wanted, FALSE) /\ UNCHANGED faults
                 \/ Fault /\ \E n \in 0 .. Len(Wanted) - 1, cut \in BOOLEAN :
                               temporary' = File(SubSeq(Wanted, 1, n), cut)
           \/ /\ pc' = "done" /\ result' = "error" /\ temporary' = NoFile
              /\ Fault \/ UNCHANGED faults
              /\ UNCHANGED expected
    BY <1>0, <1>6 DEF Write, Stop, Fails
  <2>2. ~out.ours /\ inputs # <<>> /\ (out.exists => command.overwrite)
    BY <1>0, <1>3, <2>1 DEF OutInv
  <2>3. CallTypes' /\ ExtensionTypes' /\ PhaseInv' /\ LabelInv'
    <3>1. expected' \in Nat /\ faults' \in 0 .. MaxFaults
      BY <1>0, <1>2, <2>1 DEF CallTypes
    <3>2. pc' \in Writing \cup {"done"} /\ pc \in Writing /\ pc' # "inspect"
      BY <2>1 DEF Writing
    <3>3. (pc' = "done" <=> result' # "none") /\ result' \in {"none", "ok", "error", "killed"}
      BY <2>1
    <3>. QED  BY <1>0, <1>1, <3>1, <3>2, <3>3, CombineLeavesPlan
  <2>4. OutInv'
    BY <1>1, <1>3, <2>1, <2>2 DEF OutInv
  <2>5. TemporaryInv'
    <3>1. ASSUME NEW n \in 0 .. Len(Wanted) - 1, NEW cut \in BOOLEAN,
                 temporary' = File(SubSeq(Wanted, 1, n), cut)
          PROVE  Short(temporary)'
      <4>1. Len(SubSeq(Wanted, 1, n)) = n /\ n < Len(Wanted)
        BY <1>2
      <4>2. temporary'.parts = SubSeq(Wanted, 1, n) /\ temporary'.cut = cut
        BY <3>1 DEF File
      <4>. QED  BY <1>2, <3>1, <4>1, <4>2 DEF Short
    <3>2. pc' = "scan" => temporary' = File(Wanted', FALSE) \/ Short(temporary)'
      BY <1>2, <2>1, <3>1
    <3>3. pc' = "scan" => expected' = Len(Wanted')
      BY <1>2, <2>1
    <3>. QED  BY <2>1, <3>2, <3>3 DEF TemporaryInv
  <2>. QED  BY <2>3, <2>4, <2>5
<1>7. CASE Rescan
  <2>1. /\ pc = "scan" /\ UNCHANGED <<expected, out>>
        /\ \/ Complete /\ pc' = "rename" /\ result' = "none" /\ UNCHANGED <<temporary, faults>>
           \/ /\ pc' = "done" /\ result' = "error" /\ temporary' = NoFile
              /\ Fault \/ UNCHANGED faults
    BY <1>0, <1>7 DEF Rescan, Stop, Fails
  <2>2. ~out.ours /\ inputs # <<>> /\ (out.exists => command.overwrite)
    BY <1>0, <1>3, <2>1 DEF OutInv
  <2>3. CallTypes' /\ ExtensionTypes' /\ PhaseInv' /\ LabelInv'
    <3>1. expected' \in Nat /\ faults' \in 0 .. MaxFaults
      BY <1>0, <2>1 DEF CallTypes
    <3>2. pc' \in Writing \cup {"done"} /\ pc \in Writing /\ pc' # "inspect"
      BY <2>1 DEF Writing
    <3>3. (pc' = "done" <=> result' # "none") /\ result' \in {"none", "ok", "error", "killed"}
      BY <2>1
    <3>. QED  BY <1>0, <1>1, <3>1, <3>2, <3>3, CombineLeavesPlan
  <2>4. OutInv'
    BY <1>1, <1>3, <2>1, <2>2 DEF OutInv
  <2>5. Complete => temporary = File(Wanted, FALSE)
    <3>1. expected = Len(Wanted) /\ (temporary = File(Wanted, FALSE) \/ Short(temporary))
      BY <2>1 DEF TemporaryInv
    <3>2. Complete => Len(temporary.parts) = Len(Wanted)
      BY <3>1 DEF Complete
    <3>3. Short(temporary) => Len(temporary.parts) < Len(Wanted)
      BY DEF Short
    <3>4. Short(temporary) => ~Complete
      BY <1>2, <3>2, <3>3
    <3>. QED  BY <3>1, <3>4
  <2>6. TemporaryInv'
    BY <1>2, <2>1, <2>5 DEF TemporaryInv
  <2>. QED  BY <2>3, <2>4, <2>6
<1>8. CASE Rename
  <2>1. /\ pc = "rename" /\ UNCHANGED expected /\ temporary' = NoFile
        /\ \/ /\ out' = temporary /\ UNCHANGED faults
              /\ \/ command.how = "environment" /\ pc' = "inspect" /\ result' = "none"
                 \/ command.how # "environment" /\ pc' = "done" /\ result' = "ok"
           \/ pc' = "done" /\ result' = "error" /\ Fault /\ UNCHANGED out
    BY <1>0, <1>8 DEF Rename, Stop, Fails
  <2>2. /\ ~out.ours /\ inputs # <<>> /\ (out.exists => command.overwrite)
        /\ temporary = File(Wanted, FALSE) /\ (out.exists <=> existed)
    BY <1>0, <1>3, <2>1 DEF OutInv, TemporaryInv
  <2>3. CallTypes' /\ ExtensionTypes' /\ PhaseInv' /\ LabelInv'
    <3>1. expected' \in Nat /\ faults' \in 0 .. MaxFaults
      BY <1>0, <2>1 DEF CallTypes
    <3>2. pc' \in Writing \cup {"done"} /\ pc \in Writing
      BY <2>1 DEF Writing
    <3>3. /\ (pc' = "done" <=> result' # "none") /\ result' \in {"none", "ok", "error", "killed"}
          /\ pc' = "inspect" => command.how = "environment"
      BY <2>1
    <3>. QED  BY <1>0, <1>1, <3>1, <3>2, <3>3, CombineLeavesPlan
  <2>4. OutInv'
    <3>1. File(Wanted, FALSE).ours
      BY DEF File
    <3>2. CASE out' = temporary /\ pc' \in {"inspect", "done"} /\ result' \in {"none", "ok"}
      <4>1. out' = File(Wanted', FALSE) /\ out'.ours
        BY <1>2, <2>2, <3>1, <3>2
      <4>2. inputs' # <<>> /\ (command'.overwrite \/ ~existed')
        BY <1>1, <2>2
      <4>3. ~(command'.how = "composite" /\ request'.dry_run)
        BY <1>1, <2>1 DEF PhaseInv, Writing
      <4>. QED  BY <3>2, <4>1, <4>2, <4>3 DEF OutInv
    <3>3. CASE pc' = "done" /\ result' = "error" /\ UNCHANGED out
      BY <1>1, <1>3, <2>2, <3>3 DEF OutInv
    <3>. QED  BY <2>1, <3>2, <3>3
  <2>5. TemporaryInv'
    BY <2>1 DEF TemporaryInv
  <2>. QED  BY <2>3, <2>4, <2>5
<1>9. CASE Inspect
  <2>1. /\ pc = "inspect" /\ UNCHANGED <<expected, out, temporary>> /\ pc' = "done"
        /\ \/ result' = "ok" /\ UNCHANGED faults
           \/ result' = "error" /\ Fault
    BY <1>0, <1>9 DEF Inspect, Stop
  <2>2. command.how = "environment" /\ out.ours /\ temporary = NoFile
    BY <1>0, <2>1 DEF OutInv, TemporaryInv, PhaseInv
  <2>3. CallTypes' /\ ExtensionTypes' /\ PhaseInv' /\ LabelInv'
    <3>1. expected' \in Nat /\ faults' \in 0 .. MaxFaults
      BY <1>0, <2>1 DEF CallTypes
    <3>2. pc' \in Writing \cup {"done"} /\ pc \in Writing /\ pc' # "inspect"
      BY <2>1 DEF Writing
    <3>3. (pc' = "done" <=> result' # "none") /\ result' \in {"none", "ok", "error", "killed"}
      BY <2>1
    <3>. QED  BY <1>0, <1>1, <3>1, <3>2, <3>3, CombineLeavesPlan
  <2>4. OutInv'
    <3>1. /\ out' = File(Wanted', FALSE) /\ out'.ours /\ inputs' # <<>>
          /\ command'.overwrite \/ ~existed'
      BY <1>1, <1>2, <1>3, <2>1, <2>2
    <3>. QED  BY <1>1, <2>1, <2>2, <3>1 DEF OutInv
  <2>5. TemporaryInv'
    BY <2>1, <2>2 DEF TemporaryInv
  <2>. QED  BY <2>3, <2>4, <2>5
<1>10. CASE Kill
  <2>1. /\ pc # "done" /\ pc' = "done" /\ result' = "killed"
        /\ UNCHANGED <<expected, out, temporary, faults>>
    BY <1>10 DEF Kill, Stop
  <2>2. CallTypes' /\ ExtensionTypes' /\ PhaseInv' /\ LabelInv'
    <3>1. expected' \in Nat /\ faults' \in 0 .. MaxFaults
      BY <1>0, <2>1 DEF CallTypes
    <3>2. pc' \in Writing \cup {"done"} /\ pc' # "inspect" /\ pc' \notin Writing
      BY <2>1 DEF Writing
    <3>3. (pc' = "done" <=> result' # "none") /\ result' \in {"none", "ok", "error", "killed"}
      BY <2>1
    <3>. QED  BY <1>0, <1>1, <3>1, <3>2, <3>3, CombineLeavesPlan
  <2>3. OutInv'
    <3>1. CASE out.ours
      <4>1. /\ out' = File(Wanted', FALSE) /\ out'.ours /\ inputs' # <<>>
            /\ command'.overwrite \/ ~existed'
        BY <1>1, <1>2, <1>3, <2>1, <3>1
      <4>. QED  BY <2>1, <4>1 DEF OutInv
    <3>2. CASE ~out.ours
      BY <1>1, <1>3, <2>1, <3>2 DEF OutInv
    <3>. QED  BY <3>1, <3>2
  <2>4. TemporaryInv'
    BY <2>1 DEF TemporaryInv
  <2>. QED  BY <2>2, <2>3, <2>4
<1>. QED  BY <1>4, <1>5, <1>6, <1>7, <1>8, <1>9, <1>10 DEF Combine

(* A stuttering step keeps the invariant.                                  *)
LEMMA Stutters ==
  ASSUME ExtensionInv, UNCHANGED vars
  PROVE  ExtensionInv'
<1>0. /\ UNCHANGED <<command, existed, inputs, pc, expected, out, temporary, result, faults>>
      /\ UNCHANGED <<request, component, runs>>
  BY DEF vars, combineVars, extensionVars
<1>. USE DEF ExtensionInv
<1>1. Wanted' = Wanted
  BY <1>0, WantedStays
<1>2. HaveFallback' <=> HaveFallback
  BY <1>0 DEF HaveFallback, Fallback, Preferred, Name
<1>3. CallTypes' /\ ExtensionTypes'
  BY <1>0 DEF CallTypes, ExtensionTypes
<1>4. PhaseInv'
  BY <1>0, <1>2 DEF PhaseInv
<1>5. OutInv' /\ TemporaryInv'
  BY <1>0, <1>1 DEF OutInv, TemporaryInv, Short
<1>6. LabelInv'
  BY <1>0 DEF LabelInv, Given
<1>. QED  BY <1>3, <1>4, <1>5, <1>6
-----------------------------------------------------------------------------
(* The invariant holds of every reachable state, for any requests, sources,*)
(* files of the user and merges: where a call is, what the temporary may   *)
(* hold, that the output is what was there or all that is wanted, and that *)
(* no source of a component is an input twice.                             *)
THEOREM ExtensionHolds == Spec => []ExtensionInv
<1>1. ExtensionInv /\ [Next]_vars => ExtensionInv'
  BY ExtendKeeps, CombineKeeps, Stutters DEF Next
<1>. QED  BY <1>1, Start, PTL DEF Spec

(* The types; a fallback is complete only of a component that has one.     *)
THEOREM TypeCorrect == Spec => []TypeOK
<1>1. ExtensionInv => TypeOK
  <2>. SUFFICES ASSUME ExtensionInv PROVE TypeOK
    OBVIOUS
  <2>. USE DEF ExtensionInv
  <2>1. component \in 1 .. Len(Components) + 1
    BY DEF Components, ExtensionTypes
  <2>2. \A role \in DOMAIN runs : runs[role].complete \in BOOLEAN
    <3>1. runs \in [Roles -> RunType]
      BY DEF ExtensionTypes
    <3>2. \A role \in Roles : runs[role] \in RunType
      BY <3>1
    <3>. QED  BY <3>1, <3>2 DEF RunType
  <2>. QED  BY <2>1, <2>2 DEF TypeOK, CallTypes, PhaseInv, Extending, Writing
<1>. QED  BY <1>1, ExtensionHolds, PTL

(* A call that reports an error has neither replaced the output nor left a *)
(* temporary, but for the last inspection of a checked merge, and no call  *)
(* replaces an output unasked (the catch blocks of both writers,           *)
(* src/grib.cpp).                                                          *)
THEOREM ErrorsLeaveOutput == Spec => []FailureKeepsOutput
<1>1. ExtensionInv => FailureKeepsOutput
  <2>. SUFFICES ASSUME ExtensionInv PROVE FailureKeepsOutput
    OBVIOUS
  <2>. USE DEF ExtensionInv
  <2>1. result = "error" => temporary = NoFile
    <3>1. result # "none" => pc \notin {"scan", "rename"}
      BY DEF PhaseInv
    <3>. QED  BY <3>1 DEF TemporaryInv
  <2>. QED  BY <2>1 DEF FailureKeepsOutput, Published, OutInv
<1>. QED  BY <1>1, ExtensionHolds, PTL
-----------------------------------------------------------------------------
(* Places in a sequence of sequences, and where they come to in the whole. *)
Places(seqs) == UNION {{i} \X DOMAIN seqs[i] : i \in DOMAIN seqs}

Lays(g, seqs) ==
  /\ g \in [Places(seqs) -> 1 .. Len(FlattenSeq(seqs))]
  /\ \A p, q \in Places(seqs) : Before(p, q) <=> g[p] < g[q]
  /\ \A p, q \in Places(seqs) : g[p] = g[q] => p = q
  /\ \A n \in 1 .. Len(FlattenSeq(seqs)) : \E p \in Places(seqs) : g[p] = n
  /\ \A p \in Places(seqs) : FlattenSeq(seqs)[g[p]] = seqs[p[1]][p[2]]

(* A place is the number of a sequence and a place in that.                *)
LEMMA PlaceIs ==
  ASSUME NEW S, NEW seqs \in Seq(Seq(S)), NEW p
  PROVE  p \in Places(seqs) <=> \E i \in 1 .. Len(seqs) : \E n \in 1 .. Len(seqs[i]) : p = <<i, n>>
<1>1. DOMAIN seqs = 1 .. Len(seqs) /\ \A i \in 1 .. Len(seqs) : DOMAIN seqs[i] = 1 .. Len(seqs[i])
  <2>1. \A i \in 1 .. Len(seqs) : seqs[i] \in Seq(S)
    OBVIOUS
  <2>. QED  BY <2>1
<1>2. p \in Places(seqs) <=> \E i \in DOMAIN seqs : p \in {i} \X DOMAIN seqs[i]
  BY Zenon DEF Places
<1>3. \A i, D : p \in {i} \X D <=> \E n \in D : p = <<i, n>>
  OBVIOUS
<1>. QED  BY <1>1, <1>2, <1>3

(* Where the members of two sequences come to in their concatenation.      *)
LEMMA Joined ==
  ASSUME NEW S, NEW s \in Seq(S), NEW t \in Seq(S)
  PROVE  /\ Len(s \o t) = Len(s) + Len(t)
         /\ \A n \in 1 .. Len(s) : n \in 1 .. Len(s \o t) /\ (s \o t)[n] = s[n]
         /\ \A n \in 1 .. Len(t) : /\ Len(s) + n \in 1 .. Len(s \o t)
                                  /\ (s \o t)[Len(s) + n] = t[n]
  OBVIOUS

(* FlattenSeq lays the places out in order, one to one.                    *)
LEMMA FlattenLays ==
  ASSUME NEW S, NEW seqs \in Seq(Seq(S)), Len(seqs) # 0
  PROVE  \E g : Lays(g, seqs)
<1>. DEFINE L == Len(seqs)
            flat == FlattenSeq(seqs)
            N == L - 1
<1>1. L \in Nat /\ N \in Nat /\ L = N + 1
  OBVIOUS
<1>2. \A i \in 1 .. L : seqs[i] \in Seq(S) /\ Len(seqs[i]) \in Nat
  <2>1. \A i \in 1 .. L : seqs[i] \in Seq(S)
    OBVIOUS
  <2>. QED  BY <2>1
<1>3. PICK f \in [1 .. L -> Seq(S)] :
        f[1] = seqs[1] /\ (\A i \in 2 .. L : f[i] = f[i-1] \o seqs[i]) /\ flat = f[L]
  BY FlattenIs
<1>4. \A p : p \in Places(seqs) <=> \E i \in 1 .. L : \E n \in 1 .. Len(seqs[i]) : p = <<i, n>>
  BY PlaceIs
<1>. HIDE DEF L, flat, N
<1>5. \A i \in 1 .. L : f[i] \in Seq(S) /\ Len(f[i]) \in Nat
  <2>1. \A i \in 1 .. L : f[i] \in Seq(S)
    OBVIOUS
  <2>. QED  BY <2>1
<1>. DEFINE off == [i \in 1 .. L |-> IF i = 1 THEN 0 ELSE Len(f[i - 1])]
            Held(i) == \A j \in 1 .. i : \A n \in 1 .. Len(seqs[j]) :
                         off[j] + n \in 1 .. Len(f[i]) /\ f[i][off[j] + n] = seqs[j][n]
            Onto(i) == \A k \in 1 .. Len(f[i]) :
                         \E j \in 1 .. i : \E n \in 1 .. Len(seqs[j]) : k = off[j] + n
            T == {m \in 0 .. N : Held(m + 1) /\ Onto(m + 1)}
<1>6. /\ \A i \in 1 .. L : off[i] \in Nat
      /\ 1 \in 1 .. L /\ off[1] = 0
      /\ \A i \in 2 .. L : i - 1 \in 1 .. L /\ i \in 1 .. L /\ off[i] = Len(f[i - 1])
  <2>1. 1 \in 1 .. L
    BY <1>1
  <2>2. \A i \in 2 .. L : i - 1 \in 1 .. L /\ i \in 1 .. L /\ i # 1
    BY <1>1
  <2>3. \A i \in 1 .. L : i # 1 => i \in 2 .. L
    BY <1>1
  <2>. QED  BY <1>5, <2>1, <2>2, <2>3
<1>. HIDE DEF off
<1>7. 0 \in T
  <2>1. \A j \in 1 .. 0 + 1 : j = 1
    OBVIOUS
  <2>2. f[0 + 1] = seqs[1] /\ off[1] = 0 /\ Len(seqs[1]) \in Nat /\ 1 \in 1 .. 0 + 1
    BY <1>2, <1>3, <1>6
  <2>3. \A n \in 1 .. Len(seqs[1]) : 0 + n = n
    BY <2>2
  <2>4. Held(0 + 1)
    BY <2>1, <2>2, <2>3
  <2>5. Onto(0 + 1)
    BY <2>1, <2>2, <2>3
  <2>. QED  BY <1>1, <2>4, <2>5
<1>8. ASSUME NEW m \in 0 .. N - 1, m \in T
      PROVE  m + 1 \in T
  <2>. DEFINE i == m + 1 + 1
  <2>1. m + 1 \in 0 .. N /\ i \in 2 .. L /\ i - 1 = m + 1 /\ i \in 1 .. L /\ m + 1 \in 1 .. L
    BY <1>1
  <2>2. \A j \in 1 .. i : j = i \/ j \in 1 .. m + 1
    OBVIOUS
  <2>3. i \in 1 .. i /\ \A j \in 1 .. m + 1 : j \in 1 .. i /\ j \in 1 .. L
    BY <1>1, <2>1
  <2>. HIDE DEF i
  <2>4. f[i] = f[m + 1] \o seqs[i] /\ off[i] = Len(f[m + 1])
    BY <1>3, <1>6, <2>1
  <2>5. f[m + 1] \in Seq(S) /\ seqs[i] \in Seq(S) /\ Len(f[m + 1]) \in Nat /\ Len(seqs[i]) \in Nat
    BY <1>2, <1>5, <2>1
  <2>6. /\ Len(f[i]) = Len(f[m + 1]) + Len(seqs[i])
        /\ \A n \in 1 .. Len(f[m + 1]) : n \in 1 .. Len(f[i]) /\ f[i][n] = f[m + 1][n]
        /\ \A n \in 1 .. Len(seqs[i]) : /\ Len(f[m + 1]) + n \in 1 .. Len(f[i])
                                        /\ f[i][Len(f[m + 1]) + n] = seqs[i][n]
    <3>. DEFINE s == f[m + 1]
                t == seqs[i]
                u == f[i]
    <3>1. s \in Seq(S) /\ t \in Seq(S) /\ u = s \o t
      BY <2>4, <2>5
    <3>. HIDE DEF s, t, u
    <3>2. /\ Len(u) = Len(s) + Len(t)
          /\ \A n \in 1 .. Len(s) : n \in 1 .. Len(u) /\ u[n] = s[n]
          /\ \A n \in 1 .. Len(t) : Len(s) + n \in 1 .. Len(u) /\ u[Len(s) + n] = t[n]
      BY <3>1, Joined
    <3>. QED  BY <3>2 DEF s, t, u
  <2>10. Len(f[i]) = Len(f[m + 1]) + Len(seqs[i])
    BY <2>6
  <2>7. Held(m + 1) /\ Onto(m + 1)
    BY <1>8
  <2>8. Held(i)
    BY <2>2, <2>4, <2>6, <2>7
  <2>9. Onto(i)
    <3>1. ASSUME NEW k \in 1 .. Len(f[i])
          PROVE  \E j \in 1 .. i : \E n \in 1 .. Len(seqs[j]) : k = off[j] + n
      <4>1. CASE k \in 1 .. Len(f[m + 1])
        BY <2>3, <2>7, <4>1
      <4>2. CASE k \notin 1 .. Len(f[m + 1])
        <5>1. k - Len(f[m + 1]) \in 1 .. Len(seqs[i]) /\ k = Len(f[m + 1]) + (k - Len(f[m + 1]))
          <6>. DEFINE a == Len(f[m + 1])
                      b == Len(seqs[i])
          <6>1. a \in Nat /\ b \in Nat /\ k \in 1 .. a + b /\ k \notin 1 .. a
            BY <2>5, <2>10, <4>2
          <6>. HIDE DEF a, b
          <6>2. k - a \in 1 .. b /\ k = a + (k - a)
            BY <6>1
          <6>. QED  BY <6>2 DEF a, b
        <5>. QED  BY <2>3, <2>4, <5>1
      <4>. QED  BY <4>1, <4>2
    <3>. QED  BY <3>1
  <2>. QED  BY <2>1, <2>8, <2>9 DEF i
<1>9. \A i \in 1 .. L : Held(i) /\ Onto(i)
  <2>. HIDE DEF T, Held, Onto
  <2>1. \A m \in 0 .. N : m \in T
    BY <1>1, <1>7, <1>8, Induction
  <2>2. ASSUME NEW i \in 1 .. L PROVE Held(i) /\ Onto(i)
    <3>1. i - 1 \in 0 .. N /\ i - 1 + 1 = i
      BY <1>1
    <3>2. Held(i - 1 + 1) /\ Onto(i - 1 + 1)
      BY <2>1, <3>1 DEF T
    <3>. QED  BY <3>1, <3>2
  <2>. QED  BY <2>2
<1>. DEFINE g == [p \in Places(seqs) |-> off[p[1]] + p[2]]
<1>10. \A p \in Places(seqs) : \E i \in 1 .. L : \E n \in 1 .. Len(seqs[i]) :
         p = <<i, n>> /\ g[p] = off[i] + n
  BY <1>4
<1>11. \A i \in 1 .. L : \A n \in 1 .. Len(seqs[i]) :
         <<i, n>> \in Places(seqs) /\ g[<<i, n>>] = off[i] + n
  BY <1>4
<1>12. L \in 1 .. L /\ Held(L) /\ Onto(L)
  <2>1. L \in 1 .. L
    BY <1>1
  <2>. HIDE DEF Held, Onto
  <2>. QED  BY <1>9, <2>1
<1>13. g \in [Places(seqs) -> 1 .. Len(flat)]
  <2>1. ASSUME NEW p \in Places(seqs) PROVE g[p] \in 1 .. Len(flat)
    <3>1. PICK i, n : i \in 1 .. L /\ n \in 1 .. Len(seqs[i]) /\ g[p] = off[i] + n
      BY <1>10
    <3>2. off[i] + n \in 1 .. Len(f[L])
      BY <1>12, <3>1
    <3>. HIDE DEF g
    <3>. QED  BY <1>3, <3>1, <3>2
  <2>2. g = [p \in Places(seqs) |-> g[p]]
    OBVIOUS
  <2>. HIDE DEF g
  <2>. QED  BY <2>1, <2>2
<1>. HIDE DEF g
<1>14. \A n \in 1 .. Len(flat) : \E p \in Places(seqs) : g[p] = n
  <2>. TAKE n \in 1 .. Len(flat)
  <2>1. PICK j, k : j \in 1 .. L /\ k \in 1 .. Len(seqs[j]) /\ n = off[j] + k
    <3>1. n \in 1 .. Len(f[L])
      BY <1>3
    <3>2. \E j \in 1 .. L : \E k \in 1 .. Len(seqs[j]) : n = off[j] + k
      BY <1>12, <3>1
    <3>. QED  BY <3>2
  <2>. QED  BY <1>11, <2>1
<1>15. \A p \in Places(seqs) : flat[g[p]] = seqs[p[1]][p[2]]
  <2>. TAKE p \in Places(seqs)
  <2>1. PICK i, n : i \in 1 .. L /\ n \in 1 .. Len(seqs[i]) /\ p = <<i, n>> /\ g[p] = off[i] + n
    BY <1>10
  <2>2. f[L][off[i] + n] = seqs[i][n]
    BY <1>12, <2>1
  <2>3. p[1] = i /\ p[2] = n
    BY <2>1
  <2>. QED  BY <1>3, <2>1, <2>2, <2>3
<1>16. ASSUME NEW p \in Places(seqs), NEW q \in Places(seqs), Before(p, q)
       PROVE  g[p] < g[q]
  <2>1. PICK i, n : i \in 1 .. L /\ n \in 1 .. Len(seqs[i]) /\ p = <<i, n>> /\ g[p] = off[i] + n
    BY <1>10
  <2>2. PICK j, k : j \in 1 .. L /\ k \in 1 .. Len(seqs[j]) /\ q = <<j, k>> /\ g[q] = off[j] + k
    BY <1>10
  <2>3. /\ n \in Nat /\ k \in Nat /\ k # 0 /\ i \in Nat /\ j \in Nat
        /\ off[i] \in Nat /\ off[j] \in Nat
    <3>1. Len(seqs[i]) \in Nat /\ Len(seqs[j]) \in Nat
      BY <1>2, <2>1, <2>2
    <3>. QED  BY <1>6, <2>1, <2>2, <3>1
  <2>4. i < j \/ (i = j /\ n < k)
    BY <1>16, <2>1, <2>2 DEF Before
  <2>5. CASE i = j /\ n < k
    BY <2>1, <2>2, <2>3, <2>5
  <2>6. CASE i < j
    <3>1. j \in 2 .. L /\ j - 1 \in 1 .. L /\ i \in 1 .. j - 1
      BY <1>1, <2>1, <2>2, <2>6
    <3>2. off[j] = Len(f[j - 1]) /\ Held(j - 1)
      BY <1>6, <1>9, <3>1
    <3>3. off[i] + n \in 1 .. Len(f[j - 1])
      BY <2>1, <3>1, <3>2
    <3>4. off[i] + n <= off[j]
      BY <3>2, <3>3
    <3>. QED  BY <2>1, <2>2, <2>3, <3>4
  <2>. QED  BY <2>4, <2>5, <2>6
<1>17. ASSUME NEW p \in Places(seqs), NEW q \in Places(seqs)
       PROVE  Before(p, q) \/ Before(q, p) \/ p = q
  <2>1. PICK i, n : i \in 1 .. L /\ n \in 1 .. Len(seqs[i]) /\ p = <<i, n>>
    BY <1>4
  <2>2. PICK j, k : j \in 1 .. L /\ k \in 1 .. Len(seqs[j]) /\ q = <<j, k>>
    BY <1>4
  <2>3. i \in Int /\ j \in Int /\ n \in Int /\ k \in Int
    BY <1>2, <2>1, <2>2
  <2>. QED  BY <2>1, <2>2, <2>3 DEF Before
<1>18. \A p \in Places(seqs) : g[p] \in Int
  BY <1>13
<1>19. \A p, q \in Places(seqs) : (Before(p, q) <=> g[p] < g[q]) /\ (g[p] = g[q] => p = q)
  BY <1>16, <1>17, <1>18
<1>. QED  BY <1>13, <1>14, <1>15, <1>19 DEF Lays, flat

(* A one-to-one image has as many members.                                 *)
LEMMA SameSize ==
  ASSUME NEW T, IsFiniteSet(T), NEW S, NEW g, \A x \in S : g[x] \in T,
         \A x, y \in S : g[x] = g[y] => x = y, \A t \in T : \E x \in S : g[x] = t
  PROVE  IsFiniteSet(S) /\ Cardinality(S) = Cardinality(T)
<1>. DEFINE h == [x \in S |-> g[x]]
<1>1. h \in Injection(S, T) /\ h \in Surjection(S, T)
  BY DEF Injection, Surjection, IsInjective
<1>. HIDE DEF h
<1>. QED  BY <1>1, FS_Injection

(* A sequence that holds the members of another at the places I, in order. *)
Picks(short, all, I) ==
  /\ Len(short) = Cardinality(I)
  /\ \A i \in I : short[1 + Cardinality(Below(I, i))] = all[i]

(* A whole sequence is what is picked of it at all places.                 *)
LEMMA AllPicked ==
  ASSUME NEW S, NEW s \in Seq(S)
  PROVE  Picks(s, s, 1 .. Len(s))
<1>1. Len(s) \in Nat
  OBVIOUS
<1>2. Cardinality(1 .. Len(s)) = Len(s)
  <2>1. 1 \in Int /\ Len(s) \in Int
    BY <1>1
  <2>2. Cardinality(1 .. Len(s)) = IF 1 > Len(s) THEN 0 ELSE Len(s) - 1 + 1
    BY <2>1, FS_Interval
  <2>. QED  BY <1>1, <2>2
<1>3. ASSUME NEW i \in 1 .. Len(s)
      PROVE  1 + Cardinality(Below(1 .. Len(s), i)) = i
  <2>1. Below(1 .. Len(s), i) = 1 .. i - 1
    BY <1>1 DEF Below
  <2>2. 1 \in Int /\ i - 1 \in Int
    OBVIOUS
  <2>3. Cardinality(1 .. i - 1) = IF 1 > i - 1 THEN 0 ELSE i - 1 - 1 + 1
    BY <2>2, FS_Interval
  <2>. QED  BY <2>1, <2>3
<1>. QED  BY <1>2, <1>3 DEF Picks

(* Picking the next member appends it.                                     *)
LEMMA PickedMore ==
  ASSUME NEW S, NEW short \in Seq(S), NEW all, NEW n \in Nat, NEW I \in SUBSET (1 .. n),
         Picks(short, all, I), all[n + 1] \in S
  PROVE  Picks(Append(short, all[n + 1]), all, I \cup {n + 1})
<1>. DEFINE J == I \cup {n + 1}
            more == Append(short, all[n + 1])
<1>1. n + 1 \notin I /\ \A i \in I : i \in 1 .. n
  OBVIOUS
<1>2. IsFiniteSet(I) /\ Cardinality(I) \in Nat
  <2>1. 1 \in Int /\ n \in Int
    OBVIOUS
  <2>2. IsFiniteSet(1 .. n)
    BY <2>1, FS_Interval
  <2>. QED  BY <2>2, FS_Subset, FS_CardinalityType
<1>3. IsFiniteSet(J) /\ Cardinality(J) = Cardinality(I) + 1
  BY <1>1, <1>2, FS_AddElement
<1>4. Len(short) = Cardinality(I)
  BY DEF Picks
<1>5. Len(more) = Cardinality(J)
  BY <1>3, <1>4
<1>6. ASSUME NEW i \in I
      PROVE  more[1 + Cardinality(Below(J, i))] = all[i]
  <2>1. i \in 1 .. n
    BY <1>1
  <2>2. Below(J, i) = Below(I, i)
    BY <2>1 DEF Below
  <2>3. Below(I, i) \in SUBSET I /\ Below(I, i) # I
    <3>1. i \in Int /\ ~(i < i)
      BY <2>1
    <3>. QED  BY <3>1 DEF Below
  <2>4. IsFiniteSet(Below(I, i)) /\ Cardinality(Below(I, i)) \in Nat
    BY <1>2, <2>3, FS_Subset, FS_CardinalityType
  <2>5. Cardinality(Below(I, i)) <= Cardinality(I) /\ Cardinality(Below(I, i)) # Cardinality(I)
    BY <1>2, <2>3, FS_Subset
  <2>. DEFINE k == 1 + Cardinality(Below(I, i))
  <2>6. k \in 1 .. Len(short)
    BY <1>2, <1>4, <2>4, <2>5
  <2>7. short[k] = all[i]
    BY DEF Picks
  <2>. HIDE DEF k
  <2>8. more[k] = short[k]
    BY <2>6
  <2>. QED  BY <2>2, <2>7, <2>8 DEF k
<1>7. more[1 + Cardinality(Below(J, n + 1))] = all[n + 1]
  <2>1. Below(J, n + 1) = I
    <3>1. \A i \in I : i < n + 1
      BY <1>1
    <3>2. ~(n + 1 < n + 1)
      OBVIOUS
    <3>. QED  BY <3>1, <3>2 DEF Below
  <2>2. more[Len(short) + 1] = all[n + 1]
    OBVIOUS
  <2>. QED  BY <1>2, <1>4, <2>1, <2>2
<1>. QED  BY <1>5, <1>6, <1>7 DEF Picks

(* Messages of one tuple have one time.                                    *)
LEMMA TupleTime ==
  ASSUME NEW x \in ReadType, NEW y \in ReadType
  PROVE  Tuple(x) = Tuple(y) <=>
           \/ x.m.time # NoTime /\ x.m.time = y.m.time /\ x.m.param = y.m.param
           \/ x.m.time = NoTime /\ y.m.time = NoTime /\ x.label = y.label /\ x.n = y.n
<1>1. \A a, b, c, d, e : <<a, b, c>> # <<d, e>>
  OBVIOUS
<1>2. CASE x.m.time = NoTime
  <2>1. Tuple(x) = <<"unclassified", x.label, x.n>>
    BY <1>2 DEF Tuple
  <2>2. CASE y.m.time = NoTime
    <3>1. Tuple(y) = <<"unclassified", y.label, y.n>>
      BY <2>2 DEF Tuple
    <3>. QED  BY <1>2, <2>1, <2>2, <3>1
  <2>3. CASE y.m.time # NoTime
    <3>1. Tuple(y) = <<y.m.param, y.m.time>>
      BY <2>3 DEF Tuple
    <3>. QED  BY <1>1, <1>2, <2>1, <2>3, <3>1
  <2>. QED  BY <2>2, <2>3
<1>3. CASE x.m.time # NoTime
  <2>1. Tuple(x) = <<x.m.param, x.m.time>>
    BY <1>3 DEF Tuple
  <2>2. CASE y.m.time = NoTime
    <3>1. Tuple(y) = <<"unclassified", y.label, y.n>>
      BY <2>2 DEF Tuple
    <3>. QED  BY <1>1, <1>3, <2>1, <2>2, <3>1
  <2>3. CASE y.m.time # NoTime
    <3>1. Tuple(y) = <<y.m.param, y.m.time>>
      BY <2>3 DEF Tuple
    <3>. QED  BY <1>3, <2>1, <2>3, <3>1
  <2>. QED  BY <2>2, <2>3
<1>. QED  BY <1>2, <1>3

(* What the reading loop keeps: the first message within the window of     *)
(* each tuple.                                                             *)
Worthy(i) == ~Beyond(Read[i].m) /\ \A j \in 1 .. i - 1 : Tuple(Read[j]) # Tuple(Read[i])

(* An appended member is the one that is added to the range.               *)
LEMMA RangeAppended ==
  ASSUME NEW S, NEW s \in Seq(S), NEW x \in S
  PROVE  Range(Append(s, x)) = Range(s) \cup {x}
<1>1. Len(s) \in Nat /\ DOMAIN s = 1 .. Len(s) /\ DOMAIN Append(s, x) = 1 .. Len(s) + 1
  OBVIOUS
<1>2. /\ \A i \in 1 .. Len(s) : Append(s, x)[i] = s[i]
      /\ Append(s, x)[Len(s) + 1] = x
  OBVIOUS
<1>3. /\ Len(s) + 1 \in 1 .. Len(s) + 1
      /\ \A i \in 1 .. Len(s) + 1 : i \in 1 .. Len(s) \/ i = Len(s) + 1
      /\ \A i \in 1 .. Len(s) : i \in 1 .. Len(s) + 1
  BY <1>1
<1>. DEFINE m == Append(s, x)
<1>. HIDE DEF m
<1>4. Range(m) = {m[i] : i \in DOMAIN m} /\ Range(s) = {s[i] : i \in DOMAIN s}
  BY DEF Range
<1>5. ASSUME NEW y \in Range(m) PROVE y \in Range(s) \cup {x}
  BY <1>1, <1>2, <1>3, <1>4, <1>5 DEF m
<1>6. ASSUME NEW y \in Range(s) \cup {x} PROVE y \in Range(m)
  BY <1>1, <1>2, <1>3, <1>4, <1>6 DEF m
<1>. QED  BY <1>5, <1>6 DEF m

(* The reading loop keeps exactly the worthy messages, in their order.     *)
LEMMA KeptPicks ==
  ASSUME inputs \in Seq(InputType)
  PROVE  Picks(Kept, Read, {i \in 1 .. Len(Read) : Worthy(i)})
<1>. DEFINE N == Len(Read)
            I(n) == {i \in 1 .. n : Worthy(i)}
<1>1. N \in Nat /\ \A i \in 1 .. N : Read[i] \in ReadType
  BY ReadTyped
<1>2. PICK k \in [0 .. N -> Seq(ReadType)] :
        k[0] = << >> /\ (\A n \in 1 .. N : k[n] = Keep(k[n - 1], Read[n])) /\ Kept = k[N]
  BY KeptIs
<1>. HIDE DEF N
<1>. DEFINE T == {n \in 0 .. N : /\ Picks(k[n], Read, I(n))
                                /\ Range(k[n]) = {Read[i] : i \in I(n)}}
<1>3. 0 \in T
  <2>1. I(0) = {} /\ k[0] = << >> /\ Cardinality({}) = 0
    BY <1>2, FS_EmptySet
  <2>2. Range(<< >>) = {}
    BY DEF Range
  <2>3. Picks(k[0], Read, {})
    BY <2>1 DEF Picks
  <2>4. {Read[i] : i \in I(0)} = {}
    BY <2>1
  <2>. HIDE DEF I
  <2>5. Picks(k[0], Read, I(0)) /\ Range(k[0]) = {}
    BY <2>1, <2>2, <2>3
  <2>6. 0 \in 0 .. N
    BY <1>1
  <2>. QED  BY <2>4, <2>5, <2>6
<1>4. ASSUME NEW n \in 0 .. N - 1, n \in T
      PROVE  n + 1 \in T
  <2>1. /\ n + 1 \in 1 .. N /\ n + 1 - 1 = n /\ n + 1 \in 0 .. N /\ n \in 0 .. N /\ n \in Nat
        /\ \A i \in 1 .. n : i \in 1 .. N
    BY <1>1
  <2>. DEFINE x == Read[n + 1]
  <2>2. k[n + 1] = Keep(k[n], x) /\ k[n] \in Seq(ReadType) /\ x \in ReadType
    BY <1>1, <1>2, <2>1
  <2>. HIDE DEF x
  <2>3. Picks(k[n], Read, I(n)) /\ Range(k[n]) = {Read[i] : i \in I(n)}
    BY <1>4
  <2>4. Worthy(n + 1) <=> ~Beyond(x.m) /\ ~\E y \in Range(k[n]) : Tuple(y) = Tuple(x)
    <3>1. ASSUME Worthy(n + 1), NEW y \in Range(k[n]) PROVE Tuple(y) # Tuple(x)
      <4>1. PICK i \in 1 .. n : y = Read[i]
        BY <2>3
      <4>. QED  BY <2>1, <3>1, <4>1 DEF Worthy, x
    <3>2. ASSUME ~Beyond(x.m), NEW i \in 1 .. n, Tuple(Read[i]) = Tuple(x)
          PROVE  \E y \in Range(k[n]) : Tuple(y) = Tuple(x)
      <4>. DEFINE U == {j \in 1 .. n : Tuple(Read[j]) = Tuple(x)}
      <4>1. PICK j \in U : \A l \in U : j <= l
        <5>1. U \subseteq Nat /\ U # {}
          BY <3>2
        <5>. HIDE DEF U
        <5>. QED  BY <5>1, Least
      <4>2. j \in 1 .. n /\ Tuple(Read[j]) = Tuple(x) /\ Read[j] \in ReadType
        BY <1>1, <2>1
      <4>3. \A l \in 1 .. j - 1 : Tuple(Read[l]) # Tuple(Read[j])
        <5>. TAKE l \in 1 .. j - 1
        <5>1. l \in 1 .. n /\ ~(j <= l)
          BY <4>2
        <5>. QED  BY <4>1, <4>2, <5>1
      <4>. HIDE DEF U
      <4>4. ~Beyond(Read[j].m)
        <5>1. Read[j].m.time = x.m.time
          BY <2>2, <4>2, TupleTime
        <5>. QED  BY <3>2, <5>1 DEF Beyond
      <4>5. j \in I(n)
        BY <4>2, <4>3, <4>4 DEF Worthy
      <4>. QED  BY <2>3, <4>2, <4>5
    <3>3. Worthy(n + 1) <=> ~Beyond(x.m) /\ ~\E i \in 1 .. n : Tuple(Read[i]) = Tuple(x)
      BY <2>1 DEF Worthy, x
    <3>. QED  BY <3>1, <3>2, <3>3
  <2>5. CASE Worthy(n + 1)
    <3>1. k[n + 1] = Append(k[n], x)
      BY <2>2, <2>4, <2>5 DEF Keep
    <3>2. I(n + 1) = I(n) \cup {n + 1}
      BY <2>1, <2>5
    <3>3. I(n) \in SUBSET (1 .. n)
      OBVIOUS
    <3>. HIDE DEF I
    <3>4. Picks(k[n + 1], Read, I(n + 1))
      <4>. DEFINE s == k[n]
                  J == I(n)
      <4>1. s \in Seq(ReadType) /\ J \in SUBSET (1 .. n) /\ Picks(s, Read, J)
        BY <2>2, <2>3, <3>3
      <4>2. Read[n + 1] \in ReadType
        BY <2>2 DEF x
      <4>. HIDE DEF s, J
      <4>3. Picks(Append(s, Read[n + 1]), Read, J \cup {n + 1})
        BY <2>1, <4>1, <4>2, PickedMore
      <4>. QED  BY <3>1, <3>2, <4>3 DEF s, J, x
    <3>5. Range(k[n + 1]) = Range(k[n]) \cup {x}
      BY <2>2, <3>1, RangeAppended
    <3>6. {Read[i] : i \in I(n + 1)} = {Read[i] : i \in I(n)} \cup {x}
      BY <3>2 DEF x
    <3>. QED  BY <2>1, <2>3, <3>4, <3>5, <3>6
  <2>6. CASE ~Worthy(n + 1)
    <3>1. k[n + 1] = k[n]
      BY <2>2, <2>4, <2>6 DEF Keep
    <3>2. I(n + 1) = I(n)
      BY <2>1, <2>6
    <3>. HIDE DEF I
    <3>. QED  BY <2>1, <2>3, <3>1, <3>2
  <2>. QED  BY <2>5, <2>6
<1>5. N \in T
  <2>. HIDE DEF T
  <2>1. \A n \in 0 .. N : n \in T
    BY <1>1, <1>3, <1>4, Induction
  <2>. QED  BY <1>1, <2>1
<1>. QED  BY <1>2, <1>5 DEF N

(* What is picked of a whole, told by the places in its parts.             *)
Placed(short, seqs, K) ==
  /\ Len(short) = Cardinality(K) /\ Cardinality(K) \in Nat
  /\ \A p \in K : /\ 1 + Cardinality({q \in K : Before(q, p)}) \in 1 .. Len(short)
                  /\ short[1 + Cardinality({q \in K : Before(q, p)})] = seqs[p[1]][p[2]]

(* What is picked at the numbers of places is found under those places.    *)
LEMMA PickedPlaces ==
  ASSUME NEW seqs, NEW g, Lays(g, seqs), Len(FlattenSeq(seqs)) \in Nat,
         NEW K \in SUBSET Places(seqs), NEW I \in SUBSET (1 .. Len(FlattenSeq(seqs))),
         \A p \in Places(seqs) : p \in K <=> g[p] \in I,
         NEW short, Picks(short, FlattenSeq(seqs), I)
  PROVE  Placed(short, seqs, K)
<1>. DEFINE flat == FlattenSeq(seqs)
            P == Places(seqs)
            L == Len(flat)
<1>1. /\ g \in [P -> 1 .. L]
      /\ \A p, q \in P : Before(p, q) <=> g[p] < g[q]
      /\ \A p, q \in P : g[p] = g[q] => p = q
      /\ \A n \in 1 .. L : \E p \in P : g[p] = n
      /\ \A p \in P : flat[g[p]] = seqs[p[1]][p[2]]
  BY DEF Lays
<1>2. K \in SUBSET P /\ L \in Nat /\ I \in SUBSET (1 .. L) /\ \A p \in P : p \in K <=> g[p] \in I
  OBVIOUS
<1>3. Picks(short, flat, I)
  OBVIOUS
<1>. HIDE DEF flat, P, L
<1>4. IsFiniteSet(I) /\ Cardinality(I) \in Nat
  <2>1. 1 \in Int /\ L \in Int
    BY <1>2
  <2>2. IsFiniteSet(1 .. L)
    BY <2>1, FS_Interval
  <2>. QED  BY <1>2, <2>2, FS_Subset, FS_CardinalityType
<1>5. /\ \A p \in K : g[p] \in I
      /\ \A p, q \in K : g[p] = g[q] => p = q
      /\ \A i \in I : \E p \in K : g[p] = i
  BY <1>1, <1>2
<1>6. Cardinality(K) = Cardinality(I)
  BY <1>4, <1>5, SameSize
<1>7. ASSUME NEW p \in K
      PROVE  /\ 1 + Cardinality({q \in K : Before(q, p)}) \in 1 .. Len(short)
             /\ short[1 + Cardinality({q \in K : Before(q, p)})] = seqs[p[1]][p[2]]
  <2>. DEFINE F == {q \in K : Before(q, p)}
              i == g[p]
              B == Below(I, i)
  <2>1. i \in I /\ p \in P
    BY <1>2, <1>5
  <2>2. B \in SUBSET I /\ B # I
    <3>0. i \in 1 .. L
      BY <1>2, <2>1
    <3>. HIDE DEF i
    <3>1. i \in Int /\ ~(i < i)
      BY <3>0
    <3>. QED  BY <2>1, <3>1 DEF Below
  <2>3. IsFiniteSet(B) /\ Cardinality(B) \in Nat
    BY <1>4, <2>2, FS_Subset, FS_CardinalityType
  <2>4. Cardinality(B) <= Cardinality(I) /\ Cardinality(B) # Cardinality(I)
    BY <1>4, <2>2, FS_Subset
  <2>5. Cardinality(F) = Cardinality(B)
    <3>1. /\ \A q \in F : g[q] \in B
          /\ \A q, r \in F : g[q] = g[r] => q = r
          /\ \A j \in B : \E q \in F : g[q] = j
      <4>1. \A q \in K : Before(q, p) <=> g[q] < g[p]
        BY <1>1, <1>2, <2>1
      <4>. QED  BY <1>5, <4>1 DEF Below
    <3>. HIDE DEF F, B
    <3>. QED  BY <2>3, <3>1, SameSize
  <2>6. Len(short) = Cardinality(I) /\ short[1 + Cardinality(B)] = flat[i]
    BY <1>3, <2>1 DEF Picks
  <2>7. flat[i] = seqs[p[1]][p[2]]
    BY <1>1, <2>1
  <2>. HIDE DEF F, B, i
  <2>8. 1 + Cardinality(B) \in 1 .. Len(short)
    BY <1>4, <2>3, <2>4, <2>6
  <2>9. 1 + Cardinality(F) \in 1 .. Len(short) /\ short[1 + Cardinality(F)] = seqs[p[1]][p[2]]
    BY <2>5, <2>6, <2>7, <2>8
  <2>. QED  BY <2>9 DEF F
<1>. QED  BY <1>3, <1>4, <1>6, <1>7 DEF Picks, Placed

(* What a merge or a composite wants, told by the places in its inputs.    *)
WantedPlaces ==
  IF command.how # "composite" THEN Positions
  ELSE {p \in Positions : /\ MessageAt(p).time = NoTime \/ MessageAt(p).time <= command.through
                          /\ \A q \in Positions : Before(q, p) =>
                               ~SameTuple(MessageAt(q), MessageAt(p))}

(* A merge is the messages of all places, in order.                        *)
LEMMA MergedPlaces ==
  ASSUME inputs \in Seq(InputType), inputs # << >>
  PROVE  /\ Len(Merged) = Cardinality(Positions)
         /\ \A p \in Positions :
              Merged[1 + Cardinality({q \in Positions : Before(q, p)})] = MessageAt(p)
<1>. DEFINE seqs == [i \in DOMAIN inputs |-> inputs[i].file.parts]
<1>1. seqs \in Seq(Seq(MessageType))
  <2>1. \A i \in DOMAIN inputs : inputs[i].file.parts \in Seq(MessageType)
    BY InputIs
  <2>. QED  BY <2>1
<1>2. Len(seqs) # 0
  OBVIOUS
<1>3. Positions = Places(seqs) /\ \A p \in Positions : MessageAt(p) = seqs[p[1]][p[2]]
  <2>1. Positions = Places(seqs)
    BY DEF Positions, Places
  <2>2. \A p \in Positions : p[1] \in DOMAIN inputs
    BY DEF Positions
  <2>. QED  BY <2>1, <2>2 DEF MessageAt
<1>4. Merged = FlattenSeq(seqs)
  BY DEF Merged
<1>. HIDE DEF seqs
<1>5. PICK g : Lays(g, seqs)
  BY <1>1, <1>2, FlattenLays
<1>6. FlattenSeq(seqs) \in Seq(MessageType) /\ Len(FlattenSeq(seqs)) \in Nat
  BY <1>1, FlattenTyped
<1>7. Picks(FlattenSeq(seqs), FlattenSeq(seqs), 1 .. Len(FlattenSeq(seqs)))
  BY <1>6, AllPicked
<1>8. \A p \in Places(seqs) : p \in Places(seqs) <=> g[p] \in 1 .. Len(FlattenSeq(seqs))
  BY <1>5 DEF Lays
<1>9. /\ Len(FlattenSeq(seqs)) = Cardinality(Places(seqs))
      /\ \A p \in Places(seqs) :
           FlattenSeq(seqs)[1 + Cardinality({q \in Places(seqs) : Before(q, p)})] = seqs[p[1]][p[2]]
  <2>. DEFINE K == Places(seqs)
              I == 1 .. Len(FlattenSeq(seqs))
              short == FlattenSeq(seqs)
  <2>1. K \in SUBSET Places(seqs) /\ I \in SUBSET (1 .. Len(FlattenSeq(seqs)))
    OBVIOUS
  <2>2. \A p \in Places(seqs) : p \in K <=> g[p] \in I
    BY <1>8
  <2>3. Picks(short, FlattenSeq(seqs), I)
    BY <1>7
  <2>. HIDE DEF K, I, short
  <2>4. Placed(short, seqs, K)
    BY <1>5, <1>6, <2>1, <2>2, <2>3, PickedPlaces
  <2>. QED  BY <2>4 DEF K, short, Placed
<1>. QED  BY <1>3, <1>4, <1>9

(* A composite is the messages of the wanted places, in order.             *)
LEMMA CompositePlaces ==
  ASSUME inputs \in Seq(InputType), inputs # << >>, command.how = "composite",
         command.through \in Int, LabelInv
  PROVE  /\ Len(Composite) = Cardinality(WantedPlaces)
         /\ \A p \in WantedPlaces :
              Composite[1 + Cardinality({q \in WantedPlaces : Before(q, p)})] = MessageAt(p)
<1>. DEFINE seqs == [i \in DOMAIN inputs |-> Numbered(inputs[i])]
            K == WantedPlaces
            I == {i \in 1 .. Len(Read) : Worthy(i)}
<1>1. seqs \in Seq(Seq(ReadType)) /\ Len(seqs) # 0 /\ Read = FlattenSeq(seqs)
  <2>1. \A i \in DOMAIN inputs : Numbered(inputs[i]) \in Seq(ReadType)
    BY InputIs
  <2>2. seqs \in Seq(Seq(ReadType))
    BY <2>1
  <2>. QED  BY <2>2 DEF Read
<1>2. \A i \in DOMAIN inputs :
        /\ DOMAIN seqs[i] = DOMAIN inputs[i].file.parts
        /\ \A n \in DOMAIN seqs[i] : seqs[i][n] = [label |-> inputs[i].label, n |-> n,
                                                  m |-> inputs[i].file.parts[n]]
  BY DEF Numbered
<1>3. DOMAIN seqs = DOMAIN inputs
  OBVIOUS
<1>. HIDE DEF seqs
<1>4. Positions = Places(seqs)
  BY <1>2, <1>3 DEF Positions, Places
<1>5. ASSUME NEW p \in Positions
      PROVE  /\ p[1] \in DOMAIN inputs /\ p[2] \in DOMAIN inputs[p[1]].file.parts
             /\ p = <<p[1], p[2]>>
             /\ seqs[p[1]][p[2]] = [label |-> inputs[p[1]].label, n |-> p[2], m |-> MessageAt(p)]
             /\ MessageAt(p) \in MessageType
  <2>1. p[1] \in DOMAIN inputs /\ p[2] \in DOMAIN inputs[p[1]].file.parts /\ p = <<p[1], p[2]>>
    BY DEF Positions
  <2>2. inputs[p[1]].file.parts \in Seq(MessageType)
    BY <2>1, InputIs
  <2>. QED  BY <1>2, <2>1, <2>2 DEF MessageAt
<1>6. PICK g : Lays(g, seqs)
  BY <1>1, FlattenLays
<1>7. Read \in Seq(ReadType) /\ Len(Read) \in Nat
  BY ReadTyped
<1>8. ASSUME NEW p \in Positions
      PROVE  g[p] \in 1 .. Len(Read) /\ Read[g[p]] = seqs[p[1]][p[2]] /\ Read[g[p]] \in ReadType
  <2>1. g[p] \in 1 .. Len(Read) /\ Read[g[p]] = seqs[p[1]][p[2]]
    BY <1>1, <1>4, <1>6 DEF Lays
  <2>. QED  BY <1>7, <2>1
<1>18. ASSUME NEW p \in Positions
       PROVE  /\ Read[g[p]].label = inputs[p[1]].label /\ Read[g[p]].n = p[2]
              /\ Read[g[p]].m = MessageAt(p) /\ seqs[p[1]][p[2]].m = MessageAt(p)
  <2>1. Read[g[p]] = seqs[p[1]][p[2]]
    BY <1>8
  <2>2. seqs[p[1]][p[2]] = [label |-> inputs[p[1]].label, n |-> p[2], m |-> MessageAt(p)]
    BY <1>5
  <2>. QED  BY <2>1, <2>2
<1>9. ASSUME NEW p \in Positions, NEW q \in Positions, Before(q, p)
      PROVE  Tuple(Read[g[q]]) = Tuple(Read[g[p]]) <=> SameTuple(MessageAt(q), MessageAt(p))
  <2>. DEFINE x == Read[g[q]]
              y == Read[g[p]]
  <2>1. x \in ReadType /\ y \in ReadType
    BY <1>8
  <2>2. /\ x.label = inputs[q[1]].label /\ x.n = q[2] /\ x.m = MessageAt(q)
        /\ y.label = inputs[p[1]].label /\ y.n = p[2] /\ y.m = MessageAt(p)
    BY <1>18
  <2>. HIDE DEF x, y
  <2>3. ~(x.label = y.label /\ x.n = y.n)
    <3>1. SUFFICES ASSUME x.label = y.label, x.n = y.n PROVE FALSE
      OBVIOUS
    <3>2. p[1] = q[1]
      BY <1>5, <2>2, <3>1 DEF LabelInv
    <3>3. p[2] = q[2]
      BY <2>2, <3>1
    <3>4. p[1] \in Int /\ p[2] \in Int
      <4>1. p[1] \in DOMAIN inputs /\ p[2] \in DOMAIN inputs[p[1]].file.parts
        BY <1>5
      <4>2. inputs[p[1]].file.parts \in Seq(MessageType)
        BY <4>1, InputIs
      <4>3. \A A, s, i : s \in Seq(A) /\ i \in DOMAIN s => i \in Int
        OBVIOUS
      <4>. QED  BY <4>1, <4>2, <4>3
    <3>. QED  BY <1>9, <3>2, <3>3, <3>4 DEF Before
  <2>4. Tuple(x) = Tuple(y) <=>
           \/ x.m.time # NoTime /\ x.m.time = y.m.time /\ x.m.param = y.m.param
           \/ x.m.time = NoTime /\ y.m.time = NoTime /\ x.label = y.label /\ x.n = y.n
    BY <2>1, TupleTime
  <2>5. Tuple(x) = Tuple(y) <=> SameTuple(MessageAt(q), MessageAt(p))
    BY <2>2, <2>3, <2>4 DEF SameTuple
  <2>. QED  BY <2>5 DEF x, y
<1>10. ASSUME NEW p \in Positions
       PROVE  p \in K <=> g[p] \in I
  <2>1. Read[g[p]].m = MessageAt(p) /\ g[p] \in 1 .. Len(Read)
    BY <1>8, <1>18
  <2>2. ~Beyond(Read[g[p]].m) <=> MessageAt(p).time = NoTime \/ MessageAt(p).time <= command.through
    <3>1. MessageAt(p).time \in Int \cup {NoTime}
      BY <1>5 DEF MessageType
    <3>. QED  BY <2>1, <3>1 DEF Beyond
  <2>3. (\A j \in 1 .. g[p] - 1 : Tuple(Read[j]) # Tuple(Read[g[p]]))
          <=> \A q \in Positions : Before(q, p) => ~SameTuple(MessageAt(q), MessageAt(p))
    <3>1. ASSUME NEW j \in 1 .. g[p] - 1
          PROVE  \E q \in Positions : Before(q, p) /\ g[q] = j
      <4>1. j \in 1 .. Len(Read) /\ j < g[p]
        BY <1>7, <2>1
      <4>2. PICK q \in Positions : g[q] = j
        BY <1>1, <1>4, <1>6, <4>1 DEF Lays
      <4>3. Before(q, p)
        BY <1>4, <1>6, <4>1, <4>2 DEF Lays
      <4>. QED  BY <4>2, <4>3
    <3>2. ASSUME NEW q \in Positions, Before(q, p)
          PROVE  g[q] \in 1 .. g[p] - 1
      <4>1. g[q] < g[p] /\ g[q] \in 1 .. Len(Read)
        BY <1>4, <1>6, <1>8, <3>2 DEF Lays
      <4>. QED  BY <1>7, <2>1, <4>1
    <3>. QED  BY <1>9, <3>1, <3>2
  <2>. QED  BY <2>1, <2>2, <2>3 DEF WantedPlaces, Worthy
<1>11. K \in SUBSET Places(seqs) /\ I \in SUBSET (1 .. Len(Read))
  BY <1>4 DEF WantedPlaces
<1>12. Picks(Kept, Read, I)
  BY KeptPicks
<1>. HIDE DEF K, I
<1>13. /\ Len(Kept) = Cardinality(K)
       /\ \A p \in K : /\ 1 + Cardinality({q \in K : Before(q, p)}) \in 1 .. Len(Kept)
                       /\ Kept[1 + Cardinality({q \in K : Before(q, p)})] = seqs[p[1]][p[2]]
  <2>1. \A p \in Places(seqs) : p \in K <=> g[p] \in I
    BY <1>4, <1>10
  <2>2. /\ Len(FlattenSeq(seqs)) \in Nat /\ I \in SUBSET (1 .. Len(FlattenSeq(seqs)))
        /\ Picks(Kept, FlattenSeq(seqs), I) /\ K \in SUBSET Places(seqs)
    BY <1>1, <1>7, <1>11, <1>12
  <2>3. Placed(Kept, seqs, K)
    BY <1>6, <2>1, <2>2, PickedPlaces
  <2>. QED  BY <2>3 DEF Placed
<1>14. Kept \in Seq(ReadType)
  BY <1>7, KeptIs, SMTT(30)
<1>15. DOMAIN Kept = 1 .. Len(Kept) /\ Len(Kept) \in Nat
  BY <1>14
<1>16. Len(Composite) = Len(Kept) /\ \A k \in 1 .. Len(Kept) : Composite[k] = Kept[k].m
  BY <1>15 DEF Composite
<1>17. ASSUME NEW p \in K
       PROVE  Composite[1 + Cardinality({q \in K : Before(q, p)})] = MessageAt(p)
  <2>. DEFINE k == 1 + Cardinality({q \in K : Before(q, p)})
  <2>1. k \in 1 .. Len(Kept) /\ Kept[k] = seqs[p[1]][p[2]]
    BY <1>13
  <2>. HIDE DEF k
  <2>2. p \in Positions
    BY <1>4, <1>11
  <2>3. Composite[k] = MessageAt(p)
    BY <1>16, <1>18, <2>1, <2>2
  <2>. QED  BY <2>3 DEF k
<1>. QED  BY <1>13, <1>16, <1>17 DEF K

(* What is published is, for any number of inputs with any messages in     *)
(* them, exactly the messages in the window that no earlier one of the same*)
(* tuple precedes, in their order; for a merge all messages                *)
(* (CompositeGribStreamsPreferFirst and MergeGribStreams). The labels are  *)
(* part of the argument: a message without time is kept apart by its input.*)
THEOREM CompositePublished == Spec => []PublishedIsComposite
<1>1. ExtensionInv => PublishedIsComposite
  <2>. SUFFICES ASSUME ExtensionInv, out.ours PROVE PublishedIsComposite
    BY DEF PublishedIsComposite, Published
  <2>1. out = File(Wanted, FALSE) /\ inputs # << >> /\ inputs \in Seq(InputType)
    BY DEF ExtensionInv, OutInv, CallTypes
  <2>2. ~out.cut /\ out.parts = Wanted
    BY <2>1 DEF File
  <2>3. /\ Len(Wanted) = Cardinality(WantedPlaces)
        /\ \A p \in WantedPlaces :
             Wanted[1 + Cardinality({q \in WantedPlaces : Before(q, p)})] = MessageAt(p)
    <3>1. CASE command.how = "composite"
      <4>1. command.through \in Int
        <5>1. command.through = request.hours /\ request \in Requests
          BY <3>1 DEF ExtensionInv, PhaseInv, ExtensionTypes
        <5>. QED  BY <5>1, RequestIs
      <4>2. LabelInv
        BY DEF ExtensionInv
      <4>3. Wanted = Composite
        BY <3>1 DEF Wanted
      <4>. QED  BY <2>1, <3>1, <4>1, <4>2, <4>3, CompositePlaces
    <3>2. CASE command.how # "composite"
      <4>1. Wanted = Merged /\ WantedPlaces = Positions
        BY <3>2 DEF Wanted, WantedPlaces
      <4>. QED  BY <2>1, <4>1, MergedPlaces
    <3>. QED  BY <3>1, <3>2
  <2>. QED  BY <2>2, <2>3 DEF PublishedIsComposite, WantedPlaces
<1>. QED  BY <1>1, ExtensionHolds, PTL
-----------------------------------------------------------------------------
(* The window is covered.                                                  *)
HasTime(name, t) == \E i \in DOMAIN inputs : \E n \in DOMAIN inputs[i].file.parts :
                      /\ inputs[i].file.parts[n].param = FieldOf[name]
                      /\ inputs[i].file.parts[n].time = t

(* No hour between two hours of T is w or more after all before it.        *)
Dense(T, w) == \A s, t \in T : \A h \in Int :
                 s <= h /\ h <= t => \E u \in T : u <= h /\ h < u + w

(* The longest time between two hours of a source that is asked for a step *)
(* and no more leads than the limit.                                       *)
Gap(source, step, limit) ==
  CASE source = "noaa_rtofs_global" -> Max({RtofsStep, step})
    [] source = "ukmo_ukv" /\ limit > UkvHourly -> Max({UkvStep, step})
    [] OTHER -> step

Width(name, role) == Gap(request[name][role], StepOf(name, role), Hours + Allowance)

Used(name) == {c \in coverage : c.component = name /\ c.status = "complete"}

Widest(name) == Max({Spacing(name, c) : c \in Used(name)})

WholeWindow(name) ==
  request[name].preferred # "none" /\ (\A c \in Used(name) : c.source \notin AsGiven) =>
    \A h \in 0 .. Hours : \E t \in Int : t <= h /\ h < t + Widest(name) /\ HasTime(name, t)

(* A complete child has its hours in the inputs, and no gaps of its own.   *)
Delivered(role) ==
  runs[role].complete =>
    /\ Covered(role, request[Name][role], "complete") \in coverage
    /\ \A t \in runs[role].times : HasTime(Name, t)
    /\ request[Name][role] \notin AsGiven => Dense(runs[role].times, Width(Name, role))

CoverageInv ==
  command.how = "composite" =>
    /\ pc \in Writing \/ out.ours => component = 4 /\ ~request.dry_run
    /\ ~request.dry_run =>
         /\ \A c \in coverage : c.role \in Roles
         /\ component <= 3 => \A role \in Roles : Delivered(role)
         /\ \A c \in 1 .. component - 1 : WholeWindow(Components[c])

(* Ascending leaves no hour out.                                           *)
LEMMA AscendingOnto ==
  ASSUME NEW S \in SUBSET Int, IsFiniteSet(S), NEW t \in S
  PROVE  \E i \in 1 .. Cardinality(S) : Ascending(S)[i] = t
<1>. DEFINE n == Cardinality(S)
            f == Ascending(S)
<1>1. n \in Nat /\ f \in [1 .. n -> S] /\ \A i \in 1 .. n : Cardinality(Below(S, f[i])) = i - 1
  BY AscendingIs
<1>. HIDE DEF n, f
<1>2. f \in Injection(1 .. n, S)
  <2>1. \A i, j \in 1 .. n : f[i] = f[j] => i = j
    <3>1. ASSUME NEW i \in 1 .. n, NEW j \in 1 .. n, f[i] = f[j]
          PROVE  i = j
      <4>1. i - 1 = j - 1
        BY <1>1, <3>1
      <4>. QED  BY <4>1
    <3>. QED  BY <3>1
  <2>. QED  BY <1>1, <2>1 DEF Injection, IsInjective
<1>3. Cardinality(1 .. n) = n
  <2>1. 1 \in Int /\ n \in Int
    BY <1>1
  <2>2. Cardinality(1 .. n) = IF 1 > n THEN 0 ELSE n - 1 + 1
    BY <2>1, FS_Interval
  <2>. QED  BY <1>1, <2>2
<1>4. f \in Surjection(1 .. n, S)
  <2>1. Cardinality(1 .. n) = Cardinality(S)
    BY <1>3 DEF n
  <2>. QED  BY <1>2, <2>1, FS_Injection
<1>. QED  BY <1>4 DEF Surjection, n, f

(* Each hour a child delivers is in its stream.                            *)
LEMMA StreamHas ==
  ASSUME Name \in Names, NEW source, NEW times \in SUBSET Int, IsFiniteSet(times), NEW t \in times
  PROVE  \E n \in DOMAIN Stream(source, times) :
           /\ Stream(source, times)[n].param = FieldOf[Name]
           /\ Stream(source, times)[n].time = t
<1>. DEFINE fields == FieldsOf(source)
            at(u) == [f \in DOMAIN fields |-> Message(fields[f], u, f)]
            sorted == Ascending(times)
            seqs == [i \in DOMAIN sorted |-> at(sorted[i])]
            mask == IF source = "existing-file" THEN <<Message("mask", NoTime, 1)>> ELSE << >>
<1>1. fields \in Seq(Fields) /\ Len(fields) # 0 /\ fields[1] = FieldOf[Name]
  <2>1. CASE Name = "weather" /\ source = "gfs"
    <3>1. fields = <<"wind", "rain", "rain">>
      BY <2>1 DEF FieldsOf
    <3>2. FieldOf[Name] = "wind" /\ fields[1] = "wind" /\ Len(fields) # 0
      BY <2>1, <3>1 DEF FieldOf
    <3>3. fields \in Seq(Fields)
      BY <3>1 DEF Fields
    <3>. QED  BY <3>2, <3>3
  <2>2. CASE Name = "weather" /\ source # "gfs"
    <3>1. fields = <<"wind">>
      BY <2>2 DEF FieldsOf
    <3>. QED  BY <2>2, <3>1 DEF Fields, FieldOf
  <2>3. CASE Name = "waves"
    <3>1. fields = <<"wave">>
      BY <2>3 DEF FieldsOf
    <3>. QED  BY <2>3, <3>1 DEF Fields, FieldOf
  <2>4. CASE Name = "current"
    <3>1. fields = <<"current">>
      BY <2>4 DEF FieldsOf
    <3>. QED  BY <2>4, <3>1 DEF Fields, FieldOf
  <2>. QED  BY <2>1, <2>2, <2>3, <2>4 DEF Names
<1>. HIDE DEF fields
<1>2. \A u \in Int : at(u) \in Seq(MessageType) /\ Len(at(u)) = Len(fields)
  <2>. TAKE u \in Int
  <2>1. \A f \in DOMAIN fields : Message(fields[f], u, f) \in MessageType
    BY <1>1 DEF Message, MessageType
  <2>. QED  BY <1>1, <2>1
<1>3. sorted \in [1 .. Cardinality(times) -> times] /\ Cardinality(times) \in Nat
  BY AscendingIs
<1>4. PICK i \in 1 .. Cardinality(times) : sorted[i] = t
  BY AscendingOnto
<1>5. t \in Int /\ at(t)[1] = Message(FieldOf[Name], t, 1)
  BY <1>1
<1>. HIDE DEF sorted, at
<1>6. seqs \in Seq(Seq(MessageType)) /\ Len(seqs) = Cardinality(times)
  <2>1. \A j \in DOMAIN sorted : at(sorted[j]) \in Seq(MessageType)
    BY <1>2, <1>3
  <2>. QED  BY <1>3, <2>1
<1>7. seqs[i] = at(t) /\ Len(seqs) # 0 /\ 1 \in 1 .. Len(seqs[i]) /\ i \in 1 .. Len(seqs)
  <2>1. seqs[i] = at(t)
    BY <1>3, <1>4
  <2>2. Len(at(t)) = Len(fields) /\ Len(fields) \in Nat \ {0}
    BY <1>1, <1>2, <1>5
  <2>3. i \in 1 .. Len(seqs) /\ Len(seqs) # 0
    BY <1>3, <1>6
  <2>. QED  BY <2>1, <2>2, <2>3
<1>. HIDE DEF seqs
<1>8. FlattenSeq(seqs) \in Seq(MessageType)
  BY <1>6, FlattenTyped
<1>9. PICK g : Lays(g, seqs)
  BY <1>6, <1>7, FlattenLays
<1>10. <<i, 1>> \in Places(seqs)
  BY <1>6, <1>7, PlaceIs
<1>11. /\ g[<<i, 1>>] \in 1 .. Len(FlattenSeq(seqs))
       /\ FlattenSeq(seqs)[g[<<i, 1>>]] = at(t)[1]
  BY <1>7, <1>9, <1>10 DEF Lays
<1>12. mask \in Seq(MessageType)
  <2>1. Message("mask", NoTime, 1) \in MessageType
    BY DEF Message, MessageType, Fields
  <2>. QED  BY <2>1
<1>. HIDE DEF mask
<1>13. Stream(source, times) = FlattenSeq(seqs) \o mask
  BY Zenon DEF Stream, seqs, at, sorted, fields, mask
<1>. DEFINE n == g[<<i, 1>>]
<1>. HIDE DEF n
<1>14. n \in 1 .. Len(FlattenSeq(seqs) \o mask) /\ (FlattenSeq(seqs) \o mask)[n] = at(t)[1]
  BY <1>8, <1>11, <1>12, Joined DEF n
<1>15. n \in DOMAIN Stream(source, times) /\ Stream(source, times)[n] = Message(FieldOf[Name], t, 1)
  BY <1>5, <1>8, <1>12, <1>13, <1>14
<1>. QED  BY <1>15 DEF Message

(* A wider measure finds no gap either.                                    *)
LEMMA DenseWider ==
  ASSUME NEW T \in SUBSET Int, NEW v \in Int, NEW w \in Int, v <= w, Dense(T, v)
  PROVE  Dense(T, w)
<1>. SUFFICES ASSUME NEW s \in T, NEW t \in T, NEW h \in Int, s <= h, h <= t
              PROVE  \E u \in T : u <= h /\ h < u + w
  BY DEF Dense
<1>1. PICK u \in T : u <= h /\ h < u + v
  BY DEF Dense
<1>2. u \in Int
  OBVIOUS
<1>. QED  BY <1>1, <1>2

(* A set has no gap when the hour after each but the last is soon enough.  *)
LEMMA DenseIf ==
  ASSUME NEW T \in SUBSET Int, IsFiniteSet(T), NEW w \in Nat \ {0},
         \A u, t \in T : u + w <= t => \E v \in T : u < v /\ v <= u + w
  PROVE  Dense(T, w)
<1>. SUFFICES ASSUME NEW s \in T, NEW t \in T, NEW h \in Int, s <= h, h <= t
              PROVE  \E u \in T : u <= h /\ h < u + w
  BY DEF Dense
<1>. DEFINE U == {u \in T : u <= h}
<1>1. U \in SUBSET Int /\ IsFiniteSet(U) /\ U # {}
  BY FS_Subset
<1>2. PICK u \in U : \A v \in U : v <= u
  <2>. HIDE DEF U
  <2>1. \E u \in U : \A v \in U : v <= u
    BY <1>1, FirstAndLast
  <2>. QED  BY <2>1
<1>3. u \in T /\ u \in Int /\ u <= h /\ t \in Int
  BY <1>2
<1>4. ASSUME ~(h < u + w) PROVE FALSE
  <2>1. u + w <= t
    BY <1>3, <1>4
  <2>2. PICK v \in T : u < v /\ v <= u + w
    BY <1>3, <2>1
  <2>3. v \in Int /\ v <= h
    BY <1>3, <1>4, <2>2
  <2>4. v <= u
    BY <1>2, <2>3
  <2>. QED  BY <1>3, <2>2, <2>3, <2>4
<1>. QED  BY <1>3, <1>4

(* Leads that are multiples of a step have no gap, however they are moved. *)
LEMMA LeadsDense ==
  ASSUME NEW c \in Int, NEW hours \in Int, NEW step \in Nat \ {0}
  PROVE  Dense({c + lead : lead \in Leads(hours, step)}, step)
<1>. DEFINE n == hours \div step
            T == {c + lead : lead \in Leads(hours, step)}
<1>1. n \in Int
  OBVIOUS
<1>2. T \in SUBSET Int /\ IsFiniteSet(T)
  BY LeadsFinite, Shifted
<1>3. \A t : t \in T <=> \E k \in 0 .. n : t = c + k * step
  BY DEF Leads
<1>. HIDE DEF n, T
<1>4. ASSUME NEW u \in T, NEW t \in T, u + step <= t
      PROVE  \E v \in T : u < v /\ v <= u + step
  <2>1. PICK k \in 0 .. n : u = c + k * step
    BY <1>3
  <2>2. PICK l \in 0 .. n : t = c + l * step
    BY <1>3
  <2>3. k \in Nat /\ l \in Nat /\ k * step \in Int /\ l * step \in Int
    BY <1>1
  <2>4. ASSUME l <= k PROVE FALSE
    <3>1. l * step <= k * step
      BY <2>3, <2>4
    <3>. QED  BY <1>4, <2>1, <2>2, <2>3, <3>1
  <2>5. k + 1 \in 0 .. n
    BY <1>1, <2>3, <2>4
  <2>6. (k + 1) * step = k * step + step
    BY <2>3
  <2>7. c + (k + 1) * step \in T
    BY <1>3, <2>5
  <2>8. c + (k + 1) * step = u + step /\ u \in Int
    BY <2>1, <2>3, <2>6
  <2>. QED  BY <2>7, <2>8
<1>. QED  BY <1>2, <1>4, DenseIf DEF T

(* Division with a remainder.                                              *)
LEMMA DivMod ==
  ASSUME NEW a \in Int, NEW b \in Nat \ {0}
  PROVE  a \div b \in Int /\ a = b * (a \div b) + (a % b)
OBVIOUS

(* A multiple of b and b make a multiple of b.                             *)
LEMMA ModStep ==
  ASSUME NEW a \in Int, NEW b \in Nat \ {0}
  PROVE  a % b \in 0 .. b - 1 /\ (a % b = 0 => (a + b) % b = 0)
<1>1. a % b \in 0 .. b - 1
  OBVIOUS
<1>2. ASSUME a % b = 0 PROVE (a + b) % b = 0
  <2>. DEFINE q == a \div b
              p == (a + b) \div b
              r == (a + b) % b
  <2>1. q \in Int /\ a = b * q
    BY <1>2, DivMod
  <2>2. a + b \in Int
    OBVIOUS
  <2>3. p \in Int /\ a + b = b * p + r /\ r \in 0 .. b - 1
    BY <2>2, DivMod
  <2>. HIDE DEF p, q, r
  <2>4. b * (p - q - 1) = -r
    BY <2>1, <2>3
  <2>. DEFINE d == p - q - 1
  <2>5. d \in Int
    BY <2>1, <2>3
  <2>6. b * d = -r
    BY <2>4
  <2>. HIDE DEF d
  <2>7. ~(d >= 1)
    <3>1. d >= 1 => b * d >= b
      BY <2>5
    <3>. QED  BY <2>3, <2>6, <3>1
  <2>8. ~(d <= -1)
    <3>1. d <= -1 => b * d <= -b
      BY <2>5
    <3>. QED  BY <2>3, <2>6, <3>1
  <2>9. d = 0
    BY <2>5, <2>7, <2>8
  <2>10. r = 0
    BY <2>3, <2>6, <2>9
  <2>. QED  BY <2>10 DEF r
<1>. QED  BY <1>1, <1>2

(* The hours of RTOFS have no gap: those of its series come one by one,    *)
(* and the last multiple of the step is within a step of the end.          *)
LEMMA RtofsDense ==
  ASSUME NEW c \in Int, NEW hours \in Int, NEW step \in Nat \ {0}
  PROVE  Dense({c + lead : lead \in RtofsHours(hours, step)}, Max({RtofsStep, step}))
<1>. DEFINE by == Max({RtofsStep, step})
            rounded == hours - (hours % by)
            A == {h \in RtofsStep .. hours : (h - RtofsStep) % by = 0}
            B == IF rounded >= RtofsStep THEN {rounded} ELSE {}
            T == {c + lead : lead \in RtofsHours(hours, step)}
<1>1. RtofsStep \in Nat \ {0}
  BY SourcesAssumption
<1>2. by \in Nat \ {0}
  <2>1. RtofsStep \in Int /\ step \in Int
    BY <1>1
  <2>2. by \in {RtofsStep, step}
    BY <2>1, OfTwo, Zenon
  <2>. QED  BY <1>1, <2>2
<1>. HIDE DEF by
<1>3. hours % by \in 0 .. by - 1
  BY <1>2, ModStep
<1>4. rounded \in Int /\ rounded <= hours /\ hours < rounded + by
  BY <1>2, <1>3
<1>5. IsFiniteSet(A) /\ A \in SUBSET Int
  <2>1. RtofsStep \in Int /\ hours \in Int
    BY <1>1
  <2>2. IsFiniteSet(RtofsStep .. hours)
    BY <2>1, FS_Interval
  <2>3. A \in SUBSET (RtofsStep .. hours) /\ RtofsStep .. hours \subseteq Int
    BY <2>1
  <2>. HIDE DEF A
  <2>. QED  BY <2>2, <2>3, FS_Subset
<1>6. IsFiniteSet(B) /\ B \in SUBSET Int
  <2>. HIDE DEF rounded
  <2>. QED  BY <1>4, FS_Singleton, FS_EmptySet
<1>7. RtofsHours(hours, step) = A \cup B
  BY DEF RtofsHours, by
<1>8. ASSUME NEW a \in A \cup B, NEW b \in A \cup B, a + by <= b
      PROVE  a + by \in A
  <2>1. b \in Int /\ b <= hours /\ a \in Int
    <3>1. \A h \in A : h \in Int /\ h <= hours
      BY <1>1
    <3>2. \A h \in B : h = rounded
      OBVIOUS
    <3>. HIDE DEF A, B, rounded
    <3>. QED  BY <1>4, <3>1, <3>2
  <2>2. a \in A
    <3>1. a = rounded \/ a \in A
      OBVIOUS
    <3>. HIDE DEF A, B, rounded
    <3>. QED  BY <1>2, <1>4, <1>8, <2>1, <3>1
  <2>3. a - RtofsStep \in Int /\ (a - RtofsStep) % by = 0 /\ RtofsStep <= a
    BY <1>1, <2>1, <2>2
  <2>4. (a - RtofsStep + by) % by = 0
    BY <1>2, <2>3, ModStep
  <2>5. ((a + by) - RtofsStep) % by = 0
    <3>1. a - RtofsStep + by = (a + by) - RtofsStep
      BY <1>1, <1>2, <2>1
    <3>. QED  BY <2>4, <3>1
  <2>6. a + by \in RtofsStep .. hours
    BY <1>1, <1>2, <1>8, <2>1, <2>3
  <2>. DEFINE v == a + by
  <2>7. v \in RtofsStep .. hours /\ (v - RtofsStep) % by = 0
    BY <2>5, <2>6
  <2>. HIDE DEF v
  <2>8. v \in A
    BY <2>7
  <2>. QED  BY <2>8 DEF v
<1>. HIDE DEF A, B
<1>9. T \in SUBSET Int /\ IsFiniteSet(T)
  <2>1. IsFiniteSet(A \cup B) /\ A \cup B \in SUBSET Int
    BY <1>5, <1>6, FS_Union
  <2>. QED  BY <1>7, <2>1, Shifted
<1>10. ASSUME NEW u \in T, NEW t \in T, u + by <= t
       PROVE  \E v \in T : u < v /\ v <= u + by
  <2>1. PICK a \in A \cup B : u = c + a
    BY <1>7
  <2>2. PICK b \in A \cup B : t = c + b
    BY <1>7
  <2>3. a \in Int /\ b \in Int
    BY <1>5, <1>6
  <2>4. a + by <= b
    BY <1>2, <1>10, <2>1, <2>2, <2>3
  <2>5. a + by \in A \cup B
    BY <1>8, <2>4
  <2>6. c + (a + by) \in T
    BY <1>7, <2>5
  <2>7. c + (a + by) = u + by /\ u < u + by /\ u + by <= u + by
    BY <1>2, <2>1, <2>3
  <2>. QED  BY <2>6, <2>7
<1>11. Dense(T, by)
  <2>. HIDE DEF T
  <2>. QED  BY <1>2, <1>9, <1>10, DenseIf
<1>. QED  BY <1>11 DEF T, by

(* The hours of UKV: one by one while they are hourly, then step by step.  *)
LEMMA UkvDense ==
  ASSUME NEW c \in Int, NEW hours \in Int, NEW w \in Nat \ {0},
         hours <= UkvHourly \/ UkvStep <= w
  PROVE  Dense({c + lead : lead \in UkvHours(hours, 1)}, w)
<1>. DEFINE A == UkvHours(hours, 1)
            T == {c + lead : lead \in A}
<1>1. UkvHourly \in Nat /\ UkvStep \in Nat \ {0}
  BY SourcesAssumption
<1>2. \A lead : lead \in A <=> /\ lead \in 0 .. hours
                               /\ lead <= UkvHourly \/ (lead - UkvHourly) % UkvStep = 0
  BY DEF UkvHours
<1>3. A \in SUBSET Int /\ IsFiniteSet(A)
  <2>1. A \subseteq 0 .. hours
    BY <1>2
  <2>. QED  BY <2>1, PartFinite
<1>. HIDE DEF A
<1>4. ASSUME NEW a \in A, NEW b \in A, a + w <= b
      PROVE  \E v \in A : a < v /\ v <= a + w
  <2>1. /\ a \in Int /\ b \in Int /\ 0 <= a /\ b <= hours
        /\ a <= UkvHourly \/ (a - UkvHourly) % UkvStep = 0
    BY <1>2
  <2>2. CASE a < UkvHourly
    <3>1. a + 1 \in 0 .. hours /\ a + 1 <= UkvHourly
      BY <1>1, <1>4, <2>1, <2>2
    <3>2. a + 1 \in A
      BY <1>2, <3>1
    <3>. QED  BY <2>1, <3>2
  <2>3. CASE ~(a < UkvHourly)
    <3>1. UkvStep <= w
      BY <1>1, <1>4, <2>1, <2>3
    <3>2. a - UkvHourly \in Int /\ (a - UkvHourly) % UkvStep = 0
      <4>1. a - UkvHourly = 0 => (a - UkvHourly) % UkvStep = 0
        <5>1. 0 % UkvStep = 0
          BY <1>1
        <5>. QED  BY <5>1
      <4>. QED  BY <1>1, <2>1, <2>3, <4>1
    <3>3. (a - UkvHourly + UkvStep) % UkvStep = 0
      BY <1>1, <3>2, ModStep
    <3>4. a - UkvHourly + UkvStep = (a + UkvStep) - UkvHourly
      BY <1>1, <2>1
    <3>5. a + UkvStep \in 0 .. hours
      BY <1>1, <1>4, <2>1, <3>1
    <3>6. ((a + UkvStep) - UkvHourly) % UkvStep = 0
      BY <3>3, <3>4
    <3>7. a + UkvStep \in A
      <4>. DEFINE v == a + UkvStep
      <4>1. v \in 0 .. hours /\ (v - UkvHourly) % UkvStep = 0
        BY <3>5, <3>6
      <4>. HIDE DEF v
      <4>2. v \in A
        BY <1>2, <4>1
      <4>. QED  BY <4>2 DEF v
    <3>. QED  BY <1>1, <2>1, <3>1, <3>7
  <2>. QED  BY <2>2, <2>3
<1>5. T \in SUBSET Int /\ IsFiniteSet(T)
  BY <1>3, Shifted
<1>6. ASSUME NEW u \in T, NEW t \in T, u + w <= t
      PROVE  \E v \in T : u < v /\ v <= u + w
  <2>1. PICK a \in A : u = c + a
    OBVIOUS
  <2>2. PICK b \in A : t = c + b
    OBVIOUS
  <2>3. a \in Int /\ b \in Int
    BY <1>3
  <2>4. a + w <= b
    BY <1>6, <2>1, <2>2, <2>3
  <2>5. PICK v \in A : a < v /\ v <= a + w
    BY <1>4, <2>4
  <2>6. v \in Int /\ c + v \in T
    BY <1>3
  <2>7. u < c + v /\ c + v <= u + w
    BY <2>1, <2>3, <2>5, <2>6
  <2>. QED  BY <2>6, <2>7
<1>7. Dense(T, w)
  <2>. HIDE DEF T
  <2>. QED  BY <1>5, <1>6, DenseIf
<1>. QED  BY <1>7 DEF A

(* No model cycle has a gap wider than that of its source.                 *)
LEMMA CycleDense ==
  ASSUME NEW source, NEW hours \in Int, NEW step \in Nat \ {0}, NEW limit \in Int,
         step = 1 => hours <= limit, NEW c \in Int
  PROVE  Dense({c + lead : lead \in CycleHours(source, hours, step)}, Gap(source, step, limit))
<1>1. CASE source = "noaa_rtofs_global"
  <2>1. /\ CycleHours(source, hours, step) = RtofsHours(hours, step)
        /\ Gap(source, step, limit) = Max({RtofsStep, step})
    BY <1>1 DEF CycleHours, Gap
  <2>2. Dense({c + lead : lead \in RtofsHours(hours, step)}, Max({RtofsStep, step}))
    BY RtofsDense
  <2>. QED  BY <2>1, <2>2
<1>2. CASE source = "ukmo_ukv"
  <2>1. CycleHours(source, hours, step) = UkvHours(hours, step)
    BY <1>2 DEF CycleHours
  <2>2. UkvStep \in Nat \ {0} /\ UkvHourly \in Nat
    BY SourcesAssumption
  <2>3. /\ Max({UkvStep, step}) \in {UkvStep, step}
        /\ UkvStep <= Max({UkvStep, step}) /\ step <= Max({UkvStep, step})
    <3>1. UkvStep \in Int /\ step \in Int
      BY <2>2
    <3>. QED  BY <3>1, OfTwo, Zenon
  <2>4. Gap(source, step, limit) = IF limit > UkvHourly THEN Max({UkvStep, step}) ELSE step
    BY <1>2 DEF Gap
  <2>. DEFINE w == Gap(source, step, limit)
  <2>5. w \in Nat \ {0} /\ step <= w /\ (limit > UkvHourly => UkvStep <= w)
    BY <2>2, <2>3, <2>4
  <2>. HIDE DEF w
  <2>6. CASE step = 1
    <3>1. hours <= UkvHourly \/ UkvStep <= w
      BY <2>2, <2>5, <2>6
    <3>2. Dense({c + lead : lead \in UkvHours(hours, 1)}, w)
      BY <2>5, <3>1, UkvDense
    <3>. QED  BY <2>1, <2>6, <3>2 DEF w
  <2>7. CASE step # 1
    <3>1. UkvHours(hours, step) = Leads(hours, step)
      BY <2>7 DEF UkvHours
    <3>. DEFINE T == {c + lead : lead \in Leads(hours, step)}
    <3>2. Dense(T, step)
      BY LeadsDense
    <3>3. T \in SUBSET Int
      BY LeadsFinite, Shifted
    <3>. HIDE DEF T
    <3>4. step \in Int /\ w \in Int
      BY <2>5
    <3>5. Dense(T, w)
      BY <2>5, <3>2, <3>3, <3>4, DenseWider
    <3>. QED  BY <2>1, <3>1, <3>5 DEF T, w
  <2>. QED  BY <2>6, <2>7
<1>3. CASE source \notin {"noaa_rtofs_global", "ukmo_ukv"}
  <2>1. CycleHours(source, hours, step) = Leads(hours, step) /\ Gap(source, step, limit) = step
    BY <1>3 DEF CycleHours, Gap
  <2>2. Dense({c + lead : lead \in Leads(hours, step)}, step)
    BY LeadsDense
  <2>. QED  BY <2>1, <2>2
<1>. QED  BY <1>1, <1>2, <1>3

(* No source leaves a wider gap than its own, but for files as given.      *)
LEMMA DeliveriesDense ==
  ASSUME NEW child \in ChildType, NEW times \in Deliveries(child),
         child.source \notin AsGiven, NEW limit \in Int,
         child.step = 1 => child.hours <= limit
  PROVE  Dense(times, Gap(child.source, child.step, limit))
<1>. DEFINE leads == Leads(child.hours, child.step)
<1>0. child.from \in Int /\ child.hours \in Int /\ child.step \in Nat \ {0}
  BY DEF ChildType
<1>1. child.source # "existing-file" /\ child.source # "marine_ie_irish_sea"
  BY DEF AsGiven
<1>2. CASE child.source \in OnCycle
  <2>1. PICK c \in Cycles :
          times = {c + lead : lead \in CycleHours(child.source, child.hours, child.step)}
    BY <1>1, <1>2 DEF Deliveries
  <2>2. c \in Int
    BY SourcesAssumption
  <2>. QED  BY <1>0, <2>1, <2>2, CycleDense
<1>3. CASE child.source \notin OnCycle
  <2>. DEFINE all == {child.from + lead : lead \in leads}
  <2>1. Dense(all, child.step)
    BY <1>0, LeadsDense
  <2>2. times \in IF child.partial THEN {{t \in all : t <= last} : last \in all} ELSE {all}
    BY <1>1, <1>3 DEF Deliveries
  <2>3. all \in SUBSET Int
    <3>1. leads \in SUBSET Int /\ IsFiniteSet(leads)
      BY <1>0, LeadsFinite DEF leads
    <3>. HIDE DEF leads
    <3>. QED  BY <1>0, <3>1, Shifted
  <2>. HIDE DEF all
  <2>4. ASSUME NEW last \in all
        PROVE  Dense({t \in all : t <= last}, child.step)
    <3>. SUFFICES ASSUME NEW s \in all, NEW t \in all, NEW h \in Int, s <= h, h <= t,
                         s <= last, t <= last
                  PROVE  \E u \in all : u <= last /\ u <= h /\ h < u + child.step
      BY DEF Dense
    <3>1. PICK u \in all : u <= h /\ h < u + child.step
      BY <2>1 DEF Dense
    <3>2. u \in Int /\ t \in Int /\ last \in Int
      BY <2>3
    <3>. QED  BY <3>1, <3>2
  <2>5. Dense(times, child.step)
    <3>1. CASE child.partial
      BY <2>2, <2>4, <3>1
    <3>2. CASE ~child.partial
      BY <2>1, <2>2, <3>2
    <3>. QED  BY <3>1, <3>2
  <2>6. child.source # "noaa_rtofs_global" /\ child.source # "ukmo_ukv"
    BY <1>3 DEF OnCycle
  <2>7. Gap(child.source, child.step, limit) = child.step
    BY <2>6 DEF Gap
  <2>. QED  BY <2>5, <2>7
<1>. QED  BY <1>2, <1>3

(* A complete child's width is at most the widest of its component.        *)
LEMMA WidestBound ==
  ASSUME request \in Requests, NEW name \in Names, NEW role \in Roles,
         \A c \in coverage : c.role \in Roles, NEW entry \in Used(name), entry.role = role,
         entry.source = request[name][role]
  PROVE  Width(name, role) \in Int /\ Widest(name) \in Int /\ Width(name, role) <= Widest(name)
<1>. DEFINE step(r) == StepOf(name, r)
            W == {Spacing(name, c) : c \in Used(name)}
            V == (({step("preferred")} \cup {step("fallback")}) \cup {RtofsStep}) \cup {UkvStep}
<1>1. /\ \A r \in Roles : step(r) \in Nat \ {0}
      /\ RtofsStep \in Nat \ {0} /\ UkvStep \in Nat \ {0}
      /\ "preferred" \in Roles /\ "fallback" \in Roles
  BY StepIs, SourcesAssumption DEF Roles
<1>2. \A c \in Used(name) : c.role \in Roles
  BY DEF Used
<1>3. \A c : Spacing(name, c) = Gap(c.source, step(c.role), Hours + Allowance)
  BY DEF Spacing, Gap
<1>. HIDE DEF step
<1>4. IsFiniteSet(V) /\ V \in SUBSET Int
  <2>1. IsFiniteSet({step("preferred")})
    BY FS_Singleton
  <2>2. IsFiniteSet({step("preferred")} \cup {step("fallback")})
    BY <2>1, FS_AddElement
  <2>3. IsFiniteSet(({step("preferred")} \cup {step("fallback")}) \cup {RtofsStep})
    BY <2>2, FS_AddElement
  <2>4. IsFiniteSet(V)
    BY <2>3, FS_AddElement
  <2>. QED  BY <1>1, <2>4
<1>5. \A r \in Roles : \A source : Gap(source, step(r), Hours + Allowance) \in V
  <2>. TAKE r \in Roles
  <2>. TAKE source
  <2>1. step(r) \in V /\ RtofsStep \in V /\ UkvStep \in V
    BY DEF Roles
  <2>2. step(r) \in Int /\ RtofsStep \in Int /\ UkvStep \in Int
    BY <1>1
  <2>3. /\ Max({RtofsStep, step(r)}) \in {RtofsStep, step(r)}
        /\ Max({UkvStep, step(r)}) \in {UkvStep, step(r)}
    BY <2>2, OfTwo, Zenon
  <2>4. \/ Gap(source, step(r), Hours + Allowance) = Max({RtofsStep, step(r)})
        \/ Gap(source, step(r), Hours + Allowance) = Max({UkvStep, step(r)})
        \/ Gap(source, step(r), Hours + Allowance) = step(r)
    <3>1. CASE source = "noaa_rtofs_global"
      BY <3>1 DEF Gap
    <3>2. CASE source = "ukmo_ukv" /\ Hours + Allowance > UkvHourly
      BY <3>2 DEF Gap
    <3>3. CASE source # "noaa_rtofs_global" /\ ~(source = "ukmo_ukv" /\ Hours + Allowance > UkvHourly)
      BY <3>3 DEF Gap
    <3>. QED  BY <3>1, <3>2, <3>3
  <2>. HIDE DEF V
  <2>. QED  BY <2>1, <2>3, <2>4
<1>. HIDE DEF V
<1>6. W \subseteq V
  BY <1>2, <1>3, <1>5
<1>7. Width(name, role) \in W
  <2>1. Spacing(name, entry) = Width(name, role)
    BY <1>3 DEF Width, step
  <2>. QED  BY <2>1
<1>8. Widest(name) = Max(W)
  BY DEF Widest
<1>. HIDE DEF W
<1>9. W \in SUBSET Int /\ IsFiniteSet(W) /\ W # {}
  BY <1>4, <1>6, <1>7, FS_Subset
<1>10. Max(W) \in W /\ \A k \in W : k <= Max(W)
  BY <1>9, MinMax
<1>. QED  BY <1>7, <1>8, <1>9, <1>10

(* Between two hours of a complete child there is no gap.                  *)
LEMMA ChildCovers ==
  ASSUME request \in Requests, Name \in Names, runs \in [Roles -> RunType],
         \A c \in coverage : c.role \in Roles,
         \A c \in Used(Name) : c.source \notin AsGiven, NEW role \in Roles,
         Delivered(role), runs[role].complete,
         NEW s \in runs[role].times, NEW t \in runs[role].times, NEW h \in Int, s <= h, h <= t
  PROVE  \E u \in Int : u <= h /\ h < u + Widest(Name) /\ HasTime(Name, u)
<1>. DEFINE entry == Covered(role, request[Name][role], "complete")
            T == runs[role].times
<1>1. /\ entry \in Used(Name) /\ entry.role = role /\ entry.source = request[Name][role]
      /\ entry.source \notin AsGiven
  <2>1. /\ entry.component = Name /\ entry.status = "complete" /\ entry.role = role
        /\ entry.source = request[Name][role]
    BY DEF Covered
  <2>2. entry \in coverage
    BY DEF Delivered
  <2>3. entry \in Used(Name)
    BY <2>1, <2>2 DEF Used
  <2>. QED  BY <2>1, <2>3
<1>2. T \in SUBSET Int
  BY DEF RunType
<1>3. Dense(T, Width(Name, role)) /\ \A u \in T : HasTime(Name, u)
  BY <1>1 DEF Delivered
<1>. HIDE DEF entry
<1>4. /\ Width(Name, role) \in Int /\ Widest(Name) \in Int
      /\ Width(Name, role) <= Widest(Name)
  BY <1>1, WidestBound
<1>5. Dense(T, Widest(Name))
  BY <1>2, <1>3, <1>4, DenseWider
<1>6. \E u \in T : u <= h /\ h < u + Widest(Name)
  BY <1>5 DEF Dense
<1>. QED  BY <1>2, <1>3, <1>6

(* What is accepted covers the window: the preferred source, its fallback, *)
(* or, for the currents, the two together.                                 *)
LEMMA AcceptedCovers ==
  ASSUME request \in Requests, Name \in Names, runs \in [Roles -> RunType],
         \A c \in coverage : c.role \in Roles, \A role \in Roles : Delivered(role),
         Covers(runs.preferred) \/ FallbackAccepted
  PROVE  WholeWindow(Name)
<1>. SUFFICES ASSUME \A c \in Used(Name) : c.source \notin AsGiven, NEW h \in 0 .. Hours
              PROVE  \E u \in Int : u <= h /\ h < u + Widest(Name) /\ HasTime(Name, u)
  BY DEF WholeWindow
<1>1. h \in Int /\ Hours \in Int /\ 0 <= h /\ h <= Hours
  BY RequestIs DEF Hours
<1>2. \A role \in Roles : Timed(runs[role]) =>
        /\ runs[role].complete /\ FirstValid(runs[role]) \in runs[role].times
        /\ LastValid(runs[role]) \in runs[role].times
        /\ FirstValid(runs[role]) \in Int /\ LastValid(runs[role]) \in Int
  <2>. TAKE role \in Roles
  <2>1. runs[role].times \in SUBSET Int /\ IsFiniteSet(runs[role].times)
    BY DEF RunType
  <2>2. ASSUME runs[role].times # {}
        PROVE  /\ Min(runs[role].times) \in runs[role].times
               /\ Max(runs[role].times) \in runs[role].times
    BY <2>1, <2>2, MinMax
  <2>. QED  BY <2>1, <2>2 DEF Timed, FirstValid, LastValid
<1>3. ASSUME NEW role \in Roles, Timed(runs[role]), FirstValid(runs[role]) <= h,
             h <= LastValid(runs[role])
      PROVE  \E u \in Int : u <= h /\ h < u + Widest(Name) /\ HasTime(Name, u)
  <2>1. Delivered(role) /\ runs[role].complete
    BY <1>2, <1>3
  <2>2. FirstValid(runs[role]) \in runs[role].times /\ LastValid(runs[role]) \in runs[role].times
    BY <1>2, <1>3
  <2>. QED  BY <1>1, <1>3, <2>1, <2>2, ChildCovers
<1>4. "preferred" \in Roles /\ "fallback" \in Roles
  BY DEF Roles
<1>5. ASSUME NEW role \in Roles, Covers(runs[role])
      PROVE  \E u \in Int : u <= h /\ h < u + Widest(Name) /\ HasTime(Name, u)
  <2>1. /\ Timed(runs[role]) /\ FirstValid(runs[role]) <= 0 /\ LastValid(runs[role]) >= Hours
    BY <1>5 DEF Covers
  <2>2. FirstValid(runs[role]) <= h /\ h <= LastValid(runs[role])
    BY <1>1, <1>2, <2>1
  <2>. QED  BY <1>3, <2>1, <2>2
<1>6. CASE FallbackAccepted /\ Name = "current"
  <2>. DEFINE first == FirstValid(runs.preferred)
              last == LastValid(runs.preferred)
              from == FirstValid(runs.fallback)
              mustBegin == IF Timed(runs.preferred) /\ first <= 0 THEN last ELSE 0
  <2>1. Timed(runs.fallback) /\ LastValid(runs.fallback) >= Hours /\ from <= mustBegin
    BY <1>6 DEF FallbackAccepted
  <2>2. from \in Int /\ LastValid(runs.fallback) \in Int
    BY <1>2, <1>4, <2>1
  <2>3. Timed(runs.preferred) => first \in Int /\ last \in Int
    BY <1>2, <1>4
  <2>4. CASE from <= h
    <3>1. h <= LastValid(runs.fallback)
      BY <1>1, <2>1, <2>2
    <3>. QED  BY <1>3, <1>4, <2>1, <2>4, <3>1
  <2>5. CASE ~(from <= h)
    <3>1. Timed(runs.preferred) /\ first <= 0 /\ from <= last
      <4>1. ~(from <= 0)
        BY <1>1, <2>2, <2>5
      <4>. QED  BY <2>1, <4>1
    <3>2. first <= h /\ h <= last
      BY <1>1, <2>2, <2>3, <2>5, <3>1
    <3>. QED  BY <1>3, <1>4, <3>1, <3>2
  <2>. QED  BY <2>4, <2>5
<1>7. CASE FallbackAccepted /\ Name # "current"
  BY <1>4, <1>5, <1>7 DEF FallbackAccepted
<1>. QED  BY <1>4, <1>5, <1>6, <1>7

(* What the inputs have stays there when another input is appended.        *)
Grows == UNCHANGED inputs \/ \E x : inputs' = Append(inputs, x)

LEMMA HasTimeStays ==
  ASSUME inputs \in Seq(InputType), Grows, NEW name, NEW t, HasTime(name, t)
  PROVE  HasTime(name, t)'
<1>1. PICK i, n : /\ i \in DOMAIN inputs /\ n \in DOMAIN inputs[i].file.parts
                  /\ inputs[i].file.parts[n].param = FieldOf[name]
                  /\ inputs[i].file.parts[n].time = t
  BY DEF HasTime
<1>2. i \in DOMAIN inputs' /\ inputs'[i] = inputs[i]
  <2>1. CASE UNCHANGED inputs
    BY <1>1, <2>1
  <2>2. ASSUME NEW x, inputs' = Append(inputs, x)
        PROVE  i \in DOMAIN inputs' /\ inputs'[i] = inputs[i]
    BY <1>1, <2>2
  <2>. QED  BY <2>1, <2>2 DEF Grows
<1>. QED  BY <1>1, <1>2 DEF HasTime

(* A window that is covered stays so while other components are dealt with.*)
LEMMA WholeStays ==
  ASSUME inputs \in Seq(InputType), Grows, UNCHANGED request, NEW name,
         Used(name)' = Used(name), WholeWindow(name)
  PROVE  WholeWindow(name)'
<1>1. \A c : Spacing(name, c)' = Spacing(name, c)
  BY DEF Spacing, StepOf, Hours
<1>2. Widest(name)' = Widest(name)
  BY <1>1 DEF Widest
<1>3. \A t : HasTime(name, t) => HasTime(name, t)'
  BY HasTimeStays
<1>4. Hours' = Hours
  BY DEF Hours
<1>. QED  BY <1>2, <1>3, <1>4 DEF WholeWindow

(* What was delivered stays so.                                            *)
LEMMA DeliveredStays ==
  ASSUME inputs \in Seq(InputType), Grows, UNCHANGED <<request, component>>,
         coverage \subseteq coverage', NEW role, runs'[role] = runs[role], Delivered(role)
  PROVE  Delivered(role)'
<1>1. Name' = Name /\ StepOf(Name, role)' = StepOf(Name, role)
  BY DEF Name, StepOf
<1>2. Width(Name, role)' = Width(Name, role)
  BY <1>1 DEF Width, Hours
<1>3. \A t : HasTime(Name, t) => HasTime(Name, t)'
  <2>1. PICK name : name = Name
    OBVIOUS
  <2>2. \A t : HasTime(name, t) => HasTime(name, t)'
    BY HasTimeStays
  <2>. QED  BY <1>1, <2>1, <2>2 DEF HasTime
<1>4. Covered(role, request[Name][role], "complete")'
        = Covered(role, request[Name][role], "complete")
  BY <1>1 DEF Covered
<1>5. CASE runs[role].complete
  <2>1. /\ Covered(role, request[Name][role], "complete") \in coverage'
        /\ \A t \in runs[role].times : HasTime(Name, t)
        /\ request[Name][role] \notin AsGiven => Dense(runs[role].times, Width(Name, role))
    BY <1>5 DEF Delivered
  <2>2. \A t \in runs'[role].times : HasTime(Name, t)'
    BY <1>3, <2>1
  <2>3. request'[Name'][role] \notin AsGiven => Dense(runs'[role].times, Width(Name, role)')
    BY <1>1, <1>2, <2>1
  <2>. QED  BY <1>4, <2>1, <2>2, <2>3 DEF Delivered, Dense
<1>6. CASE ~runs[role].complete
  BY <1>6 DEF Delivered
<1>. QED  BY <1>5, <1>6

(* Running a child: the hours it delivers come to the inputs.              *)
LEMMA RunDelivers ==
  ASSUME ExtensionInv, CoverageInv, component \in 1 .. 3, NEW role \in Roles, pc = role,
         NEW child \in ChildType, child.source = request[Name][role],
         child.step = Step(role), child.step = 1 => child.hours <= Hours + Allowance,
         Run(role, child),
         pc' = IF result' = "error" THEN "done"
               ELSE IF role = "preferred" THEN "judge" ELSE "accept"
  PROVE  CoverageInv'
<1>1. /\ command.how = "composite" /\ result = "none" /\ pc \notin {"inspect", "done"}
  <2>1. pc \in Extending /\ pc # "done" /\ pc # "inspect"
    BY DEF Extending, Roles
  <2>. QED  BY <2>1 DEF ExtensionInv, PhaseInv
<1>2. /\ UNCHANGED <<command, out, request, component>> /\ ~out.ours
      /\ inputs \in Seq(InputType) /\ runs \in [Roles -> RunType] /\ Name \in Names
  <2>1. ~out.ours
    BY <1>1 DEF ExtensionInv, OutInv
  <2>. QED  BY <2>1, NameIs DEF Run, ExtensionInv, CallTypes, ExtensionTypes
<1>3. pc' \notin Writing
  BY DEF Writing
<1>4. CASE request.dry_run
  <2>. QED  BY <1>2, <1>3, <1>4 DEF CoverageInv
<1>5. CASE ~request.dry_run
  <2>1. /\ \A c \in coverage : c.role \in Roles
        /\ \A r \in Roles : Delivered(r)
        /\ \A c \in 1 .. component - 1 : WholeWindow(Components[c])
    BY <1>1, <1>5 DEF CoverageInv
  <2>2. PICK entry : /\ coverage' = coverage \cup {entry}
                     /\ entry.component = Name /\ entry.role = role
    <3>1. \E status : coverage' = coverage \cup {Covered(role, child.source, status)}
      BY <1>5 DEF Run
    <3>2. \A status : /\ Covered(role, child.source, status).component = Name
                      /\ Covered(role, child.source, status).role = role
      BY DEF Covered
    <3>. QED  BY <3>1, <3>2
  <2>3. Grows
    BY <1>5 DEF Run, Grows
  <2>4. \A c \in coverage' : c.role \in Roles
    BY <2>1, <2>2
  <2>5. ASSUME NEW c \in 1 .. component - 1
        PROVE  WholeWindow(Components[c])'
    <3>1. Components[c] # Name
      BY DEF Name, Components
    <3>2. PICK name : name = Components[c]
      OBVIOUS
    <3>3. Used(name)' = Used(name)
      BY <2>2, <3>1, <3>2 DEF Used
    <3>4. WholeWindow(name)'
      BY <1>2, <2>1, <2>3, <3>2, <3>3, WholeStays
    <3>. QED  BY <3>2, <3>4
  <2>6. ASSUME NEW r \in Roles, runs'[r] = runs[r]
        PROVE  Delivered(r)'
    BY <1>2, <2>1, <2>2, <2>3, <2>6, DeliveredStays
  <2>7. ASSUME NEW times \in Deliveries(child),
               runs' = [runs EXCEPT ![role] = [complete |-> TRUE, times |-> times]],
               inputs' = Append(inputs,
                  [label |-> <<Name, role>>, region |-> "requested",
                   file |-> File(Stream(child.source, times), FALSE)]),
               coverage' = coverage \union {Covered(role, child.source, "complete")}
        PROVE  Delivered(role)'
    <3>1. runs'[role].complete /\ runs'[role].times = times
      BY <1>2, <2>7
    <3>2. times \in SUBSET Int /\ IsFiniteSet(times)
      BY DeliveriesTyped
    <3>3. Covered(role, request[Name][role], "complete")' \in coverage'
      BY <1>2, <2>7 DEF Covered, Name
    <3>4. ASSUME NEW t \in times
          PROVE  HasTime(Name, t)'
      <4>. DEFINE x == [label |-> <<Name, role>>, region |-> "requested",
                        file |-> File(Stream(child.source, times), FALSE)]
                  i == Len(inputs) + 1
      <4>1. x.file.parts = Stream(child.source, times)
        BY DEF File
      <4>2. PICK n \in DOMAIN Stream(child.source, times) :
               /\ Stream(child.source, times)[n].param = FieldOf[Name]
               /\ Stream(child.source, times)[n].time = t
        <5>1. times \in SUBSET Int /\ IsFiniteSet(times) /\ t \in times /\ Name \in Names
          BY <1>2, <3>2
        <5>. QED  BY <5>1, StreamHas
      <4>3. n \in DOMAIN x.file.parts /\ x.file.parts[n].param = FieldOf[Name]
            /\ x.file.parts[n].time = t
        BY <4>1, <4>2
      <4>4. inputs' = Append(inputs, x)
        BY <2>7
      <4>. HIDE DEF x
      <4>5. i \in DOMAIN inputs' /\ inputs'[i] = x
        BY <1>2, <4>4
      <4>6. Name' = Name
        BY <1>2 DEF Name
      <4>. QED  BY <4>3, <4>5, <4>6 DEF HasTime
    <3>5. Name' = Name /\ Width(Name, role)' = Width(Name, role)
      BY <1>2 DEF Name, Width, StepOf, Hours
    <3>6. request[Name][role] \notin AsGiven => Dense(times, Width(Name, role))
      <4>1. Width(Name, role) = Gap(child.source, child.step, Hours + Allowance)
        BY DEF Width, Step
      <4>2. Hours + Allowance \in Int
        <5>1. request \in Requests
          BY DEF ExtensionInv, ExtensionTypes
        <5>. QED  BY <5>1, RequestIs, SourcesAssumption DEF Hours
      <4>. QED  BY <4>1, <4>2, DeliveriesDense
    <3>7. \A t \in runs'[role].times : HasTime(Name, t)'
      BY <3>1, <3>4
    <3>8. request'[Name'][role] \notin AsGiven => Dense(runs'[role].times, Width(Name, role)')
      BY <1>2, <3>1, <3>5, <3>6
    <3>. QED  BY <3>3, <3>7, <3>8 DEF Delivered, Dense
  <2>8. \A r \in Roles : Delivered(r)'
    <3>1. CASE UNCHANGED runs
      BY <2>6, <3>1
    <3>2. ASSUME NEW times \in Deliveries(child),
                 runs' = [runs EXCEPT ![role] = [complete |-> TRUE, times |-> times]],
                 inputs' = Append(inputs,
                    [label |-> <<Name, role>>, region |-> "requested",
                     file |-> File(Stream(child.source, times), FALSE)]),
                 coverage' = coverage \union {Covered(role, child.source, "complete")}
          PROVE  \A r \in Roles : Delivered(r)'
      <4>. TAKE r \in Roles
      <4>1. CASE r = role
        BY <2>7, <3>2, <4>1
      <4>2. CASE r # role
        <5>1. runs'[r] = runs[r]
          BY <1>2, <3>2, <4>2
        <5>. QED  BY <2>6, <5>1
      <4>. QED  BY <4>1, <4>2
    <3>. QED  BY <1>5, <3>1, <3>2 DEF Run
  <2>. QED  BY <1>2, <1>3, <2>4, <2>5, <2>8 DEF CoverageInv
<1>. QED  BY <1>4, <1>5

(* What is covered stays so while no child runs.                           *)
LEMMA PlanStays ==
  ASSUME ExtensionInv, CoverageInv,
         UNCHANGED <<command, inputs, request, component, runs, coverage>>,
         command.how = "composite" /\ (pc' \in Writing \/ out'.ours)
           => component = 4 /\ ~request.dry_run
  PROVE  CoverageInv'
<1>. SUFFICES ASSUME command.how = "composite", ~request.dry_run PROVE CoverageInv'
  BY DEF CoverageInv
<1>1. inputs \in Seq(InputType) /\ Grows
  BY DEF ExtensionInv, CallTypes, Grows
<1>2. /\ \A c \in coverage' : c.role \in Roles
      /\ component <= 3 => \A role \in Roles : Delivered(role)
      /\ \A c \in 1 .. component - 1 : WholeWindow(Components[c])
  BY DEF CoverageInv
<1>3. ASSUME component <= 3, NEW role \in Roles PROVE Delivered(role)'
  BY <1>1, <1>2, <1>3, DeliveredStays
<1>4. ASSUME NEW c \in 1 .. component - 1 PROVE WholeWindow(Components[c])'
  <2>1. PICK name : name = Components[c]
    OBVIOUS
  <2>2. Used(name)' = Used(name)
    BY DEF Used
  <2>3. WholeWindow(name)'
    BY <1>1, <1>2, <2>1, <2>2, WholeStays
  <2>. QED  BY <2>1, <2>3
<1>. QED  BY <1>2, <1>3, <1>4 DEF CoverageInv

(* A component is done with when its window is covered.                    *)
LEMMA OnwardCovers ==
  ASSUME ExtensionInv, CoverageInv, component \in 1 .. 3, pc \in Extending,
         UNCHANGED <<command, inputs, out, request, coverage>>,
         component' = component + 1, runs' = NoRuns, pc' = "preferred",
         ~request.dry_run /\ (\A role \in Roles : Delivered(role))
            /\ (\A c \in coverage : c.role \in Roles) => WholeWindow(Name)
  PROVE  CoverageInv'
<1>. SUFFICES ASSUME command.how = "composite" PROVE CoverageInv'
  BY DEF CoverageInv
<1>1. inputs \in Seq(InputType) /\ Grows
  BY DEF ExtensionInv, CallTypes, Grows
<1>2. ~out'.ours /\ pc' \notin Writing
  <2>1. pc \notin {"inspect", "done"}
    BY DEF Extending
  <2>2. ~out.ours
    BY <2>1 DEF ExtensionInv, OutInv
  <2>. QED  BY <2>2 DEF Writing
<1>3. CASE request.dry_run
  BY <1>2, <1>3 DEF CoverageInv
<1>4. CASE ~request.dry_run
  <2>1. /\ \A c \in coverage' : c.role \in Roles
        /\ \A c \in 1 .. component - 1 : WholeWindow(Components[c])
        /\ WholeWindow(Name)
    BY <1>4 DEF CoverageInv
  <2>2. ASSUME NEW role \in Roles PROVE Delivered(role)'
    <3>1. ~runs'[role].complete
      BY DEF NoRuns, NotRun, Roles
    <3>. QED  BY <3>1 DEF Delivered
  <2>3. ASSUME NEW c \in 1 .. component' - 1 PROVE WholeWindow(Components[c])'
    <3>1. PICK name : name = Components[c]
      OBVIOUS
    <3>2. WholeWindow(name)
      <4>1. c \in 1 .. component - 1 \/ c = component
        OBVIOUS
      <4>. QED  BY <2>1, <3>1, <4>1 DEF Name
    <3>3. Used(name)' = Used(name)
      BY DEF Used
    <3>4. WholeWindow(name)'
      BY <1>1, <3>2, <3>3, WholeStays
    <3>. QED  BY <3>1, <3>4
  <2>. QED  BY <1>2, <2>1, <2>2, <2>3 DEF CoverageInv
<1>. QED  BY <1>3, <1>4

(* Each component's turn keeps what is covered.                            *)
LEMMA ExtendCovers ==
  ASSUME ExtensionInv, CoverageInv, Extend
  PROVE  CoverageInv'
<1>0. /\ Len(Components) = 3 /\ component \in 1 .. 4 /\ request \in Requests
      /\ runs \in [Roles -> RunType]
  BY DEF ExtensionInv, ExtensionTypes, Components
<1>7. pc \in Extending => ~out.ours
  BY DEF ExtensionInv, OutInv, Extending
<1>8. component \in 1 .. 3 => Name \in Names
  BY NameIs
<1>9. component \in 1 .. 3 /\ (Covers(runs.preferred) \/ FallbackAccepted)
        /\ (\A role \in Roles : Delivered(role)) /\ (\A c \in coverage : c.role \in Roles)
      => WholeWindow(Name)
  BY <1>0, <1>8, AcceptedCovers
<1>1. CASE Skip
  <2>1. /\ component \in 1 .. 3 /\ pc \in Extending /\ Preferred = "none"
        /\ UNCHANGED <<command, inputs, out, request, coverage>>
        /\ component' = component + 1 /\ runs' = NoRuns /\ pc' = "preferred"
    BY <1>0, <1>1 DEF Skip, Extending, ToNextComponent, elsewhere
  <2>2. WholeWindow(Name)
    BY <2>1 DEF WholeWindow, Preferred
  <2>. QED  BY <2>1, <2>2, OnwardCovers
<1>2. CASE RunPreferred
  <2>1. /\ component \in 1 .. 3 /\ pc = "preferred" /\ Run("preferred", PreferredChild)
        /\ pc' = IF result' = "error" THEN "done" ELSE "judge"
    BY <1>0, <1>2 DEF RunPreferred
  <2>2. PreferredChild \in ChildType
    BY <1>0, <2>1, NameIs, PreferredChildTyped
  <2>3. /\ PreferredChild.source = request[Name]["preferred"]
        /\ PreferredChild.step = Step("preferred")
    BY DEF PreferredChild, Child, Preferred
  <2>4. \A role \in Roles, child \in ChildType :
          /\ pc = role /\ child.source = request[Name][role] /\ child.step = Step(role)
          /\ child.step = 1 => child.hours <= Hours + Allowance
          /\ Run(role, child)
          /\ pc' = IF result' = "error" THEN "done"
                   ELSE IF role = "preferred" THEN "judge" ELSE "accept"
          => CoverageInv'
    BY <2>1, RunDelivers
  <2>5. "preferred" \in Roles
    BY DEF Roles
  <2>6. PreferredChild.step = 1 => PreferredChild.hours <= Hours + Allowance
    BY <1>0, <2>1, NameIs, PreferredReach
  <2>. QED  BY <2>1, <2>2, <2>3, <2>4, <2>5, <2>6
<1>3. CASE Judge
  <2>1. component \in 1 .. 3 /\ pc = "judge" /\ pc \in Extending
    BY <1>0, <1>3 DEF Judge, ExtensionInv, PhaseInv, Extending
  <2>2. UNCHANGED <<command, inputs, out, request, coverage>>
    BY <1>3 DEF Judge, elsewhere
  <2>3. CASE ~NeedsFallback
    <3>1. component' = component + 1 /\ runs' = NoRuns /\ pc' = "preferred"
      BY <1>3, <2>3 DEF Judge, ToNextComponent
    <3>2. ~request.dry_run => Covers(runs.preferred)
      BY <2>3 DEF NeedsFallback
    <3>. QED  BY <1>9, <2>1, <2>2, <3>1, <3>2, OnwardCovers
  <2>4. CASE NeedsFallback
    <3>1. UNCHANGED <<component, runs>> /\ pc' \in {"fallback", "done"}
      BY <1>3, <2>4 DEF Judge, Stop
    <3>2. pc' \notin Writing /\ ~out'.ours
      BY <1>7, <2>1, <2>2, <3>1 DEF Writing
    <3>. QED  BY <2>2, <3>1, <3>2, PlanStays
  <2>. QED  BY <2>3, <2>4
<1>4. CASE RunFallback
  <2>1. /\ pc = "fallback" /\ Run("fallback", FallbackChild)
        /\ pc' = IF result' = "error" THEN "done" ELSE "accept"
    BY <1>4 DEF RunFallback
  <2>2. component \in 1 .. 3
    BY <1>0, <2>1 DEF ExtensionInv, PhaseInv
  <2>3. FallbackChild \in ChildType
    BY <1>0, <2>2, NameIs, FallbackChildTyped
  <2>4. /\ FallbackChild.source = request[Name]["fallback"]
        /\ FallbackChild.step = Step("fallback")
    BY DEF FallbackChild, Child, Fallback
  <2>5. \A role \in Roles, child \in ChildType :
          /\ pc = role /\ child.source = request[Name][role] /\ child.step = Step(role)
          /\ child.step = 1 => child.hours <= Hours + Allowance
          /\ Run(role, child)
          /\ pc' = IF result' = "error" THEN "done"
                   ELSE IF role = "preferred" THEN "judge" ELSE "accept"
          => CoverageInv'
    BY <2>2, RunDelivers
  <2>6. "fallback" \in Roles /\ "preferred" # "fallback"
    BY DEF Roles
  <2>7. FallbackChild.step = 1 => FallbackChild.hours <= Hours + Allowance
    BY <1>0, <2>2, NameIs, FallbackReach
  <2>. QED  BY <2>1, <2>3, <2>4, <2>5, <2>6, <2>7
<1>5. CASE Accept
  <2>1. component \in 1 .. 3 /\ pc \in Extending
    BY <1>0, <1>5 DEF Accept, ExtensionInv, PhaseInv, Extending
  <2>2. UNCHANGED <<command, inputs, out, request, coverage>>
    BY <1>5 DEF Accept, elsewhere
  <2>3. CASE request.dry_run \/ FallbackAccepted
    <3>1. component' = component + 1 /\ runs' = NoRuns /\ pc' = "preferred"
      BY <1>5, <2>3 DEF Accept, ToNextComponent
    <3>. QED  BY <1>9, <2>1, <2>2, <2>3, <3>1, OnwardCovers
  <2>4. CASE ~(request.dry_run \/ FallbackAccepted)
    <3>1. UNCHANGED <<component, runs>> /\ pc' = "done"
      BY <1>5, <2>4 DEF Accept, Stop
    <3>2. pc' \notin Writing /\ ~out'.ours
      BY <1>7, <2>1, <2>2, <3>1 DEF Writing
    <3>. QED  BY <2>2, <3>1, <3>2, PlanStays
  <2>. QED  BY <2>3, <2>4
<1>6. CASE Conclude
  <2>1. /\ component = 4 /\ pc \in Extending
        /\ UNCHANGED <<command, inputs, out, request, component, runs, coverage>>
    BY <1>0, <1>6 DEF Conclude, Extending, elsewhere
  <2>2. request.dry_run => pc' \notin Writing
    BY <1>6 DEF Conclude, Stop, Writing
  <2>3. ~out'.ours
    BY <1>7, <2>1
  <2>. QED  BY <2>1, <2>2, <2>3, PlanStays
<1>. QED  BY <1>1, <1>2, <1>3, <1>4, <1>5, <1>6 DEF Extend

(* Putting together, a kill and stuttering change no input.                *)
LEMMA CombineCovers ==
  ASSUME ExtensionInv, CoverageInv,
         ((Combine \/ Kill) /\ UNCHANGED extensionVars) \/ UNCHANGED vars
  PROVE  CoverageInv'
<1>1. UNCHANGED <<command, inputs, request, component, runs, coverage>>
  BY DEF Combine, Kill, CheckRoles, Check, Write, Rescan, Rename, Inspect, extensionVars,
         vars, combineVars
<1>2. command.how = "composite" /\ (pc' \in Writing \/ out'.ours) => pc \in Writing \/ out.ours
  <2>1. pc = "roles" => command.how # "composite"
    BY DEF ExtensionInv, PhaseInv
  <2>2. \/ pc \in Writing \/ pc = "roles"
        \/ pc' \notin Writing /\ UNCHANGED out
        \/ UNCHANGED <<pc, out>>
    BY DEF Combine, Kill, CheckRoles, Check, Write, Rescan, Rename, Inspect, Writing, Stop, vars,
           combineVars
  <2>. QED  BY <2>1, <2>2
<1>. QED  BY <1>1, <1>2, PlanStays DEF CoverageInv

(* At first nothing is covered.                                            *)
LEMMA CoverageStart == Init => CoverageInv
<1>. SUFFICES ASSUME Init, command.how = "composite" PROVE CoverageInv
  BY DEF CoverageInv
<1>1. component = 1 /\ runs = NoRuns /\ coverage = {} /\ ~out.ours
  BY DEF Init, CombineStart, NoFile, OldFile
<1>2. pc \notin Writing
  BY MergesAssumption DEF Init, Writing
<1>3. \A role \in Roles : Delivered(role)
  BY <1>1 DEF Delivered, NoRuns, NotRun, Roles
<1>. QED  BY <1>1, <1>2, <1>3 DEF CoverageInv

(* The coverage invariant: what every complete child delivered is in the   *)
(* inputs without a gap wider than its step, and every component that was  *)
(* gone past covers the window (run, CoversRequestedWindow and what        *)
(* GenerateExtendedEnvironment makes of them).                             *)
THEOREM CoverageHolds == Spec => []CoverageInv
<1>1. ExtensionInv /\ CoverageInv /\ [Next]_vars => CoverageInv'
  BY ExtendCovers, CombineCovers DEF Next
<1>. QED  BY <1>1, CoverageStart, ExtensionHolds, PTL DEF Spec

(* What a composite wants has each hour of the window that an input has:   *)
(* the first message of the tuple is kept.                                 *)
LEMMA CompositeHas ==
  ASSUME inputs \in Seq(InputType), command.through \in Int,
         NEW name, NEW t \in Int, t <= command.through, HasTime(name, t)
  PROVE  \E k \in DOMAIN Composite :
           Composite[k].param = FieldOf[name] /\ Composite[k].time = t
<1>. DEFINE Is(m) == m.param = FieldOf[name] /\ m.time = t
            seqs == [i \in DOMAIN inputs |-> Numbered(inputs[i])]
            S == {j \in 1 .. Len(Read) : Is(Read[j].m)}
            I == {i \in 1 .. Len(Read) : Worthy(i)}
<1>1. Read \in Seq(ReadType) /\ Len(Read) \in Nat
  BY ReadTyped
<1>2. PICK i, n : /\ i \in DOMAIN inputs /\ n \in DOMAIN inputs[i].file.parts
                  /\ Is(inputs[i].file.parts[n])
  BY DEF HasTime
<1>3. seqs \in Seq(Seq(ReadType)) /\ Len(seqs) # 0 /\ Read = FlattenSeq(seqs)
  <2>1. \A k \in DOMAIN inputs : Numbered(inputs[k]) \in Seq(ReadType)
    BY InputIs
  <2>2. seqs \in Seq(Seq(ReadType))
    BY <2>1
  <2>3. Len(seqs) = Len(inputs) /\ Len(inputs) # 0
    <3>1. i \in 1 .. Len(inputs)
      BY <1>2
    <3>. QED  BY <3>1
  <2>. QED  BY <2>2, <2>3 DEF Read
<1>4. i \in DOMAIN seqs /\ n \in DOMAIN seqs[i] /\ Is(seqs[i][n].m)
  BY <1>2 DEF Numbered
<1>. HIDE DEF seqs
<1>5. PICK j \in 1 .. Len(Read) : Is(Read[j].m)
  <2>1. PICK g : Lays(g, seqs)
    BY <1>3, FlattenLays
  <2>2. <<i, n>> \in Places(seqs)
    BY <1>4 DEF Places
  <2>3. g[<<i, n>>] \in 1 .. Len(Read) /\ Read[g[<<i, n>>]] = seqs[i][n]
    BY <1>3, <2>1, <2>2 DEF Lays
  <2>. QED  BY <1>4, <2>3
<1>6. PICK m \in S : \A k \in S : m <= k
  <2>1. S \subseteq Nat /\ S # {}
    BY <1>1, <1>5
  <2>. HIDE DEF S
  <2>. QED  BY <2>1, Least
<1>7. m \in 1 .. Len(Read) /\ Is(Read[m].m) /\ Read[m] \in ReadType
  BY <1>1, <1>6
<1>8. m \in I
  <2>1. t # NoTime
    BY StreamAssumption
  <2>2. ~Beyond(Read[m].m)
    BY <1>7 DEF Beyond
  <2>3. ASSUME NEW k \in 1 .. m - 1, Tuple(Read[k]) = Tuple(Read[m]) PROVE FALSE
    <3>1. k \in 1 .. Len(Read) /\ k < m /\ m \in Int
      BY <1>1, <1>7
    <3>2. Read[k] \in ReadType
      BY <1>1, <3>1
    <3>3. Read[k].m.time = Read[m].m.time /\ Read[k].m.param = Read[m].m.param
      BY <1>7, <2>1, <2>3, <3>2, TupleTime
    <3>4. k \in S
      BY <1>7, <3>1, <3>3
    <3>5. m <= k
      BY <1>6, <3>4
    <3>. QED  BY <3>1, <3>5
  <2>. QED  BY <1>7, <2>2, <2>3 DEF Worthy
<1>. HIDE DEF I, S
<1>9. Picks(Kept, Read, I)
  BY KeptPicks DEF I
<1>10. IsFiniteSet(I) /\ I \in SUBSET Int
  <2>1. 1 \in Int /\ Len(Read) \in Int
    BY <1>1
  <2>2. IsFiniteSet(1 .. Len(Read))
    BY <2>1, FS_Interval
  <2>3. I \subseteq 1 .. Len(Read)
    BY DEF I
  <2>4. 1 .. Len(Read) \subseteq Int
    BY <2>1
  <2>5. IsFiniteSet(I)
    BY <2>2, <2>3, FS_Subset
  <2>. QED  BY <2>3, <2>4, <2>5
<1>. DEFINE B == Below(I, m)
            k == 1 + Cardinality(B)
<1>11. B \in SUBSET I /\ B # I
  <2>1. m \in Int /\ ~(m < m)
    BY <1>7
  <2>. QED  BY <1>8, <2>1 DEF Below
<1>12. Kept[k] = Read[m] /\ Len(Kept) = Cardinality(I)
  BY <1>8, <1>9 DEF Picks
<1>. HIDE DEF B
<1>13. /\ Cardinality(B) \in Nat /\ Cardinality(I) \in Nat
       /\ Cardinality(B) <= Cardinality(I) /\ Cardinality(B) # Cardinality(I)
  BY <1>10, <1>11, FS_Subset, FS_CardinalityType
<1>14. k \in 1 .. Len(Kept)
  BY <1>12, <1>13
<1>. HIDE DEF k
<1>15. Kept \in Seq(ReadType)
  BY <1>1, KeptIs
<1>16. k \in DOMAIN Composite /\ Composite[k] = Kept[k].m
  BY <1>14, <1>15 DEF Composite
<1>. QED  BY <1>7, <1>12, <1>16

(* What is published has a record of every hour of the requested window,   *)
(* or of at most the spacing of its sources before it, of each component   *)
(* that was asked for and that no file taken as it is went into: for any   *)
(* request, any sources, any horizon, any end of UKV's hourly leads, any   *)
(* reference times, and any child that delivers less than it was asked for *)
(* (GenerateExtendedEnvironment).                                          *)
THEOREM WindowAlwaysCovered == Spec => []WindowCovered
<1>1. ExtensionInv /\ CoverageInv => WindowCovered
  <2>. SUFFICES ASSUME ExtensionInv, CoverageInv, out.ours, command.how = "composite",
                       NEW name \in DOMAIN FieldOf, request[name].preferred # "none",
                       \A c \in Used(name) : c.source \notin AsGiven, NEW hour \in 0 .. Hours
                PROVE  \E t \in PublishedTimes(FieldOf[name]) :
                         t <= hour /\ hour < t + Widest(name)
    BY DEF WindowCovered, Published, Used, Widest
  <2>1. component = 4 /\ ~request.dry_run
    BY DEF CoverageInv
  <2>2. WholeWindow(name)
    <3>1. \A c \in 1 .. 3 : WholeWindow(Components[c])
      BY <2>1 DEF CoverageInv
    <3>2. \E c \in 1 .. 3 : name = Components[c]
      BY DEF FieldOf, Components
    <3>. QED  BY <3>1, <3>2
  <2>3. PICK t \in Int : t <= hour /\ hour < t + Widest(name) /\ HasTime(name, t)
    BY <2>2 DEF WholeWindow
  <2>4. /\ inputs \in Seq(InputType) /\ command.through = Hours /\ Hours \in Nat
        /\ out = File(Wanted, FALSE)
    BY RequestIs DEF ExtensionInv, CallTypes, PhaseInv, ExtensionTypes, OutInv, Hours
  <2>5. t <= command.through /\ command.through \in Int
    BY <2>3, <2>4
  <2>6. PICK k \in DOMAIN Composite :
          Composite[k].param = FieldOf[name] /\ Composite[k].time = t
    BY <2>3, <2>4, <2>5, CompositeHas
  <2>7. out.parts = Composite
    BY <2>4 DEF File, Wanted
  <2>8. t \in PublishedTimes(FieldOf[name])
    BY <2>6, <2>7 DEF PublishedTimes
  <2>. QED  BY <2>3, <2>8
<1>. QED  BY <1>1, ExtensionHolds, CoverageHolds, PTL
=============================================================================
