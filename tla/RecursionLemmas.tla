--------------------------- MODULE RecursionLemmas ---------------------------
(***************************************************************************)
(* What recursive functions, folds and sequences return, for the proofs    *)
(* about the number plan and the dialplan.                                 *)
(*                                                                         *)
(* The rule of induction of the library takes an operator, which no prover *)
(* here can instantiate.  These lemmas take functions and sets, and go by  *)
(* least counterexamples: a set of natural numbers that is not empty has a *)
(* least element.                                                          *)
(***************************************************************************)
EXTENDS Naturals, Sequences, FiniteSetsExt, SequencesExt, SequenceTheorems, WellFoundedInduction,
        TLAPS

-----------------------------------------------------------------------------
(* Natural numbers                                                         *)

LEMMA LeastNatural ==
  ASSUME NEW S, S \subseteq Nat, S # {}
  PROVE  \E n \in S : \A m \in S : n <= m
  <1>1. PICK n \in S : \A m \in S : <<m, n>> \notin OpToRel(<, Nat)
    BY WFMin, NatLessThanWellFounded, Zenon
  <1>2. ASSUME NEW m \in S, m < n PROVE FALSE
    <2>1. <<m, n>> \in Nat \X Nat BY <1>2
    <2>2. <<m, n>> \in OpToRel(<, Nat) BY <1>2, <2>1 DEF OpToRel
    <2> QED BY <1>1, <1>2, <2>2
  <1>3. ASSUME NEW m \in S PROVE n <= m BY <1>2, <1>3
  <1> QED BY <1>3

LEMMA GreatestNatural ==
  ASSUME NEW b \in Nat, NEW S, S \subseteq 0 .. b, S # {}
  PROVE  \E n \in S : \A m \in S : m <= n
  <1> DEFINE D == {b - m : m \in S}
  <1>1. D \subseteq Nat /\ D # {}
    <2>1. \A m \in S : b - m \in Nat OBVIOUS
    <2>2. PICK m \in S : TRUE OBVIOUS
    <2>3. b - m \in D OBVIOUS
    <2> QED BY <2>1, <2>3
  <1>2. PICK d \in D : \A c \in D : d <= c BY <1>1, LeastNatural
  <1>3. PICK n \in S : d = b - n BY <1>2
  <1>4. ASSUME NEW m \in S PROVE m <= n
    <2>1. b - m \in D OBVIOUS
    <2>2. m \in Nat /\ n \in Nat BY <1>3
    <2> QED BY <1>2, <1>3, <2>1, <2>2
  <1> QED BY <1>3, <1>4

LEMMA MaxIs ==
  ASSUME NEW b \in Nat, NEW S, S \subseteq 0 .. b, S # {}
  PROVE  Max(S) \in S /\ \A m \in S : m <= Max(S)
  <1>1. \E n \in S : \A m \in S : n >= m
    <2>1. PICK n \in S : \A m \in S : m <= n BY GreatestNatural
    <2>2. \A m \in S : m \in Nat /\ n \in Nat OBVIOUS
    <2> QED BY <2>1, <2>2
  <1>2. Max(S) \in S /\ \A m \in S : Max(S) >= m BY <1>1 DEF Max
  <1>3. \A m \in S : m \in Nat OBVIOUS
  <1> QED BY <1>2, <1>3

LEMMA MinIs ==
  ASSUME NEW S, S \subseteq Nat, S # {}
  PROVE  Min(S) \in S /\ \A m \in S : Min(S) <= m
  BY LeastNatural DEF Min

\* g repeats the step F from a start, over the places S.
Repeats(g, a, F, S) == \A i \in S : g[i] = IF i = 0 THEN a ELSE F[g[i - 1]]

\* A step can be repeated as often as one likes.
LEMMA Iteration ==
  ASSUME NEW T, NEW a \in T, NEW F \in [T -> T], NEW m \in Nat
  PROVE  \E g \in [0 .. m -> T] : Repeats(g, a, F, 0 .. m)
  <1> USE DEF Repeats
  <1> DEFINE Fits(g, n) == Repeats(g, a, F, 0 .. n)
             Bad == {n \in Nat : ~ \E g \in [0 .. n -> T] : Fits(g, n)}
  <1>1. ASSUME Bad # {} PROVE FALSE
    <2>1. PICK n \in Bad : \A k \in Bad : n <= k BY <1>1, LeastNatural
    <2>2. CASE n = 0
      <3>1. [i \in 0 .. 0 |-> a] \in [0 .. 0 -> T] /\ Fits([i \in 0 .. 0 |-> a], 0) OBVIOUS
      <3> QED BY <2>1, <2>2, <3>1
    <2>3. CASE n # 0
      <3>1. n - 1 \in Nat /\ n - 1 \notin Bad
        <4>1. n \in Nat BY <2>1
        <4>2. n - 1 \in Nat /\ ~ n <= n - 1 BY <2>3, <4>1
        <4> HIDE DEF Bad
        <4> QED BY <2>1, <4>2
      <3>2. PICK g \in [0 .. n - 1 -> T] : Fits(g, n - 1) BY <3>1
      <3> DEFINE h == [i \in 0 .. n |-> IF i = n THEN F[g[n - 1]] ELSE g[i]]
      <3>3. h \in [0 .. n -> T] BY <3>1, <3>2
      <3>4. ASSUME NEW i \in 0 .. n PROVE h[i] = IF i = 0 THEN a ELSE F[h[i - 1]]
        BY <3>1, <3>2, <2>3
      <3> HIDE DEF h
      <3>5. Fits(h, n) BY <3>4
      <3> QED BY <2>1, <3>3, <3>5
    <2> QED BY <2>2, <2>3
  <1>2. m \notin Bad BY <1>1
  <1> QED BY <1>2

\* The same without an end.
LEMMA EndlessIteration ==
  ASSUME NEW T, NEW a \in T, NEW F \in [T -> T]
  PROVE  \E g \in [Nat -> T] : Repeats(g, a, F, Nat)
  <1> DEFINE Fits(g, n) == Repeats(g, a, F, 0 .. n)
             G(n) == CHOOSE g \in [0 .. n -> T] : Fits(g, n)
             g == [n \in Nat |-> G(n)[n]]
  <1>1. ASSUME NEW n \in Nat PROVE G(n) \in [0 .. n -> T] /\ Fits(G(n), n)
    <2>1. \E f \in [0 .. n -> T] : Repeats(f, a, F, 0 .. n) BY Iteration
    <2> QED BY <2>1
  <1> HIDE DEF G
  <1>2. ASSUME NEW n \in Nat PROVE G(n + 1)[n] = G(n)[n]
    <2> DEFINE Bad == {i \in 0 .. n : G(n + 1)[i] # G(n)[i]}
    <2>1. ASSUME Bad # {} PROVE FALSE
      <3>1. PICK i \in Bad : \A k \in Bad : i <= k
        <4>1. Bad \subseteq Nat OBVIOUS
        <4> HIDE DEF Bad
        <4> QED BY <2>1, <4>1, LeastNatural
      <3>2. /\ G(n)[i] = IF i = 0 THEN a ELSE F[G(n)[i - 1]]
            /\ G(n + 1)[i] = IF i = 0 THEN a ELSE F[G(n + 1)[i - 1]]
        BY <1>1, <3>1 DEF Repeats
      <3>3. CASE i = 0 BY <3>1, <3>2, <3>3
      <3>4. CASE i # 0
        <4>1. i - 1 \in 0 .. n /\ i - 1 \notin Bad BY <3>1, <3>4
        <4> QED BY <3>1, <3>2, <3>4, <4>1
      <3> QED BY <3>3, <3>4
    <2> QED BY <2>1
  <1>3. g \in [Nat -> T] BY <1>1
  <1>4. ASSUME NEW i \in Nat PROVE g[i] = IF i = 0 THEN a ELSE F[g[i - 1]]
    <2>1. G(i)[i] = IF i = 0 THEN a ELSE F[G(i)[i - 1]] BY <1>1 DEF Repeats
    <2>2. i # 0 => i - 1 \in Nat /\ G(i)[i - 1] = G(i - 1)[i - 1] BY <1>2
    <2> QED BY <2>1, <2>2
  <1> QED BY <1>3, <1>4 DEF Repeats

-----------------------------------------------------------------------------
(* Folds                                                                   *)

\* g folds F from b over the places 1 to n, in their order.
FoldsTo(g, b, F, n) ==
  \A x \in SUBSET (1 .. n) : g[x] = IF x = {} THEN b ELSE F[<<g[x \ {Max(x)}], Max(x)>>]

LEMMA FoldExists ==
  ASSUME NEW T, NEW b \in T, NEW n \in Nat, NEW F \in [T \X (1 .. n) -> T]
  PROVE  \E g \in [SUBSET (1 .. n) -> T] : FoldsTo(g, b, F, n)
  <1> DEFINE Has(k) == \E g \in [SUBSET (1 .. k) -> T] : FoldsTo(g, b, F, k)
             Bad == {k \in Nat : k <= n /\ ~ Has(k)}
  <1>1. ASSUME Bad # {} PROVE FALSE
    <2>1. PICK k \in Bad : \A j \in Bad : k <= j BY <1>1, LeastNatural
    <2>2. k \in Nat /\ k <= n /\ ~ Has(k) OBVIOUS
    <2>3. CASE k = 0
      <3> DEFINE g == [x \in SUBSET (1 .. 0) |-> b]
      <3>1. g \in [SUBSET (1 .. 0) -> T] OBVIOUS
      <3>2. \A x \in SUBSET (1 .. 0) : x = {} /\ g[x] = b
        <4>1. 1 .. 0 = {} OBVIOUS
        <4> QED BY <4>1
      <3> HIDE DEF g
      <3>3. FoldsTo(g, b, F, 0) BY <3>2 DEF FoldsTo
      <3> QED BY <2>2, <2>3, <3>1, <3>3
    <2>4. CASE k # 0
      <3>1. k - 1 \in Nat /\ k - 1 <= n /\ ~ k <= k - 1 BY <2>2, <2>4
      <3>2. Has(k - 1) BY <2>1, <3>1
      <3>3. PICK g \in [SUBSET (1 .. k - 1) -> T] : FoldsTo(g, b, F, k - 1) BY <3>2
      <3> DEFINE h == [x \in SUBSET (1 .. k) |-> IF k \in x THEN F[<<g[x \ {k}], k>>] ELSE g[x]]
      <3>4. ASSUME NEW x \in SUBSET (1 .. k)
            PROVE  /\ x \ {k} \in SUBSET (1 .. k - 1) /\ g[x \ {k}] \in T
                   /\ k \in x => F[<<g[x \ {k}], k>>] \in T
        <4>1. x \ {k} \in SUBSET (1 .. k - 1) BY <2>2, <3>1
        <4>2. g[x \ {k}] \in T BY <3>3, <4>1
        <4>3. k \in 1 .. n BY <2>2, <2>4
        <4>4. <<g[x \ {k}], k>> \in T \X (1 .. n) BY <4>2, <4>3
        <4> QED BY <4>1, <4>2, <4>4
      <3>5. ASSUME NEW x \in SUBSET (1 .. k), k \notin x
            PROVE  x \in SUBSET (1 .. k - 1) /\ h[x] = g[x] /\ g[x] \in T
        <4>1. x \ {k} = x BY <3>5
        <4> QED BY <3>4, <3>5, <4>1
      <3>6. h \in [SUBSET (1 .. k) -> T] BY <3>4, <3>5
      <3>7. ASSUME NEW x \in SUBSET (1 .. k)
            PROVE  h[x] = IF x = {} THEN b ELSE F[<<h[x \ {Max(x)}], Max(x)>>]
        <4>1. CASE k \in x
          <5>1. Max(x) = k
            <6>1. x \subseteq 0 .. k /\ x # {} BY <2>2, <4>1
            <6>2. Max(x) \in x /\ k <= Max(x) BY <2>2, <4>1, <6>1, MaxIs
            <6>3. Max(x) \in 1 .. k BY <6>2
            <6> QED BY <2>2, <6>2, <6>3
          <5>2. x \ {k} \in SUBSET (1 .. k) /\ k \notin x \ {k} OBVIOUS
          <5>3. h[x \ {k}] = g[x \ {k}] BY <3>4, <5>2
          <5>4. h[x] = F[<<g[x \ {k}], k>>] BY <4>1
          <5> HIDE DEF h
          <5> QED BY <4>1, <5>1, <5>3, <5>4
        <4>2. CASE k \notin x
          <5>1. x \in SUBSET (1 .. k - 1) /\ h[x] = g[x] BY <3>5, <4>2
          <5>2. g[x] = IF x = {} THEN b ELSE F[<<g[x \ {Max(x)}], Max(x)>>]
            BY <3>3, <5>1 DEF FoldsTo
          <5>3. h[x \ {Max(x)}] = g[x \ {Max(x)}]
            <6>1. x \ {Max(x)} \in SUBSET (1 .. k) /\ k \notin x \ {Max(x)} BY <4>2
            <6> HIDE DEF h
            <6> QED BY <3>5, <6>1
          <5> HIDE DEF h
          <5> QED BY <5>1, <5>2, <5>3
        <4> QED BY <4>1, <4>2
      <3> HIDE DEF h
      <3>8. FoldsTo(h, b, F, k) BY <3>7 DEF FoldsTo
      <3> QED BY <2>2, <3>6, <3>8
    <2> QED BY <2>3, <2>4
  <1>2. n \notin Bad BY <1>1
  <1> HIDE DEF Has
  <1>3. Has(n) BY <1>2
  <1> QED BY <1>3 DEF Has

-----------------------------------------------------------------------------
(* Sequences                                                               *)

\* A sequence may be given as a function, and its elements may be known better.
LEMMA SequenceOf ==
  ASSUME NEW S, NEW n \in Nat, NEW f \in [1 .. n -> S]
  PROVE  f \in Seq(S) /\ Len(f) = n
  BY SeqDef

LEMMA ConcatHas ==
  ASSUME NEW S, NEW p \in Seq(S), NEW q \in Seq(S)
  PROVE  /\ p \o q \in Seq(S)
         /\ \A i \in 1 .. Len(p) : \E k \in 1 .. Len(p \o q) : (p \o q)[k] = p[i]
         /\ \A i \in 1 .. Len(q) : \E k \in 1 .. Len(p \o q) : (p \o q)[k] = q[i]
  <1>1. Len(p) \in Nat /\ Len(q) \in Nat BY LenProperties
  <1>2. /\ p \o q \in Seq(S) /\ Len(p \o q) = Len(p) + Len(q)
        /\ \A i \in 1 .. Len(p) + Len(q) :
             (p \o q)[i] = IF i <= Len(p) THEN p[i] ELSE q[i - Len(p)]
    BY ConcatProperties
  <1>3. ASSUME NEW i \in 1 .. Len(p) PROVE i \in 1 .. Len(p \o q) /\ (p \o q)[i] = p[i]
    BY <1>1, <1>2
  <1>4. ASSUME NEW i \in 1 .. Len(q)
        PROVE  Len(p) + i \in 1 .. Len(p \o q) /\ (p \o q)[Len(p) + i] = q[i]
    <2>1. Len(p) + i \in 1 .. Len(p) + Len(q) /\ ~ Len(p) + i <= Len(p) /\ Len(p) + i - Len(p) = i
      BY <1>1
    <2> QED BY <1>2, <2>1
  <1> QED BY <1>2, <1>3, <1>4

-----------------------------------------------------------------------------
(* Recursion over the places of a sequence                                 *)

LEMMA UpTo ==
  ASSUME NEW m \in Nat, NEW S, 0 \in S, \A i \in 1 .. m : i - 1 \in S => i \in S
  PROVE  \A i \in 0 .. m : i \in S
  <1> DEFINE Bad == {i \in Nat : i <= m /\ i \notin S}
  <1>1. ASSUME Bad # {} PROVE FALSE
    <2>1. PICK i \in Bad : \A j \in Bad : i <= j BY <1>1, LeastNatural
    <2>2. i \in Nat /\ i <= m /\ i # 0 /\ i \notin S OBVIOUS
    <2>3. i - 1 \in Nat /\ i - 1 <= m /\ ~ i <= i - 1 /\ i \in 1 .. m BY <2>2
    <2>4. i - 1 \notin Bad
      <3> HIDE DEF Bad
      <3> QED BY <2>1, <2>3
    <2>5. i - 1 \in S BY <2>3, <2>4
    <2> QED BY <2>2, <2>3, <2>5
  <1>2. ASSUME NEW i \in 0 .. m PROVE i \in S
    <2>1. i \notin Bad
      <3> HIDE DEF Bad
      <3> QED BY <1>1
    <2> QED BY <2>1
  <1> QED BY <1>2

\* g is a first, and F of the place and what it was before at every further place.
Steps(g, a, F, m) == \A i \in 0 .. m : g[i] = IF i = 0 THEN a ELSE F[<<i, g[i - 1]>>]

LEMMA RecursionOn ==
  ASSUME NEW T, NEW a \in T, NEW m \in Nat, NEW F \in [(1 .. m) \X T -> T]
  PROVE  \E g \in [0 .. m -> T] : Steps(g, a, F, m)
  <1> DEFINE Good == {n \in 0 .. m : \E g \in [0 .. n -> T] : Steps(g, a, F, n)}
  <1>1. 0 \in Good
    <2>1. /\ [i \in 0 .. 0 |-> a] \in [0 .. 0 -> T]
          /\ \A i \in 0 .. 0 : i = 0 /\ [k \in 0 .. 0 |-> a][i] = a
      OBVIOUS
    <2>2. Steps([i \in 0 .. 0 |-> a], a, F, 0) BY <2>1 DEF Steps
    <2> QED BY <2>1, <2>2
  <1>2. ASSUME NEW n \in 1 .. m, n - 1 \in Good PROVE n \in Good
    <2>1. PICK g \in [0 .. n - 1 -> T] : Steps(g, a, F, n - 1) BY <1>2
    <2> DEFINE h == [i \in 0 .. n |-> IF i = n THEN F[<<n, g[n - 1]>>] ELSE g[i]]
    <2>2. g[n - 1] \in T BY <2>1
    <2>3. F[<<n, g[n - 1]>>] \in T BY <2>2
    <2>4. h \in [0 .. n -> T] BY <2>1, <2>3
    <2>5. ASSUME NEW i \in 0 .. n PROVE h[i] = IF i = 0 THEN a ELSE F[<<i, h[i - 1]>>]
      <3>1. CASE i = n BY <3>1
      <3>2. CASE i # n
        <4>1. i \in 0 .. n - 1 /\ (i # 0 => i - 1 \in 0 .. n - 1) BY <3>2
        <4>2. h[i] = g[i] /\ (i # 0 => h[i - 1] = g[i - 1]) BY <3>2, <4>1
        <4> HIDE DEF h
        <4> QED BY <2>1, <4>1, <4>2 DEF Steps
      <3> QED BY <3>1, <3>2
    <2> HIDE DEF h
    <2>6. Steps(h, a, F, n) BY <2>5 DEF Steps
    <2> QED BY <2>4, <2>6
  <1> HIDE DEF Good
  <1>3. m \in Good
    <2>1. \A n \in 0 .. m : n \in Good BY <1>1, <1>2, UpTo
    <2> QED BY <2>1
  <1> QED BY <1>3 DEF Good

LEMMA InSecondPart ==
  ASSUME NEW a \in Nat, NEW b \in Nat, NEW j \in 1 .. b
  PROVE  a + j \in 1 .. a + b /\ ~ a + j <= a /\ a + j - a = j
  OBVIOUS

LEMMA InFirstPart ==
  ASSUME NEW a \in Nat, NEW b \in Nat, NEW j \in 1 .. a
  PROVE  j \in 1 .. a + b /\ j <= a
  OBVIOUS

\* FlattenSeq puts sequences behind each other: the i-th begins where those
\* before it end.
Begins(at, seqs, flat) ==
  /\ at[0] = 0 /\ at[Len(seqs)] = Len(flat)
  /\ \A i \in 1 .. Len(seqs) :
       /\ at[i] = at[i - 1] + Len(seqs[i])
       /\ \A j \in 1 .. Len(seqs[i]) : flat[at[i - 1] + j] = seqs[i][j]

LEMMA BeginsGrow ==
  ASSUME NEW seqs, NEW n \in Nat, Len(seqs) = n, \A i \in 1 .. n : Len(seqs[i]) \in Nat,
         NEW at \in [0 .. n -> Nat], NEW flat, Begins(at, seqs, flat)
  PROVE  \A i, j \in 0 .. n : i <= j => at[i] <= at[j]
  <1> SUFFICES ASSUME NEW i \in 0 .. n PROVE \A j \in 0 .. n : i <= j => at[i] <= at[j] OBVIOUS
  <1> DEFINE S == {j \in 0 .. n : i <= j => at[i] <= at[j]}
  <1>1. 0 \in S OBVIOUS
  <1>2. ASSUME NEW j \in 1 .. n, j - 1 \in S PROVE j \in S
    <2>1. /\ at[j] = at[j - 1] + Len(seqs[j]) /\ Len(seqs[j]) \in Nat
          /\ at[j] \in Nat /\ at[j - 1] \in Nat /\ at[i] \in Nat
      BY DEF Begins
    <2>2. CASE i = j BY <2>1, <2>2
    <2>3. CASE i # j
      <3>1. i <= j => i <= j - 1 BY <2>3
      <3> QED BY <1>2, <2>1, <3>1
    <2> QED BY <2>2, <2>3
  <1> HIDE DEF S
  <1>3. \A j \in 0 .. n : j \in S BY <1>1, <1>2, UpTo
  <1> QED BY <1>3 DEF S

LEMMA FlattenIs ==
  ASSUME NEW S, NEW seqs \in Seq(Seq(S))
  PROVE  /\ FlattenSeq(seqs) \in Seq(S)
         /\ \E at \in [0 .. Len(seqs) -> Nat] : Begins(at, seqs, FlattenSeq(seqs))
  <1> DEFINE n == Len(seqs)
             flatten == CHOOSE f : f = [i \in 1 .. n |->
                          IF i = 1 THEN seqs[i] ELSE f[i - 1] \o seqs[i]]
  <1>1. n \in Nat /\ \A i \in 1 .. n : seqs[i] \in Seq(S) /\ Len(seqs[i]) \in Nat
    <2>1. n \in Nat /\ \A i \in 1 .. n : seqs[i] \in Seq(S) BY LenProperties, ElementOfSeq
    <2> QED BY <2>1, LenProperties
  <1>2. CASE n = 0
    <2>1. FlattenSeq(seqs) = seqs BY <1>2 DEF FlattenSeq
    <2>2. seqs = << >> /\ 1 .. n = {} BY <1>2, EmptySeq
    <2>3. [i \in 0 .. n |-> 0] \in [0 .. n -> Nat] OBVIOUS
    <2>4. Begins([i \in 0 .. n |-> 0], seqs, FlattenSeq(seqs)) BY <1>2, <2>1, <2>2 DEF Begins
    <2> QED BY <2>1, <2>2, <2>3, <2>4
  <1>3. CASE n # 0
    <2>1. FlattenSeq(seqs) = flatten[n] BY <1>3 DEF FlattenSeq
    <2> DEFINE T == Seq(S)
               F == [p \in (1 .. n) \X T |-> p[2] \o seqs[p[1]]]
    <2>2. F \in [(1 .. n) \X T -> T] /\ << >> \in T
      <3>1. \A q \in T, i \in 1 .. n : q \o seqs[i] \in T BY <1>1, ConcatProperties
      <3> QED BY <3>1
    <2>3. \A i \in 1 .. n, q \in T : F[<<i, q>>] = q \o seqs[i] OBVIOUS
    <2> HIDE DEF F, n
    <2>4. PICK g \in [0 .. n -> T] : Steps(g, << >>, F, n)
      <3> HIDE DEF T
      <3> QED BY <1>1, <2>2, RecursionOn
    <2>5. g[0] = << >> /\ \A i \in 1 .. n : g[i] = g[i - 1] \o seqs[i] /\ g[i - 1] \in T
      <3>1. \A i \in 1 .. n : i - 1 \in 0 .. n /\ i # 0 /\ i \in 0 .. n BY <1>1
      <3>2. \A i \in 1 .. n : g[i - 1] \in T BY <2>4, <3>1
      <3>3. \A i \in 1 .. n : g[i] = F[<<i, g[i - 1]>>] BY <2>4, <3>1 DEF Steps
      <3>4. 0 \in 0 .. n BY <1>1
      <3> QED BY <2>3, <2>4, <3>2, <3>3, <3>4 DEF Steps
    <2> DEFINE f == [i \in 1 .. n |-> g[i]]
    <2>6. f = [i \in 1 .. n |-> IF i = 1 THEN seqs[i] ELSE f[i - 1] \o seqs[i]]
      <3>1. ASSUME NEW i \in 1 .. n PROVE g[i] = IF i = 1 THEN seqs[i] ELSE g[i - 1] \o seqs[i]
        <4>1. CASE i = 1
          <5>1. g[1] = << >> \o seqs[1]
            <6>1. i - 1 = 0 BY <4>1
            <6> QED BY <2>5, <4>1, <6>1
          <5>2. seqs[1] \in Seq(S) BY <1>1, <4>1
          <5> QED BY <4>1, <5>1, <5>2, ConcatEmptySeq
        <4>2. CASE i # 1 BY <2>5, <4>2
        <4> QED BY <4>1, <4>2
      <3>2. \A i \in 1 .. n : i # 1 => i - 1 \in 1 .. n BY <1>1
      <3> QED BY <3>1, <3>2
    <2>7. flatten = [i \in 1 .. n |-> IF i = 1 THEN seqs[i] ELSE flatten[i - 1] \o seqs[i]]
      BY <2>6 DEF n
    <2> HIDE DEF flatten, f
    <2> DEFINE Same == {i \in 0 .. n : i = 0 \/ flatten[i] = g[i]}
    <2>8. \A i \in 0 .. n : i \in Same
      <3>1. 0 \in Same BY <1>1
      <3>2. ASSUME NEW i \in 1 .. n, i - 1 \in Same PROVE i \in Same
        <4>1. flatten[i] = IF i = 1 THEN seqs[i] ELSE flatten[i - 1] \o seqs[i] BY <2>7
        <4>2. CASE i = 1
          <5>1. g[1] = << >> \o seqs[1]
            <6>1. i - 1 = 0 BY <4>2
            <6> QED BY <2>5, <4>2, <6>1
          <5>2. seqs[1] \in Seq(S) BY <1>1, <4>2
          <5> QED BY <4>1, <4>2, <5>1, <5>2, ConcatEmptySeq
        <4>3. CASE i # 1
          <5>1. i - 1 # 0 BY <4>3
          <5>2. flatten[i - 1] = g[i - 1] BY <3>2, <5>1
          <5>3. flatten[i] = g[i]
            <6> HIDE DEF Same
            <6> QED BY <2>5, <4>1, <4>3, <5>2
          <5>4. i \in 0 .. n BY <1>1
          <5> QED BY <5>3, <5>4
        <4> QED BY <4>2, <4>3
      <3> HIDE DEF Same
      <3> QED BY <1>1, <3>1, <3>2, UpTo
    <2>9. FlattenSeq(seqs) = g[n]
      <3>1. n \in Same BY <1>1, <2>8
      <3> QED BY <1>3, <2>1, <3>1 DEF n
    <2> DEFINE at == [i \in 0 .. n |-> Len(g[i])]
               Done == {i \in 0 .. n : \A k \in 1 .. i : \A j \in 1 .. Len(seqs[k]) :
                          at[k - 1] + j \in 1 .. at[i] /\ g[i][at[k - 1] + j] = seqs[k][j]}
    <2>10. at \in [0 .. n -> Nat] /\ at[0] = 0
      <3>1. \A i \in 0 .. n : Len(g[i]) \in Nat BY <2>4, LenProperties
      <3>2. 0 \in 0 .. n BY <1>1
      <3> QED BY <2>5, <3>1, <3>2, EmptySeq
    <2>11. ASSUME NEW i \in 1 .. n
           PROVE  /\ at[i] = at[i - 1] + Len(seqs[i]) /\ at[i - 1] \in Nat
                  /\ \A j \in 1 .. at[i - 1] : g[i][j] = g[i - 1][j]
                  /\ \A j \in 1 .. Len(seqs[i]) : g[i][at[i - 1] + j] = seqs[i][j]
      <3>1. i - 1 \in 0 .. n /\ i \in 0 .. n BY <1>1
      <3>2. at[i - 1] = Len(g[i - 1]) /\ at[i] = Len(g[i]) BY <3>1
      <3>3. g[i] = g[i - 1] \o seqs[i] /\ g[i - 1] \in Seq(S) /\ seqs[i] \in Seq(S)
        BY <1>1, <2>5
      <3>4. Len(seqs[i]) \in Nat /\ Len(g[i - 1]) \in Nat BY <3>3, LenProperties
      <3> HIDE DEF at, T
      <3>5. /\ Len(g[i - 1] \o seqs[i]) = Len(g[i - 1]) + Len(seqs[i])
            /\ \A k \in 1 .. Len(g[i - 1]) + Len(seqs[i]) :
                 (g[i - 1] \o seqs[i])[k] = IF k <= Len(g[i - 1]) THEN g[i - 1][k]
                                            ELSE seqs[i][k - Len(g[i - 1])]
        BY <3>3, ConcatProperties
      <3>6. \A j \in 1 .. Len(g[i - 1]) : j \in 1 .. Len(g[i - 1]) + Len(seqs[i]) /\ j <= Len(g[i - 1])
        BY <3>4, InFirstPart
      <3>7. ASSUME NEW j \in 1 .. Len(seqs[i])
            PROVE  g[i][Len(g[i - 1]) + j] = seqs[i][j]
        <4>1. /\ Len(g[i - 1]) + j \in 1 .. Len(g[i - 1]) + Len(seqs[i])
              /\ ~ Len(g[i - 1]) + j <= Len(g[i - 1])
              /\ Len(g[i - 1]) + j - Len(g[i - 1]) = j
          BY <3>4, InSecondPart
        <4> QED BY <3>3, <3>5, <4>1
      <3> QED BY <3>2, <3>3, <3>4, <3>5, <3>6, <3>7
    <2>12. \A i \in 0 .. n : i \in Done
      <3>1. 0 \in Done BY <1>1
      <3>2. ASSUME NEW i \in 1 .. n, i - 1 \in Done PROVE i \in Done
        <4> SUFFICES ASSUME NEW k \in 1 .. i, NEW j \in 1 .. Len(seqs[k])
                     PROVE  at[k - 1] + j \in 1 .. at[i] /\ g[i][at[k - 1] + j] = seqs[k][j]
          <5>1. i \in 0 .. n BY <1>1
          <5> HIDE DEF at
          <5> QED BY <5>1
        <4>1. k \in 1 .. n /\ Len(seqs[k]) \in Nat /\ Len(seqs[i]) \in Nat BY <1>1
        <4>2. at[k - 1] \in Nat /\ at[i - 1] \in Nat BY <2>11, <4>1
        <4> HIDE DEF at, Done
        <4>3. CASE k = i
          <5>1. j \in 1 .. Len(seqs[i]) BY <4>3
          <5>2. at[i - 1] + j \in 1 .. at[i - 1] + Len(seqs[i]) BY <4>1, <4>2, <5>1, InSecondPart
          <5> QED BY <2>11, <4>3, <5>1, <5>2
        <4>4. CASE k # i
          <5>1. k \in 1 .. i - 1 BY <4>4
          <5>2. at[k - 1] + j \in 1 .. at[i - 1] /\ g[i - 1][at[k - 1] + j] = seqs[k][j]
            BY <3>2, <5>1 DEF Done
          <5>3. at[k - 1] + j \in 1 .. at[i - 1] + Len(seqs[i])
            BY <4>1, <4>2, <5>2, InFirstPart
          <5> QED BY <2>11, <5>2, <5>3
        <4> QED BY <4>3, <4>4
      <3> HIDE DEF Done
      <3> QED BY <1>1, <3>1, <3>2, UpTo
    <2>13. Begins(at, seqs, g[n])
      <3>1. n \in 0 .. n /\ at[n] = Len(g[n]) BY <1>1
      <3>2. n \in Done BY <2>12, <3>1
      <3>3. \A i \in 1 .. n : \A j \in 1 .. Len(seqs[i]) : g[n][at[i - 1] + j] = seqs[i][j]
        BY <3>2
      <3> HIDE DEF at
      <3> QED BY <2>10, <2>11, <3>1, <3>3 DEF Begins, n
    <2>14. g[n] \in Seq(S) BY <1>1, <2>4
    <2> HIDE DEF at
    <2> QED BY <2>9, <2>10, <2>13, <2>14 DEF n
  <1> QED BY <1>2, <1>3

\* Where the elements of the one sequence come from: from which sequence, and
\* from which place in it.
Unflattened(flat, seqs, of, off) ==
  /\ of \in [1 .. Len(flat) -> 1 .. Len(seqs)] /\ off \in [1 .. Len(flat) -> Nat]
  /\ \A l \in 1 .. Len(flat) :
       /\ off[l] \in 1 .. Len(seqs[of[l]]) /\ flat[l] = seqs[of[l]][off[l]]
       /\ off[l] # 1 => l # 1 /\ of[l - 1] = of[l] /\ off[l - 1] = off[l] - 1

LEMMA FlattenFrom ==
  ASSUME NEW S, NEW seqs \in Seq(Seq(S))
  PROVE  \E of, off : Unflattened(FlattenSeq(seqs), seqs, of, off)
  <1> DEFINE flat == FlattenSeq(seqs)
             m == Len(seqs)
             n == Len(flat)
  <1>1. PICK at \in [0 .. m -> Nat] : Begins(at, seqs, flat) BY FlattenIs
  <1>2. m \in Nat /\ n \in Nat /\ \A k \in 1 .. m : Len(seqs[k]) \in Nat
    <2>1. flat \in Seq(S) BY FlattenIs
    <2> HIDE DEF flat
    <2> QED BY <2>1, LenProperties, ElementOfSeq
  <1>3. /\ at[0] = 0 /\ at[m] = n
        /\ \A k \in 1 .. m : /\ at[k] = at[k - 1] + Len(seqs[k])
                             /\ \A j \in 1 .. Len(seqs[k]) : flat[at[k - 1] + j] = seqs[k][j]
    BY <1>1 DEF Begins
  <1>4. \A i, j \in 0 .. m : i <= j => at[i] <= at[j] BY <1>1, <1>2, BeginsGrow
  <1> HIDE DEF m, n, flat
  <1>5. \A k \in 0 .. m : at[k] \in Nat BY <1>1
  <1> DEFINE Reaches(k, l) == at[k - 1] < l /\ l <= at[k]
  <1>6. ASSUME NEW l \in 1 .. n PROVE \E k \in 1 .. m : Reaches(k, l)
    <2> DEFINE K == {k \in 0 .. m : l <= at[k]}
    <2>1. m \in K BY <1>2, <1>3
    <2>2. PICK k \in K : \A i \in K : k <= i
      <3>1. K \subseteq Nat OBVIOUS
      <3> HIDE DEF K
      <3> QED BY <2>1, <3>1, LeastNatural
    <2>3. k # 0 BY <1>3
    <2>4. k \in 1 .. m /\ k - 1 \in 0 .. m /\ ~ k <= k - 1 BY <1>2, <2>3
    <2>5. k - 1 \notin K
      <3> HIDE DEF K
      <3> QED BY <2>2, <2>4
    <2>6. ~ l <= at[k - 1] BY <2>4, <2>5
    <2>7. at[k - 1] < l BY <1>5, <2>4, <2>6
    <2> QED BY <2>4, <2>7
  <1>7. ASSUME NEW l \in 1 .. n, NEW i \in 1 .. m, NEW k \in 1 .. m, Reaches(i, l), Reaches(k, l)
        PROVE  ~ i < k
    <2> SUFFICES ASSUME i < k PROVE FALSE OBVIOUS
    <2>1. i \in 0 .. m /\ k - 1 \in 0 .. m /\ i <= k - 1 BY <1>2
    <2>2. at[i] <= at[k - 1] BY <1>4, <2>1
    <2>3. at[i] \in Nat /\ at[k - 1] \in Nat BY <1>5, <2>1
    <2> QED BY <1>7, <2>2, <2>3
  <1>8. ASSUME NEW l \in 1 .. n, NEW i \in 1 .. m, NEW k \in 1 .. m, Reaches(i, l), Reaches(k, l)
        PROVE  i = k
    <2>1. ~ i < k /\ ~ k < i BY <1>7, <1>8
    <2> QED BY <1>2, <2>1
  <1> DEFINE of == [l \in 1 .. n |-> CHOOSE k \in 1 .. m : Reaches(k, l)]
             off == [l \in 1 .. n |-> l - at[of[l] - 1]]
  <1>9. ASSUME NEW l \in 1 .. n PROVE of[l] \in 1 .. m /\ Reaches(of[l], l) BY <1>6
  <1>10. ASSUME NEW l \in 1 .. n
         PROVE  /\ off[l] = l - at[of[l] - 1] /\ off[l] \in 1 .. Len(seqs[of[l]])
                /\ l = at[of[l] - 1] + off[l]
    <2>1. off[l] = l - at[of[l] - 1] OBVIOUS
    <2> HIDE DEF of, off
    <2>2. of[l] - 1 \in 0 .. m /\ of[l] \in 0 .. m BY <1>2, <1>9
    <2>3. at[of[l] - 1] \in Nat /\ at[of[l]] \in Nat BY <1>5, <2>2
    <2>4. at[of[l]] = at[of[l] - 1] + Len(seqs[of[l]]) /\ Len(seqs[of[l]]) \in Nat BY <1>2, <1>3, <1>9
    <2>5. at[of[l] - 1] < l /\ l <= at[of[l]] BY <1>9
    <2> DEFINE a == at[of[l] - 1]
               b == at[of[l]]
               len == Len(seqs[of[l]])
               o == off[l]
    <2> HIDE DEF a, b, len, o
    <2>6. a \in Nat /\ b \in Nat /\ len \in Nat /\ b = a + len /\ a < l /\ l <= b /\ o = l - a
      BY <2>1, <2>3, <2>4, <2>5 DEF a, b, len, o
    <2>7. l \in Nat BY <1>2
    <2>8. o \in 1 .. len /\ l = a + o BY <2>6, <2>7
    <2> QED BY <2>1, <2>8 DEF a, len, o
  <1>11. of \in [1 .. n -> 1 .. m] BY <1>9
  <1> HIDE DEF of, off
  <1>12. off \in [1 .. n -> Nat]
    <2>1. \A l \in 1 .. n : off[l] \in Nat BY <1>10
    <2> QED BY <2>1 DEF off
  <1>13. ASSUME NEW l \in 1 .. n, off[l] # 1
         PROVE  l # 1 /\ of[l - 1] = of[l] /\ off[l - 1] = off[l] - 1
    <2>0. off[l] \in Nat /\ off[l] > 1 BY <1>10, <1>12, <1>13
    <2>1. at[of[l] - 1] \in Nat /\ at[of[l]] \in Nat
      <3>1. of[l] - 1 \in 0 .. m /\ of[l] \in 0 .. m BY <1>2, <1>9
      <3> QED BY <1>5, <3>1
    <2> DEFINE a == at[of[l] - 1]
               b == at[of[l]]
               o == off[l]
    <2>2. a \in Nat /\ b \in Nat /\ a < l /\ l <= b /\ o = l - a /\ o # 1 /\ o \in Nat /\ o > 1
      BY <1>9, <1>10, <1>13, <2>0, <2>1
    <2> HIDE DEF a, b, o
    <2>3. l # 1 /\ l - 1 \in 1 .. n /\ a < l - 1 /\ l - 1 <= b /\ l - 1 - a = o - 1
      BY <1>2, <2>2
    <2>4. Reaches(of[l], l - 1) BY <2>3 DEF a, b
    <2>5. of[l - 1] = of[l] BY <1>8, <1>9, <2>3, <2>4
    <2>6. off[l - 1] = l - 1 - a BY <1>10, <2>3, <2>5 DEF a
    <2> QED BY <2>3, <2>5, <2>6 DEF o
  <1>14. ASSUME NEW l \in 1 .. n PROVE flat[l] = seqs[of[l]][off[l]]
    <2>1. /\ of[l] \in 1 .. m /\ off[l] \in 1 .. Len(seqs[of[l]]) /\ l = at[of[l] - 1] + off[l]
      BY <1>9, <1>10
    <2>2. flat[at[of[l] - 1] + off[l]] = seqs[of[l]][off[l]] BY <1>3, <2>1
    <2> QED BY <2>1, <2>2
  <1> HIDE DEF Reaches
  <1>15. \A l \in 1 .. n :
           /\ off[l] \in 1 .. Len(seqs[of[l]]) /\ flat[l] = seqs[of[l]][off[l]]
           /\ off[l] # 1 => l # 1 /\ of[l - 1] = of[l] /\ off[l - 1] = off[l] - 1
    BY <1>10, <1>13, <1>14
  <1>16. Unflattened(flat, seqs, of, off) BY <1>11, <1>12, <1>15 DEF Unflattened, m, n
  <1> QED BY <1>16 DEF flat

=============================================================================
