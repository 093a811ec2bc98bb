--------------------------- MODULE NumberPlanProofs ---------------------------
(***************************************************************************)
(* Theorems about NumberPlan for every radix, every size of the company    *)
(* and every bound.                                                        *)
(*                                                                         *)
(* The helpers of the model are recursive functions and folds; what they   *)
(* return rests on RecursionLemmas.                                        *)
(***************************************************************************)
EXTENDS NumberPlan, RecursionLemmas, FiniteSetTheorems

-----------------------------------------------------------------------------
(* Numbers as text                                                         *)

LEMMA PowerIs ==
  /\ \A k \in Nat : Power[k] \in Nat \ {0}
  /\ \A k \in Nat : Power[k] = IF k = 0 THEN 1 ELSE Radix * Power[k - 1]
  <1> DEFINE T == Nat \ {0}
             F == [p \in T |-> Radix * p]
  <1>1. Radix \in Nat /\ Radix > 1 BY NumberAssumption
  <1>2. 1 \in T /\ F \in [T -> T] BY <1>1
  <1> HIDE DEF F
  <1>3. PICK g \in [Nat -> T] : Repeats(g, 1, F, Nat)
    <2> HIDE DEF T
    <2> QED BY <1>2, EndlessIteration
  <1>4. \A i \in Nat : g[i] = IF i = 0 THEN 1 ELSE Radix * g[i - 1]
    <2> SUFFICES ASSUME NEW i \in Nat PROVE g[i] = IF i = 0 THEN 1 ELSE Radix * g[i - 1]
      OBVIOUS
    <2>1. i # 0 => g[i - 1] \in T BY <1>3
    <2>2. i # 0 => F[g[i - 1]] = Radix * g[i - 1] BY <2>1 DEF F
    <2> QED BY <1>3, <2>2 DEF Repeats
  <1>5. g = [k \in Nat |-> IF k = 0 THEN 1 ELSE Radix * g[k - 1]] BY <1>3, <1>4
  <1>6. Power = [k \in Nat |-> IF k = 0 THEN 1 ELSE Radix * Power[k - 1]]
    BY <1>5 DEF Power
  <1>7. \A k \in Nat : Power[k] = IF k = 0 THEN 1 ELSE Radix * Power[k - 1] BY <1>6
  <1> DEFINE Bad == {k \in Nat : Power[k] \notin T}
  <1>8. ASSUME Bad # {} PROVE FALSE
    <2>1. PICK k \in Bad : \A j \in Bad : k <= j BY <1>8, LeastNatural
    <2>2. k # 0 BY <1>7, <2>1
    <2>3. k - 1 \in Nat /\ Power[k - 1] \in T BY <2>1, <2>2
    <2>4. Power[k] = Radix * Power[k - 1] BY <1>7, <2>2
    <2> QED BY <1>1, <2>1, <2>3, <2>4
  <1> QED BY <1>7, <1>8

\* More than n numbers have n + 1 digits.
LEMMA PowerGrows == \A n \in Nat : n < Power[n + 1]
  <1>1. Radix \in Nat /\ Radix > 1 BY NumberAssumption
  <1> DEFINE Bad == {n \in Nat : ~ n < Power[n + 1]}
  <1>2. ASSUME Bad # {} PROVE FALSE
    <2>1. PICK n \in Bad : \A j \in Bad : n <= j BY <1>2, LeastNatural
    <2>2. /\ Power[n + 1] = Radix * Power[n] /\ Power[n] \in Nat \ {0}
      BY PowerIs
    <2>3. n # 0 BY <1>1, <2>1, <2>2
    <2>4. n - 1 \in Nat /\ n - 1 < Power[n] BY <2>1, <2>3
    <2>5. ASSUME NEW p \in Nat \ {0}, NEW r \in Nat, r > 1 PROVE p + 1 <= r * p
      <3>1. 2 * p <= r * p BY <2>5
      <3> QED BY <3>1
    <2>6. Power[n] + 1 <= Power[n + 1] BY <1>1, <2>2, <2>5
    <2>7. n < Power[n] + 1 /\ Power[n + 1] \in Nat BY <2>2, <2>4, PowerIs
    <2> QED BY <2>1, <2>2, <2>6, <2>7
  <1> QED BY <1>2

LEMMA PowerRises == \A k, j \in Nat : Power[k] <= Power[k + j]
  <1>1. Radix \in Nat /\ Radix > 1 BY NumberAssumption
  <1> SUFFICES ASSUME NEW k \in Nat PROVE \A j \in Nat : Power[k] <= Power[k + j] OBVIOUS
  <1> DEFINE Bad == {j \in Nat : ~ Power[k] <= Power[k + j]}
  <1>2. ASSUME Bad # {} PROVE FALSE
    <2>1. PICK j \in Bad : \A i \in Bad : j <= i BY <1>2, LeastNatural
    <2>2. Power[k] \in Nat BY PowerIs
    <2>3. j # 0 BY <2>1, <2>2
    <2>4. j - 1 \in Nat /\ Power[k] <= Power[k + (j - 1)] BY <2>1, <2>3
    <2>5. /\ Power[k + j] = Radix * Power[k + (j - 1)]
          /\ Power[k + (j - 1)] \in Nat \ {0}
      <3>1. k + j \in Nat /\ k + j # 0 /\ k + j - 1 = k + (j - 1) /\ k + (j - 1) \in Nat
        BY <2>1, <2>3
      <3> QED BY <3>1, PowerIs
    <2>6. ASSUME NEW p \in Nat \ {0}, NEW r \in Nat, r > 1 PROVE p <= r * p
      <3>1. 2 * p <= r * p BY <2>6
      <3> QED BY <3>1
    <2>7. Power[k + (j - 1)] <= Power[k + j] BY <1>1, <2>5, <2>6
    <2>8. Power[k + j] \in Nat
      <3>1. k + j \in Nat OBVIOUS
      <3> QED BY <3>1, PowerIs
    <2> QED BY <2>1, <2>2, <2>4, <2>5, <2>7, <2>8
  <1> QED BY <1>2

\* A text has the digits of its number, and enough of them.
LEMMA TextIs ==
  ASSUME NEW n \in Nat, NEW w \in Nat
  PROVE  \E k \in Nat \ {0} : /\ n < Power[k]
                              /\ Text(n, w) = [i \in 1 .. k |-> (n \div Power[k - i]) % Radix]
  <1> DEFINE len == CHOOSE k \in 1 .. n + 1 : n < Power[k] /\ (k = 1 \/ n >= Power[k - 1])
             width == IF len < w THEN w ELSE len
             Fit == {k \in Nat \ {0} : n < Power[k]}
  <1>1. \E k \in 1 .. n + 1 : n < Power[k] /\ (k = 1 \/ n >= Power[k - 1])
    <2>1. n + 1 \in Fit BY PowerGrows
    <2>2. PICK k \in Fit : \A j \in Fit : k <= j BY <2>1, LeastNatural
    <2>3. k \in 1 .. n + 1 BY <2>1, <2>2
    <2>4. CASE k # 1
      <3>1. k - 1 \in Nat \ {0} /\ k - 1 \notin Fit BY <2>2, <2>4
      <3>2. Power[k - 1] \in Nat BY <3>1, PowerIs
      <3> QED BY <2>2, <2>3, <3>1, <3>2
    <2> QED BY <2>2, <2>3, <2>4
  <1>2. len \in 1 .. n + 1 /\ n < Power[len] BY <1>1
  <1> HIDE DEF len
  <1>3. width \in Nat \ {0} BY <1>2
  <1>4. n < Power[width]
    <2>1. CASE len < w
      <3>1. len \in Nat /\ w - len \in Nat /\ len + (w - len) = w /\ width = w BY <1>2, <2>1
      <3>2. Power[len] <= Power[len + (w - len)] BY <3>1, PowerRises
      <3>3. Power[len] \in Nat /\ Power[w] \in Nat BY <3>1, PowerIs
      <3> QED BY <1>2, <3>1, <3>2, <3>3
    <2> QED BY <1>2, <2>1
  <1>5. Text(n, w) = [i \in 1 .. width |-> (n \div Power[width - i]) % Radix] BY DEF Text, len
  <1> QED BY <1>3, <1>4, <1>5

\* A text is a number of digits, and at least one.
LEMMA TextType ==
  ASSUME NEW n \in Nat, NEW w \in Nat
  PROVE  Text(n, w) \in Number
  <1>1. PICK k \in Nat \ {0} : Text(n, w) = [i \in 1 .. k |-> (n \div Power[k - i]) % Radix]
    BY TextIs
  <1>2. ASSUME NEW i \in 1 .. k PROVE (n \div Power[k - i]) % Radix \in 0 .. Radix - 1
    <2>1. k - i \in Nat OBVIOUS
    <2>2. Power[k - i] \in Nat \ {0} BY <2>1, PowerIs
    <2>3. Radix \in Nat \ {0} BY NumberAssumption
    <2> QED BY <2>2, <2>3
  <1>3. Text(n, w) \in [1 .. k -> 0 .. Radix - 1] BY <1>1, <1>2
  <1>4. Text(n, w) \in Seq(0 .. Radix - 1)
    <2>1. ASSUME NEW f \in [1 .. k -> 0 .. Radix - 1] PROVE f \in Seq(0 .. Radix - 1) BY SeqDef
    <2> QED BY <1>3, <2>1
  <1>5. 1 \in DOMAIN Text(n, w) BY <1>3
  <1> QED BY <1>4, <1>5 DEF Number, NoNumber

\* Division and its rest.
LEMMA Divided ==
  ASSUME NEW n \in Nat, NEW d \in Nat \ {0}
  PROVE  n \div d \in Nat /\ n % d \in 0 .. d - 1 /\ n = d * (n \div d) + (n % d)
  <1>1. n \div d \in Nat OBVIOUS
  <1>2. n % d \in 0 .. d - 1 OBVIOUS
  <1>3. n = d * (n \div d) + (n % d) OBVIOUS
  <1> QED BY <1>1, <1>2, <1>3

\* There is one quotient.
LEMMA Quotient ==
  ASSUME NEW n \in Nat, NEW d \in Nat \ {0}, NEW q \in Nat, NEW r \in 0 .. d - 1, n = d * q + r
  PROVE  q = n \div d
  OBVIOUS

\* The rests of two divisions after each other.
LEMMA Remainder ==
  ASSUME NEW p \in Nat \ {0}, NEW r \in Nat \ {0}, NEW c \in 0 .. r - 1, NEW t \in 0 .. p - 1
  PROVE  p * c + t \in 0 .. r * p - 1
  <1>1. p * c \in Nat OBVIOUS
  <1>2. p * (r - 1) \in Nat /\ p * (r - 1) = r * p - p OBVIOUS
  <1>3. p * c <= p * (r - 1)
    <2>1. c <= r - 1 OBVIOUS
    <2>2. \A k \in Nat : p * c <= p * (c + k)
      <3> SUFFICES ASSUME NEW k \in Nat PROVE p * c <= p * (c + k) OBVIOUS
      <3>1. p * k \in Nat /\ p * (c + k) = p * c + p * k OBVIOUS
      <3> QED BY <1>1, <3>1
    <2>3. r - 1 - c \in Nat /\ c + (r - 1 - c) = r - 1 OBVIOUS
    <2> QED BY <2>2, <2>3
  <1>4. r * p \in Nat OBVIOUS
  <1> QED BY <1>1, <1>2, <1>3, <1>4

\* Two divisions after each other are one.
LEMMA Nested ==
  ASSUME NEW n \in Nat, NEW p \in Nat \ {0}, NEW r \in Nat \ {0}
  PROVE  (n \div p) \div r = n \div (r * p)
  <1> DEFINE a == n \div p
             t == n % p
             b == a \div r
             c == a % r
             d == r * p
  <1>1. a \in Nat /\ t \in 0 .. p - 1 /\ n = p * a + t BY Divided
  <1>2. b \in Nat /\ c \in 0 .. r - 1 /\ a = r * b + c BY <1>1, Divided
  <1>3. d \in Nat \ {0} OBVIOUS
  <1> HIDE DEF a, b, c, t
  <1>4. p * c + t \in 0 .. d - 1 BY <1>1, <1>2, Remainder
  <1>5. p * a = d * b + p * c
    <2>1. \A x \in Nat, y \in Nat : p * (x + y) = p * x + p * y OBVIOUS
    <2>2. \A x \in Nat : p * (r * x) = (r * p) * x OBVIOUS
    <2>3. r * b \in Nat /\ c \in Nat BY <1>2
    <2> QED BY <1>2, <2>1, <2>2, <2>3
  <1>6. p * a \in Nat /\ p * c \in Nat /\ t \in Nat /\ d * b \in Nat BY <1>1, <1>2, <1>3
  <1> HIDE DEF d
  <1>7. n = d * b + (p * c + t) BY <1>1, <1>5, <1>6
  <1>8. b = n \div d BY <1>2, <1>3, <1>4, <1>7, Quotient
  <1> QED BY <1>8 DEF a, b, d

\* What lies above the place r * p and the digit there give what lies above p.
LEMMA OneDigit ==
  ASSUME NEW n \in Nat, NEW m \in Nat, NEW p \in Nat \ {0}, NEW r \in Nat \ {0},
         n \div (r * p) = m \div (r * p), (n \div p) % r = (m \div p) % r
  PROVE  n \div p = m \div p
  <1>1. n \div p \in Nat /\ m \div p \in Nat BY Divided
  <1>2. (n \div p) \div r = (m \div p) \div r BY Nested
  <1>3. n \div p = r * ((n \div p) \div r) + ((n \div p) % r) BY <1>1, Divided
  <1>4. m \div p = r * ((m \div p) \div r) + ((m \div p) % r) BY <1>1, Divided
  <1> QED BY <1>2, <1>3, <1>4

\* Different numbers are written differently.
LEMMA TextDiffers ==
  ASSUME NEW n \in Nat, NEW m \in Nat, NEW w \in Nat, Text(n, w) = Text(m, w)
  PROVE  n = m
  <1>1. PICK k \in Nat \ {0} : /\ n < Power[k]
                               /\ Text(n, w) = [i \in 1 .. k |-> (n \div Power[k - i]) % Radix]
    BY TextIs
  <1>2. PICK l \in Nat \ {0} : /\ m < Power[l]
                               /\ Text(m, w) = [i \in 1 .. l |-> (m \div Power[l - i]) % Radix]
    BY TextIs
  <1>3. k = l
    <2>1. 1 .. k = 1 .. l BY <1>1, <1>2
    <2>2. k \in 1 .. k /\ l \in 1 .. l OBVIOUS
    <2>3. k \in 1 .. l /\ l \in 1 .. k BY <2>1, <2>2
    <2> QED BY <2>3
  <1>4. ASSUME NEW i \in 1 .. k
        PROVE  (n \div Power[k - i]) % Radix = (m \div Power[k - i]) % Radix
    <2>1. Text(n, w)[i] = (n \div Power[k - i]) % Radix BY <1>1
    <2>2. Text(m, w)[i] = (m \div Power[k - i]) % Radix BY <1>2, <1>3
    <2> QED BY <2>1, <2>2
  <1> DEFINE Same == {i \in 0 .. k : n \div Power[k - i] = m \div Power[k - i]}
  <1>5. 0 \in Same
    <2> DEFINE p == Power[k]
    <2>1. p \in Nat \ {0} /\ n < p /\ m < p BY <1>1, <1>2, <1>3, PowerIs
    <2> HIDE DEF p
    <2>2. n \in 0 .. p - 1 /\ m \in 0 .. p - 1 /\ n = p * 0 + n /\ m = p * 0 + m BY <2>1
    <2>3. 0 = n \div p /\ 0 = m \div p BY <2>1, <2>2, Quotient
    <2>4. k - 0 = k /\ 0 \in 0 .. k OBVIOUS
    <2>5. n \div Power[k - 0] = m \div Power[k - 0] BY <2>3, <2>4 DEF p
    <2> QED BY <2>4, <2>5
  <1>6. ASSUME NEW i \in 1 .. k, i - 1 \in Same PROVE i \in Same
    <2>1. k - i \in Nat /\ k - (i - 1) \in Nat /\ k - (i - 1) # 0 /\ k - (i - 1) - 1 = k - i OBVIOUS
    <2>2. Power[k - (i - 1)] = Radix * Power[k - i] /\ Power[k - i] \in Nat \ {0}
      BY <2>1, PowerIs
    <2>3. n \div (Radix * Power[k - i]) = m \div (Radix * Power[k - i]) BY <1>6, <2>2
    <2>4. Radix \in Nat \ {0} BY NumberAssumption
    <2>5. n \div Power[k - i] = m \div Power[k - i] BY <1>4, <2>2, <2>3, <2>4, OneDigit
    <2>6. i \in 0 .. k OBVIOUS
    <2> QED BY <2>5, <2>6
  <1>7. k \in Same
    <2> HIDE DEF Same
    <2>1. \A i \in 0 .. k : i \in Same BY <1>5, <1>6, UpTo
    <2>2. k \in 0 .. k OBVIOUS
    <2> QED BY <2>1, <2>2
  <1>8. k - k = 0 /\ Power[0] = 1 BY PowerIs
  <1>9. n \div 1 = m \div 1 BY <1>7, <1>8
  <1>10. ASSUME NEW x \in Nat PROVE x = x \div 1
    <2>1. 1 \in Nat \ {0} /\ 0 \in 0 .. 1 - 1 /\ x = 1 * x + 0 OBVIOUS
    <2> QED BY <2>1, Quotient
  <1> QED BY <1>9, <1>10

-----------------------------------------------------------------------------
(* The order of numbers                                                    *)

\* The first digit in which a and b differ, or the end of a.
Below(a, b) ==
  \E i \in 1 .. Len(b) :
    /\ \A j \in 1 .. i - 1 : j <= Len(a) /\ a[j] = b[j]
    /\ i = Len(a) + 1 \/ (i <= Len(a) /\ a[i] < b[i])

LEMMA NumberFacts ==
  ASSUME NEW a \in Number
  PROVE  /\ Len(a) \in Nat /\ DOMAIN a = 1 .. Len(a)
         /\ \A i \in 1 .. Len(a) : a[i] \in Nat
  <1>1. a \in Seq(0 .. Radix - 1) /\ Radix \in Nat BY NumberAssumption DEF Number
  <1>2. /\ Len(a) \in Nat /\ DOMAIN a = 1 .. Len(a)
        /\ a \in [1 .. Len(a) -> 0 .. Radix - 1]
    BY <1>1, LenProperties
  <1> QED BY <1>1, <1>2

LEMMA BeforeIsBelow ==
  ASSUME NEW a \in Number, NEW b \in Number, Before(a, b)
  PROVE  Below(a, b)
  <1>1. /\ Len(a) \in Nat /\ DOMAIN a = 1 .. Len(a) /\ Len(b) \in Nat /\ DOMAIN b = 1 .. Len(b)
        /\ a \in Seq(0 .. Radix - 1) /\ b \in Seq(0 .. Radix - 1)
    BY NumberFacts DEF Number
  <1>2. CASE IsStrictPrefix(a, b)
    <2>1. Len(a) <= Len(b) /\ SubSeq(a, 1, Len(a)) = SubSeq(b, 1, Len(a)) /\ a # b
      BY <1>2 DEF IsStrictPrefix, IsPrefix
    <2>2. ASSUME NEW j \in 1 .. Len(a) PROVE a[j] = b[j]
      <3>1. SubSeq(a, 1, Len(a))[j] = a[j] BY <1>1
      <3>2. SubSeq(b, 1, Len(a))[j] = b[j] BY <1>1, <2>1
      <3> QED BY <2>1, <3>1, <3>2
    <2>3. Len(a) # Len(b) BY <1>1, <2>1, <2>2, SeqEqual
    <2>4. Len(a) + 1 \in 1 .. Len(b)
      <3>1. ASSUME NEW m \in Nat, NEW n \in Nat, m <= n, m # n PROVE m + 1 \in 1 .. n BY <3>1
      <3> QED BY <1>1, <2>1, <2>3, <3>1
    <2> QED BY <1>1, <2>2, <2>4 DEF Below
  <1>3. CASE \E i \in DOMAIN a \intersect DOMAIN b :
               a[i] < b[i] /\ \A j \in 1 .. i - 1 : a[j] = b[j]
    BY <1>1, <1>3 DEF Below
  <1> QED BY <1>2, <1>3 DEF Before

LEMMA BelowIsTransitive ==
  ASSUME NEW a \in Number, NEW b \in Number, NEW c \in Number, Below(a, b), Below(b, c)
  PROVE  Below(a, c)
  <1>1. /\ Len(a) \in Nat /\ Len(b) \in Nat /\ Len(c) \in Nat
        /\ \A i \in 1 .. Len(a) : a[i] \in Nat
        /\ \A i \in 1 .. Len(b) : b[i] \in Nat
        /\ \A i \in 1 .. Len(c) : c[i] \in Nat
    BY NumberFacts
  <1>2. PICK i \in 1 .. Len(b) :
          /\ \A j \in 1 .. i - 1 : j <= Len(a) /\ a[j] = b[j]
          /\ i = Len(a) + 1 \/ (i <= Len(a) /\ a[i] < b[i])
    BY DEF Below
  <1>3. PICK k \in 1 .. Len(c) :
          /\ \A j \in 1 .. k - 1 : j <= Len(b) /\ b[j] = c[j]
          /\ k = Len(b) + 1 \/ (k <= Len(b) /\ b[k] < c[k])
    BY DEF Below
  <1>4. CASE i < k
    <2>1. i \in 1 .. Len(c) /\ b[i] = c[i] BY <1>1, <1>2, <1>3, <1>4
    <2>2. \A j \in 1 .. i - 1 : j <= Len(a) /\ a[j] = c[j] BY <1>1, <1>2, <1>3, <1>4
    <2> QED BY <1>2, <2>1, <2>2 DEF Below
  <1>5. CASE k <= i
    <2>1. k <= Len(b) /\ b[k] < c[k] BY <1>1, <1>2, <1>3, <1>5
    <2>2. \A j \in 1 .. k - 1 : j <= Len(a) /\ a[j] = c[j] BY <1>1, <1>2, <1>3, <1>5
    <2>3. CASE k = i
      <3>1. k = Len(a) + 1 \/ (k <= Len(a) /\ a[k] < c[k]) BY <1>1, <1>2, <2>1, <2>3
      <3> QED BY <2>2, <3>1 DEF Below
    <2>4. CASE k < i
      <3>1. k <= Len(a) /\ a[k] = b[k] BY <1>2, <2>4
      <3> QED BY <2>1, <2>2, <3>1 DEF Below
    <2> QED BY <1>5, <2>3, <2>4
  <1> QED BY <1>4, <1>5

LEMMA NothingBelowItself == ASSUME NEW a \in Number PROVE ~ Below(a, a)
  BY NumberFacts DEF Below

\* Of finitely many numbers there is one with none before it.
LEMMA FirstExists ==
  ASSUME NEW m \in Nat, NEW num \in [1 .. m -> Number], NEW A, A \subseteq 1 .. m, A # {}
  PROVE  \E x \in A : \A y \in A : ~ Before(num[y], num[x])
  <1> DEFINE First(B) == \E x \in B : \A y \in B : ~ Below(num[y], num[x])
             Bad == {k \in Nat : k <= m /\ \E B \in SUBSET (1 .. k) : B # {} /\ ~ First(B)}
  <1>1. ASSUME Bad # {} PROVE FALSE
    <2>1. PICK k \in Bad : \A j \in Bad : k <= j BY <1>1, LeastNatural
    <2>2. k \in Nat /\ k <= m OBVIOUS
    <2>3. PICK B \in SUBSET (1 .. k) : B # {} /\ ~ First(B) OBVIOUS
    <2>4. k # 0
      <3>1. ASSUME k = 0 PROVE 1 .. k = {} BY <3>1
      <3> QED BY <2>3, <3>1
    <2>5. k - 1 \in Nat /\ k - 1 \notin Bad
      <3>1. k - 1 \in Nat /\ ~ k <= k - 1 BY <2>2, <2>4
      <3> HIDE DEF Bad
      <3> QED BY <2>1, <3>1
    <2>6. B \subseteq 1 .. m BY <2>2, <2>3
    <2>7. \A x \in B : num[x] \in Number BY <2>6
    <2>8. k \in B
      <3>1. ASSUME k \notin B PROVE B \in SUBSET (1 .. k - 1) BY <2>2, <2>3, <3>1
      <3> QED BY <2>2, <2>3, <2>5, <3>1
    <2> HIDE DEF First
    <2>9. CASE B = {k}
      <3>1. \A y \in B : ~ Below(num[y], num[k]) BY <2>7, <2>9, NothingBelowItself
      <3> QED BY <2>3, <2>8, <3>1 DEF First
    <2>10. CASE B # {k}
      <3>1. B \ {k} # {} /\ B \ {k} \in SUBSET (1 .. k - 1) BY <2>2, <2>3, <2>8, <2>10
      <3>2. First(B \ {k}) BY <2>2, <2>5, <3>1
      <3>3. PICK x \in B \ {k} : \A y \in B \ {k} : ~ Below(num[y], num[x])
        BY <3>2 DEF First
      <3>4. CASE Below(num[k], num[x])
        <4>1. ASSUME NEW y \in B, Below(num[y], num[k]) PROVE FALSE
          <5>1. y # k BY <2>7, <4>1, NothingBelowItself
          <5>2. Below(num[y], num[x]) BY <2>7, <2>8, <3>3, <3>4, <4>1, BelowIsTransitive
          <5> QED BY <3>3, <5>1, <5>2
        <4> QED BY <2>3, <2>8, <4>1 DEF First
      <3>5. CASE ~ Below(num[k], num[x])
        <4>1. \A y \in B : ~ Below(num[y], num[x]) BY <3>3, <3>5
        <4> QED BY <2>3, <3>3, <4>1 DEF First
      <3> QED BY <3>4, <3>5
    <2> QED BY <2>9, <2>10
  <1>2. m \notin Bad BY <1>1
  <1>3. First(A) BY <1>2
  <1>4. PICK x \in A : \A y \in A : ~ Below(num[y], num[x]) BY <1>3
  <1>5. \A y \in A : num[y] \in Number OBVIOUS
  <1> QED BY <1>4, <1>5, BeforeIsBelow

-----------------------------------------------------------------------------
(* What a transaction works on                                             *)

Person == [ext : Nat, parent : Nat, user : Users \union {0}, active : BOOLEAN]

States == [exts : Seq(Extension), svcs : Seq(Service), emps : Seq(Person),
           link : [Users -> Nat], error : {"none", "taken", "full"}]

\* Links lead to extensions there are, and managers are older records.
Linked(s) ==
  /\ \A u \in Users : s.link[u] <= Len(s.exts)
  /\ \A e \in DOMAIN s.emps : s.emps[e].ext <= Len(s.exts) /\ s.emps[e].parent < e

Sound == {s \in States : Linked(s)}

LEMMA SoundFacts ==
  ASSUME NEW s \in Sound
  PROVE  /\ s.exts \in Seq(Extension) /\ Len(s.exts) \in Nat /\ DOMAIN s.exts = 1 .. Len(s.exts)
         /\ s.svcs \in Seq(Service) /\ Len(s.svcs) \in Nat /\ DOMAIN s.svcs = 1 .. Len(s.svcs)
         /\ s.emps \in Seq(Person) /\ Len(s.emps) \in Nat /\ DOMAIN s.emps = 1 .. Len(s.emps)
         /\ s.link \in [Users -> Nat]
         /\ \A x \in DOMAIN s.exts : s.exts[x] \in Extension
         /\ \A v \in DOMAIN s.svcs : s.svcs[v] \in Service
         /\ \A e \in DOMAIN s.emps : s.emps[e] \in Person
         /\ s.error \in {"none", "taken", "full"} /\ Linked(s)
  <1>1. s \in States /\ Linked(s) BY DEF Sound
  <1>2. /\ s.exts \in Seq(Extension) /\ s.svcs \in Seq(Service) /\ s.emps \in Seq(Person)
        /\ s.link \in [Users -> Nat] /\ s.error \in {"none", "taken", "full"}
    BY <1>1 DEF States
  <1>3. /\ Len(s.exts) \in Nat /\ DOMAIN s.exts = 1 .. Len(s.exts)
        /\ Len(s.svcs) \in Nat /\ DOMAIN s.svcs = 1 .. Len(s.svcs)
        /\ Len(s.emps) \in Nat /\ DOMAIN s.emps = 1 .. Len(s.emps)
    BY <1>2, LenProperties
  <1>4. /\ \A x \in 1 .. Len(s.exts) : s.exts[x] \in Extension
        /\ \A v \in 1 .. Len(s.svcs) : s.svcs[v] \in Service
        /\ \A e \in 1 .. Len(s.emps) : s.emps[e] \in Person
    BY <1>2, ElementOfSeq
  <1> QED BY <1>1, <1>2, <1>3, <1>4

LEMMA LowestFreeIs ==
  ASSUME NEW s, NEW C, C \subseteq Nat, NEW w \in Nat
  PROVE  LET n == LowestFree(s, C, w) IN n = NoNumber \/ (n \in Number /\ n \notin Used(s))
  <1> DEFINE Free == {n \in C : Text(n, w) \notin Used(s)}
  <1>1. CASE Free = {} BY <1>1 DEF LowestFree
  <1>2. CASE Free # {}
    <2>1. PICK n \in Free : \A m \in Free : n <= m BY <1>2, LeastNatural
    <2>2. \A m \in C : m < n => Text(m, w) \in Used(s)
      <3> SUFFICES ASSUME NEW m \in C, m < n, m \in Free PROVE FALSE OBVIOUS
      <3>1. n <= m /\ n \in Nat /\ m \in Nat BY <2>1
      <3> QED BY <3>1
    <2>3. \E k \in C : Text(k, w) \notin Used(s) /\ \A m \in C : m < k => Text(m, w) \in Used(s)
      BY <2>1, <2>2
    <2> DEFINE k == CHOOSE k \in C : Text(k, w) \notin Used(s)
                                     /\ \A m \in C : m < k => Text(m, w) \in Used(s)
    <2>4. k \in C /\ Text(k, w) \notin Used(s) BY <2>3
    <2>5. LowestFree(s, C, w) = Text(k, w) BY <1>2 DEF LowestFree
    <2> HIDE DEF k
    <2>6. Text(k, w) \in Number BY <2>4, TextType
    <2> QED BY <2>4, <2>5, <2>6
  <1> QED BY <1>1, <1>2

LEMMA WidthType == ASSUME NEW s PROVE Width(s) \in Nat
  BY NumberAssumption DEF Width

\* The allocator proposes only numbers that no record holds, archived or not.
LEMMA NextUnusedIs ==
  ASSUME NEW s
  PROVE  NextUnused(s) = NoNumber \/ (NextUnused(s) \in Number /\ NextUnused(s) \notin Used(s))
  <1>1. Width(s) \in Nat BY WidthType
  <1>2. 1 .. Power[Width(s)] - 1 \subseteq Nat BY <1>1, PowerIs
  <1> QED BY <1>1, <1>2, LowestFreeIs DEF NextUnused

LEMMA NextServiceIs ==
  ASSUME NEW s
  PROVE  NextService(s) = NoNumber \/ NextService(s) \in Number
  <1> DEFINE C == Prefix * Power[Width(s)] .. (Prefix + 1) * Power[Width(s)] - 1
  <1>1. Power[Width(s)] \in Nat /\ Prefix \in Nat BY WidthType, PowerIs, NumberAssumption
  <1>2. \A p, q \in Nat : p * q \in Nat OBVIOUS
  <1>3. Prefix * Power[Width(s)] \in Nat BY <1>1, <1>2
  <1>4. C \subseteq Nat BY <1>3
  <1>5. NextService(s) = LowestFree(s, C, 1) BY DEF NextService
  <1> HIDE DEF C
  <1> QED BY <1>4, <1>5, LowestFreeIs

LEMMA NoNumberIsNone == NoNumber \notin Number
  BY DEF Number

-----------------------------------------------------------------------------
(* What writing and creating an extension do                               *)

\* The extensions of t have the numbers of those of s, and the same are archived.
SameNumbers(s, t) ==
  /\ Len(t.exts) = Len(s.exts)
  /\ \A x \in DOMAIN s.exts : t.exts[x].number = s.exts[x].number /\ t.exts[x].active = s.exts[x].active

LEMMA ExtensionReplaced ==
  ASSUME NEW q \in Seq(Extension), NEW x \in 1 .. Len(q), NEW r \in Extension
  PROVE  /\ [q EXCEPT ![x] = r] \in Seq(Extension)
         /\ Len([q EXCEPT ![x] = r]) = Len(q)
         /\ \A y \in 1 .. Len(q) : [q EXCEPT ![x] = r][y] = IF y = x THEN r ELSE q[y]
  BY ExceptSeq

LEMMA UserWrittenIs ==
  ASSUME NEW s \in Sound, NEW x \in DOMAIN s.exts, NEW u \in Users \union {0}
  PROVE  LET t == UserWritten(s, x, u)
         IN  /\ t \in Sound /\ SameNumbers(s, t)
             /\ t.exts = [s.exts EXCEPT ![x].user = u]
             /\ t.svcs = s.svcs /\ t.emps = s.emps /\ t.error = s.error
  <1> DEFINE t == UserWritten(s, x, u)
             r == [s.exts[x] EXCEPT !.user = u]
  <1>1. /\ s \in States /\ s.exts \in Seq(Extension) /\ x \in 1 .. Len(s.exts) /\ x \in Nat
        /\ s.exts[x] \in Extension /\ Len(s.exts) \in Nat /\ s.link \in [Users -> Nat]
        /\ DOMAIN s.exts = 1 .. Len(s.exts) /\ Linked(s)
    BY SoundFacts DEF Sound
  <1>2. r \in Extension /\ r.number = s.exts[x].number /\ r.active = s.exts[x].active /\ r.user = u
    BY <1>1 DEF Extension
  <1>3. /\ t.exts = [s.exts EXCEPT ![x].user = u] /\ t.svcs = s.svcs /\ t.emps = s.emps
        /\ t.error = s.error
    BY <1>1 DEF UserWritten, Synced, States
  <1>4. t.exts = [s.exts EXCEPT ![x] = r] BY <1>3
  <1> HIDE DEF r
  <1>5. /\ t.exts \in Seq(Extension) /\ Len(t.exts) = Len(s.exts)
        /\ \A y \in 1 .. Len(s.exts) : t.exts[y] = IF y = x THEN r ELSE s.exts[y]
    BY <1>1, <1>2, <1>4, ExtensionReplaced
  <1>6. t.link \in [Users -> Nat] /\ \A w \in Users : t.link[w] \in {s.link[w], 0, x}
    BY <1>1 DEF UserWritten, Synced, States
  <1>7. t \in States BY <1>1, <1>3, <1>5, <1>6 DEF UserWritten, Synced, States
  <1>8. Linked(t) BY <1>1, <1>3, <1>5, <1>6 DEF Linked
  <1>9. SameNumbers(s, t) BY <1>1, <1>2, <1>5 DEF SameNumbers
  <1> QED BY <1>3, <1>7, <1>8, <1>9 DEF Sound

\* t has one extension more than s, with a number.
Adds(s, t, number) ==
  /\ Len(t.exts) = Len(s.exts) + 1
  /\ \A x \in DOMAIN s.exts : t.exts[x] = s.exts[x]
  /\ t.exts[Len(s.exts) + 1].number = number

LEMMA CreatedIs ==
  ASSUME NEW s \in Sound, NEW number \in Number, NEW u \in Users \union {0}, NEW checked \in BOOLEAN,
         ~ Refuses(s, number, 0), checked => ~ Collides(s, number, 0, 0)
  PROVE  LET t == Created(s, number, u, checked)
         IN  /\ t \in Sound /\ Adds(s, t, number)
             /\ t.svcs = s.svcs /\ t.emps = s.emps /\ t.error = s.error
  <1> DEFINE t == Created(s, number, u, checked)
             r == [number |-> number, active |-> TRUE, user |-> u]
  <1>1. /\ s \in States /\ s.exts \in Seq(Extension) /\ Len(s.exts) \in Nat
        /\ s.link \in [Users -> Nat] /\ DOMAIN s.exts = 1 .. Len(s.exts) /\ Linked(s)
        /\ DOMAIN s.emps = 1 .. Len(s.emps) /\ Len(s.emps) \in Nat
        /\ \A e \in DOMAIN s.emps : s.emps[e] \in Person
    BY SoundFacts DEF Sound
  <1>2. r \in Extension BY DEF Extension
  <1>3. t = [s EXCEPT !.exts = Append(@, r),
                      !.link = [w \in Users |-> IF w = u THEN Len(s.exts) + 1 ELSE @[w]]]
    BY DEF Created
  <1> HIDE DEF r
  <1>4. /\ t.exts = Append(s.exts, r) /\ t.svcs = s.svcs /\ t.emps = s.emps /\ t.error = s.error
        /\ t.link = [w \in Users |-> IF w = u THEN Len(s.exts) + 1 ELSE s.link[w]]
    BY <1>1, <1>3 DEF States
  <1>5. /\ t.exts \in Seq(Extension) /\ Len(t.exts) = Len(s.exts) + 1
        /\ \A y \in 1 .. Len(s.exts) : t.exts[y] = s.exts[y]
        /\ t.exts[Len(s.exts) + 1] = r
    BY <1>1, <1>2, <1>4, AppendProperties
  <1>6. t.link \in [Users -> Nat] BY <1>1, <1>4
  <1>7. t \in States BY <1>1, <1>3, <1>4, <1>5, <1>6 DEF States
  <1>8. Linked(t)
    <2>1. \A w \in Users : t.link[w] <= Len(t.exts) BY <1>1, <1>4, <1>5 DEF Linked
    <2>2. \A e \in DOMAIN t.emps : t.emps[e].ext <= Len(t.exts) /\ t.emps[e].parent < e
      BY <1>1, <1>4, <1>5 DEF Linked, Person
    <2> QED BY <2>1, <2>2 DEF Linked
  <1>9. r.number = number BY DEF r
  <1> QED BY <1>1, <1>4, <1>5, <1>7, <1>8, <1>9 DEF Sound, Adds

-----------------------------------------------------------------------------
(* _assign_next_free                                                       *)

LEMMA ExtensionGiven ==
  ASSUME NEW s \in Sound, NEW e \in DOMAIN s.emps, NEW x \in 0 .. Len(s.exts)
  PROVE  LET t == [s EXCEPT !.emps[e].ext = x]
         IN  /\ t \in Sound /\ Len(t.emps) = Len(s.emps)
             /\ t.exts = s.exts /\ t.svcs = s.svcs /\ t.error = s.error
  <1> DEFINE t == [s EXCEPT !.emps[e].ext = x]
             p == [s.emps[e] EXCEPT !.ext = x]
  <1>1. /\ s \in States /\ Linked(s) /\ Len(s.exts) \in Nat
        /\ s.emps \in Seq(Person) /\ e \in 1 .. Len(s.emps) /\ s.emps[e] \in Person
        /\ DOMAIN s.emps = 1 .. Len(s.emps)
    BY SoundFacts DEF Sound
  <1>2. p \in Person /\ p.ext = x /\ p.parent = s.emps[e].parent
    <2>1. x \in Nat BY <1>1
    <2>2. ASSUME NEW q \in Person PROVE [q EXCEPT !.ext = x] \in Person
                                      /\ [q EXCEPT !.ext = x].ext = x
                                      /\ [q EXCEPT !.ext = x].parent = q.parent
      BY <2>1 DEF Person
    <2> QED BY <1>1, <2>2
  <1>3. /\ t.emps = [s.emps EXCEPT ![e] = p] /\ t.exts = s.exts /\ t.svcs = s.svcs
        /\ t.error = s.error /\ t.link = s.link
    BY <1>1 DEF States
  <1> HIDE DEF p
  <1>4. /\ t.emps \in Seq(Person) /\ Len(t.emps) = Len(s.emps)
        /\ \A f \in 1 .. Len(s.emps) : t.emps[f] = IF f = e THEN p ELSE s.emps[f]
    BY <1>1, <1>2, <1>3, ExceptSeq
  <1>5. t \in States BY <1>1, <1>3, <1>4 DEF States
  <1>6. DOMAIN t.emps = 1 .. Len(s.emps) BY <1>4, LenProperties
  <1>7. Linked(t) BY <1>1, <1>2, <1>3, <1>4, <1>6 DEF Linked
  <1> QED BY <1>3, <1>4, <1>5, <1>7 DEF Sound

\* A number that nobody holds is neither refused nor does it collide.
LEMMA UnusedIsAccepted ==
  ASSUME NEW s, NEW number, number \notin Used(s)
  PROVE  \A x, v : ~ Refuses(s, number, x) /\ ~ Collides(s, number, x, v)
  BY DEF Used, Refuses, Collides

LEMMA FirstIs ==
  ASSUME NEW s \in Sound, FreeExisting(s) # {}
  PROVE  (CHOOSE x \in FreeExisting(s) : \A y \in FreeExisting(s) :
            ~ Before(s.exts[y].number, s.exts[x].number)) \in DOMAIN s.exts
  <1> DEFINE num == [x \in 1 .. Len(s.exts) |-> s.exts[x].number]
             free == FreeExisting(s)
  <1>1. /\ DOMAIN s.exts = 1 .. Len(s.exts) /\ Len(s.exts) \in Nat
        /\ \A x \in DOMAIN s.exts : s.exts[x].number \in Number
    BY SoundFacts DEF Extension
  <1>2. num \in [1 .. Len(s.exts) -> Number] BY <1>1
  <1>3. free \subseteq 1 .. Len(s.exts) BY <1>1 DEF FreeExisting
  <1>4. \A x \in free : num[x] = s.exts[x].number BY <1>3
  <1> HIDE DEF num, free
  <1>5. \E x \in free : \A y \in free : ~ Before(num[y], num[x])
    BY <1>1, <1>2, <1>3, FirstExists DEF free
  <1>6. \E x \in free : \A y \in free : ~ Before(s.exts[y].number, s.exts[x].number)
    BY <1>4, <1>5
  <1>7. (CHOOSE x \in free : \A y \in free : ~ Before(s.exts[y].number, s.exts[x].number)) \in free
    BY <1>6
  <1> QED BY <1>1, <1>3, <1>7 DEF free

\* The numbers of t are those of s, or there is one more that was not used.
NewIsUnused(s, t) ==
  SameNumbers(s, t) \/ \E n \in Number : n \notin Used(s) /\ Adds(s, t, n)

LEMMA AssignedIs ==
  ASSUME NEW s \in Sound, s.error = "none", NEW e \in DOMAIN s.emps
  PROVE  LET t == Assigned(s, e)
         IN  /\ t \in Sound /\ t.error \in {"none", "full"}
             /\ Len(t.emps) = Len(s.emps) /\ t.svcs = s.svcs
             /\ t.error = "none" => NewIsUnused(s, t)
  <1> DEFINE t == Assigned(s, e)
             u == s.emps[e].user
             free == FreeExisting(s)
             first == CHOOSE x \in free : \A y \in free :
                        ~ Before(s.exts[y].number, s.exts[x].number)
             number == NextUnused(s)
  <1>1. /\ s \in States /\ Len(s.exts) \in Nat /\ DOMAIN s.exts = 1 .. Len(s.exts)
        /\ s.emps[e] \in Person /\ DOMAIN s.emps = 1 .. Len(s.emps)
    BY SoundFacts DEF Sound
  <1>2. u \in Users \union {0} BY <1>1 DEF Person
  <1>3. CASE free # {}
    <2>1. first \in DOMAIN s.exts BY <1>3, FirstIs
    <2> DEFINE w == IF u # 0 THEN UserWritten(s, first, u) ELSE s
    <2>2. t = [w EXCEPT !.emps[e].ext = first] BY <1>3 DEF Assigned
    <2> HIDE DEF first, u
    <2>3. /\ w \in Sound /\ SameNumbers(s, w) /\ w.emps = s.emps /\ w.svcs = s.svcs
          /\ w.error = "none"
      <3>1. CASE u # 0 BY <1>2, <2>1, <3>1, UserWrittenIs
      <3>2. CASE u = 0 BY <3>2 DEF SameNumbers
      <3> QED BY <3>1, <3>2
    <2> HIDE DEF w, t
    <2>4. first \in 0 .. Len(w.exts) /\ e \in DOMAIN w.emps
      BY <1>1, <2>1, <2>3 DEF SameNumbers
    <2>5. /\ t \in Sound /\ Len(t.emps) = Len(w.emps)
          /\ t.exts = w.exts /\ t.svcs = w.svcs /\ t.error = w.error
      BY <2>2, <2>3, <2>4, ExtensionGiven
    <2>6. SameNumbers(s, t) BY <2>3, <2>5 DEF SameNumbers
    <2> QED BY <2>3, <2>5, <2>6 DEF NewIsUnused, t
  <1>4. CASE free = {} /\ number = NoNumber
    <2>1. t = [s EXCEPT !.error = "full"] BY <1>4 DEF Assigned
    <2>2. /\ t \in States /\ t.error = "full" /\ t.exts = s.exts /\ t.emps = s.emps
          /\ t.svcs = s.svcs /\ t.link = s.link
      BY <1>1, <2>1 DEF States
    <2>3. Linked(t) BY <2>2 DEF Linked, Sound
    <2> QED BY <2>2, <2>3 DEF Sound
  <1>5. CASE free = {} /\ number # NoNumber
    <2> DEFINE c == Created(s, number, u, TRUE)
    <2>1. t = [c EXCEPT !.emps[e].ext = Len(s.exts) + 1] BY <1>5 DEF Assigned
    <2>2. number \in Number /\ number \notin Used(s) BY <1>5, NextUnusedIs
    <2> HIDE DEF number, u, t
    <2>3. ~ Refuses(s, number, 0) /\ ~ Collides(s, number, 0, 0)
      BY <2>2, UnusedIsAccepted
    <2>4. /\ c \in Sound /\ Adds(s, c, number) /\ c.svcs = s.svcs /\ c.emps = s.emps
          /\ c.error = "none"
      BY <1>2, <2>2, <2>3, CreatedIs
    <2> HIDE DEF c
    <2>5. Len(s.exts) + 1 \in 0 .. Len(c.exts) /\ e \in DOMAIN c.emps
      BY <1>1, <2>4 DEF Adds
    <2>6. /\ t \in Sound /\ Len(t.emps) = Len(c.emps)
          /\ t.exts = c.exts /\ t.svcs = c.svcs /\ t.error = c.error
      BY <2>1, <2>4, <2>5, ExtensionGiven
    <2>7. Adds(s, t, number) BY <2>4, <2>6 DEF Adds
    <2> QED BY <2>2, <2>4, <2>6, <2>7 DEF NewIsUnused, t
  <1> QED BY <1>3, <1>4, <1>5

-----------------------------------------------------------------------------
(* The order of the employees                                              *)

Increases(q) == \A i, j \in DOMAIN q : i < j => q[i] < q[j]

LEMMA EnumerationExists ==
  ASSUME NEW m \in Nat, NEW S, S \subseteq 1 .. m
  PROVE  \E q \in [1 .. Cardinality(S) -> S] : Increases(q)
  <1> DEFINE Has(B) == \E q \in [1 .. Cardinality(B) -> B] : Increases(q)
             Bad == {k \in Nat : \E B \in SUBSET (1 .. k) : ~ Has(B)}
  <1>1. ASSUME Bad # {} PROVE FALSE
    <2>1. PICK k \in Bad : \A j \in Bad : k <= j BY <1>1, LeastNatural
    <2>2. k \in Nat OBVIOUS
    <2>3. PICK B \in SUBSET (1 .. k) : ~ Has(B) OBVIOUS
    <2>4. CASE k = 0
      <3>1. 1 .. 0 = {} OBVIOUS
      <3>2. B = {} /\ Cardinality(B) = 0 BY <2>3, <2>4, <3>1, FS_EmptySet
      <3>3. [i \in {} |-> i] \in [1 .. Cardinality(B) -> B] /\ Increases([i \in {} |-> i])
        BY <3>1, <3>2 DEF Increases
      <3> QED BY <2>3, <3>3
    <2>5. CASE k # 0
      <3>1. k - 1 \in Nat /\ k - 1 \notin Bad
        <4>1. k - 1 \in Nat /\ ~ k <= k - 1 BY <2>2, <2>5
        <4> HIDE DEF Bad
        <4> QED BY <2>1, <4>1
      <3> DEFINE C == B \ {k}
                 n == Cardinality(C)
      <3>2. C \in SUBSET (1 .. k - 1) BY <2>2, <2>3
      <3>3. Has(C) BY <3>1, <3>2
      <3>4. k \in B
        <4>1. ASSUME k \notin B PROVE C = B BY <4>1
        <4> QED BY <2>3, <3>3, <4>1
      <3>5. IsFiniteSet(B)
        <4>1. IsFiniteSet(1 .. k) BY <2>2, FS_Interval
        <4> QED BY <2>3, <4>1, FS_Subset
      <3>6. n \in Nat /\ Cardinality(B) = n + 1
        <4>1. Cardinality(B) \in Nat BY <3>5, FS_CardinalityType
        <4>2. IsFiniteSet(C) /\ n = Cardinality(B) - 1 BY <3>4, <3>5, FS_RemoveElement
        <4>3. n \in Nat BY <4>2, FS_CardinalityType
        <4> QED BY <4>1, <4>2, <4>3
      <3>7. PICK q \in [1 .. n -> C] : Increases(q) BY <3>3
      <3> DEFINE h == [i \in 1 .. n + 1 |-> IF i = n + 1 THEN k ELSE q[i]]
      <3> HIDE DEF n, C
      <3>8. \A i \in 1 .. n : q[i] \in C /\ q[i] < k /\ q[i] \in B
        <4> SUFFICES ASSUME NEW i \in 1 .. n PROVE q[i] \in C /\ q[i] < k /\ q[i] \in B
          OBVIOUS
        <4>1. q[i] \in C BY <3>7
        <4>2. q[i] \in 1 .. k - 1 BY <3>2, <4>1
        <4>3. q[i] < k BY <2>2, <4>2
        <4> QED BY <4>1, <4>3 DEF C
      <3>9. h \in [1 .. n + 1 -> B] BY <3>4, <3>6, <3>8
      <3>10. ASSUME NEW i \in 1 .. n + 1, NEW j \in 1 .. n + 1, i < j PROVE h[i] < h[j]
        <4>1. i \in 1 .. n /\ h[i] = q[i] BY <3>6, <3>10
        <4>2. CASE j = n + 1 BY <3>8, <4>1, <4>2
        <4>3. CASE j # n + 1
          <5>1. j \in 1 .. n /\ h[j] = q[j] BY <3>6, <4>3
          <5> QED BY <3>7, <3>10, <4>1, <5>1 DEF Increases
        <4> QED BY <4>2, <4>3
      <3> HIDE DEF h
      <3>11. Increases(h) BY <3>9, <3>10 DEF Increases
      <3> QED BY <2>3, <3>6, <3>9, <3>11
    <2> QED BY <2>4, <2>5
  <1>2. m \notin Bad BY <1>1
  <1> QED BY <1>2

\* ById lists a set of records, and all of it.
LEMMA ByIdIs ==
  ASSUME NEW m \in Nat, NEW S, S \subseteq 1 .. m
  PROVE  /\ ById(S) \in Seq(S)
         /\ \A x \in S : \E i \in 1 .. Len(ById(S)) : ById(S)[i] = x
  <1> DEFINE n == Cardinality(S)
             q == ById(S)
  <1>1. IsFiniteSet(S) /\ n \in Nat
    <2>1. IsFiniteSet(1 .. m) BY FS_Interval
    <2>2. IsFiniteSet(S) BY <2>1, FS_Subset
    <2> QED BY <2>2, FS_CardinalityType
  <1>2. q \in [1 .. n -> S] /\ Increases(q)
    <2>1. \E f \in [1 .. n -> S] : Increases(f) BY EnumerationExists
    <2> QED BY <2>1 DEF ById, Increases
  <1> HIDE DEF n, q
  <1>3. q \in Seq(S) /\ Len(q) = n /\ DOMAIN q = 1 .. n BY <1>1, <1>2, SeqDef
  <1>4. ASSUME NEW i \in 1 .. n, NEW j \in 1 .. n, q[i] = q[j] PROVE i = j
    <2>1. i \in Int /\ j \in Int /\ q[i] \in Int
      <3>1. q[i] \in S BY <1>2, <1>4
      <3>2. \A x \in S : x \in Int OBVIOUS
      <3>3. i \in Int /\ j \in Int BY <1>1, <1>4
      <3> QED BY <3>1, <3>2, <3>3
    <2>2. ~ i < j /\ ~ j < i BY <1>2, <1>3, <1>4, <2>1 DEF Increases
    <2> QED BY <2>1, <2>2
  <1>5. q \in Injection(1 .. n, S) BY <1>2, <1>3, <1>4 DEF Injection, IsInjective
  <1>6. Cardinality(1 .. n) = n
    <2>1. Cardinality(1 .. n) = IF 1 > n THEN 0 ELSE n - 1 + 1 BY <1>1, FS_Interval
    <2> QED BY <1>1, <2>1
  <1>7. q \in Surjection(1 .. n, S) BY <1>1, <1>5, <1>6, FS_Injection DEF n
  <1>8. \A x \in S : \E i \in 1 .. n : q[i] = x BY <1>7 DEF Surjection
  <1> QED BY <1>3, <1>8 DEF q

Turn(s) == [queue : Seq(DOMAIN s.emps), ordered : Seq(DOMAIN s.emps)]

LEMMA VisitType ==
  ASSUME NEW s \in Sound, NEW q \in Turn(s)
  PROVE  Visit(s, q) \in Turn(s)
  <1> DEFINE E == DOMAIN s.emps
             p == Head(q.queue)
  <1>1. q.queue \in Seq(E) /\ q.ordered \in Seq(E) BY DEF Turn
  <1>2. Len(s.emps) \in Nat /\ E = 1 .. Len(s.emps) BY SoundFacts
  <1>3. CASE q.queue = << >> BY <1>3 DEF Visit
  <1>4. CASE q.queue # << >>
    <2>1. p \in E /\ Tail(q.queue) \in Seq(E)
      <3> HIDE DEF E
      <3> QED BY <1>1, <1>4
    <2>2. Children(s, p) \in Seq(E)
      <3>1. {e \in ActiveEmployees(s) : s.emps[e].parent = p} \subseteq 1 .. Len(s.emps)
        BY <1>2 DEF ActiveEmployees
      <3> DEFINE S == {e \in ActiveEmployees(s) : s.emps[e].parent = p}
      <3>2. ById(S) \in Seq(S) BY <1>2, <3>1, ByIdIs
      <3>3. ById(S) \in Seq(E)
        <4>1. S \subseteq E BY <1>2, <3>1
        <4> HIDE DEF S, E
        <4> QED BY <3>2, <4>1, SeqMonotonic
      <3> QED BY <3>3 DEF Children
    <2> HIDE DEF E, p
    <2>3. Tail(q.queue) \o Children(s, p) \in Seq(E) /\ Append(q.ordered, p) \in Seq(E)
      BY <1>1, <2>1, <2>2, ConcatProperties, AppendProperties
    <2>4. Visit(s, q) = (IF Contains(q.ordered, p) THEN [q EXCEPT !.queue = Tail(@)]
                         ELSE [queue |-> Tail(q.queue) \o Children(s, p),
                               ordered |-> Append(q.ordered, p)])
      BY <1>4 DEF Visit, p
    <2>5. [q EXCEPT !.queue = Tail(@)] \in Turn(s)
      <3>1. Tail(q.queue) \in Seq(DOMAIN s.emps) BY <2>1 DEF E
      <3>2. ASSUME NEW S, NEW r \in [queue : S, ordered : S], NEW t \in S
            PROVE  [r EXCEPT !.queue = t] \in [queue : S, ordered : S]
        OBVIOUS
      <3> QED BY <3>1, <3>2 DEF Turn
    <2>6. [queue |-> Tail(q.queue) \o Children(s, p), ordered |-> Append(q.ordered, p)] \in Turn(s)
      BY <2>3 DEF Turn, E
    <2> QED BY <2>4, <2>5, <2>6
  <1> QED BY <1>3, <1>4

LEMMA RootIs ==
  ASSUME NEW s \in Sound, ActiveEmployees(s) # {}
  PROVE  Root(s) \in DOMAIN s.emps
  <1> DEFINE roots == {e \in ActiveEmployees(s) : s.emps[e].parent = 0}
             R == IF roots = {} THEN ActiveEmployees(s) ELSE roots
  <1>1. R # {} /\ R \subseteq DOMAIN s.emps BY DEF ActiveEmployees
  <1>2. DOMAIN s.emps = 1 .. Len(s.emps) BY SoundFacts
  <1>3. R \subseteq Nat BY <1>1, <1>2
  <1>4. Root(s) = Min(R) BY DEF Root
  <1> HIDE DEF R
  <1> QED BY <1>1, <1>3, <1>4, MinIs

\* _hierarchical_order lists employees, and every active one.
LEMMA OrderedIs ==
  ASSUME NEW s \in Sound
  PROVE  /\ Ordered(s) \in Seq(DOMAIN s.emps)
         /\ \A e \in ActiveEmployees(s) : \E i \in 1 .. Len(Ordered(s)) : Ordered(s)[i] = e
  <1> DEFINE E == DOMAIN s.emps
             A == ActiveEmployees(s)
             m == MaxEmployees + 1
             a == [queue |-> <<Root(s)>>, ordered |-> << >>]
             F == [q \in Turn(s) |-> Visit(s, q)]
             after == CHOOSE f : f = [n \in 0 .. m |-> IF n = 0 THEN a ELSE Visit(s, f[n - 1])]
             visited == after[m].ordered
             rest == A \ ToSet(visited)
  <1>1. A \subseteq E /\ m \in Nat /\ Len(s.emps) \in Nat /\ E = 1 .. Len(s.emps)
    BY SoundFacts, NumberAssumption DEF ActiveEmployees
  <1>2. CASE A = {}
    <2>1. Ordered(s) = << >> BY <1>2 DEF Ordered
    <2> QED BY <1>2, <2>1, EmptySeq
  <1>3. CASE A # {}
    <2>1. Ordered(s) = visited \o ById(rest) BY <1>3 DEF Ordered
    <2>2. visited \in Seq(E)
      <3>1. a \in Turn(s)
        <4>1. ASSUME NEW S, NEW r \in S PROVE <<r>> \in Seq(S) /\ << >> \in Seq(S) OBVIOUS
        <4>2. <<Root(s)>> \in Seq(E) /\ << >> \in Seq(E) BY <1>3, <4>1, RootIs
        <4> QED BY <4>2 DEF Turn
      <3>2. F \in [Turn(s) -> Turn(s)] BY VisitType
      <3> HIDE DEF a, F
      <3>3. PICK g \in [0 .. m -> Turn(s)] : Repeats(g, a, F, 0 .. m)
        BY <1>1, <3>1, <3>2, Iteration
      <3>4. ASSUME NEW n \in 0 .. m PROVE g[n] = IF n = 0 THEN a ELSE Visit(s, g[n - 1])
        <4>1. n # 0 => n - 1 \in 0 .. m BY <1>1
        <4>2. n # 0 => F[g[n - 1]] = Visit(s, g[n - 1]) BY <3>3, <4>1 DEF F
        <4> QED BY <3>3, <4>2 DEF Repeats
      <3>5. g = [n \in 0 .. m |-> IF n = 0 THEN a ELSE Visit(s, g[n - 1])] BY <3>3, <3>4
      <3>6. after = [n \in 0 .. m |-> IF n = 0 THEN a ELSE Visit(s, after[n - 1])] BY <3>5
      <3> HIDE DEF after
      <3> DEFINE Bad == {n \in Nat : n <= m /\ after[n] \notin Turn(s)}
      <3>7. ASSUME Bad # {} PROVE FALSE
        <4>1. PICK n \in Bad : \A k \in Bad : n <= k BY <3>7, LeastNatural
        <4>2. n \in 0 .. m /\ after[n] = IF n = 0 THEN a ELSE Visit(s, after[n - 1])
          BY <1>1, <3>6
        <4>3. n # 0 BY <3>1, <4>1, <4>2
        <4>4. n - 1 \in Nat /\ n - 1 <= m /\ ~ n <= n - 1 BY <1>1, <4>2, <4>3
        <4>5. after[n - 1] \in Turn(s) BY <4>1, <4>4
        <4>6. Visit(s, after[n - 1]) \in Turn(s) BY <4>5, VisitType
        <4> QED BY <4>1, <4>2, <4>3, <4>6
      <3>8. after[m] \in Turn(s) BY <1>1, <3>7
      <3> QED BY <3>8 DEF Turn
    <2> HIDE DEF visited
    <2>3. rest \subseteq 1 .. Len(s.emps) /\ rest \subseteq E BY <1>1
    <2>4. /\ ById(rest) \in Seq(rest)
          /\ \A x \in rest : \E i \in 1 .. Len(ById(rest)) : ById(rest)[i] = x
      BY <1>1, <2>3, ByIdIs
    <2> HIDE DEF E, rest
    <2>5. ById(rest) \in Seq(E) BY <2>3, <2>4, SeqMonotonic
    <2>6. /\ visited \o ById(rest) \in Seq(E)
          /\ \A i \in 1 .. Len(visited) :
               \E k \in 1 .. Len(visited \o ById(rest)) : (visited \o ById(rest))[k] = visited[i]
          /\ \A i \in 1 .. Len(ById(rest)) :
               \E k \in 1 .. Len(visited \o ById(rest)) : (visited \o ById(rest))[k] = ById(rest)[i]
      BY <2>2, <2>5, ConcatHas
    <2>7. ASSUME NEW e \in A PROVE \E i \in 1 .. Len(Ordered(s)) : Ordered(s)[i] = e
      <3>1. CASE e \in rest
        <4>1. PICK i \in 1 .. Len(ById(rest)) : ById(rest)[i] = e BY <2>4, <3>1
        <4> QED BY <2>1, <2>6, <4>1
      <3>2. CASE e \notin rest
        <4>1. PICK i \in DOMAIN visited : visited[i] = e BY <2>7, <3>2 DEF rest, ToSet
        <4>2. i \in 1 .. Len(visited) BY <2>2, <4>1, LenProperties
        <4> QED BY <2>1, <2>6, <4>1, <4>2
      <3> QED BY <3>1, <3>2
    <2> QED BY <2>1, <2>6, <2>7 DEF E
  <1> QED BY <1>2, <1>3

\* Everyone lists all employees and nobody else.
LEMMA EveryoneIs ==
  ASSUME NEW s \in Sound
  PROVE  /\ Everyone(s) \in Seq(DOMAIN s.emps)
         /\ \A e \in DOMAIN s.emps : \E i \in 1 .. Len(Everyone(s)) : Everyone(s)[i] = e
  <1> DEFINE E == DOMAIN s.emps
             rest == E \ ActiveEmployees(s)
  <1>1. Len(s.emps) \in Nat /\ E = 1 .. Len(s.emps) BY SoundFacts
  <1>2. /\ ById(rest) \in Seq(rest)
        /\ \A x \in rest : \E i \in 1 .. Len(ById(rest)) : ById(rest)[i] = x
    <2>1. rest \subseteq 1 .. Len(s.emps) BY <1>1
    <2> HIDE DEF rest
    <2> QED BY <1>1, <2>1, ByIdIs
  <1>3. rest \subseteq E OBVIOUS
  <1>4. /\ Ordered(s) \in Seq(E)
        /\ \A e \in ActiveEmployees(s) : \E i \in 1 .. Len(Ordered(s)) : Ordered(s)[i] = e
    BY OrderedIs
  <1>5. Everyone(s) = Ordered(s) \o ById(rest) BY DEF Everyone
  <1>6. ASSUME NEW e \in E PROVE e \in rest \/ e \in ActiveEmployees(s) OBVIOUS
  <1> HIDE DEF E, rest
  <1>7. ById(rest) \in Seq(E) BY <1>2, <1>3, SeqMonotonic
  <1>8. /\ Ordered(s) \o ById(rest) \in Seq(E)
        /\ \A i \in 1 .. Len(Ordered(s)) :
             \E k \in 1 .. Len(Ordered(s) \o ById(rest)) : (Ordered(s) \o ById(rest))[k] = Ordered(s)[i]
        /\ \A i \in 1 .. Len(ById(rest)) :
             \E k \in 1 .. Len(Ordered(s) \o ById(rest)) : (Ordered(s) \o ById(rest))[k] = ById(rest)[i]
    BY <1>4, <1>7, ConcatHas
  <1>9. ASSUME NEW e \in E PROVE \E i \in 1 .. Len(Everyone(s)) : Everyone(s)[i] = e
    <2>1. CASE e \in rest
      <3>1. PICK i \in 1 .. Len(ById(rest)) : ById(rest)[i] = e BY <1>2, <2>1
      <3> QED BY <1>5, <1>8, <3>1
    <2>2. CASE e \in ActiveEmployees(s)
      <3>1. PICK i \in 1 .. Len(Ordered(s)) : Ordered(s)[i] = e BY <1>4, <2>2
      <3> QED BY <1>5, <1>8, <3>1
    <2> QED BY <1>6, <2>1, <2>2
  <1> QED BY <1>5, <1>8, <1>9 DEF E

-----------------------------------------------------------------------------
(* Step 1 of a renumbering: a fold over the employees                      *)

\* One turn of the loop that assigns extensions.
AssignTurn(t, e) == IF t.error # "none" \/ t.emps[e].ext # 0 THEN t ELSE Assigned(t, e)

\* What the loop leaves of s.
LoopStates(s) ==
  {t \in Sound : t.error \in {"none", "full"} /\ Len(t.emps) = Len(s.emps) /\ t.svcs = s.svcs}

LEMMA AssignTurnIs ==
  ASSUME NEW s \in Sound, NEW t \in LoopStates(s), NEW e \in DOMAIN s.emps
  PROVE  AssignTurn(t, e) \in LoopStates(s)
  <1>1. /\ t \in Sound /\ t.error \in {"none", "full"} /\ Len(t.emps) = Len(s.emps)
        /\ t.svcs = s.svcs
    BY DEF LoopStates
  <1>2. e \in DOMAIN t.emps BY <1>1, SoundFacts
  <1>3. CASE t.error # "none" \/ t.emps[e].ext # 0 BY <1>3 DEF AssignTurn
  <1>4. CASE t.error = "none" /\ t.emps[e].ext = 0
    <2>1. AssignTurn(t, e) = Assigned(t, e) BY <1>4 DEF AssignTurn
    <2>2. /\ Assigned(t, e) \in Sound /\ Assigned(t, e).error \in {"none", "full"}
          /\ Len(Assigned(t, e).emps) = Len(t.emps) /\ Assigned(t, e).svcs = t.svcs
      BY <1>1, <1>2, <1>4, AssignedIs
    <2> QED BY <1>1, <2>1, <2>2 DEF LoopStates
  <1> QED BY <1>3, <1>4

LEMMA AllAssignedIs ==
  ASSUME NEW s \in Sound, s.error = "none", NEW order \in Seq(DOMAIN s.emps)
  PROVE  AllAssigned(s, order) \in LoopStates(s)
  <1> DEFINE n == Len(order)
             T == LoopStates(s)
             F == [p \in T \X (1 .. n) |-> AssignTurn(p[1], order[p[2]])]
             iter == CHOOSE f : f = [x \in SUBSET DOMAIN order |->
                       IF x = {} THEN s ELSE AssignTurn(f[x \ {Max(x)}], order[Max(x)])]
  <1>1. n \in Nat /\ DOMAIN order = 1 .. n /\ \A i \in 1 .. n : order[i] \in DOMAIN s.emps
    BY LenProperties, ElementOfSeq
  <1>2. s \in T BY DEF LoopStates
  <1>3. AllAssigned(s, order) = iter[DOMAIN order]
    BY DEF AllAssigned, FoldLeft, MapThenFoldSet, AssignTurn
  <1> HIDE DEF n, T
  <1>4. ASSUME NEW t \in T, NEW i \in 1 .. n PROVE AssignTurn(t, order[i]) \in T
    BY <1>1, <1>4, AssignTurnIs DEF T
  <1>5. F \in [T \X (1 .. n) -> T] BY <1>4
  <1>6. \A t \in T, i \in 1 .. n : F[<<t, i>>] = AssignTurn(t, order[i]) OBVIOUS
  <1> HIDE DEF F
  <1>7. PICK g \in [SUBSET (1 .. n) -> T] : FoldsTo(g, s, F, n) BY <1>1, <1>2, <1>5, FoldExists
  <1>8. ASSUME NEW x \in SUBSET (1 .. n), x # {}
        PROVE  Max(x) \in x /\ Max(x) \in 1 .. n /\ x \ {Max(x)} \in SUBSET (1 .. n)
    <2>1. x \subseteq 0 .. n BY <1>1
    <2>2. Max(x) \in x BY <1>1, <1>8, <2>1, MaxIs
    <2> QED BY <2>2
  <1>9. ASSUME NEW x \in SUBSET (1 .. n)
        PROVE  g[x] = IF x = {} THEN s ELSE AssignTurn(g[x \ {Max(x)}], order[Max(x)])
    <2>1. g[x] = IF x = {} THEN s ELSE F[<<g[x \ {Max(x)}], Max(x)>>] BY <1>7 DEF FoldsTo
    <2>2. x # {} => g[x \ {Max(x)}] \in T /\ Max(x) \in 1 .. n BY <1>7, <1>8
    <2> QED BY <1>6, <2>1, <2>2
  <1>10. g = [x \in SUBSET DOMAIN order |->
                IF x = {} THEN s ELSE AssignTurn(g[x \ {Max(x)}], order[Max(x)])]
    BY <1>1, <1>7, <1>9
  <1>11. iter = [x \in SUBSET DOMAIN order |->
                   IF x = {} THEN s ELSE AssignTurn(iter[x \ {Max(x)}], order[Max(x)])]
    BY <1>10
  <1> HIDE DEF iter
  <1> DEFINE Bad == {k \in Nat : k <= n /\ \E x \in SUBSET (1 .. k) : iter[x] \notin T}
  <1>12. ASSUME Bad # {} PROVE FALSE
    <2>1. PICK k \in Bad : \A j \in Bad : k <= j BY <1>12, LeastNatural
    <2>2. k \in Nat /\ k <= n OBVIOUS
    <2>3. PICK x \in SUBSET (1 .. k) : iter[x] \notin T OBVIOUS
    <2>4. x \in SUBSET (1 .. n) BY <1>1, <2>2
    <2>5. x # {} BY <1>1, <1>2, <1>11, <2>3, <2>4
    <2>6. Max(x) \in x /\ \A m \in x : m <= Max(x)
      <3>1. x \subseteq 0 .. k BY <2>2
      <3> QED BY <2>2, <2>5, <3>1, MaxIs
    <2>7. x \ {Max(x)} \in SUBSET (1 .. k - 1)
      <3> SUFFICES ASSUME NEW m \in x, m # Max(x) PROVE m \in 1 .. k - 1 OBVIOUS
      <3>1. m \in 1 .. k /\ Max(x) \in 1 .. k /\ m <= Max(x) BY <2>6
      <3> QED BY <2>2, <3>1
    <2>8. k - 1 \in Nat /\ k - 1 <= n /\ ~ k <= k - 1
      <3>1. Max(x) \in 1 .. k BY <2>6
      <3> QED BY <1>1, <2>2, <3>1
    <2>9. iter[x \ {Max(x)}] \in T BY <2>1, <2>7, <2>8
    <2>10. Max(x) \in 1 .. n BY <2>4, <2>6
    <2>11. iter[x] = AssignTurn(iter[x \ {Max(x)}], order[Max(x)])
      BY <1>1, <1>11, <2>4, <2>5
    <2> QED BY <1>4, <2>3, <2>9, <2>10, <2>11
  <1>13. iter[1 .. n] \in T
    <2>1. n \notin Bad
      <3> HIDE DEF Bad
      <3> QED BY <1>12
    <2>2. n <= n BY <1>1
    <2>3. \A x \in SUBSET (1 .. n) : iter[x] \in T BY <1>1, <2>1, <2>2
    <2> QED BY <2>3
  <1> QED BY <1>1, <1>3, <1>13 DEF T

-----------------------------------------------------------------------------
(* Steps 2 and 3 of a renumbering                                          *)

\* Between the phases an extension may have a number that is not made of digits.
Row == [number : Seq(Nat), active : BOOLEAN, user : Users \union {0}]

Loose(s) == [exts : [1 .. Len(s.exts) -> Row], svcs : {s.svcs}, emps : {s.emps},
             link : [Users -> 0 .. Len(s.exts)], error : {s.error}]

\* The extension of the k-th employee in the order.
Place(s, order, k) == s.emps[order[k]].ext

LEMMA NumberIsText == Number \subseteq Seq(Nat)
  <1>1. 0 .. Radix - 1 \subseteq Nat BY NumberAssumption
  <1>2. Seq(0 .. Radix - 1) \subseteq Seq(Nat) BY <1>1, SeqMonotonic
  <1> QED BY <1>2 DEF Number

LEMMA TemporaryIs ==
  /\ \A x \in Nat : Temporary(x) \in Seq(Nat) /\ Temporary(x) \notin Number
  /\ \A x, y \in Nat : Temporary(x) = Temporary(y) => x = y
  <1>1. Radix \in Nat /\ Radix > 0 BY NumberAssumption
  <1>2. ASSUME NEW x \in Nat PROVE Temporary(x) \in Seq(Nat) BY <1>1 DEF Temporary
  <1>3. ASSUME NEW x \in Nat, Temporary(x) \in Number PROVE FALSE
    <2>1. Temporary(x) \in Seq(0 .. Radix - 1) BY <1>3 DEF Number
    <2>2. Len(Temporary(x)) = 2 /\ Temporary(x)[1] = Radix BY DEF Temporary
    <2>3. 1 \in 1 .. Len(Temporary(x)) BY <2>2
    <2>4. Temporary(x)[1] \in 0 .. Radix - 1
      <3>1. ASSUME NEW q \in Seq(0 .. Radix - 1), 1 \in 1 .. Len(q) PROVE q[1] \in 0 .. Radix - 1
        BY <3>1, ElementOfSeq
      <3> QED BY <2>1, <2>3, <3>1
    <2> QED BY <1>1, <2>2, <2>4
  <1>4. ASSUME NEW x \in Nat, NEW y \in Nat, Temporary(x) = Temporary(y) PROVE x = y
    <2>1. Temporary(x)[2] = x /\ Temporary(y)[2] = y BY DEF Temporary
    <2> QED BY <1>4, <2>1
  <1> QED BY <1>2, <1>3, <1>4

LEMMA SoundIsLoose ==
  ASSUME NEW s \in Sound
  PROVE  s \in Loose(s)
  <1>1. /\ s \in States /\ Linked(s) /\ DOMAIN s.exts = 1 .. Len(s.exts) /\ Len(s.exts) \in Nat
        /\ s.exts \in Seq(Extension) /\ s.link \in [Users -> Nat]
        /\ \A x \in DOMAIN s.exts : s.exts[x] \in Extension
    BY SoundFacts DEF Sound
  <1>2. Extension \subseteq Row BY NumberIsText DEF Extension, Row
  <1>3. s.exts \in [1 .. Len(s.exts) -> Row]
    <2>1. s.exts = [x \in 1 .. Len(s.exts) |-> s.exts[x]] BY <1>1
    <2>2. \A x \in 1 .. Len(s.exts) : s.exts[x] \in Row BY <1>1, <1>2
    <2> QED BY <2>1, <2>2
  <1>4. s.link \in [Users -> 0 .. Len(s.exts)]
    <2>1. \A u \in Users : s.link[u] \in 0 .. Len(s.exts) BY <1>1 DEF Linked
    <2> QED BY <1>1, <2>1
  <1> QED BY <1>1, <1>3, <1>4 DEF States, Loose

LEMMA LooseIsSound ==
  ASSUME NEW s \in Sound, NEW t \in Loose(s), NEW error \in {"none", "taken"},
         \A x \in 1 .. Len(s.exts) : t.exts[x].number \in Number
  PROVE  LET r == [t EXCEPT !.error = error]
         IN  r \in Sound /\ Len(t.exts) = Len(s.exts)
  <1> DEFINE r == [t EXCEPT !.error = error]
  <1>1. /\ Linked(s) /\ Len(s.exts) \in Nat /\ s \in States
    BY SoundFacts DEF Sound
  <1>2. /\ t.exts \in [1 .. Len(s.exts) -> Row] /\ t.link \in [Users -> 0 .. Len(s.exts)]
        /\ t.svcs = s.svcs /\ t.emps = s.emps
    BY DEF Loose
  <1>3. \A x \in 1 .. Len(s.exts) : t.exts[x] \in Extension
    BY <1>2 DEF Row, Extension
  <1>4. t.exts \in [1 .. Len(s.exts) -> Extension] BY <1>2, <1>3
  <1>5. t.exts \in Seq(Extension) /\ Len(t.exts) = Len(s.exts) BY <1>1, <1>4, SequenceOf
  <1>6. t.link \in [Users -> Nat] /\ \A u \in Users : t.link[u] <= Len(s.exts) BY <1>1, <1>2
  <1>7. /\ r = [exts |-> t.exts, svcs |-> s.svcs, emps |-> s.emps, link |-> t.link,
                error |-> error]
    BY <1>2 DEF Loose
  <1>8. r \in States BY <1>1, <1>5, <1>6, <1>7 DEF States
  <1>9. Linked(r) BY <1>1, <1>5, <1>6, <1>7 DEF Linked
  <1> QED BY <1>5, <1>8, <1>9 DEF Sound

\* One write.
LEMMA NumberedIs ==
  ASSUME NEW s \in Sound, NEW t \in Loose(s), NEW x \in 0 .. Len(s.exts),
         NEW wanted, NEW number \in Seq(Nat)
  PROVE  LET r == Numbered(t, x, wanted, number)
         IN  /\ r \in Loose(s)
             /\ \A y \in 1 .. Len(s.exts) :
                  r.exts[y].number = IF y = x /\ t.exts[y].number # wanted THEN number
                                     ELSE t.exts[y].number
  <1> DEFINE r == Numbered(t, x, wanted, number)
             L == Len(s.exts)
             row == [t.exts[x] EXCEPT !.number = number]
             written == [t.exts EXCEPT ![x].number = number]
             linked == [u \in Users |-> IF u = written[x].user THEN x ELSE t.link[u]]
  <1>1. t.exts \in [1 .. L -> Row] /\ t.link \in [Users -> 0 .. L] BY DEF Loose
  <1>2. CASE x = 0 \/ t.exts[x].number = wanted
    <2>1. r = t BY <1>2 DEF Numbered
    <2>2. \A y \in 1 .. L : y = x => ~ t.exts[y].number # wanted BY <1>2
    <2> QED BY <2>1, <2>2
  <1>3. CASE ~ (x = 0 \/ t.exts[x].number = wanted)
    <2>1. x \in 1 .. L
      <3>1. L \in Nat BY SoundFacts
      <3> QED BY <1>3, <3>1
    <2>2. t.exts[x] \in Row BY <1>1, <2>1
    <2>3. row \in Row /\ row.number = number BY <2>2 DEF Row
    <2>4. written = [t.exts EXCEPT ![x] = row] OBVIOUS
    <2> HIDE DEF row
    <2>5. /\ written \in [1 .. L -> Row] /\ written[x].number = number
          /\ \A y \in 1 .. L : y # x => written[y] = t.exts[y]
      BY <1>1, <2>1, <2>3, <2>4
    <2>6. r = [t EXCEPT !.exts = written, !.link = linked]
      BY <1>3 DEF Numbered, Synced, Loose
    <2> HIDE DEF written
    <2>7. linked \in [Users -> 0 .. L] BY <1>1
    <2> HIDE DEF linked
    <2>8. r = [exts |-> written, svcs |-> s.svcs, emps |-> s.emps, link |-> linked, error |-> s.error]
      BY <2>6 DEF Loose
    <2>9. r \in Loose(s) BY <2>5, <2>7, <2>8 DEF Loose
    <2>10. \A y \in 1 .. L :
             r.exts[y].number = IF y = x /\ t.exts[y].number # wanted THEN number
                                ELSE t.exts[y].number
      BY <1>3, <2>5, <2>8
    <2> QED BY <2>9, <2>10
  <1> QED BY <1>2, <1>3

\* g is the writes of a phase one after the other.
Writes(g, s, order, wanted, number) ==
  \A k \in 1 .. Len(order), y \in 1 .. Len(s.exts) :
    g[k].exts[y].number =
      IF y = Place(s, order, k) /\ g[k - 1].exts[y].number # wanted[k] THEN number[k]
      ELSE g[k - 1].exts[y].number

LEMMA PhaseIs ==
  ASSUME NEW s \in Sound, NEW a \in Loose(s), NEW order \in Seq(DOMAIN s.emps),
         NEW wanted, NEW number, \A k \in 1 .. Len(order) : number[k] \in Seq(Nat)
  PROVE  \E g \in [0 .. Len(order) -> Loose(s)] :
           /\ g[0] = a /\ g[Len(order)] = Phase(a, order, wanted, number)
           /\ Writes(g, s, order, wanted, number)
  <1> DEFINE m == Len(order)
             T == Loose(s)
             Write(k, t) == Numbered(t, a.emps[order[k]].ext, wanted[k], number[k])
             F == [p \in (1 .. m) \X T |-> Write(p[1], p[2])]
             after == CHOOSE f : f = [k \in 0 .. m |-> IF k = 0 THEN a ELSE Write(k, f[k - 1])]
  <1>1. /\ m \in Nat /\ DOMAIN order = 1 .. m /\ \A k \in 1 .. m : order[k] \in DOMAIN s.emps
        /\ a.emps = s.emps /\ Len(s.exts) \in Nat
    <2>1. a.emps = s.emps BY DEF Loose
    <2> QED BY <2>1, LenProperties, ElementOfSeq, SoundFacts
  <1>2. ASSUME NEW k \in 1 .. m
        PROVE  a.emps[order[k]].ext = Place(s, order, k) /\ Place(s, order, k) \in 0 .. Len(s.exts)
    <2>1. /\ s.emps[order[k]] \in Person /\ s.emps[order[k]].ext <= Len(s.exts)
      BY <1>1, SoundFacts DEF Linked
    <2>2. s.emps[order[k]].ext \in Nat BY <2>1 DEF Person
    <2> QED BY <1>1, <2>1, <2>2 DEF Place
  <1>3. ASSUME NEW k \in 1 .. m, NEW t \in T
        PROVE  /\ Write(k, t) \in T
               /\ \A y \in 1 .. Len(s.exts) :
                    Write(k, t).exts[y].number =
                      IF y = Place(s, order, k) /\ t.exts[y].number # wanted[k] THEN number[k]
                      ELSE t.exts[y].number
    <2>1. number[k] \in Seq(Nat) OBVIOUS
    <2>2. Write(k, t) = Numbered(t, Place(s, order, k), wanted[k], number[k]) BY <1>2
    <2> QED BY <1>2, <2>1, <2>2, NumberedIs
  <1>4. Phase(a, order, wanted, number) = after[m] BY DEF Phase
  <1> HIDE DEF Write, m, T
  <1>5. F \in [(1 .. m) \X T -> T] BY <1>3
  <1>6. \A k \in 1 .. m, t \in T : F[<<k, t>>] = Write(k, t) OBVIOUS
  <1> HIDE DEF F
  <1>7. a \in T BY DEF T
  <1>8. PICK g \in [0 .. m -> T] : Steps(g, a, F, m) BY <1>1, <1>5, <1>7, RecursionOn
  <1>9. ASSUME NEW k \in 0 .. m PROVE g[k] = IF k = 0 THEN a ELSE Write(k, g[k - 1])
    <2>1. CASE k = 0 BY <1>8, <2>1 DEF Steps
    <2>2. CASE k # 0
      <3>1. k \in 1 .. m /\ k - 1 \in 0 .. m BY <1>1, <2>2
      <3>2. g[k] = F[<<k, g[k - 1]>>] BY <1>8, <2>2 DEF Steps
      <3>3. g[k - 1] \in T BY <1>8, <3>1
      <3> QED BY <1>6, <2>2, <3>1, <3>2, <3>3
    <2> QED BY <2>1, <2>2
  <1>10. g = [k \in 0 .. m |-> IF k = 0 THEN a ELSE Write(k, g[k - 1])] BY <1>8, <1>9
  <1>11. after = [k \in 0 .. m |-> IF k = 0 THEN a ELSE Write(k, after[k - 1])] BY <1>10
  <1> HIDE DEF after
  <1> DEFINE Same == {k \in 0 .. m : after[k] = g[k]}
  <1>12. 0 \in Same
    <2>1. 0 \in 0 .. m BY <1>1
    <2> QED BY <1>9, <1>11, <2>1
  <1>13. ASSUME NEW k \in 1 .. m, k - 1 \in Same PROVE k \in Same
    <2>1. k \in 0 .. m /\ k # 0 BY <1>1
    <2>2. after[k] = Write(k, after[k - 1]) BY <1>11, <2>1
    <2>3. g[k] = Write(k, g[k - 1]) BY <1>9, <2>1
    <2> QED BY <1>13, <2>1, <2>2, <2>3
  <1>14. after[m] = g[m]
    <2> HIDE DEF Same
    <2>1. \A k \in 0 .. m : k \in Same BY <1>1, <1>12, <1>13, UpTo
    <2>2. m \in Same BY <1>1, <2>1
    <2> QED BY <2>2 DEF Same
  <1>15. g[0] = a
    <2>1. 0 \in 0 .. m BY <1>1
    <2> QED BY <1>9, <2>1
  <1>16. ASSUME NEW k \in 1 .. m, NEW y \in 1 .. Len(s.exts)
         PROVE  g[k].exts[y].number =
                  IF y = Place(s, order, k) /\ g[k - 1].exts[y].number # wanted[k] THEN number[k]
                  ELSE g[k - 1].exts[y].number
    <2>1. k \in 0 .. m /\ k # 0 /\ k - 1 \in 0 .. m BY <1>1
    <2>2. g[k] = Write(k, g[k - 1]) /\ g[k - 1] \in T BY <1>8, <1>9, <2>1
    <2> QED BY <1>3, <2>2
  <1>17. Writes(g, s, order, wanted, number) BY <1>16 DEF Writes, m
  <1> QED BY <1>4, <1>8, <1>14, <1>15, <1>17 DEF m, T

\* After the first phase an extension has its temporary number, or it has the
\* one it had, which is what all its employees want.
LEMMA MovedIs ==
  ASSUME NEW s \in Sound, NEW order \in Seq(DOMAIN s.emps)
  PROVE  /\ Moved(s, order) \in Loose(s)
         /\ \A y \in 1 .. Len(s.exts) :
              LET number == Moved(s, order).exts[y].number IN
              \/ /\ number = Temporary(y)
                 /\ \E j \in 1 .. Len(order) : Place(s, order, j) = y
              \/ /\ number = s.exts[y].number
                 /\ \A j \in 1 .. Len(order) :
                      Place(s, order, j) = y => Wanted(s, order)[j] = number
  <1> DEFINE m == Len(order)
             wanted == Wanted(s, order)
             temporary == [k \in DOMAIN order |-> Temporary(s.emps[order[k]].ext)]
  <1>1. m \in Nat /\ DOMAIN order = 1 .. m /\ \A k \in 1 .. m : order[k] \in DOMAIN s.emps
    BY LenProperties, ElementOfSeq
  <1>2. ASSUME NEW k \in 1 .. m
        PROVE  temporary[k] = Temporary(Place(s, order, k)) /\ temporary[k] \in Seq(Nat)
    <2>1. s.emps[order[k]] \in Person BY <1>1, SoundFacts
    <2>2. s.emps[order[k]].ext \in Nat BY <2>1 DEF Person
    <2> QED BY <1>1, <2>2, TemporaryIs DEF Place
  <1>3. Moved(s, order) = Phase(s, order, wanted, temporary) BY DEF Moved
  <1>4. s \in Loose(s) BY SoundIsLoose
  <1> HIDE DEF wanted, temporary, m
  <1>5. PICK g \in [0 .. m -> Loose(s)] :
          /\ g[0] = s /\ g[m] = Phase(s, order, wanted, temporary)
          /\ Writes(g, s, order, wanted, temporary)
    <2>1. \A k \in 1 .. Len(order) : temporary[k] \in Seq(Nat) BY <1>2 DEF m
    <2> QED BY <1>4, <2>1, PhaseIs DEF m
  <1> DEFINE Fits(k, y) ==
               \/ /\ g[k].exts[y].number = Temporary(y)
                  /\ \E j \in 1 .. k : Place(s, order, j) = y
               \/ /\ g[k].exts[y].number = s.exts[y].number
                  /\ \A j \in 1 .. k : Place(s, order, j) = y => wanted[j] = g[k].exts[y].number
             Good == {k \in 0 .. m : \A y \in 1 .. Len(s.exts) : Fits(k, y)}
  <1>6. 0 \in Good BY <1>1, <1>5
  <1>7. ASSUME NEW k \in 1 .. m, k - 1 \in Good PROVE k \in Good
    <2> SUFFICES ASSUME NEW y \in 1 .. Len(s.exts) PROVE Fits(k, y)
      <3>1. k \in 0 .. m BY <1>1
      <3> HIDE DEF Fits
      <3> QED BY <3>1
    <2>1. Fits(k - 1, y) BY <1>7
    <2>2. g[k].exts[y].number =
            IF y = Place(s, order, k) /\ g[k - 1].exts[y].number # wanted[k]
            THEN temporary[k] ELSE g[k - 1].exts[y].number
      BY <1>5 DEF Writes, m
    <2>3. \A j \in 1 .. k : j \in 1 .. k - 1 \/ j = k BY <1>1
    <2>4. \A j \in 1 .. k - 1 : j \in 1 .. k BY <1>1
    <2>5. k \in 1 .. k BY <1>1
    <2>6. CASE y = Place(s, order, k) /\ g[k - 1].exts[y].number # wanted[k]
      <3>1. g[k].exts[y].number = Temporary(y) BY <1>2, <2>2, <2>6
      <3> QED BY <2>5, <2>6, <3>1
    <2>7. CASE ~ (y = Place(s, order, k) /\ g[k - 1].exts[y].number # wanted[k])
      <3>1. g[k].exts[y].number = g[k - 1].exts[y].number BY <2>2, <2>7
      <3> QED BY <2>1, <2>3, <2>4, <2>7, <3>1
    <2> QED BY <2>6, <2>7
  <1>8. m \in Good
    <2> HIDE DEF Good
    <2>1. \A k \in 0 .. m : k \in Good BY <1>1, <1>6, <1>7, UpTo
    <2>2. m \in 0 .. m BY <1>1
    <2> QED BY <2>1, <2>2
  <1>9. g[m] \in Loose(s) /\ g[m] = Moved(s, order)
    <2>1. m \in 0 .. m BY <1>1
    <2> QED BY <1>3, <1>5, <2>1
  <1> QED BY <1>8, <1>9 DEF m, wanted

\* So the first flush is never refused: no two extensions have one temporary
\* number, and nobody had one before.
LEMMA MovedIsAccepted ==
  ASSUME NEW s \in Sound, NEW order \in Seq(DOMAIN s.emps)
  PROVE  Flushed(s, Moved(s, order)) = Moved(s, order)
  <1> DEFINE t == Moved(s, order)
  <1>1. /\ t \in Loose(s)
        /\ \A y \in 1 .. Len(s.exts) :
             t.exts[y].number \in {Temporary(y), s.exts[y].number}
    BY MovedIs
  <1> HIDE DEF t
  <1>2. DOMAIN t.exts = 1 .. Len(s.exts) BY <1>1 DEF Loose
  <1>3. \A y \in 1 .. Len(s.exts) : y \in Nat /\ s.exts[y].number \in Number
    <2>1. \A y \in 1 .. Len(s.exts) : s.exts[y] \in Extension /\ Len(s.exts) \in Nat
      BY SoundFacts
    <2> QED BY <2>1 DEF Extension
  <1>4. ASSUME NEW x \in DOMAIN t.exts, NEW y \in DOMAIN t.exts, x # y,
               t.exts[x].number # s.exts[x].number,
               t.exts[x].number \in {s.exts[y].number, t.exts[y].number}
        PROVE  FALSE
    <2>1. x \in Nat /\ y \in Nat /\ s.exts[y].number \in Number BY <1>2, <1>3
    <2>2. t.exts[x].number = Temporary(x) BY <1>1, <1>2, <1>4
    <2>3. t.exts[x].number # s.exts[y].number BY <2>1, <2>2, TemporaryIs
    <2>4. t.exts[y].number = Temporary(y) BY <1>1, <1>2, <1>4, <2>3
    <2> QED BY <1>4, <2>1, <2>2, <2>3, <2>4, TemporaryIs
  <1> QED BY <1>4 DEF Flushed, t

\* Everything stays well-formed, and only an extension that nobody has can make
\* it fail.
LEMMA RenumberedIs ==
  ASSUME NEW s \in Sound, s.error = "none", NEW order \in Seq(DOMAIN s.emps)
  PROVE  LET t == Renumbered(s, order) IN
         /\ t \in Sound /\ t.svcs = s.svcs /\ t.emps = s.emps /\ Len(t.exts) = Len(s.exts)
         /\ t.error = "taken" =>
              \E y \in DOMAIN t.exts :
                /\ \A j \in DOMAIN order : s.emps[order[j]].ext # y
                /\ \E j \in DOMAIN order : t.exts[y].number = Text(j, Width(s))
  <1> DEFINE m == Len(order)
             wanted == Wanted(s, order)
             moved == Moved(s, order)
             p == Phase(moved, order, wanted, wanted)
             t == Renumbered(s, order)
             held(y) == \E j \in 1 .. m : Place(s, order, j) = y
  <1>1. m \in Nat /\ DOMAIN order = 1 .. m BY LenProperties
  <1>2. ASSUME NEW k \in 1 .. m
        PROVE  /\ wanted[k] = Text(k, Width(s)) /\ wanted[k] \in Number
               /\ wanted[k] \in Seq(Nat)
    <2>1. wanted[k] = Text(k, Width(s)) BY <1>1 DEF Wanted
    <2>2. Text(k, Width(s)) \in Number BY <1>1, WidthType, TextType
    <2> QED BY <2>1, <2>2, NumberIsText
  <1>3. ASSUME NEW i \in 1 .. m, NEW j \in 1 .. m, wanted[i] = wanted[j] PROVE i = j
    <2>1. i \in Nat /\ j \in Nat /\ Text(i, Width(s)) = Text(j, Width(s)) BY <1>1, <1>2, <1>3
    <2> QED BY <2>1, WidthType, TextDiffers
  <1>4. /\ moved \in Loose(s)
        /\ \A y \in 1 .. Len(s.exts) :
             \/ moved.exts[y].number = Temporary(y) /\ held(y)
             \/ /\ moved.exts[y].number = s.exts[y].number
                /\ \A j \in 1 .. m : Place(s, order, j) = y => wanted[j] = moved.exts[y].number
    BY MovedIs
  <1>5. t = Flushed(moved, p)
    <2>1. moved.error = "none" BY <1>4 DEF Loose
    <2> QED BY <2>1, MovedIsAccepted DEF Renumbered
  <1>6. \A y \in 1 .. Len(s.exts) : y \in Nat /\ s.exts[y].number \in Number
    <2>1. \A y \in 1 .. Len(s.exts) : s.exts[y] \in Extension /\ Len(s.exts) \in Nat
      BY SoundFacts
    <2> QED BY <2>1 DEF Extension
  <1> HIDE DEF m, wanted, moved, t
  <1>7. PICK g \in [0 .. m -> Loose(s)] :
          /\ g[0] = moved /\ g[m] = p
          /\ Writes(g, s, order, wanted, wanted)
    <2>1. \A k \in 1 .. Len(order) : wanted[k] \in Seq(Nat) BY <1>2 DEF m
    <2> QED BY <1>4, <2>1, PhaseIs DEF m, p
  <1> HIDE DEF p
  <1> DEFINE Fits(k, y) ==
               \/ /\ \A j \in 1 .. k : Place(s, order, j) # y
                  /\ g[k].exts[y].number = moved.exts[y].number
               \/ \E j \in 1 .. k : Place(s, order, j) = y /\ g[k].exts[y].number = wanted[j]
             Good == {k \in 0 .. m : \A y \in 1 .. Len(s.exts) : Fits(k, y)}
  <1>8. 0 \in Good BY <1>1, <1>7
  <1>9. ASSUME NEW k \in 1 .. m, k - 1 \in Good PROVE k \in Good
    <2> SUFFICES ASSUME NEW y \in 1 .. Len(s.exts) PROVE Fits(k, y)
      <3>1. k \in 0 .. m BY <1>1
      <3> HIDE DEF Fits
      <3> QED BY <3>1
    <2>1. Fits(k - 1, y) BY <1>9
    <2>2. g[k].exts[y].number =
            IF y = Place(s, order, k) /\ g[k - 1].exts[y].number # wanted[k]
            THEN wanted[k] ELSE g[k - 1].exts[y].number
      BY <1>7 DEF Writes, m
    <2>3. \A j \in 1 .. k : j \in 1 .. k - 1 \/ j = k BY <1>1
    <2>4. \A j \in 1 .. k - 1 : j \in 1 .. k BY <1>1
    <2>5. k \in 1 .. k BY <1>1
    <2>6. CASE y = Place(s, order, k)
      <3>1. g[k].exts[y].number = wanted[k] BY <2>2, <2>6
      <3> QED BY <2>5, <2>6, <3>1
    <2>7. CASE y # Place(s, order, k)
      <3>1. g[k].exts[y].number = g[k - 1].exts[y].number BY <2>2, <2>7
      <3> QED BY <2>1, <2>3, <2>4, <2>7, <3>1
    <2> QED BY <2>6, <2>7
  <1>10. ASSUME NEW y \in 1 .. Len(s.exts)
         PROVE  \/ ~ held(y) /\ p.exts[y].number = moved.exts[y].number
                \/ \E j \in 1 .. m : Place(s, order, j) = y /\ p.exts[y].number = wanted[j]
    <2> HIDE DEF Good
    <2>1. \A k \in 0 .. m : k \in Good BY <1>1, <1>8, <1>9, UpTo
    <2>2. m \in Good BY <1>1, <2>1
    <2> QED BY <1>7, <2>2 DEF Good
  <1>11. p \in Loose(s)
    <2>1. m \in 0 .. m BY <1>1
    <2> QED BY <1>7, <2>1
  <1>12. ASSUME NEW y \in 1 .. Len(s.exts) PROVE p.exts[y].number \in Number
    BY <1>2, <1>4, <1>6, <1>10
  <1>13. DOMAIN p.exts = 1 .. Len(s.exts) /\ p.error = "none"
    BY <1>11 DEF Loose
  <1>14. t.error \in {"none", "taken"} /\ t = [p EXCEPT !.error = t.error]
    <2>1. CASE t = p
      <3>1. [p EXCEPT !.error = "none"] = p BY <1>11, <1>13 DEF Loose
      <3> QED BY <1>13, <2>1, <3>1
    <2>2. CASE t = [p EXCEPT !.error = "taken"]
      <3>1. t.error = "taken" BY <1>11, <2>2 DEF Loose
      <3> QED BY <2>2, <3>1
    <2> QED BY <1>5, <2>1, <2>2 DEF Flushed
  <1>15. t \in Sound /\ Len(p.exts) = Len(s.exts) BY <1>11, <1>12, <1>14, LooseIsSound
  <1>16. t.exts = p.exts /\ t.svcs = s.svcs /\ t.emps = s.emps
    <2>1. p.svcs = s.svcs /\ p.emps = s.emps BY <1>11 DEF Loose
    <2> QED BY <1>11, <1>14, <2>1 DEF Loose
  <1>17. ASSUME t.error = "taken"
         PROVE  \E y \in 1 .. Len(s.exts) : ~ held(y) /\ \E j \in 1 .. m : p.exts[y].number = wanted[j]
    <2>1. PICK x \in DOMAIN p.exts, y \in DOMAIN p.exts :
            /\ x # y /\ p.exts[x].number # moved.exts[x].number
            /\ p.exts[x].number \in {moved.exts[y].number, p.exts[y].number}
      <3>1. t # p BY <1>13, <1>17
      <3> QED BY <1>5, <3>1 DEF Flushed
    <2>2. x \in 1 .. Len(s.exts) /\ y \in 1 .. Len(s.exts) BY <1>13, <2>1
    <2>3. PICK j \in 1 .. m : Place(s, order, j) = x /\ p.exts[x].number = wanted[j]
      BY <1>10, <2>1, <2>2
    <2>4. CASE ~ held(y)
      <3>1. p.exts[y].number = moved.exts[y].number BY <1>10, <2>2, <2>4
      <3>2. p.exts[y].number = wanted[j] BY <2>1, <2>3, <3>1
      <3> QED BY <2>2, <2>4, <3>2
    <2>5. CASE held(y)
      <3>1. PICK i \in 1 .. m : Place(s, order, i) = y /\ p.exts[y].number = wanted[i]
        BY <1>10, <2>2, <2>5
      <3>2. i # j BY <2>1, <2>3, <3>1
      <3>3. p.exts[x].number # p.exts[y].number BY <1>3, <2>3, <3>1, <3>2
      <3>4. wanted[j] = moved.exts[y].number BY <2>1, <2>3, <3>3
      <3>5. moved.exts[y].number # Temporary(y)
        <4>1. wanted[j] \in Number /\ y \in Nat BY <1>2, <1>6, <2>2
        <4> QED BY <3>4, <4>1, TemporaryIs
      <3>6. wanted[i] = moved.exts[y].number BY <1>4, <2>2, <3>1, <3>5
      <3> QED BY <1>3, <3>2, <3>4, <3>6
    <2> QED BY <2>4, <2>5
  <1>18. ASSUME t.error = "taken"
         PROVE  \E y \in DOMAIN t.exts :
                  /\ \A j \in DOMAIN order : s.emps[order[j]].ext # y
                  /\ \E j \in DOMAIN order : t.exts[y].number = Text(j, Width(s))
    <2>1. PICK y \in 1 .. Len(s.exts) : ~ held(y) /\ \E j \in 1 .. m : p.exts[y].number = wanted[j]
      BY <1>17, <1>18
    <2>2. y \in DOMAIN t.exts BY <1>13, <1>16
    <2>3. \A j \in DOMAIN order : s.emps[order[j]].ext # y BY <1>1, <2>1 DEF Place
    <2>4. \E j \in DOMAIN order : t.exts[y].number = Text(j, Width(s)) BY <1>1, <1>2, <1>16, <2>1
    <2> QED BY <2>2, <2>3, <2>4
  <1> QED BY <1>15, <1>16, <1>18 DEF t

-----------------------------------------------------------------------------
(* Transactions                                                            *)

LEMMA StateIsSound ==
  ASSUME TypeOK
  PROVE  /\ State \in Sound /\ State.error = "none"
         /\ State.exts = exts /\ State.svcs = svcs /\ State.emps = emps /\ State.link = link
         /\ DOMAIN exts = 1 .. Len(exts) /\ Len(exts) \in Nat
         /\ DOMAIN svcs = 1 .. Len(svcs) /\ Len(svcs) \in Nat
         /\ DOMAIN emps = 1 .. Len(emps) /\ Len(emps) \in Nat
  <1>1. /\ exts \in Seq(Extension) /\ svcs \in Seq(Service) /\ emps \in Seq(Employee)
        /\ link \in [Users -> 0 .. Len(exts)]
        /\ \A e \in DOMAIN emps : emps[e].ext <= Len(exts) /\ emps[e].parent < e
    BY DEF TypeOK
  <1>2. /\ DOMAIN exts = 1 .. Len(exts) /\ Len(exts) \in Nat
        /\ DOMAIN svcs = 1 .. Len(svcs) /\ Len(svcs) \in Nat
        /\ DOMAIN emps = 1 .. Len(emps) /\ Len(emps) \in Nat
    BY <1>1, LenProperties
  <1>3. emps \in Seq(Person)
    <2>1. Employee \subseteq Person BY NumberAssumption DEF Employee, Person
    <2> QED BY <1>1, <2>1, SeqMonotonic
  <1>4. link \in [Users -> Nat] /\ \A u \in Users : link[u] <= Len(exts) BY <1>1, <1>2
  <1>5. State \in States BY <1>1, <1>3, <1>4 DEF State, States
  <1>6. Linked(State) BY <1>1, <1>4 DEF State, Linked
  <1> QED BY <1>2, <1>5, <1>6 DEF Sound, State

\* A sound result within the bounds may be committed.
LEMMA CommitIsTyped ==
  ASSUME NEW s \in Sound, Len(s.exts) <= MaxExtensions, Len(s.svcs) <= MaxServices,
         Len(s.emps) <= MaxEmployees, edits' \in 0 .. MaxEdits,
         exts' = s.exts, svcs' = s.svcs, emps' = s.emps, link' = s.link
  PROVE  TypeOK'
  <1>1. /\ s.exts \in Seq(Extension) /\ Len(s.exts) \in Nat
        /\ s.svcs \in Seq(Service)
        /\ s.emps \in Seq(Person) /\ Len(s.emps) \in Nat /\ DOMAIN s.emps = 1 .. Len(s.emps)
        /\ s.link \in [Users -> Nat] /\ Linked(s)
        /\ \A e \in DOMAIN s.emps : s.emps[e] \in Person
    BY SoundFacts
  <1>2. s.emps \in Seq(Employee)
    <2>1. ASSUME NEW e \in 1 .. Len(s.emps) PROVE s.emps[e] \in Employee
      <3>1. s.emps[e] \in Person /\ s.emps[e].ext <= Len(s.exts) /\ s.emps[e].parent < e
        BY <1>1 DEF Linked
      <3>2. s.emps[e].ext \in Nat /\ s.emps[e].parent \in Nat BY <3>1 DEF Person
      <3>3. s.emps[e].ext \in 0 .. MaxExtensions /\ s.emps[e].parent \in 0 .. MaxEmployees
        BY <1>1, <3>1, <3>2, NumberAssumption
      <3> QED BY <3>1, <3>3 DEF Person, Employee
    <2>2. s.emps = [e \in 1 .. Len(s.emps) |-> s.emps[e]] BY <1>1
    <2>3. s.emps \in [1 .. Len(s.emps) -> Employee] BY <2>1, <2>2
    <2> QED BY <1>1, <2>3, SequenceOf
  <1>3. s.link \in [Users -> 0 .. Len(s.exts)]
    <2>1. \A u \in Users : s.link[u] \in 0 .. Len(s.exts) BY <1>1 DEF Linked
    <2> QED BY <1>1, <2>1
  <1> QED BY <1>1, <1>2, <1>3 DEF TypeOK, Linked

LEMMA CommitsIsTyped ==
  ASSUME NEW s \in Sound, Commits(s), Len(s.svcs) <= MaxServices, Len(s.emps) <= MaxEmployees,
         edits' \in 0 .. MaxEdits
  PROVE  TypeOK'
  BY CommitIsTyped DEF Commits

\* Renumbering keeps everything well-formed, and nothing but an extension that
\* nobody has is in its way.
LEMMA RenumberResultIs ==
  ASSUME TypeOK
  PROVE  /\ RenumberResult \in Sound
         /\ Len(RenumberResult.emps) = Len(emps) /\ RenumberResult.svcs = svcs
         /\ RenumberIsPossible
  <1> DEFINE order == Everyone(State)
             s == AllAssigned(State, order)
             r == RenumberResult
  <1>1. /\ State \in Sound /\ State.error = "none" /\ State.emps = emps /\ State.svcs = svcs
        /\ DOMAIN emps = 1 .. Len(emps)
    BY StateIsSound
  <1>2. /\ order \in Seq(DOMAIN emps)
        /\ \A e \in DOMAIN emps : \E i \in 1 .. Len(order) : order[i] = e
    BY <1>1, EveryoneIs
  <1>3. r = IF s.error # "none" THEN s ELSE Renumbered(s, order) BY DEF RenumberResult
  <1>4. RenumberIsPossible =
          (r.error = "taken" =>
             \E x \in DOMAIN r.exts : ~ Held(r, x) /\
               \E n \in DOMAIN order : r.exts[x].number = Text(n, Width(r)))
    BY DEF RenumberIsPossible
  <1> HIDE DEF order, r
  <1>5. s \in LoopStates(State) BY <1>1, <1>2, AllAssignedIs
  <1> HIDE DEF s
  <1>6. /\ s \in Sound /\ s.error \in {"none", "full"} /\ Len(s.emps) = Len(emps)
        /\ s.svcs = svcs
    BY <1>1, <1>5 DEF LoopStates
  <1>7. DOMAIN s.emps = DOMAIN emps /\ DOMAIN order = 1 .. Len(order)
    BY <1>1, <1>2, <1>6, SoundFacts, LenProperties
  <1>8. CASE s.error # "none" BY <1>3, <1>4, <1>6, <1>8 DEF r
  <1>9. CASE s.error = "none"
    <2>1. r = Renumbered(s, order) BY <1>3, <1>9
    <2>2. order \in Seq(DOMAIN s.emps) BY <1>2, <1>7
    <2>3. /\ r \in Sound /\ r.svcs = s.svcs /\ r.emps = s.emps
          /\ r.error = "taken" =>
               \E y \in DOMAIN r.exts :
                 /\ \A j \in DOMAIN order : s.emps[order[j]].ext # y
                 /\ \E j \in DOMAIN order : r.exts[y].number = Text(j, Width(s))
      BY <1>6, <1>9, <2>1, <2>2, RenumberedIs
    <2>4. Width(r) = Width(s) BY <2>3 DEF Width, ActiveEmployees
    <2>5. ASSUME NEW y, \A j \in DOMAIN order : s.emps[order[j]].ext # y PROVE ~ Held(r, y)
      <3> SUFFICES ASSUME NEW e \in DOMAIN emps, s.emps[e].ext = y PROVE FALSE
        BY <1>7, <2>3 DEF Held
      <3>1. PICK i \in DOMAIN order : order[i] = e BY <1>2, <1>7
      <3> QED BY <2>5, <3>1
    <2>6. RenumberIsPossible BY <1>4, <2>3, <2>4, <2>5
    <2> QED BY <1>6, <2>3, <2>6 DEF r
  <1> QED BY <1>8, <1>9

-----------------------------------------------------------------------------
(* Every step keeps the types                                              *)

LEMMA NumbersAreNumbers ==
  /\ Typed \subseteq Number /\ Numbers \subseteq Number
  /\ ServiceNumbers \ {NoNumber} \subseteq Number
  <1>1. Typed \subseteq Number BY NumberAssumption DEF Number, NoNumber
  <1>2. NextUnused(State) = NoNumber \/ NextUnused(State) \in Number BY NextUnusedIs
  <1>3. NextService(State) = NoNumber \/ NextService(State) \in Number BY NextServiceIs
  <1> QED BY <1>1, <1>2, <1>3 DEF Numbers, ServiceNumbers

LEMMA HiredIs ==
  ASSUME TypeOK, NEW p \in 0 .. Len(emps), NEW u \in Users \union {0}
  PROVE  LET hired == [State EXCEPT !.emps =
               Append(@, [ext |-> IF u = 0 THEN 0 ELSE link[u], parent |-> p, user |-> u,
                          active |-> TRUE])]
         IN  /\ hired \in Sound /\ Len(hired.emps) = Len(emps) + 1 /\ hired.error = "none"
             /\ hired.exts = exts /\ hired.svcs = svcs
  <1> DEFINE x == IF u = 0 THEN 0 ELSE link[u]
             r == [ext |-> x, parent |-> p, user |-> u, active |-> TRUE]
             hired == [State EXCEPT !.emps = Append(@, r)]
  <1>1. /\ State \in Sound /\ State.error = "none"
        /\ State.exts = exts /\ State.svcs = svcs /\ State.emps = emps /\ State.link = link
        /\ Len(exts) \in Nat /\ Len(emps) \in Nat /\ DOMAIN emps = 1 .. Len(emps)
    BY StateIsSound
  <1>2. /\ State \in States /\ Linked(State) /\ emps \in Seq(Person)
        /\ \A e \in DOMAIN emps : emps[e] \in Person
    BY <1>1, SoundFacts DEF Sound
  <1>3. link \in [Users -> 0 .. Len(exts)] BY DEF TypeOK
  <1>4. x \in 0 .. Len(exts)
    <2>1. CASE u = 0 BY <1>1, <2>1
    <2>2. CASE u # 0
      <3>1. u \in Users BY <2>2
      <3> QED BY <1>3, <2>2, <3>1
    <2> QED BY <2>1, <2>2
  <1> HIDE DEF x
  <1>5. r \in Person /\ r.ext = x /\ r.parent = p BY <1>1, <1>4 DEF Person
  <1> HIDE DEF r
  <1>6. /\ hired.emps = Append(emps, r) /\ hired.exts = exts /\ hired.svcs = svcs
        /\ hired.link = link /\ hired.error = "none"
    BY <1>1, <1>2 DEF States
  <1>7. /\ hired.emps \in Seq(Person) /\ Len(hired.emps) = Len(emps) + 1
        /\ \A e \in 1 .. Len(emps) : hired.emps[e] = emps[e]
        /\ hired.emps[Len(emps) + 1] = r
    <2>1. /\ Append(emps, r) \in Seq(Person) /\ Len(Append(emps, r)) = Len(emps) + 1
          /\ \A e \in 1 .. Len(emps) : Append(emps, r)[e] = emps[e]
          /\ Append(emps, r)[Len(emps) + 1] = r
      BY <1>2, <1>5, AppendProperties
    <2> HIDE DEF hired
    <2> QED BY <1>6, <2>1
  <1>8. hired \in States BY <1>1, <1>2, <1>6, <1>7 DEF States
  <1>9. DOMAIN hired.emps = 1 .. Len(emps) + 1 BY <1>7, LenProperties
  <1>10. Linked(hired)
    <2>1. \A w \in Users : hired.link[w] <= Len(hired.exts) BY <1>1, <1>2, <1>6 DEF Linked
    <2>2. ASSUME NEW e \in 1 .. Len(emps) + 1
          PROVE  hired.emps[e].ext <= Len(hired.exts) /\ hired.emps[e].parent < e
      <3>1. CASE e \in 1 .. Len(emps) BY <1>1, <1>2, <1>6, <1>7, <3>1 DEF Linked
      <3>2. CASE e = Len(emps) + 1 BY <1>1, <1>4, <1>5, <1>6, <1>7, <3>2
      <3> QED BY <1>1, <3>1, <3>2
    <2> QED BY <1>9, <2>1, <2>2 DEF Linked
  <1> QED BY <1>6, <1>7, <1>8, <1>10 DEF Sound, r, x

LEMMA HireIsTyped ==
  ASSUME TypeOK, NEW p \in 0 .. Len(emps), NEW u \in Users \union {0},
         HireEmployee(p, u), edits' \in 0 .. MaxEdits
  PROVE  TypeOK' /\ \E s, t \in Sound :
           /\ s.exts = exts /\ s.svcs = svcs /\ t.exts = exts' /\ t.svcs = svcs'
           /\ t.svcs = s.svcs /\ NewIsUnused(s, t)
  <1> DEFINE e == Len(emps) + 1
             hired == [State EXCEPT !.emps =
               Append(@, [ext |-> IF u = 0 THEN 0 ELSE link[u], parent |-> p, user |-> u,
                          active |-> TRUE])]
             t == IF hired.emps[e].ext # 0 THEN hired ELSE Assigned(hired, e)
  <1>1. /\ hired \in Sound /\ Len(hired.emps) = Len(emps) + 1 /\ hired.error = "none"
        /\ hired.exts = exts /\ hired.svcs = svcs
    BY HiredIs
  <1>2. e <= MaxEmployees /\ Commits(t) BY DEF HireEmployee
  <1> HIDE DEF hired
  <1>3. e \in DOMAIN hired.emps BY <1>1, StateIsSound, SoundFacts
  <1>4. /\ t \in Sound /\ Len(t.emps) = e /\ t.svcs = svcs
        /\ t.error = "none" => NewIsUnused(hired, t)
    <2>1. CASE hired.emps[e].ext # 0 BY <1>1, <2>1 DEF NewIsUnused, SameNumbers
    <2>2. CASE hired.emps[e].ext = 0
      <3>1. t = Assigned(hired, e) BY <2>2
      <3> HIDE DEF t
      <3> QED BY <1>1, <1>3, <3>1, AssignedIs
    <2> QED BY <2>1, <2>2
  <1> HIDE DEF t
  <1>5. Len(svcs) <= MaxServices BY DEF TypeOK
  <1>6. TypeOK' BY <1>2, <1>4, <1>5, CommitsIsTyped
  <1>7. t.error = "none" /\ exts' = t.exts /\ svcs' = t.svcs BY <1>2 DEF Commits
  <1> QED BY <1>1, <1>4, <1>6, <1>7

LEMMA AssignIsTyped ==
  ASSUME TypeOK, NEW e \in DOMAIN emps, AssignExtension(e), edits' \in 0 .. MaxEdits
  PROVE  TypeOK' /\ \E s, t \in Sound :
           /\ s.exts = exts /\ s.svcs = svcs /\ t.exts = exts' /\ t.svcs = svcs'
           /\ t.svcs = s.svcs /\ NewIsUnused(s, t)
  <1> DEFINE t == Assigned(State, e)
  <1>1. /\ State \in Sound /\ State.error = "none"
        /\ State.exts = exts /\ State.svcs = svcs /\ State.emps = emps
    BY StateIsSound
  <1>2. Commits(t) BY DEF AssignExtension
  <1>3. /\ t \in Sound /\ Len(t.emps) = Len(emps) /\ t.svcs = svcs
        /\ t.error = "none" => NewIsUnused(State, t)
    BY <1>1, AssignedIs
  <1> HIDE DEF t
  <1>4. Len(svcs) <= MaxServices /\ Len(emps) <= MaxEmployees BY DEF TypeOK
  <1>5. TypeOK' BY <1>2, <1>3, <1>4, CommitsIsTyped
  <1>6. t.error = "none" /\ exts' = t.exts /\ svcs' = t.svcs BY <1>2 DEF Commits
  <1> QED BY <1>1, <1>3, <1>5, <1>6

LEMMA AddExtensionIs ==
  ASSUME TypeOK, NEW number \in Number, NEW u \in Users \union {0}, NEW checked \in BOOLEAN,
         AddExtension(number, u, checked), edits' \in 0 .. MaxEdits
  PROVE  /\ TypeOK' /\ svcs' = svcs
         /\ checked => ~ Collides(State, number, 0, 0)
         /\ Len(exts') = Len(exts) + 1 /\ exts'[Len(exts) + 1].number = number
         /\ \A x \in DOMAIN exts : exts'[x] = exts[x]
  <1> DEFINE t == Created(State, number, u, checked)
  <1>1. /\ State \in Sound /\ State.error = "none"
        /\ State.exts = exts /\ State.svcs = svcs /\ State.emps = emps
    BY StateIsSound
  <1>2. Commits(t) BY DEF AddExtension
  <1>3. ~ Refuses(State, number, 0) /\ (checked => ~ Collides(State, number, 0, 0))
    <2> SUFFICES ASSUME Refuses(State, number, 0) \/ (checked /\ Collides(State, number, 0, 0))
                 PROVE  FALSE
      OBVIOUS
    <2>1. t = [State EXCEPT !.error = "taken"] BY DEF Created
    <2>2. t.error = "taken" BY <1>1, <2>1 DEF Sound, States
    <2> HIDE DEF t
    <2> QED BY <1>2, <2>2 DEF Commits
  <1>4. /\ t \in Sound /\ Adds(State, t, number) /\ t.svcs = svcs /\ t.emps = emps
    BY <1>1, <1>3, CreatedIs
  <1> HIDE DEF t
  <1>5. /\ Len(svcs) <= MaxServices /\ Len(emps) <= MaxEmployees BY DEF TypeOK
  <1>6. TypeOK' BY <1>2, <1>4, <1>5, CommitsIsTyped
  <1>7. exts' = t.exts /\ svcs' = t.svcs BY <1>2 DEF Commits
  <1> QED BY <1>1, <1>3, <1>4, <1>6, <1>7 DEF Adds

\* An extension is written, and its user linked.
LEMMA SyncedIs ==
  ASSUME TypeOK, NEW x \in DOMAIN exts, NEW r \in Extension,
         Commits(Synced([State EXCEPT !.exts[x] = r], x)), edits' \in 0 .. MaxEdits
  PROVE  TypeOK' /\ svcs' = svcs /\ exts' = [exts EXCEPT ![x] = r]
  <1> DEFINE s == [State EXCEPT !.exts[x] = r]
             t == Synced(s, x)
  <1>1. /\ State \in Sound /\ State \in States /\ State.error = "none"
        /\ State.exts = exts /\ State.svcs = svcs /\ State.emps = emps /\ State.link = link
        /\ DOMAIN exts = 1 .. Len(exts) /\ Len(exts) \in Nat
        /\ exts \in Seq(Extension) /\ link \in [Users -> Nat] /\ Linked(State)
    BY StateIsSound, SoundFacts DEF Sound
  <1>2. /\ s \in [exts : Seq(Extension), svcs : Seq(Service), emps : Seq(Person),
                  link : [Users -> Nat], error : {"none"}]
        /\ s.exts = [exts EXCEPT ![x] = r]
        /\ s.svcs = svcs /\ s.emps = emps /\ s.link = link /\ s.error = "none"
        /\ Len(s.exts) = Len(exts)
    <2>1. [exts EXCEPT ![x] = r] \in Seq(Extension) /\ Len([exts EXCEPT ![x] = r]) = Len(exts)
      BY <1>1, ExtensionReplaced
    <2> QED BY <1>1, <2>1 DEF States
  <1> HIDE DEF s
  <1>3. x \in Nat /\ x <= Len(exts) BY <1>1
  <1> DEFINE l == [u \in Users |-> IF u = s.exts[x].user THEN x ELSE s.link[u]]
  <1>4. /\ t \in States /\ t.exts = s.exts /\ t.svcs = svcs /\ t.emps = emps
        /\ t.error = "none" /\ \A w \in Users : t.link[w] <= Len(exts)
    <2>1. t = [s EXCEPT !.link = l] BY <1>2 DEF Synced
    <2>2. l \in [Users -> Nat] BY <1>1, <1>2, <1>3
    <2>3. \A w \in Users : l[w] <= Len(exts) BY <1>1, <1>2, <1>3 DEF Linked
    <2> HIDE DEF l, t
    <2>4. /\ t \in States /\ t.exts = s.exts /\ t.svcs = svcs /\ t.emps = emps
          /\ t.error = "none" /\ t.link = l
      BY <1>2, <2>1, <2>2 DEF States
    <2> QED BY <2>3, <2>4
  <1> HIDE DEF t
  <1>5. Linked(t)
    <2>1. \A e \in DOMAIN emps : emps[e].ext <= Len(exts) /\ emps[e].parent < e
      BY <1>1 DEF Linked
    <2> QED BY <1>2, <1>4, <2>1 DEF Linked
  <1>6. Len(svcs) <= MaxServices /\ Len(emps) <= MaxEmployees BY DEF TypeOK
  <1>7. Commits(t) BY DEF t, s
  <1>8. TypeOK' BY <1>4, <1>5, <1>6, <1>7, CommitsIsTyped DEF Sound
  <1> QED BY <1>2, <1>4, <1>7, <1>8 DEF Commits

LEMMA WriteNumberIs ==
  ASSUME TypeOK, NEW x \in DOMAIN exts, NEW number \in Number,
         WriteNumber(x, number), edits' \in 0 .. MaxEdits
  PROVE  /\ TypeOK' /\ svcs' = svcs /\ ~ Collides(State, number, x, 0)
         /\ exts' = [exts EXCEPT ![x].number = number]
  <1> DEFINE r == [exts[x] EXCEPT !.number = number]
  <1>1. State.exts = exts /\ exts[x] \in Extension BY StateIsSound, SoundFacts
  <1>2. r \in Extension BY <1>1 DEF Extension
  <1>3. [State EXCEPT !.exts[x].number = number] = [State EXCEPT !.exts[x] = r]
    BY <1>1
  <1>4. ~ Collides(State, number, x, 0) /\ Commits(Synced([State EXCEPT !.exts[x] = r], x))
    BY <1>3 DEF WriteNumber
  <1>5. [exts EXCEPT ![x].number = number] = [exts EXCEPT ![x] = r] OBVIOUS
  <1> HIDE DEF r
  <1> QED BY <1>2, <1>4, <1>5, SyncedIs

LEMMA ToggleExtensionIsTyped ==
  ASSUME TypeOK, NEW x \in DOMAIN exts, ToggleExtension(x), edits' \in 0 .. MaxEdits
  PROVE  TypeOK'
  <1> DEFINE r == [exts[x] EXCEPT !.active = ~ @]
  <1>1. State.exts = exts /\ exts[x] \in Extension BY StateIsSound, SoundFacts
  <1>2. r \in Extension BY <1>1 DEF Extension
  <1>3. [State EXCEPT !.exts[x].active = ~ @] = [State EXCEPT !.exts[x] = r]
    BY <1>1
  <1>4. Commits(Synced([State EXCEPT !.exts[x] = r], x)) BY <1>3 DEF ToggleExtension
  <1> HIDE DEF r
  <1> QED BY <1>2, <1>4, SyncedIs

LEMMA WriteUserIsTyped ==
  ASSUME TypeOK, NEW x \in DOMAIN exts, NEW u \in Users \union {0}, WriteUser(x, u),
         edits' \in 0 .. MaxEdits
  PROVE  TypeOK'
  <1> DEFINE t == UserWritten(State, x, u)
  <1>1. /\ State \in Sound /\ State.exts = exts /\ State.svcs = svcs /\ State.emps = emps
    BY StateIsSound
  <1>2. Commits(t) BY DEF WriteUser
  <1>3. t \in Sound /\ t.svcs = svcs /\ t.emps = emps BY <1>1, UserWrittenIs
  <1> HIDE DEF t
  <1>4. Len(svcs) <= MaxServices /\ Len(emps) <= MaxEmployees BY DEF TypeOK
  <1> QED BY <1>2, <1>3, <1>4, CommitsIsTyped

LEMMA ServicesAreTyped ==
  ASSUME TypeOK, svcs' \in Seq(Service), Len(svcs') <= MaxServices,
         UNCHANGED <<exts, emps, link>>, edits' \in 0 .. MaxEdits
  PROVE  TypeOK'
  BY DEF TypeOK

LEMMA AddServiceIs ==
  ASSUME TypeOK, NEW number \in ServiceNumbers, NEW checked \in BOOLEAN,
         AddService(number, checked), edits' \in 0 .. MaxEdits
  PROVE  /\ TypeOK' /\ exts' = exts
         /\ checked => ~ Collides(State, number, 0, 0)
         /\ Len(svcs') = Len(svcs) + 1 /\ svcs'[Len(svcs) + 1].number = number
         /\ \A v \in DOMAIN svcs : svcs'[v] = svcs[v]
  <1> DEFINE r == [number |-> number, active |-> TRUE]
  <1>1. /\ Len(svcs) < MaxServices /\ number # NoNumber /\ svcs' = Append(svcs, r)
        /\ (checked => ~ Collides(State, number, 0, 0)) /\ UNCHANGED <<exts, emps, link>>
    BY DEF AddService
  <1>2. number \in Number BY <1>1, NumbersAreNumbers
  <1>3. r \in Service /\ r.number = number BY <1>2 DEF Service
  <1>4. svcs \in Seq(Service) /\ Len(svcs) \in Nat /\ DOMAIN svcs = 1 .. Len(svcs)
    BY StateIsSound DEF TypeOK
  <1> HIDE DEF r
  <1>5. /\ Append(svcs, r) \in Seq(Service) /\ Len(Append(svcs, r)) = Len(svcs) + 1
        /\ \A v \in 1 .. Len(svcs) : Append(svcs, r)[v] = svcs[v]
        /\ Append(svcs, r)[Len(svcs) + 1] = r
    BY <1>3, <1>4, AppendProperties
  <1>6. Len(svcs') <= MaxServices BY <1>1, <1>4, <1>5, NumberAssumption
  <1>7. TypeOK' BY <1>1, <1>5, <1>6, ServicesAreTyped
  <1> QED BY <1>1, <1>3, <1>4, <1>5, <1>7

LEMMA ServiceReplaced ==
  ASSUME TypeOK, NEW v \in DOMAIN svcs, NEW r \in Service, svcs' = [svcs EXCEPT ![v] = r],
         UNCHANGED <<exts, emps, link>>, edits' \in 0 .. MaxEdits
  PROVE  TypeOK'
  <1>1. svcs \in Seq(Service) /\ v \in 1 .. Len(svcs) /\ Len(svcs) <= MaxServices
    BY StateIsSound DEF TypeOK
  <1>2. svcs' \in Seq(Service) /\ Len(svcs') = Len(svcs) BY <1>1, ExceptSeq
  <1> QED BY <1>1, <1>2, ServicesAreTyped

LEMMA WriteServiceNumberIs ==
  ASSUME TypeOK, NEW v \in DOMAIN svcs, NEW number \in ServiceNumbers, NEW checked \in BOOLEAN,
         WriteServiceNumber(v, number, checked), edits' \in 0 .. MaxEdits
  PROVE  /\ TypeOK' /\ exts' = exts
         /\ checked => ~ Collides(State, number, 0, v)
         /\ svcs' = [svcs EXCEPT ![v].number = number]
  <1> DEFINE r == [svcs[v] EXCEPT !.number = number]
  <1>1. /\ number # NoNumber /\ svcs' = [svcs EXCEPT ![v] = r]
        /\ (checked => ~ Collides(State, number, 0, v)) /\ UNCHANGED <<exts, emps, link>>
    BY DEF WriteServiceNumber
  <1>2. number \in Number BY <1>1, NumbersAreNumbers
  <1>3. svcs[v] \in Service BY StateIsSound, SoundFacts
  <1>4. r \in Service BY <1>2, <1>3 DEF Service
  <1>5. TypeOK' 
    <2> HIDE DEF r
    <2> QED BY <1>1, <1>4, ServiceReplaced
  <1> QED BY <1>1, <1>5

LEMMA ToggleServiceIsTyped ==
  ASSUME TypeOK, NEW v \in DOMAIN svcs, ToggleService(v), edits' \in 0 .. MaxEdits
  PROVE  TypeOK'
  <1> DEFINE r == [svcs[v] EXCEPT !.active = ~ @]
  <1>1. svcs' = [svcs EXCEPT ![v] = r] /\ UNCHANGED <<exts, emps, link>>
    BY DEF ToggleService
  <1>2. svcs[v] \in Service BY StateIsSound, SoundFacts
  <1>3. r \in Service BY <1>2 DEF Service
  <1> HIDE DEF r
  <1> QED BY <1>1, <1>3, ServiceReplaced

LEMMA EmployeeReplaced ==
  ASSUME TypeOK, NEW e \in DOMAIN emps, NEW r \in Employee, r.ext <= Len(exts),
         r.parent = emps[e].parent, emps' = [emps EXCEPT ![e] = r],
         UNCHANGED <<exts, svcs, link>>, edits' \in 0 .. MaxEdits
  PROVE  TypeOK'
  <1>1. /\ emps \in Seq(Employee) /\ e \in 1 .. Len(emps) /\ Len(emps) <= MaxEmployees
        /\ DOMAIN emps = 1 .. Len(emps)
        /\ \A f \in DOMAIN emps : emps[f].ext <= Len(exts) /\ emps[f].parent < f
    BY StateIsSound DEF TypeOK
  <1>2. /\ emps' \in Seq(Employee) /\ Len(emps') = Len(emps)
        /\ \A f \in 1 .. Len(emps) : emps'[f] = IF f = e THEN r ELSE emps[f]
    BY <1>1, ExceptSeq
  <1>3. DOMAIN emps' = 1 .. Len(emps) BY <1>1
  <1>4. \A f \in DOMAIN emps' : emps'[f].ext <= Len(exts) /\ emps'[f].parent < f
    BY <1>1, <1>2, <1>3
  <1> QED BY <1>1, <1>2, <1>4 DEF TypeOK

LEMMA EmployeeIsTyped ==
  ASSUME TypeOK, NEW e \in DOMAIN emps, edits' \in 0 .. MaxEdits,
         \/ SyncFromUser(e)
         \/ ToggleEmployee(e)
         \/ \E x \in 0 .. Len(exts) : WriteExtension(e, x)
  PROVE  TypeOK'
  <1>1. /\ emps[e] \in Employee /\ emps[e].ext <= Len(exts) /\ Len(exts) \in Nat
        /\ Len(exts) <= MaxExtensions /\ link \in [Users -> 0 .. Len(exts)]
    <2>1. e \in 1 .. Len(emps) /\ Len(exts) \in Nat BY StateIsSound
    <2>2. emps \in Seq(Employee) BY DEF TypeOK
    <2> QED BY <2>1, <2>2, ElementOfSeq DEF TypeOK
  <1>2. ASSUME NEW x \in 0 .. Len(exts), emps' = [emps EXCEPT ![e].ext = x],
               UNCHANGED <<exts, svcs, link>>
        PROVE  TypeOK'
    <2> DEFINE r == [emps[e] EXCEPT !.ext = x]
    <2>1. x \in 0 .. MaxExtensions BY <1>1, NumberAssumption
    <2>2. r \in Employee /\ r.ext = x /\ r.parent = emps[e].parent BY <1>1, <2>1 DEF Employee
    <2>3. emps' = [emps EXCEPT ![e] = r] BY <1>2
    <2>4. x <= Len(exts) BY <1>1
    <2> HIDE DEF r
    <2> QED BY <1>2, <2>2, <2>3, <2>4, EmployeeReplaced
  <1>3. CASE SyncFromUser(e)
    <2>1. emps[e].user \in Users BY <1>1, <1>3 DEF SyncFromUser, Employee
    <2>2. link[emps[e].user] \in 0 .. Len(exts) BY <1>1, <2>1
    <2> QED BY <1>2, <1>3, <2>2 DEF SyncFromUser
  <1>4. CASE ToggleEmployee(e)
    <2> DEFINE r == [emps[e] EXCEPT !.active = ~ @]
    <2>1. r \in Employee /\ r.ext = emps[e].ext /\ r.parent = emps[e].parent
      BY <1>1 DEF Employee
    <2>2. emps' = [emps EXCEPT ![e] = r] /\ UNCHANGED <<exts, svcs, link>>
      BY <1>4 DEF ToggleEmployee
    <2> HIDE DEF r
    <2> QED BY <1>1, <2>1, <2>2, EmployeeReplaced
  <1>5. CASE \E x \in 0 .. Len(exts) : WriteExtension(e, x)
    BY <1>2, <1>5 DEF WriteExtension
  <1> QED BY <1>3, <1>4, <1>5

LEMMA TypeIsInductive == TypeOK /\ [Next]_vars => TypeOK'
  <1> SUFFICES ASSUME TypeOK, [Next]_vars PROVE TypeOK' OBVIOUS
  <1>1. CASE GiveStep /\ UNCHANGED edits
    <2>1. edits' \in 0 .. MaxEdits BY <1>1 DEF TypeOK
    <2> QED BY <1>1, <2>1, HireIsTyped, AssignIsTyped DEF GiveStep
  <1>2. CASE RenumberOrganization /\ UNCHANGED edits
    <2>1. /\ RenumberResult \in Sound /\ Len(RenumberResult.emps) = Len(emps)
          /\ RenumberResult.svcs = svcs
      BY RenumberResultIs
    <2>2. Commits(RenumberResult) BY <1>2 DEF RenumberOrganization
    <2>3. /\ Len(svcs) <= MaxServices /\ Len(emps) <= MaxEmployees /\ edits' \in 0 .. MaxEdits
      BY <1>2 DEF TypeOK
    <2> QED BY <2>1, <2>2, <2>3, CommitsIsTyped
  <1>3. CASE ByHand /\ (CheckedStep \/ FormStep \/ RecordStep)
    <2>1. edits' \in 0 .. MaxEdits BY <1>3, NumberAssumption DEF ByHand, TypeOK
    <2>2. CASE \E n \in Numbers, u \in Users \union {0}, checked \in BOOLEAN :
                 AddExtension(n, u, checked)
      BY <2>1, <2>2, AddExtensionIs, NumbersAreNumbers
    <2>3. CASE \E x \in DOMAIN exts, n \in Typed : WriteNumber(x, n)
      BY <2>1, <2>3, WriteNumberIs, NumbersAreNumbers
    <2>4. CASE \E n \in ServiceNumbers, checked \in BOOLEAN : AddService(n, checked)
      BY <2>1, <2>4, AddServiceIs
    <2>5. CASE \E n \in ServiceNumbers, v \in DOMAIN svcs, checked \in BOOLEAN :
                 WriteServiceNumber(v, n, checked)
      BY <2>1, <2>5, WriteServiceNumberIs
    <2>6. CASE RecordStep
      BY <2>1, <2>6, ToggleExtensionIsTyped, WriteUserIsTyped, ToggleServiceIsTyped,
         EmployeeIsTyped
      DEF RecordStep
    <2> QED BY <1>3, <2>2, <2>3, <2>4, <2>5, <2>6 DEF CheckedStep, FormStep
  <1>4. CASE UNCHANGED vars BY <1>4 DEF vars, TypeOK
  <1> QED BY <1>1, <1>2, <1>3, <1>4 DEF Next

-----------------------------------------------------------------------------
(* One namespace                                                           *)

\* A new extension whose number nothing active has.
LEMMA AddedExtensionIsUnique ==
  ASSUME TypeOK, TypeOK', DialNamespaceUnique, NEW number, ~ Collides(State, number, 0, 0),
         svcs' = svcs, Len(exts') = Len(exts) + 1, exts'[Len(exts) + 1].number = number,
         \A x \in DOMAIN exts : exts'[x].number = exts[x].number /\ exts'[x].active = exts[x].active
  PROVE  DialNamespaceUnique'
  <1>1. /\ DOMAIN exts = 1 .. Len(exts) /\ Len(exts) \in Nat
        /\ State.exts = exts /\ State.svcs = svcs
        /\ DOMAIN svcs = 1 .. Len(svcs) /\ Len(svcs) \in Nat
    BY StateIsSound
  <1>2. DOMAIN exts' = 1 .. Len(exts) + 1 BY LenProperties DEF TypeOK
  <1>3. /\ \A y \in DOMAIN exts : exts[y].active => exts[y].number # number
        /\ \A w \in DOMAIN svcs : svcs[w].active => svcs[w].number # number
    BY <1>1 DEF Collides
  <1>4. ASSUME NEW x \in DOMAIN exts' PROVE x \in DOMAIN exts \/ x = Len(exts) + 1
    BY <1>1, <1>2
  <1>5. ASSUME NEW x \in DOMAIN exts', NEW y \in DOMAIN exts', x # y, exts'[x].active, exts'[y].active
        PROVE  exts'[x].number # exts'[y].number
    BY <1>3, <1>4, <1>5 DEF DialNamespaceUnique
  <1>6. ASSUME NEW x \in DOMAIN exts', NEW v \in DOMAIN svcs, exts'[x].active, svcs[v].active
        PROVE  exts'[x].number # svcs[v].number
    BY <1>3, <1>4, <1>6 DEF DialNamespaceUnique
  <1>7. \A v \in DOMAIN svcs, w \in DOMAIN svcs :
          v # w /\ svcs[v].active /\ svcs[w].active => svcs[v].number # svcs[w].number
    BY DEF DialNamespaceUnique
  <1> QED BY <1>5, <1>6, <1>7 DEF DialNamespaceUnique

\* A number given out is nobody's.
LEMMA GivenIsUnique ==
  ASSUME TypeOK, TypeOK', DialNamespaceUnique, NEW s \in Sound, NEW t \in Sound,
         s.exts = exts, s.svcs = svcs, t.exts = exts', t.svcs = svcs', t.svcs = s.svcs,
         NewIsUnused(s, t)
  PROVE  DialNamespaceUnique'
  <1>1. /\ DOMAIN s.exts = 1 .. Len(s.exts) /\ DOMAIN t.exts = 1 .. Len(t.exts)
        /\ State.exts = exts /\ State.svcs = svcs
    BY SoundFacts, StateIsSound
  <1>2. CASE SameNumbers(s, t)
    <2>1. DOMAIN exts' = DOMAIN exts /\ svcs' = svcs BY <1>1, <1>2 DEF SameNumbers
    <2>2. \A x \in DOMAIN exts : exts'[x].number = exts[x].number
                                 /\ exts'[x].active = exts[x].active
      BY <1>2 DEF SameNumbers
    <2> QED BY <2>1, <2>2 DEF DialNamespaceUnique
  <1>3. CASE \E n \in Number : n \notin Used(s) /\ Adds(s, t, n)
    <2>1. PICK n \in Number : n \notin Used(s) /\ Adds(s, t, n) BY <1>3
    <2>2. ~ Collides(s, n, 0, 0) BY <2>1, UnusedIsAccepted
    <2>3. ~ Collides(State, n, 0, 0) BY <1>1, <2>2 DEF Collides
    <2>4. /\ Len(exts') = Len(exts) + 1 /\ exts'[Len(exts) + 1].number = n /\ svcs' = svcs
          /\ \A x \in DOMAIN exts : exts'[x] = exts[x]
      BY <2>1 DEF Adds
    <2> QED BY <2>3, <2>4, AddedExtensionIsUnique
  <1> QED BY <1>2, <1>3 DEF NewIsUnused

\* A new service whose number nothing active has.
LEMMA AddedServiceIsUnique ==
  ASSUME TypeOK, TypeOK', DialNamespaceUnique, NEW number, ~ Collides(State, number, 0, 0),
         exts' = exts, Len(svcs') = Len(svcs) + 1, svcs'[Len(svcs) + 1].number = number,
         \A v \in DOMAIN svcs : svcs'[v] = svcs[v]
  PROVE  DialNamespaceUnique'
  <1>1. /\ DOMAIN exts = 1 .. Len(exts) /\ Len(exts) \in Nat
        /\ State.exts = exts /\ State.svcs = svcs
        /\ DOMAIN svcs = 1 .. Len(svcs) /\ Len(svcs) \in Nat
    BY StateIsSound
  <1>2. DOMAIN svcs' = 1 .. Len(svcs) + 1 BY LenProperties DEF TypeOK
  <1>3. /\ \A y \in DOMAIN exts : exts[y].active => exts[y].number # number
        /\ \A w \in DOMAIN svcs : svcs[w].active => svcs[w].number # number
    BY <1>1 DEF Collides
  <1>4. ASSUME NEW v \in DOMAIN svcs' PROVE v \in DOMAIN svcs \/ v = Len(svcs) + 1
    BY <1>1, <1>2
  <1>5. ASSUME NEW v \in DOMAIN svcs', NEW w \in DOMAIN svcs', v # w, svcs'[v].active, svcs'[w].active
        PROVE  svcs'[v].number # svcs'[w].number
    BY <1>3, <1>4, <1>5 DEF DialNamespaceUnique
  <1>6. ASSUME NEW x \in DOMAIN exts, NEW v \in DOMAIN svcs', exts[x].active, svcs'[v].active
        PROVE  exts[x].number # svcs'[v].number
    BY <1>3, <1>4, <1>6 DEF DialNamespaceUnique
  <1>7. \A x \in DOMAIN exts, y \in DOMAIN exts :
          x # y /\ exts[x].active /\ exts[y].active => exts[x].number # exts[y].number
    BY DEF DialNamespaceUnique
  <1> QED BY <1>5, <1>6, <1>7 DEF DialNamespaceUnique

\* A number written that nothing else that is active has.
LEMMA WrittenIsUnique ==
  ASSUME TypeOK, DialNamespaceUnique, NEW number,
         \/ /\ svcs' = svcs
            /\ \E x \in DOMAIN exts : exts' = [exts EXCEPT ![x].number = number]
                                      /\ ~ Collides(State, number, x, 0)
         \/ /\ exts' = exts
            /\ \E v \in DOMAIN svcs : svcs' = [svcs EXCEPT ![v].number = number]
                                      /\ ~ Collides(State, number, 0, v)
  PROVE  DialNamespaceUnique'
  <1>1. /\ DOMAIN exts = 1 .. Len(exts) /\ DOMAIN svcs = 1 .. Len(svcs)
        /\ State.exts = exts /\ State.svcs = svcs
        /\ \A x \in DOMAIN exts : exts[x] \in Extension
        /\ \A v \in DOMAIN svcs : svcs[v] \in Service
    BY StateIsSound, SoundFacts
  <1>2. ASSUME NEW x \in DOMAIN exts, exts' = [exts EXCEPT ![x].number = number],
               ~ Collides(State, number, x, 0), svcs' = svcs
        PROVE  DialNamespaceUnique'
    <2>1. /\ \A y \in DOMAIN exts \ {x} : exts[y].active => exts[y].number # number
          /\ \A w \in DOMAIN svcs : svcs[w].active => svcs[w].number # number
      BY <1>1, <1>2 DEF Collides
    <2>2. /\ DOMAIN exts' = DOMAIN exts
          /\ \A y \in DOMAIN exts : exts'[y].active = exts[y].active
          /\ \A y \in DOMAIN exts : exts'[y].number = IF y = x THEN number ELSE exts[y].number
      BY <1>1, <1>2 DEF Extension
    <2> QED BY <1>2, <2>1, <2>2 DEF DialNamespaceUnique
  <1>3. ASSUME NEW v \in DOMAIN svcs, svcs' = [svcs EXCEPT ![v].number = number],
               ~ Collides(State, number, 0, v), exts' = exts
        PROVE  DialNamespaceUnique'
    <2>1. /\ \A y \in DOMAIN exts : exts[y].active => exts[y].number # number
          /\ \A w \in DOMAIN svcs \ {v} : svcs[w].active => svcs[w].number # number
      BY <1>1, <1>3 DEF Collides
    <2>2. /\ DOMAIN svcs' = DOMAIN svcs
          /\ \A w \in DOMAIN svcs : svcs'[w].active = svcs[w].active
          /\ \A w \in DOMAIN svcs : svcs'[w].number = IF w = v THEN number ELSE svcs[w].number
      BY <1>1, <1>3 DEF Service
    <2> QED BY <1>3, <2>1, <2>2 DEF DialNamespaceUnique
  <1> QED BY <1>2, <1>3

LEMMA PlannedStepIsUnique ==
  ASSUME TypeOK, [Next]_vars, GiveStep \/ CheckedStep, DialNamespaceUnique
  PROVE  DialNamespaceUnique'
  <1>1. TypeOK' BY TypeIsInductive
  <1>2. edits' \in 0 .. MaxEdits BY <1>1 DEF TypeOK
  <1>3. CASE GiveStep
    <2>1. \E s, t \in Sound :
            /\ s.exts = exts /\ s.svcs = svcs /\ t.exts = exts' /\ t.svcs = svcs'
            /\ t.svcs = s.svcs /\ NewIsUnused(s, t)
      BY <1>2, <1>3, HireIsTyped, AssignIsTyped DEF GiveStep
    <2> QED BY <1>1, <2>1, GivenIsUnique
  <1>4. CASE \E n \in Numbers, u \in Users \union {0} : AddExtension(n, u, TRUE)
    <2>1. PICK n \in Numbers, u \in Users \union {0} : AddExtension(n, u, TRUE) BY <1>4
    <2>2. /\ svcs' = svcs /\ ~ Collides(State, n, 0, 0)
          /\ Len(exts') = Len(exts) + 1 /\ exts'[Len(exts) + 1].number = n
          /\ \A x \in DOMAIN exts : exts'[x] = exts[x]
      BY <1>2, <2>1, AddExtensionIs, NumbersAreNumbers
    <2> QED BY <1>1, <2>2, AddedExtensionIsUnique
  <1>5. CASE \E x \in DOMAIN exts, n \in Typed : WriteNumber(x, n)
    BY <1>2, <1>5, WriteNumberIs, WrittenIsUnique, NumbersAreNumbers
  <1>6. CASE \E n \in ServiceNumbers : AddService(n, TRUE)
    <2>1. PICK n \in ServiceNumbers : AddService(n, TRUE) BY <1>6
    <2>2. /\ exts' = exts /\ ~ Collides(State, n, 0, 0)
          /\ Len(svcs') = Len(svcs) + 1 /\ svcs'[Len(svcs) + 1].number = n
          /\ \A v \in DOMAIN svcs : svcs'[v] = svcs[v]
      BY <1>2, <2>1, AddServiceIs
    <2> QED BY <1>1, <2>2, AddedServiceIsUnique
  <1>7. CASE \E n \in ServiceNumbers, v \in DOMAIN svcs : WriteServiceNumber(v, n, TRUE)
    BY <1>2, <1>7, WriteServiceNumberIs, WrittenIsUnique
  <1> QED BY <1>3, <1>4, <1>5, <1>6, <1>7 DEF CheckedStep

-----------------------------------------------------------------------------
(* Theorems                                                                *)

LEMMA TypeInitially == Init => TypeOK
  <1> SUFFICES ASSUME Init PROVE TypeOK OBVIOUS
  <1>1. \A S : << >> \in Seq(S) /\ Len(<< >>) = 0 /\ DOMAIN << >> = {} OBVIOUS
  <1>2. link \in [Users -> 0 .. 0] BY DEF Init
  <1> QED BY <1>1, <1>2, NumberAssumption DEF Init, TypeOK

\* Whatever is hired, archived, entered or renumbered, links and employees lead
\* to extensions there are, managers are older than their reports, and every
\* record has a number made of digits.
THEOREM TypeCorrect == Spec => []TypeOK
  <1>1. Init => TypeOK BY TypeInitially
  <1>2. TypeOK /\ [Next]_vars => TypeOK' BY TypeIsInductive
  <1> QED BY <1>1, <1>2, PTL DEF Spec

\* For every company the allocator never gives out a number that create then
\* refuses, whatever was archived, renumbered or outgrown before.
THEOREM AllocatorIsAccepted == Spec => []GivenIsAccepted
  <1>1. TypeOK => GivenIsAccepted
    <2> SUFFICES ASSUME TypeOK, NEW e \in DOMAIN emps PROVE Assigned(State, e).error # "taken"
      BY DEF GivenIsAccepted
    <2>1. State \in Sound /\ State.error = "none" /\ State.emps = emps BY StateIsSound
    <2>2. Assigned(State, e).error \in {"none", "full"} BY <2>1, AssignedIs
    <2> QED BY <2>2
  <1> QED BY <1>1, TypeCorrect, PTL

\* For every company a renumbering is refused only where an extension nobody has
\* holds one of the numbers wanted: the temporary numbers and the flush between
\* the phases let the employees' own numbers swap places in every way.
THEOREM SwapsAreNeverRefused == Spec => []RenumberIsPossible
  <1>1. TypeOK => RenumberIsPossible BY RenumberResultIs
  <1> QED BY <1>1, TypeCorrect, PTL

\* For every company no number that is given out, and none that is entered with
\* the company among the values, is dialled to a second place.
THEOREM PlannedNumbersAreUnique == Spec => PlannedStaysUnique
  <1>1. TypeOK /\ [Next]_vars =>
          [DialNamespaceUnique /\ ~ DialNamespaceUnique' => ~ (GiveStep \/ CheckedStep)]_vars
    BY PlannedStepIsUnique
  <1> QED BY <1>1, TypeCorrect, PTL DEF Spec, PlannedStaysUnique
=============================================================================
