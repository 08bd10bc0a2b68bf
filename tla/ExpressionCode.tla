--------------------------- MODULE ExpressionCode ---------------------------
(***************************************************************************)
(* Proofs about the code Expression generates, and about what C says of    *)
(* expressions: for any set of expressions that has their parts, any width *)
(* of int, any argument registers and any callees.  Code, CValues,         *)
(* VoidUses and VoidBehindComma satisfy their recursive definitions; the   *)
(* code of each expression is that of its parts put together; the compiler *)
(* dies for the void calls it should; labels are unique, and stack_index   *)
(* behind an expression is what it was before.                             *)
(***************************************************************************)
EXTENDS Expression, SequenceTheorems, FiniteSetTheorems, WellFoundedInduction, TLAPS

-----------------------------------------------------------------------------
(***************************************************************************)
(* Induction and recursion.                                                *)
(***************************************************************************)
\* Every set of natural numbers but the empty one has a least element.
LEMMA LeastExists ==
  ASSUME NEW S, S \subseteq Nat, S # {}
  PROVE  \E x \in S : \A y \in S : x <= y
PROOF
  <1>1. IsWellFoundedOn(OpToRel(<, Nat), Nat)
    BY NatLessThanWellFounded
  <1>2. PICK x \in S : \A y \in S : ~(<<y, x>> \in OpToRel(<, Nat))
    BY <1>1, WFMin
  <1>3. \A y \in S : ~(y < x) /\ y \in Nat /\ x \in Nat
    BY <1>2 DEF OpToRel
  <1>4. \A y \in S : x <= y
    BY <1>3
  <1>. QED BY <1>4

\* A set of numbers up to n that has 0 and with a number the next has all of them.
LEMMA Upwards ==
  ASSUME NEW n \in Nat, NEW S, 0 \in S,
         \A k \in 0 .. n - 1 : k \in S => k + 1 \in S
  PROVE  0 .. n \subseteq S
PROOF
  <1> DEFINE Missing == {k \in 0 .. n : k \notin S}
  <1>1. SUFFICES ASSUME Missing # {} PROVE FALSE
    OBVIOUS
  <1>2. Missing \subseteq Nat
    OBVIOUS
  <1> HIDE DEF Missing
  <1>3. PICK k \in Missing : \A j \in Missing : k <= j
    BY <1>1, <1>2, LeastExists, Zenon
  <1>4. k \in 0 .. n /\ k \notin S
    BY <1>3 DEF Missing
  <1>5. k # 0
    BY <1>4
  <1>6. k - 1 \in 0 .. n - 1 /\ k - 1 \in 0 .. n /\ ~(k <= k - 1) /\ (k - 1) + 1 = k
    BY <1>4, <1>5
  <1>7. k - 1 \in S
    BY <1>3, <1>6, Zenon DEF Missing
  <1>8. (k - 1) + 1 \in S
    BY <1>6, <1>7, Zenon
  <1>. QED BY <1>4, <1>6, <1>8, Zenon

\* Two functions that satisfy a recursive definition up to a rank agree up to it.
Sound(D, S, r, F, f, k) ==
  f \in [D -> S] /\ \A x \in D : r[x] < k => f[x] = F[<<x, f>>]

Ranked(D, S, r, F) ==
  /\ S # {} /\ r \in [D -> Nat] /\ F \in [D \X [D -> S] -> S]
  /\ \A x \in D : \A g, h \in [D -> S] :
    (\A y \in D : r[y] < r[x] => g[y] = h[y]) => F[<<x, g>>] = F[<<x, h>>]

\* Two functions that solve the same recursion up to height k agree below it.
LEMMA RecursionUnique ==
  ASSUME NEW D, NEW S, NEW r, NEW F, Ranked(D, S, r, F), NEW k \in Nat,
         NEW f, NEW h, Sound(D, S, r, F, f, k), Sound(D, S, r, F, h, k)
  PROVE  \A x \in D : r[x] < k => f[x] = h[x]
PROOF
  <1>0. r \in [D -> Nat]
    BY DEF Ranked
  <1>f. f \in [D -> S] /\ h \in [D -> S]
    BY DEF Sound
  <1> DEFINE Differs == {n \in Nat : \E x \in D : r[x] = n /\ n < k /\ f[x] # h[x]}
  <1>1. Differs = {}
    <2>1. SUFFICES ASSUME Differs # {} PROVE FALSE
      OBVIOUS
    <2>2. Differs \subseteq Nat
      OBVIOUS
    <2> HIDE DEF Differs
    <2>3. PICK n \in Differs : \A j \in Differs : n <= j
      BY <2>1, <2>2, LeastExists, Zenon
    <2>4. PICK x \in D : r[x] = n /\ n < k /\ f[x] # h[x] /\ n \in Nat
      BY <2>3 DEF Differs
    <2>5. \A y \in D : r[y] < r[x] => f[y] = h[y]
      <3>1. SUFFICES ASSUME NEW y \in D, r[y] < r[x], f[y] # h[y] PROVE FALSE
        OBVIOUS
      <3>2. r[y] \in Nat /\ r[y] < n /\ r[y] < k /\ ~(n <= r[y])
        BY <1>0, <2>4, <3>1
      <3>3. r[y] \in Differs
        BY <3>1, <3>2, Zenon DEF Differs
      <3>. QED BY <2>3, <3>2, <3>3, Zenon
    <2>6. F[<<x, f>>] = F[<<x, h>>]
      BY <2>5, <1>f, Zenon DEF Ranked
    <2>7. r[x] < k
      BY <2>4
    <2>8. f[x] = F[<<x, f>>] /\ h[x] = F[<<x, h>>]
      BY <2>7, Zenon DEF Sound
    <2>. QED BY <2>4, <2>6, <2>8
  <1>2. ASSUME NEW x \in D, r[x] < k PROVE f[x] = h[x]
    <2>1. r[x] \in Nat /\ r[x] \notin Differs
      BY <1>0, <1>1
    <2>. QED BY <1>2, <2>1, Zenon DEF Differs
  <1>. QED BY <1>2

Solution(D, S, F, f) == f \in [D -> S] /\ \A x \in D : f[x] = F[<<x, f>>]

\* A recursive definition in which a value depends on values of lower rank only has
\* a solution.
LEMMA Recursion ==
  ASSUME NEW D, NEW S, NEW r, NEW F, Ranked(D, S, r, F)
  PROVE  \E f : Solution(D, S, F, f)
PROOF
  <1>0. r \in [D -> Nat] /\ F \in [D \X [D -> S] -> S]
    BY DEF Ranked
  <1>a. PICK a \in S : TRUE
    BY DEF Ranked
  <1> DEFINE Upto(k) == \E f \in [D -> S] : Sound(D, S, r, F, f, k)
             Good == {k \in Nat : Upto(k)}
  <1>1. Upto(0)
    <2>1. [x \in D |-> a] \in [D -> S]
      OBVIOUS
    <2>2. Sound(D, S, r, F, [x \in D |-> a], 0)
      BY <1>0, <2>1 DEF Sound
    <2>. QED BY <2>1, <2>2
  <1>2. ASSUME NEW k \in Nat, Upto(k) PROVE Upto(k + 1)
    <2>1. PICK f \in [D -> S] : Sound(D, S, r, F, f, k)
      BY <1>2
    <2> DEFINE g == [x \in D |-> F[<<x, f>>]]
    <2>2. g \in [D -> S] /\ \A x \in D : g[x] = F[<<x, f>>]
      BY <1>0
    <2> HIDE DEF g
    <2>3. ASSUME NEW x \in D, r[x] < k + 1 PROVE g[x] = F[<<x, g>>]
      <3>1. \A y \in D : r[y] < r[x] => g[y] = f[y]
        <4>1. SUFFICES ASSUME NEW y \in D, r[y] < r[x] PROVE g[y] = f[y]
          OBVIOUS
        <4>2. r[y] < k
          BY <1>0, <2>3, <4>1
        <4>. QED BY <2>1, <2>2, <4>2, Zenon DEF Sound
      <3>2. F[<<x, g>>] = F[<<x, f>>]
        BY <2>2, <3>1, Zenon DEF Ranked
      <3>. QED BY <2>2, <3>2
    <2>4. Sound(D, S, r, F, g, k + 1)
      BY <2>2, <2>3 DEF Sound
    <2>. QED BY <2>2, <2>4
  <1> HIDE DEF Upto
  <1>3. ASSUME NEW k \in Nat PROVE Upto(k)
    <2>1. 0 \in Good /\ \A j \in 0 .. k - 1 : j \in Good => j + 1 \in Good
      <3>1. 0 \in Good
        BY <1>1
      <3>2. ASSUME NEW j \in 0 .. k - 1, j \in Good PROVE j + 1 \in Good
        <4>1. j \in Nat /\ j + 1 \in Nat /\ Upto(j)
          BY <3>2
        <4>2. Upto(j + 1)
          BY <1>2, <4>1
        <4>. QED BY <4>1, <4>2
      <3>. QED BY <3>1, <3>2
    <2> HIDE DEF Good
    <2>2. 0 .. k \subseteq Good
      BY <2>1, Upwards
    <2>3. k \in 0 .. k
      OBVIOUS
    <2>. QED BY <2>2, <2>3 DEF Good
  <1> DEFINE s(k) == CHOOSE f \in [D -> S] : Sound(D, S, r, F, f, k)
  <1>4. ASSUME NEW k \in Nat PROVE s(k) \in [D -> S] /\ Sound(D, S, r, F, s(k), k)
    BY <1>3 DEF Upto
  <1> HIDE DEF s
  <1> DEFINE f == [x \in D |-> s(r[x] + 1)[x]]
  <1>5. \A x \in D : r[x] + 1 \in Nat /\ s(r[x] + 1) \in [D -> S]
    BY <1>0, <1>4
  <1>6. f \in [D -> S] /\ \A x \in D : f[x] = s(r[x] + 1)[x]
    BY <1>5
  <1> HIDE DEF f
  <1>7. ASSUME NEW x \in D PROVE f[x] = F[<<x, f>>]
    <2> DEFINE h == s(r[x] + 1)
    <2>0. r[x] \in Nat /\ r[x] + 1 \in Nat /\ r[x] < r[x] + 1
      BY <1>0
    <2>1. h \in [D -> S] /\ Sound(D, S, r, F, h, r[x] + 1)
      BY <2>0, <1>4
    <2>2. h[x] = F[<<x, h>>]
      BY <2>0, <2>1 DEF Sound
    <2>3. ASSUME NEW y \in D, r[y] < r[x] PROVE f[y] = h[y]
      <3> DEFINE i == s(r[y] + 1)
                 m == r[y] + 1
      <3>1. m \in Nat /\ r[y] < m /\ m <= r[x] + 1
        BY <1>0, <2>3
      <3>2. i \in [D -> S] /\ Sound(D, S, r, F, i, m)
        BY <3>1, <1>4
      <3>3. Sound(D, S, r, F, h, m)
        <4>1. ASSUME NEW z \in D, r[z] < m PROVE h[z] = F[<<z, h>>]
          <5>1. r[z] < r[x] + 1
            BY <1>0, <4>1, <3>1, <2>0
          <5>. QED BY <5>1, <2>1, Zenon DEF Sound
        <4>. QED BY <2>1, <4>1 DEF Sound
      <3> HIDE DEF m, i, h
      <3>4. \A z \in D : r[z] < m => i[z] = h[z]
        BY <2>1, <3>1, <3>2, <3>3, RecursionUnique
      <3>5. i[y] = h[y]
        BY <3>1, <3>4
      <3>. QED BY <3>5, <1>6 DEF m, i
    <2>4. F[<<x, f>>] = F[<<x, h>>]
      <3> HIDE DEF h
      <3>. QED BY <1>6, <2>1, <2>3, Zenon DEF Ranked
    <2>. QED BY <1>6, <2>2, <2>4
  <1>. QED BY <1>6, <1>7 DEF Solution

-----------------------------------------------------------------------------
(***************************************************************************)
(* Words.                                                                  *)
(***************************************************************************)
\* Powers of two are positive: they count the subsets of a set.
LEMMA PowerPositive ==
  ASSUME NEW n \in Nat
  PROVE  2 ^ n \in Nat \ {0}
PROOF
  <1>1. IsFiniteSet(1 .. n) /\ Cardinality(1 .. n) = n
    <2>1. IsFiniteSet(1 .. n) /\ Cardinality(1 .. n) = IF 1 > n THEN 0 ELSE n - 1 + 1
      BY FS_Interval
    <2>. QED BY <2>1
  <1>2. IsFiniteSet(SUBSET (1 .. n)) /\ Cardinality(SUBSET (1 .. n)) = 2 ^ n
    BY <1>1, FS_SUBSET
  <1>3. SUBSET (1 .. n) # {}
    OBVIOUS
  <1>4. Cardinality(SUBSET (1 .. n)) \in Nat /\ Cardinality(SUBSET (1 .. n)) # 0
    BY <1>2, <1>3, FS_CardinalityType, FS_EmptySet
  <1>. QED BY <1>2, <1>4

\* A word has at least two bits, so there are at least four.
LEMMA FourWords == 2 ^ Bits \in Nat /\ 2 ^ Bits >= 4
PROOF
  <1>0. Bits \in Nat /\ Bits >= 2
    BY ProcessorAssumption
  <1> DEFINE A == {{}}
             B == A \cup {{1}}
             C == B \cup {{2}}
             D == C \cup {{1, 2}}
  <1>1. IsFiniteSet({}) /\ Cardinality({}) = 0
    BY FS_EmptySet
  <1>2. IsFiniteSet(A) /\ Cardinality(A) = 1
    <2>1. IsFiniteSet({} \cup {{}}) /\ Cardinality({} \cup {{}}) = 0 + 1
      BY <1>1, FS_AddElement
    <2>2. {} \cup {{}} = A
      OBVIOUS
    <2>. QED BY <2>1, <2>2
  <1>3. IsFiniteSet(B) /\ Cardinality(B) = 2
    <2>1. {1} \notin A
      OBVIOUS
    <2> HIDE DEF A
    <2>2. /\ IsFiniteSet(A \cup {{1}})
          /\ Cardinality(A \cup {{1}}) = IF {1} \in A THEN Cardinality(A) ELSE Cardinality(A) + 1
      BY <1>2, FS_AddElement, Zenon
    <2>. QED BY <2>1, <2>2, <1>2
  <1>4. IsFiniteSet(C) /\ Cardinality(C) = 3
    <2>1. {2} \notin B
      OBVIOUS
    <2> HIDE DEF B
    <2>2. /\ IsFiniteSet(B \cup {{2}})
          /\ Cardinality(B \cup {{2}}) = IF {2} \in B THEN Cardinality(B) ELSE Cardinality(B) + 1
      BY <1>3, FS_AddElement, Zenon
    <2>. QED BY <2>1, <2>2, <1>3
  <1>5. IsFiniteSet(D) /\ Cardinality(D) = 4
    <2>1. {1, 2} \notin C
      OBVIOUS
    <2> HIDE DEF C
    <2>2. /\ IsFiniteSet(C \cup {{1, 2}})
          /\ Cardinality(C \cup {{1, 2}}) = IF {1, 2} \in C THEN Cardinality(C) ELSE Cardinality(C) + 1
      BY <1>4, FS_AddElement, Zenon
    <2>. QED BY <2>1, <2>2, <1>4
  <1>6. IsFiniteSet(1 .. Bits) /\ Cardinality(1 .. Bits) = Bits
    <2>1. IsFiniteSet(1 .. Bits) /\ Cardinality(1 .. Bits) = IF 1 > Bits THEN 0 ELSE Bits - 1 + 1
      BY <1>0, FS_Interval
    <2>. QED BY <1>0, <2>1
  <1>7. IsFiniteSet(SUBSET (1 .. Bits)) /\ Cardinality(SUBSET (1 .. Bits)) = 2 ^ Bits
    BY <1>6, FS_SUBSET
  <1>8. D \subseteq SUBSET (1 .. Bits)
    <2>1. 1 \in 1 .. Bits /\ 2 \in 1 .. Bits
      BY <1>0
    <2>. QED BY <2>1
  <1> HIDE DEF D
  <1>9. Cardinality(D) <= Cardinality(SUBSET (1 .. Bits))
    BY <1>7, <1>8, FS_Subset
  <1>10. 2 ^ Bits \in Nat \ {0}
    BY <1>0, PowerPositive
  <1>. QED BY <1>5, <1>7, <1>9, <1>10

\* The words: the integers from Least on, 2 ^ Bits of them, about half of them
\* negative.
LEMMA WordFacts ==
  /\ Least \in Int /\ Least <= 0 - 2 /\ 0 - 2 ^ Bits <= Least /\ Least + 2 ^ Bits - 1 >= 1
  /\ Word \subseteq Int
  /\ \A n : n \in Word <=> n \in Int /\ Least <= n /\ n < Least + 2 ^ Bits
  /\ 0 \in Word /\ 1 \in Word /\ 0 - 1 \in Word
PROOF
  <1>1. PICK m \in Nat : m = 2 ^ Bits /\ m >= 4
    BY FourWords
  <1>2. Least = 0 - m \div 2
    BY <1>1 DEF Least
  <1>3. m \div 2 \in Nat /\ m \div 2 >= 2 /\ 2 * (m \div 2) <= m
    BY <1>1
  <1>4. Least \in Int /\ Least <= 0 - 2 /\ 0 - m <= Least /\ Least + m - 1 >= 1
    BY <1>1, <1>2, <1>3
  <1>5. Word = Least .. Least + m - 1
    BY <1>1 DEF Word
  <1>. QED BY <1>1, <1>4, <1>5

\* A truth value is a word.
LEMMA BoolWord ==
  ASSUME NEW p
  PROVE  Bool(p) \in Word
PROOF
  BY WordFacts DEF Bool

\* Wrapping gives a word.
LEMMA WrapWord ==
  ASSUME NEW n \in Int
  PROVE  Wrap(n) \in Word
PROOF
  <1>1. PICK m \in Nat : m = 2 ^ Bits /\ m >= 4
    BY FourWords
  <1>2. Least \in Int
    BY WordFacts
  <1>3. PICK k \in Int : k = n - Least
    BY <1>2
  <1>4. k % m \in 0 .. m - 1
    BY <1>1
  <1>5. Wrap(n) = (k % m) + Least
    BY <1>1, <1>3 DEF Wrap
  <1>. QED BY <1>1, <1>2, <1>4, <1>5, WordFacts

\* The bits of a word, as a number.
LEMMA UnsignedFacts ==
  ASSUME NEW n \in Word
  PROVE  Unsigned(n) = IF n < 0 THEN n + 2 ^ Bits ELSE n
PROOF
  <1>1. PICK m \in Nat : m = 2 ^ Bits /\ m >= 4
    BY FourWords
  <1>2. n \in Int /\ 0 - m <= n /\ n < m
    BY <1>1, WordFacts
  <1>3. n % m = IF n < 0 THEN n + m ELSE n
    BY <1>1, <1>2
  <1>. QED BY <1>1, <1>3 DEF Unsigned

Iterates(f, n, S, a, G) ==
  f \in [0 .. n -> S] /\ \A k \in 0 .. n : f[k] = IF k = 0 THEN a ELSE G[<<k, f[k - 1]>>]

Steps(n, S, a, G) == n \in Nat /\ a \in S /\ G \in [(1 .. n) \X S -> S]

\* A definition by recursion on the numbers up to n has a solution.
LEMMA Iteration ==
  ASSUME NEW n, NEW S, NEW a, NEW G, Steps(n, S, a, G)
  PROVE  \E f : Iterates(f, n, S, a, G)
PROOF
  <1>0. n \in Nat /\ a \in S /\ G \in [(1 .. n) \X S -> S]
    BY DEF Steps
  <1> DEFINE D == 0 .. n
             r == [k \in D |-> k]
             F == [z \in D \X [D -> S] |->
                     IF z[1] = 0 THEN a ELSE G[<<z[1], z[2][z[1] - 1]>>]]
  <1>1. r \in [D -> Nat] /\ \A k \in D : r[k] = k
    BY <1>0
  <1>2. ASSUME NEW k \in D, NEW g \in [D -> S]
        PROVE  /\ F[<<k, g>>] = IF k = 0 THEN a ELSE G[<<k, g[k - 1]>>]
               /\ F[<<k, g>>] \in S
    <2>1. k # 0 => k \in 1 .. n /\ k - 1 \in D
      BY <1>0
    <2>2. F[<<k, g>>] = IF k = 0 THEN a ELSE G[<<k, g[k - 1]>>]
      OBVIOUS
    <2> HIDE DEF F
    <2>. QED BY <1>0, <2>1, <2>2
  <1>3. F \in [D \X [D -> S] -> S]
    <2>1. \A z \in D \X [D -> S] : z = <<z[1], z[2]>> /\ z[1] \in D /\ z[2] \in [D -> S]
      OBVIOUS
    <2>2. F = [z \in D \X [D -> S] |-> F[z]]
      OBVIOUS
    <2> HIDE DEF F
    <2>3. \A z \in D \X [D -> S] : F[z] \in S
      BY <1>2, <2>1
    <2>. QED BY <2>2, <2>3
  <1> HIDE DEF F, r
  <1>4. Ranked(D, S, r, F)
    <2>1. ASSUME NEW k \in D, NEW g \in [D -> S], NEW h \in [D -> S],
                 \A y \in D : r[y] < r[k] => g[y] = h[y]
          PROVE  F[<<k, g>>] = F[<<k, h>>]
      <3>1. k # 0 => k - 1 \in D /\ r[k - 1] < r[k]
        BY <1>0, <1>1
      <3>2. k # 0 => g[k - 1] = h[k - 1]
        BY <2>1, <3>1
      <3>. QED BY <1>2, <3>2
    <2>. QED BY <1>0, <1>1, <1>3, <2>1, Zenon DEF Ranked
  <1> HIDE DEF D
  <1>5. PICK f : f \in [D -> S] /\ \A k \in D : f[k] = F[<<k, f>>]
    <2>1. PICK f : Solution(D, S, F, f)
      BY <1>4, Recursion, Zenon
    <2>. QED BY <2>1 DEF Solution
  <1>6. \A k \in D : f[k] = IF k = 0 THEN a ELSE G[<<k, f[k - 1]>>]
    BY <1>2, <1>5, Zenon
  <1>. QED BY <1>5, <1>6 DEF Iterates, D

-----------------------------------------------------------------------------
(***************************************************************************)
(* The arithmetic of the processor.                                        *)
(***************************************************************************)
LEMMA FromBitsWord ==
  ASSUME NEW f \in [0 .. Bits - 1 -> Int]
  PROVE  FromBits(f) \in Word
PROOF
  <1>0. Bits \in Nat
    BY ProcessorAssumption
  <1> DEFINE next(i, n) == n + f[i - 1] * 2 ^ (i - 1)
             Solves(g) == g = [i \in 0 .. Bits |-> IF i = 0 THEN 0 ELSE next(i, g[i - 1])]
             sum == CHOOSE g : Solves(g)
             Move == [z \in (1 .. Bits) \X Int |-> next(z[1], z[2])]
  <1>1. ASSUME NEW i \in 1 .. Bits, NEW n \in Int PROVE next(i, n) \in Int
    <2>1. i - 1 \in Nat /\ i - 1 \in 0 .. Bits - 1
      BY <1>0
    <2>2. 2 ^ (i - 1) \in Nat
      BY <2>1, PowerPositive
    <2>3. PICK p \in Nat : p = 2 ^ (i - 1)
      BY <2>2
    <2>4. f[i - 1] \in Int
      BY <2>1
    <2>. QED BY <2>3, <2>4
  <1> HIDE DEF next
  <1>2. Move \in [(1 .. Bits) \X Int -> Int] /\ \A i \in 1 .. Bits, n \in Int : Move[<<i, n>>] = next(i, n)
    BY <1>1
  <1> HIDE DEF Move
  <1>3. PICK g : Iterates(g, Bits, Int, 0, Move)
    <2>1. Steps(Bits, Int, 0, Move)
      BY <1>0, <1>2 DEF Steps
    <2>. QED BY <2>1, Iteration, Zenon
  <1>4. \A k \in 0 .. Bits : g[k] = IF k = 0 THEN 0 ELSE next(k, g[k - 1])
    <2>0. g \in [0 .. Bits -> Int] /\ \A k \in 0 .. Bits : g[k] = IF k = 0 THEN 0 ELSE Move[<<k, g[k - 1]>>]
      BY <1>3 DEF Iterates
    <2>1. SUFFICES ASSUME NEW k \in 0 .. Bits, k # 0 PROVE g[k] = next(k, g[k - 1])
      BY <2>0
    <2>2. k \in 1 .. Bits /\ k - 1 \in 0 .. Bits
      BY <1>0, <2>1
    <2>. QED BY <1>2, <2>0, <2>1, <2>2
  <1>5. Solves(g)
    BY <1>3, <1>4 DEF Iterates
  <1>6. Solves(sum)
    BY <1>5, Zenon
  <1>7. \A i \in 0 .. Bits : sum[i] = IF i = 0 THEN 0 ELSE next(i, sum[i - 1])
    BY <1>6
  <1> HIDE DEF sum
  <1> DEFINE Reached == {i \in 0 .. Bits : sum[i] \in Int}
  <1>8. 0 .. Bits \subseteq Reached
    <2>1. 0 \in Reached
      BY <1>0, <1>7
    <2>2. ASSUME NEW k \in 0 .. Bits - 1, k \in Reached PROVE k + 1 \in Reached
      <3>1. k + 1 \in 1 .. Bits /\ k + 1 \in 0 .. Bits /\ k + 1 # 0 /\ (k + 1) - 1 = k
        BY <1>0
      <3>2. sum[k + 1] = next(k + 1, sum[k])
        BY <1>7, <3>1
      <3>3. sum[k] \in Int
        BY <2>2
      <3>. QED BY <1>1, <3>1, <3>2, <3>3
    <2> HIDE DEF Reached
    <2>. QED BY <1>0, <2>1, <2>2, Upwards
  <1>9. sum[Bits] \in Int
    BY <1>0, <1>8
  <1>10. FromBits(f) = Wrap(sum[Bits])
    BY DEF FromBits, sum, next
  <1>. QED BY <1>9, <1>10, WrapWord

\* A bit is 0 or 1.
LEMMA BitFacts ==
  ASSUME NEW n \in Word, NEW i \in Nat
  PROVE  Bit(n, i) \in 0 .. 1
PROOF
  <1>1. PICK p \in Nat \ {0} : p = 2 ^ i
    BY PowerPositive
  <1>2. PICK m \in Nat : m = 2 ^ Bits /\ m >= 4
    BY FourWords
  <1>3. n \in Int /\ Unsigned(n) = n % m /\ n % m \in Nat
    BY <1>2, WordFacts DEF Unsigned
  <1>4. PICK u \in Nat : u = Unsigned(n)
    BY <1>3
  <1>5. (u \div p) \in Nat
    BY <1>1
  <1>6. (u \div p) % 2 \in 0 .. 1
    BY <1>5
  <1>. QED BY <1>1, <1>4, <1>6 DEF Bit

\* and, or and exclusive or of words are words.
LEMMA BitwiseWord ==
  ASSUME NEW x \in Word, NEW y \in Word, NEW op \in {"&", "|", "^"}
  PROVE  Bitwise(op, x, y) \in Word
PROOF
  <1>0. Bits \in Nat
    BY ProcessorAssumption
  <1> DEFINE f == [i \in 0 .. Bits - 1 |->
                     CASE op = "&" -> Bit(x, i) * Bit(y, i)
                       [] op = "|" -> Bool(Bit(x, i) + Bit(y, i) > 0)
                       [] op = "^" -> (Bit(x, i) + Bit(y, i)) % 2]
  <1>1. ASSUME NEW i \in 0 .. Bits - 1 PROVE f[i] \in Int
    <2>1. i \in Nat
      BY <1>0
    <2>2. PICK a \in 0 .. 1, b \in 0 .. 1 : a = Bit(x, i) /\ b = Bit(y, i)
      BY <2>1, BitFacts
    <2>3. Bool(a + b > 0) \in Int /\ a * b \in Int /\ (a + b) % 2 \in Int
      BY <2>2, BoolWord, WordFacts
    <2>. QED BY <2>2, <2>3
  <1>2. f = [i \in 0 .. Bits - 1 |-> f[i]]
    OBVIOUS
  <1>3. Bitwise(op, x, y) = FromBits(f)
    BY DEF Bitwise
  <1> HIDE DEF f
  <1>4. f \in [0 .. Bits - 1 -> Int]
    BY <1>1, <1>2
  <1>. QED BY <1>3, <1>4, FromBitsWord

\* What an instruction on two registers leaves in eax is a word.
LEMMA AluWord ==
  ASSUME NEW x \in Word, NEW y \in Word,
         NEW op \in {"+", "-", "*", "&", "|", "^", "<<", ">>"}
  PROVE  Alu(op, x, y) \in Word
PROOF
  <1>0. Bits \in Nat /\ Bits >= 2 /\ x \in Int /\ y \in Int
    BY ProcessorAssumption, WordFacts
  <1>1. y % Bits \in Nat
    BY <1>0
  <1>2. PICK p \in Nat \ {0} : p = 2 ^ (y % Bits)
    BY <1>1, PowerPositive
  <1>3. PICK m \in Nat : m = 2 ^ Bits /\ m >= 4
    BY FourWords
  <1>4. PICK u \in Nat : u = Unsigned(x)
    BY <1>0, <1>3 DEF Unsigned
  <1>5. x + y \in Int /\ x - y \in Int /\ x * y \in Int /\ x * p \in Int /\ u \div p \in Int
    BY <1>0, <1>2, <1>4
  <1>6. /\ Wrap(x + y) \in Word /\ Wrap(x - y) \in Word /\ Wrap(x * y) \in Word
        /\ Wrap(x * p) \in Word /\ Wrap(u \div p) \in Word
    BY <1>5, WrapWord
  <1>7. op \in {"&", "|", "^"} => Bitwise(op, x, y) \in Word
    BY BitwiseWord
  <1>. QED BY <1>2, <1>4, <1>6, <1>7 DEF Alu

\* What neg, not, inc and dec leave in eax is a word.
LEMMA Alu1Word ==
  ASSUME NEW x \in Word, NEW op \in {"-", "~", "++", "--"}
  PROVE  Alu1(op, x) \in Word
PROOF
  <1>1. 0 - x \in Int /\ 0 - x - 1 \in Int /\ x + 1 \in Int /\ x - 1 \in Int
    BY WordFacts
  <1>2. /\ Wrap(0 - x) \in Word /\ Wrap(0 - x - 1) \in Word
        /\ Wrap(x + 1) \in Word /\ Wrap(x - 1) \in Word
    BY <1>1, WrapWord
  <1>. QED BY <1>2 DEF Alu1

\* cdq: edx and eax together have the value that eax has.
LEMMA SignExtended ==
  ASSUME NEW a \in Word
  PROVE  (IF a < 0 THEN 0 - 1 ELSE 0) * 2 ^ Bits + Unsigned(a) = a
PROOF
  <1>1. PICK m \in Nat : m = 2 ^ Bits /\ m >= 4
    BY FourWords
  <1>2. a \in Int /\ Unsigned(a) = IF a < 0 THEN a + m ELSE a
    BY <1>1, UnsignedFacts, WordFacts
  <1>. QED BY <1>1, <1>2

\* The remainder of a division lies between zero and the dividend.
LEMMA RemainderWord ==
  ASSUME NEW a \in Word, NEW b \in Word, b # 0
  PROVE  Quotient(a, b) \in Int /\ a - Quotient(a, b) * b \in Word
PROOF
  <1>1. a \in Int /\ b \in Int
    BY WordFacts
  <1>2. PICK x \in Nat, y \in Nat : x = Abs(a) /\ y = Abs(b) /\ y > 0
    BY <1>1 DEF Abs
  <1>3. PICK q \in Int : q = x \div y
    BY <1>2
  <1>4. q \in Nat /\ q * y \in Nat /\ q * y <= x
    BY <1>2, <1>3
  <1>5. PICK p \in Nat : p = q * y /\ p <= x
    BY <1>4
  <1>6. Quotient(a, b) = q * (IF (a < 0) = (b < 0) THEN 1 ELSE 0 - 1)
    BY <1>2, <1>3 DEF Quotient
  <1>7. PICK c \in Int : c = Quotient(a, b) /\ ((a < 0) = (b < 0) => c = q)
                         /\ (~((a < 0) = (b < 0)) => c = 0 - q)
    BY <1>4, <1>6
  <1>8. c * b = IF a < 0 THEN 0 - p ELSE p
    <2>1. b = y \/ b = 0 - y
      BY <1>1, <1>2 DEF Abs
    <2>2. q * b = p \/ q * b = 0 - p
      BY <1>4, <1>5, <2>1
    <2>3. CASE (a < 0) = (b < 0)
      <3>1. c = q
        BY <1>4, <1>6, <1>7, <2>3
      <3>2. CASE b < 0
        <4>1. b = 0 - y
          BY <1>1, <1>2, <3>2 DEF Abs
        <4>2. c * b = 0 - q * y
          BY <1>4, <3>1, <4>1
        <4>. QED BY <1>5, <2>3, <3>2, <4>2
      <3>3. CASE ~(b < 0)
        <4>1. b = y
          BY <1>1, <1>2, <3>3 DEF Abs
        <4>. QED BY <1>5, <2>3, <3>1, <3>3, <4>1
      <3>. QED BY <3>2, <3>3
    <2>4. CASE ~((a < 0) = (b < 0))
      <3>1. c = 0 - q
        BY <1>4, <1>6, <1>7, <2>4
      <3>2. CASE b < 0
        <4>1. b = 0 - y /\ ~(a < 0)
          BY <1>1, <1>2, <2>4, <3>2 DEF Abs
        <4>2. c * b = q * y
          BY <1>4, <3>1, <4>1
        <4>. QED BY <1>5, <4>1, <4>2
      <3>3. CASE ~(b < 0)
        <4>1. b = y /\ a < 0
          BY <1>1, <1>2, <2>4, <3>3 DEF Abs
        <4>2. c * b = 0 - q * y
          BY <1>4, <3>1, <4>1
        <4>. QED BY <1>5, <4>1, <4>2
      <3>. QED BY <3>2, <3>3
    <2>. QED BY <2>3, <2>4
  <1>9. x = IF a < 0 THEN 0 - a ELSE a
    BY <1>2 DEF Abs
  <1>10. PICK d \in Int : d = c * b /\ d = IF a < 0 THEN 0 - p ELSE p
    BY <1>5, <1>8
  <1>11. a - d \in Int /\ (a < 0 => a <= a - d /\ a - d <= 0) /\ (~(a < 0) => 0 <= a - d /\ a - d <= a)
    BY <1>1, <1>5, <1>9, <1>10
  <1>12. PICK l \in Int, m \in Int : l = Least /\ m = Least + 2 ^ Bits /\ l < 0 /\ l <= a /\ a < m
                                     /\ 1 < m
    BY FourWords, WordFacts
  <1>13. l <= a - d /\ a - d < m
    BY <1>1, <1>10, <1>11, <1>12
  <1>14. a - d \in Word
    BY <1>11, <1>12, <1>13, WordFacts
  <1>. QED BY <1>7, <1>10, <1>14

-----------------------------------------------------------------------------
(***************************************************************************)
(* Trees.                                                                  *)
(***************************************************************************)
LEMMA PartsFacts ==
  ASSUME NEW e \in Exps
  PROVE  /\ WellFormed(e) /\ Height(e) \in Nat
         /\ \A p \in Parts(e) : p \in Exps /\ Height(p) \in Nat /\ Height(p) < Height(e)
PROOF
  <1>1. /\ UNION {Parts(f) : f \in Exps} \subseteq Exps
        /\ \A f \in Exps : /\ WellFormed(f) /\ Height(f) \in Nat
                           /\ \A p \in Parts(f) : Height(p) < Height(f)
    BY ExpressionAssumption, Zenon DEF ExpressionAssumption
  <1>2. ASSUME NEW p \in Parts(e) PROVE p \in Exps
    BY <1>1, <1>2, Zenon
  <1>3. ASSUME NEW p \in Parts(e) PROVE Height(p) \in Nat /\ Height(p) < Height(e)
    BY <1>1, <1>2, Zenon
  <1>. QED BY <1>1, <1>2, <1>3, Zenon

\* A set that has an expression when it has its parts has all of them.
LEMMA TreeInduction ==
  ASSUME NEW S, \A e \in Exps : (\A p \in Parts(e) : p \in S) => e \in S
  PROVE  Exps \subseteq S
PROOF
  <1> DEFINE Missing == {k \in Nat : \E e \in Exps : e \notin S /\ Height(e) = k}
  <1>1. SUFFICES ASSUME NEW f \in Exps, f \notin S PROVE FALSE
    OBVIOUS
  <1>2. Height(f) \in Missing
    BY <1>1, PartsFacts
  <1>3. Missing \subseteq Nat /\ Missing # {}
    BY <1>2
  <1> HIDE DEF Missing
  <1>4. PICK k \in Missing : \A j \in Missing : k <= j
    BY <1>3, LeastExists, Zenon
  <1>5. PICK e \in Exps : e \notin S /\ Height(e) = k
    BY <1>4 DEF Missing
  <1>6. ASSUME NEW p \in Parts(e) PROVE p \in S
    <2>1. p \in Exps /\ Height(p) \in Nat /\ Height(e) \in Nat /\ Height(p) < Height(e)
      BY PartsFacts
    <2>2. ~(k <= Height(p))
      BY <1>5, <2>1
    <2>3. Height(p) \notin Missing
      BY <1>4, <2>2
    <2>. QED BY <2>1, <2>3 DEF Missing
  <1>. QED BY <1>5, <1>6

\* The kinds of expressions and their parts.
Kind(e, k) == e \in Exps /\ e[1] = k

\* A constant is a word and has no parts.
LEMMA ConstFacts ==
  ASSUME NEW e, Kind(e, "const")
  PROVE  e[2] \in Word /\ Parts(e) = {}
PROOF
  BY PartsFacts DEF Kind, WellFormed, Parts

\* A variable has a name and no parts.
LEMMA VarFacts ==
  ASSUME NEW e, Kind(e, "var")
  PROVE  e[2] \in Names /\ Parts(e) = {}
PROOF
  BY PartsFacts DEF Kind, WellFormed, Parts

\* The operator and the part of a unary expression.
LEMMA UnaryFacts ==
  ASSUME NEW e, Kind(e, "unary")
  PROVE  /\ e[2] \in {"-", "~", "!"}
         /\ Parts(e) = {e[3]} /\ e[3] \in Exps
PROOF
  BY PartsFacts DEF Kind, WellFormed, Parts

\* ++ and -- apply to a variable, which is the only part.
LEMMA StepFacts ==
  ASSUME NEW e, Kind(e, "prefix") \/ Kind(e, "suffix")
  PROVE  /\ e[2] \in {"++", "--"}
         /\ Parts(e) = {e[3]} /\ Kind(e[3], "var") /\ e[3] \in Exps /\ e[3][2] \in Names
PROOF
  <1>1. e \in Exps /\ e[2] \in {"++", "--"} /\ Parts(e) = {e[3]} /\ e[3][1] = "var"
    BY PartsFacts DEF Kind, WellFormed, Parts
  <1>2. Kind(e[3], "var")
    BY <1>1, PartsFacts DEF Kind
  <1>3. e[3][2] \in Names
    BY <1>2, VarFacts
  <1>. QED BY <1>1, <1>2, <1>3 DEF Kind

\* The operator and the parts of a binary expression; only a variable is assigned to.
LEMMA BinaryFacts ==
  ASSUME NEW e, Kind(e, "binary")
  PROVE  /\ e[2] \in Ordinary \cup {",", "&&", "||", "="}
         /\ Parts(e) = {e[3], e[4]} /\ e[3] \in Exps /\ e[4] \in Exps
         /\ e[2] = "=" => Kind(e[3], "var") /\ e[3][2] \in Names
PROOF
  <1>1. /\ e \in Exps /\ Parts(e) = {e[3], e[4]}
        /\ e[2] \in Ordinary \cup {",", "&&", "||"} \/ (e[2] = "=" /\ e[3][1] = "var")
    <2>1. e \in Exps /\ e[1] = "binary" /\ WellFormed(e)
      BY PartsFacts DEF Kind
    <2>2. Parts(e) = {e[3], e[4]}
      BY <2>1 DEF Parts
    <2>3. e[2] \in Ordinary \cup {",", "&&", "||"} \/ (e[2] = "=" /\ e[3][1] = "var")
      BY <2>1 DEF WellFormed
    <2>. QED BY <2>1, <2>2, <2>3
  <1>2. e[3] \in Exps /\ e[4] \in Exps
    BY <1>1, PartsFacts
  <1>3. "=" \notin Ordinary \cup {",", "&&", "||"}
    BY Zenon DEF Ordinary, Comparisons
  <1>4. e[2] = "=" => Kind(e[3], "var")
    BY <1>1, <1>2, <1>3, Zenon DEF Kind
  <1>5. Kind(e[3], "var") => e[3][2] \in Names
    BY VarFacts
  <1>6. e[2] \in Ordinary \cup {",", "&&", "||", "="}
    BY <1>1, Zenon
  <1>. QED BY <1>1, <1>2, <1>4, <1>5, <1>6, Zenon

\* The parts of a ternary expression.
LEMMA TernaryFacts ==
  ASSUME NEW e, Kind(e, "ternary")
  PROVE  Parts(e) = {e[2], e[3], e[4]} /\ e[2] \in Exps /\ e[3] \in Exps /\ e[4] \in Exps
PROOF
  BY PartsFacts DEF Kind, WellFormed, Parts

\* The parts of a call are its arguments.
LEMMA CallFacts ==
  ASSUME NEW e, Kind(e, "call")
  PROVE  /\ Parts(e) = Range(e[3]) /\ Len(e[3]) \in Nat /\ DOMAIN e[3] = 1 .. Len(e[3])
         /\ \A i \in 1 .. Len(e[3]) : e[3][i] \in Exps /\ e[3][i] \in Parts(e)
PROOF
  <1>1. e[3] \in Seq(Range(e[3])) /\ Parts(e) = Range(e[3])
    BY PartsFacts DEF Kind, WellFormed, Parts
  <1>2. Len(e[3]) \in Nat /\ DOMAIN e[3] = 1 .. Len(e[3])
    BY <1>1
  <1>3. \A i \in 1 .. Len(e[3]) : e[3][i] \in Parts(e)
    BY <1>1, <1>2 DEF Range
  <1>. QED BY <1>1, <1>2, <1>3, PartsFacts DEF Kind

\* Every expression is of one of eight kinds.
LEMMA Kinds ==
  ASSUME NEW e \in Exps
  PROVE  \/ Kind(e, "const") \/ Kind(e, "var") \/ Kind(e, "unary") \/ Kind(e, "prefix")
         \/ Kind(e, "suffix") \/ Kind(e, "binary") \/ Kind(e, "ternary") \/ Kind(e, "call")
PROOF
  BY PartsFacts DEF Kind, WellFormed

-----------------------------------------------------------------------------
(***************************************************************************)
(* The code of an expression.                                              *)
(***************************************************************************)
I(o, a, i) == [op |-> o, arg |-> a, at |-> i]

Args ==
  {e[2] : e \in Exps} \cup {<<e[2], Len(e[3])>> : e \in Exps} \cup Range(CallRegs)
  \cup Int \cup {"rax", "rcx", "rdx", "zero", "==", "!="}

Ops == {"mov", "copy", "load", "alu", "alu1", "set", "store", "inc", "dec", "cdq", "idiv",
        "cmp", "push", "pop", "call", "release", "jmp", "je", "jne", "label"}

Instr == [op : Ops, arg : Args, at : Int]

Contexts == [code : Seq(Instr), index : Int, labels : Nat, used : SUBSET VoidFuncs]

\* What a lemma may say of a context and of code, as operators: the provers match
\* them as they stand.
Cx(c, i, l, d) == [code |-> c, index |-> i, labels |-> l, used |-> d]
Nil == <<>>
None == {}
Cat(s, t) == s \o t
Join(d, u) == d \cup u
One(x) == <<x>>
Two(x, y) == <<x, y>>
Three(x, y, z) == <<x, y, z>>
Four(w, x, y, z) == <<w, x, y, z>>
Part(g, e, i, l, n) == g[<<e, i, l, n>>]
CodeOf(a) == a.code
IndexOf(a) == a.index
LabelsOf(a) == a.labels
UsedOf(a) == a.used

\* The fields of a context.
LEMMA CxFacts ==
  ASSUME NEW c, NEW i, NEW l, NEW d
  PROVE  /\ CodeOf(Cx(c, i, l, d)) = c /\ IndexOf(Cx(c, i, l, d)) = i
         /\ LabelsOf(Cx(c, i, l, d)) = l /\ UsedOf(Cx(c, i, l, d)) = d
PROOF
  BY DEF Cx, CodeOf, IndexOf, LabelsOf, UsedOf

\* generate_expression starts with no code.
LEMMA NewContextIs ==
  ASSUME NEW i, NEW l
  PROVE  NewContext(i, l) = Cx(Nil, i, l, None)
PROOF
  BY DEF NewContext, Cx, Nil, None

\* Making a label only counts it.
LEMMA NewLabelIs ==
  ASSUME NEW c, NEW i, NEW l, NEW d
  PROVE  NewLabel(Cx(c, i, l, d)) = Cx(c, i, l + 1, d)
PROOF
  BY DEF NewLabel, Cx

\* The code of a part goes behind the code before it.
Behind(c, d, p) == Cx(Cat(c, CodeOf(p)), IndexOf(p), LabelsOf(p), Join(d, UsedOf(p)))

\* The code of a part is put behind what there is.
LEMMA GenerateIs ==
  ASSUME NEW g, NEW c, NEW i, NEW l, NEW d, NEW e, NEW n
  PROVE  Generate(g, Cx(c, i, l, d), e, n) = Behind(c, d, Part(g, e, i, l, n))
PROOF
  BY DEF Generate, Cx, Part, Cat, Join, Behind, CodeOf, IndexOf, LabelsOf, UsedOf

\* The instructions s at stack_index i.
J(s, i) == [k \in DOMAIN s |-> I(s[k][1], s[k][2], i)]

\* Instructions are put behind what there is, all at the same stack_index.
LEMMA EmitIs ==
  ASSUME NEW c, NEW i, NEW l, NEW d, NEW s
  PROVE  Emit(Cx(c, i, l, d), s) = Cx(Cat(c, J(s, i)), i, l, d)
PROOF
  <1> DEFINE t == J(s, i)
             x == Cx(c, i, l, d)
  <1>1. x.index = i /\ x.code = c
    BY CxFacts DEF CodeOf, IndexOf
  <1>2. Emit(x, s) = [x EXCEPT !.code = @ \o t]
    BY <1>1, Zenon DEF Emit, I, J
  <1> HIDE DEF t
  <1>3. [x EXCEPT !.code = @ \o t] = Cx(c \o t, i, l, d)
    BY DEF Cx
  <1>. QED BY <1>2, <1>3 DEF t, Cat

Emit1(x, o, a) == Emit(x, << <<o, a>> >>)
Emit2(x, o, a, p, b) == Emit(x, << <<o, a>>, <<p, b>> >>)
Emit4(x, o, a, p, b, q, r, t, u) == Emit(x, << <<o, a>>, <<p, b>>, <<q, r>>, <<t, u>> >>)

\* So is one instruction.
LEMMA Emit1Is ==
  ASSUME NEW c, NEW i, NEW l, NEW d, NEW o, NEW a
  PROVE  Emit1(Cx(c, i, l, d), o, a) = Cx(Cat(c, One(I(o, a, i))), i, l, d)
PROOF
  <1> DEFINE s == << <<o, a>> >>
  <1>1. J(s, i) = One(I(o, a, i))
    BY DEF J, One
  <1> HIDE DEF s
  <1>2. Emit(Cx(c, i, l, d), s) = Cx(Cat(c, One(I(o, a, i))), i, l, d)
    BY <1>1, EmitIs
  <1>. QED BY <1>2, Zenon DEF Emit1, s

\* So are two.
LEMMA Emit2Is ==
  ASSUME NEW c, NEW i, NEW l, NEW d, NEW o, NEW a, NEW p, NEW b
  PROVE  Emit2(Cx(c, i, l, d), o, a, p, b) = Cx(Cat(c, Two(I(o, a, i), I(p, b, i))), i, l, d)
PROOF
  <1> DEFINE s == << <<o, a>>, <<p, b>> >>
  <1>1. J(s, i) = Two(I(o, a, i), I(p, b, i))
    BY DEF J, Two
  <1> HIDE DEF s
  <1>2. Emit(Cx(c, i, l, d), s) = Cx(Cat(c, Two(I(o, a, i), I(p, b, i))), i, l, d)
    BY <1>1, EmitIs
  <1>. QED BY <1>2, Zenon DEF Emit2, s

\* So are four.
LEMMA Emit4Is ==
  ASSUME NEW c, NEW i, NEW l, NEW d, NEW o, NEW a, NEW p, NEW b, NEW q, NEW r, NEW t, NEW u
  PROVE  Emit4(Cx(c, i, l, d), o, a, p, b, q, r, t, u) =
           Cx(Cat(c, Four(I(o, a, i), I(p, b, i), I(q, r, i), I(t, u, i))), i, l, d)
PROOF
  <1> DEFINE s == << <<o, a>>, <<p, b>>, <<q, r>>, <<t, u>> >>
             f == Four(I(o, a, i), I(p, b, i), I(q, r, i), I(t, u, i))
  <1>1. J(s, i) = f
    BY DEF J, Four
  <1> HIDE DEF s, f
  <1>2. Emit(Cx(c, i, l, d), s) = Cx(Cat(c, f), i, l, d)
    BY <1>1, EmitIs
  <1>. QED BY <1>2, Zenon DEF Emit4, s, f

\* A push moves stack_index by 8.
LEMMA PushIs ==
  ASSUME NEW c, NEW i, NEW l, NEW d
  PROVE  Push(Cx(c, i, l, d)) = Cx(Cat(c, One(I("push", "rax", i))), i + 8, l, d)
PROOF
  <1> DEFINE x == Emit1(Cx(c, i, l, d), "push", "rax")
             h == Cat(c, One(I("push", "rax", i)))
  <1>1. x = Cx(h, i, l, d)
    BY Emit1Is
  <1>2. Push(Cx(c, i, l, d)) = [x EXCEPT !.index = @ + 8]
    BY Zenon DEF Push, Emit1
  <1> HIDE DEF x, h
  <1>3. [x EXCEPT !.index = @ + 8] = Cx(h, i + 8, l, d)
    BY <1>1 DEF Cx
  <1>. QED BY <1>2, <1>3 DEF h

\* The pops into the registers regs at stack_index i.
PopCode(i, regs) == [k \in DOMAIN regs |-> I("pop", regs[k], i - 8 * (k - 1))]

\* Every pop moves stack_index back by 8.
LEMMA PopsIs ==
  ASSUME NEW c, NEW i, NEW l, NEW d, NEW regs
  PROVE  Pops(Cx(c, i, l, d), regs) = Cx(Cat(c, PopCode(i, regs)), i - 8 * Len(regs), l, d)
PROOF
  <1> DEFINE x == Cx(c, i, l, d)
             t == PopCode(i, regs)
  <1>1. x.index = i /\ x.code = c
    BY CxFacts DEF CodeOf, IndexOf
  <1>2. Pops(x, regs) = [x EXCEPT !.code = @ \o t, !.index = @ - 8 * Len(regs)]
    BY <1>1, Zenon DEF Pops, PopCode, I
  <1> HIDE DEF t
  <1>3. [x EXCEPT !.code = @ \o t, !.index = @ - 8 * Len(regs)]
          = Cx(c \o t, i - 8 * Len(regs), l, d)
    <2>1. PICK v, w : v = c \o t /\ w = i - 8 * Len(regs)
      OBVIOUS
    <2>2. [x EXCEPT !.code = v] = Cx(v, i, l, d)
      BY DEF Cx
    <2>3. [Cx(v, i, l, d) EXCEPT !.index = w] = Cx(v, w, l, d)
      BY DEF Cx
    <2>4. [x EXCEPT !.code = v, !.index = w] = Cx(v, w, l, d)
      BY <2>2, <2>3, Zenon
    <2>. QED BY <1>1, <2>1, <2>4
  <1>. QED BY <1>2, <1>3 DEF t, Cat

-----------------------------------------------------------------------------
(***************************************************************************)
(* What each generator emits, for any code of the parts.                   *)
(***************************************************************************)
LeafCx(o, a, i, l) == Cx(One(I(o, a, i)), i, l, None)

\* The code of an operand and s behind it.
UnaryCx(a, s) == Cx(Cat(CodeOf(a), J(s, IndexOf(a))), IndexOf(a), LabelsOf(a), UsedOf(a))

AssignCx(a, name) ==
  Cx(Cat(CodeOf(a), One(I("store", name, IndexOf(a)))), IndexOf(a), LabelsOf(a), UsedOf(a))

CommaCx(a, b) ==
  Cx(Cat(CodeOf(a), CodeOf(b)), IndexOf(b), LabelsOf(b), Join(UsedOf(a), UsedOf(b)))

LogicCx(a, b, jump, l) ==
  Cx(Cat(Cat(Cat(CodeOf(a), Two(I("cmp", "zero", IndexOf(a)), I(jump, l, IndexOf(a)))),
             CodeOf(b)),
         Four(I("cmp", "zero", IndexOf(b)), I("label", l, IndexOf(b)),
              I("mov", 0, IndexOf(b)), I("set", "!=", IndexOf(b)))),
     IndexOf(b), LabelsOf(b), Join(UsedOf(a), UsedOf(b)))

TernaryCx(c, a, b, l, m) ==
  Cx(Cat(Cat(Cat(Cat(Cat(CodeOf(c),
         Two(I("cmp", "zero", IndexOf(c)), I("je", l, IndexOf(c)))), CodeOf(a)),
         Two(I("jmp", m, IndexOf(a)), I("label", l, IndexOf(a)))), CodeOf(b)),
         One(I("label", m, IndexOf(b)))),
     IndexOf(b), LabelsOf(b), Join(Join(UsedOf(c), UsedOf(a)), UsedOf(b)))

OrdinaryCx(a, b, s) ==
  Cx(Cat(Cat(Cat(Cat(CodeOf(a), One(I("push", "rax", IndexOf(a)))), CodeOf(b)),
             One(I("pop", "rcx", IndexOf(b)))), J(s, IndexOf(b) - 8)),
     IndexOf(b) - 8, LabelsOf(b), Join(UsedOf(a), UsedOf(b)))

\* Code is a sequence of instructions, and what a part gives is a context.
LEMMA NilCat ==
  ASSUME NEW s \in Seq(Instr)
  PROVE  Cat(Nil, s) = s
PROOF
  BY DEF Cat, Nil

\* Nothing reported joins to what is reported.
LEMMA NoneJoin ==
  ASSUME NEW d
  PROVE  Join(None, d) = d
PROOF
  BY DEF Join, None

\* One instruction is code.
LEMMA OneSeq ==
  ASSUME NEW x \in Instr
  PROVE  One(x) \in Seq(Instr)
PROOF
  BY DEF One

\* The types of the fields of a context.
LEMMA ContextsFacts ==
  ASSUME NEW a \in Contexts
  PROVE  /\ CodeOf(a) \in Seq(Instr) /\ IndexOf(a) \in Int
         /\ LabelsOf(a) \in Nat /\ UsedOf(a) \in SUBSET VoidFuncs
         /\ a = Cx(CodeOf(a), IndexOf(a), LabelsOf(a), UsedOf(a))
PROOF
  BY DEF Contexts, Cx, CodeOf, IndexOf, LabelsOf, UsedOf

\* Typed fields make a context.
LEMMA CxType ==
  ASSUME NEW c \in Seq(Instr), NEW i \in Int, NEW l \in Nat, NEW d \in SUBSET VoidFuncs
  PROVE  Cx(c, i, l, d) \in Contexts
PROOF
  BY DEF Cx, Contexts

\* The context behind a part that is the first thing emitted.
LEMMA FirstIs ==
  ASSUME NEW a \in Contexts
  PROVE  Behind(Nil, None, a) = Cx(CodeOf(a), IndexOf(a), LabelsOf(a), UsedOf(a))
PROOF
  BY ContextsFacts, NilCat, NoneJoin DEF Behind

\* An instruction for a leaf: a constant or a variable.
LEMMA LeafIs ==
  ASSUME NEW i, NEW l, NEW o, NEW a, I(o, a, i) \in Instr
  PROVE  Emit(NewContext(i, l), << <<o, a>> >>) = LeafCx(o, a, i, l)
PROOF
  <1>1. Emit1(NewContext(i, l), o, a) = Cx(Cat(Nil, One(I(o, a, i))), i, l, None)
    BY NewContextIs, Emit1Is
  <1>2. Cat(Nil, One(I(o, a, i))) = One(I(o, a, i))
    BY OneSeq, NilCat
  <1>. QED BY <1>1, <1>2, Zenon DEF Emit1, LeafCx

\* An operand and what is emitted behind it.
LEMMA UnaryIs ==
  ASSUME NEW g, NEW e, NEW i, NEW l, NEW a \in Contexts, a = Part(g, e[3], i, l, 1)
  PROVE  Unary(g, NewContext(i, l), e) = UnaryCx(a, UnaryCode(e))
PROOF
  BY NewContextIs, GenerateIs, EmitIs, FirstIs DEF Unary, UnaryCx

\* What generate_expression emits for an assignment.
LEMMA AssignIs ==
  ASSUME NEW g, NEW e, NEW i, NEW l, NEW a \in Contexts, a = Part(g, e[4], i, l, 1)
  PROVE  Emit(Generate(g, NewContext(i, l), e[4], 1), << <<"store", e[3][2]>> >>) =
           AssignCx(a, e[3][2])
PROOF
  <1> DEFINE x == Generate(g, NewContext(i, l), e[4], 1)
  <1>1. Emit1(x, "store", e[3][2]) = AssignCx(a, e[3][2])
    BY NewContextIs, GenerateIs, Emit1Is, FirstIs DEF AssignCx
  <1>. QED BY <1>1, Zenon DEF Emit1

\* The left operand of a comma for its effect, the right one for its value.
CommaEmit(g, e, i, l) == Generate(g, Generate(g, NewContext(i, l), e[3], 0), e[4], 1)

\* What it emits for a comma.
LEMMA CommaIs ==
  ASSUME NEW g, NEW e, NEW i, NEW l, NEW a \in Contexts, NEW b,
         a = Part(g, e[3], i, l, 0), b = Part(g, e[4], IndexOf(a), LabelsOf(a), 1)
  PROVE  CommaEmit(g, e, i, l) = CommaCx(a, b)
PROOF
  <1>1. Generate(g, NewContext(i, l), e[3], 0) =
          Cx(CodeOf(a), IndexOf(a), LabelsOf(a), UsedOf(a))
    BY NewContextIs, GenerateIs, FirstIs
  <1>. QED BY <1>1, GenerateIs DEF Behind, CommaCx, CommaEmit

\* What it emits for && and ||.
LEMMA LogicIs ==
  ASSUME NEW g, NEW e, NEW i, NEW l, NEW jump, NEW a \in Contexts, NEW b,
         a = Part(g, e[3], i, l + 1, 1), b = Part(g, e[4], IndexOf(a), LabelsOf(a), 1)
  PROVE  Logic(g, NewContext(i, l), e, jump) = LogicCx(a, b, jump, l)
PROOF
  <1> DEFINE x0 == NewContext(i, l)
             x1 == Generate(g, NewLabel(x0), e[3], 1)
             x2 == Emit2(x1, "cmp", "zero", jump, x0.labels)
             x3 == Generate(g, x2, e[4], 1)
             x4 == Emit4(x3, "cmp", "zero", "label", x0.labels, "mov", 0, "set", "!=")
  <1>1. Logic(g, x0, e, jump) = x4
    BY Zenon DEF Logic, Emit2, Emit4
  <1>2. x0 = Cx(Nil, i, l, None) /\ x0.labels = l
    BY NewContextIs, CxFacts DEF LabelsOf
  <1> HIDE DEF x0
  <1>3. x1 = Cx(CodeOf(a), IndexOf(a), LabelsOf(a), UsedOf(a))
    BY <1>2, NewLabelIs, GenerateIs, FirstIs
  <1> HIDE DEF x1
  <1>4. x3 = Behind(Cat(CodeOf(a), Two(I("cmp", "zero", IndexOf(a)), I(jump, l, IndexOf(a)))),
                    UsedOf(a), b)
    BY <1>2, <1>3, Emit2Is, GenerateIs
  <1> HIDE DEF x3
  <1>5. x4 = LogicCx(a, b, jump, l)
    BY <1>2, <1>4, Emit4Is DEF Behind, LogicCx
  <1>. QED BY <1>1, <1>5 DEF x0

\* What generate_ternary emits.
LEMMA TernaryIs ==
  ASSUME NEW g, NEW e, NEW i, NEW l, NEW n, NEW c \in Contexts, NEW a, NEW b,
         c = Part(g, e[2], i, l + 1 + 1, 1), a = Part(g, e[3], IndexOf(c), LabelsOf(c), n),
         b = Part(g, e[4], IndexOf(a), LabelsOf(a), n)
  PROVE  Ternary(g, NewContext(i, l), e, n) = TernaryCx(c, a, b, l, l + 1)
PROOF
  <1> DEFINE x0 == NewContext(i, l)
             x1 == Generate(g, NewLabel(NewLabel(x0)), e[2], 1)
             x2 == Emit2(x1, "cmp", "zero", "je", x0.labels)
             x3 == Generate(g, x2, e[3], n)
             x4 == Emit2(x3, "jmp", x0.labels + 1, "label", x0.labels)
             x5 == Generate(g, x4, e[4], n)
             x6 == Emit1(x5, "label", x0.labels + 1)
             c2 == Cat(CodeOf(c), Two(I("cmp", "zero", IndexOf(c)), I("je", l, IndexOf(c))))
             c4 == Cat(Cat(c2, CodeOf(a)),
                       Two(I("jmp", l + 1, IndexOf(a)), I("label", l, IndexOf(a))))
  <1>1. Ternary(g, x0, e, n) = x6
    BY Zenon DEF Ternary, Emit1, Emit2
  <1>2. x0 = Cx(Nil, i, l, None) /\ x0.labels = l
    BY NewContextIs, CxFacts DEF LabelsOf
  <1> HIDE DEF x0
  <1>3. x1 = Cx(CodeOf(c), IndexOf(c), LabelsOf(c), UsedOf(c))
    BY <1>2, NewLabelIs, GenerateIs, FirstIs
  <1> HIDE DEF x1
  <1>4. x3 = Behind(c2, UsedOf(c), a)
    BY <1>2, <1>3, Emit2Is, GenerateIs
  <1> HIDE DEF x3
  <1>5. x5 = Behind(c4, Join(UsedOf(c), UsedOf(a)), b)
    BY <1>2, <1>4, Emit2Is, GenerateIs DEF Behind
  <1> HIDE DEF x5
  <1>6. x6 = TernaryCx(c, a, b, l, l + 1)
    BY <1>2, <1>5, Emit1Is DEF Behind, TernaryCx
  <1>. QED BY <1>1, <1>6 DEF x0

\* pop %rcx at stack_index i
LEMMA PopRcx ==
  ASSUME NEW i \in Int
  PROVE  /\ PopCode(i, One("rcx")) = One(I("pop", "rcx", i))
         /\ i - 8 * Len(One("rcx")) = i - 8
PROOF
  <1>1. DOMAIN One("rcx") = {1} /\ One("rcx")[1] = "rcx" /\ i - 8 * (1 - 1) = i
    BY DEF One
  <1>2. PopCode(i, One("rcx")) = [k \in {1} |-> I("pop", "rcx", i)]
    BY <1>1 DEF PopCode
  <1>3. PopCode(i, One("rcx")) = One(I("pop", "rcx", i))
    BY <1>2 DEF One
  <1>4. Len(One("rcx")) = 1
    BY DEF One
  <1>5. i - 8 * Len(One("rcx")) = i - 8
    <2>1. PICK m : m = Len(One("rcx"))
      OBVIOUS
    <2>2. m = 1
      BY <1>4, <2>1, Zenon
    <2>3. i - 8 * m = i - 8
      BY <2>2
    <2>. QED BY <2>1, <2>3, Zenon
  <1>. QED BY <1>3, <1>5, Zenon

OrdinaryEmit(g, e, i, l) ==
  Emit(Pops(Generate(g, Push(Generate(g, NewContext(i, l), e[4], 1)), e[3], 1), <<"rcx">>),
       BinaryCode(e[2]))

\* What it emits for the operators on two operands in registers.
LEMMA OrdinaryIs ==
  ASSUME NEW g, NEW e, NEW i, NEW l, NEW a \in Contexts, NEW b \in Contexts,
         a = Part(g, e[4], i, l, 1), b = Part(g, e[3], IndexOf(a) + 8, LabelsOf(a), 1)
  PROVE  OrdinaryEmit(g, e, i, l) = OrdinaryCx(a, b, BinaryCode(e[2]))
PROOF
  <1> DEFINE x2 == Push(Generate(g, NewContext(i, l), e[4], 1))
             x3 == Generate(g, x2, e[3], 1)
             x4 == Pops(x3, One("rcx"))
             x5 == Emit(x4, BinaryCode(e[2]))
             c2 == Cat(CodeOf(a), One(I("push", "rax", IndexOf(a))))
             d2 == Join(UsedOf(a), UsedOf(b))
  <1>1. x2 = Cx(c2, IndexOf(a) + 8, LabelsOf(a), UsedOf(a))
    BY NewContextIs, GenerateIs, PushIs, FirstIs
  <1> HIDE DEF x2
  <1>2. x3 = Behind(c2, UsedOf(a), b)
    BY <1>1, GenerateIs
  <1> HIDE DEF x3
  <1>3. PICK j \in Int : j = IndexOf(b)
    BY ContextsFacts
  <1>4. PopCode(j, One("rcx")) = One(I("pop", "rcx", j)) /\ j - 8 * Len(One("rcx")) = j - 8
    BY PopRcx
  <1>5. x4 = Cx(Cat(Cat(c2, CodeOf(b)), One(I("pop", "rcx", j))), j - 8, LabelsOf(b), d2)
    BY <1>2, <1>3, <1>4, PopsIs DEF Behind
  <1> HIDE DEF x4
  <1>6. x5 = OrdinaryCx(a, b, BinaryCode(e[2]))
    BY <1>3, <1>5, EmitIs DEF OrdinaryCx
  <1>7. OrdinaryEmit(g, e, i, l) = x5
    BY Zenon DEF OrdinaryEmit, x5, x4, x3, x2, One
  <1>. QED BY <1>6, <1>7

-----------------------------------------------------------------------------
(***************************************************************************)
(* The code is a sequence of instructions.                                 *)
(***************************************************************************)
LEMMA OpFacts ==
  /\ "mov" \in Ops /\ "copy" \in Ops /\ "load" \in Ops /\ "alu" \in Ops /\ "alu1" \in Ops
  /\ "set" \in Ops /\ "store" \in Ops /\ "inc" \in Ops /\ "dec" \in Ops /\ "cdq" \in Ops
  /\ "idiv" \in Ops /\ "cmp" \in Ops /\ "push" \in Ops /\ "pop" \in Ops /\ "call" \in Ops
  /\ "release" \in Ops /\ "jmp" \in Ops /\ "je" \in Ops /\ "jne" \in Ops /\ "label" \in Ops
PROOF
  BY Zenon DEF Ops

\* What instructions are about.
LEMMA ArgFacts ==
  /\ \A n \in Int : n \in Args
  /\ \A r \in Range(CallRegs) : r \in Args
  /\ 0 \in Args /\ "rax" \in Args /\ "rcx" \in Args /\ "rdx" \in Args
  /\ "zero" \in Args /\ "==" \in Args /\ "!=" \in Args
  /\ \A e \in Exps : e[2] \in Args /\ <<e[2], Len(e[3])>> \in Args
PROOF
  <1>1. \A n \in Int : n \in Args
    BY Zenon DEF Args
  <1>2. 0 \in Int
    OBVIOUS
  <1>3. /\ \A r \in Range(CallRegs) : r \in Args
        /\ "rax" \in Args /\ "rcx" \in Args /\ "rdx" \in Args
        /\ "zero" \in Args /\ "==" \in Args /\ "!=" \in Args
        /\ \A e \in Exps : e[2] \in Args /\ <<e[2], Len(e[3])>> \in Args
    BY Zenon DEF Args
  <1>. QED BY <1>1, <1>2, <1>3, Zenon

\* An operation on an argument is an instruction.
LEMMA InstrType ==
  ASSUME NEW o \in Ops, NEW a \in Args, NEW i \in Int
  PROVE  I(o, a, i) \in Instr
PROOF
  BY DEF I, Instr

\* Code behind code is code.
LEMMA CatSeq ==
  ASSUME NEW s \in Seq(Instr), NEW t \in Seq(Instr)
  PROVE  Cat(s, t) \in Seq(Instr)
PROOF
  BY DEF Cat

\* Two instructions are code.
LEMMA TwoSeq ==
  ASSUME NEW x \in Instr, NEW y \in Instr
  PROVE  Two(x, y) \in Seq(Instr)
PROOF
  BY DEF Two

\* Four instructions are code.
LEMMA FourSeq ==
  ASSUME NEW x \in Instr, NEW y \in Instr, NEW z \in Instr, NEW w \in Instr
  PROVE  Four(x, y, z, w) \in Seq(Instr)
PROOF
  BY DEF Four

\* Two sets of void functions join to one.
LEMMA JoinType ==
  ASSUME NEW c \in SUBSET VoidFuncs, NEW d \in SUBSET VoidFuncs
  PROVE  Join(c, d) \in SUBSET VoidFuncs
PROOF
  BY DEF Join

\* Instructions that have not got their stack_index.
Plain == Seq(Ops \X Args)

\* Instructions emitted are code.
LEMMA JSeq ==
  ASSUME NEW s \in Plain, NEW i \in Int
  PROVE  J(s, i) \in Seq(Instr)
PROOF
  <1>1. s \in Seq(Ops \X Args)
    BY DEF Plain
  <1>2. \A k \in 1 .. Len(s) : I(s[k][1], s[k][2], i) \in Instr
    BY <1>1, InstrType
  <1>3. DOMAIN s = 1 .. Len(s) /\ Len(s) \in Nat
    BY <1>1
  <1>. QED BY <1>2, <1>3 DEF J

\* One instruction to be emitted.
LEMMA PlainIs ==
  ASSUME NEW o \in Ops, NEW a \in Args
  PROVE  << <<o, a>> >> \in Plain
PROOF
  BY DEF Plain

\* Two and three instructions to be emitted.
LEMMA Plain3Is ==
  ASSUME NEW o \in Ops, NEW a \in Args, NEW p \in Ops, NEW b \in Args, NEW q \in Ops, NEW c \in Args
  PROVE  /\ << <<o, a>>, <<p, b>> >> \in Plain
         /\ << <<o, a>>, <<p, b>>, <<q, c>> >> \in Plain
PROOF
  BY DEF Plain

\* The ways to write UnaryCode and BinaryCode out.
LEMMA UnaryCodes ==
  ASSUME NEW e
  PROVE  /\ Kind(e, "unary") /\ e[2] = "!" => UnaryCode(e) = CompareZero("==")
         /\ Kind(e, "unary") /\ e[2] \in {"-", "~"} => UnaryCode(e) = << <<"alu1", e[2]>> >>
         /\ Kind(e, "prefix") => UnaryCode(e) = << <<"alu1", e[2]>>, <<"store", e[3][2]>> >>
         /\ Kind(e, "suffix") /\ e[2] = "++" => UnaryCode(e) = << <<"inc", e[3][2]>> >>
         /\ Kind(e, "suffix") /\ e[2] = "--" => UnaryCode(e) = << <<"dec", e[3][2]>> >>
PROOF
  <1>1. Kind(e, "prefix") \/ Kind(e, "suffix") => e[2] \in {"++", "--"}
    BY StepFacts
  <1>2. Kind(e, "prefix") => e[1] = "prefix"
    BY DEF Kind
  <1>3. Kind(e, "suffix") => e[1] = "suffix"
    BY DEF Kind
  <1>4. Kind(e, "unary") /\ e[2] = "!" => UnaryCode(e) = CompareZero("==")
    BY DEF UnaryCode, Kind
  <1>5. Kind(e, "unary") /\ e[2] \in {"-", "~"} => UnaryCode(e) = << <<"alu1", e[2]>> >>
    BY DEF UnaryCode, Kind
  <1>6. Kind(e, "prefix") => UnaryCode(e) = << <<"alu1", e[2]>>, <<"store", e[3][2]>> >>
    BY <1>1, <1>2 DEF UnaryCode
  <1>7. Kind(e, "suffix") /\ e[2] = "++" => UnaryCode(e) = << <<"inc", e[3][2]>> >>
    BY <1>3 DEF UnaryCode
  <1>8. Kind(e, "suffix") /\ e[2] = "--" => UnaryCode(e) = << <<"dec", e[3][2]>> >>
    BY <1>3 DEF UnaryCode
  <1>. QED BY <1>4, <1>5, <1>6, <1>7, <1>8, Zenon

\* The switch over the unary operators emits instructions.
LEMMA UnaryCodeType ==
  ASSUME NEW e, Kind(e, "unary") \/ Kind(e, "prefix") \/ Kind(e, "suffix")
  PROVE  UnaryCode(e) \in Plain
PROOF
  <1>1. e \in Exps /\ e[2] \in Args
    BY ArgFacts DEF Kind
  <1>2. CASE Kind(e, "unary") /\ e[2] = "!"
    <2>1. CompareZero("==") \in Plain
      BY OpFacts, ArgFacts, Plain3Is, Zenon DEF CompareZero
    <2>. QED BY <1>2, <2>1, UnaryCodes, Zenon
  <1>3. CASE Kind(e, "unary") /\ e[2] \in {"-", "~"}
    <2>1. << <<"alu1", e[2]>> >> \in Plain
      BY <1>1, OpFacts, PlainIs, Zenon
    <2>. QED BY <1>3, <2>1, UnaryCodes, Zenon
  <1>4. CASE Kind(e, "prefix")
    <2>1. e[3][2] \in Args
      BY <1>4, StepFacts, ArgFacts, Zenon
    <2>2. << <<"alu1", e[2]>>, <<"store", e[3][2]>> >> \in Plain
      BY <1>1, <2>1, OpFacts, Plain3Is, ArgFacts, Zenon
    <2>. QED BY <1>4, <2>2, UnaryCodes, Zenon
  <1>5. CASE Kind(e, "suffix")
    <2>1. e[3][2] \in Args /\ e[2] \in {"++", "--"}
      BY <1>5, StepFacts, ArgFacts, Zenon
    <2>2. << <<"inc", e[3][2]>> >> \in Plain /\ << <<"dec", e[3][2]>> >> \in Plain
      BY <2>1, OpFacts, PlainIs, Zenon
    <2>. QED BY <1>5, <2>1, <2>2, UnaryCodes, Zenon
  <1>. QED BY <1>2, <1>3, <1>4, <1>5, UnaryFacts, Zenon

\* The cases of the switch over the binary operators.
LEMMA BinaryCodes ==
  ASSUME NEW op \in Ordinary
  PROVE  /\ op \in Comparisons => BinaryCode(op) = Compare(op)
         /\ op = "/" => BinaryCode(op) = << <<"cdq", "rdx">>, <<"idiv", "rcx">> >>
         /\ op = "%" => BinaryCode(op) = << <<"cdq", "rdx">>, <<"idiv", "rcx">>, <<"copy", "rdx">> >>
         /\ op \notin Comparisons \cup {"/", "%"} => BinaryCode(op) = << <<"alu", op>> >>
PROOF
  <1>1. "/" \notin Comparisons /\ "%" \notin Comparisons
    BY DEF Comparisons
  <1>2. op \in Comparisons => op # "/" /\ op # "%"
    BY <1>1
  <1>3. op \in Comparisons => BinaryCode(op) = Compare(op)
    BY <1>2 DEF BinaryCode
  <1>4. op = "/" => BinaryCode(op) = << <<"cdq", "rdx">>, <<"idiv", "rcx">> >>
    BY <1>1 DEF BinaryCode
  <1>5. op = "%" => BinaryCode(op) = << <<"cdq", "rdx">>, <<"idiv", "rcx">>, <<"copy", "rdx">> >>
    BY <1>1 DEF BinaryCode
  <1>6. op \notin Comparisons \cup {"/", "%"} => BinaryCode(op) = << <<"alu", op>> >>
    BY DEF BinaryCode
  <1>. QED BY <1>3, <1>4, <1>5, <1>6, Zenon

\* It emits instructions.
LEMMA BinaryCodeType ==
  ASSUME NEW e \in Exps, e[2] \in Ordinary
  PROVE  BinaryCode(e[2]) \in Plain
PROOF
  <1>1. PICK op \in Ordinary : op = e[2] /\ op \in Args
    BY ArgFacts
  <1>2. Compare(op) \in Plain
    BY <1>1, OpFacts, ArgFacts, Plain3Is, Zenon DEF Compare
  <1>3. << <<"cdq", "rdx">>, <<"idiv", "rcx">> >> \in Plain
    BY OpFacts, ArgFacts, Plain3Is, Zenon
  <1>4. << <<"cdq", "rdx">>, <<"idiv", "rcx">>, <<"copy", "rdx">> >> \in Plain
    BY OpFacts, ArgFacts, Plain3Is, Zenon
  <1>5. << <<"alu", op>> >> \in Plain
    BY <1>1, OpFacts, PlainIs, Zenon
  <1>6. op \in Comparisons \/ op = "/" \/ op = "%" \/ op \notin Comparisons \cup {"/", "%"}
    BY Zenon
  <1>. QED BY <1>1, <1>2, <1>3, <1>4, <1>5, <1>6, BinaryCodes, Zenon

\* The context behind a constant or a variable.
LEMMA LeafType ==
  ASSUME NEW o \in Ops, NEW a \in Args, NEW i \in Int, NEW l \in Nat
  PROVE  LeafCx(o, a, i, l) \in Contexts
PROOF
  <1>1. None \in SUBSET VoidFuncs
    BY DEF None
  <1>. QED BY <1>1, InstrType, OneSeq, CxType DEF LeafCx

\* The context behind a unary expression.
LEMMA UnaryType ==
  ASSUME NEW a \in Contexts, NEW s \in Plain
  PROVE  UnaryCx(a, s) \in Contexts
PROOF
  BY ContextsFacts, JSeq, CatSeq, CxType DEF UnaryCx

\* The context behind an assignment.
LEMMA AssignType ==
  ASSUME NEW a \in Contexts, NEW name \in Args
  PROVE  AssignCx(a, name) \in Contexts
PROOF
  <1>1. I("store", name, IndexOf(a)) \in Instr
    BY ContextsFacts, OpFacts, InstrType
  <1>. QED BY <1>1, ContextsFacts, OneSeq, CatSeq, CxType DEF AssignCx

\* The context behind a comma.
LEMMA CommaType ==
  ASSUME NEW a \in Contexts, NEW b \in Contexts
  PROVE  CommaCx(a, b) \in Contexts
PROOF
  BY ContextsFacts, CatSeq, JoinType, CxType DEF CommaCx

\* The context behind && and ||.
LEMMA LogicType ==
  ASSUME NEW a \in Contexts, NEW b \in Contexts, NEW l \in Nat, NEW jump, jump = "je" \/ jump = "jne"
  PROVE  LogicCx(a, b, jump, l) \in Contexts
PROOF
  <1>1. IndexOf(a) \in Int /\ IndexOf(b) \in Int /\ l \in Args /\ jump \in Ops
    <2>1. jump \in Ops
      BY OpFacts, Zenon
    <2>. QED BY <2>1, ContextsFacts, ArgFacts
  <1>2. Two(I("cmp", "zero", IndexOf(a)), I(jump, l, IndexOf(a))) \in Seq(Instr)
    BY <1>1, OpFacts, ArgFacts, InstrType, TwoSeq
  <1>3. Four(I("cmp", "zero", IndexOf(b)), I("label", l, IndexOf(b)),
             I("mov", 0, IndexOf(b)), I("set", "!=", IndexOf(b))) \in Seq(Instr)
    BY <1>1, OpFacts, ArgFacts, InstrType, FourSeq
  <1>. QED BY <1>2, <1>3, ContextsFacts, CatSeq, JoinType, CxType DEF LogicCx

\* The context behind a ternary expression.
LEMMA TernaryType ==
  ASSUME NEW c \in Contexts, NEW a \in Contexts, NEW b \in Contexts, NEW l \in Nat, NEW m \in Nat
  PROVE  TernaryCx(c, a, b, l, m) \in Contexts
PROOF
  <1>1. /\ IndexOf(a) \in Int /\ IndexOf(b) \in Int /\ IndexOf(c) \in Int
        /\ l \in Args /\ m \in Args
    BY ContextsFacts, ArgFacts
  <1>2. Two(I("cmp", "zero", IndexOf(c)), I("je", l, IndexOf(c))) \in Seq(Instr)
    BY <1>1, OpFacts, ArgFacts, InstrType, TwoSeq
  <1>3. Two(I("jmp", m, IndexOf(a)), I("label", l, IndexOf(a))) \in Seq(Instr)
    BY <1>1, OpFacts, InstrType, TwoSeq
  <1>4. One(I("label", m, IndexOf(b))) \in Seq(Instr)
    BY <1>1, OpFacts, InstrType, OneSeq
  <1>. QED BY <1>2, <1>3, <1>4, ContextsFacts, CatSeq, JoinType, CxType DEF TernaryCx

\* The context behind the other binary operators.
LEMMA OrdinaryType ==
  ASSUME NEW a \in Contexts, NEW b \in Contexts, NEW s \in Plain
  PROVE  OrdinaryCx(a, b, s) \in Contexts
PROOF
  <1>1. IndexOf(a) \in Int /\ IndexOf(b) \in Int /\ IndexOf(b) - 8 \in Int
    BY ContextsFacts
  <1>2. /\ One(I("push", "rax", IndexOf(a))) \in Seq(Instr)
        /\ One(I("pop", "rcx", IndexOf(b))) \in Seq(Instr)
    BY <1>1, OpFacts, ArgFacts, InstrType, OneSeq
  <1>. QED BY <1>1, <1>2, ContextsFacts, JSeq, CatSeq, JoinType, CxType DEF OrdinaryCx

-----------------------------------------------------------------------------
(***************************************************************************)
(* Arguments and calls.                                                    *)
(***************************************************************************)
Dom == Exps \X Int \X Nat \X {0, 1}
Gens == [Dom -> Contexts]

\* What g gives for the expressions of S is code.
Typed(g, S) == \A e \in S, i \in Int, l \in Nat, n \in {0, 1} : Part(g, e, i, l, n) \in Contexts

\* A typed generator gives contexts for the parts.
LEMMA PartType ==
  ASSUME NEW g, NEW S, Typed(g, S), NEW e \in S, NEW i \in Int, NEW l \in Nat, NEW n \in {0, 1}
  PROVE  Part(g, e, i, l, n) \in Contexts
PROOF
  BY DEF Typed

\* So it does with the value required and without.
LEMMA Part1Type ==
  ASSUME NEW g, NEW S, Typed(g, S), NEW e \in S, NEW i \in Int, NEW l \in Nat
  PROVE  Part(g, e, i, l, 1) \in Contexts /\ Part(g, e, i, l, 0) \in Contexts
PROOF
  BY DEF Typed

\* One more argument, with code a, is pushed.
PushedCx(p, a) ==
  Cx(Cat(Cat(CodeOf(p), CodeOf(a)), One(I("push", "rax", IndexOf(a)))), IndexOf(a) + 8,
     LabelsOf(a), Join(UsedOf(p), UsedOf(a)))

NextArg(g, p, e) == Push(Generate(g, p, e, 1))

\* The context behind one more argument.
LEMMA NextArgIs ==
  ASSUME NEW g, NEW S, Typed(g, S), NEW p \in Contexts, NEW e \in S
  PROVE  /\ Part(g, e, IndexOf(p), LabelsOf(p), 1) \in Contexts
         /\ NextArg(g, p, e) = PushedCx(p, Part(g, e, IndexOf(p), LabelsOf(p), 1))
         /\ NextArg(g, p, e) \in Contexts
PROOF
  <1> DEFINE a == Part(g, e, IndexOf(p), LabelsOf(p), 1)
  <1>1. a \in Contexts
    BY ContextsFacts, Part1Type
  <1>2. Generate(g, p, e, 1) = Behind(CodeOf(p), UsedOf(p), a)
    BY ContextsFacts, GenerateIs
  <1> HIDE DEF a
  <1>3. NextArg(g, p, e) = PushedCx(p, a)
    BY <1>2, PushIs DEF Behind, PushedCx, NextArg
  <1>4. IndexOf(a) \in Int /\ IndexOf(a) + 8 \in Int
    BY <1>1, ContextsFacts
  <1>5. One(I("push", "rax", IndexOf(a))) \in Seq(Instr)
    BY <1>4, OpFacts, ArgFacts, InstrType, OneSeq
  <1>6. PushedCx(p, a) \in Contexts
    BY <1>1, <1>4, <1>5, ContextsFacts, CatSeq, JoinType, CxType DEF PushedCx
  <1>. QED BY <1>1, <1>3, <1>6 DEF a

\* A function with what is behind k arguments, for every k.
ArgsPushed(f, g, ctx, args) ==
  /\ f[0] = ctx /\ \A k \in 0 .. Len(args) : f[k] \in Contexts
  /\ \A k \in 1 .. Len(args) : f[k] = NextArg(g, f[k - 1], args[Len(args) + 1 - k])

Tuple(args, S) == Len(args) \in Nat /\ \A i \in 1 .. Len(args) : args[i] \in S

\* The contexts behind the arguments, as a function from their number.
LEMMA PushedIs ==
  ASSUME NEW g, NEW S, Typed(g, S), NEW ctx \in Contexts, NEW args, Tuple(args, S)
  PROVE  ArgsPushed(Pushed(g, ctx, args), g, ctx, args)
PROOF
  <1>0. Len(args) \in Nat /\ \A i \in 1 .. Len(args) : args[i] \in S
    BY DEF Tuple
  <1> DEFINE n == Len(args)
             next(k, p) == Push(Generate(g, p, args[n + 1 - k], 1))
             Solves(f) == f = [k \in 0 .. n |-> IF k = 0 THEN ctx ELSE next(k, f[k - 1])]
             f0 == CHOOSE f : Solves(f)
             Move == [z \in (1 .. n) \X Contexts |-> next(z[1], z[2])]
  <1>1. ASSUME NEW k \in 1 .. n, NEW p \in Contexts
        PROVE  next(k, p) \in Contexts /\ next(k, p) = NextArg(g, p, args[n + 1 - k])
    <2>1. args[n + 1 - k] \in S
      <3>1. n + 1 - k \in 1 .. n
        BY <1>0
      <3>. QED BY <1>0, <3>1, Zenon
    <2>. QED BY <2>1, NextArgIs, Zenon DEF NextArg
  <1> HIDE DEF next
  <1>2. Move \in [(1 .. n) \X Contexts -> Contexts]
        /\ \A k \in 1 .. n, p \in Contexts : Move[<<k, p>>] = next(k, p)
    BY <1>1
  <1> HIDE DEF Move
  <1>3. PICK h : Iterates(h, n, Contexts, ctx, Move)
    <2>1. Steps(n, Contexts, ctx, Move)
      BY <1>0, <1>2 DEF Steps
    <2> HIDE DEF n
    <2>. QED BY <2>1, Iteration, Zenon
  <1>4. \A k \in 0 .. n : h[k] = IF k = 0 THEN ctx ELSE next(k, h[k - 1])
    <2>0. h \in [0 .. n -> Contexts]
          /\ \A k \in 0 .. n : h[k] = IF k = 0 THEN ctx ELSE Move[<<k, h[k - 1]>>]
      BY <1>3 DEF Iterates
    <2>1. SUFFICES ASSUME NEW k \in 0 .. n, k # 0 PROVE h[k] = next(k, h[k - 1])
      BY <2>0
    <2>2. k \in 1 .. n /\ k - 1 \in 0 .. n
      BY <1>0, <2>1
    <2>. QED BY <1>2, <2>0, <2>1, <2>2
  <1>5. Solves(h)
    BY <1>3, <1>4 DEF Iterates
  <1>6. Solves(f0)
    BY <1>5, Zenon
  <1>7. f0[0] = ctx /\ \A k \in 1 .. n : f0[k] = next(k, f0[k - 1])
    <2>1. \A k \in 0 .. n : f0[k] = IF k = 0 THEN ctx ELSE next(k, f0[k - 1])
      BY <1>6
    <2> HIDE DEF f0, n
    <2>2. 0 \in 0 .. n /\ \A k \in 1 .. n : k \in 0 .. n /\ k # 0
      BY <1>0 DEF n
    <2>. QED BY <2>1, <2>2
  <1>8. Pushed(g, ctx, args) = f0
    BY Zenon DEF Pushed, next
  <1> HIDE DEF f0
  <1> DEFINE Reached == {k \in 0 .. n : f0[k] \in Contexts}
  <1>9. 0 .. n \subseteq Reached
    <2>1. 0 \in Reached
      BY <1>0, <1>7
    <2>2. ASSUME NEW k \in 0 .. n - 1, k \in Reached PROVE k + 1 \in Reached
      <3>1. k + 1 \in 1 .. n /\ k + 1 \in 0 .. n /\ (k + 1) - 1 = k
        BY <1>0
      <3>2. f0[k + 1] = next(k + 1, f0[k])
        BY <1>7, <3>1
      <3>3. f0[k] \in Contexts
        BY <2>2
      <3>. QED BY <1>1, <3>1, <3>2, <3>3
    <2> HIDE DEF Reached, n
    <2>. QED BY <1>0, <2>1, <2>2, Upwards DEF n
  <1>10. \A k \in 0 .. n : f0[k] \in Contexts
    BY <1>9
  <1>11. \A k \in 1 .. n : f0[k] = NextArg(g, f0[k - 1], args[n + 1 - k])
    <2>1. SUFFICES ASSUME NEW k \in 1 .. n PROVE f0[k] = NextArg(g, f0[k - 1], args[n + 1 - k])
      OBVIOUS
    <2>2. k - 1 \in 0 .. n
      BY <1>0
    <2>3. f0[k - 1] \in Contexts
      BY <1>10, <2>2
    <2>. QED BY <1>1, <1>7, <2>3
  <1>. QED BY <1>7, <1>8, <1>10, <1>11 DEF ArgsPushed

InRegs(n) == IF n < Len(CallRegs) THEN n ELSE Len(CallRegs)
OnStack(n) == n - InRegs(n)
ArgRegs(n) == SubSeq(CallRegs, 1, InRegs(n))

\* The first arguments go in the registers there are, the others on the stack.
LEMMA RegsFacts ==
  ASSUME NEW n \in Nat
  PROVE  /\ Len(CallRegs) \in Nat /\ InRegs(n) \in 0 .. n /\ OnStack(n) \in 0 .. n
         /\ InRegs(n) <= Len(CallRegs) /\ n = InRegs(n) + OnStack(n)
         /\ OnStack(n) # 0 => InRegs(n) = Len(CallRegs)
         /\ Len(ArgRegs(n)) = InRegs(n) /\ DOMAIN ArgRegs(n) = 1 .. InRegs(n)
         /\ \A k \in 1 .. InRegs(n) :
              ArgRegs(n)[k] = CallRegs[k] /\ CallRegs[k] \in Range(CallRegs)
PROOF
  <1>1. CallRegs \in Seq(Range(CallRegs))
    BY ProcessorAssumption, Zenon DEF ProcessorAssumption
  <1>2. Len(CallRegs) \in Nat /\ DOMAIN CallRegs = 1 .. Len(CallRegs)
    BY <1>1
  <1>3. /\ InRegs(n) \in 0 .. n /\ OnStack(n) \in 0 .. n /\ InRegs(n) <= Len(CallRegs)
        /\ n = InRegs(n) + OnStack(n) /\ (OnStack(n) # 0 => InRegs(n) = Len(CallRegs))
    BY <1>2 DEF InRegs, OnStack
  <1>4. PICK m \in Nat : m = InRegs(n) /\ m <= Len(CallRegs)
    BY <1>3
  <1>5. \A k \in 1 .. m : CallRegs[k] \in Range(CallRegs)
    BY <1>1, <1>2, <1>4
  <1>6. /\ Len(SubSeq(CallRegs, 1, m)) = m /\ DOMAIN SubSeq(CallRegs, 1, m) = 1 .. m
        /\ \A k \in 1 .. m : SubSeq(CallRegs, 1, m)[k] = CallRegs[k]
    BY <1>1, <1>2, <1>4
  <1>. QED BY <1>2, <1>3, <1>4, <1>5, <1>6 DEF ArgRegs

\* The registers are filled and the function is called, behind the arguments.
PoppedIndex(p, n) == IndexOf(p) - 8 * InRegs(n)
CalledCx(p, f, n) ==
  Cx(Cat(Cat(CodeOf(p), PopCode(IndexOf(p), ArgRegs(n))),
         One(I("call", <<f, n>>, PoppedIndex(p, n)))),
     PoppedIndex(p, n), LabelsOf(p), UsedOf(p))

\* What is on the stack is released.
ReleasedCx(p, f, n) ==
  Cx(Cat(Cat(Cat(CodeOf(p), PopCode(IndexOf(p), ArgRegs(n))),
             One(I("call", <<f, n>>, PoppedIndex(p, n)))),
         One(I("release", OnStack(n), PoppedIndex(p, n)))),
     PoppedIndex(p, n) - 4 * OnStack(n), LabelsOf(p), UsedOf(p))

CallCx(p, f, n) == IF OnStack(n) = 0 THEN CalledCx(p, f, n) ELSE ReleasedCx(p, f, n)

\* The context a call starts with.
Checked(f, i, l, n) == Cx(Nil, i, l, VoidUse(f, n))

CheckedNew(f, i, l, n) == [NewContext(i, l) EXCEPT !.used = @ \cup VoidUse(f, n)]

\* The context a call starts with, as the code of the compiler makes it.
LEMMA CheckedIs ==
  ASSUME NEW f, NEW i \in Int, NEW l \in Nat, NEW n
  PROVE  /\ CheckedNew(f, i, l, n) = Checked(f, i, l, n)
         /\ Checked(f, i, l, n) \in Contexts
PROOF
  <1>1. VoidUse(f, n) \in SUBSET VoidFuncs
    BY DEF VoidUse
  <1>2. CheckedNew(f, i, l, n) = Checked(f, i, l, n)
    <2>1. PICK d : d = VoidUse(f, n)
      OBVIOUS
    <2>2. [NewContext(i, l) EXCEPT !.used = @ \cup d] = Cx(Nil, i, l, {} \cup d)
      BY DEF NewContext, Cx, Nil
    <2>3. {} \cup d = d
      OBVIOUS
    <2>. QED BY <2>1, <2>2, <2>3 DEF Checked, CheckedNew
  <1>3. Nil \in Seq(Instr)
    BY DEF Nil
  <1>. QED BY <1>1, <1>2, <1>3, CxType DEF Checked

\* The pops into the registers of arguments are code.
LEMMA PopCodeSeq ==
  ASSUME NEW i \in Int, NEW n \in Nat
  PROVE  PopCode(i, ArgRegs(n)) \in Seq(Instr)
PROOF
  <1>1. PICK m \in Nat : m = InRegs(n)
    BY RegsFacts
  <1>2. ASSUME NEW k \in 1 .. m PROVE I("pop", ArgRegs(n)[k], i - 8 * (k - 1)) \in Instr
    <2>1. ArgRegs(n)[k] \in Range(CallRegs)
      BY <1>1, RegsFacts
    <2>2. i - 8 * (k - 1) \in Int
      OBVIOUS
    <2>. QED BY <2>1, <2>2, ArgFacts, OpFacts, InstrType, Zenon
  <1>3. DOMAIN ArgRegs(n) = 1 .. m
    BY <1>1, RegsFacts
  <1>4. PopCode(i, ArgRegs(n)) = [k \in 1 .. m |-> I("pop", ArgRegs(n)[k], i - 8 * (k - 1))]
    BY <1>3, Zenon DEF PopCode
  <1>. QED BY <1>2, <1>4

\* The context behind a call.
LEMMA CallType ==
  ASSUME NEW p \in Contexts, NEW e, Kind(e, "call")
  PROVE  CallCx(p, e[2], Len(e[3])) \in Contexts
PROOF
  <1>1. PICK n \in Nat : n = Len(e[3]) /\ <<e[2], n>> \in Args
    BY CallFacts, ArgFacts DEF Kind
  <1>2. PoppedIndex(p, n) \in Int /\ PoppedIndex(p, n) - 4 * OnStack(n) \in Int /\ OnStack(n) \in Args
    <2>1. PICK r \in Nat : r = InRegs(n)
      BY RegsFacts
    <2>2. PICK s \in Nat : s = OnStack(n)
      BY RegsFacts
    <2>3. PICK i \in Int : i = IndexOf(p)
      BY ContextsFacts
    <2>4. i - 8 * r \in Int /\ (i - 8 * r) - 4 * s \in Int /\ s \in Int
      OBVIOUS
    <2>. QED BY <2>1, <2>2, <2>3, <2>4, ArgFacts, Zenon DEF PoppedIndex
  <1>3. /\ One(I("call", <<e[2], n>>, PoppedIndex(p, n))) \in Seq(Instr)
        /\ One(I("release", OnStack(n), PoppedIndex(p, n))) \in Seq(Instr)
    BY <1>1, <1>2, OpFacts, InstrType, OneSeq, Zenon
  <1>4. PopCode(IndexOf(p), ArgRegs(n)) \in Seq(Instr)
    BY ContextsFacts, PopCodeSeq
  <1>5. CalledCx(p, e[2], n) \in Contexts
    BY <1>2, <1>3, <1>4, ContextsFacts, CatSeq, CxType, Zenon DEF CalledCx
  <1>6. ReleasedCx(p, e[2], n) \in Contexts
    BY <1>2, <1>3, <1>4, ContextsFacts, CatSeq, CxType, Zenon DEF ReleasedCx
  <1>. QED BY <1>1, <1>5, <1>6 DEF CallCx

\* What generate_expression emits for a call.
LEMMA CallIs ==
  ASSUME NEW g, NEW e, Kind(e, "call"), NEW i \in Int, NEW l \in Nat, NEW n,
         NEW p \in Contexts, p = Pushed(g, Checked(e[2], i, l, n), e[3])[Len(e[3])]
  PROVE  Call(g, NewContext(i, l), e, n) = CallCx(p, e[2], Len(e[3]))
PROOF
  <1>1. PICK k \in Nat : k = Len(e[3])
    BY CallFacts
  <1> DEFINE x == Pops(p, ArgRegs(k))
             y == Emit1(x, "call", <<e[2], k>>)
             z == Emit1(y, "release", OnStack(k))
  <1>2. Call(g, NewContext(i, l), e, n) =
          IF OnStack(k) = 0 THEN y ELSE [z EXCEPT !.index = @ - 4 * OnStack(k)]
    <2>1. p = Pushed(g, CheckedNew(e[2], i, l, n), e[3])[Len(e[3])]
      BY CheckedIs, Zenon
    <2>. QED BY <1>1, <2>1, Zenon DEF Call, InRegs, OnStack, ArgRegs, Emit1, CheckedNew
  <1>3. x = Cx(Cat(CodeOf(p), PopCode(IndexOf(p), ArgRegs(k))), PoppedIndex(p, k),
               LabelsOf(p), UsedOf(p))
    <2>1. p = Cx(CodeOf(p), IndexOf(p), LabelsOf(p), UsedOf(p)) /\ Len(ArgRegs(k)) = InRegs(k)
      BY ContextsFacts, RegsFacts, Zenon
    <2>2. PICK c, i1, l1, d1 : c = CodeOf(p) /\ i1 = IndexOf(p) /\ l1 = LabelsOf(p) /\ d1 = UsedOf(p)
      OBVIOUS
    <2>3. p = Cx(c, i1, l1, d1)
      BY <2>1, <2>2, Zenon
    <2>4. Pops(Cx(c, i1, l1, d1), ArgRegs(k)) =
            Cx(Cat(c, PopCode(i1, ArgRegs(k))), i1 - 8 * Len(ArgRegs(k)), l1, d1)
      BY PopsIs
    <2>. QED BY <2>1, <2>2, <2>3, <2>4, Zenon DEF PoppedIndex
  <1> HIDE DEF x
  <1>4. y = CalledCx(p, e[2], k)
    <2>1. PICK a : a = <<e[2], k>>
      OBVIOUS
    <2>2. Emit1(x, "call", a) =
            Cx(Cat(Cat(CodeOf(p), PopCode(IndexOf(p), ArgRegs(k))),
                   One(I("call", a, PoppedIndex(p, k)))), PoppedIndex(p, k), LabelsOf(p), UsedOf(p))
      BY <1>3, Emit1Is
    <2>. QED BY <2>1, <2>2, Zenon DEF CalledCx
  <1> HIDE DEF y
  <1>5. /\ y = Cx(CodeOf(y), IndexOf(y), LabelsOf(y), UsedOf(y))
        /\ IndexOf(y) = PoppedIndex(p, k) /\ LabelsOf(y) = LabelsOf(p) /\ UsedOf(y) = UsedOf(p)
        /\ CodeOf(y) = Cat(Cat(CodeOf(p), PopCode(IndexOf(p), ArgRegs(k))),
                           One(I("call", <<e[2], k>>, PoppedIndex(p, k))))
    <2>1. PICK c : c = Cat(Cat(CodeOf(p), PopCode(IndexOf(p), ArgRegs(k))),
                           One(I("call", <<e[2], k>>, PoppedIndex(p, k))))
      OBVIOUS
    <2>2. y = Cx(c, PoppedIndex(p, k), LabelsOf(p), UsedOf(p))
      BY <1>4, <2>1, Zenon DEF CalledCx
    <2>3. /\ CodeOf(y) = c /\ IndexOf(y) = PoppedIndex(p, k) /\ LabelsOf(y) = LabelsOf(p)
          /\ UsedOf(y) = UsedOf(p)
      BY <2>2, CxFacts
    <2>. QED BY <2>1, <2>2, <2>3, Zenon
  <1>7. z = Cx(Cat(CodeOf(y), One(I("release", OnStack(k), IndexOf(y)))), IndexOf(y),
               LabelsOf(y), UsedOf(y))
    <2>1. PICK c, i1, l1, d1 : c = CodeOf(y) /\ i1 = IndexOf(y) /\ l1 = LabelsOf(y) /\ d1 = UsedOf(y)
      OBVIOUS
    <2>2. y = Cx(c, i1, l1, d1)
      BY <1>5, <2>1, Zenon
    <2>3. PICK o : o = "release"
      OBVIOUS
    <2>4. Emit1(Cx(c, i1, l1, d1), o, OnStack(k)) = Cx(Cat(c, One(I(o, OnStack(k), i1))), i1, l1, d1)
      BY Emit1Is
    <2>. QED BY <2>1, <2>2, <2>3, <2>4, Zenon
  <1> HIDE DEF z
  <1>6. [z EXCEPT !.index = @ - 4 * OnStack(k)] = ReleasedCx(p, e[2], k)
    <2>1. PICK h : h = Cat(CodeOf(y), One(I("release", OnStack(k), IndexOf(y))))
      OBVIOUS
    <2>2. PICK m : m = 4 * OnStack(k)
      OBVIOUS
    <2>3. [Cx(h, IndexOf(y), LabelsOf(y), UsedOf(y)) EXCEPT !.index = @ - m]
            = Cx(h, IndexOf(y) - m, LabelsOf(y), UsedOf(y))
      BY DEF Cx
    <2>4. [z EXCEPT !.index = @ - m] = Cx(h, IndexOf(y) - m, LabelsOf(y), UsedOf(y))
      BY <1>7, <2>1, <2>3, Zenon
    <2>. QED BY <1>5, <2>1, <2>2, <2>4, Zenon DEF ReleasedCx
  <1>. QED BY <1>1, <1>2, <1>4, <1>6, Zenon DEF CallCx

-----------------------------------------------------------------------------
(***************************************************************************)
(* The code of an expression in terms of the code of its parts.            *)
(***************************************************************************)
Gen(g, e, i, l, n) == Generation(g, NewContext(i, l), e, n)

\* The case of constants.
LEMMA ConstGen ==
  ASSUME NEW g, NEW e, Typed(g, Parts(e)), Kind(e, "const"), NEW i \in Int, NEW l \in Nat, NEW n \in {0, 1}
  PROVE  Gen(g, e, i, l, n) = LeafCx("mov", e[2], i, l) /\ Gen(g, e, i, l, n) \in Contexts
PROOF
  <1>1. e[2] \in Args
    BY ArgFacts DEF Kind
  <1>2. I("mov", e[2], i) \in Instr
    BY <1>1, OpFacts, InstrType
  <1>3. e[1] = "const"
    BY DEF Kind
  <1>4. Gen(g, e, i, l, n) = Emit(NewContext(i, l), << <<"mov", e[2]>> >>)
    BY <1>3 DEF Gen, Generation
  <1>5. Gen(g, e, i, l, n) = LeafCx("mov", e[2], i, l)
    BY <1>2, <1>4, LeafIs, Zenon
  <1>. QED BY <1>1, <1>5, LeafType, OpFacts

\* The case of variables.
LEMMA VarGen ==
  ASSUME NEW g, NEW e, Typed(g, Parts(e)), Kind(e, "var"), NEW i \in Int, NEW l \in Nat, NEW n \in {0, 1}
  PROVE  Gen(g, e, i, l, n) = LeafCx("load", e[2], i, l) /\ Gen(g, e, i, l, n) \in Contexts
PROOF
  <1>1. e[2] \in Args
    BY ArgFacts DEF Kind
  <1>2. I("load", e[2], i) \in Instr
    BY <1>1, OpFacts, InstrType
  <1>3. e[1] = "var"
    BY DEF Kind
  <1>4. Gen(g, e, i, l, n) = Emit(NewContext(i, l), << <<"load", e[2]>> >>)
    BY <1>3 DEF Gen, Generation
  <1>5. Gen(g, e, i, l, n) = LeafCx("load", e[2], i, l)
    BY <1>2, <1>4, LeafIs, Zenon
  <1>. QED BY <1>1, <1>5, LeafType, OpFacts

\* The case of unary operators.
LEMMA UnaryGen ==
  ASSUME NEW g, NEW e, Typed(g, Parts(e)), Kind(e, "unary") \/ Kind(e, "prefix") \/ Kind(e, "suffix"),
         NEW i \in Int, NEW l \in Nat, NEW n \in {0, 1}, NEW a, a = Part(g, e[3], i, l, 1)
  PROVE  /\ a \in Contexts /\ Gen(g, e, i, l, n) = UnaryCx(a, UnaryCode(e))
         /\ Gen(g, e, i, l, n) \in Contexts
PROOF
  <1>1. e[3] \in Parts(e)
    BY UnaryFacts, StepFacts
  <1>2. a \in Contexts
    BY <1>1, Part1Type
  <1>3. e[1] \in {"unary", "prefix", "suffix"}
    BY DEF Kind
  <1>4. Gen(g, e, i, l, n) = Unary(g, NewContext(i, l), e)
    BY <1>3 DEF Gen, Generation
  <1>5. UnaryCode(e) \in Plain
    BY UnaryCodeType
  <1>. QED BY <1>2, <1>4, <1>5, UnaryIs, UnaryType

\* The case of binary operators.
LEMMA BinaryGen ==
  ASSUME NEW g, NEW e, Kind(e, "binary"), NEW i, NEW l, NEW n
  PROVE  Gen(g, e, i, l, n) = Binary(g, NewContext(i, l), e)
PROOF
  <1>1. e[1] = "binary"
    BY DEF Kind
  <1>. QED BY <1>1 DEF Gen, Generation

\* The operators with code of their own.  (The SMT backend does not take every string.)
IsComma(e) == Kind(e, "binary") /\ e[2] = ","
IsAssign(e) == Kind(e, "binary") /\ e[2] = "="
IsLogic(e) == Kind(e, "binary") /\ e[2] \in {"&&", "||"}
IsOrdinary(e) == Kind(e, "binary") /\ e[2] \in Ordinary

\* The four forms of code for binary operators.
LEMMA BinaryKinds ==
  ASSUME NEW e, Kind(e, "binary")
  PROVE  IsComma(e) \/ IsAssign(e) \/ IsLogic(e) \/ IsOrdinary(e)
PROOF
  BY BinaryFacts, Zenon DEF IsComma, IsAssign, IsLogic, IsOrdinary

\* The operands are parts, in all four.
LEMMA OperandFacts ==
  ASSUME NEW e, IsComma(e) \/ IsAssign(e) \/ IsLogic(e) \/ IsOrdinary(e)
  PROVE  /\ Kind(e, "binary") /\ e \in Exps /\ Parts(e) = {e[3], e[4]}
         /\ e[3] \in Parts(e) /\ e[4] \in Parts(e) /\ e[3] \in Exps /\ e[4] \in Exps
PROOF
  <1>1. Kind(e, "binary")
    BY Zenon DEF IsComma, IsAssign, IsLogic, IsOrdinary
  <1>. QED BY <1>1, BinaryFacts DEF Kind

\* The case of assignments.
LEMMA AssignGen ==
  ASSUME NEW g, NEW e, Typed(g, Parts(e)), IsAssign(e),
         NEW i \in Int, NEW l \in Nat, NEW n \in {0, 1}, NEW a, a = Part(g, e[4], i, l, 1)
  PROVE  /\ a \in Contexts /\ Gen(g, e, i, l, n) = AssignCx(a, e[3][2])
         /\ Gen(g, e, i, l, n) \in Contexts
PROOF
  <1>1. Kind(e, "binary") /\ e[3] \in Parts(e) /\ e[4] \in Parts(e) /\ e[3] \in Exps
    BY OperandFacts
  <1>2. a \in Contexts /\ e[3][2] \in Args
    BY <1>1, Part1Type, ArgFacts
  <1>3. Gen(g, e, i, l, n) =
          Emit(Generate(g, NewContext(i, l), e[4], 1), << <<"store", e[3][2]>> >>)
    <2>1. e[2] = "="
      BY Zenon DEF IsAssign
    <2>. QED BY <1>1, <2>1, BinaryGen, ZenonT(100) DEF Binary
  <1>4. Gen(g, e, i, l, n) = AssignCx(a, e[3][2])
    BY <1>2, <1>3, AssignIs, Zenon
  <1>. QED BY <1>2, <1>4, AssignType

\* The case of commas.
LEMMA CommaGen ==
  ASSUME NEW g, NEW e, Typed(g, Parts(e)), IsComma(e),
         NEW i \in Int, NEW l \in Nat, NEW n \in {0, 1}, NEW a, a = Part(g, e[3], i, l, 0),
         NEW b, b = Part(g, e[4], IndexOf(a), LabelsOf(a), 1)
  PROVE  /\ a \in Contexts /\ b \in Contexts /\ Gen(g, e, i, l, n) = CommaCx(a, b)
         /\ Gen(g, e, i, l, n) \in Contexts
PROOF
  <1>1. Kind(e, "binary") /\ e[3] \in Parts(e) /\ e[4] \in Parts(e) /\ e[3] \in Exps
    BY OperandFacts
  <1>2. a \in Contexts
    BY <1>1, Part1Type
  <1>3. IndexOf(a) \in Int /\ LabelsOf(a) \in Nat
    BY <1>2, ContextsFacts
  <1>4. b \in Contexts
    BY <1>1, <1>3, Part1Type
  <1>5. Gen(g, e, i, l, n) = CommaEmit(g, e, i, l)
    BY <1>1, BinaryGen, Zenon DEF Binary, CommaEmit, IsComma
  <1>6. Gen(g, e, i, l, n) = CommaCx(a, b)
    BY <1>2, <1>5, CommaIs
  <1>. QED BY <1>2, <1>4, <1>6, CommaType

\* The jump behind the left operand of && and of ||.
JumpOf(e) == IF e[2] = "&&" THEN "je" ELSE "jne"

\* The case of && and ||.
LEMMA LogicGen ==
  ASSUME NEW g, NEW e, Typed(g, Parts(e)), IsLogic(e),
         NEW i \in Int, NEW l \in Nat, NEW n \in {0, 1}, NEW a, a = Part(g, e[3], i, l + 1, 1),
         NEW b, b = Part(g, e[4], IndexOf(a), LabelsOf(a), 1)
  PROVE  /\ a \in Contexts /\ b \in Contexts /\ Gen(g, e, i, l, n) = LogicCx(a, b, JumpOf(e), l)
         /\ Gen(g, e, i, l, n) \in Contexts
PROOF
  <1>1. Kind(e, "binary") /\ e[3] \in Parts(e) /\ e[4] \in Parts(e) /\ e[3] \in Exps
    BY OperandFacts
  <1>2. a \in Contexts
    <2>1. l + 1 \in Nat
      OBVIOUS
    <2>. QED BY <1>1, <2>1, Part1Type
  <1>3. IndexOf(a) \in Int /\ LabelsOf(a) \in Nat
    BY <1>2, ContextsFacts
  <1>4. b \in Contexts
    BY <1>1, <1>3, Part1Type
  <1>5. Gen(g, e, i, l, n) = Logic(g, NewContext(i, l), e, JumpOf(e))
    <2>1. e[2] \in {"&&", "||"}
      BY Zenon DEF IsLogic
    <2>. QED BY <1>1, <2>1, BinaryGen DEF Binary, JumpOf
  <1>6. Gen(g, e, i, l, n) = LogicCx(a, b, JumpOf(e), l)
    BY <1>2, <1>5, LogicIs
  <1>7. JumpOf(e) = "je" \/ JumpOf(e) = "jne"
    BY DEF JumpOf
  <1>. QED BY <1>2, <1>4, <1>6, <1>7, LogicType

\* The case of the other binary operators.
LEMMA OrdinaryGen ==
  ASSUME NEW g, NEW e, Typed(g, Parts(e)), IsOrdinary(e),
         NEW i \in Int, NEW l \in Nat, NEW n \in {0, 1}, NEW a, a = Part(g, e[4], i, l, 1),
         NEW b, b = Part(g, e[3], IndexOf(a) + 8, LabelsOf(a), 1)
  PROVE  /\ a \in Contexts /\ b \in Contexts
         /\ Gen(g, e, i, l, n) = OrdinaryCx(a, b, BinaryCode(e[2]))
         /\ Gen(g, e, i, l, n) \in Contexts
PROOF
  <1>1. Kind(e, "binary") /\ e \in Exps /\ e[3] \in Parts(e) /\ e[4] \in Parts(e)
    BY OperandFacts
  <1>2. a \in Contexts
    BY <1>1, Part1Type
  <1>3. IndexOf(a) + 8 \in Int /\ LabelsOf(a) \in Nat
    BY <1>2, ContextsFacts
  <1>4. b \in Contexts
    BY <1>1, <1>3, Part1Type
  <1>5. e[2] \in Ordinary
    BY Zenon DEF IsOrdinary
  <1>6. Gen(g, e, i, l, n) = OrdinaryEmit(g, e, i, l)
    <2>1. e[2] # "," /\ e[2] # "&&" /\ e[2] # "||" /\ e[2] # "="
      BY <1>5, Zenon DEF Ordinary, Comparisons
    <2>2. Binary(g, NewContext(i, l), e) = OrdinaryEmit(g, e, i, l)
      BY <2>1, Zenon DEF Binary, OrdinaryEmit
    <2>. QED BY <1>1, <2>2, BinaryGen, Zenon
  <1>7. Gen(g, e, i, l, n) = OrdinaryCx(a, b, BinaryCode(e[2]))
    BY <1>2, <1>4, <1>6, OrdinaryIs
  <1>8. BinaryCode(e[2]) \in Plain
    BY <1>1, <1>5, BinaryCodeType
  <1>. QED BY <1>2, <1>4, <1>7, <1>8, OrdinaryType

\* The case of ternary expressions.
LEMMA TernaryGen ==
  ASSUME NEW g, NEW e, Typed(g, Parts(e)), Kind(e, "ternary"),
         NEW i \in Int, NEW l \in Nat, NEW n \in {0, 1}, NEW c, c = Part(g, e[2], i, l + 1 + 1, 1),
         NEW a, a = Part(g, e[3], IndexOf(c), LabelsOf(c), n),
         NEW b, b = Part(g, e[4], IndexOf(a), LabelsOf(a), n)
  PROVE  /\ a \in Contexts /\ b \in Contexts /\ c \in Contexts
         /\ Gen(g, e, i, l, n) = TernaryCx(c, a, b, l, l + 1)
         /\ Gen(g, e, i, l, n) \in Contexts
PROOF
  <1>1. e[2] \in Parts(e) /\ e[3] \in Parts(e) /\ e[4] \in Parts(e)
    BY TernaryFacts
  <1>2. c \in Contexts
    <2>1. l + 1 + 1 \in Nat
      OBVIOUS
    <2>. QED BY <1>1, <2>1, Part1Type
  <1>3. a \in Contexts
    <2>1. IndexOf(c) \in Int /\ LabelsOf(c) \in Nat
      BY <1>2, ContextsFacts
    <2>. QED BY <1>1, <2>1, PartType
  <1>4. b \in Contexts
    <2>1. IndexOf(a) \in Int /\ LabelsOf(a) \in Nat
      BY <1>3, ContextsFacts
    <2>. QED BY <1>1, <2>1, PartType
  <1>5. Gen(g, e, i, l, n) = Ternary(g, NewContext(i, l), e, n)
    <2>1. e[1] = "ternary"
      BY DEF Kind
    <2>. QED BY <2>1 DEF Gen, Generation
  <1>6. Gen(g, e, i, l, n) = TernaryCx(c, a, b, l, l + 1)
    BY <1>2, <1>5, TernaryIs
  <1>7. l + 1 \in Nat
    OBVIOUS
  <1>. QED BY <1>2, <1>3, <1>4, <1>6, <1>7, TernaryType

\* The case of calls.
LEMMA CallGen ==
  ASSUME NEW g, NEW e, Typed(g, Parts(e)), Kind(e, "call"), NEW i \in Int, NEW l \in Nat, NEW n \in {0, 1},
         NEW f, f = Pushed(g, Checked(e[2], i, l, n), e[3])
  PROVE  /\ ArgsPushed(f, g, Checked(e[2], i, l, n), e[3])
         /\ Gen(g, e, i, l, n) = CallCx(f[Len(e[3])], e[2], Len(e[3]))
         /\ Gen(g, e, i, l, n) \in Contexts
PROOF
  <1>1. Checked(e[2], i, l, n) \in Contexts
    BY CheckedIs
  <1>2. Tuple(e[3], Parts(e))
    BY CallFacts DEF Tuple
  <1>3. ArgsPushed(f, g, Checked(e[2], i, l, n), e[3])
    BY <1>1, <1>2, PushedIs
  <1>4. f[Len(e[3])] \in Contexts
    BY <1>2, <1>3 DEF ArgsPushed, Tuple
  <1>5. Gen(g, e, i, l, n) = Call(g, NewContext(i, l), e, n)
    <2>1. e[1] = "call"
      BY DEF Kind
    <2>. QED BY <2>1 DEF Gen, Generation
  <1>6. Gen(g, e, i, l, n) = CallCx(f[Len(e[3])], e[2], Len(e[3]))
    BY <1>4, <1>5, CallIs
  <1>. QED BY <1>3, <1>4, <1>6, CallType

\* In every case, a context.
LEMMA GenType ==
  ASSUME NEW g, NEW e \in Exps, Typed(g, Parts(e)), NEW i \in Int, NEW l \in Nat, NEW n \in {0, 1}
  PROVE  Gen(g, e, i, l, n) \in Contexts
PROOF
  <1>1. CASE Kind(e, "const") \/ Kind(e, "var")
    BY <1>1, ConstGen, VarGen, Zenon
  <1>2. CASE Kind(e, "unary") \/ Kind(e, "prefix") \/ Kind(e, "suffix")
    BY <1>2, UnaryGen, Zenon
  <1>3. CASE Kind(e, "ternary")
    BY <1>3, TernaryGen, Zenon
  <1>4. CASE Kind(e, "call")
    BY <1>4, CallGen, Zenon
  <1>5. CASE Kind(e, "binary")
    <2>1. CASE IsComma(e)
      BY <1>5, <2>1, CommaGen, Zenon
    <2>2. CASE IsAssign(e)
      BY <1>5, <2>2, AssignGen, Zenon
    <2>3. CASE IsLogic(e)
      BY <1>5, <2>3, LogicGen, Zenon
    <2>4. CASE IsOrdinary(e)
      BY <1>5, <2>4, OrdinaryGen, Zenon
    <2>. QED BY <1>5, <2>1, <2>2, <2>3, <2>4, BinaryKinds, Zenon
  <1>. QED BY <1>1, <1>2, <1>3, <1>4, <1>5, Kinds, Zenon

\* The code of an expression depends on the code of its parts only.
Agree(g, h, e) ==
  \A p \in Parts(e), i \in Int, l \in Nat, n \in {0, 1} : Part(g, p, i, l, n) = Part(h, p, i, l, n)

\* Generators that agree on the parts of an expression agree on each of them.
LEMMA AgreeFacts ==
  ASSUME NEW g, NEW h, NEW e, Agree(g, h, e), NEW p \in Parts(e), NEW i \in Int, NEW l \in Nat
  PROVE  /\ Part(g, p, i, l, 1) = Part(h, p, i, l, 1)
         /\ Part(g, p, i, l, 0) = Part(h, p, i, l, 0)
         /\ \A n \in {0, 1} : Part(g, p, i, l, n) = Part(h, p, i, l, n)
PROOF
  BY DEF Agree

\* The code of arguments depends on the generator for the parts only.
LEMMA PushedLocal ==
  ASSUME NEW g, NEW h, NEW e, Kind(e, "call"), Agree(g, h, e),
         Typed(g, Parts(e)), Typed(h, Parts(e)),
         NEW ctx \in Contexts
  PROVE  Pushed(g, ctx, e[3])[Len(e[3])] = Pushed(h, ctx, e[3])[Len(e[3])]
PROOF
  <1>1. PICK args : args = e[3]
    OBVIOUS
  <1>2. Tuple(args, Parts(e))
    BY <1>1, CallFacts DEF Tuple
  <1>3. PICK f1 : f1 = Pushed(g, ctx, args) /\ ArgsPushed(f1, g, ctx, args)
    BY <1>2, PushedIs
  <1>4. PICK f2 : f2 = Pushed(h, ctx, args) /\ ArgsPushed(f2, h, ctx, args)
    BY <1>2, PushedIs
  <1>5. PICK n \in Nat : n = Len(args)
    BY <1>2 DEF Tuple
  <1>6. f1[0] = f2[0]
    BY <1>3, <1>4 DEF ArgsPushed
  <1>7. ASSUME NEW k \in 0 .. n - 1, f1[k] = f2[k] PROVE f1[k + 1] = f2[k + 1]
    <2>1. /\ k + 1 \in 1 .. n /\ (k + 1) - 1 = k /\ n + 1 - (k + 1) \in 1 .. n /\ k \in 0 .. n
      OBVIOUS
    <2>2. PICK a : a = args[n + 1 - (k + 1)]
      OBVIOUS
    <2>3. a \in Parts(e)
      BY <1>2, <1>5, <2>1, <2>2, Zenon DEF Tuple
    <2>4. f1[k + 1] = NextArg(g, f1[k], a) /\ f2[k + 1] = NextArg(h, f2[k], a) /\ f1[k] \in Contexts
      BY <1>3, <1>4, <1>5, <2>1, <2>2 DEF ArgsPushed
    <2>5. PICK p \in Contexts : p = f1[k]
      BY <2>4
    <2>6. IndexOf(p) \in Int /\ LabelsOf(p) \in Nat
      BY ContextsFacts
    <2>7. Part(g, a, IndexOf(p), LabelsOf(p), 1) = Part(h, a, IndexOf(p), LabelsOf(p), 1)
      BY <2>3, <2>6, AgreeFacts
    <2>8. NextArg(g, p, a) = NextArg(h, p, a)
      BY <2>3, <2>7, NextArgIs
    <2>. QED BY <1>7, <2>4, <2>5, <2>8
  <1> DEFINE Same == {k \in 0 .. n : f1[k] = f2[k]}
  <1>8. 0 \in Same /\ \A k \in 0 .. n - 1 : k \in Same => k + 1 \in Same
    BY <1>6, <1>7
  <1> HIDE DEF Same
  <1>9. 0 .. n \subseteq Same
    BY <1>8, Upwards
  <1>10. n \in Same
    BY <1>9
  <1>. QED BY <1>1, <1>3, <1>4, <1>5, <1>10 DEF Same

\* So does the code of every expression.
LEMMA GenLocal ==
  ASSUME NEW g, NEW h, NEW e \in Exps, Agree(g, h, e), Typed(g, Parts(e)), Typed(h, Parts(e)),
         NEW i \in Int, NEW l \in Nat, NEW n \in {0, 1}
  PROVE  Gen(g, e, i, l, n) = Gen(h, e, i, l, n)
PROOF
  <1>1. CASE Kind(e, "const") \/ Kind(e, "var")
    BY <1>1, ConstGen, VarGen
  <1>2. CASE Kind(e, "unary") \/ Kind(e, "prefix") \/ Kind(e, "suffix")
    <2>1. e[3] \in Parts(e)
      BY <1>2, UnaryFacts, StepFacts
    <2>2. PICK a : a = Part(g, e[3], i, l, 1) /\ a = Part(h, e[3], i, l, 1)
      BY <2>1, AgreeFacts
    <2>. QED BY <1>2, <2>2, UnaryGen
  <1>3. CASE Kind(e, "ternary")
    <2>1. e[2] \in Parts(e) /\ e[3] \in Parts(e) /\ e[4] \in Parts(e)
      BY <1>3, TernaryFacts
    <2>2. l + 1 + 1 \in Nat
      OBVIOUS
    <2>3. PICK c : c = Part(g, e[2], i, l + 1 + 1, 1) /\ c = Part(h, e[2], i, l + 1 + 1, 1)
      BY <2>1, <2>2, AgreeFacts
    <2>4. PICK a : a = Part(g, e[3], IndexOf(c), LabelsOf(c), n)
      OBVIOUS
    <2>5. PICK b : b = Part(g, e[4], IndexOf(a), LabelsOf(a), n)
      OBVIOUS
    <2>6. /\ a \in Contexts /\ b \in Contexts /\ c \in Contexts
          /\ Gen(g, e, i, l, n) = TernaryCx(c, a, b, l, l + 1)
      <3>1. /\ c = Part(g, e[2], i, l + 1 + 1, 1)
            /\ a = Part(g, e[3], IndexOf(c), LabelsOf(c), n)
            /\ b = Part(g, e[4], IndexOf(a), LabelsOf(a), n)
        BY <2>3, <2>4, <2>5, Zenon
      <3>. QED BY <1>3, <3>1, TernaryGen
    <2>7. a = Part(h, e[3], IndexOf(c), LabelsOf(c), n)
      BY <2>1, <2>4, <2>6, ContextsFacts, AgreeFacts
    <2>8. b = Part(h, e[4], IndexOf(a), LabelsOf(a), n)
      BY <2>1, <2>5, <2>6, ContextsFacts, AgreeFacts
    <2>9. Gen(h, e, i, l, n) = TernaryCx(c, a, b, l, l + 1)
      BY <1>3, <2>3, <2>7, <2>8, TernaryGen
    <2>. QED BY <2>6, <2>9
  <1>4. CASE Kind(e, "call")
    <2>1. Checked(e[2], i, l, n) \in Contexts
      BY CheckedIs
    <2>2. Pushed(g, Checked(e[2], i, l, n), e[3])[Len(e[3])]
            = Pushed(h, Checked(e[2], i, l, n), e[3])[Len(e[3])]
      BY <1>4, <2>1, PushedLocal
    <2>3. Gen(g, e, i, l, n) =
            CallCx(Pushed(g, Checked(e[2], i, l, n), e[3])[Len(e[3])], e[2], Len(e[3]))
      BY <1>4, CallGen
    <2>4. Gen(h, e, i, l, n) =
            CallCx(Pushed(h, Checked(e[2], i, l, n), e[3])[Len(e[3])], e[2], Len(e[3]))
      BY <1>4, CallGen
    <2>. QED BY <2>2, <2>3, <2>4, Zenon
  <1>5. CASE Kind(e, "binary")
    <2>p. e[3] \in Parts(e) /\ e[4] \in Parts(e)
      BY <1>5, BinaryFacts
    <2>1. CASE IsComma(e)
      <3>1. PICK a : a = Part(g, e[3], i, l, 0) /\ a = Part(h, e[3], i, l, 0)
        BY <2>p, AgreeFacts
      <3>2. PICK b : b = Part(g, e[4], IndexOf(a), LabelsOf(a), 1)
        OBVIOUS
      <3>3. a \in Contexts /\ Gen(g, e, i, l, n) = CommaCx(a, b)
        BY <1>5, <2>1, <3>1, <3>2, CommaGen
      <3>4. b = Part(h, e[4], IndexOf(a), LabelsOf(a), 1)
        BY <2>p, <3>2, <3>3, ContextsFacts, AgreeFacts
      <3>5. Gen(h, e, i, l, n) = CommaCx(a, b)
        BY <1>5, <2>1, <3>1, <3>4, CommaGen
      <3>. QED BY <3>3, <3>5
    <2>2. CASE IsAssign(e)
      <3>1. PICK a : a = Part(g, e[4], i, l, 1) /\ a = Part(h, e[4], i, l, 1)
        BY <2>p, AgreeFacts
      <3>2. Gen(g, e, i, l, n) = AssignCx(a, e[3][2])
        BY <1>5, <2>2, <3>1, AssignGen
      <3>3. Gen(h, e, i, l, n) = AssignCx(a, e[3][2])
        BY <1>5, <2>2, <3>1, AssignGen
      <3>. QED BY <3>2, <3>3
    <2>3. CASE IsLogic(e)
      <3>0. l + 1 \in Nat
        OBVIOUS
      <3>1. PICK a : a = Part(g, e[3], i, l + 1, 1) /\ a = Part(h, e[3], i, l + 1, 1)
        BY <2>p, <3>0, AgreeFacts
      <3>2. PICK b : b = Part(g, e[4], IndexOf(a), LabelsOf(a), 1)
        OBVIOUS
      <3>3. a \in Contexts /\ Gen(g, e, i, l, n) = LogicCx(a, b, JumpOf(e), l)
        BY <1>5, <2>3, <3>1, <3>2, LogicGen
      <3>4. b = Part(h, e[4], IndexOf(a), LabelsOf(a), 1)
        BY <2>p, <3>2, <3>3, ContextsFacts, AgreeFacts
      <3>5. Gen(h, e, i, l, n) = LogicCx(a, b, JumpOf(e), l)
        BY <1>5, <2>3, <3>1, <3>4, LogicGen
      <3>. QED BY <3>3, <3>5
    <2>4. CASE IsOrdinary(e)
      <3>1. PICK a : a = Part(g, e[4], i, l, 1) /\ a = Part(h, e[4], i, l, 1)
        BY <2>p, AgreeFacts
      <3>2. PICK b : b = Part(g, e[3], IndexOf(a) + 8, LabelsOf(a), 1)
        OBVIOUS
      <3>3. a \in Contexts /\ Gen(g, e, i, l, n) = OrdinaryCx(a, b, BinaryCode(e[2]))
        BY <1>5, <2>4, <3>1, <3>2, OrdinaryGen
      <3>4. b = Part(h, e[3], IndexOf(a) + 8, LabelsOf(a), 1)
        <4>1. IndexOf(a) + 8 \in Int /\ LabelsOf(a) \in Nat
          BY <3>3, ContextsFacts
        <4>. QED BY <2>p, <3>2, <4>1, AgreeFacts
      <3>5. Gen(h, e, i, l, n) = OrdinaryCx(a, b, BinaryCode(e[2]))
        BY <1>5, <2>4, <3>1, <3>4, OrdinaryGen
      <3>. QED BY <3>3, <3>5
    <2>. QED BY <1>5, <2>1, <2>2, <2>3, <2>4, BinaryKinds, Zenon
  <1>. QED BY <1>1, <1>2, <1>3, <1>4, <1>5, Kinds, Zenon

\* The functions among which Code is sought are typed generators.
LEMMA GensTyped ==
  ASSUME NEW g \in Gens, NEW e \in Exps
  PROVE  Typed(g, Parts(e))
PROOF
  <1>1. \A p \in Parts(e) : p \in Exps
    BY PartsFacts
  <1>. QED BY <1>1 DEF Gens, Dom, Part, Typed

\* Code satisfies its definition.
LEMMA CodeSolution ==
  \E f \in Gens : \A e \in Exps, i \in Int, l \in Nat, n \in {0, 1} :
    Part(f, e, i, l, n) = Gen(f, e, i, l, n)
PROOF
  <1> DEFINE r == [x \in Dom |-> Height(x[1])]
             F == [z \in Dom \X Gens |-> Gen(z[2], z[1][1], z[1][2], z[1][3], z[1][4])]
  <1>1. ASSUME NEW x \in Dom
        PROVE  /\ x[1] \in Exps /\ x[2] \in Int /\ x[3] \in Nat /\ x[4] \in {0, 1}
               /\ x = <<x[1], x[2], x[3], x[4]>> /\ Height(x[1]) \in Nat
    <2>1. /\ x[1] \in Exps /\ x[2] \in Int /\ x[3] \in Nat /\ x[4] \in {0, 1}
          /\ x = <<x[1], x[2], x[3], x[4]>>
      BY DEF Dom
    <2>. QED BY <2>1, PartsFacts
  <1>2. r \in [Dom -> Nat] /\ \A x \in Dom : r[x] = Height(x[1])
    BY <1>1
  <1>3. /\ F \in [Dom \X Gens -> Contexts]
        /\ \A x \in Dom, g \in Gens : F[<<x, g>>] = Gen(g, x[1], x[2], x[3], x[4])
    <2>1. ASSUME NEW x \in Dom, NEW g \in Gens PROVE Gen(g, x[1], x[2], x[3], x[4]) \in Contexts
      BY <1>1, GensTyped, GenType
    <2>. QED BY <2>1
  <1> HIDE DEF r, F
  <1>4. ASSUME NEW x \in Dom, NEW g \in Gens, NEW h \in Gens,
               \A y \in Dom : r[y] < r[x] => g[y] = h[y]
        PROVE  F[<<x, g>>] = F[<<x, h>>]
    <2>1. ASSUME NEW p \in Parts(x[1]), NEW i \in Int, NEW l \in Nat, NEW n \in {0, 1}
          PROVE  Part(g, p, i, l, n) = Part(h, p, i, l, n)
      <3>1. p \in Exps /\ Height(p) < Height(x[1])
        BY <1>1, PartsFacts
      <3>2. <<p, i, l, n>> \in Dom /\ <<p, i, l, n>>[1] = p
        BY <3>1 DEF Dom
      <3>3. PICK y \in Dom : y = <<p, i, l, n>> /\ y[1] = p
        BY <3>2, Zenon
      <3>4. r[y] < r[x]
        BY <1>2, <3>1, <3>3
      <3>. QED BY <1>4, <3>3, <3>4 DEF Part
    <2>2. Agree(g, h, x[1])
      BY <2>1, Zenon DEF Agree
    <2>. QED BY <1>1, <1>3, <2>2, GensTyped, GenLocal
  <1>5. Contexts # {}
    <2>1. Nil \in Seq(Instr) /\ None \in SUBSET VoidFuncs /\ 0 \in Int /\ 0 \in Nat
      BY DEF Nil, None
    <2>. QED BY <2>1, CxType
  <1>6. Ranked(Dom, Contexts, r, F)
    BY <1>2, <1>3, <1>4, <1>5 DEF Ranked, Gens
  <1>7. PICK f : Solution(Dom, Contexts, F, f)
    BY <1>6, Recursion
  <1>8. f \in Gens /\ \A x \in Dom : f[x] = Gen(f, x[1], x[2], x[3], x[4])
    BY <1>3, <1>7 DEF Solution, Gens
  <1>9. ASSUME NEW e \in Exps, NEW i \in Int, NEW l \in Nat, NEW n \in {0, 1}
        PROVE  Part(f, e, i, l, n) = Gen(f, e, i, l, n)
    <2>1. PICK x : x = <<e, i, l, n>>
      OBVIOUS
    <2>2. x \in Dom /\ x[1] = e /\ x[2] = i /\ x[3] = l /\ x[4] = n
      BY <2>1 DEF Dom
    <2>. QED BY <1>8, <2>1, <2>2, Zenon DEF Part
  <1>. QED BY <1>8, <1>9

\* The recursion of generate_expression has a solution, and Code is one.
LEMMA CodeDefinition ==
  \A e \in Exps, i \in Int, l \in Nat, n \in {0, 1} : Part(Code, e, i, l, n) = Gen(Code, e, i, l, n)
PROOF
  <1> DEFINE Solves(f) == f = [x \in Dom |-> Gen(f, x[1], x[2], x[3], x[4])]
  <1>1. PICK f \in Gens : \A e \in Exps, i \in Int, l \in Nat, n \in {0, 1} :
                           Part(f, e, i, l, n) = Gen(f, e, i, l, n)
    BY CodeSolution
  <1>2. ASSUME NEW x \in Dom PROVE f[x] = Gen(f, x[1], x[2], x[3], x[4])
    <2>1. /\ x[1] \in Exps /\ x[2] \in Int /\ x[3] \in Nat /\ x[4] \in {0, 1}
          /\ x = <<x[1], x[2], x[3], x[4]>>
      BY DEF Dom
    <2>2. Part(f, x[1], x[2], x[3], x[4]) = Gen(f, x[1], x[2], x[3], x[4])
      BY <1>1, <2>1, Zenon
    <2>. QED BY <2>1, <2>2, Zenon DEF Part
  <1>3. Solves(f)
    BY <1>2 DEF Gens
  <1>4. Code = CHOOSE g : Solves(g)
    BY Zenon DEF Code, Gen, Dom
  <1>5. Solves(Code)
    BY <1>3, <1>4, Zenon
  <1>6. ASSUME NEW e \in Exps, NEW i \in Int, NEW l \in Nat, NEW n \in {0, 1}
        PROVE  Part(Code, e, i, l, n) = Gen(Code, e, i, l, n)
    <2>1. PICK x : x = <<e, i, l, n>>
      OBVIOUS
    <2>2. x \in Dom /\ x[1] = e /\ x[2] = i /\ x[3] = l /\ x[4] = n
      BY <2>1 DEF Dom
    <2>3. \A y \in Dom : Code[y] = Gen(Code, y[1], y[2], y[3], y[4])
      BY <1>5
    <2>. QED BY <2>1, <2>2, <2>3, Zenon DEF Part
  <1>. QED BY <1>6

\* It gives contexts.
LEMMA CodeTyped ==
  \A e \in Exps : Typed(Code, {e})
PROOF
  <1>1. PICK f \in Gens : \A e \in Exps, i \in Int, l \in Nat, n \in {0, 1} :
                           Part(f, e, i, l, n) = Gen(f, e, i, l, n)
    BY CodeSolution
  <1> DEFINE S == {e \in Exps : \A i \in Int, l \in Nat, n \in {0, 1} :
                                 Part(Code, e, i, l, n) = Part(f, e, i, l, n)}
  <1>2. ASSUME NEW e \in Exps, \A p \in Parts(e) : p \in S PROVE e \in S
    <2>1. Agree(Code, f, e)
      BY <1>2, Zenon DEF Agree
    <2>2. Typed(f, Parts(e))
      BY GensTyped
    <2>3. Typed(Code, Parts(e))
      BY <2>1, <2>2, Zenon DEF Agree, Typed
    <2>4. ASSUME NEW i \in Int, NEW l \in Nat, NEW n \in {0, 1}
          PROVE  Part(Code, e, i, l, n) = Part(f, e, i, l, n)
      <3>1. Gen(Code, e, i, l, n) = Gen(f, e, i, l, n)
        BY <2>1, <2>2, <2>3, GenLocal
      <3>2. Part(f, e, i, l, n) = Gen(f, e, i, l, n)
        BY <1>1, Zenon
      <3>3. Part(Code, e, i, l, n) = Gen(Code, e, i, l, n)
        BY CodeDefinition, Zenon
      <3>. QED BY <3>1, <3>2, <3>3
    <2>. QED BY <2>4
  <1> HIDE DEF S
  <1>3. Exps \subseteq S
    BY <1>2, TreeInduction
  <1>4. ASSUME NEW e \in Exps, NEW i \in Int, NEW l \in Nat, NEW n \in {0, 1}
        PROVE  Part(Code, e, i, l, n) \in Contexts
    <2>1. Part(Code, e, i, l, n) = Part(f, e, i, l, n)
      BY <1>3, Zenon DEF S
    <2>2. <<e, i, l, n>> \in Dom
      BY DEF Dom
    <2>. QED BY <2>1, <2>2 DEF Gens, Part
  <1>. QED BY <1>4 DEF Typed

\* The code of e behind i bytes of stack and l labels, for require_value n.
G(e, i, l, n) == Part(Code, e, i, l, n)

\* The code of an expression is a context and by the rule for its kind.
LEMMA GType ==
  ASSUME NEW e \in Exps, NEW i \in Int, NEW l \in Nat, NEW n \in {0, 1}
  PROVE  G(e, i, l, n) \in Contexts /\ G(e, i, l, n) = Gen(Code, e, i, l, n)
PROOF
  <1>1. Typed(Code, {e})
    BY CodeTyped
  <1>. QED BY <1>1, CodeDefinition DEF G, Typed

\* So is that of its parts.
LEMMA PartsTyped ==
  ASSUME NEW e \in Exps
  PROVE  Typed(Code, Parts(e))
PROOF
  <1>1. \A p \in Parts(e) : p \in Exps
    BY PartsFacts
  <1>. QED BY <1>1, CodeTyped DEF Typed

-----------------------------------------------------------------------------
(***************************************************************************)
(* What an expression evaluates to, by what its parts do.                  *)
(***************************************************************************)
Memory == [Names -> Word]
Outcomes == {"ok", "undefined"} \X Word \X Memory
Vals == [Exps \X Memory -> SUBSET Outcomes]

\* The outcomes val gives for e.
V(val, e, s) == val[<<e, s>>]
Out(v, s) == <<"ok", v, s>>
IsOk(o) == o[1] = "ok"
ValueOf(o) == o[2]
StoreOf(o) == o[3]
With(s, name, v) == [s EXCEPT ![name] = v]

ValsTyped(val, S) == \A e \in S, s \in Memory : V(val, e, s) \in SUBSET Outcomes

\* The parts of an outcome that is ok.
LEMMA OutFacts ==
  ASSUME NEW v, NEW s
  PROVE  /\ IsOk(Out(v, s)) /\ ValueOf(Out(v, s)) = v /\ StoreOf(Out(v, s)) = s
         /\ v \in Word /\ s \in Memory => Out(v, s) \in Outcomes
PROOF
  BY DEF Out, IsOk, ValueOf, StoreOf, Outcomes

\* The parts of any outcome.
LEMMA OutcomeFacts ==
  ASSUME NEW o \in Outcomes
  PROVE  /\ ValueOf(o) \in Word /\ StoreOf(o) \in Memory
         /\ IsOk(o) => o = Out(ValueOf(o), StoreOf(o))
         /\ ~IsOk(o) => o[1] = "undefined"
PROOF
  BY DEF Out, IsOk, ValueOf, StoreOf, Outcomes

\* Assigning a word leaves words in the variables.
LEMMA WithType ==
  ASSUME NEW s \in Memory, NEW name \in Names, NEW v \in Word
  PROVE  With(s, name, v) \in Memory /\ s[name] \in Word
PROOF
  BY DEF With, Memory

\* Typed evaluations have typed outcomes.
LEMMA ValsPart ==
  ASSUME NEW val, NEW S, ValsTyped(val, S), NEW e \in S, NEW s \in Memory, NEW o \in V(val, e, s)
  PROVE  o \in Outcomes
PROOF
  BY DEF ValsTyped

\* Whether o is an outcome of e when val has the outcomes of its parts.
Can(val, e, s, o) == o \in Evaluation(val, e, s)

\* The outcomes of a sequence of two things: those of the first that are not ok, and
\* those of the second behind the others.
LEMMA ConstRule ==
  ASSUME NEW val, NEW e, Kind(e, "const"), NEW s, NEW o
  PROVE  Can(val, e, s, o) <=> o = Out(e[2], s)
PROOF
  <1>1. e[1] = "const"
    BY DEF Kind
  <1>2. Evaluation(val, e, s) = {Out(e[2], s)}
    BY <1>1, Zenon DEF Evaluation, Ok, Out
  <1>. QED BY <1>2, Zenon DEF Can

\* The rule of C for variables.
LEMMA VarRule ==
  ASSUME NEW val, NEW e, Kind(e, "var"), NEW s, NEW o
  PROVE  Can(val, e, s, o) <=> o = Out(s[e[2]], s)
PROOF
  <1>1. e[1] = "var"
    BY DEF Kind
  <1>2. Evaluation(val, e, s) = {Out(s[e[2]], s)}
    BY <1>1, Zenon DEF Evaluation, Ok, Out
  <1>. QED BY <1>2, Zenon DEF Can

\* The rule for ++ and -- in front.
LEMMA PrefixRule ==
  ASSUME NEW val, NEW e, Kind(e, "prefix"), NEW s, NEW o
  PROVE  Can(val, e, s, o) <=>
           o = Out(Alu1(e[2], s[e[3][2]]), With(s, e[3][2], Alu1(e[2], s[e[3][2]])))
PROOF
  <1>1. e[1] = "prefix"
    BY DEF Kind
  <1>2. Evaluation(val, e, s)
          = {Out(Alu1(e[2], s[e[3][2]]), With(s, e[3][2], Alu1(e[2], s[e[3][2]])))}
    BY <1>1, Zenon DEF Evaluation, Ok, Out, With
  <1>. QED BY <1>2, Zenon DEF Can

\* The rule for ++ and -- behind.
LEMMA SuffixRule ==
  ASSUME NEW val, NEW e, Kind(e, "suffix"), NEW s, NEW o
  PROVE  Can(val, e, s, o) <=>
           o = Out(s[e[3][2]], With(s, e[3][2], Alu1(e[2], s[e[3][2]])))
PROOF
  <1>1. e[1] = "suffix"
    BY DEF Kind
  <1>2. Evaluation(val, e, s)
          = {Out(s[e[3][2]], [s EXCEPT ![e[3][2]] = Alu1(e[2], @)])}
    BY <1>1, Zenon DEF Evaluation, Ok, Out
  <1>3. [s EXCEPT ![e[3][2]] = Alu1(e[2], @)] = With(s, e[3][2], Alu1(e[2], s[e[3][2]]))
    BY DEF With
  <1>. QED BY <1>2, <1>3, Zenon DEF Can

\* The value of an operator on one operand.
UnaryValue(e, v) == IF e[2] = "!" THEN Bool(v = 0) ELSE Alu1(e[2], v)

UnaryThen(e, p, o) == IF IsOk(p) THEN o = Out(UnaryValue(e, ValueOf(p)), StoreOf(p)) ELSE o = p

\* The rule for the other unary operators.
LEMMA UnaryRule ==
  ASSUME NEW val, NEW e, Kind(e, "unary"), NEW s, NEW o
  PROVE  Can(val, e, s, o) <=> \E p \in V(val, e[3], s) : UnaryThen(e, p, o)
PROOF
  <1> DEFINE T(p) == IF p[1] = "ok" THEN Ok(UnaryValue(e, p[2]), p[3]) ELSE {p}
             X == V(val, e[3], s)
  <1>1. e[1] = "unary"
    BY DEF Kind
  <1>2. Evaluation(val, e, s) = UNION {T(p) : p \in X}
    BY <1>1, Zenon DEF Evaluation, Bind, UnaryValue, V
  <1>3. ASSUME NEW p PROVE o \in T(p) <=> UnaryThen(e, p, o)
    BY Zenon DEF UnaryThen, Ok, Out, IsOk, ValueOf, StoreOf
  <1> HIDE DEF T, X
  <1>4. o \in UNION {T(p) : p \in X} <=> \E p \in X : o \in T(p)
    OBVIOUS
  <1>. QED BY <1>2, <1>3, <1>4, Zenon DEF Can, X

TernaryThen(val, e, p, o) ==
  IF IsOk(p) THEN o \in V(val, IF ValueOf(p) # 0 THEN e[3] ELSE e[4], StoreOf(p)) ELSE o = p

\* The rule for the ternary operator.
LEMMA TernaryRule ==
  ASSUME NEW val, NEW e, Kind(e, "ternary"), NEW s, NEW o
  PROVE  Can(val, e, s, o) <=> \E p \in V(val, e[2], s) : TernaryThen(val, e, p, o)
PROOF
  <1> DEFINE T(p) == IF p[1] = "ok" THEN val[<<IF p[2] # 0 THEN e[3] ELSE e[4], p[3]>>] ELSE {p}
             X == V(val, e[2], s)
  <1>1. e[1] = "ternary"
    BY DEF Kind
  <1>2. Evaluation(val, e, s) = UNION {T(p) : p \in X}
    BY <1>1, Zenon DEF Evaluation, Bind, V
  <1>3. ASSUME NEW p PROVE o \in T(p) <=> TernaryThen(val, e, p, o)
    BY Zenon DEF TernaryThen, V, IsOk, ValueOf, StoreOf
  <1> HIDE DEF T, X
  <1>4. o \in UNION {T(p) : p \in X} <=> \E p \in X : o \in T(p)
    OBVIOUS
  <1>. QED BY <1>2, <1>3, <1>4, Zenon DEF Can, X

\* Binary operators have rules of their own.
LEMMA BinaryEvaluationIs ==
  ASSUME NEW val, NEW e, Kind(e, "binary"), NEW s
  PROVE  Evaluation(val, e, s) = BinaryEvaluation(val, e, s)
PROOF
  <1>1. e[1] = "binary"
    BY DEF Kind
  <1>. QED BY <1>1, Zenon DEF Evaluation

CommaThen(val, e, p, o) == IF IsOk(p) THEN o \in V(val, e[4], StoreOf(p)) ELSE o = p

\* The rule for commas.
LEMMA CommaRule ==
  ASSUME NEW val, NEW e, IsComma(e), NEW s, NEW o
  PROVE  Can(val, e, s, o) <=> \E p \in V(val, e[3], s) : CommaThen(val, e, p, o)
PROOF
  <1> DEFINE T(p) == IF p[1] = "ok" THEN val[<<e[4], p[3]>>] ELSE {p}
             X == V(val, e[3], s)
  <1>1. BinaryEvaluation(val, e, s) = UNION {T(p) : p \in X}
    BY Zenon DEF BinaryEvaluation, Bind, V, IsComma
  <1>2. Evaluation(val, e, s) = UNION {T(p) : p \in X}
    BY <1>1, OperandFacts, BinaryEvaluationIs, Zenon
  <1>3. ASSUME NEW p PROVE o \in T(p) <=> CommaThen(val, e, p, o)
    BY Zenon DEF CommaThen, V, IsOk, ValueOf, StoreOf
  <1> HIDE DEF T, X
  <1>4. o \in UNION {T(p) : p \in X} <=> \E p \in X : o \in T(p)
    OBVIOUS
  <1>. QED BY <1>2, <1>3, <1>4, Zenon DEF Can, X

AssignThen(e, p, o) ==
  IF IsOk(p) THEN o = Out(ValueOf(p), With(StoreOf(p), e[3][2], ValueOf(p))) ELSE o = p

\* The rule for assignments.
LEMMA AssignRule ==
  ASSUME NEW val, NEW e, IsAssign(e), NEW s, NEW o
  PROVE  Can(val, e, s, o) <=> \E p \in V(val, e[4], s) : AssignThen(e, p, o)
PROOF
  <1> DEFINE T(p) == IF p[1] = "ok" THEN Ok(p[2], [p[3] EXCEPT ![e[3][2]] = p[2]]) ELSE {p}
             X == V(val, e[4], s)
  <1>1. BinaryEvaluation(val, e, s) = UNION {T(p) : p \in X}
    BY Zenon DEF BinaryEvaluation, Bind, V, IsAssign
  <1>2. Evaluation(val, e, s) = UNION {T(p) : p \in X}
    BY <1>1, OperandFacts, BinaryEvaluationIs, Zenon
  <1>3. ASSUME NEW p PROVE o \in T(p) <=> AssignThen(e, p, o)
    BY Zenon DEF AssignThen, Ok, Out, With, IsOk, ValueOf, StoreOf
  <1> HIDE DEF T, X
  <1>4. o \in UNION {T(p) : p \in X} <=> \E p \in X : o \in T(p)
    OBVIOUS
  <1>. QED BY <1>2, <1>3, <1>4, Zenon DEF Can, X

\* The value that decides && or || without the right operand, and what it is then.
Decides(e, v) == IF e[2] = "&&" THEN v = 0 ELSE v # 0
Decided(e) == IF e[2] = "&&" THEN 0 ELSE 1

TruthThen(p, o) == IF IsOk(p) THEN o = Out(Bool(ValueOf(p) # 0), StoreOf(p)) ELSE o = p

LogicThen(val, e, p, o) ==
  IF ~IsOk(p) THEN o = p
  ELSE IF Decides(e, ValueOf(p)) THEN o = Out(Decided(e), StoreOf(p))
  ELSE \E q \in V(val, e[4], StoreOf(p)) : TruthThen(q, o)

\* The rule for && and ||: the right operand is evaluated only if the left one does
\* not decide.
LEMMA LogicRule ==
  ASSUME NEW val, NEW e, IsLogic(e), NEW s, NEW o
  PROVE  Can(val, e, s, o) <=> \E p \in V(val, e[3], s) : LogicThen(val, e, p, o)
PROOF
  <1> DEFINE U(q) == IF q[1] = "ok" THEN Ok(Bool(q[2] # 0), q[3]) ELSE {q}
             W(p) == UNION {U(q) : q \in val[<<e[4], p[3]>>]}
             T(p) == IF p[1] = "ok"
                     THEN IF Decides(e, p[2]) THEN Ok(Decided(e), p[3]) ELSE W(p)
                     ELSE {p}
             X == V(val, e[3], s)
  <1>1. BinaryEvaluation(val, e, s) = UNION {T(p) : p \in X}
    <2>1. CASE e[2] = "&&"
      BY <2>1, Zenon DEF BinaryEvaluation, Bind, V, Decides, Decided
    <2>2. CASE e[2] = "||"
      BY <2>2, Zenon DEF BinaryEvaluation, Bind, V, Decides, Decided
    <2>. QED BY <2>1, <2>2, Zenon DEF IsLogic
  <1>2. Evaluation(val, e, s) = UNION {T(p) : p \in X}
    BY <1>1, OperandFacts, BinaryEvaluationIs, Zenon
  <1>3. ASSUME NEW p PROVE o \in T(p) <=> LogicThen(val, e, p, o)
    <2>1. ASSUME NEW q PROVE o \in U(q) <=> TruthThen(q, o)
      BY Zenon DEF TruthThen, Ok, Out, IsOk, ValueOf, StoreOf
    <2> HIDE DEF U
    <2>2. o \in W(p) <=> \E q \in V(val, e[4], p[3]) : o \in U(q)
      BY DEF V
    <2>3. o \in W(p) <=> \E q \in V(val, e[4], p[3]) : TruthThen(q, o)
      BY <2>1, <2>2, Zenon
    <2> HIDE DEF W
    <2>. QED BY <2>3, Zenon DEF LogicThen, Ok, Out, IsOk, ValueOf, StoreOf
  <1> HIDE DEF T, X, U, W
  <1>4. o \in UNION {T(p) : p \in X} <=> \E p \in X : o \in T(p)
    OBVIOUS
  <1>. QED BY <1>2, <1>3, <1>4, Zenon DEF Can, X

\* One operand is evaluated first; the other one, with p the outcome of the first.
LeftThen(val, e, p, o) ==
  IF ~IsOk(p) THEN o = p
  ELSE \E q \in V(val, e[4], StoreOf(p)) :
         IF IsOk(q) THEN o \in Apply(e[2], ValueOf(p), ValueOf(q), StoreOf(q)) ELSE o = q

RightThen(val, e, p, o) ==
  IF ~IsOk(p) THEN o = p
  ELSE \E q \in V(val, e[3], StoreOf(p)) :
         IF IsOk(q) THEN o \in Apply(e[2], ValueOf(q), ValueOf(p), StoreOf(q)) ELSE o = q

\* The rule for the other binary operators: the operands in one of two orders.
LEMMA OrdinaryRule ==
  ASSUME NEW val, NEW e, IsOrdinary(e), NEW s, NEW o
  PROVE  Can(val, e, s, o) <=>
           \/ \E p \in V(val, e[3], s) : LeftThen(val, e, p, o)
           \/ \E p \in V(val, e[4], s) : RightThen(val, e, p, o)
PROOF
  <1> DEFINE U(p, q) == IF q[1] = "ok" THEN Apply(e[2], p[2], q[2], q[3]) ELSE {q}
             W(p) == UNION {U(p, q) : q \in val[<<e[4], p[3]>>]}
             T(p) == IF p[1] = "ok" THEN W(p) ELSE {p}
             U2(p, q) == IF q[1] = "ok" THEN Apply(e[2], q[2], p[2], q[3]) ELSE {q}
             W2(p) == UNION {U2(p, q) : q \in val[<<e[3], p[3]>>]}
             T2(p) == IF p[1] = "ok" THEN W2(p) ELSE {p}
             X == V(val, e[3], s)
             X2 == V(val, e[4], s)
             L == UNION {T(p) : p \in X}
             R == UNION {T2(p) : p \in X2}
  <1>1. BinaryEvaluation(val, e, s) = L \cup R
    <2>1. e[2] # "," /\ e[2] # "&&" /\ e[2] # "||" /\ e[2] # "="
      BY Zenon DEF IsOrdinary, Ordinary, Comparisons
    <2>. QED BY <2>1, Zenon DEF BinaryEvaluation, Bind, V
  <1>2. Evaluation(val, e, s) = L \cup R
    BY <1>1, OperandFacts, BinaryEvaluationIs, Zenon
  <1>3. ASSUME NEW p PROVE o \in T(p) <=> LeftThen(val, e, p, o)
    <2>1. ASSUME NEW q PROVE o \in U(p, q) <=> IF IsOk(q) THEN o \in Apply(e[2], ValueOf(p), ValueOf(q), StoreOf(q)) ELSE o = q
      BY Zenon DEF IsOk, ValueOf, StoreOf
    <2> HIDE DEF U
    <2>2. o \in W(p) <=> \E q \in V(val, e[4], p[3]) : o \in U(p, q)
      BY DEF V
    <2> HIDE DEF W
    <2>3. o \in T(p) <=> IF ~IsOk(p) THEN o = p ELSE \E q \in V(val, e[4], StoreOf(p)) : o \in U(p, q)
      BY <2>2, Zenon DEF IsOk, StoreOf
    <2> HIDE DEF T
    <2>. QED BY <2>1, <2>3, Zenon DEF LeftThen
  <1>4. ASSUME NEW p PROVE o \in T2(p) <=> RightThen(val, e, p, o)
    <2>1. ASSUME NEW q PROVE o \in U2(p, q) <=> IF IsOk(q) THEN o \in Apply(e[2], ValueOf(q), ValueOf(p), StoreOf(q)) ELSE o = q
      BY Zenon DEF IsOk, ValueOf, StoreOf
    <2> HIDE DEF U2
    <2>2. o \in W2(p) <=> \E q \in V(val, e[3], p[3]) : o \in U2(p, q)
      BY DEF V
    <2> HIDE DEF W2
    <2>3. o \in T2(p) <=> IF ~IsOk(p) THEN o = p ELSE \E q \in V(val, e[3], StoreOf(p)) : o \in U2(p, q)
      BY <2>2, Zenon DEF IsOk, StoreOf
    <2> HIDE DEF T2
    <2>. QED BY <2>1, <2>3, Zenon DEF RightThen
  <1> HIDE DEF T, T2, U, W, U2, W2, X, X2
  <1>5. o \in L <=> \E p \in X : o \in T(p)
    OBVIOUS
  <1>6. o \in R <=> \E p \in X2 : o \in T2(p)
    OBVIOUS
  <1>7. o \in L \cup R <=> o \in L \/ o \in R
    OBVIOUS
  <1> HIDE DEF L, R
  <1>. QED BY <1>2, <1>3, <1>4, <1>5, <1>6, <1>7, Zenon DEF Can, X, X2
-----------------------------------------------------------------------------
(***************************************************************************)
(* Calls.                                                                  *)
(***************************************************************************)
ArgOutcomes(n) == ({"ok"} \X [1 .. n -> Word] \X Memory) \cup {o \in Outcomes : ~IsOk(o)}
Zeros(n) == [i \in 1 .. n |-> 0]

\* Outcomes of arguments have a word for each of them.
LEMMA ArgOutcomesFacts ==
  ASSUME NEW n
  PROVE  /\ \A v \in [1 .. n -> Word], s \in Memory : Out(v, s) \in ArgOutcomes(n)
         /\ \A o \in Outcomes : ~IsOk(o) => o \in ArgOutcomes(n)
         /\ \A o \in ArgOutcomes(n) : ~IsOk(o) => o \in Outcomes
         /\ \A o \in ArgOutcomes(n) :
              IsOk(o) => /\ ValueOf(o) \in [1 .. n -> Word] /\ StoreOf(o) \in Memory
                         /\ o = Out(ValueOf(o), StoreOf(o))
PROOF
  BY DEF ArgOutcomes, Out, IsOk, ValueOf, StoreOf

\* Before any is evaluated they are zero.
LEMMA ZerosType ==
  ASSUME NEW n
  PROVE  Zeros(n) \in [1 .. n -> Word]
PROOF
  BY WordFacts DEF Zeros

\* One more value.
LEMMA WithArg ==
  ASSUME NEW n, NEW d \in [1 .. n -> Word], NEW i, NEW v \in Word
  PROVE  With(d, i, v) \in [1 .. n -> Word]
PROOF
  BY DEF With

\* One more argument is evaluated, the one at place i, behind the outcome p.
ArgThen(val, a, i, p, o) ==
  IF ~IsOk(p) THEN o = p
  ELSE \E q \in V(val, a, StoreOf(p)) :
         IF IsOk(q) THEN o = Out(With(ValueOf(p), i, ValueOf(q)), StoreOf(q)) ELSE o = q

\* One more argument evaluated.
LEMMA ArgThenType ==
  ASSUME NEW val, NEW S, ValsTyped(val, S), NEW a \in S, NEW n, NEW i,
         NEW p \in ArgOutcomes(n), NEW o, ArgThen(val, a, i, p, o)
  PROVE  o \in ArgOutcomes(n)
PROOF
  <1>1. CASE ~IsOk(p)
    BY <1>1, Zenon DEF ArgThen
  <1>2. CASE IsOk(p)
    <2>1. ValueOf(p) \in [1 .. n -> Word] /\ StoreOf(p) \in Memory
      BY <1>2, ArgOutcomesFacts
    <2>2. PICK q \in V(val, a, StoreOf(p)) :
             IF IsOk(q) THEN o = Out(With(ValueOf(p), i, ValueOf(q)), StoreOf(q)) ELSE o = q
      BY <1>2, Zenon DEF ArgThen
    <2>3. q \in Outcomes
      BY <2>1, <2>2, ValsPart
    <2>4. CASE ~IsOk(q)
      BY <2>2, <2>3, <2>4, ArgOutcomesFacts
    <2>5. CASE IsOk(q)
      <3>1. ValueOf(q) \in Word /\ StoreOf(q) \in Memory
        BY <2>3, OutcomeFacts
      <3>2. With(ValueOf(p), i, ValueOf(q)) \in [1 .. n -> Word]
        BY <2>1, <3>1, WithArg
      <3>. QED BY <2>2, <2>5, <3>1, <3>2, ArgOutcomesFacts
    <2>. QED BY <2>4, <2>5
  <1>. QED BY <1>1, <1>2

\* A function with the outcomes of k arguments, for every k.
ArgsRun(f, val, args, order, s) ==
  /\ \A o : o \in f[0] <=> o = Out(Zeros(Len(args)), s)
  /\ \A k \in 0 .. Len(args) : f[k] \in SUBSET ArgOutcomes(Len(args))
  /\ \A k \in 1 .. Len(args) : \A o :
       o \in f[k] <=> \E p \in f[k - 1] : ArgThen(val, args[order[k]], order[k], p, o)

Indices(order, n) == order \in [1 .. n -> 1 .. n]

\* The outcomes behind the first k arguments in an order, as a function from k.
LEMMA EvaluatedIs ==
  ASSUME NEW val, NEW S, ValsTyped(val, S), NEW args, Tuple(args, S), NEW s \in Memory,
         NEW order, Indices(order, Len(args))
  PROVE  ArgsRun(Evaluated(val, args, order, s), val, args, order, s)
PROOF
  <1>0. Len(args) \in Nat /\ \A i \in 1 .. Len(args) : args[i] \in S
    BY DEF Tuple
  <1> DEFINE n == Len(args)
             C == SUBSET ArgOutcomes(n)
             one(k, p, q) == IF q[1] = "ok" THEN Ok([p[2] EXCEPT ![order[k]] = q[2]], q[3]) ELSE {q}
             two(k, p) == IF p[1] = "ok" THEN UNION {one(k, p, q) : q \in val[<<args[order[k]], p[3]>>]}
                          ELSE {p}
             next(k, P) == UNION {two(k, p) : p \in P}
             first == Ok(Zeros(n), s)
             Solves(f) == f = [k \in 0 .. n |-> IF k = 0 THEN first ELSE next(k, f[k - 1])]
             f0 == CHOOSE f : Solves(f)
             Move == [z \in (1 .. n) \X C |-> next(z[1], z[2])]
  <1>1. ASSUME NEW k, NEW P, NEW o
        PROVE  o \in next(k, P) <=> \E p \in P : ArgThen(val, args[order[k]], order[k], p, o)
    <2>1. ASSUME NEW p PROVE o \in two(k, p) <=> ArgThen(val, args[order[k]], order[k], p, o)
      <3>1. ASSUME NEW q
            PROVE  o \in one(k, p, q) <=>
                     IF IsOk(q) THEN o = Out(With(ValueOf(p), order[k], ValueOf(q)), StoreOf(q)) ELSE o = q
        BY Zenon DEF IsOk, Out, Ok, With, ValueOf, StoreOf
      <3> HIDE DEF one
      <3>2. o \in UNION {one(k, p, q) : q \in val[<<args[order[k]], p[3]>>]}
              <=> \E q \in val[<<args[order[k]], p[3]>>] : o \in one(k, p, q)
        OBVIOUS
      <3>. QED BY <3>1, <3>2, Zenon DEF ArgThen, V, IsOk, StoreOf
    <2> HIDE DEF two
    <2>2. o \in next(k, P) <=> \E p \in P : o \in two(k, p)
      OBVIOUS
    <2>. QED BY <2>1, <2>2, Zenon
  <1>2. \A o : o \in first <=> o = Out(Zeros(n), s)
    BY Zenon DEF Ok, Out
  <1>3. first \in C
    <2>1. Out(Zeros(n), s) \in ArgOutcomes(n)
      BY ZerosType, ArgOutcomesFacts
    <2>. QED BY <1>2, <2>1
  <1>4. ASSUME NEW k \in 1 .. n, NEW P \in C PROVE next(k, P) \in C
    <2>1. order[k] \in 1 .. n
      BY DEF Indices
    <2>2. args[order[k]] \in S
      BY <1>0, <2>1
    <2> HIDE DEF next
    <2>3. ASSUME NEW o, o \in next(k, P) PROVE o \in ArgOutcomes(n)
      <3>1. PICK p \in P : ArgThen(val, args[order[k]], order[k], p, o)
        BY <1>1, <2>3, Zenon
      <3>. QED BY <2>2, <3>1, ArgThenType
    <2>. QED BY <2>3
  <1> HIDE DEF next, first
  <1>5. Move \in [(1 .. n) \X C -> C] /\ \A k \in 1 .. n, P \in C : Move[<<k, P>>] = next(k, P)
    BY <1>4
  <1> HIDE DEF Move
  <1>6. PICK h : Iterates(h, n, C, first, Move)
    <2>1. Steps(n, C, first, Move)
      BY <1>0, <1>3, <1>5 DEF Steps
    <2> HIDE DEF n, C
    <2>. QED BY <2>1, Iteration, Zenon
  <1>7. \A k \in 0 .. n : h[k] = IF k = 0 THEN first ELSE next(k, h[k - 1])
    <2>0. h \in [0 .. n -> C]
          /\ \A k \in 0 .. n : h[k] = IF k = 0 THEN first ELSE Move[<<k, h[k - 1]>>]
      BY <1>6 DEF Iterates
    <2>1. SUFFICES ASSUME NEW k \in 0 .. n, k # 0 PROVE h[k] = next(k, h[k - 1])
      BY <2>0
    <2>2. k \in 1 .. n /\ k - 1 \in 0 .. n
      BY <1>0, <2>1
    <2>3. h[k - 1] \in C
      BY <2>0, <2>2
    <2>. QED BY <1>5, <2>0, <2>1, <2>2, <2>3
  <1>8. Solves(h)
    BY <1>6, <1>7 DEF Iterates
  <1>9. Solves(f0)
    BY <1>8, Zenon
  <1>10. f0[0] = first /\ \A k \in 1 .. n : f0[k] = next(k, f0[k - 1])
    <2>1. \A k \in 0 .. n : f0[k] = IF k = 0 THEN first ELSE next(k, f0[k - 1])
      BY <1>9
    <2> HIDE DEF f0, n
    <2>2. 0 \in 0 .. n /\ \A k \in 1 .. n : k \in 0 .. n /\ k # 0
      BY <1>0 DEF n
    <2>. QED BY <2>1, <2>2
  <1>11. Evaluated(val, args, order, s) = f0
    BY Zenon DEF Evaluated, Bind, next, two, one, first, Zeros
  <1> HIDE DEF f0
  <1> DEFINE Good == {k \in 0 .. n : f0[k] \in C}
  <1>12. 0 .. n \subseteq Good
    <2>1. 0 \in Good
      BY <1>0, <1>3, <1>10
    <2>2. ASSUME NEW k \in 0 .. n - 1, k \in Good PROVE k + 1 \in Good
      <3>1. k + 1 \in 1 .. n /\ k + 1 \in 0 .. n /\ (k + 1) - 1 = k
        BY <1>0
      <3>2. f0[k + 1] = next(k + 1, f0[k])
        BY <1>10, <3>1
      <3>3. f0[k] \in C
        BY <2>2
      <3>. QED BY <1>4, <3>1, <3>2, <3>3
    <2> HIDE DEF Good
    <2>. QED BY <1>0, <2>1, <2>2, Upwards
  <1>13. \A k \in 0 .. n : f0[k] \in C
    BY <1>12
  <1>14. \A k \in 1 .. n : \A o : o \in f0[k] <=> \E p \in f0[k - 1] : ArgThen(val, args[order[k]], order[k], p, o)
    <2>1. SUFFICES ASSUME NEW k \in 1 .. n, NEW o
          PROVE  o \in f0[k] <=> \E p \in f0[k - 1] : ArgThen(val, args[order[k]], order[k], p, o)
      BY Zenon
    <2>2. f0[k] = next(k, f0[k - 1])
      BY <1>10, Zenon
    <2>3. o \in next(k, f0[k - 1]) <=> \E p \in f0[k - 1] : ArgThen(val, args[order[k]], order[k], p, o)
      BY <1>1, Zenon
    <2>. QED BY <2>2, <2>3, Zenon
  <1>. QED BY <1>2, <1>10, <1>11, <1>13, <1>14, Zenon DEF ArgsRun

\* A call behind the outcome p of its arguments.
CallThen(e, p, o) ==
  IF IsOk(p) THEN o = Out(Result(e[2], ValueOf(p), StoreOf(p)), After(e[2], ValueOf(p), StoreOf(p)))
  ELSE o = p

\* The rule for calls: the arguments in any order, then the function.
LEMMA CallRule ==
  ASSUME NEW val, NEW e, Kind(e, "call"), NEW s, NEW o
  PROVE  Can(val, e, s, o) <=>
           \E order \in Orders(Len(e[3])) :
             \E p \in Evaluated(val, e[3], order, s)[Len(e[3])] : CallThen(e, p, o)
PROOF
  <1> DEFINE X(order) == Evaluated(val, e[3], order, s)[Len(e[3])]
             T(p) == IF p[1] = "ok" THEN Ok(Result(e[2], p[2], p[3]), After(e[2], p[2], p[3])) ELSE {p}
             B(order) == UNION {T(p) : p \in X(order)}
             Z == Orders(Len(e[3]))
  <1>1. e[1] = "call"
    BY DEF Kind
  <1>2. Evaluation(val, e, s) = UNION {B(order) : order \in Z}
    BY <1>1, Zenon DEF Evaluation, Bind
  <1>3. ASSUME NEW p PROVE o \in T(p) <=> CallThen(e, p, o)
    BY Zenon DEF CallThen, Ok, Out, IsOk, ValueOf, StoreOf
  <1> HIDE DEF T, X, Z
  <1>4. \A order : o \in B(order) <=> \E p \in X(order) : o \in T(p)
    OBVIOUS
  <1> HIDE DEF B
  <1>5. o \in UNION {B(order) : order \in Z} <=> \E order \in Z : o \in B(order)
    OBVIOUS
  <1>. QED BY <1>2, <1>3, <1>4, <1>5, Zenon DEF Can, X, Z
-----------------------------------------------------------------------------
(***************************************************************************)
(* Outcomes are typed and depend on the outcomes of the parts only.        *)
(***************************************************************************)
LEMMA ComparisonOps ==
  ASSUME NEW op \in Ordinary
  PROVE  \/ op \in Comparisons \/ op = "/" \/ op = "%"
         \/ op \in {"+", "-", "*", "&", "|", "^", "<<", ">>"}
PROOF
  BY Zenon DEF Ordinary

\* An operator on words has typed outcomes.
LEMMA ApplyType ==
  ASSUME NEW op \in Ordinary, NEW a \in Word, NEW b \in Word, NEW s \in Memory,
         NEW o, o \in Apply(op, a, b, s)
  PROVE  o \in Outcomes
PROOF
  <1>0. \A v \in Word : Out(v, s) \in Outcomes
    BY OutFacts
  <1>u. \A q : q \in Undefined(s) => q \in Outcomes
    BY WordFacts DEF Undefined, Outcomes
  <1>k. \A v, q : q \in Ok(v, s) => q = Out(v, s)
    BY DEF Ok, Out
  <1>1. CASE op \in Comparisons
    <2>1. o \in Ok(Bool(Holds(op, a, b)), s)
      BY <1>1, Zenon DEF Apply, Comparisons
    <2>. QED BY <1>0, <1>k, <2>1, BoolWord
  <1>2. CASE op = "/" \/ op = "%"
    <2>1. op \notin Comparisons /\ op \notin {"<<", ">>"} /\ op # ">>"
      BY <1>2, Zenon DEF Comparisons
    <2>2. op \in {"/", "%"}
      BY <1>2
    <2>3. o \in IF b = 0 \/ Quotient(a, b) \notin Word THEN Undefined(s)
                ELSE Ok(IF op = "/" THEN Quotient(a, b) ELSE a - Quotient(a, b) * b, s)
      BY <2>1, <2>2, Zenon DEF Apply
    <2>4. CASE b = 0 \/ Quotient(a, b) \notin Word
      BY <1>u, <2>3, <2>4, Zenon
    <2>5. CASE b # 0 /\ Quotient(a, b) \in Word
      <3>1. a - Quotient(a, b) * b \in Word
        BY <2>5, RemainderWord
      <3>2. PICK v : v = (IF op = "/" THEN Quotient(a, b) ELSE a - Quotient(a, b) * b) /\ v \in Word
        BY <2>5, <3>1
      <3>3. o \in Ok(v, s)
        BY <2>3, <2>5, <3>2, Zenon
      <3>. QED BY <1>0, <1>k, <3>2, <3>3
    <2>. QED BY <2>4, <2>5
  <1>3. CASE op \in {"+", "-", "*", "&", "|", "^", "<<", ">>"}
    <2>1. op \notin Comparisons /\ op \notin {"/", "%"}
      BY <1>3, Zenon DEF Comparisons
    <2>2. Alu(op, a, b) \in Word
      BY <1>3, AluWord
    <2>3. \/ o \in Undefined(s) \/ (\E v \in Word : o = Out(v, s)) \/ o \in Ok(Alu(op, a, b), s)
      <3>1. CASE op \in {"<<", ">>"} /\ b \notin 0 .. Bits - 1
        BY <2>1, <3>1, Zenon DEF Apply
      <3>2. CASE op = ">>" /\ a < 0 /\ b \in 0 .. Bits - 1
        <4>1. o \in {<<"ok", v, s>> : v \in Word}
          BY <2>1, <3>2, Zenon DEF Apply
        <4>. QED BY <4>1 DEF Out
      <3>3. CASE ~(op \in {"<<", ">>"} /\ b \notin 0 .. Bits - 1) /\ ~(op = ">>" /\ a < 0 /\ b \in 0 .. Bits - 1)
        BY <2>1, <3>3, Zenon DEF Apply
      <3>. QED BY <3>1, <3>2, <3>3, Zenon
    <2>. QED BY <1>0, <1>u, <1>k, <2>2, <2>3, Zenon
  <1>. QED BY <1>1, <1>2, <1>3, ComparisonOps, Zenon

\* Functions return words and leave words in the variables.
LEMMA CalleeFacts ==
  ASSUME NEW e, Kind(e, "call"), NEW args \in [1 .. Len(e[3]) -> Word], NEW s \in Memory
  PROVE  Result(e[2], args, s) \in Word /\ After(e[2], args, s) \in Memory
PROOF
  <1> DEFINE S == {<<f[2], Len(f[3])>> : f \in {f \in Exps : f[1] = "call"}}
  <1>1. \A call \in S : \A a \in [1 .. call[2] -> Word], m \in [Names -> Word] :
          Result(call[1], a, m) \in Word /\ After(call[1], a, m) \in [Names -> Word]
    BY CalleeAssumption, Zenon DEF CalleeAssumption
  <1>2. <<e[2], Len(e[3])>> \in S
    BY DEF Kind
  <1>3. PICK call \in S : call = <<e[2], Len(e[3])>>
    BY <1>2, Zenon
  <1>4. call[1] = e[2] /\ call[2] = Len(e[3])
    BY <1>3
  <1> HIDE DEF S
  <1>. QED BY <1>1, <1>4, Zenon DEF Memory

\* Orders of n arguments give each its place.
LEMMA OrdersFacts ==
  ASSUME NEW n, NEW order \in Orders(n)
  PROVE  Indices(order, n)
PROOF
  BY DEF Orders, Indices

\* So a call has typed outcomes.
LEMMA CallThenType ==
  ASSUME NEW e, Kind(e, "call"), NEW p \in ArgOutcomes(Len(e[3])), NEW o, CallThen(e, p, o)
  PROVE  o \in Outcomes
PROOF
  <1>1. CASE ~IsOk(p)
    BY <1>1, ArgOutcomesFacts, Zenon DEF CallThen
  <1>2. CASE IsOk(p)
    <2>1. ValueOf(p) \in [1 .. Len(e[3]) -> Word] /\ StoreOf(p) \in Memory
      BY <1>2, ArgOutcomesFacts
    <2>2. PICK v, s : v = ValueOf(p) /\ s = StoreOf(p)
      OBVIOUS
    <2>3. Result(e[2], v, s) \in Word /\ After(e[2], v, s) \in Memory
      BY <2>1, <2>2, CalleeFacts
    <2>4. o = Out(Result(e[2], v, s), After(e[2], v, s))
      BY <1>2, <2>2, Zenon DEF CallThen
    <2>. QED BY <2>3, <2>4, OutFacts
  <1>. QED BY <1>1, <1>2

\* And so has every expression, when its parts have.
LEMMA EvaluationType ==
  ASSUME NEW val, NEW e \in Exps, ValsTyped(val, Parts(e)), NEW s \in Memory, NEW o, Can(val, e, s, o)
  PROVE  o \in Outcomes
PROOF
  <1>1. CASE Kind(e, "const")
    <2>1. o = Out(e[2], s)
      BY <1>1, ConstRule, Zenon
    <2>. QED BY <1>1, <2>1, ConstFacts, OutFacts
  <1>2. CASE Kind(e, "var")
    <2>1. o = Out(s[e[2]], s)
      BY <1>2, VarRule, Zenon
    <2>2. s[e[2]] \in Word
      BY <1>2, VarFacts DEF Memory
    <2>. QED BY <2>1, <2>2, OutFacts
  <1>3. CASE Kind(e, "prefix") \/ Kind(e, "suffix")
    <2>1. PICK x : x = e[3][2] /\ x \in Names
      BY <1>3, StepFacts
    <2>2. s[x] \in Word
      BY <2>1 DEF Memory
    <2>3. PICK v \in Word : v = Alu1(e[2], s[x])
      <3>1. e[2] \in {"-", "~", "++", "--"}
        BY <1>3, StepFacts
      <3>. QED BY <2>2, <3>1, Alu1Word
    <2>4. With(s, x, v) \in Memory
      BY <2>1, WithType
    <2>5. o = Out(v, With(s, x, v)) \/ o = Out(s[x], With(s, x, v))
      <3>1. CASE Kind(e, "prefix")
        <4>1. o = Out(Alu1(e[2], s[e[3][2]]), With(s, e[3][2], Alu1(e[2], s[e[3][2]])))
          BY <3>1, PrefixRule, Zenon
        <4>. QED BY <2>1, <2>3, <4>1
      <3>2. CASE Kind(e, "suffix")
        <4>1. o = Out(s[e[3][2]], With(s, e[3][2], Alu1(e[2], s[e[3][2]])))
          BY <3>2, SuffixRule, Zenon
        <4>. QED BY <2>1, <2>3, <4>1
      <3>. QED BY <1>3, <3>1, <3>2
    <2>. QED BY <2>2, <2>4, <2>5, OutFacts
  <1>4. CASE Kind(e, "unary")
    <2>0. e[3] \in Parts(e) /\ e[2] \in {"-", "~", "!"}
      BY <1>4, UnaryFacts
    <2>1. PICK p \in V(val, e[3], s) : UnaryThen(e, p, o)
      BY <1>4, UnaryRule, Zenon
    <2>2. p \in Outcomes
      BY <2>0, ValsPart
    <2>3. ValueOf(p) \in Word /\ StoreOf(p) \in Memory
      BY <2>2, OutcomeFacts
    <2>4. PICK v \in Word : v = UnaryValue(e, ValueOf(p))
      <3>1. CASE e[2] = "!"
        BY <3>1, BoolWord DEF UnaryValue
      <3>2. CASE e[2] # "!"
        <4>1. e[2] \in {"-", "~", "++", "--"}
          BY <2>0, <3>2
        <4>. QED BY <2>3, <3>2, <4>1, Alu1Word DEF UnaryValue
      <3>. QED BY <3>1, <3>2
    <2>5. o = Out(v, StoreOf(p)) \/ o = p
      BY <2>1, <2>4, Zenon DEF UnaryThen
    <2>. QED BY <2>2, <2>3, <2>4, <2>5, OutFacts
  <1>5. CASE Kind(e, "ternary")
    <2>0. e[2] \in Parts(e) /\ e[3] \in Parts(e) /\ e[4] \in Parts(e)
      BY <1>5, TernaryFacts
    <2>1. PICK p \in V(val, e[2], s) : TernaryThen(val, e, p, o)
      BY <1>5, TernaryRule, Zenon
    <2>2. p \in Outcomes
      BY <2>0, ValsPart
    <2>3. StoreOf(p) \in Memory
      BY <2>2, OutcomeFacts
    <2>4. o = p \/ o \in V(val, e[3], StoreOf(p)) \/ o \in V(val, e[4], StoreOf(p))
      BY <2>1, Zenon DEF TernaryThen
    <2>. QED BY <2>0, <2>2, <2>3, <2>4, ValsPart
  <1>6. CASE Kind(e, "call")
    <2>1. PICK order \in Orders(Len(e[3])) :
            \E p \in Evaluated(val, e[3], order, s)[Len(e[3])] : CallThen(e, p, o)
      BY <1>6, CallRule, Zenon
    <2>2. PICK p \in Evaluated(val, e[3], order, s)[Len(e[3])] : CallThen(e, p, o)
      BY <2>1, Zenon
    <2>3. Tuple(e[3], Parts(e)) /\ Len(e[3]) \in 0 .. Len(e[3])
      BY <1>6, CallFacts DEF Tuple
    <2>4. ArgsRun(Evaluated(val, e[3], order, s), val, e[3], order, s)
      BY <2>3, EvaluatedIs, OrdersFacts
    <2>5. Evaluated(val, e[3], order, s)[Len(e[3])] \in SUBSET ArgOutcomes(Len(e[3]))
      BY <2>3, <2>4, Zenon DEF ArgsRun
    <2>6. p \in ArgOutcomes(Len(e[3]))
      BY <2>2, <2>5
    <2>. QED BY <1>6, <2>2, <2>6, CallThenType
  <1>7. CASE Kind(e, "binary")
    <2>0. e[3] \in Parts(e) /\ e[4] \in Parts(e)
      BY <1>7, BinaryFacts
    <2>1. CASE IsComma(e)
      <3>1. PICK p \in V(val, e[3], s) : CommaThen(val, e, p, o)
        BY <2>1, CommaRule, Zenon
      <3>2. p \in Outcomes
        BY <2>0, ValsPart
      <3>3. StoreOf(p) \in Memory
        BY <3>2, OutcomeFacts
      <3>4. o = p \/ o \in V(val, e[4], StoreOf(p))
        BY <3>1, Zenon DEF CommaThen
      <3>. QED BY <2>0, <3>2, <3>3, <3>4, ValsPart
    <2>2. CASE IsAssign(e)
      <3>1. PICK p \in V(val, e[4], s) : AssignThen(e, p, o)
        BY <2>2, AssignRule, Zenon
      <3>2. p \in Outcomes
        BY <2>0, ValsPart
      <3>3. ValueOf(p) \in Word /\ StoreOf(p) \in Memory
        BY <3>2, OutcomeFacts
      <3>4. e[3][2] \in Names
        <4>1. e[2] = "="
          BY <2>2, Zenon DEF IsAssign
        <4>. QED BY <1>7, <4>1, BinaryFacts
      <3>5. With(StoreOf(p), e[3][2], ValueOf(p)) \in Memory
        BY <3>3, <3>4, WithType
      <3>6. o = p \/ o = Out(ValueOf(p), With(StoreOf(p), e[3][2], ValueOf(p)))
        BY <3>1, Zenon DEF AssignThen
      <3>. QED BY <3>2, <3>3, <3>5, <3>6, OutFacts
    <2>3. CASE IsLogic(e)
      <3>1. PICK p \in V(val, e[3], s) : LogicThen(val, e, p, o)
        BY <2>3, LogicRule, Zenon
      <3>2. p \in Outcomes
        BY <2>0, ValsPart
      <3>3. StoreOf(p) \in Memory
        BY <3>2, OutcomeFacts
      <3>4. Decided(e) \in Word
        BY WordFacts DEF Decided
      <3>5. \/ o = p \/ o = Out(Decided(e), StoreOf(p))
            \/ \E q \in V(val, e[4], StoreOf(p)) : TruthThen(q, o)
        BY <3>1, Zenon DEF LogicThen
      <3>6. ASSUME NEW q \in V(val, e[4], StoreOf(p)), TruthThen(q, o) PROVE o \in Outcomes
        <4>1. q \in Outcomes
          BY <2>0, <3>3, ValsPart
        <4>2. StoreOf(q) \in Memory
          BY <4>1, OutcomeFacts
        <4>3. o = q \/ o = Out(Bool(ValueOf(q) # 0), StoreOf(q))
          BY <3>6, Zenon DEF TruthThen
        <4>. QED BY <4>1, <4>2, <4>3, BoolWord, OutFacts
      <3>. QED BY <3>2, <3>3, <3>4, <3>5, <3>6, OutFacts
    <2>4. CASE IsOrdinary(e)
      <3>0. e[2] \in Ordinary
        BY <2>4, Zenon DEF IsOrdinary
      <3>1. \A p, m : m \in Memory /\ p \in V(val, e[3], m) => p \in Outcomes
        BY <2>0, ValsPart
      <3>2. \A p, m : m \in Memory /\ p \in V(val, e[4], m) => p \in Outcomes
        BY <2>0, ValsPart
      <3>3. \/ \E p \in V(val, e[3], s) : LeftThen(val, e, p, o)
            \/ \E p \in V(val, e[4], s) : RightThen(val, e, p, o)
        BY <2>4, OrdinaryRule, Zenon
      <3>4. ASSUME NEW p \in V(val, e[3], s), LeftThen(val, e, p, o) PROVE o \in Outcomes
        <4>1. p \in Outcomes /\ ValueOf(p) \in Word /\ StoreOf(p) \in Memory
          BY <3>1, OutcomeFacts
        <4>2. CASE o = p
          BY <4>1, <4>2
        <4>3. CASE o # p
          <5>1. PICK q \in V(val, e[4], StoreOf(p)) :
                  IF IsOk(q) THEN o \in Apply(e[2], ValueOf(p), ValueOf(q), StoreOf(q)) ELSE o = q
            BY <3>4, <4>3, Zenon DEF LeftThen
          <5>2. q \in Outcomes
            BY <3>2, <4>1
          <5>3. ValueOf(q) \in Word /\ StoreOf(q) \in Memory
            BY <5>2, OutcomeFacts
          <5>. QED BY <3>0, <4>1, <5>1, <5>2, <5>3, ApplyType
        <4>. QED BY <4>2, <4>3
      <3>5. ASSUME NEW p \in V(val, e[4], s), RightThen(val, e, p, o) PROVE o \in Outcomes
        <4>1. p \in Outcomes /\ ValueOf(p) \in Word /\ StoreOf(p) \in Memory
          BY <3>2, OutcomeFacts
        <4>2. CASE o = p
          BY <4>1, <4>2
        <4>3. CASE o # p
          <5>1. PICK q \in V(val, e[3], StoreOf(p)) :
                  IF IsOk(q) THEN o \in Apply(e[2], ValueOf(q), ValueOf(p), StoreOf(q)) ELSE o = q
            BY <3>5, <4>3, Zenon DEF RightThen
          <5>2. q \in Outcomes
            BY <3>1, <4>1
          <5>3. ValueOf(q) \in Word /\ StoreOf(q) \in Memory
            BY <5>2, OutcomeFacts
          <5>. QED BY <3>0, <4>1, <5>1, <5>2, <5>3, ApplyType
        <4>. QED BY <4>2, <4>3
      <3>. QED BY <3>3, <3>4, <3>5, Zenon
    <2>. QED BY <1>7, <2>1, <2>2, <2>3, <2>4, BinaryKinds, Zenon
  <1>. QED BY <1>1, <1>2, <1>3, <1>4, <1>5, <1>6, <1>7, Kinds, Zenon

\* The same outcomes of the parts give the same outcomes.
SameVals(g, h, e) == \A p \in Parts(e), s \in Memory : V(g, p, s) = V(h, p, s)

\* Evaluations that agree on the parts agree on each of them.
LEMMA SamePart ==
  ASSUME NEW g, NEW h, NEW e, SameVals(g, h, e), NEW p \in Parts(e), NEW s \in Memory
  PROVE  V(g, p, s) = V(h, p, s)
PROOF
  BY DEF SameVals

\* The outcomes of arguments depend on those of the parts only.
LEMMA EvaluatedLocal ==
  ASSUME NEW g, NEW h, NEW e, Kind(e, "call"), SameVals(g, h, e),
         ValsTyped(g, Parts(e)), ValsTyped(h, Parts(e)), NEW s \in Memory,
         NEW order, Indices(order, Len(e[3]))
  PROVE  Evaluated(g, e[3], order, s)[Len(e[3])] = Evaluated(h, e[3], order, s)[Len(e[3])]
PROOF
  <1>1. PICK args : args = e[3]
    OBVIOUS
  <1>2. Tuple(args, Parts(e))
    BY <1>1, CallFacts DEF Tuple
  <1>3. PICK f1 : f1 = Evaluated(g, args, order, s) /\ ArgsRun(f1, g, args, order, s)
    BY <1>1, <1>2, EvaluatedIs
  <1>4. PICK f2 : f2 = Evaluated(h, args, order, s) /\ ArgsRun(f2, h, args, order, s)
    BY <1>1, <1>2, EvaluatedIs
  <1>5. PICK n \in Nat : n = Len(args)
    BY <1>2 DEF Tuple
  <1>t. /\ \A k \in 0 .. n : f1[k] \in SUBSET ArgOutcomes(n) /\ f2[k] \in SUBSET ArgOutcomes(n)
        /\ \A k \in 1 .. n : \A o :
             o \in f1[k] <=> \E p \in f1[k - 1] : ArgThen(g, args[order[k]], order[k], p, o)
        /\ \A k \in 1 .. n : \A o :
             o \in f2[k] <=> \E p \in f2[k - 1] : ArgThen(h, args[order[k]], order[k], p, o)
    BY <1>3, <1>4, <1>5, Zenon DEF ArgsRun
  <1>6. f1[0] = f2[0]
    <2>1. 0 \in 0 .. n
      OBVIOUS
    <2>2. \A o : o \in f1[0] <=> o \in f2[0]
      BY <1>3, <1>4, Zenon DEF ArgsRun
    <2>. QED BY <1>t, <2>1, <2>2
  <1>7. ASSUME NEW k \in 0 .. n - 1, f1[k] = f2[k] PROVE f1[k + 1] = f2[k + 1]
    <2>1. k + 1 \in 1 .. n /\ (k + 1) - 1 = k /\ k \in 0 .. n /\ k + 1 \in 0 .. n
      OBVIOUS
    <2>2. PICK i : i = order[k + 1]
      OBVIOUS
    <2>3. PICK a : a = args[i]
      OBVIOUS
    <2>4. i \in 1 .. n
      BY <1>1, <1>5, <2>1, <2>2 DEF Indices
    <2>5. a \in Parts(e)
      BY <1>2, <1>5, <2>3, <2>4, Zenon DEF Tuple
    <2>6. ASSUME NEW p \in f1[k], NEW o PROVE ArgThen(g, a, i, p, o) <=> ArgThen(h, a, i, p, o)
      <3>1. p \in ArgOutcomes(n)
        BY <1>t, <2>1
      <3>2. CASE ~IsOk(p)
        BY <3>2, Zenon DEF ArgThen
      <3>3. CASE IsOk(p)
        <4>1. StoreOf(p) \in Memory
          BY <3>1, <3>3, ArgOutcomesFacts
        <4>2. V(g, a, StoreOf(p)) = V(h, a, StoreOf(p))
          BY <2>5, <4>1, SamePart
        <4>. QED BY <4>2, Zenon DEF ArgThen
      <3>. QED BY <3>2, <3>3
    <2>7. \A o : o \in f1[k + 1] <=> \E p \in f1[k] : ArgThen(g, a, i, p, o)
      BY <1>t, <2>1, <2>2, <2>3
    <2>8. \A o : o \in f2[k + 1] <=> \E p \in f2[k] : ArgThen(h, a, i, p, o)
      BY <1>t, <2>1, <2>2, <2>3
    <2>9. \A o : o \in f1[k + 1] <=> o \in f2[k + 1]
      BY <1>7, <2>6, <2>7, <2>8
    <2>. QED BY <1>t, <2>1, <2>9
  <1> DEFINE Same == {k \in 0 .. n : f1[k] = f2[k]}
  <1>8. 0 \in Same /\ \A k \in 0 .. n - 1 : k \in Same => k + 1 \in Same
    BY <1>6, <1>7
  <1> HIDE DEF Same
  <1>9. 0 .. n \subseteq Same
    BY <1>8, Upwards
  <1>10. n \in Same
    BY <1>9
  <1>. QED BY <1>1, <1>3, <1>4, <1>5, <1>10 DEF Same

\* So do those of every expression, one by one.
LEMMA CanLocal ==
  ASSUME NEW g, NEW h, NEW e \in Exps, SameVals(g, h, e),
         ValsTyped(g, Parts(e)), ValsTyped(h, Parts(e)), NEW s \in Memory, NEW o, Can(g, e, s, o)
  PROVE  Can(h, e, s, o)
PROOF
  <1>p. \A p \in Parts(e), m \in Memory : V(g, p, m) = V(h, p, m)
    BY Zenon DEF SameVals
  <1>t. \A p \in Parts(e), m \in Memory : \A q \in V(g, p, m) : q \in Outcomes /\ StoreOf(q) \in Memory
    BY ValsPart, OutcomeFacts
  <1>1. CASE Kind(e, "const")
    <2>1. o = Out(e[2], s)
      BY <1>1, ConstRule, Zenon
    <2>. QED BY <1>1, <2>1, ConstRule, Zenon
  <1>2. CASE Kind(e, "var")
    <2>1. o = Out(s[e[2]], s)
      BY <1>2, VarRule, Zenon
    <2>. QED BY <1>2, <2>1, VarRule, Zenon
  <1>3. CASE Kind(e, "prefix")
    BY <1>3, PrefixRule, Zenon
  <1>4. CASE Kind(e, "suffix")
    BY <1>4, SuffixRule, Zenon
  <1>5. CASE Kind(e, "unary")
    <2>0. e[3] \in Parts(e)
      BY <1>5, UnaryFacts
    <2>1. PICK p \in V(g, e[3], s) : UnaryThen(e, p, o)
      BY <1>5, UnaryRule, Zenon
    <2>2. p \in V(h, e[3], s)
      BY <1>p, <2>0
    <2>. QED BY <1>5, <2>1, <2>2, UnaryRule, Zenon
  <1>6. CASE Kind(e, "ternary")
    <2>0. e[2] \in Parts(e) /\ e[3] \in Parts(e) /\ e[4] \in Parts(e)
      BY <1>6, TernaryFacts
    <2>1. PICK p \in V(g, e[2], s) : TernaryThen(g, e, p, o)
      BY <1>6, TernaryRule, Zenon
    <2>2. p \in V(h, e[2], s) /\ StoreOf(p) \in Memory
      BY <1>p, <1>t, <2>0
    <2>3. V(g, e[3], StoreOf(p)) = V(h, e[3], StoreOf(p)) /\ V(g, e[4], StoreOf(p)) = V(h, e[4], StoreOf(p))
      BY <1>p, <2>0, <2>2
    <2>4. TernaryThen(h, e, p, o)
      <3>1. CASE ValueOf(p) # 0
        BY <2>1, <2>3, <3>1 DEF TernaryThen
      <3>2. CASE ValueOf(p) = 0
        BY <2>1, <2>3, <3>2 DEF TernaryThen
      <3>. QED BY <3>1, <3>2
    <2>. QED BY <1>6, <2>2, <2>4, TernaryRule, Zenon
  <1>7. CASE Kind(e, "call")
    <2>1. PICK order \in Orders(Len(e[3])) :
            \E p \in Evaluated(g, e[3], order, s)[Len(e[3])] : CallThen(e, p, o)
      BY <1>7, CallRule, Zenon
    <2>2. Evaluated(g, e[3], order, s)[Len(e[3])] = Evaluated(h, e[3], order, s)[Len(e[3])]
      BY <1>7, OrdersFacts, EvaluatedLocal
    <2>3. \E p \in Evaluated(h, e[3], order, s)[Len(e[3])] : CallThen(e, p, o)
      BY <2>1, <2>2, Zenon
    <2>. QED BY <1>7, <2>1, <2>3, CallRule, Zenon
  <1>8. CASE Kind(e, "binary")
    <2>0. e[3] \in Parts(e) /\ e[4] \in Parts(e)
      BY <1>8, BinaryFacts
    <2>p. V(g, e[3], s) = V(h, e[3], s) /\ V(g, e[4], s) = V(h, e[4], s)
      BY <1>p, <2>0
    <2>l. \A p \in V(g, e[3], s) : V(g, e[4], StoreOf(p)) = V(h, e[4], StoreOf(p))
      BY <1>p, <1>t, <2>0
    <2>r. \A p \in V(g, e[4], s) : V(g, e[3], StoreOf(p)) = V(h, e[3], StoreOf(p))
      BY <1>p, <1>t, <2>0
    <2>1. CASE IsComma(e)
      <3>1. PICK p \in V(g, e[3], s) : CommaThen(g, e, p, o)
        BY <2>1, CommaRule, Zenon
      <3>2. CommaThen(h, e, p, o)
        BY <2>l, <3>1, Zenon DEF CommaThen
      <3>. QED BY <2>p, <2>1, <3>1, <3>2, CommaRule, Zenon
    <2>2. CASE IsAssign(e)
      BY <2>p, <2>2, AssignRule, Zenon
    <2>3. CASE IsLogic(e)
      <3>1. PICK p \in V(g, e[3], s) : LogicThen(g, e, p, o)
        BY <2>3, LogicRule, Zenon
      <3>2. LogicThen(h, e, p, o)
        BY <2>l, <3>1, Zenon DEF LogicThen
      <3>. QED BY <2>p, <2>3, <3>1, <3>2, LogicRule, Zenon
    <2>4. CASE IsOrdinary(e)
      <3>3. \/ \E p \in V(g, e[3], s) : LeftThen(g, e, p, o)
            \/ \E p \in V(g, e[4], s) : RightThen(g, e, p, o)
        BY <2>4, OrdinaryRule, Zenon
      <3>4. ASSUME NEW p \in V(g, e[3], s), LeftThen(g, e, p, o) PROVE LeftThen(h, e, p, o)
        BY <2>l, <3>4, Zenon DEF LeftThen
      <3>5. ASSUME NEW p \in V(g, e[4], s), RightThen(g, e, p, o) PROVE RightThen(h, e, p, o)
        BY <2>r, <3>5, Zenon DEF RightThen
      <3>6. \/ \E p \in V(h, e[3], s) : LeftThen(h, e, p, o)
            \/ \E p \in V(h, e[4], s) : RightThen(h, e, p, o)
        BY <2>p, <3>3, <3>4, <3>5, Zenon
      <3>. QED BY <2>4, <3>6, OrdinaryRule, Zenon
    <2>. QED BY <1>8, <2>1, <2>2, <2>3, <2>4, BinaryKinds, Zenon
  <1>. QED BY <1>1, <1>2, <1>3, <1>4, <1>5, <1>6, <1>7, <1>8, Kinds, Zenon

\* And as a set.
LEMMA EvaluationLocal ==
  ASSUME NEW g, NEW h, NEW e \in Exps, SameVals(g, h, e),
         ValsTyped(g, Parts(e)), ValsTyped(h, Parts(e)), NEW s \in Memory
  PROVE  Evaluation(g, e, s) = Evaluation(h, e, s) /\ Evaluation(g, e, s) \in SUBSET Outcomes
PROOF
  <1>1. SameVals(h, g, e)
    BY DEF SameVals
  <1>2. \A o : Can(g, e, s, o) => Can(h, e, s, o)
    BY CanLocal
  <1>3. \A o : Can(h, e, s, o) => Can(g, e, s, o)
    BY <1>1, CanLocal
  <1>4. \A o : Can(g, e, s, o) => o \in Outcomes
    BY EvaluationType
  <1>5. \A o : Can(h, e, s, o) => o \in Outcomes
    BY EvaluationType
  <1>6. \A o : o \in Evaluation(g, e, s) <=> o \in Evaluation(h, e, s)
    BY <1>2, <1>3, Zenon DEF Can
  <1>7. \A o : o \in Evaluation(g, e, s) => o \in Outcomes
    BY <1>4, Zenon DEF Can
  <1>8. PICK x, y : x = Evaluation(g, e, s) /\ y = Evaluation(h, e, s)
    OBVIOUS
  <1>9. \A o : (o \in x <=> o \in y) /\ (o \in x => o \in Outcomes)
    BY <1>6, <1>7, <1>8, Zenon
  <1>10. x \subseteq y /\ y \subseteq x /\ x \subseteq Outcomes
    BY <1>9, Zenon
  <1>. QED BY <1>8, <1>10
-----------------------------------------------------------------------------
(***************************************************************************)
(* CValues satisfies its definition.                                       *)
(***************************************************************************)
ValsDom == Exps \X Memory

\* The functions among which CValues is sought are typed.
LEMMA ValsAreTyped ==
  ASSUME NEW g \in Vals, NEW e \in Exps
  PROVE  ValsTyped(g, Parts(e)) /\ ValsTyped(g, {e})
PROOF
  <1>1. \A p \in Parts(e) : p \in Exps
    BY PartsFacts
  <1>. QED BY <1>1 DEF Vals, V, ValsTyped

\* The rules of C have a solution.
LEMMA ValsSolution ==
  \E f \in Vals : \A e \in Exps, s \in Memory : V(f, e, s) = Evaluation(f, e, s)
PROOF
  <1> DEFINE D == ValsDom
             C == SUBSET Outcomes
             r == [x \in D |-> Height(x[1])]
             F == [z \in D \X [D -> C] |-> Evaluation(z[2], z[1][1], z[1][2])]
  <1>0. Vals = [D -> C]
    BY DEF Vals, ValsDom
  <1>1. ASSUME NEW x \in D
        PROVE  /\ x[1] \in Exps /\ x[2] \in Memory /\ x = <<x[1], x[2]>> /\ Height(x[1]) \in Nat
    <2>1. x[1] \in Exps /\ x[2] \in Memory /\ x = <<x[1], x[2]>>
      BY DEF ValsDom
    <2>. QED BY <2>1, PartsFacts
  <1>2. r \in [D -> Nat] /\ \A x \in D : r[x] = Height(x[1])
    BY <1>1
  <1>3. ASSUME NEW g, NEW h, NEW e \in Exps, SameVals(g, h, e), g \in Vals, h \in Vals, NEW s \in Memory
        PROVE  Evaluation(g, e, s) = Evaluation(h, e, s) /\ Evaluation(g, e, s) \in C
    <2>1. ValsTyped(g, Parts(e)) /\ ValsTyped(h, Parts(e))
      BY <1>3, ValsAreTyped
    <2>. QED BY <1>3, <2>1, EvaluationLocal
  <1>4. /\ F \in [D \X [D -> C] -> C]
        /\ \A x \in D, g \in [D -> C] : F[<<x, g>>] = Evaluation(g, x[1], x[2])
    <2>1. ASSUME NEW x \in D, NEW g \in [D -> C] PROVE Evaluation(g, x[1], x[2]) \in C
      <3>1. SameVals(g, g, x[1])
        BY DEF SameVals
      <3>. QED BY <1>0, <1>1, <1>3, <3>1
    <2>. QED BY <2>1
  <1> HIDE DEF r, F, C, D
  <1>5. ASSUME NEW x \in D, NEW g \in [D -> C], NEW h \in [D -> C],
               \A y \in D : r[y] < r[x] => g[y] = h[y]
        PROVE  F[<<x, g>>] = F[<<x, h>>]
    <2>1. ASSUME NEW p \in Parts(x[1]), NEW s \in Memory PROVE V(g, p, s) = V(h, p, s)
      <3>1. p \in Exps /\ Height(p) < Height(x[1])
        BY <1>1, PartsFacts
      <3>2. <<p, s>> \in D /\ <<p, s>>[1] = p
        BY <3>1 DEF ValsDom, D
      <3>3. PICK y \in D : y = <<p, s>> /\ y[1] = p
        BY <3>2, Zenon
      <3>4. r[y] < r[x]
        BY <1>2, <3>1, <3>3
      <3>. QED BY <1>5, <3>3, <3>4 DEF V
    <2>2. SameVals(g, h, x[1])
      BY <2>1, Zenon DEF SameVals
    <2>3. x[1] \in Exps /\ x[2] \in Memory /\ g \in Vals /\ h \in Vals
      BY <1>0, <1>1
    <2>4. Evaluation(g, x[1], x[2]) = Evaluation(h, x[1], x[2])
      BY <1>3, <2>2, <2>3, Zenon
    <2>. QED BY <1>4, <2>4, Zenon
  <1>6. C # {}
    BY DEF C
  <1>7. Ranked(D, C, r, F)
    BY <1>2, <1>4, <1>5, <1>6 DEF Ranked
  <1>8. PICK f : Solution(D, C, F, f)
    BY <1>7, Recursion
  <1>9. f \in Vals /\ \A x \in D : f[x] = Evaluation(f, x[1], x[2])
    BY <1>0, <1>4, <1>8 DEF Solution
  <1>10. ASSUME NEW e \in Exps, NEW s \in Memory PROVE V(f, e, s) = Evaluation(f, e, s)
    <2>1. PICK x : x = <<e, s>>
      OBVIOUS
    <2>2. x \in D /\ x[1] = e /\ x[2] = s
      BY <2>1 DEF ValsDom, D
    <2>. QED BY <1>9, <2>1, <2>2, Zenon DEF V
  <1>. QED BY <1>9, <1>10

\* CValues is one.
LEMMA CValuesDefinition ==
  \A e \in Exps, s \in Memory : V(CValues, e, s) = Evaluation(CValues, e, s)
PROOF
  <1> DEFINE D == Exps \X [Names -> Word]
             Solves(f) == f = [x \in D |-> Evaluation(f, x[1], x[2])]
  <1>1. PICK f \in Vals : \A e \in Exps, s \in Memory : V(f, e, s) = Evaluation(f, e, s)
    BY ValsSolution
  <1>2. ASSUME NEW x \in D PROVE f[x] = Evaluation(f, x[1], x[2])
    <2>1. x[1] \in Exps /\ x[2] \in Memory /\ x = <<x[1], x[2]>>
      BY DEF Memory
    <2>2. V(f, x[1], x[2]) = Evaluation(f, x[1], x[2])
      BY <1>1, <2>1, Zenon
    <2>. QED BY <2>1, <2>2, Zenon DEF V
  <1>3. Solves(f)
    BY <1>2 DEF Vals, Memory
  <1>4. CValues = CHOOSE g : Solves(g)
    BY Zenon DEF CValues
  <1>5. Solves(CValues)
    BY <1>3, <1>4, Zenon
  <1>6. ASSUME NEW e \in Exps, NEW s \in Memory PROVE V(CValues, e, s) = Evaluation(CValues, e, s)
    <2>1. PICK x : x = <<e, s>>
      OBVIOUS
    <2>2. x \in D /\ x[1] = e /\ x[2] = s
      BY <2>1 DEF Memory
    <2>3. \A y \in D : CValues[y] = Evaluation(CValues, y[1], y[2])
      BY <1>5
    <2>. QED BY <2>1, <2>2, <2>3, Zenon DEF V
  <1>. QED BY <1>6

\* Its outcomes are typed.
LEMMA CValuesTyped ==
  \A e \in Exps : ValsTyped(CValues, {e}) /\ ValsTyped(CValues, Parts(e))
PROOF
  <1>1. PICK f \in Vals : \A e \in Exps, s \in Memory : V(f, e, s) = Evaluation(f, e, s)
    BY ValsSolution
  <1> DEFINE S == {e \in Exps : \A s \in Memory : V(CValues, e, s) = V(f, e, s)}
  <1>2. ASSUME NEW e \in Exps, \A p \in Parts(e) : p \in S PROVE e \in S
    <2>1. SameVals(CValues, f, e)
      BY <1>2, Zenon DEF SameVals
    <2>2. ValsTyped(f, Parts(e))
      BY ValsAreTyped
    <2>3. ValsTyped(CValues, Parts(e))
      BY <2>1, <2>2, Zenon DEF SameVals, ValsTyped
    <2>4. ASSUME NEW s \in Memory PROVE V(CValues, e, s) = V(f, e, s)
      <3>1. Evaluation(CValues, e, s) = Evaluation(f, e, s)
        BY <2>1, <2>2, <2>3, EvaluationLocal
      <3>2. V(f, e, s) = Evaluation(f, e, s)
        BY <1>1, Zenon
      <3>3. V(CValues, e, s) = Evaluation(CValues, e, s)
        BY CValuesDefinition, Zenon
      <3>. QED BY <3>1, <3>2, <3>3
    <2>. QED BY <2>4
  <1> HIDE DEF S
  <1>3. Exps \subseteq S
    BY <1>2, TreeInduction
  <1>4. ASSUME NEW e \in Exps, NEW s \in Memory PROVE V(CValues, e, s) \in SUBSET Outcomes
    <2>1. V(CValues, e, s) = V(f, e, s)
      BY <1>3, Zenon DEF S
    <2>2. <<e, s>> \in Exps \X Memory
      OBVIOUS
    <2>. QED BY <2>1, <2>2 DEF Vals, V
  <1>. QED BY <1>4, PartsFacts DEF ValsTyped

\* The outcomes of e when the variables are s before.
C(e, s) == V(CValues, e, s)

\* What C allows for an expression is what the rule for its kind says of its parts.
LEMMA CRule ==
  ASSUME NEW e \in Exps, NEW s \in Memory, NEW o
  PROVE  /\ o \in C(e, s) <=> Can(CValues, e, s, o)
         /\ o \in C(e, s) => o \in Outcomes
PROOF
  <1>1. V(CValues, e, s) = Evaluation(CValues, e, s)
    BY CValuesDefinition
  <1>2. ValsTyped(CValues, {e})
    BY CValuesTyped
  <1>3. o \in V(CValues, e, s) => o \in Outcomes
    BY <1>2, ValsPart
  <1>. QED BY <1>1, <1>3 DEF Can, C
-----------------------------------------------------------------------------
(***************************************************************************)
(* The void functions whose value is used.                                 *)
(***************************************************************************)
UsesDom == Exps \X {0, 1}
UsesFuncs == [UsesDom -> SUBSET VoidFuncs]
UsedIn(g, e, n) == g[<<e, n>>]

\* The definition of VoidUses with the void functions in the parts given by g.
Uses(g, e, n) ==
  CASE e[1] \in {"const", "var"} -> {}
    [] e[1] = "call" -> VoidUse(e[2], n) \cup UNION {g[<<a, 1>>] : a \in Range(e[3])}
    [] e[1] = "ternary" -> g[<<e[2], 1>>] \cup g[<<e[3], n>>] \cup g[<<e[4], n>>]
    [] e[1] = "binary" /\ e[2] = "," -> g[<<e[3], 0>>] \cup g[<<e[4], n>>]
    [] e[1] = "binary" /\ e[2] # "," -> g[<<e[3], 1>>] \cup g[<<e[4], 1>>]
    [] OTHER -> g[<<e[3], 1>>]

\* Only void functions are reported, and only when the value is required.
LEMMA VoidUseType ==
  ASSUME NEW f, NEW n
  PROVE  VoidUse(f, n) \subseteq VoidFuncs /\ VoidUse(f, 0) = {}
PROOF
  BY DEF VoidUse

\* The void functions of which a value is used, by the kind of the expression.
LEMMA UsesRules ==
  ASSUME NEW g, NEW e, NEW n
  PROVE  /\ Kind(e, "const") \/ Kind(e, "var") => Uses(g, e, n) = {}
         /\ Kind(e, "unary") \/ Kind(e, "prefix") \/ Kind(e, "suffix") =>
              Uses(g, e, n) = UsedIn(g, e[3], 1)
         /\ Kind(e, "ternary") =>
              Uses(g, e, n) = UsedIn(g, e[2], 1) \cup UsedIn(g, e[3], n) \cup UsedIn(g, e[4], n)
         /\ Kind(e, "call") =>
              Uses(g, e, n) = VoidUse(e[2], n) \cup UNION {UsedIn(g, a, 1) : a \in Range(e[3])}
         /\ IsComma(e) => Uses(g, e, n) = UsedIn(g, e[3], 0) \cup UsedIn(g, e[4], n)
         /\ IsAssign(e) \/ IsLogic(e) \/ IsOrdinary(e) =>
              Uses(g, e, n) = UsedIn(g, e[3], 1) \cup UsedIn(g, e[4], 1)
PROOF
  <1>1. Kind(e, "const") \/ Kind(e, "var") => Uses(g, e, n) = {}
    BY Zenon DEF Kind, Uses, UsedIn
  <1>2. Kind(e, "unary") \/ Kind(e, "prefix") \/ Kind(e, "suffix") =>
              Uses(g, e, n) = UsedIn(g, e[3], 1)
    BY Zenon DEF Kind, Uses, UsedIn
  <1>3. Kind(e, "ternary") =>
              Uses(g, e, n) = UsedIn(g, e[2], 1) \cup UsedIn(g, e[3], n) \cup UsedIn(g, e[4], n)
    BY Zenon DEF Kind, Uses, UsedIn
  <1>4. Kind(e, "call") =>
              Uses(g, e, n) = VoidUse(e[2], n) \cup UNION {UsedIn(g, a, 1) : a \in Range(e[3])}
    BY Zenon DEF Kind, Uses, UsedIn
  <1>5. IsComma(e) => Uses(g, e, n) = UsedIn(g, e[3], 0) \cup UsedIn(g, e[4], n)
    BY Zenon DEF Kind, Uses, UsedIn, IsComma
  <1>6. ASSUME IsAssign(e) \/ IsLogic(e) \/ IsOrdinary(e)
        PROVE  Uses(g, e, n) = UsedIn(g, e[3], 1) \cup UsedIn(g, e[4], 1)
    <2>1. e[1] = "binary" /\ e[2] # ","
      BY <1>6, Zenon DEF IsAssign, IsLogic, IsOrdinary, Ordinary, Comparisons, Kind
    <2>. QED BY <2>1, Zenon DEF Uses, UsedIn
  <1>. QED BY <1>1, <1>2, <1>3, <1>4, <1>5, <1>6, Zenon

SameUses(g, h, e) == \A p \in Parts(e), n \in {0, 1} : UsedIn(g, p, n) = UsedIn(h, p, n)
UsesTyped(g, e) == \A p \in Parts(e), n \in {0, 1} : UsedIn(g, p, n) \in SUBSET VoidFuncs

\* They depend on those of the parts only.
LEMMA UsesLocal ==
  ASSUME NEW g, NEW h, NEW e \in Exps, SameUses(g, h, e), UsesTyped(g, e), NEW n \in {0, 1}
  PROVE  Uses(g, e, n) = Uses(h, e, n) /\ Uses(g, e, n) \in SUBSET VoidFuncs
PROOF
  <1>0. \A p \in Parts(e), k \in {0, 1} : UsedIn(g, p, k) = UsedIn(h, p, k) /\ UsedIn(g, p, k) \subseteq VoidFuncs
    BY DEF SameUses, UsesTyped
  <1>p. \A p \in Parts(e) : /\ UsedIn(g, p, 1) = UsedIn(h, p, 1) /\ UsedIn(g, p, 1) \subseteq VoidFuncs
                            /\ UsedIn(g, p, 0) = UsedIn(h, p, 0) /\ UsedIn(g, p, 0) \subseteq VoidFuncs
                            /\ UsedIn(g, p, n) = UsedIn(h, p, n) /\ UsedIn(g, p, n) \subseteq VoidFuncs
    BY <1>0
  <1>1. CASE Kind(e, "const") \/ Kind(e, "var")
    <2>1. Uses(g, e, n) = {} /\ Uses(h, e, n) = {}
      BY <1>1, UsesRules, Zenon
    <2>. QED BY <2>1
  <1>2. CASE Kind(e, "unary") \/ Kind(e, "prefix") \/ Kind(e, "suffix")
    <2>1. Uses(g, e, n) = UsedIn(g, e[3], 1) /\ Uses(h, e, n) = UsedIn(h, e[3], 1)
      BY <1>2, UsesRules, Zenon
    <2>2. e[3] \in Parts(e)
      BY <1>2, UnaryFacts, StepFacts
    <2>. QED BY <1>p, <2>1, <2>2
  <1>3. CASE Kind(e, "ternary")
    <2>1. /\ Uses(g, e, n) = UsedIn(g, e[2], 1) \cup UsedIn(g, e[3], n) \cup UsedIn(g, e[4], n)
          /\ Uses(h, e, n) = UsedIn(h, e[2], 1) \cup UsedIn(h, e[3], n) \cup UsedIn(h, e[4], n)
      BY <1>3, UsesRules, Zenon
    <2>2. e[2] \in Parts(e) /\ e[3] \in Parts(e) /\ e[4] \in Parts(e)
      BY <1>3, TernaryFacts
    <2>. QED BY <1>p, <2>1, <2>2
  <1>4. CASE Kind(e, "call")
    <2>1. /\ Uses(g, e, n) = VoidUse(e[2], n) \cup UNION {UsedIn(g, a, 1) : a \in Range(e[3])}
          /\ Uses(h, e, n) = VoidUse(e[2], n) \cup UNION {UsedIn(h, a, 1) : a \in Range(e[3])}
      BY <1>4, UsesRules, Zenon
    <2>2. Parts(e) = Range(e[3])
      BY <1>4, CallFacts
    <2>3. PICK P : P = Range(e[3]) /\ P = Parts(e)
      BY <2>2
    <2>4. /\ UNION {UsedIn(g, a, 1) : a \in P} = UNION {UsedIn(h, a, 1) : a \in P}
          /\ UNION {UsedIn(g, a, 1) : a \in P} \subseteq VoidFuncs
      BY <1>p, <2>3
    <2>5. VoidUse(e[2], n) \subseteq VoidFuncs
      BY VoidUseType
    <2>. QED BY <2>1, <2>3, <2>4, <2>5
  <1>5. CASE IsComma(e)
    <2>1. /\ Uses(g, e, n) = UsedIn(g, e[3], 0) \cup UsedIn(g, e[4], n)
          /\ Uses(h, e, n) = UsedIn(h, e[3], 0) \cup UsedIn(h, e[4], n)
      BY <1>5, UsesRules, Zenon
    <2>2. e[3] \in Parts(e) /\ e[4] \in Parts(e)
      BY <1>5, OperandFacts
    <2>. QED BY <1>p, <2>1, <2>2
  <1>6. CASE IsAssign(e) \/ IsLogic(e) \/ IsOrdinary(e)
    <2>1. /\ Uses(g, e, n) = UsedIn(g, e[3], 1) \cup UsedIn(g, e[4], 1)
          /\ Uses(h, e, n) = UsedIn(h, e[3], 1) \cup UsedIn(h, e[4], 1)
      BY <1>6, UsesRules, Zenon
    <2>2. e[3] \in Parts(e) /\ e[4] \in Parts(e)
      BY <1>6, OperandFacts
    <2>. QED BY <1>p, <2>1, <2>2
  <1>. QED BY <1>1, <1>2, <1>3, <1>4, <1>5, <1>6, Kinds, BinaryKinds, Zenon

\* The functions among which VoidUses is sought are typed.
LEMMA UsesAreTyped ==
  ASSUME NEW g \in UsesFuncs, NEW e \in Exps
  PROVE  UsesTyped(g, e)
PROOF
  <1>1. \A p \in Parts(e) : p \in Exps
    BY PartsFacts
  <1>. QED BY <1>1 DEF UsesFuncs, UsesDom, UsedIn, UsesTyped

\* The rules have a solution.
LEMMA UsesSolution ==
  \E f \in UsesFuncs : \A e \in Exps, n \in {0, 1} : UsedIn(f, e, n) = Uses(f, e, n)
PROOF
  <1> DEFINE D == UsesDom
             S == SUBSET VoidFuncs
             r == [x \in D |-> Height(x[1])]
             F == [z \in D \X [D -> S] |-> Uses(z[2], z[1][1], z[1][2])]
  <1>0. UsesFuncs = [D -> S]
    BY DEF UsesFuncs
  <1>1. ASSUME NEW x \in D
        PROVE  /\ x[1] \in Exps /\ x[2] \in {0, 1} /\ x = <<x[1], x[2]>> /\ Height(x[1]) \in Nat
    <2>1. x[1] \in Exps /\ x[2] \in {0, 1} /\ x = <<x[1], x[2]>>
      BY DEF UsesDom
    <2>. QED BY <2>1, PartsFacts
  <1>2. r \in [D -> Nat] /\ \A x \in D : r[x] = Height(x[1])
    BY <1>1
  <1>3. ASSUME NEW g, NEW h, NEW e \in Exps, SameUses(g, h, e), g \in UsesFuncs, NEW n \in {0, 1}
        PROVE  Uses(g, e, n) = Uses(h, e, n) /\ Uses(g, e, n) \in S
    <2>1. UsesTyped(g, e)
      BY <1>3, UsesAreTyped
    <2>. QED BY <1>3, <2>1, UsesLocal
  <1>4. /\ F \in [D \X [D -> S] -> S]
        /\ \A x \in D, g \in [D -> S] : F[<<x, g>>] = Uses(g, x[1], x[2])
    <2>1. ASSUME NEW x \in D, NEW g \in [D -> S] PROVE Uses(g, x[1], x[2]) \in S
      <3>1. SameUses(g, g, x[1])
        BY DEF SameUses
      <3>. QED BY <1>0, <1>1, <1>3, <3>1
    <2>. QED BY <2>1
  <1> HIDE DEF r, F, S, D
  <1>5. ASSUME NEW x \in D, NEW g \in [D -> S], NEW h \in [D -> S],
               \A y \in D : r[y] < r[x] => g[y] = h[y]
        PROVE  F[<<x, g>>] = F[<<x, h>>]
    <2>1. ASSUME NEW p \in Parts(x[1]), NEW n \in {0, 1} PROVE UsedIn(g, p, n) = UsedIn(h, p, n)
      <3>1. p \in Exps /\ Height(p) < Height(x[1])
        BY <1>1, PartsFacts
      <3>2. <<p, n>> \in D /\ <<p, n>>[1] = p
        BY <3>1 DEF UsesDom, D
      <3>3. PICK y \in D : y = <<p, n>> /\ y[1] = p
        BY <3>2, Zenon
      <3>4. r[y] < r[x]
        BY <1>2, <3>1, <3>3
      <3>. QED BY <1>5, <3>3, <3>4 DEF UsedIn
    <2>2. SameUses(g, h, x[1])
      BY <2>1, Zenon DEF SameUses
    <2>3. x[1] \in Exps /\ x[2] \in {0, 1} /\ g \in UsesFuncs
      BY <1>0, <1>1
    <2>4. Uses(g, x[1], x[2]) = Uses(h, x[1], x[2])
      BY <1>3, <2>2, <2>3, Zenon
    <2>. QED BY <1>4, <2>4, Zenon
  <1>6. S # {}
    BY DEF S
  <1>7. Ranked(D, S, r, F)
    BY <1>2, <1>4, <1>5, <1>6 DEF Ranked
  <1>8. PICK f : Solution(D, S, F, f)
    BY <1>7, Recursion
  <1>9. f \in UsesFuncs /\ \A x \in D : f[x] = Uses(f, x[1], x[2])
    BY <1>0, <1>4, <1>8 DEF Solution
  <1>10. ASSUME NEW e \in Exps, NEW n \in {0, 1} PROVE UsedIn(f, e, n) = Uses(f, e, n)
    <2>1. PICK x : x = <<e, n>>
      OBVIOUS
    <2>2. x \in D /\ x[1] = e /\ x[2] = n
      BY <2>1 DEF UsesDom, D
    <2>. QED BY <1>9, <2>1, <2>2, Zenon DEF UsedIn
  <1>. QED BY <1>9, <1>10

\* VoidUses is one.
LEMMA VoidUsesDefinition ==
  \A e \in Exps, n \in {0, 1} : UsedIn(VoidUses, e, n) = Uses(VoidUses, e, n)
PROOF
  <1> DEFINE Solves(f) == f = [x \in Exps \X {0, 1} |-> Uses(f, x[1], x[2])]
  <1>1. PICK f \in UsesFuncs : \A e \in Exps, n \in {0, 1} : UsedIn(f, e, n) = Uses(f, e, n)
    BY UsesSolution
  <1>2. ASSUME NEW x \in Exps \X {0, 1} PROVE f[x] = Uses(f, x[1], x[2])
    <2>1. x[1] \in Exps /\ x[2] \in {0, 1} /\ x = <<x[1], x[2]>>
      OBVIOUS
    <2>2. UsedIn(f, x[1], x[2]) = Uses(f, x[1], x[2])
      BY <1>1, <2>1, Zenon
    <2>. QED BY <2>1, <2>2, Zenon DEF UsedIn
  <1>3. Solves(f)
    BY <1>2 DEF UsesFuncs, UsesDom
  <1>4. VoidUses = CHOOSE g : Solves(g)
    BY Zenon DEF VoidUses, Uses
  <1>5. Solves(VoidUses)
    BY <1>3, <1>4, Zenon
  <1>6. ASSUME NEW e \in Exps, NEW n \in {0, 1} PROVE UsedIn(VoidUses, e, n) = Uses(VoidUses, e, n)
    <2>1. PICK x : x = <<e, n>>
      OBVIOUS
    <2>2. x \in Exps \X {0, 1} /\ x[1] = e /\ x[2] = n
      BY <2>1
    <2>3. \A y \in Exps \X {0, 1} : VoidUses[y] = Uses(VoidUses, y[1], y[2])
      BY <1>5
    <2>. QED BY <2>1, <2>2, <2>3, Zenon DEF UsedIn
  <1>. QED BY <1>6

\* The void functions in e whose value is used when that of e is (n = 1) or not.
U(e, n) == UsedIn(VoidUses, e, n)

\* So VoidUses follows the rules.
LEMMA URules ==
  ASSUME NEW e \in Exps, NEW n \in {0, 1}
  PROVE  /\ Kind(e, "const") \/ Kind(e, "var") => U(e, n) = {}
         /\ Kind(e, "unary") \/ Kind(e, "prefix") \/ Kind(e, "suffix") => U(e, n) = U(e[3], 1)
         /\ Kind(e, "ternary") => U(e, n) = U(e[2], 1) \cup U(e[3], n) \cup U(e[4], n)
         /\ Kind(e, "call") => U(e, n) = VoidUse(e[2], n) \cup UNION {U(a, 1) : a \in Range(e[3])}
         /\ IsComma(e) => U(e, n) = U(e[3], 0) \cup U(e[4], n)
         /\ IsAssign(e) \/ IsLogic(e) \/ IsOrdinary(e) => U(e, n) = U(e[3], 1) \cup U(e[4], 1)
PROOF
  <1>1. U(e, n) = Uses(VoidUses, e, n)
    BY VoidUsesDefinition DEF U
  <1>. QED BY <1>1, UsesRules, Zenon DEF U
\* It has void functions.
LEMMA UType ==
  \A e \in Exps : \A n \in {0, 1} : U(e, n) \subseteq VoidFuncs
PROOF
  <1> DEFINE S == {e \in Exps : \A n \in {0, 1} : U(e, n) \subseteq VoidFuncs}
  <1>1. ASSUME NEW e \in Exps, \A p \in Parts(e) : p \in S PROVE e \in S
    <2>1. UsesTyped(VoidUses, e)
      BY <1>1, Zenon DEF UsesTyped, U
    <2>2. SameUses(VoidUses, VoidUses, e)
      BY DEF SameUses
    <2>3. ASSUME NEW n \in {0, 1} PROVE U(e, n) \subseteq VoidFuncs
      BY <2>1, <2>2, UsesLocal, VoidUsesDefinition DEF U
    <2>. QED BY <2>3
  <1> HIDE DEF S
  <1>2. Exps \subseteq S
    BY <1>1, TreeInduction
  <1>. QED BY <1>2 DEF S

\* What is used when a value is not is used when it is.
LEMMA UMonotone ==
  \A e \in Exps : U(e, 0) \subseteq U(e, 1)
PROOF
  <1> DEFINE S == {e \in Exps : U(e, 0) \subseteq U(e, 1)}
  <1>1. ASSUME NEW e \in Exps, \A p \in Parts(e) : p \in S PROVE e \in S
    <2>0. \A p \in Parts(e) : U(p, 0) \subseteq U(p, 1)
      BY <1>1
    <2> HIDE DEF S
    <2>1. CASE Kind(e, "const") \/ Kind(e, "var") \/ Kind(e, "unary") \/ Kind(e, "prefix")
               \/ Kind(e, "suffix") \/ IsAssign(e) \/ IsLogic(e) \/ IsOrdinary(e)
      <3>1. U(e, 0) = U(e, 1)
        BY <2>1, URules
      <3>. QED BY <3>1 DEF S
    <2>2. CASE Kind(e, "ternary")
      <3>1. /\ U(e, 0) = U(e[2], 1) \cup U(e[3], 0) \cup U(e[4], 0)
            /\ U(e, 1) = U(e[2], 1) \cup U(e[3], 1) \cup U(e[4], 1)
        BY <2>2, URules
      <3>2. e[3] \in Parts(e) /\ e[4] \in Parts(e)
        BY <2>2, TernaryFacts
      <3>. QED BY <2>0, <3>1, <3>2 DEF S
    <2>3. CASE IsComma(e)
      <3>1. /\ U(e, 0) = U(e[3], 0) \cup U(e[4], 0)
            /\ U(e, 1) = U(e[3], 0) \cup U(e[4], 1)
        BY <2>3, URules
      <3>2. e[4] \in Parts(e)
        BY <2>3, OperandFacts
      <3>. QED BY <2>0, <3>1, <3>2 DEF S
    <2>4. CASE Kind(e, "call")
      <3>1. PICK X : X = UNION {U(a, 1) : a \in Range(e[3])}
        OBVIOUS
      <3>2. U(e, 0) = VoidUse(e[2], 0) \cup X /\ U(e, 1) = VoidUse(e[2], 1) \cup X
        BY <2>4, <3>1, URules
      <3>3. VoidUse(e[2], 0) = {}
        BY VoidUseType
      <3>. QED BY <3>2, <3>3 DEF S
    <2>. QED BY <2>1, <2>2, <2>3, <2>4, Kinds, BinaryKinds, Zenon
  <1> HIDE DEF S
  <1>2. Exps \subseteq S
    BY <1>1, TreeInduction
  <1>. QED BY <1>2 DEF S

Commas == [Exps -> SUBSET VoidFuncs]

\* The definition of VoidBehindComma with what is in the parts given by g.
CommaUses(e) == IF e[1] = "binary" /\ e[2] = "," THEN VoidUses[<<e[4], 1>>] ELSE {}
CommaStep(g, e) == CommaUses(e) \cup UNION {g[p] : p \in Parts(e)}

\* What stands behind the comma of a comma expression.
LEMMA CommaUsesIs ==
  ASSUME NEW e \in Exps
  PROVE  /\ IsComma(e) => CommaUses(e) = U(e[4], 1)
         /\ CommaUses(e) \subseteq VoidFuncs
PROOF
  <1>1. IsComma(e) => CommaUses(e) = U(e[4], 1)
    BY Zenon DEF IsComma, Kind, CommaUses, U, UsedIn
  <1>2. ~IsComma(e) => CommaUses(e) = {}
    BY Zenon DEF IsComma, Kind, CommaUses
  <1>3. IsComma(e) => U(e[4], 1) \subseteq VoidFuncs
    BY OperandFacts, UType
  <1>. QED BY <1>1, <1>2, <1>3

\* The rules for what stands behind commas have a solution.
LEMMA CommaSolution ==
  \E f \in Commas : \A e \in Exps : f[e] = CommaStep(f, e)
PROOF
  <1> DEFINE S == SUBSET VoidFuncs
             r == [e \in Exps |-> Height(e)]
             F == [z \in Exps \X [Exps -> S] |-> CommaStep(z[2], z[1])]
  <1>0. Commas = [Exps -> S]
    BY DEF Commas
  <1>1. r \in [Exps -> Nat] /\ \A e \in Exps : r[e] = Height(e)
    BY PartsFacts
  <1>2. ASSUME NEW g \in [Exps -> S], NEW e \in Exps PROVE CommaStep(g, e) \in S
    <2>1. \A p \in Parts(e) : p \in Exps
      BY PartsFacts
    <2>2. UNION {g[p] : p \in Parts(e)} \subseteq VoidFuncs
      BY <2>1
    <2>. QED BY <2>2, CommaUsesIs DEF CommaStep
  <1>3. /\ F \in [Exps \X [Exps -> S] -> S]
        /\ \A e \in Exps, g \in [Exps -> S] : F[<<e, g>>] = CommaStep(g, e)
    BY <1>2
  <1> HIDE DEF r, F
  <1>4. ASSUME NEW e \in Exps, NEW g \in [Exps -> S], NEW h \in [Exps -> S],
               \A y \in Exps : r[y] < r[e] => g[y] = h[y]
        PROVE  F[<<e, g>>] = F[<<e, h>>]
    <2>1. ASSUME NEW p \in Parts(e) PROVE g[p] = h[p]
      <3>1. p \in Exps /\ Height(p) < Height(e)
        BY PartsFacts
      <3>. QED BY <1>1, <1>4, <3>1
    <2>2. {g[p] : p \in Parts(e)} = {h[p] : p \in Parts(e)}
      BY <2>1
    <2>3. CommaStep(g, e) = CommaStep(h, e)
      BY <2>2, Zenon DEF CommaStep
    <2>. QED BY <1>3, <2>3, Zenon
  <1>5. S # {}
    OBVIOUS
  <1>6. Ranked(Exps, S, r, F)
    BY <1>1, <1>3, <1>4, <1>5 DEF Ranked
  <1>7. PICK f : Solution(Exps, S, F, f)
    BY <1>6, Recursion
  <1>. QED BY <1>0, <1>3, <1>7 DEF Solution

\* VoidBehindComma is one.
LEMMA BehindCommaDefinition ==
  \A e \in Exps : VoidBehindComma[e] = CommaStep(VoidBehindComma, e)
PROOF
  <1> DEFINE Solves(f) == f = [e \in Exps |-> CommaStep(f, e)]
  <1>1. PICK f \in Commas : \A e \in Exps : f[e] = CommaStep(f, e)
    BY CommaSolution
  <1>2. Solves(f)
    BY <1>1 DEF Commas
  <1>3. VoidBehindComma = CHOOSE g : Solves(g)
    BY Zenon DEF VoidBehindComma, CommaStep, CommaUses
  <1>4. Solves(VoidBehindComma)
    BY <1>2, <1>3, Zenon
  <1>. QED BY <1>4

BC(e) == VoidBehindComma[e]

\* It has what stands behind a comma, in the expression and in all parts.
LEMMA BCFacts ==
  ASSUME NEW e \in Exps
  PROVE  /\ IsComma(e) => U(e[4], 1) \subseteq BC(e)
         /\ \A p \in Parts(e) : BC(p) \subseteq BC(e)
PROOF
  <1>1. PICK X : X = UNION {VoidBehindComma[p] : p \in Parts(e)}
    OBVIOUS
  <1>2. BC(e) = CommaUses(e) \cup X
    BY <1>1, BehindCommaDefinition DEF BC, CommaStep
  <1>3. \A p \in Parts(e) : BC(p) \subseteq X
    BY <1>1 DEF BC
  <1>. QED BY <1>2, <1>3, CommaUsesIs

-----------------------------------------------------------------------------
(***************************************************************************)
(* The code of an expression, for each kind.                               *)
(***************************************************************************)
LEMMA LeafG ==
  ASSUME NEW e \in Exps, NEW i \in Int, NEW l \in Nat, NEW n \in {0, 1}
  PROVE  /\ Kind(e, "const") => G(e, i, l, n) = LeafCx("mov", e[2], i, l)
         /\ Kind(e, "var") => G(e, i, l, n) = LeafCx("load", e[2], i, l)
PROOF
  BY GType, PartsTyped, ConstGen, VarGen

\* The code of a unary expression.
LEMMA UnaryG ==
  ASSUME NEW e \in Exps, Kind(e, "unary") \/ Kind(e, "prefix") \/ Kind(e, "suffix"),
         NEW i \in Int, NEW l \in Nat, NEW n \in {0, 1}
  PROVE  G(e, i, l, n) = UnaryCx(G(e[3], i, l, 1), UnaryCode(e))
PROOF
  BY GType, PartsTyped, UnaryGen DEF G

\* The code of an assignment.
LEMMA AssignG ==
  ASSUME NEW e \in Exps, IsAssign(e), NEW i \in Int, NEW l \in Nat, NEW n \in {0, 1}
  PROVE  G(e, i, l, n) = AssignCx(G(e[4], i, l, 1), e[3][2])
PROOF
  BY GType, PartsTyped, AssignGen DEF G

\* The code of a comma: the value of the right operand is always required (x86.c:147).
LEMMA CommaG ==
  ASSUME NEW e \in Exps, IsComma(e), NEW i \in Int, NEW l \in Nat, NEW n \in {0, 1},
         NEW a, a = G(e[3], i, l, 0)
  PROVE  G(e, i, l, n) = CommaCx(a, G(e[4], IndexOf(a), LabelsOf(a), 1))
PROOF
  BY GType, PartsTyped, CommaGen DEF G

\* The code of && and ||.
LEMMA LogicG ==
  ASSUME NEW e \in Exps, IsLogic(e), NEW i \in Int, NEW l \in Nat, NEW n \in {0, 1},
         NEW a, a = G(e[3], i, l + 1, 1)
  PROVE  G(e, i, l, n) = LogicCx(a, G(e[4], IndexOf(a), LabelsOf(a), 1), JumpOf(e), l)
PROOF
  BY GType, PartsTyped, LogicGen DEF G

\* The code of the other binary operators: right operand, push, left operand, pop.
LEMMA OrdinaryG ==
  ASSUME NEW e \in Exps, IsOrdinary(e), NEW i \in Int, NEW l \in Nat, NEW n \in {0, 1},
         NEW a, a = G(e[4], i, l, 1)
  PROVE  G(e, i, l, n) = OrdinaryCx(a, G(e[3], IndexOf(a) + 8, LabelsOf(a), 1), BinaryCode(e[2]))
PROOF
  BY GType, PartsTyped, OrdinaryGen DEF G

\* The code of a ternary expression.
LEMMA TernaryG ==
  ASSUME NEW e \in Exps, Kind(e, "ternary"), NEW i \in Int, NEW l \in Nat, NEW n \in {0, 1},
         NEW c, c = G(e[2], i, l + 1 + 1, 1), NEW a, a = G(e[3], IndexOf(c), LabelsOf(c), n)
  PROVE  G(e, i, l, n) = TernaryCx(c, a, G(e[4], IndexOf(a), LabelsOf(a), n), l, l + 1)
PROOF
  BY GType, PartsTyped, TernaryGen DEF G

\* The contexts behind the arguments of a call.
CallRun(f, e, i, l, n) ==
  /\ f[0] = Checked(e[2], i, l, n) /\ Len(e[3]) \in Nat
  /\ \A k \in 0 .. Len(e[3]) : f[k] \in Contexts
  /\ \A k \in 1 .. Len(e[3]) :
       f[k] = PushedCx(f[k - 1], G(e[3][Len(e[3]) + 1 - k], IndexOf(f[k - 1]), LabelsOf(f[k - 1]), 1))
  /\ G(e, i, l, n) = CallCx(f[Len(e[3])], e[2], Len(e[3]))

\* The code of a call, behind the contexts with its arguments pushed.
LEMMA CallG ==
  ASSUME NEW e \in Exps, Kind(e, "call"), NEW i \in Int, NEW l \in Nat, NEW n \in {0, 1}
  PROVE  \E f : CallRun(f, e, i, l, n)
PROOF
  <1>1. PICK f : f = Pushed(Code, Checked(e[2], i, l, n), e[3])
    OBVIOUS
  <1>2. /\ ArgsPushed(f, Code, Checked(e[2], i, l, n), e[3])
        /\ G(e, i, l, n) = CallCx(f[Len(e[3])], e[2], Len(e[3]))
    BY <1>1, GType, PartsTyped, CallGen
  <1>3. Len(e[3]) \in Nat /\ \A k \in 1 .. Len(e[3]) : e[3][k] \in Parts(e)
    BY CallFacts
  <1>4. ASSUME NEW k \in 1 .. Len(e[3])
        PROVE  f[k] = PushedCx(f[k - 1], G(e[3][Len(e[3]) + 1 - k], IndexOf(f[k - 1]), LabelsOf(f[k - 1]), 1))
    <2>1. k - 1 \in 0 .. Len(e[3]) /\ Len(e[3]) + 1 - k \in 1 .. Len(e[3])
      BY <1>3
    <2>2. PICK a : a = e[3][Len(e[3]) + 1 - k]
      OBVIOUS
    <2>3. a \in Parts(e)
      BY <1>3, <2>1, <2>2
    <2>4. f[k - 1] \in Contexts /\ f[k] = NextArg(Code, f[k - 1], a)
      BY <1>2, <2>1, <2>2 DEF ArgsPushed
    <2>5. f[k] = PushedCx(f[k - 1], Part(Code, a, IndexOf(f[k - 1]), LabelsOf(f[k - 1]), 1))
      BY <2>3, <2>4, PartsTyped, NextArgIs
    <2>. QED BY <2>2, <2>5 DEF G
  <1>5. CallRun(f, e, i, l, n)
    BY <1>2, <1>3, <1>4, Zenon DEF CallRun, ArgsPushed
  <1>. QED BY <1>5
-----------------------------------------------------------------------------
(***************************************************************************)
(* What the compiler dies for.                                             *)
(***************************************************************************)
\* The void functions each layout reports.
LEMMA LeafUsed ==
  ASSUME NEW o, NEW x, NEW i, NEW l
  PROVE  UsedOf(LeafCx(o, x, i, l)) = None
PROOF
  BY CxFacts DEF LeafCx

\* A unary expression reports what its part does.
LEMMA UnaryUsed ==
  ASSUME NEW a, NEW s
  PROVE  UsedOf(UnaryCx(a, s)) = UsedOf(a)
PROOF
  BY CxFacts DEF UnaryCx

\* An assignment reports what its value does.
LEMMA AssignUsed ==
  ASSUME NEW a, NEW x
  PROVE  UsedOf(AssignCx(a, x)) = UsedOf(a)
PROOF
  BY CxFacts DEF AssignCx

\* A comma reports what both operands do.
LEMMA CommaUsed ==
  ASSUME NEW a, NEW b
  PROVE  UsedOf(CommaCx(a, b)) = Join(UsedOf(a), UsedOf(b))
PROOF
  BY CxFacts DEF CommaCx

\* So do && and ||.
LEMMA LogicUsed ==
  ASSUME NEW a, NEW b, NEW o, NEW l
  PROVE  UsedOf(LogicCx(a, b, o, l)) = Join(UsedOf(a), UsedOf(b))
PROOF
  BY CxFacts DEF LogicCx

\* And the other binary operators.
LEMMA OrdinaryUsed ==
  ASSUME NEW a, NEW b, NEW s
  PROVE  UsedOf(OrdinaryCx(a, b, s)) = Join(UsedOf(a), UsedOf(b))
PROOF
  BY CxFacts DEF OrdinaryCx

\* A ternary expression reports what all three parts do.
LEMMA TernaryUsed ==
  ASSUME NEW c, NEW a, NEW b, NEW l, NEW m
  PROVE  UsedOf(TernaryCx(c, a, b, l, m)) = Join(Join(UsedOf(c), UsedOf(a)), UsedOf(b))
PROOF
  BY CxFacts DEF TernaryCx

\* A further argument adds what it reports.
LEMMA PushedUsed ==
  ASSUME NEW p, NEW a
  PROVE  UsedOf(PushedCx(p, a)) = Join(UsedOf(p), UsedOf(a))
PROOF
  BY CxFacts DEF PushedCx

\* The call itself adds nothing.
LEMMA CalledUsed ==
  ASSUME NEW p, NEW f, NEW n
  PROVE  UsedOf(CallCx(p, f, n)) = UsedOf(p)
PROOF
  <1>1. UsedOf(CalledCx(p, f, n)) = UsedOf(p)
    BY CxFacts DEF CalledCx
  <1>2. UsedOf(ReleasedCx(p, f, n)) = UsedOf(p)
    BY CxFacts DEF ReleasedCx
  <1>. QED BY <1>1, <1>2, Zenon DEF CallCx

\* What code d of a part with the void functions u and those behind commas b reports.
Between(u, d, b) == u \subseteq d /\ d \subseteq u \cup b

UsedRight(e) ==
  \A i \in Int, l \in Nat, n \in {0, 1} : Between(U(e, n), UsedOf(G(e, i, l, n)), BC(e))

\* What the code of a part reports, as a part of the whole.
LEMMA PartUsed ==
  ASSUME NEW e \in Exps, NEW p \in Parts(e), UsedRight(p), NEW i \in Int, NEW l \in Nat, NEW n \in {0, 1}
  PROVE  Between(U(p, n), UsedOf(G(p, i, l, n)), BC(e)) /\ G(p, i, l, n) \in Contexts
         /\ p \in Exps
PROOF
  <1>1. p \in Exps
    BY PartsFacts
  <1>2. BC(p) \subseteq BC(e)
    BY BCFacts
  <1>3. Between(U(p, n), UsedOf(G(p, i, l, n)), BC(p))
    BY Zenon DEF UsedRight
  <1>. QED BY <1>1, <1>2, <1>3, GType DEF Between

\* What the code of a call reports, by induction over the arguments.
LEMMA CallUsed ==
  ASSUME NEW e \in Exps, Kind(e, "call"), \A p \in Parts(e) : UsedRight(p),
         NEW i \in Int, NEW l \in Nat, NEW n \in {0, 1}
  PROVE  Between(U(e, n), UsedOf(G(e, i, l, n)), BC(e))
PROOF
  <1>1. PICK f : CallRun(f, e, i, l, n)
    BY CallG
  <1>2. PICK N \in Nat : N = Len(e[3])
    BY <1>1, Zenon DEF CallRun
  <1>3. PICK args : args = e[3] /\ Range(args) = Parts(e) /\ DOMAIN args = 1 .. N
    BY <1>2, CallFacts
  <1>4. /\ f[0] = Checked(e[2], i, l, n)
        /\ \A k \in 0 .. N : f[k] \in Contexts
        /\ \A k \in 1 .. N :
             f[k] = PushedCx(f[k - 1], G(args[N + 1 - k], IndexOf(f[k - 1]), LabelsOf(f[k - 1]), 1))
        /\ G(e, i, l, n) = CallCx(f[N], e[2], N)
    BY <1>1, <1>2, <1>3, Zenon DEF CallRun
  <1>5. \A k \in 1 .. N : args[k] \in Parts(e)
    BY <1>3 DEF Range
  <1> DEFINE last(k) == {args[N + 1 - j] : j \in 1 .. k}
             X(k) == VoidUse(e[2], n) \cup UNION {U(a, 1) : a \in last(k)}
             S == {k \in 0 .. N : Between(X(k), UsedOf(f[k]), BC(e))}
  <1>6. 0 \in S
    <2>1. UsedOf(f[0]) = VoidUse(e[2], n)
      BY <1>4, CxFacts DEF Checked
    <2>2. X(0) = VoidUse(e[2], n)
      OBVIOUS
    <2>. QED BY <2>1, <2>2 DEF Between
  <1>7. ASSUME NEW k \in 0 .. N - 1, k \in S PROVE k + 1 \in S
    <2>1. k + 1 \in 1 .. N /\ (k + 1) - 1 = k /\ N + 1 - (k + 1) \in 1 .. N /\ k \in 0 .. N /\ k + 1 \in 0 .. N
      OBVIOUS
    <2>2. PICK a : a = args[N + 1 - (k + 1)]
      OBVIOUS
    <2>3. a \in Parts(e)
      BY <1>5, <2>1, <2>2
    <2>4. PICK p \in Contexts : p = f[k]
      BY <1>4, <2>1
    <2>5. PICK b : b = G(a, IndexOf(p), LabelsOf(p), 1)
      OBVIOUS
    <2>6. f[k + 1] = PushedCx(p, b)
      BY <1>4, <2>1, <2>2, <2>4, <2>5
    <2>7. UsedOf(f[k + 1]) = Join(UsedOf(p), UsedOf(b))
      BY <2>6, PushedUsed
    <2>8. Between(U(a, 1), UsedOf(b), BC(e))
      BY <2>3, <2>5, PartUsed, ContextsFacts
    <2>9. last(k + 1) = last(k) \cup {a}
      <3>1. \A j : j \in 1 .. k + 1 <=> j \in 1 .. k \/ j = k + 1
        OBVIOUS
      <3>. QED BY <2>2, <3>1, Zenon
    <2>10. X(k + 1) = X(k) \cup U(a, 1)
      BY <2>9
    <2>11. Between(X(k), UsedOf(p), BC(e))
      BY <1>7, <2>4
    <2> HIDE DEF X, last
    <2>12. Between(X(k + 1), UsedOf(f[k + 1]), BC(e))
      BY <2>7, <2>8, <2>10, <2>11 DEF Between, Join
    <2>. QED BY <2>1, <2>12
  <1> HIDE DEF S
  <1>8. 0 .. N \subseteq S
    BY <1>6, <1>7, Upwards
  <1>9. Between(X(N), UsedOf(f[N]), BC(e))
    <2>1. N \in 0 .. N
      OBVIOUS
    <2> HIDE DEF X
    <2>. QED BY <1>8, <2>1 DEF S
  <1>10. last(N) = Range(args)
    <2>1. ASSUME NEW k \in DOMAIN args PROVE args[k] \in last(N)
      <3>1. N + 1 - k \in 1 .. N /\ N + 1 - (N + 1 - k) = k
        BY <1>3
      <3>. QED BY <3>1
    <2>2. ASSUME NEW j \in 1 .. N PROVE args[N + 1 - j] \in Range(args)
      <3>1. N + 1 - j \in DOMAIN args
        BY <1>3
      <3>. QED BY <3>1 DEF Range
    <2>. QED BY <2>1, <2>2 DEF Range
  <1>11. X(N) = U(e, n)
    BY <1>3, <1>10, URules
  <1>12. UsedOf(G(e, i, l, n)) = UsedOf(f[N])
    BY <1>4, CalledUsed
  <1>. QED BY <1>9, <1>11, <1>12

\* What the code of an expression reports are the void functions of which a value is
\* used, and no others but behind commas.
LEMMA UsedIsRight ==
  \A e \in Exps : UsedRight(e)
PROOF
  <1> DEFINE S == {e \in Exps : UsedRight(e)}
  <1>1. ASSUME NEW e \in Exps, \A p \in Parts(e) : p \in S PROVE e \in S
    <2>0. \A p \in Parts(e) : UsedRight(p)
      BY <1>1
    <2> SUFFICES ASSUME NEW i \in Int, NEW l \in Nat, NEW n \in {0, 1}
                 PROVE  Between(U(e, n), UsedOf(G(e, i, l, n)), BC(e))
      BY Zenon DEF UsedRight
    <2>p. \A p \in Parts(e), j \in Int, m \in Nat, k \in {0, 1} :
            Between(U(p, k), UsedOf(G(p, j, m, k)), BC(e)) /\ G(p, j, m, k) \in Contexts
      BY <2>0, PartUsed
    <2>q. \A p \in Parts(e), j \in Int, m \in Nat :
            /\ Between(U(p, 0), UsedOf(G(p, j, m, 0)), BC(e)) /\ G(p, j, m, 0) \in Contexts
            /\ Between(U(p, 1), UsedOf(G(p, j, m, 1)), BC(e)) /\ G(p, j, m, 1) \in Contexts
      BY <2>p
    <2> HIDE DEF S
    <2>1. CASE Kind(e, "const") \/ Kind(e, "var")
      <3>1. UsedOf(G(e, i, l, n)) = None
        BY <2>1, LeafG, LeafUsed
      <3>2. U(e, n) = {}
        BY <2>1, URules
      <3>. QED BY <3>1, <3>2 DEF Between, None
    <2>2. CASE Kind(e, "unary") \/ Kind(e, "prefix") \/ Kind(e, "suffix")
      <3>1. UsedOf(G(e, i, l, n)) = UsedOf(G(e[3], i, l, 1))
        BY <2>2, UnaryG, UnaryUsed
      <3>2. U(e, n) = U(e[3], 1)
        BY <2>2, URules
      <3>3. e[3] \in Parts(e)
        BY <2>2, UnaryFacts, StepFacts
      <3>. QED BY <2>q, <3>1, <3>2, <3>3
    <2>3. CASE IsAssign(e)
      <3>1. UsedOf(G(e, i, l, n)) = UsedOf(G(e[4], i, l, 1))
        BY <2>3, AssignG, AssignUsed
      <3>2. U(e, n) = U(e[3], 1) \cup U(e[4], 1)
        BY <2>3, URules
      <3>3. e[3] \in Parts(e) /\ e[4] \in Parts(e) /\ e[3] \in Exps
        BY <2>3, OperandFacts
      <3>4. U(e[3], 1) = {}
        <4>1. Kind(e[3], "var")
          BY <2>3, BinaryFacts, Zenon DEF IsAssign
        <4>. QED BY <3>3, <4>1, URules
      <3>5. U(e, n) = U(e[4], 1)
        BY <3>2, <3>4
      <3>. QED BY <2>q, <3>1, <3>3, <3>5
    <2>4. CASE IsComma(e)
      <3>1. PICK a : a = G(e[3], i, l, 0)
        OBVIOUS
      <3>2. e[3] \in Parts(e) /\ e[4] \in Parts(e) /\ e[4] \in Exps
        BY <2>4, OperandFacts
      <3>3. Between(U(e[3], 0), UsedOf(a), BC(e)) /\ a \in Contexts
        BY <2>q, <3>1, <3>2
      <3>4. PICK b : b = G(e[4], IndexOf(a), LabelsOf(a), 1)
        OBVIOUS
      <3>5. Between(U(e[4], 1), UsedOf(b), BC(e))
        BY <2>q, <3>2, <3>3, <3>4, ContextsFacts
      <3>6. UsedOf(G(e, i, l, n)) = Join(UsedOf(a), UsedOf(b))
        BY <2>4, <3>1, <3>4, CommaG, CommaUsed
      <3>7. U(e, n) = U(e[3], 0) \cup U(e[4], n)
        BY <2>4, URules
      <3>8. U(e[4], n) \subseteq U(e[4], 1)
        BY <3>2, UMonotone
      <3>9. U(e[4], 1) \subseteq BC(e)
        BY <2>4, BCFacts
      <3>. QED BY <3>3, <3>5, <3>6, <3>7, <3>8, <3>9 DEF Between, Join
    <2>5. CASE IsLogic(e)
      <3>1. PICK a : a = G(e[3], i, l + 1, 1)
        OBVIOUS
      <3>2. e[3] \in Parts(e) /\ e[4] \in Parts(e) /\ l + 1 \in Nat
        BY <2>5, OperandFacts
      <3>3. Between(U(e[3], 1), UsedOf(a), BC(e)) /\ a \in Contexts
        BY <2>q, <3>1, <3>2
      <3>4. PICK b : b = G(e[4], IndexOf(a), LabelsOf(a), 1)
        OBVIOUS
      <3>5. Between(U(e[4], 1), UsedOf(b), BC(e))
        BY <2>q, <3>2, <3>3, <3>4, ContextsFacts
      <3>6. UsedOf(G(e, i, l, n)) = Join(UsedOf(a), UsedOf(b))
        BY <2>5, <3>1, <3>4, LogicG, LogicUsed
      <3>7. U(e, n) = U(e[3], 1) \cup U(e[4], 1)
        BY <2>5, URules
      <3>. QED BY <3>3, <3>5, <3>6, <3>7 DEF Between, Join
    <2>6. CASE IsOrdinary(e)
      <3>1. PICK a : a = G(e[4], i, l, 1)
        OBVIOUS
      <3>2. e[3] \in Parts(e) /\ e[4] \in Parts(e)
        BY <2>6, OperandFacts
      <3>3. Between(U(e[4], 1), UsedOf(a), BC(e)) /\ a \in Contexts
        BY <2>q, <3>1, <3>2
      <3>4. PICK b : b = G(e[3], IndexOf(a) + 8, LabelsOf(a), 1)
        OBVIOUS
      <3>5. Between(U(e[3], 1), UsedOf(b), BC(e))
        <4>1. IndexOf(a) + 8 \in Int /\ LabelsOf(a) \in Nat
          BY <3>3, ContextsFacts
        <4>. QED BY <2>q, <3>2, <3>4, <4>1
      <3>6. UsedOf(G(e, i, l, n)) = Join(UsedOf(a), UsedOf(b))
        BY <2>6, <3>1, <3>4, OrdinaryG, OrdinaryUsed
      <3>7. U(e, n) = U(e[3], 1) \cup U(e[4], 1)
        BY <2>6, URules
      <3>. QED BY <3>3, <3>5, <3>6, <3>7 DEF Between, Join
    <2>7. CASE Kind(e, "ternary")
      <3>1. PICK c : c = G(e[2], i, l + 1 + 1, 1)
        OBVIOUS
      <3>2. e[2] \in Parts(e) /\ e[3] \in Parts(e) /\ e[4] \in Parts(e) /\ l + 1 + 1 \in Nat
        BY <2>7, TernaryFacts
      <3>3. Between(U(e[2], 1), UsedOf(c), BC(e)) /\ c \in Contexts
        BY <2>q, <3>1, <3>2
      <3>4. PICK a : a = G(e[3], IndexOf(c), LabelsOf(c), n)
        OBVIOUS
      <3>5. Between(U(e[3], n), UsedOf(a), BC(e)) /\ a \in Contexts
        BY <2>p, <3>2, <3>3, <3>4, ContextsFacts
      <3>6. PICK b : b = G(e[4], IndexOf(a), LabelsOf(a), n)
        OBVIOUS
      <3>7. Between(U(e[4], n), UsedOf(b), BC(e)) /\ b \in Contexts
        BY <2>p, <3>2, <3>5, <3>6, ContextsFacts
      <3>8. UsedOf(G(e, i, l, n)) = Join(Join(UsedOf(c), UsedOf(a)), UsedOf(b))
        BY <2>7, <3>1, <3>4, <3>6, TernaryG, TernaryUsed
      <3>9. U(e, n) = U(e[2], 1) \cup U(e[3], n) \cup U(e[4], n)
        BY <2>7, URules
      <3>. QED BY <3>3, <3>5, <3>7, <3>8, <3>9 DEF Between, Join
    <2>8. CASE Kind(e, "call")
      BY <2>0, <2>8, CallUsed
    <2>. QED BY <2>1, <2>2, <2>3, <2>4, <2>5, <2>6, <2>7, <2>8, Kinds, BinaryKinds, Zenon
  <1> HIDE DEF S
  <1>2. Exps \subseteq S
    BY <1>1, TreeInduction
  <1>. QED BY <1>2 DEF S

\* The status says whether the compiler has died.
Died ==
  /\ exp \in Exps
  /\ status # "died" => UsedOf(G(exp, 0, 0, 0)) = {}
  /\ status = "died" => UsedOf(G(exp, 0, 0, 0)) # {}

\* No expression is compiled in which the value of a void call is used, whatever
\* stands between the use and the call, and none is rejected but for that or a void
\* call behind a comma.
THEOREM VoidCheckedHolds == Spec => []VoidChecked
PROOF
  <1>1. Init => Died
    <2>1. compiled(exp) = G(exp, 0, 0, 0)
      BY Zenon DEF compiled, G, Part
    <2>. QED BY <2>1 DEF Init, Died, UsedOf
  <1>2. Died /\ [Next]_vars => Died'
    <2> SUFFICES ASSUME Died, [Next]_vars PROVE Died'
      OBVIOUS
    <2>1. exp' = exp /\ (status' = "died" <=> status = "died")
      BY DEF Next, vars, Compute, Store, SignExtend, Divide, CompareWords, PushRax, PopReg,
             CallFunction, ReleaseStack, Jump, Finish, At, Rax, SetRegs, Next1, fixed
    <2>. QED BY <2>1, Zenon DEF Died
  <1>3. Died => VoidChecked
    <2> SUFFICES ASSUME Died PROVE VoidChecked
      OBVIOUS
    <2>1. exp \in Exps /\ 0 \in Int /\ 0 \in Nat /\ 0 \in {0, 1}
      BY DEF Died
    <2>2. Between(U(exp, 0), UsedOf(G(exp, 0, 0, 0)), BC(exp))
      BY <2>1, UsedIsRight, Zenon DEF UsedRight
    <2>. QED BY <2>2 DEF Between, Died, VoidChecked, U, UsedIn, BC
  <1>. QED BY <1>1, <1>2, <1>3, PTL DEF Spec
-----------------------------------------------------------------------------
(***************************************************************************)
(* Labels, and the stack index behind an expression.                       *)
(***************************************************************************)
Has(c, o, a) == \E k \in DOMAIN c : c[k].op = o /\ c[k].arg = a

\* No label stands at two places.
Once(c) == \A j, k \in DOMAIN c : c[j].op = "label" /\ c[k].op = "label" /\ c[j].arg = c[k].arg => j = k

\* The fields of an instruction.
LEMMA IFacts ==
  ASSUME NEW o, NEW a, NEW i
  PROVE  I(o, a, i).op = o /\ I(o, a, i).arg = a /\ I(o, a, i).at = i
PROOF
  BY DEF I

\* The instructions of two pieces of code, one behind the other.
LEMMA CatFacts ==
  ASSUME NEW s \in Seq(Instr), NEW t \in Seq(Instr)
  PROVE  /\ Len(s) \in Nat /\ Len(t) \in Nat /\ Len(Cat(s, t)) = Len(s) + Len(t)
         /\ DOMAIN Cat(s, t) = 1 .. Len(s) + Len(t)
         /\ DOMAIN s = 1 .. Len(s) /\ DOMAIN t = 1 .. Len(t)
         /\ \A k \in 1 .. Len(s) : Cat(s, t)[k] = s[k]
         /\ \A k \in 1 .. Len(t) : Cat(s, t)[Len(s) + k] = t[k]
PROOF
  BY DEF Cat

\* Each is of the first piece or of the second.
LEMMA CatPlaces ==
  ASSUME NEW s \in Seq(Instr), NEW t \in Seq(Instr), NEW k \in DOMAIN Cat(s, t)
  PROVE  \/ k \in DOMAIN s /\ Cat(s, t)[k] = s[k]
         \/ k - Len(s) \in DOMAIN t /\ Cat(s, t)[k] = t[k - Len(s)]
PROOF
  BY DEF Cat

\* So an instruction is in the whole if it is in one of the two.
LEMMA HasCat ==
  ASSUME NEW s \in Seq(Instr), NEW t \in Seq(Instr), NEW o, NEW a
  PROVE  Has(Cat(s, t), o, a) <=> Has(s, o, a) \/ Has(t, o, a)
PROOF
  <1>1. ASSUME Has(Cat(s, t), o, a) PROVE Has(s, o, a) \/ Has(t, o, a)
    <2>1. PICK k \in DOMAIN Cat(s, t) : Cat(s, t)[k].op = o /\ Cat(s, t)[k].arg = a
      BY <1>1, Zenon DEF Has
    <2>. QED BY <2>1, CatPlaces, Zenon DEF Has
  <1>2. ASSUME Has(s, o, a) PROVE Has(Cat(s, t), o, a)
    <2>1. PICK k \in DOMAIN s : s[k].op = o /\ s[k].arg = a
      BY <1>2, Zenon DEF Has
    <2>2. k \in DOMAIN Cat(s, t) /\ Cat(s, t)[k] = s[k]
      BY <2>1, CatFacts
    <2>. QED BY <2>1, <2>2, Zenon DEF Has
  <1>3. ASSUME Has(t, o, a) PROVE Has(Cat(s, t), o, a)
    <2>1. PICK k \in DOMAIN t : t[k].op = o /\ t[k].arg = a
      BY <1>3, Zenon DEF Has
    <2>2. Len(s) + k \in DOMAIN Cat(s, t) /\ Cat(s, t)[Len(s) + k] = t[k]
      <3>1. k \in 1 .. Len(t) /\ Len(s) \in Nat /\ Len(t) \in Nat
        BY <2>1, CatFacts
      <3>2. Len(s) + k \in 1 .. Len(s) + Len(t)
        BY <3>1
      <3>. QED BY <3>1, <3>2, CatFacts
    <2>. QED BY <2>1, <2>2, Zenon DEF Has
  <1>. QED BY <1>1, <1>2, <1>3

\* Labels are unique in the whole when they are in each and the two have none in
\* common.
LEMMA OnceCat ==
  ASSUME NEW s \in Seq(Instr), NEW t \in Seq(Instr), Once(s), Once(t),
         \A a : ~(Has(s, "label", a) /\ Has(t, "label", a))
  PROVE  Once(Cat(s, t))
PROOF
  <1> SUFFICES ASSUME NEW j \in DOMAIN Cat(s, t), NEW k \in DOMAIN Cat(s, t),
                      Cat(s, t)[j].op = "label", Cat(s, t)[k].op = "label",
                      Cat(s, t)[j].arg = Cat(s, t)[k].arg
               PROVE  j = k
    BY Zenon DEF Once
  <1>1. PICK x, y : x = Cat(s, t)[j] /\ y = Cat(s, t)[k]
    OBVIOUS
  <1>2. x.op = "label" /\ y.op = "label" /\ x.arg = y.arg
    BY <1>1
  <1>3. j \in Nat /\ k \in Nat /\ Len(s) \in Nat
    BY CatFacts
  <1>4. \/ j \in DOMAIN s /\ x = s[j]
        \/ j - Len(s) \in DOMAIN t /\ x = t[j - Len(s)]
    BY <1>1, CatPlaces
  <1>5. \/ k \in DOMAIN s /\ y = s[k]
        \/ k - Len(s) \in DOMAIN t /\ y = t[k - Len(s)]
    BY <1>1, CatPlaces
  <1>6. CASE j \in DOMAIN s /\ x = s[j] /\ k \in DOMAIN s /\ y = s[k]
    BY <1>2, <1>6, Zenon DEF Once
  <1>7. CASE j - Len(s) \in DOMAIN t /\ x = t[j - Len(s)] /\ k - Len(s) \in DOMAIN t /\ y = t[k - Len(s)]
    <2>1. j - Len(s) = k - Len(s)
      BY <1>2, <1>7, Zenon DEF Once
    <2>. QED BY <1>3, <2>1
  <1>8. CASE j \in DOMAIN s /\ x = s[j] /\ k - Len(s) \in DOMAIN t /\ y = t[k - Len(s)]
    <2>1. Has(s, "label", x.arg) /\ Has(t, "label", x.arg)
      BY <1>2, <1>8, Zenon DEF Has
    <2>. QED BY <2>1, Zenon
  <1>9. CASE j - Len(s) \in DOMAIN t /\ x = t[j - Len(s)] /\ k \in DOMAIN s /\ y = s[k]
    <2>1. Has(s, "label", x.arg) /\ Has(t, "label", x.arg)
      BY <1>2, <1>9, Zenon DEF Has
    <2>. QED BY <2>1, Zenon
  <1>. QED BY <1>4, <1>5, <1>6, <1>7, <1>8, <1>9

\* No code.
LEMMA NilFacts ==
  Len(Nil) = 0 /\ Once(Nil) /\ Nil \in Seq(Instr) /\ \A o, a : ~Has(Nil, o, a)
PROOF
  BY DEF Nil, Once, Has

\* One instruction.
LEMMA OneFacts ==
  ASSUME NEW x
  PROVE  /\ Len(One(x)) = 1 /\ One(x)[1] = x /\ Once(One(x))
         /\ \A o, a : Has(One(x), o, a) <=> x.op = o /\ x.arg = a
PROOF
  BY DEF One, Once, Has

\* Two instructions.
LEMMA TwoFacts ==
  ASSUME NEW x, NEW y
  PROVE  /\ Len(Two(x, y)) = 2 /\ Two(x, y)[1] = x /\ Two(x, y)[2] = y
         /\ x.op # "label" => Once(Two(x, y))
         /\ \A o, a : Has(Two(x, y), o, a) <=> (x.op = o /\ x.arg = a) \/ (y.op = o /\ y.arg = a)
PROOF
  <1>1. /\ Len(Two(x, y)) = 2 /\ Two(x, y)[1] = x /\ Two(x, y)[2] = y
        /\ DOMAIN Two(x, y) = {1, 2}
    BY DEF Two
  <1>2. x.op # "label" => Once(Two(x, y))
    BY <1>1 DEF Once
  <1>3. \A o, a : Has(Two(x, y), o, a) <=> (x.op = o /\ x.arg = a) \/ (y.op = o /\ y.arg = a)
    BY <1>1 DEF Has
  <1>. QED BY <1>1, <1>2, <1>3

\* Four instructions.
LEMMA FourFacts ==
  ASSUME NEW w, NEW x, NEW y, NEW z
  PROVE  /\ Len(Four(w, x, y, z)) = 4 /\ Four(w, x, y, z)[1] = w /\ Four(w, x, y, z)[2] = x
         /\ Four(w, x, y, z)[3] = y /\ Four(w, x, y, z)[4] = z
         /\ w.op # "label" /\ y.op # "label" /\ z.op # "label" => Once(Four(w, x, y, z))
         /\ \A o, a : Has(Four(w, x, y, z), o, a) =>
              (w.op = o /\ w.arg = a) \/ (x.op = o /\ x.arg = a)
              \/ (y.op = o /\ y.arg = a) \/ (z.op = o /\ z.arg = a)
PROOF
  <1> DEFINE f == Four(w, x, y, z)
  <1>1. /\ Len(f) = 4 /\ f[1] = w /\ f[2] = x /\ f[3] = y /\ f[4] = z
        /\ DOMAIN f = 1 .. 4
    BY DEF Four
  <1> HIDE DEF f
  <1>2. \A k \in DOMAIN f : k = 1 \/ k = 2 \/ k = 3 \/ k = 4
    BY <1>1
  <1>3. w.op # "label" /\ y.op # "label" /\ z.op # "label" => Once(f)
    BY <1>1, <1>2 DEF Once
  <1>4. \A o, a : Has(f, o, a) =>
              (w.op = o /\ w.arg = a) \/ (x.op = o /\ x.arg = a)
              \/ (y.op = o /\ y.arg = a) \/ (z.op = o /\ z.arg = a)
    BY <1>1, <1>2 DEF Has
  <1>. QED BY <1>1, <1>3, <1>4 DEF f

\* Code with neither labels nor a release of the stack.
Flat(c) == c \in Seq(Instr) /\ Once(c) /\ \A a : ~Has(c, "label", a) /\ ~Has(c, "release", a)

FlatPlain(s) == s \in Plain /\ \A k \in 1 .. Len(s) : s[k][1] # "label" /\ s[k][1] # "release"

\* Instructions without labels and releases are code without.
LEMMA FlatJ ==
  ASSUME NEW s, FlatPlain(s), NEW i \in Int
  PROVE  Flat(J(s, i)) /\ Len(J(s, i)) = Len(s)
PROOF
  <1>1. DOMAIN s = 1 .. Len(s) /\ Len(s) \in Nat /\ s \in Plain
    BY DEF FlatPlain, Plain
  <1>2. \A k \in DOMAIN s : s[k][1] # "label" /\ s[k][1] # "release"
    BY <1>1 DEF FlatPlain
  <1>3. PICK c : c = J(s, i)
    OBVIOUS
  <1>4. DOMAIN c = DOMAIN s /\ \A k \in DOMAIN c : c[k] = I(s[k][1], s[k][2], i)
    BY <1>3 DEF J
  <1>5. \A k \in DOMAIN c : c[k].op # "label" /\ c[k].op # "release"
    BY <1>2, <1>4, IFacts
  <1>6. c \in Seq(Instr)
    BY <1>1, <1>3, JSeq
  <1>7. Len(c) = Len(s)
    BY <1>1, <1>4, <1>6
  <1>. QED BY <1>3, <1>5, <1>6, <1>7, Zenon DEF Flat, Once, Has

\* The code of the unary operators has no labels and releases nothing.
LEMMA FlatUnary ==
  ASSUME NEW e, Kind(e, "unary") \/ Kind(e, "prefix") \/ Kind(e, "suffix")
  PROVE  FlatPlain(UnaryCode(e))
PROOF
  <1>0. UnaryCode(e) \in Plain
    BY UnaryCodeType
  <1>1. CASE Kind(e, "unary") /\ e[2] = "!"
    BY <1>0, <1>1, UnaryCodes DEF FlatPlain, CompareZero
  <1>2. CASE Kind(e, "unary") /\ e[2] # "!"
    <2>1. UnaryCode(e) = << <<"alu1", e[2]>> >>
      BY <1>2, UnaryFacts, UnaryCodes
    <2>. QED BY <1>0, <2>1 DEF FlatPlain
  <1>3. CASE Kind(e, "prefix")
    <2>1. UnaryCode(e) = << <<"alu1", e[2]>>, <<"store", e[3][2]>> >>
      BY <1>3, UnaryCodes
    <2>. QED BY <1>0, <2>1 DEF FlatPlain
  <1>4. CASE Kind(e, "suffix")
    <2>1. UnaryCode(e) = << <<"inc", e[3][2]>> >> \/ UnaryCode(e) = << <<"dec", e[3][2]>> >>
      BY <1>4, StepFacts, UnaryCodes
    <2>. QED BY <1>0, <2>1 DEF FlatPlain
  <1>. QED BY <1>1, <1>2, <1>3, <1>4

\* Nor has that of the binary operators.
LEMMA FlatBinary ==
  ASSUME NEW e, IsOrdinary(e)
  PROVE  FlatPlain(BinaryCode(e[2]))
PROOF
  <1>1. e \in Exps /\ e[2] \in Ordinary
    BY OperandFacts, Zenon DEF IsOrdinary
  <1>2. PICK op \in Ordinary : op = e[2] /\ BinaryCode(op) \in Plain
    BY <1>1, BinaryCodeType
  <1>3. CASE op \in Comparisons
    BY <1>2, <1>3, BinaryCodes DEF FlatPlain, Compare
  <1>4. CASE op = "/"
    <2>1. BinaryCode(op) = << <<"cdq", "rdx">>, <<"idiv", "rcx">> >>
      BY <1>4, BinaryCodes
    <2>. QED BY <1>2, <2>1 DEF FlatPlain
  <1>5. CASE op = "%"
    <2>1. BinaryCode(op) = << <<"cdq", "rdx">>, <<"idiv", "rcx">>, <<"copy", "rdx">> >>
      BY <1>5, BinaryCodes
    <2>. QED BY <1>2, <2>1 DEF FlatPlain
  <1>6. CASE op \notin Comparisons \cup {"/", "%"}
    <2>1. BinaryCode(op) = << <<"alu", op>> >>
      BY <1>6, BinaryCodes
    <2>. QED BY <1>2, <2>1 DEF FlatPlain
  <1>. QED BY <1>2, <1>3, <1>4, <1>5, <1>6

\* Nor have the pops of a call.
LEMMA FlatPops ==
  ASSUME NEW i \in Int, NEW n \in Nat
  PROVE  Flat(PopCode(i, ArgRegs(n)))
PROOF
  <1>1. PICK c : c = PopCode(i, ArgRegs(n))
    OBVIOUS
  <1>2. \A k \in DOMAIN c : c[k].op = "pop"
    BY <1>1, IFacts DEF PopCode
  <1>3. \A k \in DOMAIN c : c[k].op # "label" /\ c[k].op # "release"
    BY <1>2
  <1>4. c \in Seq(Instr)
    BY <1>1, PopCodeSeq
  <1>. QED BY <1>1, <1>3, <1>4, Zenon DEF Flat, Once, Has

\* Every argument goes in a register.
Exact == \A e \in Exps : e[1] = "call" => Len(e[3]) <= Len(CallRegs)

\* Code that releases no stack arguments, when there are none.
Steady(c) == Exact => \A a : ~Has(c, "release", a)

\* The labels in the code of a part lie between those made before it and behind it.
Span(c, l, m) ==
  /\ c \in Seq(Instr) /\ Once(c) /\ Steady(c) /\ l \in Nat /\ m \in Nat /\ l <= m
  /\ \A a : Has(c, "label", a) => a \in Int /\ l <= a /\ a < m

\* Two pieces that release nothing are one.
LEMMA SteadyCat ==
  ASSUME NEW s \in Seq(Instr), NEW t \in Seq(Instr), Steady(s), Steady(t)
  PROVE  Steady(Cat(s, t))
PROOF
  BY HasCat, Zenon DEF Steady

\* Code without labels makes none.
LEMMA SpanFlat ==
  ASSUME NEW c, Flat(c), NEW l \in Nat
  PROVE  Span(c, l, l)
PROOF
  BY DEF Span, Flat, Steady

\* Code behind code: the labels of the second are made after those of the first.
LEMMA SpanCat ==
  ASSUME NEW s, NEW t, NEW l, NEW m, NEW n, Span(s, l, m), Span(t, m, n)
  PROVE  Span(Cat(s, t), l, n)
PROOF
  <1>1. s \in Seq(Instr) /\ t \in Seq(Instr) /\ Once(s) /\ Once(t) /\ Steady(s) /\ Steady(t)
    BY DEF Span
  <1>2. \A a : ~(Has(s, "label", a) /\ Has(t, "label", a))
    <2>1. SUFFICES ASSUME NEW a, Has(s, "label", a), Has(t, "label", a) PROVE FALSE
      OBVIOUS
    <2>2. a \in Int /\ m \in Int /\ a < m /\ m <= a
      BY <2>1 DEF Span
    <2>. QED BY <2>2
  <1>3. Once(Cat(s, t)) /\ Cat(s, t) \in Seq(Instr) /\ Steady(Cat(s, t))
    BY <1>1, <1>2, OnceCat, CatSeq, SteadyCat
  <1>4. \A a : Has(Cat(s, t), "label", a) => Has(s, "label", a) \/ Has(t, "label", a)
    BY <1>1, HasCat
  <1>5. PICK c : c = Cat(s, t)
    OBVIOUS
  <1>6. l \in Nat /\ m \in Nat /\ n \in Nat /\ l <= m /\ m <= n
    BY DEF Span
  <1>7. ASSUME NEW a, Has(c, "label", a) PROVE a \in Int /\ l <= a /\ a < n
    <2>1. a \in Int /\ ((l <= a /\ a < m) \/ (m <= a /\ a < n))
      BY <1>4, <1>5, <1>7 DEF Span
    <2>. QED BY <1>6, <2>1
  <1>8. l <= n
    BY <1>6
  <1>. QED BY <1>3, <1>5, <1>6, <1>7, <1>8, Zenon DEF Span

\* Code with a label that none of the labels before is.
LEMMA SpanLabel ==
  ASSUME NEW s, NEW t \in Seq(Instr), NEW l, NEW m, NEW n, NEW x, Span(s, l, m), Once(t), Steady(t),
         n \in Nat, n <= l, x \in Int, n <= x, x < m, ~Has(s, "label", x),
         \A a : Has(t, "label", a) => a = x
  PROVE  Span(Cat(s, t), n, m)
PROOF
  <1>1. s \in Seq(Instr) /\ Once(s) /\ Steady(s) /\ l \in Nat /\ m \in Nat /\ l <= m
        /\ \A a : Has(s, "label", a) => a \in Int /\ l <= a /\ a < m
    BY DEF Span
  <1>2. Once(Cat(s, t)) /\ Cat(s, t) \in Seq(Instr) /\ Steady(Cat(s, t))
    BY <1>1, OnceCat, CatSeq, SteadyCat
  <1>3. \A a : Has(Cat(s, t), "label", a) => Has(s, "label", a) \/ Has(t, "label", a)
    BY <1>1, HasCat
  <1>4. PICK c : c = Cat(s, t)
    OBVIOUS
  <1>5. ASSUME NEW a, Has(c, "label", a) PROVE a \in Int /\ n <= a /\ a < m
    <2>1. (a \in Int /\ l <= a /\ a < m) \/ a = x
      BY <1>1, <1>3, <1>4, <1>5
    <2>. QED BY <1>1, <2>1
  <1>6. n <= m
    BY <1>1
  <1>. QED BY <1>1, <1>2, <1>4, <1>5, <1>6, Zenon DEF Span

\* The labels of a part that starts with m labels are none of those before.
LEMMA SpanFrom ==
  ASSUME NEW s, NEW l, NEW m, Span(s, l, m), NEW x \in Int, x < l
  PROVE  ~Has(s, "label", x)
PROOF
  <1>1. l \in Int
    BY DEF Span
  <1>. QED BY <1>1 DEF Span

\* One instruction that is no label.
LEMMA FlatOne ==
  ASSUME NEW x \in Instr, x.op # "label", x.op # "release"
  PROVE  Flat(One(x))
PROOF
  BY OneFacts, OneSeq DEF Flat

\* Two instructions that are no labels.
LEMMA FlatTwo ==
  ASSUME NEW x \in Instr, NEW y \in Instr, x.op # "label", x.op # "release",
         y.op # "label", y.op # "release"
  PROVE  Flat(Two(x, y))
PROOF
  <1>1. Two(x, y) \in Seq(Instr)
    BY TwoSeq
  <1>2. Once(Two(x, y))
    BY TwoFacts
  <1>3. \A o, a : Has(Two(x, y), o, a) => o = x.op \/ o = y.op
    BY TwoFacts
  <1>4. ASSUME NEW a PROVE ~Has(Two(x, y), "label", a) /\ ~Has(Two(x, y), "release", a)
    BY <1>3
  <1>. QED BY <1>1, <1>2, <1>4, Zenon DEF Flat

\* An instruction and its fields.
LEMMA InstrIs ==
  ASSUME NEW o \in Ops, NEW a \in Args, NEW i \in Int
  PROVE  /\ I(o, a, i) \in Instr /\ I(o, a, i).op = o /\ I(o, a, i).arg = a /\ I(o, a, i).at = i
PROOF
  <1>1. I(o, a, i) \in Instr
    BY InstrType
  <1>2. I(o, a, i).op = o /\ I(o, a, i).arg = a /\ I(o, a, i).at = i
    BY IFacts
  <1>. QED BY <1>1, <1>2

Layout(a, i, l) ==
  /\ a \in Contexts /\ Span(CodeOf(a), l, LabelsOf(a))
  /\ Exact => IndexOf(a) = i

LaidOut(e) == \A i \in Int, l \in Nat, n \in {0, 1} : Layout(G(e, i, l, n), i, l)

\* The comparison with zero and the jump on it.
LEMMA CompareAndJump ==
  ASSUME NEW i \in Int, NEW l \in Int, NEW jump, jump = "je" \/ jump = "jne"
  PROVE  /\ I("cmp", "zero", i) \in Instr /\ I("cmp", "zero", i).op = "cmp"
         /\ I(jump, l, i) \in Instr /\ I(jump, l, i).op = jump
PROOF
  <1>1. "cmp" \in Ops /\ "zero" \in Args /\ jump \in Ops /\ l \in Args
    BY OpFacts, ArgFacts
  <1>2. I("cmp", "zero", i) \in Instr
    BY <1>1, InstrIs
  <1>4. I("cmp", "zero", i).op = "cmp"
    BY IFacts
  <1>3. I(jump, l, i) \in Instr /\ I(jump, l, i).op = jump
    BY <1>1, InstrIs
  <1>. QED BY <1>2, <1>3, <1>4

\* The jump and the label in a ternary expression.
LEMMA JumpAndLabel ==
  ASSUME NEW i \in Int, NEW l \in Int
  PROVE  /\ I("jmp", l, i) \in Instr /\ I("jmp", l, i).op = "jmp"
         /\ I("label", l, i) \in Instr /\ I("label", l, i).op = "label" /\ I("label", l, i).arg = l
PROOF
  <1>1. "jmp" \in Ops /\ "label" \in Ops /\ l \in Args
    BY OpFacts, ArgFacts
  <1>2. I("jmp", l, i) \in Instr /\ I("jmp", l, i).op = "jmp"
    BY <1>1, InstrIs
  <1>3. I("label", l, i) \in Instr /\ I("label", l, i).op = "label" /\ I("label", l, i).arg = l
    BY <1>1, InstrIs
  <1>. QED BY <1>2, <1>3

\* The push and the pop around the left operand.
LEMMA PushAndPop ==
  ASSUME NEW i \in Int, NEW j \in Int
  PROVE  /\ I("push", "rax", i) \in Instr /\ I("push", "rax", i).op = "push"
         /\ I("pop", "rcx", j) \in Instr /\ I("pop", "rcx", j).op = "pop"
PROOF
  <1>1. "push" \in Ops /\ "pop" \in Ops /\ "rax" \in Args /\ "rcx" \in Args
    BY OpFacts, ArgFacts
  <1>2. I("push", "rax", i) \in Instr /\ I("push", "rax", i).op = "push"
    BY <1>1, InstrIs
  <1>3. I("pop", "rcx", j) \in Instr /\ I("pop", "rcx", j).op = "pop"
    BY <1>1, InstrIs
  <1>. QED BY <1>2, <1>3

\* What is known of the layout of a part.
LEMMA LayoutFacts ==
  ASSUME NEW a, NEW i, NEW l, Layout(a, i, l)
  PROVE  /\ a \in Contexts /\ CodeOf(a) \in Seq(Instr) /\ IndexOf(a) \in Int /\ LabelsOf(a) \in Nat
         /\ Span(CodeOf(a), l, LabelsOf(a)) /\ l \in Nat /\ l <= LabelsOf(a)
         /\ Exact => IndexOf(a) = i
PROOF
  BY ContextsFacts DEF Layout, Span

\* The layout of a constant or a variable.
LEMMA LeafLayout ==
  ASSUME NEW o \in Ops, o # "label", o # "release", NEW x \in Args, NEW i \in Int, NEW l \in Nat
  PROVE  Layout(LeafCx(o, x, i, l), i, l)
PROOF
  <1>1. LeafCx(o, x, i, l) \in Contexts
    BY LeafType
  <1>2. I(o, x, i) \in Instr /\ I(o, x, i).op = o
    BY InstrType, IFacts
  <1>3. Flat(One(I(o, x, i)))
    BY <1>2, FlatOne
  <1>4. Span(One(I(o, x, i)), l, l)
    BY <1>3, SpanFlat
  <1>5. /\ CodeOf(LeafCx(o, x, i, l)) = One(I(o, x, i)) /\ LabelsOf(LeafCx(o, x, i, l)) = l
        /\ IndexOf(LeafCx(o, x, i, l)) = i
    BY CxFacts DEF LeafCx
  <1>. QED BY <1>1, <1>3, <1>4, <1>5 DEF Layout, Flat

\* The layout of a unary expression.
LEMMA UnaryLayout ==
  ASSUME NEW a, NEW i, NEW l, Layout(a, i, l), NEW s, FlatPlain(s)
  PROVE  Layout(UnaryCx(a, s), i, l)
PROOF
  <1>1. s \in Plain
    BY DEF FlatPlain
  <1>2. UnaryCx(a, s) \in Contexts
    BY <1>1, LayoutFacts, UnaryType
  <1>3. Flat(J(s, IndexOf(a)))
    BY LayoutFacts, FlatJ
  <1>4. PICK t : t = J(s, IndexOf(a)) /\ Flat(t) /\ t \in Seq(Instr)
    BY <1>3 DEF Flat
  <1>5. Span(Cat(CodeOf(a), t), l, LabelsOf(a))
    BY <1>4, LayoutFacts, SpanFlat, SpanCat
  <1>6. /\ CodeOf(UnaryCx(a, s)) = Cat(CodeOf(a), t) /\ LabelsOf(UnaryCx(a, s)) = LabelsOf(a)
        /\ IndexOf(UnaryCx(a, s)) = IndexOf(a)
    BY <1>4, CxFacts DEF UnaryCx
  <1>. QED BY <1>2, <1>5, <1>6, LayoutFacts DEF Layout

\* The layout of an assignment.
LEMMA AssignLayout ==
  ASSUME NEW a, NEW i, NEW l, Layout(a, i, l), NEW x \in Args
  PROVE  Layout(AssignCx(a, x), i, l)
PROOF
  <1>1. AssignCx(a, x) \in Contexts
    BY LayoutFacts, AssignType
  <1>2. I("store", x, IndexOf(a)) \in Instr /\ I("store", x, IndexOf(a)).op = "store"
    BY LayoutFacts, OpFacts, InstrType, IFacts
  <1>3. PICK t : t = One(I("store", x, IndexOf(a))) /\ Flat(t) /\ t \in Seq(Instr)
    BY <1>2, FlatOne DEF Flat
  <1>5. Span(Cat(CodeOf(a), t), l, LabelsOf(a))
    BY <1>3, LayoutFacts, SpanFlat, SpanCat
  <1>6. /\ CodeOf(AssignCx(a, x)) = Cat(CodeOf(a), t) /\ LabelsOf(AssignCx(a, x)) = LabelsOf(a)
        /\ IndexOf(AssignCx(a, x)) = IndexOf(a)
    BY <1>3, CxFacts DEF AssignCx
  <1>. QED BY <1>1, <1>5, <1>6, LayoutFacts DEF Layout

\* The layout of a comma.
LEMMA CommaLayout ==
  ASSUME NEW a, NEW b, NEW i, NEW l, Layout(a, i, l), Layout(b, IndexOf(a), LabelsOf(a))
  PROVE  Layout(CommaCx(a, b), i, l)
PROOF
  <1>1. CommaCx(a, b) \in Contexts
    BY LayoutFacts, CommaType
  <1>2. Span(Cat(CodeOf(a), CodeOf(b)), l, LabelsOf(b))
    BY LayoutFacts, SpanCat
  <1>3. /\ CodeOf(CommaCx(a, b)) = Cat(CodeOf(a), CodeOf(b)) /\ LabelsOf(CommaCx(a, b)) = LabelsOf(b)
        /\ IndexOf(CommaCx(a, b)) = IndexOf(b)
    BY CxFacts DEF CommaCx
  <1>. QED BY <1>1, <1>2, <1>3, LayoutFacts DEF Layout

\* The layout of && and ||: their label is none of those of the operands.
LEMMA LogicLayout ==
  ASSUME NEW a, NEW b, NEW i, NEW l \in Nat, Layout(a, i, l + 1), Layout(b, IndexOf(a), LabelsOf(a)),
         NEW jump, jump = "je" \/ jump = "jne"
  PROVE  Layout(LogicCx(a, b, jump, l), i, l)
PROOF
  <1>1. LogicCx(a, b, jump, l) \in Contexts
    BY LayoutFacts, LogicType
  <1>2. /\ I("cmp", "zero", IndexOf(a)) \in Instr /\ I(jump, l, IndexOf(a)) \in Instr
        /\ I("cmp", "zero", IndexOf(a)).op = "cmp" /\ I(jump, l, IndexOf(a)).op = jump
    BY LayoutFacts, CompareAndJump
  <1>3. PICK t : /\ t = Two(I("cmp", "zero", IndexOf(a)), I(jump, l, IndexOf(a)))
                 /\ Flat(t) /\ t \in Seq(Instr)
    BY <1>2, FlatTwo DEF Flat
  <1>4. PICK c : c = Cat(Cat(CodeOf(a), t), CodeOf(b))
    OBVIOUS
  <1>5. Span(c, l + 1, LabelsOf(b)) /\ c \in Seq(Instr)
    BY <1>3, <1>4, LayoutFacts, SpanFlat, SpanCat, CatSeq
  <1>6. /\ I("cmp", "zero", IndexOf(b)) \in Instr /\ I("label", l, IndexOf(b)) \in Instr
        /\ I("mov", 0, IndexOf(b)) \in Instr /\ I("set", "!=", IndexOf(b)) \in Instr
    BY LayoutFacts, OpFacts, ArgFacts, InstrType
  <1>7. PICK d : d = Four(I("cmp", "zero", IndexOf(b)), I("label", l, IndexOf(b)),
                          I("mov", 0, IndexOf(b)), I("set", "!=", IndexOf(b)))
    OBVIOUS
  <1>8. d \in Seq(Instr)
    BY <1>6, <1>7, FourSeq
  <1>9. PICK w, x, y, z : /\ w = I("cmp", "zero", IndexOf(b)) /\ x = I("label", l, IndexOf(b))
                          /\ y = I("mov", 0, IndexOf(b)) /\ z = I("set", "!=", IndexOf(b))
    OBVIOUS
  <1>10. w.op = "cmp" /\ x.op = "label" /\ x.arg = l /\ y.op = "mov" /\ z.op = "set"
    BY <1>9, IFacts
  <1>11. /\ Once(d) /\ (\A v : Has(d, "label", v) => v = l)
         /\ Steady(d)
    BY <1>7, <1>9, <1>10, FourFacts DEF Steady
  <1>12. ~Has(c, "label", l) /\ l <= l + 1 /\ l <= l /\ l < LabelsOf(b) /\ l \in Int
    <2>1. LabelsOf(b) \in Nat /\ l + 1 <= LabelsOf(b)
      BY <1>5 DEF Span
    <2>2. l < l + 1 /\ l \in Int
      OBVIOUS
    <2>3. ~Has(c, "label", l)
      BY <1>5, <2>2, SpanFrom
    <2>. QED BY <2>1, <2>3
  <1>13. Span(Cat(c, d), l, LabelsOf(b))
    BY <1>5, <1>8, <1>11, <1>12, SpanLabel
  <1>14. /\ CodeOf(LogicCx(a, b, jump, l)) = Cat(c, d) /\ LabelsOf(LogicCx(a, b, jump, l)) = LabelsOf(b)
         /\ IndexOf(LogicCx(a, b, jump, l)) = IndexOf(b)
    BY <1>3, <1>4, <1>7, CxFacts DEF LogicCx
  <1>. QED BY <1>1, <1>13, <1>14, LayoutFacts DEF Layout

\* The layout of the other binary operators: push and pop cancel.
LEMMA OrdinaryLayout ==
  ASSUME NEW a, NEW b, NEW i, NEW l, Layout(a, i, l), Layout(b, IndexOf(a) + 8, LabelsOf(a)),
         NEW s, FlatPlain(s)
  PROVE  Layout(OrdinaryCx(a, b, s), i, l)
PROOF
  <1>0. s \in Plain
    BY DEF FlatPlain
  <1>1. OrdinaryCx(a, b, s) \in Contexts
    BY <1>0, LayoutFacts, OrdinaryType
  <1>2. /\ I("push", "rax", IndexOf(a)) \in Instr /\ I("pop", "rcx", IndexOf(b)) \in Instr
        /\ I("push", "rax", IndexOf(a)).op = "push" /\ I("pop", "rcx", IndexOf(b)).op = "pop"
    BY LayoutFacts, PushAndPop
  <1>3. PICK t : t = One(I("push", "rax", IndexOf(a))) /\ Flat(t) /\ t \in Seq(Instr)
    BY <1>2, FlatOne DEF Flat
  <1>4. PICK u : u = One(I("pop", "rcx", IndexOf(b))) /\ Flat(u) /\ u \in Seq(Instr)
    BY <1>2, FlatOne DEF Flat
  <1>5. IndexOf(b) - 8 \in Int
    BY LayoutFacts
  <1>6. PICK d : d = J(s, IndexOf(b) - 8) /\ Flat(d) /\ d \in Seq(Instr)
    BY <1>5, FlatJ DEF Flat
  <1>7. PICK c : c = Cat(Cat(Cat(Cat(CodeOf(a), t), CodeOf(b)), u), d)
    OBVIOUS
  <1>8. Span(c, l, LabelsOf(b))
    BY <1>3, <1>4, <1>6, <1>7, LayoutFacts, SpanFlat, SpanCat
  <1>10. /\ CodeOf(OrdinaryCx(a, b, s)) = c /\ LabelsOf(OrdinaryCx(a, b, s)) = LabelsOf(b)
         /\ IndexOf(OrdinaryCx(a, b, s)) = IndexOf(b) - 8
    BY <1>3, <1>4, <1>6, <1>7, CxFacts DEF OrdinaryCx
  <1>11. Exact => IndexOf(b) - 8 = i
    <2>1. ASSUME Exact PROVE IndexOf(a) = i /\ IndexOf(b) = IndexOf(a) + 8
      BY <2>1, LayoutFacts
    <2>2. IndexOf(a) \in Int /\ IndexOf(b) \in Int
      BY LayoutFacts
    <2>. QED BY <2>1, <2>2
  <1>. QED BY <1>1, <1>8, <1>10, <1>11, LayoutFacts DEF Layout

\* The layout of a ternary expression: its two labels are none of those of the parts.
LEMMA TernaryLayout ==
  ASSUME NEW c, NEW a, NEW b, NEW i, NEW l \in Nat, Layout(c, i, l + 1 + 1),
         Layout(a, IndexOf(c), LabelsOf(c)), Layout(b, IndexOf(a), LabelsOf(a))
  PROVE  Layout(TernaryCx(c, a, b, l, l + 1), i, l)
PROOF
  <1>0. PICK m \in Nat : m = l + 1
    OBVIOUS
  <1>1. TernaryCx(c, a, b, l, m) \in Contexts
    BY LayoutFacts, TernaryType
  <1>2. /\ I("cmp", "zero", IndexOf(c)) \in Instr /\ I("je", l, IndexOf(c)) \in Instr
        /\ I("cmp", "zero", IndexOf(c)).op = "cmp" /\ I("je", l, IndexOf(c)).op = "je"
    BY LayoutFacts, CompareAndJump
  <1>3. PICK t : t = Two(I("cmp", "zero", IndexOf(c)), I("je", l, IndexOf(c))) /\ Flat(t) /\ t \in Seq(Instr)
    BY <1>2, FlatTwo DEF Flat
  <1>4. PICK x, y, z : /\ x = I("jmp", m, IndexOf(a)) /\ y = I("label", l, IndexOf(a))
                       /\ z = I("label", m, IndexOf(b))
    OBVIOUS
  <1>5. /\ x \in Instr /\ y \in Instr /\ z \in Instr /\ x.op = "jmp" /\ y.op = "label" /\ y.arg = l
        /\ z.op = "label" /\ z.arg = m
    <2>1. IndexOf(a) \in Int /\ IndexOf(b) \in Int /\ l \in Int /\ m \in Int
      BY LayoutFacts
    <2>. QED BY <1>4, <2>1, JumpAndLabel
  <1>6. PICK u : u = Two(x, y)
    OBVIOUS
  <1>7. /\ u \in Seq(Instr) /\ Once(u) /\ (\A v : Has(u, "label", v) => v = l)
        /\ Steady(u)
    <2>1. u \in Seq(Instr)
      BY <1>5, <1>6, TwoSeq
    <2>2. Once(u) /\ \A o, v : Has(u, o, v) => (o = x.op /\ v = x.arg) \/ (o = y.op /\ v = y.arg)
      BY <1>5, <1>6, TwoFacts
    <2>3. ASSUME NEW v PROVE (Has(u, "label", v) => v = l) /\ ~Has(u, "release", v)
      BY <1>5, <2>2
    <2>. QED BY <2>1, <2>2, <2>3 DEF Steady
  <1>8. PICK w : w = One(z)
    OBVIOUS
  <1>9. /\ w \in Seq(Instr) /\ Once(w) /\ (\A v : Has(w, "label", v) => v = m)
        /\ Steady(w)
    BY <1>5, <1>8, OneSeq, OneFacts DEF Steady
  <1>10. PICK d : d = Cat(Cat(CodeOf(c), t), CodeOf(a))
    OBVIOUS
  <1>11. Span(d, m + 1, LabelsOf(a)) /\ d \in Seq(Instr)
    BY <1>0, <1>3, <1>10, LayoutFacts, SpanFlat, SpanCat, CatSeq
  <1>12. /\ ~Has(d, "label", l) /\ ~Has(d, "label", m) /\ ~Has(CodeOf(b), "label", m)
         /\ l < LabelsOf(a) /\ m < LabelsOf(a) /\ LabelsOf(a) <= LabelsOf(b)
         /\ LabelsOf(a) \in Nat /\ LabelsOf(b) \in Nat
    <2>1. LabelsOf(a) \in Nat /\ m + 1 <= LabelsOf(a)
      BY <1>11 DEF Span
    <2>2. LabelsOf(b) \in Nat /\ LabelsOf(a) <= LabelsOf(b)
      BY LayoutFacts
    <2>3. l < m + 1 /\ m < m + 1 /\ l \in Int /\ m \in Int /\ m < LabelsOf(a)
      BY <1>0, <2>1
    <2>4. ~Has(d, "label", l) /\ ~Has(d, "label", m)
      BY <1>11, <2>3, SpanFrom
    <2>5. ~Has(CodeOf(b), "label", m)
      BY <2>3, LayoutFacts, SpanFrom
    <2>. QED BY <1>0, <2>1, <2>2, <2>3, <2>4, <2>5
  <1>13. PICK f : f = Cat(d, u)
    OBVIOUS
  <1>14. Span(f, l, LabelsOf(a)) /\ f \in Seq(Instr) /\ ~Has(f, "label", m)
    <2>1. l <= m + 1 /\ l \in Int /\ l <= l /\ m # l
      BY <1>0
    <2>2. Span(f, l, LabelsOf(a))
      BY <1>7, <1>11, <1>12, <1>13, <2>1, SpanLabel
    <2>3. ~Has(f, "label", m)
      BY <1>7, <1>11, <1>12, <1>13, <2>1, HasCat
    <2>. QED BY <1>7, <1>11, <1>13, <2>2, <2>3, CatSeq
  <1>15. PICK h : h = Cat(f, CodeOf(b))
    OBVIOUS
  <1>16. Span(h, l, LabelsOf(b)) /\ h \in Seq(Instr) /\ ~Has(h, "label", m)
    BY <1>12, <1>14, <1>15, LayoutFacts, SpanCat, CatSeq, HasCat
  <1>17. Span(Cat(h, w), l, LabelsOf(b))
    <2>1. l <= l /\ m \in Int /\ l <= m /\ m < LabelsOf(b)
      BY <1>0, <1>12
    <2>. QED BY <1>9, <1>16, <2>1, SpanLabel
  <1>18. /\ CodeOf(TernaryCx(c, a, b, l, m)) = Cat(h, w) /\ LabelsOf(TernaryCx(c, a, b, l, m)) = LabelsOf(b)
         /\ IndexOf(TernaryCx(c, a, b, l, m)) = IndexOf(b)
    BY <1>3, <1>4, <1>6, <1>8, <1>10, <1>13, <1>15, CxFacts DEF TernaryCx
  <1>20. Layout(TernaryCx(c, a, b, l, m), i, l)
    BY <1>1, <1>17, <1>18, LayoutFacts DEF Layout
  <1>. QED BY <1>0, <1>20
\* The layout behind a further argument.
LEMMA PushedLayout ==
  ASSUME NEW p \in Contexts, NEW l, Span(CodeOf(p), l, LabelsOf(p)),
         NEW a, Layout(a, IndexOf(p), LabelsOf(p))
  PROVE  /\ Span(CodeOf(PushedCx(p, a)), l, LabelsOf(PushedCx(p, a)))
         /\ Exact => IndexOf(PushedCx(p, a)) = IndexOf(p) + 8
PROOF
  <1>1. I("push", "rax", IndexOf(a)) \in Instr /\ I("push", "rax", IndexOf(a)).op = "push"
    BY LayoutFacts, PushAndPop
  <1>2. PICK t : t = One(I("push", "rax", IndexOf(a))) /\ Flat(t)
    BY <1>1, FlatOne
  <1>3. LabelsOf(a) \in Nat
    BY LayoutFacts
  <1>4. Span(Cat(Cat(CodeOf(p), CodeOf(a)), t), l, LabelsOf(a))
    BY <1>2, <1>3, LayoutFacts, SpanFlat, SpanCat
  <1>5. /\ CodeOf(PushedCx(p, a)) = Cat(Cat(CodeOf(p), CodeOf(a)), t)
        /\ LabelsOf(PushedCx(p, a)) = LabelsOf(a) /\ IndexOf(PushedCx(p, a)) = IndexOf(a) + 8
    BY <1>2, CxFacts DEF PushedCx
  <1>. QED BY <1>4, <1>5, LayoutFacts

\* The instructions of a call.
LEMMA CallCode ==
  ASSUME NEW i \in Int, NEW e, Kind(e, "call"), NEW n \in Nat
  PROVE  /\ I("call", <<e[2], Len(e[3])>>, i) \in Instr
         /\ I("call", <<e[2], Len(e[3])>>, i).op = "call"
         /\ I("call", <<e[2], Len(e[3])>>, i).arg = <<e[2], Len(e[3])>>
         /\ I("release", n, i) \in Instr /\ I("release", n, i).op = "release"
         /\ I("release", n, i).arg = n
PROOF
  <1>1. PICK x \in Args : x = <<e[2], Len(e[3])>>
    BY ArgFacts DEF Kind
  <1>2. "call" \in Ops /\ "release" \in Ops /\ n \in Args
    BY OpFacts, ArgFacts
  <1>3. I("call", x, i) \in Instr /\ I("call", x, i).op = "call" /\ I("call", x, i).arg = x
    BY <1>2, InstrIs
  <1>4. I("release", n, i) \in Instr /\ I("release", n, i).op = "release" /\ I("release", n, i).arg = n
    BY <1>2, InstrIs
  <1>. QED BY <1>1, <1>3, <1>4, Zenon

\* The layout of a call behind its arguments.
LEMMA CalledLayout ==
  ASSUME NEW e, Kind(e, "call"), NEW p \in Contexts, NEW i \in Int, NEW l, Span(CodeOf(p), l, LabelsOf(p)),
         Exact => IndexOf(p) = i + 8 * Len(e[3])
  PROVE  Layout(CallCx(p, e[2], Len(e[3])), i, l)
PROOF
  <1>1. PICK n \in Nat : n = Len(e[3])
    BY CallFacts
  <1>2. PICK r \in Nat, s \in Nat : r = InRegs(n) /\ s = OnStack(n) /\ n = r + s
    BY RegsFacts
  <1>3. PICK j \in Int : j = IndexOf(p)
    BY ContextsFacts
  <1>4. Exact => s = 0 /\ r = n
    <2>1. Exact => n <= Len(CallRegs)
      BY <1>1 DEF Exact, Kind
    <2>2. Len(CallRegs) \in Nat
      BY RegsFacts
    <2>3. n <= Len(CallRegs) => InRegs(n) = n
      BY <2>2 DEF InRegs
    <2>. QED BY <1>2, <2>1, <2>3
  <1>5. PICK t : t = PopCode(j, ArgRegs(n)) /\ Flat(t)
    BY FlatPops
  <1>6. PICK q \in Int : q = PoppedIndex(p, n) /\ q = j - 8 * r
    BY <1>2, <1>3 DEF PoppedIndex
  <1>7. PICK u : u = One(I("call", <<e[2], n>>, q)) /\ Flat(u)
    <2>1. I("call", <<e[2], n>>, q) \in Instr /\ I("call", <<e[2], n>>, q).op = "call"
      BY <1>1, <1>6, CallCode
    <2>2. PICK x : x = I("call", <<e[2], n>>, q)
      OBVIOUS
    <2>3. Flat(One(x))
      BY <2>1, <2>2, FlatOne
    <2>. QED BY <2>2, <2>3
  <1>8. LabelsOf(p) \in Nat
    BY ContextsFacts
  <1>9. PICK c : c = Cat(Cat(CodeOf(p), t), u) /\ Span(c, l, LabelsOf(p))
    BY <1>5, <1>7, <1>8, SpanFlat, SpanCat
  <1>10. CallCx(p, e[2], n) \in Contexts
    BY <1>1, CallType
  <1>11. CASE s = 0
    <2>1. CallCx(p, e[2], n) = CalledCx(p, e[2], n)
      BY <1>2, <1>11 DEF CallCx
    <2>2. /\ CodeOf(CalledCx(p, e[2], n)) = Cat(Cat(CodeOf(p), PopCode(IndexOf(p), ArgRegs(n))),
                                                One(I("call", <<e[2], n>>, PoppedIndex(p, n))))
          /\ LabelsOf(CalledCx(p, e[2], n)) = LabelsOf(p)
          /\ IndexOf(CalledCx(p, e[2], n)) = PoppedIndex(p, n)
      BY CxFacts DEF CalledCx
    <2>3. CodeOf(CalledCx(p, e[2], n)) = c
      BY <1>3, <1>5, <1>6, <1>7, <1>9, <2>2, Zenon
    <2>4. Exact => q = i
      <3>1. ASSUME Exact PROVE j = i + 8 * n /\ r = n
        <4>1. IndexOf(p) = i + 8 * Len(e[3])
          BY <3>1
        <4>. QED BY <1>1, <1>3, <1>4, <3>1, <4>1, Zenon
      <3>. QED BY <1>6, <3>1
    <2>. QED BY <1>1, <1>6, <1>9, <1>10, <2>1, <2>2, <2>3, <2>4 DEF Layout
  <1>12. CASE s # 0
    <2>0. ~Exact
      BY <1>4, <1>12
    <2>1. CallCx(p, e[2], n) = ReleasedCx(p, e[2], n)
      BY <1>2, <1>12 DEF CallCx
    <2>2. /\ CodeOf(ReleasedCx(p, e[2], n)) = Cat(Cat(Cat(CodeOf(p), PopCode(IndexOf(p), ArgRegs(n))),
                                                  One(I("call", <<e[2], n>>, PoppedIndex(p, n)))),
                                                  One(I("release", OnStack(n), PoppedIndex(p, n))))
          /\ LabelsOf(ReleasedCx(p, e[2], n)) = LabelsOf(p)
      BY CxFacts DEF ReleasedCx
    <2>a. I("release", s, q) \in Instr /\ I("release", s, q).op = "release"
      BY CallCode
    <2>3. PICK x : x = I("release", s, q)
      OBVIOUS
    <2>b. x \in Instr /\ x.op = "release"
      BY <2>a, <2>3
    <2>4. PICK w : w = One(x)
      OBVIOUS
    <2>5. CodeOf(ReleasedCx(p, e[2], n)) = Cat(c, w)
      BY <1>2, <1>3, <1>5, <1>6, <1>7, <1>9, <2>2, <2>3, <2>4, Zenon
    <2>6. w \in Seq(Instr) /\ Once(w) /\ (\A v : ~Has(w, "label", v))
      BY <2>b, <2>4, OneFacts, OneSeq
    <2>7. Span(w, LabelsOf(p), LabelsOf(p))
      BY <1>8, <2>0, <2>6 DEF Span, Steady
    <2>8. Span(Cat(c, w), l, LabelsOf(p))
      BY <1>9, <2>7, SpanCat
    <2>. QED BY <1>1, <1>10, <2>0, <2>1, <2>2, <2>5, <2>8 DEF Layout
  <1>. QED BY <1>11, <1>12

\* The layout of a call, by induction over the arguments.
LEMMA CallLayout ==
  ASSUME NEW e, Kind(e, "call"), \A p \in Parts(e) : LaidOut(p), NEW i \in Int, NEW l \in Nat, NEW n \in {0, 1}
  PROVE  Layout(G(e, i, l, n), i, l)
PROOF
  <1>0. e \in Exps
    BY DEF Kind
  <1>1. PICK f : CallRun(f, e, i, l, n)
    BY <1>0, CallG
  <1>2. PICK m \in Nat : m = Len(e[3])
    BY CallFacts
  <1> DEFINE S == {k \in 0 .. m : /\ Span(CodeOf(f[k]), l, LabelsOf(f[k]))
                                  /\ Exact => IndexOf(f[k]) = i + 8 * k}
  <1>3. 0 \in S
    <2>1. f[0] = Cx(Nil, i, l, VoidUse(e[2], n))
      BY <1>1 DEF CallRun, Checked
    <2>2. CodeOf(f[0]) = Nil /\ LabelsOf(f[0]) = l /\ IndexOf(f[0]) = i
      BY <2>1, CxFacts
    <2>3. Span(Nil, l, l)
      BY NilFacts DEF Span, Steady
    <2>4. i = i + 8 * 0 /\ 0 \in 0 .. m
      OBVIOUS
    <2>. QED BY <2>2, <2>3, <2>4
  <1>4. ASSUME NEW k \in 0 .. m - 1, k \in S PROVE k + 1 \in S
    <2>1. k + 1 \in 1 .. m /\ (k + 1) - 1 = k /\ m + 1 - (k + 1) \in 1 .. m /\ k \in 0 .. m /\ k + 1 \in 0 .. m
      OBVIOUS
    <2>2. PICK p \in Contexts : p = f[k]
      BY <1>1, <1>2, <2>1 DEF CallRun
    <2>3. PICK x \in Parts(e) : x = e[3][m + 1 - (k + 1)]
      BY <1>2, <2>1, CallFacts
    <2>4. PICK a : a = G(x, IndexOf(p), LabelsOf(p), 1)
      OBVIOUS
    <2>5. f[k + 1] = PushedCx(p, a)
      BY <1>1, <1>2, <2>1, <2>2, <2>3, <2>4 DEF CallRun
    <2>6. Layout(a, IndexOf(p), LabelsOf(p))
      BY <2>4, ContextsFacts DEF LaidOut
    <2>7. Span(CodeOf(p), l, LabelsOf(p)) /\ (Exact => IndexOf(p) = i + 8 * k)
      BY <1>4, <2>2
    <2>8. Span(CodeOf(f[k + 1]), l, LabelsOf(f[k + 1])) /\ (Exact => IndexOf(f[k + 1]) = IndexOf(p) + 8)
      BY <2>5, <2>6, <2>7, PushedLayout
    <2>9. Exact => IndexOf(f[k + 1]) = i + 8 * (k + 1)
      <3>1. PICK u, v : u = IndexOf(p) /\ v = IndexOf(f[k + 1])
        OBVIOUS
      <3>2. Exact => u = i + 8 * k /\ v = u + 8
        BY <2>7, <2>8, <3>1
      <3>3. Exact => v = i + 8 * (k + 1)
        BY <2>1, <3>2
      <3>. QED BY <3>1, <3>3
    <2>. QED BY <2>1, <2>8, <2>9
  <1> HIDE DEF S
  <1>5. 0 .. m \subseteq S
    BY <1>3, <1>4, Upwards
  <1>6. m \in 0 .. m
    OBVIOUS
  <1>7. PICK p \in Contexts : p = f[m] /\ G(e, i, l, n) = CallCx(p, e[2], Len(e[3]))
    BY <1>1, <1>2, <1>6 DEF CallRun
  <1>8. Span(CodeOf(p), l, LabelsOf(p)) /\ (Exact => IndexOf(p) = i + 8 * m)
    BY <1>5, <1>6, <1>7 DEF S
  <1>. QED BY <1>2, <1>7, <1>8, CalledLayout

\* The code of every expression has its labels at one place each, between those made
\* before and behind it, and leaves stack_index as it was, when no arguments go on the
\* stack.
LEMMA AllLaidOut ==
  \A e \in Exps : LaidOut(e)
PROOF
  <1> DEFINE S == {e \in Exps : LaidOut(e)}
  <1>1. ASSUME NEW e \in Exps, \A p \in Parts(e) : p \in S PROVE LaidOut(e)
    <2>1. \A p \in Parts(e) : p \in Exps /\ LaidOut(p)
      BY <1>1
    <2> HIDE DEF S
    <2>2. SUFFICES ASSUME NEW i \in Int, NEW l \in Nat, NEW n \in {0, 1} PROVE Layout(G(e, i, l, n), i, l)
      BY DEF LaidOut
    <2>3. \A p \in Parts(e), j \in Int, m \in Nat :
            /\ Layout(G(p, j, m, 0), j, m) /\ Layout(G(p, j, m, 1), j, m)
            /\ Layout(G(p, j, m, n), j, m)
      BY <2>1 DEF LaidOut
    <2>4. \A a, j, m : Layout(a, j, m) => IndexOf(a) \in Int /\ LabelsOf(a) \in Nat /\ IndexOf(a) + 8 \in Int
      BY LayoutFacts
    <2>5. CASE Kind(e, "const") \/ Kind(e, "var")
      <3>1. e[2] \in Args
        BY ArgFacts
      <3>2. "mov" \in Ops /\ "mov" # "label" /\ "mov" # "release" /\ "load" \in Ops /\ "load" # "label" /\ "load" # "release"
        BY OpFacts
      <3>3. Layout(LeafCx("mov", e[2], i, l), i, l)
        BY <3>1, <3>2, LeafLayout
      <3>4. Layout(LeafCx("load", e[2], i, l), i, l)
        BY <3>1, <3>2, LeafLayout
      <3>. QED BY <2>5, <3>3, <3>4, LeafG
    <2>6. CASE Kind(e, "unary") \/ Kind(e, "prefix") \/ Kind(e, "suffix")
      <3>1. e[3] \in Parts(e)
        BY <2>6, UnaryFacts, StepFacts
      <3>2. Layout(UnaryCx(G(e[3], i, l, 1), UnaryCode(e)), i, l)
        BY <2>3, <2>6, <3>1, FlatUnary, UnaryLayout
      <3>. QED BY <2>6, <3>2, UnaryG
    <2>7. CASE Kind(e, "ternary")
      <3>1. e[2] \in Parts(e) /\ e[3] \in Parts(e) /\ e[4] \in Parts(e) /\ l + 1 + 1 \in Nat
        BY <2>7, TernaryFacts
      <3>2. PICK c : c = G(e[2], i, l + 1 + 1, 1) /\ Layout(c, i, l + 1 + 1)
        BY <2>3, <3>1
      <3>3. PICK a : a = G(e[3], IndexOf(c), LabelsOf(c), n) /\ Layout(a, IndexOf(c), LabelsOf(c))
        BY <2>3, <2>4, <3>1, <3>2
      <3>4. PICK b : b = G(e[4], IndexOf(a), LabelsOf(a), n) /\ Layout(b, IndexOf(a), LabelsOf(a))
        BY <2>3, <2>4, <3>1, <3>3
      <3>5. Layout(TernaryCx(c, a, b, l, l + 1), i, l)
        BY <3>2, <3>3, <3>4, TernaryLayout
      <3>. QED BY <2>7, <3>2, <3>3, <3>4, <3>5, TernaryG
    <2>8. CASE Kind(e, "call")
      BY <2>1, <2>8, CallLayout
    <2>9. CASE IsComma(e)
      <3>1. PICK a : a = G(e[3], i, l, 0) /\ Layout(a, i, l)
        BY <2>3, <2>9, OperandFacts
      <3>2. PICK b : b = G(e[4], IndexOf(a), LabelsOf(a), 1) /\ Layout(b, IndexOf(a), LabelsOf(a))
        BY <2>3, <2>4, <2>9, <3>1, OperandFacts
      <3>3. G(e, i, l, n) = CommaCx(a, b)
        BY <2>9, <3>1, <3>2, CommaG
      <3>. QED BY <3>1, <3>2, <3>3, CommaLayout
    <2>10. CASE IsAssign(e)
      <3>1. PICK a : a = G(e[4], i, l, 1) /\ Layout(a, i, l)
        BY <2>3, <2>10, OperandFacts
      <3>2. G(e, i, l, n) = AssignCx(a, e[3][2])
        BY <2>10, <3>1, AssignG
      <3>3. e[3][2] \in Args
        BY <2>10, OperandFacts, ArgFacts
      <3>. QED BY <3>1, <3>2, <3>3, AssignLayout
    <2>11. CASE IsLogic(e)
      <3>0. l + 1 \in Nat
        OBVIOUS
      <3>1. PICK a : a = G(e[3], i, l + 1, 1) /\ Layout(a, i, l + 1)
        BY <2>3, <2>11, <3>0, OperandFacts
      <3>2. PICK b : b = G(e[4], IndexOf(a), LabelsOf(a), 1) /\ Layout(b, IndexOf(a), LabelsOf(a))
        BY <2>3, <2>4, <2>11, <3>1, OperandFacts
      <3>3. G(e, i, l, n) = LogicCx(a, b, JumpOf(e), l)
        BY <2>11, <3>1, <3>2, LogicG
      <3>4. JumpOf(e) = "je" \/ JumpOf(e) = "jne"
        BY DEF JumpOf
      <3>. QED BY <3>1, <3>2, <3>3, <3>4, LogicLayout
    <2>12. CASE IsOrdinary(e)
      <3>1. PICK a : a = G(e[4], i, l, 1) /\ Layout(a, i, l)
        BY <2>3, <2>12, OperandFacts
      <3>2. PICK b : b = G(e[3], IndexOf(a) + 8, LabelsOf(a), 1) /\ Layout(b, IndexOf(a) + 8, LabelsOf(a))
        BY <2>3, <2>4, <2>12, <3>1, OperandFacts
      <3>3. G(e, i, l, n) = OrdinaryCx(a, b, BinaryCode(e[2]))
        BY <2>12, <3>1, <3>2, OrdinaryG
      <3>. QED BY <2>12, <3>1, <3>2, <3>3, FlatBinary, OrdinaryLayout
    <2>. QED BY <2>5, <2>6, <2>7, <2>8, <2>9, <2>10, <2>11, <2>12, Kinds, BinaryKinds, Zenon
  <1>2. Exps \subseteq S
    BY <1>1, TreeInduction
  <1>. QED BY <1>2
=============================================================================
