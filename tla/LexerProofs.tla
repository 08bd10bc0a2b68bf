---------------------------- MODULE LexerProofs -----------------------------
(***************************************************************************)
(* Proofs about Lexer: for any text, whatever is in memory behind its      *)
(* lines, and any width of int and long.                                   *)
(*                                                                         *)
(* Code, Places, Strtol and Number are recursive functions.  That each of  *)
(* them exists is shown by induction over the positions of the text or the *)
(* digits, which rests on the least elements of sets of natural numbers    *)
(* (LeastExists), and that they are unique is not needed.                  *)
(***************************************************************************)
EXTENDS Lexer, SequenceTheorems, FiniteSetTheorems, WellFoundedInduction, TLAPS

-----------------------------------------------------------------------------
\* Every set of natural numbers but the empty one has a least element.
LEMMA LeastExists ==
  ASSUME NEW S, S \subseteq Nat, S # {}
  PROVE  \E x \in S : \A y \in S : x <= y
PROOF
  <1>1. IsWellFoundedOn(OpToRel(<, Nat), Nat)
    BY NatLessThanWellFounded
  <1>2. PICK x \in S : \A y \in S : ~(<<y, x>> \in OpToRel(<, Nat))
    BY <1>1, WFMin
  <1>3. \A y \in S : ~(y < x) /\ y \in Nat /\ x \in Nat
    BY <1>2 DEF OpToRel
  <1>4. \A y \in S : x <= y
    BY <1>3
  <1>. QED BY <1>4

\* LeastOf chooses the least element.
LEMMA LeastFacts ==
  ASSUME NEW S, S \subseteq Nat, S # {}
  PROVE  /\ LeastOf(S) \in S
         /\ LeastOf(S) \in Nat
         /\ \A y \in S : LeastOf(S) <= y
PROOF
  <1>1. \E x \in S : \A y \in S : x <= y
    BY LeastExists
  <1>2. LeastOf(S) \in S /\ \A y \in S : LeastOf(S) <= y
    BY <1>1 DEF LeastOf
  <1>. QED BY <1>2

\* An element below all others is the least one.
LEMMA LeastIs ==
  ASSUME NEW S, S \subseteq Nat, NEW x \in S, \A y \in S : x <= y
  PROVE  LeastOf(S) = x
PROOF
  <1>1. LeastOf(S) \in S /\ LeastOf(S) \in Nat /\ \A y \in S : LeastOf(S) <= y
    BY LeastFacts
  <1>2. x <= LeastOf(S) /\ LeastOf(S) <= x /\ x \in Nat
    BY <1>1
  <1>. QED BY <1>1, <1>2

\* A bounded one has a greatest element.
LEMMA GreatestFacts ==
  ASSUME NEW N \in Nat, NEW S, S \subseteq 0 .. N, S # {}
  PROVE  /\ GreatestOf(S) \in S
         /\ GreatestOf(S) \in Nat
         /\ \A y \in S : y <= GreatestOf(S)
PROOF
  <1> DEFINE D == {N - y : y \in S}
  <1>1. D \subseteq Nat /\ D # {}
    <2>1. \A y \in S : N - y \in Nat
      OBVIOUS
    <2>. QED BY <2>1
  <1>2. PICK d \in D : \A e \in D : d <= e
    BY <1>1, LeastExists, Zenon
  <1>3. PICK x \in S : d = N - x
    BY <1>2
  <1>4. \A y \in S : x >= y
    <2>1. TAKE y \in S
    <2>2. N - y \in D
      OBVIOUS
    <2>3. N - x <= N - y
      BY <1>2, <1>3, <2>2
    <2>4. x \in Nat /\ y \in Nat
      OBVIOUS
    <2>. QED BY <2>3, <2>4
  <1>5. GreatestOf(S) \in S /\ \A y \in S : GreatestOf(S) >= y
    BY <1>4, Zenon DEF GreatestOf
  <1>6. \A y \in S : y \in Nat
    OBVIOUS
  <1>7. GreatestOf(S) \in Nat
    BY <1>5, <1>6
  <1>8. \A y \in S : y <= GreatestOf(S)
    BY <1>5, <1>6, <1>7
  <1>. QED BY <1>5, <1>7, <1>8

\* An element above all others is the greatest one.
LEMMA GreatestIs ==
  ASSUME NEW N \in Nat, NEW S, S \subseteq 0 .. N, NEW x \in S, \A y \in S : y <= x
  PROVE  GreatestOf(S) = x
PROOF
  <1>1. GreatestOf(S) \in S /\ GreatestOf(S) \in Nat /\ \A y \in S : y <= GreatestOf(S)
    <2>1. S # {}
      OBVIOUS
    <2>. QED BY <2>1, GreatestFacts, Zenon
  <1>2. x <= GreatestOf(S) /\ GreatestOf(S) <= x /\ x \in Nat
    BY <1>1
  <1>. QED BY <1>1, <1>2

\* Induction downwards.
LEMMA Downwards ==
  ASSUME NEW N \in Nat, NEW G,
         \A p \in 1 .. N : (\A q \in 1 .. N : q > p => q \in G) => p \in G
  PROVE  \A p \in 1 .. N : p \in G
PROOF
  <1> DEFINE Bad == {N - p : p \in {q \in 1 .. N : q \notin G}}
  <1>1. Bad \subseteq Nat
    OBVIOUS
  <1>2. SUFFICES ASSUME Bad # {} PROVE FALSE
    <2>1. ASSUME NEW p \in 1 .. N, p \notin G PROVE N - p \in Bad
      BY <2>1
    <2>. QED BY <2>1
  <1>3. PICK k \in Bad : \A j \in Bad : k <= j
    BY <1>1, <1>2, LeastExists, Zenon
  <1>4. PICK p \in 1 .. N : p \notin G /\ k = N - p
    BY <1>3
  <1>5. ASSUME NEW q \in 1 .. N, q > p, q \notin G PROVE FALSE
    <2>1. N - q \in Bad
      BY <1>5
    <2>2. N - p <= N - q
      BY <1>3, <1>4, <2>1
    <2>. QED BY <1>5, <2>2
  <1>. QED BY <1>4, <1>5

Solves(f, N, next, base, step) ==
  \A p \in 1 .. N : f[p] = IF next[p] = 0 THEN base[p] ELSE step[<<p, f[next[p]]>>]

Ahead(N, next) == \A p \in 1 .. N : next[p] # 0 => next[p] > p /\ next[p] <= N

\* A function whose value at a place is that of a place further on, with something
\* added, exists.
LEMMA Recursion ==
  ASSUME NEW N \in Nat, NEW S, NEW next \in [1 .. N -> Nat],
         Ahead(N, next), NEW base \in [1 .. N -> S], NEW step \in [(1 .. N) \X S -> S]
  PROVE  \E f \in [1 .. N -> S] : Solves(f, N, next, base, step)
PROOF
  <1>0. \A p \in 1 .. N : next[p] # 0 => next[p] > p /\ next[p] <= N
    BY DEF Ahead
  <1> DEFINE Sound(f, p) == f[p] = IF next[p] = 0 THEN base[p] ELSE step[<<p, f[next[p]]>>]
             Upto(k) == \E f \in [1 .. N -> S] : \A p \in 1 .. N : p > N - k => Sound(f, p)
             Bad == {k \in 0 .. N : ~Upto(k)}
  <1>1. Bad = {}
    <2>1. SUFFICES ASSUME Bad # {} PROVE FALSE
      OBVIOUS
    <2>2. Bad \subseteq Nat
      OBVIOUS
    <2> HIDE DEF Bad
    <2>3. PICK k \in Bad : \A j \in Bad : k <= j
      BY <2>1, <2>2, LeastExists, Zenon
    <2>4. k \in 0 .. N /\ ~Upto(k)
      BY <2>3 DEF Bad
    <2>5. k # 0
      <3>1. \A p \in 1 .. N : ~(p > N - 0)
        OBVIOUS
      <3>2. Upto(0)
        BY <3>1
      <3>. QED BY <2>4, <3>2
    <2>6. Upto(k - 1)
      <3>1. k - 1 \in 0 .. N /\ ~(k <= k - 1)
        BY <2>4, <2>5
      <3> HIDE DEF Upto
      <3>2. k - 1 \notin Bad
        BY <2>3, <3>1
      <3>. QED BY <3>1, <3>2 DEF Bad
    <2>7. PICK f \in [1 .. N -> S] : \A p \in 1 .. N : p > N - (k - 1) => Sound(f, p)
      BY <2>6
    <2> DEFINE q == N - (k - 1)
               v == IF next[q] = 0 THEN base[q] ELSE step[<<q, f[next[q]]>>]
               g == [f EXCEPT ![q] = v]
    <2>8. q \in 1 .. N
      BY <2>4, <2>5
    <2>9. next[q] # 0 => next[q] \in 1 .. N /\ next[q] # q
      BY <1>0, <2>8
    <2>10. v \in S
      BY <2>8, <2>9
    <2> HIDE DEF v, q
    <2>11. g \in [1 .. N -> S] /\ g[q] = v /\ \A p \in 1 .. N : p # q => g[p] = f[p]
      BY <2>8, <2>10
    <2> HIDE DEF g
    <2>12. ASSUME NEW p \in 1 .. N, p > N - k PROVE Sound(g, p)
      <3>1. CASE p = q
        <4>1. next[q] # 0 => g[next[q]] = f[next[q]]
          BY <2>9, <2>11
        <4>. QED BY <2>11, <3>1, <4>1 DEF v
      <3>2. CASE p # q
        <4>1. p > N - (k - 1)
          BY <2>4, <2>12, <3>2 DEF q
        <4>2. next[p] # 0 => next[p] \in 1 .. N /\ next[p] # q
          BY <1>0, <2>4, <4>1 DEF q
        <4>3. Sound(f, p)
          BY <2>7, <4>1
        <4>. QED BY <2>11, <3>2, <4>2, <4>3
      <3>. QED BY <3>1, <3>2
    <2>13. Upto(k)
      BY <2>11, <2>12
    <2>. QED BY <2>4, <2>13
  <1>2. Upto(N)
    <2>1. N \in 0 .. N
      OBVIOUS
    <2> HIDE DEF Upto
    <2>. QED BY <1>1, <2>1
  <1>3. PICK f \in [1 .. N -> S] : \A p \in 1 .. N : p > N - N => Sound(f, p)
    BY <1>2
  <1>4. \A p \in 1 .. N : p > N - N
    OBVIOUS
  <1>5. \A p \in 1 .. N : Sound(f, p)
    BY <1>3, <1>4
  <1>. QED BY <1>5 DEF Solves

-----------------------------------------------------------------------------
\* A source text: no character is the NUL that ends it.
IsText(t) == t \in Seq(STRING) /\ \A i \in 1 .. Len(t) : t[i] # "NUL"

\* The characters that end a line.
LineEnds == {"\n", "NUL"}

\* The characters of a text, and the NUL behind them.
LEMMA TextFacts ==
  ASSUME NEW t, IsText(t)
  PROVE  /\ Len(t) \in Nat
         /\ \A p \in 1 .. Len(t) : At(t, p) = t[p] /\ At(t, p) # "NUL"
         /\ At(t, Len(t) + 1) = "NUL"
         /\ \A p \in Nat : p > Len(t) => At(t, p) = "NUL"
PROOF
  <1>1. Len(t) \in Nat
    BY DEF IsText
  <1>2. \A p \in 1 .. Len(t) : At(t, p) = t[p] /\ At(t, p) # "NUL"
    BY <1>1 DEF IsText, At
  <1>3. \A p \in Nat : p > Len(t) => At(t, p) = "NUL"
    BY <1>1 DEF At
  <1>. QED BY <1>1, <1>2, <1>3

\* A character that is not the NUL is in the text.
LEMMA InText ==
  ASSUME NEW t, IsText(t), NEW p \in Nat \ {0}
  PROVE  At(t, p) # "NUL" <=> p <= Len(t)
  BY TextFacts

\* The end of the run of characters of a kind.
LEMMA RunFacts ==
  ASSUME NEW t, IsText(t), NEW p \in 1 .. Len(t) + 1, NEW chars, "NUL" \notin chars,
         NEW e, e = RunEnd(t, p, chars)
  PROVE  /\ e \in p .. Len(t) + 1
         /\ At(t, e) \notin chars
         /\ \A q \in p .. e - 1 : At(t, q) \in chars
PROOF
  <1> DEFINE S == {q \in p .. Len(t) + 1 : At(t, q) \notin chars}
  <1>1. Len(t) \in Nat /\ At(t, Len(t) + 1) = "NUL"
    BY TextFacts
  <1>2. S \subseteq Nat /\ Len(t) + 1 \in S
    BY <1>1
  <1> DEFINE m == LeastOf(S)
  <1>3. m \in S /\ \A q \in S : m <= q
    <2> HIDE DEF S
    <2>. QED BY <1>2, LeastFacts
  <1>4. \A q \in p .. m - 1 : At(t, q) \in chars
    <2>1. TAKE q \in p .. m - 1
    <2>2. q \in p .. Len(t) + 1 /\ ~(m <= q)
      BY <1>1, <1>3
    <2> HIDE DEF m
    <2>. QED BY <1>3, <2>2
  <1> HIDE DEF m
  <1>5. m \in p .. Len(t) + 1 /\ At(t, m) \notin chars
    BY <1>3
  <1>. QED BY <1>4, <1>5 DEF RunEnd

\* The same for what is not of a kind, as the loops that look for the end of a line
\* do it.
LEMMA LineEndFacts ==
  ASSUME NEW t, IsText(t), NEW p \in 1 .. Len(t) + 1, NEW e, e = LineEnd(t, p)
  PROVE  /\ e \in p .. Len(t) + 1
         /\ At(t, e) \in LineEnds
         /\ \A q \in p .. e - 1 : At(t, q) \notin LineEnds
PROOF
  <1> DEFINE S == {q \in p .. Len(t) + 1 : At(t, q) \in LineEnds}
  <1>1. Len(t) \in Nat /\ At(t, Len(t) + 1) = "NUL"
    BY TextFacts
  <1>2. S \subseteq Nat /\ Len(t) + 1 \in S
    BY <1>1 DEF LineEnds
  <1>3. e = LeastOf(S)
    BY DEF LineEnd, LineEnds
  <1>4. e \in S /\ \A q \in S : e <= q
    <2> HIDE DEF S
    <2>. QED BY <1>2, <1>3, LeastFacts
  <1>5. \A q \in p .. e - 1 : At(t, q) \notin LineEnds
    <2>1. TAKE q \in p .. e - 1
    <2>2. q \in p .. Len(t) + 1 /\ ~(e <= q)
      BY <1>1, <1>4
    <2>. QED BY <1>4, <2>2
  <1>. QED BY <1>4, <1>5

\* There is one place where a line ends.
LEMMA LineEndIs ==
  ASSUME NEW t, IsText(t), NEW p \in 1 .. Len(t) + 1, NEW e \in p .. Len(t) + 1,
         At(t, e) \in LineEnds, \A q \in p .. e - 1 : At(t, q) \notin LineEnds
  PROVE  LineEnd(t, p) = e
PROOF
  <1>1. PICK d : d = LineEnd(t, p)
    OBVIOUS
  <1>2. /\ d \in p .. Len(t) + 1 /\ At(t, d) \in LineEnds
        /\ \A q \in p .. d - 1 : At(t, q) \notin LineEnds
    BY <1>1, LineEndFacts
  <1>3. ~(d < e) /\ ~(e < d)
    <2>1. Len(t) \in Nat
      BY TextFacts
    <2>2. ASSUME d < e PROVE FALSE
      <3>1. d \in p .. e - 1
        BY <1>2, <2>1, <2>2
      <3>. QED BY <1>2, <3>1
    <2>3. ASSUME e < d PROVE FALSE
      <3>1. e \in p .. d - 1
        BY <1>2, <2>1, <2>3
      <3>. QED BY <1>2, <3>1
    <2>. QED BY <2>2, <2>3
  <1>4. Len(t) \in Nat
    BY TextFacts
  <1>. QED BY <1>1, <1>2, <1>3, <1>4

-----------------------------------------------------------------------------
\* What is skipped is in the text.
LEMMA ClosersFacts ==
  ASSUME NEW t, IsText(t), NEW p \in 1 .. Len(t) + 1
  PROVE  /\ \A q \in Closers(t, p) : q \in p + 2 .. Len(t) - 1
         /\ Closers(t, p) \subseteq Nat
PROOF
  <1>1. Len(t) \in Nat
    BY TextFacts
  <1>2. ASSUME NEW q \in p + 2 .. Len(t), At(t, q + 1) = "/" PROVE q \in p + 2 .. Len(t) - 1
    <2>1. q + 1 \in Nat \ {0} /\ At(t, q + 1) # "NUL"
      BY <1>1, <1>2
    <2>2. q + 1 <= Len(t)
      BY <2>1, InText
    <2>. QED BY <1>1, <2>2
  <1>. QED BY <1>1, <1>2 DEF Closers

\* Skip goes on from a blank and from a comment that is closed, and from nothing else.
LEMMA SkipFacts ==
  ASSUME NEW t, IsText(t), NEW p \in 1 .. Len(t) + 1
  PROVE  /\ Skip(t, p) \in p .. Len(t) + 1
         /\ Skip(t, p) = p <=> /\ At(t, p) \notin WHITESPACE
                               /\ ~Opens(t, p, "/")
                               /\ ~(Opens(t, p, "*") /\ Closers(t, p) # {})
         /\ Skip(t, Len(t) + 1) = Len(t) + 1
PROOF
  <1>1. Len(t) \in Nat /\ At(t, Len(t) + 1) = "NUL"
    BY TextFacts
  <1>7. Skip(t, Len(t) + 1) = Len(t) + 1
    BY <1>1 DEF Skip, WHITESPACE, Opens
  <1> DEFINE W == At(t, p) \in WHITESPACE
             L == Opens(t, p, "/")
             B == Opens(t, p, "*") /\ Closers(t, p) # {}
  <1>2. CASE W
    <2>1. At(t, p) # "NUL"
      BY <1>2 DEF WHITESPACE
    <2>2. p <= Len(t)
      BY <2>1, InText
    <2>3. Skip(t, p) = p + 1
      BY <1>2 DEF Skip
    <2>4. Skip(t, p) \in p .. Len(t) + 1 /\ Skip(t, p) # p
      BY <1>1, <2>2, <2>3
    <2>. QED BY <1>2, <2>4, <1>7
  <1>3. CASE ~W /\ L
    <2>1. PICK e : e = LineEnd(t, p)
      OBVIOUS
    <2>2. e \in p .. Len(t) + 1 /\ At(t, e) \in LineEnds
      BY <2>1, LineEndFacts
    <2>3. e # p
      BY <1>3, <2>2 DEF Opens, LineEnds
    <2>4. Skip(t, p) = e
      BY <1>3, <2>1 DEF Skip
    <2>. QED BY <1>3, <2>2, <2>3, <2>4, <1>7
  <1>4. CASE ~W /\ ~L /\ B
    <2>1. LeastOf(Closers(t, p)) \in Closers(t, p)
      BY <1>4, ClosersFacts, LeastFacts
    <2>2. LeastOf(Closers(t, p)) \in p + 2 .. Len(t) - 1
      BY <2>1, ClosersFacts
    <2>3. Skip(t, p) = LeastOf(Closers(t, p)) + 2
      BY <1>4 DEF Skip
    <2>4. Skip(t, p) \in p .. Len(t) + 1 /\ Skip(t, p) # p
      BY <1>1, <2>2, <2>3
    <2>. QED BY <1>4, <2>4, <1>7
  <1>5. CASE ~W /\ ~L /\ ~B
    <2>1. Skip(t, p) = p
      BY <1>5, Zenon DEF Skip
    <2>. QED BY <1>1, <1>5, <1>7, <2>1
  <1> HIDE DEF W, L, B
  <1>6. W \/ (~W /\ L) \/ (~W /\ ~L /\ B) \/ (~W /\ ~L /\ ~B)
    OBVIOUS
  <1>. QED BY <1>2, <1>3, <1>4, <1>5, <1>6

\* Code, unfolded.
LEMMA CodeFacts ==
  ASSUME NEW t, IsText(t), NEW N, N = Len(t) + 1
  PROVE  \A p \in 1 .. N :
           /\ Code(t)[p] = IF Skip(t, p) = p THEN p ELSE Code(t)[Skip(t, p)]
           /\ Code(t)[p] \in p .. N
           /\ Skip(t, Code(t)[p]) = Code(t)[p]
PROOF
  <1>1. N \in Nat
    BY TextFacts
  <1>2. \A p \in 1 .. N : Skip(t, p) \in p .. N
    BY SkipFacts
  <1> DEFINE Unfolded(c) == c = [p \in 1 .. N |-> IF Skip(t, p) = p THEN p ELSE c[Skip(t, p)]]
  <1>3. \E c : Unfolded(c)
    <2> DEFINE next == [p \in 1 .. N |-> IF Skip(t, p) = p THEN 0 ELSE Skip(t, p)]
               base == [p \in 1 .. N |-> p]
               step == [x \in (1 .. N) \X (1 .. N) |-> x[2]]
    <2>1. next \in [1 .. N -> Nat] /\ \A p \in 1 .. N : next[p] # 0 => next[p] > p /\ next[p] <= N
      BY <1>2
    <2>2. base \in [1 .. N -> 1 .. N] /\ step \in [(1 .. N) \X (1 .. N) -> 1 .. N]
      OBVIOUS
    <2>3. \A p \in 1 .. N, q \in 1 .. N : step[<<p, q>>] = q
      OBVIOUS
    <2>4. \A p \in 1 .. N : base[p] = p /\ next[p] = IF Skip(t, p) = p THEN 0 ELSE Skip(t, p)
      OBVIOUS
    <2> HIDE DEF next, base, step
    <2>7. \E c \in [1 .. N -> 1 .. N] : Solves(c, N, next, base, step)
      <3>1. Ahead(N, next)
        BY <2>1 DEF Ahead
      <3>. QED BY <1>1, <2>1, <2>2, <3>1, Recursion, Zenon
    <2>5. PICK c \in [1 .. N -> 1 .. N] : \A p \in 1 .. N :
            c[p] = IF next[p] = 0 THEN base[p] ELSE step[<<p, c[next[p]]>>]
      BY <2>7 DEF Solves
    <2>6. \A p \in 1 .. N : c[p] = IF Skip(t, p) = p THEN p ELSE c[Skip(t, p)]
      <3>1. TAKE p \in 1 .. N
      <3>2. c[p] = IF next[p] = 0 THEN base[p] ELSE step[<<p, c[next[p]]>>]
        BY <2>5
      <3>3. CASE Skip(t, p) = p
        BY <2>4, <3>2, <3>3
      <3>4. CASE Skip(t, p) # p
        <4>1. Skip(t, p) \in 1 .. N /\ next[p] = Skip(t, p) /\ Skip(t, p) # 0
          BY <1>2, <2>4, <3>4
        <4>2. c[Skip(t, p)] \in 1 .. N
          BY <2>5, <4>1
        <4>3. c[p] = step[<<p, c[Skip(t, p)]>>]
          BY <3>2, <4>1
        <4>. QED BY <2>3, <3>4, <4>2, <4>3
      <3>. QED BY <3>3, <3>4
    <2>10. Unfolded(c)
      BY <2>5, <2>6
    <2>. QED BY <2>10
  <1>4. Code(t) = CHOOSE c : Unfolded(c)
    BY DEF Code
  <1>5. Unfolded(Code(t))
    BY <1>3, <1>4, Zenon
  <1> DEFINE c == Code(t)
  <1>6. \A p \in 1 .. N : c[p] = IF Skip(t, p) = p THEN p ELSE c[Skip(t, p)]
    BY <1>5
  <1> HIDE DEF c
  <1> DEFINE G == {p \in 1 .. N : c[p] \in p .. N /\ Skip(t, c[p]) = c[p]}
  <1>7. ASSUME NEW p \in 1 .. N, \A q \in 1 .. N : q > p => q \in G PROVE p \in G
    <2>1. CASE Skip(t, p) = p
      BY <1>6, <2>1
    <2>2. CASE Skip(t, p) # p
      <3>1. Skip(t, p) \in 1 .. N /\ Skip(t, p) > p
        BY <1>2, <2>2
      <3>2. Skip(t, p) \in G
        BY <1>7, <3>1
      <3>. QED BY <1>6, <2>2, <3>1, <3>2
    <2>. QED BY <2>1, <2>2
  <1>8. \A p \in 1 .. N : p \in G
    <2> HIDE DEF G
    <2>. QED BY <1>1, <1>7, Downwards
  <1>. QED BY <1>6, <1>8 DEF c

-----------------------------------------------------------------------------
\* The characters of symbols.
Plain == {"(", ")", ":", "?", "+", "-", "/", "*", "%", "&", "|", "^", "~", "<", ">", "=", "!"}
SymbolChars == Plain \cup {"{", "}", ";", ","}

\* Digits and letters.
LEMMA NumIs == NUM = {"0", "1", "2", "3", "4", "5", "6", "7", "8", "9"}
PROOF
  <1>1. DOMAIN Digits = 1 .. 10
    BY DEF Digits
  <1>2. \A i \in 1 .. 10 : Digits[i] \in {"0", "1", "2", "3", "4", "5", "6", "7", "8", "9"}
    BY DEF Digits
  <1>3. \A c \in {"0", "1", "2", "3", "4", "5", "6", "7", "8", "9"} : \E i \in 1 .. 10 : Digits[i] = c
    <2>1. /\ Digits[1] = "0" /\ Digits[2] = "1" /\ Digits[3] = "2" /\ Digits[4] = "3"
          /\ Digits[5] = "4" /\ Digits[6] = "5" /\ Digits[7] = "6" /\ Digits[8] = "7"
          /\ Digits[9] = "8" /\ Digits[10] = "9"
      BY DEF Digits
    <2>. QED BY <2>1
  <1>4. NUM = {Digits[i] : i \in DOMAIN Digits}
    BY DEF NUM, ToSet
  <1>. QED BY <1>1, <1>2, <1>3, <1>4

\* Letters, digits, blanks and the characters of symbols are different.
LEMMA Unlike ==
  /\ \A c \in SymbolChars : c \notin IDENTIFIER_TAIL /\ c \notin WHITESPACE /\ c # "NUL"
  /\ \A c \in IDENTIFIER_TAIL : c \notin WHITESPACE /\ c # "NUL"
  /\ \A c \in IDENTIFIER_HEAD : c \notin NUM
PROOF
  <1>1. \A c \in SymbolChars : c \notin IDENTIFIER_TAIL /\ c \notin WHITESPACE /\ c # "NUL"
    <2>1. \A c \in SymbolChars : c \notin ALPHA
      <3>1. \A c \in {"(", ")", ":", "?", "+", "-"} : c \notin ALPHA
        BY ZenonT(60) DEF ALPHA
      <3>2. \A c \in {"/", "*", "%", "&", "|", "^"} : c \notin ALPHA
        BY ZenonT(60) DEF ALPHA
      <3>3. \A c \in {"~", "<", ">", "=", "!"} : c \notin ALPHA
        BY ZenonT(60) DEF ALPHA
      <3>4. \A c \in {"{", "}", ";", ","} : c \notin ALPHA
        BY ZenonT(60) DEF ALPHA
      <3>. QED BY <3>1, <3>2, <3>3, <3>4, Zenon DEF SymbolChars, Plain
    <2>2. \A c \in SymbolChars : c \notin NUM /\ c # "_"
      BY NumIs, Zenon DEF SymbolChars, Plain
    <2>3. \A c \in SymbolChars : c \notin WHITESPACE /\ c # "NUL"
      BY Zenon DEF SymbolChars, Plain, WHITESPACE
    <2>. QED BY <2>1, <2>2, <2>3, Zenon DEF IDENTIFIER_TAIL
  <1>2. \A c \in IDENTIFIER_TAIL : c \notin WHITESPACE /\ c # "NUL"
    BY NumIs, ZenonT(100) DEF IDENTIFIER_TAIL, ALPHA, WHITESPACE
  <1>3. \A c \in IDENTIFIER_HEAD : c \notin NUM
    BY NumIs, ZenonT(100) DEF IDENTIFIER_HEAD, ALPHA
  <1>. QED BY <1>1, <1>2, <1>3

\* The table, with names for those characters that are alone.
Table(lb, rb, sm, cm) ==
  << <<lb>>, <<rb>>, <<"(">>, <<")">>, <<sm>>, <<":">>, <<"?">>, <<cm>>,
     <<"+", "=">>, <<"-", "=">>, <<"/", "=">>, <<"*", "=">>, <<"%", "=">>, <<"&", "=">>,
     <<"|", "=">>, <<"^", "=">>, <<"<", "<", "=">>, <<">", ">", "=">>,
     <<"+", "+">>, <<"-", "-">>,
     <<"-">>, <<"~">>, <<"+">>, <<"*">>, <<"/">>, <<"%">>, <<"^">>,
     <<"&", "&">>, <<"|", "|">>, <<"=", "=">>, <<"!", "=">>, <<"<", "=">>, <<">", "=">>,
     <<"<", "<">>, <<">", ">">>,
     <<">">>, <<"<">>, <<"!">>, <<"=">>, <<"&">>, <<"|">> >>

\* Symbols is that table, for some characters that are not in Plain.
LEMMA SymbolTable ==
  \E lb, rb, sm, cm \in SymbolChars :
    /\ lb \notin Plain /\ rb \notin Plain /\ sm \notin Plain /\ cm \notin Plain
    /\ Symbols = Table(lb, rb, sm, cm)
PROOF
  <1>1. \A c \in {"{", "}", ";", ","} : c \in SymbolChars /\ c \notin Plain
    BY Zenon DEF SymbolChars, Plain
  <1>. QED BY <1>1, Zenon DEF Symbols, Table

\* Where in the table long and short symbols are, and how they start.
LEMMA SymbolFacts ==
  /\ DOMAIN Symbols = 1 .. 41
  /\ \A i \in 1 .. 41 : /\ Symbols[i] \in Seq(SymbolChars)
                        /\ Len(Symbols[i]) \in 1 .. 3
  /\ \A i, j \in 1 .. 41 :
       i < j /\ Len(Symbols[i]) < Len(Symbols[j]) => Symbols[i][1] # Symbols[j][1]
PROOF
  <1>1. PICK lb, rb, sm, cm \in SymbolChars :
          /\ lb \notin Plain /\ rb \notin Plain /\ sm \notin Plain /\ cm \notin Plain
          /\ Symbols = Table(lb, rb, sm, cm)
    BY SymbolTable
  <1>2. \A c \in Plain : c \in SymbolChars
    BY Zenon DEF SymbolChars
  <1> HIDE DEF SymbolChars
  <1> DEFINE A == {lb, rb, "(", ")", sm, ":", "?", cm}
             B == {"+", "-", "/", "*", "%", "&", "|", "^"}
             C == {"<", ">"}
             E == {"-", "~", "+", "*", "/", "%", "^"}
             F == {"&", "|", "=", "!", "<", ">"}
  <1>3. DOMAIN Symbols = 1 .. 41
    BY <1>1 DEF Table
  <1>4. \A i \in 1 .. 8 : Len(Symbols[i]) = 1 /\ Symbols[i][1] \in A
    BY <1>1 DEF Table
  <1>5. \A i \in 9 .. 16 : Len(Symbols[i]) = 2 /\ Symbols[i][1] \in B /\ Symbols[i][2] = "="
    BY <1>1 DEF Table
  <1>6. \A i \in 17 .. 18 : Len(Symbols[i]) = 3 /\ Symbols[i][1] \in C /\ Symbols[i][2] \in C
                            /\ Symbols[i][3] = "="
    BY <1>1 DEF Table
  <1>7. \A i \in 19 .. 20 : Len(Symbols[i]) = 2 /\ Symbols[i][1] \in B /\ Symbols[i][2] \in B
    BY <1>1 DEF Table
  <1>8. \A i \in 21 .. 27 : Len(Symbols[i]) = 1 /\ Symbols[i][1] \in E
    BY <1>1 DEF Table
  <1>9. \A i \in 28 .. 35 : Len(Symbols[i]) = 2 /\ Symbols[i][1] \in F /\ Symbols[i][2] \in F
    BY <1>1 DEF Table
  <1>10. \A i \in 36 .. 41 : Len(Symbols[i]) = 1 /\ Symbols[i][1] \in F
    BY <1>1 DEF Table
  <1>11. A \subseteq SymbolChars /\ A \cap (B \cup C \cup F) = {}
    BY <1>1, <1>2 DEF Plain
  <1>12. B \cup E \cup F \cup C \cup {"="} \subseteq SymbolChars
    BY <1>2 DEF Plain
  <1>13. E \cap F = {} /\ B \cap C = {}
    OBVIOUS
  <1>14. \A i \in 1 .. 41 : Symbols[i] \in Seq(SymbolChars)
    <2>1. \A c \in SymbolChars : <<c>> \in Seq(SymbolChars)
      OBVIOUS
    <2>2. \A c, d \in SymbolChars : <<c, d>> \in Seq(SymbolChars)
      OBVIOUS
    <2>3. \A c, d, e \in SymbolChars : <<c, d, e>> \in Seq(SymbolChars)
      OBVIOUS
    <2>4. \A i \in 1 .. 8 : Symbols[i] \in Seq(SymbolChars)
      <3>1. \A i \in 1 .. 8 : \E c \in SymbolChars : Symbols[i] = <<c>>
        BY <1>1, <1>2 DEF Plain, Table
      <3>. QED BY <2>1, <3>1
    <2>5. \A i \in 9 .. 16 : Symbols[i] \in Seq(SymbolChars)
      <3>1. \A i \in 9 .. 16 : \E c, d \in SymbolChars : Symbols[i] = <<c, d>>
        BY <1>1, <1>2 DEF Plain, Table
      <3>. QED BY <2>2, <3>1
    <2>6. \A i \in 17 .. 18 : Symbols[i] \in Seq(SymbolChars)
      <3>1. \A i \in 17 .. 18 : \E c, d, e \in SymbolChars : Symbols[i] = <<c, d, e>>
        BY <1>1, <1>2 DEF Plain, Table
      <3>. QED BY <2>3, <3>1
    <2>7. \A i \in 19 .. 20 : Symbols[i] \in Seq(SymbolChars)
      <3>1. \A i \in 19 .. 20 : \E c, d \in SymbolChars : Symbols[i] = <<c, d>>
        BY <1>1, <1>2 DEF Plain, Table
      <3>. QED BY <2>2, <3>1
    <2>8. \A i \in 21 .. 27 : Symbols[i] \in Seq(SymbolChars)
      <3>1. \A i \in 21 .. 27 : \E c \in SymbolChars : Symbols[i] = <<c>>
        BY <1>1, <1>2 DEF Plain, Table
      <3>. QED BY <2>1, <3>1
    <2>9. \A i \in 28 .. 35 : Symbols[i] \in Seq(SymbolChars)
      <3>1. \A i \in 28 .. 35 : \E c, d \in SymbolChars : Symbols[i] = <<c, d>>
        BY <1>1, <1>2 DEF Plain, Table
      <3>. QED BY <2>2, <3>1
    <2>10. \A i \in 36 .. 41 : Symbols[i] \in Seq(SymbolChars)
      <3>1. \A i \in 36 .. 41 : \E c \in SymbolChars : Symbols[i] = <<c>>
        BY <1>1, <1>2 DEF Plain, Table
      <3>. QED BY <2>1, <3>1
    <2>11. \A i \in 1 .. 41 : \/ i \in 1 .. 8 \/ i \in 9 .. 16 \/ i \in 17 .. 18 \/ i \in 19 .. 20
                              \/ i \in 21 .. 27 \/ i \in 28 .. 35 \/ i \in 36 .. 41
      OBVIOUS
    <2>. QED BY <2>4, <2>5, <2>6, <2>7, <2>8, <2>9, <2>10, <2>11
  <1> HIDE DEF A, B, C, E, F
  <1> DEFINE Size(i) == Len(Symbols[i])
             Opening(i) == Symbols[i][1]
  <1>15. /\ \A i \in 1 .. 8 : Size(i) = 1 /\ Opening(i) \in A
         /\ \A i \in 9 .. 16 : Size(i) = 2 /\ Opening(i) \in B
         /\ \A i \in 17 .. 18 : Size(i) = 3 /\ Opening(i) \in C
         /\ \A i \in 19 .. 20 : Size(i) = 2 /\ Opening(i) \in B
         /\ \A i \in 21 .. 27 : Size(i) = 1 /\ Opening(i) \in E
         /\ \A i \in 28 .. 35 : Size(i) = 2 /\ Opening(i) \in F
         /\ \A i \in 36 .. 41 : Size(i) = 1 /\ Opening(i) \in F
    BY <1>4, <1>5, <1>6, <1>7, <1>8, <1>9, <1>10, ZenonT(60)
  <1> HIDE DEF Size
  <1>16. \A i \in 1 .. 41 : \/ i \in 1 .. 8 \/ i \in 9 .. 16 \/ i \in 17 .. 18 \/ i \in 19 .. 20
                            \/ i \in 21 .. 27 \/ i \in 28 .. 35 \/ i \in 36 .. 41
    OBVIOUS
  <1>17. \A i \in 1 .. 41 : Size(i) \in 1 .. 3
    <2>1. TAKE i \in 1 .. 41
    <2>2. Size(i) = 1 \/ Size(i) = 2 \/ Size(i) = 3
      BY <1>15, <1>16, Zenon
    <2>. QED BY <2>2
  <1>18. ASSUME NEW i \in 1 .. 41, NEW j \in 1 .. 41, i < j, Size(i) < Size(j), Opening(i) = Opening(j)
         PROVE  FALSE
    <2>1. CASE i \in 1 .. 8
      <3>1. Opening(i) \in A /\ Opening(j) \in B \cup C \cup F
        BY <1>15, <1>16, <1>18, <2>1
      <3>. QED BY <1>11, <1>18, <3>1
    <2>2. CASE i \in 9 .. 20
      <3>1. Opening(i) \in B /\ Opening(j) \in C
        BY <1>15, <1>16, <1>18, <2>2
      <3>. QED BY <1>13, <1>18, <3>1
    <2>3. CASE i \in 21 .. 27
      <3>1. Opening(i) \in E /\ Opening(j) \in F
        BY <1>15, <1>16, <1>18, <2>3
      <3>. QED BY <1>13, <1>18, <3>1
    <2>4. CASE i \in 28 .. 41
      BY <1>15, <1>16, <1>18, <2>4
    <2>. QED BY <2>1, <2>2, <2>3, <2>4
  <1>. QED BY <1>3, <1>14, <1>17, <1>18, ZenonT(30) DEF Size

\* Keywords are words.
LEMMA KeywordFacts ==
  \A i \in DOMAIN Keywords :
    /\ Keywords[i] \in Seq(IDENTIFIER_TAIL)
    /\ Len(Keywords[i]) \in Nat \ {0}
    /\ Keywords[i][1] \in IDENTIFIER_HEAD
PROOF
  <1>1. ALPHA \subseteq IDENTIFIER_HEAD /\ ALPHA \subseteq IDENTIFIER_TAIL
    BY DEF IDENTIFIER_HEAD, IDENTIFIER_TAIL
  <1>2. DOMAIN Keywords = 1 .. 11
    BY DEF Keywords
  <1> DEFINE Letters == {"a", "b", "c", "d", "e", "f", "g", "h", "i", "k", "l", "n", "o", "r",
                         "s", "t", "u", "v", "w"}
  <1>3. Letters \subseteq ALPHA
    BY DEF ALPHA
  <1>4. \A c \in Letters : c \in ALPHA
    BY <1>3
  <1> DEFINE WordOf(s, n) == s \in Seq(ALPHA) /\ Len(s) = n
  <1>5. \A i \in {4, 8} : WordOf(Keywords[i], 2)
    <2>1. \A c1, c2 \in ALPHA : WordOf(<<c1, c2>>, 2)
      <3> HIDE DEF ALPHA
      <3>. QED OBVIOUS
    <2>2. \A i \in {4, 8} : \E c1, c2 \in ALPHA : Keywords[i] = <<c1, c2>>
      <3> HIDE DEF ALPHA
      <3>. QED BY <1>4 DEF Keywords
    <2> HIDE DEF WordOf
    <2>. QED BY <2>1, <2>2, Zenon
  <1>6. \A i \in {1, 6} : WordOf(Keywords[i], 3)
    <2>1. \A c1, c2, c3 \in ALPHA : WordOf(<<c1, c2, c3>>, 3)
      <3> HIDE DEF ALPHA
      <3>. QED OBVIOUS
    <2>2. \A i \in {1, 6} : \E c1, c2, c3 \in ALPHA : Keywords[i] = <<c1, c2, c3>>
      <3> HIDE DEF ALPHA
      <3>. QED BY <1>4 DEF Keywords
    <2> HIDE DEF WordOf
    <2>. QED BY <2>1, <2>2, Zenon
  <1>7. \A i \in {2, 5, 11} : WordOf(Keywords[i], 4)
    <2>1. \A c1, c2, c3, c4 \in ALPHA : WordOf(<<c1, c2, c3, c4>>, 4)
      <3> HIDE DEF ALPHA
      <3>. QED OBVIOUS
    <2>2. \A i \in {2, 5, 11} : \E c1, c2, c3, c4 \in ALPHA : Keywords[i] = <<c1, c2, c3, c4>>
      <3> HIDE DEF ALPHA
      <3>. QED BY <1>4 DEF Keywords
    <2> HIDE DEF WordOf
    <2>3. TAKE i \in {2, 5, 11}
    <2>4. PICK c1, c2, c3, c4 \in ALPHA : Keywords[i] = <<c1, c2, c3, c4>>
      BY <2>2
    <2>5. WordOf(<<c1, c2, c3, c4>>, 4)
      BY <2>1
    <2>. QED BY <2>4, <2>5
  <1>8. \A i \in {7, 9} : WordOf(Keywords[i], 5)
    <2>1. \A c1, c2, c3, c4, c5 \in ALPHA : WordOf(<<c1, c2, c3, c4, c5>>, 5)
      <3> HIDE DEF ALPHA
      <3>. QED OBVIOUS
    <2>2. \A i \in {7, 9} : \E c1, c2, c3, c4, c5 \in ALPHA : Keywords[i] = <<c1, c2, c3, c4, c5>>
      <3> HIDE DEF ALPHA
      <3>. QED BY <1>4 DEF Keywords
    <2> HIDE DEF WordOf
    <2>3. TAKE i \in {7, 9}
    <2>4. PICK c1, c2, c3, c4, c5 \in ALPHA : Keywords[i] = <<c1, c2, c3, c4, c5>>
      BY <2>2
    <2>5. WordOf(<<c1, c2, c3, c4, c5>>, 5)
      BY <2>1
    <2>. QED BY <2>4, <2>5
  <1>9. \A i \in {3} : WordOf(Keywords[i], 6)
    <2>1. \A c1, c2, c3, c4, c5, c6 \in ALPHA : WordOf(<<c1, c2, c3, c4, c5, c6>>, 6)
      <3> HIDE DEF ALPHA
      <3>. QED OBVIOUS
    <2>2. \A i \in {3} : \E c1, c2, c3, c4, c5, c6 \in ALPHA : Keywords[i] = <<c1, c2, c3, c4, c5, c6>>
      <3> HIDE DEF ALPHA
      <3>. QED BY <1>4 DEF Keywords
    <2> HIDE DEF WordOf
    <2>3. TAKE i \in {3}
    <2>4. PICK c1, c2, c3, c4, c5, c6 \in ALPHA : Keywords[i] = <<c1, c2, c3, c4, c5, c6>>
      BY <2>2
    <2>5. WordOf(<<c1, c2, c3, c4, c5, c6>>, 6)
      BY <2>1
    <2>. QED BY <2>4, <2>5
  <1>10. \A i \in {10} : WordOf(Keywords[i], 8)
    <2>1. \A c1, c2, c3, c4, c5, c6, c7, c8 \in ALPHA : WordOf(<<c1, c2, c3, c4, c5, c6, c7, c8>>, 8)
      <3> HIDE DEF ALPHA
      <3>. QED OBVIOUS
    <2>2. \A i \in {10} : \E c1, c2, c3, c4, c5, c6, c7, c8 \in ALPHA : Keywords[i] = <<c1, c2, c3, c4, c5, c6, c7, c8>>
      <3> HIDE DEF ALPHA
      <3>. QED BY <1>4 DEF Keywords
    <2> HIDE DEF WordOf
    <2>3. TAKE i \in {10}
    <2>4. PICK c1, c2, c3, c4, c5, c6, c7, c8 \in ALPHA : Keywords[i] = <<c1, c2, c3, c4, c5, c6, c7, c8>>
      BY <2>2
    <2>5. WordOf(<<c1, c2, c3, c4, c5, c6, c7, c8>>, 8)
      BY <2>1
    <2>. QED BY <2>4, <2>5
  <1>11. \A i \in 1 .. 11 : Keywords[i] \in Seq(ALPHA) /\ Len(Keywords[i]) \in Nat \ {0}
    <2>1. \A i \in 1 .. 11 : \/ i \in {4, 8} \/ i \in {1, 6} \/ i \in {2, 5, 11} \/ i \in {7, 9}
                             \/ i \in {3} \/ i \in {10}
      OBVIOUS
    <2>2. \A i \in 1 .. 11 : Keywords[i] \in Seq(ALPHA)
      BY <1>5, <1>6, <1>7, <1>8, <1>9, <1>10, <2>1, Zenon
    <2>3. \A i \in 1 .. 11 : \E n \in {2, 3, 4, 5, 6, 8} : Len(Keywords[i]) = n
      BY <1>5, <1>6, <1>7, <1>8, <1>9, <1>10, <2>1
    <2>4. \A n \in {2, 3, 4, 5, 6, 8} : n \in Nat \ {0}
      OBVIOUS
    <2>. QED BY <2>2, <2>3, <2>4, Zenon
  <1>12. \A s \in Seq(ALPHA) : s # <<>> /\ Len(s) # 0 => s[1] \in ALPHA
    OBVIOUS
  <1>13. \A s \in Seq(ALPHA) : s \in Seq(IDENTIFIER_TAIL)
    <2>1. TAKE s \in Seq(ALPHA)
    <2>2. s = [k \in 1 .. Len(s) |-> s[k]] /\ Len(s) \in Nat
      OBVIOUS
    <2>3. \A k \in 1 .. Len(s) : s[k] \in ALPHA
      OBVIOUS
    <2>4. \A k \in 1 .. Len(s) : s[k] \in IDENTIFIER_TAIL
      BY <1>1, <2>3
    <2>. QED BY <2>2, <2>4
  <1> HIDE DEF Letters
  <1>14. \A i \in 1 .. 11 : Len(Keywords[i]) # 0 /\ Keywords[i] # <<>>
    BY <1>11
  <1>. QED BY <1>1, <1>2, <1>11, <1>12, <1>13, <1>14

-----------------------------------------------------------------------------
\* The text reads s at p.
Reads(t, p, s) == \A k \in 1 .. Len(s) : At(t, p + k - 1) = s[k]

\* s is what n characters of the text at p spell.
Spells(s, t, p, n) ==
  /\ s \in Seq(STRING) /\ Len(s) = n
  /\ \A k \in 1 .. n : s[k] = At(t, p + k - 1)

\* A spelling is a part of the text.
LEMMA SpellingFacts ==
  ASSUME NEW t, IsText(t), NEW p \in 1 .. Len(t) + 1, NEW n \in 0 .. Len(t) + 1 - p
  PROVE  Spells(Spelling(t, p, n), t, p, n)
PROOF
  <1>1. PICK s : s = Spelling(t, p, n)
    OBVIOUS
  <1>2. Len(t) \in Nat /\ t \in Seq(STRING)
    BY TextFacts DEF IsText
  <1>3. s = SubSeq(t, p, p + n - 1) /\ p \in Nat \ {0} /\ p + n - 1 \in Int /\ p + n - 1 <= Len(t)
    BY <1>1, <1>2 DEF Spelling
  <1>4. s \in Seq(STRING) /\ Len(s) = n /\ \A k \in 1 .. n : s[k] = t[p + k - 1]
    BY <1>2, <1>3
  <1>5. \A k \in 1 .. n : p + k - 1 \in 1 .. Len(t)
    BY <1>2
  <1>6. \A k \in 1 .. n : s[k] = At(t, p + k - 1)
    BY <1>4, <1>5, TextFacts
  <1>. QED BY <1>1, <1>4, <1>6 DEF Spells

\* The characters that are spelled.
LEMMA SpellsSet ==
  ASSUME NEW t, NEW p, NEW n \in Nat, NEW s, Spells(s, t, p, n)
  PROVE  ToSet(s) = {At(t, p + k - 1) : k \in 1 .. n}
PROOF
  <1>1. DOMAIN s = 1 .. n
    BY DEF Spells
  <1>2. ToSet(s) = {s[k] : k \in 1 .. n}
    BY <1>1 DEF ToSet
  <1>3. \A k \in 1 .. n : s[k] = At(t, p + k - 1)
    BY DEF Spells
  <1>. QED BY <1>2, <1>3

\* What the text reads at p is in it, and is its spelling.
LEMMA ReadsFacts ==
  ASSUME NEW t, IsText(t), NEW p \in 1 .. Len(t) + 1, NEW S, "NUL" \notin S, NEW s \in Seq(S),
         Reads(t, p, s)
  PROVE  /\ Len(s) \in 0 .. Len(t) + 1 - p
         /\ Spelling(t, p, Len(s)) = s
PROOF
  <1>1. Len(t) \in Nat /\ Len(s) \in Nat
    BY TextFacts
  <1>2. \A k \in 1 .. Len(s) : p + k - 1 <= Len(t)
    <2>1. TAKE k \in 1 .. Len(s)
    <2>2. At(t, p + k - 1) # "NUL" /\ p + k - 1 \in Nat \ {0}
      BY DEF Reads
    <2>. QED BY <2>2, InText
  <1>3. Len(s) \in 0 .. Len(t) + 1 - p
    <2>1. CASE Len(s) = 0
      BY <1>1, <2>1
    <2>2. CASE Len(s) # 0
      <3>1. p + Len(s) - 1 <= Len(t)
        BY <1>1, <1>2, <2>2
      <3>. QED BY <1>1, <3>1
    <2>. QED BY <2>1, <2>2
  <1>4. PICK r : r = Spelling(t, p, Len(s))
    OBVIOUS
  <1>5. Spells(r, t, p, Len(s))
    BY <1>3, <1>4, SpellingFacts
  <1>6. \A k \in 1 .. Len(s) : r[k] = s[k]
    BY <1>5 DEF Reads, Spells
  <1>7. r = s
    BY <1>5, <1>6 DEF Spells
  <1>. QED BY <1>3, <1>4, <1>7

\* IsPrefix of the rest, as consume_str and consume_keyword see it.
LEMMA PrefixReads ==
  ASSUME NEW t, IsText(t), NEW p \in 1 .. Len(t) + 1, NEW S, "NUL" \notin S, NEW s \in Seq(S)
  PROVE  IsPrefix(s, SubSeq(t, p, Len(t))) <=> Reads(t, p, s)
PROOF
  <1> DEFINE r == SubSeq(t, p, Len(t))
             n == Len(t) + 1 - p
  <1>1. Len(t) \in Nat /\ Len(s) \in Nat /\ n \in 0 .. Len(t) + 1 - p
    BY TextFacts
  <1>2. r = Spelling(t, p, n)
    BY <1>1 DEF Spelling
  <1>3. Spells(r, t, p, n)
    <2> HIDE DEF r, n
    <2>. QED BY <1>1, <1>2, SpellingFacts
  <1> HIDE DEF r, n
  <1>4. IsPrefix(s, r) <=> Len(s) <= n /\ \A k \in 1 .. Len(s) : s[k] = r[k]
    <2>1. IsPrefix(s, r) <=> Len(s) <= n /\ SubSeq(s, 1, Len(s)) = SubSeq(r, 1, Len(s))
      BY <1>3 DEF IsPrefix, Spells
    <2>2. ASSUME Len(s) <= n
          PROVE  SubSeq(s, 1, Len(s)) = SubSeq(r, 1, Len(s))
                   <=> \A k \in 1 .. Len(s) : s[k] = r[k]
      <3>1. /\ SubSeq(s, 1, Len(s)) \in Seq(S) /\ Len(SubSeq(s, 1, Len(s))) = Len(s)
            /\ \A k \in 1 .. Len(s) : SubSeq(s, 1, Len(s))[k] = s[k]
        BY <1>1
      <3>2. /\ SubSeq(r, 1, Len(s)) \in Seq(STRING) /\ Len(SubSeq(r, 1, Len(s))) = Len(s)
            /\ \A k \in 1 .. Len(s) : SubSeq(r, 1, Len(s))[k] = r[k]
        BY <1>1, <1>3, <2>2 DEF Spells
      <3>. QED BY <3>1, <3>2
    <2>. QED BY <2>1, <2>2
  <1>5. ASSUME Reads(t, p, s) PROVE Len(s) <= n
    <2>1. Len(s) \in 0 .. Len(t) + 1 - p
      BY <1>5, ReadsFacts
    <2>. QED BY <2>1 DEF n
  <1>6. ASSUME Len(s) <= n
        PROVE  (\A k \in 1 .. Len(s) : s[k] = r[k]) <=> Reads(t, p, s)
    <2>1. \A k \in 1 .. Len(s) : k \in 1 .. n
      BY <1>1, <1>6
    <2>2. \A k \in 1 .. Len(s) : r[k] = At(t, p + k - 1)
      BY <1>3, <2>1 DEF Spells
    <2>. QED BY <2>2 DEF Reads
  <1>7. IsPrefix(s, r) <=> Reads(t, p, s)
    BY <1>4, <1>5, <1>6
  <1>. QED BY <1>7 DEF r

-----------------------------------------------------------------------------
Lengths(t, p) ==
  {0} \cup {n \in 1 .. Len(t) + 1 - p : \/ Spelling(t, p, n) \in ToSet(Symbols)
                                        \/ ToSet(Spelling(t, p, n)) \subseteq IDENTIFIER_TAIL}

\* m characters of a word are at p.
Word(t, p, m) == \A k \in 1 .. m : At(t, p + k - 1) \in IDENTIFIER_TAIL

\* An identifier goes on with what it may start with, or with a digit.
LEMMA TailIs == IDENTIFIER_TAIL = IDENTIFIER_HEAD \cup NUM
  BY Zenon DEF IDENTIFIER_HEAD, IDENTIFIER_TAIL

\* The symbols.
LEMMA SymbolSet == ToSet(Symbols) = {Symbols[i] : i \in 1 .. 41}
  BY SymbolFacts DEF ToSet

\* Symbols are not empty.
LEMMA SymbolSizes == \A j \in 1 .. 41 : Len(Symbols[j]) \in Nat \ {0}
PROOF
  <1>1. \A n \in 1 .. 3 : n \in Nat \ {0}
    OBVIOUS
  <1>. QED BY <1>1, SymbolFacts, Zenon

\* The empty sequence is no symbol.
LEMMA NoEmptySymbol == <<>> \notin ToSet(Symbols)
PROOF
  <1>1. ASSUME NEW i \in 1 .. 41, <<>> = Symbols[i] PROVE FALSE
    <2>1. Len(Symbols[i]) \in 1 .. 3
      BY SymbolFacts
    <2>2. Len(<<>>) = 0
      OBVIOUS
    <2>. QED BY <1>1, <2>1, <2>2
  <1>. QED BY <1>1, SymbolSet

\* What the text reads at p starts with its character there.
LEMMA ReadsHead ==
  ASSUME NEW t, NEW p \in Nat, NEW s, Len(s) \in Nat \ {0}, Reads(t, p, s)
  PROVE  At(t, p) = s[1]
PROOF
  <1>1. 1 \in 1 .. Len(s)
    OBVIOUS
  <1>2. At(t, p + 1 - 1) = s[1]
    BY <1>1 DEF Reads
  <1>3. p + 1 - 1 = p
    OBVIOUS
  <1>. QED BY <1>2, <1>3

\* So does a word.
LEMMA WordHead ==
  ASSUME NEW t, NEW p \in Nat, NEW m \in Nat \ {0}, Word(t, p, m)
  PROVE  At(t, p) \in IDENTIFIER_TAIL
PROOF
  <1>1. 1 \in 1 .. m
    OBVIOUS
  <1>2. At(t, p + 1 - 1) \in IDENTIFIER_TAIL
    BY <1>1 DEF Word
  <1>3. p + 1 - 1 = p
    OBVIOUS
  <1>. QED BY <1>2, <1>3

\* A word starts like no symbol.
LEMMA SymbolHead ==
  ASSUME NEW t, NEW p \in Nat, NEW j \in 1 .. 41, Reads(t, p, Symbols[j])
  PROVE  /\ At(t, p) = Symbols[j][1]
         /\ At(t, p) \notin IDENTIFIER_TAIL
PROOF
  <1>1. Symbols[j] \in Seq(SymbolChars) /\ Len(Symbols[j]) \in 1 .. 3
    BY SymbolFacts
  <1>2. Len(Symbols[j]) \in Nat \ {0}
    BY SymbolSizes
  <1>3. At(t, p) = Symbols[j][1]
    BY <1>2, ReadsHead
  <1>4. \A s \in Seq(SymbolChars) : Len(s) \in Nat \ {0} => s[1] \in SymbolChars
    OBVIOUS
  <1>5. Symbols[j][1] \in SymbolChars
    BY <1>1, <1>2, <1>4, Zenon
  <1>. QED BY <1>3, <1>5, Unlike

\* The lengths a lexeme may have: those of the symbols that are read, and those of
\* words.
LEMMA LengthsFacts ==
  ASSUME NEW t, IsText(t), NEW p \in 1 .. Len(t) + 1
  PROVE  /\ Lengths(t, p) \subseteq 0 .. Len(t) + 1
         /\ \A m \in Lengths(t, p) :
              \/ m = 0
              \/ \E i \in 1 .. 41 : Reads(t, p, Symbols[i]) /\ m = Len(Symbols[i])
              \/ m \in 1 .. Len(t) + 1 - p /\ Word(t, p, m)
         /\ \A i \in 1 .. 41 : Reads(t, p, Symbols[i]) => Len(Symbols[i]) \in Lengths(t, p)
         /\ \A m \in 1 .. Len(t) + 1 - p :
              Word(t, p, m) => m \in Lengths(t, p)
PROOF
  <1>1. Len(t) \in Nat
    BY TextFacts
  <1>2. Lengths(t, p) \subseteq 0 .. Len(t) + 1
    BY <1>1 DEF Lengths
  <1>3. ASSUME NEW m \in 1 .. Len(t) + 1 - p
        PROVE  /\ Spells(Spelling(t, p, m), t, p, m)
               /\ ToSet(Spelling(t, p, m)) = {At(t, p + k - 1) : k \in 1 .. m}
    <2>1. Spells(Spelling(t, p, m), t, p, m) /\ m \in Nat
      <3>1. m \in 0 .. Len(t) + 1 - p /\ m \in Nat
        BY <1>1
      <3>. QED BY <3>1, SpellingFacts
    <2>2. ToSet(Spelling(t, p, m)) = {At(t, p + k - 1) : k \in 1 .. m}
      BY <2>1, SpellsSet, Zenon
    <2>. QED BY <2>1, <2>2
  <1>4. ASSUME NEW m \in Lengths(t, p)
        PROVE  \/ m = 0
               \/ \E i \in 1 .. 41 : Reads(t, p, Symbols[i]) /\ m = Len(Symbols[i])
               \/ m \in 1 .. Len(t) + 1 - p /\ Word(t, p, m)
    <2>1. CASE m = 0
      BY <2>1
    <2>2. CASE m \in 1 .. Len(t) + 1 - p /\ Spelling(t, p, m) \in ToSet(Symbols)
      <3>1. PICK i \in 1 .. 41 : Spelling(t, p, m) = Symbols[i]
        BY <2>2, SymbolSet
      <3>2. Spells(Symbols[i], t, p, m)
        BY <1>3, <2>2, <3>1
      <3>3. Reads(t, p, Symbols[i]) /\ m = Len(Symbols[i])
        BY <3>2 DEF Spells, Reads
      <3>. QED BY <3>3
    <2>3. CASE m \in 1 .. Len(t) + 1 - p /\ ToSet(Spelling(t, p, m)) \subseteq IDENTIFIER_TAIL
      <3>1. {At(t, p + k - 1) : k \in 1 .. m} \subseteq IDENTIFIER_TAIL
        BY <1>3, <2>3
      <3>2. \A k \in 1 .. m : At(t, p + k - 1) \in IDENTIFIER_TAIL
        BY <3>1
      <3>. QED BY <2>3, <3>2 DEF Word
    <2>. QED BY <2>1, <2>2, <2>3 DEF Lengths
  <1>5. ASSUME NEW i \in 1 .. 41, Reads(t, p, Symbols[i])
        PROVE  Len(Symbols[i]) \in Lengths(t, p)
    <2>1. Symbols[i] \in Seq(SymbolChars) /\ Len(Symbols[i]) \in 1 .. 3 /\ "NUL" \notin SymbolChars
      BY SymbolFacts, Unlike
    <2>2. Len(Symbols[i]) \in 0 .. Len(t) + 1 - p /\ Spelling(t, p, Len(Symbols[i])) = Symbols[i]
      BY <1>5, <2>1, ReadsFacts
    <2>3. Len(Symbols[i]) \in 1 .. Len(t) + 1 - p
      <3>1. PICK n : n = Len(Symbols[i])
        OBVIOUS
      <3>2. n \in 1 .. 3 /\ n \in 0 .. Len(t) + 1 - p
        BY <2>1, <2>2, <3>1
      <3>3. n \in 1 .. Len(t) + 1 - p
        BY <1>1, <3>2
      <3>. QED BY <3>1, <3>3
    <2>4. Symbols[i] \in ToSet(Symbols)
      BY SymbolSet
    <2>. QED BY <2>2, <2>3, <2>4 DEF Lengths
  <1>6. ASSUME NEW m \in 1 .. Len(t) + 1 - p, Word(t, p, m)
        PROVE  m \in Lengths(t, p)
    <2>1. ToSet(Spelling(t, p, m)) \subseteq IDENTIFIER_TAIL
      BY <1>3, <1>6 DEF Word
    <2>. QED BY <2>1 DEF Lengths
  <1>. QED BY <1>2, <1>4, <1>5, <1>6

\* The first symbol that is found is the longest.
LEMMA SymbolLexeme ==
  ASSUME NEW t, IsText(t), NEW p \in 1 .. Len(t) + 1, NEW i \in 1 .. 41,
         Reads(t, p, Symbols[i]), \A j \in 1 .. 41 : Reads(t, p, Symbols[j]) => i <= j
  PROVE  /\ LexemeLength(t, p) = Len(Symbols[i])
         /\ Lexeme(t, p) = Symbols[i]
PROOF
  <1>1. /\ Len(t) \in Nat /\ \A j \in 1 .. 41 : Len(Symbols[j]) \in 1 .. 3
        /\ Symbols[i] \in Seq(SymbolChars) /\ "NUL" \notin SymbolChars
    BY TextFacts, SymbolFacts, Unlike
  <1>. p \in Nat
    BY <1>1
  <1>2. \A j \in 1 .. 41 : Reads(t, p, Symbols[j]) => At(t, p) = Symbols[j][1]
    BY SymbolHead
  <1>3. At(t, p) \notin IDENTIFIER_TAIL
    BY SymbolHead
  <1>4. ASSUME NEW m \in Lengths(t, p) PROVE m <= Len(Symbols[i])
    <2>1. CASE m = 0
      BY <1>1, <2>1
    <2>2. ASSUME NEW j \in 1 .. 41, Reads(t, p, Symbols[j]), m = Len(Symbols[j])
          PROVE  m <= Len(Symbols[i])
      <3>1. i <= j /\ Symbols[i][1] = Symbols[j][1]
        <4>1. i <= j
          BY <2>2, Zenon
        <4>2. Symbols[i][1] = Symbols[j][1]
          <5>1. At(t, p) = Symbols[i][1]
            BY <1>2
          <5>2. At(t, p) = Symbols[j][1]
            BY <1>2, <2>2
          <5>. QED BY <5>1, <5>2
        <4>. QED BY <4>1, <4>2
      <3>2. ~(i < j /\ Len(Symbols[i]) < Len(Symbols[j]))
        BY <3>1, SymbolFacts
      <3>3. PICK n, l : n = Len(Symbols[i]) /\ l = Len(Symbols[j])
        OBVIOUS
      <3>4. n \in 1 .. 3 /\ l \in 1 .. 3
        BY <1>1, <3>3
      <3>5. i = j => n = l
        BY <3>3
      <3>6. l <= n
        BY <3>1, <3>2, <3>3, <3>4, <3>5
      <3>. QED BY <2>2, <3>3, <3>6
    <2>3. CASE m \in 1 .. Len(t) + 1 - p /\ Word(t, p, m)
      <3>1. m \in Nat \ {0}
        BY <1>1, <2>3
      <3>2. At(t, p) \in IDENTIFIER_TAIL
        BY <2>3, <3>1, WordHead
      <3>. QED BY <1>3, <3>2
    <2>. QED BY <2>1, <2>2, <2>3, LengthsFacts
  <1>5. Len(Symbols[i]) \in Lengths(t, p) /\ Lengths(t, p) \subseteq 0 .. Len(t) + 1
    BY LengthsFacts
  <1>6. GreatestOf(Lengths(t, p)) = Len(Symbols[i])
    <2>1. Len(t) + 1 \in Nat
      BY <1>1
    <2>. QED BY <1>4, <1>5, <2>1, GreatestIs
  <1>7. LexemeLength(t, p) = Len(Symbols[i])
    BY <1>6 DEF LexemeLength, Lengths
  <1>8. Spelling(t, p, Len(Symbols[i])) = Symbols[i]
    BY <1>1, ReadsFacts
  <1>. QED BY <1>7, <1>8 DEF Lexeme

\* A word is read to its end.
LEMMA WordLexeme ==
  ASSUME NEW t, IsText(t), NEW p \in 1 .. Len(t) + 1, At(t, p) \in IDENTIFIER_TAIL,
         NEW e, e = RunEnd(t, p, IDENTIFIER_TAIL)
  PROVE  /\ e \in p + 1 .. Len(t) + 1
         /\ LexemeLength(t, p) = e - p
         /\ Spells(Lexeme(t, p), t, p, e - p)
         /\ Lexeme(t, p) \notin ToSet(Symbols)
PROOF
  <1>1. /\ Len(t) \in Nat /\ "NUL" \notin IDENTIFIER_TAIL
        /\ \A j \in 1 .. 41 : Len(Symbols[j]) \in 1 .. 3 /\ Symbols[j] \in Seq(SymbolChars)
    BY TextFacts, SymbolFacts, Unlike
  <1>2. /\ e \in p .. Len(t) + 1 /\ At(t, e) \notin IDENTIFIER_TAIL
        /\ \A q \in p .. e - 1 : At(t, q) \in IDENTIFIER_TAIL
    BY <1>1, RunFacts
  <1>. p \in Nat
    BY <1>1
  <1>12. e # p /\ e \in Nat
    <2>1. e # p
      BY <1>2
    <2>. QED BY <1>1, <1>2, <2>1
  <1>3. e \in p + 1 .. Len(t) + 1 /\ e - p \in 1 .. Len(t) + 1 - p /\ e - p \in 0 .. Len(t) + 1 - p
    <2>1. e \in p .. Len(t) + 1
      BY <1>2
    <2>2. \A N, a, b \in Nat : /\ b \in a .. N + 1
                               /\ b # a
                               => /\ b \in a + 1 .. N + 1
                                  /\ b - a \in 1 .. N + 1 - a
                                  /\ b - a \in 0 .. N + 1 - a
      OBVIOUS
    <2>. QED BY <1>1, <1>12, <2>1, <2>2, Zenon
  <1>4. Word(t, p, e - p)
    <2>1. ASSUME NEW k \in 1 .. e - p PROVE At(t, p + k - 1) \in IDENTIFIER_TAIL
      <3>1. p + k - 1 \in p .. e - 1
        BY <1>1, <1>3
      <3>. QED BY <1>2, <3>1
    <2>. QED BY <2>1 DEF Word
  <1>5. \A j \in 1 .. 41 : ~Reads(t, p, Symbols[j])
    BY SymbolHead
  <1>6. e - p \in Lengths(t, p) /\ Lengths(t, p) \subseteq 0 .. Len(t) + 1
    BY <1>3, <1>4, LengthsFacts
  <1>7. ASSUME NEW m \in Lengths(t, p) PROVE m <= e - p
    <2>1. CASE m = 0
      BY <1>1, <1>3, <2>1
    <2>2. CASE m \in 1 .. Len(t) + 1 - p /\ Word(t, p, m)
      <3>1. SUFFICES ASSUME ~(m <= e - p) PROVE FALSE
        OBVIOUS
      <3>2. e - p + 1 \in 1 .. m
        <4>1. m \in Nat /\ e - p \in Nat
          BY <1>1, <1>3, <2>2
        <4>. QED BY <3>1, <4>1
      <3>3. At(t, p + (e - p + 1) - 1) \in IDENTIFIER_TAIL
        BY <2>2, <3>2, Zenon DEF Word
      <3>4. p + (e - p + 1) - 1 = e
        BY <1>1, <1>3
      <3>. QED BY <1>2, <3>3, <3>4
    <2>. QED BY <1>5, <2>1, <2>2, LengthsFacts
  <1>8. GreatestOf(Lengths(t, p)) = e - p
    <2>1. Len(t) + 1 \in Nat
      BY <1>1
    <2>. QED BY <1>6, <1>7, <2>1, GreatestIs
  <1>9. LexemeLength(t, p) = e - p
    BY <1>8 DEF LexemeLength, Lengths
  <1>10. Spells(Lexeme(t, p), t, p, e - p)
    BY <1>3, <1>9, SpellingFacts DEF Lexeme
  <1>11. Lexeme(t, p) \notin ToSet(Symbols)
    <2>1. SUFFICES ASSUME NEW j \in 1 .. 41, Lexeme(t, p) = Symbols[j] PROVE FALSE
      BY SymbolSet
    <2>2. Spells(Symbols[j], t, p, e - p)
      BY <1>10, <2>1
    <2>3. Reads(t, p, Symbols[j])
      BY <2>2 DEF Spells, Reads
    <2>. QED BY <1>5, <2>3
  <1>. QED BY <1>3, <1>9, <1>10, <1>11

\* There is no lexeme where neither a symbol nor a word is.
LEMMA NoLexeme ==
  ASSUME NEW t, IsText(t), NEW p \in 1 .. Len(t) + 1, At(t, p) \notin IDENTIFIER_TAIL,
         \A j \in 1 .. 41 : ~Reads(t, p, Symbols[j])
  PROVE  LexemeLength(t, p) = 0 /\ ~IsToken(Lexeme(t, p))
PROOF
  <1>1. Len(t) \in Nat
    BY TextFacts
  <1>. p \in Nat
    BY <1>1
  <1>2. ASSUME NEW m \in Lengths(t, p) PROVE m <= 0
    <2>1. CASE m = 0
      BY <2>1
    <2>2. CASE m \in 1 .. Len(t) + 1 - p /\ Word(t, p, m)
      <3>1. m \in Nat \ {0}
        BY <1>1, <2>2
      <3>2. At(t, p) \in IDENTIFIER_TAIL
        BY <2>2, <3>1, WordHead
      <3>. QED BY <3>2
    <2>. QED BY <2>1, <2>2, LengthsFacts
  <1>3. 0 \in Lengths(t, p) /\ Lengths(t, p) \subseteq 0 .. Len(t) + 1
    BY LengthsFacts DEF Lengths
  <1>4. GreatestOf(Lengths(t, p)) = 0
    <2>1. Len(t) + 1 \in Nat
      BY <1>1
    <2>. QED BY <1>2, <1>3, <2>1, GreatestIs
  <1>5. LexemeLength(t, p) = 0
    BY <1>4 DEF LexemeLength, Lengths
  <1>6. Spells(Lexeme(t, p), t, p, 0)
    <2>1. 0 \in 0 .. Len(t) + 1 - p
      BY <1>1
    <2>. QED BY <1>5, <2>1, SpellingFacts DEF Lexeme
  <1>7. Lexeme(t, p) = <<>>
    BY <1>6 DEF Spells
  <1>. QED BY <1>5, <1>7, NoEmptySymbol DEF IsToken

-----------------------------------------------------------------------------
\* There is one place where a run ends.
LEMMA RunIs ==
  ASSUME NEW t, IsText(t), NEW p \in 1 .. Len(t) + 1, NEW chars, "NUL" \notin chars,
         NEW e \in p .. Len(t) + 1, At(t, e) \notin chars, \A q \in p .. e - 1 : At(t, q) \in chars
  PROVE  RunEnd(t, p, chars) = e
PROOF
  <1>1. PICK d : d = RunEnd(t, p, chars)
    OBVIOUS
  <1>2. /\ d \in p .. Len(t) + 1 /\ At(t, d) \notin chars
        /\ \A q \in p .. d - 1 : At(t, q) \in chars
    BY <1>1, RunFacts
  <1>3. Len(t) \in Nat
    BY TextFacts
  <1>4. ~(d < e) /\ ~(e < d)
    <2>1. ASSUME d < e PROVE FALSE
      <3>1. d \in p .. e - 1
        BY <1>2, <1>3, <2>1
      <3>. QED BY <1>2, <3>1
    <2>2. ASSUME e < d PROVE FALSE
      <3>1. e \in p .. d - 1
        BY <1>2, <1>3, <2>2
      <3>. QED BY <1>2, <3>1
    <2>. QED BY <2>1, <2>2
  <1>. QED BY <1>1, <1>2, <1>3, <1>4

\* The keywords.
LEMMA KeywordSet == ToSet(Keywords) = {Keywords[i] : i \in DOMAIN Keywords}
  BY DEF ToSet

\* A keyword that no identifier character follows is a lexeme.
LEMMA KeywordLexeme ==
  ASSUME NEW t, IsText(t), NEW p \in 1 .. Len(t) + 1, NEW i \in DOMAIN Keywords,
         Reads(t, p, Keywords[i]), At(t, p + Len(Keywords[i])) \notin IDENTIFIER_TAIL
  PROVE  /\ LexemeLength(t, p) = Len(Keywords[i])
         /\ Lexeme(t, p) = Keywords[i]
         /\ Lexeme(t, p)[1] \in IDENTIFIER_HEAD /\ Lexeme(t, p) # <<>>
         /\ At(t, p) \in IDENTIFIER_HEAD
PROOF
  <1>1. PICK s : s = Keywords[i]
    OBVIOUS
  <1>2. s \in Seq(IDENTIFIER_TAIL) /\ Len(s) \in Nat \ {0} /\ s[1] \in IDENTIFIER_HEAD
    BY <1>1, KeywordFacts
  <1>3. Reads(t, p, s) /\ At(t, p + Len(s)) \notin IDENTIFIER_TAIL
    BY <1>1
  <1>4. Len(t) \in Nat /\ "NUL" \notin IDENTIFIER_TAIL
    BY TextFacts, Unlike
  <1>. p \in Nat
    BY <1>4
  <1>5. Len(s) \in 0 .. Len(t) + 1 - p /\ Spelling(t, p, Len(s)) = s
    BY <1>2, <1>3, <1>4, ReadsFacts
  <1>6. PICK n : n = Len(s)
    OBVIOUS
  <1>7. n \in 0 .. Len(t) + 1 - p /\ n \in Nat \ {0}
    BY <1>2, <1>5, <1>6
  <1>8. p + n \in p .. Len(t) + 1
    BY <1>4, <1>7
  <1>9. \A k \in 1 .. n : At(t, p + k - 1) \in IDENTIFIER_TAIL
    <2>1. \A k \in 1 .. n : s[k] \in IDENTIFIER_TAIL
      BY <1>2, <1>6
    <2>. QED BY <1>3, <1>6, <2>1 DEF Reads
  <1>10. \A q \in p .. p + n - 1 : At(t, q) \in IDENTIFIER_TAIL
    <2>1. TAKE q \in p .. p + n - 1
    <2>2. q - p + 1 \in 1 .. n /\ p + (q - p + 1) - 1 = q
      BY <1>7
    <2>. QED BY <1>9, <2>2
  <1>11. RunEnd(t, p, IDENTIFIER_TAIL) = p + n
    BY <1>3, <1>4, <1>6, <1>8, <1>10, RunIs
  <1>12. At(t, p) = s[1]
    BY <1>2, <1>3, ReadsHead
  <1>13. At(t, p) \in IDENTIFIER_TAIL
    BY <1>2, <1>12, TailIs
  <1>14. LexemeLength(t, p) = n
    <2>1. PICK e : e = RunEnd(t, p, IDENTIFIER_TAIL)
      OBVIOUS
    <2>2. LexemeLength(t, p) = e - p
      BY <1>13, <2>1, WordLexeme
    <2>3. e = p + n
      BY <1>11, <2>1
    <2>4. (p + n) - p = n
      BY <1>7
    <2>. QED BY <2>2, <2>3, <2>4
  <1>16. Lexeme(t, p) = s
    BY <1>5, <1>6, <1>14 DEF Lexeme
  <1>17. s # <<>>
    <2>1. Len(<<>>) = 0
      OBVIOUS
    <2>. QED BY <1>2, <2>1
  <1>. QED BY <1>1, <1>2, <1>6, <1>12, <1>14, <1>16, <1>17

\* The word at p.
LEMMA WordFacts ==
  ASSUME NEW t, IsText(t), NEW p \in 1 .. Len(t) + 1, At(t, p) \in IDENTIFIER_TAIL,
         NEW e, e = RunEnd(t, p, IDENTIFIER_TAIL), NEW s, s = Lexeme(t, p)
  PROVE  /\ s = SubSeq(t, p, e - 1)
         /\ Len(s) = e - p /\ e - p \in Nat \ {0} /\ s # <<>> /\ s \in Seq(STRING)
         /\ \A k \in 1 .. e - p : s[k] = At(t, p + k - 1)
         /\ s[1] = At(t, p)
         /\ \A i \in DOMAIN Keywords :
              s = Keywords[i] => /\ Reads(t, p, Keywords[i])
                                 /\ At(t, p + Len(Keywords[i])) \notin IDENTIFIER_TAIL
PROOF
  <1>1. Len(t) \in Nat /\ "NUL" \notin IDENTIFIER_TAIL
    BY TextFacts, Unlike
  <1>. p \in Nat
    BY <1>1
  <1>2. /\ e \in p + 1 .. Len(t) + 1
        /\ LexemeLength(t, p) = e - p
        /\ Spells(Lexeme(t, p), t, p, e - p)
    BY WordLexeme
  <1>3. At(t, e) \notin IDENTIFIER_TAIL
    BY <1>1, RunFacts
  <1>4. e \in Nat /\ e - p \in Nat \ {0} /\ p + (e - p) = e /\ p + (e - p) - 1 = e - 1
    <2>1. \A a, b \in Nat : b > a => b - a \in Nat \ {0} /\ a + (b - a) = b /\ a + (b - a) - 1 = b - 1
      OBVIOUS
    <2>2. e \in Nat /\ e > p
      <3>1. \A N, a \in Nat : \A b \in a + 1 .. N + 1 : b \in Nat /\ b > a
        OBVIOUS
      <3>. QED BY <1>1, <1>2, <3>1, Zenon
    <2>. QED BY <2>1, <2>2, Zenon
  <1>5. s = SubSeq(t, p, e - 1)
    BY <1>2, <1>4 DEF Lexeme, Spelling
  <1>6. Len(s) = e - p /\ s \in Seq(STRING) /\ \A k \in 1 .. e - p : s[k] = At(t, p + k - 1)
    BY <1>2 DEF Spells
  <1>7. Reads(t, p, s)
    BY <1>6 DEF Reads
  <1>8. s[1] = At(t, p)
    BY <1>4, <1>6, <1>7, ReadsHead
  <1>9. s # <<>>
    <2>1. Len(<<>>) = 0
      OBVIOUS
    <2>. QED BY <1>4, <1>6, <2>1
  <1>10. At(t, p + Len(s)) \notin IDENTIFIER_TAIL
    BY <1>3, <1>4, <1>6
  <1>. QED BY <1>4, <1>5, <1>6, <1>7, <1>8, <1>9, <1>10

\* Digits that no identifier character follows are a lexeme.
LEMMA IntegerLexeme ==
  ASSUME NEW t, IsText(t), NEW p \in 1 .. Len(t) + 1, At(t, p) \in NUM,
         NEW e, e = RunEnd(t, p, NUM), At(t, e) \notin IDENTIFIER_TAIL
  PROVE  /\ e = RunEnd(t, p, IDENTIFIER_TAIL)
         /\ ToSet(Lexeme(t, p)) \subseteq NUM
PROOF
  <1>1. Len(t) \in Nat /\ "NUL" \notin IDENTIFIER_TAIL /\ NUM \subseteq IDENTIFIER_TAIL
    BY TextFacts, Unlike, TailIs
  <1>2. "NUL" \notin NUM
    BY <1>1
  <1>3. e \in p .. Len(t) + 1 /\ \A q \in p .. e - 1 : At(t, q) \in NUM
    BY <1>2, RunFacts
  <1>4. \A q \in p .. e - 1 : At(t, q) \in IDENTIFIER_TAIL
    BY <1>1, <1>3
  <1>5. e = RunEnd(t, p, IDENTIFIER_TAIL)
    BY <1>1, <1>3, <1>4, RunIs
  <1>6. Spells(Lexeme(t, p), t, p, e - p) /\ e \in p + 1 .. Len(t) + 1
    BY <1>1, <1>5, WordLexeme
  <1>7. e - p \in Nat
    BY <1>1, <1>6
  <1>8. ToSet(Lexeme(t, p)) = {At(t, p + k - 1) : k \in 1 .. e - p}
    BY <1>6, <1>7, SpellsSet
  <1>9. \A k \in 1 .. e - p : At(t, p + k - 1) \in NUM
    <2>1. TAKE k \in 1 .. e - p
    <2>2. p + k - 1 \in p .. e - 1
      BY <1>1, <1>6
    <2>. QED BY <1>3, <2>2
  <1>. QED BY <1>5, <1>8, <1>9

\* What Unknown meets is the start of no token.
LEMMA UnknownLexeme ==
  ASSUME NEW t, IsText(t), NEW p \in 1 .. Len(t) + 1,
         \A j \in 1 .. 41 : ~Reads(t, p, Symbols[j]),
         At(t, p) \notin IDENTIFIER_HEAD,
         ~(At(t, p) \in NUM /\ At(t, RunEnd(t, p, NUM)) \notin IDENTIFIER_TAIL)
  PROVE  ~IsToken(Lexeme(t, p))
PROOF
  <1>1. Len(t) \in Nat /\ "NUL" \notin IDENTIFIER_TAIL /\ NUM \subseteq IDENTIFIER_TAIL
    BY TextFacts, Unlike, TailIs
  <1>2. CASE At(t, p) \notin IDENTIFIER_TAIL
    BY <1>2, NoLexeme
  <1>3. CASE At(t, p) \in IDENTIFIER_TAIL
    <2>1. At(t, p) \in NUM
      BY <1>3, TailIs
    <2>2. PICK d : d = RunEnd(t, p, NUM)
      OBVIOUS
    <2>3. At(t, d) \in IDENTIFIER_TAIL
      BY <2>1, <2>2
    <2>4. d \in p .. Len(t) + 1 /\ At(t, d) \notin NUM
      BY <1>1, <2>2, RunFacts
    <2>5. PICK e : e = RunEnd(t, p, IDENTIFIER_TAIL)
      OBVIOUS
    <2>6. /\ e \in p + 1 .. Len(t) + 1
          /\ Spells(Lexeme(t, p), t, p, e - p)
          /\ Lexeme(t, p) \notin ToSet(Symbols)
      BY <1>3, <2>5, WordLexeme
    <2>7. /\ e \in p .. Len(t) + 1 /\ At(t, e) \notin IDENTIFIER_TAIL
          /\ \A q \in p .. e - 1 : At(t, q) \in IDENTIFIER_TAIL
      BY <1>1, <2>5, RunFacts
    <2>8. \A q \in p .. d - 1 : At(t, q) \in NUM
      BY <1>1, <2>2, RunFacts
    <2>9. ~(e <= d)
      <3>1. CASE e = d
        BY <2>3, <2>7, <3>1
      <3>2. CASE e < d
        <4>1. e \in p .. d - 1
          BY <1>1, <2>4, <2>7, <3>2
        <4>. QED BY <1>1, <2>7, <2>8, <4>1
      <3>. QED BY <1>1, <2>4, <2>6, <3>1, <3>2
    <2>10. d - p + 1 \in 1 .. e - p /\ p + (d - p + 1) - 1 = d /\ e - p \in Nat
      BY <1>1, <2>4, <2>6, <2>9
    <2>11. At(t, d) \in {At(t, p + k - 1) : k \in 1 .. e - p}
      BY <2>10
    <2>12. ToSet(Lexeme(t, p)) = {At(t, p + k - 1) : k \in 1 .. e - p}
      BY <2>6, <2>10, SpellsSet
    <2>13. ~(ToSet(Lexeme(t, p)) \subseteq NUM)
      BY <2>4, <2>11, <2>12
    <2>14. Lexeme(t, p)[1] = At(t, p)
      BY <1>3, <2>5, WordFacts, ZenonT(60)
    <2>. QED BY <2>6, <2>13, <2>14 DEF IsToken
  <1>. QED BY <1>2, <1>3

-----------------------------------------------------------------------------
\* A lexeme ends in the text, and one that is a token is not empty.
LEMMA LexemeBounds ==
  ASSUME NEW t, IsText(t), NEW p \in 1 .. Len(t) + 1
  PROVE  /\ LexemeLength(t, p) \in 0 .. Len(t) + 1 - p
         /\ IsToken(Lexeme(t, p)) => LexemeLength(t, p) \in 1 .. Len(t) + 1 - p
PROOF
  <1>1. Len(t) \in Nat /\ Len(t) + 1 \in Nat
    BY TextFacts
  <1>2. Lengths(t, p) \subseteq 0 .. Len(t) + 1 - p /\ 0 \in Lengths(t, p)
    BY <1>1 DEF Lengths
  <1>3. Lengths(t, p) \subseteq 0 .. Len(t) + 1
    BY LengthsFacts
  <1>4. PICK n : n = LexemeLength(t, p)
    OBVIOUS
  <1>5. n = GreatestOf(Lengths(t, p))
    BY <1>4 DEF LexemeLength, Lengths
  <1>6. GreatestOf(Lengths(t, p)) \in Lengths(t, p)
    <2>1. Lengths(t, p) # {}
      BY <1>2
    <2>. QED BY <1>1, <1>3, <2>1, GreatestFacts, Zenon
  <1>7. n \in 0 .. Len(t) + 1 - p
    BY <1>2, <1>5, <1>6
  <1>8. ASSUME IsToken(Lexeme(t, p)), n = 0 PROVE FALSE
    <2>1. Spells(Lexeme(t, p), t, p, 0)
      BY <1>4, <1>7, <1>8, SpellingFacts DEF Lexeme
    <2>2. Lexeme(t, p) = <<>>
      BY <2>1 DEF Spells
    <2>. QED BY <1>8, <2>2, NoEmptySymbol DEF IsToken
  <1>9. n # 0 => n \in 1 .. Len(t) + 1 - p
    BY <1>1, <1>7
  <1>. QED BY <1>4, <1>7, <1>8, <1>9

\* Behind the lexeme at p.
After(t, p) == p + LexemeLength(t, p)

\* A token takes reading forward.
LEMMA AfterFacts ==
  ASSUME NEW t, IsText(t), NEW p \in 1 .. Len(t) + 1, ~Ends(t, p)
  PROVE  After(t, p) \in 1 .. Len(t) + 1 /\ After(t, p) > p
PROOF
  <1>1. Len(t) \in Nat
    BY TextFacts
  <1>2. PICK n : n = LexemeLength(t, p)
    OBVIOUS
  <1>3. n \in 1 .. Len(t) + 1 - p
    BY <1>2, LexemeBounds DEF Ends
  <1>4. p + n \in 1 .. Len(t) + 1 /\ p + n > p
    BY <1>1, <1>3
  <1>. QED BY <1>2, <1>4 DEF After

\* Places, unfolded.
PlacesFrom(t, p, places) ==
  IF Ends(t, Code(t)[p]) THEN <<Code(t)[p]>>
  ELSE <<Code(t)[p]>> \o places[After(t, Code(t)[p])]

\* Places exists, and its values are sequences of positions.
LEMMA PlacesUnfold ==
  ASSUME NEW t, IsText(t), NEW N, N = Len(t) + 1
  PROVE  \A p \in 1 .. N : /\ Places(t)[p] = PlacesFrom(t, p, Places(t))
                           /\ Places(t)[p] \in Seq(1 .. N)
PROOF
  <1>1. N \in Nat
    BY TextFacts
  <1> DEFINE c == Code(t)
  <1>2. \A p \in 1 .. N : c[p] \in 1 .. N /\ c[p] >= p
    BY <1>1, CodeFacts
  <1>3. \A p \in 1 .. N : ~Ends(t, c[p]) => After(t, c[p]) \in 1 .. N /\ After(t, c[p]) > p
    <2>1. SUFFICES ASSUME NEW p \in 1 .. N, ~Ends(t, c[p])
                   PROVE  After(t, c[p]) \in 1 .. N /\ After(t, c[p]) > p
      OBVIOUS
    <2>2. c[p] \in 1 .. Len(t) + 1 /\ c[p] >= p
      BY <1>2
    <2>3. After(t, c[p]) \in 1 .. N /\ After(t, c[p]) > c[p]
      BY <2>1, <2>2, AfterFacts
    <2>. QED BY <1>1, <2>2, <2>3
  <1> HIDE DEF c
  <1> DEFINE Unfolded(f) ==
               f = [p \in 1 .. N |-> IF Ends(t, c[p]) THEN <<c[p]>> ELSE <<c[p]>> \o f[After(t, c[p])]]
             S == Seq(1 .. N)
             next == [p \in 1 .. N |-> IF Ends(t, c[p]) THEN 0 ELSE After(t, c[p])]
             base == [p \in 1 .. N |-> <<c[p]>>]
             step == [x \in (1 .. N) \X S |-> <<c[x[1]]>> \o x[2]]
  <1>4. next \in [1 .. N -> Nat] /\ \A p \in 1 .. N : next[p] # 0 => next[p] > p /\ next[p] <= N
    BY <1>3
  <1>5. base \in [1 .. N -> S]
    BY <1>2
  <1>6. step \in [(1 .. N) \X S -> S]
    <2>1. \A p \in 1 .. N : \A s \in S : <<c[p]>> \o s \in S
      BY <1>2
    <2> HIDE DEF S
    <2>. QED BY <2>1
  <1>7. \A p \in 1 .. N : \A s \in S : step[<<p, s>>] = <<c[p]>> \o s
    <2> HIDE DEF S
    <2>. QED OBVIOUS
  <1>8. \A p \in 1 .. N : base[p] = <<c[p]>> /\ next[p] = IF Ends(t, c[p]) THEN 0 ELSE After(t, c[p])
    OBVIOUS
  <1> HIDE DEF next, base, step, S
  <1>9. Ahead(N, next)
    BY <1>4 DEF Ahead
  <1>10. \E f \in [1 .. N -> S] : Solves(f, N, next, base, step)
    BY <1>1, <1>4, <1>5, <1>6, <1>9, Recursion, Zenon
  <1>11. PICK f \in [1 .. N -> S] : Solves(f, N, next, base, step)
    BY <1>10
  <1>12. \A p \in 1 .. N : f[p] = IF Ends(t, c[p]) THEN <<c[p]>> ELSE <<c[p]>> \o f[After(t, c[p])]
    <2>1. TAKE p \in 1 .. N
    <2>2. f[p] = IF next[p] = 0 THEN base[p] ELSE step[<<p, f[next[p]]>>]
      BY <1>11 DEF Solves
    <2>3. CASE Ends(t, c[p])
      BY <1>8, <2>2, <2>3
    <2>4. CASE ~Ends(t, c[p])
      <3>1. After(t, c[p]) \in 1 .. N /\ next[p] = After(t, c[p]) /\ next[p] # 0
        BY <1>3, <1>8, <2>4
      <3>2. f[After(t, c[p])] \in S
        BY <1>11, <3>1
      <3>3. f[p] = step[<<p, f[After(t, c[p])]>>]
        BY <2>2, <3>1
      <3>. QED BY <1>7, <2>4, <3>2, <3>3
    <2>. QED BY <2>3, <2>4
  <1>13. Unfolded(f)
    BY <1>11, <1>12
  <1>14. Places(t) = CHOOSE g : Unfolded(g)
    BY Zenon DEF Places, After, c
  <1>15. Unfolded(Places(t))
    <2> HIDE DEF Unfolded
    <2>. QED BY <1>13, <1>14, Zenon
  <1> DEFINE g == Places(t)
  <1>16. \A p \in 1 .. N : g[p] = IF Ends(t, c[p]) THEN <<c[p]>> ELSE <<c[p]>> \o g[After(t, c[p])]
    BY <1>15
  <1> HIDE DEF g
  <1> DEFINE G == {p \in 1 .. N : g[p] \in S}
  <1>17. ASSUME NEW p \in 1 .. N, \A q \in 1 .. N : q > p => q \in G PROVE p \in G
    <2>1. CASE Ends(t, c[p])
      <3>1. g[p] = base[p]
        BY <1>8, <1>16, <2>1
      <3>. QED BY <1>5, <3>1
    <2>2. CASE ~Ends(t, c[p])
      <3>1. After(t, c[p]) \in G
        BY <1>3, <1>17, <2>2
      <3>2. g[p] = step[<<p, g[After(t, c[p])]>>]
        BY <1>7, <1>16, <2>2, <3>1
      <3>3. step[<<p, g[After(t, c[p])]>>] \in S
        BY <1>6, <3>1
      <3>. QED BY <3>2, <3>3
    <2>. QED BY <2>1, <2>2
  <1>18. \A p \in 1 .. N : p \in G
    <2> HIDE DEF G
    <2>. QED BY <1>1, <1>17, Downwards
  <1>. QED BY <1>16, <1>18 DEF c, g, S, PlacesFrom

\* Places are positions.
LEMMA PlacesType ==
  ASSUME NEW t, IsText(t), NEW p \in 1 .. Len(t) + 1
  PROVE  Places(t)[p] \in Seq(1 .. Len(t) + 1)
  BY PlacesUnfold

\* The places from p on are those from where the code goes on.
LEMMA PlacesSame ==
  ASSUME NEW t, IsText(t), NEW a \in 1 .. Len(t) + 1, NEW b \in 1 .. Len(t) + 1,
         Code(t)[a] = Code(t)[b]
  PROVE  Places(t)[a] = Places(t)[b]
  BY PlacesUnfold DEF PlacesFrom

\* Where the code does not end, a token is followed by the places behind it.
LEMMA PlacesToken ==
  ASSUME NEW t, IsText(t), NEW p \in 1 .. Len(t) + 1, Skip(t, p) = p, ~Ends(t, p)
  PROVE  Places(t)[p] = <<p>> \o Places(t)[After(t, p)]
PROOF
  <1>1. Code(t)[p] = p
    BY CodeFacts
  <1>2. Places(t)[p] = PlacesFrom(t, p, Places(t))
    BY PlacesUnfold
  <1>. QED BY <1>1, <1>2 DEF PlacesFrom

\* Where the code ends there is one place.
LEMMA PlacesEnd ==
  ASSUME NEW t, IsText(t), NEW p \in 1 .. Len(t) + 1, Skip(t, p) = p, Ends(t, p)
  PROVE  Places(t)[p] = <<p>>
PROOF
  <1>1. Code(t)[p] = p
    BY CodeFacts
  <1>2. Places(t)[p] = PlacesFrom(t, p, Places(t))
    BY PlacesUnfold
  <1>. QED BY <1>1, <1>2 DEF PlacesFrom

-----------------------------------------------------------------------------
\* The lines before p, and the start of its line.
LEMMA LinesFacts ==
  ASSUME NEW t, IsText(t), NEW p \in 1 .. Len(t) + 1
  PROVE  /\ IsFiniteSet(LinesBefore(t, p)) /\ Cardinality(LinesBefore(t, p)) \in Nat
         /\ LinesBefore(t, p) \subseteq 1 .. p - 1
         /\ LineStart(t, p) \in 1 .. p
         /\ \A q \in LineStart(t, p) .. p - 1 : At(t, q) \notin LineEnds
PROOF
  <1>1. Len(t) \in Nat
    BY TextFacts
  <1>2. LinesBefore(t, p) \subseteq 1 .. p - 1 /\ p - 1 \in Nat
    BY <1>1 DEF LinesBefore
  <1>3. IsFiniteSet(1 .. p - 1)
    BY <1>2, FS_Interval
  <1>4. IsFiniteSet(LinesBefore(t, p)) /\ Cardinality(LinesBefore(t, p)) \in Nat
    BY <1>2, <1>3, FS_Subset, FS_CardinalityType
  <1>5. PICK L : L = {0} \cup LinesBefore(t, p)
    OBVIOUS
  <1>6. L \subseteq 0 .. p - 1 /\ 0 \in L /\ L # {}
    BY <1>2, <1>5
  <1>7. PICK g : g = GreatestOf(L)
    OBVIOUS
  <1>8. g \in L /\ g \in Nat /\ \A y \in L : y <= g
    BY <1>2, <1>6, <1>7, GreatestFacts, Zenon
  <1>9. LineStart(t, p) = g + 1
    BY <1>5, <1>7 DEF LineStart
  <1>10. g \in 0 .. p - 1
    BY <1>6, <1>8
  <1>11. g + 1 \in 1 .. p
    BY <1>2, <1>10
  <1>12. \A q \in g + 1 .. p - 1 : At(t, q) \notin LineEnds
    <2>1. TAKE q \in g + 1 .. p - 1
    <2>2. q \in 1 .. p - 1 /\ q \in 1 .. Len(t) /\ ~(q <= g)
      BY <1>1, <1>2, <1>10
    <2>3. t[q] # "\n"
      BY <1>5, <1>8, <2>2 DEF LinesBefore
    <2>4. At(t, q) = t[q] /\ At(t, q) # "NUL"
      BY <2>2, TextFacts
    <2>. QED BY <2>3, <2>4 DEF LineEnds
  <1>. QED BY <1>2, <1>4, <1>9, <1>11, <1>12

\* No line starts in what is not the end of one.
LEMMA SameLine ==
  ASSUME NEW t, IsText(t), NEW p \in 1 .. Len(t) + 1, NEW b \in p .. Len(t) + 1,
         \A q \in p .. b - 1 : At(t, q) # "\n"
  PROVE  /\ LinesBefore(t, b) = LinesBefore(t, p)
         /\ LineStart(t, b) = LineStart(t, p)
PROOF
  <1>1. Len(t) \in Nat
    BY TextFacts
  <1>2. \A q \in 1 .. b - 1 : t[q] = "\n" => q \in 1 .. p - 1
    <2>1. SUFFICES ASSUME NEW q \in 1 .. b - 1, t[q] = "\n", q \notin 1 .. p - 1 PROVE FALSE
      OBVIOUS
    <2>2. q \in p .. b - 1 /\ q \in 1 .. Len(t)
      BY <1>1, <2>1
    <2>3. At(t, q) = t[q]
      BY <2>2, TextFacts
    <2>. QED BY <2>1, <2>2, <2>3
  <1>3. 1 .. p - 1 \subseteq 1 .. b - 1
    BY <1>1
  <1>4. LinesBefore(t, b) = LinesBefore(t, p)
    BY <1>2, <1>3 DEF LinesBefore
  <1>. QED BY <1>4 DEF LineStart

\* A line starts behind the end of one.
LEMMA NextLine ==
  ASSUME NEW t, IsText(t), NEW p \in 1 .. Len(t), At(t, p) = "\n"
  PROVE  /\ Cardinality(LinesBefore(t, p + 1)) = Cardinality(LinesBefore(t, p)) + 1
         /\ LineStart(t, p + 1) = p + 1
PROOF
  <1>1. Len(t) \in Nat
    BY TextFacts
  <1>. p \in 1 .. Len(t) + 1
    BY <1>1
  <1>2. t[p] = "\n"
    BY TextFacts
  <1>3. 1 .. p + 1 - 1 = (1 .. p - 1) \cup {p}
    BY <1>1
  <1>4. LinesBefore(t, p + 1) = LinesBefore(t, p) \cup {p}
    BY <1>2, <1>3 DEF LinesBefore
  <1>5. IsFiniteSet(LinesBefore(t, p)) /\ LinesBefore(t, p) \subseteq 1 .. p - 1
    BY LinesFacts
  <1>6. p \notin LinesBefore(t, p)
    BY <1>1, <1>5
  <1>7. Cardinality(LinesBefore(t, p + 1)) = Cardinality(LinesBefore(t, p)) + 1
    BY <1>4, <1>5, <1>6, FS_AddElement
  <1>8. GreatestOf({0} \cup LinesBefore(t, p + 1)) = p
    <2>1. PICK L : L = {0} \cup LinesBefore(t, p + 1)
      OBVIOUS
    <2>2. L \subseteq 0 .. p /\ p \in L /\ p \in Nat /\ \A y \in L : y <= p
      BY <1>1, <1>4, <1>5, <2>1
    <2>. QED BY <2>1, <2>2, GreatestIs
  <1>. QED BY <1>7, <1>8 DEF LineStart

\* The characters of lines that are shown.
Printed == STRING \cup {" "}

\* The characters that a text may have, and the blank that a tab is shown as.
LEMMA PrintedFacts ==
  /\ \A c \in STRING : c \in Printed
  /\ " " \in Printed
  /\ \A s \in Seq(STRING) : s \in Seq(Printed)
PROOF
  <1>1. \A c \in STRING : c \in Printed
    BY DEF Printed
  <1>2. " " \in Printed
    BY Zenon DEF Printed
  <1>3. \A s \in Seq(STRING) : s \in Seq(Printed)
    <2>1. TAKE s \in Seq(STRING)
    <2>2. s = [k \in 1 .. Len(s) |-> s[k]] /\ Len(s) \in Nat
      OBVIOUS
    <2>3. \A k \in 1 .. Len(s) : s[k] \in STRING
      OBVIOUS
    <2>4. \A k \in 1 .. Len(s) : s[k] \in Printed
      BY <1>1, <2>3
    <2>. QED BY <2>2, <2>4
  <1>. QED BY <1>1, <1>2, <1>3

\* line is what is shown of the line around p, when behind is what follows the copy.
LineShown(line, t, p, behind) ==
  LET start == LineStart(t, p)
      end == LineEnd(t, p)
  IN /\ Len(line) = end - start + (IF At(t, end) = "\n" THEN Len(behind) ELSE 0)
     /\ \A q \in start .. end - 1 :
          line[q - start + 1] = IF t[q] = "\t" THEN " " ELSE t[q]

\* What lex() shows of the line around p.
LEMMA ShownFacts ==
  ASSUME NEW t, IsText(t), NEW p \in 1 .. Len(t) + 1, NEW behind \in Seq(STRING),
         NEW line, line = ShownLine(t, LineStart(t, p), behind)
  PROVE  line \in Seq(Printed) /\ LineShown(line, t, p, behind)
PROOF
  <1>19. PICK start, end : start = LineStart(t, p) /\ end = LineEnd(t, p)
    OBVIOUS
  <1>1. Len(t) \in Nat /\ t \in Seq(STRING)
    BY TextFacts DEF IsText
  <1>2. start \in 1 .. p /\ \A q \in start .. p - 1 : At(t, q) \notin LineEnds
    BY <1>19, LinesFacts
  <1>3. /\ end \in p .. Len(t) + 1 /\ At(t, end) \in LineEnds
        /\ \A q \in p .. end - 1 : At(t, q) \notin LineEnds
    BY <1>19, LineEndFacts
  <1>4. end \in start .. Len(t) + 1 /\ start \in 1 .. Len(t) + 1
    BY <1>1, <1>2, <1>3
  <1>5. \A q \in start .. end - 1 : At(t, q) \notin LineEnds
    <2>1. TAKE q \in start .. end - 1
    <2>2. q \in start .. p - 1 \/ q \in p .. end - 1
      BY <1>1, <1>2, <1>3
    <2>. QED BY <1>2, <1>3, <2>2
  <1> DEFINE IsEnd(e) == /\ At(t, e) \in {"\n", "NUL"}
                         /\ \A q \in start .. e - 1 : At(t, q) \notin {"\n", "NUL"}
             e == CHOOSE e \in start .. Len(t) + 1 : IsEnd(e)
             Shown(d) == [i \in 1 .. d - start |->
                            IF t[start + i - 1] = "\t" THEN " " ELSE t[start + i - 1]]
             shown == Shown(end)
  <1>6. IsEnd(end)
    BY <1>3, <1>5 DEF LineEnds
  <1>7. e \in start .. Len(t) + 1 /\ IsEnd(e)
    <2> HIDE DEF IsEnd
    <2>. QED BY <1>4, <1>6
  <1>8. e = end
    <2> HIDE DEF e
    <2>1. At(t, e) \in LineEnds /\ \A q \in start .. e - 1 : At(t, q) \notin LineEnds
      BY <1>7 DEF LineEnds
    <2>2. LineEnd(t, start) = e
      BY <1>4, <1>7, <2>1, LineEndIs
    <2>3. LineEnd(t, start) = end
      BY <1>3, <1>4, <1>5, LineEndIs
    <2>. QED BY <2>2, <2>3
  <1>9. line = IF At(t, end) = "\n" THEN shown \o behind ELSE shown
    <2>1. line = IF At(t, e) = "\n" THEN Shown(e) \o behind ELSE Shown(e)
      <3>1. line = ShownLine(t, start, behind)
        BY <1>19
      <3>. QED BY <3>1, Zenon DEF ShownLine
    <2> HIDE DEF e, Shown
    <2>. QED BY <1>8, <2>1
  <1>10. end - start \in Nat
    BY <1>1, <1>4
  <1> DEFINE Blank(c) == IF c = "\t" THEN " " ELSE c
  <1>11. \A c \in STRING : Blank(c) \in Printed
    BY PrintedFacts, Zenon
  <1>18. behind \in Seq(Printed)
    BY PrintedFacts, Zenon
  <1>12. shown = [i \in 1 .. end - start |-> Blank(t[start + i - 1])]
    BY Zenon
  <1>13. shown \in Seq(Printed) /\ Len(shown) = end - start
    <2> HIDE DEF shown, Blank
    <2>1. \A i \in 1 .. end - start : start + i - 1 \in 1 .. Len(t)
      BY <1>1, <1>2, <1>3
    <2>2. \A i \in 1 .. end - start : t[start + i - 1] \in STRING
      BY <1>1, <2>1
    <2>3. \A i \in 1 .. end - start : Blank(t[start + i - 1]) \in Printed
      BY <1>11, <2>2, Zenon
    <2>4. PICK n : n = end - start
      OBVIOUS
    <2>5. n \in Nat /\ shown = [i \in 1 .. n |-> Blank(t[start + i - 1])]
      BY <1>10, <1>12, <2>4
    <2>6. [i \in 1 .. n |-> Blank(t[start + i - 1])] \in [1 .. n -> Printed]
      BY <2>3, <2>4
    <2>7. \A s \in [1 .. n -> Printed] : s \in Seq(Printed) /\ Len(s) = n
      BY <2>5
    <2>. QED BY <2>4, <2>5, <2>6, <2>7
  <1>14. \A q \in start .. end - 1 :
           /\ q - start + 1 \in 1 .. end - start
           /\ start + (q - start + 1) - 1 = q
    BY <1>1, <1>4
  <1>15. \A q \in start .. end - 1 :
           shown[q - start + 1] = IF t[q] = "\t" THEN " " ELSE t[q]
    BY <1>14, Zenon
  <1> HIDE DEF shown, Shown
  <1> DEFINE Goal == /\ line \in Seq(Printed)
                     /\ Len(line) = end - start + (IF At(t, end) = "\n" THEN Len(behind) ELSE 0)
                     /\ \A q \in start .. end - 1 :
                          line[q - start + 1] = IF t[q] = "\t" THEN " " ELSE t[q]
  <1>16. ASSUME At(t, end) = "\n" PROVE Goal
    <2>1. line = shown \o behind
      BY <1>9, <1>16
    <2>2. line \in Seq(Printed) /\ Len(line) = end - start + Len(behind)
      <3>1. Len(behind) \in Nat /\ end - start \in Nat
        BY <1>10, <1>18
      <3>2. Len(shown \o behind) = Len(shown) + Len(behind) /\ shown \o behind \in Seq(Printed)
        BY <1>13, <1>18
      <3>. QED BY <1>13, <2>1, <3>2
    <2>3. \A i \in 1 .. end - start : line[i] = shown[i]
      BY <1>13, <1>18, <2>1
    <2>4. \A q \in start .. end - 1 : line[q - start + 1] = shown[q - start + 1]
      BY <1>14, <2>3
    <2>. QED BY <1>15, <1>16, <2>2, <2>4, Zenon
  <1>17. ASSUME At(t, end) # "\n" PROVE Goal
    <2>1. line = shown /\ Len(line) = end - start + 0
      BY <1>9, <1>10, <1>13, <1>17
    <2>. QED BY <1>13, <1>15, <1>17, <2>1, Zenon
  <1>20. Goal
    BY <1>16, <1>17, Zenon
  <1>. QED BY <1>19, <1>20, Zenon DEF LineShown

-----------------------------------------------------------------------------
\* Induction over the positions from 0 to N.
LEMMA Upwards ==
  ASSUME NEW N \in Nat, NEW G,
         \A p \in 0 .. N : (\A q \in 0 .. N : q < p => q \in G) => p \in G
  PROVE  \A p \in 0 .. N : p \in G
PROOF
  <1> DEFINE Bad == {q \in 0 .. N : q \notin G}
  <1>1. Bad \subseteq Nat
    OBVIOUS
  <1>2. SUFFICES ASSUME Bad # {} PROVE FALSE
    OBVIOUS
  <1> HIDE DEF Bad
  <1>3. PICK p \in Bad : \A j \in Bad : p <= j
    BY <1>1, <1>2, LeastExists, Zenon
  <1>4. p \in 0 .. N /\ p \notin G
    BY <1>3 DEF Bad
  <1>5. ASSUME NEW q \in 0 .. N, q < p, q \notin G PROVE FALSE
    <2>1. q \in Bad
      BY <1>5 DEF Bad
    <2>2. p <= q
      BY <1>3, <2>1
    <2>. QED BY <1>4, <1>5, <2>2
  <1>. QED BY <1>4, <1>5

\* A digit is a number.
LEMMA DigitType ==
  ASSUME NEW c \in NUM
  PROVE  Digit(c) \in Nat
PROOF
  <1>1. DOMAIN Digits = 1 .. 10
    BY DEF Digits
  <1>2. PICK i \in 1 .. 10 : Digits[i] = c
    BY <1>1 DEF NUM, ToSet
  <1>3. i - 1 \in 0 .. 9 /\ (i - 1) + 1 = i
    OBVIOUS
  <1>4. \E d \in 0 .. 9 : Digits[d + 1] = c
    BY <1>2, <1>3
  <1>5. Digit(c) \in 0 .. 9
    BY <1>4, Zenon DEF Digit
  <1>. QED BY <1>5

\* The value strtol collects from the first digit on.
Collects(v, n, d) == \A i \in 0 .. n : v[i] = IF i = 0 THEN 0 ELSE 10 * v[i - 1] + d[i]

\* The values that Strtol collects exist.
LEMMA CollectedExists ==
  ASSUME NEW n \in Nat, NEW d, \A i \in 1 .. n : d[i] \in Nat
  PROVE  \E v : v = [i \in 0 .. n |-> v[i]] /\ Collects(v, n, d)
PROOF
  <1> DEFINE N == n + 1
             next == [p \in 1 .. N |-> IF p = N THEN 0 ELSE p + 1]
             base == [p \in 1 .. N |-> 0]
             step == [x \in (1 .. N) \X Nat |-> IF x[1] = N THEN 0 ELSE 10 * x[2] + d[N - x[1]]]
  <1>1. next \in [1 .. N -> Nat] /\ base \in [1 .. N -> Nat] /\ N \in Nat
    OBVIOUS
  <1>2. \A p \in 1 .. N : next[p] = (IF p = N THEN 0 ELSE p + 1) /\ base[p] = 0
    OBVIOUS
  <1>3. step \in [(1 .. N) \X Nat -> Nat]
    <2>1. \A p \in 1 .. N : p # N => N - p \in 1 .. n
      OBVIOUS
    <2>2. \A p \in 1 .. N : \A k \in Nat : (IF p = N THEN 0 ELSE 10 * k + d[N - p]) \in Nat
      BY <2>1
    <2>. QED BY <2>2
  <1>4. \A p \in 1 .. N : \A k \in Nat : p # N => step[<<p, k>>] = 10 * k + d[N - p]
    OBVIOUS
  <1>5. Ahead(N, next)
    BY <1>1, <1>2 DEF Ahead
  <1> HIDE DEF next, base, step, N
  <1>6. PICK g \in [1 .. N -> Nat] : Solves(g, N, next, base, step)
    BY <1>1, <1>3, <1>5, Recursion, Zenon
  <1>7. g[N] = 0 /\ \A p \in 1 .. N : p # N => g[p] = 10 * g[p + 1] + d[N - p]
    <2>1. N \in 1 .. N /\ next[N] = 0 /\ base[N] = 0
      BY <1>1, <1>2 DEF N
    <2>2. g[N] = 0
      BY <1>6, <2>1 DEF Solves
    <2>3. ASSUME NEW p \in 1 .. N, p # N PROVE g[p] = 10 * g[p + 1] + d[N - p]
      <3>1. next[p] = p + 1 /\ p + 1 # 0 /\ p + 1 \in 1 .. N
        BY <1>1, <1>2, <2>3 DEF N
      <3>2. g[p + 1] \in Nat
        BY <1>6, <3>1
      <3>3. g[p] = step[<<p, g[p + 1]>>]
        BY <1>6, <3>1 DEF Solves
      <3>. QED BY <1>4, <2>3, <3>2, <3>3
    <2>. QED BY <2>2, <2>3
  <1> DEFINE w == [i \in 0 .. n |-> g[N - i]]
  <1>8. w[0] = 0 /\ \A i \in 1 .. n : w[i] = 10 * w[i - 1] + d[i]
    <2>1. w[0] = 0
      <3>1. N - 0 = N /\ 0 \in 0 .. n
        BY <1>1
      <3>. QED BY <1>7, <3>1
    <2>2. ASSUME NEW i \in 1 .. n PROVE w[i] = 10 * w[i - 1] + d[i]
      <3>1. /\ N - i \in 1 .. N /\ N - i # N /\ (N - i) + 1 = N - (i - 1) /\ N - (N - i) = i
            /\ i \in 0 .. n /\ i - 1 \in 0 .. n
        BY <1>1 DEF N
      <3>2. w[i] = g[N - i] /\ w[i - 1] = g[N - (i - 1)]
        BY <3>1
      <3> HIDE DEF w
      <3>. QED BY <1>7, <3>1, <3>2
    <2>. QED BY <2>1, <2>2
  <1>9. w = [i \in 0 .. n |-> w[i]]
    OBVIOUS
  <1> HIDE DEF w
  <1>10. Collects(w, n, d)
    BY <1>8 DEF Collects
  <1>. QED BY <1>9, <1>10

\* What they are.
LEMMA CollectedFacts ==
  ASSUME NEW n \in Nat, NEW d, \A i \in 1 .. n : d[i] \in Nat, NEW v, Collects(v, n, d)
  PROVE  /\ \A i \in 0 .. n : v[i] \in Nat
         /\ v[0] = 0
         /\ \A i \in 1 .. n : v[i] = 10 * v[i - 1] + d[i]
PROOF
  <1>11. v[0] = 0 /\ \A i \in 1 .. n : v[i] = 10 * v[i - 1] + d[i]
    BY DEF Collects
  <1> DEFINE G == {i \in 0 .. n : v[i] \in Nat}
  <1>12. ASSUME NEW i \in 0 .. n, \A j \in 0 .. n : j < i => j \in G PROVE i \in G
    <2>1. CASE i = 0
      BY <1>11, <2>1
    <2>2. CASE i # 0
      <3>1. i - 1 \in 0 .. n /\ i - 1 < i /\ i \in 1 .. n
        BY <2>2
      <3>2. v[i - 1] \in Nat
        BY <1>12, <3>1
      <3>3. v[i] = 10 * v[i - 1] + d[i] /\ d[i] \in Nat
        BY <1>11, <3>1
      <3>. QED BY <3>2, <3>3
    <2>. QED BY <2>1, <2>2
  <1>13. \A i \in 0 .. n : i \in G
    <2> HIDE DEF G
    <2>. QED BY <1>12, Upwards
  <1>. QED BY <1>11, <1>13

\* What each place counts for.
Units(u, n) == \A i \in 1 .. n : u[i] = IF i = n THEN 1 ELSE 10 * u[i + 1]

\* So do the units that Number counts with.
LEMMA UnitsExist ==
  ASSUME NEW n \in Nat
  PROVE  \E u : u = [i \in 1 .. n |-> u[i]] /\ Units(u, n)
PROOF
  <1> DEFINE next == [p \in 1 .. n |-> IF p = n THEN 0 ELSE p + 1]
             base == [p \in 1 .. n |-> 1]
             step == [x \in (1 .. n) \X Nat |-> 10 * x[2]]
  <1>1. next \in [1 .. n -> Nat] /\ base \in [1 .. n -> Nat] /\ step \in [(1 .. n) \X Nat -> Nat]
    OBVIOUS
  <1>2. /\ \A p \in 1 .. n : next[p] = (IF p = n THEN 0 ELSE p + 1) /\ base[p] = 1
        /\ \A p \in 1 .. n : \A k \in Nat : step[<<p, k>>] = 10 * k
    OBVIOUS
  <1>3. Ahead(n, next)
    BY <1>2 DEF Ahead
  <1> HIDE DEF next, base, step
  <1>4. PICK g \in [1 .. n -> Nat] : Solves(g, n, next, base, step)
    BY <1>1, <1>3, Recursion, Zenon
  <1>5. \A i \in 1 .. n : g[i] = IF i = n THEN 1 ELSE 10 * g[i + 1]
    <2>1. TAKE i \in 1 .. n
    <2>2. CASE i = n
      BY <1>2, <1>4, <2>2 DEF Solves
    <2>3. CASE i # n
      <3>1. i + 1 \in 1 .. n /\ next[i] = i + 1 /\ i + 1 # 0
        BY <1>2, <2>3
      <3>2. g[i + 1] \in Nat
        BY <1>4, <3>1
      <3>3. g[i] = step[<<i, g[i + 1]>>]
        BY <1>4, <3>1 DEF Solves
      <3>. QED BY <1>2, <2>3, <3>2, <3>3
    <2>. QED BY <2>2, <2>3
  <1>6. g = [i \in 1 .. n |-> g[i]]
    BY <1>4
  <1>. QED BY <1>5, <1>6 DEF Units

\* What they are.
LEMMA UnitFacts ==
  ASSUME NEW n \in Nat, NEW u, Units(u, n)
  PROVE  /\ \A i \in 1 .. n : u[i] \in Nat
         /\ \A i \in 1 .. n : u[i] = IF i = n THEN 1 ELSE 10 * u[i + 1]
PROOF
  <1>8. \A i \in 1 .. n : u[i] = IF i = n THEN 1 ELSE 10 * u[i + 1]
    BY DEF Units
  <1> DEFINE G == {i \in 1 .. n : u[i] \in Nat}
  <1>9. ASSUME NEW i \in 1 .. n, \A j \in 1 .. n : j > i => j \in G PROVE i \in G
    <2>1. CASE i = n
      BY <1>8, <2>1
    <2>2. CASE i # n
      <3>1. i + 1 \in 1 .. n /\ i + 1 > i
        BY <2>2
      <3>2. u[i + 1] \in Nat /\ u[i] = 10 * u[i + 1]
        BY <1>8, <1>9, <2>2, <3>1
      <3>. QED BY <3>2
    <2>. QED BY <2>1, <2>2
  <1>10. \A i \in 1 .. n : i \in G
    <2> HIDE DEF G
    <2>. QED BY <1>9, Downwards
  <1>. QED BY <1>8, <1>10

\* The sum of what all places from one on write.
Sums(s, n, e) == \A i \in 1 .. n + 1 : s[i] = IF i > n THEN 0 ELSE e[i] + s[i + 1]

\* So do the sums of what the places count for.
LEMMA SumsExist ==
  ASSUME NEW n \in Nat, NEW e, \A i \in 1 .. n : e[i] \in Nat
  PROVE  \E s : s = [i \in 1 .. n + 1 |-> s[i]] /\ Sums(s, n, e)
PROOF
  <1> DEFINE N == n + 1
             next == [p \in 1 .. N |-> IF p > n THEN 0 ELSE p + 1]
             base == [p \in 1 .. N |-> 0]
             step == [x \in (1 .. N) \X Nat |-> IF x[1] > n THEN 0 ELSE e[x[1]] + x[2]]
  <1>1. next \in [1 .. N -> Nat] /\ base \in [1 .. N -> Nat] /\ N \in Nat
    OBVIOUS
  <1>2. step \in [(1 .. N) \X Nat -> Nat]
    <2>1. \A p \in 1 .. N : \A k \in Nat : (IF p > n THEN 0 ELSE e[p] + k) \in Nat
      OBVIOUS
    <2>. QED BY <2>1
  <1>3. /\ \A p \in 1 .. N : next[p] = (IF p > n THEN 0 ELSE p + 1) /\ base[p] = 0
        /\ \A p \in 1 .. N : \A k \in Nat : ~(p > n) => step[<<p, k>>] = e[p] + k
    OBVIOUS
  <1>4. Ahead(N, next)
    BY <1>3 DEF Ahead
  <1> HIDE DEF next, base, step
  <1>5. PICK g \in [1 .. N -> Nat] : Solves(g, N, next, base, step)
    <2> HIDE DEF N
    <2>. QED BY <1>1, <1>2, <1>4, Recursion, Zenon
  <1>6. \A i \in 1 .. N : g[i] = IF i > n THEN 0 ELSE e[i] + g[i + 1]
    <2>1. TAKE i \in 1 .. N
    <2>2. CASE i > n
      BY <1>3, <1>5, <2>2 DEF Solves
    <2>3. CASE ~(i > n)
      <3>1. i + 1 \in 1 .. N /\ next[i] = i + 1 /\ i + 1 # 0
        BY <1>3, <2>3
      <3>2. g[i + 1] \in Nat
        BY <1>5, <3>1
      <3>3. g[i] = step[<<i, g[i + 1]>>]
        BY <1>5, <3>1 DEF Solves
      <3>. QED BY <1>3, <2>3, <3>2, <3>3
    <2>. QED BY <2>2, <2>3
  <1>7. g = [i \in 1 .. n + 1 |-> g[i]]
    BY <1>5
  <1>. QED BY <1>6, <1>7 DEF Sums

\* What they are.
LEMMA SumFacts ==
  ASSUME NEW n \in Nat, NEW e, \A i \in 1 .. n : e[i] \in Nat, NEW s, Sums(s, n, e)
  PROVE  /\ \A i \in 1 .. n + 1 : s[i] \in Nat
         /\ s[n + 1] = 0
         /\ \A i \in 1 .. n : s[i] = e[i] + s[i + 1]
PROOF
  <1> DEFINE N == n + 1
  <1>1. N \in Nat
    OBVIOUS
  <1>9. \A i \in 1 .. N : s[i] = IF i > n THEN 0 ELSE e[i] + s[i + 1]
    BY DEF Sums
  <1> DEFINE G == {i \in 1 .. N : s[i] \in Nat}
  <1>10. ASSUME NEW i \in 1 .. N, \A j \in 1 .. N : j > i => j \in G PROVE i \in G
    <2>1. CASE i > n
      BY <1>9, <2>1
    <2>2. CASE ~(i > n)
      <3>1. i + 1 \in 1 .. N /\ i + 1 > i /\ i \in 1 .. n
        BY <2>2
      <3>2. s[i + 1] \in Nat /\ s[i] = e[i] + s[i + 1] /\ e[i] \in Nat
        BY <1>9, <1>10, <2>2, <3>1
      <3>. QED BY <3>2
    <2>. QED BY <2>1, <2>2
  <1>11. \A i \in 1 .. N : i \in G
    <2> HIDE DEF G, N
    <2>. QED BY <1>1, <1>10, Downwards
  <1>. QED BY <1>9, <1>11

\* A digit more in front is ten times the unit.
LEMMA Distributes ==
  ASSUME NEW a \in Nat, NEW b \in Nat, NEW c \in Nat, NEW e \in Nat
  PROVE  (10 * a + c) * b + e = a * (10 * b) + (c * b + e)
  OBVIOUS

\* The digits d, the value v collected from them, the units u and the sums s.
Counted(n, d, v, u, s) ==
  /\ \A i \in 1 .. n : d[i] \in Nat
  /\ \A i \in 0 .. n : v[i] \in Nat
  /\ v[0] = 0
  /\ \A i \in 1 .. n : v[i] = 10 * v[i - 1] + d[i]
  /\ \A i \in 1 .. n : u[i] \in Nat
  /\ \A i \in 1 .. n : u[i] = IF i = n THEN 1 ELSE 10 * u[i + 1]
  /\ \A i \in 1 .. n + 1 : s[i] \in Nat
  /\ s[n + 1] = 0
  /\ \A i \in 1 .. n : s[i] = d[i] * u[i] + s[i + 1]

\* A number collected from the first digit on is the sum of its places.
LEMMA SameNumber ==
  ASSUME NEW n \in Nat \ {0}, NEW d, NEW v, NEW u, NEW s, Counted(n, d, v, u, s)
  PROVE  v[n] = s[1]
PROOF
  <1>. /\ \A i \in 1 .. n : d[i] \in Nat
       /\ \A i \in 0 .. n : v[i] \in Nat
       /\ v[0] = 0
       /\ \A i \in 1 .. n : v[i] = 10 * v[i - 1] + d[i]
       /\ \A i \in 1 .. n : u[i] \in Nat
       /\ \A i \in 1 .. n : u[i] = IF i = n THEN 1 ELSE 10 * u[i + 1]
       /\ \A i \in 1 .. n + 1 : s[i] \in Nat
       /\ s[n + 1] = 0
       /\ \A i \in 1 .. n : s[i] = d[i] * u[i] + s[i + 1]
    BY DEF Counted
  <1> DEFINE G == {i \in 0 .. n : i = 0 \/ v[i] * u[i] + s[i + 1] = s[1]}
  <1>1. ASSUME NEW i \in 0 .. n, \A j \in 0 .. n : j < i => j \in G PROVE i \in G
    <2>1. CASE i = 0
      BY <2>1
    <2>2. CASE i = 1
      <3>1. v[1] = d[1]
        <4>1. 1 \in 1 .. n /\ 1 - 1 = 0
          OBVIOUS
        <4>2. v[1] = 10 * v[1 - 1] + d[1]
          BY <4>1
        <4>. QED BY <4>1, <4>2
      <3>2. s[1] = d[1] * u[1] + s[1 + 1]
        OBVIOUS
      <3>. QED BY <2>2, <3>1, <3>2
    <2>3. CASE i # 0 /\ i # 1
      <3>1. PICK j : j = i - 1
        OBVIOUS
      <3>2. j \in 1 .. n /\ j \in 0 .. n /\ j < i /\ j # 0 /\ j # n /\ i \in 1 .. n /\ j + 1 = i
        BY <2>3, <3>1
      <3>3. v[j] * u[j] + s[i] = s[1]
        BY <1>1, <3>2
      <3>4. u[j] = 10 * u[i]
        BY <3>2
      <3>5. s[i] = d[i] * u[i] + s[i + 1]
        BY <3>2
      <3>6. v[i] = 10 * v[j] + d[i]
        BY <3>1, <3>2
      <3>7. v[j] \in Nat /\ u[i] \in Nat /\ d[i] \in Nat /\ s[i + 1] \in Nat
        BY <3>2
      <3>9. (10 * v[j] + d[i]) * u[i] + s[i + 1] = v[j] * (10 * u[i]) + (d[i] * u[i] + s[i + 1])
        BY <3>7, Distributes
      <3>10. v[i] * u[i] + s[i + 1] = s[1]
        BY <3>3, <3>4, <3>5, <3>6, <3>9, Zenon
      <3>. QED BY <3>10
    <2>. QED BY <2>1, <2>2, <2>3
  <1>2. \A i \in 0 .. n : i \in G
    <2> HIDE DEF G
    <2>. QED BY <1>1, Upwards
  <1>3. v[n] * u[n] + s[n + 1] = s[1] /\ u[n] = 1
    BY <1>2
  <1>4. v[n] \in Nat
    OBVIOUS
  <1>. QED BY <1>3, <1>4

\* A literal whose number fits an int has it as its value.
LEMMA NumberFacts ==
  ASSUME LexerAssumption, NEW s, NEW n \in Nat \ {0}, Len(s) = n, \A i \in 1 .. n : s[i] \in NUM
  PROVE  /\ ToInt(Strtol(s)) \in Int
         /\ Number(s) < IntRange \div 2 => ToInt(Strtol(s)) = Number(s)
PROOF
  <1> DEFINE d == [i \in 1 .. n |-> Digit(s[i])]
  <1>1. \A i \in 1 .. n : d[i] = Digit(s[i]) /\ d[i] \in Nat
    BY DigitType
  <1> HIDE DEF d
  <1> DEFINE IsValue(f) == f = [i \in 0 .. Len(s) |-> IF i = 0 THEN 0 ELSE 10 * f[i - 1] + Digit(s[i])]
             v == CHOOSE f : IsValue(f)
             IsUnit(f) == f = [i \in 1 .. Len(s) |-> IF i = Len(s) THEN 1 ELSE 10 * f[i + 1]]
             u == CHOOSE f : IsUnit(f)
             IsSum(f) == f = [i \in 1 .. Len(s) + 1 |->
                                IF i > Len(s) THEN 0 ELSE Digit(s[i]) * u[i] + f[i + 1]]
             sum == CHOOSE f : IsSum(f)
  <1>2. Collects(v, n, d)
    <2>1. PICK w : w = [i \in 0 .. n |-> w[i]] /\ Collects(w, n, d)
      BY <1>1, CollectedExists
    <2>2. \A i \in 0 .. n : w[i] = IF i = 0 THEN 0 ELSE 10 * w[i - 1] + Digit(s[i])
      <3>1. TAKE i \in 0 .. n
      <3>2. w[i] = IF i = 0 THEN 0 ELSE 10 * w[i - 1] + d[i]
        BY <2>1 DEF Collects
      <3>3. i # 0 => d[i] = Digit(s[i])
        BY <1>1
      <3>. QED BY <3>2, <3>3
    <2>3. IsValue(w)
      BY <2>1, <2>2
    <2>4. IsValue(v)
      <3> HIDE DEF IsValue
      <3>. QED BY <2>3, Zenon
    <2> HIDE DEF v
    <2>5. \A i \in 0 .. n : v[i] = IF i = 0 THEN 0 ELSE 10 * v[i - 1] + Digit(s[i])
      BY <2>4
    <2>6. \A i \in 0 .. n : v[i] = IF i = 0 THEN 0 ELSE 10 * v[i - 1] + d[i]
      <3>1. TAKE i \in 0 .. n
      <3>2. v[i] = IF i = 0 THEN 0 ELSE 10 * v[i - 1] + Digit(s[i])
        BY <2>5
      <3>3. i # 0 => d[i] = Digit(s[i])
        BY <1>1
      <3>. QED BY <3>2, <3>3
    <2>. QED BY <2>6 DEF Collects
  <1>3. Units(u, n)
    <2>1. PICK w : w = [i \in 1 .. n |-> w[i]] /\ Units(w, n)
      BY UnitsExist
    <2>2. IsUnit(w)
      BY <2>1 DEF Units
    <2>3. IsUnit(u)
      <3> HIDE DEF IsUnit
      <3>. QED BY <2>2, Zenon
    <2> HIDE DEF u
    <2>. QED BY <2>3 DEF Units
  <1>4. /\ \A i \in 1 .. n : u[i] \in Nat
        /\ \A i \in 1 .. n : u[i] = IF i = n THEN 1 ELSE 10 * u[i + 1]
    <2> HIDE DEF u
    <2>. QED BY <1>3, UnitFacts
  <1> DEFINE e == [i \in 1 .. n |-> d[i] * u[i]]
  <1> HIDE DEF u
  <1>5. \A i \in 1 .. n : e[i] = Digit(s[i]) * u[i] /\ e[i] = d[i] * u[i] /\ e[i] \in Nat
    BY <1>1, <1>4
  <1> HIDE DEF e
  <1>6. Sums(sum, n, e)
    <2>1. PICK w : w = [i \in 1 .. n + 1 |-> w[i]] /\ Sums(w, n, e)
      BY <1>5, SumsExist
    <2>2. \A i \in 1 .. n + 1 : w[i] = IF i > n THEN 0 ELSE Digit(s[i]) * u[i] + w[i + 1]
      <3>1. TAKE i \in 1 .. n + 1
      <3>2. w[i] = IF i > n THEN 0 ELSE e[i] + w[i + 1]
        BY <2>1 DEF Sums
      <3>3. ~(i > n) => e[i] = Digit(s[i]) * u[i]
        BY <1>5
      <3>. QED BY <3>2, <3>3, Zenon
    <2>3. IsSum(w)
      BY <2>1, <2>2
    <2>4. IsSum(sum)
      <3> HIDE DEF IsSum
      <3>. QED BY <2>3, Zenon
    <2> HIDE DEF sum
    <2>5. \A i \in 1 .. n + 1 : sum[i] = IF i > n THEN 0 ELSE Digit(s[i]) * u[i] + sum[i + 1]
      BY <2>4
    <2>6. \A i \in 1 .. n + 1 : sum[i] = IF i > n THEN 0 ELSE e[i] + sum[i + 1]
      <3>1. TAKE i \in 1 .. n + 1
      <3>2. sum[i] = IF i > n THEN 0 ELSE Digit(s[i]) * u[i] + sum[i + 1]
        BY <2>5
      <3>3. ~(i > n) => e[i] = Digit(s[i]) * u[i]
        BY <1>5
      <3>. QED BY <3>2, <3>3, Zenon
    <2>. QED BY <2>6 DEF Sums
  <1>7. Number(s) = sum[1]
    BY Zenon DEF Number, u
  <1>8. Strtol(s) = IF v[n] > LongMax THEN LongMax ELSE v[n]
    <2>1. Strtol(s) = IF v[Len(s)] > LongMax THEN LongMax ELSE v[Len(s)]
      BY Zenon DEF Strtol
    <2> HIDE DEF v
    <2>. QED BY <2>1
  <1> HIDE DEF v, sum
  <1>9. /\ \A i \in 0 .. n : v[i] \in Nat
        /\ v[0] = 0
        /\ \A i \in 1 .. n : v[i] = 10 * v[i - 1] + d[i]
    BY <1>1, <1>2, CollectedFacts
  <1>10. /\ \A i \in 1 .. n + 1 : sum[i] \in Nat
         /\ sum[n + 1] = 0
         /\ \A i \in 1 .. n : sum[i] = e[i] + sum[i + 1]
    BY <1>5, <1>6, SumFacts
  <1>11. \A i \in 1 .. n : sum[i] = d[i] * u[i] + sum[i + 1]
    BY <1>5, <1>10
  <1>12. v[n] = sum[1]
    <2>1. Counted(n, d, v, u, sum)
      BY <1>1, <1>4, <1>9, <1>10, <1>11, Zenon DEF Counted
    <2>. QED BY <2>1, SameNumber
  <1>13. PICK k : k = v[n]
    OBVIOUS
  <1>14. k \in Nat
    BY <1>9, <1>13
  <1>15. IntRange \in Nat \ {0} /\ LongMax \in Nat /\ IntRange \div 2 <= LongMax + 1
    BY DEF LexerAssumption
  <1>16. Strtol(s) = (IF k > LongMax THEN LongMax ELSE k) /\ Number(s) = k
    BY <1>7, <1>8, <1>12, <1>13
  <1>17. \A m \in Nat : ToInt(m) \in Int
    BY <1>15 DEF ToInt
  <1>18. \A m \in Nat : m < IntRange \div 2 => ToInt(m) = m
    <2>1. PICK h : h = IntRange \div 2
      OBVIOUS
    <2>2. h \in Nat /\ 2 * h <= IntRange
      BY <1>15, <2>1
    <2>3. ASSUME NEW m \in Nat, m < h PROVE ToInt(m) = m
      <3>1. m + h \in Nat /\ m + h < IntRange
        BY <1>15, <2>2, <2>3
      <3>2. (m + h) % IntRange = m + h
        BY <1>15, <3>1
      <3>3. (m + h) - h = m
        BY <2>2
      <3>. QED BY <2>1, <3>2, <3>3 DEF ToInt
    <2>. QED BY <2>1, <2>3
  <1>19. Strtol(s) \in Nat
    BY <1>14, <1>15, <1>16
  <1>20. k < IntRange \div 2 => Strtol(s) = k
    BY <1>14, <1>15, <1>16
  <1>. QED BY <1>14, <1>16, <1>17, <1>18, <1>19, <1>20

-----------------------------------------------------------------------------
(***************************************************************************)
(* The inductive invariant.                                                *)
(***************************************************************************)
Types == {"identifier", "integer", "none"} \cup ToSet(Symbols) \cup ToSet(Keywords)
Values == Int \cup Seq(STRING)
TokenType ==
  [type : Types, value : Values, line : Seq(Printed), line_no : Nat, col_no : Nat]
PlaceType(t) == [buf : 1 .. Len(t) + 1, line_start : Nat, line_no : Nat, col_no : Nat]

TypeOK ==
  /\ IsText(text) /\ junk \in Seq(STRING)
  /\ ctx \in PlaceType(text)
  /\ opened \in [line_start : Nat, line_no : Nat, col_no : Nat]
  /\ status # "freed" => tokens \in Seq(TokenType)
  /\ comment \in {"none", "line", "block"}
  /\ status \in {"lexing", "done", "freed", "runaway comment", "unknown token"}

\* The line, the line number and the column of c are those of its position in t.
Positioned(c, t) == IsAt(c, t, c.buf) /\ c.line_start = LineStart(t, c.buf)

\* token is what s means.
Meant(token, s) ==
  IF s \in ToSet(Symbols) \cup ToSet(Keywords) THEN token.type = s
  ELSE IF s[1] \in IDENTIFIER_HEAD THEN token.type = "identifier" /\ token.value = s
  ELSE /\ token.type = "integer"
       /\ Number(s) < IntRange \div 2 => token.value = Number(s)

\* r is the place of t where the comment kind that b is in started, or b itself if
\* it is in none.
Resumes(r, kind, b, from, t) ==
  \/ kind = "none" /\ r = b
  \/ /\ kind = "line"
     /\ Opens(t, r, "/")
     /\ r + 2 <= b /\ \A q \in r .. b - 1 : At(t, q) \notin LineEnds
  \/ /\ kind = "block"
     /\ Opens(t, r, "*") /\ IsAt(from, t, r)
     /\ r + 2 <= b /\ \A q \in Closers(t, r) : b <= q

\* The places all are n places and the rest.
Splits(all, n, rest) ==
  /\ Len(all) = n + Len(rest)
  /\ \A k \in 1 .. Len(rest) : all[n + k] = rest[k]

\* The tokens are at the first places, and mean the lexemes there.
TokensAt(found, t, behind, places) ==
  /\ Len(found) <= Len(places)
  /\ \A i \in 1 .. Len(found) : /\ IsAt(found[i], t, places[i])
                                /\ LineShown(found[i].line, t, places[i], behind)
TokensMean(found, t, places, n) == \A i \in 1 .. n : Meant(found[i], Lexeme(t, places[i]))

Reading ==
  /\ Positioned(ctx, text)
  /\ \E r \in 1 .. Len(text) + 1 :
       /\ Resumes(r, comment, ctx.buf, opened, text)
       /\ Splits(Places(text)[1], Len(tokens), Places(text)[r])
  /\ TokensAt(tokens, text, junk, Places(text)[1])
  /\ TokensMean(tokens, text, Places(text)[1], Len(tokens))

\* What lex() has read when it is done or dies, at a place where a token ends.
Read ==
  LET places == Places(text)[1]
      n == Len(places)
  IN /\ TokensAt(tokens, text, junk, places)
     /\ TokensMean(tokens, text, places, n - 1)
     /\ Len(tokens) = n - (IF status = "done" THEN 0 ELSE 1)
     /\ status = "done" => places[n] = Len(text) + 1
     /\ status = "runaway comment" => Opens(text, places[n], "*") /\ IsAt(opened, text, places[n])
     /\ status = "unknown token" => /\ places[n] <= Len(text)
                                    /\ ~IsToken(Lexeme(text, places[n]))
                                    /\ IsAt(ctx, text, places[n])

IInv == TypeOK /\ (Lexing => Reading) /\ (HasRead => Read)

-----------------------------------------------------------------------------
\* A place has numbers for its line and its column.
LEMMA IsAtNat ==
  ASSUME NEW t, IsText(t), NEW p \in 1 .. Len(t) + 1, NEW c, IsAt(c, t, p)
  PROVE  c.line_no \in Nat /\ c.col_no \in Nat
PROOF
  <1>1. Len(t) \in Nat
    BY TextFacts
  <1>2. Cardinality(LinesBefore(t, p)) \in Nat /\ LineStart(t, p) \in 1 .. p
    BY LinesFacts
  <1>3. c.line_no = 1 + Cardinality(LinesBefore(t, p)) /\ c.col_no = p - LineStart(t, p)
    BY DEF IsAt
  <1>. QED BY <1>1, <1>2, <1>3

\* n characters of a line, and what Advance makes of ctx over them.
OfLine(t, p, n) == \A q \in p .. p + n - 1 : At(t, q) # "\n"
Moved(c, n) == [c EXCEPT !.buf = @ + n, !.col_no = @ + n]

\* Advance keeps ctx at its place.
LEMMA AdvanceKeeps ==
  ASSUME NEW t, IsText(t), NEW c \in PlaceType(t), Positioned(c, t),
         NEW n \in Nat, c.buf + n <= Len(t) + 1, OfLine(t, c.buf, n)
  PROVE  /\ Moved(c, n) \in PlaceType(t) /\ Positioned(Moved(c, n), t)
         /\ Moved(c, n).buf = c.buf + n
PROOF
  <1>. PICK d : d = [c EXCEPT !.buf = @ + n, !.col_no = @ + n]
    OBVIOUS
  <1>. \A q \in c.buf .. c.buf + n - 1 : At(t, q) # "\n"
    BY DEF OfLine
  <1>1. Len(t) \in Nat
    BY TextFacts
  <1>2. PICK p : p = c.buf
    OBVIOUS
  <1>3. p \in 1 .. Len(t) + 1 /\ p + n \in p .. Len(t) + 1 /\ p + n \in 1 .. Len(t) + 1
    BY <1>1, <1>2 DEF PlaceType
  <1>4. /\ d.buf = p + n /\ d.line_start = c.line_start /\ d.line_no = c.line_no
        /\ d.col_no = c.col_no + n
    BY <1>2 DEF PlaceType
  <1>5. d \in PlaceType(t)
    <2>1. c.col_no + n \in Nat
      BY DEF PlaceType
    <2>2. PICK S : S = 1 .. Len(t) + 1
      OBVIOUS
    <2>3. c \in [buf : S, line_start : Nat, line_no : Nat, col_no : Nat] /\ c.buf + n \in S
      BY <1>2, <1>3, <2>2 DEF PlaceType
    <2>4. d \in [buf : S, line_start : Nat, line_no : Nat, col_no : Nat]
      BY <2>1, <2>3
    <2>. QED BY <2>2, <2>4 DEF PlaceType
  <1>6. /\ LinesBefore(t, p + n) = LinesBefore(t, p)
        /\ LineStart(t, p + n) = LineStart(t, p)
    BY <1>2, <1>3, SameLine
  <1>7. IsAt(c, t, p) /\ c.line_start = LineStart(t, p)
    BY <1>2 DEF Positioned
  <1>8. LineStart(t, p) \in 1 .. p
    BY <1>3, LinesFacts
  <1>9. d.line_no = 1 + Cardinality(LinesBefore(t, p + n))
    BY <1>4, <1>6, <1>7 DEF IsAt
  <1>10. d.col_no = p + n - LineStart(t, p + n)
    <2>1. c.col_no = p - LineStart(t, p)
      BY <1>7 DEF IsAt
    <2>. QED BY <1>3, <1>4, <1>6, <1>8, <2>1
  <1>11. Positioned(d, t)
    <2>1. p + n - LineStart(t, p + n) = (p + n) - LineStart(t, p + n)
      BY <1>3, <1>6, <1>8
    <2>2. d.col_no = d.buf - LineStart(t, d.buf)
      BY <1>4, <1>10, <2>1
    <2>. QED BY <1>4, <1>6, <1>7, <1>9, <2>2 DEF Positioned, IsAt
  <1>. QED BY <1>2, <1>4, <1>5, <1>11 DEF Moved

\* So does Newline.
LEMMA NewlineKeeps ==
  ASSUME NEW t, IsText(t), NEW c \in PlaceType(t), Positioned(c, t),
         c.buf <= Len(t), At(t, c.buf) = "\n",
         NEW d, d = [c EXCEPT !.buf = @ + 1, !.line_start = c.buf + 1, !.line_no = @ + 1,
                              !.col_no = 0]
  PROVE  d \in PlaceType(t) /\ Positioned(d, t) /\ d.buf = c.buf + 1
PROOF
  <1>1. Len(t) \in Nat
    BY TextFacts
  <1>2. PICK p : p = c.buf
    OBVIOUS
  <1>3. p \in 1 .. Len(t) /\ p + 1 \in 1 .. Len(t) + 1
    BY <1>1, <1>2 DEF PlaceType
  <1>4. d.buf = p + 1 /\ d.line_start = p + 1 /\ d.line_no = c.line_no + 1 /\ d.col_no = 0
    BY <1>2 DEF PlaceType
  <1>5. d \in PlaceType(t)
    <2>1. c.line_no + 1 \in Nat /\ c.buf + 1 \in Nat
      BY <1>2, <1>3 DEF PlaceType
    <2>2. PICK S : S = 1 .. Len(t) + 1
      OBVIOUS
    <2>3. c \in [buf : S, line_start : Nat, line_no : Nat, col_no : Nat] /\ c.buf + 1 \in S
      BY <1>2, <1>3, <2>2 DEF PlaceType
    <2>4. d \in [buf : S, line_start : Nat, line_no : Nat, col_no : Nat]
      BY <2>1, <2>3
    <2>. QED BY <2>2, <2>4 DEF PlaceType
  <1>6. /\ Cardinality(LinesBefore(t, p + 1)) = Cardinality(LinesBefore(t, p)) + 1
        /\ LineStart(t, p + 1) = p + 1
    BY <1>2, <1>3, NextLine
  <1>7. c.line_no = 1 + Cardinality(LinesBefore(t, p))
    BY <1>2 DEF Positioned, IsAt
  <1>8. Cardinality(LinesBefore(t, p)) \in Nat
    <2>1. p \in 1 .. Len(t) + 1
      BY <1>1, <1>3
    <2>. QED BY <2>1, LinesFacts
  <1>9. d.line_no = 1 + Cardinality(LinesBefore(t, p + 1))
    BY <1>4, <1>6, <1>7, <1>8
  <1>10. d.col_no = (p + 1) - LineStart(t, p + 1)
    BY <1>3, <1>4, <1>6
  <1>. QED BY <1>2, <1>4, <1>5, <1>6, <1>9, <1>10 DEF Positioned, IsAt

\* The places behind a blank or a comment are those before it.
LEMMA SkipSame ==
  ASSUME NEW t, IsText(t), NEW p \in 1 .. Len(t) + 1, Skip(t, p) # p
  PROVE  Places(t)[Skip(t, p)] = Places(t)[p]
PROOF
  <1>1. PICK q : q = Skip(t, p)
    OBVIOUS
  <1>2. q \in p .. Len(t) + 1 /\ Len(t) \in Nat
    BY <1>1, SkipFacts, TextFacts
  <1>3. q \in 1 .. Len(t) + 1
    BY <1>2
  <1>4. Code(t)[p] = Code(t)[q]
    BY <1>1, CodeFacts
  <1>. QED BY <1>1, <1>3, <1>4, PlacesSame

\* A blank takes nothing from the places.
LEMMA BlankSame ==
  ASSUME NEW t, IsText(t), NEW p \in 1 .. Len(t) + 1, At(t, p) \in WHITESPACE
  PROVE  p <= Len(t) /\ Places(t)[p + 1] = Places(t)[p]
PROOF
  <1>1. At(t, p) # "NUL"
    BY DEF WHITESPACE
  <1>2. Len(t) \in Nat
    BY TextFacts
  <1>3. p \in Nat \ {0}
    BY <1>2
  <1>4. p <= Len(t)
    BY <1>1, <1>3, InText
  <1>5. Skip(t, p) = p + 1 /\ Skip(t, p) # p
    BY <1>3 DEF Skip
  <1>. QED BY <1>4, <1>5, SkipSame

\* Nor does a line comment,
LEMMA LineCommentSame ==
  ASSUME NEW t, IsText(t), NEW r \in 1 .. Len(t) + 1, Opens(t, r, "/"),
         NEW b \in 1 .. Len(t) + 1, r + 2 <= b, At(t, b) \in LineEnds,
         \A q \in r .. b - 1 : At(t, q) \notin LineEnds
  PROVE  Places(t)[b] = Places(t)[r]
PROOF
  <1>1. Len(t) \in Nat
    BY TextFacts
  <1>2. b \in r .. Len(t) + 1 /\ b # r
    BY <1>1
  <1>3. LineEnd(t, r) = b
    BY <1>2, LineEndIs
  <1>4. At(t, r) = "/"
    BY DEF Opens
  <1>5. At(t, r) \notin WHITESPACE
    <2>1. "/" \notin WHITESPACE
      BY Zenon DEF WHITESPACE
    <2>. QED BY <1>4, <2>1
  <1>6. Skip(t, r) = b
    BY <1>3, <1>5, Zenon DEF Skip
  <1>. QED BY <1>2, <1>6, SkipSame

\* nor does a block comment that is closed.
LEMMA BlockCommentSame ==
  ASSUME NEW t, IsText(t), NEW r \in 1 .. Len(t) + 1, Opens(t, r, "*"),
         NEW b \in Closers(t, r), \A q \in Closers(t, r) : b <= q
  PROVE  b + 2 \in 1 .. Len(t) + 1 /\ Places(t)[b + 2] = Places(t)[r]
PROOF
  <1>1. Len(t) \in Nat
    BY TextFacts
  <1>2. Closers(t, r) \subseteq Nat /\ b \in r + 2 .. Len(t) - 1
    BY ClosersFacts
  <1>3. LeastOf(Closers(t, r)) = b
    BY <1>2, LeastIs
  <1>4. At(t, r) = "/" /\ At(t, r + 1) = "*"
    BY DEF Opens
  <1>5. At(t, r) \notin WHITESPACE /\ ~Opens(t, r, "/")
    <2>1. "/" \notin WHITESPACE
      BY Zenon DEF WHITESPACE
    <2>2. ~Opens(t, r, "/")
      BY <1>4 DEF Opens
    <2>. QED BY <1>4, <2>1, <2>2
  <1>6. Closers(t, r) # {}
    OBVIOUS
  <1>7. Skip(t, r) = b + 2
    BY <1>3, <1>5, <1>6, Zenon DEF Skip
  <1>8. b + 2 \in 1 .. Len(t) + 1 /\ b + 2 # r
    BY <1>1, <1>2
  <1>. QED BY <1>7, <1>8, SkipSame

-----------------------------------------------------------------------------
\* A lexeme has no blanks in it.
LEMMA LexemeChars ==
  ASSUME NEW t, IsText(t), NEW p \in 1 .. Len(t) + 1
  PROVE  \A q \in p .. After(t, p) - 1 : At(t, q) # "\n"
PROOF
  <1>1. Len(t) \in Nat
    BY TextFacts
  <1>2. "\n" \notin IDENTIFIER_TAIL /\ "\n" \notin SymbolChars
    <2>1. "\n" \in WHITESPACE
      BY Zenon DEF WHITESPACE
    <2>. QED BY <2>1, Unlike
  <1>3. PICK n : n = LexemeLength(t, p)
    OBVIOUS
  <1>4. n \in 0 .. Len(t) + 1 - p
    BY <1>3, LexemeBounds
  <1>5. n \in Lengths(t, p)
    <2>1. Lengths(t, p) \subseteq 0 .. Len(t) + 1 /\ Lengths(t, p) # {} /\ Len(t) + 1 \in Nat
      BY <1>1, LengthsFacts DEF Lengths
    <2>2. n = GreatestOf(Lengths(t, p))
      BY <1>3 DEF LexemeLength, Lengths
    <2>. QED BY <2>1, <2>2, GreatestFacts, Zenon
  <1>6. \A k \in 1 .. n : At(t, p + k - 1) # "\n"
    <2>1. CASE n = 0
      BY <2>1
    <2>2. ASSUME NEW i \in 1 .. 41, Reads(t, p, Symbols[i]), n = Len(Symbols[i])
          PROVE  \A k \in 1 .. n : At(t, p + k - 1) # "\n"
      <3>1. Symbols[i] \in Seq(SymbolChars)
        BY SymbolFacts
      <3>2. \A k \in 1 .. n : Symbols[i][k] \in SymbolChars
        BY <2>2, <3>1
      <3>3. \A k \in 1 .. n : At(t, p + k - 1) = Symbols[i][k]
        BY <2>2 DEF Reads
      <3>. QED BY <1>2, <3>2, <3>3
    <2>3. CASE Word(t, p, n)
      BY <1>2, <2>3 DEF Word
    <2>. QED BY <1>5, <2>1, <2>2, <2>3, LengthsFacts
  <1>7. ASSUME NEW q \in p .. p + n - 1 PROVE At(t, q) # "\n"
    <2>1. q - p + 1 \in 1 .. n /\ p + (q - p + 1) - 1 = q
      BY <1>1, <1>4
    <2>. QED BY <1>6, <2>1
  <1>8. After(t, p) - 1 = p + n - 1
    BY <1>1, <1>3, <1>4 DEF After
  <1>. QED BY <1>7, <1>8

\* A token takes one of the places that are left.
LEMMA SplitsToken ==
  ASSUME NEW t, IsText(t), NEW p \in 1 .. Len(t) + 1, Skip(t, p) = p, ~Ends(t, p),
         NEW all, all = Places(t)[1], NEW n \in Nat, Splits(all, n, Places(t)[p])
  PROVE  n + 1 <= Len(all) /\ all[n + 1] = p /\ Splits(all, n + 1, Places(t)[After(t, p)])
PROOF
  <1>1. Len(t) \in Nat
    BY TextFacts
  <1>2. PICK S : S = 1 .. Len(t) + 1
    OBVIOUS
  <1>3. PICK rest, more : rest = Places(t)[p] /\ more = Places(t)[After(t, p)]
    OBVIOUS
  <1>4. all \in Seq(S) /\ rest \in Seq(S) /\ more \in Seq(S) /\ p \in S
    <2>1. 1 \in 1 .. Len(t) + 1 /\ After(t, p) \in 1 .. Len(t) + 1
      BY <1>1, AfterFacts
    <2>2. \A q \in 1 .. Len(t) + 1 : Places(t)[q] \in Seq(1 .. Len(t) + 1)
      BY PlacesType
    <2>. QED BY <1>2, <1>3, <2>1, <2>2
  <1>5. rest = <<p>> \o more
    BY <1>3, PlacesToken
  <1>6. PICK a, m : a = Len(all) /\ m = Len(more)
    OBVIOUS
  <1>7. /\ m \in Nat /\ Len(rest) = m + 1 /\ rest[1] = p
        /\ \A k \in 1 .. m : more[k] = rest[k + 1]
    BY <1>4, <1>5, <1>6
  <1>8. a \in Nat /\ a = n + (m + 1)
    <2>1. a = n + Len(rest)
      BY <1>3, <1>6 DEF Splits
    <2>. QED BY <1>7, <2>1
  <1>9. \A k \in 1 .. m + 1 : all[n + k] = rest[k]
    BY <1>3, <1>7 DEF Splits
  <1>10. 1 \in 1 .. m + 1 /\ n + 1 <= a /\ a = (n + 1) + m
    BY <1>7, <1>8
  <1>11. all[n + 1] = p
    BY <1>7, <1>9, <1>10
  <1>12. \A k \in 1 .. m : all[(n + 1) + k] = more[k]
    <2>1. TAKE k \in 1 .. m
    <2>2. k + 1 \in 1 .. m + 1 /\ n + (k + 1) = (n + 1) + k
      BY <1>7
    <2>3. more[k] = rest[k + 1]
      BY <1>7
    <2>. QED BY <1>9, <2>2, <2>3
  <1>13. Splits(all, n + 1, more)
    BY <1>6, <1>10, <1>12 DEF Splits
  <1>. QED BY <1>3, <1>6, <1>10, <1>11, <1>13

\* The last place is the one where the code ends.
LEMMA SplitsEnd ==
  ASSUME NEW S, NEW all \in Seq(S), NEW n \in Nat, NEW p, Splits(all, n, <<p>>)
  PROVE  Len(all) = n + 1 /\ all[n + 1] = p
PROOF
  <1>1. Len(<<p>>) = 1 /\ <<p>>[1] = p /\ 1 \in 1 .. 1
    OBVIOUS
  <1>. QED BY <1>1 DEF Splits

\* The token that AddToken appends is one of its place.
LEMMA TokenAdded ==
  ASSUME NEW t, IsText(t), NEW c \in PlaceType(t), Positioned(c, t), NEW behind \in Seq(STRING),
         NEW places, NEW found \in Seq(TokenType), TokensAt(found, t, behind, places),
         Len(found) + 1 <= Len(places), places[Len(found) + 1] = c.buf,
         NEW type \in Types, NEW value \in Values,
         NEW token, token = [type |-> type, value |-> value,
                             line |-> ShownLine(t, c.line_start, behind),
                             line_no |-> c.line_no, col_no |-> c.col_no]
  PROVE  /\ Append(found, token) \in Seq(TokenType)
         /\ TokensAt(Append(found, token), t, behind, places)
PROOF
  <1>1. PICK p : p = c.buf
    OBVIOUS
  <1>2. p \in 1 .. Len(t) + 1 /\ c.line_no \in Nat /\ c.col_no \in Nat
    BY <1>1 DEF PlaceType
  <1>3. IsAt(c, t, p) /\ c.line_start = LineStart(t, p)
    BY <1>1 DEF Positioned
  <1>4. PICK line : line = ShownLine(t, LineStart(t, p), behind)
    OBVIOUS
  <1>5. line \in Seq(Printed) /\ LineShown(line, t, p, behind)
    BY <1>2, <1>4, ShownFacts
  <1>6. token = [type |-> type, value |-> value, line |-> line,
                 line_no |-> c.line_no, col_no |-> c.col_no]
    BY <1>3, <1>4
  <1>7. token \in TokenType
    BY <1>2, <1>5, <1>6 DEF TokenType
  <1>8. token.line = line /\ token.line_no = c.line_no /\ token.col_no = c.col_no
    BY <1>6
  <1>9. IsAt(token, t, p)
    BY <1>3, <1>8 DEF IsAt
  <1>10. LineShown(token.line, t, p, behind)
    BY <1>5, <1>8
  <1>11. PICK n : n = Len(found)
    OBVIOUS
  <1>12. PICK more : more = Append(found, token)
    OBVIOUS
  <1>13. /\ more \in Seq(TokenType) /\ n \in Nat /\ Len(more) = n + 1 /\ more[n + 1] = token
         /\ \A i \in 1 .. n : more[i] = found[i]
    BY <1>7, <1>11, <1>12
  <1>14. ASSUME NEW i \in 1 .. n + 1
         PROVE  IsAt(more[i], t, places[i]) /\ LineShown(more[i].line, t, places[i], behind)
    <2>1. CASE i = n + 1
      <3>1. more[i] = token /\ places[i] = p
        BY <1>1, <1>11, <1>13, <2>1
      <3>. QED BY <1>9, <1>10, <3>1
    <2>2. CASE i \in 1 .. n
      <3>1. more[i] = found[i]
        BY <1>13, <2>2
      <3>2. IsAt(found[i], t, places[i]) /\ LineShown(found[i].line, t, places[i], behind)
        BY <1>11, <2>2 DEF TokensAt
      <3>. QED BY <3>1, <3>2
    <2>. QED BY <1>13, <2>1, <2>2
  <1>15. TokensAt(more, t, behind, places)
    BY <1>11, <1>13, <1>14 DEF TokensAt
  <1>. QED BY <1>12, <1>13, <1>15

\* The token that AddToken appends means the lexeme of its place.
LEMMA MeaningAdded ==
  ASSUME NEW t, NEW places, NEW found \in Seq(TokenType), NEW token \in TokenType,
         TokensMean(found, t, places, Len(found)), Meant(token, Lexeme(t, places[Len(found) + 1]))
  PROVE  TokensMean(Append(found, token), t, places, Len(found) + 1)
PROOF
  <1>1. PICK n : n = Len(found)
    OBVIOUS
  <1>2. PICK more : more = Append(found, token)
    OBVIOUS
  <1>3. n \in Nat /\ more[n + 1] = token /\ \A i \in 1 .. n : more[i] = found[i]
    BY <1>1, <1>2
  <1>4. ASSUME NEW i \in 1 .. n + 1 PROVE Meant(more[i], Lexeme(t, places[i]))
    <2>1. CASE i = n + 1
      BY <1>1, <1>3, <2>1
    <2>2. CASE i \in 1 .. n
      <3>1. Meant(found[i], Lexeme(t, places[i]))
        BY <1>1, <2>2 DEF TokensMean
      <3>. QED BY <1>3, <2>2, <3>1
    <2>. QED BY <1>3, <2>1, <2>2
  <1>. QED BY <1>1, <1>2, <1>4 DEF TokensMean

-----------------------------------------------------------------------------
(***************************************************************************)
(* Every action keeps the invariant.                                       *)
(***************************************************************************)
\* The first places and that of a position are where reading starts.
LEMMA ReadingFacts ==
  ASSUME IInv, Lexing
  PROVE  /\ IsText(text) /\ junk \in Seq(STRING) /\ ctx \in PlaceType(text)
         /\ ctx.buf \in 1 .. Len(text) + 1 /\ Len(text) \in Nat
         /\ opened \in [line_start : Nat, line_no : Nat, col_no : Nat]
         /\ tokens \in Seq(TokenType) /\ Len(tokens) \in Nat
         /\ Positioned(ctx, text)
         /\ Places(text)[1] \in Seq(1 .. Len(text) + 1)
         /\ TokensAt(tokens, text, junk, Places(text)[1])
         /\ TokensMean(tokens, text, Places(text)[1], Len(tokens))
         /\ \E r \in 1 .. Len(text) + 1 :
              /\ Resumes(r, comment, ctx.buf, opened, text)
              /\ Splits(Places(text)[1], Len(tokens), Places(text)[r])
PROOF
  <1>1. /\ IsText(text) /\ junk \in Seq(STRING) /\ ctx \in PlaceType(text)
        /\ opened \in [line_start : Nat, line_no : Nat, col_no : Nat]
        /\ tokens \in Seq(TokenType)
    BY DEF IInv, TypeOK, Lexing
  <1>2. Len(text) \in Nat
    BY <1>1, TextFacts
  <1>3. ctx.buf \in 1 .. Len(text) + 1
    BY <1>1 DEF PlaceType
  <1>4. Len(tokens) \in Nat
    BY <1>1
  <1>5. Reading
    BY DEF IInv
  <1>6. 1 \in 1 .. Len(text) + 1
    BY <1>2
  <1>7. Places(text)[1] \in Seq(1 .. Len(text) + 1)
    BY <1>1, <1>6, PlacesType
  <1>. QED BY <1>1, <1>2, <1>3, <1>4, <1>5, <1>7 DEF Reading

\* A step of reading keeps the invariant when it keeps what is read.
LEMMA ReadingStep ==
  ASSUME IInv, Lexing, UNCHANGED <<text, junk, tokens, status>>,
         ctx' \in PlaceType(text), Positioned(ctx', text),
         opened' \in [line_start : Nat, line_no : Nat, col_no : Nat],
         comment' \in {"none", "line", "block"},
         \E r \in 1 .. Len(text) + 1 :
           /\ Resumes(r, comment', ctx'.buf, opened', text)
           /\ Splits(Places(text)[1], Len(tokens), Places(text)[r])
  PROVE  IInv'
PROOF
  <1>1. /\ IsText(text) /\ junk \in Seq(STRING) /\ tokens \in Seq(TokenType)
        /\ TokensAt(tokens, text, junk, Places(text)[1])
        /\ TokensMean(tokens, text, Places(text)[1], Len(tokens))
    BY ReadingFacts
  <1>2. text' = text /\ junk' = junk /\ tokens' = tokens /\ status' = "lexing"
    BY DEF Lexing
  <1>3. TypeOK'
    BY <1>1, <1>2 DEF TypeOK
  <1>4. Reading'
    BY <1>1, <1>2 DEF Reading
  <1>5. ~HasRead'
    BY <1>2 DEF HasRead
  <1>. QED BY <1>3, <1>4, <1>5 DEF IInv

\* Outside of comments the places go on from buf.
LEMMA ResumesNone ==
  ASSUME NEW t, NEW r, NEW b, NEW from
  PROVE  Resumes(r, "none", b, from, t) <=> r = b
  BY DEF Resumes

\* A blank: the places from buf on stay the same.
LEMMA WhitespaceStep == IInv /\ Whitespace => IInv'
PROOF
  <1>. SUFFICES ASSUME IInv, Whitespace PROVE IInv'
    OBVIOUS
  <1>1. Lexing /\ comment = "none" /\ At(text, ctx.buf) \in WHITESPACE
    BY DEF Whitespace, InCode, Here
  <1>2. /\ IsText(text) /\ ctx \in PlaceType(text) /\ Positioned(ctx, text)
        /\ ctx.buf \in 1 .. Len(text) + 1 /\ Len(text) \in Nat
        /\ opened \in [line_start : Nat, line_no : Nat, col_no : Nat]
    BY <1>1, ReadingFacts
  <1>3. Splits(Places(text)[1], Len(tokens), Places(text)[ctx.buf])
    BY <1>1, ReadingFacts, ResumesNone
  <1>4. PICK p : p = ctx.buf
    OBVIOUS
  <1>5. p \in 1 .. Len(text) + 1 /\ p <= Len(text) /\ Places(text)[p + 1] = Places(text)[p]
    BY <1>1, <1>2, <1>4, BlankSame
  <1>6. ctx' \in PlaceType(text) /\ Positioned(ctx', text) /\ ctx'.buf = p + 1
    <2>1. CASE At(text, p) = "\n"
      <3>1. ctx' = [ctx EXCEPT !.buf = @ + 1, !.line_start = ctx.buf + 1, !.line_no = @ + 1,
                               !.col_no = 0]
        BY <1>4, <2>1 DEF Whitespace, Newline, Here
      <3>. QED BY <1>2, <1>4, <1>5, <2>1, <3>1, NewlineKeeps
    <2>2. CASE At(text, p) # "\n"
      <3>1. ctx' = Moved(ctx, 1)
        BY <1>4, <2>2 DEF Whitespace, Advance, Here, Moved
      <3>2. OfLine(text, ctx.buf, 1)
        <4>1. \A q \in p .. p + 1 - 1 : q = p
          BY <1>5
        <4>. QED BY <1>4, <2>2, <4>1 DEF OfLine
      <3>3. ctx.buf + 1 <= Len(text) + 1
        BY <1>2, <1>4, <1>5
      <3>. QED BY <1>2, <1>4, <3>1, <3>2, <3>3, AdvanceKeeps
    <2>. QED BY <2>1, <2>2
  <1>7. p + 1 \in 1 .. Len(text) + 1
    BY <1>2, <1>5
  <1>8. UNCHANGED <<text, junk, tokens, status>> /\ opened' = opened /\ comment' = "none"
    BY <1>1 DEF Whitespace
  <1>9. Resumes(p + 1, comment', ctx'.buf, opened', text)
    BY <1>6, <1>8, ResumesNone
  <1>10. Splits(Places(text)[1], Len(tokens), Places(text)[p + 1])
    BY <1>3, <1>4, <1>5
  <1>. QED BY <1>1, <1>2, <1>6, <1>7, <1>8, <1>9, <1>10, ReadingStep

\* Slash and star end no line and are not blank.
LEMMA Signs ==
  /\ "/" # "\n" /\ "/" # "NUL" /\ "*" # "\n" /\ "*" # "NUL" /\ "/" # "*" /\ "\n" # "NUL"
  /\ "/" \notin WHITESPACE /\ "/" \notin LineEnds /\ "*" \notin LineEnds
  BY Zenon DEF WHITESPACE, LineEnds

\* Two characters that are in the text and end no line.
LEMMA TwoOfLine ==
  ASSUME NEW t, IsText(t), NEW p \in 1 .. Len(t) + 1,
         At(t, p) \notin LineEnds, At(t, p + 1) \notin LineEnds
  PROVE  /\ p + 2 \in 1 .. Len(t) + 1 /\ OfLine(t, p, 2)
         /\ \A q \in p .. p + 1 : At(t, q) \notin LineEnds
PROOF
  <1>1. Len(t) \in Nat
    BY TextFacts
  <1>2. p + 1 \in Nat \ {0} /\ At(t, p + 1) # "NUL"
    BY <1>1 DEF LineEnds
  <1>3. p + 1 <= Len(t)
    BY <1>2, InText
  <1>4. p + 2 \in 1 .. Len(t) + 1
    BY <1>1, <1>3
  <1>5. \A q \in p .. p + 1 : q = p \/ q = p + 1
    BY <1>1
  <1>6. \A q \in p .. p + 1 : At(t, q) \notin LineEnds
    BY <1>5
  <1>7. \A q \in p .. p + 2 - 1 : q \in p .. p + 1
    BY <1>1
  <1>8. OfLine(t, p, 2)
    BY <1>6, <1>7 DEF OfLine, LineEnds
  <1>. QED BY <1>4, <1>6, <1>8

\* So for one character.
LEMMA OneOfLine ==
  ASSUME NEW t, IsText(t), NEW p \in 1 .. Len(t) + 1, At(t, p) \notin LineEnds
  PROVE  p + 1 \in 1 .. Len(t) + 1 /\ OfLine(t, p, 1)
PROOF
  <1>1. Len(t) \in Nat
    BY TextFacts
  <1>2. p \in Nat \ {0} /\ At(t, p) # "NUL"
    BY <1>1 DEF LineEnds
  <1>3. p <= Len(t)
    BY <1>2, InText
  <1>4. p + 1 \in 1 .. Len(t) + 1
    BY <1>1, <1>3
  <1>5. \A q \in p .. p + 1 - 1 : q = p
    BY <1>1
  <1>. QED BY <1>4, <1>5 DEF OfLine, LineEnds

\* A comment opens: the places go on from where it does.
LEMMA OpenCommentStep == IInv /\ OpenComment => IInv'
PROOF
  <1>. SUFFICES ASSUME IInv, OpenComment PROVE IInv'
    OBVIOUS
  <1>1. PICK p : p = ctx.buf
    OBVIOUS
  <1>2. /\ Lexing /\ comment = "none"
        /\ At(text, p) = "/" /\ At(text, p + 1) \in {"/", "*"}
    BY <1>1 DEF OpenComment, InCode, StartsComment, Here, Following
  <1>3. /\ IsText(text) /\ ctx \in PlaceType(text) /\ Positioned(ctx, text)
        /\ p \in 1 .. Len(text) + 1 /\ Len(text) \in Nat
        /\ opened \in [line_start : Nat, line_no : Nat, col_no : Nat]
    BY <1>1, <1>2, ReadingFacts
  <1>4. Splits(Places(text)[1], Len(tokens), Places(text)[p])
    BY <1>1, <1>2, ReadingFacts, ResumesNone
  <1>5. /\ p + 2 \in 1 .. Len(text) + 1 /\ OfLine(text, p, 2)
        /\ \A q \in p .. p + 1 : At(text, q) \notin LineEnds
    BY <1>2, <1>3, Signs, TwoOfLine
  <1>6. ctx' \in PlaceType(text) /\ Positioned(ctx', text) /\ ctx'.buf = p + 2
    <2>1. ctx' = Moved(ctx, 2)
      BY DEF OpenComment, Advance, Moved
    <2>2. ctx.buf + 2 <= Len(text) + 1
      BY <1>1, <1>3, <1>5
    <2>. QED BY <1>1, <1>3, <1>5, <2>1, <2>2, AdvanceKeeps
  <1>7. UNCHANGED <<text, junk, tokens, status>>
    BY DEF OpenComment
  <1>8. /\ opened' \in [line_start : Nat, line_no : Nat, col_no : Nat]
        /\ comment' \in {"none", "line", "block"}
        /\ Resumes(p, comment', p + 2, opened', text)
    <2>1. CASE At(text, p + 1) = "/"
      <3>1. comment' = "line" /\ opened' = opened
        BY <1>1, <2>1 DEF OpenComment, Following
      <3>2. Opens(text, p, "/") /\ p + 2 <= p + 2
        BY <1>2, <1>3, <2>1 DEF Opens
      <3>3. \A q \in p .. (p + 2) - 1 : At(text, q) \notin LineEnds
        <4>1. (p + 2) - 1 = p + 1
          BY <1>3
        <4>. QED BY <1>5, <4>1
      <3>. QED BY <1>3, <3>1, <3>2, <3>3 DEF Resumes
    <2>2. CASE At(text, p + 1) = "*"
      <3>1. /\ comment' = "block"
            /\ opened' = [line_start |-> ctx.line_start, line_no |-> ctx.line_no,
                          col_no |-> ctx.col_no]
        BY <1>1, <2>2, Signs DEF OpenComment, Following
      <3>2. opened' \in [line_start : Nat, line_no : Nat, col_no : Nat]
        BY <1>3, <3>1 DEF PlaceType
      <3>3. IsAt(ctx, text, p)
        BY <1>1, <1>3 DEF Positioned
      <3>4. opened'.line_no = ctx.line_no /\ opened'.col_no = ctx.col_no
        BY <3>1
      <3>5. IsAt(opened', text, p)
        BY <3>3, <3>4 DEF IsAt
      <3>6. \A q \in Closers(text, p) : p + 2 <= q
        <4>1. \A q \in Closers(text, p) : q \in p + 2 .. Len(text) - 1
          BY <1>3, ClosersFacts
        <4>. QED BY <1>3, <4>1
      <3>7. Opens(text, p, "*") /\ p + 2 <= p + 2
        BY <1>2, <1>3, <2>2 DEF Opens
      <3>. QED BY <3>1, <3>2, <3>5, <3>6, <3>7 DEF Resumes
    <2>. QED BY <1>2, <2>1, <2>2
  <1>9. \E r \in 1 .. Len(text) + 1 :
          /\ Resumes(r, comment', ctx'.buf, opened', text)
          /\ Splits(Places(text)[1], Len(tokens), Places(text)[r])
    BY <1>3, <1>4, <1>6, <1>8
  <1>. QED BY <1>2, <1>6, <1>7, <1>8, <1>9, ReadingStep

\* A line comment goes on, or ends where the places go on.
LEMMA LineCommentStep == IInv /\ LineComment => IInv'
PROOF
  <1>. SUFFICES ASSUME IInv, LineComment PROVE IInv'
    OBVIOUS
  <1>1. PICK b : b = ctx.buf
    OBVIOUS
  <1>2. Lexing /\ comment = "line" /\ UNCHANGED <<text, junk, tokens, opened, status>>
    BY DEF LineComment
  <1>3. /\ IsText(text) /\ ctx \in PlaceType(text) /\ Positioned(ctx, text)
        /\ b \in 1 .. Len(text) + 1 /\ Len(text) \in Nat
        /\ opened \in [line_start : Nat, line_no : Nat, col_no : Nat]
    BY <1>1, <1>2, ReadingFacts
  <1>4. PICK r \in 1 .. Len(text) + 1 :
          /\ Resumes(r, comment, b, opened, text)
          /\ Splits(Places(text)[1], Len(tokens), Places(text)[r])
    BY <1>1, <1>2, ReadingFacts
  <1>5. Opens(text, r, "/") /\ r + 2 <= b /\ \A q \in r .. b - 1 : At(text, q) \notin LineEnds
    BY <1>2, <1>4 DEF Resumes
  <1>6. CASE At(text, b) \in LineEnds
    <2>1. comment' = "none" /\ ctx' = ctx
      BY <1>1, <1>6 DEF LineComment, Here, LineEnds
    <2>2. Places(text)[b] = Places(text)[r]
      BY <1>3, <1>5, <1>6, LineCommentSame
    <2>3. Resumes(b, comment', ctx'.buf, opened', text)
      BY <1>1, <2>1, ResumesNone
    <2>4. Splits(Places(text)[1], Len(tokens), Places(text)[b])
      BY <1>4, <2>2
    <2>. QED BY <1>2, <1>3, <2>1, <2>3, <2>4, ReadingStep
  <1>7. CASE At(text, b) \notin LineEnds
    <2>1. comment' = comment /\ ctx' = Moved(ctx, 1)
      BY <1>1, <1>7 DEF LineComment, Here, LineEnds, Advance, Moved
    <2>2. b + 1 \in 1 .. Len(text) + 1 /\ OfLine(text, b, 1)
      BY <1>3, <1>7, OneOfLine
    <2>3. ctx' \in PlaceType(text) /\ Positioned(ctx', text) /\ ctx'.buf = b + 1
      <3>1. ctx.buf + 1 <= Len(text) + 1
        BY <1>1, <1>3, <2>2
      <3>. QED BY <1>1, <1>3, <2>1, <2>2, <3>1, AdvanceKeeps
    <2>4. Resumes(r, "line", b + 1, opened, text)
      <3>1. r + 2 <= b + 1
        BY <1>3, <1>5
      <3>2. \A q \in r .. (b + 1) - 1 : At(text, q) \notin LineEnds
        <4>1. \A q \in r .. (b + 1) - 1 : q \in r .. b - 1 \/ q = b
          BY <1>3
        <4>. QED BY <1>5, <1>7, <4>1
      <3>. QED BY <1>5, <3>1, <3>2 DEF Resumes
    <2>5. Resumes(r, comment', ctx'.buf, opened', text)
      BY <1>2, <2>1, <2>3, <2>4
    <2>. QED BY <1>2, <1>3, <1>4, <2>1, <2>3, <2>5, ReadingStep
  <1>. QED BY <1>6, <1>7

\* One more and one less.
LEMMA OneMore ==
  ASSUME NEW m \in Nat, NEW n, n = m + 1
  PROVE  n - 1 = m
  OBVIOUS

\* What dies where a token ends keeps the invariant.
LEMMA DyingStep ==
  ASSUME IInv, Lexing, UNCHANGED <<text, junk, ctx, tokens, comment, opened>>,
         status' \in {"runaway comment", "unknown token"},
         NEW r \in 1 .. Len(text) + 1, Skip(text, r) = r, Ends(text, r),
         Splits(Places(text)[1], Len(tokens), Places(text)[r]),
         status' = "runaway comment" => Opens(text, r, "*") /\ IsAt(opened, text, r),
         status' = "unknown token" => /\ r <= Len(text)
                                      /\ ~IsToken(Lexeme(text, r))
                                      /\ IsAt(ctx, text, r)
  PROVE  IInv'
PROOF
  <1>1. /\ IsText(text) /\ junk \in Seq(STRING) /\ ctx \in PlaceType(text)
        /\ opened \in [line_start : Nat, line_no : Nat, col_no : Nat]
        /\ tokens \in Seq(TokenType) /\ Len(tokens) \in Nat
        /\ Places(text)[1] \in Seq(1 .. Len(text) + 1)
        /\ TokensAt(tokens, text, junk, Places(text)[1])
        /\ TokensMean(tokens, text, Places(text)[1], Len(tokens))
    BY ReadingFacts
  <1>2. comment \in {"none", "line", "block"}
    BY DEF IInv, TypeOK
  <1>3. Places(text)[r] = <<r>>
    BY <1>1, PlacesEnd
  <1>4. PICK places : places = Places(text)[1]
    OBVIOUS
  <1>5. Len(places) = Len(tokens) + 1 /\ places[Len(tokens) + 1] = r
    <2>1. Splits(places, Len(tokens), <<r>>) /\ places \in Seq(1 .. Len(text) + 1)
      BY <1>1, <1>3, <1>4
    <2>. QED BY <1>1, <2>1, SplitsEnd
  <1>6. PICK n : n = Len(places)
    OBVIOUS
  <1>7. /\ n - 1 = Len(tokens) /\ Len(tokens) = n - 1 /\ places[n] = r
        /\ n - (IF status' = "done" THEN 0 ELSE 1) = n - 1 /\ status' # "done"
    <2>1. status' # "done"
      OBVIOUS
    <2>2. PICK m : m = Len(tokens)
      OBVIOUS
    <2>3. m \in Nat /\ n = m + 1 /\ places[m + 1] = r
      BY <1>1, <1>5, <1>6, <2>2
    <2>4. n - 1 = m
      BY <2>3, OneMore
    <2>5. n - 1 = m /\ places[n] = r
      BY <2>3, <2>4, Zenon
    <2>. QED BY <2>1, <2>2, <2>5
  <1>8. TokensMean(tokens, text, places, n - 1) /\ TokensAt(tokens, text, junk, places)
    BY <1>1, <1>4, <1>7
  <1>9. TypeOK'
    BY <1>1, <1>2 DEF TypeOK
  <1>10. Read'
    <2>1. /\ TokensAt(tokens', text', junk', places)
          /\ TokensMean(tokens', text', places, n - 1)
          /\ Len(tokens') = n - (IF status' = "done" THEN 0 ELSE 1)
          /\ status' = "done" => places[n] = Len(text') + 1
          /\ status' = "runaway comment" => Opens(text', places[n], "*") /\ IsAt(opened', text', places[n])
          /\ status' = "unknown token" => /\ places[n] <= Len(text')
                                         /\ ~IsToken(Lexeme(text', places[n]))
                                         /\ IsAt(ctx', text', places[n])
      BY <1>7, <1>8
    <2>2. places = Places(text')[1]
      BY <1>4
    <2>. QED BY <1>6, <2>1, <2>2 DEF Read
  <1>11. ~Lexing'
    BY DEF Lexing
  <1>. QED BY <1>9, <1>10, <1>11 DEF IInv

\* A block comment goes on, is closed where the places go on, or has no end.
LEMMA BlockCommentStep == IInv /\ BlockComment => IInv'
PROOF
  <1>. SUFFICES ASSUME IInv, BlockComment PROVE IInv'
    OBVIOUS
  <1>1. PICK b : b = ctx.buf
    OBVIOUS
  <1>2. Lexing /\ comment = "block" /\ UNCHANGED <<text, junk, tokens, opened>>
    BY DEF BlockComment
  <1>3. /\ IsText(text) /\ ctx \in PlaceType(text) /\ Positioned(ctx, text)
        /\ b \in 1 .. Len(text) + 1 /\ Len(text) \in Nat
        /\ opened \in [line_start : Nat, line_no : Nat, col_no : Nat]
    BY <1>1, <1>2, ReadingFacts
  <1>4. PICK r \in 1 .. Len(text) + 1 :
          /\ Resumes(r, comment, b, opened, text)
          /\ Splits(Places(text)[1], Len(tokens), Places(text)[r])
    BY <1>1, <1>2, ReadingFacts
  <1>5. /\ Opens(text, r, "*") /\ IsAt(opened, text, r) /\ r + 2 <= b
        /\ \A q \in Closers(text, r) : b <= q
    BY <1>2, <1>4 DEF Resumes
  <1>6. \A q \in Closers(text, r) : q \in r + 2 .. Len(text) - 1
    BY <1>3, ClosersFacts
  <1>7. CASE At(text, b) = "*" /\ At(text, b + 1) = "/"
    <2>1. comment' = "none" /\ ctx' = Moved(ctx, 2) /\ status' = status
      BY <1>1, <1>7 DEF BlockComment, Here, Following, Advance, Moved
    <2>2. b + 2 \in 1 .. Len(text) + 1 /\ OfLine(text, b, 2)
      BY <1>3, <1>7, Signs, TwoOfLine
    <2>3. b \in Closers(text, r)
      <3>1. b \in r + 2 .. Len(text)
        BY <1>3, <1>5, <2>2
      <3>. QED BY <1>7, <3>1 DEF Closers
    <2>4. Places(text)[b + 2] = Places(text)[r]
      BY <1>3, <1>5, <2>3, BlockCommentSame
    <2>5. ctx' \in PlaceType(text) /\ Positioned(ctx', text) /\ ctx'.buf = b + 2
      <3>1. ctx.buf + 2 <= Len(text) + 1
        BY <1>1, <1>3, <2>2
      <3>. QED BY <1>1, <1>3, <2>1, <2>2, <3>1, AdvanceKeeps
    <2>6. Resumes(b + 2, comment', ctx'.buf, opened', text)
      BY <2>1, <2>5, ResumesNone
    <2>7. Splits(Places(text)[1], Len(tokens), Places(text)[b + 2])
      BY <1>4, <2>4
    <2>. QED BY <1>2, <1>3, <2>1, <2>2, <2>5, <2>6, <2>7, ReadingStep
  <1>8. CASE ~(At(text, b) = "*" /\ At(text, b + 1) = "/")
    <2>1. comment' = comment
      BY <1>1, <1>8 DEF BlockComment, Here, Following
    <2>2. /\ At(text, b) = "\n" => Newline /\ status' = status
          /\ At(text, b) = "NUL" => status' = "runaway comment" /\ ctx' = ctx
          /\ At(text, b) \notin LineEnds => Advance(1) /\ status' = status
      BY <1>1, <1>8, Signs DEF BlockComment, Here, Following, LineEnds
    <2>3. \A q \in Closers(text, r) : b + 1 <= q
      <3>1. b \notin Closers(text, r)
        BY <1>8 DEF Closers
      <3>2. ASSUME NEW q \in Closers(text, r) PROVE b + 1 <= q
        <4>1. q # b /\ b <= q /\ q \in r + 2 .. Len(text) - 1
          BY <1>5, <1>6, <3>1, <3>2
        <4>. QED BY <1>3, <4>1
      <3>. QED BY <3>2
    <2>4. Resumes(r, "block", b + 1, opened, text)
      <3>1. r + 2 <= b + 1
        BY <1>3, <1>5
      <3>. QED BY <1>5, <2>3, <3>1 DEF Resumes
    <2>5. ASSUME At(text, b) # "NUL" PROVE IInv'
      <3>1. ctx' \in PlaceType(text) /\ Positioned(ctx', text) /\ ctx'.buf = b + 1
        <4>1. CASE At(text, b) = "\n"
          <5>1. ctx' = [ctx EXCEPT !.buf = @ + 1, !.line_start = ctx.buf + 1,
                                   !.line_no = @ + 1, !.col_no = 0]
            BY <2>2, <4>1 DEF Newline
          <5>2. b <= Len(text)
            <6>1. b \in Nat \ {0}
              BY <1>3
            <6>. QED BY <1>3, <2>5, <6>1, InText
          <5>. QED BY <1>1, <1>3, <4>1, <5>1, <5>2, NewlineKeeps
        <4>2. CASE At(text, b) # "\n"
          <5>1. At(text, b) \notin LineEnds
            BY <2>5, <4>2 DEF LineEnds
          <5>2. ctx' = Moved(ctx, 1)
            BY <2>2, <5>1 DEF Advance, Moved
          <5>3. b + 1 \in 1 .. Len(text) + 1 /\ OfLine(text, b, 1)
            BY <1>3, <5>1, OneOfLine
          <5>4. ctx.buf + 1 <= Len(text) + 1
            BY <1>1, <1>3, <5>3
          <5>. QED BY <1>1, <1>3, <5>2, <5>3, <5>4, AdvanceKeeps
        <4>. QED BY <4>1, <4>2
      <3>2. status' = status
        BY <2>2, <2>5 DEF LineEnds
      <3>3. Resumes(r, comment', ctx'.buf, opened', text)
        BY <1>2, <2>1, <2>4, <3>1
      <3>. QED BY <1>2, <1>3, <1>4, <2>1, <3>1, <3>2, <3>3, ReadingStep
    <2>6. ASSUME At(text, b) = "NUL" PROVE IInv'
      <3>1. status' = "runaway comment" /\ ctx' = ctx
        BY <2>2, <2>6
      <3>2. ~(b <= Len(text))
        <4>1. b \in Nat \ {0}
          BY <1>3
        <4>. QED BY <1>3, <2>6, <4>1, InText
      <3>3. Closers(text, r) = {}
        <4>1. ASSUME NEW q \in Closers(text, r) PROVE FALSE
          <5>1. b + 1 <= q /\ q \in r + 2 .. Len(text) - 1
            BY <1>6, <2>3, <4>1
          <5>. QED BY <1>3, <3>2, <5>1
        <4>. QED BY <4>1
      <3>4. Skip(text, r) = r
        <4>1. At(text, r) \notin WHITESPACE
          BY <1>5, Signs DEF Opens
        <4>2. ~Opens(text, r, "/")
          BY <1>5, Signs DEF Opens
        <4>. QED BY <1>3, <3>3, <4>1, <4>2, SkipFacts
      <3>5. Ends(text, r)
        BY <1>5 DEF Ends
      <3>. QED BY <1>2, <1>4, <1>5, <2>1, <3>1, <3>4, <3>5, DyingStep
    <2>. QED BY <2>5, <2>6
  <1>. QED BY <1>7, <1>8

-----------------------------------------------------------------------------
\* The alternatives of the chain that match are those that the text reads.
LEMMA HereFacts ==
  ASSUME IsText(text), ctx \in PlaceType(text), NEW p, p = ctx.buf
  PROVE  /\ SymbolsHere = {i \in 1 .. 41 : Reads(text, p, Symbols[i])}
         /\ KeywordsHere = {i \in DOMAIN Keywords :
                              /\ Reads(text, p, Keywords[i])
                              /\ At(text, p + Len(Keywords[i])) \notin IDENTIFIER_TAIL}
PROOF
  <1>1. p \in 1 .. Len(text) + 1
    BY DEF PlaceType
  <1>2. "NUL" \notin SymbolChars /\ "NUL" \notin IDENTIFIER_TAIL
    BY Unlike
  <1>3. \A i \in 1 .. 41 : IsPrefix(Symbols[i], Rest) <=> Reads(text, p, Symbols[i])
    <2>1. TAKE i \in 1 .. 41
    <2>2. Symbols[i] \in Seq(SymbolChars)
      BY SymbolFacts
    <2>3. IsPrefix(Symbols[i], SubSeq(text, p, Len(text))) <=> Reads(text, p, Symbols[i])
      BY <1>1, <1>2, <2>2, PrefixReads
    <2>. QED BY <2>3 DEF Rest
  <1>4. \A i \in DOMAIN Keywords : IsPrefix(Keywords[i], Rest) <=> Reads(text, p, Keywords[i])
    <2>1. TAKE i \in DOMAIN Keywords
    <2>2. Keywords[i] \in Seq(IDENTIFIER_TAIL)
      BY KeywordFacts
    <2>3. IsPrefix(Keywords[i], SubSeq(text, p, Len(text))) <=> Reads(text, p, Keywords[i])
      BY <1>1, <1>2, <2>2, PrefixReads
    <2>. QED BY <2>3 DEF Rest
  <1>5. DOMAIN Symbols = 1 .. 41
    BY SymbolFacts
  <1>6. SymbolsHere = {i \in 1 .. 41 : Reads(text, p, Symbols[i])}
    BY <1>3, <1>5, Zenon DEF SymbolsHere
  <1>7. KeywordsHere = {i \in DOMAIN Keywords :
                          /\ Reads(text, p, Keywords[i])
                          /\ At(text, p + Len(Keywords[i])) \notin IDENTIFIER_TAIL}
    BY <1>4, Zenon DEF KeywordsHere
  <1>. QED BY <1>6, <1>7

\* The one that lex() takes is the first of them.
LEMMA FirstFacts ==
  ASSUME NEW found, found \subseteq Nat, found # {}
  PROVE  First(found) \in found /\ \A j \in found : First(found) <= j
PROOF
  <1>1. \E i \in found : \A j \in found : i <= j
    BY LeastExists
  <1>. QED BY <1>1 DEF First

\* Where lex() looks for a token the code goes on.
LEMMA AtTokenFacts ==
  ASSUME IInv, AtToken, NEW p, p = ctx.buf
  PROVE  /\ Lexing /\ comment = "none" /\ p <= Len(text)
         /\ p \in 1 .. Len(text) + 1 /\ p \in Nat /\ Len(text) \in Nat
         /\ IsText(text) /\ ctx \in PlaceType(text) /\ Positioned(ctx, text)
         /\ Here = At(text, p)
         /\ Skip(text, p) = p /\ ~Opens(text, p, "*")
         /\ Splits(Places(text)[1], Len(tokens), Places(text)[p])
PROOF
  <1>1. Lexing /\ comment = "none" /\ p <= Len(text)
    BY DEF AtToken, InCode
  <1>2. /\ IsText(text) /\ ctx \in PlaceType(text) /\ Positioned(ctx, text)
        /\ p \in 1 .. Len(text) + 1 /\ Len(text) \in Nat
    BY <1>1, ReadingFacts
  <1>3. Here = At(text, p) /\ Following = At(text, p + 1)
    BY DEF Here, Following
  <1>4. /\ At(text, p) \notin WHITESPACE
        /\ ~(At(text, p) = "/" /\ At(text, p + 1) \in {"/", "*"})
    BY <1>3 DEF AtToken, StartsComment
  <1>5. ~Opens(text, p, "/") /\ ~Opens(text, p, "*")
    BY <1>4 DEF Opens
  <1>6. Skip(text, p) = p
    BY <1>2, <1>4, <1>5, SkipFacts
  <1>7. Splits(Places(text)[1], Len(tokens), Places(text)[p])
    BY <1>1, ReadingFacts, ResumesNone
  <1>8. p \in Nat
    BY <1>2
  <1>. QED BY <1>1, <1>2, <1>3, <1>5, <1>6, <1>7, <1>8

\* Consuming the lexeme at buf keeps the invariant, when the token is what it means.
LEMMA TokenStep ==
  ASSUME IInv, AtToken, NEW type \in Types, NEW value \in Values, NEW n,
         Consume(n, type, value), n = LexemeLength(text, ctx.buf),
         IsToken(Lexeme(text, ctx.buf)),
         \A token : token.type = type /\ token.value = value
                      => Meant(token, Lexeme(text, ctx.buf))
  PROVE  IInv'
PROOF
  <1>1. PICK p : p = ctx.buf
    OBVIOUS
  <1>2. /\ Lexing /\ comment = "none" /\ p <= Len(text)
        /\ p \in 1 .. Len(text) + 1 /\ p \in Nat /\ Len(text) \in Nat
        /\ IsText(text) /\ ctx \in PlaceType(text) /\ Positioned(ctx, text)
        /\ Skip(text, p) = p /\ ~Opens(text, p, "*")
        /\ Splits(Places(text)[1], Len(tokens), Places(text)[p])
    BY <1>1, AtTokenFacts
  <1>3. /\ junk \in Seq(STRING) /\ tokens \in Seq(TokenType) /\ Len(tokens) \in Nat
        /\ opened \in [line_start : Nat, line_no : Nat, col_no : Nat]
        /\ Places(text)[1] \in Seq(1 .. Len(text) + 1)
        /\ TokensAt(tokens, text, junk, Places(text)[1])
        /\ TokensMean(tokens, text, Places(text)[1], Len(tokens))
    BY <1>2, ReadingFacts
  <1>4. /\ UNCHANGED <<text, junk, comment, opened, status>>
        /\ ctx' = Moved(ctx, n) /\ tokens' = Append(tokens, Token(type, value))
    BY DEF Consume, AddToken, Advance, Moved
  <1>5. ~Ends(text, p)
    BY <1>1, <1>2 DEF Ends
  <1>6. n \in 1 .. Len(text) + 1 - p /\ After(text, p) = p + n
    BY <1>1, <1>2, LexemeBounds DEF After
  <1>7. p + n \in 1 .. Len(text) + 1 /\ n \in Nat
    BY <1>2, <1>6
  <1>8. PICK places : places = Places(text)[1]
    OBVIOUS
  <1>9. PICK k : k = Len(tokens)
    OBVIOUS
  <1>10. /\ k + 1 <= Len(places) /\ places[k + 1] = p
         /\ Splits(places, k + 1, Places(text)[p + n])
    <2>1. Splits(places, k, Places(text)[p]) /\ k \in Nat
      BY <1>2, <1>3, <1>8, <1>9
    <2>2. /\ k + 1 <= Len(places) /\ places[k + 1] = p
          /\ Splits(places, k + 1, Places(text)[After(text, p)])
      BY <1>2, <1>5, <1>8, <2>1, SplitsToken
    <2>. QED BY <1>6, <2>2
  <1>11. PICK token : token = Token(type, value)
    OBVIOUS
  <1>12. token = [type |-> type, value |-> value,
                  line |-> ShownLine(text, ctx.line_start, junk),
                  line_no |-> ctx.line_no, col_no |-> ctx.col_no]
    BY <1>11 DEF Token
  <1>13. PICK more : more = Append(tokens, token)
    OBVIOUS
  <1>14. more \in Seq(TokenType) /\ TokensAt(more, text, junk, places)
    <2>1. TokensAt(tokens, text, junk, places) /\ Len(tokens) + 1 <= Len(places)
          /\ places[Len(tokens) + 1] = ctx.buf
      BY <1>1, <1>3, <1>8, <1>9, <1>10
    <2>. QED BY <1>2, <1>3, <1>12, <1>13, <2>1, TokenAdded
  <1>15. Len(more) = k + 1 /\ more[k + 1] = token
    BY <1>3, <1>9, <1>13
  <1>16. TokensMean(more, text, places, k + 1)
    <2>1. token \in TokenType
      <3>1. k + 1 \in 1 .. Len(more)
        BY <1>3, <1>9, <1>15
      <3>. QED BY <1>14, <1>15, <3>1
    <2>2. token.type = type /\ token.value = value
      BY <1>12
    <2>3. Meant(token, Lexeme(text, places[k + 1]))
      BY <1>1, <1>10, <2>2
    <2>4. TokensMean(tokens, text, places, Len(tokens))
      BY <1>3, <1>8
    <2>. QED BY <1>3, <1>9, <1>13, <2>1, <2>3, <2>4, MeaningAdded
  <1>17. ctx' \in PlaceType(text) /\ Positioned(ctx', text) /\ ctx'.buf = p + n
    <2>1. OfLine(text, p, n)
      <3>1. \A q \in p .. After(text, p) - 1 : At(text, q) # "\n"
        BY <1>2, LexemeChars
      <3>2. After(text, p) - 1 = p + n - 1
        <4>1. \A m \in Nat : (p + m) - 1 = p + m - 1
          BY <1>2
        <4>. QED BY <1>6, <1>7, <4>1
      <3>3. \A q \in p .. p + n - 1 : At(text, q) # "\n"
        BY <3>1, <3>2, Zenon
      <3>. QED BY <3>3 DEF OfLine
    <2>2. ctx.buf + n <= Len(text) + 1 /\ OfLine(text, ctx.buf, n)
      BY <1>1, <1>2, <1>7, <2>1
    <2>. QED BY <1>1, <1>2, <1>4, <1>7, <2>2, AdvanceKeeps
  <1>18. /\ text' = text /\ junk' = junk /\ tokens' = more /\ status' = "lexing"
         /\ comment' = "none" /\ opened' = opened
    BY <1>2, <1>4, <1>11, <1>13 DEF Lexing
  <1>19. TypeOK'
    BY <1>2, <1>3, <1>14, <1>17, <1>18 DEF TypeOK
  <1>20. Reading'
    <2>1. Resumes(p + n, comment', ctx'.buf, opened', text')
      BY <1>17, <1>18, ResumesNone
    <2>2. Splits(places, Len(more), Places(text)[p + n])
      BY <1>10, <1>15
    <2>3. TokensMean(more, text, places, Len(more))
      BY <1>15, <1>16
    <2>4. Positioned(ctx', text')
      BY <1>17, <1>18
    <2>5. \E r \in 1 .. Len(text') + 1 :
            /\ Resumes(r, comment', ctx'.buf, opened', text')
            /\ Splits(Places(text')[1], Len(tokens'), Places(text')[r])
      BY <1>7, <1>8, <1>18, <2>1, <2>2
    <2>6. /\ TokensAt(tokens', text', junk', Places(text')[1])
          /\ TokensMean(tokens', text', Places(text')[1], Len(tokens'))
      BY <1>8, <1>14, <1>18, <2>3
    <2>. QED BY <2>4, <2>5, <2>6 DEF Reading
  <1>21. ~HasRead'
    BY <1>18 DEF HasRead
  <1>. QED BY <1>19, <1>20, <1>21 DEF IInv

\* The first symbol in the order of lex() that matches is the lexeme.
LEMMA SymbolStep == IInv /\ Symbol => IInv'
PROOF
  <1>. SUFFICES ASSUME IInv, Symbol PROVE IInv'
    OBVIOUS
  <1>1. AtToken /\ SymbolsHere # {}
    BY DEF Symbol
  <1>2. PICK p, i : p = ctx.buf /\ i = First(SymbolsHere)
    OBVIOUS
  <1>3. IsText(text) /\ ctx \in PlaceType(text) /\ p \in 1 .. Len(text) + 1
    BY <1>1, <1>2, AtTokenFacts
  <1>4. SymbolsHere = {j \in 1 .. 41 : Reads(text, p, Symbols[j])}
    BY <1>2, <1>3, HereFacts
  <1>5. /\ i \in 1 .. 41 /\ Reads(text, p, Symbols[i])
        /\ \A j \in 1 .. 41 : Reads(text, p, Symbols[j]) => i <= j
    <2>1. SymbolsHere \subseteq Nat
      BY <1>4
    <2>2. i \in SymbolsHere /\ \A j \in SymbolsHere : i <= j
      BY <1>1, <1>2, <2>1, FirstFacts
    <2>. QED BY <1>4, <2>2
  <1>6. LexemeLength(text, p) = Len(Symbols[i]) /\ Lexeme(text, p) = Symbols[i]
    BY <1>3, <1>5, SymbolLexeme
  <1>7. Symbols[i] \in ToSet(Symbols)
    BY <1>5, SymbolSet
  <1>8. Symbols[i] \in Types /\ <<>> \in Values
    BY <1>7 DEF Types, Values
  <1>9. IsToken(Lexeme(text, p))
    BY <1>6, <1>7 DEF IsToken
  <1>10. \A token : token.type = Symbols[i] /\ token.value = <<>>
                      => Meant(token, Lexeme(text, p))
    BY <1>6, <1>7 DEF Meant
  <1>11. Consume(Len(Symbols[i]), Symbols[i], <<>>)
    BY <1>2 DEF Symbol
  <1>. QED BY <1>1, <1>2, <1>6, <1>8, <1>9, <1>10, <1>11, TokenStep

\* A keyword is the lexeme when nothing that goes on an identifier follows it.
LEMMA KeywordStep == IInv /\ Keyword => IInv'
PROOF
  <1>. SUFFICES ASSUME IInv, Keyword PROVE IInv'
    OBVIOUS
  <1>1. AtToken /\ KeywordsHere # {}
    BY DEF Keyword
  <1>2. PICK p, i : p = ctx.buf /\ i = First(KeywordsHere)
    OBVIOUS
  <1>3. IsText(text) /\ ctx \in PlaceType(text) /\ p \in 1 .. Len(text) + 1
    BY <1>1, <1>2, AtTokenFacts
  <1>4. KeywordsHere = {j \in DOMAIN Keywords :
                          /\ Reads(text, p, Keywords[j])
                          /\ At(text, p + Len(Keywords[j])) \notin IDENTIFIER_TAIL}
    BY <1>2, <1>3, HereFacts
  <1>5. /\ i \in DOMAIN Keywords /\ Reads(text, p, Keywords[i])
        /\ At(text, p + Len(Keywords[i])) \notin IDENTIFIER_TAIL
    <2>1. DOMAIN Keywords \subseteq Nat
      BY DEF Keywords
    <2>2. KeywordsHere \subseteq Nat
      BY <1>4, <2>1
    <2>3. i \in KeywordsHere
      BY <1>1, <1>2, <2>2, FirstFacts
    <2>. QED BY <1>4, <2>3
  <1>6. /\ LexemeLength(text, p) = Len(Keywords[i]) /\ Lexeme(text, p) = Keywords[i]
        /\ Lexeme(text, p)[1] \in IDENTIFIER_HEAD /\ Lexeme(text, p) # <<>>
    BY <1>3, <1>5, KeywordLexeme
  <1>7. Keywords[i] \in ToSet(Keywords)
    BY <1>5, KeywordSet
  <1>8. Keywords[i] \in Types /\ <<>> \in Values
    BY <1>7 DEF Types, Values
  <1>9. IsToken(Lexeme(text, p))
    BY <1>6 DEF IsToken
  <1>10. \A token : token.type = Keywords[i] /\ token.value = <<>>
                      => Meant(token, Lexeme(text, p))
    BY <1>6, <1>7 DEF Meant
  <1>11. Consume(Len(Keywords[i]), Keywords[i], <<>>)
    BY <1>2 DEF Keyword
  <1>. QED BY <1>1, <1>2, <1>6, <1>8, <1>9, <1>10, <1>11, TokenStep

\* A word that is read where no keyword is found is none.
LEMMA AtWordFacts ==
  ASSUME IInv, AtWord, NEW p, p = ctx.buf
  PROVE  /\ AtToken
         /\ \A j \in 1 .. 41 : ~Reads(text, p, Symbols[j])
         /\ At(text, p) \in IDENTIFIER_TAIL
              => Lexeme(text, p) \notin ToSet(Symbols) \cup ToSet(Keywords)
PROOF
  <1>1. AtToken /\ SymbolsHere = {} /\ KeywordsHere = {}
    BY DEF AtWord
  <1>2. IsText(text) /\ ctx \in PlaceType(text) /\ p \in 1 .. Len(text) + 1
    BY <1>1, AtTokenFacts
  <1>3. \A j \in 1 .. 41 : ~Reads(text, p, Symbols[j])
    BY <1>1, <1>2, HereFacts
  <1>4. \A j \in DOMAIN Keywords :
          ~(Reads(text, p, Keywords[j])
            /\ At(text, p + Len(Keywords[j])) \notin IDENTIFIER_TAIL)
    BY <1>1, <1>2, HereFacts
  <1>5. ASSUME At(text, p) \in IDENTIFIER_TAIL
        PROVE  Lexeme(text, p) \notin ToSet(Symbols) \cup ToSet(Keywords)
    <2>1. PICK s : s = Lexeme(text, p)
      OBVIOUS
    <2>2. s \notin ToSet(Symbols)
      BY <1>2, <1>5, <2>1, WordLexeme
    <2>3. \A i \in DOMAIN Keywords :
            s = Keywords[i] => /\ Reads(text, p, Keywords[i])
                               /\ At(text, p + Len(Keywords[i])) \notin IDENTIFIER_TAIL
      BY <1>2, <1>5, <2>1, WordFacts
    <2>4. s \notin ToSet(Keywords)
      BY <1>4, <2>3, KeywordSet
    <2>. QED BY <2>1, <2>2, <2>4
  <1>. QED BY <1>1, <1>3, <1>5

\* What is consumed as an identifier is the lexeme, and no keyword.
LEMMA IdentifierStep == IInv /\ Identifier => IInv'
PROOF
  <1>. SUFFICES ASSUME IInv, Identifier PROVE IInv'
    OBVIOUS
  <1>1. PICK p, e, s : /\ p = ctx.buf /\ e = RunEnd(text, ctx.buf, IDENTIFIER_TAIL)
                       /\ s = Lexeme(text, ctx.buf)
    OBVIOUS
  <1>2. AtWord /\ Here \in IDENTIFIER_HEAD
    BY DEF Identifier
  <1>3. AtToken /\ (At(text, p) \in IDENTIFIER_TAIL => s \notin ToSet(Symbols) \cup ToSet(Keywords))
    BY <1>1, <1>2, AtWordFacts
  <1>4. IsText(text) /\ p \in 1 .. Len(text) + 1 /\ Here = At(text, p)
    BY <1>1, <1>3, AtTokenFacts
  <1>5. At(text, p) \in IDENTIFIER_HEAD /\ At(text, p) \in IDENTIFIER_TAIL
    BY <1>2, <1>4, TailIs
  <1>6. LexemeLength(text, p) = e - p
    BY <1>1, <1>4, <1>5, WordLexeme
  <1>7. s = SubSeq(text, p, e - 1) /\ s # <<>> /\ s \in Seq(STRING) /\ s[1] \in IDENTIFIER_HEAD
    <2>1. s = SubSeq(text, p, e - 1) /\ s # <<>> /\ s \in Seq(STRING) /\ s[1] = At(text, p)
      BY <1>1, <1>4, <1>5, WordFacts
    <2>. QED BY <1>5, <2>1
  <1>8. IsToken(s)
    BY <1>7 DEF IsToken
  <1>9. \A token : token.type = "identifier" /\ token.value = s => Meant(token, s)
    BY <1>3, <1>5, <1>7 DEF Meant
  <1>10. "identifier" \in Types /\ s \in Values
    BY <1>7 DEF Types, Values
  <1>11. Consume(e - p, "identifier", s)
    BY <1>1, <1>7 DEF Identifier
  <1>. QED BY <1>1, <1>3, <1>6, <1>8, <1>9, <1>10, <1>11, TokenStep

\* What is consumed as an integer is the lexeme, with the value of its digits.
LEMMA IntegerStep == IInv /\ Integer => IInv'
PROOF
  <1>. SUFFICES ASSUME IInv, Integer PROVE IInv'
    OBVIOUS
  <1>1. PICK p, e, s : /\ p = ctx.buf /\ e = RunEnd(text, ctx.buf, NUM)
                       /\ s = Lexeme(text, ctx.buf)
    OBVIOUS
  <1>2. AtWord /\ AtInteger
    BY DEF Integer
  <1>3. AtToken /\ (At(text, p) \in IDENTIFIER_TAIL => s \notin ToSet(Symbols) \cup ToSet(Keywords))
    BY <1>1, <1>2, AtWordFacts
  <1>4. IsText(text) /\ p \in 1 .. Len(text) + 1 /\ Here = At(text, p)
    BY <1>1, <1>3, AtTokenFacts
  <1>5. /\ At(text, p) \in NUM /\ At(text, p) \in IDENTIFIER_TAIL
        /\ At(text, e) \notin IDENTIFIER_TAIL
    BY <1>1, <1>2, <1>4, TailIs DEF AtInteger
  <1>6. e = RunEnd(text, p, IDENTIFIER_TAIL) /\ ToSet(s) \subseteq NUM
    BY <1>1, <1>4, <1>5, IntegerLexeme
  <1>7. LexemeLength(text, p) = e - p
    BY <1>1, <1>4, <1>5, <1>6, WordLexeme
  <1>8. /\ s = SubSeq(text, p, e - 1) /\ s # <<>> /\ s \in Seq(STRING) /\ s[1] = At(text, p)
        /\ Len(s) = e - p /\ e - p \in Nat \ {0}
    BY <1>1, <1>4, <1>5, <1>6, WordFacts
  <1>9. s[1] \notin IDENTIFIER_HEAD
    BY <1>5, <1>8, Unlike
  <1>10. PICK value : value = ToInt(Strtol(s))
    OBVIOUS
  <1>11. value \in Int /\ (Number(s) < IntRange \div 2 => value = Number(s))
    <2>1. \A i \in 1 .. e - p : s[i] \in NUM
      <3>1. DOMAIN s = 1 .. e - p
        BY <1>8
      <3>. QED BY <1>6, <3>1 DEF ToSet
    <2>2. PICK n : n = e - p
      OBVIOUS
    <2>3. n \in Nat \ {0} /\ Len(s) = n /\ \A i \in 1 .. n : s[i] \in NUM
      BY <1>8, <2>1, <2>2
    <2>. QED BY <1>10, <2>3, LexerAssumption, NumberFacts
  <1>12. IsToken(s)
    BY <1>6, <1>8 DEF IsToken
  <1>13. \A token : token.type = "integer" /\ token.value = value => Meant(token, s)
    BY <1>3, <1>5, <1>9, <1>11, Zenon DEF Meant
  <1>14. "integer" \in Types /\ value \in Values
    BY <1>11 DEF Types, Values
  <1>15. Consume(e - p, "integer", value)
    BY <1>1, <1>8, <1>10 DEF Integer
  <1>. QED BY <1>1, <1>3, <1>7, <1>12, <1>13, <1>14, <1>15, TokenStep

\* Where no alternative matches there is no token.
LEMMA UnknownStep == IInv /\ Unknown => IInv'
PROOF
  <1>. SUFFICES ASSUME IInv, Unknown PROVE IInv'
    OBVIOUS
  <1>1. PICK p : p = ctx.buf
    OBVIOUS
  <1>2. /\ AtWord /\ Here \notin IDENTIFIER_HEAD /\ ~AtInteger
        /\ status' = "unknown token" /\ UNCHANGED <<text, junk, ctx, tokens, comment, opened>>
    BY DEF Unknown
  <1>3. AtToken /\ \A j \in 1 .. 41 : ~Reads(text, p, Symbols[j])
    BY <1>1, <1>2, AtWordFacts
  <1>4. /\ IsText(text) /\ p \in 1 .. Len(text) + 1 /\ Here = At(text, p) /\ Lexing
        /\ p <= Len(text) /\ Skip(text, p) = p /\ Positioned(ctx, text)
        /\ Splits(Places(text)[1], Len(tokens), Places(text)[p])
    BY <1>1, <1>3, AtTokenFacts
  <1>5. ~(At(text, p) \in NUM /\ At(text, RunEnd(text, p, NUM)) \notin IDENTIFIER_TAIL)
    BY <1>1, <1>2, <1>4 DEF AtInteger
  <1>6. ~IsToken(Lexeme(text, p))
    BY <1>2, <1>3, <1>4, <1>5, UnknownLexeme
  <1>7. Ends(text, p)
    BY <1>6 DEF Ends
  <1>8. IsAt(ctx, text, p)
    BY <1>1, <1>4 DEF Positioned
  <1>. QED BY <1>2, <1>4, <1>6, <1>7, <1>8, DyingStep

\* The sentinel is at the last place, the end of the text.
LEMMA FinishStep == IInv /\ Finish => IInv'
PROOF
  <1>. SUFFICES ASSUME IInv, Finish PROVE IInv'
    OBVIOUS
  <1>1. PICK p : p = ctx.buf
    OBVIOUS
  <1>2. /\ Lexing /\ comment = "none" /\ p = Len(text) + 1 /\ status' = "done"
        /\ UNCHANGED <<text, junk, ctx, comment, opened>>
    BY <1>1 DEF Finish
  <1>3. /\ IsText(text) /\ ctx \in PlaceType(text) /\ Positioned(ctx, text)
        /\ p \in 1 .. Len(text) + 1 /\ Len(text) \in Nat
        /\ junk \in Seq(STRING) /\ tokens \in Seq(TokenType) /\ Len(tokens) \in Nat
        /\ opened \in [line_start : Nat, line_no : Nat, col_no : Nat]
        /\ Places(text)[1] \in Seq(1 .. Len(text) + 1)
        /\ TokensAt(tokens, text, junk, Places(text)[1])
        /\ TokensMean(tokens, text, Places(text)[1], Len(tokens))
    BY <1>1, <1>2, ReadingFacts
  <1>4. Splits(Places(text)[1], Len(tokens), Places(text)[p])
    BY <1>1, <1>2, ReadingFacts, ResumesNone
  <1>5. Places(text)[p] = <<p>>
    <2>1. Skip(text, p) = p
      BY <1>2, <1>3, SkipFacts
    <2>2. Ends(text, p)
      BY <1>2, <1>3 DEF Ends
    <2>. QED BY <1>3, <2>1, <2>2, PlacesEnd
  <1>6. PICK places, k : places = Places(text)[1] /\ k = Len(tokens)
    OBVIOUS
  <1>7. k \in Nat /\ Len(places) = k + 1 /\ places[k + 1] = p
    <2>1. Splits(places, k, <<p>>) /\ places \in Seq(1 .. Len(text) + 1) /\ k \in Nat
      BY <1>3, <1>4, <1>5, <1>6
    <2>. QED BY <2>1, SplitsEnd
  <1>8. PICK token : token = Token("none", <<>>)
    OBVIOUS
  <1>9. PICK more : more = Append(tokens, token)
    OBVIOUS
  <1>10. more \in Seq(TokenType) /\ TokensAt(more, text, junk, places)
    <2>1. token = [type |-> "none", value |-> <<>>,
                   line |-> ShownLine(text, ctx.line_start, junk),
                   line_no |-> ctx.line_no, col_no |-> ctx.col_no]
      BY <1>8 DEF Token
    <2>2. /\ TokensAt(tokens, text, junk, places) /\ Len(tokens) + 1 <= Len(places)
          /\ places[Len(tokens) + 1] = ctx.buf
      BY <1>1, <1>3, <1>6, <1>7
    <2>3. "none" \in Types /\ <<>> \in Values
      BY DEF Types, Values
    <2>. QED BY <1>3, <1>9, <2>1, <2>2, <2>3, TokenAdded
  <1>11. Len(more) = k + 1 /\ \A i \in 1 .. k : more[i] = tokens[i]
    BY <1>3, <1>6, <1>9
  <1>12. TokensMean(more, text, places, k)
    <2>1. TokensMean(tokens, text, places, k)
      BY <1>3, <1>6
    <2>. QED BY <1>11, <2>1 DEF TokensMean
  <1>13. /\ text' = text /\ junk' = junk /\ tokens' = more /\ status' = "done"
         /\ ctx' = ctx /\ comment' = "none" /\ opened' = opened
    BY <1>2, <1>8, <1>9 DEF Finish, AddToken
  <1>14. TypeOK'
    BY <1>3, <1>10, <1>13 DEF TypeOK
  <1>15. Read'
    <2>1. PICK n : n = Len(places)
      OBVIOUS
    <2>2. n = k + 1
      BY <1>7, <2>1
    <2>3. n - 1 = k /\ n - 0 = n
      BY <1>7, <2>2, OneMore
    <2>4. TokensMean(more, text, places, n - 1) /\ places[n] = Len(text) + 1
      BY <1>2, <1>7, <1>12, <2>2, <2>3
    <2>5. Len(more) = n - (IF status' = "done" THEN 0 ELSE 1)
      BY <1>11, <1>13, <2>2, <2>3
    <2>6. /\ TokensAt(tokens', text', junk', places)
          /\ TokensMean(tokens', text', places, n - 1)
          /\ Len(tokens') = n - (IF status' = "done" THEN 0 ELSE 1)
          /\ places[n] = Len(text') + 1
          /\ status' = "done"
      BY <1>10, <1>13, <2>4, <2>5
    <2>7. places = Places(text')[1]
      BY <1>6, <1>13
    <2>. QED BY <2>1, <2>6, <2>7 DEF Read
  <1>16. ~Lexing'
    BY <1>13 DEF Lexing
  <1>. QED BY <1>14, <1>15, <1>16 DEF IInv

\* Freed tokens are not looked at again.
LEMMA FreeTokensStep == IInv /\ FreeTokens => IInv'
PROOF
  <1>. SUFFICES ASSUME IInv, FreeTokens PROVE IInv'
    OBVIOUS
  <1>1. status' = "freed" /\ UNCHANGED <<text, junk, ctx, comment, opened>>
    BY DEF FreeTokens
  <1>2. TypeOK'
    BY <1>1 DEF IInv, TypeOK
  <1>. QED BY <1>1, <1>2 DEF IInv, Lexing, HasRead

\* A step that changes nothing.
LEMMA EndedStep == IInv /\ UNCHANGED vars => IInv'
PROOF
  <1>. SUFFICES ASSUME IInv, UNCHANGED vars PROVE IInv'
    OBVIOUS
  <1>1. /\ text' = text /\ junk' = junk /\ tokens' = tokens /\ status' = status
        /\ ctx' = ctx /\ comment' = comment /\ opened' = opened
    BY DEF vars
  <1>. QED BY <1>1 DEF IInv, TypeOK, Lexing, Reading, HasRead, Read

\* Reading starts at the first position, with all places ahead.
LEMMA Initially == Init => IInv
PROOF
  <1>. SUFFICES ASSUME Init PROVE IInv
    OBVIOUS
  <1>1. /\ ctx = [buf |-> 1, line_start |-> 1, line_no |-> 1, col_no |-> 0]
        /\ tokens = <<>> /\ comment = "none" /\ status = "lexing"
        /\ opened = [line_start |-> 1, line_no |-> 1, col_no |-> 0]
    BY DEF Init
  <1>2. IsText(text)
    <2>1. text \in Texts
      BY DEF Init
    <2>2. text \in Seq(STRING) /\ "NUL" \notin ToSet(text)
      BY <2>1, LexerAssumption, Zenon DEF LexerAssumption
    <2>. QED BY <2>2 DEF IsText, ToSet
  <1>3. junk \in Seq(STRING)
    <2>1. junk \in Junk \/ junk = <<>>
      BY DEF Init
    <2>2. Junk \subseteq Seq(STRING)
      BY LexerAssumption, Zenon DEF LexerAssumption
    <2>3. <<>> \in Seq(STRING)
      OBVIOUS
    <2>. QED BY <2>1, <2>2, <2>3
  <1>4. Len(text) \in Nat /\ 1 \in 1 .. Len(text) + 1
    BY <1>2, TextFacts
  <1>5. ctx \in PlaceType(text) /\ opened \in [line_start : Nat, line_no : Nat, col_no : Nat]
    BY <1>1, <1>4 DEF PlaceType
  <1>6. TypeOK
    <2>1. tokens \in Seq(TokenType)
      BY <1>1
    <2>. QED BY <1>1, <1>2, <1>3, <1>5, <2>1 DEF TypeOK
  <1>7. Positioned(ctx, text)
    <2>1. LinesBefore(text, 1) = {}
      BY <1>2, <1>4, LinesFacts
    <2>2. Cardinality(LinesBefore(text, 1)) = 0
      BY <2>1, FS_EmptySet
    <2>3. LineStart(text, 1) = 1
      BY <1>2, <1>4, LinesFacts
    <2>. QED BY <1>1, <2>2, <2>3 DEF Positioned, IsAt
  <1>8. PICK places : places = Places(text)[1]
    OBVIOUS
  <1>9. places \in Seq(1 .. Len(text) + 1)
    BY <1>2, <1>4, <1>8, PlacesType
  <1>10. PICK n : n = Len(places)
    OBVIOUS
  <1>11. n \in Nat
    BY <1>9, <1>10
  <1>12. Splits(places, 0, places)
    BY <1>10, <1>11 DEF Splits
  <1>13. TokensAt(tokens, text, junk, places) /\ TokensMean(tokens, text, places, Len(tokens))
    BY <1>1, <1>10, <1>11 DEF TokensAt, TokensMean
  <1>14. Reading
    <2>1. Resumes(1, comment, ctx.buf, opened, text)
      BY <1>1, ResumesNone
    <2>2. Len(tokens) = 0
      BY <1>1
    <2>. QED BY <1>4, <1>7, <1>8, <1>12, <1>13, <2>1, <2>2 DEF Reading
  <1>. QED BY <1>1, <1>6, <1>14 DEF IInv, HasRead

\* The invariant is inductive.
LEMMA Inductive == IInv /\ [Next]_vars => IInv'
PROOF
  <1>. SUFFICES ASSUME IInv, [Next]_vars PROVE IInv'
    OBVIOUS
  <1>1. CASE Whitespace
    BY <1>1, WhitespaceStep
  <1>2. CASE OpenComment
    BY <1>2, OpenCommentStep
  <1>3. CASE LineComment
    BY <1>3, LineCommentStep
  <1>4. CASE BlockComment
    BY <1>4, BlockCommentStep
  <1>5. CASE Symbol
    BY <1>5, SymbolStep
  <1>6. CASE Keyword
    BY <1>6, KeywordStep
  <1>7. CASE Identifier
    BY <1>7, IdentifierStep
  <1>8. CASE Integer
    BY <1>8, IntegerStep
  <1>9. CASE Unknown
    BY <1>9, UnknownStep
  <1>10. CASE Finish
    BY <1>10, FinishStep
  <1>11. CASE FreeTokens
    BY <1>11, FreeTokensStep
  <1>12. CASE Ended \/ UNCHANGED vars
    BY <1>12, EndedStep DEF Ended
  <1>. QED BY <1>1, <1>2, <1>3, <1>4, <1>5, <1>6, <1>7, <1>8, <1>9, <1>10, <1>11, <1>12 DEF Next

\* So it always holds.
LEMMA Always == Spec => []IInv
PROOF
  <1>1. Init => IInv
    BY Initially
  <1>2. IInv /\ [Next]_vars => IInv'
    BY Inductive
  <1>. QED BY <1>1, <1>2, PTL DEF Spec

-----------------------------------------------------------------------------
(***************************************************************************)
(* The theorems.                                                           *)
(***************************************************************************)
\* What the invariant says of a state in which lex() has read.
LEMMA ReadFacts ==
  ASSUME IInv, HasRead, NEW places, places = Places(text)[1], NEW n, n = Len(places)
  PROVE  /\ IsText(text) /\ tokens \in Seq(TokenType) /\ junk \in Seq(STRING)
         /\ places \in Seq(1 .. Len(text) + 1) /\ n \in Nat /\ n # 0
         /\ TokensAt(tokens, text, junk, places)
         /\ TokensMean(tokens, text, places, n - 1)
         /\ Len(tokens) = n - (IF status = "done" THEN 0 ELSE 1)
         /\ status = "done" => places[n] = Len(text) + 1
         /\ status = "runaway comment"
              => Opens(text, places[n], "*") /\ IsAt(opened, text, places[n])
         /\ status = "unknown token" => /\ places[n] <= Len(text)
                                        /\ ~IsToken(Lexeme(text, places[n]))
                                        /\ IsAt(ctx, text, places[n])
         /\ status \in {"done", "runaway comment", "unknown token"}
PROOF
  <1>1. IsText(text) /\ tokens \in Seq(TokenType) /\ junk \in Seq(STRING)
    BY DEF IInv, TypeOK, HasRead
  <1>2. 1 \in 1 .. Len(text) + 1
    BY <1>1, TextFacts
  <1>3. places \in Seq(1 .. Len(text) + 1) /\ n \in Nat
    BY <1>1, <1>2, PlacesType
  <1>4. n # 0
    <2>1. Places(text)[1] = PlacesFrom(text, 1, Places(text))
      BY <1>1, <1>2, PlacesUnfold
    <2>2. \A r \in Seq(1 .. Len(text) + 1) : \A q : <<q>> # <<>> /\ <<q>> \o r # <<>>
      OBVIOUS
    <2>3. Code(text)[1] \in 1 .. Len(text) + 1
      BY <1>1, <1>2, CodeFacts
    <2>. QED BY <1>3, <2>1, <2>2, <2>3 DEF PlacesFrom
  <1>5. Read
    BY DEF IInv
  <1>6. status \in {"done", "runaway comment", "unknown token"}
    BY DEF IInv, TypeOK, HasRead
  <1>. QED BY <1>1, <1>3, <1>4, <1>5, <1>6 DEF Read

\* The properties, one after the other, of a state in which lex() has read.
LEMMA Longest == IInv => LongestMatch
PROOF
  <1>. SUFFICES ASSUME IInv, HasRead PROVE LongestMatch
    BY DEF LongestMatch
  <1>1. PICK places, n : places = Places(text)[1] /\ n = Len(places)
    OBVIOUS
  <1>2. /\ n \in Nat /\ Len(tokens) = n - (IF status = "done" THEN 0 ELSE 1)
        /\ TokensMean(tokens, text, places, n - 1)
    BY <1>1, ReadFacts
  <1>3. \A i \in 1 .. n - 1 : Meant(tokens[i], Lexeme(text, places[i]))
    BY <1>2 DEF TokensMean
  <1>. QED BY <1>1, <1>2, <1>3, Zenon DEF LongestMatch, Meant

\* The tokens are located.
LEMMA Placed == IInv => Located
PROOF
  <1>. SUFFICES ASSUME IInv, HasRead PROVE Located
    BY DEF Located
  <1>1. PICK places : places = Places(text)[1]
    OBVIOUS
  <1>2. tokens \in Seq(TokenType) /\ TokensAt(tokens, text, junk, places)
    BY <1>1, ReadFacts
  <1>3. DOMAIN tokens = 1 .. Len(tokens)
    BY <1>2
  <1>4. \A i \in DOMAIN tokens : /\ IsAt(tokens[i], text, places[i])
                                 /\ LineShown(tokens[i].line, text, places[i], junk)
    BY <1>2, <1>3 DEF TokensAt
  <1>. QED BY <1>1, <1>4, Zenon DEF Located, LineShown

\* The place where lex() dies is the last one.
LEMMA Named == IInv => Rejected
PROOF
  <1>. SUFFICES ASSUME IInv, HasRead PROVE Rejected
    BY DEF Rejected
  <1>1. PICK places, n : places = Places(text)[1] /\ n = Len(places)
    OBVIOUS
  <1>2. Last(Places(text)[1]) = places[n]
    BY <1>1 DEF Last
  <1>3. /\ status = "done" => places[n] = Len(text) + 1
        /\ status = "runaway comment"
             => Opens(text, places[n], "*") /\ IsAt(opened, text, places[n])
        /\ status = "unknown token" => /\ places[n] <= Len(text)
                                       /\ ~IsToken(Lexeme(text, places[n]))
                                       /\ IsAt(ctx, text, places[n])
        /\ status \in {"done", "runaway comment", "unknown token"}
    BY <1>1, ReadFacts
  <1>. QED BY <1>2, <1>3 DEF Rejected

\* Whatever the text: the struct lex_ctx of lex() stays within it, and the tokens
\* have the types, values and places that lexer.h declares until they are freed.
THEOREM TypeCorrect == Spec => []TypeOK
PROOF
  <1>1. IInv => TypeOK
    BY DEF IInv
  <1>. QED BY <1>1, Always, PTL

\* Whatever the text: trying the symbols and keywords in the order of lex(), and
\* identifiers and integers behind them, gives the longest lexemes of the code, all
\* of them and none in a comment, and the value of each literal that fits an int.
THEOREM LexemesAreLongest == Spec => []LongestMatch
  BY Longest, Always, PTL

\* Whatever the text and the memory behind the lines that are copied: every token
\* keeps the line, the line number and the column of the place it was read at.
THEOREM TokensAreLocated == Spec => []Located
  BY Placed, Always, PTL

\* Whatever the text: lex() dies only where no token starts or a comment never ends, at
\* the first such place, and names that place.
THEOREM DiesAtTheRightPlace == Spec => []Rejected
  BY Named, Always, PTL
=============================================================================
