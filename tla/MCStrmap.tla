------------------------------ MODULE MCStrmap ------------------------------
(* Model-checking instance of Strmap: two structs, values a and b, of which   *)
(* a is copied deeply.                                                       *)
EXTENDS Strmap, TLC

Deep == [v \in Values |-> IF v = "a" THEN "copy of a" ELSE v]
MCCopiers == {Deep}
MCMeaning == [v \in Values |-> IF v = "copy of a" THEN "a" ELSE v]

\* hcreate_r of the GNU C library: the first prime from n on, and 3 at least.
Primes == {p \in 3 .. 2 * MaxTable + 3 : \A d \in 2 .. p - 1 : p % d # 0}
MCSlots ==
  [n \in 0 .. MaxTable |-> CHOOSE p \in Primes : p >= n /\ \A q \in Primes : q >= n => p <= q]

\* The keys of all maps together.  What a step from a state within the bound reaches is checked too.
MCFewKeys ==
  LET nr(m) == IF Uninitialized(m) THEN 0 ELSE Len(map[m].keys) IN nr("m1") + nr("m2") <= 3
MCSymmetry == Permutations(Strings)
=============================================================================
