------------------------------ MODULE StringMap ------------------------------
(***************************************************************************)
(* What strmap.h promises: maps from strings to values that remember the   *)
(* order in which their keys came, each on its own.                        *)
(***************************************************************************)
EXTENDS Integers, Sequences

CONSTANTS Structs, Strings, Meanings

VARIABLES
  dict,    \* the map of each struct, or Absent
  answer   \* the <<key, value>> pairs the last call gave to its caller

vars == <<dict, answer>>

Absent == [order |-> "none"]
New == [order |-> <<>>, value |-> [s \in {} |-> s]]

Holds(m, s) == s \in DOMAIN dict[m].value
Pair(m, s) == <<s, dict[m].value[s]>>
Present(m) == dict[m] # Absent

Init == dict = [m \in Structs |-> Absent] /\ answer = <<>>

Create(m) ==
  /\ ~Present(m)
  /\ dict' = [dict EXCEPT ![m] = New]
  /\ answer' = <<>>

Duplicate(dst, src) ==
  /\ Present(src) /\ ~Present(dst)
  /\ dict' = [dict EXCEPT ![dst] = dict[src]]
  /\ answer' = <<>>

\* The value before is the answer.
Put(m, s, x) ==
  /\ Present(m)
  /\ dict' = [dict EXCEPT ![m] =
       [order |-> IF Holds(m, s) THEN @.order ELSE Append(@.order, s),
        value |-> [t \in DOMAIN @.value \cup {s} |-> IF t = s THEN x ELSE @.value[t]]]]
  /\ answer' = IF Holds(m, s) THEN <<Pair(m, s)>> ELSE <<>>

Find(m, s) ==
  /\ Present(m)
  /\ answer' = IF Holds(m, s) THEN <<Pair(m, s)>> ELSE <<>>
  /\ UNCHANGED dict

\* A visitor sees the keys in the order they came, until it has enough.
Visit(m) ==
  /\ Present(m)
  /\ \E n \in 0 .. Len(dict[m].order) :
       /\ n = 0 => dict[m].order = <<>>
       /\ answer' = [i \in 1 .. n |-> Pair(m, dict[m].order[i])]
  /\ UNCHANGED dict

Destroy(m) ==
  /\ Present(m)
  /\ dict' = [dict EXCEPT ![m] = Absent]
  /\ answer' = <<>>

Next ==
  \E m \in Structs :
    \/ Create(m) \/ Visit(m) \/ Destroy(m)
    \/ \E src \in Structs : Duplicate(m, src)
    \/ \E s \in Strings : Find(m, s) \/ \E x \in Meanings : Put(m, s, x)

Spec == Init /\ [][Next]_vars

=============================================================================
