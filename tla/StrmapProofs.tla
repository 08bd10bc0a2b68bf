---------------------------- MODULE StrmapProofs ----------------------------
(***************************************************************************)
(* Proofs about Strmap, for any sets of structs, keys and values, any      *)
(* sizes, and any hsearch_r that makes room for what it is asked for.      *)
(***************************************************************************)
EXTENDS Strmap, TLAPS

\* What a struct with a table can hold.
Struct ==
  [entries : UNION {[S -> Values] : S \in SUBSET Strings}, slots : Nat,
   keys : Seq(Strings), table_alloc : 0 .. MaxTable, keys_alloc : Nat,
   val_cpy_fn : Copiers]

\* The part of Consistent about one struct.
Agrees(s) ==
  /\ Distinct(s.keys)
  /\ KeySet(s.keys) = DOMAIN s.entries
  /\ Len(s.keys) <= s.slots /\ s.slots = Slots[s.table_alloc]
  /\ Len(s.keys) <= s.keys_alloc

\* A table that can be doubled never holds more keys than were asked for.
NotOver(s) == s.table_alloc = 0 \/ Len(s.keys) <= s.table_alloc

Good(s) == s \in Struct /\ Agrees(s) /\ NotOver(s)

\* The inductive invariant.
IInv == /\ DOMAIN map = Structs
        /\ \A m \in Structs : map[m] = Zeroed \/ Good(map[m])

-----------------------------------------------------------------------------
\* ALLOC_GROW makes room for nr elements.
LEMMA GrownFits ==
  ASSUME NEW alloc \in Nat, NEW nr \in Nat
  PROVE  Grown(alloc, nr) \in Nat /\ nr <= Grown(alloc, nr)
<1>1. alloc_nr(alloc) \in Nat
  BY StrmapAssumption DEF alloc_nr
<1>2. QED
  BY <1>1 DEF Grown

\* A new key keeps the keys distinct.
LEMMA Appended ==
  ASSUME NEW keys \in Seq(Strings), NEW s \in Strings, Distinct(keys), s \notin KeySet(keys)
  PROVE  /\ Append(keys, s) \in Seq(Strings)
         /\ Len(Append(keys, s)) = Len(keys) + 1
         /\ Distinct(Append(keys, s))
         /\ KeySet(Append(keys, s)) = KeySet(keys) \cup {s}
<1>1. /\ Append(keys, s) \in Seq(Strings)
      /\ Len(keys) \in Nat /\ Len(Append(keys, s)) = Len(keys) + 1
  OBVIOUS
<1>2. /\ \A i \in 1 .. Len(keys) : Append(keys, s)[i] = keys[i] /\ keys[i] \in KeySet(keys)
      /\ Append(keys, s)[Len(keys) + 1] = s
  BY DEF KeySet
<1>3. Distinct(Append(keys, s))
  BY <1>1, <1>2 DEF Distinct
<1>4. KeySet(Append(keys, s)) = KeySet(keys) \cup {s}
  BY <1>1, <1>2 DEF KeySet
<1>5. QED
  BY <1>1, <1>3, <1>4

\* A value in the table, and one more.
LEMMA Entered ==
  ASSUME NEW e \in UNION {[S -> Values] : S \in SUBSET Strings},
         NEW s \in Strings, NEW v \in Values
  PROVE  /\ Enter(e, s, v) \in UNION {[S -> Values] : S \in SUBSET Strings}
         /\ DOMAIN Enter(e, s, v) = DOMAIN e \cup {s}
<1>1. PICK S \in SUBSET Strings : e \in [S -> Values]
  OBVIOUS
<1>2. Enter(e, s, v) \in [S \cup {s} -> Values]
  BY <1>1 DEF Enter
<1>3. S \cup {s} \in SUBSET Strings
  OBVIOUS
<1>4. QED
  BY <1>1, <1>2, <1>3 DEF Enter

\* Every key of the array is found, and leads to a copy of its value.
LEMMA CopyFacts ==
  ASSUME NEW m, Good(map[m])
  PROVE  /\ KeysFound(m)
         /\ Copied(m, map[m].val_cpy_fn) \in UNION {[S -> Values] : S \in SUBSET Strings}
         /\ DOMAIN Copied(m, map[m].val_cpy_fn) = KeySet(map[m].keys)
         /\ \A s \in KeySet(map[m].keys) :
              /\ map[m].entries[s] \in Values
              /\ Meaning[Copied(m, map[m].val_cpy_fn)[s]] = Meaning[map[m].entries[s]]
<1> DEFINE r == map[m]
<1>1. /\ r.val_cpy_fn \in Copiers /\ r.keys \in Seq(Strings)
      /\ r.entries \in UNION {[S -> Values] : S \in SUBSET Strings}
      /\ KeySet(r.keys) = DOMAIN r.entries
  BY DEF Good, Struct, Agrees
<1>2. PICK S \in SUBSET Strings : r.entries \in [S -> Values]
  BY <1>1
<1>3. KeySet(r.keys) = S
  BY <1>1, <1>2
<1>4. r.val_cpy_fn \in [Values -> Values]
      /\ \A v \in Values : Meaning[r.val_cpy_fn[v]] = Meaning[v]
  BY <1>1, StrmapAssumption
<1>5. Copied(m, r.val_cpy_fn) \in [S -> Values]
  BY <1>2, <1>3, <1>4 DEF Copied
<1>6. QED
  BY <1>2, <1>3, <1>4, <1>5 DEF Copied, KeysFound

-----------------------------------------------------------------------------
\* A map that was initialised.
LEMMA NewGood ==
  ASSUME NEW f \in Copiers, NEW size \in Sizes
  PROVE  Good([entries |-> NoEntries, slots |-> Slots[size], keys |-> <<>>,
               table_alloc |-> size, keys_alloc |-> 0, val_cpy_fn |-> f])
<1>1. NoEntries \in [{} -> Values] /\ DOMAIN NoEntries = {}
  BY DEF NoEntries
<1>2. size \in 0 .. MaxTable /\ Slots[size] \in Nat /\ MaxTable \in Nat
  BY StrmapAssumption
<1>3. KeySet(<<>>) = {} /\ Len(<<>>) = 0 /\ Distinct(<<>>) /\ <<>> \in Seq(Strings)
  BY DEF KeySet, Distinct
<1>4. NoEntries \in UNION {[S -> Values] : S \in SUBSET Strings}
  BY <1>1
<1> DEFINE t == [entries |-> NoEntries, slots |-> Slots[size], keys |-> <<>>,
                 table_alloc |-> size, keys_alloc |-> 0, val_cpy_fn |-> f]
<1>5. t \in Struct
  BY <1>2, <1>3, <1>4 DEF Struct
<1>6. Agrees(t) /\ NotOver(t)
  BY <1>1, <1>2, <1>3 DEF Agrees, NotOver
<1>7. QED
  BY <1>5, <1>6 DEF Good

\* A map with copied entries and a table at least as large.
LEMMA CopyGood ==
  ASSUME NEW m, Good(map[m]), NEW size \in 0 .. MaxTable,
         size = map[m].table_alloc \/ size = 2 * map[m].table_alloc,
         Len(map[m].keys) <= Slots[size]
  PROVE  Good([entries |-> Copied(m, map[m].val_cpy_fn), slots |-> Slots[size],
               keys |-> map[m].keys, table_alloc |-> size,
               keys_alloc |-> map[m].keys_alloc, val_cpy_fn |-> map[m].val_cpy_fn])
<1>1. /\ map[m].table_alloc \in Nat /\ Len(map[m].keys) \in Nat
      /\ Slots[size] \in Nat /\ MaxTable \in Nat
  BY StrmapAssumption DEF Good, Struct
<1>2. size = 0 \/ Len(map[m].keys) <= size
  BY <1>1 DEF Good, NotOver
<1>3. QED
  BY <1>1, <1>2, CopyFacts DEF Good, Struct, Agrees, NotOver

\* The struct with which strmap_put goes on.
LEMMA ResizedGood ==
  ASSUME NEW m, Good(map[m]), Resizes(m) => 2 * map[m].table_alloc <= MaxTable,
         Len(map[m].keys) < Resized(m).slots
  PROVE  /\ Good(Resized(m))
         /\ Resized(m).keys = map[m].keys
         /\ Resized(m).table_alloc = 0 \/ Len(map[m].keys) + 1 <= Resized(m).table_alloc
<1>1. /\ map[m] \in Struct /\ map[m].table_alloc \in Nat /\ Len(map[m].keys) \in Nat
      /\ MaxTable \in Nat
  BY StrmapAssumption DEF Good, Struct
<1>2. CASE ~Resizes(m)
  BY <1>1, <1>2 DEF Resized, Resizes, Good
<1>3. CASE Resizes(m)
  <2> DEFINE size == 2 * map[m].table_alloc
             t == [entries |-> Copied(m, map[m].val_cpy_fn), slots |-> Slots[size],
                   keys |-> map[m].keys, table_alloc |-> size,
                   keys_alloc |-> map[m].keys_alloc, val_cpy_fn |-> map[m].val_cpy_fn]
  <2>1. Resized(m) = t
    BY <1>1, <1>3 DEF Resized, Struct
  <2>2. size \in 0 .. MaxTable /\ Len(map[m].keys) <= Slots[size]
    BY <1>1, <1>3, <2>1, StrmapAssumption
  <2>3. Good(t)
    BY <2>2, CopyGood
  <2>4. size = 0 \/ Len(map[m].keys) + 1 <= size
    BY <1>1 DEF Good, NotOver
  <2>5. QED
    BY <2>1, <2>3, <2>4
<1>4. QED
  BY <1>2, <1>3

\* The struct behind a new key.
LEMMA AddGood ==
  ASSUME NEW m, Good(map[m]), NEW s \in Strings, NEW v \in Values, ~InTable(m, s),
         Resizes(m) => 2 * map[m].table_alloc <= MaxTable,
         Len(map[m].keys) < Resized(m).slots
  PROVE  Good([Resized(m) EXCEPT !.entries = Enter(@, s, v), !.keys = Append(@, s),
                                 !.keys_alloc = Grown(@, Len(map[m].keys) + 1)])
<1> DEFINE r == Resized(m)
<1>1. /\ Good(r) /\ r.keys = map[m].keys
      /\ r.table_alloc = 0 \/ Len(map[m].keys) + 1 <= r.table_alloc
  BY ResizedGood
<1>2. /\ r \in Struct /\ r.keys \in Seq(Strings) /\ Len(r.keys) \in Nat
      /\ r.keys_alloc \in Nat /\ r.slots \in Nat
      /\ r.entries \in UNION {[S -> Values] : S \in SUBSET Strings}
      /\ Distinct(r.keys) /\ KeySet(r.keys) = DOMAIN r.entries
      /\ r.slots = Slots[r.table_alloc]
  BY <1>1 DEF Good, Struct, Agrees
<1>3. s \notin KeySet(r.keys)
  BY <1>1 DEF Good, Agrees, InTable
<1>4. /\ Append(r.keys, s) \in Seq(Strings) /\ Len(Append(r.keys, s)) = Len(r.keys) + 1
      /\ Distinct(Append(r.keys, s)) /\ KeySet(Append(r.keys, s)) = KeySet(r.keys) \cup {s}
  BY <1>2, <1>3, Appended
<1>5. /\ Enter(r.entries, s, v) \in UNION {[S -> Values] : S \in SUBSET Strings}
      /\ DOMAIN Enter(r.entries, s, v) = DOMAIN r.entries \cup {s}
  BY <1>2, Entered
<1>6. /\ Grown(r.keys_alloc, Len(r.keys) + 1) \in Nat
      /\ Len(r.keys) + 1 <= Grown(r.keys_alloc, Len(r.keys) + 1)
  <2>1. Len(r.keys) + 1 \in Nat
    BY <1>2
  <2>2. QED
    BY <1>2, <2>1, GrownFits
<1> DEFINE t == [r EXCEPT !.entries = Enter(@, s, v), !.keys = Append(@, s),
                          !.keys_alloc = Grown(@, Len(r.keys) + 1)]
<1>7. /\ t.entries = Enter(r.entries, s, v) /\ t.keys = Append(r.keys, s)
      /\ t.keys_alloc = Grown(r.keys_alloc, Len(r.keys) + 1)
      /\ t.slots = r.slots /\ t.table_alloc = r.table_alloc
  BY <1>2 DEF Struct
<1>8. t \in Struct
  BY <1>2, <1>4, <1>5, <1>6 DEF Struct
<1>9. Len(r.keys) < r.slots
  BY <1>1
<1> HIDE DEF r, t
<1>10. Len(t.keys) <= t.slots /\ Len(t.keys) <= t.keys_alloc
  BY <1>2, <1>4, <1>6, <1>7, <1>9
<1>11. Agrees(t)
  BY <1>2, <1>4, <1>5, <1>7, <1>10 DEF Agrees
<1>12. NotOver(t)
  BY <1>1, <1>4, <1>7 DEF NotOver
<1>13. QED
  BY <1>1, <1>8, <1>11, <1>12 DEF Good, r, t

-----------------------------------------------------------------------------
\* What a step does to the structs: one of them is exchanged for a good one or
\* zeroed, or none changes.
MapStep ==
  \/ map' = map
  \/ \E m \in Structs : \E t : map' = [map EXCEPT ![m] = t] /\ (t = Zeroed \/ Good(t))

LEMMA InitSteps ==
  ASSUME IInv, NEW m \in Structs, NEW f \in Copiers, NEW size \in Sizes,
         strmap_init_size(m, f, size)
  PROVE  MapStep
<1> DEFINE t == [entries |-> NoEntries, slots |-> Slots[size], keys |-> <<>>,
                 table_alloc |-> size, keys_alloc |-> 0, val_cpy_fn |-> f]
<1>1. Good(t)
  BY NewGood
<1>2. map' = map \/ map' = [map EXCEPT ![m] = t]
  BY DEF strmap_init_size, Die
<1> HIDE DEF t
<1>3. QED
  BY <1>1, <1>2 DEF MapStep

LEMMA CpySteps ==
  ASSUME IInv, NEW dst \in Structs, NEW src \in Structs, strmap_cpy(dst, src)
  PROVE  MapStep
<1> DEFINE t == [entries |-> Copied(src, map[src].val_cpy_fn),
                 slots |-> Slots[map[src].table_alloc], keys |-> map[src].keys,
                 table_alloc |-> map[src].table_alloc,
                 keys_alloc |-> map[src].keys_alloc, val_cpy_fn |-> map[src].val_cpy_fn]
<1>1. CASE map' = map
  BY <1>1 DEF MapStep
<1>2. CASE map' # map
  <2>1. /\ ~Uninitialized(src) /\ ~(Len(map[src].keys) > Slots[map[src].table_alloc])
        /\ map' = [map EXCEPT ![dst] = t]
    BY <1>2 DEF strmap_cpy, Die
  <2>2. Good(map[src])
    BY <2>1 DEF IInv, Uninitialized
  <2>3. /\ map[src].table_alloc \in 0 .. MaxTable
        /\ Len(map[src].keys) <= Slots[map[src].table_alloc]
    BY <2>2 DEF Good, Struct, Agrees
  <2>4. Good(t)
    BY <2>2, <2>3, CopyGood
  <2> HIDE DEF t
  <2>5. QED
    BY <2>1, <2>4 DEF MapStep
<1>3. QED
  BY <1>1, <1>2

LEMMA ReplaceSteps ==
  ASSUME IInv, NEW m \in Structs, NEW s \in Strings, NEW v \in Values,
         ~Uninitialized(m), InTable(m, s), Replace(m, s, v)
  PROVE  MapStep
<1> DEFINE t == [map[m] EXCEPT !.entries = Enter(map[m].entries, s, v)]
<1>1. Good(map[m])
  BY DEF IInv, Uninitialized
<1>2. /\ map[m] \in Struct /\ map[m].entries \in UNION {[S -> Values] : S \in SUBSET Strings}
      /\ s \in DOMAIN map[m].entries
  BY <1>1 DEF Good, Struct, InTable
<1>3. /\ Enter(map[m].entries, s, v) \in UNION {[S -> Values] : S \in SUBSET Strings}
      /\ DOMAIN Enter(map[m].entries, s, v) = DOMAIN map[m].entries
  <2> DEFINE e == map[m].entries
  <2>1. e \in UNION {[S -> Values] : S \in SUBSET Strings} /\ s \in DOMAIN e
    BY <1>2
  <2> HIDE DEF e
  <2>2. /\ Enter(e, s, v) \in UNION {[S -> Values] : S \in SUBSET Strings}
        /\ DOMAIN Enter(e, s, v) = DOMAIN e \cup {s}
    BY ONLY <2>1, Entered, s \in Strings, v \in Values
  <2>3. DOMAIN e \cup {s} = DOMAIN e
    BY <2>1
  <2>4. QED
    BY <2>2, <2>3 DEF e
<1>4. /\ t \in Struct
      /\ t.entries = Enter(map[m].entries, s, v) /\ t.keys = map[m].keys
      /\ t.slots = map[m].slots /\ t.table_alloc = map[m].table_alloc
      /\ t.keys_alloc = map[m].keys_alloc
  BY <1>2, <1>3 DEF Struct
<1>5. map' = [map EXCEPT ![m] = t]
  BY DEF Replace, IInv
<1> HIDE DEF t
<1>6. Agrees(t) /\ NotOver(t)
  <2>1. Agrees(map[m]) /\ NotOver(map[m])
    BY <1>1 DEF Good
  <2>2. QED
    BY <1>3, <1>4, <2>1 DEF Agrees, NotOver
<1>7. QED
  BY <1>4, <1>5, <1>6 DEF MapStep, Good

LEMMA AddSteps ==
  ASSUME IInv, NEW m \in Structs, NEW s \in Strings, NEW v \in Values,
         ~Uninitialized(m), ~InTable(m, s), Add(m, s, v)
  PROVE  MapStep
<1> DEFINE t == [Resized(m) EXCEPT !.entries = Enter(@, s, v), !.keys = Append(@, s),
                                   !.keys_alloc = Grown(@, Len(map[m].keys) + 1)]
<1>1. CASE map' = map
  BY <1>1 DEF MapStep
<1>2. CASE map' # map
  <2>1. /\ ~(Resizes(m) /\ 2 * map[m].table_alloc > MaxTable)
        /\ ~FullTable(Resized(m).slots, Len(map[m].keys))
        /\ map' = [map EXCEPT ![m] = t]
    BY <1>2 DEF Add, Die
  <2>2. Good(map[m])
    BY DEF IInv, Uninitialized
  <2>3. /\ MaxTable \in Nat /\ map[m].table_alloc \in Nat /\ Len(map[m].keys) \in Nat
        /\ Resizes(m) => 2 * map[m].table_alloc <= MaxTable
    BY <2>1, <2>2, StrmapAssumption DEF Good, Struct
  <2>4. Resized(m).slots \in Nat
    <3>1. CASE ~Resizes(m)
      BY <2>2, <3>1 DEF Resized, Good, Struct
    <3>2. CASE Resizes(m)
      <4>1. 2 * map[m].table_alloc \in 0 .. MaxTable
        BY <2>3, <3>2
      <4>2. Resized(m).slots = Slots[2 * map[m].table_alloc]
        BY <2>2, <3>2 DEF Resized, Good, Struct
      <4>3. QED
        BY <4>1, <4>2, StrmapAssumption
    <3>3. QED
      BY <3>1, <3>2
  <2>5. Len(map[m].keys) < Resized(m).slots
    BY <2>1, <2>3, <2>4 DEF FullTable
  <2>6. Good(t)
    BY <2>2, <2>3, <2>5, AddGood
  <2> HIDE DEF t
  <2>7. QED
    BY <2>1, <2>6 DEF MapStep
<1>3. QED
  BY <1>1, <1>2

\* Every step of Strmap is such a step.
LEMMA EveryStep ==
  ASSUME IInv, [Next]_vars
  PROVE  MapStep
<1>1. ASSUME NEW m \in Structs, NEW f \in Copiers, NEW size \in Sizes,
             strmap_init_size(m, f, size)
      PROVE  MapStep
  BY <1>1, InitSteps
<1>2. ASSUME NEW m \in Structs, NEW src \in Structs, strmap_cpy(m, src)
      PROVE  MapStep
  BY <1>2, CpySteps
<1>3. ASSUME NEW m \in Structs, NEW s \in Strings, strmap_find(m, s)
      PROVE  MapStep
  BY <1>3 DEF strmap_find, Die, MapStep
<1>4. ASSUME NEW m \in Structs, NEW s \in Strings, NEW v \in Values, strmap_put(m, s, v)
      PROVE  MapStep
  <2>1. CASE Uninitialized(m)
    BY <1>4, <2>1 DEF strmap_put, Die, MapStep
  <2>2. CASE ~Uninitialized(m) /\ InTable(m, s)
    BY <1>4, <2>2, ReplaceSteps DEF strmap_put
  <2>3. CASE ~Uninitialized(m) /\ ~InTable(m, s)
    BY <1>4, <2>3, AddSteps DEF strmap_put
  <2>4. QED
    BY <2>1, <2>2, <2>3
<1>5. ASSUME NEW m \in Structs, strmap_iterate(m)
      PROVE  MapStep
  BY <1>5 DEF strmap_iterate, Die, MapStep
<1>6. ASSUME NEW m \in Structs, strmap_destroy(m)
      PROVE  MapStep
  BY <1>6 DEF strmap_destroy, Die, MapStep
<1>7. CASE Exited \/ UNCHANGED vars
  BY <1>7 DEF Exited, vars, MapStep
<1>8. QED
  BY <1>1, <1>2, <1>3, <1>4, <1>5, <1>6, <1>7 DEF Next

\* The invariant holds throughout.
THEOREM Invariant == Spec => []IInv
<1>1. Init => IInv
  BY DEF Init, IInv
<1>2. IInv /\ [Next]_vars => IInv'
  <2>1. SUFFICES ASSUME IInv, [Next]_vars PROVE IInv'
    OBVIOUS
  <2>2. MapStep
    BY <2>1, EveryStep
  <2>3. CASE map' = map
    BY <2>1, <2>3 DEF IInv, Good
  <2>4. ASSUME NEW m \in Structs, NEW t, map' = [map EXCEPT ![m] = t],
               t = Zeroed \/ Good(t)
        PROVE  IInv'
    <3>1. DOMAIN map' = Structs /\ map'[m] = t
          /\ \A n \in Structs : n # m => map'[n] = map[n]
      BY <2>1, <2>4 DEF IInv
    <3>2. QED
      BY <2>1, <2>4, <3>1 DEF IInv
  <2>5. QED
    BY <2>2, <2>3, <2>4 DEF MapStep
<1>3. QED
  BY <1>1, <1>2, PTL DEF Spec

\* The array of keys and the table of every map agree, and neither holds more than was
\* allocated for it, whatever was put, copied and resized.
THEOREM KeysAgree == Spec => []Consistent
<1>1. IInv => Consistent
  BY DEF IInv, Good, Agrees, Consistent, Uninitialized
<1>2. QED
  BY <1>1, Invariant, PTL

-----------------------------------------------------------------------------
\* A table of ta entries that holds nr, with one more to come.
LEMMA Room ==
  ASSUME NEW ta \in 0 .. MaxTable, NEW nr \in Nat, nr <= Slots[ta], ta = 0 \/ nr <= ta
  PROVE  /\ nr + 1 > ta /\ 2 * ta > MaxTable => nr = ta
         /\ FullTable(Slots[ta], nr) => nr + 1 > ta
         /\ FullTable(Slots[2 * ta], nr) /\ ~(2 * ta > MaxTable) =>
              ta = 0 /\ nr = Slots[0]
<1>1. MaxTable \in Nat /\ ta \in Nat /\ Slots[ta] \in Nat /\ Slots[ta] >= ta
  BY StrmapAssumption
<1>2. nr + 1 > ta /\ 2 * ta > MaxTable => nr = ta
  BY <1>1
<1>3. FullTable(Slots[ta], nr) => nr + 1 > ta
  BY <1>1 DEF FullTable
<1>4. ASSUME FullTable(Slots[2 * ta], nr), ~(2 * ta > MaxTable)
      PROVE  ta = 0 /\ nr = Slots[0]
  <2>1. 2 * ta \in 0 .. MaxTable
    BY <1>1, <1>4
  <2>2. Slots[2 * ta] \in Nat /\ Slots[2 * ta] >= 2 * ta
    BY <2>1, StrmapAssumption
  <2>3. ta = 0
    BY <1>1, <1>4, <2>2 DEF FullTable
  <2>4. Slots[0] \in Nat /\ Slots[2 * ta] = Slots[0]
    BY <1>1, <2>3
  <2>5. QED
    BY <1>4, <2>3, <2>4 DEF FullTable
<1>5. QED
  BY <1>2, <1>3, <1>4

\* What strmap_put of a new key can die of.
LEMMA AddDies ==
  ASSUME IInv, died = "no", NEW m \in Structs, NEW s \in Strings, NEW v \in Values,
         ~Uninitialized(m), Add(m, s, v)
  PROVE  RoomUnlessZero'
<1> DEFINE ta == map[m].table_alloc
           nr == Len(map[m].keys)
<1>1. Good(map[m])
  BY DEF IInv, Uninitialized
<1>2. /\ ta \in 0 .. MaxTable /\ nr \in Nat /\ nr <= Slots[ta]
      /\ ta = 0 \/ nr <= ta
      /\ map[m].slots = Slots[ta]
  BY <1>1 DEF Good, Struct, Agrees, NotOver
<1>3. /\ nr + 1 > ta /\ 2 * ta > MaxTable => nr = ta
      /\ FullTable(Slots[ta], nr) => nr + 1 > ta
      /\ FullTable(Slots[2 * ta], nr) /\ ~(2 * ta > MaxTable) => ta = 0 /\ nr = Slots[0]
  <2> HIDE DEF ta, nr
  <2>1. QED
    BY <1>2, Room
<1>4. Resizes(m) => Resized(m).slots = Slots[2 * ta]
  BY <1>1 DEF Resized, Good, Struct
<1>5. ~Resizes(m) => nr + 1 <= ta /\ Resized(m).slots = Slots[ta]
  BY <1>2 DEF Resized, Resizes
<1>6. CASE died' = "no"
  BY <1>6 DEF RoomUnlessZero
<1>7. CASE died' # "no"
  <2>1. KeysFound(m)
    BY <1>1, CopyFacts
  <2>2. /\ map' = map
        /\ \/ died' = "no memory" /\ Resizes(m) /\ 2 * ta > MaxTable
           \/ /\ died' = "no room" /\ ~(Resizes(m) /\ 2 * ta > MaxTable)
              /\ FullTable(Resized(m).slots, nr)
    BY <1>7, <2>1 DEF Add, Die, Return
  <2>3. ~Uninitialized(m)'
    BY <2>2 DEF Uninitialized
  <2>4. Resizes(m) <=> nr + 1 > ta
    BY DEF Resizes
  <2>5. CASE died' = "no memory" /\ Resizes(m) /\ 2 * ta > MaxTable
    <3>1. nr = ta
      BY <1>3, <2>4, <2>5
    <3>2. QED
      BY <2>2, <2>3, <2>5, <3>1 DEF RoomUnlessZero
  <2>6. CASE /\ died' = "no room" /\ ~(Resizes(m) /\ 2 * ta > MaxTable)
             /\ FullTable(Resized(m).slots, nr)
    <3>1. Resizes(m)
      BY <1>3, <1>5, <2>4, <2>6
    <3>2. ta = 0 /\ nr = Slots[0]
      BY <1>3, <1>4, <2>6, <3>1
    <3>3. QED
      BY <2>2, <2>3, <2>6, <3>2 DEF RoomUnlessZero
  <2>7. QED
    BY <2>2, <2>5, <2>6
<1>8. QED
  BY <1>6, <1>7

\* A program that uses maps as strmap.h asks for dies of nothing but a full table that
\* cannot be doubled: no key is ever lost, and a copy always has room.
THEOREM NoKeyLost == Spec => []RoomUnlessZero
<1>1. Init => RoomUnlessZero
  BY DEF Init, RoomUnlessZero
<1>2. IInv /\ RoomUnlessZero /\ [Next]_vars => RoomUnlessZero'
  <2>1. SUFFICES ASSUME IInv, RoomUnlessZero, [Next]_vars PROVE RoomUnlessZero'
    OBVIOUS
  <2>2. \A m \in Structs : Uninitialized(m) \/ Good(map[m])
    BY <2>1 DEF IInv, Uninitialized
  <2>3. ASSUME NEW m \in Structs, NEW f \in Copiers, NEW size \in Sizes,
               strmap_init_size(m, f, size)
        PROVE  RoomUnlessZero'
    BY <2>3 DEF strmap_init_size, Running, Die, Return, RoomUnlessZero
  <2>4. ASSUME NEW m \in Structs, NEW src \in Structs, strmap_cpy(m, src)
        PROVE  RoomUnlessZero'
    <3>1. ~Uninitialized(src) =>
            KeysFound(src) /\ ~(Len(map[src].keys) > Slots[map[src].table_alloc])
      <4>1. SUFFICES ASSUME Good(map[src])
                     PROVE  /\ KeysFound(src)
                            /\ ~(Len(map[src].keys) > Slots[map[src].table_alloc])
        BY <2>2
      <4>2. /\ Len(map[src].keys) \in Nat /\ map[src].slots \in Nat
            /\ Len(map[src].keys) <= map[src].slots
            /\ map[src].slots = Slots[map[src].table_alloc]
        BY <4>1 DEF Good, Struct, Agrees
      <4>3. QED
        BY <4>1, <4>2, CopyFacts
    <3>2. died' \in {"no", "misuse"}
      BY <2>4, <3>1 DEF strmap_cpy, Running, Die, Return
    <3>3. QED
      BY <3>2 DEF RoomUnlessZero
  <2>5. ASSUME NEW m \in Structs, NEW s \in Strings, strmap_find(m, s)
        PROVE  RoomUnlessZero'
    BY <2>5 DEF strmap_find, Running, Die, Return, RoomUnlessZero
  <2>6. ASSUME NEW m \in Structs, NEW s \in Strings, NEW v \in Values, strmap_put(m, s, v)
        PROVE  RoomUnlessZero'
    <3>1. CASE Uninitialized(m)
      BY <2>6, <3>1 DEF strmap_put, Die, RoomUnlessZero
    <3>2. CASE ~Uninitialized(m) /\ InTable(m, s)
      BY <2>6, <3>2 DEF strmap_put, Running, Replace, Return, RoomUnlessZero
    <3>3. CASE ~Uninitialized(m) /\ ~InTable(m, s)
      BY <2>1, <2>6, <3>3, AddDies DEF strmap_put, Running
    <3>4. QED
      BY <3>1, <3>2, <3>3
  <2>7. ASSUME NEW m \in Structs, strmap_iterate(m)
        PROVE  RoomUnlessZero'
    <3>1. CASE Uninitialized(m)
      BY <2>7, <3>1 DEF strmap_iterate, Die, RoomUnlessZero
    <3>2. CASE ~Uninitialized(m)
      <4>1. /\ Len(map[m].keys) \in Nat
            /\ \A i \in 1 .. Len(map[m].keys) : InTable(m, map[m].keys[i])
        BY <2>2, <3>2 DEF Good, Struct, Agrees, KeySet, InTable
      <4>2. died' = "no"
        <5>1. \A n \in 0 .. Len(map[m].keys) :
                 \A i \in 1 .. n : InTable(m, map[m].keys[i])
          BY <4>1
        <5>2. QED
          BY <2>7, <3>2, <5>1 DEF strmap_iterate, Running, Return
      <4>3. QED
        BY <4>2 DEF RoomUnlessZero
    <3>3. QED
      BY <3>1, <3>2
  <2>8. ASSUME NEW m \in Structs, strmap_destroy(m)
        PROVE  RoomUnlessZero'
    BY <2>8 DEF strmap_destroy, Running, Die, Return, RoomUnlessZero
  <2>9. CASE Exited \/ UNCHANGED vars
    BY <2>1, <2>9 DEF Exited, vars, RoomUnlessZero, Uninitialized
  <2>10. QED
    BY <2>1, <2>3, <2>4, <2>5, <2>6, <2>7, <2>8, <2>9 DEF Next
<1>3. QED
  BY <1>1, <1>2, Invariant, PTL DEF Spec

-----------------------------------------------------------------------------
(***************************************************************************)
(* The refinement.                                                         *)
(***************************************************************************)
\* What the state of the abstract map is: View(s) for a struct, Seen(a) for an answer.
View(s) ==
  IF s = Zeroed THEN [order |-> "none"]
  ELSE [order |-> s.keys, value |-> [k \in DOMAIN s.entries |-> Meaning[s.entries[k]]]]
Seen(a) == [i \in 1 .. Len(a) |-> <<a[i][1], Meaning[a[i][2]]>>]

dict == [m \in Structs |-> Contents(m)]

\* A zeroed struct is no map, and any other is one.
LEMMA ViewPresent ==
  /\ View(Zeroed) = [order |-> "none"]
  /\ \A s : s # Zeroed =>
       /\ View(s).order = s.keys
       /\ View(s).value = [k \in DOMAIN s.entries |-> Meaning[s.entries[k]]]
       /\ View(s) # [order |-> "none"]
<1>1. ASSUME NEW s, s # Zeroed
      PROVE  /\ View(s).order = s.keys
             /\ View(s).value = [k \in DOMAIN s.entries |-> Meaning[s.entries[k]]]
             /\ View(s) # [order |-> "none"]
  <2>1. DOMAIN View(s) = {"order", "value"}
    BY <1>1 DEF View
  <2>2. DOMAIN [order |-> "none"] = {"order"}
    OBVIOUS
  <2>3. QED
    BY <1>1, <2>1, <2>2 DEF View
<1>2. QED
  BY <1>1 DEF View

LEMMA DictFacts ==
  /\ \A m \in Structs : dict[m] = View(map[m]) /\ (Abstract!Present(m) <=> ~Uninitialized(m))
  /\ dict' = [m \in Structs |-> View(map'[m])]
<1>1. \A m \in Structs : dict[m] = View(map[m])
  BY DEF dict, Contents, View, Uninitialized
<1>2. dict' = [m \in Structs |-> View(map'[m])]
  BY DEF dict, Contents, View, Uninitialized
<1>3. ASSUME NEW m \in Structs PROVE Abstract!Present(m) <=> ~Uninitialized(m)
  BY <1>1, ViewPresent, ZenonT(60) DEF Abstract!Present, Abstract!Absent, Uninitialized, dict
<1>4. QED
  BY <1>1, <1>2, <1>3

\* One struct changes.
LEMMA OneChanges ==
  ASSUME IInv, NEW m \in Structs, NEW t, map' = [map EXCEPT ![m] = t]
  PROVE  dict' = [dict EXCEPT ![m] = View(t)]
<1>1. map'[m] = t /\ \A n \in Structs : n # m => map'[n] = map[n]
  BY DEF IInv
<1>2. DOMAIN dict = Structs /\ DOMAIN dict' = Structs
  BY DEF dict
<1>3. dict' = [n \in Structs |-> IF n = m THEN View(t) ELSE dict[n]]
  BY <1>1, DictFacts
<1>4. [dict EXCEPT ![m] = View(t)] = [n \in Structs |-> IF n = m THEN View(t) ELSE dict[n]]
  BY <1>2
<1>5. QED
  BY <1>3, <1>4

\* None changes, or the program dies.
LEMMA NoneChanges ==
  ASSUME map' = map
  PROVE  dict' = dict
BY DictFacts DEF dict

\* What an answer looks like from outside.
LEMMA SeenEmpty == Seen(<<>>) = <<>>
BY DEF Seen

LEMMA SeenPair ==
  ASSUME NEW s, NEW v
  PROVE  Seen(<< <<s, v>> >>) = << <<s, Meaning[v]>> >>
BY DEF Seen

LEMMA SeenWalk ==
  ASSUME NEW n \in Nat, NEW keys, NEW e
  PROVE  Seen([i \in 1 .. n |-> <<keys[i], e[keys[i]]>>])
           = [i \in 1 .. n |-> <<keys[i], Meaning[e[keys[i]]]>>]
<1> DEFINE a == [i \in 1 .. n |-> <<keys[i], e[keys[i]]>>]
<1>1. Len(a) = n
  OBVIOUS
<1>2. \A i \in 1 .. n : a[i][1] = keys[i] /\ a[i][2] = e[keys[i]]
  OBVIOUS
<1> HIDE DEF a
<1>3. Seen(a) = [i \in 1 .. n |-> <<keys[i], Meaning[e[keys[i]]]>>]
  BY <1>1, <1>2 DEF Seen
<1>4. QED
  BY <1>3 DEF a

\* A call that changes no struct and gives no answer, or dies, is a stutter.
LEMMA Stutters ==
  ASSUME UNCHANGED <<map, answer>>
  PROVE  UNCHANGED Abstract!vars
<1>1. dict' = dict
  BY NoneChanges
<1>2. Seen(answer)' = Seen(answer)
  BY DEF Seen
<1>3. QED
  BY <1>1, <1>2 DEF Abstract!vars, dict, Seen

LEMMA InitMaps == Init => Abstract!Init
<1>1. SUFFICES ASSUME Init PROVE Abstract!Init
  OBVIOUS
<1>2. \A m \in Structs : Contents(m) = [order |-> "none"]
  BY <1>1 DEF Init, Contents, Uninitialized
<1>3. Seen(answer) = <<>>
  BY <1>1, SeenEmpty DEF Init
<1>4. QED
  BY <1>2, <1>3 DEF Abstract!Init, Abstract!Absent, Seen

LEMMA CreateMaps ==
  ASSUME IInv, NEW m \in Structs, NEW f \in Copiers, NEW size \in Sizes,
         strmap_init_size(m, f, size)
  PROVE  Abstract!Create(m) \/ UNCHANGED Abstract!vars
<1> DEFINE t == [entries |-> NoEntries, slots |-> Slots[size], keys |-> <<>>,
                 table_alloc |-> size, keys_alloc |-> 0, val_cpy_fn |-> f]
<1>1. CASE ~Uninitialized(m)
  BY <1>1, Stutters DEF strmap_init_size, Die
<1>2. CASE Uninitialized(m)
  <2>1. map' = [map EXCEPT ![m] = t] /\ answer' = <<>>
    BY <1>2 DEF strmap_init_size, Return
  <2>2. View(t) = [order |-> <<>>, value |-> [s \in {} |-> s]]
    <3>1. t # Zeroed
      <4>1. DOMAIN t # DOMAIN Zeroed
        BY DEF Zeroed
      <4>2. QED
        BY <4>1
    <3>2. [k \in DOMAIN NoEntries |-> Meaning[NoEntries[k]]] = [s \in {} |-> s]
      BY DEF NoEntries
    <3>3. QED
      BY <3>1, <3>2 DEF View
  <2>3. dict' = [dict EXCEPT ![m] = View(t)]
    BY <2>1, OneChanges
  <2>4. Seen(answer)' = <<>>
    BY <2>1, SeenEmpty DEF Seen
  <2>5. ~Abstract!Present(m)
    BY <1>2, DictFacts
  <2>6. QED
    BY <2>2, <2>3, <2>4, <2>5 DEF Abstract!Create, Abstract!New, dict, Seen
<1>3. QED
  BY <1>1, <1>2

LEMMA DuplicateMaps ==
  ASSUME IInv, NEW dst \in Structs, NEW src \in Structs, strmap_cpy(dst, src)
  PROVE  Abstract!Duplicate(dst, src) \/ UNCHANGED Abstract!vars
<1> DEFINE t == [entries |-> Copied(src, map[src].val_cpy_fn),
                 slots |-> Slots[map[src].table_alloc], keys |-> map[src].keys,
                 table_alloc |-> map[src].table_alloc,
                 keys_alloc |-> map[src].keys_alloc, val_cpy_fn |-> map[src].val_cpy_fn]
<1>1. CASE UNCHANGED <<map, answer>>
  BY <1>1, Stutters
<1>2. CASE ~UNCHANGED <<map, answer>>
  <2>1. /\ ~Uninitialized(src) /\ Uninitialized(dst)
        /\ map' = [map EXCEPT ![dst] = t] /\ answer' = <<>>
    BY <1>2 DEF strmap_cpy, Die, Return
  <2>2. Good(map[src])
    BY <2>1 DEF IInv, Uninitialized
  <2>3. View(t) = View(map[src])
    <3>1. t # Zeroed /\ map[src] # Zeroed
      <4>1. DOMAIN t # DOMAIN Zeroed
        BY DEF Zeroed
      <4>2. QED
        BY <2>1, <4>1 DEF Uninitialized
    <3>2. [k \in DOMAIN t.entries |-> Meaning[t.entries[k]]]
            = [k \in DOMAIN map[src].entries |-> Meaning[map[src].entries[k]]]
      <4>1. DOMAIN t.entries = DOMAIN map[src].entries
            /\ \A k \in DOMAIN map[src].entries :
                 Meaning[t.entries[k]] = Meaning[map[src].entries[k]]
        <5>1. KeySet(map[src].keys) = DOMAIN map[src].entries
          BY <2>2 DEF Good, Agrees
        <5>2. QED
          BY <2>2, <5>1, CopyFacts
      <4>2. QED
        BY <4>1
    <3>3. t.keys = map[src].keys
      OBVIOUS
    <3> HIDE DEF t
    <3>4. QED
      BY <3>1, <3>2, <3>3 DEF View
  <2>4. dict' = [dict EXCEPT ![dst] = View(t)]
    BY <2>1, OneChanges
  <2>5. Seen(answer)' = <<>>
    BY <2>1, SeenEmpty DEF Seen
  <2>6. Abstract!Present(src) /\ ~Abstract!Present(dst) /\ dict[src] = View(map[src])
    BY <2>1, DictFacts
  <2> HIDE DEF t
  <2>7. QED
    BY <2>3, <2>4, <2>5, <2>6 DEF Abstract!Duplicate, dict, Seen
<1>3. QED
  BY <1>1, <1>2

LEMMA FindMaps ==
  ASSUME IInv, NEW m \in Structs, NEW s \in Strings, strmap_find(m, s)
  PROVE  Abstract!Find(m, s) \/ UNCHANGED Abstract!vars
<1>1. CASE Uninitialized(m)
  BY <1>1, Stutters DEF strmap_find, Die
<1>2. CASE ~Uninitialized(m)
  <2>1. /\ map' = map
        /\ answer' = IF InTable(m, s) THEN << <<s, map[m].entries[s]>> >> ELSE <<>>
    BY <1>2 DEF strmap_find, Return
  <2>2. Abstract!Present(m) /\ dict[m] = View(map[m]) /\ map[m] # Zeroed
    BY <1>2, DictFacts DEF Uninitialized
  <2>3. /\ dict[m].value = [k \in DOMAIN map[m].entries |-> Meaning[map[m].entries[k]]]
        /\ InTable(m, s) <=> s \in DOMAIN dict[m].value
    BY <2>2, ViewPresent DEF InTable
  <2>4. Seen(answer)' = IF s \in DOMAIN dict[m].value
                        THEN << <<s, dict[m].value[s]>> >> ELSE <<>>
    <3>1. CASE InTable(m, s)
      <4>1. Seen(answer)' = << <<s, Meaning[map[m].entries[s]]>> >>
        BY <2>1, <3>1, SeenPair DEF Seen
      <4>2. QED
        BY <2>3, <3>1, <4>1 DEF InTable
    <3>2. CASE ~InTable(m, s)
      BY <2>1, <2>3, <3>2, SeenEmpty DEF Seen
    <3>3. QED
      BY <3>1, <3>2
  <2>5. dict' = dict
    BY <2>1, NoneChanges
  <2>6. QED
    BY <2>2, <2>4, <2>5 DEF Abstract!Find, Abstract!Holds, Abstract!Pair, dict, Seen
<1>3. QED
  BY <1>1, <1>2

\* A value that is put, whichever of the two ways strmap_put takes.
LEMMA PutAbstract ==
  ASSUME IInv, NEW m \in Structs, NEW s \in Strings, NEW v \in Values, NEW t,
         Good(map[m]), map[m] # Zeroed, t # Zeroed,
         map' = [map EXCEPT ![m] = t],
         t.keys = IF InTable(m, s) THEN map[m].keys ELSE Append(map[m].keys, s),
         DOMAIN t.entries = DOMAIN map[m].entries \cup {s},
         \A k \in DOMAIN t.entries :
           Meaning[t.entries[k]] = IF k = s THEN Meaning[v] ELSE Meaning[map[m].entries[k]],
         answer' = IF InTable(m, s) THEN << <<s, map[m].entries[s]>> >> ELSE <<>>
  PROVE  Abstract!Put(m, s, Meaning[v])
<1> DEFINE old == dict[m]
           new == [order |-> IF s \in DOMAIN old.value THEN old.order ELSE Append(old.order, s),
                   value |-> [k \in DOMAIN old.value \cup {s} |->
                                IF k = s THEN Meaning[v] ELSE old.value[k]]]
<1>1. /\ Abstract!Present(m) /\ old = View(map[m])
      /\ old.order = map[m].keys
      /\ old.value = [k \in DOMAIN map[m].entries |-> Meaning[map[m].entries[k]]]
  BY DictFacts, ViewPresent DEF Uninitialized
<1>2. InTable(m, s) <=> s \in DOMAIN old.value
  BY <1>1 DEF InTable
<1>3. View(t) = new
  <2>1. View(t) = [order |-> t.keys, value |-> [k \in DOMAIN t.entries |-> Meaning[t.entries[k]]]]
    BY DEF View
  <2>2. [k \in DOMAIN t.entries |-> Meaning[t.entries[k]]]
          = [k \in DOMAIN old.value \cup {s} |-> IF k = s THEN Meaning[v] ELSE old.value[k]]
    BY <1>1
  <2>3. t.keys = IF s \in DOMAIN old.value THEN old.order ELSE Append(old.order, s)
    BY <1>1, <1>2
  <2> HIDE DEF old
  <2>4. QED
    BY <2>1, <2>2, <2>3
<1>4. dict' = [dict EXCEPT ![m] = View(t)]
  BY OneChanges
<1>5. Seen(answer)' = IF s \in DOMAIN old.value THEN << <<s, old.value[s]>> >> ELSE <<>>
  <2>1. CASE InTable(m, s)
    <3>1. Seen(answer)' = << <<s, Meaning[map[m].entries[s]]>> >>
      BY <2>1, SeenPair DEF Seen
    <3>2. QED
      BY <1>1, <1>2, <2>1, <3>1 DEF InTable
  <2>2. CASE ~InTable(m, s)
    BY <1>2, <2>2, SeenEmpty DEF Seen
  <2>3. QED
    BY <2>1, <2>2
<1>6. DOMAIN dict = Structs
  BY DEF dict
<1>7. dict' = [dict EXCEPT ![m] =
         [order |-> IF s \in DOMAIN dict[m].value THEN @.order ELSE Append(@.order, s),
          value |-> [k \in DOMAIN @.value \cup {s} |-> IF k = s THEN Meaning[v] ELSE @.value[k]]]]
  BY <1>3, <1>4, <1>6
<1>8. QED
  BY <1>1, <1>5, <1>7 DEF Abstract!Put, Abstract!Holds, Abstract!Pair, dict, Seen

LEMMA PutMaps ==
  ASSUME IInv, NEW m \in Structs, NEW s \in Strings, NEW v \in Values, strmap_put(m, s, v)
  PROVE  Abstract!Put(m, s, Meaning[v]) \/ UNCHANGED Abstract!vars
<1>1. CASE Uninitialized(m)
  BY <1>1, Stutters DEF strmap_put, Die
<1>2. CASE ~Uninitialized(m)
  <2>1. Good(map[m]) /\ map[m] # Zeroed
    BY <1>2 DEF IInv, Uninitialized
  <2>2. map[m] \in Struct
    BY <2>1 DEF Good
  <2>3. CASE InTable(m, s)
    <3> DEFINE t == [map[m] EXCEPT !.entries = Enter(map[m].entries, s, v)]
    <3>1. map' = [map EXCEPT ![m] = t] /\ answer' = << <<s, map[m].entries[s]>> >>
      BY <1>2, <2>3 DEF strmap_put, Replace, Return, IInv
    <3>2. t.keys = map[m].keys /\ t.entries = Enter(map[m].entries, s, v)
      BY <2>2 DEF Struct
    <3>3. t # Zeroed
      <4>1. DOMAIN t # DOMAIN Zeroed
        BY <2>2, SMTT(60) DEF Struct, Zeroed
      <4>2. QED
        BY <4>1
    <3>4. DOMAIN t.entries = DOMAIN map[m].entries \cup {s}
          /\ \A k \in DOMAIN t.entries :
               t.entries[k] = IF k = s THEN v ELSE map[m].entries[k]
      BY <3>2 DEF Enter
    <3> HIDE DEF t
    <3>5. QED
      BY <2>1, <2>3, <3>1, <3>2, <3>3, <3>4, PutAbstract
  <2>4. CASE ~InTable(m, s) /\ UNCHANGED <<map, answer>>
    BY <2>4, Stutters
  <2>5. CASE ~InTable(m, s) /\ ~UNCHANGED <<map, answer>>
    <3> DEFINE r == Resized(m)
               t == [r EXCEPT !.entries = Enter(r.entries, s, v),
                              !.keys = Append(map[m].keys, s),
                              !.keys_alloc = Grown(r.keys_alloc, Len(map[m].keys) + 1)]
    <3>1. DOMAIN r = DOMAIN map[m] /\ r.keys = map[m].keys
          /\ DOMAIN r.entries = DOMAIN map[m].entries
          /\ \A k \in DOMAIN r.entries : Meaning[r.entries[k]] = Meaning[map[m].entries[k]]
      <4>1. CASE ~Resizes(m)
        BY <4>1 DEF Resized
      <4>2. CASE Resizes(m)
        <5>1. /\ DOMAIN r = DOMAIN map[m] /\ r.keys = map[m].keys
              /\ r.entries = Copied(m, map[m].val_cpy_fn)
          BY <2>2, <4>2 DEF Resized, Struct
        <5>2. KeySet(map[m].keys) = DOMAIN map[m].entries
          BY <2>1 DEF Good, Agrees
        <5> HIDE DEF r
        <5>3. QED
          BY <2>1, <5>1, <5>2, CopyFacts
      <4>3. QED
        BY <4>1, <4>2
    <3>2. DOMAIN map[m] =
            {"entries", "slots", "keys", "table_alloc", "keys_alloc", "val_cpy_fn"}
      BY <2>2 DEF Struct
    <3>3. Add(m, s, v) /\ ~UNCHANGED <<map, answer>>
      BY <1>2, <2>5 DEF strmap_put
    <3>4. answer' = <<>>
          /\ map' = [map EXCEPT ![m] =
               [Resized(m) EXCEPT !.entries = Enter(@, s, v), !.keys = Append(@, s),
                           !.keys_alloc = Grown(@, Len(map[m].keys) + 1)]]
      BY <3>3 DEF Add, Die, Return
    <3>5. map' = [map EXCEPT ![m] = t]
      BY <3>1, <3>2, <3>4
    <3>6. /\ t.keys = Append(map[m].keys, s) /\ t.entries = Enter(r.entries, s, v)
          /\ DOMAIN t # DOMAIN Zeroed
      BY <3>1, <3>2 DEF Zeroed
    <3> HIDE DEF r, t
    <3>7. t # Zeroed
      BY <3>6
    <3>8. DOMAIN t.entries = DOMAIN map[m].entries \cup {s}
          /\ \A k \in DOMAIN t.entries :
               Meaning[t.entries[k]] = IF k = s THEN Meaning[v] ELSE Meaning[map[m].entries[k]]
      BY <3>1, <3>6 DEF Enter
    <3>9. QED
      BY <2>1, <2>5, <3>4, <3>5, <3>6, <3>7, <3>8, PutAbstract
  <2>6. QED
    BY <2>3, <2>4, <2>5
<1>3. QED
  BY <1>1, <1>2

LEMMA VisitMaps ==
  ASSUME IInv, NEW m \in Structs, strmap_iterate(m)
  PROVE  Abstract!Visit(m) \/ UNCHANGED Abstract!vars
<1>1. CASE UNCHANGED <<map, answer>>
  BY <1>1, Stutters
<1>2. CASE ~UNCHANGED <<map, answer>>
  <2> DEFINE keys == map[m].keys
             e == map[m].entries
  <2>1. ~Uninitialized(m)
    BY <1>2 DEF strmap_iterate, Die
  <2>2. Good(map[m]) /\ map[m] # Zeroed
    BY <2>1 DEF IInv, Uninitialized
  <2>3. keys \in Seq(Strings) /\ Len(keys) \in Nat
    BY <2>2 DEF Good, Struct
  <2>4. PICK n \in 0 .. Len(keys) :
          /\ n = 0 <=> keys = <<>>
          /\ \A i \in 1 .. n : keys[i] \in DOMAIN e
          /\ answer' = [i \in 1 .. n |-> <<keys[i], e[keys[i]]>>]
          /\ map' = map
    BY <1>2, <2>1 DEF strmap_iterate, Die, Return, InTable
  <2>5. /\ Abstract!Present(m) /\ dict[m].order = keys
        /\ dict[m].value = [k \in DOMAIN e |-> Meaning[e[k]]]
    BY <2>1, <2>2, DictFacts, ViewPresent
  <2> HIDE DEF keys, e
  <2>6. n \in Nat
    BY <2>3, <2>4
  <2>7. Seen(answer)' = [i \in 1 .. n |-> <<keys[i], Meaning[e[keys[i]]]>>]
    BY <2>4, <2>6, SeenWalk DEF Seen
  <2>8. Seen(answer)' = [i \in 1 .. n |-> <<dict[m].order[i], dict[m].value[dict[m].order[i]]>>]
    BY <2>4, <2>5, <2>7
  <2>9. dict' = dict
    BY <2>4, NoneChanges
  <2>10. n \in 0 .. Len(dict[m].order) /\ (n = 0 => dict[m].order = <<>>)
    BY <2>4, <2>5
  <2>11. QED
    BY <2>5, <2>8, <2>9, <2>10 DEF Abstract!Visit, Abstract!Pair, dict, Seen
<1>3. QED
  BY <1>1, <1>2

LEMMA DestroyMaps ==
  ASSUME IInv, NEW m \in Structs, strmap_destroy(m)
  PROVE  Abstract!Destroy(m) \/ UNCHANGED Abstract!vars
<1>1. CASE Uninitialized(m)
  BY <1>1, Stutters DEF strmap_destroy, Die
<1>2. CASE ~Uninitialized(m)
  <2>1. map' = [map EXCEPT ![m] = Zeroed] /\ answer' = <<>>
    BY <1>2 DEF strmap_destroy, Return
  <2>2. dict' = [dict EXCEPT ![m] = [order |-> "none"]]
    BY <2>1, OneChanges, ViewPresent
  <2>3. Seen(answer)' = <<>>
    BY <2>1, SeenEmpty DEF Seen
  <2>4. QED
    BY <1>2, <2>2, <2>3, DictFacts DEF Abstract!Destroy, Abstract!Absent, dict, Seen
<1>3. QED
  BY <1>1, <1>2

\* Every step maps to a step of the abstract maps or to a stutter.
LEMMA StepMaps ==
  ASSUME IInv, [Next]_vars
  PROVE  [Abstract!Next]_(Abstract!vars)
<1>1. ASSUME NEW m \in Structs, NEW f \in Copiers, NEW size \in Sizes,
             strmap_init_size(m, f, size)
      PROVE  [Abstract!Next]_(Abstract!vars)
  BY <1>1, CreateMaps DEF Abstract!Next
<1>2. ASSUME NEW m \in Structs, NEW src \in Structs, strmap_cpy(m, src)
      PROVE  [Abstract!Next]_(Abstract!vars)
  BY <1>2, DuplicateMaps DEF Abstract!Next
<1>3. ASSUME NEW m \in Structs, NEW s \in Strings, strmap_find(m, s)
      PROVE  [Abstract!Next]_(Abstract!vars)
  BY <1>3, FindMaps DEF Abstract!Next
<1>4. ASSUME NEW m \in Structs, NEW s \in Strings, NEW v \in Values, strmap_put(m, s, v)
      PROVE  [Abstract!Next]_(Abstract!vars)
  BY <1>4, PutMaps DEF Abstract!Next
<1>5. ASSUME NEW m \in Structs, strmap_iterate(m)
      PROVE  [Abstract!Next]_(Abstract!vars)
  BY <1>5, VisitMaps DEF Abstract!Next
<1>6. ASSUME NEW m \in Structs, strmap_destroy(m)
      PROVE  [Abstract!Next]_(Abstract!vars)
  BY <1>6, DestroyMaps DEF Abstract!Next
<1>7. CASE Exited \/ UNCHANGED vars
  BY <1>7, Stutters DEF Exited, vars
<1>8. QED
  BY <1>1, <1>2, <1>3, <1>4, <1>5, <1>6, <1>7 DEF Next

\* A strmap is a map from strings to values that remembers the order of its keys: no
\* caller can tell that its table is exchanged for a larger one, and a copy and its
\* original do not share what is put into one of them.
THEOREM Refinement == Spec => ImplementsStringMap
<1>1. IInv /\ [Next]_vars => [Abstract!Next]_(Abstract!vars)
  BY StepMaps
<1>2. QED
  BY <1>1, InitMaps, Invariant, PTL DEF Spec, ImplementsStringMap, Abstract!Spec
=============================================================================
