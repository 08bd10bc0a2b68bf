-------------------------------- MODULE Strmap --------------------------------
(***************************************************************************)
(* lib/strmap.c: a hash table of fixed size from the C library, exchanged  *)
(* for a larger one when it is full, and the array of its keys.            *)
(*                                                                         *)
(* hsearch_r is external: a table holds at most slots entries, hcreate_r   *)
(* chooses Slots[n] of them when it is asked for n, and ENTER fails when   *)
(* none is left.  A value is a pointer; what it points to is its Meaning,  *)
(* which a strmap_val_cpy_fn keeps.                                        *)
(***************************************************************************)
EXTENDS Integers, Sequences

CONSTANTS
  Structs,   \* the struct strmaps of a program
  Strings,   \* keys
  Values,    \* the void pointers kept in maps
  Meaning,   \* what each points to
  Copiers,   \* strmap_val_cpy_fns, as functions from a value to its copy
  Sizes,     \* the sizes maps are initialised with
  MaxTable,  \* hcreate_r fails when it is asked for more
  Slots,     \* the size of the table it makes
  Slack      \* the 16 of alloc_nr

ASSUME StrmapAssumption ==
  /\ Copiers \subseteq [Values -> Values]
  /\ \A f \in Copiers, v \in Values : Meaning[f[v]] = Meaning[v]
  /\ MaxTable \in Nat /\ Slack \in Nat /\ Sizes \subseteq 0 .. MaxTable
  /\ \A n \in 0 .. MaxTable : Slots[n] \in Nat /\ Slots[n] >= n

VARIABLES
  map,     \* the struct strmaps
  answer,  \* what the last call gave to its caller: <<key, value>> pairs
  died     \* what the program died of, or "no"

vars == <<map, answer, died>>

-----------------------------------------------------------------------------
\* A struct without a table, as memset leaves it.
Zeroed == [table_alloc |-> 0]
Uninitialized(m) == map[m] = Zeroed

NoEntries == [s \in {} |-> s]

\* hsearch_r(FIND) and hsearch_r(ENTER)
InTable(m, s) == s \in DOMAIN map[m].entries
Enter(entries, s, v) ==
  [t \in DOMAIN entries \cup {s} |-> IF t = s THEN v ELSE entries[t]]
FullTable(slots, filled) == filled >= slots

alloc_nr(x) == ((x + Slack) * 3) \div 2

\* ALLOC_GROW
Grown(alloc, nr) ==
  IF nr <= alloc THEN alloc ELSE IF alloc_nr(alloc) < nr THEN nr ELSE alloc_nr(alloc)

KeySet(keys) == {keys[i] : i \in 1 .. Len(keys)}

\* copy_hsearch_data: the keys of the array lead to the values that are copied; each
\* must be found in the old table and fit into the new one.
KeysFound(m) == KeySet(map[m].keys) \subseteq DOMAIN map[m].entries
Copied(m, f) == [s \in KeySet(map[m].keys) |-> f[map[m].entries[s]]]

Return(pairs) == answer' = pairs /\ UNCHANGED died
Die(why) == died' = why /\ UNCHANGED <<map, answer>>

-----------------------------------------------------------------------------
Running == died = "no"

Init ==
  /\ map = [m \in Structs |-> Zeroed]
  /\ answer = <<>>
  /\ died = "no"

strmap_init_size(m, f, size) ==
  /\ Running
  /\ IF ~Uninitialized(m) THEN Die("misuse")
     ELSE /\ map' = [map EXCEPT ![m] =
               [entries |-> NoEntries, slots |-> Slots[size], keys |-> <<>>,
                table_alloc |-> size, keys_alloc |-> 0, val_cpy_fn |-> f]]
          /\ Return(<<>>)

\* Mutant: the copy gets the entries and not the array of keys.
CpyEntriesOnly(dst, src) ==
  /\ Running
  /\ IF Uninitialized(src) \/ ~Uninitialized(dst) THEN Die("misuse")
     ELSE IF ~KeysFound(src) THEN Die("lost key")
     ELSE IF Len(map[src].keys) > Slots[map[src].table_alloc] THEN Die("no room")
     ELSE /\ map' = [map EXCEPT ![dst] =
               [entries |-> Copied(src, map[src].val_cpy_fn),
                slots |-> Slots[map[src].table_alloc], keys |-> <<>>,
                table_alloc |-> map[src].table_alloc, keys_alloc |-> 0,
                val_cpy_fn |-> map[src].val_cpy_fn]]
          /\ Return(<<>>)

strmap_cpy(dst, src) ==
  /\ Running
  /\ IF Uninitialized(src) \/ ~Uninitialized(dst) THEN Die("misuse")
     ELSE IF ~KeysFound(src) THEN Die("lost key")
     ELSE IF Len(map[src].keys) > Slots[map[src].table_alloc] THEN Die("no room")
     ELSE /\ map' = [map EXCEPT ![dst] =
               [entries |-> Copied(src, map[src].val_cpy_fn),
                slots |-> Slots[map[src].table_alloc], keys |-> map[src].keys,
                table_alloc |-> map[src].table_alloc,
                keys_alloc |-> map[src].keys_alloc, val_cpy_fn |-> map[src].val_cpy_fn]]
          /\ Return(<<>>)

strmap_find(m, s) ==
  /\ Running
  /\ IF Uninitialized(m) THEN Die("misuse")
     ELSE /\ Return(IF InTable(m, s) THEN << <<s, map[m].entries[s]>> >> ELSE <<>>)
          /\ UNCHANGED map

\* strmap_put of a key that is there.
Replace(m, s, v) ==
  /\ map' = [map EXCEPT ![m].entries = Enter(@, s, v)]
  /\ Return(<< <<s, map[m].entries[s]>> >>)

\* The table is full when it holds what was asked for, whatever hcreate_r made.
Resizes(m) == Len(map[m].keys) + 1 > map[m].table_alloc

\* Mutant: the struct does not remember the size of its new table.
ResizedUnnoticed(m) ==
  IF Resizes(m)
  THEN [map[m] EXCEPT !.entries = Copied(m, map[m].val_cpy_fn),
                      !.slots = Slots[2 * map[m].table_alloc]]
  ELSE map[m]

\* The struct as it is, or with a table of twice the size.
Resized(m) ==
  IF Resizes(m)
  THEN [map[m] EXCEPT !.entries = Copied(m, map[m].val_cpy_fn),
                      !.slots = Slots[2 * map[m].table_alloc],
                      !.table_alloc = 2 * @]
  ELSE map[m]

\* Mutant: a key that comes with a resize is not put into the array.
AddForgotten(m, s, v) ==
  LET nr == Len(map[m].keys)
      new == Resized(m)
  IN IF Resizes(m) /\ 2 * map[m].table_alloc > MaxTable THEN Die("no memory")
     ELSE IF Resizes(m) /\ ~KeysFound(m) THEN Die("lost key")
     ELSE IF FullTable(new.slots, nr) THEN Die("no room")
     ELSE /\ map' = [map EXCEPT ![m] =
               [new EXCEPT !.entries = Enter(@, s, v),
                           !.keys = IF Resizes(m) THEN @ ELSE Append(@, s),
                           !.keys_alloc = Grown(@, nr + 1)]]
          /\ Return(<<>>)

\* strmap_put of a new key.  When the resized table cannot take the old entries, or
\* not the new one, the program dies.
Add(m, s, v) ==
  LET nr == Len(map[m].keys)
      new == Resized(m)
  IN IF Resizes(m) /\ 2 * map[m].table_alloc > MaxTable THEN Die("no memory")
     ELSE IF Resizes(m) /\ ~KeysFound(m) THEN Die("lost key")
     ELSE IF FullTable(new.slots, nr) THEN Die("no room")
     ELSE /\ map' = [map EXCEPT ![m] =
               [new EXCEPT !.entries = Enter(@, s, v), !.keys = Append(@, s),
                           !.keys_alloc = Grown(@, nr + 1)]]
          /\ Return(<<>>)

strmap_put(m, s, v) ==
  /\ Running
  /\ IF Uninitialized(m) THEN Die("misuse")
     ELSE IF InTable(m, s) THEN Replace(m, s, v) ELSE Add(m, s, v)

\* The callback ends the walk at the last of n keys.
strmap_iterate(m) ==
  /\ Running
  /\ IF Uninitialized(m) THEN Die("misuse")
     ELSE LET keys == map[m].keys
          IN \E n \in {k \in 0 .. Len(keys) : k = 0 <=> keys = <<>>} :
               IF \A i \in 1 .. n : InTable(m, keys[i])
               THEN /\ Return([i \in 1 .. n |-> <<keys[i], map[m].entries[keys[i]]>>])
                    /\ UNCHANGED map
               ELSE Die("lost key")

strmap_destroy(m) ==
  /\ Running
  /\ IF Uninitialized(m) THEN Die("misuse")
     ELSE map' = [map EXCEPT ![m] = Zeroed] /\ Return(<<>>)

Exited == ~Running /\ UNCHANGED vars

Next ==
  \/ \E m \in Structs :
       \/ \E f \in Copiers, size \in Sizes : strmap_init_size(m, f, size)
       \/ \E src \in Structs : strmap_cpy(m, src)
       \/ \E s \in Strings : strmap_find(m, s) \/ \E v \in Values : strmap_put(m, s, v)
       \/ strmap_iterate(m) \/ strmap_destroy(m)
  \/ Exited

Spec == Init /\ [][Next]_vars

-----------------------------------------------------------------------------
(***************************************************************************)
(* Properties.                                                             *)
(***************************************************************************)
Distinct(keys) == \A i, j \in 1 .. Len(keys) : keys[i] = keys[j] => i = j

\* The array of keys and the table agree, also after a resize, and neither holds more
\* than was allocated for it: the calls that die with BUG in copy_hsearch_data and
\* strmap_iterate cannot fail.
Consistent ==
  \A m \in Structs :
    Uninitialized(m) \/
    LET s == map[m]
    IN /\ Distinct(s.keys)
       /\ KeySet(s.keys) = DOMAIN s.entries
       /\ Len(s.keys) <= s.slots /\ s.slots = Slots[s.table_alloc]
       /\ Len(s.keys) <= s.keys_alloc

\* Doubling makes room for every key there is, unless the map was initialised with size
\* 0, which doubles to 0 (strmap.c:77): the program dies of the key that finds
\* the smallest table full.  It dies of nothing else but a call out of order and a
\* full table that hcreate_r cannot double.
RoomUnlessZero ==
  \/ died \in {"no", "misuse"}
  \/ \E m \in Structs :
       /\ ~Uninitialized(m)
       /\ \/ died = "no room" /\ map[m].table_alloc = 0 /\ Len(map[m].keys) = Slots[0]
          \/ /\ died = "no memory" /\ 2 * map[m].table_alloc > MaxTable
             /\ Len(map[m].keys) = map[m].table_alloc

(***************************************************************************)
(* The refinement: what the values in the table point to, in the order of  *)
(* the array of keys.                                                      *)
(***************************************************************************)
Contents(m) ==
  IF Uninitialized(m) THEN [order |-> "none"]
  ELSE [order |-> map[m].keys,
        value |-> [s \in DOMAIN map[m].entries |-> Meaning[map[m].entries[s]]]]

Abstract == INSTANCE StringMap WITH
              Meanings <- {Meaning[v] : v \in Values},
              dict <- [m \in Structs |-> Contents(m)],
              answer <- [i \in 1 .. Len(answer) |-> <<answer[i][1], Meaning[answer[i][2]]>>]

\* A map answers as if its table were never exchanged, and the maps that strmap_cpy
\* made are independent of each other.
ImplementsStringMap == Abstract!Spec
=============================================================================
