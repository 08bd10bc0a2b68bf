------------------------------- MODULE Scopes -------------------------------
(***************************************************************************)
(* What the symbol table promises: block scoping.  A chain of scopes, one  *)
(* frame of bindings each; a name means its innermost binding, a scope is  *)
(* forgotten when it is left, a name never changes its kind in the file    *)
(* scope, and the storage of a new local variable overlaps no variable     *)
(* that is still alive, hidden or not.  Rejected programs stutter.         *)
(***************************************************************************)
EXTENDS Integers

CONSTANTS
  Names,   \* identifiers
  VarSize  \* bytes of a local variable

VARIABLES depth, chain, operand

vars == <<depth, chain, operand>>

Unbound == [kind |-> "unbound"]
Variable == [kind |-> "variable"]
Function == [kind |-> "function"]
Locals == [kind : {"local"}, slot : Nat]

\* A scope of a function binds locals only, each with storage of its own.
Apart(s, t) == s - t >= VarSize \/ t - s >= VarSize

IsFrame(f) ==
  /\ f \in [Names -> {Unbound} \cup Locals]
  /\ \A m, n \in Names :
       m # n /\ f[m] # Unbound /\ f[n] # Unbound => Apart(f[m].slot, f[n].slot)

NoFrame == [n \in Names |-> Unbound]

\* The storage s of a new local overlaps no live one.
IsFresh(s) ==
  \A d \in 1 .. depth : \A n \in Names :
    chain[d][n] # Unbound => Apart(s, chain[d][n].slot)

\* The binding a name stands for.
IsInnermost(n, d) ==
  /\ d \in 0 .. depth
  /\ chain[d][n] # Unbound
  /\ \A e \in d + 1 .. depth : chain[e][n] = Unbound

Init ==
  /\ depth = 0
  /\ chain = [d \in {0} |-> NoFrame]
  /\ operand = [at |-> "none"]

\* A declaration outside of functions.
Bind(n) ==
  /\ depth = 0
  /\ \E b \in {Variable, Function} :
       /\ chain[0][n] \in {Unbound, b}
       /\ chain' = [chain EXCEPT ![0][n] = b]
  /\ UNCHANGED <<depth, operand>>

\* The definition of function n: its name is bound outside, its parameters
\* inside.
EnterFunction(n) ==
  /\ depth = 0
  /\ chain[0][n] \in {Unbound, Function}
  /\ depth' = 1
  /\ IsFrame(chain'[1])
  /\ chain' = [d \in 0 .. 1 |-> IF d = 0 THEN [chain[0] EXCEPT ![n] = Function]
                                ELSE chain'[1]]
  /\ UNCHANGED operand

EnterBlock ==
  /\ depth > 0
  /\ depth' = depth + 1
  /\ chain' = [d \in 0 .. depth + 1 |-> IF d <= depth THEN chain[d] ELSE NoFrame]
  /\ UNCHANGED operand

Leave ==
  /\ depth > 0
  /\ depth' = depth - 1
  /\ chain' = [d \in 0 .. depth - 1 |-> chain[d]]
  /\ UNCHANGED operand

Declare(n) ==
  /\ depth > 0
  /\ chain[depth][n] = Unbound
  /\ UNCHANGED <<depth, operand>>
  /\ LET new == chain'[depth][n]
     IN /\ new \in Locals
        /\ IsFresh(new.slot)
        /\ chain' = [chain EXCEPT ![depth][n] = new]

Resolve(n) ==
  /\ depth > 0
  /\ \E d \in 0 .. depth :
       /\ IsInnermost(n, d)
       /\ chain[d][n].kind \in {"local", "variable"}
       /\ operand' = IF chain[d][n].kind = "local"
                     THEN [at |-> "stack", slot |-> chain[d][n].slot]
                     ELSE [at |-> "data", name |-> n]
  /\ UNCHANGED <<depth, chain>>

Next ==
  \/ \E n \in Names : Bind(n) \/ EnterFunction(n) \/ Declare(n) \/ Resolve(n)
  \/ EnterBlock
  \/ Leave

Spec == Init /\ [][Next]_vars

=============================================================================
