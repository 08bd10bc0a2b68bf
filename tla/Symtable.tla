------------------------------ MODULE Symtable ------------------------------
(***************************************************************************)
(* The symbol table of the code generator (symtable.c) as x86.c drives it: *)
(* the table is copied when an inner scope is entered and the copy is      *)
(* thrown away when the scope is left (x86.c generate_new_scope).  One     *)
(* behaviour is the generation of one source file, reduced to the events   *)
(* that reach the table.                                                   *)
(***************************************************************************)
EXTENDS Integers, Sequences, FiniteSets

CONSTANTS
  Names,       \* identifiers the source file uses
  NrCallRegs,  \* call arguments passed in registers (func_call_regs in x86.c: 6)
  MaxArgs,     \* bound: parameters of a function, arguments of a call
  MaxScope,    \* bound: nesting of scopes explored
  MaxIndex     \* bound: stack_index explored (calls may grow it for ever)

ASSUME BoundsAssumption ==
  /\ NrCallRegs \in Nat /\ MaxArgs \in Nat /\ MaxIndex \in Nat
  /\ MaxScope \in Nat \ {0}

VARIABLES
  scope,    \* ctx->scope
  tabs,     \* tabs[scope] is ctx->symtable, tabs[d] for d < scope are the
            \* saved_symtable of the generate_new_scope calls in progress
  idx,      \* likewise ctx->stack_index and the saved_stack_index
  operand,  \* the operand symtable_var_ref returned last
  fdefs,    \* fdefs[n]: how many times the label "n:" was emitted
  vdefs,    \* vdefs[n]: how many times the label "_var_n:" was emitted
  status    \* "gen", "died" (die), "bug" (assert or BUG), "done"

vars == <<scope, tabs, idx, operand, fdefs, vdefs, status>>

Depths == 0 .. MaxScope

(***************************************************************************)
(* struct sym_data.  NoSym stands for the NULL of symtable_find.           *)
(***************************************************************************)
FuncDecl == [params : 0 .. MaxArgs, empty : BOOLEAN, body : BOOLEAN,
             ret : {"int", "void"}]

NoSym == [type |-> "none", scope |-> -1]
LVar(slot, s) == [type |-> "lvar", slot |-> slot, scope |-> s]
GVar(init) == [type |-> "gvar", init |-> init, scope |-> 0]
Func(d) == [type |-> "func", decl |-> d, scope |-> 0]

Symbol == {NoSym}
          \cup [type : {"lvar"}, slot : Nat, scope : Nat \ {0}]
          \cup [type : {"gvar"}, init : BOOLEAN, scope : {0}]
          \cup [type : {"func"}, decl : FuncDecl, scope : {0}]

EmptyTab == [n \in Names |-> NoSym]

NoOperand == [at |-> "none"]
Operand == {NoOperand} \cup [at : {"stack"}, slot : Nat]
                       \cup [at : {"data"}, name : Names]

cur == tabs[scope]

(***************************************************************************)
(* symtable_put_func: when a declaration is rejected, and what the table   *)
(* becomes when it is not.  A function that has a body is kept.            *)
(***************************************************************************)
SignatureDiffers(f, d) ==
  \/ f.ret # d.ret
  \/ ~f.empty /\ ~d.empty /\ f.params # d.params

FuncRejected(sym, d) ==
  IF sym.type = "func"
  THEN \/ sym.decl.body /\ d.body
       \/ SignatureDiffers(sym.decl, d)
       \/ sym.decl.body /\ sym.decl.empty /\ ~d.empty
  ELSE sym.scope = 0

\* Mutant: a later prototype replaces the definition.
PutFuncAlways(tab, n, d) == [tab EXCEPT ![n] = Func(d)]

PutFunc(tab, n, d) ==
  IF tab[n].type = "func" /\ tab[n].decl.body THEN tab
  ELSE [tab EXCEPT ![n] = Func(d)]

(***************************************************************************)
(* symtable_put_gvar: tentative definitions may repeat, an initialised one *)
(* may not, and it replaces the tentative one.                             *)
(***************************************************************************)
GVarRejected(sym, init) ==
  sym # NoSym /\ (sym.type # "gvar" \/ (init /\ sym.init))

\* Mutant: a later tentative definition replaces the initialised one.
PutGVarAlways(tab, n, init) == [tab EXCEPT ![n] = GVar(init)]

PutGVar(tab, n, init) ==
  IF tab[n] # NoSym /\ (tab[n].init \/ ~init) THEN tab
  ELSE [tab EXCEPT ![n] = GVar(init)]

\* Mutant: no check for a second declaration in the scope.
LVarNeverRejected(sym, s) == FALSE

\* symtable_put_lvar
LVarRejected(sym, s) == sym.scope = s

\* Mutant: the slot that stack_index named before it was incremented.
PutLVarTooEarly(tab, n, slot, s) == [tab EXCEPT ![n] = LVar(slot - 4, s)]

\* Mutant: every local belongs to the outermost scope of its function.
PutLVarOutermost(tab, n, slot, s) == [tab EXCEPT ![n] = LVar(slot, 1)]

PutLVar(tab, n, slot, s) == [tab EXCEPT ![n] = LVar(slot, s)]

\* symtable_bytes_in_scope
BytesInScope(tab, s) == 4 * Cardinality({n \in Names : tab[n].scope = s})

\* symtable_var_ref, for a symbol that is a variable
OperandOf(n, sym) == IF sym.type = "lvar"
                     THEN [at |-> "stack", slot |-> sym.slot]
                     ELSE [at |-> "data", name |-> n]

-----------------------------------------------------------------------------
Init ==
  /\ scope = 0
  /\ tabs = [d \in Depths |-> EmptyTab]
  /\ idx = [d \in Depths |-> 0]
  /\ operand = NoOperand
  /\ fdefs = [n \in Names |-> 0]
  /\ vdefs = [n \in Names |-> 0]
  /\ status = "gen"

AtToplevel == status = "gen" /\ scope = 0
InFunction == status = "gen" /\ scope > 0

Die(s) == status' = s /\ UNCHANGED <<scope, tabs, idx, operand, fdefs, vdefs>>

\* "int n = 1;" or "int n;" outside of a function: generate_global_var_decl.
GlobalVar(n, init) ==
  /\ AtToplevel
  /\ IF cur[n].scope > 0 THEN Die("bug")
     ELSE IF GVarRejected(cur[n], init) THEN Die("died")
     ELSE /\ tabs' = [tabs EXCEPT ![0] = PutGVar(@, n, init)]
          /\ vdefs' = IF init THEN [vdefs EXCEPT ![n] = @ + 1] ELSE vdefs
          /\ UNCHANGED <<scope, idx, operand, fdefs, status>>

\* A prototype: generate_func_decl with a NULL body.
Prototype(n, d) ==
  /\ AtToplevel
  /\ ~d.body
  /\ IF cur[n].type = "func" /\ cur[n].scope > 0 THEN Die("bug")
     ELSE IF FuncRejected(cur[n], d) THEN Die("died")
     ELSE /\ tabs' = [tabs EXCEPT ![0] = PutFunc(@, n, d)]
          /\ UNCHANGED <<scope, idx, operand, fdefs, vdefs, status>>

\* The table of the outermost scope of a function with parameters ps: the
\* i-th one is stored 4*i bytes below rbp (func_body_generator).
WithParams(tab, ps) ==
  [n \in Names |-> IF \E i \in DOMAIN ps : ps[i] = n
                   THEN LVar(4 * (CHOOSE i \in DOMAIN ps : ps[i] = n), 1)
                   ELSE tab[n]]

Duplicated(ps) == \E i, j \in DOMAIN ps : i # j /\ ps[i] = ps[j]

\* A definition: generate_func_decl up to the statements of the body.
Define(n, d, ps) ==
  /\ AtToplevel
  /\ d.body /\ d.params = Len(ps)
  /\ IF cur[n].type = "func" /\ cur[n].scope > 0 THEN Die("bug")
     ELSE IF FuncRejected(cur[n], d) \/ Duplicated(ps) THEN Die("died")
     ELSE LET global == PutFunc(cur, n, d)
          IN /\ tabs' = [tabs EXCEPT ![0] = global,
                                     ![1] = WithParams(global, ps)]
             /\ scope' = 1
             /\ idx' = [idx EXCEPT ![0] = 0, ![1] = 4 * Len(ps)]
             /\ fdefs' = [fdefs EXCEPT ![n] = @ + 1]
             /\ UNCHANGED <<operand, vdefs, status>>

\* generate_new_scope up to the call of the generator: a block or a
\* for with a declaration.
OpenScope ==
  /\ InFunction
  /\ scope < MaxScope
  /\ scope' = scope + 1
  /\ tabs' = [tabs EXCEPT ![scope + 1] = cur]
  /\ idx' = [idx EXCEPT ![scope + 1] = idx[scope]]
  /\ UNCHANGED <<operand, fdefs, vdefs, status>>

\* Mutant: saved_symtable is not restored.
CloseScopeKeepsTable ==
  /\ InFunction
  /\ scope' = scope - 1
  /\ tabs' = [tabs EXCEPT ![scope - 1] = cur, ![scope] = EmptyTab]
  /\ idx' = [idx EXCEPT ![scope] = 0]
  /\ UNCHANGED <<operand, fdefs, vdefs, status>>

\* generate_new_scope after the generator returned; also the end of a function.
CloseScope ==
  /\ InFunction
  /\ scope' = scope - 1
  /\ tabs' = [tabs EXCEPT ![scope] = EmptyTab]
  /\ idx' = [idx EXCEPT ![scope] = 0]
  /\ UNCHANGED <<operand, fdefs, vdefs, status>>

\* generate_var_decl: the name is in the table before its initialiser is
\* generated.
Declare(n) ==
  /\ InFunction
  /\ idx[scope] + 4 <= MaxIndex
  /\ IF LVarRejected(cur[n], scope) THEN Die("died")
     ELSE /\ idx' = [idx EXCEPT ![scope] = @ + 4]
          /\ tabs' = [tabs EXCEPT ![scope] =
                                    PutLVar(@, n, idx[scope] + 4, scope)]
          /\ UNCHANGED <<scope, operand, fdefs, vdefs, status>>

\* A use of a variable: symtable_var_ref.
Reference(n) ==
  /\ InFunction
  /\ IF cur[n].type \notin {"lvar", "gvar"} THEN Die("died")
     ELSE /\ operand' = OperandOf(n, cur[n])
          /\ UNCHANGED <<scope, tabs, idx, fdefs, vdefs, status>>

\* symtable_func_call
CallRejected(sym, k) ==
  \/ sym.type # "func"
  \/ ~sym.decl.empty /\ sym.decl.params # k

\* Mutant: without the test for arguments on the stack the difference wraps.
CallResidueUnchecked(k) == 4 * (k - NrCallRegs)

\* What a call with k arguments leaves in stack_index: 8 for every push, minus
\* 8 for every register pop, minus 4 for every argument left on the stack.
CallResidue(k) == IF k > NrCallRegs THEN 4 * (k - NrCallRegs) ELSE 0

\* A call with k arguments: the AST_EXP_FUNC_CALL case of generate_expression.
Call(n, k) ==
  /\ InFunction
  /\ idx[scope] + CallResidue(k) <= MaxIndex
  /\ IF CallRejected(cur[n], k) THEN Die("died")
     ELSE /\ idx' = [idx EXCEPT ![scope] = @ + CallResidue(k)]
          /\ UNCHANGED <<scope, tabs, operand, fdefs, vdefs, status>>

\* The end of generate_prog: generate_uninitialized_gvars.
Finish ==
  /\ AtToplevel
  /\ vdefs' = [n \in Names |-> IF cur[n].type = "gvar" /\ ~cur[n].init
                               THEN vdefs[n] + 1 ELSE vdefs[n]]
  /\ status' = "done"
  /\ UNCHANGED <<scope, tabs, idx, operand, fdefs>>

\* "f()" declares no parameter list; "f(void)" declares an empty one.
ParamLists == UNION {[1 .. k -> Names] : k \in 0 .. MaxArgs}

Next ==
  \/ \E n \in Names :
       \/ \E init \in BOOLEAN : GlobalVar(n, init)
       \/ \E d \in FuncDecl :
            /\ d.empty => d.params = 0
            /\ \/ Prototype(n, d)
               \/ \E ps \in ParamLists : Define(n, d, ps)
       \/ Declare(n)
       \/ Reference(n)
       \/ \E k \in 0 .. MaxArgs : Call(n, k)
  \/ OpenScope
  \/ CloseScope
  \/ Finish

Spec == Init /\ [][Next]_vars

-----------------------------------------------------------------------------
(***************************************************************************)
(* Properties.                                                             *)
(***************************************************************************)

\* Type invariant of the code generator's view of the tables.
TypeOK ==
  /\ scope \in Depths
  /\ tabs \in [Depths -> [Names -> Symbol]]
  /\ idx \in [Depths -> Nat]
  /\ operand \in Operand
  /\ fdefs \in [Names -> Nat]
  /\ vdefs \in [Names -> Nat]
  /\ status \in {"gen", "died", "bug", "done"}

\* The local variables declared in scope d; they are alive until it is closed,
\* whether or not an inner scope hides them.
DeclaredIn(d) == {n \in Names : tabs[d][n].scope = d}

\* No two live local variables share a byte of the frame, and all of them lie
\* in the bytes allocated so far: generate_var_decl and the restored
\* stack_index of generate_new_scope never hand out a slot twice.
SlotsDisjoint ==
  \A d, e \in 1 .. scope : \A m \in DeclaredIn(d), n \in DeclaredIn(e) :
    LET s == tabs[d][m].slot
        t == tabs[e][n].slot
    IN /\ 4 <= s /\ s <= idx[scope]
       /\ <<d, m>> # <<e, n>> => (s - t >= 4 \/ t - s >= 4)

\* The flat copy of the table answers like a chain of scopes would: the entry of
\* a name is the one of the innermost scope that declared it.
InnermostWins ==
  \A n \in Names, d \in 0 .. scope :
    /\ tabs[d][n].scope = d
    /\ \A e \in d + 1 .. scope : tabs[e][n].scope # e
    => cur[n] = tabs[d][n]

\* Neither the BUG of symtable_put_gvar nor the assertion of symtable_put_func
\* can be reached: no local symbol survives the function it belongs to.
NoBug == status # "bug"

\* The assembly defines each label once: a function when it has a body, an
\* initialised global when it is met, the other globals at the end, however
\* often the source declares them.
GlobalsOnce ==
  \A n \in Names :
    LET sym == tabs[0][n]
    IN /\ fdefs[n] = IF sym.type = "func" /\ sym.decl.body THEN 1 ELSE 0
       /\ vdefs[n] = IF sym.type = "gvar" /\ (sym.init \/ status = "done")
                     THEN 1 ELSE 0

\* The "add" that closes a scope gives back what stack_index grew by in it: the
\* comment of generate_new_scope says that rsp = rbp - saved_stack_index would
\* do as well (x86.c:428).
FrameBytes ==
  \A d \in 1 .. scope : BytesInScope(tabs[d], d) = idx[d] - idx[d - 1]

\* What later code relies on is never taken back: the kind of a file scope name,
\* the return type of a function, its body, the initialiser of a variable.
DeclarationsKept ==
  [][\A n \in Names :
       LET old == tabs[0][n]
           new == tabs'[0][n]
       IN old # NoSym =>
            /\ new.type = old.type
            /\ old.type = "gvar" => (old.init => new.init)
            /\ old.type = "func" =>
                 /\ new.decl.ret = old.decl.ret
                 /\ old.decl.body => new.decl = old.decl]_vars

(***************************************************************************)
(* The refinement: scope d of the chain holds the symbols of tabs[d] that  *)
(* carry its number.                                                       *)
(***************************************************************************)
Binding(sym) ==
  CASE sym.type = "lvar" -> [kind |-> "local", slot |-> sym.slot]
    [] sym.type = "gvar" -> [kind |-> "variable"]
    [] sym.type = "func" -> [kind |-> "function"]
    [] OTHER -> [kind |-> "unbound"]

FrameOf(tab, d) ==
  [n \in Names |-> Binding(IF tab[n].scope = d THEN tab[n] ELSE NoSym)]

Chain == [d \in 0 .. scope |-> FrameOf(tabs[d], d)]

Abstract == INSTANCE Scopes WITH
              VarSize <- 4, depth <- scope, chain <- Chain, operand <- operand

\* The copied tables of generate_new_scope implement block scoping.
ImplementsScopes == Abstract!Spec

=============================================================================
