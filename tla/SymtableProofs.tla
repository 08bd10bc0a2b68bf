--------------------------- MODULE SymtableProofs ---------------------------
(***************************************************************************)
(* Proofs about Symtable, for any set of identifiers and any bounds: its   *)
(* invariants, the bytes a scope gives back, and that it implements        *)
(* Scopes.                                                                 *)
(***************************************************************************)
EXTENDS Symtable, FiniteSetTheorems, TLAPS

Locals(d) == {n \in Names : tabs[d][n].type = "lvar"}

\* No table holds a symbol of a deeper scope.
ScopesBounded ==
  \A d \in 0 .. scope : \A n \in Names : tabs[d][n].scope <= d

\* An inner table differs from an outer one only by what was declared further in.
TablesCopied ==
  \A d, e \in 0 .. scope : \A n \in Names :
    d < e => tabs[e][n] = tabs[d][n] \/ tabs[e][n].scope > d

IdxGrows == \A d, e \in 0 .. scope : d < e => idx[d] <= idx[e]

\* A slot lies in the bytes allocated, above those of the enclosing scopes.
SlotsAllocated ==
  \A d \in 0 .. scope : \A n \in Locals(d) :
    /\ 4 <= tabs[d][n].slot /\ tabs[d][n].slot <= idx[d]
    /\ \A e \in 0 .. scope : e < tabs[d][n].scope => idx[e] + 4 <= tabs[d][n].slot

SlotsApart ==
  \A d \in 0 .. scope : \A m, n \in Locals(d) :
    m # n => \/ tabs[d][m].slot - tabs[d][n].slot >= 4
             \/ tabs[d][n].slot - tabs[d][m].slot >= 4

\* The inductive invariant.
IInv == /\ TypeOK
        /\ ScopesBounded
        /\ TablesCopied
        /\ IdxGrows
        /\ SlotsAllocated
        /\ SlotsApart

-----------------------------------------------------------------------------
\* What a symbol can be: it is local exactly when its scope is a function's.
LEMMA SymbolFacts ==
  ASSUME NEW sym \in Symbol
  PROVE  /\ sym.scope \in Int
         /\ sym.type \in {"none", "lvar", "gvar", "func"}
         /\ sym.type = "lvar" <=> sym.scope > 0
         /\ sym.type = "none" <=> sym = NoSym
         /\ sym.type = "none" <=> sym.scope < 0
         /\ sym.type \in {"gvar", "func"} => sym.scope = 0
         /\ sym.type = "lvar" => sym.slot \in Nat
         /\ sym.type = "gvar" => sym.init \in BOOLEAN
         /\ sym.type = "func" => sym.decl \in FuncDecl
  BY DEF Symbol, NoSym

\* What each kind of declaration puts into the table is a symbol.
LEMMA NewSymbols ==
  /\ NoSym \in Symbol
  /\ \A s \in Nat, d \in Nat \ {0} : LVar(s, d) \in Symbol
  /\ \A b \in BOOLEAN : GVar(b) \in Symbol
  /\ \A d \in FuncDecl : Func(d) \in Symbol
  BY DEF Symbol, NoSym, LVar, GVar, Func

\* A local symbol, read field by field.
LEMMA LVarFacts ==
  ASSUME NEW s, NEW d
  PROVE  LVar(s, d).type = "lvar" /\ LVar(s, d).slot = s /\ LVar(s, d).scope = d
  BY DEF LVar

\* What TypeOK says of the table and the stack index in force.
LEMMA StateTypes ==
  ASSUME IInv
  PROVE  \A d \in 0 .. scope :
           /\ d \in Depths /\ d \in Nat /\ idx[d] \in Nat
           /\ \A n \in Names :
                /\ tabs[d][n] \in Symbol
                /\ tabs[d][n].scope \in Int
                /\ tabs[d][n].type = "lvar" <=> tabs[d][n].scope > 0
                /\ tabs[d][n].type = "lvar" => tabs[d][n].slot \in Nat
<1>1. TAKE d \in 0 .. scope
<1>2. d \in Depths /\ d \in Nat
  BY BoundsAssumption DEF IInv, TypeOK, Depths
<1>3. idx[d] \in Nat /\ tabs[d] \in [Names -> Symbol]
  BY <1>2 DEF IInv, TypeOK
<1>4. \A n \in Names : tabs[d][n] \in Symbol
  BY <1>3
<1>5. QED
  BY <1>2, <1>3, <1>4, SymbolFacts

\* The table of the file scope may change in any way that leaves no local in it.
LEMMA ToplevelKeepsIInv ==
  ASSUME IInv, scope = 0, scope' = 0, idx' = idx,
         NEW t \in [Names -> Symbol],
         \A n \in Names : t[n].scope <= 0,
         tabs' = [tabs EXCEPT ![0] = t],
         TypeOK'
  PROVE  IInv'
<1>1. tabs'[0] = t
  BY DEF IInv, TypeOK, Depths
<1>2. \A n \in Names : t[n].type # "lvar"
  BY SymbolFacts
<1>3. QED
  BY <1>1, <1>2 DEF IInv, ScopesBounded, TablesCopied, IdxGrows,
                    SlotsAllocated, SlotsApart, Locals

\* A step that leaves the scopes, tables and indices alone keeps the invariant.
LEMMA UnchangedKeepsIInv ==
  ASSUME IInv, scope' = scope, tabs' = tabs, idx' = idx, TypeOK'
  PROVE  IInv'
  BY DEF IInv, ScopesBounded, TablesCopied, IdxGrows, SlotsAllocated,
         SlotsApart, Locals

\* The three ways to add a symbol return tables.
LEMMA PutTypes ==
  ASSUME NEW tab \in [Names -> Symbol], NEW n \in Names
  PROVE  /\ \A d \in FuncDecl : PutFunc(tab, n, d) \in [Names -> Symbol]
         /\ \A b \in BOOLEAN : PutGVar(tab, n, b) \in [Names -> Symbol]
         /\ \A s \in Nat, d \in Nat \ {0} : PutLVar(tab, n, s, d) \in [Names -> Symbol]
  BY NewSymbols DEF PutFunc, PutGVar, PutLVar

\* The table a function body starts with is a table.
LEMMA ParamTypes ==
  ASSUME NEW tab \in [Names -> Symbol], NEW ps \in Seq(Names)
  PROVE  WithParams(tab, ps) \in [Names -> Symbol]
<1>1. ASSUME NEW n \in Names, \E i \in DOMAIN ps : ps[i] = n
      PROVE  LVar(4 * (CHOOSE i \in DOMAIN ps : ps[i] = n), 1) \in Symbol
  <2>1. PICK i \in DOMAIN ps : i = CHOOSE j \in DOMAIN ps : ps[j] = n
    BY <1>1
  <2>2. 4 * i \in Nat
    OBVIOUS
  <2>3. QED
    BY <2>1, <2>2, NewSymbols
<1>2. QED
  BY <1>1 DEF WithParams

\* A parameter list is a sequence of names.
LEMMA ParamListTypes == ParamLists \subseteq Seq(Names)
  BY BoundsAssumption DEF ParamLists

\* Where the parameters of a function are stored.
LEMMA ParamFacts ==
  ASSUME NEW tab \in [Names -> Symbol], NEW ps \in Seq(Names), ~Duplicated(ps),
         \A n \in Names : tab[n].scope <= 0,
         NEW t, t = WithParams(tab, ps)
  PROVE  \A n \in Names :
           \/ t[n] = tab[n]
           \/ \E i \in 1 .. Len(ps) : ps[i] = n /\ t[n] = LVar(4 * i, 1)
<1>1. TAKE n \in Names
<1>0. DOMAIN ps = 1 .. Len(ps)
  OBVIOUS
<1>2. CASE \E i \in DOMAIN ps : ps[i] = n
  <2>1. PICK i \in DOMAIN ps : ps[i] = n /\ i = CHOOSE j \in DOMAIN ps : ps[j] = n
    BY <1>2
  <2>2. t[n] = LVar(4 * i, 1)
    BY <1>2, <2>1 DEF WithParams
  <2>3. QED
    BY <1>0, <2>1, <2>2
<1>3. CASE ~ \E i \in DOMAIN ps : ps[i] = n
  BY <1>3 DEF WithParams
<1>4. QED
  BY <1>2, <1>3

-----------------------------------------------------------------------------
\* The type invariant is inductive.
LEMMA TypeStep == TypeOK /\ [Next]_vars => TypeOK'
<1> SUFFICES ASSUME TypeOK, [Next]_vars PROVE TypeOK'
  OBVIOUS
<1> USE DEF TypeOK
<1>1. cur \in [Names -> Symbol] /\ tabs[0] \in [Names -> Symbol]
  BY BoundsAssumption DEF cur, Depths
<1>2. ASSUME NEW s, Die(s), s \in {"died", "bug"} PROVE TypeOK'
  BY <1>2 DEF Die
<1>3. ASSUME NEW n \in Names, NEW init \in BOOLEAN, GlobalVar(n, init) PROVE TypeOK'
  <2>1. PutGVar(tabs[0], n, init) \in [Names -> Symbol]
    BY <1>1, PutTypes, Zenon
  <2>2. CASE Die("died") \/ Die("bug")
    BY <2>2, <1>2
  <2>3. CASE ~(Die("died") \/ Die("bug"))
    BY <1>3, <2>1, <2>3 DEF GlobalVar
  <2>4. QED
    BY <2>2, <2>3
<1>4. ASSUME NEW n \in Names, NEW d \in FuncDecl, Prototype(n, d) PROVE TypeOK'
  <2>1. PutFunc(tabs[0], n, d) \in [Names -> Symbol]
    BY <1>1, PutTypes
  <2>2. CASE Die("died") \/ Die("bug")
    BY <2>2, <1>2
  <2>3. CASE ~(Die("died") \/ Die("bug"))
    BY <1>4, <2>1, <2>3 DEF Prototype
  <2>4. QED
    BY <2>2, <2>3
<1>5. ASSUME NEW n \in Names, NEW d \in FuncDecl, NEW ps \in ParamLists,
             Define(n, d, ps)
      PROVE  TypeOK'
  <2>1. PutFunc(cur, n, d) \in [Names -> Symbol]
    BY <1>1, PutTypes
  <2>2. ps \in Seq(Names)
    BY ParamListTypes
  <2>3. WithParams(PutFunc(cur, n, d), ps) \in [Names -> Symbol]
    BY <2>1, <2>2, ParamTypes
  <2>4. CASE Die("died") \/ Die("bug")
    BY <2>4, <1>2
  <2>5. 1 \in Depths /\ Len(ps) \in Nat
    BY <2>2, BoundsAssumption DEF Depths
  <2>6. CASE ~(Die("died") \/ Die("bug"))
    <3> DEFINE global == PutFunc(cur, n, d)
    <3>1. /\ tabs' = [tabs EXCEPT ![0] = global, ![1] = WithParams(global, ps)]
          /\ scope' = 1
          /\ idx' = [idx EXCEPT ![0] = 0, ![1] = 4 * Len(ps)]
          /\ fdefs' = [fdefs EXCEPT ![n] = @ + 1]
          /\ UNCHANGED <<operand, vdefs, status>>
      BY <1>5, <2>6 DEF Define
    <3>2. tabs' \in [Depths -> [Names -> Symbol]]
      BY <2>1, <2>3, <3>1
    <3>3. idx' \in [Depths -> Nat]
      BY <2>5, <3>1
    <3>4. fdefs' \in [Names -> Nat]
      BY <3>1
    <3>5. scope' \in Depths
      BY <2>5, <3>1
    <3> HIDE DEF global
    <3>6. QED
      BY <3>1, <3>2, <3>3, <3>4, <3>5
  <2>7. QED
    BY <2>4, <2>6
<1>6. ASSUME NEW n \in Names, Declare(n) PROVE TypeOK'
  <2>1. CASE Die("died")
    BY <2>1, <1>2
  <2>2. CASE ~Die("died")
    <3>1. scope \in Nat \ {0} /\ idx[scope] \in Nat
      BY <1>6, BoundsAssumption DEF Declare, InFunction, Depths
    <3>2. PutLVar(cur, n, idx[scope] + 4, scope) \in [Names -> Symbol]
      <4>1. idx[scope] + 4 \in Nat
        BY <3>1
      <4>2. QED
        BY <1>1, <3>1, <4>1, PutTypes
    <3>3. QED
      BY <1>6, <2>2, <3>1, <3>2 DEF Declare, cur
  <2>3. QED
    BY <2>1, <2>2
<1>7. ASSUME NEW n \in Names, Reference(n) PROVE TypeOK'
  <2>1. CASE Die("died")
    BY <2>1, <1>2
  <2>2. CASE ~Die("died")
    <3>1. OperandOf(n, cur[n]) \in Operand
      BY <1>1, <1>7, <2>2, SymbolFacts DEF OperandOf, Operand, Reference
    <3>2. QED
      BY <1>7, <2>2, <3>1 DEF Reference
  <2>3. QED
    BY <2>1, <2>2
<1>8. ASSUME NEW n \in Names, NEW k \in 0 .. MaxArgs, Call(n, k) PROVE TypeOK'
  <2>1. CallResidue(k) \in Nat
    BY BoundsAssumption DEF CallResidue
  <2>2. CASE Die("died")
    BY <2>2, <1>2
  <2>3. QED
    BY <1>8, <2>1, <2>2 DEF Call
<1>9. ASSUME OpenScope PROVE TypeOK'
  BY <1>1, <1>9, BoundsAssumption DEF OpenScope, InFunction, Depths
<1>10. ASSUME CloseScope PROVE TypeOK'
  <2>1. EmptyTab \in [Names -> Symbol]
    BY NewSymbols DEF EmptyTab
  <2>2. scope - 1 \in Depths
    BY <1>10, BoundsAssumption DEF CloseScope, InFunction, Depths
  <2>3. QED
    BY <1>10, <2>1, <2>2 DEF CloseScope
<1>11. ASSUME Finish PROVE TypeOK'
  BY <1>11 DEF Finish
<1>12. CASE UNCHANGED vars
  BY <1>12 DEF vars
<1>13. QED
  BY <1>3, <1>4, <1>5, <1>6, <1>7, <1>8, <1>9, <1>10, <1>11, <1>12 DEF Next

\* The type invariant holds initially.
LEMMA TypeInit == Init => TypeOK
  BY BoundsAssumption, NewSymbols DEF Init, TypeOK, EmptyTab, Depths, Operand

\* The code generator's state is well formed throughout.
THEOREM TypeCorrect == Spec => []TypeOK
  BY TypeInit, TypeStep, PTL DEF Spec

-----------------------------------------------------------------------------
(***************************************************************************)
(* The inductive invariant, one lemma per action that changes the tables.  *)
(***************************************************************************)
\* Ending the compilation with an error keeps the invariant.
LEMMA DieKeepsIInv ==
  ASSUME IInv, NEW s, Die(s), TypeOK'
  PROVE  IInv'
  BY UnchangedKeepsIInv DEF Die

\* A declaration of a global variable keeps the invariant.
LEMMA GlobalVarKeepsIInv ==
  ASSUME IInv, TypeOK', NEW n \in Names, NEW init \in BOOLEAN, GlobalVar(n, init)
  PROVE  IInv'
<1>1. CASE Die("died") \/ Die("bug")
  BY <1>1, DieKeepsIInv
<1>2. CASE ~(Die("died") \/ Die("bug"))
  <2> DEFINE t == PutGVar(tabs[0], n, init)
  <2>1. scope = 0 /\ scope' = 0 /\ idx' = idx /\ tabs' = [tabs EXCEPT ![0] = t]
    BY <1>2 DEF GlobalVar, AtToplevel
  <2>2. tabs[0] \in [Names -> Symbol]
    BY BoundsAssumption DEF IInv, TypeOK, Depths
  <2>3. t \in [Names -> Symbol]
    BY <2>2, PutTypes, Zenon
  <2>4. \A m \in Names : tabs[0][m].scope <= 0
    BY <2>1 DEF IInv, ScopesBounded
  <2>5. \A m \in Names : t[m] = tabs[0][m] \/ t[m].scope = 0
    BY <2>2 DEF PutGVar, GVar
  <2>6. \A m \in Names : t[m].scope <= 0
    BY <2>4, <2>5
  <2> HIDE DEF t
  <2>7. QED
    BY <2>1, <2>3, <2>6, ToplevelKeepsIInv
<1>3. QED
  BY <1>1, <1>2

\* A prototype keeps the invariant.
LEMMA PrototypeKeepsIInv ==
  ASSUME IInv, TypeOK', NEW n \in Names, NEW d \in FuncDecl, Prototype(n, d)
  PROVE  IInv'
<1>1. CASE Die("died") \/ Die("bug")
  BY <1>1, DieKeepsIInv
<1>2. CASE ~(Die("died") \/ Die("bug"))
  <2> DEFINE t == PutFunc(tabs[0], n, d)
  <2>1. scope = 0 /\ scope' = 0 /\ idx' = idx /\ tabs' = [tabs EXCEPT ![0] = t]
    BY <1>2 DEF Prototype, AtToplevel
  <2>2. tabs[0] \in [Names -> Symbol]
    BY BoundsAssumption DEF IInv, TypeOK, Depths
  <2>3. t \in [Names -> Symbol]
    BY <2>2, PutTypes
  <2>4. \A m \in Names : tabs[0][m].scope <= 0
    BY <2>1 DEF IInv, ScopesBounded
  <2>5. \A m \in Names : t[m].scope <= 0
    BY <2>2, <2>4 DEF PutFunc, Func
  <2> HIDE DEF t
  <2>6. QED
    BY <2>1, <2>3, <2>5, ToplevelKeepsIInv
<1>3. QED
  BY <1>1, <1>2

\* The start of a function keeps the invariant: the parameters get slots of
\* their own.
LEMMA DefineKeepsIInv ==
  ASSUME IInv, TypeOK', NEW n \in Names, NEW d \in FuncDecl,
         NEW ps \in ParamLists, Define(n, d, ps)
  PROVE  IInv'
<1>1. CASE Die("died") \/ Die("bug")
  BY <1>1, DieKeepsIInv
<1>2. CASE ~(Die("died") \/ Die("bug"))
  <2> DEFINE g == PutFunc(cur, n, d)
             t == WithParams(g, ps)
  <2>1. /\ scope = 0 /\ scope' = 1
        /\ tabs' = [tabs EXCEPT ![0] = g, ![1] = t]
        /\ idx' = [idx EXCEPT ![0] = 0, ![1] = 4 * Len(ps)]
        /\ ~Duplicated(ps)
    BY <1>2 DEF Define, AtToplevel
  <2>2. tabs[0] \in [Names -> Symbol] /\ cur = tabs[0]
    BY <2>1, BoundsAssumption DEF IInv, TypeOK, Depths, cur
  <2>3. g \in [Names -> Symbol]
    BY <2>2, PutTypes
  <2>4. \A m \in Names : g[m].scope <= 0
    BY <2>1, <2>2 DEF IInv, ScopesBounded, PutFunc, Func
  <2>5. ps \in Seq(Names)
    BY ParamListTypes
  <2> HIDE DEF g
  <2>6. t \in [Names -> Symbol]
    BY <2>3, <2>5, ParamTypes
  <2>7. \A m \in Names :
           \/ t[m] = g[m]
           \/ \E i \in 1 .. Len(ps) : ps[i] = m /\ t[m] = LVar(4 * i, 1)
    BY <2>1, <2>3, <2>4, <2>5, ParamFacts, SMTT(60)
  <2> HIDE DEF t
  <2>8. /\ tabs'[0] = g /\ tabs'[1] = t
        /\ idx'[0] = 0 /\ idx'[1] = 4 * Len(ps) /\ Len(ps) \in Nat
    BY <2>1, <2>5, BoundsAssumption DEF IInv, TypeOK, Depths
  <2>9. \A m \in Names : g[m].type # "lvar"
    BY <2>3, <2>4, SymbolFacts
  <2>10. \A m \in Names : t[m].type = "lvar" =>
            \E i \in 1 .. Len(ps) :
              ps[i] = m /\ t[m].slot = 4 * i /\ t[m].scope = 1
    BY <2>7, <2>9, LVarFacts
  <2>11. \A m \in Names : t[m] = g[m] \/ t[m].scope = 1
    BY <2>7, LVarFacts
  <2>12. ScopesBounded' /\ TablesCopied' /\ IdxGrows'
    <3>1. \A e \in 0 .. scope' : e = 0 \/ e = 1
      BY <2>1
    <3>2. \A m \in Names : g[m].scope \in Int
      BY <2>3, SymbolFacts
    <3>3. ScopesBounded'
      BY <2>4, <2>8, <2>11, <3>1, <3>2 DEF ScopesBounded
    <3>4. TablesCopied'
      BY <2>8, <2>11, <3>1 DEF TablesCopied
    <3>5. IdxGrows'
      BY <2>8, <3>1 DEF IdxGrows
    <3>6. QED
      BY <3>3, <3>4, <3>5
  <2>13. SlotsAllocated'
    BY <2>1, <2>8, <2>9, <2>10 DEF SlotsAllocated, Locals
  <2>14. SlotsApart'
    BY <2>1, <2>8, <2>9, <2>10 DEF SlotsApart, Locals
  <2>15. QED
    BY <2>12, <2>13, <2>14 DEF IInv
<1>3. QED
  BY <1>1, <1>2

\* Copying the table for an inner scope keeps the invariant.
LEMMA OpenScopeKeepsIInv ==
  ASSUME IInv, TypeOK', OpenScope
  PROVE  IInv'
<1>1. /\ scope \in Nat \ {0} /\ scope' = scope + 1
      /\ scope + 1 \in Depths
      /\ tabs' = [tabs EXCEPT ![scope + 1] = tabs[scope]]
      /\ idx' = [idx EXCEPT ![scope + 1] = idx[scope]]
  BY BoundsAssumption DEF OpenScope, InFunction, IInv, TypeOK, Depths, cur
<1>2. /\ tabs'[scope + 1] = tabs[scope]
      /\ idx'[scope + 1] = idx[scope]
      /\ \A d \in 0 .. scope : tabs'[d] = tabs[d] /\ idx'[d] = idx[d]
  BY <1>1 DEF IInv, TypeOK, Depths
<1>3. \A d \in 0 .. scope' : d \in 0 .. scope \/ d = scope + 1
  BY <1>1
<1>4. \A d \in 0 .. scope :
        idx[d] \in Nat /\ \A n \in Names : tabs[d][n].scope \in Int
  BY StateTypes
<1>5. scope \in 0 .. scope
  BY <1>1
<1>6. ScopesBounded'
  BY <1>1, <1>2, <1>3, <1>4, <1>5 DEF IInv, ScopesBounded
<1>7. TablesCopied'
  BY <1>1, <1>2, <1>3, <1>4, <1>5 DEF IInv, TablesCopied
<1>8. IdxGrows'
  BY <1>1, <1>2, <1>3, <1>4, <1>5 DEF IInv, IdxGrows
<1>9. SlotsAllocated'
  BY <1>1, <1>2, <1>3, <1>4, <1>5 DEF IInv, SlotsAllocated, ScopesBounded, Locals
<1>10. SlotsApart'
  BY <1>1, <1>2, <1>3, <1>5 DEF IInv, SlotsApart, Locals
<1>11. QED
  BY <1>6, <1>7, <1>8, <1>9, <1>10 DEF IInv

\* Going back to the saved table and stack index keeps the invariant.
LEMMA CloseScopeKeepsIInv ==
  ASSUME IInv, TypeOK', CloseScope
  PROVE  IInv'
<1>1. /\ scope \in Nat \ {0} /\ scope' = scope - 1
      /\ \A d \in 0 .. scope - 1 : tabs'[d] = tabs[d] /\ idx'[d] = idx[d]
  BY BoundsAssumption DEF CloseScope, InFunction, IInv, TypeOK, Depths
<1>2. \A d \in 0 .. scope' : d \in 0 .. scope /\ d \in 0 .. scope - 1
  BY <1>1
<1>3. QED
  BY <1>1, <1>2 DEF IInv, ScopesBounded, TablesCopied, IdxGrows,
                    SlotsAllocated, SlotsApart, Locals

\* A local declaration keeps the invariant: its slot is above all others.
LEMMA DeclareKeepsIInv ==
  ASSUME IInv, TypeOK', NEW n \in Names, Declare(n)
  PROVE  IInv'
<1>1. CASE Die("died")
  BY <1>1, DieKeepsIInv
<1>2. CASE ~Die("died")
  <2>1. /\ scope \in Nat \ {0} /\ scope' = scope /\ scope \in Depths
        /\ tabs' = [tabs EXCEPT ![scope] = PutLVar(@, n, idx[scope] + 4, scope)]
        /\ idx' = [idx EXCEPT ![scope] = @ + 4]
    BY <1>2, BoundsAssumption DEF Declare, InFunction, IInv, TypeOK, Depths
  <2>2. /\ tabs'[scope][n] = LVar(idx[scope] + 4, scope)
        /\ \A m \in Names : m # n => tabs'[scope][m] = tabs[scope][m]
        /\ \A d \in 0 .. scope : d # scope => tabs'[d] = tabs[d] /\ idx'[d] = idx[d]
        /\ idx'[scope] = idx[scope] + 4
    BY <2>1 DEF IInv, TypeOK, PutLVar, Depths
  <2>3. \A d \in 0 .. scope :
          /\ idx[d] \in Nat
          /\ \A m \in Names : /\ tabs[d][m].scope \in Int
                              /\ tabs[d][m].type = "lvar" => tabs[d][m].slot \in Nat
    BY StateTypes
  <2>4. scope \in 0 .. scope
    BY <2>1
  <2>5. ScopesBounded'
    BY <2>1, <2>2, <2>3, <2>4 DEF IInv, ScopesBounded, LVar
  <2>6. TablesCopied'
    BY <2>1, <2>2, <2>3, <2>4 DEF IInv, TablesCopied, LVar
  <2>7. IdxGrows'
    BY <2>1, <2>2, <2>3, <2>4 DEF IInv, IdxGrows
  <2>8. SlotsAllocated'
    BY <2>1, <2>2, <2>3, <2>4 DEF IInv, SlotsAllocated, ScopesBounded, IdxGrows, Locals, LVar
  <2>9. SlotsApart'
    BY <2>1, <2>2, <2>3, <2>4 DEF IInv, SlotsApart, SlotsAllocated, Locals, LVar
  <2>10. QED
    BY <2>5, <2>6, <2>7, <2>8, <2>9 DEF IInv
<1>3. QED
  BY <1>1, <1>2

\* A call keeps the invariant: it only ever raises stack_index.
LEMMA CallKeepsIInv ==
  ASSUME IInv, TypeOK', NEW n \in Names, NEW k \in 0 .. MaxArgs, Call(n, k)
  PROVE  IInv'
<1>1. CASE Die("died")
  BY <1>1, DieKeepsIInv
<1>2. CASE ~Die("died")
  <2>1. CallResidue(k) \in Nat
    BY BoundsAssumption DEF CallResidue
  <2>2. /\ scope \in Nat \ {0} /\ scope' = scope /\ scope \in Depths
        /\ tabs' = tabs
        /\ idx' = [idx EXCEPT ![scope] = @ + CallResidue(k)]
    BY <1>2, BoundsAssumption DEF Call, InFunction, IInv, TypeOK, Depths
  <2>3. /\ idx'[scope] >= idx[scope]
        /\ \A d \in 0 .. scope : d # scope => idx'[d] = idx[d]
        /\ \A d \in 0 .. scope : idx[d] \in Nat /\ idx'[d] \in Nat
        /\ scope \in 0 .. scope
    <3>1. idx'[scope] = idx[scope] + CallResidue(k) /\ scope \in 0 .. scope
      BY <2>2 DEF IInv, TypeOK
    <3>2. \A d \in 0 .. scope : d # scope => idx'[d] = idx[d]
      BY <2>2 DEF IInv, TypeOK
    <3>3. QED
      BY <2>1, <3>1, <3>2, StateTypes
  <2>4. \A d \in 0 .. scope : \A m \in Names :
          /\ tabs[d][m].scope \in Int
          /\ tabs[d][m].type = "lvar" => tabs[d][m].slot \in Nat
    BY StateTypes
  <2>5. IdxGrows'
    BY <2>2, <2>3 DEF IInv, IdxGrows
  <2>6. SlotsAllocated'
    BY <2>2, <2>3, <2>4 DEF IInv, SlotsAllocated, ScopesBounded, Locals
  <2>7. QED
    BY <2>2, <2>5, <2>6 DEF IInv, ScopesBounded, TablesCopied, SlotsApart, Locals
<1>3. QED
  BY <1>1, <1>2

\* Every step keeps the invariant.
LEMMA Inductive == IInv /\ [Next]_vars => IInv'
<1> SUFFICES ASSUME IInv, [Next]_vars PROVE IInv'
  OBVIOUS
<1>1. TypeOK'
  BY TypeStep DEF IInv
<1>2. ASSUME NEW n \in Names, Reference(n) PROVE IInv'
  BY <1>1, <1>2, UnchangedKeepsIInv DEF Reference, Die
<1>3. CASE Finish
  BY <1>1, <1>3, UnchangedKeepsIInv DEF Finish
<1>4. CASE UNCHANGED vars
  BY <1>1, <1>4, UnchangedKeepsIInv DEF vars
<1>5. QED
  BY <1>1, <1>2, <1>3, <1>4, GlobalVarKeepsIInv, PrototypeKeepsIInv,
     DefineKeepsIInv, OpenScopeKeepsIInv, CloseScopeKeepsIInv,
     DeclareKeepsIInv, CallKeepsIInv DEF Next

\* The invariant holds initially.
LEMMA InitEstablishes == Init => IInv
<1> SUFFICES ASSUME Init PROVE IInv
  OBVIOUS
<1>1. scope = 0 /\ tabs[0] = EmptyTab
  BY BoundsAssumption DEF Init, Depths
<1>2. QED
  BY <1>1, TypeInit DEF IInv, ScopesBounded, TablesCopied, IdxGrows,
                        SlotsAllocated, SlotsApart, Locals, EmptyTab, NoSym

\* The tables of the open scopes are copies of one another but for the symbols of
\* their own scope, and the slots of a scope lie between its outer scope's
\* stack_index and its own, throughout.
THEOREM Invariant == Spec => []IInv
  BY InitEstablishes, Inductive, PTL DEF Spec

-----------------------------------------------------------------------------
(***************************************************************************)
(* The safety properties follow from the invariant.                        *)
(***************************************************************************)
\* Slots in separate ranges, and apart within a range, are disjoint.
LEMMA DisjointFromInvariant == IInv => SlotsDisjoint
<1> SUFFICES ASSUME IInv,
                    NEW d \in 1 .. scope, NEW e \in 1 .. scope,
                    NEW m \in DeclaredIn(d), NEW n \in DeclaredIn(e)
             PROVE  LET s == tabs[d][m].slot
                        t == tabs[e][n].slot
                    IN /\ 4 <= s /\ s <= idx[scope]
                       /\ <<d, m>> # <<e, n>> => (s - t >= 4 \/ t - s >= 4)
  BY DEF SlotsDisjoint
<1> DEFINE s == tabs[d][m].slot
           t == tabs[e][n].slot
<1>1. scope \in Nat
  BY DEF IInv, TypeOK, Depths
<1>2. d \in 0 .. scope /\ e \in 0 .. scope /\ scope \in 0 .. scope
  BY <1>1
<1>3. m \in Locals(d) /\ n \in Locals(e) /\ s \in Nat /\ t \in Nat
  BY <1>2, StateTypes DEF DeclaredIn, Locals
<1>4. /\ 4 <= s /\ s <= idx[d] /\ 4 <= t /\ t <= idx[e]
      /\ e < d => idx[e] + 4 <= s
      /\ d < e => idx[d] + 4 <= t
  BY <1>2, <1>3 DEF IInv, SlotsAllocated, DeclaredIn
<1>5. idx[d] <= idx[scope] /\ idx[d] \in Nat /\ idx[e] \in Nat /\ idx[scope] \in Nat
  BY <1>2, StateTypes DEF IInv, IdxGrows
<1>6. d = e /\ m # n => s - t >= 4 \/ t - s >= 4
  BY <1>2, <1>3 DEF IInv, SlotsApart
<1> HIDE DEF s, t
<1>7. /\ 4 <= s /\ s <= idx[scope]
      /\ <<d, m>> # <<e, n>> => (s - t >= 4 \/ t - s >= 4)
  BY <1>2, <1>3, <1>4, <1>5, <1>6
<1>8. QED
  BY <1>7 DEF s, t

\* In every program, whatever its size and nesting, live local variables have
\* storage of their own inside the allocated part of the frame.
THEOREM LocalsDisjoint == Spec => []SlotsDisjoint
  BY Invariant, DisjointFromInvariant, PTL

\* Copied tables answer with the innermost declaration.
LEMMA InnermostFromInvariant == IInv => InnermostWins
<1> SUFFICES ASSUME IInv, NEW n \in Names, NEW d \in 0 .. scope,
                    tabs[d][n].scope = d,
                    \A e \in d + 1 .. scope : tabs[e][n].scope # e
             PROVE  cur[n] = tabs[d][n]
  BY DEF InnermostWins
<1> DEFINE c == tabs[scope][n].scope
<1>1. scope \in Nat /\ d \in Nat /\ scope \in 0 .. scope
  BY BoundsAssumption DEF IInv, TypeOK, Depths
<1>2. c \in Int /\ c <= scope
  BY <1>1, StateTypes DEF IInv, ScopesBounded
<1>3. CASE d = scope
  BY <1>3 DEF cur
<1>4. CASE d < scope
  <2>1. tabs[scope][n] = tabs[d][n] \/ c > d
    BY <1>1, <1>4 DEF IInv, TablesCopied
  <2>2. ASSUME c > d PROVE FALSE
    <3>1. c \in d + 1 .. scope /\ c \in 0 .. scope
      BY <1>1, <1>2, <2>2
    <3>2. c < scope
      <4>1. scope \in d + 1 .. scope
        BY <1>1, <1>4
      <4>2. c # scope
        BY <4>1
      <4>3. QED
        BY <1>1, <1>2, <4>2
    <3>3. tabs[scope][n] = tabs[c][n]
      BY <1>1, <3>1, <3>2 DEF IInv, TablesCopied
    <3>4. QED
      BY <3>1, <3>3
  <2>3. QED
    BY <2>1, <2>2 DEF cur
<1>5. QED
  BY <1>1, <1>3, <1>4

\* The flat, copied table always resolves a name to the innermost declaration.
THEOREM InnermostResolved == Spec => []InnermostWins
  BY Invariant, InnermostFromInvariant, PTL

\* The BUG and the assertion on file scope symbols are unreachable.
LEMMA NoBugStep == IInv /\ NoBug /\ [Next]_vars => NoBug'
<1> SUFFICES ASSUME IInv, NoBug, [Next]_vars PROVE NoBug'
  OBVIOUS
<1>1. ASSUME AtToplevel, NEW n \in Names PROVE ~(cur[n].scope > 0)
  <2>1. scope = 0 /\ 0 \in 0 .. scope
    BY <1>1 DEF AtToplevel
  <2>2. QED
    BY <2>1, StateTypes DEF IInv, ScopesBounded, cur
<1>2. ASSUME NEW n \in Names, NEW init \in BOOLEAN, GlobalVar(n, init) PROVE NoBug'
  BY <1>1, <1>2 DEF GlobalVar, Die, NoBug
<1>3. ASSUME NEW n \in Names, NEW d \in FuncDecl, Prototype(n, d) PROVE NoBug'
  BY <1>1, <1>3 DEF Prototype, Die, NoBug
<1>4. ASSUME NEW n \in Names, NEW d \in FuncDecl, NEW ps \in ParamLists,
             Define(n, d, ps)
      PROVE  NoBug'
  BY <1>1, <1>4 DEF Define, Die, NoBug
<1>5. ASSUME NEW n \in Names, Declare(n) \/ Reference(n) PROVE NoBug'
  BY <1>5 DEF Declare, Reference, Die, NoBug
<1>6. ASSUME NEW n \in Names, NEW k \in 0 .. MaxArgs, Call(n, k) PROVE NoBug'
  BY <1>6 DEF Call, Die, NoBug
<1>7. CASE OpenScope \/ CloseScope \/ Finish \/ UNCHANGED vars
  BY <1>7 DEF OpenScope, CloseScope, Finish, vars, NoBug
<1>8. QED
  BY <1>2, <1>3, <1>4, <1>5, <1>6, <1>7 DEF Next

\* No source makes symtable.c report a bug of its own.
THEOREM NoBugReached == Spec => []NoBug
<1>1. Init => NoBug
  BY DEF Init, NoBug
<1>2. QED
  BY <1>1, NoBugStep, Invariant, PTL DEF Spec

-----------------------------------------------------------------------------
(***************************************************************************)
(* The file scope: steps inside a function leave tabs[0] alone, the others *)
(* change one entry of it.                                                 *)
(***************************************************************************)
\* Outside of functions the table in force is that of the file scope.
LEMMA ZeroTable ==
  ASSUME IInv
  PROVE  /\ 0 \in Depths /\ tabs[0] \in [Names -> Symbol]
         /\ scope = 0 => cur = tabs[0] /\ \A n \in Names : tabs[0][n].type # "lvar"
<1>1. 0 \in Depths /\ tabs[0] \in [Names -> Symbol]
  BY BoundsAssumption DEF IInv, TypeOK, Depths
<1>2. ASSUME scope = 0, NEW n \in Names PROVE tabs[0][n].type # "lvar"
  BY <1>2, StateTypes DEF IInv, ScopesBounded
<1>3. QED
  BY <1>1, <1>2 DEF cur

\* Steps inside a function leave the table of the file scope alone.
LEMMA InnerSteps ==
  ASSUME IInv,
         \/ OpenScope \/ CloseScope
         \/ \E n \in Names : Declare(n) \/ Reference(n)
                             \/ \E k \in 0 .. MaxArgs : Call(n, k)
  PROVE  /\ tabs'[0] = tabs[0] /\ fdefs' = fdefs /\ vdefs' = vdefs
         /\ status = "gen" /\ status' \in {"gen", "died"}
<1>1. scope \in Nat
  BY DEF IInv, TypeOK, Depths
<1>2. CASE OpenScope \/ CloseScope
  BY <1>1, <1>2, BoundsAssumption
     DEF OpenScope, CloseScope, InFunction, IInv, TypeOK, Depths
<1>3. ASSUME NEW n \in Names, Declare(n)
      PROVE  /\ tabs'[0] = tabs[0] /\ fdefs' = fdefs /\ vdefs' = vdefs
             /\ status = "gen" /\ status' \in {"gen", "died"}
  BY <1>1, <1>3, BoundsAssumption
     DEF Declare, Die, InFunction, IInv, TypeOK, Depths
<1>4. ASSUME NEW n \in Names, Reference(n) \/ \E k \in 0 .. MaxArgs : Call(n, k)
      PROVE  /\ tabs'[0] = tabs[0] /\ fdefs' = fdefs /\ vdefs' = vdefs
             /\ status = "gen" /\ status' \in {"gen", "died"}
  BY <1>4 DEF Reference, Call, Die, InFunction
<1>5. QED
  BY <1>2, <1>3, <1>4

\* A global declaration that is accepted: how the entry of the name changes.
LEMMA GlobalVarStep ==
  ASSUME IInv, NEW n \in Names, NEW init \in BOOLEAN, GlobalVar(n, init)
  PROVE  \/ Die("died") \/ Die("bug")
         \/ /\ status = "gen" /\ status' = status /\ fdefs' = fdefs
            /\ \A m \in Names : m # n => tabs'[0][m] = tabs[0][m]
            /\ \/ tabs[0][n] = NoSym /\ tabs'[0][n] = GVar(init)
               \/ /\ tabs[0][n].type = "gvar" /\ ~(init /\ tabs[0][n].init)
                  /\ tabs'[0][n] = IF init THEN GVar(init) ELSE tabs[0][n]
            /\ vdefs' = IF init THEN [vdefs EXCEPT ![n] = @ + 1] ELSE vdefs
<1>1. CASE ~(Die("died") \/ Die("bug"))
  <2>1. /\ scope = 0 /\ status = "gen" /\ status' = status /\ fdefs' = fdefs
        /\ ~GVarRejected(cur[n], init)
        /\ tabs' = [tabs EXCEPT ![0] = PutGVar(@, n, init)]
        /\ vdefs' = IF init THEN [vdefs EXCEPT ![n] = @ + 1] ELSE vdefs
    BY <1>1, Zenon DEF GlobalVar, AtToplevel
  <2>2. tabs'[0] = PutGVar(tabs[0], n, init) /\ cur = tabs[0]
    BY <2>1, ZeroTable DEF IInv, TypeOK
  <2>3. tabs[0] \in [Names -> Symbol] /\ tabs[0][n] \in Symbol
    BY ZeroTable
  <2>4. \A m \in Names : m # n => tabs'[0][m] = tabs[0][m]
    BY <2>2, <2>3 DEF PutGVar
  <2>5. CASE tabs[0][n] = NoSym
    <3>1. tabs'[0][n] = GVar(init)
      BY <2>2, <2>3, <2>5 DEF PutGVar
    <3>2. QED
      BY <2>1, <2>4, <2>5, <3>1
  <2>6. CASE tabs[0][n] # NoSym
    <3>1. tabs[0][n].type = "gvar" /\ ~(init /\ tabs[0][n].init)
      BY <2>1, <2>2, <2>6, Zenon DEF GVarRejected
    <3>2. CASE init
      <4>1. tabs'[0][n] = GVar(init)
        BY <2>2, <2>3, <2>6, <3>1, <3>2 DEF PutGVar
      <4>2. QED
        BY <2>1, <2>4, <3>1, <3>2, <4>1
    <3>3. CASE ~init
      <4>1. tabs'[0][n] = tabs[0][n]
        BY <2>2, <2>3, <2>6, <3>3 DEF PutGVar
      <4>2. QED
        BY <2>1, <2>4, <3>1, <3>3, <4>1
    <3>4. QED
      BY <3>2, <3>3
  <2>7. QED
    BY <2>5, <2>6
<1>2. QED
  BY <1>1

\* A function declaration that is accepted: how the entry of the name changes.
LEMMA FuncStep ==
  ASSUME IInv, NEW n \in Names, NEW d \in FuncDecl,
         \/ Prototype(n, d)
         \/ \E ps \in ParamLists : Define(n, d, ps)
  PROVE  \/ Die("died") \/ Die("bug")
         \/ /\ status = "gen" /\ status' = status /\ vdefs' = vdefs
            /\ \A m \in Names : m # n => tabs'[0][m] = tabs[0][m]
            /\ tabs[0][n] = NoSym \/ tabs[0][n].type = "func"
            /\ ~FuncRejected(tabs[0][n], d)
            /\ tabs'[0][n] = IF tabs[0][n].type = "func" /\ tabs[0][n].decl.body
                             THEN tabs[0][n] ELSE Func(d)
            /\ fdefs' = IF d.body THEN [fdefs EXCEPT ![n] = @ + 1] ELSE fdefs
<1>1. CASE ~(Die("died") \/ Die("bug"))
  <2>1. /\ scope = 0 /\ status = "gen" /\ status' = status /\ vdefs' = vdefs
        /\ ~FuncRejected(cur[n], d)
        /\ fdefs' = IF d.body THEN [fdefs EXCEPT ![n] = @ + 1] ELSE fdefs
    BY <1>1 DEF Prototype, Define, AtToplevel
  <2>2. tabs'[0] = PutFunc(tabs[0], n, d) /\ cur = tabs[0]
    BY <1>1, <2>1, ZeroTable DEF Prototype, Define, IInv, TypeOK, cur
  <2>3. tabs[0] \in [Names -> Symbol] /\ tabs[0][n] \in Symbol
        /\ tabs[0][n].type # "lvar"
    BY <2>1, ZeroTable
  <2>4. tabs[0][n] = NoSym \/ tabs[0][n].type = "func"
    <3>1. tabs[0][n].scope # 0 \/ tabs[0][n].type = "func"
      BY <2>1, <2>2 DEF FuncRejected
    <3>2. QED
      BY <2>3, <3>1 DEF Symbol
  <2>5. QED
    BY <2>1, <2>2, <2>3, <2>4 DEF PutFunc
<1>2. QED
  BY <1>1

\* Every step keeps the count of emitted labels in line with the table.
LEMMA OnceStep == IInv /\ GlobalsOnce /\ [Next]_vars => GlobalsOnce'
<1> SUFFICES ASSUME IInv, GlobalsOnce, [Next]_vars PROVE GlobalsOnce'
  OBVIOUS
<1>1. /\ tabs[0] \in [Names -> Symbol] /\ TypeOK
      /\ \A n \in Names : /\ tabs[0][n].type = "gvar" => tabs[0][n].init \in BOOLEAN
                          /\ tabs[0][n].type = "func" => tabs[0][n].decl \in FuncDecl
  BY ZeroTable, SymbolFacts DEF IInv
<1>2. ASSUME status = "gen", Die("died") \/ Die("bug") PROVE GlobalsOnce'
  BY <1>2 DEF Die, GlobalsOnce
<1>3. ASSUME NEW n \in Names, NEW init \in BOOLEAN, GlobalVar(n, init)
      PROVE  GlobalsOnce'
  <2>1. CASE Die("died") \/ Die("bug")
    BY <1>2, <1>3, <2>1 DEF GlobalVar, AtToplevel
  <2>2. CASE ~(Die("died") \/ Die("bug"))
    <3>1. /\ status = "gen" /\ status' = status /\ fdefs' = fdefs
          /\ \A m \in Names : m # n => tabs'[0][m] = tabs[0][m]
          /\ \/ tabs[0][n] = NoSym /\ tabs'[0][n] = GVar(init)
             \/ /\ tabs[0][n].type = "gvar" /\ ~(init /\ tabs[0][n].init)
                /\ tabs'[0][n] = IF init THEN GVar(init) ELSE tabs[0][n]
          /\ vdefs' = IF init THEN [vdefs EXCEPT ![n] = @ + 1] ELSE vdefs
      BY <1>3, <2>2, GlobalVarStep, Zenon
    <3>2. tabs[0][n] = NoSym => vdefs[n] = 0 /\ fdefs[n] = 0
      BY DEF GlobalsOnce, NoSym
    <3>3. tabs[0][n].type = "gvar" =>
             fdefs[n] = 0 /\ vdefs[n] = IF tabs[0][n].init THEN 1 ELSE 0
      BY <3>1 DEF GlobalsOnce
    <3>4. \A m \in Names : m # n => vdefs'[m] = vdefs[m]
      BY <1>1, <3>1, Zenon DEF TypeOK
    <3>5. CASE init
      <4>1. tabs'[0][n] = GVar(TRUE)
        BY <3>1, <3>5, Zenon
      <4>2. vdefs'[n] = 1 /\ fdefs'[n] = 0
        <5>1. \/ tabs[0][n] = NoSym
              \/ tabs[0][n].type = "gvar" /\ ~tabs[0][n].init
          BY <3>1, <3>5, Zenon
        <5>2. vdefs[n] = 0 /\ fdefs[n] = 0
          BY <3>2, <3>3, <5>1, Zenon
        <5>3. vdefs' = [vdefs EXCEPT ![n] = @ + 1] /\ fdefs' = fdefs
          BY <3>1, <3>5, Zenon
        <5>4. QED
          BY <1>1, <5>2, <5>3 DEF TypeOK
      <4>3. tabs'[0][n].type = "gvar" /\ tabs'[0][n].init
        BY <4>1 DEF GVar
      <4>4. QED
        BY <3>1, <3>4, <4>2, <4>3 DEF GlobalsOnce
    <3>6. CASE ~init
      <4>1. vdefs' = vdefs
        BY <3>1, <3>6, Zenon
      <4>2. CASE tabs[0][n] = NoSym
        <5>1. tabs'[0][n] = GVar(FALSE) \/ tabs'[0][n] = NoSym
          BY <3>1, <3>6, <4>2, Zenon DEF NoSym
        <5>2. tabs'[0][n].type # "func"
              /\ (tabs'[0][n].type = "gvar" => ~tabs'[0][n].init)
          BY <5>1 DEF GVar, NoSym
        <5>3. QED
          BY <3>1, <3>2, <4>1, <4>2, <5>2 DEF GlobalsOnce
      <4>3. CASE tabs[0][n] # NoSym
        <5>1. tabs'[0][n] = tabs[0][n]
          BY <3>1, <3>6, <4>3, Zenon
        <5>2. QED
          BY <3>1, <4>1, <5>1 DEF GlobalsOnce
      <4>4. QED
        BY <4>2, <4>3
    <3>7. QED
      BY <3>5, <3>6
  <2>3. QED
    BY <2>1, <2>2
<1>4. ASSUME NEW n \in Names, NEW d \in FuncDecl,
             Prototype(n, d) \/ \E ps \in ParamLists : Define(n, d, ps)
      PROVE  GlobalsOnce'
  <2>1. CASE Die("died") \/ Die("bug")
    BY <1>2, <1>4, <2>1 DEF Prototype, Define, AtToplevel
  <2>2. CASE ~(Die("died") \/ Die("bug"))
    <3>1. /\ status = "gen" /\ status' = status /\ vdefs' = vdefs
          /\ \A m \in Names : m # n => tabs'[0][m] = tabs[0][m]
          /\ tabs[0][n] = NoSym \/ tabs[0][n].type = "func"
          /\ ~FuncRejected(tabs[0][n], d)
          /\ tabs'[0][n] = IF tabs[0][n].type = "func" /\ tabs[0][n].decl.body
                           THEN tabs[0][n] ELSE Func(d)
          /\ fdefs' = IF d.body THEN [fdefs EXCEPT ![n] = @ + 1] ELSE fdefs
      BY <1>4, <2>2, FuncStep, Zenon
    <3>2. \A m \in Names : m # n => fdefs'[m] = fdefs[m]
      BY <1>1, <3>1 DEF TypeOK
    <3>3. vdefs[n] = 0
      BY <3>1 DEF GlobalsOnce, NoSym
    <3>4. fdefs[n] = IF tabs[0][n].type = "func" /\ tabs[0][n].decl.body THEN 1 ELSE 0
      BY DEF GlobalsOnce
    <3>5. fdefs'[n] = IF d.body THEN fdefs[n] + 1 ELSE fdefs[n]
      BY <1>1, <3>1 DEF TypeOK
    <3>6. tabs'[0][n].type = "func"
      BY <3>1 DEF Func
    <3>7. fdefs'[n] = IF tabs'[0][n].decl.body THEN 1 ELSE 0
      <4>1. CASE tabs[0][n].type = "func" /\ tabs[0][n].decl.body
        BY <3>1, <3>4, <3>5, <4>1 DEF FuncRejected
      <4>2. CASE ~(tabs[0][n].type = "func" /\ tabs[0][n].decl.body)
        BY <3>1, <3>4, <3>5, <4>2 DEF Func
      <4>3. QED
        BY <4>1, <4>2
    <3>8. QED
      BY <3>1, <3>2, <3>3, <3>6, <3>7 DEF GlobalsOnce
  <2>3. QED
    BY <2>1, <2>2
<1>5. ASSUME \/ OpenScope \/ CloseScope
             \/ \E n \in Names : Declare(n) \/ Reference(n)
                                 \/ \E k \in 0 .. MaxArgs : Call(n, k)
      PROVE  GlobalsOnce'
  BY <1>5, InnerSteps DEF GlobalsOnce
<1>6. CASE Finish
  BY <1>1, <1>6, ZeroTable DEF Finish, AtToplevel, GlobalsOnce, TypeOK
<1>7. CASE UNCHANGED vars
  BY <1>7 DEF vars, GlobalsOnce
<1>8. QED
  BY <1>3, <1>4, <1>5, <1>6, <1>7 DEF Next

\* Whatever a file declares and in whatever order, every label of a function or
\* of a global variable is defined exactly once.
THEOREM LabelsOnce == Spec => []GlobalsOnce
<1>1. Init => GlobalsOnce
  BY BoundsAssumption DEF Init, GlobalsOnce, Depths, EmptyTab, NoSym
<1>2. QED
  BY <1>1, OnceStep, Invariant, PTL DEF Spec

KeptStep ==
  \A n \in Names :
    LET old == tabs[0][n]
        new == tabs'[0][n]
    IN old # NoSym =>
         /\ new.type = old.type
         /\ old.type = "gvar" => (old.init => new.init)
         /\ old.type = "func" =>
              /\ new.decl.ret = old.decl.ret
              /\ old.decl.body => new.decl = old.decl

\* No step takes back what a file scope name was declared as.
LEMMA KeptByEveryStep == IInv /\ [Next]_vars => KeptStep
<1> SUFFICES ASSUME IInv, [Next]_vars PROVE KeptStep
  OBVIOUS
<1>1. ASSUME tabs'[0] = tabs[0] PROVE KeptStep
  BY <1>1 DEF KeptStep
<1>2. ASSUME NEW n \in Names, NEW init \in BOOLEAN, GlobalVar(n, init)
      PROVE  KeptStep
  <2>1. CASE Die("died") \/ Die("bug")
    BY <1>1, <2>1 DEF Die
  <2>2. CASE ~(Die("died") \/ Die("bug"))
    <3>1. /\ \A m \in Names : m # n => tabs'[0][m] = tabs[0][m]
          /\ \/ tabs[0][n] = NoSym
             \/ /\ tabs[0][n].type = "gvar" /\ ~(init /\ tabs[0][n].init)
                /\ tabs'[0][n] = IF init THEN GVar(init) ELSE tabs[0][n]
      BY <1>2, <2>2, GlobalVarStep, Zenon
    <3>2. tabs[0][n] # NoSym => \/ tabs'[0][n] = tabs[0][n]
                                \/ /\ tabs[0][n].type = "gvar" /\ ~tabs[0][n].init
                                   /\ tabs'[0][n] = GVar(TRUE)
      BY <3>1, Zenon
    <3>3. QED
      BY <3>1, <3>2 DEF KeptStep, GVar
  <2>3. QED
    BY <2>1, <2>2
<1>3. ASSUME NEW n \in Names, NEW d \in FuncDecl,
             Prototype(n, d) \/ \E ps \in ParamLists : Define(n, d, ps)
      PROVE  KeptStep
  <2>1. CASE Die("died") \/ Die("bug")
    BY <1>1, <2>1 DEF Die
  <2>2. CASE ~(Die("died") \/ Die("bug"))
    <3>1. /\ \A m \in Names : m # n => tabs'[0][m] = tabs[0][m]
          /\ tabs[0][n] = NoSym \/ tabs[0][n].type = "func"
          /\ ~FuncRejected(tabs[0][n], d)
          /\ tabs'[0][n] = IF tabs[0][n].type = "func" /\ tabs[0][n].decl.body
                           THEN tabs[0][n] ELSE Func(d)
      BY <1>3, <2>2, FuncStep, Zenon
    <3>2. tabs[0][n] # NoSym =>
             \/ tabs'[0][n] = tabs[0][n]
             \/ /\ tabs[0][n].type = "func" /\ ~tabs[0][n].decl.body
                /\ tabs'[0][n] = Func(d) /\ tabs[0][n].decl.ret = d.ret
      BY <3>1, Zenon DEF FuncRejected, SignatureDiffers
    <3>3. QED
      BY <3>1, <3>2 DEF KeptStep, Func
  <2>3. QED
    BY <2>1, <2>2
<1>4. ASSUME \/ OpenScope \/ CloseScope
             \/ \E n \in Names : Declare(n) \/ Reference(n)
                                 \/ \E k \in 0 .. MaxArgs : Call(n, k)
      PROVE  KeptStep
  BY <1>1, <1>4, InnerSteps
<1>5. CASE Finish \/ UNCHANGED vars
  BY <1>1, <1>5 DEF Finish, vars
<1>6. QED
  BY <1>2, <1>3, <1>4, <1>5 DEF Next

\* What was declared stays declared: kinds, return types, bodies, initialisers.
THEOREM DeclarationsAreKept == Spec => DeclarationsKept
<1>1. IInv /\ [Next]_vars => [KeptStep]_vars
  BY KeptByEveryStep
<1>2. QED
  BY <1>1, Invariant, PTL DEF Spec, DeclarationsKept, KeptStep

-----------------------------------------------------------------------------
(***************************************************************************)
(* What generate_new_scope adds to %rsp when it closes a scope, against    *)
(* what stack_index grew by in it: 4 bytes for each variable counted by    *)
(* symtable_bytes_in_scope, and what calls leave behind.  The variables    *)
(* are counted in the copied table, where declarations of enclosing scopes *)
(* with the same names are overwritten, not shadowed.                      *)
(***************************************************************************)
\* The bytes of the stack index that belong to scope d.
Grown(d) == idx[d] - idx[d - 1]

\* The inductive invariant: scope d has grown by its variables, and by more only
\* if a call may have arguments on the stack.
Counted(d) ==
  /\ IsFiniteSet(DeclaredIn(d))
  /\ BytesInScope(tabs[d], d) <= Grown(d)
  /\ MaxArgs <= NrCallRegs => BytesInScope(tabs[d], d) = Grown(d)

BytesInv == \A d \in 1 .. scope : Counted(d)

\* Closing a scope never gives back more than was allocated in it: no slot of an
\* enclosing scope ends up above the top of the stack.
NeverTooMuch == \A d \in 1 .. scope : BytesInScope(tabs[d], d) <= Grown(d)

-----------------------------------------------------------------------------
\* The bytes of a scope are four times the variables declared in it.
LEMMA BytesOf ==
  ASSUME NEW d, IsFiniteSet(DeclaredIn(d))
  PROVE  /\ Cardinality(DeclaredIn(d)) \in Nat
         /\ BytesInScope(tabs[d], d) = 4 * Cardinality(DeclaredIn(d))
  BY FS_CardinalityType DEF BytesInScope, DeclaredIn

\* A scope whose table and index, and the index around it, do not change.
LEMMA SameBytes ==
  ASSUME NEW d, Counted(d),
         tabs'[d] = tabs[d], idx'[d] = idx[d], idx'[d - 1] = idx[d - 1]
  PROVE  Counted(d)'
  BY DEF Counted, DeclaredIn, BytesInScope, Grown

\* There are as many parameters in the table as in the list: no name is in the
\* list twice, and no local is in the table before.
LEMMA ParamsCounted ==
  ASSUME NEW tab \in [Names -> Symbol], NEW ps \in Seq(Names), ~Duplicated(ps),
         \A n \in Names : tab[n].scope <= 0,
         NEW t, t = WithParams(tab, ps),
         NEW P, P = {n \in Names : t[n].scope = 1}
  PROVE  IsFiniteSet(P) /\ Cardinality(P) = Len(ps)
<1>1. ps \in [1 .. Len(ps) -> Names] /\ Len(ps) \in Nat
  OBVIOUS
<1>2. \A i \in 1 .. Len(ps) : t[ps[i]].scope = 1
  <2>1. TAKE i \in 1 .. Len(ps)
  <2>2. ps[i] \in Names /\ i \in DOMAIN ps
    BY <1>1
  <2>3. t[ps[i]] = LVar(4 * (CHOOSE j \in DOMAIN ps : ps[j] = ps[i]), 1)
    BY <2>2 DEF WithParams
  <2>4. QED
    BY <2>3, LVarFacts
<1>3. \A n \in P : \E i \in 1 .. Len(ps) : ps[i] = n
  <2>1. \A n \in Names :
           \/ t[n] = tab[n]
           \/ \E i \in 1 .. Len(ps) : ps[i] = n /\ t[n] = LVar(4 * i, 1)
    BY ParamFacts
  <2>2. QED
    BY <2>1
<1>4. \A i, j \in 1 .. Len(ps) : ps[i] = ps[j] => i = j
  BY <1>1 DEF Duplicated
<1>5. ps \in [1 .. Len(ps) -> P]
  BY <1>1, <1>2
<1>6. ps \in Bijection(1 .. Len(ps), P)
  BY <1>3, <1>4, <1>5 DEF Bijection, Injection, Surjection, IsInjective
<1>7. IsFiniteSet(1 .. Len(ps)) /\ Cardinality(1 .. Len(ps)) = Len(ps)
  <2>1. 1 \in Int /\ Len(ps) \in Int
    BY <1>1
  <2>2. /\ IsFiniteSet(1 .. Len(ps))
        /\ Cardinality(1 .. Len(ps)) = IF 1 > Len(ps) THEN 0 ELSE Len(ps) - 1 + 1
    BY <2>1, FS_Interval, Zenon
  <2>3. QED
    BY <1>1, <2>2
<1>8. ExistsBijection(1 .. Len(ps), P)
  BY <1>6 DEF ExistsBijection
<1>9. QED
  BY <1>7, <1>8, FS_Bijection

\* What a call leaves in the stack index.
LEMMA ResidueFacts ==
  ASSUME NEW k \in 0 .. MaxArgs
  PROVE  /\ CallResidue(k) \in Nat
         /\ MaxArgs <= NrCallRegs => CallResidue(k) = 0
  BY BoundsAssumption DEF CallResidue

-----------------------------------------------------------------------------
\* A step that leaves scopes, tables and indices alone keeps the count.
LEMMA StillCounted ==
  ASSUME BytesInv, scope' = scope, tabs' = tabs, idx' = idx
  PROVE  BytesInv'
  BY SameBytes DEF BytesInv

\* Outside of functions there is nothing to count.
LEMMA NothingOutside ==
  ASSUME scope' = 0
  PROVE  BytesInv'
  BY DEF BytesInv

\* The start of a function: its parameters have 4 bytes each.
LEMMA DefineCounts ==
  ASSUME IInv, BytesInv, NEW n \in Names, NEW d \in FuncDecl,
         NEW ps \in ParamLists, Define(n, d, ps)
  PROVE  BytesInv'
<1>1. CASE Die("died") \/ Die("bug")
  BY <1>1, StillCounted DEF Die
<1>2. CASE ~(Die("died") \/ Die("bug"))
  <2> DEFINE g == PutFunc(cur, n, d)
             t == WithParams(g, ps)
  <2>1. /\ scope = 0 /\ scope' = 1
        /\ tabs' = [tabs EXCEPT ![0] = g, ![1] = t]
        /\ idx' = [idx EXCEPT ![0] = 0, ![1] = 4 * Len(ps)]
        /\ ~Duplicated(ps)
    BY <1>2 DEF Define, AtToplevel
  <2>2. tabs[0] \in [Names -> Symbol] /\ cur = tabs[0]
    BY <2>1, BoundsAssumption DEF IInv, TypeOK, Depths, cur
  <2>3. g \in [Names -> Symbol]
    BY <2>2, PutTypes
  <2>4. \A m \in Names : g[m].scope <= 0
    BY <2>1, <2>2 DEF IInv, ScopesBounded, PutFunc, Func
  <2>5. ps \in Seq(Names) /\ Len(ps) \in Nat
    BY ParamListTypes
  <2> HIDE DEF g
  <2> DEFINE P == {m \in Names : t[m].scope = 1}
  <2>6. IsFiniteSet(P) /\ Cardinality(P) = Len(ps)
    BY <2>1, <2>3, <2>4, <2>5, ParamsCounted
  <2> HIDE DEF t
  <2>7. tabs'[1] = t /\ idx'[0] = 0 /\ idx'[1] = 4 * Len(ps)
    BY <2>1, BoundsAssumption DEF IInv, TypeOK, Depths
  <2>8. DeclaredIn(1)' = P
    BY <2>7 DEF DeclaredIn
  <2>9. BytesInScope(tabs[1], 1)' = 4 * Len(ps)
    BY <2>6, <2>7 DEF BytesInScope
  <2>10. Grown(1)' = 4 * Len(ps)
    BY <2>5, <2>7 DEF Grown
  <2>11. Counted(1)'
    BY <2>5, <2>6, <2>8, <2>9, <2>10 DEF Counted
  <2>12. \A e \in 1 .. scope' : e = 1
    BY <2>1
  <2>13. QED
    BY <2>11, <2>12 DEF BytesInv
<1>3. QED
  BY <1>1, <1>2

\* A scope that is opened has no variables and has not grown.
LEMMA OpenCounts ==
  ASSUME IInv, BytesInv, OpenScope
  PROVE  BytesInv'
<1>1. /\ scope \in Nat \ {0} /\ scope' = scope + 1
      /\ scope + 1 \in Depths
      /\ tabs' = [tabs EXCEPT ![scope + 1] = tabs[scope]]
      /\ idx' = [idx EXCEPT ![scope + 1] = idx[scope]]
  BY BoundsAssumption DEF OpenScope, InFunction, IInv, TypeOK, Depths, cur
<1>2. /\ tabs'[scope + 1] = tabs[scope]
      /\ idx'[scope + 1] = idx[scope]
      /\ \A d \in 0 .. scope : tabs'[d] = tabs[d] /\ idx'[d] = idx[d]
  BY <1>1 DEF IInv, TypeOK, Depths
<1>3. \A m \in Names : tabs[scope][m].scope <= scope /\ tabs[scope][m].scope \in Int
  BY <1>1, StateTypes DEF IInv, ScopesBounded
<1>4. ASSUME NEW d, d = scope + 1 PROVE Counted(d)'
  <2>1. tabs'[d] = tabs[scope] /\ idx'[d] = idx[scope] /\ idx'[d - 1] = idx[scope]
        /\ idx[scope] \in Nat
    <3>1. d - 1 = scope /\ scope \in 0 .. scope
      BY <1>1, <1>4
    <3>2. QED
      BY <1>2, <1>4, <3>1, StateTypes
  <2>2. \A m \in Names : tabs[scope][m].scope # d
    BY <1>1, <1>3, <1>4
  <2>3. DeclaredIn(d)' = {} /\ {m \in Names : tabs'[d][m].scope = d} = {}
    BY <2>1, <2>2 DEF DeclaredIn
  <2>4. BytesInScope(tabs[d], d)' = 0
    BY <2>3, FS_EmptySet DEF BytesInScope
  <2>5. Grown(d)' = 0
    BY <2>1 DEF Grown
  <2>6. QED
    BY <2>3, <2>4, <2>5, FS_EmptySet DEF Counted
<1>5. ASSUME NEW d \in 1 .. scope PROVE Counted(d)'
  <2>1. Counted(d)
    BY DEF BytesInv
  <2>2. d \in 0 .. scope /\ d - 1 \in 0 .. scope
    BY <1>1
  <2>3. QED
    BY <1>2, <2>1, <2>2, SameBytes
<1>6. \A d \in 1 .. scope' : d \in 1 .. scope \/ d = scope + 1
  BY <1>1
<1>7. QED
  BY <1>4, <1>5, <1>6 DEF BytesInv

\* Closing a scope brings back the table and index of the one around it.
LEMMA CloseCounts ==
  ASSUME IInv, BytesInv, CloseScope
  PROVE  BytesInv'
<1>1. /\ scope \in Nat \ {0} /\ scope' = scope - 1
      /\ \A d \in 0 .. scope - 1 : tabs'[d] = tabs[d] /\ idx'[d] = idx[d]
  BY BoundsAssumption DEF CloseScope, InFunction, IInv, TypeOK, Depths
<1>2. SUFFICES ASSUME NEW d \in 1 .. scope' PROVE Counted(d)'
  BY DEF BytesInv
<1>3. d \in 1 .. scope /\ d \in 0 .. scope - 1 /\ d - 1 \in 0 .. scope - 1
  BY <1>1
<1>4. Counted(d)
  BY <1>3 DEF BytesInv
<1>5. QED
  BY <1>1, <1>3, <1>4, SameBytes

\* A local declaration adds a name that was not declared in this scope, and
\* 4 bytes.
LEMMA DeclareCounts ==
  ASSUME IInv, BytesInv, NEW n \in Names, Declare(n)
  PROVE  BytesInv'
<1>1. CASE Die("died")
  BY <1>1, StillCounted DEF Die
<1>2. CASE ~Die("died")
  <2>1. /\ scope' = scope /\ scope \in Nat \ {0} /\ scope \in Depths
        /\ idx[scope] \in Nat /\ idx[scope - 1] \in Nat
        /\ tabs \in [Depths -> [Names -> Symbol]] /\ idx \in [Depths -> Nat]
    BY <1>2, BoundsAssumption DEF Declare, InFunction, IInv, TypeOK, Depths
  <2>2. /\ tabs[scope][n].scope # scope
        /\ idx' = [idx EXCEPT ![scope] = @ + 4]
        /\ tabs' = [tabs EXCEPT ![scope] = PutLVar(@, n, idx[scope] + 4, scope)]
    BY <1>2 DEF Declare, LVarRejected, cur
  <2>3. /\ idx'[scope] = idx[scope] + 4
        /\ tabs'[scope] = PutLVar(tabs[scope], n, idx[scope] + 4, scope)
        /\ \A d \in 0 .. scope - 1 : tabs'[d] = tabs[d] /\ idx'[d] = idx[d]
    BY <2>1, <2>2 DEF Depths
  <2>4. /\ tabs'[scope][n].scope = scope
        /\ \A m \in Names : m # n => tabs'[scope][m] = tabs[scope][m]
    BY <2>1, <2>3, LVarFacts DEF PutLVar
  <2>5. DeclaredIn(scope)' = DeclaredIn(scope) \cup {n} /\ n \notin DeclaredIn(scope)
    BY <2>1, <2>2, <2>4 DEF DeclaredIn
  <2>6. scope \in 1 .. scope /\ scope - 1 \in 0 .. scope - 1
    BY <2>1
  <2>7. Counted(scope)
    BY <2>6 DEF BytesInv
  <2>8. IsFiniteSet(DeclaredIn(scope))
    BY <2>7 DEF Counted
  <2>9. /\ IsFiniteSet(DeclaredIn(scope)')
        /\ Cardinality(DeclaredIn(scope)') = Cardinality(DeclaredIn(scope)) + 1
    BY <2>5, <2>8, FS_AddElement
  <2>10. /\ Cardinality(DeclaredIn(scope)) \in Nat
         /\ BytesInScope(tabs[scope], scope) = 4 * Cardinality(DeclaredIn(scope))
    BY <2>8, BytesOf
  <2>11. BytesInScope(tabs[scope], scope)' = 4 * Cardinality(DeclaredIn(scope)')
    BY DEF BytesInScope, DeclaredIn
  <2>12. BytesInScope(tabs[scope], scope)' = BytesInScope(tabs[scope], scope) + 4
    BY <2>9, <2>10, <2>11
  <2>13. Grown(scope)' = Grown(scope) + 4 /\ Grown(scope) \in Int
    BY <2>1, <2>3, <2>6 DEF Grown
  <2>14. Counted(scope)'
    BY <2>1, <2>7, <2>9, <2>10, <2>12, <2>13 DEF Counted
  <2>15. ASSUME NEW d \in 1 .. scope, d # scope PROVE Counted(d)'
    <3>1. d \in 0 .. scope - 1 /\ d - 1 \in 0 .. scope - 1
      BY <2>1, <2>15
    <3>2. Counted(d)
      BY DEF BytesInv
    <3>3. QED
      BY <2>3, <3>1, <3>2, SameBytes
  <2>16. QED
    BY <2>1, <2>14, <2>15 DEF BytesInv
<1>3. QED
  BY <1>1, <1>2

\* A call adds what its arguments on the stack leave, nothing if all fit the
\* registers.
LEMMA CallCounts ==
  ASSUME IInv, BytesInv, NEW n \in Names, NEW k \in 0 .. MaxArgs, Call(n, k)
  PROVE  BytesInv'
<1>1. CASE Die("died")
  BY <1>1, StillCounted DEF Die
<1>2. CASE ~Die("died")
  <2>1. /\ scope' = scope /\ tabs' = tabs /\ scope \in Nat \ {0} /\ scope \in Depths
        /\ idx[scope] \in Nat /\ idx[scope - 1] \in Nat /\ idx \in [Depths -> Nat]
        /\ idx' = [idx EXCEPT ![scope] = @ + CallResidue(k)]
    BY <1>2, BoundsAssumption DEF Call, InFunction, IInv, TypeOK, Depths
  <2>2. CallResidue(k) \in Nat /\ (MaxArgs <= NrCallRegs => CallResidue(k) = 0)
    BY ResidueFacts
  <2>3. /\ idx'[scope] = idx[scope] + CallResidue(k)
        /\ \A d \in 0 .. scope - 1 : idx'[d] = idx[d]
    BY <2>1, <2>2 DEF Depths
  <2>4. scope \in 1 .. scope /\ scope - 1 \in 0 .. scope - 1
    BY <2>1
  <2>5. Counted(scope)
    BY <2>4 DEF BytesInv
  <2>6. IsFiniteSet(DeclaredIn(scope))
    BY <2>5 DEF Counted
  <2>7. BytesInScope(tabs[scope], scope) \in Nat
    BY <2>6, BytesOf
  <2>8. DeclaredIn(scope)' = DeclaredIn(scope)
        /\ BytesInScope(tabs[scope], scope)' = BytesInScope(tabs[scope], scope)
    BY <2>1 DEF DeclaredIn, BytesInScope
  <2>9. Grown(scope)' = Grown(scope) + CallResidue(k) /\ Grown(scope) \in Int
    BY <2>1, <2>2, <2>3, <2>4 DEF Grown
  <2>10. Counted(scope)'
    BY <2>1, <2>2, <2>5, <2>7, <2>8, <2>9 DEF Counted
  <2>11. ASSUME NEW d \in 1 .. scope, d # scope PROVE Counted(d)'
    <3>1. d \in 0 .. scope - 1 /\ d - 1 \in 0 .. scope - 1
      BY <2>1, <2>11
    <3>2. Counted(d)
      BY DEF BytesInv
    <3>3. tabs'[d] = tabs[d]
      BY <2>1
    <3>4. QED
      BY <2>3, <3>1, <3>2, <3>3, SameBytes
  <2>12. QED
    BY <2>1, <2>10, <2>11 DEF BytesInv
<1>3. QED
  BY <1>1, <1>2

-----------------------------------------------------------------------------
\* Every step keeps the count.
LEMMA BytesStep == IInv /\ BytesInv /\ [Next]_vars => BytesInv'
<1> SUFFICES ASSUME IInv, BytesInv, [Next]_vars PROVE BytesInv'
  OBVIOUS
<1>1. ASSUME NEW n \in Names, NEW init \in BOOLEAN, GlobalVar(n, init) PROVE BytesInv'
  BY <1>1, NothingOutside DEF GlobalVar, AtToplevel, Die
<1>2. ASSUME NEW n \in Names, NEW d \in FuncDecl, Prototype(n, d) PROVE BytesInv'
  BY <1>2, NothingOutside DEF Prototype, AtToplevel, Die
<1>3. ASSUME NEW n \in Names, NEW d \in FuncDecl, NEW ps \in ParamLists,
             Define(n, d, ps)
      PROVE  BytesInv'
  BY <1>3, DefineCounts
<1>4. ASSUME NEW n \in Names, Declare(n) PROVE BytesInv'
  BY <1>4, DeclareCounts
<1>5. ASSUME NEW n \in Names, Reference(n) PROVE BytesInv'
  BY <1>5, StillCounted DEF Reference, Die
<1>6. ASSUME NEW n \in Names, NEW k \in 0 .. MaxArgs, Call(n, k) PROVE BytesInv'
  BY <1>6, CallCounts
<1>7. ASSUME OpenScope PROVE BytesInv'
  BY <1>7, OpenCounts
<1>8. ASSUME CloseScope PROVE BytesInv'
  BY <1>8, CloseCounts
<1>9. CASE Finish
  BY <1>9, NothingOutside DEF Finish, AtToplevel
<1>10. CASE UNCHANGED vars
  BY <1>10, StillCounted DEF vars
<1>11. QED
  BY <1>1, <1>2, <1>3, <1>4, <1>5, <1>6, <1>7, <1>8, <1>9, <1>10 DEF Next

\* Whatever is called, a scope is closed by giving back at least its variables
\* and at most what was allocated in it.
THEOREM BytesCounted == Spec => []BytesInv
<1>1. Init => BytesInv
  BY DEF Init, BytesInv
<1>2. QED
  BY <1>1, BytesStep, Invariant, PTL DEF Spec

\* generate_new_scope never takes the stack below the variables that are alive:
\* what it adds to %rsp does not exceed what the scope allocated.
THEOREM NeverReleasesTooMuch == Spec => []NeverTooMuch
<1>1. BytesInv => NeverTooMuch
  BY DEF BytesInv, Counted, NeverTooMuch
<1>2. QED
  BY <1>1, BytesCounted, PTL

\* When the arguments of every call fit the registers, it gives back exactly that.
THEOREM ReleasesExactly ==
  ASSUME MaxArgs <= NrCallRegs
  PROVE  Spec => []FrameBytes
<1>1. BytesInv => FrameBytes
  BY DEF BytesInv, Counted, FrameBytes, Grown
<1>2. QED
  BY <1>1, BytesCounted, PTL

-----------------------------------------------------------------------------
(***************************************************************************)
(* Symtable implements Scopes: every step of the code generator on its     *)
(* copied tables is a step on a chain of scopes, or changes nothing there. *)
(***************************************************************************)
\* What the refinement mapping makes of each kind of symbol.
LEMMA BindingFacts ==
  ASSUME NEW sym \in Symbol
  PROVE  /\ sym.type = "lvar" => Binding(sym) = [kind |-> "local", slot |-> sym.slot]
         /\ sym.type = "gvar" => Binding(sym) = [kind |-> "variable"]
         /\ sym.type = "func" => Binding(sym) = [kind |-> "function"]
         /\ sym.type = "none" => Binding(sym) = [kind |-> "unbound"]
  BY SymbolFacts DEF Binding

\* A name is bound in a scope exactly when its entry carries the scope's number.
LEMMA ChainFacts ==
  ASSUME IInv
  PROVE  \A d \in 0 .. scope : \A n \in Names :
           /\ Chain[d][n] = FrameOf(tabs[d], d)[n]
           /\ tabs[d][n].scope = d =>
                /\ Chain[d][n] = Binding(tabs[d][n])
                /\ Chain[d][n] # [kind |-> "unbound"]
           /\ tabs[d][n].scope # d => Chain[d][n] = [kind |-> "unbound"]
<1>1. TAKE d \in 0 .. scope
<1>2. TAKE n \in Names
<1>3. Chain[d] = FrameOf(tabs[d], d)
  BY DEF Chain
<1>4. tabs[d][n] \in Symbol /\ d \in Nat
  BY StateTypes
<1>5. NoSym \in Symbol /\ NoSym.type = "none"
  BY NewSymbols DEF NoSym
<1>6. CASE tabs[d][n].scope = d
  <2>1. Chain[d][n] = Binding(tabs[d][n])
    BY <1>3, <1>6 DEF FrameOf
  <2>2. tabs[d][n].type \in {"lvar", "gvar", "func"}
    BY <1>4, <1>6, SymbolFacts
  <2>3. Binding(tabs[d][n]).kind # "unbound"
    BY <1>4, <2>2, BindingFacts
  <2>4. QED
    BY <1>3, <1>6, <2>1, <2>3
<1>7. CASE tabs[d][n].scope # d
  <2>1. Chain[d][n] = Binding(NoSym)
    BY <1>3, <1>7 DEF FrameOf
  <2>2. QED
    BY <1>3, <1>5, <1>7, <2>1, BindingFacts
<1>8. QED
  BY <1>6, <1>7

\* The initial states map to initial states.
LEMMA InitMaps == Init => Abstract!Init
<1> SUFFICES ASSUME Init PROVE Abstract!Init
  OBVIOUS
<1>1. scope = 0 /\ tabs[0] = EmptyTab /\ operand = NoOperand
  BY BoundsAssumption DEF Init, Depths
<1>2. 0 .. scope = {0}
  BY <1>1
<1>3. NoSym \in Symbol /\ NoSym.type = "none"
  BY NewSymbols DEF NoSym
<1>4. FrameOf(tabs[0], 0) = [n \in Names |-> [kind |-> "unbound"]]
  BY <1>1, <1>3, BindingFacts DEF FrameOf, EmptyTab, NoSym
<1>5. Chain = [d \in {0} |-> [n \in Names |-> [kind |-> "unbound"]]]
  BY <1>2, <1>4 DEF Chain
<1>6. QED
  BY <1>1, <1>5 DEF Abstract!Init, Abstract!NoFrame, Abstract!Unbound, NoOperand

\* Steps that leave the scopes in force and the operand alone stutter.
LEMMA Stutters ==
  ASSUME scope' = scope, operand' = operand, scope \in Nat,
         \A d \in 0 .. scope : tabs'[d] = tabs[d]
  PROVE  UNCHANGED Abstract!vars
  BY DEF Chain, Abstract!vars

\* Ending the compilation with an error maps to a stutter.
LEMMA DieStutters ==
  ASSUME NEW s, Die(s)
  PROVE  UNCHANGED Abstract!vars
  BY DEF Die, Chain, Abstract!vars

\* An accepted declaration in the file scope binds one name.
LEMMA BindMaps ==
  ASSUME IInv, scope = 0, scope' = 0, operand' = operand, NEW n \in Names,
         \A m \in Names : m # n => tabs'[0][m] = tabs[0][m],
         tabs'[0] \in [Names -> Symbol],
         NEW type \in {"gvar", "func"},
         tabs[0][n] = NoSym \/ tabs[0][n].type = type,
         tabs'[0][n].type = type
  PROVE  Abstract!Bind(n)
<1> DEFINE b == IF type = "gvar" THEN [kind |-> "variable"] ELSE [kind |-> "function"]
<1>1. /\ tabs[0] \in [Names -> Symbol]
      /\ NoSym \in Symbol /\ NoSym.type = "none"
  BY ZeroTable, NewSymbols DEF NoSym
<1>2. Chain = [d \in {0} |-> FrameOf(tabs[0], 0)]
      /\ Chain' = [d \in {0} |-> FrameOf(tabs'[0], 0)]
  BY DEF Chain
<1>3. Chain[0][n] \in {[kind |-> "unbound"], b}
  <2>1. Chain[0][n] = Binding(IF tabs[0][n].scope = 0 THEN tabs[0][n] ELSE NoSym)
    BY <1>2 DEF FrameOf
  <2>2. CASE tabs[0][n] = NoSym
    BY <1>1, <2>1, <2>2, BindingFacts
  <2>3. CASE tabs[0][n].type = type
    <3>1. tabs[0][n].scope = 0 /\ tabs[0][n] \in Symbol
      BY <1>1, <2>3, SymbolFacts
    <3>2. QED
      BY <2>1, <2>3, <3>1, BindingFacts
  <2>4. QED
    BY <2>2, <2>3
<1>4. tabs'[0][n].scope = 0 /\ tabs'[0][n] \in Symbol
  BY SymbolFacts
<1>5. FrameOf(tabs'[0], 0) = [FrameOf(tabs[0], 0) EXCEPT ![n] = b]
  BY <1>4, BindingFacts DEF FrameOf
<1>6. Chain' = [Chain EXCEPT ![0][n] = b]
  BY <1>2, <1>5
<1>7. QED
  BY <1>3, <1>6 DEF Abstract!Bind, Abstract!Unbound, Abstract!Variable, Abstract!Function

\* A declaration of a global variable binds a name or stutters.
LEMMA GlobalVarMaps ==
  ASSUME IInv, TypeOK', NEW n \in Names, NEW init \in BOOLEAN, GlobalVar(n, init)
  PROVE  [Abstract!Next]_(Abstract!vars)
<1>1. CASE Die("died") \/ Die("bug")
  BY <1>1, DieStutters
<1>2. CASE ~(Die("died") \/ Die("bug"))
  <2>1. scope = 0 /\ scope' = 0 /\ operand' = operand
    BY <1>2 DEF GlobalVar, AtToplevel
  <2>2. /\ \A m \in Names : m # n => tabs'[0][m] = tabs[0][m]
        /\ \/ tabs[0][n] = NoSym /\ tabs'[0][n] = GVar(init)
           \/ /\ tabs[0][n].type = "gvar"
              /\ tabs'[0][n] = GVar(init) \/ tabs'[0][n] = tabs[0][n]
    BY <1>2, GlobalVarStep, Zenon
  <2>3. tabs[0][n] = NoSym \/ tabs[0][n].type = "gvar"
    BY <2>2
  <2>4. tabs'[0][n].type = "gvar"
    BY <2>2 DEF GVar
  <2>5. tabs'[0] \in [Names -> Symbol]
    BY BoundsAssumption DEF TypeOK, Depths
  <2>6. Abstract!Bind(n)
    BY <2>1, <2>2, <2>3, <2>4, <2>5, BindMaps
  <2>7. QED
    BY <2>6 DEF Abstract!Next
<1>3. QED
  BY <1>1, <1>2

\* A prototype binds a name or stutters.
LEMMA PrototypeMaps ==
  ASSUME IInv, TypeOK', NEW n \in Names, NEW d \in FuncDecl, Prototype(n, d)
  PROVE  [Abstract!Next]_(Abstract!vars)
<1>1. CASE Die("died") \/ Die("bug")
  BY <1>1, DieStutters
<1>2. CASE ~(Die("died") \/ Die("bug"))
  <2>1. scope = 0 /\ scope' = 0 /\ operand' = operand
    BY <1>2 DEF Prototype, AtToplevel
  <2>2. /\ \A m \in Names : m # n => tabs'[0][m] = tabs[0][m]
        /\ tabs[0][n] = NoSym \/ tabs[0][n].type = "func"
        /\ tabs'[0][n] = IF tabs[0][n].type = "func" /\ tabs[0][n].decl.body
                         THEN tabs[0][n] ELSE Func(d)
    BY <1>2, FuncStep
  <2>3. tabs'[0][n].type = "func"
    BY <2>2 DEF Func
  <2>4. tabs'[0] \in [Names -> Symbol]
    BY BoundsAssumption DEF TypeOK, Depths
  <2>5. Abstract!Bind(n)
    BY <2>1, <2>2, <2>3, <2>4, BindMaps
  <2>6. QED
    BY <2>5 DEF Abstract!Next
<1>3. QED
  BY <1>1, <1>2

\* The start of a function enters a function with its parameters bound.
LEMMA DefineMaps ==
  ASSUME IInv, TypeOK', NEW n \in Names, NEW d \in FuncDecl,
         NEW ps \in ParamLists, Define(n, d, ps)
  PROVE  [Abstract!Next]_(Abstract!vars)
<1>1. CASE Die("died") \/ Die("bug")
  BY <1>1, DieStutters
<1>2. CASE ~(Die("died") \/ Die("bug"))
  <2>1. /\ scope = 0 /\ scope' = 1 /\ operand' = operand /\ ~Duplicated(ps)
        /\ tabs' = [tabs EXCEPT ![0] = PutFunc(cur, n, d),
                                ![1] = WithParams(PutFunc(cur, n, d), ps)]
    BY <1>2 DEF Define, AtToplevel
  <2> DEFINE g == tabs'[0]
             t == tabs'[1]
  <2>2. g \in [Names -> Symbol] /\ t \in [Names -> Symbol]
    BY BoundsAssumption DEF TypeOK, Depths
  <2>3. 0 \in Depths /\ 1 \in Depths /\ cur = tabs[0]
        /\ tabs[0] \in [Names -> Symbol]
    BY <2>1, BoundsAssumption DEF IInv, TypeOK, Depths, cur
  <2>4. g = PutFunc(tabs[0], n, d) /\ t = WithParams(g, ps)
    BY <2>1, <2>3 DEF IInv, TypeOK
  <2>5. /\ \A m \in Names : m # n => g[m] = tabs[0][m]
        /\ tabs[0][n] = NoSym \/ tabs[0][n].type = "func"
        /\ g[n] = IF tabs[0][n].type = "func" /\ tabs[0][n].decl.body
                  THEN tabs[0][n] ELSE Func(d)
    BY <1>2, FuncStep
  <2>6. \A m \in Names : g[m].scope <= 0
    <3>1. \A m \in Names : tabs[0][m].scope <= 0
      BY <2>1 DEF IInv, ScopesBounded
    <3>2. QED
      BY <2>5, <3>1 DEF Func
  <2>7. ps \in Seq(Names)
    BY ParamListTypes
  <2> HIDE DEF g, t
  <2>8. \A m \in Names :
           \/ t[m] = g[m]
           \/ \E i \in 1 .. Len(ps) : ps[i] = m /\ t[m] = LVar(4 * i, 1)
    BY <2>1, <2>2, <2>4, <2>6, <2>7, ParamFacts
  <2>9. Chain' = [e \in 0 .. 1 |-> IF e = 0 THEN FrameOf(g, 0) ELSE FrameOf(t, 1)]
    BY <2>1 DEF Chain, g, t
  <2>10. Chain = [e \in {0} |-> FrameOf(tabs[0], 0)]
    BY <2>1 DEF Chain
  <2>11. NoSym \in Symbol /\ NoSym.type = "none"
    BY NewSymbols DEF NoSym
  <2>12. Chain[0][n] \in {[kind |-> "unbound"], [kind |-> "function"]}
    <3>1. Chain[0][n] = Binding(IF tabs[0][n].scope = 0 THEN tabs[0][n] ELSE NoSym)
      BY <2>10 DEF FrameOf
    <3>2. CASE tabs[0][n] = NoSym
      BY <2>11, <3>1, <3>2, BindingFacts
    <3>3. CASE tabs[0][n].type = "func"
      <4>1. tabs[0][n].scope = 0 /\ tabs[0][n] \in Symbol
        BY <2>3, <3>3, SymbolFacts
      <4>2. QED
        BY <3>1, <3>3, <4>1, BindingFacts
    <3>4. QED
      BY <2>5, <3>2, <3>3
  <2>13. FrameOf(g, 0) = [FrameOf(tabs[0], 0) EXCEPT ![n] = [kind |-> "function"]]
    <3>1. g[n].type = "func" /\ g[n] \in Symbol
      BY <2>2, <2>5 DEF Func
    <3>2. g[n].scope = 0
      BY <3>1, SymbolFacts
    <3>3. QED
      BY <2>5, <3>1, <3>2, BindingFacts DEF FrameOf
  <2>14. \A m \in Names :
            \/ FrameOf(t, 1)[m] = [kind |-> "unbound"]
            \/ \E i \in 1 .. Len(ps) :
                 ps[i] = m /\ FrameOf(t, 1)[m] = [kind |-> "local", slot |-> 4 * i]
    <3>1. TAKE m \in Names
    <3>2. FrameOf(t, 1)[m] = Binding(IF t[m].scope = 1 THEN t[m] ELSE NoSym)
      BY DEF FrameOf
    <3>3. CASE t[m] = g[m]
      <4>1. t[m].scope # 1
        BY <2>2, <2>6, <3>3, SymbolFacts
      <4>2. QED
        BY <2>11, <3>2, <4>1, BindingFacts
    <3>4. ASSUME NEW i \in 1 .. Len(ps), ps[i] = m, t[m] = LVar(4 * i, 1)
          PROVE  FrameOf(t, 1)[m] = [kind |-> "local", slot |-> 4 * i]
      <4>1. t[m].type = "lvar" /\ t[m].slot = 4 * i /\ t[m].scope = 1
        BY <3>4, LVarFacts
      <4>2. QED
        BY <2>2, <3>2, <4>1, BindingFacts
    <3>5. QED
      BY <2>8, <3>3, <3>4
  <2>15. Abstract!IsFrame(FrameOf(t, 1))
    <3>1. Len(ps) \in Nat
      BY <2>7
    <3>2. FrameOf(t, 1) = [m \in Names |-> FrameOf(t, 1)[m]]
      BY DEF FrameOf
    <3>3. \A m \in Names : FrameOf(t, 1)[m] \in {[kind |-> "unbound"]}
                              \cup [kind : {"local"}, slot : Nat]
      <4>1. \A k \in Nat : [kind |-> "local", slot |-> k] \in [kind : {"local"}, slot : Nat]
        OBVIOUS
      <4>2. \A i \in 1 .. Len(ps) : 4 * i \in Nat
        BY <3>1
      <4>3. TAKE m \in Names
      <4>4. CASE FrameOf(t, 1)[m] = [kind |-> "unbound"]
        BY <4>4
      <4>5. ASSUME NEW i \in 1 .. Len(ps),
                   FrameOf(t, 1)[m] = [kind |-> "local", slot |-> 4 * i]
            PROVE  FrameOf(t, 1)[m] \in [kind : {"local"}, slot : Nat]
        BY <4>1, <4>2, <4>5
      <4>6. QED
        BY <2>14, <4>4, <4>5
    <3>4. FrameOf(t, 1) \in [Names -> {[kind |-> "unbound"]}
                                         \cup [kind : {"local"}, slot : Nat]]
      BY <3>2, <3>3
    <3>5. ASSUME NEW m \in Names, NEW k \in Names, m # k,
                 FrameOf(t, 1)[m] # [kind |-> "unbound"],
                 FrameOf(t, 1)[k] # [kind |-> "unbound"]
          PROVE  \/ FrameOf(t, 1)[m].slot - FrameOf(t, 1)[k].slot >= 4
                 \/ FrameOf(t, 1)[k].slot - FrameOf(t, 1)[m].slot >= 4
      <4>1. PICK i \in 1 .. Len(ps) :
              ps[i] = m /\ FrameOf(t, 1)[m] = [kind |-> "local", slot |-> 4 * i]
        BY <2>14, <3>5
      <4>2. PICK j \in 1 .. Len(ps) :
              ps[j] = k /\ FrameOf(t, 1)[k] = [kind |-> "local", slot |-> 4 * j]
        BY <2>14, <3>5
      <4>3. i # j
        BY <3>5, <4>1, <4>2
      <4>4. QED
        BY <3>1, <4>1, <4>2, <4>3
    <3>6. QED
      BY <3>4, <3>5 DEF Abstract!IsFrame, Abstract!Apart, Abstract!Unbound,
                        Abstract!Locals
  <2>16. /\ Chain'[1] = FrameOf(t, 1)
         /\ Chain' = [e \in 0 .. 1 |-> IF e = 0
                                       THEN [Chain[0] EXCEPT ![n] = [kind |-> "function"]]
                                       ELSE Chain'[1]]
    <3>1. Chain'[1] = FrameOf(t, 1) /\ Chain[0] = FrameOf(tabs[0], 0)
      BY <2>9, <2>10
    <3>2. QED
      BY <2>9, <2>13, <3>1
  <2>17. Abstract!EnterFunction(n)
    BY <2>1, <2>12, <2>15, <2>16
       DEF Abstract!EnterFunction, Abstract!Unbound, Abstract!Function
  <2>18. QED
    BY <2>17 DEF Abstract!Next
<1>3. QED
  BY <1>1, <1>2

\* Copying the table enters a block in which nothing is bound.
LEMMA OpenScopeMaps ==
  ASSUME IInv, OpenScope
  PROVE  Abstract!EnterBlock
<1>1. /\ scope \in Nat \ {0} /\ scope' = scope + 1 /\ operand' = operand
      /\ scope + 1 \in Depths
      /\ tabs' = [tabs EXCEPT ![scope + 1] = tabs[scope]]
  BY BoundsAssumption DEF OpenScope, InFunction, IInv, TypeOK, Depths, cur
<1>2. /\ tabs'[scope + 1] = tabs[scope]
      /\ \A d \in 0 .. scope : tabs'[d] = tabs[d]
  BY <1>1 DEF IInv, TypeOK, Depths
<1>3. \A n \in Names : tabs[scope][n].scope # scope + 1
  BY <1>1, StateTypes DEF IInv, ScopesBounded
<1>4. FrameOf(tabs[scope], scope + 1) = [n \in Names |-> [kind |-> "unbound"]]
  <2>1. NoSym \in Symbol /\ NoSym.type = "none"
    BY NewSymbols DEF NoSym
  <2>2. QED
    BY <1>3, <2>1, BindingFacts DEF FrameOf
<1>5. Chain' = [d \in 0 .. scope + 1 |-> FrameOf(tabs'[d], d)]
  BY <1>1 DEF Chain
<1>6. ASSUME NEW d \in 0 .. scope + 1
      PROVE  FrameOf(tabs'[d], d) = IF d <= scope THEN Chain[d]
                                    ELSE [n \in Names |-> [kind |-> "unbound"]]
  <2>1. CASE d \in 0 .. scope
    BY <1>1, <1>2, <2>1 DEF Chain
  <2>2. CASE d = scope + 1
    BY <1>1, <1>2, <1>4, <2>2
  <2>3. QED
    BY <1>1, <2>1, <2>2
<1>7. Chain' = [d \in 0 .. scope + 1 |->
                  IF d <= scope THEN Chain[d]
                  ELSE [n \in Names |-> [kind |-> "unbound"]]]
  BY <1>5, <1>6
<1>8. QED
  BY <1>1, <1>7 DEF Abstract!EnterBlock, Abstract!NoFrame, Abstract!Unbound

\* Going back to the saved table leaves the block.
LEMMA CloseScopeMaps ==
  ASSUME IInv, CloseScope
  PROVE  Abstract!Leave
<1>1. /\ scope \in Nat \ {0} /\ scope' = scope - 1 /\ operand' = operand
      /\ \A d \in 0 .. scope - 1 : tabs'[d] = tabs[d]
  BY BoundsAssumption DEF CloseScope, InFunction, IInv, TypeOK, Depths
<1>2. Chain' = [d \in 0 .. scope - 1 |-> Chain[d]]
  BY <1>1 DEF Chain
<1>3. QED
  BY <1>1, <1>2 DEF Abstract!Leave

\* The slot of a new variable is above every live one.
LEMMA DeclareMaps ==
  ASSUME IInv, TypeOK', NEW n \in Names, Declare(n)
  PROVE  [Abstract!Next]_(Abstract!vars)
<1>1. CASE Die("died")
  BY <1>1, DieStutters
<1>2. CASE ~Die("died")
  <2> DEFINE slot == idx[scope] + 4
  <2>1. /\ scope \in Nat \ {0} /\ scope' = scope /\ operand' = operand
        /\ scope \in Depths /\ scope \in 0 .. scope
        /\ cur[n].scope # scope
        /\ tabs' = [tabs EXCEPT ![scope] = PutLVar(@, n, slot, scope)]
    BY <1>2, BoundsAssumption
       DEF Declare, InFunction, LVarRejected, IInv, TypeOK, Depths
  <2>2. slot \in Nat
    BY <2>1, StateTypes
  <2> HIDE DEF slot
  <2>3. tabs[scope] \in [Names -> Symbol]
    BY <2>1 DEF IInv, TypeOK
  <2>4. /\ tabs'[scope] = [tabs[scope] EXCEPT ![n] = LVar(slot, scope)]
        /\ \A d \in 0 .. scope : d # scope => tabs'[d] = tabs[d]
    BY <2>1 DEF IInv, TypeOK, PutLVar
  <2>5. LVar(slot, scope) \in Symbol
    BY <2>1, <2>2, NewSymbols
  <2>6. Binding(LVar(slot, scope)) = [kind |-> "local", slot |-> slot]
    BY <2>5, BindingFacts, LVarFacts
  <2>7. FrameOf(tabs'[scope], scope) =
          [FrameOf(tabs[scope], scope) EXCEPT ![n] = [kind |-> "local", slot |-> slot]]
    <3> DEFINE new == tabs'[scope]
    <3>1. new = [tabs[scope] EXCEPT ![n] = LVar(slot, scope)]
      BY <2>4
    <3> HIDE DEF new
    <3>2. /\ Binding(IF new[n].scope = scope THEN new[n] ELSE NoSym)
               = [kind |-> "local", slot |-> slot]
          /\ \A m \in Names : m # n => new[m] = tabs[scope][m]
      BY <2>3, <2>6, <3>1, LVarFacts
    <3>3. FrameOf(new, scope) =
            [FrameOf(tabs[scope], scope) EXCEPT ![n] = [kind |-> "local", slot |-> slot]]
      BY <3>2 DEF FrameOf
    <3>4. QED
      BY <3>3 DEF new
  <2>8. Chain' = [d \in 0 .. scope |-> FrameOf(tabs'[d], d)]
    BY <2>1 DEF Chain
  <2>9. \A d \in 0 .. scope : Chain[d] = FrameOf(tabs[d], d)
    BY DEF Chain
  <2>10. Chain' = [Chain EXCEPT ![scope][n] = [kind |-> "local", slot |-> slot]]
    <3>1. ASSUME NEW d \in 0 .. scope
          PROVE  FrameOf(tabs'[d], d) =
                   [Chain EXCEPT ![scope][n] = [kind |-> "local", slot |-> slot]][d]
      <4>1. CASE d = scope
        BY <2>1, <2>7, <2>9, <4>1 DEF Chain
      <4>2. CASE d # scope
        BY <2>4, <2>9, <4>2 DEF Chain
      <4>3. QED
        BY <4>1, <4>2
    <3>2. QED
      BY <2>8, <3>1 DEF Chain
  <2>11. Chain[scope][n] = [kind |-> "unbound"]
    BY <2>1, ChainFacts DEF cur
  <2>12. Chain'[scope][n] = [kind |-> "local", slot |-> slot]
    BY <2>1, <2>7, <2>8 DEF FrameOf
  <2>13. ASSUME NEW d \in 1 .. scope, NEW m \in Names,
                Chain[d][m] # [kind |-> "unbound"]
         PROVE  slot - Chain[d][m].slot >= 4
    <3>1. d \in 0 .. scope /\ d > 0
      BY <2>1
    <3>2. tabs[d][m].scope = d /\ Chain[d][m] = Binding(tabs[d][m])
      BY <2>13, <3>1, ChainFacts
    <3>3. tabs[d][m] \in Symbol /\ tabs[d][m].type = "lvar" /\ tabs[d][m].slot \in Nat
      BY <3>1, <3>2, StateTypes
    <3>4. Chain[d][m].slot = tabs[d][m].slot
      BY <3>2, <3>3, BindingFacts
    <3>5. tabs[d][m].slot <= idx[d]
      BY <3>1, <3>3 DEF IInv, SlotsAllocated, Locals
    <3>6. idx[d] <= idx[scope] /\ idx[d] \in Nat /\ idx[scope] \in Nat
      BY <2>1, <3>1, StateTypes DEF IInv, IdxGrows
    <3>7. QED
      BY <3>3, <3>4, <3>5, <3>6 DEF slot
  <2>14. Abstract!IsFresh(slot)
    BY <2>13 DEF Abstract!IsFresh, Abstract!Apart, Abstract!Unbound
  <2>15. [kind |-> "local", slot |-> slot] \in [kind : {"local"}, slot : Nat]
    BY <2>2
  <2>16. Abstract!Declare(n)
    <3> DEFINE new == Chain'[scope][n]
    <3>1. new = [kind |-> "local", slot |-> slot]
      BY <2>12
    <3> HIDE DEF new
    <3>2. Chain' = [Chain EXCEPT ![scope][n] = new]
      BY <2>10, <3>1
    <3>3. new \in [kind : {"local"}, slot : Nat] /\ new.slot = slot
      BY <2>15, <3>1
    <3>4. QED
      BY <2>1, <2>11, <2>14, <3>2, <3>3
       DEF Abstract!Declare, Abstract!Unbound, Abstract!Locals, new
  <2>17. QED
    BY <2>16 DEF Abstract!Next
<1>3. QED
  BY <1>1, <1>2

\* The entry found in the flat table is the innermost one of the chain.
LEMMA ReferenceMaps ==
  ASSUME IInv, NEW n \in Names, Reference(n)
  PROVE  [Abstract!Next]_(Abstract!vars)
<1>1. CASE Die("died")
  BY <1>1, DieStutters
<1>2. CASE ~Die("died")
  <2> DEFINE c == cur[n].scope
  <2>1. /\ scope \in Nat \ {0} /\ scope' = scope /\ tabs' = tabs
        /\ cur[n].type \in {"lvar", "gvar"} /\ operand' = OperandOf(n, cur[n])
        /\ scope \in 0 .. scope
    BY <1>2 DEF Reference, InFunction, IInv, TypeOK, Depths
  <2>2. cur[n] \in Symbol
    BY <2>1, StateTypes DEF cur
  <2>3. c \in 0 .. scope
    BY <2>1, <2>2, SymbolFacts DEF IInv, ScopesBounded, cur
  <2>4. tabs[c][n] = cur[n]
    <3>1. CASE c = scope
      BY <3>1 DEF cur
    <3>2. CASE c < scope
      <4>1. tabs[scope][n] = tabs[c][n] \/ tabs[scope][n].scope > c
        BY <2>1, <2>3, <3>2 DEF IInv, TablesCopied
      <4>2. QED
        BY <2>3, <4>1 DEF cur
    <3>3. QED
      BY <2>1, <2>3, <3>1, <3>2
  <2>5. Chain[c][n] = Binding(cur[n]) /\ Chain[c][n] # [kind |-> "unbound"]
    BY <2>3, <2>4, ChainFacts
  <2>6. ASSUME NEW e \in c + 1 .. scope
        PROVE  Chain[e][n] = [kind |-> "unbound"]
    <3>1. e \in 0 .. scope /\ e > c
      BY <2>1, <2>3
    <3>2. tabs[e][n].scope # e
      <4>1. SUFFICES ASSUME tabs[e][n].scope = e PROVE FALSE
        OBVIOUS
      <4>2. CASE e = scope
        BY <3>1, <4>1, <4>2 DEF cur
      <4>3. CASE e < scope
        <5>1. tabs[scope][n] = tabs[e][n] \/ tabs[scope][n].scope > e
          BY <2>1, <3>1, <4>3 DEF IInv, TablesCopied
        <5>2. QED
          BY <2>3, <3>1, <4>1, <5>1 DEF cur
      <4>4. QED
        BY <2>1, <3>1, <4>2, <4>3
    <3>3. QED
      BY <3>1, <3>2, ChainFacts
  <2>7. Abstract!IsInnermost(n, c)
    BY <2>3, <2>5, <2>6 DEF Abstract!IsInnermost, Abstract!Unbound
  <2>8. /\ Chain[c][n].kind \in {"local", "variable"}
        /\ operand' = IF Chain[c][n].kind = "local"
                      THEN [at |-> "stack", slot |-> Chain[c][n].slot]
                      ELSE [at |-> "data", name |-> n]
    BY <2>1, <2>2, <2>5, BindingFacts DEF OperandOf
  <2>9. Chain' = Chain
    BY <2>1 DEF Chain
  <2> HIDE DEF c
  <2>10. Abstract!Resolve(n)
    BY <2>1, <2>3, <2>7, <2>8, <2>9 DEF Abstract!Resolve
  <2>11. QED
    BY <2>10 DEF Abstract!Next
<1>3. QED
  BY <1>1, <1>2

\* Every step maps to a step of the chain of scopes or to a stutter.
LEMMA StepMaps ==
  ASSUME IInv, TypeOK', [Next]_vars
  PROVE  [Abstract!Next]_(Abstract!vars)
<1>1. scope \in Nat
  BY DEF IInv, TypeOK, Depths
<1>2. ASSUME NEW n \in Names, NEW k \in 0 .. MaxArgs, Call(n, k)
      PROVE  UNCHANGED Abstract!vars
  BY <1>1, <1>2, Stutters, DieStutters DEF Call
<1>3. ASSUME Finish PROVE UNCHANGED Abstract!vars
  BY <1>1, <1>3, Stutters DEF Finish
<1>4. ASSUME UNCHANGED vars PROVE UNCHANGED Abstract!vars
  BY <1>1, <1>4, Stutters DEF vars
<1>5. ASSUME OpenScope \/ CloseScope PROVE [Abstract!Next]_(Abstract!vars)
  BY <1>5, OpenScopeMaps, CloseScopeMaps DEF Abstract!Next
<1>6. QED
  BY <1>2, <1>3, <1>4, <1>5, GlobalVarMaps, PrototypeMaps, DefineMaps,
     DeclareMaps, ReferenceMaps DEF Next

\* The copied tables implement block scoping: names resolve to the innermost
\* declaration, leaving a scope forgets exactly what it declared, and storage
\* given to a variable is free.
THEOREM Refinement == Spec => ImplementsScopes
<1>1. IInv /\ TypeOK' /\ [Next]_vars => [Abstract!Next]_(Abstract!vars)
  BY StepMaps
<1>2. QED
  BY <1>1, InitMaps, Invariant, TypeCorrect, PTL
     DEF Spec, ImplementsScopes, Abstract!Spec
=============================================================================
