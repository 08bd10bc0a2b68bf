-------------------------- MODULE ExpressionProofs --------------------------
(***************************************************************************)
(* Proofs that the code Expression generates does what C says when the     *)
(* processor runs it.  Works(e, a, i) says it of the code a of one         *)
(* expression, wherever that code stands in a whole and from any state     *)
(* with %rsp where stack_index i says; it is proved for every expression   *)
(* by induction over the tree (AllRun).  A run is a set of states closed   *)
(* under the instructions (Fine), so that a state from which the processor *)
(* gets on is one of an inductive invariant.                               *)
(***************************************************************************)
EXTENDS ExpressionCode

-----------------------------------------------------------------------------
(***************************************************************************)
(* The processor: its states and what an instruction does with one.        *)
(***************************************************************************)
Regs == Range(CallRegs) \cup {"rax", "rcx", "rdx"}
RegFile == [Regs -> Word]
Flags == Word \X Word
State == Nat \X RegFile \X Flags \X Seq(Word) \X Memory

St(p, r, f, k, m) == <<p, r, f, k, m>>
Pc(s) == s[1]
Reg(s) == s[2]
Flg(s) == s[3]
Stk(s) == s[4]
Mem(s) == s[5]

\* The state is given by its parts.
LEMMA StFacts ==
  ASSUME NEW p \in Nat, NEW r \in RegFile, NEW f \in Flags, NEW k \in Seq(Word), NEW m \in Memory
  PROVE  /\ St(p, r, f, k, m) \in State
         /\ Pc(St(p, r, f, k, m)) = p /\ Reg(St(p, r, f, k, m)) = r /\ Flg(St(p, r, f, k, m)) = f
         /\ Stk(St(p, r, f, k, m)) = k /\ Mem(St(p, r, f, k, m)) = m
PROOF
  BY DEF St, State, Pc, Reg, Flg, Stk, Mem

\* The parts of a state are typed.
LEMMA StateFacts ==
  ASSUME NEW s \in State
  PROVE  /\ Pc(s) \in Nat /\ Reg(s) \in RegFile /\ Flg(s) \in Flags /\ Stk(s) \in Seq(Word)
         /\ Mem(s) \in Memory /\ s = St(Pc(s), Reg(s), Flg(s), Stk(s), Mem(s))
PROOF
  BY DEF St, State, Pc, Reg, Flg, Stk, Mem

Set(r, x, v) == [r EXCEPT ![x] = v]
Low(f) == f[1]
High(f) == f[2]
Pair(x, y) == <<x, y>>

\* An 8 byte slot on the stack, its removal, and the removal of n words.
Grow(k, v) == k \o <<0, v>>
Top(k) == Last(k)
Shrink(k) == SubSeq(k, 1, Len(k) - 2)
Free(k, n) == SubSeq(k, 1, Len(k) - n)

\* What idiv divides.
Dividend(s) == Reg(s)["rdx"] * 2 ^ Bits + Unsigned(Reg(s)["rax"])
Trapped(o, a, s) == o = "idiv" /\ (Reg(s)[a] = 0 \/ Quotient(Dividend(s), Reg(s)[a]) \notin Word)

\* The arguments a function with n of them reads.
Passed(n, s) ==
  [i \in 1 .. n |-> IF i <= Len(CallRegs) THEN Reg(s)[CallRegs[i]]
                    ELSE Stk(s)[Len(Stk(s)) - 2 * (i - Len(CallRegs) - 1)]]
Clobbered(f, n, s) ==
  [r \in DOMAIN Reg(s) |->
     IF r = "rax" /\ f \notin VoidFuncs THEN Result(f, Passed(n, s), Mem(s)) ELSE Junk]

Targ(c, l) == CHOOSE i \in DOMAIN c : c[i].op = "label" /\ c[i].arg = l

SetReg(s, x, v) == St(Pc(s) + 1, Set(Reg(s), x, v), Flg(s), Stk(s), Mem(s))
SetMem(s, x, v) == St(Pc(s) + 1, Reg(s), Flg(s), Stk(s), With(Mem(s), x, v))
SetFlg(s, x, y) == St(Pc(s) + 1, Reg(s), Pair(x, y), Stk(s), Mem(s))
SetStk(s, k) == St(Pc(s) + 1, Reg(s), Flg(s), k, Mem(s))
Divided(s, x) ==
  St(Pc(s) + 1,
     Set(Set(Reg(s), "rax", Quotient(Dividend(s), x)),
         "rdx", Dividend(s) - Quotient(Dividend(s), x) * x),
     Flg(s), Stk(s), Mem(s))
Popped(s, x) ==
  St(Pc(s) + 1, Set(Reg(s), x, Top(Stk(s))), Flg(s), Shrink(Stk(s)), Mem(s))
CalledIn(s, f, n) ==
  St(Pc(s) + 1, Clobbered(f, n, s), Flg(s), Stk(s), After(f, Passed(n, s), Mem(s)))
GoTo(s, p) == St(p, Reg(s), Flg(s), Stk(s), Mem(s))

\* The instruction o with argument a, in the code c, takes the state s to t.
Does(c, o, a, s, t) ==
  /\ o = "mov" => t = SetReg(s, "rax", a)
  /\ o = "copy" => t = SetReg(s, "rax", Reg(s)[a])
  /\ o = "load" => t = SetReg(s, "rax", Mem(s)[a])
  /\ o = "alu" => t = SetReg(s, "rax", Alu(a, Reg(s)["rax"], Reg(s)["rcx"]))
  /\ o = "alu1" => t = SetReg(s, "rax", Alu1(a, Reg(s)["rax"]))
  /\ o = "set" => t = SetReg(s, "rax", Bool(Holds(a, Low(Flg(s)), High(Flg(s)))))
  /\ o = "store" => t = SetMem(s, a, Reg(s)["rax"])
  /\ o = "inc" => t = SetMem(s, a, Alu1("++", Mem(s)[a]))
  /\ o = "dec" => t = SetMem(s, a, Alu1("--", Mem(s)[a]))
  /\ o = "cdq" => t = SetReg(s, a, IF Reg(s)["rax"] < 0 THEN 0 - 1 ELSE 0)
  /\ o = "idiv" => t = Divided(s, Reg(s)[a])
  /\ o = "cmp" => t = SetFlg(s, Reg(s)["rax"], IF a = "zero" THEN 0 ELSE Reg(s)[a])
  /\ o = "push" => t = SetStk(s, Grow(Stk(s), Reg(s)[a]))
  /\ o = "pop" => t = Popped(s, a)
  /\ o = "call" => t = CalledIn(s, a[1], a[2])
  /\ o = "release" => t = SetStk(s, Free(Stk(s), a))
  /\ o = "jmp" => t = GoTo(s, Targ(c, a))
  /\ o = "je" => t = GoTo(s, IF Low(Flg(s)) = High(Flg(s)) THEN Targ(c, a) ELSE Pc(s) + 1)
  /\ o = "jne" => t = GoTo(s, IF Low(Flg(s)) # High(Flg(s)) THEN Targ(c, a) ELSE Pc(s) + 1)
  /\ o = "label" => t = GoTo(s, Pc(s) + 1)

-----------------------------------------------------------------------------
(***************************************************************************)
(* Runs.  From a state that is fine the processor goes on, instruction by  *)
(* instruction, until it gets to a state of B; %rsp is where stack_index   *)
(* says at every one of them, when all arguments go in registers.          *)
(***************************************************************************)
Level(i, k) == Exact => 4 * Len(k) = i

OpAt(c, s) == c[Pc(s)].op
ArgAt(c, s) == c[Pc(s)].arg

Good(c, s) ==
  /\ Pc(s) \in 1 .. Len(c) /\ Level(c[Pc(s)].at, Stk(s))
  /\ ~Trapped(OpAt(c, s), ArgAt(c, s), s)

Closed(T, c, B) ==
  \A t \in T : t \in B \/ (Good(c, t) /\ \A u : Does(c, OpAt(c, t), ArgAt(c, t), t, u) => u \in T)

Fine(s, c, B) == \E T \in SUBSET State : s \in T /\ Closed(T, c, B)

\* A state of B is one from which the processor gets to B.
LEMMA FineEnd ==
  ASSUME NEW c, NEW B, NEW s \in State, s \in B
  PROVE  Fine(s, c, B)
PROOF
  <1>1. {s} \in SUBSET State /\ s \in {s} /\ Closed({s}, c, B)
    BY DEF Closed
  <1>. QED BY <1>1, Zenon DEF Fine

\* What runs to A, and from all of A to B, runs to B.
LEMMA FineThen ==
  ASSUME NEW c, NEW A, NEW B, NEW s, Fine(s, c, A), \A t \in A : t \in State => Fine(t, c, B)
  PROVE  Fine(s, c, B)
PROOF
  <1>1. PICK T \in SUBSET State : s \in T /\ Closed(T, c, A)
    BY Zenon DEF Fine
  <1> DEFINE W == {t \in State : Fine(t, c, B)}
             X == T \cup W
  <1>2. \A t \in T : t \in A => t \in W
    BY <1>1
  <1>3. ASSUME NEW t \in W
        PROVE  t \in B \/ (Good(c, t) /\ \A u : Does(c, OpAt(c, t), ArgAt(c, t), t, u) => u \in W)
    <2>1. PICK Y \in SUBSET State : t \in Y /\ Closed(Y, c, B)
      BY <1>3, Zenon DEF Fine
    <2>2. \A u \in Y : u \in W
      BY <2>1, Zenon DEF Fine
    <2>3. t \in B \/ (Good(c, t) /\ \A u : Does(c, OpAt(c, t), ArgAt(c, t), t, u) => u \in Y)
      BY <2>1, Zenon DEF Closed
    <2>. QED BY <2>2, <2>3, Zenon
  <1> HIDE DEF W
  <1>4. ASSUME NEW t \in X
        PROVE  t \in B \/ (Good(c, t) /\ \A u : Does(c, OpAt(c, t), ArgAt(c, t), t, u) => u \in X)
    <2>1. CASE t \in W
      BY <1>3, <2>1, Zenon
    <2>2. CASE t \in T /\ t \notin A
      BY <1>1, <2>2, Zenon DEF Closed
    <2>. QED BY <1>2, <1>4, <2>1, <2>2, Zenon
  <1>5. X \in SUBSET State /\ s \in X
    BY <1>1 DEF W
  <1> HIDE DEF X
  <1>. QED BY <1>4, <1>5, Zenon DEF Fine, Closed

Here(c, s, o, a, i) == Pc(s) \in 1 .. Len(c) /\ c[Pc(s)] = I(o, a, i)

\* One instruction that does not trap.
LEMMA FineStep ==
  ASSUME NEW c, NEW B, NEW s \in State, NEW o, NEW a, NEW i, Here(c, s, o, a, i), Level(i, Stk(s)),
         ~Trapped(o, a, s), NEW t, Fine(t, c, B), \A u : Does(c, o, a, s, u) => u = t
  PROVE  Fine(s, c, B)
PROOF
  <1>1. PICK T \in SUBSET State : t \in T /\ Closed(T, c, B)
    BY Zenon DEF Fine
  <1>2. OpAt(c, s) = o /\ ArgAt(c, s) = a /\ c[Pc(s)].at = i /\ Pc(s) \in 1 .. Len(c)
    <2>1. c[Pc(s)].op = o /\ c[Pc(s)].arg = a /\ c[Pc(s)].at = i
      BY IFacts DEF Here
    <2>. QED BY <2>1, Zenon DEF OpAt, ArgAt, Here
  <1>3. Good(c, s)
    BY <1>2, Zenon DEF Good
  <1> DEFINE X == T \cup {s}
  <1>4. ASSUME NEW v \in X
        PROVE  v \in B \/ (Good(c, v) /\ \A u : Does(c, OpAt(c, v), ArgAt(c, v), v, u) => u \in X)
    <2>1. CASE v = s
      <3>1. \A u : Does(c, OpAt(c, s), ArgAt(c, s), s, u) => u \in X
        BY <1>1, <1>2, Zenon
      <3>. QED BY <1>3, <2>1, <3>1, Zenon
    <2>2. CASE v \in T
      BY <1>1, <2>2, Zenon DEF Closed
    <2>. QED BY <1>4, <2>1, <2>2, Zenon
  <1>5. X \in SUBSET State /\ s \in X
    BY <1>1
  <1> HIDE DEF X
  <1>. QED BY <1>4, <1>5, Zenon DEF Fine, Closed
-----------------------------------------------------------------------------
(***************************************************************************)
(* The instructions.                                                       *)
(***************************************************************************)
LEMMA RegFacts ==
  /\ "rax" \in Regs /\ "rcx" \in Regs /\ "rdx" \in Regs
  /\ \A r \in Range(CallRegs) : r \in Regs
PROOF
  BY DEF Regs

\* A register set.
LEMMA SetFacts ==
  ASSUME NEW r \in RegFile, NEW x \in Regs, NEW v \in Word
  PROVE  /\ Set(r, x, v) \in RegFile /\ Set(r, x, v)[x] = v
         /\ \A y \in Regs : y # x => Set(r, x, v)[y] = r[y]
         /\ \A y \in Regs : r[y] \in Word
PROOF
  BY DEF RegFile, Set

\* The words compared last.
LEMMA PairFacts ==
  ASSUME NEW x \in Word, NEW y \in Word
  PROVE  Pair(x, y) \in Flags /\ Low(Pair(x, y)) = x /\ High(Pair(x, y)) = y
PROOF
  BY DEF Pair, Low, High, Flags

\* They are words.
LEMMA FlagsFacts ==
  ASSUME NEW f \in Flags
  PROVE  Low(f) \in Word /\ High(f) \in Word
PROOF
  BY DEF Low, High, Flags

\* What differs and what does not after each kind of instruction.
LEMMA SetRegFacts ==
  ASSUME NEW s \in State, NEW x \in Regs, NEW v \in Word
  PROVE  /\ SetReg(s, x, v) \in State /\ Pc(SetReg(s, x, v)) = Pc(s) + 1
         /\ Reg(SetReg(s, x, v))[x] = v
         /\ \A y \in Regs : y # x => Reg(SetReg(s, x, v))[y] = Reg(s)[y]
         /\ Flg(SetReg(s, x, v)) = Flg(s) /\ Stk(SetReg(s, x, v)) = Stk(s)
         /\ Mem(SetReg(s, x, v)) = Mem(s)
PROOF
  <1>1. /\ Pc(s) + 1 \in Nat /\ Reg(s) \in RegFile /\ Flg(s) \in Flags /\ Stk(s) \in Seq(Word)
        /\ Mem(s) \in Memory
    BY StateFacts
  <1>2. PICK r : r = Set(Reg(s), x, v) /\ r \in RegFile /\ r[x] = v
                 /\ \A y \in Regs : y # x => r[y] = Reg(s)[y]
    BY <1>1, SetFacts
  <1>. QED BY <1>1, <1>2, StFacts DEF SetReg

\* The state behind an instruction that sets one register, without the others.
LEMMA SetRegIs ==
  ASSUME NEW s \in State, NEW x \in Regs, NEW v \in Word, NEW t, t = SetReg(s, x, v)
  PROVE  t \in State /\ Pc(t) = Pc(s) + 1 /\ Reg(t)[x] = v /\ Stk(t) = Stk(s) /\ Mem(t) = Mem(s)
PROOF
  <1>1. /\ SetReg(s, x, v) \in State /\ Pc(SetReg(s, x, v)) = Pc(s) + 1
        /\ Reg(SetReg(s, x, v))[x] = v /\ Stk(SetReg(s, x, v)) = Stk(s) /\ Mem(SetReg(s, x, v)) = Mem(s)
    BY SetRegFacts, Zenon
  <1>. QED BY <1>1, Zenon

\* The state behind a store.
LEMMA SetMemFacts ==
  ASSUME NEW s \in State, NEW x \in Names, NEW v \in Word
  PROVE  /\ SetMem(s, x, v) \in State /\ Pc(SetMem(s, x, v)) = Pc(s) + 1
         /\ Reg(SetMem(s, x, v)) = Reg(s) /\ Flg(SetMem(s, x, v)) = Flg(s)
         /\ Stk(SetMem(s, x, v)) = Stk(s) /\ Mem(SetMem(s, x, v)) = With(Mem(s), x, v)
PROOF
  <1>1. /\ Pc(s) + 1 \in Nat /\ Reg(s) \in RegFile /\ Flg(s) \in Flags /\ Stk(s) \in Seq(Word)
        /\ Mem(s) \in Memory
    BY StateFacts
  <1>2. With(Mem(s), x, v) \in Memory
    BY <1>1, WithType
  <1>. QED BY <1>1, <1>2, StFacts DEF SetMem

\* The state behind a comparison.
LEMMA SetFlgFacts ==
  ASSUME NEW s \in State, NEW x \in Word, NEW y \in Word
  PROVE  /\ SetFlg(s, x, y) \in State /\ Pc(SetFlg(s, x, y)) = Pc(s) + 1
         /\ Reg(SetFlg(s, x, y)) = Reg(s)
         /\ Low(Flg(SetFlg(s, x, y))) = x /\ High(Flg(SetFlg(s, x, y))) = y
         /\ Stk(SetFlg(s, x, y)) = Stk(s) /\ Mem(SetFlg(s, x, y)) = Mem(s)
PROOF
  <1>1. /\ Pc(s) + 1 \in Nat /\ Reg(s) \in RegFile /\ Flg(s) \in Flags /\ Stk(s) \in Seq(Word)
        /\ Mem(s) \in Memory
    BY StateFacts
  <1>. QED BY <1>1, PairFacts, StFacts DEF SetFlg

\* The state behind a change of the stack.
LEMMA SetStkFacts ==
  ASSUME NEW s \in State, NEW k \in Seq(Word)
  PROVE  /\ SetStk(s, k) \in State /\ Pc(SetStk(s, k)) = Pc(s) + 1 /\ Reg(SetStk(s, k)) = Reg(s)
         /\ Flg(SetStk(s, k)) = Flg(s) /\ Stk(SetStk(s, k)) = k /\ Mem(SetStk(s, k)) = Mem(s)
PROOF
  <1>1. /\ Pc(s) + 1 \in Nat /\ Reg(s) \in RegFile /\ Flg(s) \in Flags /\ Stk(s) \in Seq(Word)
        /\ Mem(s) \in Memory
    BY StateFacts
  <1>. QED BY <1>1, StFacts DEF SetStk

\* The state behind a jump.
LEMMA GoToFacts ==
  ASSUME NEW s \in State, NEW p \in Nat
  PROVE  /\ GoTo(s, p) \in State /\ Pc(GoTo(s, p)) = p /\ Reg(GoTo(s, p)) = Reg(s)
         /\ Flg(GoTo(s, p)) = Flg(s) /\ Stk(GoTo(s, p)) = Stk(s) /\ Mem(GoTo(s, p)) = Mem(s)
PROOF
  <1>1. /\ Pc(s) \in Nat /\ Reg(s) \in RegFile /\ Flg(s) \in Flags /\ Stk(s) \in Seq(Word)
        /\ Mem(s) \in Memory
    BY StateFacts
  <1>. QED BY <1>1, StFacts DEF GoTo

\* Slots on the stack.
LEMMA GrowFacts ==
  ASSUME NEW k \in Seq(Word), NEW v \in Word
  PROVE  /\ Grow(k, v) \in Seq(Word) /\ Len(Grow(k, v)) = Len(k) + 2 /\ Len(k) \in Nat
         /\ Top(Grow(k, v)) = v /\ Shrink(Grow(k, v)) = k
PROOF
  <1>0. 0 \in Word
    BY WordFacts
  <1>1. Grow(k, v) \in Seq(Word) /\ Len(Grow(k, v)) = Len(k) + 2 /\ Len(k) \in Nat
    BY <1>0 DEF Grow
  <1>2. Grow(k, v)[Len(k) + 2] = v /\ \A j \in 1 .. Len(k) : Grow(k, v)[j] = k[j]
    BY <1>0 DEF Grow
  <1>3. Top(Grow(k, v)) = v
    BY <1>1, <1>2, Zenon DEF Top, Last
  <1>4. PICK g \in Seq(Word) : g = Grow(k, v)
    BY <1>1
  <1>5. SubSeq(g, 1, Len(k)) = k
    BY <1>1, <1>2, <1>4
  <1>6. Len(g) - 2 = Len(k)
    BY <1>1, <1>4
  <1>. QED BY <1>1, <1>3, <1>4, <1>5, <1>6, Zenon DEF Shrink

\* A slot less on the stack.
LEMMA ShrinkFacts ==
  ASSUME NEW k \in Seq(Word), Len(k) >= 2
  PROVE  Shrink(k) \in Seq(Word) /\ Len(Shrink(k)) = Len(k) - 2 /\ Top(k) \in Word
PROOF
  <1>1. PICK m \in Nat : m = Len(k) - 2
    OBVIOUS
  <1>2. SubSeq(k, 1, m) \in Seq(Word) /\ Len(SubSeq(k, 1, m)) = m
    BY <1>1
  <1>3. k[Len(k)] \in Word
    OBVIOUS
  <1>. QED BY <1>1, <1>2, <1>3, Zenon DEF Shrink, Top, Last

\* Words less on the stack.
LEMMA FreeFacts ==
  ASSUME NEW k \in Seq(Word), NEW n \in Nat, Len(k) >= n
  PROVE  Free(k, n) \in Seq(Word) /\ Len(Free(k, n)) = Len(k) - n
PROOF
  BY DEF Free
-----------------------------------------------------------------------------
(***************************************************************************)
(* A state is fine when the one behind its instruction is.                 *)
(***************************************************************************)
LEMMA MovStep ==
  ASSUME NEW c, NEW B, NEW s \in State, NEW a, NEW i, Here(c, s, "mov", a, i), Level(i, Stk(s)),
         Fine(SetReg(s, "rax", a), c, B)
  PROVE  Fine(s, c, B)
PROOF
  <1>1. PICK t : t = SetReg(s, "rax", a)
    OBVIOUS
  <1>2. ~Trapped("mov", a, s)
    BY DEF Trapped
  <1>3. \A u : Does(c, "mov", a, s, u) => u = t
    BY <1>1, Zenon DEF Does
  <1>4. Fine(t, c, B)
    BY <1>1, Zenon
  <1>. QED BY <1>2, <1>3, <1>4, FineStep, Zenon

\* movl from a register.
LEMMA CopyStep ==
  ASSUME NEW c, NEW B, NEW s \in State, NEW a, NEW i, Here(c, s, "copy", a, i), Level(i, Stk(s)),
         Fine(SetReg(s, "rax", Reg(s)[a]), c, B)
  PROVE  Fine(s, c, B)
PROOF
  <1>1. PICK t : t = SetReg(s, "rax", Reg(s)[a])
    OBVIOUS
  <1>2. ~Trapped("copy", a, s)
    BY DEF Trapped
  <1>3. \A u : Does(c, "copy", a, s, u) => u = t
    BY <1>1, Zenon DEF Does
  <1>4. Fine(t, c, B)
    BY <1>1, Zenon
  <1>. QED BY <1>2, <1>3, <1>4, FineStep, Zenon

\* movl from a variable.
LEMMA LoadStep ==
  ASSUME NEW c, NEW B, NEW s \in State, NEW a, NEW i, Here(c, s, "load", a, i), Level(i, Stk(s)),
         Fine(SetReg(s, "rax", Mem(s)[a]), c, B)
  PROVE  Fine(s, c, B)
PROOF
  <1>1. PICK t : t = SetReg(s, "rax", Mem(s)[a])
    OBVIOUS
  <1>2. ~Trapped("load", a, s)
    BY DEF Trapped
  <1>3. \A u : Does(c, "load", a, s, u) => u = t
    BY <1>1, Zenon DEF Does
  <1>4. Fine(t, c, B)
    BY <1>1, Zenon
  <1>. QED BY <1>2, <1>3, <1>4, FineStep, Zenon

\* An instruction on eax and ecx.
LEMMA AluStep ==
  ASSUME NEW c, NEW B, NEW s \in State, NEW a, NEW i, Here(c, s, "alu", a, i), Level(i, Stk(s)),
         Fine(SetReg(s, "rax", Alu(a, Reg(s)["rax"], Reg(s)["rcx"])), c, B)
  PROVE  Fine(s, c, B)
PROOF
  <1>1. PICK t : t = SetReg(s, "rax", Alu(a, Reg(s)["rax"], Reg(s)["rcx"]))
    OBVIOUS
  <1>2. ~Trapped("alu", a, s)
    BY DEF Trapped
  <1>3. \A u : Does(c, "alu", a, s, u) => u = t
    BY <1>1, Zenon DEF Does
  <1>4. Fine(t, c, B)
    BY <1>1, Zenon
  <1>. QED BY <1>2, <1>3, <1>4, FineStep, Zenon

\* An instruction on eax.
LEMMA Alu1Step ==
  ASSUME NEW c, NEW B, NEW s \in State, NEW a, NEW i, Here(c, s, "alu1", a, i), Level(i, Stk(s)),
         Fine(SetReg(s, "rax", Alu1(a, Reg(s)["rax"])), c, B)
  PROVE  Fine(s, c, B)
PROOF
  <1>1. PICK t : t = SetReg(s, "rax", Alu1(a, Reg(s)["rax"]))
    OBVIOUS
  <1>2. ~Trapped("alu1", a, s)
    BY DEF Trapped
  <1>3. \A u : Does(c, "alu1", a, s, u) => u = t
    BY <1>1, Zenon DEF Does
  <1>4. Fine(t, c, B)
    BY <1>1, Zenon
  <1>. QED BY <1>2, <1>3, <1>4, FineStep, Zenon

\* setcc.
LEMMA SetStep ==
  ASSUME NEW c, NEW B, NEW s \in State, NEW a, NEW i, Here(c, s, "set", a, i), Level(i, Stk(s)),
         Fine(SetReg(s, "rax", Bool(Holds(a, Low(Flg(s)), High(Flg(s))))), c, B)
  PROVE  Fine(s, c, B)
PROOF
  <1>1. PICK t : t = SetReg(s, "rax", Bool(Holds(a, Low(Flg(s)), High(Flg(s)))))
    OBVIOUS
  <1>2. ~Trapped("set", a, s)
    BY DEF Trapped
  <1>3. \A u : Does(c, "set", a, s, u) => u = t
    BY <1>1, Zenon DEF Does
  <1>4. Fine(t, c, B)
    BY <1>1, Zenon
  <1>. QED BY <1>2, <1>3, <1>4, FineStep, Zenon

\* movl to a variable.
LEMMA StoreStep ==
  ASSUME NEW c, NEW B, NEW s \in State, NEW a, NEW i, Here(c, s, "store", a, i), Level(i, Stk(s)),
         Fine(SetMem(s, a, Reg(s)["rax"]), c, B)
  PROVE  Fine(s, c, B)
PROOF
  <1>1. PICK t : t = SetMem(s, a, Reg(s)["rax"])
    OBVIOUS
  <1>2. ~Trapped("store", a, s)
    BY DEF Trapped
  <1>3. \A u : Does(c, "store", a, s, u) => u = t
    BY <1>1, Zenon DEF Does
  <1>4. Fine(t, c, B)
    BY <1>1, Zenon
  <1>. QED BY <1>2, <1>3, <1>4, FineStep, Zenon

\* addl $1 to a variable.
LEMMA IncStep ==
  ASSUME NEW c, NEW B, NEW s \in State, NEW a, NEW i, Here(c, s, "inc", a, i), Level(i, Stk(s)),
         Fine(SetMem(s, a, Alu1("++", Mem(s)[a])), c, B)
  PROVE  Fine(s, c, B)
PROOF
  <1>1. PICK t : t = SetMem(s, a, Alu1("++", Mem(s)[a]))
    OBVIOUS
  <1>2. ~Trapped("inc", a, s)
    BY DEF Trapped
  <1>3. \A u : Does(c, "inc", a, s, u) => u = t
    BY <1>1, Zenon DEF Does
  <1>4. Fine(t, c, B)
    BY <1>1, Zenon
  <1>. QED BY <1>2, <1>3, <1>4, FineStep, Zenon

\* subl $1 from a variable.
LEMMA DecStep ==
  ASSUME NEW c, NEW B, NEW s \in State, NEW a, NEW i, Here(c, s, "dec", a, i), Level(i, Stk(s)),
         Fine(SetMem(s, a, Alu1("--", Mem(s)[a])), c, B)
  PROVE  Fine(s, c, B)
PROOF
  <1>1. PICK t : t = SetMem(s, a, Alu1("--", Mem(s)[a]))
    OBVIOUS
  <1>2. ~Trapped("dec", a, s)
    BY DEF Trapped
  <1>3. \A u : Does(c, "dec", a, s, u) => u = t
    BY <1>1, Zenon DEF Does
  <1>4. Fine(t, c, B)
    BY <1>1, Zenon
  <1>. QED BY <1>2, <1>3, <1>4, FineStep, Zenon

\* cdq.
LEMMA CdqStep ==
  ASSUME NEW c, NEW B, NEW s \in State, NEW a, NEW i, Here(c, s, "cdq", a, i), Level(i, Stk(s)),
         Fine(SetReg(s, a, IF Reg(s)["rax"] < 0 THEN 0 - 1 ELSE 0), c, B)
  PROVE  Fine(s, c, B)
PROOF
  <1>1. PICK t : t = SetReg(s, a, IF Reg(s)["rax"] < 0 THEN 0 - 1 ELSE 0)
    OBVIOUS
  <1>2. ~Trapped("cdq", a, s)
    BY DEF Trapped
  <1>3. \A u : Does(c, "cdq", a, s, u) => u = t
    BY <1>1, Zenon DEF Does
  <1>4. Fine(t, c, B)
    BY <1>1, Zenon
  <1>. QED BY <1>2, <1>3, <1>4, FineStep, Zenon

\* A comparison.
LEMMA CmpStep ==
  ASSUME NEW c, NEW B, NEW s \in State, NEW a, NEW i, Here(c, s, "cmp", a, i), Level(i, Stk(s)),
         Fine(SetFlg(s, Reg(s)["rax"], IF a = "zero" THEN 0 ELSE Reg(s)[a]), c, B)
  PROVE  Fine(s, c, B)
PROOF
  <1>1. PICK t : t = SetFlg(s, Reg(s)["rax"], IF a = "zero" THEN 0 ELSE Reg(s)[a])
    OBVIOUS
  <1>2. ~Trapped("cmp", a, s)
    BY DEF Trapped
  <1>3. \A u : Does(c, "cmp", a, s, u) => u = t
    BY <1>1, Zenon DEF Does
  <1>4. Fine(t, c, B)
    BY <1>1, Zenon
  <1>. QED BY <1>2, <1>3, <1>4, FineStep, Zenon

\* A push.
LEMMA PushStep ==
  ASSUME NEW c, NEW B, NEW s \in State, NEW a, NEW i, Here(c, s, "push", a, i), Level(i, Stk(s)),
         Fine(SetStk(s, Grow(Stk(s), Reg(s)[a])), c, B)
  PROVE  Fine(s, c, B)
PROOF
  <1>1. PICK t : t = SetStk(s, Grow(Stk(s), Reg(s)[a]))
    OBVIOUS
  <1>2. ~Trapped("push", a, s)
    BY DEF Trapped
  <1>3. \A u : Does(c, "push", a, s, u) => u = t
    BY <1>1, Zenon DEF Does
  <1>4. Fine(t, c, B)
    BY <1>1, Zenon
  <1>. QED BY <1>2, <1>3, <1>4, FineStep, Zenon

\* A pop.
LEMMA PopStep ==
  ASSUME NEW c, NEW B, NEW s \in State, NEW a, NEW i, Here(c, s, "pop", a, i), Level(i, Stk(s)),
         Fine(Popped(s, a), c, B)
  PROVE  Fine(s, c, B)
PROOF
  <1>1. PICK t : t = Popped(s, a)
    OBVIOUS
  <1>2. ~Trapped("pop", a, s)
    BY DEF Trapped
  <1>3. \A u : Does(c, "pop", a, s, u) => u = t
    BY <1>1, Zenon DEF Does
  <1>4. Fine(t, c, B)
    BY <1>1, Zenon
  <1>. QED BY <1>2, <1>3, <1>4, FineStep, Zenon

\* A call.
LEMMA CallStep ==
  ASSUME NEW c, NEW B, NEW s \in State, NEW a, NEW i, Here(c, s, "call", a, i), Level(i, Stk(s)),
         Fine(CalledIn(s, a[1], a[2]), c, B)
  PROVE  Fine(s, c, B)
PROOF
  <1>1. PICK t : t = CalledIn(s, a[1], a[2])
    OBVIOUS
  <1>2. ~Trapped("call", a, s)
    BY DEF Trapped
  <1>3. \A u : Does(c, "call", a, s, u) => u = t
    BY <1>1, Zenon DEF Does
  <1>4. Fine(t, c, B)
    BY <1>1, Zenon
  <1>. QED BY <1>2, <1>3, <1>4, FineStep, Zenon

\* Stack arguments released.
LEMMA ReleaseStep ==
  ASSUME NEW c, NEW B, NEW s \in State, NEW a, NEW i, Here(c, s, "release", a, i), Level(i, Stk(s)),
         Fine(SetStk(s, Free(Stk(s), a)), c, B)
  PROVE  Fine(s, c, B)
PROOF
  <1>1. PICK t : t = SetStk(s, Free(Stk(s), a))
    OBVIOUS
  <1>2. ~Trapped("release", a, s)
    BY DEF Trapped
  <1>3. \A u : Does(c, "release", a, s, u) => u = t
    BY <1>1, Zenon DEF Does
  <1>4. Fine(t, c, B)
    BY <1>1, Zenon
  <1>. QED BY <1>2, <1>3, <1>4, FineStep, Zenon

\* A jump.
LEMMA JmpStep ==
  ASSUME NEW c, NEW B, NEW s \in State, NEW a, NEW i, Here(c, s, "jmp", a, i), Level(i, Stk(s)),
         Fine(GoTo(s, Targ(c, a)), c, B)
  PROVE  Fine(s, c, B)
PROOF
  <1>1. PICK t : t = GoTo(s, Targ(c, a))
    OBVIOUS
  <1>2. ~Trapped("jmp", a, s)
    BY DEF Trapped
  <1>3. \A u : Does(c, "jmp", a, s, u) => u = t
    BY <1>1, Zenon DEF Does
  <1>4. Fine(t, c, B)
    BY <1>1, Zenon
  <1>. QED BY <1>2, <1>3, <1>4, FineStep, Zenon

\* A jump if the words compared are equal.
LEMMA JeStep ==
  ASSUME NEW c, NEW B, NEW s \in State, NEW a, NEW i, Here(c, s, "je", a, i), Level(i, Stk(s)),
         Fine(GoTo(s, IF Low(Flg(s)) = High(Flg(s)) THEN Targ(c, a) ELSE Pc(s) + 1), c, B)
  PROVE  Fine(s, c, B)
PROOF
  <1>1. PICK t : t = GoTo(s, IF Low(Flg(s)) = High(Flg(s)) THEN Targ(c, a) ELSE Pc(s) + 1)
    OBVIOUS
  <1>2. ~Trapped("je", a, s)
    BY DEF Trapped
  <1>3. \A u : Does(c, "je", a, s, u) => u = t
    BY <1>1, Zenon DEF Does
  <1>4. Fine(t, c, B)
    BY <1>1, Zenon
  <1>. QED BY <1>2, <1>3, <1>4, FineStep, Zenon

\* A jump if they are not.
LEMMA JneStep ==
  ASSUME NEW c, NEW B, NEW s \in State, NEW a, NEW i, Here(c, s, "jne", a, i), Level(i, Stk(s)),
         Fine(GoTo(s, IF Low(Flg(s)) # High(Flg(s)) THEN Targ(c, a) ELSE Pc(s) + 1), c, B)
  PROVE  Fine(s, c, B)
PROOF
  <1>1. PICK t : t = GoTo(s, IF Low(Flg(s)) # High(Flg(s)) THEN Targ(c, a) ELSE Pc(s) + 1)
    OBVIOUS
  <1>2. ~Trapped("jne", a, s)
    BY DEF Trapped
  <1>3. \A u : Does(c, "jne", a, s, u) => u = t
    BY <1>1, Zenon DEF Does
  <1>4. Fine(t, c, B)
    BY <1>1, Zenon
  <1>. QED BY <1>2, <1>3, <1>4, FineStep, Zenon

\* A label.
LEMMA LabelStep ==
  ASSUME NEW c, NEW B, NEW s \in State, NEW a, NEW i, Here(c, s, "label", a, i), Level(i, Stk(s)),
         Fine(GoTo(s, Pc(s) + 1), c, B)
  PROVE  Fine(s, c, B)
PROOF
  <1>1. PICK t : t = GoTo(s, Pc(s) + 1)
    OBVIOUS
  <1>2. ~Trapped("label", a, s)
    BY DEF Trapped
  <1>3. \A u : Does(c, "label", a, s, u) => u = t
    BY <1>1, Zenon DEF Does
  <1>4. Fine(t, c, B)
    BY <1>1, Zenon
  <1>. QED BY <1>2, <1>3, <1>4, FineStep, Zenon

-----------------------------------------------------------------------------
(***************************************************************************)
(* Places in the code.                                                     *)
(***************************************************************************)
\* The code of an expression, with its labels at one place each.
Whole(c) == c \in Seq(Instr) /\ Once(c)

\* q stands in c behind the first p instructions.
Placed(c, q, p) ==
  /\ p \in Nat /\ q \in Seq(Instr) /\ p + Len(q) <= Len(c)
  /\ \A k \in 1 .. Len(q) : c[p + k] = q[k]

\* Where the two pieces of code stand.
LEMMA PlacedCat ==
  ASSUME NEW c, NEW q \in Seq(Instr), NEW d \in Seq(Instr), NEW p, Placed(c, Cat(q, d), p), Whole(c)
  PROVE  /\ Placed(c, q, p) /\ Placed(c, d, p + Len(q)) /\ Len(q) \in Nat /\ Len(d) \in Nat
         /\ p + Len(Cat(q, d)) = (p + Len(q)) + Len(d) /\ p \in Nat
PROOF
  <1>1. PICK x \in Seq(Instr) : x = Cat(q, d)
    BY CatSeq
  <1>2. /\ Len(q) \in Nat /\ Len(d) \in Nat /\ Len(x) = Len(q) + Len(d)
        /\ (\A k \in 1 .. Len(q) : x[k] = q[k]) /\ \A k \in 1 .. Len(d) : x[Len(q) + k] = d[k]
    BY <1>1, CatFacts
  <1>3. p \in Nat /\ p + Len(x) <= Len(c) /\ \A k \in 1 .. Len(x) : c[p + k] = x[k]
    BY <1>1 DEF Placed
  <1>4. Len(c) \in Nat
    BY DEF Whole
  <1>5. PICK m \in Nat, n \in Nat : m = Len(q) /\ n = Len(d)
    BY <1>2
  <1>6. p + m <= Len(c) /\ (p + m) + n <= Len(c) /\ p + Len(x) = (p + m) + n /\ p + m \in Nat
    BY <1>2, <1>3, <1>4, <1>5
  <1>7. ASSUME NEW k \in 1 .. m PROVE c[p + k] = q[k]
    <2>1. k \in 1 .. Len(x)
      BY <1>2, <1>5
    <2>. QED BY <1>2, <1>3, <1>5, <2>1
  <1>8. ASSUME NEW k \in 1 .. n PROVE c[(p + m) + k] = d[k]
    <2>1. m + k \in 1 .. Len(x) /\ p + (m + k) = (p + m) + k
      <3>1. Len(x) = m + n
        BY <1>2, <1>5
      <3>. QED BY <1>3, <3>1
    <2>2. c[p + (m + k)] = x[m + k]
      BY <1>3, <2>1
    <2>. QED BY <1>2, <1>5, <2>1, <2>2
  <1>. QED BY <1>1, <1>2, <1>3, <1>5, <1>6, <1>7, <1>8, Zenon DEF Placed

\* Where one instruction stands.
LEMMA HereOne ==
  ASSUME NEW c, Whole(c), NEW o, NEW a, NEW i, NEW p, Placed(c, One(I(o, a, i)), p),
         NEW s, Pc(s) = p + 1
  PROVE  Here(c, s, o, a, i) /\ p + Len(One(I(o, a, i))) = p + 1 /\ p \in Nat
PROOF
  <1>1. PICK x : x = I(o, a, i)
    OBVIOUS
  <1>2. Len(One(x)) = 1 /\ One(x)[1] = x
    BY OneFacts
  <1>3. p \in Nat /\ p + 1 <= Len(c) /\ c[p + 1] = x
    BY <1>1, <1>2 DEF Placed
  <1>4. p + 1 \in 1 .. Len(c) /\ p + Len(One(x)) = p + 1
    BY <1>2, <1>3 DEF Whole
  <1>. QED BY <1>1, <1>3, <1>4, Zenon DEF Here

\* Where two instructions stand.
LEMMA HereTwo ==
  ASSUME NEW c, Whole(c), NEW o, NEW a, NEW i, NEW o2, NEW a2, NEW i2, NEW p,
         Placed(c, Two(I(o, a, i), I(o2, a2, i2)), p)
  PROVE  /\ \A s : Pc(s) = p + 1 => Here(c, s, o, a, i)
         /\ \A s : Pc(s) = p + 1 + 1 => Here(c, s, o2, a2, i2)
         /\ p + Len(Two(I(o, a, i), I(o2, a2, i2))) = p + 1 + 1 /\ p \in Nat
PROOF
  <1>1. PICK x, y : x = I(o, a, i) /\ y = I(o2, a2, i2)
    OBVIOUS
  <1>2. Len(Two(x, y)) = 2 /\ Two(x, y)[1] = x /\ Two(x, y)[2] = y
    BY TwoFacts
  <1>3. p \in Nat /\ p + 2 <= Len(c) /\ c[p + 1] = x /\ c[p + 2] = y
    BY <1>1, <1>2 DEF Placed
  <1>4. /\ p + 1 \in 1 .. Len(c) /\ p + 1 + 1 \in 1 .. Len(c) /\ p + 1 + 1 = p + 2
        /\ p + Len(Two(x, y)) = p + 1 + 1
    BY <1>2, <1>3 DEF Whole
  <1>. QED BY <1>1, <1>3, <1>4, Zenon DEF Here

\* Where four instructions stand.
LEMMA HereFour ==
  ASSUME NEW c, Whole(c), NEW o, NEW a, NEW o2, NEW a2, NEW o3, NEW a3, NEW o4, NEW a4, NEW i, NEW p,
         Placed(c, Four(I(o, a, i), I(o2, a2, i), I(o3, a3, i), I(o4, a4, i)), p)
  PROVE  /\ \A s : Pc(s) = p + 1 => Here(c, s, o, a, i)
         /\ \A s : Pc(s) = p + 1 + 1 => Here(c, s, o2, a2, i)
         /\ \A s : Pc(s) = p + 1 + 1 + 1 => Here(c, s, o3, a3, i)
         /\ \A s : Pc(s) = p + 1 + 1 + 1 + 1 => Here(c, s, o4, a4, i)
         /\ p + Len(Four(I(o, a, i), I(o2, a2, i), I(o3, a3, i), I(o4, a4, i))) = p + 1 + 1 + 1 + 1
         /\ p \in Nat
PROOF
  <1>1. PICK w, x, y, z : w = I(o, a, i) /\ x = I(o2, a2, i) /\ y = I(o3, a3, i) /\ z = I(o4, a4, i)
    OBVIOUS
  <1>2. PICK q : q = Four(w, x, y, z)
    OBVIOUS
  <1>3. Len(q) = 4 /\ q[1] = w /\ q[2] = x /\ q[3] = y /\ q[4] = z
    BY <1>2, FourFacts
  <1>4. p \in Nat /\ p + 4 <= Len(c) /\ c[p + 1] = w /\ c[p + 2] = x /\ c[p + 3] = y /\ c[p + 4] = z
    BY <1>1, <1>2, <1>3 DEF Placed
  <1>5. Len(c) \in Nat
    BY DEF Whole
  <1>6. /\ p + 1 \in 1 .. Len(c) /\ p + 1 + 1 \in 1 .. Len(c) /\ p + 1 + 1 + 1 \in 1 .. Len(c)
        /\ p + 1 + 1 + 1 + 1 \in 1 .. Len(c)
    BY <1>4, <1>5
  <1>7. p + 1 + 1 = p + 2 /\ p + 1 + 1 + 1 = p + 3 /\ p + 1 + 1 + 1 + 1 = p + 4
    BY <1>4
  <1>8. p + Len(q) = p + 1 + 1 + 1 + 1
    BY <1>3, <1>4
  <1>. QED BY <1>1, <1>2, <1>4, <1>6, <1>7, <1>8, Zenon DEF Here

\* The k-th of the instructions z, emitted at stack_index i.
LEMMA HereJ ==
  ASSUME NEW c, Whole(c), NEW z \in Plain, NEW i \in Int, NEW p, Placed(c, J(z, i), p)
  PROVE  /\ \A k \in 1 .. Len(z) : \A s : Pc(s) = p + k => Here(c, s, z[k][1], z[k][2], i)
         /\ Len(J(z, i)) = Len(z) /\ p \in Nat
PROOF
  <1>1. DOMAIN z = 1 .. Len(z) /\ Len(z) \in Nat
    BY DEF Plain
  <1>2. PICK q \in Seq(Instr) : q = J(z, i)
    BY JSeq
  <1>3. Len(q) = Len(z)
    BY <1>1, <1>2 DEF J
  <1>4. \A k \in 1 .. Len(z) : q[k] = I(z[k][1], z[k][2], i)
    BY <1>1, <1>2 DEF J
  <1>5. p \in Nat /\ p + Len(q) <= Len(c) /\ \A k \in 1 .. Len(q) : c[p + k] = q[k]
    BY <1>2 DEF Placed
  <1>6. ASSUME NEW k \in 1 .. Len(z), NEW s, Pc(s) = p + k PROVE Here(c, s, z[k][1], z[k][2], i)
    <2>1. p + k \in 1 .. Len(c)
      BY <1>1, <1>3, <1>5 DEF Whole
    <2>2. c[p + k] = I(z[k][1], z[k][2], i)
      BY <1>3, <1>4, <1>5
    <2>. QED BY <1>6, <2>1, <2>2, Zenon DEF Here
  <1>. QED BY <1>2, <1>3, <1>5, <1>6

\* A jump to a label gets where it is.
LEMMA TargIs ==
  ASSUME NEW c, Whole(c), NEW s, NEW l, NEW i, Here(c, s, "label", l, i)
  PROVE  Targ(c, l) = Pc(s)
PROOF
  <1>1. PICK j \in DOMAIN c : j = Pc(s) /\ c[j].op = "label" /\ c[j].arg = l
    <2>1. DOMAIN c = 1 .. Len(c)
      BY DEF Whole
    <2>2. c[Pc(s)].op = "label" /\ c[Pc(s)].arg = l
      BY IFacts DEF Here
    <2>. QED BY <2>1, <2>2, Zenon DEF Here
  <1>2. PICK k : k = Targ(c, l)
    OBVIOUS
  <1>3. k \in DOMAIN c /\ c[k].op = "label" /\ c[k].arg = l
    BY <1>1, <1>2, Zenon DEF Targ
  <1>4. k = j
    BY <1>1, <1>3, Zenon DEF Whole, Once
  <1>. QED BY <1>1, <1>2, <1>4

-----------------------------------------------------------------------------
(***************************************************************************)
(* What the code of an expression does: it ends behind its last            *)
(* instruction with the stack as it was and the value in eax, or it traps  *)
(* where C leaves the behaviour undefined.                                 *)
(***************************************************************************)
Yields(e, m, v, n) == Out(v, n) \in C(e, m)
Bad(e, m) == \E o \in C(e, m) : ~IsOk(o)
Void(e) == U(e, 1) # {}
Got(e, m, v, n) == Bad(e, m) \/ \E w : Yields(e, m, w, n) /\ (w = v \/ Void(e))

\* The stack is k, or k and what was not released of the arguments there.
Over(j, k) == Len(j) >= Len(k) /\ (Exact => j = k)

Ended(t, e, p, k, m) ==
  Pc(t) = p + 1 /\ Over(Stk(t), k) /\ (Exact => Got(e, m, Reg(t)["rax"], Mem(t)))

Stuck(c, t, e, m) ==
  /\ Pc(t) \in 1 .. Len(c) /\ Level(c[Pc(t)].at, Stk(t)) /\ Trapped(OpAt(c, t), ArgAt(c, t), t)
  /\ Exact => Bad(e, m)

Ends(c, e, p, k, m) == {t \in State : Ended(t, e, p, k, m) \/ Stuck(c, t, e, m)}

\* The context a is code for e, at stack_index i, that does.
Works(e, a, i) ==
  \A c, p, s : Whole(c) /\ Placed(c, CodeOf(a), p) /\ s \in State /\ Pc(s) = p + 1 /\ Level(i, Stk(s))
               => Fine(s, c, Ends(c, e, p + Len(CodeOf(a)), Stk(s), Mem(s)))

\* All that traps in the code of e is in B.
Halts(c, e, m, B) == \A t \in State : Stuck(c, t, e, m) => t \in B

\* Getting to the end is getting where the code is to get to, and so is a trap.
LEMMA EndsFacts ==
  ASSUME NEW c, NEW e, NEW p, NEW k, NEW m
  PROVE  /\ Halts(c, e, m, Ends(c, e, p, k, m))
         /\ \A t \in State : Ended(t, e, p, k, m) => Fine(t, c, Ends(c, e, p, k, m))
PROOF
  <1>1. Halts(c, e, m, Ends(c, e, p, k, m))
    BY DEF Halts, Ends
  <1>2. ASSUME NEW t \in State, Ended(t, e, p, k, m) PROVE Fine(t, c, Ends(c, e, p, k, m))
    <2>1. t \in Ends(c, e, p, k, m)
      BY <1>2 DEF Ends
    <2>. QED BY <2>1, FineEnd
  <1>. QED BY <1>1, <1>2

\* The code of the part x of e, behind which the processor gets to B.
LEMMA RunPart ==
  ASSUME NEW x, NEW a, NEW i, Works(x, a, i), NEW c, NEW p, Whole(c), Placed(c, CodeOf(a), p),
         NEW s \in State, Pc(s) = p + 1, Level(i, Stk(s)),
         NEW e, NEW m, NEW B, Halts(c, e, m, B), Exact /\ Bad(x, Mem(s)) => Bad(e, m),
         \A t \in State : Ended(t, x, p + Len(CodeOf(a)), Stk(s), Mem(s)) => Fine(t, c, B)
  PROVE  Fine(s, c, B)
PROOF
  <1>1. PICK A : A = Ends(c, x, p + Len(CodeOf(a)), Stk(s), Mem(s))
    OBVIOUS
  <1>2. Fine(s, c, A)
    BY <1>1, SMTT(30) DEF Works
  <1>3. ASSUME NEW t \in A, t \in State PROVE Fine(t, c, B)
    <2>1. CASE Stuck(c, t, x, Mem(s))
      <3>1. Stuck(c, t, e, m)
        BY <2>1, Zenon DEF Stuck
      <3>2. t \in B
        BY <1>3, <3>1, Zenon DEF Halts
      <3>. QED BY <1>3, <3>2, FineEnd, Zenon
    <2>2. CASE Ended(t, x, p + Len(CodeOf(a)), Stk(s), Mem(s))
      BY <1>3, <2>2, Zenon
    <2>. QED BY <1>1, <1>3, <2>1, <2>2 DEF Ends
  <1>. QED BY <1>2, <1>3, FineThen, Zenon
-----------------------------------------------------------------------------
(***************************************************************************)
(* Values: what an expression yields by what its parts yield.              *)
(***************************************************************************)
LEMMA YieldsType ==
  ASSUME NEW e \in Exps, NEW m \in Memory, NEW v, NEW n, Yields(e, m, v, n)
  PROVE  v \in Word /\ n \in Memory
PROOF
  <1>1. Out(v, n) \in Outcomes
    BY CRule DEF Yields
  <1>2. ValueOf(Out(v, n)) = v /\ StoreOf(Out(v, n)) = n
    BY OutFacts
  <1>3. ValueOf(Out(v, n)) \in Word /\ StoreOf(Out(v, n)) \in Memory
    BY <1>1, OutcomeFacts
  <1>. QED BY <1>2, <1>3

\* The value of an expression that is no void call is in eax.
LEMMA GotValue ==
  ASSUME NEW e, NEW m, NEW v, NEW n, Got(e, m, v, n)
  PROVE  /\ Bad(e, m) \/ \E w : Yields(e, m, w, n)
         /\ ~Void(e) => Bad(e, m) \/ Yields(e, m, v, n)
PROOF
  BY Zenon DEF Got

\* What C allows is got.
LEMMA YieldsGot ==
  ASSUME NEW e, NEW m, NEW v, NEW n, Yields(e, m, v, n)
  PROVE  Got(e, m, v, n)
PROOF
  BY Zenon DEF Got

\* The parts of an outcome that is ok.
LEMMA OutParts ==
  ASSUME NEW v, NEW n, NEW p, p = Out(v, n)
  PROVE  IsOk(p) /\ ValueOf(p) = v /\ StoreOf(p) = n
PROOF
  BY OutFacts

\* C's rule for constants, of an outcome that is ok.
LEMMA ConstYields ==
  ASSUME NEW e, Kind(e, "const"), NEW m \in Memory
  PROVE  Yields(e, m, e[2], m)
PROOF
  BY CRule, ConstRule DEF Yields, Kind

\* C's rule for variables.
LEMMA VarYields ==
  ASSUME NEW e, Kind(e, "var"), NEW m \in Memory
  PROVE  Yields(e, m, m[e[2]], m) /\ ~Bad(e, m)
PROOF
  <1>1. e \in Exps
    BY DEF Kind
  <1>2. \A o : o \in C(e, m) <=> o = Out(m[e[2]], m)
    BY <1>1, CRule, VarRule, Zenon
  <1>3. IsOk(Out(m[e[2]], m))
    BY OutFacts, Zenon
  <1>. QED BY <1>2, <1>3, Zenon DEF Yields, Bad

\* C's rule for ++ and -- in front.
LEMMA PrefixYields ==
  ASSUME NEW e, Kind(e, "prefix"), NEW m \in Memory
  PROVE  Yields(e, m, Alu1(e[2], m[e[3][2]]), With(m, e[3][2], Alu1(e[2], m[e[3][2]])))
PROOF
  <1>1. e \in Exps
    BY DEF Kind
  <1>2. PICK o : o = Out(Alu1(e[2], m[e[3][2]]), With(m, e[3][2], Alu1(e[2], m[e[3][2]])))
    OBVIOUS
  <1>3. Can(CValues, e, m, o)
    BY <1>2, PrefixRule, Zenon
  <1>4. o \in C(e, m)
    BY <1>1, <1>3, CRule, Zenon
  <1>. QED BY <1>2, <1>4, Zenon DEF Yields

\* C's rule for ++ and -- behind.
LEMMA SuffixYields ==
  ASSUME NEW e, Kind(e, "suffix"), NEW m \in Memory
  PROVE  Yields(e, m, m[e[3][2]], With(m, e[3][2], Alu1(e[2], m[e[3][2]])))
PROOF
  <1>1. e \in Exps
    BY DEF Kind
  <1>2. PICK o : o = Out(m[e[3][2]], With(m, e[3][2], Alu1(e[2], m[e[3][2]])))
    OBVIOUS
  <1>3. Can(CValues, e, m, o)
    BY <1>2, SuffixRule, Zenon
  <1>4. o \in C(e, m)
    BY <1>1, <1>3, CRule, Zenon
  <1>. QED BY <1>2, <1>4, Zenon DEF Yields

\* C's rule for the other unary operators, with what is undefined.
LEMMA UnaryYields ==
  ASSUME NEW e, Kind(e, "unary"), NEW m \in Memory
  PROVE  /\ Bad(e[3], m) => Bad(e, m)
         /\ \A v, n : Yields(e[3], m, v, n) => Yields(e, m, UnaryValue(e, v), n)
PROOF
  <1>1. e \in Exps
    BY DEF Kind
  <1>2. \A o, p : p \in C(e[3], m) /\ UnaryThen(e, p, o) => o \in C(e, m)
    BY <1>1, CRule, UnaryRule, Zenon DEF C
  <1>3. \A p : ~IsOk(p) => UnaryThen(e, p, p)
    BY Zenon DEF UnaryThen
  <1>4. ASSUME NEW v, NEW n PROVE UnaryThen(e, Out(v, n), Out(UnaryValue(e, v), n))
    <2>1. PICK p : p = Out(v, n)
      OBVIOUS
    <2>2. IsOk(p) /\ ValueOf(p) = v /\ StoreOf(p) = n
      BY <2>1, OutParts, Zenon
    <2>. QED BY <2>1, <2>2 DEF UnaryThen
  <1>. QED BY <1>2, <1>3, <1>4, Zenon DEF Bad, Yields

\* C's rule for assignments.
LEMMA AssignYields ==
  ASSUME NEW e, IsAssign(e), NEW m \in Memory
  PROVE  /\ Bad(e[4], m) => Bad(e, m)
         /\ \A v, n : Yields(e[4], m, v, n) => Yields(e, m, v, With(n, e[3][2], v))
PROOF
  <1>1. e \in Exps
    BY OperandFacts
  <1>2. \A o, p : p \in C(e[4], m) /\ AssignThen(e, p, o) => o \in C(e, m)
    BY <1>1, CRule, AssignRule, Zenon DEF C
  <1>3. \A p : ~IsOk(p) => AssignThen(e, p, p)
    BY Zenon DEF AssignThen
  <1>4. ASSUME NEW v, NEW n PROVE AssignThen(e, Out(v, n), Out(v, With(n, e[3][2], v)))
    <2>1. PICK p : p = Out(v, n)
      OBVIOUS
    <2>2. IsOk(p) /\ ValueOf(p) = v /\ StoreOf(p) = n
      BY <2>1, OutParts, Zenon
    <2>. QED BY <2>1, <2>2 DEF AssignThen
  <1>. QED BY <1>2, <1>3, <1>4, Zenon DEF Bad, Yields

\* C's rule for commas.
LEMMA CommaYields ==
  ASSUME NEW e, IsComma(e), NEW m \in Memory
  PROVE  /\ Bad(e[3], m) => Bad(e, m)
         /\ \A w, n : Yields(e[3], m, w, n) /\ Bad(e[4], n) => Bad(e, m)
         /\ \A w, n, v, t : Yields(e[3], m, w, n) /\ Yields(e[4], n, v, t) => Yields(e, m, v, t)
PROOF
  <1>1. e \in Exps
    BY OperandFacts
  <1>2. \A o, p : p \in C(e[3], m) /\ CommaThen(CValues, e, p, o) => o \in C(e, m)
    BY <1>1, CRule, CommaRule, Zenon DEF C
  <1>3. \A p : ~IsOk(p) => CommaThen(CValues, e, p, p)
    BY Zenon DEF CommaThen
  <1>4. ASSUME NEW w, NEW n, NEW o, o \in C(e[4], n) PROVE CommaThen(CValues, e, Out(w, n), o)
    <2>1. PICK p : p = Out(w, n)
      OBVIOUS
    <2>2. IsOk(p) /\ ValueOf(p) = w /\ StoreOf(p) = n
      BY <2>1, OutParts, Zenon
    <2>. QED BY <1>4, <2>1, <2>2 DEF CommaThen, C
  <1>. QED BY <1>2, <1>3, <1>4, Zenon DEF Bad, Yields

\* C's rule for && and ||.
LEMMA LogicYields ==
  ASSUME NEW e, IsLogic(e), NEW m \in Memory
  PROVE  /\ Bad(e[3], m) => Bad(e, m)
         /\ \A v, n : Yields(e[3], m, v, n) /\ Decides(e, v) => Yields(e, m, Decided(e), n)
         /\ \A v, n : Yields(e[3], m, v, n) /\ ~Decides(e, v) /\ Bad(e[4], n) => Bad(e, m)
         /\ \A v, n, w, t : Yields(e[3], m, v, n) /\ ~Decides(e, v) /\ Yields(e[4], n, w, t)
                              => Yields(e, m, Bool(w # 0), t)
PROOF
  <1>1. e \in Exps
    BY OperandFacts
  <1>2. \A o, p : p \in C(e[3], m) /\ LogicThen(CValues, e, p, o) => o \in C(e, m)
    BY <1>1, CRule, LogicRule, Zenon DEF C
  <1>3. \A p : ~IsOk(p) => LogicThen(CValues, e, p, p)
    BY Zenon DEF LogicThen
  <1>4. ASSUME NEW v, NEW n, Decides(e, v) PROVE LogicThen(CValues, e, Out(v, n), Out(Decided(e), n))
    <2>1. PICK p : p = Out(v, n)
      OBVIOUS
    <2>2. IsOk(p) /\ ValueOf(p) = v /\ StoreOf(p) = n
      BY <2>1, OutParts, Zenon
    <2>. QED BY <1>4, <2>1, <2>2 DEF LogicThen
  <1>5. ASSUME NEW v, NEW n, ~Decides(e, v), NEW q \in C(e[4], n), NEW o, TruthThen(q, o)
        PROVE  LogicThen(CValues, e, Out(v, n), o)
    <2>1. PICK p : p = Out(v, n)
      OBVIOUS
    <2>2. IsOk(p) /\ ValueOf(p) = v /\ StoreOf(p) = n
      BY <2>1, OutParts, Zenon
    <2>. QED BY <1>5, <2>1, <2>2, Zenon DEF LogicThen, C
  <1>6. \A p : ~IsOk(p) => TruthThen(p, p)
    BY Zenon DEF TruthThen
  <1>7. ASSUME NEW w, NEW t PROVE TruthThen(Out(w, t), Out(Bool(w # 0), t))
    <2>1. PICK p : p = Out(w, t)
      OBVIOUS
    <2>2. IsOk(p) /\ ValueOf(p) = w /\ StoreOf(p) = t
      BY <2>1, OutParts, Zenon
    <2>. QED BY <2>1, <2>2, Zenon DEF TruthThen
  <1>8. Bad(e[3], m) => Bad(e, m)
    BY <1>2, <1>3, Zenon DEF Bad
  <1>9. \A v, n : Yields(e[3], m, v, n) /\ Decides(e, v) => Yields(e, m, Decided(e), n)
    BY <1>2, <1>4, Zenon DEF Yields
  <1>10. \A v, n, q, o : Yields(e[3], m, v, n) /\ ~Decides(e, v) /\ q \in C(e[4], n) /\ TruthThen(q, o)
                           => o \in C(e, m)
    BY <1>2, <1>5, Zenon DEF Yields
  <1>11. \A v, n : Yields(e[3], m, v, n) /\ ~Decides(e, v) /\ Bad(e[4], n) => Bad(e, m)
    BY <1>6, <1>10, Zenon DEF Bad
  <1>12. \A v, n, w, t : Yields(e[3], m, v, n) /\ ~Decides(e, v) /\ Yields(e[4], n, w, t)
                           => Yields(e, m, Bool(w # 0), t)
    <2>1. ASSUME NEW v, NEW n, NEW w, NEW t, Yields(e[3], m, v, n), ~Decides(e, v), Yields(e[4], n, w, t)
          PROVE  Yields(e, m, Bool(w # 0), t)
      <3>1. Out(w, t) \in C(e[4], n) /\ TruthThen(Out(w, t), Out(Bool(w # 0), t))
        BY <1>7, <2>1, Zenon DEF Yields
      <3>2. Out(Bool(w # 0), t) \in C(e, m)
        BY <1>10, <2>1, <3>1, Zenon
      <3>. QED BY <3>2, Zenon DEF Yields
    <2>. QED BY <2>1, Zenon
  <1>. QED BY <1>8, <1>9, <1>11, <1>12

\* The branch of a ternary for the value v of its condition.
Branch(e, v) == IF v # 0 THEN e[3] ELSE e[4]

\* C's rule for the ternary operator.
LEMMA TernaryYields ==
  ASSUME NEW e, Kind(e, "ternary"), NEW m \in Memory
  PROVE  /\ Bad(e[2], m) => Bad(e, m)
         /\ \A v, n : Yields(e[2], m, v, n) /\ Bad(Branch(e, v), n) => Bad(e, m)
         /\ \A v, n, w, t : Yields(e[2], m, v, n) /\ Yields(Branch(e, v), n, w, t) => Yields(e, m, w, t)
PROOF
  <1>1. e \in Exps
    BY DEF Kind
  <1>2. \A o, p : p \in C(e[2], m) /\ TernaryThen(CValues, e, p, o) => o \in C(e, m)
    BY <1>1, CRule, TernaryRule, Zenon DEF C
  <1>3. \A p : ~IsOk(p) => TernaryThen(CValues, e, p, p)
    BY Zenon DEF TernaryThen
  <1>4. ASSUME NEW v, NEW n, NEW o, o \in C(Branch(e, v), n) PROVE TernaryThen(CValues, e, Out(v, n), o)
    <2>1. PICK p : p = Out(v, n)
      OBVIOUS
    <2>2. IsOk(p) /\ ValueOf(p) = v /\ StoreOf(p) = n
      BY <2>1, OutParts, Zenon
    <2>3. o \in V(CValues, IF ValueOf(p) # 0 THEN e[3] ELSE e[4], StoreOf(p))
      BY <1>4, <2>2 DEF C, Branch
    <2>. QED BY <2>1, <2>2, <2>3, Zenon DEF TernaryThen
  <1>. QED BY <1>2, <1>3, <1>4, Zenon DEF Bad, Yields

\* C's rule for the other binary operators, in the order the code evaluates.
LEMMA OrdinaryYields ==
  ASSUME NEW e, IsOrdinary(e), NEW m \in Memory
  PROVE  /\ Bad(e[4], m) => Bad(e, m)
         /\ \A b, n : Yields(e[4], m, b, n) /\ Bad(e[3], n) => Bad(e, m)
         /\ \A b, n, a, t, o : Yields(e[4], m, b, n) /\ Yields(e[3], n, a, t) /\ o \in Apply(e[2], a, b, t)
                                 => o \in C(e, m)
PROOF
  <1>1. e \in Exps
    BY OperandFacts
  <1>2. \A o, p : p \in C(e[4], m) /\ RightThen(CValues, e, p, o) => o \in C(e, m)
    BY <1>1, CRule, OrdinaryRule, Zenon DEF C
  <1>3. \A p : ~IsOk(p) => RightThen(CValues, e, p, p)
    BY Zenon DEF RightThen
  <1>4. ASSUME NEW b, NEW n, NEW q \in C(e[3], n), ~IsOk(q) PROVE RightThen(CValues, e, Out(b, n), q)
    <2>1. PICK p : p = Out(b, n)
      OBVIOUS
    <2>2. IsOk(p) /\ ValueOf(p) = b /\ StoreOf(p) = n
      BY <2>1, OutParts, Zenon
    <2>. QED BY <1>4, <2>1, <2>2, Zenon DEF RightThen, C
  <1>5. ASSUME NEW b, NEW n, NEW a, NEW t, Out(a, t) \in C(e[3], n), NEW o, o \in Apply(e[2], a, b, t)
        PROVE  RightThen(CValues, e, Out(b, n), o)
    <2>1. PICK p : p = Out(b, n)
      OBVIOUS
    <2>2. IsOk(p) /\ ValueOf(p) = b /\ StoreOf(p) = n
      BY <2>1, OutParts, Zenon
    <2>3. PICK q : q = Out(a, t)
      OBVIOUS
    <2>4. IsOk(q) /\ ValueOf(q) = a /\ StoreOf(q) = t
      BY <2>3, OutParts, Zenon
    <2>5. q \in V(CValues, e[3], StoreOf(p))
      BY <1>5, <2>2, <2>3 DEF C
    <2>6. o \in Apply(e[2], ValueOf(q), ValueOf(p), StoreOf(q))
      BY <1>5, <2>2, <2>4
    <2>. QED BY <2>1, <2>2, <2>4, <2>5, <2>6, Zenon DEF RightThen
  <1>6. Bad(e[4], m) => Bad(e, m)
    BY <1>2, <1>3, Zenon DEF Bad
  <1>7. \A b, n : Yields(e[4], m, b, n) /\ Bad(e[3], n) => Bad(e, m)
    BY <1>2, <1>4, Zenon DEF Bad, Yields
  <1>8. \A b, n, a, t, o : Yields(e[4], m, b, n) /\ Yields(e[3], n, a, t) /\ o \in Apply(e[2], a, b, t)
                             => o \in C(e, m)
    BY <1>2, <1>5, Zenon DEF Yields
  <1>. QED BY <1>6, <1>7, <1>8

\* An outcome that is not ok leaves the behaviour undefined.
LEMMA BadOutcome ==
  ASSUME NEW e, NEW m, NEW o, o \in C(e, m), ~IsOk(o)
  PROVE  Bad(e, m)
PROOF
  BY Zenon DEF Bad
-----------------------------------------------------------------------------
(***************************************************************************)
(* Pieces of code that compute a value, and what stands behind a part.     *)
(***************************************************************************)
LEMMA LevelOver ==
  ASSUME NEW i, NEW j, NEW k, NEW h, Level(i, k), Over(h, k), Exact => j = i
  PROVE  Level(j, h)
PROOF
  BY Zenon DEF Level, Over

\* Being above a stack is reflexive and transitive.
LEMMA OverFacts ==
  ASSUME NEW k \in Seq(Word)
  PROVE  /\ Over(k, k)
         /\ \A g \in Seq(Word), h \in Seq(Word) : Over(g, h) /\ Over(h, k) => Over(g, k)
PROOF
  BY DEF Over

\* The states t like s, but for the value v in eax and what is of no use.
Computed(s, t, n, v) ==
  t \in State /\ Pc(t) = n /\ Stk(t) = Stk(s) /\ Mem(t) = Mem(s) /\ Reg(t)["rax"] = v

Uno(o, a) == << <<o, a>> >>
Duo(o, a, o2, a2) == << <<o, a>>, <<o2, a2>> >>
Trio(o, a, o2, a2, o3, a3) == << <<o, a>>, <<o2, a2>>, <<o3, a3>> >>

\* One instruction to be emitted.
LEMMA UnoFacts ==
  ASSUME NEW o, NEW a, NEW z, z = Uno(o, a)
  PROVE  Len(z) = 1 /\ z[1][1] = o /\ z[1][2] = a
PROOF
  BY DEF Uno

\* Two instructions to be emitted.
LEMMA DuoFacts ==
  ASSUME NEW o, NEW a, NEW o2, NEW a2, NEW z, z = Duo(o, a, o2, a2)
  PROVE  Len(z) = 2 /\ z[1][1] = o /\ z[1][2] = a /\ z[2][1] = o2 /\ z[2][2] = a2
PROOF
  BY DEF Duo

\* Three instructions to be emitted.
LEMMA TrioFacts ==
  ASSUME NEW o, NEW a, NEW o2, NEW a2, NEW o3, NEW a3, NEW z, z = Trio(o, a, o2, a2, o3, a3)
  PROVE  /\ Len(z) = 3 /\ z[1][1] = o /\ z[1][2] = a /\ z[2][1] = o2 /\ z[2][2] = a2
         /\ z[3][1] = o3 /\ z[3][2] = a3
PROOF
  BY DEF Trio

\* Where it stands.
LEMMA HereUno ==
  ASSUME NEW c, Whole(c), NEW z \in Plain, NEW i \in Int, NEW p, Placed(c, J(z, i), p),
         NEW o, NEW a, z = Uno(o, a)
  PROVE  /\ \A s : Pc(s) = p + 1 => Here(c, s, o, a, i)
         /\ p + Len(J(z, i)) = p + 1 /\ p \in Nat
PROOF
  <1>1. Len(z) = 1 /\ z[1][1] = o /\ z[1][2] = a
    BY UnoFacts
  <1>2. /\ \A k \in 1 .. Len(z) : \A s : Pc(s) = p + k => Here(c, s, z[k][1], z[k][2], i)
        /\ Len(J(z, i)) = Len(z) /\ p \in Nat
    BY HereJ
  <1>3. 1 \in 1 .. Len(z)
    BY <1>1
  <1>4. \A s : Pc(s) = p + 1 => Here(c, s, z[1][1], z[1][2], i)
    BY <1>2, <1>3, Zenon
  <1>. QED BY <1>1, <1>2, <1>4, Zenon

\* Where they stand.
LEMMA HereDuo ==
  ASSUME NEW c, Whole(c), NEW z \in Plain, NEW i \in Int, NEW p, Placed(c, J(z, i), p),
         NEW o, NEW a, NEW o2, NEW a2, z = Duo(o, a, o2, a2)
  PROVE  /\ \A s : Pc(s) = p + 1 => Here(c, s, o, a, i)
         /\ \A s : Pc(s) = p + 1 + 1 => Here(c, s, o2, a2, i)
         /\ p + Len(J(z, i)) = p + 1 + 1 /\ p \in Nat
PROOF
  <1>1. Len(z) = 2 /\ z[1][1] = o /\ z[1][2] = a /\ z[2][1] = o2 /\ z[2][2] = a2
    BY DuoFacts
  <1>2. /\ \A k \in 1 .. Len(z) : \A s : Pc(s) = p + k => Here(c, s, z[k][1], z[k][2], i)
        /\ Len(J(z, i)) = Len(z) /\ p \in Nat
    BY HereJ
  <1>3. 1 \in 1 .. Len(z) /\ 2 \in 1 .. Len(z)
    BY <1>1
  <1>4. /\ \A s : Pc(s) = p + 1 => Here(c, s, z[1][1], z[1][2], i)
        /\ \A s : Pc(s) = p + 2 => Here(c, s, z[2][1], z[2][2], i)
    BY <1>2, <1>3, Zenon
  <1>5. p + 1 + 1 = p + 2
    BY <1>2
  <1>. QED BY <1>1, <1>2, <1>4, <1>5, Zenon

\* Where the three stand.
LEMMA HereTrio ==
  ASSUME NEW c, Whole(c), NEW z \in Plain, NEW i \in Int, NEW p, Placed(c, J(z, i), p),
         NEW o, NEW a, NEW o2, NEW a2, NEW o3, NEW a3, z = Trio(o, a, o2, a2, o3, a3)
  PROVE  /\ \A s : Pc(s) = p + 1 => Here(c, s, o, a, i)
         /\ \A s : Pc(s) = p + 1 + 1 => Here(c, s, o2, a2, i)
         /\ \A s : Pc(s) = p + 1 + 1 + 1 => Here(c, s, o3, a3, i)
         /\ p + Len(J(z, i)) = p + 1 + 1 + 1 /\ p \in Nat
PROOF
  <1>1. /\ Len(z) = 3 /\ z[1][1] = o /\ z[1][2] = a /\ z[2][1] = o2 /\ z[2][2] = a2
        /\ z[3][1] = o3 /\ z[3][2] = a3
    BY TrioFacts
  <1>2. /\ \A k \in 1 .. Len(z) : \A s : Pc(s) = p + k => Here(c, s, z[k][1], z[k][2], i)
        /\ Len(J(z, i)) = Len(z) /\ p \in Nat
    BY HereJ
  <1>3. 1 \in 1 .. Len(z) /\ 2 \in 1 .. Len(z) /\ 3 \in 1 .. Len(z)
    BY <1>1
  <1>4. /\ \A s : Pc(s) = p + 1 => Here(c, s, z[1][1], z[1][2], i)
        /\ \A s : Pc(s) = p + 2 => Here(c, s, z[2][1], z[2][2], i)
        /\ \A s : Pc(s) = p + 3 => Here(c, s, z[3][1], z[3][2], i)
    BY <1>2, <1>3, Zenon
  <1>5. p + 1 + 1 = p + 2 /\ p + 1 + 1 + 1 = p + 3
    BY <1>2
  <1>. QED BY <1>1, <1>2, <1>4, <1>5, Zenon

\* mov $0, setcc
LEMMA SetTail ==
  ASSUME NEW c, NEW B, NEW s \in State, NEW cond, NEW i, Level(i, Stk(s)),
         Here(c, s, "mov", 0, i), \A u : Pc(u) = Pc(s) + 1 => Here(c, u, "set", cond, i),
         \A t : Computed(s, t, Pc(s) + 1 + 1, Bool(Holds(cond, Low(Flg(s)), High(Flg(s))))) => Fine(t, c, B)
  PROVE  Fine(s, c, B)
PROOF
  <1>1. PICK u : u = SetReg(s, "rax", 0)
    OBVIOUS
  <1>2. u \in State /\ Pc(u) = Pc(s) + 1 /\ Flg(u) = Flg(s) /\ Stk(u) = Stk(s) /\ Mem(u) = Mem(s)
    BY <1>1, WordFacts, RegFacts, SetRegFacts
  <1>3. PICK v \in Word : v = Bool(Holds(cond, Low(Flg(s)), High(Flg(s))))
    BY BoolWord
  <1>4. PICK t : t = SetReg(u, "rax", v)
    OBVIOUS
  <1>5. Computed(s, t, Pc(s) + 1 + 1, v)
    BY <1>2, <1>4, RegFacts, SetRegFacts DEF Computed
  <1>6. Fine(t, c, B)
    BY <1>3, <1>5
  <1>7. t = SetReg(u, "rax", Bool(Holds(cond, Low(Flg(u)), High(Flg(u)))))
    BY <1>2, <1>3, <1>4
  <1>8. Here(c, u, "set", cond, i) /\ Level(i, Stk(u))
    BY <1>2
  <1>9. Fine(u, c, B)
    BY <1>2, <1>6, <1>7, <1>8, SetStep, Zenon
  <1>. QED BY <1>1, <1>9, MovStep, Zenon

\* cmp, mov $0, setcc
LEMMA CompareTail ==
  ASSUME NEW c, NEW B, NEW s \in State, NEW cond, NEW x, NEW i, NEW y \in Word, Level(i, Stk(s)),
         y = IF x = "zero" THEN 0 ELSE Reg(s)[x],
         Here(c, s, "cmp", x, i), \A u : Pc(u) = Pc(s) + 1 => Here(c, u, "mov", 0, i),
         \A u : Pc(u) = Pc(s) + 1 + 1 => Here(c, u, "set", cond, i),
         \A t : Computed(s, t, Pc(s) + 1 + 1 + 1, Bool(Holds(cond, Reg(s)["rax"], y))) => Fine(t, c, B)
  PROVE  Fine(s, c, B)
PROOF
  <1>1. Reg(s)["rax"] \in Word
    BY StateFacts, RegFacts, SetFacts, WordFacts
  <1>2. PICK u : u = SetFlg(s, Reg(s)["rax"], y)
    OBVIOUS
  <1>3. /\ u \in State /\ Pc(u) = Pc(s) + 1 /\ Low(Flg(u)) = Reg(s)["rax"] /\ High(Flg(u)) = y
        /\ Stk(u) = Stk(s) /\ Mem(u) = Mem(s)
    BY <1>1, <1>2, SetFlgFacts, ZenonT(60)
  <1>4. /\ Here(c, u, "mov", 0, i) /\ Level(i, Stk(u))
        /\ \A w : Pc(w) = Pc(u) + 1 => Here(c, w, "set", cond, i)
    BY <1>3
  <1>5. ASSUME NEW t, Computed(u, t, Pc(u) + 1 + 1, Bool(Holds(cond, Low(Flg(u)), High(Flg(u)))))
        PROVE  Fine(t, c, B)
    <2>1. Computed(s, t, Pc(s) + 1 + 1 + 1, Bool(Holds(cond, Reg(s)["rax"], y)))
      BY <1>3, <1>5 DEF Computed
    <2>. QED BY <2>1
  <1>6. Fine(u, c, B)
    BY <1>3, <1>4, <1>5, SetTail, Zenon
  <1>7. Fine(SetFlg(s, Reg(s)["rax"], IF x = "zero" THEN 0 ELSE Reg(s)[x]), c, B)
    BY <1>2, <1>6
  <1>. QED BY <1>7, CmpStep, Zenon

\* What the code q, behind that of the part x, does for the expression e.
Ending(x, e, q, j) ==
  \A c, p, t, k, m :
    /\ Whole(c) /\ Placed(c, q, p) /\ t \in State /\ m \in Memory /\ k \in Seq(Word)
    /\ Pc(t) = p + 1 /\ Level(j, Stk(t)) /\ Over(Stk(t), k)
    /\ Exact => Got(x, m, Reg(t)["rax"], Mem(t))
    => Fine(t, c, Ends(c, e, p + Len(q), k, m))

\* An expression does when its first part does and the code behind that part does the
\* rest.
LEMMA Frame ==
  ASSUME NEW x, NEW e, NEW a, NEW i, NEW l, Layout(a, i, l), Works(x, a, i),
         NEW b, NEW q \in Seq(Instr), CodeOf(b) = Cat(CodeOf(a), q), Ending(x, e, q, IndexOf(a)),
         \A m \in Memory : Bad(x, m) => Bad(e, m)
  PROVE  Works(e, b, i)
PROOF
  <1>1. SUFFICES ASSUME NEW c, NEW p, NEW s, Whole(c), Placed(c, CodeOf(b), p), s \in State,
                        Pc(s) = p + 1, Level(i, Stk(s))
                 PROVE  Fine(s, c, Ends(c, e, p + Len(CodeOf(b)), Stk(s), Mem(s)))
    BY SMTT(30) DEF Works
  <1>2. CodeOf(a) \in Seq(Instr) /\ (Exact => IndexOf(a) = i)
    BY LayoutFacts
  <1>3. PICK o : o = p + Len(CodeOf(a))
    OBVIOUS
  <1>4. Placed(c, CodeOf(a), p) /\ Placed(c, q, o) /\ p + Len(CodeOf(b)) = o + Len(q)
    BY <1>1, <1>2, <1>3, PlacedCat
  <1>5. PICK B : B = Ends(c, e, o + Len(q), Stk(s), Mem(s))
    OBVIOUS
  <1>6. Halts(c, e, Mem(s), B)
    BY <1>5, EndsFacts
  <1>7. Stk(s) \in Seq(Word) /\ Mem(s) \in Memory
    BY <1>1, StateFacts
  <1>8. ASSUME NEW t \in State, Ended(t, x, o, Stk(s), Mem(s)) PROVE Fine(t, c, B)
    <2>1. Pc(t) = o + 1 /\ Over(Stk(t), Stk(s)) /\ (Exact => Got(x, Mem(s), Reg(t)["rax"], Mem(t)))
      BY <1>8, Zenon DEF Ended
    <2>2. Level(IndexOf(a), Stk(t))
      BY <1>1, <1>2, <2>1, LevelOver, Zenon
    <2>3. Fine(t, c, Ends(c, e, o + Len(q), Stk(s), Mem(s)))
      BY <1>1, <1>4, <1>7, <1>8, <2>1, <2>2, SMTT(30) DEF Ending
    <2>. QED BY <1>5, <2>3, Zenon
  <1>9. \A t \in State : Ended(t, x, p + Len(CodeOf(a)), Stk(s), Mem(s)) => Fine(t, c, B)
    BY <1>3, <1>8
  <1>10. Exact /\ Bad(x, Mem(s)) => Bad(e, Mem(s))
    BY <1>7
  <1>11. Fine(s, c, B)
    BY <1>1, <1>4, <1>6, <1>9, <1>10, RunPart
  <1>. QED BY <1>4, <1>5, <1>11, Zenon

\* The last instruction is done.
LEMMA Finished ==
  ASSUME NEW c, NEW e, NEW p, NEW k, NEW m, NEW t \in State, Pc(t) = p + 1, Over(Stk(t), k),
         Exact => Got(e, m, Reg(t)["rax"], Mem(t))
  PROVE  Fine(t, c, Ends(c, e, p, k, m))
PROOF
  BY EndsFacts, Zenon DEF Ended
-----------------------------------------------------------------------------
(***************************************************************************)
(* Leaves, unary operators, assignments and commas.                        *)
(***************************************************************************)
LEMMA StateWords ==
  ASSUME NEW s \in State
  PROVE  /\ Reg(s)["rax"] \in Word /\ Reg(s)["rcx"] \in Word /\ Reg(s)["rdx"] \in Word
         /\ \A x \in Names : Mem(s)[x] \in Word
PROOF
  <1>1. Reg(s) \in RegFile /\ Mem(s) \in Memory
    BY StateFacts
  <1>2. Reg(s)["rax"] \in Word /\ Reg(s)["rcx"] \in Word /\ Reg(s)["rdx"] \in Word
    BY <1>1, RegFacts DEF RegFile
  <1>3. \A x \in Names : Mem(s)[x] \in Word
    BY <1>1 DEF Memory
  <1>. QED BY <1>2, <1>3

\* Where the instruction of a constant or a variable stands.
LEMMA LeafPlace ==
  ASSUME NEW o, NEW a, NEW i, NEW l, NEW c, Whole(c), NEW p, Placed(c, CodeOf(LeafCx(o, a, i, l)), p),
         NEW s, Pc(s) = p + 1
  PROVE  Here(c, s, o, a, i) /\ p + Len(CodeOf(LeafCx(o, a, i, l))) = Pc(s)
PROOF
  <1>1. CodeOf(LeafCx(o, a, i, l)) = One(I(o, a, i))
    BY CxFacts, SMTT(30) DEF LeafCx
  <1>2. Placed(c, One(I(o, a, i)), p)
    BY <1>1, Zenon
  <1>3. Here(c, s, o, a, i) /\ p + Len(One(I(o, a, i))) = p + 1
    BY <1>2, HereOne
  <1>. QED BY <1>1, <1>3, Zenon

\* The code of a constant does.
LEMMA ConstWorks ==
  ASSUME NEW e, Kind(e, "const"), NEW i, NEW l
  PROVE  Works(e, LeafCx("mov", e[2], i, l), i)
PROOF
  <1>1. SUFFICES ASSUME NEW c, NEW p, NEW s, Whole(c), Placed(c, CodeOf(LeafCx("mov", e[2], i, l)), p),
                        s \in State, Pc(s) = p + 1, Level(i, Stk(s))
                 PROVE  Fine(s, c, Ends(c, e, p + Len(CodeOf(LeafCx("mov", e[2], i, l))), Stk(s), Mem(s)))
    BY SMTT(30) DEF Works
  <1>2. Here(c, s, "mov", e[2], i) /\ p + Len(CodeOf(LeafCx("mov", e[2], i, l))) = Pc(s)
    BY <1>1, LeafPlace, SMTT(30)
  <1>3. PICK v \in Word : v = e[2]
    BY ConstFacts
  <1>4. PICK t : t = SetReg(s, "rax", v)
    OBVIOUS
  <1>5. t \in State /\ Pc(t) = Pc(s) + 1 /\ Reg(t)["rax"] = v /\ Stk(t) = Stk(s) /\ Mem(t) = Mem(s)
    BY <1>1, <1>4, RegFacts, SetRegFacts
  <1>6. Stk(s) \in Seq(Word) /\ Mem(s) \in Memory
    BY <1>1, StateFacts
  <1>7. Over(Stk(t), Stk(s))
    BY <1>5, <1>6, OverFacts
  <1>8. Yields(e, Mem(s), e[2], Mem(s))
    BY <1>6, ConstYields, Zenon
  <1>9. Got(e, Mem(s), Reg(t)["rax"], Mem(t))
    BY <1>3, <1>5, <1>8, YieldsGot
  <1>10. Fine(t, c, Ends(c, e, Pc(s), Stk(s), Mem(s)))
    BY <1>5, <1>7, <1>9, Finished, Zenon
  <1>11. Fine(SetReg(s, "rax", e[2]), c, Ends(c, e, Pc(s), Stk(s), Mem(s)))
    BY <1>3, <1>4, <1>10
  <1>12. Fine(s, c, Ends(c, e, Pc(s), Stk(s), Mem(s)))
    BY <1>1, <1>2, <1>11, MovStep, Zenon
  <1>. QED BY <1>2, <1>12, Zenon

\* The code of a variable does.
LEMMA VarWorks ==
  ASSUME NEW e, Kind(e, "var"), NEW i, NEW l
  PROVE  Works(e, LeafCx("load", e[2], i, l), i)
PROOF
  <1>1. SUFFICES ASSUME NEW c, NEW p, NEW s, Whole(c), Placed(c, CodeOf(LeafCx("load", e[2], i, l)), p),
                        s \in State, Pc(s) = p + 1, Level(i, Stk(s))
                 PROVE  Fine(s, c, Ends(c, e, p + Len(CodeOf(LeafCx("load", e[2], i, l))), Stk(s), Mem(s)))
    BY SMTT(30) DEF Works
  <1>2. Here(c, s, "load", e[2], i) /\ p + Len(CodeOf(LeafCx("load", e[2], i, l))) = Pc(s)
    BY <1>1, LeafPlace, SMTT(30)
  <1>3. PICK v \in Word : v = Mem(s)[e[2]]
    BY <1>1, VarFacts, StateWords
  <1>4. PICK t : t = SetReg(s, "rax", v)
    OBVIOUS
  <1>5. t \in State /\ Pc(t) = Pc(s) + 1 /\ Reg(t)["rax"] = v /\ Stk(t) = Stk(s) /\ Mem(t) = Mem(s)
    BY <1>1, <1>4, RegFacts, SetRegFacts
  <1>6. Stk(s) \in Seq(Word) /\ Mem(s) \in Memory
    BY <1>1, StateFacts
  <1>7. Over(Stk(t), Stk(s))
    BY <1>5, <1>6, OverFacts
  <1>8. Yields(e, Mem(s), Mem(s)[e[2]], Mem(s))
    BY <1>6, VarYields, Zenon
  <1>9. Got(e, Mem(s), Reg(t)["rax"], Mem(t))
    BY <1>3, <1>5, <1>8, YieldsGot
  <1>10. Fine(t, c, Ends(c, e, Pc(s), Stk(s), Mem(s)))
    BY <1>5, <1>7, <1>9, Finished, Zenon
  <1>11. Fine(SetReg(s, "rax", Mem(s)[e[2]]), c, Ends(c, e, Pc(s), Stk(s), Mem(s)))
    BY <1>3, <1>4, <1>10
  <1>12. Fine(s, c, Ends(c, e, Pc(s), Stk(s), Mem(s)))
    BY <1>1, <1>2, <1>11, LoadStep, Zenon
  <1>. QED BY <1>2, <1>12, Zenon

\* The value of a unary operator, by C's rule.
LEMMA GotUnary ==
  ASSUME NEW e, Kind(e, "unary"), NEW m \in Memory, NEW v, NEW n, ~Void(e[3]), Got(e[3], m, v, n)
  PROVE  Got(e, m, UnaryValue(e, v), n)
PROOF
  <1>1. Bad(e[3], m) \/ Yields(e[3], m, v, n)
    BY GotValue
  <1>2. CASE Bad(e[3], m)
    BY <1>2, UnaryYields, Zenon DEF Got
  <1>3. CASE Yields(e[3], m, v, n)
    BY <1>3, UnaryYields, YieldsGot, Zenon
  <1>. QED BY <1>1, <1>2, <1>3

\* A variable has its value, whatever else is evaluated.
LEMMA GotVar ==
  ASSUME NEW e, Kind(e, "var"), NEW m \in Memory, NEW v, NEW n, ~Void(e), Got(e, m, v, n)
  PROVE  v = m[e[2]] /\ n = m
PROOF
  <1>0. e \in Exps
    BY DEF Kind
  <1>1. Yields(e, m, v, n)
    BY GotValue, VarYields
  <1>2. \A o : o \in C(e, m) <=> o = Out(m[e[2]], m)
    BY <1>0, CRule, VarRule, Zenon
  <1>3. Out(v, n) = Out(m[e[2]], m)
    BY <1>1, <1>2, Zenon DEF Yields
  <1>. QED BY <1>3, OutFacts

\* The code of ! behind its operand.
LEMMA NotEnding ==
  ASSUME NEW e, Kind(e, "unary"), e[2] = "!", ~Void(e[3]), NEW j \in Int
  PROVE  Ending(e[3], e, J(UnaryCode(e), j), j)
PROOF
  <1>0. PICK z \in Plain : z = UnaryCode(e) /\ z = Trio("cmp", "zero", "mov", 0, "set", "==")
    <2>1. UnaryCode(e) = Trio("cmp", "zero", "mov", 0, "set", "==")
      BY UnaryCodes, Zenon DEF Trio, CompareZero
    <2>. QED BY <2>1, UnaryCodeType
  <1>1. SUFFICES ASSUME NEW c, NEW p, NEW t, NEW k, NEW m, Whole(c), Placed(c, J(z, j), p), t \in State,
                        m \in Memory, k \in Seq(Word), Pc(t) = p + 1, Level(j, Stk(t)), Over(Stk(t), k),
                        Exact => Got(e[3], m, Reg(t)["rax"], Mem(t))
                 PROVE  Fine(t, c, Ends(c, e, p + Len(J(z, j)), k, m))
    BY <1>0, SMTT(30) DEF Ending
  <1>2. /\ \A s : Pc(s) = p + 1 => Here(c, s, "cmp", "zero", j)
        /\ \A s : Pc(s) = p + 1 + 1 => Here(c, s, "mov", 0, j)
        /\ \A s : Pc(s) = p + 1 + 1 + 1 => Here(c, s, "set", "==", j)
        /\ p + Len(J(z, j)) = p + 1 + 1 + 1
    BY <1>0, <1>1, HereTrio
  <1>3. PICK B : B = Ends(c, e, p + 1 + 1 + 1, k, m)
    OBVIOUS
  <1>4. PICK v : v = Reg(t)["rax"]
    OBVIOUS
  <1>5. ASSUME NEW u, Computed(t, u, Pc(t) + 1 + 1 + 1, Bool(Holds("==", Reg(t)["rax"], 0)))
        PROVE  Fine(u, c, B)
    <2>1. /\ u \in State /\ Pc(u) = p + 1 + 1 + 1 + 1 /\ Stk(u) = Stk(t) /\ Mem(u) = Mem(t)
          /\ Reg(u)["rax"] = Bool(Holds("==", v, 0))
      BY <1>1, <1>4, <1>5, Zenon DEF Computed
    <2>2. UnaryValue(e, v) = Bool(Holds("==", v, 0))
      BY DEF UnaryValue, Holds, Bool
    <2>3. Exact => Got(e, m, UnaryValue(e, v), Mem(t))
      BY <1>1, <1>4, GotUnary
    <2>4. Over(Stk(u), k) /\ (Exact => Got(e, m, Reg(u)["rax"], Mem(u)))
      BY <1>1, <2>1, <2>2, <2>3
    <2>. QED BY <1>3, <2>1, <2>4, Finished, Zenon
  <1>6. 0 \in Word /\ 0 = IF "zero" = "zero" THEN 0 ELSE Reg(t)["zero"]
    BY WordFacts
  <1>7. /\ Here(c, t, "cmp", "zero", j) /\ \A u : Pc(u) = Pc(t) + 1 => Here(c, u, "mov", 0, j)
        /\ \A u : Pc(u) = Pc(t) + 1 + 1 => Here(c, u, "set", "==", j)
    BY <1>1, <1>2
  <1>8. Fine(t, c, B)
    BY <1>1, <1>5, <1>6, <1>7, CompareTail, Zenon
  <1>. QED BY <1>2, <1>3, <1>8, Zenon

\* The code of - and ~ behind their operand.
LEMMA NegationEnding ==
  ASSUME NEW e, Kind(e, "unary"), e[2] = "-" \/ e[2] = "~", ~Void(e[3]), NEW j \in Int
  PROVE  Ending(e[3], e, J(UnaryCode(e), j), j)
PROOF
  <1>0. PICK z \in Plain : z = UnaryCode(e) /\ z = Uno("alu1", e[2])
    <2>1. UnaryCode(e) = Uno("alu1", e[2])
      BY UnaryCodes, Zenon DEF Uno
    <2>. QED BY <2>1, UnaryCodeType
  <1>1. SUFFICES ASSUME NEW c, NEW p, NEW t, NEW k, NEW m, Whole(c), Placed(c, J(z, j), p), t \in State,
                        m \in Memory, k \in Seq(Word), Pc(t) = p + 1, Level(j, Stk(t)), Over(Stk(t), k),
                        Exact => Got(e[3], m, Reg(t)["rax"], Mem(t))
                 PROVE  Fine(t, c, Ends(c, e, p + Len(J(z, j)), k, m))
    BY <1>0, SMTT(30) DEF Ending
  <1>2. Here(c, t, "alu1", e[2], j) /\ p + Len(J(z, j)) = p + 1
    BY <1>0, <1>1, HereUno
  <1>3. PICK v \in Word : v = Reg(t)["rax"]
    BY <1>1, StateWords
  <1>4. PICK w \in Word : w = Alu1(e[2], v)
    BY Alu1Word
  <1>5. PICK u : u = SetReg(t, "rax", w)
    OBVIOUS
  <1>6. u \in State /\ Pc(u) = Pc(t) + 1 /\ Reg(u)["rax"] = w /\ Stk(u) = Stk(t) /\ Mem(u) = Mem(t)
    <2>1. "rax" \in Regs /\ t \in State /\ w \in Word
      BY <1>1, RegFacts
    <2>. QED BY <1>5, <2>1, SetRegFacts
  <1>7. UnaryValue(e, v) = w
    BY <1>4 DEF UnaryValue
  <1>8. Exact => Got(e, m, UnaryValue(e, v), Mem(t))
    BY <1>1, <1>3, GotUnary
  <1>9. Pc(u) = p + 1 + 1 /\ Over(Stk(u), k) /\ (Exact => Got(e, m, Reg(u)["rax"], Mem(u)))
    BY <1>1, <1>6, <1>7, <1>8
  <1>10. Fine(u, c, Ends(c, e, p + 1, k, m))
    BY <1>6, <1>9, Finished, Zenon
  <1>11. Fine(SetReg(t, "rax", Alu1(e[2], Reg(t)["rax"])), c, Ends(c, e, p + 1, k, m))
    BY <1>3, <1>4, <1>5, <1>10
  <1>12. Fine(t, c, Ends(c, e, p + 1, k, m))
    BY <1>1, <1>2, <1>11, Alu1Step, Zenon
  <1>. QED BY <1>2, <1>12, Zenon

\* The code of ++ and -- in front, behind that of the variable.
LEMMA PrefixEnding ==
  ASSUME NEW e, Kind(e, "prefix"), ~Void(e[3]), NEW j \in Int
  PROVE  Ending(e[3], e, J(UnaryCode(e), j), j)
PROOF
  <1>0. PICK z \in Plain : z = UnaryCode(e) /\ z = Duo("alu1", e[2], "store", e[3][2])
    <2>1. UnaryCode(e) = Duo("alu1", e[2], "store", e[3][2])
      BY UnaryCodes, Zenon DEF Duo
    <2>. QED BY <2>1, UnaryCodeType
  <1>1. SUFFICES ASSUME NEW c, NEW p, NEW t, NEW k, NEW m, Whole(c), Placed(c, J(z, j), p), t \in State,
                        m \in Memory, k \in Seq(Word), Pc(t) = p + 1, Level(j, Stk(t)), Over(Stk(t), k),
                        Exact => Got(e[3], m, Reg(t)["rax"], Mem(t))
                 PROVE  Fine(t, c, Ends(c, e, p + Len(J(z, j)), k, m))
    BY <1>0, SMTT(30) DEF Ending
  <1>2. /\ \A s : Pc(s) = p + 1 => Here(c, s, "alu1", e[2], j)
        /\ \A s : Pc(s) = p + 1 + 1 => Here(c, s, "store", e[3][2], j)
        /\ p + Len(J(z, j)) = p + 1 + 1
    BY <1>0, <1>1, HereDuo
  <1>3. PICK v \in Word : v = Reg(t)["rax"]
    BY <1>1, StateWords
  <1>4. PICK w \in Word : w = Alu1(e[2], v)
    BY StepFacts, Alu1Word
  <1>5. PICK u : u = SetReg(t, "rax", w)
    OBVIOUS
  <1>6. u \in State /\ Pc(u) = Pc(t) + 1 /\ Reg(u)["rax"] = w /\ Stk(u) = Stk(t) /\ Mem(u) = Mem(t)
    BY <1>1, <1>5, RegFacts, SetRegFacts
  <1>7. PICK x \in Names : x = e[3][2]
    BY StepFacts
  <1>8. PICK s : s = SetMem(u, x, w)
    OBVIOUS
  <1>9. s \in State /\ Pc(s) = Pc(u) + 1 /\ Reg(s) = Reg(u) /\ Stk(s) = Stk(u) /\ Mem(s) = With(Mem(u), x, w)
    BY <1>6, <1>8, SetMemFacts
  <1>10. Exact => v = m[x] /\ Mem(t) = m
    <2>1. Kind(e[3], "var")
      BY StepFacts
    <2>2. ASSUME Exact PROVE Got(e[3], m, v, Mem(t))
      BY <1>1, <1>3, <2>2
    <2>. QED BY <1>1, <1>7, <2>1, <2>2, GotVar
  <1>11. Exact => Got(e, m, Reg(s)["rax"], Mem(s))
    <2>1. Yields(e, m, Alu1(e[2], m[e[3][2]]), With(m, e[3][2], Alu1(e[2], m[e[3][2]])))
      BY <1>1, PrefixYields, Zenon
    <2>2. ASSUME Exact PROVE w = Alu1(e[2], m[e[3][2]]) /\ Reg(s)["rax"] = w /\ Mem(s) = With(m, e[3][2], w)
      BY <1>4, <1>6, <1>7, <1>9, <1>10, <2>2
    <2>. QED BY <2>1, <2>2, YieldsGot
  <1>12. Pc(s) = p + 1 + 1 + 1 /\ Over(Stk(s), k)
    BY <1>1, <1>6, <1>9
  <1>13. PICK B : B = Ends(c, e, p + 1 + 1, k, m)
    OBVIOUS
  <1>14. Fine(s, c, B)
    BY <1>9, <1>11, <1>12, <1>13, Finished, Zenon
  <1>15. Fine(SetMem(u, e[3][2], Reg(u)["rax"]), c, B)
    BY <1>6, <1>7, <1>8, <1>14
  <1>16. Here(c, u, "store", e[3][2], j) /\ Level(j, Stk(u))
    BY <1>1, <1>2, <1>6
  <1>17. Fine(u, c, B)
    BY <1>6, <1>15, <1>16, StoreStep, Zenon
  <1>18. Fine(SetReg(t, "rax", Alu1(e[2], Reg(t)["rax"])), c, B)
    BY <1>3, <1>4, <1>5, <1>17
  <1>19. Fine(t, c, B)
    BY <1>1, <1>2, <1>18, Alu1Step, Zenon
  <1>. QED BY <1>2, <1>13, <1>19, Zenon

\* The code of ++ and -- behind: eax keeps the value before.
LEMMA SuffixEnding ==
  ASSUME NEW e, Kind(e, "suffix"), ~Void(e[3]), NEW j \in Int
  PROVE  Ending(e[3], e, J(UnaryCode(e), j), j)
PROOF
  <1>0. PICK o : (e[2] = "++" /\ o = "inc") \/ (e[2] = "--" /\ o = "dec")
    BY StepFacts
  <1>a. PICK z \in Plain : z = UnaryCode(e) /\ z = Uno(o, e[3][2])
    <2>1. UnaryCode(e) = Uno(o, e[3][2])
      BY <1>0, UnaryCodes, Zenon DEF Uno
    <2>. QED BY <2>1, UnaryCodeType
  <1>1. SUFFICES ASSUME NEW c, NEW p, NEW t, NEW k, NEW m, Whole(c), Placed(c, J(z, j), p), t \in State,
                        m \in Memory, k \in Seq(Word), Pc(t) = p + 1, Level(j, Stk(t)), Over(Stk(t), k),
                        Exact => Got(e[3], m, Reg(t)["rax"], Mem(t))
                 PROVE  Fine(t, c, Ends(c, e, p + Len(J(z, j)), k, m))
    BY <1>a, SMTT(30) DEF Ending
  <1>2. Here(c, t, o, e[3][2], j) /\ p + Len(J(z, j)) = p + 1
    BY <1>a, <1>1, HereUno
  <1>3. PICK x \in Names : x = e[3][2]
    BY StepFacts
  <1>4. PICK w \in Word : w = Alu1(e[2], Mem(t)[x])
    BY <1>1, StepFacts, StateWords, Alu1Word
  <1>5. PICK s : s = SetMem(t, x, w)
    OBVIOUS
  <1>6. s \in State /\ Pc(s) = Pc(t) + 1 /\ Reg(s) = Reg(t) /\ Stk(s) = Stk(t) /\ Mem(s) = With(Mem(t), x, w)
    BY <1>1, <1>4, <1>5, SetMemFacts
  <1>7. Exact => Reg(t)["rax"] = m[x] /\ Mem(t) = m
    <2>1. Kind(e[3], "var")
      BY StepFacts
    <2>. QED BY <1>1, <1>3, <2>1, GotVar
  <1>8. Exact => Got(e, m, Reg(s)["rax"], Mem(s))
    <2>1. Yields(e, m, m[e[3][2]], With(m, e[3][2], Alu1(e[2], m[e[3][2]])))
      BY <1>1, SuffixYields, Zenon
    <2>2. ASSUME Exact PROVE Reg(s)["rax"] = m[e[3][2]] /\ Mem(s) = With(m, e[3][2], Alu1(e[2], m[e[3][2]]))
      BY <1>3, <1>4, <1>6, <1>7, <2>2
    <2>. QED BY <2>1, <2>2, YieldsGot
  <1>9. PICK B : B = Ends(c, e, p + 1, k, m)
    OBVIOUS
  <1>10. Pc(s) = p + 1 + 1 /\ Over(Stk(s), k)
    BY <1>1, <1>6
  <1>11. Fine(s, c, B)
    BY <1>6, <1>8, <1>9, <1>10, Finished, Zenon
  <1>12. Fine(SetMem(t, e[3][2], Alu1(e[2], Mem(t)[e[3][2]])), c, B)
    BY <1>3, <1>4, <1>5, <1>11
  <1>13. CASE o = "inc"
    <2>1. e[2] = "++" /\ Here(c, t, "inc", e[3][2], j)
      BY <1>0, <1>2, <1>13
    <2>2. Fine(SetMem(t, e[3][2], Alu1("++", Mem(t)[e[3][2]])), c, B)
      BY <1>12, <2>1
    <2>3. Fine(t, c, B)
      BY <1>1, <2>1, <2>2, IncStep, Zenon
    <2>. QED BY <1>2, <1>9, <2>3, Zenon
  <1>14. CASE o = "dec"
    <2>1. e[2] = "--" /\ Here(c, t, "dec", e[3][2], j)
      BY <1>0, <1>2, <1>14
    <2>2. Fine(SetMem(t, e[3][2], Alu1("--", Mem(t)[e[3][2]])), c, B)
      BY <1>12, <2>1
    <2>3. Fine(t, c, B)
      BY <1>1, <2>1, <2>2, DecStep, Zenon
    <2>. QED BY <1>2, <1>9, <2>3, Zenon
  <1>. QED BY <1>0, <1>13, <1>14, Zenon
\* The code of an assignment behind that of its value.
LEMMA AssignEnding ==
  ASSUME NEW e, IsAssign(e), ~Void(e[4]), NEW j \in Int
  PROVE  Ending(e[4], e, One(I("store", e[3][2], j)), j)
PROOF
  <1>0. PICK q : q = One(I("store", e[3][2], j))
    OBVIOUS
  <1>1. SUFFICES ASSUME NEW c, NEW p, NEW t, NEW k, NEW m, Whole(c), Placed(c, q, p), t \in State,
                        m \in Memory, k \in Seq(Word), Pc(t) = p + 1, Level(j, Stk(t)), Over(Stk(t), k),
                        Exact => Got(e[4], m, Reg(t)["rax"], Mem(t))
                 PROVE  Fine(t, c, Ends(c, e, p + Len(q), k, m))
    BY <1>0, SMTT(30) DEF Ending
  <1>2. Here(c, t, "store", e[3][2], j) /\ p + Len(q) = p + 1
    BY <1>0, <1>1, HereOne
  <1>3. PICK x \in Names : x = e[3][2]
    <2>1. e[3][2] \in Names
      BY BinaryFacts, Zenon DEF IsAssign
    <2>. QED BY <2>1
  <1>4. PICK w \in Word : w = Reg(t)["rax"]
    BY <1>1, StateWords
  <1>5. PICK s : s = SetMem(t, x, w)
    OBVIOUS
  <1>6. s \in State /\ Pc(s) = Pc(t) + 1 /\ Reg(s) = Reg(t) /\ Stk(s) = Stk(t) /\ Mem(s) = With(Mem(t), x, w)
    BY <1>1, <1>4, <1>5, SetMemFacts
  <1>7. ASSUME Exact PROVE Got(e, m, w, With(Mem(t), x, w))
    <2>1. Bad(e[4], m) \/ Yields(e[4], m, w, Mem(t))
      BY <1>1, <1>4, <1>7, GotValue
    <2>2. CASE Bad(e[4], m)
      BY <1>1, <2>2, AssignYields, Zenon DEF Got
    <2>3. CASE Yields(e[4], m, w, Mem(t))
      <3>1. Yields(e, m, w, With(Mem(t), e[3][2], w))
        BY <1>1, <2>3, AssignYields, Zenon
      <3>. QED BY <1>3, <3>1, YieldsGot
    <2>. QED BY <2>1, <2>2, <2>3
  <1>9. PICK B : B = Ends(c, e, p + 1, k, m)
    OBVIOUS
  <1>10. /\ Pc(s) = p + 1 + 1 /\ Over(Stk(s), k)
         /\ Exact => Got(e, m, Reg(s)["rax"], Mem(s))
    BY <1>1, <1>4, <1>6, <1>7
  <1>11. Fine(s, c, B)
    BY <1>6, <1>9, <1>10, Finished, Zenon
  <1>12. Fine(SetMem(t, e[3][2], Reg(t)["rax"]), c, B)
    BY <1>3, <1>4, <1>5, <1>11
  <1>13. Fine(t, c, B)
    BY <1>1, <1>2, <1>12, StoreStep, Zenon
  <1>. QED BY <1>0, <1>2, <1>9, <1>13, Zenon

\* The code of an assignment does.
LEMMA AssignWorks ==
  ASSUME NEW e, IsAssign(e), NEW a, NEW i, NEW l, Layout(a, i, l), Works(e[4], a, i), ~Void(e[4])
  PROVE  Works(e, AssignCx(a, e[3][2]), i)
PROOF
  <1>1. PICK j \in Int : j = IndexOf(a)
    BY LayoutFacts
  <1>2. PICK q : q = One(I("store", e[3][2], j))
    OBVIOUS
  <1>3. q \in Seq(Instr)
    <2>1. e[3][2] \in Args /\ "store" \in Ops
      BY OperandFacts, ArgFacts, OpFacts
    <2>2. I("store", e[3][2], j) \in Instr
      BY <2>1, InstrType
    <2>. QED BY <1>2, <2>2, OneSeq
  <1>4. Ending(e[4], e, q, IndexOf(a))
    BY <1>1, <1>2, AssignEnding
  <1>5. CodeOf(AssignCx(a, e[3][2])) = Cat(CodeOf(a), q)
    BY <1>1, <1>2, CxFacts DEF AssignCx
  <1>6. \A m \in Memory : Bad(e[4], m) => Bad(e, m)
    BY AssignYields
  <1>. QED BY <1>3, <1>4, <1>5, <1>6, Frame, Zenon

\* The code of unary operators does.
LEMMA UnaryWorks ==
  ASSUME NEW e, Kind(e, "unary") \/ Kind(e, "prefix") \/ Kind(e, "suffix"),
         NEW a, NEW i, NEW l, Layout(a, i, l), Works(e[3], a, i), ~Void(e[3])
  PROVE  Works(e, UnaryCx(a, UnaryCode(e)), i)
PROOF
  <1>1. PICK j \in Int : j = IndexOf(a)
    BY LayoutFacts
  <1>2. PICK q \in Seq(Instr) : q = J(UnaryCode(e), j)
    BY UnaryCodeType, JSeq
  <1>3. Ending(e[3], e, J(UnaryCode(e), j), j)
    <2>1. CASE Kind(e, "unary")
      <3>1. e[2] = "!" \/ e[2] = "-" \/ e[2] = "~"
        BY <2>1, UnaryFacts
      <3>. QED BY <2>1, <3>1, NotEnding, NegationEnding, Zenon
    <2>2. CASE Kind(e, "prefix")
      BY <2>2, PrefixEnding, Zenon
    <2>3. CASE Kind(e, "suffix")
      BY <2>3, SuffixEnding, Zenon
    <2>. QED BY <2>1, <2>2, <2>3
  <1>4. Ending(e[3], e, q, IndexOf(a))
    BY <1>1, <1>2, <1>3
  <1>5. CodeOf(UnaryCx(a, UnaryCode(e))) = Cat(CodeOf(a), q)
    BY <1>1, <1>2, CxFacts DEF UnaryCx
  <1>6. \A m \in Memory : Bad(e[3], m) => Bad(e, m)
    <2>1. CASE Kind(e, "unary")
      BY <2>1, UnaryYields
    <2>2. CASE Kind(e, "prefix") \/ Kind(e, "suffix")
      <3>1. Kind(e[3], "var")
        BY <2>2, StepFacts
      <3>. QED BY <3>1, VarYields, Zenon
    <2>. QED BY <2>1, <2>2
  <1>. QED BY <1>4, <1>5, <1>6, Frame, Zenon

\* What two parts, one behind the other, give.
LEMMA CommaGot ==
  ASSUME NEW e, IsComma(e), NEW m \in Memory, NEW v, NEW n, Got(e[3], m, v, n)
  PROVE  /\ Bad(e[4], n) => Bad(e, m)
         /\ \A w, t : Got(e[4], n, w, t) => Got(e, m, w, t)
PROOF
  <1>1. Bad(e[3], m) \/ \E w : Yields(e[3], m, w, n)
    BY GotValue
  <1>2. Bad(e[4], n) => Bad(e, m)
    BY <1>1, CommaYields, Zenon
  <1>3. ASSUME NEW w, NEW t, Got(e[4], n, w, t) PROVE Got(e, m, w, t)
    <2>1. CASE Bad(e[3], m) \/ Bad(e[4], n)
      BY <1>2, <2>1, CommaYields, Zenon DEF Got
    <2>2. CASE ~Bad(e[3], m) /\ ~Bad(e[4], n)
      <3>1. PICK x : Yields(e[3], m, x, n)
        BY <1>1, <2>2
      <3>2. PICK y : Yields(e[4], n, y, t) /\ (y = w \/ Void(e[4]))
        BY <1>3, <2>2, Zenon DEF Got
      <3>3. Yields(e, m, y, t)
        BY <3>1, <3>2, CommaYields, Zenon
      <3>4. Void(e[4]) => Void(e)
        <4>1. U(e, 1) = U(e[3], 0) \cup U(e[4], 1)
          BY OperandFacts, URules
        <4>. QED BY <4>1 DEF Void
      <3>. QED BY <3>2, <3>3, <3>4, Zenon DEF Got
    <2>. QED BY <2>1, <2>2
  <1>. QED BY <1>2, <1>3

\* The code of a comma does.
LEMMA CommaWorks ==
  ASSUME NEW e, IsComma(e), NEW a, NEW b, NEW i, NEW l, Layout(a, i, l),
         Layout(b, IndexOf(a), LabelsOf(a)), Works(e[3], a, i), Works(e[4], b, IndexOf(a))
  PROVE  Works(e, CommaCx(a, b), i)
PROOF
  <1>1. CodeOf(CommaCx(a, b)) = Cat(CodeOf(a), CodeOf(b))
    BY CxFacts DEF CommaCx
  <1>2. CodeOf(b) \in Seq(Instr)
    BY LayoutFacts
  <1>3. Ending(e[3], e, CodeOf(b), IndexOf(a))
    <2>1. SUFFICES ASSUME NEW c, NEW p, NEW t, NEW k, NEW m, Whole(c), Placed(c, CodeOf(b), p), t \in State,
                          m \in Memory, k \in Seq(Word), Pc(t) = p + 1, Level(IndexOf(a), Stk(t)),
                          Over(Stk(t), k), Exact => Got(e[3], m, Reg(t)["rax"], Mem(t))
                   PROVE  Fine(t, c, Ends(c, e, p + Len(CodeOf(b)), k, m))
      BY SMTT(30) DEF Ending
    <2>2. PICK B : B = Ends(c, e, p + Len(CodeOf(b)), k, m) /\ Halts(c, e, m, B)
      BY EndsFacts
    <2>3. Exact /\ Bad(e[4], Mem(t)) => Bad(e, m)
      BY <2>1, CommaGot
    <2>4. ASSUME NEW u \in State, Ended(u, e[4], p + Len(CodeOf(b)), Stk(t), Mem(t)) PROVE Fine(u, c, B)
      <3>1. /\ Pc(u) = p + Len(CodeOf(b)) + 1 /\ Over(Stk(u), Stk(t))
            /\ Exact => Got(e[4], Mem(t), Reg(u)["rax"], Mem(u))
        BY <2>4, Zenon DEF Ended
      <3>2. Exact => Got(e, m, Reg(u)["rax"], Mem(u))
        BY <2>1, <3>1, CommaGot
      <3>3. Over(Stk(u), k)
        BY <2>1, <3>1, StateFacts, OverFacts
      <3>. QED BY <2>2, <3>1, <3>2, <3>3, Finished, Zenon
    <2>5. Fine(t, c, B)
      BY <2>1, <2>2, <2>3, <2>4, RunPart
    <2>. QED BY <2>2, <2>5
  <1>4. \A m \in Memory : Bad(e[3], m) => Bad(e, m)
    BY CommaYields
  <1>. QED BY <1>1, <1>2, <1>3, <1>4, Frame, Zenon
-----------------------------------------------------------------------------
(***************************************************************************)
(* && and ||.                                                              *)
(***************************************************************************)
LEMMA CatAssociative ==
  ASSUME NEW s \in Seq(Instr), NEW t \in Seq(Instr), NEW u \in Seq(Instr)
  PROVE  Cat(Cat(s, t), u) = Cat(s, Cat(t, u))
PROOF
  <1>1. PICK x \in Seq(Instr), y \in Seq(Instr) : x = Cat(Cat(s, t), u) /\ y = Cat(s, Cat(t, u))
    BY CatSeq
  <1>2. Len(x) = Len(y) /\ \A k \in 1 .. Len(x) : x[k] = y[k]
    BY <1>1 DEF Cat
  <1>3. /\ DOMAIN x = 1 .. Len(x) /\ DOMAIN y = 1 .. Len(y)
        /\ x = [k \in DOMAIN x |-> x[k]] /\ y = [k \in DOMAIN y |-> y[k]]
    OBVIOUS
  <1>4. x = y
    BY <1>2, <1>3
  <1>. QED BY <1>1, <1>4, Zenon

\* The jump is taken when the left operand decides.
LEMMA JumpDecides ==
  ASSUME NEW e
  PROVE  \/ JumpOf(e) = "je" /\ \A v : Decides(e, v) <=> v = 0
         \/ JumpOf(e) = "jne" /\ \A v : Decides(e, v) <=> v # 0
PROOF
  <1>1. CASE e[2] = "&&"
    BY <1>1, Zenon DEF JumpOf, Decides
  <1>2. CASE e[2] # "&&"
    BY <1>2, Zenon DEF JumpOf, Decides
  <1>. QED BY <1>1, <1>2

\* What it decides is whether it is not zero.
LEMMA DecidedIs ==
  ASSUME NEW e, NEW v, Decides(e, v)
  PROVE  Decided(e) = Bool(v # 0)
PROOF
  <1>1. CASE e[2] = "&&"
    BY <1>1, Zenon DEF Decides, Decided, Bool
  <1>2. CASE e[2] # "&&"
    BY <1>2, Zenon DEF Decides, Decided, Bool
  <1>. QED BY <1>1, <1>2

\* The value of && and ||, by C's rules.
LEMMA LogicGot ==
  ASSUME NEW e, IsLogic(e), NEW m \in Memory, NEW v, NEW n, ~Void(e[3]), ~Void(e[4]), Got(e[3], m, v, n)
  PROVE  /\ Decides(e, v) => Got(e, m, Bool(v # 0), n)
         /\ ~Decides(e, v) /\ Bad(e[4], n) => Bad(e, m)
         /\ \A w, t : ~Decides(e, v) /\ Got(e[4], n, w, t) => Got(e, m, Bool(w # 0), t)
PROOF
  <1>1. Bad(e[3], m) \/ Yields(e[3], m, v, n)
    BY GotValue
  <1>2. CASE Bad(e[3], m)
    BY <1>2, LogicYields, Zenon DEF Got
  <1>3. CASE Yields(e[3], m, v, n)
    <2>1. Decides(e, v) => Got(e, m, Bool(v # 0), n)
      <3>1. Decides(e, v) => Yields(e, m, Decided(e), n)
        BY <1>3, LogicYields, Zenon
      <3>. QED BY <3>1, DecidedIs, YieldsGot, Zenon
    <2>2. ~Decides(e, v) /\ Bad(e[4], n) => Bad(e, m)
      BY <1>3, LogicYields, Zenon
    <2>3. ASSUME NEW w, NEW t, ~Decides(e, v), Got(e[4], n, w, t) PROVE Got(e, m, Bool(w # 0), t)
      <3>1. Bad(e[4], n) \/ Yields(e[4], n, w, t)
        BY <2>3, GotValue
      <3>2. CASE Bad(e[4], n)
        BY <2>2, <2>3, <3>2, Zenon DEF Got
      <3>3. CASE Yields(e[4], n, w, t)
        <4>1. Yields(e, m, Bool(w # 0), t)
          BY <1>3, <2>3, <3>3, LogicYields, Zenon
        <4>. QED BY <4>1, YieldsGot, Zenon
      <3>. QED BY <3>1, <3>2, <3>3
    <2>. QED BY <2>1, <2>2, <2>3, Zenon
  <1>. QED BY <1>1, <1>2, <1>3, Zenon

\* cmp $0, and the jump of e to the label l when the value decides.
LEMMA CompareJump ==
  ASSUME NEW c, NEW B, NEW s \in State, NEW e, NEW l, NEW i, Level(i, Stk(s)),
         Here(c, s, "cmp", "zero", i), \A u : Pc(u) = Pc(s) + 1 => Here(c, u, JumpOf(e), l, i),
         NEW x \in Nat, x = Targ(c, l), NEW v, v = Reg(s)["rax"],
         \A t \in State : Pc(t) = x /\ Low(Flg(t)) = v /\ High(Flg(t)) = 0 /\ Stk(t) = Stk(s)
                            /\ Mem(t) = Mem(s) /\ Decides(e, v) => Fine(t, c, B),
         \A t : Computed(s, t, Pc(s) + 1 + 1, v) /\ ~Decides(e, v) => Fine(t, c, B)
  PROVE  Fine(s, c, B)
PROOF
  <1>1. v \in Word /\ 0 \in Word
    BY StateWords, WordFacts
  <1>2. PICK u : u = SetFlg(s, v, 0)
    OBVIOUS
  <1>3. /\ u \in State /\ Pc(u) = Pc(s) + 1 /\ Low(Flg(u)) = v /\ High(Flg(u)) = 0 /\ Reg(u) = Reg(s)
        /\ Stk(u) = Stk(s) /\ Mem(u) = Mem(s) /\ Pc(u) + 1 \in Nat
    BY <1>1, <1>2, SetFlgFacts, StateFacts
  <1>4. Here(c, u, JumpOf(e), l, i) /\ Level(i, Stk(u))
    BY <1>3
  <1>5. PICK y \in Nat : y = IF Decides(e, v) THEN x ELSE Pc(u) + 1
    BY <1>3
  <1>6. PICK t : t = GoTo(u, y)
    OBVIOUS
  <1>7. t \in State /\ Pc(t) = y /\ Reg(t) = Reg(u) /\ Flg(t) = Flg(u) /\ Stk(t) = Stk(u) /\ Mem(t) = Mem(u)
    BY <1>3, <1>6, GoToFacts
  <1>8. Fine(t, c, B)
    <2>1. CASE Decides(e, v)
      <3>1. Pc(t) = x /\ Low(Flg(t)) = v /\ High(Flg(t)) = 0 /\ Stk(t) = Stk(s) /\ Mem(t) = Mem(s)
        BY <1>3, <1>5, <1>7, <2>1
      <3>. QED BY <1>7, <2>1, <3>1
    <2>2. CASE ~Decides(e, v)
      <3>1. Computed(s, t, Pc(s) + 1 + 1, v)
        BY <1>3, <1>5, <1>7, <2>2 DEF Computed
      <3>. QED BY <2>2, <3>1
    <2>. QED BY <2>1, <2>2
  <1>9. Fine(u, c, B)
    <2>1. CASE JumpOf(e) = "je" /\ (Decides(e, v) <=> v = 0)
      <3>1. t = GoTo(u, IF Low(Flg(u)) = High(Flg(u)) THEN Targ(c, l) ELSE Pc(u) + 1)
        BY <1>3, <1>5, <1>6, <2>1
      <3>2. Fine(GoTo(u, IF Low(Flg(u)) = High(Flg(u)) THEN Targ(c, l) ELSE Pc(u) + 1), c, B)
        BY <1>8, <3>1
      <3>3. Here(c, u, "je", l, i)
        BY <1>4, <2>1
      <3>. QED BY <1>3, <1>4, <3>2, <3>3, JeStep, Zenon
    <2>2. CASE JumpOf(e) = "jne" /\ (Decides(e, v) <=> v # 0)
      <3>1. t = GoTo(u, IF Low(Flg(u)) # High(Flg(u)) THEN Targ(c, l) ELSE Pc(u) + 1)
        BY <1>3, <1>5, <1>6, <2>2
      <3>2. Fine(GoTo(u, IF Low(Flg(u)) # High(Flg(u)) THEN Targ(c, l) ELSE Pc(u) + 1), c, B)
        BY <1>8, <3>1
      <3>3. Here(c, u, "jne", l, i)
        BY <1>4, <2>2
      <3>. QED BY <1>3, <1>4, <3>2, <3>3, JneStep, Zenon
    <2>. QED BY <2>1, <2>2, JumpDecides, Zenon
  <1>10. Fine(SetFlg(s, Reg(s)["rax"], IF "zero" = "zero" THEN 0 ELSE Reg(s)["zero"]), c, B)
    BY <1>2, <1>9
  <1>. QED BY <1>10, CmpStep, Zenon

\* label, mov $0, setne
LEMMA LabelTail ==
  ASSUME NEW c, NEW B, NEW s \in State, NEW i, Level(i, Stk(s)), NEW l, NEW n, Here(c, s, "label", l, i),
         Pc(s) = n, \A u : Pc(u) = n + 1 => Here(c, u, "mov", 0, i),
         \A u : Pc(u) = n + 1 + 1 => Here(c, u, "set", "!=", i),
         NEW v, Low(Flg(s)) = v, High(Flg(s)) = 0,
         \A t : Computed(s, t, n + 1 + 1 + 1, Bool(v # 0)) => Fine(t, c, B)
  PROVE  Fine(s, c, B)
PROOF
  <1>1. PICK u : u = GoTo(s, Pc(s) + 1)
    OBVIOUS
  <1>2. u \in State /\ Pc(u) = n + 1 /\ Flg(u) = Flg(s) /\ Stk(u) = Stk(s) /\ Mem(u) = Mem(s)
    BY <1>1, GoToFacts, StateFacts
  <1>3. Holds("!=", Low(Flg(u)), High(Flg(u))) <=> v # 0
    BY <1>2 DEF Holds
  <1>4. Bool(Holds("!=", Low(Flg(u)), High(Flg(u)))) = Bool(v # 0)
    BY <1>3 DEF Bool
  <1>5. ASSUME NEW t, Computed(u, t, Pc(u) + 1 + 1, Bool(Holds("!=", Low(Flg(u)), High(Flg(u)))))
        PROVE  Fine(t, c, B)
    <2>1. Computed(s, t, n + 1 + 1 + 1, Bool(v # 0))
      BY <1>2, <1>4, <1>5 DEF Computed
    <2>. QED BY <2>1
  <1>6. Here(c, u, "mov", 0, i) /\ Level(i, Stk(u)) /\ \A w : Pc(w) = Pc(u) + 1 => Here(c, w, "set", "!=", i)
    BY <1>2
  <1>7. Fine(u, c, B)
    BY <1>2, <1>5, <1>6, SetTail, Zenon
  <1>. QED BY <1>1, <1>7, LabelStep, Zenon
\* The code of && and || behind that of the left operand, on both paths.
LEMMA LogicEnding ==
  ASSUME NEW e, IsLogic(e), ~Void(e[3]), ~Void(e[4]), NEW j \in Int, NEW b, NEW r, Layout(b, j, r),
         Works(e[4], b, j), NEW l, NEW h, h = IndexOf(b), NEW d \in Seq(Instr), d = CodeOf(b),
         NEW f \in Seq(Instr), f = Two(I("cmp", "zero", j), I(JumpOf(e), l, j)),
         NEW g \in Seq(Instr),
         g = Four(I("cmp", "zero", h), I("label", l, h), I("mov", 0, h), I("set", "!=", h))
  PROVE  Ending(e[3], e, Cat(Cat(f, d), g), j)
PROOF
  <1>1. SUFFICES ASSUME NEW c, NEW p, NEW t, NEW k, NEW m, Whole(c), Placed(c, Cat(Cat(f, d), g), p),
                        t \in State, m \in Memory, k \in Seq(Word), Pc(t) = p + 1, Level(j, Stk(t)),
                        Over(Stk(t), k), Exact => Got(e[3], m, Reg(t)["rax"], Mem(t))
                 PROVE  Fine(t, c, Ends(c, e, p + Len(Cat(Cat(f, d), g)), k, m))
    BY SMTT(30) DEF Ending
  <1>2. PICK x \in Seq(Instr) : x = Cat(f, d)
    BY CatSeq
  <1>3. PICK o : o = p + Len(f)
    OBVIOUS
  <1>4. PICK q : q = o + Len(d)
    OBVIOUS
  <1>5. Placed(c, x, p) /\ Placed(c, g, p + Len(x)) /\ p + Len(Cat(x, g)) = (p + Len(x)) + Len(g)
    BY <1>1, <1>2, PlacedCat
  <1>6. Placed(c, f, p) /\ Placed(c, d, o) /\ p + Len(x) = q
    BY <1>1, <1>2, <1>3, <1>4, <1>5, PlacedCat
  <1>7. Placed(c, g, q) /\ p + Len(Cat(x, g)) = q + Len(g)
    BY <1>5, <1>6
  <1>8. /\ \A s : Pc(s) = p + 1 => Here(c, s, "cmp", "zero", j)
        /\ \A s : Pc(s) = p + 1 + 1 => Here(c, s, JumpOf(e), l, j)
        /\ o = p + 1 + 1
    BY <1>1, <1>3, <1>6, HereTwo
  <1>9. /\ \A s : Pc(s) = q + 1 => Here(c, s, "cmp", "zero", h)
        /\ \A s : Pc(s) = q + 1 + 1 => Here(c, s, "label", l, h)
        /\ \A s : Pc(s) = q + 1 + 1 + 1 => Here(c, s, "mov", 0, h)
        /\ \A s : Pc(s) = q + 1 + 1 + 1 + 1 => Here(c, s, "set", "!=", h)
        /\ q + Len(g) = q + 1 + 1 + 1 + 1 /\ q \in Nat
    BY <1>1, <1>7, HereFour
  <1>10. PICK B : B = Ends(c, e, q + 1 + 1 + 1 + 1, k, m) /\ Halts(c, e, m, B)
    BY EndsFacts
  <1>11. Exact => h = j
    BY LayoutFacts
  <1>12. ASSUME NEW s \in State, NEW w, Pc(s) = q + 1 + 1, Level(h, Stk(s)), Low(Flg(s)) = w, High(Flg(s)) = 0,
                Over(Stk(s), k), Exact => Got(e, m, Bool(w # 0), Mem(s))
         PROVE  Fine(s, c, B)
    <2>1. ASSUME NEW u, Computed(s, u, q + 1 + 1 + 1 + 1 + 1, Bool(w # 0)) PROVE Fine(u, c, B)
      <3>1. /\ u \in State /\ Pc(u) = q + 1 + 1 + 1 + 1 + 1 /\ Stk(u) = Stk(s) /\ Mem(u) = Mem(s)
            /\ Reg(u)["rax"] = Bool(w # 0)
        BY <2>1, Zenon DEF Computed
      <3>2. Over(Stk(u), k) /\ (Exact => Got(e, m, Reg(u)["rax"], Mem(u)))
        BY <1>12, <3>1
      <3>. QED BY <1>10, <3>1, <3>2, Finished, Zenon
    <2>2. Here(c, s, "label", l, h)
      BY <1>9, <1>12
    <2>3. PICK n : n = q + 1 + 1
      OBVIOUS
    <2>4. /\ \A u : Pc(u) = n + 1 => Here(c, u, "mov", 0, h)
          /\ \A u : Pc(u) = n + 1 + 1 => Here(c, u, "set", "!=", h)
      BY <1>9, <2>3
    <2>5. Pc(s) = n /\ \A u : Computed(s, u, n + 1 + 1 + 1, Bool(w # 0)) => Fine(u, c, B)
      BY <1>12, <2>1, <2>3
    <2>. QED BY <1>12, <2>2, <2>4, <2>5, LabelTail
  <1>13. PICK y \in Nat : y = q + 1 + 1
    BY <1>9
  <1>14. y = Targ(c, l)
    <2>1. PICK s : s = GoTo(t, y)
      OBVIOUS
    <2>2. Pc(s) = y
      BY <1>1, <2>1, GoToFacts
    <2>3. Here(c, s, "label", l, h)
      BY <1>9, <1>13, <2>2
    <2>. QED BY <1>1, <2>2, <2>3, TargIs
  <1>15. PICK v : v = Reg(t)["rax"]
    OBVIOUS
  <1>16. Exact => /\ Decides(e, v) => Got(e, m, Bool(v # 0), Mem(t))
                  /\ ~Decides(e, v) /\ Bad(e[4], Mem(t)) => Bad(e, m)
                  /\ \A w, n : ~Decides(e, v) /\ Got(e[4], Mem(t), w, n) => Got(e, m, Bool(w # 0), n)
    <2>1. ASSUME Exact PROVE Got(e[3], m, v, Mem(t))
      BY <1>1, <1>15, <2>1
    <2>. QED BY <1>1, <2>1, LogicGot, Zenon
  <1>17. ASSUME NEW u \in State, Pc(u) = y, Low(Flg(u)) = v, High(Flg(u)) = 0, Stk(u) = Stk(t),
                Mem(u) = Mem(t), Decides(e, v)
         PROVE  Fine(u, c, B)
    <2>1. Level(h, Stk(t)) /\ Over(Stk(t), Stk(t))
      <3>1. Over(Stk(t), Stk(t))
        BY <1>1, StateFacts, OverFacts
      <3>. QED BY <1>1, <1>11, <3>1, LevelOver
    <2>2. Level(h, Stk(u)) /\ Over(Stk(u), k) /\ (Exact => Got(e, m, Bool(v # 0), Mem(u)))
      BY <1>1, <1>16, <1>17, <2>1
    <2>3. Pc(u) = q + 1 + 1
      BY <1>13, <1>17
    <2>. QED BY <1>12, <1>17, <2>2, <2>3, Zenon
  <1>18. ASSUME NEW u, Computed(t, u, Pc(t) + 1 + 1, v), ~Decides(e, v) PROVE Fine(u, c, B)
    <2>1. u \in State /\ Pc(u) = o + 1 /\ Stk(u) = Stk(t) /\ Mem(u) = Mem(t)
      BY <1>1, <1>8, <1>18 DEF Computed
    <2>2. Level(j, Stk(u)) /\ (Exact /\ Bad(e[4], Mem(u)) => Bad(e, m))
      BY <1>1, <1>16, <1>18, <2>1
    <2>3. ASSUME NEW w \in State, Ended(w, e[4], q, Stk(u), Mem(u)) PROVE Fine(w, c, B)
      <3>1. /\ Pc(w) = q + 1 /\ Over(Stk(w), Stk(u))
            /\ Exact => Got(e[4], Mem(u), Reg(w)["rax"], Mem(w))
        BY <2>3, Zenon DEF Ended
      <3>2. PICK z \in Word : z = Reg(w)["rax"]
        BY StateWords
      <3>3. PICK s : s = SetFlg(w, z, 0)
        OBVIOUS
      <3>4. /\ s \in State /\ Pc(s) = Pc(w) + 1 /\ Low(Flg(s)) = z /\ High(Flg(s)) = 0
            /\ Stk(s) = Stk(w) /\ Mem(s) = Mem(w)
        BY <3>3, WordFacts, SetFlgFacts
      <3>5. Level(h, Stk(w))
        BY <1>11, <2>2, <3>1, LevelOver
      <3>6. Over(Stk(w), k)
        BY <1>1, <2>1, <3>1, StateFacts, OverFacts
      <3>7. Exact => Got(e, m, Bool(z # 0), Mem(w))
        BY <1>16, <1>18, <2>1, <3>1, <3>2
      <3>8. Level(h, Stk(s)) /\ Over(Stk(s), k) /\ (Exact => Got(e, m, Bool(z # 0), Mem(s)))
            /\ Pc(s) = q + 1 + 1
        BY <3>1, <3>4, <3>5, <3>6, <3>7
      <3>9. Fine(s, c, B)
        BY <1>12, <3>4, <3>8, Zenon
      <3>10. Fine(SetFlg(w, Reg(w)["rax"], IF "zero" = "zero" THEN 0 ELSE Reg(w)["zero"]), c, B)
        BY <3>2, <3>3, <3>9
      <3>11. Here(c, w, "cmp", "zero", h)
        BY <1>9, <3>1
      <3>. QED BY <3>5, <3>10, <3>11, CmpStep, Zenon
    <2>4. \A w \in State : Ended(w, e[4], o + Len(CodeOf(b)), Stk(u), Mem(u)) => Fine(w, c, B)
      BY <1>4, <2>3
    <2>5. Placed(c, CodeOf(b), o)
      BY <1>6
    <2>. QED BY <1>1, <1>10, <2>1, <2>2, <2>4, <2>5, RunPart
  <1>19. Here(c, t, "cmp", "zero", j) /\ \A u : Pc(u) = Pc(t) + 1 => Here(c, u, JumpOf(e), l, j)
    BY <1>1, <1>8
  <1>20. Fine(t, c, B)
    BY <1>1, <1>14, <1>15, <1>17, <1>18, <1>19, CompareJump
  <1>21. p + Len(Cat(Cat(f, d), g)) = q + 1 + 1 + 1 + 1
    BY <1>2, <1>7, <1>9
  <1>. QED BY <1>10, <1>20, <1>21, Zenon

\* The code of && and || does.
LEMMA LogicWorks ==
  ASSUME NEW e, IsLogic(e), ~Void(e[3]), ~Void(e[4]), NEW a, NEW b, NEW i, NEW l \in Nat,
         Layout(a, i, l + 1), Layout(b, IndexOf(a), LabelsOf(a)), Works(e[3], a, i), Works(e[4], b, IndexOf(a))
  PROVE  Works(e, LogicCx(a, b, JumpOf(e), l), i)
PROOF
  <1>1. PICK j \in Int, h \in Int, r \in Nat : j = IndexOf(a) /\ h = IndexOf(b) /\ r = LabelsOf(a)
    BY LayoutFacts
  <1>2. PICK s \in Seq(Instr), d \in Seq(Instr) : s = CodeOf(a) /\ d = CodeOf(b)
    BY LayoutFacts
  <1>3. l \in Args /\ JumpOf(e) \in Ops
    <2>1. l \in Args
      BY ArgFacts
    <2>2. JumpOf(e) \in Ops
      BY JumpDecides, OpFacts
    <2>. QED BY <2>1, <2>2
  <1>4. PICK f \in Seq(Instr) : f = Two(I("cmp", "zero", j), I(JumpOf(e), l, j))
    BY <1>3, OpFacts, ArgFacts, InstrType, TwoSeq
  <1>5. PICK g \in Seq(Instr) :
          g = Four(I("cmp", "zero", h), I("label", l, h), I("mov", 0, h), I("set", "!=", h))
    BY <1>3, OpFacts, ArgFacts, InstrType, FourSeq
  <1>6. Layout(b, j, r) /\ Works(e[4], b, j)
    BY <1>1
  <1>7. Ending(e[3], e, Cat(Cat(f, d), g), j)
    BY <1>1, <1>2, <1>4, <1>5, <1>6, LogicEnding
  <1>8. PICK q \in Seq(Instr) : q = Cat(Cat(f, d), g)
    BY CatSeq
  <1>9. CodeOf(LogicCx(a, b, JumpOf(e), l)) = Cat(s, q)
    <2>1. CodeOf(LogicCx(a, b, JumpOf(e), l)) = Cat(Cat(Cat(s, f), d), g)
      BY <1>1, <1>2, <1>4, <1>5, CxFacts DEF LogicCx
    <2>2. Cat(Cat(s, f), d) = Cat(s, Cat(f, d)) /\ Cat(f, d) \in Seq(Instr)
      BY CatAssociative, CatSeq
    <2>3. Cat(Cat(s, Cat(f, d)), g) = Cat(s, Cat(Cat(f, d), g))
      BY <2>2, CatAssociative
    <2>. QED BY <1>8, <2>1, <2>2, <2>3
  <1>10. \A m \in Memory : Bad(e[3], m) => Bad(e, m)
    BY LogicYields
  <1>11. Ending(e[3], e, q, IndexOf(a)) /\ CodeOf(LogicCx(a, b, JumpOf(e), l)) = Cat(CodeOf(a), q)
    BY <1>1, <1>2, <1>7, <1>8, <1>9
  <1>. QED BY <1>10, <1>11, Frame, Zenon
-----------------------------------------------------------------------------
(***************************************************************************)
(* The ternary operator.                                                   *)
(***************************************************************************)
LEMMA TernaryGot ==
  ASSUME NEW e, Kind(e, "ternary"), NEW m \in Memory, NEW v, NEW n, ~Void(e[2]), Got(e[2], m, v, n)
  PROVE  /\ Bad(Branch(e, v), n) => Bad(e, m)
         /\ \A w, t : Got(Branch(e, v), n, w, t) => Got(e, m, w, t)
PROOF
  <1>1. Bad(e[2], m) \/ Yields(e[2], m, v, n)
    BY GotValue
  <1>2. CASE Bad(e[2], m)
    BY <1>2, TernaryYields, Zenon DEF Got
  <1>3. CASE Yields(e[2], m, v, n)
    <2>1. Bad(Branch(e, v), n) => Bad(e, m)
      BY <1>3, TernaryYields, Zenon
    <2>2. Void(Branch(e, v)) => Void(e)
      <3>0. e \in Exps
        BY DEF Kind
      <3>1. U(e, 1) = U(e[2], 1) \cup U(e[3], 1) \cup U(e[4], 1)
        BY <3>0, URules
      <3>. QED BY <3>1 DEF Void, Branch
    <2>3. ASSUME NEW w, NEW t, Got(Branch(e, v), n, w, t) PROVE Got(e, m, w, t)
      <3>1. CASE Bad(Branch(e, v), n)
        BY <2>1, <3>1, Zenon DEF Got
      <3>2. CASE ~Bad(Branch(e, v), n)
        <4>1. PICK y : Yields(Branch(e, v), n, y, t) /\ (y = w \/ Void(Branch(e, v)))
          BY <2>3, <3>2, Zenon DEF Got
        <4>2. Yields(e, m, y, t)
          BY <1>3, <4>1, TernaryYields, Zenon
        <4>. QED BY <2>2, <4>1, <4>2, Zenon DEF Got
      <3>. QED BY <3>1, <3>2
    <2>. QED BY <2>1, <2>3, Zenon
  <1>. QED BY <1>1, <1>2, <1>3, Zenon

\* cmp $0 and je to the label l.
LEMMA JumpZero ==
  ASSUME NEW c, NEW B, NEW s \in State, NEW l, NEW i, Level(i, Stk(s)),
         Here(c, s, "cmp", "zero", i), \A u : Pc(u) = Pc(s) + 1 => Here(c, u, "je", l, i),
         NEW x \in Nat, x = Targ(c, l), NEW v, v = Reg(s)["rax"],
         \A t \in State : /\ Pc(t) = IF v = 0 THEN x ELSE Pc(s) + 1 + 1
                          /\ Stk(t) = Stk(s) /\ Mem(t) = Mem(s)
                          => Fine(t, c, B)
  PROVE  Fine(s, c, B)
PROOF
  <1>1. v \in Word /\ 0 \in Word
    BY StateWords, WordFacts
  <1>2. PICK u : u = SetFlg(s, v, 0)
    OBVIOUS
  <1>3. /\ u \in State /\ Pc(u) = Pc(s) + 1 /\ Low(Flg(u)) = v /\ High(Flg(u)) = 0
        /\ Stk(u) = Stk(s) /\ Mem(u) = Mem(s) /\ Pc(u) + 1 \in Nat
    BY <1>1, <1>2, SetFlgFacts, StateFacts
  <1>4. Here(c, u, "je", l, i) /\ Level(i, Stk(u))
    BY <1>3
  <1>5. PICK y \in Nat : y = IF v = 0 THEN x ELSE Pc(u) + 1
    BY <1>3
  <1>6. PICK t : t = GoTo(u, y)
    OBVIOUS
  <1>7. t \in State /\ Pc(t) = y /\ Stk(t) = Stk(u) /\ Mem(t) = Mem(u)
    BY <1>3, <1>6, GoToFacts
  <1>8. Fine(t, c, B)
    BY <1>3, <1>5, <1>7
  <1>9. t = GoTo(u, IF Low(Flg(u)) = High(Flg(u)) THEN Targ(c, l) ELSE Pc(u) + 1)
    BY <1>3, <1>5, <1>6
  <1>10. Fine(GoTo(u, IF Low(Flg(u)) = High(Flg(u)) THEN Targ(c, l) ELSE Pc(u) + 1), c, B)
    BY <1>8, <1>9
  <1>11. Fine(u, c, B)
    BY <1>3, <1>4, <1>10, JeStep, Zenon
  <1>12. Fine(SetFlg(s, Reg(s)["rax"], IF "zero" = "zero" THEN 0 ELSE Reg(s)["zero"]), c, B)
    BY <1>2, <1>11
  <1>. QED BY <1>12, CmpStep, Zenon

\* A jump to a label, or the label, and what follows it.
LEMMA PastLabel ==
  ASSUME NEW c, NEW B, Whole(c), NEW s \in State, NEW i, Level(i, Stk(s)), NEW l, NEW h, NEW n \in Nat,
         Level(h, Stk(s)), Here(c, s, "jmp", l, i) \/ Pc(s) = n,
         \A u : Pc(u) = n => Here(c, u, "label", l, h),
         \A t \in State : Pc(t) = n + 1 /\ Reg(t) = Reg(s) /\ Stk(t) = Stk(s) /\ Mem(t) = Mem(s) => Fine(t, c, B)
  PROVE  Fine(s, c, B)
PROOF
  <1>1. ASSUME NEW u \in State, Pc(u) = n, Reg(u) = Reg(s), Stk(u) = Stk(s), Mem(u) = Mem(s)
        PROVE  Fine(u, c, B)
    <2>1. PICK t : t = GoTo(u, Pc(u) + 1)
      OBVIOUS
    <2>2. t \in State /\ Pc(t) = n + 1 /\ Reg(t) = Reg(s) /\ Stk(t) = Stk(s) /\ Mem(t) = Mem(s)
      BY <1>1, <2>1, GoToFacts
    <2>3. Fine(GoTo(u, Pc(u) + 1), c, B)
      BY <2>1, <2>2
    <2>4. Here(c, u, "label", l, h) /\ Level(h, Stk(u))
      BY <1>1
    <2>. QED BY <2>3, <2>4, LabelStep, Zenon
  <1>2. CASE Pc(s) = n
    BY <1>1, <1>2
  <1>3. CASE Here(c, s, "jmp", l, i)
    <2>1. PICK u : u = GoTo(s, n)
      OBVIOUS
    <2>2. u \in State /\ Pc(u) = n /\ Reg(u) = Reg(s) /\ Stk(u) = Stk(s) /\ Mem(u) = Mem(s)
      BY <2>1, GoToFacts
    <2>3. Targ(c, l) = n
      BY <2>2, TargIs
    <2>4. Fine(GoTo(s, Targ(c, l)), c, B)
      BY <1>1, <2>1, <2>2, <2>3
    <2>. QED BY <1>3, <2>4, JmpStep, Zenon
  <1>. QED BY <1>2, <1>3

\* The code of a ternary expression behind the condition, through both branches.
LEMMA TernaryEnding ==
  ASSUME NEW e, Kind(e, "ternary"), ~Void(e[2]), NEW j \in Int, NEW a, NEW b, NEW r, NEW r2,
         Layout(a, j, r), NEW h, h = IndexOf(a), Layout(b, h, r2), NEW h2, h2 = IndexOf(b),
         Works(e[3], a, j), Works(e[4], b, h), NEW l, NEW l2,
         NEW d \in Seq(Instr), d = CodeOf(a), NEW d2 \in Seq(Instr), d2 = CodeOf(b),
         NEW f \in Seq(Instr), f = Two(I("cmp", "zero", j), I("je", l, j)),
         NEW g \in Seq(Instr), g = Two(I("jmp", l2, h), I("label", l, h)),
         NEW z \in Seq(Instr), z = One(I("label", l2, h2))
  PROVE  Ending(e[2], e, Cat(Cat(Cat(Cat(f, d), g), d2), z), j)
PROOF
  <1>0. PICK x1 \in Seq(Instr), x2 \in Seq(Instr), x3 \in Seq(Instr), x4 \in Seq(Instr) :
          x1 = Cat(f, d) /\ x2 = Cat(x1, g) /\ x3 = Cat(x2, d2) /\ x4 = Cat(x3, z)
    BY CatSeq
  <1>1. SUFFICES ASSUME NEW c, NEW p, NEW t, NEW k, NEW m, Whole(c), Placed(c, x4, p),
                        t \in State, m \in Memory, k \in Seq(Word), Pc(t) = p + 1, Level(j, Stk(t)),
                        Over(Stk(t), k), Exact => Got(e[2], m, Reg(t)["rax"], Mem(t))
                 PROVE  Fine(t, c, Ends(c, e, p + Len(x4), k, m))
    BY <1>0, SMTT(30) DEF Ending
  <1>2. PICK o1 : o1 = p + Len(f)
    OBVIOUS
  <1>3. PICK o2 : o2 = o1 + Len(d)
    OBVIOUS
  <1>4. PICK o3 : o3 = o2 + Len(g)
    OBVIOUS
  <1>5. PICK o4 : o4 = o3 + Len(d2)
    OBVIOUS
  <1>6. Placed(c, x3, p) /\ Placed(c, z, p + Len(x3)) /\ p + Len(x4) = (p + Len(x3)) + Len(z)
    BY <1>0, <1>1, PlacedCat
  <1>7. Placed(c, x2, p) /\ Placed(c, d2, p + Len(x2)) /\ p + Len(x3) = (p + Len(x2)) + Len(d2)
    BY <1>0, <1>1, <1>6, PlacedCat
  <1>8. Placed(c, x1, p) /\ Placed(c, g, p + Len(x1)) /\ p + Len(x2) = (p + Len(x1)) + Len(g)
    BY <1>0, <1>1, <1>7, PlacedCat
  <1>9. Placed(c, f, p) /\ Placed(c, d, o1) /\ p + Len(x1) = o2
    BY <1>0, <1>1, <1>2, <1>3, <1>8, PlacedCat
  <1>10. Placed(c, g, o2) /\ p + Len(x2) = o3
    BY <1>4, <1>8, <1>9
  <1>11. Placed(c, d2, o3) /\ p + Len(x3) = o4
    BY <1>5, <1>7, <1>10
  <1>12. Placed(c, z, o4) /\ p + Len(x4) = o4 + Len(z)
    BY <1>6, <1>11
  <1>13. /\ \A s : Pc(s) = p + 1 => Here(c, s, "cmp", "zero", j)
         /\ \A s : Pc(s) = p + 1 + 1 => Here(c, s, "je", l, j)
         /\ o1 = p + 1 + 1
    <2>1. Whole(c) /\ Placed(c, Two(I("cmp", "zero", j), I("je", l, j)), p)
      BY <1>1, <1>9, Zenon
    <2>. QED BY <1>2, <2>1, HereTwo, SMTT(30)
  <1>14. /\ \A s : Pc(s) = o2 + 1 => Here(c, s, "jmp", l2, h)
         /\ \A s : Pc(s) = o2 + 1 + 1 => Here(c, s, "label", l, h)
         /\ o3 = o2 + 1 + 1 /\ o2 \in Nat
    <2>1. Whole(c) /\ Placed(c, Two(I("jmp", l2, h), I("label", l, h)), o2)
      BY <1>1, <1>10, Zenon
    <2>. QED BY <1>4, <2>1, HereTwo, SMTT(30)
  <1>15. /\ \A s : Pc(s) = o4 + 1 => Here(c, s, "label", l2, h2)
         /\ o4 + Len(z) = o4 + 1 /\ o4 \in Nat
    <2>1. \A s : Pc(s) = o4 + 1 => Here(c, s, "label", l2, h2) /\ o4 + Len(z) = o4 + 1
      BY <1>1, <1>12, HereOne
    <2>2. o4 \in Nat
      BY <1>12 DEF Placed
    <2>3. Len(z) = 1
      BY OneFacts
    <2>. QED BY <2>1, <2>2, <2>3
  <1>16. PICK B : B = Ends(c, e, o4 + 1, k, m) /\ Halts(c, e, m, B)
    BY EndsFacts
  <1>17. (Exact => h = j) /\ (Exact => h2 = h) /\ (Exact => h2 = j)
    BY LayoutFacts, SMTT(60)
  <1>18. ASSUME NEW s \in State, NEW i, Pc(s) = o4 + 1 \/ Here(c, s, "jmp", l2, i), Level(i, Stk(s)),
                Level(h2, Stk(s)), Over(Stk(s), k), Exact => Got(e, m, Reg(s)["rax"], Mem(s))
         PROVE  Fine(s, c, B)
    <2>1. ASSUME NEW u \in State, Pc(u) = o4 + 1 + 1, Reg(u) = Reg(s), Stk(u) = Stk(s), Mem(u) = Mem(s)
          PROVE  Fine(u, c, B)
      <3>1. Over(Stk(u), k) /\ (Exact => Got(e, m, Reg(u)["rax"], Mem(u)))
        BY <1>18, <2>1
      <3>. QED BY <1>16, <2>1, <3>1, Finished, Zenon
    <2>2. PICK n \in Nat : n = o4 + 1
      BY <1>15
    <2>3. /\ \A u : Pc(u) = n => Here(c, u, "label", l2, h2)
          /\ \A u \in State : Pc(u) = n + 1 /\ Reg(u) = Reg(s) /\ Stk(u) = Stk(s) /\ Mem(u) = Mem(s)
                                => Fine(u, c, B)
          /\ Here(c, s, "jmp", l2, i) \/ Pc(s) = n
      BY <1>15, <1>18, <2>1, <2>2
    <2>. QED BY <1>1, <1>18, <2>3, PastLabel
  <1>19. PICK y \in Nat : y = o2 + 1 + 1
    BY <1>14
  <1>20. y = Targ(c, l)
    <2>1. PICK s : s = GoTo(t, y)
      OBVIOUS
    <2>2. Pc(s) = y
      BY <1>1, <2>1, GoToFacts
    <2>3. Here(c, s, "label", l, h)
      BY <1>14, <1>19, <2>2
    <2>. QED BY <1>1, <2>2, <2>3, TargIs
  <1>21. PICK v : v = Reg(t)["rax"]
    OBVIOUS
  <1>22. Exact => /\ Bad(Branch(e, v), Mem(t)) => Bad(e, m)
                  /\ \A w, n : Got(Branch(e, v), Mem(t), w, n) => Got(e, m, w, n)
    <2>1. ASSUME Exact PROVE Got(e[2], m, v, Mem(t))
      BY <1>1, <1>21, <2>1
    <2>. QED BY <1>1, <2>1, TernaryGot, Zenon
  <1>23. Over(Stk(t), Stk(t))
    BY <1>1, StateFacts, OverFacts
  <1>24. ASSUME NEW w \in State, NEW n, Over(Stk(w), Stk(t)), Exact => Got(Branch(e, v), Mem(t), Reg(w)["rax"], Mem(w))
         PROVE  /\ Level(h, Stk(w)) /\ Level(h2, Stk(w)) /\ Over(Stk(w), k)
                /\ Exact => Got(e, m, Reg(w)["rax"], Mem(w))
    <2>1. Level(h, Stk(w))
      BY <1>1, <1>17, <1>24, LevelOver
    <2>2. Level(h2, Stk(w))
      BY <1>1, <1>17, <1>24, LevelOver
    <2>3. Over(Stk(w), k)
      BY <1>1, <1>24, StateFacts, OverFacts
    <2>4. Exact => Got(e, m, Reg(w)["rax"], Mem(w))
      BY <1>22, <1>24
    <2>. QED BY <2>1, <2>2, <2>3, <2>4
  <1>25. ASSUME NEW u \in State, Pc(u) = o3 + 1, Stk(u) = Stk(t), Mem(u) = Mem(t), v = 0
         PROVE  Fine(u, c, B)
    <2>1. Branch(e, v) = e[4]
      BY <1>25 DEF Branch
    <2>2. Level(h, Stk(u)) /\ (Exact /\ Bad(e[4], Mem(u)) => Bad(e, m))
      <3>1. Level(h, Stk(t))
        BY <1>1, <1>17, <1>23, LevelOver
      <3>. QED BY <1>22, <1>25, <2>1, <3>1
    <2>3. ASSUME NEW w \in State, Ended(w, e[4], o3 + Len(CodeOf(b)), Stk(u), Mem(u)) PROVE Fine(w, c, B)
      <3>1. /\ Pc(w) = o4 + 1 /\ Over(Stk(w), Stk(t))
            /\ Exact => Got(Branch(e, v), Mem(t), Reg(w)["rax"], Mem(w))
        BY <1>5, <1>25, <2>1, <2>3 DEF Ended
      <3>. QED BY <1>18, <1>24, <3>1
    <2>4. Placed(c, CodeOf(b), o3)
      BY <1>11
    <2>. QED BY <1>1, <1>16, <1>25, <2>2, <2>3, <2>4, RunPart
  <1>26. ASSUME NEW u \in State, Pc(u) = y, Stk(u) = Stk(t), Mem(u) = Mem(t), v = 0
         PROVE  Fine(u, c, B)
    <2>1. Level(h, Stk(u))
      <3>1. Level(h, Stk(t))
        BY <1>1, <1>17, <1>23, LevelOver
      <3>. QED BY <1>26, <3>1
    <2>2. \A s : Pc(s) = y => Here(c, s, "label", l, h)
      BY <1>14, <1>19
    <2>3. ASSUME NEW s \in State, Pc(s) = y + 1, Reg(s) = Reg(u), Stk(s) = Stk(u), Mem(s) = Mem(u)
          PROVE  Fine(s, c, B)
      <3>1. Pc(s) = o3 + 1 /\ Stk(s) = Stk(t) /\ Mem(s) = Mem(t)
        BY <1>14, <1>19, <1>26, <2>3
      <3>. QED BY <1>25, <1>26, <3>1
    <2>. QED BY <1>1, <1>26, <2>1, <2>2, <2>3, PastLabel
  <1>27. ASSUME NEW u \in State, Pc(u) = o1 + 1, Stk(u) = Stk(t), Mem(u) = Mem(t), v # 0
         PROVE  Fine(u, c, B)
    <2>1. Branch(e, v) = e[3]
      BY <1>27 DEF Branch
    <2>2. Level(j, Stk(u)) /\ (Exact /\ Bad(e[3], Mem(u)) => Bad(e, m))
      BY <1>1, <1>22, <1>27, <2>1
    <2>3. ASSUME NEW w \in State, Ended(w, e[3], o1 + Len(CodeOf(a)), Stk(u), Mem(u)) PROVE Fine(w, c, B)
      <3>1. /\ Pc(w) = o2 + 1 /\ Over(Stk(w), Stk(t))
            /\ Exact => Got(Branch(e, v), Mem(t), Reg(w)["rax"], Mem(w))
        BY <1>3, <1>27, <2>1, <2>3 DEF Ended
      <3>2. Here(c, w, "jmp", l2, h)
        BY <1>14, <3>1
      <3>. QED BY <1>18, <1>24, <3>1, <3>2
    <2>4. Placed(c, CodeOf(a), o1)
      BY <1>9
    <2>. QED BY <1>1, <1>16, <1>27, <2>2, <2>3, <2>4, RunPart
  <1>28. ASSUME NEW u \in State, Pc(u) = IF v = 0 THEN y ELSE Pc(t) + 1 + 1, Stk(u) = Stk(t), Mem(u) = Mem(t)
         PROVE  Fine(u, c, B)
    <2>1. CASE v = 0
      BY <1>26, <1>28, <2>1
    <2>2. CASE v # 0
      <3>1. Pc(u) = o1 + 1
        BY <1>1, <1>13, <1>28, <2>2
      <3>. QED BY <1>27, <1>28, <2>2, <3>1
    <2>. QED BY <2>1, <2>2
  <1>29. Here(c, t, "cmp", "zero", j) /\ \A u : Pc(u) = Pc(t) + 1 => Here(c, u, "je", l, j)
    BY <1>1, <1>13
  <1>30. Fine(t, c, B)
    BY <1>1, <1>20, <1>21, <1>28, <1>29, JumpZero
  <1>31. p + Len(x4) = o4 + 1
    BY <1>12, <1>15
  <1>. QED BY <1>16, <1>30, <1>31, Zenon

\* The code of a ternary expression does.
LEMMA TernaryWorks ==
  ASSUME NEW e, Kind(e, "ternary"), ~Void(e[2]), NEW c, NEW a, NEW b, NEW i, NEW l \in Nat,
         Layout(c, i, l + 1 + 1), Layout(a, IndexOf(c), LabelsOf(c)), Layout(b, IndexOf(a), LabelsOf(a)),
         Works(e[2], c, i), Works(e[3], a, IndexOf(c)), Works(e[4], b, IndexOf(a))
  PROVE  Works(e, TernaryCx(c, a, b, l, l + 1), i)
PROOF
  <1>1. PICK j \in Int, h \in Int, h2 \in Int : j = IndexOf(c) /\ h = IndexOf(a) /\ h2 = IndexOf(b)
    BY LayoutFacts
  <1>2. PICK s \in Seq(Instr), d \in Seq(Instr), d2 \in Seq(Instr) :
          s = CodeOf(c) /\ d = CodeOf(a) /\ d2 = CodeOf(b)
    BY LayoutFacts
  <1>3. PICK l2 \in Nat : l2 = l + 1
    OBVIOUS
  <1>4. l \in Args /\ l2 \in Args
    BY ArgFacts
  <1>5. PICK f \in Seq(Instr) : f = Two(I("cmp", "zero", j), I("je", l, j))
    BY <1>4, OpFacts, ArgFacts, InstrType, TwoSeq
  <1>6. PICK g \in Seq(Instr) : g = Two(I("jmp", l2, h), I("label", l, h))
    BY <1>4, OpFacts, InstrType, TwoSeq
  <1>7. PICK z \in Seq(Instr) : z = One(I("label", l2, h2))
    BY <1>4, OpFacts, InstrType, OneSeq
  <1>8. PICK r, r2 : Layout(a, j, r) /\ Layout(b, h, r2) /\ Works(e[3], a, j) /\ Works(e[4], b, h)
    BY <1>1
  <1>9. Ending(e[2], e, Cat(Cat(Cat(Cat(f, d), g), d2), z), j)
    BY <1>1, <1>2, <1>5, <1>6, <1>7, <1>8, TernaryEnding
  <1>10. PICK x1 \in Seq(Instr), x2 \in Seq(Instr), x3 \in Seq(Instr), q \in Seq(Instr) :
           x1 = Cat(f, d) /\ x2 = Cat(x1, g) /\ x3 = Cat(x2, d2) /\ q = Cat(x3, z)
    BY CatSeq
  <1>11. CodeOf(TernaryCx(c, a, b, l, l2)) = Cat(s, q)
    <2>1. CodeOf(TernaryCx(c, a, b, l, l2)) = Cat(Cat(Cat(Cat(Cat(s, f), d), g), d2), z)
      BY <1>1, <1>2, <1>5, <1>6, <1>7, CxFacts DEF TernaryCx
    <2>2. Cat(Cat(s, f), d) = Cat(s, x1)
      BY <1>10, CatAssociative
    <2>3. Cat(Cat(s, x1), g) = Cat(s, x2)
      BY <1>10, CatAssociative
    <2>4. Cat(Cat(s, x2), d2) = Cat(s, x3)
      BY <1>10, CatAssociative
    <2>5. Cat(Cat(s, x3), z) = Cat(s, q)
      BY <1>10, CatAssociative
    <2>. QED BY <2>1, <2>2, <2>3, <2>4, <2>5
  <1>12. \A m \in Memory : Bad(e[2], m) => Bad(e, m)
    BY TernaryYields
  <1>13. Ending(e[2], e, q, IndexOf(c)) /\ CodeOf(TernaryCx(c, a, b, l, l2)) = Cat(CodeOf(c), q)
    BY <1>1, <1>2, <1>9, <1>10, <1>11
  <1>14. Works(e, TernaryCx(c, a, b, l, l2), i)
    BY <1>12, <1>13, Frame, Zenon
  <1>. QED BY <1>3, <1>14
-----------------------------------------------------------------------------
(***************************************************************************)
(* The operators that evaluate both operands.                              *)
(***************************************************************************)
\* That the operator op may fail, or may give v, for the operands a and b.
Fails(op, a, b, n) == \E o \in Apply(op, a, b, n) : ~IsOk(o)
Gives(op, a, b, n, v) == Fails(op, a, b, n) \/ Out(v, n) \in Apply(op, a, b, n)

Impossible(a, b) == b = 0 \/ Quotient(a, b) \notin Word

\* What C says of comparisons.
LEMMA ApplyComparison ==
  ASSUME NEW op \in Comparisons, NEW a, NEW b, NEW n
  PROVE  Gives(op, a, b, n, Bool(Holds(op, a, b)))
PROOF
  <1>1. Apply(op, a, b, n) = Ok(Bool(Holds(op, a, b)), n)
    BY Zenon DEF Apply, Comparisons
  <1>2. Out(Bool(Holds(op, a, b)), n) \in Ok(Bool(Holds(op, a, b)), n)
    BY Zenon DEF Ok, Out
  <1>. QED BY <1>1, <1>2, Zenon DEF Gives

\* What C says of division and remainder.
LEMMA ApplyDivision ==
  ASSUME NEW op, op = "/" \/ op = "%", NEW a, NEW b, NEW n
  PROVE  /\ Impossible(a, b) => Fails(op, a, b, n)
         /\ ~Impossible(a, b) =>
              Gives(op, a, b, n, IF op = "/" THEN Quotient(a, b) ELSE a - Quotient(a, b) * b)
PROOF
  <1>1. op \notin Comparisons /\ op \notin {"<<", ">>"} /\ op # ">>"
    BY Zenon DEF Comparisons
  <1>2. op \in {"/", "%"}
    OBVIOUS
  <1>3. PICK v : v = IF op = "/" THEN Quotient(a, b) ELSE a - Quotient(a, b) * b
    OBVIOUS
  <1>4. Apply(op, a, b, n) =
          IF Impossible(a, b) THEN Undefined(n)
          ELSE Ok(IF op = "/" THEN Quotient(a, b) ELSE a - Quotient(a, b) * b, n)
    BY <1>1, <1>2, Zenon DEF Apply, Impossible
  <1>5. CASE Impossible(a, b)
    <2>1. Apply(op, a, b, n) = Undefined(n)
      BY <1>4, <1>5, Zenon
    <2>2. PICK o : o = <<"undefined", 0, n>>
      OBVIOUS
    <2>3. o \in Undefined(n)
      BY <2>2, Zenon DEF Undefined
    <2>4. ~IsOk(o)
      BY <2>2 DEF IsOk
    <2>. QED BY <1>5, <2>1, <2>3, <2>4, Zenon DEF Fails
  <1>6. CASE ~Impossible(a, b)
    <2>1. Apply(op, a, b, n) = Ok(v, n)
      BY <1>3, <1>4, <1>6, Zenon
    <2>2. Out(v, n) \in Ok(v, n)
      BY Zenon DEF Ok, Out
    <2>3. Gives(op, a, b, n, v)
      BY <2>1, <2>2, Zenon DEF Gives
    <2>. QED BY <1>3, <1>6, <2>3, Zenon
  <1>. QED BY <1>5, <1>6

\* What C says of the others, the instruction for which is a legal choice.
LEMMA ApplyAlu ==
  ASSUME NEW op, op \in {"+", "-", "*", "&", "|", "^", "<<", ">>"},
         NEW a \in Word, NEW b \in Word, NEW n
  PROVE  Gives(op, a, b, n, Alu(op, a, b))
PROOF
  <1>1. op \notin Comparisons /\ op \notin {"/", "%"}
    BY Zenon DEF Comparisons
  <1>2. PICK v \in Word : v = Alu(op, a, b)
    BY AluWord
  <1>3. CASE op \in {"<<", ">>"} /\ b \notin 0 .. Bits - 1
    <2>1. Apply(op, a, b, n) = Undefined(n)
      BY <1>1, <1>3, Zenon DEF Apply
    <2>2. PICK o : o = <<"undefined", 0, n>>
      OBVIOUS
    <2>3. o \in Undefined(n)
      BY <2>2, Zenon DEF Undefined
    <2>4. ~IsOk(o)
      BY <2>2 DEF IsOk
    <2>. QED BY <2>1, <2>3, <2>4, Zenon DEF Fails, Gives
  <1>4. CASE op = ">>" /\ a < 0 /\ b \in 0 .. Bits - 1
    <2>1. Apply(op, a, b, n) = {<<"ok", w, n>> : w \in Word}
      BY <1>1, <1>4, Zenon DEF Apply
    <2>2. Out(v, n) \in {<<"ok", w, n>> : w \in Word}
      BY DEF Out
    <2>. QED BY <1>2, <2>1, <2>2, Zenon DEF Gives
  <1>5. CASE ~(op \in {"<<", ">>"} /\ b \notin 0 .. Bits - 1) /\ ~(op = ">>" /\ a < 0 /\ b \in 0 .. Bits - 1)
    <2>1. Apply(op, a, b, n) = Ok(Alu(op, a, b), n)
      BY <1>1, <1>5, Zenon DEF Apply
    <2>2. Out(v, n) \in Ok(v, n)
      BY Zenon DEF Ok, Out
    <2>. QED BY <1>2, <2>1, <2>2, Zenon DEF Gives
  <1>. QED BY <1>3, <1>4, <1>5

\* Registers behind a division.
LEMMA DividedFacts ==
  ASSUME NEW s \in State, NEW y, NEW q \in Word, q = Quotient(Dividend(s), y),
         NEW r \in Word, r = Dividend(s) - q * y
  PROVE  /\ Divided(s, y) \in State /\ Pc(Divided(s, y)) = Pc(s) + 1
         /\ Stk(Divided(s, y)) = Stk(s) /\ Mem(Divided(s, y)) = Mem(s)
         /\ Reg(Divided(s, y))["rax"] = q /\ Reg(Divided(s, y))["rdx"] = r
PROOF
  <1>1. /\ Pc(s) + 1 \in Nat /\ Reg(s) \in RegFile /\ Flg(s) \in Flags /\ Stk(s) \in Seq(Word)
        /\ Mem(s) \in Memory
    BY StateFacts
  <1>2. PICK f : f = Set(Reg(s), "rax", q) /\ f \in RegFile /\ f["rax"] = q
    BY <1>1, RegFacts, SetFacts
  <1>3. PICK g : g = Set(f, "rdx", r) /\ g \in RegFile /\ g["rdx"] = r /\ g["rax"] = f["rax"]
    <2>1. "rax" # "rdx"
      OBVIOUS
    <2>2. "rax" \in Regs /\ "rdx" \in Regs
      BY RegFacts
    <2>3. Set(f, "rdx", r) \in RegFile /\ Set(f, "rdx", r)["rdx"] = r
      BY <1>2, <2>2, SetFacts, SMTT(30)
    <2>4. Set(f, "rdx", r)["rax"] = f["rax"]
      BY <1>2, <2>1, <2>2, SetFacts, SMTT(30)
    <2>. QED BY <2>3, <2>4, Zenon
  <1>4. Divided(s, y) = St(Pc(s) + 1, g, Flg(s), Stk(s), Mem(s))
    BY <1>2, <1>3, Zenon DEF Divided
  <1>. QED BY <1>1, <1>2, <1>3, <1>4, StFacts

\* The processor cannot go on in the state t.
Jammed(c, t) ==
  /\ t \in State /\ Pc(t) \in 1 .. Len(c) /\ Level(c[Pc(t)].at, Stk(t))
  /\ Trapped(OpAt(c, t), ArgAt(c, t), t)

\* An instruction that traps.
LEMMA JammedAt ==
  ASSUME NEW c, NEW s \in State, NEW o, NEW a, NEW i, Here(c, s, o, a, i), Level(i, Stk(s)),
         Trapped(o, a, s)
  PROVE  Jammed(c, s)
PROOF
  <1>1. c[Pc(s)].op = o /\ c[Pc(s)].arg = a /\ c[Pc(s)].at = i
    BY IFacts DEF Here
  <1>2. Pc(s) \in 1 .. Len(c)
    BY Zenon DEF Here
  <1>. QED BY <1>1, <1>2, Zenon DEF Jammed, OpAt, ArgAt

\* A division that does not trap.
LEMMA IdivStep ==
  ASSUME NEW c, NEW B, NEW s \in State, NEW a, NEW i, Here(c, s, "idiv", a, i), Level(i, Stk(s)),
         ~Trapped("idiv", a, s), Fine(Divided(s, Reg(s)[a]), c, B)
  PROVE  Fine(s, c, B)
PROOF
  <1>1. PICK t : t = Divided(s, Reg(s)[a])
    OBVIOUS
  <1>2. \A u : Does(c, "idiv", a, s, u) => u = t
    BY <1>1, Zenon DEF Does
  <1>3. Fine(t, c, B)
    BY <1>1, Zenon
  <1>. QED BY <1>2, <1>3, FineStep, Zenon

\* cdq, idiv: edx:eax is eax.
LEMMA DivideTail ==
  ASSUME NEW c, NEW B, NEW s \in State, NEW i, Level(i, Stk(s)), NEW x \in Word, NEW y \in Word,
         x = Reg(s)["rax"], y = Reg(s)["rcx"],
         Here(c, s, "cdq", "rdx", i), \A u : Pc(u) = Pc(s) + 1 => Here(c, u, "idiv", "rcx", i),
         Impossible(x, y) => \A t : Jammed(c, t) => t \in B,
         ~Impossible(x, y) => \A t : /\ Computed(s, t, Pc(s) + 1 + 1, Quotient(x, y))
                                     /\ Reg(t)["rdx"] = x - Quotient(x, y) * y
                                     => Fine(t, c, B)
  PROVE  Fine(s, c, B)
PROOF
  <1>1. PICK d \in Word : d = IF x < 0 THEN 0 - 1 ELSE 0
    BY WordFacts
  <1>2. PICK u : u = SetReg(s, "rdx", d)
    OBVIOUS
  <1>3. /\ u \in State /\ Pc(u) = Pc(s) + 1 /\ Reg(u)["rdx"] = d /\ Stk(u) = Stk(s) /\ Mem(u) = Mem(s)
        /\ Reg(u)["rax"] = x /\ Reg(u)["rcx"] = y
    <2>1. "rax" # "rdx" /\ "rcx" # "rdx"
      OBVIOUS
    <2>0. "rdx" \in Regs
      BY RegFacts
    <2>2. \A y1 \in Regs : y1 # "rdx" => Reg(u)[y1] = Reg(s)[y1]
      <3>1. PICK x1 \in Regs : x1 = "rdx"
        BY <2>0
      <3>2. \A y1 \in Regs : y1 # x1 => Reg(SetReg(s, x1, d))[y1] = Reg(s)[y1]
        BY SetRegFacts
      <3>. QED BY <1>2, <3>1, <3>2, Zenon
    <2>3. Reg(u)["rax"] = Reg(s)["rax"] /\ Reg(u)["rcx"] = Reg(s)["rcx"]
      BY <2>1, <2>2, RegFacts, Zenon
    <2>4. u \in State /\ Pc(u) = Pc(s) + 1 /\ Reg(u)["rdx"] = d /\ Stk(u) = Stk(s) /\ Mem(u) = Mem(s)
      BY <1>2, <2>0, SetRegIs, SMTT(30)
    <2>. QED BY <2>3, <2>4, Zenon
  <1>4. Dividend(u) = x
    <2>1. Dividend(u) = d * 2 ^ Bits + Unsigned(x)
      BY <1>3, Zenon DEF Dividend
    <2>. QED BY <1>1, <2>1, SignExtended
  <1>5. Here(c, u, "idiv", "rcx", i) /\ Level(i, Stk(u))
    BY <1>3
  <1>6. Fine(u, c, B)
    <2>1. CASE Impossible(x, y)
      <3>1. Trapped("idiv", "rcx", u)
        BY <1>3, <1>4, <2>1, Zenon DEF Trapped, Impossible
      <3>2. Jammed(c, u)
        BY <1>3, <1>5, <3>1, JammedAt, Zenon
      <3>3. u \in B
        BY <2>1, <3>2, Zenon
      <3>. QED BY <1>3, <3>3, FineEnd, Zenon
    <2>2. CASE ~Impossible(x, y)
      <3>1. ~Trapped("idiv", "rcx", u)
        BY <1>3, <1>4, <2>2, Zenon DEF Trapped, Impossible
      <3>2. y # 0 /\ Quotient(x, y) \in Word
        BY <2>2 DEF Impossible
      <3>3. PICK q \in Word : q = Quotient(x, y)
        BY <3>2
      <3>4. PICK r \in Word : r = x - q * y
        BY <3>2, <3>3, RemainderWord
      <3>5. PICK t : t = Divided(u, y)
        OBVIOUS
      <3>6. q = Quotient(Dividend(u), y) /\ r = Dividend(u) - q * y
        BY <1>4, <3>3, <3>4
      <3>7. /\ t \in State /\ Pc(t) = Pc(u) + 1 /\ Stk(t) = Stk(u) /\ Mem(t) = Mem(u)
            /\ Reg(t)["rax"] = q /\ Reg(t)["rdx"] = r
        BY <1>3, <3>5, <3>6, DividedFacts
      <3>8. Computed(s, t, Pc(s) + 1 + 1, q)
        BY <1>3, <3>7 DEF Computed
      <3>9. Fine(t, c, B)
        BY <2>2, <3>3, <3>4, <3>7, <3>8
      <3>10. Fine(Divided(u, Reg(u)["rcx"]), c, B)
        BY <1>3, <3>5, <3>9, Zenon
      <3>. QED BY <1>3, <1>5, <3>1, <3>10, IdivStep, Zenon
    <2>. QED BY <2>1, <2>2
  <1>7. Fine(SetReg(s, "rdx", IF Reg(s)["rax"] < 0 THEN 0 - 1 ELSE 0), c, B)
    BY <1>1, <1>2, <1>6
  <1>. QED BY <1>7, CdqStep, Zenon
\* The instructions for an operator.
LEMMA BinaryCodeIs ==
  /\ \A op \in Comparisons : BinaryCode(op) = Trio("cmp", "rcx", "mov", 0, "set", op)
  /\ BinaryCode("/") = Duo("cdq", "rdx", "idiv", "rcx")
  /\ BinaryCode("%") = Trio("cdq", "rdx", "idiv", "rcx", "copy", "rdx")
  /\ \A op \in {"+", "-", "*", "&", "|", "^", "<<", ">>"} : BinaryCode(op) = Uno("alu", op)
PROOF
  <1>1. \A op \in Comparisons : BinaryCode(op) = Trio("cmp", "rcx", "mov", 0, "set", op)
    <2>1. SUFFICES ASSUME NEW op \in Comparisons PROVE BinaryCode(op) = Trio("cmp", "rcx", "mov", 0, "set", op)
      OBVIOUS
    <2>2. BinaryCode(op) = Compare(op)
      BY BinaryCodes, Zenon DEF Ordinary
    <2>. QED BY <2>2, Zenon DEF Compare, Trio
  <1>2. BinaryCode("/") = Duo("cdq", "rdx", "idiv", "rcx")
    BY Zenon DEF BinaryCode, Comparisons, Duo
  <1>3. BinaryCode("%") = Trio("cdq", "rdx", "idiv", "rcx", "copy", "rdx")
    BY Zenon DEF BinaryCode, Comparisons, Trio
  <1>4. ASSUME NEW op \in {"+", "-", "*", "&", "|", "^", "<<", ">>"} PROVE BinaryCode(op) = Uno("alu", op)
    <2>1. op \notin Comparisons /\ op # "/" /\ op # "%"
      BY Zenon DEF Comparisons
    <2>. QED BY <2>1, Zenon DEF BinaryCode, Uno
  <1>. QED BY <1>1, <1>2, <1>3, <1>4

\* The code z for op, from a state with the operands in eax and ecx.
Operates(op, z) ==
  \A c, B, s, i, p :
    /\ Whole(c) /\ i \in Int /\ Placed(c, J(z, i), p) /\ s \in State /\ Pc(s) = p + 1 /\ Level(i, Stk(s))
    /\ Fails(op, Reg(s)["rax"], Reg(s)["rcx"], Mem(s)) => \A t : Jammed(c, t) => t \in B
    /\ \A t, v : /\ Gives(op, Reg(s)["rax"], Reg(s)["rcx"], Mem(s), v)
                 /\ Computed(s, t, p + Len(J(z, i)) + 1, v)
                 => Fine(t, c, B)
    => Fine(s, c, B)

\* The code of a comparison.
LEMMA ComparisonOperates ==
  ASSUME NEW op \in Comparisons, NEW z \in Plain, z = Trio("cmp", "rcx", "mov", 0, "set", op)
  PROVE  Operates(op, z)
PROOF
  <1>1. SUFFICES ASSUME NEW c, NEW B, NEW s, NEW i, NEW p, Whole(c), i \in Int, Placed(c, J(z, i), p),
                        s \in State, Pc(s) = p + 1, Level(i, Stk(s)),
                        \A t, v : /\ Gives(op, Reg(s)["rax"], Reg(s)["rcx"], Mem(s), v)
                                  /\ Computed(s, t, p + Len(J(z, i)) + 1, v)
                                  => Fine(t, c, B)
                 PROVE  Fine(s, c, B)
    BY SMTT(30) DEF Operates
  <1>2. /\ \A u : Pc(u) = p + 1 => Here(c, u, "cmp", "rcx", i)
        /\ \A u : Pc(u) = p + 1 + 1 => Here(c, u, "mov", 0, i)
        /\ \A u : Pc(u) = p + 1 + 1 + 1 => Here(c, u, "set", op, i)
        /\ p + Len(J(z, i)) = p + 1 + 1 + 1
    BY <1>1, HereTrio
  <1>3. PICK x, y \in Word : x = Reg(s)["rax"] /\ y = Reg(s)["rcx"]
    BY <1>1, StateWords
  <1>4. y = IF "rcx" = "zero" THEN 0 ELSE Reg(s)["rcx"]
    BY <1>3
  <1>5. Gives(op, x, y, Mem(s), Bool(Holds(op, x, y)))
    BY ApplyComparison
  <1>6. \A t : Computed(s, t, Pc(s) + 1 + 1 + 1, Bool(Holds(op, Reg(s)["rax"], y))) => Fine(t, c, B)
    BY <1>1, <1>2, <1>3, <1>5
  <1>7. /\ Here(c, s, "cmp", "rcx", i) /\ \A u : Pc(u) = Pc(s) + 1 => Here(c, u, "mov", 0, i)
        /\ \A u : Pc(u) = Pc(s) + 1 + 1 => Here(c, u, "set", op, i)
    BY <1>1, <1>2
  <1>. QED BY <1>1, <1>4, <1>6, <1>7, CompareTail, Zenon

\* The code of a division.
LEMMA QuotientOperates ==
  ASSUME NEW z \in Plain, z = Duo("cdq", "rdx", "idiv", "rcx")
  PROVE  Operates("/", z)
PROOF
  <1>1. SUFFICES ASSUME NEW c, NEW B, NEW s, NEW i, NEW p, Whole(c), i \in Int, Placed(c, J(z, i), p),
                        s \in State, Pc(s) = p + 1, Level(i, Stk(s)),
                        Fails("/", Reg(s)["rax"], Reg(s)["rcx"], Mem(s)) => \A t : Jammed(c, t) => t \in B,
                        \A t, v : /\ Gives("/", Reg(s)["rax"], Reg(s)["rcx"], Mem(s), v)
                                  /\ Computed(s, t, p + Len(J(z, i)) + 1, v)
                                  => Fine(t, c, B)
                 PROVE  Fine(s, c, B)
    BY SMTT(30) DEF Operates
  <1>2. /\ \A u : Pc(u) = p + 1 => Here(c, u, "cdq", "rdx", i)
        /\ \A u : Pc(u) = p + 1 + 1 => Here(c, u, "idiv", "rcx", i)
        /\ p + Len(J(z, i)) = p + 1 + 1
    BY <1>1, HereDuo
  <1>3. PICK x, y \in Word : x = Reg(s)["rax"] /\ y = Reg(s)["rcx"]
    BY <1>1, StateWords
  <1>4. Impossible(x, y) => \A t : Jammed(c, t) => t \in B
    <2>1. Impossible(x, y) => Fails("/", x, y, Mem(s))
      BY ApplyDivision
    <2>. QED BY <1>1, <1>3, <2>1
  <1>5. ~Impossible(x, y) => \A t : Computed(s, t, Pc(s) + 1 + 1, Quotient(x, y)) => Fine(t, c, B)
    <2>1. ~Impossible(x, y) => Gives("/", x, y, Mem(s), Quotient(x, y))
      BY ApplyDivision
    <2>. QED BY <1>1, <1>2, <1>3, <2>1
  <1>6. Here(c, s, "cdq", "rdx", i) /\ \A u : Pc(u) = Pc(s) + 1 => Here(c, u, "idiv", "rcx", i)
    BY <1>1, <1>2
  <1>. QED BY <1>1, <1>3, <1>4, <1>5, <1>6, DivideTail, Zenon

\* The code of a remainder.
LEMMA RemainderOperates ==
  ASSUME NEW z \in Plain, z = Trio("cdq", "rdx", "idiv", "rcx", "copy", "rdx")
  PROVE  Operates("%", z)
PROOF
  <1>1. SUFFICES ASSUME NEW c, NEW B, NEW s, NEW i, NEW p, Whole(c), i \in Int, Placed(c, J(z, i), p),
                        s \in State, Pc(s) = p + 1, Level(i, Stk(s)),
                        Fails("%", Reg(s)["rax"], Reg(s)["rcx"], Mem(s)) => \A t : Jammed(c, t) => t \in B,
                        \A t, v : /\ Gives("%", Reg(s)["rax"], Reg(s)["rcx"], Mem(s), v)
                                  /\ Computed(s, t, p + Len(J(z, i)) + 1, v)
                                  => Fine(t, c, B)
                 PROVE  Fine(s, c, B)
    BY SMTT(30) DEF Operates
  <1>2. /\ \A u : Pc(u) = p + 1 => Here(c, u, "cdq", "rdx", i)
        /\ \A u : Pc(u) = p + 1 + 1 => Here(c, u, "idiv", "rcx", i)
        /\ \A u : Pc(u) = p + 1 + 1 + 1 => Here(c, u, "copy", "rdx", i)
        /\ p + Len(J(z, i)) = p + 1 + 1 + 1
    BY <1>1, HereTrio
  <1>3. PICK x, y \in Word : x = Reg(s)["rax"] /\ y = Reg(s)["rcx"]
    BY <1>1, StateWords
  <1>4. Impossible(x, y) => \A t : Jammed(c, t) => t \in B
    <2>1. Impossible(x, y) => Fails("%", x, y, Mem(s))
      BY ApplyDivision
    <2>. QED BY <1>1, <1>3, <2>1
  <1>5. ASSUME ~Impossible(x, y),
               NEW t, Computed(s, t, Pc(s) + 1 + 1, Quotient(x, y)),
               Reg(t)["rdx"] = x - Quotient(x, y) * y
        PROVE  Fine(t, c, B)
    <2>1. Gives("%", x, y, Mem(s), x - Quotient(x, y) * y)
      <3>1. "%" # "/"
        OBVIOUS
      <3>2. Gives("%", x, y, Mem(s), IF "%" = "/" THEN Quotient(x, y) ELSE x - Quotient(x, y) * y)
        BY <1>5, ApplyDivision
      <3>. QED BY <3>1, <3>2, Zenon
    <2>2. PICK r \in Word : r = x - Quotient(x, y) * y
      BY <1>5, RemainderWord, Zenon DEF Impossible
    <2>3. /\ t \in State /\ Pc(t) = Pc(s) + 1 + 1 /\ Stk(t) = Stk(s) /\ Mem(t) = Mem(s)
          /\ Reg(t)["rdx"] = r
      BY <1>5, <2>2 DEF Computed
    <2>4. PICK u : u = SetReg(t, "rax", r)
      OBVIOUS
    <2>5. Computed(s, u, Pc(s) + 1 + 1 + 1, r)
      <3>1. "rax" \in Regs
        BY RegFacts
      <3>2. u \in State /\ Pc(u) = Pc(t) + 1 /\ Reg(u)["rax"] = r /\ Stk(u) = Stk(t) /\ Mem(u) = Mem(t)
        BY <2>3, <2>4, <3>1, SetRegIs, SMTT(30)
      <3>. QED BY <2>3, <3>2, Zenon DEF Computed
    <2>6. Fine(u, c, B)
      BY <1>1, <1>2, <1>3, <2>1, <2>2, <2>5
    <2>7. Fine(SetReg(t, "rax", Reg(t)["rdx"]), c, B)
      BY <2>3, <2>4, <2>6, Zenon
    <2>8. Here(c, t, "copy", "rdx", i) /\ Level(i, Stk(t))
      BY <1>1, <1>2, <2>3
    <2>. QED BY <2>3, <2>7, <2>8, CopyStep, Zenon
  <1>6. Here(c, s, "cdq", "rdx", i) /\ \A u : Pc(u) = Pc(s) + 1 => Here(c, u, "idiv", "rcx", i)
    BY <1>1, <1>2
  <1>. QED BY <1>1, <1>3, <1>4, <1>5, <1>6, DivideTail, Zenon

\* The code of the other operators.
LEMMA AluOperates ==
  ASSUME NEW op, op \in {"+", "-", "*", "&", "|", "^", "<<", ">>"}, NEW z \in Plain, z = Uno("alu", op)
  PROVE  Operates(op, z)
PROOF
  <1>1. SUFFICES ASSUME NEW c, NEW B, NEW s, NEW i, NEW p, Whole(c), i \in Int, Placed(c, J(z, i), p),
                        s \in State, Pc(s) = p + 1, Level(i, Stk(s)),
                        \A t, v : /\ Gives(op, Reg(s)["rax"], Reg(s)["rcx"], Mem(s), v)
                                  /\ Computed(s, t, p + Len(J(z, i)) + 1, v)
                                  => Fine(t, c, B)
                 PROVE  Fine(s, c, B)
    BY SMTT(30) DEF Operates
  <1>2. /\ \A u : Pc(u) = p + 1 => Here(c, u, "alu", op, i)
        /\ p + Len(J(z, i)) = p + 1
    BY <1>1, HereUno
  <1>3. PICK x, y \in Word : x = Reg(s)["rax"] /\ y = Reg(s)["rcx"]
    BY <1>1, StateWords
  <1>4. PICK v \in Word : v = Alu(op, x, y)
    BY AluWord
  <1>5. Gives(op, x, y, Mem(s), v)
    BY <1>4, ApplyAlu
  <1>6. PICK t : t = SetReg(s, "rax", v)
    OBVIOUS
  <1>7. Computed(s, t, Pc(s) + 1, v)
    BY <1>1, <1>6, RegFacts, SetRegFacts DEF Computed
  <1>8. Fine(t, c, B)
    BY <1>1, <1>2, <1>3, <1>5, <1>7
  <1>9. Fine(SetReg(s, "rax", Alu(op, Reg(s)["rax"], Reg(s)["rcx"])), c, B)
    BY <1>3, <1>4, <1>6, <1>8, Zenon
  <1>10. Here(c, s, "alu", op, i)
    BY <1>1, <1>2
  <1>. QED BY <1>1, <1>9, <1>10, AluStep, Zenon

\* The code of every operator does what C says, or traps where C says nothing.
LEMMA AllOperate ==
  ASSUME NEW e, IsOrdinary(e)
  PROVE  Operates(e[2], BinaryCode(e[2])) /\ BinaryCode(e[2]) \in Plain
PROOF
  <1>1. PICK op \in Ordinary : op = e[2]
    BY Zenon DEF IsOrdinary
  <1>2. PICK z \in Plain : z = BinaryCode(op)
    BY <1>1, OperandFacts, BinaryCodeType
  <1>3. CASE op \in Comparisons
    <2>1. z = Trio("cmp", "rcx", "mov", 0, "set", op)
      BY <1>2, <1>3, BinaryCodeIs, Zenon
    <2>. QED BY <1>1, <1>2, <1>3, <2>1, ComparisonOperates, Zenon
  <1>4. CASE op = "/"
    <2>1. z = Duo("cdq", "rdx", "idiv", "rcx")
      BY <1>2, <1>4, BinaryCodeIs, Zenon
    <2>. QED BY <1>1, <1>2, <1>4, <2>1, QuotientOperates, Zenon
  <1>5. CASE op = "%"
    <2>1. z = Trio("cdq", "rdx", "idiv", "rcx", "copy", "rdx")
      BY <1>2, <1>5, BinaryCodeIs, Zenon
    <2>. QED BY <1>1, <1>2, <1>5, <2>1, RemainderOperates, Zenon
  <1>6. CASE op \in {"+", "-", "*", "&", "|", "^", "<<", ">>"}
    <2>1. z = Uno("alu", op)
      BY <1>2, <1>6, BinaryCodeIs, Zenon
    <2>. QED BY <1>1, <1>2, <1>6, <2>1, AluOperates, Zenon
  <1>. QED BY <1>3, <1>4, <1>5, <1>6, ComparisonOps, Zenon
\* What the operands give makes what the operator gives.
LEMMA OrdinaryGot ==
  ASSUME NEW e, IsOrdinary(e), ~Void(e[3]), ~Void(e[4]), NEW m \in Memory, NEW b, NEW n,
         Got(e[4], m, b, n)
  PROVE  /\ Bad(e[3], n) => Bad(e, m)
         /\ \A a, t : Got(e[3], n, a, t) =>
              /\ Fails(e[2], a, b, t) => Bad(e, m)
              /\ \A v : Gives(e[2], a, b, t, v) => Got(e, m, v, t)
PROOF
  <1>1. Bad(e[4], m) \/ Yields(e[4], m, b, n)
    BY GotValue
  <1>2. CASE Bad(e[4], m)
    BY <1>2, OrdinaryYields, Zenon DEF Got
  <1>3. CASE Yields(e[4], m, b, n)
    <2>1. Bad(e[3], n) => Bad(e, m)
      BY <1>3, OrdinaryYields, Zenon
    <2>2. ASSUME NEW a, NEW t, Got(e[3], n, a, t)
          PROVE  /\ Fails(e[2], a, b, t) => Bad(e, m)
                 /\ \A v : Gives(e[2], a, b, t, v) => Got(e, m, v, t)
      <3>1. Bad(e[3], n) \/ Yields(e[3], n, a, t)
        BY <2>2, GotValue
      <3>2. CASE Bad(e[3], n)
        BY <2>1, <3>2, Zenon DEF Got
      <3>3. CASE Yields(e[3], n, a, t)
        <4>1. \A o \in Apply(e[2], a, b, t) : o \in C(e, m)
          BY <1>3, <3>3, OrdinaryYields, Zenon
        <4>2. Fails(e[2], a, b, t) => Bad(e, m)
          BY <4>1, Zenon DEF Fails, Bad
        <4>3. \A v : Out(v, t) \in Apply(e[2], a, b, t) => Yields(e, m, v, t)
          BY <4>1, Zenon DEF Yields
        <4>. QED BY <4>2, <4>3, Zenon DEF Gives, Got
      <3>. QED BY <3>1, <3>2, <3>3
    <2>. QED BY <2>1, <2>2
  <1>. QED BY <1>1, <1>2, <1>3

\* The state behind a pop.
LEMMA PoppedFacts ==
  ASSUME NEW s \in State, NEW x \in Regs, NEW k \in Seq(Word), k = Shrink(Stk(s)),
         NEW v \in Word, v = Top(Stk(s))
  PROVE  /\ Popped(s, x) \in State /\ Pc(Popped(s, x)) = Pc(s) + 1
         /\ Reg(Popped(s, x))[x] = v
         /\ \A y \in Regs : y # x => Reg(Popped(s, x))[y] = Reg(s)[y]
         /\ Stk(Popped(s, x)) = k /\ Mem(Popped(s, x)) = Mem(s)
PROOF
  <1>1. /\ Pc(s) + 1 \in Nat /\ Reg(s) \in RegFile /\ Flg(s) \in Flags /\ Mem(s) \in Memory
    BY StateFacts
  <1>2. PICK r : r = Set(Reg(s), x, v) /\ r \in RegFile /\ r[x] = v
                 /\ \A y \in Regs : y # x => r[y] = Reg(s)[y]
    BY <1>1, SetFacts
  <1>3. Popped(s, x) = St(Pc(s) + 1, r, Flg(s), k, Mem(s))
    BY <1>2, Zenon DEF Popped
  <1>. QED BY <1>1, <1>2, <1>3, StFacts

\* A slot that was pushed, and what code behind it left above it, gives the slot
\* back when all that code left is gone.
LEMMA SlotFacts ==
  ASSUME NEW k \in Seq(Word), NEW v \in Word, NEW h \in Seq(Word), Over(h, Grow(k, v))
  PROVE  /\ Shrink(h) \in Seq(Word) /\ Top(h) \in Word /\ Over(Shrink(h), k)
         /\ Exact => Top(h) = v
         /\ \A i \in Int : Level(i, h) => Level(i - 8, Shrink(h))
PROOF
  <1>1. PICK g \in Seq(Word) : g = Grow(k, v) /\ Len(g) = Len(k) + 2 /\ Len(k) \in Nat
                               /\ Top(g) = v /\ Shrink(g) = k
    BY GrowFacts
  <1>2. Len(h) >= Len(g) /\ (Exact => h = g) /\ Len(h) \in Nat
    BY <1>1 DEF Over
  <1>3. Len(h) >= 2
    BY <1>1, <1>2
  <1>4. Shrink(h) \in Seq(Word) /\ Len(Shrink(h)) = Len(h) - 2 /\ Top(h) \in Word
    BY <1>3, ShrinkFacts
  <1>5. Exact => Shrink(h) = k /\ Top(h) = v
    BY <1>1, <1>2
  <1>6. Len(Shrink(h)) >= Len(k)
    BY <1>1, <1>2, <1>4
  <1>7. ASSUME NEW i \in Int, Level(i, h) PROVE Level(i - 8, Shrink(h))
    BY <1>2, <1>4, <1>7 DEF Level
  <1>. QED BY <1>4, <1>5, <1>6, <1>7 DEF Over

\* push %rax
LEMMA PushTail ==
  ASSUME NEW c, NEW B, NEW s \in State, NEW i \in Int, Level(i, Stk(s)), Here(c, s, "push", "rax", i),
         NEW v, v = Reg(s)["rax"], NEW k, k = Grow(Stk(s), v),
         \A t : /\ t \in State /\ Pc(t) = Pc(s) + 1 /\ Stk(t) = k /\ Mem(t) = Mem(s) /\ Level(i + 8, k)
                => Fine(t, c, B)
  PROVE  Fine(s, c, B)
PROOF
  <1>1. v \in Word /\ Stk(s) \in Seq(Word)
    BY StateWords, StateFacts
  <1>2. k \in Seq(Word) /\ Len(k) = Len(Stk(s)) + 2 /\ Len(Stk(s)) \in Nat
    BY <1>1, GrowFacts
  <1>3. Level(i + 8, k)
    BY <1>2 DEF Level
  <1>4. PICK t : t = SetStk(s, k)
    OBVIOUS
  <1>5. t \in State /\ Pc(t) = Pc(s) + 1 /\ Stk(t) = k /\ Mem(t) = Mem(s)
    BY <1>2, <1>4, SetStkFacts
  <1>6. Fine(t, c, B)
    BY <1>3, <1>5
  <1>7. Fine(SetStk(s, Grow(Stk(s), Reg(s)["rax"])), c, B)
    BY <1>4, <1>6
  <1>. QED BY <1>7, PushStep, Zenon

\* The code behind the right operand: push, the left operand, pop, the operator.
LEMMA OrdinaryEnding ==
  ASSUME NEW e, IsOrdinary(e), ~Void(e[3]), ~Void(e[4]), NEW b, NEW j \in Int, NEW r,
         Layout(b, j + 8, r), Works(e[3], b, j + 8), NEW h \in Int, h = IndexOf(b),
         NEW f \in Seq(Instr), f = One(I("push", "rax", j)), NEW d \in Seq(Instr), d = CodeOf(b),
         NEW g \in Seq(Instr), g = One(I("pop", "rcx", h)), NEW z \in Seq(Instr),
         z = J(BinaryCode(e[2]), h - 8)
  PROVE  Ending(e[4], e, Cat(Cat(Cat(f, d), g), z), j)
PROOF
  <1>1. SUFFICES ASSUME NEW c, NEW p, NEW t, NEW k, NEW m, Whole(c), Placed(c, Cat(Cat(Cat(f, d), g), z), p),
                        t \in State, m \in Memory, k \in Seq(Word), Pc(t) = p + 1, Level(j, Stk(t)),
                        Over(Stk(t), k), Exact => Got(e[4], m, Reg(t)["rax"], Mem(t))
                 PROVE  Fine(t, c, Ends(c, e, p + Len(Cat(Cat(Cat(f, d), g), z)), k, m))
    BY SMTT(30) DEF Ending
  <1>2. PICK q1 \in Seq(Instr), q2 \in Seq(Instr) : q1 = Cat(f, d) /\ q2 = Cat(q1, g)
    BY CatSeq
  <1>3. PICK o, w, y : o = p + Len(f) /\ w = o + Len(d) /\ y = w + Len(g)
    OBVIOUS
  <1>4. /\ Placed(c, q2, p) /\ Placed(c, z, p + Len(q2))
        /\ p + Len(Cat(q2, z)) = (p + Len(q2)) + Len(z)
    BY <1>1, <1>2, PlacedCat
  <1>5. Placed(c, q1, p) /\ Placed(c, g, p + Len(q1)) /\ p + Len(q2) = (p + Len(q1)) + Len(g)
    <2>1. Whole(c) /\ Placed(c, Cat(q1, g), p)
      BY <1>1, <1>2, <1>4, Zenon
    <2>. QED BY <1>2, <2>1, PlacedCat, SMTT(30)
  <1>6. Placed(c, f, p) /\ Placed(c, d, p + Len(f)) /\ p + Len(q1) = (p + Len(f)) + Len(d)
    BY <1>1, <1>2, <1>5, PlacedCat
  <1>7. /\ Placed(c, f, p) /\ Placed(c, d, o) /\ Placed(c, g, w) /\ Placed(c, z, y)
        /\ p + Len(Cat(q2, z)) = y + Len(z)
    BY <1>3, <1>4, <1>5, <1>6
  <1>8. Here(c, t, "push", "rax", j) /\ o = p + 1
    <2>1. Placed(c, One(I("push", "rax", j)), p)
      BY <1>7
    <2>2. Here(c, t, "push", "rax", j)
      BY <1>1, <2>1, HereOne
    <2>3. Len(f) = 1
      BY OneFacts
    <2>. QED BY <1>3, <2>2, <2>3
  <1>9. y = w + 1 /\ \A u : Pc(u) = w + 1 => Here(c, u, "pop", "rcx", h)
    <2>1. Placed(c, One(I("pop", "rcx", h)), w)
      BY <1>7
    <2>2. ASSUME NEW u, Pc(u) = w + 1 PROVE Here(c, u, "pop", "rcx", h)
      BY <1>1, <2>1, <2>2, HereOne
    <2>3. Len(g) = 1
      BY OneFacts
    <2>. QED BY <1>3, <2>2, <2>3
  <1>10. PICK B : B = Ends(c, e, y + Len(z), k, m) /\ Halts(c, e, m, B)
    BY EndsFacts
  <1>11. PICK v \in Word : v = Reg(t)["rax"]
    BY <1>1, StateWords
  <1>12. PICK s : s = Grow(Stk(t), v)
    OBVIOUS
  <1>13. s \in Seq(Word) /\ Stk(t) \in Seq(Word)
    BY <1>1, <1>11, <1>12, StateFacts, GrowFacts
  <1>14. Exact => Got(e[4], m, v, Mem(t))
    BY <1>1, <1>11
  <1>15. Exact /\ Bad(e[3], Mem(t)) => Bad(e, m)
    BY <1>1, <1>14, OrdinaryGot
  <1>16. ASSUME NEW u, u \in State, Pc(u) = w + 1, Over(Stk(u), s),
                Exact => Got(e[3], Mem(t), Reg(u)["rax"], Mem(u))
         PROVE  Fine(u, c, B)
    <2>1. PICK k1 \in Seq(Word), v1 \in Word :
            /\ k1 = Shrink(Stk(u)) /\ v1 = Top(Stk(u)) /\ Over(k1, Stk(t)) /\ (Exact => v1 = v)
            /\ \A i \in Int : Level(i, Stk(u)) => Level(i - 8, k1)
      <3>1. PICK x \in Seq(Word) : x = Stk(u)
        BY <1>16, StateFacts
      <3>2. Over(x, Grow(Stk(t), v))
        BY <1>12, <1>16, <3>1, Zenon
      <3>3. /\ Shrink(x) \in Seq(Word) /\ Top(x) \in Word /\ Over(Shrink(x), Stk(t))
            /\ Exact => Top(x) = v
            /\ \A i \in Int : Level(i, x) => Level(i - 8, Shrink(x))
        BY <1>11, <1>13, <3>2, SlotFacts, Zenon
      <3>. QED BY <3>1, <3>3, Zenon
    <2>2. Level(h, Stk(u))
      <3>1. Level(j + 8, s)
        <4>1. Len(s) = Len(Stk(t)) + 2 /\ Len(Stk(t)) \in Nat
          BY <1>11, <1>12, <1>13, GrowFacts
        <4>2. PICK n \in Nat : n = Len(Stk(t)) /\ Len(s) = n + 2
          BY <4>1
        <4>3. ASSUME Exact PROVE 4 * Len(s) = j + 8
          <5>1. 4 * n = j
            BY <1>1, <4>2, <4>3, Zenon DEF Level
          <5>2. 4 * (n + 2) = 4 * n + 8
            OBVIOUS
          <5>. QED BY <4>2, <5>1, <5>2, Zenon
        <4>. QED BY <4>3, Zenon DEF Level
      <3>2. Exact => h = j + 8
        BY LayoutFacts
      <3>. QED BY <1>16, <3>1, <3>2, LevelOver, Zenon
    <2>3. PICK x : x = Popped(u, "rcx")
      OBVIOUS
    <2>4. PICK v2 \in Word : v2 = Reg(u)["rax"]
      BY <1>16, StateWords
    <2>5. /\ x \in State /\ Pc(x) = Pc(u) + 1 /\ Stk(x) = k1 /\ Mem(x) = Mem(u)
          /\ Reg(x)["rcx"] = v1 /\ \A z1 \in Regs : z1 # "rcx" => Reg(x)[z1] = Reg(u)[z1]
      <3>1. PICK x1 \in Regs : x1 = "rcx"
        BY RegFacts
      <3>2. /\ Popped(u, x1) \in State /\ Pc(Popped(u, x1)) = Pc(u) + 1
            /\ Stk(Popped(u, x1)) = k1 /\ Mem(Popped(u, x1)) = Mem(u) /\ Reg(Popped(u, x1))[x1] = v1
            /\ \A z1 \in Regs : z1 # x1 => Reg(Popped(u, x1))[z1] = Reg(u)[z1]
        BY <1>16, <2>1, PoppedFacts
      <3>. QED BY <2>3, <3>1, <3>2, Zenon
    <2>6. Reg(x)["rax"] = v2
      <3>1. "rax" # "rcx"
        OBVIOUS
      <3>. QED BY <2>4, <2>5, <3>1, RegFacts, Zenon
    <2>7. Exact => Got(e[3], Mem(t), v2, Mem(u)) /\ Got(e[4], m, v1, Mem(t))
      BY <1>14, <1>16, <2>1, <2>4
    <2>8. Exact => /\ Fails(e[2], v2, v1, Mem(u)) => Bad(e, m)
                   /\ \A a : Gives(e[2], v2, v1, Mem(u), a) => Got(e, m, a, Mem(u))
      <3>1. ASSUME Exact
            PROVE  /\ Fails(e[2], v2, v1, Mem(u)) => Bad(e, m)
                   /\ \A a : Gives(e[2], v2, v1, Mem(u), a) => Got(e, m, a, Mem(u))
        <4>1. Got(e[3], Mem(t), v2, Mem(u)) /\ Got(e[4], m, v1, Mem(t))
          BY <2>7, <3>1
        <4>2. \A a1, t1 : Got(e[3], Mem(t), a1, t1) =>
                /\ Fails(e[2], a1, v1, t1) => Bad(e, m)
                /\ \A a : Gives(e[2], a1, v1, t1, a) => Got(e, m, a, t1)
          BY <1>1, <4>1, OrdinaryGot
        <4>. QED BY <4>1, <4>2, Zenon
      <3>. QED BY <3>1
    <2>9. Fails(e[2], v2, v1, Mem(u)) => \A t1 : Jammed(c, t1) => t1 \in B
      <3>1. ASSUME Fails(e[2], v2, v1, Mem(u)), NEW t1, Jammed(c, t1) PROVE t1 \in B
        <4>1. t1 \in State /\ Stuck(c, t1, e, m)
          BY <2>8, <3>1, Zenon DEF Jammed, Stuck
        <4>. QED BY <1>10, <4>1, Zenon DEF Halts
      <3>. QED BY <3>1
    <2>10. ASSUME NEW t1, NEW a, Gives(e[2], v2, v1, Mem(u), a),
                  Computed(x, t1, y + Len(z) + 1, a)
           PROVE  Fine(t1, c, B)
      <3>1. /\ t1 \in State /\ Pc(t1) = y + Len(z) + 1 /\ Stk(t1) = k1 /\ Mem(t1) = Mem(u)
            /\ Reg(t1)["rax"] = a
        BY <2>5, <2>10 DEF Computed
      <3>2. Exact => Got(e, m, Reg(t1)["rax"], Mem(t1))
        BY <2>8, <2>10, <3>1
      <3>3. Over(Stk(t1), k)
        BY <1>1, <1>13, <2>1, <3>1, OverFacts
      <3>. QED BY <1>10, <3>1, <3>2, <3>3, Finished, Zenon
    <2>11. Fine(x, c, B)
      <3>1. PICK i \in Int : i = h - 8
        OBVIOUS
      <3>2. Placed(c, J(BinaryCode(e[2]), i), y) /\ Level(i, Stk(x)) /\ Pc(x) = y + 1
        BY <1>7, <1>9, <1>16, <2>1, <2>2, <2>5, <3>1
      <3>3. z = J(BinaryCode(e[2]), i)
        BY <3>1
      <3>4. /\ Fails(e[2], Reg(x)["rax"], Reg(x)["rcx"], Mem(x)) => \A t1 : Jammed(c, t1) => t1 \in B
            /\ \A t1, a : /\ Gives(e[2], Reg(x)["rax"], Reg(x)["rcx"], Mem(x), a)
                          /\ Computed(x, t1, y + Len(J(BinaryCode(e[2]), i)) + 1, a)
                          => Fine(t1, c, B)
        BY <2>5, <2>6, <2>9, <2>10, <3>3
      <3>5. Operates(e[2], BinaryCode(e[2]))
        BY AllOperate
      <3>. QED BY <1>1, <2>5, <3>2, <3>4, <3>5, Zenon DEF Operates
    <2>12. Here(c, u, "pop", "rcx", h)
      BY <1>9, <1>16
    <2>13. Fine(Popped(u, "rcx"), c, B)
      BY <2>3, <2>11, Zenon
    <2>. QED BY <1>16, <2>2, <2>12, <2>13, PopStep, Zenon
  <1>17. ASSUME NEW u, u \in State, Pc(u) = o + 1, Stk(u) = s, Mem(u) = Mem(t), Level(j + 8, s)
         PROVE  Fine(u, c, B)
    <2>1. ASSUME NEW t1 \in State, Ended(t1, e[3], w, Stk(u), Mem(u)) PROVE Fine(t1, c, B)
      <3>1. /\ Pc(t1) = w + 1 /\ Over(Stk(t1), s)
            /\ Exact => Got(e[3], Mem(t), Reg(t1)["rax"], Mem(t1))
        BY <1>17, <2>1 DEF Ended
      <3>. QED BY <1>16, <2>1, <3>1, Zenon
    <2>2. \A t1 \in State : Ended(t1, e[3], o + Len(CodeOf(b)), Stk(u), Mem(u)) => Fine(t1, c, B)
      BY <1>3, <2>1
    <2>3. Exact /\ Bad(e[3], Mem(u)) => Bad(e, m)
      BY <1>15, <1>17
    <2>4. Placed(c, CodeOf(b), o) /\ Level(j + 8, Stk(u))
      BY <1>7, <1>17
    <2>. QED BY <1>1, <1>10, <1>17, <2>2, <2>3, <2>4, RunPart
  <1>18. Fine(t, c, B)
    <2>1. \A u : u \in State /\ Pc(u) = Pc(t) + 1 /\ Stk(u) = s /\ Mem(u) = Mem(t) /\ Level(j + 8, s)
                 => Fine(u, c, B)
      BY <1>1, <1>8, <1>17
    <2>. QED BY <1>1, <1>8, <1>11, <1>12, <2>1, PushTail, Zenon
  <1>. QED BY <1>2, <1>7, <1>10, <1>18, Zenon

\* The code of the other binary operators does: the value of the right operand lies on
\* the stack while the left one is evaluated.
LEMMA OrdinaryWorks ==
  ASSUME NEW e, IsOrdinary(e), ~Void(e[3]), ~Void(e[4]), NEW a, NEW b, NEW i, NEW l,
         Layout(a, i, l), Layout(b, IndexOf(a) + 8, LabelsOf(a)),
         Works(e[4], a, i), Works(e[3], b, IndexOf(a) + 8)
  PROVE  Works(e, OrdinaryCx(a, b, BinaryCode(e[2])), i)
PROOF
  <1>1. PICK j \in Int, h \in Int, r \in Nat : j = IndexOf(a) /\ h = IndexOf(b) /\ r = LabelsOf(a)
    BY LayoutFacts
  <1>2. PICK s \in Seq(Instr), d \in Seq(Instr) : s = CodeOf(a) /\ d = CodeOf(b)
    BY LayoutFacts
  <1>3. PICK f \in Seq(Instr) : f = One(I("push", "rax", j))
    BY OpFacts, ArgFacts, InstrType, OneSeq
  <1>4. PICK g \in Seq(Instr) : g = One(I("pop", "rcx", h))
    BY OpFacts, ArgFacts, InstrType, OneSeq
  <1>5. PICK z \in Seq(Instr) : z = J(BinaryCode(e[2]), h - 8)
    <2>1. BinaryCode(e[2]) \in Plain /\ h - 8 \in Int
      BY AllOperate
    <2>. QED BY <2>1, JSeq
  <1>6. Layout(b, j + 8, r) /\ Works(e[3], b, j + 8)
    BY <1>1
  <1>7. Ending(e[4], e, Cat(Cat(Cat(f, d), g), z), j)
    BY <1>1, <1>2, <1>3, <1>4, <1>5, <1>6, OrdinaryEnding
  <1>8. PICK q1 \in Seq(Instr), q2 \in Seq(Instr), q \in Seq(Instr) :
          q1 = Cat(f, d) /\ q2 = Cat(q1, g) /\ q = Cat(q2, z)
    BY CatSeq
  <1>9. CodeOf(OrdinaryCx(a, b, BinaryCode(e[2]))) = Cat(s, q)
    <2>1. CodeOf(OrdinaryCx(a, b, BinaryCode(e[2]))) = Cat(Cat(Cat(Cat(s, f), d), g), z)
      BY <1>1, <1>2, <1>3, <1>4, <1>5, CxFacts DEF OrdinaryCx
    <2>2. Cat(Cat(s, f), d) = Cat(s, q1)
      BY <1>8, CatAssociative
    <2>3. Cat(Cat(s, q1), g) = Cat(s, q2)
      BY <1>8, CatAssociative
    <2>4. Cat(Cat(s, q2), z) = Cat(s, q)
      BY <1>8, CatAssociative
    <2>. QED BY <2>1, <2>2, <2>3, <2>4
  <1>10. \A m \in Memory : Bad(e[4], m) => Bad(e, m)
    BY OrdinaryYields
  <1>11. /\ Ending(e[4], e, q, IndexOf(a))
         /\ CodeOf(OrdinaryCx(a, b, BinaryCode(e[2]))) = Cat(CodeOf(a), q)
    BY <1>1, <1>2, <1>7, <1>8, <1>9
  <1>. QED BY <1>10, <1>11, Frame, Zenon
-----------------------------------------------------------------------------
(***************************************************************************)
(* Calls.                                                                  *)
(***************************************************************************)
LEMMA Downwards ==
  ASSUME NEW n \in Nat, NEW S, n \in S, \A k \in 1 .. n : k \in S => k - 1 \in S
  PROVE  0 .. n \subseteq S
PROOF
  <1> DEFINE T == {d \in 0 .. n : n - d \in S}
  <1>1. 0 \in T
    OBVIOUS
  <1>2. ASSUME NEW d \in 0 .. n - 1, d \in T PROVE d + 1 \in T
    <2>1. n - d \in 1 .. n /\ n - d \in S /\ d + 1 \in 0 .. n /\ (n - d) - 1 = n - (d + 1)
      BY <1>2
    <2>2. n - (d + 1) \in S
      BY <2>1
    <2>. QED BY <2>1, <2>2
  <1> HIDE DEF T
  <1>3. 0 .. n \subseteq T
    BY <1>1, <1>2, Upwards
  <1>4. ASSUME NEW k \in 0 .. n PROVE k \in S
    <2>1. n - k \in 0 .. n /\ n - (n - k) = k
      OBVIOUS
    <2>2. n - k \in T
      BY <1>3, <2>1
    <2>3. n - (n - k) \in S
      BY <2>2 DEF T
    <2>. QED BY <2>1, <2>3
  <1>. QED BY <1>4

\* The code evaluates the arguments from the last to the first.
Backwards(n) == [q \in 1 .. n |-> n + 1 - q]
Ev(e, m) == Evaluated(CValues, e[3], Backwards(Len(e[3])), m)

\* Last to first is one of the orders.
LEMMA BackwardsFacts ==
  ASSUME NEW n \in Nat
  PROVE  /\ Backwards(n) \in Orders(n)
         /\ \A q \in 1 .. n : Backwards(n)[q] = n + 1 - q /\ n + 1 - q \in 1 .. n
PROOF
  <1>1. \A q \in 1 .. n : Backwards(n)[q] = n + 1 - q /\ n + 1 - q \in 1 .. n
    BY DEF Backwards
  <1>2. Backwards(n) \in [1 .. n -> 1 .. n]
    BY <1>1 DEF Backwards
  <1>3. \A q, r \in 1 .. n : Backwards(n)[q] = Backwards(n)[r] => q = r
    BY <1>1
  <1>. QED BY <1>1, <1>2, <1>3 DEF Orders

\* The outcomes of the arguments in that order.
LEMMA EvFacts ==
  ASSUME NEW e, Kind(e, "call"), NEW m \in Memory
  PROVE  ArgsRun(Ev(e, m), CValues, e[3], Backwards(Len(e[3])), m)
PROOF
  <1>1. Len(e[3]) \in Nat /\ \A i \in 1 .. Len(e[3]) : e[3][i] \in Parts(e)
    BY CallFacts
  <1>2. ValsTyped(CValues, Parts(e))
    BY CValuesTyped DEF Kind
  <1>3. Tuple(e[3], Parts(e))
    BY <1>1 DEF Tuple
  <1>4. Indices(Backwards(Len(e[3])), Len(e[3]))
    BY <1>1, BackwardsFacts, OrdersFacts
  <1>. QED BY <1>2, <1>3, <1>4, EvaluatedIs DEF Ev

\* What the arguments give makes what the call gives.
LEMMA CallYields ==
  ASSUME NEW e, Kind(e, "call"), NEW m \in Memory, NEW n, n = Len(e[3]),
         NEW f, f = Ev(e, m)
  PROVE  /\ Out(Zeros(n), m) \in f[0]
         /\ \A j \in 1 .. n : \A v, t : Out(v, t) \in f[j - 1] /\ Bad(e[3][n + 1 - j], t) => Bad(e, m)
         /\ \A j \in 1 .. n : \A v, t, w, u :
              Out(v, t) \in f[j - 1] /\ Yields(e[3][n + 1 - j], t, w, u)
              => Out(With(v, n + 1 - j, w), u) \in f[j]
         /\ \A v, t : Out(v, t) \in f[n] => Yields(e, m, Result(e[2], v, t), After(e[2], v, t))
PROOF
  <1>0. n \in Nat /\ e \in Exps
    BY CallFacts DEF Kind
  <1>1. /\ Out(Zeros(n), m) \in f[0]
        /\ \A k \in 1 .. n : \A o :
             o \in f[k] <=> \E p \in f[k - 1] :
               ArgThen(CValues, e[3][Backwards(n)[k]], Backwards(n)[k], p, o)
    BY EvFacts DEF ArgsRun
  <1>2. \A k \in 1 .. n : Backwards(n)[k] = n + 1 - k
    BY <1>0, BackwardsFacts
  <1>3. \A k \in 1 .. n : \A o, p :
          p \in f[k - 1] /\ ArgThen(CValues, e[3][n + 1 - k], n + 1 - k, p, o) => o \in f[k]
    BY <1>1, <1>2
  <1>4. ASSUME NEW o, NEW p, p \in f[n], CallThen(e, p, o) PROVE o \in C(e, m)
    <2>1. Backwards(n) \in Orders(n)
      BY <1>0, BackwardsFacts
    <2>2. p \in Evaluated(CValues, e[3], Backwards(n), m)[n]
      BY <1>4 DEF Ev
    <2>3. Can(CValues, e, m, o)
      BY <1>4, <2>1, <2>2, CallRule, Zenon
    <2>. QED BY <1>0, <2>3, CRule
  <1>5. ASSUME NEW v, NEW t, Out(v, t) \in f[n]
        PROVE  Yields(e, m, Result(e[2], v, t), After(e[2], v, t))
    <2>1. PICK p : p = Out(v, t)
      OBVIOUS
    <2>2. IsOk(p) /\ ValueOf(p) = v /\ StoreOf(p) = t
      BY <2>1, OutParts, Zenon
    <2>3. CallThen(e, p, Out(Result(e[2], v, t), After(e[2], v, t)))
      BY <2>2, Zenon DEF CallThen
    <2>. QED BY <1>4, <1>5, <2>1, <2>3, Zenon DEF Yields
  <1> DEFINE S == {k \in 0 .. n : (\E o \in f[k] : ~IsOk(o)) => Bad(e, m)}
  <1>6. n \in S
    <2>1. ASSUME NEW o \in f[n], ~IsOk(o) PROVE Bad(e, m)
      <3>1. CallThen(e, o, o)
        BY <2>1, Zenon DEF CallThen
      <3>2. o \in C(e, m)
        BY <1>4, <3>1, Zenon
      <3>. QED BY <2>1, <3>2, BadOutcome, Zenon
    <2>. QED BY <1>0, <2>1
  <1>7. ASSUME NEW k \in 1 .. n, k \in S PROVE k - 1 \in S
    <2>1. ASSUME NEW o \in f[k - 1], ~IsOk(o) PROVE Bad(e, m)
      <3>1. ArgThen(CValues, e[3][n + 1 - k], n + 1 - k, o, o)
        BY <2>1, Zenon DEF ArgThen
      <3>2. o \in f[k]
        BY <1>3, <3>1, Zenon
      <3>. QED BY <1>7, <2>1, <3>2
    <2>2. k - 1 \in 0 .. n
      BY <1>0
    <2>. QED BY <2>1, <2>2
  <1> HIDE DEF S
  <1>8. 0 .. n \subseteq S
    BY <1>0, <1>6, <1>7, Downwards
  <1>9. \A k \in 0 .. n : \A o \in f[k] : ~IsOk(o) => Bad(e, m)
    BY <1>8 DEF S
  <1>10. ASSUME NEW j \in 1 .. n, NEW v, NEW t, Out(v, t) \in f[j - 1],
                NEW q \in C(e[3][n + 1 - j], t)
         PROVE  /\ ~IsOk(q) => Bad(e, m)
                /\ IsOk(q) => Out(With(v, n + 1 - j, ValueOf(q)), StoreOf(q)) \in f[j]
    <2>1. PICK p : p = Out(v, t)
      OBVIOUS
    <2>2. IsOk(p) /\ ValueOf(p) = v /\ StoreOf(p) = t
      BY <2>1, OutParts, Zenon
    <2>3. q \in V(CValues, e[3][n + 1 - j], StoreOf(p))
      BY <1>10, <2>2 DEF C
    <2>4. CASE ~IsOk(q)
      <3>1. ArgThen(CValues, e[3][n + 1 - j], n + 1 - j, p, q)
        BY <2>2, <2>3, <2>4, Zenon DEF ArgThen
      <3>2. q \in f[j]
        BY <1>3, <1>10, <2>1, <3>1, Zenon
      <3>3. j \in 0 .. n
        BY <1>0
      <3>. QED BY <1>9, <2>4, <3>2, <3>3, Zenon
    <2>5. CASE IsOk(q)
      <3>1. ArgThen(CValues, e[3][n + 1 - j], n + 1 - j, p, Out(With(v, n + 1 - j, ValueOf(q)), StoreOf(q)))
        BY <2>2, <2>3, <2>5, Zenon DEF ArgThen
      <3>2. Out(With(v, n + 1 - j, ValueOf(q)), StoreOf(q)) \in f[j]
        BY <1>3, <1>10, <2>1, <3>1, Zenon
      <3>. QED BY <2>5, <3>2
    <2>. QED BY <2>4, <2>5
  <1>11. \A j \in 1 .. n : \A v, t : Out(v, t) \in f[j - 1] /\ Bad(e[3][n + 1 - j], t) => Bad(e, m)
    BY <1>10, Zenon DEF Bad
  <1>12. ASSUME NEW j \in 1 .. n, NEW v, NEW t, NEW w, NEW u, Out(v, t) \in f[j - 1],
                Yields(e[3][n + 1 - j], t, w, u)
         PROVE  Out(With(v, n + 1 - j, w), u) \in f[j]
    <2>1. PICK q : q = Out(w, u)
      OBVIOUS
    <2>2. IsOk(q) /\ ValueOf(q) = w /\ StoreOf(q) = u
      BY <2>1, OutParts, Zenon
    <2>3. q \in C(e[3][n + 1 - j], t)
      BY <1>12, <2>1, Zenon DEF Yields
    <2>4. Out(With(v, n + 1 - j, ValueOf(q)), StoreOf(q)) \in f[j]
      BY <1>10, <1>12, <2>2, <2>3, Zenon
    <2>. QED BY <2>2, <2>4, Zenon
  <1>. QED BY <1>1, <1>5, <1>11, <1>12

\* The stack h: the arguments behind the first n - j are on it, above k; v has
\* their values.
Held(h, k, j, v, n) ==
  /\ Len(h) = Len(k) + 2 * j /\ \A q \in 1 .. Len(k) : h[q] = k[q]
  /\ \A q \in 1 .. j : h[Len(k) + 2 * q] = v[n + 1 - q]

\* No argument on the stack.
LEMMA HeldNone ==
  ASSUME NEW h \in Seq(Word), NEW k \in Seq(Word), NEW v, NEW n
  PROVE  Held(k, k, 0, v, n) /\ (Held(h, k, 0, v, n) => h = k)
PROOF
  <1>1. Held(k, k, 0, v, n)
    BY DEF Held
  <1>2. ASSUME Held(h, k, 0, v, n) PROVE h = k
    <2>1. Len(h) = Len(k) /\ \A q \in 1 .. Len(k) : h[q] = k[q]
      BY <1>2 DEF Held
    <2>2. h = [q \in 1 .. Len(h) |-> h[q]] /\ k = [q \in 1 .. Len(k) |-> k[q]]
      OBVIOUS
    <2>. QED BY <2>1, <2>2
  <1>. QED BY <1>1, <1>2

\* One more argument on the stack.
LEMMA HeldPush ==
  ASSUME NEW h \in Seq(Word), NEW k \in Seq(Word), NEW n \in Nat, NEW j \in 1 .. n,
         NEW v \in [1 .. n -> Word], NEW w \in Word, Held(h, k, j - 1, v, n)
  PROVE  Held(Grow(h, w), k, j, With(v, n + 1 - j, w), n)
PROOF
  <1>1. PICK a \in Nat : a = Len(k)
    OBVIOUS
  <1>2. /\ Len(h) = a + 2 * (j - 1) /\ \A q \in 1 .. a : h[q] = k[q]
        /\ \A q \in 1 .. j - 1 : h[a + 2 * q] = v[n + 1 - q]
    BY <1>1 DEF Held
  <1>3. PICK g \in Seq(Word) : g = Grow(h, w)
    BY GrowFacts
  <1>4. Len(g) = Len(h) + 2 /\ g[Len(h) + 2] = w /\ \A q \in 1 .. Len(h) : g[q] = h[q]
    <2>1. 0 \in Word
      BY WordFacts
    <2>. QED BY <1>3, <2>1 DEF Grow
  <1>5. Len(g) = a + 2 * j /\ Len(h) + 2 = a + 2 * j /\ a <= Len(h)
    BY <1>2, <1>4
  <1>6. \A q \in 1 .. a : g[q] = k[q]
    BY <1>2, <1>4, <1>5
  <1>7. PICK x \in 1 .. n : x = n + 1 - j
    OBVIOUS
  <1>8. PICK u : u = With(v, x, w) /\ u[x] = w /\ \A y \in 1 .. n : y # x => u[y] = v[y]
    <2>1. With(v, x, w)[x] = w
      BY DEF With
    <2>2. ASSUME NEW y \in 1 .. n, y # x PROVE With(v, x, w)[y] = v[y]
      BY <2>2 DEF With
    <2>3. PICK u : u = With(v, x, w)
      OBVIOUS
    <2>. QED BY <2>1, <2>2, <2>3, Zenon
  <1>9. ASSUME NEW q \in 1 .. j PROVE g[a + 2 * q] = u[n + 1 - q]
    <2>1. CASE q = j
      <3>1. a + 2 * q = Len(h) + 2 /\ n + 1 - q = x
        BY <1>5, <1>7, <2>1
      <3>. QED BY <1>4, <1>8, <3>1
    <2>2. CASE q # j
      <3>1. q \in 1 .. j - 1 /\ a + 2 * q \in 1 .. Len(h) /\ n + 1 - q \in 1 .. n /\ n + 1 - q # x
        BY <1>2, <1>7, <2>2
      <3>2. g[a + 2 * q] = h[a + 2 * q]
        BY <1>4, <3>1
      <3>3. h[a + 2 * q] = v[n + 1 - q]
        BY <1>2, <3>1
      <3>. QED BY <1>8, <3>1, <3>2, <3>3
    <2>. QED BY <2>1, <2>2
  <1>10. Held(g, k, j, u, n)
    BY <1>1, <1>5, <1>6, <1>9 DEF Held
  <1>. QED BY <1>3, <1>7, <1>8, <1>10

\* The last argument is on top.
LEMMA HeldPop ==
  ASSUME NEW h \in Seq(Word), NEW k \in Seq(Word), NEW n \in Nat, NEW j \in 1 .. n,
         NEW v \in [1 .. n -> Word], Held(h, k, j, v, n)
  PROVE  Top(h) = v[n + 1 - j] /\ Held(Shrink(h), k, j - 1, v, n)
PROOF
  <1>1. PICK a \in Nat : a = Len(k)
    OBVIOUS
  <1>2. /\ Len(h) = a + 2 * j /\ \A q \in 1 .. a : h[q] = k[q]
        /\ \A q \in 1 .. j : h[a + 2 * q] = v[n + 1 - q]
    BY <1>1 DEF Held
  <1>3. h[Len(h)] = v[n + 1 - j]
    BY <1>2
  <1>4. PICK b \in Nat : b = Len(h) - 2 /\ b = a + 2 * (j - 1)
    BY <1>2
  <1>5. PICK g : g = SubSeq(h, 1, b)
    OBVIOUS
  <1>6. Len(g) = b /\ \A q \in 1 .. b : g[q] = h[q]
    <2>1. b <= Len(h) /\ Len(h) \in Nat
      BY <1>4
    <2>2. SubSeq(h, 1, b) \in Seq(Word) /\ Len(SubSeq(h, 1, b)) = b
      BY <2>1
    <2>3. ASSUME NEW q \in 1 .. b PROVE SubSeq(h, 1, b)[q] = h[q]
      BY <2>1
    <2>. QED BY <1>5, <2>2, <2>3
  <1>7. g = Shrink(h)
    BY <1>4, <1>5 DEF Shrink
  <1>8. \A q \in 1 .. a : g[q] = k[q]
    BY <1>2, <1>4, <1>6
  <1>9. ASSUME NEW q \in 1 .. j - 1 PROVE g[a + 2 * q] = v[n + 1 - q]
    <2>1. a + 2 * q \in 1 .. b /\ q \in 1 .. j
      BY <1>4
    <2>. QED BY <1>2, <1>6, <2>1
  <1>10. Held(g, k, j - 1, v, n)
    BY <1>1, <1>4, <1>6, <1>8, <1>9 DEF Held
  <1>. QED BY <1>3, <1>7, <1>10 DEF Top, Last

\* What is known when j arguments are on the stack, above k.
Loaded(e, m, k, s, j) ==
  /\ Len(Stk(s)) >= Len(k) + 2 * j
  /\ Exact => \E v \in [1 .. Len(e[3]) -> Word] :
       Held(Stk(s), k, j, v, Len(e[3])) /\ (Bad(e, m) \/ Out(v, Mem(s)) \in Ev(e, m)[j])

\* Before the first argument.
LEMMA LoadedFirst ==
  ASSUME NEW e, Kind(e, "call"), NEW s \in State
  PROVE  Loaded(e, Mem(s), Stk(s), s, 0)
PROOF
  <1>1. PICK k \in Seq(Word), m \in Memory : k = Stk(s) /\ m = Mem(s)
    BY StateFacts
  <1>2. PICK n \in Nat : n = Len(e[3])
    BY CallFacts
  <1>3. Zeros(n) \in [1 .. n -> Word] /\ Out(Zeros(n), m) \in Ev(e, m)[0]
    BY <1>2, ZerosType, CallYields
  <1>4. Held(k, k, 0, Zeros(n), n)
    BY HeldNone
  <1>5. Len(k) >= Len(k) + 2 * 0
    OBVIOUS
  <1>. QED BY <1>1, <1>2, <1>3, <1>4, <1>5 DEF Loaded

\* x is the j-th of the n arguments that is evaluated.
Argument(e, n, j, x) == n = Len(e[3]) /\ j \in 1 .. n /\ x = e[3][n + 1 - j] /\ ~Void(x)

\* From behind the first q instructions, at stack_index i and with j arguments on
\* the stack, the processor gets to B.
Arrives(e, m, k, c, B, q, i, j) ==
  \A u : u \in State /\ Pc(u) = q + 1 /\ Level(i, Stk(u)) /\ Loaded(e, m, k, u, j) => Fine(u, c, B)

\* At o, rax is pushed.
Pushing(c, o, h) == \A u : Pc(u) = o + 1 => Here(c, u, "push", "rax", h)

\* The code of the next argument, and its push.
LEMMA ArgStep ==
  ASSUME NEW e, Kind(e, "call"), NEW m \in Memory, NEW k \in Seq(Word), NEW n \in Nat,
         NEW j, NEW x, Argument(e, n, j, x), NEW c, NEW B, Whole(c), Halts(c, e, m, B),
         NEW a, NEW i \in Int, NEW l, Layout(a, i, l), Works(x, a, i), NEW p, Placed(c, CodeOf(a), p),
         NEW h \in Int, h = IndexOf(a), NEW o, o = p + Len(CodeOf(a)), Pushing(c, o, h),
         Arrives(e, m, k, c, B, o + 1, h + 8, j)
  PROVE  Arrives(e, m, k, c, B, p, i, j - 1)
PROOF
  <1>a. n = Len(e[3]) /\ j \in 1 .. n /\ x = e[3][n + 1 - j] /\ ~Void(x)
    BY Zenon DEF Argument
  <1>b. \A u : u \in State /\ Pc(u) = o + 1 + 1 /\ Level(h + 8, Stk(u)) /\ Loaded(e, m, k, u, j)
                => Fine(u, c, B)
    BY Zenon DEF Arrives
  <1>c. SUFFICES ASSUME NEW s \in State, Pc(s) = p + 1, Level(i, Stk(s)), Loaded(e, m, k, s, j - 1)
                 PROVE  Fine(s, c, B)
    BY Zenon DEF Arrives
  <1>1. PICK g \in Seq(Word), d \in Memory : g = Stk(s) /\ d = Mem(s)
    BY StateFacts
  <1>2. Exact /\ Bad(x, d) => Bad(e, m)
    <2>1. ASSUME Exact, Bad(x, d) PROVE Bad(e, m)
      <3>1. PICK v : Bad(e, m) \/ Out(v, d) \in Ev(e, m)[j - 1]
        BY <1>1, <1>a, <1>c, <2>1 DEF Loaded
      <3>2. \A v1, t : Out(v1, t) \in Ev(e, m)[j - 1] /\ Bad(e[3][n + 1 - j], t) => Bad(e, m)
        BY <1>a, CallYields
      <3>. QED BY <1>a, <2>1, <3>1, <3>2
    <2>. QED BY <2>1
  <1>3. ASSUME NEW t \in State, Ended(t, x, o, g, d) PROVE Fine(t, c, B)
    <2>1. Pc(t) = o + 1 /\ Over(Stk(t), g) /\ (Exact => Got(x, d, Reg(t)["rax"], Mem(t)))
      BY <1>3, Zenon DEF Ended
    <2>2. Level(h, Stk(t))
      <3>1. Exact => h = i
        BY LayoutFacts
      <3>. QED BY <1>1, <1>c, <2>1, <3>1, LevelOver
    <2>3. PICK w \in Word : w = Reg(t)["rax"]
      BY <1>3, StateWords
    <2>4. PICK y \in Seq(Word) : y = Stk(t)
      BY <1>3, StateFacts
    <2>5. PICK z \in Seq(Word) : z = Grow(y, w) /\ Len(z) = Len(y) + 2
      BY GrowFacts
    <2>6. ASSUME NEW u, u \in State, Pc(u) = Pc(t) + 1, Stk(u) = z, Mem(u) = Mem(t), Level(h + 8, z)
          PROVE  Fine(u, c, B)
      <3>1. Len(z) >= Len(k) + 2 * j
        <4>1. Len(g) >= Len(k) + 2 * (j - 1)
          BY <1>1, <1>c DEF Loaded
        <4>2. Len(y) >= Len(g)
          BY <2>1, <2>4 DEF Over
        <4>3. PICK a1 \in Nat, a2 \in Nat, a3 \in Nat : a1 = Len(g) /\ a2 = Len(k) /\ a3 = Len(y)
          OBVIOUS
        <4>. QED BY <1>a, <2>5, <4>1, <4>2, <4>3
      <3>2. ASSUME Exact
            PROVE  \E v \in [1 .. n -> Word] : Held(z, k, j, v, n) /\ (Bad(e, m) \/ Out(v, Mem(t)) \in Ev(e, m)[j])
        <4>1. PICK v \in [1 .. n -> Word] :
                Held(g, k, j - 1, v, n) /\ (Bad(e, m) \/ Out(v, d) \in Ev(e, m)[j - 1])
          BY <1>1, <1>a, <1>c, <3>2 DEF Loaded
        <4>2. y = g
          BY <2>1, <2>4, <3>2, Zenon DEF Over
        <4>3. Held(z, k, j, With(v, n + 1 - j, w), n)
          BY <1>a, <2>5, <4>1, <4>2, HeldPush
        <4>4. With(v, n + 1 - j, w) \in [1 .. n -> Word]
          BY WithArg
        <4>5. Bad(x, d) \/ Yields(x, d, w, Mem(t))
          BY <1>a, <2>1, <2>3, <3>2, GotValue
        <4>6. CASE Bad(e, m) \/ Bad(x, d)
          BY <1>2, <3>2, <4>3, <4>4, <4>6
        <4>7. CASE Out(v, d) \in Ev(e, m)[j - 1] /\ Yields(x, d, w, Mem(t))
          <5>1. \A v1, t1, w1, u1 : Out(v1, t1) \in Ev(e, m)[j - 1] /\ Yields(e[3][n + 1 - j], t1, w1, u1)
                  => Out(With(v1, n + 1 - j, w1), u1) \in Ev(e, m)[j]
            BY <1>a, CallYields
          <5>2. Out(With(v, n + 1 - j, w), Mem(t)) \in Ev(e, m)[j]
            BY <1>a, <4>7, <5>1
          <5>. QED BY <4>3, <4>4, <5>2
        <4>. QED BY <4>1, <4>5, <4>6, <4>7
      <3>3. Loaded(e, m, k, u, j)
        BY <1>a, <2>6, <3>1, <3>2 DEF Loaded
      <3>. QED BY <1>b, <2>1, <2>6, <3>3
    <2>7. Here(c, t, "push", "rax", h)
      BY <2>1, Zenon DEF Pushing
    <2>8. z = Grow(Stk(t), w)
      BY <2>4, <2>5
    <2>. QED BY <1>3, <2>2, <2>3, <2>6, <2>7, <2>8, PushTail, Zenon
  <1>4. PICK q : q = Len(CodeOf(a)) /\ o = p + q
    OBVIOUS
  <1>5. \A t \in State : Ended(t, x, p + Len(CodeOf(a)), Stk(s), Mem(s)) => Fine(t, c, B)
    BY <1>1, <1>3
  <1>6. Exact /\ Bad(x, Mem(s)) => Bad(e, m)
    BY <1>1, <1>2
  <1>. QED BY <1>5, <1>6, <1>c, RunPart
\* What is known when q of the n arguments are in their registers.
Poised(e, m, k, s, q, n) ==
  /\ Len(Stk(s)) >= Len(k) + 2 * (n - q)
  /\ Exact => \E v \in [1 .. n -> Word] :
       /\ Held(Stk(s), k, n - q, v, n) /\ (Bad(e, m) \/ Out(v, Mem(s)) \in Ev(e, m)[n])
       /\ \A r \in 1 .. q : Reg(s)[CallRegs[r]] = v[r]

\* With all arguments on the stack, none is in its register yet.
LEMMA PoisedFirst ==
  ASSUME NEW e, NEW m, NEW k, NEW s, NEW n \in Nat, n = Len(e[3]), Loaded(e, m, k, s, n)
  PROVE  Poised(e, m, k, s, 0, n)
PROOF
  <1>1. n - 0 = n /\ \A r : r \notin 1 .. 0
    OBVIOUS
  <1>2. Len(Stk(s)) >= Len(k) + 2 * n
    BY Zenon DEF Loaded
  <1>3. ASSUME Exact
        PROVE  \E v \in [1 .. n -> Word] :
                 /\ Held(Stk(s), k, n, v, n) /\ (Bad(e, m) \/ Out(v, Mem(s)) \in Ev(e, m)[n])
                 /\ \A r \in 1 .. 0 : Reg(s)[CallRegs[r]] = v[r]
    BY <1>1, <1>3, Zenon DEF Loaded
  <1>. QED BY <1>1, <1>2, <1>3 DEF Poised

\* The registers that take arguments are different ones.
LEMMA CallRegsFacts ==
  ASSUME NEW n \in Nat
  PROVE  /\ \A r \in 1 .. InRegs(n) : CallRegs[r] \in Regs /\ ArgRegs(n)[r] = CallRegs[r]
         /\ \A q, r \in 1 .. InRegs(n) : CallRegs[q] = CallRegs[r] => q = r
PROOF
  <1>1. \A q, r \in DOMAIN CallRegs : CallRegs[q] = CallRegs[r] => q = r
    BY ProcessorAssumption, Zenon DEF ProcessorAssumption
  <1>2. CallRegs \in Seq(Range(CallRegs))
    BY ProcessorAssumption, Zenon DEF ProcessorAssumption
  <1>3. DOMAIN CallRegs = 1 .. Len(CallRegs)
    BY <1>2
  <1>4. \A r \in 1 .. InRegs(n) : r \in 1 .. Len(CallRegs)
    BY RegsFacts
  <1>5. \A r \in 1 .. InRegs(n) : CallRegs[r] \in Regs /\ ArgRegs(n)[r] = CallRegs[r]
    BY RegsFacts, RegFacts
  <1>. QED BY <1>1, <1>3, <1>4, <1>5

\* pop: one more argument is in its register.
LEMMA PopArg ==
  ASSUME NEW e, NEW m, NEW k \in Seq(Word), NEW n \in Nat, NEW q \in 1 .. InRegs(n),
         NEW c, NEW B, NEW s \in State, NEW h \in Int, Here(c, s, "pop", ArgRegs(n)[q], h), Level(h, Stk(s)),
         Poised(e, m, k, s, q - 1, n),
         \A u : u \in State /\ Pc(u) = Pc(s) + 1 /\ Level(h - 8, Stk(u)) /\ Poised(e, m, k, u, q, n)
                => Fine(u, c, B)
  PROVE  Fine(s, c, B)
PROOF
  <1>1. PICK x \in Regs : x = CallRegs[q] /\ x = ArgRegs(n)[q]
    BY CallRegsFacts
  <1>2. PICK g \in Seq(Word) : g = Stk(s)
    BY StateFacts
  <1>3. PICK a \in Nat, b \in Nat : a = Len(g) /\ b = Len(k)
    OBVIOUS
  <1>4. PICK j \in 1 .. n : j = n - (q - 1) /\ j - 1 = n - q /\ n + 1 - j = q
    <2>1. q \in 1 .. n
      BY RegsFacts
    <2>. QED BY <2>1
  <1>5. a >= b + 2 * j
    BY <1>2, <1>3, <1>4 DEF Poised
  <1>6. a >= 2
    BY <1>5
  <1>7. PICK z \in Seq(Word), w \in Word : z = Shrink(g) /\ w = Top(g) /\ Len(z) = a - 2
    BY <1>3, <1>6, ShrinkFacts
  <1>8. PICK u : u = Popped(s, x)
    OBVIOUS
  <1>9. /\ u \in State /\ Pc(u) = Pc(s) + 1 /\ Reg(u)[x] = w
        /\ \A y \in Regs : y # x => Reg(u)[y] = Reg(s)[y]
        /\ Stk(u) = z /\ Mem(u) = Mem(s)
    BY <1>2, <1>7, <1>8, PoppedFacts
  <1>10. Level(h - 8, z)
    BY <1>2, <1>3, <1>7 DEF Level
  <1>11. ASSUME Exact
         PROVE  \E v \in [1 .. n -> Word] :
                  /\ Held(z, k, n - q, v, n) /\ (Bad(e, m) \/ Out(v, Mem(u)) \in Ev(e, m)[n])
                  /\ \A r \in 1 .. q : Reg(u)[CallRegs[r]] = v[r]
    <2>1. PICK v \in [1 .. n -> Word] :
            /\ Held(g, k, n - (q - 1), v, n) /\ (Bad(e, m) \/ Out(v, Mem(s)) \in Ev(e, m)[n])
            /\ \A r \in 1 .. q - 1 : Reg(s)[CallRegs[r]] = v[r]
      BY <1>2, <1>11, Zenon DEF Poised
    <2>2. Held(g, k, j, v, n)
      BY <1>4, <2>1
    <2>3. Top(g) = v[n + 1 - j] /\ Held(Shrink(g), k, j - 1, v, n)
      BY <2>2, HeldPop
    <2>4. w = v[q] /\ Held(z, k, n - q, v, n)
      BY <1>4, <1>7, <2>3
    <2>5. ASSUME NEW r \in 1 .. q PROVE Reg(u)[CallRegs[r]] = v[r]
      <3>1. CASE r = q
        BY <1>1, <1>9, <2>4, <3>1
      <3>2. CASE r # q
        <4>1. r \in 1 .. q - 1 /\ r \in 1 .. InRegs(n)
          <5>1. PICK a1 \in Nat : a1 = InRegs(n)
            BY RegsFacts
          <5>2. q \in 1 .. a1
            BY <5>1
          <5>3. r \in 1 .. q - 1 /\ r \in 1 .. a1
            BY <3>2, <5>2
          <5>. QED BY <5>1, <5>3
        <4>2. CallRegs[r] \in Regs /\ CallRegs[r] # x
          BY <1>1, <3>2, <4>1, CallRegsFacts
        <4>3. Reg(s)[CallRegs[r]] = v[r]
          BY <2>1, <4>1
        <4>. QED BY <1>9, <4>2, <4>3
      <3>. QED BY <3>1, <3>2
    <2>6. Bad(e, m) \/ Out(v, Mem(u)) \in Ev(e, m)[n]
      BY <1>9, <2>1
    <2>. QED BY <2>4, <2>5, <2>6
  <1>12. Len(z) >= Len(k) + 2 * (n - q)
    BY <1>3, <1>4, <1>5, <1>7
  <1>13. Poised(e, m, k, u, q, n)
    BY <1>9, <1>11, <1>12 DEF Poised
  <1>14. Fine(u, c, B)
    BY <1>9, <1>10, <1>13
  <1>15. Here(c, s, "pop", x, h)
    BY <1>1
  <1>16. Fine(Popped(s, x), c, B)
    BY <1>8, <1>14
  <1>. QED BY <1>15, <1>16, PopStep, Zenon

\* Where the pops stand, and the stack_index at each of them.
LEMMA HerePop ==
  ASSUME NEW n \in Nat, NEW c, Whole(c), NEW i \in Int, NEW p, Placed(c, PopCode(i, ArgRegs(n)), p)
  PROVE  /\ \A q \in 1 .. InRegs(n) : \A s : Pc(s) = p + q => Here(c, s, "pop", ArgRegs(n)[q], i - 8 * (q - 1))
         /\ Len(PopCode(i, ArgRegs(n))) = InRegs(n) /\ p \in Nat
PROOF
  <1>1. PICK a \in Nat : a = InRegs(n)
    BY RegsFacts
  <1>2. PICK z \in Seq(Instr) : z = PopCode(i, ArgRegs(n))
    BY PopCodeSeq
  <1>3. DOMAIN ArgRegs(n) = 1 .. a
    BY <1>1, RegsFacts
  <1>4. z = [r \in 1 .. a |-> I("pop", ArgRegs(n)[r], i - 8 * (r - 1))]
    BY <1>2, <1>3, Zenon DEF PopCode
  <1>5. Len(z) = a /\ \A q \in 1 .. a : z[q] = I("pop", ArgRegs(n)[q], i - 8 * (q - 1))
    BY <1>4
  <1>6. p \in Nat /\ p + a <= Len(c) /\ \A q \in 1 .. a : c[p + q] = z[q]
    BY <1>2, <1>5 DEF Placed
  <1>7. Len(c) \in Nat
    BY DEF Whole
  <1>8. ASSUME NEW q \in 1 .. a, NEW s, Pc(s) = p + q
        PROVE  Here(c, s, "pop", ArgRegs(n)[q], i - 8 * (q - 1))
    <2>1. p + q \in 1 .. Len(c)
      BY <1>6, <1>7
    <2>2. c[p + q] = I("pop", ArgRegs(n)[q], i - 8 * (q - 1))
      BY <1>5, <1>6
    <2>. QED BY <1>8, <2>1, <2>2, Zenon DEF Here
  <1>. QED BY <1>1, <1>2, <1>5, <1>6, <1>8

\* All pops.
LEMMA PopLoop ==
  ASSUME NEW e, NEW m, NEW k \in Seq(Word), NEW n \in Nat,
         NEW c, NEW B, Whole(c), NEW i \in Int, NEW p, Placed(c, PopCode(i, ArgRegs(n)), p),
         NEW R, R = InRegs(n),
         \A u : /\ u \in State /\ Pc(u) = p + R + 1 /\ Level(i - 8 * R, Stk(u)) /\ Poised(e, m, k, u, R, n)
                => Fine(u, c, B),
         NEW s \in State, Pc(s) = p + 1, Level(i, Stk(s)), Poised(e, m, k, s, 0, n)
  PROVE  Fine(s, c, B)
PROOF
  <1>1. R \in Nat
    BY RegsFacts
  <1>2. /\ \A q \in 1 .. R : \A u : Pc(u) = p + q => Here(c, u, "pop", ArgRegs(n)[q], i - 8 * (q - 1))
        /\ p \in Nat
    BY HerePop
  <1> DEFINE On(q) == \A u : /\ u \in State /\ Pc(u) = p + q + 1 /\ Level(i - 8 * q, Stk(u))
                             /\ Poised(e, m, k, u, q, n)
                             => Fine(u, c, B)
             S == {q \in 0 .. R : On(q)}
  <1>r. On(R)
    BY Zenon DEF On
  <1> HIDE DEF On
  <1>3. R \in S
    BY <1>1, <1>r
  <1>4. ASSUME NEW q \in 1 .. R, q \in S PROVE q - 1 \in S
    <2>1. /\ q - 1 \in 0 .. R /\ p + (q - 1) + 1 = p + q /\ q \in 1 .. InRegs(n)
          /\ i - 8 * (q - 1) \in Int /\ (i - 8 * (q - 1)) - 8 = i - 8 * q
      BY <1>1, <1>2
    <2>2. ASSUME NEW u, u \in State, Pc(u) = p + (q - 1) + 1, Level(i - 8 * (q - 1), Stk(u)),
                 Poised(e, m, k, u, q - 1, n)
          PROVE  Fine(u, c, B)
      <3>1. PICK h \in Int : h = i - 8 * (q - 1) /\ h - 8 = i - 8 * q
        BY <2>1
      <3>2. Pc(u) = p + q /\ Level(h, Stk(u))
        BY <2>1, <2>2, <3>1
      <3>3. Here(c, u, "pop", ArgRegs(n)[q], h)
        BY <1>2, <3>1, <3>2
      <3>4. ASSUME NEW t, t \in State, Pc(t) = Pc(u) + 1, Level(h - 8, Stk(t)), Poised(e, m, k, t, q, n)
            PROVE  Fine(t, c, B)
        <4>1. Pc(t) = p + q + 1 /\ Level(i - 8 * q, Stk(t))
          BY <3>1, <3>2, <3>4
        <4>2. On(q)
          BY <1>4
        <4>. QED BY <3>4, <4>1, <4>2, Zenon DEF On
      <3> HIDE DEF S
      <3>. QED BY <2>1, <2>2, <3>2, <3>3, <3>4, PopArg
    <2>3. On(q - 1)
      BY <2>2, Zenon DEF On
    <2>. QED BY <2>1, <2>3
  <1> HIDE DEF S
  <1>5. 0 .. R \subseteq S
    BY <1>1, <1>3, <1>4, Downwards
  <1>6. 0 \in S
    BY <1>1, <1>5
  <1>7. p + 0 + 1 = p + 1 /\ i - 8 * 0 = i
    BY <1>2
  <1>8. On(0)
    BY <1>6 DEF S
  <1>. QED BY <1>7, <1>8 DEF On

\* What the callee reads: words, and in Exact what was computed.
LEMMA PassedType ==
  ASSUME NEW n \in Nat, NEW s \in State, Len(Stk(s)) >= 2 * OnStack(n)
  PROVE  Passed(n, s) \in [1 .. n -> Word]
PROOF
  <1>1. PICK k \in Seq(Word), r \in RegFile : k = Stk(s) /\ r = Reg(s)
    BY StateFacts
  <1>0. Len(CallRegs) \in Nat /\ OnStack(n) \in Nat /\ Len(k) \in Nat
    BY RegsFacts
  <1>2. PICK a \in Nat, d \in Nat, h \in Nat : a = Len(CallRegs) /\ d = OnStack(n) /\ h = Len(k)
    BY <1>0, Zenon
  <1>3. h >= 2 * d
    BY <1>1, <1>2
  <1>4. ASSUME NEW i \in 1 .. n
        PROVE  (IF i <= a THEN r[CallRegs[i]] ELSE k[h - 2 * (i - a - 1)]) \in Word
    <2>1. CASE i <= a
      <3>1. i \in 1 .. InRegs(n)
        BY <1>2, <2>1 DEF InRegs
      <3>2. CallRegs[i] \in Regs
        BY <3>1, CallRegsFacts
      <3>3. r[CallRegs[i]] \in Word
        BY <3>2 DEF RegFile
      <3>. QED BY <2>1, <3>3
    <2>2. CASE ~(i <= a)
      <3>1. d = n - a
        BY <1>2, <2>2 DEF OnStack, InRegs
      <3>2. h - 2 * (i - a - 1) \in 1 .. h
        BY <1>3, <2>2, <3>1
      <3>3. k[h - 2 * (i - a - 1)] \in Word
        BY <1>2, <3>2
      <3>. QED BY <2>2, <3>3
    <2>. QED BY <2>1, <2>2
  <1>5. Passed(n, s) = [i \in 1 .. n |-> IF i <= a THEN r[CallRegs[i]] ELSE k[h - 2 * (i - a - 1)]]
    BY <1>1, <1>2 DEF Passed
  <1>. QED BY <1>4, <1>5

\* What a function reads when all its arguments are in registers.
LEMMA PassedRegs ==
  ASSUME NEW n \in Nat, n <= Len(CallRegs), NEW s, NEW v \in [1 .. n -> Word],
         \A r \in 1 .. n : Reg(s)[CallRegs[r]] = v[r]
  PROVE  Passed(n, s) = v
PROOF
  <1>1. PICK a \in Nat : a = Len(CallRegs)
    BY RegsFacts
  <1>2. \A i \in 1 .. n : i <= a
    BY <1>1
  <1>3. DOMAIN Passed(n, s) = 1 .. n /\ \A i \in 1 .. n : Passed(n, s)[i] = Reg(s)[CallRegs[i]]
    BY <1>1, <1>2 DEF Passed
  <1>4. Passed(n, s) = [i \in 1 .. n |-> Passed(n, s)[i]]
    BY DEF Passed
  <1>5. v = [i \in 1 .. n |-> v[i]]
    OBVIOUS
  <1>6. \A i \in 1 .. n : Passed(n, s)[i] = v[i]
    BY <1>3
  <1>. QED BY <1>4, <1>5, <1>6

\* The state behind a call.
LEMMA CalledFacts ==
  ASSUME NEW e, Kind(e, "call"), NEW n, n = Len(e[3]), NEW s \in State, NEW v \in [1 .. n -> Word],
         v = Passed(n, s), NEW t, t = CalledIn(s, e[2], n)
  PROVE  /\ t \in State /\ Pc(t) = Pc(s) + 1 /\ Stk(t) = Stk(s) /\ Mem(t) = After(e[2], v, Mem(s))
         /\ e[2] \notin VoidFuncs => Reg(t)["rax"] = Result(e[2], v, Mem(s))
PROOF
  <1>1. PICK r \in RegFile, m \in Memory, k \in Seq(Word), f \in Flags :
          r = Reg(s) /\ m = Mem(s) /\ k = Stk(s) /\ f = Flg(s) /\ Pc(s) \in Nat
    BY StateFacts
  <1>2. PICK a \in Word, z \in Memory : a = Result(e[2], v, m) /\ z = After(e[2], v, m)
    BY CalleeFacts
  <1>3. Junk \in Word
    BY ProcessorAssumption, Zenon DEF ProcessorAssumption
  <1>4. PICK x : x = Clobbered(e[2], n, s)
    OBVIOUS
  <1>5. DOMAIN r = Regs
    BY DEF RegFile
  <1>6. x = [y \in Regs |-> IF y = "rax" /\ e[2] \notin VoidFuncs THEN a ELSE Junk]
    BY <1>1, <1>2, <1>4, <1>5 DEF Clobbered
  <1>7. x \in RegFile /\ (e[2] \notin VoidFuncs => x["rax"] = a)
    BY <1>3, <1>6, RegFacts DEF RegFile
  <1>8. t = St(Pc(s) + 1, x, f, k, z)
    BY <1>1, <1>2, <1>4, Zenon DEF CalledIn
  <1>9. Pc(s) + 1 \in Nat
    BY <1>1
  <1>. QED BY <1>1, <1>2, <1>7, <1>8, <1>9, StFacts

\* A void function is one the value of a call of which is void.
LEMMA VoidCall ==
  ASSUME NEW e, Kind(e, "call"), e[2] \in VoidFuncs
  PROVE  Void(e)
PROOF
  <1>1. PICK X : X = UNION {U(a, 1) : a \in Range(e[3])}
    OBVIOUS
  <1>2. U(e, 1) = VoidUse(e[2], 1) \cup X
    <2>1. e \in Exps
      BY DEF Kind
    <2>. QED BY <1>1, <2>1, URules
  <1>3. e[2] \in VoidUse(e[2], 1)
    BY DEF VoidUse
  <1>. QED BY <1>2, <1>3 DEF Void

\* The call instruction.
LEMMA CallTail ==
  ASSUME NEW e, Kind(e, "call"), NEW m \in Memory, NEW k \in Seq(Word), NEW n \in Nat, n = Len(e[3]),
         NEW c, NEW B, NEW s \in State, NEW h, Here(c, s, "call", <<e[2], n>>, h), Level(h, Stk(s)),
         Poised(e, m, k, s, InRegs(n), n),
         \A u : /\ u \in State /\ Pc(u) = Pc(s) + 1 /\ Level(h, Stk(u))
                /\ Len(Stk(u)) >= Len(k) + 2 * OnStack(n)
                /\ Exact => Stk(u) = k /\ Got(e, m, Reg(u)["rax"], Mem(u))
                => Fine(u, c, B)
  PROVE  Fine(s, c, B)
PROOF
  <1>1. PICK g \in Seq(Word), d \in Memory : g = Stk(s) /\ d = Mem(s)
    BY StateFacts
  <1>0. Len(CallRegs) \in Nat /\ OnStack(n) \in Nat /\ InRegs(n) \in Nat /\ n = InRegs(n) + OnStack(n)
    <2>1. /\ Len(CallRegs) \in Nat /\ OnStack(n) \in 0 .. n /\ InRegs(n) \in 0 .. n
          /\ n = InRegs(n) + OnStack(n)
      BY RegsFacts, Zenon
    <2>2. \A x \in 0 .. n : x \in Nat
      OBVIOUS
    <2>. QED BY <2>1, <2>2, Zenon
  <1>2. PICK b \in Nat, r \in Nat, a \in Nat : b = OnStack(n) /\ r = InRegs(n) /\ a = Len(CallRegs)
    BY <1>0, Zenon
  <1>3. n - r = b
    BY <1>0, <1>2
  <1>4. Len(g) >= Len(k) + 2 * b
    BY <1>1, <1>2, <1>3 DEF Poised
  <1>5. Len(Stk(s)) >= 2 * OnStack(n)
    <2>1. PICK x \in Nat, y \in Nat : x = Len(g) /\ y = Len(k)
      OBVIOUS
    <2>. QED BY <1>1, <1>2, <1>4, <2>1
  <1>6. PICK w \in [1 .. n -> Word] : w = Passed(n, s)
    BY <1>5, PassedType
  <1>7. PICK t : t = CalledIn(s, e[2], n)
    OBVIOUS
  <1>8. /\ t \in State /\ Pc(t) = Pc(s) + 1 /\ Stk(t) = g /\ Mem(t) = After(e[2], w, d)
        /\ e[2] \notin VoidFuncs => Reg(t)["rax"] = Result(e[2], w, d)
    <2>1. /\ t \in State /\ Pc(t) = Pc(s) + 1 /\ Stk(t) = Stk(s) /\ Mem(t) = After(e[2], w, Mem(s))
          /\ e[2] \notin VoidFuncs => Reg(t)["rax"] = Result(e[2], w, Mem(s))
      BY <1>6, <1>7, CalledFacts
    <2>. QED BY <1>1, <2>1
  <1>9. ASSUME Exact PROVE g = k /\ Got(e, m, Reg(t)["rax"], Mem(t))
    <2>1. n <= a
      BY <1>2, <1>9 DEF Exact, Kind
    <2>2. r = n /\ b = 0
      <3>1. r = IF n < a THEN n ELSE a
        BY <1>2 DEF InRegs
      <3>. QED BY <1>3, <2>1, <3>1
    <2>3. PICK v \in [1 .. n -> Word] :
            /\ Held(g, k, n - r, v, n) /\ (Bad(e, m) \/ Out(v, d) \in Ev(e, m)[n])
            /\ \A q \in 1 .. r : Reg(s)[CallRegs[q]] = v[q]
      BY <1>1, <1>2, <1>9, Zenon DEF Poised
    <2>4. Held(g, k, 0, v, n)
      BY <1>3, <2>2, <2>3
    <2>5. g = k
      BY <2>4, HeldNone
    <2>6. \A q \in 1 .. n : Reg(s)[CallRegs[q]] = v[q]
      BY <2>2, <2>3
    <2>7. w = v
      <3>1. n <= Len(CallRegs)
        BY <1>2, <2>1
      <3>2. Passed(n, s) = v
        BY <2>6, <3>1, PassedRegs
      <3>. QED BY <1>6, <3>2
    <2>8. CASE Bad(e, m)
      BY <2>5, <2>8, Zenon DEF Got
    <2>9. CASE Out(v, d) \in Ev(e, m)[n]
      <3>1. Yields(e, m, Result(e[2], v, d), After(e[2], v, d))
        BY <2>9, CallYields
      <3>2. Yields(e, m, Result(e[2], w, d), Mem(t))
        BY <1>8, <2>7, <3>1
      <3>3. Result(e[2], w, d) = Reg(t)["rax"] \/ Void(e)
        BY <1>8, VoidCall
      <3>. QED BY <2>5, <3>2, <3>3, Zenon DEF Got
    <2>. QED BY <2>3, <2>8, <2>9
  <1>10. Level(h, Stk(t)) /\ Len(Stk(t)) >= Len(k) + 2 * OnStack(n)
    BY <1>1, <1>2, <1>4, <1>8
  <1>11. Exact => Stk(t) = k /\ Got(e, m, Reg(t)["rax"], Mem(t))
    BY <1>8, <1>9
  <1>12. Fine(t, c, B)
    BY <1>8, <1>10, <1>11
  <1>13. PICK a1 : a1 = <<e[2], n>> /\ a1[1] = e[2] /\ a1[2] = n
    <2>1. PICK f : f = e[2]
      OBVIOUS
    <2>2. PICK a1 : a1 = <<f, n>>
      OBVIOUS
    <2>3. a1[1] = f /\ a1[2] = n
      BY <2>2
    <2>. QED BY <2>1, <2>2, <2>3
  <1>14. Fine(CalledIn(s, a1[1], a1[2]), c, B)
    BY <1>7, <1>12, <1>13
  <1>15. Here(c, s, "call", a1, h)
    BY <1>13
  <1>. QED BY <1>14, <1>15, CallStep, Zenon

\* At o, the function is called with n arguments and the stack ones are released.
CallEnd(n, o) == IF OnStack(n) = 0 THEN o + 1 ELSE o + 1 + 1
Calling(e, n, c, o, h) ==
  /\ \A u : Pc(u) = o + 1 => Here(c, u, "call", <<e[2], n>>, h)
  /\ OnStack(n) # 0 => \A u : Pc(u) = o + 1 + 1 => Here(c, u, "release", OnStack(n), h)

\* What stands behind the arguments does the call.
LEMMA CallEnding ==
  ASSUME NEW e, Kind(e, "call"), NEW n \in Nat, n = Len(e[3]), NEW m \in Memory, NEW k \in Seq(Word),
         NEW c, NEW B, Whole(c), NEW i \in Int, NEW p, Placed(c, PopCode(i, ArgRegs(n)), p),
         NEW R, R = InRegs(n), NEW h, h = i - 8 * R, Calling(e, n, c, p + R, h),
         NEW E, E = CallEnd(n, p + R), \A t \in State : Ended(t, e, E, k, m) => Fine(t, c, B)
  PROVE  Arrives(e, m, k, c, B, p, i, n)
PROOF
  <1>a. /\ \A u : Pc(u) = p + R + 1 => Here(c, u, "call", <<e[2], n>>, h)
        /\ OnStack(n) # 0 => \A u : Pc(u) = p + R + 1 + 1 => Here(c, u, "release", OnStack(n), h)
    BY Zenon DEF Calling
  <1>b. E = IF OnStack(n) = 0 THEN p + R + 1 ELSE p + R + 1 + 1
    BY Zenon DEF CallEnd
  <1>c. SUFFICES ASSUME NEW s \in State, Pc(s) = p + 1, Level(i, Stk(s)), Loaded(e, m, k, s, n)
                 PROVE  Fine(s, c, B)
    BY Zenon DEF Arrives
  <1>0. OnStack(n) \in Nat
    <2>1. OnStack(n) \in 0 .. n
      BY RegsFacts, Zenon
    <2>. QED BY <2>1
  <1>1. PICK b \in Nat : b = OnStack(n)
    BY <1>0, Zenon
  <1>2. ASSUME NEW u, u \in State, Pc(u) = p + R + 1 + 1, Level(h, Stk(u)),
               Len(Stk(u)) >= Len(k) + 2 * b,
               Exact => Stk(u) = k /\ Got(e, m, Reg(u)["rax"], Mem(u))
        PROVE  Fine(u, c, B)
    <2>1. PICK g \in Seq(Word) : g = Stk(u)
      BY <1>2, StateFacts
    <2>2. PICK x \in Nat, y \in Nat : x = Len(g) /\ y = Len(k)
      OBVIOUS
    <2>3. x >= y + 2 * b
      BY <1>2, <2>1, <2>2
    <2>4. CASE b = 0
      <3>1. x >= y
        BY <2>3
      <3>2. Over(g, k)
        BY <1>2, <2>1, <2>2, <3>1 DEF Over
      <3>3. Ended(u, e, E, k, m)
        BY <1>1, <1>2, <1>b, <2>1, <2>4, <3>2 DEF Ended
      <3>. QED BY <1>2, <3>3
    <2>5. CASE b # 0
      <3>1. ~Exact
        <4>1. ASSUME Exact PROVE FALSE
          <5>1. PICK a \in Nat : a = Len(CallRegs)
            BY RegsFacts
          <5>2. n <= a
            BY <4>1, <5>1 DEF Exact, Kind
          <5>3. b = 0
            BY <1>1, <5>1, <5>2 DEF OnStack, InRegs
          <5>. QED BY <2>5, <5>3
        <4>. QED BY <4>1
      <3>2. x >= b /\ x - b >= y
        BY <2>3
      <3>3. PICK z \in Seq(Word) : z = Free(g, b) /\ Len(z) = x - b
        BY <2>2, <3>2, FreeFacts
      <3>4. PICK t : t = SetStk(u, z)
        OBVIOUS
      <3>5. t \in State /\ Pc(t) = Pc(u) + 1 /\ Stk(t) = z
        BY <1>2, <3>4, SetStkFacts
      <3>6. Over(z, k)
        BY <2>2, <3>1, <3>2, <3>3 DEF Over
      <3>7. Pc(t) = E + 1
        BY <1>1, <1>2, <1>b, <2>5, <3>5
      <3>8. Ended(t, e, E, k, m)
        BY <3>1, <3>5, <3>6, <3>7, Zenon DEF Ended
      <3>9. Fine(t, c, B)
        BY <3>5, <3>8
      <3>10. Fine(SetStk(u, Free(Stk(u), b)), c, B)
        BY <2>1, <3>3, <3>4, <3>9
      <3>11. Here(c, u, "release", b, h)
        BY <1>1, <1>2, <1>a, <2>5
      <3>. QED BY <1>2, <3>10, <3>11, ReleaseStep, Zenon
    <2>. QED BY <2>4, <2>5
  <1>3. ASSUME NEW u, u \in State, Pc(u) = p + R + 1, Level(i - 8 * R, Stk(u)), Poised(e, m, k, u, R, n)
        PROVE  Fine(u, c, B)
    <2>1. Here(c, u, "call", <<e[2], n>>, h) /\ Level(h, Stk(u)) /\ Poised(e, m, k, u, InRegs(n), n)
      BY <1>3, <1>a
    <2>2. ASSUME NEW t, t \in State, Pc(t) = Pc(u) + 1, Level(h, Stk(t)),
                 Len(Stk(t)) >= Len(k) + 2 * OnStack(n),
                 Exact => Stk(t) = k /\ Got(e, m, Reg(t)["rax"], Mem(t))
          PROVE  Fine(t, c, B)
      <3>1. Pc(t) = p + R + 1 + 1
        BY <1>3, <2>2
      <3>2. Len(Stk(t)) >= Len(k) + 2 * b
        BY <1>1, <2>2
      <3>. QED BY <1>2, <2>2, <3>1, <3>2
    <2>. QED BY <1>3, <2>1, <2>2, CallTail
  <1>4. Poised(e, m, k, s, 0, n)
    BY <1>c, PoisedFirst
  <1>. QED BY <1>3, <1>4, <1>c, PopLoop

\* The code g of the last j arguments, behind that of the last j - 1, d.
LEMMA PushArg ==
  ASSUME NEW e, Kind(e, "call"), NEW m \in Memory, NEW k \in Seq(Word), NEW n \in Nat,
         NEW j, NEW x, Argument(e, n, j, x), NEW c, NEW B, Whole(c), Halts(c, e, m, B),
         NEW d \in Contexts, NEW b, Layout(b, IndexOf(d), LabelsOf(d)), Works(x, b, IndexOf(d)),
         NEW g, g = PushedCx(d, b), NEW p, Placed(c, CodeOf(g), p),
         Arrives(e, m, k, c, B, p + Len(CodeOf(g)), IndexOf(g), j)
  PROVE  /\ Placed(c, CodeOf(d), p)
         /\ Arrives(e, m, k, c, B, p + Len(CodeOf(d)), IndexOf(d), j - 1)
PROOF
  <1>1. PICK v \in Seq(Instr), w \in Seq(Instr), i \in Int, h \in Int :
          v = CodeOf(d) /\ w = CodeOf(b) /\ i = IndexOf(d) /\ h = IndexOf(b)
    <2>1. CodeOf(d) \in Seq(Instr) /\ IndexOf(d) \in Int
      BY ContextsFacts
    <2>2. CodeOf(b) \in Seq(Instr) /\ IndexOf(b) \in Int
      BY LayoutFacts
    <2>. QED BY <2>1, <2>2, Zenon
  <1>2. PICK y \in Seq(Instr) : y = One(I("push", "rax", h))
    BY OpFacts, ArgFacts, InstrType, OneSeq
  <1>3. CodeOf(g) = Cat(Cat(v, w), y) /\ IndexOf(g) = h + 8
    BY <1>1, <1>2, CxFacts DEF PushedCx
  <1>4. PICK z \in Seq(Instr) : z = Cat(v, w)
    BY CatSeq
  <1>5. /\ Placed(c, z, p) /\ Placed(c, y, p + Len(z)) /\ p + Len(Cat(z, y)) = (p + Len(z)) + Len(y)
    <2>1. Placed(c, Cat(z, y), p)
      BY <1>3, <1>4
    <2>. QED BY <2>1, PlacedCat
  <1>6. PICK r : r = p + Len(v)
    OBVIOUS
  <1>7. Placed(c, v, p) /\ Placed(c, w, r) /\ p + Len(z) = r + Len(w)
    <2>1. Placed(c, Cat(v, w), p)
      BY <1>4, <1>5
    <2>2. /\ Placed(c, v, p) /\ Placed(c, w, p + Len(v)) /\ p + Len(Cat(v, w)) = (p + Len(v)) + Len(w)
      BY <2>1, PlacedCat
    <2>. QED BY <1>4, <1>6, <2>2
  <1>8. PICK o : o = r + Len(w)
    OBVIOUS
  <1>9. Placed(c, One(I("push", "rax", h)), o)
    BY <1>2, <1>5, <1>7, <1>8
  <1>10. Pushing(c, o, h)
    <2>1. ASSUME NEW u, Pc(u) = o + 1 PROVE Here(c, u, "push", "rax", h)
      BY <1>9, <2>1, HereOne
    <2>. QED BY <2>1, Zenon DEF Pushing
  <1>11. p + Len(CodeOf(g)) = o + 1
    <2>1. Len(y) = 1
      BY <1>2, OneFacts
    <2>. QED BY <1>3, <1>4, <1>5, <1>7, <1>8, <2>1
  <1>12. Arrives(e, m, k, c, B, o + 1, h + 8, j)
    BY <1>3, <1>11
  <1>13. PICK q : q = LabelsOf(d)
    OBVIOUS
  <1>14. Layout(b, i, q) /\ Works(x, b, i) /\ Placed(c, CodeOf(b), r) /\ o = r + Len(CodeOf(b))
    BY <1>1, <1>7, <1>8, <1>13
  <1>15. Arrives(e, m, k, c, B, r, i, j - 1)
    BY <1>1, <1>10, <1>12, <1>14, ArgStep
  <1>. QED BY <1>1, <1>6, <1>7, <1>15

\* a[j] is the code of the j-th argument evaluated, f[j] all code up to its push.
Pushes(e, f, a, n) ==
  /\ \A j \in 0 .. n : f[j] \in Contexts
  /\ \A j \in 1 .. n :
       /\ f[j] = PushedCx(f[j - 1], a[j]) /\ Layout(a[j], IndexOf(f[j - 1]), LabelsOf(f[j - 1]))
       /\ Works(e[3][n + 1 - j], a[j], IndexOf(f[j - 1])) /\ Argument(e, n, j, e[3][n + 1 - j])

\* All arguments.
LEMMA PushLoop ==
  ASSUME NEW e, Kind(e, "call"), NEW m \in Memory, NEW k \in Seq(Word), NEW n \in Nat,
         NEW c, NEW B, Whole(c), Halts(c, e, m, B), NEW f, NEW a, Pushes(e, f, a, n),
         NEW p, Placed(c, CodeOf(f[n]), p),
         Arrives(e, m, k, c, B, p + Len(CodeOf(f[n])), IndexOf(f[n]), n)
  PROVE  Arrives(e, m, k, c, B, p + Len(CodeOf(f[0])), IndexOf(f[0]), 0)
PROOF
  <1> DEFINE On(j) == /\ Placed(c, CodeOf(f[j]), p)
                      /\ Arrives(e, m, k, c, B, p + Len(CodeOf(f[j])), IndexOf(f[j]), j)
             S == {j \in 0 .. n : On(j)}
  <1>1. On(n)
    BY Zenon DEF On
  <1> HIDE DEF On
  <1>2. n \in S
    BY <1>1
  <1>3. ASSUME NEW j \in 1 .. n, j \in S PROVE j - 1 \in S
    <2>1. j - 1 \in 0 .. n /\ On(j)
      BY <1>3
    <2>2. PICK x : x = e[3][n + 1 - j]
      OBVIOUS
    <2>3. PICK d, b : d = f[j - 1] /\ b = a[j] /\ d \in Contexts
      BY <2>1 DEF Pushes
    <2>4. PICK g : g = f[j]
      OBVIOUS
    <2>5. g = PushedCx(d, b) /\ Layout(b, IndexOf(d), LabelsOf(d)) /\ Works(x, b, IndexOf(d)) /\ Argument(e, n, j, x)
      BY <2>2, <2>3, <2>4 DEF Pushes
    <2>6. Placed(c, CodeOf(g), p) /\ Arrives(e, m, k, c, B, p + Len(CodeOf(g)), IndexOf(g), j)
      BY <2>1, <2>4 DEF On
    <2>7. Placed(c, CodeOf(d), p) /\ Arrives(e, m, k, c, B, p + Len(CodeOf(d)), IndexOf(d), j - 1)
      <3> HIDE DEF S
      <3>. QED BY <2>2, <2>3, <2>5, <2>6, PushArg
    <2>8. On(j - 1)
      BY <2>3, <2>7 DEF On
    <2>. QED BY <2>1, <2>8
  <1> HIDE DEF S
  <1>4. 0 .. n \subseteq S
    BY <1>2, <1>3, Downwards
  <1>5. On(0)
    BY <1>4 DEF S
  <1>. QED BY <1>5 DEF On

\* Where the parts of the code of a call stand.
LEMMA CallPlaces ==
  ASSUME NEW e, Kind(e, "call"), NEW n \in Nat, n = Len(e[3]), NEW d \in Contexts, NEW c, Whole(c),
         NEW q, q = CodeOf(CallCx(d, e[2], n)), NEW p, Placed(c, q, p),
         NEW o, o = p + Len(CodeOf(d)), NEW R, R = InRegs(n), NEW h, h = PoppedIndex(d, n)
  PROVE  /\ Placed(c, CodeOf(d), p) /\ Placed(c, PopCode(IndexOf(d), ArgRegs(n)), o)
         /\ Calling(e, n, c, o + R, h) /\ p + Len(q) = CallEnd(n, o + R)
PROOF
  <1>1. PICK v \in Seq(Instr), i \in Int : v = CodeOf(d) /\ i = IndexOf(d)
    BY ContextsFacts
  <1>2. PICK w \in Seq(Instr) : w = PopCode(i, ArgRegs(n))
    BY PopCodeSeq
  <1>3. PICK a \in Args : a = <<e[2], n>>
    BY ArgFacts DEF Kind
  <1>4. PICK b \in Nat : b = OnStack(n)
    BY RegsFacts
  <1>5. h \in Int /\ R \in Nat
    <2>1. R \in Nat
      BY RegsFacts
    <2>. QED BY <1>1, <2>1 DEF PoppedIndex
  <1>6. PICK y \in Seq(Instr) : y = One(I("call", a, h))
    BY <1>5, OpFacts, InstrType, OneSeq
  <1>7. PICK x \in Seq(Instr) : x = One(I("release", b, h))
    BY <1>5, OpFacts, ArgFacts, InstrType, OneSeq
  <1>8. PICK z \in Seq(Instr) : z = Cat(v, w)
    BY CatSeq
  <1>9. PICK g \in Seq(Instr) : g = Cat(z, y)
    BY CatSeq
  <1>10. CodeOf(CalledCx(d, e[2], n)) = g
    BY <1>1, <1>2, <1>3, <1>6, <1>8, <1>9, CxFacts DEF CalledCx
  <1>11. CodeOf(ReleasedCx(d, e[2], n)) = Cat(g, x)
    BY <1>1, <1>2, <1>3, <1>4, <1>6, <1>7, <1>8, <1>9, CxFacts DEF ReleasedCx
  <1>12. q = IF b = 0 THEN g ELSE Cat(g, x)
    BY <1>4, <1>10, <1>11, Zenon DEF CallCx
  <1>13. Placed(c, g, p) /\ (b # 0 => Placed(c, x, p + Len(g)) /\ p + Len(q) = p + Len(g) + Len(x))
    <2>1. CASE b = 0
      BY <1>12, <2>1
    <2>2. CASE b # 0
      <3>1. Placed(c, Cat(g, x), p) /\ q = Cat(g, x)
        BY <1>12, <2>2
      <3>. QED BY <2>2, <3>1, PlacedCat
    <2>. QED BY <2>1, <2>2
  <1>14. Placed(c, z, p) /\ Placed(c, y, p + Len(z)) /\ p + Len(g) = (p + Len(z)) + Len(y)
    <2>1. Placed(c, Cat(z, y), p)
      BY <1>9, <1>13
    <2>. QED BY <1>9, <2>1, PlacedCat
  <1>15. Placed(c, v, p) /\ Placed(c, w, o) /\ p + Len(z) = o + Len(w)
    <2>1. Placed(c, Cat(v, w), p)
      BY <1>8, <1>14
    <2>2. Placed(c, v, p) /\ Placed(c, w, p + Len(v)) /\ p + Len(Cat(v, w)) = (p + Len(v)) + Len(w)
      BY <2>1, PlacedCat
    <2>. QED BY <1>1, <1>8, <2>2
  <1>16. Len(w) = R
    <2>1. Placed(c, PopCode(i, ArgRegs(n)), o)
      BY <1>2, <1>15
    <2>. QED BY <1>2, <2>1, HerePop
  <1>17. PICK t : t = o + R
    OBVIOUS
  <1>18. Len(y) = 1 /\ Len(x) = 1
    BY <1>6, <1>7, OneFacts
  <1>19. Placed(c, One(I("call", a, h)), t) /\ p + Len(g) = t + 1
    BY <1>6, <1>14, <1>15, <1>16, <1>17, <1>18
  <1>20. ASSUME NEW u, Pc(u) = t + 1 PROVE Here(c, u, "call", a, h)
    BY <1>19, <1>20, HereOne
  <1>21. ASSUME NEW u, Pc(u) = t + 1 + 1, b # 0 PROVE Here(c, u, "release", b, h)
    <2>1. Placed(c, One(I("release", b, h)), t + 1)
      BY <1>7, <1>13, <1>19, <1>21
    <2>2. PICK t1 : t1 = t + 1
      OBVIOUS
    <2>3. Placed(c, One(I("release", b, h)), t1) /\ Pc(u) = t1 + 1
      BY <1>21, <2>1, <2>2
    <2>. QED BY <2>3, HereOne
  <1>22. Calling(e, n, c, t, h)
    <2>1. \A u : Pc(u) = t + 1 => Here(c, u, "call", <<e[2], n>>, h)
      BY <1>3, <1>20
    <2>2. OnStack(n) # 0 => \A u : Pc(u) = t + 1 + 1 => Here(c, u, "release", OnStack(n), h)
      BY <1>4, <1>21
    <2>. QED BY <2>1, <2>2, Zenon DEF Calling
  <1>23. p + Len(q) = CallEnd(n, t)
    <2>1. CASE b = 0
      BY <1>4, <1>12, <1>19, <2>1 DEF CallEnd
    <2>2. CASE b # 0
      BY <1>4, <1>13, <1>18, <1>19, <2>2 DEF CallEnd
    <2>. QED BY <2>1, <2>2
  <1>. QED BY <1>1, <1>2, <1>15, <1>17, <1>22, <1>23

\* The code of a call does what C says of it.
LEMMA CallWorks ==
  ASSUME NEW e, Kind(e, "call"), NEW n \in Nat, n = Len(e[3]), NEW f, NEW a, Pushes(e, f, a, n),
         NEW i \in Int, CodeOf(f[0]) = Nil, IndexOf(f[0]) = i
  PROVE  Works(e, CallCx(f[n], e[2], n), i)
PROOF
  <1>1. PICK d : d = f[n] /\ d \in Contexts
    BY DEF Pushes
  <1>2. PICK q : q = CodeOf(CallCx(d, e[2], n))
    OBVIOUS
  <1>3. SUFFICES ASSUME NEW c, NEW p, NEW s, Whole(c), Placed(c, q, p), s \in State,
                        Pc(s) = p + 1, Level(i, Stk(s))
                 PROVE  Fine(s, c, Ends(c, e, p + Len(q), Stk(s), Mem(s)))
    BY <1>1, <1>2, SMTT(30) DEF Works
  <1>4. PICK k \in Seq(Word), m \in Memory : k = Stk(s) /\ m = Mem(s)
    BY <1>3, StateFacts
  <1>5. PICK o, R, h, j : o = p + Len(CodeOf(d)) /\ R = InRegs(n) /\ h = PoppedIndex(d, n) /\ j = IndexOf(d)
    OBVIOUS
  <1>6. /\ Placed(c, CodeOf(d), p) /\ Placed(c, PopCode(IndexOf(d), ArgRegs(n)), o)
        /\ Calling(e, n, c, o + R, h) /\ p + Len(q) = CallEnd(n, o + R)
    BY <1>1, <1>2, <1>3, <1>5, CallPlaces
  <1>7. PICK E : E = CallEnd(n, o + R)
    OBVIOUS
  <1>8. PICK B : B = Ends(c, e, E, k, m)
    OBVIOUS
  <1>9. Halts(c, e, m, B) /\ \A t \in State : Ended(t, e, E, k, m) => Fine(t, c, B)
    BY <1>8, EndsFacts
  <1>10. j \in Int /\ h = j - 8 * R
    BY <1>1, <1>5, ContextsFacts DEF PoppedIndex
  <1>11. Placed(c, PopCode(j, ArgRegs(n)), o)
    BY <1>5, <1>6
  <1>12. Arrives(e, m, k, c, B, o, j, n)
    BY <1>3, <1>5, <1>6, <1>7, <1>9, <1>10, <1>11, CallEnding
  <1>13. Arrives(e, m, k, c, B, p + Len(CodeOf(f[n])), IndexOf(f[n]), n) /\ Placed(c, CodeOf(f[n]), p)
    BY <1>1, <1>5, <1>6, <1>12
  <1>14. Arrives(e, m, k, c, B, p + Len(CodeOf(f[0])), IndexOf(f[0]), 0)
    BY <1>3, <1>9, <1>13, PushLoop
  <1>15. p + Len(CodeOf(f[0])) = p /\ p \in Nat
    <2>1. p \in Nat
      BY <1>3 DEF Placed
    <2>. QED BY <2>1, NilFacts
  <1>16. Arrives(e, m, k, c, B, p, i, 0)
    BY <1>14, <1>15
  <1>17. Loaded(e, Mem(s), Stk(s), s, 0)
    BY <1>3, LoadedFirst
  <1>18. Loaded(e, m, k, s, 0)
    BY <1>4, <1>17
  <1>19. Fine(s, c, B)
    BY <1>3, <1>16, <1>18, Zenon DEF Arrives
  <1>. QED BY <1>4, <1>6, <1>7, <1>8, <1>19, Zenon

-----------------------------------------------------------------------------
(***************************************************************************)
(* The code of every expression does what C says.                          *)
(***************************************************************************)
\* The code of e does, wherever the compiler does not die for it.
Runs(e) ==
  \A i \in Int, l \in Nat, n \in {0, 1} : UsedOf(G(e, i, l, n)) = None => Works(e, G(e, i, l, n), i)

\* Code that reports no void function has no part that does.
LEMMA JoinNone ==
  ASSUME NEW d, NEW u, Join(d, u) = None
  PROVE  d = None /\ u = None
PROOF
  BY DEF Join, None

\* The code of a part whose value is not of a void function.
Proper(p, a, i, l) ==
  Layout(a, i, l) /\ Works(p, a, i) /\ IndexOf(a) \in Int /\ LabelsOf(a) \in Nat /\ IndexOf(a) + 8 \in Int

\* What is known of the code of a part for which the compiler does not die.
LEMMA PartRuns ==
  ASSUME NEW e \in Exps, NEW p \in Parts(e), Runs(p), NEW i \in Int, NEW l \in Nat, NEW n \in {0, 1},
         NEW a, a = G(p, i, l, n), UsedOf(a) = None
  PROVE  Proper(p, a, i, l) /\ (n = 1 => ~Void(p))
PROOF
  <1>1. p \in Exps
    BY PartsFacts
  <1>2. Layout(a, i, l)
    BY <1>1, AllLaidOut DEF LaidOut
  <1>3. Works(p, a, i)
    BY Zenon DEF Runs
  <1>4. IndexOf(a) \in Int /\ LabelsOf(a) \in Nat /\ IndexOf(a) + 8 \in Int
    BY <1>2, LayoutFacts
  <1>5. Between(U(p, n), UsedOf(a), BC(p))
    BY <1>1, UsedIsRight, Zenon DEF UsedRight
  <1>6. U(p, n) = {}
    BY <1>5 DEF Between, None
  <1>7. n = 1 => ~Void(p)
    BY <1>6, Zenon DEF Void
  <1>. QED BY <1>2, <1>3, <1>4, <1>7, Zenon DEF Proper

\* The last steps of a call, the arguments of which all do.
LEMMA CallRuns ==
  ASSUME NEW e, Kind(e, "call"), \A p \in Parts(e) : Runs(p), NEW i \in Int, NEW l \in Nat,
         NEW n \in {0, 1}, UsedOf(G(e, i, l, n)) = None
  PROVE  Works(e, G(e, i, l, n), i)
PROOF
  <1>0. e \in Exps
    BY DEF Kind
  <1>1. PICK f : CallRun(f, e, i, l, n)
    BY <1>0, CallG
  <1>2. PICK N \in Nat : N = Len(e[3])
    BY <1>1, Zenon DEF CallRun
  <1>3. PICK args : args = e[3] /\ \A k \in 1 .. N : args[k] \in Parts(e)
    BY <1>2, CallFacts
  <1> DEFINE x(k) == args[N + 1 - k]
             a == [k \in 1 .. N |-> G(x(k), IndexOf(f[k - 1]), LabelsOf(f[k - 1]), 1)]
             S == {k \in 0 .. N : UsedOf(f[k]) = None}
  <1>4. /\ f[0] = Checked(e[2], i, l, n)
        /\ \A k \in 0 .. N : f[k] \in Contexts
        /\ \A k \in 1 .. N : f[k] = PushedCx(f[k - 1], G(x(k), IndexOf(f[k - 1]), LabelsOf(f[k - 1]), 1))
        /\ G(e, i, l, n) = CallCx(f[N], e[2], N)
    BY <1>1, <1>2, <1>3, Zenon DEF CallRun
  <1>5. \A k \in 1 .. N : a[k] = G(x(k), IndexOf(f[k - 1]), LabelsOf(f[k - 1]), 1)
    OBVIOUS
  <1>6. \A k \in 1 .. N : x(k) \in Parts(e) /\ k - 1 \in 0 .. N
    BY <1>3
  <1> HIDE DEF a, x
  <1>7. ASSUME NEW k \in 1 .. N PROVE f[k] = PushedCx(f[k - 1], a[k])
    BY <1>4, <1>5
  <1>8. N \in S
    <2>1. UsedOf(f[N]) = None
      BY <1>4, CalledUsed
    <2>. QED BY <2>1
  <1>9. ASSUME NEW k \in 1 .. N, k \in S PROVE k - 1 \in S /\ UsedOf(a[k]) = None
    <2>1. UsedOf(PushedCx(f[k - 1], a[k])) = None
      BY <1>7, <1>9
    <2>2. UsedOf(f[k - 1]) = None /\ UsedOf(a[k]) = None
      BY <2>1, PushedUsed, JoinNone
    <2>. QED BY <1>6, <2>2
  <1> HIDE DEF S
  <1>10. 0 .. N \subseteq S
    BY <1>8, <1>9, Downwards
  <1>11. ASSUME NEW k \in 1 .. N
         PROVE  /\ Layout(a[k], IndexOf(f[k - 1]), LabelsOf(f[k - 1]))
                /\ Works(x(k), a[k], IndexOf(f[k - 1])) /\ Argument(e, N, k, x(k))
    <2>1. k \in S /\ k - 1 \in 0 .. N /\ x(k) \in Parts(e)
      BY <1>6, <1>10
    <2>2. PICK q \in Contexts : q = f[k - 1] /\ IndexOf(q) \in Int /\ LabelsOf(q) \in Nat
      BY <1>4, <2>1, ContextsFacts
    <2>3. PICK b : b = a[k] /\ b = G(x(k), IndexOf(q), LabelsOf(q), 1) /\ UsedOf(b) = None
      BY <1>5, <1>9, <2>1, <2>2
    <2>4. Runs(x(k)) /\ 1 \in {0, 1}
      BY <2>1
    <2>5. Proper(x(k), b, IndexOf(q), LabelsOf(q)) /\ ~Void(x(k))
      BY <1>0, <2>1, <2>2, <2>3, <2>4, PartRuns
    <2>6. Argument(e, N, k, x(k))
      BY <1>2, <1>3, <2>5 DEF Argument, x
    <2>. QED BY <2>2, <2>3, <2>5, <2>6, Zenon DEF Proper
  <1>12. \A k \in 1 .. N : x(k) = e[3][N + 1 - k]
    BY <1>3 DEF x
  <1>13. Pushes(e, f, a, N)
    BY <1>4, <1>7, <1>11, <1>12, Zenon DEF Pushes
  <1>14. CodeOf(f[0]) = Nil /\ IndexOf(f[0]) = i
    BY <1>4, CxFacts DEF Checked
  <1>15. Works(e, CallCx(f[N], e[2], N), i)
    BY <1>2, <1>13, <1>14, CallWorks
  <1>. QED BY <1>4, <1>15

\* The code of every expression for which the compiler does not die does what C says,
\* wherever it stands in a whole.
LEMMA AllRun ==
  \A e \in Exps : Runs(e)
PROOF
  <1> DEFINE S == {e \in Exps : Runs(e)}
  <1>1. ASSUME NEW e \in Exps, \A p \in Parts(e) : p \in S PROVE Runs(e)
    <2>1. \A p \in Parts(e) : Runs(p)
      BY <1>1
    <2> HIDE DEF S
    <2>2. SUFFICES ASSUME NEW i \in Int, NEW l \in Nat, NEW n \in {0, 1}, UsedOf(G(e, i, l, n)) = None
                   PROVE  Works(e, G(e, i, l, n), i)
      BY Zenon DEF Runs
    <2>3. ASSUME NEW p \in Parts(e), NEW j \in Int, NEW m \in Nat
          PROVE  /\ UsedOf(G(p, j, m, 1)) = None => Proper(p, G(p, j, m, 1), j, m) /\ ~Void(p)
                 /\ UsedOf(G(p, j, m, 0)) = None => Proper(p, G(p, j, m, 0), j, m)
                 /\ UsedOf(G(p, j, m, n)) = None => Proper(p, G(p, j, m, n), j, m)
      <3>1. 0 \in {0, 1} /\ 1 \in {0, 1} /\ Runs(p)
        BY <2>1
      <3>. QED BY <3>1, PartRuns
    <2>4. \A p, a, j, m : Proper(p, a, j, m) =>
            /\ Layout(a, j, m) /\ Works(p, a, j) /\ IndexOf(a) \in Int /\ LabelsOf(a) \in Nat
            /\ IndexOf(a) + 8 \in Int
      BY Zenon DEF Proper
    <2>5. CASE Kind(e, "const") \/ Kind(e, "var")
      BY <2>5, LeafG, ConstWorks, VarWorks
    <2>6. CASE Kind(e, "unary") \/ Kind(e, "prefix") \/ Kind(e, "suffix")
      <3>1. e[3] \in Parts(e)
        BY <2>6, UnaryFacts, StepFacts
      <3>2. PICK a : a = G(e[3], i, l, 1) /\ G(e, i, l, n) = UnaryCx(a, UnaryCode(e))
        BY <2>6, UnaryG
      <3>3. UsedOf(a) = None
        BY <2>2, <3>2, UnaryUsed
      <3>4. Proper(e[3], a, i, l) /\ ~Void(e[3])
        BY <2>3, <3>1, <3>2, <3>3
      <3>5. Layout(a, i, l) /\ Works(e[3], a, i)
        BY <2>4, <3>4, Zenon
      <3>. QED BY <2>6, <3>2, <3>4, <3>5, UnaryWorks
    <2>7. CASE Kind(e, "ternary")
      <3>1. e[2] \in Parts(e) /\ e[3] \in Parts(e) /\ e[4] \in Parts(e) /\ l + 1 + 1 \in Nat
        BY <2>7, TernaryFacts
      <3>2. PICK c, a, b : /\ c = G(e[2], i, l + 1 + 1, 1) /\ a = G(e[3], IndexOf(c), LabelsOf(c), n)
                           /\ b = G(e[4], IndexOf(a), LabelsOf(a), n)
        OBVIOUS
      <3>3. G(e, i, l, n) = TernaryCx(c, a, b, l, l + 1)
        BY <2>7, <3>2, TernaryG
      <3>4. UsedOf(c) = None /\ UsedOf(a) = None /\ UsedOf(b) = None
        <4>1. Join(Join(UsedOf(c), UsedOf(a)), UsedOf(b)) = None
          BY <2>2, <3>3, TernaryUsed
        <4>. QED BY <4>1, JoinNone
      <3>5. Proper(e[2], c, i, l + 1 + 1) /\ ~Void(e[2])
        BY <2>3, <3>1, <3>2, <3>4
      <3>6. Proper(e[3], a, IndexOf(c), LabelsOf(c))
        BY <2>3, <2>4, <3>1, <3>2, <3>4, <3>5
      <3>7. Proper(e[4], b, IndexOf(a), LabelsOf(a))
        BY <2>3, <2>4, <3>1, <3>2, <3>4, <3>6
      <3>8. /\ Layout(c, i, l + 1 + 1) /\ Layout(a, IndexOf(c), LabelsOf(c))
            /\ Layout(b, IndexOf(a), LabelsOf(a)) /\ Works(e[2], c, i)
            /\ Works(e[3], a, IndexOf(c)) /\ Works(e[4], b, IndexOf(a))
        BY <2>4, <3>5, <3>6, <3>7, Zenon
      <3>9. Works(e, TernaryCx(c, a, b, l, l + 1), i)
        BY <2>7, <3>5, <3>8, TernaryWorks
      <3>. QED BY <3>3, <3>9
    <2>8. CASE Kind(e, "call")
      BY <2>1, <2>2, <2>8, CallRuns
    <2>9. CASE IsComma(e)
      <3>1. e[3] \in Parts(e) /\ e[4] \in Parts(e)
        BY <2>9, OperandFacts
      <3>2. PICK a, b : a = G(e[3], i, l, 0) /\ b = G(e[4], IndexOf(a), LabelsOf(a), 1)
        OBVIOUS
      <3>3. G(e, i, l, n) = CommaCx(a, b)
        BY <2>9, <3>2, CommaG
      <3>4. UsedOf(a) = None /\ UsedOf(b) = None
        BY <2>2, <3>3, CommaUsed, JoinNone
      <3>5. Proper(e[3], a, i, l)
        BY <2>3, <3>1, <3>2, <3>4
      <3>6. Proper(e[4], b, IndexOf(a), LabelsOf(a))
        BY <2>3, <2>4, <3>1, <3>2, <3>4, <3>5
      <3>7. /\ Layout(a, i, l) /\ Layout(b, IndexOf(a), LabelsOf(a))
            /\ Works(e[3], a, i) /\ Works(e[4], b, IndexOf(a))
        BY <2>4, <3>5, <3>6, Zenon
      <3>8. Works(e, CommaCx(a, b), i)
        BY <2>9, <3>7, CommaWorks
      <3>. QED BY <3>3, <3>8
    <2>10. CASE IsAssign(e)
      <3>1. e[4] \in Parts(e)
        BY <2>10, OperandFacts
      <3>2. PICK a : a = G(e[4], i, l, 1) /\ G(e, i, l, n) = AssignCx(a, e[3][2])
        BY <2>10, AssignG
      <3>3. UsedOf(a) = None
        BY <2>2, <3>2, AssignUsed
      <3>4. Proper(e[4], a, i, l) /\ ~Void(e[4])
        BY <2>3, <3>1, <3>2, <3>3
      <3>5. Layout(a, i, l) /\ Works(e[4], a, i)
        BY <2>4, <3>4, Zenon
      <3>. QED BY <2>10, <3>2, <3>4, <3>5, AssignWorks
    <2>11. CASE IsLogic(e)
      <3>1. e[3] \in Parts(e) /\ e[4] \in Parts(e) /\ l + 1 \in Nat
        BY <2>11, OperandFacts
      <3>2. PICK a, b : a = G(e[3], i, l + 1, 1) /\ b = G(e[4], IndexOf(a), LabelsOf(a), 1)
        OBVIOUS
      <3>3. G(e, i, l, n) = LogicCx(a, b, JumpOf(e), l)
        BY <2>11, <3>2, LogicG
      <3>4. UsedOf(a) = None /\ UsedOf(b) = None
        BY <2>2, <3>3, LogicUsed, JoinNone
      <3>5. Proper(e[3], a, i, l + 1) /\ ~Void(e[3])
        BY <2>3, <3>1, <3>2, <3>4
      <3>6. Proper(e[4], b, IndexOf(a), LabelsOf(a)) /\ ~Void(e[4])
        BY <2>3, <2>4, <3>1, <3>2, <3>4, <3>5
      <3>7. /\ Layout(a, i, l + 1) /\ Layout(b, IndexOf(a), LabelsOf(a))
            /\ Works(e[3], a, i) /\ Works(e[4], b, IndexOf(a))
        BY <2>4, <3>5, <3>6, Zenon
      <3>8. Works(e, LogicCx(a, b, JumpOf(e), l), i)
        BY <2>11, <3>5, <3>6, <3>7, LogicWorks
      <3>. QED BY <3>3, <3>8
    <2>12. CASE IsOrdinary(e)
      <3>1. e[3] \in Parts(e) /\ e[4] \in Parts(e)
        BY <2>12, OperandFacts
      <3>2. PICK a, b : a = G(e[4], i, l, 1) /\ b = G(e[3], IndexOf(a) + 8, LabelsOf(a), 1)
        OBVIOUS
      <3>3. G(e, i, l, n) = OrdinaryCx(a, b, BinaryCode(e[2]))
        BY <2>12, <3>2, OrdinaryG
      <3>4. UsedOf(a) = None /\ UsedOf(b) = None
        BY <2>2, <3>3, OrdinaryUsed, JoinNone
      <3>5. Proper(e[4], a, i, l) /\ ~Void(e[4])
        BY <2>3, <3>1, <3>2, <3>4
      <3>6. Proper(e[3], b, IndexOf(a) + 8, LabelsOf(a)) /\ ~Void(e[3])
        BY <2>3, <2>4, <3>1, <3>2, <3>4, <3>5
      <3>7. /\ Layout(a, i, l) /\ Layout(b, IndexOf(a) + 8, LabelsOf(a))
            /\ Works(e[4], a, i) /\ Works(e[3], b, IndexOf(a) + 8)
        BY <2>4, <3>5, <3>6, Zenon
      <3>8. Works(e, OrdinaryCx(a, b, BinaryCode(e[2])), i)
        BY <2>12, <3>5, <3>6, <3>7, OrdinaryWorks
      <3>. QED BY <3>3, <3>8
    <2>. QED BY <2>5, <2>6, <2>7, <2>8, <2>9, <2>10, <2>11, <2>12, Kinds, BinaryKinds, Zenon
  <1>2. Exps \subseteq S
    BY <1>1, TreeInduction
  <1>. QED BY <1>2
-----------------------------------------------------------------------------
(***************************************************************************)
(* The steps of the specification are those of the instructions.           *)
(***************************************************************************)
Now == St(pc, reg, flags, stack, store)

\* The parts of the state.
LEMMA NowIs ==
  /\ Pc(Now) = pc /\ Reg(Now) = reg /\ Flg(Now) = flags /\ Stk(Now) = stack /\ Mem(Now) = store
  /\ Low(Flg(Now)) = flags[1] /\ High(Flg(Now)) = flags[2]
  /\ OpAt(code, Now) = code[pc].op /\ ArgAt(code, Now) = arg
PROOF
  BY DEF Now, St, Pc, Reg, Flg, Stk, Mem, Low, High, OpAt, ArgAt, arg

\* What it takes to be a step of each instruction.
LEMMA DoesFacts ==
  ASSUME NEW c, NEW a, NEW s, NEW t
  PROVE  /\ t = SetReg(s, "rax", a) => Does(c, "mov", a, s, t)
         /\ t = SetReg(s, "rax", Reg(s)[a]) => Does(c, "copy", a, s, t)
         /\ t = SetReg(s, "rax", Mem(s)[a]) => Does(c, "load", a, s, t)
         /\ t = SetReg(s, "rax", Alu(a, Reg(s)["rax"], Reg(s)["rcx"])) => Does(c, "alu", a, s, t)
         /\ t = SetReg(s, "rax", Alu1(a, Reg(s)["rax"])) => Does(c, "alu1", a, s, t)
         /\ t = SetReg(s, "rax", Bool(Holds(a, Low(Flg(s)), High(Flg(s))))) => Does(c, "set", a, s, t)
         /\ t = SetMem(s, a, Reg(s)["rax"]) => Does(c, "store", a, s, t)
         /\ t = SetMem(s, a, Alu1("++", Mem(s)[a])) => Does(c, "inc", a, s, t)
         /\ t = SetMem(s, a, Alu1("--", Mem(s)[a])) => Does(c, "dec", a, s, t)
         /\ t = SetReg(s, a, IF Reg(s)["rax"] < 0 THEN 0 - 1 ELSE 0) => Does(c, "cdq", a, s, t)
         /\ t = Divided(s, Reg(s)[a]) => Does(c, "idiv", a, s, t)
         /\ t = SetFlg(s, Reg(s)["rax"], IF a = "zero" THEN 0 ELSE Reg(s)[a]) => Does(c, "cmp", a, s, t)
         /\ t = SetStk(s, Grow(Stk(s), Reg(s)[a])) => Does(c, "push", a, s, t)
         /\ t = Popped(s, a) => Does(c, "pop", a, s, t)
         /\ t = CalledIn(s, a[1], a[2]) => Does(c, "call", a, s, t)
         /\ t = SetStk(s, Free(Stk(s), a)) => Does(c, "release", a, s, t)
         /\ t = GoTo(s, Targ(c, a)) => Does(c, "jmp", a, s, t)
         /\ t = GoTo(s, IF Low(Flg(s)) = High(Flg(s)) THEN Targ(c, a) ELSE Pc(s) + 1) => Does(c, "je", a, s, t)
         /\ t = GoTo(s, IF Low(Flg(s)) # High(Flg(s)) THEN Targ(c, a) ELSE Pc(s) + 1) => Does(c, "jne", a, s, t)
         /\ t = GoTo(s, Pc(s) + 1) => Does(c, "label", a, s, t)
PROOF
  BY Zenon DEF Does

\* Instructions that set one register.
LEMMA RegSteps ==
  /\ \A v : Rax(v) /\ UNCHANGED <<flags, stack, store>> => Now' = SetReg(Now, "rax", v)
  /\ \A x, v : SetRegs([reg EXCEPT ![x] = v]) /\ UNCHANGED <<flags, stack, store>> => Now' = SetReg(Now, x, v)
PROOF
  <1>1. ASSUME NEW x, NEW v, SetRegs([reg EXCEPT ![x] = v]), UNCHANGED <<flags, stack, store>>
        PROVE  Now' = SetReg(Now, x, v)
    <2>1. pc' = pc + 1 /\ reg' = Set(reg, x, v) /\ flags' = flags /\ stack' = stack /\ store' = store
      BY <1>1 DEF SetRegs, Next1, Set
    <2>2. Now' = St(pc + 1, Set(reg, x, v), flags, stack, store)
      BY <2>1, Zenon DEF Now
    <2>. QED BY <2>2, NowIs, Zenon DEF SetReg
  <1>. QED BY <1>1, Zenon DEF Rax

\* A step of the specification before the end of the code does what the
\* instruction there does, or traps.
Moves ==
  /\ UNCHANGED <<fixed, status>> /\ ~Trapped(OpAt(code, Now), ArgAt(code, Now), Now)
  /\ Does(code, OpAt(code, Now), ArgAt(code, Now), Now, Now')

\* The instructions that set eax.
LEMMA ComputeMoves ==
  ASSUME Compute
  PROVE  Moves
PROOF
  <1>0. UNCHANGED <<fixed, status>> /\ UNCHANGED <<flags, stack, store>>
    BY DEF Compute, Rax, SetRegs, Next1
  <1>1. CASE At("mov") /\ Rax(arg)
    <2>1. Now' = SetReg(Now, "rax", ArgAt(code, Now)) /\ OpAt(code, Now) = "mov"
      BY <1>0, <1>1, RegSteps, NowIs DEF At
    <2>. QED BY <1>0, <2>1, DoesFacts, Zenon DEF Moves, Trapped
  <1>2. CASE At("copy") /\ Rax(reg[arg])
    <2>1. Now' = SetReg(Now, "rax", Reg(Now)[ArgAt(code, Now)]) /\ OpAt(code, Now) = "copy"
      BY <1>0, <1>2, RegSteps, NowIs DEF At
    <2>. QED BY <1>0, <2>1, DoesFacts, Zenon DEF Moves, Trapped
  <1>3. CASE At("load") /\ Rax(store[arg])
    <2>1. Now' = SetReg(Now, "rax", Mem(Now)[ArgAt(code, Now)]) /\ OpAt(code, Now) = "load"
      BY <1>0, <1>3, RegSteps, NowIs DEF At
    <2>. QED BY <1>0, <2>1, DoesFacts, Zenon DEF Moves, Trapped
  <1>4. CASE At("alu") /\ Rax(Alu(arg, eax, ecx))
    <2>1. /\ Now' = SetReg(Now, "rax", Alu(ArgAt(code, Now), Reg(Now)["rax"], Reg(Now)["rcx"]))
          /\ OpAt(code, Now) = "alu"
      BY <1>0, <1>4, RegSteps, NowIs DEF At, eax, ecx
    <2>. QED BY <1>0, <2>1, DoesFacts, Zenon DEF Moves, Trapped
  <1>5. CASE At("alu1") /\ Rax(Alu1(arg, eax))
    <2>1. Now' = SetReg(Now, "rax", Alu1(ArgAt(code, Now), Reg(Now)["rax"])) /\ OpAt(code, Now) = "alu1"
      BY <1>0, <1>5, RegSteps, NowIs DEF At, eax
    <2>. QED BY <1>0, <2>1, DoesFacts, Zenon DEF Moves, Trapped
  <1>6. CASE At("set") /\ Rax(Bool(Holds(arg, flags[1], flags[2])))
    <2>1. OpAt(code, Now) = "set"
      BY <1>6, NowIs, Zenon DEF At
    <2>2. Now' = SetReg(Now, "rax", Bool(Holds(arg, flags[1], flags[2])))
      BY <1>0, <1>6, RegSteps, Zenon
    <2>3. Now' = SetReg(Now, "rax", Bool(Holds(ArgAt(code, Now), Low(Flg(Now)), High(Flg(Now)))))
      BY <2>2, NowIs, Zenon
    <2>. QED BY <1>0, <2>1, <2>3, DoesFacts, Zenon DEF Moves, Trapped
  <1>. QED BY <1>1, <1>2, <1>3, <1>4, <1>5, <1>6, Zenon DEF Compute

\* The instructions that set a variable.
LEMMA StoreMoves ==
  ASSUME Store
  PROVE  Moves
PROOF
  <1>0. UNCHANGED <<fixed, status>> /\ pc' = pc + 1 /\ UNCHANGED <<reg, flags, stack>>
    BY DEF Store, Next1
  <1>1. ASSUME NEW v, store' = [store EXCEPT ![arg] = v] PROVE Now' = SetMem(Now, ArgAt(code, Now), v)
    <2>1. store' = With(store, arg, v) /\ reg' = reg /\ flags' = flags /\ stack' = stack
      BY <1>0, <1>1 DEF With
    <2>2. Now' = St(pc + 1, reg, flags, stack, With(store, arg, v))
      BY <1>0, <2>1, Zenon DEF Now
    <2>. QED BY <2>2, NowIs, Zenon DEF SetMem
  <1>2. CASE At("store") /\ store' = [store EXCEPT ![arg] = eax]
    <2>1. Now' = SetMem(Now, ArgAt(code, Now), Reg(Now)["rax"]) /\ OpAt(code, Now) = "store"
      BY <1>1, <1>2, NowIs DEF At, eax
    <2>. QED BY <1>0, <2>1, DoesFacts, Zenon DEF Moves, Trapped
  <1>3. CASE At("inc") /\ store' = [store EXCEPT ![arg] = Alu1("++", store[arg])]
    <2>1. Now' = SetMem(Now, ArgAt(code, Now), Alu1("++", Mem(Now)[ArgAt(code, Now)])) /\ OpAt(code, Now) = "inc"
      BY <1>1, <1>3, NowIs DEF At
    <2>. QED BY <1>0, <2>1, DoesFacts, Zenon DEF Moves, Trapped
  <1>4. CASE At("dec") /\ store' = [store EXCEPT ![arg] = Alu1("--", store[arg])]
    <2>1. Now' = SetMem(Now, ArgAt(code, Now), Alu1("--", Mem(Now)[ArgAt(code, Now)])) /\ OpAt(code, Now) = "dec"
      BY <1>1, <1>4, NowIs DEF At
    <2>. QED BY <1>0, <2>1, DoesFacts, Zenon DEF Moves, Trapped
  <1>. QED BY <1>2, <1>3, <1>4 DEF Store

\* cdq.
LEMMA ExtendMoves ==
  ASSUME SignExtend
  PROVE  Moves
PROOF
  <1>0. UNCHANGED <<fixed, status>> /\ UNCHANGED <<flags, stack, store>>
    BY DEF SignExtend, SetRegs, Next1
  <1>1. PICK v : v = IF eax < 0 THEN 0 - 1 ELSE 0
    OBVIOUS
  <1>2. At("cdq") /\ SetRegs([reg EXCEPT ![arg] = v])
    BY <1>1 DEF SignExtend
  <1>3. Now' = SetReg(Now, ArgAt(code, Now), v) /\ OpAt(code, Now) = "cdq"
    BY <1>0, <1>2, RegSteps, NowIs DEF At
  <1>4. v = IF Reg(Now)["rax"] < 0 THEN 0 - 1 ELSE 0
    BY <1>1, NowIs DEF eax
  <1>. QED BY <1>0, <1>3, <1>4, DoesFacts, Zenon DEF Moves, Trapped

\* A division traps, or does what the instruction does.
LEMMA DivideMoves ==
  ASSUME Divide
  PROVE  \/ /\ Trapped(OpAt(code, Now), ArgAt(code, Now), Now) /\ Now' = Now /\ pc' = pc
            /\ status' = "trapped" /\ UNCHANGED fixed
         \/ Moves
PROOF
  <1> DEFINE x == reg[arg]
             dividend == reg["rdx"] * 2 ^ Bits + Unsigned(eax)
             quotient == Quotient(dividend, x)
  <1>1. /\ At("idiv") /\ UNCHANGED <<flags, stack, store>>
        /\ IF x = 0 \/ quotient \notin Word
           THEN status' = "trapped" /\ UNCHANGED <<fixed, pc, reg>>
           ELSE SetRegs([reg EXCEPT !["rax"] = quotient, !["rdx"] = dividend - quotient * x])
    BY Zenon DEF Divide
  <1>2. /\ dividend = Dividend(Now) /\ x = Reg(Now)[ArgAt(code, Now)]
        /\ quotient = Quotient(Dividend(Now), Reg(Now)[ArgAt(code, Now)])
        /\ OpAt(code, Now) = "idiv"
    BY <1>1, NowIs, Zenon DEF Dividend, eax, At
  <1> HIDE DEF x, dividend, quotient
  <1>3. CASE x = 0 \/ quotient \notin Word
    <2>1. status' = "trapped" /\ UNCHANGED <<fixed, pc, reg>>
      BY <1>1, <1>3, Zenon
    <2>2. Now' = Now /\ pc' = pc /\ UNCHANGED fixed
      BY <1>1, <2>1 DEF Now
    <2>. QED BY <1>2, <1>3, <2>1, <2>2, Zenon DEF Trapped
  <1>4. CASE ~(x = 0 \/ quotient \notin Word)
    <2>1. SetRegs([reg EXCEPT !["rax"] = quotient, !["rdx"] = dividend - quotient * x])
      BY <1>1, <1>4, Zenon
    <2>2. PICK v : v = dividend - quotient * x
      OBVIOUS
    <2>3. /\ reg' = [reg EXCEPT !["rax"] = quotient, !["rdx"] = v]
          /\ pc' = pc + 1 /\ UNCHANGED <<fixed, status>> /\ flags' = flags /\ stack' = stack /\ store' = store
      BY <1>1, <2>1, <2>2 DEF SetRegs, Next1
    <2>4. reg' = Set(Set(reg, "rax", quotient), "rdx", v)
      BY <2>3 DEF Set
    <2>5. Now' = St(pc + 1, Set(Set(reg, "rax", quotient), "rdx", v), flags, stack, store)
      BY <2>3, <2>4, Zenon DEF Now
    <2>6. Now' = Divided(Now, Reg(Now)[ArgAt(code, Now)])
      BY <1>2, <2>2, <2>5, NowIs, Zenon DEF Divided
    <2>7. ~Trapped(OpAt(code, Now), ArgAt(code, Now), Now)
      BY <1>2, <1>4, Zenon DEF Trapped
    <2>. QED BY <1>2, <2>3, <2>6, <2>7, DoesFacts, Zenon DEF Moves
  <1>. QED BY <1>3, <1>4

\* cmp.
LEMMA CompareMoves ==
  ASSUME CompareWords
  PROVE  Moves
PROOF
  <1>1. PICK v : v = IF arg = "zero" THEN 0 ELSE reg[arg]
    OBVIOUS
  <1>2. /\ At("cmp") /\ flags' = Pair(eax, v) /\ pc' = pc + 1 /\ UNCHANGED <<fixed, status>>
        /\ reg' = reg /\ stack' = stack /\ store' = store
    BY <1>1, Zenon DEF CompareWords, Next1, Pair
  <1>3. Now' = St(pc + 1, reg, Pair(eax, v), stack, store)
    BY <1>2, Zenon DEF Now
  <1>4. Now' = SetFlg(Now, Reg(Now)["rax"], v) /\ OpAt(code, Now) = "cmp"
    BY <1>2, <1>3, NowIs, Zenon DEF SetFlg, eax, At
  <1>5. v = IF ArgAt(code, Now) = "zero" THEN 0 ELSE Reg(Now)[ArgAt(code, Now)]
    BY <1>1, NowIs
  <1>. QED BY <1>2, <1>4, <1>5, DoesFacts, Zenon DEF Moves, Trapped

\* push, pop, and the release of stack arguments.
LEMMA StackMoves ==
  ASSUME PushRax \/ PopReg \/ ReleaseStack
  PROVE  Moves
PROOF
  <1>1. CASE PushRax
    <2>1. /\ At("push") /\ stack' = Grow(stack, reg[arg]) /\ pc' = pc + 1 /\ UNCHANGED <<fixed, status>>
          /\ reg' = reg /\ flags' = flags /\ store' = store
      BY <1>1, Zenon DEF PushRax, Next1, Grow
    <2>2. Now' = St(pc + 1, reg, flags, Grow(stack, reg[arg]), store)
      BY <2>1, Zenon DEF Now
    <2>3. Now' = SetStk(Now, Grow(Stk(Now), Reg(Now)[ArgAt(code, Now)])) /\ OpAt(code, Now) = "push"
      BY <2>1, <2>2, NowIs, Zenon DEF SetStk, At
    <2>. QED BY <2>1, <2>3, DoesFacts, Zenon DEF Moves, Trapped
  <1>2. CASE PopReg
    <2>1. /\ At("pop") /\ stack' = Shrink(stack) /\ reg' = Set(reg, arg, Top(stack)) /\ pc' = pc + 1
          /\ UNCHANGED <<fixed, status>> /\ flags' = flags /\ store' = store
      BY <1>2, Zenon DEF PopReg, SetRegs, Next1, Shrink, Set, Top
    <2>2. Now' = St(pc + 1, Set(reg, arg, Top(stack)), flags, Shrink(stack), store)
      BY <2>1, Zenon DEF Now
    <2>3. Now' = Popped(Now, ArgAt(code, Now)) /\ OpAt(code, Now) = "pop"
      BY <2>1, <2>2, NowIs, Zenon DEF Popped, At
    <2>. QED BY <2>1, <2>3, DoesFacts, Zenon DEF Moves, Trapped
  <1>3. CASE ReleaseStack
    <2>1. /\ At("release") /\ stack' = Free(stack, arg) /\ pc' = pc + 1 /\ UNCHANGED <<fixed, status>>
          /\ reg' = reg /\ flags' = flags /\ store' = store
      BY <1>3, Zenon DEF ReleaseStack, Next1, Free
    <2>2. Now' = St(pc + 1, reg, flags, Free(stack, arg), store)
      BY <2>1, Zenon DEF Now
    <2>3. Now' = SetStk(Now, Free(Stk(Now), ArgAt(code, Now))) /\ OpAt(code, Now) = "release"
      BY <2>1, <2>2, NowIs, Zenon DEF SetStk, At
    <2>. QED BY <2>1, <2>3, DoesFacts, Zenon DEF Moves, Trapped
  <1>. QED BY <1>1, <1>2, <1>3

\* call.
LEMMA CallMoves ==
  ASSUME CallFunction
  PROVE  Moves
PROOF
  <1>1. PICK args : args = [i \in 1 .. arg[2] |->
                              IF i <= Len(CallRegs) THEN reg[CallRegs[i]]
                              ELSE stack[Len(stack) - 2 * (i - Len(CallRegs) - 1)]]
    OBVIOUS
  <1>2. /\ At("call") /\ store' = After(arg[1], args, store) /\ pc' = pc + 1 /\ UNCHANGED <<fixed, status>>
        /\ reg' = [r \in DOMAIN reg |-> IF r = "rax" /\ arg[1] \notin VoidFuncs
                                        THEN Result(arg[1], args, store) ELSE Junk]
        /\ flags' = flags /\ stack' = stack
    BY <1>1, Zenon DEF CallFunction, SetRegs, Next1
  <1>3. args = Passed(arg[2], Now)
    BY <1>1, NowIs, Zenon DEF Passed
  <1>4. reg' = Clobbered(arg[1], arg[2], Now)
    BY <1>2, <1>3, NowIs, Zenon DEF Clobbered
  <1>5. Now' = St(pc + 1, Clobbered(arg[1], arg[2], Now), flags, stack, After(arg[1], Passed(arg[2], Now), store))
    BY <1>2, <1>3, <1>4, Zenon DEF Now
  <1>6. Now' = CalledIn(Now, ArgAt(code, Now)[1], ArgAt(code, Now)[2]) /\ OpAt(code, Now) = "call"
    BY <1>2, <1>5, NowIs, Zenon DEF CalledIn, At
  <1>. QED BY <1>2, <1>6, DoesFacts, Zenon DEF Moves, Trapped

\* Jumps and labels.
LEMMA JumpMoves ==
  ASSUME Jump
  PROVE  Moves
PROOF
  <1>0. UNCHANGED <<fixed, status>> /\ reg' = reg /\ flags' = flags /\ stack' = stack /\ store' = store
    BY DEF Jump
  <1>1. ASSUME NEW p, pc' = p PROVE Now' = GoTo(Now, p)
    BY <1>0, <1>1, NowIs, Zenon DEF Now, GoTo
  <1>2. Target(arg) = Targ(code, ArgAt(code, Now))
    BY NowIs, Zenon DEF Target, Targ
  <1>3. CASE At("jmp") /\ pc' = Target(arg)
    <2>1. Now' = GoTo(Now, Targ(code, ArgAt(code, Now))) /\ OpAt(code, Now) = "jmp"
      BY <1>1, <1>2, <1>3, NowIs, Zenon DEF At
    <2>. QED BY <1>0, <2>1, DoesFacts, Zenon DEF Moves, Trapped
  <1>4. CASE At("je") /\ pc' = IF flags[1] = flags[2] THEN Target(arg) ELSE pc + 1
    <2>1. PICK p : p = IF flags[1] = flags[2] THEN Target(arg) ELSE pc + 1
      OBVIOUS
    <2>2. Now' = GoTo(Now, p) /\ OpAt(code, Now) = "je"
      BY <1>1, <1>4, <2>1, NowIs, Zenon DEF At
    <2>3. p = IF Low(Flg(Now)) = High(Flg(Now)) THEN Targ(code, ArgAt(code, Now)) ELSE Pc(Now) + 1
      BY <1>2, <2>1, NowIs
    <2>. QED BY <1>0, <2>2, <2>3, DoesFacts, Zenon DEF Moves, Trapped
  <1>5. CASE At("jne") /\ pc' = IF flags[1] # flags[2] THEN Target(arg) ELSE pc + 1
    <2>1. PICK p : p = IF flags[1] # flags[2] THEN Target(arg) ELSE pc + 1
      OBVIOUS
    <2>2. Now' = GoTo(Now, p) /\ OpAt(code, Now) = "jne"
      BY <1>1, <1>5, <2>1, NowIs, Zenon DEF At
    <2>3. p = IF Low(Flg(Now)) # High(Flg(Now)) THEN Targ(code, ArgAt(code, Now)) ELSE Pc(Now) + 1
      BY <1>2, <2>1, NowIs
    <2>. QED BY <1>0, <2>2, <2>3, DoesFacts, Zenon DEF Moves, Trapped
  <1>6. CASE At("label") /\ pc' = pc + 1
    <2>1. Now' = GoTo(Now, Pc(Now) + 1) /\ OpAt(code, Now) = "label"
      BY <1>1, <1>6, NowIs, Zenon DEF At
    <2>. QED BY <1>0, <2>1, DoesFacts, Zenon DEF Moves, Trapped
  <1>. QED BY <1>3, <1>4, <1>5, <1>6 DEF Jump
-----------------------------------------------------------------------------
(***************************************************************************)
(* The invariant and the theorems.                                         *)
(***************************************************************************)
\* Where the processor is to get to.
Goal == Ends(code, exp, Len(code), Nil, before)

\* The inductive invariant: while the processor runs, it is on its way to the end of
\* the code with what C allows, or to a trap where C allows anything.
IInv ==
  /\ exp \in Exps /\ before \in Memory /\ Now \in State /\ pc \in 1 .. Len(code) + 1
  /\ code = CodeOf(G(exp, 0, 0, 0)) /\ index = IndexOf(G(exp, 0, 0, 0))
  /\ status \in {"run", "done", "trapped", "died"}
  /\ status = "run" => Fine(Now, code, Goal)
  /\ status = "done" => (Exact => stack = Nil /\ Got(exp, before, reg["rax"], store))
  /\ status = "trapped" => (Exact => Bad(exp, before))

\* The code of every expression is one the processor can run.
LEMMA CodeFacts ==
  ASSUME NEW e \in Exps
  PROVE  /\ Layout(G(e, 0, 0, 0), 0, 0) /\ Whole(CodeOf(G(e, 0, 0, 0)))
         /\ Placed(CodeOf(G(e, 0, 0, 0)), CodeOf(G(e, 0, 0, 0)), 0)
         /\ Len(CodeOf(G(e, 0, 0, 0))) \in Nat
PROOF
  <1>1. PICK a : a = G(e, 0, 0, 0) /\ Layout(a, 0, 0)
    BY AllLaidOut DEF LaidOut
  <1>2. PICK c \in Seq(Instr) : c = CodeOf(a)
    BY <1>1, LayoutFacts
  <1>3. Whole(c)
    BY <1>1, <1>2, LayoutFacts DEF Span, Whole
  <1>4. Placed(c, c, 0) /\ Len(c) \in Nat
    BY <1>2 DEF Placed
  <1>. QED BY <1>1, <1>2, <1>3, <1>4

\* Initially.
LEMMA InitIInv == Init => IInv
PROOF
  <1> SUFFICES ASSUME Init PROVE IInv
    OBVIOUS
  <1>1. PICK a : a = G(exp, 0, 0, 0)
    OBVIOUS
  <1>2. compiled(exp) = a
    BY <1>1, Zenon DEF compiled, G, Part
  <1>3. /\ exp \in Exps /\ before \in Memory /\ code = CodeOf(a) /\ index = IndexOf(a) /\ pc = 1
        /\ status = IF UsedOf(a) = None THEN "run" ELSE "died"
        /\ reg = [r \in Regs |-> Junk] /\ flags = <<Junk, 0>> /\ stack = Nil /\ store = before
    BY <1>2, ProcessorAssumption DEF Init, CodeOf, IndexOf, UsedOf, None, Nil, Regs, Memory
  <1>4. reg \in RegFile /\ flags \in Flags /\ stack \in Seq(Word) /\ store \in Memory /\ pc \in Nat
    BY <1>3, ProcessorAssumption, WordFacts DEF RegFile, Flags, Nil
  <1>5. PICK s \in State : s = Now /\ Pc(s) = 1 /\ Stk(s) = Nil /\ Mem(s) = before
    BY <1>3, <1>4, StFacts DEF Now
  <1>6. PICK n \in Nat : n = Len(code)
    BY <1>1, <1>3, CodeFacts
  <1>7. ASSUME UsedOf(a) = None PROVE Fine(s, code, Goal)
    <2>1. Works(exp, a, 0)
      BY <1>1, <1>3, <1>7, AllRun DEF Runs
    <2>2. Whole(code) /\ Placed(code, CodeOf(a), 0)
      BY <1>1, <1>3, CodeFacts
    <2>3. Level(0, Stk(s))
      BY <1>5 DEF Level, Nil
    <2>4. Pc(s) = 0 + 1 /\ 0 + Len(CodeOf(a)) = Len(code)
      BY <1>3, <1>5, <1>6
    <2>5. Fine(s, code, Ends(code, exp, 0 + Len(CodeOf(a)), Stk(s), Mem(s)))
      BY <2>1, <2>2, <2>3, <2>4, Zenon DEF Works
    <2>. QED BY <1>5, <2>4, <2>5, Zenon DEF Goal
  <1>8. pc \in 1 .. Len(code) + 1
    BY <1>3, <1>6
  <1>9. status \in {"run", "died"} /\ (status = "run" => UsedOf(a) = None)
    BY <1>3
  <1>. QED BY <1>1, <1>3, <1>5, <1>7, <1>8, <1>9 DEF IInv

\* A state that is fine is the last one or the next one is fine.
LEMMA FineNow ==
  ASSUME NEW s, NEW c, NEW B, Fine(s, c, B)
  PROVE  /\ s \in State
         /\ \/ s \in B
            \/ Good(c, s) /\ \A u : Does(c, OpAt(c, s), ArgAt(c, s), s, u) => u \in State /\ Fine(u, c, B)
PROOF
  <1>1. PICK T \in SUBSET State : s \in T /\ Closed(T, c, B)
    BY Zenon DEF Fine
  <1>2. \A u \in T : u \in State /\ Fine(u, c, B)
    BY <1>1, Zenon DEF Fine
  <1>. QED BY <1>1, <1>2, Zenon DEF Closed

\* While the processor runs: it is at the end, or where stack_index says and able to go on,
\* or at a trap.
LEMMA RunFacts ==
  ASSUME IInv, status = "run"
  PROVE  \/ Ended(Now, exp, Len(code), Nil, before) /\ pc = Len(code) + 1
         \/ Stuck(code, Now, exp, before) /\ pc \in 1 .. Len(code)
         \/ Good(code, Now) /\ pc \in 1 .. Len(code)
              /\ \A u : Does(code, OpAt(code, Now), ArgAt(code, Now), Now, u) =>
                          u \in State /\ Fine(u, code, Goal)
PROOF
  <1>1. Fine(Now, code, Goal)
    BY DEF IInv
  <1>2. CASE Now \in Goal
    <2>1. Ended(Now, exp, Len(code), Nil, before) \/ Stuck(code, Now, exp, before)
      BY <1>2 DEF Goal, Ends
    <2>2. Ended(Now, exp, Len(code), Nil, before) => pc = Len(code) + 1
      BY NowIs, Zenon DEF Ended
    <2>3. Stuck(code, Now, exp, before) => pc \in 1 .. Len(code)
      BY NowIs, Zenon DEF Stuck
    <2>. QED BY <2>1, <2>2, <2>3
  <1>3. Good(code, Now) => pc \in 1 .. Len(code)
    BY NowIs, Zenon DEF Good
  <1>. QED BY <1>1, <1>2, <1>3, FineNow, Zenon

\* A fine state has a place in the code or behind it.
LEMMA FinePlace ==
  ASSUME NEW s, Len(code) \in Nat, Fine(s, code, Goal)
  PROVE  Pc(s) \in 1 .. Len(code) + 1
PROOF
  <1>1. CASE s \in Goal
    <2>1. Pc(s) = Len(code) + 1 \/ Pc(s) \in 1 .. Len(code)
      BY <1>1 DEF Goal, Ends, Ended, Stuck
    <2>. QED BY <2>1
  <1>2. CASE Good(code, s)
    <2>1. Pc(s) \in 1 .. Len(code)
      BY <1>2, Zenon DEF Good
    <2>. QED BY <2>1
  <1>. QED BY <1>1, <1>2, FineNow, Zenon

\* A step of an instruction keeps the invariant.
LEMMA MovesKeep ==
  ASSUME IInv, status = "run", pc <= Len(code), Moves
  PROVE  IInv'
PROOF
  <1>1. exp' = exp /\ before' = before /\ code' = code /\ index' = index /\ status' = "run"
    BY DEF Moves, fixed
  <1>2. Len(code) \in Nat
    BY CodeFacts DEF IInv
  <1>3. ~Ended(Now, exp, Len(code), Nil, before)
    <2>1. pc # Len(code) + 1
      BY <1>2 DEF IInv
    <2>. QED BY <2>1, NowIs, Zenon DEF Ended
  <1>4. ~Stuck(code, Now, exp, before)
    BY Zenon DEF Moves, Stuck
  <1>5. PICK t : t = Now'
    OBVIOUS
  <1>6. t \in State /\ Fine(t, code, Goal)
    BY <1>3, <1>4, <1>5, RunFacts, Zenon DEF Moves
  <1>7. Pc(t) = pc' /\ Pc(t) \in 1 .. Len(code) + 1
    <2>1. Pc(t) = pc'
      BY <1>5 DEF Now, St, Pc
    <2>. QED BY <1>2, <1>6, <2>1, FinePlace
  <1>8. Goal' = Goal
    BY <1>1, Zenon DEF Goal
  <1>9. Fine(Now', code', Goal')
    BY <1>1, <1>5, <1>6, <1>8, Zenon
  <1>. QED BY <1>1, <1>5, <1>6, <1>7, <1>9 DEF IInv

\* So does a trap: C allows anything there.
LEMMA TrapKeeps ==
  ASSUME IInv, status = "run", pc <= Len(code), Trapped(OpAt(code, Now), ArgAt(code, Now), Now),
         Now' = Now, pc' = pc, status' = "trapped", UNCHANGED fixed
  PROVE  IInv'
PROOF
  <1>1. exp' = exp /\ before' = before /\ code' = code /\ index' = index
    BY DEF fixed
  <1>2. Len(code) \in Nat
    BY CodeFacts DEF IInv
  <1>3. ~Ended(Now, exp, Len(code), Nil, before)
    <2>1. pc # Len(code) + 1
      BY <1>2 DEF IInv
    <2>. QED BY <2>1, NowIs, Zenon DEF Ended
  <1>4. ~Good(code, Now)
    BY Zenon DEF Good
  <1>5. Stuck(code, Now, exp, before)
    BY <1>3, <1>4, RunFacts, Zenon
  <1>6. Exact => Bad(exp, before)
    BY <1>5, Zenon DEF Stuck
  <1>. QED BY <1>1, <1>6 DEF IInv

\* So does the end.
LEMMA FinishKeeps ==
  ASSUME IInv, Finish
  PROVE  IInv'
PROOF
  <1>1. /\ status = "run" /\ pc > Len(code) /\ status' = "done"
        /\ exp' = exp /\ before' = before /\ code' = code /\ index' = index
        /\ pc' = pc /\ reg' = reg /\ flags' = flags /\ stack' = stack /\ store' = store
    BY DEF Finish, fixed
  <1>2. Len(code) \in Nat
    BY CodeFacts DEF IInv
  <1>3. Ended(Now, exp, Len(code), Nil, before)
    <2>1. pc \notin 1 .. Len(code)
      BY <1>1, <1>2
    <2>. QED BY <1>1, <2>1, RunFacts, Zenon
  <1>4. Exact => stack = Nil /\ Got(exp, before, reg["rax"], store)
    BY <1>3, NowIs, Zenon DEF Ended, Over
  <1>5. Now' = Now
    BY <1>1, Zenon DEF Now
  <1>. QED BY <1>1, <1>4, <1>5 DEF IInv

\* Every step keeps the invariant.
LEMMA NextIInv == IInv /\ [Next]_vars => IInv'
PROOF
  <1> SUFFICES ASSUME IInv, [Next]_vars PROVE IInv'
    OBVIOUS
  <1>1. CASE Moves /\ status = "run" /\ pc <= Len(code)
    BY <1>1, MovesKeep
  <1>2. ASSUME NEW o, At(o) PROVE status = "run" /\ pc <= Len(code)
    BY <1>2 DEF At
  <1>3. CASE Compute
    <2>1. status = "run" /\ pc <= Len(code)
      BY <1>3, Zenon DEF Compute, At
    <2>. QED BY <1>1, <1>3, <2>1, ComputeMoves, Zenon
  <1>4. CASE Store
    <2>1. status = "run" /\ pc <= Len(code)
      BY <1>4, Zenon DEF Store, At
    <2>. QED BY <1>1, <1>4, <2>1, StoreMoves, Zenon
  <1>5. CASE SignExtend
    BY <1>1, <1>2, <1>5, ExtendMoves, Zenon DEF SignExtend
  <1>6. CASE Divide
    <2>1. status = "run" /\ pc <= Len(code)
      BY <1>2, <1>6, Zenon DEF Divide
    <2>2. CASE Moves
      BY <1>1, <2>1, <2>2, Zenon
    <2>3. CASE /\ Trapped(OpAt(code, Now), ArgAt(code, Now), Now) /\ Now' = Now /\ pc' = pc
               /\ status' = "trapped" /\ UNCHANGED fixed
      BY <2>1, <2>3, TrapKeeps, Zenon
    <2>. QED BY <1>6, <2>2, <2>3, DivideMoves, Zenon
  <1>7. CASE CompareWords
    BY <1>1, <1>2, <1>7, CompareMoves, Zenon DEF CompareWords
  <1>8. CASE PushRax \/ PopReg \/ ReleaseStack
    <2>1. status = "run" /\ pc <= Len(code)
      BY <1>8, Zenon DEF PushRax, PopReg, ReleaseStack, At
    <2>. QED BY <1>1, <1>8, <2>1, StackMoves, Zenon
  <1>9. CASE CallFunction
    BY <1>1, <1>2, <1>9, CallMoves, Zenon DEF CallFunction
  <1>10. CASE Jump
    <2>1. status = "run" /\ pc <= Len(code)
      BY <1>10, Zenon DEF Jump, At
    <2>. QED BY <1>1, <1>10, <2>1, JumpMoves, Zenon
  <1>11. CASE Finish
    BY <1>11, FinishKeeps
  <1>12. CASE UNCHANGED vars
    <2>1. /\ exp' = exp /\ before' = before /\ code' = code /\ index' = index /\ status' = status
          /\ pc' = pc /\ reg' = reg /\ flags' = flags /\ stack' = stack /\ store' = store
      BY <1>12 DEF vars
    <2>2. Now' = Now /\ Goal' = Goal
      BY <2>1, Zenon DEF Now, Goal
    <2>. QED BY <2>1, <2>2 DEF IInv
  <1>. QED BY <1>3, <1>4, <1>5, <1>6, <1>7, <1>8, <1>9, <1>10, <1>11, <1>12, Zenon DEF Next

\* While the processor runs it does so with typed registers, stack and variables, and
\* never leaves the code.
THEOREM TypeCorrect == Spec => []TypeOK
PROOF
  <1>1. IInv => TypeOK
    <2> SUFFICES ASSUME IInv PROVE TypeOK
      OBVIOUS
    <2>1. reg \in RegFile /\ stack \in Seq(Word) /\ store \in Memory
      <3>1. Now \in State
        BY DEF IInv
      <3>. QED BY <3>1, NowIs, StateFacts
    <2>2. DOMAIN before = Names
      BY DEF IInv, Memory
    <2>3. reg \in [DOMAIN reg -> Word] /\ store \in [DOMAIN before -> Word]
      BY <2>1, <2>2 DEF RegFile, Memory
    <2>. QED BY <2>1, <2>3 DEF IInv, TypeOK
  <1>. QED BY <1>1, InitIInv, NextIInv, PTL DEF Spec

\* When all arguments of every call go in registers: what the code leaves in eax and the
\* variables is what one of the orders C allows leaves there, and it traps only where C
\* leaves the behaviour undefined.
THEOREM RightHolds == Exact => (Spec => []Right)
PROOF
  <1> SUFFICES ASSUME Exact PROVE Spec => []Right
    OBVIOUS
  <1>1. IInv => Right
    <2> SUFFICES ASSUME IInv PROVE Right
      OBVIOUS
    <2>1. exp \in Exps /\ before \in Memory
      BY DEF IInv
    <2>2. PICK outcomes : outcomes = CValues[<<exp, before>>] /\ outcomes = C(exp, before)
      BY Zenon DEF C, V
    <2>3. Bad(exp, before) => \E o \in outcomes : o[1] = "undefined"
      <3>1. ASSUME NEW o \in C(exp, before), ~IsOk(o) PROVE o[1] = "undefined"
        BY <2>1, <3>1, CRule, OutcomeFacts
      <3>. QED BY <2>2, <3>1, Zenon DEF Bad
    <2>4. ASSUME status = "done"
          PROVE  \/ <<"ok", eax, store>> \in outcomes
                 \/ VoidUses[<<exp, 1>>] # {} /\ \E o \in outcomes : o[3] = store
                 \/ \E o \in outcomes : o[1] = "undefined"
      <3>1. Got(exp, before, eax, store)
        BY <2>4, Zenon DEF IInv, eax
      <3>2. ASSUME NEW w, Out(w, store) \in outcomes, w = eax \/ Void(exp)
            PROVE  \/ <<"ok", eax, store>> \in outcomes
                   \/ VoidUses[<<exp, 1>>] # {} /\ \E o \in outcomes : o[3] = store
        <4>1. CASE w = eax
          BY <3>2, <4>1, Zenon DEF Out
        <4>2. CASE Void(exp)
          <5>1. VoidUses[<<exp, 1>>] # {}
            BY <4>2, Zenon DEF Void, U, UsedIn
          <5>2. Out(w, store)[3] = store
            BY DEF Out
          <5>. QED BY <3>2, <5>1, <5>2, Zenon
        <4>. QED BY <3>2, <4>1, <4>2
      <3>. QED BY <2>2, <2>3, <3>1, <3>2, Zenon DEF Got, Yields
    <2>5. status = "trapped" => \E o \in outcomes : o[1] = "undefined"
      BY <2>3, Zenon DEF IInv
    <2>. QED BY <2>2, <2>4, <2>5, Zenon DEF Right
  <1>. QED BY <1>1, InitIInv, NextIInv, PTL DEF Spec

\* When all arguments of every call go in registers: %rsp is where stack_index says
\* before every instruction, whatever path led there, and nothing is left on the stack.
THEOREM IndexIsRspHolds == Exact => (Spec => []IndexIsRsp)
PROOF
  <1> SUFFICES ASSUME Exact PROVE Spec => []IndexIsRsp
    OBVIOUS
  <1>1. IInv => IndexIsRsp
    <2> SUFFICES ASSUME IInv PROVE IndexIsRsp
      OBVIOUS
    <2>1. Len(code) \in Nat /\ pc \in 1 .. Len(code) + 1
      BY CodeFacts DEF IInv
    <2>2. status = "run" /\ pc <= Len(code) => 4 * Len(stack) = code[pc].at
      <3> SUFFICES ASSUME status = "run", pc <= Len(code) PROVE 4 * Len(stack) = code[pc].at
        OBVIOUS
      <3>1. pc # Len(code) + 1
        BY <2>1
      <3>2. Level(code[Pc(Now)].at, Stk(Now))
        BY <3>1, RunFacts, Zenon DEF Stuck, Good
      <3>. QED BY <3>2, NowIs, Zenon DEF Level
    <2>3. Layout(G(exp, 0, 0, 0), 0, 0)
      BY CodeFacts DEF IInv
    <2>4. index = 0 /\ Steady(code)
      BY <2>3, LayoutFacts DEF IInv, Span
    <2>5. ~ \E i \in DOMAIN code : code[i].op = "release"
      BY <2>4, Zenon DEF Steady, Has
    <2>6. status = "done" => 4 * Len(stack) = index
      <3>1. Len(Nil) = 0
        BY DEF Nil
      <3>. QED BY <2>4, <3>1 DEF IInv
    <2>7. ~(index > 0)
      BY <2>4
    <2>. QED BY <2>2, <2>5, <2>6, <2>7, Zenon DEF IndexIsRsp
  <1>. QED BY <1>1, InitIInv, NextIInv, PTL DEF Spec
=============================================================================
