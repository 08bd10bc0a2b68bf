----------------------------- MODULE Expression -----------------------------
(***************************************************************************)
(* The expression generators of x86.c (lines 48-365).  A behaviour takes   *)
(* one expression, generates its code as generate_expression does, and     *)
(* runs that code on a processor with the registers, the stack and the     *)
(* variables it uses.  What it computes is compared with CValues, which    *)
(* evaluates the tree by the rules of C, in every order C allows.          *)
(*                                                                         *)
(* A tree is a tuple that starts with its type:                            *)
(*   <<"const", n>>  <<"var", name>>  <<"unary", op, e>>                   *)
(*   <<"prefix", op, e>>  <<"suffix", op, e>>  <<"binary", op, l, r>>      *)
(*   <<"ternary", condition, if, else>>  <<"call", name, arguments>>       *)
(***************************************************************************)
EXTENDS Integers, Sequences, SequencesExt

CONSTANTS
  Exps,            \* the expressions that are compiled, and their parts
  Height(_),       \* of an expression as a tree
  Names,           \* the variables
  Stores,          \* values of the variables before, functions from names to words
  CallRegs,        \* func_call_regs
  VoidFuncs,       \* names of the functions that return void
  Result(_, _, _), \* what a function returns for its arguments and the variables
  After(_, _, _),  \* what it leaves in the variables
  Bits,            \* bound: width of an int
  Junk             \* what a register holds that nobody has set

Least == 0 - 2 ^ Bits \div 2
Word == Least .. Least + 2 ^ Bits - 1
Wrap(n) == ((n - Least) % 2 ^ Bits) + Least
Unsigned(n) == n % 2 ^ Bits
Bool(p) == IF p THEN 1 ELSE 0

Comparisons == {"==", "!=", "<", "<=", ">", ">="}
\* The operators that evaluate both operands and have no rules of their own.
Ordinary == Comparisons \cup {"+", "-", "*", "/", "%", "&", "|", "^", "<<", ">>"}

Parts(e) ==
  CASE e[1] \in {"const", "var"} -> {}
    [] e[1] \in {"unary", "prefix", "suffix"} -> {e[3]}
    [] e[1] = "binary" -> {e[3], e[4]}
    [] e[1] = "ternary" -> {e[2], e[3], e[4]}
    [] e[1] = "call" -> Range(e[3])

\* What the parser builds; only a variable can be assigned to.
WellFormed(e) ==
  \/ e[1] = "const" /\ e[2] \in Word
  \/ e[1] = "var" /\ e[2] \in Names
  \/ e[1] = "unary" /\ e[2] \in {"-", "~", "!"}
  \/ e[1] \in {"prefix", "suffix"} /\ e[2] \in {"++", "--"} /\ e[3][1] = "var"
  \/ e[1] = "binary" /\ e[2] \in Ordinary \cup {",", "&&", "||"}
  \/ e[1] = "binary" /\ e[2] = "=" /\ e[3][1] = "var"
  \/ e[1] = "ternary"
  \/ e[1] = "call" /\ e[3] \in Seq(Range(e[3]))

ASSUME ExpressionAssumption ==
  /\ UNION {Parts(e) : e \in Exps} \subseteq Exps
  /\ \A e \in Exps : /\ WellFormed(e) /\ Height(e) \in Nat
                     /\ \A p \in Parts(e) : Height(p) < Height(e)

ASSUME ProcessorAssumption ==
  /\ Bits \in Nat \ {0, 1} /\ Junk \in Word /\ Stores \subseteq [Names -> Word]
  /\ CallRegs \in Seq(Range(CallRegs)) /\ "rax" \notin Range(CallRegs)
  /\ \A i, j \in DOMAIN CallRegs : CallRegs[i] = CallRegs[j] => i = j

\* Functions take and return words.
ASSUME CalleeAssumption ==
  \A call \in {<<e[2], Len(e[3])>> : e \in {e \in Exps : e[1] = "call"}} :
    \A args \in [1 .. call[2] -> Word], s \in [Names -> Word] :
      Result(call[1], args, s) \in Word /\ After(call[1], args, s) \in [Names -> Word]

VARIABLES
  exp, before,  \* the expression and the variables before
  code,         \* the instructions emitted
  index,        \* ctx->stack_index behind the expression
  status,       \* "run", "done", "trapped"; "died" while compiling
  pc,
  reg,          \* the low halves of the registers
  flags,        \* the two words compared last
  stack,        \* words between %rsp and where it was before; the last is at %rsp
  store         \* the variables

vars == <<exp, before, code, index, status, pc, reg, flags, stack, store>>

(***************************************************************************)
(* Generation.  Each operator takes the context and gives it back with     *)
(* more code, as the generators do with struct x86_ctx.  at is the         *)
(* stack_index when an instruction is emitted.  gen is the code of the     *)
(* parts, as generate_expression emits it for a part, a stack_index, a     *)
(* number of labels made and require_value.  used has the void functions   *)
(* the value of a call of which is required, for which the compiler dies.  *)
(***************************************************************************)
NewContext(stack_index, labels) ==
  [code |-> <<>>, index |-> stack_index, labels |-> labels, used |-> {}]

Emit(ctx, instructions) ==
  [ctx EXCEPT !.code = @ \o [i \in DOMAIN instructions |->
     [op |-> instructions[i][1], arg |-> instructions[i][2], at |-> ctx.index]]]

\* xmkstr("..._%lu", counter++): the label is made before any recursive call.
NewLabel(ctx) == [ctx EXCEPT !.labels = @ + 1]

Push(ctx) == [Emit(ctx, << <<"push", "rax">> >>) EXCEPT !.index = @ + 8]

\* Mutant: the pops are not subtracted from stack_index.
PopsUncounted(ctx, regs) == Emit(ctx, [i \in DOMAIN regs |-> <<"pop", regs[i]>>])

\* One pop after the other, each of which moves stack_index.
Pops(ctx, regs) ==
  [ctx EXCEPT !.code = @ \o [i \in DOMAIN regs |->
                 [op |-> "pop", arg |-> regs[i], at |-> ctx.index - 8 * (i - 1)]],
              !.index = @ - 8 * Len(regs)]

\* The code of a part, behind that of ctx.
Generate(gen, ctx, e, needed) ==
  LET part == gen[<<e, ctx.index, ctx.labels, needed>>]
  IN [code |-> ctx.code \o part.code, index |-> part.index,
      labels |-> part.labels, used |-> ctx.used \cup part.used]

\* cmp, mov $0, setcc
Compare(condition) == << <<"cmp", "rcx">>, <<"mov", 0>>, <<"set", condition>> >>
CompareZero(condition) == << <<"cmp", "zero">>, <<"mov", 0>>, <<"set", condition>> >>

\* Mutant: edx is not set before the division.
BinaryCodeNoExtension(op) ==
  CASE op \in Comparisons -> Compare(op)
    [] op = "/" -> << <<"idiv", "rcx">> >>
    [] op = "%" -> << <<"idiv", "rcx">>, <<"copy", "rdx">> >>
    [] OTHER -> << <<"alu", op>> >>

\* The switch over the other binary operators.
BinaryCode(op) ==
  CASE op \in Comparisons -> Compare(op)
    [] op = "/" -> << <<"cdq", "rdx">>, <<"idiv", "rcx">> >>
    [] op = "%" -> << <<"cdq", "rdx">>, <<"idiv", "rcx">>, <<"copy", "rdx">> >>
    [] OTHER -> << <<"alu", op>> >>

\* generate_logic_or and generate_logic_and: jump is "jne" or "je".
Logic(gen, ctx, e, jump) ==
  LET label == ctx.labels
      left == Emit(Generate(gen, NewLabel(ctx), e[3], 1),
                   << <<"cmp", "zero">>, <<jump, label>> >>)
  IN Emit(Generate(gen, left, e[4], 1),
          << <<"cmp", "zero">>, <<"label", label>>, <<"mov", 0>>, <<"set", "!=">> >>)

\* Mutant: the second branch is taken to be for its effect only.
TernaryHalf(gen, ctx, e, needed) ==
  LET else == ctx.labels
      end == ctx.labels + 1
      condition == Emit(Generate(gen, NewLabel(NewLabel(ctx)), e[2], 1),
                        << <<"cmp", "zero">>, <<"je", else>> >>)
      first == Emit(Generate(gen, condition, e[3], needed),
                    << <<"jmp", end>>, <<"label", else>> >>)
  IN Emit(Generate(gen, first, e[4], 0), << <<"label", end>> >>)

\* generate_ternary
Ternary(gen, ctx, e, needed) ==
  LET else == ctx.labels
      end == ctx.labels + 1
      condition == Emit(Generate(gen, NewLabel(NewLabel(ctx)), e[2], 1),
                        << <<"cmp", "zero">>, <<"je", else>> >>)
      first == Emit(Generate(gen, condition, e[3], needed),
                    << <<"jmp", end>>, <<"label", else>> >>)
  IN Emit(Generate(gen, first, e[4], needed), << <<"label", end>> >>)

\* AST_EXP_BINARY_OP: the right operand first, so that it ends up in ecx.
Binary(gen, ctx, e) ==
  CASE e[2] = "," -> Generate(gen, Generate(gen, ctx, e[3], 0), e[4], 1)
    [] e[2] = "&&" -> Logic(gen, ctx, e, "je")
    [] e[2] = "||" -> Logic(gen, ctx, e, "jne")
    [] e[2] = "=" -> Emit(Generate(gen, ctx, e[4], 1), << <<"store", e[3][2]>> >>)
    [] OTHER -> LET right == Push(Generate(gen, ctx, e[4], 1))
                IN Emit(Pops(Generate(gen, right, e[3], 1), <<"rcx">>), BinaryCode(e[2]))

\* The switch over the unary operators.
UnaryCode(e) ==
  CASE e[2] = "!" -> CompareZero("==")
    [] e[2] \in {"-", "~"} -> << <<"alu1", e[2]>> >>
    [] e[1] = "prefix" -> << <<"alu1", e[2]>>, <<"store", e[3][2]>> >>
    [] e[1] = "suffix" -> << <<IF e[2] = "++" THEN "inc" ELSE "dec", e[3][2]>> >>

\* AST_EXP_UNARY_OP
Unary(gen, ctx, e) == Emit(Generate(gen, ctx, e[3], 1), UnaryCode(e))

\* The contexts behind the last k arguments, for every k.
Pushed(gen, ctx, args) ==
  LET n == Len(args)
      pushed[k \in 0 .. n] ==
        IF k = 0 THEN ctx ELSE Push(Generate(gen, pushed[k - 1], args[n + 1 - k], 1))
  IN pushed

\* A void function, when the value of its call is required.
VoidUse(function, needed) == IF needed = 1 THEN {function} \cap VoidFuncs ELSE {}

\* AST_EXP_FUNC_CALL: all arguments are pushed, the last one first; those that
\* go in registers are popped again.
Call(gen, ctx, e, needed) ==
  LET args == e[3]
      inRegs == IF Len(args) < Len(CallRegs) THEN Len(args) ELSE Len(CallRegs)
      onStack == Len(args) - inRegs
      checked == [ctx EXCEPT !.used = @ \cup VoidUse(e[2], needed)]
      pushed == Pushed(gen, checked, args)[Len(args)]
      called == Emit(Pops(pushed, SubSeq(CallRegs, 1, inRegs)),
                     << <<"call", <<e[2], Len(args)>> >> >>)
  IN IF onStack = 0 THEN called
     ELSE [Emit(called, << <<"release", onStack>> >>)
             EXCEPT !.index = @ - 4 * onStack]

\* generate_expression
Generation(gen, ctx, e, needed) ==
  CASE e[1] = "const" -> Emit(ctx, << <<"mov", e[2]>> >>)
    [] e[1] = "var" -> Emit(ctx, << <<"load", e[2]>> >>)
    [] e[1] = "binary" -> Binary(gen, ctx, e)
    [] e[1] = "ternary" -> Ternary(gen, ctx, e, needed)
    [] e[1] = "call" -> Call(gen, ctx, e, needed)
    [] OTHER -> Unary(gen, ctx, e)

Code[x \in Exps \X Int \X Nat \X {0, 1}] ==
  Generation(Code, NewContext(x[2], x[3]), x[1], x[4])

-----------------------------------------------------------------------------
(***************************************************************************)
(* Arithmetic of words, for the processor and for C.                       *)
(***************************************************************************)
Abs(n) == IF n < 0 THEN 0 - n ELSE n
\* Division truncates towards zero.
Quotient(a, b) == (Abs(a) \div Abs(b)) * (IF (a < 0) = (b < 0) THEN 1 ELSE 0 - 1)

\* Bitwise and, or, exclusive or: bit by bit.
Bit(n, i) == (Unsigned(n) \div 2 ^ i) % 2
FromBits(f) ==
  LET sum[i \in 0 .. Bits] == IF i = 0 THEN 0 ELSE sum[i - 1] + f[i - 1] * 2 ^ (i - 1)
  IN Wrap(sum[Bits])
Bitwise(op, a, b) ==
  FromBits([i \in 0 .. Bits - 1 |->
    CASE op = "&" -> Bit(a, i) * Bit(b, i)
      [] op = "|" -> Bool(Bit(a, i) + Bit(b, i) > 0)
      [] op = "^" -> (Bit(a, i) + Bit(b, i)) % 2])

Holds(condition, a, b) ==
  CASE condition = "==" -> a = b
    [] condition = "!=" -> a # b
    [] condition = "<" -> a < b
    [] condition = "<=" -> a <= b
    [] condition = ">" -> a > b
    [] condition = ">=" -> a >= b

\* Mutant: additions and subtractions are done in 64 bits.
AluWide(op, x, y) ==
  CASE op = "+" -> x + y
    [] op = "-" -> x - y
    [] OTHER -> Wrap(x * y)

\* What the instruction for op leaves in eax; the shift count is taken modulo
\* the width, and shr shifts zeros in.
Alu(op, x, y) ==
  CASE op = "+" -> Wrap(x + y)
    [] op = "-" -> Wrap(x - y)
    [] op = "*" -> Wrap(x * y)
    [] op \in {"&", "|", "^"} -> Bitwise(op, x, y)
    [] op = "<<" -> Wrap(x * 2 ^ (y % Bits))
    [] op = ">>" -> Wrap(Unsigned(x) \div 2 ^ (y % Bits))

Alu1(op, x) ==
  CASE op = "-" -> Wrap(0 - x)
    [] op = "~" -> Wrap(0 - x - 1)
    [] op = "++" -> Wrap(x + 1)
    [] op = "--" -> Wrap(x - 1)

-----------------------------------------------------------------------------
(***************************************************************************)
(* The processor.                                                          *)
(***************************************************************************)
compiled(e) == Code[<<e, 0, 0, 0>>]

Init ==
  /\ exp \in Exps /\ before \in Stores
  /\ LET ctx == compiled(exp)
     IN /\ code = ctx.code /\ index = ctx.index
        /\ status = IF ctx.used = {} THEN "run" ELSE "died"
  /\ pc = 1
  /\ reg = [r \in Range(CallRegs) \cup {"rax", "rcx", "rdx"} |-> Junk]
  /\ flags = <<Junk, 0>>
  /\ stack = <<>>
  /\ store = before

At(op) == status = "run" /\ pc <= Len(code) /\ code[pc].op = op
arg == code[pc].arg
fixed == <<exp, before, code, index>>

Next1 == pc' = pc + 1 /\ UNCHANGED <<fixed, status>>
SetRegs(f) == reg' = f /\ Next1

eax == reg["rax"]
ecx == reg["rcx"]
Rax(n) == SetRegs([reg EXCEPT !["rax"] = n])

\* setcc sets %al; the mov before it has cleared the rest of eax.
Compute ==
  /\ \/ At("mov") /\ Rax(arg)
     \/ At("copy") /\ Rax(reg[arg])
     \/ At("load") /\ Rax(store[arg])
     \/ At("alu") /\ Rax(Alu(arg, eax, ecx))
     \/ At("alu1") /\ Rax(Alu1(arg, eax))
     \/ At("set") /\ Rax(Bool(Holds(arg, flags[1], flags[2])))
  /\ UNCHANGED <<flags, stack, store>>

\* movl to a variable; addl $1 and subl $1 on it
Store ==
  /\ \/ At("store") /\ store' = [store EXCEPT ![arg] = eax]
     \/ At("inc") /\ store' = [store EXCEPT ![arg] = Alu1("++", @)]
     \/ At("dec") /\ store' = [store EXCEPT ![arg] = Alu1("--", @)]
  /\ Next1 /\ UNCHANGED <<reg, flags, stack>>

SignExtend ==
  /\ At("cdq")
  /\ SetRegs([reg EXCEPT ![arg] = IF eax < 0 THEN 0 - 1 ELSE 0])
  /\ UNCHANGED <<flags, stack, store>>

\* idiv divides edx:eax; it traps unless the quotient is a word.
Divide ==
  /\ At("idiv")
  /\ LET dividend == reg["rdx"] * 2 ^ Bits + Unsigned(eax)
         quotient == Quotient(dividend, reg[arg])
     IN IF reg[arg] = 0 \/ quotient \notin Word
        THEN status' = "trapped" /\ UNCHANGED <<fixed, pc, reg>>
        ELSE SetRegs([reg EXCEPT !["rax"] = quotient,
                                 !["rdx"] = dividend - quotient * reg[arg]])
  /\ UNCHANGED <<flags, stack, store>>

CompareWords ==
  /\ At("cmp")
  /\ flags' = <<eax, IF arg = "zero" THEN 0 ELSE reg[arg]>>
  /\ Next1 /\ UNCHANGED <<reg, stack, store>>

\* The halves of an 8 byte slot: what 32-bit instructions leave in the upper
\* half of rax is zero.
PushRax ==
  /\ At("push")
  /\ stack' = stack \o <<0, reg[arg]>>
  /\ Next1 /\ UNCHANGED <<reg, flags, store>>

PopReg ==
  /\ At("pop")
  /\ SetRegs([reg EXCEPT ![arg] = Last(stack)])
  /\ stack' = SubSeq(stack, 1, Len(stack) - 2)
  /\ UNCHANGED <<flags, store>>

\* The callee reads its arguments where the ABI puts them and may leave anything
\* in the registers it does not preserve.
CallFunction ==
  /\ At("call")
  /\ LET n == arg[2]
         args == [i \in 1 .. n |->
                    IF i <= Len(CallRegs) THEN reg[CallRegs[i]]
                    ELSE stack[Len(stack) - 2 * (i - Len(CallRegs) - 1)]]
     IN SetRegs([r \in DOMAIN reg |->
                   IF r = "rax" /\ arg[1] \notin VoidFuncs THEN Result(arg[1], args, store)
                   ELSE Junk])
        /\ store' = After(arg[1], args, store)
  /\ UNCHANGED <<flags, stack>>

\* add $4*n, %rsp
ReleaseStack ==
  /\ At("release")
  /\ stack' = SubSeq(stack, 1, Len(stack) - arg)
  /\ Next1 /\ UNCHANGED <<reg, flags, store>>

Target(l) == CHOOSE i \in DOMAIN code : code[i].op = "label" /\ code[i].arg = l

Jump ==
  /\ \/ At("jmp") /\ pc' = Target(arg)
     \/ At("je") /\ pc' = IF flags[1] = flags[2] THEN Target(arg) ELSE pc + 1
     \/ At("jne") /\ pc' = IF flags[1] # flags[2] THEN Target(arg) ELSE pc + 1
     \/ At("label") /\ pc' = pc + 1
  /\ UNCHANGED <<fixed, status, reg, flags, stack, store>>

Finish ==
  /\ status = "run" /\ pc > Len(code)
  /\ status' = "done"
  /\ UNCHANGED <<fixed, pc, reg, flags, stack, store>>

Next ==
  \/ Compute \/ Store \/ SignExtend \/ Divide \/ CompareWords
  \/ PushRax \/ PopReg \/ CallFunction \/ ReleaseStack \/ Jump \/ Finish

Spec == Init /\ [][Next]_vars

-----------------------------------------------------------------------------
(***************************************************************************)
(* C's rules.  An outcome is <<how, value, variables afterwards>>; how is  *)
(* "ok", or "undefined" for a division that has no value.  Operands and    *)
(* arguments are evaluated in any order, one after the other.  Overflow    *)
(* wraps, which is more than C promises and what the instructions do.      *)
(***************************************************************************)
Ok(v, s) == {<<"ok", v, s>>}
Undefined(s) == {<<"undefined", 0, s>>}
Bind(outcomes, Op(_, _)) ==
  UNION {IF o[1] = "ok" THEN Op(o[2], o[3]) ELSE {o} : o \in outcomes}

\* a op b, for the operators without rules of their own.  What >> does with a
\* negative operand is left to the implementation.
Apply(op, a, b, s) ==
  CASE op \in Comparisons -> Ok(Bool(Holds(op, a, b)), s)
    [] op \in {"/", "%"} ->
         IF b = 0 \/ Quotient(a, b) \notin Word THEN Undefined(s)
         ELSE Ok(IF op = "/" THEN Quotient(a, b) ELSE a - Quotient(a, b) * b, s)
    [] op \in {"<<", ">>"} /\ b \notin 0 .. Bits - 1 -> Undefined(s)
    [] op = ">>" /\ a < 0 /\ b \in 0 .. Bits - 1 -> {<<"ok", v, s>> : v \in Word}
    [] OTHER -> Ok(Alu(op, a, b), s)

\* Every order of the numbers up to n.
Orders(n) == {p \in [1 .. n -> 1 .. n] : \A i, j \in 1 .. n : p[i] = p[j] => i = j}

\* The arguments evaluated in the given order: the outcomes after k of them, for
\* every k.  The value in an outcome has their values in the places evaluated.
\* val has the outcomes of the parts.
Evaluated(val, args, order, s) ==
  LET n == Len(args)
      outcomes[k \in 0 .. n] ==
        IF k = 0 THEN Ok([i \in 1 .. n |-> 0], s)
        ELSE Bind(outcomes[k - 1], LAMBDA done, t :
               Bind(val[<<args[order[k]], t>>], LAMBDA v, u :
                 Ok([done EXCEPT ![order[k]] = v], u)))
  IN outcomes

BinaryEvaluation(val, e, s) ==
  LET assign(v, t) == Ok(v, [t EXCEPT ![e[3][2]] = v])
      truth(t) == Bind(val[<<e[4], t>>], LAMBDA v, u : Ok(Bool(v # 0), u))
  IN CASE e[2] = "," -> Bind(val[<<e[3], s>>], LAMBDA v, t : val[<<e[4], t>>])
       [] e[2] = "=" -> Bind(val[<<e[4], s>>], assign)
       [] e[2] = "&&" -> Bind(val[<<e[3], s>>], LAMBDA v, t :
            IF v = 0 THEN Ok(0, t) ELSE truth(t))
       [] e[2] = "||" -> Bind(val[<<e[3], s>>], LAMBDA v, t :
            IF v # 0 THEN Ok(1, t) ELSE truth(t))
       [] OTHER ->
            Bind(val[<<e[3], s>>], LAMBDA a, t :
              Bind(val[<<e[4], t>>], LAMBDA b, u : Apply(e[2], a, b, u)))
            \cup Bind(val[<<e[4], s>>], LAMBDA b, t :
              Bind(val[<<e[3], t>>], LAMBDA a, u : Apply(e[2], a, b, u)))

Evaluation(val, e, s) ==
  CASE e[1] = "const" -> Ok(e[2], s)
    [] e[1] = "var" -> Ok(s[e[2]], s)
    [] e[1] = "prefix" ->
         LET v == Alu1(e[2], s[e[3][2]])
         IN Ok(v, [s EXCEPT ![e[3][2]] = v])
    [] e[1] = "suffix" ->
         Ok(s[e[3][2]], [s EXCEPT ![e[3][2]] = Alu1(e[2], @)])
    [] e[1] = "unary" -> Bind(val[<<e[3], s>>], LAMBDA v, t :
         Ok(IF e[2] = "!" THEN Bool(v = 0) ELSE Alu1(e[2], v), t))
    [] e[1] = "binary" -> BinaryEvaluation(val, e, s)
    [] e[1] = "ternary" -> Bind(val[<<e[2], s>>], LAMBDA v, t :
         val[<<IF v # 0 THEN e[3] ELSE e[4], t>>])
    [] e[1] = "call" -> UNION {
         Bind(Evaluated(val, e[3], order, s)[Len(e[3])], LAMBDA args, t :
           Ok(Result(e[2], args, t), After(e[2], args, t)))
         : order \in Orders(Len(e[3]))}

CValues[x \in Exps \X [Names -> Word]] == Evaluation(CValues, x[1], x[2])

\* The void functions in e the value of a call of which is used (6.3.2.2 of C11);
\* used tells whether the value of e is.
VoidUses[x \in Exps \X {0, 1}] ==
  LET e == x[1]
      used == x[2]
  IN CASE e[1] \in {"const", "var"} -> {}
       [] e[1] = "call" ->
            VoidUse(e[2], used) \cup UNION {VoidUses[<<a, 1>>] : a \in Range(e[3])}
       [] e[1] = "ternary" ->
            VoidUses[<<e[2], 1>>] \cup VoidUses[<<e[3], used>>] \cup VoidUses[<<e[4], used>>]
       [] e[1] = "binary" /\ e[2] = "," ->
            VoidUses[<<e[3], 0>>] \cup VoidUses[<<e[4], used>>]
       [] e[1] = "binary" /\ e[2] # "," ->
            VoidUses[<<e[3], 1>>] \cup VoidUses[<<e[4], 1>>]
       [] OTHER -> VoidUses[<<e[3], 1>>]

\* Those in what stands on the right of a comma, in e or in a part of it, taken as
\* if its value were used.
VoidBehindComma[e \in Exps] ==
  (IF e[1] = "binary" /\ e[2] = "," THEN VoidUses[<<e[4], 1>>] ELSE {})
  \cup UNION {VoidBehindComma[p] : p \in Parts(e)}

-----------------------------------------------------------------------------
(***************************************************************************)
(* Properties.                                                             *)
(***************************************************************************)
\* Type invariant of the processor.
TypeOK ==
  /\ status \in {"run", "done", "trapped", "died"}
  /\ pc \in 1 .. Len(code) + 1
  /\ reg \in [DOMAIN reg -> Word] /\ stack \in Seq(Word)
  /\ store \in [DOMAIN before -> Word]

\* "Convention: generate_expression should put the result in eax" (x86.c:132):
\* value and side effects are those of one of the orders C allows, and the code
\* traps only where C leaves the behaviour undefined.
Right ==
  LET outcomes == CValues[<<exp, before>>]
  IN /\ status = "done" => \/ <<"ok", eax, store>> \in outcomes
                           \/ VoidUses[<<exp, 1>>] # {} /\ \E o \in outcomes : o[3] = store
                           \/ \E o \in outcomes : o[1] = "undefined"
     /\ status = "trapped" => \E o \in outcomes : o[1] = "undefined"

\* "at any given moment, -{stack_index}(%rbp) will be the same as (%rsp)"
\* (x86.c:26), between any two instructions of an expression, on every path
\* through its jumps, and behind it, where nothing is left on the stack but what
\* was not released of the arguments there.
IndexIsRsp ==
  /\ status = "run" /\ pc <= Len(code) => 4 * Len(stack) = code[pc].at
  /\ status = "done" => /\ 4 * Len(stack) = index
                        /\ index > 0 <=> \E i \in DOMAIN code : code[i].op = "release"

\* "void not ignored as it ought to be" (x86.c:327): no expression is compiled in
\* which the value of a void call is used, whatever stands between the use and
\* the call; none is rejected but for that or a void call behind a comma.
VoidChecked ==
  /\ status # "died" => VoidUses[<<exp, 0>>] = {}
  /\ status = "died" => VoidUses[<<exp, 0>>] \cup VoidBehindComma[exp] # {}
=============================================================================
