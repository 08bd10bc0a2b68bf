---------------------------- MODULE MCExpression ----------------------------
(* Model-checking instance of Expression: all expressions of up to Size     *)
(* nodes over a few operators, and every operator on constants.            *)
EXTENDS Expression, FiniteSetsExt

CONSTANTS Size, Constants, Changed, UnaryOps, BinaryOps, Funcs, MaxArgs

\* Expressions of n nodes, and k arguments of n nodes together.
RECURSIVE Trees(_), Arguments(_, _)
Trees(n) ==
  {<<"call", f, args>> : f \in Funcs, args \in UNION {Arguments(k, n - 1) : k \in 0 .. MaxArgs}}
  \cup IF n = 1 THEN {<<"const", c>> : c \in Constants} \cup {<<"var", x>> : x \in Names}
  ELSE {<<"unary", op, e>> : op \in UnaryOps, e \in Trees(n - 1)}
       \cup (IF n = 2 THEN {<<how, op, <<"var", x>> >> :
                              how \in {"prefix", "suffix"}, op \in {"++", "--"}, x \in Names}
             ELSE {})
       \cup UNION {{<<"binary", op, l, r>> : op \in BinaryOps,
                      l \in Trees(i), r \in Trees(n - 1 - i)} : i \in 1 .. n - 2}
       \cup {<<"binary", "=", <<"var", x>>, e>> :
               x \in Names, e \in IF n > 2 THEN Trees(n - 2) ELSE {}}
       \cup UNION {UNION {{<<"ternary", c, a, b>> :
               c \in Trees(i), a \in Trees(j), b \in Trees(n - 1 - i - j)}
               : j \in 1 .. n - 2 - i} : i \in 1 .. n - 3}
Arguments(k, n) ==
  IF k = 0 THEN IF n = 0 THEN {<<>>} ELSE {}
  ELSE UNION {{<<e>> \o rest : e \in Trees(i), rest \in Arguments(k - 1, n - i)} :
              i \in 1 .. n - k + 1}

AllOps == {"+", "-", "*", "/", "%", "==", "!=", "<", "<=", ">", ">=",
           "&", "|", "^", "<<", ">>", "&&", "||", ","}
OnConstants == {<<"const", a>> : a \in Word}
  \cup {<<"binary", op, <<"const", a>>, <<"const", b>> >> :
          op \in AllOps, a \in Word, b \in Word}
  \cup {<<"unary", op, <<"const", a>> >> : op \in {"-", "~", "!"}, a \in Word}

MCExps == OnConstants \cup UNION {Trees(n) : n \in 1 .. Size}

RECURSIVE MCHeight(_)
MCHeight(e) == 1 + Max({0} \cup {MCHeight(p) : p \in Parts(e)})

\* The value of a call depends on each argument, on their order, and on a
\* variable that the call changes.
MCResult(f, args, s) ==
  Wrap(FoldFunction(+, s[Changed], [i \in DOMAIN args |-> i * args[i]]))
MCAfter(f, args, s) == [s EXCEPT ![Changed] = Wrap(@ + 1)]

MCStores == {[x \in Names |-> 0 - 2], [x \in Names |-> 3]}
TwoRegs == <<"rdx", "rcx">>
OneReg == <<"rdi">>
=============================================================================
