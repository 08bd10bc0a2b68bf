------------------------------- MODULE Parser -------------------------------
(***************************************************************************)
(* parser.c: what the recursive descent makes of a sequence of tokens, and *)
(* what becomes of the tree (free_ast, and print_ast_in_dot in the module  *)
(* DotPrinter).  Language generates the sentences of C's grammar, each     *)
(* with its tree, without looking at the parser.                           *)
(*                                                                         *)
(* A token is its spelling; a tree is a tuple that starts with its type.   *)
(* Expressions are those of the module Expression; <<"list", ...>> stands  *)
(* for an ARRAY.  A behaviour types tokens for as long as the parser would *)
(* read on, or starts with a sentence of the grammar.                      *)
(***************************************************************************)
EXTENDS Integers, Sequences, SequencesExt, Functions

CONSTANTS
  Names,         \* spellings of identifiers
  Numbers,       \* spellings of integers
  Vocabularies   \* records: goal, start, words and most; see MCParser

Punctuation == {"(", ")", "{", "}", ";", ":", "?", ",", "int", "void", "return", "if",
                "else", "for", "while", "do", "break", "continue", "goto", "end"}
Increments == {"++", "--"}
UnaryOps == {"-", "~", "!"}

\* EXP_OP_...: the operators by precedence, the loosest first (after "?:").
LeftAssociative ==
  << {"||"}, {"&&"}, {"|"}, {"^"}, {"&"}, {"==", "!="}, {"<", "<=", ">", ">="},
     {"<<", ">>"}, {"-", "+"}, {"*", "/", "%"} >>
\* is_compound_assign
CompoundOp == [t \in {"+=", "-=", "/=", "*=", "%=", "&=", "|=", "^=", "<<=", ">>="} |->
  CASE t = "+=" -> "+" [] t = "-=" -> "-" [] t = "/=" -> "/" [] t = "*=" -> "*"
    [] t = "%=" -> "%" [] t = "&=" -> "&" [] t = "|=" -> "|" [] t = "^=" -> "^"
    [] t = "<<=" -> "<<" [] t = ">>=" -> ">>"]
Assignments == {"="} \cup DOMAIN CompoundOp
BinaryOps == {","} \cup Assignments \cup UNION Range(LeftAssociative)

ASSUME ParserAssumption ==
  /\ Names \cap Numbers = {}
  /\ (Names \cup Numbers) \cap (Punctuation \cup Increments \cup UnaryOps \cup BinaryOps) = {}

VARIABLES
  vocabulary,  \* what is being typed
  tokens,      \* the tokens before the sentinel
  meant,       \* the tree of a sentence of the grammar, <<>> for what is typed
  result       \* what the parser makes of the tokens

vars == <<vocabulary, tokens, meant, result>>

-----------------------------------------------------------------------------
(***************************************************************************)
(* The parser.  Parsing from p gives the position behind what was read and *)
(* the tree, or the position of the token at which the parser dies.  made  *)
(* counts the blocks of memory the tree takes.                             *)
(***************************************************************************)
At(p) == IF p \in DOMAIN tokens THEN tokens[p] ELSE "end"

\* Mutant: the token behind the one that does not fit is shown.
DieBehind(p) == [ok |-> FALSE, pos |-> p + 1, tree |-> <<>>, made |-> 0]

Read(p, tree, made) == [ok |-> TRUE, pos |-> p, tree |-> tree, made |-> made]
Die(p) == [ok |-> FALSE, pos |-> p, tree |-> <<>>, made |-> 0]
Then(r, More(_)) == IF r.ok THEN More(r) ELSE r

\* check_and_pop behind r
Pop(r, types) ==
  Then(r, LAMBDA q : IF At(q.pos) \in types THEN [q EXCEPT !.pos = @ + 1] ELSE Die(q.pos))

\* One more member of a node, parsed behind r.
Add(r, n) == IF r.ok /\ n.ok THEN Read(n.pos, Append(r.tree, n.tree), r.made + n.made)
             ELSE IF r.ok THEN n ELSE r

EmptyList(p) == Read(p, <<"list">>, 0)
\* ARRAY_APPEND: the array takes a block once it has an element.
AddItem(r, n) == Add(IF Len(r.tree) = 1 THEN [r EXCEPT !.made = @ + 1] ELSE r, n)

Name(p) == IF At(p) \in Names THEN Read(p + 1, At(p), 0) ELSE Die(p)

RECURSIVE Climb(_, _, _), Exp1(_, _, _), Statement(_, _), Args(_), Declarators(_),
          GlobalDeclarators(_, _), Parameters(_), Items(_)

Exp(p) == Exp1(p, TRUE, 1)
ExpNoComma(p) == Exp1(p, FALSE, 1)

\* parse_exp_atom.  The + of an operand is dropped.
Primary(p) ==
  LET t == At(p)
  IN CASE t \in Numbers -> Read(p + 1, <<"const", t>>, 1)
       [] t = "(" -> Pop(Exp(p + 1), {")"})
       [] t \in Names /\ At(p + 1) = "(" ->
            Pop(Add(Read(p + 1, <<"call", t>>, 2), Args(EmptyList(p + 2))), {")"})
       [] t \in Names -> Read(p + 1, <<"var", t>>, 2)
       [] OTHER -> Die(p)

RECURSIVE Atom(_)
Atom(p) ==
  LET t == At(p)
      exp == CASE t = "+" -> Atom(p + 1)
               [] t \in UnaryOps -> Add(Read(p, <<"unary", t>>, 1), Atom(p + 1))
               [] t \in Increments ->
                    Then(Add(Read(p, <<"prefix", t>>, 1), Exp(p + 1)),
                         LAMBDA r : IF r.tree[3][1] = "var" THEN r ELSE Die(p))
               [] OTHER -> Primary(p)
  IN Then(exp, LAMBDA r :
       IF At(r.pos) \notin Increments THEN r
       ELSE IF r.tree[1] # "var" THEN Die(r.pos)
       ELSE Read(r.pos + 1, <<"suffix", At(r.pos), r.tree>>, r.made + 1))

\* The arguments of a call, up to its ")".
Args(r) ==
  IF ~r.ok \/ At(r.pos) = ")" THEN r
  ELSE Args(Then(IF Len(r.tree) = 1 THEN r ELSE Pop(r, {","}),
                 LAMBDA q : AddItem(q, ExpNoComma(q.pos))))

\* bin_op_info
Precedence(op) ==
  CASE op = "," -> 1
    [] op \in Assignments -> 2
    [] op = "?" -> 3
    [] OTHER -> 3 + CHOOSE i \in DOMAIN LeftAssociative : op \in LeftAssociative[i]

\* Mutant: every operator associates to the right.
NextLevelRight(op) == Precedence(op)

\* The loosest operator that the right operand of op may hold.
NextLevel(op) == Precedence(op) + (IF op \in Assignments \cup {"?"} THEN 0 ELSE 1)

Exp1(p, comma, level) == Climb(Atom(p), comma, level)

\* The loop of parse_exp_1 behind the left operand r.
Climb(r, comma, level) ==
  LET op == At(r.pos)
      left == r.tree
      right == Exp1(r.pos + 1, comma, NextLevel(op))
      more == IF op = "?"
              THEN LET if == IF comma THEN Exp(r.pos + 1) ELSE ExpNoComma(r.pos + 1)
                       first == Pop(Add([r EXCEPT !.tree = <<"ternary", left>>], if), {":"})
                   IN Then(first, LAMBDA q : Add(q, Exp1(q.pos, comma, NextLevel(op))))
              ELSE IF op \in DOMAIN CompoundOp
              THEN Then(right, LAMBDA q : Read(q.pos,
                     <<"binary", "=", left, <<"binary", CompoundOp[op], left, q.tree>> >>,
                     r.made + q.made + 3))
              ELSE Add([r EXCEPT !.tree = <<"binary", op, left>>], right)
  IN IF ~r.ok \/ op \notin BinaryOps \cup {"?"} \/ (op = "," /\ ~comma) THEN r
     ELSE IF op \in Assignments /\ left[1] # "var" THEN Die(r.pos)
     ELSE IF Precedence(op) < level THEN r
     ELSE Climb(Then(more, LAMBDA q : [q EXCEPT !.made = @ + 1]), comma, level)

\* <name> [= value]
Declarator(p) ==
  LET decl == Add(Read(p, <<"decl">>, 2), Name(p))
  IN Then(decl, LAMBDA d : IF At(d.pos) = "=" THEN Add(d, ExpNoComma(d.pos + 1)) ELSE d)

\* parse_var_decl_list behind "int"
Declarators(r) ==
  LET list == AddItem(r, Declarator(r.pos))
  IN Then(list, LAMBDA q : IF At(q.pos) = "," THEN Declarators([q EXCEPT !.pos = @ + 1]) ELSE q)

VarDeclList(p) ==
  Then(Pop(Read(p, <<"declare", "local">>, 1), {"int"}),
       LAMBDA r : Add(r, Declarators(EmptyList(r.pos))))

\* parse_statement_block
Items(r) ==
  IF ~r.ok \/ At(r.pos) \in {"}", "end"} THEN r
  ELSE Items(AddItem(r, Statement(r.pos, TRUE)))

Block(p) ==
  Pop(Then(Pop(Read(p, <<"block">>, 1), {"{"}),
           LAMBDA r : Add(r, Items(EmptyList(r.pos)))), {"}"})

\* A part that may be missing in front of the token end.
Optional(p, end, default) ==
  IF At(p) = end THEN Read(p + 1, default[1], default[2]) ELSE Pop(Exp(p), {end})
Null == << <<"null">>, 0>>
TrueExp == << <<"const", "1">>, 1>>

Part(kind, p) ==
  CASE kind = "exp" -> Exp(p)
    [] kind = "exp;" -> Optional(p, ";", Null)
    [] kind = "exp)" -> Optional(p, ")", Null)
    [] kind = "true;" -> Optional(p, ";", TrueExp)
    [] kind = "declaration" -> Pop(VarDeclList(p), {";"})
    [] kind = "statement" -> Statement(p, TRUE)
    [] kind = "substatement" -> Statement(p, FALSE)
    [] kind = "name" -> Name(p)
Kinds == {"exp", "exp;", "exp)", "true;", "declaration", "statement", "substatement", "name"}

\* What begins at p, and the tokens to pop and the kinds of parts to parse for it.
Form(p, declarations) ==
  LET t == At(p)
  IN CASE t = "for" ->
            <<t, << "for", "(", IF At(p + 2) = "int" THEN "declaration" ELSE "exp;",
                    "true;", "exp)", "substatement" >> >>
       [] t = "if" -> <<t, <<"if", "(", "exp", ")", "substatement">> >>
       [] t = "while" -> <<t, <<"while", "(", "exp", ")", "substatement">> >>
       [] t = "do" -> <<t, <<"do", "substatement", "while", "(", "exp", ")", ";">> >>
       [] t = "return" -> <<t, <<"return", "exp;">> >>
       [] t \in {"break", "continue"} -> <<t, <<t, ";">> >>
       [] t = "goto" -> <<t, <<"goto", "name", ";">> >>
       [] t = "int" /\ declarations -> <<"declaration", <<"declaration">> >>
       [] t \in Names /\ At(p + 1) = ":" -> <<"label", <<"name", ":", "statement">> >>
       [] OTHER -> <<"expression", <<"exp;">> >>

\* parse_statement_1
Statement(p, declarations) ==
  LET form == Form(p, declarations)
      step(r, s) == IF s \in Kinds THEN Then(r, LAMBDA q : Add(q, Part(s, q.pos)))
                    ELSE Pop(r, {s})
  IN IF At(p) = "{" THEN Block(p)
     ELSE Then(FoldLeft(step, Read(p, <<form[1]>>, 1), form[2]),
               LAMBDA r : IF At(p) = "if" /\ At(r.pos) = "else"
                          THEN Add(r, Statement(r.pos + 1, FALSE)) ELSE r)

\* The parameters, up to the ")".
Parameters(r) ==
  LET param(p) == Then(Pop(Read(p, <<"param">>, 2), {"int"}),
                       LAMBDA q : Add(q, Name(q.pos)))
  IN IF ~r.ok \/ At(r.pos) = ")" THEN r
     ELSE Parameters(Then(IF Len(r.tree) = 1 THEN r ELSE Pop(r, {","}),
                          LAMBDA q : AddItem(q, param(q.pos))))

\* parse_func_decl
FuncDecl(p) ==
  LET head == Pop(Add(Pop(Read(p, <<"func", At(p)>>, 2), {"int", "void"}), Name(p + 1)),
                  {"("})
      params(q) == IF At(q) = "void" THEN Read(q + 1, <<"list">>, 0)
                   ELSE IF At(q) = ")" THEN Read(q, <<"empty">>, 0)
                   ELSE Parameters(EmptyList(q))
      declared == Then(head, LAMBDA r : Pop(Add(r, params(r.pos)), {")"}))
  IN Then(declared, LAMBDA r : IF At(r.pos) = ";" THEN Pop(r, {";"}) ELSE Add(r, Block(r.pos)))

\* maybe_parse_global_var_list from its first name on; bail is can_bail.  A list
\* that is given up is freed, and the tokens are read again as a function.
GlobalDeclarators(r, bail) ==
  LET name == r.pos
      committed == ~bail \/ (At(name) \in Names /\ At(name + 1) \in {"=", ","})
      giveUp(q) == IF committed \/ q.ok THEN q ELSE [q EXCEPT !.tree = <<"bail">>]
      behind(list) ==
        IF At(name + 1) = "=" /\ Last(Last(list.tree))[1] # "const" THEN Die(name + 1)
        ELSE IF At(list.pos) = "," THEN GlobalDeclarators([list EXCEPT !.pos = @ + 1], FALSE)
        ELSE giveUp(Pop(list, {";"}))
  IN Then(giveUp(AddItem(r, Declarator(name))), behind)

\* Mutant: what starts with "int" is always taken for a list of variables.
TopLevelItemNoBail(p) ==
  IF At(p) # "int" THEN FuncDecl(p)
  ELSE Add(Read(p, <<"declare", "global">>, 1), GlobalDeclarators(EmptyList(p + 1), FALSE))

TopLevelItem(p) ==
  LET list == GlobalDeclarators(EmptyList(p + 1), TRUE)
  IN IF At(p) # "int" \/ list.tree = <<"bail">> THEN FuncDecl(p)
     ELSE Add(Read(p, <<"declare", "global">>, 1), list)

\* parse_program; each item has a struct ast_toplevel_item around it.
RECURSIVE TopLevelItems(_)
TopLevelItems(r) ==
  IF ~r.ok \/ At(r.pos) = "end" THEN r
  ELSE TopLevelItems(AddItem([r EXCEPT !.made = @ + 1], TopLevelItem(r.pos)))

Program == Add(Read(1, <<"program">>, 1), TopLevelItems(EmptyList(1)))

-----------------------------------------------------------------------------
(***************************************************************************)
(* The grammar, after annex A of C11, for the language README.md lists.    *)
(* A rule <<n, node, symbols>> derives n; the tree is node followed by the *)
(* trees of the nonterminals and by the names and numbers.  <<>> keeps the *)
(* tree of the only part, "more" appends to a list.  Where the parser      *)
(* takes more than C11 the rule says so.                                   *)
(***************************************************************************)
BinaryLevels == << "logical-OR", "logical-AND", "inclusive-OR", "exclusive-OR", "AND",
                   "equality", "relational", "shift", "additive", "multiplicative" >>
Tighter(i) == IF i = Len(BinaryLevels) THEN "unary" ELSE BinaryLevels[i + 1]

ExpressionRules ==
  {<<"primary", <<"var">>, <<x>> >> : x \in Names}
  \cup {<<"primary", <<"const">>, <<n>> >> : n \in Numbers}
  \cup {<<"postfix", <<"call">>, <<f, "(", "arguments", ")">> >> : f \in Names}
  \cup {<<"postfix", <<"suffix", op>>, <<"postfix", op>> >> : op \in Increments}
  \cup {<<"unary", <<"prefix", op>>, <<op, "unary">> >> : op \in Increments}
  \cup {<<"unary", <<"unary", op>>, <<op, "unary">> >> : op \in UnaryOps}
  \cup UNION {{<<BinaryLevels[i], <<"binary", op>>, <<BinaryLevels[i], op, Tighter(i)>> >> :
                 op \in LeftAssociative[i]} : i \in DOMAIN BinaryLevels}
  \cup {<<BinaryLevels[i], <<>>, <<Tighter(i)>> >> : i \in DOMAIN BinaryLevels}
  \cup {<<"assignment", <<"binary", "=">>, <<"unary", "=", "assignment">> >>}
  \cup {<<"assignment", <<"compound", CompoundOp[op]>>, <<"unary", op, "assignment">> >> :
          op \in DOMAIN CompoundOp}
  \cup {<<"primary", <<>>, <<"(", "expression", ")">> >>,
        <<"postfix", <<>>, <<"primary">> >>,
        <<"arguments", <<"list">>, <<>> >>,
        <<"arguments", <<>>, <<"arguments1">> >>,
        <<"arguments1", <<"list">>, <<"assignment">> >>,
        <<"arguments1", <<"more">>, <<"arguments1", ",", "assignment">> >>,
        <<"unary", <<>>, <<"postfix">> >>,
        \* +a is not an lvalue in C11.
        <<"unary", <<>>, <<"+", "unary">> >>,
        <<"conditional", <<>>, <<"logical-OR">> >>,
        <<"conditional", <<"ternary">>,
           <<"logical-OR", "?", "expression", ":", "conditional">> >>,
        <<"assignment", <<>>, <<"conditional">> >>,
        <<"expression", <<>>, <<"assignment">> >>,
        <<"expression", <<"binary", ",">>, <<"expression", ",", "assignment">> >>}

\* Behind "closed" statements an "else" is not missing, so that an "else" always
\* belongs to the innermost "if" that has none.
StatementRules ==
  UNION {{<<s, <<"while">>, <<"while", "(", "expression", ")", s>> >>,
          <<s, <<"for">>, <<"for", "(", "optional", ";", "condition", ";", "optional", ")", s>> >>,
          <<s, <<"for">>, <<"for", "(", "declaration", "condition", ";", "optional", ")", s>> >>,
          <<s, <<"if">>, <<"if", "(", "expression", ")", "closed", "else", s>> >>}
         \cup {<<s, <<"label">>, <<x, ":", s>> >> : x \in Names} : s \in {"closed", "open"}}
  \cup {<<"open", <<"if">>, <<"if", "(", "expression", ")", "statement">> >>,
        <<"closed", <<"expression">>, <<"optional", ";">> >>,
        <<"closed", <<"return">>, <<"return", "optional", ";">> >>,
        <<"closed", <<"break">>, <<"break", ";">> >>,
        <<"closed", <<"continue">>, <<"continue", ";">> >>,
        <<"closed", <<"do">>, <<"do", "statement", "while", "(", "expression", ")", ";">> >>,
        <<"closed", <<>>, <<"block">> >>,
        <<"optional", <<"null">>, <<>> >>,
        <<"optional", <<>>, <<"expression">> >>,
        <<"condition", <<"const", "1">>, <<>> >>,
        <<"condition", <<>>, <<"expression">> >>,
        <<"statement", <<>>, <<"closed">> >>, <<"statement", <<>>, <<"open">> >>,
        <<"items", <<"list">>, <<>> >>, <<"items", <<"more">>, <<"items", "item">> >>,
        <<"item", <<>>, <<"statement">> >>,
        <<"item", <<>>, <<"declared">> >>,
        <<"declared", <<"declaration">>, <<"declaration">> >>,
        <<"block", <<"block">>, <<"{", "items", "}">> >>,
        <<"declaration", <<"declare", "local">>, <<"int", "declarators", ";">> >>,
        <<"declarators", <<"list">>, <<"declarator">> >>,
        <<"declarators", <<"more">>, <<"declarators", ",", "declarator">> >>}
  \cup UNION {{<<"closed", <<"goto">>, <<"goto", x, ";">> >>,
               \* A declaration is not a statement in C11.
               <<"closed", <<"label">>, <<x, ":", "declared">> >>,
               <<"declarator", <<"decl">>, <<x>> >>,
               <<"declarator", <<"decl">>, <<x, "=", "assignment">> >>} : x \in Names}

FileRules ==
  UNION {UNION {{<<"function", <<"func", type>>, <<type, f, "(", "parameters", ")", ";">> >>,
                 <<"function", <<"func", type>>, <<type, f, "(", "parameters", ")", "block">> >>} :
                  f \in Names} : type \in {"int", "void"}}
  \cup UNION {{<<"parameter", <<"param">>, <<"int", x>> >>,
               <<"global", <<"decl">>, <<x>> >>,
               <<"global", <<"static">>, <<x, "=", "assignment">> >>} : x \in Names}
  \cup {<<"parameters", <<"list">>, <<"void">> >>, <<"parameters", <<"empty">>, <<>> >>,
        <<"parameters", <<>>, <<"parameters1">> >>,
        <<"parameters1", <<"list">>, <<"parameter">> >>,
        <<"parameters1", <<"more">>, <<"parameters1", ",", "parameter">> >>,
        <<"globals", <<"list">>, <<"global">> >>,
        <<"globals", <<"more">>, <<"globals", ",", "global">> >>,
        <<"external", <<>>, <<"function">> >>,
        <<"external", <<"declare", "global">>, <<"int", "globals", ";">> >>,
        <<"externals", <<"list">>, <<>> >>,
        <<"externals", <<"more">>, <<"externals", "external">> >>,
        <<"file", <<"program">>, <<"externals">> >>}

Rules == ExpressionRules \cup StatementRules \cup FileRules

\* The nonterminals; one that can be as long as another comes behind it.
Order ==
  <<"primary", "postfix", "unary">> \o Reverse(BinaryLevels)
  \o <<"conditional", "assignment", "arguments1", "arguments", "expression", "optional", "condition", "declarator",
       "declarators", "declaration", "declared", "block", "closed", "open",
       "statement", "item", "items", "parameter", "parameters1", "parameters", "function", "global",
       "globals", "external", "externals", "file">>
Nonterminals == Range(Order)

Kept == Names \cup Numbers

Terminals(symbols) == Cardinality({i \in DOMAIN symbols : symbols[i] \notin Nonterminals})

\* What symbols derive with n tokens: <<tokens, trees>>.  shorter gives
\* <<tokens, tree>> for each length and nonterminal.
RECURSIVE Derived(_, _, _)
Derived(symbols, n, shorter) ==
  IF symbols = <<>> THEN IF n = 0 THEN {<< <<>>, <<>> >>} ELSE {}
  ELSE IF n < Terminals(symbols) THEN {}
  ELSE IF Head(symbols) \notin Nonterminals
  THEN {<< <<Head(symbols)>> \o d[1],
           (IF Head(symbols) \in Kept THEN <<Head(symbols)>> ELSE <<>>) \o d[2]>> :
          d \in Derived(Tail(symbols), n - 1, shorter)}
  ELSE UNION {{<<a[1] \o d[1], <<a[2]>> \o d[2]>> :
                 a \in shorter[k][Head(symbols)], d \in Derived(Tail(symbols), n - k, shorter)} :
              k \in {i \in 0 .. n : shorter[i][Head(symbols)] # {}}}

\* Increments and assignments take a variable; a global starts as a constant (the
\* parser does not evaluate constant expressions, parser.c:676).
Constraint(node, parts) ==
  CASE node = <<>> -> TRUE
    [] node[1] \in {"prefix", "suffix", "compound"} \/ node = <<"binary", "=">> ->
         parts[1][1] = "var"
    [] node[1] = "static" -> parts[2][1] = "const"
    [] OTHER -> TRUE

Tree(node, parts) ==
  CASE node = <<>> -> parts[1]
    [] node = <<"more">> -> Append(parts[1], parts[2])
    [] node[1] = "compound" ->
         <<"binary", "=", parts[1], <<"binary", node[2], parts[1], parts[2]>> >>
    [] node[1] = "static" -> <<"decl">> \o parts
    [] OTHER -> node \o parts

\* G with what the nonterminals names derive with n tokens.
RECURSIVE WithLength(_, _, _, _)
WithLength(G, n, names, rules) ==
  IF names = <<>> THEN G
  ELSE LET derived ==
             UNION {{<<d[1], Tree(rule[2], d[2])>> :
                       d \in {e \in Derived(rule[3], n, G) : Constraint(rule[2], e[2])}} :
                    rule \in {r \in rules : r[1] = Head(names)}}
       IN IF derived = {} THEN WithLength(G, n, Tail(names), rules)
          ELSE WithLength([G EXCEPT ![n][Head(names)] = derived], n, Tail(names), rules)

\* How many tokens stand around a nonterminal at least; starts as 0 for the goal.
RECURSIVE Around(_, _)
Around(least, rules) ==
  LET next == [name \in Nonterminals |->
        Min({least[name]} \cup {least[r[1]] + Terminals(r[3]) :
                                  r \in {q \in rules : name \in Range(q[3])}})]
  IN IF next = least THEN least ELSE Around(next, rules)

\* What stands in sentences of up to most tokens, up to length n.
RECURSIVE Language(_, _, _, _)
Language(n, most, around, rules) ==
  IF n < 0 THEN [k \in 0 .. most |-> [name \in Nonterminals |-> {}]]
  ELSE WithLength(Language(n - 1, most, around, rules), n,
                  SelectSeq(Order, LAMBDA name : n + around[name] <= most), rules)

\* For each vocabulary the sentences of its goal.
Sentences ==
  [v \in DOMAIN Vocabularies |->
     LET voc == Vocabularies[v]
         words == UNION {Range(w) : w \in voc.words} \cup Range(voc.start)
         rules == {r \in Rules : Range(r[3]) \subseteq words \cup Nonterminals}
         around == Around([name \in Nonterminals |-> IF name = voc.goal THEN 0 ELSE voc.most + 1],
                          rules)
         language == Language(voc.most, voc.most, around, rules)
     IN UNION {language[n][voc.goal] : n \in 0 .. voc.most}]

-----------------------------------------------------------------------------
\* What the program makes of the tokens; nothing may follow the goal.
Parsed ==
  LET goal == Vocabularies[vocabulary].goal
      r == CASE goal = "expression" -> Exp(1) [] goal = "statement" -> Statement(1, FALSE)
             [] goal = "file" -> Program
  IN Pop(r, {"end"})

\* The tokens are not parsed yet.
Unread == Die(0)

Init ==
  /\ vocabulary \in DOMAIN Vocabularies
  /\ \/ tokens = Vocabularies[vocabulary].start /\ meant = <<>>
     \/ \E s \in Sentences[vocabulary] : tokens = s[1] /\ meant = s[2]
  /\ result = Unread

ParseTokens ==
  /\ result = Unread
  /\ result' = Parsed
  /\ UNCHANGED <<vocabulary, tokens, meant>>

\* The parser died for want of tokens, or something may follow.
Type ==
  /\ meant = <<>>
  /\ result.ok \/ result.pos > Len(tokens)
  /\ \E word \in Vocabularies[vocabulary].words : tokens' = tokens \o word
  /\ Len(tokens') <= Vocabularies[vocabulary].most
  /\ result' = Unread
  /\ UNCHANGED <<vocabulary, meant>>

Next == ParseTokens \/ Type
Spec == Init /\ [][Next]_vars

-----------------------------------------------------------------------------
\* Mutant: free_ast_statement forgets the statement behind a label.
MembersNoLabel(t) ==
  CASE t[1] \in {"list", "program", "block", "expression", "return", "if", "while", "do", "for",
                 "ternary", "declaration"} -> Tail(t)
    [] t[1] \in {"call", "decl", "unary", "prefix", "suffix", "binary", "declare"} ->
         SubSeq(t, 3, Len(t))
    [] t[1] = "func" -> SubSeq(t, 4, Len(t))
    [] OTHER -> <<>>

\* free_ast: the parts of a tree that are freed with it, and the blocks that gives
\* back.
Members(t) ==
  CASE t[1] \in {"list", "program", "block", "expression", "return", "if", "while", "do", "for",
                 "ternary", "declaration"} -> Tail(t)
    [] t[1] \in {"call", "decl", "unary", "prefix", "suffix", "binary", "label", "declare"} ->
         SubSeq(t, 3, Len(t))
    [] t[1] = "func" -> SubSeq(t, 4, Len(t))
    [] OTHER -> <<>>

RECURSIVE Freed(_)
Freed(t) ==
  LET own == CASE t[1] \in {"null", "empty"} -> 0
               [] t[1] = "list" -> IF Len(t) > 1 THEN 1 ELSE 0
               [] t[1] \in {"var", "call", "decl", "param", "func"} -> 2
               [] OTHER -> 1
  IN FoldLeft(LAMBDA n, m : n + Freed(m), own, Members(t))

-----------------------------------------------------------------------------
(***************************************************************************)
(* Properties.                                                             *)
(***************************************************************************)
\* Type invariant.  The parser reads to the sentinel and never behind it, and the
\* token it shows when it dies is one of the array (parser.c:59).
TypeOK ==
  /\ vocabulary \in DOMAIN Vocabularies
  /\ result.made \in Nat
  /\ result.pos \in 0 .. IF result.ok THEN Len(tokens) + 2 ELSE Len(tokens) + 1

\* Precedence climbing and the descent through the statements: what is accepted is
\* in the language, with the tree the grammar gives it.
OnlyTheLanguage == result.ok => <<tokens, result.tree>> \in Sentences[vocabulary]

\* The operand of a prefix ++ or -- is read as a whole expression (parser.c:128):
\* something other than the end of that expression follows the one at i.
Continued(i) ==
  LET k == CHOOSE j \in i + 1 .. Len(tokens) :
             tokens[j] \notin {"(", "+"} /\ \A l \in i + 1 .. j - 1 : tokens[l] \in {"(", "+"}
      closing == Cardinality({j \in i + 1 .. k : tokens[j] = "("})
  IN At(k + closing + 1) \notin {")", ":", ";", "end"}
IncrementContinued ==
  \E i \in DOMAIN tokens :
    /\ tokens[i] \in Increments
    /\ \/ At(i + 1) \in Names \cup {"("}
       \/ At(i + 1) = "+" /\ At(i - 1) \notin Names \cup {")"}
    /\ Continued(i)

\* In arguments and initializers the operand between "?" and ":" is parsed without
\* commas (parser.c:329).
CommaInside ==
  /\ {"?", ","} \subseteq Range(tokens)
  /\ "int" \in Range(tokens) \/ \E i \in DOMAIN tokens : tokens[i] \in Names /\ At(i + 1) = "("

\* A program of the language is accepted and understood, unless a prefix ++ or --
\* has an operand that is continued; then it is rejected.
WholeLanguage ==
  meant # <<>> /\ result # Unread /\ ~CommaInside =>
    /\ result.ok <=> ~IncrementContinued
    /\ result.ok => result.tree = meant

\* free_ast gives back every block of the tree once, but for the one struct
\* ast_toplevel_item of each item (parser.c:856-868 frees what it points to).
Released ==
  result.ok => result.made - Freed(result.tree) =
                IF Vocabularies[vocabulary].goal = "file" THEN Len(result.tree[2]) - 1 ELSE 0
=============================================================================
