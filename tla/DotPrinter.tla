----------------------------- MODULE DotPrinter -----------------------------
(***************************************************************************)
(* dot-printer.c: the picture that print_ast_in_dot draws of a tree of the *)
(* module Parser.  A picture is the list of the labels of its nodes, which *)
(* are numbered from 0 in the order of add_label, and the arcs in the      *)
(* order in which they are printed, <<from, to, label>>.                   *)
(***************************************************************************)
EXTENDS Parser

NoPicture == [labels |-> <<>>, arcs |-> <<>>]

add_label(g, label) == [g EXCEPT !.labels = Append(@, label)]
\* The node that is added to g next.
Fresh(g) == Len(g.labels)
print_arc(g, from, to, label) == [g EXCEPT !.arcs = Append(@, <<from, to, label>>)]

RECURSIVE Draw(_, _)

\* A child <<tree, label of the arc>> of node from.  The arc is printed when all
\* below it is drawn, but for a variable's, which comes before that of its value.
WithChild(h, from, c) ==
  IF c[1][1] = "decl" THEN Draw(print_arc(h, from, Fresh(h), c[2]), c[1])
  ELSE print_arc(Draw(h, c[1]), from, Fresh(h), c[2])

\* Mutant: the children are linked to the node that was added last.
WithChildrenLast(g, label, children) ==
  FoldLeft(LAMBDA h, c : WithChild(h, Fresh(h) - 1, c), add_label(g, label), children)

\* A node and, one after the other, its children.
WithChildren(g, label, children) ==
  FoldLeft(LAMBDA h, c : WithChild(h, Fresh(g), c), add_label(g, label), children)

Children(names, trees) == [i \in DOMAIN trees |-> <<trees[i], <<names[i]>> >>]
\* "arg 0", "parameter 0" and so on, or no labels
Numbered(name, trees) == [i \in DOMAIN trees |-> <<trees[i], <<name, i - 1>> >>]
Plain(trees) == [i \in DOMAIN trees |-> <<trees[i], <<>> >>]

LabelOf(t) ==
  CASE t[1] = "declare" -> <<"Declare", t[2]>>
    [] t[1] = "func" -> <<"Function", t[3]>>
    [] t[1] \in {"param", "text"} -> <<t[2]>>
    [] t[1] = "decl" -> <<"name", t[2]>>
    [] t[1] \in {"var", "const", "call", "goto", "label", "unary", "prefix", "suffix", "binary"} ->
         <<t[1], t[2]>>
    [] OTHER -> <<t[1]>>

Text(word) == <<"text", word>>

\* print_ast_func_decl: the type, the parameters and the body.
FunctionChildren(t) ==
  << <<Text(IF t[2] = "int" THEN "<int>" ELSE "<void>"), <<"return type">> >> >>
  \o (IF t[4] = <<"empty">> THEN << <<Text("<empty parameter list>"), <<"parameters">> >> >>
      ELSE Numbered("parameter", Tail(t[4])))
  \o (IF Len(t) = 5 THEN << <<t[5], <<"body">> >> >> ELSE <<>>)

ChildrenOf(t) ==
  CASE t[1] = "ternary" -> Children(<<"condition", "then", "else">>, Tail(t))
    [] t[1] = "if" -> Children(<<"condition", "then", "else">>, Tail(t))
    [] t[1] = "for" -> Children(<<"prologue", "condition", "epilogue", "body">>, Tail(t))
    [] t[1] = "while" -> Children(<<"condition", "body">>, Tail(t))
    [] t[1] = "do" -> Children(<<"body", "condition">>, Tail(t))
    [] t[1] = "label" -> Children(<<"statement">>, <<t[3]>>)
    [] t[1] = "decl" -> Children(<<"with value">>, SubSeq(t, 3, Len(t)))
    [] t[1] = "return" -> Plain(SelectSeq(Tail(t), LAMBDA e : e[1] # "null"))
    [] t[1] = "call" -> Numbered("arg", Tail(t[3]))
    [] t[1] = "declare" -> Plain(Tail(t[3]))
    [] t[1] \in {"block", "program"} -> Plain(Tail(t[2]))
    [] t[1] = "func" -> FunctionChildren(t)
    [] OTHER -> Plain(Members(t))

\* print_ast_expression, print_ast_statement and the others
Draw(g, t) ==
  IF t[1] \in {"expression", "declaration"} THEN Draw(g, t[2])
  ELSE WithChildren(g, LabelOf(t), ChildrenOf(t))

Picture(t) == Draw(NoPicture, t)

-----------------------------------------------------------------------------
\* What a reader of the picture sees below node n, and what is there to be seen.
RECURSIVE Shown(_, _), Structure(_)
Shown(g, n) ==
  LET out == SelectSeq(g.arcs, LAMBDA a : a[1] = n)
  IN <<g.labels[n + 1], [i \in DOMAIN out |-> <<Shown(g, out[i][2]), out[i][3]>>]>>
Structure(t) ==
  IF t[1] \in {"expression", "declaration"} THEN Structure(t[2])
  ELSE LET parts == ChildrenOf(t)
       IN <<LabelOf(t), [i \in DOMAIN parts |-> <<Structure(parts[i][1]), parts[i][2]>>]>>

Distinct ==
  [v \in DOMAIN Vocabularies |->
     LET trees == {s[2] : s \in Sentences[v]}
     IN Cardinality({Picture(t) : t \in trees}) = Cardinality(trees)]

\* "Routines to print ASTs in dot format" (dot-printer.c:7): the arcs from node 0 on
\* give the tree and nothing else, and no two programs have the same picture.
Drawn ==
  result.ok => LET g == Picture(result.tree)
               IN /\ Shown(g, 0) = Structure(result.tree)
                  /\ Len(g.arcs) = Len(g.labels) - 1
                  /\ Distinct[vocabulary]
=============================================================================
