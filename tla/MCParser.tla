------------------------------ MODULE MCParser ------------------------------
(* Model-checking instance of Parser and DotPrinter: one small vocabulary    *)
(* for each part of the grammar.                                            *)
EXTENDS DotPrinter

Single(words) == {<<w>> : w \in words}
Vocabulary(goal, start, words, most) ==
  [goal |-> goal, start |-> start, words |-> words, most |-> most]

MCVocabularies ==
  << \* every kind of operator and operand
     Vocabulary("expression", <<>>,
       Single({"a", "1", "(", ")", "-", "++", "=", "+=", "*", "<", "?", ":", ","}), 6),
     \* every pair of binary operators
     Vocabulary("expression", <<>>, Single({"a"} \cup BinaryOps), 5),
     \* increments, calls and ?:
     Vocabulary("expression", <<>>, Single({"a", "+", "(", ")", "?", ":", ",", "++"}), 7),
     Vocabulary("expression", <<>>, Single({"a", "=", "?", ":", ","}), 9),
     \* the else that hangs
     Vocabulary("statement", <<>>,
       {<<"if", "(", "1", ")">>, <<"else">>, <<"while", "(", "1", ")">>, <<";">>}, 16),
     Vocabulary("statement", <<>>,
       Single({"a", ";", "do", ")", "break", "continue"}) \cup {<<"while", "(">>}, 11),
     Vocabulary("statement", <<"{">>, Single({"a", ";", "return", "goto", ":", "int", "}"}), 9),
     Vocabulary("statement", <<"for", "(">>, Single({"a", ";", ")", "int", "=", ","}), 12),
     \* variables, prototypes and functions
     Vocabulary("file", <<>>,
       Single({"a", "int", "void", "(", ")", "=", ",", "1", ";", "{", "}"}), 12) >>
=============================================================================
