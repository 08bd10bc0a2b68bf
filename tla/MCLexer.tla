------------------------------- MODULE MCLexer -------------------------------
(* Model-checking instance of Lexer: all texts over a few characters or words *)
(* at a time.                                                                *)
EXTENDS Lexer, Functions

Characters(chars, most) == [pieces |-> {<<c>> : c \in chars}, most |-> most]
\* What texts are made of, and of how many pieces at most.
Vocabularies ==
  { \* symbols that start alike
    Characters({"<", ">", "=", "!"}, 5),
    Characters({"&", "|", "=", "+", "-", "a"}, 4),
    Characters({"*", "/", "%", "^", "=", "~"}, 4),
    Characters({"{", "}", "(", ")", ";", ":", "?", ","}, 2),
    \* comments
    Characters({"/", "*", "\n", "a", " "}, 6),
    \* keywords, and identifiers that start or end with one
    [pieces |-> ToSet(Keywords) \cup {<<"a">>, <<"_">>, <<"1">>, <<" ">>}, most |-> 3],
    \* columns behind tabs and newlines
    Characters({"d", "o", "0", "\t", "\n", "@"}, 5),
    \* numbers
    Characters({"0", "1", "3", "9", "-"}, 4) }
MCTexts ==
  UNION {UNION {{FlattenSeq(pieces) : pieces \in [1 .. n -> v.pieces]} : n \in 0 .. v.most}
         : v \in Vocabularies}
MCJunk == {<<>>, <<"@">>}
=============================================================================
