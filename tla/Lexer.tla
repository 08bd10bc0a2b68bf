-------------------------------- MODULE Lexer --------------------------------
(***************************************************************************)
(* lexer.c: lex() over the characters of a source text, one action for one *)
(* round of its loop, or of the loop in consume_comments.                  *)
(*                                                                         *)
(* A character is a string of length one; a position is an index of text,  *)
(* and the terminating NUL is the position behind the last one.  The type  *)
(* of a symbol or keyword is its spelling.                                 *)
(***************************************************************************)
EXTENDS Integers, Sequences, FiniteSets, SequencesExt

CONSTANTS
  Texts,     \* the source texts that are read
  Junk,      \* what may follow an unterminated string in memory
  IntRange,  \* 2^w: an int has w bits
  LongMax    \* LONG_MAX

ASSUME LexerAssumption ==
  /\ \A t \in Texts : t \in Seq(STRING) /\ "NUL" \notin ToSet(t)
  /\ Junk \subseteq Seq(STRING)
  /\ IntRange \in Nat \ {0}
  /\ LongMax \in Nat /\ IntRange \div 2 <= LongMax + 1

ALPHA == {"a", "b", "c", "d", "e", "f", "g", "h", "i", "j", "k", "l", "m",
          "n", "o", "p", "q", "r", "s", "t", "u", "v", "w", "x", "y", "z",
          "A", "B", "C", "D", "E", "F", "G", "H", "I", "J", "K", "L", "M",
          "N", "O", "P", "Q", "R", "S", "T", "U", "V", "W", "X", "Y", "Z"}
Digits == <<"0", "1", "2", "3", "4", "5", "6", "7", "8", "9">>
NUM == ToSet(Digits)
WHITESPACE == {" ", "\t", "\n"}
IDENTIFIER_HEAD == ALPHA \cup {"_"}
IDENTIFIER_TAIL == ALPHA \cup NUM \cup {"_"}

\* The symbols in the order in which lex() tries them.
Symbols ==
  << <<"{">>, <<"}">>, <<"(">>, <<")">>, <<";">>, <<":">>, <<"?">>, <<",">>,
     <<"+", "=">>, <<"-", "=">>, <<"/", "=">>, <<"*", "=">>, <<"%", "=">>, <<"&", "=">>,
     <<"|", "=">>, <<"^", "=">>, <<"<", "<", "=">>, <<">", ">", "=">>,
     <<"+", "+">>, <<"-", "-">>,
     <<"-">>, <<"~">>, <<"+">>, <<"*">>, <<"/">>, <<"%">>, <<"^">>,
     <<"&", "&">>, <<"|", "|">>, <<"=", "=">>, <<"!", "=">>, <<"<", "=">>, <<">", "=">>,
     <<"<", "<">>, <<">", ">">>,
     <<">">>, <<"<">>, <<"!">>, <<"=">>, <<"&">>, <<"|">> >>

Keywords ==
  << <<"i", "n", "t">>, <<"v", "o", "i", "d">>, <<"r", "e", "t", "u", "r", "n">>,
     <<"i", "f">>, <<"e", "l", "s", "e">>, <<"f", "o", "r">>, <<"w", "h", "i", "l", "e">>,
     <<"d", "o">>, <<"b", "r", "e", "a", "k">>,
     <<"c", "o", "n", "t", "i", "n", "u", "e">>, <<"g", "o", "t", "o">> >>

VARIABLES
  text,     \* the source file
  junk,     \* the memory behind a line that is not terminated
  ctx,      \* struct lex_ctx: buf, line_start, line_no and col_no
  tokens,   \* ctx.tokens
  comment,  \* "none", "line" or "block": the comment buf is in
  opened,   \* where the last block comment started: comment_line_start, ...
  status    \* "lexing", "done", or what lex() died of

vars == <<text, junk, ctx, tokens, comment, opened, status>>

-----------------------------------------------------------------------------
\* The character of text t at position p.
At(t, p) == IF p <= Len(t) THEN t[p] ELSE "NUL"
Here == At(text, ctx.buf)
Following == At(text, ctx.buf + 1)
Rest == SubSeq(text, ctx.buf, Len(text))

\* skip_chars: the first position from p on with a character outside chars.
RunEnd(t, p, chars) ==
  CHOOSE e \in p .. Len(t) + 1 :
    At(t, e) \notin chars /\ \A q \in p .. e - 1 : At(t, q) \in chars

\* tab2sp(getline_dup(...), 1).  A line that ends in a newline is copied
\* without it, and without a NUL at its end (string-util.h:17).
ShownLine(t, start, behind) ==
  LET end == CHOOSE e \in start .. Len(t) + 1 :
               /\ At(t, e) \in {"\n", "NUL"}
               /\ \A q \in start .. e - 1 : At(t, q) \notin {"\n", "NUL"}
      line == [i \in 1 .. end - start |->
                 IF t[start + i - 1] = "\t" THEN " " ELSE t[start + i - 1]]
  IN IF At(t, end) = "\n" THEN line \o behind ELSE line

\* strtol stops at LONG_MAX, and the assignment to an int keeps the low bits.
ToInt(n) == ((n + IntRange \div 2) % IntRange) - IntRange \div 2
Digit(c) == CHOOSE d \in 0 .. 9 : Digits[d + 1] = c
Strtol(digits) ==
  LET value[i \in 0 .. Len(digits)] ==
        IF i = 0 THEN 0 ELSE 10 * value[i - 1] + Digit(digits[i])
      n == value[Len(digits)]
  IN IF n > LongMax THEN LongMax ELSE n

\* ctx.buf and ctx.col_no move over n characters of the line.
Advance(n) == ctx' = [ctx EXCEPT !.buf = @ + n, !.col_no = @ + n]

\* Mutant: the columns of a new line go on from those of the last one.
NewlineKeepsColumn == ctx' = [ctx EXCEPT !.buf = @ + 1, !.line_start = ctx.buf + 1,
                                         !.line_no = @ + 1]

\* consume_newline
Newline == ctx' = [ctx EXCEPT !.buf = @ + 1, !.line_start = ctx.buf + 1,
                              !.line_no = @ + 1, !.col_no = 0]

\* add_token_with_value
Token(type, value) ==
  [type |-> type, value |-> value, line |-> ShownLine(text, ctx.line_start, junk),
   line_no |-> ctx.line_no, col_no |-> ctx.col_no]
AddToken(type, value) == tokens' = Append(tokens, Token(type, value))

-----------------------------------------------------------------------------
Lexing == status = "lexing"
InCode == Lexing /\ comment = "none" /\ ctx.buf <= Len(text)

Init ==
  /\ text \in Texts
  /\ junk \in IF "\n" \in ToSet(text) THEN Junk ELSE {<<>>}
  /\ ctx = [buf |-> 1, line_start |-> 1, line_no |-> 1, col_no |-> 0]
  /\ tokens = <<>>
  /\ comment = "none"
  /\ opened = [line_start |-> 1, line_no |-> 1, col_no |-> 0]
  /\ status = "lexing"

\* consume_whitespaces, a character at a time.
Whitespace ==
  /\ InCode
  /\ Here \in WHITESPACE
  /\ IF Here = "\n" THEN Newline ELSE Advance(1)
  /\ UNCHANGED <<text, junk, tokens, comment, opened, status>>

StartsComment == Here = "/" /\ Following \in {"/", "*"}

\* Mutant: the "*" that opens a comment may also close it.
OpenCommentShort ==
  /\ InCode
  /\ StartsComment
  /\ comment' = IF Following = "/" THEN "line" ELSE "block"
  /\ opened' = IF Following = "/" THEN opened
               ELSE [line_start |-> ctx.line_start, line_no |-> ctx.line_no,
                     col_no |-> ctx.col_no]
  /\ Advance(1)
  /\ UNCHANGED <<text, junk, tokens, status>>

OpenComment ==
  /\ InCode
  /\ StartsComment
  /\ comment' = IF Following = "/" THEN "line" ELSE "block"
  /\ opened' = IF Following = "/" THEN opened
               ELSE [line_start |-> ctx.line_start, line_no |-> ctx.line_no,
                     col_no |-> ctx.col_no]
  /\ Advance(2)
  /\ UNCHANGED <<text, junk, tokens, status>>

LineComment ==
  /\ Lexing /\ comment = "line"
  /\ IF Here \in {"\n", "NUL"}
     THEN comment' = "none" /\ UNCHANGED ctx
     ELSE Advance(1) /\ UNCHANGED comment
  /\ UNCHANGED <<text, junk, tokens, opened, status>>

BlockComment ==
  /\ Lexing /\ comment = "block"
  /\ UNCHANGED <<text, junk, tokens, opened>>
  /\ IF Here = "*" /\ Following = "/"
     THEN Advance(2) /\ comment' = "none" /\ UNCHANGED status
     ELSE /\ UNCHANGED comment
          /\ CASE Here = "\n" -> Newline /\ UNCHANGED status
               [] Here = "NUL" -> status' = "runaway comment" /\ UNCHANGED ctx
               [] OTHER -> Advance(1) /\ UNCHANGED status

-----------------------------------------------------------------------------
(***************************************************************************)
(* The tokens: each alternative of the chain in lex() is tried when the    *)
(* ones before it do not match.                                            *)
(***************************************************************************)
AtToken == InCode /\ Here \notin WHITESPACE /\ ~StartsComment

Consume(n, type, value) ==
  /\ AddToken(type, value)
  /\ Advance(n)
  /\ UNCHANGED <<text, junk, comment, opened, status>>

SymbolsHere == {i \in DOMAIN Symbols : IsPrefix(Symbols[i], Rest)}

\* Mutant: a keyword is consumed like a symbol, whatever follows it.
KeywordsHereGreedy == {i \in DOMAIN Keywords : IsPrefix(Keywords[i], Rest)}

KeywordsHere == {i \in DOMAIN Keywords :
                   /\ IsPrefix(Keywords[i], Rest)
                   /\ At(text, ctx.buf + Len(Keywords[i])) \notin IDENTIFIER_TAIL}
First(found) == CHOOSE i \in found : \A j \in found : i <= j

\* consume_char and consume_str
Symbol ==
  /\ AtToken
  /\ SymbolsHere # {}
  /\ LET symbol == Symbols[First(SymbolsHere)] IN Consume(Len(symbol), symbol, <<>>)

\* consume_keyword
Keyword ==
  /\ AtToken
  /\ SymbolsHere = {} /\ KeywordsHere # {}
  /\ LET word == Keywords[First(KeywordsHere)] IN Consume(Len(word), word, <<>>)

AtWord == AtToken /\ SymbolsHere = {} /\ KeywordsHere = {}

Identifier ==
  /\ AtWord
  /\ Here \in IDENTIFIER_HEAD
  /\ LET end == RunEnd(text, ctx.buf, IDENTIFIER_TAIL)
     IN Consume(end - ctx.buf, "identifier", SubSeq(text, ctx.buf, end - 1))

\* Digits with no identifier character behind them.
AtInteger ==
  /\ Here \in NUM
  /\ At(text, RunEnd(text, ctx.buf, NUM)) \notin IDENTIFIER_TAIL

Integer ==
  /\ AtWord
  /\ AtInteger
  /\ LET end == RunEnd(text, ctx.buf, NUM)
     IN Consume(end - ctx.buf, "integer", ToInt(Strtol(SubSeq(text, ctx.buf, end - 1))))

Unknown ==
  /\ AtWord
  /\ Here \notin IDENTIFIER_HEAD /\ ~AtInteger
  /\ status' = "unknown token"
  /\ UNCHANGED <<text, junk, ctx, tokens, comment, opened>>

\* The sentinel.
Finish ==
  /\ Lexing /\ comment = "none" /\ ctx.buf = Len(text) + 1
  /\ AddToken("none", <<>>)
  /\ status' = "done"
  /\ UNCHANGED <<text, junk, ctx, comment, opened>>

\* free_tokens leaves the sentinel, whose line is not freed.
FreeTokens ==
  /\ status = "done"
  /\ tokens' = SelectSeq(tokens, LAMBDA t : t.type = "none")
  /\ status' = "freed"
  /\ UNCHANGED <<text, junk, ctx, comment, opened>>

Ended == status \notin {"lexing", "done"} /\ UNCHANGED vars

Next ==
  \/ Whitespace \/ OpenComment \/ LineComment \/ BlockComment
  \/ Symbol \/ Keyword \/ Identifier \/ Integer \/ Unknown
  \/ Finish \/ FreeTokens \/ Ended

Spec == Init /\ [][Next]_vars

-----------------------------------------------------------------------------
(***************************************************************************)
(* What a text t means, told without lex(): a comment ends at the first    *)
(* place where it can, and a lexeme is as long as possible.                *)
(***************************************************************************)
LeastOf(S) == CHOOSE p \in S : \A q \in S : p <= q
GreatestOf(S) == CHOOSE p \in S : \A q \in S : p >= q

LineEnd(t, p) == LeastOf({q \in p .. Len(t) + 1 : At(t, q) \in {"\n", "NUL"}})
Opens(t, p, second) == At(t, p) = "/" /\ At(t, p + 1) = second
Closers(t, p) == {q \in p + 2 .. Len(t) : At(t, q) = "*" /\ At(t, q + 1) = "/"}

\* Behind the blank or the comment at p, or p if there is none.
Skip(t, p) ==
  IF At(t, p) \in WHITESPACE THEN p + 1
  ELSE IF Opens(t, p, "/") THEN LineEnd(t, p)
  ELSE IF Opens(t, p, "*") /\ Closers(t, p) # {} THEN LeastOf(Closers(t, p)) + 2
  ELSE p

\* For each position the first one from there on that is neither blank nor in a
\* comment.
Code(t) ==
  LET code[p \in 1 .. Len(t) + 1] == IF Skip(t, p) = p THEN p ELSE code[Skip(t, p)]
  IN code

Spelling(t, p, n) == SubSeq(t, p, p + n - 1)
LexemeLength(t, p) ==
  GreatestOf({0} \cup {n \in 1 .. Len(t) + 1 - p :
                        \/ Spelling(t, p, n) \in ToSet(Symbols)
                        \/ ToSet(Spelling(t, p, n)) \subseteq IDENTIFIER_TAIL})
Lexeme(t, p) == Spelling(t, p, LexemeLength(t, p))
IsToken(s) ==
  \/ s \in ToSet(Symbols)
  \/ s # <<>> /\ (s[1] \in IDENTIFIER_HEAD \/ ToSet(s) \subseteq NUM)

\* For each position the places of the tokens from there on, and of what ends
\* them.
Ends(t, p) == p > Len(t) \/ ~IsToken(Lexeme(t, p)) \/ Opens(t, p, "*")
Places(t) ==
  LET code == Code(t)
      places[p \in 1 .. Len(t) + 1] ==
        IF Ends(t, code[p]) THEN <<code[p]>>
        ELSE <<code[p]>> \o places[code[p] + LexemeLength(t, code[p])]
  IN places

LinesBefore(t, p) == {q \in 1 .. p - 1 : t[q] = "\n"}
LineStart(t, p) == GreatestOf({0} \cup LinesBefore(t, p)) + 1
IsAt(place, t, p) ==
  /\ place.line_no = 1 + Cardinality(LinesBefore(t, p))
  /\ place.col_no = p - LineStart(t, p)

\* The number that digits write: what each place counts for, from the last one.
Number(digits) ==
  LET unit[i \in 1 .. Len(digits)] == IF i = Len(digits) THEN 1 ELSE 10 * unit[i + 1]
      sum[i \in 1 .. Len(digits) + 1] ==
        IF i > Len(digits) THEN 0 ELSE Digit(digits[i]) * unit[i] + sum[i + 1]
  IN sum[1]

-----------------------------------------------------------------------------
(***************************************************************************)
(* Properties.                                                             *)
(***************************************************************************)
HasRead == status \notin {"lexing", "freed"}

\* "These must come after" (lexer.c:375 and 385): whatever the order of the
\* alternatives, the tokens are the longest lexemes of the code, all of them, and
\* nothing of a comment; a literal that fits an int keeps its value.
LongestMatch ==
  HasRead =>
    LET places == Places(text)[1]
    IN /\ Len(tokens) = Len(places) - (IF status = "done" THEN 0 ELSE 1)
       /\ \A i \in 1 .. Len(places) - 1 :
            LET s == Lexeme(text, places[i])
                t == tokens[i]
            IN IF s \in ToSet(Symbols) \cup ToSet(Keywords) THEN t.type = s
               ELSE IF s[1] \in IDENTIFIER_HEAD THEN t.type = "identifier" /\ t.value = s
               ELSE /\ t.type = "integer"
                    /\ Number(s) < IntRange \div 2 => t.value = Number(s)

\* The source line, line number and column kept with a token are those of the place
\* it was read at, also behind comments of several lines, and that of the sentinel
\* is the end of the text.  The line is shown to its end, and what follows it is
\* the memory behind the copy unless it is the last line.
Located ==
  HasRead =>
    LET places == Places(text)[1]
    IN \A i \in DOMAIN tokens :
         LET p == places[i]
             start == LineStart(text, p)
             end == LineEnd(text, p)
             line == tokens[i].line
         IN /\ IsAt(tokens[i], text, p)
            /\ Len(line) = end - start + (IF At(text, end) = "\n" THEN Len(junk) ELSE 0)
            /\ \A q \in start .. end - 1 :
                 line[q - start + 1] = IF text[q] = "\t" THEN " " ELSE text[q]

\* lex() dies at the first place where the text has no meaning and nowhere else,
\* and names that place: of a comment that is never closed, the place where it is
\* opened.
Rejected ==
  HasRead =>
    LET p == Last(Places(text)[1])
    IN CASE status = "done" -> p = Len(text) + 1
         [] status = "runaway comment" -> Opens(text, p, "*") /\ IsAt(opened, text, p)
         [] status = "unknown token" -> /\ p <= Len(text) /\ ~IsToken(Lexeme(text, p))
                                        /\ IsAt(ctx, text, p)
=============================================================================
