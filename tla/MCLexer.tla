------------------------------ MODULE MCLexer ------------------------------
(***************************************************************************)
(* The lexer on every text up to a length over a small alphabet.           *)
(***************************************************************************)
EXTENDS SourceText

TextsUpTo(alphabet, n) == UNION {[1..k -> alphabet] : k \in 0..n}

\* Every kind of token and a character the lexer does not know; and whole lines
\* of one-byte characters with both kinds of line ends.
General == {"i", "s", "_", ".", " ", "\n", "\"", "'", "/", "=", "#"}
Lines_ == {"i", "s", " ", "\"", "/", "\r", "\n"}
MCTexts == TextsUpTo(General, 4) \cup {t \o <<"\n">> : t \in TextsUpTo(Lines_, 5)}

MCCharacters == General \cup Lines_ \cup {"a", "wide", EOF}
MCKeywords == {<<"i", "s">>}

\* Texts of comments; with "\r\n" at all line ends and no empty comment; and strings
\* over such a line end.
CommentTexts == TextsUpTo({"a", "/", "\n"}, 4)
CrlfTexts ==
  {<<"/", "/", "a", "\r", "\n">> \o t : t \in TextsUpTo({"a", "/", " "}, 2)}
  \cup {<<"\"", "\r", "\n">> \o t \o <<"\"">> : t \in TextsUpTo({"a", " "}, 2)}
LineEndTexts == CommentTexts \cup CrlfTexts

\* Texts with a character of two bytes, and texts without a line end after the last.
WideTexts == {t \o <<"\n">> : t \in TextsUpTo({"wide", "a", " ", "\n"}, 3)}
OpenTexts == {t \o <<"a">> : t \in TextsUpTo({"a", " ", "\n"}, 2)}
LineTexts == WideTexts \cup OpenTexts

-----------------------------------------------------------------------------
(* Properties.                                                               *)

\* The text is a sequence of lexemes.
Lexable ==
  LET lex[p \in 0..Len(text)] ==
        All(p, Len(text), WhiteSpace) \/ \E q, e \in p..Len(text) : IsLexeme(p, q, e) /\ lex[e]
  IN lex[0]

\* run returns on every text that has tokens: no loop of eat_token misses its end.
LexerReturns == (status = "run" /\ Regular /\ Lexable) ~> (status = "done")

\* A line comment ends with its line: what the lexer consumes as a comment holds
\* no line end.
CommentsEndWithTheLine ==
  mode = "comment" => \A i \in mark + 1..pos : i <= Len(text) => text[i] # "\n"

\* A string ends on the line it starts on: no line end is consumed inside it.
StringsEndWithTheLine ==
  mode = "string" => \A i \in 1..pos : i > pos - Len(buf) /\ i <= Len(text) => text[i] # "\n"
=============================================================================
