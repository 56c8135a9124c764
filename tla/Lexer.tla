------------------------------- MODULE Lexer -------------------------------
(***************************************************************************)
(* The lexer of k1 (src/k1/lex.rs): eat_token reads characters, one loop   *)
(* iteration at a time, and run collects the tokens until there are none.  *)
(* Every iteration of the loop in eat_token is one action.                 *)
(*                                                                         *)
(* A source text is a sequence of one-character strings.  Characters that  *)
(* the lexer treats alike are represented by a few members of their class. *)
(***************************************************************************)
EXTENDS Integers, Sequences, FiniteSets

CONSTANTS
  Characters,(* The characters of texts; NUL, which stands for EOF, is one.  *)
  Texts,     (* The source texts to lex.                                   *)
  Keywords,  (* The words token_from_str knows, as sequences of characters.*)
  EofSlack   (* Bound: how far past the end of the text the loops that     *)
             (* miss the end are followed.                                 *)

\* Characters.  EOF is also what the text holds if it contains a NUL; "wide" is a
\* letter that takes two bytes.
EOF == "EOF"
Quote == "\""
Underscore == "_"
WhiteSpace == {" ", "\n", "\r"}
IdentChars == {"a", "b", "i", "s", "7", Underscore, "wide"}
Punctuation == {"(", ".", "-", "/", "=", "!", "<", ">", "'"}

ASSUME LexerAssumption ==
  /\ EOF \in Characters
  /\ Texts \subseteq Seq(Characters)
  /\ Keywords \subseteq Seq(IdentChars)
  /\ EofSlack \in Nat

VARIABLES
  text,    (* The content of the source file.                              *)
  pos,     (* Lexer.pos: characters consumed.                              *)
  line,    (* Lexer.line_index.                                            *)
  mode,    (* Which of the loops of eat_token runs.                        *)
  buf,     (* tok_buf; tok_len is its length.                              *)
  mark,    (* Where the comment or character literal started.              *)
  count,   (* Length of the character literal so far.                      *)
  ws,      (* peeked_whitespace of the current eat_token call.             *)
  tokens,  (* The tokens produced so far, each with its span.              *)
  status   (* "run", "done" or "error".                                    *)

vars == <<text, pos, line, mode, buf, mark, count, ws, tokens, status>>

-----------------------------------------------------------------------------
(* Reading characters.                                                       *)

At(p) == IF p < Len(text) THEN text[p + 1] ELSE EOF
Peek == At(pos)
Peek2 == At(pos + 1)

\* Lexer.next: a "\r\n" is consumed as a whole, and only "\n" itself counts
\* as the end of a line.
Step(p) == IF At(p) = "\r" /\ At(p + 1) = "\n" THEN p + 2 ELSE p + 1
Newline(p) == IF At(p) = "\n" THEN 1 ELSE 0

Advance == pos' = Step(pos) /\ line' = line + Newline(pos)
Stay == UNCHANGED <<pos, line>>

-----------------------------------------------------------------------------
(* Producing tokens.                                                         *)

WordKind == IF buf \in Keywords THEN "keyword" ELSE "ident"

TwoCharKind(c) ==
  CASE c = "=" -> "==" [] c = "!" -> "!=" [] c = "<" -> "<=" [] c = ">" -> ">="

\* Break out of eat_token with a token; the next call starts with fresh locals.
\* The position has been advanced, or left, by the caller.
Emit(kind, start, len) ==
  /\ tokens' = Append(tokens, [kind |-> kind, start |-> start, len |-> len,
                               ws |-> ws, text |-> buf])
  /\ buf' = <<>>
  /\ mode' = "plain"
  /\ ws' = (At(pos') \in WhiteSpace)
  /\ UNCHANGED <<text, mark, count, status>>

EmitWord(kind) == Emit(kind, pos - Len(buf), Len(buf))

-----------------------------------------------------------------------------
Init ==
  /\ text \in Texts
  /\ pos = 0
  /\ line = 0
  /\ mode = "plain"
  /\ buf = <<>>
  /\ mark = 0
  /\ count = 0
  /\ ws = (At(0) \in WhiteSpace)
  /\ tokens = <<>>
  /\ status = "run"

Plain == status = "run" /\ mode = "plain"

\* "//": two advances here and the one at the end of the loop body, which
\* every iteration that does not break or continue reaches.
OpenComment ==
  /\ Plain /\ buf = <<>>
  /\ Peek = "/" /\ Peek2 = "/"
  /\ mode' = "comment"
  /\ mark' = pos
  /\ pos' = Step(pos + 2)
  /\ line' = line + Newline(pos + 2)
  /\ UNCHANGED <<text, buf, count, ws, tokens, status>>

CommentChar ==
  /\ status = "run" /\ mode = "comment"
  /\ Peek \notin {"\n", EOF}
  /\ Advance
  /\ UNCHANGED <<text, mode, buf, mark, count, ws, tokens, status>>

CommentEnd ==
  /\ status = "run" /\ mode = "comment"
  /\ Peek \in {"\n", EOF}
  /\ Stay
  /\ Emit("comment", mark, pos - mark - 1)

\* The buffer is not looked at: a quote may follow the characters of a word.
OpenString ==
  /\ Plain
  /\ Peek = Quote
  /\ Advance
  /\ mode' = "string"
  /\ UNCHANGED <<text, buf, mark, count, ws, tokens, status>>

\* Nothing stops this loop at the end of the text.
StringChar ==
  /\ status = "run" /\ mode = "string"
  /\ Peek \notin {Quote, "\n"}
  /\ pos < Len(text) + EofSlack
  /\ buf' = Append(buf, Peek)
  /\ Advance
  /\ UNCHANGED <<text, mode, mark, count, ws, tokens, status>>

StringEnd ==
  /\ status = "run" /\ mode = "string"
  /\ Peek = Quote
  /\ Advance
  /\ EmitWord("string")

Fail ==
  /\ status' = "error"
  /\ UNCHANGED <<text, pos, line, mode, buf, mark, count, ws, tokens>>

StringNewline == status = "run" /\ mode = "string" /\ Peek = "\n" /\ Fail

EndOfText ==
  /\ Plain
  /\ Peek = EOF
  /\ \/ buf # <<>> /\ Stay /\ EmitWord("ident")
     \/ /\ buf = <<>>
        /\ status' = "done"
        /\ UNCHANGED <<text, pos, line, mode, buf, mark, count, ws, tokens>>

\* Fault: looks every word up, also in front of punctuation.
WordBeforePunctuation_LooksUp ==
  /\ Plain /\ buf # <<>>
  /\ Peek \in Punctuation
  /\ Stay
  /\ EmitWord(WordKind)

\* A word that ends at a punctuation character is an identifier, even when it
\* is spelled like a keyword.
WordBeforePunctuation ==
  /\ Plain /\ buf # <<>>
  /\ Peek \in Punctuation
  /\ Stay
  /\ EmitWord("ident")

OpenChar ==
  /\ Plain /\ buf = <<>>
  /\ Peek = "'"
  /\ Advance
  /\ mode' = "char"
  /\ mark' = pos
  /\ count' = 1
  /\ UNCHANGED <<text, buf, ws, tokens, status>>

\* Nothing stops this loop at the end of the text either.
CharChar ==
  /\ status = "run" /\ mode = "char"
  /\ Peek # "'"
  /\ pos < Len(text) + EofSlack
  /\ Advance
  /\ count' = count + 1
  /\ UNCHANGED <<text, mode, buf, mark, ws, tokens, status>>

\* Fault: counts the closing quote twice.
CharEnd_CountsTwice ==
  /\ status = "run" /\ mode = "char"
  /\ Peek = "'"
  /\ Advance
  /\ Emit("char", mark, count + 2)

CharEnd ==
  /\ status = "run" /\ mode = "char"
  /\ Peek = "'"
  /\ Advance
  /\ Emit("char", mark, count + 1)

TwoCharToken ==
  /\ Plain /\ buf = <<>>
  /\ Peek \in {"=", "!", "<", ">"} /\ Peek2 = "="
  /\ pos' = pos + 2 /\ UNCHANGED line
  /\ Emit(TwoCharKind(Peek), pos, 2)

OneCharToken ==
  /\ Plain /\ buf = <<>>
  /\ Peek \in Punctuation \ {"'"}
  /\ ~(Peek \in {"=", "!", "<", ">"} /\ Peek2 = "=")
  /\ ~(Peek = "/" /\ Peek2 = "/")
  /\ Advance
  /\ Emit(Peek, pos, 1)

WordBeforeSpace ==
  /\ Plain /\ buf # <<>>
  /\ Peek \in WhiteSpace
  /\ Stay
  /\ EmitWord(WordKind)

IdentChar ==
  /\ Plain
  /\ Peek \in IdentChars
  /\ ~(buf = <<Underscore>> /\ Peek = Underscore)
  /\ buf' = Append(buf, Peek)
  /\ Advance
  /\ UNCHANGED <<text, mode, mark, count, ws, tokens, status>>

LeadingUnderscores == Plain /\ buf = <<Underscore>> /\ Peek = Underscore /\ Fail

Unknown(c) == c \notin WhiteSpace \cup IdentChars \cup Punctuation \cup {Quote, EOF}

\* A character the lexer does not know ends a keyword ...
KeywordBeforeUnknown ==
  /\ Plain
  /\ Unknown(Peek)
  /\ buf \in Keywords
  /\ Stay
  /\ EmitWord("keyword")

\* Fault: continues without the advance at the end of the loop body.
Skip_NoAdvance ==
  /\ Plain
  /\ \/ Unknown(Peek) /\ buf \notin Keywords
     \/ Peek \in WhiteSpace /\ buf = <<>>
  /\ Stay
  /\ UNCHANGED <<text, mode, buf, mark, count, ws, tokens, status>>

\* ... and is dropped otherwise, as is white space before a token.
Skip ==
  /\ Plain
  /\ \/ Unknown(Peek) /\ buf \notin Keywords
     \/ Peek \in WhiteSpace /\ buf = <<>>
  /\ Advance
  /\ UNCHANGED <<text, mode, buf, mark, count, ws, tokens, status>>

\* The lexer has returned, or follows a loop beyond the bound.
Finished == status # "run" /\ UNCHANGED vars
Runaway ==
  /\ status = "run" /\ mode \in {"string", "char"}
  /\ pos >= Len(text) + EofSlack
  /\ UNCHANGED vars

Iterate ==
  \/ OpenComment \/ CommentChar \/ CommentEnd
  \/ OpenString \/ StringChar \/ StringEnd \/ StringNewline
  \/ OpenChar \/ CharChar \/ CharEnd
  \/ EndOfText \/ WordBeforePunctuation \/ WordBeforeSpace
  \/ TwoCharToken \/ OneCharToken
  \/ IdentChar \/ LeadingUnderscores \/ KeywordBeforeUnknown \/ Skip

Next == Iterate \/ Finished \/ Runaway

Spec == Init /\ [][Next]_vars

\* The lexer runs until it returns; nothing it does can block.
FairSpec == Spec /\ WF_vars(Iterate)

-----------------------------------------------------------------------------
(* Properties.                                                               *)

Modes == {"plain", "comment", "string", "char"}
Kinds == {"ident", "keyword", "string", "char", "comment", "==", "!=", "<=", ">="}
           \cup Punctuation
Tokens == [kind : Kinds, start : Nat, len : Nat, ws : BOOLEAN, text : Seq(Characters)]

TypeOK ==
  /\ text \in Seq(Characters)
  /\ pos \in Nat
  /\ line \in Nat
  /\ mode \in Modes
  /\ buf \in Seq(Characters)
  /\ mark \in Nat
  /\ count \in Nat
  /\ ws \in BOOLEAN
  /\ tokens \in Seq(Tokens)
  /\ status \in {"run", "done", "error"}

End(t) == t.start + t.len

\* Tokens do not overlap and come in the order of the text, whatever the text
\* is: Span::extended, which the parser calls on any two tokens in order, asserts
\* that the ends do not decrease.
SpansInOrder ==
  \A i, j \in 1..Len(tokens) : i < j => End(tokens[i]) <= tokens[j].start

\* A token's span lies inside the text, whatever the text is: get_content slices
\* the content of the file with it, and a slice out of range panics.
SpansInText == \A i \in 1..Len(tokens) : End(tokens[i]) <= Len(text)

\* So the spans of run's tokens cut the text into disjoint pieces, in its order.
SpansCutTheText == SpansInOrder /\ SpansInText

-----------------------------------------------------------------------------
(* The tokens of a text, without loops: the longest lexeme after the white   *)
(* space at each place, with the kinds and spans of lex.rs.                  *)

\* The characters from place q up to place e; a piece of the text is named by the two.
Slice(q, e) == SubSeq(text, q + 1, e)
All(q, e, S) == \A i \in q..e - 1 : At(i) \in S
Free(q, e, c) == \A i \in q..e - 1 : At(i) # c

Quoted(q, e, quote) ==
  q + 2 <= e /\ At(q) = quote /\ At(e - 1) = quote /\ Free(q + 1, e - 1, quote)

Shape(q, e) ==
  CASE q + 2 <= e /\ At(q) = "/" /\ At(q + 1) = "/" /\ Free(q, e, "\n") -> "comment"
    [] Quoted(q, e, Quote) /\ Free(q, e, "\n") -> "string"
    [] Quoted(q, e, "'") -> "char"
    [] All(q, e, IdentChars) -> "word"
    [] e = q + 2 /\ At(q) \in {"=", "!", "<", ">"} /\ At(q + 1) = "=" -> TwoCharKind(At(q))
    [] e = q + 1 /\ At(q) \in Punctuation \ {"'"} -> At(q)
    [] OTHER -> "none"

\* A lexeme from q to e is what the text holds after the white space at p; two
\* underscores at the start of a word are reserved.
IsLexeme(p, q, e) ==
  /\ p <= q /\ All(p, q, WhiteSpace) /\ At(q) \notin WhiteSpace
  /\ q < e /\ Shape(q, e) # "none"
  /\ \A f \in e + 1..Len(text) : Shape(q, f) = "none"
  /\ ~(e >= q + 2 /\ At(q) = Underscore /\ At(q + 1) = Underscore)

\* The token of that lexeme.  A keyword counts as one only in front of white space,
\* a string's span leaves out its quotes, a comment's its last character.
Token(p, q, e) ==
  LET w == Slice(q, e)
      shape == Shape(q, e)
      tok(kind, start, len, content) ==
        [kind |-> kind, start |-> start, len |-> len,
         ws |-> At(p) \in WhiteSpace, text |-> content]
  IN CASE shape = "word" ->
            tok(IF w \in Keywords /\ At(e) \in WhiteSpace THEN "keyword" ELSE "ident",
                q, e - q, w)
       [] shape = "string" -> tok(shape, q + 1, e - q - 2, Slice(q + 1, e - 1))
       [] shape = "comment" -> tok(shape, q, IF e - q = 2 THEN 2 ELSE e - q - 1, <<>>)
       [] OTHER -> tok(shape, q, e - q, <<>>)

\* Where the lexeme of a token ends, and the next one is looked for.
After(t) ==
  IF t.kind = "string" \/ (t.kind = "comment" /\ End(t) < Len(text)) THEN End(t) + 1 ELSE End(t)
From(i) == IF i = 1 THEN 0 ELSE After(tokens[i - 1])

\* The texts this covers: characters the lexer knows, "\n" line ends, no quote glued
\* to a word, no empty comment with a line after it.
Regular ==
  /\ \A i \in 1..Len(text) :
       /\ text[i] \in WhiteSpace \cup IdentChars \cup Punctuation \cup {Quote}
       /\ text[i] # "\r"
  /\ \A i \in 1..Len(text) - 1 : ~(text[i] \in IdentChars /\ text[i + 1] = Quote)
  /\ \A i \in 1..Len(text) - 2 : ~(text[i] = "/" /\ text[i + 1] = "/" /\ text[i + 2] = "\n")

\* The lexer's tokens are those of the text, one after the other, with their kinds,
\* spans, contents and white space flags; it returns when there are no more, and
\* reports an error only where there is none.
LexesTheText ==
  Regular =>
    /\ \A i \in 1..Len(tokens) :
         \E q, e \in 0..Len(text) :
           IsLexeme(From(i), q, e) /\ tokens[i] = Token(From(i), q, e) /\ After(tokens[i]) = e
    /\ status = "done" => All(From(Len(tokens) + 1), Len(text), WhiteSpace)
    /\ status = "error" =>
         \A q, e \in 0..Len(text) : ~IsLexeme(From(Len(tokens) + 1), q, e)
=============================================================================
