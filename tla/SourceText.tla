----------------------------- MODULE SourceText -----------------------------
(***************************************************************************)
(* A source file as the rest of the compiler sees it (Source in            *)
(* src/k1/parse.rs): its lines, found once when the file is read, and the  *)
(* two ways a span is used: to find its line and to read its characters.   *)
(* The spans are those the lexer gives the tokens of the same text.        *)
(***************************************************************************)
EXTENDS Lexer, FiniteSetsExt

-----------------------------------------------------------------------------
(* Source::make: one loop over the characters of the content.                *)

Width(c) == IF c = "wide" THEN 2 ELSE 1

\* String::len, in bytes.
Bytes(chars) == Len(chars) + Cardinality({i \in 1..Len(chars) : Width(chars[i]) = 2})

\* The line in the buffer ends before character i, which has index i - 1.  The
\* subtraction is done on unsigned integers: a negative start is a panic.
PushLine(acc, i) ==
  [acc EXCEPT !.lines = Append(@, [start |-> i - 1 - Bytes(acc.buf),
                                   index |-> Len(acc.lines),
                                   content |-> acc.buf]),
              !.buf = <<>>]

Feed(acc, i) ==
  CASE acc.skip -> [acc EXCEPT !.skip = FALSE]
    [] ~acc.skip /\ text[i] = "\n" -> PushLine(acc, i)
    [] ~acc.skip /\ text[i] = "\r" /\ i < Len(text) /\ text[i + 1] = "\n" ->
         [PushLine(acc, i) EXCEPT !.skip = TRUE]
    [] OTHER -> [acc EXCEPT !.buf = Append(@, text[i])]

Empty == [buf |-> <<>>, lines |-> <<>>, skip |-> FALSE]

\* What the loop has after each character.  What the buffer holds at the end of the
\* text is dropped.
Fed ==
  LET fed[i \in 0..Len(text)] == IF i = 0 THEN Empty ELSE Feed(fed[i - 1], i)
  IN fed
Lines == Fed[Len(text)].lines

-----------------------------------------------------------------------------
(* Using a span.                                                             *)

EndChar(l) == l.start + Bytes(l.content)

\* Fault: a span at the start of a line is not taken to be in it.
LineForSpan_Exclusive(start) ==
  LET hits == {i \in 1..Len(Lines) : Lines[i].start < start /\ EndChar(Lines[i]) >= start}
  IN IF hits = {} THEN 0 ELSE CHOOSE i \in hits : \A j \in hits : i <= j

\* get_line_for_span: the first line that reaches the start; 0 for None.
LineForSpan(start) ==
  LET hits == {i \in 1..Len(Lines) : Lines[i].start <= start /\ EndChar(Lines[i]) >= start}
  IN IF hits = {} THEN 0 ELSE CHOOSE i \in hits : \A j \in hits : i <= j

\* get_content slices the bytes of the content.  A slice outside of it or one that
\* cuts a character in two is a panic.
Offset(n) == Bytes(SubSeq(text, 1, n))

Cut(from, to) ==
  IF {from, to} \subseteq {Offset(n) : n \in 0..Len(text)} /\ from <= to
  THEN LET place(o) == CHOOSE n \in 0..Len(text) : Offset(n) = o
       IN Slice(place(from), place(to))
  ELSE <<"panic">>

\* Fault: the second argument is taken for the end.
Content_EndNotLength(start, len) == Cut(start, len)

Content(start, len) == Cut(start, start + len)

-----------------------------------------------------------------------------
(* Properties.                                                               *)

\* The tokens the parser gets.
Parsed == {i \in 1..Len(tokens) : tokens[i].kind # "comment"}

\* Texts whose last line has a line end; and texts of characters the lexer knows
\* where no quote follows a word.
Ended == text = <<>> \/ text[Len(text)] = "\n"
Quotable ==
  /\ \A i \in 1..Len(text) : ~Unknown(text[i])
  /\ \A i \in 1..Len(text) - 1 : ~(text[i] \in IdentChars /\ text[i + 1] = Quote)

\* Lines are the pieces between line ends, each with the place of its first
\* character and its number.
LineEnds == {i \in 1..Len(text) : text[i] = "\n"}
Before(i) == {j \in LineEnds : j < i}

LinesAreTheTextsLines ==
  status = "done" =>
  /\ Len(Lines) = Cardinality(LineEnds)
  /\ \A i \in LineEnds :
       LET line0 == Cardinality(Before(i))
           first == IF Before(i) = {} THEN 1 ELSE Max(Before(i)) + 1
           last == IF i > first /\ text[i - 1] = "\r" THEN i - 2 ELSE i - 1
       IN Lines[line0 + 1] = [start |-> first - 1, index |-> line0,
                              content |-> SubSeq(text, first, last)]

\* The line found for a token is the line it starts on, so an error is shown
\* below its own line, at its number.  Only the span of a string over a line end may
\* start at the line end.
TokensOnTheirLine ==
  status = "done" /\ Ended => \A i \in Parsed :
    At(tokens[i].start) # "\n" =>
      LET l == LineForSpan(tokens[i].start)
      IN l # 0 /\ Lines[l].index = Cardinality(Before(tokens[i].start + 1))

\* Reading a word's or a string's span gives the characters the lexer collected
\* for it, unless there is a line end among them: this is how the parser gets at
\* the name of an identifier.
TokensReadBack ==
  status = "done" /\ Quotable => \A i \in Parsed :
    /\ tokens[i].kind \in {"ident", "keyword", "string"}
    /\ Free(tokens[i].start, End(tokens[i]), "\n")
    => Content(tokens[i].start, tokens[i].len) = tokens[i].text

\* Every token has a line.
TokensHaveALine == status = "done" => \A i \in Parsed : LineForSpan(tokens[i].start) # 0
=============================================================================
