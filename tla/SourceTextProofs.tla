-------------------------- MODULE SourceTextProofs --------------------------
(***************************************************************************)
(* Where the tokens of a text lie, for every set of texts over any         *)
(* alphabet and every set of keywords; and the characters and the line     *)
(* that the rest of the compiler finds for them.                           *)
(***************************************************************************)
EXTENDS SourceText, FiniteSetTheorems, SequenceTheorems, WellFoundedInduction, TLAPS

-----------------------------------------------------------------------------
(* The lexer.                                                                *)

\* The first position the token being read can start at: everything produced so
\* far ends at or before it.
Floor == IF mode \in {"plain", "string"} THEN pos - Len(buf) ELSE mark

\* What each loop of eat_token knows of its position: outside strings, the
\* characters in the buffer are inside the text; a comment has read at least its
\* three characters and at most one past the end; a character literal has not
\* counted more than it has read.
LoopsInText ==
  /\ Len(buf) <= pos
  /\ mode \in {"comment", "char"} => buf = <<>>
  /\ mode = "plain" /\ buf # <<>> => pos <= Len(text)
  /\ mode = "comment" => mark + 3 <= pos /\ pos <= Len(text) + 1
  /\ mode = "char" => mark + count <= pos /\ count >= 1

TokensBelowFloor == \A i \in 1..Len(tokens) : End(tokens[i]) <= Floor

\* The inductive invariant.
IInv ==
  /\ TypeOK
  /\ LoopsInText
  /\ TokensBelowFloor
  /\ SpansInOrder
  /\ SpansInText

(* Reading a text the definition of tokens covers.                           *)

\* Where the current call of eat_token has started, and where its lexeme does.
Call == From(Len(tokens) + 1)
Start == IF mode = "string" THEN pos - Len(buf) - 1 ELSE Floor

\* What a loop has read of a lexeme that starts at start, up to place p.
Progress(loop, start, p, chars, n) ==
  /\ loop = "plain" =>
       /\ p <= Len(text) /\ chars = Slice(start, p) /\ All(start, p, IdentChars)
       /\ ~(start + 2 <= p /\ At(start) = Underscore /\ At(start + 1) = Underscore)
  /\ loop = "comment" =>
       /\ start + 3 <= p /\ (p <= Len(text) \/ p = start + 3)
       /\ At(start) = "/" /\ At(start + 1) = "/" /\ Free(start, p, "\n")
  /\ loop = "string" =>
       /\ start < p /\ At(start) = Quote
       /\ Free(start + 1, p, Quote) /\ Free(start + 1, p, "\n")
       /\ p <= Len(text) => chars = Slice(start + 1, p)
  /\ loop = "char" =>
       start < p /\ At(start) = "'" /\ Free(start + 1, p, "'") /\ n = p - start

InProgress ==
  /\ Call <= Start /\ All(Call, Start, WhiteSpace)
  /\ Progress(mode, Start, pos, buf, count)

\* An empty comment at the end of the text is read a place too far.
PastTheEnd ==
  mode = "plain" /\ buf = <<>> /\ Call = Len(text) /\ pos = Len(text) + 1

TokensSoFar ==
  \A i \in 1..Len(tokens) :
    \E q, e \in 0..Len(text) :
      IsLexeme(From(i), q, e) /\ tokens[i] = Token(From(i), q, e) /\ After(tokens[i]) = e

Reading ==
  /\ TokensSoFar
  /\ Call \in 0..Len(text)
  /\ ws = (At(Call) \in WhiteSpace)
  /\ InProgress \/ PastTheEnd
  /\ status = "done" => All(Call, Len(text), WhiteSpace)
  /\ status = "error" => \A q, e \in 0..Len(text) : ~IsLexeme(Call, q, e)

LInv == IInv /\ (Regular => Reading)

LEMMA CharacterRead ==
  ASSUME TypeOK, NEW p \in Nat
  PROVE  At(p) \in Characters /\ (At(p) # EOF => p < Len(text))
  BY LexerAssumption DEF At, TypeOK

\* Where Lexer.next leaves the position.
LEMMA StepAdvances ==
  ASSUME TypeOK, NEW p \in Nat
  PROVE  \E q \in Nat : /\ Step(p) = q
                        /\ p + 1 <= q
                        /\ At(p) # "\r" => q = p + 1
                        /\ q <= Len(text) \/ q = p + 1
  <1>1. Len(text) \in Nat
    BY DEF TypeOK
  <1>2. CASE At(p) = "\r" /\ At(p + 1) = "\n"
    <2>1. p + 1 < Len(text)
      BY <1>1, <1>2 DEF At, EOF
    <2>2. Step(p) = p + 2
      BY <1>2 DEF Step
    <2> QED
      BY <1>1, <1>2, <2>1, <2>2
  <1>3. CASE ~(At(p) = "\r" /\ At(p + 1) = "\n")
    <2>1. Step(p) = p + 1
      BY <1>3 DEF Step
    <2> QED
      BY <2>1
  <1> QED
    BY <1>2, <1>3

LEMMA AdvanceMoves ==
  ASSUME TypeOK, Advance
  PROVE  \E p, l \in Nat : /\ pos' = p /\ line' = l
                           /\ pos + 1 <= p
                           /\ Peek # "\r" => p = pos + 1
                           /\ Peek # EOF => pos < Len(text) /\ p <= Len(text)
  <1>1. pos \in Nat /\ line \in Nat /\ Len(text) \in Nat
    BY DEF TypeOK
  <1>2. PICK p \in Nat :
                        /\ Step(pos) = p
                        /\ pos + 1 <= p
                        /\ At(pos) # "\r" => p = pos + 1
                        /\ p <= Len(text) \/ p = pos + 1
    BY <1>1, StepAdvances
  <1>3. PICK l \in Nat : line' = l
    BY <1>1 DEF Advance, Newline
  <1>4. Peek # EOF => pos < Len(text)
    BY <1>1, CharacterRead DEF Peek
  <1>5. pos' = p /\ (Peek # "\r" => p = pos + 1)
    BY <1>2 DEF Advance, Peek
  <1>6. Peek # EOF => p <= Len(text)
    BY <1>1, <1>2, <1>4
  <1> QED
    BY <1>2, <1>3, <1>4, <1>5, <1>6

LEMMA TokenFields ==
  ASSUME NEW u \in Tokens
  PROVE  u.start \in Nat /\ u.len \in Nat /\ End(u) = u.start + u.len /\ End(u) \in Nat
  <1>1. u.start \in Nat /\ u.len \in Nat
    BY DEF Tokens
  <1> QED
    BY <1>1 DEF End

\* Emitting a token that starts at or after the floor and ends inside the text,
\* at or before the position the next call starts at, keeps the invariant.
LEMMA EmitKeeps ==
  ASSUME IInv, NEW kind \in Kinds, NEW start \in Nat, NEW len \in Nat,
         Emit(kind, start, len), NEW p \in Nat, pos' = p, line' \in Nat,
         Floor <= start, start + len <= p, start + len <= Len(text)
  PROVE  IInv'
  <1> DEFINE t == [kind |-> kind, start |-> start, len |-> len, ws |-> ws, text |-> buf]
  <1>1. t \in Tokens /\ End(t) = start + len /\ t.start = start
    BY DEF Tokens, IInv, TypeOK, End
  <1>2. /\ tokens' = Append(tokens, t) /\ tokens \in Seq(Tokens)
        /\ buf' = <<>> /\ mode' = "plain" /\ UNCHANGED <<text, mark, count, status>>
    BY DEF Emit, IInv, TypeOK
  <1>3. /\ Len(tokens') = Len(tokens) + 1
        /\ \A i \in 1..Len(tokens) : tokens'[i] = tokens[i] /\ tokens[i] \in Tokens
        /\ tokens'[Len(tokens) + 1] = t
        /\ tokens' \in Seq(Tokens)
        /\ Len(tokens) \in Nat
    BY <1>1, <1>2
  <1> HIDE DEF t
  <1>4. TypeOK'
    BY <1>2, <1>3 DEF TypeOK, IInv, Modes, Emit, At
  <1>5. LoopsInText' /\ Floor' = p
    <2>1. Len(buf') = 0 /\ mode' = "plain" /\ buf' = <<>>
      BY <1>2
    <2>2. LoopsInText'
      BY <2>1 DEF LoopsInText
    <2>3. Floor' = p
      BY <2>1 DEF Floor
    <2> QED
      BY <2>2, <2>3
  <1>6. \A i \in 1..Len(tokens) : End(tokens[i]) <= start /\ End(tokens[i]) <= Len(text)
    <2>1. Floor \in Int /\ Len(text) \in Nat
      BY DEF IInv, TypeOK, Floor
    <2> SUFFICES ASSUME NEW i \in 1..Len(tokens)
                 PROVE  End(tokens[i]) <= start /\ End(tokens[i]) <= Len(text)
      OBVIOUS
    <2>2. End(tokens[i]) \in Nat
      BY <1>3, TokenFields
    <2>3. End(tokens[i]) <= Floor /\ End(tokens[i]) <= Len(text)
      BY DEF IInv, TokensBelowFloor, SpansInText
    <2> QED
      BY <2>1, <2>2, <2>3
  <1>7. TokensBelowFloor'
    <2> SUFFICES ASSUME NEW i \in 1..Len(tokens') PROVE End(tokens'[i]) <= p
      BY <1>5 DEF TokensBelowFloor, End
    <2>1. CASE i \in 1..Len(tokens)
      <3>1. tokens'[i] = tokens[i] /\ End(tokens[i]) <= start /\ End(tokens[i]) \in Nat
        <4>1. tokens'[i] = tokens[i] /\ tokens[i] \in Tokens /\ End(tokens[i]) <= start
          BY <1>3, <1>6, <2>1
        <4> QED
          BY <4>1, TokenFields
      <3> QED
        BY <3>1, <1>1
    <2>2. CASE i = Len(tokens) + 1
      BY <1>1, <1>3, <2>2
    <2> QED
      BY <1>3, <2>1, <2>2
  <1>8. SpansInOrder'
    <2> SUFFICES ASSUME NEW i \in 1..Len(tokens'), NEW j \in 1..Len(tokens'), i < j
                 PROVE  End(tokens'[i]) <= tokens'[j].start
      BY DEF SpansInOrder, End
    <2>1. CASE j \in 1..Len(tokens)
      <3>1. i \in 1..Len(tokens) /\ tokens'[i] = tokens[i] /\ tokens'[j] = tokens[j]
        BY <1>3, <2>1
      <3>2. End(tokens[i]) <= tokens[j].start
        BY <2>1, <3>1 DEF SpansInOrder, IInv
      <3> QED
        BY <3>1, <3>2
    <2>2. CASE j = Len(tokens) + 1
      BY <1>1, <1>3, <1>6, <2>2 DEF End
    <2> QED
      BY <1>3, <2>1, <2>2
  <1>9. SpansInText'
    <2> SUFFICES ASSUME NEW i \in 1..Len(tokens') PROVE End(tokens'[i]) <= Len(text)
      BY <1>2 DEF SpansInText, End
    <2>1. CASE i \in 1..Len(tokens)
      BY <1>3, <1>6, <2>1 DEF End
    <2>2. CASE i = Len(tokens) + 1
      BY <1>1, <1>3, <2>2
    <2> QED
      BY <1>3, <2>1, <2>2
  <1> QED
    BY <1>4, <1>5, <1>7, <1>8, <1>9 DEF IInv

\* A step that produces no token keeps the invariant if it does not move the
\* floor back.
LEMMA QuietKeeps ==
  ASSUME IInv, UNCHANGED <<text, tokens>>, TypeOK', LoopsInText', Floor <= Floor'
  PROVE  IInv'
  <1>1. Floor \in Int /\ Floor' \in Int
    BY DEF IInv, TypeOK, Floor
  <1>2. TokensBelowFloor'
    <2> SUFFICES ASSUME NEW i \in 1..Len(tokens) PROVE End(tokens[i]) <= Floor'
      BY DEF TokensBelowFloor, End
    <2>1. tokens[i] \in Tokens
      BY DEF IInv, TypeOK
    <2> QED
      BY <1>1, <2>1 DEF IInv, TokensBelowFloor, End, Tokens
  <1>3. SpansInOrder' /\ SpansInText'
    BY DEF IInv, SpansInOrder, SpansInText, End
  <1> QED
    BY <1>2, <1>3 DEF IInv

LEMMA InitIInv == Init => IInv
  BY LexerAssumption
  DEF Init, IInv, TypeOK, LoopsInText, TokensBelowFloor, SpansInOrder, SpansInText, Modes, At

\* The iterations that produce a token.
LEMMA EmittingStep ==
  ASSUME IInv, Iterate, tokens' # tokens
  PROVE  IInv'
  <1>0. /\ TypeOK /\ LoopsInText
        /\ pos \in Nat /\ line \in Nat /\ mark \in Nat /\ count \in Nat
        /\ Len(text) \in Nat /\ Len(buf) \in Nat
        /\ buf # <<>> \/ Len(buf) = 0
    BY DEF IInv, TypeOK
  <1>1. CASE CommentEnd
    <2>1. mark + 3 <= pos /\ pos <= Len(text) + 1 /\ Floor = mark
      BY <1>0, <1>1 DEF CommentEnd, LoopsInText, Floor
    <2>2. Emit("comment", mark, pos - mark - 1) /\ pos' = pos /\ line' = line
      BY <1>1 DEF CommentEnd, Stay
    <2>3. pos - mark - 1 \in Nat /\ "comment" \in Kinds
      BY <1>0, <2>1 DEF Kinds
    <2> QED
      BY <1>0, <2>1, <2>2, <2>3, EmitKeeps
  <1>2. CASE StringEnd
    <2>1. PICK p, l \in Nat : /\ pos' = p /\ line' = l
                              /\ pos + 1 <= p
                              /\ Peek # "\r" => p = pos + 1
                              /\ Peek # EOF => pos < Len(text) /\ p <= Len(text)
      BY <1>0, <1>2, AdvanceMoves DEF StringEnd
    <2>2. pos < Len(text)
      BY <1>2, <2>1 DEF StringEnd, EOF, Quote
    <2>3. Emit("string", pos - Len(buf), Len(buf)) /\ Floor = pos - Len(buf)
      BY <1>2 DEF StringEnd, EmitWord, Floor
    <2>4. pos - Len(buf) \in Nat /\ "string" \in Kinds
      BY <1>0 DEF LoopsInText, Kinds
    <2> QED
      BY <1>0, <2>1, <2>2, <2>3, <2>4, EmitKeeps
  <1>3. CASE EndOfText \/ WordBeforePunctuation \/ WordBeforeSpace \/ KeywordBeforeUnknown
    \* The words: all leave the position at the character after them.
    <2>1. /\ Plain /\ pos' = pos /\ line' = line
          /\ \E kind \in {"ident", "keyword"} : EmitWord(kind)
      BY <1>3
      DEF EndOfText, WordBeforePunctuation, WordBeforeSpace, KeywordBeforeUnknown, Stay,
          WordKind
    <2>2. PICK kind \in {"ident", "keyword"} : Emit(kind, pos - Len(buf), Len(buf))
      BY <2>1 DEF EmitWord
    <2>3. pos - Len(buf) \in Nat /\ Floor = pos - Len(buf) /\ kind \in Kinds
      BY <1>0, <2>1 DEF LoopsInText, Kinds, Floor, Plain
    <2>4. pos <= Len(text)
      <3>1. CASE KeywordBeforeUnknown
        <4>1. At(pos) # EOF
          BY <3>1 DEF KeywordBeforeUnknown, Unknown, Peek
        <4>2. pos < Len(text)
          BY <1>0, <4>1, CharacterRead
        <4> QED
          BY <1>0, <4>2
      <3>2. CASE EndOfText \/ WordBeforePunctuation \/ WordBeforeSpace
        <4>1. buf # <<>>
          BY <3>2 DEF EndOfText, WordBeforePunctuation, WordBeforeSpace
        <4> QED
          BY <1>0, <2>1, <4>1 DEF LoopsInText, Plain
      <3> QED
        BY <1>3, <3>1, <3>2
    <2> QED
      BY <1>0, <2>1, <2>2, <2>3, <2>4, EmitKeeps
  <1>4. CASE CharEnd
    <2>1. PICK p, l \in Nat : /\ pos' = p /\ line' = l
                              /\ pos + 1 <= p
                              /\ Peek # "\r" => p = pos + 1
                              /\ Peek # EOF => pos < Len(text) /\ p <= Len(text)
      BY <1>0, <1>4, AdvanceMoves DEF CharEnd
    <2>2. pos < Len(text)
      BY <1>4, <2>1 DEF CharEnd, EOF
    <2>3. Emit("char", mark, count + 1) /\ Floor = mark /\ mark + count <= pos
      BY <1>0, <1>4 DEF CharEnd, LoopsInText, Floor
    <2>4. count + 1 \in Nat /\ "char" \in Kinds
      BY <1>0 DEF Kinds
    <2> QED
      BY <1>0, <2>1, <2>2, <2>3, <2>4, EmitKeeps
  <1>5. CASE TwoCharToken
    <2>1. pos + 1 < Len(text)
      BY <1>0, <1>5, CharacterRead DEF TwoCharToken, Peek2, EOF
    <2>2. TwoCharKind(Peek) \in Kinds
      <3>1. Peek = "=" \/ Peek = "!" \/ Peek = "<" \/ Peek = ">"
        BY <1>5 DEF TwoCharToken
      <3> QED
        BY <3>1 DEF TwoCharKind, Kinds
    <2>3. /\ Emit(TwoCharKind(Peek), pos, 2) /\ pos' = pos + 2 /\ line' = line
          /\ Floor = pos - Len(buf) /\ buf = <<>>
      BY <1>5 DEF TwoCharToken, Plain, Floor
    <2> QED
      BY <1>0, <2>1, <2>2, <2>3, EmitKeeps
  <1>6. CASE OneCharToken
    <2>1. PICK p, l \in Nat : /\ pos' = p /\ line' = l
                              /\ pos + 1 <= p
                              /\ Peek # "\r" => p = pos + 1
                              /\ Peek # EOF => pos < Len(text) /\ p <= Len(text)
      BY <1>0, <1>6, AdvanceMoves DEF OneCharToken
    <2>2. pos < Len(text)
      BY <1>6, <2>1 DEF OneCharToken, Punctuation, EOF
    <2>3. Emit(Peek, pos, 1) /\ Floor = pos - Len(buf) /\ buf = <<>> /\ Peek \in Kinds
      BY <1>6 DEF OneCharToken, Plain, Floor, Kinds
    <2> QED
      BY <1>0, <2>1, <2>2, <2>3, EmitKeeps
  <1> QED
    BY <1>1, <1>2, <1>3, <1>4, <1>5, <1>6
    DEF Iterate, OpenComment, CommentChar, OpenString, StringChar, StringNewline, Fail,
        OpenChar, CharChar, IdentChar, LeadingUnderscores, Skip

\* The iterations that only move on.
LEMMA QuietStep ==
  ASSUME IInv, Iterate, tokens' = tokens
  PROVE  IInv'
  <1>0. /\ TypeOK /\ LoopsInText
        /\ pos \in Nat /\ line \in Nat /\ mark \in Nat /\ count \in Nat
        /\ Len(text) \in Nat /\ Len(buf) \in Nat
        /\ buf # <<>> \/ Len(buf) = 0
    BY DEF IInv, TypeOK
  <1>a. Peek \in Characters
    BY <1>0, CharacterRead DEF Peek
  <1>1. CASE OpenComment
    <2>1. pos + 2 <= Len(text)
      BY <1>0, <1>1, CharacterRead DEF OpenComment, Peek2, EOF
    <2>2. PICK p \in Nat : pos' = p /\ pos + 3 <= p /\ p <= Len(text) + 1
      <3>1. pos + 2 \in Nat
        BY <1>0
      <3>2. PICK q \in Nat : Step(pos + 2) = q /\ pos + 2 + 1 <= q
                             /\ (q <= Len(text) \/ q = pos + 2 + 1)
        BY <1>0, <3>1, StepAdvances
      <3> QED
        BY <1>0, <1>1, <2>1, <3>2 DEF OpenComment
    <2>3. TypeOK'
      BY <1>0, <1>1, <2>2 DEF OpenComment, TypeOK, Modes, Newline
    <2>4. LoopsInText'
      BY <1>0, <1>1, <2>2 DEF OpenComment, LoopsInText
    <2>5. Floor <= Floor'
      BY <1>0, <1>1 DEF OpenComment, Plain, Floor
    <2> QED
      BY <1>1, <2>3, <2>4, <2>5, QuietKeeps DEF OpenComment
  <1>2. CASE CommentChar
    <2>1. PICK p, l \in Nat : /\ pos' = p /\ line' = l
                              /\ pos + 1 <= p
                              /\ Peek # "\r" => p = pos + 1
                              /\ Peek # EOF => pos < Len(text) /\ p <= Len(text)
      BY <1>0, <1>2, AdvanceMoves DEF CommentChar
    <2>2. TypeOK'
      BY <1>0, <1>a, <1>2, <2>1 DEF CommentChar, TypeOK, Modes
    <2>3. LoopsInText'
      BY <1>0, <1>2, <2>1 DEF CommentChar, Plain, LoopsInText, EOF
    <2>4. Floor <= Floor'
      BY <1>0, <1>2, <2>1 DEF CommentChar, Plain, LoopsInText, Floor
    <2> QED
      BY <1>2, <2>2, <2>3, <2>4, QuietKeeps DEF CommentChar
  <1>3. CASE OpenString
    <2>1. PICK p, l \in Nat : /\ pos' = p /\ line' = l
                              /\ pos + 1 <= p
                              /\ Peek # "\r" => p = pos + 1
                              /\ Peek # EOF => pos < Len(text) /\ p <= Len(text)
      BY <1>0, <1>3, AdvanceMoves DEF OpenString
    <2>a. /\ buf' = buf /\ Len(buf') = Len(buf) /\ mode = "plain" /\ mode' = "string"
          /\ text' = text /\ mark' = mark /\ count' = count
      BY <1>3 DEF OpenString, Plain
    <2>2. TypeOK'
      BY <1>0, <1>a, <1>3, <2>1 DEF OpenString, TypeOK, Modes
    <2>3. LoopsInText'
      BY <1>0, <2>1, <2>a DEF LoopsInText, EOF
    <2>4. Floor <= Floor'
      BY <1>0, <2>1, <2>a DEF LoopsInText, Floor
    <2> QED
      BY <1>3, <2>2, <2>3, <2>4, QuietKeeps DEF OpenString
  <1>4. CASE StringChar
    <2>1. PICK p, l \in Nat : /\ pos' = p /\ line' = l
                              /\ pos + 1 <= p
                              /\ Peek # "\r" => p = pos + 1
                              /\ Peek # EOF => pos < Len(text) /\ p <= Len(text)
      BY <1>0, <1>4, AdvanceMoves DEF StringChar
    <2>a. PICK c \in Characters : buf' = Append(buf, c)
      BY <1>a, <1>4 DEF StringChar
    <2>b. buf' \in Seq(Characters) /\ Len(buf') = Len(buf) + 1
      BY <1>0, <2>a DEF TypeOK
    <2>c. mode' = mode /\ text' = text /\ mark' = mark /\ count' = count
      BY <1>4 DEF StringChar
    <2>d. mode = "string" /\ Len(buf) <= pos
      BY <1>0, <1>4 DEF StringChar, LoopsInText
    <2>2. TypeOK'
      BY <1>0, <1>a, <1>4, <2>1, <2>b, <2>c DEF StringChar, TypeOK, Modes
    <2>3. LoopsInText'
      BY <1>0, <2>1, <2>b, <2>c, <2>d DEF LoopsInText
    <2>4. Floor <= Floor'
      <3>1. Floor' = p - Len(buf') /\ Floor = pos - Len(buf)
        BY <2>1, <2>c, <2>d DEF Floor
      <3> QED
        BY <1>0, <2>1, <2>b, <3>1
    <2> QED
      BY <1>4, <2>2, <2>3, <2>4, QuietKeeps DEF StringChar
  <1>5. CASE StringNewline \/ LeadingUnderscores \/ EndOfText
    <2>1. UNCHANGED <<text, pos, line, mode, buf, mark, count, ws, tokens>>
      <3>1. \A t : Append(tokens, t) # tokens
        <4>1. tokens \in Seq(Tokens)
          BY <1>0 DEF TypeOK
        <4> QED
          BY <4>1
      <3> QED
        BY <1>5, <3>1 DEF StringNewline, LeadingUnderscores, EndOfText, Fail, EmitWord, Emit
    <2>2. status' \in {"run", "done", "error"}
      BY <1>0, <1>5 DEF StringNewline, LeadingUnderscores, EndOfText, Fail, EmitWord, Emit, TypeOK
    <2> QED
      BY <1>0, <2>1, <2>2, QuietKeeps DEF TypeOK, LoopsInText, Floor
  <1>6. CASE OpenChar
    <2>1. PICK p, l \in Nat : /\ pos' = p /\ line' = l
                              /\ pos + 1 <= p
                              /\ Peek # "\r" => p = pos + 1
                              /\ Peek # EOF => pos < Len(text) /\ p <= Len(text)
      BY <1>0, <1>6, AdvanceMoves DEF OpenChar
    <2>2. TypeOK'
      BY <1>0, <1>a, <1>6, <2>1 DEF OpenChar, TypeOK, Modes
    <2>3. LoopsInText'
      BY <1>0, <1>6, <2>1 DEF OpenChar, Plain, LoopsInText
    <2>4. Floor <= Floor'
      BY <1>0, <1>6, <2>1 DEF OpenChar, Plain, LoopsInText, Floor
    <2> QED
      BY <1>6, <2>2, <2>3, <2>4, QuietKeeps DEF OpenChar
  <1>7. CASE CharChar
    <2>1. PICK p, l \in Nat : /\ pos' = p /\ line' = l
                              /\ pos + 1 <= p
                              /\ Peek # "\r" => p = pos + 1
                              /\ Peek # EOF => pos < Len(text) /\ p <= Len(text)
      BY <1>0, <1>7, AdvanceMoves DEF CharChar
    <2>2. TypeOK'
      BY <1>0, <1>a, <1>7, <2>1 DEF CharChar, TypeOK, Modes
    <2>3. LoopsInText'
      BY <1>0, <1>7, <2>1 DEF CharChar, Plain, LoopsInText
    <2>4. Floor <= Floor'
      BY <1>0, <1>7, <2>1 DEF CharChar, Plain, LoopsInText, Floor
    <2> QED
      BY <1>7, <2>2, <2>3, <2>4, QuietKeeps DEF CharChar
  <1>9. CASE IdentChar
    <2>1. PICK p, l \in Nat : /\ pos' = p /\ line' = l
                              /\ pos + 1 <= p
                              /\ Peek # "\r" => p = pos + 1
                              /\ Peek # EOF => pos < Len(text) /\ p <= Len(text)
      BY <1>0, <1>9, AdvanceMoves DEF IdentChar
    <2>a. PICK c \in Characters : buf' = Append(buf, c)
      BY <1>a, <1>9 DEF IdentChar
    <2>b. buf' \in Seq(Characters) /\ Len(buf') = Len(buf) + 1
      BY <1>0, <2>a DEF TypeOK
    <2>c. mode' = mode /\ text' = text /\ mark' = mark /\ count' = count
      BY <1>9 DEF IdentChar
    <2>d. mode = "plain" /\ Len(buf) <= pos /\ p = pos + 1 /\ p <= Len(text)
      BY <1>0, <1>9, <2>1 DEF IdentChar, IdentChars, EOF, Underscore, Plain, LoopsInText
    <2>2. TypeOK'
      BY <1>0, <1>a, <1>9, <2>1, <2>b, <2>c DEF IdentChar, TypeOK, Modes
    <2>3. LoopsInText'
      BY <1>0, <2>1, <2>b, <2>c, <2>d DEF LoopsInText
    <2>4. Floor <= Floor'
      <3>1. Floor' = p - Len(buf') /\ Floor = pos - Len(buf)
        BY <2>1, <2>c, <2>d DEF Floor
      <3> QED
        BY <1>0, <2>1, <2>b, <3>1
    <2> QED
      BY <1>9, <2>2, <2>3, <2>4, QuietKeeps DEF IdentChar
  <1>10. CASE Skip
    <2>1. PICK p, l \in Nat : /\ pos' = p /\ line' = l
                              /\ pos + 1 <= p
                              /\ Peek # "\r" => p = pos + 1
                              /\ Peek # EOF => pos < Len(text) /\ p <= Len(text)
      BY <1>0, <1>10, AdvanceMoves DEF Skip
    <2>2. TypeOK'
      BY <1>0, <1>10, <2>1 DEF Skip, TypeOK
    <2>3. LoopsInText'
      <3>1. CASE Unknown(Peek)
        <4>1. Peek # EOF /\ Peek # "\r"
          BY <3>1 DEF Unknown, WhiteSpace
        <4> QED
          BY <1>0, <1>10, <2>1, <4>1 DEF Skip, Plain, LoopsInText
      <3>2. CASE buf = <<>>
        BY <1>0, <1>10, <2>1, <3>2 DEF Skip, Plain, LoopsInText
      <3> QED
        BY <1>10, <3>1, <3>2 DEF Skip
    <2>4. Floor <= Floor'
      BY <1>0, <1>10, <2>1 DEF Skip, Plain, Floor
    <2> QED
      BY <1>10, <2>2, <2>3, <2>4, QuietKeeps DEF Skip
  <1>11. CASE CommentEnd \/ StringEnd \/ CharEnd \/ WordBeforePunctuation
              \/ WordBeforeSpace \/ TwoCharToken \/ OneCharToken \/ KeywordBeforeUnknown
    \* These produce a token: tokens cannot be unchanged.
    <2>1. PICK t : tokens' = Append(tokens, t)
      BY <1>11
      DEF CommentEnd, StringEnd, CharEnd, WordBeforePunctuation, WordBeforeSpace,
          TwoCharToken, OneCharToken, KeywordBeforeUnknown, EmitWord, Emit
    <2>2. Len(tokens') = Len(tokens) + 1 /\ Len(tokens) \in Nat
      BY <1>0, <2>1 DEF TypeOK
    <2> QED
      BY <2>2
  <1> QED
    BY <1>1, <1>2, <1>3, <1>4, <1>5, <1>6, <1>7, <1>9, <1>10, <1>11 DEF Iterate

LEMMA NextIInv == IInv /\ [Next]_vars => IInv'
  <1> SUFFICES ASSUME IInv, [Next]_vars PROVE IInv'
    OBVIOUS
  <1>1. CASE Iterate
    BY <1>1, EmittingStep, QuietStep
  <1>2. CASE UNCHANGED vars
    BY <1>2, QuietKeeps DEF vars, IInv, TypeOK, LoopsInText, Floor
  <1> QED
    BY <1>1, <1>2 DEF Next, Finished, Runaway

THEOREM IInvHolds == Spec => []IInv
  BY InitIInv, NextIInv, PTL DEF Spec

\* Every variable of the lexer keeps its type: no span starts before the text.
THEOREM TypeCorrect == Spec => []TypeOK
  <1>1. IInv => TypeOK
    BY DEF IInv
  <1> QED
    BY <1>1, IInvHolds, PTL

\* Whatever the text, the spans of run's tokens do not overlap, follow the text and
\* end inside of it: Span::extended (lex.rs) never sees an end before its own, and
\* get_content (parse.rs) no slice out of range.
THEOREM TokensCutTheText == Spec => []SpansCutTheText
  <1>1. IInv => SpansCutTheText
    BY DEF IInv, SpansCutTheText
  <1> QED
    BY <1>1, IInvHolds, PTL
-----------------------------------------------------------------------------
(* The characters of a text the definition of tokens covers.                 *)

\* The classes of characters have no character in common.
LEMMA Classes ==
  /\ \A c \in WhiteSpace : c \notin IdentChars /\ c \notin Punctuation /\ c # Quote /\ c # EOF
  /\ \A c \in IdentChars : c \notin Punctuation /\ c # Quote /\ c # EOF
  /\ Quote \notin Punctuation /\ EOF \notin Punctuation /\ EOF # Quote /\ "\n" \in WhiteSpace
  /\ \A c \in {"/", "'", "=", "!", "<", ">"} :
       c \in Punctuation /\ c # Quote /\ c # Underscore
  /\ Quote # Underscore /\ Underscore \in IdentChars /\ Quote # "\n"
  /\ \A c \in Punctuation : c \notin {"none", "word", "string", "comment"} /\ c # Underscore
  BY DEF WhiteSpace, IdentChars, Punctuation, EOF, Quote, Underscore

LEMMA RegularCharacters ==
  ASSUME TypeOK, Regular, NEW p \in Nat
  PROVE  /\ p < Len(text) => /\ At(p) \in WhiteSpace \cup IdentChars \cup Punctuation \cup {Quote}
                             /\ At(p) # EOF
         /\ p >= Len(text) => At(p) = EOF
         /\ At(p) # "\r"
         /\ ~Unknown(At(p))
  <1>1. Len(text) \in Nat
    BY DEF TypeOK
  <1>2. CASE p < Len(text)
    <2>1. p + 1 \in 1..Len(text) /\ At(p) = text[p + 1]
      BY <1>1, <1>2 DEF At
    <2>2. At(p) \in WhiteSpace \cup IdentChars \cup Punctuation \cup {Quote} /\ At(p) # "\r"
      BY <2>1 DEF Regular
    <2> QED
      BY <1>1, <1>2, <2>2, Classes DEF Unknown
  <1>3. CASE p >= Len(text)
    <2>1. At(p) = EOF
      BY <1>1, <1>3 DEF At
    <2>2. EOF # "\r"
      BY DEF EOF
    <2> QED
      BY <1>1, <1>3, <2>1, <2>2 DEF Unknown
  <1> QED
    BY <1>1, <1>2, <1>3

\* No quote follows a word, no line end an empty comment, and a step of the lexer
\* is one character.
LEMMA RegularPairs ==
  ASSUME TypeOK, Regular, NEW p \in Nat
  PROVE  /\ At(p) \in IdentChars => At(p + 1) # Quote
         /\ At(p) = "/" /\ At(p + 1) = "/" => At(p + 2) # "\n"
         /\ Step(p) = p + 1
  <1>1. Len(text) \in Nat
    BY DEF TypeOK
  <1>2. ASSUME At(p) \in IdentChars PROVE At(p + 1) # Quote
    <2>1. p < Len(text)
      BY <1>1, <1>2, RegularCharacters, Classes
    <2>2. CASE p + 1 < Len(text)
      <3>1. p + 1 \in 1..Len(text) - 1 /\ At(p) = text[p + 1] /\ At(p + 1) = text[(p + 1) + 1]
        BY <1>1, <2>1, <2>2 DEF At
      <3> QED
        BY <1>2, <3>1 DEF Regular
    <2>3. CASE ~(p + 1 < Len(text))
      BY <1>1, <2>3, RegularCharacters, Classes
    <2> QED
      BY <2>2, <2>3
  <1>3. ASSUME At(p) = "/", At(p + 1) = "/" PROVE At(p + 2) # "\n"
    <2>1. CASE p + 2 < Len(text)
      <3>1. /\ p + 1 \in 1..Len(text) - 2 /\ At(p) = text[p + 1]
            /\ At(p + 1) = text[(p + 1) + 1] /\ At(p + 2) = text[(p + 1) + 2]
        BY <1>1, <2>1 DEF At
      <3> QED
        BY <1>3, <3>1 DEF Regular
    <2>2. CASE ~(p + 2 < Len(text))
      BY <1>1, <2>2, RegularCharacters, Classes
    <2> QED
      BY <2>1, <2>2
  <1>4. Step(p) = p + 1
    BY RegularCharacters DEF Step
  <1> QED
    BY <1>2, <1>3, <1>4

LEMMA EmptySlice ==
  ASSUME TypeOK, NEW p \in 0..Len(text)
  PROVE  SubSeq(text, p + 1, p) = <<>>
  <1>1. Len(text) \in Nat
    BY DEF TypeOK
  <1> QED
    BY <1>1 DEF TypeOK

\* Reading one more character makes a piece longer by it.
LEMMA LongerSlice ==
  ASSUME TypeOK, NEW q \in Nat, NEW p \in Nat, q <= p, p < Len(text)
  PROVE  /\ Slice(q, p + 1) = Append(Slice(q, p), At(p))
         /\ Slice(q, p) \in Seq(Characters) /\ Len(Slice(q, p)) = p - q
  <1>1. Len(text) \in Nat /\ text \in Seq(Characters)
    BY DEF TypeOK
  <1>2. SubSeq(text, q + 1, p) \in Seq(Characters) /\ Len(SubSeq(text, q + 1, p)) = p - q
    BY <1>1
  <1>3. SubSeq(text, q + 1, p + 1) = Append(SubSeq(text, q + 1, p), text[p + 1])
    BY <1>1
  <1> QED
    BY <1>1, <1>2, <1>3 DEF Slice, At

-----------------------------------------------------------------------------
(* What a piece of a text can be is decided by its first character.          *)

LEMMA ShapeOfSlash ==
  ASSUME NEW q \in Nat, NEW e \in Nat, q < e, At(q) = "/"
  PROVE  Shape(q, e) =
           IF q + 2 <= e /\ At(q + 1) = "/" /\ Free(q, e, "\n") THEN "comment"
           ELSE IF e = q + 1 THEN "/" ELSE "none"
  <1>1. ~Quoted(q, e, Quote) /\ ~Quoted(q, e, "'")
    BY Classes DEF Quoted
  <1>2. ~All(q, e, IdentChars)
    BY Classes DEF All
  <1>3. "/" \in Punctuation \ {"'"}
    BY Classes
  <1> QED
    BY <1>1, <1>2, <1>3 DEF Shape

LEMMA ShapeOfQuote ==
  ASSUME NEW q \in Nat, NEW e \in Nat, q < e, At(q) = Quote
  PROVE  Shape(q, e) =
           IF Quoted(q, e, Quote) /\ Free(q, e, "\n") THEN "string" ELSE "none"
  <1>1. ~Quoted(q, e, "'")
    BY Classes DEF Quoted
  <1>2. ~All(q, e, IdentChars)
    BY Classes DEF All
  <1>3. Quote \notin Punctuation \ {"'"}
    BY Classes
  <1> QED
    BY <1>1, <1>2, <1>3, Classes DEF Shape

LEMMA ShapeOfApostrophe ==
  ASSUME NEW q \in Nat, NEW e \in Nat, q < e, At(q) = "'"
  PROVE  Shape(q, e) = IF Quoted(q, e, "'") THEN "char" ELSE "none"
  <1>1. ~Quoted(q, e, Quote)
    BY Classes DEF Quoted
  <1>2. ~All(q, e, IdentChars)
    BY Classes DEF All
  <1> QED
    BY <1>1, <1>2 DEF Shape

LEMMA ShapeOfWord ==
  ASSUME NEW q \in Nat, NEW e \in Nat, q < e, At(q) \in IdentChars
  PROVE  Shape(q, e) = IF All(q, e, IdentChars) THEN "word" ELSE "none"
  <1>1. At(q) \notin Punctuation /\ At(q) \notin {"/", "'", "=", "!", "<", ">", Quote}
    BY Classes
  <1>2. ~Quoted(q, e, Quote) /\ ~Quoted(q, e, "'")
    BY <1>1 DEF Quoted
  <1> QED
    BY <1>1, <1>2 DEF Shape

LEMMA ShapeOfPunctuation ==
  ASSUME NEW q \in Nat, NEW e \in Nat, q < e, At(q) \in Punctuation \ {"'", "/"}
  PROVE  Shape(q, e) =
           IF e = q + 2 /\ At(q) \in {"=", "!", "<", ">"} /\ At(q + 1) = "=" THEN TwoCharKind(At(q))
           ELSE IF e = q + 1 THEN At(q) ELSE "none"
  <1>1. At(q) # Quote /\ At(q) \notin IdentChars
    BY Classes
  <1>2. ~Quoted(q, e, Quote) /\ ~Quoted(q, e, "'")
    BY <1>1 DEF Quoted
  <1>3. ~All(q, e, IdentChars)
    BY <1>1 DEF All
  <1> QED
    BY <1>1, <1>2, <1>3 DEF Shape

-----------------------------------------------------------------------------
(* A token is added.                                                         *)

\* A definition that depends on the text alone is not changed by a step.
LEMMA TextOnly ==
  ASSUME text' = text
  PROVE  /\ \A p : At(p)' = At(p)
         /\ \A p, q, e : IsLexeme(p, q, e)' <=> IsLexeme(p, q, e)
         /\ \A p, q, e : Token(p, q, e)' = Token(p, q, e)
         /\ \A p, q, S : All(p, q, S)' <=> All(p, q, S)
         /\ \A p, q, c : Free(p, q, c)' <=> Free(p, q, c)
         /\ \A p, q : Slice(p, q)' = Slice(p, q)
         /\ \A p, q : Shape(p, q)' = Shape(p, q)
         /\ \A t : After(t)' = After(t)
  <1>1. \A p : At(p)' = At(p)
    BY DEF At
  <1>2. \A p, q, S : All(p, q, S)' <=> All(p, q, S)
    BY <1>1 DEF All
  <1>3. \A p, q, c : Free(p, q, c)' <=> Free(p, q, c)
    BY <1>1 DEF Free
  <1>4. \A p, q : Slice(p, q)' = Slice(p, q)
    BY DEF Slice
  <1>5. \A t : After(t)' = After(t)
    BY DEF After, End
  <1>6. \A p, q, c : Quoted(p, q, c)' <=> Quoted(p, q, c)
    BY <1>1, <1>3 DEF Quoted
  <1>7. \A p, q : Shape(p, q)' = Shape(p, q)
    BY <1>1, <1>2, <1>3, <1>6 DEF Shape
  <1>8. \A p, q, e : IsLexeme(p, q, e)' <=> IsLexeme(p, q, e)
    BY <1>1, <1>2, <1>7 DEF IsLexeme
  <1>9. \A p, q, e : Token(p, q, e)' = Token(p, q, e)
    BY <1>1, <1>4, <1>7 DEF Token
  <1> QED
    BY <1>1, <1>2, <1>3, <1>4, <1>5, <1>7, <1>8, <1>9

LEMMA TextOnlyFrom ==
  ASSUME text' = text, NEW i, From(i)' = From(i), NEW x, NEW y
  PROVE  /\ IsLexeme(From(i), x, y)' <=> IsLexeme(From(i), x, y)
         /\ Token(From(i), x, y)' = Token(From(i), x, y)
  <1>1. At(From(i))' = At(From(i))
    BY DEF At
  <1>2. /\ \A p : At(p)' = At(p)
        /\ \A p, q : Shape(p, q)' = Shape(p, q) /\ Slice(p, q)' = Slice(p, q)
    BY TextOnly
  <1>3. All(From(i), x, WhiteSpace)' <=> All(From(i), x, WhiteSpace)
    BY <1>2 DEF All
  <1>4. IsLexeme(From(i), x, y)' <=> IsLexeme(From(i), x, y)
    BY <1>2, <1>3 DEF IsLexeme
  <1>5. Token(From(i), x, y)' = Token(From(i), x, y)
    BY <1>1, <1>2 DEF Token
  <1> QED
    BY <1>4, <1>5

\* What a token that is appended does to the places tokens are looked for from.
LEMMA AppendFrom ==
  ASSUME TypeOK, text' = text, NEW t \in Tokens, tokens' = Append(tokens, t)
  PROVE  /\ Len(tokens') = Len(tokens) + 1
         /\ \A i \in 1..Len(tokens) : tokens'[i] = tokens[i]
         /\ tokens'[Len(tokens) + 1] = t
         /\ \A i \in 1..Len(tokens) + 1 : From(i)' = From(i)
         /\ Call' = After(t)
  <1>1. /\ Len(tokens) \in Nat
        /\ Len(tokens') = Len(tokens) + 1
        /\ \A i \in 1..Len(tokens) : tokens'[i] = tokens[i]
        /\ tokens'[Len(tokens) + 1] = t
    BY DEF TypeOK
  <1>2. \A u : After(u)' = After(u)
    BY TextOnly
  <1>3. ASSUME NEW i \in 1..Len(tokens) + 1 PROVE From(i)' = From(i)
    <2>1. CASE i = 1
      BY <2>1 DEF From
    <2>2. CASE i # 1
      <3>1. i - 1 \in 1..Len(tokens)
        BY <1>1, <2>2
      <3>2. tokens'[i - 1] = tokens[i - 1]
        BY <1>1, <3>1
      <3> QED
        BY <2>2, <3>2 DEF From, After, End
    <2> QED
      BY <2>1, <2>2
  <1>4. Call' = After(t)
    <2>1. Len(tokens') + 1 # 1 /\ (Len(tokens') + 1) - 1 = Len(tokens) + 1
      BY <1>1
    <2>2. Call' = After(tokens[(Len(tokens) + 1) - 1])'
      BY <2>1 DEF Call, From
    <2>3. tokens'[(Len(tokens') + 1) - 1] = t
      BY <2>1, <1>1
    <2> QED
      BY <2>2, <2>3 DEF After, End
  <1> QED
    BY <1>1, <1>3, <1>4

\* A lexeme is found: its token is appended and the next call starts where it ends.
LEMMA EmitLexeme ==
  ASSUME TypeOK, Reading, Regular, status = "run",
         NEW kind \in Kinds, NEW start \in Nat, NEW len \in Nat, Emit(kind, start, len),
         NEW q \in 0..Len(text), NEW e \in 0..Len(text), IsLexeme(Call, q, e),
         Token(Call, q, e) = [kind |-> kind, start |-> start, len |-> len,
                              ws |-> At(Call) \in WhiteSpace, text |-> buf],
         e = IF kind = "string" \/ (kind = "comment" /\ start + len < Len(text))
             THEN start + len + 1 ELSE start + len,
         NEW p \in Nat, pos' = p, p = e \/ (e = Len(text) /\ p = Len(text) + 1)
  PROVE  Reading'
  <1> DEFINE t == [kind |-> kind, start |-> start, len |-> len, ws |-> ws, text |-> buf]
  <1>1. t \in Tokens /\ t = Token(Call, q, e) /\ After(t) = e
    <2>1. t \in Tokens
      BY DEF Tokens, TypeOK
    <2>2. ws = (At(Call) \in WhiteSpace)
      BY DEF Reading
    <2>3. After(t) = e
      BY DEF After, End
    <2> QED
      BY <2>1, <2>2, <2>3
  <1>2. /\ tokens' = Append(tokens, t) /\ buf' = <<>> /\ mode' = "plain"
        /\ text' = text /\ status' = "run" /\ ws' = (At(p) \in WhiteSpace)
    BY DEF Emit
  <1> HIDE DEF t
  <1>3. Len(text) \in Nat /\ Len(tokens) \in Nat
    BY DEF TypeOK
  <1>4. /\ Len(tokens') = Len(tokens) + 1
        /\ \A i \in 1..Len(tokens) : tokens'[i] = tokens[i]
        /\ tokens'[Len(tokens) + 1] = t
        /\ \A i \in 1..Len(tokens) + 1 : From(i)' = From(i)
        /\ Call' = e
    BY <1>1, <1>2, AppendFrom
  <1>5. TokensSoFar'
    <2> SUFFICES ASSUME NEW i \in 1..Len(tokens')
                 PROVE  (\E x, y \in 0..Len(text) :
                           /\ IsLexeme(From(i), x, y)
                           /\ tokens[i] = Token(From(i), x, y)
                           /\ After(tokens[i]) = y)'
      BY DEF TokensSoFar
    <2>1. After(tokens[i])' = After(tokens'[i])
      BY <1>2 DEF After, End
    <2>2. From(i)' = From(i)
      BY <1>3, <1>4
    <2>3. \E x, y \in 0..Len(text) :
            /\ IsLexeme(From(i), x, y)
            /\ tokens'[i] = Token(From(i), x, y)
            /\ After(tokens'[i]) = y
      <3>1. CASE i \in 1..Len(tokens)
        BY <1>4, <3>1 DEF Reading, TokensSoFar
      <3>2. CASE i = Len(tokens) + 1
        BY <1>1, <1>4, <3>2 DEF Call
      <3> QED
        BY <1>3, <1>4, <3>1, <3>2
    <2> QED
      BY <1>2, <2>1, <2>2, <2>3, TextOnlyFrom
  <1>6. At(Call)' = At(p)
    <2>1. At(Call)' = At(e)
      BY <1>2, <1>4 DEF At
    <2>2. CASE p = e
      BY <2>1, <2>2
    <2>3. CASE e = Len(text) /\ p = Len(text) + 1
      BY <1>3, <2>1, <2>3, RegularCharacters
    <2> QED
      BY <2>2, <2>3
  <1>7. InProgress' \/ PastTheEnd'
    <2>1. Len(buf') = 0
      BY <1>2
    <2>2. Start' = p
      BY <1>2, <2>1 DEF Start, Floor
    <2>3. CASE p = e
      <3>1. All(Call, Start, WhiteSpace)' /\ All(Start, pos, IdentChars)'
        <4>1. p..p - 1 = {}
          OBVIOUS
        <4> QED
          BY <1>4, <2>2, <2>3, <4>1 DEF All
      <3>2. Slice(Start, pos)' = <<>>
        BY <1>3, <2>2, <2>3, <1>2, EmptySlice DEF Slice
      <3>3. Call' <= Start' /\ pos' <= Len(text') /\ ~(Start' + 2 <= pos')
        BY <1>2, <1>3, <1>4, <2>2, <2>3
      <3> QED
        BY <1>2, <3>1, <3>2, <3>3 DEF InProgress, Progress
    <2>4. CASE e = Len(text) /\ p = Len(text) + 1
      BY <1>2, <1>4, <2>4 DEF PastTheEnd
    <2> QED
      BY <2>3, <2>4
  <1> QED
    BY <1>2, <1>3, <1>4, <1>5, <1>6, <1>7 DEF Reading

LEMMA SameTokens ==
  ASSUME TokensSoFar, UNCHANGED <<text, tokens>>
  PROVE  TokensSoFar' /\ Call' = Call /\ At(Call)' = At(Call)
  <1>1. Call' = Call /\ At(Call)' = At(Call)
    BY DEF Call, From, After, End, At
  <1>2. TokensSoFar'
    <2> SUFFICES ASSUME NEW i \in 1..Len(tokens)
                 PROVE  (\E q, e \in 0..Len(text) :
                           /\ IsLexeme(From(i), q, e)
                           /\ tokens[i] = Token(From(i), q, e)
                           /\ After(tokens[i]) = e)'
      BY DEF TokensSoFar
    <2>1. From(i)' = From(i) /\ After(tokens[i])' = After(tokens[i])
      BY DEF From, After, End
    <2>2. \E q, e \in 0..Len(text) :
            /\ IsLexeme(From(i), q, e)
            /\ tokens[i] = Token(From(i), q, e)
            /\ After(tokens[i]) = e
      BY DEF TokensSoFar
    <2> QED
      BY <2>1, <2>2, TextOnlyFrom
  <1> QED
    BY <1>1, <1>2

LEMMA NewProgress ==
  ASSUME UNCHANGED <<text, tokens>>, Call' = Call,
         NEW s, Start' = s, Call <= s, All(Call, s, WhiteSpace),
         NEW m, NEW p, NEW b, NEW n, mode' = m, pos' = p, buf' = b, count' = n,
         Progress(m, s, p, b, n)
  PROVE  InProgress'
  <1>1. All(Call, Start, WhiteSpace)'
    BY TextOnly DEF All
  <1>2. Progress(mode, Start, pos, buf, count)'
    <2>1. /\ \A x : At(x)' = At(x)
          /\ \A x, y, S : All(x, y, S)' <=> All(x, y, S)
          /\ \A x, y, c : Free(x, y, c)' <=> Free(x, y, c)
          /\ \A x, y : Slice(x, y)' = Slice(x, y)
      BY TextOnly
    <2>2. Progress(m, s, p, b, n)'
      BY <2>1 DEF Progress
    <2> QED
      BY <2>2 DEF Progress, At, All, Free, Slice
  <1> QED
    BY <1>1, <1>2 DEF InProgress

\* A character is read, and the lexeme in progress goes on.
LEMMA GoOn ==
  ASSUME Reading, UNCHANGED <<text, tokens, ws, status>>, status = "run",
         NEW s, Start' = s, Call <= s, All(Call, s, WhiteSpace),
         NEW m, NEW p, NEW b, NEW n, mode' = m, pos' = p, buf' = b, count' = n,
         Progress(m, s, p, b, n)
  PROVE  Reading'
  <1>1. TokensSoFar' /\ Call' = Call /\ At(Call)' = At(Call)
    BY SameTokens DEF Reading
  <1>2. InProgress'
    BY <1>1, NewProgress
  <1> QED
    BY <1>1, <1>2 DEF Reading

\* The lexer stops.
LEMMA Stops ==
  ASSUME Reading, UNCHANGED <<text, pos, mode, buf, mark, count, ws, tokens>>,
         \/ status' = "done" /\ All(Call, Len(text), WhiteSpace)
         \/ status' = "error" /\ \A q, e \in 0..Len(text) : ~IsLexeme(Call, q, e)
  PROVE  Reading'
  <1>1. TokensSoFar' /\ Call' = Call /\ At(Call)' = At(Call)
    BY SameTokens DEF Reading
  <1>2. (InProgress \/ PastTheEnd)'
    <2>1. CASE InProgress
      <3>1. Start' = Start
        BY DEF Start, Floor
      <3> QED
        BY <1>1, <2>1, <3>1, NewProgress DEF InProgress
    <2>2. CASE PastTheEnd
      BY <1>1, <2>2 DEF PastTheEnd
    <2> QED
      BY <2>1, <2>2 DEF Reading
  <1>3. status' = "done" => All(Call, Len(text), WhiteSpace)'
    BY <1>1, TextOnly DEF All
  <1>4. ASSUME status' = "error", NEW q \in 0..Len(text), NEW e \in 0..Len(text)
        PROVE  ~IsLexeme(Call, q, e)'
    <2>1. ~IsLexeme(Call, q, e)
      BY <1>4
    <2> QED
      BY <1>1, <2>1, TextOnlyFrom DEF Call
  <1> QED
    BY <1>1, <1>2, <1>3, <1>4 DEF Reading

-----------------------------------------------------------------------------
(* Each iteration keeps what has been read.                                  *)

\* A character there is lies inside the text, and the lexer is not past the end.
LEMMA InsideTheText ==
  ASSUME IInv, Regular, Reading
  PROVE  /\ pos \in Nat /\ Len(text) \in Nat /\ Call \in 0..Len(text)
         /\ TypeOK /\ buf \in Seq(Characters) /\ Len(buf) \in Nat /\ Len(buf) <= pos
         /\ Peek # EOF => pos < Len(text) /\ InProgress
         /\ mode # "plain" => InProgress
         /\ Start \in Int
         /\ Peek = At(pos) /\ Peek2 = At(pos + 1)
         /\ Step(pos) = pos + 1
  <1>1. /\ TypeOK /\ pos \in Nat /\ Len(text) \in Nat /\ Len(buf) \in Nat /\ mark \in Nat
        /\ buf \in Seq(Characters)
    BY DEF IInv, TypeOK
  <1>2. Call \in 0..Len(text) /\ (InProgress \/ PastTheEnd)
    BY DEF Reading
  <1>3. Peek # EOF => pos < Len(text) /\ InProgress
    <2>1. pos >= Len(text) => Peek = EOF
      BY <1>1, RegularCharacters DEF Peek
    <2> QED
      BY <1>1, <1>2, <2>1 DEF PastTheEnd
  <1>4. mode # "plain" => InProgress
    BY <1>2 DEF PastTheEnd
  <1>5. Start \in Int
    BY <1>1 DEF Start, Floor
  <1>6. Len(buf) <= pos
    BY DEF IInv, LoopsInText
  <1>7. Step(pos) = pos + 1
    BY <1>1, RegularPairs
  <1> QED
    BY <1>1, <1>2, <1>3, <1>4, <1>5, <1>6, <1>7 DEF Peek, Peek2

\* Where the text goes on is determined by the white space before it.
LEMMA OneStart ==
  ASSUME NEW p \in Nat, NEW q \in Nat, NEW s \in Nat, NEW e,
         p <= s, All(p, s, WhiteSpace), At(s) \notin WhiteSpace, IsLexeme(p, q, e)
  PROVE  q = s
  <1>1. p <= q /\ All(p, q, WhiteSpace) /\ At(q) \notin WhiteSpace
    BY DEF IsLexeme
  <1>2. ~(q < s)
    BY <1>1 DEF All
  <1>3. ~(s < q)
    BY <1>1 DEF All
  <1> QED
    BY <1>2, <1>3

\* A word ends in front of a character that is none of its own.
LEMMA WordFound ==
  ASSUME IInv, Regular, Reading, InProgress, mode = "plain", buf # <<>>, Peek \notin IdentChars
  PROVE  /\ Start = pos - Len(buf) /\ Start \in Nat /\ Start < pos /\ pos <= Len(text)
         /\ buf = Slice(Start, pos) /\ Shape(Start, pos) = "word"
         /\ IsLexeme(Call, Start, pos)
  <1>1. pos \in Nat /\ Len(text) \in Nat /\ Len(buf) \in Nat /\ Len(buf) <= pos /\ Peek = At(pos)
    BY InsideTheText
  <1>2. Len(buf) > 0
    BY InsideTheText
  <1>3. Start = pos - Len(buf) /\ Start \in Nat /\ Start < pos
    BY <1>1, <1>2 DEF Start, Floor
  <1>4. /\ Call <= Start /\ All(Call, Start, WhiteSpace) /\ pos <= Len(text)
        /\ buf = Slice(Start, pos) /\ All(Start, pos, IdentChars)
        /\ ~(Start + 2 <= pos /\ At(Start) = Underscore /\ At(Start + 1) = Underscore)
    BY DEF InProgress, Progress
  <1>5. At(Start) \in IdentChars
    BY <1>1, <1>3, <1>4 DEF All
  <1>6. Shape(Start, pos) = "word"
    BY <1>1, <1>3, <1>4, <1>5, ShapeOfWord
  <1>7. \A f \in pos + 1..Len(text) : Shape(Start, f) = "none"
    <2> SUFFICES ASSUME NEW f \in pos + 1..Len(text) PROVE Shape(Start, f) = "none"
      OBVIOUS
    <2>1. f \in Nat /\ Start < f /\ pos \in Start..f - 1
      BY <1>1, <1>3
    <2>2. ~All(Start, f, IdentChars)
      BY <1>1, <2>1 DEF All
    <2> QED
      BY <1>3, <1>5, <2>1, <2>2, ShapeOfWord
  <1>8. At(Start) \notin WhiteSpace
    BY <1>5, Classes
  <1> QED
    BY <1>3, <1>4, <1>6, <1>7, <1>8 DEF IsLexeme

LEMMA WordEmitted ==
  ASSUME IInv, Regular, Reading, InProgress, status = "run", mode = "plain", buf # <<>>,
         Peek \notin IdentChars, Stay, NEW kind \in {"keyword", "ident"}, EmitWord(kind),
         kind = IF buf \in Keywords /\ Peek \in WhiteSpace THEN "keyword" ELSE "ident"
  PROVE  Reading'
  <1>1. /\ Start = pos - Len(buf) /\ Start \in Nat /\ Start < pos /\ pos <= Len(text)
        /\ buf = Slice(Start, pos) /\ Shape(Start, pos) = "word"
        /\ IsLexeme(Call, Start, pos)
    BY WordFound
  <1>2. /\ pos \in Nat /\ Len(text) \in Nat /\ Len(buf) \in Nat /\ TypeOK /\ Peek = At(pos)
    BY InsideTheText
  <1>3. Emit(kind, Start, Len(buf)) /\ pos' = pos
    BY <1>1 DEF EmitWord, Stay
  <1>4. Token(Call, Start, pos) =
          [kind |-> kind, start |-> Start, len |-> Len(buf), ws |-> At(Call) \in WhiteSpace,
           text |-> buf]
    <2>1. pos - Start = Len(buf)
      BY <1>1, <1>2
    <2> QED
      BY <1>1, <1>2, <2>1 DEF Token
  <1>5. pos = IF kind = "string" \/ (kind = "comment" /\ Start + Len(buf) < Len(text))
              THEN Start + Len(buf) + 1 ELSE Start + Len(buf)
    BY <1>1, <1>2
  <1>6. kind \in Kinds /\ Start \in 0..Len(text) /\ pos \in 0..Len(text)
    BY <1>1, <1>2 DEF Kinds
  <1> QED
    BY <1>1, <1>2, <1>3, <1>4, <1>5, <1>6, EmitLexeme

\* A comment goes up to the end of its line, or of the text.
LEMMA CommentFound ==
  ASSUME IInv, Regular, Reading, status = "run", CommentEnd
  PROVE  Reading'
  <1>1. /\ pos \in Nat /\ Len(text) \in Nat /\ Call \in 0..Len(text) /\ TypeOK
        /\ Peek = At(pos) /\ mode = "comment" /\ InProgress
    BY InsideTheText DEF CommentEnd
  <1>2. buf = <<>> /\ Start = mark /\ mark \in Nat
    BY <1>1 DEF IInv, LoopsInText, TypeOK, Start, Floor
  <1> DEFINE e == IF pos <= Len(text) THEN pos ELSE Len(text)
  <1>3. /\ Call <= Start /\ All(Call, Start, WhiteSpace)
        /\ Start + 3 <= pos /\ (pos <= Len(text) \/ pos = Start + 3)
        /\ At(Start) = "/" /\ At(Start + 1) = "/" /\ Free(Start, pos, "\n")
    BY <1>1 DEF InProgress, Progress
  <1>4. pos <= Len(text) + 1
    BY <1>1 DEF IInv, LoopsInText
  <1>5. /\ e \in 0..Len(text) /\ Start + 2 <= e /\ e <= pos
        /\ pos = e \/ (e = Len(text) /\ pos = Len(text) + 1 /\ e = Start + 2)
    BY <1>1, <1>2, <1>3, <1>4
  <1> HIDE DEF e
  <1>6. Shape(Start, e) = "comment"
    <2>1. Free(Start, e, "\n")
      BY <1>1, <1>2, <1>3, <1>5 DEF Free
    <2> QED
      BY <1>2, <1>3, <1>5, <2>1, ShapeOfSlash
  <1>7. \A f \in e + 1..Len(text) : Shape(Start, f) = "none"
    <2> SUFFICES ASSUME NEW f \in e + 1..Len(text) PROVE Shape(Start, f) = "none"
      OBVIOUS
    <2>1. f \in Nat /\ Start < f /\ f # Start + 1 /\ pos = e /\ pos < Len(text) /\ pos \in Start..f - 1
      BY <1>1, <1>2, <1>5
    <2>2. At(pos) = "\n"
      BY <1>1, <2>1, RegularCharacters DEF CommentEnd
    <2>3. ~Free(Start, f, "\n")
      BY <2>1, <2>2 DEF Free
    <2> QED
      BY <1>2, <1>3, <2>1, <2>3, ShapeOfSlash
  <1>8. IsLexeme(Call, Start, e)
    <2>1. At(Start) \notin WhiteSpace /\ At(Start) # Underscore
      BY <1>3, Classes
    <2> QED
      BY <1>1, <1>2, <1>3, <1>5, <1>6, <1>7, <2>1 DEF IsLexeme
  <1>9. Token(Call, Start, e) =
          [kind |-> "comment", start |-> mark, len |-> pos - mark - 1,
           ws |-> At(Call) \in WhiteSpace, text |-> buf]
    <2>1. (IF e - Start = 2 THEN 2 ELSE e - Start - 1) = pos - mark - 1
      BY <1>1, <1>2, <1>3, <1>5
    <2> QED
      BY <1>2, <1>6, <2>1 DEF Token
  <1>10. e = IF mark + (pos - mark - 1) < Len(text)
             THEN mark + (pos - mark - 1) + 1 ELSE mark + (pos - mark - 1)
    BY <1>1, <1>2, <1>5
  <1>11. /\ Emit("comment", mark, pos - mark - 1) /\ pos' = pos
         /\ "comment" \in Kinds /\ pos - mark - 1 \in Nat /\ Start \in 0..Len(text)
    BY <1>1, <1>2, <1>3, <1>5 DEF CommentEnd, Stay, Kinds
  <1> QED
    BY <1>1, <1>2, <1>5, <1>8, <1>9, <1>10, <1>11, EmitLexeme

\* A closing quote ends what is quoted: no longer piece is quoted.
LEMMA QuoteCloses ==
  ASSUME NEW s \in Nat, NEW p \in Nat, NEW c, s < p, At(s) = c, At(p) = c, Free(s + 1, p, c)
  PROVE  /\ Quoted(s, p + 1, c)
         /\ \A f \in Nat : p + 1 < f => ~Quoted(s, f, c)
  <1>1. (p + 1) - 1 = p /\ s + 2 <= p + 1
    OBVIOUS
  <1>2. Quoted(s, p + 1, c)
    BY <1>1 DEF Quoted
  <1>3. ASSUME NEW f \in Nat, p + 1 < f, Quoted(s, f, c) PROVE FALSE
    <2>1. p \in s + 1..(f - 1) - 1
      BY <1>3
    <2> QED
      BY <1>3, <2>1 DEF Quoted, Free
  <1> QED
    BY <1>2, <1>3

LEMMA StringFound ==
  ASSUME IInv, Regular, Reading, status = "run", StringEnd
  PROVE  Reading'
  <1>1. /\ pos \in Nat /\ Len(text) \in Nat /\ Call \in 0..Len(text) /\ TypeOK
        /\ Peek = At(pos) /\ At(pos) = Quote /\ mode = "string" /\ InProgress
        /\ Len(buf) \in Nat /\ Len(buf) <= pos
        /\ buf \in Seq(Characters)
    BY InsideTheText DEF StringEnd
  <1>2. pos < Len(text)
    <2>1. Peek # EOF
      BY <1>1, Classes
    <2> QED
      BY <2>1, InsideTheText
  <1>3. Start = pos - Len(buf) - 1
    BY <1>1 DEF Start
  <1>4. /\ Call <= Start /\ All(Call, Start, WhiteSpace)
        /\ Start < pos /\ At(Start) = Quote
        /\ Free(Start + 1, pos, Quote) /\ Free(Start + 1, pos, "\n")
        /\ buf = Slice(Start + 1, pos)
    BY <1>1, <1>2 DEF InProgress, Progress
  <1>5. Start \in Nat /\ Start \in 0..Len(text) /\ pos + 1 \in 0..Len(text)
    BY <1>1, <1>2, <1>3, <1>4
  <1>6. Quoted(Start, pos + 1, Quote) /\ \A f \in Nat : pos + 1 < f => ~Quoted(Start, f, Quote)
    BY <1>1, <1>4, <1>5, QuoteCloses
  <1>7. Shape(Start, pos + 1) = "string"
    <2>1. Quote # "\n"
      BY Classes
    <2>2. Free(Start, pos + 1, "\n")
      <3> SUFFICES ASSUME NEW i \in Start..pos PROVE At(i) # "\n"
        BY <1>1, <1>5 DEF Free
      <3>1. i = Start \/ i = pos \/ i \in Start + 1..pos - 1
        BY <1>1, <1>5
      <3> QED
        BY <1>1, <1>4, <2>1, <3>1 DEF Free
    <2> QED
      BY <1>1, <1>4, <1>5, <1>6, <2>2, ShapeOfQuote
  <1>8. \A f \in (pos + 1) + 1..Len(text) : Shape(Start, f) = "none"
    <2> SUFFICES ASSUME NEW f \in (pos + 1) + 1..Len(text) PROVE Shape(Start, f) = "none"
      OBVIOUS
    <2>1. f \in Nat /\ pos + 1 < f /\ Start < f
      BY <1>1, <1>4, <1>5
    <2> QED
      BY <1>4, <1>5, <1>6, <2>1, ShapeOfQuote
  <1>9. IsLexeme(Call, Start, pos + 1)
    <2>1. At(Start) \notin WhiteSpace /\ At(Start) # Underscore
      BY <1>4, Classes
    <2> QED
      BY <1>1, <1>4, <1>5, <1>7, <1>8, <2>1 DEF IsLexeme
  <1>10. Token(Call, Start, pos + 1) =
          [kind |-> "string", start |-> pos - Len(buf), len |-> Len(buf),
           ws |-> At(Call) \in WhiteSpace, text |-> buf]
    <2>1. Start + 1 = pos - Len(buf) /\ (pos + 1) - Start - 2 = Len(buf) /\ (pos + 1) - 1 = pos
      BY <1>1, <1>3
    <2> QED
      BY <1>4, <1>7, <2>1 DEF Token
  <1>11. pos + 1 = (pos - Len(buf)) + Len(buf) + 1
    BY <1>1
  <1>12. /\ Emit("string", pos - Len(buf), Len(buf)) /\ pos' = pos + 1
         /\ "string" \in Kinds /\ pos - Len(buf) \in Nat
    <2>1. Step(pos) = pos + 1
      BY InsideTheText
    <2> QED
      BY <1>1, <2>1 DEF StringEnd, Advance, EmitWord, Kinds
  <1> QED
    BY <1>1, <1>5, <1>9, <1>10, <1>11, <1>12, EmitLexeme

LEMMA CharacterFound ==
  ASSUME IInv, Regular, Reading, status = "run", CharEnd
  PROVE  Reading'
  <1>1. /\ pos \in Nat /\ Len(text) \in Nat /\ Call \in 0..Len(text) /\ TypeOK
        /\ Peek = At(pos) /\ At(pos) = "'" /\ mode = "char" /\ InProgress
    BY InsideTheText DEF CharEnd
  <1>2. pos < Len(text)
    <2>1. Peek # EOF
      BY <1>1, Classes
    <2> QED
      BY <2>1, InsideTheText
  <1>3. Start = mark /\ buf = <<>> /\ mark \in Nat
    BY <1>1 DEF Start, Floor, IInv, LoopsInText, TypeOK
  <1>4. /\ Call <= Start /\ All(Call, Start, WhiteSpace)
        /\ Start < pos /\ At(Start) = "'" /\ Free(Start + 1, pos, "'") /\ count = pos - Start
    BY <1>1 DEF InProgress, Progress
  <1>5. Start \in Nat /\ Start \in 0..Len(text) /\ pos + 1 \in 0..Len(text)
    BY <1>1, <1>2, <1>3, <1>4
  <1>6. Quoted(Start, pos + 1, "'") /\ \A f \in Nat : pos + 1 < f => ~Quoted(Start, f, "'")
    BY <1>1, <1>4, <1>5, QuoteCloses
  <1>7. Shape(Start, pos + 1) = "char"
    BY <1>1, <1>4, <1>5, <1>6, ShapeOfApostrophe
  <1>8. \A f \in (pos + 1) + 1..Len(text) : Shape(Start, f) = "none"
    <2> SUFFICES ASSUME NEW f \in (pos + 1) + 1..Len(text) PROVE Shape(Start, f) = "none"
      OBVIOUS
    <2>1. f \in Nat /\ pos + 1 < f /\ Start < f
      BY <1>1, <1>4, <1>5
    <2> QED
      BY <1>4, <1>5, <1>6, <2>1, ShapeOfApostrophe
  <1>9. IsLexeme(Call, Start, pos + 1)
    <2>1. At(Start) \notin WhiteSpace /\ At(Start) # Underscore
      BY <1>4, Classes
    <2> QED
      BY <1>1, <1>4, <1>5, <1>7, <1>8, <2>1 DEF IsLexeme
  <1>10. Token(Call, Start, pos + 1) =
          [kind |-> "char", start |-> mark, len |-> count + 1,
           ws |-> At(Call) \in WhiteSpace, text |-> buf]
    <2>1. (pos + 1) - Start = count + 1
      BY <1>1, <1>4, <1>5
    <2> QED
      BY <1>3, <1>7, <2>1 DEF Token
  <1>11. pos + 1 = mark + (count + 1)
    BY <1>1, <1>3, <1>4
  <1>12. /\ Emit("char", mark, count + 1) /\ pos' = pos + 1
         /\ "char" \in Kinds /\ count + 1 \in Nat
    <2>1. Step(pos) = pos + 1
      BY InsideTheText
    <2> QED
      BY <1>1, <1>3, <1>4, <2>1 DEF CharEnd, Advance, Kinds
  <1> QED
    BY <1>1, <1>3, <1>5, <1>9, <1>10, <1>11, <1>12, EmitLexeme

\* Where nothing has been read, the lexeme starts at the position.
LEMMA FreshStart ==
  ASSUME IInv, Regular, Reading, mode = "plain", buf = <<>>, Peek # EOF
  PROVE  /\ Start = pos /\ Call <= pos /\ All(Call, pos, WhiteSpace) /\ pos < Len(text)
         /\ pos \in 0..Len(text) /\ pos + 1 \in 0..Len(text) /\ Call \in Nat
  <1>1. /\ pos \in Nat /\ Len(text) \in Nat /\ InProgress /\ pos < Len(text)
        /\ Call \in 0..Len(text)
    BY InsideTheText
  <1>2. Len(buf) = 0
    OBVIOUS
  <1>3. Start = pos
    BY <1>1, <1>2 DEF Start, Floor
  <1> QED
    BY <1>1, <1>3 DEF InProgress

LEMMA TwoCharacters ==
  ASSUME IInv, Regular, Reading, status = "run", TwoCharToken
  PROVE  Reading'
  <1>1. /\ mode = "plain" /\ buf = <<>> /\ Peek = At(pos) /\ TypeOK
        /\ At(pos) \in {"=", "!", "<", ">"} /\ At(pos + 1) = "="
    BY InsideTheText DEF TwoCharToken, Plain, Peek, Peek2
  <1>2. At(pos) \in Punctuation \ {"'", "/"} /\ At(pos) # EOF /\ At(pos + 1) # EOF
        /\ At(pos) \notin WhiteSpace /\ At(pos) # Underscore
    BY <1>1, Classes
  <1>3. /\ Call <= pos /\ All(Call, pos, WhiteSpace) /\ pos < Len(text)
        /\ pos \in 0..Len(text) /\ pos \in Nat /\ Len(text) \in Nat
    BY <1>1, <1>2, FreshStart, InsideTheText
  <1>4. pos + 2 \in 0..Len(text)
    BY <1>1, <1>2, <1>3, RegularCharacters
  <1>5. Shape(pos, pos + 2) = TwoCharKind(At(pos))
    BY <1>1, <1>2, <1>3, ShapeOfPunctuation
  <1>6. TwoCharKind(At(pos)) \in {"==", "!=", "<=", ">="}
    BY <1>1 DEF TwoCharKind
  <1>7. \A f \in (pos + 2) + 1..Len(text) : Shape(pos, f) = "none"
    <2> SUFFICES ASSUME NEW f \in (pos + 2) + 1..Len(text) PROVE Shape(pos, f) = "none"
      OBVIOUS
    <2>1. f \in Nat /\ pos < f /\ f # pos + 1 /\ f # pos + 2
      BY <1>3
    <2> QED
      BY <1>2, <1>3, <2>1, ShapeOfPunctuation
  <1>8. IsLexeme(Call, pos, pos + 2)
    BY <1>2, <1>3, <1>5, <1>6, <1>7 DEF IsLexeme
  <1>9. Token(Call, pos, pos + 2) =
          [kind |-> TwoCharKind(At(pos)), start |-> pos, len |-> 2,
           ws |-> At(Call) \in WhiteSpace, text |-> buf]
    <2>1. (pos + 2) - pos = 2
      BY <1>3
    <2> QED
      BY <1>1, <1>5, <1>6, <2>1 DEF Token
  <1>10. Emit(TwoCharKind(At(pos)), pos, 2) /\ pos' = pos + 2 /\ TwoCharKind(At(pos)) \in Kinds
    BY <1>1, <1>6 DEF TwoCharToken, Kinds
  <1>11. TwoCharKind(At(pos)) # "string" /\ TwoCharKind(At(pos)) # "comment"
    BY <1>6
  <1> QED
    BY <1>1, <1>3, <1>4, <1>8, <1>9, <1>10, <1>11, EmitLexeme

LEMMA OneCharacter ==
  ASSUME IInv, Regular, Reading, status = "run", OneCharToken
  PROVE  Reading'
  <1>1. /\ mode = "plain" /\ buf = <<>> /\ Peek = At(pos) /\ TypeOK
        /\ At(pos) \in Punctuation \ {"'"}
        /\ ~(At(pos) \in {"=", "!", "<", ">"} /\ At(pos + 1) = "=")
        /\ ~(At(pos) = "/" /\ At(pos + 1) = "/")
    BY InsideTheText DEF OneCharToken, Plain, Peek, Peek2
  <1>2. At(pos) # EOF /\ At(pos) \notin WhiteSpace /\ At(pos) # Underscore
        /\ At(pos) \notin {"none", "word", "string", "comment"}
    BY <1>1, Classes
  <1>3. /\ Call <= pos /\ All(Call, pos, WhiteSpace) /\ pos < Len(text)
        /\ pos \in 0..Len(text) /\ pos \in Nat /\ Len(text) \in Nat
        /\ pos + 1 \in 0..Len(text) /\ pos + 1 \in Nat
    BY <1>1, <1>2, FreshStart, InsideTheText
  <1>4. /\ Shape(pos, pos + 1) = At(pos)
        /\ \A f \in Nat : pos + 1 < f => Shape(pos, f) = "none"
    <2>1. CASE At(pos) = "/"
      BY <1>1, <1>3, <2>1, ShapeOfSlash
    <2>2. CASE At(pos) # "/"
      BY <1>1, <1>3, <2>2, ShapeOfPunctuation
    <2> QED
      BY <2>1, <2>2
  <1>5. IsLexeme(Call, pos, pos + 1)
    <2>1. \A f \in (pos + 1) + 1..Len(text) : f \in Nat /\ pos + 1 < f
      BY <1>3
    <2> QED
      BY <1>2, <1>3, <1>4, <2>1 DEF IsLexeme
  <1>6. Token(Call, pos, pos + 1) =
          [kind |-> At(pos), start |-> pos, len |-> 1,
           ws |-> At(Call) \in WhiteSpace, text |-> buf]
    <2>1. (pos + 1) - pos = 1
      BY <1>3
    <2> QED
      BY <1>1, <1>2, <1>4, <2>1 DEF Token
  <1>7. Emit(At(pos), pos, 1) /\ pos' = pos + 1 /\ At(pos) \in Kinds
    <2>1. Step(pos) = pos + 1
      BY InsideTheText
    <2> QED
      BY <1>1, <2>1 DEF OneCharToken, Advance, Kinds
  <1> QED
    BY <1>1, <1>2, <1>3, <1>5, <1>6, <1>7, EmitLexeme

\* The lexer fails where there is no lexeme.
LEMMA OpenStringFails ==
  ASSUME IInv, Regular, Reading, status = "run", StringNewline
  PROVE  Reading'
  <1>1. /\ pos \in Nat /\ Len(text) \in Nat /\ Call \in Nat
        /\ At(pos) = "\n" /\ mode = "string" /\ InProgress
        /\ Len(buf) \in Nat /\ Len(buf) <= pos
    BY InsideTheText DEF StringNewline, Peek
  <1>2. Start = pos - Len(buf) - 1
    BY <1>1 DEF Start
  <1>3. /\ Call <= Start /\ All(Call, Start, WhiteSpace)
        /\ Start < pos /\ At(Start) = Quote /\ Free(Start + 1, pos, Quote)
    BY <1>1 DEF InProgress, Progress
  <1>4. Start \in Nat /\ At(Start) \notin WhiteSpace /\ Quote # "\n"
    BY <1>1, <1>2, <1>3, Classes
  <1>5. ASSUME NEW q \in 0..Len(text), NEW e \in 0..Len(text), IsLexeme(Call, q, e) PROVE FALSE
    <2>1. q = Start
      BY <1>1, <1>3, <1>4, <1>5, OneStart
    <2>2. Shape(Start, e) # "none" /\ Start < e
      BY <1>5, <2>1 DEF IsLexeme
    <2>3. Quoted(Start, e, Quote) /\ Free(Start, e, "\n")
      BY <1>1, <1>3, <1>4, <2>2, ShapeOfQuote
    <2>4. Start + 2 <= e /\ At(e - 1) = Quote
      BY <2>3 DEF Quoted
    <2>5. ~(e - 1 < pos)
      BY <1>1, <1>3, <1>4, <2>4 DEF Free
    <2>6. ~(pos <= e - 1)
      BY <1>1, <1>3, <1>4, <2>3 DEF Free
    <2> QED
      BY <1>1, <2>5, <2>6
  <1> QED
    BY <1>5, Stops DEF StringNewline, Fail

LEMMA UnderscoresFail ==
  ASSUME IInv, Regular, Reading, status = "run", LeadingUnderscores
  PROVE  Reading'
  <1>1. /\ pos \in Nat /\ Len(text) \in Nat /\ Call \in Nat /\ TypeOK
        /\ At(pos) = Underscore /\ mode = "plain" /\ buf = <<Underscore>>
        /\ Peek = At(pos) /\ Len(buf) <= pos
    BY InsideTheText DEF LeadingUnderscores, Plain, Peek
  <1>2. InProgress /\ pos < Len(text)
    <2>1. Peek # EOF
      BY <1>1, Classes
    <2> QED
      BY <2>1, InsideTheText
  <1>3. Start = pos - 1 /\ Start \in Nat
    <2>1. Len(buf) = 1
      BY <1>1
    <2> QED
      BY <1>1, <2>1 DEF Start, Floor
  <1>4. Call <= Start /\ All(Call, Start, WhiteSpace) /\ All(Start, pos, IdentChars)
    BY <1>1, <1>2 DEF InProgress, Progress
  <1>5. At(Start) = Underscore
    <2>1. buf = Slice(Start, Start + 1)
      BY <1>1, <1>2, <1>3 DEF InProgress, Progress
    <2>2. Slice(Start, Start + 1) = Append(Slice(Start, Start), At(Start))
          /\ Slice(Start, Start) \in Seq(Characters) /\ Len(Slice(Start, Start)) = 0
      <3>1. Start < Len(text) /\ Start <= Start /\ Start - Start = 0
        BY <1>1, <1>2, <1>3
      <3> QED
        BY <1>1, <1>3, <3>1, LongerSlice
    <2>3. Append(Slice(Start, Start), At(Start)) = <<Underscore>>
      BY <1>1, <2>1, <2>2
    <2>4. Append(Slice(Start, Start), At(Start))[1] = At(Start)
      BY <2>2
    <2>5. <<Underscore>>[1] = Underscore
      OBVIOUS
    <2> QED
      BY <2>3, <2>4, <2>5
  <1>6. At(Start) \notin WhiteSpace /\ Underscore \in IdentChars /\ At(Start) \in IdentChars
    BY <1>5, Classes
  <1>7. Shape(Start, Start + 2) = "word"
    <2>1. All(Start, Start + 2, IdentChars)
      BY <1>1, <1>3, <1>5, <1>6 DEF All
    <2> QED
      BY <1>3, <1>6, <2>1, ShapeOfWord
  <1>8. ASSUME NEW q \in 0..Len(text), NEW e \in 0..Len(text), IsLexeme(Call, q, e) PROVE FALSE
    <2>1. q = Start
      BY <1>1, <1>3, <1>4, <1>6, <1>8, OneStart
    <2>2. /\ Start < e /\ \A f \in e + 1..Len(text) : Shape(Start, f) = "none"
          /\ ~(e >= Start + 2 /\ At(Start) = Underscore /\ At(Start + 1) = Underscore)
      BY <1>8, <2>1 DEF IsLexeme
    <2>3. Start + 1 = pos
      BY <1>1, <1>3
    <2>4. e = Start + 1
      BY <1>1, <1>3, <1>5, <2>2, <2>3
    <2>5. Start + 2 \in e + 1..Len(text)
      BY <1>1, <1>2, <1>3, <2>4
    <2> QED
      BY <1>7, <2>2, <2>5
  <1> QED
    BY <1>8, Stops DEF LeadingUnderscores, Fail

LEMMA TextEnds ==
  ASSUME IInv, Regular, Reading, status = "run", EndOfText
  PROVE  Reading'
  <1>1. /\ mode = "plain" /\ Peek = EOF /\ Peek = At(pos) /\ pos \in Nat /\ Len(text) \in Nat
        /\ TypeOK
    BY InsideTheText DEF EndOfText, Plain
  <1>2. EOF \notin IdentChars /\ EOF \notin WhiteSpace
    BY Classes
  <1>3. pos >= Len(text)
    BY <1>1, RegularCharacters
  <1>4. CASE buf # <<>> /\ Stay /\ EmitWord("ident")
    <2>1. InProgress
      BY <1>4 DEF Reading, PastTheEnd
    <2> QED
      BY <1>1, <1>2, <1>4, <2>1, WordEmitted
  <1>5. CASE buf = <<>> /\ status' = "done"
             /\ UNCHANGED <<text, pos, line, mode, buf, mark, count, ws, tokens>>
    <2>1. All(Call, Len(text), WhiteSpace)
      <3>1. CASE InProgress
        <4>1. Start = pos
          BY <1>1, <1>5 DEF Start, Floor
        <4>2. pos = Len(text)
          BY <1>1, <1>3, <3>1 DEF InProgress, Progress
        <4> QED
          BY <3>1, <4>1, <4>2 DEF InProgress
      <3>2. CASE PastTheEnd
        BY <1>1, <3>2 DEF PastTheEnd, All
      <3> QED
        BY <3>1, <3>2 DEF Reading
    <2> QED
      BY <1>5, <2>1, Stops
  <1> QED
    BY <1>4, <1>5 DEF EndOfText

\* One more character of a kind.
LEMMA OneMore ==
  ASSUME NEW q \in Int, NEW p \in Nat
  PROVE  /\ \A S : All(q, p, S) /\ At(p) \in S => All(q, p + 1, S)
         /\ \A c : Free(q, p, c) /\ At(p) # c => Free(q, p + 1, c)
         /\ \A S : All(p, p, S)
         /\ \A c : Free(p, p, c)
  <1>1. \A i \in q..(p + 1) - 1 : i = p \/ i \in q..p - 1
    OBVIOUS
  <1>2. p..p - 1 = {}
    OBVIOUS
  <1> QED
    BY <1>1, <1>2 DEF All, Free

LEMMA CommentOpens ==
  ASSUME IInv, Regular, Reading, status = "run", OpenComment
  PROVE  Reading'
  <1>1. /\ mode = "plain" /\ buf = <<>> /\ Peek = At(pos) /\ TypeOK /\ pos \in Nat
        /\ At(pos) = "/" /\ At(pos + 1) = "/"
    BY InsideTheText DEF OpenComment, Plain, Peek, Peek2
  <1>2. Peek # EOF
    BY <1>1, Classes
  <1>3. Start = pos /\ Call <= pos /\ All(Call, pos, WhiteSpace)
    BY <1>1, <1>2, FreshStart
  <1>4. At(pos + 2) # "\n" /\ Step(pos + 2) = pos + 3
    <2>1. pos + 2 \in Nat /\ (pos + 2) + 1 = pos + 3
      BY <1>1
    <2> QED
      BY <1>1, <2>1, RegularPairs
  <1>5. Free(pos, pos + 3, "\n")
    BY <1>1, <1>4 DEF Free
  <1>6. Progress("comment", pos, pos + 3, buf, count)
    BY <1>1, <1>5 DEF Progress
  <1>7. /\ mode' = "comment" /\ pos' = pos + 3 /\ buf' = buf /\ count' = count /\ mark' = pos
        /\ UNCHANGED <<text, tokens, ws, status>>
    BY <1>4 DEF OpenComment
  <1>8. Start' = pos
    BY <1>7 DEF Start, Floor
  <1> QED
    BY <1>3, <1>6, <1>7, <1>8, GoOn

LEMMA CommentGoesOn ==
  ASSUME IInv, Regular, Reading, status = "run", CommentChar
  PROVE  Reading'
  <1>1. /\ mode = "comment" /\ pos < Len(text) /\ InProgress /\ pos \in Nat /\ Len(text) \in Nat
        /\ At(pos) # "\n" /\ Step(pos) = pos + 1
    BY InsideTheText DEF CommentChar
  <1>2. Start = mark /\ mark \in Nat
    BY <1>1 DEF Start, Floor, IInv, TypeOK
  <1>3. Call <= Start /\ All(Call, Start, WhiteSpace) /\ Progress("comment", Start, pos, buf, count)
    BY <1>1 DEF InProgress
  <1>4. Progress("comment", Start, pos + 1, buf, count)
    BY <1>1, <1>2, <1>3, OneMore DEF Progress
  <1>5. /\ mode' = "comment" /\ pos' = pos + 1 /\ buf' = buf /\ count' = count /\ mark' = mark
        /\ UNCHANGED <<text, tokens, ws, status>>
    BY <1>1 DEF CommentChar, Advance
  <1>6. Start' = Start
    BY <1>1, <1>5 DEF Start, Floor
  <1> QED
    BY <1>3, <1>4, <1>5, <1>6, GoOn

LEMMA StringOpens ==
  ASSUME IInv, Regular, Reading, status = "run", OpenString
  PROVE  Reading'
  <1>1. /\ mode = "plain" /\ Peek = At(pos) /\ TypeOK /\ pos \in Nat /\ Step(pos) = pos + 1
        /\ At(pos) = Quote /\ Len(text) \in Nat
        /\ Len(buf) \in Nat /\ Len(buf) <= pos /\ buf \in Seq(Characters)
    BY InsideTheText DEF OpenString, Plain, Peek
  <1>2. Peek # EOF
    BY <1>1, Classes
  <1>3. InProgress /\ pos < Len(text)
    BY <1>2, InsideTheText
  <1>4. buf = <<>>
    <2>1. Len(buf) = 0
      <3>1. SUFFICES ASSUME Len(buf) # 0 PROVE FALSE
        OBVIOUS
      <3>2. pos - 1 \in Start..pos - 1 /\ pos - 1 \in Nat
        BY <1>1, <3>1 DEF Start, Floor
      <3>3. At(pos - 1) \in IdentChars
        BY <1>1, <1>3, <3>2 DEF InProgress, Progress, All
      <3>4. At((pos - 1) + 1) # Quote
        BY <1>1, <3>2, <3>3, RegularPairs
      <3>5. (pos - 1) + 1 = pos
        BY <1>1
      <3> QED
        BY <1>1, <3>4, <3>5
    <2> QED
      BY <1>1, <2>1
  <1>5. Start = pos /\ Call <= pos /\ All(Call, pos, WhiteSpace)
    BY <1>1, <1>2, <1>4, FreshStart
  <1>6. Progress("string", pos, pos + 1, buf, count)
    <2>1. Slice(pos + 1, pos + 1) = <<>>
      <3>1. pos + 1 \in 0..Len(text)
        BY <1>1, <1>3
      <3> QED
        BY <1>1, <3>1, EmptySlice DEF Slice
    <2>2. Free(pos + 1, pos + 1, Quote) /\ Free(pos + 1, pos + 1, "\n")
      BY <1>1, OneMore
    <2> QED
      BY <1>1, <1>4, <2>1, <2>2 DEF Progress
  <1>7. /\ mode' = "string" /\ pos' = pos + 1 /\ buf' = buf /\ count' = count
        /\ UNCHANGED <<text, tokens, ws, status>>
    BY <1>1 DEF OpenString, Advance
  <1>8. Start' = pos
    <2>1. Len(buf) = 0
      BY <1>4
    <2> QED
      BY <1>1, <1>7, <2>1 DEF Start
  <1> QED
    BY <1>5, <1>6, <1>7, <1>8, GoOn

LEMMA StringGoesOn ==
  ASSUME IInv, Regular, Reading, status = "run", StringChar
  PROVE  Reading'
  <1>1. /\ mode = "string" /\ InProgress /\ pos \in Nat /\ Len(text) \in Nat /\ TypeOK
        /\ At(pos) # "\n" /\ At(pos) # Quote /\ Step(pos) = pos + 1
        /\ Len(buf) \in Nat /\ Len(buf) <= pos /\ buf \in Seq(Characters)
        /\ Peek = At(pos)
    BY InsideTheText DEF StringChar
  <1>2. Start = pos - Len(buf) - 1
    BY <1>1 DEF Start
  <1>3. Call <= Start /\ All(Call, Start, WhiteSpace) /\ Progress("string", Start, pos, buf, count)
    BY <1>1 DEF InProgress
  <1>4. Progress("string", Start, pos + 1, Append(buf, At(pos)), count)
    <2>1. /\ Start < pos + 1 /\ At(Start) = Quote
          /\ Free(Start + 1, pos + 1, Quote) /\ Free(Start + 1, pos + 1, "\n")
      BY <1>1, <1>2, <1>3, OneMore DEF Progress
    <2>2. ASSUME pos + 1 <= Len(text) PROVE Append(buf, At(pos)) = Slice(Start + 1, pos + 1)
      <3>1. buf = Slice(Start + 1, pos) /\ Start + 1 \in Nat /\ Start + 1 <= pos /\ pos < Len(text)
        <4>1. buf = Slice(Start + 1, pos)
          BY <1>1, <1>3, <2>2 DEF Progress
        <4>2. Start < pos /\ Call \in Nat
          BY <1>3, InsideTheText DEF Progress
        <4> QED
          BY <1>1, <1>2, <1>3, <2>2, <4>1, <4>2
      <3> QED
        BY <1>1, <3>1, LongerSlice
    <2> QED
      BY <2>1, <2>2 DEF Progress
  <1>5. /\ mode' = "string" /\ pos' = pos + 1 /\ buf' = Append(buf, At(pos)) /\ count' = count
        /\ UNCHANGED <<text, tokens, ws, status>>
    BY <1>1 DEF StringChar, Advance
  <1>6. Start' = Start
    <2>1. At(pos) \in Characters
      BY <1>1, CharacterRead
    <2>2. Len(Append(buf, At(pos))) = Len(buf) + 1
      BY <1>1, <2>1
    <2> QED
      BY <1>1, <1>2, <1>5, <2>2 DEF Start
  <1> QED
    BY <1>3, <1>4, <1>5, <1>6, GoOn

LEMMA CharacterOpens ==
  ASSUME IInv, Regular, Reading, status = "run", OpenChar
  PROVE  Reading'
  <1>1. /\ mode = "plain" /\ buf = <<>> /\ Peek = At(pos) /\ TypeOK /\ pos \in Nat
        /\ At(pos) = "'" /\ Step(pos) = pos + 1
    BY InsideTheText DEF OpenChar, Plain, Peek
  <1>2. Peek # EOF
    BY <1>1, Classes
  <1>3. Start = pos /\ Call <= pos /\ All(Call, pos, WhiteSpace)
    BY <1>1, <1>2, FreshStart
  <1>4. Progress("char", pos, pos + 1, buf, 1)
    BY <1>1, OneMore DEF Progress
  <1>5. /\ mode' = "char" /\ pos' = pos + 1 /\ buf' = buf /\ count' = 1 /\ mark' = pos
        /\ UNCHANGED <<text, tokens, ws, status>>
    BY <1>1 DEF OpenChar, Advance
  <1>6. Start' = pos
    BY <1>5 DEF Start, Floor
  <1> QED
    BY <1>3, <1>4, <1>5, <1>6, GoOn

LEMMA CharacterGoesOn ==
  ASSUME IInv, Regular, Reading, status = "run", CharChar
  PROVE  Reading'
  <1>1. /\ mode = "char" /\ InProgress /\ pos \in Nat /\ At(pos) # "'" /\ Step(pos) = pos + 1
    BY InsideTheText DEF CharChar
  <1>2. Start = mark /\ mark \in Nat
    BY <1>1 DEF Start, Floor, IInv, TypeOK
  <1>3. Call <= Start /\ All(Call, Start, WhiteSpace) /\ Progress("char", Start, pos, buf, count)
    BY <1>1 DEF InProgress
  <1>4. Progress("char", Start, pos + 1, buf, count + 1)
    BY <1>1, <1>2, <1>3, OneMore DEF Progress
  <1>5. /\ mode' = "char" /\ pos' = pos + 1 /\ buf' = buf /\ count' = count + 1 /\ mark' = mark
        /\ UNCHANGED <<text, tokens, ws, status>>
    BY <1>1 DEF CharChar, Advance
  <1>6. Start' = Start
    BY <1>1, <1>5 DEF Start, Floor
  <1> QED
    BY <1>3, <1>4, <1>5, <1>6, GoOn

LEMMA WordGoesOn ==
  ASSUME IInv, Regular, Reading, status = "run", IdentChar
  PROVE  Reading'
  <1>1. /\ mode = "plain" /\ pos \in Nat /\ Len(text) \in Nat /\ TypeOK /\ Peek = At(pos)
        /\ At(pos) \in IdentChars /\ Step(pos) = pos + 1
        /\ Len(buf) \in Nat /\ Len(buf) <= pos /\ buf \in Seq(Characters)
    BY InsideTheText DEF IdentChar, Plain
  <1>2. InProgress /\ pos < Len(text)
    <2>1. Peek # EOF
      BY <1>1, Classes
    <2> QED
      BY <2>1, InsideTheText
  <1>3. Start = pos - Len(buf) /\ Start \in Nat
    BY <1>1 DEF Start, Floor
  <1>4. Call <= Start /\ All(Call, Start, WhiteSpace) /\ Progress("plain", Start, pos, buf, count)
    BY <1>1, <1>2 DEF InProgress
  <1>5. Progress("plain", Start, pos + 1, Append(buf, At(pos)), count)
    <2>1. pos + 1 <= Len(text) /\ All(Start, pos + 1, IdentChars)
      BY <1>1, <1>2, <1>3, <1>4, OneMore DEF Progress
    <2>2. Append(buf, At(pos)) = Slice(Start, pos + 1)
      <3>1. Start <= pos /\ buf = Slice(Start, pos)
        BY <1>1, <1>3, <1>4 DEF Progress
      <3> QED
        BY <1>1, <1>2, <1>3, <3>1, LongerSlice
    <2>3. ASSUME Start + 2 <= pos + 1, At(Start) = Underscore, At(Start + 1) = Underscore
          PROVE  FALSE
      <3>1. ~(Start + 2 <= pos)
        BY <1>4, <2>3 DEF Progress
      <3>2. Start + 1 = pos /\ Start <= Start /\ Start < Len(text) /\ Start - Start = 0
        BY <1>1, <1>2, <1>3, <2>3, <3>1
      <3>3. buf = Slice(Start, Start + 1)
        BY <1>4, <3>2 DEF Progress
      <3>4. Slice(Start, Start + 1) = Append(Slice(Start, Start), At(Start))
            /\ Slice(Start, Start) \in Seq(Characters) /\ Len(Slice(Start, Start)) = 0
        BY <1>1, <1>3, <3>2, LongerSlice
      <3>5. Slice(Start, Start) = <<>>
        BY <3>4
      <3>6. buf = <<Underscore>>
        BY <2>3, <3>3, <3>4, <3>5
      <3> QED
        BY <1>1, <2>3, <3>2, <3>6 DEF IdentChar
    <2> QED
      BY <2>1, <2>2, <2>3 DEF Progress
  <1>6. /\ mode' = "plain" /\ pos' = pos + 1 /\ buf' = Append(buf, At(pos)) /\ count' = count
        /\ UNCHANGED <<text, tokens, ws, status>>
    BY <1>1 DEF IdentChar, Advance
  <1>7. Start' = Start
    <2>1. At(pos) \in Characters
      BY <1>1, CharacterRead
    <2>2. Len(Append(buf, At(pos))) = Len(buf) + 1
      BY <1>1, <2>1
    <2> QED
      BY <1>1, <1>3, <1>6, <2>2 DEF Start, Floor
  <1> QED
    BY <1>4, <1>5, <1>6, <1>7, GoOn

LEMMA SpaceSkipped ==
  ASSUME IInv, Regular, Reading, status = "run", Skip
  PROVE  Reading'
  <1>1. /\ mode = "plain" /\ pos \in Nat /\ Len(text) \in Nat /\ TypeOK /\ Peek = At(pos)
        /\ Step(pos) = pos + 1
    BY InsideTheText DEF Skip, Plain
  <1>2. At(pos) \in WhiteSpace /\ buf = <<>>
    BY <1>1, RegularCharacters DEF Skip
  <1>3. Peek # EOF
    BY <1>1, <1>2, Classes
  <1>4. Start = pos /\ Call <= pos /\ All(Call, pos, WhiteSpace) /\ pos < Len(text) /\ Call \in Nat
    BY <1>1, <1>2, <1>3, FreshStart
  <1>5. Call <= pos + 1 /\ All(Call, pos + 1, WhiteSpace)
    BY <1>1, <1>2, <1>4, OneMore
  <1>6. Progress("plain", pos + 1, pos + 1, buf, count)
    <2>1. Slice(pos + 1, pos + 1) = <<>>
      <3>1. pos + 1 \in 0..Len(text)
        BY <1>1, <1>4
      <3> QED
        BY <1>1, <3>1, EmptySlice DEF Slice
    <2>2. All(pos + 1, pos + 1, IdentChars)
      BY <1>1, OneMore
    <2> QED
      BY <1>1, <1>2, <1>4, <2>1, <2>2 DEF Progress
  <1>7. /\ mode' = "plain" /\ pos' = pos + 1 /\ buf' = buf /\ count' = count
        /\ UNCHANGED <<text, tokens, ws, status>>
    BY <1>1 DEF Skip, Advance
  <1>8. Start' = pos + 1
    <2>1. Len(buf) = 0
      BY <1>2
    <2> QED
      BY <1>1, <1>7, <2>1 DEF Start, Floor
  <1> QED
    BY <1>5, <1>6, <1>7, <1>8, GoOn

LEMMA IterateReads ==
  ASSUME IInv, Regular, Reading, Iterate
  PROVE  Reading'
  <1>1. status = "run"
    BY DEF Iterate, OpenComment, CommentChar, CommentEnd, OpenString, StringChar, StringEnd,
           StringNewline, OpenChar, CharChar, CharEnd, EndOfText, WordBeforePunctuation,
           WordBeforeSpace, TwoCharToken, OneCharToken, IdentChar, LeadingUnderscores,
           KeywordBeforeUnknown, Skip, Plain
  <1>2. CASE OpenComment \/ CommentChar \/ CommentEnd
    BY <1>1, <1>2, CommentOpens, CommentGoesOn, CommentFound
  <1>3. CASE OpenString \/ StringChar \/ StringEnd \/ StringNewline
    BY <1>1, <1>3, StringOpens, StringGoesOn, StringFound, OpenStringFails
  <1>4. CASE OpenChar \/ CharChar \/ CharEnd
    BY <1>1, <1>4, CharacterOpens, CharacterGoesOn, CharacterFound
  <1>5. CASE EndOfText
    BY <1>1, <1>5, TextEnds
  <1>6. CASE WordBeforePunctuation \/ WordBeforeSpace
    <2>1. mode = "plain" /\ buf # <<>> /\ Stay /\ Peek \in Punctuation \cup WhiteSpace
      BY <1>6 DEF WordBeforePunctuation, WordBeforeSpace, Plain
    <2>2. Peek \notin IdentChars /\ Peek # EOF
      BY <2>1, Classes
    <2>3. InProgress
      BY <2>2, InsideTheText
    <2>4. CASE WordBeforePunctuation
      <3>1. Peek \notin WhiteSpace /\ EmitWord("ident")
        BY <2>4, Classes DEF WordBeforePunctuation
      <3> QED
        BY <1>1, <2>1, <2>2, <2>3, <3>1, WordEmitted
    <2>5. CASE WordBeforeSpace
      <3>1. Peek \in WhiteSpace /\ EmitWord(WordKind)
        BY <2>5 DEF WordBeforeSpace
      <3>2. WordKind = IF buf \in Keywords THEN "keyword" ELSE "ident"
        BY DEF WordKind
      <3>3. WordKind \in {"keyword", "ident"}
        BY <3>2
      <3> QED
        BY <1>1, <2>1, <2>2, <2>3, <3>1, <3>2, <3>3, WordEmitted
    <2> QED
      BY <1>6, <2>4, <2>5
  <1>7. CASE TwoCharToken \/ OneCharToken
    BY <1>1, <1>7, TwoCharacters, OneCharacter
  <1>8. CASE IdentChar \/ LeadingUnderscores \/ Skip
    BY <1>1, <1>8, WordGoesOn, UnderscoresFail, SpaceSkipped
  <1>9. CASE KeywordBeforeUnknown
    <2>1. Unknown(At(pos))
      BY <1>9 DEF KeywordBeforeUnknown, Peek
    <2>2. ~Unknown(At(pos))
      BY InsideTheText, RegularCharacters
    <2> QED
      BY <2>1, <2>2
  <1> QED
    BY <1>2, <1>3, <1>4, <1>5, <1>6, <1>7, <1>8, <1>9 DEF Iterate

LEMMA InitLInv == Init => LInv
  <1> SUFFICES ASSUME Init PROVE LInv
    OBVIOUS
  <1>1. IInv /\ TypeOK
    BY InitIInv DEF IInv
  <1>2. /\ pos = 0 /\ buf = <<>> /\ mode = "plain" /\ tokens = <<>> /\ status = "run"
        /\ Len(buf) = 0 /\ Len(tokens) = 0
    BY DEF Init
  <1>3. Call = 0 /\ Start = 0 /\ Len(text) \in Nat
    <2>1. Len(tokens) + 1 = 1 /\ pos - Len(buf) = 0
      <3>1. Len(tokens) = 0 /\ pos = 0 /\ Len(buf) = 0
        BY <1>2
      <3> QED
        BY <3>1
    <2>2. Call = 0
      BY <2>1 DEF Call, From
    <2>3. Start = 0
      BY <1>2, <2>1 DEF Start, Floor
    <2> QED
      BY <1>1, <2>2, <2>3 DEF TypeOK
  <1>4. InProgress
    <2>1. Slice(0, 0) = <<>>
      <3>1. 0 \in 0..Len(text)
        BY <1>3
      <3> QED
        BY <1>1, <3>1, EmptySlice DEF Slice
    <2>2. All(0, 0, WhiteSpace) /\ All(0, 0, IdentChars)
      BY OneMore
    <2> QED
      BY <1>2, <1>3, <2>1, <2>2 DEF InProgress, Progress
  <1>5. TokensSoFar
    BY <1>2 DEF TokensSoFar
  <1>6. ws = (At(0) \in WhiteSpace)
    BY DEF Init
  <1>7. Reading
    BY <1>2, <1>3, <1>4, <1>5, <1>6 DEF Reading
  <1> QED
    BY <1>1, <1>7 DEF LInv

LEMMA NextLInv == LInv /\ [Next]_vars => LInv'
  <1> SUFFICES ASSUME LInv, [Next]_vars PROVE LInv'
    OBVIOUS
  <1>1. IInv'
    BY NextIInv DEF LInv
  <1>2. text' = text
    BY DEF Next, Iterate, Finished, Runaway, vars, OpenComment, CommentChar, CommentEnd,
           OpenString, StringChar, StringEnd, StringNewline, OpenChar, CharChar, CharEnd,
           EndOfText, WordBeforePunctuation, WordBeforeSpace, TwoCharToken, OneCharToken,
           IdentChar, LeadingUnderscores, KeywordBeforeUnknown, Skip, Plain, Fail, Emit, EmitWord
  <1>3. Regular' <=> Regular
    BY <1>2 DEF Regular
  <1>4. ASSUME Regular PROVE Reading'
    <2>1. CASE Iterate
      BY <1>4, <2>1, IterateReads DEF LInv
    <2>2. CASE UNCHANGED vars
      <3>1. Reading
        BY <1>4 DEF LInv
      <3>2. TokensSoFar' /\ Call' = Call /\ At(Call)' = At(Call)
        BY <2>2, <3>1, SameTokens DEF Reading, vars
      <3>3. (InProgress \/ PastTheEnd)'
        <4>1. CASE InProgress
          <5>1. Start' = Start
            BY <2>2 DEF Start, Floor, vars
          <5> QED
            BY <2>2, <3>2, <4>1, <5>1, NewProgress DEF InProgress, vars
        <4>2. CASE PastTheEnd
          BY <2>2, <3>2, <4>2 DEF PastTheEnd, vars
        <4> QED
          BY <3>1, <4>1, <4>2 DEF Reading
      <3>4. /\ ws' = ws /\ status' = status /\ text' = text /\ tokens' = tokens
        BY <2>2 DEF vars
      <3>5. status' = "done" => All(Call, Len(text), WhiteSpace)'
        BY <3>1, <3>2, <3>4, TextOnly DEF All, Reading
      <3>6. ASSUME status' = "error", NEW q \in 0..Len(text), NEW e \in 0..Len(text)
            PROVE  ~IsLexeme(Call, q, e)'
        <4>1. ~IsLexeme(Call, q, e)
          BY <3>1, <3>4, <3>6 DEF Reading
        <4> QED
          BY <3>2, <3>4, <4>1, TextOnlyFrom DEF Call
      <3> QED
        BY <3>1, <3>2, <3>3, <3>4, <3>5, <3>6 DEF Reading
    <2> QED
      BY <2>1, <2>2 DEF Next, Finished, Runaway
  <1> QED
    BY <1>1, <1>3, <1>4 DEF LInv

THEOREM ReadingInductive == Spec => []LInv
  BY InitLInv, NextLInv, PTL DEF Spec

\* The lexer's tokens are exactly those of the text: the longest lexeme after the white
\* space at each place, with its kind, span, content and white space flag, up to the
\* end of the text, or to a place where there is none.
THEOREM TokensOfTheText == Spec => []LexesTheText
  <1>1. LInv => LexesTheText
    BY DEF LInv, Reading, TokensSoFar, Call, LexesTheText
  <1> QED
    BY <1>1, ReadingInductive, PTL

-----------------------------------------------------------------------------
(* The tokens in their source.                                               *)

\* Every token but a comment begins at a character of the text.
Begins(toks) == \A i \in 1..Len(toks) : toks[i].kind # "comment" => toks[i].start < Len(text)

\* What the buffer holds is what the text has in front of the position.  A string
\* over a line end has lost its place: the text has two characters where the lexer
\* has put one, and a string past the end of the text never closes.
BufferHolds(loop, p, chars) ==
  /\ loop = "plain" /\ chars # <<>> =>
       chars = Slice(p - Len(chars), p) /\ At(p - 1) \in IdentChars
  /\ loop = "string" /\ p <= Len(text) /\ Free(p - Len(chars), p, "\n") =>
       chars = Slice(p - Len(chars), p)

Worded == {"ident", "keyword", "string"}
HoldsItsText(t) ==
  t.kind \in Worded /\ Free(t.start, End(t), "\n") => t.text = Slice(t.start, End(t))

ReadInv ==
  /\ IInv
  /\ Begins(tokens)
  /\ Quotable => /\ BufferHolds(mode, pos, buf)
                 /\ \A i \in 1..Len(tokens) : HoldsItsText(tokens[i])

\* Offsets in bytes are places only in such texts: MCLexerLines has others.
OneByte == \A i \in 1..Len(text) : text[i] # "wide"
Narrow == Characters \ {"wide"}

\* What Source::make has after n characters: the lines it has pushed and a buffer.
Accs == [buf : Seq(Narrow), skip : BOOLEAN,
         lines : Seq([start : Nat, index : Nat, content : Seq(Narrow)])]

\* How many line ends there are in front of place p.
Ends(p) == Cardinality(Before(p + 1))

\* The characters of the k-th line and the first one of its line end have k - 1 line
\* ends in front of them, which is the line's number.
IsLine(l, k) == l.index = k - 1 /\ \A s \in l.start..EndChar(l) : Ends(s) = k - 1

\* Where the line after those begins.
NextStart(acc, n) == IF acc.skip THEN n + 1 ELSE n - Len(acc.buf)

\* The lines pushed are right, and all that is in front of the next one is in one,
\* but for line ends.
FedInv(acc, n) ==
  /\ acc \in Accs
  /\ acc.skip => n < Len(text) /\ text[n + 1] = "\n" /\ acc.buf = <<>>
  /\ Len(acc.buf) <= n
  /\ \A k \in 1..Len(acc.lines) : IsLine(acc.lines[k], k)
  /\ \A s \in 0..NextStart(acc, n) - 1 : At(s) # "\n" =>
       \E k \in 1..Len(acc.lines) : s \in acc.lines[k].start..EndChar(acc.lines[k])
  /\ Ends(NextStart(acc, n)) = Len(acc.lines)
  /\ \A s \in NextStart(acc, n)..n : Ends(s) = Len(acc.lines)

-----------------------------------------------------------------------------
(* What the tokens of the lexer hold.                                        *)

LEMMA Signs ==
  /\ \A c \in Punctuation : c \notin Worded
  /\ \A c \in {"=", "!", "<", ">"} : TwoCharKind(c) \notin Worded
  /\ "comment" \notin Worded /\ "char" \notin Worded
  /\ {"ident", "keyword", "string"} = Worded
  <1>1. \A c \in Punctuation : c \notin Worded
    BY DEF Punctuation, Worded
  <1>2. \A c \in {"=", "!", "<", ">"} : TwoCharKind(c) \in {"==", "!=", "<=", ">="}
    BY DEF TwoCharKind
  <1>3. \A c \in {"==", "!=", "<=", ">="} : c \notin Worded
    BY DEF Worded
  <1> QED
    BY <1>1, <1>2, <1>3 DEF Worded

LEMMA EmitReads ==
  ASSUME ReadInv, IInv', NEW kind \in Kinds, NEW start \in Nat, NEW len \in Nat,
         Emit(kind, start, len), kind # "comment" => start < Len(text),
         Quotable /\ kind \in Worded /\ Free(start, start + len, "\n") =>
           buf = Slice(start, start + len)
  PROVE  ReadInv'
  <1> DEFINE t == [kind |-> kind, start |-> start, len |-> len, ws |-> ws, text |-> buf]
  <1>1. t \in Tokens /\ End(t) = start + len /\ t.start = start /\ t.kind = kind /\ t.text = buf
    BY DEF Tokens, IInv, TypeOK, End, ReadInv
  <1>2. /\ tokens' = Append(tokens, t) /\ tokens \in Seq(Tokens)
        /\ buf' = <<>> /\ mode' = "plain" /\ text' = text
    BY DEF Emit, IInv, TypeOK, ReadInv
  <1>3. /\ Len(tokens') = Len(tokens) + 1
        /\ \A i \in 1..Len(tokens) : tokens'[i] = tokens[i]
        /\ tokens'[Len(tokens) + 1] = t
        /\ Len(tokens) \in Nat
    BY <1>1, <1>2
  <1> HIDE DEF t
  <1>4. Begins(tokens)'
    <2> SUFFICES ASSUME NEW i \in 1..Len(tokens'), tokens'[i].kind # "comment"
                 PROVE  tokens'[i].start < Len(text)
      BY <1>2 DEF Begins
    <2>1. CASE i \in 1..Len(tokens)
      BY <1>3, <2>1 DEF ReadInv, Begins
    <2>2. CASE i = Len(tokens) + 1
      BY <1>1, <1>3, <2>2
    <2> QED
      BY <1>3, <2>1, <2>2
  <1>5. ASSUME Quotable, NEW i \in 1..Len(tokens') PROVE HoldsItsText(tokens'[i])
    <2>1. CASE i \in 1..Len(tokens)
      BY <1>3, <1>5, <2>1 DEF ReadInv
    <2>2. CASE i = Len(tokens) + 1
      <3>1. HoldsItsText(t)
        BY <1>1, <1>5 DEF HoldsItsText
      <3> QED
        BY <1>3, <2>2, <3>1
    <2> QED
      BY <1>3, <2>1, <2>2
  <1>6. Quotable' <=> Quotable
    BY <1>2 DEF Quotable
  <1>7. ASSUME Quotable, NEW i \in 1..Len(tokens') PROVE HoldsItsText(tokens[i])'
    <2>1. HoldsItsText(tokens'[i])
      BY <1>5, <1>7
    <2> QED
      BY <1>2, <2>1, TextOnly DEF HoldsItsText, End
  <1>8. BufferHolds(mode, pos, buf)'
    BY <1>2 DEF BufferHolds
  <1> QED
    BY <1>4, <1>6, <1>7, <1>8 DEF ReadInv

LEMMA QuietReads ==
  ASSUME ReadInv, IInv', UNCHANGED <<text, tokens>>,
         Quotable => BufferHolds(mode', pos', buf')
  PROVE  ReadInv'
  <1>1. Begins(tokens)'
    BY DEF ReadInv, Begins
  <1>2. Quotable' <=> Quotable
    BY DEF Quotable
  <1>3. ASSUME Quotable, NEW i \in 1..Len(tokens) PROVE HoldsItsText(tokens[i])'
    BY <1>3, TextOnly DEF ReadInv, HoldsItsText, End
  <1>4. BufferHolds(mode', pos', buf') => BufferHolds(mode, pos, buf)'
    BY TextOnly DEF BufferHolds
  <1> QED
    BY <1>1, <1>2, <1>3, <1>4 DEF ReadInv

LEMMA QuotableCharacters ==
  ASSUME TypeOK, Quotable, NEW p \in Nat
  PROVE  /\ ~Unknown(At(p))
         /\ At(p) \in IdentChars => At(p + 1) # Quote
  <1>1. Len(text) \in Nat
    BY DEF TypeOK
  <1>2. CASE p < Len(text)
    <2>1. p + 1 \in 1..Len(text) /\ At(p) = text[p + 1]
      BY <1>1, <1>2 DEF At
    <2>2. ~Unknown(At(p))
      BY <2>1 DEF Quotable
    <2>3. CASE p + 1 < Len(text)
      <3>1. p + 1 \in 1..Len(text) - 1 /\ At(p + 1) = text[(p + 1) + 1]
        BY <1>1, <2>3 DEF At
      <3> QED
        BY <2>1, <2>2, <3>1 DEF Quotable
    <2>4. CASE ~(p + 1 < Len(text))
      <3>1. At(p + 1) = EOF
        BY <1>1, <2>4 DEF At
      <3> QED
        BY <2>2, <3>1, Classes
    <2> QED
      BY <2>3, <2>4
  <1>3. CASE ~(p < Len(text))
    <2>1. At(p) = EOF
      BY <1>1, <1>3 DEF At
    <2> QED
      BY <2>1, Classes DEF Unknown
  <1> QED
    BY <1>2, <1>3

\* One more character in the buffer.
LEMMA LongerBuffer ==
  ASSUME TypeOK, Len(buf) <= pos, NEW n \in Nat, n = Len(buf), pos < Len(text),
         buf = Slice(pos - n, pos)
  PROVE  /\ Append(buf, Peek) = Slice(pos - n, pos + 1)
         /\ Len(Append(buf, Peek)) = n + 1
         /\ pos + 1 - Len(Append(buf, Peek)) = pos - n
  <1>1. pos - n \in Nat /\ pos \in Nat /\ pos - n <= pos
    BY DEF TypeOK
  <1>2. Slice(pos - n, pos + 1) = Append(Slice(pos - n, pos), At(pos))
    BY <1>1, LongerSlice
  <1>3. Len(Append(buf, Peek)) = n + 1
    BY DEF TypeOK
  <1> QED
    BY <1>1, <1>2, <1>3 DEF Peek

LEMMA IterateReadsBack ==
  ASSUME ReadInv, IInv', Iterate
  PROVE  ReadInv'
  <1>0. /\ IInv /\ TypeOK /\ LoopsInText
        /\ pos \in Nat /\ line \in Nat /\ mark \in Nat /\ count \in Nat
        /\ Len(text) \in Nat /\ Len(buf) \in Nat /\ Len(buf) <= pos
        /\ buf # <<>> => Len(buf) >= 1
    BY DEF ReadInv, IInv, TypeOK, LoopsInText
  <1>a. Peek # EOF => pos < Len(text)
    BY <1>0, CharacterRead DEF Peek
  <1>b. Quotable => ~Unknown(Peek)
    BY <1>0, QuotableCharacters DEF Peek
  <1>1. CASE CommentEnd
    <2>1. mark + 3 <= pos
      BY <1>0, <1>1 DEF CommentEnd, LoopsInText
    <2>2. Emit("comment", mark, pos - mark - 1)
      BY <1>1 DEF CommentEnd
    <2>3. pos - mark - 1 \in Nat /\ "comment" \in Kinds
      BY <1>0, <2>1 DEF Kinds
    <2> QED
      BY <1>0, <2>2, <2>3, EmitReads, Signs
  <1>2. CASE StringEnd
    <2>1. pos < Len(text)
      BY <1>2, <1>a DEF StringEnd, EOF, Quote
    <2>2. Emit("string", pos - Len(buf), Len(buf))
      BY <1>2 DEF StringEnd, EmitWord
    <2>3. pos - Len(buf) \in Nat /\ "string" \in Kinds /\ pos - Len(buf) < Len(text)
          /\ pos - Len(buf) + Len(buf) = pos /\ pos <= Len(text)
      BY <1>0, <2>1 DEF Kinds
    <2>4. Quotable /\ Free(pos - Len(buf), pos, "\n") => buf = Slice(pos - Len(buf), pos)
      BY <1>2, <2>3 DEF StringEnd, ReadInv, BufferHolds
    <2> QED
      BY <1>0, <2>2, <2>3, <2>4, EmitReads
  <1>3. CASE (EndOfText /\ buf # <<>>) \/ WordBeforePunctuation \/ WordBeforeSpace
    <2>1. /\ Plain /\ buf # <<>>
          /\ \E kind \in {"ident", "keyword"} : EmitWord(kind)
      BY <1>3 DEF EndOfText, WordBeforePunctuation, WordBeforeSpace, WordKind
    <2>2. PICK kind \in {"ident", "keyword"} : Emit(kind, pos - Len(buf), Len(buf))
      BY <2>1 DEF EmitWord
    <2>3. pos - Len(buf) \in Nat /\ kind \in Kinds /\ pos - Len(buf) + Len(buf) = pos
          /\ pos - Len(buf) < Len(text) /\ kind # "comment"
      BY <1>0, <2>1 DEF LoopsInText, Kinds, Plain
    <2>4. Quotable => buf = Slice(pos - Len(buf), pos)
      BY <2>1 DEF Plain, ReadInv, BufferHolds
    <2> QED
      BY <1>0, <2>2, <2>3, <2>4, EmitReads
  <1>4. CASE KeywordBeforeUnknown
    <2>1. Peek # EOF
      BY <1>4 DEF KeywordBeforeUnknown, Unknown
    <2>2. Emit("keyword", pos - Len(buf), Len(buf)) /\ ~Quotable
      BY <1>4, <1>b DEF KeywordBeforeUnknown, EmitWord
    <2>3. pos - Len(buf) \in Nat /\ "keyword" \in Kinds /\ pos - Len(buf) < Len(text)
      BY <1>0, <1>a, <2>1 DEF Kinds
    <2> QED
      BY <1>0, <2>2, <2>3, EmitReads
  <1>5. CASE CharEnd
    <2>1. /\ Peek # EOF /\ Emit("char", mark, count + 1) /\ mark + count <= pos
      BY <1>0, <1>5 DEF CharEnd, EOF, LoopsInText
    <2>2. count + 1 \in Nat /\ "char" \in Kinds /\ mark < Len(text)
      BY <1>0, <1>a, <1>5, <2>1 DEF Kinds, LoopsInText, CharEnd
    <2> QED
      BY <1>0, <2>1, <2>2, EmitReads, Signs
  <1>6. CASE TwoCharToken
    <2>1. Peek \in {"=", "!", "<", ">"} /\ Emit(TwoCharKind(Peek), pos, 2)
      BY <1>6 DEF TwoCharToken
    <2>2. pos < Len(text)
      BY <1>a, <2>1 DEF EOF
    <2>3. TwoCharKind(Peek) \in Kinds
      BY <2>1 DEF TwoCharKind, Kinds
    <2>4. TwoCharKind(Peek) \notin Worded
      BY <2>1, Signs
    <2> QED
      BY <1>0, <2>1, <2>2, <2>3, <2>4, EmitReads
  <1>7. CASE OneCharToken
    <2>1. Peek \in Punctuation /\ Emit(Peek, pos, 1)
      BY <1>7 DEF OneCharToken
    <2>2. pos < Len(text)
      BY <1>a, <2>1, Classes
    <2>3. Peek \in Kinds /\ Peek \notin Worded
      BY <2>1, Signs DEF Kinds
    <2> QED
      BY <1>0, <2>1, <2>2, <2>3, EmitReads
  <1>8. CASE OpenComment \/ CommentChar \/ OpenChar \/ CharChar
    <2>1. UNCHANGED <<text, tokens>> /\ mode' \in {"comment", "char"}
      BY <1>8 DEF OpenComment, CommentChar, OpenChar, CharChar
    <2>2. BufferHolds(mode', pos', buf')
      BY <2>1 DEF BufferHolds
    <2> QED
      BY <1>0, <2>1, <2>2, QuietReads
  <1>9. CASE OpenString
    <2>1. UNCHANGED <<text, tokens, buf>> /\ mode' = "string" /\ mode = "plain" /\ Peek = Quote
      BY <1>9 DEF OpenString, Plain
    <2>2. pos' = pos + 1
      BY <1>9, <2>1, Classes DEF OpenString, Advance, Step, Peek, Quote
    <2>3. pos < Len(text)
      BY <1>a, <2>1, Classes
    <2>4. ASSUME Quotable PROVE buf = <<>>
      <3>1. SUFFICES ASSUME buf # <<>> PROVE FALSE
        OBVIOUS
      <3>2. At(pos - 1) \in IdentChars
        BY <2>1, <2>4, <3>1 DEF ReadInv, BufferHolds
      <3>3. pos - 1 \in Nat /\ (pos - 1) + 1 = pos
        BY <1>0, <3>1
      <3> QED
        BY <1>0, <2>1, <2>4, <3>2, <3>3, QuotableCharacters DEF Peek
    <2>5. ASSUME Quotable PROVE BufferHolds(mode', pos', buf')
      <3>1. Len(buf') = 0 /\ buf' = <<>>
        BY <2>1, <2>4, <2>5
      <3>2. pos + 1 \in 0..Len(text) /\ pos + 1 - Len(buf') = pos + 1
        BY <1>0, <2>3, <3>1
      <3>3. Slice(pos + 1, pos + 1) = <<>>
        BY <1>0, <3>2, EmptySlice DEF Slice
      <3> QED
        BY <2>1, <2>2, <3>1, <3>2, <3>3 DEF BufferHolds
    <2> QED
      BY <1>0, <2>1, <2>5, QuietReads
  <1>10. CASE StringChar
    <2>1. /\ UNCHANGED <<text, tokens, mode>> /\ mode = "string" /\ buf' = Append(buf, Peek)
          /\ Advance
      BY <1>10 DEF StringChar
    <2>2. Len(buf') = Len(buf) + 1
      BY <1>0, <2>1 DEF TypeOK
    <2>3. ASSUME Quotable, pos' <= Len(text), Free(pos' - Len(buf'), pos', "\n")
          PROVE  buf' = Slice(pos' - Len(buf'), pos')
      <3>1. pos' = Step(pos)
        BY <2>1 DEF Advance
      <3>2. CASE At(pos) = "\r" /\ At(pos + 1) = "\n"
        <4>1. pos' = pos + 2
          BY <3>1, <3>2 DEF Step
        <4>2. pos + 1 \in pos' - Len(buf')..pos' - 1
          BY <1>0, <2>2, <4>1
        <4> QED
          BY <2>3, <3>2, <4>2 DEF Free
      <3>3. CASE ~(At(pos) = "\r" /\ At(pos + 1) = "\n")
        <4>1. pos' = pos + 1
          BY <3>1, <3>3 DEF Step
        <4>2. pos < Len(text) /\ pos' - Len(buf') = pos - Len(buf)
          BY <1>0, <2>2, <2>3, <4>1
        <4>3. Free(pos - Len(buf), pos, "\n")
          <5>1. \A i \in pos - Len(buf)..pos - 1 : i \in pos' - Len(buf')..pos' - 1
            BY <1>0, <4>1, <4>2
          <5> QED
            BY <2>3, <5>1 DEF Free
        <4>4. buf = Slice(pos - Len(buf), pos)
          BY <1>0, <2>1, <2>3, <4>2, <4>3 DEF ReadInv, BufferHolds
        <4> QED
          BY <1>0, <2>1, <4>1, <4>2, <4>4, LongerBuffer
      <3> QED
        BY <3>2, <3>3
    <2>4. Quotable => BufferHolds(mode', pos', buf')
      BY <2>1, <2>3 DEF BufferHolds
    <2> QED
      BY <1>0, <2>1, <2>4, QuietReads
  <1>11. CASE IdentChar
    <2>1. /\ UNCHANGED <<text, tokens, mode>> /\ mode = "plain" /\ buf' = Append(buf, Peek)
          /\ Advance /\ Peek \in IdentChars
      BY <1>11 DEF IdentChar, Plain
    <2>2. pos < Len(text)
      BY <1>a, <2>1, Classes
    <2>3. pos' = pos + 1
      <3>1. At(pos) # "\r"
        BY <2>1 DEF Peek, IdentChars, Underscore
      <3> QED
        BY <2>1, <3>1 DEF Advance, Step
    <2>4. ASSUME Quotable PROVE buf = Slice(pos - Len(buf), pos)
      <3>1. CASE buf = <<>>
        <4>1. Len(buf) = 0 /\ pos \in 0..Len(text) /\ pos - Len(buf) = pos
          BY <1>0, <2>2, <3>1
        <4> QED
          BY <1>0, <3>1, <4>1, EmptySlice DEF Slice
      <3>2. CASE buf # <<>>
        BY <2>1, <2>4, <3>2 DEF ReadInv, BufferHolds
      <3> QED
        BY <3>1, <3>2
    <2>5. ASSUME Quotable PROVE BufferHolds(mode', pos', buf')
      <3>1. buf' = Slice(pos' - Len(buf'), pos') /\ pos' - 1 = pos
        BY <1>0, <2>1, <2>2, <2>3, <2>4, <2>5, LongerBuffer
      <3> QED
        BY <2>1, <3>1 DEF BufferHolds, Peek
    <2> QED
      BY <1>0, <2>1, <2>5, QuietReads
  <1>12. CASE (EndOfText /\ buf = <<>>) \/ StringNewline \/ LeadingUnderscores
    <2>1. UNCHANGED <<text, pos, mode, buf, tokens>>
      BY <1>12 DEF EndOfText, StringNewline, LeadingUnderscores, Fail
    <2> QED
      BY <1>0, <2>1, QuietReads DEF ReadInv
  <1>13. CASE Skip
    <2>1. UNCHANGED <<text, tokens, mode, buf>> /\ mode = "plain"
      BY <1>13 DEF Skip, Plain
    <2>2. Quotable => buf = <<>>
      BY <1>13, <1>b DEF Skip
    <2>3. Quotable => BufferHolds(mode', pos', buf')
      BY <2>1, <2>2 DEF BufferHolds
    <2> QED
      BY <1>0, <2>1, <2>3, QuietReads
  <1> QED
    BY <1>1, <1>2, <1>3, <1>4, <1>5, <1>6, <1>7, <1>8, <1>9, <1>10, <1>11, <1>12, <1>13 DEF Iterate

LEMMA NextReadInv == ReadInv /\ [Next]_vars => ReadInv'
  <1> SUFFICES ASSUME ReadInv, [Next]_vars PROVE ReadInv'
    OBVIOUS
  <1>1. IInv'
    BY NextIInv DEF ReadInv
  <1>2. CASE Iterate
    BY <1>1, <1>2, IterateReadsBack
  <1>3. CASE UNCHANGED vars
    BY <1>1, <1>3, QuietReads DEF vars, ReadInv
  <1> QED
    BY <1>2, <1>3 DEF Next, Finished, Runaway

LEMMA InitReadInv == Init => ReadInv
  <1> SUFFICES ASSUME Init PROVE ReadInv
    OBVIOUS
  <1>1. buf = <<>> /\ tokens = <<>> /\ mode = "plain" /\ Len(tokens) = 0
    BY DEF Init
  <1> QED
    BY <1>1, InitIInv DEF ReadInv, Begins, BufferHolds

THEOREM ReadInvHolds == Spec => []ReadInv
  BY InitReadInv, NextReadInv, PTL DEF Spec

-----------------------------------------------------------------------------
(* Slicing bytes where every character is one.                               *)

LEMMA BytesOfNarrow ==
  ASSUME NEW S, NEW chars \in Seq(S), \A i \in 1..Len(chars) : chars[i] # "wide"
  PROVE  Bytes(chars) = Len(chars) /\ Len(chars) \in Nat
  <1>1. {i \in 1..Len(chars) : Width(chars[i]) = 2} = {}
    BY DEF Width
  <1>2. Cardinality({i \in 1..Len(chars) : Width(chars[i]) = 2}) = 0
    BY <1>1, FS_EmptySet
  <1>3. Len(chars) \in Nat
    OBVIOUS
  <1>4. Bytes(chars) = Len(chars) + 0
    BY <1>2 DEF Bytes
  <1> QED
    BY <1>3, <1>4

LEMMA Offsets ==
  ASSUME TypeOK, OneByte, NEW n \in 0..Len(text)
  PROVE  Offset(n) = n
  <1>1. /\ SubSeq(text, 1, n) \in Seq(Characters) /\ Len(SubSeq(text, 1, n)) = n
        /\ \A i \in 1..n : SubSeq(text, 1, n)[i] = text[i]
    BY DEF TypeOK
  <1>2. \A i \in 1..n : i \in 1..Len(text)
    BY DEF TypeOK
  <1>3. Bytes(SubSeq(text, 1, n)) = Len(SubSeq(text, 1, n))
    BY <1>1, <1>2, BytesOfNarrow DEF OneByte
  <1> QED
    BY <1>1, <1>3 DEF Offset

LEMMA ContentIsSlice ==
  ASSUME TypeOK, OneByte, NEW s \in Nat, NEW l \in Nat, s + l <= Len(text)
  PROVE  Content(s, l) = Slice(s, s + l)
  <1> DEFINE place(o) == CHOOSE n \in 0..Len(text) : Offset(n) = o
  <1>1. s \in 0..Len(text) /\ s + l \in 0..Len(text) /\ s <= s + l
    BY DEF TypeOK
  <1>2. \A o \in 0..Len(text) : place(o) = o
    <2> SUFFICES ASSUME NEW o \in 0..Len(text) PROVE place(o) = o
      OBVIOUS
    <2>1. \A n \in 0..Len(text) : Offset(n) = o <=> n = o
      BY Offsets
    <2> QED
      BY <2>1
  <1>3. {s, s + l} \subseteq {Offset(n) : n \in 0..Len(text)}
    BY <1>1, Offsets
  <1>4. place(s) = s /\ place(s + l) = s + l
    BY <1>1, <1>2
  <1>5. Cut(s, s + l) = Slice(place(s), place(s + l))
    BY <1>1, <1>3 DEF Cut
  <1> QED
    BY <1>4, <1>5 DEF Content

\* Reading the span of a word or a string of one line out of the file gives the
\* characters the lexer has put into its buffer, whatever the text: names.
THEOREM SpansReadBack == Spec => [](OneByte => TokensReadBack)
  <1>1. ASSUME ReadInv, OneByte PROVE TokensReadBack
    <2> SUFFICES ASSUME Quotable, NEW i \in 1..Len(tokens), tokens[i].kind \in Worded,
                        Free(tokens[i].start, End(tokens[i]), "\n")
                 PROVE  Content(tokens[i].start, tokens[i].len) = tokens[i].text
      BY Signs DEF TokensReadBack, Parsed
    <2>1. TypeOK /\ tokens[i] \in Tokens /\ End(tokens[i]) <= Len(text)
      BY <1>1 DEF ReadInv, IInv, TypeOK, SpansInText
    <2>2. /\ tokens[i].start \in Nat /\ tokens[i].len \in Nat
          /\ End(tokens[i]) = tokens[i].start + tokens[i].len
      BY <2>1, TokenFields
    <2>3. tokens[i].text = Slice(tokens[i].start, End(tokens[i]))
      BY <1>1 DEF ReadInv, HoldsItsText
    <2> QED
      BY <1>1, <2>1, <2>2, <2>3, ContentIsSlice
  <1> QED
    BY <1>1, ReadInvHolds, PTL

-----------------------------------------------------------------------------
(* The loop over the characters.                                             *)

LEMMA LeastNat ==
  ASSUME NEW S \in SUBSET Nat, S # {}
  PROVE  \E m \in S : \A n \in S : m <= n
  <1>1. IsWellFoundedOn({ss \in Nat \X Nat : ss[1] < ss[2]}, Nat)
    BY NatLessThanWellFounded DEF OpToRel
  <1>2. PICK m \in S : \A n \in S : ~(<<n, m>> \in {ss \in Nat \X Nat : ss[1] < ss[2]})
    BY <1>1, WFMin
  <1>3. ASSUME NEW n \in S PROVE m <= n
    <2>1. n \in Nat /\ m \in Nat
      OBVIOUS
    <2>2. n < m => <<n, m>> \in {ss \in Nat \X Nat : ss[1] < ss[2]}
      BY <2>1
    <2> QED
      BY <1>2, <2>1, <2>2
  <1> QED
    BY <1>3

\* Induction, for a set instead of a predicate.
LEMMA UpTo ==
  ASSUME NEW m \in Nat, NEW S, 0 \in S, \A n \in 1..m : n - 1 \in S => n \in S
  PROVE  \A n \in 0..m : n \in S
  <1> DEFINE B == {n \in 0..m : n \notin S}
  <1> SUFFICES ASSUME B # {} PROVE FALSE
    OBVIOUS
  <1>0. B \in SUBSET Nat
    OBVIOUS
  <1> HIDE DEF B
  <1>1. PICK n \in B : \A k \in B : n <= k
    BY <1>0, LeastNat
  <1> USE DEF B
  <1>2. n \in 0..m /\ n # 0
    BY <1>1
  <1>3. n - 1 \in 0..m /\ ~(n <= n - 1) /\ n \in 1..m
    BY <1>2
  <1>4. n - 1 \in S
    BY <1>1, <1>3
  <1> QED
    BY <1>1, <1>3, <1>4

FedUpTo(f, m) == f = [n \in 0..m |-> IF n = 0 THEN Empty ELSE Feed(f[n - 1], n)]

LEMMA FedExists ==
  ASSUME NEW m \in Nat
  PROVE  \E f : FedUpTo(f, m)
  <1> DEFINE S == {n \in 0..m : \E f : FedUpTo(f, n)}
  <1>1. 0 \in S
    <2> DEFINE g == [n \in 0..0 |-> Empty]
    <2>1. g = [n \in 0..0 |-> IF n = 0 THEN Empty ELSE Feed(g[n - 1], n)]
      OBVIOUS
    <2>2. FedUpTo(g, 0)
      BY <2>1 DEF FedUpTo
    <2> QED
      BY <2>2
  <1>2. ASSUME NEW n \in 1..m, n - 1 \in S PROVE n \in S
    <2>1. PICK f : FedUpTo(f, n - 1)
      BY <1>2
    <2> DEFINE g == [i \in 0..n |-> IF i = n THEN Feed(f[n - 1], n) ELSE f[i]]
    <2>2. \A i \in 0..n - 1 : g[i] = f[i]
      OBVIOUS
    <2>3. ASSUME NEW i \in 0..n
          PROVE  g[i] = IF i = 0 THEN Empty ELSE Feed(g[i - 1], i)
      <3>1. CASE i = n
        <4>1. n - 1 \in 0..n - 1
          OBVIOUS
        <4>2. g[n] = Feed(f[n - 1], n) /\ g[n - 1] = f[n - 1] /\ n # 0
          BY <2>2, <4>1
        <4> QED
          BY <3>1, <4>2
      <3>2. CASE i # n
        <4>1. i \in 0..n - 1 /\ (i # 0 => i - 1 \in 0..n - 1)
          BY <3>2
        <4>2. f[i] = IF i = 0 THEN Empty ELSE Feed(f[i - 1], i)
          BY <2>1, <4>1 DEF FedUpTo
        <4> QED
          BY <2>2, <4>1, <4>2
      <3> QED
        BY <3>1, <3>2
    <2>4. g = [i \in 0..n |-> g[i]]
      OBVIOUS
    <2> HIDE DEF g
    <2>5. g = [i \in 0..n |-> IF i = 0 THEN Empty ELSE Feed(g[i - 1], i)]
      BY <2>3, <2>4
    <2>6. FedUpTo(g, n)
      BY <2>5 DEF FedUpTo
    <2> QED
      BY <1>2, <2>6
  <1> HIDE DEF S
  <1>3. \A n \in 0..m : n \in S
    BY <1>1, <1>2, UpTo
  <1>4. m \in S
    BY <1>3
  <1> QED
    BY <1>4 DEF S

LEMMA FedUnfolds ==
  ASSUME TypeOK
  PROVE  /\ Fed[0] = Empty
         /\ \A n \in 1..Len(text) : Fed[n] = Feed(Fed[n - 1], n)
  <1>1. Len(text) \in Nat
    BY DEF TypeOK
  <1>2. Fed = CHOOSE f : f = [n \in 0..Len(text) |-> IF n = 0 THEN Empty ELSE Feed(f[n - 1], n)]
    BY DEF Fed
  <1>3. \E f : f = [n \in 0..Len(text) |-> IF n = 0 THEN Empty ELSE Feed(f[n - 1], n)]
    BY <1>1, FedExists DEF FedUpTo
  <1>4. Fed = [n \in 0..Len(text) |-> IF n = 0 THEN Empty ELSE Feed(Fed[n - 1], n)]
    BY <1>2, <1>3
  <1> HIDE DEF Fed
  <1> QED
    BY <1>1, <1>4

\* Counting the line ends in front of a place.
LEMMA EndsCount ==
  ASSUME TypeOK
  PROVE  /\ Ends(0) = 0
         /\ \A p \in Nat : Ends(p) \in Nat
         /\ \A p \in 0..Len(text) - 1 : Ends(p + 1) = Ends(p) + IF At(p) = "\n" THEN 1 ELSE 0
  <1>1. Len(text) \in Nat
    BY DEF TypeOK
  <1>2. \A q : IsFiniteSet(Before(q))
    <2>1. IsFiniteSet(1..Len(text))
      BY <1>1, FS_Interval
    <2>2. \A q : Before(q) \subseteq 1..Len(text)
      BY DEF Before, LineEnds
    <2> QED
      BY <2>1, <2>2, FS_Subset
  <1>3. \A p \in Nat : Ends(p) \in Nat
    BY <1>2, FS_CardinalityType DEF Ends
  <1>4. Ends(0) = 0
    <2>1. Before(0 + 1) = {}
      BY <1>1 DEF Before, LineEnds
    <2> QED
      BY <2>1, FS_EmptySet DEF Ends
  <1>5. ASSUME NEW p \in 0..Len(text) - 1
        PROVE  Ends(p + 1) = Ends(p) + IF At(p) = "\n" THEN 1 ELSE 0
    <2>1. At(p) = text[p + 1] /\ p + 1 \in 1..Len(text)
      BY <1>1 DEF At
    <2>2. CASE At(p) = "\n"
      <3>1. Before((p + 1) + 1) = Before(p + 1) \cup {p + 1} /\ p + 1 \notin Before(p + 1)
        <4>1. p + 1 \in LineEnds
          BY <2>1, <2>2 DEF LineEnds
        <4>2. LineEnds \subseteq Nat /\ p \in Nat
          BY <1>1 DEF LineEnds
        <4>3. \A j \in Nat : j < (p + 1) + 1 <=> (j < p + 1 \/ j = p + 1)
          BY <4>2
        <4>4. \A j \in LineEnds : j < (p + 1) + 1 <=> (j < p + 1 \/ j = p + 1)
          BY <4>2, <4>3
        <4>5. ~(p + 1 < p + 1)
          BY <4>2
        <4> QED
          BY <4>1, <4>4, <4>5, Zenon DEF Before
      <3>2. Cardinality(Before(p + 1) \cup {p + 1}) = Cardinality(Before(p + 1)) + 1
        BY <1>2, <3>1, FS_AddElement
      <3> QED
        BY <2>2, <3>1, <3>2 DEF Ends
    <2>3. CASE At(p) # "\n"
      <3>1. Before((p + 1) + 1) = Before(p + 1)
        BY <1>1, <2>1, <2>3 DEF Before, LineEnds
      <3>2. Ends(p) \in Nat
        BY <1>3
      <3> QED
        BY <2>3, <3>1, <3>2 DEF Ends
    <2> QED
      BY <2>2, <2>3
  <1> QED
    BY <1>3, <1>4, <1>5

LEMMA AccFields ==
  ASSUME NEW a \in Accs
  PROVE  /\ a.buf \in Seq(Narrow) /\ a.skip \in BOOLEAN /\ Len(a.buf) \in Nat
         /\ a.lines \in Seq([start : Nat, index : Nat, content : Seq(Narrow)])
         /\ Len(a.lines) \in Nat /\ Bytes(a.buf) = Len(a.buf)
  <1>1. /\ a.buf \in Seq(Narrow) /\ a.skip \in BOOLEAN
        /\ a.lines \in Seq([start : Nat, index : Nat, content : Seq(Narrow)])
    BY DEF Accs
  <1>2. \A i \in 1..Len(a.buf) : a.buf[i] # "wide"
    BY <1>1 DEF Narrow
  <1>3. Bytes(a.buf) = Len(a.buf)
    BY <1>1, <1>2, BytesOfNarrow
  <1> QED
    BY <1>1, <1>3

LEMMA TwoFields ==
  ASSUME NEW S, NEW T, NEW R, NEW a \in [buf : S, skip : T, lines : R], NEW u \in R, NEW v \in S
  PROVE  /\ [a EXCEPT !.lines = u, !.buf = v] \in [buf : S, skip : T, lines : R]
         /\ [a EXCEPT !.lines = u, !.buf = v].buf = v
         /\ [a EXCEPT !.lines = u, !.buf = v].lines = u
         /\ [a EXCEPT !.lines = u, !.buf = v].skip = a.skip
  OBVIOUS

\* The line in the buffer is right.
LEMMA PushKeeps ==
  ASSUME TypeOK, NEW n \in 1..Len(text), NEW a, FedInv(a, n - 1), ~a.skip
  PROVE  /\ PushLine(a, n) \in Accs
         /\ PushLine(a, n).buf = <<>> /\ PushLine(a, n).skip = FALSE
         /\ Len(PushLine(a, n).lines) = Len(a.lines) + 1
         /\ \A k \in 1..Len(a.lines) + 1 : IsLine(PushLine(a, n).lines[k], k)
         /\ \A s \in 0..n - 1 : At(s) # "\n" =>
              \E k \in 1..Len(a.lines) + 1 :
                s \in PushLine(a, n).lines[k].start..EndChar(PushLine(a, n).lines[k])
         /\ Ends(n - 1) = Len(a.lines)
  <1> DEFINE l == [start |-> n - 1 - Len(a.buf), index |-> Len(a.lines), content |-> a.buf]
             p == PushLine(a, n)
             b == n - 1 - Len(a.buf)
  <1>1. /\ a \in Accs /\ n - 1 \in Nat /\ Len(a.buf) <= n - 1 /\ NextStart(a, n - 1) = b
    BY DEF FedInv, NextStart, TypeOK
  <1>2. /\ a.buf \in Seq(Narrow) /\ Len(a.buf) \in Nat /\ Bytes(a.buf) = Len(a.buf)
        /\ a.lines \in Seq([start : Nat, index : Nat, content : Seq(Narrow)])
        /\ Len(a.lines) \in Nat
    BY <1>1, AccFields
  <1>a. Len(a.buf) \in Nat /\ Len(a.lines) \in Nat /\ b \in Nat /\ n \in Nat /\ b <= n - 1
    BY <1>1, <1>2
  <1>b. Bytes(a.buf) = Len(a.buf)
    BY <1>2
  <1>4. l \in [start : Nat, index : Nat, content : Seq(Narrow)]
    BY <1>1, <1>2
  <1>5. EndChar(l) = n - 1 /\ l.start = b /\ l.index = Len(a.lines)
    <2>1. l.start = b /\ l.index = Len(a.lines) /\ l.content = a.buf
      OBVIOUS
    <2> HIDE DEF l
    <2>2. EndChar(l) = b + Len(a.buf)
      BY <1>b, <2>1 DEF EndChar
    <2> QED
      BY <1>a, <2>1, <2>2
  <1> HIDE DEF l
  <1>6. /\ Append(a.lines, l) \in Seq([start : Nat, index : Nat, content : Seq(Narrow)])
        /\ Len(Append(a.lines, l)) = Len(a.lines) + 1
        /\ \A k \in 1..Len(a.lines) : Append(a.lines, l)[k] = a.lines[k]
        /\ Append(a.lines, l)[Len(a.lines) + 1] = l
    BY <1>2, <1>4
  <1>7. p \in Accs /\ p.buf = <<>> /\ p.skip = FALSE /\ p.lines = Append(a.lines, l)
    <2>1. p = [a EXCEPT !.lines = Append(a.lines, l), !.buf = <<>>]
      BY <1>b DEF PushLine, l
    <2>2. <<>> \in Seq(Narrow)
      OBVIOUS
    <2> HIDE DEF p
    <2>3. a.skip = FALSE
      BY <1>1 DEF Accs
    <2> QED
      BY <1>1, <1>6, <2>1, <2>2, <2>3, TwoFields DEF Accs
  <1> HIDE DEF p
  <1> HIDE DEF b
  <1>8. \A s \in b..n - 1 : Ends(s) = Len(a.lines)
    BY <1>1 DEF FedInv
  <1>9. IsLine(l, Len(a.lines) + 1)
    <2>1. Len(a.lines) + 1 - 1 = Len(a.lines)
      BY <1>a
    <2> QED
      BY <1>5, <1>8, <2>1 DEF IsLine
  <1>10. \A k \in 1..Len(a.lines) + 1 : IsLine(p.lines[k], k)
    <2> SUFFICES ASSUME NEW k \in 1..Len(a.lines) + 1 PROVE IsLine(p.lines[k], k)
      OBVIOUS
    <2>1. CASE k = Len(a.lines) + 1
      BY <1>6, <1>7, <1>9, <2>1
    <2>2. CASE k \in 1..Len(a.lines)
      BY <1>6, <1>7, <2>2 DEF FedInv
    <2> QED
      BY <1>a, <2>1, <2>2
  <1>11. ASSUME NEW s \in 0..n - 1, At(s) # "\n"
         PROVE  \E k \in 1..Len(a.lines) + 1 : s \in p.lines[k].start..EndChar(p.lines[k])
    <2>1. CASE s < b
      <3>1. s \in 0..NextStart(a, n - 1) - 1
        BY <1>1, <1>a, <2>1
      <3>2. PICK k \in 1..Len(a.lines) : s \in a.lines[k].start..EndChar(a.lines[k])
        BY <1>11, <3>1 DEF FedInv
      <3>3. p.lines[k] = a.lines[k] /\ k \in 1..Len(a.lines) + 1
        BY <1>a, <1>6, <1>7
      <3> QED
        BY <3>2, <3>3
    <2>2. CASE b <= s
      <3>1. s \in l.start..EndChar(l)
        BY <1>a, <1>5, <2>2
      <3>2. p.lines[Len(a.lines) + 1] = l /\ Len(a.lines) + 1 \in 1..Len(a.lines) + 1
        BY <1>a, <1>6, <1>7
      <3> QED
        BY <3>1, <3>2
    <2> QED
      BY <1>a, <2>1, <2>2
  <1>12. Ends(n - 1) = Len(a.lines)
    BY <1>a, <1>8
  <1> QED
    BY <1>6, <1>7, <1>10, <1>11, <1>12 DEF p

LEMMA FeedKeeps ==
  ASSUME TypeOK, OneByte, NEW n \in 1..Len(text), NEW a, FedInv(a, n - 1)
  PROVE  FedInv(Feed(a, n), n)
  <1>1. /\ a \in Accs /\ n - 1 \in Nat /\ n \in Nat /\ Len(text) \in Nat
        /\ Len(a.buf) <= n - 1
        /\ At(n - 1) = text[n] /\ (n - 1) + 1 = n
    BY DEF FedInv, TypeOK, At
  <1>2. /\ a.buf \in Seq(Narrow) /\ Len(a.buf) \in Nat /\ a.skip \in BOOLEAN
        /\ a.lines \in Seq([start : Nat, index : Nat, content : Seq(Narrow)])
        /\ Len(a.lines) \in Nat
    BY <1>1, AccFields
  <1>a. Len(a.buf) \in Nat /\ Len(a.lines) \in Nat
    BY <1>2
  <1>3. Ends(n) = Ends(n - 1) + IF text[n] = "\n" THEN 1 ELSE 0
    <2>1. n - 1 \in 0..Len(text) - 1
      BY <1>1
    <2> QED
      BY <1>1, <2>1, EndsCount
  <1>4. CASE a.skip
    <2> DEFINE f == [a EXCEPT !.skip = FALSE]
    <2>1. Feed(a, n) = f
      BY <1>4 DEF Feed
    <2>2. f \in Accs /\ f.skip = FALSE /\ f.buf = a.buf /\ f.lines = a.lines
      BY <1>1 DEF Accs
    <2> HIDE DEF f
    <2>3. a.buf = <<>> /\ Len(a.buf) = 0
      BY <1>4 DEF FedInv
    <2>4. NextStart(f, n) = n /\ NextStart(a, n - 1) = n
      BY <1>1, <1>4, <2>2, <2>3 DEF NextStart
    <2>5. Ends(n) = Len(a.lines)
      BY <2>4 DEF FedInv
    <2>6. \A s \in n..n : Ends(s) = Len(a.lines)
      BY <1>1, <2>5
    <2> QED
      BY <1>1, <2>1, <2>2, <2>3, <2>4, <2>5, <2>6 DEF FedInv
  <1>5. CASE ~a.skip /\ text[n] = "\n"
    <2> DEFINE p == PushLine(a, n)
    <2>1. Feed(a, n) = p
      BY <1>5 DEF Feed
    <2>2. /\ p \in Accs /\ p.buf = <<>> /\ p.skip = FALSE /\ Len(p.lines) = Len(a.lines) + 1
          /\ \A k \in 1..Len(a.lines) + 1 : IsLine(p.lines[k], k)
          /\ \A s \in 0..n - 1 : At(s) # "\n" =>
               \E k \in 1..Len(a.lines) + 1 : s \in p.lines[k].start..EndChar(p.lines[k])
          /\ Ends(n - 1) = Len(a.lines)
      BY <1>5, PushKeeps
    <2> HIDE DEF p
    <2>3. NextStart(p, n) = n /\ Len(p.buf) = 0
      BY <1>1, <2>2 DEF NextStart
    <2>4. Ends(n) = Len(p.lines)
      BY <1>3, <1>5, <2>2
    <2>5. \A s \in n..n : Ends(s) = Len(p.lines)
      BY <1>1, <2>4
    <2> QED
      BY <1>1, <2>1, <2>2, <2>3, <2>4, <2>5 DEF FedInv
  <1>6. CASE ~a.skip /\ text[n] = "\r" /\ n < Len(text) /\ text[n + 1] = "\n"
    <2> DEFINE q == PushLine(a, n)
               p == [q EXCEPT !.skip = TRUE]
    <2>1. Feed(a, n) = p
      BY <1>6 DEF Feed
    <2>2. /\ q \in Accs /\ q.buf = <<>> /\ q.skip = FALSE /\ Len(q.lines) = Len(a.lines) + 1
          /\ \A k \in 1..Len(a.lines) + 1 : IsLine(q.lines[k], k)
          /\ \A s \in 0..n - 1 : At(s) # "\n" =>
               \E k \in 1..Len(a.lines) + 1 : s \in q.lines[k].start..EndChar(q.lines[k])
          /\ Ends(n - 1) = Len(a.lines)
      BY <1>6, PushKeeps
    <2> HIDE DEF q
    <2>3. p \in Accs /\ p.skip = TRUE /\ p.buf = <<>> /\ p.lines = q.lines
      BY <2>2 DEF Accs
    <2> HIDE DEF p
    <2>4. NextStart(p, n) = n + 1 /\ Len(p.buf) = 0
      BY <1>1, <2>3 DEF NextStart
    <2>5. At(n) = "\n" /\ n \in 0..Len(text) - 1
      BY <1>1, <1>6 DEF At
    <2>6. Ends(n + 1) = Len(p.lines)
      <3>1. Ends(n + 1) = Ends(n) + 1
        BY <2>5, EndsCount
      <3> QED
        BY <1>a, <1>3, <1>6, <2>2, <2>3, <3>1
    <2>7. ASSUME NEW s \in 0..n, At(s) # "\n"
          PROVE  \E k \in 1..Len(p.lines) : s \in p.lines[k].start..EndChar(p.lines[k])
      <3>1. s \in 0..n - 1
        BY <1>1, <2>5, <2>7
      <3> QED
        BY <2>2, <2>3, <2>7, <3>1
    <2>8. n + 1 - 1 = n /\ n + 1..n = {} /\ 0 <= n
      BY <1>1
    <2> QED
      BY <1>6, <2>1, <2>2, <2>3, <2>4, <2>6, <2>7, <2>8 DEF FedInv
  <1>7. CASE ~a.skip /\ text[n] # "\n" /\ ~(text[n] = "\r" /\ n < Len(text) /\ text[n + 1] = "\n")
    <2> DEFINE p == [a EXCEPT !.buf = Append(@, text[n])]
    <2>1. Feed(a, n) = p
      BY <1>7 DEF Feed
    <2>2. text[n] \in Narrow
      BY DEF OneByte, Narrow, TypeOK
    <2>3. Append(a.buf, text[n]) \in Seq(Narrow) /\ Len(Append(a.buf, text[n])) = Len(a.buf) + 1
      BY <1>2, <2>2
    <2>4. p \in Accs /\ p.skip = FALSE /\ p.buf = Append(a.buf, text[n]) /\ p.lines = a.lines
      BY <1>1, <1>2, <1>7, <2>3 DEF Accs
    <2> HIDE DEF p
    <2>5. NextStart(p, n) = NextStart(a, n - 1) /\ NextStart(a, n - 1) = n - 1 - Len(a.buf)
      <3>1. Len(p.buf) = Len(a.buf) + 1 /\ ~p.skip /\ ~a.skip
        BY <1>7, <2>3, <2>4
      <3>2. n - (Len(a.buf) + 1) = n - 1 - Len(a.buf)
        BY <1>1, <1>a
      <3> QED
        BY <3>1, <3>2 DEF NextStart
    <2>6. Ends(n) = Len(a.lines)
      <3>1. n - 1 \in NextStart(a, n - 1)..n - 1
        <4>1. n - 1 \in n - 1 - Len(a.buf)..n - 1
          BY <1>1, <1>a
        <4> QED
          BY <2>5, <4>1
      <3>2. Ends(n - 1) = Len(a.lines)
        BY <3>1 DEF FedInv
      <3> QED
        BY <1>a, <1>3, <1>7, <3>2
    <2>7. ASSUME NEW s \in NextStart(p, n)..n PROVE Ends(s) = Len(p.lines)
      <3>1. CASE s = n
        BY <2>4, <2>6, <3>1
      <3>2. CASE s # n
        <4>1. s \in NextStart(a, n - 1)..n - 1
          BY <1>1, <1>a, <2>5, <3>2
        <4> QED
          BY <2>4, <4>1 DEF FedInv
      <3> QED
        BY <3>1, <3>2
    <2>8. Len(p.buf) <= n
      <3>1. Len(p.buf) = Len(a.buf) + 1
        BY <2>3, <2>4
      <3> QED
        BY <1>1, <1>a, <3>1
    <2> QED
      BY <2>1, <2>4, <2>5, <2>7, <2>8 DEF FedInv
  <1> QED
    BY <1>2, <1>4, <1>5, <1>6, <1>7

LEMMA FedInvHolds ==
  ASSUME TypeOK, OneByte
  PROVE  \A n \in 0..Len(text) : FedInv(Fed[n], n)
  <1>1. Len(text) \in Nat
    BY DEF TypeOK
  <1> DEFINE S == {n \in 0..Len(text) : FedInv(Fed[n], n)}
  <1>2. FedInv(Empty, 0)
    <2>1. /\ Empty.buf = <<>> /\ Empty.lines = <<>> /\ Empty.skip = FALSE
          /\ Len(Empty.buf) = 0 /\ Len(Empty.lines) = 0
      BY DEF Empty
    <2>2. Empty \in Accs
      BY DEF Empty, Accs
    <2>3. NextStart(Empty, 0) = 0 /\ Ends(0) = 0
      <3>1. 0 - 0 = 0
        OBVIOUS
      <3> QED
        BY <2>1, <3>1, EndsCount DEF NextStart
    <2> QED
      BY <2>1, <2>2, <2>3 DEF FedInv
  <1>3. 0 \in S
    BY <1>1, <1>2, FedUnfolds
  <1>4. ASSUME NEW n \in 1..Len(text), n - 1 \in S PROVE n \in S
    <2>1. FedInv(Fed[n - 1], n - 1)
      BY <1>4
    <2>2. FedInv(Feed(Fed[n - 1], n), n)
      BY <2>1, FeedKeeps
    <2>3. n \in 0..Len(text)
      BY <1>1
    <2> QED
      BY <2>2, <2>3, FedUnfolds
  <1> HIDE DEF S
  <1>5. \A n \in 0..Len(text) : n \in S
    BY <1>1, <1>3, <1>4, UpTo
  <1> QED
    BY <1>5 DEF S

\* After the last line end the buffer is empty.
LEMMA LinesOfTheText ==
  ASSUME TypeOK, OneByte, Ended, text # <<>>
  PROVE  /\ Lines \in Seq([start : Nat, index : Nat, content : Seq(Narrow)])
         /\ \A k \in 1..Len(Lines) : IsLine(Lines[k], k)
         /\ \A s \in 0..Len(text) - 1 : At(s) # "\n" =>
              \E k \in 1..Len(Lines) : s \in Lines[k].start..EndChar(Lines[k])
  <1> DEFINE n == Len(text)
             a == Fed[n]
  <1>1. n \in Nat /\ n >= 1
    BY DEF TypeOK
  <1>2. FedInv(a, n) /\ Lines = a.lines
    BY <1>1, FedInvHolds DEF Lines
  <1>3. n - 1 \in 0..n - 1 /\ n - 1 + 1 = n /\ At(n - 1) = "\n"
    BY <1>1 DEF Ended, At
  <1>4. Ends(n) = Ends(n - 1) + 1 /\ Ends(n - 1) \in Nat
    <2>1. n - 1 \in 0..Len(text) - 1 /\ n - 1 \in Nat
      BY <1>1
    <2>2. Ends((n - 1) + 1) = Ends(n - 1) + IF At(n - 1) = "\n" THEN 1 ELSE 0
      BY <2>1, EndsCount
    <2>3. Ends(n - 1) \in Nat
      BY <2>1, EndsCount
    <2> QED
      BY <1>3, <2>2, <2>3
  <1> HIDE DEF n, a
  <1>5. ~a.skip
    BY <1>1, <1>2 DEF FedInv, n
  <1>6. a \in Accs /\ Len(a.buf) <= n
    BY <1>2 DEF FedInv
  <1>a. /\ a.lines \in Seq([start : Nat, index : Nat, content : Seq(Narrow)])
        /\ Len(a.buf) \in Nat /\ Len(a.lines) \in Nat
    BY <1>6, AccFields
  <1>b. Len(a.buf) \in Nat
    BY <1>a
  <1>7. NextStart(a, n) = n - Len(a.buf)
    BY <1>5 DEF NextStart
  <1>8. Len(a.buf) = 0
    <2> SUFFICES ASSUME Len(a.buf) # 0 PROVE FALSE
      OBVIOUS
    <2>1. n - 1 \in n - Len(a.buf)..n /\ n \in n - Len(a.buf)..n
      BY <1>1, <1>b
    <2>2. Ends(n - 1) = Len(a.lines) /\ Ends(n) = Len(a.lines)
      BY <1>2, <1>7, <2>1 DEF FedInv
    <2> QED
      BY <1>4, <2>2
  <1>9. NextStart(a, n) = n
    BY <1>1, <1>7, <1>8
  <1> QED
    BY <1>2, <1>9, <1>a DEF FedInv, n

\* The line shown for a token is the one it is on, with its number, in every text
\* whose last line has a line end.
THEOREM LinesOfTokens == Spec => [](OneByte => TokensOnTheirLine)
  <1>1. ASSUME ReadInv, OneByte PROVE TokensOnTheirLine
    <2> SUFFICES ASSUME Ended, NEW i \in Parsed, At(tokens[i].start) # "\n"
                 PROVE  /\ LineForSpan(tokens[i].start) # 0
                        /\ Lines[LineForSpan(tokens[i].start)].index
                             = Cardinality(Before(tokens[i].start + 1))
      BY DEF TokensOnTheirLine
    <2> DEFINE s == tokens[i].start
    <2>1. TypeOK /\ tokens[i] \in Tokens /\ i \in 1..Len(tokens) /\ tokens[i].kind # "comment"
      BY <1>1 DEF ReadInv, IInv, TypeOK, Parsed
    <2>2. s \in Nat /\ s < Len(text) /\ Len(text) \in Nat
      BY <1>1, <2>1, TokenFields DEF ReadInv, Begins, TypeOK
    <2> HIDE DEF s
    <2>3. text # <<>> /\ s \in 0..Len(text) - 1
      BY <2>2
    <2>4. /\ Lines \in Seq([start : Nat, index : Nat, content : Seq(Narrow)])
          /\ \A k \in 1..Len(Lines) : IsLine(Lines[k], k)
          /\ \E k \in 1..Len(Lines) : s \in Lines[k].start..EndChar(Lines[k])
      BY <1>1, <2>1, <2>3, LinesOfTheText DEF s
    <2>a. Lines \in Seq([start : Nat, index : Nat, content : Seq(Narrow)])
      BY <2>4
    <2>5. \A k \in 1..Len(Lines) :
            /\ Lines[k].start \in Nat /\ EndChar(Lines[k]) \in Nat
            /\ Len(Lines[k].content) \in Nat
      <3> SUFFICES ASSUME NEW k \in 1..Len(Lines)
                   PROVE  /\ Lines[k].start \in Nat /\ EndChar(Lines[k]) \in Nat
                          /\ Len(Lines[k].content) \in Nat
        OBVIOUS
      <3>1. Lines[k].start \in Nat /\ Lines[k].content \in Seq(Narrow)
        <4>1. Lines[k] \in [start : Nat, index : Nat, content : Seq(Narrow)]
          BY <2>a, ElementOfSeq
        <4> QED
          BY <4>1
      <3>2. \A j \in 1..Len(Lines[k].content) : Lines[k].content[j] # "wide"
        BY <3>1 DEF Narrow
      <3>3. Bytes(Lines[k].content) = Len(Lines[k].content) /\ Len(Lines[k].content) \in Nat
        BY <3>1, <3>2, BytesOfNarrow
      <3> QED
        BY <3>1, <3>3 DEF EndChar
    <2> DEFINE hits == {k \in 1..Len(Lines) : Lines[k].start <= s /\ EndChar(Lines[k]) >= s}
    <2>6. hits # {} /\ hits \in SUBSET Nat
      <3>1. PICK k \in 1..Len(Lines) : s \in Lines[k].start..EndChar(Lines[k])
        BY <2>4
      <3>2. k \in hits
        BY <2>2, <2>5, <3>1
      <3> QED
        BY <3>2
    <2> HIDE DEF hits
    <2>7. \E k \in hits : \A j \in hits : k <= j
      BY <2>6, LeastNat
    <2>8. LineForSpan(s) = CHOOSE k \in hits : \A j \in hits : k <= j
      BY <2>6 DEF LineForSpan, hits
    <2>9. LineForSpan(s) \in hits
      BY <2>7, <2>8
    <2> DEFINE l == LineForSpan(s)
    <2> HIDE DEF l
    <2>10. l \in 1..Len(Lines) /\ s \in Lines[l].start..EndChar(Lines[l])
      BY <2>2, <2>5, <2>9 DEF hits, l
    <2>11. Lines[l].index = l - 1 /\ Ends(s) = l - 1
      BY <2>4, <2>10 DEF IsLine
    <2> QED
      BY <2>10, <2>11 DEF Ends, l, s
  <1> QED
    BY <1>1, ReadInvHolds, PTL
=============================================================================
