------------------------------- MODULE Syntax -------------------------------
(***************************************************************************)
(* How what the parser makes is written: the syntax of the language, from  *)
(* the other side.  Every piece is written in one way, with parentheses    *)
(* where another reading would come first.                                 *)
(***************************************************************************)
EXTENDS Parser, SequencesExt

Say(words) == [i \in DOMAIN words |-> Token(words[i])]
Separated(texts, separator) ==
  FoldLeft(LAMBDA sofar, next : IF sofar = <<>> THEN next ELSE sofar \o separator \o next, <<>>, texts)
Between(open, inner, close) == <<Token(open)>> \o inner \o <<Token(close)>>
InParens(inner) == Between("(", inner, ")")
Path(names) ==
  Separated([i \in DOMAIN names |-> <<Token(names[i])>>], <<Joined(":"), Joined(":")>>)

\* A block must not start like a struct.
LooksLikeStruct(statement) == Len(statement) > 1 /\ statement[1].word \in Idents /\ statement[2].word = ":"

\* What is written without parentheses in front of a postfix operator and on either
\* side of a binary one.
Closed == {"unit", "literal", "path", "call", "method call", "tag", "array", "struct", "access", "get"}

RECURSIVE Write(_)

Each(nodes) == [i \in DOMAIN nodes |-> Write(nodes[i])]
All(nodes) == FlattenSeq(Each(nodes))
Listed(open, nodes, close) == Between(open, Separated(Each(nodes), <<Token(",")>>), close)
Brackets(nodes) == IF nodes = <<>> THEN <<>> ELSE Listed("[", nodes, "]")
Parens(nodes) == IF nodes = <<>> THEN <<>> ELSE Listed("(", nodes, ")")
After(word, nodes) == IF nodes = <<>> THEN <<>> ELSE <<Token(word)>> \o All(nodes)

Operand(e) == IF e.kind \in Closed THEN Write(e) ELSE InParens(Write(e))

WriteStatement(s) ==
  CASE s.kind = "val" -> Say(s.words) \o After(":", s.parts[1].parts) \o <<Token("=")>> \o Write(s.parts[2])
    [] s.kind = "while" -> <<Token("while")>> \o All(s.parts)
    [] s.kind = "assignment" -> Separated(Each(s.parts), <<Token("=")>>)

WriteFirst(s) ==
  IF ~LooksLikeStruct(Write(s)) THEN Write(s)
  ELSE IF s.kind = "assignment" THEN InParens(Write(s.parts[1])) \o <<Token("=")>> \o Write(s.parts[2])
  ELSE InParens(Write(s))

WriteBlock(statements) ==
  Between("{", Separated([i \in DOMAIN statements |->
                            IF i = 1 THEN WriteFirst(statements[1]) ELSE Write(statements[i])],
                         <<Token(";")>>), "}")

WritePattern(t) ==
  CASE t.kind = "wildcard" -> <<Token("_")>>
    [] t.kind = "variable" -> Say(t.words)
    [] t.kind = "variant" -> <<Token(".")>> \o Say(t.words) \o Parens(t.parts)
    [] t.kind = "struct pattern" -> Listed("{", t.parts, "}")
    [] t.kind = "pattern field" ->
         IF t.parts = <<Node("variable", t.words, <<>>)>> THEN Say(t.words)
         ELSE Say(t.words) \o <<Token(":")>> \o All(t.parts)

WriteType(t) ==
  CASE t.kind = "integer" -> Say(t.words)
    [] t.kind = "builtin" -> <<Token("builtin")>>
    [] t.kind = "named" -> Path(t.words) \o Brackets(t.parts)
    [] t.kind = "struct type" -> Listed("{", t.parts, "}")
    [] t.kind \in {"type field", "parameter"} -> Say(t.words) \o <<Token(":")>> \o All(t.parts)
    [] t.kind = "enum" -> <<Token("enum")>> \o Separated(Each(t.parts), <<Token(",")>>)
    [] t.kind = "enum variant" -> Say(t.words) \o Parens(t.parts)
    [] t.kind = "member type" -> All(t.parts) \o <<Token(".")>> \o Say(t.words)
    [] t.kind = "optional" -> All(t.parts) \o <<Token("?")>>
    [] t.kind = "reference" -> All(t.parts) \o <<Token("*")>>

WritePostfix(e) ==
  LET base == e.parts[1]
  IN CASE e.kind = "get" -> Operand(base) \o <<Token("!")>>
       [] e.kind = "cast" ->
            (IF base.kind = "cast" THEN Write(base) ELSE Operand(base)) \o <<Token("as")>> \o Write(e.parts[2])
       [] e.kind = "hinted" -> Operand(base) \o <<Token(":")>> \o Write(e.parts[2])
       [] e.kind = "access" ->
            Operand(base) \o <<Token(".")>> \o Say(e.words) \o Brackets(e.parts[2].parts)
       [] e.kind = "method call" ->
            LET args == e.parts[2].parts
            IN Operand(args[1]) \o <<Token(".")>> \o Say(e.words) \o Brackets(base.parts)
               \o Listed("(", Tail(args), ")")

WriteExpression(e) ==
  CASE e.kind = "unit" -> Say(<<"(", ")">>)
    [] e.kind = "literal" ->
         [i \in DOMAIN e.words |-> IF i = 1 THEN Token(e.words[i]) ELSE Joined(e.words[i])]
    [] e.kind = "path" -> Path(e.words)
    [] e.kind = "call" -> Path(e.words) \o Brackets(e.parts[1].parts) \o Listed("(", e.parts[2].parts, ")")
    [] e.kind = "named argument" -> Say(e.words) \o <<Token("=")>> \o All(e.parts)
    [] e.kind = "tag" -> <<Token(".")>> \o Say(e.words) \o Parens(e.parts)
    [] e.kind = "array" -> Listed("[", e.parts, "]")
    [] e.kind = "struct" -> Listed("{", e.parts, "}")
    [] e.kind = "field" -> Say(e.words) \o <<Token(":")>> \o All(e.parts)
    [] e.kind = "block" -> WriteBlock(e.parts)
    [] e.kind = "unary" -> Say(e.words) \o All(e.parts)
    [] e.kind = "chain" ->
         FlattenSeq([i \in DOMAIN e.parts |->
                       (IF i = 1 THEN <<>> ELSE <<Token(e.words[i - 1])>>) \o Operand(e.parts[i])])
    [] e.kind = "is" ->
         (IF e.parts[1].kind = "chain" THEN Write(e.parts[1]) ELSE Operand(e.parts[1]))
         \o <<Token("is")>> \o Write(e.parts[2])
    [] e.kind = "when" ->
         <<Token("when")>> \o Write(e.parts[1]) \o Listed("{", Tail(e.parts), "}")
    [] e.kind = "arm" -> Separated(Each(e.parts), Say(<<"-", ">">>))
    [] e.kind = "for" ->
         <<Token("for")>> \o (IF Len(e.words) = 2 THEN Say(<<e.words[2], "in">>) ELSE <<>>)
         \o Write(e.parts[1]) \o <<Token(e.words[1])>> \o Write(e.parts[2])
    [] e.kind = "if" ->
         <<Token("if")>>
         \o (IF e.parts[2].kind = "block" THEN Write(e.parts[1]) \o Write(e.parts[2])
             ELSE InParens(Write(e.parts[1])) \o InParens(Write(e.parts[2])))
         \o After("else", SubSeq(e.parts, 3, Len(e.parts)))

WriteFunction(d) ==
  LET constraints == FlattenSeq([i \in DOMAIN d.parts[1].parts |-> d.parts[1].parts[i].parts])
  IN (IF d.words[1] = "standard" THEN <<>> ELSE <<Token(d.words[1])>>)
     \o Say(<<"fn", d.words[2]>>) \o Brackets(d.parts[1].parts) \o Listed("(", d.parts[2].parts, ")")
     \o <<Token(":")>> \o All(d.parts[3].parts)
     \o (IF constraints = <<>> THEN <<>>
         ELSE <<Token("where")>> \o Separated(Each(constraints), <<Token(",")>>))
     \o All(d.parts[4].parts)

WriteDefinition(d) ==
  CASE d.kind = "function" -> WriteFunction(d)
    [] d.kind = "type parameter" -> Say(d.words)
    [] d.kind = "constraint" -> Say(d.words) \o <<Token(":")>> \o All(d.parts)
    [] d.kind \in {"ability", "namespace"} -> Say(<<d.kind>> \o d.words) \o Between("{", All(d.parts), "}")
    [] d.kind = "impl" ->
         Say(<<"impl", d.words[1], "for">>) \o Write(d.parts[1])
         \o (IF Len(d.words) = 2 THEN <<Token("auto")>> ELSE Between("{", All(Tail(d.parts)), "}"))
    [] d.kind = "type" ->
         Say(<<"type">> \o Tail(d.words) \o <<d.words[1]>>) \o Brackets(d.parts[1].parts)
         \o <<Token("=")>> \o Write(d.parts[2])
    [] d.kind = "const" ->
         Say(<<"val">> \o d.words \o <<":">>) \o Write(d.parts[1]) \o <<Token("=")>> \o Write(d.parts[2])
         \o <<Token(";")>>

DefinitionKinds == {"function", "type parameter", "constraint", "ability", "namespace", "impl", "type", "const"}
StatementKinds == {"val", "while", "assignment"}
PatternKinds == {"wildcard", "variable", "variant", "struct pattern", "pattern field"}
TypeKinds == {"integer", "builtin", "named", "struct type", "type field", "parameter", "enum", "enum variant",
              "member type", "optional", "reference"}
PostfixKinds == {"get", "cast", "hinted", "access", "method call"}

Write(t) ==
  CASE t.kind \in DefinitionKinds -> WriteDefinition(t)
    [] t.kind \in StatementKinds -> WriteStatement(t)
    [] t.kind \in PatternKinds -> WritePattern(t)
    [] t.kind \in TypeKinds -> WriteType(t)
    [] t.kind \in PostfixKinds -> WritePostfix(t)
    [] OTHER -> WriteExpression(t)

-----------------------------------------------------------------------------
(* What a text says, whichever of the ways of writing it has been used.      *)

Closers == {")", "]", "}"}

WordAt(t, i) == IF i \in DOMAIN t THEN t[i].word ELSE "eof"

\* The last position up to i of a word in words, or 0.
LastOf(t, words, i) == Max({0} \cup {k \in 1..i : WordAt(t, k) \in words})

\* In a constraint on something else than a type parameter of its function.
Stray(t, i) ==
  LET where == LastOf(t, {"where"}, i)
      start == LastOf(t, {"where", ","}, i - 1) + 1
      header == LastOf(t, {"fn"}, where)
  IN /\ where # 0 /\ LastOf(t, {"{"}, i) < where /\ i > where
     /\ ~\E k \in header..where : /\ WordAt(t, k) = WordAt(t, start) /\ LastOf(t, {"("}, k) < header
                                 /\ WordAt(t, k - 1) \in {"[", ","}

\* The parser lets these go without a trace: parentheses, the last of some separators
\* and the first comma of `when`, the colon of a `val` without a type, an `extern` of
\* no function, a `where` without constraints, and constraints on no type parameter.
\* (Also a type hint that another one replaces, `(a: t): u`: not in the files here.)
Dispensable(t, i) ==
  LET word(k) == WordAt(t, k)
  IN \/ word(i) \in {"(", ")"}
     \/ word(i) \in {",", ";"} /\ word(i + 1) \in Closers \cup {"{"}
     \/ word(i) = "," /\ word(i - 1) = "{"
     \/ word(i) = ":" /\ word(i - 2) \in {"val", "mut"}
     \/ word(i) = "extern" /\ word(i + 1) # "fn"
     \/ word(i) = "where" /\ word(i + 1) = "{"
     \/ Stray(t, i)

\* Nor do, when these are gone: brackets without type parameters; the braces of an
\* empty struct, which are read again as part of what follows it; and a colon with what
\* a field is called anyway.
Repeated(t, i) ==
  LET word(k) == WordAt(t, k)
      pair(k) == <<word(k), word(k + 1)>>
      named(k) == word(k) = ":" /\ word(k - 1) = word(k + 1)
  IN \E k \in {i - 1, i} : pair(k) \in {<<"[", "]">>, <<"{", "}">>} \/ named(k)

Without(t, Drop(_, _)) ==
  LET kept(i) == ~Drop(t, i)
      indices == SelectSeq([i \in DOMAIN t |-> i], kept)
  IN [k \in DOMAIN indices |-> t[indices[k]]]
Essence(t) ==
  LET essence == Without(Without(Without(t, Dispensable), Dispensable), Repeated)
  IN [i \in DOMAIN essence |-> essence[i].word]

-----------------------------------------------------------------------------
(* Properties.                                                               *)

\* A file that is written according to the syntax is read as what it was written
\* for: no alternative the parser tries first, no token it looks ahead for and no
\* list it ends too late takes it for something else.
ReadsBack ==
  \A written \in meant : result # "run" => result = "ok" /\ errors = <<>> /\ definitions = written

\* A file the parser accepts says what its definitions say: no token is passed over
\* but those that make no difference, and, if there was an error, those from the
\* start of the definition that has it up to where the parser was then.
NothingPassedOver ==
  result = "ok" =>
    LET read == IF errors = <<>> THEN text
                ELSE SubSeq(text, 1, errors[1].from - 1) \o SubSeq(text, errors[1].at, Len(text))
    IN Essence(All(definitions)) = Essence(read)
=============================================================================
