------------------------------- MODULE Parser -------------------------------
(***************************************************************************)
(* The recursive descent of the parser (src/k1/parse.rs): parse_module and *)
(* everything it calls, from definitions down to types, patterns,          *)
(* statements and expressions.                                             *)
(*                                                                         *)
(* A function that returns ParseResult<Option<T>> is an operator from the  *)
(* cursor to a result: what it has parsed, nothing, or an error, and where *)
(* the cursor is then.  Spans, pools and the messages of errors are left   *)
(* out.  A chain of binary operators is kept as it is written (Expressions *)
(* is about how it is grouped).  The recursive operators are for TLC only. *)
(***************************************************************************)
EXTENDS Integers, Sequences

CONSTANT
  Sources       (* Sets of texts, each with the definitions it was written   *)
                (* for, if it was.                                           *)

VARIABLES
  text,         (* The tokens of a file.                                     *)
  meant,        (* The one list of definitions it was written for, or none.  *)
  cursor,       (* The position of the next token.                           *)
  phase,        (* The "first" or "second" loop of parse_module, or "end".   *)
  definitions,  (* new_definitions.                                          *)
  errors,       (* ParsedModule.errors: where the definition starts that has *)
                (* the error, and where the parser was then.                 *)
  result        (* "run", "ok", "err", or "loops" if it never returns.       *)

vars == <<text, meant, cursor, phase, definitions, errors, result>>

-----------------------------------------------------------------------------
(* Tokens: what they say, and whether white space precedes them.             *)

Token(word) == [word |-> word, spaced |-> TRUE]
Joined(word) == [word |-> word, spaced |-> FALSE]

\* Tokens of the kind Ident: keywords of this grammar that the lexer does not know,
\* numbers, and names with a small or a capital letter.
IntegerTypes == {"u8", "u16", "u32", "u64", "i8", "i16", "i32", "i64"}
Modifiers == {"alias", "opaque"}
Numbers == {"1", "2"}
LowerNames == {"a", "b", "f", "n"} \cup IntegerTypes \cup Modifiers \cup {"true", "false"}
UpperNames == {"T", "U", "A"}
Idents == Numbers \cup LowerNames \cup UpperNames \cup {"_"}

BinaryOperators ==
  {"|", "%", "*", "/", "+", "-", "<", "<=", ">", ">=", "==", "!=", "and", "or", "?"}
PrefixOperators == {"*", "not", "&"}

Word(p) == IF p \in DOMAIN text THEN text[p].word ELSE "eof"
IsIdent(p) == Word(p) \in Idents
IsJoined(p) == p \notin DOMAIN text \/ ~text[p].spaced

-----------------------------------------------------------------------------
(* Results.                                                                  *)

\* A piece of what is parsed: its kind, the words that are names or choices in it,
\* and its parts.
Node(kind, words, parts) == [kind |-> kind, words |-> words, parts |-> parts]
List(nodes) == Node("list", <<>>, nodes)

Ok(node, p) == [is |-> "ok", node |-> node, cursor |-> p]
None(p) == [is |-> "none", node |-> List(<<>>), cursor |-> p]
Err(p) == [is |-> "err", node |-> List(<<>>), cursor |-> p]
Loops(p) == [is |-> "loops", node |-> List(<<>>), cursor |-> p]

\* The operator ? of the code, Parser::expect, and what else a caller may do with
\* Ok(None).
Then(r, Rest(_, _)) == IF r.is = "ok" THEN Rest(r.node, r.cursor) ELSE r
Expect(r) == IF r.is = "none" THEN Err(r.cursor) ELSE r
OrElse(r, Other(_)) == IF r.is = "none" THEN Other(r.cursor) ELSE r
Optional(r) ==
  IF r.is = "none" THEN Ok(List(<<>>), r.cursor)
  ELSE Then(r, LAMBDA node, p : Ok(List(<<node>>), p))

Eat(word, p, Rest(_)) == IF Word(p) = word THEN Rest(p + 1) ELSE Err(p)
EatIdent(p, Rest(_, _)) == IF IsIdent(p) THEN Rest(Word(p), p + 1) ELSE Err(p)

\* What is parsed next as `what`, at p.
RECURSIVE Parse(_, _)

\* eat_delimited after `done`, and the loops of expect_pattern and of the arms of
\* `when`, which do the same.
RECURSIVE Delimited(_, _, _, _, _)
Delimited(what, delimiter, terminator, p, done) ==
  IF Word(p) = terminator THEN Ok(List(done), p + 1)
  ELSE Then(Expect(Parse(what, p)), LAMBDA node, q :
         CASE Word(q) = terminator -> Ok(List(Append(done, node)), q + 1)
           [] Word(q) = delimiter ->
                Delimited(what, delimiter, terminator, q + 1, Append(done, node))
           [] OTHER -> Err(q))

\* As many as there are, until there is none.
RECURSIVE Many(_, _, _)
Many(what, p, done) ==
  LET r == Parse(what, p)
  IN IF r.is = "none" THEN Ok(List(done), r.cursor)
     ELSE Then(r, LAMBDA node, q : Many(what, q, Append(done, node)))

-----------------------------------------------------------------------------
(* Literals, paths and patterns.                                             *)

ParseLiteral(p) ==
  CASE Word(p) = "(" /\ Word(p + 1) = ")" -> Ok(Node("unit", <<>>, <<>>), p + 2)
    [] Word(p) = "'\\q'" -> Err(p + 1)
    [] Word(p) = "-" /\ IsIdent(p + 1) /\ IsJoined(p + 1) ->
         IF Word(p + 1) \in Numbers THEN Ok(Node("literal", <<"-", Word(p + 1)>>, <<>>), p + 2)
         ELSE Err(p)
    [] Word(p) \in {"'c'", "\"s\"", "true", "false"} \cup Numbers ->
         Ok(Node("literal", <<Word(p)>>, <<>>), p + 1)
    [] OTHER -> None(p)

RECURSIVE PathAfter(_, _)
PathAfter(names, p) ==
  IF IsIdent(p) /\ Word(p + 1) = ":" /\ Word(p + 2) = ":"
  THEN PathAfter(Append(names, Word(p)), p + 3)
  ELSE EatIdent(p, LAMBDA name, q : Ok(Node("path", Append(names, name), <<>>), q))

\* expect_namespaced_ident.  White space separates only the first name from "::".
ExpectPath(p) ==
  IF Word(p + 1) = ":" /\ Word(p + 2) = ":" /\ IsJoined(p + 1)
  THEN PathAfter(<<Word(p)>>, p + 3)
  ELSE EatIdent(p, LAMBDA name, q : Ok(Node("path", <<name>>, <<>>), q))

\* A field of a struct pattern: without a colon it is bound to its own name.
ParsePatternField(p) ==
  EatIdent(p, LAMBDA name, q :
    IF Word(q) = ":"
    THEN Then(Parse("pattern", q + 1), LAMBDA pattern, r : Ok(Node("pattern field", <<name>>, <<pattern>>), r))
    ELSE Ok(Node("pattern field", <<name>>, <<Node("variable", <<name>>, <<>>)>>), q))

ParsePattern(p) ==
  OrElse(ParseLiteral(p), LAMBDA q :
    CASE Word(q) = "{" ->
           Then(Delimited("pattern field", ",", "}", q + 1, <<>>), LAMBDA fields, r :
             Ok(Node("struct pattern", <<>>, fields.parts), r))
      [] Word(q) = "." ->
           EatIdent(q + 1, LAMBDA tag, r :
             IF Word(r) # "(" THEN Ok(Node("variant", <<tag>>, <<>>), r)
             ELSE Then(Parse("pattern", r + 1), LAMBDA payload, s :
                    Eat(")", s, LAMBDA t : Ok(Node("variant", <<tag>>, <<payload>>), t))))
      [] Word(q) = "_" -> Ok(Node("wildcard", <<>>, <<>>), q + 1)
      [] IsIdent(q) /\ Word(q) # "_" -> Ok(Node("variable", <<Word(q)>>, <<>>), q + 1)
      [] OTHER -> Err(q))

-----------------------------------------------------------------------------
(* Types.                                                                    *)

ParseTypeArgs(p) ==
  IF Word(p) = "[" THEN Delimited("type", ",", "]", p + 1, <<>>) ELSE Ok(List(<<>>), p)

\* A field of a struct type, an argument of a function: a name with a type.
ParseTyped(kind, p) ==
  EatIdent(p, LAMBDA name, q :
    Eat(":", q, LAMBDA r :
      Then(Expect(Parse("type", r)), LAMBDA type, s : Ok(Node(kind, <<name>>, <<type>>), s))))

\* An enum goes on as long as there are commas.
RECURSIVE EnumAfter(_, _)
EnumAfter(variants, p) ==
  EatIdent(p, LAMBDA tag, q :
    LET payload ==
          IF Word(q) # "(" THEN Ok(List(<<>>), q)
          ELSE Then(Expect(Parse("type", q + 1)), LAMBDA type, r :
                 Eat(")", r, LAMBDA s : Ok(List(<<type>>), s)))
    IN Then(payload, LAMBDA types, r :
         LET all == Append(variants, Node("enum variant", <<tag>>, types.parts))
         IN IF Word(r) = "," THEN EnumAfter(all, r + 1) ELSE Ok(Node("enum", <<>>, all), r)))

ParseBaseType(p) ==
  CASE Word(p) = "enum" -> EnumAfter(<<>>, p + 1)
    [] Word(p) = "builtin" -> Ok(Node("builtin", <<>>, <<>>), p + 1)
    [] Word(p) \in IntegerTypes -> Ok(Node("integer", <<Word(p)>>, <<>>), p + 1)
    [] IsIdent(p) /\ Word(p) \notin IntegerTypes ->
         Then(ExpectPath(p), LAMBDA path, q :
           Then(ParseTypeArgs(q), LAMBDA args, r :
             Ok(Node("named", path.words, args.parts), r)))
    [] Word(p) = "{" ->
         Then(Delimited("type field", ",", "}", p + 1, <<>>), LAMBDA fields, q :
           Ok(Node("struct type", <<>>, fields.parts), q))
    [] OTHER -> None(p)

\* Members may be chained; an optional or a reference ends the type.
RECURSIVE TypeAfter(_, _)
TypeAfter(type, p) ==
  CASE Word(p) = "." ->
         EatIdent(p + 1, LAMBDA name, q : TypeAfter(Node("member type", <<name>>, <<type>>), q))
    [] Word(p) = "?" -> Ok(Node("optional", <<>>, <<type>>), p + 1)
    [] Word(p) = "*" -> Ok(Node("reference", <<>>, <<type>>), p + 1)
    [] OTHER -> Ok(type, p)

ParseType(p) == Then(ParseBaseType(p), LAMBDA type, q : TypeAfter(type, q))

-----------------------------------------------------------------------------
(* Expressions: parse_base_expression.                                       *)

ParseArgument(p) ==
  IF IsIdent(p) /\ Word(p + 1) = "="
  THEN Then(Expect(Parse("expression", p + 2)), LAMBDA value, q :
         Ok(Node("named argument", <<Word(p)>>, <<value>>), q))
  ELSE Parse("expression", p)

\* The arguments of a call.  That of a method has its target as the first one.
ParseCall(kind, path, typeArgs, target, p) ==
  Then(Delimited("argument", ",", ")", p, <<>>), LAMBDA args, q :
    Ok(Node(kind, path, <<typeArgs, List(target \o args.parts)>>), q))

ParseNamed(p) ==
  Then(ExpectPath(p), LAMBDA path, q :
    IF Word(q) \notin {"[", "("} THEN Ok(path, q)
    ELSE Then(ParseTypeArgs(q), LAMBDA types, r :
           Eat("(", r, LAMBDA s : ParseCall("call", path.words, types, <<>>, s))))

ParseArm(p) ==
  Then(Parse("pattern", p), LAMBDA pattern, q :
    Eat("-", q, LAMBDA r :
      Eat(">", r, LAMBDA s :
        Then(Expect(Parse("expression", s)), LAMBDA value, t :
          Ok(Node("arm", <<>>, <<pattern, value>>), t)))))

ParseWhen(p) ==
  Then(Expect(Parse("expression", p + 1)), LAMBDA target, q :
    Eat("{", q, LAMBDA r :
      Then(Delimited("arm", ",", "}", IF Word(r) = "," THEN r + 1 ELSE r, <<>>), LAMBDA arms, s :
        Ok(Node("when", <<>>, <<target>> \o arms.parts), s))))

\* The binding is there if the token after the next is `in`.
ParseFor(p) ==
  LET bound == Word(p + 2) = "in"
  IN IF bound /\ ~IsIdent(p + 1) THEN Err(p + 1)
     ELSE Then(Expect(Parse("expression", IF bound THEN p + 3 ELSE p + 1)), LAMBDA iterable, q :
            IF Word(q) \notin {"yield", "do"} THEN Err(q)
            ELSE Then(Expect(Parse("block", q + 1)), LAMBDA body, r :
                   Ok(Node("for", <<Word(q)>> \o (IF bound THEN <<Word(p + 1)>> ELSE <<>>),
                           <<iterable, body>>), r)))

ParseIf(p) ==
  Then(Expect(Parse("expression", p + 1)), LAMBDA condition, q :
    Then(Expect(Parse("expression", q)), LAMBDA consequent, r :
      IF Word(r) # "else" THEN Ok(Node("if", <<>>, <<condition, consequent>>), r)
      ELSE Then(Expect(Parse("expression", r + 1)), LAMBDA alternative, s :
             Ok(Node("if", <<>>, <<condition, consequent, alternative>>), s))))

ParseTag(p) ==
  IF Word(p + 1) \in LowerNames THEN Err(p + 2)
  ELSE IF Word(p + 2) # "(" THEN Ok(Node("tag", <<Word(p + 1)>>, <<>>), p + 2)
  ELSE Then(Expect(Parse("expression", p + 3)), LAMBDA payload, q :
         Eat(")", q, LAMBDA r : Ok(Node("tag", <<Word(p + 1)>>, <<payload>>), r)))

ParseField(p) ==
  EatIdent(p, LAMBDA name, q :
    Eat(":", q, LAMBDA r :
      Then(Expect(Parse("expression", r)), LAMBDA value, s : Ok(Node("field", <<name>>, <<value>>), s))))

\* What starts with a brace is an empty struct, of which no token is consumed, a
\* struct, or a block.
ParseBraced(p) ==
  CASE Word(p + 1) = "}" -> Ok(Node("struct", <<>>, <<>>), p)
    [] IsIdent(p + 1) /\ Word(p + 2) = ":" ->
         Then(Delimited("field", ",", "}", p + 1, <<>>), LAMBDA fields, q :
           Ok(Node("struct", <<>>, fields.parts), q))
    [] OTHER -> Parse("block", p)

ParseBaseExpression(p) ==
  OrElse(ParseLiteral(p), LAMBDA q :
    CASE Word(q) = "when" -> ParseWhen(q)
      [] Word(q) = "(" ->
           Then(Expect(Parse("expression", q + 1)), LAMBDA inner, r :
             Eat(")", r, LAMBDA s : Ok(inner, s)))
      [] Word(q) = "for" -> ParseFor(q)
      [] Word(q) \in PrefixOperators ->
           Then(Expect(Parse("expression", q + 1)), LAMBDA operand, r :
             Ok(Node("unary", <<Word(q)>>, <<operand>>), r))
      [] Word(q) = "." /\ IsIdent(q + 1) -> ParseTag(q)
      [] IsIdent(q) -> ParseNamed(q)
      [] Word(q) = "{" -> ParseBraced(q)
      [] Word(q) = "if" -> ParseIf(q)
      [] Word(q) = "[" ->
           Then(Delimited("expression", ",", "]", q + 1, <<>>), LAMBDA elements, r :
             Ok(Node("array", <<>>, elements.parts), r))
      [] OTHER -> None(q))

-----------------------------------------------------------------------------
(* Expressions: postfix operators, type hints, chains and `is`.              *)

ParseMember(base, p) ==
  EatIdent(p + 1, LAMBDA name, q :
    Then(ParseTypeArgs(q), LAMBDA types, r :
      IF Word(r) = "(" THEN ParseCall("method call", <<name>>, types, <<base>>, r + 1)
      ELSE Ok(Node("access", <<name>>, <<base, types>>), r)))

\* For "[", a postfix operator without a case, the loop neither advances nor ends.
RECURSIVE PostfixAfter(_, _)
PostfixAfter(base, p) ==
  CASE Word(p) = "!" -> PostfixAfter(Node("get", <<>>, <<base>>), p + 1)
    [] Word(p) = "as" ->
         Then(Expect(Parse("type", p + 1)), LAMBDA type, q :
           PostfixAfter(Node("cast", <<>>, <<base, type>>), q))
    [] Word(p) = "." -> Then(ParseMember(base, p), LAMBDA node, q : PostfixAfter(node, q))
    [] Word(p) = "[" -> Loops(p)
    [] OTHER -> Ok(base, p)

\* A type hint replaces the one the expression had.
Hinted(base, type) ==
  Node("hinted", <<>>, <<IF base.kind = "hinted" THEN base.parts[1] ELSE base, type>>)

ParseOperand(p) ==
  Then(Parse("base expression", p), LAMBDA base, q :
    Then(PostfixAfter(base, q), LAMBDA operand, r :
      IF Word(r) # ":" THEN Ok(operand, r)
      ELSE Then(Expect(Parse("type", r + 1)), LAMBDA type, s : Ok(Hinted(operand, type), s))))

RECURSIVE ChainAfter(_, _, _)
ChainAfter(operators, operands, p) ==
  IF Word(p) \notin BinaryOperators
  THEN Ok(IF operators = <<>> THEN operands[1] ELSE Node("chain", operators, operands), p)
  ELSE Then(Expect(ParseOperand(p + 1)), LAMBDA operand, q :
         ChainAfter(Append(operators, Word(p)), Append(operands, operand), q))

ParseExpression(p) ==
  Then(ParseOperand(p), LAMBDA first, q :
    Then(ChainAfter(<<>>, <<first>>, q), LAMBDA chain, r :
      IF Word(r) # "is" THEN Ok(chain, r)
      ELSE Then(Parse("pattern", r + 1), LAMBDA pattern, s : Ok(Node("is", <<>>, <<chain, pattern>>), s))))

-----------------------------------------------------------------------------
(* Statements and blocks.                                                    *)

\* parse_val, for `val` and `mut`.
ParseVal(p) ==
  EatIdent(p + 1, LAMBDA name, q :
    Then(Optional(IF Word(q) = ":" THEN Parse("type", q + 1) ELSE None(q)), LAMBDA types, r :
      Eat("=", r, LAMBDA s :
        Then(Expect(Parse("expression", s)), LAMBDA value, t :
          Ok(Node("val", <<Word(p), name>>, <<types, value>>), t)))))

ParseWhile(p) ==
  Then(Expect(Parse("expression", p + 1)), LAMBDA condition, q :
    Then(Expect(Parse("block", q)), LAMBDA body, r : Ok(Node("while", <<>>, <<condition, body>>), r)))

ParseStatement(p) ==
  CASE Word(p) = "while" -> ParseWhile(p)
    [] Word(p) \in {"mut", "val"} -> ParseVal(p)
    [] OTHER ->
         Then(Parse("expression", p), LAMBDA node, q :
           IF Word(q) # "=" THEN Ok(node, q)
           ELSE Then(Expect(Parse("expression", q + 1)), LAMBDA value, r :
                  Ok(Node("assignment", <<>>, <<node, value>>), r)))

ParseBlock(p) ==
  IF Word(p) # "{" THEN None(p)
  ELSE Then(Delimited("statement", ";", "}", p + 1, <<>>), LAMBDA statements, q :
         Ok(Node("block", <<>>, statements.parts), q))

-----------------------------------------------------------------------------
(* Definitions.                                                              *)

ParseTypeParams(p) ==
  IF Word(p) = "[" THEN Delimited("type parameter", ",", "]", p + 1, <<>>) ELSE Ok(List(<<>>), p)

ParseConstraint(p) ==
  EatIdent(p, LAMBDA name, q :
    Eat(":", q, LAMBDA r :
      Then(ExpectPath(r), LAMBDA ability, s : Ok(Node("constraint", <<name>>, <<ability>>), s))))

\* Fault: the brace that ends the constraints is not put back.
ParseConstraints_Eaten(p) ==
  IF Word(p) # "where" THEN Ok(List(<<>>), p)
  ELSE Delimited("constraint", ",", "{", p + 1, <<>>)

\* The brace that ends the constraints is eaten with them, and put back.
ParseConstraints(p) ==
  IF Word(p) # "where" THEN Ok(List(<<>>), p)
  ELSE Then(Delimited("constraint", ",", "{", p + 1, <<>>), LAMBDA constraints, q :
         Ok(constraints, q - 1))

\* Each type parameter gets the constraints on its name; others are dropped.
Constrained(params, constraints) ==
  List([i \in DOMAIN params |->
          LET name == params[i].words
              OnIt(constraint) == constraint.words = name
          IN Node("type parameter", name, SelectSeq(constraints, OnIt))])

\* From the `fn` on.
FunctionAfter(linkage, p) ==
  EatIdent(p + 1, LAMBDA name, q :
    Then(ParseTypeParams(q), LAMBDA params, r :
      Eat("(", r, LAMBDA s :
        Then(Delimited("parameter", ",", ")", s, <<>>), LAMBDA args, t :
          Eat(":", t, LAMBDA u :
            Then(Optional(Parse("type", u)), LAMBDA returned, v :
              Then(ParseConstraints(v), LAMBDA constraints, w :
                Then(Optional(Parse("block", w)), LAMBDA body, x :
                  Ok(Node("function", <<linkage, name>>,
                          <<Constrained(params.parts, constraints.parts), args, returned, body>>),
                     x)))))))))

\* Without `fn` there is no function, but an `extern` has been consumed.
ParseFunction(p) ==
  CASE Word(p) = "intern" -> IF Word(p + 1) = "fn" THEN FunctionAfter("intern", p + 1) ELSE Err(p + 1)
    [] Word(p) = "extern" -> IF Word(p + 1) = "fn" THEN FunctionAfter("extern", p + 1) ELSE None(p + 1)
    [] Word(p) = "fn" -> FunctionAfter("standard", p)
    [] OTHER -> None(p)

\* The functions of an ability or an implementation, between braces.
ParseFunctions(p) ==
  Eat("{", p, LAMBDA q :
    Then(Many("function", q, <<>>), LAMBDA functions, r : Eat("}", r, LAMBDA s : Ok(functions, s))))

ParseAbility(p) ==
  IF Word(p) # "ability" THEN None(p)
  ELSE EatIdent(p + 1, LAMBDA name, q :
         Then(ParseFunctions(q), LAMBDA functions, r :
           Ok(Node("ability", <<name>>, functions.parts), r)))

ParseImpl(p) ==
  IF Word(p) # "impl" THEN None(p)
  ELSE EatIdent(p + 1, LAMBDA name, q :
         Eat("for", q, LAMBDA r :
           Then(Expect(Parse("type", r)), LAMBDA target, s :
             IF Word(s) = "auto" THEN Ok(Node("impl", <<name, "auto">>, <<target>>), s + 1)
             ELSE Then(ParseFunctions(s), LAMBDA functions, t :
                    Ok(Node("impl", <<name>>, <<target>> \o functions.parts), t)))))

RECURSIVE ModifiersAfter(_, _)
ModifiersAfter(modifiers, p) ==
  IF Word(p) \in Modifiers THEN ModifiersAfter(modifiers \cup {Word(p)}, p + 1)
  ELSE [modifiers |-> modifiers, cursor |-> p]

ParseTypeDefn(p) ==
  IF Word(p) # "type" THEN None(p)
  ELSE LET after == ModifiersAfter({}, p + 1)
           flag(modifier) == IF modifier \in after.modifiers THEN <<modifier>> ELSE <<>>
       IN EatIdent(after.cursor, LAMBDA name, q :
            Then(ParseTypeParams(q), LAMBDA params, r :
              Eat("=", r, LAMBDA s :
                Then(Expect(Parse("type", s)), LAMBDA type, t :
                  Ok(Node("type", <<name>> \o flag("alias") \o flag("opaque"), <<params, type>>), t)))))

\* parse_const, and the semicolon.  The colon may be missing.
ParseConst(p) ==
  IF Word(p) # "val" THEN None(p)
  ELSE EatIdent(p + 1, LAMBDA name, q :
         Then(Expect(Parse("type", IF Word(q) = ":" THEN q + 1 ELSE q)), LAMBDA type, r :
           Eat("=", r, LAMBDA s :
             Then(Expect(Parse("expression", s)), LAMBDA value, t :
               Eat(";", t, LAMBDA u : Ok(Node("const", <<name>>, <<type, value>>), u))))))

ParseNamespace(p) ==
  IF Word(p) # "namespace" THEN None(p)
  ELSE EatIdent(p + 1, LAMBDA name, q :
         Eat("{", q, LAMBDA r :
           Then(Many("definition", r, <<>>), LAMBDA members, s :
             Eat("}", s, LAMBDA t : Ok(Node("namespace", <<name>>, members.parts), t)))))

\* One alternative after the other, each from where the one before has stopped.
RECURSIVE FirstOf(_, _)
FirstOf(alternatives, p) ==
  IF alternatives = <<>> THEN None(p)
  ELSE OrElse(Parse(Head(alternatives), p), LAMBDA q : FirstOf(Tail(alternatives), q))

ParseDefinition(p) == FirstOf(<<"namespace", "const", "function", "type defn", "ability", "impl">>, p)

Parse(what, p) ==
  CASE what = "definition" -> ParseDefinition(p)
    [] what = "namespace" -> ParseNamespace(p)
    [] what = "const" -> ParseConst(p)
    [] what = "function" -> ParseFunction(p)
    [] what = "type defn" -> ParseTypeDefn(p)
    [] what = "ability" -> ParseAbility(p)
    [] what = "impl" -> ParseImpl(p)
    [] what = "parameter" -> ParseTyped("parameter", p)
    [] what = "type parameter" ->
         EatIdent(p, LAMBDA name, q : Ok(Node("type parameter", <<name>>, <<>>), q))
    [] what = "constraint" -> ParseConstraint(p)
    [] what = "block" -> ParseBlock(p)
    [] what = "statement" -> ParseStatement(p)
    [] what = "expression" -> ParseExpression(p)
    [] what = "base expression" -> ParseBaseExpression(p)
    [] what = "argument" -> ParseArgument(p)
    [] what = "field" -> ParseField(p)
    [] what = "arm" -> ParseArm(p)
    [] what = "type" -> ParseType(p)
    [] what = "type field" -> ParseTyped("type field", p)
    [] what = "pattern" -> ParsePattern(p)
    [] what = "pattern field" -> ParsePatternField(p)

-----------------------------------------------------------------------------
(* parse_module.                                                             *)

Init ==
  /\ \E sources \in Sources : \E source \in sources : text = source.text /\ meant = source.meant
  /\ cursor = 1
  /\ phase = "first"
  /\ definitions = <<>>
  /\ errors = <<>>
  /\ result = "run"

\* Either loop goes on for as long as there are definitions.
Definition(r) ==
  /\ r.is = "ok"
  /\ definitions' = Append(definitions, r.node)
  /\ cursor' = r.cursor
  /\ UNCHANGED <<text, meant, phase, errors, result>>

\* Fault: the token at which an error is found is skipped.
EndFirst_Skips(r) ==
  /\ phase = "first" /\ r.is \in {"none", "err"}
  /\ errors' = IF r.is = "none" THEN errors
               ELSE Append(errors, [from |-> cursor, at |-> r.cursor])
  /\ cursor' = IF r.is = "none" THEN r.cursor ELSE r.cursor + 1
  /\ phase' = "second"
  /\ UNCHANGED <<text, meant, definitions, result>>

\* The first loop ends at an error, which it records, as well as without one; the
\* second goes on where the first has stopped.
EndFirst(r) ==
  /\ phase = "first" /\ r.is \in {"none", "err"}
  /\ errors' = IF r.is = "none" THEN errors
               ELSE Append(errors, [from |-> cursor, at |-> r.cursor])
  /\ cursor' = r.cursor
  /\ phase' = "second"
  /\ UNCHANGED <<text, meant, definitions, result>>

\* The second loop ends when there is none, or returns its error, and does not
\* record it.
EndSecond(r) ==
  /\ phase = "second" /\ r.is \in {"none", "err"}
  /\ cursor' = r.cursor
  /\ phase' = "end"
  /\ result' = IF r.is = "err" THEN "err" ELSE result
  /\ UNCHANGED <<text, meant, definitions, errors>>

\* An operand followed by "[" in one of the definitions.
NeverReturns(r) ==
  /\ r.is = "loops"
  /\ result' = "loops"
  /\ UNCHANGED <<text, meant, cursor, phase, definitions, errors>>

ParseNext ==
  /\ result = "run" /\ phase \in {"first", "second"}
  /\ LET r == Parse("definition", cursor)
     IN Definition(r) \/ EndFirst(r) \/ EndSecond(r) \/ NeverReturns(r)

\* At the end of the file the definitions are kept, with or without errors.
EndOfFile ==
  /\ result = "run" /\ phase = "end"
  /\ result' = IF Word(cursor) = "eof" THEN "ok" ELSE "err"
  /\ errors' = IF Word(cursor) # "eof" /\ errors = <<>>
               THEN <<[from |-> cursor, at |-> cursor]>> ELSE errors
  /\ UNCHANGED <<text, meant, cursor, phase, definitions>>

Returned == result # "run" /\ UNCHANGED vars

Next == ParseNext \/ EndOfFile \/ Returned

Spec == Init /\ [][Next]_vars
=============================================================================
