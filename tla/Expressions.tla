---------------------------- MODULE Expressions ----------------------------
(***************************************************************************)
(* The expression parser (src/k1/parse.rs): parse_expression with its      *)
(* stack of operands and operators, parse_expression_with_postfix_ops,     *)
(* parse_base_expression and eat_delimited, and the pool the expressions   *)
(* go to.  A frame is an active call of parse_expression; its caller says  *)
(* who is waiting for its result.                                          *)
(*                                                                         *)
(* "x" and "X" stand for all names but those of the integer types, which   *)
(* take no type arguments, and "1" for all literals that are one token; the*)
(* names of the other tokens are their text.  Names are without a path and *)
(* arguments without names.  Control flow, blocks, structs and struct      *)
(* patterns are left out.  White space is left out, too: whether a "-" is  *)
(* joined to what follows it is open.                                      *)
(***************************************************************************)
EXTENDS Integers, Sequences

CONSTANT
  Inputs        (* The texts that are parsed: sequences of tokens.           *)

VARIABLES
  tokens,       (* The text.                                                 *)
  cursor,       (* The position of the next token.                           *)
  expressions,  (* The pool; the id of an expression is its position.        *)
  hints,        (* Where the type hint of an expression starts, 0 if nowhere.*)
  frames,       (* The active calls of parse_expression.                     *)
  status,       (* "run", "done", "none" for Ok(None), "error".              *)
  operands      (* The ids parse_expression_with_postfix_ops has returned.   *)

vars == <<tokens, cursor, expressions, hints, frames, status, operands>>

-----------------------------------------------------------------------------
(* Tokens.                                                                   *)

Idents == {"x", "X", "1"}
PrefixOperators == {"*", "not", "&"}
\* Fault: one operator more, for which there is no case either.
PostfixOperators_Question == {".", "[", "!", "as", "?"}

PostfixOperators == {".", "[", "!", "as"}

Precedence(op) ==
  CASE op = "|" -> 102
    [] op = "%" -> 101
    [] op \in {"*", "/"} -> 100
    [] op \in {"+", "-"} -> 90
    [] op \in {"<", "<=", ">", ">=", "==", "!="} -> 80
    [] op = "and" -> 70
    [] op = "or" -> 66
    [] op = "?" -> 65

BinaryOperators ==
  {"|", "%", "*", "/", "+", "-", "<", "<=", ">", ">=", "==", "!=", "and", "or", "?"}

Tok(p) == IF p \in 1..Len(tokens) THEN tokens[p] ELSE "eof"
Peek == Tok(cursor)

\* Behind a type that goes on at q: its members, and at most one of the other
\* postfix type operators.
Postfixed(q) ==
  LET members(k) == \A j \in 0..k - 1 : Tok(q + 2 * j) = "." /\ Tok(q + 1 + 2 * j) \in Idents
      suffix(r) == IF Tok(r) \in {"?", "*"} THEN r + 1 ELSE r
  IN {suffix(q + 2 * k) : k \in {k \in 0..Len(tokens) : members(k) /\ Tok(q + 2 * k) # "."}}

\* Behind a type whose name is at p and whose type arguments end before args.
NamedType(p, args) == IF Tok(p) \notin Idents THEN {} ELSE UNION {Postfixed(q) : q \in args}

\* eat_delimited: behind the "]" that ends the list of types at q.
TypeListEnds[q \in 1..Len(tokens) + 1] ==
  IF Tok(q) = "]" THEN {q + 1}
  ELSE UNION {CASE Tok(r) = "]" -> {r + 1}
                [] Tok(r) = "," -> TypeListEnds[r + 1]
                [] OTHER -> {} :
                r \in NamedType(q, IF Tok(q + 1) = "[" THEN TypeListEnds[q + 2] ELSE {q + 1})}

\* parse_optional_type_args: behind the arguments in brackets at p, if there are any.
\* Empty if they are not closed or not types.
TypeArgsEnds(p) ==
  IF Tok(p) # "[" THEN {p}
  ELSE {q \in p + 2..Len(tokens) + 1 : q \in TypeListEnds[p + 1]}

\* Behind the type that starts at p.  Empty if there is none.
TypeEnds(p) == NamedType(p, TypeArgsEnds(p + 1))

\* Patterns: literals, names, and variants nested in k others.
PatternEnds(p) ==
  LET opened(k) == \A j \in 0..k - 1 :
        Tok(p + 3 * j) = "." /\ Tok(p + 3 * j + 1) \in Idents /\ Tok(p + 3 * j + 2) = "("
      closed(q, k) == \A j \in 0..k - 1 : Tok(q + j) = ")"
      innermost(q) ==
        CASE Tok(q) \in Idents -> {q + 1}
          [] (Tok(q) = "(" /\ Tok(q + 1) = ")") \/ (Tok(q) = "-" /\ Tok(q + 1) = "1") -> {q + 2}
          [] Tok(q) = "." /\ Tok(q + 1) \in Idents /\ Tok(q + 2) # "(" -> {q + 2}
          [] OTHER -> {}
  IN UNION {{q + k : q \in {q \in innermost(p + 3 * k) : closed(q, k)}} :
              k \in {k \in 0..Len(tokens) : opened(k)}}

-----------------------------------------------------------------------------
(* The pool and the stack of calls.                                          *)

\* An expression: its kind, its main token, the tokens its span begins and ends
\* with, and its operands.
Node(kind, at, from, to, args) ==
  [kind |-> kind, at |-> at, from |-> from, to |-> to, args |-> args]

New == Len(expressions) + 1
AddExpression(node) ==
  /\ expressions' = Append(expressions, node)
  /\ hints' = Append(hints, 0)

NoExpression == UNCHANGED <<expressions, hints>>

\* What waits for an expression: the kind of its node, its main token, the token
\* its span begins with, and the operands it has so far.
Caller(kind, at, from, args) == [kind |-> kind, at |-> at, from |-> from, args |-> args]

Closer(kind) == IF kind = "array" THEN "]" ELSE ")"

\* A call of parse_expression: where it is, the expression it has just parsed, the
\* operator that waits for its right operand, last_precedence and expr_stack.
NewFrame(caller) ==
  [caller |-> caller, step |-> "base", expr |-> 0, op |-> 0, last |-> 100000, members |-> <<>>]

Expr(id) == [kind |-> "expr", is |-> id]
Operator(at) == [kind |-> "operator", is |-> at]

Top == frames[Len(frames)]
Below == SubSeq(frames, 1, Len(frames) - 1)
In(step) == status = "run" /\ Top.step = step

WithTop(f) == [frames EXCEPT ![Len(frames)] = f]
Go(step) == frames' = WithTop([Top EXCEPT !.step = step])

\* The operand of the frame on top of fs is, so far, the expression id.
Operand(fs, id) ==
  frames' = [fs EXCEPT ![Len(fs)] = [fs[Len(fs)] EXCEPT !.expr = id, !.step = "postfix"]]

Error ==
  /\ status' = "error"
  /\ UNCHANGED <<tokens, cursor, expressions, hints, frames, operands>>

Init ==
  /\ tokens \in Inputs
  /\ cursor = 1
  /\ expressions = <<>>
  /\ hints = <<>>
  /\ frames = <<NewFrame(Caller("top", 1, 1, <<>>))>>
  /\ status = "run"
  /\ operands = {}

-----------------------------------------------------------------------------
(* parse_base_expression.                                                    *)

\* An expression of the next n tokens.
Leaf(kind, n) ==
  /\ AddExpression(Node(kind, cursor, cursor, cursor + n - 1, <<>>))
  /\ cursor' = cursor + n
  /\ Operand(frames, New)
  /\ UNCHANGED <<tokens, status, operands>>

Literal ==
  /\ In("base")
  /\ \/ Peek = "1" /\ Leaf("literal", 1)
     \/ Peek = "(" /\ Tok(cursor + 1) = ")" /\ Leaf("literal", 2)
     \/ Peek = "-" /\ Tok(cursor + 1) = "1" /\ Leaf("literal", 2)

Variable ==
  /\ In("base") /\ Peek \in {"x", "X"} /\ Tok(cursor + 1) \notin {"(", "["}
  /\ Leaf("variable", 1)

\* The expression for caller, whose last token is the next one.
Complete(fs, caller, to) ==
  /\ AddExpression(Node(caller.kind, caller.at, caller.from, to, caller.args))
  /\ cursor' = to + 1
  /\ Operand(fs, New)
  /\ UNCHANGED <<tokens, status, operands>>

\* A call of parse_expression at the token p.
Enter(fs, caller, p) ==
  /\ cursor' = p
  /\ frames' = Append(fs, NewFrame(caller))
  /\ NoExpression
  /\ UNCHANGED <<tokens, status, operands>>

\* The start of the loop of eat_delimited: an element, unless the list ends here.
Element(fs, caller, p) ==
  IF Tok(p) = Closer(caller.kind) THEN Complete(fs, caller, p) ELSE Enter(fs, caller, p)

Call ==
  /\ In("base") /\ Peek \in {"x", "X"} /\ Tok(cursor + 1) \in {"(", "["}
  /\ LET opened == {q \in TypeArgsEnds(cursor + 1) : Tok(q) = "("}
     IN \/ opened = {} /\ Error
        \/ \E q \in opened : Element(frames, Caller("call", cursor, cursor, <<>>), q + 1)

Paren ==
  /\ In("base") /\ Peek = "(" /\ Tok(cursor + 1) # ")"
  /\ Enter(frames, Caller("paren", cursor, cursor, <<>>), cursor + 1)

\* The operand of a prefix operator is a complete expression.
Prefix ==
  /\ In("base") /\ Peek \in PrefixOperators
  /\ Enter(frames, Caller("unary", cursor, cursor, <<>>), cursor + 1)

\* The name of a tag starts with an uppercase letter, or with none.
Tag ==
  /\ In("base") /\ Peek = "." /\ Tok(cursor + 1) \in Idents
  /\ CASE Tok(cursor + 1) = "x" -> Error
       [] Tok(cursor + 1) # "x" /\ Tok(cursor + 2) = "(" ->
            Enter(frames, Caller("constructor", cursor + 1, cursor, <<>>), cursor + 3)
       [] OTHER -> Leaf("tag", 2)

Array ==
  /\ In("base") /\ Peek = "["
  /\ Element(frames, Caller("array", cursor, cursor, <<>>), cursor + 1)

\* No expression starts with the next token: Ok(None) is an error for everyone but
\* the caller of the first parse_expression.
NoBase ==
  /\ In("base")
  /\ Peek \notin {"1", "x", "X", "(", "["} \cup PrefixOperators
  /\ Peek = "." => Tok(cursor + 1) \notin Idents
  /\ \/ /\ status' = IF Top.caller.kind = "top" /\ Top.op = 0 THEN "none" ELSE "error"
        /\ UNCHANGED <<tokens, cursor, expressions, hints, frames, operands>>
     \/ Peek = "-" /\ Tok(cursor + 1) \in {"x", "X"} /\ Error

-----------------------------------------------------------------------------
(* parse_expression_with_postfix_ops.                                        *)

Current == expressions[Top.expr]
Postfix(kind, to) == Node(kind, cursor, Current.from, to, <<Top.expr>>)

\* The current operand becomes that of a postfix operator that ends at the token to.
Apply(kind, to, spanEnd) ==
  /\ AddExpression(Postfix(kind, spanEnd))
  /\ cursor' = to + 1
  /\ Operand(frames, New)
  /\ UNCHANGED <<tokens, status, operands>>

Unwrap == In("postfix") /\ Peek = "!" /\ Apply("get", cursor, cursor)

Cast ==
  /\ In("postfix") /\ Peek = "as"
  /\ \/ TypeEnds(cursor + 1) = {} /\ Error
     \/ \E q \in TypeEnds(cursor + 1) : Apply("cast", q - 1, q - 1)

\* Field access and method calls.  The span of a field access without type
\* arguments is that of its base.
Member ==
  /\ In("postfix") /\ Peek = "."
  /\ \/ Tok(cursor + 1) \notin Idents /\ Error
     \/ Tok(cursor + 1) \in Idents /\ TypeArgsEnds(cursor + 2) = {} /\ Error
     \/ /\ Tok(cursor + 1) \in Idents
        /\ \E q \in TypeArgsEnds(cursor + 2) :
             IF Tok(q) = "("
             THEN Element(frames, Caller("call", cursor, Current.from, <<Top.expr>>), q + 1)
             ELSE Apply("field", q - 1, IF q = cursor + 2 THEN Current.to ELSE q - 1)

\* A postfix operator for which the loop has no case, as for "[", stays there.
Index == In("postfix") /\ Peek \in PostfixOperators \ {".", "!", "as"} /\ UNCHANGED vars

\* The end of parse_expression_with_postfix_ops with an optional type hint, and,
\* for the first operand, the start of the loop of parse_expression.
EndOperand ==
  /\ In("postfix") /\ Peek \notin PostfixOperators
  /\ LET hinted == Peek = ":"
     IN \/ hinted /\ TypeEnds(cursor + 1) = {} /\ Error
        \/ \E next \in IF hinted THEN TypeEnds(cursor + 1) ELSE {cursor} :
             /\ cursor' = next
             /\ hints' = IF hinted THEN [hints EXCEPT ![Top.expr] = cursor + 1] ELSE hints
             /\ operands' = operands \cup {Top.expr}
             /\ IF Top.op # 0 THEN Go("reduce")
                ELSE IF Tok(next) \in BinaryOperators
                THEN frames' = WithTop([Top EXCEPT !.step = "operator", !.members = <<Expr(Top.expr)>>])
                ELSE Go("is")
             /\ UNCHANGED <<tokens, expressions, status>>

-----------------------------------------------------------------------------
(* parse_expression.                                                         *)

NextOperator ==
  /\ In("operator") /\ Peek \in BinaryOperators
  /\ cursor' = cursor + 1
  /\ frames' = WithTop([Top EXCEPT !.op = cursor, !.step = "base"])
  /\ UNCHANGED <<tokens, expressions, hints, status, operands>>

EndOperators ==
  /\ In("operator") /\ Peek \notin BinaryOperators
  /\ Go("fold")
  /\ UNCHANGED <<tokens, cursor, expressions, hints, status, operands>>

\* The top of expr_stack: an operand, the operator before it and its precedence.
Height == Len(Top.members)
Rhs == Top.members[Height].is
StackedOperator == Top.members[Height - 1].is
StackedPrecedence == Precedence(Tok(StackedOperator))
Lhs == Top.members[Height - 2].is

\* Pops an operator with its operands and pushes their expression.
Combine(last) ==
  /\ AddExpression(Node("binary", StackedOperator, expressions[Lhs].from, expressions[Rhs].to,
                        <<Lhs, Rhs>>))
  /\ frames' = WithTop([Top EXCEPT !.last = last,
                          !.members = Append(SubSeq(Top.members, 1, Height - 3), Expr(New))])
  /\ UNCHANGED <<tokens, cursor, status, operands>>

\* Fault: operators of one precedence are grouped from the right.
Reducible_FromTheRight ==
  LET precedence == Precedence(Tok(Top.op))
  IN precedence < Top.last /\ Height > 1 /\ StackedPrecedence > precedence

\* The condition of the loop, and that of its body for not leaving it.
Reducible ==
  LET precedence == Precedence(Tok(Top.op))
  IN precedence <= Top.last /\ Height > 1 /\ StackedPrecedence >= precedence

Reduce == In("reduce") /\ Reducible /\ Combine(StackedPrecedence)

\* Fault: the operator popped last is not pushed back.
PushOperand_Dropped ==
  /\ In("reduce") /\ ~Reducible
  /\ LET kept == IF Height > 1 /\ Precedence(Tok(Top.op)) <= Top.last
                 THEN Append(SubSeq(Top.members, 1, Height - 2), Top.members[Height])
                 ELSE Top.members
     IN frames' = WithTop([Top EXCEPT !.step = "operator", !.op = 0,
                             !.last = Precedence(Tok(Top.op)),
                             !.members = kept \o <<Operator(Top.op), Expr(Top.expr)>>])
  /\ UNCHANGED <<tokens, cursor, expressions, hints, status, operands>>

\* An operator that was popped but binds less is back on the stack by now.
PushOperand ==
  /\ In("reduce") /\ ~Reducible
  /\ frames' = WithTop([Top EXCEPT !.step = "operator", !.op = 0,
                          !.last = Precedence(Tok(Top.op)),
                          !.members = Top.members \o <<Operator(Top.op), Expr(Top.expr)>>])
  /\ UNCHANGED <<tokens, cursor, expressions, hints, status, operands>>

Fold == In("fold") /\ Height > 1 /\ Combine(Top.last)

EndFold ==
  /\ In("fold") /\ Height = 1
  /\ frames' = WithTop([Top EXCEPT !.expr = Rhs, !.step = "is"])
  /\ UNCHANGED <<tokens, cursor, expressions, hints, status, operands>>

\* `is` takes the whole expression, and nothing may follow the pattern.
Is ==
  /\ In("is") /\ Peek = "is"
  /\ \/ PatternEnds(cursor + 1) = {} /\ Error
     \/ \E q \in PatternEnds(cursor + 1) :
          /\ AddExpression(Postfix("is", q - 1))
          /\ cursor' = q
          /\ frames' = WithTop([Top EXCEPT !.expr = New, !.step = "return"])
          /\ UNCHANGED <<tokens, status, operands>>

NoIs ==
  /\ In("is") /\ Peek # "is"
  /\ Go("return")
  /\ UNCHANGED <<tokens, cursor, expressions, hints, status, operands>>

-----------------------------------------------------------------------------
(* What the callers of parse_expression do with its result.                  *)

Returning(kinds) == In("return") /\ Top.caller.kind \in kinds
Taken == [Top.caller EXCEPT !.args = Append(@, Top.expr)]

Return ==
  /\ Returning({"top"})
  /\ status' = "done"
  /\ UNCHANGED <<tokens, cursor, expressions, hints, frames, operands>>

\* Parentheses leave no trace in the pool.
EndParen ==
  /\ Returning({"paren"})
  /\ IF Peek # ")" THEN Error
     ELSE /\ cursor' = cursor + 1
          /\ Operand(Below, Top.expr)
          /\ UNCHANGED <<tokens, expressions, hints, status, operands>>

EndPrefix ==
  /\ Returning({"unary"})
  /\ AddExpression(Node("unary", Taken.at, Taken.from, Current.to, Taken.args))
  /\ Operand(Below, New)
  /\ UNCHANGED <<tokens, cursor, status, operands>>

EndConstructor ==
  /\ Returning({"constructor"})
  /\ IF Peek # ")" THEN Error ELSE Complete(Below, Taken, cursor)

\* The rest of the loop of eat_delimited.
EndElement ==
  /\ Returning({"call", "array"})
  /\ CASE Peek = Closer(Taken.kind) -> Complete(Below, Taken, cursor)
       [] Peek = "," -> Element(Below, Taken, cursor + 1)
       [] OTHER -> Error

Finished == status # "run" /\ UNCHANGED vars

Work ==
  \/ Literal \/ Variable \/ Call \/ Paren \/ Prefix \/ Tag \/ Array \/ NoBase
  \/ Unwrap \/ Cast \/ Member \/ EndOperand
  \/ NextOperator \/ EndOperators \/ Reduce \/ PushOperand \/ Fold \/ EndFold \/ Is \/ NoIs
  \/ Return \/ EndParen \/ EndPrefix \/ EndConstructor \/ EndElement

Next == Work \/ Index \/ Finished

Spec == Init /\ [][Next]_vars

\* The parser is a loop that never waits.
FairSpec == Spec /\ WF_vars(Work)
-----------------------------------------------------------------------------
(* Properties.                                                               *)

Ids == 1..Len(expressions)
Kinds == {"literal", "variable", "unary", "binary", "call", "field", "get", "cast", "is", "tag",
          "constructor", "array"}
Callers == [kind : {"top", "paren", "unary", "constructor", "call", "array"}, at : Nat,
            from : Nat, args : Seq(Nat)]
Steps == {"base", "postfix", "operator", "reduce", "fold", "is", "return"}
Frames == [caller : Callers, step : Steps, expr : Nat, op : Nat, last : Nat,
           members : Seq([kind : {"expr", "operator"}, is : Nat])]

\* The types of the variables.  Ids stand for expressions of the pool.
TypeOK ==
  /\ tokens \in Inputs
  /\ cursor \in Nat \ {0}
  /\ expressions \in Seq([kind : Kinds, at : Nat, from : Nat, to : Nat, args : Seq(Nat)])
  /\ hints \in [Ids -> Nat]
  /\ frames \in Seq(Frames) /\ frames # <<>>
  /\ status \in {"run", "done", "none", "error"}
  /\ operands \subseteq Ids
  /\ \A n \in Ids : \A k \in 1..Len(expressions[n].args) : expressions[n].args[k] \in 1..n - 1
  /\ \A i \in 1..Len(frames) :
       LET f == frames[i]
       IN /\ f.expr \in Ids \/ (f.expr = 0 /\ f.step = "base")
          /\ \A k \in 1..Len(f.caller.args) : f.caller.args[k] \in Ids
          /\ \A k \in 1..Len(f.members) : f.members[k].kind = "expr" => f.members[k].is \in Ids

\* Nothing the parser takes for granted fails: expr_stack is a sequence of operands
\* with operators between them whenever something is popped (expect_expr,
\* expect_operator), and no span is extended to one that ends before it (the
\* debug_assert of Span::extended).
NeverPanics ==
  /\ \A i \in 1..Len(frames) :
       LET f == frames[i]
       IN /\ f.step \in {"operator", "reduce", "fold"} => Len(f.members) % 2 = 1
          /\ \A k \in 1..Len(f.members) :
               f.members[k].kind = IF k % 2 = 1 THEN "expr" ELSE "operator"
  /\ \A n \in Ids :
       LET e == expressions[n]
       IN e.from <= e.to /\ \A k \in 1..Len(e.args) : expressions[e.args[k]].to <= e.to

\* Whether n was put together by parse_expression, and not put in parentheses.
Bare(n) == expressions[n].kind = "binary" /\ n \notin operands
Binds(n) == Precedence(Tok(expressions[n].at))

\* Binary operators are grouped by precedence and, for the same precedence, from
\* the left, unless there are parentheses, and the operands of each stand on
\* their side of it.
GroupedByPrecedence ==
  \A n \in Ids : expressions[n].kind = "binary" =>
    LET lhs == expressions[n].args[1]
        rhs == expressions[n].args[2]
    IN /\ expressions[lhs].to < expressions[n].at
       /\ expressions[n].at < expressions[rhs].from
       /\ Bare(lhs) => Binds(lhs) >= Binds(n)
       /\ Bare(rhs) => Binds(rhs) > Binds(n)

\* What has been parsed is a tree: each expression of the pool but the result is
\* an operand of exactly one other.
EveryExpressionUsedOnce ==
  status = "done" =>
    \A n \in Ids :
      LET uses == {u \in Ids \X Ids : /\ u[2] <= Len(expressions[u[1]].args)
                                     /\ expressions[u[1]].args[u[2]] = n}
      IN IF n = Top.expr THEN uses = {} ELSE \E u \in uses : uses = {u}

\* The parser comes to a result.
ParsingEnds == <>(status # "run")

\* It does, unless an operand is followed by a "[" that neither it nor the type
\* at its end takes for type arguments, in every loop and list it is in.
EndsUnlessIndexed == <>(status # "run" \/ (In("postfix") /\ Peek = "["))
=============================================================================
