---------------------------- MODULE ControlFlow ----------------------------
(***************************************************************************)
(* Blocks, if, while, return and the values of type never in the type      *)
(* checker (src/k1/typer.rs): which functions it accepts and the typed     *)
(* trees it makes of them.                                                 *)
(*                                                                         *)
(* A node has a kind, a name (of a variable or function, or a literal),    *)
(* parts, a type ("?" until it is known) and, for a use or a definition of *)
(* a variable, its id.  The types are unit, bool, int and never.           *)
(***************************************************************************)
EXTENDS Integers, Sequences, FiniteSets, TLC

Node(kind, name, subs) == [kind |-> kind, name |-> name, subs |-> subs, type |-> "?", id |-> 0]

Error == [kind |-> "error", name |-> "", subs |-> <<>>, type |-> "error", id |-> 0]

\* A function: external if it has no body.
Function(name, params, ret, body) == [name |-> name, params |-> params, ret |-> ret, body |-> body]
Param(name, type) == [name |-> name, type |-> type]

FunctionNamed(functions, f) == CHOOSE g \in {functions[i] : i \in DOMAIN functions} : g.name = f
Names(functions) == {functions[i].name : i \in DOMAIN functions}

-----------------------------------------------------------------------------
(* One construct, its parts being typed already.                             *)

\* check_types, between these types.
CheckTypes(expected, actual) == actual \in {expected, "never"}

\* A block with the statement added.
Push(block, stmt) == [block EXCEPT !.subs = Append(@, stmt), !.type = stmt.type]

UnitLiteral == [Node("unit", "()", <<>>) EXCEPT !.type = "unit"]

\* coerce_expr_to_block, coerce_block_to_unit_block.
UnitBlock(e) ==
  LET block == IF e.kind = "block" THEN e ELSE Push(Node("block", "", <<>>), e)
  IN IF block.type = "unit" THEN block ELSE Push(block, UnitLiteral)

\* eval_if_expr.
TypedIf(e, subs) ==
  LET branches == IF Len(subs) = 3 THEN subs
                  ELSE IF subs[2].type = "never" THEN Append(subs, UnitLiteral)
                  ELSE <<subs[1], UnitBlock(subs[2]), UnitLiteral>>
      cons == branches[2].type
      alt == branches[3].type
  IN IF \/ ~CheckTypes("bool", subs[1].type)
        \/ "never" \notin {cons, alt} /\ ~CheckTypes(cons, alt)
     THEN Error
     ELSE [e EXCEPT !.subs = branches, !.type = IF cons = "never" THEN alt ELSE cons]

\* eval_block.
TypedBlock(e, subs) ==
  IF \E i \in 1..Len(subs) - 1 : subs[i].type = "never" THEN Error
  ELSE [e EXCEPT !.subs = subs, !.type = IF subs = <<>> THEN "unit" ELSE subs[Len(subs)].type]

\* check_call_arguments.
TypedCall(e, subs, functions) ==
  IF e.name \notin Names(functions) THEN Error
  ELSE LET f == FunctionNamed(functions, e.name)
       IN IF /\ Len(subs) = Len(f.params)
             /\ \A i \in DOMAIN subs : CheckTypes(f.params[i].type, subs[i].type)
          THEN [e EXCEPT !.subs = subs, !.type = f.ret] ELSE Error

\* The other kinds, each with what its parts have to satisfy.  The variables
\* of a scope are a function from names to ids, types and mutability.
TypedNode(e, subs, scope) ==
  LET t == [i \in DOMAIN subs |-> subs[i].type]
      typed(condition, type) ==
        IF condition THEN [e EXCEPT !.subs = subs, !.type = type] ELSE Error
      known == e.name \in DOMAIN scope.variables
      variable == scope.variables[e.name]
  IN CASE e.kind \in {"unit", "bool", "int"} -> typed(TRUE, e.kind)
       [] e.kind = "variable" ->
            IF known THEN [typed(TRUE, variable.type) EXCEPT !.id = variable.id] ELSE Error
       [] e.kind = "call" -> TypedCall(e, subs, scope.functions)
       [] e.kind = "return" -> typed(CheckTypes(scope.ret, t[1]), "never")
       [] e.kind = "if" -> TypedIf(e, subs)
       [] e.kind = "block" -> TypedBlock(e, subs)
       [] e.kind = "not" -> typed(CheckTypes("bool", t[1]), "bool")
       [] e.kind \in {"and", "or"} -> typed(t[1] = "bool" /\ CheckTypes("bool", t[2]), "bool")
       [] e.kind = "while" -> typed(CheckTypes("bool", t[1]), "unit")
       [] e.kind = "assign" ->
            IF known /\ variable.mutable /\ CheckTypes(variable.type, t[1])
            THEN [typed(TRUE, "unit") EXCEPT !.id = variable.id] ELSE Error
       [] e.kind \in {"val", "mut"} -> [typed(TRUE, "unit") EXCEPT !.id = scope.next]

-----------------------------------------------------------------------------
(* Expressions, functions, modules.                                          *)

\* Scopes::add_variable, for the variable of a val or a parameter.
Declare(scope, name, type, mutable) ==
  [scope EXCEPT !.variables = (name :> [id |-> scope.next, type |-> type, mutable |-> mutable]) @@ @,
                !.next = @ + 1]

\* eval_expr and eval_block_stmt: the parts from left to right, all in the
\* scope they are in themselves: blocks, branches and loops open none.
RECURSIVE Typed(_, _)
Typed(e, scope) ==
  LET after[i \in 0..Len(e.subs)] ==
        IF i = 0 THEN [subs |-> <<>>, scope |-> scope]
        ELSE LET before == after[i - 1]
                 part == Typed(e.subs[i], before.scope)
             IN [subs |-> Append(before.subs, part.node), scope |-> part.scope]
      subs == after[Len(e.subs)].subs
      inner == after[Len(e.subs)].scope
  IN IF \E i \in DOMAIN subs : subs[i] = Error THEN [node |-> Error, scope |-> scope]
     ELSE [node |-> TypedNode(e, subs, inner),
           scope |-> IF e.kind \in {"val", "mut"}
                     THEN Declare(inner, e.name, subs[1].type, e.kind = "mut") ELSE inner]

\* The scope of a function: its parameters in order.
FunctionScope(f, functions) ==
  LET after[i \in 0..Len(f.params)] ==
        IF i = 0 THEN [functions |-> functions, ret |-> f.ret, variables |-> <<>>, next |-> 1]
        ELSE Declare(after[i - 1], f.params[i].name, f.params[i].type, FALSE)
  IN after[Len(f.params)]

\* eval_function_body.
TypedFunction(f, functions) ==
  IF f.body = <<>> THEN f
  ELSE LET block == Typed(f.body[1], FunctionScope(f, functions)).node
       IN [f EXCEPT !.body = <<IF CheckTypes(f.ret, block.type) THEN block ELSE Error>>]

TypedModule(functions) == [i \in DOMAIN functions |-> TypedFunction(functions[i], functions)]

Accepted(functions) ==
  \A i \in DOMAIN functions : TypedModule(functions)[i].body # <<Error>>
=============================================================================
