-------------------------- MODULE Specialization --------------------------
(***************************************************************************)
(* The type checker's functions, abilities and calls (src/k1/typer.rs):    *)
(* all definitions are declared, then the bodies are checked.  A call of a *)
(* generic function finds out its type arguments, and checks the body of   *)
(* the function again for them, as a function of its own.                  *)
(*                                                                         *)
(* The checker is recursive; tasks is what is left to do of all active     *)
(* calls, innermost first, and values are the typed expressions they hold. *)
(* An error ends all calls up to one that lets it pass: the inference of   *)
(* type arguments does, from the evaluation of an argument.                *)
(*                                                                         *)
(* A type is a number of times Box, the only generic type, around a name:  *)
(* Box<Box<T>> is T with two boxes.  A type variable has the scope it was  *)
(* made in, other types have none.                                         *)
(***************************************************************************)
EXTENDS Integers, Sequences, FiniteSets

CONSTANTS
  Programs,    (* Sequences of definitions.                                *)
  MaxNesting,  (* The specializations that fit on the stack of the thread. *)
  CheckSteps   (* The steps of check_types that fit there.                 *)

ASSUME BoundsAssumption == MaxNesting \in Nat \ {0} /\ CheckSteps \in Nat \ {0}

VARIABLES
  program,   (* The definitions.                                           *)
  phase,     (* "declare", "evaluate", "accepted", "rejected", "overflow". *)
  next,      (* The definition the phase comes to next.                    *)
  functions, (* functions: what is known of each, by FunctionId.           *)
  abilities, (* abilities: names, and the ids of their functions.          *)
  impls,     (* ability_impls, likewise.                                   *)
  tasks,     (* What is left to check.                                     *)
  values,    (* The typed expressions at hand.                             *)
  errors     (* The number of errors.                                      *)

table == <<functions, abilities, impls>>
vars == <<program, phase, next, table, tasks, values, errors>>

-----------------------------------------------------------------------------
(* Definitions, expressions and types.                                       *)

Definition(kind, name, tparams, params, ret, body) ==
  [kind |-> kind, name |-> name, tparams |-> tparams, params |-> params, ret |-> ret, body |-> body]
FunctionDefn(name, tparams, params, ret, body) == Definition("function", name, tparams, params, ret, body)
\* The functions of an ability, and of an implementation for a type.
AbilityDefn(name, fns) == Definition("ability", name, <<>>, <<>>, <<>>, fns)
ImplDefn(name, type, fns) == Definition("impl", name, <<>>, <<>>, type, fns)

TypeParam(name, needs) == [name |-> name, needs |-> needs]
Param(name, type) == [name |-> name, type |-> type]

\* An expression; an argument has the name it is passed by, or "".
Expression(kind, name, targs, args) == [kind |-> kind, name |-> name, targs |-> targs, args |-> args]
Argument(name, value) == [name |-> name, value |-> value]

Type(boxes, name) == [boxes |-> boxes, name |-> name, scope |-> "", needs |-> {}]
Variable(tparam, scope) == [boxes |-> 0, name |-> tparam.name, scope |-> scope, needs |-> tparam.needs]
Boxed(n, t) == [t EXCEPT !.boxes = @ + n]

MentionsVariable(t) == t.scope # ""
IsVariable(t) == MentionsVariable(t) /\ t.boxes = 0

\* eval_type_expr, in a scope that has types by name.
EvalType(t, types) == IF t.name \in DOMAIN types THEN Boxed(t.boxes, types[t.name]) ELSE t

\* A scope in which names are types, around it another.
Solution(name, type) == [name |-> name, type |-> type]
Bind(outer, solved) ==
  [x \in DOMAIN outer \cup {solved[i].name : i \in DOMAIN solved} |->
     IF \E i \in DOMAIN solved : solved[i].name = x
     THEN solved[CHOOSE i \in DOMAIN solved : solved[i].name = x].type ELSE outer[x]]
NoTypes == [x \in {} |-> Type(0, "int")]

Smaller(a, b) == IF a < b THEN a ELSE b
\* Two instances of a generic type are compared by their parameters.
Unboxed(t, u) == Boxed(-Smaller(t.boxes, u.boxes), t)

-----------------------------------------------------------------------------
(* check_types and solve_generic_params.                                     *)

Comparison(expected, actual, verdict) == [expected |-> expected, actual |-> actual, verdict |-> verdict]

\* Fault: a variable that is itself what the scope has is looked up again.
Moves_Always(t, types) == IsVariable(t) /\ t.name \in DOMAIN types

\* A variable that the scope has another type for under its name.
Moves(t, types) == IsVariable(t) /\ t.name \in DOMAIN types /\ types[t.name] # t

\* One call of check_types; "open" stands for a call of itself.
CheckStep(c, types) ==
  LET e == Unboxed(c.expected, c.actual)
      a == Unboxed(c.actual, c.expected)
  IN CASE c.verdict # "open" -> c
       [] c.verdict = "open" /\ e = a -> Comparison(e, a, "ok")
       [] c.verdict = "open" /\ e # a ->
            IF IsVariable(e) /\ (IsVariable(a) \/ e.name \notin DOMAIN types) THEN Comparison(e, a, "err")
            ELSE IF Moves(e, types) THEN Comparison(types[e.name], a, "open")
            ELSE IF Moves(a, types) THEN Comparison(e, types[a.name], "open")
            ELSE Comparison(e, a, "err")

\* "ok", "err", or "open" when it calls itself without end.
CheckTypes(expected, actual, types) ==
  LET after[n \in 0..CheckSteps] ==
        IF n = 0 THEN Comparison(expected, actual, "open")
        ELSE LET before == after[n - 1] IN CheckStep(before, types)
  IN after[CheckSteps].verdict

\* The solutions after an expression of type passed was met where a parameter
\* has type slot.
Solve(solved, passed, slot, types) ==
  LET p == Unboxed(passed, slot)
      s == Unboxed(slot, passed)
      known == {i \in DOMAIN solved : solved[i].name = s.name}
  IN IF ~IsVariable(s) THEN [verdict |-> "ok", solved |-> solved]
     ELSE IF known = {} THEN [verdict |-> "ok", solved |-> Append(solved, Solution(s.name, p))]
     ELSE [verdict |-> CheckTypes(solved[CHOOSE i \in known : TRUE].type, p, types), solved |-> solved]

-----------------------------------------------------------------------------
(* Functions.                                                                *)

\* eval_function_predecl: a function in a scope inside one with types outer.
Predeclared(ast, kind, outer, own, tparams) ==
  LET types == Bind(outer, own)
  IN [ast |-> ast, kind |-> kind, outer |-> outer, types |-> types, tparams |-> tparams,
      params |-> [i \in DOMAIN ast.params |-> EvalType(ast.params[i].type, types)],
      ret |-> EvalType(ast.ret, types), block |-> <<>>, specializations |-> <<>>, generic |-> 0]

OwnVariables(ast) ==
  [i \in DOMAIN ast.tparams |-> Solution(ast.tparams[i].name, Variable(ast.tparams[i], ast.name))]
DeclaredFunction(ast, kind, outer) == Predeclared(ast, kind, outer, OwnVariables(ast), ast.tparams)

SelfParam == TypeParam("Self", {})

\* Those that a scope, or the namespace of an ability, has under a name.
Named(name, kind) ==
  {i \in DOMAIN functions : functions[i].generic = 0 /\ functions[i].kind = kind /\ functions[i].ast.name = name}
AbilityNames == {abilities[k].name : k \in DOMAIN abilities}

\* All abilities that constrain its type parameters have been declared.
ConstraintsResolve(ast) == \A i \in DOMAIN ast.tparams : ast.tparams[i].needs \subseteq AbilityNames

\* An ability or an implementation has the function.
IsOf(owner, id) == \E j \in DOMAIN owner.functions : owner.functions[j] = id

\* The ids of an implementation's functions of that name; only_ability_id is
\* empty, or one name.
FindAbilityImplementation(name, type, only) ==
  LET candidates == {k \in DOMAIN impls : impls[k].type = type /\ (only # {} => impls[k].ability \in only)}
  IN {i \in DOMAIN functions : functions[i].ast.name = name /\ \E k \in candidates : IsOf(impls[k], i)}
Implements(type, ability) == \E k \in DOMAIN impls : impls[k].type = type /\ impls[k].ability = ability

\* Fault: only the type that a function returns is looked at.
ShouldCodegen_Returned(i) == functions[i].kind # "ability" /\ ~MentionsVariable(functions[i].ret)

\* should_codegen_function.
ShouldCodegen(i) ==
  /\ functions[i].kind # "ability"
  /\ ~MentionsVariable(functions[i].ret)
  /\ \A k \in DOMAIN functions[i].params : ~MentionsVariable(functions[i].params[k])

-----------------------------------------------------------------------------
(* The declaration phase.                                                    *)

Defn == program[next]
Declaring(kind) == phase = "declare" /\ next <= Len(program) /\ Defn.kind = kind
Declared ==
  /\ next' = next + 1 /\ UNCHANGED <<program, phase, tasks, values>>

\* What a declaration that fails leaves in the tables is not looked at again:
\* run gives up after the phase.
DeclarationFails == errors' = errors + 1 /\ UNCHANGED table

DeclareFunction ==
  /\ Declaring("function") /\ Declared
  /\ IF ConstraintsResolve(Defn) /\ Named(Defn.name, "standard") = {}
     THEN /\ functions' = Append(functions, DeclaredFunction(Defn, "standard", NoTypes))
          /\ UNCHANGED <<abilities, impls, errors>>
     ELSE DeclarationFails

\* eval_ability_defn: its functions are generic in Self, which is what their
\* first parameter, if they have any, has to be.
DeclareAbility ==
  /\ Declaring("ability") /\ Declared
  /\ LET scope == Bind(NoTypes, <<Solution("Self", Variable(SelfParam, Defn.name))>>)
         takesSelf(ast) == ast.params # <<>> => ast.params[1] = Param("self", Type(0, "Self"))
         fn(ast) == [DeclaredFunction(ast, "ability", scope) EXCEPT !.tparams = <<SelfParam>> \o @]
     IN IF /\ Defn.name \notin AbilityNames
           /\ \A i \in DOMAIN Defn.body : takesSelf(Defn.body[i]) /\ ConstraintsResolve(Defn.body[i])
        THEN /\ functions' = functions \o [i \in DOMAIN Defn.body |-> fn(Defn.body[i])]
             /\ abilities' = Append(abilities, [name |-> Defn.name,
                                                functions |-> [i \in DOMAIN Defn.body |-> Len(functions) + i]])
             /\ UNCHANGED <<impls, errors>>
        ELSE DeclarationFails

\* Fault: the type that is returned is not compared.
SameSignature_Params(ast, generic, scope) ==
  LET fn == DeclaredFunction(ast, "impl", scope)
  IN /\ Len(fn.params) = Len(generic.params)
     /\ \A i \in DOMAIN fn.params : CheckTypes(generic.params[i], fn.params[i], scope) = "ok"

\* A function of an implementation has the signature of the ability's.
SameSignature(ast, generic, scope) ==
  LET fn == DeclaredFunction(ast, "impl", scope)
  IN /\ Len(fn.params) = Len(generic.params)
     /\ \A i \in DOMAIN fn.params : CheckTypes(generic.params[i], fn.params[i], scope) = "ok"
     /\ CheckTypes(generic.ret, fn.ret, scope) = "ok"

\* eval_ability_impl_decl.
DeclareImpl ==
  /\ Declaring("impl") /\ Declared
  /\ LET scope == Bind(NoTypes, <<Solution("Self", Defn.ret)>>)
         ofName == {k \in DOMAIN abilities : abilities[k].name = Defn.name}
         ability == abilities[CHOOSE k \in ofName : TRUE]
         generic(i) == functions[ability.functions[i]]
         mine(i) == {k \in DOMAIN Defn.body : Defn.body[k].name = generic(i).ast.name}
         first(i) == Defn.body[CHOOSE k \in mine(i) : \A m \in mine(i) : k <= m]
     IN IF /\ ofName # {} /\ ~Implements(Defn.ret, Defn.name)
           /\ \A i \in DOMAIN ability.functions : /\ mine(i) # {} /\ ConstraintsResolve(first(i))
                                                  /\ SameSignature(first(i), generic(i), scope)
        THEN /\ functions' = functions \o [i \in DOMAIN ability.functions |->
                                             DeclaredFunction(first(i), "impl", scope)]
             /\ impls' = Append(impls, [ability |-> Defn.name, type |-> Defn.ret,
                                        functions |-> [i \in DOMAIN ability.functions |-> Len(functions) + i]])
             /\ UNCHANGED <<abilities, errors>>
        ELSE DeclarationFails

DeclarationDone ==
  /\ phase = "declare" /\ next > Len(program)
  /\ phase' = IF errors = 0 THEN "evaluate" ELSE "rejected"
  /\ next' = 1
  /\ UNCHANGED <<program, table, tasks, values, errors>>

-----------------------------------------------------------------------------
(* The evaluation phase: the checker's calls.                                *)

\* The expression, or call, a task is about, the function in whose scope, and
\* the type expected of its value, if any; then the function called, the
\* solutions so far, the parameter, and how many values are below.
Task(do, node, scope, expected) ==
  [do |-> do, node |-> node, scope |-> scope, expected |-> expected,
   callee |-> 0, solved |-> <<>>, index |-> 0, depth |-> 0]
Eval(e, scope, expected) == Task("eval", e, scope, expected)

\* What a typed expression has in it: the types of all expressions, and calls.
Typed(type, types, calls) == [type |-> type, types |-> types \cup {type}, calls |-> calls]

Current == tasks[1]
Node == Current.node
Top == values[1]
Scope == functions[Current.scope].types

Doing(do) == phase = "evaluate" /\ tasks # <<>> /\ Current.do = do
Continue(with) == tasks' = with \o Tail(tasks)
Pop(n) == SubSeq(values, n + 1, Len(values))
Checking == UNCHANGED <<program, phase, next, errors>>

\* The stack of the thread is exhausted.
Overflow == phase' = "overflow" /\ UNCHANGED <<program, next, table, tasks, values, errors>>

\* What inference does after an argument, also one that could not be evaluated.
AfterArgument(task) == [task EXCEPT !.do = "infer", !.index = @ + 1]

\* An error: what inference tried is given up, or the definition.
Fails ==
  LET catches == {k \in 2..Len(tasks) : tasks[k].do \in {"solve", "definition"}}
      first == CHOOSE k \in catches : \A m \in catches : k <= m
      catch == tasks[first]
      rest == SubSeq(tasks, first + 1, Len(tasks))
  IN /\ values' = SubSeq(values, Len(values) - catch.depth + 1, Len(values))
     /\ IF catch.do = "solve"
        THEN tasks' = <<AfterArgument(catch)>> \o rest /\ UNCHANGED errors
        ELSE tasks' = rest /\ errors' = errors + 1
     /\ UNCHANGED <<program, phase, next>>
Fail == Fails /\ UNCHANGED table

\* The end of eval_expr: n values make one, which is compared with the type
\* that is expected; an error is left to the caller.
Yields(n, value) ==
  IF Current.expected # <<>> /\ CheckTypes(Current.expected[1], value.type, Scope) = "open" THEN Overflow
  ELSE Continue(<<>>) /\ values' = <<value>> \o Pop(n) /\ Checking /\ UNCHANGED table

Literal ==
  /\ Doing("eval") /\ Node.kind \in {"int", "bool"}
  /\ Yields(0, Typed(Type(0, Node.kind), {}, {}))

\* A parameter of the function around.
Use ==
  /\ Doing("eval") /\ Node.kind = "param"
  /\ LET fn == functions[Current.scope]
         named == {i \in DOMAIN fn.params : fn.ast.params[i].name = Node.name}
     IN IF named = {} THEN Fail
        ELSE Yields(0, Typed(fn.params[CHOOSE i \in named : TRUE], {}, {}))

-----------------------------------------------------------------------------
(* Which function is called: resolve_parsed_function_call.                   *)

CallTo(id) == [Current EXCEPT !.do = "call", !.callee = id]

ResolveByName ==
  /\ Doing("eval") /\ Node.kind = "call"
  /\ LET found == Named(Node.name, "standard")
     IN IF found = {} THEN Fail
        ELSE Continue(<<CallTo(CHOOSE i \in found : TRUE)>>) /\ Checking /\ UNCHANGED <<table, values>>

\* The first argument of a method call, and of a function of an ability, is
\* evaluated to find the implementation for its type.
ResolveReceiver ==
  /\ Doing("eval") /\ Node.kind \in {"method", "qualified"}
  /\ IF Node.args = <<>> \/ (Node.kind = "qualified" /\ Named(Node.name, "ability") = {}) THEN Fail
     ELSE Continue(<<Eval(Node.args[1].value, Current.scope, <<>>), [Current EXCEPT !.do = "dispatch"]>>)
            /\ Checking /\ UNCHANGED <<table, values>>

\* Fault: implementations are searched for type variables, too.
FunctionsOfConstraints_Implemented(name, t) == FindAbilityImplementation(name, t, t.needs)

\* The functions of that name of the abilities a type variable has.
FunctionsOfConstraints(name, t) ==
  {i \in Named(name, "ability") : \E k \in DOMAIN abilities : abilities[k].name \in t.needs /\ IsOf(abilities[k], i)}

Dispatch ==
  /\ Doing("dispatch")
  /\ LET ability == CHOOSE i \in Named(Node.name, "ability") : TRUE
         owner == {abilities[k].name : k \in {k \in DOMAIN abilities : IsOf(abilities[k], ability)}}
         found == IF Node.kind = "method" /\ IsVariable(Top.type) THEN FunctionsOfConstraints(Node.name, Top.type)
                  ELSE FindAbilityImplementation(Node.name, Top.type, IF Node.kind = "method" THEN {} ELSE owner)
     IN IF Cardinality(found) # 1 THEN Fail
        ELSE /\ Continue(<<CallTo(CHOOSE i \in found : TRUE)>>) /\ values' = Pop(1)
             /\ Checking /\ UNCHANGED table

-----------------------------------------------------------------------------
(* The type arguments of a call: infer_and_check_call_type_args.             *)

Callee == functions[Current.callee]

\* The argument for a parameter: the one of its name, or the one in its place.
Passed(fn, node, i) ==
  LET named == {k \in DOMAIN node.args : node.args[k].name = fn.ast.params[i].name}
  IN IF named # {} THEN {node.args[CHOOSE k \in named : TRUE].value}
     ELSE {node.args[k].value : k \in {i} \cap DOMAIN node.args}
ArgumentFor(fn, node, i) == CHOOSE e \in Passed(fn, node, i) : TRUE

\* check_call_arguments; arguments are evaluated (again) in order.
CheckArguments(id, fn) ==
  LET step(i) == <<Eval(ArgumentFor(fn, Node, i), Current.scope, <<fn.params[i]>>),
                   [Current EXCEPT !.do = "argument", !.callee = id, !.index = i]>>
      upTo[i \in 0..Len(fn.params)] == IF i = 0 THEN <<>> ELSE upTo[i - 1] \o step(i)
  IN upTo[Len(fn.params)] \o <<[Current EXCEPT !.do = "called", !.callee = id]>>
ChecksArguments(id, fn) ==
  IF Len(Node.args) # Len(fn.params) THEN Fails
  ELSE Continue(CheckArguments(id, fn)) /\ Checking /\ UNCHANGED values

Specializes(solved) == Continue(<<[Current EXCEPT !.do = "specialize", !.solved = solved]>>)

\* eval_function_call: type arguments are those given, or inferred.
Call ==
  /\ Doing("call")
  /\ IF Callee.tparams = <<>> THEN ChecksArguments(Current.callee, Callee) /\ UNCHANGED table
     ELSE IF Node.targs = <<>>
     THEN /\ Continue(<<[Current EXCEPT !.do = "infer", !.index = 1]>>)
          /\ Checking /\ UNCHANGED <<table, values>>
     ELSE IF Len(Node.targs) # Len(Callee.tparams) THEN Fail
     ELSE /\ Specializes([i \in DOMAIN Node.targs |->
                            Solution(Callee.tparams[i].name, EvalType(Node.targs[i], Scope))])
          /\ Checking /\ UNCHANGED <<table, values>>

\* The next parameter's argument is evaluated, until all are solved; at last
\* the type expected of the call is compared with the one it returns.
Infer ==
  /\ Doing("infer")
  /\ LET solved == Current.solved
         complete(s) == Len(s) = Len(Callee.tparams)
         byType == IF complete(solved) \/ Current.expected = <<>> THEN [verdict |-> "ok", solved |-> solved]
                   ELSE Solve(solved, Current.expected[1], Callee.ret, Scope)
     IN IF ~complete(solved) /\ Current.index <= Len(Callee.params)
        THEN IF Passed(Callee, Node, Current.index) = {} THEN Fail
             ELSE /\ Continue(<<Eval(ArgumentFor(Callee, Node, Current.index), Current.scope,
                                     <<Callee.params[Current.index]>>),
                                [Current EXCEPT !.do = "solve", !.depth = Len(values)]>>)
                  /\ Checking /\ UNCHANGED <<table, values>>
        ELSE IF byType.verdict = "open" THEN Overflow
        ELSE IF byType.verdict = "err" \/ ~complete(byType.solved) THEN Fail
        ELSE Specializes(byType.solved) /\ Checking /\ UNCHANGED <<table, values>>

\* The argument could be evaluated.
SolveArgument ==
  /\ Doing("solve")
  /\ LET s == Solve(Current.solved, Top.type, Callee.params[Current.index], Scope)
     IN IF s.verdict = "open" THEN Overflow
        ELSE IF s.verdict = "err" THEN Fail
        ELSE /\ Continue(<<[AfterArgument(Current) EXCEPT !.solved = s.solved]>>)
             /\ values' = Pop(1)
             /\ Checking /\ UNCHANGED table

-----------------------------------------------------------------------------
(* Specializations and bodies.                                               *)

\* The type parameters' constraints are compared with the type arguments in
\* the order these are in.
Constrained(fn, solved) ==
  \A i \in DOMAIN solved : \A a \in fn.tparams[i].needs : Implements(solved[i].type, a)

\* eval_function_body, before its last checks.
Body(id, fn) ==
  LET n == Len(fn.ast.body)
      statement(i) == Eval(fn.ast.body[i], id, IF i = n THEN <<fn.ret>> ELSE <<>>)
  IN IF n = 0 THEN <<>> ELSE [i \in 1..n |-> statement(i)] \o <<Task("block", fn.ast, id, <<>>)>>

Nesting == Cardinality({k \in DOMAIN tasks : tasks[k].do = "record"})

\* get_specialized_function_for_call: the specialization there is for these
\* types, or a new one, which is recorded when its body has been checked.
Specialize ==
  /\ Doing("specialize")
  /\ LET solved == Current.solved
         ids == [i \in DOMAIN solved |-> solved[i].type]
         known == {k \in DOMAIN Callee.specializations : Callee.specializations[k].ids = ids}
         new == [Predeclared(Callee.ast, Callee.kind, Callee.outer, solved, <<>>)
                   EXCEPT !.generic = Current.callee]
     IN IF ~Constrained(Callee, solved) THEN Fail
        ELSE IF known # {}
        THEN /\ UNCHANGED table
             /\ LET k == CHOOSE k \in known : \A m \in known : k <= m
                    id == Callee.specializations[k].fn
                IN ChecksArguments(id, functions[id])
        ELSE IF Nesting = MaxNesting THEN Overflow
        ELSE /\ functions' = Append(functions, new)
             /\ Continue(Body(Len(functions'), new) \o <<[Current EXCEPT !.do = "record", !.index = Len(functions')]>>)
             /\ Checking /\ UNCHANGED <<abilities, impls, values>>

\* The body of a function has been evaluated.
Block ==
  /\ Doing("block")
  /\ LET n == Len(Node.body)
         verdict == CheckTypes(functions[Current.scope].ret, Top.type, Scope)
     IN IF verdict = "open" THEN Overflow
        ELSE IF verdict = "err" THEN Fail
        ELSE /\ functions' = [functions EXCEPT ![Current.scope].block =
                                <<[types |-> UNION {values[i].types : i \in 1..n},
                                   calls |-> UNION {values[i].calls : i \in 1..n}]>>]
             /\ Continue(<<>>) /\ values' = Pop(n)
             /\ Checking /\ UNCHANGED <<abilities, impls>>

\* SpecializationStruct.
Specialization(task) ==
  [ids |-> [i \in DOMAIN task.solved |-> task.solved[i].type], fn |-> task.index]

Record ==
  /\ Doing("record")
  /\ functions' = [functions EXCEPT ![Current.callee].specializations = Append(@, Specialization(Current))]
  /\ UNCHANGED <<abilities, impls>>
  /\ ChecksArguments(Current.index, functions[Current.index])

CheckArgument ==
  /\ Doing("argument")
  /\ LET verdict == CheckTypes(Callee.params[Current.index], Top.type, Scope)
     IN IF verdict = "open" THEN Overflow
        ELSE IF verdict = "err" THEN Fail
        ELSE Continue(<<>>) /\ Checking /\ UNCHANGED <<table, values>>

\* The typed call.
Called ==
  /\ Doing("called")
  /\ LET n == Len(Callee.params)
         call == [callee |-> Current.callee, targs |-> Current.solved]
     IN Yields(n, Typed(Callee.ret, UNION {values[i].types : i \in 1..n},
                        {call} \cup UNION {values[i].calls : i \in 1..n}))

\* eval_definition.
EvalDefinition ==
  /\ phase = "evaluate" /\ tasks = <<>> /\ next <= Len(program)
  /\ LET mine == {i \in DOMAIN functions :
                    /\ functions[i].generic = 0
                    /\ \/ Defn.kind = "function" /\ functions[i].kind = "standard" /\ functions[i].ast = Defn
                       \/ Defn.kind = "impl" /\ \E k \in DOMAIN impls :
                            impls[k].ability = Defn.name /\ impls[k].type = Defn.ret /\ IsOf(impls[k], i)}
         upTo[i \in 0..Len(functions)] ==
           IF i = 0 THEN <<>> ELSE upTo[i - 1] \o IF i \in mine THEN Body(i, functions[i]) ELSE <<>>
     IN tasks' = upTo[Len(functions)] \o <<Task("definition", <<>>, 0, <<>>)>>
  /\ next' = next + 1
  /\ UNCHANGED <<program, phase, table, values, errors>>

DefinitionDone ==
  /\ Doing("definition")
  /\ Continue(<<>>) /\ Checking /\ UNCHANGED <<table, values>>

EvaluationDone ==
  /\ phase = "evaluate" /\ tasks = <<>> /\ next > Len(program)
  /\ phase' = IF errors = 0 THEN "accepted" ELSE "rejected"
  /\ UNCHANGED <<program, next, table, tasks, values, errors>>

-----------------------------------------------------------------------------

Init ==
  /\ program \in Programs
  /\ phase = "declare" /\ next = 1
  /\ functions = <<>> /\ abilities = <<>> /\ impls = <<>>
  /\ tasks = <<>> /\ values = <<>> /\ errors = 0

Declaration == DeclareFunction \/ DeclareAbility \/ DeclareImpl \/ DeclarationDone
Evaluation == \/ EvalDefinition \/ Literal \/ Use \/ ResolveByName \/ ResolveReceiver \/ Dispatch \/ Call
              \/ Infer \/ SolveArgument \/ Specialize \/ Block \/ Record \/ CheckArgument \/ Called
              \/ DefinitionDone \/ EvaluationDone

Over == phase \in {"accepted", "rejected", "overflow"}
Done == Over /\ UNCHANGED vars

Next == Declaration \/ Evaluation \/ Done

\* One thread checks a program.
Spec == Init /\ [][Next]_vars

-----------------------------------------------------------------------------

\* The types of the variables.  No value is left when nothing is left to do;
\* a specialization is one of its function, in whose scope the type
\* parameters are the types it is known by, and has no type parameters.
TypeOK ==
  /\ phase \in {"declare", "evaluate", "accepted", "rejected", "overflow"}
  /\ next \in 1..Len(program) + 1 /\ errors \in 0..2 * Len(program)
  /\ tasks = <<>> => values = <<>>
  /\ \A k \in DOMAIN tasks : tasks[k].scope \in 0..Len(functions) /\ tasks[k].callee \in 0..Len(functions)
  /\ \A o \in {abilities[k] : k \in DOMAIN abilities} \cup {impls[k] : k \in DOMAIN impls} :
       \A j \in DOMAIN o.functions : o.functions[j] \in DOMAIN functions
  /\ \A i \in DOMAIN functions : \A k \in DOMAIN functions[i].specializations :
       LET s == functions[i].specializations[k]
       IN /\ s.fn \in DOMAIN functions /\ functions[s.fn].generic = i /\ functions[s.fn].tparams = <<>>
          /\ {s.ids[j] : j \in DOMAIN s.ids} =
               {functions[s.fn].types[functions[i].tparams[j].name] : j \in DOMAIN functions[i].tparams}

\* The functions that code is generated for: those codegen_module comes to,
\* and those they call.
Generated ==
  LET calledBy(i) == {c.callee : c \in UNION {functions[i].block[k].calls : k \in DOMAIN functions[i].block}}
      within[n \in 0..Len(functions)] ==
        IF n = 0 THEN {i \in DOMAIN functions : ShouldCodegen(i)}
        ELSE LET before == within[n - 1] IN before \cup UNION {calledBy(i) : i \in before}
  IN within[Len(functions)]

\* codegen_type knows no type variables, and codegen_function needs a body.
Concrete(fn) ==
  /\ fn.kind # "ability"
  /\ fn.ast.body # <<>> => fn.block # <<>>
  /\ \A t \in {fn.ret} \cup {fn.params[k] : k \in DOMAIN fn.params}
                \cup UNION {fn.block[k].types : k \in DOMAIN fn.block} : ~MentionsVariable(t)

\* Calls that were accepted meet the constraints: `Cannot invoke function 'add' with
\* type parameter T = string; does not satisfy ability constraint Num`
\* (test_src/ability_constraint_fail.k1).
ConstraintsHold ==
  phase = "accepted" =>
    \A i \in Generated : \A k \in DOMAIN functions[i].block : \A c \in functions[i].block[k].calls :
      LET called == functions[c.callee]
          generic == functions[called.generic]
      IN called.generic # 0 => \A j \in DOMAIN generic.tparams : \A a \in generic.tparams[j].needs :
           Implements(called.types[generic.tparams[j].name], a)

=============================================================================
