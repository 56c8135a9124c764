----------------------- MODULE SpecializationMeaning -----------------------
(***************************************************************************)
(* What the definitions of a program mean, whatever the order in which a   *)
(* checker comes to them: a call of a generic function has the types that  *)
(* some choice of its type arguments gives it.                             *)
(***************************************************************************)
EXTENDS Specialization

Last(s) == s[Len(s)]
Defns(kind) == {program[i] : i \in {k \in DOMAIN program : program[k].kind = kind}}
AbilitiesWith(name) == {a \in Defns("ability") : \E i \in DOMAIN a.body : a.body[i].name = name}
FunctionIn(a, name) == a.body[CHOOSE i \in DOMAIN a.body : a.body[i].name = name]

\* The types an expression may have: some boxes around what has no parts.
Universe(types) == {Type(n, b) : n \in 0..2, b \in {"int", "bool"}}
                     \cup {Boxed(n, types[x]) : n \in 0..2, x \in DOMAIN types}

\* An ability is implemented for a type; methods have those, too, that are
\* required of a type variable.
Implemented(type, ability) == \E d \in Defns("impl") : d.name = ability /\ d.ret = type
HasMethods(type, ability) == Implemented(type, ability) \/ (IsVariable(type) /\ ability \in type.needs)

Choices(names, types) == [names -> Universe(types)]
TypeNames(ast) == {ast.tparams[i].name : i \in DOMAIN ast.tparams}
Meets(ast, choice) == \A i \in DOMAIN ast.tparams : \A a \in ast.tparams[i].needs :
  Implemented(choice[ast.tparams[i].name], a)

\* The signature that is called, with the ways its type parameters are chosen.
NamedBy(e) == CHOOSE d \in Defns("function") : d.name = e.name

RECURSIVE TypesOf(_, _, _)
\* The types of an expression where names are types and parameters have types.
\* A function of an ability is called for the type of the argument for "self":
\* one without parameters has no calls.
TypesOf(e, types, params) ==
  LET argsMatch(ast, choice) ==
        /\ Len(e.args) = Len(ast.params)
        /\ \A i \in DOMAIN ast.params :
             LET given == {k \in DOMAIN e.args : e.args[k].name = ast.params[i].name}
                 k == IF given = {} THEN i ELSE CHOOSE x \in given : TRUE
             IN EvalType(ast.params[i].type, choice) \in TypesOf(e.args[k].value, types, params)
      results(ast, choices) == {EvalType(ast.ret, c) : c \in {x \in choices : argsMatch(ast, x)}}
  IN CASE e.kind \in {"int", "bool"} -> {Type(0, e.kind)}
       [] e.kind = "param" -> {params[e.name]}
       [] e.kind = "call" ->
            LET ast == NamedBy(e)
                all == Choices(TypeNames(ast), types)
                given == {c \in all : ast.tparams # <<>> => Len(e.targs) = Len(ast.tparams) /\
                            \A i \in DOMAIN ast.tparams : c[ast.tparams[i].name] = EvalType(e.targs[i], types)}
            IN results(ast, {c \in IF e.targs = <<>> THEN all ELSE given : Meets(ast, c)})
       [] e.kind = "method" ->
            UNION {results(FunctionIn(a, e.name),
                           {c \in Choices({"Self"}, types) :
                              {b \in AbilitiesWith(e.name) : HasMethods(c["Self"], b.name)} = {a}}) :
                     a \in AbilitiesWith(e.name)}
       [] e.kind = "qualified" ->
            UNION {results(FunctionIn(a, e.name), {c \in Choices({"Self"}, types) : Implemented(c["Self"], a.name)}) :
                     a \in {a \in AbilitiesWith(e.name) : FunctionIn(a, e.name).params # <<>>}}

\* A body is well typed when its statements are, and the last is what is
\* returned.
WellTypedBody(ast, outer) ==
  LET types == Bind(outer, OwnVariables(ast))
      params == [x \in {ast.params[i].name : i \in DOMAIN ast.params} |->
                   EvalType(ast.params[CHOOSE i \in DOMAIN ast.params : ast.params[i].name = x].type, types)]
  IN ast.body # <<>> =>
       /\ \A i \in DOMAIN ast.body : TypesOf(ast.body[i], types, params) # {}
       /\ EvalType(ast.ret, types) \in TypesOf(Last(ast.body), types, params)

Bodies == {<<d, NoTypes>> : d \in Defns("function")}
            \cup UNION {{<<d.body[i], Bind(NoTypes, <<Solution("Self", d.ret)>>)>> : i \in DOMAIN d.body} : d \in Defns("impl")}

\* An implementation has the functions of its ability, with their signatures.
Implementation(d) ==
  \E a \in Defns("ability") :
    /\ a.name = d.name
    /\ \A i \in DOMAIN a.body : \E k \in DOMAIN d.body :
         LET self == Bind(NoTypes, <<Solution("Self", d.ret)>>)
             types(ast) == [p \in DOMAIN ast.params |-> EvalType(ast.params[p].type, self)]
         IN /\ d.body[k].name = a.body[i].name
            /\ types(d.body[k]) = types(a.body[i])
            /\ EvalType(d.body[k].ret, self) = EvalType(a.body[i].ret, self)

NoneTwice ==
  \A i, k \in DOMAIN program :
    i # k /\ program[i].kind = program[k].kind /\ program[i].name = program[k].name =>
      program[i].kind = "impl" /\ program[i].ret # program[k].ret

AbilitiesExist ==
  /\ \A d \in Defns("function") : \A i \in DOMAIN d.tparams :
       d.tparams[i].needs \subseteq {a.name : a \in Defns("ability")}
  /\ \A a \in Defns("ability") : \A i \in DOMAIN a.body :
       a.body[i].params # <<>> => a.body[i].params[1] = Param("self", Type(0, "Self"))

WellTyped ==
  /\ NoneTwice /\ AbilitiesExist
  /\ \A d \in Defns("impl") : Implementation(d)
  /\ \A b \in Bodies : WellTypedBody(b[1], b[2])

-----------------------------------------------------------------------------
(* What the checker depends on.                                              *)

RECURSIVE Subexpressions(_)
Subexpressions(e) == {e} \cup UNION {Subexpressions(e.args[i].value) : i \in DOMAIN e.args}
In(ast) == UNION {Subexpressions(ast.body[i]) : i \in DOMAIN ast.body}

\* The functions a function may call, by name, and those it reaches.
Asts == {b[1] : b \in Bodies}
CalledBy(ast) == {a \in Asts : \E e \in In(ast) : e.kind \in {"call", "method", "qualified"} /\ e.name = a.name}
Reached(ast) ==
  LET within[n \in 1..Cardinality(Asts)] ==
        IF n = 1 THEN CalledBy(ast) ELSE LET before == within[n - 1] IN before \cup UNION {CalledBy(a) : a \in before}
  IN within[Cardinality(Asts)]
GenericCycle == \E a \in Asts : a.tparams # <<>> /\ a \in Reached(a)

\* Type parameters of each stand for those of the other: the names that
\* check_types looks up, by name in the scope of the call, lead in a circle.
NamesCross ==
  \E i \in DOMAIN functions : \E x \in DOMAIN functions[i].types :
    LET types == functions[i].types
        crosses(n) == IsVariable(types[n]) /\ types[n].name \in DOMAIN types \ {n}
    IN crosses(x) /\ crosses(types[x].name)

\* The place where the checker first sees a type parameter.
FirstSeen(d, i) ==
  LET with == {k \in DOMAIN d.params : d.params[k].type.name = d.tparams[i].name}
  IN IF with = {} THEN Len(d.params) + 1 ELSE CHOOSE k \in with : \A m \in with : k <= m
SeenInOrder(d) ==
  \A i, k \in DOMAIN d.tparams : i < k => FirstSeen(d, i) < FirstSeen(d, k)

\* Type arguments are inferred in the order in which the parameters mention
\* them, and then compared by position with what is declared and recorded.
OrderKept ==
  \A d \in Defns("function") :
    \/ SeenInOrder(d)
    \/ /\ \A i \in DOMAIN d.tparams : d.tparams[i].needs = {}
       /\ \A ast \in Asts : \A e \in In(ast) : e.kind = "call" /\ e.name = d.name => e.targs = <<>>

\* Its type is only known from what is expected of it.
Loose(e) ==
  /\ e.kind = "call" /\ e.targs = <<>>
  /\ \E i \in DOMAIN NamedBy(e).tparams : FirstSeen(NamedBy(e), i) > Len(NamedBy(e).params)

\* Something of a known type is expected of those expressions: they are not
\* arguments for a type parameter, whose variable would become their type.
Determined ==
  \A ast \in Asts :
    /\ \A i \in DOMAIN ast.body : i < Len(ast.body) => ~Loose(ast.body[i])
    /\ \A e \in In(ast) : \A i \in DOMAIN e.args : Loose(e.args[i].value) =>
         e.kind = "call" /\ (NamedBy(e).tparams = <<>> \/ e.targs # <<>>)

\* Abilities are declared in the order of the file, before what names them.
AbilitiesFirst ==
  \A i \in DOMAIN program :
    LET above == {program[k].name : k \in {k \in 1..i - 1 : program[k].kind = "ability"}}
    IN /\ program[i].kind = "impl" => program[i].name \in above
       /\ \A k \in DOMAIN program[i].tparams : program[i].tparams[k].needs \subseteq above

-----------------------------------------------------------------------------

\* The stack is only exhausted by a generic function that calls itself, whose
\* specialization is not recorded before its body has been checked, and by
\* types that are looked up in a circle.
OverflowMeansCycle == phase = "overflow" => GenericCycle \/ NamesCross

\* A program the checker accepts is well typed: type arguments that were
\* found once, specializations checked when something else was asked, and
\* what failed attempts left behind make no difference.
AcceptedIsWellTyped == phase = "accepted" /\ OrderKept => WellTyped

\* A well-typed program is not rejected, whatever the order of its functions.
WellTypedIsAccepted == phase = "rejected" /\ OrderKept /\ Determined /\ AbilitiesFirst => ~WellTyped

\* All type parameters of a function are in its signature.
InSignature(fn) ==
  \A i \in DOMAIN fn.tparams : \E t \in {fn.ret} \cup {fn.params[k] : k \in DOMAIN fn.params} :
    MentionsVariable(t) /\ t.name = fn.tparams[i].name

\* An accepted program whose type parameters are all in the signatures of
\* their functions, and where nothing has a type it was not given, has code:
\* no type variable is left, and no body missing, in any function that is
\* generated, whichever specializations inference has left in the table.
GeneratedIsConcrete ==
  phase = "accepted" /\ Determined /\ (\A i \in DOMAIN functions : InSignature(functions[i])) =>
    \A i \in Generated : Concrete(functions[i])

=============================================================================
