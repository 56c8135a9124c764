------------------------- MODULE MCSpecialization -------------------------
(* Families of small programs.                                               *)
EXTENDS SpecializationMeaning

IntT == Type(0, "int")
BoolT == Type(0, "bool")
T == Type(0, "T")
A == Type(0, "A")
B == Type(0, "B")
Box(t) == Boxed(1, t)
NoNeeds(names) == [i \in DOMAIN names |-> TypeParam(names[i], {})]
Shows == <<TypeParam("T", {"Show"})>>

One == Expression("int", "", <<>>, <<>>)
True == Expression("bool", "", <<>>, <<>>)
X == Expression("param", "x", <<>>, <<>>)
Y == Expression("param", "y", <<>>, <<>>)
Args(es) == [i \in DOMAIN es |-> Argument("", es[i])]
CallOf(f, es) == Expression("call", f, <<>>, Args(es))
CallFor(f, types, es) == Expression("call", f, types, Args(es))
Method(f, es) == Expression("method", f, <<>>, Args(es))
Qualified(f, es) == Expression("qualified", f, <<>>, Args(es))
CallNamed(f, names, es) == Expression("call", f, <<>>, [i \in DOMAIN es |-> Argument(names[i], es[i])])

Fn(name, tparams, params, ret, body) == FunctionDefn(name, tparams, params, ret, body)
Id == Fn("id", NoNeeds(<<"T">>), <<Param("x", T)>>, T, <<X>>)
BoxFn == Fn("box", NoNeeds(<<"T">>), <<Param("x", T)>>, Box(T), <<>>)
Unbox == Fn("unbox", NoNeeds(<<"T">>), <<Param("x", Box(T))>>, T, <<>>)
Make == Fn("make", NoNeeds(<<"T">>), <<>>, T, <<>>)
Same == Fn("same", NoNeeds(<<"T">>), <<Param("x", T), Param("y", T)>>, T, <<X>>)
First == Fn("first", NoNeeds(<<"A", "B">>), <<Param("x", A), Param("y", B)>>, A, <<X>>)
Second == Fn("second", NoNeeds(<<"A", "B">>), <<Param("x", B), Param("y", A)>>, A, <<Y>>)
Even == Fn("even", <<>>, <<Param("x", IntT)>>, BoolT, <<>>)
Size == Fn("size", NoNeeds(<<"T">>), <<>>, IntT, <<>>)
Main(ret, stmts) == Fn("main", <<>>, <<>>, ret, stmts)

\* Calls of calls.
Applied(es, fs) == {CallOf(f, <<e>>) : f \in fs, e \in es}
Paired(fs, es, ds) == {CallOf(f, <<e, d>>) : f \in fs, e \in es, d \in ds}
Literals == {One, True}
Unary == {"id", "box", "unbox", "even"}
Calls1 == Literals \cup Applied(Literals, Unary) \cup {CallOf("make", <<>>)} \cup Paired({"first", "same"}, Literals, Literals)
Calls2 == Applied(Calls1, Unary) \cup Paired({"first", "second", "same"}, Calls1, Literals)
Nested == {<<Id, BoxFn, Unbox, Make, Even, Same, First, Second, Main(ret, <<e>>)>> :
             ret \in {IntT, BoolT, Box(IntT)}, e \in Calls2 \ Literals}

\* Bodies of a generic function, which main calls before or after it.
Bodies1 == {X, One, CallOf("id", <<X>>), CallOf("box", <<X>>), CallOf("unbox", <<X>>), CallFor("id", <<T>>, <<X>>),
            CallFor("id", <<IntT>>, <<X>>), CallOf("box", <<CallOf("id", <<X>>)>>), CallOf("id", <<CallOf("box", <<X>>)>>),
            CallOf("first", <<X, One>>), CallOf("second", <<One, X>>), CallOf("make", <<>>), CallFor("make", <<T>>, <<>>)}
Generic(ret, e) == Fn("g", NoNeeds(<<"T">>), <<Param("x", T)>>, ret, <<e>>)
InBodies == UNION {{<<Id, BoxFn, Unbox, Make, First, Second, Generic(ret, e), Main(IntT, <<CallOf("g", <<a>>), One>>)>>,
                    <<Main(IntT, <<CallOf("g", <<a>>), One>>), Generic(ret, e), Id, BoxFn, Unbox, Make, First, Second>>} :
                     ret \in {T, IntT, Box(T)}, e \in Bodies1, a \in {One, True, CallOf("box", <<One>>)}}

\* Functions that call themselves or each other.
F(e) == Fn("f", NoNeeds(<<"T">>), <<Param("x", T)>>, T, <<e>>)
G(e) == Fn("g", NoNeeds(<<"T">>), <<Param("x", T)>>, T, <<e>>)
Plain(e) == Fn("p", <<>>, <<Param("x", IntT)>>, IntT, <<e>>)
Swap(stmts) == Fn("swap", NoNeeds(<<"A", "B">>), <<Param("x", A), Param("y", B)>>, A, stmts)
Calling == {X, CallOf("f", <<X>>), CallOf("g", <<X>>), CallFor("f", <<T>>, <<X>>), CallOf("p", <<X>>),
            CallOf("unbox", <<CallOf("f", <<CallOf("box", <<X>>)>>)>>), CallOf("id", <<CallOf("g", <<X>>)>>), CallFor("g", <<IntT>>, <<One>>)}
Cycles ==
  {<<Id, BoxFn, Unbox, F(e), G(d), Plain(One), Main(IntT, <<CallOf("f", <<One>>)>>)>> : e, d \in Calling}
    \cup {<<F(e), G(X), Plain(d), Main(IntT, <<CallOf("p", <<One>>)>>), Id, BoxFn, Unbox>> : e, d \in Calling}
    \cup {<<Swap(stmts), Main(IntT, <<CallOf("swap", <<One, True>>)>>)>> :
            stmts \in {<<CallFor("swap", <<B, A>>, <<Y, X>>), X>>, <<CallFor("swap", <<A, B>>, <<X, Y>>)>>, <<One>>, <<Y>>}}
    \cup {<<Swap(<<e>>), Fn("g", NoNeeds(<<"A", "B">>), <<Param("x", A), Param("y", B)>>, A, <<CallFor("swap", <<B, A>>, <<Y, X>>), X>>)>> :
            e \in {X, Y, One}}

\* Type arguments that are given and found, in any order.
Ways(f, e, d) == {CallOf(f, <<e, d>>)} \cup {CallFor(f, types, <<e, d>>) : types \in {<<IntT, BoolT>>, <<BoolT, IntT>>, <<IntT, IntT>>}}
Mixed == {<<First, Second, Even, Main(IntT, <<a, b, One>>)>> :
            a, b \in UNION {Ways(f, e, d) : f \in {"first", "second"}, e \in Literals, d \in Literals}}
           \cup {<<Second, Even, Main(BoolT, <<e>>)>> :
                   e \in {CallOf("even", <<CallOf("second", <<True, One>>)>>), CallOf("even", <<CallOf("second", <<One, True>>)>>),
                          CallNamed("second", <<"y", "x">>, <<True, One>>), CallNamed("second", <<"y", "x">>, <<One, True>>),
                          CallNamed("second", <<"x", "y">>, <<One, True>>), CallFor("even", <<IntT>>, <<One>>),
                          CallOf("even", <<>>), CallOf("even", <<One, One>>), CallOf("second", <<True>>),
                          CallOf("second", <<True, One, One>>), CallFor("second", <<IntT>>, <<One, One>>)}}

\* A value without a type of its own, and a type that is in no signature.
Undetermined == {<<Id, Make, Size, Even, Fn("g", NoNeeds(<<"T">>), <<Param("x", T)>>, IntT, <<CallFor("size", <<T>>, <<>>)>>), Main(IntT, <<a, One>>)>> :
                   a \in {CallOf("make", <<>>), CallOf("id", <<CallOf("make", <<>>)>>), CallFor("size", <<IntT>>, <<>>), CallOf("size", <<>>),
                          CallOf("even", <<CallOf("make", <<>>)>>), CallOf("g", <<One>>), CallFor("id", <<IntT>>, <<CallOf("make", <<>>)>>)}}

\* Abilities.
Self == Type(0, "Self")
ZeroFn(params, body) == Fn("zero", <<>>, params, IntT, body)
Zero(params) == AbilityDefn("Zero", <<ZeroFn(params, <<>>)>>)
ShowFn(type, ret, body) == Fn("show", <<>>, <<Param("self", type)>>, ret, body)
EqFn(type, other, body) == Fn("eq", <<>>, <<Param("self", type), Param("x", other)>>, BoolT, body)
Show == AbilityDefn("Show", <<ShowFn(Self, IntT, <<>>)>>)
Printed == AbilityDefn("Print", <<ShowFn(Self, IntT, <<>>)>>)
Equals == AbilityDefn("Equals", <<EqFn(Self, Self, <<>>)>>)
ShowInt == ImplDefn("Show", IntT, <<ShowFn(IntT, IntT, <<One>>)>>)
ShowBool == ImplDefn("Show", BoolT, <<ShowFn(Self, IntT, <<One>>)>>)
EqualsInt == ImplDefn("Equals", IntT, <<EqFn(Self, IntT, <<True>>)>>)
SelfE == Expression("param", "self", <<>>, <<>>)

Orders(d) == {[i \in 1..4 |-> d[p[i]]] : p \in {<<1, 2, 3, 4>>, <<2, 1, 3, 4>>, <<4, 3, 2, 1>>, <<1, 3, 2, 4>>, <<3, 1, 4, 2>>}}
Bodies2 == {Method("show", <<X>>), Qualified("show", <<X>>), CallOf("g", <<One>>), Method("eq", <<X, X>>), One, Method("show", <<Method("show", <<X>>)>>)}
WithAbility ==
  UNION {Orders(<<Show, ShowInt, Fn("g", tparams, <<Param("x", IF tparams = <<>> THEN IntT ELSE T)>>, IntT, <<e>>), Main(IntT, <<CallOf("g", <<a>>)>>)>>) :
           tparams \in {<<>>, NoNeeds(<<"T">>), Shows}, e \in Bodies2, a \in Literals}
    \cup {<<Show, Printed, ShowInt, d, Main(IntT, <<Method("show", <<a>>)>>)>> :
            a \in Literals, d \in {ShowBool, ShowInt, ImplDefn("Print", IntT, <<ShowFn(IntT, IntT, <<One>>)>>),
                                   ImplDefn("Print", BoolT, <<ShowFn(BoolT, IntT, <<True>>)>>),
                                   ImplDefn("Print", BoolT, <<ShowFn(IntT, IntT, <<One>>)>>),
                                   ImplDefn("Print", BoolT, <<ShowFn(BoolT, BoolT, <<True>>)>>),
                                   ImplDefn("Print", BoolT, <<>>), ImplDefn("Write", BoolT, <<>>),
                                   ImplDefn("Print", BoolT, <<ShowFn(Self, IntT, <<Method("show", <<One>>)>>)>>),
                                   ImplDefn("Print", BoolT, <<ShowFn(Self, IntT, <<Method("show", <<SelfE>>)>>)>>),
                                   AbilityDefn("Show", <<>>), AbilityDefn("Write", <<ShowFn(IntT, IntT, <<>>)>>), Fn("main", <<>>, <<>>, IntT, <<One>>)}}
    \cup {<<Equals, EqualsInt, Main(BoolT, <<e>>)>> :
            e \in {Method("eq", <<One, One>>), Method("eq", <<One, True>>), Method("eq", <<True, True>>), Qualified("eq", <<One, One>>)}}
    \cup {<<Equals, EqualsInt, Fn("g", <<TypeParam("T", {"Equals"})>>, <<Param("x", T), Param("y", T)>>, BoolT, <<Method("eq", <<X, e>>)>>),
            Main(BoolT, <<CallOf("g", <<One, One>>)>>)>> : e \in {X, Y, One}}
    \cup {<<Show, ShowInt, Fn("g", tparams, <<Param("x", B), Param("y", A)>>, IntT, <<e>>), Main(IntT, <<CallOf("g", <<a, b>>)>>)>> :
            tparams \in {<<TypeParam("A", {"Show"}), TypeParam("B", {})>>, <<TypeParam("B", {"Show"}), TypeParam("A", {})>>},
            e \in {One, Method("show", <<Y>>), Method("show", <<X>>)}, a, b \in Literals}

\* A function of an ability that has no parameters, or others than self.
WithoutSelf ==
  {<<Zero(params), ImplDefn("Zero", IntT, <<ZeroFn(own, <<One>>)>>), Main(IntT, <<e, One>>)>> :
     params, own \in {<<>>, <<Param("self", IntT)>>, <<Param("x", Self)>>, <<Param("self", Self)>>},
     e \in {One, Method("zero", <<One>>), Qualified("zero", <<One>>), Qualified("zero", <<>>)}}

MCPrograms == WithoutSelf \cup Nested \cup InBodies \cup Cycles \cup Mixed \cup Undetermined \cup WithAbility

\* A constrained type parameter that the arguments solve second.
MCConstrained ==
  {<<Show, ShowInt, Fn("g", <<TypeParam("A", {"Show"}), TypeParam("B", {})>>, <<Param("x", B), Param("y", A)>>, IntT, <<e>>),
     Id, Main(IntT, <<CallOf("g", <<a, b>>)>>)>> : e \in {One, X, Method("show", <<Y>>)}, a, b \in Calls1}
=============================================================================
