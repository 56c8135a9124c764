--------------------------- MODULE MCTypeStore ---------------------------
(* Small families of programs, all of which begin with Opt.                  *)
EXTENDS TypeMeaning

N(name) == Expr("named", name, <<>>)
Apply(name, args) == Expr("named", name, [i \in DOMAIN args |-> Part("", args[i])])
Maybe(e) == Expr("optional", "", <<Part("", e)>>)
Pointing(e) == Expr("ref", "", <<Part("value", e)>>)
Struct(parts) == Expr("struct", "", parts)
Enum(parts) == Expr("enum", "", parts)
Dot(e, name) == Expr("member", name, <<Part("", e)>>)
Fun(name, params, ret) == Expr("function", name, Append(params, Part("return", ret)))

IntE == N("int")
BoolE == N("bool")
T == N("T")
X(e) == Struct(<<Part("x", e)>>)
XY(e, d) == Struct(<<Part("x", e), Part("y", d)>>)
Opt == Defn("Opt", "new", <<"T">>, Enum(<<Part("None", NoPayload), Part("Some", T)>>))
Program(defns, uses) == [defns |-> <<Opt>> \o defns, uses |-> uses]
New(name, body) == Defn(name, "new", <<>>, body)
Alias(name, body) == Defn(name, "alias", <<>>, body)
Opaque(name, body) == Defn(name, "opaque", <<>>, body)
GenericOf(name, body) == Defn(name, "new", <<"T">>, body)

\* Pairs of expressions over a struct, an enum, an alias and an opaque alias.
Plains == <<New("P", XY(IntE, Pointing(BoolE))), New("E", Enum(<<Part("A", X(IntE)), Part("B", NoPayload)>>)),
            Alias("L", XY(IntE, N("P"))), Opaque("Q", IntE)>>
Simple == {IntE, BoolE, N("P"), N("E"), N("L"), N("Q"), N("Pointer"), N("Z")}
Made(es) == {Maybe(e) : e \in es} \cup {Pointing(e) : e \in es} \cup {X(e) : e \in es}
              \cup {Enum(<<Part("A", e), Part("B", NoPayload)>>) : e \in es}
Members == {Dot(e, m) : e \in Simple \cup Made({IntE, N("E")}), m \in {"x", "A", "Some", "value"}}
             \cup {Dot(Dot(N("E"), "A"), "value"), Dot(Dot(N("E"), "B"), "value"), Dot(Dot(Maybe(N("P")), "Some"), "value"),
                   Dot(N("P"), "y"), Dot(Dot(N("P"), "y"), "value"), Dot(N("L"), "y")}
Written == Simple \cup Made(Simple) \cup Members
             \cup {Apply("Opt", <<Maybe(IntE)>>), Maybe(Maybe(IntE)), XY(IntE, N("P")), XY(IntE, Pointing(BoolE)), N("Opt"), Apply("P", <<IntE>>)}
Uses == {Program(Plains, <<e>>) : e \in Written}
          \cup {Program(Plains, <<e, d>>) : e, d \in Made({IntE, N("P"), N("L")}) \cup {N("L"), XY(IntE, N("P")), Dot(Maybe(IntE), "Some"), Dot(N("E"), "A")}}

\* Generic types, in all of whose bodies there is a type parameter.
Bodies == {X(T), XY(T, Maybe(T)), XY(N("P"), T), X(Apply("H", <<T>>)), Apply("H", <<T>>), Apply("H", <<Maybe(T)>>), Pointing(T), T,
           Enum(<<Part("A", T), Part("B", X(T))>>), Enum(<<Part("B", NoPayload), Part("A", Pointing(T))>>), XY(X(T), X(IntE)),
           N("P"), X(N("never")), X(N("H")), X(Dot(Maybe(T), "Some")), X(Dot(N("E"), "A")), X(N("Q")), XY(N("L"), T),
           Apply("_struct_combine", <<X(T), N("P")>>), Apply("_struct_remove", <<XY(T, T), N("P")>>), X(Dot(T, "x")), X(Apply("G", <<T>>))}
Inner == {X(T), Enum(<<Part("A", T)>>), XY(Maybe(T), IntE), Apply("Opt", <<T>>)}
Instances == {Apply("G", <<IntE>>), Apply("G", <<N("P")>>), Apply("G", <<Maybe(IntE)>>), Apply("G", <<Apply("G", <<IntE>>)>>),
              Apply("G", <<Dot(Maybe(IntE), "Some")>>), Dot(Apply("G", <<IntE>>), "x"), Dot(Apply("G", <<BoolE>>), "A"), Apply("H", <<IntE>>),
              Maybe(IntE), N("G")}
With(h, g) == <<GenericOf("H", h), GenericOf("G", g)>>
Few == {Apply("G", <<IntE>>), Apply("G", <<Maybe(IntE)>>), Dot(Apply("G", <<IntE>>), "x"), Maybe(IntE), Apply("H", <<IntE>>)}
Generics(g) == {Program(Plains \o With(h, g), <<e, d>>) : h \in Inner, e \in Instances, d \in Few}
                 \cup {Program(<<GenericOf("G", g), GenericOf("H", h)>> \o Plains, <<e>>) : h \in Inner, e \in Instances}

\* Two type parameters, with arguments in either order, and too few or many.
Two(body) == Defn("G", "new", <<"T", "U">>, body)
TwoBodies == {XY(T, N("U")), XY(N("U"), T), XY(Apply("H", <<N("U")>>), Maybe(T)), XY(Apply("H", <<T>>), Maybe(N("U")))}
TwoArgs == {<<IntE, BoolE>>, <<BoolE, IntE>>, <<IntE, IntE>>, <<IntE>>, <<IntE, BoolE, BoolE>>}
Parameters == {Program(Plains \o <<GenericOf("H", X(T)), Two(g)>>, <<e, d>>) :
                 g \in TwoBodies, e \in {Apply("G", a) : a \in TwoArgs} \cup {Dot(Apply("G", <<IntE, BoolE>>), "x")},
                 d \in {Apply("G", a) : a \in TwoArgs} \cup {Apply("H", <<BoolE>>), Apply("G", <<Apply("G", <<IntE, BoolE>>), IntE>>)}}
                \cup {Program(<<Defn("G", "new", <<"T", "T">>, X(T))>>, <<>>)}

\* Recursive types, definitions of all kinds that name each other in any order.
Recursions == {X(Maybe(N("R"))), X(Pointing(N("R"))), XY(N("R"), IntE), Enum(<<Part("A", X(N("R"))), Part("B", NoPayload)>>),
               X(Apply("H", <<N("R")>>)), X(Dot(N("R"), "x")), N("R"), Pointing(N("R")), XY(Maybe(N("R")), Maybe(N("R")))}
OfRecursive == {N("R"), Dot(Dot(Dot(N("R"), "x"), "value"), "x"), Maybe(N("R")), Dot(N("R"), "x"), Dot(N("R"), "A"), Apply("H", <<N("R")>>), Apply("K", <<IntE>>), Pointing(N("R")), X(N("R"))}
Loops(r) == {Program(<<GenericOf("H", X(T)), Defn("R", kind, <<>>, r), GenericOf("K", k)>>, <<e, d>>) :
            kind \in {"new", "alias"}, k \in {XY(T, N("R")), X(T), X(Apply("K", <<T>>))}, e \in OfRecursive, d \in OfRecursive}
NamedBodies == {IntE, N("A"), N("B"), Maybe(N("A")), X(N("A")), XY(N("B"), N("A")), N("never"), N("bool"), N("Pointer"), Dot(N("B"), "x"), Dot(N("A"), "x"),
                Apply("_struct_combine", <<N("A"), N("B")>>), Apply("_struct_combine", <<N("A"), Struct(<<Part("z", IntE)>>)>>),
                Apply("_struct_remove", <<N("A"), X(IntE)>>), Apply("_struct_remove", <<N("A")>>), Apply("_struct_combine", <<N("A"), IntE>>)}
Orders(c) == {Program(<<Defn("C", kind, <<>>, c), Defn("A", "new", <<>>, a), Defn("B", other, <<>>, b)>>, <<N("C"), N("A"), e>>) :
             kind, other \in {"new", "alias", "opaque"}, a \in {XY(IntE, BoolE), Enum(<<Part("x", IntE)>>)}, b \in {X(IntE), X(N("A")), N("A"), N("C")},
             e \in {Maybe(N("C")), Dot(N("C"), "x")}}

\* Functions, their types, and the names of these.
Params1 == {<<>>, <<Part("x", IntE)>>, <<Part("x", N("P"))>>, <<Part("y", IntE)>>, <<Part("x", X(IntE)), Part("y", Pointing(IntE))>>, <<Part("x", N("Pointer"))>>}
Returns == {IntE, X(IntE), N("P"), N("never")}
Declared(p) == {Program(Plains, <<Fun("f", p, r), Fun(name, q, s), e>>) : r \in Returns, q \in Params1, s \in {IntE, X(IntE)}, name \in {"g", "f", "P"},
               e \in {N("f"), Maybe(N("g")), Dot(N("g"), "return"), Dot(N("f"), "x"), Dot(N("g"), "y")}}

MCPrograms == {Uses, Parameters} \cup {Generics(g) : g \in Bodies} \cup {Loops(r) : r \in Recursions}
                \cup {Orders(c) : c \in NamedBodies} \cup {Declared(p) : p \in Params1}
=============================================================================
