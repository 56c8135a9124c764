----------------------------- MODULE MCCodegen -----------------------------
(* The modules the type checker accepts of some families of small programs.  *)
EXTENDS CodegenMeaning

Checker == INSTANCE ControlFlow

N(kind, subs) == Checker!Node(kind, "", subs)
True == Checker!Node("bool", "true", <<>>)
Five == Checker!Node("int", "5", <<>>)
Use(x) == Checker!Node("variable", x, <<>>)
CallTo(f, args) == Checker!Node("call", f, args)
Asks == CallTo("ask", <<>>)
Crashes == CallTo("crash", <<>>)
Do(stmts) == N("block", stmts)
IfThen(c, stmts) == N("if", <<c, Do(stmts)>>)
IfElse(c, a, b) == N("if", <<c, a, b>>)
Loop(c, stmts) == N("while", <<c, Do(stmts)>>)
Let(x, v) == Checker!Node("val", x, <<v>>)
Mut(x, v) == Checker!Node("mut", x, <<v>>)
Set(x, v) == Checker!Node("assign", x, <<v>>)
Returns(v) == N("return", <<v>>)

External == <<Checker!Function("ask", <<>>, "bool", <<>>), Checker!Function("crash", <<>>, "never", <<>>)>>
MainOf(ret, stmts) == Checker!Function("main", <<>>, ret, <<Do(stmts)>>)
F(ret, stmts) == Checker!Function("f", <<Checker!Param("p", "bool")>>, ret, <<Do(stmts)>>)
CallF(v) == CallTo("f", <<v>>)

\* Expressions of two levels; an or has a right operand without effects.
Bools0 == {Asks, True}
Bools1 == {Asks, N("not", <<Asks>>), N("or", <<Asks, True>>), N("and", <<Asks, Asks>>),
           IfElse(Asks, True, Asks), Do(<<Asks, Asks>>), IfElse(Asks, Crashes, Asks),
           IfElse(Asks, Do(<<Returns(Asks)>>), Asks)}
Expressions ==
  UNION {{N("and", <<a, b>>), IfElse(Asks, a, b), IfElse(a, b, Asks)} : a, b \in Bools1}
    \cup {N("not", <<a>>) : a \in Bools1} \cup {N("or", <<a, True>>) : a \in Bools1}
    \cup {Returns(a) : a \in Bools1}

\* Statements, some with a variable x.
Statements ==
  {Asks, Set("x", Asks), Set("x", N("not", <<Use("x")>>)), IfThen(Asks, <<Set("x", Asks)>>),
   IfThen(Use("x"), <<Returns(Asks)>>), IfThen(Asks, <<Crashes>>), IfThen(Asks, <<Use("x")>>),
   IfThen(Asks, <<Five>>), IfElse(Use("x"), Do(<<Returns(Asks)>>), Do(<<Set("x", Asks)>>)),
   Loop(Asks, <<Set("x", N("not", <<Use("x")>>))>>), Loop(N("and", <<Use("x"), Asks>>), <<Set("x", Asks)>>),
   Loop(Asks, <<IfThen(Use("x"), <<Returns(Use("x"))>>)>>), Loop(Asks, <<Loop(Asks, <<Set("x", Asks)>>)>>),
   Loop(Asks, <<Let("y", Asks), Set("x", Use("y"))>>), Let("z", IfElse(Asks, Crashes, Asks)),
   Returns(Asks), Crashes}

\* Bodies of f and the ways main calls it.
Bodies ==
  {<<Use("p")>>, <<IfThen(Use("p"), <<Returns(Asks)>>), Asks>>, <<Crashes>>, <<Set("p", Asks), Use("p")>>, <<Let("y", Asks), Set("y", Use("p"))>>,
   <<IfElse(Use("p"), CallF(Asks), True)>>, <<N("and", <<Asks, CallF(Asks)>>)>>,
   <<Mut("x", Use("p")), Loop(Use("x"), <<Set("x", CallF(Asks))>>), Use("x")>>, <<Five>>, <<>>}
Callers ==
  {<<CallF(Asks)>>, <<N("and", <<CallF(True), CallF(Asks)>>)>>, <<IfElse(CallF(Asks), CallF(True), Asks)>>,
   <<Mut("x", CallF(CallF(Asks))), Use("x")>>, <<Mut("x", True), Loop(CallF(Asks), <<Set("x", Asks)>>), Use("x")>>,
   <<CallF(Five)>>, <<Loop(Asks, <<>>), Returns(CallF(Asks))>>}

MCSources ==
  {Append(External, MainOf("bool", <<b>>)) : b \in Expressions}
    \cup {Append(External, MainOf("bool", <<Mut("x", v), s, t, Use("x")>>)) :
            v \in Bools0, s, t \in Statements}
    \cup {Append(External, MainOf("unit", <<Mut("x", True), s, t>>)) : s, t \in Statements}
    \cup {Append(External, MainOf(ret, <<Mut("x", True), s>>)) :
            ret \in {"unit", "bool", "int", "never"}, s \in Statements \cup {Five, Returns(Five)}}
    \cup UNION {{External \o <<F(ret, b), MainOf("bool", c)>>, <<MainOf("bool", c), F(ret, b)>> \o External} :
            ret \in {"bool", "never"}, b \in Bodies, c \in Callers}

MCAll == {[source |-> s, typed |-> Checker!TypedModule(s)] : s \in {s \in MCSources : Checker!Accepted(s)}}

\* The variables in scope: those declared in the right operand of an and, a
\* branch or a loop are not in scope after it.
ScopesOf(f, e, before, parts) ==
  LET scopes == [i \in 1..Len(parts) |-> After(parts[i].scope)]
  IN [function |-> f, node |-> e,
      scopes |-> CASE e.kind \in {"and", "if", "while"} -> <<before, scopes[1]>>
                   [] e.kind \in {"val", "mut"} -> <<before, scopes[1], scopes[1] \cup {e.id}>>
                   [] OTHER -> <<before>> \o scopes]

RECURSIVE ScopesIn(_, _, _)
ScopesIn(f, e, before) ==
  LET from(parts) == IF parts = <<>> THEN before
                     ELSE After(parts[IF e.kind \in {"and", "if", "while"} THEN 1 ELSE Len(parts)].scope)
      upTo[i \in 0..Len(e.subs)] ==
        IF i = 0 THEN <<>>
        ELSE LET parts == upTo[i - 1] IN Append(parts, ScopesIn(f, e.subs[i], from(parts)))
      all == upTo[Len(e.subs)]
      scope == ScopesOf(f, e, before, all)
  IN [scope |-> scope, all |-> {scope} \cup UNION {all[i].all : i \in DOMAIN all}]

MCScopes(m) ==
  UNION {ScopesIn(m.typed[i].name, m.typed[i].body[1], DOMAIN m.typed[i].params).all :
           i \in {i \in DOMAIN m.typed : m.typed[i].body # <<>>}}

MCModules == {m \in MCAll : IsRegular(m)}

\* An if whose branches both diverge.
MCDivergent ==
  {[source |-> s, typed |-> Checker!TypedModule(s)] :
     s \in {Append(External, MainOf("bool", <<IfElse(Asks, Do(<<Returns(a)>>), Do(<<b>>))>>)) :
               a \in Bools1, b \in {Crashes, Returns(Asks)}}}

InitDivergent == module \in MCDivergent /\ Ready
=============================================================================
