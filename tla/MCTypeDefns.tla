---------------------------- MODULE MCTypeDefns ----------------------------
(* Four families of small programs.                                         *)
EXTENDS TypeDefns

MCNames == {"_root", "A", "B", "C", "N", "T", "U"}

Type(name, scope, params, value, refs) ==
  [kind |-> "type", name |-> name, scope |-> scope, params |-> params, value |-> value, refs |-> refs]
Space(name, scope) == [kind |-> "ns", name |-> name, scope |-> scope]
To(path, name, args) == [path |-> path, name |-> name, args |-> args]
UpTo(S, n) == UNION {[1..k -> S] : k \in 0..n}

\* Three types of the root namespace that refer to each other in any way.
Flat ==
  LET refs == {To(<<>>, n, 0) : n \in {"A", "B", "C"}}
      defns(n) == {Type(n, 0, <<>>, "record", rs) : rs \in UpTo(refs, 2)}
                    \cup {Type(n, 0, <<>>, "alias", <<r>>) : r \in refs}
  IN {<<a, b, c>> : a \in defns("A"), b \in defns("B"), c \in defns("C")}

\* Two types and two namespaces with colliding names, in any nesting and order.
Nested ==
  LET refs == {To(p, n, 0) : p \in {<<>>, <<"N">>, <<"A">>, <<"_root", "N">>}, n \in {"A", "B"}}
      orders == {o \in [1..4 -> BOOLEAN] : Cardinality({i \in 1..4 : o[i]}) = 2}
      \* An item is in the root, in the namespace just before it, or beside it.
      inOrder(o, sc) == \A i \in 1..4 :
        sc[i] # 0 => /\ sc[i] < i /\ o[sc[i]]
                     /\ \A j \in sc[i] + 1..i - 1 : sc[j] >= sc[i]
      scopes(o) == {sc \in [1..4 -> 0..3] : inOrder(o, sc)}
      items(o, sc, spaceNames, typeNames, rs) ==
        [i \in 1..4 |->
          LET nth == Cardinality({j \in 1..i : o[j] = o[i]})
          IN IF o[i] THEN Space(spaceNames[nth], sc[i])
             ELSE Type(typeNames[nth], sc[i], <<>>, "record", rs[nth])]
  IN UNION {{items(o, sc, ns, ts, rs) :
               sc \in scopes(o), ns \in {<<"N", "N">>, <<"N", "A">>},
               ts \in {<<"A", "B">>, <<"A", "A">>},
               rs \in UpTo(refs, 1) \X {<<>>, <<To(<<>>, "A", 0)>>, <<To(<<"N">>, "B", 0)>>}} : o \in orders}

\* Two generic or plain types applied to each other.
Generic ==
  LET params == {<<>>, <<"T">>, <<"T", "T">>, <<"A">>}
      refs == {<<>>, <<To(<<>>, "T", 0)>>, <<To(<<>>, "T", 1), To(<<>>, "A", 0)>>}
                \cup {<<To(<<>>, n, 1), To(<<>>, m, 0)>> : n \in {"A", "B"}, m \in {"A", "B", "T"}}
                \cup {<<To(<<>>, n, 0), To(<<>>, m, 1), To(<<>>, "A", 0)>> : n, m \in {"A", "B"}}
      defns(n) == {Type(n, 0, ps, v, rs) : ps \in params, v \in {"record"}, rs \in refs}
                    \cup {Type(n, 0, ps, "alias", rs) : ps \in {<<>>, <<"T">>}, rs \in {rs \in refs : Len(rs) \in {1, 2}}}
  IN {<<a, b>> : a \in defns("A"), b \in defns("B")}

\* A generic type, what may be in it and what it is applied to, in any order.
Instantiated ==
  LET T == To(<<>>, "T", 0)
      A(n) == To(<<>>, "A", n)
      B(n) == To(<<>>, "B", n)
      C == To(<<>>, "C", 0)
      defns(name, params, refs) ==
        {Type(name, 0, ps, v, rs) : ps \in params, v \in {"record", "alias"}, rs \in refs}
      as == defns("A", {<<"T">>}, {<<T>>, <<A(0)>>, <<B(0)>>, <<B(1), T>>})
              \cup defns("A", {<<"T", "U">>}, {<<To(<<>>, "U", 0)>>})
      bs == defns("B", {<<>>, <<"T">>}, {<<T>>, <<B(0)>>, <<A(0)>>, <<A(1), T>>, <<A(1), C>>})
      cs == defns("C", {<<>>},
                  {<<C>>, <<A(1), B(0)>>, <<A(1), C>>, <<B(1), C>>, <<A(2), B(1), C>>,
                   <<A(2), B(0), C>>})
      orders == {o \in [1..3 -> 1..3] : {o[1], o[2], o[3]} = 1..3}
  IN {[i \in 1..3 |-> <<a, b, c>>[o[i]]] : a \in as, b \in bs, c \in cs, o \in orders}

MCPrograms == Flat \cup Nested \cup Generic \cup Instantiated
=============================================================================
