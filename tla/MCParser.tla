------------------------------ MODULE MCParser ------------------------------
EXTENDS Syntax

\* Trees.
Name(x) == Node("path", <<x>>, <<>>)
One == Node("literal", <<"1">>, <<>>)
Unit == Node("unit", <<>>, <<>>)
Named(x) == Node("named", <<x>>, <<>>)
I8 == Node("integer", <<"i8">>, <<>>)
Typed(kind, x, type) == Node(kind, <<x>>, <<type>>)
Block(statements) == Node("block", <<>>, statements)
Call(x, args) == Node("call", <<x>>, <<List(<<>>), List(args)>>)
Call1 == Node("call", <<"n", "f">>, <<List(<<I8, Named("T")>>), List(<<Name("a"), One>>)>>)
Val(kind, x, types, value) == Node("val", <<kind, x>>, <<List(types), value>>)
Param(x, constraints) == Node("type parameter", <<x>>, constraints)
On(x, ability) == Node("constraint", <<x>>, <<ability>>)
Function(linkage, params, args, returned, body) ==
  Node("function", <<linkage, "f">>, <<List(params), List(args), List(returned), List(body)>>)
Returning(e) == Function("standard", <<>>, <<>>, <<I8>>, <<Block(<<e>>)>>)
TypeDefn(flags, params, type) == Node("type", <<"A">> \o flags, <<List(params), type>>)
Const(type, e) == Node("const", <<"a">>, <<type, e>>)

\* Types: all shapes, and what may follow or be inside of each.
BaseTypes ==
  {I8, Node("builtin", <<>>, <<>>), Named("T"), Node("named", <<"n", "T">>, <<I8, Named("U")>>),
   Node("struct type", <<>>, <<Typed("type field", "a", I8)>>), Node("struct type", <<>>, <<>>)}
LongTypes == {Node(kind, IF kind = "member type" THEN <<"a">> ELSE <<>>, <<type>>) :
                type \in BaseTypes, kind \in {"member type", "optional", "reference"}}
Types == BaseTypes \cup LongTypes
DeepTypes ==
  {Node("struct type", <<>>, <<Typed("type field", "a", t), Typed("type field", "b", u)>>) : t \in Types, u \in BaseTypes}
  \cup {Node("named", <<"T">>, <<t>>) : t \in Types}
Variant(x, types) == Node("enum variant", <<x>>, types)
Enums == {Node("enum", <<>>, <<Variant("A", <<>>)>>)}
         \cup {Node("enum", <<>>, <<Variant("A", <<t>>), Variant("U", <<>>)>>) : t \in Types}

\* Patterns.
SmallPatterns ==
  {Node("wildcard", <<>>, <<>>), Node("variable", <<"a">>, <<>>), One, Unit, Node("literal", <<"-", "1">>, <<>>),
   Node("variant", <<"A">>, <<>>)}
Patterns ==
  SmallPatterns \cup {Node("variant", <<"A">>, <<t>>) : t \in SmallPatterns}
  \cup {Node("struct pattern", <<>>, <<Node("pattern field", <<"a">>, <<t>>)>>) : t \in SmallPatterns}
  \cup {Node("struct pattern", <<>>, <<Node("pattern field", <<"b">>, <<t>>), Node("pattern field", <<"a">>, <<u>>)>>) :
          t \in SmallPatterns, u \in SmallPatterns}
  \cup {Node("struct pattern", <<>>, <<>>)}

\* Expressions of one level, from those inside of them.
Postfixed(e) ==
  {Node("get", <<>>, <<e>>), Node("cast", <<>>, <<e, I8>>), Node("cast", <<>>, <<e, Named("T")>>),
   Node("hinted", <<>>, <<e, I8>>),
   Node("access", <<"b">>, <<e, List(<<>>)>>), Node("access", <<"b">>, <<e, List(<<I8>>)>>),
   Node("method call", <<"f">>, <<List(<<>>), List(<<e>>)>>),
   Node("method call", <<"f">>, <<List(<<I8>>), List(<<e, One>>)>>)}
Braced(e) ==
  {Node("struct", <<>>, <<Node("field", <<"a">>, <<e>>)>>),
   Node("struct", <<>>, <<Node("field", <<"a">>, <<One>>), Node("field", <<"b">>, <<e>>)>>),
   Block(<<e>>), Block(<<e, One>>), Block(<<One, e>>), Block(<<Node("assignment", <<>>, <<e, One>>)>>),
   Node("when", <<>>, <<e>>),
   Node("when", <<>>, <<Name("a"), Node("arm", <<>>, <<Node("variable", <<"a">>, <<>>), e>>),
                        Node("arm", <<>>, <<Node("wildcard", <<>>, <<>>), One>>)>>)}
Listing(e) ==
  {Call("f", <<e>>), Call("f", <<One, e>>), Call("f", <<Node("named argument", <<"a">>, <<e>>)>>),
   Node("tag", <<"A">>, <<e>>), Node("array", <<>>, <<e>>), Node("array", <<>>, <<e, One>>)}
Operating(e) ==
  {Node("chain", <<"+">>, <<e, Name("a")>>), Node("chain", <<"-">>, <<Name("a"), e>>),
   Node("chain", <<"*", "?">>, <<Name("a"), e, One>>), Node("unary", <<"not">>, <<e>>), Node("unary", <<"*">>, <<e>>),
   Node("is", <<>>, <<e, Node("variant", <<"A">>, <<>>)>>)}
Choosing(e) ==
  {Node("if", <<>>, <<e, Block(<<One>>)>>), Node("if", <<>>, <<e, One>>), Node("if", <<>>, <<Name("a"), e>>),
   Node("if", <<>>, <<Name("a"), Block(<<e>>)>>), Node("if", <<>>, <<Name("a"), Block(<<One>>), e>>),
   Node("if", <<>>, <<Name("a"), e, One>>),
   Node("for", <<"do">>, <<e, Block(<<Name("a")>>)>>), Node("for", <<"yield", "a">>, <<e, Block(<<Name("a")>>)>>),
   Node("for", <<"do", "b">>, <<One, Block(<<e>>)>>)}
Around(e) == Postfixed(e) \cup Braced(e) \cup Listing(e) \cup Operating(e) \cup Choosing(e)

Leaves ==
  {Unit, One, Name("a"), Node("literal", <<"-", "1">>, <<>>), Node("literal", <<"\"s\"">>, <<>>), Node("literal", <<"true">>, <<>>),
   Node("path", <<"n", "a">>, <<>>), Call("f", <<>>), Call1, Node("tag", <<"A">>, <<>>), Node("array", <<>>, <<>>)}
FewLeaves == {One, Node("path", <<"n", "a">>, <<>>), Node("literal", <<"-", "1">>, <<>>)}
SmallExpressions == Leaves \cup UNION {Around(e) : e \in Leaves}
\* A type hint replaces the one in parentheses.
Rehinted(e) == e.kind = "hinted" /\ e.parts[1].kind = "hinted"
DeepExpressions == {e \in UNION {UNION {Around(d) : d \in Around(e)} : e \in FewLeaves} : ~Rehinted(e)}

\* Definitions.
Statements ==
  {Val(kind, "a", types, One) : kind \in {"val", "mut"}, types \in {<<>>} \cup {<<t>> : t \in Types}}
  \cup {Node("while", <<>>, <<e, Block(<<>>)>>) : e \in Leaves}
  \cup {Node("assignment", <<>>, <<e, One>>) : e \in SmallExpressions}
Self == Typed("parameter", "a", Node("reference", <<>>, <<Named("T")>>))
Functions ==
  {Function(linkage, params, args, returned, body) :
     linkage \in {"standard", "intern", "extern"},
     params \in {<<>>, <<Param("T", <<>>)>>, <<Param("T", <<>>), Param("U", <<>>)>>},
     args \in {<<>>, <<Self>>, <<Self, Typed("parameter", "b", I8)>>},
     returned \in {<<I8>>, <<Node("optional", <<>>, <<Named("T")>>)>>},
     body \in {<<>>, <<Block(<<>>)>>, <<Block(<<One>>)>>}}
  \cup {Function("standard", params, <<>>, returned, <<Block(<<>>)>>) :
          params \in {<<Param("T", <<On("T", Name("A"))>>), Param("U", <<>>)>>,
                      <<Param("T", <<On("T", Name("A")), On("T", Node("path", <<"n", "A">>, <<>>))>>),
                        Param("U", <<On("U", Name("A"))>>)>>},
          returned \in {<<I8>>, <<>>}}
Header == Function("standard", <<>>, <<Self>>, <<I8>>, <<>>)
Body == Function("standard", <<>>, <<Self>>, <<I8>>, <<Block(<<One>>)>>)
Constrained1 == Function("standard", <<Param("T", <<On("T", Name("A"))>>)>>, <<Self>>, <<I8>>, <<Block(<<One>>)>>)
Holders ==
  {Node("ability", <<"A">>, fs) : fs \in {<<>>, <<Header>>, <<Header, Header>>}}
  \cup {Node("impl", <<"A", "auto">>, <<t>>) : t \in Types}
  \cup {Node("impl", <<"A">>, <<Named("T")>> \o fs) : fs \in {<<>>, <<Body>>, <<Body, Constrained1>>}}
TypeDefns ==
  {TypeDefn(flags, params, t) : flags \in {<<>>, <<"alias">>, <<"opaque">>, <<"alias", "opaque">>},
                                params \in {<<>>, <<Param("T", <<>>)>>}, t \in {I8, Node("enum", <<>>, <<Variant("A", <<I8>>)>>)}}
  \cup {TypeDefn(<<>>, <<>>, t) : t \in Types \cup DeepTypes \cup Enums}
Consts == {Const(t, e) : t \in Types, e \in {One, Node("literal", <<"-", "1">>, <<>>)}}
Single == Functions \cup Holders \cup TypeDefns \cup Consts
Namespace(ds) == Node("namespace", <<"n">>, ds)
Few == {Header, Body, Constrained1, Const(I8, One), TypeDefn(<<>>, <<>>, Node("member type", <<"a">>, <<Named("T")>>)),
        TypeDefn(<<>>, <<>>, Node("enum", <<>>, <<Variant("A", <<>>)>>)), Node("impl", <<"A", "auto">>, <<I8>>),
        Node("ability", <<"A">>, <<Header>>)}
Pairs == {<<d, e>> : d \in Few, e \in Few}
Files ==
  {<<>>} \cup {<<d>> : d \in Single} \cup Pairs \cup {<<Namespace(p)>> : p \in Pairs}
  \cup {<<Namespace(<<Namespace(<<d>>), d>>), d>> : d \in Few}
  \cup {<<Returning(s)>> : s \in Statements \cup SmallExpressions \cup DeepExpressions}
  \cup {<<Returning(Node("is", <<>>, <<Name("a"), t>>))>> : t \in Patterns}

Written == {[text |-> All(ds), meant |-> {ds}] : ds \in Files}

\* Texts with a token less, another in its place or one more.
Damaged(t, words) ==
  LET n == Len(t)
  IN {SubSeq(t, 1, i - 1) \o SubSeq(t, i + 1, n) : i \in 1..n}
     \cup {[t EXCEPT ![i].spaced = ~@] : i \in 1..n}
     \cup {[t EXCEPT ![i] = Token(w)] : i \in 1..n, w \in words}
     \cup {SubSeq(t, 1, i) \o <<Token(w)>> \o SubSeq(t, i + 1, n) : i \in 0..n, w \in words}
Words == {"a", "T", "1", "(", ")", "{", "}", "[", "]", ",", ";", ":", "=", ".", "-", "*", "fn", "val", "extern", "where", "is",
          "if", "else", "in", "intern", "'\\q'"}
DamagedFiles ==
  {<<d, Body>> : d \in Few} \cup {<<Body, d>> : d \in Few} \cup {<<Namespace(<<Header, d>>), Header>> : d \in Few}
  \cup {<<Returning(s)>> : s \in Leaves \cup Around(One)}
  \cup {<<Returning(s)>> : s \in {Val("val", "a", <<>>, One), Val("mut", "a", <<I8>>, One), Node("while", <<>>, <<One, Block(<<>>)>>)}}
  \cup {<<Returning(Block(<<Val("val", "a", <<t>>, One)>>))>> : t \in LongTypes}
  \cup {<<Returning(Node("is", <<>>, <<Name("a"), t>>))>> : t \in SmallPatterns \cup {Node("struct pattern", <<>>, <<Node("pattern field", <<"b">>, <<Unit>>), Node("pattern field", <<"a">>, <<One>>)>>)}}
MCSources ==
  {Written} \cup {{[text |-> t, meant |-> {}] : t \in Damaged(u, Words)} : u \in {All(ds) : ds \in DamagedFiles}}

\* The empty struct, as the comments of the parser have it.
EmptyStruct == Const(Named("T"), Node("struct", <<>>, <<>>))
EmptySources == {{[text |-> Write(EmptyStruct), meant |-> {<<EmptyStruct>>}]}}
=============================================================================
