---------------------------- MODULE MCNumbers ----------------------------
(* Expressions of up to two operations, and of bools up to three.            *)
EXTENDS NumbersMeaning

MCWidths == <<2, 3>>

AllTypes == IntegerTypes \cup {Char, Bool, Pointer}
Values(type) == {Constant(type, bits) : bits \in IF type = Bool THEN 0..1 ELSE 0..(2 ^ Bits(type) - 1)}
Texts == {Number(FALSE, prefix, n) : prefix \in {"", "0x"}, n \in 0..8}
           \cup {Number(TRUE, "", n) : n \in 1..5} \cup {Number(TRUE, "0x", 1), Number(FALSE, "0b", 3)}
FewTexts == {Number(FALSE, "", n) : n \in {0, 1, 3, 4}} \cup {Number(TRUE, "", 1), Number(TRUE, "", 4), Number(FALSE, "0x", 7)}
Operations == Comparisons \cup Equalities \cup Arithmetic \cup Connectives \cup BitwiseFunctions

Leaves == Texts \cup {Hinted(e, type) : e \in Texts \cup {Constant(I64, 1)}, type \in AllTypes} \cup UNION {Values(type) : type \in AllTypes}
Casts == {As(e, type) : e \in Leaves, type \in AllTypes}
Negations == {Unary(op, e) : op \in {"not", "bitnot"}, e \in Leaves \cup {As(Constant(U64, 1), Char)}}

SameType == UNION {{Binary(op, l, r) : op \in Operations, l \in Values(type), r \in Values(type)} : type \in AllTypes}
OtherTypes == {Binary(op, Constant(s, 1), Constant(t, 1)) : op \in Operations, s \in AllTypes, t \in AllTypes}
WithNumbers == {Binary(op, l, r) : op \in Operations, l \in UNION {Values(type) : type \in AllTypes}, r \in FewTexts}
                 \cup {Binary(op, l, Constant(type, 1)) : op \in Operations, l \in FewTexts, type \in AllTypes}
                 \cup {Binary(op, l, r) : op \in Operations, l \in FewTexts, r \in FewTexts}

\* An operand that is converted, a result that is, and one that is used.
I8 == Integer(TRUE, 1)
U8 == Integer(FALSE, 1)
Small == Values(I8) \cup Values(U8)
Converted ==
  {Binary(op, As(e, type), r) : op \in {"<", "/", "shiftRight", "=="}, e \in Small, type \in IntegerTypes \cup {Char}, r \in FewTexts}
    \cup {As(As(e, t1), t2) : e \in Small \cup Values(Char) \cup Values(Pointer), t1 \in AllTypes, t2 \in AllTypes}
    \cup {As(Binary(op, l, r), I64) : op \in {"+", "*", "%", "shiftLeft", "<"}, l \in Small, r \in Small}
    \cup {Binary(op, l, Binary("-", r, One)) : op \in {"+", "/", "<="}, l \in Small, r \in Small, One \in {Number(FALSE, "", 1), Constant(U8, 1)}}

\* Bools: written, computed, and computed wrongly.
BoolLeaves == Values(Bool) \cup {Unary("not", Constant(Bool, 0)), Binary("<", Constant(U8, 1), Constant(U8, 1)), Binary("<", Constant(U8, 3), Constant(U8, 1)),
                                 Binary("==", Binary("/", Constant(I8, 1), Constant(I8, 0)), Constant(I8, 1))}
Bools2 == BoolLeaves \cup {Binary(op, l, r) : op \in Equalities \cup Connectives, l \in BoolLeaves, r \in BoolLeaves}
Bools3 == {Unary("not", e) : e \in Bools2} \cup {Binary(op, l, r) : op \in Equalities \cup Connectives, l \in Bools2, r \in BoolLeaves}

MCPrograms == {Leaves, Casts, Negations, SameType, OtherTypes, WithNumbers, Converted, Bools2, Bools3}
=============================================================================
