----------------------------- MODULE MCMatching -----------------------------
(* Matches of up to three arms on ten types.                                 *)
EXTENDS Matching, FiniteSetsExt

-----------------------------------------------------------------------------
(* The types.                                                                *)

Simple(kind) == [kind |-> kind, parts |-> <<>>]
Opt(t) == [kind |-> "enum", parts |-> [Some |-> t, None |-> 0]]
Pair(t, u) == [kind |-> "struct", parts |-> [x |-> t, y |-> u]]

Bool == 2
Scalar == 3
OptUnit == 5
OptBool == 6
OptOptUnit == 10
PairBoolOptUnit == 11

MCTypes ==
  <<Simple("unit"), Simple("bool"), Simple("scalar"), Simple("pointer"), Opt(1), Opt(Bool),
    Opt(Scalar), Opt(4), Pair(Scalar, Bool), Opt(OptUnit), Pair(Bool, OptUnit), Opt(OptBool),
    Pair(Scalar, OptBool)>>

-----------------------------------------------------------------------------
(* The patterns.                                                             *)

Lit(kind, is) == [kind |-> "literal", value |-> Leaf(kind, is)]
Enum(tag, payload) == [kind |-> "enum", tag |-> tag, payload |-> payload]
Fields(fs) == [kind |-> "struct", fields |-> fs]
Field(name, p) == [name |-> name, pattern |-> p]

Any == 1
True == 2
None == 6
SomeAny == 8
SomeTrue == 9
OneLevel ==
  <<[kind |-> "any"], Lit("bool", "true"), Lit("bool", "false"), Lit("scalar", "literal"),
    Lit("unit", "unit"), Enum("None", 0), Enum("Some", 0), Enum("Some", Any),
    Enum("Some", True), Enum("Some", 3), Enum("Some", 4), Enum("Some", 5),
    Enum("Nope", 0), Enum("None", Any), Fields(<<>>), Fields(<<Field("z", Any)>>)>>

\* The patterns of these that are for bools, scalars and the two simple enums; and
\* some that are not for most types.
Bools == {Any, True, 3}
Numbers == {Any, 4}
OptUnits == {Any, None, 7, SomeAny, 12}
OptBools == {Any, None, 7, SomeAny, SomeTrue, 10}
Misfits == {True, 4, 12, 13, 14, 15, 16}

Pairs(xs, ys) ==
  {Fields(<<Field("x", p)>>) : p \in xs} \cup {Fields(<<Field("y", p)>>) : p \in ys}
    \cup {Fields(<<Field("x", p), Field("y", q)>>) : p \in xs, q \in ys}

Pool ==
  FoldSet(LAMBDA p, pool : Append(pool, p), OneLevel,
          {Enum("Some", p) : p \in (OptUnits \cup OptBools) \ {Any}}
            \cup Pairs(Numbers, Bools) \cup Pairs(Bools, OptUnits) \cup Pairs(Numbers, OptBools))

MCPatterns == Pool

-----------------------------------------------------------------------------
(* The matches.                                                              *)

PatternsOf(t) == {p \in DOMAIN Patterns : Fits[p][t]}

Match(t, arms, exp, partial) == [type |-> t, arms |-> arms, expected |-> exp, partial |-> partial]
Arm(p, type) == [pattern |-> p, type |-> type]

UpTo(S, n) == UNION {[1..k -> S] : k \in 1..n}

\* All matches of up to n arms on a type.
Total(t, n) ==
  {Match(t, [k \in DOMAIN ps |-> Arm(ps[k], "int")], "none", FALSE) : ps \in UpTo(PatternsOf(t), n)}

\* `is`, with or without an `if`.
Is(t) == {IsMatch(t, p, Any, cons, "int") : p \in PatternsOf(t) \cup Misfits, cons \in {"int", "never"}}

MCMatches ==
  UNION {Total(t, 3) : t \in 1..OptOptUnit}
    \cup Total(PairBoolOptUnit, 2)
    \cup UNION {Is(t) : t \in DOMAIN Types \ {OptOptUnit, PairBoolOptUnit}}
    \cup {Match(OptBool, <<Arm(None, "int"), Arm(p, "int"), Arm(Any, "int")>>, "none", FALSE) :
            p \in Misfits}
    \cup {Match(Bool, <<Arm(True, a), Arm(3, b)>>, e, FALSE) :
            a, b \in {"int", "bool", "never"}, e \in {"none", "int"}}
    \cup {Match(OptBool, <<Arm(None, a), Arm(SomeTrue, b), Arm(SomeAny, c)>>, e, FALSE) :
            a, b, c \in {"int", "bool", "never"}, e \in {"none", "int"}}
    \cup {Match(t, <<>>, "none", FALSE) : t \in 1..8}
=============================================================================
