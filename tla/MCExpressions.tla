---------------------------- MODULE MCExpressions ----------------------------
EXTENDS Expressions

Tokens == {"x", "X", "1", "(", ")", "[", "]", ",", ".", "!", "as", ":", "is", "not", "-", "*",
           "?", "and", "+"}

\* All texts of at most three tokens.
Short == UNION {[1..n -> Tokens] : n \in 0..3}

\* Three operands of every kind with operators of four precedences.
MCOperands ==
  {<<"1">>, <<"(", "1", "+", "1", ")">>, <<"not", "x">>, <<"x", "(", "1", ",", "1", "?", "1", ")">>,
   <<"1", "!", ":", "x">>, <<".", "X", "(", "x", ")">>, <<"[", "1", ",", "]">>,
   <<"x", ".", "x", "[", "x", "[", "X", "]", "]", "(", "1", ")">>}
MCOperators == {"?", "and", "-", "*"}
Chains ==
  {a \o <<o>> \o b \o <<p>> \o c :
     a \in MCOperands, b \in MCOperands, c \in MCOperands, o \in MCOperators, p \in MCOperators}

\* Five literals with operators of all precedences.
Levels == {"|", "%", "*", "/", "-", "==", "and", "or", "?"}
Flat == {<<"1", o, "1", p, "1", q, "1", r, "1">> :
           o \in Levels, p \in Levels, q \in Levels, r \in {"-", "and", "?"}}

\* What may follow an operand, twice, and the rest.
Suffixes == {<<>>, <<"!">>, <<".", "x">>, <<".", "x", "(", ")">>, <<"as", "x">>, <<"as", "x", "?">>,
             <<"as", "x", ".", "x">>, <<"as", "x", "[", "X", ",", "x", "[", "x", "]", "]">>,
             <<":", "x", "*">>, <<"is", "1">>, <<"is", ".", "X", "(", "x", ")">>,
             <<"[", "1", "]">>}
Suffixed == {<<"x">> \o a \o b \o c :
               a \in Suffixes, b \in Suffixes, c \in {<<>>, <<"*", "1">>, <<"is", "x">>}}

\* Names with paths are not modelled.
WithoutPaths(t) == \A i \in 1..Len(t) - 1 : t[i] # ":" \/ t[i + 1] # ":"

MCInputs == {t \in Short \cup Chains \cup Flat \cup Suffixed : WithoutPaths(t)}

IndexInputs == Suffixed
=============================================================================
