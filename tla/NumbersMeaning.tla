-------------------------- MODULE NumbersMeaning --------------------------
(***************************************************************************)
(* What the expressions of Numbers mean, in numbers rather than bits: the  *)
(* types an expression may have, what it stands for, and the operations    *)
(* whose code computes something else.                                     *)
(***************************************************************************)
EXTENDS Numbers

RECURSIVE Types(_)
\* The type of what nothing is expected of: a number's is i64.
OwnType(e) == IF e.op = "number" THEN Types(e) \cap {I64} ELSE Types(e)

\* The types an expression may have.  A hint decides the type of a number only.
Types(e) ==
  LET left == OwnType(e.args[1])
      both == left \cap Types(e.args[2])
      some(types) == IF types = {} THEN {} ELSE {Bool}
      of(kinds) == {type \in both : type.kind \in kinds}
      scalars == {"integer", "char", "bool", "pointer"}
  IN CASE e.op = "number" ->
            {type \in IntegerTypes : ~(e.text[1] /\ e.text[2] # "") /\ (IF e.text[1] THEN -e.text[3] ELSE e.text[3]) \in Numbers(type)}
       [] e.op = "constant" -> {e.type}
       [] e.op = "hint" -> IF e.args[1].op = "number" THEN Types(e.args[1]) \cap {IF e.type.kind = "integer" THEN e.type ELSE I64}
                           ELSE Types(e.args[1])
       [] e.op = "as" ->
            IF \E from \in left :
                 \/ from.kind \in {"integer", "char"} /\ e.type.kind = "integer"
                 \/ from.kind = "integer" /\ from.width = 1 /\ e.type = Char
                 \/ {from, e.type} = {U64, Pointer}
            THEN {e.type} ELSE {}
       [] e.op = "not" -> left \cap {Bool}
       [] e.op = "bitnot" -> left \cap IntegerTypes
       [] e.op \in BitwiseFunctions \cup Arithmetic -> of({"integer"})
       [] e.op \in Comparisons -> some(of({"integer"}))
       [] e.op \in Equalities -> some(of(scalars))
       [] e.op \in Connectives -> of({"bool"})

TheOf(types) == CHOOSE type \in types : TRUE

\* A number brought into the range of a type.
Wrapped(n, type) == NumberOf(n % 2 ^ Bits(type), type)

\* An operation on numbers of a type.
Applied(op, a, b, type) ==
  LET holds(p) == IF p THEN 1 ELSE 0
      shifts == b \in 0..(Bits(type) - 1)
      pattern(n) == n % 2 ^ Bits(type)
      divides == b # 0 /\ (b = -1 => -a \in Numbers(type))
  IN CASE op = "+" -> Wrapped(a + b, type)
       [] op = "-" -> Wrapped(a - b, type)
       [] op = "*" -> Wrapped(a * b, type)
       [] op = "/" -> IF divides THEN Quotient(a, b) ELSE Undefined
       [] op = "%" -> IF divides THEN a - b * Quotient(a, b) ELSE Undefined
       [] op = "==" -> holds(a = b)
       [] op = "!=" -> holds(a # b)
       [] op = "<" -> holds(a < b)
       [] op = "<=" -> holds(a <= b)
       [] op = ">" -> holds(a > b)
       [] op = ">=" -> holds(a >= b)
       [] op = "or" -> holds(a = 1 \/ b = 1)
       [] op = "bitand" -> Wrapped(pattern(a) & pattern(b), type)
       [] op = "bitor" -> Wrapped(pattern(a) | pattern(b), type)
       [] op = "bitxor" -> Wrapped(pattern(a) ^^ pattern(b), type)
       [] op = "shiftLeft" -> IF shifts THEN Wrapped(a * 2 ^ b, type) ELSE Undefined
       [] op = "shiftRight" -> IF shifts THEN a \div 2 ^ b ELSE Undefined

RECURSIVE Meant(_)
\* What an expression stands for; a bool is 1 or 0.
Meant(e) ==
  LET arg(k) == Meant(e.args[k])
  IN CASE e.op = "number" -> IF e.text[1] THEN -e.text[3] ELSE e.text[3]
       [] e.op = "constant" -> NumberOf(e.bits, e.type)
       [] e.op = "hint" -> arg(1)
       [] OTHER ->
            IF arg(1) = Undefined THEN Undefined
            ELSE CASE e.op = "as" -> Wrapped(arg(1), e.type)
                   [] e.op = "not" -> 1 - arg(1)
                   [] e.op = "bitnot" -> Wrapped(-1 - arg(1), TheOf(OwnType(e.args[1])))
                   [] e.op = "and" -> IF arg(1) = 1 THEN arg(2) ELSE 0
                   [] OTHER -> IF arg(2) = Undefined THEN Undefined
                               ELSE Applied(e.op, arg(1), arg(2), TheOf(OwnType(e.args[1])))

RECURSIVE FromCondition(_)
\* A bool is true in all its bits when an instruction computed it, in one when
\* it was written.
FromCondition(e) ==
  CASE e.op \in Comparisons \cup Equalities \cup {"not"} -> TRUE
    [] e.op = "and" -> FromCondition(e.args[2])
    [] e.op = "or" -> \E k \in 1..2 : Meant(e.args[k]) = 1 /\ FromCondition(e.args[k])
    [] e.op = "hint" -> FromCondition(e.args[1])
    [] OTHER -> FALSE

\* The operations whose code computes something else: comparisons and shifts to
\* the right take unsigned integers for signed ones, an extension has the sign
\* of its result, and a true that is computed is not the true that is written.
Flawed(e) ==
  LET a == Meant(e.args[1])
      b == Meant(e.args[2])
      type == TheOf(OwnType(e.args[1]))
      upper(n) == n >= 2 ^ (Bits(type) - 1)
  IN CASE e.op \in Comparisons -> {a, b} \cap {Undefined} = {} /\ ~type.signed /\ upper(a) # upper(b)
       [] e.op = "as" -> /\ a # Undefined /\ type.width < e.type.width /\ type.signed # e.type.signed
                         /\ (a < 0 \/ upper(a))
       [] e.op = "shiftRight" -> ~type.signed /\ a # Undefined /\ upper(a) /\ b \in 1..(Bits(type) - 1)
       [] e.op \in Equalities -> type = Bool /\ a = 1 /\ b = 1 /\ FromCondition(e.args[1]) # FromCondition(e.args[2])
       [] OTHER -> FALSE

RECURSIVE HasFlaw(_)
HasFlaw(e) == Flawed(e) \/ \E k \in DOMAIN e.args : HasFlaw(e.args[k])

-----------------------------------------------------------------------------

\* What is true of one instruction: its operands have the bits it takes.
WellFormed(i) ==
  CASE i.do = "const" -> i.const \in 0..(2 ^ i.bits - 1)
    [] i.do = "trunc" -> i.bits < i.args[1].bits
    [] i.do \in {"sext", "zext", "intcast"} -> i.bits >= i.args[1].bits
    [] i.do = "branch" -> i.args[1].bits = 1 /\ i.args[2].bits = i.bits
    [] i.do \in {"eq", "ne", "slt", "sle", "sgt", "sge"} -> i.bits = 1 /\ i.args[1].bits = i.args[2].bits
    [] OTHER -> \A k \in DOMAIN i.args : i.args[k].bits = i.bits

\* Types: an instruction is given operands of the widths it takes, and the
\* code has the width of the type that was checked.
TypeOK ==
  /\ phase \in {"check", "generate", "run", "done", "rejected"}
  /\ phase \in {"generate", "run", "done"} => ~Failed(typed)
  /\ phase \in {"run", "done"} /\ ~Panics(code) =>
       code.bits = Bits(typed.type) /\ \A i \in Instructions(code) : WellFormed(i)
  /\ phase = "done" => value \in 0..(2 ^ code.bits - 1) \cup {Undefined}

\* The checker accepts exactly the expressions that have a type, and finds one
\* they have: the type of the left operand reaches the number on the right
\* (eval_binary_op, eval_integer_value), and nothing reaches one on the left.
CheckedHasType ==
  phase # "check" => IF phase = "rejected" THEN OwnType(program) = {} ELSE typed.type \in OwnType(program)

\* What is computed is what the expression means, unless the operation is one
\* of those known to be flawed, and those always compute something else:
\* checking, generation and execution agree on widths, signs and truth. And no
\* operation the checker accepts is one codegen_binop panics at.
AsMeant ==
  LET meant == Meant(program)
  IN IF value = Undefined \/ meant = Undefined THEN value = meant
     ELSE IF typed.type = Bool THEN (value # 0) = (meant = 1)
     ELSE NumberOf(value, typed.type) = meant

ComputesWhatIsMeant ==
  /\ phase = "run" => ~Panics(code)
  /\ phase = "done" =>
       \/ AsMeant = ~Flawed(program)
       \/ \E k \in DOMAIN program.args : HasFlaw(program.args[k])
=============================================================================
