------------------------------ MODULE Numbers ------------------------------
(***************************************************************************)
(* Numbers from their text to the value a program computes: literals,      *)
(* casts, binary operations and the abilities Equals and Bitwise of the    *)
(* numeric types, as typer.rs checks them, as codegen_llvm.rs generates    *)
(* instructions for them, and as LLVM executes these.                      *)
(*                                                                         *)
(* Values are bit patterns, numbers below 2^n for n bits; Widths are small *)
(* and stand for 8, 16, 32 and 64 bits.  Floating point is left out.       *)
(***************************************************************************)
EXTENDS Integers, Sequences, FiniteSets, Bitwise

CONSTANTS
  Widths,   (* The widths of integers, ascending.  The first is also that  *)
            (* of chars and bools, the last that of pointers.              *)
  Programs  (* Sets of expressions.                                        *)

ASSUME WidthsAssumption ==
  /\ Widths \in Seq(2..16) /\ Widths # <<>>
  /\ \A i, k \in DOMAIN Widths : i < k => Widths[i] < Widths[k]

VARIABLES
  program,  (* The expression.                                             *)
  phase,    (* "check", "generate", "run", "done", or "rejected".          *)
  typed,    (* What the checker makes of it.                               *)
  code,     (* What the generator makes of that.                           *)
  value     (* What it computes.                                           *)

vars == <<program, phase, typed, code, value>>

-----------------------------------------------------------------------------
(* Types and expressions.                                                    *)

Integer(signed, width) == [kind |-> "integer", signed |-> signed, width |-> width]
Char == [kind |-> "char", signed |-> FALSE, width |-> 1]
Bool == [kind |-> "bool", signed |-> FALSE, width |-> 1]
Pointer == [kind |-> "pointer", signed |-> FALSE, width |-> Len(Widths)]
I64 == Integer(TRUE, Len(Widths))
U64 == Integer(FALSE, Len(Widths))
IntegerTypes == {Integer(signed, k) : signed \in BOOLEAN, k \in DOMAIN Widths}

Bits(type) == Widths[type.width]
\* The numbers of a type.
Numbers(type) ==
  IF type.signed THEN -(2 ^ (Bits(type) - 1)) .. 2 ^ (Bits(type) - 1) - 1 ELSE 0 .. 2 ^ Bits(type) - 1

\* The number that n bits stand for, in two's complement.
AsSigned(bits, n) == IF bits >= 2 ^ (n - 1) THEN bits - 2 ^ n ELSE bits
NumberOf(bits, type) == IF type.signed THEN AsSigned(bits, Bits(type)) ELSE bits

Comparisons == {"<", "<=", ">", ">="}
Equalities == {"==", "!="}
Arithmetic == {"+", "-", "*", "/", "%"}
Connectives == {"and", "or"}
Shifts == {"shiftLeft", "shiftRight"}
BitwiseFunctions == {"bitand", "bitor", "bitxor"} \cup Shifts

\* An expression.  A number has its text: a sign, a prefix and the number its
\* digits are; a variable has its type and the bits it holds.
Expr(op, type, args) == [op |-> op, type |-> type, args |-> args, text |-> <<>>, bits |-> 0]
Number(negative, prefix, digits) == [Expr("number", I64, <<>>) EXCEPT !.text = <<negative, prefix, digits>>]
Constant(type, bits) == [Expr("constant", type, <<>>) EXCEPT !.bits = bits]
Hinted(e, type) == Expr("hint", type, <<e>>)
As(e, type) == Expr("as", type, <<e>>)
Binary(op, l, r) == Expr(op, I64, <<l, r>>)
Unary(op, e) == Expr(op, I64, <<e>>)

-----------------------------------------------------------------------------
(* The type checker.                                                         *)

\* A typed expression, or an error.
Made(op, type, args) == [op |-> op, type |-> type, args |-> args, bits |-> 0]
Error == Made("error", I64, <<>>)
Failed(t) == t.op = "error"

\* eval_integer_value: the text is read as one of the type expected, or i64.
\* Only a text that starts with a prefix has another base.
IntegerValue(text, expected) ==
  LET type == IF expected # <<>> /\ expected[1].kind = "integer" THEN expected[1] ELSE I64
      number == IF text[1] THEN -text[3] ELSE text[3]
  IN IF (text[1] /\ text[2] # "") \/ number \notin Numbers(type) THEN Error
     ELSE [Made("constant", type, <<>>) EXCEPT !.bits = number % 2 ^ Bits(type)]

\* eval_cast: the kind of cast there is between two types.
CastType(from, to) ==
  CASE from.kind = "integer" /\ to.kind = "integer" ->
         IF from.width < to.width THEN "extend" ELSE IF from.width > to.width THEN "truncate" ELSE "noop"
    [] from.kind = "integer" /\ to.kind = "char" -> IF from.width = 1 THEN "noop" ELSE "error"
    [] from.kind = "char" /\ to.kind = "integer" -> "extend"
    [] from = U64 /\ to = Pointer -> "toPointer"
    [] from = Pointer /\ to = U64 -> "fromPointer"
    [] OTHER -> "error"

\* The type of an operation on operands of a type, if there is one.
ResultType(op, type) ==
  CASE type.kind = "integer" /\ op \in Arithmetic -> <<type>>
    [] type.kind = "integer" /\ op \in Comparisons -> <<Bool>>
    [] type.kind \in {"integer", "char", "bool"} /\ op \in Equalities -> <<Bool>>
    [] type.kind = "bool" /\ op \in Connectives -> <<Bool>>
    [] OTHER -> <<>>

\* Fault: the right operand is evaluated for itself.
RightExpected_None(type) == <<>>

\* What is expected of the right operand.
RightExpected(type) == <<type>>

RECURSIVE Checked(_, _)

\* The operands, the second evaluated for the type of the first; Pointers are
\* compared by their implementation of Equals.
CheckedBinary(e) ==
  LET l == Checked(e.args[1], <<>>)
      r == Checked(e.args[2], RightExpected(l.type))
      equals == Made("==", Bool, <<Made("fromPointer", U64, <<l>>), Made("fromPointer", U64, <<r>>)>>)
  IN CASE Failed(l) -> Error
       [] ~Failed(l) /\ l.type = Pointer /\ e.op \in Equalities ->
            IF Failed(r) \/ r.type # Pointer THEN Error
            ELSE IF e.op = "==" THEN equals ELSE Made("not", Bool, <<equals>>)
       [] OTHER -> LET type == ResultType(e.op, l.type)
                   IN IF type = <<>> \/ Failed(r) \/ r.type # l.type THEN Error ELSE Made(e.op, type[1], <<l, r>>)

\* A call of a function of Bitwise, which is implemented for the integers.
CheckedBitwise(e) ==
  LET self == Checked(e.args[1], <<>>)
      other == Checked(e.args[2], <<self.type>>)
  IN IF Failed(self) \/ self.type.kind # "integer" THEN Error
     ELSE IF e.op = "bitnot" THEN Made(e.op, self.type, <<self>>)
     ELSE IF Failed(other) \/ other.type # self.type THEN Error
     ELSE Made(e.op, self.type, <<self, other>>)

\* eval_expr.  A type hint is what is expected, and is not compared.
Checked(e, expected) ==
  CASE e.op = "number" -> IntegerValue(e.text, expected)
    [] e.op = "constant" -> [Made("constant", e.type, <<>>) EXCEPT !.bits = e.bits]
    [] e.op = "hint" -> Checked(e.args[1], <<e.type>>)
    [] e.op = "as" ->
         LET base == Checked(e.args[1], <<>>)
             cast == CastType(base.type, e.type)
         IN IF Failed(base) \/ cast = "error" THEN Error ELSE Made(cast, e.type, <<base>>)
    [] e.op = "not" ->
         LET base == Checked(e.args[1], expected)
         IN IF Failed(base) \/ base.type # Bool THEN Error ELSE Made("not", Bool, <<base>>)
    [] e.op \in {"bitnot"} \cup BitwiseFunctions -> CheckedBitwise(e)
    [] OTHER -> CheckedBinary(e)

-----------------------------------------------------------------------------
(* The generator.                                                            *)

\* An instruction with as many bits in its result.
Instr(do, bits, args) == [do |-> do, bits |-> bits, args |-> args, const |-> 0]
Const(bits, const) == [Instr("const", bits, <<>>) EXCEPT !.const = const]
Panic == Instr("panic", 0, <<>>)

\* bool_to_i1 and i1_to_bool.
ToI1(i) == Instr("trunc", 1, <<i>>)
ToBool(i) == Instr("intcast", Bits(Bool), <<i>>)

\* Fault: divisions do not depend on the type.
Divides_Signed(op, type) == IF op = "/" THEN "sdiv" ELSE "srem"

\* The instruction for a division, by the type of its result.
Divides(op, type) ==
  CASE op = "/" -> IF type.signed THEN "sdiv" ELSE "udiv"
    [] op = "%" -> IF type.signed THEN "srem" ELSE "urem"

\* codegen_binop of integers.
IntegerOperation(op, type, l, r) ==
  CASE op \in {"+", "-", "*"} -> Instr(op, l.bits, <<l, r>>)
    [] op \in {"/", "%"} -> Instr(Divides(op, type), l.bits, <<l, r>>)
    [] op \in Connectives -> Instr(op, l.bits, <<l, r>>)
    [] op = "==" -> Instr("eq", 1, <<l, r>>)
    [] OTHER -> Panic

\* The predicate by which integers are compared.
Predicate(op) ==
  CASE op = "==" -> "eq" [] op = "!=" -> "ne" [] op = "<" -> "slt" [] op = "<=" -> "sle"
    [] op = ">" -> "sgt" [] op = ">=" -> "sge"

\* codegen_binop of what has type bool; `and` is a branch.
BoolOperation(op, l, r) ==
  CASE op = "and" -> Instr("branch", Bits(Bool), <<ToI1(l), r>>)
    [] op = "or" -> Instr("or", Bits(Bool), <<l, r>>)
    [] op \in Equalities \cup Comparisons -> ToBool(Instr(Predicate(op), 1, <<l, r>>))
    [] OTHER -> Panic

\* The intrinsics; sign_extend is set for all integers.
BitOperation(op, l, r) ==
  LET do == CASE op = "bitand" -> "and" [] op = "bitor" -> "or" [] op = "bitxor" -> "xor"
              [] op = "shiftLeft" -> "shl" [] op = "shiftRight" -> "ashr"
  IN Instr(do, l.bits, <<l, r>>)

\* codegen_expr of a cast.
CastOperation(cast, to, i) ==
  CASE cast = "extend" -> Instr(IF to.signed THEN "sext" ELSE "zext", Bits(to), <<i>>)
    [] cast = "truncate" -> Instr("trunc", Bits(to), <<i>>)
    [] cast \in {"noop", "toPointer", "fromPointer"} -> i

RECURSIVE Generated(_)
\* codegen_expr.
Generated(t) ==
  LET arg(k) == Generated(t.args[k])
  IN CASE t.op = "constant" -> Const(Bits(t.type), t.bits)
       [] t.op \in {"extend", "truncate", "noop", "toPointer", "fromPointer"} -> CastOperation(t.op, t.type, arg(1))
       [] t.op = "not" -> ToBool(Instr("not", 1, <<ToI1(arg(1))>>))
       [] t.op = "bitnot" -> Instr("not", Bits(t.type), <<arg(1)>>)
       [] t.op \in BitwiseFunctions -> BitOperation(t.op, arg(1), arg(2))
       [] t.op \in Arithmetic \cup Comparisons \cup Equalities \cup Connectives ->
            CASE t.type.kind = "integer" -> IntegerOperation(t.op, t.type, arg(1), arg(2))
              [] t.type.kind = "bool" -> BoolOperation(t.op, arg(1), arg(2))
              [] OTHER -> Panic

-----------------------------------------------------------------------------
(* Execution.                                                                *)

\* What an instruction leaves undefined, and what is computed from that: no
\* number of a type.
Undefined == 2 ^ 20

Quotient(a, b) == LET q == (IF a < 0 THEN -a ELSE a) \div (IF b < 0 THEN -b ELSE b)
                  IN IF (a < 0) = (b < 0) THEN q ELSE -q

\* The result of an instruction on patterns of n bits.
Result(do, a, b, n) ==
  LET x == AsSigned(a, n)
      y == AsSigned(b, n)
      overflows == a = 2 ^ (n - 1) /\ y = -1
      holds(p) == IF p THEN 1 ELSE 0
  IN CASE do = "+" -> (a + b) % 2 ^ n
       [] do = "-" -> (a - b) % 2 ^ n
       [] do = "*" -> (a * b) % 2 ^ n
       [] do = "udiv" -> IF b = 0 THEN Undefined ELSE a \div b
       [] do = "urem" -> IF b = 0 THEN Undefined ELSE a % b
       [] do = "sdiv" -> IF b = 0 \/ overflows THEN Undefined ELSE Quotient(x, y) % 2 ^ n
       [] do = "srem" -> IF b = 0 \/ overflows THEN Undefined ELSE (x - y * Quotient(x, y)) % 2 ^ n
       [] do = "eq" -> holds(a = b)
       [] do = "ne" -> holds(a # b)
       [] do = "slt" -> holds(x < y)
       [] do = "sle" -> holds(x <= y)
       [] do = "sgt" -> holds(x > y)
       [] do = "sge" -> holds(x >= y)
       [] do = "and" -> a & b
       [] do = "or" -> a | b
       [] do = "xor" -> a ^^ b
       [] do = "shl" -> IF b >= n THEN Undefined ELSE (a * 2 ^ b) % 2 ^ n
       [] do = "ashr" -> IF b >= n THEN Undefined ELSE (x \div 2 ^ b) % 2 ^ n

RECURSIVE Executed(_)
\* What the code computes.  The cast of a condition to a bool is a signed one.
Executed(i) ==
  LET arg(k) == Executed(i.args[k])
      from == i.args[1].bits
  IN IF i.do = "const" THEN i.const
     ELSE IF arg(1) = Undefined THEN Undefined
     ELSE CASE i.do \in {"trunc", "zext"} -> arg(1) % 2 ^ i.bits
            [] i.do \in {"sext", "intcast"} -> AsSigned(arg(1), from) % 2 ^ i.bits
            [] i.do = "not" -> 2 ^ i.bits - 1 - arg(1)
            [] i.do = "branch" -> IF arg(1) = 1 THEN arg(2) ELSE 0
            [] OTHER -> IF arg(2) = Undefined THEN Undefined ELSE Result(i.do, arg(1), arg(2), from)

RECURSIVE Instructions(_)
Instructions(i) == {i} \cup UNION {Instructions(i.args[k]) : k \in DOMAIN i.args}
Panics(i) == Panic \in Instructions(i)

-----------------------------------------------------------------------------

Init ==
  /\ \E family \in Programs : program \in family
  /\ phase = "check" /\ typed = Error /\ code = Panic /\ value = Undefined

Check ==
  /\ phase = "check"
  /\ typed' = Checked(program, <<>>)
  /\ phase' = IF Failed(typed') THEN "rejected" ELSE "generate"
  /\ UNCHANGED <<program, code, value>>

Generate ==
  /\ phase = "generate"
  /\ code' = Generated(typed) /\ phase' = "run"
  /\ UNCHANGED <<program, typed, value>>

Run ==
  /\ phase = "run" /\ ~Panics(code)
  /\ value' = Executed(code) /\ phase' = "done"
  /\ UNCHANGED <<program, typed, code>>

Done == phase \in {"rejected", "done"} /\ UNCHANGED vars

Next == Check \/ Generate \/ Run \/ Done

Spec == Init /\ [][Next]_vars

=============================================================================
