------------------------------ MODULE Codegen ------------------------------
(***************************************************************************)
(* The code generator's functions, blocks, branches and loops              *)
(* (src/k1/codegen_llvm.rs): a typed module becomes LLVM functions, whose  *)
(* basic blocks LLVM verifies and which then run.                          *)
(*                                                                         *)
(* The generator is recursive; tasks is what is left to do of all active   *)
(* calls, innermost first, and values are the LlvmValues they hold.  A     *)
(* value is a constant, or the result of the instruction at a place, a     *)
(* pair of a block and a position in it.  The value of type void is Never. *)
(***************************************************************************)
EXTENDS Integers, SequencesExt

CONSTANTS
  Modules,   (* Records of the functions as written and as typed.          *)
  Scopes(_), (* The variables in scope at the nodes of a module.           *)
  MaxAsks    (* A bound on the answers a run of a program gets.            *)

VARIABLES
  module,    (* The module.                                                *)
  phase,     (* "generate", "verify", "run", "panic", "error", "invalid".  *)
  next,      (* The function codegen_module comes to next.                 *)
  tasks,     (* What is left to generate.                                  *)
  values,    (* The values at hand.                                        *)
  declared,  (* llvm_functions: the names of functions added to LLVM.      *)
  variables, (* variables: pairs of a function and the id of a variable.   *)
  blocks,    (* LLVM's basic blocks, each with its function and code.      *)
  at,        (* The builder's insert block, 0 if it has none.              *)
  frames,    (* The stack of the running program.                          *)
  asked,     (* The answers it has got.                                    *)
  outcome    (* "running", "crash", "stopped", or the value of main.       *)

generator == <<next, tasks, values, declared, variables, blocks, at>>
machine == <<frames, asked, outcome>>
vars == <<module, phase, generator, machine>>

-----------------------------------------------------------------------------
(* The modules the type checker hands over, without those the generator      *)
(* cannot deal with: the README has an example of each.                      *)

FunctionIn(m, f) == CHOOSE g \in {m.typed[i] : i \in DOMAIN m.typed} : g.name = f
FunctionOf(f) == FunctionIn(module, f)

ValueTypes == {"unit", "bool", "int"}
Types == ValueTypes \cup {"never"}
StatementKinds == {"val", "mut", "assign", "while"}
ExpressionKinds == {"unit", "bool", "int", "variable", "not", "or", "and", "return", "if", "block", "call"}

\* Scopes(m) has, for all nodes of functions, the ids of the variables in
\* scope before it, behind each of its parts in turn, and behind it: what a
\* part that may not run declares is in scope in that part only.
Before(s) == s.scopes[1]
After(s) == s.scopes[Len(s.scopes)]
HasPart(all, s, i, before, after) ==
  \E p \in all : /\ p.function = s.function /\ p.node = s.node.subs[i]
              /\ Before(p) = before /\ After(p) \in after

PartsInScope(all, s) ==
  LET n == Len(s.node.subs)
  IN CASE s.node.kind = "and" ->
            /\ Len(s.scopes) = 2 /\ HasPart(all, s, 1, Before(s), {After(s)})
            /\ HasPart(all, s, 2, After(s), SUBSET Nat)
       [] s.node.kind = "if" ->
            /\ Len(s.scopes) = 2 /\ HasPart(all, s, 1, Before(s), {After(s)})
            /\ HasPart(all, s, 2, After(s), SUBSET Nat) /\ HasPart(all, s, 3, After(s), SUBSET Nat)
       [] s.node.kind = "while" ->
            /\ Len(s.scopes) = 2 /\ HasPart(all, s, 1, Before(s), {After(s)})
            /\ HasPart(all, s, 2, After(s), SUBSET Nat)
       [] s.node.kind \in {"val", "mut"} ->
            /\ Len(s.scopes) = 3 /\ HasPart(all, s, 1, Before(s), {s.scopes[2]})
            /\ s.node.id \in Nat \ s.scopes[2] /\ After(s) = s.scopes[2] \cup {s.node.id}
       [] OTHER ->
            /\ Len(s.scopes) = n + 1
            /\ \A i \in 1..n : HasPart(all, s, i, s.scopes[i], {s.scopes[i + 1]})
            /\ s.node.kind \in {"variable", "assign"} => s.node.id \in Before(s)

\* A while whose block ends with an expression before it: the value of that
\* one would be the value of the block.
EndsWithLoop(block) ==
  /\ block.subs # <<>> /\ block.subs[Len(block.subs)].kind = "while"
  /\ \E i \in DOMAIN block.subs :
       /\ block.subs[i].kind \notin StatementKinds /\ block.subs[i].type # "unit"
       /\ \A j \in i + 1..Len(block.subs) : block.subs[j].kind = "while"

\* The parts whose values are used have some, and so has an if.
NodeIsTyped(m, f, e) ==
  LET Parts(types) == Len(e.subs) = Len(types) /\ \A i \in DOMAIN types : e.subs[i].type = types[i]
      g == FunctionIn(m, e.name)
  IN CASE e.kind \in {"unit", "bool", "int"} -> Parts(<<>>) /\ e.type = e.kind
       [] e.kind = "variable" -> Parts(<<>>) /\ e.type \in ValueTypes
       [] e.kind = "not" -> Parts(<<"bool">>) /\ e.type = "bool"
       [] e.kind \in {"or", "and"} -> Parts(<<"bool", "bool">>) /\ e.type = "bool"
       [] e.kind = "return" ->
            /\ Parts(<<FunctionIn(m, f).ret>>) /\ FunctionIn(m, f).ret \in ValueTypes
            /\ e.type = "never"
       [] e.kind = "if" ->
            /\ Len(e.subs) = 3 /\ e.subs[1].type = "bool" /\ e.type \in ValueTypes
            /\ \A i \in 2..3 : e.subs[i].type \in {e.type, "never"}
            /\ \E i \in 2..3 : e.subs[i].type # "never"
       [] e.kind = "block" ->
            /\ \A i \in 1..Len(e.subs) - 1 : e.subs[i].type # "never"
            /\ e.type = IF e.subs = <<>> THEN "unit" ELSE e.subs[Len(e.subs)].type
            /\ ~EndsWithLoop(e)
       [] e.kind = "call" ->
            /\ \E i \in DOMAIN m.typed : m.typed[i].name = e.name
            /\ Parts([i \in DOMAIN g.params |-> g.params[i].type]) /\ e.type = g.ret
       [] e.kind \in {"val", "mut", "assign"} ->
            /\ Len(e.subs) = 1 /\ e.subs[1].type \in ValueTypes /\ e.type = "unit"
       [] e.kind = "while" ->
            /\ Len(e.subs) = 2 /\ e.subs[1].type = "bool" /\ e.subs[2].type \in ValueTypes
            /\ e.type = "unit"

\* Only blocks have parts that are no expressions.
ScopeIsTyped(m, all, s) ==
  LET e == s.node
  IN /\ e.kind \in ExpressionKinds \cup StatementKinds /\ e.type \in Types
     /\ e.subs \in Seq({e.subs[i] : i \in DOMAIN e.subs})
     /\ e.kind # "block" => \A i \in DOMAIN e.subs : e.subs[i].kind \in ExpressionKinds
     /\ NodeIsTyped(m, s.function, e) /\ PartsInScope(all, s)
     /\ s.scopes \in Seq(SUBSET Nat) /\ \A i \in DOMAIN s.scopes : Before(s) \subseteq s.scopes[i]

\* The parameters are the first variables of a function.
FunctionIsTyped(m, f) ==
  /\ f.params \in Seq({f.params[i] : i \in DOMAIN f.params})
  /\ \A i \in DOMAIN f.params : f.params[i].type \in ValueTypes
  /\ f.ret \in Types
  /\ f.body # <<>> =>
       /\ f.body[1].kind \in ExpressionKinds /\ f.body[1].type \in {f.ret, "never"}
       /\ \E s \in Scopes(m) : /\ s.function = f.name /\ s.node = f.body[1]
                               /\ Before(s) = DOMAIN f.params

IsRegular(m) ==
  /\ m.typed \in Seq({m.typed[i] : i \in DOMAIN m.typed})
  /\ \A i \in DOMAIN m.typed : FunctionIsTyped(m, m.typed[i])
  /\ LET all == Scopes(m) IN \A s \in all : ScopeIsTyped(m, all, s)

ASSUME ModulesAssumption == \A m \in Modules : IsRegular(m)

-----------------------------------------------------------------------------
(* Instructions and values.                                                  *)

\* codegen_type: unit and bool are both bytes, never is void.
LlvmType(type) == CASE type \in {"unit", "bool"} -> "i8" [] type = "int" -> "i64"
                    [] type = "never" -> "void"

Constant(type, name) == [type |-> LlvmType(type), place |-> <<>>, const |-> name]
Never == Constant("never", "none")
Result(type, bs, b) == [type |-> LlvmType(type), place |-> <<b, Len(bs[b].code)>>, const |-> "none"]

Instr(op, name, args, to) == [op |-> op, name |-> name, args |-> args, to |-> to, id |-> 0]
Br(to) == Instr("br", "none", <<>>, <<to>>)
CondBr(value, then, else) == Instr("br", "none", <<value>>, <<then, else>>)

Unreachable == Instr("unreachable", "none", <<>>, <<>>)

Terminators == {"br", "ret", "unreachable"}
IsTerminator(i) == i.op \in Terminators

\* The builder puts an instruction at the end of a block.
Emit(bs, b, i) == [bs EXCEPT ![b].code = Append(@, i)]

\* append_basic_block, n times, in the function the builder is in.
WithBlocks(bs, f, n) == bs \o [i \in 1..n |-> [function |-> f, code |-> <<>>]]
NewBlocks(bs, n) == [i \in 1..n |-> Len(bs) + i]

Task(do, node) == [do |-> do, node |-> node, blocks |-> <<>>, incoming |-> <<>>]
\* codegen_expr, and codegen_expr_basic_value: Never is not expected then.
Generate(e) == Task("generate", e)
GenerateValue(e) == <<Generate(e), Task("expect", e)>>

-----------------------------------------------------------------------------
(* Steps of the generator.                                                   *)

Current == tasks[1]
Expr == Current.node
Top == values[1]
Here == blocks[at].function

\* The next task is to do this; to generate an expression of this kind.
Doing(do) == phase = "generate" /\ tasks # <<>> /\ Current.do = do
Generating(kind) == Doing("generate") /\ Expr.kind = kind

\* The task is replaced by others, and the uppermost n values by others.
Continue(with) == tasks' = with \o Tail(tasks)
Replace(n, with) == values' = with \o SubSeq(values, n + 1, Len(values))

Unmoved == UNCHANGED <<module, phase, next, declared, variables, at, machine>>
Panic == phase' = "panic" /\ UNCHANGED <<module, generator, machine>>
\* A CodegenError, which every caller passes on.
Fail == phase' = "error" /\ UNCHANGED <<module, generator, machine>>

Literal ==
  /\ Doing("generate") /\ Expr.kind \in {"unit", "bool", "int"}
  /\ Continue(<<>>) /\ Replace(0, <<Constant(Expr.kind, Expr.name)>>)
  /\ UNCHANGED blocks /\ Unmoved

\* An expression's value is used: expect_value.
Expect ==
  /\ Doing("expect")
  /\ IF Top = Never THEN Panic
     ELSE Continue(<<>>) /\ UNCHANGED <<values, blocks>> /\ Unmoved

Variable ==
  /\ Generating("variable")
  /\ IF <<Here, Expr.id>> \notin variables THEN Fail
     ELSE /\ blocks' = Emit(blocks, at, [Instr("load", "none", <<>>, <<>>) EXCEPT !.id = Expr.id])
          /\ Continue(<<>>) /\ Replace(0, <<Result(Expr.type, blocks', at)>>)
          /\ Unmoved

Not ==
  \/ /\ Generating("not")
     /\ Continue(GenerateValue(Expr.subs[1]) \o <<Task("not", Expr)>>)
     /\ UNCHANGED <<values, blocks>> /\ Unmoved
  \/ /\ Doing("not")
     /\ blocks' = Emit(blocks, at, Instr("not", "none", <<Top>>, <<>>))
     /\ Continue(<<>>) /\ Replace(1, <<Result("bool", blocks', at)>>)
     /\ Unmoved

\* codegen_binop: both operands of an or are evaluated.
Or ==
  \/ /\ Generating("or")
     /\ Continue(GenerateValue(Expr.subs[1]) \o GenerateValue(Expr.subs[2]) \o <<Task("or", Expr)>>)
     /\ UNCHANGED <<values, blocks>> /\ Unmoved
  \/ /\ Doing("or")
     /\ blocks' = Emit(blocks, at, Instr("or", "none", <<values[2], Top>>, <<>>))
     /\ Continue(<<>>) /\ Replace(2, <<Result("bool", blocks', at)>>)
     /\ Unmoved

\* Fault: the value of the right operand is said to come from the block that
\* was made for it, though the operand may have branched.
AndResult_FirstBlock(b) ==
  LET joined == Emit(Emit(blocks, at, Br(b[3])), b[2], Br(b[3]))
  IN Emit(joined, b[3], Instr("phi", "bool", <<Top, Constant("bool", "false")>>, <<b[1], b[2]>>))

\* The blocks after the right operand of an and; b are rhs_check,
\* short_circuit and and_result.
AndResult(b) ==
  LET joined == Emit(Emit(blocks, at, Br(b[3])), b[2], Br(b[3]))
  IN Emit(joined, b[3], Instr("phi", "bool", <<Top, Constant("bool", "false")>>, <<at, b[2]>>))

\* codegen_binop: the right operand is evaluated if the left one is true.
And ==
  \/ /\ Generating("and")
     /\ Continue(GenerateValue(Expr.subs[1]) \o <<Task("rhs", Expr)>>)
     /\ UNCHANGED <<values, blocks>> /\ Unmoved
  \/ /\ Doing("rhs")
     /\ LET b == NewBlocks(blocks, 3)
        IN /\ blocks' = Emit(WithBlocks(blocks, Here, 3), at, CondBr(Top, b[1], b[2]))
           /\ at' = b[1]
           /\ Continue(GenerateValue(Expr.subs[2]) \o <<[Task("and", Expr) EXCEPT !.blocks = b]>>)
     /\ Replace(1, <<>>)
     /\ UNCHANGED <<module, phase, next, declared, variables, machine>>
  \/ /\ Doing("and")
     /\ blocks' = AndResult(Current.blocks) /\ at' = Current.blocks[3]
     /\ Continue(<<>>) /\ Replace(1, <<Result("bool", blocks', at')>>)
     /\ UNCHANGED <<module, phase, next, declared, variables, machine>>

Return ==
  \/ /\ Generating("return")
     /\ Continue(GenerateValue(Expr.subs[1]) \o <<Task("return", Expr)>>)
     /\ UNCHANGED <<values, blocks>> /\ Unmoved
  \/ /\ Doing("return")
     /\ blocks' = Emit(blocks, at, Instr("ret", "none", <<Top>>, <<>>))
     /\ Continue(<<>>) /\ Replace(1, <<Never>>)
     /\ Unmoved

-----------------------------------------------------------------------------
(* if.                                                                       *)

\* A branch has ended: unless it diverges, it goes on at the merge block.
Joined(merge) == IF Top = Never THEN blocks ELSE Emit(blocks, at, Br(merge))
Incoming == IF Top = Never THEN <<>> ELSE <<[value |-> Top, from |-> at]>>

Phi(incoming, type) ==
  Instr("phi", type, [i \in DOMAIN incoming |-> incoming[i].value],
        [i \in DOMAIN incoming |-> incoming[i].from])

\* codegen_if_else.  The blocks are if_cons, if_alt and if_merge.
If ==
  \/ /\ Generating("if")
     /\ blocks' = WithBlocks(blocks, Here, 3)
     /\ Continue(GenerateValue(Expr.subs[1])
                   \o <<[Task("branch", Expr) EXCEPT !.blocks = NewBlocks(blocks, 3)]>>)
     /\ UNCHANGED values /\ Unmoved
  \/ /\ Doing("branch")
     /\ LET b == Current.blocks
        IN /\ blocks' = Emit(blocks, at, CondBr(Top, b[1], b[2]))
           /\ at' = b[1]
           /\ Continue(<<Generate(Expr.subs[2]), [Task("alternate", Expr) EXCEPT !.blocks = b]>>)
     /\ Replace(1, <<>>)
     /\ UNCHANGED <<module, phase, next, declared, variables, machine>>
  \/ /\ Doing("alternate")
     /\ LET b == Current.blocks
        IN /\ blocks' = Joined(b[3])
           /\ at' = b[2]
           /\ Continue(<<Generate(Expr.subs[3]),
                         [Task("merge", Expr) EXCEPT !.blocks = b, !.incoming = Incoming]>>)
     /\ Replace(1, <<>>)
     /\ UNCHANGED <<module, phase, next, declared, variables, machine>>
  \/ /\ Doing("merge")
     /\ LET merge == Current.blocks[3]
            incoming == Current.incoming \o Incoming
            phi == Emit(Joined(merge), merge, Phi(incoming, Expr.type))
        IN IF LlvmType(Expr.type) = "void" THEN Panic
           ELSE /\ blocks' = IF incoming = <<>> THEN Emit(phi, merge, Unreachable) ELSE phi
                /\ Replace(1, <<IF incoming = <<>> THEN Never ELSE Result(Expr.type, phi, merge)>>)
                /\ at' = merge
                /\ Continue(<<>>)
                /\ UNCHANGED <<module, phase, next, declared, variables, machine>>

-----------------------------------------------------------------------------
(* Blocks and their statements.                                              *)

UnitValue == Constant("unit", "()")

Statement(s) ==
  CASE s.kind \in {"val", "mut"} -> GenerateValue(s.subs[1]) \o <<Task("val", s)>>
    [] s.kind = "assign" -> <<Task("destination", s)>> \o GenerateValue(s.subs[1]) \o <<Task("assign", s)>>
    [] s.kind = "while" -> <<Task("while", s)>>
    [] OTHER -> <<Generate(s), Task("last", s)>>

\* codegen_block_statements.  The value under the one of a statement is that
\* of the statements before it.
Block ==
  \/ /\ Generating("block")
     /\ Continue(FlattenSeq([i \in DOMAIN Expr.subs |-> Statement(Expr.subs[i])]))
     /\ Replace(0, <<UnitValue>>)
     /\ UNCHANGED blocks /\ Unmoved
  \/ /\ Doing("last")
     /\ Continue(<<>>) /\ Replace(2, <<Top>>)
     /\ UNCHANGED blocks /\ Unmoved

\* codegen_val.
Val ==
  /\ Doing("val")
  /\ blocks' = Emit(blocks, at, [Instr("alloca", "none", <<Top>>, <<>>) EXCEPT !.id = Expr.id])
  /\ variables' = variables \cup {<<Here, Expr.id>>}
  /\ Continue(<<>>) /\ Replace(2, <<UnitValue>>)
  /\ UNCHANGED <<module, phase, next, declared, at, machine>>

\* The destination of an assignment, looked up before the value is generated.
Destination ==
  /\ Doing("destination")
  /\ IF <<Here, Expr.id>> \notin variables THEN Panic
     ELSE Continue(<<>>) /\ UNCHANGED <<values, blocks>> /\ Unmoved

\* Fault: the value of the block is still that of the statement before it.
Assign_KeepsLast ==
  /\ Doing("assign")
  /\ blocks' = Emit(blocks, at, [Instr("store", "none", <<Top>>, <<>>) EXCEPT !.id = Expr.id])
  /\ Continue(<<>>) /\ Replace(1, <<>>)
  /\ Unmoved

\* An assignment; its value is unit.
Assign ==
  /\ Doing("assign")
  /\ blocks' = Emit(blocks, at, [Instr("store", "none", <<Top>>, <<>>) EXCEPT !.id = Expr.id])
  /\ Continue(<<>>) /\ Replace(2, <<UnitValue>>)
  /\ Unmoved

\* The blocks are while_cond, while_body and while_end.
While ==
  \/ /\ Doing("while")
     /\ LET b == NewBlocks(blocks, 3)
        IN /\ blocks' = Emit(WithBlocks(blocks, Here, 3), at, Br(b[1]))
           /\ at' = b[1]
           /\ Continue(GenerateValue(Expr.subs[1]) \o <<[Task("body", Expr) EXCEPT !.blocks = b]>>)
     /\ UNCHANGED <<module, phase, next, values, declared, variables, machine>>
  \/ /\ Doing("body")
     /\ LET b == Current.blocks
        IN /\ blocks' = Emit(blocks, at, CondBr(Top, b[2], b[3]))
           /\ at' = b[2]
           /\ Continue(<<Generate(Expr.subs[2]), [Task("again", Expr) EXCEPT !.blocks = b]>>)
     /\ Replace(1, <<>>)
     /\ UNCHANGED <<module, phase, next, declared, variables, machine>>
  \/ /\ Doing("again")
     /\ blocks' = Emit(blocks, at, Br(Current.blocks[1]))
     /\ at' = Current.blocks[3]
     /\ Continue(<<>>) /\ Replace(1, <<>>)
     /\ UNCHANGED <<module, phase, next, declared, variables, machine>>

-----------------------------------------------------------------------------
(* Functions and calls.                                                      *)

\* What codegen_function adds to llvm_functions before it comes to the body.
Added(f) == {f}

\* codegen_function, up to the body, before it does the tasks in rest.  The
\* parameters are the first variables of the function.
StartFunction(f, rest) ==
  /\ declared' = declared \cup Added(f)
  /\ LET params == FunctionOf(f).params
         param(i) == [type |-> LlvmType(params[i].type), place |-> <<>>, const |-> params[i].name]
         entry == Len(blocks) + 1
         stores == [i \in DOMAIN params |->
                      [Instr("alloca", "none", <<param(i)>>, <<>>) EXCEPT !.id = i]]
         end == [Task("end", FunctionOf(f)) EXCEPT !.blocks = <<at>>]
     IN IF FunctionOf(f).body = <<>>
        THEN tasks' = rest /\ UNCHANGED <<variables, blocks, at>>
        ELSE /\ blocks' = Append(blocks, [function |-> f, code |-> stores])
             /\ at' = entry
             /\ variables' = variables \cup {<<f, i>> : i \in DOMAIN params}
             /\ tasks' = <<Generate(FunctionOf(f).body[1]), end>> \o rest
  /\ UNCHANGED <<module, phase, values, machine>>

\* Where the builder goes when a function is done: the block it came from.
Restored(start) == IF start = 0 THEN at ELSE start

\* codegen_function, after the body.
EndFunction ==
  /\ Doing("end")
  /\ LET code == blocks[at].code
         last == IF LlvmType(Expr.ret) = "void" THEN Instr("ret", "none", <<>>, <<>>)
                 ELSE IF Top = Never THEN Unreachable
                 ELSE Instr("ret", "none", <<Top>>, <<>>)
     IN blocks' = IF code # <<>> /\ IsTerminator(code[Len(code)]) THEN blocks
                  ELSE Emit(blocks, at, last)
  /\ at' = Restored(Current.blocks[1])
  /\ Continue(<<>>) /\ Replace(1, <<>>)
  /\ UNCHANGED <<module, phase, next, declared, variables, machine>>

\* codegen_module comes to a function; one that is there is not generated
\* again.
NextFunction ==
  /\ phase = "generate" /\ tasks = <<>> /\ next <= Len(module.typed)
  /\ next' = next + 1
  /\ LET f == module.typed[next].name
     IN IF f \in declared THEN UNCHANGED <<module, phase, tasks, values, declared, variables, blocks, at, machine>>
        ELSE StartFunction(f, <<>>)

\* codegen_function_call: the callee first, then the arguments, then the
\* call, after which nothing is reached if the callee does not return.
Call ==
  \/ /\ Generating("call") /\ Expr.name \notin declared
     /\ StartFunction(Expr.name, tasks)
     /\ UNCHANGED next
  \/ /\ Generating("call") /\ Expr.name \in declared
     /\ Continue(FlattenSeq([i \in DOMAIN Expr.subs |-> GenerateValue(Expr.subs[i])])
                   \o <<Task("call", Expr)>>)
     /\ UNCHANGED <<values, blocks>> /\ Unmoved
  \/ /\ Doing("call")
     /\ LET n == Len(Expr.subs)
            args == [i \in 1..n |-> values[n + 1 - i]]
            called == Emit(blocks, at, Instr("call", Expr.name, args, <<>>))
        IN /\ blocks' = IF Expr.type = "never" THEN Emit(called, at, Unreachable) ELSE called
           /\ Replace(n, <<IF Expr.type = "never" THEN Never ELSE Result(Expr.type, called, at)>>)
     /\ Continue(<<>>)
     /\ Unmoved

GenerationDone ==
  /\ phase = "generate" /\ tasks = <<>> /\ next > Len(module.typed)
  /\ phase' = "verify"
  /\ UNCHANGED <<module, generator, machine>>

-----------------------------------------------------------------------------
(* LLVM's verifier.                                                          *)

Blocks == 1..Len(blocks)
Code(b) == blocks[b].code
EndOf(b) == Code(b)[Len(Code(b))]
Successors(b) == {EndOf(b).to[k] : k \in DOMAIN EndOf(b).to}
Predecessors(b) == {p \in Blocks : b \in Successors(p)}
Entry(f) == CHOOSE b \in Blocks : blocks[b].function = f
                                    /\ \A c \in Blocks : blocks[c].function = f => b <= c

\* The blocks that are reached from b on ways that avoid a block.
ReachedWithout(b, avoided) ==
  LET within[n \in 0..Len(blocks)] ==
        IF n = 0 THEN {b} \ {avoided}
        ELSE LET before == within[n - 1]
             IN before \cup ((UNION {Successors(c) : c \in before}) \ {avoided})
  IN within[Len(blocks)]

\* A value made at place is there at b: made on every way to b.
Dominates(place, b) ==
  \/ place[1] = b
  \/ blocks[place[1]].function = blocks[b].function
       /\ b \notin ReachedWithout(Entry(blocks[b].function), place[1])

\* Instructions that use the values of others come after them in their block.
BlockVerifies(b) ==
  /\ Code(b) # <<>>
  /\ \A k \in DOMAIN Code(b) : IsTerminator(Code(b)[k]) <=> k = Len(Code(b))
  /\ \A c \in Successors(b) : blocks[c].function = blocks[b].function
  /\ \A k \in DOMAIN Code(b) :
       LET i == Code(b)[k]
           types == {i.args[a].type : a \in DOMAIN i.args}
           ret == LlvmType(FunctionOf(blocks[b].function).ret)
       IN /\ "void" \notin types
          /\ i.op # "phi" => \A a \in DOMAIN i.args :
               i.args[a].place # <<>> => Dominates(i.args[a].place, b)
          /\ i.op = "phi" => /\ {i.to[a] : a \in DOMAIN i.to} = Predecessors(b)
                             /\ Len(i.to) = Cardinality(Predecessors(b))
                             /\ types \subseteq {LlvmType(i.name)}
                             /\ \A a \in DOMAIN i.args : i.args[a].place # <<>> =>
                                  Dominates(i.args[a].place, i.to[a])
          /\ i.op \in {"load", "store"} => \E c \in Blocks : \E m \in DOMAIN Code(c) :
               Code(c)[m].op = "alloca" /\ Code(c)[m].id = i.id /\ Dominates(<<c, m>>, b)
          /\ i.op = "ret" => types = {ret} \ {"void"}
          /\ i.op = "call" => /\ i.name \in declared
                              /\ [a \in DOMAIN i.args |-> i.args[a].type] =
                                 LET params == FunctionOf(i.name).params
                                 IN [a \in DOMAIN params |-> LlvmType(params[a].type)]

Verify ==
  /\ phase = "verify"
  /\ phase' = IF \A b \in Blocks : BlockVerifies(b) THEN "run" ELSE "invalid"
  /\ frames' = IF phase' = "run" THEN <<[block |-> Entry("main"), index |-> 1, from |-> 0,
                                         results |-> <<>>, slots |-> <<>>, args |-> <<>>]>>
               ELSE <<>>
  /\ UNCHANGED <<module, generator, asked, outcome>>

-----------------------------------------------------------------------------
(* The program runs.                                                         *)

Frame == frames[1]
Now == Code(Frame.block)[Frame.index]

\* The value of an operand; those without a place that name a parameter are
\* the arguments of the call.
Operand(v) == IF v.place # <<>> THEN Frame.results[v.place]
              ELSE IF v.const \in DOMAIN Frame.args THEN Frame.args[v.const] ELSE v.const
Arg(k) == Operand(Now.args[k])

\* The uppermost frame goes on after its instruction, which has a result.
Yields(value) ==
  frames' = <<[Frame EXCEPT !.index = @ + 1,
                            !.results = (<<Frame.block, Frame.index>> :> value) @@ @]>> \o Tail(frames)
GoTo(b) == frames' = <<[Frame EXCEPT !.block = b, !.index = 1, !.from = Frame.block]>> \o Tail(frames)
Running(op) == phase = "run" /\ outcome = "running" /\ Now.op = op
Internal == UNCHANGED <<module, phase, generator, asked, outcome>>

RunValue ==
  \/ /\ Running("not") /\ Yields(IF Arg(1) = "true" THEN "false" ELSE "true") /\ Internal
  \/ /\ Running("or") /\ Yields(IF "true" \in {Arg(1), Arg(2)} THEN "true" ELSE "false") /\ Internal
  \/ /\ Running("phi")
     /\ Yields(Arg(CHOOSE k \in DOMAIN Now.to : Now.to[k] = Frame.from)) /\ Internal
  \/ /\ Running("load") /\ Yields(Frame.slots[Now.id]) /\ Internal
  \/ /\ \/ Running("store") \/ Running("alloca")
     /\ frames' = <<[Frame EXCEPT !.index = @ + 1, !.slots = (Now.id :> Arg(1)) @@ @]>> \o Tail(frames)
     /\ Internal

RunBranch ==
  /\ Running("br")
  /\ GoTo(IF Now.args = <<>> \/ Arg(1) = "true" THEN Now.to[1] ELSE Now.to[2])
  /\ Internal

RunReturn ==
  /\ Running("ret")
  /\ LET below == Tail(frames)
         value == IF Now.args = <<>> THEN "()" ELSE Arg(1)
         caller == below[1]
     IN IF below = <<>> THEN outcome' = value /\ UNCHANGED frames
        ELSE /\ frames' = <<[caller EXCEPT
                               !.index = @ + 1,
                               !.results = (<<caller.block, caller.index>> :> value) @@ @]>> \o Tail(below)
             /\ UNCHANGED outcome
  /\ UNCHANGED <<module, phase, generator, asked>>

\* ask answers as often as it may; the other external functions crash.
RunCall ==
  /\ Running("call")
  /\ LET f == FunctionOf(Now.name)
         names == {f.params[k].name : k \in DOMAIN f.params}
         args == [x \in names |-> Arg(CHOOSE k \in DOMAIN f.params : f.params[k].name = x)]
     IN \/ /\ Now.name = "ask" /\ Len(asked) < MaxAsks
           /\ \E answer \in {"true", "false"} : asked' = Append(asked, answer) /\ Yields(answer)
           /\ UNCHANGED outcome
        \/ /\ Now.name = "ask" /\ Len(asked) = MaxAsks
           /\ outcome' = "stopped" /\ UNCHANGED <<frames, asked>>
        \/ /\ Now.name # "ask" /\ f.body = <<>>
           /\ outcome' = "crash" /\ UNCHANGED <<frames, asked>>
        \/ /\ f.body # <<>>
           /\ frames' = <<[block |-> Entry(Now.name), index |-> 1, from |-> 0,
                           results |-> <<>>, slots |-> <<>>, args |-> args]>> \o frames
           /\ UNCHANGED <<asked, outcome>>
  /\ UNCHANGED <<module, phase, generator>>

-----------------------------------------------------------------------------

\* Nothing has been generated yet.
Ready ==
  /\ phase = "generate" /\ next = 1
  /\ tasks = <<>> /\ values = <<>> /\ declared = {} /\ variables = {}
  /\ blocks = <<>> /\ at = 0
  /\ frames = <<>> /\ asked = <<>> /\ outcome = "running"
Init == module \in Modules /\ Ready

Generation == \/ NextFunction \/ Literal \/ Expect \/ Variable \/ Not \/ Or \/ And \/ Return \/ If
              \/ Block \/ Val \/ Destination \/ Assign \/ While \/ Call \/ EndFunction \/ GenerationDone
Execution == RunValue \/ RunBranch \/ RunReturn \/ RunCall

\* Nothing happens after a panic, an invalid module or the end of the program,
\* nor where LLVM was told that nothing comes.
Ended ==
  \/ phase \in {"panic", "error", "invalid"} \/ outcome # "running"
  \/ Running("unreachable")
Done == Ended /\ UNCHANGED vars

Next == Generation \/ Verify \/ Execution \/ Done

\* One thread generates, verifies and runs.
Spec == Init /\ [][Next]_vars /\ WF_vars(Next)

-----------------------------------------------------------------------------

\* The types of the variables; no value is left when nothing is left to do,
\* and blocks are only added to functions that LLVM has.
TypeOK ==
  /\ phase \in {"generate", "verify", "run", "panic", "error", "invalid"}
  /\ next \in 1..Len(module.typed) + 1
  /\ \A i \in DOMAIN tasks : \A k \in DOMAIN tasks[i].blocks : tasks[i].blocks[k] \in 0..Len(blocks)
  /\ \A i \in DOMAIN values : values[i].type \in {"i8", "i64", "void"}
  /\ declared \subseteq {module.typed[i].name : i \in DOMAIN module.typed}
  /\ variables \subseteq declared \X Nat
  /\ \A b \in Blocks : blocks[b].function \in declared
  /\ at \in 0..Len(blocks)
  /\ tasks = <<>> => values = <<>>
  /\ \A k \in DOMAIN frames : frames[k].block \in Blocks
  /\ asked \in Seq({"true", "false"}) /\ Len(asked) <= MaxAsks

\* The generator gets through every module: it neither panics nor gives up,
\* and what it has generated passes LLVM's verifier.  Every block ends once,
\* the values of a phi are those of the blocks before it, no value is used
\* where it has not been made, and all types are those of the type checker.
ModulesVerify == phase \notin {"panic", "error", "invalid"}

\* codegen_if_else knows that there are ifs of which "Both branches are
\* divergent" and has code for them: the generator does not panic.
NeverPanics == phase # "panic"

=============================================================================
