# TLA+ models of the k1 compiler

k1 (`src/`) is a compiler for a small language, written in Rust: lexer,
recursive descent parser, type checker, LLVM code generator, and a driver with a
command line and a graphical mode. This directory models its core logic. Paths
below are relative to `src/src/` unless they start with `src/`; numbers are line
numbers.

1. [Inventory](#inventory): the parts of the system
2. [Plan](#plan): the modules, written and to come
3. [Modules](#modules): how each corresponds to the code
4. [Runs](#runs): what TLC checks, with which bounds
5. [Fairness](#fairness)
6. [Proofs](#proofs)
7. [Disagreements](#disagreements) between the code and what it says of itself
8. [What is not modelled](#what-is-not-modelled)

## Inventory

| part | state | operations | where it is hard | what makes it correct |
|---|---|---|---|---|
| Graphical driver: `bin/compiler_main.rs`, `k1/gui.rs`, `k1/compiler.rs` | `RwLock<Option<TypedModule>>`, two bounded channels, the executable in `out_dir`, the selected function | compile thread: receive, compile, publish, generate code, clang; run thread: receive, look, run; GUI thread: draw under a read guard, click, send | three threads, a guard held for as long as the user's program runs, blocking `send`, a file shared behind the lock's back | a program that runs belongs to the module shown; requests are served; no thread dies |
| Lexer: `k1/lex.rs` | position, line, token buffer, tokens, spans | `peek`, `next`, `eat_token`, `run` | order of the tests in one long loop, look-ahead, ends of text and line | spans are in order, disjoint and inside the text; tokens are those of the text; it returns |
| Source text: `Source` in `k1/parse.rs` | content, lines | `make`, `get_content`, `get_line_for_span` | bytes against characters, two kinds of line ends, the last line | a span reads back the token and finds its line |
| Front end: `compile_module`, `parse_module` | files, token cursor, definitions per namespace, two lists of errors | lex, parse a definition, record an error, resume | parsing goes on after an error, in a second loop; errors of several files in one list | what is accepted is well formed; definitions land in their namespace; every malformed file is reported |
| Expression parser: `k1/parse.rs` 1648-2200 | cursor, stack of operands and operators, pool of expressions, hints | `parse_expression`, postfix operators, base expressions, delimited lists | a hand-made precedence parser that pops, looks and pushes back; three mutually recursive functions that must agree | trees group by precedence; nothing it takes for granted fails; it ends |
| Recursive descent: definitions, statements, control flow, types, patterns: `k1/parse.rs` 1270-2778 | cursor, pools | one function per construct, tried one after the other | look-ahead of one to three tokens decides what is read; optional parts; lists with many ends; what is consumed and put back | what is written is read as what it is; nothing is passed over |
| Namespaces and type definitions: `k1/typer.rs` 1300-2070, 6615-6680, `k1/typer/scopes.rs` | scopes (types, namespaces, pending definitions), type store | three phases of `TypedModule::run`; `eval_type_defn` recurs through names | evaluation on demand in any order, names that change meaning as types are added, recursion | order does not matter; none is lost; names mean what they say; no reference dangles |
| Declaration and evaluation phases | functions, constants, abilities, errors | `eval_definition_declaration_phase`, `eval_definition` | a phase goes on after an error | nothing is evaluated before it is declared |
| Functions, calls, specialization: `k1/typer.rs` 4655-5680, 5949-6325 | functions, specializations per generic function | declare, resolve, infer, specialize | a body is checked while it is being specialized | one specialization per type argument list; recursion ends |
| Abilities: `k1/typer.rs` 4922, 6327-6580 | abilities, implementations | declare, implement, find | implementations found by order | every function an ability promises exists |
| Pattern matching: `k1/typer.rs` 2204, 3497-3867, 6974-7090 | arms, constructors left, chain of tests | evaluate patterns, unify arm types, exhaustiveness, conditions | two functions must agree on what a pattern matches; payloads read before they are tested | the first matching arm is selected; an exhaustive match never crashes; reports are justified |
| Numbers, casts, operators: `k1/typer.rs` 2644-2766, 3867-3957, 4230-4530; `k1/codegen_llvm.rs` 1634-1850 | none | parse literals, choose casts and operations | widths and signs | results are those of the operands' type |
| Blocks, loops, branches: `k1/typer.rs` 4571-4644, 5698-5803 | scopes, expected types | `eval_block`, `eval_if_expr`, `eval_for_expr`, coercions | `never` ends a block early and stands for any type; what opens a scope | a block has the type its last statement promises; a variable is what it was declared to be |
| Type store: `k1/typer/types.rs` | pool of types | add with comparison, instantiate, substitute | ids computed before types are added; comparison of types still being built | equal types have equal ids, different types different ids |
| Code generation: `k1/codegen_llvm.rs` | LLVM module, current block, maps from variables and functions | one function per construct | the insert block moves under the caller's feet; functions generated on first use, in the middle of another; values of type `never` | LLVM accepts what is generated, and it does what the source says |
| Test driver: `bin/test_suite.rs` | expectations, success counter, list of failures behind a mutex | one thread per test | panics, aborts, a mutex | success means that every test did what it says |
| Core library: `src/builtins/*.k1`, runtime `src/k1lib/k1lib.c` | arrays, hash map | push, grow, get, insert | limits, unsigned arithmetic | a map holds what was inserted last |

How they interact: the driver calls `compile_module`, which lexes and parses
`builtins/` and the program's files into one `ParsedModule` and hands it to the
type checker; the typed module goes through the lock to the GUI, or straight to
code generation, `clang` and the program. The test driver does the same without the
GUI, in threads. Everything from the lexer to the code generator runs in one thread
and communicates by data structures, so that what is hard there is the order of
steps, state read before and used after another step, and recursion; what is hard in
the two drivers is concurrency. `PROJECT.json` lists the hazards, line by line.

## Plan

Written, in this order (the driver first because it is the only place with
threads that share state, then the passes in the order in which a program meets them):

1. `CompilerDriver`: the three threads.
2. `Lexer`, and `SourceText` which extends it: tokens, spans, lines.
3. `Frontend`: files, errors, namespaces of definitions.
4. `TestSuite`: the test driver.
5. `TypeDefns`: name resolution and on-demand evaluation of types.
6. `Matching`: pattern matching from the typed arms to the test that runs.
7. `Expressions`: the expression parser.

8. `ControlFlow`, `Codegen`, `SourceMeaning`, `CodegenMeaning`: blocks, branches, loops,
   short-circuiting, returns and calls, from the type checker to the running
   program. `SourceMeaning` is the abstract specification, which `Codegen` implements.
9. `Specialization`, `SpecializationMeaning`: declarations and bodies of functions,
   abilities and implementations, calls, inference of type arguments and specialization,
   with the two phases of `run` they happen in. `SpecializationMeaning` says which
   programs are well typed without a checker: by what each body calls with which types.
10. `Numbers`, `NumbersMeaning`: literals, casts and operators on integers, bools,
   characters and pointers, from the type checker to the generated operation and what
   it computes at small widths, against arithmetic.

11. `TypeStore`, `TypeMeaning`: the pool of types, type expressions, definitions and
   instances of generic types. `TypeMeaning` is the abstract specification: what a type
   expression denotes, without ids, order or placeholders; what is in the pool reads back as
   what was written, and two ids are equal iff their types denote the same.

12. `Parser`, `Syntax`: parse_module and everything below it. `Syntax` is the abstract
   specification: how each construct is written, and what a text says.

To come:

13. `for` and optional values in `ControlFlow`, then
   `CoreLibrary` (growth of arrays; the hash map as an implementation of a function
   from keys to values: `HashMap.insert` never ends when all slots are taken and stores a
   key twice, `src/builtins/hash.k1` 47).

Theorems worth proving next: for `Codegen`, that the running program never uses a value
that has not been made, which the invariant of the generator (dominance) prepares; for
`Specialization`, `TypeOK` and that no two specializations of a function have the same
types; for `CompilerDriver`, that no executable is started that does not exist, under the condition that one was there at
the start.

## Modules

Each definition names its lines in `PROJECT.json` ("map"). Operators whose comment
starts with "Fault:" are deliberately wrong variants of the definition after them;
they are not part of any specification and serve to show that the properties can tell
the difference.

**CompilerDriver** (`compiler_main.rs` 40-124, `gui.rs`, `compiler.rs` 160-263).
One control variable per thread: `gui`, `compile`, `run`. `module`/`functions` are
what is behind the `RwLock`, `guards` who holds a read guard; a version number stands
for the content of a module or executable. `compileQ`, `runQ` are the bounded
channels. Each thread step between two visible operations (`recv`, taking and
dropping a guard, publishing, code generation, `clang`, starting and waiting for the
program, `send`) is one action, including those of the failing branches:
compilation fails, clang fails, an `unwrap` or `expect` on a closed channel or a missing
executable ends the thread, an index beyond the function list panics in the GUI.
Drawing and the dialogs are left out.

**Lexer** (`lex.rs`). `text` with `pos`, `line`; `mode` is the loop `eat_token` is in
(the main one, comment, string, character literal); one action per iteration, in the
order of the tests in the code. Characters that are treated alike are represented by
a few. The run-away loops of unterminated literals are followed `EofSlack` steps past
the end. `SourceText` adds `Source::make` (a recursive function: what the loop has after each
character), the line of a span and the characters of a span.

**Frontend** (`compiler.rs` 90-158, `parse.rs` 2650-2800). `files` are sequences of
the tokens `parse_definition` tells apart; a definition is a token that parses, one
that does not, or a constant, whose missing semicolon makes the parser read on.
`levels` and `opened` are the recursion through `parse_namespace`. Both loops of
`parse_module`, both lists of errors and the decision of `compile_module` are modelled.

**TestSuite** (`test_suite.rs`). `step` is where each test's thread is, from
compiling to the counter or the mutex (`holder`). The outcome of compiling and running
a test is chosen; the judgement compares it to the expectation the way the code does,
including exit codes that are `None` after an abort. `parallel` is the command line flag.

**TypeDefns** (`typer.rs` 1300-1465, 1855-2182, 6615-6680, 6734-6870, `scopes.rs`,
`types.rs`). A program is the sequence of its namespaces and type definitions. `stack`
holds the active calls of `eval_type_defn`, each at one of its references; a step
evaluates one reference: found among the evaluated types, among the pending ones
(a call), recursive, or not at all. When the arguments of a type application have been
evaluated, `Instantiate` is `instantiate_generic_type` with the substitution below it. `phase`
ends in `done`, `failed`, `panic` ("Unevaluated type defns!!!"), `crashed` (the substitution
panics) or `overflow`. Of a type expression only the sequence of names in it is kept, and of
the type it comes to (`types`) a head (`leaf`, `builtin`, `record`, `instance`) with the
leaves the substitution meets when it walks the type: type parameters; a definition's
reference to itself, which `get` follows back into the type it is in, so that the walk does not
end; and generic types without arguments, at which it panics, as it does at a parameter that no
argument is for. If a walk meets leaves of both kinds, either may be the first in the model.
Fields, arguments that are more than a name or an application, pointers, functions, `never`, opaque
aliases and operators on types are left to `TypeStore` or out.

**Matching** (`typer.rs` 2204-2363, 3497-3866, 6974-7090, `codegen_llvm.rs` for the
chain of tests). Types and patterns are in two pools, where each comes after what is inside
it; constructors and values are small trees. The arms
are typed one by one (`expected` is the type handed from arm to arm), then the
exhaustiveness check, then the test of each arm on a `value`. Each recursive function of the code
is one over places in a pool (`Fits`, `Condition`...) whose body is an operator of its own (`FitsType`,
`ConditionOn`...), given the function for the calls: for each body
the proofs show that there is such a function. All scalars are one type, with
more values than the patterns name (`is_innumerable_literal`); a match that
names all 256 values of a u8 is not in the model.

**Expressions** (`parse.rs` 1648-2200, 2340-2400, `lex.rs` 369-387, 415,
`typer.rs` 342-376). `frames` are the active calls of `parse_expression`, each with
its stack of operands and operators and its caller (a parenthesis, an argument list, a
prefix operator...). A node of the pool keeps its kind, children and span. Reduction
steps of the operator stack are actions of their own, as in the loop. Types and
patterns are skipped by how far they reach: `TypeEnds(p)` is the position behind the type at `p`, with the
type arguments of types and theirs, which take the `[` of `x as x[1]` and of `f[x[X]](1)`.

**ControlFlow** (`typer.rs` 2504, 2622-2642, 4571-4644, 5112-5174, 5698-5803,
6136-6152, 6263-6307). The type checker's pass over a function: a tree of the source
becomes a tree with types and the ids of variables, or `Error`. `never` agrees with every
type, `if` without `else` gets one, and a block may not go on after a statement of type
`never`. Blocks and branches evaluate in the scope around them, as in the code.

**Codegen** (`codegen_llvm.rs` 1255-1360, 1426-1462, 1528-1551, 1705-1790, 1945-1984,
2251-2533). The recursion of `codegen_expr`, `codegen_block_statements` and
`codegen_function` as a stack: `tasks` is what all active calls still have to do,
`values` the values they hold, `at` the builder's insert block. A step is the part of a
function between two recursive calls. A callee that is not there yet is generated
at its first call, in the middle of the caller's block. `IsRegular`, at the start, is no part of
the generator: it says what the type checker hands over, node by node, less what the generator is
known to fail on ([Disagreements](#disagreements)), and `ModulesAssumption` that the modules are such. It
needs the variables in scope at each node, `Scopes(m)`, which `MCCodegen` computes for the modules of
the run, each of them typed by `ControlFlow`; TLC then evaluates the assumption for all of them. `Verify` is what LLVM's verifier
demands (terminators, types, phis, dominance), and the steps `Run...` execute the
instructions; both are external. Unit and bool are the same LLVM type, as in the code.

**SourceMeaning** is the abstract specification: a direct evaluation of the source tree
with lexical scopes, in which a program asks an external function for truth values and
ends with the value of `main` or in a crash. **CodegenMeaning** states that `Codegen`
implements it: `source` is the module as written, `asked` and `outcome` are those of the
running code, so that every step of the generator, of the verifier and between two
calls of `ask` stutters.

**Specialization** (`typer.rs` 2427-2554, 4655-5696, 5949-6612, 6704-6714, 6904-6946,
`codegen_llvm.rs` 2440-2470, 2523-2527). `next` is the definition a phase comes to, `functions`, `abilities` and `impls` are the
pools; a function keeps its types by name (its scope), its specializations and, once
checked, its block. `tasks` is what all active calls of the checker have left to do,
`values` the typed expressions they hold. A step is the part of a function between two
recursive calls: resolve a callee (by name, by receiver, in the constraints
of a type variable, in an ability), take an argument, solve for its type variables, compare with the constraints,
bind, specialize, record. An error drops the tasks up to a `Typed` of an argument that is
being inferred, which lets it pass, or up to the definition. `CheckTypes` follows `check_types`
for `CheckSteps` calls of itself. A type is a type name under a number of `Box`es, the one generic
type, so that types can grow without end.

**SpecializationMeaning** types a program without tasks, scopes or a table: what a
body means for given types, what it calls with which types, and which
calls are reached from them. It also names what the checker is known to depend on
beyond that, as conditions on the program and not on the checker's state: `OrderKept` (type arguments
compared by position), `Determined` (types known only from what is expected),
`AbilitiesFirst`, and `GenericCycle` and `NamesCross`, the two circles.

**Numbers** (`typer.rs` 2644-2766, 3315-3338, 3867-3950, 4236-4465, 5827-5835;
`codegen_llvm.rs` 1634-1854, 1905-1915, 2068-2094, 2482-2495). An expression is checked, generated and
executed in three steps, `typed`, `code` and `value` being what each makes of it. Values
are bit patterns. What LLVM's instructions compute, and where that is undefined,
is external. **NumbersMeaning** computes the same from the numbers the
operands stand for, with integer arithmetic, and names the flawed operations; the property
demands the right value where none of them is met, and excuses nothing else.

**TypeStore** (`types.rs` 28-290, 453-538, 755-823; `typer.rs` 1165-2182, 6200-6246,
6645-6663). `store` is the pool with what hangs on it: the types by id, the scope
of the namespace (`names`), the placeholders of recursive definitions, and the
specializations of generic types. Evaluating a type expression, a definition or an
instance is recursive in the code and changes the pool on the way; each is an
operator from the store it finds to the store it leaves, with the id it returns in `result` and
how it ended in `status` (`rejected`, `panic`, `overflow`), so that `Then` and `ThenAll` are
the code's sequence of calls with `?`. A step of the specification is one call from the
phases of `run`: a definition, or the type of a use (a declaration or a function) after them.
A recursive reference is an entry of the pool that `Types::get` follows; the enum of a variant, the
generic type of an instance and a function's result are ids, as in the code.

**TypeMeaning** gives expressions meanings by substitution: a name stands for its definition
wherever that is; a struct or enum under a name is that name with its arguments, anything else its
structure. `WellFormed` says that the whole program has a meaning. `ReadBack` turns an id
into the meaning of what the pool holds there. `Plain` is the conjunction of what the
compiler depends on beyond that, each a condition on the program's text and needed (without
it, the run fails): `PlainRecursion`, `GenericsFirst`, `Instantiable`, `NoOverlap` and
`ParametersAlike`; the [disagreements](#disagreements) say what happens otherwise. About 5400
of the run's programs are accepted, well formed and plain.

**Parser** (`parse.rs` 1270-2778, `lex.rs` 92-112). A function that returns
`ParseResult<Option<T>>` is an operator from the cursor to a result: `ok` with what was
parsed, `none`, `err`, or `loops` for the one loop that does not end, each with the place the
cursor is then at, which matters because nothing backtracks: the next alternative starts where
the last one has stopped. `Then` is `?`, `Expect` is `Parser::expect`, `OrElse` the
chain of `else if let`. What is parsed is a tree of nodes with a kind, words and
parts; a type hint is a node around its expression and replaces an earlier one, as in the map
of hints. The steps of the specification are those of `parse_module`: a definition, the end
of its first loop (with or without an error, which is recorded), of its second
(whose error is returned and not recorded), and the end of the file. `Frontend` has what
happens between files; `Expressions` how a chain is grouped and what a span is.

**Syntax** knows nothing of cursors or look-ahead. `Write` gives each tree the one way it is
written in, with parentheses where they are needed. `Essence` is what a text says whichever way it is
written: the text without what makes no difference. `Dispensable` and `Repeated` name all the
leniencies of the parser the run's files meet: `NothingPassedOver` compares the essence of the
text with that of its definitions written out again, and fails for these files if one of them is
left out. One more is outside of them: of two type hints, `(a: t): u`, only the second is kept.

## Runs

`tlc -config <cfg> <module>`. All passing runs check deadlock: the specifications
stutter explicitly where the program has ended.

| run | question | size | bounds and why they are enough |
|---|---|---|---|
| `driver` | Is a program that runs at most one compilation behind the module shown, is the executable that of the module between requests, are requests served? | 43 000 states | `ChannelCap = 1` (16 in the code) makes the channels fill with few clicks; `MaxClicks = 4` is enough to fill both channels and have both threads busy; `MaxFunctions = 2` makes the list shrink |
| `lexer` | Does the lexer return exactly the tokens of a reference that says nothing of loops, in ordered spans within the text; do lines and spans agree with the lexer? | 257 000 | all texts of up to 4 characters over 11 kinds, all lines of up to 5 over 7: two tokens of any kind next to each other, every token at either end, every look-ahead of two |
| `frontend` | Do well-formed modules reach the type checker complete, does every malformed file leave a trace, does it end? | 83 000 | one file of 5 tokens: two nested namespaces; two of 2: errors in either |
| `test_suite` | Does success mean that every test met its expectation, does the suite end? | 29 000 | two tests with all expectations and outcomes: all orders of two threads at counter and mutex |
| `type_defns` | Is no definition lost, is a program without faults accepted, whatever the order, do names mean what they say, is the stack exhausted only by cycles, aliases of themselves and instances of types that refer to themselves? | 400 000 | three types referring to each other in all ways; two types and two namespaces with colliding names in all nestings; two generic types applied to each other; two generic types or aliases and one that applies them, in all orders: an instance in an instance, with a type that refers to itself inside, in an argument or not at all. `MaxStack = 4` is deeper than any chain of three |
| `matching` | Is the arm that is selected the first that describes the value, does a match that was analysed never crash, are reports of useless arms justified? | 25 000 | up to three arms on ten types: a wildcard, a refinement and a repetition; types nest twice |
| `expressions` | Do trees group by precedence, does nothing the parser takes for granted fail, and does it come to an end, unless an operand is followed by a `[` that neither it nor a type takes for type arguments? | 342 000 | all texts of 3 of 19 tokens; chains of three operands of all kinds; five literals with operators of all 8 levels, enough for two operators to wait on the stack while a third is reduced; two postfix operators; type arguments of types with type arguments, after `as` and in calls |
| `codegen` | Does the generator get through every regular module, does LLVM accept the result, and does it do what the source means, with as many questions asked in the same order, whatever the answers? | 79 000 | some 900 accepted modules: every expression nested in every other once, every ordered pair of 17 statements around a variable, two functions calling each other or themselves in both orders of generation; four answers let a loop go round more than once and leave it |
| `specialization` | Is a program accepted exactly if a declarative typing accepts it, is the stack exhausted only in circles, and is all that code is generated for concrete? | 105 000 | some 2200 programs: calls nested three deep, generic bodies called before and after, two functions calling each other, type arguments given and inferred in all orders, abilities with and without implementations, with functions without `self`, names that collide. `MaxNesting = 4` specializations on the stack are more than any program without a circle needs; `CheckSteps = 12` likewise |
| `numbers` | Has every checked expression its type, does generation get through, and is the value computed the one arithmetic gives? | 62 500 | widths of 2 and 3 bits for 8 to 64: all literals around their ends, all pairs of values of each type under all operations, all pairs of types, casts of casts and of results; a width below another is all the code distinguishes, and 8 is also that of bools and characters |
| `type_store` | Is the type of every use the one that is written, is one meaning one type, do named types contain what is defined for their arguments, and is everything that has a meaning accepted, in any order? | 152 000 | some 17 000 programs in families: pairs of all expressions over a struct, an enum, an alias and an opaque alias; two generic types with 22 bodies, applied to each other and to themselves, before and after their definitions; two parameters with arguments in both orders, too few and too many; recursive types used in nine ways; three definitions of all kinds that name each other in any order; two functions. `MaxDepth = 24` calls are more than any program without a circle needs |
| `parser` | Is every file that is written according to the syntax read as what it was written for, and does every file that is accepted say what its definitions say? | 414 000 | about 5600 files: every construct around each of 11 expressions, two levels of them around three; all types, patterns, statements and definitions, one inside the other and next to each other in namespaces and files. Then every file that differs by one token from one of 98 of them (90 000 files): left out, spaced otherwise, or one of 25 words inserted or put in its place. One level is enough for every pair of constructs to meet, two for one between two others; look-ahead is three tokens |

Besides the runs there are configurations that end with a violation; see
[Disagreements](#disagreements). Every property of a passing run has a fault in
`PROJECT.json` that breaks it. `TypeOK` of the modules whose invariants already fail
with a wrong type, or for which it is proved, is stated in the module but belongs to no run; nor
does `EveryExpressionUsedOnce` of `Expressions`.

## Fairness

* `CompilerDriver`: weak fairness of each step of the compile and run threads and of
  the GUI's own steps (threads are scheduled), strong fairness of publishing
  (`write()`): the write lock is enabled only while no reader holds a guard, and the
  standard library's lock queues a waiting writer before later readers, so that
  readers that come and go cannot keep it out. The program the user
  runs is assumed to end. Clicks and closing the window are never required.
* `Lexer`, `Frontend`, `Expressions`: weak fairness of the next step: a sequential
  loop that can go on does. The liveness properties then say that no loop goes on for ever.
* `TestSuite`: weak fairness of starting, of each thread's steps and of the end.
  The compiler and the tests' programs are assumed to return.
* `Codegen`: weak fairness of the next step: one thread generates, verifies and runs. A
  program that asks without end is stopped after `MaxAsks` answers, in the source's
  meaning as in the generated code, so that `RunsLikeTheSource` says that the code ends
  whenever the source does.
* `TypeDefns`, `Matching`, `Specialization`, `Numbers`, `TypeStore` and `Parser` state no liveness (that
  parsing ends is `Expressions`' and `Frontend`'s; where it does not, `Parser` ends in `loops`): their ends are the ends of recursion
  over finite data, except for those that `OverflowMeansCycle` and, in `TypeStore`,
  `MeaningsAreAccepted` are about: a circle ends in `overflow` there, as it does in the program.

## Proofs

Checked by TLAPS for every value of the constants.

**DriverProofs**, about `CompilerDriver` and `TestSuite`. For the graphical driver (assumption
`DriverAssumption`, capacities and bounds are natural numbers, positive where the code has positive ones):
`DriverTypeCorrect`; `ChildVersion`: what the run thread starts is at most one compilation
behind the module; `ExecutableCurrent`. The invariants are not inductive: whether the executable
is the module's depends on where the compile thread is, so the strengthening ties
`exe`, `built` and `module` to its control state, and `launched` to the guard the run
thread keeps while its program runs (which keeps the writer out).
For the test driver (assumption `TestSuiteAssumption`): `TypeCorrect`; `MutualExclusion`: only the thread that
holds the mutex is at the list of failures, and whoever has left it has released it; `VerdictCorrect`
(`OkMeansEveryTestMeets`), for any number of tests and every order of the threads. The
invariant ties the counter to the number of tests that are over and met their expectation (`Passed`), and what is
known of a test to where its thread is.

**SourceTextProofs**, about `Lexer` and `SourceText` (assumption `LexerAssumption`: texts are
sequences of known characters).
`TypeCorrect` (no start or length is negative, which in the code would be an underflow
of unsigned numbers), `TokensCutTheText`: spans are disjoint, in order and inside the text. The strengthening says, for each
mode, how the token in the buffer, the mark and the position relate: the token in
progress starts behind the last token, and its length is that of what was consumed;
in a string, that both quotes are outside the span. `TokensOfTheText` is the theorem for
`LexesTheText`: for every text the lexer knows, the tokens and where they end are those of
the reference definition. The definition says where a lexeme is, not how it is found. The
invariant (`Reading`) says that each token so far is one of it, and what the loop that is running has
read of the next: that it is no lexeme yet, and what it can still become. When the lexer
fails, there is no lexeme.

About lines and spans: `SpansReadBack` (`TokensReadBack`) and `LinesOfTokens` (`TokensOnTheirLine`),
for texts of any length in characters of one byte (`OneByte`); with wider ones both are false
([Disagreements](#disagreements), `MCLexerLines.cfg`). `ReadInv`, about the lexer: the buffer is the
slice of the text before the position, so that the span of a token cuts out what was collected.
`FedInv`, about the loop of `Source::make`: after n characters, the lines pushed have the places
and numbers they should have, every place before the next line that is no line end is in one of
them, and the buffer is what follows. `Fed` is a recursive function; that it exists, and
`FedInv` for every n, are inductions over the natural numbers up to the length of the text
(`UpTo`, from the well-foundedness of `<`). The conditions in the two properties (`Quotable`, `Ended`, the
exception for a token that starts at a line end) are needed: attempts with weaker ones ended in
texts longer than the run's, like `'"'"` before `\r\n`.

**TypeDefnsProofs** (assumption `TypeDefnsAssumption`). `TypeCorrect`; `NoneLost`: in the
evaluation phase every definition is pending or evaluated, however deep the recursion;
`NeverPanics`: from it, `run` never reaches "Unevaluated type defns!!!" (the end of the
phase is reached only with the cursor behind the last definition, and the cursor passes
a definition only once it is evaluated); `NoDangling`: what a definition refers to is
evaluated, a parameter or itself. Three more say what evaluation means.
`AsWrittenInPrograms` (`UnqualifiedAsWritten`): what a name without a path comes to is a parameter of that
name, or else a type of that name in an enclosing scope; its invariant (`NamesInv`) says so of all that is
resolved and of the definitions that wait on the stack for each other (`Chain`), which the outermost
leads to (`FromOutermost`). `OverflowsForCycles` (`OverflowMeansCycle`): the stack is a chain of mentions, and one
longer than there are definitions has one of them twice, which is the pigeonhole principle
(`DeepMeansCyclic`); the other ways to exhaust it are in `WhyOverflow`. They need to know what
types are made of (`Sane`, of programs without a cycle): every leaf of a reference's type is a parameter of the definition the
reference is in, a definition in its `Reach` that refers to itself, or a generic type in its
`Reach` where one can stand `Bare` (`AllBuilt`), because what has been evaluated is never evaluated
again and no alias of itself gets that far. So `get` comes back to an alias only if its text says so, and the substitution to a
reference of a definition to itself only if the applied type reaches one. `WellFormedAccepted`
(`AcceptsWellFormed`): a program without faults never fails, panics or overflows, in whatever order its
definitions come (`Good`, with `GoodInstance` for the applications), and
when it is done every reference that is no argument has been resolved (`Complete`). A program
without faults applies no generic type whose text leads to a type that refers to itself: the
compiler does not survive the application if the type contains the other.

**FrontendProofs** (assumption `FrontendAssumption`). `TypeCorrect`; `Traced` (`MalformedFilesLeaveATrace`), for any
number of files of any length; `InTheirScope` (`DefinitionsInTheirScope`). The invariant: there are at least as many
entries in the two lists of errors as malformed files before the one being parsed, and the part of that file
before the cursor is well formed (`CleanSoFar`) unless it has left one more (`TraceOfEach`); and what is
placed, or waits in the list of an open namespace, are the definitions before the cursor (`PlacedSoFar`).

**ExpressionsProofs.** `TypeCorrect`; `Unfailing` (`NeverPanics`): for all texts no pop finds an empty stack, no
span is extended backwards, no operand is missing; `Grouped` (`GroupedByPrecedence`). The
invariant: operands and operators alternate on each frame's stack; precedences
strictly increase towards its top; an operand that is itself an unparenthesised operation binds
tighter than the operator on its left and at least as tight as the one on its right; spans
on the stack and along the frames are in the order of the text. Each reduction
keeps all four, and the tree grouped.

**MatchingProofs** (assumptions: `TypesAssumption`, `PatternsAssumption`, `MatchesAssumption`, that the
pools are ordered and that some scalar has no pattern). `TypeCorrect`; `SelectsTheFirstMatch`
(`FirstMatchSelected`), `TestsNoGarbage` (`NoGarbageTested`), `AnalysedIsExhaustive` (`AnalysedNeverCrashes`),
`RejectsWhatItSays` (`RejectionsJustified`), `EveryArmIsReachable` (`AcceptedArmsReachable`): for all types and
patterns, however deep, and matches with any number of arms. Three facts carry them, each by induction over a pool (`Below`):
the condition compiled for a pattern that fits is true exactly of the values that the pattern
describes (`ConditionRight`); every value of a type all of whose constructors are known has a constructor that patterns
without literals of scalars do not tell from it (`ValueHasConstructor`); and every constructor stands for a
value that patterns which name all payloads do not tell from it (`ConstructorHasValue`). That the functions over the pools exist is
proved first (`Recursion`), that of the tests with its range. The
invariant says of an accepted match that every constructor is matched and no arm is useless, of a
rejected one that this is not so, and of a running one that no earlier arm describes the value.

**CodegenInvariant** and **CodegenProofs** (assumption `ModulesAssumption`, above). `SafeModulesVerify`
(`ModulesVerify`): for any number of functions of any size that call each other in any way, with
blocks, branches and loops nested at will, the generator neither panics nor gives an
error, and LLVM's verifier accepts every block: it has one terminator, at its end; its
phis have one value for each block before it; types are right; and what an instruction uses is made
before it on every way there. The first module has the invariant, `Sound`, and what adding
instructions and blocks does to it; the second has the steps that go on in another block, functions, the verifier and
the theorem. With each task there is what has been reached when its turn comes (`c` in `Sound`): the types
of the values it will find, the variables in scope, the loops it is in. `Sound` consists of

* `Heap`: every instruction is one the verifier accepts as far as the function has come. That a
  block dominates another (`Dom`) is said by a set of blocks with the entry that is left only through the
  first (`Separates`), which unlike a statement about paths survives new branches;
* `Pile`: each task is followed by one that takes what it leaves (`Rule`), as the code's nested
  calls do, and its own blocks, from which others have come or will come, wait for it (`TaskSound`);
* `Matches`: the values at hand are of these types and have been made where they will be used, and
  variables in scope have their `alloca` in a block before;
* every block that has no terminator is the one the builder is at or waits for exactly one task.

A value of type `never` on top means that the block is closed already (`Over`); the proof shows that nothing
is then added to it. Each action is shown to keep it in a lemma of its own, and when no task and no function is left, each
block verifies. The definitions of the verifier speak of the least set of blocks reached without a
block (`ReachedWithout`); that it stays within a separated set is the last lemma about it.

Only model-checked are: liveness and enabledness; that `Codegen` implements
`SourceMeaning`, and what `Specialization` accepts; everything in `Parser`, `Syntax`, `ControlFlow`,
`SourceMeaning`, `SpecializationMeaning`, `Numbers`, `NumbersMeaning`, `TypeStore` and `TypeMeaning`, whose
operators are recursive or bitwise.

## Disagreements

Where the code does something else than its comments, documents or tests say, or than a reader
would expect. Some can be seen with the configuration that is named (with `-continue` for all its
invariants); the others follow from the module.

With a configuration beside the runs:

* `MCSpecializationConstraint.cfg`: inferred type arguments are in the order in which they were solved, and
  are compared with the constraints of the type parameters by position (`typer.rs` 5368): with
  `fn g<A: Show, B>(x: B, y: A): int`, `g(1, true)` is accepted without `Show` for bool.
* `MCParserEmpty.cfg`: "The syntax {} means empty struct" (`parse.rs` 2200), but the case returns
  without consuming the braces (2203): `val a: T = {};` is an error at `{`.
* `MCExpressionsIndex.cfg`: `[` after an operand that does not take it as type arguments (nor its `as` type)
  is still a postfix operator (`lex.rs` 382), though it has no case in the loop any more
  (`parse.rs` 1826): the parser hangs. `parse.rs` 350 still describes the expression.
* `MCLexerLineEnds.cfg`: an empty comment swallows the next line, because three characters
  are consumed at `//`; `\r\n` ends neither comments nor strings.
* `MCMatching.cfg` with `AcceptedNeverCrashes` for its invariants: types without constructors (pointers, floats, references, opaque types) make the
  exhaustiveness check vacuous for what contains them.
* `MCCodegenDivergent.cfg`: the generator has a case for an `if` whose branches both diverge, but asks
  for the LLVM type of the `if`, which is `never`, before it gets there: it panics.
* `MCCompilerDriverThreads.cfg`: the run thread looks for a module, not for an executable; a run
  request before clang is done ends the thread.
  A failed compilation ends the compile thread; the next click fails
  in `send(...).unwrap()`.
* `MCFrontendErrors.cfg`: a second loop parses on after an error; what it accepts is type
  checked although an error was recorded. An error of the first file is reported again for the second;
  an error without a place is printed with the place of another file. A file that cannot
  be lexed does not end the compilation at once.
* `MCLexerLines.cfg`: spans count characters, lines and slices bytes: after a two-byte character
  lines and texts of spans are wrong; and the last line of a text without a line end at its end is
  not a line.

From the modules:

* Lexer: an unknown character is skipped silently and the word around it gets a wrong span.
* Parser: the colon of a constant's type is optional, a dropped `?` (`parse.rs` 2272); in `val x: = 1` the
  type is (2250). An `extern` before anything but `fn` is swallowed (2490). Constraints on a name that is no type
  parameter are dropped (2530), and a function with constraints must have a body (`FIXME` at 2563). A
  block whose first statement is a path, `{ a::f() }`, is read as a struct (2208), as is one that starts
  with `a: T`. The list of an enum's variants takes the commas after it: an enum is only the
  last argument of a generic type. `if f (a)` is a call. An error that is recorded ends the first
  loop of `parse_module`, and the second goes on at the token of the error.
* Expressions: a prefix operator takes a whole expression (2137): `not a and b` is
  `not (a and b)`, `*p + 1` is `*(p + 1)`; `is` takes the whole operation on its left and
  nothing may follow its pattern; the type of `as` swallows `*` and `?`; a
  type hint in parentheses is replaced by one after them; the span of `a.b` is that of `a`.
* TypeDefns: mutually recursive types exhaust the compiler's stack; an alias of
  itself makes `Types::get` loop; a generic type that refers to itself, or contains a type that
  does, cannot be applied (2027 follows the reference until the stack is exhausted); a name can mean an outer type or an inner one
  depending on the order of definitions; a pending type is found by the last name of a
  path only (1929); a pending generic type is applied without its arguments (1941), and a type
  that contains one cannot be instantiated (2168);
  the number of type arguments is not checked: one too few panics (2066).
* Matching: `.Some(5)` is reported useless although it is selected; after the
  first literal arm without a score useless arms are no longer reported; `.Some` without
  a payload pattern matches no constructor, but its test succeeds; no arm but one of
  type `never` is accepted after one of type `never`; payloads are read from values of other variants
  before the test (their values are never used: `NoGarbageTested`).
* Code generation. The type checker lets `never` stand for any type; the generator
  panics (`expect_value`) where the value of such an expression is used: as an operand,
  argument, initializer or condition, `not crash()` or `f(crash())`. In `while c { return(1) }` a
  branch back follows the `return` in the same block, which LLVM rejects. When a block's
  last statement is a `while`, its value is that of the expression before the loop
  (`{ 5; while c {} }` is of type unit but generates `5`). These three and the `if` of type
  `never` are what `IsRegular` leaves out.
* Scopes. Blocks, branches and loops open no scope (`typer.rs` 5777; of `ScopeType`, `IfBody` and
  `ElseBody` are never made, `WhileBody` only by `for`): a variable declared in a branch is
  visible, and shadows an outer one of its name, after it; a use of it there is
  a load that its `alloca` does not dominate. In the modules of the run, and in `IsRegular`, a
  variable is used where its declaration comes before on every way.
* `or` evaluates both operands (`codegen_llvm.rs` 1786), while `src/test_src/bool.k1:11` says
  "Short-circuiting is guaranteed" above a test of `and` only. In the run the right operand
  of an `or` has no effects, so that this makes no difference there.
* Specialization. Specializations are found by their type arguments in the order of
  inference: with `second<A, B>(x: B, y: A)`, `second(1, true)` and then `second<int, bool>(1, true)`
  find each other's function, which is of other types. A call whose type
  argument is only determined by the call around it is rejected (`id(make())`); where a
  type variable remains, code is generated over it (`codegen_llvm.rs` 964). A constrained
  generic function cannot be called from one with the same constraint. Of two functions
  whose type parameters have each other's names, a call between them sends `check_types` in a circle.
  Arguments passed by name are taken by name in inference and by position
  otherwise. `check_types` of two different enums of no generic type is `todo!()` (2488).
  An ability is not known above its definition (`FIXME` at 6720). A function of an ability may have no parameters
  (6112), but cannot be called then (4897).
* Numbers. Unsigned integers are compared as signed ones (`codegen_llvm.rs` 1831); an
  extension repeats the sign if the type it extends to has one (1645); a shift to the right does
  so always (2074). A bool that was computed has all bits set, a literal one bit, so that
  `==` tells them apart (1914). A number on the left of an operator is an `i64`
  (`FIXME` at `typer.rs` 4319). The left operand of `==` is evaluated twice (4259, 4322). The
  intrinsic `typeId` is declared to give a bool, and generates a `u64`.
* Types. Too few type arguments index past the end (`typer.rs` 2066), too many are passed over. A recursive
  type, `never`, a variant of anything but an instance, or a generic type without arguments in
  the body of a generic type ends the compiler when that is instantiated (stack or
  `unreachable!`, 2157-2180); a variant of an instance there becomes the whole enum (2032).
  Instances inside are made again for the new arguments, so that a generic type that
  applies itself never ends. A generic definition's `alias` and `opaque` are ignored, and
  `type W[T] = P` makes a new type of a struct that `type alias W = P` is the same as.
  `_struct_combine` keeps a field both structs have twice (1785). Two functions
  of the same types share a type with the first one's parameter names: a parameter of the second
  is then rejected (`types.rs` 810, `typer.rs` 1717). Functions over a named struct, `Pointer`,
  `never` or a float are never equal (`types.rs` 765, 821). Inside a recursive
  type it is its placeholder, which has another id: `Opt[R]` in `R` and outside are two types. A
  member of the definition around, asked for in its own body, is looked up at `TypeId::PENDING`.

## What is not modelled

`PROJECT.json` gives a reason for each part. In short: the parts in the plan under
"to come"; `codegen_legacy.rs`, which no crate includes; printing
(`dump.rs`, `strings.rs`); the layout of the GUI; LLVM, clang and the operating system, of
which only success, failure and exit status appear. Of the parts that are modelled,
left out are: `for`, optional values, structs, enums, integers' operations, intrinsics and
debug information in `ControlFlow` and `Codegen`; bindings and bodies of arms in `Matching`; namespaces and companions of types, enum constructors,
methods of `as`, references, coercions, constants and intrinsics in `Specialization` (an
extern function is one with an empty body there); floating point, references and the
operators `?` and `|` in `Numbers`; all of a type but its head and leaves in `TypeDefns`, and
namespaces and builtin definitions in `TypeStore` (definitions the compiler knows are in its pool at the start); spans (which
`Expressions` has) and the wording of errors in `Parser`; the content of definitions in `Frontend`; most
keywords and punctuation in `Lexer`.
