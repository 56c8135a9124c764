--------------------------- MODULE SourceMeaning ---------------------------
(***************************************************************************)
(* What a program of ControlFlow means: the abstract specification of the  *)
(* code generated for it.  The program asks the external function ask for  *)
(* truth values, of which it gets no more than MaxAsks, and ends with the  *)
(* value of main or in a crash.                                            *)
(***************************************************************************)
EXTENDS Integers, Sequences, FiniteSets, TLC

CONSTANT
  MaxAsks    (* A bound on the answers a run of a program gets.            *)

VARIABLES
  source,    (* The functions of the program, as they were written.        *)
  asked,     (* The answers of ask so far.                                 *)
  outcome    (* "running", "crash", "stopped" for want of answers, or the  *)
             (* value main has returned.                                   *)

meaningVars == <<source, asked, outcome>>

\* How far the evaluation got ("on", "return", "crash" or "ask"), the value,
\* the number of answers used and the variables.
State(variables, used) ==
  [how |-> "on", value |-> "()", used |-> used, variables |-> variables]

\* The result of e, evaluated in s, if the answers are these.
RECURSIVE Eval(_, _, _, _)
Eval(functions, answers, e, s) ==
  LET part(i, t) == IF t.how = "on" THEN Eval(functions, answers, e.subs[i], t) ELSE t
      yields(t, value) == IF t.how = "on" THEN [t EXCEPT !.value = value] ELSE t
      \* A block ends the life of the variables declared in it.
      leaves(t) == [t EXCEPT !.variables = [x \in DOMAIN s.variables |-> t.variables[x]]]
      \* The state after i parts, and their values.
      run[i \in 0..Len(e.subs)] ==
        IF i = 0 THEN [at |-> [s EXCEPT !.value = "()"], values |-> <<>>]
        ELSE LET before == run[i - 1]
                 t == part(i, before.at)
             IN [at |-> t, values |-> Append(before.values, t.value)]
      all == run[Len(e.subs)]
      first == part(1, s)
      answer == IF all.at.used = Len(answers) THEN [all.at EXCEPT !.how = "ask"]
                ELSE [all.at EXCEPT !.value = answers[all.at.used + 1], !.used = @ + 1]
      callee == CHOOSE f \in {functions[i] : i \in DOMAIN functions} : f.name = e.name
      params == [x \in {callee.params[i].name : i \in DOMAIN callee.params} |->
                   all.values[CHOOSE i \in DOMAIN callee.params : callee.params[i].name = x]]
      body == Eval(functions, answers, callee.body[1], State(params, all.at.used))
  IN CASE e.kind \in {"unit", "bool", "int"} -> yields(s, e.name)
       [] e.kind = "variable" -> yields(s, s.variables[e.name])
       [] e.kind = "call" ->
            IF all.at.how # "on" THEN all.at
            ELSE IF e.name = "ask" THEN answer
            ELSE IF callee.body = <<>> THEN [all.at EXCEPT !.how = "crash"]
            ELSE [all.at EXCEPT !.how = IF body.how \in {"on", "return"} THEN "on" ELSE body.how,
                                !.value = body.value, !.used = body.used]
       [] e.kind = "return" -> IF first.how = "on" THEN [first EXCEPT !.how = "return"] ELSE first
       [] e.kind = "if" ->
            IF first.how # "on" THEN first
            ELSE IF Len(e.subs) = 3 THEN part(IF first.value = "true" THEN 2 ELSE 3, first)
            ELSE yields(IF first.value = "true" THEN part(2, first) ELSE first, "()")
       [] e.kind = "block" -> leaves(all.at)
       [] e.kind = "not" -> yields(first, IF first.value = "true" THEN "false" ELSE "true")
       [] e.kind = "and" -> IF first.value = "true" THEN part(2, first) ELSE first
       [] e.kind = "or" -> IF first.value = "true" THEN first ELSE part(2, first)
       [] e.kind = "while" ->
            IF first.how = "on" /\ first.value = "true"
            THEN LET t == part(2, first)
                 IN IF t.how = "on" THEN Eval(functions, answers, e, t) ELSE t
            ELSE yields(first, "()")
       [] e.kind \in {"val", "mut", "assign"} ->
            yields([first EXCEPT !.variables =
                      IF first.how = "on" THEN (e.name :> first.value) @@ @ ELSE @], "()")

Main(functions, answers) ==
  LET main == CHOOSE f \in {functions[i] : i \in DOMAIN functions} : f.name = "main"
  IN Eval(functions, answers, main.body[1], State(<<>>, 0))

-----------------------------------------------------------------------------

MeaningInit ==
  /\ asked = <<>> /\ outcome = "running"

\* The program asks.
Ask ==
  /\ outcome = "running" /\ Main(source, asked).how = "ask" /\ Len(asked) < MaxAsks
  /\ \E answer \in {"true", "false"} : asked' = Append(asked, answer)
  /\ UNCHANGED <<source, outcome>>

\* It returns from main, crashes, or finds no answer left.
End ==
  /\ outcome = "running"
  /\ LET m == Main(source, asked)
     IN \/ m.how \in {"on", "return"} /\ outcome' = m.value
        \/ m.how = "crash" /\ outcome' = "crash"
        \/ m.how = "ask" /\ Len(asked) = MaxAsks /\ outcome' = "stopped"
  /\ UNCHANGED <<source, asked>>

MeaningSpec == MeaningInit /\ [][Ask \/ End]_meaningVars /\ <>(outcome # "running")
=============================================================================
