------------------------------ MODULE Frontend ------------------------------
(***************************************************************************)
(* compile_module up to the type checker: the files are lexed and parsed   *)
(* one after the other into one ParsedModule, errors are collected, and    *)
(* the type checker runs if there are none.                                *)
(*                                                                         *)
(* A file is a sequence of the tokens that parse_definition tells apart:   *)
(*   "def"    a complete definition that parses                            *)
(*   "const"  a constant definition without its semicolon                  *)
(*   "semi"   a semicolon                                                  *)
(*   "ns"     `namespace name {`                                           *)
(*   "close"  the brace that closes it                                     *)
(*   "bad"    the start of a definition whose next token is an error       *)
(* or the one-element sequence "lexerr" if the lexer fails.                *)
(***************************************************************************)
EXTENDS Integers, Sequences, FiniteSets

CONSTANT
  Modules   (* The modules to compile: sequences of files, core first.     *)

TokenKinds == {"def", "const", "semi", "ns", "close", "bad", "lexerr"}

ASSUME FrontendAssumption == Modules \subseteq Seq(Seq(TokenKinds))

VARIABLES
  files,    (* The files of this compilation.                              *)
  file,     (* The one being parsed; Len(files) + 1 when all are.          *)
  phase,    (* "lex", the first or "second" loop of parse_module, "end".   *)
  cursor,   (* TokenIter.cursor, from 1.                                   *)
  levels,   (* The definitions of the open definition lists: new_definitions*)
            (* of parse_module, then one per parse_namespace call.         *)
  opened,   (* The namespaces being parsed, outermost first.               *)
  placed,   (* Definition lists of the module: pairs of definition, parent.*)
  errors,   (* ParsedModule.errors: tokens the errors are at.              *)
  reports,  (* parse_errors: the file compile_module was parsing, the token.*)
  result    (* "run", "typing", "failed".                                  *)

vars == <<files, file, phase, cursor, levels, opened, placed, errors, reports, result>>

-----------------------------------------------------------------------------
Root == <<0, 0>>
Tokens == files[file]
Peek == IF cursor <= Len(Tokens) THEN Tokens[cursor] ELSE "eof"

\* A token is named by its file and place; EOF_TOKEN has no span of its own, and
\* its SpanId is that of the start of the first file.
NoSpan == <<1, 1>>
At(c) == IF c <= Len(Tokens) THEN <<file, c>> ELSE NoSpan

Starts == {"def", "const", "ns", "bad"}

Push(seq, x) == Append(seq, x)
Pop(seq) == SubSeq(seq, 1, Len(seq) - 1)
Last(seq) == seq[Len(seq)]

\* parse_definition returned the definition that starts at c.
Collect(lvls, c) == [lvls EXCEPT ![Len(lvls)] = Append(@, <<file, c>>)]

Place(list, parent) == {<<list[i], parent>> : i \in 1..Len(list)}

Init ==
  /\ files \in Modules
  /\ file = 1
  /\ phase = "lex"
  /\ cursor = 1
  /\ levels = <<<<>>>>
  /\ opened = <<>>
  /\ placed = {}
  /\ errors = <<>>
  /\ reports = <<>>
  /\ result = "run"

-----------------------------------------------------------------------------
(* The loop of compile_module.                                               *)

NextFile ==
  /\ file' = file + 1
  /\ phase' = "lex"
  /\ cursor' = 1
  /\ levels' = <<<<>>>>
  /\ opened' = <<>>

Report(token) == reports' = Append(reports, [during |-> file, at |-> token])

\* Fault: a file that cannot be lexed is passed over.
LexFails_Unreported ==
  /\ result = "run" /\ file <= Len(files) /\ phase = "lex"
  /\ Tokens = <<"lexerr">>
  /\ NextFile
  /\ UNCHANGED <<files, placed, errors, reports, result>>

\* lex_text fails: the error carries EOF_TOKEN; the source is already inserted,
\* and the loop goes on with the next file.
LexFails ==
  /\ result = "run" /\ file <= Len(files) /\ phase = "lex"
  /\ Tokens = <<"lexerr">>
  /\ Report(NoSpan)
  /\ NextFile
  /\ UNCHANGED <<files, placed, errors, result>>

LexSucceeds ==
  /\ result = "run" /\ file <= Len(files) /\ phase = "lex"
  /\ Tokens # <<"lexerr">>
  /\ phase' = "first"
  /\ UNCHANGED <<files, file, cursor, levels, opened, placed, errors, reports, result>>

Typecheck ==
  /\ result = "run" /\ file > Len(files)
  /\ result' = IF reports = <<>> THEN "typing" ELSE "failed"
  /\ UNCHANGED <<files, file, phase, cursor, levels, opened, placed, errors, reports>>

-----------------------------------------------------------------------------
(* parse_definition, called from either loop of parse_module or from a       *)
(* parse_namespace in progress.                                              *)

Parsing == result = "run" /\ phase \in {"first", "second"}

Definition ==
  /\ Parsing
  /\ \/ Peek = "def" /\ cursor' = cursor + 1
     \/ /\ Peek = "const" /\ cursor < Len(Tokens) /\ Tokens[cursor + 1] = "semi"
        /\ cursor' = cursor + 2
  /\ levels' = Collect(levels, cursor)
  /\ UNCHANGED <<files, file, phase, opened, placed, errors, reports, result>>

OpenNamespace ==
  /\ Parsing
  /\ Peek = "ns"
  /\ opened' = Push(opened, <<file, cursor>>)
  /\ levels' = Push(levels, <<>>)
  /\ cursor' = cursor + 1
  /\ UNCHANGED <<files, file, phase, placed, errors, reports, result>>

\* Fault: the definitions of a nested namespace go to the outermost open one.
CloseNamespace_Outermost ==
  /\ Parsing
  /\ opened # <<>> /\ Peek = "close"
  /\ placed' = placed \cup Place(Last(levels), opened[1])
  /\ levels' = Collect(Pop(levels), Last(opened)[2])
  /\ opened' = Pop(opened)
  /\ cursor' = cursor + 1
  /\ UNCHANGED <<files, file, phase, errors, reports, result>>

CloseNamespace ==
  /\ Parsing
  /\ opened # <<>> /\ Peek = "close"
  /\ placed' = placed \cup Place(Last(levels), Last(opened))
  /\ levels' = Collect(Pop(levels), Last(opened)[2])
  /\ opened' = Pop(opened)
  /\ cursor' = cursor + 1
  /\ UNCHANGED <<files, file, phase, errors, reports, result>>

\* An error at token c unwinds every call up to parse_module.  Its first loop
\* records the error and breaks, the definitions so far stay in new_definitions;
\* its second loop returns the error.
ErrorAt(c) ==
  /\ UNCHANGED <<files, placed, result>>
  /\ \/ /\ phase = "first"
        /\ phase' = "second"
        /\ errors' = Append(errors, At(c))
        /\ levels' = <<levels[1]>>
        /\ opened' = <<>>
        /\ cursor' = c
        /\ UNCHANGED <<file, reports>>
     \/ /\ phase = "second"
        /\ Report(At(c))
        /\ NextFile
        /\ UNCHANGED errors

MissingSemicolon ==
  /\ Parsing
  /\ Peek = "const"
  /\ cursor < Len(Tokens) => Tokens[cursor + 1] # "semi"
  /\ ErrorAt(cursor + 1)

BrokenDefinition == Parsing /\ Peek = "bad" /\ ErrorAt(cursor + 1)

UnclosedNamespace ==
  /\ Parsing
  /\ opened # <<>> /\ Peek \notin Starts \cup {"close"}
  /\ ErrorAt(cursor)

\* Fault: the second loop resumes the first.
NoDefinition_Resumes ==
  /\ Parsing
  /\ opened = <<>> /\ Peek \notin Starts
  /\ phase' = IF phase = "second" THEN "first" ELSE IF errors = <<>> THEN "end" ELSE "second"
  /\ UNCHANGED <<files, file, cursor, levels, opened, placed, errors, reports, result>>

\* No definition starts here: the first loop ends, and the second after it.
NoDefinition ==
  /\ Parsing
  /\ opened = <<>> /\ Peek \notin Starts
  /\ phase' = IF phase = "first" THEN "second" ELSE "end"
  /\ UNCHANGED <<files, file, cursor, levels, opened, placed, errors, reports, result>>

-----------------------------------------------------------------------------
(* The end of parse_module.                                                  *)

TrailingToken ==
  /\ result = "run" /\ phase = "end"
  /\ Peek # "eof"
  /\ \/ /\ errors = <<>>
        /\ errors' = Append(errors, At(cursor))
        /\ Report(At(cursor))
     \/ /\ errors # <<>>
        /\ Report(Last(errors))
        /\ UNCHANGED errors
  /\ NextFile
  /\ UNCHANGED <<files, placed, result>>

ExtendRoot ==
  /\ result = "run" /\ phase = "end"
  /\ Peek = "eof"
  /\ placed' = placed \cup Place(levels[1], Root)
  /\ NextFile
  /\ UNCHANGED <<files, errors, reports, result>>

Finished == result # "run" /\ UNCHANGED vars

Work ==
  \/ LexFails \/ LexSucceeds \/ Typecheck
  \/ Definition \/ OpenNamespace \/ CloseNamespace
  \/ MissingSemicolon \/ BrokenDefinition \/ UnclosedNamespace \/ NoDefinition
  \/ TrailingToken \/ ExtendRoot

Next == Work \/ Finished

Spec == Init /\ [][Next]_vars

\* The front end is one thread that runs until it is done.
FairSpec == Spec /\ WF_vars(Work)
-----------------------------------------------------------------------------
(* Properties.                                                               *)

Positions == Nat \X Nat

TypeOK ==
  /\ files \in Seq(Seq(TokenKinds))
  /\ file \in 1..Len(files) + 1
  /\ phase \in {"lex", "first", "second", "end"}
  /\ cursor \in Nat \ {0}
  /\ levels \in Seq(Seq(Positions)) /\ Len(levels) = Len(opened) + 1
  /\ opened \in Seq(Positions)
  /\ placed \subseteq Positions \X Positions
  /\ errors \in Seq(Positions)
  /\ reports \in Seq([during : Nat, at : Positions])
  /\ result \in {"run", "typing", "failed"}

\* The grammar of a file, without the parser.
Count(s, kind, n) == Cardinality({i \in 1..n : s[i] = kind})
Depth(s, i) == Count(s, "ns", i - 1) - Count(s, "close", i - 1)

WellFormed(s) ==
  /\ \A i \in 1..Len(s) :
       /\ s[i] \notin {"bad", "lexerr"}
       /\ s[i] = "const" => i < Len(s) /\ s[i + 1] = "semi"
       /\ s[i] = "semi" => i > 1 /\ s[i - 1] = "const"
  /\ \A i \in 1..Len(s) + 1 : Depth(s, i) >= 0
  /\ Depth(s, Len(s) + 1) = 0

Parent(f, i) ==
  LET s == files[f]
      enclosing == {j \in 1..i - 1 : s[j] = "ns" /\ Depth(s, j) = Depth(s, i) - 1}
  IN IF Depth(s, i) = 0 THEN Root
     ELSE <<f, CHOOSE j \in enclosing : \A k \in enclosing : k <= j>>

Definitions ==
  UNION {{<<<<f, i>>, Parent(f, i)>> :
            i \in {i \in 1..Len(files[f]) : files[f][i] \in {"def", "const", "ns"}}}
         : f \in 1..Len(files)}

Malformed == {f \in 1..Len(files) : ~WellFormed(files[f])}

\* A module of well-formed files is type checked, with every definition of every
\* file in the namespace it is written in.
DefinitionsInTheirScope ==
  result # "run" /\ Malformed = {} => result = "typing" /\ placed = Definitions

\* Every malformed file parsed so far has left an error, and only those have.
MalformedFilesLeaveATrace ==
  LET parsed == {f \in Malformed : f < file}
  IN /\ Cardinality(parsed) <= Len(errors) + Len(reports)
     /\ parsed = {} /\ phase = "lex" => errors = <<>> /\ reports = <<>>

\* The front end comes to a result whatever the files hold.
FrontendEnds == <>(result # "run")

\* Only modules whose files are all well formed are type checked.
AcceptedIsWellFormed == result = "typing" => Malformed = {}

\* An error is reported at a place in the file it was found in.
ErrorsNameTheirFile == \A r \in 1..Len(reports) : reports[r].at[1] = reports[r].during

\* The first file that cannot be lexed ends the compilation.
LexFailureEndsTheCompilation ==
  \A r \in 1..Len(reports) :
    files[reports[r].during] = <<"lexerr">> => file <= reports[r].during + 1 /\ phase = "lex"
=============================================================================
