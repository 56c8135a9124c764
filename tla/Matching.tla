------------------------------ MODULE Matching ------------------------------
(***************************************************************************)
(* when and is expressions (src/k1/typer.rs): the patterns of the arms are *)
(* evaluated against the type of the target, the types of the arms are     *)
(* unified, and unless the match is partial the arms are tried on every    *)
(* constructor of the type.  An accepted match becomes a chain of tests,   *)
(* which is then run on a value.                                           *)
(*                                                                         *)
(* Types refer to each other by their places in the pool of types, as in   *)
(* the code, and so do the patterns.  A type is of one of the kinds unit,  *)
(* bool, scalar (integers, characters and strings, which are all matched   *)
(* alike), pointer (pointers, floats, references: types without            *)
(* constructors), enum and struct.  A literal pattern holds the value it   *)
(* stands for.  Variables and wildcards are both "any".                    *)
(***************************************************************************)
EXTENDS Integers, Sequences, FiniteSets

CONSTANTS
  Scalars,   (* What a scalar can be.                                      *)
  Types,     (* The pool of types: kind, and parts, the variants and       *)
             (* fields by name; 0 for a variant without a payload.         *)
  Patterns,  (* The pool of patterns; payload 0 if there is none.          *)
  Matches    (* The match expressions: type, arms, expected, partial.      *)

LeafValues ==
  [unit |-> {"unit"}, bool |-> {"false", "true"}, scalar |-> Scalars, pointer |-> {"address"}]

Leaf(kind, is) == [kind |-> kind, is |-> is]

\* A type is added after those of its parts: it contains itself through pointers only,
\* and nothing is matched behind these.
ASSUME TypesAssumption ==
  /\ Len(Types) \in Nat /\ DOMAIN Types = 1..Len(Types)
  /\ \A t \in DOMAIN Types :
       /\ Types[t].kind \in {"unit", "bool", "scalar", "pointer", "enum", "struct"}
       /\ \A n \in DOMAIN Types[t].parts :
            Types[t].parts[n] \in (IF Types[t].kind = "enum" THEN 0 ELSE 1)..t - 1

\* A pattern is added after those inside it.  No program names all scalars, which the code
\* calls innumerable: strings and i64 always have one more, characters and u8 are taken
\* for types like these.
ASSUME PatternsAssumption ==
  /\ Len(Patterns) \in Nat /\ DOMAIN Patterns = 1..Len(Patterns)
  /\ \A i \in DOMAIN Patterns :
       LET p == Patterns[i]
       IN /\ p.kind \in {"any", "literal", "enum", "struct"}
          /\ p.kind = "literal" =>
               \E kind \in {"unit", "bool", "scalar"} : \E is \in LeafValues[kind] : p.value = Leaf(kind, is)
          /\ p.kind = "enum" => p.payload \in 0..i - 1
          /\ p.kind = "struct" => /\ DOMAIN p.fields = 1..Len(p.fields) /\ Len(p.fields) \in Nat
                                  /\ \A k \in DOMAIN p.fields : p.fields[k].pattern \in 1..i - 1
  /\ \E is \in Scalars : \A i \in DOMAIN Patterns :
       Patterns[i].kind = "literal" => Patterns[i].value # Leaf("scalar", is)

\* The last arm of a partial match is a wildcard (IsMatch).
ASSUME MatchesAssumption ==
  \A m \in Matches :
    /\ m.type \in DOMAIN Types
    /\ Len(m.arms) \in Nat /\ DOMAIN m.arms = 1..Len(m.arms)
    /\ \A k \in DOMAIN m.arms : m.arms[k].pattern \in DOMAIN Patterns
    /\ m.partial \in BOOLEAN
    /\ m.partial => m.arms # <<>> /\ Patterns[m.arms[Len(m.arms)].pattern].kind = "any"

VARIABLES
  match,     (* The expression being compiled.                             *)
  phase,     (* "arms", "check", "rejected", "accepted", "running", "done".*)
  cursor,    (* The arm being evaluated or tested.                         *)
  expected,  (* expected_arm_type_id; "none" if there is none.             *)
  reason,    (* Why the match was rejected.                                *)
  useless,   (* The arm it was rejected for as useless, 0 if for none.     *)
  value,     (* The value the match is run on.                             *)
  outcome    (* The arm selected, 0 for a "Match Error" crash, -1 for none.*)

vars == <<match, phase, cursor, expected, reason, useless, value, outcome>>

-----------------------------------------------------------------------------
(* Values and constructors.                                                  *)

Variant(tag, payload) == [kind |-> "enum", tag |-> tag, payload |-> payload]
Struct(fields) == [kind |-> "struct", fields |-> fields]
Garbage == Leaf("garbage", "")

\* What a type holds, if its leaves hold what leaves says and the types of its parts
\* what holds says.
Holds(holds, type, leaves) ==
  LET parts == type.parts
  IN CASE type.kind = "enum" ->
            UNION {IF parts[n] = 0 THEN {Variant(n, <<>>)}
                   ELSE {Variant(n, <<i>>) : i \in holds[parts[n]]} : n \in DOMAIN parts}
       [] type.kind = "struct" ->
            {Struct(f) : f \in {f \in [DOMAIN parts -> UNION {holds[parts[n]] : n \in DOMAIN parts}] :
                                 \A n \in DOMAIN parts : f[n] \in holds[parts[n]]}}
       [] OTHER -> {Leaf(type.kind, i) : i \in leaves[type.kind]}

Inhabitants(leaves) ==
  LET holds[t \in DOMAIN Types] == Holds(holds, Types[t], leaves)
  IN holds

Values == Inhabitants(LeafValues)

AllValues == UNION {Values[t] : t \in DOMAIN Types}
Readable == AllValues \cup {Garbage}

\* Fault: BoolFalse is forgotten.
Constructors_NoFalse ==
  Inhabitants([unit |-> {"unit"}, bool |-> {"true"}, scalar |-> {"placeholder"}, pointer |-> {}])

Constructors ==
  Inhabitants([unit |-> {"unit"}, bool |-> {"false", "true"}, scalar |-> {"placeholder"},
               pointer |-> {}])

AllConstructors == UNION {Constructors[t] : t \in DOMAIN Types}

-----------------------------------------------------------------------------
(* Patterns.                                                                 *)

IsInnumerableLiteral(p) == p.kind = "literal" /\ p.value.kind = "scalar"

\* eval_pattern: whether the pattern can be one for values of the type.
FitsType(fits, p, type) ==
  CASE p.kind = "any" -> TRUE
    [] p.kind = "literal" -> type.kind = p.value.kind
    [] p.kind = "enum" ->
         /\ type.kind = "enum" /\ p.tag \in DOMAIN type.parts
         /\ p.payload # 0 => type.parts[p.tag] # 0 /\ fits[p.payload][type.parts[p.tag]]
    [] p.kind = "struct" ->
         /\ p.fields # <<>> /\ type.kind = "struct"
         /\ \A k \in DOMAIN p.fields :
              /\ p.fields[k].name \in DOMAIN type.parts
              /\ fits[p.fields[k].pattern][type.parts[p.fields[k].name]]

Fits ==
  LET fits[i \in DOMAIN Patterns] ==
        [t \in DOMAIN Types |-> FitsType(fits, Patterns[i], Types[t])]
  IN fits

\* pattern_matches.  Literals of scalars match no constructor.
MatchesConstructor(matches, p, c) ==
  CASE p.kind = "any" -> TRUE
    [] p.kind = "literal" -> ~IsInnumerableLiteral(p) /\ c = p.value
    [] p.kind = "enum" ->
         /\ c.kind = "enum" /\ c.tag = p.tag
         /\ p.payload = 0 <=> c.payload = <<>>
         /\ p.payload # 0 => matches[p.payload][c.payload[1]]
    [] p.kind = "struct" ->
         /\ c.kind = "struct"
         /\ \A k \in DOMAIN p.fields :
              /\ p.fields[k].name \in DOMAIN c.fields
              /\ matches[p.fields[k].pattern][c.fields[p.fields[k].name]]

PatternMatches ==
  LET matches[i \in DOMAIN Patterns] ==
        [c \in AllConstructors |-> MatchesConstructor(matches, Patterns[i], c)]
  IN matches

\* Fault: all operands are evaluated, as those of `or` are.
Chain_Strict(results) ==
  IF \E k \in DOMAIN results : results[k] = "garbage" THEN "garbage"
  ELSE IF \A k \in DOMAIN results : results[k] = "true" THEN "true" ELSE "false"

\* What code generated for a chain of `and` computes from what its operands come to:
\* none is evaluated after the first that is not true.
Chain(results) ==
  LET stops == {k \in DOMAIN results : results[k] # "true"}
  IN IF stops = {} THEN "true" ELSE results[CHOOSE k \in stops : \A j \in stops : k <= j]

Truth(b) == IF b THEN "true" ELSE "false"

\* What is taken out of a value.  The payload of a variant it is not of is garbage,
\* and what is taken out of garbage is.
Payload(v, tag) ==
  IF v.kind = "enum" /\ v.tag = tag /\ v.payload # <<>> THEN v.payload[1] ELSE Garbage
FieldOf(v, name) ==
  IF v.kind = "struct" /\ name \in DOMAIN v.fields THEN v.fields[name] ELSE Garbage

\* What the condition of eval_match_arm for a pattern comes to on a value.  The
\* statements before the conditions take payloads of variants the value may not be of:
\* a test of these could come out either way.
ConditionOn(condition, p, v) ==
  CASE p.kind = "any" -> "true"
    [] p.kind = "literal" ->
         IF p.value.kind = "unit" THEN "true"
         ELSE IF v = Garbage THEN "garbage" ELSE Truth(v = p.value)
    [] p.kind = "enum" ->
         LET isVariant == IF v.kind # "enum" THEN "garbage" ELSE Truth(v.tag = p.tag)
         IN IF p.payload = 0 THEN isVariant
            ELSE Chain(<<isVariant, condition[p.payload][Payload(v, p.tag)]>>)
    [] p.kind = "struct" ->
         Chain([k \in DOMAIN p.fields |->
                  condition[p.fields[k].pattern][FieldOf(v, p.fields[k].name)]])

Condition ==
  LET condition[i \in DOMAIN Patterns] ==
        [v \in Readable |-> ConditionOn(condition, Patterns[i], v)]
  IN condition

-----------------------------------------------------------------------------
(* Compiling a match.                                                        *)

Arms == 1..Len(match.arms)
Pattern(k) == match.arms[k].pattern

\* `t is p`, and `if t is p` with its branches of types cons and alt: a match of
\* p and a wildcard, added to the pool, that is not checked for exhaustiveness.
IsMatch(t, p, wildcard, cons, alt) ==
  [type |-> t, expected |-> "none", partial |-> TRUE,
   arms |-> <<[pattern |-> p, type |-> cons], [pattern |-> wildcard, type |-> alt]>>]

Init ==
  /\ match \in Matches
  /\ phase = "arms"
  /\ cursor = 1
  /\ expected = match.expected
  /\ reason = "none"
  /\ useless = 0
  /\ value = Garbage
  /\ outcome = -1

Reject(why, arm) ==
  /\ phase' = "rejected"
  /\ reason' = why
  /\ useless' = arm
  /\ UNCHANGED <<match, cursor, expected, value, outcome>>

NoArms == phase = "arms" /\ match.arms = <<>> /\ Reject("no arms", 0)

\* The type of the arm is checked against the one before, or the one expected of
\* the match; never agrees with any, but no other type agrees with never.
EvalArm ==
  /\ phase = "arms" /\ cursor \in Arms
  /\ LET type == match.arms[cursor].type
     IN CASE ~Fits[Pattern(cursor)][match.type] -> Reject("pattern", 0)
          [] /\ Fits[Pattern(cursor)][match.type]
             /\ expected # "none" /\ type # "never" /\ type # expected -> Reject("types", 0)
          [] OTHER ->
               /\ expected' = type
               /\ cursor' = cursor + 1
               /\ UNCHANGED <<match, phase, reason, useless, value, outcome>>

EndArms ==
  /\ phase = "arms" /\ match.arms # <<>> /\ cursor = Len(match.arms) + 1
  /\ phase' = IF match.partial THEN "accepted" ELSE "check"
  /\ UNCHANGED <<match, cursor, expected, reason, useless, value, outcome>>

\* Fault: the trial does not stop at the first arm that matches.
Scores_AllMatching ==
  [k \in Arms |-> {c \in Constructors[match.type] : PatternMatches[Pattern(k)][c]}]

\* The constructors each arm is the first to match.
Scores ==
  [k \in Arms |-> {c \in Constructors[match.type] :
                     /\ PatternMatches[Pattern(k)][c]
                     /\ \A j \in 1..k - 1 : ~PatternMatches[Pattern(j)][c]}]

\* The first arm without a score, unless it is a literal of a scalar.
FirstUseless(scores) ==
  LET zero == {k \in Arms : scores[k] = {}}
  IN {k \in zero : (\A j \in zero : k <= j) /\ ~IsInnumerableLiteral(Patterns[Pattern(k)])}

\* The exhaustiveness check.
Check ==
  /\ phase = "check"
  /\ LET scores == Scores
         alive == Constructors[match.type] \ UNION {scores[k] : k \in Arms}
     IN CASE alive # {} -> Reject("unhandled", 0)
          [] alive = {} /\ FirstUseless(scores) # {} ->
               \E k \in FirstUseless(scores) : Reject("useless", k)
          [] OTHER ->
               /\ phase' = "accepted"
               /\ UNCHANGED <<match, cursor, expected, reason, useless, value, outcome>>

-----------------------------------------------------------------------------
(* Running a match: the chain of chain_match_cases.                          *)

Run ==
  /\ phase = "accepted"
  /\ \E v \in Values[match.type] : value' = v
  /\ phase' = "running"
  /\ cursor' = 1
  /\ UNCHANGED <<match, expected, reason, useless, outcome>>

Select(arm) ==
  /\ outcome' = arm
  /\ phase' = "done"
  /\ UNCHANGED <<match, cursor, expected, reason, useless, value>>

NextArm ==
  /\ cursor' = cursor + 1
  /\ UNCHANGED <<match, phase, expected, reason, useless, value, outcome>>

\* Fault: the branches of a test are swapped.
TestArm_Swapped ==
  /\ phase = "running" /\ cursor \in Arms
  /\ \/ Condition[Pattern(cursor)][value] \in {"false", "garbage"} /\ Select(cursor)
     \/ Condition[Pattern(cursor)][value] \in {"true", "garbage"} /\ NextArm

TestArm ==
  /\ phase = "running" /\ cursor \in Arms
  /\ \/ Condition[Pattern(cursor)][value] \in {"true", "garbage"} /\ Select(cursor)
     \/ Condition[Pattern(cursor)][value] \in {"false", "garbage"} /\ NextArm

MatchError == phase = "running" /\ cursor = Len(match.arms) + 1 /\ Select(0)

Finished == phase \in {"rejected", "done"} /\ UNCHANGED vars

Work == NoArms \/ EvalArm \/ EndArms \/ Check \/ Run \/ TestArm \/ MatchError

Next == Work \/ Finished

Spec == Init /\ [][Next]_vars
-----------------------------------------------------------------------------
(* Properties.                                                               *)

\* The types of the variables; the outcome is an arm of the match or the crash.
TypeOK ==
  /\ match \in Matches
  /\ phase \in {"arms", "check", "rejected", "accepted", "running", "done"}
  /\ cursor \in 1..Len(match.arms) + 1
  /\ expected \in {match.expected} \cup {match.arms[k].type : k \in Arms}
  /\ reason \in {"none", "no arms", "pattern", "types", "unhandled", "useless"}
  /\ useless \in {0} \cup Arms
  /\ value \in {Garbage} \cup Values[match.type]
  /\ outcome \in {-1, 0} \cup Arms

\* Whether a pattern describes a value, as the language has it: an enum pattern those
\* of its variant with a payload its own pattern describes, a struct pattern those
\* whose named fields it does.
DescribesValue(describes, p, v) ==
  CASE p.kind = "any" -> TRUE
    [] p.kind = "literal" -> v = p.value
    [] p.kind = "enum" ->
         /\ v.kind = "enum" /\ v.tag = p.tag
         /\ p.payload # 0 => v.payload # <<>> /\ describes[p.payload][v.payload[1]]
    [] p.kind = "struct" ->
         /\ v.kind = "struct"
         /\ \A k \in DOMAIN p.fields :
              /\ p.fields[k].name \in DOMAIN v.fields
              /\ describes[p.fields[k].pattern][v.fields[p.fields[k].name]]

Describes ==
  LET describes[i \in DOMAIN Patterns] ==
        [v \in AllValues |-> DescribesValue(describes, Patterns[i], v)]
  IN describes

Handles(k, v) == Describes[Pattern(k)][v]

\* A compiled match selects the first arm whose pattern describes the value, and
\* crashes if there is none.
FirstMatchSelected ==
  phase = "done" =>
    outcome = IF \E k \in Arms : Handles(k, value)
              THEN CHOOSE k \in Arms : Handles(k, value) /\ \A j \in 1..k - 1 : ~Handles(j, value)
              ELSE 0

\* No test ever depends on a payload taken from a value of another variant: `and`
\* does not evaluate its right operand if the left one is false.
NoGarbageTested ==
  phase = "running" /\ cursor \in Arms => Condition[Pattern(cursor)][value] # "garbage"

\* Whether all constructors of each type are known.
AnalysedType(analysed, type) ==
  /\ type.kind # "pointer"
  /\ \A n \in DOMAIN type.parts : type.parts[n] # 0 => analysed[type.parts[n]]

Analysed ==
  LET analysed[t \in DOMAIN Types] == AnalysedType(analysed, Types[t])
  IN analysed

\* An accepted match on such a type never ends in "Match Error".
AnalysedNeverCrashes == outcome = 0 => ~Analysed[match.type]

\* No accepted match ever ends in "Match Error".
AcceptedNeverCrashes == outcome # 0

\* Whether a pattern, as one for a type, has a pattern for every payload and no literals
\* of the excluded kinds.
CompleteFor(complete, excluded, p, type) ==
  /\ p.kind = "literal" => p.value.kind \notin excluded
  /\ p.kind = "enum" /\ type.parts[p.tag] # 0 =>
       p.payload # 0 /\ complete[p.payload][type.parts[p.tag]]
  /\ p.kind = "struct" =>
       \A k \in DOMAIN p.fields : complete[p.fields[k].pattern][type.parts[p.fields[k].name]]

Complete(excluded) ==
  LET complete[i \in DOMAIN Patterns] ==
        [t \in DOMAIN Types |-> CompleteFor(complete, excluded, Patterns[i], Types[t])]
  IN complete

PayloadsNamed == Complete({})
Plain == Complete({"scalar"})

\* What a match is rejected for is so.  For an unhandled pattern there is a value
\* no arm describes, provided that the arms have patterns for all payloads; an arm
\* without literals of scalars that is reported as useless describes no value that
\* the arms before it leave to it.
RejectionsJustified ==
  /\ reason = "unhandled" /\ (\A k \in Arms : PayloadsNamed[Pattern(k)][match.type]) =>
       \E v \in Values[match.type] : \A k \in Arms : ~Handles(k, v)
  /\ reason = "useless" /\ Analysed[match.type] /\ Plain[Pattern(useless)][match.type] =>
       \A v \in Values[match.type] : Handles(useless, v) => \E j \in 1..useless - 1 : Handles(j, v)

\* In an accepted match without literals of scalars, every arm is selected for
\* some value.
AcceptedArmsReachable ==
  /\ phase = "accepted" /\ ~match.partial
  /\ \A k \in Arms : Plain[Pattern(k)][match.type]
  => \A k \in Arms : \E v \in Values[match.type] :
       Handles(k, v) /\ \A j \in 1..k - 1 : ~Handles(j, v)
=============================================================================
