------------------------------ MODULE TypeDefns ------------------------------
(***************************************************************************)
(* The first three phases of TypedModule::run (src/k1/typer.rs):           *)
(* namespaces are created, type definitions are entered as pending, and    *)
(* every pending definition is evaluated, those it refers to on the way.   *)
(*                                                                         *)
(* A program is the sequence of its namespaces and type definitions in the *)
(* order of the text; the phases all walk it in that order.  The scope of  *)
(* a definition is the item number of its namespace, 0 for the root.       *)
(* A definition's value is either a struct or enum ("record") or a type    *)
(* expression that stands for itself ("alias"): the first of its           *)
(* references, or a builtin type if it has none.  All that matters of a    *)
(* value is the sequence of the named types in it, in the order of their   *)
(* evaluation; the args references after a type application are those in   *)
(* its arguments, each of which is a named type, applied itself or not.    *)
(*                                                                         *)
(* Of the type a reference is evaluated to the module keeps what the       *)
(* instantiation of generic types tells apart: its head, and the leaves    *)
(* instantiate_generic_type_subst meets when it walks the type.            *)
(***************************************************************************)
EXTENDS Integers, Sequences, FiniteSets

CONSTANTS
  Programs,  (* The programs to check.                                     *)
  Names,     (* Identifiers, "_root" among them.                           *)
  MaxStack   (* How deep eval_type_defn can recurse.                       *)

Refs == [path : Seq(Names), name : Names, args : Nat]
Item ==
  [kind : {"ns"}, name : Names, scope : Nat]
    \cup [kind : {"type"}, name : Names, scope : Nat, params : Seq(Names),
          value : {"record", "alias"}, refs : Seq(Refs)]

\* The arguments of an argument are arguments too.
WellNested(refs) ==
  \A k \in 1..Len(refs) : /\ k + refs[k].args <= Len(refs)
                         /\ \A m \in k + 1..k + refs[k].args :
                              m + refs[m].args <= k + refs[k].args

ASSUME TypeDefnsAssumption ==
  /\ MaxStack \in Nat \ {0}
  /\ "_root" \in Names
  /\ \A p \in Programs :
       /\ p \in Seq(Item)
       /\ \A i \in 1..Len(p) : p[i].scope < i /\ (p[i].kind = "type" => WellNested(p[i].refs))

VARIABLES
  program,    (* The program being compiled.                               *)
  phase,      (* "ns", "defn", "eval"; "done", "failed", "panic" if        *)
              (* definitions are left, "crashed" if an instantiation       *)
              (* panics, "overflow" if the stack is exhausted.             *)
  cursor,     (* The item the phase is at.                                 *)
  spaces,     (* Scope.namespaces of all scopes; 0 is the root.            *)
  pending,    (* Scope.pending_type_defns of all scopes.                   *)
  mapping,    (* Types.type_defn_mapping and Scope.types of all scopes.    *)
  stack,      (* The calls of eval_type_defn: item, reference to evaluate. *)
  resolved,   (* What the references evaluated so far came to.             *)
  types,      (* The types the references have been evaluated to.          *)
  companions  (* Namespaces with their companion types.                    *)

vars == <<program, phase, cursor, spaces, pending, mapping, stack, resolved, types, companions>>

-----------------------------------------------------------------------------
Items == 1..Len(program)
TypeItems == {i \in Items : program[i].kind = "type"}
Name(i) == IF i = 0 THEN "_root" ELSE program[i].name
Scope(i) == IF i = 0 THEN 0 ELSE program[i].scope

\* The references in the arguments of a definition's reference, and the arguments.
Within(i, k) == k + 1..k + program[i].refs[k].args
ArgsOf(i, k) == {m \in Within(i, k) : \A n \in Within(i, k) : m \notin Within(i, n)}

\* The references of a definition that are not in the arguments of another.
Arguments(i) == UNION {Within(i, k) : k \in 1..Len(program[i].refs)}
Own(i) == (1..Len(program[i].refs)) \ Arguments(i)

\* The type parameters of a name; the references that are one.
ParamsNamed(i, n) == {m \in 1..Len(program[i].params) : program[i].params[m] = n}
Param(i, k) ==
  program[i].refs[k].path = <<>> /\ ParamsNamed(i, program[i].refs[k].name) # {}

\* The scope and its ancestors.
Enclosing(s) ==
  LET above[t \in 0..Len(program)] == IF t = 0 THEN {} ELSE {Scope(t)} \cup above[Scope(t)]
  IN {s} \cup above[s]

\* The entry of one scope's map; a map has at most one for a name.
In(map, s, n) == {i \in map : Scope(i) = s /\ Name(i) = n}

\* The entry of the nearest enclosing scope that has one.
Nearest(map, s, n) ==
  LET hits == {i \in map : Name(i) = n /\ Scope(i) \in Enclosing(s)}
  IN {i \in hits : \A j \in hits : Scope(j) \in Enclosing(Scope(i))}

\* traverse_namespace_chain: the first name is looked for in all enclosing
\* scopes, the others each in the namespace before.
Traverse(s, path) ==
  LET space[k \in 1..Len(path)] ==
        IF k = 1 THEN Nearest(spaces, s, path[1])
        ELSE UNION {In(spaces, t, path[k]) : t \in space[k - 1]}
  IN space[Len(path)]

Init ==
  /\ program \in Programs
  /\ phase = "ns"
  /\ cursor = 1
  /\ spaces = {0}
  /\ pending = {}
  /\ mapping = {}
  /\ stack = <<>>
  /\ resolved = {}
  /\ types = {}
  /\ companions = {}

Fail ==
  /\ phase' = "failed"
  /\ UNCHANGED <<program, cursor, spaces, pending, mapping, stack, resolved, types, companions>>

-----------------------------------------------------------------------------
(* The namespace phase and the type definition phase.                        *)

CreateNamespace ==
  /\ phase = "ns" /\ cursor \in Items /\ program[cursor].kind = "ns"
  /\ IF In(spaces, Scope(cursor), Name(cursor)) # {} THEN Fail
     ELSE /\ spaces' = spaces \cup {cursor}
          /\ cursor' = cursor + 1
          /\ UNCHANGED <<program, phase, pending, mapping, stack, resolved, types, companions>>

AddPending ==
  /\ phase = "defn" /\ cursor \in Items /\ program[cursor].kind = "type"
  /\ IF In(pending, Scope(cursor), Name(cursor)) # {} THEN Fail
     ELSE /\ pending' = pending \cup {cursor}
          /\ cursor' = cursor + 1
          /\ UNCHANGED <<program, phase, spaces, mapping, stack, resolved, types, companions>>

\* A phase does nothing at items of the other kind, nor the third at types that
\* have been evaluated already.
PassOver ==
  /\ cursor \in Items /\ stack = <<>>
  /\ \/ phase = "ns" /\ program[cursor].kind = "type"
     \/ phase = "defn" /\ program[cursor].kind = "ns"
     \/ phase = "eval" /\ (program[cursor].kind = "type" => cursor \in mapping)
  /\ cursor' = cursor + 1
  /\ UNCHANGED <<program, phase, spaces, pending, mapping, stack, resolved, types, companions>>

\* After the third phase no definition may be pending.
EndPhase ==
  /\ phase \in {"ns", "defn", "eval"} /\ cursor = Len(program) + 1
  /\ phase' = CASE phase = "ns" -> "defn"
                [] phase = "defn" -> "eval"
                [] phase = "eval" -> IF pending = {} THEN "done" ELSE "panic"
  /\ cursor' = 1
  /\ UNCHANGED <<program, spaces, pending, mapping, stack, resolved, types, companions>>

-----------------------------------------------------------------------------
(* The type evaluation phase: eval_type_defn.                                *)

Distinct(seq) == \A i, j \in 1..Len(seq) : i # j => seq[i] # seq[j]

\* A call for an item that is not in the mapping.
Call(i) ==
  CASE Len(stack) = MaxStack ->
         /\ phase' = "overflow"
         /\ UNCHANGED <<program, cursor, spaces, pending, mapping, stack, resolved, types, companions>>
    [] Len(stack) < MaxStack /\ ~Distinct(program[i].params) -> Fail
    [] OTHER ->
         /\ stack' = Append(stack, [item |-> i, next |-> 1])
         /\ UNCHANGED <<program, phase, cursor, spaces, pending, mapping, resolved, types, companions>>

EvalTop ==
  /\ phase = "eval" /\ stack = <<>>
  /\ cursor \in Items /\ program[cursor].kind = "type" /\ cursor \notin mapping
  /\ Call(cursor)

Evaluating == phase = "eval" /\ stack # <<>>

Top == stack[Len(stack)]
Current == Top.item
Ref == program[Current].refs[Top.next]

\* The callers' frames with the top one moved on by n references.
Advance(frames, n) ==
  [frames EXCEPT ![Len(frames)] = [item |-> @.item, next |-> @.next + n]]

-----------------------------------------------------------------------------
(* Types, as far as instantiate_generic_type_subst tells them apart.  A leaf *)
(* of the walk is the definition's type parameter of a number, the place of  *)
(* a RecursiveReference, which get() follows into the definition it is in,   *)
(* or a generic type that has not been applied.                              *)

Leaves == ({"param"} \X Nat) \cup ({"self", "generic"} \X TypeItems)
Types == [head : {"leaf", "builtin", "record", "instance"}, meets : SUBSET Leaves]

Leaf(kind, n) == [head |-> "leaf", meets |-> {<<kind, n>>}]

\* The type of a reference that has been evaluated, none of one that has not, and
\* what the walk of the types of several references meets.
TypeAt(i, k) == {y.type : y \in {y \in types : y.item = i /\ y.ref = k}}
Met(i, ks) == UNION {y.type.meets : y \in {y \in types : y.item = i /\ y.ref \in ks}}

\* The type a definition's value comes to: GenericType.inner of a generic type.
Inner(i) ==
  CASE program[i].value = "record" -> {[head |-> "record", meets |-> Met(i, Own(i))]}
    [] program[i].value = "alias" /\ program[i].refs # <<>> -> TypeAt(i, 1)
    [] OTHER -> {[head |-> "builtin", meets |-> {}]}

\* The type that eval_type_defn returns.
Defined(i) == IF program[i].params # <<>> THEN {Leaf("generic", i)} ELSE Inner(i)

Typed(frame, ts) == types \cup {[item |-> frame.item, ref |-> frame.next, type |-> t] : t \in ts}

Comes(frame, target, applied) ==
  resolved \cup {[item |-> frame.item, ref |-> frame.next, to |-> target, applied |-> applied]}

\* A type parameter of the definition: find_type starts at the scope of these.
IsParam == Param(Current, Top.next)

\* Fault: an unqualified name finds types of all scopes.
Found_Everywhere ==
  IF Ref.path = <<>> THEN {t \in mapping : Name(t) = Ref.name}
  ELSE UNION {In(mapping, s, Ref.name) : s \in Traverse(Scope(Current), Ref.path)}

\* find_type_namespaced: by a name alone in the enclosing scopes, by a path in
\* the namespace it leads to.
Found ==
  IF Ref.path = <<>> THEN Nearest(mapping, Scope(Current), Ref.name)
  ELSE UNION {In(mapping, s, Ref.name) : s \in Traverse(Scope(Current), Ref.path)}

\* The generic types a definition stands for: itself, or what it is an alias of.
Generics(t) == {g \in TypeItems : Leaf("generic", g) \in Defined(t)}

\* The arguments of these applications have been evaluated.
Due ==
  {k \in 1..Top.next - 1 :
     /\ \E r \in resolved : r.item = Current /\ r.ref = k /\ r.applied
     /\ k + program[Current].refs[k].args < Top.next
     /\ TypeAt(Current, k) = {}}

HasRef == Evaluating /\ Due = {} /\ Top.next <= Len(program[Current].refs)
NoSuchNamespace == HasRef /\ Ref.path # <<>> /\ Traverse(Scope(Current), Ref.path) = {} /\ Fail

\* A type parameter stands for 0 in resolved.
RefToParam ==
  /\ HasRef /\ IsParam
  /\ IF Ref.args > 0 THEN Fail
     ELSE /\ resolved' = Comes(Top, 0, FALSE)
          /\ types' = Typed(Top, {Leaf("param", n) : n \in ParamsNamed(Current, Ref.name)})
          /\ stack' = Advance(stack, 1)
          /\ UNCHANGED <<program, phase, cursor, spaces, pending, mapping, companions>>

\* The arguments are the references that follow and are evaluated next.
RefToType ==
  /\ HasRef /\ ~IsParam
  /\ \E t \in Found :
       IF Ref.args > 0 /\ Generics(t) = {} THEN Fail
       ELSE /\ resolved' = Comes(Top, t, Ref.args > 0)
            /\ types' = IF Ref.args > 0 THEN types ELSE Typed(Top, Defined(t))
            /\ stack' = Advance(stack, 1)
            /\ UNCHANGED <<program, phase, cursor, spaces, pending, mapping, companions>>

Undefined ==
  /\ HasRef /\ ~IsParam /\ Found = {}
  /\ Ref.path # <<>> => Traverse(Scope(Current), Ref.path) # {}

\* instantiate_generic_type_subst does not end if it comes to a RecursiveReference,
\* and panics at a generic type and at a parameter that no argument is for.
Endless(inner) == \E leaf \in inner.meets : leaf[1] = "self"

\* Fault: the last argument is out of bounds.
Unreachable_Last(inner, passed) ==
  \E leaf \in inner.meets : leaf[1] = "generic" \/ (leaf[1] = "param" /\ leaf[2] >= passed)

Unreachable(inner, passed) ==
  \E leaf \in inner.meets : leaf[1] = "generic" \/ (leaf[1] = "param" /\ leaf[2] > passed)

\* The type of the current definition's n-th argument of its reference k.
Passed(k, n) ==
  UNION {TypeAt(Current, m) : m \in {m \in ArgsOf(Current, k) :
                                       Cardinality({a \in ArgsOf(Current, k) : a <= m}) = n}}

\* The inner type with the arguments of reference k for its parameters.  A struct
\* or enum becomes an instance, whose arguments are walked in its stead; what was
\* an instance before is one of the arguments substituted in its arguments.
Instances(inner, k) ==
  LET params == {leaf[2] : leaf \in {leaf \in inner.meets : leaf[1] = "param"}}
  IN CASE inner.head = "leaf" -> UNION {Passed(k, n) : n \in params}
       [] inner.head = "builtin" -> {[head |-> "builtin", meets |-> {}]}
       [] inner.head = "record" -> {[head |-> "instance", meets |-> Met(Current, ArgsOf(Current, k))]}
       [] inner.head = "instance" ->
            {[head |-> "instance", meets |-> UNION {t.meets : t \in UNION {Passed(k, n) : n \in params}}]}

\* instantiate_generic_type, of the innermost application whose arguments have been
\* evaluated.  If the walk meets leaves of both bad kinds, either may be the first.
Instantiate ==
  /\ Evaluating
  /\ \E k \in Due, r \in resolved :
       /\ \A m \in Due : m <= k
       /\ r.item = Current /\ r.ref = k /\ r.applied
       /\ \E g \in Generics(r.to) : \E inner \in Inner(g) :
            LET passed == Cardinality(ArgsOf(Current, k))
            IN \/ /\ Endless(inner)
                  /\ phase' = "overflow"
                  /\ UNCHANGED types
               \/ /\ Unreachable(inner, passed)
                  /\ phase' = "crashed"
                  /\ UNCHANGED types
               \/ /\ ~Endless(inner) /\ ~Unreachable(inner, passed)
                  /\ types' = Typed([item |-> Current, next |-> k], Instances(inner, k))
                  /\ UNCHANGED phase
  /\ UNCHANGED <<program, cursor, spaces, pending, mapping, stack, resolved, companions>>

\* The definition's own name: a RecursiveReference.  It and a pending definition
\* are not applied to the arguments, which are not evaluated either.
RefToSelf ==
  /\ Undefined /\ Ref.name = Name(Current)
  /\ resolved' = Comes(Top, Current, FALSE)
  /\ types' = Typed(Top, {Leaf("self", Current)})
  /\ stack' = Advance(stack, 1 + Ref.args)
  /\ UNCHANGED <<program, phase, cursor, spaces, pending, mapping, companions>>

\* Fault: a pending definition is referred to but not evaluated.
RefToPending_Unevaluated ==
  /\ Undefined /\ Ref.name # Name(Current)
  /\ \E i \in Nearest(pending, Scope(Current), Ref.name) :
       /\ resolved' = Comes(Top, i, FALSE)
       /\ types' = Typed(Top, Defined(i))
       /\ stack' = Advance(stack, 1 + Ref.args)
  /\ UNCHANGED <<program, phase, cursor, spaces, pending, mapping, companions>>

\* Only the last name of a path counts in the search for a pending definition.
RefToPending ==
  /\ Undefined /\ Ref.name # Name(Current)
  /\ \E i \in Nearest(pending, Scope(Current), Ref.name) : Call(i)

RefToNothing ==
  /\ Undefined /\ Ref.name # Name(Current)
  /\ Nearest(pending, Scope(Current), Ref.name) = {}
  /\ Fail

\* Fault: any definition whose first reference is to itself.
OwnAlias_Records(i) == Leaf("self", i) \in TypeAt(i, 1)

\* Types.get follows RecursiveReferences: it does not return if there is one in
\* its own place.
OwnAlias(i) ==
  /\ program[i].value = "alias" /\ program[i].params = <<>>
  /\ Leaf("self", i) \in TypeAt(i, 1)

\* Fault: the third phase moves on when any call returns.
Return_MovesOn ==
  LET i == Current
      caller == SubSeq(stack, 1, Len(stack) - 1)
      args(f) == program[f.item].refs[f.next].args
  IN /\ mapping' = mapping \cup {i}
     /\ pending' = pending \ {i}
     /\ companions' = companions \cup {<<s, i>> : s \in In(spaces, Scope(i), Name(i))}
     /\ IF caller = <<>>
        THEN stack' = <<>> /\ cursor' = cursor + 1 /\ UNCHANGED <<resolved, types>>
        ELSE LET f == caller[Len(caller)]
             IN /\ resolved' = Comes(f, i, FALSE)
                /\ types' = Typed(f, Defined(i))
                /\ stack' = Advance(caller, 1 + args(f))
                /\ cursor' = cursor + 1
     /\ UNCHANGED <<program, phase, spaces>>

Return ==
  LET i == Current
      caller == SubSeq(stack, 1, Len(stack) - 1)
      args(f) == program[f.item].refs[f.next].args
  IN /\ mapping' = mapping \cup {i}
     /\ pending' = pending \ {i}
     /\ companions' = companions \cup {<<s, i>> : s \in In(spaces, Scope(i), Name(i))}
     /\ IF caller = <<>>
        THEN stack' = <<>> /\ cursor' = cursor + 1 /\ UNCHANGED <<resolved, types>>
        ELSE LET f == caller[Len(caller)]
             IN /\ resolved' = Comes(f, i, FALSE)
                /\ types' = Typed(f, Defined(i))
                /\ stack' = Advance(caller, 1 + args(f))
                /\ UNCHANGED cursor
     /\ UNCHANGED <<program, phase, spaces>>

EndDefn ==
  /\ Evaluating /\ Due = {} /\ Top.next > Len(program[Current].refs)
  /\ CASE OwnAlias(Current) ->
            /\ phase' = "overflow"
            /\ UNCHANGED <<program, cursor, spaces, pending, mapping, stack, resolved, types, companions>>
       [] ~OwnAlias(Current) /\ In(mapping, Scope(Current), Name(Current)) # {} -> Fail
       [] OTHER -> Return

Over == {"done", "failed", "panic", "crashed", "overflow"}

Finished == phase \in Over /\ UNCHANGED vars

Work ==
  \/ CreateNamespace \/ AddPending \/ PassOver \/ EndPhase \/ EvalTop
  \/ NoSuchNamespace \/ RefToParam \/ RefToType \/ RefToSelf \/ RefToPending
  \/ Instantiate \/ RefToNothing \/ EndDefn

Next == Work \/ Finished

Spec == Init /\ [][Next]_vars
-----------------------------------------------------------------------------
(* Properties.                                                               *)

TypeOK ==
  /\ program \in Seq(Item)
  /\ phase \in {"ns", "defn", "eval"} \cup Over
  /\ cursor \in 1..Len(program) + 1
  /\ spaces \subseteq 0..Len(program)
  /\ pending \subseteq TypeItems
  /\ mapping \subseteq TypeItems
  /\ stack \in Seq([item : TypeItems, next : Nat \ {0}])
  /\ Len(stack) <= MaxStack
  /\ resolved \subseteq [item : TypeItems, ref : Nat, to : {0} \cup TypeItems, applied : BOOLEAN]
  /\ types \subseteq [item : TypeItems, ref : Nat, type : Types]
  /\ companions \subseteq (0..Len(program)) \X TypeItems

\* From the third phase on, every definition is either pending or evaluated.
PendingOrEvaluated ==
  phase \in {"eval", "done"} => pending = TypeItems \ mapping

\* The check for "Unevaluated type defns!!!" after the third phase never fails.
NothingLeftPending == phase # "panic"

\* What a reference came to has been evaluated, is a type parameter or is the
\* definition itself.
NoDanglingReference == \A r \in resolved : r.to \in {0, r.item} \cup mapping

\* The other definitions the text of a definition mentions.
Mentions(i) ==
  {j \in TypeItems \ {i} :
     /\ Scope(j) \in Enclosing(Scope(i))
     /\ \E k \in 1..Len(program[i].refs) : program[i].refs[k].name = Name(j)}

Cyclic == \E S \in SUBSET TypeItems : S # {} /\ \A i \in S : Mentions(i) \cap S # {}

\* The definitions a definition's text names, itself perhaps among them, and those
\* it can be built of.
Uses(i) ==
  {j \in TypeItems : \E k \in 1..Len(program[i].refs) :
                       ~Param(i, k) /\ program[i].refs[k].name = Name(j)}

Reach(i) ==
  {j \in TypeItems : \A S \in SUBSET TypeItems : i \in S /\ (\A m \in S : Uses(m) \subseteq S) => j \in S}

\* The definition may come to one of its arguments.
StandsForParam(i) == program[i].value = "alias" /\ program[i].refs # <<>> /\ Param(i, 1)

\* An alias of its own name, or of an application in whose arguments that name is
\* and which may come to one of its arguments.
AliasOfItself(i) ==
  /\ program[i].value = "alias" /\ program[i].refs # <<>> /\ i \in Uses(i)
  /\ \/ program[i].refs[1].name = Name(i)
     \/ \E j \in Reach(i) : StandsForParam(j)

\* Another definition is applied to arguments, and its type can be built of one that
\* names itself.
Applied(i, j) == \E k \in 1..Len(program[i].refs) :
  /\ program[i].refs[k].args > 0 /\ ~Param(i, k)
  /\ program[i].refs[k].name = Name(j)

AppliesRecursive ==
  \E i, j \in TypeItems : i # j /\ Applied(i, j) /\ \E m \in Reach(j) : m \in Uses(m)

\* The type checker runs out of stack only for definitions that refer to each
\* other, for aliases of themselves, and for the instances of generic types that
\* contain a definition that refers to itself.
OverflowMeansCycle ==
  phase = "overflow" /\ MaxStack > Cardinality(TypeItems) =>
    Cyclic \/ AppliesRecursive \/ \E i \in TypeItems : AliasOfItself(i)

\* A reference without a path comes to the type parameter of that name or else to
\* a type of that name in an enclosing scope, which is the one it means unless two
\* types have the name.
UniqueNames == \A i, j \in TypeItems : i # j => Name(i) # Name(j)

UnqualifiedAsWritten ==
  \A r \in resolved :
    LET ref == program[r.item].refs[r.ref]
    IN ref.path = <<>> =>
         IF Param(r.item, r.ref) THEN r.to = 0
         ELSE Name(r.to) = ref.name /\ Scope(r.to) \in Enclosing(Scope(r.item))

\* A generic type may stand in a definition's type without arguments: it is named
\* without, or may be pending when the definition is evaluated, because one before
\* it, or it itself, leads to the definition.
Bare(i) ==
  \E j \in Uses(i) :
    /\ program[j].params # <<>>
    /\ \/ \E k \in 1..Len(program[i].refs) : /\ program[i].refs[k].args = 0 /\ ~Param(i, k)
                                             /\ program[i].refs[k].name = Name(j)
       \/ \E m \in TypeItems : m <= j /\ i \in Reach(m)

\* A program without faults: names are unique and no namespace has the root's,
\* every reference is without a path and sees what it names, no definitions depend
\* on each other, and type applications are of generic types, with all their
\* arguments, that are not built of types that refer to themselves or of generic
\* types without arguments.
Instantiable(i, j, k) ==
  /\ Len(program[j].params) <= Cardinality(ArgsOf(i, k))
  /\ \A m \in Reach(j) : m \notin Uses(m) /\ ~Bare(m)

Sound(i) ==
  /\ Distinct(program[i].params)
  /\ ~AliasOfItself(i)
  /\ \A k \in 1..Len(program[i].refs) :
       LET ref == program[i].refs[k]
       IN /\ ref.path = <<>>
          /\ IF Param(i, k) THEN ref.args = 0
             ELSE \E j \in TypeItems :
                    /\ Name(j) = ref.name /\ Scope(j) \in Enclosing(Scope(i))
                    /\ ref.args > 0 /\ j # i => program[j].params # <<>> /\ Instantiable(i, j, k)

WellFormed ==
  /\ UniqueNames
  /\ \A i, j \in Items \ TypeItems : i # j => Name(i) # Name(j)
  /\ \A i \in Items \ TypeItems : Name(i) # "_root"
  /\ \A i \in TypeItems : Sound(i)
  /\ ~Cyclic

\* A program without faults is accepted, with all references that are not arguments
\* evaluated.
AcceptsWellFormed ==
  phase \in Over /\ MaxStack > Cardinality(TypeItems) /\ WellFormed =>
    /\ phase = "done"
    /\ \A i \in TypeItems : \A k \in Own(i) : \E r \in resolved : r.item = i /\ r.ref = k
=============================================================================
