---------------------------- MODULE TypeMeaning ----------------------------
(***************************************************************************)
(* What type expressions mean: names stand for definitions wherever these  *)
(* are, types written as structs or enums under a name are known by it and *)
(* their arguments, all others by their structure.  There are no ids, no   *)
(* order of evaluation and no placeholders.                                *)
(***************************************************************************)
EXTENDS TypeStore

\* A type: a name or a kind with parts, which are types under names.
Meaning(kind, name, defn, parts) == [kind |-> kind, name |-> name, defn |-> defn, parts |-> parts]
Means(name, type) == [name |-> name, type |-> type]
Wrong == Meaning("wrong", "", 0, <<>>)
Sound(m) == IF \E i \in DOMAIN m.parts : m.parts[i].type = Wrong THEN Wrong ELSE m
Named(d, args) == Sound(Meaning("named", "", d, [i \in DOMAIN args |-> Means("", args[i])]))
Arguments(m) == [i \in DOMAIN m.parts |-> m.parts[i].type]

\* Its body is written as a struct or an enum; an alias with parameters is not
\* told from other definitions.
HasIdentity(d) ==
  LET defn == program.defns[d]
  IN \/ defn.kind = "opaque" /\ defn.tparams = <<>>
     \/ (defn.kind # "alias" \/ defn.tparams # <<>>)
        /\ (defn.body.kind \in {"struct", "enum"} \/ (defn.body.kind = "named" /\ defn.body.name \in Operators))

Params(d) == [x \in ToSet(program.defns[d].tparams) |-> Meaning("variable", x, d, <<>>)]
Bound(d, args) ==
  LET names == program.defns[d].tparams
  IN [x \in {names[i] : i \in DOMAIN names \cap DOMAIN args} |-> args[CHOOSE i \in DOMAIN names : names[i] = x]]
NoParams == [x \in {} |-> Wrong]

PartNamed(m, name) ==
  LET at == {i \in DOMAIN m.parts : m.parts[i].name = name}
  IN IF at = {} THEN Wrong ELSE m.parts[CHOOSE i \in at : \A k \in at : i <= k].type

\* The structs of two operands, together or without what the second has.
Operate(op, t, u) ==
  LET shared(m) == \E k \in DOMAIN u.parts : u.parts[k].name = m.name
      only(m) == ~shared(m)
  IN IF t.kind # "struct" \/ u.kind # "struct" THEN Wrong
     ELSE IF op = "_struct_remove" THEN Meaning("struct", "", 0, SelectSeq(t.parts, only))
     ELSE IF \E i \in DOMAIN t.parts : shared(t.parts[i]) /\ PartNamed(u, t.parts[i].name) # t.parts[i].type THEN Wrong
     ELSE LET more(m) == \A k \in DOMAIN t.parts : t.parts[k].name # m.name
          IN Meaning("struct", "", 0, t.parts \o SelectSeq(u.parts, more))

\* The functions, whose types are known by their names after them.
Functions == {u \in ToSet(program.uses) : u.kind = "function"}

\* What expressions mean where names are bound, within n names of names.
RECURSIVE Denotes(_, _, _), Unfolded(_, _)
Denotes(e, bound, n) ==
  LET parts == [i \in DOMAIN e.parts |-> Means(e.parts[i].name, Denotes(e.parts[i].expr, bound, n))]
      args == [i \in DOMAIN parts |-> parts[i].type]
      d == DefnNamed(e.name)
      defn == program.defns[d]
  IN CASE n = 0 -> Wrong
       [] n > 0 /\ e.kind = "none" -> Meaning("none", "", 0, <<>>)
       [] n > 0 /\ e.kind \in {"struct", "enum", "ref", "function"} -> Sound(Meaning(e.kind, "", 0, parts))
       [] n > 0 /\ e.kind = "optional" -> Named(DefnNamed("Opt"), args)
       [] n > 0 /\ e.kind = "member" ->
            LET of == Unfolded(args[1], n)
                type == PartNamed(of, IF of.kind \in {"ref", "variant"} /\ e.name # "value" THEN "?" ELSE e.name)
            IN CASE of.kind = "enum" -> IF type = Wrong THEN Wrong ELSE Sound(Meaning("variant", e.name, 0, <<Means("", args[1])>>))
                 [] of.kind \in {"struct", "ref", "function", "variant"} -> IF type.kind = "none" THEN Wrong ELSE type
                 [] OTHER -> Wrong
       [] n > 0 /\ e.kind = "named" /\ e.name \in Operators ->
            IF Len(args) = 2 THEN Sound(Operate(e.name, Unfolded(args[1], n), Unfolded(args[2], n))) ELSE Wrong
       [] n > 0 /\ e.kind = "named" /\ e.name \in ToSet(Scalars) -> IF args = <<>> THEN Meaning(e.name, "", 0, <<>>) ELSE Wrong
       [] n > 0 /\ e.kind = "named" /\ e.name \in DOMAIN bound -> IF args = <<>> THEN bound[e.name] ELSE Wrong
       [] n > 0 /\ e.kind = "named" /\ e.name \notin Operators \cup ToSet(Scalars) \cup DOMAIN bound ->
            IF IsDefined(e.name) THEN
              IF args = <<>> /\ defn.tparams # <<>> THEN Meaning("generic", "", d, <<>>)
              ELSE IF Len(args) < Len(defn.tparams) \/ (args # <<>> /\ defn.tparams = <<>>) THEN Wrong
              ELSE IF HasIdentity(d) THEN Named(d, args)
              ELSE Sound(Denotes(defn.body, Bound(d, args), n - 1))
            ELSE IF args = <<>> /\ \E f \in Functions : f.name = e.name
            THEN Denotes(CHOOSE f \in Functions : f.name = e.name, NoParams, n - 1) ELSE Wrong

\* What is in a type that has a name; the payload of a variant is its value.
Unfolded(m, n) ==
  CASE n = 0 -> Wrong
    [] n > 0 /\ m.kind = "named" ->
         IF program.defns[m.defn].kind = "opaque" /\ program.defns[m.defn].tparams = <<>> THEN m
         ELSE Denotes(program.defns[m.defn].body, Bound(m.defn, Arguments(m)), n - 1)
    [] n > 0 /\ m.kind = "variant" ->
         Meaning("variant", m.name, 0, <<Means("value", PartNamed(Unfolded(m.parts[1].type, n - 1), m.name))>>)
    [] n > 0 /\ m.kind \notin {"named", "variant"} -> m

Names == 6 + Len(program.defns)
Denoted(e) == Denotes(e, NoParams, Names)

\* The whole program has a meaning: definitions that are no aliases are of
\* structs or enums or types the compiler knows, functions have one name each.
WellFormed ==
  /\ \A d \in DOMAIN program.defns :
       LET defn == program.defns[d]
           body == Denotes(defn.body, Params(d), Names)
       IN /\ body # Wrong /\ IsInjective(defn.tparams)
          /\ defn.tparams = <<>> /\ defn.kind = "new" => Unfolded(body, Names).kind \in {"struct", "enum", "bool", "Pointer", "never"}
          /\ defn.tparams = <<>> /\ defn.kind = "alias" => body.kind # "never"
  /\ \A i \in DOMAIN program.uses :
       LET use == program.uses[i]
       IN /\ Denoted(use) # Wrong
          /\ use.kind = "function" => ~IsDefined(use.name)
          /\ \A k \in DOMAIN program.uses : use.kind = "function" /\ program.uses[k].kind = "function" /\ program.uses[k].name = use.name => k = i

-----------------------------------------------------------------------------
(* What the compiler depends on beyond that.                                 *)

RECURSIVE Subexpressions(_)
Subexpressions(e) == {e} \cup UNION {Subexpressions(e.parts[i].expr) : i \in DOMAIN e.parts}

BodyOf(d) == program.defns[d].body
Naming(e) == {d \in DOMAIN program.defns : \E x \in Subexpressions(e) : x.kind = "named" /\ x.name = program.defns[d].name}
Reached(d) ==
  LET within[n \in 1..Len(program.defns)] ==
        IF n = 1 THEN Naming(BodyOf(d)) ELSE LET before == within[n - 1] IN before \cup UNION {Naming(BodyOf(k)) : k \in before}
  IN within[Len(program.defns)]
Recursive(d) == d \in Reached(d)
Generic(d) == program.defns[d].tparams # <<>>

\* A recursive definition names only itself, has a name of its own, and none
\* of its parts are asked for in it.
PlainRecursion ==
  \A d \in DOMAIN program.defns : Recursive(d) =>
    /\ HasIdentity(d) /\ \A k \in Reached(d) \ {d} : d \notin Reached(k)
    /\ \A e \in Subexpressions(BodyOf(d)) : e.kind # "member" /\ e.name \notin Operators

\* A generic type has arguments only below its definition: above it is
\* evaluated on demand, and they are passed over.
GenericsFirst ==
  \A d \in DOMAIN program.defns : \A e \in Subexpressions(BodyOf(d)) :
    e.kind = "named" /\ e.parts # <<>> => \A k \in Naming(e) : program.defns[k].name = e.name => k < d

\* Nothing that instances of generic types cannot be made through is in one:
\* recursive types, `never`, a generic type without arguments, a variant; nor
\* is one another name of a type without parameters.
Instantiable ==
  \A d \in DOMAIN program.defns : Generic(d) =>
    /\ \A k \in {d} \cup Reached(d) :
         /\ ~Recursive(k)
         /\ \A e \in Subexpressions(BodyOf(k)) : Denotes(e, Params(k), Names).kind \notin {"never", "generic", "variant"}
    /\ LET body == Denotes(BodyOf(d), Params(d), Names) IN body.kind # "named" \/ body.parts # <<>> \/ HasIdentity(d)

\* Structs that are combined have no field in common, which would be there twice.
NoOverlap ==
  \A d \in DOMAIN program.defns : \A e \in Subexpressions(BodyOf(d)) : e.kind = "named" /\ e.name = "_struct_combine" /\ Len(e.parts) = 2 =>
    LET of(k) == Unfolded(Denotes(e.parts[k].expr, Params(d), Names), Names).parts
    IN \A i \in DOMAIN of(1), k \in DOMAIN of(2) : of(1)[i].name # of(2)[k].name

\* Functions of the same types, which are one type, name their parameters alike.
ParametersAlike ==
  \A f, g \in Functions :
    LET types(m) == [i \in DOMAIN m.parts |-> m.parts[i].type]
    IN types(Denoted(f)) = types(Denoted(g)) => Denoted(f) = Denoted(g)

Plain == PlainRecursion /\ GenericsFirst /\ Instantiable /\ NoOverlap /\ ParametersAlike

-----------------------------------------------------------------------------
(* What is in the pool.                                                      *)

\* The meaning of a type in the pool.
RECURSIVE ReadBack(_, _)
ReadBack(id, n) ==
  LET t == store.types[id]
      parts == [i \in DOMAIN t.parts |->
                  Means(t.parts[i].name, IF t.parts[i].id = 0 THEN Meaning("none", "", 0, <<>>) ELSE ReadBack(t.parts[i].id, n - 1))]
      args == [i \in DOMAIN t.args |-> ReadBack(t.args[i], n - 1)]
  IN CASE n = 0 -> Wrong
       [] n > 0 /\ t.kind \in {"recursive", "opaque"} -> Meaning("named", "", t.defn, <<>>)
       [] n > 0 /\ t.kind = "generic" -> Meaning("generic", "", t.defn, <<>>)
       [] n > 0 /\ t.kind \in {"struct", "enum"} -> IF t.defn # 0 THEN Named(t.defn, args) ELSE Meaning(t.kind, "", 0, parts)
       [] n > 0 /\ t.kind = "ref" -> Meaning("ref", "", 0, <<Means("value", ReadBack(t.link, n - 1))>>)
       [] n > 0 /\ t.kind = "variant" -> Meaning("variant", t.name, 0, <<Means("", ReadBack(t.link, n - 1))>>)
       [] n > 0 /\ t.kind = "function" -> Meaning("function", "", 0, Append(parts, Means("return", ReadBack(t.link, n - 1))))
       [] n > 0 /\ t.kind \in {"int", "bool", "Pointer", "never", "variable"} -> Meaning(t.kind, t.name, t.defn, <<>>)
MeaningOf(id) == ReadBack(id, Names + 6)

\* One level of what is in a type that has a name.
ContentsOf(id) ==
  LET t == store.types[id]
  IN Meaning(t.kind, "", 0, [i \in DOMAIN t.parts |->
       Means(t.parts[i].name, IF t.parts[i].id = 0 THEN Meaning("none", "", 0, <<>>) ELSE MeaningOf(t.parts[i].id))])

RECURSIVE Mentions(_)
Mentions(m) == {m} \cup UNION {Mentions(m.parts[i].type) : i \in DOMAIN m.parts}

-----------------------------------------------------------------------------

\* The type of an expression reads back as what is written, whatever was
\* found in the pool or made before, by name, by structure or as an instance.
UsesMeanWhatIsWritten ==
  phase \in {"use", "accepted"} /\ WellFormed /\ Plain =>
    \A i \in DOMAIN results : MeaningOf(results[i]) = Denoted(program.uses[i])

\* Types that mean the same are one type in the pool, except for functions
\* and for what a recursive type contains, in which it is its placeholder.
OneTypePerMeaning ==
  phase = "accepted" /\ WellFormed /\ Plain =>
    \A i, k \in DOMAIN results :
      LET m == Denoted(program.uses[i])
      IN m = Denoted(program.uses[k]) =>
           \/ results[i] = results[k]
           \/ \E x \in Mentions(m) : x.kind = "function" \/ (x.kind = "named" /\ Recursive(x.defn))

\* Every struct and enum that has a name contains what its definition says for
\* its arguments, however it was made, and every enum its own variants.
ContentsAsDefined ==
  phase = "accepted" /\ WellFormed /\ Plain =>
    \A id \in DOMAIN store.types :
      LET t == store.types[id]
      IN /\ t.kind \in {"struct", "enum"} /\ t.defn # 0 => ContentsOf(id) = Denotes(BodyOf(t.defn), Bound(t.defn, Arguments(MeaningOf(id))), Names)
         /\ t.kind = "enum" => \A k \in DOMAIN t.parts :
              LET v == store.types[VariantId(id, t.parts, k)]
              IN v.kind = "variant" /\ v.link = id /\ v.parts = <<t.parts[k]>>

\* A program that has a meaning is not rejected and does not end the compiler,
\* in any order of its definitions; one that has none is not accepted.
MeaningsAreAccepted ==
  /\ phase \in {"rejected", "panic", "overflow"} => ~WellFormed \/ ~Plain
  /\ phase = "accepted" /\ Plain => WellFormed

=============================================================================
