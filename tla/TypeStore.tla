----------------------------- MODULE TypeStore -----------------------------
(***************************************************************************)
(* The pool of types (src/k1/typer/types.rs) and what fills it: type       *)
(* definitions, type expressions and generic types (src/k1/typer.rs).      *)
(*                                                                         *)
(* A type is known by its id, its place in the pool.  Each operation is a  *)
(* function of the store it finds to the store it leaves, with its result  *)
(* in there; status says that it was the last one.  The module is for one  *)
(* namespace, and its recursive operators for TLC only.                    *)
(***************************************************************************)
EXTENDS Integers, Sequences, FiniteSets, SequencesExt, TLC

CONSTANTS
  Programs,  (* Sets of programs.                                          *)
  MaxDepth   (* The calls that fit on the stack of the thread.             *)

ASSUME DepthAssumption == MaxDepth \in Nat \ {0}

VARIABLES
  program,   (* Its definitions, and the type expressions used after them. *)
  phase,     (* "define", "use", "accepted", or the status of a failure.   *)
  next,      (* The definition or use the phase comes to next.             *)
  store,     (* Types, the scope of the namespace, and the last result.    *)
  results    (* The ids of the uses.                                       *)

vars == <<program, phase, next, store, results>>

-----------------------------------------------------------------------------
(* Type expressions and definitions.                                         *)

Expr(kind, name, parts) == [kind |-> kind, name |-> name, parts |-> parts]
Part(name, expr) == [name |-> name, expr |-> expr]
NoPayload == Expr("none", "", <<>>)

\* kind is "new", "alias" or "opaque".
Defn(name, kind, tparams, body) == [name |-> name, kind |-> kind, tparams |-> tparams, body |-> body]
DefnNamed(name) == CHOOSE d \in DOMAIN program.defns : program.defns[d].name = name
IsDefined(name) == \E d \in DOMAIN program.defns : program.defns[d].name = name

Operators == {"_struct_combine", "_struct_remove"}

-----------------------------------------------------------------------------
(* The pool.                                                                 *)

\* A type's parts have names and ids, 0 for no payload.  defn is the
\* definition it has its name from, link the enum of a variant, what an alias
\* or a generic is of, what a reference is to, the result of a function, or the
\* root of a recursive reference, 0 until it is known.
Type(kind, name, parts, defn, link) ==
  [kind |-> kind, name |-> name, parts |-> parts, defn |-> defn, link |-> link, parent |-> 0, args |-> <<>>]
Slot(name, id) == [name |-> name, id |-> id]

Scalars == <<"int", "bool", "Pointer", "never">>
NeverId == 4
OptId(s) == s.names["Opt"]

Ok(s, id) == [s EXCEPT !.result = id]
Stop(s, status) == [s EXCEPT !.status = status]
Failed(s) == s.status # "ok"

\* Types::get follows a recursive reference to its root.
Followed(s, id) == IF s.types[id].kind = "recursive" THEN s.types[id].link ELSE id
\* It does not return for a reference to itself, and there is no type 0.
Gets(s, id) ==
  IF s.types[id].kind # "recursive" THEN "ok"
  ELSE IF s.types[id].link = 0 THEN "panic" ELSE IF s.types[id].link = id THEN "overflow" ELSE "ok"
Get(s, id) == s.types[Followed(s, id)]

RECURSIVE TypeEq(_, _, _)
TypeEq(s, t, u) ==
  /\ t.kind = u.kind
  /\ CASE t.kind \in {"int", "bool"} -> TRUE
       [] t.kind \in {"struct", "enum"} -> t.defn = 0 /\ u.defn = 0 /\ t.parts = u.parts
       [] t.kind = "ref" -> t.link = u.link
       [] t.kind = "variable" -> t.name = u.name /\ t.defn = u.defn
       [] t.kind = "function" ->
            /\ TypeEq(s, Get(s, t.link), Get(s, u.link))
            /\ Len(t.parts) = Len(u.parts)
            /\ \A i \in DOMAIN t.parts : TypeEq(s, Get(s, t.parts[i].id), Get(s, u.parts[i].id))
       [] OTHER -> FALSE

\* Fault: variants are counted from zero, though the place of the first is one.
VariantId_OffByOne(id, parts, k) == id - Len(parts) + k - 2

\* The id of a variant of the enum with an id.
VariantId(id, parts, k) == id - Len(parts) + k - 1

Pushed(s, ts) == [s EXCEPT !.types = @ \o ts, !.result = Len(s.types) + Len(ts)]
\* The variants of an enum come before it.
AddNew(s, t) ==
  IF t.kind # "enum" THEN Pushed(s, <<t>>)
  ELSE LET id == Len(s.types) + Len(t.parts) + 1
           variant(k) == Type("variant", t.parts[k].name, <<t.parts[k]>>, 0, id)
       IN Pushed(s, [k \in DOMAIN t.parts |-> variant(k)] \o <<t>>)

\* Fault: structures are not looked for.
Add_Always(s, t) == AddNew(s, t)

\* add_type: the first type that is equal, or a new one.
Add(s, t) ==
  LET same == {i \in DOMAIN s.types : TypeEq(s, s.types[i], t)}
  IN IF same = {} THEN AddNew(s, t) ELSE Ok(s, CHOOSE i \in same : \A k \in same : i <= k)

-----------------------------------------------------------------------------
(* Sequences of calls.                                                       *)

Then(s, Continue(_)) == IF Failed(s) THEN s ELSE Continue(s)

\* One call after the other, then what follows from the ids.
ThenAll(s, xs, Call(_, _), Continue(_, _)) ==
  LET step(done, x) ==
        LET t == Then(done.store, LAMBDA u : Call(u, x)) IN [store |-> t, ids |-> Append(done.ids, t.result)]
      last == FoldLeft(step, [store |-> s, ids |-> <<>>], xs)
  IN Then(last.store, LAMBDA t : Continue(t, last.ids))

Slots(parts, ids) == [i \in DOMAIN parts |-> Slot(parts[i].name, ids[i])]

-----------------------------------------------------------------------------
(* Generic types.                                                            *)

\* What a type is an instance of, if anything: a variant what its enum is.
InstanceOf(s, t) == IF t.kind = "variant" THEN s.types[t.link] ELSE t

\* instantiate_generic_type: the instance is recorded when it is complete.
\* instantiate_generic_type_subst: id with args for the parameters of generic.
\* The whole of the generic type gets its name, what is inside keeps its own.
RECURSIVE Instantiate(_, _, _, _), Subst(_, _, _, _, _, _)
Instantiate(s, generic, args, depth) ==
  IF <<generic, args>> \in DOMAIN s.specializations THEN Ok(s, s.specializations[<<generic, args>>])
  ELSE LET t == Subst(s, s.types[generic].link, TRUE, generic, args, depth + 1)
       IN IF Failed(t) THEN t ELSE [t EXCEPT !.specializations = (<<generic, args>> :> t.result) @@ @]

Subst(s, id, whole, generic, args, depth) ==
  LET within(t, inner) == IF inner = 0 THEN Ok(t, 0) ELSE Subst(t, inner, FALSE, generic, args, depth + 1)
      params == s.types[generic].parts
      named(t) == IF whole THEN [t EXCEPT !.defn = s.types[generic].defn, !.parent = generic, !.args = args]
                  ELSE [t EXCEPT !.parent = 0, !.args = <<>>]
  IN IF depth > MaxDepth THEN Stop(s, "overflow")
     ELSE IF Gets(s, id) # "ok" THEN Stop(s, Gets(s, id))
     ELSE LET t == Get(s, id)
              of == InstanceOf(s, t)
              ids == [i \in DOMAIN t.parts |-> t.parts[i].id]
     IN CASE of.parent # 0 ->
               ThenAll(s, of.args, within, LAMBDA u, new : Instantiate(u, of.parent, new, depth + 1))
          [] of.parent = 0 /\ t.kind = "variable" ->
               IF \A k \in DOMAIN params : params[k].id # id THEN Ok(s, id)
               ELSE LET k == CHOOSE k \in DOMAIN params : params[k].id = id
                    IN IF k \in DOMAIN args THEN Ok(s, args[k]) ELSE Stop(s, "panic")
          [] of.parent = 0 /\ t.kind \in {"struct", "enum"} ->
               ThenAll(s, ids, within, LAMBDA u, new :
                 IF whole \/ new # ids THEN Add(u, named([t EXCEPT !.parts = Slots(t.parts, new)])) ELSE Ok(u, id))
          [] of.parent = 0 /\ t.kind = "ref" ->
               Then(within(s, t.link), LAMBDA u :
                 IF whole \/ u.result # t.link THEN Add(u, Type("ref", "", <<>>, 0, u.result)) ELSE Ok(u, id))
          [] of.parent = 0 /\ t.kind \in {"int", "bool", "Pointer", "opaque"} -> Ok(s, id)
          [] OTHER -> Stop(s, "panic")

-----------------------------------------------------------------------------
(* Type expressions and definitions.                                         *)

\* EvalTypeExprContext: the definition around, or 0, whether its name is to be
\* attached, and the type parameters in scope.
Context(defn, attach, params) == [defn |-> defn, attach |-> attach, params |-> params]

\* Fault: what is inside gets the name, too.
Inside_Attached(c) == c

\* no_attach_defn_info: only the whole of a type gets the name.
Inside(c) == [c EXCEPT !.attach = FALSE]
Attached(c) == IF c.attach THEN c.defn ELSE 0

\* The fields of two structs, with those of the second that are in the first.
Combined(s, t, u, c) ==
  IF \E i \in DOMAIN t.parts, k \in DOMAIN u.parts : t.parts[i].name = u.parts[k].name /\ t.parts[i].id # u.parts[k].id
  THEN Stop(s, "rejected") ELSE Add(s, Type("struct", "", t.parts \o u.parts, Attached(c), 0))
Removed(s, t, u, c) ==
  LET kept(slot) == \A k \in DOMAIN u.parts : u.parts[k].name # slot.name
  IN Add(s, Type("struct", "", SelectSeq(t.parts, kept), Attached(c), 0))
Operation(op, s, t, u, c) ==
  IF t.kind # "struct" \/ u.kind # "struct" THEN Stop(s, "rejected")
  ELSE IF op = "_struct_combine" THEN Combined(s, t, u, c) ELSE Removed(s, t, u, c)

\* `base.name`: a variant, its payload, a field, what a reference is to, a
\* parameter or the result of a function.
Member(s, id, name) ==
  LET t == Get(s, id)
      at == {k \in DOMAIN t.parts : t.parts[k].name = name}
      first == CHOOSE k \in at : \A m \in at : k <= m
  IN CASE t.kind = "enum" /\ at # {} -> Ok(s, VariantId(Followed(s, id), t.parts, first))
       [] t.kind \in {"struct", "function"} /\ at # {} /\ ~(t.kind = "function" /\ name = "return") -> Ok(s, t.parts[first].id)
       [] t.kind = "variant" /\ name = "value" /\ t.parts[1].id # 0 -> Ok(s, t.parts[1].id)
       [] t.kind = "ref" /\ name = "value" -> Ok(s, t.link)
       [] t.kind = "function" /\ name = "return" -> Ok(s, t.link)
       [] OTHER -> Stop(s, "rejected")

\* What refers to the definition around is a placeholder, one per definition.
RecursiveReference(s, d) ==
  IF s.placeholders[d] # 0 THEN Ok(s, s.placeholders[d])
  ELSE LET t == Add(s, Type("recursive", "", <<>>, d, 0)) IN [t EXCEPT !.placeholders[d] = t.result]
\* Fault: the placeholder is left as it is.
Resolved_Never(s, d, id) == Ok(s, id)

\* It leads to the type of the body once that is there.
Resolved(s, d, id) ==
  IF s.placeholders[d] = 0 THEN Ok(s, id)
  ELSE Ok([s EXCEPT !.types[s.placeholders[d]].link = id], id)

\* What a definition makes of the type of its body.
Defined(s, d, params, id) ==
  LET defn == program.defns[d]
      kind == Get(s, id).kind
  IN IF params # <<>> THEN Add(s, Type("generic", "", params, d, id))
     ELSE IF defn.kind = "opaque" THEN Add(s, Type("opaque", "", <<>>, d, id))
     ELSE IF Gets(s, id) # "ok" THEN Stop(s, Gets(s, id))
     ELSE IF (defn.kind = "alias" /\ kind # "never") \/ (defn.kind = "new" /\ kind \in {"bool", "Pointer", "never", "struct", "enum"})
     THEN Ok(s, id) ELSE Stop(s, "rejected")
InScope(s, name, id) == [s EXCEPT !.names = (name :> id) @@ @, !.result = id]

RECURSIVE Eval(_, _, _, _), Define(_, _, _)
\* eval_type_application, after the operators.
Application(s, e, c, depth) ==
  LET types == c.params @@ s.names
      args == [i \in DOMAIN e.parts |-> e.parts[i].expr]
      call(t, arg) == Eval(t, arg, Inside(c), depth + 1)
  IN IF e.name = "never" THEN Ok(s, NeverId)
     ELSE IF e.name \in DOMAIN types THEN
       IF args = <<>> THEN Ok(s, types[e.name])
       ELSE IF Get(s, types[e.name]).kind # "generic" THEN Stop(s, "rejected")
       ELSE ThenAll(s, args, call, LAMBDA t, ids : Instantiate(t, types[e.name], ids, depth + 1))
     ELSE IF c.defn # 0 /\ e.name = program.defns[c.defn].name THEN RecursiveReference(s, c.defn)
     ELSE IF IsDefined(e.name) THEN Define(s, DefnNamed(e.name), depth + 1) ELSE Stop(s, "rejected")

\* eval_type_expr_defn.
Eval(s, e, c, depth) ==
  LET exprs == [i \in DOMAIN e.parts |-> e.parts[i].expr]
      call(t, x) == IF x.kind = "none" THEN Ok(t, 0) ELSE Eval(t, x, Inside(c), depth + 1)
      got(t, ids, Continue(_)) ==
        IF \E i \in DOMAIN ids : Gets(t, ids[i]) # "ok"
        THEN Stop(t, Gets(t, ids[CHOOSE i \in DOMAIN ids : Gets(t, ids[i]) # "ok"])) ELSE Continue(t)
  IN CASE depth > MaxDepth -> Stop(s, "overflow")
       [] depth <= MaxDepth /\ e.kind \in {"struct", "enum"} ->
            ThenAll(s, exprs, call, LAMBDA t, ids : Add(t, Type(e.kind, "", Slots(e.parts, ids), Attached(c), 0)))
       [] depth <= MaxDepth /\ e.kind = "optional" ->
            ThenAll(s, exprs, call, LAMBDA t, ids : Instantiate(t, OptId(t), ids, depth + 1))
       [] depth <= MaxDepth /\ e.kind = "ref" ->
            ThenAll(s, exprs, call, LAMBDA t, ids : Add(t, Type("ref", "", <<>>, 0, ids[1])))
       [] depth <= MaxDepth /\ e.kind = "member" ->
            ThenAll(s, exprs, call, LAMBDA t, ids : got(t, ids, LAMBDA u : Member(u, ids[1], e.name)))
       [] depth <= MaxDepth /\ e.kind = "named" /\ e.name \in Operators ->
            IF Len(e.parts) # 2 THEN Stop(s, "rejected")
            ELSE ThenAll(s, exprs, call, LAMBDA t, ids : got(t, ids, LAMBDA u :
                   Operation(e.name, u, Get(u, ids[1]), Get(u, ids[2]), c)))
       [] depth <= MaxDepth /\ e.kind = "named" /\ e.name \notin Operators -> Application(s, e, c, depth)

\* eval_type_defn.
Define(s, d, depth) ==
  LET defn == program.defns[d]
      variable(t, name) == Add(t, Type("variable", name, <<>>, d, 0))
      attach == defn.tparams = <<>> /\ defn.kind # "alias"
      body(t, ids) ==
        LET params == [i \in DOMAIN ids |-> Slot(defn.tparams[i], ids[i])]
            scope == [x \in {defn.tparams[i] : i \in DOMAIN ids} |-> ids[CHOOSE i \in DOMAIN ids : defn.tparams[i] = x]]
        IN Then(Then(Eval(t, defn.body, Context(d, attach, scope), depth + 1),
                     LAMBDA u : Defined(Resolved(u, d, u.result), d, params, u.result)),
                LAMBDA u : InScope(u, defn.name, u.result))
  IN IF defn.name \in DOMAIN s.names THEN Ok(s, s.names[defn.name])
     ELSE IF depth > MaxDepth THEN Stop(s, "overflow")
     ELSE IF ~IsInjective(defn.tparams) THEN Stop(s, "rejected")
     ELSE ThenAll(s, defn.tparams, variable, body)

\* The type of a function of two types or more, the last one its result, is
\* found under the name of the function.
Declare(s, e) ==
  LET outside == Context(0, FALSE, [x \in {} |-> 0])
      exprs == [i \in DOMAIN e.parts |-> e.parts[i].expr]
      typed(t, ids) == Add(t, Type("function", "", Slots(Front(e.parts), Front(ids)), 0, Last(ids)))
  IN Then(ThenAll(s, exprs, LAMBDA t, x : Eval(t, x, outside, 1), typed),
          LAMBDA t : IF e.name \in DOMAIN t.names THEN Stop(t, "rejected") ELSE InScope(t, e.name, t.result))

Use(s, e) ==
  IF e.kind = "function" THEN Declare(s, e) ELSE Eval(s, e, Context(0, FALSE, [x \in {} |-> 0]), 1)

-----------------------------------------------------------------------------

NewStore(defns) ==
  [types |-> [i \in DOMAIN Scalars |-> Type(Scalars[i], "", <<>>, 0, 0)],
   names |-> [x \in ToSet(Scalars) |-> CHOOSE i \in DOMAIN Scalars : Scalars[i] = x],
   placeholders |-> [d \in DOMAIN defns |-> 0], specializations |-> [x \in {} |-> 0], status |-> "ok", result |-> 0]

Init ==
  /\ \E family \in Programs : program \in family
  /\ phase = "define" /\ next = 1 /\ results = <<>>
  /\ store = NewStore(program.defns)

\* The first error ends the phase of the type definitions, and the program's
\* check; a function or a statement that fails is the program's last word here.
Step(s) ==
  /\ store' = s
  /\ IF Failed(s) THEN phase' = s.status /\ UNCHANGED next ELSE UNCHANGED phase /\ next' = next + 1
  /\ UNCHANGED program

EvalTypeDefn ==
  /\ phase = "define" /\ next <= Len(program.defns)
  /\ Step(Define(store, next, 1))
  /\ UNCHANGED results

DefinitionsDone ==
  /\ phase = "define" /\ next > Len(program.defns)
  /\ phase' = "use" /\ next' = 1
  /\ UNCHANGED <<program, store, results>>

UseType ==
  /\ phase = "use" /\ next <= Len(program.uses)
  /\ LET s == Use(store, program.uses[next])
     IN Step(s) /\ results' = IF Failed(s) THEN results ELSE Append(results, s.result)

UsesDone ==
  /\ phase = "use" /\ next > Len(program.uses)
  /\ phase' = "accepted"
  /\ UNCHANGED <<program, next, store, results>>

Ended == phase \in {"accepted", "rejected", "panic", "overflow"} /\ UNCHANGED vars

Next == EvalTypeDefn \/ DefinitionsDone \/ UseType \/ UsesDone \/ Ended
Spec == Init /\ [][Next]_vars

=============================================================================
