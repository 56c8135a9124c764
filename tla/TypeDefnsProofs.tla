-------------------------- MODULE TypeDefnsProofs --------------------------
(* What the three phases guarantee of every set of programs.               *)
EXTENDS TypeDefns, SequenceTheorems, FiniteSetTheorems, TLAPS

Frames == [item : TypeItems, next : Nat \ {0}]

\* The first two phases evaluate nothing; the second has entered the types it
\* has passed.
PhasesInOrder ==
  /\ phase = "ns" => pending = {}
  /\ phase \in {"ns", "defn"} => mapping = {} /\ resolved = {} /\ stack = <<>>
  /\ phase = "defn" => pending = {i \in TypeItems : i < cursor}

\* The third phase has evaluated the types it has passed.
PassedAreEvaluated == phase = "eval" => \A i \in TypeItems : i < cursor => i \in mapping

\* The outermost call is for the item the third phase is at.
OutermostIsCursor == stack # <<>> => cursor \in Items /\ stack[1].item = cursor

\* Each call but the last waits at one of its references.
WaitAtReference ==
  \A k \in 1..Len(stack) : k < Len(stack) =>
    stack[k].next <= Len(program[stack[k].item].refs)

\* The inductive invariant.
IInv ==
  /\ TypeOK
  /\ PhasesInOrder
  /\ PassedAreEvaluated
  /\ OutermostIsCursor
  /\ WaitAtReference
  /\ PendingOrEvaluated
  /\ NothingLeftPending
  /\ NoDanglingReference

LEMMA ProgramFields ==
  ASSUME TypeOK
  PROVE  /\ Len(program) \in Nat
         /\ Items = 1..Len(program)
         /\ \A i \in TypeItems : i \in Items /\ program[i].refs \in Seq(Refs)
         /\ \A i \in Items : program[i].kind \in {"ns", "type"}
  <1>1. program \in Seq(Item) /\ Len(program) \in Nat
    BY DEF TypeOK
  <1>2. \A i \in Items : program[i] \in Item
    BY <1>1 DEF Items
  <1>3. \A i \in Items : program[i].kind \in {"ns", "type"}
    BY <1>2 DEF Item
  <1>4. \A i \in TypeItems : i \in Items /\ program[i].refs \in Seq(Refs)
    BY <1>2 DEF Item, TypeItems
  <1> QED
    BY <1>1, <1>3, <1>4 DEF Items

LEMMA StackFields ==
  ASSUME TypeOK
  PROVE  /\ stack \in Seq(Frames) /\ Len(stack) \in Nat
         /\ stack # <<>> => /\ Len(stack) >= 1
                            /\ Top \in Frames
                            /\ Current \in TypeItems
                            /\ Top.next \in Nat \ {0}
  <1>1. stack \in Seq(Frames) /\ Len(stack) \in Nat
    BY DEF TypeOK, Frames
  <1>2. ASSUME stack # <<>>
        PROVE  Len(stack) >= 1 /\ Top \in Frames
    BY <1>1, <1>2 DEF Top
  <1> QED
    BY <1>1, <1>2 DEF Current, Frames

\* Moving the last frame on keeps the items and the other frames.
LEMMA AdvanceFrames ==
  ASSUME NEW F \in Seq(Frames), F # <<>>, NEW n \in Nat
  PROVE  /\ Advance(F, n) \in Seq(Frames)
         /\ Len(Advance(F, n)) = Len(F)
         /\ Advance(F, n) # <<>>
         /\ \A k \in 1..Len(F) : Advance(F, n)[k].item = F[k].item
         /\ \A k \in 1..Len(F) : k < Len(F) => Advance(F, n)[k] = F[k]
  <1> DEFINE A == Advance(F, n)
             m == Len(F)
  <1>1. m \in Nat /\ m >= 1 /\ F[m] \in Frames
    OBVIOUS
  <1>2. F[m].next + n \in Nat \ {0} /\ F[m].item \in TypeItems
    BY <1>1 DEF Frames
  <1>3. A = [F EXCEPT ![m] = [item |-> F[m].item, next |-> F[m].next + n]]
    BY <1>1 DEF Advance
  <1>4. [item |-> F[m].item, next |-> F[m].next + n] \in Frames
    BY <1>2 DEF Frames
  <1>5. A \in Seq(Frames) /\ Len(A) = m
    BY <1>1, <1>3, <1>4
  <1>6. \A k \in 1..m : k < m => A[k] = F[k]
    BY <1>1, <1>3
  <1>7. A[m].item = F[m].item
    BY <1>1, <1>3
  <1>8. \A k \in 1..m : A[k].item = F[k].item
    BY <1>1, <1>6, <1>7
  <1>9. A # <<>>
    BY <1>1, <1>5
  <1> QED
    BY <1>5, <1>6, <1>8, <1>9

\* The frames below the last one.
LEMMA CallerFrames ==
  ASSUME NEW F \in Seq(Frames), F # <<>>
  PROVE  /\ SubSeq(F, 1, Len(F) - 1) \in Seq(Frames)
         /\ Len(SubSeq(F, 1, Len(F) - 1)) = Len(F) - 1
         /\ \A k \in 1..Len(F) - 1 : SubSeq(F, 1, Len(F) - 1)[k] = F[k]
  <1> DEFINE n == Len(F) - 1
  <1>1. n \in Nat /\ \A i \in 1..n : F[i] \in Frames
    OBVIOUS
  <1> HIDE DEF n
  <1>2. /\ SubSeq(F, 1, n) \in Seq(Frames)
        /\ Len(SubSeq(F, 1, n)) = IF 1 <= n THEN n - 1 + 1 ELSE 0
        /\ \A i \in 1..n - 1 + 1 : SubSeq(F, 1, n)[i] = F[1 + i - 1]
    BY <1>1, SubSeqProperties
  <1>3. Len(SubSeq(F, 1, n)) = n
    BY <1>1, <1>2
  <1>4. \A k \in 1..n : SubSeq(F, 1, n)[k] = F[k]
    BY <1>1, <1>2
  <1> QED
    BY <1>2, <1>3, <1>4 DEF n

\* What is known of the types of definitions and references are types again.
Entries == [item : TypeItems, ref : Nat, type : Types]

LEMMA MetTyped ==
  ASSUME TypeOK, NEW i, NEW ks
  PROVE  Met(i, ks) \in SUBSET Leaves
  <1>1. \A y \in types : y.type.meets \subseteq Leaves
    BY DEF TypeOK, Types
  <1> QED
    BY <1>1 DEF Met

LEMMA InnerTyped ==
  ASSUME TypeOK, NEW i
  PROVE  Inner(i) \subseteq Types
  <1>1. Met(i, Own(i)) \in SUBSET Leaves
    BY MetTyped
  <1>2. TypeAt(i, 1) \subseteq Types
    BY DEF TypeAt, TypeOK
  <1>3. {} \in SUBSET Leaves
    OBVIOUS
  <1> QED
    BY <1>1, <1>2, <1>3 DEF Inner, Types

LEMMA LeafTyped ==
  /\ \A n \in Nat : Leaf("param", n) \in Types
  /\ \A i \in TypeItems : Leaf("self", i) \in Types /\ Leaf("generic", i) \in Types
  BY DEF Leaf, Types, Leaves

LEMMA DefinedTyped ==
  ASSUME TypeOK, NEW i \in TypeItems
  PROVE  Defined(i) \subseteq Types
  BY InnerTyped, LeafTyped DEF Defined

LEMMA TypedTyped ==
  ASSUME TypeOK, NEW frame, frame.item \in TypeItems, frame.next \in Nat, NEW ts \in SUBSET Types
  PROVE  Typed(frame, ts) \subseteq Entries
  BY DEF TypeOK, Typed, Entries

LEMMA InstancesTyped ==
  ASSUME TypeOK, NEW inner \in Types, NEW k
  PROVE  Instances(inner, k) \subseteq Types
  <1>1. \A n : Passed(k, n) \subseteq Types
    <2>1. \A i, m : TypeAt(i, m) \subseteq Types
      BY DEF TypeAt, TypeOK
    <2> QED
      BY <2>1 DEF Passed
  <1> DEFINE params == {leaf[2] : leaf \in {leaf \in inner.meets : leaf[1] = "param"}}
             met == UNION {t.meets : t \in UNION {Passed(k, n) : n \in params}}
  <1>2. met \in SUBSET Leaves
    <2>1. \A n \in params : \A t \in Passed(k, n) : t.meets \subseteq Leaves
      BY <1>1 DEF Types
    <2> HIDE DEF params
    <2> QED
      BY <2>1
  <1>3. UNION {Passed(k, n) : n \in params} \subseteq Types
    BY <1>1
  <1>4. Met(Current, ArgsOf(Current, k)) \in SUBSET Leaves
    BY MetTyped
  <1>5. inner.head \in {"leaf", "builtin", "record", "instance"} /\ {} \in SUBSET Leaves
    BY DEF Types
  <1>6. /\ [head |-> "builtin", meets |-> {}] \in Types
        /\ [head |-> "instance", meets |-> met] \in Types
        /\ [head |-> "instance", meets |-> Met(Current, ArgsOf(Current, k))] \in Types
    BY <1>2, <1>4, <1>5 DEF Types
  <1> HIDE DEF params, met
  <1>7. Instances(inner, k) =
          CASE inner.head = "leaf" -> UNION {Passed(k, n) : n \in params}
            [] inner.head = "builtin" -> {[head |-> "builtin", meets |-> {}]}
            [] inner.head = "record" -> {[head |-> "instance", meets |-> Met(Current, ArgsOf(Current, k))]}
            [] inner.head = "instance" -> {[head |-> "instance", meets |-> met]}
    BY DEF Instances, params, met
  <1> QED
    BY <1>3, <1>5, <1>6, <1>7

LEMMA InitIInv == Init => IInv
  <1> SUFFICES ASSUME Init PROVE IInv
    OBVIOUS
  <1>1. program \in Seq(Item)
    BY TypeDefnsAssumption DEF Init
  <1>2. Len(program) \in Nat /\ MaxStack \in Nat
    BY <1>1, TypeDefnsAssumption
  <1>3. TypeOK
    BY <1>1, <1>2 DEF Init, TypeOK
  <1> QED
    BY <1>3 DEF Init, IInv, PhasesInOrder, PassedAreEvaluated, OutermostIsCursor, WaitAtReference,
                PendingOrEvaluated, NothingLeftPending, NoDanglingReference

\* A failure and the end of the stack stop the third phase where it is.
LEMMA StopKeeps ==
  ASSUME IInv, phase' \in {"failed", "crashed", "overflow"},
         UNCHANGED <<program, cursor, spaces, pending, mapping, stack, resolved, types, companions>>
  PROVE  IInv'
  <1>1. TypeItems' = TypeItems /\ Items' = Items
    BY DEF TypeItems, Items
  <1>2. Leaves' = Leaves /\ Types' = Types
    BY <1>1 DEF Leaves, Types
  <1>3. TypeOK'
    BY <1>1, <1>2 DEF IInv, TypeOK, Over
  <1>4. NoDanglingReference' /\ OutermostIsCursor' /\ WaitAtReference'
    BY <1>1 DEF IInv, NoDanglingReference, OutermostIsCursor, WaitAtReference
  <1> QED
    BY <1>1, <1>3, <1>4 DEF IInv, PhasesInOrder, PassedAreEvaluated, PendingOrEvaluated, NothingLeftPending

LEMMA FailKeeps == ASSUME IInv, Fail PROVE IInv'
  BY StopKeeps DEF Fail

\* A call pushes a frame at the definition's first reference, or stops.
LEMMA CallKeeps ==
  ASSUME IInv, phase = "eval", NEW i \in TypeItems, Call(i),
         stack = <<>> => cursor \in Items /\ i = cursor,
         stack # <<>> => Top.next <= Len(program[Current].refs)
  PROVE  IInv'
  <1> DEFINE frame == [item |-> i, next |-> 1]
  <1>1. CASE Len(stack) = MaxStack
    BY <1>1, StopKeeps DEF Call
  <1>2. CASE Len(stack) # MaxStack /\ ~Distinct(program[i].params)
    <2>1. Len(stack) < MaxStack
      BY <1>2, TypeDefnsAssumption, StackFields DEF IInv, TypeOK
    <2> QED
      BY <1>2, <2>1, FailKeeps DEF Call
  <1>3. CASE Len(stack) # MaxStack /\ Distinct(program[i].params)
    <2>1. /\ stack' = Append(stack, frame)
          /\ UNCHANGED <<program, phase, cursor, spaces, pending, mapping, resolved, types, companions>>
      BY <1>3 DEF Call
    <2>2. Len(stack) \in Nat /\ stack \in Seq(Frames) /\ MaxStack \in Nat /\ Len(stack) < MaxStack
      BY <1>3, TypeDefnsAssumption, StackFields DEF IInv, TypeOK
    <2>3. frame \in Frames
      BY DEF Frames
    <2>4. /\ stack' \in Seq(Frames)
          /\ Len(stack') = Len(stack) + 1
          /\ \A k \in 1..Len(stack) : stack'[k] = stack[k]
          /\ stack'[Len(stack) + 1] = frame
      BY <2>1, <2>2, <2>3
    <2> HIDE DEF frame
    <2>5. Frames' = Frames /\ TypeItems' = TypeItems /\ Items' = Items /\ Types' = Types
      BY <2>1 DEF Frames, TypeItems, Items, Types, Leaves
    <2>6. TypeOK'
      BY <2>1, <2>2, <2>4, <2>5 DEF IInv, TypeOK, Frames
    <2>7. OutermostIsCursor'
      <3>1. CASE stack = <<>>
        <4>1. stack'[1].item = i
          BY <2>4, <3>1 DEF frame
        <4> QED
          BY <2>1, <2>5, <3>1, <4>1 DEF OutermostIsCursor
      <3>2. CASE stack # <<>>
        <4>1. stack'[1] = stack[1]
          BY <2>2, <2>4, <3>2
        <4> QED
          BY <2>1, <2>5, <3>2, <4>1 DEF OutermostIsCursor, IInv
      <3> QED
        BY <3>1, <3>2
    <2>8. WaitAtReference'
      <3> SUFFICES ASSUME NEW k \in 1..Len(stack'), k < Len(stack')
                   PROVE  stack'[k].next <= Len(program[stack'[k].item].refs)
        BY <2>1 DEF WaitAtReference
      <3>1. k \in 1..Len(stack) /\ stack'[k] = stack[k]
        BY <2>2, <2>4
      <3>2. CASE k < Len(stack)
        BY <3>1, <3>2 DEF IInv, WaitAtReference
      <3>3. CASE k = Len(stack)
        <4>1. stack # <<>> /\ Top = stack[k]
          BY <3>1, <3>3 DEF Top
        <4> QED
          BY <3>1, <4>1 DEF Current
      <3> QED
        BY <2>2, <3>1, <3>2, <3>3
    <2> QED
      BY <2>1, <2>5, <2>6, <2>7, <2>8 DEF IInv, PhasesInOrder, PassedAreEvaluated,
         PendingOrEvaluated, NothingLeftPending, NoDanglingReference
  <1> QED
    BY <1>1, <1>2, <1>3

\* A reference that comes to a type, a type parameter or the definition itself.
LEMMA ResolveKeeps ==
  ASSUME IInv, HasRef, NEW to \in {0, Current} \cup mapping, NEW applied \in BOOLEAN, NEW n \in Nat,
         resolved' = Comes(Top, to, applied),
         types' \subseteq Entries,
         stack' = Advance(stack, n),
         UNCHANGED <<program, phase, cursor, spaces, pending, mapping, companions>>
  PROVE  IInv'
  <1> DEFINE r == [item |-> Top.item, ref |-> Top.next, to |-> to, applied |-> applied]
  <1>1. stack # <<>> /\ phase = "eval" /\ resolved' = resolved \cup {r}
    BY DEF HasRef, Evaluating, Comes
  <1>2. Current \in TypeItems /\ Top.next \in Nat \ {0} /\ Top.item = Current
        /\ stack \in Seq(Frames) /\ Len(stack) \in Nat
    BY <1>1, StackFields DEF IInv, Current
  <1>3. /\ stack' \in Seq(Frames)
        /\ Len(stack') = Len(stack)
        /\ stack' # <<>>
        /\ \A k \in 1..Len(stack) : stack'[k].item = stack[k].item
        /\ \A k \in 1..Len(stack) : k < Len(stack) => stack'[k] = stack[k]
    BY <1>1, <1>2, AdvanceFrames
  <1>4. Frames' = Frames /\ TypeItems' = TypeItems /\ Items' = Items /\ Types' = Types
    BY DEF Frames, TypeItems, Items, Types, Leaves
  <1>5. mapping \subseteq TypeItems
    BY DEF IInv, TypeOK
  <1>6. r \in [item : TypeItems, ref : Nat, to : {0} \cup TypeItems, applied : BOOLEAN]
    BY <1>2, <1>5
  <1>7. r.item = Current /\ r.to = to
    BY <1>2
  <1> HIDE DEF r
  <1>8. TypeOK'
    BY <1>1, <1>3, <1>4, <1>6 DEF IInv, TypeOK, Frames, Entries
  <1>9. OutermostIsCursor'
    <2>1. 1 \in 1..Len(stack)
      BY <1>1, <1>2
    <2> QED
      BY <1>1, <1>3, <1>4, <2>1 DEF IInv, OutermostIsCursor
  <1>10. WaitAtReference'
    BY <1>3 DEF IInv, WaitAtReference
  <1>11. NoDanglingReference'
    BY <1>1, <1>7 DEF IInv, NoDanglingReference
  <1> QED
    BY <1>1, <1>4, <1>8, <1>9, <1>10, <1>11 DEF IInv, PhasesInOrder, PassedAreEvaluated,
       PendingOrEvaluated, NothingLeftPending

\* The end of a definition: it is evaluated, no longer pending, and its caller,
\* if there is one, goes on behind the reference.
LEMMA ReturnKeeps ==
  ASSUME IInv, Evaluating, Return
  PROVE  IInv'
  <1> DEFINE caller == SubSeq(stack, 1, Len(stack) - 1)
             last == caller[Len(caller)]
  <1>1. stack # <<>> /\ phase = "eval"
    BY DEF Evaluating
  <1>2. Current \in TypeItems /\ stack \in Seq(Frames) /\ Len(stack) \in Nat /\ Len(stack) >= 1
    BY <1>1, StackFields DEF IInv
  <1>3. /\ caller \in Seq(Frames)
        /\ Len(caller) = Len(stack) - 1
        /\ \A k \in 1..Len(caller) : caller[k] = stack[k]
        /\ caller # <<>> => Len(caller) >= 1
        /\ caller = <<>> => Len(caller) = 0
    <2>1. /\ caller \in Seq(Frames)
          /\ Len(caller) = Len(stack) - 1
          /\ \A k \in 1..Len(stack) - 1 : caller[k] = stack[k]
      BY <1>1, <1>2, CallerFrames
    <2> HIDE DEF caller
    <2>2. caller # <<>> => Len(caller) >= 1
      BY <2>1
    <2>3. caller = <<>> => Len(caller) = 0
      OBVIOUS
    <2> QED
      BY <2>1, <2>2, <2>3
  <1>4. /\ mapping' = mapping \cup {Current}
        /\ pending' = pending \ {Current}
        /\ companions' = companions \cup {<<s, Current>> : s \in In(spaces, Scope(Current), Name(Current))}
        /\ UNCHANGED <<program, phase, spaces>>
    BY DEF Return
  <1>5. Frames' = Frames /\ TypeItems' = TypeItems /\ Items' = Items /\ Types' = Types
    BY <1>4 DEF Frames, TypeItems, Items, Types, Leaves
  <1>6. /\ phase' \in {"ns", "defn", "eval"} \cup Over
        /\ spaces' \subseteq 0..Len(program)
        /\ pending' \subseteq TypeItems
        /\ mapping' \subseteq TypeItems
        /\ companions' \subseteq (0..Len(program)) \X TypeItems
    <2>1. In(spaces, Scope(Current), Name(Current)) \subseteq 0..Len(program)
      BY DEF In, IInv, TypeOK
    <2> QED
      BY <1>2, <1>4, <2>1 DEF IInv, TypeOK
  <1>7. PendingOrEvaluated'
    <2>1. pending = TypeItems \ mapping
      BY <1>1 DEF IInv, PendingOrEvaluated
    <2> QED
      BY <1>4, <1>5, <2>1 DEF PendingOrEvaluated
  <1>8. CASE caller = <<>>
    <2>1. stack' = <<>> /\ cursor' = cursor + 1 /\ resolved' = resolved /\ types' = types
      BY <1>8 DEF Return
    <2>2. cursor \in Items /\ Current = cursor
      <3>1. Len(caller) = 0
        BY <1>3, <1>8
      <3>2. Len(stack) = 1
        BY <1>2, <1>3, <3>1
      <3> QED
        BY <1>1, <3>2 DEF IInv, OutermostIsCursor, Current, Top
    <2>3. cursor \in Nat /\ cursor' \in 1..Len(program) + 1
      BY <2>1, <2>2, ProgramFields DEF IInv
    <2>4. TypeOK'
      <3>1. stack' \in Seq(Frames) /\ Len(stack') <= MaxStack
        BY <2>1, TypeDefnsAssumption
      <3>2. /\ resolved' \subseteq [item : TypeItems, ref : Nat, to : {0} \cup TypeItems, applied : BOOLEAN]
            /\ types' \subseteq Entries
        BY <2>1 DEF IInv, TypeOK, Entries
      <3> QED
        BY <1>4, <1>5, <1>6, <2>3, <3>1, <3>2 DEF IInv, TypeOK, Frames, Entries
    <2>5. PassedAreEvaluated'
      <3> SUFFICES ASSUME NEW i \in TypeItems, i < cursor + 1
                   PROVE  i \in mapping \cup {Current}
        BY <1>1, <1>4, <1>5, <2>1 DEF PassedAreEvaluated
      <3>1. i \in Nat /\ (i < cursor \/ i = cursor)
        BY <2>3, ProgramFields DEF IInv
      <3> QED
        BY <1>1, <2>2, <3>1 DEF IInv, PassedAreEvaluated
    <2>6. OutermostIsCursor' /\ WaitAtReference'
      BY <2>1 DEF OutermostIsCursor, WaitAtReference
    <2>7. NoDanglingReference'
      BY <1>4, <2>1 DEF IInv, NoDanglingReference
    <2> QED
      BY <1>1, <1>4, <1>7, <2>4, <2>5, <2>6, <2>7 DEF IInv, PhasesInOrder, NothingLeftPending
  <1>9. CASE caller # <<>>
    <2> DEFINE n == 1 + program[last.item].refs[last.next].args
               r == [item |-> last.item, ref |-> last.next, to |-> Current, applied |-> FALSE]
    <2>1. Len(caller) >= 1 /\ last \in Frames /\ last = stack[Len(caller)]
          /\ Len(caller) \in 1..Len(stack) /\ Len(caller) < Len(stack)
      BY <1>2, <1>3, <1>9
    <2>2. last.item \in TypeItems /\ last.next \in Nat \ {0}
      BY <2>1 DEF Frames
    <2>3. n \in Nat
      <3>1. last.next <= Len(program[last.item].refs)
        BY <2>1 DEF IInv, WaitAtReference
      <3>2. program[last.item].refs \in Seq(Refs)
        BY <2>2, ProgramFields DEF IInv
      <3>3. program[last.item].refs[last.next] \in Refs
        <4> HIDE DEF last
        <4> QED
          BY <2>2, <3>1, <3>2
      <3>4. program[last.item].refs[last.next].args \in Nat
        <4> HIDE DEF last
        <4> QED
          BY <3>3 DEF Refs
      <3> HIDE DEF last
      <3> QED
        BY <3>4
    <2>4. stack' = Advance(caller, n) /\ resolved' = resolved \cup {r} /\ cursor' = cursor
      BY <1>9 DEF Return, Comes
    <2>11. types' = Typed(last, Defined(Current))
      BY <1>9 DEF Return
    <2> HIDE DEF n
    <2>5. /\ stack' \in Seq(Frames)
          /\ Len(stack') = Len(caller)
          /\ stack' # <<>>
          /\ \A k \in 1..Len(caller) : stack'[k].item = caller[k].item
          /\ \A k \in 1..Len(caller) : k < Len(caller) => stack'[k] = caller[k]
      BY <1>3, <1>9, <2>3, <2>4, AdvanceFrames
    <2> HIDE DEF caller, last
    <2>6. r \in [item : TypeItems, ref : Nat, to : {0} \cup TypeItems, applied : BOOLEAN]
          /\ r.item = last.item /\ r.to = Current
      BY <1>2, <2>2
    <2> HIDE DEF r
    <2>7. TypeOK'
      <3>1. Len(stack') <= MaxStack
        BY <1>2, <1>3, <2>5, TypeDefnsAssumption DEF IInv, TypeOK
      <3>2. resolved' \subseteq [item : TypeItems, ref : Nat, to : {0} \cup TypeItems, applied : BOOLEAN]
        BY <2>4, <2>6 DEF IInv, TypeOK
      <3>3. cursor' \in 1..Len(program) + 1
        BY <2>4 DEF IInv, TypeOK
      <3>4. types' \subseteq Entries
        BY <1>2, <2>2, <2>11, DefinedTyped, TypedTyped DEF IInv
      <3> QED
        BY <1>4, <1>5, <1>6, <2>5, <3>1, <3>2, <3>3, <3>4 DEF IInv, TypeOK, Frames, Entries
    <2>8. OutermostIsCursor'
      <3>1. stack'[1].item = stack[1].item
        BY <1>3, <2>1, <2>5
      <3> QED
        BY <1>1, <1>5, <2>4, <3>1 DEF IInv, OutermostIsCursor
    <2>9. WaitAtReference'
      <3> SUFFICES ASSUME NEW k \in 1..Len(stack'), k < Len(stack')
                   PROVE  stack'[k].next <= Len(program[stack'[k].item].refs)
        BY <1>4 DEF WaitAtReference
      <3>1. stack'[k] = stack[k] /\ k \in 1..Len(stack) /\ k < Len(stack)
        BY <1>2, <1>3, <2>5
      <3> QED
        BY <3>1 DEF IInv, WaitAtReference
    <2>10. NoDanglingReference' /\ PassedAreEvaluated'
      BY <1>4, <1>5, <2>4, <2>6 DEF IInv, NoDanglingReference, PassedAreEvaluated
    <2> QED
      BY <1>1, <1>4, <1>7, <2>7, <2>8, <2>9, <2>10 DEF IInv, PhasesInOrder, NothingLeftPending
  <1> QED
    BY <1>8, <1>9

LEMMA FoundIsEvaluated == Found \subseteq mapping
  <1>1. CASE Ref.path = <<>>
    BY <1>1 DEF Found, Nearest
  <1>2. CASE Ref.path # <<>>
    BY <1>2 DEF Found, In
  <1> QED
    BY <1>1, <1>2

LEMMA NextKeepsIInv == IInv /\ [Next]_vars => IInv'
  <1> SUFFICES ASSUME IInv, [Next]_vars PROVE IInv'
    OBVIOUS
  <1> USE DEF PhasesInOrder
  <1>1. TypeOK /\ Len(program) \in Nat /\ Items = 1..Len(program) /\ cursor \in 1..Len(program) + 1
    BY ProgramFields DEF IInv, TypeOK
  <1>2. ASSUME CreateNamespace PROVE IInv'
    <2>1. CASE In(spaces, Scope(cursor), Name(cursor)) # {}
      BY <1>2, <2>1, FailKeeps DEF CreateNamespace
    <2>2. CASE In(spaces, Scope(cursor), Name(cursor)) = {}
      <3>1. /\ phase = "ns" /\ cursor \in Items
            /\ spaces' = spaces \cup {cursor} /\ cursor' = cursor + 1
            /\ UNCHANGED <<program, phase, pending, mapping, stack, resolved, types, companions>>
        BY <1>2, <2>2 DEF CreateNamespace
      <3>2. TypeItems' = TypeItems /\ Items' = Items /\ Types' = Types
        BY <3>1 DEF TypeItems, Items, Types, Leaves
      <3>3. spaces' \subseteq 0..Len(program) /\ cursor' \in 1..Len(program) + 1
        BY <1>1, <3>1 DEF TypeOK
      <3>4. TypeOK'
        BY <1>1, <3>1, <3>2, <3>3 DEF TypeOK
      <3> QED
        BY <3>1, <3>2, <3>4 DEF IInv, PassedAreEvaluated, OutermostIsCursor, WaitAtReference,
           PendingOrEvaluated, NothingLeftPending, NoDanglingReference
    <2> QED
      BY <2>1, <2>2
  <1>3. ASSUME AddPending PROVE IInv'
    <2>1. CASE In(pending, Scope(cursor), Name(cursor)) # {}
      BY <1>3, <2>1, FailKeeps DEF AddPending
    <2>2. CASE In(pending, Scope(cursor), Name(cursor)) = {}
      <3>1. /\ phase = "defn" /\ cursor \in Items /\ program[cursor].kind = "type"
            /\ pending' = pending \cup {cursor} /\ cursor' = cursor + 1
            /\ UNCHANGED <<program, phase, spaces, mapping, stack, resolved, types, companions>>
        BY <1>3, <2>2 DEF AddPending
      <3>2. TypeItems' = TypeItems /\ Items' = Items /\ Types' = Types /\ cursor \in TypeItems
        BY <3>1 DEF TypeItems, Items, Types, Leaves
      <3>3. cursor' \in 1..Len(program) + 1
        BY <1>1, <3>1
      <3>4. TypeOK'
        BY <1>1, <3>1, <3>2, <3>3 DEF TypeOK
      <3>5. pending' = {i \in TypeItems : i < cursor'}
        <4>1. pending = {i \in TypeItems : i < cursor}
          BY <3>1 DEF IInv
        <4>2. \A i \in TypeItems : i < cursor + 1 <=> i < cursor \/ i = cursor
          BY <1>1 DEF TypeItems
        <4> QED
          BY <3>1, <3>2, <4>1, <4>2
      <3> QED
        BY <3>1, <3>2, <3>4, <3>5 DEF IInv, PassedAreEvaluated, OutermostIsCursor, WaitAtReference,
           PendingOrEvaluated, NothingLeftPending, NoDanglingReference
    <2> QED
      BY <2>1, <2>2
  <1>4. ASSUME PassOver PROVE IInv'
    <2>1. /\ cursor \in Items /\ stack = <<>> /\ cursor' = cursor + 1
          /\ UNCHANGED <<program, phase, spaces, pending, mapping, stack, resolved, types, companions>>
          /\ phase = "defn" => program[cursor].kind = "ns"
          /\ phase = "eval" => (program[cursor].kind = "type" => cursor \in mapping)
      BY <1>4 DEF PassOver
    <2>2. TypeItems' = TypeItems /\ Items' = Items /\ Types' = Types
      BY <2>1 DEF TypeItems, Items, Types, Leaves
    <2>3. cursor' \in 1..Len(program) + 1
      BY <1>1, <2>1
    <2>4. TypeOK'
      BY <1>1, <2>1, <2>2, <2>3 DEF TypeOK
    <2>5. \A i \in TypeItems : i < cursor + 1 <=> i < cursor \/ i = cursor
      BY <1>1 DEF TypeItems
    <2>6. PhasesInOrder'
      <3>1. phase = "defn" => cursor \notin TypeItems
        BY <2>1 DEF TypeItems
      <3>2. phase = "defn" => pending' = {i \in TypeItems : i < cursor + 1}
        BY <2>1, <2>5, <3>1 DEF IInv
      <3> QED
        BY <2>1, <2>2, <3>2 DEF IInv
    <2>7. PassedAreEvaluated'
      <3>1. phase = "eval" /\ cursor \in TypeItems => cursor \in mapping
        BY <2>1 DEF TypeItems
      <3> QED
        BY <2>1, <2>2, <2>5, <3>1 DEF IInv, PassedAreEvaluated
    <2> QED
      BY <2>1, <2>2, <2>4, <2>6, <2>7 DEF IInv, OutermostIsCursor, WaitAtReference,
         PendingOrEvaluated, NothingLeftPending, NoDanglingReference
  <1>5. ASSUME EndPhase PROVE IInv'
    <2>1. /\ phase \in {"ns", "defn", "eval"} /\ cursor = Len(program) + 1 /\ cursor' = 1
          /\ phase = "ns" => phase' = "defn"
          /\ phase = "defn" => phase' = "eval"
          /\ phase = "eval" => phase' = IF pending = {} THEN "done" ELSE "panic"
          /\ UNCHANGED <<program, spaces, pending, mapping, stack, resolved, types, companions>>
      BY <1>5 DEF EndPhase
    <2>2. TypeItems' = TypeItems /\ Items' = Items /\ Types' = Types
      BY <2>1 DEF TypeItems, Items, Types, Leaves
    <2>3. \A i \in TypeItems : i < cursor /\ ~(i < 1)
      BY <1>1, <2>1 DEF TypeItems
    <2>4. stack = <<>>
      BY <1>1, <2>1 DEF IInv, OutermostIsCursor
    <2>5. CASE phase = "ns"
      <3>1. phase' = "defn" /\ pending' = {}
        BY <2>1, <2>5 DEF IInv
      <3>2. pending' = {i \in TypeItems : i < cursor'}
        BY <2>1, <2>3, <3>1
      <3>3. TypeOK'
        BY <1>1, <2>1, <2>2, <3>1 DEF TypeOK
      <3> QED
        BY <2>1, <2>2, <2>4, <2>5, <3>1, <3>2, <3>3 DEF IInv, PassedAreEvaluated, OutermostIsCursor,
           WaitAtReference, PendingOrEvaluated, NothingLeftPending, NoDanglingReference
    <2>6. CASE phase = "defn"
      <3>1. phase' = "eval" /\ mapping = {}
        BY <2>1, <2>6 DEF IInv
      <3>2. pending' = TypeItems
        BY <2>1, <2>3, <2>6 DEF IInv
      <3>3. TypeOK'
        BY <1>1, <2>1, <2>2, <3>1 DEF TypeOK
      <3>4. PassedAreEvaluated'
        BY <2>1, <2>2, <2>3 DEF PassedAreEvaluated
      <3> QED
        BY <2>1, <2>2, <2>4, <3>1, <3>2, <3>3, <3>4 DEF IInv, OutermostIsCursor,
           WaitAtReference, PendingOrEvaluated, NothingLeftPending, NoDanglingReference
    <2>7. CASE phase = "eval"
      <3>1. pending = TypeItems \ mapping
        BY <2>7 DEF IInv, PendingOrEvaluated
      <3>2. TypeItems \subseteq mapping
        BY <2>3, <2>7 DEF IInv, PassedAreEvaluated
      <3>3. phase' = "done"
        BY <2>1, <2>7, <3>1, <3>2
      <3>4. TypeOK'
        BY <1>1, <2>1, <2>2, <3>3 DEF TypeOK, Over
      <3> QED
        BY <2>1, <2>2, <2>4, <3>1, <3>3, <3>4 DEF IInv, PassedAreEvaluated, OutermostIsCursor,
           WaitAtReference, PendingOrEvaluated, NothingLeftPending, NoDanglingReference
    <2> QED
      BY <2>1, <2>5, <2>6, <2>7
  <1>6. ASSUME EvalTop PROVE IInv'
    <2>1. phase = "eval" /\ stack = <<>> /\ cursor \in Items /\ cursor \in TypeItems /\ Call(cursor)
      BY <1>6 DEF EvalTop, TypeItems
    <2> QED
      BY <2>1, CallKeeps
  <1>7. ASSUME NoSuchNamespace PROVE IInv'
    BY <1>7, FailKeeps DEF NoSuchNamespace
  <1>10. ASSUME HasRef
         PROVE  /\ stack # <<>> /\ phase = "eval" /\ Current \in TypeItems
                /\ Top.item \in TypeItems /\ Top.next \in Nat
                /\ Top.next <= Len(program[Current].refs)
                /\ Ref.args \in Nat
    <2>1. stack # <<>> /\ phase = "eval" /\ Top.next <= Len(program[Current].refs)
      BY <1>10 DEF HasRef, Evaluating
    <2>2. Current \in TypeItems /\ Top.next \in Nat \ {0} /\ Top.item = Current
      BY <2>1, StackFields DEF IInv, Current
    <2>3. program[Current].refs \in Seq(Refs)
      BY <2>2, ProgramFields DEF IInv
    <2>4. Ref \in Refs
      BY <2>1, <2>2, <2>3 DEF Ref
    <2> QED
      BY <2>1, <2>2, <2>4 DEF Refs
  <1>8. ASSUME RefToParam PROVE IInv'
    <2>1. CASE Ref.args > 0
      BY <1>8, <2>1, FailKeeps DEF RefToParam
    <2>2. CASE ~(Ref.args > 0)
      <3>1. /\ HasRef
            /\ resolved' = Comes(Top, 0, FALSE)
            /\ types' = Typed(Top, {Leaf("param", n) : n \in ParamsNamed(Current, Ref.name)})
            /\ stack' = Advance(stack, 1)
            /\ UNCHANGED <<program, phase, cursor, spaces, pending, mapping, companions>>
        BY <1>8, <2>2 DEF RefToParam
      <3>2. {Leaf("param", n) : n \in ParamsNamed(Current, Ref.name)} \in SUBSET Types
        BY LeafTyped DEF ParamsNamed
      <3>3. types' \subseteq Entries
        BY <1>1, <1>10, <3>1, <3>2, TypedTyped
      <3> QED
        BY <3>1, <3>3, ResolveKeeps
    <2> QED
      BY <2>1, <2>2
  <1>9. ASSUME RefToType PROVE IInv'
    <2>1. PICK t \in Found :
            IF Ref.args > 0 /\ Generics(t) = {} THEN Fail
            ELSE /\ resolved' = Comes(Top, t, Ref.args > 0)
                 /\ types' = IF Ref.args > 0 THEN types ELSE Typed(Top, Defined(t))
                 /\ stack' = Advance(stack, 1)
                 /\ UNCHANGED <<program, phase, cursor, spaces, pending, mapping, companions>>
      BY <1>9 DEF RefToType
    <2>2. CASE Ref.args > 0 /\ Generics(t) = {}
      BY <2>1, <2>2, FailKeeps
    <2>3. CASE ~(Ref.args > 0 /\ Generics(t) = {})
      <3>1. t \in mapping /\ HasRef /\ (Ref.args > 0) \in BOOLEAN
        BY <1>9, FoundIsEvaluated DEF RefToType
      <3>2. /\ resolved' = Comes(Top, t, Ref.args > 0)
            /\ types' = IF Ref.args > 0 THEN types ELSE Typed(Top, Defined(t))
            /\ stack' = Advance(stack, 1)
            /\ UNCHANGED <<program, phase, cursor, spaces, pending, mapping, companions>>
        BY <2>1, <2>3
      <3>3. t \in TypeItems /\ types \subseteq Entries
        BY <1>1, <3>1 DEF TypeOK, Entries
      <3>4. types' \subseteq Entries
        BY <1>1, <1>10, <3>1, <3>2, <3>3, DefinedTyped, TypedTyped
      <3> QED
        BY <3>1, <3>2, <3>4, ResolveKeeps
    <2> QED
      BY <2>2, <2>3
  <1>11. ASSUME RefToSelf PROVE IInv'
    <2>1. /\ HasRef
          /\ resolved' = Comes(Top, Current, FALSE)
          /\ types' = Typed(Top, {Leaf("self", Current)})
          /\ stack' = Advance(stack, 1 + Ref.args)
          /\ UNCHANGED <<program, phase, cursor, spaces, pending, mapping, companions>>
      BY <1>11 DEF RefToSelf, Undefined
    <2>2. 1 + Ref.args \in Nat
      BY <2>1, <1>10
    <2>3. {Leaf("self", Current)} \in SUBSET Types
      BY <2>1, <1>10, LeafTyped
    <2>4. types' \subseteq Entries
      BY <1>1, <1>10, <2>1, <2>3, TypedTyped
    <2> QED
      BY <2>1, <2>2, <2>4, ResolveKeeps
  <1>12. ASSUME RefToPending PROVE IInv'
    <2>1. HasRef /\ \E i \in Nearest(pending, Scope(Current), Ref.name) : Call(i)
      BY <1>12 DEF RefToPending, Undefined
    <2>2. PICK i \in Nearest(pending, Scope(Current), Ref.name) : Call(i)
      BY <2>1
    <2>3. i \in TypeItems
      BY <2>2 DEF Nearest, IInv, TypeOK
    <2> QED
      BY <1>10, <2>1, <2>2, <2>3, CallKeeps
  <1>13. ASSUME RefToNothing PROVE IInv'
    BY <1>13, FailKeeps DEF RefToNothing
  <1>14. ASSUME EndDefn PROVE IInv'
    <2>1. CASE OwnAlias(Current)
      BY <1>14, <2>1, StopKeeps DEF EndDefn
    <2>2. CASE ~OwnAlias(Current) /\ In(mapping, Scope(Current), Name(Current)) # {}
      BY <1>14, <2>2, FailKeeps DEF EndDefn
    <2>3. CASE ~OwnAlias(Current) /\ In(mapping, Scope(Current), Name(Current)) = {}
      <3>1. Evaluating /\ Return
        BY <1>14, <2>3 DEF EndDefn
      <3> QED
        BY <3>1, ReturnKeeps
    <2> QED
      BY <2>1, <2>2, <2>3
  <1>15. ASSUME UNCHANGED vars PROVE IInv'
    BY <1>15 DEF vars, IInv, TypeOK, PassedAreEvaluated, OutermostIsCursor, WaitAtReference,
       PendingOrEvaluated, NothingLeftPending, NoDanglingReference, TypeItems, Items, Types, Leaves
  <1>16. ASSUME Instantiate PROVE IInv'
    <2>1. PICK k \in Due, r \in resolved :
            \E g \in Generics(r.to) : \E inner \in Inner(g) :
              \/ phase' \in {"overflow", "crashed"} /\ types' = types
              \/ /\ types' = Typed([item |-> Current, next |-> k], Instances(inner, k))
                 /\ phase' = phase
      BY <1>16 DEF Instantiate
    <2>6. PICK g \in Generics(r.to) : \E inner \in Inner(g) :
              \/ phase' \in {"overflow", "crashed"} /\ types' = types
              \/ /\ types' = Typed([item |-> Current, next |-> k], Instances(inner, k))
                 /\ phase' = phase
      BY <2>1
    <2>2. PICK inner \in Inner(g) :
              \/ phase' \in {"overflow", "crashed"} /\ types' = types
              \/ /\ types' = Typed([item |-> Current, next |-> k], Instances(inner, k))
                 /\ phase' = phase
      BY <2>6
    <2>3. /\ stack # <<>> /\ phase = "eval"
          /\ UNCHANGED <<program, cursor, spaces, pending, mapping, stack, resolved, companions>>
      BY <1>16 DEF Instantiate, Evaluating
    <2>4. CASE phase' \in {"overflow", "crashed"} /\ types' = types
      BY <2>3, <2>4, StopKeeps
    <2>5. CASE phase' = phase /\ types' = Typed([item |-> Current, next |-> k], Instances(inner, k))
      <3>1. Current \in TypeItems /\ k \in Nat
        BY <2>3, StackFields DEF IInv, Due
      <3>2. Instances(inner, k) \in SUBSET Types
        BY <1>1, InnerTyped, InstancesTyped
      <3>3. types' \subseteq Entries
        BY <1>1, <2>5, <3>1, <3>2, TypedTyped
      <3>4. TypeItems' = TypeItems /\ Items' = Items /\ Types' = Types
        BY <2>3 DEF TypeItems, Items, Types, Leaves
      <3>5. TypeOK'
        BY <1>1, <2>3, <2>5, <3>3, <3>4 DEF TypeOK, Entries
      <3> QED
        BY <2>3, <2>5, <3>4, <3>5 DEF IInv, PassedAreEvaluated, OutermostIsCursor, WaitAtReference,
           PendingOrEvaluated, NothingLeftPending, NoDanglingReference
    <2> QED
      BY <2>2, <2>4, <2>5
  <1> QED
    BY <1>2, <1>3, <1>4, <1>5, <1>6, <1>7, <1>8, <1>9, <1>11, <1>12, <1>13, <1>14, <1>15,
       <1>16 DEF Next, Work, Finished

THEOREM Inductive == Spec => []IInv
  BY InitIInv, NextKeepsIInv, PTL DEF Spec

-----------------------------------------------------------------------------
\* The variables keep their types, eval_type_defn never recurses beyond its
\* stack, and the phases never leave the program.
THEOREM TypeCorrect == Spec => []TypeOK
  <1>1. IInv => TypeOK
    BY DEF IInv
  <1> QED
    BY <1>1, Inductive, PTL

\* The type evaluation phase loses no definition: each is pending or has been
\* evaluated, and none both.
THEOREM NoneLost == Spec => []PendingOrEvaluated
  <1>1. IInv => PendingOrEvaluated
    BY DEF IInv
  <1> QED
    BY <1>1, Inductive, PTL

\* run never panics with "Unevaluated type defns!!!" for any program.
THEOREM NeverPanics == Spec => []NothingLeftPending
  <1>1. IInv => NothingLeftPending
    BY DEF IInv
  <1> QED
    BY <1>1, Inductive, PTL

\* No type of a definition contains a type that has not been evaluated.
THEOREM NoDangling == Spec => []NoDanglingReference
  <1>1. IInv => NoDanglingReference
    BY DEF IInv
  <1> QED
    BY <1>1, Inductive, PTL
-----------------------------------------------------------------------------
(* What references come to.                                                  *)

\* The reference comes to what has its name and, if it has no path, can be seen.
AsWritten(i, k, t) ==
  LET ref == program[i].refs[k]
  IN /\ k \in 1..Len(program[i].refs)
     /\ Param(i, k) => t = 0
     /\ ~Param(i, k) => /\ t \in TypeItems /\ Name(t) = ref.name
                        /\ ref.path = <<>> => Scope(t) \in Enclosing(Scope(i))

\* A frame waits for the one above it because its definition mentions the other.
Calls(f, g) == AsWritten(f.item, f.next, g.item) /\ g.item \in Mentions(f.item)

ResolvedAsWritten == \A r \in resolved : AsWritten(r.item, r.ref, r.to)

Chain == \A k \in 1..Len(stack) : k < Len(stack) => Calls(stack[k], stack[k + 1])

\* All definitions that are being evaluated are named, by way of others perhaps, in
\* the outermost.
FromOutermost == \A k \in 1..Len(stack) : stack[k].item \in Reach(stack[1].item)

\* Only evaluated types are applied, to arguments.
AppliedAsWritten ==
  \A r \in resolved : r.applied => r.to \in mapping /\ program[r.item].refs[r.ref].args > 0

NamesInv == ResolvedAsWritten /\ Chain /\ FromOutermost /\ AppliedAsWritten

\* One of the answers is to the reference.
Known(answers, i, k) == \E r \in answers : r.item = i /\ r.ref = k

Complete ==
  /\ \A i \in mapping : \A k \in Own(i) : Known(resolved, i, k)
  /\ \A m \in 1..Len(stack) : \A k \in Own(stack[m].item) : k < stack[m].next => Known(resolved, stack[m].item, k)
  /\ phase = "done" => mapping = TypeItems

-----------------------------------------------------------------------------
(* The three ways a step changes the calls.                                  *)

Pushes(i) ==
  /\ phase = "eval"
  /\ stack' = Append(stack, [item |-> i, next |-> 1])
  /\ i \in TypeItems \ mapping
  /\ stack # <<>> => Calls(Top, [item |-> i, next |-> 1])
  /\ UNCHANGED <<program, phase, mapping, resolved>>

Resolves ==
  /\ HasRef
  /\ \E to \in {0} \cup TypeItems, applied \in BOOLEAN :
       /\ AsWritten(Current, Top.next, to)
       /\ applied => to \in mapping /\ Ref.args > 0
       /\ resolved' = Comes(Top, to, applied)
  /\ \E n \in {1, 1 + Ref.args} : stack' = Advance(stack, n)
  /\ UNCHANGED <<program, phase, mapping>>

Returns ==
  Evaluating /\ Top.next > Len(program[Current].refs) /\ ~OwnAlias(Current) /\ Return

\* The calls stay as they are.
Rests ==
  /\ UNCHANGED <<program, mapping, stack, resolved>>
  /\ phase' = "done" => phase = "done" \/ mapping = TypeItems

LEMMA SeesItself == ASSUME NEW s PROVE s \in Enclosing(s)
  BY DEF Enclosing

LEMMA CurrentFrame ==
  ASSUME IInv, HasRef
  PROVE  /\ stack # <<>> /\ phase = "eval" /\ Current \in TypeItems
         /\ Top = stack[Len(stack)] /\ Top.item = Current
         /\ Top.next \in 1..Len(program[Current].refs)
         /\ Ref \in Refs /\ Ref = program[Current].refs[Top.next]
         /\ Ref.args \in Nat
  <1>1. stack # <<>> /\ phase = "eval" /\ Top.next <= Len(program[Current].refs)
    BY DEF HasRef, Evaluating
  <1>2. Current \in TypeItems /\ Top.next \in Nat \ {0}
    BY <1>1, StackFields DEF IInv
  <1>3. program[Current].refs \in Seq(Refs)
    BY <1>2, ProgramFields DEF IInv
  <1>4. Ref \in Refs
    BY <1>1, <1>2, <1>3 DEF Ref
  <1> QED
    BY <1>1, <1>2, <1>3, <1>4 DEF Refs, Top, Current, Ref

LEMMA CallKinds ==
  ASSUME IInv, phase = "eval", NEW i \in TypeItems \ mapping, Call(i),
         stack # <<>> => Calls(Top, [item |-> i, next |-> 1])
  PROVE  Rests \/ Pushes(i)
  BY DEF Call, Fail, Rests, Pushes

\* A call of eval_type_defn for a pending definition.
LEMMA PendingCall ==
  ASSUME IInv, HasRef, ~IsParam, Ref.name # Name(Current),
         NEW i \in Nearest(pending, Scope(Current), Ref.name)
  PROVE  i \in TypeItems \ mapping /\ Calls(Top, [item |-> i, next |-> 1])
  <1> DEFINE k == Top.next
  <1>1. /\ Current \in TypeItems /\ Top.item = Current /\ phase = "eval"
        /\ k \in 1..Len(program[Current].refs) /\ Ref = program[Current].refs[k]
    BY CurrentFrame
  <1>2. i \in TypeItems /\ i \notin mapping
    BY <1>1 DEF Nearest, IInv, TypeOK, PendingOrEvaluated
  <1>3. Name(i) = Ref.name /\ Scope(i) \in Enclosing(Scope(Current))
    BY DEF Nearest
  <1>4. i \in Mentions(Current)
    BY <1>1, <1>2, <1>3 DEF Mentions
  <1>5. ~Param(Current, k)
    BY <1>1 DEF IsParam
  <1> QED
    BY <1>1, <1>2, <1>3, <1>4, <1>5 DEF Calls, AsWritten

LEMMA FoundAsWritten ==
  ASSUME IInv, HasRef, ~IsParam, NEW t \in Found
  PROVE  t \in TypeItems /\ AsWritten(Current, Top.next, t)
  <1> DEFINE k == Top.next
  <1>1. /\ Current \in TypeItems /\ k \in 1..Len(program[Current].refs)
        /\ Ref = program[Current].refs[k]
    BY CurrentFrame
  <1>2. t \in TypeItems
    BY FoundIsEvaluated DEF IInv, TypeOK
  <1>3. Name(t) = Ref.name
    BY DEF Found, Nearest, In
  <1>4. Ref.path = <<>> => Scope(t) \in Enclosing(Scope(Current))
    BY DEF Found, Nearest
  <1>5. ~Param(Current, k)
    BY <1>1 DEF IsParam
  <1> QED
    BY <1>1, <1>2, <1>3, <1>4, <1>5 DEF AsWritten

LEMMA StepKinds ==
  ASSUME IInv, NamesInv, [Next]_vars
  PROVE  Rests \/ (\E i \in TypeItems : Pushes(i)) \/ Resolves \/ Returns
  <1>1. CASE CreateNamespace \/ AddPending \/ PassOver \/ Finished \/ UNCHANGED vars
    BY <1>1 DEF CreateNamespace, AddPending, PassOver, Finished, vars, Fail, Rests
  <1>2. CASE EndPhase
    <2>1. /\ phase \in {"ns", "defn", "eval"} /\ cursor = Len(program) + 1
          /\ phase' \in {"defn", "eval", "done", "panic"} /\ (phase' = "done" => phase = "eval")
          /\ UNCHANGED <<program, mapping, stack, resolved>>
      BY <1>2 DEF EndPhase
    <2>2. ASSUME phase = "eval" PROVE mapping = TypeItems
      <3>1. \A i \in TypeItems : i < cursor
        BY <2>1, ProgramFields DEF IInv
      <3> QED
        BY <2>2, <3>1 DEF IInv, TypeOK, PassedAreEvaluated
    <2> QED
      BY <2>1, <2>2 DEF Rests
  <1>3. CASE EvalTop
    <2>1. phase = "eval" /\ stack = <<>> /\ cursor \in TypeItems \ mapping /\ Call(cursor)
      BY <1>3 DEF EvalTop, TypeItems
    <2> QED
      BY <2>1, CallKinds
  <1>4. CASE NoSuchNamespace \/ RefToNothing
    BY <1>4 DEF NoSuchNamespace, RefToNothing, Fail, Rests
  <1>5. CASE RefToParam
    <2>1. CASE Ref.args > 0
      BY <1>5, <2>1 DEF RefToParam, Fail, Rests
    <2>2. CASE ~(Ref.args > 0)
      <3>1. /\ HasRef /\ IsParam
            /\ resolved' = Comes(Top, 0, FALSE) /\ stack' = Advance(stack, 1)
            /\ UNCHANGED <<program, phase, mapping>>
        BY <1>5, <2>2 DEF RefToParam
      <3>2. AsWritten(Current, Top.next, 0)
        BY <3>1, CurrentFrame DEF AsWritten, IsParam
      <3> QED
        BY <3>1, <3>2 DEF Resolves
    <2> QED
      BY <2>1, <2>2
  <1>6. CASE RefToType
    <2>1. PICK t \in Found :
            IF Ref.args > 0 /\ Generics(t) = {} THEN Fail
            ELSE /\ resolved' = Comes(Top, t, Ref.args > 0)
                 /\ types' = IF Ref.args > 0 THEN types ELSE Typed(Top, Defined(t))
                 /\ stack' = Advance(stack, 1)
                 /\ UNCHANGED <<program, phase, cursor, spaces, pending, mapping, companions>>
      BY <1>6 DEF RefToType
    <2>2. CASE Ref.args > 0 /\ Generics(t) = {}
      BY <2>1, <2>2 DEF Fail, Rests
    <2>3. CASE ~(Ref.args > 0 /\ Generics(t) = {})
      <3>1. /\ HasRef /\ t \in TypeItems /\ t \in mapping
            /\ AsWritten(Current, Top.next, t) /\ (Ref.args > 0) \in BOOLEAN
        BY <1>6, FoundAsWritten, FoundIsEvaluated DEF RefToType
      <3> QED
        BY <2>1, <2>3, <3>1 DEF Resolves
    <2> QED
      BY <2>2, <2>3
  <1>7. CASE RefToSelf
    <2>1. /\ HasRef /\ ~IsParam /\ Ref.name = Name(Current)
          /\ resolved' = Comes(Top, Current, FALSE) /\ stack' = Advance(stack, 1 + Ref.args)
          /\ UNCHANGED <<program, phase, mapping>>
      BY <1>7 DEF RefToSelf, Undefined
    <2>2. Current \in TypeItems /\ AsWritten(Current, Top.next, Current)
      BY <2>1, CurrentFrame, SeesItself DEF AsWritten, IsParam
    <2> QED
      BY <2>1, <2>2 DEF Resolves
  <1>8. CASE RefToPending
    <2>1. PICK i \in Nearest(pending, Scope(Current), Ref.name) : Call(i)
      BY <1>8 DEF RefToPending
    <2>2. HasRef /\ phase = "eval" /\ i \in TypeItems \ mapping /\ Calls(Top, [item |-> i, next |-> 1])
      BY <1>8, CurrentFrame, PendingCall DEF RefToPending, Undefined
    <2> QED
      BY <2>1, <2>2, CallKinds
  <1>9. CASE EndDefn
    <2>1. Evaluating /\ Top.next > Len(program[Current].refs) /\ Current \in TypeItems
      BY <1>9, StackFields DEF EndDefn, Evaluating, IInv
    <2>2. CASE OwnAlias(Current)
      BY <1>9, <2>1, <2>2 DEF EndDefn, Rests
    <2>3. CASE ~OwnAlias(Current) /\ In(mapping, Scope(Current), Name(Current)) # {}
      BY <1>9, <2>3 DEF EndDefn, Fail, Rests
    <2>4. CASE ~OwnAlias(Current) /\ In(mapping, Scope(Current), Name(Current)) = {}
      BY <1>9, <2>1, <2>4 DEF EndDefn, Returns
    <2> QED
      BY <2>2, <2>3, <2>4
  <1>10. CASE Instantiate
    <2>1. /\ UNCHANGED <<program, mapping, stack, resolved>> /\ phase = "eval"
          /\ phase' \in {"overflow", "crashed"} \/ phase' = phase
      BY <1>10 DEF Instantiate, Evaluating
    <2> QED
      BY <2>1 DEF Rests
  <1> QED
    BY <1>1, <1>2, <1>3, <1>4, <1>5, <1>6, <1>7, <1>8, <1>9, <1>10 DEF Next, Work


-----------------------------------------------------------------------------
(* References are as written.                                                *)

\* No step changes the program.
LEMMA SameText ==
  ASSUME program' = program
  PROVE  /\ TypeItems' = TypeItems /\ Items' = Items
         /\ \A i, k, t : AsWritten(i, k, t)' <=> AsWritten(i, k, t)
         /\ \A f, g : Calls(f, g)' <=> Calls(f, g)
         /\ \A i : Own(i)' = Own(i)
         /\ \A i, k : Param(i, k)' <=> Param(i, k)
         /\ \A i : Uses(i)' = Uses(i) /\ Reach(i)' = Reach(i)
         /\ \A i : AliasOfItself(i)' <=> AliasOfItself(i)
         /\ Cyclic' <=> Cyclic
         /\ AppliesRecursive' <=> AppliesRecursive
         /\ \A i : Bare(i)' <=> Bare(i)
         /\ \A i : StandsForParam(i)' <=> StandsForParam(i)
         /\ \A i : Name(i)' = Name(i)
  <1>1. TypeItems' = TypeItems /\ Items' = Items
    BY DEF TypeItems, Items
  <1>2. \A i : Name(i)' = Name(i) /\ Scope(i)' = Scope(i)
    BY DEF Name, Scope
  <1>3. \A s : Enclosing(s)' = Enclosing(s)
    BY DEF Enclosing, Scope
  <1>4. \A i, k : Param(i, k)' <=> Param(i, k)
    BY DEF Param, ParamsNamed
  <1>5. \A i, k, t : AsWritten(i, k, t)' <=> AsWritten(i, k, t)
    BY <1>1, <1>2, <1>3, <1>4 DEF AsWritten
  <1>6. \A i : Mentions(i)' = Mentions(i)
    BY <1>1, <1>2, <1>3 DEF Mentions
  <1>7. \A f, g : Calls(f, g)' <=> Calls(f, g)
    BY <1>5, <1>6 DEF Calls
  <1>8. \A i : Own(i)' = Own(i)
    BY DEF Own, Arguments, Within
  <1>9. \A i : Uses(i)' = Uses(i)
    BY <1>1, <1>2, <1>4 DEF Uses
  <1>10. \A i : Reach(i)' = Reach(i)
    BY <1>1, <1>9 DEF Reach
  <1>15. \A i : StandsForParam(i)' <=> StandsForParam(i)
    BY <1>4 DEF StandsForParam
  <1>11. \A i : AliasOfItself(i)' <=> AliasOfItself(i)
    BY <1>2, <1>9, <1>10, <1>15 DEF AliasOfItself
  <1>12. Cyclic' <=> Cyclic
    BY <1>1, <1>6 DEF Cyclic
  <1>13. AppliesRecursive' <=> AppliesRecursive
    <2>1. \A i, j : Applied(i, j)' <=> Applied(i, j)
      BY <1>2, <1>4 DEF Applied
    <2> QED
      BY <1>1, <1>9, <1>10, <2>1 DEF AppliesRecursive
  <1>14. \A i : Bare(i)' <=> Bare(i)
    BY <1>1, <1>2, <1>4, <1>9, <1>10 DEF Bare
  <1> QED
    BY <1>1, <1>2, <1>4, <1>5, <1>7, <1>8, <1>9, <1>10, <1>11, <1>12, <1>13, <1>14, <1>15

\* A definition reaches itself, what it names, and what that reaches.
LEMMA ReachItself ==
  ASSUME NEW i \in TypeItems
  PROVE  i \in Reach(i)
  BY DEF Reach

LEMMA ReachUsed ==
  ASSUME NEW i \in TypeItems, NEW j \in Uses(i)
  PROVE  Reach(j) \subseteq Reach(i)
  BY DEF Reach

LEMMA ReachTransitive ==
  ASSUME NEW i, NEW j \in Reach(i)
  PROVE  j \in TypeItems /\ Reach(j) \subseteq Reach(i)
  BY DEF Reach

\* A call is for a definition that the caller's text names.
LEMMA CallsUsed ==
  ASSUME NEW f, NEW g, Calls(f, g), g.item \in TypeItems
  PROVE  g.item \in Uses(f.item)
  <1>1. AsWritten(f.item, f.next, g.item) /\ g.item # 0
    BY DEF Calls, TypeItems, Items
  <1> QED
    BY <1>1 DEF AsWritten, Uses

\* Only the frame that waits and the item called matter.
LEMMA CallsByItem ==
  ASSUME NEW f, NEW g, NEW h, Calls(f, g), h.item = g.item
  PROVE  Calls(f, h)
  BY DEF Calls

\* A frame that is moved on still is called as before.
LEMMA ChainAdvanced ==
  ASSUME NEW F \in Seq(Frames), F # <<>>, NEW n \in Nat,
         \A k \in 1..Len(F) : k < Len(F) => Calls(F[k], F[k + 1])
  PROVE  \A k \in 1..Len(F) : k < Len(F) => Calls(Advance(F, n)[k], Advance(F, n)[k + 1])
  <1> SUFFICES ASSUME NEW k \in 1..Len(F), k < Len(F)
               PROVE  Calls(Advance(F, n)[k], Advance(F, n)[k + 1])
    OBVIOUS
  <1>1. Advance(F, n)[k] = F[k] /\ Advance(F, n)[k + 1].item = F[k + 1].item
    BY AdvanceFrames
  <1> QED
    BY <1>1, CallsByItem

\* What the end of a definition does to the calls.
LEMMA ReturnFrames ==
  ASSUME IInv, Evaluating, Return
  PROVE  LET caller == SubSeq(stack, 1, Len(stack) - 1)
             f == stack[Len(stack) - 1]
             n == 1 + program[f.item].refs[f.next].args
         IN /\ stack \in Seq(Frames) /\ stack # <<>> /\ Current \in TypeItems
            /\ caller \in Seq(Frames) /\ Len(caller) = Len(stack) - 1
            /\ \A k \in 1..Len(stack) - 1 : caller[k] = stack[k]
            /\ Len(stack) = 1 => stack' = <<>> /\ resolved' = resolved /\ types' = types
            /\ Len(stack) > 1 => /\ n \in Nat /\ caller # <<>> /\ stack' = Advance(caller, n)
                                 /\ resolved' = Comes(f, Current, FALSE)
                                 /\ types' = Typed(f, Defined(Current))
            /\ program' = program /\ phase' = phase /\ mapping' = mapping \cup {Current}
  <1> DEFINE caller == SubSeq(stack, 1, Len(stack) - 1)
             f == stack[Len(stack) - 1]
             n == 1 + program[f.item].refs[f.next].args
  <1>1. stack # <<>> /\ stack \in Seq(Frames) /\ Len(stack) \in Nat /\ Len(stack) >= 1 /\ Current \in TypeItems
    BY StackFields DEF Evaluating, IInv
  <1>2. /\ caller \in Seq(Frames)
        /\ Len(caller) = Len(stack) - 1
        /\ \A k \in 1..Len(stack) - 1 : caller[k] = stack[k]
    BY <1>1, CallerFrames
  <1>3. ASSUME Len(stack) = 1 PROVE stack' = <<>> /\ resolved' = resolved /\ types' = types
    <2>1. caller = <<>>
      <3> HIDE DEF caller
      <3> QED
        BY <1>2, <1>3
    <2> QED
      BY <2>1 DEF Return
  <1>4. ASSUME Len(stack) > 1
        PROVE  /\ n \in Nat /\ caller # <<>> /\ stack' = Advance(caller, n)
               /\ resolved' = Comes(f, Current, FALSE) /\ types' = Typed(f, Defined(Current))
    <2>1. caller # <<>> /\ caller[Len(caller)] = f
      <3> HIDE DEF caller
      <3> QED
        BY <1>1, <1>2, <1>4
    <2>2. Len(stack) - 1 \in 1..Len(stack) /\ Len(stack) - 1 < Len(stack)
      BY <1>1, <1>4
    <2>3. f \in Frames /\ f.next <= Len(program[f.item].refs)
      BY <1>1, <2>2 DEF IInv, WaitAtReference
    <2>4. f.item \in TypeItems /\ f.next \in Nat \ {0}
      BY <2>3 DEF Frames
    <2>5. program[f.item].refs \in Seq(Refs)
      BY <2>4, ProgramFields DEF IInv
    <2>6. program[f.item].refs[f.next] \in Refs
      <3> HIDE DEF f
      <3> QED
        BY <2>3, <2>4, <2>5
    <2>7. n \in Nat
      BY <2>6 DEF Refs
    <2> QED
      BY <2>1, <2>7 DEF Return
  <1> QED
    BY <1>1, <1>2, <1>3, <1>4 DEF Return

LEMMA OneOrMore == ASSUME NEW n \in Nat, n >= 1 PROVE n = 1 \/ n > 1
  OBVIOUS

LEMMA InitNames == Init => NamesInv
  <1> SUFFICES ASSUME Init PROVE NamesInv
    OBVIOUS
  <1> QED
    BY DEF Init, NamesInv, ResolvedAsWritten, Chain, FromOutermost, AppliedAsWritten

LEMMA NextKeepsNames ==
  ASSUME IInv, NamesInv, [Next]_vars
  PROVE  NamesInv'
  <1>1. CASE Rests
    <2>1. program' = program
      BY <1>1 DEF Rests
    <2> QED
      BY <1>1, <2>1, SameText DEF Rests, NamesInv, ResolvedAsWritten, Chain, FromOutermost,
         AppliedAsWritten
  <1>2. ASSUME NEW i \in TypeItems, Pushes(i) PROVE NamesInv'
    <2> DEFINE g == [item |-> i, next |-> 1]
    <2>1. /\ program' = program /\ resolved' = resolved /\ mapping' = mapping
          /\ stack' = Append(stack, g)
          /\ stack # <<>> => Calls(Top, g)
      BY <1>2 DEF Pushes
    <2>2. stack \in Seq(Frames) /\ Len(stack) \in Nat /\ g \in Frames
      BY StackFields DEF IInv, Frames
    <2>3. /\ Len(stack') = Len(stack) + 1
          /\ \A k \in 1..Len(stack) : stack'[k] = stack[k]
          /\ stack'[Len(stack) + 1] = g
      BY <2>1, <2>2
    <2>4. ResolvedAsWritten' /\ AppliedAsWritten'
      BY <2>1, SameText DEF NamesInv, ResolvedAsWritten, AppliedAsWritten
    <2>5. ASSUME NEW k \in 1..Len(stack'), k < Len(stack') PROVE Calls(stack'[k], stack'[k + 1])
      <3>1. CASE k < Len(stack)
        BY <2>2, <2>3, <3>1 DEF NamesInv, Chain
      <3>2. CASE k = Len(stack)
        <4>1. stack # <<>> /\ stack'[k] = Top
          BY <2>2, <2>3, <3>2 DEF Top
        <4> QED
          BY <2>1, <2>3, <3>2, <4>1
      <3> QED
        BY <2>2, <2>3, <2>5, <3>1, <3>2
    <2>6. Chain'
      BY <2>1, <2>5, SameText DEF Chain
    <2>7. ASSUME NEW k \in 1..Len(stack') PROVE stack'[k].item \in Reach(stack'[1].item)
      <3>1. CASE stack = <<>>
        <4>1. k = 1 /\ stack'[k] = g
          BY <2>3, <3>1
        <4> QED
          BY <4>1, ReachItself
      <3>2. CASE stack # <<>>
        <4>1. stack'[1] = stack[1] /\ Len(stack) \in 1..Len(stack)
          BY <2>2, <2>3, <3>2
        <4>2. CASE k \in 1..Len(stack)
          BY <2>3, <4>1, <4>2 DEF NamesInv, FromOutermost
        <4>3. CASE k = Len(stack) + 1
          <5>1. Top.item \in Reach(stack[1].item)
            BY <4>1 DEF NamesInv, FromOutermost, Top
          <5>2. i \in Uses(Top.item)
            <6>1. Calls(Top, g) /\ g.item = i
              BY <2>1, <3>2
            <6> QED
              BY <6>1, CallsUsed
          <5>3. i \in Reach(Top.item)
            BY <5>1, <5>2, ReachItself, ReachUsed, ReachTransitive
          <5> QED
            BY <2>3, <4>1, <4>3, <5>1, <5>3, ReachTransitive
        <4> QED
          BY <2>2, <2>3, <4>2, <4>3
      <3> QED
        BY <3>1, <3>2
    <2>8. FromOutermost'
      BY <2>1, <2>7, SameText DEF FromOutermost
    <2> QED
      BY <2>4, <2>6, <2>8 DEF NamesInv
  <1>3. CASE Resolves
    <2>1. PICK to \in {0} \cup TypeItems, applied \in BOOLEAN :
            /\ AsWritten(Current, Top.next, to)
            /\ applied => to \in mapping /\ Ref.args > 0
            /\ resolved' = Comes(Top, to, applied)
      BY <1>3 DEF Resolves
    <2>2. PICK n \in {1, 1 + Ref.args} : stack' = Advance(stack, n)
      BY <1>3 DEF Resolves
    <2>3. HasRef /\ program' = program /\ mapping' = mapping
      BY <1>3, CurrentFrame DEF Resolves
    <2>4. /\ stack # <<>> /\ Ref.args \in Nat /\ stack \in Seq(Frames) /\ Top.item = Current
          /\ Ref = program[Current].refs[Top.next]
      BY <2>3, CurrentFrame, StackFields DEF IInv
    <2>5. n \in Nat
      BY <2>4
    <2>6. \A r \in resolved' : AsWritten(r.item, r.ref, r.to)
      BY <2>1, <2>4 DEF Comes, NamesInv, ResolvedAsWritten
    <2>7. \A k \in 1..Len(stack) : k < Len(stack) => Calls(stack'[k], stack'[k + 1])
      BY <2>2, <2>4, <2>5, ChainAdvanced DEF NamesInv, Chain
    <2>8. Len(stack') = Len(stack) /\ \A k \in 1..Len(stack) : stack'[k].item = stack[k].item
      BY <2>2, <2>4, <2>5, AdvanceFrames
    <2>9. \A r \in resolved' : r.applied => r.to \in mapping /\ program[r.item].refs[r.ref].args > 0
      BY <2>1, <2>4 DEF Comes, NamesInv, AppliedAsWritten
    <2>10. \A k \in 1..Len(stack) : stack'[k].item \in Reach(stack'[1].item)
      <3>1. 1 \in 1..Len(stack)
        BY <2>4
      <3> QED
        BY <2>8, <3>1 DEF NamesInv, FromOutermost
    <2> QED
      BY <2>3, <2>6, <2>7, <2>8, <2>9, <2>10, SameText DEF NamesInv, ResolvedAsWritten, Chain,
         FromOutermost, AppliedAsWritten
  <1>4. CASE Returns
    <2> DEFINE caller == SubSeq(stack, 1, Len(stack) - 1)
               f == stack[Len(stack) - 1]
               n == 1 + program[f.item].refs[f.next].args
    <2>1. /\ stack \in Seq(Frames) /\ stack # <<>>
          /\ caller \in Seq(Frames) /\ Len(caller) = Len(stack) - 1
          /\ \A k \in 1..Len(stack) - 1 : caller[k] = stack[k]
          /\ Len(stack) = 1 => stack' = <<>> /\ resolved' = resolved
          /\ Len(stack) > 1 => /\ n \in Nat /\ caller # <<>> /\ stack' = Advance(caller, n)
                               /\ resolved' = Comes(f, Current, FALSE)
          /\ program' = program /\ mapping' = mapping \cup {Current}
      BY <1>4, ReturnFrames DEF Returns
    <2>2. AppliedAsWritten'
      <3>1. ASSUME NEW r \in resolved' PROVE r \in resolved \/ r.applied = FALSE
        <4>1. CASE Len(stack) = 1
          BY <2>1, <3>1, <4>1
        <4>2. CASE Len(stack) > 1
          <5> HIDE DEF f
          <5> QED
            BY <2>1, <3>1, <4>2 DEF Comes
        <4>3. Len(stack) \in Nat /\ Len(stack) >= 1
          <5> HIDE DEF caller, f, n
          <5> QED
            BY <2>1
        <4> QED
          BY <4>1, <4>2, <4>3, OneOrMore
      <3> QED
        BY <2>1, <3>1 DEF NamesInv, AppliedAsWritten
    <2> HIDE DEF n, caller
    <2>3. CASE Len(stack) = 1
      BY <2>1, <2>2, <2>3, SameText DEF NamesInv, ResolvedAsWritten, Chain, FromOutermost
    <2>4. CASE Len(stack) > 1
      <3>1. Len(stack) - 1 \in 1..Len(stack) /\ Len(stack) - 1 < Len(stack)
            /\ (Len(stack) - 1) + 1 = Len(stack)
        BY <2>1, <2>4
      <3>2. Calls(f, Top)
        BY <3>1 DEF Top, NamesInv, Chain
      <3>3. AsWritten(f.item, f.next, Current)
        BY <3>2 DEF Calls, Current
      <3>4. \A r \in resolved' : AsWritten(r.item, r.ref, r.to)
        BY <2>1, <2>4, <3>3 DEF Comes, NamesInv, ResolvedAsWritten
      <3>5. ASSUME NEW k \in 1..Len(caller), k < Len(caller) PROVE Calls(caller[k], caller[k + 1])
        <4>1. Len(stack) \in Nat /\ Len(caller) = Len(stack) - 1
          <5> HIDE DEF f
          <5> QED
            BY <2>1
        <4>2. k \in 1..Len(stack) - 1 /\ k + 1 \in 1..Len(stack) - 1 /\ k \in 1..Len(stack) /\ k < Len(stack)
          BY <3>5, <4>1
        <4>3. caller[k] = stack[k] /\ caller[k + 1] = stack[k + 1]
          BY <2>1, <4>2
        <4> QED
          BY <4>2, <4>3 DEF NamesInv, Chain
      <3>6. Len(stack') = Len(caller)
            /\ \A k \in 1..Len(caller) : k < Len(caller) => Calls(stack'[k], stack'[k + 1])
        BY <2>1, <2>4, <3>5, ChainAdvanced, AdvanceFrames
      <3>7. ASSUME NEW k \in 1..Len(stack') PROVE stack'[k].item \in Reach(stack'[1].item)
        <4>1. /\ 1 \in 1..Len(stack) - 1 /\ k \in 1..Len(stack) - 1 /\ k \in 1..Len(stack)
              /\ \A j \in 1..Len(caller) : stack'[j].item = caller[j].item
          BY <2>1, <2>4, <3>1, <3>6, AdvanceFrames
        <4>2. stack'[k].item = stack[k].item /\ stack'[1].item = stack[1].item
          BY <2>1, <4>1
        <4> QED
          BY <4>1, <4>2 DEF NamesInv, FromOutermost
      <3> QED
        BY <2>1, <2>2, <3>4, <3>6, <3>7, SameText DEF NamesInv, ResolvedAsWritten, Chain, FromOutermost
    <2> QED
      BY <2>1, <2>3, <2>4
  <1> QED
    BY <1>1, <1>2, <1>3, <1>4, StepKinds

THEOREM NamesInductive == Spec => [](IInv /\ NamesInv)
  <1>1. Init => IInv /\ NamesInv
    BY InitIInv, InitNames
  <1>2. IInv /\ NamesInv /\ [Next]_vars => (IInv /\ NamesInv)'
    BY NextKeepsIInv, NextKeepsNames
  <1> QED
    BY <1>1, <1>2, PTL DEF Spec

\* What a name without a path comes to is the type parameter of that name, or
\* else a type of that name in an enclosing scope.
THEOREM AsWrittenInPrograms == Spec => []UnqualifiedAsWritten
  <1>1. IInv /\ NamesInv => UnqualifiedAsWritten
    <2> SUFFICES ASSUME IInv, NamesInv, NEW r \in resolved,
                        program[r.item].refs[r.ref].path = <<>>
                 PROVE  IF Param(r.item, r.ref) THEN r.to = 0
                        ELSE Name(r.to) = program[r.item].refs[r.ref].name
                             /\ Scope(r.to) \in Enclosing(Scope(r.item))
      BY DEF UnqualifiedAsWritten
    <2>1. AsWritten(r.item, r.ref, r.to)
      BY DEF NamesInv, ResolvedAsWritten
    <2> QED
      BY <2>1 DEF AsWritten
  <1> QED
    BY <1>1, NamesInductive, PTL


-----------------------------------------------------------------------------
(* The stack runs out only for definitions that depend on each other.        *)

LEMMA ItemsOnStack ==
  ASSUME IInv
  PROVE  \A k \in 1..Len(stack) : stack[k].item \in TypeItems /\ stack[k].next \in Nat \ {0}
  <1>1. \A k \in 1..Len(stack) : stack[k] \in Frames
    BY StackFields DEF IInv
  <1> QED
    BY <1>1 DEF Frames

LEMMA RepeatMeansCyclic ==
  ASSUME IInv, NamesInv, NEW x \in 1..Len(stack), NEW y \in 1..Len(stack), x < y,
         stack[x].item = stack[y].item
  PROVE  Cyclic
  <1> DEFINE S == {stack[k].item : k \in x..y - 1}
  <1>1. stack \in Seq(Frames) /\ Len(stack) \in Nat
    BY StackFields DEF IInv
  <1>2. \A k \in x..y - 1 : k \in 1..Len(stack) /\ k < Len(stack) /\ k + 1 \in x..y
    BY <1>1
  <1>3. \A k \in 1..Len(stack) : stack[k].item \in TypeItems
    BY ItemsOnStack
  <1>4. S \in SUBSET TypeItems /\ S # {}
    BY <1>2, <1>3
  <1>5. ASSUME NEW k \in x..y - 1 PROVE Mentions(stack[k].item) \cap S # {}
    <2>1. stack[k + 1].item \in Mentions(stack[k].item)
      BY <1>2 DEF NamesInv, Chain, Calls
    <2>2. stack[k + 1].item \in S
      <3>1. CASE k + 1 = y
        BY <3>1
      <3>2. CASE k + 1 # y
        BY <1>2, <3>2
      <3> QED
        BY <3>1, <3>2
    <2> QED
      BY <2>1, <2>2
  <1>6. \A i \in S : Mentions(i) \cap S # {}
    BY <1>5
  <1> QED
    BY <1>4, <1>6 DEF Cyclic

\* More calls than definitions: one of them is evaluated twice at the same time.
LEMMA DeepMeansCyclic ==
  ASSUME IInv, NamesInv, Len(stack) > Cardinality(TypeItems)
  PROVE  Cyclic
  <1> DEFINE n == Len(stack)
             f == [k \in 1..n |-> stack[k].item]
  <1>1. stack \in Seq(Frames) /\ n \in Nat
    BY StackFields DEF IInv
  <1>2. IsFiniteSet(TypeItems)
    <2>1. IsFiniteSet(1..Len(program))
      BY FS_Interval, ProgramFields DEF IInv
    <2> QED
      BY <2>1, FS_Subset DEF TypeItems, Items
  <1>3. IsFiniteSet(1..n) /\ Cardinality(1..n) = n
    BY <1>1, FS_Interval
  <1>4. f \in [1..n -> TypeItems]
    BY ItemsOnStack
  <1>5. PICK x, y \in 1..n : x # y /\ f[x] = f[y]
    <2> HIDE DEF f, n
    <2> QED
      BY <1>2, <1>3, <1>4, FS_PigeonHole DEF n
  <1>6. stack[x].item = stack[y].item /\ (x < y \/ y < x)
    BY <1>1, <1>5
  <1> QED
    BY <1>6, RepeatMeansCyclic

-----------------------------------------------------------------------------
(* What the types of references are built of.                                *)

\* The leaves of a type are parameters of the definition it is in, definitions in
\* its reach that refer to themselves, and generic types where one may stand
\* without arguments.
BuiltOf(i, t) ==
  \A leaf \in t.meets :
    /\ leaf[1] = "param" => leaf[2] \in 1..Len(program[i].params)
    /\ leaf[1] = "self" => leaf[2] \in Reach(i) /\ leaf[2] \in Uses(leaf[2])
    /\ leaf[1] = "generic" => leaf[2] \in Reach(i) /\ \E m \in Reach(i) : Bare(m)

\* A reference that comes to a leaf names it, unless a type stands for its argument.
LeafOf(i, k, t) ==
  t.head = "leaf" =>
    \E leaf \in Leaves :
      /\ t = Leaf(leaf[1], leaf[2])
      /\ leaf[1] = "self" =>
           leaf[2] = i /\ (program[i].refs[k].name = Name(i) \/ \E j \in Reach(i) : StandsForParam(j))
      /\ leaf[1] = "param" => Param(i, k) \/ \E j \in Reach(i) : StandsForParam(j)

Built(i, k, t) == BuiltOf(i, t) /\ LeafOf(i, k, t)

AllBuilt ==
  \A y \in types : y.ref \in 1..Len(program[y.item].refs) /\ Built(y.item, y.ref, y.type)

\* Definitions that are not Cyclic are evaluated once, and no alias of itself is.
Sane ==
  /\ \A k \in 1..Len(stack) : stack[k].item \notin mapping
  /\ AllBuilt
  /\ \A j \in mapping : ~OwnAlias(j)

LEMMA LeafFields == \A kind, n : Leaf(kind, n).head = "leaf" /\ Leaf(kind, n).meets = {<<kind, n>>}
  BY DEF Leaf

LEMMA TypeAtBuilt ==
  ASSUME AllBuilt, NEW i, NEW k, NEW t \in TypeAt(i, k)
  PROVE  Built(i, k, t)
  BY DEF AllBuilt, TypeAt

LEMMA MetBuilt ==
  ASSUME AllBuilt, NEW i, NEW ks, NEW t, t.meets \subseteq Met(i, ks)
  PROVE  BuiltOf(i, t)
  <1> SUFFICES ASSUME NEW leaf \in t.meets
               PROVE  /\ leaf[1] = "param" => leaf[2] \in 1..Len(program[i].params)
                      /\ leaf[1] = "self" => leaf[2] \in Reach(i) /\ leaf[2] \in Uses(leaf[2])
                      /\ leaf[1] = "generic" => leaf[2] \in Reach(i) /\ \E m \in Reach(i) : Bare(m)
    BY DEF BuiltOf
  <1>1. PICK y \in types : y.item = i /\ leaf \in y.type.meets
    BY DEF Met
  <1>2. BuiltOf(i, y.type)
    BY <1>1 DEF AllBuilt, Built
  <1> QED
    BY <1>1, <1>2 DEF BuiltOf

\* The value of a definition.
LEMMA InnerBuilt ==
  ASSUME AllBuilt, NEW i, NEW t \in Inner(i)
  PROVE  /\ BuiltOf(i, t)
         /\ t.head = "leaf" => /\ program[i].value = "alias" /\ program[i].refs # <<>>
                               /\ t \in TypeAt(i, 1) /\ LeafOf(i, 1, t)
  <1>1. CASE program[i].value = "record"
    <2>1. t = [head |-> "record", meets |-> Met(i, Own(i))]
      BY <1>1 DEF Inner
    <2>2. t.head = "record" /\ t.meets = Met(i, Own(i))
      BY <2>1
    <2> QED
      BY <2>2, MetBuilt
  <1>2. CASE program[i].value # "record" /\ program[i].value = "alias" /\ program[i].refs # <<>>
    <2>1. t \in TypeAt(i, 1)
      BY <1>2 DEF Inner
    <2> QED
      BY <1>2, <2>1, TypeAtBuilt DEF Built
  <1>3. CASE program[i].value # "record" /\ ~(program[i].value = "alias" /\ program[i].refs # <<>>)
    <2>1. t = [head |-> "builtin", meets |-> {}]
      BY <1>3 DEF Inner
    <2> QED
      BY <2>1 DEF BuiltOf
  <1> QED
    BY <1>1, <1>2, <1>3

\* What a definition without parameters is built of, another that reaches it is.
LEMMA BuiltFurther ==
  ASSUME NEW i, NEW j, Reach(j) \subseteq Reach(i), NEW t, BuiltOf(j, t), program[j].params = <<>>
  PROVE  BuiltOf(i, t) /\ \A leaf \in t.meets : leaf[1] # "param"
  BY DEF BuiltOf

\* The type of a reference to a definition, which is not applied to arguments.
LEMMA DefinedBuilt ==
  ASSUME AllBuilt, NEW i \in TypeItems, NEW k \in 1..Len(program[i].refs), NEW j \in TypeItems,
         ~Param(i, k), program[i].refs[k].name = Name(j), ~OwnAlias(j),
         program[j].params # <<>> => Bare(i), NEW t \in Defined(j)
  PROVE  Built(i, k, t)
  <1>1. j \in Uses(i)
    BY DEF Uses
  <1>2. i \in Reach(i) /\ j \in Reach(j) /\ Reach(j) \subseteq Reach(i)
    BY <1>1, ReachItself, ReachUsed
  <1>3. CASE program[j].params # <<>>
    <2>1. t = Leaf("generic", j) /\ t.meets = {<<"generic", j>>}
      BY <1>3, LeafFields DEF Defined
    <2>2. BuiltOf(i, t)
      BY <1>2, <1>3, <2>1 DEF BuiltOf
    <2>3. <<"generic", j>> \in Leaves
      BY DEF Leaves
    <2>4. LeafOf(i, k, t)
      BY <2>1, <2>3 DEF LeafOf
    <2> QED
      BY <2>2, <2>4 DEF Built
  <1>4. CASE program[j].params = <<>>
    <2>1. t \in Inner(j)
      BY <1>4 DEF Defined
    <2>2. BuiltOf(i, t) /\ \A leaf \in t.meets : leaf[1] # "param"
      BY <1>2, <1>4, <2>1, InnerBuilt, BuiltFurther
    <2>3. ASSUME t.head = "leaf" PROVE LeafOf(i, k, t)
      <3>1. program[j].value = "alias" /\ t \in TypeAt(j, 1) /\ LeafOf(j, 1, t)
        BY <2>1, <2>3, InnerBuilt
      <3>2. PICK leaf \in Leaves :
              /\ t = Leaf(leaf[1], leaf[2])
              /\ leaf[1] = "self" => leaf[2] = j
        BY <2>3, <3>1 DEF LeafOf
      <3>3. leaf[1] # "self"
        BY <1>4, <3>1, <3>2 DEF OwnAlias
      <3>4. leaf[1] # "param"
        <4>1. <<leaf[1], leaf[2]>> \in t.meets
          BY <3>2, LeafFields
        <4> QED
          BY <2>2, <4>1
      <3> QED
        BY <3>2, <3>3, <3>4 DEF LeafOf
    <2> QED
      BY <2>2, <2>3 DEF Built, LeafOf
  <1> QED
    BY <1>3, <1>4

\* The generic types that a definition stands for.
LEMMA GenericsReached ==
  ASSUME AllBuilt, NEW j \in TypeItems, NEW g \in Generics(j)
  PROVE  g \in TypeItems /\ g \in Reach(j)
  <1>1. Leaf("generic", g) \in Defined(j) /\ g \in TypeItems
    BY DEF Generics
  <1>2. Leaf("generic", g).meets = {<<"generic", g>>}
    BY LeafFields
  <1>3. CASE program[j].params # <<>>
    <2>1. Leaf("generic", j).meets = {<<"generic", j>>} /\ Leaf("generic", g) = Leaf("generic", j)
      BY <1>1, <1>3, LeafFields DEF Defined
    <2>2. <<"generic", g>> = <<"generic", j>>
      BY <1>2, <2>1
    <2>3. g = j
      BY <2>2
    <2> QED
      BY <2>3, ReachItself
  <1>4. CASE program[j].params = <<>>
    <2> DEFINE leaf == <<"generic", g>>
    <2>1. BuiltOf(j, Leaf("generic", g))
      BY <1>1, <1>4, InnerBuilt DEF Defined
    <2>2. leaf \in Leaf("generic", g).meets /\ leaf[1] = "generic" /\ leaf[2] = g
      BY <1>2
    <2> HIDE DEF leaf
    <2> QED
      BY <1>1, <2>1, <2>2 DEF BuiltOf
  <1> QED
    BY <1>3, <1>4

\* An instance is built of what the arguments of the application are built of.
LEMMA InstancesBuilt ==
  ASSUME AllBuilt, NEW k, NEW g \in Reach(Current), NEW inner \in Inner(g),
         inner.head \in {"leaf", "builtin", "record", "instance"}, NEW t \in Instances(inner, k)
  PROVE  Built(Current, k, t)
  <1> DEFINE params == {leaf[2] : leaf \in {leaf \in inner.meets : leaf[1] = "param"}}
  <1>1. ASSUME NEW n, NEW u \in Passed(k, n)
        PROVE  BuiltOf(Current, u) /\ \E m : LeafOf(Current, m, u)
    <2>1. PICK m : u \in TypeAt(Current, m)
      BY <1>1 DEF Passed
    <2> QED
      BY <2>1, TypeAtBuilt DEF Built
  <1>2. CASE inner.head = "leaf"
    <2>1. PICK leaf \in inner.meets : leaf[1] = "param" /\ t \in Passed(k, leaf[2])
      BY <1>2 DEF Instances
    <2>2. PICK m : BuiltOf(Current, t) /\ LeafOf(Current, m, t)
      BY <1>1, <2>1
    <2>3. \E j \in Reach(Current) : StandsForParam(j)
      <3>1. program[g].value = "alias" /\ program[g].refs # <<>> /\ LeafOf(g, 1, inner)
        BY <1>2, InnerBuilt
      <3>2. PICK l \in Leaves : /\ inner = Leaf(l[1], l[2])
                                /\ l[1] = "param" => Param(g, 1) \/ \E j \in Reach(g) : StandsForParam(j)
        BY <1>2, <3>1 DEF LeafOf
      <3>3. l[1] = "param"
        BY <2>1, <3>2, LeafFields
      <3>4. CASE Param(g, 1)
        BY <3>1, <3>4 DEF StandsForParam
      <3>5. CASE \E j \in Reach(g) : StandsForParam(j)
        BY <3>5, ReachTransitive
      <3> QED
        BY <3>2, <3>3, <3>4, <3>5
    <2> QED
      BY <2>2, <2>3 DEF Built, LeafOf
  <1>3. CASE inner.head = "builtin"
    <2>1. t = [head |-> "builtin", meets |-> {}]
      BY <1>3 DEF Instances
    <2> QED
      BY <2>1 DEF Built, BuiltOf, LeafOf
  <1>4. CASE inner.head = "record"
    <2>1. t = [head |-> "instance", meets |-> Met(Current, ArgsOf(Current, k))]
      BY <1>4 DEF Instances
    <2>2. t.head # "leaf" /\ t.meets = Met(Current, ArgsOf(Current, k))
      BY <2>1
    <2> QED
      BY <2>2, MetBuilt DEF Built, LeafOf
  <1>5. CASE inner.head = "instance"
    <2> DEFINE met == UNION {u.meets : u \in UNION {Passed(k, n) : n \in params}}
    <2>1. t = [head |-> "instance", meets |-> met]
      BY <1>5 DEF Instances
    <2>2. \A leaf \in met : \E n : \E u \in Passed(k, n) : leaf \in u.meets
      BY DEF met
    <2> HIDE DEF met
    <2>3. t.head # "leaf" /\ t.meets = met
      BY <2>1
    <2>4. BuiltOf(Current, t)
      BY <1>1, <2>2, <2>3 DEF BuiltOf
    <2> QED
      BY <2>3, <2>4 DEF Built, LeafOf
  <1> QED
    BY <1>2, <1>3, <1>4, <1>5

LEMMA TypedBuilt ==
  ASSUME NEW frame, NEW ts, \A t \in ts : Built(frame.item, frame.next, t), NEW y \in Typed(frame, ts)
  PROVE  \/ y \in types
         \/ y.item = frame.item /\ y.ref = frame.next /\ Built(y.item, y.ref, y.type)
  BY DEF Typed

\* A type parameter, and the definition's own name.
LEMMA LeavesBuilt ==
  ASSUME IInv, HasRef
  PROVE  /\ IsParam => \A n \in ParamsNamed(Current, Ref.name) : Built(Current, Top.next, Leaf("param", n))
         /\ ~IsParam /\ Ref.name = Name(Current) => Built(Current, Top.next, Leaf("self", Current))
  <1>1. /\ Current \in TypeItems /\ Top.next \in 1..Len(program[Current].refs)
        /\ Ref = program[Current].refs[Top.next]
    BY CurrentFrame
  <1>2. ASSUME IsParam, NEW n \in ParamsNamed(Current, Ref.name)
        PROVE  Built(Current, Top.next, Leaf("param", n))
    <2> DEFINE leaf == <<"param", n>>
    <2>1. n \in 1..Len(program[Current].params)
      BY <1>2 DEF ParamsNamed
    <2>2. program[Current].params \in Seq(Names)
      <3>1. program[Current] \in Item /\ program[Current].kind = "type"
        BY <1>1 DEF IInv, TypeOK, TypeItems, Items
      <3> QED
        BY <3>1 DEF Item
    <2>3. leaf \in Leaves
      <3>1. n \in Nat
        BY <2>1, <2>2
      <3> QED
        BY <3>1 DEF Leaves
    <2>4. leaf[1] = "param" /\ leaf[2] = n /\ Leaf("param", n).meets = {leaf}
      BY LeafFields
    <2> HIDE DEF leaf
    <2>5. BuiltOf(Current, Leaf("param", n))
      BY <2>1, <2>4 DEF BuiltOf
    <2>6. LeafOf(Current, Top.next, Leaf("param", n))
      BY <1>2, <2>3, <2>4 DEF LeafOf, IsParam
    <2> QED
      BY <2>5, <2>6 DEF Built
  <1>3. ASSUME ~IsParam, Ref.name = Name(Current)
        PROVE  Built(Current, Top.next, Leaf("self", Current))
    <2> DEFINE leaf == <<"self", Current>>
    <2>1. leaf \in Leaves /\ leaf[1] = "self" /\ leaf[2] = Current /\ Leaf("self", Current).meets = {leaf}
      BY <1>1, LeafFields DEF Leaves
    <2> HIDE DEF leaf
    <2>2. Current \in Uses(Current) /\ Current \in Reach(Current)
      BY <1>1, <1>3, ReachItself DEF Uses, IsParam
    <2>3. BuiltOf(Current, Leaf("self", Current))
      BY <2>1, <2>2 DEF BuiltOf
    <2>4. LeafOf(Current, Top.next, Leaf("self", Current))
      BY <1>1, <1>3, <2>1 DEF LeafOf
    <2> QED
      BY <2>3, <2>4 DEF Built
  <1> QED
    BY <1>2, <1>3

\* The application that is instantiated is of an evaluated type, and what that
\* stands for is in the reach of both.
LEMMA DueApplication ==
  ASSUME IInv, NamesInv, Sane, Evaluating, NEW k, NEW r \in resolved,
         r.item = Current, r.ref = k, r.applied, NEW g \in Generics(r.to)
  PROVE  /\ Current \in TypeItems /\ r.to \in mapping /\ r.to \in TypeItems
         /\ k \in 1..Len(program[Current].refs) /\ ~Param(Current, k)
         /\ program[Current].refs[k].args > 0 /\ program[Current].refs[k].name = Name(r.to)
         /\ g \in Reach(r.to) /\ g \in Reach(Current)
  <1>1. Current \in TypeItems
    BY StackFields DEF Evaluating, IInv
  <1>2. r.to \in mapping /\ program[Current].refs[k].args > 0
    BY DEF NamesInv, AppliedAsWritten
  <1>3. r.to \in TypeItems /\ r.to # 0
    BY <1>2 DEF IInv, TypeOK, TypeItems, Items
  <1>4. AsWritten(Current, k, r.to)
    BY DEF NamesInv, ResolvedAsWritten
  <1>5. /\ k \in 1..Len(program[Current].refs) /\ ~Param(Current, k)
        /\ program[Current].refs[k].name = Name(r.to)
    BY <1>3, <1>4 DEF AsWritten
  <1>6. r.to \in Uses(Current)
    BY <1>3, <1>5 DEF Uses
  <1>7. g \in Reach(r.to) /\ Reach(r.to) \subseteq Reach(Current)
    BY <1>1, <1>3, <1>6, GenericsReached, ReachUsed DEF Sane
  <1> QED
    BY <1>1, <1>2, <1>3, <1>5, <1>7

\* Every type that is added is built like that, in a definition that has not been
\* evaluated yet.
LEMMA TypesAdded ==
  ASSUME IInv, NamesInv, Sane, ~Cyclic, [Next]_vars, NEW y \in types'
  PROVE  \/ y \in types
         \/ /\ y.ref \in 1..Len(program[y.item].refs) /\ Built(y.item, y.ref, y.type)
            /\ y.item \notin mapping'
  <1> DEFINE New == /\ y.ref \in 1..Len(program[y.item].refs) /\ Built(y.item, y.ref, y.type)
                    /\ y.item \notin mapping'
  <1>1. ASSUME HasRef
        PROVE  /\ Current \in TypeItems /\ Top.item = Current
               /\ Top.next \in 1..Len(program[Current].refs)
               /\ Ref = program[Current].refs[Top.next]
    BY <1>1, CurrentFrame
  <1>2. ASSUME stack # <<>> PROVE Current \notin mapping
    <2>1. Len(stack) \in 1..Len(stack)
      BY <1>2, StackFields DEF IInv
    <2> QED
      BY <2>1 DEF Sane, Current, Top
  <1>3. CASE CreateNamespace \/ AddPending \/ PassOver \/ EndPhase \/ EvalTop \/ NoSuchNamespace
             \/ RefToPending \/ RefToNothing \/ Finished \/ UNCHANGED vars
    <2>1. types' = types
      BY <1>3 DEF CreateNamespace, AddPending, PassOver, EndPhase, EvalTop, Call, NoSuchNamespace,
                  RefToPending, RefToNothing, Finished, Fail, vars
    <2> QED
      BY <2>1
  <1>4. CASE RefToParam
    <2>1. CASE Ref.args > 0
      BY <1>4, <2>1 DEF RefToParam, Fail
    <2>2. CASE ~(Ref.args > 0)
      <3> DEFINE ts == {Leaf("param", n) : n \in ParamsNamed(Current, Ref.name)}
      <3>1. HasRef /\ IsParam /\ types' = Typed(Top, ts) /\ mapping' = mapping
        BY <1>4, <2>2 DEF RefToParam
      <3>2. \A t \in ts : Built(Top.item, Top.next, t)
        BY <1>1, <3>1, LeavesBuilt
      <3> HIDE DEF ts
      <3>3. y \in types \/ (y.item = Top.item /\ y.ref = Top.next /\ Built(y.item, y.ref, y.type))
        BY <3>1, <3>2, TypedBuilt
      <3> QED
        BY <1>1, <1>2, <3>1, <3>3 DEF HasRef, Evaluating
    <2> QED
      BY <2>1, <2>2
  <1>5. CASE RefToType
    <2>1. PICK t \in Found :
            IF Ref.args > 0 /\ Generics(t) = {} THEN Fail
            ELSE /\ resolved' = Comes(Top, t, Ref.args > 0)
                 /\ types' = IF Ref.args > 0 THEN types ELSE Typed(Top, Defined(t))
                 /\ stack' = Advance(stack, 1)
                 /\ UNCHANGED <<program, phase, cursor, spaces, pending, mapping, companions>>
      BY <1>5 DEF RefToType
    <2>2. HasRef /\ ~IsParam
      BY <1>5 DEF RefToType
    <2>3. CASE types' = types
      BY <2>3
    <2>4. CASE types' # types
      <3>1. ~(Ref.args > 0) /\ types' = Typed(Top, Defined(t)) /\ mapping' = mapping
        BY <2>1, <2>4 DEF Fail
      <3>2. Ref.args = 0
        BY <2>2, <3>1, CurrentFrame
      <3>3. /\ t \in TypeItems /\ t \in mapping /\ AsWritten(Current, Top.next, t)
            /\ ~Param(Current, Top.next)
        BY <2>2, FoundAsWritten, FoundIsEvaluated DEF IsParam
      <3>4. program[Current].refs[Top.next].name = Name(t) /\ t \in Uses(Current)
        BY <1>1, <2>2, <3>3 DEF AsWritten, Uses
      <3>5. program[t].params # <<>> => Bare(Current)
        BY <1>1, <2>2, <3>2, <3>3, <3>4 DEF Bare
      <3>6. \A u \in Defined(t) : Built(Top.item, Top.next, u)
        BY <1>1, <2>2, <3>3, <3>4, <3>5, DefinedBuilt DEF Sane
      <3>7. y \in types \/ (y.item = Top.item /\ y.ref = Top.next /\ Built(y.item, y.ref, y.type))
        BY <3>1, <3>6, TypedBuilt
      <3> QED
        BY <1>1, <1>2, <2>2, <3>1, <3>7 DEF HasRef, Evaluating
    <2> QED
      BY <2>3, <2>4
  <1>6. CASE RefToSelf
    <2>1. /\ HasRef /\ ~IsParam /\ Ref.name = Name(Current)
          /\ types' = Typed(Top, {Leaf("self", Current)}) /\ mapping' = mapping
      BY <1>6 DEF RefToSelf, Undefined
    <2>2. \A t \in {Leaf("self", Current)} : Built(Top.item, Top.next, t)
      BY <1>1, <2>1, LeavesBuilt
    <2>3. y \in types \/ (y.item = Top.item /\ y.ref = Top.next /\ Built(y.item, y.ref, y.type))
      BY <2>1, <2>2, TypedBuilt
    <2> QED
      BY <1>1, <1>2, <2>1, <2>3 DEF HasRef, Evaluating
  <1>7. CASE Instantiate
    <2>1. PICK k \in Due, r \in resolved :
            /\ r.item = Current /\ r.ref = k /\ r.applied
            /\ \E g \in Generics(r.to) : \E inner \in Inner(g) :
                 \/ UNCHANGED types
                 \/ types' = Typed([item |-> Current, next |-> k], Instances(inner, k))
      BY <1>7 DEF Instantiate
    <2>2. PICK g \in Generics(r.to) : \E inner \in Inner(g) :
            \/ UNCHANGED types
            \/ types' = Typed([item |-> Current, next |-> k], Instances(inner, k))
      BY <2>1
    <2>3. PICK inner \in Inner(g) :
            \/ UNCHANGED types
            \/ types' = Typed([item |-> Current, next |-> k], Instances(inner, k))
      BY <2>2
    <2>4. Evaluating /\ mapping' = mapping
      BY <1>7 DEF Instantiate
    <2>5. CASE types' = types
      BY <2>5
    <2>6. CASE types' = Typed([item |-> Current, next |-> k], Instances(inner, k))
      <3> DEFINE frame == [item |-> Current, next |-> k]
      <3>1. g \in Reach(Current) /\ k \in 1..Len(program[Current].refs)
        BY <2>1, <2>4, DueApplication
      <3>2. inner.head \in {"leaf", "builtin", "record", "instance"}
        BY InnerTyped DEF IInv, Types
      <3>3. \A t \in Instances(inner, k) : Built(Current, k, t)
        BY <3>1, <3>2, InstancesBuilt DEF Sane
      <3>4. frame.item = Current /\ frame.next = k
        OBVIOUS
      <3> HIDE DEF frame
      <3>5. y \in types \/ (y.item = Current /\ y.ref = k /\ Built(y.item, y.ref, y.type))
        BY <2>6, <3>3, <3>4, TypedBuilt DEF frame
      <3> QED
        BY <1>2, <2>4, <3>1, <3>5 DEF Evaluating
    <2> QED
      BY <2>3, <2>5, <2>6
  <1>8. CASE EndDefn
    <2>1. CASE types' = types
      BY <2>1
    <2>2. CASE types' # types
      <3>1. Evaluating /\ Return /\ ~OwnAlias(Current)
        BY <1>8, <2>2 DEF EndDefn, Fail
      <3> DEFINE f == stack[Len(stack) - 1]
      <3>2. /\ stack # <<>> /\ stack \in Seq(Frames) /\ Current \in TypeItems /\ phase = "eval"
            /\ Len(stack) = 1 => types' = types
            /\ Len(stack) > 1 => types' = Typed(f, Defined(Current))
            /\ mapping' = mapping \cup {Current}
        BY <3>1, ReturnFrames DEF Evaluating
      <3> HIDE DEF f
      <3>3. Len(stack) \in Nat /\ Len(stack) > 1
        <4>1. Len(stack) \in Nat /\ Len(stack) >= 1
          BY <3>2
        <4> QED
          BY <2>2, <3>2, <4>1, OneOrMore
      <3>4. /\ Len(stack) - 1 \in 1..Len(stack) /\ Len(stack) - 1 < Len(stack)
            /\ (Len(stack) - 1) + 1 = Len(stack) /\ Len(stack) \in 1..Len(stack) /\ 1 \in 1..Len(stack)
        BY <3>3
      <3>5. Calls(f, Top) /\ f.item \in TypeItems
        BY <3>4, ItemsOnStack DEF Top, NamesInv, Chain, f
      <3>6. AsWritten(f.item, f.next, Current) /\ Current # 0
        BY <3>2, <3>5 DEF Calls, Current, TypeItems, Items
      <3>7. /\ f.next \in 1..Len(program[f.item].refs) /\ ~Param(f.item, f.next)
            /\ program[f.item].refs[f.next].name = Name(Current) /\ Current \in Uses(f.item)
        BY <3>2, <3>6 DEF AsWritten, Uses
      <3>8. Bare(f.item) \/ program[Current].params = <<>>
        <4>1. cursor \in TypeItems /\ f.item \in Reach(cursor)
          <5>1. stack[1].item = cursor /\ stack[1].item \in TypeItems
            BY <3>2, <3>4, ItemsOnStack DEF IInv, OutermostIsCursor
          <5> QED
            BY <3>4, <5>1 DEF NamesInv, FromOutermost, f
        <4>2. Current \notin mapping
          BY <1>2, <3>2
        <4>3. cursor <= Current
          <5>1. ~(Current < cursor)
            BY <3>2, <4>2 DEF IInv, PassedAreEvaluated
          <5>2. cursor \in Int /\ Current \in Int
            BY <3>2, <4>1 DEF TypeItems, Items
          <5> QED
            BY <5>1, <5>2
        <4> QED
          BY <3>2, <3>7, <4>1, <4>3 DEF Bare
      <3>9. \A t \in Defined(Current) : Built(f.item, f.next, t)
        BY <3>1, <3>2, <3>5, <3>7, <3>8, DefinedBuilt DEF Sane
      <3>10. y \in types \/ (y.item = f.item /\ y.ref = f.next /\ Built(y.item, y.ref, y.type))
        BY <3>2, <3>3, <3>9, TypedBuilt
      <3>11. f.item \notin mapping /\ f.item # Current
        <4>1. f.item \notin mapping
          BY <3>4 DEF Sane, f
        <4>2. f.item # Current
          BY <3>4, RepeatMeansCyclic DEF f, Current, Top
        <4> QED
          BY <4>1, <4>2
      <3> QED
        BY <3>2, <3>7, <3>10, <3>11
    <2> QED
      BY <2>1, <2>2
  <1> QED
    BY <1>3, <1>4, <1>5, <1>6, <1>7, <1>8 DEF Next, Work

LEMMA SameBuilt ==
  ASSUME program' = program
  PROVE  \A i, k, t : Built(i, k, t)' <=> Built(i, k, t)
  <1>1. Leaves' = Leaves
    BY SameText DEF Leaves
  <1>2. \A i, t : BuiltOf(i, t)' <=> BuiltOf(i, t)
    BY SameText DEF BuiltOf
  <1>3. \A i, k, t : LeafOf(i, k, t)' <=> LeafOf(i, k, t)
    BY <1>1, SameText DEF LeafOf, Leaf
  <1> QED
    BY <1>2, <1>3 DEF Built

LEMMA SameProgram ==
  ASSUME IInv, NamesInv, [Next]_vars
  PROVE  program' = program
  <1>1. CASE Returns
    BY <1>1 DEF Returns, Return
  <1> QED
    BY <1>1, StepKinds DEF Rests, Pushes, Resolves

LEMMA InitSane == Init => Sane
  BY DEF Init, Sane, AllBuilt

LEMMA NextKeepsSane ==
  ASSUME IInv, NamesInv, Sane, ~Cyclic, [Next]_vars
  PROVE  Sane'
  <1>1. program' = program
    BY SameProgram
  <1>2. \A k \in 1..Len(stack') : stack'[k].item \notin mapping'
    <2>1. CASE Rests
      BY <2>1 DEF Rests, Sane
    <2>2. ASSUME NEW i \in TypeItems, Pushes(i)
          PROVE  \A k \in 1..Len(stack') : stack'[k].item \notin mapping'
      <3> DEFINE g == [item |-> i, next |-> 1]
      <3>1. mapping' = mapping /\ i \notin mapping /\ stack' = Append(stack, g)
        BY <2>2 DEF Pushes
      <3>2. stack \in Seq(Frames) /\ Len(stack) \in Nat /\ g \in Frames /\ g.item = i
        BY StackFields DEF IInv, Frames
      <3> HIDE DEF g
      <3>3. /\ Len(stack') = Len(stack) + 1
            /\ \A k \in 1..Len(stack) : stack'[k] = stack[k]
            /\ stack'[Len(stack) + 1] = g
        BY <3>1, <3>2
      <3> QED
        BY <3>1, <3>2, <3>3 DEF Sane
    <2>3. CASE Resolves
      <3>1. PICK n \in {1, 1 + Ref.args} : stack' = Advance(stack, n)
        BY <2>3 DEF Resolves
      <3>2. mapping' = mapping /\ stack # <<>> /\ stack \in Seq(Frames) /\ n \in Nat
        BY <2>3, CurrentFrame, StackFields DEF Resolves, IInv
      <3>3. Len(stack') = Len(stack) /\ \A k \in 1..Len(stack) : stack'[k].item = stack[k].item
        BY <3>1, <3>2, AdvanceFrames
      <3> QED
        BY <3>2, <3>3 DEF Sane
    <2>4. CASE Returns
      <3> DEFINE caller == SubSeq(stack, 1, Len(stack) - 1)
                 f == stack[Len(stack) - 1]
                 n == 1 + program[f.item].refs[f.next].args
      <3>1. /\ stack \in Seq(Frames) /\ stack # <<>>
            /\ caller \in Seq(Frames) /\ Len(caller) = Len(stack) - 1
            /\ \A k \in 1..Len(stack) - 1 : caller[k] = stack[k]
            /\ Len(stack) = 1 => stack' = <<>>
            /\ Len(stack) > 1 => n \in Nat /\ caller # <<>> /\ stack' = Advance(caller, n)
            /\ mapping' = mapping \cup {Current}
        BY <2>4, ReturnFrames DEF Returns
      <3> HIDE DEF caller, f, n
      <3>2. Len(stack) \in Nat /\ Len(stack) >= 1
        BY <3>1
      <3>3. CASE Len(stack) = 1
        <4>1. Len(stack') = 0
          BY <3>1, <3>3
        <4> QED
          BY <4>1
      <3>4. CASE Len(stack) # 1
        <4>1. Len(stack) > 1
          BY <3>2, <3>4, OneOrMore
        <4>2. /\ Len(stack') = Len(stack) - 1
              /\ \A k \in 1..Len(stack) - 1 : stack'[k].item = caller[k].item
          <5>1. caller \in Seq(Frames) /\ caller # <<>> /\ n \in Nat /\ stack' = Advance(caller, n)
            BY <3>1, <4>1
          <5>2. Len(stack') = Len(caller) /\ \A k \in 1..Len(caller) : stack'[k].item = caller[k].item
            BY <5>1, AdvanceFrames
          <5> QED
            BY <3>1, <5>2
        <4> SUFFICES ASSUME NEW k \in 1..Len(stack) - 1 PROVE stack[k].item \notin mapping \cup {Current}
          BY <3>1, <4>2
        <4>3. k \in 1..Len(stack) /\ k < Len(stack)
          BY <3>2
        <4>4. stack[k].item \notin mapping
          BY <4>3 DEF Sane
        <4>5. stack[k].item # stack[Len(stack)].item
          BY <3>2, <4>3, RepeatMeansCyclic
        <4> QED
          BY <4>4, <4>5 DEF Current, Top
      <3> QED
        BY <3>3, <3>4
    <2> QED
      BY <2>1, <2>2, <2>3, <2>4, StepKinds
  <1>3. AllBuilt'
    BY <1>1, TypesAdded, SameBuilt DEF Sane, AllBuilt
  <1>4. ASSUME NEW j \in mapping' PROVE ~OwnAlias(j)'
    <2>1. TypeAt(j, 1)' \subseteq TypeAt(j, 1)
      BY TypesAdded DEF TypeAt
    <2>2. Leaf("self", j)' = Leaf("self", j)
      BY DEF Leaf
    <2>3. ~OwnAlias(j)
      <3>1. CASE Returns
        BY <1>4, <3>1 DEF Returns, Return, Sane
      <3> QED
        BY <1>4, <3>1, StepKinds DEF Rests, Pushes, Resolves, Sane
    <2> QED
      BY <1>1, <2>1, <2>2, <2>3 DEF OwnAlias
  <1> QED
    BY <1>2, <1>3, <1>4 DEF Sane

-----------------------------------------------------------------------------
(* Why the type checker runs out of stack.                                   *)

WhyOverflow ==
  phase = "overflow" =>
    Len(stack) = MaxStack \/ Cyclic \/ AppliesRecursive \/ \E i \in TypeItems : AliasOfItself(i)

\* Types.get only comes back to a definition whose text says so.
LEMMA OwnAliasWritten ==
  ASSUME AllBuilt, NEW i \in TypeItems, OwnAlias(i)
  PROVE  AliasOfItself(i)
  <1> DEFINE own == <<"self", i>>
             t == Leaf("self", i)
  <1>1. t.head = "leaf" /\ t.meets = {own} /\ own[1] = "self" /\ own[2] = i
    BY LeafFields
  <1>2. program[i].value = "alias" /\ t \in TypeAt(i, 1)
    BY DEF OwnAlias
  <1>3. 1 \in 1..Len(program[i].refs) /\ BuiltOf(i, t) /\ LeafOf(i, 1, t)
    BY <1>2 DEF AllBuilt, TypeAt, Built
  <1> HIDE DEF own, t
  <1>4. program[i].refs # <<>>
    BY <1>3
  <1>5. i \in Uses(i)
    BY <1>1, <1>3 DEF BuiltOf
  <1>6. PICK leaf \in Leaves :
          /\ t = Leaf(leaf[1], leaf[2])
          /\ leaf[1] = "self" =>
               leaf[2] = i /\ (program[i].refs[1].name = Name(i) \/ \E j \in Reach(i) : StandsForParam(j))
    BY <1>1, <1>3 DEF LeafOf
  <1>7. leaf[1] = "self"
    <2>1. own = <<leaf[1], leaf[2]>>
      BY <1>1, <1>6, LeafFields
    <2> QED
      BY <1>1, <2>1
  <1> QED
    BY <1>2, <1>4, <1>5, <1>6, <1>7 DEF AliasOfItself

\* Nor does the walk of an instantiated type meet a definition's own name otherwise.
LEMMA EndlessWritten ==
  ASSUME IInv, NamesInv, Sane, Evaluating, NEW k, NEW r \in resolved,
         r.item = Current, r.ref = k, r.applied,
         NEW g \in Generics(r.to), NEW inner \in Inner(g), Endless(inner)
  PROVE  AppliesRecursive
  <1>1. /\ Current \in TypeItems /\ r.to \in mapping /\ r.to \in TypeItems /\ g \in Reach(r.to)
        /\ k \in 1..Len(program[Current].refs) /\ ~Param(Current, k)
        /\ program[Current].refs[k].args > 0 /\ program[Current].refs[k].name = Name(r.to)
    BY DueApplication
  <1>2. Applied(Current, r.to)
    BY <1>1 DEF Applied
  <1>3. r.to # Current
    <2>1. Len(stack) \in 1..Len(stack)
      BY StackFields DEF Evaluating, IInv
    <2>2. Current \notin mapping
      BY <2>1 DEF Sane, Current, Top
    <2> QED
      BY <1>1, <2>2
  <1>4. PICK leaf \in inner.meets : leaf[1] = "self"
    BY DEF Endless
  <1>5. leaf[2] \in Reach(g) /\ leaf[2] \in Uses(leaf[2])
    BY <1>4, InnerBuilt DEF Sane, BuiltOf
  <1>6. leaf[2] \in Reach(r.to)
    BY <1>1, <1>5, ReachTransitive
  <1> QED
    BY <1>1, <1>2, <1>3, <1>5, <1>6 DEF AppliesRecursive

LEMMA NextKeepsWhy ==
  ASSUME IInv, NamesInv, ~Cyclic => Sane, WhyOverflow, [Next]_vars
  PROVE  WhyOverflow'
  <1> SUFFICES ASSUME phase' = "overflow", ~Cyclic
               PROVE  (Len(stack) = MaxStack \/ Cyclic \/ AppliesRecursive
                        \/ \E i \in TypeItems : AliasOfItself(i))
                      /\ stack' = stack
    BY SameProgram, SameText DEF WhyOverflow
  <1>1. Sane
    OBVIOUS
  <1>2. ASSUME NEW i, Call(i), phase = "eval" PROVE Len(stack) = MaxStack /\ stack' = stack
    BY <1>2 DEF Call, Fail
  <1>3. CASE EvalTop \/ RefToPending
    BY <1>2, <1>3 DEF EvalTop, RefToPending, Undefined, HasRef, Evaluating
  <1>4. CASE EndDefn
    <2>1. Evaluating /\ Current \in TypeItems
      BY <1>4, StackFields DEF EndDefn, Evaluating, IInv
    <2>2. OwnAlias(Current) /\ stack' = stack
      BY <1>4, <2>1 DEF EndDefn, Fail, Return, Evaluating
    <2> QED
      BY <1>1, <2>1, <2>2, OwnAliasWritten DEF Sane
  <1>5. CASE Instantiate
    <2>1. Evaluating /\ phase = "eval" /\ stack' = stack
      BY <1>5 DEF Instantiate, Evaluating
    <2>2. PICK k \in Due, r \in resolved :
            /\ r.item = Current /\ r.ref = k /\ r.applied
            /\ \E g \in Generics(r.to) : \E inner \in Inner(g) :
                 Endless(inner) \/ phase' \in {"crashed", phase}
      BY <1>5 DEF Instantiate
    <2>3. PICK g \in Generics(r.to) : \E inner \in Inner(g) : Endless(inner)
      BY <2>1, <2>2
    <2>4. PICK inner \in Inner(g) : Endless(inner)
      BY <2>3
    <2> QED
      BY <1>1, <2>1, <2>2, <2>4, EndlessWritten
  <1>6. CASE Finished \/ UNCHANGED vars
    BY <1>6 DEF Finished, vars, WhyOverflow
  <1>7. CASE CreateNamespace \/ AddPending \/ PassOver \/ EndPhase \/ NoSuchNamespace
             \/ RefToParam \/ RefToType \/ RefToSelf \/ RefToNothing
    <2>1. CASE CreateNamespace \/ AddPending \/ PassOver \/ EndPhase
      BY <2>1 DEF CreateNamespace, AddPending, PassOver, EndPhase, Fail
    <2>2. CASE NoSuchNamespace \/ RefToParam \/ RefToType \/ RefToSelf \/ RefToNothing
      BY <2>2 DEF NoSuchNamespace, RefToParam, RefToType, RefToSelf, RefToNothing, Undefined,
                  HasRef, Evaluating, Fail
    <2> QED
      BY <1>7, <2>1, <2>2
  <1> QED
    BY <1>3, <1>4, <1>5, <1>6, <1>7 DEF Next, Work

\* Whatever the order of the definitions, the type checker only runs out of a
\* stack that is deep enough if they refer to each other, one is an alias of
\* itself, or a generic type is applied that contains one which refers to itself.
THEOREM OverflowsForCycles == Spec => []OverflowMeansCycle
  <1> DEFINE Inv == IInv /\ NamesInv /\ (~Cyclic => Sane) /\ WhyOverflow
  <1>1. Init => Inv
    BY InitIInv, InitNames, InitSane DEF Init, WhyOverflow
  <1>2. Inv /\ [Next]_vars => Inv'
    <2> SUFFICES ASSUME Inv, [Next]_vars PROVE Inv'
      OBVIOUS
    <2>1. Cyclic' <=> Cyclic
      BY SameProgram, SameText
    <2>2. ~Cyclic => Sane'
      BY NextKeepsSane
    <2> QED
      BY <2>1, <2>2, NextKeepsIInv, NextKeepsNames, NextKeepsWhy
  <1>3. Inv => OverflowMeansCycle
    <2> SUFFICES ASSUME Inv, phase = "overflow", MaxStack > Cardinality(TypeItems), Len(stack) = MaxStack
                 PROVE  Cyclic
      BY DEF OverflowMeansCycle, WhyOverflow
    <2> QED
      BY DeepMeansCyclic
  <1> HIDE DEF Inv
  <1> QED
    BY <1>1, <1>2, <1>3, PTL DEF Spec


-----------------------------------------------------------------------------
(* The references of evaluated definitions have been evaluated.              *)

LEMMA InitComplete == Init => Complete
  BY DEF Init, Complete

LEMMA ComesKnown ==
  ASSUME NEW frame, NEW t, NEW applied
  PROVE  /\ resolved \subseteq Comes(frame, t, applied)
         /\ Known(Comes(frame, t, applied), frame.item, frame.next)
  <1> DEFINE r == [item |-> frame.item, ref |-> frame.next, to |-> t, applied |-> applied]
  <1>1. r.item = frame.item /\ r.ref = frame.next /\ Comes(frame, t, applied) = resolved \cup {r}
    BY DEF Comes
  <1> HIDE DEF r
  <1> QED
    BY <1>1 DEF Known

\* A frame whose reference has been evaluated moves on by it, or by it and its
\* arguments.
LEMMA AdvanceComplete ==
  ASSUME NEW i, program[i].refs \in Seq(Refs), NEW next \in 1..Len(program[i].refs),
         NEW n \in {1, 1 + program[i].refs[next].args},
         \A k \in Own(i) : k < next => Known(resolved, i, k),
         resolved \subseteq resolved', Known(resolved', i, next)
  PROVE  \A k \in Own(i) : k < next + n => Known(resolved', i, k)
  <1> SUFFICES ASSUME NEW k \in Own(i), k < next + n PROVE Known(resolved', i, k)
    OBVIOUS
  <1>1. k \in 1..Len(program[i].refs) /\ program[i].refs[next].args \in Nat
    <2>1. program[i].refs[next] \in Refs
      OBVIOUS
    <2> QED
      BY <2>1 DEF Own, Refs
  <1>2. CASE k < next
    BY <1>2 DEF Known
  <1>3. CASE k = next
    BY <1>3
  <1>4. CASE k > next
    <2>1. k \in next + 1..next + program[i].refs[next].args
      BY <1>1, <1>4
    <2>2. k \in Arguments(i)
      BY <2>1 DEF Arguments, Within
    <2> QED
      BY <2>2 DEF Own
  <1> QED
    BY <1>1, <1>2, <1>3, <1>4

LEMMA NextKeepsComplete ==
  ASSUME IInv, NamesInv, Complete, [Next]_vars
  PROVE  Complete'
  <1>1. ASSUME program' = program, resolved \subseteq resolved', mapping' = mapping
        PROVE  \A i \in mapping' : \A k \in Own(i)' : Known(resolved', i, k)
    BY <1>1, SameText DEF Complete, Known
  <1>2. CASE Rests
    <2>1. program' = program /\ mapping' = mapping /\ stack' = stack /\ resolved' = resolved
      BY <1>2 DEF Rests
    <2>2. phase' = "done" => mapping' = TypeItems'
      BY <1>2, <2>1, SameText DEF Rests, Complete
    <2> QED
      BY <2>1, <2>2, SameText DEF Complete, Known
  <1>3. ASSUME NEW i \in TypeItems, Pushes(i) PROVE Complete'
    <2> DEFINE g == [item |-> i, next |-> 1]
    <2>1. /\ program' = program /\ resolved' = resolved /\ phase' = phase /\ phase = "eval"
          /\ mapping' = mapping /\ stack' = Append(stack, g)
      BY <1>3 DEF Pushes
    <2>2. stack \in Seq(Frames) /\ Len(stack) \in Nat /\ g \in Frames
      BY StackFields DEF IInv, Frames
    <2>3. /\ Len(stack') = Len(stack) + 1
          /\ \A m \in 1..Len(stack) : stack'[m] = stack[m]
          /\ stack'[Len(stack) + 1] = g
      BY <2>1, <2>2
    <2>4. ASSUME NEW m \in 1..Len(stack'), NEW k \in Own(stack'[m].item), k < stack'[m].next
          PROVE  Known(resolved, stack'[m].item, k)
      <3>1. CASE m \in 1..Len(stack)
        BY <2>3, <2>4, <3>1 DEF Complete
      <3>2. CASE m = Len(stack) + 1
        <4>1. k < 1 /\ k \in Nat \ {0}
          BY <2>3, <2>4, <3>2 DEF Own
        <4> QED
          BY <4>1
      <3> QED
        BY <2>2, <2>3, <3>1, <3>2
    <2> QED
      BY <1>1, <2>1, <2>4, SameText DEF Complete, Known
  <1>4. CASE Resolves
    <2>1. PICK to \in {0} \cup TypeItems, applied \in BOOLEAN :
            /\ AsWritten(Current, Top.next, to)
            /\ applied => to \in mapping /\ Ref.args > 0
            /\ resolved' = Comes(Top, to, applied)
      BY <1>4 DEF Resolves
    <2>2. PICK n \in {1, 1 + Ref.args} : stack' = Advance(stack, n)
      BY <1>4 DEF Resolves
    <2>3. HasRef /\ program' = program /\ phase' = phase /\ phase = "eval" /\ mapping' = mapping
      BY <1>4, CurrentFrame DEF Resolves
    <2>4. /\ stack # <<>> /\ stack \in Seq(Frames) /\ Len(stack) \in Nat /\ Current \in TypeItems
          /\ Top = stack[Len(stack)] /\ Top.item = Current /\ Top.next \in 1..Len(program[Current].refs)
          /\ Ref = program[Current].refs[Top.next] /\ Ref.args \in Nat
          /\ program[Current].refs \in Seq(Refs)
      BY <2>3, CurrentFrame, StackFields, ProgramFields DEF IInv
    <2>5. n \in Nat
      BY <2>4
    <2>6. /\ Len(stack') = Len(stack)
          /\ \A m \in 1..Len(stack) : m < Len(stack) => stack'[m] = stack[m]
          /\ stack'[Len(stack)].item = Current /\ stack'[Len(stack)].next = Top.next + n
      <3>1. Len(stack) \in 1..Len(stack)
        BY <2>4
      <3>2. stack'[Len(stack)] = [item |-> Top.item, next |-> Top.next + n]
        BY <2>2, <2>4, <3>1 DEF Advance
      <3> QED
        BY <2>2, <2>4, <2>5, <3>1, <3>2, AdvanceFrames
    <2>7. resolved \subseteq resolved' /\ Known(resolved', Current, Top.next)
      BY <2>1, <2>4, ComesKnown
    <2>8. \A k \in Own(Current) : k < Top.next + n => Known(resolved', Current, k)
      <3>1. \A k \in Own(Current) : k < Top.next => Known(resolved, Current, k)
        BY <2>4 DEF Complete
      <3> QED
        BY <2>4, <2>7, <3>1, AdvanceComplete
    <2>9. ASSUME NEW m \in 1..Len(stack'), NEW k \in Own(stack'[m].item), k < stack'[m].next
          PROVE  Known(resolved', stack'[m].item, k)
      <3>1. CASE m < Len(stack)
        BY <2>6, <2>7, <2>9, <3>1 DEF Complete, Known
      <3>2. CASE m = Len(stack)
        BY <2>6, <2>8, <2>9, <3>2
      <3> QED
        BY <2>4, <2>6, <3>1, <3>2
    <2> QED
      BY <1>1, <2>3, <2>7, <2>9, SameText DEF Complete
  <1>5. CASE Returns
    <2> DEFINE caller == SubSeq(stack, 1, Len(stack) - 1)
               f == stack[Len(stack) - 1]
               n == 1 + program[f.item].refs[f.next].args
    <2>1. /\ stack \in Seq(Frames) /\ stack # <<>> /\ Current \in TypeItems
          /\ caller \in Seq(Frames) /\ Len(caller) = Len(stack) - 1
          /\ \A k \in 1..Len(stack) - 1 : caller[k] = stack[k]
          /\ Len(stack) = 1 => stack' = <<>> /\ resolved' = resolved
          /\ Len(stack) > 1 => /\ n \in Nat /\ caller # <<>> /\ stack' = Advance(caller, n)
                               /\ resolved' = Comes(f, Current, FALSE)
          /\ program' = program /\ phase' = phase /\ phase = "eval"
          /\ mapping' = mapping \cup {Current}
          /\ Top.next > Len(program[Current].refs)
      BY <1>5, ReturnFrames DEF Returns, Evaluating
    <2> HIDE DEF caller
    <2>2. Len(stack) \in Nat /\ Len(stack) \in 1..Len(stack) /\ Top \in Frames
          /\ program[Current].refs \in Seq(Refs)
      BY <2>1, StackFields, ProgramFields DEF IInv
    <2>3. resolved \subseteq resolved'
      BY <2>1, <2>2 DEF Comes
    <2>4. \A k \in Own(Current) : Known(resolved, Current, k)
      <3>1. \A k \in Own(Current) : k < Top.next
        BY <2>1, <2>2 DEF Own, Frames
      <3> QED
        BY <2>2, <3>1 DEF Complete, Top, Current
    <2>5. \A i \in mapping' : \A k \in Own(i)' : Known(resolved', i, k)
      BY <2>1, <2>3, <2>4, SameText DEF Complete, Known
    <2>6. CASE Len(stack) = 1
      <3>1. Len(stack') = 0
        BY <2>1, <2>6
      <3> QED
        BY <2>1, <2>5, <3>1 DEF Complete
    <2>7. CASE Len(stack) > 1
      <3>1. /\ Len(stack) - 1 \in 1..Len(stack) /\ Len(stack) - 1 < Len(stack)
            /\ Len(caller) \in 1..Len(caller) /\ caller[Len(caller)] = f
        <4>1. Len(caller) = Len(stack) - 1 /\ Len(stack) - 1 \in 1..Len(stack) - 1
              /\ Len(stack) - 1 \in 1..Len(stack) /\ Len(stack) - 1 < Len(stack)
          <5>1. Len(caller) = Len(stack) - 1 /\ Len(stack) \in Nat
            BY <2>1, <2>2
          <5> HIDE DEF f, n
          <5> QED
            BY <2>7, <5>1
        <4>2. caller[Len(stack) - 1] = stack[Len(stack) - 1]
          BY <2>1, <4>1
        <4> QED
          BY <4>1, <4>2
      <3>2. /\ f.item \in TypeItems /\ f.next \in 1..Len(program[f.item].refs)
            /\ program[f.item].refs \in Seq(Refs)
        <4>1. f.item \in TypeItems /\ f.next \in Nat \ {0}
          BY <3>1, ItemsOnStack
        <4>2. program[f.item].refs \in Seq(Refs) /\ f.next <= Len(program[f.item].refs)
          BY <3>1, <4>1, ProgramFields DEF IInv, WaitAtReference
        <4> HIDE DEF f
        <4> QED
          BY <4>1, <4>2
      <3>3. Known(resolved', f.item, f.next)
        BY <2>1, <2>7, ComesKnown
      <3>4. \A k \in Own(f.item) : k < f.next => Known(resolved, f.item, k)
        BY <3>1 DEF Complete
      <3>5. \A k \in Own(f.item) : k < f.next + n => Known(resolved', f.item, k)
        <4> HIDE DEF f
        <4> QED
          BY <2>3, <3>2, <3>3, <3>4, AdvanceComplete
      <3>6. /\ Len(stack') = Len(caller)
            /\ \A m \in 1..Len(caller) : m < Len(caller) => stack'[m] = caller[m]
            /\ stack'[Len(caller)].item = f.item /\ stack'[Len(caller)].next = f.next + n
        <4> HIDE DEF f, n
        <4>1. stack'[Len(caller)] = [item |-> f.item, next |-> f.next + n]
          BY <2>1, <2>7, <3>1 DEF Advance
        <4> QED
          BY <2>1, <2>7, <3>1, <4>1, AdvanceFrames
      <3>7. ASSUME NEW m \in 1..Len(stack'), NEW k \in Own(stack'[m].item), k < stack'[m].next
            PROVE  Known(resolved', stack'[m].item, k)
        <4>1. CASE m < Len(caller)
          <5>1. m \in 1..Len(stack) /\ stack'[m] = stack[m]
            BY <2>1, <2>2, <3>6, <4>1
          <5>2. Known(resolved, stack[m].item, k)
            BY <3>7, <5>1 DEF Complete
          <5> QED
            BY <2>3, <5>1, <5>2 DEF Known
        <4>2. CASE m = Len(caller)
          BY <3>5, <3>6, <3>7, <4>2
        <4> QED
          BY <2>1, <3>6, <4>1, <4>2
      <3> QED
        BY <2>1, <2>5, <3>7, SameText DEF Complete
    <2> QED
      BY <2>1, <2>2, <2>6, <2>7
  <1> QED
    BY <1>2, <1>3, <1>4, <1>5, StepKinds


-----------------------------------------------------------------------------
(* Programs without faults are accepted.                                     *)

Faultless == WellFormed /\ MaxStack > Cardinality(TypeItems)

\* So far nothing has gone wrong, and the namespaces are those before the cursor.
Good ==
  /\ phase \notin {"failed", "crashed", "overflow"}
  /\ phase = "ns" => \A i \in spaces : i # 0 => i \in Items \ TypeItems /\ i < cursor

LEMMA SameFaults ==
  ASSUME program' = program
  PROVE  Faultless' <=> Faultless
  <1>1. TypeItems' = TypeItems /\ Items' = Items
    BY DEF TypeItems, Items
  <1>2. \A i : Name(i)' = Name(i) /\ Scope(i)' = Scope(i)
    BY DEF Name, Scope
  <1>3. \A s : Enclosing(s)' = Enclosing(s)
    BY DEF Enclosing, Scope
  <1>4. \A i, k : ArgsOf(i, k)' = ArgsOf(i, k)
    BY DEF ArgsOf, Within
  <1>5. \A i, j, k : Instantiable(i, j, k)' <=> Instantiable(i, j, k)
    BY <1>4, SameText DEF Instantiable
  <1>6. \A i : Distinct(program[i].params)' <=> Distinct(program[i].params)
    BY DEF Distinct
  <1>7. \A i : Sound(i)' <=> Sound(i)
    BY <1>1, <1>2, <1>3, <1>5, <1>6, SameText DEF Sound
  <1>8. UniqueNames' <=> UniqueNames
    BY <1>1, <1>2 DEF UniqueNames
  <1> QED
    BY <1>1, <1>2, <1>7, <1>8, SameText DEF Faultless, WellFormed

\* Where names are unique, the only entry of a name that can be seen is found.
LEMMA NearestUnique ==
  ASSUME UniqueNames, NEW map \in SUBSET TypeItems, NEW j \in map, NEW s, Scope(j) \in Enclosing(s)
  PROVE  j \in Nearest(map, s, Name(j))
  BY SeesItself DEF UniqueNames, Nearest

LEMMA InitGood == Init => Good
  <1> SUFFICES ASSUME Init PROVE Good
    OBVIOUS
  <1> QED
    BY DEF Init, Good

\* A call in a program without faults.
LEMMA GoodCall ==
  ASSUME IInv, NamesInv, Faultless, phase = "eval", NEW i \in TypeItems, Call(i)
  PROVE  phase' = phase
  <1>1. Distinct(program[i].params) /\ ~Cyclic
    BY DEF Faultless, WellFormed, Sound
  <1>2. Len(stack) # MaxStack
    BY <1>1, DeepMeansCyclic DEF Faultless
  <1> QED
    BY <1>1, <1>2 DEF Call

\* What a reference of a program without faults names.
LEMMA GoodReference ==
  ASSUME IInv, Faultless, HasRef
  PROVE  /\ Ref.path = <<>>
         /\ IsParam => Ref.args = 0
         /\ ~IsParam => \E j \in TypeItems :
                          /\ Name(j) = Ref.name /\ Scope(j) \in Enclosing(Scope(Current))
                          /\ Ref.args > 0 /\ j # Current => program[j].params # <<>>
  <1>1. /\ Current \in TypeItems /\ Top.next \in 1..Len(program[Current].refs)
        /\ Ref = program[Current].refs[Top.next]
    BY CurrentFrame
  <1>2. Sound(Current)
    BY <1>1 DEF Faultless, WellFormed
  <1> QED
    BY <1>1, <1>2 DEF Sound, IsParam

\* A generic type stands for itself alone.
LEMMA GenericStandsForItself ==
  ASSUME NEW j \in TypeItems, program[j].params # <<>>
  PROVE  Generics(j) = {j}
  <1>1. \A g : Leaf("generic", g) = Leaf("generic", j) => g = j
    <2> SUFFICES ASSUME NEW g, Leaf("generic", g) = Leaf("generic", j) PROVE g = j
      OBVIOUS
    <2>1. Leaf("generic", g).meets = {<<"generic", g>>} /\ Leaf("generic", j).meets = {<<"generic", j>>}
      BY LeafFields
    <2>2. <<"generic", g>> = <<"generic", j>>
      BY <2>1
    <2> QED
      BY <2>2
  <1> QED
    BY <1>1 DEF Generics, Defined

\* What a program without faults applies can be instantiated.
LEMMA GoodInstance ==
  ASSUME IInv, NamesInv, Sane, Faultless, Evaluating, NEW k, NEW r \in resolved,
         r.item = Current, r.ref = k, r.applied, NEW g \in Generics(r.to), NEW inner \in Inner(g)
  PROVE  ~Endless(inner) /\ ~Unreachable(inner, Cardinality(ArgsOf(Current, k)))
  <1> DEFINE passed == Cardinality(ArgsOf(Current, k))
  <1>1. /\ Current \in TypeItems /\ r.to \in mapping /\ r.to \in TypeItems
        /\ k \in 1..Len(program[Current].refs) /\ ~Param(Current, k)
        /\ program[Current].refs[k].args > 0 /\ program[Current].refs[k].name = Name(r.to)
    BY DueApplication
  <1>2. r.to # Current
    <2>1. Len(stack) \in 1..Len(stack)
      BY StackFields DEF Evaluating, IInv
    <2> QED
      BY <1>1, <2>1 DEF Sane, Current, Top
  <1>3. UniqueNames /\ Sound(Current)
    BY <1>1 DEF Faultless, WellFormed
  <1>4. program[r.to].params # <<>> /\ Instantiable(Current, r.to, k)
    <2>1. PICK j \in TypeItems :
            /\ Name(j) = program[Current].refs[k].name
            /\ program[Current].refs[k].args > 0 /\ j # Current =>
                 program[j].params # <<>> /\ Instantiable(Current, j, k)
      BY <1>1, <1>3 DEF Sound
    <2>2. j = r.to
      BY <1>1, <1>3, <2>1 DEF UniqueNames
    <2> QED
      BY <1>1, <1>2, <2>1, <2>2
  <1>5. g = r.to
    BY <1>1, <1>4, GenericStandsForItself
  <1>6. BuiltOf(g, inner)
    BY InnerBuilt DEF Sane
  <1>7. passed \in Nat /\ Len(program[g].params) \in Nat
    <2>1. program[Current].refs[k].args \in Nat /\ k \in Nat
      <3>1. program[Current].refs \in Seq(Refs)
        BY <1>1, ProgramFields DEF IInv
      <3>2. program[Current].refs[k] \in Refs /\ k \in Nat
        BY <1>1, <3>1
      <3> QED
        BY <3>2 DEF Refs
    <2>2. IsFiniteSet(Within(Current, k))
      <3>1. \A a, b \in Int : IsFiniteSet(a..b)
        BY FS_Interval
      <3>2. k + 1 \in Int /\ k + program[Current].refs[k].args \in Int
        BY <2>1
      <3> QED
        BY <3>1, <3>2 DEF Within
    <2>3. IsFiniteSet(ArgsOf(Current, k))
      BY <2>2, FS_Subset DEF ArgsOf
    <2>4. program[g].params \in Seq(Names)
      <3>1. program[g] \in Item /\ program[g].kind = "type"
        BY <1>1, <1>5 DEF IInv, TypeOK, TypeItems, Items
      <3> QED
        BY <3>1 DEF Item
    <2> QED
      BY <2>3, <2>4, FS_CardinalityType
  <1> HIDE DEF passed
  <1>8. Len(program[g].params) <= passed /\ \A m \in Reach(g) : m \notin Uses(m) /\ ~Bare(m)
    BY <1>4, <1>5 DEF Instantiable, passed
  <1>9. ~Endless(inner)
    BY <1>6, <1>8 DEF Endless, BuiltOf
  <1>10. ~Unreachable(inner, passed)
    <2> SUFFICES ASSUME NEW leaf \in inner.meets,
                        leaf[1] = "generic" \/ (leaf[1] = "param" /\ leaf[2] > passed)
                 PROVE  FALSE
      BY DEF Unreachable
    <2>1. CASE leaf[1] = "generic"
      BY <1>6, <1>8, <2>1 DEF BuiltOf
    <2>2. CASE leaf[1] = "param" /\ leaf[2] > passed
      <3>1. leaf[2] \in 1..Len(program[g].params)
        BY <1>6, <2>2 DEF BuiltOf
      <3> QED
        BY <1>7, <1>8, <2>2, <3>1
    <2> QED
      BY <2>1, <2>2
  <1> QED
    BY <1>9, <1>10 DEF passed

LEMMA NothingGoesWrong ==
  ASSUME IInv, NamesInv, Sane, Good, Faultless, Work
  PROVE  /\ phase' \notin {"failed", "crashed", "overflow"}
         /\ phase' = "ns" => \A i \in spaces' : i # 0 => i \in Items \ TypeItems /\ i < cursor'
  <1>1. /\ TypeOK /\ phase \notin {"failed", "crashed", "overflow"}
        /\ Len(program) \in Nat /\ Items = 1..Len(program)
        /\ cursor \in Nat
    BY ProgramFields DEF IInv, Good, TypeOK
  <1>2. /\ UniqueNames
        /\ \A i, j \in Items \ TypeItems : i # j => Name(i) # Name(j)
        /\ \A i \in Items \ TypeItems : Name(i) # "_root"
        /\ \A i \in TypeItems : Sound(i)
        /\ ~Cyclic
    BY DEF Faultless, WellFormed
  <1>3. CASE CreateNamespace
    <2>1. phase = "ns" /\ cursor \in Items \ TypeItems
      BY <1>3 DEF CreateNamespace, TypeItems
    <2>2. In(spaces, Scope(cursor), Name(cursor)) = {}
      <3> SUFFICES ASSUME NEW i \in spaces, Name(i) = Name(cursor) PROVE FALSE
        BY DEF In
      <3>1. CASE i = 0
        <4>1. Name(i) = "_root"
          BY <3>1 DEF Name
        <4> QED
          BY <1>2, <2>1, <4>1
      <3>2. CASE i # 0
        <4>1. i \in Items \ TypeItems /\ i < cursor
          BY <2>1, <3>2 DEF Good
        <4> QED
          BY <1>1, <1>2, <2>1, <4>1
      <3> QED
        BY <3>1, <3>2
    <2>3. phase' = phase /\ spaces' = spaces \cup {cursor} /\ cursor' = cursor + 1
      BY <1>3, <2>2 DEF CreateNamespace
    <2>4. ASSUME NEW i \in spaces', i # 0 PROVE i \in Items \ TypeItems /\ i < cursor + 1
      <3>1. CASE i \in spaces
        <4>1. i \in Items \ TypeItems /\ i < cursor
          BY <2>1, <2>4, <3>1 DEF Good
        <4> QED
          BY <1>1, <4>1
      <3>2. CASE i = cursor
        BY <1>1, <2>1, <3>2
      <3> QED
        BY <2>3, <3>1, <3>2
    <2> QED
      BY <1>1, <2>3, <2>4
  <1>4. CASE AddPending
    <2>1. phase = "defn" /\ cursor \in TypeItems
      BY <1>4 DEF AddPending, TypeItems
    <2>2. In(pending, Scope(cursor), Name(cursor)) = {}
      <3> SUFFICES ASSUME NEW i \in pending, Name(i) = Name(cursor) PROVE FALSE
        BY DEF In
      <3>1. i \in TypeItems /\ i < cursor
        BY <2>1 DEF IInv, PhasesInOrder
      <3> QED
        BY <1>1, <1>2, <2>1, <3>1 DEF UniqueNames
    <2> QED
      BY <1>4, <2>1, <2>2 DEF AddPending
  <1>5. CASE PassOver
    <2>1. phase' = phase /\ spaces' = spaces /\ cursor' = cursor + 1
      BY <1>5 DEF PassOver
    <2>2. ASSUME phase = "ns", NEW i \in spaces, i # 0 PROVE i \in Items \ TypeItems /\ i < cursor + 1
      <3>1. i \in Items \ TypeItems /\ i < cursor
        BY <2>2 DEF Good
      <3> QED
        BY <1>1, <3>1
    <2> QED
      BY <1>1, <2>1, <2>2
  <1>6. CASE EndPhase
    BY <1>6 DEF EndPhase
  <1>7. CASE EvalTop
    <2>1. phase = "eval" /\ cursor \in TypeItems /\ Call(cursor)
      BY <1>7 DEF EvalTop, TypeItems
    <2> QED
      BY <2>1, GoodCall
  <1>8. CASE NoSuchNamespace
    BY <1>8, GoodReference DEF NoSuchNamespace
  <1>9. CASE RefToParam
    <2>1. HasRef /\ IsParam /\ Ref.args = 0 /\ phase = "eval"
      BY <1>9, GoodReference, CurrentFrame DEF RefToParam
    <2> QED
      BY <1>9, <2>1 DEF RefToParam
  <1>10. CASE RefToType
    <2>1. PICK t \in Found :
            IF Ref.args > 0 /\ Generics(t) = {} THEN Fail
            ELSE /\ resolved' = Comes(Top, t, Ref.args > 0)
                 /\ types' = IF Ref.args > 0 THEN types ELSE Typed(Top, Defined(t))
                 /\ stack' = Advance(stack, 1)
                 /\ UNCHANGED <<program, phase, cursor, spaces, pending, mapping, companions>>
      BY <1>10 DEF RefToType
    <2>2. HasRef /\ ~IsParam /\ phase = "eval"
      BY <1>10, CurrentFrame DEF RefToType
    <2>3. ASSUME Ref.args > 0 PROVE Generics(t) # {}
      <3>1. PICK j \in TypeItems : Name(j) = Ref.name /\ (j # Current => program[j].params # <<>>)
        BY <2>2, <2>3, GoodReference
      <3>2. t \in mapping /\ t \in TypeItems /\ Name(t) = Ref.name
        BY FoundIsEvaluated DEF IInv, TypeOK, Found, Nearest, In
      <3>3. t = j
        BY <1>2, <3>1, <3>2 DEF UniqueNames
      <3>4. t # Current
        <4>1. Len(stack) \in 1..Len(stack)
          BY <2>2, StackFields DEF HasRef, Evaluating, IInv
        <4> QED
          BY <3>2, <4>1 DEF Sane, Current, Top
      <3> QED
        BY <3>1, <3>2, <3>3, <3>4, GenericStandsForItself
    <2> QED
      BY <2>1, <2>2, <2>3
  <1>11. CASE RefToSelf
    BY <1>11, CurrentFrame DEF RefToSelf, Undefined
  <1>12. CASE RefToPending
    <2>1. PICK i \in Nearest(pending, Scope(Current), Ref.name) : Call(i)
      BY <1>12 DEF RefToPending
    <2>2. phase = "eval" /\ i \in TypeItems
      BY <1>12, CurrentFrame DEF RefToPending, Undefined, Nearest, IInv, TypeOK
    <2> QED
      BY <2>1, <2>2, GoodCall
  <1>13. CASE RefToNothing
    <2>1. /\ HasRef /\ ~IsParam /\ Found = {} /\ phase = "eval"
          /\ Nearest(pending, Scope(Current), Ref.name) = {}
      BY <1>13, CurrentFrame DEF RefToNothing, Undefined
    <2>2. Ref.path = <<>>
      BY <2>1, GoodReference
    <2>3. PICK j \in TypeItems : Name(j) = Ref.name /\ Scope(j) \in Enclosing(Scope(Current))
      BY <2>1, GoodReference
    <2>4. CASE j \in mapping
      <3>1. j \in Nearest(mapping, Scope(Current), Ref.name)
        BY <1>1, <1>2, <2>3, <2>4, NearestUnique DEF TypeOK
      <3> QED
        BY <2>1, <2>2, <3>1 DEF Found
    <2>5. CASE j \in pending
      BY <1>1, <1>2, <2>1, <2>3, <2>5, NearestUnique DEF TypeOK
    <2>6. j \in mapping \/ j \in pending
      BY <2>1, <2>3 DEF IInv, PendingOrEvaluated
    <2> QED
      BY <2>4, <2>5, <2>6
  <1>14. CASE EndDefn
    <2>1. /\ Evaluating /\ stack # <<>> /\ phase = "eval" /\ Current \in TypeItems
          /\ stack \in Seq(Frames) /\ Len(stack) \in 1..Len(stack) /\ Top = stack[Len(stack)]
      BY <1>14, StackFields DEF EndDefn, Evaluating, IInv, Top
    <2>2. ~OwnAlias(Current)
      BY <1>2, <2>1, OwnAliasWritten DEF Sane, Sound
    <2>3. In(mapping, Scope(Current), Name(Current)) = {}
      <3> SUFFICES ASSUME NEW t \in mapping, Name(t) = Name(Current) PROVE FALSE
        BY DEF In
      <3>1. t = Current
        BY <1>1, <1>2, <2>1 DEF UniqueNames, TypeOK
      <3> QED
        BY <2>1, <3>1 DEF Sane, Current
    <2>4. Return
      BY <1>14, <2>2, <2>3 DEF EndDefn
    <2> QED
      BY <2>1, <2>4 DEF Return
  <1>15. CASE Instantiate
    <2>1. Evaluating /\ phase = "eval"
      BY <1>15 DEF Instantiate, Evaluating
    <2>2. PICK k \in Due, r \in resolved :
            /\ r.item = Current /\ r.ref = k /\ r.applied
            /\ \E g \in Generics(r.to) : \E inner \in Inner(g) :
                 \/ Endless(inner)
                 \/ Unreachable(inner, Cardinality(ArgsOf(Current, k)))
                 \/ UNCHANGED phase
      BY <1>15 DEF Instantiate
    <2>3. \A g \in Generics(r.to) : \A inner \in Inner(g) :
            ~Endless(inner) /\ ~Unreachable(inner, Cardinality(ArgsOf(Current, k)))
      BY <2>1, <2>2, GoodInstance
    <2> QED
      BY <2>1, <2>2, <2>3
  <1> QED
    BY <1>3, <1>4, <1>5, <1>6, <1>7, <1>8, <1>9, <1>10, <1>11, <1>12, <1>13, <1>14, <1>15 DEF Work


LEMMA NextKeepsGood ==
  ASSUME IInv, NamesInv, Sane, Good, Faultless, [Next]_vars
  PROVE  Good'
  <1>1. program' = program
    BY SameProgram
  <1>2. CASE Work
    BY <1>1, <1>2, NothingGoesWrong, SameText DEF Good
  <1>3. CASE Finished \/ UNCHANGED vars
    BY <1>1, <1>3, SameText DEF Good, Finished, vars
  <1> QED
    BY <1>2, <1>3 DEF Next

\* A program without faults is accepted in whatever order it defines its types,
\* and every reference in it has been evaluated.
THEOREM WellFormedAccepted == Spec => []AcceptsWellFormed
  <1> DEFINE Inv == IInv /\ NamesInv /\ (~Cyclic => Sane) /\ Complete /\ (Faultless => Good)
  <1>1. Init => Inv
    BY InitIInv, InitNames, InitSane, InitComplete, InitGood
  <1>2. Inv /\ [Next]_vars => Inv'
    <2> SUFFICES ASSUME Inv, [Next]_vars PROVE Inv'
      OBVIOUS
    <2>1. (Cyclic' <=> Cyclic) /\ (Faultless' <=> Faultless)
      BY SameProgram, SameText, SameFaults
    <2>2. ~Cyclic => Sane'
      BY NextKeepsSane
    <2>3. Faultless => Good'
      BY NextKeepsGood DEF Faultless, WellFormed
    <2> QED
      BY <2>1, <2>2, <2>3, NextKeepsIInv, NextKeepsNames, NextKeepsComplete
  <1>3. Inv => AcceptsWellFormed
    <2> SUFFICES ASSUME Inv, phase \in Over, Faultless
                 PROVE  /\ phase = "done"
                        /\ \A i \in TypeItems : \A k \in Own(i) : Known(resolved, i, k)
      BY DEF AcceptsWellFormed, Faultless, Own, Known
    <2>1. phase = "done"
      BY DEF Good, Over, IInv, NothingLeftPending
    <2> QED
      BY <2>1 DEF Complete
  <1> HIDE DEF Inv
  <1> QED
    BY <1>1, <1>2, <1>3, PTL DEF Spec
=============================================================================
