--------------------------- MODULE MatchingProofs ---------------------------
(***************************************************************************)
(* Pattern matching, for every pool of types and patterns and every match: *)
(* the chain of tests selects the first arm that describes the value, and  *)
(* what the exhaustiveness check accepts and rejects is justified          *)
(* (Matching.tla).                                                         *)
(***************************************************************************)
EXTENDS Matching, WellFoundedInduction, TLAPS

-----------------------------------------------------------------------------
(* Induction and recursion over the places of a pool.                        *)

LEMMA LeastNat ==
  ASSUME NEW S \in SUBSET Nat, S # {}
  PROVE  \E m \in S : \A n \in S : m <= n
  <1>1. IsWellFoundedOn({ss \in Nat \X Nat : ss[1] < ss[2]}, Nat)
    BY NatLessThanWellFounded DEF OpToRel
  <1>2. PICK m \in S : \A n \in S : ~(<<n, m>> \in {ss \in Nat \X Nat : ss[1] < ss[2]})
    BY <1>1, WFMin
  <1>3. ASSUME NEW n \in S PROVE m <= n
    <2>1. n \in Nat /\ m \in Nat
      OBVIOUS
    <2>2. n < m => <<n, m>> \in {ss \in Nat \X Nat : ss[1] < ss[2]}
      BY <2>1
    <2> QED
      BY <1>2, <2>1, <2>2
  <1> QED
    BY <1>3

\* What holds of a place if it does of those before it holds of all.
LEMMA Below ==
  ASSUME NEW m \in Nat, NEW S, \A n \in 1..m : 1..n - 1 \subseteq S => n \in S
  PROVE  1..m \subseteq S
  <1> DEFINE B == {n \in 1..m : n \notin S}
  <1> SUFFICES ASSUME B # {} PROVE FALSE
    OBVIOUS
  <1>0. B \in SUBSET Nat
    OBVIOUS
  <1> HIDE DEF B
  <1>1. PICK n \in B : \A k \in B : n <= k
    BY <1>0, LeastNat
  <1> USE DEF B
  <1>2. n \in 1..m
    BY <1>1
  <1>3. ASSUME NEW k \in 1..n - 1 PROVE k \in S
    <2>1. k \in 1..m /\ ~(n <= k)
      BY <1>2
    <2> QED
      BY <1>1, <2>1
  <1> QED
    BY <1>1, <1>2, <1>3

\* A step that says of each place, in terms of those before it, what a function with
\* values in R comes to there, defines one.
Stepwise(n, R, H) ==
  /\ R # {}
  /\ \A i \in 1..n : \A g \in [1..n -> R] : H[i][g] \in R
  /\ \A i \in 1..n : \A g, h \in [1..n -> R] :
       (\A j \in 1..i - 1 : g[j] = h[j]) => H[i][g] = H[i][h]

LEMMA Recursion ==
  ASSUME NEW n \in Nat, NEW R, NEW H, Stepwise(n, R, H)
  PROVE  \E f \in [1..n -> R] : \A i \in 1..n : f[i] = H[i][f]
  <1> DEFINE Upto(m) == \E f \in [1..n -> R] : \A i \in 1..m : f[i] = H[i][f]
             S == {m \in 1..n : Upto(m)}
  <1> USE DEF Stepwise
  <1>1. Upto(0)
    <2>1. PICK r : r \in R
      OBVIOUS
    <2> DEFINE f == [i \in 1..n |-> r]
    <2>2. f \in [1..n -> R]
      BY <2>1
    <2>3. \A i \in 1..0 : f[i] = H[i][f]
      OBVIOUS
    <2> QED
      BY <2>2, <2>3
  <1>2. ASSUME NEW m \in 1..n, Upto(m - 1) PROVE Upto(m)
    <2>1. PICK f \in [1..n -> R] : \A i \in 1..m - 1 : f[i] = H[i][f]
      BY <1>2
    <2> DEFINE g == [i \in 1..n |-> IF i = m THEN H[m][f] ELSE f[i]]
    <2>2. H[m][f] \in R
      OBVIOUS
    <2>3. g \in [1..n -> R]
      BY <2>2
    <2>4. \A j \in 1..m - 1 : j \in 1..n /\ j # m
      OBVIOUS
    <2>5. g[m] = H[m][f] /\ \A j \in 1..m - 1 : g[j] = f[j]
      BY <2>4
    <2> HIDE DEF g
    <2>6. ASSUME NEW i \in 1..m PROVE g[i] = H[i][g]
      <3>1. i \in 1..n /\ 1..i - 1 \subseteq 1..m - 1
        OBVIOUS
      <3>2. H[i][f] = H[i][g]
        BY <2>3, <2>5, <3>1
      <3> QED
        BY <2>1, <2>5, <3>2
    <2> QED
      BY <2>3, <2>6
  <1> HIDE DEF Upto
  <1>3. ASSUME NEW m \in 1..n, 1..m - 1 \subseteq S PROVE m \in S
    <2>1. CASE m = 1
      BY <1>1, <1>2, <2>1
    <2>2. CASE m # 1
      <3>1. m - 1 \in 1..m - 1
        BY <2>2
      <3> QED
        BY <1>2, <1>3, <3>1
    <2> QED
      BY <2>1, <2>2
  <1>4. 1..n \subseteq S
    <2> HIDE DEF S
    <2> QED
      BY <1>3, Below
  <1>5. Upto(n)
    <2>1. CASE n = 0
      BY <1>1, <2>1
    <2>2. CASE n # 0
      BY <1>4, <2>2
    <2> QED
      BY <2>1, <2>2
  <1> QED
    BY <1>5 DEF Upto

-----------------------------------------------------------------------------
(* What types hold.                                                          *)

\* The places of types and of patterns, and the type of a part.
TypeIds == 1..Len(Types)
PatternIds == 1..Len(Patterns)

Of(t, n) == Types[t].parts[n]

LEMMA Parts ==
  ASSUME NEW t \in TypeIds, NEW n \in DOMAIN Types[t].parts
  PROVE  /\ Of(t, n) \in 0..t - 1
         /\ Of(t, n) # 0 => Of(t, n) \in TypeIds /\ Of(t, n) < t
         /\ Types[t].kind = "struct" => Of(t, n) # 0
  BY TypesAssumption DEF TypeIds, Of

LEMMA HoldsLocal ==
  ASSUME NEW t \in TypeIds, NEW leaves, NEW g, NEW h,
         \A s \in TypeIds : s < t => g[s] = h[s]
  PROVE  Holds(g, Types[t], leaves) = Holds(h, Types[t], leaves)
  <1> DEFINE parts == Types[t].parts
  <1>1. \A n \in DOMAIN parts : parts[n] # 0 => g[parts[n]] = h[parts[n]]
    BY Parts DEF Of
  <1>2. CASE Types[t].kind = "enum"
    <2> DEFINE Of1(f, n) == IF parts[n] = 0 THEN {Variant(n, <<>>)}
                            ELSE {Variant(n, <<i>>) : i \in f[parts[n]]}
    <2>1. \A n \in DOMAIN parts : Of1(g, n) = Of1(h, n)
      BY <1>1
    <2>2. Holds(g, Types[t], leaves) = UNION {Of1(g, n) : n \in DOMAIN parts}
          /\ Holds(h, Types[t], leaves) = UNION {Of1(h, n) : n \in DOMAIN parts}
      BY <1>2 DEF Holds
    <2> HIDE DEF Of1
    <2> QED
      BY <2>1, <2>2
  <1>3. CASE Types[t].kind = "struct"
    <2> DEFINE In(f) == UNION {f[parts[n]] : n \in DOMAIN parts}
               Fs(f) == {x \in [DOMAIN parts -> In(f)] : \A n \in DOMAIN parts : x[n] \in f[parts[n]]}
    <2>1. \A n \in DOMAIN parts : g[parts[n]] = h[parts[n]]
      BY <1>1, <1>3, Parts DEF Of
    <2>2. In(g) = In(h)
      BY <2>1
    <2> HIDE DEF In
    <2>3. Fs(g) = Fs(h)
      BY <2>1, <2>2
    <2>4. Holds(g, Types[t], leaves) = {Struct(x) : x \in Fs(g)}
          /\ Holds(h, Types[t], leaves) = {Struct(x) : x \in Fs(h)}
      BY <1>3 DEF Holds, In
    <2> HIDE DEF Fs
    <2> QED
      BY <2>3, <2>4
  <1>4. CASE Types[t].kind \notin {"enum", "struct"}
    BY <1>4 DEF Holds
  <1> QED
    BY <1>2, <1>3, <1>4

LEMMA InhabitantsUnfold ==
  ASSUME NEW leaves
  PROVE  \A t \in TypeIds : Inhabitants(leaves)[t] = Holds(Inhabitants(leaves), Types[t], leaves)
  <1>0. Len(Types) \in Nat /\ DOMAIN Types = TypeIds /\ TypeIds = 1..Len(Types)
    BY TypesAssumption DEF TypeIds
  <1> DEFINE Upto(m) == \E f : f = [t \in 1..m |-> Holds(f, Types[t], leaves)]
             S == {m \in 1..Len(Types) : Upto(m)}
  <1>1. Upto(0)
    <2> DEFINE f == [t \in 1..0 |-> {}]
    <2>1. f = [t \in 1..0 |-> Holds(f, Types[t], leaves)]
      OBVIOUS
    <2> QED
      BY <2>1
  <1>2. ASSUME NEW m \in 1..Len(Types), Upto(m - 1) PROVE Upto(m)
    <2>1. PICK f : f = [t \in 1..m - 1 |-> Holds(f, Types[t], leaves)]
      BY <1>2
    <2> DEFINE g == [t \in 1..m |-> IF t = m THEN Holds(f, Types[m], leaves) ELSE f[t]]
    <2>2. \A t \in 1..m - 1 : t \in 1..m /\ t # m /\ f[t] = Holds(f, Types[t], leaves)
      BY <2>1
    <2>3. g[m] = Holds(f, Types[m], leaves) /\ \A t \in 1..m - 1 : g[t] = f[t]
      BY <2>2
    <2>4. g = [t \in 1..m |-> g[t]]
      OBVIOUS
    <2> HIDE DEF g
    <2>5. ASSUME NEW t \in 1..m PROVE g[t] = Holds(g, Types[t], leaves)
      <3>1. t \in TypeIds /\ \A s \in TypeIds : s < t => s \in 1..m - 1
        BY <1>0
      <3>2. Holds(f, Types[t], leaves) = Holds(g, Types[t], leaves)
        BY <2>3, <3>1, HoldsLocal
      <3>3. t = m \/ t \in 1..m - 1
        OBVIOUS
      <3> QED
        BY <2>2, <2>3, <3>2, <3>3
    <2>6. g = [t \in 1..m |-> Holds(g, Types[t], leaves)]
      BY <2>4, <2>5
    <2> QED
      BY <2>6
  <1> HIDE DEF Upto
  <1>3. ASSUME NEW m \in 1..Len(Types), 1..m - 1 \subseteq S PROVE m \in S
    <2>1. CASE m = 1
      BY <1>1, <1>2, <2>1
    <2>2. CASE m # 1
      <3>1. m - 1 \in 1..m - 1
        BY <2>2
      <3> QED
        BY <1>2, <1>3, <3>1
    <2> QED
      BY <2>1, <2>2
  <1>4. 1..Len(Types) \subseteq S
    <2> HIDE DEF S
    <2> QED
      BY <1>0, <1>3, Below
  <1>5. Upto(Len(Types))
    <2>1. CASE Len(Types) = 0
      BY <1>1, <2>1
    <2>2. CASE Len(Types) # 0
      BY <1>0, <1>4, <2>2
    <2> QED
      BY <2>1, <2>2
  <1>6. \E f : f = [t \in DOMAIN Types |-> Holds(f, Types[t], leaves)]
    BY <1>0, <1>5 DEF Upto
  <1>7. Inhabitants(leaves) = CHOOSE f : f = [t \in DOMAIN Types |-> Holds(f, Types[t], leaves)]
    BY DEF Inhabitants, Holds
  <1>8. Inhabitants(leaves) = [t \in DOMAIN Types |-> Holds(Inhabitants(leaves), Types[t], leaves)]
    BY <1>6, <1>7
  <1> HIDE DEF Inhabitants
  <1> QED
    BY <1>0, <1>8

\* The three kinds of types.
LEMMA EnumHolds ==
  ASSUME NEW leaves, NEW t \in TypeIds, Types[t].kind = "enum", NEW x
  PROVE  x \in Inhabitants(leaves)[t] <=>
           \E n \in DOMAIN Types[t].parts :
             \/ Of(t, n) = 0 /\ x = Variant(n, <<>>)
             \/ Of(t, n) # 0 /\ \E i \in Inhabitants(leaves)[Of(t, n)] : x = Variant(n, <<i>>)
  <1> DEFINE I == Inhabitants(leaves)
  <1>1. I[t] = Holds(I, Types[t], leaves)
    BY InhabitantsUnfold
  <1> HIDE DEF I
  <1> DEFINE Part(n) == IF Of(t, n) = 0 THEN {Variant(n, <<>>)}
                        ELSE {Variant(n, <<i>>) : i \in I[Of(t, n)]}
  <1>2. I[t] = UNION {Part(n) : n \in DOMAIN Types[t].parts}
    BY <1>1 DEF Holds, Of
  <1>3. ASSUME NEW n
        PROVE  x \in Part(n) <=> \/ Of(t, n) = 0 /\ x = Variant(n, <<>>)
                                 \/ Of(t, n) # 0 /\ \E i \in I[Of(t, n)] : x = Variant(n, <<i>>)
    <2>1. CASE Of(t, n) = 0
      <3>1. Part(n) = {Variant(n, <<>>)}
        BY <2>1
      <3> HIDE DEF Part
      <3> QED
        BY <2>1, <3>1
    <2>2. CASE Of(t, n) # 0
      <3>1. Part(n) = {Variant(n, <<i>>) : i \in I[Of(t, n)]}
        BY <2>2
      <3> HIDE DEF Part
      <3> QED
        BY <2>2, <3>1
    <2> QED
      BY <2>1, <2>2
  <1> HIDE DEF Part
  <1>4. x \in I[t] <=> \E n \in DOMAIN Types[t].parts : x \in Part(n)
    BY <1>2
  <1>5. x \in I[t] <=> \E n \in DOMAIN Types[t].parts :
          \/ Of(t, n) = 0 /\ x = Variant(n, <<>>)
          \/ Of(t, n) # 0 /\ \E i \in I[Of(t, n)] : x = Variant(n, <<i>>)
    BY <1>3, <1>4
  <1> QED
    BY <1>5 DEF I

LEMMA StructHolds ==
  ASSUME NEW leaves, NEW t \in TypeIds, Types[t].kind = "struct"
  PROVE  /\ \A x \in Inhabitants(leaves)[t] :
              /\ x.kind = "struct" /\ DOMAIN x.fields = DOMAIN Types[t].parts
              /\ \A n \in DOMAIN Types[t].parts : x.fields[n] \in Inhabitants(leaves)[Of(t, n)]
         /\ \A f : /\ f = [n \in DOMAIN Types[t].parts |-> f[n]]
                   /\ \A n \in DOMAIN Types[t].parts : f[n] \in Inhabitants(leaves)[Of(t, n)]
                   => Struct(f) \in Inhabitants(leaves)[t]
  <1> DEFINE I == Inhabitants(leaves)
             parts == Types[t].parts
             In == UNION {I[parts[n]] : n \in DOMAIN parts}
             Fs == {x \in [DOMAIN parts -> In] : \A n \in DOMAIN parts : x[n] \in I[parts[n]]}
  <1>1. I[t] = Holds(I, Types[t], leaves)
    BY InhabitantsUnfold
  <1> HIDE DEF I
  <1>2. I[t] = {Struct(x) : x \in Fs}
    BY <1>1 DEF Holds
  <1>3. ASSUME NEW x \in I[t]
        PROVE  /\ x.kind = "struct" /\ DOMAIN x.fields = DOMAIN parts
               /\ \A n \in DOMAIN parts : x.fields[n] \in I[Of(t, n)]
    <2>1. PICK f \in Fs : x = Struct(f)
      BY <1>2
    <2>2. x.kind = "struct" /\ x.fields = f
      BY <2>1 DEF Struct
    <2> QED
      BY <2>1, <2>2 DEF Of
  <1>4. ASSUME NEW f, f = [n \in DOMAIN parts |-> f[n]],
               \A n \in DOMAIN parts : f[n] \in I[Of(t, n)]
        PROVE  Struct(f) \in I[t]
    <2>1. \A n \in DOMAIN parts : f[n] \in In
      BY <1>4 DEF Of
    <2> HIDE DEF In
    <2>2. f \in [DOMAIN parts -> In]
      BY <1>4, <2>1
    <2>3. f \in Fs
      BY <1>4, <2>2 DEF Of
    <2> QED
      BY <1>2, <2>3
  <1> QED
    BY <1>3, <1>4 DEF I

LEMMA LeafHolds ==
  ASSUME NEW leaves, NEW t \in TypeIds, Types[t].kind \notin {"enum", "struct"}
  PROVE  Inhabitants(leaves)[t] = {Leaf(Types[t].kind, i) : i \in leaves[Types[t].kind]}
  <1> DEFINE I == Inhabitants(leaves)
  <1>1. I[t] = Holds(I, Types[t], leaves)
    BY InhabitantsUnfold
  <1> HIDE DEF I
  <1>2. I[t] = {Leaf(Types[t].kind, i) : i \in leaves[Types[t].kind]}
    BY <1>1 DEF Holds
  <1> QED
    BY <1>2 DEF I

LEMMA KindOf ==
  ASSUME NEW leaves, NEW t \in TypeIds, NEW x \in Inhabitants(leaves)[t]
  PROVE  x.kind = Types[t].kind
  <1>1. CASE Types[t].kind = "enum"
    BY <1>1, EnumHolds DEF Variant
  <1>2. CASE Types[t].kind = "struct"
    BY <1>2, StructHolds
  <1>3. CASE Types[t].kind \notin {"enum", "struct"}
    BY <1>3, LeafHolds DEF Leaf
  <1> QED
    BY <1>1, <1>2, <1>3

\* What is inside an inhabitant of an enum.
LEMMA InsideEnum ==
  ASSUME NEW leaves, NEW t \in TypeIds, Types[t].kind = "enum",
         NEW x \in Inhabitants(leaves)[t]
  PROVE  /\ x.kind = "enum" /\ x.tag \in DOMAIN Types[t].parts
         /\ Of(t, x.tag) = 0 <=> x.payload = <<>>
         /\ x.payload # <<>> => /\ x.payload[1] \in Inhabitants(leaves)[Of(t, x.tag)]
                                /\ x = Variant(x.tag, <<x.payload[1]>>)
  <1>1. PICK n \in DOMAIN Types[t].parts :
             \/ Of(t, n) = 0 /\ x = Variant(n, <<>>)
             \/ Of(t, n) # 0 /\ \E i \in Inhabitants(leaves)[Of(t, n)] : x = Variant(n, <<i>>)
    BY EnumHolds
  <1>2. CASE Of(t, n) = 0 /\ x = Variant(n, <<>>)
    BY <1>2 DEF Variant
  <1>3. ASSUME NEW i \in Inhabitants(leaves)[Of(t, n)], Of(t, n) # 0, x = Variant(n, <<i>>)
        PROVE  /\ x.kind = "enum" /\ x.tag = n /\ x.payload # <<>> /\ x.payload[1] = i
               /\ x = Variant(x.tag, <<x.payload[1]>>)
    <2>1. <<i>> # <<>> /\ <<i>>[1] = i
      OBVIOUS
    <2> QED
      BY <1>3, <2>1 DEF Variant
  <1> QED
    BY <1>1, <1>2, <1>3

\* Something a type of the pool holds, and what is inside it.
Held(leaves) == UNION {Inhabitants(leaves)[t] : t \in TypeIds}

LEMMA InsideHeld ==
  ASSUME NEW leaves, NEW x \in Held(leaves)
  PROVE  /\ x.kind = "enum" /\ x.payload # <<>> => x.payload[1] \in Held(leaves)
         /\ x.kind = "struct" => \A n \in DOMAIN x.fields : x.fields[n] \in Held(leaves)
  <1>1. PICK t \in TypeIds : x \in Inhabitants(leaves)[t]
    BY DEF Held
  <1>2. x.kind = Types[t].kind
    BY <1>1, KindOf
  <1>3. ASSUME x.kind = "enum", x.payload # <<>> PROVE x.payload[1] \in Held(leaves)
    <2>1. x.tag \in DOMAIN Types[t].parts /\ Of(t, x.tag) # 0
          /\ x.payload[1] \in Inhabitants(leaves)[Of(t, x.tag)]
      BY <1>1, <1>2, <1>3, InsideEnum
    <2> QED
      BY <2>1, Parts DEF Held
  <1>4. ASSUME x.kind = "struct", NEW n \in DOMAIN x.fields PROVE x.fields[n] \in Held(leaves)
    <2>1. /\ DOMAIN x.fields = DOMAIN Types[t].parts
          /\ \A m \in DOMAIN Types[t].parts : x.fields[m] \in Inhabitants(leaves)[Of(t, m)]
      BY <1>1, <1>2, <1>4, StructHolds
    <2> QED
      BY <1>2, <1>4, <2>1, Parts DEF Held
  <1> QED
    BY <1>3, <1>4

-----------------------------------------------------------------------------
(* The functions over patterns.                                              *)

ConstructorLeaves ==
  [unit |-> {"unit"}, bool |-> {"false", "true"}, scalar |-> {"placeholder"}, pointer |-> {}]

LEMMA PoolsHold ==
  /\ Values = Inhabitants(LeafValues) /\ AllValues = Held(LeafValues)
  /\ Constructors = Inhabitants(ConstructorLeaves) /\ AllConstructors = Held(ConstructorLeaves)
  /\ DOMAIN Types = TypeIds /\ DOMAIN Patterns = PatternIds /\ Len(Patterns) \in Nat
  <1>1. DOMAIN Types = TypeIds /\ DOMAIN Patterns = PatternIds /\ Len(Patterns) \in Nat
    BY TypesAssumption, PatternsAssumption DEF TypeIds, PatternIds
  <1>2. Values = Inhabitants(LeafValues) /\ Constructors = Inhabitants(ConstructorLeaves)
    BY DEF Values, Constructors, ConstructorLeaves
  <1> QED
    BY <1>1, <1>2 DEF AllValues, AllConstructors, Held

LEMMA PatternKinds ==
  ASSUME NEW i \in PatternIds
  PROVE  Patterns[i].kind \in {"any", "literal", "enum", "struct"}
  BY PatternsAssumption DEF PatternIds

LEMMA PatternParts ==
  ASSUME NEW i \in PatternIds
  PROVE  /\ Patterns[i].kind = "enum" /\ Patterns[i].payload # 0 =>
              Patterns[i].payload \in PatternIds /\ Patterns[i].payload \in 1..i - 1
         /\ Patterns[i].kind = "struct" =>
              \A k \in DOMAIN Patterns[i].fields :
                /\ Patterns[i].fields[k].pattern \in PatternIds
                /\ Patterns[i].fields[k].pattern \in 1..i - 1
  <1>1. i \in Nat /\ i <= Len(Patterns) /\ Len(Patterns) \in Nat
    BY PoolsHold DEF PatternIds
  <1>2. \A q \in 1..i - 1 : q \in PatternIds
    BY <1>1 DEF PatternIds
  <1>3. Patterns[i].kind = "enum" => Patterns[i].payload \in 0..i - 1
    BY PatternsAssumption DEF PatternIds
  <1>4. Patterns[i].kind = "struct" =>
          \A k \in DOMAIN Patterns[i].fields : Patterns[i].fields[k].pattern \in 1..i - 1
    BY PatternsAssumption DEF PatternIds
  <1> QED
    BY <1>1, <1>2, <1>3, <1>4


LEMMA FitsUnfold ==
  \A i \in PatternIds : \A t \in TypeIds :
    Fits[i][t] \in BOOLEAN /\ (Fits[i][t] <=> FitsType(Fits, Patterns[i], Types[t]))
  <1> DEFINE N == Len(Patterns)
             R == [TypeIds -> BOOLEAN]
             Step(g, i) == [t \in DOMAIN Types |-> FitsType(g, Patterns[i], Types[t])]
             H == [i \in 1..N |-> [g \in [1..N -> R] |-> Step(g, i)]]
  <1>0. PatternIds = 1..N /\ N \in Nat /\ DOMAIN Types = TypeIds /\ DOMAIN Patterns = 1..N
    BY PoolsHold DEF PatternIds
  <1>10. Fits = CHOOSE g : g = [i \in DOMAIN Patterns |-> Step(g, i)]
    BY DEF Fits
  <1> HIDE DEF N
  <1>1. ASSUME NEW g, NEW i \in PatternIds, NEW t \in TypeIds
        PROVE  FitsType(g, Patterns[i], Types[t]) \in BOOLEAN
    BY PatternKinds DEF FitsType
  <1>2. \A i \in 1..N : \A g \in [1..N -> R] : Step(g, i) \in R
    BY <1>0, <1>1
  <1>3. ASSUME NEW i \in 1..N, NEW g \in [1..N -> R], NEW h \in [1..N -> R],
               \A j \in 1..i - 1 : g[j] = h[j]
        PROVE  Step(g, i) = Step(h, i)
    <2>1. ASSUME NEW t \in TypeIds
          PROVE  FitsType(g, Patterns[i], Types[t]) = FitsType(h, Patterns[i], Types[t])
      <3>1. CASE Patterns[i].kind = "enum"
        BY <1>0, <1>3, <3>1, PatternParts DEF FitsType
      <3>2. CASE Patterns[i].kind = "struct"
        BY <1>0, <1>3, <3>2, PatternParts DEF FitsType
      <3>3. CASE Patterns[i].kind \in {"any", "literal"}
        BY <3>3 DEF FitsType
      <3> QED
        BY <1>0, <3>1, <3>2, <3>3, PatternKinds
    <2> QED
      BY <1>0, <2>1
  <1>4. R # {}
    <2>1. [t \in TypeIds |-> TRUE] \in R
      OBVIOUS
    <2> QED
      BY <2>1
  <1>s. \A g, i : Step(g, i) = [t \in TypeIds |-> FitsType(g, Patterns[i], Types[t])]
    BY <1>0
  <1> HIDE DEF R, Step
  <1>5. \A i \in 1..N : \A g \in [1..N -> R] : H[i][g] = Step(g, i)
    OBVIOUS
  <1> HIDE DEF H
  <1>6. Stepwise(N, R, H)
    BY <1>2, <1>3, <1>4, <1>5 DEF Stepwise
  <1>7. PICK f \in [1..N -> R] : \A i \in 1..N : f[i] = H[i][f]
    BY <1>0, <1>6, Recursion
  <1>8. f = [i \in DOMAIN Patterns |-> Step(f, i)]
    BY <1>0, <1>5, <1>7
  <1>11. Fits = [i \in DOMAIN Patterns |-> Step(Fits, i)]
    BY <1>8, <1>10
  <1>12. ASSUME NEW i \in PatternIds, NEW t \in TypeIds
         PROVE  /\ Fits[i][t] \in BOOLEAN
                /\ Fits[i][t] <=> FitsType(Fits, Patterns[i], Types[t])
    <2>1. Fits[i] = Step(Fits, i)
      BY <1>0, <1>11
    <2>2. Fits[i][t] = FitsType(Fits, Patterns[i], Types[t])
      BY <1>s, <2>1
    <2>3. FitsType(Fits, Patterns[i], Types[t]) \in BOOLEAN
      BY <1>1
    <2> QED
      BY <2>2, <2>3
  <1> QED
    BY <1>12

LEMMA PatternMatchesUnfold ==
  \A i \in PatternIds : \A c \in AllConstructors :
    PatternMatches[i][c] \in BOOLEAN
    /\ (PatternMatches[i][c] <=> MatchesConstructor(PatternMatches, Patterns[i], c))
  <1> DEFINE N == Len(Patterns)
             R == [AllConstructors -> BOOLEAN]
             Step(g, i) == [c \in AllConstructors |-> MatchesConstructor(g, Patterns[i], c)]
             H == [i \in 1..N |-> [g \in [1..N -> R] |-> Step(g, i)]]
  <1>0. PatternIds = 1..N /\ N \in Nat /\ DOMAIN Patterns = 1..N
    BY PoolsHold DEF PatternIds
  <1>10. PatternMatches = CHOOSE g : g = [i \in DOMAIN Patterns |-> Step(g, i)]
    BY DEF PatternMatches
  <1> HIDE DEF N
  <1>1. ASSUME NEW g, NEW i \in PatternIds, NEW c \in AllConstructors
        PROVE  MatchesConstructor(g, Patterns[i], c) \in BOOLEAN
    BY PatternKinds DEF MatchesConstructor
  <1>2. \A i \in 1..N : \A g \in [1..N -> R] : Step(g, i) \in R
    BY <1>0, <1>1
  <1>3. ASSUME NEW i \in 1..N, NEW g \in [1..N -> R], NEW h \in [1..N -> R],
               \A j \in 1..i - 1 : g[j] = h[j]
        PROVE  Step(g, i) = Step(h, i)
    <2>1. ASSUME NEW c \in AllConstructors
          PROVE  MatchesConstructor(g, Patterns[i], c) = MatchesConstructor(h, Patterns[i], c)
      <3>1. CASE Patterns[i].kind = "enum"
        BY <1>0, <1>3, <3>1, PatternParts DEF MatchesConstructor
      <3>2. CASE Patterns[i].kind = "struct"
        BY <1>0, <1>3, <3>2, PatternParts DEF MatchesConstructor
      <3>3. CASE Patterns[i].kind \in {"any", "literal"}
        BY <3>3 DEF MatchesConstructor
      <3> QED
        BY <1>0, <3>1, <3>2, <3>3, PatternKinds
    <2> QED
      BY <1>0, <2>1
  <1>4. R # {}
    <2>1. [c \in AllConstructors |-> TRUE] \in R
      OBVIOUS
    <2> QED
      BY <2>1
  <1>s. \A g, i : Step(g, i) = [c \in AllConstructors |-> MatchesConstructor(g, Patterns[i], c)]
    BY <1>0
  <1> HIDE DEF R, Step
  <1>5. \A i \in 1..N : \A g \in [1..N -> R] : H[i][g] = Step(g, i)
    OBVIOUS
  <1> HIDE DEF H
  <1>6. Stepwise(N, R, H)
    BY <1>2, <1>3, <1>4, <1>5 DEF Stepwise
  <1>7. PICK f \in [1..N -> R] : \A i \in 1..N : f[i] = H[i][f]
    BY <1>0, <1>6, Recursion
  <1>8. f = [i \in DOMAIN Patterns |-> Step(f, i)]
    BY <1>0, <1>5, <1>7
  <1>11. PatternMatches = [i \in DOMAIN Patterns |-> Step(PatternMatches, i)]
    BY <1>8, <1>10
  <1>12. ASSUME NEW i \in PatternIds, NEW c \in AllConstructors
         PROVE  /\ PatternMatches[i][c] \in BOOLEAN
                /\ PatternMatches[i][c] <=> MatchesConstructor(PatternMatches, Patterns[i], c)
    <2>1. PatternMatches[i] = Step(PatternMatches, i)
      BY <1>0, <1>11
    <2>2. PatternMatches[i][c] = MatchesConstructor(PatternMatches, Patterns[i], c)
      BY <1>s, <2>1
    <2>3. MatchesConstructor(PatternMatches, Patterns[i], c) \in BOOLEAN
      BY <1>1
    <2> QED
      BY <2>2, <2>3
  <1> QED
    BY <1>12

LEMMA DescribesUnfold ==
  \A i \in PatternIds : \A v \in AllValues :
    Describes[i][v] \in BOOLEAN
    /\ (Describes[i][v] <=> DescribesValue(Describes, Patterns[i], v))
  <1> DEFINE N == Len(Patterns)
             R == [AllValues -> BOOLEAN]
             Step(g, i) == [v \in AllValues |-> DescribesValue(g, Patterns[i], v)]
             H == [i \in 1..N |-> [g \in [1..N -> R] |-> Step(g, i)]]
  <1>0. PatternIds = 1..N /\ N \in Nat /\ DOMAIN Patterns = 1..N
    BY PoolsHold DEF PatternIds
  <1>10. Describes = CHOOSE g : g = [i \in DOMAIN Patterns |-> Step(g, i)]
    BY DEF Describes
  <1> HIDE DEF N
  <1>1. ASSUME NEW g, NEW i \in PatternIds, NEW v \in AllValues
        PROVE  DescribesValue(g, Patterns[i], v) \in BOOLEAN
    BY PatternKinds DEF DescribesValue
  <1>2. \A i \in 1..N : \A g \in [1..N -> R] : Step(g, i) \in R
    BY <1>0, <1>1
  <1>3. ASSUME NEW i \in 1..N, NEW g \in [1..N -> R], NEW h \in [1..N -> R],
               \A j \in 1..i - 1 : g[j] = h[j]
        PROVE  Step(g, i) = Step(h, i)
    <2>1. ASSUME NEW v \in AllValues
          PROVE  DescribesValue(g, Patterns[i], v) = DescribesValue(h, Patterns[i], v)
      <3>1. CASE Patterns[i].kind = "enum"
        BY <1>0, <1>3, <3>1, PatternParts DEF DescribesValue
      <3>2. CASE Patterns[i].kind = "struct"
        BY <1>0, <1>3, <3>2, PatternParts DEF DescribesValue
      <3>3. CASE Patterns[i].kind \in {"any", "literal"}
        BY <3>3 DEF DescribesValue
      <3> QED
        BY <1>0, <3>1, <3>2, <3>3, PatternKinds
    <2> QED
      BY <1>0, <2>1
  <1>4. R # {}
    <2>1. [v \in AllValues |-> TRUE] \in R
      OBVIOUS
    <2> QED
      BY <2>1
  <1>s. \A g, i : Step(g, i) = [v \in AllValues |-> DescribesValue(g, Patterns[i], v)]
    BY <1>0
  <1> HIDE DEF R, Step
  <1>5. \A i \in 1..N : \A g \in [1..N -> R] : H[i][g] = Step(g, i)
    OBVIOUS
  <1> HIDE DEF H
  <1>6. Stepwise(N, R, H)
    BY <1>2, <1>3, <1>4, <1>5 DEF Stepwise
  <1>7. PICK f \in [1..N -> R] : \A i \in 1..N : f[i] = H[i][f]
    BY <1>0, <1>6, Recursion
  <1>8. f = [i \in DOMAIN Patterns |-> Step(f, i)]
    BY <1>0, <1>5, <1>7
  <1>11. Describes = [i \in DOMAIN Patterns |-> Step(Describes, i)]
    BY <1>8, <1>10
  <1>12. ASSUME NEW i \in PatternIds, NEW v \in AllValues
         PROVE  /\ Describes[i][v] \in BOOLEAN
                /\ Describes[i][v] <=> DescribesValue(Describes, Patterns[i], v)
    <2>1. Describes[i] = Step(Describes, i)
      BY <1>0, <1>11
    <2>2. Describes[i][v] = DescribesValue(Describes, Patterns[i], v)
      BY <1>s, <2>1
    <2>3. DescribesValue(Describes, Patterns[i], v) \in BOOLEAN
      BY <1>1
    <2> QED
      BY <2>2, <2>3
  <1> QED
    BY <1>12

LEMMA CompleteUnfold ==
  ASSUME NEW excluded
  PROVE  \A i \in PatternIds : \A t \in TypeIds :
           /\ Complete(excluded)[i][t] \in BOOLEAN
           /\ Complete(excluded)[i][t] <=>
                CompleteFor(Complete(excluded), excluded, Patterns[i], Types[t])
  <1> DEFINE N == Len(Patterns)
             R == [TypeIds -> BOOLEAN]
             Step(g, i) == [t \in DOMAIN Types |-> CompleteFor(g, excluded, Patterns[i], Types[t])]
             H == [i \in 1..N |-> [g \in [1..N -> R] |-> Step(g, i)]]
  <1>0. PatternIds = 1..N /\ N \in Nat /\ DOMAIN Types = TypeIds /\ DOMAIN Patterns = 1..N
    BY PoolsHold DEF PatternIds
  <1>10. Complete(excluded) = CHOOSE g : g = [i \in DOMAIN Patterns |-> Step(g, i)]
    BY DEF Complete
  <1> HIDE DEF N
  <1>1. ASSUME NEW g, NEW i \in PatternIds, NEW t \in TypeIds
        PROVE  CompleteFor(g, excluded, Patterns[i], Types[t]) \in BOOLEAN
    BY PatternKinds DEF CompleteFor
  <1>2. \A i \in 1..N : \A g \in [1..N -> R] : Step(g, i) \in R
    BY <1>0, <1>1
  <1>3. ASSUME NEW i \in 1..N, NEW g \in [1..N -> R], NEW h \in [1..N -> R],
               \A j \in 1..i - 1 : g[j] = h[j]
        PROVE  Step(g, i) = Step(h, i)
    <2>1. ASSUME NEW t \in TypeIds
          PROVE  CompleteFor(g, excluded, Patterns[i], Types[t]) =
                   CompleteFor(h, excluded, Patterns[i], Types[t])
      <3>1. CASE Patterns[i].kind = "enum"
        BY <1>0, <1>3, <3>1, PatternParts DEF CompleteFor
      <3>2. CASE Patterns[i].kind = "struct"
        BY <1>0, <1>3, <3>2, PatternParts DEF CompleteFor
      <3>3. CASE Patterns[i].kind \in {"any", "literal"}
        BY <3>3 DEF CompleteFor
      <3> QED
        BY <1>0, <3>1, <3>2, <3>3, PatternKinds
    <2> QED
      BY <1>0, <2>1
  <1>4. R # {}
    <2>1. [t \in TypeIds |-> TRUE] \in R
      OBVIOUS
    <2> QED
      BY <2>1
  <1>s. \A g, i : Step(g, i) = [t \in TypeIds |-> CompleteFor(g, excluded, Patterns[i], Types[t])]
    BY <1>0
  <1> HIDE DEF R, Step
  <1>5. \A i \in 1..N : \A g \in [1..N -> R] : H[i][g] = Step(g, i)
    OBVIOUS
  <1> HIDE DEF H
  <1>6. Stepwise(N, R, H)
    BY <1>2, <1>3, <1>4, <1>5 DEF Stepwise
  <1>7. PICK f \in [1..N -> R] : \A i \in 1..N : f[i] = H[i][f]
    BY <1>0, <1>6, Recursion
  <1>8. f = [i \in DOMAIN Patterns |-> Step(f, i)]
    BY <1>0, <1>5, <1>7
  <1>11. Complete(excluded) = [i \in DOMAIN Patterns |-> Step(Complete(excluded), i)]
    BY <1>8, <1>10
  <1>12. ASSUME NEW i \in PatternIds, NEW t \in TypeIds
         PROVE  /\ Complete(excluded)[i][t] \in BOOLEAN
                /\ Complete(excluded)[i][t] <=> CompleteFor(Complete(excluded), excluded, Patterns[i], Types[t])
    <2>1. Complete(excluded)[i] = Step(Complete(excluded), i)
      BY <1>0, <1>11
    <2>2. Complete(excluded)[i][t] = CompleteFor(Complete(excluded), excluded, Patterns[i], Types[t])
      BY <1>s, <2>1
    <2>3. CompleteFor(Complete(excluded), excluded, Patterns[i], Types[t]) \in BOOLEAN
      BY <1>1
    <2> QED
      BY <2>2, <2>3
  <1> QED
    BY <1>12

LEMMA AnalysedUnfold ==
  \A t \in TypeIds : Analysed[t] \in BOOLEAN /\ (Analysed[t] <=> AnalysedType(Analysed, Types[t]))
  <1> DEFINE N == Len(Types)
             Step(g, t) == AnalysedType(g, Types[t])
             H == [t \in 1..N |-> [g \in [1..N -> BOOLEAN] |-> Step(g, t)]]
  <1>0. TypeIds = 1..N /\ N \in Nat /\ DOMAIN Types = 1..N
    BY TypesAssumption DEF TypeIds
  <1>1. Analysed = CHOOSE g : g = [t \in DOMAIN Types |-> Step(g, t)]
    BY DEF Analysed
  <1> HIDE DEF N
  <1>2. \A t \in 1..N : \A g : Step(g, t) \in BOOLEAN
    BY DEF AnalysedType
  <1>3. ASSUME NEW t \in 1..N, NEW g \in [1..N -> BOOLEAN], NEW h \in [1..N -> BOOLEAN],
               \A s \in 1..t - 1 : g[s] = h[s]
        PROVE  Step(g, t) = Step(h, t)
    <2>1. ASSUME NEW n \in DOMAIN Types[t].parts, Types[t].parts[n] # 0
          PROVE  Types[t].parts[n] \in 1..t - 1
      BY <1>0, <2>1, Parts DEF Of
    <2> QED
      BY <1>3, <2>1 DEF AnalysedType
  <1> HIDE DEF Step
  <1>4. \A t \in 1..N : \A g \in [1..N -> BOOLEAN] : H[t][g] = Step(g, t)
    OBVIOUS
  <1> HIDE DEF H
  <1>5. Stepwise(N, BOOLEAN, H)
    <2>1. \A t \in 1..N : \A g \in [1..N -> BOOLEAN] : H[t][g] \in BOOLEAN
      BY <1>2, <1>4
    <2>2. ASSUME NEW t \in 1..N, NEW g \in [1..N -> BOOLEAN], NEW h \in [1..N -> BOOLEAN],
                 \A s \in 1..t - 1 : g[s] = h[s]
          PROVE  H[t][g] = H[t][h]
      <3>1. Step(g, t) = Step(h, t)
        BY <1>3, <2>2
      <3>2. H[t][g] = Step(g, t) /\ H[t][h] = Step(h, t)
        BY <1>4
      <3> QED
        BY <3>1, <3>2
    <2>3. BOOLEAN # {}
      OBVIOUS
    <2> QED
      BY <2>1, <2>2, <2>3 DEF Stepwise
  <1>6. PICK f \in [1..N -> BOOLEAN] : \A t \in 1..N : f[t] = H[t][f]
    BY <1>0, <1>5, Recursion
  <1>7. f = [t \in DOMAIN Types |-> Step(f, t)]
    BY <1>0, <1>4, <1>6
  <1>8. Analysed = [t \in DOMAIN Types |-> Step(Analysed, t)]
    BY <1>1, <1>7
  <1>9. \A t \in TypeIds : Analysed[t] = Step(Analysed, t) /\ Step(Analysed, t) \in BOOLEAN
    BY <1>0, <1>2, <1>8
  <1> QED
    BY <1>9 DEF Step

-----------------------------------------------------------------------------
(* Chains of tests.                                                          *)

Outcomes == {"true", "false", "garbage"}

LEMMA ChainComesTo ==
  ASSUME NEW n \in Nat, NEW r, DOMAIN r = 1..n, \A k \in 1..n : r[k] \in Outcomes
  PROVE  /\ Chain(r) \in Outcomes
         /\ Chain(r) = "true" <=> \A k \in 1..n : r[k] = "true"
         /\ Chain(r) # "true" => \E k \in 1..n : r[k] # "true" /\ Chain(r) = r[k]
                                                  /\ \A j \in 1..k - 1 : r[j] = "true"
  <1> DEFINE stops == {k \in DOMAIN r : r[k] # "true"}
             least == CHOOSE k \in stops : \A j \in stops : k <= j
  <1>1. CASE stops = {}
    <2>1. Chain(r) = "true"
      BY <1>1 DEF Chain
    <2> QED
      BY <1>1, <2>1 DEF Outcomes
  <1>2. CASE stops # {}
    <2>1. Chain(r) = r[least]
      BY <1>2 DEF Chain
    <2>2. stops \in SUBSET Nat
      OBVIOUS
    <2>3. \E k \in stops : \A j \in stops : k <= j
      <3> HIDE DEF stops
      <3> QED
        BY <1>2, <2>2, LeastNat
    <2>4. least \in stops /\ \A j \in stops : least <= j
      <3> HIDE DEF stops
      <3> QED
        BY <2>3
    <2> HIDE DEF least
    <2>5. \A j \in 1..least - 1 : j \notin stops /\ j \in 1..n
      BY <2>4
    <2> QED
      BY <2>1, <2>4, <2>5
  <1> QED
    BY <1>1, <1>2

\* What is taken out of a value can be read too.
LEMMA ReadableInside ==
  ASSUME NEW v \in Readable
  PROVE  /\ \A tag : Payload(v, tag) \in Readable
         /\ \A name : FieldOf(v, name) \in Readable
  <1>1. v.kind = "enum" /\ v.payload # <<>> => v.payload[1] \in Readable
    <2>1. CASE v = Garbage
      BY <2>1 DEF Garbage, Leaf
    <2>2. CASE v \in Held(LeafValues)
      BY <2>2, InsideHeld, PoolsHold DEF Readable
    <2> QED
      BY <2>1, <2>2, PoolsHold DEF Readable
  <1>2. v.kind = "struct" => \A n \in DOMAIN v.fields : v.fields[n] \in Readable
    <2>1. CASE v = Garbage
      BY <2>1 DEF Garbage, Leaf
    <2>2. CASE v \in Held(LeafValues)
      BY <2>2, InsideHeld, PoolsHold DEF Readable
    <2> QED
      BY <2>1, <2>2, PoolsHold DEF Readable
  <1>3. Garbage \in Readable
    BY DEF Readable
  <1> QED
    BY <1>1, <1>2, <1>3 DEF Payload, FieldOf

LEMMA ConditionUnfold ==
  /\ Condition \in [PatternIds -> [Readable -> Outcomes]]
  /\ \A i \in PatternIds : \A v \in Readable :
       Condition[i][v] = ConditionOn(Condition, Patterns[i], v)
  <1> DEFINE N == Len(Patterns)
             R == [Readable -> Outcomes]
             Step(g, i) == [v \in Readable |-> ConditionOn(g, Patterns[i], v)]
             H == [i \in 1..N |-> [g \in [1..N -> R] |-> Step(g, i)]]
  <1>0. PatternIds = 1..N /\ N \in Nat /\ DOMAIN Patterns = 1..N
    BY PoolsHold DEF PatternIds
  <1>10. Condition = CHOOSE g : g = [i \in DOMAIN Patterns |-> Step(g, i)]
    BY DEF Condition
  <1> HIDE DEF N
  <1>1. ASSUME NEW g \in [1..N -> R], NEW i \in 1..N, NEW v \in Readable
        PROVE  ConditionOn(g, Patterns[i], v) \in Outcomes
    <2> DEFINE p == Patterns[i]
               isVariant == IF v.kind # "enum" THEN "garbage" ELSE Truth(v.tag = p.tag)
    <2>0. \A b : Truth(b) \in Outcomes
      BY DEF Truth, Outcomes
    <2>1. CASE p.kind = "enum"
      <3>1. isVariant \in Outcomes
        BY <2>0 DEF Outcomes
      <3>2. CASE p.payload = 0
        BY <2>1, <3>1, <3>2 DEF ConditionOn
      <3>3. CASE p.payload # 0
        <4> DEFINE r == <<isVariant, g[p.payload][Payload(v, p.tag)]>>
        <4>1. g[p.payload][Payload(v, p.tag)] \in Outcomes
          BY <1>0, <2>1, <3>3, ReadableInside, PatternParts
        <4>2. DOMAIN r = 1..2 /\ \A k \in 1..2 : r[k] \in Outcomes
          BY <3>1, <4>1
        <4>3. ConditionOn(g, p, v) = Chain(r)
          BY <2>1, <3>3 DEF ConditionOn
        <4> HIDE DEF r
        <4> QED
          BY <4>2, <4>3, ChainComesTo
      <3> QED
        BY <3>2, <3>3
    <2>2. CASE p.kind = "struct"
      <3> DEFINE r == [k \in DOMAIN p.fields |->
                         g[p.fields[k].pattern][FieldOf(v, p.fields[k].name)]]
      <3>1. DOMAIN p.fields = 1..Len(p.fields) /\ Len(p.fields) \in Nat
        BY <1>0, <2>2, PatternsAssumption
      <3>2. \A k \in DOMAIN p.fields : r[k] \in Outcomes
        BY <1>0, <2>2, ReadableInside, PatternParts
      <3>3. ConditionOn(g, p, v) = Chain(r)
        BY <2>2 DEF ConditionOn
      <3>4. DOMAIN r = 1..Len(p.fields)
        BY <3>1
      <3> HIDE DEF r
      <3> QED
        BY <3>1, <3>2, <3>3, <3>4, ChainComesTo
    <2>3. CASE p.kind \in {"any", "literal"}
      BY <2>0, <2>3 DEF ConditionOn, Outcomes
    <2> QED
      BY <1>0, <2>1, <2>2, <2>3, PatternKinds
  <1>2. \A i \in 1..N : \A g \in [1..N -> R] : Step(g, i) \in R
    BY <1>1
  <1>3. ASSUME NEW i \in 1..N, NEW g, NEW h,
               \A j \in 1..i - 1 : g[j] = h[j]
        PROVE  Step(g, i) = Step(h, i)
    <2>1. ASSUME NEW v \in Readable
          PROVE  ConditionOn(g, Patterns[i], v) = ConditionOn(h, Patterns[i], v)
      <3>1. CASE Patterns[i].kind = "enum"
        BY <1>0, <1>3, <3>1, PatternParts DEF ConditionOn
      <3>2. CASE Patterns[i].kind = "struct"
        <4>1. \A k \in DOMAIN Patterns[i].fields :
                g[Patterns[i].fields[k].pattern] = h[Patterns[i].fields[k].pattern]
          BY <1>0, <1>3, <3>2, PatternParts
        <4> DEFINE r(f) == [k \in DOMAIN Patterns[i].fields |->
                              f[Patterns[i].fields[k].pattern][FieldOf(v, Patterns[i].fields[k].name)]]
        <4>2. r(g) = r(h)
          BY <4>1
        <4>3. /\ ConditionOn(g, Patterns[i], v) = Chain(r(g))
              /\ ConditionOn(h, Patterns[i], v) = Chain(r(h))
          BY <3>2 DEF ConditionOn
        <4> HIDE DEF r
        <4> QED
          BY <4>2, <4>3
      <3>3. CASE Patterns[i].kind \in {"any", "literal"}
        BY <3>3 DEF ConditionOn
      <3> QED
        BY <1>0, <3>1, <3>2, <3>3, PatternKinds
    <2> QED
      BY <1>0, <2>1
  <1>4. R # {}
    <2>1. [v \in Readable |-> "true"] \in R
      BY DEF Outcomes
    <2> QED
      BY <2>1
  <1>s. \A g, i : Step(g, i) = [v \in Readable |-> ConditionOn(g, Patterns[i], v)]
    BY <1>0
  <1> HIDE DEF Step
  <1>5. \A i \in 1..N : \A g \in [1..N -> R] : H[i][g] = Step(g, i)
    OBVIOUS
  <1>9. R = [Readable -> Outcomes]
    OBVIOUS
  <1> HIDE DEF H, R
  <1>6. Stepwise(N, R, H)
    <2>1. ASSUME NEW i \in 1..N, NEW g \in [1..N -> R], NEW h \in [1..N -> R],
                 \A j \in 1..i - 1 : g[j] = h[j]
          PROVE  H[i][g] = H[i][h]
      <3>1. Step(g, i) = Step(h, i)
        BY <1>3, <2>1
      <3> QED
        BY <1>5, <3>1
    <2> QED
      BY <1>2, <1>4, <1>5, <2>1 DEF Stepwise
  <1>7. PICK f \in [1..N -> R] : \A i \in 1..N : f[i] = H[i][f]
    BY <1>0, <1>6, Recursion
  <1>8. f = [i \in DOMAIN Patterns |-> Step(f, i)]
    BY <1>0, <1>5, <1>7
  <1>11. Condition = [i \in DOMAIN Patterns |-> Step(Condition, i)]
    BY <1>8, <1>10
  <1>12. /\ Condition = [i \in 1..N |-> Condition[i]]
         /\ \A i \in 1..N : Condition[i] = Step(Condition, i)
    BY <1>0, <1>11
  <1>13. \A i \in PatternIds : \A v \in Readable :
           Step(Condition, i)[v] = ConditionOn(Condition, Patterns[i], v)
    BY <1>s
  <1>14. Condition \in [1..N -> R]
    <2> DEFINE S == {i \in 1..N : Condition[i] \in R}
    <2>1. ASSUME NEW i \in 1..N, 1..i - 1 \subseteq S PROVE i \in S
      <3>1. PICK r : r \in R
        BY <1>4
      <3> DEFINE g == [j \in 1..N |-> IF j \in S THEN Condition[j] ELSE r]
      <3>2. g \in [1..N -> R]
        BY <3>1
      <3>3. \A j \in 1..i - 1 : g[j] = Condition[j]
        BY <2>1
      <3> HIDE DEF g
      <3>4. Step(g, i) = Step(Condition, i) /\ Step(g, i) \in R
        BY <1>2, <1>3, <3>2, <3>3
      <3> QED
        BY <1>12, <3>4
    <2>2. 1..N \subseteq S
      <3> HIDE DEF S
      <3> QED
        BY <1>0, <2>1, Below
    <2> QED
      BY <1>12, <2>2
  <1> QED
    BY <1>0, <1>9, <1>12, <1>13, <1>14

LEMMA ChainOfTwo ==
  ASSUME NEW a \in Outcomes, NEW b \in Outcomes
  PROVE  Chain(<<a, b>>) = IF a = "true" THEN b ELSE a
  <1> DEFINE r == <<a, b>>
  <1>1. DOMAIN r = 1..2 /\ r[1] = a /\ r[2] = b /\ \A k \in 1..2 : r[k] \in Outcomes
    OBVIOUS
  <1> HIDE DEF r
  <1>2. /\ Chain(r) = "true" <=> \A k \in 1..2 : r[k] = "true"
        /\ Chain(r) # "true" => \E k \in 1..2 : r[k] # "true" /\ Chain(r) = r[k]
                                                 /\ \A j \in 1..k - 1 : r[j] = "true"
    BY <1>1, ChainComesTo
  <1>0. \A k \in 1..2 : k = 1 \/ k = 2
    OBVIOUS
  <1>3. CASE a = "true"
    <2>1. CASE b = "true"
      <3>1. Chain(r) = b
        BY <1>0, <1>1, <1>2, <1>3, <2>1
      <3> QED
        BY <1>3, <3>1 DEF r
    <2>2. CASE b # "true"
      <3>1. Chain(r) = b
        BY <1>0, <1>1, <1>2, <1>3, <2>2
      <3> QED
        BY <1>3, <3>1 DEF r
    <2> QED
      BY <2>1, <2>2
  <1>4. CASE a # "true"
    <2>1. PICK k \in 1..2 : Chain(r) = r[k] /\ \A j \in 1..k - 1 : r[j] = "true"
      BY <1>1, <1>2, <1>4
    <2>2. k = 1
      BY <1>1, <1>4, <2>1
    <2> QED
      BY <1>1, <1>4, <2>1, <2>2 DEF r
  <1> QED
    BY <1>3, <1>4

LEMMA TypeKinds ==
  ASSUME NEW t \in TypeIds
  PROVE  Types[t].kind \in {"unit", "bool", "scalar", "pointer", "enum", "struct"}
  BY TypesAssumption DEF TypeIds

LEMMA Literals ==
  ASSUME NEW i \in PatternIds, Patterns[i].kind = "literal"
  PROVE  \E kind \in {"unit", "bool", "scalar"} : \E is \in LeafValues[kind] :
           Patterns[i].value = Leaf(kind, is)
  BY PatternsAssumption DEF PatternIds

\* The pools of values and of constructors, by their types.
LEMMA HeldByTypes ==
  ASSUME NEW t \in TypeIds
  PROVE  Values[t] \subseteq AllValues /\ Constructors[t] \subseteq AllConstructors
  BY PoolsHold DEF Held

\* The condition compiled for a pattern that fits comes out true for the values that the
\* pattern describes, and false for the others.
LEMMA ConditionRight ==
  \A i \in PatternIds : \A t \in TypeIds : Fits[i][t] =>
    \A v \in Values[t] : Condition[i][v] = Truth(Describes[i][v])
  <1> DEFINE Right(i) == \A t \in TypeIds : Fits[i][t] =>
                           \A v \in Values[t] : Condition[i][v] = Truth(Describes[i][v])
             S == {i \in PatternIds : Right(i)}
  <1>0. PatternIds = 1..Len(Patterns) /\ Len(Patterns) \in Nat
    BY PoolsHold DEF PatternIds
  <1>1. ASSUME NEW i \in PatternIds, 1..i - 1 \subseteq S,
               NEW t \in TypeIds, Fits[i][t], NEW v \in Values[t]
        PROVE  Condition[i][v] = Truth(Describes[i][v])
    <2> DEFINE p == Patterns[i]
    <2>0. /\ v \in AllValues /\ v \in Readable /\ v.kind = Types[t].kind /\ v # Garbage
          /\ FitsType(Fits, p, Types[t])
          /\ Condition[i][v] = ConditionOn(Condition, p, v)
          /\ Describes[i][v] \in BOOLEAN /\ (Describes[i][v] <=> DescribesValue(Describes, p, v))
      <3>1. v \in AllValues /\ v \in Readable
        BY HeldByTypes DEF Readable
      <3>2. v.kind = Types[t].kind
        BY KindOf, PoolsHold
      <3>3. v # Garbage
        <4>1. \A kind, is : Leaf(kind, is).kind = kind
          BY DEF Leaf
        <4>2. Garbage.kind = "garbage"
          BY <4>1 DEF Garbage
        <4> QED
          BY <3>2, <4>2, TypeKinds
      <3> QED
        BY <1>1, <3>1, <3>2, <3>3, FitsUnfold, ConditionUnfold, DescribesUnfold
    <2>1. CASE p.kind = "any"
      BY <2>0, <2>1 DEF ConditionOn, DescribesValue, Truth
    <2>2. CASE p.kind = "literal"
      <3>1. Types[t].kind = p.value.kind
        BY <2>0, <2>2 DEF FitsType
      <3>2. CASE p.value.kind = "unit"
        <4>1. v = Leaf("unit", "unit")
          BY <3>1, <3>2, LeafHolds, PoolsHold DEF LeafValues
        <4>2. p.value = Leaf("unit", "unit")
          <5>1. PICK kind \in {"unit", "bool", "scalar"} :
                  \E is \in LeafValues[kind] : p.value = Leaf(kind, is)
            BY <2>2, Literals
          <5>2. kind = "unit" /\ LeafValues["unit"] = {"unit"}
            BY <3>2, <5>1 DEF Leaf, LeafValues
          <5> QED
            BY <5>1, <5>2
        <4> QED
          BY <2>0, <2>2, <3>2, <4>1, <4>2 DEF ConditionOn, DescribesValue, Truth
      <3>3. CASE p.value.kind # "unit"
        BY <2>0, <2>2, <3>3 DEF ConditionOn, DescribesValue
      <3> QED
        BY <3>2, <3>3
    <2>3. CASE p.kind = "enum"
      <3>1. /\ v.kind = "enum" /\ Types[t].kind = "enum" /\ p.tag \in DOMAIN Types[t].parts
            /\ p.payload # 0 => Of(t, p.tag) # 0 /\ Fits[p.payload][Of(t, p.tag)]
        BY <2>0, <2>3 DEF FitsType, Of
      <3>2. /\ Of(t, v.tag) = 0 <=> v.payload = <<>>
            /\ v.payload # <<>> => v.payload[1] \in Values[Of(t, v.tag)]
        BY <3>1, InsideEnum, PoolsHold
      <3>3. CASE p.payload = 0
        BY <2>0, <2>3, <3>1, <3>3 DEF ConditionOn, DescribesValue
      <3>4. CASE p.payload # 0
        <4> DEFINE is == Truth(v.tag = p.tag)
                   x == Condition[p.payload][Payload(v, p.tag)]
        <4>1. Condition[i][v] = Chain(<<is, x>>)
          BY <2>0, <2>3, <3>1, <3>4 DEF ConditionOn
        <4>2. is \in Outcomes /\ x \in Outcomes
          BY <2>0, <2>3, <3>4, PatternParts, ReadableInside, ConditionUnfold DEF Truth, Outcomes
        <4>3. Condition[i][v] = IF is = "true" THEN x ELSE is
          BY <4>1, <4>2, ChainOfTwo
        <4>4. CASE v.tag # p.tag
          BY <2>0, <2>3, <4>3, <4>4 DEF Truth, DescribesValue
        <4>5. CASE v.tag = p.tag
          <5>1. v.payload # <<>> /\ v.payload[1] \in Values[Of(t, p.tag)] /\ Of(t, p.tag) \in TypeIds
            BY <3>1, <3>2, <3>4, <4>5, Parts
          <5>2. Right(p.payload)
            BY <1>1, <2>3, <3>4, PatternParts
          <5>3. x = Truth(Describes[p.payload][v.payload[1]])
            BY <3>1, <3>4, <4>5, <5>1, <5>2 DEF Payload
          <5>4. Describes[i][v] <=> Describes[p.payload][v.payload[1]]
            BY <2>0, <2>3, <3>1, <3>4, <4>5, <5>1 DEF DescribesValue
          <5>5. is = "true"
            BY <4>5 DEF Truth
          <5>6. Describes[p.payload][v.payload[1]] \in BOOLEAN
            BY <2>3, <3>4, <5>1, PatternParts, HeldByTypes, DescribesUnfold
          <5> QED
            BY <2>0, <4>3, <5>3, <5>4, <5>5, <5>6 DEF Truth
        <4> QED
          BY <4>4, <4>5
      <3> QED
        BY <3>3, <3>4
    <2>4. CASE p.kind = "struct"
      <3> DEFINE r == [k \in DOMAIN p.fields |->
                         Condition[p.fields[k].pattern][FieldOf(v, p.fields[k].name)]]
                 D(k) == Describes[p.fields[k].pattern][v.fields[p.fields[k].name]]
      <3>1. DOMAIN p.fields = 1..Len(p.fields) /\ Len(p.fields) \in Nat
        BY <1>0, <2>4, PatternsAssumption
      <3>2. /\ v.kind = "struct" /\ Types[t].kind = "struct"
            /\ \A k \in DOMAIN p.fields : /\ p.fields[k].name \in DOMAIN Types[t].parts
                                          /\ Fits[p.fields[k].pattern][Of(t, p.fields[k].name)]
        BY <2>0, <2>4 DEF FitsType, Of
      <3>3. /\ DOMAIN v.fields = DOMAIN Types[t].parts
            /\ \A n \in DOMAIN Types[t].parts : /\ v.fields[n] \in Values[Of(t, n)]
                                                /\ Of(t, n) \in TypeIds
        BY <3>2, StructHolds, PoolsHold, Parts
      <3>4. ASSUME NEW k \in DOMAIN p.fields PROVE r[k] = Truth(D(k)) /\ D(k) \in BOOLEAN
        <4>1. Right(p.fields[k].pattern)
          BY <1>1, <2>4, PatternParts
        <4>2. FieldOf(v, p.fields[k].name) = v.fields[p.fields[k].name]
          BY <3>2, <3>3 DEF FieldOf
        <4>3. v.fields[p.fields[k].name] \in Values[Of(t, p.fields[k].name)]
              /\ Of(t, p.fields[k].name) \in TypeIds
              /\ Fits[p.fields[k].pattern][Of(t, p.fields[k].name)]
          BY <3>2, <3>3
        <4>4. r[k] = Truth(D(k))
          BY <4>1, <4>2, <4>3
        <4>5. D(k) \in BOOLEAN
          BY <2>4, <4>3, PatternParts, HeldByTypes, DescribesUnfold
        <4> QED
          BY <4>4, <4>5
      <3>5. Condition[i][v] = Chain(r)
        BY <2>0, <2>4 DEF ConditionOn
      <3>6. Describes[i][v] <=> \A k \in DOMAIN p.fields : D(k)
        BY <2>0, <2>4, <3>2, <3>3 DEF DescribesValue
      <3>7. DOMAIN r = 1..Len(p.fields)
        BY <3>1
      <3> HIDE DEF r, D
      <3>8. \A k \in 1..Len(p.fields) :
              /\ r[k] \in {"true", "false"}
              /\ r[k] = "true" <=> D(k)
        BY <3>1, <3>4 DEF Truth
      <3>9. \A k \in 1..Len(p.fields) : r[k] \in Outcomes
        BY <3>8 DEF Outcomes
      <3>10. /\ Chain(r) = "true" <=> \A k \in 1..Len(p.fields) : r[k] = "true"
             /\ Chain(r) # "true" => \E k \in 1..Len(p.fields) : r[k] # "true" /\ Chain(r) = r[k]
        BY <3>1, <3>7, <3>9, ChainComesTo
      <3>11. CASE Describes[i][v]
        BY <3>1, <3>5, <3>6, <3>8, <3>10, <3>11 DEF Truth
      <3>12. CASE ~Describes[i][v]
        BY <3>1, <3>5, <3>6, <3>8, <3>10, <3>12 DEF Truth
      <3> QED
        BY <3>11, <3>12
    <2> QED
      BY <2>1, <2>2, <2>3, <2>4, PatternKinds
  <1>2. ASSUME NEW i \in PatternIds, 1..i - 1 \subseteq S PROVE i \in S
    BY <1>1, <1>2
  <1>3. PatternIds \subseteq S
    <2> HIDE DEF S
    <2> QED
      BY <1>0, <1>2, Below
  <1> QED
    BY <1>3

-----------------------------------------------------------------------------
(* Constructors and the values they stand for.                               *)

\* A constructor and a value of a type that the patterns which fit tell apart no better
\* than X allows: one that matches the constructor describes the value, and if X holds of
\* one, then the other way round.
Alike(X, c, v, t) ==
  \A i \in PatternIds : Fits[i][t] =>
    /\ PatternMatches[i][c] => Describes[i][v]
    /\ X[i][t] /\ Describes[i][v] => PatternMatches[i][c]

\* What the functions say of one pattern.
LEMMA AtPattern ==
  ASSUME NEW excluded, NEW t \in TypeIds, NEW c \in AllConstructors, NEW v \in AllValues,
         NEW i \in PatternIds, Fits[i][t]
  PROVE  /\ FitsType(Fits, Patterns[i], Types[t])
         /\ PatternMatches[i][c] <=> MatchesConstructor(PatternMatches, Patterns[i], c)
         /\ Describes[i][v] <=> DescribesValue(Describes, Patterns[i], v)
         /\ Complete(excluded)[i][t] <=>
              CompleteFor(Complete(excluded), excluded, Patterns[i], Types[t])
  BY FitsUnfold, PatternMatchesUnfold, DescribesUnfold, CompleteUnfold

LEMMA LiteralKind ==
  ASSUME NEW i \in PatternIds, Patterns[i].kind = "literal"
  PROVE  Patterns[i].value.kind \in {"unit", "bool", "scalar"}
  <1>1. \A kind, is : Leaf(kind, is).kind = kind
    BY DEF Leaf
  <1>2. PICK kind \in {"unit", "bool", "scalar"} :
          \E is \in LeafValues[kind] : Patterns[i].value = Leaf(kind, is)
    BY Literals
  <1> QED
    BY <1>1, <1>2

LEMMA AlikeLeaf ==
  ASSUME NEW excluded, NEW t \in TypeIds, Types[t].kind \in {"unit", "bool"},
         NEW c \in Constructors[t] \cap Values[t]
  PROVE  Alike(Complete(excluded), c, c, t)
  <1> DEFINE X == Complete(excluded)
  <1>1. ASSUME NEW i \in PatternIds, Fits[i][t]
        PROVE  PatternMatches[i][c] <=> Describes[i][c]
    <2> DEFINE p == Patterns[i]
    <2>1. /\ FitsType(Fits, p, Types[t])
          /\ PatternMatches[i][c] <=> MatchesConstructor(PatternMatches, p, c)
          /\ Describes[i][c] <=> DescribesValue(Describes, p, c)
      BY <1>1, AtPattern, HeldByTypes
    <2>2. CASE p.kind = "any"
      BY <2>1, <2>2 DEF MatchesConstructor, DescribesValue
    <2>3. CASE p.kind = "literal"
      BY <2>1, <2>3 DEF FitsType, MatchesConstructor, DescribesValue, IsInnumerableLiteral
    <2>4. CASE p.kind \in {"enum", "struct"}
      BY <2>1, <2>4 DEF FitsType
    <2> QED
      BY <2>2, <2>3, <2>4, PatternKinds
  <1> QED
    BY <1>1 DEF Alike

LEMMA AlikeScalar ==
  ASSUME NEW excluded, NEW t \in TypeIds, Types[t].kind = "scalar",
         NEW c \in Constructors[t], NEW v \in Values[t],
         \/ "scalar" \in excluded
         \/ \A i \in PatternIds : Patterns[i].kind = "literal" => Patterns[i].value # v
  PROVE  Alike(Complete(excluded), c, v, t)
  <1> DEFINE X == Complete(excluded)
  <1>1. ASSUME NEW i \in PatternIds, Fits[i][t]
        PROVE  /\ PatternMatches[i][c] => Describes[i][v]
               /\ X[i][t] /\ Describes[i][v] => PatternMatches[i][c]
    <2> DEFINE p == Patterns[i]
    <2>1. /\ FitsType(Fits, p, Types[t])
          /\ PatternMatches[i][c] <=> MatchesConstructor(PatternMatches, p, c)
          /\ Describes[i][v] <=> DescribesValue(Describes, p, v)
          /\ X[i][t] <=> CompleteFor(X, excluded, p, Types[t])
      BY <1>1, AtPattern, HeldByTypes
    <2> HIDE DEF X
    <2>2. CASE p.kind = "any"
      BY <2>1, <2>2 DEF MatchesConstructor, DescribesValue
    <2>3. CASE p.kind = "literal"
      <3>1. p.value.kind = "scalar" /\ ~PatternMatches[i][c]
        BY <2>1, <2>3 DEF FitsType, MatchesConstructor, IsInnumerableLiteral
      <3>2. "scalar" \in excluded => ~X[i][t]
        BY <2>1, <2>3, <3>1 DEF CompleteFor
      <3>3. Describes[i][v] <=> v = p.value
        BY <2>1, <2>3 DEF DescribesValue
      <3> QED
        BY <2>3, <3>1, <3>2, <3>3
    <2>4. CASE p.kind \in {"enum", "struct"}
      BY <2>1, <2>4 DEF FitsType
    <2> QED
      BY <2>2, <2>3, <2>4, PatternKinds
  <1> QED
    BY <1>1 DEF Alike

LEMMA AlikeEnum ==
  ASSUME NEW excluded, NEW t \in TypeIds, Types[t].kind = "enum", NEW n \in DOMAIN Types[t].parts,
         NEW c \in Constructors[t], NEW v \in Values[t],
         \/ Of(t, n) = 0 /\ c = Variant(n, <<>>) /\ v = Variant(n, <<>>)
         \/ /\ Of(t, n) # 0
            /\ \E c1 \in Constructors[Of(t, n)], v1 \in Values[Of(t, n)] :
                 /\ c = Variant(n, <<c1>>) /\ v = Variant(n, <<v1>>)
                 /\ Alike(Complete(excluded), c1, v1, Of(t, n))
  PROVE  Alike(Complete(excluded), c, v, t)
  <1> DEFINE X == Complete(excluded)
  <1>0. c.kind = "enum" /\ c.tag = n /\ v.kind = "enum" /\ v.tag = n
    BY DEF Variant
  <1>1. ASSUME NEW i \in PatternIds, Fits[i][t]
        PROVE  /\ PatternMatches[i][c] => Describes[i][v]
               /\ X[i][t] /\ Describes[i][v] => PatternMatches[i][c]
    <2> DEFINE p == Patterns[i]
    <2>1. /\ FitsType(Fits, p, Types[t])
          /\ PatternMatches[i][c] <=> MatchesConstructor(PatternMatches, p, c)
          /\ Describes[i][v] <=> DescribesValue(Describes, p, v)
          /\ X[i][t] <=> CompleteFor(X, excluded, p, Types[t])
      BY <1>1, AtPattern, HeldByTypes
    <2> HIDE DEF X
    <2>2. CASE p.kind = "any"
      BY <2>1, <2>2 DEF MatchesConstructor, DescribesValue
    <2>3. CASE p.kind \in {"literal", "struct"}
      <3>1. p.kind = "literal" => p.value.kind # "enum"
        BY LiteralKind
      <3> QED
        BY <2>1, <2>3, <3>1 DEF FitsType
    <2>4. CASE p.kind = "enum"
      <3>1. p.payload # 0 => Of(t, p.tag) # 0 /\ Fits[p.payload][Of(t, p.tag)]
        BY <2>1, <2>4 DEF FitsType, Of
      <3>2. PatternMatches[i][c] <=> /\ n = p.tag
                                     /\ p.payload = 0 <=> c.payload = <<>>
                                     /\ p.payload # 0 => PatternMatches[p.payload][c.payload[1]]
        BY <1>0, <2>1, <2>4 DEF MatchesConstructor
      <3>3. Describes[i][v] <=> /\ n = p.tag
                                /\ p.payload # 0 => v.payload # <<>> /\ Describes[p.payload][v.payload[1]]
        BY <1>0, <2>1, <2>4 DEF DescribesValue
      <3>4. X[i][t] /\ Of(t, p.tag) # 0 => p.payload # 0 /\ X[p.payload][Of(t, p.tag)]
        BY <2>1, <2>4 DEF CompleteFor, Of
      <3>5. CASE Of(t, n) = 0
        <4>1. c.payload = <<>>
          BY <3>5 DEF Variant
        <4> QED
          BY <3>1, <3>2, <3>3, <3>5, <4>1
      <3>6. CASE Of(t, n) # 0
        <4>1. PICK c1 \in Constructors[Of(t, n)], v1 \in Values[Of(t, n)] :
                 /\ c = Variant(n, <<c1>>) /\ v = Variant(n, <<v1>>)
                 /\ Alike(X, c1, v1, Of(t, n))
          BY <3>6 DEF X
        <4>2. /\ c.payload # <<>> /\ c.payload[1] = c1
              /\ v.payload # <<>> /\ v.payload[1] = v1
          <5>1. <<c1>> # <<>> /\ <<c1>>[1] = c1 /\ <<v1>> # <<>> /\ <<v1>>[1] = v1
            OBVIOUS
          <5> QED
            BY <4>1, <5>1 DEF Variant
        <4>3. p.payload # 0 /\ Fits[p.payload][Of(t, n)] =>
                /\ PatternMatches[p.payload][c1] => Describes[p.payload][v1]
                /\ X[p.payload][Of(t, n)] /\ Describes[p.payload][v1] => PatternMatches[p.payload][c1]
          BY <2>4, <4>1, PatternParts DEF Alike
        <4> QED
          BY <3>1, <3>2, <3>3, <3>4, <3>6, <4>2, <4>3
      <3> QED
        BY <3>5, <3>6
    <2> QED
      BY <2>2, <2>3, <2>4, PatternKinds
  <1> QED
    BY <1>1 DEF Alike

LEMMA AlikeStruct ==
  ASSUME NEW excluded, NEW t \in TypeIds, Types[t].kind = "struct",
         NEW c \in Constructors[t], NEW v \in Values[t],
         \A n \in DOMAIN Types[t].parts :
           Alike(Complete(excluded), c.fields[n], v.fields[n], Of(t, n))
  PROVE  Alike(Complete(excluded), c, v, t)
  <1> DEFINE X == Complete(excluded)
  <1>0. /\ c.kind = "struct" /\ DOMAIN c.fields = DOMAIN Types[t].parts
        /\ v.kind = "struct" /\ DOMAIN v.fields = DOMAIN Types[t].parts
    BY StructHolds, PoolsHold
  <1>1. ASSUME NEW i \in PatternIds, Fits[i][t]
        PROVE  /\ PatternMatches[i][c] => Describes[i][v]
               /\ X[i][t] /\ Describes[i][v] => PatternMatches[i][c]
    <2> DEFINE p == Patterns[i]
               name(k) == p.fields[k].name
               q(k) == p.fields[k].pattern
    <2>1. /\ FitsType(Fits, p, Types[t])
          /\ PatternMatches[i][c] <=> MatchesConstructor(PatternMatches, p, c)
          /\ Describes[i][v] <=> DescribesValue(Describes, p, v)
          /\ X[i][t] <=> CompleteFor(X, excluded, p, Types[t])
      BY <1>1, AtPattern, HeldByTypes
    <2>x. \A n \in DOMAIN Types[t].parts : Alike(X, c.fields[n], v.fields[n], Of(t, n))
      OBVIOUS
    <2> HIDE DEF X
    <2>2. CASE p.kind = "any"
      BY <2>1, <2>2 DEF MatchesConstructor, DescribesValue
    <2>3. CASE p.kind \in {"literal", "enum"}
      <3>1. p.kind = "literal" => p.value.kind # "struct"
        BY LiteralKind
      <3> QED
        BY <2>1, <2>3, <3>1 DEF FitsType
    <2>4. CASE p.kind = "struct"
      <3>1. \A k \in DOMAIN p.fields : /\ name(k) \in DOMAIN Types[t].parts
                                       /\ Fits[q(k)][Of(t, name(k))]
                                       /\ q(k) \in PatternIds
        BY <2>1, <2>4, PatternParts DEF FitsType, Of
      <3>2. PatternMatches[i][c] <=> \A k \in DOMAIN p.fields : PatternMatches[q(k)][c.fields[name(k)]]
        BY <1>0, <2>1, <2>4, <3>1 DEF MatchesConstructor
      <3>3. Describes[i][v] <=> \A k \in DOMAIN p.fields : Describes[q(k)][v.fields[name(k)]]
        BY <1>0, <2>1, <2>4, <3>1 DEF DescribesValue
      <3>4. X[i][t] => \A k \in DOMAIN p.fields : X[q(k)][Of(t, name(k))]
        BY <2>1, <2>4 DEF CompleteFor, Of
      <3>5. \A k \in DOMAIN p.fields :
              /\ PatternMatches[q(k)][c.fields[name(k)]] => Describes[q(k)][v.fields[name(k)]]
              /\ X[q(k)][Of(t, name(k))] /\ Describes[q(k)][v.fields[name(k)]] =>
                   PatternMatches[q(k)][c.fields[name(k)]]
        BY <2>x, <3>1 DEF Alike
      <3> HIDE DEF name, q
      <3> QED
        BY <3>2, <3>3, <3>4, <3>5
    <2> QED
      BY <2>2, <2>3, <2>4, PatternKinds
  <1> QED
    BY <1>1 DEF Alike

LEMMA LeafTypes ==
  ASSUME NEW t \in TypeIds, Types[t].kind \notin {"enum", "struct"}
  PROVE  /\ Values[t] = {Leaf(Types[t].kind, i) : i \in LeafValues[Types[t].kind]}
         /\ Constructors[t] = {Leaf(Types[t].kind, i) : i \in ConstructorLeaves[Types[t].kind]}
         /\ Types[t].kind \in {"unit", "bool"} => Constructors[t] = Values[t]
  <1>1. /\ Values[t] = {Leaf(Types[t].kind, i) : i \in LeafValues[Types[t].kind]}
        /\ Constructors[t] = {Leaf(Types[t].kind, i) : i \in ConstructorLeaves[Types[t].kind]}
    BY LeafHolds, PoolsHold
  <1>2. LeafValues["unit"] = ConstructorLeaves["unit"] /\ LeafValues["bool"] = ConstructorLeaves["bool"]
    BY DEF LeafValues, ConstructorLeaves
  <1>3. CASE Types[t].kind = "unit"
    BY <1>1, <1>2, <1>3
  <1>4. CASE Types[t].kind = "bool"
    BY <1>1, <1>2, <1>4
  <1> QED
    BY <1>1, <1>3, <1>4

\* Every value of a type all of whose constructors are known has a constructor that a
\* pattern without literals of scalars does not tell from it.
LEMMA ValueHasConstructor ==
  \A t \in TypeIds : Analysed[t] =>
    \A v \in Values[t] : \E c \in Constructors[t] : Alike(Plain, c, v, t)
  <1> DEFINE Good(t) == Analysed[t] => \A v \in Values[t] :
                          \E c \in Constructors[t] : Alike(Plain, c, v, t)
             S == {t \in TypeIds : Good(t)}
  <1>0. TypeIds = 1..Len(Types) /\ Len(Types) \in Nat
    BY TypesAssumption DEF TypeIds
  <1>1. ASSUME NEW t \in TypeIds, 1..t - 1 \subseteq S, Analysed[t], NEW v \in Values[t]
        PROVE  \E c \in Constructors[t] : Alike(Plain, c, v, t)
    <2>0. /\ Types[t].kind # "pointer"
          /\ \A n \in DOMAIN Types[t].parts : Of(t, n) # 0 => Analysed[Of(t, n)]
      BY <1>1, AnalysedUnfold DEF AnalysedType, Of
    <2>1. \A n \in DOMAIN Types[t].parts : Of(t, n) # 0 =>
            Of(t, n) \in TypeIds /\ \A x \in Values[Of(t, n)] :
                                      \E c \in Constructors[Of(t, n)] : Alike(Plain, c, x, Of(t, n))
      <3> SUFFICES ASSUME NEW n \in DOMAIN Types[t].parts, Of(t, n) # 0
                   PROVE  Of(t, n) \in TypeIds /\ Good(Of(t, n)) /\ Analysed[Of(t, n)]
        OBVIOUS
      <3>1. Of(t, n) \in TypeIds /\ Of(t, n) \in 1..t - 1
        BY Parts
      <3> QED
        BY <1>1, <2>0, <3>1
    <2> HIDE DEF Good, S
    <2>2. CASE Types[t].kind \in {"unit", "bool"}
      <3>1. v \in Constructors[t]
        BY <2>2, LeafTypes
      <3> QED
        BY <2>2, <3>1, AlikeLeaf DEF Plain
    <2>3. CASE Types[t].kind = "scalar"
      <3>1. Leaf("scalar", "placeholder") \in Constructors[t]
        <4>1. ConstructorLeaves["scalar"] = {"placeholder"}
          BY DEF ConstructorLeaves
        <4> QED
          BY <2>3, <4>1, LeafTypes
      <3> QED
        BY <2>3, <3>1, AlikeScalar DEF Plain
    <2>4. CASE Types[t].kind = "enum"
      <3>1. PICK n \in DOMAIN Types[t].parts :
              \/ Of(t, n) = 0 /\ v = Variant(n, <<>>)
              \/ Of(t, n) # 0 /\ \E x \in Values[Of(t, n)] : v = Variant(n, <<x>>)
        <4>1. Values = Inhabitants(LeafValues)
          BY PoolsHold
        <4> DEFINE I == Inhabitants(LeafValues)
        <4>2. \A x \in I[t] : \E n \in DOMAIN Types[t].parts :
                \/ Of(t, n) = 0 /\ x = Variant(n, <<>>)
                \/ Of(t, n) # 0 /\ \E y \in I[Of(t, n)] : x = Variant(n, <<y>>)
          BY <2>4, EnumHolds
        <4> HIDE DEF I
        <4>3. I = Values
          BY <4>1 DEF I
        <4> QED
          BY <4>2, <4>3
      <3>2. CASE Of(t, n) = 0
        <4>1. v \in Constructors[t]
          BY <2>4, <3>1, <3>2, EnumHolds, PoolsHold
        <4> QED
          BY <2>4, <3>1, <3>2, <4>1, AlikeEnum DEF Plain
      <3>3. CASE Of(t, n) # 0
        <4>1. PICK x \in Values[Of(t, n)] : v = Variant(n, <<x>>)
          BY <3>1, <3>3
        <4>2. PICK c1 \in Constructors[Of(t, n)] : Alike(Plain, c1, x, Of(t, n))
          BY <2>1, <3>3
        <4>3. Variant(n, <<c1>>) \in Constructors[t]
          BY <2>4, <3>3, EnumHolds, PoolsHold
        <4> QED
          BY <2>4, <3>3, <4>1, <4>2, <4>3, AlikeEnum DEF Plain
      <3> QED
        BY <3>2, <3>3
    <2>5. CASE Types[t].kind = "struct"
      <3> DEFINE parts == Types[t].parts
                 f == [n \in DOMAIN parts |->
                         CHOOSE c \in Constructors[Of(t, n)] : Alike(Plain, c, v.fields[n], Of(t, n))]
      <3>1. \A n \in DOMAIN parts : Of(t, n) # 0 /\ v.fields[n] \in Values[Of(t, n)]
        BY <2>5, StructHolds, PoolsHold, Parts
      <3>2. ASSUME NEW n \in DOMAIN parts
            PROVE  f[n] \in Constructors[Of(t, n)] /\ Alike(Plain, f[n], v.fields[n], Of(t, n))
        <4>1. \E c \in Constructors[Of(t, n)] : Alike(Plain, c, v.fields[n], Of(t, n))
          BY <2>1, <3>1
        <4> QED
          BY <4>1
      <3>3. f = [n \in DOMAIN parts |-> f[n]]
        OBVIOUS
      <3> HIDE DEF f
      <3>4. Struct(f) \in Constructors[t]
        BY <2>5, <3>2, <3>3, StructHolds, PoolsHold
      <3>5. Struct(f).fields = f
        BY DEF Struct
      <3> QED
        BY <2>5, <3>2, <3>4, <3>5, AlikeStruct DEF Plain
    <2> QED
      BY <2>0, <2>2, <2>3, <2>4, <2>5, TypeKinds
  <1>2. ASSUME NEW t \in TypeIds, 1..t - 1 \subseteq S PROVE t \in S
    BY <1>1, <1>2
  <1>3. TypeIds \subseteq S
    <2> HIDE DEF S
    <2> QED
      BY <1>0, <1>2, Below
  <1> QED
    BY <1>3

\* Every constructor stands for a value that a pattern with patterns for all payloads
\* does not tell from it.
LEMMA ConstructorHasValue ==
  \A t \in TypeIds : \A c \in Constructors[t] : \E v \in Values[t] : Alike(PayloadsNamed, c, v, t)
  <1> DEFINE Good(t) == \A c \in Constructors[t] : \E v \in Values[t] : Alike(PayloadsNamed, c, v, t)
             S == {t \in TypeIds : Good(t)}
  <1>0. TypeIds = 1..Len(Types) /\ Len(Types) \in Nat
    BY TypesAssumption DEF TypeIds
  <1>1. ASSUME NEW t \in TypeIds, 1..t - 1 \subseteq S, NEW c \in Constructors[t]
        PROVE  \E v \in Values[t] : Alike(PayloadsNamed, c, v, t)
    <2>1. \A n \in DOMAIN Types[t].parts : Of(t, n) # 0 =>
            Of(t, n) \in TypeIds /\ \A x \in Constructors[Of(t, n)] :
                                      \E v \in Values[Of(t, n)] : Alike(PayloadsNamed, x, v, Of(t, n))
      <3> SUFFICES ASSUME NEW n \in DOMAIN Types[t].parts, Of(t, n) # 0
                   PROVE  Of(t, n) \in TypeIds /\ Good(Of(t, n))
        OBVIOUS
      <3>1. Of(t, n) \in TypeIds /\ Of(t, n) \in 1..t - 1
        BY Parts
      <3> QED
        BY <1>1, <3>1
    <2> HIDE DEF Good, S
    <2>2. CASE Types[t].kind \in {"unit", "bool"}
      <3>1. c \in Values[t]
        BY <2>2, LeafTypes
      <3> QED
        BY <2>2, <3>1, AlikeLeaf DEF PayloadsNamed
    <2>3. CASE Types[t].kind = "scalar"
      <3>1. PICK is \in Scalars : \A i \in PatternIds :
              Patterns[i].kind = "literal" => Patterns[i].value # Leaf("scalar", is)
        BY PatternsAssumption DEF PatternIds
      <3>2. Leaf("scalar", is) \in Values[t]
        BY <2>3, LeafTypes DEF LeafValues
      <3> QED
        BY <2>3, <3>1, <3>2, AlikeScalar DEF PayloadsNamed
    <2>4. CASE Types[t].kind = "enum"
      <3>1. PICK n \in DOMAIN Types[t].parts :
              \/ Of(t, n) = 0 /\ c = Variant(n, <<>>)
              \/ Of(t, n) # 0 /\ \E x \in Constructors[Of(t, n)] : c = Variant(n, <<x>>)
        BY <2>4, EnumHolds, PoolsHold
      <3>2. CASE Of(t, n) = 0
        <4>1. c \in Values[t]
          BY <2>4, <3>1, <3>2, EnumHolds, PoolsHold
        <4> QED
          BY <2>4, <3>1, <3>2, <4>1, AlikeEnum DEF PayloadsNamed
      <3>3. CASE Of(t, n) # 0
        <4>1. PICK x \in Constructors[Of(t, n)] : c = Variant(n, <<x>>)
          BY <3>1, <3>3
        <4>2. PICK v1 \in Values[Of(t, n)] : Alike(PayloadsNamed, x, v1, Of(t, n))
          BY <2>1, <3>3
        <4>3. Variant(n, <<v1>>) \in Values[t]
          BY <2>4, <3>3, EnumHolds, PoolsHold
        <4> QED
          BY <2>4, <3>3, <4>1, <4>2, <4>3, AlikeEnum DEF PayloadsNamed
      <3> QED
        BY <3>2, <3>3
    <2>5. CASE Types[t].kind = "struct"
      <3> DEFINE parts == Types[t].parts
                 f == [n \in DOMAIN parts |->
                         CHOOSE v \in Values[Of(t, n)] : Alike(PayloadsNamed, c.fields[n], v, Of(t, n))]
      <3>1. \A n \in DOMAIN parts : Of(t, n) # 0 /\ c.fields[n] \in Constructors[Of(t, n)]
        BY <2>5, StructHolds, PoolsHold, Parts
      <3>2. ASSUME NEW n \in DOMAIN parts
            PROVE  f[n] \in Values[Of(t, n)] /\ Alike(PayloadsNamed, c.fields[n], f[n], Of(t, n))
        <4>1. \E v \in Values[Of(t, n)] : Alike(PayloadsNamed, c.fields[n], v, Of(t, n))
          BY <2>1, <3>1
        <4> QED
          BY <4>1
      <3>3. f = [n \in DOMAIN parts |-> f[n]]
        OBVIOUS
      <3> HIDE DEF f
      <3>4. Struct(f) \in Values[t]
        BY <2>5, <3>2, <3>3, StructHolds, PoolsHold
      <3>5. Struct(f).fields = f
        BY DEF Struct
      <3> QED
        BY <2>5, <3>2, <3>4, <3>5, AlikeStruct DEF PayloadsNamed
    <2>6. CASE Types[t].kind = "pointer"
      <3>1. Constructors[t] = {}
        BY <2>6, LeafTypes DEF ConstructorLeaves
      <3> QED
        BY <3>1
    <2> QED
      BY <2>2, <2>3, <2>4, <2>5, <2>6, TypeKinds
  <1>2. ASSUME NEW t \in TypeIds, 1..t - 1 \subseteq S PROVE t \in S
    BY <1>1, <1>2
  <1>3. TypeIds \subseteq S
    <2> HIDE DEF S
    <2> QED
      BY <1>0, <1>2, Below
  <1> QED
    BY <1>3

\* A pattern without literals of scalars is one with patterns for all payloads, if it
\* has those.
LEMMA PlainNamesPayloads ==
  \A i \in PatternIds : \A t \in TypeIds : Fits[i][t] /\ Plain[i][t] => PayloadsNamed[i][t]
  <1> DEFINE Good(i) == \A t \in TypeIds : Fits[i][t] /\ Plain[i][t] => PayloadsNamed[i][t]
             S == {i \in PatternIds : Good(i)}
  <1>0. PatternIds = 1..Len(Patterns) /\ Len(Patterns) \in Nat
    BY PoolsHold DEF PatternIds
  <1>1. ASSUME NEW i \in PatternIds, 1..i - 1 \subseteq S,
               NEW t \in TypeIds, Fits[i][t], Plain[i][t]
        PROVE  PayloadsNamed[i][t]
    <2> DEFINE p == Patterns[i]
    <2>1. /\ FitsType(Fits, p, Types[t])
          /\ CompleteFor(Plain, {"scalar"}, p, Types[t])
          /\ PayloadsNamed[i][t] <=> CompleteFor(PayloadsNamed, {}, p, Types[t])
      BY <1>1, FitsUnfold, CompleteUnfold DEF Plain, PayloadsNamed
    <2>2. CASE p.kind \in {"any", "literal"}
      BY <2>1, <2>2 DEF CompleteFor
    <2>3. CASE p.kind = "enum"
      <3>1. CASE Of(t, p.tag) = 0
        BY <2>1, <2>3, <3>1 DEF CompleteFor, Of
      <3>2. CASE Of(t, p.tag) # 0
        <4>1. p.payload # 0 /\ Plain[p.payload][Of(t, p.tag)] /\ Fits[p.payload][Of(t, p.tag)]
              /\ p.tag \in DOMAIN Types[t].parts
          BY <2>1, <2>3, <3>2 DEF CompleteFor, FitsType, Of
        <4>2. Of(t, p.tag) \in TypeIds /\ Good(p.payload)
          BY <1>1, <2>3, <3>2, <4>1, PatternParts, Parts
        <4>3. PayloadsNamed[p.payload][Of(t, p.tag)]
          BY <4>1, <4>2
        <4> QED
          BY <2>1, <2>3, <4>1, <4>3 DEF CompleteFor, Of
      <3> QED
        BY <3>1, <3>2
    <2>4. CASE p.kind = "struct"
      <3>1. ASSUME NEW k \in DOMAIN p.fields
            PROVE  PayloadsNamed[p.fields[k].pattern][Of(t, p.fields[k].name)]
        <4>1. /\ Types[t].kind = "struct" /\ p.fields[k].name \in DOMAIN Types[t].parts
              /\ Plain[p.fields[k].pattern][Of(t, p.fields[k].name)]
              /\ Fits[p.fields[k].pattern][Of(t, p.fields[k].name)]
          BY <2>1, <2>4 DEF CompleteFor, FitsType, Of
        <4>2. Of(t, p.fields[k].name) \in TypeIds /\ Good(p.fields[k].pattern)
          BY <1>1, <2>4, <4>1, PatternParts, Parts
        <4> QED
          BY <4>1, <4>2
      <3> QED
        BY <2>1, <2>4, <3>1 DEF CompleteFor, Of
    <2> QED
      BY <2>2, <2>3, <2>4, PatternKinds
  <1>2. ASSUME NEW i \in PatternIds, 1..i - 1 \subseteq S PROVE i \in S
    BY <1>1, <1>2
  <1>3. PatternIds \subseteq S
    <2> HIDE DEF S
    <2> QED
      BY <1>0, <1>2, Below
  <1> QED
    BY <1>3

-----------------------------------------------------------------------------
(* The inductive invariant.                                                  *)

ArmFits(k) == Fits[Pattern(k)][match.type]
AllFit == \A k \in Arms : ArmFits(k)
FirstMatches(k, c) ==
  /\ PatternMatches[Pattern(k)][c]
  /\ \A j \in 1..k - 1 : ~PatternMatches[Pattern(j)][c]

\* The range of the variables in each phase.
Shape ==
  /\ match \in Matches
  /\ phase \in {"arms", "check", "rejected", "accepted", "running", "done"}
  /\ cursor \in 1..Len(match.arms) + 1
  /\ expected \in {match.expected} \cup {match.arms[k].type : k \in Arms}
  /\ reason \in {"none", "no arms", "pattern", "types", "unhandled", "useless"}
  /\ phase # "rejected" => reason = "none" /\ useless = 0
  /\ reason = "useless" => useless \in Arms
  /\ reason # "useless" => useless = 0
  /\ phase # "done" => outcome = -1
  /\ IF phase \in {"running", "done"} THEN value \in Values[match.type] ELSE value = Garbage

\* What the phases before have established of the arms.
Evaluated ==
  /\ phase = "arms" => \A k \in 1..cursor - 1 : ArmFits(k)
  /\ phase \in {"check", "accepted", "running", "done"} => AllFit

\* What the exhaustiveness check has found.
Checked ==
  /\ phase \in {"accepted", "running", "done"} /\ ~match.partial =>
       /\ \A c \in Constructors[match.type] : \E k \in Arms : PatternMatches[Pattern(k)][c]
       /\ FirstUseless(Scores) = {}
  /\ reason = "unhandled" =>
       AllFit /\ \E c \in Constructors[match.type] : \A k \in Arms : ~PatternMatches[Pattern(k)][c]
  /\ reason = "useless" =>
       AllFit /\ \A c \in Constructors[match.type] : ~FirstMatches(useless, c)

\* What the tests so far have found.
Tested ==
  /\ phase = "running" => \A j \in 1..cursor - 1 : ~Handles(j, value)
  /\ phase = "done" =>
       \/ outcome = 0 /\ \A k \in Arms : ~Handles(k, value)
       \/ /\ outcome \in Arms /\ Handles(outcome, value)
          /\ \A j \in 1..outcome - 1 : ~Handles(j, value)

IInv == Shape /\ Evaluated /\ Checked /\ Tested

LEMMA MatchFacts ==
  ASSUME match \in Matches
  PROVE  /\ match.type \in TypeIds /\ match.partial \in BOOLEAN
         /\ Len(match.arms) \in Nat /\ Arms = 1..Len(match.arms)
         /\ \A k \in Arms : Pattern(k) \in PatternIds
         /\ match.arms = <<>> => Len(match.arms) = 0
         /\ match.partial => /\ Len(match.arms) \in Arms
                             /\ Patterns[Pattern(Len(match.arms))].kind = "any"
  <1>1. /\ match.type \in DOMAIN Types /\ match.partial \in BOOLEAN
        /\ Len(match.arms) \in Nat /\ DOMAIN match.arms = 1..Len(match.arms)
        /\ \A k \in DOMAIN match.arms : match.arms[k].pattern \in DOMAIN Patterns
        /\ match.partial => match.arms # <<>> /\ Patterns[match.arms[Len(match.arms)].pattern].kind = "any"
    BY MatchesAssumption
  <1>2. match.arms = <<>> <=> Len(match.arms) = 0
    BY <1>1
  <1> QED
    BY <1>1, <1>2, PoolsHold DEF Arms, Pattern

LEMMA InitInv == Init => IInv
  <1> SUFFICES ASSUME Init PROVE IInv
    OBVIOUS
  <1>1. Shape
    <2>1. 1 \in 1..Len(match.arms) + 1
      BY MatchFacts DEF Init
    <2> QED
      BY <2>1 DEF Init, Shape
  <1>2. Evaluated /\ Checked /\ Tested
    BY DEF Init, Evaluated, Checked, Tested
  <1> QED
    BY <1>1, <1>2 DEF IInv

\* What depends on the match alone stays.
LEMMA SameMatch ==
  ASSUME match' = match
  PROVE  /\ Arms' = Arms /\ AllFit' = AllFit
         /\ \A k : Pattern(k)' = Pattern(k) /\ ArmFits(k)' = ArmFits(k)
         /\ FirstUseless(Scores)' = FirstUseless(Scores)
         /\ \A k, c : FirstMatches(k, c)' = FirstMatches(k, c)
  BY DEF Arms, AllFit, Pattern, ArmFits, FirstUseless, Scores, FirstMatches

LEMMA RejectInv ==
  ASSUME IInv, phase \in {"arms", "check"}, NEW why, NEW arm, Reject(why, arm),
         \/ why \in {"no arms", "pattern", "types"} /\ arm = 0
         \/ /\ why = "unhandled" /\ arm = 0 /\ AllFit
            /\ \E c \in Constructors[match.type] : \A k \in Arms : ~PatternMatches[Pattern(k)][c]
         \/ /\ why = "useless" /\ arm \in Arms /\ AllFit
            /\ \A c \in Constructors[match.type] : ~FirstMatches(arm, c)
  PROVE  IInv'
  <1>1. Shape'
    BY SameMatch DEF Reject, IInv, Shape
  <1>2. Evaluated' /\ Tested'
    BY DEF Reject, Evaluated, Tested
  <1>3. Checked'
    <2>1. phase' = "rejected" /\ reason' = why /\ useless' = arm /\ match' = match
      BY DEF Reject
    <2> QED
      BY <2>1, SameMatch DEF Checked
  <1> QED
    BY <1>1, <1>2, <1>3 DEF IInv

LEMMA EvalArmInv == IInv /\ EvalArm => IInv'
  <1> SUFFICES ASSUME IInv, EvalArm PROVE IInv'
    OBVIOUS
  <1>0. phase = "arms" /\ cursor \in Arms /\ match \in Matches /\ reason = "none"
    BY DEF IInv, Shape, EvalArm
  <1>1. CASE Reject("pattern", 0) \/ Reject("types", 0)
    BY <1>0, <1>1, RejectInv
  <1>2. CASE /\ ArmFits(cursor)
             /\ expected' = match.arms[cursor].type
             /\ cursor' = cursor + 1
             /\ UNCHANGED <<match, phase, reason, useless, value, outcome>>
    <2>1. Shape'
      BY <1>0, <1>2, MatchFacts, SameMatch DEF IInv, Shape
    <2>2. Evaluated'
      <3>1. \A k \in 1..cursor' - 1 : k \in 1..cursor - 1 \/ k = cursor
        BY <1>0, <1>2, MatchFacts
      <3> QED
        BY <1>0, <1>2, <3>1, SameMatch DEF IInv, Evaluated
    <2>3. Checked' /\ Tested'
      BY <1>0, <1>2 DEF Checked, Tested
    <2> QED
      BY <2>1, <2>2, <2>3 DEF IInv
  <1> QED
    BY <1>1, <1>2 DEF EvalArm, ArmFits

LEMMA EndArmsInv == IInv /\ EndArms => IInv'
  <1> SUFFICES ASSUME IInv, EndArms PROVE IInv'
    OBVIOUS
  <1>0. /\ phase = "arms" /\ match \in Matches /\ reason = "none" /\ cursor = Len(match.arms) + 1
        /\ phase' \in {"accepted", "check"} /\ (phase' = "accepted" => match.partial)
        /\ UNCHANGED <<match, cursor, expected, reason, useless, value, outcome>>
    BY DEF IInv, Shape, EndArms
  <1>1. Shape'
    BY <1>0, SameMatch DEF IInv, Shape
  <1>2. AllFit
    <2>1. Arms = 1..cursor - 1
      BY <1>0, MatchFacts
    <2> QED
      BY <1>0, <2>1 DEF IInv, Evaluated, AllFit
  <1>3. Evaluated'
    BY <1>0, <1>2, SameMatch DEF Evaluated
  <1>4. Checked' /\ Tested'
    BY <1>0 DEF Checked, Tested
  <1> QED
    BY <1>1, <1>3, <1>4 DEF IInv

\* The scores of the trial count the constructors that each arm is the first to match.
LEMMA ScoresCount ==
  ASSUME match \in Matches
  PROVE  /\ \A k \in Arms : Scores[k] = {c \in Constructors[match.type] : FirstMatches(k, c)}
         /\ \A c \in Constructors[match.type] :
              (\E k \in Arms : PatternMatches[Pattern(k)][c]) <=> \E k \in Arms : c \in Scores[k]
  <1>1. \A k \in Arms : Scores[k] = {c \in Constructors[match.type] : FirstMatches(k, c)}
    BY DEF Scores, FirstMatches
  <1>2. ASSUME NEW c \in Constructors[match.type], NEW k \in Arms, PatternMatches[Pattern(k)][c]
        PROVE  \E j \in Arms : c \in Scores[j]
    <2> DEFINE K == {j \in Arms : PatternMatches[Pattern(j)][c]}
    <2>1. K \in SUBSET Nat /\ K # {}
      BY <1>2, MatchFacts
    <2> HIDE DEF K
    <2>2. PICK j \in K : \A n \in K : j <= n
      BY <2>1, LeastNat
    <2> USE DEF K
    <2>3. \A n \in 1..j - 1 : n \in Arms /\ ~(j <= n)
      BY <2>2, MatchFacts
    <2>4. FirstMatches(j, c)
      BY <2>2, <2>3 DEF FirstMatches
    <2> QED
      BY <1>1, <2>2, <2>4
  <1> QED
    BY <1>1, <1>2 DEF FirstMatches

LEMMA CheckInv == IInv /\ Check => IInv'
  <1> SUFFICES ASSUME IInv, Check PROVE IInv'
    OBVIOUS
  <1> DEFINE alive == Constructors[match.type] \ UNION {Scores[k] : k \in Arms}
  <1>0. phase = "check" /\ match \in Matches /\ reason = "none" /\ AllFit
    BY DEF IInv, Shape, Evaluated, Check
  <1>1. CASE alive # {} /\ Reject("unhandled", 0)
    <2>1. PICK c \in Constructors[match.type] : \A k \in Arms : c \notin Scores[k]
      BY <1>1
    <2>2. \A k \in Arms : ~PatternMatches[Pattern(k)][c]
      BY <1>0, <2>1, ScoresCount
    <2> QED
      BY <1>0, <1>1, <2>2, RejectInv
  <1>2. CASE \E k \in FirstUseless(Scores) : Reject("useless", k)
    <2>1. PICK k \in FirstUseless(Scores) : Reject("useless", k)
      BY <1>2
    <2>2. k \in Arms /\ Scores[k] = {}
      BY DEF FirstUseless
    <2>3. \A c \in Constructors[match.type] : ~FirstMatches(k, c)
      BY <1>0, <2>2, ScoresCount
    <2> QED
      BY <1>0, <2>1, <2>2, <2>3, RejectInv
  <1>3. CASE /\ alive = {} /\ FirstUseless(Scores) = {}
             /\ phase' = "accepted"
             /\ UNCHANGED <<match, cursor, expected, reason, useless, value, outcome>>
    <2>1. \A c \in Constructors[match.type] : \E k \in Arms : PatternMatches[Pattern(k)][c]
      <3>1. \A c \in Constructors[match.type] : \E k \in Arms : c \in Scores[k]
        BY <1>3
      <3> QED
        BY <1>0, <3>1, ScoresCount
    <2>2. Shape'
      BY <1>0, <1>3, SameMatch DEF IInv, Shape
    <2>3. Evaluated'
      BY <1>0, <1>3, SameMatch DEF Evaluated
    <2>4. Checked'
      BY <1>0, <1>3, <2>1, SameMatch DEF Checked
    <2>5. Tested'
      BY <1>3 DEF Tested
    <2> QED
      BY <2>2, <2>3, <2>4, <2>5 DEF IInv
  <1> HIDE DEF alive
  <1>4. \/ alive # {} /\ Reject("unhandled", 0)
        \/ \E k \in FirstUseless(Scores) : Reject("useless", k)
        \/ /\ alive = {} /\ FirstUseless(Scores) = {} /\ phase' = "accepted"
           /\ UNCHANGED <<match, cursor, expected, reason, useless, value, outcome>>
    BY DEF Check, alive
  <1> QED
    BY <1>1, <1>2, <1>3, <1>4

LEMMA RunInv == IInv /\ Run => IInv'
  <1> SUFFICES ASSUME IInv, Run PROVE IInv'
    OBVIOUS
  <1>0. /\ phase = "accepted" /\ match \in Matches /\ reason = "none"
        /\ value' \in Values[match.type] /\ phase' = "running" /\ cursor' = 1
        /\ UNCHANGED <<match, expected, reason, useless, outcome>>
    BY DEF IInv, Shape, Run
  <1>1. Shape'
    BY <1>0, MatchFacts, SameMatch DEF IInv, Shape
  <1>2. Evaluated' /\ Checked'
    BY <1>0, SameMatch DEF IInv, Evaluated, Checked
  <1>3. Tested'
    <2>1. 1..cursor' - 1 = {}
      BY <1>0
    <2> QED
      BY <1>0, <2>1 DEF Tested
  <1> QED
    BY <1>1, <1>2, <1>3 DEF IInv

\* What the test of an arm comes to.
LEMMA TestOutcome ==
  ASSUME IInv, phase \in {"running", "done"}, NEW k \in Arms
  PROVE  Condition[Pattern(k)][value] = Truth(Handles(k, value))
  <1>1. /\ match \in Matches /\ value \in Values[match.type] /\ Fits[Pattern(k)][match.type]
    BY DEF IInv, Shape, Evaluated, AllFit, ArmFits
  <1> QED
    BY <1>1, MatchFacts, ConditionRight DEF Handles

LEMMA TestArmInv == IInv /\ TestArm => IInv'
  <1> SUFFICES ASSUME IInv, TestArm PROVE IInv'
    OBVIOUS
  <1>0. phase = "running" /\ cursor \in Arms /\ match \in Matches
    BY DEF IInv, Shape, TestArm
  <1>1. Condition[Pattern(cursor)][value] = Truth(Handles(cursor, value))
    BY <1>0, TestOutcome
  <1>2. CASE Handles(cursor, value) /\ Select(cursor)
    <2>0. phase' = "done" /\ outcome' = cursor
          /\ UNCHANGED <<match, cursor, expected, reason, useless, value>>
      BY <1>2 DEF Select
    <2>1. Shape'
      BY <1>0, <2>0, SameMatch DEF IInv, Shape
    <2>2. Evaluated' /\ Checked'
      BY <1>0, <2>0, SameMatch DEF IInv, Evaluated, Checked
    <2>3. Tested'
      BY <1>0, <1>2, <2>0, SameMatch DEF IInv, Tested, Handles
    <2> QED
      BY <2>1, <2>2, <2>3 DEF IInv
  <1>3. CASE ~Handles(cursor, value) /\ NextArm
    <2>0. cursor' = cursor + 1
          /\ UNCHANGED <<match, phase, expected, reason, useless, value, outcome>>
      BY <1>3 DEF NextArm
    <2>1. Shape'
      BY <1>0, <2>0, MatchFacts, SameMatch DEF IInv, Shape
    <2>2. Evaluated' /\ Checked'
      BY <1>0, <2>0, SameMatch DEF IInv, Evaluated, Checked
    <2>3. Tested'
      <3>1. \A k \in 1..cursor' - 1 : k \in 1..cursor - 1 \/ k = cursor
        BY <1>0, <2>0, MatchFacts
      <3>2. \A k \in 1..cursor - 1 : ~Handles(k, value)
        BY <1>0 DEF IInv, Tested
      <3> QED
        BY <1>0, <1>3, <2>0, <3>1, <3>2, SameMatch DEF Tested, Handles
    <2> QED
      BY <2>1, <2>2, <2>3 DEF IInv
  <1> QED
    BY <1>1, <1>2, <1>3 DEF TestArm, Truth

LEMMA MatchErrorInv == IInv /\ MatchError => IInv'
  <1> SUFFICES ASSUME IInv, MatchError PROVE IInv'
    OBVIOUS
  <1>0. /\ phase = "running" /\ cursor = Len(match.arms) + 1 /\ match \in Matches
        /\ phase' = "done" /\ outcome' = 0
        /\ UNCHANGED <<match, cursor, expected, reason, useless, value>>
    BY DEF IInv, Shape, MatchError, Select
  <1>1. Shape'
    BY <1>0, SameMatch DEF IInv, Shape
  <1>2. Evaluated' /\ Checked'
    BY <1>0, SameMatch DEF IInv, Evaluated, Checked
  <1>3. Tested'
    <2>1. Arms = 1..cursor - 1
      BY <1>0, MatchFacts
    <2> QED
      BY <1>0, <2>1, SameMatch DEF IInv, Tested, Handles
  <1> QED
    BY <1>1, <1>2, <1>3 DEF IInv

LEMMA NextInv == IInv /\ [Next]_vars => IInv'
  <1> SUFFICES ASSUME IInv, [Next]_vars PROVE IInv'
    OBVIOUS
  <1>1. CASE NoArms
    BY <1>1, RejectInv DEF NoArms
  <1>2. CASE UNCHANGED vars
    <2>0. UNCHANGED <<match, phase, cursor, expected, reason, useless, value, outcome>>
      BY <1>2 DEF vars
    <2>1. Shape'
      BY <2>0, SameMatch DEF IInv, Shape
    <2>2. Evaluated' /\ Checked'
      BY <2>0, SameMatch DEF IInv, Evaluated, Checked
    <2>3. Tested'
      BY <2>0, SameMatch DEF IInv, Tested, Handles
    <2> QED
      BY <2>1, <2>2, <2>3 DEF IInv
  <1> QED
    BY <1>1, <1>2, EvalArmInv, EndArmsInv, CheckInv, RunInv, TestArmInv, MatchErrorInv
       DEF Next, Work, Finished

THEOREM IInvHolds == Spec => []IInv
  BY InitInv, NextInv, PTL DEF Spec

-----------------------------------------------------------------------------
(* The properties of the runs.                                               *)

\* The variables keep their types.
THEOREM TypeCorrect == Spec => []TypeOK
  <1>1. IInv => TypeOK
    <2> SUFFICES ASSUME IInv PROVE TypeOK
      OBVIOUS
    <2>1. useless \in {0} \cup Arms /\ value \in {Garbage} \cup Values[match.type]
      BY DEF IInv, Shape
    <2>2. outcome \in {-1, 0} \cup Arms
      BY DEF IInv, Shape, Tested
    <2> QED
      BY <2>1, <2>2 DEF IInv, Shape, TypeOK
  <1> QED
    BY <1>1, IInvHolds, PTL

\* A compiled match selects the first arm whose pattern describes the value, and crashes
\* if there is none: chain_match_cases and the conditions of eval_match_arm, for every
\* pool of types and patterns.
THEOREM SelectsTheFirstMatch == Spec => []FirstMatchSelected
  <1>1. IInv => FirstMatchSelected
    <2> SUFFICES ASSUME IInv, phase = "done" PROVE FirstMatchSelected
      BY DEF FirstMatchSelected
    <2> DEFINE First(k) == k \in Arms /\ Handles(k, value) /\ \A j \in 1..k - 1 : ~Handles(j, value)
    <2>0. match \in Matches
      BY DEF IInv, Shape
    <2>1. CASE outcome = 0 /\ \A k \in Arms : ~Handles(k, value)
      BY <2>1 DEF FirstMatchSelected
    <2>2. CASE First(outcome)
      <3>1. ASSUME NEW k, First(k) PROVE k = outcome
        <4>1. k \in Nat /\ outcome \in Nat /\ k >= 1 /\ outcome >= 1
          BY <2>0, <2>2, <3>1, MatchFacts
        <4>2. k < outcome => k \in 1..outcome - 1
          BY <4>1
        <4>3. outcome < k => outcome \in 1..k - 1
          BY <4>1
        <4> QED
          BY <2>2, <3>1, <4>1, <4>2, <4>3
      <3>2. outcome = CHOOSE k \in Arms : Handles(k, value) /\ \A j \in 1..k - 1 : ~Handles(j, value)
        BY <2>2, <3>1
      <3> QED
        BY <2>2, <3>2 DEF FirstMatchSelected
    <2> QED
      BY <2>1, <2>2 DEF IInv, Tested
  <1> QED
    BY <1>1, IInvHolds, PTL

\* No test depends on a payload that was taken from a value of another variant.
THEOREM TestsNoGarbage == Spec => []NoGarbageTested
  <1>1. IInv => NoGarbageTested
    BY TestOutcome DEF NoGarbageTested, Truth
  <1> QED
    BY <1>1, IInvHolds, PTL

\* The constructor that the patterns of the arms do not tell from a value, and the value
\* they do not tell from a constructor.
LEMMA MatchedIsHandled ==
  ASSUME match \in Matches, AllFit, Analysed[match.type], NEW v \in Values[match.type]
  PROVE  \E c \in Constructors[match.type] : \A k \in Arms :
           /\ PatternMatches[Pattern(k)][c] => Handles(k, v)
           /\ Plain[Pattern(k)][match.type] /\ Handles(k, v) => PatternMatches[Pattern(k)][c]
  <1>1. PICK c \in Constructors[match.type] : Alike(Plain, c, v, match.type)
    BY MatchFacts, ValueHasConstructor
  <1> QED
    BY <1>1, MatchFacts DEF Alike, AllFit, ArmFits, Handles

LEMMA ConstructorIsHandled ==
  ASSUME match \in Matches, AllFit, NEW c \in Constructors[match.type]
  PROVE  \E v \in Values[match.type] : \A k \in Arms :
           /\ PatternMatches[Pattern(k)][c] => Handles(k, v)
           /\ PayloadsNamed[Pattern(k)][match.type] /\ Handles(k, v) => PatternMatches[Pattern(k)][c]
  <1>1. PICK v \in Values[match.type] : Alike(PayloadsNamed, c, v, match.type)
    BY MatchFacts, ConstructorHasValue
  <1> QED
    BY <1>1, MatchFacts DEF Alike, AllFit, ArmFits, Handles

\* An accepted match on a type all of whose constructors are known never ends in "Match
\* Error": the exhaustiveness check of eval_match_expr is sound for these types.
THEOREM AnalysedIsExhaustive == Spec => []AnalysedNeverCrashes
  <1>1. IInv => AnalysedNeverCrashes
    <2> SUFFICES ASSUME IInv, outcome = 0, Analysed[match.type] PROVE FALSE
      BY DEF AnalysedNeverCrashes
    <2>1. phase = "done" /\ match \in Matches /\ AllFit /\ value \in Values[match.type]
      <3>1. phase = "done"
        <4>1. phase # "done" => outcome = -1
          BY DEF IInv, Shape
        <4>2. outcome = 0
          OBVIOUS
        <4>3. 0 # -1
          OBVIOUS
        <4> QED
          BY <4>1, <4>2, <4>3
      <3> QED
        BY <3>1 DEF IInv, Shape, Evaluated
    <2>2. \A k \in Arms : ~Handles(k, value)
      BY <2>1, MatchFacts DEF IInv, Tested
    <2>3. CASE match.partial
      <3> DEFINE last == Pattern(Len(match.arms))
      <3>1. Len(match.arms) \in Arms /\ last \in PatternIds /\ Patterns[last].kind = "any"
        BY <2>1, <2>3, MatchFacts
      <3>2. value \in AllValues
        BY <2>1, MatchFacts, HeldByTypes
      <3>3. Describes[last][value]
        BY <3>1, <3>2, DescribesUnfold DEF DescribesValue
      <3> QED
        BY <2>2, <3>1, <3>3 DEF Handles
    <2>4. CASE ~match.partial
      <3>1. PICK c \in Constructors[match.type] : \A k \in Arms :
              PatternMatches[Pattern(k)][c] => Handles(k, value)
        BY <2>1, MatchedIsHandled
      <3>2. \E k \in Arms : PatternMatches[Pattern(k)][c]
        BY <2>1, <2>4 DEF IInv, Checked
      <3> QED
        BY <2>2, <3>1, <3>2
    <2> QED
      BY <2>3, <2>4
  <1> QED
    BY <1>1, IInvHolds, PTL

\* What a match is rejected for is so: a value no arm describes, or an arm that describes
\* no value the arms before it leave to it.
THEOREM RejectsWhatItSays == Spec => []RejectionsJustified
  <1>1. IInv => RejectionsJustified
    <2> SUFFICES ASSUME IInv PROVE RejectionsJustified
      OBVIOUS
    <2>0. match \in Matches
      BY DEF IInv, Shape
    <2>1. ASSUME reason = "unhandled", \A k \in Arms : PayloadsNamed[Pattern(k)][match.type]
          PROVE  \E v \in Values[match.type] : \A k \in Arms : ~Handles(k, v)
      <3>1. AllFit
        BY <2>1 DEF IInv, Checked
      <3>2. PICK c \in Constructors[match.type] : \A k \in Arms : ~PatternMatches[Pattern(k)][c]
        BY <2>1 DEF IInv, Checked
      <3>3. PICK v \in Values[match.type] : \A k \in Arms :
              PayloadsNamed[Pattern(k)][match.type] /\ Handles(k, v) => PatternMatches[Pattern(k)][c]
        BY <2>0, <3>1, ConstructorIsHandled
      <3> QED
        BY <2>1, <3>2, <3>3
    <2>2. ASSUME reason = "useless", Analysed[match.type], Plain[Pattern(useless)][match.type],
                 NEW v \in Values[match.type], Handles(useless, v)
          PROVE  \E j \in 1..useless - 1 : Handles(j, v)
      <3>1. useless \in Arms /\ AllFit /\ \A c \in Constructors[match.type] : ~FirstMatches(useless, c)
        BY <2>2 DEF IInv, Shape, Checked
      <3>2. PICK c \in Constructors[match.type] : \A k \in Arms :
              /\ PatternMatches[Pattern(k)][c] => Handles(k, v)
              /\ Plain[Pattern(k)][match.type] /\ Handles(k, v) => PatternMatches[Pattern(k)][c]
        BY <2>0, <2>2, <3>1, MatchedIsHandled
      <3>3. PatternMatches[Pattern(useless)][c]
        BY <2>2, <3>1, <3>2
      <3>4. PICK j \in 1..useless - 1 : PatternMatches[Pattern(j)][c]
        BY <3>1, <3>3 DEF FirstMatches
      <3>5. j \in Arms
        BY <2>0, <3>1, MatchFacts
      <3> QED
        BY <3>2, <3>4, <3>5
    <2> QED
      BY <2>1, <2>2 DEF RejectionsJustified
  <1> QED
    BY <1>1, IInvHolds, PTL

\* In an accepted match without literals of scalars every arm is selected for some value:
\* the check for useless arms misses none.
THEOREM EveryArmIsReachable == Spec => []AcceptedArmsReachable
  <1>1. IInv => AcceptedArmsReachable
    <2> SUFFICES ASSUME IInv, phase = "accepted", ~match.partial,
                        \A k \in Arms : Plain[Pattern(k)][match.type], NEW k \in Arms
                 PROVE  \E v \in Values[match.type] :
                          Handles(k, v) /\ \A j \in 1..k - 1 : ~Handles(j, v)
      BY DEF AcceptedArmsReachable
    <2>0. match \in Matches /\ AllFit /\ FirstUseless(Scores) = {}
      BY DEF IInv, Shape, Evaluated, Checked
    <2> DEFINE zero == {j \in Arms : Scores[j] = {}}
    <2>1. zero = {}
      <3> SUFFICES ASSUME zero # {} PROVE FALSE
        OBVIOUS
      <3>1. zero \in SUBSET Nat
        BY <2>0, MatchFacts
      <3>2. PICK z \in zero : \A j \in zero : z <= j
        <4> HIDE DEF zero
        <4> QED
          BY <3>1, LeastNat
      <3>3. z \in Arms
        OBVIOUS
      <3>4. IsInnumerableLiteral(Patterns[Pattern(z)])
        BY <2>0, <3>2, <3>3 DEF FirstUseless
      <3>5. CompleteFor(Plain, {"scalar"}, Patterns[Pattern(z)], Types[match.type])
        BY <2>0, <3>3, MatchFacts, CompleteUnfold DEF Plain
      <3> QED
        BY <3>4, <3>5 DEF CompleteFor, IsInnumerableLiteral
    <2>2. PICK c \in Constructors[match.type] : FirstMatches(k, c)
      BY <2>0, <2>1, ScoresCount
    <2>3. PICK v \in Values[match.type] : \A j \in Arms :
            /\ PatternMatches[Pattern(j)][c] => Handles(j, v)
            /\ PayloadsNamed[Pattern(j)][match.type] /\ Handles(j, v) => PatternMatches[Pattern(j)][c]
      BY <2>0, ConstructorIsHandled
    <2>4. \A j \in Arms : PayloadsNamed[Pattern(j)][match.type]
      BY <2>0, MatchFacts, PlainNamesPayloads DEF AllFit, ArmFits
    <2>5. \A j \in 1..k - 1 : j \in Arms
      BY <2>0, MatchFacts
    <2> QED
      BY <2>2, <2>3, <2>4, <2>5 DEF FirstMatches
  <1> QED
    BY <1>1, IInvHolds, PTL
=============================================================================
