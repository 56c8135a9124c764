--------------------------- MODULE FrontendProofs ---------------------------
(* What the front end does with every set of modules.                        *)
EXTENDS Frontend, SequenceTheorems, FiniteSetTheorems, TLAPS

-----------------------------------------------------------------------------
(* The inductive invariant.                                                  *)

\* Where the loops stand.
Control ==
  /\ file \in Nat /\ file >= 1 /\ file <= Len(files) + 1
  /\ phase = "lex" => cursor = 1 /\ levels = <<<<>>>> /\ opened = <<>>
  /\ phase # "lex" => /\ result = "run" /\ file <= Len(files)
                      /\ cursor <= Len(Tokens) + 1
  /\ phase = "end" => opened = <<>> /\ Peek \notin Starts
  /\ result # "run" => file = Len(files) + 1 /\ phase = "lex"
  /\ result # "run" /\ reports = <<>> => result = "typing"

\* The tokens of s before c are those of complete definitions and of the heads of
\* the namespaces o, which are still open; file f is s.
Clean(s, f, c, o) ==
  /\ \A i \in 1..c - 1 :
       /\ s[i] \notin {"bad", "lexerr"}
       /\ s[i] = "const" => i + 1 < c /\ s[i + 1] = "semi"
       /\ s[i] = "semi" => i > 1 /\ s[i - 1] = "const"
  /\ \A i \in 1..c : Depth(s, i) >= 0
  /\ Depth(s, c) = Len(o)
  /\ \A d \in 1..Len(o) : \E j \in 1..c - 1 :
       /\ o[d] = <<f, j>> /\ s[j] = "ns" /\ Depth(s, j) = d - 1
       /\ \A i \in j + 1..c : Depth(s, i) >= d

CleanSoFar == Clean(Tokens, file, cursor, opened)

Parsed == {f \in Malformed : f < file}
Traces == Len(errors) + Len(reports)

\* A malformed file leaves its trace where it stops to be clean.
TraceOfEach ==
  /\ Cardinality(Parsed) <= Traces
  /\ phase # "lex" => CleanSoFar \/ Cardinality(Parsed) + 1 <= Traces

\* No well-formed file leaves one.
NoTraceWithout ==
  Parsed = {} /\ (phase # "lex" => WellFormed(Tokens)) =>
    /\ errors = <<>> /\ reports = <<>>
    /\ phase # "lex" => CleanSoFar

DefinitionStarts == {"def", "const", "ns"}

\* The definitions of the files before f, and those of file f that end before c:
\* the namespaces o do not.
Before(f) ==
  UNION {{<<<<g, i>>, Parent(g, i)>> : i \in {i \in 1..Len(files[g]) : files[g][i] \in DefinitionStarts}}
         : g \in 1..f - 1}
InFile(f, c, o) ==
  {<<<<f, i>>, Parent(f, i)>> :
     i \in {i \in 1..c - 1 : files[f][i] \in DefinitionStarts /\ \A d \in 1..Len(o) : o[d] # <<f, i>>}}

\* Where the definitions in the open lists will be placed.
ListParent(o, d) == IF d = 1 THEN Root ELSE o[d - 1]
InLists(lvls, o) == UNION {Place(lvls[d], ListParent(o, d)) : d \in 1..Len(lvls)}

PlacedSoFar ==
  Malformed = {} => placed \cup InLists(levels, opened) = Before(file) \cup InFile(file, cursor, opened)

IInv == TypeOK /\ Control /\ TraceOfEach /\ NoTraceWithout /\ PlacedSoFar

-----------------------------------------------------------------------------
(* Depths and lists.                                                         *)

LEMMA CountStep ==
  ASSUME NEW s, NEW kind, NEW n \in Nat
  PROVE  /\ Count(s, kind, n) \in Nat
         /\ Count(s, kind, 0) = 0
         /\ Count(s, kind, n + 1) = Count(s, kind, n) + (IF s[n + 1] = kind THEN 1 ELSE 0)
  <1> DEFINE upTo(m) == {i \in 1..m : s[i] = kind}
  <1>1. \A m \in Nat : IsFiniteSet(upTo(m)) /\ Cardinality(upTo(m)) \in Nat
    <2> TAKE m \in Nat
    <2>1. IsFiniteSet(1..m)
      BY FS_Interval
    <2> QED
      BY <2>1, FS_Subset, FS_CardinalityType
  <1>2. upTo(0) = {}
    OBVIOUS
  <1>3. n + 1 \notin upTo(n)
    OBVIOUS
  <1>4. s[n + 1] = kind => upTo(n + 1) = upTo(n) \cup {n + 1}
    OBVIOUS
  <1>5. s[n + 1] # kind => upTo(n + 1) = upTo(n)
    OBVIOUS
  <1>6. \A m \in Nat : Count(s, kind, m) = Cardinality(upTo(m))
    BY DEF Count
  <1> HIDE DEF upTo
  <1>7. Count(s, kind, 0) = 0
    BY <1>2, <1>6, FS_EmptySet
  <1>8. s[n + 1] = kind => Count(s, kind, n + 1) = Count(s, kind, n) + 1
    BY <1>1, <1>3, <1>4, <1>6, FS_AddElement
  <1>9. s[n + 1] # kind => Count(s, kind, n + 1) = Count(s, kind, n)
    BY <1>5, <1>6
  <1> QED
    BY <1>1, <1>6, <1>7, <1>8, <1>9

LEMMA DepthStep ==
  ASSUME NEW s, NEW i \in Nat, i >= 1
  PROVE  /\ Depth(s, i) \in Int
         /\ Depth(s, 1) = 0
         /\ s[i] = "ns" => Depth(s, i + 1) = Depth(s, i) + 1
         /\ s[i] = "close" => Depth(s, i + 1) = Depth(s, i) - 1
         /\ s[i] \notin {"ns", "close"} => Depth(s, i + 1) = Depth(s, i)
  <1>1. i - 1 \in Nat /\ (i - 1) + 1 = i /\ (i + 1) - 1 = i
    OBVIOUS
  <1>2. /\ Count(s, "ns", i - 1) \in Nat /\ Count(s, "close", i - 1) \in Nat
        /\ Count(s, "ns", 0) = 0 /\ Count(s, "close", 0) = 0
        /\ Count(s, "ns", i) = Count(s, "ns", i - 1) + (IF s[i] = "ns" THEN 1 ELSE 0)
        /\ Count(s, "close", i) = Count(s, "close", i - 1) + (IF s[i] = "close" THEN 1 ELSE 0)
    BY <1>1, CountStep
  <1>3. Depth(s, 1) = 0
    BY <1>2 DEF Depth
  <1>4. Depth(s, i + 1) = Count(s, "ns", i) - Count(s, "close", i)
    BY <1>1 DEF Depth
  <1>5. Depth(s, i) = Count(s, "ns", i - 1) - Count(s, "close", i - 1)
    BY DEF Depth
  <1> HIDE DEF Depth
  <1> QED
    BY <1>2, <1>3, <1>4, <1>5

LEMMA CleanIf ==
  ASSUME NEW s, NEW f, NEW c, NEW o,
         \A i \in 1..c - 1 : /\ s[i] \notin {"bad", "lexerr"}
                             /\ s[i] = "const" => i + 1 < c /\ s[i + 1] = "semi"
                             /\ s[i] = "semi" => i > 1 /\ s[i - 1] = "const",
         \A i \in 1..c : Depth(s, i) >= 0,
         Depth(s, c) = Len(o),
         \A d \in 1..Len(o) : \E j \in 1..c - 1 :
           /\ o[d] = <<f, j>> /\ s[j] = "ns" /\ Depth(s, j) = d - 1
           /\ \A i \in j + 1..c : Depth(s, i) >= d
  PROVE  Clean(s, f, c, o)
  BY DEF Clean

LEMMA PopFacts ==
  ASSUME NEW S, NEW seq \in Seq(S), seq # <<>>
  PROVE  /\ Len(seq) \in Nat /\ Len(seq) >= 1
         /\ Pop(seq) \in Seq(S) /\ Len(Pop(seq)) = Len(seq) - 1
         /\ \A k \in 1..Len(seq) - 1 : Pop(seq)[k] = seq[k]
  <1> DEFINE n == Len(seq) - 1
  <1>1. n \in Nat /\ Len(seq) = n + 1 /\ \A i \in 1..n : seq[i] \in S
    OBVIOUS
  <1> HIDE DEF n
  <1>2. /\ SubSeq(seq, 1, n) \in Seq(S)
        /\ Len(SubSeq(seq, 1, n)) = IF 1 <= n THEN n - 1 + 1 ELSE 0
        /\ \A i \in 1..n - 1 + 1 : SubSeq(seq, 1, n)[i] = seq[1 + i - 1]
    BY <1>1, SubSeqProperties
  <1>3. Len(SubSeq(seq, 1, n)) = n
    BY <1>1, <1>2
  <1>4. \A k \in 1..n : SubSeq(seq, 1, n)[k] = seq[k]
    BY <1>1, <1>2
  <1>5. Pop(seq) = SubSeq(seq, 1, n)
    BY DEF Pop, n
  <1> QED
    BY <1>1, <1>2, <1>3, <1>4, <1>5

\* A complete definition keeps the text clean.
LEMMA CleanDefinition ==
  ASSUME NEW s, NEW f, NEW c \in Nat, c >= 1, NEW o \in Seq(Positions), Clean(s, f, c, o),
         NEW e \in {c + 1, c + 2},
         e = c + 1 => s[c] = "def",
         e = c + 2 => s[c] = "const" /\ s[c + 1] = "semi"
  PROVE  Clean(s, f, e, o) /\ Depth(s, e) = Depth(s, c)
  <1>1. /\ Depth(s, c + 1) = Depth(s, c)
        /\ e = c + 2 => Depth(s, c + 2) = Depth(s, c)
    <2>1. Depth(s, c + 1) = Depth(s, c)
      BY DepthStep
    <2>2. e = c + 2 => Depth(s, (c + 1) + 1) = Depth(s, c)
      BY <2>1, DepthStep
    <2>3. (c + 1) + 1 = c + 2
      OBVIOUS
    <2> QED
      BY <2>1, <2>2, <2>3
  <1>2. \A i \in 1..e - 1 : /\ s[i] \notin {"bad", "lexerr"}
                            /\ s[i] = "const" => i + 1 < e /\ s[i + 1] = "semi"
                            /\ s[i] = "semi" => i > 1 /\ s[i - 1] = "const"
    <2>1. \A i \in 1..c - 1 : /\ s[i] \notin {"bad", "lexerr"}
                              /\ s[i] = "const" => i + 1 < c /\ s[i + 1] = "semi"
                              /\ s[i] = "semi" => i > 1 /\ s[i - 1] = "const"
      BY DEF Clean
    <2>2. CASE e = c + 1
      BY <2>1, <2>2
    <2>3. CASE e = c + 2
      BY <2>1, <2>3
    <2> QED
      BY <2>2, <2>3
  <1>3. \A i \in 1..e : i \in 1..c \/ Depth(s, i) = Depth(s, c)
    BY <1>1
  <1>4. Depth(s, c) = Len(o) /\ Len(o) \in Nat /\ Depth(s, e) = Depth(s, c)
    BY <1>1 DEF Clean
  <1>5. \A i \in 1..e : Depth(s, i) >= 0
    BY <1>3, <1>4 DEF Clean
  <1>6. ASSUME NEW d \in 1..Len(o)
        PROVE  \E j \in 1..e - 1 : /\ o[d] = <<f, j>> /\ s[j] = "ns" /\ Depth(s, j) = d - 1
                                   /\ \A i \in j + 1..e : Depth(s, i) >= d
    <2>1. PICK j \in 1..c - 1 : /\ o[d] = <<f, j>> /\ s[j] = "ns" /\ Depth(s, j) = d - 1
                                /\ \A i \in j + 1..c : Depth(s, i) >= d
      BY DEF Clean
    <2>2. \A i \in j + 1..e : Depth(s, i) >= d
      <3> SUFFICES ASSUME NEW i \in j + 1..e PROVE Depth(s, i) >= d
        OBVIOUS
      <3>1. CASE i \in 1..c
        BY <2>1, <3>1
      <3>2. CASE i \notin 1..c
        BY <1>3, <1>4, <3>2
      <3> QED
        BY <3>1, <3>2
    <2>3. j \in 1..e - 1
      OBVIOUS
    <2> QED
      BY <2>1, <2>2, <2>3
  <1> QED
    BY <1>2, <1>4, <1>5, <1>6 DEF Clean

\* So does the head of a namespace, which is then the last one open.
LEMMA CleanHead ==
  ASSUME NEW s, NEW f, NEW c \in Nat, c >= 1, NEW o \in Seq(Positions), Clean(s, f, c, o),
         s[c] = "ns", f \in Nat
  PROVE  Clean(s, f, c + 1, Append(o, <<f, c>>))
  <1> DEFINE o2 == Append(o, <<f, c>>)
  <1>1. Depth(s, c) = Len(o) /\ Len(o) \in Nat /\ Depth(s, c + 1) = Depth(s, c) + 1
    BY DepthStep DEF Clean
  <1>2. /\ Len(o2) = Len(o) + 1
        /\ \A d \in 1..Len(o) : o2[d] = o[d]
        /\ o2[Len(o) + 1] = <<f, c>>
    OBVIOUS
  <1> HIDE DEF o2
  <1>3. \A i \in 1..(c + 1) - 1 : /\ s[i] \notin {"bad", "lexerr"}
                                  /\ s[i] = "const" => i + 1 < c + 1 /\ s[i + 1] = "semi"
                                  /\ s[i] = "semi" => i > 1 /\ s[i - 1] = "const"
    BY DEF Clean
  <1>4. \A i \in 1..c + 1 : Depth(s, i) >= 0
    BY <1>1 DEF Clean
  <1>5. ASSUME NEW d \in 1..Len(o2)
        PROVE  \E j \in 1..(c + 1) - 1 : /\ o2[d] = <<f, j>> /\ s[j] = "ns" /\ Depth(s, j) = d - 1
                                         /\ \A i \in j + 1..c + 1 : Depth(s, i) >= d
    <2>1. CASE d \in 1..Len(o)
      <3>1. PICK j \in 1..c - 1 : /\ o[d] = <<f, j>> /\ s[j] = "ns" /\ Depth(s, j) = d - 1
                                  /\ \A i \in j + 1..c : Depth(s, i) >= d
        BY <2>1 DEF Clean
      <3>2. \A i \in j + 1..c + 1 : Depth(s, i) >= d
        BY <1>1, <2>1, <3>1
      <3> QED
        BY <1>2, <2>1, <3>1, <3>2
    <2>2. CASE d = Len(o) + 1
      BY <1>1, <1>2, <2>2
    <2> QED
      BY <1>1, <1>2, <2>1, <2>2
  <1> QED
    <2>1. Depth(s, c + 1) = Len(o2)
      BY <1>1, <1>2
    <2>2. Clean(s, f, c + 1, o2)
      BY <2>1, <1>3, <1>4, <1>5 DEF Clean
    <2> QED
      BY <2>2 DEF o2

\* And the brace that closes the last one open.
LEMMA CleanClose ==
  ASSUME NEW s, NEW f, NEW c \in Nat, c >= 1, NEW o \in Seq(Positions), Clean(s, f, c, o),
         s[c] = "close", o # <<>>
  PROVE  Clean(s, f, c + 1, Pop(o))
  <1> DEFINE o2 == Pop(o)
  <1>1. /\ Depth(s, c) = Len(o) /\ Len(o) \in Nat /\ Len(o) >= 1
        /\ Depth(s, c + 1) = Depth(s, c) - 1
    BY DepthStep DEF Clean
  <1>2. /\ Len(o2) = Len(o) - 1
        /\ \A d \in 1..Len(o) - 1 : o2[d] = o[d]
    BY PopFacts
  <1> HIDE DEF o2
  <1>3. \A i \in 1..(c + 1) - 1 : /\ s[i] \notin {"bad", "lexerr"}
                                  /\ s[i] = "const" => i + 1 < c + 1 /\ s[i + 1] = "semi"
                                  /\ s[i] = "semi" => i > 1 /\ s[i - 1] = "const"
    BY DEF Clean
  <1>4. \A i \in 1..c + 1 : Depth(s, i) >= 0
    <2>1. \A i \in 1..c : Depth(s, i) >= 0
      BY DEF Clean
    <2>2. Depth(s, c + 1) >= 0
      BY <1>1
    <2> QED
      BY <2>1, <2>2
  <1>5. ASSUME NEW d \in 1..Len(o2)
        PROVE  \E j \in 1..(c + 1) - 1 : /\ o2[d] = <<f, j>> /\ s[j] = "ns" /\ Depth(s, j) = d - 1
                                         /\ \A i \in j + 1..c + 1 : Depth(s, i) >= d
    <2>1. d \in 1..Len(o) /\ d <= Len(o) - 1
      BY <1>1, <1>2
    <2>2. PICK j \in 1..c - 1 : /\ o[d] = <<f, j>> /\ s[j] = "ns" /\ Depth(s, j) = d - 1
                                /\ \A i \in j + 1..c : Depth(s, i) >= d
      BY <2>1 DEF Clean
    <2>3. \A i \in j + 1..c + 1 : Depth(s, i) >= d
      BY <1>1, <2>1, <2>2
    <2> QED
      BY <1>2, <2>1, <2>2, <2>3
  <1> QED
    <2>1. Depth(s, c + 1) = Len(o2)
      BY <1>1, <1>2
    <2>2. \A d \in 1..Len(o2) : \E j \in 1..(c + 1) - 1 :
             /\ o2[d] = <<f, j>> /\ s[j] = "ns" /\ Depth(s, j) = d - 1
             /\ \A i \in j + 1..c + 1 : Depth(s, i) >= d
      BY <1>5
    <2>3. Clean(s, f, c + 1, o2)
      BY <2>1, <2>2, <1>3, <1>4, CleanIf
    <2> QED
      BY <2>3 DEF o2

\* A clean file whose namespaces are all closed is well formed; in a well-formed
\* file nothing can go wrong behind a clean text.
LEMMA CleanToTheEnd ==
  ASSUME NEW s \in Seq(TokenKinds), NEW f, Clean(s, f, Len(s) + 1, <<>>)
  PROVE  WellFormed(s)
  BY DEF Clean, WellFormed

LEMMA CleanGoesOn ==
  ASSUME NEW s \in Seq(TokenKinds), NEW f, NEW c \in Nat, c >= 1, c <= Len(s) + 1,
         NEW o \in Seq(Positions), Clean(s, f, c, o), WellFormed(s)
  PROVE  /\ c <= Len(s) => /\ s[c] \notin {"bad", "lexerr", "semi"}
                           /\ s[c] = "const" => c < Len(s) /\ s[c + 1] = "semi"
         /\ c <= Len(s) /\ o = <<>> => s[c] # "close"
         /\ c = Len(s) + 1 => o = <<>>
  <1>1. /\ \A i \in 1..Len(s) :
             /\ s[i] \notin {"bad", "lexerr"}
             /\ s[i] = "const" => i < Len(s) /\ s[i + 1] = "semi"
             /\ s[i] = "semi" => i > 1 /\ s[i - 1] = "const"
        /\ \A i \in 1..Len(s) + 1 : Depth(s, i) >= 0
        /\ Depth(s, Len(s) + 1) = 0
    BY DEF WellFormed
  <1>2. \A i \in 1..c - 1 : s[i] = "const" => i + 1 < c
    BY DEF Clean
  <1>3. Depth(s, c) = Len(o) /\ Len(o) \in Nat
    BY DEF Clean
  <1>4. ASSUME c <= Len(s), s[c] = "semi" PROVE FALSE
    <2>1. c > 1 /\ s[c - 1] = "const" /\ c - 1 \in 1..c - 1
      BY <1>1, <1>4
    <2> QED
      BY <1>2, <2>1
  <1>5. ASSUME c <= Len(s), o = <<>>, s[c] = "close" PROVE FALSE
    <2>1. Depth(s, c) = 0 /\ Depth(s, c + 1) = Depth(s, c) - 1 /\ c + 1 \in 1..Len(s) + 1
      BY <1>3, <1>5, DepthStep
    <2> QED
      BY <1>1, <2>1
  <1>6. c = Len(s) + 1 => o = <<>>
    BY <1>1, <1>3
  <1> QED
    BY <1>1, <1>4, <1>5, <1>6

-----------------------------------------------------------------------------
(* Where definitions are placed.                                             *)

\* The innermost open namespace is the parent of what comes next.
LEMMA ParentIs ==
  ASSUME NEW f, NEW c \in Nat, c >= 1, NEW o \in Seq(Positions), Clean(files[f], f, c, o)
  PROVE  Parent(f, c) = ListParent(o, Len(o) + 1)
  <1> DEFINE s == files[f]
             enclosing == {j \in 1..c - 1 : s[j] = "ns" /\ Depth(s, j) = Depth(s, c) - 1}
  <1>1. Depth(s, c) = Len(o) /\ Len(o) \in Nat
    BY DEF Clean
  <1>2. CASE Len(o) = 0
    BY <1>1, <1>2 DEF Parent, ListParent
  <1>3. CASE Len(o) >= 1
    <2>1. PICK j \in 1..c - 1 : /\ o[Len(o)] = <<f, j>> /\ s[j] = "ns" /\ Depth(s, j) = Len(o) - 1
                                /\ \A i \in j + 1..c : Depth(s, i) >= Len(o)
      <3>1. Len(o) \in 1..Len(o)
        BY <1>1, <1>3
      <3> HIDE DEF s
      <3> QED
        BY <3>1 DEF Clean, s
    <2>2. j \in enclosing
      BY <1>1, <2>1
    <2>3. \A k \in enclosing : k <= j
      <3> SUFFICES ASSUME NEW k \in enclosing, k > j PROVE FALSE
        OBVIOUS
      <3>1. Depth(s, k) = Len(o) - 1 /\ k \in j + 1..c
        BY <1>1
      <3> QED
        BY <1>1, <2>1, <3>1
    <2>4. \A k \in enclosing : (\A m \in enclosing : m <= k) => k = j
      BY <2>2, <2>3
    <2> HIDE DEF enclosing
    <2>5. (CHOOSE k \in enclosing : \A m \in enclosing : m <= k) = j
      BY <2>2, <2>3, <2>4
    <2>6. Parent(f, c) = <<f, j>>
      <3>1. Depth(files[f], c) # 0
        BY <1>1, <1>3
      <3> QED
        BY <2>5, <3>1 DEF Parent, enclosing
    <2> QED
      BY <1>1, <1>3, <2>1, <2>6 DEF ListParent
  <1> QED
    BY <1>1, <1>2, <1>3

\* The text before the head of the last open namespace is clean as well.
LEMMA CleanBefore ==
  ASSUME NEW s, NEW f, NEW c \in Nat, c >= 1, NEW o \in Seq(Positions), Clean(s, f, c, o), o # <<>>
  PROVE  \E j \in 1..c - 1 : /\ o[Len(o)] = <<f, j>> /\ s[j] = "ns"
                             /\ \A d \in 1..Len(o) - 1 : o[d] # <<f, j>>
                             /\ Clean(s, f, j, Pop(o))
  <1> DEFINE o2 == Pop(o)
  <1>1. Len(o) \in Nat /\ Len(o) >= 1 /\ Len(o) \in 1..Len(o)
    OBVIOUS
  <1>2. /\ Len(o2) = Len(o) - 1
        /\ \A d \in 1..Len(o) - 1 : o2[d] = o[d]
    BY PopFacts
  <1> HIDE DEF o2
  <1>3. PICK j \in 1..c - 1 : /\ o[Len(o)] = <<f, j>> /\ s[j] = "ns" /\ Depth(s, j) = Len(o) - 1
                              /\ \A i \in j + 1..c : Depth(s, i) >= Len(o)
    BY <1>1 DEF Clean
  <1>4. \A i \in 1..j - 1 : /\ s[i] \notin {"bad", "lexerr"}
                            /\ s[i] = "const" => i + 1 < j /\ s[i + 1] = "semi"
                            /\ s[i] = "semi" => i > 1 /\ s[i - 1] = "const"
    <2> SUFFICES ASSUME NEW i \in 1..j - 1
                 PROVE  /\ s[i] \notin {"bad", "lexerr"}
                        /\ s[i] = "const" => i + 1 < j /\ s[i + 1] = "semi"
                        /\ s[i] = "semi" => i > 1 /\ s[i - 1] = "const"
      OBVIOUS
    <2>1. i \in 1..c - 1
      OBVIOUS
    <2>2. /\ s[i] \notin {"bad", "lexerr"}
          /\ s[i] = "const" => s[i + 1] = "semi"
          /\ s[i] = "semi" => i > 1 /\ s[i - 1] = "const"
      BY <2>1 DEF Clean
    <2>3. s[i] = "const" => i + 1 # j
      BY <1>3, <2>2
    <2> QED
      BY <2>2, <2>3
  <1>5. \A i \in 1..j : Depth(s, i) >= 0
    BY DEF Clean
  <1>6. ASSUME NEW d \in 1..Len(o2)
        PROVE  \E k \in 1..j - 1 : /\ o2[d] = <<f, k>> /\ s[k] = "ns" /\ Depth(s, k) = d - 1
                                   /\ \A i \in k + 1..j : Depth(s, i) >= d
    <2>1. d \in 1..Len(o) /\ d <= Len(o) - 1
      BY <1>1, <1>2
    <2>2. PICK k \in 1..c - 1 : /\ o[d] = <<f, k>> /\ s[k] = "ns" /\ Depth(s, k) = d - 1
                                /\ \A i \in k + 1..c : Depth(s, i) >= d
      BY <2>1 DEF Clean
    <2>3. k # j
      BY <1>1, <1>3, <2>1, <2>2
    <2>4. ~(k > j)
      <3> SUFFICES ASSUME k > j PROVE FALSE
        OBVIOUS
      <3>1. k \in j + 1..c
        OBVIOUS
      <3> QED
        BY <1>1, <1>3, <2>1, <2>2, <3>1
    <2>5. k \in 1..j - 1
      BY <2>3, <2>4
    <2> QED
      BY <1>2, <2>1, <2>2, <2>5
  <1>7. \A d \in 1..Len(o) - 1 : o[d] # <<f, j>>
    BY <1>2, <1>6
  <1>8. Clean(s, f, j, o2)
    <2>1. Depth(s, j) = Len(o2)
      BY <1>2, <1>3
    <2> QED
      BY <2>1, <1>4, <1>5, <1>6, CleanIf
  <1> QED
    BY <1>3, <1>7, <1>8 DEF o2

LEMMA PlaceAppend ==
  ASSUME NEW list \in Seq(Positions), NEW x \in Positions, NEW parent
  PROVE  Place(Append(list, x), parent) = Place(list, parent) \cup {<<x, parent>>}
  <1>1. /\ Len(Append(list, x)) = Len(list) + 1 /\ Len(list) \in Nat
        /\ \A i \in 1..Len(list) : Append(list, x)[i] = list[i]
        /\ Append(list, x)[Len(list) + 1] = x
    OBVIOUS
  <1>2. 1..Len(list) + 1 = (1..Len(list)) \cup {Len(list) + 1}
    BY <1>1
  <1> QED
    BY <1>1, <1>2 DEF Place

\* A definition that is collected.
LEMMA InListsCollect ==
  ASSUME NEW lvls \in Seq(Seq(Positions)), lvls # <<>>, NEW c, <<file, c>> \in Positions, NEW o
  PROVE  /\ Collect(lvls, c) \in Seq(Seq(Positions))
         /\ Len(Collect(lvls, c)) = Len(lvls)
         /\ InLists(Collect(lvls, c), o) = InLists(lvls, o) \cup {<<<<file, c>>, ListParent(o, Len(lvls))>>}
  <1> DEFINE m == Len(lvls)
             x == <<file, c>>
             lv2 == Collect(lvls, c)
  <1>1. m \in Nat /\ m >= 1 /\ lvls[m] \in Seq(Positions) /\ Append(lvls[m], x) \in Seq(Positions)
    OBVIOUS
  <1>2. /\ lv2 \in Seq(Seq(Positions)) /\ Len(lv2) = m
        /\ lv2[m] = Append(lvls[m], x)
        /\ \A d \in 1..m : d # m => lv2[d] = lvls[d]
    BY <1>1 DEF Collect
  <1>3. Place(lv2[m], ListParent(o, m)) = Place(lvls[m], ListParent(o, m)) \cup {<<x, ListParent(o, m)>>}
    BY <1>1, <1>2, PlaceAppend
  <1>4. \A d \in 1..m : d # m => Place(lv2[d], ListParent(o, d)) = Place(lvls[d], ListParent(o, d))
    BY <1>2
  <1> HIDE DEF lv2, x
  <1>5. m \in 1..m
    BY <1>1
  <1>6. InLists(lv2, o) = InLists(lvls, o) \cup {<<x, ListParent(o, m)>>}
    BY <1>2, <1>3, <1>4, <1>5 DEF InLists
  <1> QED
    BY <1>2, <1>6 DEF lv2, x

\* A namespace that is opened.
LEMMA InListsPush ==
  ASSUME NEW lvls \in Seq(Seq(Positions)), NEW o \in Seq(Positions), Len(lvls) = Len(o) + 1,
         NEW x \in Positions
  PROVE  InLists(Append(lvls, <<>>), Append(o, x)) = InLists(lvls, o)
  <1> DEFINE m == Len(lvls)
             lv2 == Append(lvls, <<>>)
             o2 == Append(o, x)
  <1>1. /\ m \in Nat /\ m >= 1 /\ Len(lv2) = m + 1
        /\ lv2[m + 1] = <<>>
        /\ \A d \in 1..m : lv2[d] = lvls[d]
        /\ \A d \in 1..m - 1 : o2[d] = o[d]
    OBVIOUS
  <1> HIDE DEF lv2, o2
  <1>2. \A d \in 1..m : ListParent(o2, d) = ListParent(o, d)
    <2> SUFFICES ASSUME NEW d \in 1..m, d # 1 PROVE o2[d - 1] = o[d - 1]
      BY DEF ListParent
    <2>1. d - 1 \in 1..m - 1
      BY <1>1
    <2> QED
      BY <1>1, <2>1
  <1>3. Place(lv2[m + 1], ListParent(o2, m + 1)) = {}
    BY <1>1 DEF Place
  <1>4. 1..m + 1 = (1..m) \cup {m + 1}
    BY <1>1
  <1>5. InLists(lv2, o2) = InLists(lvls, o)
    BY <1>1, <1>2, <1>3, <1>4 DEF InLists
  <1> QED
    BY <1>5 DEF lv2, o2

\* A namespace that is closed.
LEMMA InListsPop ==
  ASSUME NEW lvls \in Seq(Seq(Positions)), NEW o \in Seq(Positions), Len(lvls) = Len(o) + 1, o # <<>>
  PROVE  /\ Pop(lvls) \in Seq(Seq(Positions)) /\ Pop(o) \in Seq(Positions)
         /\ Len(Pop(lvls)) = Len(o) /\ Len(Pop(o)) = Len(o) - 1 /\ Pop(lvls) # <<>>
         /\ InLists(lvls, o) = InLists(Pop(lvls), Pop(o)) \cup Place(Last(lvls), Last(o))
  <1> DEFINE n == Len(o)
             lv2 == Pop(lvls)
             o2 == Pop(o)
  <1>1. n \in Nat /\ n >= 1 /\ Len(lvls) = n + 1 /\ lvls # <<>>
    OBVIOUS
  <1>2. /\ lv2 \in Seq(Seq(Positions)) /\ Len(lv2) = n
        /\ \A d \in 1..n : lv2[d] = lvls[d]
    <2>1. /\ lv2 \in Seq(Seq(Positions)) /\ Len(lv2) = Len(lvls) - 1
          /\ \A d \in 1..Len(lvls) - 1 : lv2[d] = lvls[d]
      BY <1>1, PopFacts
    <2>2. Len(lvls) - 1 = n
      BY <1>1
    <2> HIDE DEF lv2, n
    <2> QED
      BY <2>1, <2>2
  <1>3. /\ o2 \in Seq(Positions) /\ Len(o2) = n - 1
        /\ \A d \in 1..n - 1 : o2[d] = o[d]
    BY PopFacts
  <1> HIDE DEF lv2, o2
  <1>4. \A d \in 1..n : ListParent(o2, d) = ListParent(o, d)
    <2> SUFFICES ASSUME NEW d \in 1..n, d # 1 PROVE o2[d - 1] = o[d - 1]
      BY DEF ListParent
    <2>1. d - 1 \in 1..n - 1
      BY <1>1
    <2> QED
      BY <1>3, <2>1
  <1>5. Place(Last(lvls), Last(o)) = Place(lvls[n + 1], ListParent(o, n + 1))
    BY <1>1 DEF Last, ListParent
  <1>6. 1..n + 1 = (1..n) \cup {n + 1}
    BY <1>1
  <1>7. InLists(lvls, o) = InLists(lv2, o2) \cup Place(Last(lvls), Last(o))
    BY <1>1, <1>2, <1>4, <1>5, <1>6 DEF InLists
  <1>8. lv2 # <<>>
    BY <1>1, <1>2
  <1> QED
    BY <1>1, <1>2, <1>3, <1>7, <1>8 DEF lv2, o2

\* The definitions that end at or before a place.
LEMMA InFileDefinition ==
  ASSUME NEW f, NEW c \in Nat, c >= 1, NEW o \in Seq(Positions), Clean(files[f], f, c, o),
         NEW e \in {c + 1, c + 2},
         files[f][c] \in {"def", "const"},
         e = c + 2 => files[f][c + 1] = "semi"
  PROVE  InFile(f, e, o) = InFile(f, c, o) \cup {<<<<f, c>>, ListParent(o, Len(o) + 1)>>}
  <1> DEFINE open(i) == \E d \in 1..Len(o) : o[d] = <<f, i>>
  <1>1. \A i : open(i) => i \in 1..c - 1
    BY DEF Clean
  <1>2. ~open(c) /\ Parent(f, c) = ListParent(o, Len(o) + 1)
    BY <1>1, ParentIs
  <1> DEFINE ended(n) == {i \in 1..n - 1 : files[f][i] \in DefinitionStarts /\ ~open(i)}
  <1>3. ended(e) = ended(c) \cup {c}
    <2>1. \A i \in 1..e - 1 : i \in 1..c - 1 \/ i = c \/ (i = c + 1 /\ e = c + 2)
      OBVIOUS
    <2>2. \A i \in 1..c - 1 : i \in 1..e - 1
      OBVIOUS
    <2>3. c \in 1..e - 1 /\ files[f][c] \in DefinitionStarts
      BY DEF DefinitionStarts
    <2>4. e = c + 2 => files[f][c + 1] \notin DefinitionStarts
      BY DEF DefinitionStarts
    <2> HIDE DEF open
    <2> QED
      BY <1>2, <2>1, <2>2, <2>3, <2>4
  <1>4. \A n : InFile(f, n, o) = {<<<<f, i>>, Parent(f, i)>> : i \in ended(n)}
    BY DEF InFile
  <1> HIDE DEF ended
  <1> QED
    BY <1>2, <1>3, <1>4

LEMMA InFileHead ==
  ASSUME NEW f \in Nat, NEW c \in Nat, c >= 1, NEW o \in Seq(Positions)
  PROVE  InFile(f, c + 1, Append(o, <<f, c>>)) = InFile(f, c, o)
  <1> DEFINE o2 == Append(o, <<f, c>>)
             ended(n, p) == {i \in 1..n - 1 : files[f][i] \in DefinitionStarts /\ \A d \in 1..Len(p) : p[d] # <<f, i>>}
  <1>1. /\ Len(o) \in Nat /\ Len(o2) = Len(o) + 1
        /\ \A d \in 1..Len(o) : o2[d] = o[d]
        /\ o2[Len(o) + 1] = <<f, c>>
    OBVIOUS
  <1> HIDE DEF o2
  <1>2. ended(c + 1, o2) = ended(c, o)
    <2>1. \A i \in 1..(c + 1) - 1 : i = c \/ i \in 1..c - 1
      OBVIOUS
    <2>2. \A i \in 1..c - 1 : i \in 1..(c + 1) - 1 /\ <<f, i>> # <<f, c>>
      OBVIOUS
    <2>3. 1..Len(o2) = (1..Len(o)) \cup {Len(o) + 1}
      BY <1>1
    <2>4. \A i : (\A d \in 1..Len(o2) : o2[d] # <<f, i>>)
                   <=> <<f, i>> # <<f, c>> /\ \A d \in 1..Len(o) : o[d] # <<f, i>>
      BY <1>1, <2>3
    <2> QED
      BY <2>1, <2>2, <2>4
  <1>3. \A n, p : InFile(f, n, p) = {<<<<f, i>>, Parent(f, i)>> : i \in ended(n, p)}
    BY DEF InFile
  <1> HIDE DEF ended
  <1> QED
    BY <1>2, <1>3 DEF o2

LEMMA InFileClose ==
  ASSUME NEW f, NEW c \in Nat, c >= 1, NEW o \in Seq(Positions), o # <<>>, Clean(files[f], f, c, o),
         files[f][c] = "close"
  PROVE  InFile(f, c + 1, Pop(o))
           = InFile(f, c, o) \cup {<<<<f, Last(o)[2]>>, ListParent(Pop(o), Len(Pop(o)) + 1)>>}
  <1> DEFINE s == files[f]
             o2 == Pop(o)
             ended(n, p) == {i \in 1..n - 1 : s[i] \in DefinitionStarts /\ \A d \in 1..Len(p) : p[d] # <<f, i>>}
  <1>1. PICK j \in 1..c - 1 : /\ o[Len(o)] = <<f, j>> /\ s[j] = "ns"
                              /\ \A d \in 1..Len(o) - 1 : o[d] # <<f, j>>
                              /\ Clean(s, f, j, o2)
    BY CleanBefore
  <1>2. /\ Len(o) \in Nat /\ Len(o) >= 1
        /\ o2 \in Seq(Positions) /\ Len(o2) = Len(o) - 1
        /\ \A d \in 1..Len(o) - 1 : o2[d] = o[d]
    BY PopFacts
  <1>3. Parent(f, j) = ListParent(o2, Len(o2) + 1)
    <2> HIDE DEF o2
    <2> QED
      BY <1>1, <1>2, ParentIs
  <1>4. Last(o)[2] = j
    BY <1>1 DEF Last
  <1> HIDE DEF o2
  <1>5. ended(c + 1, o2) = ended(c, o) \cup {j}
    <2>1. \A i \in 1..(c + 1) - 1 : i = c \/ i \in 1..c - 1
      OBVIOUS
    <2>2. \A i \in 1..c - 1 : i \in 1..(c + 1) - 1
      OBVIOUS
    <2>3. s[c] \notin DefinitionStarts /\ s[j] \in DefinitionStarts
      BY <1>1 DEF DefinitionStarts
    <2>4. 1..Len(o) = (1..Len(o2)) \cup {Len(o)}
      BY <1>2
    <2>5. \A i : (\A d \in 1..Len(o) : o[d] # <<f, i>>)
                   <=> i # j /\ \A d \in 1..Len(o2) : o2[d] # <<f, i>>
      <3>1. \A i : <<f, i>> = <<f, j>> <=> i = j
        OBVIOUS
      <3>2. \A d \in 1..Len(o2) : o2[d] = o[d]
        BY <1>2
      <3> QED
        BY <1>1, <2>4, <3>1, <3>2
    <2>6. \A d \in 1..Len(o2) : o2[d] # <<f, j>>
      BY <1>1, <1>2
    <2> HIDE DEF s
    <2> QED
      BY <2>1, <2>2, <2>3, <2>5, <2>6
  <1>6. \A n, p : InFile(f, n, p) = {<<<<f, i>>, Parent(f, i)>> : i \in ended(n, p)}
    BY DEF InFile
  <1> HIDE DEF ended
  <1> QED
    BY <1>3, <1>4, <1>5, <1>6 DEF o2

\* The file is at its end.
LEMMA BeforeNext ==
  ASSUME NEW f \in Nat, f >= 1
  PROVE  Before(f + 1) = Before(f) \cup InFile(f, Len(files[f]) + 1, <<>>)
  <1> DEFINE defs(g) == {<<<<g, i>>, Parent(g, i)>> : i \in {i \in 1..Len(files[g]) : files[g][i] \in DefinitionStarts}}
  <1>1. \A g : Before(g) = UNION {defs(h) : h \in 1..g - 1}
    BY DEF Before
  <1>2. InFile(f, Len(files[f]) + 1, <<>>) = defs(f)
    <2>1. Len(<<>>) = 0 /\ 1..0 = {}
      OBVIOUS
    <2> QED
      BY <2>1 DEF InFile
  <1>3. 1..(f + 1) - 1 = (1..f - 1) \cup {f}
    OBVIOUS
  <1> HIDE DEF defs
  <1> QED
    BY <1>1, <1>2, <1>3

-----------------------------------------------------------------------------
(* The steps.                                                                *)

LEMMA SameFiles ==
  ASSUME files' = files
  PROVE  /\ Malformed' = Malformed
         /\ \A f : Before(f)' = Before(f)
         /\ \A f, c, o : InFile(f, c, o)' = InFile(f, c, o)
  <1>1. Malformed' = Malformed
    BY DEF Malformed
  <1>2. \A f, i : Parent(f, i)' = Parent(f, i)
    BY DEF Parent
  <1>3. \A f, c, o : InFile(f, c, o)' = InFile(f, c, o)
    BY <1>2 DEF InFile
  <1> DEFINE defs(g) == {<<<<g, i>>, Parent(g, i)>> : i \in {i \in 1..Len(files[g]) : files[g][i] \in DefinitionStarts}}
  <1>4. \A g : defs(g)' = defs(g)
    BY <1>2
  <1>5. \A f : Before(f) = UNION {defs(g) : g \in 1..f - 1}
    BY DEF Before
  <1>6. \A f : Before(f)' = UNION {defs(g)' : g \in 1..f - 1}
    BY DEF Before
  <1> HIDE DEF defs
  <1>7. \A f : Before(f)' = Before(f)
    BY <1>4, <1>5, <1>6
  <1> QED
    BY <1>1, <1>3, <1>7

LEMMA FileFacts ==
  ASSUME IInv
  PROVE  /\ Len(files) \in Nat /\ files \in Seq(Seq(TokenKinds))
         /\ file \in Nat /\ file >= 1 /\ cursor \in Nat /\ cursor >= 1
         /\ \A f \in 1..Len(files) : files[f] \in Seq(TokenKinds) /\ Len(files[f]) \in Nat
         /\ errors \in Seq(Positions) /\ reports \in Seq([during : Nat, at : Positions])
         /\ Len(errors) \in Nat /\ Len(reports) \in Nat
         /\ opened \in Seq(Positions) /\ levels \in Seq(Seq(Positions))
         /\ Len(levels) = Len(opened) + 1 /\ levels # <<>>
         /\ Parsed \subseteq 1..Len(files) /\ IsFiniteSet(Parsed) /\ Cardinality(Parsed) \in Nat
  <1>1. TypeOK /\ Control
    BY DEF IInv
  <1>2. Len(files) \in Nat /\ \A f \in 1..Len(files) : files[f] \in Seq(TokenKinds) /\ Len(files[f]) \in Nat
    BY <1>1 DEF TypeOK
  <1>3. Parsed \subseteq 1..Len(files) /\ IsFiniteSet(Parsed) /\ Cardinality(Parsed) \in Nat
    <2>1. Parsed \subseteq 1..Len(files)
      BY DEF Parsed, Malformed
    <2>2. IsFiniteSet(1..Len(files))
      BY <1>2, FS_Interval
    <2> QED
      BY <2>1, <2>2, FS_Subset, FS_CardinalityType
  <1>4. levels # <<>>
    BY <1>1 DEF TypeOK
  <1> QED
    BY <1>1, <1>2, <1>3, <1>4 DEF TypeOK, Control

LEMMA ParsingFacts ==
  ASSUME IInv, phase # "lex"
  PROVE  /\ file \in 1..Len(files) /\ result = "run"
         /\ Tokens \in Seq(TokenKinds) /\ Len(Tokens) \in Nat /\ cursor <= Len(Tokens) + 1
         /\ Parsed = {} /\ WellFormed(Tokens) => CleanSoFar
         /\ Malformed = {} => WellFormed(Tokens) /\ Parsed = {} /\ CleanSoFar
  <1>1. file \in 1..Len(files) /\ result = "run" /\ cursor <= Len(Tokens) + 1
    BY FileFacts DEF IInv, Control
  <1>2. Tokens \in Seq(TokenKinds) /\ Len(Tokens) \in Nat
    BY <1>1, FileFacts DEF Tokens
  <1>3. Parsed = {} /\ WellFormed(Tokens) => CleanSoFar
    BY DEF IInv, NoTraceWithout
  <1>4. Malformed = {} => WellFormed(Tokens) /\ Parsed = {}
    BY <1>1 DEF Malformed, Parsed, Tokens
  <1> QED
    BY <1>1, <1>2, <1>3, <1>4

LEMMA InitIInv == Init => IInv
  <1> SUFFICES ASSUME Init PROVE IInv
    OBVIOUS
  <1>1. files \in Seq(Seq(TokenKinds)) /\ Len(files) \in Nat
    BY FrontendAssumption DEF Init
  <1>2. TypeOK
    BY <1>1 DEF Init, TypeOK
  <1>3. Control
    BY <1>1 DEF Init, Control
  <1>4. Parsed = {} /\ Len(errors) = 0 /\ Len(reports) = 0
    BY <1>1 DEF Init, Parsed, Malformed
  <1>5. Cardinality(Parsed) = 0
    BY <1>4, FS_EmptySet
  <1>6. TraceOfEach /\ NoTraceWithout
    BY <1>4, <1>5 DEF Init, TraceOfEach, NoTraceWithout, Traces
  <1>7. PlacedSoFar
    <2>1. InLists(levels, opened) = {}
      BY DEF Init, InLists, Place
    <2>2. Before(file) = {} /\ InFile(file, cursor, opened) = {}
      BY DEF Init, Before, InFile
    <2> QED
      BY <2>1, <2>2 DEF Init, PlacedSoFar
  <1> QED
    BY <1>2, <1>3, <1>6, <1>7 DEF IInv

\* A step within a file that keeps the text clean and its definitions.
LEMMA StepInFile ==
  ASSUME IInv, phase # "lex", phase' # "lex", TypeOK', Control',
         UNCHANGED <<files, file, errors, reports, result>>,
         CleanSoFar => CleanSoFar',
         Malformed = {} => placed' \cup InLists(levels', opened') = Before(file) \cup InFile(file, cursor', opened')
  PROVE  IInv'
  <1>1. Malformed' = Malformed /\ Parsed' = Parsed /\ Traces' = Traces /\ Tokens' = Tokens
    BY SameFiles DEF Parsed, Traces, Tokens
  <1>2. TraceOfEach' /\ NoTraceWithout'
    BY <1>1 DEF IInv, TraceOfEach, NoTraceWithout
  <1>3. PlacedSoFar'
    BY <1>1, SameFiles DEF PlacedSoFar
  <1> QED
    BY <1>2, <1>3 DEF IInv

\* The step to the next file.
LEMMA StepToNextFile ==
  ASSUME IInv, result = "run", file <= Len(files), NextFile, UNCHANGED <<files, result>>,
         errors' \in Seq(Positions), reports' \in Seq([during : Nat, at : Positions]),
         placed' \subseteq Positions \X Positions,
         \/ Cardinality(Parsed) + 1 <= Traces'
         \/ WellFormed(Tokens) /\ Cardinality(Parsed) <= Traces',
         Parsed = {} /\ WellFormed(Tokens) => errors' = <<>> /\ reports' = <<>>,
         Malformed = {} => placed' = Before(file + 1)
  PROVE  IInv'
  <1>1. /\ file' = file + 1 /\ phase' = "lex" /\ cursor' = 1 /\ levels' = <<<<>>>> /\ opened' = <<>>
        /\ Malformed' = Malformed
    BY SameFiles DEF NextFile
  <1>2. file \in Nat /\ file >= 1 /\ Len(files) \in Nat /\ IsFiniteSet(Parsed) /\ Cardinality(Parsed) \in Nat
    BY FileFacts
  <1>3. TypeOK'
    BY <1>1, <1>2 DEF IInv, TypeOK
  <1>4. Control'
    BY <1>1, <1>2 DEF IInv, Control
  <1>5. /\ file \in Malformed <=> ~WellFormed(Tokens)
        /\ Parsed' = IF file \in Malformed THEN Parsed \cup {file} ELSE Parsed
        /\ file \notin Parsed
    <2>1. \A f \in Malformed : f < file + 1 <=> f < file \/ f = file
      BY <1>2 DEF Malformed
    <2>2. file \in Malformed <=> ~WellFormed(Tokens)
      BY <1>2 DEF Malformed, Tokens
    <2> QED
      BY <1>1, <1>2, <2>1, <2>2 DEF Parsed
  <1>6. Cardinality(Parsed') <= Traces'
    <2>1. Traces' \in Nat
      BY DEF Traces
    <2>2. CASE WellFormed(Tokens)
      <3>1. Parsed' = Parsed
        BY <1>5, <2>2
      <3> QED
        BY <1>2, <2>1, <3>1
    <2>3. CASE ~WellFormed(Tokens)
      <3>1. Cardinality(Parsed') = Cardinality(Parsed) + 1
        BY <1>2, <1>5, <2>3, FS_AddElement
      <3> QED
        BY <2>3, <3>1
    <2> QED
      BY <2>2, <2>3
  <1>7. TraceOfEach'
    BY <1>1, <1>6 DEF TraceOfEach
  <1>8. NoTraceWithout'
    <2>1. Parsed' = {} => Parsed = {} /\ WellFormed(Tokens)
      BY <1>5
    <2> QED
      BY <1>1, <2>1 DEF NoTraceWithout
  <1>9. PlacedSoFar'
    <2>1. InLists(levels', opened') = {}
      BY <1>1 DEF InLists, Place
    <2>2. InFile(file', cursor', opened') = {}
      BY <1>1 DEF InFile
    <2>3. Malformed' = {} => placed' = Before(file') /\ Before(file') = Before(file)'
      BY <1>1, SameFiles
    <2> QED
      BY <1>1, <2>1, <2>2, <2>3, SameFiles DEF PlacedSoFar
  <1> QED
    BY <1>3, <1>4, <1>7, <1>8, <1>9 DEF IInv

LEMMA AppendFacts ==
  ASSUME NEW S, NEW seq \in Seq(S), NEW x \in S
  PROVE  Append(seq, x) \in Seq(S) /\ Len(Append(seq, x)) = Len(seq) + 1
  OBVIOUS

LEMMA PositionsOf == ASSUME IInv, NEW c \in Nat PROVE <<file, c>> \in Positions /\ At(c) \in Positions
  BY FileFacts DEF Positions, At, NoSpan

LEMMA DefinitionKeeps == ASSUME IInv, Definition PROVE IInv'
  <1> DEFINE x == <<file, cursor>>
  <1>1. /\ phase # "lex" /\ phase # "end"
        /\ UNCHANGED <<files, file, phase, opened, placed, errors, reports, result>>
        /\ levels' = Collect(levels, cursor)
    BY DEF Definition, Parsing
  <1>2. /\ file \in 1..Len(files) /\ Len(Tokens) \in Nat /\ cursor \in Nat /\ cursor >= 1
        /\ opened \in Seq(Positions) /\ levels \in Seq(Seq(Positions)) /\ levels # <<>>
        /\ Len(levels) = Len(opened) + 1
    BY <1>1, FileFacts, ParsingFacts
  <1>3. /\ cursor' \in {cursor + 1, cursor + 2} /\ cursor' <= Len(Tokens) + 1
        /\ cursor' = cursor + 1 => Tokens[cursor] = "def"
        /\ cursor' = cursor + 2 => Tokens[cursor] = "const" /\ Tokens[cursor + 1] = "semi"
    <2>1. CASE Peek = "def" /\ cursor' = cursor + 1
      BY <1>2, <2>1 DEF Peek
    <2>2. CASE Peek = "const" /\ cursor < Len(Tokens) /\ Tokens[cursor + 1] = "semi" /\ cursor' = cursor + 2
      BY <1>2, <2>2 DEF Peek
    <2> QED
      BY <2>1, <2>2 DEF Definition
  <1>4. /\ levels' \in Seq(Seq(Positions)) /\ Len(levels') = Len(levels)
        /\ InLists(levels', opened) = InLists(levels, opened) \cup {<<x, ListParent(opened, Len(levels))>>}
    BY <1>1, <1>2, PositionsOf, InListsCollect
  <1>5. Tokens' = Tokens
    BY <1>1 DEF Tokens
  <1>6. TypeOK'
    <2>1. cursor' \in Nat \ {0} /\ Len(levels') = Len(opened') + 1
      BY <1>1, <1>2, <1>3, <1>4
    <2> QED
      BY <1>1, <1>4, <2>1 DEF IInv, TypeOK
  <1>7. Control'
    BY <1>1, <1>2, <1>3, <1>5 DEF IInv, Control
  <1>8. CleanSoFar => CleanSoFar'
    BY <1>1, <1>2, <1>3, <1>5, CleanDefinition DEF CleanSoFar
  <1>9. Malformed = {} => placed' \cup InLists(levels', opened') = Before(file) \cup InFile(file, cursor', opened')
    <2> SUFFICES ASSUME Malformed = {}
                 PROVE  placed \cup InLists(levels', opened) = Before(file) \cup InFile(file, cursor', opened)
      BY <1>1
    <2>1. Clean(files[file], file, cursor, opened)
      BY <1>1, ParsingFacts DEF CleanSoFar, Tokens
    <2>2. InFile(file, cursor', opened)
            = InFile(file, cursor, opened) \cup {<<x, ListParent(opened, Len(opened) + 1)>>}
      <3>1. files[file][cursor] \in {"def", "const"} /\ (cursor' = cursor + 2 => files[file][cursor + 1] = "semi")
        BY <1>3 DEF Tokens
      <3> QED
        <4> HIDE DEF x
        <4>1. /\ cursor \in Nat /\ cursor >= 1 /\ opened \in Seq(Positions)
              /\ cursor' \in {cursor + 1, cursor + 2}
          BY <1>2, <1>3
        <4>2. files[file][cursor] \in {"def", "const"}
          BY <3>1
        <4>3. ASSUME NEW e \in {cursor + 1, cursor + 2},
                     e = cursor + 2 => files[file][cursor + 1] = "semi"
              PROVE  InFile(file, e, opened)
                       = InFile(file, cursor, opened) \cup {<<<<file, cursor>>, ListParent(opened, Len(opened) + 1)>>}
          BY <2>1, <4>1, <4>2, <4>3, InFileDefinition
        <4> QED
          BY <3>1, <4>1, <4>3 DEF x
    <2>3. placed \cup InLists(levels, opened) = Before(file) \cup InFile(file, cursor, opened)
      BY DEF IInv, PlacedSoFar
    <2> HIDE DEF x
    <2> QED
      BY <1>2, <1>4, <2>2, <2>3
  <1> QED
    BY <1>1, <1>6, <1>7, <1>8, <1>9, StepInFile

LEMMA OpenNamespaceKeeps == ASSUME IInv, OpenNamespace PROVE IInv'
  <1> DEFINE x == <<file, cursor>>
  <1>1. /\ phase # "lex" /\ phase # "end"
        /\ UNCHANGED <<files, file, phase, placed, errors, reports, result>>
        /\ opened' = Append(opened, x) /\ levels' = Append(levels, <<>>) /\ cursor' = cursor + 1
    BY DEF OpenNamespace, Parsing, Push
  <1>2. /\ file \in 1..Len(files) /\ Len(Tokens) \in Nat /\ cursor \in Nat /\ cursor >= 1
        /\ opened \in Seq(Positions) /\ levels \in Seq(Seq(Positions)) /\ levels # <<>>
        /\ Len(levels) = Len(opened) + 1 /\ file \in Nat /\ x \in Positions
    BY <1>1, FileFacts, ParsingFacts, PositionsOf
  <1>3. Tokens[cursor] = "ns" /\ cursor <= Len(Tokens)
    BY <1>2 DEF OpenNamespace, Peek
  <1>4. Tokens' = Tokens
    BY <1>1 DEF Tokens
  <1>5. /\ levels' \in Seq(Seq(Positions)) /\ Len(levels') = Len(levels) + 1
        /\ opened' \in Seq(Positions) /\ Len(opened') = Len(opened) + 1
    <2>1. <<>> \in Seq(Positions)
      OBVIOUS
    <2> HIDE DEF x
    <2>2. levels' \in Seq(Seq(Positions)) /\ Len(levels') = Len(levels) + 1
      BY <1>1, <1>2, <2>1, AppendFacts
    <2>3. opened' \in Seq(Positions) /\ Len(opened') = Len(opened) + 1
      BY <1>1, <1>2
    <2> QED
      BY <2>2, <2>3
  <1>6. TypeOK'
    BY <1>1, <1>2, <1>5 DEF IInv, TypeOK
  <1>7. Control'
    BY <1>1, <1>2, <1>3, <1>4 DEF IInv, Control
  <1>8. CleanSoFar => CleanSoFar'
    BY <1>1, <1>2, <1>3, <1>4, CleanHead DEF CleanSoFar
  <1>9. placed' \cup InLists(levels', opened') = placed \cup InLists(levels, opened)
    BY <1>1, <1>2, InListsPush
  <1>10. InFile(file, cursor', opened') = InFile(file, cursor, opened)
    BY <1>1, <1>2, InFileHead
  <1> QED
    BY <1>1, <1>6, <1>7, <1>8, <1>9, <1>10, StepInFile DEF IInv, PlacedSoFar

LEMMA CloseNamespaceKeeps == ASSUME IInv, CloseNamespace PROVE IInv'
  <1> DEFINE c == Last(opened)[2]
             x == <<file, c>>
             lv2 == Pop(levels)
             o2 == Pop(opened)
  <1>1. /\ phase # "lex" /\ phase # "end" /\ opened # <<>>
        /\ UNCHANGED <<files, file, phase, errors, reports, result>>
        /\ placed' = placed \cup Place(Last(levels), Last(opened))
        /\ opened' = o2 /\ levels' = Collect(lv2, c) /\ cursor' = cursor + 1
    BY DEF CloseNamespace, Parsing
  <1>2. /\ file \in 1..Len(files) /\ Len(Tokens) \in Nat /\ cursor \in Nat /\ cursor >= 1
        /\ opened \in Seq(Positions) /\ levels \in Seq(Seq(Positions)) /\ levels # <<>>
        /\ Len(levels) = Len(opened) + 1 /\ file \in Nat
        /\ Len(opened) \in Nat /\ Len(opened) >= 1 /\ Last(opened) \in Positions
    <2>1. Len(opened) \in Nat /\ Len(opened) >= 1 /\ Last(opened) \in Positions
      BY <1>1, FileFacts DEF Last
    <2> QED
      BY <1>1, <2>1, FileFacts, ParsingFacts
  <1>3. Tokens[cursor] = "close" /\ cursor <= Len(Tokens)
    BY <1>2 DEF CloseNamespace, Peek
  <1>4. Tokens' = Tokens
    BY <1>1 DEF Tokens
  <1>5. /\ lv2 \in Seq(Seq(Positions)) /\ o2 \in Seq(Positions)
        /\ Len(lv2) = Len(opened) /\ Len(o2) = Len(opened) - 1 /\ lv2 # <<>>
        /\ InLists(levels, opened) = InLists(lv2, o2) \cup Place(Last(levels), Last(opened))
    BY <1>1, <1>2, InListsPop
  <1>6. x \in Positions
    BY <1>2 DEF Positions
  <1>7. /\ Collect(lv2, c) \in Seq(Seq(Positions))
        /\ Len(Collect(lv2, c)) = Len(lv2)
        /\ InLists(Collect(lv2, c), o2) = InLists(lv2, o2) \cup {<<x, ListParent(o2, Len(lv2))>>}
    <2> HIDE DEF lv2, o2, c
    <2> QED
      BY <1>5, <1>6, InListsCollect
  <1>8. placed' \subseteq Positions \X Positions
    <2>1. \A i \in 1..Len(Last(levels)) : Last(levels)[i] \in Positions
      <3>1. Last(levels) \in Seq(Positions)
        BY <1>2 DEF Last
      <3> QED
        BY <3>1
    <2>2. Place(Last(levels), Last(opened)) \subseteq Positions \X Positions
      BY <1>2, <2>1 DEF Place
    <2> QED
      BY <1>1, <2>2 DEF IInv, TypeOK
  <1> HIDE DEF c
  <1>9. TypeOK'
    <2> HIDE DEF lv2, o2
    <2>1. cursor' \in Nat \ {0}
      BY <1>1, <1>2
    <2>2. /\ levels' \in Seq(Seq(Positions)) /\ opened' \in Seq(Positions)
          /\ Len(levels') = Len(opened') + 1
      BY <1>1, <1>2, <1>5, <1>7
    <2> QED
      BY <1>1, <1>8, <2>1, <2>2 DEF IInv, TypeOK
  <1>10. Control'
    BY <1>1, <1>2, <1>3, <1>4 DEF IInv, Control
  <1>11. CleanSoFar => CleanSoFar'
    BY <1>1, <1>2, <1>3, <1>4, CleanClose DEF CleanSoFar
  <1>12. Malformed = {} => placed' \cup InLists(levels', opened') = Before(file) \cup InFile(file, cursor', opened')
    <2> SUFFICES ASSUME Malformed = {}
                 PROVE  placed' \cup InLists(levels', o2) = Before(file) \cup InFile(file, cursor + 1, o2)
      BY <1>1
    <2>1. Clean(files[file], file, cursor, opened)
      BY <1>1, ParsingFacts DEF CleanSoFar, Tokens
    <2>2. InFile(file, cursor + 1, o2) = InFile(file, cursor, opened) \cup {<<x, ListParent(o2, Len(o2) + 1)>>}
      <3>1. files[file][cursor] = "close"
        BY <1>3 DEF Tokens
      <3> QED
        BY <1>1, <1>2, <2>1, <3>1, InFileClose DEF c
    <2>3. placed \cup InLists(levels, opened) = Before(file) \cup InFile(file, cursor, opened)
      BY DEF IInv, PlacedSoFar
    <2>4. Len(o2) + 1 = Len(lv2)
      BY <1>2, <1>5
    <2> HIDE DEF x, lv2, o2
    <2> QED
      BY <1>1, <1>5, <1>7, <2>2, <2>3, <2>4
  <1> QED
    BY <1>1, <1>9, <1>10, <1>11, <1>12, StepInFile

\* An error leaves a trace, and none is found in a well-formed file.
LEMMA ErrorKeeps ==
  ASSUME IInv, phase \in {"first", "second"}, NEW c \in Nat, c >= 1, c <= Len(Tokens) + 1,
         ~(WellFormed(Tokens) /\ CleanSoFar), ErrorAt(c)
  PROVE  IInv'
  <1>1. /\ file \in 1..Len(files) /\ result = "run" /\ file <= Len(files)
        /\ ~(Parsed = {} /\ WellFormed(Tokens)) /\ Malformed # {}
    BY ParsingFacts, FileFacts
  <1>2. At(c) \in Positions /\ <<file, c>> \in Positions
    BY PositionsOf
  <1>3. Len(errors) \in Nat /\ Len(reports) \in Nat /\ Cardinality(Parsed) \in Nat
        /\ errors \in Seq(Positions) /\ reports \in Seq([during : Nat, at : Positions])
        /\ levels \in Seq(Seq(Positions)) /\ levels # <<>>
    BY FileFacts
  <1>4. Cardinality(Parsed) <= Traces
    BY DEF IInv, TraceOfEach
  <1>5. CASE phase = "first" /\ phase' = "second"
    <2>1. /\ errors' = Append(errors, At(c)) /\ reports' = reports /\ file' = file /\ files' = files
          /\ levels' = <<levels[1]>> /\ opened' = <<>> /\ cursor' = c
          /\ UNCHANGED <<placed, result>>
      BY <1>5 DEF ErrorAt
    <2>2. /\ Malformed' = Malformed /\ Parsed' = Parsed /\ Tokens' = Tokens
      BY <2>1, SameFiles DEF Parsed, Tokens
    <2>3. errors' \in Seq(Positions) /\ Len(errors') = Len(errors) + 1
      BY <1>2, <1>3, <2>1, AppendFacts
    <2>4. Traces' = Traces + 1
      BY <1>3, <2>1, <2>3 DEF Traces
    <2>5. levels' \in Seq(Seq(Positions)) /\ Len(levels') = 1 /\ opened' \in Seq(Positions) /\ Len(opened') = 0
      <3>1. levels[1] \in Seq(Positions)
        BY <1>3
      <3> QED
        BY <2>1, <3>1
    <2>6. TypeOK'
      BY <1>5, <2>1, <2>3, <2>5 DEF IInv, TypeOK
    <2>7. Control'
      BY <1>5, <2>1, <2>2 DEF IInv, Control
    <2>8. TraceOfEach'
      BY <1>3, <1>4, <2>2, <2>4 DEF TraceOfEach, Traces
    <2>9. NoTraceWithout' /\ PlacedSoFar'
      BY <1>1, <1>5, <2>2 DEF NoTraceWithout, PlacedSoFar
    <2> QED
      BY <2>6, <2>7, <2>8, <2>9 DEF IInv
  <1>6. CASE phase = "second" /\ Report(At(c)) /\ NextFile /\ UNCHANGED errors
    <2>1. UNCHANGED <<files, placed, result>> /\ reports' = Append(reports, [during |-> file, at |-> At(c)])
      BY <1>6 DEF ErrorAt, Report
    <2>2. reports' \in Seq([during : Nat, at : Positions]) /\ Len(reports') = Len(reports) + 1
      BY <1>1, <1>2, <1>3, <2>1, FileFacts, AppendFacts
    <2>3. Cardinality(Parsed) + 1 <= Traces'
      BY <1>3, <1>4, <1>6, <2>2 DEF Traces
    <2>4. errors' \in Seq(Positions) /\ placed' \subseteq Positions \X Positions
      BY <1>3, <1>6, <2>1 DEF IInv, TypeOK
    <2> QED
      BY <1>1, <1>6, <2>1, <2>2, <2>3, <2>4, StepToNextFile
  <1> QED
    BY <1>5, <1>6 DEF ErrorAt

\* What stands at the cursor of a clean text in a well-formed file.
LEMMA PeekFacts ==
  ASSUME IInv, phase # "lex", WellFormed(Tokens), CleanSoFar
  PROVE  /\ Peek \notin {"bad", "lexerr", "semi"}
         /\ Peek = "const" => cursor < Len(Tokens) /\ Tokens[cursor + 1] = "semi"
         /\ opened = <<>> => Peek # "close"
         /\ Peek = "eof" => opened = <<>>
  <1>1. /\ Tokens \in Seq(TokenKinds) /\ cursor \in Nat /\ cursor >= 1 /\ cursor <= Len(Tokens) + 1
        /\ Len(Tokens) \in Nat /\ opened \in Seq(Positions)
    BY ParsingFacts, FileFacts
  <1>2. /\ cursor <= Len(Tokens) => /\ Tokens[cursor] \notin {"bad", "lexerr", "semi"}
                                    /\ Tokens[cursor] = "const" => cursor < Len(Tokens) /\ Tokens[cursor + 1] = "semi"
        /\ cursor <= Len(Tokens) /\ opened = <<>> => Tokens[cursor] # "close"
        /\ cursor = Len(Tokens) + 1 => opened = <<>>
    BY <1>1, CleanGoesOn DEF CleanSoFar
  <1>3. cursor <= Len(Tokens) => Tokens[cursor] # "eof"
    <2>1. cursor <= Len(Tokens) => Tokens[cursor] \in TokenKinds
      BY <1>1
    <2> QED
      BY <2>1 DEF TokenKinds
  <1>4. cursor <= Len(Tokens) \/ cursor = Len(Tokens) + 1
    BY <1>1
  <1> QED
    BY <1>2, <1>3, <1>4 DEF Peek

\* Peek is the end of the file only behind its last token.
LEMMA EofIsTheEnd ==
  ASSUME IInv, phase # "lex", Peek = "eof"
  PROVE  cursor = Len(Tokens) + 1
  <1>1. /\ Tokens \in Seq(TokenKinds) /\ cursor \in Nat /\ cursor >= 1 /\ cursor <= Len(Tokens) + 1
        /\ Len(Tokens) \in Nat
    BY ParsingFacts, FileFacts
  <1>2. cursor <= Len(Tokens) => Tokens[cursor] \in TokenKinds
    BY <1>1
  <1> QED
    BY <1>1, <1>2 DEF Peek, TokenKinds

LEMMA MissingSemicolonKeeps == ASSUME IInv, MissingSemicolon PROVE IInv'
  <1>1. /\ phase \in {"first", "second"} /\ Peek = "const" /\ ErrorAt(cursor + 1)
        /\ cursor < Len(Tokens) => Tokens[cursor + 1] # "semi"
    BY DEF MissingSemicolon, Parsing
  <1>2. cursor \in Nat /\ cursor >= 1 /\ Len(Tokens) \in Nat /\ cursor <= Len(Tokens) + 1
    BY <1>1, FileFacts, ParsingFacts
  <1>3. cursor + 1 \in Nat /\ cursor + 1 >= 1 /\ cursor + 1 <= Len(Tokens) + 1
    BY <1>1, <1>2 DEF Peek
  <1>4. ~(WellFormed(Tokens) /\ CleanSoFar)
    BY <1>1, PeekFacts
  <1> QED
    BY <1>1, <1>3, <1>4, ErrorKeeps

LEMMA BrokenDefinitionKeeps == ASSUME IInv, BrokenDefinition PROVE IInv'
  <1>1. phase \in {"first", "second"} /\ Peek = "bad" /\ ErrorAt(cursor + 1)
    BY DEF BrokenDefinition, Parsing
  <1>2. cursor \in Nat /\ cursor >= 1 /\ Len(Tokens) \in Nat /\ cursor <= Len(Tokens) + 1
    BY <1>1, FileFacts, ParsingFacts
  <1>3. cursor + 1 \in Nat /\ cursor + 1 >= 1 /\ cursor + 1 <= Len(Tokens) + 1
    BY <1>1, <1>2 DEF Peek
  <1>4. ~(WellFormed(Tokens) /\ CleanSoFar)
    BY <1>1, PeekFacts
  <1> QED
    BY <1>1, <1>3, <1>4, ErrorKeeps

LEMMA PeekKinds ==
  ASSUME IInv, phase # "lex"
  PROVE  Peek \in TokenKinds \cup {"eof"}
  <1>1. Tokens \in Seq(TokenKinds) /\ cursor \in Nat /\ cursor >= 1 /\ Len(Tokens) \in Nat
    BY ParsingFacts, FileFacts
  <1>2. cursor <= Len(Tokens) => Tokens[cursor] \in TokenKinds
    BY <1>1
  <1> QED
    BY <1>2 DEF Peek

LEMMA UnclosedNamespaceKeeps == ASSUME IInv, UnclosedNamespace PROVE IInv'
  <1>1. /\ phase \in {"first", "second"} /\ opened # <<>> /\ ErrorAt(cursor)
        /\ Peek \notin Starts \cup {"close"}
    BY DEF UnclosedNamespace, Parsing
  <1>2. cursor \in Nat /\ cursor >= 1 /\ cursor <= Len(Tokens) + 1
    BY <1>1, FileFacts, ParsingFacts
  <1>3. ~(WellFormed(Tokens) /\ CleanSoFar)
    BY <1>1, PeekFacts, PeekKinds DEF TokenKinds, Starts
  <1> QED
    BY <1>1, <1>2, <1>3, ErrorKeeps

LEMMA NoDefinitionKeeps == ASSUME IInv, NoDefinition PROVE IInv'
  <1>1. /\ phase \in {"first", "second"} /\ phase' \in {"second", "end"}
        /\ opened = <<>> /\ Peek \notin Starts /\ result = "run"
        /\ UNCHANGED <<files, file, cursor, levels, opened, placed, errors, reports, result>>
    BY DEF NoDefinition, Parsing
  <1>2. Tokens' = Tokens /\ Peek' = Peek
    BY <1>1 DEF Tokens, Peek
  <1>3. TypeOK'
    BY <1>1 DEF IInv, TypeOK
  <1>4. Control'
    BY <1>1, <1>2 DEF IInv, Control
  <1>5. CleanSoFar' <=> CleanSoFar
    BY <1>1, <1>2 DEF CleanSoFar
  <1>6. Malformed = {} => placed' \cup InLists(levels', opened') = Before(file) \cup InFile(file, cursor', opened')
    BY <1>1 DEF IInv, PlacedSoFar
  <1> QED
    BY <1>1, <1>3, <1>4, <1>5, <1>6, StepInFile

LEMMA LexSucceedsKeeps == ASSUME IInv, LexSucceeds PROVE IInv'
  <1>1. /\ phase = "lex" /\ phase' = "first" /\ result = "run" /\ file <= Len(files)
        /\ UNCHANGED <<files, file, cursor, levels, opened, placed, errors, reports, result>>
        /\ cursor = 1 /\ opened = <<>>
    BY DEF LexSucceeds, IInv, Control
  <1>2. Tokens' = Tokens /\ Malformed' = Malformed /\ Parsed' = Parsed /\ Traces' = Traces
    BY <1>1, SameFiles DEF Tokens, Parsed, Traces
  <1>3. file \in 1..Len(files) /\ Tokens \in Seq(TokenKinds) /\ Len(Tokens) \in Nat
    <2>1. file \in 1..Len(files)
      BY <1>1, FileFacts
    <2> QED
      BY <2>1, FileFacts DEF Tokens
  <1>4. TypeOK'
    BY <1>1 DEF IInv, TypeOK
  <1>5. Control'
    BY <1>1, <1>2, <1>3 DEF IInv, Control
  <1>6. CleanSoFar'
    <2>1. Depth(Tokens, 1) = 0
      BY DepthStep
    <2>2. Clean(Tokens, file, 1, <<>>)
      <3>1. 1..1 - 1 = {} /\ Len(<<>>) = 0 /\ 1..0 = {}
        OBVIOUS
      <3>2. \A i \in 1..1 : Depth(Tokens, i) >= 0
        BY <2>1
      <3> QED
        BY <2>1, <3>1, <3>2 DEF Clean
    <2> QED
      BY <1>1, <1>2, <2>2 DEF CleanSoFar
  <1>7. TraceOfEach' /\ NoTraceWithout'
    BY <1>1, <1>2, <1>6 DEF IInv, TraceOfEach, NoTraceWithout
  <1>8. PlacedSoFar'
    BY <1>1, <1>2, SameFiles DEF IInv, PlacedSoFar
  <1> QED
    BY <1>4, <1>5, <1>7, <1>8 DEF IInv

\* A report of the file that is being parsed.
LEMMA ReportKeeps ==
  ASSUME IInv, result = "run", file <= Len(files), NextFile, UNCHANGED <<files, placed, result>>,
         NEW at \in Positions, Report(at),
         errors' \in Seq(Positions), Len(errors') >= Len(errors),
         ~(Parsed = {} /\ WellFormed(Tokens)), Malformed # {}
  PROVE  IInv'
  <1>1. reports' = Append(reports, [during |-> file, at |-> at])
    BY DEF Report
  <1>2. reports' \in Seq([during : Nat, at : Positions]) /\ Len(reports') = Len(reports) + 1
    BY <1>1, FileFacts, AppendFacts
  <1>3. Cardinality(Parsed) + 1 <= Traces'
    <2>1. Len(errors') \in Nat /\ Len(errors) \in Nat /\ Len(reports) \in Nat /\ Cardinality(Parsed) \in Nat
          /\ Cardinality(Parsed) <= Traces
      BY FileFacts DEF IInv, TraceOfEach
    <2> QED
      BY <1>2, <2>1 DEF Traces
  <1>4. placed' \subseteq Positions \X Positions
    BY DEF IInv, TypeOK
  <1> QED
    BY <1>2, <1>3, <1>4, StepToNextFile

LEMMA LexFailsKeeps == ASSUME IInv, LexFails PROVE IInv'
  <1>1. /\ result = "run" /\ file <= Len(files) /\ Tokens = <<"lexerr">> /\ Report(NoSpan) /\ NextFile
        /\ UNCHANGED <<files, placed, errors, result>>
    BY DEF LexFails
  <1>2. ~WellFormed(Tokens)
    <2>1. 1 \in 1..Len(Tokens) /\ Tokens[1] = "lexerr"
      BY <1>1
    <2> QED
      BY <2>1 DEF WellFormed
  <1>3. file \in Malformed
    <2>1. file \in 1..Len(files)
      BY <1>1, FileFacts
    <2> QED
      BY <1>2, <2>1, Zenon DEF Malformed, Tokens
  <1>4. NoSpan \in Positions /\ errors' \in Seq(Positions) /\ Len(errors') >= Len(errors)
    BY <1>1, FileFacts DEF NoSpan, Positions
  <1> QED
    BY <1>1, <1>2, <1>3, <1>4, ReportKeeps

LEMMA TrailingTokenKeeps == ASSUME IInv, TrailingToken PROVE IInv'
  <1>1. /\ phase = "end" /\ Peek # "eof" /\ NextFile /\ UNCHANGED <<files, placed, result>>
        /\ opened = <<>> /\ Peek \notin Starts
    BY DEF TrailingToken, IInv, Control
  <1>2. result = "run" /\ file <= Len(files) /\ cursor \in Nat /\ errors \in Seq(Positions) /\ Len(errors) \in Nat
    BY <1>1, ParsingFacts, FileFacts
  <1>3. ~(WellFormed(Tokens) /\ CleanSoFar)
    BY <1>1, PeekFacts, PeekKinds DEF TokenKinds, Starts
  <1>4. ~(Parsed = {} /\ WellFormed(Tokens)) /\ Malformed # {}
    BY <1>1, <1>3, ParsingFacts
  <1>5. At(cursor) \in Positions
    BY <1>2, PositionsOf
  <1>6. CASE errors = <<>> /\ errors' = Append(errors, At(cursor)) /\ Report(At(cursor))
    <2>1. errors' \in Seq(Positions) /\ Len(errors') >= Len(errors)
      BY <1>2, <1>5, <1>6
    <2> QED
      BY <1>1, <1>2, <1>4, <1>5, <1>6, <2>1, ReportKeeps
  <1>7. CASE errors # <<>> /\ Report(Last(errors)) /\ UNCHANGED errors
    <2>1. Last(errors) \in Positions /\ errors' \in Seq(Positions) /\ Len(errors') >= Len(errors)
      BY <1>2, <1>7 DEF Last
    <2> QED
      BY <1>1, <1>2, <1>4, <1>7, <2>1, ReportKeeps
  <1> QED
    BY <1>6, <1>7 DEF TrailingToken

LEMMA ExtendRootKeeps == ASSUME IInv, ExtendRoot PROVE IInv'
  <1>1. /\ phase = "end" /\ Peek = "eof" /\ NextFile /\ UNCHANGED <<files, errors, reports, result>>
        /\ placed' = placed \cup Place(levels[1], Root)
        /\ opened = <<>>
    BY DEF ExtendRoot, IInv, Control
  <1>2. /\ result = "run" /\ file <= Len(files) /\ file \in Nat /\ file >= 1 /\ Tokens \in Seq(TokenKinds)
        /\ errors \in Seq(Positions) /\ reports \in Seq([during : Nat, at : Positions])
        /\ levels \in Seq(Seq(Positions)) /\ levels # <<>> /\ Len(levels) = 1
        /\ Len(errors) \in Nat /\ Len(reports) \in Nat /\ Cardinality(Parsed) \in Nat
    BY <1>1, ParsingFacts, FileFacts
  <1>3. cursor = Len(Tokens) + 1
    BY <1>1, EofIsTheEnd
  <1>4. CleanSoFar => WellFormed(Tokens)
    BY <1>1, <1>2, <1>3, CleanToTheEnd DEF CleanSoFar
  <1>5. \/ Cardinality(Parsed) + 1 <= Traces'
        \/ WellFormed(Tokens) /\ Cardinality(Parsed) <= Traces'
    BY <1>1, <1>4 DEF IInv, TraceOfEach, Traces
  <1>6. Parsed = {} /\ WellFormed(Tokens) => errors' = <<>> /\ reports' = <<>>
    BY <1>1 DEF IInv, NoTraceWithout
  <1>7. placed' \subseteq Positions \X Positions
    <2>1. levels[1] \in Seq(Positions) /\ Root \in Positions
      BY <1>2 DEF Root, Positions
    <2>2. \A i \in 1..Len(levels[1]) : levels[1][i] \in Positions
      BY <2>1
    <2> QED
      BY <1>1, <2>1, <2>2 DEF Place, IInv, TypeOK
  <1>8. Malformed = {} => placed' = Before(file + 1)
    <2> SUFFICES ASSUME Malformed = {} PROVE placed' = Before(file + 1)
      OBVIOUS
    <2>1. placed \cup InLists(levels, opened) = Before(file) \cup InFile(file, cursor, opened)
      BY DEF IInv, PlacedSoFar
    <2>2. InLists(levels, opened) = Place(levels[1], Root)
      <3>1. 1..Len(levels) = {1}
        BY <1>2
      <3> QED
        BY <3>1 DEF InLists, ListParent
    <2>3. Before(file + 1) = Before(file) \cup InFile(file, cursor, opened)
      BY <1>1, <1>2, <1>3, BeforeNext DEF Tokens
    <2> QED
      BY <1>1, <2>1, <2>2, <2>3
  <1> QED
    BY <1>1, <1>2, <1>5, <1>6, <1>7, <1>8, StepToNextFile

LEMMA StayKeeps ==
  ASSUME IInv, UNCHANGED <<files, file, phase, cursor, levels, opened, placed, errors, reports>>, TypeOK', Control'
  PROVE  IInv'
  <1>1. Tokens' = Tokens /\ Malformed' = Malformed /\ Parsed' = Parsed /\ Traces' = Traces
    BY SameFiles DEF Tokens, Parsed, Traces
  <1>2. CleanSoFar' <=> CleanSoFar
    BY <1>1 DEF CleanSoFar
  <1>3. TraceOfEach' /\ NoTraceWithout'
    BY <1>1, <1>2 DEF IInv, TraceOfEach, NoTraceWithout
  <1>4. PlacedSoFar'
    BY <1>1, SameFiles DEF IInv, PlacedSoFar
  <1> QED
    BY <1>3, <1>4 DEF IInv

LEMMA TypecheckKeeps == ASSUME IInv, Typecheck PROVE IInv'
  <1>1. /\ UNCHANGED <<files, file, phase, cursor, levels, opened, placed, errors, reports>>
        /\ file > Len(files) /\ result' = IF reports = <<>> THEN "typing" ELSE "failed"
    BY DEF Typecheck
  <1>2. TypeOK'
    BY <1>1 DEF IInv, TypeOK
  <1>3. Control'
    <2>1. Tokens' = Tokens /\ Peek' = Peek
      BY <1>1 DEF Tokens, Peek
    <2>2. phase = "lex" /\ file = Len(files) + 1
      BY <1>1, FileFacts DEF IInv, Control
    <2> QED
      BY <1>1, <2>1, <2>2 DEF IInv, Control
  <1> QED
    BY <1>1, <1>2, <1>3, StayKeeps

LEMMA NextKeepsIInv == IInv /\ [Next]_vars => IInv'
  <1> SUFFICES ASSUME IInv, [Next]_vars PROVE IInv'
    OBVIOUS
  <1>1. CASE UNCHANGED vars
    <2>1. TypeOK'
      BY <1>1 DEF IInv, TypeOK, vars
    <2>2. Control'
      BY <1>1 DEF IInv, Control, Tokens, Peek, vars
    <2> QED
      BY <1>1, <2>1, <2>2, StayKeeps DEF vars
  <1>2. CASE Work
    BY <1>2, LexFailsKeeps, LexSucceedsKeeps, TypecheckKeeps, DefinitionKeeps, OpenNamespaceKeeps,
       CloseNamespaceKeeps, MissingSemicolonKeeps, BrokenDefinitionKeeps, UnclosedNamespaceKeeps,
       NoDefinitionKeeps, TrailingTokenKeeps, ExtendRootKeeps DEF Work
  <1> QED
    BY <1>1, <1>2 DEF Next, Finished

THEOREM Inductive == Spec => []IInv
  BY InitIInv, NextKeepsIInv, PTL DEF Spec

-----------------------------------------------------------------------------
\* The loops of compile_module and parse_module keep the types of their state;
\* there is a list of definitions for each open namespace and one for the file.
THEOREM TypeCorrect == Spec => []TypeOK
  <1>1. IInv => TypeOK
    BY DEF IInv
  <1> QED
    BY <1>1, Inductive, PTL

\* No malformed file goes unnoticed, whatever files come before and after it, and
\* no well-formed file is blamed.
THEOREM Traced == Spec => []MalformedFilesLeaveATrace
  <1>1. IInv => MalformedFilesLeaveATrace
    BY DEF IInv, TraceOfEach, NoTraceWithout, Parsed, Traces, MalformedFilesLeaveATrace
  <1> QED
    BY <1>1, Inductive, PTL

\* Well-formed files are type checked with each definition in its namespace, how
\* deep it may be nested and however the files follow each other.
THEOREM InTheirScope == Spec => []DefinitionsInTheirScope
  <1>1. IInv => DefinitionsInTheirScope
    <2> SUFFICES ASSUME IInv, result # "run", Malformed = {}
                 PROVE  result = "typing" /\ placed = Definitions
      BY DEF DefinitionsInTheirScope
    <2>1. file = Len(files) + 1 /\ phase = "lex" /\ cursor = 1 /\ levels = <<<<>>>> /\ opened = <<>>
      BY DEF IInv, Control
    <2>2. Parsed = {}
      BY DEF Parsed
    <2>3. result = "typing"
      BY <2>1, <2>2 DEF IInv, NoTraceWithout, Control
    <2>4. InLists(levels, opened) = {}
      BY <2>1 DEF InLists, Place
    <2>5. InFile(file, cursor, opened) = {}
      BY <2>1 DEF InFile
    <2>6. placed = Before(file)
      BY <2>4, <2>5 DEF IInv, PlacedSoFar
    <2>7. Before(file) = Definitions
      <3>1. (Len(files) + 1) - 1 = Len(files)
        BY FileFacts
      <3> QED
        BY <2>1, <3>1 DEF Before, Definitions, DefinitionStarts
    <2> QED
      BY <2>3, <2>6, <2>7
  <1> QED
    BY <1>1, Inductive, PTL
=============================================================================
