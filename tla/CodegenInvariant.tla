-------------------------- MODULE CodegenInvariant --------------------------
(***************************************************************************)
(* What the code generator keeps while it generates a function: the blocks *)
(* it has made are such that the verifier will accept them, and its tasks, *)
(* values and variables fit together, as the type checker's types say.     *)
(* Here are this invariant, what adding an instruction or a block does to  *)
(* it, and the steps after which the builder is where it was.              *)
(***************************************************************************)
EXTENDS Codegen, SequenceTheorems, FiniteSetTheorems, WellFoundedInduction, TLAPS

-----------------------------------------------------------------------------
(* Sequences.                                                                *)

Elements(s) == {s[i] : i \in 1..Len(s)}
IsSeq(s) == s \in Seq(Elements(s))

\* What is in a set of sequences is a sequence.
LEMMA SeqIn ==
  ASSUME NEW S, NEW s \in Seq(S)
  PROVE  IsSeq(s) /\ Len(s) \in Nat /\ DOMAIN s = 1..Len(s)
  <1>1. Len(s) \in Nat /\ DOMAIN s = 1..Len(s) /\ s \in [1..Len(s) -> S]
    BY LenProperties
  <1>2. s \in [1..Len(s) -> Elements(s)]
    BY <1>1 DEF Elements
  <1> QED
    BY <1>1, <1>2 DEF IsSeq

LEMMA SeqFacts ==
  ASSUME NEW s, IsSeq(s)
  PROVE  Len(s) \in Nat /\ DOMAIN s = 1..Len(s)
  BY SeqIn DEF IsSeq

\* Functions on 1..n are sequences.
LEMMA SeqByIndex ==
  ASSUME NEW n \in Nat, NEW s, DOMAIN s = 1..n, s = [i \in 1..n |-> s[i]]
  PROVE  IsSeq(s) /\ Len(s) = n
  <1>1. s \in [1..n -> {s[i] : i \in 1..n}]
    OBVIOUS
  <1>2. s \in Seq({s[i] : i \in 1..n}) /\ Len(s) = n
    BY <1>1
  <1> QED
    BY <1>2 DEF IsSeq, Elements

\* Sequences that agree everywhere are the same.
LEMMA SeqSame ==
  ASSUME NEW s, NEW t, IsSeq(s), IsSeq(t), Len(s) = Len(t), \A i \in 1..Len(s) : s[i] = t[i]
  PROVE  s = t
  <1> DEFINE S == Elements(s) \cup Elements(t)
  <1>1. s \in Seq(S) /\ t \in Seq(S)
    BY SeqMonotonic DEF IsSeq
  <1> HIDE DEF S
  <1> QED
    BY <1>1, SeqEqual

LEMMA SeqCat ==
  ASSUME NEW s, NEW t, IsSeq(s), IsSeq(t)
  PROVE  /\ IsSeq(s \o t) /\ Len(s \o t) = Len(s) + Len(t)
         /\ \A i \in 1..Len(s) : (s \o t)[i] = s[i]
         /\ \A i \in 1..Len(t) : (s \o t)[Len(s) + i] = t[i]
  <1> DEFINE S == Elements(s) \cup Elements(t)
  <1>1. s \in Seq(S) /\ t \in Seq(S)
    BY SeqMonotonic DEF IsSeq
  <1> HIDE DEF S
  <1>2. Len(s) \in Nat /\ Len(t) \in Nat
    BY SeqFacts
  <1>3. /\ s \o t \in Seq(S) /\ Len(s \o t) = Len(s) + Len(t)
        /\ \A i \in 1..Len(s) + Len(t) : (s \o t)[i] = IF i <= Len(s) THEN s[i] ELSE t[i - Len(s)]
    BY <1>1, ConcatProperties
  <1>4. IsSeq(s \o t)
    BY <1>3, SeqIn
  <1>5. ASSUME NEW i \in 1..Len(t) PROVE (s \o t)[Len(s) + i] = t[i]
    <2>1. Len(s) + i \in 1..Len(s) + Len(t) /\ ~(Len(s) + i <= Len(s)) /\ Len(s) + i - Len(s) = i
      BY <1>2
    <2> QED
      BY <1>3, <2>1
  <1>6. ASSUME NEW i \in 1..Len(s) PROVE (s \o t)[i] = s[i]
    <2>1. i \in 1..Len(s) + Len(t) /\ i <= Len(s)
      BY <1>2
    <2> QED
      BY <1>3, <2>1
  <1> QED
    BY <1>3, <1>4, <1>5, <1>6

\* The sequence without its first n elements.
LEMMA SeqDrop ==
  ASSUME NEW s, IsSeq(s), NEW n \in 0..Len(s)
  PROVE  LET t == SubSeq(s, n + 1, Len(s))
         IN IsSeq(t) /\ Len(t) = Len(s) - n /\ \A i \in 1..Len(t) : t[i] = s[n + i]
  <1> DEFINE t == SubSeq(s, n + 1, Len(s))
  <1>1. Len(s) \in Nat
    BY SeqFacts
  <1>2. \A i \in n + 1..Len(s) : s[i] \in Elements(s)
    BY <1>1 DEF Elements
  <1>3. n + 1 \in Int /\ Len(s) \in Int
    BY <1>1
  <1> HIDE DEF t
  <1>4. /\ t \in Seq(Elements(s))
        /\ Len(t) = IF n + 1 <= Len(s) THEN Len(s) - (n + 1) + 1 ELSE 0
        /\ \A i \in 1..Len(s) - (n + 1) + 1 : t[i] = s[n + 1 + i - 1]
    BY <1>2, <1>3, SubSeqProperties DEF t
  <1>5. Len(t) = Len(s) - n
    BY <1>1, <1>4
  <1>6. ASSUME NEW i \in 1..Len(t) PROVE t[i] = s[n + i]
    <2>1. i \in 1..Len(s) - (n + 1) + 1 /\ n + 1 + i - 1 = n + i
      BY <1>1, <1>5
    <2> QED
      BY <1>4, <2>1
  <1> QED
    BY <1>4, <1>5, <1>6, SeqIn DEF t

LEMMA SeqTail ==
  ASSUME NEW s, IsSeq(s), s # <<>>
  PROVE  /\ IsSeq(Tail(s)) /\ Len(Tail(s)) = Len(s) - 1 /\ Len(s) \in Nat \ {0}
         /\ \A i \in 1..Len(s) - 1 : Tail(s)[i] = s[i + 1]
  <1>1. s \in Seq(Elements(s))
    BY DEF IsSeq
  <1>2. Len(s) \in Nat \ {0}
    BY <1>1, EmptySeq
  <1>3. /\ Tail(s) \in Seq(Elements(s)) /\ Len(Tail(s)) = Len(s) - 1
        /\ \A i \in 1..Len(Tail(s)) : Tail(s)[i] = s[i + 1]
    BY <1>1, HeadTailProperties
  <1> QED
    BY <1>2, <1>3, SeqIn

LEMMA SeqAppend ==
  ASSUME NEW s, IsSeq(s), NEW e
  PROVE  /\ IsSeq(Append(s, e)) /\ Len(Append(s, e)) = Len(s) + 1 /\ Len(s) \in Nat
         /\ \A i \in 1..Len(s) : Append(s, e)[i] = s[i]
         /\ Append(s, e)[Len(s) + 1] = e
  <1> DEFINE S == Elements(s) \cup {e}
  <1>1. s \in Seq(S) /\ e \in S
    BY SeqMonotonic DEF IsSeq
  <1> HIDE DEF S
  <1>2. Append(s, e) \in Seq(S)
    BY <1>1, AppendProperties
  <1>3. /\ Len(Append(s, e)) = Len(s) + 1
        /\ \A i \in 1..Len(s) : Append(s, e)[i] = s[i]
        /\ Append(s, e)[Len(s) + 1] = e
    BY <1>1, AppendProperties
  <1> QED
    BY <1>2, <1>3, SeqIn, SeqFacts

LEMMA SeqNone == IsSeq(<<>>) /\ Len(<<>>) = 0 /\ \A s : IsSeq(s) => (Len(s) = 0 <=> s = <<>>)
  <1>1. <<>> \in Seq({}) /\ Len(<<>>) = 0
    BY EmptySeq
  <1>2. IsSeq(<<>>)
    BY <1>1, SeqIn
  <1>3. ASSUME NEW s, IsSeq(s), Len(s) = 0 PROVE s = <<>>
    BY <1>1, <1>2, <1>3, SeqSame
  <1> QED
    BY <1>1, <1>2, <1>3

LEMMA SeqOne == \A e : IsSeq(<<e>>) /\ Len(<<e>>) = 1 /\ <<e>>[1] = e /\ <<e>> # <<>>
  <1> TAKE e
  <1>1. <<e>> \in Seq({e}) /\ Len(<<e>>) = 1 /\ <<e>>[1] = e
    OBVIOUS
  <1> QED
    BY <1>1, SeqIn, SeqNone

LEMMA SeqTwo == \A d, e : IsSeq(<<d, e>>) /\ Len(<<d, e>>) = 2 /\ <<d, e>>[1] = d /\ <<d, e>>[2] = e
  <1> TAKE d, e
  <1>1. <<d, e>> \in Seq({d, e}) /\ Len(<<d, e>>) = 2 /\ <<d, e>>[1] = d /\ <<d, e>>[2] = e
    OBVIOUS
  <1> QED
    BY <1>1, SeqIn

Swapped(s, n, with) == with \o SubSeq(s, n + 1, Len(s))

\* What a task does to a stack: the uppermost n give way to others.
LEMMA Replaced ==
  ASSUME NEW s, IsSeq(s), NEW n \in Nat, n <= Len(s), NEW with, IsSeq(with)
  PROVE  LET t == Swapped(s, n, with)
         IN /\ IsSeq(t) /\ Len(t) = Len(with) + Len(s) - n
            /\ \A i \in 1..Len(with) : t[i] = with[i]
            /\ \A i \in 1..Len(s) - n : t[Len(with) + i] = s[n + i]
  <1> DEFINE d == SubSeq(s, n + 1, Len(s))
  <1>1. IsSeq(d) /\ Len(d) = Len(s) - n /\ \A i \in 1..Len(d) : d[i] = s[n + i]
    <2>1. n \in 0..Len(s)
      BY SeqFacts
    <2> QED
      BY <2>1, SeqDrop
  <1>2. Len(s) \in Nat /\ Len(with) \in Nat
    BY SeqFacts
  <1> HIDE DEF d
  <1>3. /\ IsSeq(with \o d) /\ Len(with \o d) = Len(with) + Len(d)
        /\ \A i \in 1..Len(with) : (with \o d)[i] = with[i]
        /\ \A i \in 1..Len(d) : (with \o d)[Len(with) + i] = d[i]
    <2>1. IsSeq(with) /\ IsSeq(d)
      BY <1>1
    <2> QED
      BY ONLY <2>1, SeqCat
  <1>4. Len(with \o d) = Len(with) + Len(s) - n
    BY <1>1, <1>2, <1>3
  <1> QED
    BY <1>1, <1>3, <1>4 DEF d, Swapped

-----------------------------------------------------------------------------
(* The ways from block to block.                                             *)

LEMMA LeastNat ==
  ASSUME NEW S \in SUBSET Nat, S # {}
  PROVE  \E m \in S : \A n \in S : m <= n
  <1>1. IsWellFoundedOn({ss \in Nat \X Nat : ss[1] < ss[2]}, Nat)
    BY NatLessThanWellFounded DEF OpToRel
  <1>2. PICK m \in S : \A n \in S : ~(<<n, m>> \in {ss \in Nat \X Nat : ss[1] < ss[2]})
    BY <1>1, WFMin
  <1>3. ASSUME NEW n \in S PROVE m <= n
    <2>1. n \in Nat /\ m \in Nat
      OBVIOUS
    <2>2. n < m => <<n, m>> \in {ss \in Nat \X Nat : ss[1] < ss[2]}
      BY <2>1
    <2> QED
      BY <1>2, <2>1, <2>2
  <1> QED
    BY <1>3

\* A block that has its terminator.
Closed(bs, b) == bs[b].code # <<>> /\ IsTerminator(bs[b].code[Len(bs[b].code)])

\* The blocks after and before a block.
Follow(bs, b) == IF Closed(bs, b) THEN Elements(bs[b].code[Len(bs[b].code)].to) ELSE {}
Into(bs, b) == {c \in 1..Len(bs) : b \in Follow(bs, c)}
EntryOf(bs, f) ==
  CHOOSE b \in 1..Len(bs) : bs[b].function = f /\ \A c \in 1..Len(bs) : bs[c].function = f => b <= c
EdgesInside(bs) ==
  \A c \in 1..Len(bs) : \A d \in Follow(bs, c) : d \in 1..Len(bs) /\ bs[d].function = bs[c].function

\* Blocks R of a function that are not left but for p, with the entry among
\* them, and without b.
Separates(bs, R, p, b) ==
  /\ \A c \in R : c \in 1..Len(bs) /\ bs[c].function = bs[b].function /\ Follow(bs, c) \subseteq R \cup {p}
  /\ EntryOf(bs, bs[b].function) \in R \cup {p}
  /\ p \notin R /\ b \notin R

\* Every way from the entry to b comes through p.
Dom(bs, p, b) ==
  p = b \/ (bs[p].function = bs[b].function /\ \E R \in SUBSET (1..Len(bs)) : Separates(bs, R, p, b))

LEMMA EntryExists ==
  ASSUME NEW bs, Len(bs) \in Nat, NEW b \in 1..Len(bs)
  PROVE  LET e == EntryOf(bs, bs[b].function)
         IN /\ e \in 1..Len(bs) /\ bs[e].function = bs[b].function
            /\ \A c \in 1..Len(bs) : bs[c].function = bs[b].function => e <= c
  <1> DEFINE f == bs[b].function
             S == {c \in 1..Len(bs) : bs[c].function = f}
  <1>1. S \in SUBSET Nat /\ S # {}
    OBVIOUS
  <1>2. PICK e \in S : \A c \in S : e <= c
    BY <1>1, LeastNat
  <1>3. e \in 1..Len(bs) /\ bs[e].function = f /\ \A c \in 1..Len(bs) : bs[c].function = f => e <= c
    BY <1>2
  <1> QED
    BY <1>3 DEF EntryOf

\* Blocks are only added behind the others.
LEMMA EntryStays ==
  ASSUME NEW bs, NEW bt, Len(bs) \in Nat, Len(bt) \in Nat, Len(bs) <= Len(bt),
         \A c \in 1..Len(bs) : bt[c].function = bs[c].function, NEW b \in 1..Len(bs)
  PROVE  EntryOf(bt, bs[b].function) = EntryOf(bs, bs[b].function)
  <1> DEFINE f == bs[b].function
             e == EntryOf(bs, f)
             d == EntryOf(bt, f)
  <1>1. b \in 1..Len(bt) /\ bt[b].function = f
    OBVIOUS
  <1>2. e \in 1..Len(bs) /\ bs[e].function = f /\ \A c \in 1..Len(bs) : bs[c].function = f => e <= c
    BY EntryExists
  <1>3. d \in 1..Len(bt) /\ bt[d].function = f /\ \A c \in 1..Len(bt) : bt[c].function = f => d <= c
    BY <1>1, EntryExists
  <1> HIDE DEF e, d
  <1>4. d <= e
    <2>1. e \in 1..Len(bt) /\ bt[e].function = f
      BY <1>2
    <2> QED
      BY <1>3, <2>1
  <1>5. d \in 1..Len(bs) /\ bs[d].function = f
    BY <1>2, <1>3, <1>4
  <1>6. e <= d
    BY <1>2, <1>5
  <1>7. d = e
    BY <1>2, <1>3, <1>4, <1>6
  <1> QED
    BY <1>7 DEF e, d

\* More blocks, and more ways from a: to T.
Grows(bs, bt, a, T) ==
  /\ Len(bs) \in Nat /\ Len(bt) \in Nat /\ Len(bs) <= Len(bt) /\ a \in 1..Len(bs)
  /\ \A c \in 1..Len(bs) : bt[c].function = bs[c].function
  /\ \A c \in 1..Len(bs) : c # a => Follow(bt, c) = Follow(bs, c)
  /\ Follow(bt, a) = Follow(bs, a) \cup T
  /\ \A c \in 1..Len(bt) : c \notin 1..Len(bs) => Follow(bt, c) = {}

\* A set of blocks that still separates does so with the new ways.
LEMMA StillSeparates ==
  ASSUME NEW bs, NEW bt, NEW a, NEW T, Grows(bs, bt, a, T),
         NEW R, NEW p, NEW b \in 1..Len(bs), Separates(bs, R, p, b), a \in R => T \subseteq R \cup {p}
  PROVE  Separates(bt, R, p, b)
  <1>1. EntryOf(bt, bt[b].function) = EntryOf(bs, bs[b].function)
    BY EntryStays DEF Grows
  <1>2. ASSUME NEW c \in R
        PROVE  c \in 1..Len(bt) /\ bt[c].function = bt[b].function /\ Follow(bt, c) \subseteq R \cup {p}
    <2>1. c \in 1..Len(bs) /\ bs[c].function = bs[b].function /\ Follow(bs, c) \subseteq R \cup {p}
      BY DEF Separates
    <2>2. Follow(bt, c) \subseteq R \cup {p}
      BY <2>1 DEF Grows
    <2> QED
      BY <2>1, <2>2 DEF Grows
  <1> QED
    BY <1>1, <1>2 DEF Separates

\* What every way to b and every way to a comes through, every way to b comes
\* through still.
LEMMA DomByBoth ==
  ASSUME NEW bs, NEW bt, NEW a, NEW T, Grows(bs, bt, a, T),
         NEW p \in 1..Len(bs), NEW b \in 1..Len(bs), Dom(bs, p, b), Dom(bs, p, a)
  PROVE  Dom(bt, p, b)
  <1>0. SUFFICES ASSUME p # b PROVE Dom(bt, p, b)
    BY DEF Dom
  <1>1. PICK R \in SUBSET (1..Len(bs)) : Separates(bs, R, p, b)
    BY <1>0 DEF Dom
  <1>2. \E Q \in SUBSET (1..Len(bs)) : Separates(bs, Q, p, b) /\ a \notin Q
    <2>1. CASE p = a
      BY <1>1, <2>1 DEF Separates
    <2>2. CASE p # a
      <3>1. PICK Q \in SUBSET (1..Len(bs)) : Separates(bs, Q, p, a)
        BY <2>2 DEF Dom
      <3>2. bs[p].function = bs[a].function /\ bs[p].function = bs[b].function
        BY <1>0, <2>2 DEF Dom
      <3>3. Separates(bs, R \cap Q, p, b) /\ a \notin R \cap Q
        BY <1>1, <3>1, <3>2 DEF Separates
      <3> QED
        BY <3>3
    <2> QED
      BY <2>1, <2>2
  <1>3. PICK Q \in SUBSET (1..Len(bs)) : Separates(bs, Q, p, b) /\ a \notin Q
    BY <1>2
  <1>4. Separates(bt, Q, p, b)
    BY <1>3, StillSeparates
  <1>5. Q \in SUBSET (1..Len(bt)) /\ bt[p].function = bt[b].function
    BY <1>0 DEF Grows, Dom
  <1> QED
    BY <1>4, <1>5 DEF Dom

\* New ways elsewhere do not matter.
LEMMA DomElsewhere ==
  ASSUME NEW bs, NEW bt, NEW a, NEW T, Grows(bs, bt, a, T),
         NEW p \in 1..Len(bs), NEW b \in 1..Len(bs), Dom(bs, p, b), bs[b].function # bs[a].function
  PROVE  Dom(bt, p, b)
  <1>0. SUFFICES ASSUME p # b PROVE Dom(bt, p, b)
    BY DEF Dom
  <1>1. PICK R \in SUBSET (1..Len(bs)) : Separates(bs, R, p, b)
    BY <1>0 DEF Dom
  <1>2. a \notin R
    BY <1>1 DEF Separates
  <1>3. Separates(bt, R, p, b)
    BY <1>1, <1>2, StillSeparates
  <1>4. R \in SUBSET (1..Len(bt)) /\ bt[p].function = bt[b].function
    BY <1>0 DEF Grows, Dom
  <1> QED
    BY <1>3, <1>4 DEF Dom

\* Nor do new ways to blocks from which none leads on.
LEMMA DomToEnds ==
  ASSUME NEW bs, NEW bt, NEW a, NEW T, Grows(bs, bt, a, T),
         \A t \in T : t \in 1..Len(bs) /\ bs[t].function = bs[a].function /\ Follow(bs, t) = {} /\ t # a,
         NEW p \in 1..Len(bs), NEW b \in 1..Len(bs), Dom(bs, p, b), p \notin T, b \notin T
  PROVE  Dom(bt, p, b)
  <1>0. SUFFICES ASSUME p # b PROVE Dom(bt, p, b)
    BY DEF Dom
  <1>1. PICK R \in SUBSET (1..Len(bs)) : Separates(bs, R, p, b)
    BY <1>0 DEF Dom
  <1> DEFINE Q == IF a \in R THEN R \cup T ELSE R
  <1>2. Q \in SUBSET (1..Len(bs))
    OBVIOUS
  <1>3. Separates(bs, Q, p, b)
    <2>1. CASE a \in R
      <3>1. bs[a].function = bs[b].function
        BY <1>1, <2>1 DEF Separates
      <3>2. ASSUME NEW c \in R \cup T
            PROVE  c \in 1..Len(bs) /\ bs[c].function = bs[b].function /\ Follow(bs, c) \subseteq R \cup T \cup {p}
        <4>1. CASE c \in R
          BY <1>1, <4>1 DEF Separates
        <4>2. CASE c \in T
          BY <3>1, <4>2
        <4> QED
          BY <4>1, <4>2
      <3>3. EntryOf(bs, bs[b].function) \in R \cup T \cup {p} /\ p \notin R \cup T /\ b \notin R \cup T
        BY <1>1 DEF Separates
      <3> QED
        BY <2>1, <3>2, <3>3 DEF Separates
    <2>2. CASE a \notin R
      BY <1>1, <2>2
    <2> QED
      BY <2>1, <2>2
  <1>4. a \in Q => T \subseteq Q \cup {p}
    OBVIOUS
  <1> HIDE DEF Q
  <1>5. Separates(bt, Q, p, b)
    BY <1>3, <1>4, StillSeparates
  <1>6. Q \in SUBSET (1..Len(bt)) /\ bt[p].function = bt[b].function
    BY <1>0, <1>2 DEF Grows, Dom
  <1> QED
    BY <1>5, <1>6 DEF Dom

\* Nor does a way back to a block that every way came through already.
LEMMA DomBack ==
  ASSUME NEW bs, NEW bt, NEW a, NEW l \in 1..Len(bs), Grows(bs, bt, a, {l}), Dom(bs, l, a),
         NEW p \in 1..Len(bs), NEW b \in 1..Len(bs), Dom(bs, p, b)
  PROVE  Dom(bt, p, b)
  <1>0. SUFFICES ASSUME p # b PROVE Dom(bt, p, b)
    BY DEF Dom
  <1>1. PICK R \in SUBSET (1..Len(bs)) : Separates(bs, R, p, b)
    BY <1>0 DEF Dom
  <1>2. \E Q \in SUBSET (1..Len(bs)) : Separates(bs, Q, p, b) /\ (a \in Q => l \in Q \cup {p})
    <2>1. CASE a \notin R \/ l \in R \cup {p}
      BY <1>1, <2>1
    <2>2. CASE a \in R /\ l \notin R \cup {p}
      <3>1. l # a
        BY <2>2
      <3>2. PICK Q \in SUBSET (1..Len(bs)) : Separates(bs, Q, l, a)
        BY <3>1 DEF Dom
      <3>3. bs[a].function = bs[b].function
        BY <1>1, <2>2 DEF Separates
      <3>4. EntryOf(bs, bs[b].function) \in (R \cap Q) \cup {p}
        <4>1. EntryOf(bs, bs[b].function) \in R \cup {p} /\ EntryOf(bs, bs[b].function) \in Q \cup {l}
          BY <1>1, <3>2, <3>3 DEF Separates
        <4> QED
          BY <2>2, <4>1
      <3>5. ASSUME NEW c \in R \cap Q
            PROVE  c \in 1..Len(bs) /\ bs[c].function = bs[b].function /\ Follow(bs, c) \subseteq (R \cap Q) \cup {p}
        <4>1. Follow(bs, c) \subseteq R \cup {p} /\ Follow(bs, c) \subseteq Q \cup {l}
          BY <1>1, <3>2 DEF Separates
        <4>2. Follow(bs, c) \subseteq (R \cap Q) \cup {p}
          BY <2>2, <4>1
        <4> QED
          BY <1>1, <4>2 DEF Separates
      <3>6. p \notin R \cap Q /\ b \notin R \cap Q /\ a \notin R \cap Q
        BY <1>1, <3>2 DEF Separates
      <3>7. Separates(bs, R \cap Q, p, b)
        BY <3>4, <3>5, <3>6 DEF Separates
      <3> QED
        BY <3>6, <3>7
    <2> QED
      BY <2>1, <2>2
  <1>3. PICK Q \in SUBSET (1..Len(bs)) : Separates(bs, Q, p, b) /\ (a \in Q => l \in Q \cup {p})
    BY <1>2
  <1>4. Separates(bt, Q, p, b)
    BY <1>3, StillSeparates
  <1>5. Q \in SUBSET (1..Len(bt)) /\ bt[p].function = bt[b].function
    BY <1>0 DEF Grows, Dom
  <1> QED
    BY <1>4, <1>5 DEF Dom

\* No way leads to a block without blocks before it.
LEMMA DomUnreached ==
  ASSUME NEW bs, Len(bs) \in Nat, EdgesInside(bs), NEW p \in 1..Len(bs), NEW b \in 1..Len(bs),
         bs[p].function = bs[b].function, Into(bs, b) = {}, EntryOf(bs, bs[b].function) # b
  PROVE  Dom(bs, p, b)
  <1> DEFINE R == {c \in 1..Len(bs) : bs[c].function = bs[b].function /\ c # p /\ c # b}
  <1>1. EntryOf(bs, bs[b].function) \in R \cup {p}
    BY EntryExists
  <1>2. ASSUME NEW c \in R PROVE Follow(bs, c) \subseteq R \cup {p}
    BY DEF EdgesInside, Into
  <1>3. Separates(bs, R, p, b)
    BY <1>1, <1>2 DEF Separates
  <1> QED
    BY <1>3 DEF Dom

-----------------------------------------------------------------------------
(* What the verifier asks of blocks, while they are being made.              *)

BlockShape(bs) ==
  /\ IsSeq(bs)
  /\ \A b \in 1..Len(bs) : bs[b] = [function |-> bs[b].function, code |-> bs[b].code] /\ IsSeq(bs[b].code)

\* The value has been made on every way to b.
UseSound(bs, v, b) ==
  /\ v.type # "void"
  /\ v.place # <<>> => /\ v.place[1] \in 1..Len(bs) /\ bs[v.place[1]].code # <<>>
                       /\ Dom(bs, v.place[1], b)
Allocates(bs, c, id) ==
  \E k \in 1..Len(bs[c].code) : bs[c].code[k].op = "alloca" /\ bs[c].code[k].id = id

\* The values of a phi come from the blocks before it.
PhiSound(bs, b, i) ==
  /\ Elements(i.to) = Into(bs, b) /\ Len(i.to) = Cardinality(Into(bs, b))
  /\ Len(i.args) = Len(i.to)
  /\ \A a \in 1..Len(i.args) : i.args[a].type = LlvmType(i.name) /\ UseSound(bs, i.args[a], i.to[a])
RetType(m, f) == LlvmType(FunctionIn(m, f).ret)
ParamTypes(m, f) ==
  [a \in DOMAIN FunctionIn(m, f).params |-> LlvmType(FunctionIn(m, f).params[a].type)]
InstrSound(m, dcl, bs, b, i) ==
  /\ IsSeq(i.args) /\ IsSeq(i.to)
  /\ \A k \in 1..Len(i.to) : i.to[k] \in 1..Len(bs) /\ bs[i.to[k]].function = bs[b].function
  /\ i.op # "phi" => \A a \in 1..Len(i.args) : UseSound(bs, i.args[a], b)
  /\ i.op = "phi" => PhiSound(bs, b, i)
  /\ i.op \in {"load", "store"} => \E c \in 1..Len(bs) : Allocates(bs, c, i.id) /\ Dom(bs, c, b)
  /\ i.op = "ret" => {i.args[a].type : a \in 1..Len(i.args)} = {RetType(m, bs[b].function)} \ {"void"}
  /\ i.op = "call" => i.name \in dcl /\ [a \in DOMAIN i.args |-> i.args[a].type] = ParamTypes(m, i.name)
Heap(m, dcl, bs) ==
  /\ BlockShape(bs)
  /\ \A b \in 1..Len(bs) :
       /\ bs[b].function \in dcl
       /\ \A k \in 1..Len(bs[b].code) :
            /\ IsTerminator(bs[b].code[k]) => k = Len(bs[b].code)
            /\ InstrSound(m, dcl, bs, b, bs[b].code[k])

LEMMA HeapShape ==
  ASSUME NEW m, NEW dcl, NEW bs, Heap(m, dcl, bs)
  PROVE  BlockShape(bs) /\ Len(bs) \in Nat
  BY SeqFacts DEF Heap, BlockShape

LEMMA CodeFacts ==
  ASSUME NEW bs, BlockShape(bs), NEW b \in 1..Len(bs)
  PROVE  IsSeq(bs[b].code) /\ Len(bs[b].code) \in Nat /\ (bs[b].code # <<>> <=> Len(bs[b].code) # 0)
  BY SeqFacts, SeqNone DEF BlockShape

LEMMA HeapEdges ==
  ASSUME NEW m, NEW dcl, NEW bs, Heap(m, dcl, bs)
  PROVE  EdgesInside(bs)
  <1>1. SUFFICES ASSUME NEW c \in 1..Len(bs), NEW d \in Follow(bs, c)
                 PROVE  d \in 1..Len(bs) /\ bs[d].function = bs[c].function
    BY DEF EdgesInside
  <1> DEFINE code == bs[c].code
             i == code[Len(code)]
  <1>2. Closed(bs, c) /\ d \in Elements(i.to)
    BY DEF Follow
  <1>3. Len(code) \in 1..Len(code)
    <2>1. Len(code) \in Nat /\ Len(code) # 0
      BY <1>2, CodeFacts, HeapShape DEF Closed
    <2> QED
      BY <2>1
  <1>4. InstrSound(m, dcl, bs, c, i)
    BY <1>3 DEF Heap
  <1> QED
    BY <1>2, <1>4 DEF InstrSound, Elements

\* An instruction stays sound as long as what comes before its block does.
LEMMA InstrKept ==
  ASSUME NEW m, NEW dcl, NEW bs, BlockShape(bs), NEW dcl2, dcl \subseteq dcl2, NEW bt, BlockShape(bt),
         Len(bs) <= Len(bt), \A c \in 1..Len(bs) : bt[c].function = bs[c].function,
         \A c \in 1..Len(bs) : /\ Len(bs[c].code) <= Len(bt[c].code)
                               /\ \A k \in 1..Len(bs[c].code) : bt[c].code[k] = bs[c].code[k],
         NEW b \in 1..Len(bs), NEW i, InstrSound(m, dcl, bs, b, i),
         \A p \in 1..Len(bs) : bs[p].code # <<>> /\ Dom(bs, p, b) => Dom(bt, p, b),
         i.op = "phi" => /\ Into(bt, b) = Into(bs, b)
                         /\ \A p \in 1..Len(bs), q \in Into(bs, b) :
                              bs[p].code # <<>> /\ Dom(bs, p, q) => Dom(bt, p, q)
  PROVE  InstrSound(m, dcl2, bt, b, i)
  <1>0. Len(bs) \in Nat /\ Len(bt) \in Nat
    BY SeqFacts DEF BlockShape
  <1>1. \A c \in 1..Len(bs) : c \in 1..Len(bt)
    BY <1>0
  <1>2. ASSUME NEW p \in 1..Len(bs), bs[p].code # <<>> PROVE bt[p].code # <<>>
    <2>1. Len(bs[p].code) # 0 /\ Len(bs[p].code) \in Nat /\ Len(bt[p].code) \in Nat
      BY <1>1, <1>2, CodeFacts
    <2>2. Len(bt[p].code) # 0
      BY <2>1
    <2> QED
      BY <1>1, <2>2, CodeFacts
  <1>3. ASSUME NEW v, NEW q \in 1..Len(bs), UseSound(bs, v, q),
               \A p \in 1..Len(bs) : bs[p].code # <<>> /\ Dom(bs, p, q) => Dom(bt, p, q)
        PROVE  UseSound(bt, v, q)
    BY <1>1, <1>2, <1>3 DEF UseSound
  <1>4. i.op # "phi" => \A a \in 1..Len(i.args) : UseSound(bt, i.args[a], b)
    BY <1>3 DEF InstrSound
  <1>5. i.op = "phi" => PhiSound(bt, b, i)
    <2> SUFFICES ASSUME i.op = "phi" PROVE PhiSound(bt, b, i)
      OBVIOUS
    <2>1. PhiSound(bs, b, i) /\ Into(bt, b) = Into(bs, b)
      BY DEF InstrSound
    <2>2. ASSUME NEW a \in 1..Len(i.args) PROVE UseSound(bt, i.args[a], i.to[a])
      <3>1. i.to[a] \in Into(bs, b) /\ i.to[a] \in 1..Len(bs)
        <4>1. a \in 1..Len(i.to)
          BY <2>1 DEF PhiSound
        <4>2. i.to[a] \in Elements(i.to)
          BY <4>1 DEF Elements
        <4> QED
          BY <2>1, <4>2 DEF PhiSound, Into
      <3>2. UseSound(bs, i.args[a], i.to[a])
        BY <2>1 DEF PhiSound
      <3> QED
        BY <1>3, <3>1, <3>2
    <2> QED
      BY <2>1, <2>2 DEF PhiSound
  <1>6. i.op \in {"load", "store"} => \E c \in 1..Len(bt) : Allocates(bt, c, i.id) /\ Dom(bt, c, b)
    <2> SUFFICES ASSUME i.op \in {"load", "store"}
                 PROVE  \E c \in 1..Len(bt) : Allocates(bt, c, i.id) /\ Dom(bt, c, b)
      OBVIOUS
    <2>1. PICK c \in 1..Len(bs) : Allocates(bs, c, i.id) /\ Dom(bs, c, b)
      BY DEF InstrSound
    <2>2. PICK k \in 1..Len(bs[c].code) : bs[c].code[k].op = "alloca" /\ bs[c].code[k].id = i.id
      BY <2>1 DEF Allocates
    <2>3. Len(bs[c].code) \in Nat /\ Len(bt[c].code) \in Nat /\ (bs[c].code # <<>> <=> Len(bs[c].code) # 0)
      BY <1>1, CodeFacts
    <2>4. k \in 1..Len(bt[c].code) /\ bt[c].code[k] = bs[c].code[k] /\ bs[c].code # <<>>
      BY <2>3
    <2>5. Allocates(bt, c, i.id)
      BY <2>2, <2>4 DEF Allocates
    <2> QED
      BY <1>1, <2>1, <2>4, <2>5
  <1>7. \A k \in 1..Len(i.to) : i.to[k] \in 1..Len(bt) /\ bt[i.to[k]].function = bt[b].function
    BY <1>1 DEF InstrSound
  <1> QED
    BY <1>4, <1>5, <1>6, <1>7 DEF InstrSound

-----------------------------------------------------------------------------
(* An instruction is added to a block.                                       *)

Targets(i) == IF IsTerminator(i) THEN Elements(i.to) ELSE {}
NoPhi(bs, b) == \A k \in 1..Len(bs[b].code) : bs[b].code[k].op # "phi"

\* A branch leads to blocks that are empty, or back to one that every way to
\* here came through.
ToEnds(bs, a, T) ==
  \A t \in T : t \in 1..Len(bs) /\ bs[t].function = bs[a].function /\ bs[t].code = <<>> /\ t # a
ToLoop(bs, a, T) == \E l \in 1..Len(bs) : T = {l} /\ Dom(bs, l, a) /\ NoPhi(bs, l)
Emits(bs, a, i) ==
  /\ BlockShape(bs) /\ a \in 1..Len(bs) /\ ~Closed(bs, a)
  /\ ToEnds(bs, a, Targets(i)) \/ ToLoop(bs, a, Targets(i))

LEMMA EmitShape ==
  ASSUME NEW bs, BlockShape(bs), NEW a \in 1..Len(bs), NEW i
  PROVE  LET bt == Emit(bs, a, i)
         IN /\ BlockShape(bt) /\ Len(bt) = Len(bs) /\ Len(bs) \in Nat
            /\ \A c \in 1..Len(bs) : bt[c].function = bs[c].function
            /\ \A c \in 1..Len(bs) : c # a => bt[c] = bs[c]
            /\ Len(bt[a].code) = Len(bs[a].code) + 1 /\ Len(bs[a].code) \in Nat
            /\ \A k \in 1..Len(bs[a].code) : bt[a].code[k] = bs[a].code[k]
            /\ bt[a].code[Len(bs[a].code) + 1] = i
            /\ bt[a].code # <<>>
  <1> DEFINE bt == Emit(bs, a, i)
  <1>0. Len(bs) \in Nat /\ DOMAIN bs = 1..Len(bs) /\ IsSeq(bs)
    BY SeqFacts DEF BlockShape
  <1>1. IsSeq(bs[a].code)
    BY DEF BlockShape
  <1>2. DOMAIN bt = 1..Len(bs) /\ bt = [c \in 1..Len(bs) |-> bt[c]]
    BY <1>0 DEF Emit
  <1>3. IsSeq(bt) /\ Len(bt) = Len(bs)
    BY <1>0, <1>2, SeqByIndex
  <1>4. \A c \in 1..Len(bs) : c # a => bt[c] = bs[c]
    BY <1>0 DEF Emit
  <1>5. bs[a] = [function |-> bs[a].function, code |-> bs[a].code]
    BY DEF BlockShape
  <1>6. bt[a] = [bs[a] EXCEPT !.code = Append(@, i)]
    BY <1>0 DEF Emit
  <1>7. bt[a] = [function |-> bs[a].function, code |-> Append(bs[a].code, i)]
    BY <1>5, <1>6
  <1> DEFINE code == Append(bs[a].code, i)
  <1>8. /\ IsSeq(code) /\ Len(code) = Len(bs[a].code) + 1 /\ Len(bs[a].code) \in Nat
        /\ \A k \in 1..Len(bs[a].code) : code[k] = bs[a].code[k]
        /\ code[Len(bs[a].code) + 1] = i
    BY <1>1, SeqAppend
  <1> HIDE DEF code, bt
  <1>9. bt[a].function = bs[a].function /\ bt[a].code = code
    BY <1>7 DEF code
  <1>10. code # <<>>
    BY <1>8, SeqNone
  <1>11. BlockShape(bt)
    <2>1. bt[a] = [function |-> bt[a].function, code |-> bt[a].code]
      BY <1>7
    <2>2. \A c \in 1..Len(bs) : bt[c] = [function |-> bt[c].function, code |-> bt[c].code] /\ IsSeq(bt[c].code)
      BY <1>4, <1>8, <1>9, <2>1 DEF BlockShape
    <2> QED
      BY <1>3, <2>2 DEF BlockShape
  <1>12. \A c \in 1..Len(bs) : bt[c].function = bs[c].function
    BY <1>4, <1>9
  <1> QED
    BY <1>0, <1>3, <1>4, <1>8, <1>9, <1>10, <1>11, <1>12 DEF bt

LEMMA EmitClosed ==
  ASSUME NEW bs, BlockShape(bs), NEW a \in 1..Len(bs), NEW i
  PROVE  /\ Closed(Emit(bs, a, i), a) <=> IsTerminator(i)
         /\ \A c \in 1..Len(bs) : c # a => /\ Closed(Emit(bs, a, i), c) <=> Closed(bs, c)
                                           /\ Follow(Emit(bs, a, i), c) = Follow(bs, c)
         /\ Follow(Emit(bs, a, i), a) = Targets(i)
  <1> DEFINE bt == Emit(bs, a, i)
  <1>0. /\ BlockShape(bt) /\ Len(bt) = Len(bs) /\ Len(bs) \in Nat
        /\ \A c \in 1..Len(bs) : bt[c].function = bs[c].function
        /\ \A c \in 1..Len(bs) : c # a => bt[c] = bs[c]
        /\ Len(bt[a].code) = Len(bs[a].code) + 1 /\ Len(bs[a].code) \in Nat
        /\ \A k \in 1..Len(bs[a].code) : bt[a].code[k] = bs[a].code[k]
        /\ bt[a].code[Len(bs[a].code) + 1] = i
        /\ bt[a].code # <<>>
    BY EmitShape
  <1> HIDE DEF bt
  <1>1. /\ \A c \in 1..Len(bs) : c # a => bt[c] = bs[c]
        /\ bt[a].code[Len(bt[a].code)] = i /\ bt[a].code # <<>>
    BY <1>0
  <1>2. Closed(bt, a) <=> IsTerminator(i)
    BY <1>1 DEF Closed
  <1>3. \A c \in 1..Len(bs) : c # a => (Closed(bt, c) <=> Closed(bs, c)) /\ Follow(bt, c) = Follow(bs, c)
    BY <1>1 DEF Closed, Follow
  <1>4. Follow(bt, a) = Targets(i)
    BY <1>1, <1>2 DEF Follow, Targets
  <1> QED
    BY <1>2, <1>3, <1>4 DEF bt

LEMMA EmitGrows ==
  ASSUME NEW bs, NEW a, NEW i, Emits(bs, a, i)
  PROVE  Grows(bs, Emit(bs, a, i), a, Targets(i))
  <1>1. BlockShape(bs) /\ a \in 1..Len(bs) /\ Follow(bs, a) = {}
    BY DEF Emits, Follow
  <1> DEFINE bt == Emit(bs, a, i)
  <1>2. /\ BlockShape(bt) /\ Len(bt) = Len(bs) /\ Len(bs) \in Nat
        /\ \A c \in 1..Len(bs) : bt[c].function = bs[c].function
        /\ \A c \in 1..Len(bs) : c # a => bt[c] = bs[c]
        /\ Len(bt[a].code) = Len(bs[a].code) + 1 /\ Len(bs[a].code) \in Nat
        /\ \A k \in 1..Len(bs[a].code) : bt[a].code[k] = bs[a].code[k]
        /\ bt[a].code[Len(bs[a].code) + 1] = i
        /\ bt[a].code # <<>>
    BY <1>1, EmitShape
  <1>3. /\ \A c \in 1..Len(bs) : c # a => Follow(bt, c) = Follow(bs, c)
        /\ Follow(bt, a) = Targets(i)
    BY <1>1, EmitClosed
  <1> HIDE DEF bt
  <1>4. Grows(bs, bt, a, Targets(i))
    BY <1>1, <1>2, <1>3 DEF Grows
  <1> QED
    BY <1>4 DEF bt

\* When what comes before a block stays what it is.
LEMMA EmitDom ==
  ASSUME NEW bs, NEW a, NEW i, Emits(bs, a, i), NEW p \in 1..Len(bs), NEW b \in 1..Len(bs), Dom(bs, p, b),
         \/ Dom(bs, p, a)
         \/ bs[b].function # bs[a].function
         \/ ToLoop(bs, a, Targets(i))
         \/ p \notin Targets(i) /\ b \notin Targets(i)
  PROVE  Dom(Emit(bs, a, i), p, b)
  <1> DEFINE bt == Emit(bs, a, i)
             T == Targets(i)
  <1>1. Grows(bs, bt, a, T) /\ a \in 1..Len(bs)
    BY EmitGrows DEF Emits
  <1> HIDE DEF bt, T
  <1>2. CASE Dom(bs, p, a)
    BY <1>1, <1>2, DomByBoth DEF bt
  <1>3. CASE bs[b].function # bs[a].function
    BY <1>1, <1>3, DomElsewhere DEF bt
  <1>4. CASE ToLoop(bs, a, T)
    <2>1. PICK l \in 1..Len(bs) : T = {l} /\ Dom(bs, l, a)
      BY <1>4 DEF ToLoop
    <2>2. Grows(bs, bt, a, {l})
      BY <1>1, <2>1
    <2> QED
      BY <2>1, <2>2, DomBack DEF bt
  <1>5. CASE p \notin T /\ b \notin T /\ ~ToLoop(bs, a, T)
    <2>1. ToEnds(bs, a, T)
      BY <1>5 DEF Emits, T
    <2>2. \A t \in T : t \in 1..Len(bs) /\ bs[t].function = bs[a].function /\ Follow(bs, t) = {} /\ t # a
      BY <2>1 DEF ToEnds, Follow, Closed
    <2> QED
      BY <1>1, <1>5, <2>2, DomToEnds DEF bt
  <1> QED
    BY <1>2, <1>3, <1>4, <1>5 DEF T

LEMMA EmitInto ==
  ASSUME NEW bs, NEW a, NEW i, Emits(bs, a, i), NEW b
  PROVE  Into(Emit(bs, a, i), b) = IF b \in Targets(i) THEN Into(bs, b) \cup {a} ELSE Into(bs, b)
  <1> DEFINE bt == Emit(bs, a, i)
  <1>0. BlockShape(bs) /\ a \in 1..Len(bs) /\ Follow(bs, a) = {}
    BY DEF Emits, Follow
  <1>3. /\ BlockShape(bt) /\ Len(bt) = Len(bs) /\ Len(bs) \in Nat
        /\ \A c \in 1..Len(bs) : bt[c].function = bs[c].function
        /\ \A c \in 1..Len(bs) : c # a => bt[c] = bs[c]
        /\ Len(bt[a].code) = Len(bs[a].code) + 1 /\ Len(bs[a].code) \in Nat
        /\ \A k \in 1..Len(bs[a].code) : bt[a].code[k] = bs[a].code[k]
        /\ bt[a].code[Len(bs[a].code) + 1] = i
        /\ bt[a].code # <<>>
    BY <1>0, EmitShape
  <1>1. Grows(bs, bt, a, Targets(i))
    BY EmitGrows
  <1> HIDE DEF bt
  <1>2. Into(bt, b) = IF b \in Targets(i) THEN Into(bs, b) \cup {a} ELSE Into(bs, b)
    BY <1>0, <1>1, <1>3 DEF Into, Grows
  <1> QED
    BY <1>2 DEF bt

\* Between blocks that have code.
LEMMA EmitDomInside ==
  ASSUME NEW bs, NEW a, NEW i, Emits(bs, a, i), NEW p \in 1..Len(bs), NEW b \in 1..Len(bs), Dom(bs, p, b),
         bs[p].code # <<>>, bs[b].code # <<>>
  PROVE  Dom(Emit(bs, a, i), p, b)
  <1>1. ToLoop(bs, a, Targets(i)) \/ (p \notin Targets(i) /\ b \notin Targets(i))
    BY DEF Emits, ToEnds
  <1> QED
    BY <1>1, EmitDom

LEMMA HeapEmit ==
  ASSUME NEW m, NEW dcl, NEW bs, Heap(m, dcl, bs), NEW a, NEW i, Emits(bs, a, i),
         InstrSound(m, dcl, bs, a, i)
  PROVE  Heap(m, dcl, Emit(bs, a, i))
  <1> DEFINE bt == Emit(bs, a, i)
  <1>0. a \in 1..Len(bs) /\ BlockShape(bs) /\ ~Closed(bs, a) /\ Len(bs) \in Nat
    BY SeqFacts DEF Emits, BlockShape
  <1>1. /\ BlockShape(bt) /\ Len(bt) = Len(bs) /\ Len(bs) \in Nat
        /\ \A c \in 1..Len(bs) : bt[c].function = bs[c].function
        /\ \A c \in 1..Len(bs) : c # a => bt[c] = bs[c]
        /\ Len(bt[a].code) = Len(bs[a].code) + 1 /\ Len(bs[a].code) \in Nat
        /\ \A k \in 1..Len(bs[a].code) : bt[a].code[k] = bs[a].code[k]
        /\ bt[a].code[Len(bs[a].code) + 1] = i
    BY <1>0, EmitShape
  <1>2. \A c \in 1..Len(bs) : /\ Len(bs[c].code) \in Nat
                              /\ Len(bs[c].code) <= Len(bt[c].code)
                              /\ \A k \in 1..Len(bs[c].code) : bt[c].code[k] = bs[c].code[k]
    <2>1. TAKE c \in 1..Len(bs)
    <2>2. Len(bs[c].code) \in Nat
      BY <1>0, CodeFacts
    <2>3. CASE c = a
      BY <1>1, <2>2, <2>3
    <2>4. CASE c # a
      BY <1>1, <2>2, <2>4
    <2> QED
      BY <2>2, <2>3, <2>4
  <1>3. \A b : Into(bt, b) = IF b \in Targets(i) THEN Into(bs, b) \cup {a} ELSE Into(bs, b)
    BY EmitInto
  <1>4. ASSUME NEW p \in 1..Len(bs), NEW b \in 1..Len(bs), Dom(bs, p, b), bs[p].code # <<>>, bs[b].code # <<>>
        PROVE  Dom(bt, p, b)
    BY <1>4, EmitDomInside
  <1>5. ASSUME NEW p \in 1..Len(bs), Dom(bs, p, a) PROVE Dom(bt, p, a)
    BY <1>0, <1>5, EmitDom
  <1>6. ASSUME NEW p \in 1..Len(bs), NEW b \in 1..Len(bs), Dom(bs, p, b), ~IsTerminator(i) PROVE Dom(bt, p, b)
    BY <1>6, EmitDom DEF Targets
  <1> HIDE DEF bt
  <1>7. ASSUME NEW b \in 1..Len(bs), NEW j, InstrSound(m, dcl, bs, b, j), b = a \/ bs[b].code # <<>>,
               j.op = "phi" => b \notin Targets(i)
        PROVE  InstrSound(m, dcl, bt, b, j)
    <2>1. \A p \in 1..Len(bs) : bs[p].code # <<>> /\ Dom(bs, p, b) => Dom(bt, p, b)
      BY <1>4, <1>5, <1>7
    <2>2. j.op = "phi" => Into(bt, b) = Into(bs, b)
      BY <1>3, <1>7
    <2>3. ASSUME NEW p \in 1..Len(bs), NEW q \in Into(bs, b), bs[p].code # <<>>, Dom(bs, p, q)
          PROVE  Dom(bt, p, q)
      <3>1. q \in 1..Len(bs) /\ bs[q].code # <<>>
        BY DEF Into, Follow, Closed
      <3> QED
        BY <1>4, <2>3, <3>1
    <2> HIDE DEF Into
    <2>4. Len(bs) <= Len(bt)
      BY <1>1
    <2> QED
      BY <1>0, <1>1, <1>2, <1>7, <2>1, <2>2, <2>3, <2>4, InstrKept
  <1>8. ASSUME NEW b \in 1..Len(bs), NEW k \in 1..Len(bs[b].code)
        PROVE  InstrSound(m, dcl, bt, b, bs[b].code[k])
    <2>1. InstrSound(m, dcl, bs, b, bs[b].code[k])
      BY DEF Heap
    <2>2. bs[b].code # <<>>
      BY <1>0, CodeFacts
    <2>3. bs[b].code[k].op = "phi" => b \notin Targets(i)
      BY <2>2 DEF Emits, ToEnds, ToLoop, NoPhi
    <2> QED
      BY <1>7, <2>1, <2>2, <2>3
  <1>9. InstrSound(m, dcl, bt, a, i)
    <2>1. i.op = "phi" => a \notin Targets(i)
      BY DEF Targets, IsTerminator, Terminators
    <2> QED
      BY <1>0, <1>7, <2>1
  <1>10. ASSUME NEW b \in 1..Len(bs), NEW k \in 1..Len(bt[b].code)
         PROVE  /\ IsTerminator(bt[b].code[k]) => k = Len(bt[b].code)
                /\ InstrSound(m, dcl, bt, b, bt[b].code[k])
    <2>1. CASE b # a
      BY <1>1, <1>8, <2>1 DEF Heap
    <2>2. CASE b = a /\ k = Len(bs[a].code) + 1
      BY <1>1, <1>9, <2>2
    <2>3. CASE b = a /\ k # Len(bs[a].code) + 1
      <3>1. k \in 1..Len(bs[a].code) /\ bt[b].code[k] = bs[a].code[k]
        BY <1>1, <2>3
      <3>2. ~IsTerminator(bs[a].code[k])
        <4>1. SUFFICES ASSUME IsTerminator(bs[a].code[k]) PROVE FALSE
          OBVIOUS
        <4>2. k = Len(bs[a].code)
          BY <1>0, <3>1, <4>1 DEF Heap
        <4>3. bs[a].code # <<>>
          BY <1>0, <3>1, CodeFacts
        <4> QED
          BY <1>0, <4>1, <4>2, <4>3 DEF Closed
      <3> QED
        BY <1>8, <2>3, <3>1, <3>2
    <2> QED
      BY <2>1, <2>2, <2>3
  <1>11. \A b \in 1..Len(bs) : bt[b].function \in dcl
    BY <1>1 DEF Heap
  <1>12. Heap(m, dcl, bt)
    BY <1>1, <1>10, <1>11 DEF Heap
  <1> QED
    BY <1>12 DEF bt

-----------------------------------------------------------------------------
(* What a step leaves of the blocks there are.                               *)

\* Of the blocks of bs only those of S have got more code; the ways to a block
\* are what they were but for those to the blocks of P, which were ends, and
\* back to those of L.
Extends(bs, bt, S, P, L) ==
  /\ BlockShape(bs) /\ BlockShape(bt) /\ Len(bs) <= Len(bt)
  /\ \A c \in 1..Len(bs) :
       /\ bt[c].function = bs[c].function
       /\ c \notin S => bt[c] = bs[c]
       /\ Len(bs[c].code) <= Len(bt[c].code)
       /\ \A k \in 1..Len(bs[c].code) : bt[c].code[k] = bs[c].code[k]
       /\ c \notin P \cup L => Into(bt, c) = Into(bs, c)
       /\ c \notin P /\ NoPhi(bs, c) => NoPhi(bt, c)
       /\ c \notin P => \A p \in 1..Len(bs) : p \notin P /\ Dom(bs, p, c) => Dom(bt, p, c)

LEMMA ExtendsLen ==
  ASSUME NEW bs, NEW bt, NEW S, NEW P, NEW L, Extends(bs, bt, S, P, L)
  PROVE  /\ Len(bs) \in Nat /\ Len(bt) \in Nat /\ Len(bs) <= Len(bt)
         /\ \A c \in 1..Len(bs) : c \in 1..Len(bt)
  <1>1. Len(bs) \in Nat /\ Len(bt) \in Nat
    BY SeqFacts DEF Extends, BlockShape
  <1> QED
    BY <1>1 DEF Extends

LEMMA ExtendsCode ==
  ASSUME NEW bs, NEW bt, NEW S, NEW P, NEW L, Extends(bs, bt, S, P, L), NEW c \in 1..Len(bs), bs[c].code # <<>>
  PROVE  bt[c].code # <<>>
  <1>1. c \in 1..Len(bt) /\ BlockShape(bs) /\ BlockShape(bt) /\ Len(bs[c].code) <= Len(bt[c].code)
    BY ExtendsLen DEF Extends
  <1>2. Len(bs[c].code) \in Nat /\ Len(bt[c].code) \in Nat /\ Len(bs[c].code) # 0
    BY <1>1, CodeFacts
  <1>3. Len(bt[c].code) # 0
    BY <1>1, <1>2
  <1> QED
    BY <1>1, <1>3, CodeFacts

LEMMA ExtendsTwice ==
  ASSUME NEW bs, NEW bt, NEW S, NEW P, NEW L, Extends(bs, bt, S, P, L),
         NEW bu, NEW S2, NEW P2, NEW L2, Extends(bt, bu, S2, P2, L2)
  PROVE  Extends(bs, bu, S \cup S2, P \cup P2, L \cup L2)
  <1>1. /\ Len(bs) \in Nat /\ Len(bt) \in Nat /\ Len(bu) \in Nat /\ Len(bs) <= Len(bu)
        /\ \A c \in 1..Len(bs) : c \in 1..Len(bt)
    BY ExtendsLen
  <1>2. BlockShape(bs) /\ BlockShape(bt) /\ BlockShape(bu)
    BY DEF Extends
  <1>3. ASSUME NEW c \in 1..Len(bs)
        PROVE  /\ Len(bs[c].code) \in Nat /\ Len(bt[c].code) \in Nat /\ Len(bu[c].code) \in Nat
    BY <1>1, <1>2, CodeFacts, ExtendsLen
  <1>4. ASSUME NEW c \in 1..Len(bs)
        PROVE  /\ bu[c].function = bs[c].function
               /\ c \notin S \cup S2 => bu[c] = bs[c]
               /\ c \notin (P \cup P2) \cup (L \cup L2) => Into(bu, c) = Into(bs, c)
               /\ c \notin P \cup P2 /\ NoPhi(bs, c) => NoPhi(bu, c)
    BY <1>1 DEF Extends
  <1>5. ASSUME NEW c \in 1..Len(bs)
        PROVE  /\ Len(bs[c].code) <= Len(bu[c].code)
               /\ \A k \in 1..Len(bs[c].code) : bu[c].code[k] = bs[c].code[k]
    <2>1. c \in 1..Len(bt) /\ Len(bs[c].code) <= Len(bt[c].code) /\ Len(bt[c].code) <= Len(bu[c].code)
      BY <1>1 DEF Extends
    <2>2. Len(bs[c].code) <= Len(bu[c].code) /\ \A k \in 1..Len(bs[c].code) : k \in 1..Len(bt[c].code)
      BY <1>3, <2>1
    <2>3. \A k \in 1..Len(bs[c].code) : bt[c].code[k] = bs[c].code[k]
      BY DEF Extends
    <2>4. \A k \in 1..Len(bt[c].code) : bu[c].code[k] = bt[c].code[k]
      BY <2>1 DEF Extends
    <2> QED
      BY <2>2, <2>3, <2>4
  <1>6. ASSUME NEW c \in 1..Len(bs), c \notin P \cup P2, NEW p \in 1..Len(bs), p \notin P \cup P2, Dom(bs, p, c)
        PROVE  Dom(bu, p, c)
    <2>1. Dom(bt, p, c)
      BY <1>6 DEF Extends
    <2> QED
      BY <1>1, <1>6, <2>1 DEF Extends
  <1> QED
    BY <1>1, <1>2, <1>4, <1>5, <1>6 DEF Extends

LEMMA ExtendsMore ==
  ASSUME NEW bs, NEW bt, NEW S, NEW P, NEW L, Extends(bs, bt, S, P, L),
         NEW S2, NEW P2, NEW L2, S \subseteq S2, P \subseteq P2, L \subseteq L2
  PROVE  Extends(bs, bt, S2, P2, L2)
  BY DEF Extends

LEMMA ExtendsSame ==
  ASSUME NEW bs, BlockShape(bs)
  PROVE  Extends(bs, bs, {}, {}, {})
  <1>1. Len(bs) \in Nat
    BY SeqFacts DEF BlockShape
  <1>2. \A c \in 1..Len(bs) : Len(bs[c].code) \in Nat
    BY CodeFacts
  <1> QED
    BY <1>1, <1>2 DEF Extends

\* An instruction that leads to ends, or nowhere.
LEMMA EmitExtends ==
  ASSUME NEW bs, NEW a, NEW i, Emits(bs, a, i), NEW P, NEW L,
         \/ P = {} /\ L = Targets(i) /\ ToLoop(bs, a, Targets(i))
         \/ P = Targets(i) /\ L = {} /\ i.op # "phi"
         \/ P = {a} /\ L = {} /\ i.op = "phi"
  PROVE  Extends(bs, Emit(bs, a, i), {a}, P, L)
  <1> DEFINE bt == Emit(bs, a, i)
  <1>0. BlockShape(bs) /\ a \in 1..Len(bs) /\ Len(bs) \in Nat
    BY SeqFacts DEF Emits, BlockShape
  <1>1. /\ BlockShape(bt) /\ Len(bt) = Len(bs) /\ Len(bs) \in Nat
        /\ \A c \in 1..Len(bs) : bt[c].function = bs[c].function
        /\ \A c \in 1..Len(bs) : c # a => bt[c] = bs[c]
        /\ Len(bt[a].code) = Len(bs[a].code) + 1 /\ Len(bs[a].code) \in Nat
        /\ \A k \in 1..Len(bs[a].code) : bt[a].code[k] = bs[a].code[k]
        /\ bt[a].code[Len(bs[a].code) + 1] = i
        /\ bt[a].code # <<>>
    BY ONLY <1>0, EmitShape
  <1>2. i.op = "phi" => Targets(i) = {}
    BY DEF Targets, IsTerminator, Terminators
  <1>3. \A c \in 1..Len(bs) : c \notin P \cup L => Into(bt, c) = Into(bs, c)
    BY <1>2, EmitInto
  <1>4. ASSUME NEW c \in 1..Len(bs), c \notin P, NEW p \in 1..Len(bs), p \notin P, Dom(bs, p, c)
        PROVE  Dom(bt, p, c)
    BY <1>2, <1>4, EmitDom
  <1> HIDE DEF bt
  <1>5. \A c \in 1..Len(bs) : Len(bs[c].code) \in Nat
    BY <1>0, CodeFacts
  <1>6. ASSUME NEW c \in 1..Len(bs)
        PROVE  Len(bs[c].code) <= Len(bt[c].code) /\ \A k \in 1..Len(bs[c].code) : bt[c].code[k] = bs[c].code[k]
    BY <1>1, <1>5, SMTT(30)
  <1>7. ASSUME NEW c \in 1..Len(bs), c \notin P, NoPhi(bs, c) PROVE NoPhi(bt, c)
    <2>1. CASE c # a
      BY <1>1, <1>7, <2>1 DEF NoPhi
    <2>2. CASE c = a
      <3>1. i.op # "phi"
        <4>1. SUFFICES ASSUME i.op = "phi" PROVE FALSE
          OBVIOUS
        <4>2. Targets(i) = {}
          BY <1>2, <4>1
        <4>3. P = {a}
          BY <4>1, <4>2 DEF ToLoop
        <4> QED
          BY <1>7, <2>2, <4>3
      <3>2. \A k \in 1..Len(bt[a].code) : k \in 1..Len(bs[a].code) \/ k = Len(bs[a].code) + 1
        BY <1>1
      <3> QED
        BY <1>1, <1>7, <2>2, <3>1, <3>2 DEF NoPhi
    <2> QED
      BY <2>1, <2>2
  <1>8. Extends(bs, bt, {a}, P, L)
    BY <1>0, <1>1, <1>3, <1>4, <1>6, <1>7 DEF Extends
  <1> QED
    BY <1>8 DEF bt

-----------------------------------------------------------------------------
(* Blocks are added.                                                         *)

Adds(bs, bt) ==
  /\ BlockShape(bs) /\ BlockShape(bt) /\ Len(bs) <= Len(bt) /\ EdgesInside(bs)
  /\ \A c \in 1..Len(bs) : bt[c] = bs[c]
  /\ \A c \in 1..Len(bt) : c \notin 1..Len(bs) => ~Closed(bt, c)

LEMMA AddsInto ==
  ASSUME NEW bs, NEW bt, Adds(bs, bt)
  PROVE  /\ \A c \in 1..Len(bs) : Into(bt, c) = Into(bs, c)
         /\ \A c \in 1..Len(bt) : c \notin 1..Len(bs) => Into(bt, c) = {}
         /\ EdgesInside(bt)
  <1>1. Len(bs) \in Nat /\ Len(bt) \in Nat
    BY SeqFacts DEF Adds, BlockShape
  <1>2. \A c \in 1..Len(bs) : c \in 1..Len(bt) /\ Follow(bt, c) = Follow(bs, c)
    BY <1>1 DEF Adds, Follow, Closed
  <1>3. \A c \in 1..Len(bt) : c \notin 1..Len(bs) => Follow(bt, c) = {}
    BY DEF Adds, Follow
  <1>4. \A c \in 1..Len(bs) : Follow(bs, c) \subseteq 1..Len(bs)
    BY DEF Adds, EdgesInside
  <1>5. \A c \in 1..Len(bs) : Into(bt, c) = Into(bs, c)
    BY <1>2, <1>3 DEF Into
  <1>6. \A c \in 1..Len(bt) : c \notin 1..Len(bs) => Into(bt, c) = {}
    BY <1>2, <1>3, <1>4 DEF Into
  <1>7. EdgesInside(bt)
    <2> SUFFICES ASSUME NEW c \in 1..Len(bt), NEW d \in Follow(bt, c)
                 PROVE  d \in 1..Len(bt) /\ bt[d].function = bt[c].function
      BY DEF EdgesInside
    <2>1. c \in 1..Len(bs) /\ d \in Follow(bs, c)
      BY <1>2, <1>3
    <2>2. d \in 1..Len(bs) /\ bs[d].function = bs[c].function
      BY <2>1 DEF Adds, EdgesInside
    <2> QED
      BY <1>2, <2>1, <2>2 DEF Adds
  <1> QED
    BY <1>5, <1>6, <1>7

LEMMA AddsGrows ==
  ASSUME NEW bs, NEW bt, Adds(bs, bt), NEW a \in 1..Len(bs)
  PROVE  Grows(bs, bt, a, {})
  <1>1. Len(bs) \in Nat /\ Len(bt) \in Nat
    BY SeqFacts DEF Adds, BlockShape
  <1>2. \A c \in 1..Len(bs) : Follow(bt, c) = Follow(bs, c)
    BY <1>1 DEF Adds, Follow, Closed
  <1>3. \A c \in 1..Len(bt) : c \notin 1..Len(bs) => Follow(bt, c) = {}
    BY DEF Adds, Follow
  <1>4. \A c \in 1..Len(bs) : bt[c].function = bs[c].function
    BY DEF Adds
  <1>5. Follow(bt, a) = Follow(bs, a) \cup {} /\ Len(bs) <= Len(bt)
    BY <1>2 DEF Adds
  <1> QED
    BY <1>1, <1>2, <1>3, <1>4, <1>5 DEF Grows

LEMMA AddsDom ==
  ASSUME NEW bs, NEW bt, Adds(bs, bt), NEW p \in 1..Len(bs), NEW b \in 1..Len(bs), Dom(bs, p, b)
  PROVE  Dom(bt, p, b)
  <1>1. Grows(bs, bt, p, {})
    BY AddsGrows
  <1>2. \A t \in {} : t \in 1..Len(bs) /\ bs[t].function = bs[p].function /\ Follow(bs, t) = {} /\ t # p
    OBVIOUS
  <1> DEFINE T == {}
  <1>3. p \notin T /\ b \notin T
    OBVIOUS
  <1> HIDE DEF T
  <1>4. Grows(bs, bt, p, T)
    BY <1>1 DEF T
  <1>5. \A t \in T : t \in 1..Len(bs) /\ bs[t].function = bs[p].function /\ Follow(bs, t) = {} /\ t # p
    BY <1>2 DEF T
  <1> QED
    BY <1>3, <1>4, <1>5, DomToEnds

LEMMA AddsExtends ==
  ASSUME NEW bs, NEW bt, Adds(bs, bt)
  PROVE  /\ Extends(bs, bt, {}, {}, {})
         /\ \A c \in 1..Len(bs) : EntryOf(bt, bs[c].function) = EntryOf(bs, bs[c].function)
  <1>1. Len(bs) \in Nat /\ Len(bt) \in Nat /\ Len(bs) <= Len(bt) /\ BlockShape(bs) /\ BlockShape(bt)
    BY SeqFacts DEF Adds, BlockShape
  <1>2. \A c \in 1..Len(bs) : bt[c] = bs[c] /\ Len(bs[c].code) \in Nat
    BY <1>1, CodeFacts DEF Adds
  <1>3. \A c \in 1..Len(bs) : Into(bt, c) = Into(bs, c)
    BY AddsInto
  <1>4. \A p, c \in 1..Len(bs) : Dom(bs, p, c) => Dom(bt, p, c)
    BY AddsDom
  <1>5. \A c \in 1..Len(bs) : NoPhi(bs, c) => NoPhi(bt, c)
    BY <1>2 DEF NoPhi
  <1>6. Extends(bs, bt, {}, {}, {})
    BY <1>1, <1>2, <1>3, <1>4, <1>5 DEF Extends
  <1>7. \A c \in 1..Len(bs) : EntryOf(bt, bs[c].function) = EntryOf(bs, bs[c].function)
    <2>1. \A c \in 1..Len(bs) : bt[c].function = bs[c].function
      BY <1>2
    <2> QED
      BY <1>1, <2>1, EntryStays
  <1> QED
    BY <1>6, <1>7

\* The old blocks are as sound as they were.
LEMMA AddsSound ==
  ASSUME NEW m, NEW dcl, NEW bs, Heap(m, dcl, bs), NEW dcl2, dcl \subseteq dcl2, NEW bt, Adds(bs, bt),
         NEW b \in 1..Len(bs), NEW k \in 1..Len(bt[b].code)
  PROVE  /\ bt[b].function \in dcl2 /\ (IsTerminator(bt[b].code[k]) => k = Len(bt[b].code))
         /\ InstrSound(m, dcl2, bt, b, bt[b].code[k])
  <1>1. bt[b] = bs[b]
    BY DEF Adds
  <1>2. bt[b].function \in dcl2 /\ (IsTerminator(bt[b].code[k]) => k = Len(bt[b].code))
    BY <1>1 DEF Heap
  <1> DEFINE i == bs[b].code[k]
  <1>3. InstrSound(m, dcl, bs, b, i)
    BY <1>1 DEF Heap
  <1>4. BlockShape(bs) /\ BlockShape(bt) /\ Len(bs) <= Len(bt) /\ Len(bs) \in Nat
    BY SeqFacts DEF Adds, BlockShape
  <1>5. \A c \in 1..Len(bs) : bt[c].function = bs[c].function
    BY DEF Adds
  <1>6. \A c \in 1..Len(bs) : /\ Len(bs[c].code) <= Len(bt[c].code)
                              /\ \A j \in 1..Len(bs[c].code) : bt[c].code[j] = bs[c].code[j]
    BY AddsExtends DEF Extends
  <1>7. \A p, c \in 1..Len(bs) : Dom(bs, p, c) => Dom(bt, p, c)
    BY AddsDom
  <1>8. Into(bt, b) = Into(bs, b) /\ Into(bs, b) \subseteq 1..Len(bs)
    BY AddsInto DEF Into
  <1> HIDE DEF i, Into
  <1>9. InstrSound(m, dcl2, bt, b, i)
    <2>1. \A p \in 1..Len(bs) : bs[p].code # <<>> /\ Dom(bs, p, b) => Dom(bt, p, b)
      BY <1>7
    <2>2. \A p \in 1..Len(bs), q \in Into(bs, b) : bs[p].code # <<>> /\ Dom(bs, p, q) => Dom(bt, p, q)
      BY <1>7, <1>8
    <2> QED
      BY <1>3, <1>4, <1>5, <1>6, <1>8, <2>1, <2>2, InstrKept
  <1> QED
    BY <1>1, <1>2, <1>9 DEF i

LEMMA HeapMore ==
  ASSUME NEW m, NEW dcl, NEW bs, Heap(m, dcl, bs), NEW dcl2, dcl \subseteq dcl2
  PROVE  Heap(m, dcl2, bs)
  <1>1. BlockShape(bs) /\ Len(bs) \in Nat /\ EdgesInside(bs)
    BY HeapShape, HeapEdges
  <1>2. Adds(bs, bs)
    BY <1>1 DEF Adds
  <1> QED
    BY <1>1, <1>2, AddsSound DEF Heap

\* append_basic_block.
NewAt(bs, bt, f, n) ==
  Len(bt) = Len(bs) + n /\ \A c \in Len(bs) + 1..Len(bs) + n : bt[c].function = f /\ bt[c].code = <<>>

LEMMA WithBlocksAdds ==
  ASSUME NEW m, NEW dcl, NEW bs, Heap(m, dcl, bs), NEW f \in dcl, NEW n \in Nat
  PROVE  LET bt == WithBlocks(bs, f, n)
         IN Adds(bs, bt) /\ Heap(m, dcl, bt) /\ NewAt(bs, bt, f, n)
  <1> DEFINE new == [i \in 1..n |-> [function |-> f, code |-> <<>>]]
             bt == WithBlocks(bs, f, n)
  <1>1. BlockShape(bs) /\ Len(bs) \in Nat /\ EdgesInside(bs) /\ IsSeq(bs)
    BY HeapShape, HeapEdges DEF BlockShape
  <1>2. IsSeq(new) /\ Len(new) = n
    <2>1. DOMAIN new = 1..n /\ new = [i \in 1..n |-> new[i]]
      OBVIOUS
    <2> HIDE DEF new
    <2> QED
      BY <2>1, SeqByIndex
  <1>3. \A i \in 1..n : new[i] = [function |-> f, code |-> <<>>]
    OBVIOUS
  <1>4. bt = bs \o new
    BY DEF WithBlocks
  <1> HIDE DEF new, bt
  <1>5. /\ IsSeq(bt) /\ Len(bt) = Len(bs) + n
        /\ \A i \in 1..Len(bs) : bt[i] = bs[i]
        /\ \A i \in 1..n : bt[Len(bs) + i] = new[i]
    <2>1. IsSeq(bs) /\ IsSeq(new)
      BY <1>1, <1>2
    <2>2. /\ IsSeq(bs \o new) /\ Len(bs \o new) = Len(bs) + Len(new)
          /\ \A i \in 1..Len(bs) : (bs \o new)[i] = bs[i]
          /\ \A i \in 1..Len(new) : (bs \o new)[Len(bs) + i] = new[i]
      BY ONLY <2>1, SeqCat
    <2> QED
      BY <1>2, <1>4, <2>2
  <1>6. \A c \in Len(bs) + 1..Len(bs) + n : bt[c] = [function |-> f, code |-> <<>>]
    <2>1. TAKE c \in Len(bs) + 1..Len(bs) + n
    <2>2. c - Len(bs) \in 1..n /\ Len(bs) + (c - Len(bs)) = c
      BY <1>1
    <2> QED
      BY <1>3, <1>5, <2>2
  <1>7. \A c \in 1..Len(bt) : c \in 1..Len(bs) \/ c \in Len(bs) + 1..Len(bs) + n
    BY <1>1, <1>5
  <1>8. BlockShape(bt)
    <2>1. ASSUME NEW c \in 1..Len(bt)
          PROVE  bt[c] = [function |-> bt[c].function, code |-> bt[c].code] /\ IsSeq(bt[c].code)
      <3>1. CASE c \in 1..Len(bs)
        BY <1>1, <1>5, <3>1 DEF BlockShape
      <3>2. CASE c \in Len(bs) + 1..Len(bs) + n
        BY <1>6, <3>2, SeqNone
      <3> QED
        BY <1>7, <3>1, <3>2
    <2> QED
      BY <1>5, <2>1 DEF BlockShape
  <1>9. \A c \in 1..Len(bt) : c \notin 1..Len(bs) => bt[c].code = <<>> /\ bt[c].function = f
    BY <1>6, <1>7
  <1>10. Adds(bs, bt)
    <2>1. Len(bs) <= Len(bt)
      BY <1>1, <1>5
    <2> QED
      BY <1>1, <1>5, <1>8, <1>9, <2>1 DEF Adds, Closed
  <1>11. Heap(m, dcl, bt)
    <2>1. ASSUME NEW c \in 1..Len(bt), NEW k \in 1..Len(bt[c].code)
          PROVE  (IsTerminator(bt[c].code[k]) => k = Len(bt[c].code)) /\ InstrSound(m, dcl, bt, c, bt[c].code[k])
      <3>1. CASE c \in 1..Len(bs)
        <4>1. dcl \subseteq dcl
          OBVIOUS
        <4>2. Heap(m, dcl, bs)
          OBVIOUS
        <4>3. k \in 1..Len(bt[c].code)
          OBVIOUS
        <4>4. /\ bt[c].function \in dcl /\ (IsTerminator(bt[c].code[k]) => k = Len(bt[c].code))
              /\ InstrSound(m, dcl, bt, c, bt[c].code[k])
          BY ONLY <1>10, <3>1, <4>1, <4>2, <4>3, AddsSound
        <4> QED
          BY <4>4
      <3>2. CASE c \notin 1..Len(bs)
        <4>1. Len(bt[c].code) = 0
          BY <1>9, <3>2, SeqNone
        <4> QED
          BY <4>1
      <3> QED
        BY <3>1, <3>2
    <2>2. \A c \in 1..Len(bt) : bt[c].function \in dcl
      <3>1. TAKE c \in 1..Len(bt)
      <3>2. CASE c \in 1..Len(bs)
        BY <1>5, <3>2 DEF Heap
      <3> QED
        BY <1>9, <3>2
    <2> QED
      BY <1>8, <2>1, <2>2 DEF Heap
  <1>12. NewAt(bs, bt, f, n)
    BY <1>5, <1>6 DEF NewAt
  <1> QED
    BY <1>10, <1>11, <1>12 DEF bt

\* The places of the parameters of a function.
AreStores(g, stores) ==
  /\ IsSeq(stores) /\ Len(stores) = Len(g.params)
  /\ \A k \in 1..Len(stores) :
       /\ stores[k].op = "alloca" /\ stores[k].id = k /\ IsSeq(stores[k].args) /\ stores[k].to = <<>>
       /\ \A a \in 1..Len(stores[k].args) : /\ stores[k].args[a].type # "void"
                                            /\ stores[k].args[a].place = <<>>

\* A block with them is added for it.
NewEntry(m, dcl, bs, bt, f, stores) ==
  /\ Adds(bs, bt) /\ Heap(m, dcl \cup {f}, bt) /\ Len(bt) = Len(bs) + 1
  /\ bt[Len(bs) + 1].function = f /\ bt[Len(bs) + 1].code = stores
  /\ EntryOf(bt, f) = Len(bs) + 1 /\ ~Closed(bt, Len(bs) + 1)

\* The first block of a function, with a place for each parameter.
LEMMA EntryAdds ==
  ASSUME NEW m, NEW dcl, NEW bs, Heap(m, dcl, bs), NEW f, f \notin dcl, NEW g, NEW stores, AreStores(g, stores),
         NEW bt, bt = Append(bs, [function |-> f, code |-> stores])
  PROVE  NewEntry(m, dcl, bs, bt, f, stores)
  <1> DEFINE new == [function |-> f, code |-> stores]
             n == Len(bs) + 1
  <1>1. BlockShape(bs) /\ Len(bs) \in Nat /\ EdgesInside(bs) /\ IsSeq(bs)
    BY HeapShape, HeapEdges DEF BlockShape
  <1>2. new.function = f /\ new.code = stores /\ new = [function |-> new.function, code |-> new.code]
    OBVIOUS
  <1>0. /\ IsSeq(stores) /\ bt = Append(bs, new)
        /\ \A k \in 1..Len(stores) :
             /\ stores[k].op = "alloca" /\ IsSeq(stores[k].args) /\ stores[k].to = <<>>
             /\ \A a \in 1..Len(stores[k].args) : stores[k].args[a].type # "void" /\ stores[k].args[a].place = <<>>
    BY DEF AreStores
  <1> HIDE DEF new
  <1>3. /\ IsSeq(bt) /\ Len(bt) = Len(bs) + 1
        /\ \A i \in 1..Len(bs) : bt[i] = bs[i]
        /\ bt[Len(bs) + 1] = new
    BY <1>0, <1>1, SeqAppend
  <1>4. \A c \in 1..Len(bt) : c \in 1..Len(bs) \/ c = n
    BY <1>1, <1>3
  <1>5. BlockShape(bt)
    <2>1. ASSUME NEW c \in 1..Len(bt)
          PROVE  bt[c] = [function |-> bt[c].function, code |-> bt[c].code] /\ IsSeq(bt[c].code)
      <3>1. CASE c \in 1..Len(bs)
        BY <1>1, <1>3, <3>1 DEF BlockShape
      <3>2. CASE c = n
        BY <1>0, <1>2, <1>3, <3>2
      <3> QED
        BY <1>4, <3>1, <3>2
    <2> QED
      BY <1>3, <2>1 DEF BlockShape
  <1>6. \A k \in 1..Len(stores) : ~IsTerminator(stores[k])
    BY <1>0 DEF IsTerminator, Terminators
  <1>7. ~Closed(bt, n)
    <2>1. CASE Len(stores) = 0
      <3>1. stores = <<>>
        BY <2>1, SeqNone
      <3> QED
        BY <1>2, <1>3, <3>1 DEF Closed
    <2>2. CASE Len(stores) # 0
      <3>1. Len(stores) \in 1..Len(stores)
        BY <2>2, SeqFacts
      <3> QED
        BY <1>2, <1>3, <1>6, <3>1 DEF Closed
    <2> QED
      BY <2>1, <2>2
  <1>8. Adds(bs, bt)
    <2>1. Len(bs) <= Len(bt)
      BY <1>1, <1>3
    <2>2. \A c \in 1..Len(bt) : c \notin 1..Len(bs) => ~Closed(bt, c)
      BY <1>4, <1>7
    <2> QED
      BY <1>1, <1>3, <1>5, <2>1, <2>2 DEF Adds
  <1>9. n \in 1..Len(bt)
    BY <1>1, <1>3
  <1>10. EntryOf(bt, f) = n
    <2>1. Len(bt) \in Nat
      BY <1>1, <1>3
    <2>2. bt[n].function = f
      BY <1>2, <1>3
    <2> DEFINE e == EntryOf(bt, f)
    <2>3. e \in 1..Len(bt) /\ bt[e].function = f
      BY <1>9, <2>1, <2>2, EntryExists
    <2> HIDE DEF e
    <2>4. e \notin 1..Len(bs)
      BY <1>3, <2>3 DEF Heap
    <2> QED
      BY <1>4, <2>3, <2>4 DEF e
  <1>11. ASSUME NEW k \in 1..Len(stores) PROVE InstrSound(m, dcl \cup {f}, bt, n, stores[k])
    <2>1. Len(stores[k].to) = 0 /\ IsSeq(stores[k].to)
      BY <1>0, SeqNone
    <2>2. \A a \in 1..Len(stores[k].args) : UseSound(bt, stores[k].args[a], n)
      BY <1>0 DEF UseSound
    <2> DEFINE i == stores[k]
    <2>3. i.op = "alloca" /\ IsSeq(i.args) /\ Len(i.to) = 0 /\ IsSeq(i.to)
      BY <1>0, <2>1
    <2>4. \A a \in 1..Len(i.args) : UseSound(bt, i.args[a], n)
      BY <2>2
    <2> HIDE DEF i, UseSound
    <2>5. InstrSound(m, dcl \cup {f}, bt, n, i)
      BY <2>3, <2>4 DEF InstrSound
    <2> QED
      BY <2>5 DEF i
  <1>12. Heap(m, dcl \cup {f}, bt)
    <2>1. dcl \subseteq dcl \cup {f}
      OBVIOUS
    <2>2. ASSUME NEW c \in 1..Len(bt), NEW k \in 1..Len(bt[c].code)
          PROVE  (IsTerminator(bt[c].code[k]) => k = Len(bt[c].code)) /\ InstrSound(m, dcl \cup {f}, bt, c, bt[c].code[k])
      <3>1. CASE c \in 1..Len(bs)
        <4>1. Heap(m, dcl, bs) /\ k \in 1..Len(bt[c].code)
          OBVIOUS
        <4> DEFINE dcl2 == dcl \cup {f}
        <4>2. dcl \subseteq dcl2
          OBVIOUS
        <4> HIDE DEF dcl2
        <4>3. /\ bt[c].function \in dcl2 /\ (IsTerminator(bt[c].code[k]) => k = Len(bt[c].code))
              /\ InstrSound(m, dcl2, bt, c, bt[c].code[k])
          BY ONLY <1>8, <3>1, <4>1, <4>2, AddsSound
        <4> QED
          BY <4>3 DEF dcl2
      <3>2. CASE c = n
        <4>1. bt[c].code = stores
          BY <1>2, <1>3, <3>2
        <4> QED
          BY <1>6, <1>11, <3>2, <4>1
      <3> QED
        BY <1>4, <3>1, <3>2
    <2>3. \A c \in 1..Len(bt) : bt[c].function \in dcl \cup {f}
      <3>1. TAKE c \in 1..Len(bt)
      <3>2. CASE c \in 1..Len(bs)
        BY <1>3, <3>2 DEF Heap
      <3> QED
        BY <1>2, <1>3, <1>4, <3>2
    <2> QED
      BY <1>5, <2>2, <2>3 DEF Heap
  <1> QED
    BY <1>2, <1>3, <1>7, <1>8, <1>10, <1>12 DEF NewEntry, new

-----------------------------------------------------------------------------
(* What the tasks do, as the type checker sees it: between them the generator*)
(* is in states, of the function it is in, the types of the values there are *)
(* and the functions they are made in (size of them, the uppermost last), the*)
(* variables in scope and the first blocks of the loops it is in.  It is     *)
(* inside of a function but for the last.                                    *)

Typed(type, fn) == [type |-> LlvmType(type), fn |-> fn]
TopIs(s, i, type) == i <= s.size /\ s.stack[s.size + 1 - i] = Typed(type, s.fn)

\* Nothing is reached any more.
Over(s) == s.size # 0 /\ s.stack[s.size].type = "void"

\* n values give way to none, or to one.
Drops(s, u, n) ==
  n <= s.size /\ u.size = s.size - n /\ \A i \in 1..s.size - n : u.stack[i] = s.stack[i]
Gives(s, u, n, type) ==
  /\ n <= s.size /\ u.size = s.size - n + 1 /\ \A i \in 1..s.size - n : u.stack[i] = s.stack[i]
  /\ u.stack[u.size] = Typed(type, s.fn)
Pushed(s, n, type, ids) ==
  [fn |-> s.fn, size |-> s.size - n + 1,
   stack |-> [i \in 1..s.size - n + 1 |-> IF i <= s.size - n THEN s.stack[i] ELSE Typed(type, s.fn)],
   vars |-> ids, loops |-> s.loops, inside |-> TRUE]
Dropped(s, n, ids) ==
  [fn |-> s.fn, size |-> s.size - n, stack |-> s.stack, vars |-> ids, loops |-> s.loops, inside |-> TRUE]

\* An expression is in scope, and these variables are behind it.
Inner(m, f, ids, e, after) ==
  /\ e.kind \in ExpressionKinds
  /\ \E j \in Scopes(m) : j.function = f /\ j.node = e /\ Before(j) = ids /\ After(j) = after
OneOf(s, e) == TopIs(s, 1, e.type) \/ TopIs(s, 1, "never")
RuleValue(t, s, u, e) ==
  /\ t.do = "expect" => TopIs(s, 1, e.type) /\ e.type \in ValueTypes /\ u = s
  /\ t.do = "not" => TopIs(s, 1, "bool") /\ Gives(s, u, 1, "bool") /\ u.vars = s.vars
  /\ t.do = "or" => TopIs(s, 1, "bool") /\ TopIs(s, 2, "bool") /\ Gives(s, u, 2, "bool") /\ u.vars = s.vars
  /\ t.do = "and" => TopIs(s, 1, "bool") /\ Gives(s, u, 1, "bool") /\ u.vars \subseteq s.vars
  /\ t.do = "merge" => /\ OneOf(s, e) /\ (TopIs(s, 1, "never") => t.incoming # <<>>)
                       /\ e.type \in ValueTypes /\ Gives(s, u, 1, e.type) /\ u.vars \subseteq s.vars
  /\ t.do = "last" => TopIs(s, 1, e.type) /\ Gives(s, u, 2, e.type) /\ u.vars = s.vars
  /\ t.do = "val" => /\ TopIs(s, 1, e.subs[1].type) /\ e.subs[1].type \in ValueTypes
                     /\ Gives(s, u, 2, "unit") /\ e.id \in Nat \ s.vars /\ u.vars = s.vars \cup {e.id}
  /\ t.do = "destination" => ~Over(s) /\ e.id \in s.vars /\ u = s
  /\ t.do = "assign" => /\ TopIs(s, 1, e.subs[1].type) /\ e.subs[1].type \in ValueTypes
                        /\ Gives(s, u, 2, "unit") /\ e.id \in s.vars /\ u.vars = s.vars
  /\ t.do = "again" => /\ TopIs(s, 1, e.subs[2].type) /\ e.subs[2].type \in ValueTypes
                       /\ Drops(s, u, 1) /\ u.vars \subseteq s.vars /\ ~Over(u)
RuleParts(m, t, s, u, e) ==
  /\ t.do = "generate" => ~Over(s) /\ Inner(m, s.fn, s.vars, e, u.vars) /\ Gives(s, u, 0, e.type)
  /\ t.do \in {"rhs", "branch", "alternate"} => ~Over(Dropped(s, 1, s.vars))
  /\ t.do = "rhs" => /\ TopIs(s, 1, "bool") /\ Gives(s, u, 1, "bool") /\ u.vars = s.vars
                     /\ e.subs[2].type = "bool" /\ \E after : Inner(m, s.fn, s.vars, e.subs[2], after)
  /\ t.do = "branch" =>
       /\ TopIs(s, 1, "bool") /\ Gives(s, u, 1, e.type) /\ u.vars = s.vars /\ e.type \in ValueTypes
       /\ \A i \in 2..3 : /\ e.subs[i].type \in {e.type, "never"}
                          /\ \E after : Inner(m, s.fn, s.vars, e.subs[i], after)
       /\ \E i \in 2..3 : e.subs[i].type # "never"
  /\ t.do = "alternate" =>
       /\ OneOf(s, e) /\ (TopIs(s, 1, "never") => e.subs[3].type = e.type)
       /\ e.type \in ValueTypes /\ e.subs[3].type \in {e.type, "never"}
       /\ Gives(s, u, 1, e.type) /\ u.vars \subseteq s.vars
       /\ \E after : Inner(m, s.fn, u.vars, e.subs[3], after)
  /\ t.do = "while" =>
       /\ ~Over(s) /\ Drops(s, u, 0) /\ e.subs[1].type = "bool" /\ e.subs[2].type \in ValueTypes
       /\ Inner(m, s.fn, s.vars, e.subs[1], u.vars) /\ \E after : Inner(m, s.fn, u.vars, e.subs[2], after)
  /\ t.do = "body" =>
       /\ TopIs(s, 1, "bool") /\ Drops(s, u, 1) /\ ~Over(u) /\ u.vars = s.vars /\ e.subs[2].type \in ValueTypes
       /\ \E after : Inner(m, s.fn, s.vars, e.subs[2], after)
RuleFunction(m, dcl, t, s, u, e) ==
  /\ t.do = "return" => /\ FunctionIn(m, s.fn).ret \in ValueTypes /\ TopIs(s, 1, FunctionIn(m, s.fn).ret)
                        /\ Gives(s, u, 1, "never") /\ u.vars = s.vars
  /\ t.do = "call" =>
       /\ ~Over(s) /\ e.name \in dcl /\ Gives(s, u, Len(e.subs), e.type) /\ u.vars = s.vars /\ e.type \in Types
       /\ IsSeq(e.subs)
       /\ \A i \in 1..Len(e.subs) : e.subs[i].type \in ValueTypes /\ TopIs(s, Len(e.subs) + 1 - i, e.subs[i].type)
       /\ [i \in 1..Len(e.subs) |-> LlvmType(e.subs[i].type)] = ParamTypes(m, e.name)
  /\ t.do = "end" =>
       /\ e = FunctionIn(m, s.fn) /\ e.ret \in Types /\ (TopIs(s, 1, e.ret) \/ TopIs(s, 1, "never"))
       /\ Drops(s, u, 1) /\ ~Over(u)

\* With these blocks.
Forks == {"branch", "alternate", "merge", "and", "body", "again"}
Tasks == {"generate", "expect", "not", "or", "rhs", "return", "last", "val", "destination", "assign",
          "while", "call", "end"} \cup Forks
Rule(m, dcl, t, s, u) ==
  /\ t.do \in Tasks /\ s.inside /\ s.size \in Nat /\ s.fn \in dcl
  /\ t.do # "end" => u.fn = s.fn /\ u.inside /\ u.loops \subseteq s.loops
  /\ t.do \in {"body", "again"} => t.blocks[1] \in s.loops
  /\ RuleValue(t, s, u, t.node) /\ RuleParts(m, t, s, u, t.node) /\ RuleFunction(m, dcl, t, s, u, t.node)

\* From state to state.
Run(m, dcl, ts, c) ==
  IsSeq(ts) /\ \A k \in 1..Len(ts) : Rule(m, dcl, ts[k], c[k], c[k + 1])
IsLast(s) == ~s.inside /\ s.size = 0 /\ s.vars = {} /\ s.loops = {}

\* The values under those a task uses.
Pops(t) ==
  IF t.do \in {"generate", "destination", "while"} THEN 0
  ELSE IF t.do \in {"or", "last", "val", "assign"} THEN 2
  ELSE IF t.do = "call" THEN Len(t.node.subs)
  ELSE 1
Under(t, s) == s.size - Pops(t)

-----------------------------------------------------------------------------
(* The blocks that tasks go on with.                                         *)

\* Those that nothing has been put into.
Pending(t) ==
  IF t.do = "branch" THEN {t.blocks[1], t.blocks[2], t.blocks[3]}
  ELSE IF t.do \in {"alternate", "and", "body"} THEN {t.blocks[2], t.blocks[3]}
  ELSE IF t.do \in {"merge", "again"} THEN {t.blocks[3]}
  ELSE {}

\* Those of them that nothing leads to yet.
Unreached(t) ==
  IF t.do \in {"branch", "body"} THEN Pending(t)
  ELSE IF t.do \in {"alternate", "and"} THEN {t.blocks[3]}
  ELSE {}

\* The block of a function that waits for another to be generated.
Saved(t, u) == IF t.do = "end" /\ u.inside THEN {t.blocks[1]} ELSE {}
Held(t, u) == Pending(t) \cup Saved(t, u)

\* Those in which what is there now is used.
Awaited(t, u) ==
  IF t.do \in {"alternate", "and"} THEN {t.blocks[2]}
  ELSE IF t.do \in {"merge", "again"} THEN {t.blocks[3]}
  ELSE Saved(t, u)

\* The i-th value from below.
FromBelow(vs, i) == vs[Len(vs) + 1 - i]

\* What has been made where h has it, of the variables, and the first n values
\* of the function, is there at b.
ReadyAt(bs, h, vs, b, s, n) ==
  /\ b \in 1..Len(bs) /\ bs[b].function = s.fn
  /\ \A i \in 1..n : LET v == FromBelow(vs, i)
                     IN v.place # <<>> /\ bs[v.place[1]].function = s.fn => Dom(bs, v.place[1], b)
  /\ \A id \in s.vars : <<s.fn, id>> \in DOMAIN h /\ Dom(bs, h[<<s.fn, id>>], b)
  /\ \A l \in s.loops : Dom(bs, l, b)

\* The first of two branches has gone to the merge block, or not.
MergeSound(bs, t) ==
  \/ t.incoming = <<>> /\ Into(bs, t.blocks[3]) = {}
  \/ \E v, f : /\ t.incoming = <<[value |-> v, from |-> f]>>
               /\ Into(bs, t.blocks[3]) = {f} /\ v.type = LlvmType(t.node.type) /\ UseSound(bs, v, f)
TaskSound(bs, h, vs, t, s, u) ==
  /\ \A b \in Pending(t) : /\ b \in 1..Len(bs) /\ bs[b].code = <<>> /\ bs[b].function = s.fn
                           /\ b # EntryOf(bs, s.fn)
  /\ t.do \in Forks => t.blocks[1] # t.blocks[2] /\ t.blocks[1] # t.blocks[3] /\ t.blocks[2] # t.blocks[3]
  /\ \A b \in Unreached(t) : Into(bs, b) = {}
  /\ \A b \in Awaited(t, u) : ReadyAt(bs, h, vs, b, u, Under(t, s))
  /\ \A b \in Saved(t, u) : ~Closed(bs, b)
  /\ t.do = "merge" => MergeSound(bs, t)
Apart(ts, c) ==
  \A j, k \in 1..Len(ts) : j # k => Held(ts[j], c[j + 1]) \cap Held(ts[k], c[k + 1]) = {}
LoopsSound(bs, ts, c) ==
  \A j \in 1..Len(ts) + 1 : \A l \in c[j].loops :
     /\ l \in 1..Len(bs) /\ NoPhi(bs, l)
     /\ \A k \in 1..Len(ts) : l \notin Pending(ts[k])

\* What is used later is kept until then.
Nested(ts, c) ==
  \A k \in 1..Len(ts) : Awaited(ts[k], c[k + 1]) # {} =>
     \A j \in 1..k : /\ Under(ts[k], c[k]) <= Under(ts[j], c[j])
                     /\ c[j].fn = c[k + 1].fn => c[k + 1].vars \subseteq c[j].vars
Above(ts, c, n, f, ids) ==
  \A k \in 1..Len(ts) : Awaited(ts[k], c[k + 1]) # {} =>
     /\ Under(ts[k], c[k]) <= n
     /\ c[k + 1].fn = f => c[k + 1].vars \subseteq ids

\* The tasks, with blocks that they leave free.
Pile(m, dcl, ts, c, vs, bs, h, free) ==
  /\ Run(m, dcl, ts, c) /\ IsLast(c[Len(ts) + 1])
  /\ \A k \in 1..Len(ts) : TaskSound(bs, h, vs, ts[k], c[k], c[k + 1])
  /\ Apart(ts, c) /\ LoopsSound(bs, ts, c) /\ Nested(ts, c)
  /\ \A k \in 1..Len(ts) : Held(ts[k], c[k + 1]) \cap free = {}

\* The values are those of the state.
ValueSound(bs, v, e) ==
  /\ v.type = e.type /\ (e.type = "void" => v = Never)
  /\ v.place # <<>> => /\ v.place[1] \in 1..Len(bs) /\ bs[v.place[1]].code # <<>>
                       /\ bs[v.place[1]].function = e.fn
Matches(bs, vs, s) ==
  /\ IsSeq(vs) /\ Len(vs) = s.size
  /\ \A i \in 1..s.size : ValueSound(bs, FromBelow(vs, i), s.stack[i])
VarsSound(bs, h) ==
  \A x \in DOMAIN h : h[x] \in 1..Len(bs) /\ bs[h[x]].function = x[1] /\ Allocates(bs, h[x], x[2])
IsCurrent(bs, h, vs, b, s) ==
  /\ (Closed(bs, b) <=> Over(s)) /\ ReadyAt(bs, h, vs, b, s, Len(vs))
Sound(m, dcl, ts, c, vs, bs, h, b) ==
  /\ Pile(m, dcl, ts, c, vs, bs, h, {b}) /\ Heap(m, dcl, bs) /\ VarsSound(bs, h) /\ Matches(bs, vs, c[1])
  /\ ts # <<>> => IsCurrent(bs, h, vs, b, c[1])
  /\ \A d \in 1..Len(bs) : \/ Closed(bs, d) \/ (ts # <<>> /\ d = b)
                           \/ \E k \in 1..Len(ts) : d \in Held(ts[k], c[k + 1])

-----------------------------------------------------------------------------
(* Tasks give way to others.                                                 *)

ChainOf(with, mid, rs, rc) ==
  [k \in 1..Len(with) + Len(rs) + 1 |-> IF k <= Len(with) THEN mid[k] ELSE rc[k - Len(with)]]
RestOf(ts, c) == [k \in 1..Len(ts) |-> c[k + 1]]

LEMMA JoinFacts ==
  ASSUME NEW with, IsSeq(with), NEW rs, IsSeq(rs), NEW mid, NEW rc, mid[Len(with) + 1] = rc[1]
  PROVE  LET ts == with \o rs
             c == ChainOf(with, mid, rs, rc)
         IN /\ IsSeq(ts) /\ Len(ts) = Len(with) + Len(rs) /\ Len(with) \in Nat /\ Len(rs) \in Nat
            /\ \A k \in 1..Len(with) : ts[k] = with[k] /\ c[k] = mid[k] /\ c[k + 1] = mid[k + 1]
            /\ \A k \in 1..Len(rs) :
                 ts[Len(with) + k] = rs[k] /\ c[Len(with) + k] = rc[k] /\ c[Len(with) + k + 1] = rc[k + 1]
            /\ c[Len(with) + Len(rs) + 1] = rc[Len(rs) + 1] /\ c[1] = mid[1]
            /\ \A k \in 1..Len(ts) : k \in 1..Len(with) \/ \E i \in 1..Len(rs) : k = Len(with) + i
            /\ \A k \in 1..Len(ts) + 1 : k \in 1..Len(with) \/ \E i \in 1..Len(rs) + 1 : k = Len(with) + i
  <1> DEFINE ts == with \o rs
             c == ChainOf(with, mid, rs, rc)
             n == Len(with)
             r == Len(rs)
  <1>1. IsSeq(ts) /\ Len(ts) = n + r /\ n \in Nat /\ r \in Nat
        /\ (\A i \in 1..n : ts[i] = with[i]) /\ \A i \in 1..r : ts[n + i] = rs[i]
    BY SeqCat, SeqFacts
  <1> HIDE DEF ts
  <1>2. \A k \in 1..n + r + 1 : c[k] = IF k <= n THEN mid[k] ELSE rc[k - n]
    BY DEF ChainOf
  <1> HIDE DEF c
  <1>3. \A k \in 1..n : k \in 1..n + r + 1 /\ k + 1 \in 1..n + r + 1 /\ k <= n /\ (k + 1 <= n \/ k = n)
    BY <1>1
  <1>4. ASSUME NEW k \in 1..n PROVE c[k] = mid[k] /\ c[k + 1] = mid[k + 1]
    <2>1. c[k] = mid[k]
      BY <1>2, <1>3
    <2>2. CASE k + 1 <= n
      BY <1>2, <1>3, <2>1, <2>2
    <2>3. CASE k = n
      <3>1. ~(n + 1 <= n) /\ (n + 1) - n = 1
        BY <1>1
      <3>2. c[n + 1] = rc[1]
        BY <1>2, <1>3, <2>3, <3>1
      <3> QED
        BY <2>1, <2>3, <3>2
    <2> QED
      BY <1>3, <2>2, <2>3
  <1>5. \A k \in 1..r + 1 : n + k \in 1..n + r + 1 /\ ~(n + k <= n) /\ (n + k) - n = k
    BY <1>1
  <1>6. \A k \in 1..r + 1 : c[n + k] = rc[k]
    BY <1>2, <1>5
  <1>7. ASSUME NEW k \in 1..r PROVE c[n + k] = rc[k] /\ c[n + k + 1] = rc[k + 1]
    <2>1. k \in 1..r + 1 /\ k + 1 \in 1..r + 1 /\ n + k + 1 = n + (k + 1)
      BY <1>1
    <2> QED
      BY <1>6, <2>1
  <1>8. c[n + r + 1] = rc[r + 1]
    <2>1. r + 1 \in 1..r + 1 /\ n + r + 1 = n + (r + 1)
      BY <1>1
    <2> QED
      BY <1>6, <2>1
  <1>9. c[1] = mid[1]
    <2>1. CASE n = 0
      <3>1. 1 \in 1..r + 1 /\ n + 1 = 1
        BY <1>1, <2>1
      <3>2. c[1] = rc[1] /\ mid[n + 1] = rc[1]
        BY <1>6, <3>1
      <3> QED
        BY <3>1, <3>2
    <2>2. CASE n # 0
      BY <1>1, <1>4, <2>2
    <2> QED
      BY <2>1, <2>2
  <1>10. \A k \in 1..n + r + 1 : k \in 1..n \/ k - n \in 1..r + 1
    BY <1>1
  <1>11. \A k \in 1..n + r : k \in 1..n \/ k - n \in 1..r
    BY <1>1
  <1>12. \A k \in 1..n + r + 1 : k = n + (k - n)
    BY <1>1
  <1>13. \A k \in 1..n + r : k = n + (k - n)
    BY <1>1
  <1>14. \A k \in 1..n + r + 1 : k \in 1..n \/ \E i \in 1..r + 1 : k = n + i
    BY <1>10, <1>12
  <1>15. \A k \in 1..n + r : k \in 1..n \/ \E i \in 1..r : k = n + i
    BY <1>11, <1>13
  <1> QED
    BY <1>1, <1>4, <1>7, <1>8, <1>9, <1>14, <1>15 DEF ts, c

LEMMA RunJoin ==
  ASSUME NEW m, NEW dcl, NEW with, NEW mid, Run(m, dcl, with, mid), NEW rs, NEW rc, Run(m, dcl, rs, rc),
         mid[Len(with) + 1] = rc[1]
  PROVE  Run(m, dcl, with \o rs, ChainOf(with, mid, rs, rc))
  <1> DEFINE ts == with \o rs
             c == ChainOf(with, mid, rs, rc)
  <1>1. IsSeq(with) /\ IsSeq(rs) /\ mid[Len(with) + 1] = rc[1]
    BY DEF Run
  <1>2. /\ IsSeq(ts) /\ Len(ts) = Len(with) + Len(rs) /\ Len(with) \in Nat /\ Len(rs) \in Nat
        /\ \A k \in 1..Len(with) : ts[k] = with[k] /\ c[k] = mid[k] /\ c[k + 1] = mid[k + 1]
        /\ \A k \in 1..Len(rs) :
             ts[Len(with) + k] = rs[k] /\ c[Len(with) + k] = rc[k] /\ c[Len(with) + k + 1] = rc[k + 1]
        /\ c[Len(with) + Len(rs) + 1] = rc[Len(rs) + 1] /\ c[1] = mid[1]
        /\ \A k \in 1..Len(ts) : k \in 1..Len(with) \/ \E i \in 1..Len(rs) : k = Len(with) + i
        /\ \A k \in 1..Len(ts) + 1 : k \in 1..Len(with) \/ \E i \in 1..Len(rs) + 1 : k = Len(with) + i
    BY ONLY <1>1, JoinFacts
  <1> HIDE DEF ts, c
  <1>3. ASSUME NEW k \in 1..Len(ts) PROVE Rule(m, dcl, ts[k], c[k], c[k + 1])
    <2>1. CASE k \in 1..Len(with)
      BY <1>2, <2>1 DEF Run
    <2>2. ASSUME NEW i \in 1..Len(rs), k = Len(with) + i PROVE Rule(m, dcl, ts[k], c[k], c[k + 1])
      <3>1. Rule(m, dcl, rs[i], rc[i], rc[i + 1])
        BY DEF Run
      <3> QED
        BY <1>2, <2>2, <3>1
    <2> QED
      BY <1>2, <2>1, <2>2
  <1>4. Run(m, dcl, ts, c)
    BY <1>2, <1>3 DEF Run
  <1> QED
    BY <1>4 DEF ts, c

LEMMA RestFacts ==
  ASSUME NEW ts, IsSeq(ts), ts # <<>>, NEW c
  PROVE  LET rs == Tail(ts)
             rc == RestOf(ts, c)
         IN /\ IsSeq(rs) /\ Len(rs) = Len(ts) - 1 /\ Len(ts) \in Nat \ {0}
            /\ \A k \in 1..Len(rs) : /\ k + 1 \in 1..Len(ts) /\ rs[k] = ts[k + 1]
                                     /\ rc[k] = c[k + 1] /\ rc[k + 1] = c[(k + 1) + 1]
            /\ rc[Len(rs) + 1] = c[Len(ts) + 1] /\ rc[1] = c[2]
            /\ \A k \in 1..Len(rs) + 1 : rc[k] = c[k + 1] /\ k + 1 \in 1..Len(ts) + 1
  <1> DEFINE rs == Tail(ts)
             rc == RestOf(ts, c)
  <1>1. IsSeq(rs) /\ Len(rs) = Len(ts) - 1 /\ Len(ts) \in Nat \ {0} /\ \A k \in 1..Len(ts) - 1 : rs[k] = ts[k + 1]
    BY SeqTail
  <1>2. \A k \in 1..Len(ts) : rc[k] = c[k + 1]
    BY DEF RestOf
  <1> HIDE DEF rs, rc
  <1>3. \A k \in 1..Len(rs) : k + 1 \in 1..Len(ts) /\ k \in 1..Len(ts) /\ k \in 1..Len(ts) - 1
    BY <1>1
  <1>4. \A k \in 1..Len(rs) + 1 : k \in 1..Len(ts) /\ k + 1 \in 1..Len(ts) + 1
    BY <1>1
  <1>5. Len(rs) + 1 = Len(ts) /\ 1 \in 1..Len(ts) /\ Len(ts) \in 1..Len(ts) /\ 1 + 1 = 2
    BY <1>1
  <1> QED
    BY <1>1, <1>2, <1>3, <1>4, <1>5 DEF rs, rc

-----------------------------------------------------------------------------
(* The tasks that a step leaves alone.                                       *)

LEMMA PileTail ==
  ASSUME NEW m, NEW dcl, NEW ts, NEW c, NEW vs, NEW bs, NEW h, NEW free,
         Pile(m, dcl, ts, c, vs, bs, h, free), ts # <<>>
  PROVE  LET rs == Tail(ts)
             rc == RestOf(ts, c)
         IN /\ Pile(m, dcl, rs, rc, vs, bs, h, free \cup Held(ts[1], c[2]))
            /\ Above(rs, rc, Under(ts[1], c[1]), c[1].fn, c[1].vars)
            /\ Above(rs, rc, Under(ts[1], c[1]), c[2].fn, c[2].vars)
  <1> DEFINE rs == Tail(ts)
             rc == RestOf(ts, c)
  <1>1. IsSeq(ts) /\ ts # <<>>
    BY DEF Pile, Run
  <1>2. /\ IsSeq(rs) /\ Len(rs) = Len(ts) - 1 /\ Len(ts) \in Nat \ {0}
        /\ \A k \in 1..Len(rs) : /\ k + 1 \in 1..Len(ts) /\ rs[k] = ts[k + 1]
                                 /\ rc[k] = c[k + 1] /\ rc[k + 1] = c[(k + 1) + 1]
        /\ rc[Len(rs) + 1] = c[Len(ts) + 1] /\ rc[1] = c[2]
        /\ \A k \in 1..Len(rs) + 1 : rc[k] = c[k + 1] /\ k + 1 \in 1..Len(ts) + 1
    BY ONLY <1>1, RestFacts
  <1> HIDE DEF rs, rc
  <1>3. Run(m, dcl, rs, rc)
    BY <1>2 DEF Pile, Run
  <1>4. IsLast(rc[Len(rs) + 1])
    BY <1>2 DEF Pile
  <1>5. \A k \in 1..Len(rs) : TaskSound(bs, h, vs, rs[k], rc[k], rc[k + 1])
    BY <1>2 DEF Pile
  <1>6. Apart(rs, rc)
    <2> SUFFICES ASSUME NEW j \in 1..Len(rs), NEW k \in 1..Len(rs), j # k
                 PROVE  Held(rs[j], rc[j + 1]) \cap Held(rs[k], rc[k + 1]) = {}
      BY DEF Apart
    <2>1. j + 1 # k + 1
      BY <1>2
    <2> QED
      BY <1>2, <2>1 DEF Pile, Apart
  <1>7. LoopsSound(bs, rs, rc)
    <2> SUFFICES ASSUME NEW j \in 1..Len(rs) + 1, NEW l \in rc[j].loops
                 PROVE  /\ l \in 1..Len(bs) /\ NoPhi(bs, l)
                        /\ \A k \in 1..Len(rs) : l \notin Pending(rs[k])
      BY DEF LoopsSound
    <2>1. j + 1 \in 1..Len(ts) + 1 /\ l \in c[j + 1].loops
      BY <1>2
    <2>2. /\ l \in 1..Len(bs) /\ NoPhi(bs, l)
          /\ \A k \in 1..Len(ts) : l \notin Pending(ts[k])
      BY <2>1 DEF Pile, LoopsSound
    <2> QED
      BY <1>2, <2>2
  <1>8. ASSUME NEW k \in 1..Len(rs), Awaited(rs[k], rc[k + 1]) # {}, NEW j \in 1..k + 1
        PROVE  /\ Under(rs[k], rc[k]) <= Under(ts[j], c[j])
               /\ c[j].fn = rc[k + 1].fn => rc[k + 1].vars \subseteq c[j].vars
    <2> DEFINE i == k + 1
    <2>1. i \in 1..Len(ts) /\ rs[k] = ts[i] /\ rc[k] = c[i] /\ rc[k + 1] = c[i + 1] /\ j \in 1..i
      BY <1>2
    <2> HIDE DEF i
    <2>2. Awaited(ts[i], c[i + 1]) # {}
      BY <1>8, <2>1
    <2>3. Nested(ts, c)
      BY DEF Pile
    <2>4. Under(ts[i], c[i]) <= Under(ts[j], c[j]) /\ (c[j].fn = c[i + 1].fn => c[i + 1].vars \subseteq c[j].vars)
      BY <2>1, <2>2, <2>3 DEF Nested
    <2> QED
      BY <2>1, <2>4
  <1>9. Nested(rs, rc)
    <2> SUFFICES ASSUME NEW k \in 1..Len(rs), Awaited(rs[k], rc[k + 1]) # {}, NEW j \in 1..k
                 PROVE  /\ Under(rs[k], rc[k]) <= Under(rs[j], rc[j])
                        /\ rc[j].fn = rc[k + 1].fn => rc[k + 1].vars \subseteq rc[j].vars
      BY DEF Nested
    <2>1. j \in 1..Len(rs) /\ j + 1 \in 1..k + 1
      BY <1>2
    <2>2. rs[j] = ts[j + 1] /\ rc[j] = c[j + 1]
      BY <1>2, <2>1
    <2> QED
      BY <1>8, <2>1, <2>2
  <1>10. \A k \in 1..Len(rs) : Held(rs[k], rc[k + 1]) \cap (free \cup Held(ts[1], c[2])) = {}
    <2>1. TAKE k \in 1..Len(rs)
    <2>2. k + 1 \in 1..Len(ts) /\ 1 \in 1..Len(ts) /\ k + 1 # 1 /\ 1 + 1 = 2
      BY <1>2
    <2>3. Held(ts[k + 1], c[(k + 1) + 1]) \cap Held(ts[1], c[1 + 1]) = {}
      BY <2>2 DEF Pile, Apart
    <2> QED
      BY <1>2, <2>2, <2>3 DEF Pile
  <1>11. Pile(m, dcl, rs, rc, vs, bs, h, free \cup Held(ts[1], c[2]))
    BY <1>3, <1>4, <1>5, <1>6, <1>7, <1>9, <1>10 DEF Pile
  <1>12. ASSUME NEW k \in 1..Len(rs) PROVE 1 \in 1..k + 1 /\ 2 \in 1..k + 1
    BY <1>2
  <1>13. Above(rs, rc, Under(ts[1], c[1]), c[1].fn, c[1].vars)
    BY <1>8, <1>12 DEF Above
  <1>14. Above(rs, rc, Under(ts[1], c[1]), c[2].fn, c[2].vars)
    BY <1>8, <1>12 DEF Above
  <1> QED
    BY <1>11, <1>13, <1>14 DEF rs, rc

LEMMA RuleMore ==
  ASSUME NEW m, NEW dcl, NEW dcl2, dcl \subseteq dcl2, NEW t, NEW s, NEW u, Rule(m, dcl, t, s, u)
  PROVE  Rule(m, dcl2, t, s, u)
  BY DEF Rule, RuleFunction

Keeps(bs, vs, vt, n) ==
  \A i \in 1..n : /\ FromBelow(vt, i) = FromBelow(vs, i)
                  /\ FromBelow(vs, i).place # <<>> =>
                       /\ FromBelow(vs, i).place[1] \in 1..Len(bs)
                       /\ bs[FromBelow(vs, i).place[1]].code # <<>>
KeepsVars(h, h2, f, ids) ==
  \A id \in ids : <<f, id>> \in DOMAIN h => <<f, id>> \in DOMAIN h2 /\ h2[<<f, id>>] = h[<<f, id>>]
Empty(bs, P) == \A p \in P : p \in 1..Len(bs) => bs[p].code = <<>>

LEMMA ReadyKept ==
  ASSUME NEW bs, NEW bt, NEW S, NEW P, NEW L, Extends(bs, bt, S, P, L),
         NEW h, NEW h2, VarsSound(bs, h), NEW vs, NEW vt, NEW b, b \notin P, NEW s, NEW n,
         ReadyAt(bs, h, vs, b, s, n), s.loops \cap P = {}, s.loops \subseteq 1..Len(bs),
         Empty(bs, P), Keeps(bs, vs, vt, n), KeepsVars(h, h2, s.fn, s.vars)
  PROVE  ReadyAt(bt, h2, vt, b, s, n)
  <1>0. \A c \in 1..Len(bs) : c \in 1..Len(bt) /\ bt[c].function = bs[c].function
    BY ExtendsLen DEF Extends
  <1>1. b \in 1..Len(bs) /\ b \in 1..Len(bt) /\ bt[b].function = s.fn
    BY <1>0 DEF ReadyAt
  <1>2. \A p \in 1..Len(bs) : p \notin P /\ Dom(bs, p, b) => Dom(bt, p, b)
    BY <1>1 DEF Extends
  <1>3. ASSUME NEW i \in 1..n, FromBelow(vt, i).place # <<>>, bt[FromBelow(vt, i).place[1]].function = s.fn
        PROVE  Dom(bt, FromBelow(vt, i).place[1], b)
    <2> DEFINE p == FromBelow(vs, i).place[1]
    <2>1. p \in 1..Len(bs) /\ p \notin P /\ FromBelow(vt, i).place[1] = p /\ FromBelow(vs, i).place # <<>>
      BY <1>3 DEF Keeps, Empty
    <2>2. bs[p].function = s.fn
      BY <1>0, <1>3, <2>1
    <2>3. Dom(bs, p, b)
      BY <2>1, <2>2 DEF ReadyAt
    <2> QED
      BY <1>2, <2>1, <2>3
  <1>4. ASSUME NEW id \in s.vars PROVE <<s.fn, id>> \in DOMAIN h2 /\ Dom(bt, h2[<<s.fn, id>>], b)
    <2> DEFINE p == h[<<s.fn, id>>]
    <2>1. <<s.fn, id>> \in DOMAIN h /\ Dom(bs, p, b)
      BY DEF ReadyAt
    <2>2. p \in 1..Len(bs) /\ Allocates(bs, p, <<s.fn, id>>[2])
      BY <2>1 DEF VarsSound
    <2>3. bs[p].code # <<>>
      BY <2>2, SeqNone DEF Allocates
    <2>4. <<s.fn, id>> \in DOMAIN h2 /\ h2[<<s.fn, id>>] = p /\ p \notin P
      BY <2>1, <2>2, <2>3 DEF KeepsVars, Empty
    <2> QED
      BY <1>2, <2>1, <2>2, <2>4
  <1>5. \A l \in s.loops : Dom(bt, l, b)
    BY <1>2 DEF ReadyAt
  <1> QED
    BY <1>1, <1>3, <1>4, <1>5 DEF ReadyAt

LEMMA MergeKept ==
  ASSUME NEW bs, NEW bt, NEW S, NEW P, NEW L, Extends(bs, bt, S, P, L), Empty(bs, P), NEW t,
         MergeSound(bs, t), t.blocks[3] \in 1..Len(bs), t.blocks[3] \notin P \cup L
  PROVE  MergeSound(bt, t)
  <1> DEFINE b == t.blocks[3]
  <1>1. Into(bt, b) = Into(bs, b)
    BY DEF Extends
  <1>2. CASE t.incoming = <<>> /\ Into(bs, b) = {}
    BY <1>1, <1>2 DEF MergeSound
  <1>3. CASE ~(t.incoming = <<>> /\ Into(bs, b) = {})
    <2>1. PICK v, f : /\ t.incoming = <<[value |-> v, from |-> f]>>
                      /\ Into(bs, b) = {f} /\ v.type = LlvmType(t.node.type) /\ UseSound(bs, v, f)
      BY <1>3 DEF MergeSound
    <2>2. f \in 1..Len(bs) /\ bs[f].code # <<>>
      <3>1. f \in Into(bs, b)
        BY <2>1
      <3> QED
        BY <3>1 DEF Into, Follow, Closed
    <2>3. f \notin P
      BY <2>2 DEF Empty
    <2>4. UseSound(bt, v, f)
      <3>1. v.type # "void"
        BY <2>1 DEF UseSound
      <3>2. ASSUME v.place # <<>>
            PROVE  v.place[1] \in 1..Len(bt) /\ bt[v.place[1]].code # <<>> /\ Dom(bt, v.place[1], f)
        <4> DEFINE p == v.place[1]
        <4>1. p \in 1..Len(bs) /\ bs[p].code # <<>> /\ Dom(bs, p, f)
          BY <2>1, <3>2 DEF UseSound
        <4>2. p \notin P
          BY <4>1 DEF Empty
        <4>3. p \in 1..Len(bt) /\ bt[p].code # <<>>
          BY <4>1, ExtendsLen, ExtendsCode
        <4> HIDE DEF p
        <4>4. Dom(bt, p, f)
          BY <2>2, <2>3, <4>1, <4>2 DEF Extends
        <4> QED
          BY <4>3, <4>4 DEF p
      <3> QED
        BY <3>1, <3>2 DEF UseSound
    <2> QED
      BY <1>1, <2>1, <2>4 DEF MergeSound
  <1> QED
    BY <1>2, <1>3

LEMMA TaskKept ==
  ASSUME NEW bs, NEW bt, NEW S, NEW P, NEW L, Extends(bs, bt, S, P, L), Empty(bs, P),
         NEW h, NEW h2, VarsSound(bs, h), NEW vs, NEW vt, NEW t, NEW s, NEW u, TaskSound(bs, h, vs, t, s, u),
         Held(t, u) \cap S = {}, Held(t, u) \cap P = {}, Pending(t) \cap L = {},
         u.loops \cap P = {}, u.loops \subseteq 1..Len(bs),
         Awaited(t, u) # {} => Keeps(bs, vs, vt, Under(t, s)) /\ KeepsVars(h, h2, u.fn, u.vars)
  PROVE  TaskSound(bt, h2, vt, t, s, u)
  <1>0. Len(bs) \in Nat /\ Len(bt) \in Nat /\ Len(bs) <= Len(bt) /\ \A c \in 1..Len(bs) : c \in 1..Len(bt)
    BY ExtendsLen
  <1>1. ASSUME NEW b \in Pending(t)
        PROVE  b \in 1..Len(bt) /\ bt[b].code = <<>> /\ bt[b].function = s.fn /\ b # EntryOf(bt, s.fn)
    <2>1. b \in 1..Len(bs) /\ bs[b].code = <<>> /\ bs[b].function = s.fn /\ b # EntryOf(bs, s.fn)
      BY DEF TaskSound
    <2>2. bt[b] = bs[b]
      BY <2>1 DEF Extends, Held
    <2>3. \A c \in 1..Len(bs) : bt[c].function = bs[c].function
      BY DEF Extends
    <2>4. EntryOf(bt, bs[b].function) = EntryOf(bs, bs[b].function)
      BY <1>0, <2>1, <2>3, EntryStays
    <2> QED
      BY <1>0, <2>1, <2>2, <2>4
  <1>2. ASSUME NEW b \in Unreached(t) PROVE Into(bt, b) = {}
    <2>1. b \in Pending(t)
      BY DEF Unreached, Pending
    <2>2. b \in 1..Len(bs) /\ b \notin P \cup L /\ Into(bs, b) = {}
      BY <2>1 DEF TaskSound, Held
    <2> QED
      BY <2>2 DEF Extends
  <1>3. ASSUME NEW b \in Awaited(t, u) PROVE ReadyAt(bt, h2, vt, b, u, Under(t, s))
    <2>1. b \notin P
      BY DEF Awaited, Held, Pending
    <2>2. ReadyAt(bs, h, vs, b, u, Under(t, s))
      BY DEF TaskSound
    <2>3. Keeps(bs, vs, vt, Under(t, s)) /\ KeepsVars(h, h2, u.fn, u.vars)
      BY <1>3
    <2> QED
      BY <2>1, <2>2, <2>3, ReadyKept
  <1>4. ASSUME NEW b \in Saved(t, u) PROVE ~Closed(bt, b)
    <2>1. b \in Awaited(t, u)
      BY DEF Awaited, Saved
    <2>2. b \in 1..Len(bs) /\ ~Closed(bs, b)
      BY <2>1 DEF TaskSound, ReadyAt
    <2>3. bt[b] = bs[b]
      BY <2>2 DEF Extends, Held
    <2> QED
      BY <2>2, <2>3 DEF Closed
  <1>5. ASSUME t.do = "merge" PROVE MergeSound(bt, t)
    <2>1. t.blocks[3] \in Pending(t) /\ MergeSound(bs, t)
      BY <1>5 DEF Pending, TaskSound
    <2>2. t.blocks[3] \in 1..Len(bs) /\ t.blocks[3] \notin P \cup L
      BY <2>1 DEF TaskSound, Held
    <2> QED
      BY <2>1, <2>2, MergeKept
  <1>6. t.do \in Forks => t.blocks[1] # t.blocks[2] /\ t.blocks[1] # t.blocks[3] /\ t.blocks[2] # t.blocks[3]
    BY DEF TaskSound
  <1> QED
    BY <1>1, <1>2, <1>3, <1>4, <1>5, <1>6 DEF TaskSound

LEMMA PileKept ==
  ASSUME NEW m, NEW dcl, NEW rs, NEW rc, NEW vs, NEW bs, NEW h, NEW free,
         Pile(m, dcl, rs, rc, vs, bs, h, free), NEW dcl2, dcl \subseteq dcl2,
         NEW n \in Int, NEW f, NEW ids, Above(rs, rc, n, f, ids), \A k \in 1..Len(rs) : Under(rs[k], rc[k]) \in Int,
         NEW bt, NEW S, NEW P, NEW L, Extends(bs, bt, S, P, L), Empty(bs, P),
         \A b \in S \cup P : b \in 1..Len(bs) => b \in free,
         \A k \in 1..Len(rs) : Pending(rs[k]) \cap L = {},
         \A j \in 1..Len(rs) + 1 : rc[j].loops \cap P = {},
         NEW vt, Keeps(bs, vs, vt, n), NEW h2, VarsSound(bs, h),
         \A x \in DOMAIN h : x \in DOMAIN h2 /\ (h2[x] = h[x] \/ (x[1] = f /\ x[2] \notin ids))
  PROVE  Pile(m, dcl2, rs, rc, vt, bt, h2, free \cup {b \in 1..Len(bt) : b \notin 1..Len(bs)})
  <1>0. Len(bs) \in Nat /\ Len(bt) \in Nat /\ Len(bs) <= Len(bt) /\ \A c \in 1..Len(bs) : c \in 1..Len(bt)
    BY ExtendsLen
  <1>1. Run(m, dcl2, rs, rc)
    BY RuleMore DEF Pile, Run
  <1>2. \A k \in 1..Len(rs) : Held(rs[k], rc[k + 1]) \subseteq 1..Len(bs)
    <2> SUFFICES ASSUME NEW k \in 1..Len(rs), NEW b \in Held(rs[k], rc[k + 1]) PROVE b \in 1..Len(bs)
      OBVIOUS
    <2>1. TaskSound(bs, h, vs, rs[k], rc[k], rc[k + 1])
      BY DEF Pile
    <2>2. CASE b \in Pending(rs[k])
      BY <2>1, <2>2 DEF TaskSound
    <2>3. CASE b \in Saved(rs[k], rc[k + 1])
      <3>1. b \in Awaited(rs[k], rc[k + 1])
        BY <2>3 DEF Awaited, Saved
      <3> QED
        BY <2>1, <3>1 DEF TaskSound, ReadyAt
    <2> QED
      BY <2>2, <2>3 DEF Held
  <1>3. ASSUME NEW k \in 1..Len(rs) PROVE TaskSound(bt, h2, vt, rs[k], rc[k], rc[k + 1])
    <2> DEFINE t == rs[k]
               s == rc[k]
               u == rc[k + 1]
    <2>1. TaskSound(bs, h, vs, t, s, u)
      BY DEF Pile
    <2>2. Held(t, u) \cap S = {} /\ Held(t, u) \cap P = {}
      <3>1. Held(t, u) \subseteq 1..Len(bs) /\ Held(t, u) \cap free = {}
        BY <1>2 DEF Pile
      <3> QED
        BY <3>1
    <2>3. Pending(t) \cap L = {}
      OBVIOUS
    <2>4. u.loops \cap P = {} /\ u.loops \subseteq 1..Len(bs)
      <3>1. IsSeq(rs)
        BY DEF Pile, Run
      <3>2. Len(rs) \in Nat
        BY <3>1, SeqFacts
      <3>3. k + 1 \in 1..Len(rs) + 1
        BY <3>2
      <3> QED
        BY <3>3 DEF Pile, LoopsSound
    <2>5. ASSUME Awaited(t, u) # {}
          PROVE  Keeps(bs, vs, vt, Under(t, s)) /\ KeepsVars(h, h2, u.fn, u.vars)
      <3>1. Under(t, s) <= n /\ Under(t, s) \in Int /\ (u.fn = f => u.vars \subseteq ids)
        BY <2>5 DEF Above
      <3>2. \A i \in 1..Under(t, s) : i \in 1..n
        BY <3>1
      <3>3. Keeps(bs, vs, vt, Under(t, s))
        BY <3>2 DEF Keeps
      <3>4. KeepsVars(h, h2, u.fn, u.vars)
        <4> SUFFICES ASSUME NEW id \in u.vars, <<u.fn, id>> \in DOMAIN h
                     PROVE  <<u.fn, id>> \in DOMAIN h2 /\ h2[<<u.fn, id>>] = h[<<u.fn, id>>]
          BY DEF KeepsVars
        <4>1. <<u.fn, id>>[1] = u.fn /\ <<u.fn, id>>[2] = id
          OBVIOUS
        <4> QED
          BY <3>1, <4>1
      <3> QED
        BY <3>3, <3>4
    <2> HIDE DEF t, s, u
    <2>6. TaskSound(bt, h2, vt, t, s, u)
      BY <2>1, <2>2, <2>3, <2>4, <2>5, TaskKept
    <2> QED
      BY <2>6 DEF t, s, u
  <1>4. LoopsSound(bt, rs, rc)
    <2> SUFFICES ASSUME NEW j \in 1..Len(rs) + 1, NEW l \in rc[j].loops
                 PROVE  l \in 1..Len(bt) /\ NoPhi(bt, l) /\ \A k \in 1..Len(rs) : l \notin Pending(rs[k])
      BY DEF LoopsSound
    <2>1. l \in 1..Len(bs) /\ NoPhi(bs, l) /\ \A k \in 1..Len(rs) : l \notin Pending(rs[k])
      BY DEF Pile, LoopsSound
    <2>2. l \notin P
      OBVIOUS
    <2> QED
      BY <1>0, <2>1, <2>2 DEF Extends
  <1>5. \A k \in 1..Len(rs) :
          Held(rs[k], rc[k + 1]) \cap (free \cup {b \in 1..Len(bt) : b \notin 1..Len(bs)}) = {}
    BY <1>2 DEF Pile
  <1> QED
    BY <1>1, <1>3, <1>4, <1>5 DEF Pile

\* Tasks in front of others.  Only the last of them may hold blocks.
Fits(bs, h, vs, with, mid, rs, rc, free, left) ==
  /\ \A j \in 1..Len(with) :
       LET t == with[Len(with)]
           u == mid[Len(with) + 1]
       IN /\ TaskSound(bs, h, vs, with[j], mid[j], mid[j + 1])
          /\ j # Len(with) => Held(with[j], mid[j + 1]) = {}
          /\ Held(t, u) \subseteq free /\ Held(t, u) \cap left = {}
          /\ Awaited(t, u) # {} => /\ Under(t, mid[Len(with)]) <= Under(with[j], mid[j])
                                   /\ mid[j].fn = u.fn => u.vars \subseteq mid[j].vars
          /\ \A l \in mid[j].loops : /\ l \in 1..Len(bs) /\ NoPhi(bs, l) /\ l \notin Pending(t)
                                     /\ \A k \in 1..Len(rs) : l \notin Pending(rs[k])
          /\ \A k \in 1..Len(rs) + 1 : rc[k].loops \cap Pending(t) = {}
          /\ \A k \in 1..Len(rs) : Awaited(rs[k], rc[k + 1]) # {} =>
               /\ Under(rs[k], rc[k]) <= Under(with[j], mid[j])
               /\ mid[j].fn = rc[k + 1].fn => rc[k + 1].vars \subseteq mid[j].vars
  /\ left \subseteq free

LEMMA AwaitedHeld ==
  ASSUME NEW t, NEW u
  PROVE  Awaited(t, u) \subseteq Held(t, u)
  BY DEF Awaited, Held, Pending, Saved

LEMMA PileJoin ==
  ASSUME NEW m, NEW dcl, NEW rs, NEW rc, NEW vs, NEW bs, NEW h, NEW free,
         Pile(m, dcl, rs, rc, vs, bs, h, free), NEW with, NEW mid, Run(m, dcl, with, mid),
         mid[Len(with) + 1] = rc[1], NEW left, Fits(bs, h, vs, with, mid, rs, rc, free, left)
  PROVE  Pile(m, dcl, with \o rs, ChainOf(with, mid, rs, rc), vs, bs, h, left)
  <1> DEFINE ts == with \o rs
             c == ChainOf(with, mid, rs, rc)
             n == Len(with)
             t == with[n]
             u == mid[n + 1]
  <1>1. IsSeq(with) /\ IsSeq(rs) /\ mid[Len(with) + 1] = rc[1]
    BY DEF Pile, Run
  <1>2. /\ IsSeq(ts) /\ Len(ts) = Len(with) + Len(rs) /\ Len(with) \in Nat /\ Len(rs) \in Nat
        /\ \A k \in 1..Len(with) : ts[k] = with[k] /\ c[k] = mid[k] /\ c[k + 1] = mid[k + 1]
        /\ \A k \in 1..Len(rs) :
             ts[Len(with) + k] = rs[k] /\ c[Len(with) + k] = rc[k] /\ c[Len(with) + k + 1] = rc[k + 1]
        /\ c[Len(with) + Len(rs) + 1] = rc[Len(rs) + 1] /\ c[1] = mid[1]
        /\ \A k \in 1..Len(ts) : k \in 1..Len(with) \/ \E i \in 1..Len(rs) : k = Len(with) + i
        /\ \A k \in 1..Len(ts) + 1 : k \in 1..Len(with) \/ \E i \in 1..Len(rs) + 1 : k = Len(with) + i
    BY ONLY <1>1, JoinFacts
  <1>3. Run(m, dcl, ts, c)
    <2>1. Run(m, dcl, rs, rc)
      BY DEF Pile
    <2> QED
      BY <2>1, RunJoin
  <1> HIDE DEF ts, c
  <1>4. \A j \in 1..n :
          /\ TaskSound(bs, h, vs, with[j], mid[j], mid[j + 1])
          /\ j # n => Held(with[j], mid[j + 1]) = {}
          /\ Held(t, u) \subseteq free /\ Held(t, u) \cap left = {}
          /\ Awaited(t, u) # {} => /\ Under(t, mid[n]) <= Under(with[j], mid[j])
                                   /\ mid[j].fn = u.fn => u.vars \subseteq mid[j].vars
          /\ \A l \in mid[j].loops : /\ l \in 1..Len(bs) /\ NoPhi(bs, l) /\ l \notin Pending(t)
                                     /\ \A k \in 1..Len(rs) : l \notin Pending(rs[k])
          /\ \A k \in 1..Len(rs) + 1 : rc[k].loops \cap Pending(t) = {}
          /\ \A k \in 1..Len(rs) : Awaited(rs[k], rc[k + 1]) # {} =>
               /\ Under(rs[k], rc[k]) <= Under(with[j], mid[j])
               /\ mid[j].fn = rc[k + 1].fn => rc[k + 1].vars \subseteq mid[j].vars
    BY DEF Fits
  <1>5. \A k \in 1..Len(ts) : TaskSound(bs, h, vs, ts[k], c[k], c[k + 1])
    <2>1. TAKE k \in 1..Len(ts)
    <2>2. CASE k \in 1..n
      BY <1>2, <1>4, <2>2
    <2>3. ASSUME NEW i \in 1..Len(rs), k = n + i PROVE TaskSound(bs, h, vs, ts[k], c[k], c[k + 1])
      <3>1. TaskSound(bs, h, vs, rs[i], rc[i], rc[i + 1])
        BY DEF Pile
      <3> QED
        BY <1>2, <2>3, <3>1
    <2> QED
      BY <1>2, <2>2, <2>3
  <1>6. \A k \in 1..Len(ts) :
          \/ k \in 1..n /\ k # n /\ Held(ts[k], c[k + 1]) = {}
          \/ k = n /\ n \in 1..n /\ Held(ts[k], c[k + 1]) = Held(t, u) /\ Held(t, u) \subseteq free
          \/ \E i \in 1..Len(rs) : /\ k = n + i /\ Held(ts[k], c[k + 1]) = Held(rs[i], rc[i + 1])
                                   /\ Held(rs[i], rc[i + 1]) \cap free = {}
    <2>1. TAKE k \in 1..Len(ts)
    <2>2. CASE k \in 1..n
      BY <1>2, <1>4, <2>2, ZenonT(30)
    <2>3. ASSUME NEW i \in 1..Len(rs), k = n + i
          PROVE  /\ k = n + i /\ Held(ts[k], c[k + 1]) = Held(rs[i], rc[i + 1])
                 /\ Held(rs[i], rc[i + 1]) \cap free = {}
      <3>1. ts[n + i] = rs[i] /\ c[n + i + 1] = rc[i + 1]
        BY <1>2
      <3>2. Held(rs[i], rc[i + 1]) \cap free = {}
        BY DEF Pile
      <3> QED
        BY <2>3, <3>1, <3>2
    <2> QED
      BY <1>2, <2>2, <2>3
  <1>7. Apart(ts, c)
    <2> SUFFICES ASSUME NEW j \in 1..Len(ts), NEW k \in 1..Len(ts), j # k
                 PROVE  Held(ts[j], c[j + 1]) \cap Held(ts[k], c[k + 1]) = {}
      BY DEF Apart
    <2>1. CASE Held(ts[j], c[j + 1]) = {} \/ Held(ts[k], c[k + 1]) = {}
      BY <2>1
    <2>2. CASE j = n \/ k = n
      <3>1. \A i \in 1..Len(rs) : n + i # n
        BY <1>2
      <3>2. ASSUME NEW a \in 1..Len(ts), a = n PROVE Held(ts[a], c[a + 1]) \subseteq free
        BY <1>6, <3>1, <3>2
      <3>3. ASSUME NEW a \in 1..Len(ts), a # n PROVE Held(ts[a], c[a + 1]) \cap free = {}
        BY <1>6, <3>3
      <3>4. CASE j = n
        <4>1. Held(ts[j], c[j + 1]) \subseteq free
          BY <3>2, <3>4
        <4>2. Held(ts[k], c[k + 1]) \cap free = {}
          BY <3>3, <3>4
        <4> QED
          BY <4>1, <4>2
      <3>5. CASE k = n
        <4>1. Held(ts[k], c[k + 1]) \subseteq free
          BY <3>2, <3>5
        <4>2. Held(ts[j], c[j + 1]) \cap free = {}
          BY <3>3, <3>5
        <4> QED
          BY <4>1, <4>2
      <3> QED
        BY <2>2, <3>4, <3>5
    <2>3. CASE j # n /\ k # n /\ Held(ts[j], c[j + 1]) # {} /\ Held(ts[k], c[k + 1]) # {}
      <3>1. PICK i \in 1..Len(rs) : j = n + i /\ Held(ts[j], c[j + 1]) = Held(rs[i], rc[i + 1])
        BY <1>6, <2>3
      <3>2. PICK l \in 1..Len(rs) : k = n + l /\ Held(ts[k], c[k + 1]) = Held(rs[l], rc[l + 1])
        BY <1>6, <2>3
      <3>3. i # l
        BY <3>1, <3>2
      <3>4. Held(rs[i], rc[i + 1]) \cap Held(rs[l], rc[l + 1]) = {}
        BY <3>3 DEF Pile, Apart
      <3> QED
        BY <3>1, <3>2, <3>4
    <2> QED
      BY <2>1, <2>2, <2>3
  <1>8. LoopsSound(bs, ts, c)
    <2> SUFFICES ASSUME NEW j \in 1..Len(ts) + 1, NEW l \in c[j].loops
                 PROVE  l \in 1..Len(bs) /\ NoPhi(bs, l) /\ \A k \in 1..Len(ts) : l \notin Pending(ts[k])
      BY DEF LoopsSound
    <2>1. /\ l \in 1..Len(bs) /\ NoPhi(bs, l) /\ (n # 0 => l \notin Pending(t))
          /\ \A k \in 1..Len(rs) : l \notin Pending(rs[k])
      <3>1. CASE j \in 1..n
        BY <1>2, <1>4, <3>1
      <3>2. ASSUME NEW i \in 1..Len(rs) + 1, j = n + i
            PROVE  /\ l \in 1..Len(bs) /\ NoPhi(bs, l) /\ (n # 0 => l \notin Pending(t))
                   /\ \A k \in 1..Len(rs) : l \notin Pending(rs[k])
        <4>1. i \in 1..Len(rs) \/ i = Len(rs) + 1
          BY <1>2
        <4>4. n + (Len(rs) + 1) = n + Len(rs) + 1
          BY <1>2
        <4>2. c[n + i] = rc[i]
          BY <1>2, <4>1, <4>4
        <4>3. n # 0 => 1 \in 1..n
          BY <1>2
        <4> QED
          BY <1>4, <3>2, <4>2, <4>3 DEF Pile, LoopsSound
      <3> QED
        BY <1>2, <3>1, <3>2
    <2>2. ASSUME NEW k \in 1..Len(ts) PROVE l \notin Pending(ts[k])
      <3>1. CASE k \in 1..n
        <4>1. k = n \/ Pending(with[k]) = {}
          BY <1>4, <3>1 DEF Held
        <4> QED
          BY <1>2, <2>1, <3>1, <4>1
      <3>2. ASSUME NEW i \in 1..Len(rs), k = n + i PROVE l \notin Pending(ts[k])
        BY <1>2, <2>1, <3>2
      <3> QED
        BY <1>2, <3>1, <3>2
    <2> QED
      BY <2>1, <2>2
  <1>9. Nested(ts, c)
    <2> SUFFICES ASSUME NEW k \in 1..Len(ts), Awaited(ts[k], c[k + 1]) # {}, NEW j \in 1..k
                 PROVE  /\ Under(ts[k], c[k]) <= Under(ts[j], c[j])
                        /\ c[j].fn = c[k + 1].fn => c[k + 1].vars \subseteq c[j].vars
      BY DEF Nested
    <2>0. j \in 1..Len(ts)
      BY <1>2
    <2>1. CASE k \in 1..n
      <3>1. k = n
        <4>1. Held(ts[k], c[k + 1]) # {}
          BY AwaitedHeld
        <4> QED
          BY <1>2, <1>4, <2>1, <4>1
      <3>2. ts[k] = t /\ c[k] = mid[n] /\ c[k + 1] = u /\ j \in 1..n
        BY <1>2, <2>1, <3>1
      <3> QED
        BY <1>2, <1>4, <3>2
    <2>2. ASSUME NEW i \in 1..Len(rs), k = n + i
          PROVE  /\ Under(ts[k], c[k]) <= Under(ts[j], c[j])
                 /\ c[j].fn = c[k + 1].fn => c[k + 1].vars \subseteq c[j].vars
      <3>1. ts[k] = rs[i] /\ c[k] = rc[i] /\ c[k + 1] = rc[i + 1] /\ Awaited(rs[i], rc[i + 1]) # {}
        BY <1>2, <2>2
      <3>2. CASE j \in 1..n
        <4>1. ts[j] = with[j] /\ c[j] = mid[j]
          BY <1>2, <3>2
        <4>2. /\ Under(rs[i], rc[i]) <= Under(with[j], mid[j])
              /\ mid[j].fn = rc[i + 1].fn => rc[i + 1].vars \subseteq mid[j].vars
          BY <1>4, <3>1, <3>2
        <4> QED
          BY <3>1, <4>1, <4>2
      <3>3. ASSUME NEW q \in 1..Len(rs), j = n + q
            PROVE  /\ Under(ts[k], c[k]) <= Under(ts[j], c[j])
                   /\ c[j].fn = c[k + 1].fn => c[k + 1].vars \subseteq c[j].vars
        <4>1. q \in 1..i
          BY <1>2, <2>2, <3>3
        <4>2. ts[j] = rs[q] /\ c[j] = rc[q]
          BY <1>2, <3>3
        <4> QED
          BY <3>1, <4>1, <4>2, ZenonT(30) DEF Pile, Nested
      <3> QED
        BY <1>2, <2>0, <3>2, <3>3
    <2> QED
      BY <1>2, <2>1, <2>2
  <1>10. \A k \in 1..Len(ts) : Held(ts[k], c[k + 1]) \cap left = {}
    <2>1. TAKE k \in 1..Len(ts)
    <2>2. left \subseteq free
      BY DEF Fits
    <2> QED
      BY <1>4, <1>6, <2>2
  <1>11. IsLast(c[Len(ts) + 1])
    BY <1>2 DEF Pile
  <1>12. Pile(m, dcl, ts, c, vs, bs, h, left)
    BY <1>3, <1>5, <1>7, <1>8, <1>9, <1>10, <1>11 DEF Pile
  <1> QED
    BY <1>12 DEF ts, c

-----------------------------------------------------------------------------
(* A step.                                                                   *)

\* Task t, from s to u, becomes the tasks with, and the builder is at b.  What
\* is used later is not touched.
Goes(bs, bt, h, vs, t, s, u, with, mid, b) ==
  \A j \in 1..Len(with) :
    LET z == with[Len(with)]
    IN /\ mid[j].fn = s.fn /\ Under(t, s) <= Under(with[j], mid[j])
       /\ s.vars \subseteq mid[j].vars \/ (u.fn = s.fn /\ u.vars \subseteq mid[j].vars)
       /\ \A l \in mid[j].loops :
            l \in s.loops \/ (l \notin 1..Len(bs) /\ l \in 1..Len(bt) /\ NoPhi(bt, l) /\ l \notin Pending(z))
       /\ with[j].do # "end" /\ (j # Len(with) => Pending(with[j]) = {})
       /\ TaskSound(bt, h, vs, z, mid[Len(with)], u)
       /\ \A d \in Pending(z) : d # b /\ (d \in Pending(t) \/ d \notin 1..Len(bs))
       /\ Awaited(z, u) # {} => Under(z, mid[Len(with)]) <= Under(with[j], mid[j]) /\ u.vars \subseteq mid[j].vars

LEMMA PlainSound ==
  ASSUME NEW bs, NEW h, NEW vs, NEW t, NEW s, NEW u, Pending(t) = {}, t.do # "end"
  PROVE  TaskSound(bs, h, vs, t, s, u) /\ Held(t, u) = {}
  <1>1. t.do \notin Forks
    BY DEF Forks, Pending
  <1>2. Unreached(t) = {} /\ Awaited(t, u) = {} /\ Saved(t, u) = {}
    BY <1>1 DEF Forks, Unreached, Awaited, Saved
  <1> QED
    BY <1>1, <1>2 DEF TaskSound, Held, Forks

LEMMA RuleUnder ==
  ASSUME NEW m, NEW dcl, NEW t, NEW s, NEW u, Rule(m, dcl, t, s, u), t.do = "call" => IsSeq(t.node.subs)
  PROVE  Under(t, s) \in Int /\ Pops(t) \in Nat /\ s.size \in Nat
  <1>1. s.size \in Nat
    BY DEF Rule
  <1>2. Pops(t) \in Nat
    BY SeqFacts DEF Pops
  <1> QED
    BY <1>1, <1>2 DEF Under

LEMMA CallSubs ==
  ASSUME NEW m, NEW dcl, NEW t, NEW s, NEW u, Rule(m, dcl, t, s, u)
  PROVE  t.do = "call" => IsSeq(t.node.subs)
  BY DEF Rule, RuleFunction

\* The first task waits with blocks that are not used, and not left out.
LEMMA FirstTask ==
  ASSUME NEW m, NEW dcl, NEW ts, NEW c, NEW vs, NEW bs, NEW h, NEW free,
         Pile(m, dcl, ts, c, vs, bs, h, free), ts # <<>>
  PROVE  /\ Rule(m, dcl, ts[1], c[1], c[2]) /\ TaskSound(bs, h, vs, ts[1], c[1], c[2])
         /\ Len(ts) \in Nat \ {0} /\ IsSeq(ts)
         /\ \A j \in 1..Len(ts) + 1 : \A l \in c[j].loops : l \in 1..Len(bs) /\ NoPhi(bs, l) /\ l \notin Pending(ts[1])
  <1>1. IsSeq(ts)
    BY DEF Pile, Run
  <1>2. Len(ts) \in Nat \ {0}
    BY <1>1, SeqFacts, SeqNone
  <1>3. 1 \in 1..Len(ts) /\ 1 + 1 = 2
    BY <1>2
  <1> QED
    BY <1>1, <1>2, <1>3 DEF Pile, Run, LoopsSound

LEMMA GoesFits ==
  ASSUME NEW m, NEW dcl, NEW ts, NEW c, NEW vs, NEW bs, NEW h, NEW a, Pile(m, dcl, ts, c, vs, bs, h, {a}), ts # <<>>,
         NEW bt, NEW S, NEW P, NEW L, Extends(bs, bt, S, P, L), \A p \in P : p \in 1..Len(bs) => p \in Pending(ts[1]),
         NEW h2, NEW vt, NEW b, NEW with, NEW mid, Run(m, dcl, with, mid), mid[Len(with) + 1] = c[2],
         Goes(bs, bt, h2, vt, ts[1], c[1], c[2], with, mid, b),
         NEW free, {b} \subseteq free, Held(ts[1], c[2]) \subseteq free,
         \A d : d \in 1..Len(bt) /\ d \notin 1..Len(bs) => d \in free
  PROVE  Fits(bt, h2, vt, with, mid, Tail(ts), RestOf(ts, c), free, {b})
  <1> DEFINE rs == Tail(ts)
             rc == RestOf(ts, c)
             n == Len(with)
             z == with[n]
             u == mid[n + 1]
             t == ts[1]
  <1>1. /\ IsSeq(ts) /\ ts # <<>> /\ Len(ts) \in Nat \ {0} /\ Len(with) \in Nat
        /\ \A j \in 1..Len(ts) + 1 : \A l \in c[j].loops : l \in 1..Len(bs) /\ NoPhi(bs, l) /\ l \notin Pending(t)
    <2>1. Len(with) \in Nat
      BY SeqFacts DEF Run
    <2> QED
      BY <2>1, FirstTask DEF Run
  <1>2. /\ IsSeq(rs) /\ Len(rs) = Len(ts) - 1 /\ Len(ts) \in Nat \ {0}
        /\ \A k \in 1..Len(rs) : /\ k + 1 \in 1..Len(ts) /\ rs[k] = ts[k + 1]
                                 /\ rc[k] = c[k + 1] /\ rc[k + 1] = c[(k + 1) + 1]
        /\ rc[Len(rs) + 1] = c[Len(ts) + 1] /\ rc[1] = c[2]
        /\ \A k \in 1..Len(rs) + 1 : rc[k] = c[k + 1] /\ k + 1 \in 1..Len(ts) + 1
    BY ONLY <1>1, RestFacts
  <1>3. /\ Above(rs, rc, Under(t, c[1]), c[1].fn, c[1].vars)
        /\ Above(rs, rc, Under(t, c[1]), c[2].fn, c[2].vars)
        /\ Run(m, dcl, rs, rc)
    BY PileTail DEF Pile
  <1>4. \A k \in 1..Len(ts) : \A l \in c[1].loops : l \notin Pending(ts[k])
    BY <1>1 DEF Pile, LoopsSound
  <1>5. Len(bs) \in Nat /\ Len(bt) \in Nat /\ Len(bs) <= Len(bt) /\ \A d \in 1..Len(bs) : d \in 1..Len(bt)
    BY ExtendsLen
  <1>6. \A k \in 1..Len(rs) : Pending(rs[k]) \subseteq 1..Len(bs)
    BY <1>2 DEF Pile, TaskSound
  <1>7. \A k \in 1..Len(rs) : Under(rs[k], rc[k]) \in Int
    BY <1>3, RuleUnder, CallSubs DEF Run
  <1> HIDE DEF rs, rc
  <1> SUFFICES ASSUME NEW j \in 1..n
               PROVE  /\ TaskSound(bt, h2, vt, with[j], mid[j], mid[j + 1])
                      /\ j # n => Held(with[j], mid[j + 1]) = {}
                      /\ Held(z, u) \subseteq free /\ Held(z, u) \cap {b} = {}
                      /\ Awaited(z, u) # {} => /\ Under(z, mid[n]) <= Under(with[j], mid[j])
                                               /\ mid[j].fn = u.fn => u.vars \subseteq mid[j].vars
                      /\ \A l \in mid[j].loops : /\ l \in 1..Len(bt) /\ NoPhi(bt, l) /\ l \notin Pending(z)
                                                 /\ \A k \in 1..Len(rs) : l \notin Pending(rs[k])
                      /\ \A k \in 1..Len(rs) + 1 : rc[k].loops \cap Pending(z) = {}
                      /\ \A k \in 1..Len(rs) : Awaited(rs[k], rc[k + 1]) # {} =>
                           /\ Under(rs[k], rc[k]) <= Under(with[j], mid[j])
                           /\ mid[j].fn = rc[k + 1].fn => rc[k + 1].vars \subseteq mid[j].vars
    BY DEF Fits, rs, rc
  <1>8. n \in 1..n /\ mid[n + 1] = c[2]
    BY <1>1
  <1>9. /\ mid[j].fn = c[1].fn /\ Under(t, c[1]) <= Under(with[j], mid[j])
        /\ c[1].vars \subseteq mid[j].vars \/ (c[2].fn = c[1].fn /\ c[2].vars \subseteq mid[j].vars)
        /\ \A l \in mid[j].loops :
             l \in c[1].loops \/ (l \notin 1..Len(bs) /\ l \in 1..Len(bt) /\ NoPhi(bt, l) /\ l \notin Pending(z))
        /\ with[j].do # "end" /\ (j # n => Pending(with[j]) = {})
        /\ TaskSound(bt, h2, vt, z, mid[n], c[2])
        /\ \A d \in Pending(z) : d # b /\ (d \in Pending(t) \/ d \notin 1..Len(bs))
        /\ Awaited(z, c[2]) # {} => Under(z, mid[n]) <= Under(with[j], mid[j]) /\ c[2].vars \subseteq mid[j].vars
    BY DEF Goes
  <1>10. with[n].do # "end"
    BY <1>8 DEF Goes
  <1>11. Held(z, u) = Pending(z)
    BY <1>10 DEF Held, Saved
  <1>12. TaskSound(bt, h2, vt, with[j], mid[j], mid[j + 1]) /\ (j # n => Held(with[j], mid[j + 1]) = {})
    BY <1>8, <1>9, PlainSound
  <1>13. Held(z, u) \subseteq free /\ Held(z, u) \cap {b} = {}
    <2>1. \A d \in Pending(z) : d \in 1..Len(bt)
      BY <1>9 DEF TaskSound
    <2>2. Pending(t) \subseteq free
      BY DEF Held
    <2> QED
      BY <1>9, <1>11, <2>1, <2>2
  <1>14. ASSUME NEW l \in mid[j].loops
         PROVE  l \in 1..Len(bt) /\ NoPhi(bt, l) /\ l \notin Pending(z) /\ \A k \in 1..Len(rs) : l \notin Pending(rs[k])
    <2>1. CASE l \in c[1].loops
      <3>1. l \in 1..Len(bs) /\ NoPhi(bs, l) /\ l \notin Pending(t)
        BY <1>1, <2>1
      <3>2. NoPhi(bt, l)
        BY <3>1 DEF Extends
      <3> QED
        BY <1>2, <1>4, <1>5, <1>9, <2>1, <3>1, <3>2
    <2>2. CASE l \notin c[1].loops
      BY <1>6, <1>9, <2>2
    <2> QED
      BY <2>1, <2>2
  <1>15. \A k \in 1..Len(rs) + 1 : rc[k].loops \cap Pending(z) = {}
    BY <1>1, <1>2, <1>9
  <1>16. ASSUME NEW k \in 1..Len(rs), Awaited(rs[k], rc[k + 1]) # {}
         PROVE  /\ Under(rs[k], rc[k]) <= Under(with[j], mid[j])
                /\ mid[j].fn = rc[k + 1].fn => rc[k + 1].vars \subseteq mid[j].vars
    <2>1. Under(rs[k], rc[k]) <= Under(t, c[1])
      BY <1>3, <1>16 DEF Above
    <2>2. Under(t, c[1]) \in Int /\ Under(rs[k], rc[k]) \in Int
      <3>1. Rule(m, dcl, t, c[1], c[2])
        BY FirstTask
      <3> QED
        BY <1>7, <3>1, RuleUnder, CallSubs
    <2>3. mid[j].fn = rc[k + 1].fn => rc[k + 1].vars \subseteq mid[j].vars
      BY <1>3, <1>9, <1>16 DEF Above
    <2>4. Under(with[j], mid[j]) \in Int
      BY RuleUnder, CallSubs DEF Run
    <2> QED
      BY <1>9, <2>1, <2>2, <2>3, <2>4
  <1> QED
    BY <1>8, <1>9, <1>12, <1>13, <1>14, <1>15, <1>16

\* What a step changes of the blocks, the values and the places of variables.
Touches(bs, bt, S, P, L, h, h2, vs, vt, t, s, a) ==
  /\ Extends(bs, bt, S, P, L)
  /\ \A p \in S : p \in 1..Len(bs) => p = a \/ p \in Pending(t)
  /\ \A p \in P : p \in 1..Len(bs) => p \in Pending(t)
  /\ L \subseteq s.loops
  /\ Keeps(bs, vs, vt, Under(t, s))
  /\ \A x \in DOMAIN h : x \in DOMAIN h2 /\ (h2[x] = h[x] \/ (x[1] = s.fn /\ x[2] \notin s.vars))

\* What is free afterwards has an end, or is what the next tasks go on with.
Finishes(bs, bt, t, u, a, b, with, rs) ==
  \A d \in 1..Len(bt) : d = a \/ d \in Held(t, u) \/ d \notin 1..Len(bs) =>
    \/ Closed(bt, d) \/ (with \o rs # <<>> /\ d = b)
    \/ \E k \in 1..Len(with) : k = Len(with) /\ d \in Pending(with[k])

LEMMA Advance ==
  ASSUME NEW m, NEW dcl, NEW ts, NEW c, NEW vs, NEW bs, NEW h, NEW a,
         Sound(m, dcl, ts, c, vs, bs, h, a), ts # <<>>,
         NEW bt, NEW S, NEW P, NEW L, NEW h2, NEW vt, Touches(bs, bt, S, P, L, h, h2, vs, vt, ts[1], c[1], a),
         NEW with, NEW mid, Run(m, dcl, with, mid), mid[Len(with) + 1] = c[2],
         NEW b, Goes(bs, bt, h2, vt, ts[1], c[1], c[2], with, mid, b),
         Heap(m, dcl, bt), VarsSound(bt, h2), Matches(bt, vt, mid[1]),
         b = a \/ b \in Held(ts[1], c[2]) \/ (b \in 1..Len(bt) /\ b \notin 1..Len(bs)) \/ Tail(ts) = <<>>,
         with \o Tail(ts) # <<>> => IsCurrent(bt, h2, vt, b, mid[1]),
         Finishes(bs, bt, ts[1], c[2], a, b, with, Tail(ts))
  PROVE  Sound(m, dcl, with \o Tail(ts), ChainOf(with, mid, Tail(ts), RestOf(ts, c)), vt, bt, h2, b)
  <1> DEFINE rs == Tail(ts)
             rc == RestOf(ts, c)
             t == ts[1]
             n == Under(t, c[1])
             new == {d \in 1..Len(bt) : d \notin 1..Len(bs)}
             held == {a} \cup Held(t, c[2])
             ts2 == with \o rs
             c2 == ChainOf(with, mid, rs, rc)
  <1>0. /\ Pile(m, dcl, ts, c, vs, bs, h, {a}) /\ VarsSound(bs, h)
        /\ Extends(bs, bt, S, P, L)
        /\ \A p \in S : p \in 1..Len(bs) => p = a \/ p \in Pending(t)
        /\ \A p \in P : p \in 1..Len(bs) => p \in Pending(t)
        /\ L \subseteq c[1].loops
        /\ Keeps(bs, vs, vt, n)
        /\ \A x \in DOMAIN h : x \in DOMAIN h2 /\ (h2[x] = h[x] \/ (x[1] = c[1].fn /\ x[2] \notin c[1].vars))
    BY DEF Sound, Touches
  <1>1. /\ Rule(m, dcl, t, c[1], c[2]) /\ TaskSound(bs, h, vs, t, c[1], c[2])
        /\ Len(ts) \in Nat \ {0} /\ IsSeq(ts)
        /\ \A j \in 1..Len(ts) + 1 : \A l \in c[j].loops : l \in 1..Len(bs) /\ NoPhi(bs, l) /\ l \notin Pending(t)
    BY <1>0, FirstTask
  <1>2. /\ IsSeq(rs) /\ Len(rs) = Len(ts) - 1 /\ Len(ts) \in Nat \ {0}
        /\ \A k \in 1..Len(rs) : /\ k + 1 \in 1..Len(ts) /\ rs[k] = ts[k + 1]
                                 /\ rc[k] = c[k + 1] /\ rc[k + 1] = c[(k + 1) + 1]
        /\ rc[Len(rs) + 1] = c[Len(ts) + 1] /\ rc[1] = c[2]
        /\ \A k \in 1..Len(rs) + 1 : rc[k] = c[k + 1] /\ k + 1 \in 1..Len(ts) + 1
    <2>1. IsSeq(ts) /\ ts # <<>>
      BY <1>1
    <2> QED
      BY ONLY <2>1, RestFacts
  <1>3. /\ Pile(m, dcl, rs, rc, vs, bs, h, held)
        /\ Above(rs, rc, n, c[1].fn, c[1].vars)
    BY <1>0, PileTail
  <1> HIDE DEF rs, rc, t, n, held
  <1>4. Pile(m, dcl, rs, rc, vt, bt, h2, held \cup new)
    <2>1. dcl \subseteq dcl
      OBVIOUS
    <2>2. n \in Int
      BY <1>1, RuleUnder, CallSubs DEF n
    <2>3. \A k \in 1..Len(rs) : Under(rs[k], rc[k]) \in Int
      BY <1>3, RuleUnder, CallSubs DEF Pile, Run
    <2>4. Empty(bs, P)
      BY <1>0, <1>1 DEF Empty, TaskSound
    <2>5. \A d \in S \cup P : d \in 1..Len(bs) => d \in held
      BY <1>0 DEF held, Held
    <2>6. \A k \in 1..Len(rs) : Pending(rs[k]) \cap L = {}
      <3>1. 1 \in 1..Len(ts) + 1
        BY <1>1
      <3> QED
        BY <1>0, <1>2, <3>1, SMTT(30) DEF Pile, LoopsSound
    <2>7. \A j \in 1..Len(rs) + 1 : rc[j].loops \cap P = {}
      BY <1>0, <1>1, <1>2
    <2> DEFINE f == c[1].fn
               ids == c[1].vars
    <2>8. /\ Above(rs, rc, n, f, ids)
          /\ \A x \in DOMAIN h : x \in DOMAIN h2 /\ (h2[x] = h[x] \/ (x[1] = f /\ x[2] \notin ids))
      BY <1>0, <1>3
    <2>9. Extends(bs, bt, S, P, L) /\ VarsSound(bs, h) /\ Keeps(bs, vs, vt, n)
          /\ Pile(m, dcl, rs, rc, vs, bs, h, held)
      BY <1>0, <1>3
    <2> HIDE DEF f, ids, new
    <2>10. Pile(m, dcl, rs, rc, vt, bt, h2, held \cup {d \in 1..Len(bt) : d \notin 1..Len(bs)})
      BY ONLY <2>1, <2>2, <2>3, <2>4, <2>5, <2>6, <2>7, <2>8, <2>9, PileKept
    <2> QED
      BY <2>10 DEF new
  <1> DEFINE free == held \cup new \cup {b}
  <1>5. Pile(m, dcl, rs, rc, vt, bt, h2, free)
    <2>1. CASE b \in held \cup new
      <3>1. free = held \cup new
        BY <2>1
      <3> QED
        BY <1>4, <3>1
    <2>2. CASE b \notin held \cup new
      <3>1. Len(rs) = 0
        <4>1. rs = <<>>
          BY <2>2 DEF held, rs, t
        <4> QED
          BY <4>1, SeqNone
      <3> QED
        BY <1>4, <3>1 DEF Pile
    <2> QED
      BY <2>1, <2>2
  <1>6. Fits(bt, h2, vt, with, mid, rs, rc, free, {b})
    <2>1. {b} \subseteq free /\ Held(t, c[2]) \subseteq free /\ \A d : d \in 1..Len(bt) /\ d \notin 1..Len(bs) => d \in free
      BY DEF held
    <2> HIDE DEF free
    <2>2. Pile(m, dcl, ts, c, vs, bs, h, {a}) /\ ts # <<>> /\ Extends(bs, bt, S, P, L)
          /\ (\A p \in P : p \in 1..Len(bs) => p \in Pending(ts[1]))
          /\ Run(m, dcl, with, mid) /\ mid[Len(with) + 1] = c[2]
          /\ Goes(bs, bt, h2, vt, ts[1], c[1], c[2], with, mid, b)
      BY <1>0 DEF t
    <2>3. {b} \subseteq free /\ Held(ts[1], c[2]) \subseteq free
          /\ \A d : d \in 1..Len(bt) /\ d \notin 1..Len(bs) => d \in free
      BY <2>1 DEF t
    <2>4. Fits(bt, h2, vt, with, mid, Tail(ts), RestOf(ts, c), free, {b})
      BY ONLY <2>2, <2>3, GoesFits
    <2> QED
      BY <2>4 DEF rs, rc
  <1>7. Pile(m, dcl, ts2, c2, vt, bt, h2, {b})
    <2> HIDE DEF free
    <2>1. Pile(m, dcl, rs, rc, vt, bt, h2, free) /\ Run(m, dcl, with, mid)
          /\ mid[Len(with) + 1] = rc[1] /\ Fits(bt, h2, vt, with, mid, rs, rc, free, {b})
      BY <1>2, <1>5, <1>6
    <2> QED
      BY ONLY <2>1, PileJoin
  <1>8. /\ IsSeq(ts2) /\ Len(ts2) = Len(with) + Len(rs) /\ Len(with) \in Nat /\ Len(rs) \in Nat
        /\ \A k \in 1..Len(with) : ts2[k] = with[k] /\ c2[k] = mid[k] /\ c2[k + 1] = mid[k + 1]
        /\ \A k \in 1..Len(rs) :
             ts2[Len(with) + k] = rs[k] /\ c2[Len(with) + k] = rc[k] /\ c2[Len(with) + k + 1] = rc[k + 1]
        /\ c2[Len(with) + Len(rs) + 1] = rc[Len(rs) + 1] /\ c2[1] = mid[1]
        /\ \A k \in 1..Len(ts2) : k \in 1..Len(with) \/ \E i \in 1..Len(rs) : k = Len(with) + i
        /\ \A k \in 1..Len(ts2) + 1 : k \in 1..Len(with) \/ \E i \in 1..Len(rs) + 1 : k = Len(with) + i
    <2>1. IsSeq(with) /\ IsSeq(rs) /\ mid[Len(with) + 1] = rc[1]
      BY <1>2 DEF Run
    <2> QED
      BY ONLY <2>1, JoinFacts
  <1> HIDE DEF ts2, c2
  <1>9. ASSUME NEW d \in 1..Len(bt)
        PROVE  \/ Closed(bt, d) \/ (ts2 # <<>> /\ d = b)
               \/ \E k \in 1..Len(ts2) : d \in Held(ts2[k], c2[k + 1])
    <2>1. CASE d = a \/ d \in Held(t, c[2]) \/ d \notin 1..Len(bs)
      <3>1. \/ Closed(bt, d) \/ (ts2 # <<>> /\ d = b)
            \/ \E k \in 1..Len(with) : k = Len(with) /\ d \in Pending(with[k])
        BY <2>1 DEF Finishes, t, rs, ts2
      <3>2. ASSUME NEW k \in 1..Len(with), d \in Pending(with[k]) PROVE k \in 1..Len(ts2) /\ d \in Held(ts2[k], c2[k + 1])
        BY <1>8, <3>2 DEF Held
      <3> QED
        BY <3>1, <3>2
    <2>2. CASE d # a /\ d \notin Held(t, c[2]) /\ d \in 1..Len(bs)
      <3>1. d \notin S
        BY <1>0, <2>2 DEF Held
      <3>2. bt[d] = bs[d]
        BY <1>0, <2>2, <3>1 DEF Extends
      <3>3. Closed(bs, d) \/ \E k \in 1..Len(ts) : d \in Held(ts[k], c[k + 1])
        BY <2>2 DEF Sound
      <3>4. CASE Closed(bs, d)
        BY <3>2, <3>4 DEF Closed
      <3>5. ASSUME NEW k \in 1..Len(ts), d \in Held(ts[k], c[k + 1])
            PROVE  \E i \in 1..Len(ts2) : d \in Held(ts2[i], c2[i + 1])
        <4>1. k # 1
          BY <2>2, <3>5 DEF t
        <4>2. k - 1 \in 1..Len(rs) /\ (k - 1) + 1 = k
          BY <1>2, <4>1
        <4>3. rs[k - 1] = ts[k] /\ rc[(k - 1) + 1] = c[k + 1]
          BY <1>2, <4>2
        <4> DEFINE i == Len(with) + (k - 1)
        <4>4. i \in 1..Len(ts2)
          BY <1>8, <4>2, SMTT(30)
        <4>5. ts2[i] = ts[k] /\ c2[i + 1] = c[k + 1]
          BY <1>8, <4>2, <4>3
        <4> HIDE DEF i
        <4> QED
          BY <3>5, <4>4, <4>5
      <3> QED
        BY <3>3, <3>4, <3>5
    <2> QED
      BY <2>1, <2>2
  <1>10. Matches(bt, vt, c2[1]) /\ (ts2 # <<>> => IsCurrent(bt, h2, vt, b, c2[1]))
    BY <1>8 DEF ts2, rs
  <1>11. Sound(m, dcl, ts2, c2, vt, bt, h2, b)
    BY <1>7, <1>9, <1>10 DEF Sound
  <1> QED
    BY <1>11 DEF ts2, c2, rs, rc

-----------------------------------------------------------------------------
(* Values and the block the builder is at.                                   *)

LEMMA TypeFacts ==
  /\ \A type \in ValueTypes : LlvmType(type) \in {"i8", "i64"} /\ LlvmType(type) # "void"
  /\ LlvmType("never") = "void" /\ LlvmType("unit") = "i8" /\ LlvmType("bool") = "i8" /\ LlvmType("int") = "i64"
  /\ \A type \in Types : type \in ValueTypes \/ type = "never"
  /\ "never" \notin ValueTypes /\ "unit" \in ValueTypes /\ "bool" \in ValueTypes /\ "int" \in ValueTypes
  /\ Types = ValueTypes \cup {"never"}
  /\ Never.place = <<>> /\ Never.type = "void"
  BY DEF ValueTypes, Types, LlvmType, Never, Constant

LEMMA ValueKept ==
  ASSUME NEW bs, NEW bt, NEW S, NEW P, NEW L, Extends(bs, bt, S, P, L), NEW v, NEW e, ValueSound(bs, v, e)
  PROVE  ValueSound(bt, v, e)
  <1>1. \A c \in 1..Len(bs) : c \in 1..Len(bt) /\ bt[c].function = bs[c].function
    BY ExtendsLen DEF Extends
  <1>2. \A c \in 1..Len(bs) : bs[c].code # <<>> => bt[c].code # <<>>
    BY ExtendsCode
  <1> QED
    BY <1>1, <1>2 DEF ValueSound

\* A task takes n values from the top and puts others there.
LEMMA ValuesUnder ==
  ASSUME NEW bs, NEW vs, NEW s, s.size \in Nat, Matches(bs, vs, s), NEW n \in Nat, n <= s.size, NEW es, IsSeq(es)
  PROVE  LET vt == Swapped(vs, n, es)
         IN /\ Keeps(bs, vs, vt, s.size - n) /\ IsSeq(vt) /\ Len(vt) = Len(es) + s.size - n
            /\ es # <<>> => vt[1] = es[1]
  <1> DEFINE vt == Swapped(vs, n, es)
  <1>1. IsSeq(vs) /\ Len(vs) = s.size /\ Len(es) \in Nat
    BY SeqFacts DEF Matches
  <1>2. n \in Nat /\ n <= Len(vs)
    BY <1>1
  <1>3. /\ IsSeq(vt) /\ Len(vt) = Len(es) + Len(vs) - n
        /\ \A i \in 1..Len(es) : vt[i] = es[i]
        /\ \A i \in 1..Len(vs) - n : vt[Len(es) + i] = vs[n + i]
    <2>1. IsSeq(vs) /\ IsSeq(es) /\ n \in Nat /\ n <= Len(vs)
      BY <1>1, <1>2
    <2>2. IsSeq(vt) /\ Len(vt) = Len(es) + Len(vs) - n
      BY ONLY <2>1, Replaced
    <2>3. \A i \in 1..Len(es) : vt[i] = es[i]
      BY ONLY <2>1, Replaced
    <2>4. \A i \in 1..Len(vs) - n : vt[Len(es) + i] = vs[n + i]
      BY ONLY <2>1, Replaced
    <2> QED
      BY <2>2, <2>3, <2>4
  <1> HIDE DEF vt
  <1>4. ASSUME NEW i \in 1..s.size - n
        PROVE  /\ FromBelow(vt, i) = FromBelow(vs, i)
               /\ FromBelow(vs, i).place # <<>> =>
                    /\ FromBelow(vs, i).place[1] \in 1..Len(bs)
                    /\ bs[FromBelow(vs, i).place[1]].code # <<>>
    <2> DEFINE j == s.size + 1 - i - n
    <2>1. j \in 1..Len(vs) - n /\ Len(es) + j = Len(vt) + 1 - i /\ n + j = Len(vs) + 1 - i /\ i \in 1..s.size
      <3>1. /\ Len(vt) = Len(es) + s.size - n /\ Len(vs) = s.size /\ s.size \in Nat /\ Len(es) \in Nat
            /\ n \in Nat /\ n <= s.size
        BY <1>1, <1>3
      <3>2. j \in Int /\ 1 <= j /\ j <= s.size - n /\ i \in Int /\ 1 <= i /\ i <= s.size
        BY <3>1
      <3>3. Len(es) + j = Len(vt) + 1 - i /\ n + j = Len(vs) + 1 - i
        BY <3>1
      <3> QED
        BY <3>1, <3>2, <3>3
    <2>2. vt[Len(es) + j] = vs[n + j]
      BY <1>3, <2>1
    <2>3. FromBelow(vt, i) = FromBelow(vs, i)
      BY <2>1, <2>2 DEF FromBelow
    <2>4. ValueSound(bs, FromBelow(vs, i), s.stack[i])
      BY <2>1 DEF Matches
    <2> QED
      BY <2>3, <2>4 DEF ValueSound
  <1>5. Keeps(bs, vs, vt, s.size - n)
    BY <1>4 DEF Keeps
  <1>6. es # <<>> => vt[1] = es[1]
    <2>1. es # <<>> => 1 \in 1..Len(es)
      BY <1>1, SeqNone
    <2> QED
      BY <1>3, <2>1
  <1> QED
    BY <1>1, <1>3, <1>5, <1>6 DEF vt

LEMMA MatchesDrops ==
  ASSUME NEW bs, NEW vs, NEW s, s.size \in Nat, Matches(bs, vs, s), NEW n \in Nat, NEW u, Drops(s, u, n),
         NEW bt, NEW S, NEW P, NEW L, Extends(bs, bt, S, P, L), NEW vt, vt = Swapped(vs, n, <<>>)
  PROVE  Matches(bt, vt, u) /\ Keeps(bs, vs, vt, s.size - n)
  <1>1. n <= s.size
    BY DEF Drops
  <1>2. IsSeq(<<>>) /\ Len(<<>>) = 0
    BY SeqNone
  <1> DEFINE es == <<>>
  <1>3. IsSeq(es) /\ Len(es) = 0 /\ vt = Swapped(vs, n, es)
    BY <1>2
  <1> HIDE DEF es
  <1>4. Keeps(bs, vs, vt, s.size - n) /\ IsSeq(vt) /\ Len(vt) = Len(es) + s.size - n
    BY <1>1, <1>3, ValuesUnder
  <1>5. ASSUME NEW i \in 1..u.size PROVE ValueSound(bt, FromBelow(vt, i), u.stack[i])
    <2>1. i \in 1..s.size - n /\ i \in 1..s.size /\ u.stack[i] = s.stack[i]
      BY <1>1 DEF Drops
    <2>2. ValueSound(bs, FromBelow(vs, i), s.stack[i]) /\ FromBelow(vt, i) = FromBelow(vs, i)
      BY <1>4, <2>1 DEF Matches, Keeps
    <2> QED
      BY <2>1, <2>2, ValueKept
  <1>6. Len(vt) = u.size
    BY <1>1, <1>3, <1>4 DEF Drops
  <1> QED
    BY <1>4, <1>5, <1>6 DEF Matches

LEMMA MatchesGives ==
  ASSUME NEW bs, NEW vs, NEW s, s.size \in Nat, Matches(bs, vs, s), NEW n \in Nat, NEW u, NEW type, Gives(s, u, n, type),
         NEW bt, NEW S, NEW P, NEW L, Extends(bs, bt, S, P, L),
         NEW v, ValueSound(bt, v, Typed(type, s.fn)), NEW vt, vt = Swapped(vs, n, <<v>>)
  PROVE  /\ Matches(bt, vt, u) /\ Keeps(bs, vs, vt, s.size - n)
         /\ Len(vt) = s.size - n + 1 /\ FromBelow(vt, s.size - n + 1) = v
  <1>1. n <= s.size
    BY DEF Gives
  <1> DEFINE es == <<v>>
  <1>3. IsSeq(es) /\ Len(es) = 1 /\ es # <<>> /\ es[1] = v /\ vt = Swapped(vs, n, es)
    BY SeqOne
  <1> HIDE DEF es
  <1>4. Keeps(bs, vs, vt, s.size - n) /\ IsSeq(vt) /\ Len(vt) = Len(es) + s.size - n /\ (es # <<>> => vt[1] = es[1])
    <2>1. s.size \in Nat /\ Matches(bs, vs, s) /\ n \in Nat /\ n <= s.size /\ IsSeq(es)
      BY <1>1, <1>3
    <2> DEFINE w == Swapped(vs, n, es)
    <2>2. Keeps(bs, vs, w, s.size - n)
      BY ONLY <2>1, ValuesUnder
    <2>3. IsSeq(w) /\ Len(w) = Len(es) + s.size - n
      BY ONLY <2>1, ValuesUnder
    <2>4. es # <<>> => w[1] = es[1]
      BY ONLY <2>1, ValuesUnder
    <2> QED
      BY <1>3, <2>2, <2>3, <2>4
  <1>5. Len(vt) = s.size - n + 1 /\ u.size = s.size - n + 1 /\ Len(vt) + 1 - (s.size - n + 1) = 1
    BY <1>1, <1>3, <1>4 DEF Gives
  <1>6. FromBelow(vt, s.size - n + 1) = v
    BY <1>3, <1>4, <1>5 DEF FromBelow
  <1>7. ASSUME NEW i \in 1..u.size PROVE ValueSound(bt, FromBelow(vt, i), u.stack[i])
    <2>1. CASE i = u.size
      BY <1>5, <1>6, <2>1 DEF Gives
    <2>2. CASE i # u.size
      <3>0. i \in 1..s.size - n /\ i \in 1..s.size
        <4>1. u.size = s.size - n + 1 /\ n <= s.size
          BY DEF Gives
        <4> QED
          BY <2>2, <4>1
      <3>1. i \in 1..s.size - n /\ i \in 1..s.size /\ u.stack[i] = s.stack[i]
        BY <3>0 DEF Gives
      <3>2. ValueSound(bs, FromBelow(vs, i), s.stack[i]) /\ FromBelow(vt, i) = FromBelow(vs, i)
        BY <1>4, <3>1 DEF Matches, Keeps
      <3> QED
        BY <3>1, <3>2, ValueKept
    <2> QED
      BY <2>1, <2>2
  <1> QED
    BY <1>4, <1>5, <1>6, <1>7 DEF Matches

\* What is known of the current task.
Begins(m, dcl, t, s, u, vs, bs, h, a) ==
  /\ Rule(m, dcl, t, s, u) /\ TaskSound(bs, h, vs, t, s, u)
  /\ Heap(m, dcl, bs) /\ BlockShape(bs) /\ Len(bs) \in Nat /\ EdgesInside(bs) /\ VarsSound(bs, h)
  /\ Matches(bs, vs, s) /\ s.size \in Nat /\ Len(vs) = s.size /\ IsSeq(vs)
  /\ a \in 1..Len(bs) /\ bs[a].function = s.fn /\ s.fn \in dcl
  /\ (Closed(bs, a) <=> Over(s)) /\ ReadyAt(bs, h, vs, a, s, s.size)
  /\ a \notin Held(t, u)
  /\ \A l \in s.loops : l \in 1..Len(bs) /\ NoPhi(bs, l) /\ l \notin Pending(t)

LEMMA Start ==
  ASSUME NEW m, NEW dcl, NEW ts, NEW c, NEW vs, NEW bs, NEW h, NEW a,
         Sound(m, dcl, ts, c, vs, bs, h, a), ts # <<>>
  PROVE  Begins(m, dcl, ts[1], c[1], c[2], vs, bs, h, a)
  <1>1. /\ Rule(m, dcl, ts[1], c[1], c[2]) /\ TaskSound(bs, h, vs, ts[1], c[1], c[2])
        /\ Len(ts) \in Nat \ {0} /\ IsSeq(ts)
        /\ \A j \in 1..Len(ts) + 1 : \A l \in c[j].loops : l \in 1..Len(bs) /\ NoPhi(bs, l) /\ l \notin Pending(ts[1])
    BY FirstTask DEF Sound
  <1>2. Heap(m, dcl, bs) /\ BlockShape(bs) /\ Len(bs) \in Nat /\ EdgesInside(bs) /\ VarsSound(bs, h)
    BY HeapShape, HeapEdges DEF Sound
  <1>3. Matches(bs, vs, c[1]) /\ c[1].size \in Nat /\ Len(vs) = c[1].size /\ IsSeq(vs) /\ c[1].fn \in dcl
    BY <1>1 DEF Sound, Matches, Rule
  <1>4. (Closed(bs, a) <=> Over(c[1])) /\ ReadyAt(bs, h, vs, a, c[1], c[1].size)
    BY <1>3 DEF Sound, IsCurrent
  <1>5. a \in 1..Len(bs) /\ bs[a].function = c[1].fn
    BY <1>4 DEF ReadyAt
  <1>6. 1 \in 1..Len(ts) /\ 1 + 1 = 2 /\ 1 \in 1..Len(ts) + 1
    BY <1>1
  <1>7. a \notin Held(ts[1], c[2])
    <2>1. Held(ts[1], c[1 + 1]) \cap {a} = {}
      BY <1>6 DEF Sound, Pile
    <2> QED
      BY <1>6, <2>1
  <1> QED
    BY <1>1, <1>2, <1>3, <1>4, <1>5, <1>6, <1>7 DEF Begins

LEMMA TopValue ==
  ASSUME NEW m, NEW dcl, NEW t, NEW s, NEW u, NEW vs, NEW bs, NEW h, NEW a, Begins(m, dcl, t, s, u, vs, bs, h, a),
         NEW i \in Nat \ {0}, NEW type, TopIs(s, i, type)
  PROVE  /\ i \in 1..s.size /\ ValueSound(bs, vs[i], Typed(type, s.fn)) /\ vs[i].type = LlvmType(type)
         /\ type \in ValueTypes => UseSound(bs, vs[i], a) /\ vs[i] # Never
         /\ i = 1 => (Over(s) <=> LlvmType(type) = "void") /\ (type = "never" => vs[1] = Never)
  <1>1. i \in 1..s.size /\ s.size \in Nat /\ Len(vs) = s.size
    BY DEF TopIs, Begins
  <1> DEFINE j == s.size + 1 - i
  <1>2. j \in 1..s.size /\ Len(vs) + 1 - j = i
    BY <1>1
  <1>3. FromBelow(vs, j) = vs[i] /\ s.stack[j] = Typed(type, s.fn)
    BY <1>2 DEF FromBelow, TopIs
  <1>4. ValueSound(bs, vs[i], Typed(type, s.fn))
    BY <1>2, <1>3 DEF Begins, Matches
  <1>5. vs[i].type = LlvmType(type) /\ (LlvmType(type) = "void" => vs[i] = Never)
    BY <1>4 DEF ValueSound, Typed
  <1>6. ASSUME type \in ValueTypes PROVE UseSound(bs, vs[i], a) /\ vs[i] # Never
    <2>1. vs[i].type # "void"
      BY <1>5, <1>6, TypeFacts
    <2>2. ASSUME vs[i].place # <<>>
          PROVE  /\ vs[i].place[1] \in 1..Len(bs) /\ bs[vs[i].place[1]].code # <<>>
                 /\ bs[vs[i].place[1]].function = s.fn
      BY <1>4, <2>2 DEF ValueSound, Typed
    <2>3. vs[i].place # <<>> => Dom(bs, vs[i].place[1], a)
      BY <1>2, <1>3, <2>2 DEF Begins, ReadyAt
    <2> QED
      BY <2>1, <2>2, <2>3, TypeFacts DEF UseSound
  <1>7. i = 1 => (Over(s) <=> LlvmType(type) = "void")
    <2> SUFFICES ASSUME i = 1 PROVE Over(s) <=> LlvmType(type) = "void"
      OBVIOUS
    <2>1. j = s.size /\ s.size # 0
      BY <1>1
    <2>2. s.stack[s.size] = Typed(type, s.fn)
      BY <1>3, <2>1
    <2> QED
      BY <2>1, <2>2 DEF Over, Typed
  <1> QED
    BY <1>1, <1>4, <1>5, <1>6, <1>7, TypeFacts

-----------------------------------------------------------------------------
(* What the type checker says of the parts of an expression.                 *)

LEMMA InnerScope ==
  ASSUME NEW m \in Modules, NEW f, NEW ids, NEW e, NEW after, Inner(m, f, ids, e, after)
  PROVE  /\ \E j \in Scopes(m) : /\ j.function = f /\ j.node = e /\ Before(j) = ids /\ After(j) = after
                                 /\ ScopeIsTyped(m, Scopes(m), j)
         /\ e.kind \in ExpressionKinds /\ e.type \in Types /\ NodeIsTyped(m, f, e) /\ IsSeq(e.subs)
  <1>1. PICK j \in Scopes(m) : j.function = f /\ j.node = e /\ Before(j) = ids /\ After(j) = after
    BY DEF Inner
  <1>2. ScopeIsTyped(m, Scopes(m), j)
    BY ModulesAssumption DEF IsRegular
  <1>3. e.type \in Types /\ NodeIsTyped(m, f, e)
    BY <1>1, <1>2 DEF ScopeIsTyped
  <1>4. IsSeq(e.subs)
    <2>1. e.subs \in Seq({e.subs[i] : i \in DOMAIN e.subs})
      BY <1>1, <1>2 DEF ScopeIsTyped
    <2> QED
      BY <2>1, SeqIn
  <1> QED
    BY <1>1, <1>2, <1>3, <1>4 DEF Inner

\* A part of an expression is an expression, if not that of a block.
LEMMA PartInner ==
  ASSUME NEW m, NEW j, ScopeIsTyped(m, Scopes(m), j), j.node.kind # "block",
         NEW i \in 1..Len(j.node.subs), NEW before, NEW after, HasPart(Scopes(m), j, i, before, after)
  PROVE  \E x \in after : Inner(m, j.function, before, j.node.subs[i], x)
  <1>1. IsSeq(j.node.subs)
    <2>1. j.node.subs \in Seq({j.node.subs[k] : k \in DOMAIN j.node.subs})
      BY DEF ScopeIsTyped
    <2> QED
      BY <2>1, SeqIn
  <1>2. i \in DOMAIN j.node.subs
    BY <1>1, SeqFacts
  <1>3. j.node.subs[i].kind \in ExpressionKinds
    BY <1>2 DEF ScopeIsTyped
  <1>4. PICK p \in Scopes(m) : /\ p.function = j.function /\ p.node = j.node.subs[i]
                               /\ Before(p) = before /\ After(p) \in after
    BY DEF HasPart
  <1> QED
    BY <1>3, <1>4 DEF Inner

LEMMA LeafTyped ==
  ASSUME NEW m \in Modules, NEW f, NEW ids, NEW e, NEW after, Inner(m, f, ids, e, after),
         e.kind \in {"unit", "bool", "int", "variable"}
  PROVE  /\ after = ids /\ e.type \in ValueTypes
         /\ e.kind # "variable" => e.type = e.kind
         /\ e.kind = "variable" => e.id \in ids
  <1>1. PICK j \in Scopes(m) : /\ j.function = f /\ j.node = e /\ Before(j) = ids /\ After(j) = after
                               /\ ScopeIsTyped(m, Scopes(m), j)
    BY InnerScope
  <1>2. NodeIsTyped(m, f, e)
    BY InnerScope
  <1>3. Len(e.subs) = 0 /\ e.type \in ValueTypes /\ (e.kind # "variable" => e.type = e.kind)
    BY <1>2 DEF NodeIsTyped, ValueTypes
  <1>4. PartsInScope(Scopes(m), j)
    BY <1>1 DEF ScopeIsTyped
  <1>5. Len(j.scopes) = Len(e.subs) + 1 /\ (e.kind = "variable" => e.id \in Before(j))
    BY <1>1, <1>4 DEF PartsInScope
  <1>6. After(j) = Before(j)
    BY <1>3, <1>5 DEF After, Before
  <1> QED
    BY <1>1, <1>3, <1>5, <1>6

LEMMA OneTyped ==
  ASSUME NEW m \in Modules, NEW f, NEW ids, NEW e, NEW after, Inner(m, f, ids, e, after),
         e.kind \in {"not", "return"}
  PROVE  /\ Inner(m, f, ids, e.subs[1], after)
         /\ e.kind = "not" => e.subs[1].type = "bool" /\ e.type = "bool"
         /\ e.kind = "return" => /\ e.subs[1].type = FunctionIn(m, f).ret /\ FunctionIn(m, f).ret \in ValueTypes
                                 /\ e.type = "never"
  <1>1. PICK j \in Scopes(m) : /\ j.function = f /\ j.node = e /\ Before(j) = ids /\ After(j) = after
                               /\ ScopeIsTyped(m, Scopes(m), j)
    BY InnerScope
  <1>2. NodeIsTyped(m, f, e)
    BY InnerScope
  <1> DEFINE r == FunctionIn(m, f).ret
  <1>3. /\ Len(e.subs) = 1
        /\ e.kind = "not" => e.subs[1].type = "bool" /\ e.type = "bool"
        /\ e.kind = "return" => e.subs[1].type = r /\ r \in ValueTypes /\ e.type = "never"
    <2> HIDE DEF r
    <2>1. CASE e.kind = "not"
      BY <1>2, <2>1 DEF NodeIsTyped
    <2>2. CASE e.kind = "return"
      BY <1>2, <2>2 DEF NodeIsTyped, r
    <2> QED
      BY <2>1, <2>2
  <1>4. PartsInScope(Scopes(m), j)
    BY <1>1 DEF ScopeIsTyped
  <1>5. Len(j.scopes) = 2 /\ HasPart(Scopes(m), j, 1, j.scopes[1], {j.scopes[2]})
    BY <1>1, <1>3, <1>4 DEF PartsInScope
  <1>6. j.scopes[1] = ids /\ j.scopes[2] = after
    BY <1>1, <1>5 DEF Before, After
  <1>7. \E x \in {after} : Inner(m, f, ids, e.subs[1], x)
    <2>1. 1 \in 1..Len(j.node.subs) /\ j.node.kind # "block"
      BY <1>1, <1>3
    <2> QED
      BY <1>1, <1>5, <1>6, <2>1, PartInner
  <1> QED
    BY <1>3, <1>7

LEMMA OrTyped ==
  ASSUME NEW m \in Modules, NEW f, NEW ids, NEW e, NEW after, Inner(m, f, ids, e, after), e.kind = "or"
  PROVE  /\ e.subs[1].type = "bool" /\ e.subs[2].type = "bool" /\ e.type = "bool"
         /\ \E x : Inner(m, f, ids, e.subs[1], x) /\ Inner(m, f, x, e.subs[2], after)
  <1>1. PICK j \in Scopes(m) : /\ j.function = f /\ j.node = e /\ Before(j) = ids /\ After(j) = after
                               /\ ScopeIsTyped(m, Scopes(m), j)
    BY InnerScope
  <1>2. NodeIsTyped(m, f, e)
    BY InnerScope
  <1>3. Len(e.subs) = 2 /\ e.subs[1].type = "bool" /\ e.subs[2].type = "bool" /\ e.type = "bool"
    BY <1>2 DEF NodeIsTyped
  <1>4. PartsInScope(Scopes(m), j)
    BY <1>1 DEF ScopeIsTyped
  <1>5. /\ Len(j.scopes) = 3 /\ HasPart(Scopes(m), j, 1, j.scopes[1], {j.scopes[2]})
        /\ HasPart(Scopes(m), j, 2, j.scopes[2], {j.scopes[3]})
    BY <1>1, <1>3, <1>4 DEF PartsInScope
  <1>6. j.scopes[1] = ids /\ j.scopes[3] = after
    BY <1>1, <1>5 DEF Before, After
  <1>7. 1 \in 1..Len(j.node.subs) /\ 2 \in 1..Len(j.node.subs) /\ j.node.kind # "block"
    BY <1>1, <1>3
  <1>8. \E x \in {j.scopes[2]} : Inner(m, f, ids, e.subs[1], x)
    BY <1>1, <1>5, <1>6, <1>7, PartInner
  <1>9. \E x \in {after} : Inner(m, f, j.scopes[2], e.subs[2], x)
    BY <1>1, <1>5, <1>6, <1>7, PartInner
  <1> QED
    BY <1>3, <1>8, <1>9

\* The parts behind the first may not run.
LEMMA ForkTyped ==
  ASSUME NEW m \in Modules, NEW f, NEW ids, NEW e, NEW after, Inner(m, f, ids, e, after), e.kind \in {"and", "if"}
  PROVE  /\ Inner(m, f, ids, e.subs[1], after) /\ e.subs[1].type = "bool"
         /\ \E x : Inner(m, f, after, e.subs[2], x)
         /\ e.kind = "and" => e.subs[2].type = "bool" /\ e.type = "bool"
         /\ e.kind = "if" => /\ \E x : Inner(m, f, after, e.subs[3], x)
                             /\ e.type \in ValueTypes /\ \A i \in 2..3 : e.subs[i].type \in {e.type, "never"}
                             /\ \E i \in 2..3 : e.subs[i].type # "never"
  <1>1. PICK j \in Scopes(m) : /\ j.function = f /\ j.node = e /\ Before(j) = ids /\ After(j) = after
                               /\ ScopeIsTyped(m, Scopes(m), j)
    BY InnerScope
  <1>2. NodeIsTyped(m, f, e)
    BY InnerScope
  <1>3. /\ e.subs[1].type = "bool"
        /\ e.kind = "and" => Len(e.subs) = 2 /\ e.subs[2].type = "bool" /\ e.type = "bool"
        /\ e.kind = "if" => /\ Len(e.subs) = 3 /\ e.type \in ValueTypes
                            /\ \A i \in 2..3 : e.subs[i].type \in {e.type, "never"}
                            /\ \E i \in 2..3 : e.subs[i].type # "never"
    <2>1. CASE e.kind = "and"
      BY <1>2, <2>1 DEF NodeIsTyped
    <2>2. CASE e.kind = "if"
      BY <1>2, <2>2 DEF NodeIsTyped
    <2> QED
      BY <2>1, <2>2
  <1>4. PartsInScope(Scopes(m), j)
    BY <1>1 DEF ScopeIsTyped
  <1>5. /\ HasPart(Scopes(m), j, 1, ids, {after}) /\ HasPart(Scopes(m), j, 2, after, SUBSET Nat)
        /\ e.kind = "if" => HasPart(Scopes(m), j, 3, after, SUBSET Nat)
    BY <1>1, <1>4 DEF PartsInScope
  <1>6. 1 \in 1..Len(j.node.subs) /\ 2 \in 1..Len(j.node.subs) /\ j.node.kind # "block"
        /\ (e.kind = "if" => 3 \in 1..Len(j.node.subs))
    BY <1>1, <1>3
  <1>7. \E x \in {after} : Inner(m, f, ids, e.subs[1], x)
    BY <1>1, <1>5, <1>6, PartInner
  <1>8. \E x \in SUBSET Nat : Inner(m, f, after, e.subs[2], x)
    BY <1>1, <1>5, <1>6, PartInner
  <1>9. e.kind = "if" => \E x \in SUBSET Nat : Inner(m, f, after, e.subs[3], x)
    BY <1>1, <1>5, <1>6, PartInner
  <1> QED
    BY <1>3, <1>7, <1>8, <1>9

-----------------------------------------------------------------------------
(* Tasks that lead from a state to another, all in the block there is.       *)

Still(n, t, r, s) ==
  /\ r.fn = s.fn /\ n <= Under(t, r) /\ s.vars \subseteq r.vars /\ r.loops \subseteq s.loops
  /\ t.do # "end" /\ Pending(t) = {}
Path(m, dcl, n, with, s, u) ==
  \E mid : /\ Run(m, dcl, with, mid) /\ mid[1] = s /\ mid[Len(with) + 1] = u
           /\ \A j \in 1..Len(with) : Still(n, with[j], mid[j], s)

LEMMA PathNone ==
  ASSUME NEW m, NEW dcl, NEW n, NEW s
  PROVE  Path(m, dcl, n, <<>>, s, s)
  <1> DEFINE with == <<>>
             mid == <<s>>
  <1>1. IsSeq(with) /\ Len(with) = 0
    BY SeqNone
  <1>2. mid[1] = s
    OBVIOUS
  <1> HIDE DEF with, mid
  <1>3. Run(m, dcl, with, mid) /\ mid[Len(with) + 1] = s /\ \A j \in 1..Len(with) : Still(n, with[j], mid[j], s)
    BY <1>1, <1>2 DEF Run
  <1>4. Path(m, dcl, n, with, s, s)
    BY <1>2, <1>3 DEF Path
  <1> QED
    BY <1>4 DEF with

LEMMA PathOne ==
  ASSUME NEW m, NEW dcl, NEW n, NEW t, NEW s, NEW u, Rule(m, dcl, t, s, u), n <= Under(t, s),
         t.do # "end", Pending(t) = {}
  PROVE  Path(m, dcl, n, <<t>>, s, u)
  <1> DEFINE with == <<t>>
             mid == <<s, u>>
  <1>1. IsSeq(with) /\ Len(with) = 1 /\ with[1] = t
    BY SeqOne
  <1>2. mid[1] = s /\ mid[2] = u
    OBVIOUS
  <1> HIDE DEF with, mid
  <1>3. Run(m, dcl, with, mid)
    BY <1>1, <1>2 DEF Run
  <1>4. mid[Len(with) + 1] = u
    BY <1>1, <1>2
  <1>5. ASSUME NEW j \in 1..Len(with) PROVE Still(n, with[j], mid[j], s)
    <2>1. j = 1
      BY <1>1
    <2> QED
      BY <1>1, <1>2, <2>1 DEF Still
  <1>6. Path(m, dcl, n, with, s, u)
    BY <1>2, <1>3, <1>4, <1>5 DEF Path
  <1> QED
    BY <1>6 DEF with

LEMMA PathJoin ==
  ASSUME NEW m, NEW dcl, NEW n, NEW with, NEW s, NEW r, Path(m, dcl, n, with, s, r),
         NEW rs, NEW u, Path(m, dcl, n, rs, r, u),
         r.fn = s.fn, s.vars \subseteq r.vars, r.loops \subseteq s.loops
  PROVE  Path(m, dcl, n, with \o rs, s, u)
  <1>1. PICK mid : /\ Run(m, dcl, with, mid) /\ mid[1] = s /\ mid[Len(with) + 1] = r
                   /\ \A j \in 1..Len(with) : Still(n, with[j], mid[j], s)
    BY DEF Path
  <1>2. PICK rc : /\ Run(m, dcl, rs, rc) /\ rc[1] = r /\ rc[Len(rs) + 1] = u
                  /\ \A j \in 1..Len(rs) : Still(n, rs[j], rc[j], r)
    BY DEF Path
  <1> DEFINE ts == with \o rs
             c == ChainOf(with, mid, rs, rc)
  <1>3. Run(m, dcl, ts, c)
    BY <1>1, <1>2, RunJoin
  <1>4. /\ IsSeq(ts) /\ Len(ts) = Len(with) + Len(rs) /\ Len(with) \in Nat /\ Len(rs) \in Nat
        /\ \A k \in 1..Len(with) : ts[k] = with[k] /\ c[k] = mid[k] /\ c[k + 1] = mid[k + 1]
        /\ \A k \in 1..Len(rs) :
             ts[Len(with) + k] = rs[k] /\ c[Len(with) + k] = rc[k] /\ c[Len(with) + k + 1] = rc[k + 1]
        /\ c[Len(with) + Len(rs) + 1] = rc[Len(rs) + 1] /\ c[1] = mid[1]
        /\ \A k \in 1..Len(ts) : k \in 1..Len(with) \/ \E i \in 1..Len(rs) : k = Len(with) + i
        /\ \A k \in 1..Len(ts) + 1 : k \in 1..Len(with) \/ \E i \in 1..Len(rs) + 1 : k = Len(with) + i
    <2>1. IsSeq(with) /\ IsSeq(rs) /\ mid[Len(with) + 1] = rc[1]
      BY <1>1, <1>2 DEF Run
    <2> QED
      BY ONLY <2>1, JoinFacts
  <1> HIDE DEF ts, c
  <1>5. c[1] = s /\ c[Len(ts) + 1] = u
    BY <1>1, <1>2, <1>4
  <1>6. ASSUME NEW j \in 1..Len(ts) PROVE Still(n, ts[j], c[j], s)
    <2>1. CASE j \in 1..Len(with)
      BY <1>1, <1>4, <2>1
    <2>2. ASSUME NEW i \in 1..Len(rs), j = Len(with) + i PROVE Still(n, ts[j], c[j], s)
      <3>1. Still(n, rs[i], rc[i], r) /\ ts[j] = rs[i] /\ c[j] = rc[i]
        BY <1>2, <1>4, <2>2
      <3> QED
        BY <3>1 DEF Still
    <2> QED
      BY <1>4, <2>1, <2>2
  <1>7. Path(m, dcl, n, ts, s, u)
    BY <1>3, <1>5, <1>6 DEF Path
  <1> QED
    BY <1>7 DEF ts

\* There is something left to do in a function.
LEMMA MoreToDo ==
  ASSUME NEW m, NEW dcl, NEW ts, NEW c, NEW vs, NEW bs, NEW h, NEW a,
         Sound(m, dcl, ts, c, vs, bs, h, a), ts # <<>>, ts[1].do # "end", NEW with, IsSeq(with)
  PROVE  Tail(ts) # <<>> /\ with \o Tail(ts) # <<>>
  <1>1. IsSeq(ts) /\ Rule(m, dcl, ts[1], c[1], c[2]) /\ IsLast(c[Len(ts) + 1])
    BY FirstTask DEF Sound, Pile
  <1>2. c[2].inside
    BY <1>1 DEF Rule
  <1>3. IsSeq(Tail(ts)) /\ Len(Tail(ts)) = Len(ts) - 1 /\ Len(ts) \in Nat \ {0}
    BY <1>1, SeqTail
  <1>4. Len(Tail(ts)) # 0
    BY <1>1, <1>2, <1>3 DEF IsLast
  <1>5. Len(with \o Tail(ts)) = Len(with) + Len(Tail(ts)) /\ Len(with) \in Nat
    BY <1>3, SeqCat, SeqFacts
  <1> QED
    BY <1>3, <1>4, <1>5, SeqNone

\* A task that needs no other blocks.
LEMMA StepStill ==
  ASSUME NEW m, NEW dcl, NEW ts, NEW c, NEW vs, NEW bs, NEW h, NEW a,
         Sound(m, dcl, ts, c, vs, bs, h, a), ts # <<>>, ts[1].do # "end", Pending(ts[1]) = {},
         NEW bt, NEW S, NEW h2, NEW vt, Touches(bs, bt, S, {}, {}, h, h2, vs, vt, ts[1], c[1], a), Len(bt) = Len(bs),
         NEW with, NEW s, Path(m, dcl, Under(ts[1], c[1]), with, s, c[2]),
         s.fn = c[1].fn, c[1].vars \subseteq s.vars \/ with = <<>>, s.loops \subseteq c[1].loops,
         Heap(m, dcl, bt), VarsSound(bt, h2), Matches(bt, vt, s), IsCurrent(bt, h2, vt, a, s)
  PROVE  \E c2 : Sound(m, dcl, with \o Tail(ts), c2, vt, bt, h2, a)
  <1> DEFINE n == Under(ts[1], c[1])
             t == ts[1]
             u == c[2]
  <1>1. PICK mid : /\ Run(m, dcl, with, mid) /\ mid[1] = s /\ mid[Len(with) + 1] = u
                   /\ \A j \in 1..Len(with) : Still(n, with[j], mid[j], s)
    BY DEF Path
  <1>2. IsSeq(with) /\ Len(with) \in Nat
    BY <1>1, SeqFacts DEF Run
  <1>3. with \o Tail(ts) # <<>>
    BY <1>2, MoreToDo
  <1>4. Held(t, u) = {}
    BY PlainSound
  <1>5. Goes(bs, bt, h2, vt, t, c[1], u, with, mid, a)
    <2> DEFINE z == with[Len(with)]
    <2> SUFFICES ASSUME NEW j \in 1..Len(with)
                 PROVE  /\ mid[j].fn = c[1].fn /\ Under(t, c[1]) <= Under(with[j], mid[j])
                        /\ c[1].vars \subseteq mid[j].vars \/ (u.fn = c[1].fn /\ u.vars \subseteq mid[j].vars)
                        /\ \A l \in mid[j].loops :
                             l \in c[1].loops \/ (l \notin 1..Len(bs) /\ l \in 1..Len(bt) /\ NoPhi(bt, l) /\ l \notin Pending(z))
                        /\ with[j].do # "end" /\ (j # Len(with) => Pending(with[j]) = {})
                        /\ TaskSound(bt, h2, vt, z, mid[Len(with)], u)
                        /\ \A d \in Pending(z) : d # a /\ (d \in Pending(t) \/ d \notin 1..Len(bs))
                        /\ Awaited(z, u) # {} => Under(z, mid[Len(with)]) <= Under(with[j], mid[j]) /\ u.vars \subseteq mid[j].vars
      BY DEF Goes
    <2>1. Len(with) \in 1..Len(with) /\ with # <<>>
      BY <1>2, SeqNone
    <2>2. Still(n, with[j], mid[j], s) /\ Still(n, z, mid[Len(with)], s)
      BY <1>1, <2>1
    <2>3. Pending(z) = {} /\ z.do # "end"
      BY <2>2 DEF Still
    <2>4. TaskSound(bt, h2, vt, z, mid[Len(with)], u) /\ Held(z, u) = {}
      BY <2>3, PlainSound
    <2>5. Awaited(z, u) = {}
      BY <2>4, AwaitedHeld
    <2> QED
      BY <2>1, <2>2, <2>3, <2>4, <2>5 DEF Still
  <1>6. Finishes(bs, bt, t, u, a, a, with, Tail(ts))
    BY <1>3, <1>4 DEF Finishes
  <1>7. Sound(m, dcl, with \o Tail(ts), ChainOf(with, mid, Tail(ts), RestOf(ts, c)), vt, bt, h2, a)
    BY <1>1, <1>5, <1>6, Advance
  <1> QED
    BY <1>7

-----------------------------------------------------------------------------
(* Tasks that have a value, and stay in their block.                         *)

VarsAt(bs, h, s, b) == \A id \in s.vars : <<s.fn, id>> \in DOMAIN h /\ Dom(bs, h[<<s.fn, id>>], b)

LEMMA ReadyStays ==
  ASSUME NEW m, NEW dcl, NEW t, NEW s, NEW u, NEW vs, NEW bs, NEW h, NEW a, Begins(m, dcl, t, s, u, vs, bs, h, a),
         NEW bt, NEW S, NEW P, NEW L, Extends(bs, bt, S, P, L), a \notin P, P \subseteq Pending(t),
         NEW vt, NEW n, n \in 0..s.size, Keeps(bs, vs, vt, n)
  PROVE  ReadyAt(bt, h, vt, a, s, n)
  <1>1. ReadyAt(bs, h, vs, a, s, s.size) /\ VarsSound(bs, h) /\ s.size \in Nat
    BY DEF Begins
  <1>2. ReadyAt(bs, h, vs, a, s, n)
    <2>1. \A i \in 1..n : i \in 1..s.size
      BY <1>1
    <2> QED
      BY <1>1, <2>1 DEF ReadyAt
  <1>3. s.loops \cap P = {} /\ s.loops \subseteq 1..Len(bs)
    BY DEF Begins
  <1>4. Empty(bs, P)
    BY DEF Begins, TaskSound, Empty
  <1>5. KeepsVars(h, h, s.fn, s.vars)
    BY DEF KeepsVars
  <1>6. Extends(bs, bt, S, P, L) /\ a \notin P /\ Keeps(bs, vs, vt, n)
    OBVIOUS
  <1> QED
    BY ONLY <1>1, <1>2, <1>3, <1>4, <1>5, <1>6, ReadyKept

\* One value gives way to n others.
LEMMA CurrentGives ==
  ASSUME NEW m, NEW dcl, NEW t, NEW s, NEW u, NEW vs, NEW bs, NEW h, NEW a, Begins(m, dcl, t, s, u, vs, bs, h, a),
         NEW bt, NEW S, Extends(bs, bt, S, {}, {}), NEW n \in Nat, NEW type, NEW r, Gives(s, r, n, type),
         r.fn = s.fn, r.loops \subseteq s.loops, NEW v, ValueSound(bt, v, Typed(type, s.fn)),
         v.place # <<>> => Dom(bt, v.place[1], a), Closed(bt, a) <=> LlvmType(type) = "void",
         NEW h2, VarsAt(bt, h2, r, a), NEW vt, vt = Swapped(vs, n, <<v>>)
  PROVE  IsCurrent(bt, h2, vt, a, r) /\ Matches(bt, vt, r) /\ Keeps(bs, vs, vt, s.size - n)
  <1>1. s.size \in Nat /\ Matches(bs, vs, s) /\ n <= s.size /\ r.size = s.size - n + 1
    BY DEF Begins, Gives
  <1>2. /\ Matches(bt, vt, r) /\ Keeps(bs, vs, vt, s.size - n)
        /\ Len(vt) = s.size - n + 1 /\ FromBelow(vt, s.size - n + 1) = v
    <2>1. s.size \in Nat /\ Matches(bs, vs, s) /\ n \in Nat /\ Gives(s, r, n, type) /\ Extends(bs, bt, S, {}, {})
          /\ ValueSound(bt, v, Typed(type, s.fn)) /\ vt = Swapped(vs, n, <<v>>)
      BY <1>1
    <2> QED
      BY ONLY <2>1, MatchesGives
  <1>3. ReadyAt(bt, h, vt, a, s, s.size - n)
    <2>1. s.size - n \in 0..s.size
      BY <1>1
    <2> QED
      BY <1>2, <2>1, ReadyStays
  <1>4. a \in 1..Len(bt) /\ bt[a].function = r.fn /\ \A l \in r.loops : Dom(bt, l, a)
    BY <1>3 DEF ReadyAt
  <1>5. ASSUME NEW i \in 1..Len(vt), FromBelow(vt, i).place # <<>>,
               bt[FromBelow(vt, i).place[1]].function = r.fn
        PROVE  Dom(bt, FromBelow(vt, i).place[1], a)
    <2>1. CASE i = s.size - n + 1
      BY <1>2, <1>5, <2>1
    <2>2. CASE i # s.size - n + 1
      <3>1. i \in 1..s.size - n
        BY <1>1, <1>2, <2>2
      <3> QED
        BY <1>3, <1>5, <3>1 DEF ReadyAt
    <2> QED
      BY <2>1, <2>2
  <1>6. ReadyAt(bt, h2, vt, a, r, Len(vt))
    BY <1>4, <1>5 DEF ReadyAt, VarsAt
  <1>7. Over(r) <=> LlvmType(type) = "void"
    BY <1>1 DEF Over, Gives, Typed
  <1> QED
    BY <1>2, <1>6, <1>7 DEF IsCurrent

LEMMA VarsStay ==
  ASSUME NEW m, NEW dcl, NEW t, NEW s, NEW u, NEW vs, NEW bs, NEW h, NEW a, Begins(m, dcl, t, s, u, vs, bs, h, a),
         NEW bt, NEW S, Extends(bs, bt, S, {}, {}), NEW r, r.fn = s.fn, r.vars \subseteq s.vars
  PROVE  VarsAt(bt, h, r, a) /\ VarsSound(bt, h)
  <1>1. s.size \in Nat /\ 0 \in 0..s.size
    BY DEF Begins
  <1>2. Keeps(bs, vs, vs, 0)
    BY DEF Keeps
  <1>3. ReadyAt(bt, h, vs, a, s, 0)
    BY <1>1, <1>2, ReadyStays
  <1>4. VarsAt(bt, h, r, a)
    BY <1>3 DEF ReadyAt, VarsAt
  <1>5. \A c \in 1..Len(bs) : c \in 1..Len(bt) /\ bt[c].function = bs[c].function
    BY ExtendsLen DEF Extends
  <1>6. ASSUME NEW x \in DOMAIN h PROVE h[x] \in 1..Len(bt) /\ bt[h[x]].function = x[1] /\ Allocates(bt, h[x], x[2])
    <2>1. h[x] \in 1..Len(bs) /\ bs[h[x]].function = x[1] /\ Allocates(bs, h[x], x[2])
      BY DEF Begins, VarsSound
    <2>2. PICK k \in 1..Len(bs[h[x]].code) : bs[h[x]].code[k].op = "alloca" /\ bs[h[x]].code[k].id = x[2]
      BY <2>1 DEF Allocates
    <2> DEFINE c == h[x]
    <2>3. Len(bs[c].code) \in Nat /\ Len(bt[c].code) \in Nat
      BY <1>5, <2>1, CodeFacts DEF Extends
    <2>4. Len(bs[c].code) <= Len(bt[c].code) /\ bt[c].code[k] = bs[c].code[k]
      BY <2>1, <2>2 DEF Extends
    <2>5. k \in 1..Len(bt[c].code)
      BY <2>3, <2>4
    <2> QED
      BY <1>5, <2>1, <2>2, <2>4, <2>5 DEF Allocates
  <1> QED
    BY <1>4, <1>6 DEF VarsSound

\* The blocks grow where the builder is.
LEMMA StepHere ==
  ASSUME NEW m, NEW dcl, NEW ts, NEW c, NEW vs, NEW bs, NEW h, NEW a,
         Sound(m, dcl, ts, c, vs, bs, h, a), ts # <<>>, ts[1].do # "end", Pending(ts[1]) = {},
         NEW bt, NEW S, Extends(bs, bt, S, {}, {}), S \subseteq {a}, Len(bt) = Len(bs), Heap(m, dcl, bt),
         NEW type, Gives(c[1], c[2], Pops(ts[1]), type), NEW v, ValueSound(bt, v, Typed(type, c[1].fn)),
         v.place # <<>> => Dom(bt, v.place[1], a), Closed(bt, a) <=> LlvmType(type) = "void",
         NEW h2, VarsAt(bt, h2, c[2], a), VarsSound(bt, h2),
         \A x \in DOMAIN h : x \in DOMAIN h2 /\ (h2[x] = h[x] \/ (x[1] = c[1].fn /\ x[2] \notin c[1].vars))
  PROVE  \E c2 : Sound(m, dcl, <<>> \o Tail(ts), c2, Swapped(vs, Pops(ts[1]), <<v>>), bt, h2, a)
  <1> DEFINE s == c[1]
             u == c[2]
             t == ts[1]
             n == Pops(t)
             vt == Swapped(vs, n, <<v>>)
             with == <<>>
  <1>1. Begins(m, dcl, t, s, u, vs, bs, h, a)
    BY Start
  <1>2. u.fn = s.fn /\ u.loops \subseteq s.loops
    BY <1>1 DEF Begins, Rule
  <1>3. n \in Nat
    BY <1>1, RuleUnder, CallSubs DEF Begins
  <1> HIDE DEF vt
  <1>4. IsCurrent(bt, h2, vt, a, u) /\ Matches(bt, vt, u) /\ Keeps(bs, vs, vt, s.size - n)
    BY <1>1, <1>2, <1>3, CurrentGives DEF vt
  <1>5. Touches(bs, bt, S, {}, {}, h, h2, vs, vt, t, s, a)
    BY <1>4 DEF Touches, Under
  <1>6. Path(m, dcl, Under(t, s), with, u, u)
    BY PathNone
  <1>7. with = <<>>
    OBVIOUS
  <1> HIDE DEF with
  <1>8. \E c2 : Sound(m, dcl, with \o Tail(ts), c2, vt, bt, h2, a)
    BY <1>2, <1>4, <1>5, <1>6, <1>7, StepStill, ZenonT(30)
  <1> QED
    BY <1>7, <1>8 DEF vt

-----------------------------------------------------------------------------
(* An instruction at the end of the block.                                   *)

LEMMA EmitHere ==
  ASSUME NEW m, NEW dcl, NEW t, NEW s, NEW u, NEW vs, NEW bs, NEW h, NEW a, Begins(m, dcl, t, s, u, vs, bs, h, a),
         ~Over(s), NEW i, InstrSound(m, dcl, bs, a, i), i.to = <<>>, i.op # "phi"
  PROVE  LET bt == Emit(bs, a, i)
         IN /\ Extends(bs, bt, {a}, {}, {}) /\ Len(bt) = Len(bs) /\ Heap(m, dcl, bt)
            /\ Closed(bt, a) <=> IsTerminator(i)
            /\ bt[a].code # <<>> /\ bt[a].function = s.fn
  <1>1. BlockShape(bs) /\ a \in 1..Len(bs) /\ ~Closed(bs, a) /\ Heap(m, dcl, bs) /\ bs[a].function = s.fn
    BY DEF Begins
  <1>2. Targets(i) = {}
    BY SeqNone DEF Targets, Elements
  <1>3. Emits(bs, a, i)
    BY <1>1, <1>2 DEF Emits, ToEnds
  <1>4. Extends(bs, Emit(bs, a, i), {a}, {}, {})
    BY <1>2, <1>3, EmitExtends
  <1>5. Heap(m, dcl, Emit(bs, a, i))
    BY <1>1, <1>3, HeapEmit
  <1>6. Closed(Emit(bs, a, i), a) <=> IsTerminator(i)
    BY <1>1, EmitClosed
  <1> DEFINE bt == Emit(bs, a, i)
  <1>7. /\ BlockShape(bt) /\ Len(bt) = Len(bs) /\ Len(bs) \in Nat
        /\ \A c \in 1..Len(bs) : bt[c].function = bs[c].function
        /\ \A c \in 1..Len(bs) : c # a => bt[c] = bs[c]
        /\ Len(bt[a].code) = Len(bs[a].code) + 1 /\ Len(bs[a].code) \in Nat
        /\ \A k \in 1..Len(bs[a].code) : bt[a].code[k] = bs[a].code[k]
        /\ bt[a].code[Len(bs[a].code) + 1] = i
        /\ bt[a].code # <<>>
    <2>1. BlockShape(bs) /\ a \in 1..Len(bs)
      BY <1>1
    <2> QED
      BY ONLY <2>1, EmitShape, SMTT(30)
  <1> QED
    BY <1>1, <1>4, <1>5, <1>6, <1>7

LEMMA ResultSound ==
  ASSUME NEW bt, NEW a \in 1..Len(bt), bt[a].code # <<>>, NEW type, type \in ValueTypes
  PROVE  /\ ValueSound(bt, Result(type, bt, a), Typed(type, bt[a].function))
         /\ Dom(bt, Result(type, bt, a).place[1], a)
  <1> DEFINE v == Result(type, bt, a)
  <1>1. v.type = LlvmType(type) /\ v.place = <<a, Len(bt[a].code)>>
    BY DEF Result
  <1>2. v.place[1] = a
    BY <1>1
  <1>3. v.type # "void"
    BY <1>1, TypeFacts
  <1> HIDE DEF v
  <1>4. ValueSound(bt, v, Typed(type, bt[a].function)) /\ Dom(bt, v.place[1], a)
    BY <1>1, <1>2, <1>3 DEF ValueSound, Typed, Dom
  <1> QED
    BY <1>4 DEF v

LEMMA ConstantSound ==
  ASSUME NEW bs, NEW fn, NEW type \in ValueTypes, NEW name
  PROVE  /\ ValueSound(bs, Constant(type, name), Typed(type, fn)) /\ Constant(type, name).place = <<>>
         /\ Constant(type, name).type = LlvmType(type)
         /\ ValueSound(bs, Never, Typed("never", fn)) /\ Never.place = <<>>
  <1>1. Constant(type, name).type # "void"
    BY TypeFacts DEF Constant
  <1> QED
    BY <1>1, TypeFacts DEF Constant, ValueSound, Typed

\* An instruction, and the value there is then.
LEMMA EmitStep ==
  ASSUME NEW m, NEW dcl, NEW ts, NEW c, NEW vs, NEW bs, NEW h, NEW a,
         Sound(m, dcl, ts, c, vs, bs, h, a), ts # <<>>, ts[1].do # "end", Pending(ts[1]) = {}, ~Over(c[1]),
         NEW i, InstrSound(m, dcl, bs, a, i), i.to = <<>>, i.op # "phi",
         NEW type, Gives(c[1], c[2], Pops(ts[1]), type), c[2].vars \subseteq c[1].vars,
         IsTerminator(i) <=> LlvmType(type) = "void",
         NEW v, \/ v = Result(type, Emit(bs, a, i), a) /\ type \in ValueTypes
                \/ \E x : v = Constant(type, x) /\ type \in ValueTypes
                \/ v = Never /\ type = "never"
  PROVE  \E c2 : Sound(m, dcl, <<>> \o Tail(ts), c2, Swapped(vs, Pops(ts[1]), <<v>>), Emit(bs, a, i), h, a)
  <1> DEFINE bt == Emit(bs, a, i)
  <1>1. Begins(m, dcl, ts[1], c[1], c[2], vs, bs, h, a)
    BY Start
  <1>2. /\ Extends(bs, bt, {a}, {}, {}) /\ Len(bt) = Len(bs) /\ Heap(m, dcl, bt)
        /\ Closed(bt, a) <=> IsTerminator(i)
        /\ bt[a].code # <<>> /\ bt[a].function = c[1].fn
    <2>1. Begins(m, dcl, ts[1], c[1], c[2], vs, bs, h, a) /\ ~Over(c[1]) /\ InstrSound(m, dcl, bs, a, i)
          /\ i.to = <<>> /\ i.op # "phi"
      BY <1>1
    <2>2. Extends(bs, bt, {a}, {}, {}) /\ Len(bt) = Len(bs) /\ Heap(m, dcl, bt)
      BY <2>1, EmitHere
    <2>3. Closed(bt, a) <=> IsTerminator(i)
      <3>1. BlockShape(bs) /\ a \in 1..Len(bs)
        BY <1>1 DEF Begins
      <3> QED
        BY <3>1, EmitClosed
    <2>4. bt[a].code # <<>> /\ bt[a].function = c[1].fn
      <3>1. BlockShape(bs) /\ a \in 1..Len(bs) /\ bs[a].function = c[1].fn
        BY <1>1 DEF Begins
      <3>2. /\ BlockShape(bt) /\ Len(bt) = Len(bs) /\ Len(bs) \in Nat
            /\ \A d \in 1..Len(bs) : bt[d].function = bs[d].function
            /\ \A d \in 1..Len(bs) : d # a => bt[d] = bs[d]
            /\ Len(bt[a].code) = Len(bs[a].code) + 1 /\ Len(bs[a].code) \in Nat
            /\ \A k \in 1..Len(bs[a].code) : bt[a].code[k] = bs[a].code[k]
            /\ bt[a].code[Len(bs[a].code) + 1] = i
            /\ bt[a].code # <<>>
        BY <3>1, EmitShape
      <3> QED
        BY <3>1, <3>2
    <2> QED
      BY <2>2, <2>3, <2>4
  <1>3. c[2].fn = c[1].fn /\ a \in 1..Len(bs)
    BY <1>1 DEF Begins, Rule
  <1> HIDE DEF bt
  <1>4. VarsAt(bt, h, c[2], a) /\ VarsSound(bt, h)
    BY <1>1, <1>2, <1>3, VarsStay
  <1>5. ValueSound(bt, v, Typed(type, c[1].fn)) /\ (v.place # <<>> => Dom(bt, v.place[1], a))
    <2>1. CASE v = Result(type, bt, a) /\ type \in ValueTypes
      BY <1>2, <1>3, <2>1, ResultSound
    <2>2. ASSUME NEW x, v = Constant(type, x), type \in ValueTypes
          PROVE  ValueSound(bt, v, Typed(type, c[1].fn)) /\ v.place = <<>>
      BY <2>2, ConstantSound
    <2>3. CASE v = Never /\ type = "never"
      BY <2>3, ConstantSound, TypeFacts
    <2> QED
      BY <2>1, <2>2, <2>3 DEF bt
  <1>6. \E c2 : Sound(m, dcl, <<>> \o Tail(ts), c2, Swapped(vs, Pops(ts[1]), <<v>>), bt, h, a)
    <2>1. {a} \subseteq {a} /\ (Closed(bt, a) <=> LlvmType(type) = "void")
      BY <1>2
    <2> DEFINE S == {a}
    <2>2. Extends(bs, bt, S, {}, {}) /\ S \subseteq {a}
      BY <1>2
    <2> HIDE DEF S
    <2> QED
      BY <1>2, <1>4, <1>5, <2>1, <2>2, StepHere
  <1> QED
    BY <1>6 DEF bt

\* Only a value.
LEMMA ValueStep ==
  ASSUME NEW m, NEW dcl, NEW ts, NEW c, NEW vs, NEW bs, NEW h, NEW a,
         Sound(m, dcl, ts, c, vs, bs, h, a), ts # <<>>, ts[1].do # "end", Pending(ts[1]) = {},
         NEW type, Gives(c[1], c[2], Pops(ts[1]), type), c[2].vars \subseteq c[1].vars,
         Over(c[1]) <=> LlvmType(type) = "void",
         NEW v, ValueSound(bs, v, Typed(type, c[1].fn)), v.place # <<>> => Dom(bs, v.place[1], a)
  PROVE  \E c2 : Sound(m, dcl, <<>> \o Tail(ts), c2, Swapped(vs, Pops(ts[1]), <<v>>), bs, h, a)
  <1>1. Begins(m, dcl, ts[1], c[1], c[2], vs, bs, h, a)
    BY Start
  <1>2. Extends(bs, bs, {}, {}, {}) /\ Heap(m, dcl, bs) /\ (Closed(bs, a) <=> Over(c[1]))
    BY <1>1, ExtendsSame DEF Begins
  <1>3. c[2].fn = c[1].fn
    BY <1>1 DEF Begins, Rule
  <1>4. VarsAt(bs, h, c[2], a) /\ VarsSound(bs, h)
    BY <1>1, <1>2, <1>3, VarsStay
  <1> DEFINE S == {}
  <1>5. Extends(bs, bs, S, {}, {}) /\ S \subseteq {a} /\ Len(bs) = Len(bs)
    BY <1>2
  <1> HIDE DEF S
  <1>6. Closed(bs, a) <=> LlvmType(type) = "void"
    BY <1>2
  <1> QED
    BY <1>2, <1>4, <1>5, <1>6, StepHere

-----------------------------------------------------------------------------
(* The tasks that are done where the builder is.                             *)

WithId(i, id) == [i EXCEPT !.id = id]

LEMMA InstrFields ==
  ASSUME NEW op, NEW name, NEW args, NEW to, NEW id
  PROVE  /\ LET i == Instr(op, name, args, to)
            IN i.op = op /\ i.name = name /\ i.args = args /\ i.to = to /\ i.id = 0
         /\ LET i == WithId(Instr(op, name, args, to), id)
            IN i.op = op /\ i.name = name /\ i.args = args /\ i.to = to /\ i.id = id
  BY DEF Instr, WithId

\* An instruction that uses values that are there.
Uses(bs, i, a) == \A k \in 1..Len(i.args) : UseSound(bs, i.args[k], a)
Checks(m, dcl, bs, a, i) ==
  /\ i.op \in {"load", "store"} => \E c \in 1..Len(bs) : Allocates(bs, c, i.id) /\ Dom(bs, c, a)
  /\ i.op = "ret" => {i.args[k].type : k \in 1..Len(i.args)} = {RetType(m, bs[a].function)} \ {"void"}
  /\ i.op = "call" => i.name \in dcl /\ [k \in DOMAIN i.args |-> i.args[k].type] = ParamTypes(m, i.name)

LEMMA PlainInstr ==
  ASSUME NEW m, NEW dcl, NEW bs, NEW a, NEW i, IsSeq(i.args), i.to = <<>>, i.op # "phi",
         Uses(bs, i, a), Checks(m, dcl, bs, a, i)
  PROVE  InstrSound(m, dcl, bs, a, i)
  <1>1. IsSeq(i.to) /\ Len(i.to) = 0
    BY SeqNone
  <1>2. \A k \in 1..Len(i.to) : i.to[k] \in 1..Len(bs) /\ bs[i.to[k]].function = bs[a].function
    BY <1>1
  <1>3. i.op # "phi" => \A k \in 1..Len(i.args) : UseSound(bs, i.args[k], a)
    BY DEF Uses
  <1>4. i.op \in {"load", "store"} => \E c \in 1..Len(bs) : Allocates(bs, c, i.id) /\ Dom(bs, c, a)
    BY DEF Checks
  <1>5. i.op = "ret" => {i.args[k].type : k \in 1..Len(i.args)} = {RetType(m, bs[a].function)} \ {"void"}
    BY DEF Checks
  <1>6. i.op = "call" => i.name \in dcl /\ [k \in DOMAIN i.args |-> i.args[k].type] = ParamTypes(m, i.name)
    BY DEF Checks
  <1> QED
    BY <1>1, <1>2, <1>3, <1>4, <1>5, <1>6 DEF InstrSound

\* A variable in scope has its place.
LEMMA VariableThere ==
  ASSUME NEW m, NEW dcl, NEW t, NEW s, NEW u, NEW vs, NEW bs, NEW h, NEW a, Begins(m, dcl, t, s, u, vs, bs, h, a),
         NEW id \in s.vars
  PROVE  <<s.fn, id>> \in DOMAIN h /\ \E c \in 1..Len(bs) : Allocates(bs, c, id) /\ Dom(bs, c, a)
  <1> DEFINE x == <<s.fn, id>>
  <1>1. x \in DOMAIN h /\ Dom(bs, h[x], a)
    BY DEF Begins, ReadyAt
  <1>2. x[2] = id
    OBVIOUS
  <1> HIDE DEF x
  <1>3. h[x] \in 1..Len(bs) /\ Allocates(bs, h[x], x[2])
    BY <1>1 DEF Begins, VarsSound
  <1> QED
    BY <1>1, <1>2, <1>3 DEF x

\* The rule of the first task.
LEMMA FirstRule ==
  ASSUME NEW m, NEW dcl, NEW ts, NEW c, NEW vs, NEW bs, NEW h, NEW a,
         Sound(m, dcl, ts, c, vs, bs, h, a), ts # <<>>
  PROVE  LET t == ts[1]
             s == c[1]
             u == c[2]
         IN /\ Begins(m, dcl, t, s, u, vs, bs, h, a) /\ Rule(m, dcl, t, s, u)
            /\ RuleValue(t, s, u, t.node) /\ RuleParts(m, t, s, u, t.node) /\ RuleFunction(m, dcl, t, s, u, t.node)
            /\ a \in 1..Len(bs) /\ bs[a].function = s.fn /\ s.size \in Nat
            /\ t.do # "end" => u.fn = s.fn /\ u.inside /\ u.loops \subseteq s.loops
  <1>1. Begins(m, dcl, ts[1], c[1], c[2], vs, bs, h, a)
    BY Start
  <1>2. Rule(m, dcl, ts[1], c[1], c[2]) /\ a \in 1..Len(bs) /\ bs[a].function = c[1].fn /\ c[1].size \in Nat
    BY <1>1 DEF Begins
  <1> QED
    BY <1>1, <1>2 DEF Rule

LEMMA LiteralStep ==
  ASSUME NEW m \in Modules, NEW dcl, NEW ts, NEW c, NEW vs, NEW bs, NEW h, NEW a,
         Sound(m, dcl, ts, c, vs, bs, h, a), ts # <<>>,
         ts[1].do = "generate", ts[1].node.kind \in {"unit", "bool", "int"}
  PROVE  LET e == ts[1].node
         IN \E c2 : Sound(m, dcl, <<>> \o Tail(ts), c2, Swapped(vs, 0, <<Constant(e.kind, e.name)>>), bs, h, a)
  <1> DEFINE t == ts[1]
             e == t.node
             s == c[1]
             u == c[2]
             v == Constant(e.kind, e.name)
  <1>1. ~Over(s) /\ Inner(m, s.fn, s.vars, e, u.vars) /\ Gives(s, u, 0, e.type)
    BY FirstRule DEF RuleParts
  <1>2. u.vars = s.vars /\ e.type = e.kind /\ e.type \in ValueTypes
    BY <1>1, LeafTyped
  <1>3. Pops(t) = 0 /\ Pending(t) = {} /\ t.do # "end"
    BY DEF Pops, Pending
  <1>4. ValueSound(bs, v, Typed(e.type, s.fn)) /\ v.place = <<>>
    BY <1>2, ConstantSound
  <1>5. Over(s) <=> LlvmType(e.type) = "void"
    BY <1>1, <1>2, TypeFacts
  <1> HIDE DEF v
  <1>6. \E c2 : Sound(m, dcl, <<>> \o Tail(ts), c2, Swapped(vs, Pops(t), <<v>>), bs, h, a)
    BY <1>1, <1>2, <1>3, <1>4, <1>5, ValueStep
  <1> QED
    BY <1>3, <1>6 DEF v

LEMMA VariableStep ==
  ASSUME NEW m \in Modules, NEW dcl, NEW ts, NEW c, NEW vs, NEW bs, NEW h, NEW a,
         Sound(m, dcl, ts, c, vs, bs, h, a), ts # <<>>,
         ts[1].do = "generate", ts[1].node.kind = "variable"
  PROVE  LET e == ts[1].node
             bt == Emit(bs, a, [Instr("load", "none", <<>>, <<>>) EXCEPT !.id = e.id])
         IN /\ <<bs[a].function, e.id>> \in DOMAIN h
            /\ \E c2 : Sound(m, dcl, <<>> \o Tail(ts), c2, Swapped(vs, 0, <<Result(e.type, bt, a)>>), bt, h, a)
  <1> DEFINE t == ts[1]
             e == t.node
             s == c[1]
             u == c[2]
             i == WithId(Instr("load", "none", <<>>, <<>>), e.id)
             v == Result(e.type, Emit(bs, a, i), a)
  <1>1. ~Over(s) /\ Inner(m, s.fn, s.vars, e, u.vars) /\ Gives(s, u, 0, e.type)
        /\ Begins(m, dcl, t, s, u, vs, bs, h, a) /\ bs[a].function = s.fn
    BY FirstRule, SMTT(30) DEF RuleParts
  <1>2. u.vars = s.vars /\ e.type \in ValueTypes /\ e.id \in s.vars
    BY <1>1, LeafTyped
  <1>3. Pops(t) = 0 /\ Pending(t) = {} /\ t.do # "end"
    BY DEF Pops, Pending
  <1>4. <<s.fn, e.id>> \in DOMAIN h /\ \E d \in 1..Len(bs) : Allocates(bs, d, e.id) /\ Dom(bs, d, a)
    BY <1>1, <1>2, VariableThere
  <1>5. i.op = "load" /\ i.args = <<>> /\ i.to = <<>> /\ i.id = e.id
    BY InstrFields
  <1>6. LlvmType(e.type) # "void" /\ ~IsTerminator(i)
    BY <1>2, <1>5, TypeFacts DEF IsTerminator, Terminators
  <1> HIDE DEF v, i
  <1>7. InstrSound(m, dcl, bs, a, i)
    <2>1. IsSeq(i.args) /\ Len(i.args) = 0
      BY <1>5, SeqNone
    <2>2. Uses(bs, i, a)
      BY <2>1 DEF Uses
    <2>3. Checks(m, dcl, bs, a, i)
      BY <1>4, <1>5 DEF Checks
    <2> QED
      BY <1>5, <2>1, <2>2, <2>3, PlainInstr
  <1>8. \E c2 : Sound(m, dcl, <<>> \o Tail(ts), c2, Swapped(vs, Pops(t), <<v>>), Emit(bs, a, i), h, a)
    <2> DEFINE type == e.type
    <2>1. v = Result(type, Emit(bs, a, i), a) /\ type \in ValueTypes /\ Gives(s, u, Pops(t), type)
          /\ (IsTerminator(i) <=> LlvmType(type) = "void") /\ u.vars \subseteq s.vars /\ i.op # "phi"
      BY <1>1, <1>2, <1>3, <1>5, <1>6 DEF v
    <2> HIDE DEF type
    <2> QED
      BY <1>1, <1>3, <1>5, <1>7, <2>1, EmitStep
  <1> QED
    BY <1>1, <1>3, <1>4, <1>8 DEF v, i, WithId

LEMMA NotStep ==
  ASSUME NEW m, NEW dcl, NEW ts, NEW c, NEW vs, NEW bs, NEW h, NEW a,
         Sound(m, dcl, ts, c, vs, bs, h, a), ts # <<>>, ts[1].do = "not"
  PROVE  LET bt == Emit(bs, a, Instr("not", "none", <<vs[1]>>, <<>>))
         IN \E c2 : Sound(m, dcl, <<>> \o Tail(ts), c2, Swapped(vs, 1, <<Result("bool", bt, a)>>), bt, h, a)
  <1> DEFINE t == ts[1]
             s == c[1]
             u == c[2]
             i == Instr("not", "none", <<vs[1]>>, <<>>)
             v == Result("bool", Emit(bs, a, i), a)
  <1>1. TopIs(s, 1, "bool") /\ Gives(s, u, 1, "bool") /\ u.vars = s.vars /\ Begins(m, dcl, t, s, u, vs, bs, h, a)
    BY FirstRule DEF RuleValue
  <1>2. Pops(t) = 1 /\ Pending(t) = {} /\ t.do # "end"
    BY DEF Pops, Pending
  <1>3. UseSound(bs, vs[1], a) /\ ~Over(s)
    <2>1. 1 \in Nat \ {0}
      OBVIOUS
    <2> QED
      BY <1>1, <2>1, TopValue, TypeFacts
  <1>4. i.op = "not" /\ i.args = <<vs[1]>> /\ i.to = <<>>
    BY InstrFields
  <1>5. LlvmType("bool") # "void" /\ ~IsTerminator(i) /\ "bool" \in ValueTypes
    BY <1>4, TypeFacts DEF IsTerminator, Terminators
  <1> HIDE DEF v, i
  <1>6. InstrSound(m, dcl, bs, a, i)
    <2>1. IsSeq(i.args) /\ Len(i.args) = 1 /\ i.args[1] = vs[1]
      BY <1>4, SeqOne
    <2>2. \A k \in 1..Len(i.args) : k = 1
      BY <2>1
    <2>3. Uses(bs, i, a)
      BY <1>3, <2>1, <2>2 DEF Uses
    <2>4. Checks(m, dcl, bs, a, i)
      BY <1>4 DEF Checks
    <2> QED
      BY <1>4, <2>1, <2>3, <2>4, PlainInstr
  <1>7. \E c2 : Sound(m, dcl, <<>> \o Tail(ts), c2, Swapped(vs, Pops(t), <<v>>), Emit(bs, a, i), h, a)
    <2> DEFINE type == "bool"
    <2>1. v = Result(type, Emit(bs, a, i), a) /\ type \in ValueTypes /\ Gives(s, u, Pops(t), type)
          /\ (IsTerminator(i) <=> LlvmType(type) = "void") /\ u.vars \subseteq s.vars /\ i.op # "phi"
      BY <1>1, <1>2, <1>4, <1>5 DEF v
    <2> HIDE DEF type
    <2> QED
      BY <1>2, <1>3, <1>4, <1>6, <2>1, EmitStep
  <1> QED
    BY <1>2, <1>7 DEF v, i

LEMMA OrStep ==
  ASSUME NEW m \in Modules, NEW dcl, NEW ts, NEW c, NEW vs, NEW bs, NEW h, NEW a,
         Sound(m, dcl, ts, c, vs, bs, h, a), ts # <<>>, ts[1].do = "or"
  PROVE  LET bt == Emit(bs, a, Instr("or", "none", <<vs[2], vs[1]>>, <<>>))
         IN \E c2 : Sound(m, dcl, <<>> \o Tail(ts), c2, Swapped(vs, 2, <<Result("bool", bt, a)>>), bt, h, a)
  <1> DEFINE t == ts[1]
             s == c[1]
             u == c[2]
             i == Instr("or", "none", <<vs[2], vs[1]>>, <<>>)
             v == Result("bool", Emit(bs, a, i), a)
  <1>1. TopIs(s, 1, "bool") /\ TopIs(s, 2, "bool") /\ Gives(s, u, 2, "bool") /\ u.vars = s.vars
        /\ Begins(m, dcl, t, s, u, vs, bs, h, a)
    BY FirstRule DEF RuleValue
  <1>2. Pops(t) = 2 /\ Pending(t) = {} /\ t.do # "end"
    BY DEF Pops, Pending
  <1>3. UseSound(bs, vs[1], a) /\ UseSound(bs, vs[2], a) /\ ~Over(s)
    <2>1. 1 \in Nat \ {0} /\ 2 \in Nat \ {0}
      OBVIOUS
    <2> QED
      BY <1>1, <2>1, TopValue, TypeFacts
  <1>4. i.op = "or" /\ i.args = <<vs[2], vs[1]>> /\ i.to = <<>>
    BY InstrFields
  <1>5. LlvmType("bool") # "void" /\ ~IsTerminator(i) /\ "bool" \in ValueTypes
    BY <1>4, TypeFacts DEF IsTerminator, Terminators
  <1> HIDE DEF v, i
  <1>6. InstrSound(m, dcl, bs, a, i)
    <2>1. IsSeq(i.args) /\ Len(i.args) = 2 /\ i.args[1] = vs[2] /\ i.args[2] = vs[1]
      BY <1>4, SeqTwo
    <2>2. \A k \in 1..Len(i.args) : k = 1 \/ k = 2
      BY <2>1
    <2>3. Uses(bs, i, a)
      BY <1>3, <2>1, <2>2 DEF Uses
    <2>4. Checks(m, dcl, bs, a, i)
      BY <1>4 DEF Checks
    <2> QED
      BY <1>4, <2>1, <2>3, <2>4, PlainInstr
  <1>7. \E c2 : Sound(m, dcl, <<>> \o Tail(ts), c2, Swapped(vs, Pops(t), <<v>>), Emit(bs, a, i), h, a)
    <2> DEFINE type == "bool"
    <2>1. v = Result(type, Emit(bs, a, i), a) /\ type \in ValueTypes /\ Gives(s, u, Pops(t), type)
          /\ (IsTerminator(i) <=> LlvmType(type) = "void") /\ u.vars \subseteq s.vars /\ i.op # "phi"
      BY <1>1, <1>2, <1>4, <1>5 DEF v
    <2> HIDE DEF type
    <2> QED
      BY <1>2, <1>3, <1>4, <1>6, <2>1, EmitStep
  <1> QED
    BY <1>2, <1>7 DEF v, i

\* The uppermost value is returned.
LEMMA RetSound ==
  ASSUME NEW m, NEW dcl, NEW t, NEW s, NEW u, NEW vs, NEW bs, NEW h, NEW a, Begins(m, dcl, t, s, u, vs, bs, h, a),
         NEW r \in ValueTypes, r = FunctionIn(m, s.fn).ret, TopIs(s, 1, r), NEW i, i = Instr("ret", "none", <<vs[1]>>, <<>>)
  PROVE  InstrSound(m, dcl, bs, a, i) /\ i.op = "ret" /\ i.to = <<>> /\ IsTerminator(i) /\ ~Over(s)
  <1>1. UseSound(bs, vs[1], a) /\ ~Over(s) /\ vs[1].type = LlvmType(r) /\ LlvmType(r) # "void"
    <2>1. 1 \in Nat \ {0}
      OBVIOUS
    <2> QED
      BY <2>1, TopValue, TypeFacts
  <1>2. i.op = "ret" /\ i.args = <<vs[1]>> /\ i.to = <<>>
    BY InstrFields
  <1>3. IsTerminator(i)
    BY <1>2 DEF IsTerminator, Terminators
  <1>4. IsSeq(i.args) /\ Len(i.args) = 1 /\ i.args[1] = vs[1]
    BY <1>2, SeqOne
  <1>5. \A k \in 1..Len(i.args) : k = 1
    <2>1. Len(i.args) = 1
      BY <1>4
    <2>2. \A k \in 1..1 : k = 1
      OBVIOUS
    <2> QED
      BY ONLY <2>1, <2>2
  <1>6. Uses(bs, i, a)
    BY <1>1, <1>4, <1>5 DEF Uses
  <1>7. RetType(m, bs[a].function) = LlvmType(r)
    BY DEF RetType, Begins
  <1>8. {i.args[k].type : k \in 1..Len(i.args)} = {LlvmType(r)}
    <2>1. 1 \in 1..Len(i.args)
      BY <1>4
    <2> QED
      BY <1>1, <1>4, <1>5, <2>1
  <1>9. Checks(m, dcl, bs, a, i)
    BY <1>1, <1>2, <1>7, <1>8 DEF Checks
  <1> QED
    BY <1>1, <1>2, <1>3, <1>4, <1>6, <1>9, PlainInstr

LEMMA ReturnStep ==
  ASSUME NEW m \in Modules, NEW dcl, NEW ts, NEW c, NEW vs, NEW bs, NEW h, NEW a,
         Sound(m, dcl, ts, c, vs, bs, h, a), ts # <<>>, ts[1].do = "return"
  PROVE  LET bt == Emit(bs, a, Instr("ret", "none", <<vs[1]>>, <<>>))
         IN \E c2 : Sound(m, dcl, <<>> \o Tail(ts), c2, Swapped(vs, 1, <<Never>>), bt, h, a)
  <1> DEFINE t == ts[1]
             s == c[1]
             u == c[2]
             i == Instr("ret", "none", <<vs[1]>>, <<>>)
             r == FunctionIn(m, s.fn).ret
  <1>1. r \in ValueTypes /\ TopIs(s, 1, r) /\ Gives(s, u, 1, "never") /\ u.vars = s.vars
        /\ Begins(m, dcl, t, s, u, vs, bs, h, a) /\ bs[a].function = s.fn
    <2>1. RuleFunction(m, dcl, t, s, u, t.node) /\ Begins(m, dcl, t, s, u, vs, bs, h, a) /\ bs[a].function = s.fn
      BY FirstRule
    <2> QED
      BY <2>1 DEF RuleFunction
  <1>2. Pops(t) = 1 /\ Pending(t) = {} /\ t.do # "end"
    BY DEF Pops, Pending
  <1>3. r = FunctionIn(m, s.fn).ret /\ i = Instr("ret", "none", <<vs[1]>>, <<>>)
    OBVIOUS
  <1> HIDE DEF r, i, t, s, u
  <1>4. InstrSound(m, dcl, bs, a, i) /\ i.op = "ret" /\ i.to = <<>> /\ IsTerminator(i) /\ ~Over(s)
    BY <1>1, <1>3, RetSound, ZenonT(30)
  <1>5. LlvmType("never") = "void"
    BY TypeFacts
  <1> USE DEF t, s, u
  <1>6. \E c2 : Sound(m, dcl, <<>> \o Tail(ts), c2, Swapped(vs, Pops(t), <<Never>>), Emit(bs, a, i), h, a)
    <2> DEFINE type == "never"
               v == Never
    <2>1. v = Never /\ type = "never" /\ Gives(s, u, Pops(t), type)
          /\ (IsTerminator(i) <=> LlvmType(type) = "void") /\ u.vars \subseteq s.vars /\ i.op # "phi"
      BY <1>1, <1>2, <1>4, <1>5
    <2> HIDE DEF type, v
    <2>2. \E c2 : Sound(m, dcl, <<>> \o Tail(ts), c2, Swapped(vs, Pops(t), <<v>>), Emit(bs, a, i), h, a)
      BY <1>2, <1>4, <2>1, EmitStep
    <2> QED
      BY <2>2 DEF v
  <1> QED
    BY <1>2, <1>6 DEF i

LEMMA LastStep ==
  ASSUME NEW m \in Modules, NEW dcl, NEW ts, NEW c, NEW vs, NEW bs, NEW h, NEW a,
         Sound(m, dcl, ts, c, vs, bs, h, a), ts # <<>>, ts[1].do = "last"
  PROVE  \E c2 : Sound(m, dcl, <<>> \o Tail(ts), c2, Swapped(vs, 2, <<vs[1]>>), bs, h, a)
  <1> DEFINE t == ts[1]
             e == t.node
             s == c[1]
             u == c[2]
  <1>1. TopIs(s, 1, e.type) /\ Gives(s, u, 2, e.type) /\ u.vars = s.vars /\ Begins(m, dcl, t, s, u, vs, bs, h, a)
    BY FirstRule DEF RuleValue
  <1>2. Pops(t) = 2 /\ Pending(t) = {} /\ t.do # "end"
    BY DEF Pops, Pending
  <1>3. ValueSound(bs, vs[1], Typed(e.type, s.fn)) /\ (Over(s) <=> LlvmType(e.type) = "void")
    <2>1. 1 \in Nat \ {0}
      OBVIOUS
    <2> QED
      BY <1>1, <2>1, TopValue
  <1>4. vs[1].place # <<>> => Dom(bs, vs[1].place[1], a)
    <2>1. s.size \in Nat /\ 1 <= s.size /\ Len(vs) = s.size
      BY <1>1 DEF TopIs, Begins
    <2>2. s.size \in 1..s.size /\ Len(vs) + 1 - s.size = 1
      BY <2>1
    <2>3. FromBelow(vs, s.size) = vs[1]
      BY <2>2 DEF FromBelow
    <2>4. vs[1].place # <<>> => bs[vs[1].place[1]].function = s.fn
      BY <1>3 DEF ValueSound, Typed
    <2> QED
      BY <1>1, <2>2, <2>3, <2>4 DEF Begins, ReadyAt
  <1>5. \E c2 : Sound(m, dcl, <<>> \o Tail(ts), c2, Swapped(vs, Pops(t), <<vs[1]>>), bs, h, a)
    BY <1>1, <1>2, <1>3, <1>4, ValueStep
  <1> QED
    BY <1>2, <1>5

LEMMA AssignStep ==
  ASSUME NEW m \in Modules, NEW dcl, NEW ts, NEW c, NEW vs, NEW bs, NEW h, NEW a,
         Sound(m, dcl, ts, c, vs, bs, h, a), ts # <<>>, ts[1].do = "assign"
  PROVE  LET bt == Emit(bs, a, [Instr("store", "none", <<vs[1]>>, <<>>) EXCEPT !.id = ts[1].node.id])
         IN \E c2 : Sound(m, dcl, <<>> \o Tail(ts), c2, Swapped(vs, 2, <<UnitValue>>), bt, h, a)
  <1> DEFINE t == ts[1]
             e == t.node
             s == c[1]
             u == c[2]
             i == WithId(Instr("store", "none", <<vs[1]>>, <<>>), e.id)
  <1>1. TopIs(s, 1, e.subs[1].type) /\ e.subs[1].type \in ValueTypes /\ Gives(s, u, 2, "unit")
        /\ e.id \in s.vars /\ u.vars = s.vars /\ Begins(m, dcl, t, s, u, vs, bs, h, a)
    BY FirstRule DEF RuleValue
  <1>2. Pops(t) = 2 /\ Pending(t) = {} /\ t.do # "end"
    BY DEF Pops, Pending
  <1>3. UseSound(bs, vs[1], a) /\ ~Over(s)
    <2>1. 1 \in Nat \ {0}
      OBVIOUS
    <2> QED
      BY <1>1, <2>1, TopValue, TypeFacts
  <1>4. i.op = "store" /\ i.args = <<vs[1]>> /\ i.to = <<>> /\ i.id = e.id
    BY InstrFields
  <1>5. LlvmType("unit") # "void" /\ ~IsTerminator(i) /\ "unit" \in ValueTypes
    BY <1>4, TypeFacts DEF IsTerminator, Terminators
  <1>6. \E d \in 1..Len(bs) : Allocates(bs, d, e.id) /\ Dom(bs, d, a)
    BY <1>1, VariableThere
  <1> HIDE DEF i
  <1>7. InstrSound(m, dcl, bs, a, i)
    <2>1. IsSeq(i.args) /\ Len(i.args) = 1 /\ i.args[1] = vs[1]
      BY <1>4, SeqOne
    <2>2. \A k \in 1..Len(i.args) : k = 1
      BY <2>1
    <2>3. Uses(bs, i, a)
      BY <1>3, <2>1, <2>2 DEF Uses
    <2>4. Checks(m, dcl, bs, a, i)
      BY <1>4, <1>6 DEF Checks
    <2> QED
      BY <1>4, <2>1, <2>3, <2>4, PlainInstr
  <1>8. \E c2 : Sound(m, dcl, <<>> \o Tail(ts), c2, Swapped(vs, Pops(t), <<UnitValue>>), Emit(bs, a, i), h, a)
    <2> DEFINE type == "unit"
               v == UnitValue
    <2>1. (\E x : v = Constant(type, x)) /\ type \in ValueTypes /\ Gives(s, u, Pops(t), type)
          /\ (IsTerminator(i) <=> LlvmType(type) = "void") /\ u.vars \subseteq s.vars /\ i.op # "phi"
      BY <1>1, <1>2, <1>4, <1>5 DEF UnitValue
    <2> HIDE DEF type, v
    <2>2. \E c2 : Sound(m, dcl, <<>> \o Tail(ts), c2, Swapped(vs, Pops(t), <<v>>), Emit(bs, a, i), h, a)
      BY <1>2, <1>3, <1>4, <1>7, <2>1, EmitStep
    <2> QED
      BY <2>2 DEF v
  <1> QED
    BY <1>2, <1>8 DEF i, WithId

\* A task that only looks at what there is.
LEMMA LookStep ==
  ASSUME NEW m \in Modules, NEW dcl, NEW ts, NEW c, NEW vs, NEW bs, NEW h, NEW a,
         Sound(m, dcl, ts, c, vs, bs, h, a), ts # <<>>, ts[1].do \in {"expect", "destination"}
  PROVE  /\ ts[1].do = "expect" => vs[1] # Never
         /\ ts[1].do = "destination" => <<bs[a].function, ts[1].node.id>> \in DOMAIN h
         /\ \E c2 : Sound(m, dcl, <<>> \o Tail(ts), c2, vs, bs, h, a)
  <1> DEFINE t == ts[1]
             e == t.node
             s == c[1]
             u == c[2]
  <1>1. /\ t.do = "expect" => TopIs(s, 1, e.type) /\ e.type \in ValueTypes
        /\ t.do = "destination" => e.id \in s.vars
        /\ u = s /\ Begins(m, dcl, t, s, u, vs, bs, h, a) /\ bs[a].function = s.fn
    BY FirstRule DEF RuleValue
  <1>2. Pops(t) \in {0, 1} /\ Pending(t) = {} /\ t.do # "end" /\ Under(t, s) = s.size - Pops(t)
    BY DEF Pops, Pending, Under
  <1>3. t.do = "expect" => vs[1] # Never /\ 1 \in 1..s.size
    <2>1. 1 \in Nat \ {0}
      OBVIOUS
    <2> QED
      BY <1>1, <2>1, TopValue
  <1>4. t.do = "destination" => <<bs[a].function, e.id>> \in DOMAIN h
    BY <1>1, VariableThere
  <1>5. Extends(bs, bs, {}, {}, {}) /\ Heap(m, dcl, bs) /\ VarsSound(bs, h) /\ Matches(bs, vs, s) /\ s.size \in Nat
        /\ Len(vs) = s.size
    BY <1>1, ExtendsSame DEF Begins
  <1>6. Keeps(bs, vs, vs, Under(t, s))
    <2>1. \A i \in 1..Under(t, s) : i \in 1..s.size
      BY <1>2, <1>5
    <2>2. \A i \in 1..Under(t, s) : ValueSound(bs, FromBelow(vs, i), s.stack[i])
      BY <1>5, <2>1 DEF Matches
    <2> QED
      BY <2>2 DEF Keeps, ValueSound
  <1>7. IsCurrent(bs, h, vs, a, u)
    BY <1>1, <1>5 DEF Begins, IsCurrent
  <1> DEFINE S == {}
             with == <<>>
  <1>8. Touches(bs, bs, S, {}, {}, h, h, vs, vs, t, s, a)
    BY <1>5, <1>6 DEF Touches
  <1>9. Path(m, dcl, Under(t, s), with, u, u) /\ with = <<>>
    BY PathNone
  <1> HIDE DEF S, with
  <1>10. \E c2 : Sound(m, dcl, with \o Tail(ts), c2, vs, bs, h, a)
    BY <1>1, <1>2, <1>5, <1>7, <1>8, <1>9, StepStill
  <1> QED
    BY <1>3, <1>4, <1>9, <1>10

\* A new variable.
WithVariable(h, h2, f, id) == DOMAIN h2 = DOMAIN h \cup {<<f, id>>}

LEMMA ValStep ==
  ASSUME NEW m \in Modules, NEW dcl, NEW ts, NEW c, NEW vs, NEW bs, NEW h, NEW a,
         Sound(m, dcl, ts, c, vs, bs, h, a), ts # <<>>, ts[1].do = "val"
  PROVE  LET bt == Emit(bs, a, [Instr("alloca", "none", <<vs[1]>>, <<>>) EXCEPT !.id = ts[1].node.id])
         IN \E c2, h2 : /\ WithVariable(h, h2, bs[a].function, ts[1].node.id)
                        /\ Sound(m, dcl, <<>> \o Tail(ts), c2, Swapped(vs, 2, <<UnitValue>>), bt, h2, a)
  <1> DEFINE t == ts[1]
             e == t.node
             s == c[1]
             u == c[2]
             i == WithId(Instr("alloca", "none", <<vs[1]>>, <<>>), e.id)
             bt == Emit(bs, a, i)
             x == <<s.fn, e.id>>
             h2 == [y \in DOMAIN h \cup {x} |-> IF y = x THEN a ELSE h[y]]
  <1>1. TopIs(s, 1, e.subs[1].type) /\ e.subs[1].type \in ValueTypes /\ Gives(s, u, 2, "unit")
        /\ e.id \in Nat \ s.vars /\ u.vars = s.vars \cup {e.id} /\ Begins(m, dcl, t, s, u, vs, bs, h, a)
        /\ a \in 1..Len(bs) /\ bs[a].function = s.fn /\ (t.do # "end" => u.fn = s.fn)
    <2>1. RuleValue(t, s, u, t.node) /\ Begins(m, dcl, t, s, u, vs, bs, h, a) /\ a \in 1..Len(bs)
          /\ bs[a].function = s.fn /\ (t.do # "end" => u.fn = s.fn)
      BY FirstRule
    <2> QED
      BY <2>1 DEF RuleValue
  <1>2. Pops(t) = 2 /\ Pending(t) = {} /\ t.do # "end"
    BY DEF Pops, Pending
  <1>3. UseSound(bs, vs[1], a) /\ ~Over(s)
    <2>1. 1 \in Nat \ {0}
      OBVIOUS
    <2> QED
      BY <1>1, <2>1, TopValue, TypeFacts
  <1>4. i.op = "alloca" /\ i.args = <<vs[1]>> /\ i.to = <<>> /\ i.id = e.id
    BY InstrFields
  <1>5. LlvmType("unit") # "void" /\ ~IsTerminator(i) /\ "unit" \in ValueTypes
    BY <1>4, TypeFacts DEF IsTerminator, Terminators
  <1> HIDE DEF i
  <1>7. InstrSound(m, dcl, bs, a, i)
    <2>1. IsSeq(i.args) /\ Len(i.args) = 1 /\ i.args[1] = vs[1]
      BY <1>4, SeqOne
    <2>2. \A k \in 1..Len(i.args) : k = 1
      BY <2>1
    <2>3. Uses(bs, i, a)
      BY <1>3, <2>1, <2>2 DEF Uses
    <2>4. Checks(m, dcl, bs, a, i)
      BY <1>4 DEF Checks
    <2> QED
      BY <1>4, <2>1, <2>3, <2>4, PlainInstr
  <1>8. Extends(bs, bt, {a}, {}, {}) /\ Len(bt) = Len(bs) /\ Heap(m, dcl, bt)
    BY <1>1, <1>3, <1>4, <1>7, EmitHere
  <1>9. ~Closed(bt, a)
    BY <1>1, <1>5, EmitClosed DEF Begins
  <1>10. Allocates(bt, a, e.id) /\ bt[a].function = s.fn
    <2>1. BlockShape(bs) /\ a \in 1..Len(bs)
      BY <1>1 DEF Begins
    <2>2. /\ BlockShape(bt) /\ Len(bt) = Len(bs) /\ Len(bs) \in Nat
          /\ \A d \in 1..Len(bs) : bt[d].function = bs[d].function
          /\ \A d \in 1..Len(bs) : d # a => bt[d] = bs[d]
          /\ Len(bt[a].code) = Len(bs[a].code) + 1 /\ Len(bs[a].code) \in Nat
          /\ \A k \in 1..Len(bs[a].code) : bt[a].code[k] = bs[a].code[k]
          /\ bt[a].code[Len(bs[a].code) + 1] = i
          /\ bt[a].code # <<>>
      BY ONLY <2>1, EmitShape, SMTT(30)
    <2>3. Len(bs[a].code) + 1 \in 1..Len(bt[a].code)
      BY <2>2
    <2> QED
      BY <1>1, <1>4, <2>1, <2>2, <2>3, SMTT(30) DEF Allocates
  <1> HIDE DEF bt
  <1>11. VarsAt(bt, h, s, a) /\ VarsSound(bt, h)
    <2> DEFINE S == {a}
    <2>1. Extends(bs, bt, S, {}, {}) /\ s.fn = s.fn /\ s.vars \subseteq s.vars
      BY <1>8
    <2> HIDE DEF S
    <2> QED
      BY <1>1, <2>1, VarsStay
  <1>12. x[1] = s.fn /\ x[2] = e.id /\ x \notin {<<s.fn, id>> : id \in s.vars}
    BY <1>1
  <1>13. \A id \in s.vars : <<s.fn, id>> # x
    BY <1>1
  <1> HIDE DEF x
  <1>14. DOMAIN h2 = DOMAIN h \cup {x} /\ h2[x] = a /\ \A y \in DOMAIN h : y # x => h2[y] = h[y]
    OBVIOUS
  <1> HIDE DEF h2
  <1>15. VarsAt(bt, h2, u, a)
    <2>1. \A id \in s.vars : <<s.fn, id>> \in DOMAIN h2 /\ Dom(bt, h2[<<s.fn, id>>], a)
      BY <1>11, <1>13, <1>14 DEF VarsAt
    <2>2. <<s.fn, e.id>> \in DOMAIN h2 /\ Dom(bt, h2[<<s.fn, e.id>>], a)
      BY <1>14 DEF Dom, x
    <2> QED
      BY <1>1, <1>2, <2>1, <2>2 DEF VarsAt
  <1>16. VarsSound(bt, h2)
    <2>1. ASSUME NEW y \in DOMAIN h2
          PROVE  h2[y] \in 1..Len(bt) /\ bt[h2[y]].function = y[1] /\ Allocates(bt, h2[y], y[2])
      <3>1. CASE y = x
        BY <1>1, <1>8, <1>10, <1>12, <1>14, <3>1
      <3>2. CASE y # x
        BY <1>11, <1>14, <3>2 DEF VarsSound
      <3> QED
        BY <3>1, <3>2
    <2> QED
      BY <2>1 DEF VarsSound
  <1>17. \A y \in DOMAIN h : y \in DOMAIN h2 /\ (h2[y] = h[y] \/ (y[1] = s.fn /\ y[2] \notin s.vars))
    BY <1>1, <1>12, <1>14
  <1>18. \E c2 : Sound(m, dcl, <<>> \o Tail(ts), c2, Swapped(vs, Pops(t), <<UnitValue>>), bt, h2, a)
    <2> DEFINE S == {a}
               type == "unit"
               v == UnitValue
    <2>1. Extends(bs, bt, S, {}, {}) /\ S \subseteq {a} /\ Gives(s, u, Pops(t), type)
          /\ (Closed(bt, a) <=> LlvmType(type) = "void")
      BY <1>1, <1>2, <1>5, <1>8, <1>9
    <2>2. ValueSound(bt, v, Typed(type, s.fn)) /\ v.place = <<>>
      BY <1>5, ConstantSound DEF UnitValue
    <2> HIDE DEF S, type, v
    <2>3. \E c2 : Sound(m, dcl, <<>> \o Tail(ts), c2, Swapped(vs, Pops(t), <<v>>), bt, h2, a)
      BY <1>2, <1>8, <1>15, <1>16, <1>17, <2>1, <2>2, StepHere
    <2> QED
      BY <2>3 DEF v
  <1>19. DOMAIN h2 = DOMAIN h \cup {<<bs[a].function, e.id>>}
    BY <1>1, <1>14 DEF x
  <1>20. \E c2, h3 : /\ WithVariable(h, h3, bs[a].function, e.id)
                     /\ Sound(m, dcl, <<>> \o Tail(ts), c2, Swapped(vs, 2, <<UnitValue>>), bt, h3, a)
    BY <1>2, <1>18, <1>19 DEF WithVariable
  <1> QED
    BY <1>20 DEF bt, i, WithId

-----------------------------------------------------------------------------
(* Tasks that become those for the parts of an expression.                   *)

LEMMA InnerGrows ==
  ASSUME NEW m \in Modules, NEW f, NEW ids, NEW e, NEW after, Inner(m, f, ids, e, after)
  PROVE  ids \subseteq after
  <1>1. PICK j \in Scopes(m) : /\ j.function = f /\ j.node = e /\ Before(j) = ids /\ After(j) = after
                               /\ ScopeIsTyped(m, Scopes(m), j)
    BY InnerScope
  <1>2. j.scopes \in Seq(SUBSET Nat) /\ \A i \in DOMAIN j.scopes : Before(j) \subseteq j.scopes[i]
    BY <1>1 DEF ScopeIsTyped
  <1>3. Len(j.scopes) \in 2..3 \/ Len(j.scopes) = Len(e.subs) + 1
    BY <1>1 DEF ScopeIsTyped, PartsInScope
  <1>4. Len(e.subs) \in Nat
    BY InnerScope, SeqFacts
  <1> DEFINE n == Len(j.scopes)
             k == Len(e.subs)
  <1>7. n \in Nat \ {0}
    <2>1. k \in Nat /\ (n \in 2..3 \/ n = k + 1)
      BY <1>3, <1>4
    <2> HIDE DEF n, k
    <2> QED
      BY <2>1
  <1> HIDE DEF n
  <1>8. n \in 1..n
    BY <1>7
  <1>5. Len(j.scopes) \in 1..Len(j.scopes)
    BY <1>8 DEF n
  <1>6. Len(j.scopes) \in DOMAIN j.scopes
    BY <1>2, <1>5
  <1> QED
    BY <1>1, <1>2, <1>6 DEF After

\* Where an expression may be generated, up to the state u.
Starts(m, dcl, n, e, s, u) ==
  /\ s.inside /\ s.size \in Nat /\ s.fn \in dcl /\ ~Over(s) /\ n \in Int /\ n <= s.size
  /\ Inner(m, s.fn, s.vars, e, u.vars) /\ Gives(s, u, 0, e.type)
  /\ u.fn = s.fn /\ u.inside /\ u.loops \subseteq s.loops

LEMMA PathGenerate ==
  ASSUME NEW m, NEW dcl, NEW n, NEW e, NEW s, NEW u, Starts(m, dcl, n, e, s, u)
  PROVE  Path(m, dcl, n, <<Generate(e)>>, s, u)
  <1> DEFINE t == Generate(e)
  <1>1. t.do = "generate" /\ t.node = e
    BY DEF Generate, Task
  <1> HIDE DEF t
  <1>2. Rule(m, dcl, t, s, u)
    BY <1>1 DEF Rule, RuleValue, RuleParts, RuleFunction, Tasks, Forks, Starts
  <1>3. n <= Under(t, s) /\ t.do # "end" /\ Pending(t) = {}
    BY <1>1 DEF Under, Pops, Pending, Starts
  <1>4. Path(m, dcl, n, <<t>>, s, u)
    BY <1>2, <1>3, PathOne
  <1> QED
    BY <1>4 DEF t

LEMMA PathExpect ==
  ASSUME NEW m, NEW dcl, NEW n, NEW e, NEW s, NEW u, Starts(m, dcl, n, e, s, u), e.type \in ValueTypes
  PROVE  Path(m, dcl, n, <<Task("expect", e)>>, u, u)
  <1> DEFINE t == Task("expect", e)
  <1>1. t.do = "expect" /\ t.node = e
    BY DEF Task
  <1> HIDE DEF t
  <1>2. u.size = s.size + 1 /\ u.stack[u.size] = Typed(e.type, u.fn) /\ s.size \in Nat /\ n \in Int /\ n <= s.size
    BY DEF Starts, Gives
  <1>3. u.size \in Nat /\ 1 <= u.size /\ u.size + 1 - 1 = u.size /\ n <= u.size - 1
    BY <1>2
  <1>4. TopIs(u, 1, e.type)
    BY <1>2, <1>3 DEF TopIs
  <1>5. Rule(m, dcl, t, u, u)
    BY <1>1, <1>3, <1>4 DEF Rule, RuleValue, RuleParts, RuleFunction, Tasks, Forks, Starts
  <1>6. n <= Under(t, u) /\ t.do # "end" /\ Pending(t) = {}
    BY <1>1, <1>3 DEF Under, Pops, Pending
  <1>7. Path(m, dcl, n, <<t>>, u, u)
    BY <1>5, <1>6, PathOne
  <1> QED
    BY <1>7 DEF t

LEMMA PathValue ==
  ASSUME NEW m \in Modules, NEW dcl, NEW n, NEW e, NEW s, NEW u, Starts(m, dcl, n, e, s, u), e.type \in ValueTypes
  PROVE  Path(m, dcl, n, GenerateValue(e), s, u) /\ s.vars \subseteq u.vars /\ ~Over(u)
  <1>1. s.vars \subseteq u.vars /\ u.fn = s.fn /\ u.loops \subseteq s.loops
    BY InnerGrows DEF Starts
  <1> DEFINE g == <<Generate(e)>>
             x == <<Task("expect", e)>>
  <1>2. Path(m, dcl, n, g, s, u) /\ Path(m, dcl, n, x, u, u)
    BY PathGenerate, PathExpect
  <1>3. GenerateValue(e) = g \o x
    BY DEF GenerateValue
  <1> HIDE DEF g, x
  <1>4. Path(m, dcl, n, g \o x, s, u)
    BY <1>1, <1>2, PathJoin
  <1>5. ~Over(u)
    <2>1. u.stack[u.size] = Typed(e.type, s.fn)
      BY DEF Starts, Gives
    <2> QED
      BY <2>1, TypeFacts DEF Over, Typed
  <1> QED
    BY <1>1, <1>3, <1>4, <1>5

\* A task becomes a path that starts with the state there is.
LEMMA PartsStep ==
  ASSUME NEW m, NEW dcl, NEW ts, NEW c, NEW vs, NEW bs, NEW h, NEW a,
         Sound(m, dcl, ts, c, vs, bs, h, a), ts # <<>>, ts[1].do = "generate",
         NEW with, NEW s, Path(m, dcl, c[1].size, with, s, c[2]), s = c[1]
  PROVE  \E c2 : Sound(m, dcl, with \o Tail(ts), c2, vs, bs, h, a)
  <1> DEFINE t == ts[1]
             u == c[2]
  <1>1. Begins(m, dcl, t, s, u, vs, bs, h, a)
    BY Start
  <1>2. Under(t, s) = s.size /\ Pending(t) = {} /\ t.do # "end"
    BY <1>1 DEF Under, Pops, Pending, Begins
  <1>3. Extends(bs, bs, {}, {}, {}) /\ Heap(m, dcl, bs) /\ VarsSound(bs, h) /\ Matches(bs, vs, s) /\ s.size \in Nat
        /\ Len(vs) = s.size /\ IsCurrent(bs, h, vs, a, s)
    BY <1>1, ExtendsSame DEF Begins, IsCurrent
  <1>4. Keeps(bs, vs, vs, Under(t, s))
    <2>1. \A i \in 1..s.size : ValueSound(bs, FromBelow(vs, i), s.stack[i])
      BY <1>3 DEF Matches
    <2> QED
      BY <1>2, <2>1 DEF Keeps, ValueSound
  <1> DEFINE S == {}
  <1>5. Touches(bs, bs, S, {}, {}, h, h, vs, vs, t, s, a)
    BY <1>3, <1>4 DEF Touches
  <1>6. Path(m, dcl, Under(t, s), with, s, u)
    BY <1>2
  <1> HIDE DEF S
  <1> QED
    BY <1>2, <1>3, <1>5, <1>6, StepStill

\* What follows from the rule that an expression is generated by.
LEMMA Generating1 ==
  ASSUME NEW m \in Modules, NEW dcl, NEW ts, NEW c, NEW vs, NEW bs, NEW h, NEW a,
         Sound(m, dcl, ts, c, vs, bs, h, a), ts # <<>>, ts[1].do = "generate"
  PROVE  LET s == c[1]
             u == c[2]
             e == ts[1].node
         IN /\ Starts(m, dcl, s.size, e, s, u) /\ Inner(m, s.fn, s.vars, e, u.vars) /\ s.vars \subseteq u.vars
            /\ s.size \in Nat /\ Gives(s, u, 0, e.type)
  <1> DEFINE s == c[1]
             u == c[2]
             e == ts[1].node
  <1>1. Rule(m, dcl, ts[1], s, u) /\ RuleParts(m, ts[1], s, u, e)
    BY FirstRule
  <1>2. ~Over(s) /\ Inner(m, s.fn, s.vars, e, u.vars) /\ Gives(s, u, 0, e.type)
    BY <1>1 DEF RuleParts
  <1>3. s.inside /\ s.size \in Nat /\ s.fn \in dcl /\ u.fn = s.fn /\ u.inside /\ u.loops \subseteq s.loops
    BY <1>1 DEF Rule
  <1>4. s.size <= s.size /\ s.size \in Int
    BY <1>3
  <1>5. s.vars \subseteq u.vars
    BY <1>2, InnerGrows
  <1> QED
    BY <1>2, <1>3, <1>4, <1>5 DEF Starts

LEMMA PushedFacts ==
  ASSUME NEW s, s.size \in Nat, NEW n \in Nat, n <= s.size, NEW type, NEW ids
  PROVE  LET r == Pushed(s, n, type, ids)
         IN /\ Gives(s, r, n, type) /\ TopIs(r, 1, type) /\ r.size = s.size - n + 1 /\ r.size \in Nat
            /\ r.fn = s.fn /\ r.vars = ids /\ r.loops = s.loops /\ r.inside
  <1> DEFINE r == Pushed(s, n, type, ids)
  <1>1. /\ r.size = s.size - n + 1 /\ r.fn = s.fn /\ r.vars = ids /\ r.loops = s.loops /\ r.inside
        /\ r.stack = [i \in 1..s.size - n + 1 |-> IF i <= s.size - n THEN s.stack[i] ELSE Typed(type, s.fn)]
    BY DEF Pushed
  <1> HIDE DEF r
  <1>2. r.size \in Nat /\ 1 <= r.size /\ r.size + 1 - 1 = r.size
    BY <1>1
  <1>3. \A i \in 1..s.size - n : i \in 1..s.size - n + 1 /\ i <= s.size - n
    OBVIOUS
  <1>4. s.size - n + 1 \in 1..s.size - n + 1 /\ ~(s.size - n + 1 <= s.size - n)
    OBVIOUS
  <1>5. (\A i \in 1..s.size - n : r.stack[i] = s.stack[i]) /\ r.stack[r.size] = Typed(type, s.fn)
    BY <1>1, <1>3, <1>4
  <1>6. Gives(s, r, n, type) /\ TopIs(r, 1, type)
    BY <1>1, <1>2, <1>5 DEF Gives, TopIs
  <1> QED
    BY <1>1, <1>2, <1>6 DEF r

LEMMA GivesTop ==
  ASSUME NEW s, s.size \in Nat, NEW n \in Nat, NEW u, NEW type, Gives(s, u, n, type), u.fn = s.fn
  PROVE  /\ TopIs(u, 1, type) /\ u.size \in Nat /\ u.size = s.size - n + 1
         /\ n = 0 => \A i \in Nat \ {0} : \A other : TopIs(s, i, other) => TopIs(u, i + 1, other)
         /\ Over(u) <=> LlvmType(type) = "void"
  <1>1. n <= s.size /\ u.size = s.size - n + 1 /\ u.stack[u.size] = Typed(type, s.fn)
        /\ \A i \in 1..s.size - n : u.stack[i] = s.stack[i]
    BY DEF Gives
  <1>2. u.size \in Nat /\ 1 <= u.size /\ u.size + 1 - 1 = u.size /\ u.size # 0
    BY <1>1
  <1>3. TopIs(u, 1, type)
    BY <1>1, <1>2 DEF TopIs
  <1>4. Over(u) <=> LlvmType(type) = "void"
    BY <1>1, <1>2 DEF Over, Typed
  <1>5. ASSUME n = 0, NEW i \in Nat \ {0}, NEW other, TopIs(s, i, other)
        PROVE  TopIs(u, i + 1, other)
    <2>1. i <= s.size /\ s.stack[s.size + 1 - i] = Typed(other, s.fn)
      BY <1>5 DEF TopIs
    <2>2. i + 1 <= u.size /\ u.size + 1 - (i + 1) = s.size + 1 - i /\ s.size + 1 - i \in 1..s.size - n
      BY <1>1, <1>5, <2>1
    <2> QED
      BY <1>1, <2>1, <2>2 DEF TopIs
  <1> QED
    BY <1>1, <1>2, <1>3, <1>4, <1>5

\* r has n values in place of the uppermost k of s.
LEMMA GivesFrom ==
  ASSUME NEW s, s.size \in Nat, NEW k \in Nat, NEW u, NEW type, Gives(s, u, k, type), NEW n \in Nat,
         NEW r, r.fn = s.fn, r.size = s.size - k + n, \A i \in 1..s.size - k : r.stack[i] = s.stack[i]
  PROVE  Gives(r, u, n, type)
  <1>1. k <= s.size /\ u.size = s.size - k + 1 /\ u.stack[u.size] = Typed(type, s.fn)
        /\ \A i \in 1..s.size - k : u.stack[i] = s.stack[i]
    BY DEF Gives
  <1>2. r.size - n = s.size - k /\ n <= r.size
    BY <1>1
  <1> QED
    BY <1>1, <1>2 DEF Gives

\* A task that uses the values there are, at the end of a path.
LEMMA PathLast ==
  ASSUME NEW m, NEW dcl, NEW n, NEW t, t.do \in {"not", "or", "return", "last", "val", "assign", "call", "rhs"},
         NEW r, NEW u, r.inside, r.size \in Nat, r.fn \in dcl, u.fn = r.fn, u.inside, u.loops \subseteq r.loops,
         RuleValue(t, r, u, t.node), RuleParts(m, t, r, u, t.node), RuleFunction(m, dcl, t, r, u, t.node),
         n <= Under(t, r)
  PROVE  Path(m, dcl, n, <<t>>, r, u)
  <1>1. Rule(m, dcl, t, r, u)
    BY DEF Rule, Tasks, Forks
  <1>2. t.do # "end" /\ Pending(t) = {}
    BY DEF Pending
  <1> QED
    BY <1>1, <1>2, PathOne

LEMMA OneParts ==
  ASSUME NEW m \in Modules, NEW dcl, NEW ts, NEW c, NEW vs, NEW bs, NEW h, NEW a,
         Sound(m, dcl, ts, c, vs, bs, h, a), ts # <<>>, ts[1].do = "generate",
         ts[1].node.kind \in {"not", "return"}
  PROVE  LET e == ts[1].node
             with == GenerateValue(e.subs[1]) \o <<Task(e.kind, e)>>
         IN \E c2 : Sound(m, dcl, with \o Tail(ts), c2, vs, bs, h, a)
  <1> DEFINE s == c[1]
             u == c[2]
             e == ts[1].node
             e1 == e.subs[1]
             n == s.size
             r == Pushed(s, 0, e1.type, u.vars)
             t == Task(e.kind, e)
  <1>1. /\ Starts(m, dcl, s.size, e, s, u) /\ Inner(m, s.fn, s.vars, e, u.vars) /\ s.vars \subseteq u.vars
        /\ s.size \in Nat /\ Gives(s, u, 0, e.type)
    BY Generating1
  <1>2. /\ Inner(m, s.fn, s.vars, e1, u.vars)
        /\ e.kind = "not" => e1.type = "bool" /\ e.type = "bool"
        /\ e.kind = "return" => /\ e1.type = FunctionIn(m, s.fn).ret /\ FunctionIn(m, s.fn).ret \in ValueTypes
                                /\ e.type = "never"
    BY <1>1, OneTyped
  <1>3. e1.type \in ValueTypes
    BY <1>2, TypeFacts
  <1>4. /\ Gives(s, r, 0, e1.type) /\ TopIs(r, 1, e1.type) /\ r.size = s.size - 0 + 1 /\ r.size \in Nat
        /\ r.fn = s.fn /\ r.vars = u.vars /\ r.loops = s.loops /\ r.inside
    <2>1. 0 <= s.size
      BY <1>1
    <2> QED
      BY <1>1, <2>1, PushedFacts
  <1>5. t.do = e.kind /\ t.node = e
    BY DEF Task
  <1> HIDE DEF r, t
  <1>6. Starts(m, dcl, n, e1, s, r)
    BY <1>1, <1>2, <1>4 DEF Starts
  <1>7. Path(m, dcl, n, GenerateValue(e1), s, r)
    BY <1>3, <1>6, PathValue
  <1>8. Gives(r, u, 1, e.type)
    <2>1. r.size = s.size - 0 + 1 /\ \A i \in 1..s.size - 0 : r.stack[i] = s.stack[i]
      BY <1>4 DEF Gives
    <2> QED
      BY <1>1, <1>4, <2>1, GivesFrom
  <1>9. Path(m, dcl, n, <<t>>, r, u)
    <2>1. RuleValue(t, r, u, e)
      BY <1>2, <1>4, <1>5, <1>8 DEF RuleValue
    <2>2. RuleParts(m, t, r, u, e)
      BY <1>5 DEF RuleParts
    <2>3. RuleFunction(m, dcl, t, r, u, e)
      BY <1>2, <1>4, <1>5, <1>8 DEF RuleFunction
    <2>4. r.fn \in dcl /\ u.fn = r.fn /\ u.inside /\ u.loops \subseteq r.loops
      BY <1>1, <1>4 DEF Starts
    <2>5. Pops(t) = 1
      BY <1>5 DEF Pops
    <2>6. n <= Under(t, r)
      BY <1>1, <1>4, <2>5 DEF Under
    <2>7. t.do \in {"not", "or", "return", "last", "val", "assign", "call", "rhs"} /\ t.node = e
      BY <1>5
    <2> QED
      BY <1>4, <2>1, <2>2, <2>3, <2>4, <2>6, <2>7, PathLast
  <1> DEFINE g == GenerateValue(e1)
             x == <<t>>
  <1>10. Path(m, dcl, n, g, s, r) /\ Path(m, dcl, n, x, r, u) /\ r.fn = s.fn /\ s.vars \subseteq r.vars
         /\ r.loops \subseteq s.loops
    BY <1>1, <1>4, <1>7, <1>9
  <1> HIDE DEF g, x
  <1>11. Path(m, dcl, n, g \o x, s, u)
    BY <1>10, PathJoin
  <1>12. \E c2 : Sound(m, dcl, (g \o x) \o Tail(ts), c2, vs, bs, h, a)
    <2> DEFINE with == g \o x
    <2>1. Path(m, dcl, c[1].size, with, s, u) /\ s = c[1]
      BY <1>11
    <2> HIDE DEF with
    <2>2. \E c2 : Sound(m, dcl, with \o Tail(ts), c2, vs, bs, h, a)
      BY <2>1, PartsStep
    <2> QED
      BY <2>2 DEF with
  <1> QED
    BY <1>12 DEF g, x, t

LEMMA UnderGiven ==
  ASSUME NEW s, s.size \in Nat, ~Over(s), NEW r, NEW type, Gives(s, r, 0, type), NEW ids
  PROVE  ~Over(Dropped(r, 1, ids))
  <1> DEFINE d == Dropped(r, 1, ids)
  <1>1. d.size = r.size - 1 /\ d.stack = r.stack
    BY DEF Dropped
  <1> HIDE DEF d
  <1>2. r.size = s.size - 0 + 1 /\ \A i \in 1..s.size - 0 : r.stack[i] = s.stack[i]
    BY DEF Gives
  <1>3. d.size = s.size
    BY <1>1, <1>2
  <1>4. s.size # 0 => s.size \in 1..s.size - 0
    OBVIOUS
  <1>5. s.size # 0 => r.stack[s.size] = s.stack[s.size]
    BY <1>2, <1>4
  <1>6. ~Over(d)
    BY <1>1, <1>3, <1>5 DEF Over
  <1> QED
    BY <1>6 DEF d

LEMMA AndParts ==
  ASSUME NEW m \in Modules, NEW dcl, NEW ts, NEW c, NEW vs, NEW bs, NEW h, NEW a,
         Sound(m, dcl, ts, c, vs, bs, h, a), ts # <<>>, ts[1].do = "generate", ts[1].node.kind = "and"
  PROVE  LET e == ts[1].node
             with == GenerateValue(e.subs[1]) \o <<Task("rhs", e)>>
         IN \E c2 : Sound(m, dcl, with \o Tail(ts), c2, vs, bs, h, a)
  <1> DEFINE s == c[1]
             u == c[2]
             e == ts[1].node
             e1 == e.subs[1]
             n == s.size
             r == Pushed(s, 0, e1.type, u.vars)
             t == Task("rhs", e)
  <1>1. /\ Starts(m, dcl, s.size, e, s, u) /\ Inner(m, s.fn, s.vars, e, u.vars) /\ s.vars \subseteq u.vars
        /\ s.size \in Nat /\ Gives(s, u, 0, e.type)
    BY Generating1
  <1>2. /\ Inner(m, s.fn, s.vars, e1, u.vars) /\ e1.type = "bool" /\ e.type = "bool"
        /\ e.subs[2].type = "bool" /\ \E x : Inner(m, s.fn, u.vars, e.subs[2], x)
    BY <1>1, ForkTyped
  <1>3. e1.type \in ValueTypes
    BY <1>2, TypeFacts
  <1>4. /\ Gives(s, r, 0, e1.type) /\ TopIs(r, 1, e1.type) /\ r.size = s.size - 0 + 1 /\ r.size \in Nat
        /\ r.fn = s.fn /\ r.vars = u.vars /\ r.loops = s.loops /\ r.inside
    <2>1. 0 <= s.size
      BY <1>1
    <2> QED
      BY <1>1, <2>1, PushedFacts
  <1>5. t.do = "rhs" /\ t.node = e
    BY DEF Task
  <1> HIDE DEF r, t
  <1>6. Starts(m, dcl, n, e1, s, r)
    BY <1>1, <1>2, <1>4 DEF Starts
  <1>7. Path(m, dcl, n, GenerateValue(e1), s, r)
    BY <1>3, <1>6, PathValue
  <1>8. Gives(r, u, 1, e.type)
    <2>1. r.size = s.size - 0 + 1 /\ \A i \in 1..s.size - 0 : r.stack[i] = s.stack[i]
      BY <1>4 DEF Gives
    <2> QED
      BY <1>1, <1>4, <2>1, GivesFrom
  <1>9. Path(m, dcl, n, <<t>>, r, u)
    <2>1. RuleValue(t, r, u, e)
      BY <1>5 DEF RuleValue
    <2>2. RuleParts(m, t, r, u, e)
      <3>1. ~Over(Dropped(r, 1, r.vars))
        BY <1>1, <1>4, UnderGiven DEF Starts
      <3> QED
        BY <1>2, <1>4, <1>5, <1>8, <3>1 DEF RuleParts
    <2>3. RuleFunction(m, dcl, t, r, u, e)
      BY <1>5 DEF RuleFunction
    <2>4. r.fn \in dcl /\ u.fn = r.fn /\ u.inside /\ u.loops \subseteq r.loops
      BY <1>1, <1>4 DEF Starts
    <2>5. Pops(t) = 1
      BY <1>5 DEF Pops
    <2>6. n <= Under(t, r)
      BY <1>1, <1>4, <2>5 DEF Under
    <2>7. t.do \in {"not", "or", "return", "last", "val", "assign", "call", "rhs"} /\ t.node = e
      BY <1>5
    <2> QED
      BY <1>4, <2>1, <2>2, <2>3, <2>4, <2>6, <2>7, PathLast
  <1> DEFINE g == GenerateValue(e1)
             x == <<t>>
  <1>10. Path(m, dcl, n, g, s, r) /\ Path(m, dcl, n, x, r, u) /\ r.fn = s.fn /\ s.vars \subseteq r.vars
         /\ r.loops \subseteq s.loops
    BY <1>1, <1>4, <1>7, <1>9
  <1> HIDE DEF g, x
  <1>11. Path(m, dcl, n, g \o x, s, u)
    BY <1>10, PathJoin
  <1>12. \E c2 : Sound(m, dcl, (g \o x) \o Tail(ts), c2, vs, bs, h, a)
    <2> DEFINE with == g \o x
    <2>1. Path(m, dcl, c[1].size, with, s, u) /\ s = c[1]
      BY <1>11
    <2> HIDE DEF with
    <2>2. \E c2 : Sound(m, dcl, with \o Tail(ts), c2, vs, bs, h, a)
      BY <2>1, PartsStep
    <2> QED
      BY <2>2 DEF with
  <1> QED
    BY <1>12 DEF g, x, t

LEMMA OrParts ==
  ASSUME NEW m \in Modules, NEW dcl, NEW ts, NEW c, NEW vs, NEW bs, NEW h, NEW a,
         Sound(m, dcl, ts, c, vs, bs, h, a), ts # <<>>, ts[1].do = "generate", ts[1].node.kind = "or"
  PROVE  LET e == ts[1].node
             with == GenerateValue(e.subs[1]) \o GenerateValue(e.subs[2]) \o <<Task("or", e)>>
         IN \E c2 : Sound(m, dcl, with \o Tail(ts), c2, vs, bs, h, a)
  <1> DEFINE s == c[1]
             u == c[2]
             e == ts[1].node
             e1 == e.subs[1]
             e2 == e.subs[2]
             n == s.size
             t == Task("or", e)
  <1>1. /\ Starts(m, dcl, s.size, e, s, u) /\ Inner(m, s.fn, s.vars, e, u.vars) /\ s.vars \subseteq u.vars
        /\ s.size \in Nat /\ Gives(s, u, 0, e.type)
    BY Generating1
  <1>2. /\ e1.type = "bool" /\ e2.type = "bool" /\ e.type = "bool"
        /\ \E x : Inner(m, s.fn, s.vars, e1, x) /\ Inner(m, s.fn, x, e2, u.vars)
    BY <1>1, OrTyped
  <1>3. PICK ids : Inner(m, s.fn, s.vars, e1, ids) /\ Inner(m, s.fn, ids, e2, u.vars)
    BY <1>2
  <1> DEFINE r == Pushed(s, 0, "bool", ids)
             q == Pushed(r, 0, "bool", u.vars)
  <1>4. /\ Gives(s, r, 0, "bool") /\ TopIs(r, 1, "bool") /\ r.size = s.size - 0 + 1 /\ r.size \in Nat
        /\ r.fn = s.fn /\ r.vars = ids /\ r.loops = s.loops /\ r.inside
    <2>1. 0 <= s.size
      BY <1>1
    <2> QED
      BY <1>1, <2>1, PushedFacts
  <1> HIDE DEF r
  <1>5. /\ Gives(r, q, 0, "bool") /\ TopIs(q, 1, "bool") /\ q.size = r.size - 0 + 1 /\ q.size \in Nat
        /\ q.fn = r.fn /\ q.vars = u.vars /\ q.loops = r.loops /\ q.inside
    <2>1. 0 <= r.size
      BY <1>4
    <2> QED
      BY <1>4, <2>1, PushedFacts
  <1>6. t.do = "or" /\ t.node = e
    BY DEF Task
  <1> HIDE DEF q, t
  <1>7. "bool" \in ValueTypes /\ n \in Int
    BY <1>1, TypeFacts
  <1>8. Starts(m, dcl, n, e1, s, r)
    BY <1>1, <1>2, <1>3, <1>4 DEF Starts
  <1>9. Path(m, dcl, n, GenerateValue(e1), s, r) /\ ~Over(r) /\ s.vars \subseteq r.vars
    BY <1>2, <1>7, <1>8, PathValue
  <1>10. n <= r.size
    BY <1>1, <1>4
  <1>11. Starts(m, dcl, n, e2, r, q)
    BY <1>1, <1>2, <1>3, <1>4, <1>5, <1>7, <1>9, <1>10 DEF Starts
  <1>12. Path(m, dcl, n, GenerateValue(e2), r, q) /\ r.vars \subseteq q.vars
    BY <1>2, <1>7, <1>11, PathValue
  <1>13. TopIs(q, 2, "bool")
    <2>1. 1 \in Nat \ {0} /\ 1 + 1 = 2 /\ 0 \in Nat
      OBVIOUS
    <2>2. \A i \in Nat \ {0} : \A other : TopIs(r, i, other) => TopIs(q, i + 1, other)
      BY <1>4, <1>5, <2>1, GivesTop
    <2> QED
      BY <1>4, <2>1, <2>2
  <1>14. Gives(q, u, 2, e.type)
    <2>1. q.size = s.size - 0 + 2 /\ q.fn = s.fn
      BY <1>1, <1>4, <1>5
    <2>2. ASSUME NEW i \in 1..s.size - 0 PROVE q.stack[i] = s.stack[i]
      <3>1. i \in 1..s.size - 0 /\ i \in 1..r.size - 0
        BY <1>1, <1>4
      <3> QED
        BY <1>4, <1>5, <3>1 DEF Gives
    <2>3. 0 \in Nat /\ 2 \in Nat
      OBVIOUS
    <2> QED
      BY <1>1, <2>1, <2>2, <2>3, GivesFrom
  <1>15. Path(m, dcl, n, <<t>>, q, u)
    <2>1. RuleValue(t, q, u, e)
      BY <1>2, <1>5, <1>6, <1>13, <1>14 DEF RuleValue
    <2>2. RuleParts(m, t, q, u, e)
      BY <1>6 DEF RuleParts
    <2>3. RuleFunction(m, dcl, t, q, u, e)
      BY <1>6 DEF RuleFunction
    <2>4. q.fn \in dcl /\ u.fn = q.fn /\ u.inside /\ u.loops \subseteq q.loops
      BY <1>1, <1>4, <1>5 DEF Starts
    <2>5. Pops(t) = 2
      BY <1>6 DEF Pops
    <2>6. n <= Under(t, q)
      BY <1>1, <1>4, <1>5, <2>5 DEF Under
    <2>7. t.do \in {"not", "or", "return", "last", "val", "assign", "call", "rhs"} /\ t.node = e
      BY <1>6
    <2> QED
      BY <1>5, <2>1, <2>2, <2>3, <2>4, <2>6, <2>7, PathLast
  <1> DEFINE g == GenerateValue(e1)
             k == GenerateValue(e2)
             x == <<t>>
  <1>16. Path(m, dcl, n, g, s, r) /\ Path(m, dcl, n, k, r, q) /\ Path(m, dcl, n, x, q, u)
         /\ r.fn = s.fn /\ s.vars \subseteq r.vars /\ r.loops \subseteq s.loops
         /\ q.fn = s.fn /\ s.vars \subseteq q.vars /\ q.loops \subseteq s.loops
    BY <1>1, <1>4, <1>5, <1>9, <1>12, <1>15
  <1> HIDE DEF g, k, x
  <1>17. Path(m, dcl, n, g \o k, s, q)
    BY <1>16, PathJoin
  <1> DEFINE gk == g \o k
  <1>18. Path(m, dcl, n, gk, s, q)
    BY <1>17
  <1> HIDE DEF gk
  <1>19. Path(m, dcl, n, gk \o x, s, u)
    BY <1>16, <1>18, PathJoin
  <1>20. \E c2 : Sound(m, dcl, (gk \o x) \o Tail(ts), c2, vs, bs, h, a)
    <2> DEFINE with == gk \o x
    <2>1. Path(m, dcl, c[1].size, with, s, u) /\ s = c[1]
      BY <1>19
    <2> HIDE DEF with
    <2>2. \E c2 : Sound(m, dcl, with \o Tail(ts), c2, vs, bs, h, a)
      BY <2>1, PartsStep
    <2> QED
      BY <2>2 DEF with
  <1> QED
    BY <1>20 DEF gk, g, k, x, t

-----------------------------------------------------------------------------
(* Paths one after another.                                                  *)

IsFlat(f, seqs, k) == f = [i \in 1..k |-> IF i = 1 THEN seqs[i] ELSE f[i - 1] \o seqs[i]]
HasFlat(seqs, k) == \E f : IsFlat(f, seqs, k)

LEMMA FlattenFacts ==
  ASSUME NEW seqs, Len(seqs) \in Nat \ {0}
  PROVE  \E f : /\ FlattenSeq(seqs) = f[Len(seqs)] /\ f[1] = seqs[1]
                /\ \A i \in 2..Len(seqs) : f[i] = f[i - 1] \o seqs[i]
  <1> DEFINE n == Len(seqs)
             S == {k \in 1..n : ~HasFlat(seqs, k)}
             flat == CHOOSE f : IsFlat(f, seqs, n)
  <1>0. n \in Nat \ {0}
    OBVIOUS
  <1>1. S = {}
    <2>1. SUFFICES ASSUME S # {} PROVE FALSE
      OBVIOUS
    <2>2. S \in SUBSET Nat
      BY <1>0
    <2>3. PICK k \in S : \A j \in S : k <= j
      BY <2>1, <2>2, LeastNat
    <2>4. k \in 1..n /\ ~HasFlat(seqs, k)
      BY <2>3
    <2>5. CASE k = 1
      <3> DEFINE g == [i \in 1..1 |-> seqs[i]]
      <3>1. IsFlat(g, seqs, 1)
        BY DEF IsFlat
      <3> QED
        BY <2>4, <2>5, <3>1 DEF HasFlat
    <2>6. CASE k # 1
      <3>1. k - 1 \in 1..n /\ ~(k <= k - 1) /\ k \in Nat
        BY <1>0, <2>4, <2>6
      <3>2. k - 1 \notin S
        BY <2>3, <3>1
      <3>3. HasFlat(seqs, k - 1)
        BY <3>1, <3>2
      <3>4. PICK f : IsFlat(f, seqs, k - 1)
        BY <3>3 DEF HasFlat
      <3> DEFINE g == [i \in 1..k |-> IF i < k THEN f[i] ELSE f[k - 1] \o seqs[k]]
      <3>5. \A i \in 1..k - 1 : f[i] = IF i = 1 THEN seqs[i] ELSE f[i - 1] \o seqs[i]
        BY <3>4 DEF IsFlat
      <3>6. \A i \in 1..k : i < k => g[i] = f[i]
        OBVIOUS
      <3>7. g[k] = f[k - 1] \o seqs[k]
        <4>1. k \in 1..k /\ ~(k < k)
          BY <2>4, <3>1
        <4> QED
          BY <4>1
      <3>8. g = [i \in 1..k |-> g[i]]
        OBVIOUS
      <3> HIDE DEF g
      <3>9. ASSUME NEW i \in 1..k PROVE g[i] = IF i = 1 THEN seqs[i] ELSE g[i - 1] \o seqs[i]
        <4>1. CASE i = k
          <5>1. k - 1 \in 1..k /\ k - 1 < k
            BY <2>6, <3>1, <4>1
          <5>2. g[k - 1] = f[k - 1]
            BY <3>6, <5>1
          <5> QED
            BY <2>6, <3>7, <4>1, <5>2
        <4>2. CASE i # k
          <5>1. i \in 1..k - 1 /\ i < k /\ i \in Nat
            BY <3>1, <4>2
          <5>2. g[i] = f[i]
            BY <3>6, <5>1
          <5>3. CASE i = 1
            BY <3>5, <5>1, <5>2, <5>3
          <5>4. CASE i # 1
            <6>1. i - 1 \in 1..k /\ i - 1 < k
              BY <3>1, <5>1, <5>4
            <6>2. g[i - 1] = f[i - 1]
              BY <3>6, <6>1
            <6> QED
              BY <3>5, <5>1, <5>2, <5>4, <6>2
          <5> QED
            BY <5>3, <5>4
        <4> QED
          BY <4>1, <4>2
      <3>10. g = [i \in 1..k |-> IF i = 1 THEN seqs[i] ELSE g[i - 1] \o seqs[i]]
        BY <3>8, <3>9
      <3>11. IsFlat(g, seqs, k)
        BY <3>10 DEF IsFlat
      <3> QED
        BY <2>4, <3>11 DEF HasFlat
    <2> QED
      BY <2>5, <2>6
  <1>2. HasFlat(seqs, n)
    <2>1. n \in 1..n
      BY <1>0
    <2> QED
      BY <1>1, <2>1
  <1>3. IsFlat(flat, seqs, n)
    BY <1>2 DEF HasFlat
  <1>4. FlattenSeq(seqs) = flat[n]
    BY <1>0 DEF FlattenSeq, IsFlat
  <1> HIDE DEF flat
  <1>5. \A i \in 1..n : flat[i] = IF i = 1 THEN seqs[i] ELSE flat[i - 1] \o seqs[i]
    BY <1>3 DEF IsFlat
  <1>6. 1 \in 1..n /\ \A i \in 2..n : i \in 1..n /\ i # 1
    BY <1>0
  <1>7. flat[1] = seqs[1] /\ \A i \in 2..n : flat[i] = flat[i - 1] \o seqs[i]
    BY <1>5, <1>6
  <1> QED
    BY <1>4, <1>7

LEMMA PathFlat ==
  ASSUME NEW m, NEW dcl, NEW n, NEW seqs, IsSeq(seqs), NEW r,
         \A k \in 1..Len(seqs) : Path(m, dcl, n, seqs[k], r[k], r[k + 1]),
         \A k \in 1..Len(seqs) + 1 : r[k].fn = r[1].fn /\ r[1].vars \subseteq r[k].vars /\ r[k].loops \subseteq r[1].loops
  PROVE  Path(m, dcl, n, FlattenSeq(seqs), r[1], r[Len(seqs) + 1])
  <1> DEFINE l == Len(seqs)
  <1>1. l \in Nat
    BY SeqFacts
  <1>2. CASE l = 0
    <2>1. seqs = <<>> /\ FlattenSeq(seqs) = seqs /\ l + 1 = 1
      BY <1>2, SeqNone DEF FlattenSeq
    <2>2. Path(m, dcl, n, <<>>, r[1], r[1])
      BY PathNone
    <2> QED
      BY <2>1, <2>2
  <1>3. CASE l # 0
    <2>1. PICK f : /\ FlattenSeq(seqs) = f[l] /\ f[1] = seqs[1]
                   /\ \A i \in 2..l : f[i] = f[i - 1] \o seqs[i]
      BY <1>1, <1>3, FlattenFacts
    <2> DEFINE S == {k \in 1..l : ~Path(m, dcl, n, f[k], r[1], r[k + 1])}
    <2>2. S = {}
      <3>1. SUFFICES ASSUME S # {} PROVE FALSE
        OBVIOUS
      <3>2. S \in SUBSET Nat
        OBVIOUS
      <3>3. PICK k \in S : \A j \in S : k <= j
        BY <3>1, <3>2, LeastNat
      <3>4. k \in 1..l /\ ~Path(m, dcl, n, f[k], r[1], r[k + 1])
        BY <3>3
      <3>5. Path(m, dcl, n, seqs[k], r[k], r[k + 1])
        BY <3>4
      <3>6. CASE k = 1
        BY <2>1, <3>4, <3>5, <3>6
      <3>7. CASE k # 1
        <4>1. k - 1 \in 1..l /\ ~(k <= k - 1) /\ k \in 2..l /\ k \in 1..l + 1 /\ (k - 1) + 1 = k
          BY <1>1, <3>4, <3>7
        <4>2. Path(m, dcl, n, f[k - 1], r[1], r[k])
          BY <3>3, <4>1
        <4> DEFINE x == f[k - 1]
                   y == seqs[k]
                   p == r[1]
                   q == r[k]
                   w == r[k + 1]
        <4>3. Path(m, dcl, n, x, p, q) /\ Path(m, dcl, n, y, q, w)
              /\ q.fn = p.fn /\ p.vars \subseteq q.vars /\ q.loops \subseteq p.loops
          BY <3>5, <4>1, <4>2
        <4> HIDE DEF x, y, p, q, w
        <4>4. Path(m, dcl, n, x \o y, p, w)
          BY <4>3, PathJoin
        <4>5. f[k] = x \o y
          BY <2>1, <4>1 DEF x, y
        <4> QED
          BY <3>4, <4>4, <4>5 DEF p, w
      <3> QED
        BY <3>6, <3>7
    <2>3. l \in 1..l
      BY <1>1, <1>3
    <2> QED
      BY <2>1, <2>2, <2>3
  <1> QED
    BY <1>2, <1>3

LEMMA FunctionTyped ==
  ASSUME NEW m \in Modules, NEW f, \E i \in DOMAIN m.typed : m.typed[i].name = f
  PROVE  /\ FunctionIsTyped(m, FunctionIn(m, f)) /\ FunctionIn(m, f).name = f
         /\ IsSeq(FunctionIn(m, f).params) /\ DOMAIN FunctionIn(m, f).params = 1..Len(FunctionIn(m, f).params)
         /\ \A i \in DOMAIN FunctionIn(m, f).params : FunctionIn(m, f).params[i].type \in ValueTypes
         /\ FunctionIn(m, f).ret \in Types
  <1> DEFINE all == {m.typed[i] : i \in DOMAIN m.typed}
             g == FunctionIn(m, f)
  <1>1. \E x \in all : x.name = f
    OBVIOUS
  <1>2. g \in all /\ g.name = f
    BY <1>1 DEF FunctionIn
  <1> HIDE DEF g
  <1>3. FunctionIsTyped(m, g)
    BY <1>2, ModulesAssumption DEF IsRegular
  <1>4. g.params \in Seq({g.params[i] : i \in DOMAIN g.params}) /\ g.ret \in Types
        /\ \A i \in DOMAIN g.params : g.params[i].type \in ValueTypes
    BY <1>3 DEF FunctionIsTyped
  <1>5. IsSeq(g.params) /\ DOMAIN g.params = 1..Len(g.params)
    BY <1>4, SeqIn
  <1> QED
    BY <1>2, <1>3, <1>4, <1>5 DEF g

\* The arguments of a call are evaluated one after another.
ArgsInner(m, f, ids, e, after, sc) ==
  /\ sc[1] = ids /\ sc[Len(e.subs) + 1] = after
  /\ \A i \in 1..Len(e.subs) : Inner(m, f, sc[i], e.subs[i], sc[i + 1])
  /\ \A i \in 1..Len(e.subs) + 1 : ids \subseteq sc[i]
CallIsTyped(m, e) ==
  /\ IsSeq(e.subs) /\ e.type \in Types /\ e.type = FunctionIn(m, e.name).ret
  /\ \E i \in DOMAIN m.typed : m.typed[i].name = e.name
  /\ \A i \in 1..Len(e.subs) : e.subs[i].type \in ValueTypes
  /\ [i \in 1..Len(e.subs) |-> LlvmType(e.subs[i].type)] = ParamTypes(m, e.name)

LEMMA CallTyped ==
  ASSUME NEW m \in Modules, NEW f, NEW ids, NEW e, NEW after, Inner(m, f, ids, e, after), e.kind = "call"
  PROVE  CallIsTyped(m, e) /\ \E sc : ArgsInner(m, f, ids, e, after, sc)
  <1>1. PICK j \in Scopes(m) : /\ j.function = f /\ j.node = e /\ Before(j) = ids /\ After(j) = after
                               /\ ScopeIsTyped(m, Scopes(m), j)
    BY InnerScope
  <1>2. NodeIsTyped(m, f, e) /\ IsSeq(e.subs) /\ e.type \in Types
    BY InnerScope
  <1> DEFINE g == FunctionIn(m, e.name)
             types == [i \in DOMAIN g.params |-> g.params[i].type]
             n == Len(e.subs)
             sc == j.scopes
  <1>3. /\ \E i \in DOMAIN m.typed : m.typed[i].name = e.name
        /\ n = Len(types) /\ (\A i \in DOMAIN types : e.subs[i].type = types[i]) /\ e.type = g.ret
    BY <1>2 DEF NodeIsTyped
  <1>4. IsSeq(g.params) /\ DOMAIN g.params = 1..Len(g.params)
        /\ \A i \in DOMAIN g.params : g.params[i].type \in ValueTypes
    BY <1>3, FunctionTyped
  <1>5. Len(g.params) \in Nat
    BY <1>4, SeqFacts
  <1> HIDE DEF g
  <1>6. Len(types) = Len(g.params) /\ DOMAIN types = 1..Len(g.params)
    <2>1. DOMAIN types = 1..Len(g.params) /\ types = [i \in 1..Len(g.params) |-> types[i]]
      BY <1>4
    <2> HIDE DEF types
    <2> QED
      BY <1>5, <2>1, SeqByIndex
  <1>7. DOMAIN g.params = 1..n /\ \A i \in 1..n : e.subs[i].type = g.params[i].type /\ e.subs[i].type \in ValueTypes
    BY <1>3, <1>4, <1>6
  <1>8. [i \in 1..n |-> LlvmType(e.subs[i].type)] = ParamTypes(m, e.name)
    BY <1>7 DEF ParamTypes, g
  <1>9. PartsInScope(Scopes(m), j) /\ j.scopes \in Seq(SUBSET Nat) /\ \A i \in DOMAIN j.scopes : ids \subseteq j.scopes[i]
    BY <1>1 DEF ScopeIsTyped
  <1>10. Len(sc) = n + 1 /\ \A i \in 1..n : HasPart(Scopes(m), j, i, sc[i], {sc[i + 1]})
    BY <1>1, <1>9 DEF PartsInScope
  <1>11. n \in Nat
    BY <1>2, SeqFacts
  <1>12. DOMAIN sc = 1..n + 1
    BY <1>9, <1>10
  <1>13. sc[1] = ids /\ sc[n + 1] = after
    BY <1>1, <1>10 DEF Before, After
  <1>14. ASSUME NEW i \in 1..n PROVE Inner(m, f, sc[i], e.subs[i], sc[i + 1])
    <2>1. i \in 1..Len(j.node.subs) /\ j.node.kind # "block"
      BY <1>1
    <2> DEFINE before == sc[i]
               x == sc[i + 1]
               to == {x}
    <2>2. HasPart(Scopes(m), j, i, before, to) /\ ScopeIsTyped(m, Scopes(m), j)
      BY <1>1, <1>10
    <2> HIDE DEF before, to, x
    <2>3. \E y \in to : Inner(m, j.function, before, j.node.subs[i], y)
      BY <2>1, <2>2, PartInner
    <2>4. Inner(m, j.function, before, j.node.subs[i], x)
      BY <2>3 DEF to
    <2> QED
      BY <1>1, <2>4 DEF before, x
  <1>15. \A i \in 1..n + 1 : ids \subseteq sc[i]
    BY <1>9, <1>12
  <1> QED
    <2>1. CallIsTyped(m, e)
      BY <1>2, <1>3, <1>7, <1>8 DEF CallIsTyped, g
    <2>2. ArgsInner(m, f, ids, e, after, sc)
      BY <1>13, <1>14, <1>15 DEF ArgsInner
    <2> QED
      BY <2>1, <2>2

\* The states between the arguments.
ArgState(s, e, sc, k) ==
  [fn |-> s.fn, size |-> s.size + (k - 1),
   stack |-> [i \in 1..s.size + (k - 1) |-> IF i <= s.size THEN s.stack[i] ELSE Typed(e.subs[i - s.size].type, s.fn)],
   vars |-> sc[k], loops |-> s.loops, inside |-> TRUE]
ArgStates(s, e, sc, n) == [k \in 1..n + 1 |-> IF k = 1 THEN s ELSE ArgState(s, e, sc, k)]
ArgStart(s, sc) == s.size \in Nat /\ s.inside /\ sc[1] = s.vars /\ ~Over(s)
IsArgState(s, e, sc, k, r) ==
  /\ r.fn = s.fn /\ r.size = s.size + (k - 1) /\ r.vars = sc[k] /\ r.loops = s.loops /\ r.inside
  /\ \A i \in 1..s.size : r.stack[i] = s.stack[i]
  /\ \A i \in 1..k - 1 : r.stack[s.size + i] = Typed(e.subs[i].type, s.fn)

LEMMA ArgFacts ==
  ASSUME NEW s, NEW e, NEW sc, ArgStart(s, sc), NEW n \in Nat, NEW k \in 1..n + 1
  PROVE  IsArgState(s, e, sc, k, ArgStates(s, e, sc, n)[k])
  <1>0. s.size \in Nat /\ s.inside /\ sc[1] = s.vars
    BY DEF ArgStart
  <1> DEFINE r == ArgStates(s, e, sc, n)[k]
  <1>1. CASE k = 1
    <2>1. r = s
      BY <1>1 DEF ArgStates
    <2>2. \A i \in 1..k - 1 : FALSE
      BY <1>1
    <2> HIDE DEF r
    <2>3. r.size = s.size + (k - 1)
      BY <1>0, <1>1, <2>1
    <2>4. IsArgState(s, e, sc, k, r)
      BY <1>0, <1>1, <2>1, <2>2, <2>3 DEF IsArgState
    <2> QED
      BY <2>4 DEF r
  <1>2. CASE k # 1
    <2>1. r = ArgState(s, e, sc, k)
      BY <1>2 DEF ArgStates
    <2> HIDE DEF r
    <2>2. /\ r.fn = s.fn /\ r.size = s.size + (k - 1) /\ r.vars = sc[k] /\ r.loops = s.loops /\ r.inside
          /\ r.stack = [i \in 1..s.size + (k - 1) |-> IF i <= s.size THEN s.stack[i] ELSE Typed(e.subs[i - s.size].type, s.fn)]
      BY <2>1 DEF ArgState
    <2>3. \A i \in 1..s.size : i \in 1..s.size + (k - 1) /\ i <= s.size
      BY <1>0
    <2>4. \A i \in 1..k - 1 : s.size + i \in 1..s.size + (k - 1) /\ ~(s.size + i <= s.size) /\ (s.size + i) - s.size = i
      BY <1>0
    <2>5. \A i \in 1..s.size : r.stack[i] = s.stack[i]
      BY <2>2, <2>3
    <2>6. \A i \in 1..k - 1 : r.stack[s.size + i] = Typed(e.subs[i].type, s.fn)
      BY <2>2, <2>4
    <2>7. IsArgState(s, e, sc, k, r)
      BY <2>2, <2>5, <2>6 DEF IsArgState
    <2> QED
      BY <2>7 DEF r
  <1> QED
    BY <1>1, <1>2

LEMMA ArgNext ==
  ASSUME NEW s, NEW e, NEW sc, ArgStart(s, sc), NEW n \in Nat, NEW k \in 1..n,
         \A i \in 1..n : e.subs[i].type \in ValueTypes
  PROVE  LET r == ArgStates(s, e, sc, n)
         IN ~Over(r[k]) /\ Gives(r[k], r[k + 1], 0, e.subs[k].type)
  <1> DEFINE r == ArgStates(s, e, sc, n)
             p == r[k]
             q == r[k + 1]
  <1>1. k \in 1..n + 1 /\ k + 1 \in 1..n + 1 /\ (k + 1) - 1 = k /\ k \in Nat
    OBVIOUS
  <1>0. s.size \in Nat /\ ~Over(s)
    BY DEF ArgStart
  <1>9. IsArgState(s, e, sc, k, p) /\ IsArgState(s, e, sc, k + 1, q)
    BY <1>1, ArgFacts
  <1>8. r[1] = s
    <2>1. 1 \in 1..n + 1
      OBVIOUS
    <2> QED
      BY <2>1 DEF ArgStates
  <1> HIDE DEF r, p, q
  <1>2. /\ p.fn = s.fn /\ p.size = s.size + (k - 1)
        /\ \A i \in 1..s.size : p.stack[i] = s.stack[i]
        /\ \A i \in 1..k - 1 : p.stack[s.size + i] = Typed(e.subs[i].type, s.fn)
    BY <1>9 DEF IsArgState
  <1>3. /\ q.fn = s.fn /\ q.size = s.size + ((k + 1) - 1)
        /\ \A i \in 1..s.size : q.stack[i] = s.stack[i]
        /\ \A i \in 1..(k + 1) - 1 : q.stack[s.size + i] = Typed(e.subs[i].type, s.fn)
    BY <1>9 DEF IsArgState
  <1>4. q.size = s.size + k /\ \A i \in 1..k : q.stack[s.size + i] = Typed(e.subs[i].type, s.fn)
    BY <1>1, <1>3
  <1>5. ASSUME NEW i \in 1..p.size PROVE q.stack[i] = p.stack[i]
    <2>1. CASE i \in 1..s.size
      BY <1>0, <1>2, <1>3, <2>1
    <2>2. CASE i \notin 1..s.size
      <3> DEFINE j == i - s.size
      <3>1. j \in 1..k - 1 /\ j \in 1..k /\ i = s.size + j
        BY <1>0, <1>1, <1>2, <2>2
      <3> HIDE DEF j
      <3> QED
        BY <1>2, <1>4, <3>1
    <2> QED
      BY <2>1, <2>2
  <1>6. Gives(p, q, 0, e.subs[k].type)
    <2>1. 0 <= p.size /\ q.size = p.size - 0 + 1 /\ p.size - 0 = p.size /\ q.size = s.size + k
      BY <1>0, <1>1, <1>2, <1>4
    <2>2. k \in 1..k
      BY <1>1
    <2>3. q.stack[q.size] = Typed(e.subs[k].type, p.fn)
      BY <1>2, <1>4, <2>1, <2>2
    <2>4. \A i \in 1..p.size - 0 : q.stack[i] = p.stack[i]
      BY <1>5, <2>1
    <2> QED
      BY <2>1, <2>3, <2>4 DEF Gives
  <1>7. ~Over(p)
    <2>1. CASE k = 1
      BY <1>0, <1>8, <2>1 DEF p
    <2>2. CASE k # 1
      <3>1. k - 1 \in 1..k - 1 /\ k - 1 \in 1..n
        BY <1>1, <2>2
      <3>2. p.stack[p.size] = Typed(e.subs[k - 1].type, s.fn)
        BY <1>2, <3>1
      <3>3. e.subs[k - 1].type \in ValueTypes
        BY <3>1
      <3> QED
        BY <3>2, <3>3, TypeFacts DEF Over, Typed
    <2> QED
      BY <2>1, <2>2
  <1> QED
    BY <1>6, <1>7 DEF p, q, r

LEMMA ArgLast ==
  ASSUME NEW s, NEW e, NEW sc, ArgStart(s, sc), NEW n \in Nat,
         \A i \in 1..n : e.subs[i].type \in ValueTypes
  PROVE  LET r == ArgStates(s, e, sc, n)[n + 1]
         IN ~Over(r) /\ \A i \in 1..n : TopIs(r, n + 1 - i, e.subs[i].type)
  <1> DEFINE r == ArgStates(s, e, sc, n)[n + 1]
  <1>1. n + 1 \in 1..n + 1 /\ (n + 1) - 1 = n
    OBVIOUS
  <1>0. s.size \in Nat /\ ~Over(s)
    BY DEF ArgStart
  <1>5. IsArgState(s, e, sc, n + 1, r)
    BY <1>1, ArgFacts
  <1>2. /\ r.fn = s.fn /\ r.size = s.size + ((n + 1) - 1)
        /\ \A i \in 1..(n + 1) - 1 : r.stack[s.size + i] = Typed(e.subs[i].type, s.fn)
    BY <1>5 DEF IsArgState
  <1>3. CASE n = 0
    <2>1. r = s /\ \A i \in 1..n : FALSE
      BY <1>3 DEF ArgStates
    <2> QED
      BY <1>0, <2>1
  <1>4. CASE n # 0
    <2> HIDE DEF r
    <2>1. n \in 1..n
      BY <1>4
    <2>2. r.stack[r.size] = Typed(e.subs[n].type, s.fn) /\ e.subs[n].type \in ValueTypes
      BY <1>1, <1>2, <2>1
    <2>3. ~Over(r)
      BY <2>2, TypeFacts DEF Over, Typed
    <2>4. ASSUME NEW i \in 1..n PROVE TopIs(r, n + 1 - i, e.subs[i].type)
      <3>1. n + 1 - i <= r.size /\ r.size + 1 - (n + 1 - i) = s.size + i
        BY <1>0, <1>2
      <3>2. r.stack[s.size + i] = Typed(e.subs[i].type, s.fn)
        BY <1>1, <1>2
      <3> QED
        BY <1>2, <3>1, <3>2 DEF TopIs
    <2>5. ~Over(r) /\ \A i \in 1..n : TopIs(r, n + 1 - i, e.subs[i].type)
      BY <2>3, <2>4
    <2> QED
      BY <2>5 DEF r
  <1> QED
    BY <1>3, <1>4

LEMMA CallParts ==
  ASSUME NEW m \in Modules, NEW dcl, NEW ts, NEW c, NEW vs, NEW bs, NEW h, NEW a,
         Sound(m, dcl, ts, c, vs, bs, h, a), ts # <<>>, ts[1].do = "generate",
         ts[1].node.kind = "call", ts[1].node.name \in dcl
  PROVE  LET e == ts[1].node
             with == FlattenSeq([i \in DOMAIN e.subs |-> GenerateValue(e.subs[i])]) \o <<Task("call", e)>>
         IN \E c2 : Sound(m, dcl, with \o Tail(ts), c2, vs, bs, h, a)
  <1> DEFINE s == c[1]
             u == c[2]
             e == ts[1].node
             n == Len(e.subs)
             seqs == [i \in DOMAIN e.subs |-> GenerateValue(e.subs[i])]
             t == Task("call", e)
             f == s.fn
  <1>1. /\ Starts(m, dcl, s.size, e, s, u) /\ Inner(m, s.fn, s.vars, e, u.vars) /\ s.vars \subseteq u.vars
        /\ s.size \in Nat /\ Gives(s, u, 0, e.type)
    BY Generating1
  <1>2. /\ s.inside /\ s.fn \in dcl /\ ~Over(s) /\ u.fn = s.fn /\ u.inside /\ u.loops \subseteq s.loops
    BY <1>1 DEF Starts
  <1>23. CallIsTyped(m, e) /\ \E sc : ArgsInner(m, f, s.vars, e, u.vars, sc)
    BY <1>1, CallTyped
  <1>3. /\ IsSeq(e.subs) /\ e.type \in Types /\ \A i \in 1..n : e.subs[i].type \in ValueTypes
        /\ [i \in 1..n |-> LlvmType(e.subs[i].type)] = ParamTypes(m, e.name)
    BY <1>23 DEF CallIsTyped
  <1>24. PICK sc : ArgsInner(m, f, s.vars, e, u.vars, sc)
    BY <1>23
  <1>4. /\ sc[1] = s.vars /\ sc[n + 1] = u.vars
        /\ \A i \in 1..n : Inner(m, s.fn, sc[i], e.subs[i], sc[i + 1])
        /\ \A i \in 1..n + 1 : s.vars \subseteq sc[i]
    BY <1>24 DEF ArgsInner
  <1>25. ArgStart(s, sc)
    BY <1>1, <1>2, <1>4 DEF ArgStart
  <1>5. n \in Nat /\ DOMAIN e.subs = 1..n
    BY <1>3, SeqFacts
  <1>6. t.do = "call" /\ t.node = e
    BY DEF Task
  <1> DEFINE r == ArgStates(s, e, sc, n)
  <1>7. ASSUME NEW k \in 1..n + 1
        PROVE  /\ r[k].fn = s.fn /\ r[k].size = s.size + (k - 1) /\ r[k].vars = sc[k] /\ r[k].loops = s.loops /\ r[k].inside
               /\ \A i \in 1..s.size : r[k].stack[i] = s.stack[i]
    <2> DEFINE p == r[k]
    <2>1. IsArgState(s, e, sc, k, p)
      BY <1>5, <1>25, ArgFacts
    <2> HIDE DEF p
    <2>2. /\ p.fn = s.fn /\ p.size = s.size + (k - 1) /\ p.vars = sc[k] /\ p.loops = s.loops /\ p.inside
          /\ \A i \in 1..s.size : p.stack[i] = s.stack[i]
      BY <2>1 DEF IsArgState
    <2> QED
      BY <2>2 DEF p
  <1>8. r[1] = s
    <2>1. 1 \in 1..n + 1
      BY <1>5
    <2> QED
      BY <2>1 DEF ArgStates
  <1>9. \A k \in 1..n : ~Over(r[k]) /\ Gives(r[k], r[k + 1], 0, e.subs[k].type)
    BY <1>3, <1>5, <1>25, ArgNext
  <1>10. ~Over(r[n + 1]) /\ \A i \in 1..n : TopIs(r[n + 1], n + 1 - i, e.subs[i].type)
    BY <1>3, <1>5, <1>25, ArgLast
  <1> HIDE DEF r, t
  <1>11. ASSUME NEW k \in 1..n PROVE Path(m, dcl, s.size, GenerateValue(e.subs[k]), r[k], r[k + 1])
    <2> DEFINE p == r[k]
               q == r[k + 1]
               x == e.subs[k]
    <2>1. k \in 1..n + 1 /\ k + 1 \in 1..n + 1 /\ s.size <= s.size + (k - 1) /\ s.size + (k - 1) \in Nat
      BY <1>1, <1>5
    <2>2. /\ p.fn = s.fn /\ p.size = s.size + (k - 1) /\ p.vars = sc[k] /\ p.loops = s.loops /\ p.inside
          /\ q.fn = s.fn /\ q.vars = sc[k + 1] /\ q.loops = s.loops /\ q.inside
      BY <1>7, <2>1
    <2>3. Inner(m, s.fn, sc[k], x, sc[k + 1]) /\ x.type \in ValueTypes /\ ~Over(p) /\ Gives(p, q, 0, x.type)
      BY <1>3, <1>4, <1>9
    <2> HIDE DEF p, q, x
    <2>4. s.size \in Int /\ p.size \in Nat /\ s.size <= p.size
      BY <1>1, <2>1, <2>2
    <2>5. Starts(m, dcl, s.size, x, p, q)
      BY <1>2, <2>2, <2>3, <2>4 DEF Starts
    <2>6. Path(m, dcl, s.size, GenerateValue(x), p, q)
      BY <2>3, <2>5, PathValue
    <2> QED
      BY <2>6 DEF p, q, x
  <1>12. IsSeq(seqs) /\ Len(seqs) = n /\ \A k \in 1..n : seqs[k] = GenerateValue(e.subs[k])
    <2>1. DOMAIN seqs = 1..n /\ seqs = [i \in 1..n |-> seqs[i]] /\ \A k \in 1..n : seqs[k] = GenerateValue(e.subs[k])
      BY <1>5
    <2> HIDE DEF seqs
    <2> QED
      BY <1>5, <2>1, SeqByIndex
  <1> DEFINE g == FlattenSeq(seqs)
             z == r[n + 1]
             x == <<t>>
  <1> HIDE DEF seqs
  <1>13. Path(m, dcl, s.size, g, s, z)
    <2> DEFINE l == Len(seqs)
    <2>1. \A k \in 1..l : Path(m, dcl, s.size, seqs[k], r[k], r[k + 1])
      BY <1>11, <1>12
    <2>2. \A k \in 1..l + 1 : r[k].fn = r[1].fn /\ r[1].vars \subseteq r[k].vars /\ r[k].loops \subseteq r[1].loops
      BY <1>4, <1>7, <1>8, <1>12
    <2>3. Path(m, dcl, s.size, FlattenSeq(seqs), r[1], r[l + 1])
      BY <1>12, <2>1, <2>2, PathFlat
    <2> QED
      BY <1>8, <1>12, <2>3
  <1>14. n + 1 \in 1..n + 1 /\ s.size + ((n + 1) - 1) = s.size + n
    BY <1>1, <1>5
  <1>15. /\ z.fn = s.fn /\ z.size = s.size + n /\ z.vars = u.vars /\ z.loops = s.loops /\ z.inside
         /\ \A i \in 1..s.size : z.stack[i] = s.stack[i]
    BY <1>4, <1>7, <1>14
  <1>16. ~Over(z) /\ \A i \in 1..n : TopIs(z, n + 1 - i, e.subs[i].type)
    BY <1>10
  <1> HIDE DEF z, g
  <1>17. Gives(z, u, n, e.type)
    <2>1. z.size = s.size - 0 + n /\ \A i \in 1..s.size - 0 : z.stack[i] = s.stack[i]
      BY <1>1, <1>5, <1>15
    <2> QED
      BY <1>1, <1>5, <1>15, <2>1, GivesFrom
  <1>18. Path(m, dcl, s.size, x, z, u)
    <2>1. RuleFunction(m, dcl, t, z, u, e)
      BY <1>3, <1>6, <1>15, <1>16, <1>17 DEF RuleFunction
    <2>2. RuleValue(t, z, u, e) /\ RuleParts(m, t, z, u, e)
      BY <1>6 DEF RuleValue, RuleParts
    <2>3. Pops(t) = n
      BY <1>6 DEF Pops
    <2>4. s.size <= Under(t, z) /\ z.size \in Nat
      BY <1>1, <1>5, <1>15, <2>3 DEF Under
    <2>5. t.do \in {"not", "or", "return", "last", "val", "assign", "call", "rhs"}
      BY <1>6
    <2>6. z.inside /\ z.fn \in dcl /\ u.fn = z.fn /\ u.inside /\ u.loops \subseteq z.loops
      BY <1>2, <1>15
    <2> QED
      BY <1>6, <2>1, <2>2, <2>4, <2>5, <2>6, PathLast
  <1> HIDE DEF x
  <1>19. z.fn = s.fn /\ s.vars \subseteq z.vars /\ z.loops \subseteq s.loops
    BY <1>1, <1>15
  <1> DEFINE with == g \o x
  <1>20. Path(m, dcl, s.size, with, s, u)
    BY <1>13, <1>18, <1>19, PathJoin
  <1>21. Path(m, dcl, c[1].size, with, s, c[2]) /\ s = c[1]
    BY <1>20
  <1> HIDE DEF with
  <1>22. \E c2 : Sound(m, dcl, with \o Tail(ts), c2, vs, bs, h, a)
    BY <1>21, PartsStep
  <1> QED
    BY <1>22 DEF with, g, x, t, seqs

LEMMA UnreachableSound ==
  ASSUME NEW m, NEW dcl, NEW bs, NEW a
  PROVE  InstrSound(m, dcl, bs, a, Unreachable) /\ Unreachable.to = <<>> /\ Unreachable.op # "phi"
         /\ IsTerminator(Unreachable)
  <1> DEFINE i == Unreachable
  <1>1. i.op = "unreachable" /\ i.args = <<>> /\ i.to = <<>>
    BY InstrFields DEF Unreachable
  <1> HIDE DEF i
  <1>2. IsSeq(i.args) /\ Len(i.args) = 0
    BY <1>1, SeqNone
  <1>3. Uses(bs, i, a)
    BY <1>2 DEF Uses
  <1>4. Checks(m, dcl, bs, a, i)
    BY <1>1 DEF Checks
  <1>5. InstrSound(m, dcl, bs, a, i)
    BY <1>1, <1>2, <1>3, <1>4, PlainInstr
  <1>6. IsTerminator(i)
    BY <1>1 DEF IsTerminator, Terminators
  <1> QED
    BY <1>1, <1>5, <1>6 DEF i

\* An instruction, and after it nothing is reached.
LEMMA EmitTwice ==
  ASSUME NEW m, NEW dcl, NEW t, NEW s, NEW u, NEW vs, NEW bs, NEW h, NEW a, Begins(m, dcl, t, s, u, vs, bs, h, a),
         ~Over(s), NEW i, InstrSound(m, dcl, bs, a, i), i.to = <<>>, i.op # "phi", ~IsTerminator(i)
  PROVE  LET bt == Emit(Emit(bs, a, i), a, Unreachable)
         IN Extends(bs, bt, {a}, {}, {}) /\ Len(bt) = Len(bs) /\ Heap(m, dcl, bt) /\ Closed(bt, a)
  <1> DEFINE b1 == Emit(bs, a, i)
             bt == Emit(b1, a, Unreachable)
             S == {a}
  <1>1. BlockShape(bs) /\ a \in 1..Len(bs)
    BY DEF Begins
  <1>2. Extends(bs, b1, {a}, {}, {}) /\ Len(b1) = Len(bs) /\ Heap(m, dcl, b1)
    BY EmitHere
  <1>3. ~Closed(b1, a)
    BY <1>1, EmitClosed
  <1> HIDE DEF b1
  <1>4. a \in 1..Len(b1) /\ BlockShape(b1)
    BY <1>1, <1>2 DEF Heap
  <1>5. InstrSound(m, dcl, b1, a, Unreachable) /\ Unreachable.to = <<>> /\ Unreachable.op # "phi"
         /\ IsTerminator(Unreachable)
    BY UnreachableSound
  <1>6. Targets(Unreachable) = {}
    BY <1>5, SeqNone DEF Targets, Elements
  <1>7. Emits(b1, a, Unreachable)
    BY <1>3, <1>4, <1>6 DEF Emits, ToEnds
  <1>8. Extends(b1, bt, {a}, {}, {})
    BY <1>5, <1>6, <1>7, EmitExtends
  <1>9. Heap(m, dcl, bt)
    BY <1>2, <1>5, <1>7, HeapEmit
  <1>10. Closed(bt, a)
    BY <1>4, <1>5, EmitClosed
  <1>11. Len(bt) = Len(b1)
    BY <1>4, EmitShape
  <1> HIDE DEF bt
  <1>12. Extends(bs, bt, {a}, {}, {})
    <2>1. Extends(bs, bt, {a} \cup {a}, {} \cup {}, {} \cup {})
      BY ONLY <1>2, <1>8, ExtendsTwice
    <2>2. {a} \cup {a} = {a} /\ {} \cup {} = {}
      OBVIOUS
    <2> QED
      BY <2>1, <2>2
  <1> QED
    BY <1>2, <1>9, <1>10, <1>11, <1>12 DEF bt, b1

LEMMA CallStep ==
  ASSUME NEW m \in Modules, NEW dcl, NEW ts, NEW c, NEW vs, NEW bs, NEW h, NEW a,
         Sound(m, dcl, ts, c, vs, bs, h, a), ts # <<>>, ts[1].do = "call"
  PROVE  LET e == ts[1].node
             n == Len(e.subs)
             args == [i \in 1..n |-> vs[n + 1 - i]]
             called == Emit(bs, a, Instr("call", e.name, args, <<>>))
             bt == IF e.type = "never" THEN Emit(called, a, Unreachable) ELSE called
         IN \E c2 : Sound(m, dcl, <<>> \o Tail(ts), c2,
                          Swapped(vs, n, <<IF e.type = "never" THEN Never ELSE Result(e.type, called, a)>>), bt, h, a)
  <1> DEFINE t == ts[1]
             e == t.node
             s == c[1]
             u == c[2]
             n == Len(e.subs)
             args == [k \in 1..n |-> vs[n + 1 - k]]
             i == Instr("call", e.name, args, <<>>)
             called == Emit(bs, a, i)
             types == [k \in 1..n |-> LlvmType(e.subs[k].type)]
  <1>1. /\ ~Over(s) /\ e.name \in dcl /\ Gives(s, u, n, e.type) /\ u.vars = s.vars /\ e.type \in Types /\ IsSeq(e.subs)
        /\ \A k \in 1..n : e.subs[k].type \in ValueTypes /\ TopIs(s, n + 1 - k, e.subs[k].type)
        /\ types = ParamTypes(m, e.name)
        /\ Begins(m, dcl, t, s, u, vs, bs, h, a) /\ (t.do # "end" => u.fn = s.fn)
    <2>1. RuleFunction(m, dcl, t, s, u, t.node) /\ Begins(m, dcl, t, s, u, vs, bs, h, a) /\ (t.do # "end" => u.fn = s.fn)
      BY FirstRule
    <2> QED
      BY <2>1 DEF RuleFunction
  <1>2. Pops(t) = n /\ Pending(t) = {} /\ t.do # "end" /\ n \in Nat
    BY <1>1, SeqFacts DEF Pops, Pending
  <1>3. ASSUME NEW k \in 1..n PROVE UseSound(bs, vs[n + 1 - k], a) /\ vs[n + 1 - k].type = LlvmType(e.subs[k].type)
    <2>1. n + 1 - k \in Nat \ {0}
      BY <1>2
    <2> DEFINE j == n + 1 - k
               type == e.subs[k].type
    <2>2. j \in Nat \ {0} /\ TopIs(s, j, type) /\ type \in ValueTypes
      BY <1>1, <2>1
    <2> HIDE DEF j, type
    <2>3. UseSound(bs, vs[j], a) /\ vs[j].type = LlvmType(type)
      BY <1>1, <2>2, TopValue, SMTT(30)
    <2> QED
      BY <2>3 DEF j, type
  <1>4. i.op = "call" /\ i.name = e.name /\ i.args = args /\ i.to = <<>>
    BY InstrFields
  <1>5. ~IsTerminator(i)
    BY <1>4 DEF IsTerminator, Terminators
  <1>6. IsSeq(args) /\ Len(args) = n /\ DOMAIN args = 1..n /\ \A k \in 1..n : args[k] = vs[n + 1 - k]
    <2>1. DOMAIN args = 1..n /\ args = [k \in 1..n |-> args[k]] /\ \A k \in 1..n : args[k] = vs[n + 1 - k]
      OBVIOUS
    <2> HIDE DEF args
    <2> QED
      BY <1>2, <2>1, SeqByIndex
  <1> HIDE DEF i, args
  <1>7. InstrSound(m, dcl, bs, a, i)
    <2>1. Uses(bs, i, a)
      BY <1>3, <1>4, <1>6 DEF Uses
    <2>2. [k \in DOMAIN i.args |-> i.args[k].type] = types
      BY <1>3, <1>4, <1>6
    <2>3. Checks(m, dcl, bs, a, i)
      BY <1>1, <1>4, <2>2 DEF Checks
    <2> QED
      BY <1>4, <1>6, <2>1, <2>3, PlainInstr
  <1>8. CASE e.type = "never"
    <2> DEFINE bt == Emit(called, a, Unreachable)
               S == {a}
               type == "never"
               v == Never
    <2>1. Extends(bs, bt, S, {}, {}) /\ Len(bt) = Len(bs) /\ Heap(m, dcl, bt) /\ Closed(bt, a)
      BY <1>1, <1>4, <1>5, <1>7, EmitTwice
    <2>2. ValueSound(bt, v, Typed(type, s.fn)) /\ v.place = <<>> /\ LlvmType(type) = "void"
      BY ConstantSound, TypeFacts
    <2>3. Gives(s, u, Pops(t), type) /\ S \subseteq {a}
      BY <1>1, <1>2, <1>8
    <2> HIDE DEF bt, S, type, v
    <2>4. VarsAt(bt, h, u, a) /\ VarsSound(bt, h)
      BY <1>1, <1>2, <2>1, VarsStay, SMTT(30)
    <2>5. \A x \in DOMAIN h : x \in DOMAIN h /\ (h[x] = h[x] \/ (x[1] = s.fn /\ x[2] \notin s.vars))
      OBVIOUS
    <2>6. \E c2 : Sound(m, dcl, <<>> \o Tail(ts), c2, Swapped(vs, Pops(t), <<v>>), bt, h, a)
      BY <1>2, <2>1, <2>2, <2>3, <2>4, <2>5, StepHere
    <2> QED
      BY <1>2, <1>8, <2>6 DEF v, bt, i, args
  <1>9. CASE e.type # "never"
    <2> DEFINE type == e.type
               v == Result(type, Emit(bs, a, i), a)
    <2>1. v = Result(type, Emit(bs, a, i), a) /\ type \in ValueTypes /\ Gives(s, u, Pops(t), type)
          /\ (IsTerminator(i) <=> LlvmType(type) = "void") /\ u.vars \subseteq s.vars /\ i.op # "phi"
      BY <1>1, <1>2, <1>4, <1>5, <1>9, TypeFacts
    <2> HIDE DEF type, v
    <2>2. \E c2 : Sound(m, dcl, <<>> \o Tail(ts), c2, Swapped(vs, Pops(t), <<v>>), Emit(bs, a, i), h, a)
      BY <1>1, <1>2, <1>4, <1>7, <2>1, EmitStep
    <2> QED
      BY <1>2, <1>9, <2>2 DEF v, type, i, args
  <1> QED
    BY <1>8, <1>9

-----------------------------------------------------------------------------
(* Blocks: their statements one after another.                               *)

\* An expression or a statement is in scope.
PartIn(m, f, ids, x, after) ==
  \E j \in Scopes(m) : /\ j.function = f /\ j.node = x /\ Before(j) = ids /\ After(j) = after
                       /\ ScopeIsTyped(m, Scopes(m), j)

LEMMA PartThere ==
  ASSUME NEW m \in Modules, NEW j, NEW i, NEW before, NEW after, HasPart(Scopes(m), j, i, before, {after})
  PROVE  PartIn(m, j.function, before, j.node.subs[i], after)
  <1>1. PICK p \in Scopes(m) : /\ p.function = j.function /\ p.node = j.node.subs[i]
                               /\ Before(p) = before /\ After(p) \in {after}
    BY DEF HasPart
  <1>2. ScopeIsTyped(m, Scopes(m), p) /\ After(p) = after
    BY <1>1, ModulesAssumption DEF IsRegular
  <1> QED
    BY <1>1, <1>2 DEF PartIn

LEMMA PartFacts ==
  ASSUME NEW m \in Modules, NEW f, NEW ids, NEW x, NEW after, PartIn(m, f, ids, x, after)
  PROVE  /\ x.kind \in ExpressionKinds \cup StatementKinds /\ x.type \in Types
         /\ x.kind \in StatementKinds => x.type = "unit"
         /\ x.kind \in ExpressionKinds => Inner(m, f, ids, x, after)
  <1>1. PICK j \in Scopes(m) : /\ j.function = f /\ j.node = x /\ Before(j) = ids /\ After(j) = after
                               /\ ScopeIsTyped(m, Scopes(m), j)
    BY DEF PartIn
  <1>2. x.kind \in ExpressionKinds \cup StatementKinds /\ x.type \in Types /\ NodeIsTyped(m, f, x)
    BY <1>1 DEF ScopeIsTyped
  <1>3. x.kind \in StatementKinds => x.type = "unit"
    BY <1>2 DEF NodeIsTyped, StatementKinds
  <1> QED
    BY <1>1, <1>2, <1>3 DEF Inner

LEMMA ValTyped ==
  ASSUME NEW m \in Modules, NEW f, NEW ids, NEW x, NEW after, PartIn(m, f, ids, x, after), x.kind \in {"val", "mut"}
  PROVE  /\ x.subs[1].type \in ValueTypes
         /\ \E to : Inner(m, f, ids, x.subs[1], to) /\ x.id \in Nat \ to /\ after = to \cup {x.id}
  <1>1. PICK j \in Scopes(m) : /\ j.function = f /\ j.node = x /\ Before(j) = ids /\ After(j) = after
                               /\ ScopeIsTyped(m, Scopes(m), j)
    BY DEF PartIn
  <1>2. NodeIsTyped(m, f, x) /\ PartsInScope(Scopes(m), j)
    BY <1>1 DEF ScopeIsTyped
  <1>3. Len(x.subs) = 1 /\ x.subs[1].type \in ValueTypes
    BY <1>2 DEF NodeIsTyped
  <1> DEFINE to == j.scopes[2]
             tos == {to}
  <1>4. HasPart(Scopes(m), j, 1, ids, tos) /\ x.id \in Nat \ to /\ after = to \cup {x.id}
    BY <1>1, <1>2 DEF PartsInScope
  <1>5. 1 \in 1..Len(j.node.subs) /\ j.node.kind # "block"
    BY <1>1, <1>3
  <1> HIDE DEF to, tos
  <1>6. \E y \in tos : Inner(m, j.function, ids, j.node.subs[1], y)
    BY <1>1, <1>4, <1>5, PartInner
  <1>7. Inner(m, f, ids, x.subs[1], to)
    BY <1>1, <1>6 DEF tos
  <1> QED
    BY <1>3, <1>4, <1>7

LEMMA AssignTyped ==
  ASSUME NEW m \in Modules, NEW f, NEW ids, NEW x, NEW after, PartIn(m, f, ids, x, after), x.kind = "assign"
  PROVE  x.subs[1].type \in ValueTypes /\ Inner(m, f, ids, x.subs[1], after) /\ x.id \in ids
  <1>1. PICK j \in Scopes(m) : /\ j.function = f /\ j.node = x /\ Before(j) = ids /\ After(j) = after
                               /\ ScopeIsTyped(m, Scopes(m), j)
    BY DEF PartIn
  <1>2. NodeIsTyped(m, f, x) /\ PartsInScope(Scopes(m), j)
    BY <1>1 DEF ScopeIsTyped
  <1>3. Len(x.subs) = 1 /\ x.subs[1].type \in ValueTypes
    BY <1>2 DEF NodeIsTyped
  <1> DEFINE from == j.scopes[1]
             to == j.scopes[2]
             tos == {to}
  <1>4. Len(j.scopes) = 2 /\ HasPart(Scopes(m), j, 1, from, tos) /\ x.id \in ids
    <2>1. /\ Len(j.scopes) = Len(x.subs) + 1
          /\ \A i \in 1..Len(x.subs) : HasPart(Scopes(m), j, i, j.scopes[i], {j.scopes[i + 1]})
          /\ x.id \in Before(j)
      BY <1>1, <1>2 DEF PartsInScope
    <2> QED
      BY <1>1, <1>3, <2>1
  <1>5. 1 \in 1..Len(j.node.subs) /\ j.node.kind # "block"
    BY <1>1, <1>3
  <1>6. from = ids /\ to = after
    BY <1>1, <1>4 DEF Before, After
  <1> HIDE DEF to, from, tos
  <1>7. \E y \in tos : Inner(m, j.function, from, j.node.subs[1], y)
    BY <1>1, <1>4, <1>5, PartInner
  <1>8. Inner(m, f, ids, x.subs[1], after)
    BY <1>1, <1>6, <1>7 DEF tos
  <1> QED
    BY <1>3, <1>4, <1>8

LEMMA WhileTyped ==
  ASSUME NEW m \in Modules, NEW f, NEW ids, NEW x, NEW after, PartIn(m, f, ids, x, after), x.kind = "while"
  PROVE  /\ x.subs[1].type = "bool" /\ x.subs[2].type \in ValueTypes
         /\ Inner(m, f, ids, x.subs[1], after) /\ \E to : Inner(m, f, after, x.subs[2], to)
  <1>1. PICK j \in Scopes(m) : /\ j.function = f /\ j.node = x /\ Before(j) = ids /\ After(j) = after
                               /\ ScopeIsTyped(m, Scopes(m), j)
    BY DEF PartIn
  <1>2. NodeIsTyped(m, f, x) /\ PartsInScope(Scopes(m), j)
    BY <1>1 DEF ScopeIsTyped
  <1>3. Len(x.subs) = 2 /\ x.subs[1].type = "bool" /\ x.subs[2].type \in ValueTypes
    BY <1>2 DEF NodeIsTyped
  <1> DEFINE tos == {after}
             any == SUBSET Nat
  <1>4. HasPart(Scopes(m), j, 1, ids, tos) /\ HasPart(Scopes(m), j, 2, after, any)
    BY <1>1, <1>2 DEF PartsInScope
  <1>5. 1 \in 1..Len(j.node.subs) /\ 2 \in 1..Len(j.node.subs) /\ j.node.kind # "block"
    BY <1>1, <1>3
  <1> HIDE DEF tos, any
  <1>6. \E y \in tos : Inner(m, j.function, ids, j.node.subs[1], y)
    BY <1>1, <1>4, <1>5, PartInner
  <1>7. \E y \in any : Inner(m, j.function, after, j.node.subs[2], y)
    BY <1>1, <1>4, <1>5, PartInner
  <1>8. Inner(m, f, ids, x.subs[1], after)
    BY <1>1, <1>6 DEF tos
  <1> QED
    BY <1>1, <1>3, <1>7, <1>8

\* From state to state with one statement.
Steps(m, dcl, n, x, s, u) ==
  /\ s.inside /\ s.size \in Nat /\ s.fn \in dcl /\ ~Over(s) /\ n \in Int /\ n <= s.size - 1
  /\ PartIn(m, s.fn, s.vars, x, u.vars) /\ u.fn = s.fn /\ u.inside /\ u.loops \subseteq s.loops
  /\ IF x.kind = "while" THEN Drops(s, u, 0) ELSE Gives(s, u, 1, x.type)

LEMMA PathWhile ==
  ASSUME NEW m \in Modules, NEW dcl, NEW n, NEW x, NEW s, NEW u, Steps(m, dcl, n, x, s, u), x.kind = "while"
  PROVE  Path(m, dcl, n, Statement(x), s, u)
  <1> DEFINE t == Task("while", x)
  <1>1. t.do = "while" /\ t.node = x
    BY DEF Task
  <1>2. Statement(x) = <<t>>
    BY DEF Statement
  <1> HIDE DEF t
  <1>3. /\ x.subs[1].type = "bool" /\ x.subs[2].type \in ValueTypes
        /\ Inner(m, s.fn, s.vars, x.subs[1], u.vars) /\ \E to : Inner(m, s.fn, u.vars, x.subs[2], to)
    BY WhileTyped DEF Steps
  <1>4. Rule(m, dcl, t, s, u)
    BY <1>1, <1>3 DEF Rule, RuleValue, RuleParts, RuleFunction, Tasks, Forks, Steps
  <1>5. n <= Under(t, s) /\ t.do # "end" /\ Pending(t) = {}
    BY <1>1 DEF Under, Pops, Pending, Steps
  <1>6. Path(m, dcl, n, <<t>>, s, u)
    BY <1>4, <1>5, PathOne
  <1> QED
    BY <1>2, <1>6

\* A value that the last task of a statement takes.
LEMMA PathTakes ==
  ASSUME NEW m \in Modules, NEW dcl, NEW n, NEW x, NEW s, NEW u, Steps(m, dcl, n, x, s, u),
         NEW t, t.do \in {"last", "val", "assign"}, t.node = x, Gives(s, u, 1, x.type),
         NEW e, NEW ids, Inner(m, s.fn, s.vars, e, ids),
         t.do = "last" => e = x /\ u.vars = ids,
         t.do # "last" => e = x.subs[1] /\ e.type \in ValueTypes /\ x.type = "unit",
         t.do = "val" => x.id \in Nat \ ids /\ u.vars = ids \cup {x.id},
         t.do = "assign" => x.id \in ids /\ u.vars = ids
  PROVE  LET r == Pushed(s, 0, e.type, ids)
         IN Starts(m, dcl, n, e, s, r) /\ Path(m, dcl, n, <<t>>, r, u) /\ r.fn = s.fn /\ s.vars \subseteq r.vars
            /\ r.loops \subseteq s.loops
  <1> DEFINE r == Pushed(s, 0, e.type, ids)
  <1>1. s.inside /\ s.size \in Nat /\ s.fn \in dcl /\ ~Over(s) /\ n \in Int /\ n <= s.size - 1
        /\ u.fn = s.fn /\ u.inside /\ u.loops \subseteq s.loops
    BY DEF Steps
  <1>2. /\ Gives(s, r, 0, e.type) /\ TopIs(r, 1, e.type) /\ r.size = s.size - 0 + 1 /\ r.size \in Nat
        /\ r.fn = s.fn /\ r.vars = ids /\ r.loops = s.loops /\ r.inside
    <2>1. 0 <= s.size
      BY <1>1
    <2> QED
      BY <1>1, <2>1, PushedFacts
  <1> HIDE DEF r
  <1>3. r.size = s.size + 1 /\ r.size = s.size - 1 + 2 /\ \A i \in 1..s.size - 1 : r.stack[i] = s.stack[i]
    <2>1. \A i \in 1..s.size - 1 : i \in 1..s.size - 0
      BY <1>1
    <2> QED
      BY <1>1, <1>2, <2>1 DEF Gives
  <1>4. Gives(r, u, 2, x.type)
    <2>1. 1 \in Nat /\ 2 \in Nat
      OBVIOUS
    <2> QED
      BY <1>1, <1>2, <1>3, <2>1, GivesFrom
  <1>5. n <= s.size
    BY <1>1
  <1>6. Starts(m, dcl, n, e, s, r)
    BY <1>1, <1>2, <1>5 DEF Starts
  <1>7. Pops(t) = 2
    BY DEF Pops
  <1>8. n <= Under(t, r)
    BY <1>1, <1>3, <1>7 DEF Under
  <1>9. RuleValue(t, r, u, x) /\ RuleParts(m, t, r, u, x) /\ RuleFunction(m, dcl, t, r, u, x)
    BY <1>2, <1>4 DEF RuleValue, RuleParts, RuleFunction
  <1>10. r.fn \in dcl /\ u.fn = r.fn /\ u.loops \subseteq r.loops
    BY <1>1, <1>2
  <1>11. Path(m, dcl, n, <<t>>, r, u)
    <2>1. t.do \in {"not", "or", "return", "last", "val", "assign", "call", "rhs"}
      OBVIOUS
    <2> QED
      BY <1>1, <1>2, <1>8, <1>9, <1>10, <2>1, PathLast
  <1>12. s.vars \subseteq ids
    BY InnerGrows
  <1> QED
    BY <1>2, <1>6, <1>11, <1>12 DEF r

LEMMA PathExpression ==
  ASSUME NEW m \in Modules, NEW dcl, NEW n, NEW x, NEW s, NEW u, Steps(m, dcl, n, x, s, u),
         x.kind \in ExpressionKinds
  PROVE  Path(m, dcl, n, Statement(x), s, u)
  <1> DEFINE t == Task("last", x)
             r == Pushed(s, 0, x.type, u.vars)
             g == <<Generate(x)>>
             z == <<t>>
  <1>1. t.do = "last" /\ t.node = x
    BY DEF Task
  <1>2. Inner(m, s.fn, s.vars, x, u.vars) /\ Gives(s, u, 1, x.type)
    BY PartFacts DEF Steps, ExpressionKinds
  <1>3. Statement(x) = <<Generate(x), t>>
    BY DEF Statement, ExpressionKinds
  <1>4. <<Generate(x), t>> = g \o z
    OBVIOUS
  <1> HIDE DEF t
  <1>5. Starts(m, dcl, n, x, s, r) /\ Path(m, dcl, n, z, r, u) /\ r.fn = s.fn /\ s.vars \subseteq r.vars
        /\ r.loops \subseteq s.loops
    BY <1>1, <1>2, PathTakes
  <1> HIDE DEF r
  <1>6. Path(m, dcl, n, g, s, r)
    BY <1>5, PathGenerate
  <1> HIDE DEF g, z
  <1>7. Path(m, dcl, n, g \o z, s, u)
    BY <1>5, <1>6, PathJoin
  <1> QED
    BY <1>3, <1>4, <1>7

LEMMA PathVal ==
  ASSUME NEW m \in Modules, NEW dcl, NEW n, NEW x, NEW s, NEW u, Steps(m, dcl, n, x, s, u),
         x.kind \in {"val", "mut"}
  PROVE  Path(m, dcl, n, Statement(x), s, u)
  <1> DEFINE t == Task("val", x)
             e == x.subs[1]
             g == GenerateValue(e)
             z == <<t>>
  <1>1. t.do = "val" /\ t.node = x
    BY DEF Task
  <1>2. PartIn(m, s.fn, s.vars, x, u.vars) /\ Gives(s, u, 1, x.type)
    BY DEF Steps
  <1>3. x.type = "unit" /\ e.type \in ValueTypes
    BY <1>2, PartFacts, ValTyped DEF StatementKinds
  <1>4. PICK ids : Inner(m, s.fn, s.vars, e, ids) /\ x.id \in Nat \ ids /\ u.vars = ids \cup {x.id}
    BY <1>2, ValTyped
  <1>5. Statement(x) = g \o z
    BY DEF Statement
  <1> HIDE DEF t, e
  <1> DEFINE r == Pushed(s, 0, e.type, ids)
  <1>9. e = x.subs[1]
    BY DEF e
  <1>6. Starts(m, dcl, n, e, s, r) /\ Path(m, dcl, n, z, r, u) /\ r.fn = s.fn /\ s.vars \subseteq r.vars
        /\ r.loops \subseteq s.loops
    BY <1>1, <1>2, <1>3, <1>4, <1>9, PathTakes
  <1> HIDE DEF r
  <1>7. Path(m, dcl, n, g, s, r)
    BY <1>3, <1>6, PathValue
  <1> HIDE DEF g, z
  <1>8. Path(m, dcl, n, g \o z, s, u)
    BY <1>6, <1>7, PathJoin
  <1> QED
    BY <1>5, <1>8

LEMMA PathAssign ==
  ASSUME NEW m \in Modules, NEW dcl, NEW n, NEW x, NEW s, NEW u, Steps(m, dcl, n, x, s, u),
         x.kind = "assign"
  PROVE  Path(m, dcl, n, Statement(x), s, u)
  <1> DEFINE t == Task("assign", x)
             d == Task("destination", x)
             e == x.subs[1]
             g == GenerateValue(e)
             z == <<t>>
             y == <<d>>
             ids == u.vars
  <1>1. t.do = "assign" /\ t.node = x /\ d.do = "destination" /\ d.node = x
    BY DEF Task
  <1>2. PartIn(m, s.fn, s.vars, x, u.vars) /\ Gives(s, u, 1, x.type)
    BY DEF Steps
  <1>3. x.type = "unit" /\ e.type \in ValueTypes /\ Inner(m, s.fn, s.vars, e, ids) /\ x.id \in s.vars
    BY <1>2, PartFacts, AssignTyped DEF StatementKinds
  <1>4. s.vars \subseteq ids
    BY <1>3, InnerGrows
  <1>5. Statement(x) = y \o g \o z
    BY DEF Statement
  <1> HIDE DEF t, d, e
  <1> DEFINE r == Pushed(s, 0, e.type, ids)
  <1>6. Starts(m, dcl, n, e, s, r) /\ Path(m, dcl, n, z, r, u) /\ r.fn = s.fn /\ s.vars \subseteq r.vars
        /\ r.loops \subseteq s.loops
    <2>1. t.do # "last" /\ t.do # "val"
      BY <1>1
    <2>2. t.do \in {"last", "val", "assign"} /\ t.node = x
      BY <1>1
    <2>3. e = x.subs[1]
      BY DEF e
    <2>4. x.id \in ids
      BY <1>3, <1>4
    <2> QED
      BY <1>2, <1>3, <2>1, <2>2, <2>3, <2>4, PathTakes
  <1> HIDE DEF r
  <1>7. Path(m, dcl, n, g, s, r)
    BY <1>3, <1>6, PathValue
  <1>8. Path(m, dcl, n, y, s, s)
    <2>1. Rule(m, dcl, d, s, s)
      BY <1>1, <1>3 DEF Rule, RuleValue, RuleParts, RuleFunction, Tasks, Forks, Steps
    <2>2. n <= Under(d, s) /\ d.do # "end" /\ Pending(d) = {}
      BY <1>1 DEF Under, Pops, Pending, Steps
    <2> QED
      BY <2>1, <2>2, PathOne
  <1> HIDE DEF g, z, y
  <1>9. Path(m, dcl, n, y \o g, s, r)
    BY <1>7, <1>8, PathJoin
  <1> DEFINE w == y \o g
  <1>10. Path(m, dcl, n, w, s, r)
    BY <1>9
  <1> HIDE DEF w
  <1>11. Path(m, dcl, n, w \o z, s, u)
    BY <1>6, <1>10, PathJoin
  <1> QED
    BY <1>5, <1>11 DEF w

LEMMA PathStatement ==
  ASSUME NEW m \in Modules, NEW dcl, NEW n, NEW x, NEW s, NEW u, Steps(m, dcl, n, x, s, u)
  PROVE  Path(m, dcl, n, Statement(x), s, u)
  <1>1. x.kind \in ExpressionKinds \cup StatementKinds
    BY PartFacts DEF Steps
  <1>2. x.kind \in ExpressionKinds \/ x.kind \in {"val", "mut"} \/ x.kind = "assign" \/ x.kind = "while"
    BY <1>1 DEF StatementKinds
  <1> QED
    BY <1>2, PathExpression, PathVal, PathAssign, PathWhile

\* The statements before the k-th that leave a value, and the type of the last.
Leaving(subs, k) == {i \in 1..k - 1 : subs[i].kind # "while"}
GreatestOf(S) == CHOOSE i \in S : \A j \in S : j <= i
LeftType(subs, k) == IF Leaving(subs, k) = {} THEN "unit" ELSE subs[GreatestOf(Leaving(subs, k))].type

LEMMA GreatestThere ==
  ASSUME NEW n \in Nat, NEW S \in SUBSET (1..n), S # {}
  PROVE  GreatestOf(S) \in S /\ \A j \in S : j <= GreatestOf(S)
  <1> DEFINE T == {n - i : i \in S}
  <1>0. \A i \in S : i \in 1..n /\ i \in Nat /\ n - i \in Nat
    OBVIOUS
  <1>1. T \in SUBSET Nat /\ T # {}
    <2>1. T \in SUBSET Nat
      BY <1>0
    <2>2. PICK i \in S : TRUE
      OBVIOUS
    <2>3. n - i \in T
      OBVIOUS
    <2> QED
      BY <2>1, <2>3
  <1>2. PICK k \in T : \A j \in T : k <= j
    BY <1>1, LeastNat
  <1>3. PICK i \in S : k = n - i
    BY <1>2
  <1>4. \A j \in S : j <= i
    <2> TAKE j \in S
    <2>1. n - j \in T
      OBVIOUS
    <2>2. k <= n - j
      BY <1>2, <2>1
    <2>3. i \in Nat /\ j \in Nat
      BY <1>0
    <2> HIDE DEF T
    <2> QED
      BY <1>3, <2>2, <2>3
  <1> QED
    BY <1>3, <1>4 DEF GreatestOf

LEMMA GreatestIs ==
  ASSUME NEW S \in SUBSET Nat, NEW i \in S, \A j \in S : j <= i
  PROVE  GreatestOf(S) = i
  <1> DEFINE x == GreatestOf(S)
  <1>1. x \in S /\ \A j \in S : j <= x
    BY DEF GreatestOf
  <1> HIDE DEF x
  <1>2. x <= i /\ i <= x /\ x \in Nat /\ i \in Nat
    BY <1>1
  <1>3. x = i
    BY <1>2
  <1> QED
    BY <1>3 DEF x

\* What one statement leaves.
LEMMA LeftNext ==
  ASSUME NEW subs, NEW k \in Nat \ {0}
  PROVE  /\ subs[k].kind = "while" => LeftType(subs, k + 1) = LeftType(subs, k)
         /\ subs[k].kind # "while" => LeftType(subs, k + 1) = subs[k].type
         /\ LeftType(subs, 1) = "unit"
  <1>1. LeftType(subs, 1) = "unit"
    <2>1. Leaving(subs, 1) = {}
      BY DEF Leaving
    <2> QED
      BY <2>1 DEF LeftType
  <1>2. ASSUME subs[k].kind = "while" PROVE LeftType(subs, k + 1) = LeftType(subs, k)
    <2>1. \A i \in 1..(k + 1) - 1 : i = k \/ i \in 1..k - 1
      OBVIOUS
    <2>2. \A i \in 1..k - 1 : i \in 1..(k + 1) - 1
      OBVIOUS
    <2>3. Leaving(subs, k + 1) = Leaving(subs, k)
      BY <1>2, <2>1, <2>2 DEF Leaving
    <2> QED
      BY <2>3 DEF LeftType
  <1>3. ASSUME subs[k].kind # "while" PROVE LeftType(subs, k + 1) = subs[k].type
    <2> DEFINE S == Leaving(subs, k + 1)
    <2>1. k \in 1..(k + 1) - 1 /\ \A i \in 1..(k + 1) - 1 : i <= k /\ i \in Nat
      OBVIOUS
    <2>2. S \in SUBSET Nat /\ k \in S /\ \A j \in S : j <= k
      BY <1>3, <2>1 DEF Leaving
    <2> HIDE DEF S
    <2>3. GreatestOf(S) = k /\ S # {}
      BY <2>2, GreatestIs
    <2> QED
      BY <2>3 DEF LeftType, S
  <1> QED
    BY <1>1, <1>2, <1>3

\* The statements of a block, each in its scope; of what type the values left are.
PartsIn(m, f, ids, e, after, sc) ==
  /\ sc[1] = ids /\ sc[Len(e.subs) + 1] = after
  /\ \A i \in 1..Len(e.subs) : PartIn(m, f, sc[i], e.subs[i], sc[i + 1])
  /\ \A i \in 1..Len(e.subs) + 1 : ids \subseteq sc[i]
BlockIsTyped(e) ==
  /\ IsSeq(e.subs) /\ Len(e.subs) \in Nat
  /\ \A i \in 1..Len(e.subs) - 1 : e.subs[i].type # "never"
  /\ e.type = IF e.subs = <<>> THEN "unit" ELSE e.subs[Len(e.subs)].type
  /\ ~EndsWithLoop(e)
  /\ \A i \in 1..Len(e.subs) : /\ e.subs[i].kind \in ExpressionKinds \cup StatementKinds /\ e.subs[i].type \in Types
                               /\ e.subs[i].kind \in StatementKinds => e.subs[i].type = "unit"

LEMMA BlockTyped ==
  ASSUME NEW m \in Modules, NEW f, NEW ids, NEW e, NEW after, Inner(m, f, ids, e, after), e.kind = "block"
  PROVE  BlockIsTyped(e) /\ \E sc : PartsIn(m, f, ids, e, after, sc)
  <1>1. PICK j \in Scopes(m) : /\ j.function = f /\ j.node = e /\ Before(j) = ids /\ After(j) = after
                               /\ ScopeIsTyped(m, Scopes(m), j)
    BY InnerScope
  <1>2. NodeIsTyped(m, f, e) /\ IsSeq(e.subs)
    BY InnerScope
  <1> DEFINE n == Len(e.subs)
             sc == j.scopes
  <1>3. PartsInScope(Scopes(m), j) /\ j.scopes \in Seq(SUBSET Nat) /\ \A i \in DOMAIN j.scopes : ids \subseteq j.scopes[i]
    BY <1>1 DEF ScopeIsTyped
  <1>4. Len(sc) = n + 1 /\ \A i \in 1..n : HasPart(Scopes(m), j, i, sc[i], {sc[i + 1]})
    BY <1>1, <1>3 DEF PartsInScope
  <1>5. n \in Nat
    BY <1>2, SeqFacts
  <1>6. DOMAIN sc = 1..n + 1
    BY <1>3, <1>4
  <1>7. sc[1] = ids /\ sc[n + 1] = after
    BY <1>1, <1>4 DEF Before, After
  <1>8. ASSUME NEW i \in 1..n PROVE PartIn(m, f, sc[i], e.subs[i], sc[i + 1])
    <2> DEFINE before == sc[i]
               x == sc[i + 1]
    <2>1. HasPart(Scopes(m), j, i, before, {x})
      BY <1>4
    <2> HIDE DEF before, x
    <2>2. PartIn(m, j.function, before, j.node.subs[i], x)
      BY <2>1, PartThere
    <2> QED
      BY <1>1, <2>2 DEF before, x
  <1>9. \A i \in 1..n + 1 : ids \subseteq sc[i]
    BY <1>3, <1>6
  <1>10. PartsIn(m, f, ids, e, after, sc)
    BY <1>7, <1>8, <1>9 DEF PartsIn
  <1>11. ASSUME NEW i \in 1..n
         PROVE  /\ e.subs[i].kind \in ExpressionKinds \cup StatementKinds /\ e.subs[i].type \in Types
                /\ e.subs[i].kind \in StatementKinds => e.subs[i].type = "unit"
    <2> DEFINE x == e.subs[i]
               p == sc[i]
               q == sc[i + 1]
    <2>1. PartIn(m, f, p, x, q)
      BY <1>8
    <2> HIDE DEF x, p, q
    <2>2. x.kind \in ExpressionKinds \cup StatementKinds /\ x.type \in Types /\ (x.kind \in StatementKinds => x.type = "unit")
      BY <2>1, PartFacts
    <2> QED
      BY <2>2 DEF x
  <1>12. /\ \A i \in 1..Len(e.subs) - 1 : e.subs[i].type # "never"
         /\ e.type = IF e.subs = <<>> THEN "unit" ELSE e.subs[Len(e.subs)].type
         /\ ~EndsWithLoop(e)
    BY <1>2 DEF NodeIsTyped
  <1>13. BlockIsTyped(e)
    BY <1>2, <1>5, <1>11, <1>12 DEF BlockIsTyped
  <1> QED
    BY <1>10, <1>13

\* The value of a block is that of its last statement.
LEMMA BlockType ==
  ASSUME NEW e, BlockIsTyped(e)
  PROVE  /\ LlvmType(LeftType(e.subs, Len(e.subs) + 1)) = LlvmType(e.type)
         /\ \A k \in 1..Len(e.subs) : LlvmType(LeftType(e.subs, k)) # "void"
  <1> DEFINE n == Len(e.subs)
             subs == e.subs
  <1>1. n \in Nat /\ IsSeq(subs)
    BY DEF BlockIsTyped
  <1>2. ASSUME NEW k \in 1..n PROVE LlvmType(LeftType(subs, k)) # "void"
    <2>1. CASE Leaving(subs, k) = {}
      BY <2>1, TypeFacts DEF LeftType
    <2>2. CASE Leaving(subs, k) # {}
      <3> DEFINE i == GreatestOf(Leaving(subs, k))
      <3>1. Leaving(subs, k) \in SUBSET (1..k - 1) /\ k - 1 \in Nat
        BY DEF Leaving
      <3>2. i \in 1..k - 1
        BY <2>2, <3>1, GreatestThere
      <3>3. LeftType(subs, k) = subs[i].type
        BY <2>2 DEF LeftType
      <3> HIDE DEF i
      <3>4. i \in 1..n - 1 /\ i \in 1..n
        BY <1>1, <3>2
      <3>5. subs[i].type # "never" /\ subs[i].type \in Types
        BY <3>4 DEF BlockIsTyped
      <3> QED
        BY <3>3, <3>5, TypeFacts
    <2> QED
      BY <2>1, <2>2
  <1>3. LlvmType(LeftType(subs, n + 1)) = LlvmType(e.type)
    <2>1. CASE n = 0
      <3>1. subs = <<>> /\ e.type = "unit"
        BY <1>1, <2>1, SeqNone DEF BlockIsTyped
      <3>2. n + 1 = 1 /\ 1 \in Nat \ {0}
        BY <2>1
      <3>3. LeftType(subs, 1) = "unit"
        BY <3>2, LeftNext
      <3> QED
        BY <3>1, <3>2, <3>3
    <2>2. CASE n # 0
      <3>1. subs # <<>> /\ n \in Nat \ {0}
        BY <1>1, <2>2, SeqNone
      <3>2. e.type = subs[n].type
        BY <3>1 DEF BlockIsTyped
      <3>3. CASE subs[n].kind # "while"
        BY <3>1, <3>2, <3>3, LeftNext
      <3>4. CASE subs[n].kind = "while"
        <4>1. n \in 1..n
          BY <3>1
        <4>2. e.type = "unit"
          BY <3>2, <3>4, <4>1 DEF BlockIsTyped, StatementKinds
        <4>3. LeftType(subs, n + 1) = "unit"
          <5>1. CASE Leaving(subs, n + 1) = {}
            BY <5>1 DEF LeftType
          <5>2. CASE Leaving(subs, n + 1) # {}
            <6> DEFINE S == Leaving(subs, n + 1)
                       i == GreatestOf(S)
            <6>1. (n + 1) - 1 = n
              BY <3>1
            <6>2. S \in SUBSET (1..n) /\ \A j \in 1..n : j \in S <=> subs[j].kind # "while"
              BY <6>1 DEF Leaving
            <6>3. i \in S /\ \A j \in S : j <= i
              <7> HIDE DEF S
              <7> QED
                BY <1>1, <5>2, <6>2, GreatestThere DEF S
            <6>4. LeftType(subs, n + 1) = subs[i].type
              BY <5>2 DEF LeftType
            <6> HIDE DEF S, i
            <6>5. i \in 1..n /\ subs[i].kind # "while"
              BY <6>2, <6>3
            <6>6. \A j \in i + 1..n : subs[j].kind = "while"
              <7> TAKE j \in i + 1..n
              <7>1. j \in 1..n /\ ~(j <= i)
                BY <3>1, <6>5
              <7> QED
                BY <6>2, <6>3, <7>1
            <6>7. subs[i].kind \in StatementKinds \/ subs[i].type = "unit"
              <7>1. DOMAIN subs = 1..n
                BY <1>1, SeqFacts
              <7>2. ~EndsWithLoop(e)
                BY DEF BlockIsTyped
              <7> QED
                BY <3>1, <3>4, <6>5, <6>6, <7>1, <7>2 DEF EndsWithLoop
            <6>8. subs[i].type = "unit"
              BY <6>5, <6>7 DEF BlockIsTyped
            <6> QED
              BY <6>4, <6>8
          <5> QED
            BY <5>1, <5>2
        <4> QED
          BY <4>2, <4>3
      <3> QED
        BY <3>3, <3>4
    <2> QED
      BY <2>1, <2>2
  <1> QED
    BY <1>2, <1>3

\* A state of a block: the value of its statements is above what there was.
Leaves(s, r, type, ids) ==
  /\ r.fn = s.fn /\ r.inside /\ r.loops \subseteq s.loops /\ r.vars = ids /\ Gives(s, r, 0, type)

LEMMA StepsNext ==
  ASSUME NEW m, NEW dcl, NEW s, s.size \in Nat, s.fn \in dcl, NEW x, NEW p, NEW type, NEW ids, Leaves(s, p, type, ids),
         LlvmType(type) # "void", NEW q, NEW type2, NEW ids2, Leaves(s, q, type2, ids2), q.loops \subseteq p.loops,
         PartIn(m, s.fn, ids, x, ids2), x.kind = "while" => type2 = type, x.kind # "while" => type2 = x.type
  PROVE  Steps(m, dcl, s.size, x, p, q)
  <1>1. /\ p.fn = s.fn /\ p.inside /\ p.vars = ids /\ Gives(s, p, 0, type)
        /\ q.fn = s.fn /\ q.inside /\ q.vars = ids2 /\ Gives(s, q, 0, type2)
    BY DEF Leaves
  <1>2. /\ p.size = s.size - 0 + 1 /\ (\A i \in 1..s.size - 0 : p.stack[i] = s.stack[i])
        /\ p.stack[p.size] = Typed(type, s.fn)
        /\ q.size = s.size - 0 + 1 /\ (\A i \in 1..s.size - 0 : q.stack[i] = s.stack[i])
        /\ q.stack[q.size] = Typed(type2, s.fn)
    BY <1>1 DEF Gives
  <1>3. p.size = s.size + 1 /\ q.size = s.size + 1 /\ s.size - 0 = s.size /\ p.size \in Nat
        /\ p.size - 1 = s.size /\ q.size = p.size - 1 + 1 /\ q.size = p.size - 0 /\ p.size - 0 = p.size
    BY <1>2
  <1>4. ~Over(p)
    BY <1>2 DEF Over, Typed
  <1>5. ASSUME x.kind = "while" PROVE Drops(p, q, 0)
    <2>1. ASSUME NEW i \in 1..p.size PROVE q.stack[i] = p.stack[i]
      <3>1. CASE i = p.size
        BY <1>2, <1>3, <1>5, <3>1
      <3>2. CASE i # p.size
        <4>1. i \in 1..s.size - 0
          BY <1>3, <3>2
        <4> QED
          BY <1>2, <4>1
      <3> QED
        BY <3>1, <3>2
    <2>2. \A i \in 1..p.size - 0 : q.stack[i] = p.stack[i]
      BY <1>3, <2>1
    <2>3. 0 <= p.size
      BY <1>3
    <2> QED
      BY <1>3, <2>2, <2>3 DEF Drops
  <1>6. ASSUME x.kind # "while" PROVE Gives(p, q, 1, x.type)
    <2>1. 1 <= p.size
      BY <1>3
    <2>2. \A i \in 1..p.size - 1 : q.stack[i] = p.stack[i]
      BY <1>2, <1>3
    <2>3. q.stack[q.size] = Typed(x.type, p.fn)
      BY <1>1, <1>2, <1>6
    <2> QED
      BY <1>3, <2>1, <2>2, <2>3 DEF Gives
  <1>7. s.size \in Int /\ s.size <= p.size - 1
    BY <1>3
  <1>8. PartIn(m, p.fn, p.vars, x, q.vars) /\ q.fn = p.fn /\ p.fn \in dcl
    BY <1>1
  <1> QED
    BY <1>1, <1>3, <1>4, <1>5, <1>6, <1>7, <1>8 DEF Steps

BlockStates(s, u, e, sc, n) ==
  [k \in 1..n + 1 |-> IF k = n + 1 THEN u ELSE Pushed(s, 0, LeftType(e.subs, k), sc[k])]

LEMMA BlockLeaves ==
  ASSUME NEW s, s.size \in Nat, NEW u, NEW e, NEW sc, NEW n \in Nat, n = Len(e.subs), BlockIsTyped(e),
         Gives(s, u, 0, e.type), u.fn = s.fn, u.inside, u.loops \subseteq s.loops, u.vars = sc[n + 1],
         NEW k \in 1..n + 1
  PROVE  LET r == BlockStates(s, u, e, sc, n)
         IN Leaves(s, r[k], LeftType(e.subs, k), sc[k]) /\ (k <= n => r[k].loops = s.loops)
  <1> DEFINE r == BlockStates(s, u, e, sc, n)
             p == r[k]
  <1>1. CASE k = n + 1
    <2>1. p = u /\ ~(k <= n)
      BY <1>1 DEF BlockStates
    <2>2. LlvmType(LeftType(e.subs, k)) = LlvmType(e.type)
      BY <1>1, BlockType
    <2>3. Gives(s, u, 0, LeftType(e.subs, k))
      BY <2>2 DEF Gives, Typed
    <2> QED
      BY <1>1, <2>1, <2>3 DEF Leaves
  <1>2. CASE k # n + 1
    <2> DEFINE type == LeftType(e.subs, k)
    <2>1. p = Pushed(s, 0, type, sc[k])
      BY <1>2 DEF BlockStates
    <2> HIDE DEF p, type
    <2>2. 0 <= s.size /\ 0 \in Nat
      OBVIOUS
    <2>3. Gives(s, p, 0, type) /\ p.fn = s.fn /\ p.vars = sc[k] /\ p.loops = s.loops /\ p.inside
      BY <2>1, <2>2, PushedFacts
    <2>4. Leaves(s, p, type, sc[k]) /\ p.loops = s.loops
      BY <2>3 DEF Leaves
    <2> QED
      BY <2>4 DEF p, type
  <1> QED
    BY <1>1, <1>2

LEMMA BlockParts ==
  ASSUME NEW m \in Modules, NEW dcl, NEW ts, NEW c, NEW vs, NEW bs, NEW h, NEW a,
         Sound(m, dcl, ts, c, vs, bs, h, a), ts # <<>>, ts[1].do = "generate", ts[1].node.kind = "block"
  PROVE  LET e == ts[1].node
             with == FlattenSeq([i \in DOMAIN e.subs |-> Statement(e.subs[i])])
         IN \E c2 : Sound(m, dcl, with \o Tail(ts), c2, Swapped(vs, 0, <<UnitValue>>), bs, h, a)
  <1> DEFINE s == c[1]
             u == c[2]
             t == ts[1]
             e == t.node
             n == Len(e.subs)
             subs == e.subs
             seqs == [i \in DOMAIN e.subs |-> Statement(e.subs[i])]
             f == s.fn
             vt == Swapped(vs, 0, <<UnitValue>>)
  <1>1. /\ Starts(m, dcl, s.size, e, s, u) /\ Inner(m, f, s.vars, e, u.vars) /\ s.vars \subseteq u.vars
        /\ s.size \in Nat /\ Gives(s, u, 0, e.type)
    BY Generating1
  <1>2. /\ s.inside /\ s.fn \in dcl /\ ~Over(s) /\ u.fn = s.fn /\ u.inside /\ u.loops \subseteq s.loops
    BY <1>1 DEF Starts
  <1>3. BlockIsTyped(e) /\ \E sc : PartsIn(m, f, s.vars, e, u.vars, sc)
    BY <1>1, BlockTyped
  <1>4. PICK sc : PartsIn(m, f, s.vars, e, u.vars, sc)
    BY <1>3
  <1>5. n \in Nat /\ DOMAIN e.subs = 1..n /\ IsSeq(e.subs)
    BY <1>3, SeqFacts DEF BlockIsTyped
  <1>6. /\ sc[1] = s.vars /\ sc[n + 1] = u.vars
        /\ \A i \in 1..n : PartIn(m, f, sc[i], e.subs[i], sc[i + 1])
        /\ \A i \in 1..n + 1 : s.vars \subseteq sc[i]
    BY <1>4 DEF PartsIn
  <1> DEFINE r == BlockStates(s, u, e, sc, n)
  <1>7. ASSUME NEW k \in 1..n + 1 PROVE Leaves(s, r[k], LeftType(subs, k), sc[k]) /\ (k <= n => r[k].loops = s.loops)
    <2> DEFINE l == n
               x == e
               w == u
               z == s
    <2>1. /\ z.size \in Nat /\ l \in Nat /\ l = Len(x.subs) /\ BlockIsTyped(x) /\ Gives(z, w, 0, x.type)
          /\ w.fn = z.fn /\ w.inside /\ w.loops \subseteq z.loops /\ w.vars = sc[l + 1] /\ k \in 1..l + 1
      BY <1>1, <1>2, <1>3, <1>5, <1>6
    <2> HIDE DEF l, x, w, z
    <2>2. Leaves(z, BlockStates(z, w, x, sc, l)[k], LeftType(x.subs, k), sc[k])
          /\ (k <= l => BlockStates(z, w, x, sc, l)[k].loops = z.loops)
      BY <2>1, BlockLeaves
    <2> QED
      BY <2>2 DEF l, x, w, z
  <1> HIDE DEF r
  <1>8. ASSUME NEW k \in 1..n PROVE Path(m, dcl, s.size, Statement(subs[k]), r[k], r[k + 1])
    <2> DEFINE p == r[k]
               q == r[k + 1]
               x == subs[k]
               type == LeftType(subs, k)
               type2 == LeftType(subs, k + 1)
               ids == sc[k]
               ids2 == sc[k + 1]
    <2>1. k \in 1..n + 1 /\ k + 1 \in 1..n + 1 /\ k <= n /\ k \in Nat \ {0}
      BY <1>5
    <2>2. Leaves(s, p, type, ids) /\ Leaves(s, q, type2, ids2) /\ p.loops = s.loops
      BY <1>7, <2>1
    <2>3. LlvmType(type) # "void"
      BY <1>3, BlockType
    <2>4. (x.kind = "while" => type2 = type) /\ (x.kind # "while" => type2 = x.type)
      BY <2>1, LeftNext
    <2>5. PartIn(m, s.fn, ids, x, ids2)
      BY <1>6
    <2> HIDE DEF p, q, x, type, type2, ids, ids2
    <2>6. q.loops \subseteq p.loops
      BY <2>2 DEF Leaves
    <2>7. Steps(m, dcl, s.size, x, p, q)
      BY <1>1, <1>2, <2>2, <2>3, <2>4, <2>5, <2>6, StepsNext
    <2>8. Path(m, dcl, s.size, Statement(x), p, q)
      BY <2>7, PathStatement
    <2> QED
      BY <2>8 DEF x, p, q
  <1>9. IsSeq(seqs) /\ Len(seqs) = n /\ \A k \in 1..n : seqs[k] = Statement(subs[k])
    <2>1. DOMAIN seqs = 1..n /\ seqs = [i \in 1..n |-> seqs[i]] /\ \A k \in 1..n : seqs[k] = Statement(subs[k])
      BY <1>5
    <2> HIDE DEF seqs
    <2> QED
      BY <1>5, <2>1, SeqByIndex
  <1>10. r[n + 1] = u
    <2>1. n + 1 \in 1..n + 1
      BY <1>5
    <2> QED
      BY <2>1 DEF r, BlockStates
  <1> DEFINE with == FlattenSeq(seqs)
             z == r[1]
  <1> HIDE DEF seqs
  <1>11. z.fn = s.fn /\ z.vars = s.vars /\ z.loops \subseteq s.loops /\ Gives(s, z, 0, "unit")
         /\ \A k \in 1..n + 1 : r[k].loops \subseteq z.loops
    <2>1. 1 \in 1..n + 1 /\ 1 \in Nat \ {0}
      BY <1>5
    <2>2. Leaves(s, z, "unit", s.vars)
      <3>1. LeftType(subs, 1) = "unit"
        BY <2>1, LeftNext
      <3> QED
        BY <1>6, <1>7, <2>1, <3>1
    <2>3. ASSUME NEW k \in 1..n + 1 PROVE r[k].loops \subseteq z.loops
      <3>1. CASE n = 0
        BY <3>1
      <3>2. CASE n # 0
        <4>1. 1 <= n
          BY <1>5, <3>2
        <4>2. z.loops = s.loops
          BY <1>7, <2>1, <4>1
        <4>3. r[k].loops \subseteq s.loops
          BY <1>7 DEF Leaves
        <4> QED
          BY <4>2, <4>3
      <3> QED
        BY <3>1, <3>2
    <2> QED
      BY <2>2, <2>3 DEF Leaves
  <1>12. Path(m, dcl, s.size, with, z, u)
    <2> DEFINE l == Len(seqs)
    <2>1. \A k \in 1..l : Path(m, dcl, s.size, seqs[k], r[k], r[k + 1])
      BY <1>8, <1>9
    <2>2. \A k \in 1..l + 1 : r[k].fn = r[1].fn /\ r[1].vars \subseteq r[k].vars /\ r[k].loops \subseteq r[1].loops
      BY <1>6, <1>7, <1>9, <1>11 DEF Leaves
    <2>3. Path(m, dcl, s.size, FlattenSeq(seqs), r[1], r[l + 1])
      BY <1>9, <2>1, <2>2, PathFlat
    <2> QED
      BY <1>9, <1>10, <2>3
  <1> HIDE DEF with, z
  <1>13. Begins(m, dcl, t, s, u, vs, bs, h, a)
    BY Start
  <1> DEFINE S == {}
             v == UnitValue
             type == "unit"
  <1>14. Extends(bs, bs, S, {}, {}) /\ Heap(m, dcl, bs) /\ VarsSound(bs, h) /\ (Closed(bs, a) <=> Over(s))
    BY <1>13, ExtendsSame DEF Begins
  <1>15. ValueSound(bs, v, Typed(type, s.fn)) /\ v.place = <<>>
    BY ConstantSound, TypeFacts DEF UnitValue
  <1>16. Closed(bs, a) <=> LlvmType(type) = "void"
    BY <1>2, <1>14, TypeFacts
  <1>17. VarsAt(bs, h, z, a)
    BY <1>11, <1>13, <1>14, VarsStay
  <1> HIDE DEF S, type, v, vt
  <1>18. IsCurrent(bs, h, vt, a, z) /\ Matches(bs, vt, z) /\ Keeps(bs, vs, vt, s.size - 0)
    <2>1. Gives(s, z, 0, type) /\ 0 \in Nat
      BY <1>11 DEF type
    <2>2. vt = Swapped(vs, 0, <<v>>)
      BY DEF vt, v
    <2> QED
      BY <1>11, <1>13, <1>14, <1>15, <1>16, <1>17, <2>1, <2>2, CurrentGives
  <1>19. Under(t, s) = s.size - 0 /\ s.size - 0 = s.size /\ Pending(t) = {} /\ t.do # "end"
    BY <1>1 DEF Under, Pops, Pending
  <1>20. Touches(bs, bs, S, {}, {}, h, h, vs, vt, t, s, a)
    BY <1>14, <1>18, <1>19 DEF Touches, S
  <1>21. \E c2 : Sound(m, dcl, with \o Tail(ts), c2, vt, bs, h, a)
    <2>1. Path(m, dcl, Under(ts[1], c[1]), with, z, c[2])
      BY <1>12, <1>19
    <2>2. c[1].vars \subseteq z.vars /\ z.fn = c[1].fn /\ z.loops \subseteq c[1].loops /\ Len(bs) = Len(bs)
      BY <1>11
    <2> QED
      BY <1>14, <1>18, <1>19, <1>20, <2>1, <2>2, StepStill
  <1> QED
    BY <1>21 DEF with, vt, seqs

=============================================================================
