--------------------------- MODULE CodegenProofs ----------------------------
(***************************************************************************)
(* The code generator gets through every module, and LLVM's verifier takes *)
(* what it has generated: the steps that go on in another block, those of  *)
(* branches, loops and functions; the verifier; and the theorem.           *)
(***************************************************************************)
EXTENDS CodegenInvariant

-----------------------------------------------------------------------------
(* Where what is used later has been made.                                   *)

InPlace(bs, vs, n) ==
  \A i \in 1..n : FromBelow(vs, i).place # <<>> => FromBelow(vs, i).place[1] \in 1..Len(bs)

LEMMA ReadyEmit ==
  ASSUME NEW bs, NEW a, NEW i, Emits(bs, a, i), NEW h, VarsSound(bs, h), NEW vs, NEW n, InPlace(bs, vs, n),
         NEW b, NEW s, ReadyAt(bs, h, vs, b, s, n), s.loops \subseteq 1..Len(bs),
         ReadyAt(bs, h, vs, a, s, n) \/ Targets(i) = {}
  PROVE  ReadyAt(Emit(bs, a, i), h, vs, b, s, n)
  <1> DEFINE bt == Emit(bs, a, i)
  <1>1. BlockShape(bs) /\ a \in 1..Len(bs) /\ b \in 1..Len(bs)
    BY DEF Emits, ReadyAt
  <1>2. Len(bt) = Len(bs) /\ \A c \in 1..Len(bs) : bt[c].function = bs[c].function
    BY <1>1, EmitShape
  <1>3. ASSUME NEW p \in 1..Len(bs), Dom(bs, p, b), Dom(bs, p, a) \/ Targets(i) = {}
        PROVE  Dom(bt, p, b)
    BY <1>1, <1>3, EmitDom
  <1> HIDE DEF bt
  <1>4. ASSUME NEW k \in 1..n, FromBelow(vs, k).place # <<>>, bt[FromBelow(vs, k).place[1]].function = s.fn
        PROVE  Dom(bt, FromBelow(vs, k).place[1], b)
    <2> DEFINE p == FromBelow(vs, k).place[1]
    <2>1. p \in 1..Len(bs)
      BY <1>4 DEF InPlace
    <2>2. bs[p].function = s.fn
      BY <1>2, <1>4, <2>1
    <2>3. Dom(bs, p, b) /\ (Dom(bs, p, a) \/ Targets(i) = {})
      BY <1>4, <2>2 DEF ReadyAt
    <2> QED
      BY <1>3, <2>1, <2>3
  <1>5. ASSUME NEW id \in s.vars PROVE <<s.fn, id>> \in DOMAIN h /\ Dom(bt, h[<<s.fn, id>>], b)
    <2> DEFINE p == h[<<s.fn, id>>]
    <2>1. <<s.fn, id>> \in DOMAIN h /\ Dom(bs, p, b) /\ (Dom(bs, p, a) \/ Targets(i) = {})
      BY DEF ReadyAt
    <2>2. p \in 1..Len(bs)
      BY <2>1 DEF VarsSound
    <2> QED
      BY <1>3, <2>1, <2>2
  <1>6. ASSUME NEW l \in s.loops PROVE Dom(bt, l, b)
    BY <1>3 DEF ReadyAt
  <1>7. b \in 1..Len(bt) /\ bt[b].function = s.fn
    BY <1>2 DEF ReadyAt
  <1>8. ReadyAt(bt, h, vs, b, s, n)
    BY <1>4, <1>5, <1>6, <1>7 DEF ReadyAt
  <1> QED
    BY <1>8 DEF bt

\* Everything is there where nothing leads to.
LEMMA ReadyUnreached ==
  ASSUME NEW bs, Len(bs) \in Nat, EdgesInside(bs), NEW h, VarsSound(bs, h), NEW vs, NEW n, InPlace(bs, vs, n),
         NEW a, NEW s, ReadyAt(bs, h, vs, a, s, n), s.loops \subseteq 1..Len(bs),
         NEW b \in 1..Len(bs), bs[b].function = s.fn, Into(bs, b) = {}, b # EntryOf(bs, s.fn)
  PROVE  ReadyAt(bs, h, vs, b, s, n)
  <1>1. ASSUME NEW p \in 1..Len(bs), bs[p].function = s.fn PROVE Dom(bs, p, b)
    BY <1>1, DomUnreached
  <1>2. bs[a].function = s.fn
    BY DEF ReadyAt
  <1>3. ASSUME NEW p, Dom(bs, p, a) PROVE bs[p].function = s.fn
    BY <1>2, <1>3 DEF Dom
  <1>4. ASSUME NEW k \in 1..n, FromBelow(vs, k).place # <<>>, bs[FromBelow(vs, k).place[1]].function = s.fn
        PROVE  Dom(bs, FromBelow(vs, k).place[1], b)
    BY <1>1, <1>4 DEF InPlace
  <1>5. ASSUME NEW id \in s.vars PROVE <<s.fn, id>> \in DOMAIN h /\ Dom(bs, h[<<s.fn, id>>], b)
    <2> DEFINE p == h[<<s.fn, id>>]
    <2>1. <<s.fn, id>> \in DOMAIN h /\ Dom(bs, p, a)
      BY DEF ReadyAt
    <2>2. p \in 1..Len(bs)
      BY <2>1 DEF VarsSound
    <2> QED
      BY <1>1, <1>3, <2>1, <2>2
  <1>6. ASSUME NEW l \in s.loops PROVE Dom(bs, l, b)
    <2>1. Dom(bs, l, a)
      BY DEF ReadyAt
    <2> QED
      BY <1>1, <1>3, <2>1
  <1> QED
    BY <1>4, <1>5, <1>6 DEF ReadyAt

LEMMA ReadyLess ==
  ASSUME NEW bs, NEW h, NEW vs, NEW b, NEW s, NEW n \in Int, ReadyAt(bs, h, vs, b, s, n),
         NEW r, r.fn = s.fn, r.vars \subseteq s.vars, r.loops \subseteq s.loops, NEW k \in Int, k <= n,
         NEW vt, \A i \in 1..k : FromBelow(vt, i) = FromBelow(vs, i)
  PROVE  ReadyAt(bs, h, vt, b, r, k)
  <1>1. \A i \in 1..k : i \in 1..n
    OBVIOUS
  <1> QED
    BY <1>1 DEF ReadyAt

LEMMA MatchesInPlace ==
  ASSUME NEW bs, NEW vs, NEW s, Matches(bs, vs, s), s.size \in Nat, NEW n \in Int, n <= s.size
  PROVE  InPlace(bs, vs, n)
  <1>1. \A i \in 1..n : i \in 1..s.size
    OBVIOUS
  <1> QED
    BY <1>1 DEF InPlace, Matches, ValueSound

LEMMA VarsExtend ==
  ASSUME NEW bs, NEW bt, NEW S, NEW P, NEW L, Extends(bs, bt, S, P, L), NEW h, VarsSound(bs, h)
  PROVE  VarsSound(bt, h)
  <1>1. \A c \in 1..Len(bs) : c \in 1..Len(bt) /\ bt[c].function = bs[c].function
    BY ExtendsLen DEF Extends
  <1>2. ASSUME NEW x \in DOMAIN h PROVE h[x] \in 1..Len(bt) /\ bt[h[x]].function = x[1] /\ Allocates(bt, h[x], x[2])
    <2>1. h[x] \in 1..Len(bs) /\ bs[h[x]].function = x[1] /\ Allocates(bs, h[x], x[2])
      BY DEF VarsSound
    <2>2. PICK k \in 1..Len(bs[h[x]].code) : bs[h[x]].code[k].op = "alloca" /\ bs[h[x]].code[k].id = x[2]
      BY <2>1 DEF Allocates
    <2> DEFINE c == h[x]
    <2>3. Len(bs[c].code) \in Nat /\ Len(bt[c].code) \in Nat
      BY <1>1, <2>1, CodeFacts DEF Extends
    <2>4. Len(bs[c].code) <= Len(bt[c].code) /\ bt[c].code[k] = bs[c].code[k]
      BY <2>1, <2>2 DEF Extends
    <2>5. k \in 1..Len(bt[c].code)
      BY <2>3, <2>4
    <2> QED
      BY <1>1, <2>1, <2>2, <2>4, <2>5 DEF Allocates
  <1> QED
    BY <1>2 DEF VarsSound

-----------------------------------------------------------------------------
(* Tasks that go on in other blocks.                                         *)

\* The last task of a path waits with blocks for it.
Waits(bs, bt, h, vt, t, s, u, z, r, s1, b) ==
  /\ Under(z, r) = Under(t, s) /\ z.do # "end" /\ r.fn = s.fn /\ s1.fn = s.fn /\ s1.vars \subseteq r.vars
  /\ s.vars \subseteq s1.vars \/ u.vars \subseteq s1.vars
  /\ Awaited(z, u) # {} => u.vars \subseteq s1.vars
  /\ r.loops \subseteq s1.loops
  /\ \A l \in s1.loops :
       l \in s.loops \/ (l \notin 1..Len(bs) /\ l \in 1..Len(bt) /\ NoPhi(bt, l) /\ l \notin Pending(z))
  /\ TaskSound(bt, h, vt, z, r, u)
  /\ \A d \in Pending(z) : d # b /\ (d \in Pending(t) \/ d \notin 1..Len(bs))

\* Nothing is left open but the block the builder is at, and those.
LeftTo(bs, bt, t, a, b, D) ==
  \A d \in 1..Len(bt) : d = a \/ d \in Pending(t) \/ d \notin 1..Len(bs) => Closed(bt, d) \/ d = b \/ d \in D

LEMMA ForkStep ==
  ASSUME NEW m, NEW dcl, NEW ts, NEW c, NEW vs, NEW bs, NEW h, NEW a,
         Sound(m, dcl, ts, c, vs, bs, h, a), ts # <<>>, ts[1].do # "end",
         NEW bt, NEW S, NEW P, NEW L, NEW vt, Touches(bs, bt, S, P, L, h, h, vs, vt, ts[1], c[1], a),
         NEW x, NEW s1, NEW r, Path(m, dcl, Under(ts[1], c[1]), x, s1, r),
         NEW z, Rule(m, dcl, z, r, c[2]),
         NEW b, Waits(bs, bt, h, vt, ts[1], c[1], c[2], z, r, s1, b),
         Heap(m, dcl, bt), Matches(bt, vt, s1), IsCurrent(bt, h, vt, b, s1),
         b = a \/ b \in Pending(ts[1]) \/ b \notin 1..Len(bs),
         LeftTo(bs, bt, ts[1], a, b, Pending(z))
  PROVE  \E c2 : Sound(m, dcl, (x \o <<z>>) \o Tail(ts), c2, vt, bt, h, b)
  <1> DEFINE t == ts[1]
             s == c[1]
             u == c[2]
             n == Under(t, s)
             y == <<z>>
             rc == [k \in 1..2 |-> IF k = 1 THEN r ELSE u]
             with == x \o y
  <1>1. PICK mx : /\ Run(m, dcl, x, mx) /\ mx[1] = s1 /\ mx[Len(x) + 1] = r
                  /\ \A j \in 1..Len(x) : Still(n, x[j], mx[j], s1)
    BY DEF Path
  <1>2. IsSeq(y) /\ Len(y) = 1 /\ y[1] = z /\ IsSeq(x) /\ Len(x) \in Nat
    BY <1>1, SeqOne, SeqFacts DEF Run
  <1>3. rc[1] = r /\ rc[2] = u
    OBVIOUS
  <1> HIDE DEF y, rc
  <1>4. Run(m, dcl, y, rc)
    <2>1. \A k \in 1..Len(y) : k = 1
      BY <1>2
    <2>2. 1 + 1 = 2
      OBVIOUS
    <2> QED
      BY <1>2, <1>3, <2>1, <2>2 DEF Run
  <1> DEFINE mid == ChainOf(x, mx, y, rc)
  <1>5. Run(m, dcl, with, mid)
    BY <1>1, <1>3, <1>4, RunJoin
  <1>6. /\ IsSeq(with) /\ Len(with) = Len(x) + Len(y) /\ Len(x) \in Nat /\ Len(y) \in Nat
        /\ \A k \in 1..Len(x) : with[k] = x[k] /\ mid[k] = mx[k] /\ mid[k + 1] = mx[k + 1]
        /\ \A k \in 1..Len(y) :
             with[Len(x) + k] = y[k] /\ mid[Len(x) + k] = rc[k] /\ mid[Len(x) + k + 1] = rc[k + 1]
        /\ mid[Len(x) + Len(y) + 1] = rc[Len(y) + 1] /\ mid[1] = mx[1]
        /\ \A k \in 1..Len(with) : k \in 1..Len(x) \/ \E i \in 1..Len(y) : k = Len(x) + i
        /\ \A k \in 1..Len(with) + 1 : k \in 1..Len(x) \/ \E i \in 1..Len(y) + 1 : k = Len(x) + i
    <2>1. IsSeq(x) /\ IsSeq(y) /\ mx[Len(x) + 1] = rc[1]
      BY <1>1, <1>2, <1>3
    <2> QED
      BY ONLY <2>1, JoinFacts
  <1> HIDE DEF with, mid
  <1> DEFINE k == Len(with)
  <1>7. k = Len(x) + 1 /\ k \in 1..k /\ with[k] = z /\ mid[k] = r /\ mid[k + 1] = u /\ mid[1] = s1
    <2>1. 1 \in 1..Len(y) /\ k = Len(x) + 1 /\ k \in 1..k /\ Len(y) = 1 /\ 1 + 1 = 2
      BY <1>2, <1>6
    <2>2. with[Len(x) + 1] = y[1] /\ mid[Len(x) + 1] = rc[1] /\ mid[Len(x) + 1 + 1] = rc[1 + 1]
      BY <1>6, <2>1
    <2> QED
      BY <1>1, <1>2, <1>3, <1>6, <2>1, <2>2
  <1>8. with \o Tail(ts) # <<>>
    <2>1. IsSeq(with)
      BY <1>6
    <2> QED
      BY <2>1, MoreToDo
  <1>9. \A j \in 1..k : j = k \/ (j # k /\ j \in 1..Len(x) /\ with[j] = x[j] /\ mid[j] = mx[j])
    <2>1. \A j \in 1..k : j = k \/ (j # k /\ j \in 1..Len(x))
      BY <1>2, <1>7
    <2> QED
      BY <1>6, <2>1
  <1>10. Saved(t, u) = {}
    BY DEF Saved
  <1> HIDE DEF k
  <1>11. Begins(m, dcl, t, s, u, vs, bs, h, a)
    BY Start
  <1>12. u.fn = s.fn
    BY <1>11 DEF Begins, Rule
  <1>13. Under(z, r) \in Int
    BY RuleUnder, CallSubs
  <1>14. Goes(bs, bt, h, vt, t, s, u, with, mid, b)
    <2> SUFFICES ASSUME NEW j \in 1..k
                 PROVE  /\ mid[j].fn = s.fn /\ Under(t, s) <= Under(with[j], mid[j])
                        /\ s.vars \subseteq mid[j].vars \/ (u.fn = s.fn /\ u.vars \subseteq mid[j].vars)
                        /\ \A l \in mid[j].loops :
                             l \in s.loops \/ (l \notin 1..Len(bs) /\ l \in 1..Len(bt) /\ NoPhi(bt, l) /\ l \notin Pending(z))
                        /\ with[j].do # "end" /\ (j # k => Pending(with[j]) = {})
                        /\ TaskSound(bt, h, vt, z, mid[k], u)
                        /\ \A d \in Pending(z) : d # b /\ (d \in Pending(t) \/ d \notin 1..Len(bs))
                        /\ Awaited(z, u) # {} => Under(z, mid[k]) <= Under(with[j], mid[j]) /\ u.vars \subseteq mid[j].vars
      BY <1>7 DEF Goes, k
    <2>1. /\ Under(z, r) = Under(t, s) /\ z.do # "end" /\ r.fn = s.fn /\ s1.fn = s.fn /\ s1.vars \subseteq r.vars
          /\ s.vars \subseteq s1.vars \/ u.vars \subseteq s1.vars
          /\ Awaited(z, u) # {} => u.vars \subseteq s1.vars
          /\ r.loops \subseteq s1.loops
          /\ \A l \in s1.loops :
               l \in s.loops \/ (l \notin 1..Len(bs) /\ l \in 1..Len(bt) /\ NoPhi(bt, l) /\ l \notin Pending(z))
          /\ TaskSound(bt, h, vt, z, r, u)
          /\ \A d \in Pending(z) : d # b /\ (d \in Pending(t) \/ d \notin 1..Len(bs))
      BY DEF Waits
    <2>2. CASE j = k
      <3>1. with[j] = z /\ mid[j] = r /\ mid[k] = r
        BY <1>7, <2>2
      <3>2. Under(t, s) <= Under(z, r) /\ Under(z, r) <= Under(z, r)
        BY <1>13, <2>1
      <3> QED
        BY <1>12, <2>1, <2>2, <3>1, <3>2
    <2>3. CASE j # k
      <3>1. with[j] = x[j] /\ mid[j] = mx[j] /\ mid[k] = r /\ Still(n, x[j], mx[j], s1)
        BY <1>1, <1>7, <1>9, <2>3
      <3> DEFINE w == with[j]
                 q == mid[j]
      <3>2. q.fn = s1.fn /\ n <= Under(w, q) /\ s1.vars \subseteq q.vars /\ q.loops \subseteq s1.loops
            /\ w.do # "end" /\ Pending(w) = {}
        BY <3>1 DEF Still
      <3> HIDE DEF w, q
      <3>3. q.fn = s.fn /\ n <= Under(w, q) /\ (s.vars \subseteq q.vars \/ u.vars \subseteq q.vars)
            /\ (Awaited(z, u) # {} => u.vars \subseteq q.vars)
        BY <2>1, <3>2
      <3>4. \A l \in q.loops :
               l \in s.loops \/ (l \notin 1..Len(bs) /\ l \in 1..Len(bt) /\ NoPhi(bt, l) /\ l \notin Pending(z))
        BY <2>1, <3>2
      <3>5. w.do # "end" /\ Pending(w) = {}
        BY <3>2
      <3> QED
        BY <1>12, <2>1, <3>1, <3>3, <3>4, <3>5 DEF w, q
    <2> QED
      BY <2>2, <2>3
  <1>15. Finishes(bs, bt, t, u, a, b, with, Tail(ts))
    <2> SUFFICES ASSUME NEW d \in 1..Len(bt), d = a \/ d \in Held(t, u) \/ d \notin 1..Len(bs)
                 PROVE  \/ Closed(bt, d) \/ (with \o Tail(ts) # <<>> /\ d = b)
                        \/ \E j \in 1..Len(with) : j = Len(with) /\ d \in Pending(with[j])
      BY DEF Finishes
    <2>1. Closed(bt, d) \/ d = b \/ d \in Pending(z)
      BY <1>10 DEF Held, LeftTo
    <2> QED
      BY <1>7, <1>8, <2>1 DEF k
  <1>16. VarsSound(bt, h)
    BY <1>11, VarsExtend DEF Begins, Touches
  <1>17. b = a \/ b \in Held(t, u) \/ (b \in 1..Len(bt) /\ b \notin 1..Len(bs)) \/ Tail(ts) = <<>>
    BY DEF Held, IsCurrent, ReadyAt
  <1>18. mid[Len(with) + 1] = c[2] /\ mid[1] = s1
    BY <1>7 DEF k
  <1>19. Sound(m, dcl, with \o Tail(ts), ChainOf(with, mid, Tail(ts), RestOf(ts, c)), vt, bt, h, b)
    BY <1>5, <1>14, <1>15, <1>16, <1>17, <1>18, Advance
  <1> QED
    BY <1>19 DEF with, y

\* Nothing is left to do for the task.
LEMMA ForkEnds ==
  ASSUME NEW m, NEW dcl, NEW ts, NEW c, NEW vs, NEW bs, NEW h, NEW a,
         Sound(m, dcl, ts, c, vs, bs, h, a), ts # <<>>, ts[1].do # "end",
         NEW bt, NEW S, NEW P, NEW L, NEW vt, Touches(bs, bt, S, P, L, h, h, vs, vt, ts[1], c[1], a),
         NEW b, Heap(m, dcl, bt), Matches(bt, vt, c[2]), IsCurrent(bt, h, vt, b, c[2]),
         b = a \/ b \in Pending(ts[1]) \/ b \notin 1..Len(bs),
         LeftTo(bs, bt, ts[1], a, b, {})
  PROVE  \E c2 : Sound(m, dcl, <<>> \o Tail(ts), c2, vt, bt, h, b)
  <1> DEFINE t == ts[1]
             s == c[1]
             u == c[2]
             with == <<>>
             mid == [k \in 1..1 |-> u]
  <1>1. IsSeq(with) /\ Len(with) = 0 /\ Len(with) + 1 = 1
    BY SeqNone
  <1>2. mid[1] = u
    OBVIOUS
  <1> HIDE DEF with, mid
  <1>3. \A k : k \notin 1..Len(with)
    BY <1>1
  <1>4. Run(m, dcl, with, mid) /\ Goes(bs, bt, h, vt, t, s, u, with, mid, b) /\ mid[Len(with) + 1] = c[2]
    BY <1>1, <1>2, <1>3 DEF Run, Goes
  <1>5. with \o Tail(ts) # <<>>
    BY <1>1, MoreToDo
  <1>6. Saved(t, u) = {}
    BY DEF Saved
  <1>7. Finishes(bs, bt, t, u, a, b, with, Tail(ts))
    <2> SUFFICES ASSUME NEW d \in 1..Len(bt), d = a \/ d \in Held(t, u) \/ d \notin 1..Len(bs)
                 PROVE  Closed(bt, d) \/ d = b
      BY <1>5 DEF Finishes
    <2> QED
      BY <1>6 DEF Held, LeftTo
  <1>8. VarsSound(bt, h)
    <2>1. VarsSound(bs, h)
      BY DEF Sound
    <2> QED
      BY <2>1, VarsExtend DEF Touches
  <1>9. b = a \/ b \in Held(t, u) \/ (b \in 1..Len(bt) /\ b \notin 1..Len(bs)) \/ Tail(ts) = <<>>
    BY DEF Held, IsCurrent, ReadyAt
  <1>10. Sound(m, dcl, with \o Tail(ts), ChainOf(with, mid, Tail(ts), RestOf(ts, c)), vt, bt, h, b)
    BY <1>2, <1>4, <1>7, <1>8, <1>9, Advance
  <1> QED
    BY <1>10 DEF with

-----------------------------------------------------------------------------
(* Blocks are added, and branches lead to them.                              *)

LEMMA KeepsSame ==
  ASSUME NEW bs, NEW vs, NEW s, Matches(bs, vs, s), s.size \in Nat, NEW n \in Int, n <= s.size
  PROVE  Keeps(bs, vs, vs, n)
  <1>1. \A i \in 1..n : i \in 1..s.size
    OBVIOUS
  <1> QED
    BY <1>1 DEF Keeps, Matches, ValueSound

LEMMA BeginsMore ==
  ASSUME NEW m, NEW dcl, NEW t, NEW s, NEW u, NEW vs, NEW bs, NEW h, NEW a, Begins(m, dcl, t, s, u, vs, bs, h, a),
         Pending(t) = {}, t.do # "end", NEW bt, Adds(bs, bt), Heap(m, dcl, bt)
  PROVE  Begins(m, dcl, t, s, u, vs, bt, h, a)
  <1>1. Extends(bs, bt, {}, {}, {})
    BY AddsExtends
  <1>2. BlockShape(bt) /\ Len(bt) \in Nat /\ EdgesInside(bt)
    BY HeapShape, HeapEdges
  <1>3. TaskSound(bt, h, vs, t, s, u) /\ Held(t, u) = {}
    BY PlainSound
  <1>4. VarsSound(bt, h)
    <2>1. VarsSound(bs, h)
      BY DEF Begins
    <2> QED
      BY <1>1, <2>1, VarsExtend
  <1>5. Matches(bs, vs, s) /\ s.size \in Nat /\ a \in 1..Len(bs)
    BY DEF Begins
  <1>6. Matches(bt, vs, s)
    BY <1>1, <1>5, ValueKept DEF Matches
  <1>7. ReadyAt(bt, h, vs, a, s, s.size)
    <2>1. Keeps(bs, vs, vs, s.size) /\ s.size \in 0..s.size
      BY <1>5, KeepsSame
    <2> DEFINE P == {}
    <2>2. Extends(bs, bt, P, P, P) /\ a \notin P /\ P \subseteq Pending(t)
      BY <1>1
    <2> HIDE DEF P
    <2> QED
      BY <2>1, <2>2, ReadyStays
  <1>8. bt[a] = bs[a]
    BY <1>5 DEF Adds
  <1>9. ASSUME NEW l \in s.loops PROVE l \in 1..Len(bt) /\ NoPhi(bt, l) /\ l \notin Pending(t)
    <2>1. l \in 1..Len(bs) /\ NoPhi(bs, l) /\ l \notin Pending(t)
      BY DEF Begins
    <2>2. bt[l] = bs[l] /\ l \in 1..Len(bt)
      BY <1>1, <2>1, ExtendsLen DEF Adds
    <2> QED
      BY <2>1, <2>2 DEF NoPhi
  <1>10. a \in 1..Len(bt)
    BY <1>7 DEF ReadyAt
  <1> QED
    BY <1>2, <1>3, <1>4, <1>6, <1>7, <1>8, <1>9, <1>10 DEF Begins, Closed

Branches(m, dcl, bs, bt, a, i, T) ==
  /\ Emits(bs, a, i) /\ Targets(i) = T /\ Extends(bs, bt, {a}, T, {})
  /\ Len(bt) = Len(bs) /\ Heap(m, dcl, bt) /\ Closed(bt, a)
  /\ \A c \in 1..Len(bs) : c # a => bt[c] = bs[c]
  /\ \A b : Into(bt, b) = IF b \in T THEN Into(bs, b) \cup {a} ELSE Into(bs, b)
  /\ \A c \in 1..Len(bs) : bt[c].function = bs[c].function

LEMMA BranchPlain ==
  ASSUME NEW m, NEW dcl, NEW bs, Heap(m, dcl, bs), BlockShape(bs), NEW a \in 1..Len(bs), ~Closed(bs, a),
         NEW i, i.op = "br", IsSeq(i.args), Uses(bs, i, a), IsSeq(i.to), ToEnds(bs, a, Elements(i.to))
  PROVE  Branches(m, dcl, bs, Emit(bs, a, i), a, i, Elements(i.to))
  <1> DEFINE bt == Emit(bs, a, i)
             T == Elements(i.to)
  <1>1. IsTerminator(i)
    BY DEF IsTerminator, Terminators
  <1>2. Targets(i) = T
    BY <1>1 DEF Targets
  <1>3. BlockShape(bs) /\ a \in 1..Len(bs) /\ ~Closed(bs, a) /\ Heap(m, dcl, bs)
    OBVIOUS
  <1>4. Emits(bs, a, i)
    BY <1>2, <1>3 DEF Emits
  <1>5. \A k \in 1..Len(i.to) : i.to[k] \in T
    BY DEF Elements
  <1> HIDE DEF T
  <1>6. Extends(bs, bt, {a}, T, {})
    <2>1. i.op # "phi"
      OBVIOUS
    <2> DEFINE L == {}
               S == {a}
    <2>2. T = Targets(i) /\ L = {}
      BY <1>2
    <2> HIDE DEF L
    <2>3. Extends(bs, Emit(bs, a, i), {a}, T, L)
      BY <1>4, <2>1, <2>2, EmitExtends
    <2> QED
      BY <2>2, <2>3
  <1>7. \A k \in 1..Len(i.to) : i.to[k] \in 1..Len(bs) /\ bs[i.to[k]].function = bs[a].function
    BY <1>5 DEF ToEnds, T
  <1>8. InstrSound(m, dcl, bs, a, i)
    BY <1>7 DEF InstrSound, Uses
  <1>9. Heap(m, dcl, bt)
    BY <1>3, <1>4, <1>8, HeapEmit
  <1>10. Closed(bt, a)
    BY <1>1, <1>3, EmitClosed
  <1>11. \A b : Into(bt, b) = IF b \in T THEN Into(bs, b) \cup {a} ELSE Into(bs, b)
    BY <1>2, <1>4, EmitInto
  <1>12. Len(bt) = Len(bs) /\ (\A c \in 1..Len(bs) : c # a => bt[c] = bs[c])
         /\ \A c \in 1..Len(bs) : bt[c].function = bs[c].function
    <2>1. BlockShape(bs) /\ a \in 1..Len(bs)
      BY <1>3
    <2> QED
      BY ONLY <2>1, EmitShape
  <1> HIDE DEF bt
  <1>13. Targets(i) = T /\ Extends(bs, bt, {a}, T, {})
    BY <1>2, <1>6
  <1> QED
    <2>1. Branches(m, dcl, bs, bt, a, i, T)
      BY <1>4, <1>9, <1>10, <1>11, <1>12, <1>13 DEF Branches
    <2> QED
      BY <2>1 DEF bt, T

LEMMA BranchEmit ==
  ASSUME NEW m, NEW dcl, NEW t, NEW s, NEW u, NEW vs, NEW bs, NEW h, NEW a, Begins(m, dcl, t, s, u, vs, bs, h, a),
         ~Over(s), NEW i, i.op = "br", IsSeq(i.args), Uses(bs, i, a), IsSeq(i.to), ToEnds(bs, a, Elements(i.to))
  PROVE  Branches(m, dcl, bs, Emit(bs, a, i), a, i, Elements(i.to))
  <1>1. BlockShape(bs) /\ a \in 1..Len(bs) /\ ~Closed(bs, a) /\ Heap(m, dcl, bs)
    BY DEF Begins
  <1> QED
    BY <1>1, BranchPlain

\* A block that nothing led to is as good as the one the branch comes from.
LEMMA BranchReady ==
  ASSUME NEW m, NEW dcl, NEW t, NEW s, NEW u, NEW vs, NEW bs, NEW h, NEW a, Begins(m, dcl, t, s, u, vs, bs, h, a),
         NEW i, Emits(bs, a, i), NEW b \in 1..Len(bs), bs[b].function = s.fn, Into(bs, b) = {}, b # EntryOf(bs, s.fn)
  PROVE  ReadyAt(Emit(bs, a, i), h, vs, b, s, s.size) /\ ReadyAt(bs, h, vs, b, s, s.size)
  <1>1. InPlace(bs, vs, s.size)
    BY MatchesInPlace DEF Begins
  <1>2. VarsSound(bs, h) /\ ReadyAt(bs, h, vs, a, s, s.size) /\ s.loops \subseteq 1..Len(bs)
        /\ Len(bs) \in Nat /\ EdgesInside(bs)
    BY DEF Begins
  <1>3. ReadyAt(bs, h, vs, b, s, s.size)
    BY <1>1, <1>2, ReadyUnreached
  <1>4. ReadyAt(Emit(bs, a, i), h, vs, b, s, s.size)
    BY <1>1, <1>2, <1>3, ReadyEmit
  <1> QED
    BY <1>3, <1>4

LEMMA DroppedFacts ==
  ASSUME NEW s, s.size \in Nat, NEW n \in Nat, n <= s.size, NEW ids
  PROVE  LET r == Dropped(s, n, ids)
         IN /\ Drops(s, r, n) /\ r.size = s.size - n /\ r.size \in Nat /\ r.fn = s.fn /\ r.vars = ids
            /\ r.loops = s.loops /\ r.inside /\ r.stack = s.stack
  BY DEF Dropped, Drops

\* The uppermost value is used up, and the builder at another block.
LEMMA CurrentDrops ==
  ASSUME NEW m, NEW dcl, NEW t, NEW s, NEW u, NEW vs, NEW bs, NEW h, NEW a, Begins(m, dcl, t, s, u, vs, bs, h, a),
         NEW bt, NEW S, NEW P, NEW L, Extends(bs, bt, S, P, L), NEW n \in Nat, NEW r, Drops(s, r, n), ~Over(r),
         r.fn = s.fn, r.loops \subseteq s.loops, r.vars \subseteq s.vars,
         NEW b, ReadyAt(bt, h, vs, b, s, s.size), ~Closed(bt, b)
  PROVE  LET vt == Swapped(vs, n, <<>>)
         IN IsCurrent(bt, h, vt, b, r) /\ Matches(bt, vt, r) /\ Keeps(bs, vs, vt, s.size - n)
  <1> DEFINE vt == Swapped(vs, n, <<>>)
  <1>1. s.size \in Nat /\ Matches(bs, vs, s) /\ n <= s.size /\ r.size = s.size - n
    BY DEF Begins, Drops
  <1>2. vt = Swapped(vs, n, <<>>)
    OBVIOUS
  <1> HIDE DEF vt
  <1>3. Matches(bt, vt, r) /\ Keeps(bs, vs, vt, s.size - n)
    BY <1>1, <1>2, MatchesDrops
  <1>4. Len(vt) = s.size - n
    BY <1>1, <1>3 DEF Matches
  <1>5. \A i \in 1..s.size - n : FromBelow(vt, i) = FromBelow(vs, i)
    BY <1>3 DEF Keeps
  <1>6. s.size - n \in Int /\ s.size - n <= s.size /\ s.size \in Int
    BY <1>1
  <1> DEFINE k == s.size - n
             j == s.size
  <1>7. ReadyAt(bt, h, vt, b, r, k)
    <2>1. k \in Int /\ k <= j /\ j \in Int /\ ReadyAt(bt, h, vs, b, s, j) /\ \A i \in 1..k : FromBelow(vt, i) = FromBelow(vs, i)
      BY <1>5, <1>6
    <2> HIDE DEF k, j
    <2> QED
      BY <2>1, ReadyLess
  <1> QED
    BY <1>2, <1>3, <1>4, <1>7 DEF IsCurrent

\* A block that nothing has been put into, and that is not the first one.
Open(bs, f, d) ==
  d \in 1..Len(bs) /\ bs[d].function = f /\ bs[d].code = <<>> /\ d # EntryOf(bs, f)

LEMMA OpenEmit ==
  ASSUME NEW bs, BlockShape(bs), NEW a \in 1..Len(bs), NEW i, NEW f, NEW d, Open(bs, f, d), d # a
  PROVE  Open(Emit(bs, a, i), f, d)
  <1> DEFINE bt == Emit(bs, a, i)
  <1>1. /\ BlockShape(bt) /\ Len(bt) = Len(bs) /\ Len(bs) \in Nat
        /\ \A c \in 1..Len(bs) : bt[c].function = bs[c].function
        /\ \A c \in 1..Len(bs) : c # a => bt[c] = bs[c]
        /\ Len(bt[a].code) = Len(bs[a].code) + 1 /\ Len(bs[a].code) \in Nat
        /\ \A k \in 1..Len(bs[a].code) : bt[a].code[k] = bs[a].code[k]
        /\ bt[a].code[Len(bs[a].code) + 1] = i
        /\ bt[a].code # <<>>
    BY EmitShape
  <1> HIDE DEF bt
  <1>2. d \in 1..Len(bs) /\ bs[d].function = f
    BY DEF Open
  <1>3. EntryOf(bt, bs[d].function) = EntryOf(bs, bs[d].function)
    <2>1. Len(bs) \in Nat /\ Len(bt) \in Nat /\ Len(bs) <= Len(bt)
      BY <1>1
    <2> QED
      BY <1>1, <1>2, <2>1, EntryStays
  <1>4. Open(bt, f, d)
    BY <1>1, <1>2, <1>3 DEF Open
  <1> QED
    BY <1>4 DEF bt

\* The three blocks that a branch is made with.
AreNew(bs, bt, f, b) ==
  /\ b[1] # b[2] /\ b[1] # b[3] /\ b[2] # b[3]
  /\ \A d \in {b[1], b[2], b[3]} : Open(bt, f, d) /\ d \notin 1..Len(bs) /\ Into(bt, d) = {}
  /\ \A d \in 1..Len(bt) : d \notin 1..Len(bs) => d \in {b[1], b[2], b[3]}

LEMMA ThreeBlocks ==
  ASSUME NEW m, NEW dcl, NEW t, NEW s, NEW u, NEW vs, NEW bs, NEW h, NEW a, Begins(m, dcl, t, s, u, vs, bs, h, a),
         Pending(t) = {}, t.do # "end"
  PROVE  LET bt == WithBlocks(bs, bs[a].function, 3)
         IN /\ Begins(m, dcl, t, s, u, vs, bt, h, a) /\ Extends(bs, bt, {}, {}, {}) /\ Heap(m, dcl, bt)
            /\ AreNew(bs, bt, s.fn, NewBlocks(bs, 3))
  <1> DEFINE f == bs[a].function
             bt == WithBlocks(bs, f, 3)
             b == NewBlocks(bs, 3)
  <1>1. Heap(m, dcl, bs) /\ f \in dcl /\ f = s.fn /\ a \in 1..Len(bs) /\ Len(bs) \in Nat
    BY DEF Begins
  <1>2. b[1] = Len(bs) + 1 /\ b[2] = Len(bs) + 2 /\ b[3] = Len(bs) + 3
    BY DEF NewBlocks
  <1> HIDE DEF f, b
  <1>3. /\ Adds(bs, bt) /\ Heap(m, dcl, bt) /\ Len(bt) = Len(bs) + 3
        /\ \A c \in Len(bs) + 1..Len(bs) + 3 : bt[c].function = f /\ bt[c].code = <<>>
    <2>1. Adds(bs, bt) /\ Heap(m, dcl, bt) /\ NewAt(bs, bt, f, 3)
      BY <1>1, WithBlocksAdds
    <2> HIDE DEF bt
    <2> QED
      BY <2>1 DEF NewAt
  <1> HIDE DEF bt
  <1>4. Begins(m, dcl, t, s, u, vs, bt, h, a)
    BY <1>3, BeginsMore
  <1>5. Extends(bs, bt, {}, {}, {}) /\ EntryOf(bt, f) = EntryOf(bs, f)
    BY <1>1, <1>3, AddsExtends DEF f
  <1>6. EntryOf(bs, f) \in 1..Len(bs)
    BY <1>1, EntryExists DEF f
  <1>7. b[1] # b[2] /\ b[1] # b[3] /\ b[2] # b[3]
    BY <1>1, <1>2
  <1>8. \A d : d \in {b[1], b[2], b[3]} <=> d \in Len(bs) + 1..Len(bs) + 3
    BY <1>1, <1>2
  <1>9. \A d \in Len(bs) + 1..Len(bs) + 3 : d \in 1..Len(bt) /\ d \notin 1..Len(bs)
    BY <1>1, <1>3
  <1>10. \A d \in 1..Len(bt) : d \notin 1..Len(bs) => d \in Len(bs) + 1..Len(bs) + 3
    BY <1>1, <1>3
  <1>11. ASSUME NEW d \in {b[1], b[2], b[3]} PROVE Open(bt, f, d) /\ d \notin 1..Len(bs) /\ Into(bt, d) = {}
    <2>1. d \in Len(bs) + 1..Len(bs) + 3
      BY <1>8
    <2>2. d \in 1..Len(bt) /\ d \notin 1..Len(bs) /\ bt[d].function = f /\ bt[d].code = <<>>
      BY <1>3, <1>9, <2>1
    <2>3. Into(bt, d) = {}
      BY <1>3, <2>2, AddsInto
    <2> QED
      BY <1>5, <1>6, <2>2, <2>3 DEF Open
  <1>12. AreNew(bs, bt, s.fn, b)
    BY <1>1, <1>7, <1>8, <1>10, <1>11 DEF AreNew
  <1> QED
    BY <1>3, <1>4, <1>5, <1>12 DEF bt, b, f

\* A branch to blocks that are open.
IsBranch(bs, f, i, a, T) ==
  /\ i.op = "br" /\ IsSeq(i.args) /\ Uses(bs, i, a) /\ IsSeq(i.to) /\ Elements(i.to) = T
  /\ \A d \in T : Open(bs, f, d) /\ d # a

\* The builder goes on in block b, without n of the values.
Arrives(m, dcl, bs, bt, h, vs, vt, s, r, n, a, b, T) ==
  /\ IsCurrent(bt, h, vt, b, r) /\ Matches(bt, vt, r) /\ Keeps(bs, vs, vt, s.size - n)
  /\ Extends(bs, bt, {a}, T, {}) /\ Heap(m, dcl, bt) /\ Closed(bt, a) /\ Len(bt) = Len(bs)
  /\ \A d \in T : Into(bs, d) = {} => ReadyAt(bt, h, vt, d, r, s.size - n)
  /\ \A d : Open(bs, s.fn, d) /\ d # a => Open(bt, s.fn, d)
  /\ \A d : d \notin T => Into(bt, d) = Into(bs, d)

\* The builder goes on in a block that it has made a branch to.
LEMMA BranchTo ==
  ASSUME NEW m, NEW dcl, NEW t, NEW s, NEW u, NEW vs, NEW bs, NEW h, NEW a, Begins(m, dcl, t, s, u, vs, bs, h, a),
         ~Over(s), NEW i, NEW T, IsBranch(bs, s.fn, i, a, T), NEW b \in T, Into(bs, b) = {},
         NEW n \in Nat, NEW r, Drops(s, r, n), ~Over(r), r.fn = s.fn, r.loops \subseteq s.loops, r.vars \subseteq s.vars
  PROVE  Arrives(m, dcl, bs, Emit(bs, a, i), h, vs, Swapped(vs, n, <<>>), s, r, n, a, b, T)
  <1> DEFINE bt == Emit(bs, a, i)
             vt == Swapped(vs, n, <<>>)
             k == s.size - n
             j == s.size
  <1>1. BlockShape(bs) /\ a \in 1..Len(bs) /\ bs[a].function = s.fn /\ s.size \in Nat
    BY DEF Begins
  <1>a. /\ i.op = "br" /\ IsSeq(i.args) /\ Uses(bs, i, a) /\ IsSeq(i.to) /\ Elements(i.to) = T
        /\ \A d \in T : Open(bs, s.fn, d) /\ d # a
    BY DEF IsBranch
  <1>2. ToEnds(bs, a, T)
    BY <1>1, <1>a DEF Open, ToEnds
  <1>3. /\ Emits(bs, a, i) /\ Targets(i) = T /\ Extends(bs, bt, {a}, T, {})
        /\ Len(bt) = Len(bs) /\ Heap(m, dcl, bt) /\ Closed(bt, a)
        /\ \A c \in 1..Len(bs) : c # a => bt[c] = bs[c]
        /\ \A d : Into(bt, d) = IF d \in T THEN Into(bs, d) \cup {a} ELSE Into(bs, d)
        /\ \A c \in 1..Len(bs) : bt[c].function = bs[c].function
    <2>1. ToEnds(bs, a, Elements(i.to))
      BY <1>2, <1>a
    <2>2. Branches(m, dcl, bs, bt, a, i, Elements(i.to))
      BY <1>a, <2>1, BranchEmit
    <2>3. Branches(m, dcl, bs, bt, a, i, T)
      BY <1>a, <2>2
    <2> HIDE DEF bt
    <2> QED
      BY <2>3 DEF Branches
  <1>4. \A d : Open(bs, s.fn, d) /\ d # a => Open(bt, s.fn, d)
    BY <1>1, OpenEmit
  <1>5. \A d \in T : Into(bs, d) = {} => ReadyAt(bt, h, vs, d, s, j)
    BY <1>3, <1>a, BranchReady DEF Open
  <1> HIDE DEF bt, vt
  <1>6. ReadyAt(bt, h, vs, b, s, j) /\ b # a /\ bs[b].code = <<>> /\ b \in 1..Len(bs)
    BY <1>5, <1>a DEF Open
  <1>7. ~Closed(bt, b)
    BY <1>3, <1>6 DEF Closed
  <1>8. IsCurrent(bt, h, vt, b, r) /\ Matches(bt, vt, r) /\ Keeps(bs, vs, vt, s.size - n)
    <2> DEFINE S == {a}
               L == {}
    <2>1. Extends(bs, bt, S, T, L) /\ ReadyAt(bt, h, vs, b, s, s.size)
      BY <1>3, <1>6
    <2> HIDE DEF S, L
    <2> QED
      BY <1>7, <2>1, CurrentDrops DEF vt
  <1>9. ASSUME NEW d \in T, Into(bs, d) = {} PROVE ReadyAt(bt, h, vt, d, r, k)
    <2>1. ReadyAt(bt, h, vs, d, s, j)
      BY <1>5, <1>9
    <2>2. k \in Int /\ k <= j /\ j \in Int
      BY <1>1
    <2>3. \A l \in 1..k : FromBelow(vt, l) = FromBelow(vs, l)
      BY <1>8 DEF Keeps
    <2> HIDE DEF k, j
    <2> QED
      BY <2>1, <2>2, <2>3, ReadyLess
  <1>10. \A d \in T : Into(bs, d) = {} => ReadyAt(bt, h, vt, d, r, s.size - n)
    BY <1>9
  <1>11. \A d : d \notin T => Into(bt, d) = Into(bs, d)
    BY <1>3
  <1>12. Extends(bs, bt, {a}, T, {}) /\ Heap(m, dcl, bt) /\ Closed(bt, a) /\ Len(bt) = Len(bs)
    BY <1>3
  <1> HIDE DEF k, j
  <1> QED
    BY <1>4, <1>8, <1>10, <1>11, <1>12 DEF bt, vt, Arrives

-----------------------------------------------------------------------------
(* if.                                                                       *)

LEMMA ForkFields ==
  ASSUME NEW do, NEW e, NEW b, NEW incoming
  PROVE  /\ LET z == [Task(do, e) EXCEPT !.blocks = b]
            IN z.do = do /\ z.node = e /\ z.blocks = b /\ z.incoming = <<>>
         /\ LET z == [Task(do, e) EXCEPT !.blocks = b, !.incoming = incoming]
            IN z.do = do /\ z.node = e /\ z.blocks = b /\ z.incoming = incoming
  BY DEF Task

\* The state behind an expression, with its value.
IsOnto(s, e, ids, r) ==
  /\ TopIs(r, 1, e.type) /\ r.size = s.size + 1 /\ r.size \in Nat /\ r.fn = s.fn /\ r.vars = ids
  /\ r.loops = s.loops /\ r.inside /\ s.vars \subseteq ids /\ ~Over(Dropped(r, 1, r.vars))
  /\ \A i \in 1..s.size : r.stack[i] = s.stack[i]
MayStart(m, dcl, s, e, ids) ==
  /\ s.inside /\ s.size \in Nat /\ s.fn \in dcl /\ ~Over(s) /\ Inner(m, s.fn, s.vars, e, ids)

LEMMA Onto ==
  ASSUME NEW m \in Modules, NEW dcl, NEW s, NEW e, NEW ids, MayStart(m, dcl, s, e, ids)
  PROVE  LET r == Pushed(s, 0, e.type, ids)
         IN Starts(m, dcl, s.size, e, s, r) /\ IsOnto(s, e, ids, r)
  <1> DEFINE r == Pushed(s, 0, e.type, ids)
  <1>1. s.size \in Nat /\ 0 <= s.size /\ 0 \in Nat
    BY DEF MayStart
  <1>2. /\ Gives(s, r, 0, e.type) /\ TopIs(r, 1, e.type) /\ r.size = s.size - 0 + 1 /\ r.size \in Nat
        /\ r.fn = s.fn /\ r.vars = ids /\ r.loops = s.loops /\ r.inside
    BY <1>1, PushedFacts
  <1> HIDE DEF r
  <1>3. s.vars \subseteq ids
    BY InnerGrows DEF MayStart
  <1>4. ~Over(Dropped(r, 1, r.vars))
    BY <1>2, UnderGiven DEF MayStart
  <1>5. \A i \in 1..s.size : r.stack[i] = s.stack[i]
    <2>1. s.size - 0 = s.size
      BY <1>1
    <2> QED
      BY <1>2, <2>1 DEF Gives
  <1>6. r.size = s.size + 1
    BY <1>1, <1>2
  <1>7. IsOnto(s, e, ids, r)
    BY <1>2, <1>3, <1>4, <1>5, <1>6 DEF IsOnto
  <1>8. s.size \in Int /\ s.size <= s.size
    BY <1>1
  <1>9. Starts(m, dcl, s.size, e, s, r)
    BY <1>2, <1>8 DEF Starts, MayStart
  <1> QED
    BY <1>7, <1>9 DEF r

LEMMA OntoThen ==
  ASSUME NEW s, s.size \in Nat, NEW e, NEW ids, NEW r, IsOnto(s, e, ids, r), NEW u
  PROVE  /\ \A type : Gives(s, u, 0, type) => Gives(r, u, 1, type)
         /\ Drops(s, u, 0) => Drops(r, u, 1)
  <1>1. s.size - 0 = s.size /\ r.size - 1 = s.size /\ 1 <= r.size
    BY DEF IsOnto
  <1>2. r.fn = s.fn /\ \A i \in 1..s.size : r.stack[i] = s.stack[i]
    BY DEF IsOnto
  <1>3. ASSUME NEW type, Gives(s, u, 0, type) PROVE Gives(r, u, 1, type)
    BY <1>1, <1>2, <1>3 DEF Gives
  <1>4. Drops(s, u, 0) => Drops(r, u, 1)
    BY <1>1, <1>2 DEF Drops
  <1> QED
    BY <1>3, <1>4

LEMMA DropThen ==
  ASSUME NEW s, s.size \in Nat, NEW u, NEW type, Gives(s, u, 1, type), NEW ids
  PROVE  Gives(Dropped(s, 1, ids), u, 0, type)
  <1> DEFINE r == Dropped(s, 1, ids)
  <1>1. r.size = s.size - 1 /\ r.stack = s.stack /\ r.fn = s.fn
    BY DEF Dropped
  <1> HIDE DEF r
  <1>2. 1 <= s.size /\ u.size = s.size - 1 + 1 /\ u.stack[u.size] = Typed(type, s.fn)
        /\ \A i \in 1..s.size - 1 : u.stack[i] = s.stack[i]
    BY DEF Gives
  <1>3. 0 <= r.size /\ r.size - 0 = s.size - 1 /\ u.size = r.size - 0 + 1
    BY <1>1, <1>2
  <1>4. Gives(r, u, 0, type)
    BY <1>1, <1>2, <1>3 DEF Gives
  <1> QED
    BY <1>4 DEF r

LEMMA BeginsCurrent ==
  ASSUME NEW m, NEW dcl, NEW t, NEW s, NEW u, NEW vs, NEW bs, NEW h, NEW a, Begins(m, dcl, t, s, u, vs, bs, h, a)
  PROVE  IsCurrent(bs, h, vs, a, s) /\ Matches(bs, vs, s)
  BY DEF Begins, IsCurrent

LEMMA IfParts ==
  ASSUME NEW m \in Modules, NEW dcl, NEW ts, NEW c, NEW vs, NEW bs, NEW h, NEW a,
         Sound(m, dcl, ts, c, vs, bs, h, a), ts # <<>>, ts[1].do = "generate", ts[1].node.kind = "if"
  PROVE  LET e == ts[1].node
             bt == WithBlocks(bs, bs[a].function, 3)
             with == GenerateValue(e.subs[1]) \o <<[Task("branch", e) EXCEPT !.blocks = NewBlocks(bs, 3)]>>
         IN \E c2 : Sound(m, dcl, with \o Tail(ts), c2, vs, bt, h, a)
  <1> DEFINE t == ts[1]
             s == c[1]
             u == c[2]
             e == t.node
             e1 == e.subs[1]
             bt == WithBlocks(bs, bs[a].function, 3)
             b == NewBlocks(bs, 3)
             z == [Task("branch", e) EXCEPT !.blocks = b]
             r == Pushed(s, 0, e1.type, u.vars)
             x == GenerateValue(e1)
  <1>1. /\ Starts(m, dcl, s.size, e, s, u) /\ Inner(m, s.fn, s.vars, e, u.vars) /\ s.vars \subseteq u.vars
        /\ s.size \in Nat /\ Gives(s, u, 0, e.type)
    BY Generating1
  <1>2. /\ Inner(m, s.fn, s.vars, e1, u.vars) /\ e1.type = "bool" /\ e.type \in ValueTypes
        /\ \E after : Inner(m, s.fn, u.vars, e.subs[2], after)
        /\ \E after : Inner(m, s.fn, u.vars, e.subs[3], after)
        /\ \A i \in 2..3 : e.subs[i].type \in {e.type, "never"}
        /\ \E i \in 2..3 : e.subs[i].type # "never"
    BY <1>1, ForkTyped, SMTT(30)
  <1>3. e1.type \in ValueTypes
    BY <1>2, TypeFacts
  <1>4. z.do = "branch" /\ z.node = e /\ z.blocks = b
    BY ForkFields
  <1>5. Begins(m, dcl, t, s, u, vs, bs, h, a) /\ Pending(t) = {} /\ t.do # "end" /\ Under(t, s) = s.size
    <2>1. Pops(t) = 0 /\ Pending(t) = {}
      BY DEF Pops, Pending
    <2> QED
      BY <1>1, <2>1, Start DEF Under
  <1>6. /\ Begins(m, dcl, t, s, u, vs, bt, h, a) /\ Extends(bs, bt, {}, {}, {}) /\ Heap(m, dcl, bt)
        /\ AreNew(bs, bt, s.fn, b)
    BY <1>5, ThreeBlocks
  <1> HIDE DEF bt, b, z
  <1>7. MayStart(m, dcl, s, e1, u.vars)
    BY <1>1, <1>2 DEF MayStart, Starts
  <1>8. Starts(m, dcl, s.size, e1, s, r) /\ IsOnto(s, e1, u.vars, r)
    BY <1>7, Onto
  <1>9. Path(m, dcl, s.size, x, s, r)
    BY <1>3, <1>8, PathValue
  <1> HIDE DEF r, x
  <1>10. Pending(z) = {b[1], b[2], b[3]} /\ Unreached(z) = Pending(z) /\ Awaited(z, u) = {} /\ Saved(z, u) = {}
         /\ Pops(z) = 1 /\ z.do # "end"
    BY <1>4 DEF Pending, Unreached, Awaited, Saved, Pops
  <1>11. Rule(m, dcl, z, r, u)
    <2>1. Gives(r, u, 1, e.type)
      BY <1>1, <1>8, OntoThen
    <2>2. RuleParts(m, z, r, u, e)
      <3>1. \A i \in 2..3 : e.subs[i].type \in {e.type, "never"} /\ \E after : Inner(m, s.fn, u.vars, e.subs[i], after)
        <4>1. \A i \in 2..3 : i = 2 \/ i = 3
          OBVIOUS
        <4> QED
          BY <1>2, <4>1
      <3>2. r.fn = s.fn /\ r.vars = u.vars /\ TopIs(r, 1, "bool") /\ ~Over(Dropped(r, 1, r.vars))
        BY <1>2, <1>8 DEF IsOnto
      <3> QED
        BY <1>2, <1>4, <2>1, <3>1, <3>2 DEF RuleParts
    <2>3. RuleValue(z, r, u, e) /\ RuleFunction(m, dcl, z, r, u, e)
      BY <1>4 DEF RuleValue, RuleFunction
    <2>4. z.do \in Tasks /\ z.do \notin {"body", "again"}
      BY <1>4 DEF Tasks, Forks
    <2>5. r.inside /\ r.size \in Nat /\ r.fn \in dcl /\ u.fn = r.fn /\ u.inside /\ u.loops \subseteq r.loops
      BY <1>1, <1>8 DEF Starts, IsOnto
    <2> QED
      BY <1>4, <2>2, <2>3, <2>4, <2>5 DEF Rule
  <1>12. TaskSound(bt, h, vs, z, r, u)
    <2>1. \A d \in Pending(z) : Open(bt, s.fn, d) /\ Into(bt, d) = {}
      BY <1>6, <1>10 DEF AreNew
    <2>2. r.fn = s.fn
      BY <1>8 DEF IsOnto
    <2>3. b[1] # b[2] /\ b[1] # b[3] /\ b[2] # b[3]
      BY <1>6 DEF AreNew
    <2> QED
      BY <1>4, <1>10, <2>1, <2>2, <2>3 DEF TaskSound, Open
  <1>13. Under(z, r) = s.size
    BY <1>1, <1>8, <1>10 DEF Under, IsOnto
  <1>14. Waits(bs, bt, h, vs, t, s, u, z, r, s, a)
    <2>1. a \in 1..Len(bs)
      BY <1>5 DEF Begins
    <2>2. \A d \in Pending(z) : d # a /\ d \notin 1..Len(bs)
      BY <1>6, <1>10, <2>1 DEF AreNew
    <2>3. r.fn = s.fn /\ s.vars \subseteq r.vars /\ r.loops = s.loops
      BY <1>8 DEF IsOnto
    <2> QED
      BY <1>5, <1>10, <1>12, <1>13, <2>2, <2>3 DEF Waits
  <1>15. Touches(bs, bt, {}, {}, {}, h, h, vs, vs, t, s, a)
    <2>1. Keeps(bs, vs, vs, s.size)
      BY <1>1, <1>5, KeepsSame DEF Begins
    <2> QED
      BY <1>5, <1>6, <2>1 DEF Touches
  <1>16. LeftTo(bs, bt, t, a, a, Pending(z))
    BY <1>5, <1>6, <1>10 DEF LeftTo, AreNew
  <1>17. IsCurrent(bt, h, vs, a, s) /\ Matches(bt, vs, s)
    BY <1>6, BeginsCurrent
  <1>18. \E c2 : Sound(m, dcl, (x \o <<z>>) \o Tail(ts), c2, vs, bt, h, a)
    <2> DEFINE S == {}
    <2>1. Touches(bs, bt, S, S, S, h, h, vs, vs, ts[1], c[1], a) /\ Path(m, dcl, Under(ts[1], c[1]), x, s, r)
      BY <1>5, <1>9, <1>15
    <2> HIDE DEF S
    <2> QED
      BY <1>5, <1>6, <1>11, <1>14, <1>16, <1>17, <2>1, ForkStep
  <1> QED
    BY <1>18 DEF x, z, b, bt

LEMMA ElementsOne ==
  ASSUME NEW x
  PROVE  IsSeq(<<x>>) /\ Elements(<<x>>) = {x} /\ Len(<<x>>) = 1 /\ <<x>>[1] = x
  <1>1. IsSeq(<<x>>) /\ Len(<<x>>) = 1 /\ <<x>>[1] = x
    BY SeqOne
  <1> DEFINE l == <<x>>
  <1>2. Len(l) = 1 /\ l[1] = x
    BY <1>1
  <1> HIDE DEF l
  <1>3. Elements(l) = {x}
    BY <1>2 DEF Elements
  <1> QED
    BY <1>1, <1>3 DEF l

LEMMA ElementsTwo ==
  ASSUME NEW x, NEW y
  PROVE  IsSeq(<<x, y>>) /\ Elements(<<x, y>>) = {x, y} /\ Len(<<x, y>>) = 2 /\ <<x, y>>[1] = x /\ <<x, y>>[2] = y
  <1>1. IsSeq(<<x, y>>) /\ Len(<<x, y>>) = 2 /\ <<x, y>>[1] = x /\ <<x, y>>[2] = y
    BY SeqTwo
  <1> DEFINE l == <<x, y>>
  <1>2. Len(l) = 2 /\ l[1] = x /\ l[2] = y
    BY <1>1
  <1> HIDE DEF l
  <1>3. Elements(l) = {x, y}
    <2>1. \A i : i \in 1..Len(l) <=> i = 1 \/ i = 2
      BY <1>2
    <2> QED
      BY <1>2, <2>1 DEF Elements
  <1> QED
    BY <1>1, <1>3 DEF l

\* The branches there are.
LEMMA CondBranch ==
  ASSUME NEW bs, NEW a, NEW v, UseSound(bs, v, a), NEW f, NEW x, NEW y,
         Open(bs, f, x), Open(bs, f, y), x # a, y # a, NEW i, i = CondBr(v, x, y)
  PROVE  IsBranch(bs, f, i, a, {x, y})
  <1>1. i.op = "br" /\ i.args = <<v>> /\ i.to = <<x, y>>
    BY InstrFields DEF CondBr
  <1>2. IsSeq(i.args) /\ Len(i.args) = 1 /\ i.args[1] = v /\ IsSeq(i.to) /\ Elements(i.to) = {x, y}
    BY <1>1, ElementsOne, ElementsTwo
  <1>3. Uses(bs, i, a)
    BY <1>2 DEF Uses
  <1> QED
    BY <1>1, <1>2, <1>3 DEF IsBranch

LEMMA Branch ==
  ASSUME NEW bs, NEW a, NEW f, NEW x, Open(bs, f, x), x # a, NEW i, i = Br(x)
  PROVE  IsBranch(bs, f, i, a, {x})
  <1>1. i.op = "br" /\ i.args = <<>> /\ i.to = <<x>>
    BY InstrFields DEF Br
  <1>2. IsSeq(i.args) /\ Len(i.args) = 0 /\ IsSeq(i.to) /\ Elements(i.to) = {x}
    BY <1>1, ElementsOne, SeqNone
  <1>3. Uses(bs, i, a)
    BY <1>2 DEF Uses
  <1> QED
    BY <1>1, <1>2, <1>3 DEF IsBranch

LEMMA PairCat ==
  ASSUME NEW p, NEW q
  PROVE  <<p>> \o <<q>> = <<p, q>>
  <1> DEFINE l == <<p>>
             k == <<q>>
             j == <<p, q>>
             lk == l \o k
  <1>1. IsSeq(l) /\ Len(l) = 1 /\ l[1] = p /\ IsSeq(k) /\ Len(k) = 1 /\ k[1] = q
    BY SeqOne
  <1>2. IsSeq(j) /\ Len(j) = 2 /\ j[1] = p /\ j[2] = q
    BY SeqTwo
  <1> HIDE DEF l, k, j
  <1>3. /\ IsSeq(lk) /\ Len(lk) = Len(l) + Len(k)
        /\ \A i \in 1..Len(l) : lk[i] = l[i]
        /\ \A i \in 1..Len(k) : lk[Len(l) + i] = k[i]
    <2>1. IsSeq(l) /\ IsSeq(k)
      BY <1>1
    <2> QED
      BY ONLY <2>1, SeqCat
  <1> HIDE DEF lk
  <1>4. Len(lk) = 2 /\ lk[1] = p /\ lk[2] = q
    <2>1. 1 \in 1..1
      OBVIOUS
    <2>2. lk[1] = l[1] /\ lk[1 + 1] = k[1] /\ Len(lk) = 1 + 1
      BY <1>1, <1>3, <2>1
    <2> QED
      BY <1>1, <2>2
  <1>5. \A i \in 1..Len(lk) : lk[i] = j[i]
    <2>1. \A i \in 1..Len(lk) : i = 1 \/ i = 2
      BY <1>4
    <2> QED
      BY <1>2, <1>4, <2>1
  <1>6. lk = j
    BY <1>2, <1>3, <1>4, <1>5, SeqSame
  <1> QED
    BY <1>6 DEF lk, l, k, j

\* The blocks of a task that waits with them.
LEMMA PendingOpen ==
  ASSUME NEW m, NEW dcl, NEW t, NEW s, NEW u, NEW vs, NEW bs, NEW h, NEW a, Begins(m, dcl, t, s, u, vs, bs, h, a)
  PROVE  /\ \A d \in Pending(t) : Open(bs, s.fn, d) /\ d # a
         /\ \A d \in Unreached(t) : Into(bs, d) = {}
         /\ \A d \in Awaited(t, u) : ReadyAt(bs, h, vs, d, u, Under(t, s))
         /\ t.do \in Forks =>
              t.blocks[1] # t.blocks[2] /\ t.blocks[1] # t.blocks[3] /\ t.blocks[2] # t.blocks[3]
  BY DEF Begins, TaskSound, Open, Held

\* The condition is there.
LEMMA BranchStep ==
  ASSUME NEW m \in Modules, NEW dcl, NEW ts, NEW c, NEW vs, NEW bs, NEW h, NEW a,
         Sound(m, dcl, ts, c, vs, bs, h, a), ts # <<>>, ts[1].do = "branch"
  PROVE  LET e == ts[1].node
             b == ts[1].blocks
             bt == Emit(bs, a, CondBr(vs[1], b[1], b[2]))
             with == <<Generate(e.subs[2]), [Task("alternate", e) EXCEPT !.blocks = b]>>
         IN \E c2 : Sound(m, dcl, with \o Tail(ts), c2, Swapped(vs, 1, <<>>), bt, h, b[1])
  <1> DEFINE t == ts[1]
             s == c[1]
             u == c[2]
             e == t.node
             b == t.blocks
             i == CondBr(vs[1], b[1], b[2])
             bt == Emit(bs, a, i)
             vt == Swapped(vs, 1, <<>>)
             z == [Task("alternate", e) EXCEPT !.blocks = b]
             s1 == Dropped(s, 1, s.vars)
             x == <<Generate(e.subs[2])>>
  <1>1. /\ Begins(m, dcl, t, s, u, vs, bs, h, a) /\ RuleParts(m, t, s, u, e) /\ s.inside /\ s.fn \in dcl
        /\ s.size \in Nat /\ u.fn = s.fn /\ u.inside /\ u.loops \subseteq s.loops /\ t.do # "end"
    BY FirstRule DEF Rule
  <1>2. /\ TopIs(s, 1, "bool") /\ Gives(s, u, 1, e.type) /\ u.vars = s.vars /\ e.type \in ValueTypes
        /\ e.subs[2].type \in {e.type, "never"} /\ e.subs[3].type \in {e.type, "never"}
        /\ \E after : Inner(m, s.fn, s.vars, e.subs[2], after)
        /\ \E after : Inner(m, s.fn, s.vars, e.subs[3], after)
        /\ e.subs[2].type # "never" \/ e.subs[3].type # "never"
        /\ ~Over(Dropped(s, 1, s.vars))
    <2>1. \A k \in 2..3 : k = 2 \/ k = 3
      OBVIOUS
    <2>2. 2 \in 2..3 /\ 3 \in 2..3
      OBVIOUS
    <2> QED
      BY <1>1, <2>1, <2>2 DEF RuleParts
  <1>3. PICK after : Inner(m, s.fn, s.vars, e.subs[2], after)
    BY <1>2
  <1> DEFINE r == Pushed(s1, 0, e.subs[2].type, after)
  <1>4. z.do = "alternate" /\ z.node = e /\ z.blocks = b
    BY ForkFields
  <1>5. Pending(t) = {b[1], b[2], b[3]} /\ Unreached(t) = {b[1], b[2], b[3]} /\ Pops(t) = 1 /\ Under(t, s) = s.size - 1
    BY DEF Pending, Unreached, Pops, Under
  <1>6. /\ \A d \in {b[1], b[2], b[3]} : Open(bs, s.fn, d) /\ d # a /\ Into(bs, d) = {}
        /\ b[1] # b[2] /\ b[1] # b[3] /\ b[2] # b[3]
    BY <1>1, <1>5, PendingOpen, ZenonT(30) DEF Forks
  <1>7. 1 <= s.size /\ UseSound(bs, vs[1], a) /\ ~Over(s)
    <2>1. "bool" \in ValueTypes
      BY TypeFacts
    <2>2. 1 \in Nat \ {0}
      OBVIOUS
    <2>3. /\ 1 \in 1..s.size /\ UseSound(bs, vs[1], a)
          /\ Over(s) <=> LlvmType("bool") = "void"
      BY <1>1, <1>2, <2>1, <2>2, TopValue, SMTT(30)
    <2> QED
      BY <2>1, <2>3, TypeFacts
  <1>8. IsBranch(bs, s.fn, i, a, {b[1], b[2]})
    <2> DEFINE v == vs[1]
               b1 == b[1]
               b2 == b[2]
    <2>1. UseSound(bs, v, a) /\ Open(bs, s.fn, b1) /\ Open(bs, s.fn, b2) /\ b1 # a /\ b2 # a /\ i = CondBr(v, b1, b2)
      BY <1>6, <1>7
    <2> HIDE DEF v, b1, b2, i
    <2>2. IsBranch(bs, s.fn, i, a, {b1, b2})
      BY ONLY <2>1, CondBranch
    <2> QED
      BY <2>2 DEF b1, b2
  <1> HIDE DEF i, z, b
  <1>9. /\ Drops(s, s1, 1) /\ s1.size = s.size - 1 /\ s1.size \in Nat /\ s1.fn = s.fn /\ s1.vars = s.vars
        /\ s1.loops = s.loops /\ s1.inside /\ s1.stack = s.stack
    BY <1>1, <1>7, DroppedFacts
  <1>10. ~Over(s1)
    BY <1>2
  <1> HIDE DEF s1
  <1>11. Arrives(m, dcl, bs, bt, h, vs, vt, s, s1, 1, a, b[1], {b[1], b[2]})
    <2> DEFINE d1 == b[1]
               T == {b[1], b[2]}
    <2>1. d1 \in T /\ Into(bs, d1) = {} /\ IsBranch(bs, s.fn, i, a, T)
      BY <1>6, <1>8
    <2>2. s1.loops \subseteq s.loops /\ s1.vars \subseteq s.vars /\ s1.fn = s.fn /\ Drops(s, s1, 1) /\ 1 \in Nat
      BY <1>9
    <2> HIDE DEF d1, T
    <2>3. Arrives(m, dcl, bs, bt, h, vs, vt, s, s1, 1, a, d1, T)
      BY ONLY <1>1, <1>7, <1>10, <2>1, <2>2, BranchTo DEF bt, vt
    <2> QED
      BY <2>3 DEF d1, T
  <1> HIDE DEF bt, vt
  <1>12. MayStart(m, dcl, s1, e.subs[2], after)
    BY <1>1, <1>3, <1>9, <1>10 DEF MayStart
  <1>13. Starts(m, dcl, s1.size, e.subs[2], s1, r) /\ IsOnto(s1, e.subs[2], after, r)
    BY <1>12, Onto
  <1>14. Path(m, dcl, s1.size, x, s1, r)
    BY <1>13, PathGenerate
  <1> HIDE DEF r, x
  <1>15. Pending(z) = {b[2], b[3]} /\ Unreached(z) = {b[3]} /\ Awaited(z, u) = {b[2]} /\ Saved(z, u) = {}
         /\ Pops(z) = 1 /\ z.do # "end"
    BY <1>4 DEF Pending, Unreached, Awaited, Saved, Pops
  <1>16. Rule(m, dcl, z, r, u)
    <2>1. Gives(r, u, 1, e.type)
      <3>1. Gives(s1, u, 0, e.type)
        BY <1>1, <1>2, DropThen DEF s1
      <3> QED
        BY <1>9, <1>13, <3>1, OntoThen
    <2>2. OneOf(r, e) /\ (TopIs(r, 1, "never") => e.subs[3].type = e.type)
      <3>1. TopIs(r, 1, e.subs[2].type)
        BY <1>13 DEF IsOnto
      <3>2. OneOf(r, e)
        BY <1>2, <3>1 DEF OneOf
      <3>3. TopIs(r, 1, "never") => e.subs[2].type = "never"
        <4>1. ASSUME TopIs(r, 1, "never") PROVE LlvmType(e.subs[2].type) = LlvmType("never")
          BY <3>1, <4>1 DEF TopIs, Typed
        <4> QED
          BY <1>2, <4>1, TypeFacts
      <3> QED
        BY <1>2, <3>2, <3>3
    <2>3. r.fn = s.fn /\ r.vars = after /\ s.vars \subseteq after /\ ~Over(Dropped(r, 1, r.vars))
      BY <1>9, <1>13 DEF IsOnto
    <2>4. RuleParts(m, z, r, u, e)
      BY <1>2, <1>4, <2>1, <2>2, <2>3 DEF RuleParts
    <2>5. RuleValue(z, r, u, e) /\ RuleFunction(m, dcl, z, r, u, e)
      BY <1>4 DEF RuleValue, RuleFunction
    <2>6. z.do \in Tasks /\ z.do \notin {"body", "again"}
      BY <1>4 DEF Tasks, Forks
    <2>7. r.inside /\ r.size \in Nat /\ r.fn \in dcl /\ u.fn = r.fn /\ u.inside /\ u.loops \subseteq r.loops
      BY <1>1, <1>9, <1>13 DEF IsOnto
    <2> QED
      BY <1>4, <2>4, <2>5, <2>6, <2>7 DEF Rule
  <1>17. Under(z, r) = s.size - 1
    BY <1>1, <1>9, <1>13, <1>15 DEF Under, IsOnto
  <1>18. TaskSound(bt, h, vt, z, r, u)
    <2>1. Open(bt, s.fn, b[2]) /\ Open(bt, s.fn, b[3]) /\ Into(bt, b[3]) = {}
      BY <1>6, <1>11 DEF Arrives
    <2>2. r.fn = s.fn
      BY <1>9, <1>13 DEF IsOnto
    <2>3. ReadyAt(bt, h, vt, b[2], u, s.size - 1)
      <3>1. ReadyAt(bt, h, vt, b[2], s1, s.size - 1)
        BY <1>6, <1>11 DEF Arrives
      <3> DEFINE n == s.size - 1
      <3>2. n \in Int /\ ReadyAt(bt, h, vt, b[2], s1, n) /\ n <= n /\ \A k \in 1..n : FromBelow(vt, k) = FromBelow(vt, k)
        BY <1>1, <3>1
      <3>3. u.fn = s1.fn /\ u.vars \subseteq s1.vars /\ u.loops \subseteq s1.loops
        BY <1>1, <1>2, <1>9
      <3> HIDE DEF n
      <3>4. ReadyAt(bt, h, vt, b[2], u, n)
        BY <3>2, <3>3, ReadyLess
      <3> QED
        BY <3>4 DEF n
    <2> QED
      BY <1>4, <1>6, <1>15, <1>17, <2>1, <2>2, <2>3 DEF TaskSound, Open
  <1>19. Waits(bs, bt, h, vt, t, s, u, z, r, s1, b[1])
    <2>1. \A d \in Pending(z) : d # b[1] /\ d \in Pending(t)
      BY <1>5, <1>6, <1>15
    <2>2. r.fn = s.fn /\ s1.vars \subseteq r.vars /\ r.loops = s1.loops
      BY <1>9, <1>13 DEF IsOnto
    <2> QED
      BY <1>2, <1>5, <1>9, <1>15, <1>17, <1>18, <2>1, <2>2 DEF Waits
  <1>20. Touches(bs, bt, {a}, {b[1], b[2]}, {}, h, h, vs, vt, t, s, a)
    BY <1>5, <1>11 DEF Touches, Arrives
  <1>21. LeftTo(bs, bt, t, a, b[1], Pending(z))
    BY <1>5, <1>11, <1>15 DEF LeftTo, Arrives
  <1>22. \E c2 : Sound(m, dcl, (x \o <<z>>) \o Tail(ts), c2, vt, bt, h, b[1])
    <2> DEFINE S == {a}
               P == {b[1], b[2]}
               L == {}
    <2>1. Touches(bs, bt, S, P, L, h, h, vs, vt, ts[1], c[1], a) /\ Path(m, dcl, Under(ts[1], c[1]), x, s1, r)
      BY <1>5, <1>9, <1>14, <1>20
    <2>2. b[1] = a \/ b[1] \in Pending(ts[1]) \/ b[1] \notin 1..Len(bs)
      BY <1>5
    <2>3. Heap(m, dcl, bt) /\ Matches(bt, vt, s1) /\ IsCurrent(bt, h, vt, b[1], s1)
      BY <1>11 DEF Arrives
    <2> HIDE DEF S, P, L
    <2> QED
      BY <1>1, <1>16, <1>19, <1>21, <2>1, <2>2, <2>3, ForkStep
  <1>23. x \o <<z>> = <<Generate(e.subs[2]), z>>
    BY PairCat DEF x
  <1> QED
    BY <1>22, <1>23 DEF z, b, bt, vt, i

-----------------------------------------------------------------------------
(* and.                                                                      *)

\* Blocks are added, and a branch is made to some of them.
NewBranch(m, dcl, bs, bt, h, vs, vt, s, r, n, a, f, b, T) ==
  /\ IsCurrent(bt, h, vt, b[1], r) /\ Matches(bt, vt, r) /\ Keeps(bs, vs, vt, s.size - n)
  /\ Extends(bs, bt, {a}, T, {}) /\ Heap(m, dcl, bt) /\ Closed(bt, a)
  /\ \A d \in T : ReadyAt(bt, h, vt, d, r, s.size - n)
  /\ b[1] # b[2] /\ b[1] # b[3] /\ b[2] # b[3]
  /\ \A d \in {b[1], b[2], b[3]} : Open(bt, f, d) /\ d \notin 1..Len(bs)
  /\ \A d \in 1..Len(bt) : d \notin 1..Len(bs) => d \in {b[1], b[2], b[3]}
  /\ \A d \in {b[1], b[2], b[3]} : d \notin T => Into(bt, d) = {}

LEMMA NewBranchTo ==
  ASSUME NEW m, NEW dcl, NEW t, NEW s, NEW u, NEW vs, NEW bs, NEW h, NEW a, Begins(m, dcl, t, s, u, vs, bs, h, a),
         Pending(t) = {}, t.do # "end", ~Over(s), NEW bw, bw = WithBlocks(bs, bs[a].function, 3),
         NEW b, b = NewBlocks(bs, 3), NEW i, NEW T, IsBranch(bw, s.fn, i, a, T), b[1] \in T, T \subseteq {b[1], b[2], b[3]},
         NEW n \in Nat, NEW r, Drops(s, r, n), ~Over(r), r.fn = s.fn, r.loops \subseteq s.loops, r.vars \subseteq s.vars
  PROVE  NewBranch(m, dcl, bs, Emit(bw, a, i), h, vs, Swapped(vs, n, <<>>), s, r, n, a, s.fn, b, T)
  <1> DEFINE bt == Emit(bw, a, i)
             vt == Swapped(vs, n, <<>>)
  <1>1. /\ Begins(m, dcl, t, s, u, vs, bw, h, a) /\ Extends(bs, bw, {}, {}, {}) /\ AreNew(bs, bw, s.fn, b)
    BY ThreeBlocks
  <1>2. Arrives(m, dcl, bw, bt, h, vs, vt, s, r, n, a, b[1], T)
    <2> DEFINE d == b[1]
    <2>1. Into(bw, d) = {} /\ d \in T
      BY <1>1 DEF AreNew
    <2> HIDE DEF d
    <2>2. Arrives(m, dcl, bw, bt, h, vs, vt, s, r, n, a, d, T)
      BY <1>1, <2>1, BranchTo
    <2> QED
      BY <2>2 DEF d
  <1>3. Keeps(bs, vs, vt, s.size - n)
    <2>1. s.size \in Nat /\ Matches(bs, vs, s) /\ n <= s.size
      BY DEF Begins, Drops
    <2> DEFINE es == <<>>
    <2>2. IsSeq(es)
      BY SeqNone
    <2>3. vt = Swapped(vs, n, es)
      OBVIOUS
    <2> HIDE DEF es, vt
    <2> QED
      BY <2>1, <2>2, <2>3, ValuesUnder
  <1>4. a \in 1..Len(bs)
    BY DEF Begins
  <1> HIDE DEF bt, vt
  <1>5. Extends(bs, bt, {a}, T, {})
    <2> DEFINE S == {a}
               N == {}
    <2>1. Extends(bs, bw, N, N, N) /\ Extends(bw, bt, S, T, N)
      BY <1>1, <1>2 DEF Arrives
    <2> HIDE DEF S, N
    <2>2. Extends(bs, bt, N \cup S, N \cup T, N \cup N)
      BY <2>1, ExtendsTwice
    <2>3. N \cup S = S /\ N \cup T = T /\ N \cup N = N
      BY DEF N
    <2>4. Extends(bs, bt, S, T, N)
      BY <2>2, <2>3
    <2> QED
      BY <2>4 DEF S, N
  <1>6. \A d \in {b[1], b[2], b[3]} : Open(bt, s.fn, d) /\ d \notin 1..Len(bs)
    BY <1>1, <1>2, <1>4 DEF Arrives, AreNew
  <1>7. Len(bt) = Len(bw)
    BY <1>2 DEF Arrives
  <1> QED
    <2>1. IsCurrent(bt, h, vt, b[1], r) /\ Matches(bt, vt, r) /\ Heap(m, dcl, bt) /\ Closed(bt, a)
      BY <1>2 DEF Arrives
    <2>2. \A d \in T : ReadyAt(bt, h, vt, d, r, s.size - n)
      BY <1>1, <1>2 DEF Arrives, AreNew
    <2>3. b[1] # b[2] /\ b[1] # b[3] /\ b[2] # b[3] /\ \A d \in 1..Len(bt) : d \notin 1..Len(bs) => d \in {b[1], b[2], b[3]}
      BY <1>1, <1>7 DEF AreNew
    <2>4. \A d \in {b[1], b[2], b[3]} : d \notin T => Into(bt, d) = {}
      BY <1>1, <1>2 DEF Arrives, AreNew
    <2>5. NewBranch(m, dcl, bs, bt, h, vs, vt, s, r, n, a, s.fn, b, T)
      BY <1>3, <1>5, <1>6, <2>1, <2>2, <2>3, <2>4 DEF NewBranch
    <2> QED
      BY <2>5 DEF bt, vt

\* A condition is there.
LEMMA Condition ==
  ASSUME NEW m, NEW dcl, NEW t, NEW s, NEW u, NEW vs, NEW bs, NEW h, NEW a, Begins(m, dcl, t, s, u, vs, bs, h, a),
         TopIs(s, 1, "bool")
  PROVE  1 <= s.size /\ UseSound(bs, vs[1], a) /\ ~Over(s) /\ s.size \in Nat
  <1>1. "bool" \in ValueTypes
    BY TypeFacts
  <1>2. 1 \in Nat \ {0}
    OBVIOUS
  <1>3. /\ 1 \in 1..s.size /\ UseSound(bs, vs[1], a)
        /\ Over(s) <=> LlvmType("bool") = "void"
    BY <1>1, <1>2, TopValue
  <1>4. s.size \in Nat
    BY DEF Begins
  <1> QED
    BY <1>1, <1>3, <1>4, TypeFacts

\* Three blocks, and a branch to the first two by the condition.
LEMMA NewCondBranch ==
  ASSUME NEW m, NEW dcl, NEW t, NEW s, NEW u, NEW vs, NEW bs, NEW h, NEW a, Begins(m, dcl, t, s, u, vs, bs, h, a),
         Pending(t) = {}, t.do # "end", NEW bw, bw = WithBlocks(bs, bs[a].function, 3),
         NEW b, b = NewBlocks(bs, 3), TopIs(s, 1, "bool"), NEW i, i = CondBr(vs[1], b[1], b[2])
  PROVE  IsBranch(bw, s.fn, i, a, {b[1], b[2]})
  <1>1. /\ Begins(m, dcl, t, s, u, vs, bw, h, a) /\ AreNew(bs, bw, s.fn, b) /\ a \in 1..Len(bs)
    BY ThreeBlocks DEF Begins
  <1>2. UseSound(bw, vs[1], a)
    BY <1>1, Condition
  <1> DEFINE v == vs[1]
             b1 == b[1]
             b2 == b[2]
  <1>3. UseSound(bw, v, a) /\ Open(bw, s.fn, b1) /\ Open(bw, s.fn, b2) /\ b1 # a /\ b2 # a /\ i = CondBr(v, b1, b2)
    BY <1>1, <1>2 DEF AreNew
  <1> HIDE DEF v, b1, b2
  <1>4. IsBranch(bw, s.fn, i, a, {b1, b2})
    BY ONLY <1>3, CondBranch
  <1> QED
    BY <1>4 DEF b1, b2

LEMMA RhsStep ==
  ASSUME NEW m \in Modules, NEW dcl, NEW ts, NEW c, NEW vs, NEW bs, NEW h, NEW a,
         Sound(m, dcl, ts, c, vs, bs, h, a), ts # <<>>, ts[1].do = "rhs"
  PROVE  LET e == ts[1].node
             b == NewBlocks(bs, 3)
             bt == Emit(WithBlocks(bs, bs[a].function, 3), a, CondBr(vs[1], b[1], b[2]))
             with == GenerateValue(e.subs[2]) \o <<[Task("and", e) EXCEPT !.blocks = b]>>
         IN \E c2 : Sound(m, dcl, with \o Tail(ts), c2, Swapped(vs, 1, <<>>), bt, h, b[1])
  <1> DEFINE t == ts[1]
             s == c[1]
             u == c[2]
             e == t.node
             e2 == e.subs[2]
             b == NewBlocks(bs, 3)
             bw == WithBlocks(bs, bs[a].function, 3)
             i == CondBr(vs[1], b[1], b[2])
             bt == Emit(bw, a, i)
             vt == Swapped(vs, 1, <<>>)
             z == [Task("and", e) EXCEPT !.blocks = b]
             s1 == Dropped(s, 1, s.vars)
             x == GenerateValue(e2)
  <1>1. /\ Begins(m, dcl, t, s, u, vs, bs, h, a) /\ RuleParts(m, t, s, u, e) /\ s.inside /\ s.fn \in dcl
        /\ s.size \in Nat /\ u.fn = s.fn /\ u.inside /\ u.loops \subseteq s.loops /\ t.do # "end"
    BY FirstRule DEF Rule
  <1>2. /\ TopIs(s, 1, "bool") /\ Gives(s, u, 1, "bool") /\ u.vars = s.vars /\ e2.type = "bool"
        /\ \E after : Inner(m, s.fn, s.vars, e2, after) /\ ~Over(Dropped(s, 1, s.vars))
    BY <1>1 DEF RuleParts
  <1>3. PICK after : Inner(m, s.fn, s.vars, e2, after)
    BY <1>2
  <1> DEFINE r == Pushed(s1, 0, e2.type, after)
  <1>4. z.do = "and" /\ z.node = e /\ z.blocks = b
    BY ForkFields
  <1>5. Pending(t) = {} /\ Pops(t) = 1 /\ Under(t, s) = s.size - 1
    BY DEF Pending, Pops, Under
  <1>6. e2.type \in ValueTypes
    BY <1>2, TypeFacts
  <1>7. 1 <= s.size /\ ~Over(s)
    BY <1>1, <1>2, Condition
  <1>8. IsBranch(bw, s.fn, i, a, {b[1], b[2]})
    BY <1>1, <1>2, <1>5, NewCondBranch
  <1> HIDE DEF i, z
  <1>9. /\ Drops(s, s1, 1) /\ s1.size = s.size - 1 /\ s1.size \in Nat /\ s1.fn = s.fn /\ s1.vars = s.vars
        /\ s1.loops = s.loops /\ s1.inside /\ s1.stack = s.stack
    BY <1>1, <1>7, DroppedFacts
  <1>10. ~Over(s1)
    BY <1>2
  <1> HIDE DEF s1
  <1>11. NewBranch(m, dcl, bs, bt, h, vs, vt, s, s1, 1, a, s.fn, b, {b[1], b[2]})
    <2> DEFINE T == {b[1], b[2]}
    <2>1. IsBranch(bw, s.fn, i, a, T) /\ b[1] \in T /\ T \subseteq {b[1], b[2], b[3]}
      BY <1>8
    <2>2. s1.loops \subseteq s.loops /\ s1.vars \subseteq s.vars /\ s1.fn = s.fn /\ Drops(s, s1, 1) /\ 1 \in Nat
      BY <1>9
    <2>3. bw = WithBlocks(bs, bs[a].function, 3) /\ b = NewBlocks(bs, 3)
      OBVIOUS
    <2>4. Begins(m, dcl, t, s, u, vs, bs, h, a) /\ Pending(t) = {} /\ t.do # "end" /\ ~Over(s) /\ ~Over(s1)
      BY <1>1, <1>5, <1>7, <1>10
    <2> HIDE DEF T, b, bw, t, s, u
    <2>5. NewBranch(m, dcl, bs, Emit(bw, a, i), h, vs, Swapped(vs, 1, <<>>), s, s1, 1, a, s.fn, b, T)
      BY ONLY <2>1, <2>2, <2>3, <2>4, NewBranchTo
    <2> QED
      BY <2>5 DEF T, bt, vt
  <1> HIDE DEF bt, vt, b, bw
  <1>12. MayStart(m, dcl, s1, e2, after)
    BY <1>1, <1>3, <1>9, <1>10 DEF MayStart
  <1>13. Starts(m, dcl, s1.size, e2, s1, r) /\ IsOnto(s1, e2, after, r)
    BY <1>12, Onto
  <1>14. Path(m, dcl, s1.size, x, s1, r)
    BY <1>6, <1>13, PathValue
  <1> HIDE DEF r, x
  <1>15. Pending(z) = {b[2], b[3]} /\ Unreached(z) = {b[3]} /\ Awaited(z, u) = {b[2]} /\ Saved(z, u) = {}
         /\ Pops(z) = 1 /\ z.do # "end"
    BY <1>4 DEF Pending, Unreached, Awaited, Saved, Pops
  <1>16. Rule(m, dcl, z, r, u)
    <2>1. Gives(r, u, 1, "bool")
      <3>1. Gives(s1, u, 0, "bool")
        BY <1>1, <1>2, DropThen DEF s1
      <3> QED
        BY <1>9, <1>13, <3>1, OntoThen
    <2>2. r.fn = s.fn /\ r.vars = after /\ s.vars \subseteq after /\ TopIs(r, 1, "bool")
      BY <1>2, <1>9, <1>13 DEF IsOnto
    <2>3. RuleValue(z, r, u, e)
      BY <1>2, <1>4, <2>1, <2>2 DEF RuleValue
    <2>4. RuleParts(m, z, r, u, e) /\ RuleFunction(m, dcl, z, r, u, e)
      BY <1>4 DEF RuleParts, RuleFunction
    <2>5. z.do \in Tasks /\ z.do \notin {"body", "again"}
      BY <1>4 DEF Tasks, Forks
    <2>6. r.inside /\ r.size \in Nat /\ r.fn \in dcl /\ u.fn = r.fn /\ u.inside /\ u.loops \subseteq r.loops
      BY <1>1, <1>9, <1>13 DEF IsOnto
    <2> QED
      BY <1>4, <2>3, <2>4, <2>5, <2>6 DEF Rule
  <1>17. Under(z, r) = s.size - 1
    BY <1>1, <1>9, <1>13, <1>15 DEF Under, IsOnto
  <1>18. TaskSound(bt, h, vt, z, r, u)
    <2>1. Open(bt, s.fn, b[2]) /\ Open(bt, s.fn, b[3]) /\ Into(bt, b[3]) = {} /\ b[1] # b[2] /\ b[1] # b[3] /\ b[2] # b[3]
      BY <1>11 DEF NewBranch
    <2>2. r.fn = s.fn
      BY <1>9, <1>13 DEF IsOnto
    <2>3. ReadyAt(bt, h, vt, b[2], u, s.size - 1)
      <3>1. ReadyAt(bt, h, vt, b[2], s1, s.size - 1)
        BY <1>11 DEF NewBranch
      <3> DEFINE n == s.size - 1
      <3>2. n \in Int /\ ReadyAt(bt, h, vt, b[2], s1, n) /\ n <= n /\ \A k \in 1..n : FromBelow(vt, k) = FromBelow(vt, k)
        BY <1>1, <3>1
      <3>3. u.fn = s1.fn /\ u.vars \subseteq s1.vars /\ u.loops \subseteq s1.loops
        BY <1>1, <1>2, <1>9
      <3> HIDE DEF n
      <3>4. ReadyAt(bt, h, vt, b[2], u, n)
        BY <3>2, <3>3, ReadyLess
      <3> QED
        BY <3>4 DEF n
    <2> QED
      BY <1>4, <1>15, <1>17, <2>1, <2>2, <2>3 DEF TaskSound, Open
  <1>19. Waits(bs, bt, h, vt, t, s, u, z, r, s1, b[1])
    <2>1. \A d \in Pending(z) : d # b[1] /\ d \notin 1..Len(bs)
      BY <1>11, <1>15 DEF NewBranch
    <2>2. r.fn = s.fn /\ s1.vars \subseteq r.vars /\ r.loops = s1.loops
      BY <1>9, <1>13 DEF IsOnto
    <2> QED
      BY <1>2, <1>5, <1>9, <1>15, <1>17, <1>18, <2>1, <2>2 DEF Waits
  <1>20. Touches(bs, bt, {a}, {b[1], b[2]}, {}, h, h, vs, vt, t, s, a)
    BY <1>5, <1>11 DEF Touches, NewBranch
  <1>21. LeftTo(bs, bt, t, a, b[1], Pending(z))
    BY <1>5, <1>11, <1>15 DEF LeftTo, NewBranch
  <1>22. \E c2 : Sound(m, dcl, (x \o <<z>>) \o Tail(ts), c2, vt, bt, h, b[1])
    <2> DEFINE S == {a}
               P == {b[1], b[2]}
               L == {}
    <2>1. Touches(bs, bt, S, P, L, h, h, vs, vt, ts[1], c[1], a) /\ Path(m, dcl, Under(ts[1], c[1]), x, s1, r)
      BY <1>5, <1>9, <1>14, <1>20
    <2>2. b[1] = a \/ b[1] \in Pending(ts[1]) \/ b[1] \notin 1..Len(bs)
      BY <1>11 DEF NewBranch
    <2>3. Heap(m, dcl, bt) /\ Matches(bt, vt, s1) /\ IsCurrent(bt, h, vt, b[1], s1)
      BY <1>11 DEF NewBranch
    <2> HIDE DEF S, P, L
    <2> QED
      BY <1>1, <1>16, <1>19, <1>21, <2>1, <2>2, <2>3, ForkStep
  <1> QED
    BY <1>22 DEF x, z, b, bt, vt, i, bw

-----------------------------------------------------------------------------
(* Loops.                                                                    *)

LEMMA SwappedNone ==
  ASSUME NEW vs, IsSeq(vs)
  PROVE  Swapped(vs, 0, <<>>) = vs
  <1> DEFINE es == <<>>
             n == 0
             t == Swapped(vs, n, es)
  <1>1. IsSeq(es) /\ Len(es) = 0 /\ n \in Nat /\ Len(vs) \in Nat /\ n <= Len(vs)
    BY SeqNone, SeqFacts
  <1> HIDE DEF es
  <1>2. /\ IsSeq(t) /\ Len(t) = Len(es) + Len(vs) - n
        /\ \A i \in 1..Len(vs) - n : t[Len(es) + i] = vs[n + i]
    <2> HIDE DEF n
    <2>1. IsSeq(vs) /\ IsSeq(es) /\ n \in Nat /\ n <= Len(vs)
      BY <1>1 DEF n
    <2>2. IsSeq(t) /\ Len(t) = Len(es) + Len(vs) - n
      BY ONLY <2>1, Replaced
    <2>3. \A i \in 1..Len(vs) - n : t[Len(es) + i] = vs[n + i]
      BY ONLY <2>1, Replaced
    <2> QED
      BY <2>2, <2>3
  <1> HIDE DEF t
  <1>3. Len(t) = Len(vs)
    BY <1>1, <1>2
  <1>4. ASSUME NEW i \in 1..Len(t) PROVE t[i] = vs[i]
    <2>1. i \in 1..Len(vs) - n /\ Len(es) + i = i /\ n + i = i
      BY <1>1, <1>3
    <2> QED
      BY <1>2, <2>1
  <1>5. t = vs
    BY <1>2, <1>3, <1>4, SeqSame
  <1> QED
    BY <1>5 DEF t, es

\* The state in a loop that starts with block l.
Looped(s, l) ==
  [fn |-> s.fn, size |-> s.size, stack |-> s.stack, vars |-> s.vars, loops |-> s.loops \cup {l}, inside |-> TRUE]

LEMMA LoopedFacts ==
  ASSUME NEW s, NEW l, NEW bs, NEW h, NEW vs, IsCurrent(bs, h, vs, l, s), Matches(bs, vs, s)
  PROVE  /\ IsCurrent(bs, h, vs, l, Looped(s, l)) /\ Matches(bs, vs, Looped(s, l))
         /\ \A u : Drops(s, u, 0) => Drops(Looped(s, l), u, 0)
         /\ Over(Looped(s, l)) <=> Over(s)
  <1> DEFINE r == Looped(s, l)
  <1>1. /\ r.fn = s.fn /\ r.size = s.size /\ r.stack = s.stack /\ r.vars = s.vars /\ r.loops = s.loops \cup {l}
        /\ r.inside
    BY DEF Looped
  <1> HIDE DEF r
  <1>2. Over(r) <=> Over(s)
    BY <1>1 DEF Over
  <1>3. IsCurrent(bs, h, vs, l, r)
    <2>1. Dom(bs, l, l)
      BY DEF Dom
    <2>2. ReadyAt(bs, h, vs, l, s, Len(vs)) => ReadyAt(bs, h, vs, l, r, Len(vs))
      BY <1>1, <2>1 DEF ReadyAt
    <2> QED
      BY <1>2, <2>2 DEF IsCurrent
  <1>4. Matches(bs, vs, r)
    BY <1>1 DEF Matches
  <1>5. ASSUME NEW u, Drops(s, u, 0) PROVE Drops(r, u, 0)
    BY <1>1, <1>5 DEF Drops
  <1> QED
    BY <1>2, <1>3, <1>4, <1>5 DEF r

LEMMA DropsOver ==
  ASSUME NEW s, s.size \in Nat, NEW n \in Nat, NEW u, NEW r, Drops(s, u, n), Drops(s, r, n)
  PROVE  Over(u) <=> Over(r)
  BY DEF Drops, Over

LEMMA WhileStep ==
  ASSUME NEW m \in Modules, NEW dcl, NEW ts, NEW c, NEW vs, NEW bs, NEW h, NEW a,
         Sound(m, dcl, ts, c, vs, bs, h, a), ts # <<>>, ts[1].do = "while"
  PROVE  LET e == ts[1].node
             b == NewBlocks(bs, 3)
             bt == Emit(WithBlocks(bs, bs[a].function, 3), a, Br(b[1]))
             with == GenerateValue(e.subs[1]) \o <<[Task("body", e) EXCEPT !.blocks = b]>>
         IN \E c2 : Sound(m, dcl, with \o Tail(ts), c2, vs, bt, h, b[1])
  <1> DEFINE t == ts[1]
             s == c[1]
             u == c[2]
             e == t.node
             e1 == e.subs[1]
             b == NewBlocks(bs, 3)
             bw == WithBlocks(bs, bs[a].function, 3)
             i == Br(b[1])
             bt == Emit(bw, a, i)
             z == [Task("body", e) EXCEPT !.blocks = b]
             s1 == Looped(s, b[1])
             x == GenerateValue(e1)
             r == Pushed(s1, 0, e1.type, u.vars)
  <1>1. /\ Begins(m, dcl, t, s, u, vs, bs, h, a) /\ RuleParts(m, t, s, u, e) /\ s.inside /\ s.fn \in dcl
        /\ s.size \in Nat /\ u.fn = s.fn /\ u.inside /\ u.loops \subseteq s.loops /\ t.do # "end"
    BY FirstRule DEF Rule
  <1>2. /\ ~Over(s) /\ Drops(s, u, 0) /\ e1.type = "bool" /\ e.subs[2].type \in ValueTypes
        /\ Inner(m, s.fn, s.vars, e1, u.vars) /\ \E after : Inner(m, s.fn, u.vars, e.subs[2], after)
    BY <1>1 DEF RuleParts
  <1>4. z.do = "body" /\ z.node = e /\ z.blocks = b
    BY ForkFields
  <1>5. Pending(t) = {} /\ Pops(t) = 0 /\ Under(t, s) = s.size
    BY <1>1 DEF Pending, Pops, Under
  <1>6. e1.type \in ValueTypes
    BY <1>2, TypeFacts
  <1>8. IsBranch(bw, s.fn, i, a, {b[1]})
    <2> DEFINE d == b[1]
    <2>1. AreNew(bs, bw, s.fn, b) /\ a \in 1..Len(bs)
      BY <1>1, <1>5, ThreeBlocks DEF Begins
    <2>2. Open(bw, s.fn, d) /\ d # a /\ i = Br(d)
      BY <2>1 DEF AreNew
    <2> HIDE DEF d
    <2>3. IsBranch(bw, s.fn, i, a, {d})
      BY ONLY <2>2, Branch
    <2> QED
      BY <2>3 DEF d
  <1> HIDE DEF i, z
  <1>9. /\ s1.size = s.size /\ s1.fn = s.fn /\ s1.vars = s.vars
        /\ s1.loops = s.loops \cup {b[1]} /\ s1.inside
    BY DEF Looped
  <1>11. NewBranch(m, dcl, bs, bt, h, vs, vs, s, s, 0, a, s.fn, b, {b[1]})
    <2> DEFINE T == {b[1]}
               vt == Swapped(vs, 0, <<>>)
               n == 0
    <2>1. IsBranch(bw, s.fn, i, a, T) /\ b[1] \in T /\ T \subseteq {b[1], b[2], b[3]}
      BY <1>8
    <2>2. s.loops \subseteq s.loops /\ s.vars \subseteq s.vars /\ s.fn = s.fn /\ Drops(s, s, n) /\ n \in Nat
      BY <1>1 DEF Drops
    <2>3. bw = WithBlocks(bs, bs[a].function, 3) /\ b = NewBlocks(bs, 3)
      OBVIOUS
    <2>4. Begins(m, dcl, t, s, u, vs, bs, h, a) /\ Pending(t) = {} /\ t.do # "end" /\ ~Over(s)
      BY <1>1, <1>2, <1>5
    <2>6. vt = vs
      BY <1>1, SwappedNone DEF Begins
    <2> HIDE DEF T, b, bw, t, s, u, n, vt
    <2>5. NewBranch(m, dcl, bs, Emit(bw, a, i), h, vs, Swapped(vs, n, <<>>), s, s, n, a, s.fn, b, T)
      BY ONLY <2>1, <2>2, <2>3, <2>4, NewBranchTo
    <2>7. Swapped(vs, n, <<>>) = vs
      BY <2>6 DEF vt, n
    <2> QED
      BY <2>5, <2>7 DEF T, bt, n
  <1> HIDE DEF bt, b, bw
  <1>3. IsCurrent(bt, h, vs, b[1], s1) /\ Matches(bt, vs, s1) /\ Drops(s1, u, 0) /\ ~Over(s1)
    <2>1. IsCurrent(bt, h, vs, b[1], s) /\ Matches(bt, vs, s)
      BY <1>11 DEF NewBranch
    <2> QED
      BY <1>2, <2>1, LoopedFacts
  <1>10. b[1] \in 1..Len(bt) /\ b[1] \notin 1..Len(bs) /\ NoPhi(bt, b[1])
    <2>1. Open(bt, s.fn, b[1]) /\ b[1] \notin 1..Len(bs)
      BY <1>11 DEF NewBranch
    <2>2. Len(bt[b[1]].code) = 0
      BY <2>1, SeqNone DEF Open
    <2> QED
      BY <2>1, <2>2 DEF Open, NoPhi
  <1> HIDE DEF s1
  <1>12. MayStart(m, dcl, s1, e1, u.vars)
    BY <1>1, <1>2, <1>3, <1>9 DEF MayStart
  <1>13. Starts(m, dcl, s1.size, e1, s1, r) /\ IsOnto(s1, e1, u.vars, r)
    BY <1>12, Onto
  <1>14. Path(m, dcl, s1.size, x, s1, r)
    BY <1>6, <1>13, PathValue
  <1> HIDE DEF r, x
  <1>15. Pending(z) = {b[2], b[3]} /\ Unreached(z) = {b[2], b[3]} /\ Awaited(z, u) = {} /\ Saved(z, u) = {}
         /\ Pops(z) = 1 /\ z.do # "end"
    BY <1>4 DEF Pending, Unreached, Awaited, Saved, Pops
  <1>16. Rule(m, dcl, z, r, u)
    <2>1. Drops(r, u, 1)
      BY <1>1, <1>3, <1>9, <1>13, OntoThen
    <2>2. r.fn = s.fn /\ r.vars = u.vars /\ TopIs(r, 1, "bool")
      BY <1>2, <1>9, <1>13 DEF IsOnto
    <2>3. ~Over(u)
      BY <1>1, <1>2, SMTT(30) DEF Drops, Over
    <2>4. RuleParts(m, z, r, u, e)
      BY <1>2, <1>4, <2>1, <2>2, <2>3 DEF RuleParts
    <2>5. RuleValue(z, r, u, e) /\ RuleFunction(m, dcl, z, r, u, e)
      BY <1>4 DEF RuleValue, RuleFunction
    <2>6. z.do \in Tasks /\ b[1] \in r.loops
      BY <1>4, <1>9, <1>13 DEF Tasks, Forks, IsOnto
    <2>7. r.inside /\ r.size \in Nat /\ r.fn \in dcl /\ u.fn = r.fn /\ u.inside /\ u.loops \subseteq r.loops
      BY <1>1, <1>9, <1>13 DEF IsOnto
    <2> QED
      BY <1>4, <2>4, <2>5, <2>6, <2>7 DEF Rule
  <1>17. Under(z, r) = s.size
    BY <1>1, <1>9, <1>13, <1>15 DEF Under, IsOnto
  <1>18. TaskSound(bt, h, vs, z, r, u)
    <2>1. /\ Open(bt, s.fn, b[2]) /\ Open(bt, s.fn, b[3]) /\ Into(bt, b[3]) = {} /\ Into(bt, b[2]) = {}
          /\ b[1] # b[2] /\ b[1] # b[3] /\ b[2] # b[3]
      BY <1>11 DEF NewBranch
    <2>2. r.fn = s.fn
      BY <1>9, <1>13 DEF IsOnto
    <2> QED
      BY <1>4, <1>15, <2>1, <2>2 DEF TaskSound, Open
  <1>19. Waits(bs, bt, h, vs, t, s, u, z, r, s1, b[1])
    <2>1. \A d \in Pending(z) : d # b[1] /\ d \notin 1..Len(bs)
      BY <1>11, <1>15 DEF NewBranch
    <2>2. r.fn = s.fn /\ s1.vars \subseteq r.vars /\ r.loops = s1.loops
      BY <1>9, <1>13 DEF IsOnto
    <2>3. \A l \in s1.loops : l \in s.loops \/ l = b[1]
      BY <1>9
    <2> QED
      BY <1>1, <1>5, <1>9, <1>10, <1>15, <1>17, <1>18, <2>1, <2>2, <2>3 DEF Waits
  <1>20. Touches(bs, bt, {a}, {b[1]}, {}, h, h, vs, vs, t, s, a)
    <2>1. Keeps(bs, vs, vs, s.size)
      BY <1>1, KeepsSame DEF Begins
    <2> QED
      BY <1>5, <1>11, <2>1 DEF Touches, NewBranch
  <1>21. LeftTo(bs, bt, t, a, b[1], Pending(z))
    BY <1>5, <1>11, <1>15 DEF LeftTo, NewBranch
  <1>22. \E c2 : Sound(m, dcl, (x \o <<z>>) \o Tail(ts), c2, vs, bt, h, b[1])
    <2> DEFINE S == {a}
               P == {b[1]}
               L == {}
    <2>1. Touches(bs, bt, S, P, L, h, h, vs, vs, ts[1], c[1], a) /\ Path(m, dcl, Under(ts[1], c[1]), x, s1, r)
      BY <1>5, <1>9, <1>14, <1>20
    <2>2. b[1] = a \/ b[1] \in Pending(ts[1]) \/ b[1] \notin 1..Len(bs)
      BY <1>11 DEF NewBranch
    <2>3. Heap(m, dcl, bt) /\ Matches(bt, vs, s1) /\ IsCurrent(bt, h, vs, b[1], s1)
      BY <1>3, <1>11 DEF NewBranch
    <2> HIDE DEF S, P, L
    <2> QED
      BY <1>1, <1>16, <1>19, <1>21, <2>1, <2>2, <2>3, ForkStep
  <1> QED
    BY <1>22 DEF x, z, b, bt, i, bw

LEMMA BodyStep ==
  ASSUME NEW m \in Modules, NEW dcl, NEW ts, NEW c, NEW vs, NEW bs, NEW h, NEW a,
         Sound(m, dcl, ts, c, vs, bs, h, a), ts # <<>>, ts[1].do = "body"
  PROVE  LET e == ts[1].node
             b == ts[1].blocks
             bt == Emit(bs, a, CondBr(vs[1], b[2], b[3]))
             with == <<Generate(e.subs[2]), [Task("again", e) EXCEPT !.blocks = b]>>
         IN \E c2 : Sound(m, dcl, with \o Tail(ts), c2, Swapped(vs, 1, <<>>), bt, h, b[2])
  <1> DEFINE t == ts[1]
             s == c[1]
             u == c[2]
             e == t.node
             b == t.blocks
             i == CondBr(vs[1], b[2], b[3])
             bt == Emit(bs, a, i)
             vt == Swapped(vs, 1, <<>>)
             z == [Task("again", e) EXCEPT !.blocks = b]
             s1 == Dropped(s, 1, s.vars)
             x == <<Generate(e.subs[2])>>
  <1>1. /\ Begins(m, dcl, t, s, u, vs, bs, h, a) /\ RuleParts(m, t, s, u, e) /\ s.inside /\ s.fn \in dcl
        /\ s.size \in Nat /\ u.fn = s.fn /\ u.inside /\ u.loops \subseteq s.loops /\ t.do # "end" /\ b[1] \in s.loops
    BY FirstRule DEF Rule
  <1>2. /\ TopIs(s, 1, "bool") /\ Drops(s, u, 1) /\ ~Over(u) /\ u.vars = s.vars /\ e.subs[2].type \in ValueTypes
        /\ \E after : Inner(m, s.fn, s.vars, e.subs[2], after)
    BY <1>1 DEF RuleParts
  <1>3. PICK after : Inner(m, s.fn, s.vars, e.subs[2], after)
    BY <1>2
  <1> DEFINE r == Pushed(s1, 0, e.subs[2].type, after)
  <1>4. z.do = "again" /\ z.node = e /\ z.blocks = b
    BY ForkFields
  <1>5. Pending(t) = {b[2], b[3]} /\ Unreached(t) = {b[2], b[3]} /\ Pops(t) = 1 /\ Under(t, s) = s.size - 1
    BY DEF Pending, Unreached, Pops, Under
  <1>6. /\ \A d \in {b[2], b[3]} : Open(bs, s.fn, d) /\ d # a /\ Into(bs, d) = {}
        /\ b[1] # b[2] /\ b[1] # b[3] /\ b[2] # b[3]
    BY <1>1, <1>5, PendingOpen DEF Forks
  <1>7. 1 <= s.size /\ UseSound(bs, vs[1], a) /\ ~Over(s)
    BY <1>1, <1>2, Condition
  <1>8. IsBranch(bs, s.fn, i, a, {b[2], b[3]})
    <2> DEFINE v == vs[1]
               b1 == b[2]
               b2 == b[3]
    <2>1. UseSound(bs, v, a) /\ Open(bs, s.fn, b1) /\ Open(bs, s.fn, b2) /\ b1 # a /\ b2 # a /\ i = CondBr(v, b1, b2)
      BY <1>6, <1>7
    <2> HIDE DEF v, b1, b2, i
    <2>2. IsBranch(bs, s.fn, i, a, {b1, b2})
      BY ONLY <2>1, CondBranch
    <2> QED
      BY <2>2 DEF b1, b2
  <1> HIDE DEF i, z, b
  <1>9. /\ Drops(s, s1, 1) /\ s1.size = s.size - 1 /\ s1.size \in Nat /\ s1.fn = s.fn /\ s1.vars = s.vars
        /\ s1.loops = s.loops /\ s1.inside /\ s1.stack = s.stack
    BY <1>1, <1>7, DroppedFacts
  <1> HIDE DEF s1
  <1>10. ~Over(s1) /\ Drops(s1, u, 0)
    <2>1. ~Over(s1)
      BY <1>1, <1>2, <1>9, DropsOver
    <2>2. Drops(s1, u, 0)
      BY <1>1, <1>2, <1>9 DEF Drops
    <2> QED
      BY <2>1, <2>2
  <1>11. Arrives(m, dcl, bs, bt, h, vs, vt, s, s1, 1, a, b[2], {b[2], b[3]})
    <2> DEFINE d1 == b[2]
               T == {b[2], b[3]}
    <2>1. d1 \in T /\ Into(bs, d1) = {} /\ IsBranch(bs, s.fn, i, a, T)
      BY <1>6, <1>8
    <2>2. s1.loops \subseteq s.loops /\ s1.vars \subseteq s.vars /\ s1.fn = s.fn /\ Drops(s, s1, 1) /\ 1 \in Nat
      BY <1>9
    <2> HIDE DEF d1, T
    <2>3. Arrives(m, dcl, bs, bt, h, vs, vt, s, s1, 1, a, d1, T)
      BY ONLY <1>1, <1>7, <1>10, <2>1, <2>2, BranchTo DEF bt, vt
    <2> QED
      BY <2>3 DEF d1, T
  <1> HIDE DEF bt, vt
  <1>12. MayStart(m, dcl, s1, e.subs[2], after)
    BY <1>1, <1>3, <1>9, <1>10 DEF MayStart
  <1>13. Starts(m, dcl, s1.size, e.subs[2], s1, r) /\ IsOnto(s1, e.subs[2], after, r)
    BY <1>12, Onto
  <1>14. Path(m, dcl, s1.size, x, s1, r)
    BY <1>13, PathGenerate
  <1> HIDE DEF r, x
  <1>15. Pending(z) = {b[3]} /\ Unreached(z) = {} /\ Awaited(z, u) = {b[3]} /\ Saved(z, u) = {}
         /\ Pops(z) = 1 /\ z.do # "end"
    BY <1>4 DEF Pending, Unreached, Awaited, Saved, Pops
  <1>16. Rule(m, dcl, z, r, u)
    <2>1. Drops(r, u, 1)
      BY <1>9, <1>10, <1>13, OntoThen
    <2>2. r.fn = s.fn /\ r.vars = after /\ s.vars \subseteq after /\ TopIs(r, 1, e.subs[2].type) /\ b[1] \in r.loops
      BY <1>1, <1>9, <1>13 DEF IsOnto
    <2>3. RuleValue(z, r, u, e)
      BY <1>2, <1>4, <2>1, <2>2 DEF RuleValue
    <2>4. RuleParts(m, z, r, u, e) /\ RuleFunction(m, dcl, z, r, u, e)
      BY <1>4 DEF RuleParts, RuleFunction
    <2>5. z.do \in Tasks
      BY <1>4 DEF Tasks, Forks
    <2>6. r.inside /\ r.size \in Nat /\ r.fn \in dcl /\ u.fn = r.fn /\ u.inside /\ u.loops \subseteq r.loops
      BY <1>1, <1>9, <1>13 DEF IsOnto
    <2> QED
      BY <1>4, <2>2, <2>3, <2>4, <2>5, <2>6 DEF Rule
  <1>17. Under(z, r) = s.size - 1
    BY <1>1, <1>9, <1>13, <1>15 DEF Under, IsOnto
  <1>18. TaskSound(bt, h, vt, z, r, u)
    <2>1. Open(bt, s.fn, b[3])
      BY <1>6, <1>11 DEF Arrives
    <2>2. r.fn = s.fn
      BY <1>9, <1>13 DEF IsOnto
    <2>3. ReadyAt(bt, h, vt, b[3], u, s.size - 1)
      <3>1. ReadyAt(bt, h, vt, b[3], s1, s.size - 1)
        BY <1>6, <1>11 DEF Arrives
      <3> DEFINE n == s.size - 1
      <3>2. n \in Int /\ ReadyAt(bt, h, vt, b[3], s1, n) /\ n <= n /\ \A k \in 1..n : FromBelow(vt, k) = FromBelow(vt, k)
        BY <1>1, <3>1
      <3>3. u.fn = s1.fn /\ u.vars \subseteq s1.vars /\ u.loops \subseteq s1.loops
        BY <1>1, <1>2, <1>9
      <3> HIDE DEF n
      <3>4. ReadyAt(bt, h, vt, b[3], u, n)
        BY <3>2, <3>3, ReadyLess
      <3> QED
        BY <3>4 DEF n
    <2> QED
      BY <1>4, <1>6, <1>15, <1>17, <2>1, <2>2, <2>3 DEF TaskSound, Open
  <1>19. Waits(bs, bt, h, vt, t, s, u, z, r, s1, b[2])
    <2>1. \A d \in Pending(z) : d # b[2] /\ d \in Pending(t)
      BY <1>5, <1>6, <1>15
    <2>2. r.fn = s.fn /\ s1.vars \subseteq r.vars /\ r.loops = s1.loops
      BY <1>9, <1>13 DEF IsOnto
    <2> QED
      BY <1>2, <1>5, <1>9, <1>15, <1>17, <1>18, <2>1, <2>2 DEF Waits
  <1>20. Touches(bs, bt, {a}, {b[2], b[3]}, {}, h, h, vs, vt, t, s, a)
    BY <1>5, <1>11 DEF Touches, Arrives
  <1>21. LeftTo(bs, bt, t, a, b[2], Pending(z))
    BY <1>5, <1>11, <1>15 DEF LeftTo, Arrives
  <1>22. \E c2 : Sound(m, dcl, (x \o <<z>>) \o Tail(ts), c2, vt, bt, h, b[2])
    <2> DEFINE S == {a}
               P == {b[2], b[3]}
               L == {}
    <2>1. Touches(bs, bt, S, P, L, h, h, vs, vt, ts[1], c[1], a) /\ Path(m, dcl, Under(ts[1], c[1]), x, s1, r)
      BY <1>5, <1>9, <1>14, <1>20
    <2>2. b[2] = a \/ b[2] \in Pending(ts[1]) \/ b[2] \notin 1..Len(bs)
      BY <1>5
    <2>3. Heap(m, dcl, bt) /\ Matches(bt, vt, s1) /\ IsCurrent(bt, h, vt, b[2], s1)
      BY <1>11 DEF Arrives
    <2> HIDE DEF S, P, L
    <2> QED
      BY <1>1, <1>16, <1>19, <1>21, <2>1, <2>2, <2>3, ForkStep
  <1>23. x \o <<z>> = <<Generate(e.subs[2]), z>>
    BY PairCat DEF x
  <1> QED
    BY <1>22, <1>23 DEF z, b, bt, vt, i

\* The branch back to the first block of a loop.
Backs(m, dcl, bs, bt, a, l) ==
  /\ Extends(bs, bt, {a}, {}, {l}) /\ Heap(m, dcl, bt) /\ Closed(bt, a) /\ Len(bt) = Len(bs)
  /\ \A c \in 1..Len(bs) : c # a => bt[c] = bs[c]

LEMMA BranchBack ==
  ASSUME NEW m, NEW dcl, NEW t, NEW s, NEW u, NEW vs, NEW bs, NEW h, NEW a, Begins(m, dcl, t, s, u, vs, bs, h, a),
         ~Over(s), NEW l \in s.loops, NEW i, i = Br(l)
  PROVE  Backs(m, dcl, bs, Emit(bs, a, i), a, l)
  <1> DEFINE bt == Emit(bs, a, i)
             T == {l}
             P == {}
  <1>1. /\ BlockShape(bs) /\ a \in 1..Len(bs) /\ bs[a].function = s.fn /\ Heap(m, dcl, bs)
        /\ l \in 1..Len(bs) /\ NoPhi(bs, l) /\ Dom(bs, l, a) /\ ~Closed(bs, a)
    BY DEF Begins, ReadyAt
  <1>2. i.op = "br" /\ i.args = <<>> /\ i.to = <<l>>
    BY InstrFields DEF Br
  <1>3. IsSeq(i.args) /\ Len(i.args) = 0 /\ IsSeq(i.to) /\ Elements(i.to) = T /\ Len(i.to) = 1 /\ i.to[1] = l
    BY <1>2, ElementsOne, SeqNone
  <1>4. IsTerminator(i) /\ Targets(i) = T
    BY <1>2, <1>3 DEF IsTerminator, Terminators, Targets
  <1>5. ToLoop(bs, a, Targets(i))
    BY <1>1, <1>4 DEF ToLoop
  <1>6. Emits(bs, a, i)
    BY <1>1, <1>5 DEF Emits
  <1>7. InstrSound(m, dcl, bs, a, i)
    <2>1. bs[l].function = bs[a].function
      BY <1>1 DEF Dom
    <2>2. \A k \in 1..Len(i.to) : i.to[k] = l
      BY <1>3
    <2> QED
      BY <1>1, <1>2, <1>3, <2>1, <2>2 DEF InstrSound
  <1>8. Heap(m, dcl, bt)
    BY <1>1, <1>6, <1>7, HeapEmit
  <1>9. Extends(bs, bt, {a}, P, T)
    <2>1. P = {} /\ T = Targets(i) /\ ToLoop(bs, a, Targets(i))
      BY <1>4, <1>5
    <2> HIDE DEF P, T
    <2> QED
      BY <1>6, <2>1, EmitExtends
  <1>10. Closed(bt, a)
    BY <1>1, <1>4, EmitClosed
  <1>11. /\ BlockShape(bt) /\ Len(bt) = Len(bs) /\ Len(bs) \in Nat
         /\ \A c \in 1..Len(bs) : bt[c].function = bs[c].function
         /\ \A c \in 1..Len(bs) : c # a => bt[c] = bs[c]
         /\ Len(bt[a].code) = Len(bs[a].code) + 1 /\ Len(bs[a].code) \in Nat
         /\ \A k \in 1..Len(bs[a].code) : bt[a].code[k] = bs[a].code[k]
         /\ bt[a].code[Len(bs[a].code) + 1] = i
         /\ bt[a].code # <<>>
    BY <1>1, EmitShape
  <1> HIDE DEF bt
  <1> QED
    BY <1>8, <1>9, <1>10, <1>11 DEF bt, Backs

LEMMA AgainStep ==
  ASSUME NEW m \in Modules, NEW dcl, NEW ts, NEW c, NEW vs, NEW bs, NEW h, NEW a,
         Sound(m, dcl, ts, c, vs, bs, h, a), ts # <<>>, ts[1].do = "again"
  PROVE  LET b == ts[1].blocks
             bt == Emit(bs, a, Br(b[1]))
         IN \E c2 : Sound(m, dcl, <<>> \o Tail(ts), c2, Swapped(vs, 1, <<>>), bt, h, b[3])
  <1> DEFINE t == ts[1]
             s == c[1]
             u == c[2]
             e == t.node
             b == t.blocks
             i == Br(b[1])
             bt == Emit(bs, a, i)
             vt == Swapped(vs, 1, <<>>)
  <1>1. /\ Begins(m, dcl, t, s, u, vs, bs, h, a) /\ RuleValue(t, s, u, e)
        /\ s.size \in Nat /\ u.fn = s.fn /\ u.inside /\ u.loops \subseteq s.loops /\ t.do # "end" /\ b[1] \in s.loops
    BY FirstRule DEF Rule
  <1>2. /\ TopIs(s, 1, e.subs[2].type) /\ e.subs[2].type \in ValueTypes
        /\ Drops(s, u, 1) /\ u.vars \subseteq s.vars /\ ~Over(u)
    BY <1>1 DEF RuleValue
  <1>3. Pending(t) = {b[3]} /\ Awaited(t, u) = {b[3]} /\ Pops(t) = 1 /\ Under(t, s) = s.size - 1
    BY DEF Pending, Awaited, Pops, Under
  <1>4. Open(bs, s.fn, b[3]) /\ b[3] # a /\ ReadyAt(bs, h, vs, b[3], u, s.size - 1)
    BY <1>1, <1>3, PendingOpen
  <1>5. ~Over(s) /\ 1 <= s.size
    <2> DEFINE type == e.subs[2].type
    <2>1. 1 \in Nat \ {0} /\ TopIs(s, 1, type) /\ type \in ValueTypes
      BY <1>2
    <2> HIDE DEF type
    <2>2. 1 \in 1..s.size /\ (Over(s) <=> LlvmType(type) = "void")
      BY <1>1, <2>1, TopValue
    <2> QED
      BY <2>1, <2>2, TypeFacts
  <1>6. /\ Extends(bs, bt, {a}, {}, {b[1]}) /\ Heap(m, dcl, bt) /\ Closed(bt, a) /\ Len(bt) = Len(bs)
        /\ \A d \in 1..Len(bs) : d # a => bt[d] = bs[d]
    <2> DEFINE l == b[1]
    <2>1. l \in s.loops /\ i = Br(l)
      BY <1>1
    <2>3. Begins(m, dcl, t, s, u, vs, bs, h, a) /\ ~Over(s)
      BY <1>1, <1>5
    <2> HIDE DEF l, i, t, s, u
    <2>2. Backs(m, dcl, bs, bt, a, l)
      BY ONLY <2>1, <2>3, BranchBack
    <2> HIDE DEF bt
    <2> QED
      BY <2>2 DEF l, Backs
  <1> HIDE DEF bt, b, vt
  <1>7. Matches(bt, vt, u) /\ Keeps(bs, vs, vt, s.size - 1)
    <2> DEFINE S == {a}
               P == {}
               L == {b[1]}
               n == 1
    <2>1. Extends(bs, bt, S, P, L) /\ Matches(bs, vs, s) /\ s.size \in Nat /\ n \in Nat /\ Drops(s, u, n)
          /\ vt = Swapped(vs, n, <<>>)
      BY <1>1, <1>2, <1>6 DEF Begins, vt
    <2> HIDE DEF S, P, L, n
    <2>2. Matches(bt, vt, u) /\ Keeps(bs, vs, vt, s.size - n)
      BY <2>1, MatchesDrops
    <2> QED
      BY <2>2 DEF n
  <1>8. Len(vt) = s.size - 1
    BY <1>2, <1>7 DEF Matches, Drops
  <1>9. ReadyAt(bt, h, vt, b[3], u, s.size - 1)
    <2> DEFINE S == {a}
               P == {}
               L == {b[1]}
               d == b[3]
               n == s.size - 1
    <2>1. Extends(bs, bt, S, P, L) /\ VarsSound(bs, h) /\ d \notin P /\ ReadyAt(bs, h, vs, d, u, n)
          /\ u.loops \cap P = {} /\ Empty(bs, P) /\ Keeps(bs, vs, vt, n)
      BY <1>1, <1>4, <1>6, <1>7 DEF Begins, Empty
    <2>2. u.loops \subseteq 1..Len(bs)
      BY <1>1 DEF Begins
    <2>3. KeepsVars(h, h, u.fn, u.vars)
      BY DEF KeepsVars
    <2> HIDE DEF S, P, L, d, n
    <2>4. ReadyAt(bt, h, vt, d, u, n)
      BY <2>1, <2>2, <2>3, ReadyKept
    <2> QED
      BY <2>4 DEF d, n
  <1>10. IsCurrent(bt, h, vt, b[3], u)
    <2>1. ~Closed(bt, b[3])
      BY <1>4, <1>6 DEF Open, Closed
    <2> QED
      BY <1>2, <1>8, <1>9, <2>1 DEF IsCurrent
  <1>11. Touches(bs, bt, {a}, {}, {b[1]}, h, h, vs, vt, t, s, a)
    BY <1>1, <1>3, <1>6, <1>7 DEF Touches
  <1>12. LeftTo(bs, bt, t, a, b[3], {})
    BY <1>3, <1>6 DEF LeftTo
  <1>13. \E c2 : Sound(m, dcl, <<>> \o Tail(ts), c2, vt, bt, h, b[3])
    <2> DEFINE S == {a}
               P == {}
               L == {b[1]}
    <2>1. Touches(bs, bt, S, P, L, h, h, vs, vt, ts[1], c[1], a) /\ LeftTo(bs, bt, ts[1], a, b[3], {})
      BY <1>11, <1>12
    <2>2. b[3] = a \/ b[3] \in Pending(ts[1]) \/ b[3] \notin 1..Len(bs)
      BY <1>3
    <2> HIDE DEF S, P, L
    <2> QED
      BY <1>1, <1>6, <1>7, <1>10, <2>1, <2>2, ForkEnds
  <1> QED
    BY <1>13 DEF b, bt, vt

-----------------------------------------------------------------------------
(* The ends of the branches of an if.                                        *)

\* Block a goes on at block d, if it goes on.
GoesOn(bs, bt, s, a, d) == bt = IF Over(s) THEN bs ELSE Emit(bs, a, Br(d))
Came(s, a) == IF Over(s) THEN {} ELSE {a}
Joins(m, dcl, bs, bt, s, a, d) ==
  /\ Extends(bs, bt, {a}, {d}, {}) /\ Heap(m, dcl, bt) /\ Closed(bt, a) /\ Len(bt) = Len(bs)
  /\ \A c \in 1..Len(bs) : c # a => bt[c] = bs[c]
  /\ \A x : x # d => Into(bt, x) = Into(bs, x)
  /\ Into(bt, d) = Into(bs, d) \cup Came(s, a)

LEMMA BranchesOn ==
  ASSUME NEW m, NEW dcl, NEW t, NEW s, NEW u, NEW vs, NEW bs, NEW h, NEW a, Begins(m, dcl, t, s, u, vs, bs, h, a),
         ~Over(s), NEW i, NEW T, IsBranch(bs, s.fn, i, a, T)
  PROVE  Branches(m, dcl, bs, Emit(bs, a, i), a, i, T)
  <1>1. /\ i.op = "br" /\ IsSeq(i.args) /\ Uses(bs, i, a) /\ IsSeq(i.to) /\ Elements(i.to) = T
        /\ \A d \in T : Open(bs, s.fn, d) /\ d # a
    BY DEF IsBranch
  <1>2. ToEnds(bs, a, Elements(i.to))
    BY <1>1 DEF Begins, Open, ToEnds
  <1>3. Branches(m, dcl, bs, Emit(bs, a, i), a, i, Elements(i.to))
    BY <1>1, <1>2, BranchEmit
  <1> QED
    BY <1>1, <1>3

LEMMA EndJoins ==
  ASSUME NEW m, NEW dcl, NEW t, NEW s, NEW u, NEW vs, NEW bs, NEW h, NEW a, Begins(m, dcl, t, s, u, vs, bs, h, a),
         NEW d, Open(bs, s.fn, d), d # a, NEW bt, GoesOn(bs, bt, s, a, d)
  PROVE  Joins(m, dcl, bs, bt, s, a, d)
  <1>1. CASE Over(s)
    <2>1. bt = bs /\ Came(s, a) = {} /\ Closed(bs, a) /\ Heap(m, dcl, bs) /\ BlockShape(bs)
      BY <1>1 DEF GoesOn, Came, Begins
    <2> DEFINE S == {a}
               P == {d}
               N == {}
    <2>2. N \subseteq S /\ N \subseteq P /\ N \subseteq N
      OBVIOUS
    <2>3. Extends(bs, bs, N, N, N)
      BY <2>1, ExtendsSame
    <2> HIDE DEF S, P, N
    <2>4. Extends(bs, bs, S, P, N)
      BY <2>2, <2>3, ExtendsMore
    <2> QED
      BY <2>1, <2>4 DEF S, P, N, Joins
  <1>2. CASE ~Over(s)
    <2> DEFINE i == Br(d)
    <2>1. bt = Emit(bs, a, i) /\ Came(s, a) = {a} /\ i = Br(d)
      BY <1>2 DEF GoesOn, Came
    <2> HIDE DEF i
    <2>2. IsBranch(bs, s.fn, i, a, {d})
      BY <2>1, Branch
    <2> DEFINE T == {d}
    <2>3. IsBranch(bs, s.fn, i, a, T)
      BY <2>2
    <2> HIDE DEF T
    <2>4. Branches(m, dcl, bs, bt, a, i, T)
      BY <1>2, <2>1, <2>3, BranchesOn
    <2>5. Branches(m, dcl, bs, bt, a, i, {d})
      BY <2>4 DEF T
    <2>6. \A x : Into(bt, x) = IF x \in {d} THEN Into(bs, x) \cup {a} ELSE Into(bs, x)
      BY <2>5 DEF Branches
    <2>7. (\A x : x # d => Into(bt, x) = Into(bs, x)) /\ Into(bt, d) = Into(bs, d) \cup {a}
      BY <2>6
    <2> QED
      BY <2>1, <2>5, <2>7 DEF Branches, Joins
  <1> QED
    BY <1>1, <1>2

LEMMA JoinsReady ==
  ASSUME NEW m, NEW dcl, NEW t, NEW s, NEW u, NEW vs, NEW bs, NEW h, NEW a, Begins(m, dcl, t, s, u, vs, bs, h, a),
         NEW d, Open(bs, s.fn, d), d # a, NEW bt, GoesOn(bs, bt, s, a, d),
         NEW x, NEW r, NEW n \in Int, n <= s.size, ReadyAt(bs, h, vs, x, r, n), ReadyAt(bs, h, vs, a, r, n),
         r.loops \subseteq s.loops
  PROVE  ReadyAt(bt, h, vs, x, r, n)
  <1>1. CASE Over(s)
    BY <1>1 DEF GoesOn
  <1>2. CASE ~Over(s)
    <2> DEFINE i == Br(d)
               T == {d}
    <2>1. bt = Emit(bs, a, i) /\ i = Br(d)
      BY <1>2 DEF GoesOn
    <2> HIDE DEF i
    <2>2. IsBranch(bs, s.fn, i, a, T)
      BY <2>1, Branch
    <2> HIDE DEF T
    <2>3. Emits(bs, a, i)
      BY <1>2, <2>1, <2>2, BranchesOn, ZenonT(30) DEF Branches
    <2>4. VarsSound(bs, h) /\ s.loops \subseteq 1..Len(bs) /\ Matches(bs, vs, s) /\ s.size \in Nat
      BY DEF Begins
    <2>5. InPlace(bs, vs, n) /\ r.loops \subseteq 1..Len(bs)
      BY <2>4, MatchesInPlace
    <2> QED
      BY <2>1, <2>3, <2>4, <2>5, ReadyEmit
  <1> QED
    BY <1>1, <1>2

LEMMA JoinsUse ==
  ASSUME NEW m, NEW dcl, NEW t, NEW s, NEW u, NEW vs, NEW bs, NEW h, NEW a, Begins(m, dcl, t, s, u, vs, bs, h, a),
         NEW d, Open(bs, s.fn, d), d # a, NEW bt, GoesOn(bs, bt, s, a, d),
         NEW v, NEW x \in 1..Len(bs), UseSound(bs, v, x), x = a \/ bs[x].code # <<>>
  PROVE  UseSound(bt, v, x)
  <1>1. CASE Over(s)
    BY <1>1 DEF GoesOn
  <1>2. CASE ~Over(s)
    <2> DEFINE i == Br(d)
               T == {d}
    <2>1. bt = Emit(bs, a, i) /\ i = Br(d)
      BY <1>2 DEF GoesOn
    <2> HIDE DEF i
    <2>2. IsBranch(bs, s.fn, i, a, T)
      BY <2>1, Branch
    <2> HIDE DEF T
    <2>3. Branches(m, dcl, bs, bt, a, i, T)
      BY <1>2, <2>1, <2>2, BranchesOn
    <2>4. Emits(bs, a, i) /\ Len(bt) = Len(bs) /\ Extends(bs, bt, {a}, T, {})
      BY <2>3 DEF Branches
    <2> DEFINE p == v.place[1]
    <2>5. ASSUME v.place # <<>> PROVE p \in 1..Len(bt) /\ bt[p].code # <<>> /\ Dom(bt, p, x)
      <3>1. p \in 1..Len(bs) /\ bs[p].code # <<>> /\ Dom(bs, p, x)
        BY <2>5 DEF UseSound
      <3> HIDE DEF p
      <3>2. bt[p].code # <<>>
        <4> DEFINE S == {a}
                   N == {}
        <4>1. Extends(bs, bt, S, T, N)
          BY <2>4
        <4> HIDE DEF S, N
        <4> QED
          BY <3>1, <4>1, ExtendsCode
      <3>3. CASE x = a
        BY <2>1, <2>4, <3>1, <3>2, <3>3, EmitDom
      <3>4. CASE bs[x].code # <<>>
        BY <2>1, <2>4, <3>1, <3>2, <3>4, EmitDomInside
      <3> QED
        BY <3>3, <3>4
    <2> QED
      BY <2>5 DEF UseSound
  <1> QED
    BY <1>1, <1>2

\* The value of a branch: there is none if nothing is reached.
LEMMA BranchValue ==
  ASSUME NEW m, NEW dcl, NEW t, NEW s, NEW u, NEW vs, NEW bs, NEW h, NEW a, Begins(m, dcl, t, s, u, vs, bs, h, a),
         NEW e, OneOf(s, e), e.type \in ValueTypes
  PROVE  /\ vs[1] = Never <=> Over(s)
         /\ Over(s) => TopIs(s, 1, "never")
         /\ ~Over(s) => UseSound(bs, vs[1], a) /\ vs[1].type = LlvmType(e.type)
         /\ TopIs(s, 1, "never") => Over(s)
         /\ 1 <= s.size /\ s.size \in Nat
  <1>1. 1 \in Nat \ {0} /\ s.size \in Nat
    BY DEF Begins
  <1>2. CASE TopIs(s, 1, "never")
    <2>1. 1 \in 1..s.size /\ (Over(s) <=> LlvmType("never") = "void") /\ vs[1] = Never
      BY <1>1, <1>2, TopValue
    <2> QED
      BY <1>1, <1>2, <2>1, TypeFacts
  <1>3. CASE TopIs(s, 1, e.type)
    <2>1. 1 \in 1..s.size /\ (Over(s) <=> LlvmType(e.type) = "void") /\ vs[1] # Never /\ UseSound(bs, vs[1], a)
          /\ vs[1].type = LlvmType(e.type)
      BY <1>1, <1>3, TopValue
    <2>2. ~Over(s)
      BY <2>1, TypeFacts
    <2>3. TopIs(s, 1, "never") => LlvmType(e.type) = LlvmType("never")
      BY <1>3 DEF TopIs, Typed
    <2> QED
      BY <1>1, <2>1, <2>2, <2>3, TypeFacts
  <1> QED
    BY <1>2, <1>3 DEF OneOf

\* What the first branch leaves to the merge block.
Comes(s, v, a) == IF Over(s) THEN <<>> ELSE <<[value |-> v, from |-> a]>>

LEMMA AlternateMerges ==
  ASSUME NEW m, NEW dcl, NEW t, NEW s, NEW u, NEW vs, NEW bs, NEW h, NEW a, Begins(m, dcl, t, s, u, vs, bs, h, a),
         NEW e, OneOf(s, e), e.type \in ValueTypes,
         NEW d, Open(bs, s.fn, d), d # a, Into(bs, d) = {}, NEW bt, GoesOn(bs, bt, s, a, d),
         NEW z, z.node = e, z.blocks[3] = d, z.incoming = Comes(s, vs[1], a)
  PROVE  MergeSound(bt, z)
  <1>1. Into(bt, d) = Into(bs, d) \cup Came(s, a)
    <2>1. Joins(m, dcl, bs, bt, s, a, d)
      BY EndJoins
    <2> QED
      BY <2>1 DEF Joins
  <1>2. CASE Over(s)
    BY <1>1, <1>2 DEF Came, Comes, MergeSound
  <1>3. CASE ~Over(s)
    <2> DEFINE v == vs[1]
    <2>1. z.incoming = <<[value |-> v, from |-> a]>> /\ Into(bt, d) = {a}
      BY <1>1, <1>3 DEF Came, Comes
    <2>2. UseSound(bs, v, a) /\ v.type = LlvmType(e.type) /\ a \in 1..Len(bs)
      BY <1>3, BranchValue DEF Begins
    <2> HIDE DEF v
    <2>3. UseSound(bt, v, a)
      BY <2>2, JoinsUse
    <2> QED
      BY <2>1, <2>2, <2>3 DEF MergeSound
  <1> QED
    BY <1>2, <1>3

LEMMA AlternateReady ==
  ASSUME NEW m, NEW dcl, NEW t, NEW s, NEW u, NEW vs, NEW bs, NEW h, NEW a, Begins(m, dcl, t, s, u, vs, bs, h, a),
         t.do \in {"alternate", "and"}, 1 <= s.size, u.fn = s.fn, u.vars \subseteq s.vars, u.loops \subseteq s.loops,
         NEW bt, GoesOn(bs, bt, s, a, t.blocks[3]), NEW vt, vt = Swapped(vs, 1, <<>>), NEW b \in Pending(t)
  PROVE  ReadyAt(bt, h, vt, b, u, s.size - 1) /\ Keeps(bs, vs, vt, s.size - 1)
  <1> DEFINE n == s.size - 1
             d == t.blocks[3]
  <1>1. Pending(t) = {t.blocks[2], d} /\ Unreached(t) = {d} /\ Awaited(t, u) = {t.blocks[2]} /\ Under(t, s) = n
    BY DEF Pending, Unreached, Awaited, Under, Pops
  <1>2. /\ s.size \in Nat /\ ReadyAt(bs, h, vs, a, s, s.size) /\ VarsSound(bs, h) /\ EdgesInside(bs) /\ Len(bs) \in Nat
        /\ s.loops \subseteq 1..Len(bs) /\ Matches(bs, vs, s)
    BY DEF Begins
  <1>3. n \in Int /\ n <= s.size
    BY <1>2
  <1>4. /\ Open(bs, s.fn, d) /\ d # a /\ Into(bs, d) = {} /\ ReadyAt(bs, h, vs, t.blocks[2], u, n)
        /\ Open(bs, s.fn, t.blocks[2]) /\ GoesOn(bs, bt, s, a, d)
    <2>1. /\ \A x \in Pending(t) : Open(bs, s.fn, x) /\ x # a
          /\ \A x \in Unreached(t) : Into(bs, x) = {}
          /\ \A x \in Awaited(t, u) : ReadyAt(bs, h, vs, x, u, Under(t, s))
      BY PendingOpen
    <2> HIDE DEF n
    <2> QED
      BY <1>1, <2>1
  <1> HIDE DEF n, d
  <1>5. ReadyAt(bs, h, vs, a, u, n)
    <2> DEFINE k == s.size
    <2>1. ReadyAt(bs, h, vs, a, s, k) /\ k \in Int /\ n <= k
      BY <1>2, <1>3
    <2>2. \A i \in 1..n : FromBelow(vs, i) = FromBelow(vs, i)
      OBVIOUS
    <2> HIDE DEF k
    <2> QED
      BY <1>3, <2>1, <2>2, ReadyLess
  <1>6. ReadyAt(bs, h, vs, b, u, n)
    <2>1. CASE b = t.blocks[2]
      BY <1>4, <2>1
    <2>2. CASE b = d
      <3>1. InPlace(bs, vs, n)
        BY <1>2, <1>3, MatchesInPlace
      <3>2. d \in 1..Len(bs) /\ bs[d].function = u.fn /\ d # EntryOf(bs, u.fn) /\ u.loops \subseteq 1..Len(bs)
        BY <1>2, <1>4 DEF Open
      <3>3. ReadyAt(bs, h, vs, d, u, n)
        BY <1>2, <1>4, <1>5, <3>1, <3>2, ReadyUnreached
      <3> QED
        BY <2>2, <3>3
    <2> QED
      BY <1>1, <2>1, <2>2
  <1>7. ReadyAt(bt, h, vs, b, u, n)
    BY <1>3, <1>4, <1>5, <1>6, JoinsReady
  <1>8. Keeps(bs, vs, vt, n)
    <2> DEFINE es == <<>>
               k == 1
    <2>1. k \in Nat /\ k <= s.size /\ IsSeq(es) /\ vt = Swapped(vs, k, es) /\ n = s.size - k
      BY SeqNone DEF n
    <2> HIDE DEF es, k
    <2>2. Keeps(bs, vs, vt, s.size - k)
      BY <1>2, <2>1, ValuesUnder
    <2> QED
      BY <2>1, <2>2
  <1>9. ReadyAt(bt, h, vt, b, u, n)
    <2>1. n <= n /\ \A i \in 1..n : FromBelow(vt, i) = FromBelow(vs, i)
      BY <1>3, <1>8 DEF Keeps
    <2> QED
      BY <1>3, <1>7, <2>1, ReadyLess
  <1> QED
    BY <1>8, <1>9 DEF n

LEMMA AlternateStep ==
  ASSUME NEW m \in Modules, NEW dcl, NEW ts, NEW c, NEW vs, NEW bs, NEW h, NEW a,
         Sound(m, dcl, ts, c, vs, bs, h, a), ts # <<>>, ts[1].do = "alternate"
  PROVE  LET e == ts[1].node
             b == ts[1].blocks
             bt == IF vs[1] = Never THEN bs ELSE Emit(bs, a, Br(b[3]))
             incoming == IF vs[1] = Never THEN <<>> ELSE <<[value |-> vs[1], from |-> a]>>
             with == <<Generate(e.subs[3]), [Task("merge", e) EXCEPT !.blocks = b, !.incoming = incoming]>>
         IN \E c2 : Sound(m, dcl, with \o Tail(ts), c2, Swapped(vs, 1, <<>>), bt, h, b[2])
  <1> DEFINE t == ts[1]
             s == c[1]
             u == c[2]
             e == t.node
             b == t.blocks
             bt == IF vs[1] = Never THEN bs ELSE Emit(bs, a, Br(b[3]))
             incoming == IF vs[1] = Never THEN <<>> ELSE <<[value |-> vs[1], from |-> a]>>
             vt == Swapped(vs, 1, <<>>)
             z == [Task("merge", e) EXCEPT !.blocks = b, !.incoming = incoming]
             s1 == Dropped(u, 1, u.vars)
             x == <<Generate(e.subs[3])>>
  <1>1. /\ Begins(m, dcl, t, s, u, vs, bs, h, a) /\ RuleParts(m, t, s, u, e) /\ s.inside /\ s.fn \in dcl
        /\ s.size \in Nat /\ u.fn = s.fn /\ u.inside /\ u.loops \subseteq s.loops /\ t.do # "end"
    BY FirstRule DEF Rule
  <1>2. /\ OneOf(s, e) /\ (TopIs(s, 1, "never") => e.subs[3].type = e.type)
        /\ e.type \in ValueTypes /\ e.subs[3].type \in {e.type, "never"}
        /\ Gives(s, u, 1, e.type) /\ u.vars \subseteq s.vars /\ ~Over(Dropped(s, 1, s.vars))
        /\ \E after : Inner(m, s.fn, u.vars, e.subs[3], after)
    BY <1>1 DEF RuleParts
  <1>3. PICK after : Inner(m, s.fn, u.vars, e.subs[3], after)
    BY <1>2
  <1> DEFINE r == Pushed(s1, 0, e.subs[3].type, after)
  <1>4. z.do = "merge" /\ z.node = e /\ z.blocks = b /\ z.incoming = incoming
    BY ForkFields
  <1>5. Pending(t) = {b[2], b[3]} /\ Unreached(t) = {b[3]} /\ Pops(t) = 1 /\ Under(t, s) = s.size - 1
    BY DEF Pending, Unreached, Pops, Under
  <1>6. /\ \A d \in {b[2], b[3]} : Open(bs, s.fn, d) /\ d # a
        /\ Into(bs, b[3]) = {}
        /\ b[1] # b[2] /\ b[1] # b[3] /\ b[2] # b[3]
    <2>1. /\ \A d \in Pending(t) : Open(bs, s.fn, d) /\ d # a
          /\ \A d \in Unreached(t) : Into(bs, d) = {}
          /\ t.do \in Forks =>
               t.blocks[1] # t.blocks[2] /\ t.blocks[1] # t.blocks[3] /\ t.blocks[2] # t.blocks[3]
      BY <1>1, PendingOpen
    <2> QED
      BY <1>5, <2>1 DEF Forks
  <1>7. /\ vs[1] = Never <=> Over(s)
        /\ Over(s) => TopIs(s, 1, "never")
        /\ ~Over(s) => UseSound(bs, vs[1], a) /\ vs[1].type = LlvmType(e.type)
        /\ 1 <= s.size
    BY <1>1, <1>2, BranchValue
  <1>8. GoesOn(bs, bt, s, a, b[3]) /\ incoming = Comes(s, vs[1], a)
    BY <1>7 DEF GoesOn, Comes
  <1> HIDE DEF z, b, bt, incoming
  <1>9. /\ s1.size = s.size - 1 /\ s1.size \in Nat /\ s1.fn = s.fn /\ s1.vars = u.vars
        /\ s1.loops = u.loops /\ s1.inside /\ s1.stack = u.stack
    <2>1. u.size = s.size - 1 + 1
      BY <1>2 DEF Gives
    <2>2. u.size \in Nat /\ 1 \in Nat /\ 1 <= u.size /\ u.size = s.size
      BY <1>1, <1>7, <2>1
    <2>3. /\ s1.size = u.size - 1 /\ s1.size \in Nat /\ s1.fn = u.fn /\ s1.vars = u.vars
          /\ s1.loops = u.loops /\ s1.inside /\ s1.stack = u.stack
      BY <2>2, DroppedFacts
    <2> QED
      BY <1>1, <2>2, <2>3
  <1> HIDE DEF s1
  <1>10. Drops(s, s1, 1) /\ ~Over(s1) /\ Gives(s1, u, 0, e.type)
    <2>1. Drops(s, s1, 1)
      BY <1>2, <1>7, <1>9 DEF Drops, Gives
    <2>2. Drops(s, Dropped(s, 1, s.vars), 1)
      BY <1>1, <1>7, DroppedFacts
    <2>3. ~Over(s1)
      BY <1>1, <1>2, <2>1, <2>2, DropsOver
    <2>4. Gives(s1, u, 0, e.type)
      <3>1. u.size = s.size - 1 + 1 /\ u.stack[u.size] = Typed(e.type, s.fn)
        BY <1>2 DEF Gives
      <3>2. u.size = s1.size - 0 + 1 /\ 0 <= s1.size
        BY <1>1, <1>9, <3>1
      <3> QED
        BY <1>9, <3>1, <3>2 DEF Gives
    <2> QED
      BY <2>1, <2>3, <2>4
  <1>11. Joins(m, dcl, bs, bt, s, a, b[3])
    <2> DEFINE d == b[3]
    <2>1. Open(bs, s.fn, d) /\ d # a /\ GoesOn(bs, bt, s, a, d)
      BY <1>6, <1>8
    <2> HIDE DEF d
    <2>2. Joins(m, dcl, bs, bt, s, a, d)
      BY <1>1, <2>1, EndJoins
    <2> QED
      BY <2>2 DEF d
  <1>12. /\ ReadyAt(bt, h, vt, b[2], u, s.size - 1) /\ ReadyAt(bt, h, vt, b[3], u, s.size - 1)
         /\ Keeps(bs, vs, vt, s.size - 1)
    <2>1. GoesOn(bs, bt, s, a, t.blocks[3]) /\ b[2] \in Pending(t) /\ b[3] \in Pending(t)
      BY <1>5, <1>8 DEF b
    <2> DEFINE b2 == b[2]
               b3 == b[3]
    <2>2. b2 \in Pending(t) /\ b3 \in Pending(t)
      BY <2>1
    <2> HIDE DEF b2, b3
    <2>3. ReadyAt(bt, h, vt, b2, u, s.size - 1) /\ Keeps(bs, vs, vt, s.size - 1)
      BY <1>1, <1>2, <1>7, <2>1, <2>2, AlternateReady
    <2>4. ReadyAt(bt, h, vt, b3, u, s.size - 1)
      BY <1>1, <1>2, <1>7, <2>1, <2>2, AlternateReady
    <2> QED
      BY <2>3, <2>4 DEF b2, b3
  <1>13. MergeSound(bt, z)
    <2> DEFINE d == b[3]
    <2>1. Open(bs, s.fn, d) /\ d # a /\ Into(bs, d) = {} /\ GoesOn(bs, bt, s, a, d) /\ z.node = e /\ z.blocks[3] = d
          /\ z.incoming = Comes(s, vs[1], a)
      BY <1>4, <1>6, <1>8
    <2> HIDE DEF d
    <2> QED
      BY <1>1, <1>2, <2>1, AlternateMerges
  <1>14. Open(bt, s.fn, b[3]) /\ ~Closed(bt, b[2]) /\ Len(bt) = Len(bs) /\ Heap(m, dcl, bt) /\ Closed(bt, a)
         /\ Extends(bs, bt, {a}, {b[3]}, {})
    <2>1. Len(bt) = Len(bs) /\ Heap(m, dcl, bt) /\ Closed(bt, a)
         /\ Extends(bs, bt, {a}, {b[3]}, {}) /\ \A d \in 1..Len(bs) : d # a => bt[d] = bs[d]
      BY <1>11 DEF Joins
    <2>2. ~Closed(bt, b[2])
      BY <1>6, <2>1 DEF Open, Closed
    <2>3. Open(bt, s.fn, b[3])
      <3>1. Over(s) => bt = bs
        BY <1>8 DEF GoesOn
      <3>2. ~Over(s) => bt = Emit(bs, a, Br(b[3]))
        BY <1>8 DEF GoesOn
      <3>3. BlockShape(bs) /\ a \in 1..Len(bs)
        BY <1>1 DEF Begins
      <3> DEFINE i == Br(b[3])
                 d == b[3]
      <3>4. Open(bs, s.fn, d) /\ d # a /\ (~Over(s) => bt = Emit(bs, a, i))
        BY <1>6, <3>2
      <3> HIDE DEF i, d
      <3>5. Open(bt, s.fn, d)
        BY <3>1, <3>3, <3>4, OpenEmit
      <3> QED
        BY <3>5 DEF d
    <2> QED
      BY <2>1, <2>2, <2>3
  <1>15. Matches(bt, vt, s1) /\ Len(vt) = s.size - 1
    <2> DEFINE S == {a}
               P == {b[3]}
               L == {}
               n == 1
    <2>1. Extends(bs, bt, S, P, L) /\ Matches(bs, vs, s) /\ s.size \in Nat /\ n \in Nat /\ Drops(s, s1, n)
          /\ vt = Swapped(vs, n, <<>>)
      BY <1>1, <1>10, <1>14 DEF Begins
    <2> HIDE DEF S, P, L, n, vt
    <2>2. Matches(bt, vt, s1)
      BY <2>1, MatchesDrops
    <2> QED
      BY <1>9, <2>2 DEF Matches
  <1> HIDE DEF vt
  <1>16. IsCurrent(bt, h, vt, b[2], s1)
    <2> DEFINE n == s.size - 1
    <2>1. n \in Int /\ ReadyAt(bt, h, vt, b[2], u, n) /\ n <= n /\ \A k \in 1..n : FromBelow(vt, k) = FromBelow(vt, k)
      BY <1>1, <1>12
    <2>2. s1.fn = u.fn /\ s1.vars \subseteq u.vars /\ s1.loops \subseteq u.loops
      BY <1>1, <1>9
    <2> HIDE DEF n
    <2>3. ReadyAt(bt, h, vt, b[2], s1, n)
      BY <2>1, <2>2, ReadyLess
    <2> QED
      BY <1>10, <1>14, <1>15, <2>3 DEF IsCurrent, n
  <1>17. MayStart(m, dcl, s1, e.subs[3], after)
    BY <1>1, <1>3, <1>9, <1>10 DEF MayStart
  <1>18. Starts(m, dcl, s1.size, e.subs[3], s1, r) /\ IsOnto(s1, e.subs[3], after, r)
    BY <1>17, Onto
  <1>19. Path(m, dcl, s1.size, x, s1, r)
    BY <1>18, PathGenerate
  <1> HIDE DEF r, x
  <1>20. Pending(z) = {b[3]} /\ Unreached(z) = {} /\ Awaited(z, u) = {b[3]} /\ Saved(z, u) = {}
         /\ Pops(z) = 1 /\ z.do # "end"
    BY <1>4 DEF Pending, Unreached, Awaited, Saved, Pops
  <1>21. Rule(m, dcl, z, r, u)
    <2>1. Gives(r, u, 1, e.type)
      BY <1>9, <1>10, <1>18, OntoThen
    <2>2. r.fn = s.fn /\ r.vars = after /\ u.vars \subseteq after /\ TopIs(r, 1, e.subs[3].type)
      BY <1>9, <1>18 DEF IsOnto
    <2>3. OneOf(r, e)
      BY <1>2, <2>2 DEF OneOf
    <2>4. TopIs(r, 1, "never") => z.incoming # <<>>
      <3>1. ASSUME TopIs(r, 1, "never") PROVE ~Over(s)
        <4>1. LlvmType(e.subs[3].type) = LlvmType("never")
          BY <2>2, <3>1 DEF TopIs, Typed
        <4> QED
          BY <1>2, <1>7, <4>1, TypeFacts
      <3> DEFINE q == [value |-> vs[1], from |-> a]
      <3>2. ~Over(s) => z.incoming = <<q>>
        BY <1>4, <1>8 DEF Comes
      <3> HIDE DEF q
      <3>3. <<q>> # <<>>
        BY SeqOne
      <3> QED
        BY <3>1, <3>2, <3>3
    <2>5. RuleValue(z, r, u, e)
      BY <1>2, <1>4, <2>1, <2>2, <2>3, <2>4 DEF RuleValue
    <2>6. RuleParts(m, z, r, u, e) /\ RuleFunction(m, dcl, z, r, u, e)
      BY <1>4 DEF RuleParts, RuleFunction
    <2>7. z.do \in Tasks /\ z.do \notin {"body", "again"}
      BY <1>4 DEF Tasks, Forks
    <2>8. r.inside /\ r.size \in Nat /\ r.fn \in dcl /\ u.fn = r.fn /\ u.inside /\ u.loops \subseteq r.loops
      BY <1>1, <1>9, <1>18 DEF IsOnto
    <2> QED
      BY <1>4, <2>5, <2>6, <2>7, <2>8 DEF Rule
  <1>22. Under(z, r) = s.size - 1
    BY <1>1, <1>9, <1>18, <1>20 DEF Under, IsOnto
  <1>23. TaskSound(bt, h, vt, z, r, u)
    <2>1. r.fn = s.fn
      BY <1>9, <1>18 DEF IsOnto
    <2> QED
      BY <1>4, <1>6, <1>12, <1>13, <1>14, <1>20, <1>22, <2>1 DEF TaskSound, Open
  <1>24. Waits(bs, bt, h, vt, t, s, u, z, r, s1, b[2])
    <2>1. \A d \in Pending(z) : d # b[2] /\ d \in Pending(t)
      BY <1>5, <1>6, <1>20
    <2>2. r.fn = s.fn /\ s1.vars \subseteq r.vars /\ r.loops = s1.loops
      BY <1>9, <1>18 DEF IsOnto
    <2>3. s1.loops \subseteq s.loops
      BY <1>1, <1>9
    <2> QED
      BY <1>5, <1>9, <1>20, <1>22, <1>23, <2>1, <2>2, <2>3 DEF Waits
  <1>25. Touches(bs, bt, {a}, {b[3]}, {}, h, h, vs, vt, t, s, a)
    BY <1>5, <1>12, <1>14 DEF Touches
  <1>26. LeftTo(bs, bt, t, a, b[2], Pending(z))
    BY <1>5, <1>14, <1>20 DEF LeftTo
  <1>27. \E c2 : Sound(m, dcl, (x \o <<z>>) \o Tail(ts), c2, vt, bt, h, b[2])
    <2> DEFINE S == {a}
               P == {b[3]}
               L == {}
    <2>1. Touches(bs, bt, S, P, L, h, h, vs, vt, ts[1], c[1], a) /\ Path(m, dcl, Under(ts[1], c[1]), x, s1, r)
      BY <1>5, <1>9, <1>19, <1>25
    <2>2. b[2] = a \/ b[2] \in Pending(ts[1]) \/ b[2] \notin 1..Len(bs)
      BY <1>5
    <2> HIDE DEF S, P, L
    <2> QED
      BY <1>1, <1>14, <1>15, <1>16, <1>21, <1>24, <1>26, <2>1, <2>2, ForkStep
  <1>28. x \o <<z>> = <<Generate(e.subs[3]), z>>
    BY PairCat DEF x
  <1> QED
    BY <1>27, <1>28 DEF z, b, bt, vt, incoming

\* The branches have come together in block b, of which bj has them.
Together(m, dcl, bs, bj, h, vs, t, s, u, a, b, type) ==
  /\ \E S : S \subseteq {a} \cup Pending(t) /\ Extends(bs, bj, S, {b}, {})
  /\ Heap(m, dcl, bj) /\ Len(bj) = Len(bs) /\ b \in Pending(t) /\ b \in 1..Len(bs)
  /\ bj[b].code = <<>> /\ bj[b].function = s.fn
  /\ ReadyAt(bj, h, vs, b, u, s.size - 1) /\ LeftTo(bs, bj, t, a, b, {})
  /\ type \in ValueTypes /\ Gives(s, u, 1, type) /\ u.fn = s.fn /\ Pops(t) = 1 /\ t.do # "end"
  /\ u.loops \subseteq s.loops
Merged(m, dcl, bs, bt, h, vs, t, s, u, a, b) ==
  /\ \E S : S \subseteq {a} \cup Pending(t) /\ Extends(bs, bt, S, {b}, {})
  /\ Heap(m, dcl, bt) /\ Len(bt) = Len(bs) /\ ~Closed(bt, b) /\ bt[b].code # <<>> /\ bt[b].function = s.fn
  /\ ReadyAt(bt, h, vs, b, u, s.size - 1) /\ LeftTo(bs, bt, t, a, b, {})

\* The instruction at the start of the block.
LEMMA PhiEmit ==
  ASSUME NEW m, NEW dcl, NEW t, NEW s, NEW u, NEW vs, NEW bs, NEW h, NEW a, Begins(m, dcl, t, s, u, vs, bs, h, a),
         NEW bj, NEW b, NEW type, Together(m, dcl, bs, bj, h, vs, t, s, u, a, b, type),
         NEW i, i.op = "phi", InstrSound(m, dcl, bj, b, i)
  PROVE  Merged(m, dcl, bs, Emit(bj, b, i), h, vs, t, s, u, a, b)
  <1> DEFINE bt == Emit(bj, b, i)
             P == {b}
             N == {}
             n == s.size - 1
  <1>1. PICK S : S \subseteq {a} \cup Pending(t) /\ Extends(bs, bj, S, P, N)
    BY DEF Together
  <1>2. BlockShape(bj) /\ b \in 1..Len(bj) /\ Len(bj) = Len(bs) /\ bj[b].code = <<>> /\ Heap(m, dcl, bj)
    BY HeapShape DEF Together
  <1>3. ~IsTerminator(i) /\ Targets(i) = {}
    BY DEF IsTerminator, Terminators, Targets
  <1>4. Emits(bj, b, i)
    BY <1>2, <1>3 DEF Emits, Closed, ToEnds
  <1>5. Heap(m, dcl, bt)
    BY <1>2, <1>4, HeapEmit
  <1>6. Extends(bj, bt, P, P, N)
    <2>1. P = {b} /\ N = {} /\ i.op = "phi"
      OBVIOUS
    <2> HIDE DEF P, N, bt
    <2>2. Extends(bj, bt, {b}, P, N)
      BY <1>4, <2>1, EmitExtends DEF bt
    <2> QED
      BY <2>1, <2>2
  <1>7. Extends(bs, bt, S \cup P, P, N)
    <2> HIDE DEF P, N, bt
    <2>1. Extends(bs, bt, S \cup P, P \cup P, N \cup N)
      BY <1>1, <1>6, ExtendsTwice
    <2>2. P \cup P = P /\ N \cup N = N
      OBVIOUS
    <2> QED
      BY <2>1, <2>2
  <1>8. /\ BlockShape(bt) /\ Len(bt) = Len(bj) /\ Len(bj) \in Nat
        /\ \A c \in 1..Len(bj) : bt[c].function = bj[c].function
        /\ \A c \in 1..Len(bj) : c # b => bt[c] = bj[c]
        /\ Len(bt[b].code) = Len(bj[b].code) + 1 /\ Len(bj[b].code) \in Nat
        /\ \A k \in 1..Len(bj[b].code) : bt[b].code[k] = bj[b].code[k]
        /\ bt[b].code[Len(bj[b].code) + 1] = i
        /\ bt[b].code # <<>>
    <2>1. BlockShape(bj) /\ b \in 1..Len(bj)
      BY <1>2
    <2> QED
      BY ONLY <2>1, EmitShape
  <1>9. ~Closed(bt, b)
    BY <1>2, <1>3, EmitClosed
  <1>10. ReadyAt(bt, h, vs, b, u, n)
    <2>1. VarsSound(bs, h) /\ Matches(bs, vs, s) /\ s.size \in Nat /\ n \in Int /\ n <= s.size
      BY DEF Begins
    <2>2. InPlace(bs, vs, n)
      BY <2>1, MatchesInPlace
    <2>3. InPlace(bj, vs, n)
      BY <1>2, <2>2 DEF InPlace
    <2>4. VarsSound(bj, h)
      <3> HIDE DEF P, N
      <3> QED
        BY <1>1, <2>1, VarsExtend
    <2>5. ReadyAt(bj, h, vs, b, u, n)
      BY DEF Together
    <2>6. u.loops \subseteq 1..Len(bj)
      BY <1>2 DEF Begins, Together
    <2> HIDE DEF n
    <2> QED
      BY <1>3, <1>4, <2>3, <2>4, <2>5, <2>6, ReadyEmit
  <1>11. LeftTo(bs, bt, t, a, b, {})
    <2>1. LeftTo(bs, bj, t, a, b, {})
      BY DEF Together
    <2> HIDE DEF bt
    <2> QED
      BY <1>8, <2>1 DEF LeftTo, Closed
  <1>12. S \cup P \subseteq {a} \cup Pending(t)
    BY <1>1 DEF Together
  <1>13. bt[b].function = s.fn
    BY <1>2, <1>8 DEF Together
  <1> HIDE DEF bt
  <1> QED
    BY <1>2, <1>5, <1>7, <1>8, <1>9, <1>10, <1>11, <1>12, <1>13 DEF bt, Merged

LEMMA PhiEnds ==
  ASSUME NEW m \in Modules, NEW dcl, NEW ts, NEW c, NEW vs, NEW bs, NEW h, NEW a,
         Sound(m, dcl, ts, c, vs, bs, h, a), ts # <<>>,
         NEW bj, NEW b, NEW type, Together(m, dcl, bs, bj, h, vs, ts[1], c[1], c[2], a, b, type),
         NEW i, i.op = "phi", InstrSound(m, dcl, bj, b, i)
  PROVE  LET bt == Emit(bj, b, i)
         IN \E c2 : Sound(m, dcl, <<>> \o Tail(ts), c2, Swapped(vs, 1, <<Result(type, bt, b)>>), bt, h, b)
  <1> DEFINE t == ts[1]
             s == c[1]
             u == c[2]
             bt == Emit(bj, b, i)
             v == Result(type, bt, b)
             vt == Swapped(vs, 1, <<v>>)
             P == {b}
             N == {}
  <1>1. Begins(m, dcl, t, s, u, vs, bs, h, a)
    BY FirstRule
  <1>2. /\ b \in Pending(t) /\ b \in 1..Len(bs) /\ type \in ValueTypes /\ Gives(s, u, 1, type) /\ u.fn = s.fn
        /\ Pops(t) = 1 /\ t.do # "end" /\ u.loops \subseteq s.loops
    BY DEF Together
  <1>3. /\ \E S : S \subseteq {a} \cup Pending(t) /\ Extends(bs, bt, S, {b}, {})
        /\ Heap(m, dcl, bt) /\ Len(bt) = Len(bs) /\ ~Closed(bt, b) /\ bt[b].code # <<>> /\ bt[b].function = s.fn
        /\ ReadyAt(bt, h, vs, b, u, s.size - 1) /\ LeftTo(bs, bt, t, a, b, {})
    <2>1. Merged(m, dcl, bs, bt, h, vs, t, s, u, a, b)
      BY <1>1, PhiEmit
    <2> HIDE DEF bt
    <2> QED
      BY <2>1 DEF Merged
  <1> HIDE DEF bt
  <1>4. PICK S : S \subseteq {a} \cup Pending(t) /\ Extends(bs, bt, S, P, N)
    BY <1>3
  <1>5. ValueSound(bt, v, Typed(type, s.fn)) /\ Dom(bt, v.place[1], b)
    <2>1. b \in 1..Len(bt)
      BY <1>2, <1>3
    <2>2. ValueSound(bt, v, Typed(type, bt[b].function)) /\ Dom(bt, v.place[1], b)
      BY <1>2, <1>3, <2>1, ResultSound
    <2> QED
      BY <1>3, <2>2
  <1> HIDE DEF v
  <1>6. s.size \in Nat /\ Matches(bs, vs, s) /\ 1 <= s.size
    BY <1>1, <1>2 DEF Begins, Gives
  <1>7. Matches(bt, vt, u) /\ Keeps(bs, vs, vt, s.size - 1) /\ Len(vt) = s.size /\ FromBelow(vt, s.size) = v
    <2> DEFINE n == 1
    <2>1. n \in Nat /\ Gives(s, u, n, type) /\ vt = Swapped(vs, n, <<v>>)
      BY <1>2
    <2> HIDE DEF n, vt, P, N
    <2>2. /\ Matches(bt, vt, u) /\ Keeps(bs, vs, vt, s.size - n)
          /\ Len(vt) = s.size - n + 1 /\ FromBelow(vt, s.size - n + 1) = v
      BY <1>4, <1>5, <1>6, <2>1, MatchesGives
    <2>3. s.size - n + 1 = s.size
      BY <1>6 DEF n
    <2> QED
      BY <2>2, <2>3 DEF n
  <1> HIDE DEF vt
  <1>8. ReadyAt(bt, h, vt, b, u, s.size)
    <2>1. ASSUME NEW k \in 1..s.size, FromBelow(vt, k).place # <<>>, bt[FromBelow(vt, k).place[1]].function = u.fn
          PROVE  Dom(bt, FromBelow(vt, k).place[1], b)
      <3>1. k = s.size \/ k \in 1..s.size - 1
        BY <1>6
      <3>2. CASE k = s.size
        BY <1>5, <1>7, <3>2
      <3>3. CASE k \in 1..s.size - 1
        <4>1. FromBelow(vt, k) = FromBelow(vs, k)
          BY <1>7, <3>3 DEF Keeps
        <4> QED
          BY <1>3, <2>1, <3>3, <4>1 DEF ReadyAt
      <3> QED
        BY <3>1, <3>2, <3>3
    <2> QED
      BY <1>3, <2>1 DEF ReadyAt
  <1>9. IsCurrent(bt, h, vt, b, u)
    <2>1. ~Over(u)
      <3>1. u.stack[u.size].type # "void"
        BY <1>2, TypeFacts DEF Gives, Typed
      <3> QED
        BY <3>1 DEF Over
    <2> QED
      BY <1>3, <1>7, <1>8, <2>1 DEF IsCurrent
  <1>10. Touches(bs, bt, S, P, N, h, h, vs, vt, t, s, a)
    <2>1. Under(t, s) = s.size - 1
      BY <1>2 DEF Under
    <2> QED
      BY <1>2, <1>4, <1>7, <2>1 DEF Touches
  <1>11. LeftTo(bs, bt, ts[1], a, b, {}) /\ ts[1].do # "end" /\ Touches(bs, bt, S, P, N, h, h, vs, vt, ts[1], c[1], a)
         /\ b \in Pending(ts[1])
    BY <1>2, <1>3, <1>10
  <1> HIDE DEF P, N
  <1>12. \E c2 : Sound(m, dcl, <<>> \o Tail(ts), c2, vt, bt, h, b)
    BY <1>3, <1>7, <1>9, <1>11, ForkEnds
  <1> QED
    BY <1>12 DEF vt, v, bt

-----------------------------------------------------------------------------
(* The end of an and.                                                        *)

\* An open block goes on at another one.
LEMMA OpenGoesOn ==
  ASSUME NEW m, NEW dcl, NEW bs, Heap(m, dcl, bs), NEW f, NEW x, NEW d, Open(bs, f, x), Open(bs, f, d), x # d,
         NEW i, i = Br(d)
  PROVE  Branches(m, dcl, bs, Emit(bs, x, i), x, i, {d})
  <1> DEFINE T == {d}
  <1>1. IsBranch(bs, f, i, x, T)
    BY Branch
  <1> HIDE DEF T
  <1>2. /\ i.op = "br" /\ IsSeq(i.args) /\ Uses(bs, i, x) /\ IsSeq(i.to) /\ Elements(i.to) = T
        /\ \A y \in T : Open(bs, f, y) /\ y # x
    BY <1>1 DEF IsBranch
  <1>3. BlockShape(bs) /\ x \in 1..Len(bs) /\ ~Closed(bs, x)
    BY HeapShape DEF Open, Closed
  <1>4. ToEnds(bs, x, Elements(i.to))
    BY <1>2 DEF Open, ToEnds
  <1>5. Branches(m, dcl, bs, Emit(bs, x, i), x, i, Elements(i.to))
    BY <1>2, <1>3, <1>4, BranchPlain
  <1> QED
    BY <1>2, <1>5 DEF T

\* What a block with code uses is still there.
LEMMA EmitUse ==
  ASSUME NEW bs, NEW a, NEW i, Emits(bs, a, i), NEW S, NEW T, NEW N, Extends(bs, Emit(bs, a, i), S, T, N),
         NEW v, NEW x \in 1..Len(bs), UseSound(bs, v, x), bs[x].code # <<>>
  PROVE  UseSound(Emit(bs, a, i), v, x)
  <1> DEFINE bt == Emit(bs, a, i)
             p == v.place[1]
  <1>1. Len(bs) <= Len(bt) /\ Len(bs) \in Nat /\ Len(bt) \in Nat
    BY ExtendsLen
  <1>2. ASSUME v.place # <<>> PROVE p \in 1..Len(bt) /\ bt[p].code # <<>> /\ Dom(bt, p, x)
    <2>1. p \in 1..Len(bs) /\ bs[p].code # <<>> /\ Dom(bs, p, x)
      BY <1>2 DEF UseSound
    <2> HIDE DEF p
    <2>2. bt[p].code # <<>>
      BY <2>1, ExtendsCode
    <2>3. Dom(bt, p, x)
      BY <2>1, EmitDomInside
    <2> HIDE DEF bt
    <2> QED
      BY <1>1, <2>1, <2>2, <2>3
  <1> HIDE DEF bt
  <1> QED
    BY <1>2 DEF UseSound, bt

\* The block of the right operand, and the one that stands for a left operand
\* that is false, go on at the last.
LEMMA AndJoins ==
  ASSUME NEW m, NEW dcl, NEW t, NEW s, NEW u, NEW vs, NEW bs, NEW h, NEW a, Begins(m, dcl, t, s, u, vs, bs, h, a),
         t.do = "and", NEW x, NEW d, x = t.blocks[2], d = t.blocks[3], ~Over(s), 1 <= s.size,
         UseSound(bs, vs[1], a), Gives(s, u, 1, "bool"), u.fn = s.fn, u.vars \subseteq s.vars, u.loops \subseteq s.loops,
         NEW bt, bt = Emit(bs, a, Br(d)), NEW bj, bj = Emit(bt, x, Br(d))
  PROVE  /\ Together(m, dcl, bs, bj, h, vs, t, s, u, a, d, "bool")
         /\ Into(bj, d) = {a, x} /\ a # x /\ a \in 1..Len(bj) /\ x \in 1..Len(bj)
         /\ bj[a].function = s.fn /\ bj[x].function = s.fn
         /\ UseSound(bj, vs[1], a)
  <1> DEFINE i == Br(d)
             n == s.size - 1
             T == {d}
  <1>1. /\ Pending(t) = {x, d} /\ Unreached(t) = {d} /\ Pops(t) = 1 /\ Under(t, s) = n /\ t.do # "end"
    BY DEF Pending, Unreached, Pops, Under
  <1>2. /\ Open(bs, s.fn, x) /\ Open(bs, s.fn, d) /\ x # a /\ d # a /\ x # d /\ Into(bs, d) = {}
    <2>1. /\ \A y \in Pending(t) : Open(bs, s.fn, y) /\ y # a
          /\ \A y \in Unreached(t) : Into(bs, y) = {}
          /\ t.do \in Forks =>
               t.blocks[1] # t.blocks[2] /\ t.blocks[1] # t.blocks[3] /\ t.blocks[2] # t.blocks[3]
      BY PendingOpen
    <2> QED
      BY <1>1, <2>1 DEF Forks
  <1>3. /\ s.size \in Nat /\ VarsSound(bs, h) /\ s.loops \subseteq 1..Len(bs) /\ Matches(bs, vs, s)
        /\ BlockShape(bs) /\ a \in 1..Len(bs) /\ Len(bs) \in Nat /\ bs[a].function = s.fn
    BY DEF Begins
  <1>4. GoesOn(bs, bt, s, a, d)
    BY DEF GoesOn
  <1>5. Joins(m, dcl, bs, bt, s, a, d)
    BY <1>2, <1>4, EndJoins
  <1>6. /\ Extends(bs, bt, {a}, T, {}) /\ Heap(m, dcl, bt) /\ Closed(bt, a) /\ Len(bt) = Len(bs)
        /\ \A y \in 1..Len(bs) : y # a => bt[y] = bs[y]
        /\ Into(bt, d) = {a}
    BY <1>2, <1>5 DEF Joins, Came
  <1>7. Open(bt, s.fn, x) /\ Open(bt, s.fn, d)
    BY <1>2, <1>3, OpenEmit
  <1>8. n \in Int /\ n <= s.size
    BY <1>3
  <1>9. ReadyAt(bt, h, vs, x, u, n) /\ ReadyAt(bt, h, vs, d, u, n)
    <2> DEFINE vt == Swapped(vs, 1, <<>>)
    <2>1. x \in Pending(t) /\ d \in Pending(t) /\ t.do \in {"alternate", "and"} /\ GoesOn(bs, bt, s, a, t.blocks[3])
      BY <1>1, <1>4
    <2>2. vt = Swapped(vs, 1, <<>>)
      OBVIOUS
    <2> HIDE DEF vt
    <2>3. ReadyAt(bt, h, vt, x, u, s.size - 1) /\ Keeps(bs, vs, vt, s.size - 1)
      BY <2>1, <2>2, AlternateReady
    <2>4. ReadyAt(bt, h, vt, d, u, s.size - 1)
      BY <2>1, <2>2, AlternateReady
    <2>5. n <= n /\ \A k \in 1..n : FromBelow(vs, k) = FromBelow(vt, k)
      BY <1>8, <2>3 DEF Keeps
    <2>6. u.fn = u.fn /\ u.vars \subseteq u.vars /\ u.loops \subseteq u.loops
      OBVIOUS
    <2>7. ReadyAt(bt, h, vt, x, u, n) /\ ReadyAt(bt, h, vt, d, u, n)
      BY <2>3, <2>4
    <2> HIDE DEF n
    <2> QED
      BY <1>8, <2>5, <2>6, <2>7, ReadyLess
  <1>10. Branches(m, dcl, bt, bj, x, i, T)
    BY <1>2, <1>6, <1>7, OpenGoesOn
  <1> HIDE DEF i, n, T
  <1>11. /\ Emits(bt, x, i) /\ Extends(bt, bj, {x}, T, {}) /\ Heap(m, dcl, bj) /\ Closed(bj, x) /\ Len(bj) = Len(bt)
         /\ \A y \in 1..Len(bt) : y # x => bj[y] = bt[y]
         /\ \A y \in 1..Len(bt) : bj[y].function = bt[y].function
         /\ Into(bj, d) = {x} \cup Into(bt, d)
    BY <1>10 DEF Branches, T
  <1>12. ReadyAt(bj, h, vs, d, u, n)
    <2>1. VarsSound(bt, h)
      <3> DEFINE S == {a}
                 N == {}
      <3>1. Extends(bs, bt, S, T, N)
        BY <1>6
      <3> HIDE DEF S, N
      <3> QED
        BY <1>3, <3>1, VarsExtend
    <2>2. InPlace(bt, vs, n)
      <3>1. InPlace(bs, vs, n)
        BY <1>3, <1>8, MatchesInPlace
      <3> QED
        BY <1>6, <3>1 DEF InPlace
    <2>3. u.loops \subseteq 1..Len(bt)
      BY <1>3, <1>6
    <2> QED
      BY <1>9, <1>11, <2>1, <2>2, <2>3, ReadyEmit DEF i
  <1>13. UseSound(bj, vs[1], a)
    <2> DEFINE v == vs[1]
               S == {x}
               N == {}
    <2>1. UseSound(bs, v, a) /\ a \in 1..Len(bs) /\ (a = a \/ bs[a].code # <<>>)
      BY <1>3
    <2> HIDE DEF v
    <2>2. UseSound(bt, v, a)
      BY <1>2, <1>4, <2>1, JoinsUse
    <2>3. bt[a].code # <<>> /\ a \in 1..Len(bt) /\ Emits(bt, x, i) /\ Extends(bt, Emit(bt, x, i), S, T, N)
      BY <1>3, <1>6, <1>11 DEF Closed, i
    <2> HIDE DEF S, N
    <2>4. UseSound(Emit(bt, x, i), v, a)
      BY <2>2, <2>3, EmitUse
    <2> QED
      BY <2>4 DEF v, i
  <1>14. Into(bj, d) = {a, x}
    BY <1>6, <1>11
  <1>15. /\ a \in 1..Len(bj) /\ x \in 1..Len(bj) /\ bj[a].function = s.fn /\ bj[x].function = s.fn
    <2>1. bt[a].function = bs[a].function
      BY <1>3, <1>6 DEF Extends
    <2>2. bt[x].function = s.fn
      BY <1>7 DEF Open
    <2>3. x \in 1..Len(bt)
      BY <1>7 DEF Open
    <2> QED
      BY <1>3, <1>6, <1>11, <2>1, <2>2, <2>3
  <1>16. \E S : S \subseteq {a} \cup Pending(t) /\ Extends(bs, bj, S, {d}, {})
    <2> DEFINE A == {a}
               B == {x}
               N == {}
    <2>1. Extends(bs, bt, A, T, N) /\ Extends(bt, bj, B, T, N)
      BY <1>6, <1>11
    <2>2. A \cup B \subseteq {a} \cup Pending(t)
      BY <1>1
    <2> HIDE DEF A, B, N
    <2>3. Extends(bs, bj, A \cup B, T \cup T, N \cup N)
      BY <2>1, ExtendsTwice
    <2>4. T \cup T = {d} /\ N \cup N = {}
      BY DEF T, N
    <2> QED
      BY <2>2, <2>3, <2>4
  <1>17. bj[d].code = <<>> /\ bj[d].function = s.fn /\ d \in Pending(t) /\ d \in 1..Len(bs)
    BY <1>1, <1>2, <1>6, <1>7, <1>11 DEF Open
  <1>18. LeftTo(bs, bj, t, a, d, {})
    <2>1. Closed(bj, a)
      <3>1. bj[a] = bt[a]
        BY <1>2, <1>3, <1>6, <1>11
      <3> QED
        BY <1>6, <3>1 DEF Closed
    <2> QED
      BY <1>1, <1>6, <1>11, <2>1 DEF LeftTo
  <1>19. Len(bj) = Len(bs) /\ "bool" \in ValueTypes
    BY <1>6, <1>11, TypeFacts
  <1>20. ReadyAt(bj, h, vs, d, u, s.size - 1)
    BY <1>12 DEF n
  <1>21. Together(m, dcl, bs, bj, h, vs, t, s, u, a, d, "bool")
    BY <1>1, <1>11, <1>16, <1>17, <1>18, <1>19, <1>20 DEF Together
  <1> QED
    BY <1>2, <1>13, <1>14, <1>15, <1>21

LEMMA PhiFields ==
  ASSUME NEW type, NEW args, NEW to, NEW i, i = Instr("phi", type, args, to)
  PROVE  i.op = "phi" /\ i.name = type /\ i.args = args /\ i.to = to
  BY DEF Instr

LEMMA CardOne ==
  ASSUME NEW x
  PROVE  Cardinality({x}) = 1
  BY FS_Singleton

LEMMA CardTwo ==
  ASSUME NEW x, NEW y, x # y
  PROVE  Cardinality({x, y}) = 2
  <1>1. IsFiniteSet({x}) /\ Cardinality({x}) = 1
    BY FS_Singleton
  <1>2. Cardinality({x} \cup {y}) = Cardinality({x}) + 1
    BY <1>1, FS_AddElement
  <1>3. {x} \cup {y} = {x, y}
    OBVIOUS
  <1> QED
    BY <1>1, <1>2, <1>3

\* A phi with two values.
LEMMA PhiTwo ==
  ASSUME NEW m, NEW dcl, NEW bs, NEW b, NEW type, NEW v, NEW w, NEW x, NEW y, x # y,
         Into(bs, b) = {x, y}, x \in 1..Len(bs), y \in 1..Len(bs),
         bs[x].function = bs[b].function, bs[y].function = bs[b].function,
         v.type = LlvmType(type), w.type = LlvmType(type), UseSound(bs, v, x), UseSound(bs, w, y),
         NEW i, i = Instr("phi", type, <<v, w>>, <<x, y>>)
  PROVE  i.op = "phi" /\ InstrSound(m, dcl, bs, b, i)
  <1> DEFINE args == <<v, w>>
             to == <<x, y>>
  <1>1. /\ IsSeq(args) /\ Len(args) = 2 /\ args[1] = v /\ args[2] = w
        /\ IsSeq(to) /\ Len(to) = 2 /\ to[1] = x /\ to[2] = y /\ Elements(to) = {x, y}
    BY ElementsTwo
  <1>2. i = Instr("phi", type, args, to)
    OBVIOUS
  <1> HIDE DEF args, to
  <1>3. i.op = "phi" /\ i.name = type /\ i.args = args /\ i.to = to
    BY <1>2, PhiFields
  <1>4. Cardinality(Into(bs, b)) = 2
    <2>1. x # y
      OBVIOUS
    <2>2. Cardinality({x, y}) = 2
      BY ONLY <2>1, CardTwo
    <2> QED
      BY <2>2
  <1>5. \A k \in 1..2 : k = 1 \/ k = 2
    OBVIOUS
  <1>6. \A k \in 1..Len(args) : args[k].type = LlvmType(type) /\ UseSound(bs, args[k], to[k])
    BY <1>1, <1>5
  <1>7. PhiSound(bs, b, i)
    BY <1>1, <1>3, <1>4, <1>6, ZenonT(30) DEF PhiSound
  <1>8. \A k \in 1..Len(to) : to[k] \in 1..Len(bs) /\ bs[to[k]].function = bs[b].function
    BY <1>1, <1>5
  <1> QED
    BY <1>1, <1>3, <1>7, <1>8, ZenonT(30) DEF InstrSound

LEMMA PhiOne ==
  ASSUME NEW m, NEW dcl, NEW bs, NEW b, NEW type, NEW v, NEW x,
         Into(bs, b) = {x}, x \in 1..Len(bs), bs[x].function = bs[b].function,
         v.type = LlvmType(type), UseSound(bs, v, x),
         NEW i, i = Instr("phi", type, <<v>>, <<x>>)
  PROVE  i.op = "phi" /\ InstrSound(m, dcl, bs, b, i)
  <1> DEFINE args == <<v>>
             to == <<x>>
  <1>1. /\ IsSeq(args) /\ Len(args) = 1 /\ args[1] = v
        /\ IsSeq(to) /\ Len(to) = 1 /\ to[1] = x /\ Elements(to) = {x}
    BY ElementsOne
  <1>2. i = Instr("phi", type, args, to)
    OBVIOUS
  <1> HIDE DEF args, to
  <1>3. i.op = "phi" /\ i.name = type /\ i.args = args /\ i.to = to
    BY <1>2, PhiFields
  <1>4. Cardinality(Into(bs, b)) = 1
    BY CardOne
  <1>5. \A k \in 1..1 : k = 1
    OBVIOUS
  <1>6. \A k \in 1..Len(args) : args[k].type = LlvmType(type) /\ UseSound(bs, args[k], to[k])
    BY <1>1, <1>5
  <1>7. PhiSound(bs, b, i)
    BY <1>1, <1>3, <1>4, <1>6 DEF PhiSound
  <1>8. \A k \in 1..Len(to) : to[k] \in 1..Len(bs) /\ bs[to[k]].function = bs[b].function
    BY <1>1, <1>5
  <1> QED
    BY <1>1, <1>3, <1>7, <1>8 DEF InstrSound

\* The right operand is there.
LEMMA AndStep ==
  ASSUME NEW m \in Modules, NEW dcl, NEW ts, NEW c, NEW vs, NEW bs, NEW h, NEW a,
         Sound(m, dcl, ts, c, vs, bs, h, a), ts # <<>>, ts[1].do = "and"
  PROVE  LET b == ts[1].blocks
             bj == Emit(Emit(bs, a, Br(b[3])), b[2], Br(b[3]))
             bt == Emit(bj, b[3], Instr("phi", "bool", <<vs[1], Constant("bool", "false")>>, <<a, b[2]>>))
         IN \E c2 : Sound(m, dcl, <<>> \o Tail(ts), c2, Swapped(vs, 1, <<Result("bool", bt, b[3])>>), bt, h, b[3])
  <1> DEFINE t == ts[1]
             s == c[1]
             u == c[2]
             e == t.node
             x == t.blocks[2]
             d == t.blocks[3]
             b1 == Emit(bs, a, Br(d))
             bj == Emit(b1, x, Br(d))
             v == vs[1]
             w == Constant("bool", "false")
             i == Instr("phi", "bool", <<v, w>>, <<a, x>>)
  <1>1. /\ Begins(m, dcl, t, s, u, vs, bs, h, a) /\ RuleValue(t, s, u, e)
        /\ s.size \in Nat /\ u.fn = s.fn /\ u.loops \subseteq s.loops /\ t.do = "and"
    BY FirstRule DEF Rule
  <1>2. TopIs(s, 1, "bool") /\ Gives(s, u, 1, "bool") /\ u.vars \subseteq s.vars
    BY <1>1 DEF RuleValue
  <1>3. 1 <= s.size /\ UseSound(bs, vs[1], a) /\ ~Over(s)
    BY <1>1, <1>2, Condition
  <1>4. v.type = LlvmType("bool")
    <2> DEFINE k == 1
               type == "bool"
    <2>1. k \in Nat \ {0} /\ TopIs(s, k, type)
      BY <1>2
    <2> HIDE DEF k, type
    <2>2. vs[k].type = LlvmType(type)
      BY <1>1, <2>1, TopValue
    <2> QED
      BY <2>2 DEF k, type
  <1>5. x = t.blocks[2] /\ d = t.blocks[3] /\ b1 = Emit(bs, a, Br(d)) /\ bj = Emit(b1, x, Br(d)) /\ v = vs[1]
        /\ i = Instr("phi", "bool", <<v, w>>, <<a, x>>)
    OBVIOUS
  <1> HIDE DEF t, s, u, e, x, d, b1, bj, i, v
  <1>6. /\ Together(m, dcl, bs, bj, h, vs, t, s, u, a, d, "bool")
        /\ Into(bj, d) = {a, x} /\ a # x /\ a \in 1..Len(bj) /\ x \in 1..Len(bj)
        /\ bj[a].function = s.fn /\ bj[x].function = s.fn
        /\ UseSound(bj, vs[1], a)
    <2>1. /\ Begins(m, dcl, t, s, u, vs, bs, h, a) /\ t.do = "and" /\ x = t.blocks[2] /\ d = t.blocks[3] /\ ~Over(s)
          /\ 1 <= s.size /\ UseSound(bs, vs[1], a) /\ Gives(s, u, 1, "bool") /\ u.fn = s.fn
          /\ u.vars \subseteq s.vars /\ u.loops \subseteq s.loops
          /\ b1 = Emit(bs, a, Br(d)) /\ bj = Emit(b1, x, Br(d))
      BY <1>1, <1>2, <1>3, <1>5
    <2>2. Together(m, dcl, bs, bj, h, vs, t, s, u, a, d, "bool")
      BY ONLY <2>1, AndJoins
    <2>3. Into(bj, d) = {a, x}
      BY ONLY <2>1, AndJoins, SMTT(30)
    <2>4. a # x /\ a \in 1..Len(bj) /\ x \in 1..Len(bj)
      BY ONLY <2>1, AndJoins
    <2>5. bj[a].function = s.fn /\ bj[x].function = s.fn
      BY ONLY <2>1, AndJoins
    <2>6. UseSound(bj, vs[1], a)
      BY ONLY <2>1, AndJoins
    <2> QED
      BY <2>2, <2>3, <2>4, <2>5, <2>6
  <1>7. w.type = LlvmType("bool") /\ UseSound(bj, w, x)
    <2>1. w.place = <<>> /\ w.type = LlvmType("bool")
      BY DEF Constant
    <2> HIDE DEF w
    <2> QED
      BY <2>1, TypeFacts DEF UseSound
  <1> HIDE DEF w
  <1>8. bj[d].function = s.fn
    BY <1>6 DEF Together
  <1>9. i.op = "phi" /\ InstrSound(m, dcl, bj, d, i)
    <2> DEFINE type == "bool"
    <2>1. v.type = LlvmType(type) /\ w.type = LlvmType(type) /\ i = Instr("phi", type, <<v, w>>, <<a, x>>)
      BY <1>4, <1>5, <1>7
    <2>2. UseSound(bj, v, a) /\ UseSound(bj, w, x) /\ bj[a].function = bj[d].function /\ bj[x].function = bj[d].function
          /\ Into(bj, d) = {a, x} /\ a # x /\ a \in 1..Len(bj) /\ x \in 1..Len(bj)
      BY <1>5, <1>6, <1>7, <1>8
    <2> HIDE DEF type
    <2> QED
      BY ONLY <2>1, <2>2, PhiTwo, ZenonT(30)
  <1> DEFINE type == "bool"
             bt == Emit(bj, d, i)
  <1>10. Together(m, dcl, bs, bj, h, vs, ts[1], c[1], c[2], a, d, type)
    BY <1>6 DEF t, s, u
  <1> HIDE DEF type
  <1>11. \E c2 : Sound(m, dcl, <<>> \o Tail(ts), c2, Swapped(vs, 1, <<Result(type, bt, d)>>), bt, h, d)
    BY <1>9, <1>10, PhiEnds
  <1> QED
    BY <1>11 DEF type, t, d, x, v, w, bj, b1, i

-----------------------------------------------------------------------------
(* The end of an if.                                                         *)

LEMMA PhiOf ==
  ASSUME NEW q, IsSeq(q), NEW args, IsSeq(args), NEW to, IsSeq(to), Len(args) = Len(q), Len(to) = Len(q),
         \A k \in 1..Len(q) : q[k].value = args[k], \A k \in 1..Len(q) : q[k].from = to[k], NEW type
  PROVE  Phi(q, type) = Instr("phi", type, args, to)
  <1> DEFINE f == [k \in DOMAIN q |-> q[k].value]
             g == [k \in DOMAIN q |-> q[k].from]
  <1>1. Len(q) \in Nat /\ DOMAIN q = 1..Len(q)
    BY SeqFacts
  <1>2. DOMAIN f = 1..Len(q) /\ f = [k \in 1..Len(q) |-> f[k]] /\ \A k \in 1..Len(q) : f[k] = args[k]
    BY <1>1
  <1>3. DOMAIN g = 1..Len(q) /\ g = [k \in 1..Len(q) |-> g[k]] /\ \A k \in 1..Len(q) : g[k] = to[k]
    BY <1>1
  <1>4. Phi(q, type) = Instr("phi", type, f, g)
    BY DEF Phi
  <1> HIDE DEF f, g
  <1>5. IsSeq(f) /\ Len(f) = Len(q) /\ IsSeq(g) /\ Len(g) = Len(q)
    BY <1>1, <1>2, <1>3, SeqByIndex
  <1>6. f = args
    BY <1>2, <1>5, SeqSame
  <1>7. g = to
    BY <1>3, <1>5, SeqSame
  <1> QED
    BY <1>4, <1>6, <1>7

From(v, x) == [value |-> v, from |-> x]

LEMMA PhiOfOne ==
  ASSUME NEW v, NEW x, NEW type, NEW q, q = <<From(v, x)>>
  PROVE  Phi(q, type) = Instr("phi", type, <<v>>, <<x>>)
  <1> DEFINE r == From(v, x)
             args == <<v>>
             to == <<x>>
  <1>1. r.value = v /\ r.from = x
    BY DEF From
  <1> HIDE DEF r
  <1>2. IsSeq(q) /\ Len(q) = 1 /\ q[1] = r
    BY ElementsOne DEF r
  <1>3. IsSeq(args) /\ Len(args) = 1 /\ args[1] = v /\ IsSeq(to) /\ Len(to) = 1 /\ to[1] = x
    BY ElementsOne
  <1> HIDE DEF args, to
  <1>4. \A k \in 1..1 : k = 1
    OBVIOUS
  <1>5. (\A k \in 1..Len(q) : q[k].value = args[k]) /\ \A k \in 1..Len(q) : q[k].from = to[k]
    BY <1>1, <1>2, <1>3, <1>4
  <1>6. Len(args) = Len(q) /\ Len(to) = Len(q)
    BY <1>2, <1>3
  <1>7. Phi(q, type) = Instr("phi", type, args, to)
    BY <1>2, <1>3, <1>5, <1>6, PhiOf
  <1> QED
    BY <1>7 DEF args, to

LEMMA PhiOfTwo ==
  ASSUME NEW v, NEW x, NEW w, NEW y, NEW type, NEW q, q = <<From(v, x), From(w, y)>>
  PROVE  Phi(q, type) = Instr("phi", type, <<v, w>>, <<x, y>>)
  <1> DEFINE r1 == From(v, x)
             r2 == From(w, y)
             args == <<v, w>>
             to == <<x, y>>
  <1>1. r1.value = v /\ r1.from = x /\ r2.value = w /\ r2.from = y
    BY DEF From
  <1> HIDE DEF r1, r2
  <1>2. IsSeq(q) /\ Len(q) = 2 /\ q[1] = r1 /\ q[2] = r2
    BY ElementsTwo DEF r1, r2
  <1>3. /\ IsSeq(args) /\ Len(args) = 2 /\ args[1] = v /\ args[2] = w
        /\ IsSeq(to) /\ Len(to) = 2 /\ to[1] = x /\ to[2] = y
    BY ElementsTwo
  <1> HIDE DEF args, to
  <1>4. \A k \in 1..2 : k = 1 \/ k = 2
    OBVIOUS
  <1>5. (\A k \in 1..Len(q) : q[k].value = args[k]) /\ \A k \in 1..Len(q) : q[k].from = to[k]
    BY <1>1, <1>2, <1>3, <1>4
  <1>6. Len(args) = Len(q) /\ Len(to) = Len(q)
    BY <1>2, <1>3
  <1>7. Phi(q, type) = Instr("phi", type, args, to)
    <2>1. IsSeq(q) /\ IsSeq(args) /\ IsSeq(to)
      BY <1>2, <1>3
    <2> QED
      BY ONLY <1>5, <1>6, <2>1, PhiOf, SMTT(30)
  <1> QED
    BY <1>7 DEF args, to

LEMMA MergeJoins ==
  ASSUME NEW m, NEW dcl, NEW t, NEW s, NEW u, NEW vs, NEW bs, NEW h, NEW a, Begins(m, dcl, t, s, u, vs, bs, h, a),
         t.do = "merge", NEW d, d = t.blocks[3], 1 <= s.size, NEW type \in ValueTypes,
         Gives(s, u, 1, type), u.fn = s.fn, u.vars \subseteq s.vars, u.loops \subseteq s.loops,
         NEW bj, GoesOn(bs, bj, s, a, d)
  PROVE  /\ Together(m, dcl, bs, bj, h, vs, t, s, u, a, d, type)
         /\ Into(bj, d) = Into(bs, d) \cup Came(s, a)
         /\ \A x \in 1..Len(bs) : x \in 1..Len(bj) /\ bj[x].function = bs[x].function
         /\ bj[d].function = s.fn
         /\ Open(bs, s.fn, d) /\ d # a
  <1> DEFINE n == s.size - 1
  <1>1. Pending(t) = {d} /\ Awaited(t, u) = {d} /\ Pops(t) = 1 /\ Under(t, s) = n /\ t.do # "end"
    BY DEF Pending, Awaited, Pops, Under
  <1>2. Open(bs, s.fn, d) /\ d # a /\ ReadyAt(bs, h, vs, d, u, n)
    <2>1. /\ \A y \in Pending(t) : Open(bs, s.fn, y) /\ y # a
          /\ \A y \in Awaited(t, u) : ReadyAt(bs, h, vs, y, u, Under(t, s))
      BY PendingOpen
    <2> HIDE DEF n
    <2> QED
      BY <1>1, <2>1
  <1>3. /\ s.size \in Nat /\ a \in 1..Len(bs) /\ Len(bs) \in Nat /\ ReadyAt(bs, h, vs, a, s, s.size)
    BY DEF Begins
  <1>4. Joins(m, dcl, bs, bj, s, a, d)
    BY <1>2, EndJoins
  <1>5. /\ Extends(bs, bj, {a}, {d}, {}) /\ Heap(m, dcl, bj) /\ Closed(bj, a) /\ Len(bj) = Len(bs)
        /\ \A y \in 1..Len(bs) : y # a => bj[y] = bs[y]
        /\ Into(bj, d) = Into(bs, d) \cup Came(s, a)
    BY <1>4 DEF Joins
  <1>6. n \in Int /\ n <= s.size
    BY <1>3
  <1> HIDE DEF n
  <1>7. ReadyAt(bs, h, vs, a, u, n)
    <2> DEFINE k == s.size
    <2>1. ReadyAt(bs, h, vs, a, s, k) /\ k \in Int /\ n <= k
      BY <1>3, <1>6
    <2>2. \A i \in 1..n : FromBelow(vs, i) = FromBelow(vs, i)
      OBVIOUS
    <2> HIDE DEF k
    <2> QED
      BY <1>6, <2>1, <2>2, ReadyLess
  <1>8. ReadyAt(bj, h, vs, d, u, n)
    BY <1>2, <1>6, <1>7, JoinsReady
  <1>9. bj[d].code = <<>> /\ bj[d].function = s.fn /\ d \in 1..Len(bs)
    BY <1>2, <1>5 DEF Open
  <1>10. \A x \in 1..Len(bs) : x \in 1..Len(bj) /\ bj[x].function = bs[x].function
    BY <1>5 DEF Extends
  <1>11. LeftTo(bs, bj, t, a, d, {})
    BY <1>1, <1>5 DEF LeftTo
  <1>12. \E S : S \subseteq {a} \cup Pending(t) /\ Extends(bs, bj, S, {d}, {})
    <2> WITNESS {a}
    <2> QED
      BY <1>5
  <1>13. ReadyAt(bj, h, vs, d, u, s.size - 1)
    BY <1>8 DEF n
  <1>14. Together(m, dcl, bs, bj, h, vs, t, s, u, a, d, type)
    BY <1>1, <1>5, <1>9, <1>11, <1>12, <1>13 DEF Together
  <1> QED
    BY <1>2, <1>5, <1>9, <1>10, <1>14

\* The values that come to the merge block, and the blocks they come from.
MergePhi(bj, d, type, i) ==
  \/ \E v, x : /\ i = Instr("phi", type, <<v>>, <<x>>) /\ Into(bj, d) = {x}
               /\ v.type = LlvmType(type) /\ UseSound(bj, v, x)
  \/ \E v, x, w, y : /\ i = Instr("phi", type, <<v, w>>, <<x, y>>) /\ Into(bj, d) = {x, y} /\ x # y
                     /\ v.type = LlvmType(type) /\ UseSound(bj, v, x)
                     /\ w.type = LlvmType(type) /\ UseSound(bj, w, y)

LEMMA MergePhiSound ==
  ASSUME NEW m, NEW dcl, NEW bj, NEW d, NEW type, NEW i, MergePhi(bj, d, type, i), Heap(m, dcl, bj)
  PROVE  i.op = "phi" /\ InstrSound(m, dcl, bj, d, i)
  <1>1. EdgesInside(bj)
    BY HeapEdges
  <1>2. \A x \in Into(bj, d) : x \in 1..Len(bj) /\ bj[x].function = bj[d].function
    BY <1>1 DEF Into, EdgesInside
  <1>3. CASE \E v, x : /\ i = Instr("phi", type, <<v>>, <<x>>) /\ Into(bj, d) = {x}
                       /\ v.type = LlvmType(type) /\ UseSound(bj, v, x)
    <2>1. PICK v, x : /\ i = Instr("phi", type, <<v>>, <<x>>) /\ Into(bj, d) = {x}
                      /\ v.type = LlvmType(type) /\ UseSound(bj, v, x)
      BY <1>3
    <2>2. x \in 1..Len(bj) /\ bj[x].function = bj[d].function
      BY <1>2, <2>1
    <2> QED
      BY <2>1, <2>2, PhiOne
  <1>4. CASE \E v, x, w, y : /\ i = Instr("phi", type, <<v, w>>, <<x, y>>) /\ Into(bj, d) = {x, y} /\ x # y
                             /\ v.type = LlvmType(type) /\ UseSound(bj, v, x)
                             /\ w.type = LlvmType(type) /\ UseSound(bj, w, y)
    <2>1. PICK v, x, w, y : /\ i = Instr("phi", type, <<v, w>>, <<x, y>>) /\ Into(bj, d) = {x, y} /\ x # y
                            /\ v.type = LlvmType(type) /\ UseSound(bj, v, x)
                            /\ w.type = LlvmType(type) /\ UseSound(bj, w, y)
      BY <1>4
    <2>2. x \in 1..Len(bj) /\ bj[x].function = bj[d].function /\ y \in 1..Len(bj) /\ bj[y].function = bj[d].function
      BY <1>2, <2>1
    <2> QED
      BY ONLY <2>1, <2>2, PhiTwo, ZenonT(30)
  <1> QED
    BY <1>3, <1>4 DEF MergePhi

Merging(bj, d, type, q, i) == q # <<>> /\ MergePhi(bj, d, type, i)

LEMMA MergesPhi ==
  ASSUME NEW m, NEW dcl, NEW t, NEW s, NEW u, NEW vs, NEW bs, NEW h, NEW a, Begins(m, dcl, t, s, u, vs, bs, h, a),
         t.do = "merge", NEW d, d = t.blocks[3], NEW e, e = t.node, e.type \in ValueTypes,
         OneOf(s, e), TopIs(s, 1, "never") => t.incoming # <<>>,
         NEW bj, GoesOn(bs, bj, s, a, d), Open(bs, s.fn, d), d # a,
         Into(bj, d) = Into(bs, d) \cup Came(s, a),
         NEW q, q = t.incoming \o Comes(s, vs[1], a), NEW type, type = e.type, NEW i, i = Phi(q, type)
  PROVE  Merging(bj, d, type, q, i)
  <1>1. /\ Over(s) => TopIs(s, 1, "never")
        /\ ~Over(s) => UseSound(bs, vs[1], a) /\ vs[1].type = LlvmType(e.type)
    BY BranchValue
  <1>2. MergeSound(bs, t)
    BY DEF Begins, TaskSound
  <1>3. a \in 1..Len(bs) /\ EdgesInside(bs) /\ (Closed(bs, a) <=> Over(s))
    BY DEF Begins
  <1>4. CASE t.incoming = <<>> /\ Into(bs, d) = {}
    <2>1. ~Over(s)
      BY <1>1, <1>4
    <2> DEFINE v == vs[1]
    <2>2. UseSound(bs, v, a) /\ v.type = LlvmType(type) /\ Comes(s, v, a) = <<From(v, a)>> /\ Into(bj, d) = {a}
      BY <1>1, <1>4, <2>1 DEF Comes, From, Came
    <2>3. q = t.incoming \o Comes(s, v, a)
      OBVIOUS
    <2> HIDE DEF v
    <2> DEFINE r == From(v, a)
    <2>4. q = <<>> \o <<r>>
      BY <1>4, <2>2, <2>3
    <2> HIDE DEF r
    <2>5. q = <<r>> /\ <<r>> # <<>>
      <3> DEFINE p == <<r>>
      <3>1. IsSeq(p)
        BY SeqOne
      <3>2. q = <<>> \o p
        BY <2>4
      <3> HIDE DEF p
      <3>3. q = p
        BY <3>1, <3>2 DEF IsSeq
      <3> QED
        BY <3>3, SeqOne DEF p
    <2>6. Phi(q, type) = Instr("phi", type, <<v>>, <<a>>)
      BY <2>5, PhiOfOne DEF r
    <2>7. UseSound(bj, v, a)
      BY <1>3, <2>2, JoinsUse
    <2> QED
      BY <2>2, <2>5, <2>6, <2>7 DEF MergePhi, Merging
  <1>5. CASE \E v, f : /\ t.incoming = <<[value |-> v, from |-> f]>>
                       /\ Into(bs, d) = {f} /\ v.type = LlvmType(e.type) /\ UseSound(bs, v, f)
    <2>1. PICK v, f : /\ t.incoming = <<[value |-> v, from |-> f]>>
                      /\ Into(bs, d) = {f} /\ v.type = LlvmType(e.type) /\ UseSound(bs, v, f)
      BY <1>5
    <2> DEFINE r == From(v, f)
    <2>2. t.incoming = <<r>> /\ v.type = LlvmType(type)
      BY <2>1 DEF From
    <2> HIDE DEF r
    <2>3. f \in 1..Len(bs) /\ Closed(bs, f) /\ bs[f].code # <<>>
      BY <2>1 DEF Into, Follow, Closed
    <2>4. UseSound(bj, v, f)
      BY <2>1, <2>3, JoinsUse
    <2>5. CASE Over(s)
      <3>1. Comes(s, vs[1], a) = <<>> /\ Into(bj, d) = {f}
        BY <2>1, <2>5 DEF Comes, Came
      <3>2. q = <<r>> /\ <<r>> # <<>>
        <4> DEFINE p == <<r>>
        <4>1. IsSeq(p) /\ p # <<>>
          BY SeqOne
        <4>2. q = p \o <<>>
          BY <2>2, <3>1
        <4> HIDE DEF p
        <4>3. q = p
          BY <4>1, <4>2 DEF IsSeq
        <4> QED
          BY <4>1, <4>3 DEF p
      <3>3. Phi(q, type) = Instr("phi", type, <<v>>, <<f>>)
        BY <3>2, PhiOfOne DEF r
      <3> QED
        BY <2>2, <2>4, <3>1, <3>2, <3>3 DEF MergePhi, Merging
    <2>6. CASE ~Over(s)
      <3> DEFINE w == vs[1]
                 z == From(w, a)
      <3>1. /\ UseSound(bs, w, a) /\ w.type = LlvmType(type) /\ Comes(s, w, a) = <<z>>
            /\ Into(bj, d) = {f, a} /\ f # a
        BY <1>1, <1>3, <2>1, <2>3, <2>6 DEF Comes, From, Came
      <3>2. q = t.incoming \o Comes(s, w, a)
        OBVIOUS
      <3> HIDE DEF w
      <3>3. UseSound(bj, w, a)
        BY <1>3, <3>1, JoinsUse
      <3> HIDE DEF z
      <3>4. q = <<r>> \o <<z>>
        BY <2>2, <3>1, <3>2
      <3>5. q = <<r, z>>
        BY <3>4, PairCat
      <3>6. q # <<>>
        <4>1. Len(q) = 2
          BY <3>5, ElementsTwo
        <4>2. q = <<>> => Len(q) = 0
          BY SeqNone
        <4> QED
          BY <4>1, <4>2
      <3>7. Phi(q, type) = Instr("phi", type, <<v, w>>, <<f, a>>)
        <4>1. q = <<From(v, f), From(w, a)>>
          BY <3>5 DEF r, z
        <4> QED
          BY ONLY <4>1, PhiOfTwo
      <3> QED
        BY <2>2, <2>4, <3>1, <3>3, <3>6, <3>7 DEF MergePhi, Merging
    <2> QED
      BY <2>5, <2>6
  <1> QED
    BY <1>2, <1>4, <1>5 DEF MergeSound

LEMMA MergeStep ==
  ASSUME NEW m \in Modules, NEW dcl, NEW ts, NEW c, NEW vs, NEW bs, NEW h, NEW a,
         Sound(m, dcl, ts, c, vs, bs, h, a), ts # <<>>, ts[1].do = "merge"
  PROVE  LET e == ts[1].node
             d == ts[1].blocks[3]
             q == ts[1].incoming \o IF vs[1] = Never THEN <<>> ELSE <<[value |-> vs[1], from |-> a]>>
             bj == IF vs[1] = Never THEN bs ELSE Emit(bs, a, Br(d))
             bt == Emit(bj, d, Phi(q, e.type))
         IN /\ q # <<>> /\ LlvmType(e.type) # "void"
            /\ \E c2 : Sound(m, dcl, <<>> \o Tail(ts), c2, Swapped(vs, 1, <<Result(e.type, bt, d)>>), bt, h, d)
  <1> DEFINE t == ts[1]
             s == c[1]
             u == c[2]
             e == t.node
             type == e.type
             d == t.blocks[3]
             more == IF vs[1] = Never THEN <<>> ELSE <<[value |-> vs[1], from |-> a]>>
             q == t.incoming \o more
             bj == IF vs[1] = Never THEN bs ELSE Emit(bs, a, Br(d))
             i == Phi(q, type)
             bt == Emit(bj, d, i)
  <1>1. /\ Begins(m, dcl, t, s, u, vs, bs, h, a) /\ RuleValue(t, s, u, e)
        /\ s.size \in Nat /\ u.fn = s.fn /\ u.loops \subseteq s.loops /\ t.do = "merge"
    BY FirstRule DEF Rule
  <1>2. /\ OneOf(s, e) /\ (TopIs(s, 1, "never") => t.incoming # <<>>)
        /\ e.type \in ValueTypes /\ Gives(s, u, 1, e.type) /\ u.vars \subseteq s.vars
    BY <1>1 DEF RuleValue
  <1>3. (vs[1] = Never <=> Over(s)) /\ 1 <= s.size
    BY <1>1, <1>2, BranchValue
  <1>4. GoesOn(bs, bj, s, a, d) /\ more = Comes(s, vs[1], a)
    BY <1>3 DEF GoesOn, Comes
  <1>5. d = t.blocks[3] /\ e = t.node /\ type = e.type /\ q = t.incoming \o Comes(s, vs[1], a) /\ i = Phi(q, type)
    BY <1>4
  <1> HIDE DEF more, t, s, u, e, d, bj, q, i, type
  <1>6. Together(m, dcl, bs, bj, h, vs, t, s, u, a, d, type)
    <2>1. /\ Begins(m, dcl, t, s, u, vs, bs, h, a) /\ t.do = "merge" /\ d = t.blocks[3] /\ 1 <= s.size
          /\ type \in ValueTypes /\ Gives(s, u, 1, type) /\ u.fn = s.fn /\ u.vars \subseteq s.vars
          /\ u.loops \subseteq s.loops /\ GoesOn(bs, bj, s, a, d)
      BY <1>1, <1>2, <1>3, <1>4, <1>5
    <2> QED
      BY ONLY <2>1, MergeJoins
  <1>7. Into(bj, d) = Into(bs, d) \cup Came(s, a) /\ Open(bs, s.fn, d) /\ d # a
    <2>1. /\ Begins(m, dcl, t, s, u, vs, bs, h, a) /\ t.do = "merge" /\ d = t.blocks[3] /\ 1 <= s.size
          /\ type \in ValueTypes /\ Gives(s, u, 1, type) /\ u.fn = s.fn /\ u.vars \subseteq s.vars
          /\ u.loops \subseteq s.loops /\ GoesOn(bs, bj, s, a, d)
      BY <1>1, <1>2, <1>3, <1>4, <1>5
    <2> QED
      BY ONLY <2>1, MergeJoins, SMTT(30)
  <1>8. q # <<>> /\ MergePhi(bj, d, type, i)
    <2>1. /\ Begins(m, dcl, t, s, u, vs, bs, h, a) /\ t.do = "merge" /\ d = t.blocks[3] /\ e = t.node
          /\ e.type \in ValueTypes /\ OneOf(s, e) /\ (TopIs(s, 1, "never") => t.incoming # <<>>)
          /\ GoesOn(bs, bj, s, a, d) /\ Open(bs, s.fn, d) /\ d # a /\ Into(bj, d) = Into(bs, d) \cup Came(s, a)
          /\ q = t.incoming \o Comes(s, vs[1], a) /\ type = e.type
      BY <1>1, <1>2, <1>4, <1>5, <1>7
    <2>2. i = Phi(q, type)
      BY <1>5
    <2>3. Merging(bj, d, type, q, i)
      BY ONLY <2>1, <2>2, MergesPhi
    <2> QED
      BY <2>3 DEF Merging
  <1>9. i.op = "phi" /\ InstrSound(m, dcl, bj, d, i)
    <2>1. Heap(m, dcl, bj)
      BY <1>6 DEF Together
    <2> QED
      BY <1>8, <2>1, MergePhiSound
  <1>10. Together(m, dcl, bs, bj, h, vs, ts[1], c[1], c[2], a, d, type)
    BY <1>6 DEF t, s, u
  <1>11. \E c2 : Sound(m, dcl, <<>> \o Tail(ts), c2, Swapped(vs, 1, <<Result(type, bt, d)>>), bt, h, d)
    BY <1>9, <1>10, PhiEnds
  <1>12. q # <<>> /\ LlvmType(e.type) # "void"
    BY <1>2, <1>8, TypeFacts
  <1> QED
    BY <1>11, <1>12 DEF bt, i, q, more, bj, d, type, e, t

-----------------------------------------------------------------------------
(* The end of a function.                                                    *)

\* What ends it, if nothing has yet.
LastInstr(e, v) ==
  IF LlvmType(e.ret) = "void" THEN Instr("ret", "none", <<>>, <<>>)
  ELSE IF v = Never THEN Unreachable ELSE Instr("ret", "none", <<v>>, <<>>)
Ended1(bs, a, i) == IF Closed(bs, a) THEN bs ELSE Emit(bs, a, i)
Closes(m, dcl, bs, bt, s, a) ==
  Extends(bs, bt, {a}, {}, {}) /\ Len(bt) = Len(bs) /\ Heap(m, dcl, bt) /\ Closed(bt, a) /\ 1 <= s.size

LEMMA EndCloses ==
  ASSUME NEW m, NEW dcl, NEW t, NEW s, NEW u, NEW vs, NEW bs, NEW h, NEW a, Begins(m, dcl, t, s, u, vs, bs, h, a),
         t.do = "end", NEW bt, bt = Ended1(bs, a, LastInstr(t.node, vs[1]))
  PROVE  Closes(m, dcl, bs, bt, s, a)
  <1> DEFINE e == t.node
             S == {a}
             N == {}
  <1>1. /\ e = FunctionIn(m, s.fn) /\ e.ret \in Types /\ (TopIs(s, 1, e.ret) \/ TopIs(s, 1, "never"))
        /\ BlockShape(bs) /\ Heap(m, dcl, bs) /\ (Closed(bs, a) <=> Over(s)) /\ 1 <= s.size
    BY DEF Begins, Rule, RuleFunction, TopIs
  <1>2. CASE Over(s)
    <2>1. bt = bs /\ N \subseteq S /\ N \subseteq N
      BY <1>1, <1>2 DEF Ended1
    <2>2. Extends(bs, bs, N, N, N)
      BY <1>1, ExtendsSame
    <2> HIDE DEF S, N, Closes
    <2>3. Extends(bs, bs, S, N, N)
      BY <2>1, <2>2, ExtendsMore
    <2> QED
      BY <1>1, <1>2, <2>1, <2>3 DEF S, N, Closes
  <1>3. CASE ~Over(s)
    <2> DEFINE k == 1
               never == "never"
               r == e.ret
    <2>1. ~TopIs(s, 1, "never")
      <3>1. ASSUME TopIs(s, 1, "never") PROVE FALSE
        <4>1. k \in Nat \ {0} /\ k = 1 /\ TopIs(s, k, never)
          BY <3>1
        <4>2. LlvmType(never) = "void"
          BY TypeFacts
        <4> HIDE DEF k, never
        <4>3. Over(s)
          BY <4>1, <4>2, TopValue
        <4> QED
          BY <1>3, <4>3
      <3> QED
        BY <3>1
    <2>2. r \in ValueTypes /\ r = FunctionIn(m, s.fn).ret /\ TopIs(s, 1, r)
      BY <1>1, <2>1, TypeFacts
    <2>3. vs[1] # Never /\ LlvmType(r) # "void"
      <3>1. k \in Nat \ {0} /\ TopIs(s, k, r)
        BY <2>2
      <3> HIDE DEF k, r
      <3>2. vs[k] # Never
        BY <2>2, <3>1, TopValue
      <3> QED
        BY <2>2, <3>2, TypeFacts DEF k
    <2> DEFINE i == Instr("ret", "none", <<vs[1]>>, <<>>)
    <2>4. LastInstr(e, vs[1]) = i
      BY <2>3 DEF LastInstr
    <2>5. i = Instr("ret", "none", <<vs[1]>>, <<>>)
      OBVIOUS
    <2> HIDE DEF i, r
    <2>6. InstrSound(m, dcl, bs, a, i) /\ i.op = "ret" /\ i.to = <<>> /\ IsTerminator(i)
      BY <2>2, <2>5, RetSound
    <2>7. i.op # "phi"
      BY <2>6
    <2>8. bt = Emit(bs, a, i)
      BY <1>1, <1>3, <2>4 DEF Ended1
    <2>9. Extends(bs, Emit(bs, a, i), {a}, {}, {}) /\ Len(Emit(bs, a, i)) = Len(bs) /\ Heap(m, dcl, Emit(bs, a, i))
          /\ Closed(Emit(bs, a, i), a)
      BY <1>3, <2>6, <2>7, EmitHere, SMTT(30)
    <2> QED
      BY <1>1, <2>8, <2>9 DEF Closes
  <1> QED
    BY <1>2, <1>3

\* What is left to do when a function has ended.
LEMMA AfterEnd ==
  ASSUME NEW m, NEW dcl, NEW ts, NEW c, NEW vs, NEW bs, NEW h, NEW a, Sound(m, dcl, ts, c, vs, bs, h, a), ts # <<>>,
         NEW rs, rs = Tail(ts)
  PROVE  /\ rs # <<>> <=> c[2].inside
         /\ IsSeq(rs) /\ <<>> \o rs = rs
  <1>1. IsSeq(ts) /\ Run(m, dcl, ts, c) /\ IsLast(c[Len(ts) + 1])
    BY DEF Sound, Pile, Run
  <1>2. IsSeq(rs) /\ Len(rs) = Len(ts) - 1 /\ Len(ts) \in Nat \ {0}
    BY <1>1, SeqTail
  <1>3. <<>> \o rs = rs
    BY <1>2 DEF IsSeq
  <1>4. CASE Len(ts) = 1
    <2>1. Len(rs) = 0 /\ IsLast(c[2])
      BY <1>1, <1>2, <1>4
    <2>2. rs = <<>> /\ ~c[2].inside
      BY <1>2, <2>1, SeqNone DEF IsLast
    <2> QED
      BY <1>2, <1>3, <2>2
  <1>5. CASE Len(ts) # 1
    <2>1. 2 \in 1..Len(ts) /\ Len(rs) # 0
      BY <1>2, <1>5
    <2>2. Rule(m, dcl, ts[2], c[2], c[2 + 1])
      BY <1>1, <2>1 DEF Run
    <2>3. c[2].inside
      BY <2>2 DEF Rule
    <2>4. rs = <<>> => Len(rs) = 0
      BY SeqNone
    <2> QED
      BY <1>2, <1>3, <2>1, <2>3, <2>4
  <1> QED
    BY <1>4, <1>5

LEMMA EndStep ==
  ASSUME NEW m \in Modules, NEW dcl, NEW ts, NEW c, NEW vs, NEW bs, NEW h, NEW a,
         Sound(m, dcl, ts, c, vs, bs, h, a), ts # <<>>, ts[1].do = "end"
  PROVE  LET start == ts[1].blocks[1]
             bt == Ended1(bs, a, LastInstr(ts[1].node, vs[1]))
         IN \E c2 : Sound(m, dcl, <<>> \o Tail(ts), c2, Swapped(vs, 1, <<>>), bt, h, IF start = 0 THEN a ELSE start)
  <1> DEFINE t == ts[1]
             s == c[1]
             u == c[2]
             e == t.node
             start == t.blocks[1]
             bt == Ended1(bs, a, LastInstr(ts[1].node, vs[1]))
             vt == Swapped(vs, 1, <<>>)
             b == IF start = 0 THEN a ELSE start
             n == s.size - 1
             rs == Tail(ts)
  <1>1. /\ Begins(m, dcl, t, s, u, vs, bs, h, a) /\ TaskSound(bs, h, vs, t, s, u) /\ RuleFunction(m, dcl, t, s, u, e)
        /\ s.size \in Nat /\ t.do = "end"
    BY FirstRule DEF Begins
  <1>2. Drops(s, u, 1) /\ ~Over(u)
    BY <1>1 DEF RuleFunction
  <1>3. /\ Pending(t) = {} /\ Pops(t) = 1 /\ Under(t, s) = n
        /\ Held(t, u) = Saved(t, u) /\ Awaited(t, u) = Saved(t, u)
        /\ Saved(t, u) = IF u.inside THEN {start} ELSE {}
    BY <1>1 DEF Pending, Pops, Under, Held, Awaited, Saved
  <1>4. /\ Extends(bs, bt, {a}, {}, {}) /\ Len(bt) = Len(bs) /\ Heap(m, dcl, bt) /\ Closed(bt, a) /\ 1 <= s.size
    <2>1. bt = Ended1(bs, a, LastInstr(t.node, vs[1]))
      OBVIOUS
    <2> HIDE DEF bt, t, s, u
    <2>2. Closes(m, dcl, bs, bt, s, a)
      BY <1>1, <2>1, EndCloses
    <2> QED
      BY <2>2 DEF Closes
  <1>5. (rs # <<>> <=> u.inside) /\ IsSeq(rs) /\ <<>> \o rs = rs
    <2>1. rs = Tail(ts)
      OBVIOUS
    <2> HIDE DEF rs
    <2> QED
      BY <2>1, AfterEnd
  <1> HIDE DEF bt, rs
  <1>6. u.inside => /\ ReadyAt(bs, h, vs, start, u, n) /\ ~Closed(bs, start) /\ start # a
                    /\ start \in 1..Len(bs) /\ b = start /\ b \in Held(t, u)
    <2>1. ASSUME u.inside
          PROVE  ReadyAt(bs, h, vs, start, u, n) /\ ~Closed(bs, start) /\ start # a /\ start \in Held(t, u)
      <3>1. Saved(t, u) = {start}
        BY <1>3, <2>1
      <3>2. ReadyAt(bs, h, vs, start, u, Under(t, s)) /\ ~Closed(bs, start)
        BY <1>1, <1>3, <3>1 DEF TaskSound
      <3>3. a \notin Held(t, u)
        BY <1>1 DEF Begins
      <3> HIDE DEF n, start
      <3> QED
        BY <1>3, <3>1, <3>2, <3>3
    <2>2. ASSUME u.inside PROVE start \in 1..Len(bs) /\ start # 0
      <3>1. start \in 1..Len(bs) /\ Len(bs) \in Nat
        BY <1>1, <2>1, <2>2 DEF ReadyAt, Begins
      <3> QED
        BY <3>1
    <2> HIDE DEF start, n
    <2> QED
      BY <2>1, <2>2
  <1>7. ~u.inside => Held(t, u) = {}
    BY <1>3
  <1> HIDE DEF b, start
  <1>8. Matches(bt, vt, u) /\ Keeps(bs, vs, vt, n)
    <2> DEFINE S == {a}
               N == {}
               k == 1
    <2>1. Extends(bs, bt, S, N, N) /\ Matches(bs, vs, s) /\ s.size \in Nat /\ k \in Nat /\ Drops(s, u, k)
          /\ vt = Swapped(vs, k, <<>>) /\ n = s.size - k
      BY <1>1, <1>2, <1>4 DEF Begins
    <2> HIDE DEF S, N, k, vt, n
    <2>2. Matches(bt, vt, u) /\ Keeps(bs, vs, vt, s.size - k)
      BY <2>1, MatchesDrops
    <2> QED
      BY <2>1, <2>2
  <1>9. Len(vt) = n
    BY <1>2, <1>8 DEF Matches, Drops
  <1>10. VarsSound(bs, h) /\ VarsSound(bt, h)
    <2> DEFINE S == {a}
               N == {}
    <2>1. Extends(bs, bt, S, N, N) /\ VarsSound(bs, h)
      BY <1>1, <1>4 DEF Begins
    <2> HIDE DEF S, N
    <2> QED
      BY <2>1, VarsExtend
  <1> HIDE DEF vt, n
  <1>11. u.loops \subseteq 1..Len(bs)
    <2>1. /\ \A j \in 1..Len(ts) + 1 : \A l \in c[j].loops : l \in 1..Len(bs) /\ NoPhi(bs, l) /\ l \notin Pending(ts[1])
          /\ Len(ts) \in Nat \ {0}
      <3> DEFINE free == {a}
      <3>1. Pile(m, dcl, ts, c, vs, bs, h, free)
        BY DEF Sound
      <3> HIDE DEF free, t
      <3> QED
        BY <3>1, FirstTask
    <2>2. 2 \in 1..Len(ts) + 1
      BY <2>1
    <2> HIDE DEF t
    <2> QED
      BY <2>1, <2>2
  <1>12. u.inside => IsCurrent(bt, h, vt, b, u)
    <2>1. SUFFICES ASSUME u.inside PROVE IsCurrent(bt, h, vt, b, u)
      OBVIOUS
    <2>2. ReadyAt(bs, h, vs, b, u, n) /\ ~Closed(bs, b) /\ b # a /\ b \in 1..Len(bs)
      BY <1>6, <2>1
    <2>3. ~Closed(bt, b)
      <3>1. bt[b] = bs[b]
        BY <1>4, <2>2 DEF Extends
      <3> QED
        BY <2>2, <3>1 DEF Closed
    <2>4. ReadyAt(bt, h, vt, b, u, n)
      <3> DEFINE S == {a}
                 N == {}
      <3>1. Extends(bs, bt, S, N, N) /\ b \notin N /\ u.loops \cap N = {} /\ Empty(bs, N)
        BY <1>4 DEF Empty
      <3>2. KeepsVars(h, h, u.fn, u.vars)
        BY DEF KeepsVars
      <3> HIDE DEF S, N
      <3> QED
        BY <1>8, <1>10, <1>11, <2>2, <3>1, <3>2, ReadyKept
    <2> QED
      BY <1>2, <1>9, <2>3, <2>4 DEF IsCurrent
  <1>13. Touches(bs, bt, {a}, {}, {}, h, h, vs, vt, t, s, a)
    <2>1. Keeps(bs, vs, vt, Under(t, s))
      BY <1>3, <1>8
    <2> QED
      BY <1>4, <2>1 DEF Touches
  <1> DEFINE with == <<>>
             mid == [k \in {1} |-> u]
  <1>14. with = <<>> /\ IsSeq(with) /\ Len(with) = 0 /\ mid[Len(with) + 1] = u /\ mid[1] = u
    BY SeqNone
  <1> HIDE DEF mid, with
  <1>15. Run(m, dcl, with, mid)
    BY <1>14 DEF Run
  <1>16. Goes(bs, bt, h, vt, t, s, u, with, mid, b)
    BY <1>14 DEF Goes
  <1>17. Finishes(bs, bt, t, u, a, b, with, rs)
    <2>1. \A d \in Held(t, u) : u.inside /\ d = b
      BY <1>3, <1>6, <1>7
    <2>2. with \o rs = rs
      BY <1>5, <1>14
    <2> QED
      BY <1>4, <1>5, <2>1, <2>2 DEF Finishes
  <1>18. b = a \/ b \in Held(t, u) \/ (b \in 1..Len(bt) /\ b \notin 1..Len(bs)) \/ rs = <<>>
    BY <1>5, <1>6
  <1>19. with \o rs # <<>> => IsCurrent(bt, h, vt, b, u)
    BY <1>5, <1>12, <1>14
  <1> DEFINE c2 == ChainOf(with, mid, rs, RestOf(ts, c))
  <1>20. Sound(m, dcl, with \o rs, c2, vt, bt, h, b)
    <2> DEFINE S == {a}
               N == {}
    <2>1. Touches(bs, bt, S, N, N, h, h, vs, vt, ts[1], c[1], a) /\ Goes(bs, bt, h, vt, ts[1], c[1], c[2], with, mid, b)
          /\ Finishes(bs, bt, ts[1], c[2], a, b, with, Tail(ts)) /\ mid[Len(with) + 1] = c[2]
      BY <1>13, <1>14, <1>16, <1>17 DEF rs
    <2>2. b = a \/ b \in Held(ts[1], c[2]) \/ (b \in 1..Len(bt) /\ b \notin 1..Len(bs)) \/ Tail(ts) = <<>>
      BY <1>18 DEF rs
    <2>3. with \o Tail(ts) # <<>> => IsCurrent(bt, h, vt, b, mid[1])
      BY <1>14, <1>19 DEF rs
    <2>4. Matches(bt, vt, mid[1])
      BY <1>8, <1>14
    <2> HIDE DEF S, N, t, s, u
    <2>5. Sound(m, dcl, with \o Tail(ts), ChainOf(with, mid, Tail(ts), RestOf(ts, c)), vt, bt, h, b)
      BY <1>4, <1>10, <1>15, <2>1, <2>2, <2>3, <2>4, Advance
    <2> QED
      BY <2>5 DEF rs
  <1> QED
    <2>1. \E x : Sound(m, dcl, with \o rs, x, vt, bt, h, b)
      BY <1>20
    <2> QED
      BY <2>1 DEF with, rs, bt, vt, b, start

-----------------------------------------------------------------------------
(* The start of a function.                                                  *)

LEMMA FunctionThere ==
  ASSUME NEW m \in Modules, NEW f, \E i \in DOMAIN m.typed : m.typed[i].name = f
  PROVE  LET g == FunctionIn(m, f)
         IN g.name = f /\ FunctionIsTyped(m, g) /\ IsSeq(g.params)
  <1> DEFINE all == {m.typed[i] : i \in DOMAIN m.typed}
             g == FunctionIn(m, f)
  <1>1. \E x \in all : x.name = f
    OBVIOUS
  <1>2. g \in all /\ g.name = f
    <2> HIDE DEF all
    <2>1. g = CHOOSE x \in all : x.name = f
      BY DEF FunctionIn, all
    <2> HIDE DEF g
    <2> QED
      BY <1>1, <2>1
  <1>3. \A i \in DOMAIN m.typed : FunctionIsTyped(m, m.typed[i])
    BY ModulesAssumption DEF IsRegular
  <1> HIDE DEF g
  <1>4. FunctionIsTyped(m, g)
    BY <1>2, <1>3
  <1>5. g.params \in Seq({g.params[i] : i \in DOMAIN g.params})
    BY <1>4 DEF FunctionIsTyped
  <1>6. IsSeq(g.params)
    BY <1>5, SeqIn
  <1> QED
    BY <1>2, <1>4, <1>6 DEF g

Param(p) == [type |-> LlvmType(p.type), place |-> <<>>, const |-> p.name]
Stores(g) == [i \in DOMAIN g.params |-> [Instr("alloca", "none", <<Param(g.params[i])>>, <<>>) EXCEPT !.id = i]]

LEMMA StoresAre ==
  ASSUME NEW m, NEW g, FunctionIsTyped(m, g), IsSeq(g.params)
  PROVE  AreStores(g, Stores(g))
  <1> DEFINE stores == Stores(g)
  <1>1. Len(g.params) \in Nat /\ DOMAIN g.params = 1..Len(g.params)
    BY SeqFacts
  <1>2. DOMAIN stores = 1..Len(g.params) /\ stores = [i \in 1..Len(g.params) |-> stores[i]]
    BY <1>1 DEF Stores
  <1>3. ASSUME NEW k \in 1..Len(g.params)
        PROVE  /\ stores[k].op = "alloca" /\ stores[k].id = k /\ IsSeq(stores[k].args) /\ stores[k].to = <<>>
               /\ \A a \in 1..Len(stores[k].args) : /\ stores[k].args[a].type # "void"
                                                    /\ stores[k].args[a].place = <<>>
    <2> DEFINE p == Param(g.params[k])
               args == <<p>>
               i == Instr("alloca", "none", args, <<>>)
    <2>1. stores[k] = WithId(i, k)
      BY <1>1, <1>3 DEF Stores, WithId
    <2>2. p.type # "void" /\ p.place = <<>>
      <3>1. g.params[k].type \in ValueTypes
        BY <1>1, <1>3 DEF FunctionIsTyped
      <3> QED
        BY <3>1, TypeFacts DEF Param
    <2> HIDE DEF p
    <2>3. IsSeq(args) /\ Len(args) = 1 /\ args[1] = p
      BY ElementsOne
    <2> HIDE DEF args, stores
    <2>4. stores[k].op = "alloca" /\ stores[k].args = args /\ stores[k].to = <<>> /\ stores[k].id = k
      BY <2>1, InstrFields
    <2>5. \A a \in 1..1 : a = 1
      OBVIOUS
    <2> QED
      BY <2>2, <2>3, <2>4, <2>5
  <1> HIDE DEF stores
  <1>4. IsSeq(stores) /\ Len(stores) = Len(g.params)
    BY <1>1, <1>2, SeqByIndex
  <1> QED
    BY <1>3, <1>4 DEF AreStores, stores

\* What waits for the tasks is of a function that LLVM has.
LEMMA AwaitedDeclared ==
  ASSUME NEW m, NEW dcl, NEW ts, NEW c, NEW vs, NEW bs, NEW h, NEW free, Pile(m, dcl, ts, c, vs, bs, h, free),
         NEW k \in 1..Len(ts), Awaited(ts[k], c[k + 1]) # {}
  PROVE  c[k + 1].fn \in dcl
  <1>1. Run(m, dcl, ts, c) /\ IsLast(c[Len(ts) + 1]) /\ IsSeq(ts)
    BY DEF Pile, Run
  <1>2. Len(ts) \in Nat
    BY <1>1, SeqFacts
  <1>3. Rule(m, dcl, ts[k], c[k], c[k + 1])
    BY <1>1 DEF Run
  <1>4. c[k + 1].inside
    BY <1>3 DEF Rule, Awaited, Saved
  <1>5. k # Len(ts)
    BY <1>1, <1>4 DEF IsLast
  <1>6. k + 1 \in 1..Len(ts)
    BY <1>2, <1>5
  <1>7. Rule(m, dcl, ts[k + 1], c[k + 1], c[(k + 1) + 1])
    BY <1>1, <1>6 DEF Run
  <1> QED
    BY <1>7 DEF Rule

\* Those of the first task are as good as any below.
LEMMA AboveAll ==
  ASSUME NEW m, NEW dcl, NEW ts, NEW c, NEW vs, NEW bs, NEW h, NEW free, Pile(m, dcl, ts, c, vs, bs, h, free),
         ts # <<>> => Under(ts[1], c[1]) = c[1].size, NEW f, f \notin dcl, NEW ids
  PROVE  /\ Above(ts, c, c[1].size, f, ids)
         /\ \A k \in 1..Len(ts) : Under(ts[k], c[k]) \in Int
  <1>1. Run(m, dcl, ts, c) /\ Nested(ts, c) /\ IsSeq(ts)
    BY DEF Pile, Run
  <1>2. Len(ts) \in Nat
    BY <1>1, SeqFacts
  <1>3. ASSUME NEW k \in 1..Len(ts), Awaited(ts[k], c[k + 1]) # {}
        PROVE  Under(ts[k], c[k]) <= c[1].size /\ c[k + 1].fn # f
    <2>1. 1 \in 1..k /\ 1 \in 1..Len(ts)
      BY <1>2, <1>3
    <2>2. ts # <<>>
      BY <2>1, SeqNone
    <2>3. Under(ts[k], c[k]) <= Under(ts[1], c[1])
      BY <1>1, <1>3, <2>1 DEF Nested
    <2>4. c[k + 1].fn \in dcl
      BY <1>3, AwaitedDeclared
    <2> QED
      BY <2>2, <2>3, <2>4
  <1>4. ASSUME NEW k \in 1..Len(ts) PROVE Under(ts[k], c[k]) \in Int
    <2> DEFINE t == ts[k]
               s == c[k]
               u == c[k + 1]
    <2>1. Rule(m, dcl, t, s, u)
      BY <1>1 DEF Run
    <2> HIDE DEF t, s, u
    <2>2. t.do = "call" => IsSeq(t.node.subs)
      BY <2>1, CallSubs
    <2>3. Under(t, s) \in Int
      BY <2>1, <2>2, RuleUnder
    <2> QED
      BY <2>3 DEF t, s
  <1>5. Above(ts, c, c[1].size, f, ids)
    BY <1>3 DEF Above
  <1> QED
    BY <1>4, <1>5

\* Block x is added for function f, and has the places of its parameters.
Entered(m, dcl, bs, bt, h, h2, f, ids, x) ==
  /\ Adds(bs, bt) /\ Extends(bs, bt, {}, {}, {}) /\ Heap(m, dcl \cup {f}, bt)
  /\ x = Len(bs) + 1 /\ Len(bt) = x /\ Len(bs) \in Nat /\ bt[x].function = f /\ ~Closed(bt, x)
  /\ VarsSound(bt, h2) /\ DOMAIN h2 = DOMAIN h \cup {<<f, i>> : i \in ids}
  /\ \A y \in DOMAIN h : h2[y] = h[y]
  /\ \A i \in ids : h2[<<f, i>>] = x
  /\ \A c \in 1..Len(bs) : bs[c].function \in dcl
  /\ f \notin dcl
Placed(h, f, ids, x) == [y \in DOMAIN h \cup {<<f, i>> : i \in ids} |-> IF y \in DOMAIN h THEN h[y] ELSE x]

LEMMA EnterFunction ==
  ASSUME NEW m, NEW dcl, NEW bs, Heap(m, dcl, bs), NEW f, f \notin dcl, NEW g, NEW stores, AreStores(g, stores),
         NEW h, VarsSound(bs, h), NEW bt, bt = Append(bs, [function |-> f, code |-> stores]), NEW x, x = Len(bs) + 1,
         NEW ids, ids = 1..Len(g.params), NEW h2, h2 = Placed(h, f, ids, x)
  PROVE  Entered(m, dcl, bs, bt, h, h2, f, ids, x)
  <1>1. /\ IsSeq(stores) /\ Len(stores) = Len(g.params)
        /\ \A k \in 1..Len(stores) :
             /\ stores[k].op = "alloca" /\ IsSeq(stores[k].args) /\ stores[k].to = <<>>
             /\ \A a \in 1..Len(stores[k].args) : stores[k].args[a].type # "void" /\ stores[k].args[a].place = <<>>
        /\ \A k \in 1..Len(stores) : stores[k].op = "alloca" /\ stores[k].id = k
    BY DEF AreStores
  <1>2. /\ Adds(bs, bt) /\ Heap(m, dcl \cup {f}, bt) /\ Len(bt) = Len(bs) + 1
        /\ bt[Len(bs) + 1].function = f /\ bt[Len(bs) + 1].code = stores /\ ~Closed(bt, Len(bs) + 1)
    <2>1. NewEntry(m, dcl, bs, bt, f, stores)
      BY EntryAdds
    <2> QED
      BY <2>1 DEF NewEntry
  <1>3. Extends(bs, bt, {}, {}, {})
    BY <1>2, AddsExtends
  <1>4. Len(bs) \in Nat /\ \A c \in 1..Len(bs) : bs[c].function \in dcl
    BY HeapShape DEF Heap
  <1>5. DOMAIN h2 = DOMAIN h \cup {<<f, i>> : i \in ids} /\ \A y \in DOMAIN h : h2[y] = h[y]
    BY DEF Placed
  <1>6. ASSUME NEW i \in ids PROVE h2[<<f, i>>] = x
    <2> DEFINE y == <<f, i>>
    <2>1. y[1] = f /\ y \in {<<f, j>> : j \in ids}
      OBVIOUS
    <2> HIDE DEF y
    <2>2. y \notin DOMAIN h
      BY <1>4, <2>1 DEF VarsSound
    <2>3. h2[y] = x
      BY <2>1, <2>2 DEF Placed
    <2> QED
      BY <2>3 DEF y
  <1>7. VarsSound(bt, h)
    <2> DEFINE N == {}
    <2>1. Extends(bs, bt, N, N, N)
      BY <1>3
    <2> HIDE DEF N
    <2> QED
      BY <2>1, VarsExtend
  <1>8. VarsSound(bt, h2)
    <2>1. ASSUME NEW y \in DOMAIN h PROVE h2[y] \in 1..Len(bt) /\ bt[h2[y]].function = y[1] /\ Allocates(bt, h2[y], y[2])
      BY <1>5, <1>7, <2>1 DEF VarsSound
    <2>2. ASSUME NEW i \in ids
          PROVE  LET y == <<f, i>> IN h2[y] \in 1..Len(bt) /\ bt[h2[y]].function = y[1] /\ Allocates(bt, h2[y], y[2])
      <3> DEFINE y == <<f, i>>
      <3>1. y[1] = f /\ y[2] = i /\ h2[y] = x
        BY <1>6, <2>2
      <3> HIDE DEF y
      <3>2. x \in 1..Len(bt)
        BY <1>2, <1>4
      <3>3. bt[x].function = f /\ bt[x].code = stores
        BY <1>2
      <3>4. stores[i].op = "alloca" /\ stores[i].id = i /\ i \in 1..Len(stores)
        BY <1>1, <2>2
      <3>5. Allocates(bt, x, i)
        BY <3>3, <3>4 DEF Allocates
      <3>6. h2[y] \in 1..Len(bt) /\ bt[h2[y]].function = y[1] /\ Allocates(bt, h2[y], y[2])
        BY <3>1, <3>2, <3>3, <3>5
      <3> QED
        BY <3>6 DEF y
    <2>3. ASSUME NEW y \in {<<f, i>> : i \in ids}
          PROVE  h2[y] \in 1..Len(bt) /\ bt[h2[y]].function = y[1] /\ Allocates(bt, h2[y], y[2])
      BY <2>2
    <2> QED
      BY <1>5, <2>1, <2>3 DEF VarsSound
  <1> HIDE DEF Placed
  <1> QED
    BY <1>2, <1>3, <1>4, <1>5, <1>6, <1>8 DEF Entered

\* The tasks there are wait for it.
LEMMA PileStart ==
  ASSUME NEW m, NEW dcl, NEW ts, NEW c, NEW vs, NEW bs, NEW h, NEW a, Pile(m, dcl, ts, c, vs, bs, h, {a}),
         Matches(bs, vs, c[1]), c[1].size \in Nat, VarsSound(bs, h),
         ts # <<>> => Under(ts[1], c[1]) = c[1].size,
         NEW bt, NEW h2, NEW f, NEW ids, NEW x, Entered(m, dcl, bs, bt, h, h2, f, ids, x)
  PROVE  Pile(m, dcl \cup {f}, ts, c, vs, bt, h2, {a, x})
  <1> DEFINE free == {a}
             N == {}
             dcl2 == dcl \cup {f}
             n == c[1].size
             none == {}
             more == {b \in 1..Len(bt) : b \notin 1..Len(bs)}
  <1>1. /\ Extends(bs, bt, N, N, N) /\ Empty(bs, N) /\ dcl \subseteq dcl2 /\ f \notin dcl
        /\ \A b \in N \cup N : b \in 1..Len(bs) => b \in free
        /\ \A k \in 1..Len(ts) : Pending(ts[k]) \cap N = {}
        /\ \A j \in 1..Len(ts) + 1 : c[j].loops \cap N = {}
        /\ \A y \in DOMAIN h : y \in DOMAIN h2 /\ h2[y] = h[y]
    BY DEF Entered, Empty
  <1>2. n \in Int /\ n <= n /\ Pile(m, dcl, ts, c, vs, bs, h, free)
    OBVIOUS
  <1>3. Above(ts, c, n, f, none) /\ \A k \in 1..Len(ts) : Under(ts[k], c[k]) \in Int
    <2> HIDE DEF free, none, N
    <2> QED
      BY <1>1, <1>2, AboveAll
  <1>4. Keeps(bs, vs, vs, n)
    <2> DEFINE s == c[1]
    <2>1. Matches(bs, vs, s) /\ s.size \in Nat /\ n <= s.size
      BY <1>2
    <2> HIDE DEF s, n
    <2> QED
      BY <1>2, <2>1, KeepsSame
  <1>5. more = {x}
    <2>1. x = Len(bs) + 1 /\ Len(bt) = x /\ Len(bs) \in Nat
      BY DEF Entered
    <2> QED
      BY <2>1
  <1>6. \A y \in DOMAIN h : y \in DOMAIN h2 /\ (h2[y] = h[y] \/ (y[1] = f /\ y[2] \notin none))
    BY <1>1
  <1> HIDE DEF free, N, dcl2, n, none, more
  <1>7. Pile(m, dcl2, ts, c, vs, bt, h2, free \cup {b \in 1..Len(bt) : b \notin 1..Len(bs)})
    BY <1>1, <1>2, <1>3, <1>4, <1>6, PileKept
  <1>8. Pile(m, dcl2, ts, c, vs, bt, h2, free \cup more)
    BY <1>7 DEF more
  <1>9. free \cup more = {a, x}
    BY <1>5 DEF free
  <1> QED
    BY <1>8, <1>9 DEF dcl2

\* Where the generator begins a function, with the values there are.
First(f, ids, s) ==
  [fn |-> f, size |-> s.size, stack |-> s.stack, vars |-> ids, loops |-> {}, inside |-> TRUE]

\* Its tasks, from there to where it was called, or the module's end.
Starting(m, dcl, f, ids, s, a, with, mid) ==
  /\ Run(m, dcl, with, mid) /\ Len(with) = 2 /\ IsSeq(with)
  /\ with[1].do = "generate" /\ with[2].do = "end" /\ with[2].blocks[1] = a
  /\ mid[1] = First(f, ids, s) /\ mid[3] = s
  /\ \A j \in 1..2 : mid[j].fn = f /\ mid[j].loops = {} /\ Under(with[j], mid[j]) = s.size

LEMMA StartRun ==
  ASSUME NEW m \in Modules, NEW dcl, NEW f \in dcl, NEW g, g = FunctionIn(m, f), NEW ids, ids = 1..Len(g.params),
         FunctionIsTyped(m, g), g.name = f, IsSeq(g.params), g.body # <<>>,
         NEW s, s.size \in Nat, ~Over(s), NEW a,
         NEW t, t = [Task("end", g) EXCEPT !.blocks = <<a>>]
  PROVE  \E mid : Starting(m, dcl, f, ids, s, a, <<Generate(g.body[1]), t>>, mid)
  <1> DEFINE e == g.body[1]
             s1 == First(f, ids, s)
  <1>1. e.kind \in ExpressionKinds /\ e.type \in {g.ret, "never"} /\ g.ret \in Types
    BY DEF FunctionIsTyped
  <1>2. PICK j \in Scopes(m) : j.function = f /\ j.node = e /\ Before(j) = ids
    <2>1. DOMAIN g.params = ids
      BY SeqFacts
    <2> QED
      BY <2>1 DEF FunctionIsTyped
  <1>3. Inner(m, f, ids, e, After(j))
    BY <1>1, <1>2 DEF Inner
  <1> DEFINE after == After(j)
             r == Pushed(s1, 0, e.type, after)
  <1>4. s1.fn = f /\ s1.size = s.size /\ s1.stack = s.stack /\ s1.vars = ids /\ s1.loops = {} /\ s1.inside
    BY DEF First
  <1>5. MayStart(m, dcl, s1, e, after)
    BY <1>3, <1>4 DEF MayStart, Over
  <1> HIDE DEF s1, e, after
  <1>6. Starts(m, dcl, s1.size, e, s1, r) /\ IsOnto(s1, e, after, r)
    BY <1>5, Onto
  <1> HIDE DEF r
  <1>7. Rule(m, dcl, Generate(e), s1, r) /\ Generate(e).do = "generate"
    <2>1. Path(m, dcl, s1.size, <<Generate(e)>>, s1, r)
      BY <1>6, PathGenerate
    <2> DEFINE z == Generate(e)
    <2>2. Len(<<z>>) = 1 /\ <<z>>[1] = z
      BY SeqOne
    <2>3. z.do = "generate"
      BY DEF Generate, Task
    <2> HIDE DEF z
    <2>4. Path(m, dcl, s1.size, <<z>>, s1, r)
      BY <2>1 DEF z
    <2>5. Rule(m, dcl, z, s1, r)
      BY <2>2, <2>4 DEF Path, Run
    <2> QED
      BY <2>3, <2>5 DEF z
  <1>8. t.do = "end" /\ t.node = g /\ t.blocks = <<a>> /\ t.blocks[1] = a
    BY DEF Task
  <1>9. /\ TopIs(r, 1, e.type) /\ r.size = s.size + 1 /\ r.size \in Nat /\ r.fn = f /\ r.loops = {} /\ r.inside
        /\ \A i \in 1..s.size : r.stack[i] = s.stack[i]
    BY <1>4, <1>6 DEF IsOnto
  <1>10. Rule(m, dcl, t, r, s)
    <2>1. Drops(r, s, 1)
      BY <1>9 DEF Drops
    <2>2. g = FunctionIn(m, r.fn) /\ (TopIs(r, 1, g.ret) \/ TopIs(r, 1, "never"))
      BY <1>1, <1>9 DEF e
    <2>3. RuleFunction(m, dcl, t, r, s, g)
      BY <1>1, <1>8, <2>1, <2>2 DEF RuleFunction
    <2>4. RuleValue(t, r, s, g)
      BY <1>8 DEF RuleValue
    <2>5. RuleParts(m, t, r, s, g)
      BY <1>8 DEF RuleParts
    <2> QED
      BY <1>8, <1>9, <2>3, <2>4, <2>5 DEF Rule, Tasks
  <1> DEFINE z == Generate(e)
             with == <<z, t>>
             mid == [k \in 1..3 |-> IF k = 1 THEN s1 ELSE IF k = 2 THEN r ELSE s]
  <1>11. IsSeq(with) /\ Len(with) = 2 /\ with[1] = z /\ with[2] = t
    BY SeqTwo
  <1>12. mid[1] = s1 /\ mid[2] = r /\ mid[3] = s
    OBVIOUS
  <1>13. z.do = "generate" /\ Rule(m, dcl, z, s1, r)
    BY <1>7
  <1> HIDE DEF z, with, mid
  <1>14. Run(m, dcl, with, mid)
    <2>1. ASSUME NEW k \in 1..Len(with) PROVE Rule(m, dcl, with[k], mid[k], mid[k + 1])
      <3>1. k = 1 \/ k = 2
        BY <1>11
      <3>2. CASE k = 1
        <4>1. k + 1 = 2
          BY <3>2
        <4> QED
          BY <1>11, <1>12, <1>13, <3>2, <4>1
      <3>3. CASE k = 2
        <4>1. k + 1 = 3
          BY <3>3
        <4> QED
          BY <1>10, <1>11, <1>12, <3>3, <4>1
      <3> QED
        BY <3>1, <3>2, <3>3
    <2> QED
      BY <1>11, <2>1 DEF Run
  <1>15. Under(z, s1) = s.size /\ Under(t, r) = s.size
    BY <1>4, <1>8, <1>9, <1>13 DEF Under, Pops
  <1>16. Starting(m, dcl, f, ids, s, a, with, mid)
    <2>1. ASSUME NEW k \in 1..2 PROVE mid[k].fn = f /\ mid[k].loops = {} /\ Under(with[k], mid[k]) = s.size
      BY <1>4, <1>9, <1>11, <1>12, <1>15
    <2> QED
      BY <1>8, <1>11, <1>12, <1>13, <1>14, <2>1 DEF Starting, s1
  <1> QED
    BY <1>16 DEF with, z, e

\* The block there is waits for the function.
Waiting(bt, h, vs, s, a, x) ==
  s.inside => ReadyAt(bt, h, vs, a, s, s.size) /\ ~Closed(bt, a) /\ a # x

LEMMA StartTasks ==
  ASSUME NEW m, NEW dcl, NEW f, NEW ids, NEW s, NEW a, NEW with, NEW mid, Starting(m, dcl, f, ids, s, a, with, mid),
         NEW bt, NEW h, NEW vs, NEW x, Waiting(bt, h, vs, s, a, x)
  PROVE  /\ TaskSound(bt, h, vs, with[1], mid[1], mid[2]) /\ TaskSound(bt, h, vs, with[2], mid[2], mid[3])
         /\ Held(with[1], mid[2]) = {} /\ Pending(with[2]) = {}
         /\ Held(with[2], mid[3]) = (IF s.inside THEN {a} ELSE {})
         /\ Awaited(with[2], mid[3]) = (IF s.inside THEN {a} ELSE {})
  <1> DEFINE t == with[2]
             z == with[1]
             r == mid[2]
  <1>1. /\ z.do = "generate" /\ t.do = "end" /\ t.blocks[1] = a /\ mid[3] = s /\ Under(t, r) = s.size
    BY DEF Starting
  <1> HIDE DEF t, z, r
  <1>2. Pending(z) = {} /\ Pending(t) = {} /\ Unreached(t) = {} /\ t.do \notin Forks
    BY <1>1 DEF Pending, Unreached, Forks
  <1>3. TaskSound(bt, h, vs, z, mid[1], r) /\ Held(z, r) = {}
    BY <1>1, <1>2, PlainSound
  <1>4. Saved(t, s) = IF s.inside THEN {a} ELSE {}
    BY <1>1 DEF Saved
  <1>5. Held(t, s) = Saved(t, s) /\ Awaited(t, s) = Saved(t, s)
    BY <1>1, <1>2 DEF Held, Awaited
  <1>6. TaskSound(bt, h, vs, t, r, s)
    BY <1>1, <1>2, <1>4, <1>5 DEF TaskSound, Waiting
  <1> QED
    BY <1>1, <1>2, <1>3, <1>4, <1>5, <1>6 DEF t, z, r

LEMMA StartFits ==
  ASSUME NEW m, NEW dcl, NEW ts, NEW c, NEW vs, NEW bt, NEW h, NEW a, NEW x, NEW f, f \notin dcl, NEW ids,
         NEW dcl2, NEW with, NEW mid, Starting(m, dcl2, f, ids, c[1], a, with, mid),
         Waiting(bt, h, vs, c[1], a, x), c[1].size \in Nat, c[1].inside => c[1].fn \in dcl,
         Above(ts, c, c[1].size, f, ids),
         \A k \in 1..Len(ts) : Awaited(ts[k], c[k + 1]) # {} => c[k + 1].fn \in dcl
  PROVE  Fits(bt, h, vs, with, mid, ts, c, {a, x}, {x})
  <1> DEFINE t == with[2]
             z == with[1]
             s == c[1]
  <1>1. /\ Len(with) = 2 /\ mid[3] = s
        /\ \A j \in 1..2 : mid[j].fn = f /\ mid[j].loops = {} /\ Under(with[j], mid[j]) = s.size
    BY DEF Starting
  <1>2. /\ TaskSound(bt, h, vs, with[1], mid[1], mid[2]) /\ TaskSound(bt, h, vs, with[2], mid[2], mid[3])
        /\ Held(with[1], mid[2]) = {} /\ Pending(with[2]) = {}
        /\ Held(with[2], mid[3]) = (IF s.inside THEN {a} ELSE {})
        /\ Awaited(with[2], mid[3]) = (IF s.inside THEN {a} ELSE {})
    BY StartTasks
  <1>3. s.inside => a # x
    BY DEF Waiting
  <1> HIDE DEF t, z, s
  <1>4. with[Len(with)] = t /\ mid[Len(with) + 1] = s /\ mid[Len(with)] = mid[2]
    BY <1>1 DEF t
  <1>5. Held(t, s) \subseteq {a, x} /\ Held(t, s) \cap {x} = {}
    BY <1>1, <1>2, <1>3 DEF t
  <1>6. ASSUME NEW j \in 1..2
        PROVE  /\ TaskSound(bt, h, vs, with[j], mid[j], mid[j + 1])
               /\ j # 2 => Held(with[j], mid[j + 1]) = {}
    <2>1. CASE j = 1
      <3>1. j + 1 = 2
        BY <2>1
      <3> QED
        BY <1>2, <2>1, <3>1
    <2>2. CASE j = 2
      <3>1. j + 1 = 3
        BY <2>2
      <3> QED
        BY <1>2, <2>2, <3>1
    <2> QED
      BY <2>1, <2>2
  <1>7. ASSUME NEW j \in 1..2
        PROVE  Awaited(t, s) # {} => /\ Under(t, mid[2]) <= Under(with[j], mid[j])
                                     /\ mid[j].fn = s.fn => s.vars \subseteq mid[j].vars
    <2>1. Under(t, mid[2]) = s.size /\ Under(with[j], mid[j]) = s.size /\ mid[j].fn = f
      BY <1>1 DEF t
    <2>2. s.size <= s.size
      BY DEF s
    <2>3. Awaited(t, s) # {} => s.fn # f
      BY <1>1, <1>2 DEF s, t
    <2> QED
      BY <2>1, <2>2, <2>3
  <1>8. ASSUME NEW j \in 1..2, NEW k \in 1..Len(ts), Awaited(ts[k], c[k + 1]) # {}
        PROVE  /\ Under(ts[k], c[k]) <= Under(with[j], mid[j])
               /\ mid[j].fn = c[k + 1].fn => c[k + 1].vars \subseteq mid[j].vars
    <2>1. Under(ts[k], c[k]) <= c[1].size
      BY <1>8 DEF Above
    <2>2. c[k + 1].fn # f
      BY <1>8
    <2> QED
      BY <1>1, <2>1, <2>2 DEF s
  <1>9. Pending(t) = {}
    BY <1>2 DEF t
  <1> DEFINE free == {a, x}
             left == {x}
  <1>10. left \subseteq free
    OBVIOUS
  <1>11. Held(t, s) \subseteq free /\ Held(t, s) \cap left = {}
    BY <1>5
  <1> HIDE DEF free, left
  <1>12. Fits(bt, h, vs, with, mid, ts, c, free, left)
    <2>1. ASSUME NEW j \in 1..Len(with)
          PROVE  /\ TaskSound(bt, h, vs, with[j], mid[j], mid[j + 1])
                 /\ j # Len(with) => Held(with[j], mid[j + 1]) = {}
                 /\ Held(t, s) \subseteq free /\ Held(t, s) \cap left = {}
                 /\ Awaited(t, s) # {} => /\ Under(t, mid[Len(with)]) <= Under(with[j], mid[j])
                                          /\ mid[j].fn = s.fn => s.vars \subseteq mid[j].vars
                 /\ mid[j].loops = {}
                 /\ \A k \in 1..Len(ts) + 1 : c[k].loops \cap Pending(t) = {}
                 /\ \A k \in 1..Len(ts) : Awaited(ts[k], c[k + 1]) # {} =>
                      /\ Under(ts[k], c[k]) <= Under(with[j], mid[j])
                      /\ mid[j].fn = c[k + 1].fn => c[k + 1].vars \subseteq mid[j].vars
      <3>1. j \in 1..2 /\ Len(with) = 2
        BY <1>1
      <3>2. TaskSound(bt, h, vs, with[j], mid[j], mid[j + 1]) /\ (j # Len(with) => Held(with[j], mid[j + 1]) = {})
        BY <1>6, <3>1
      <3>3. Awaited(t, s) # {} => /\ Under(t, mid[Len(with)]) <= Under(with[j], mid[j])
                                  /\ mid[j].fn = s.fn => s.vars \subseteq mid[j].vars
        BY <1>7, <3>1
      <3>4. mid[j].loops = {}
        BY <1>1, <3>1
      <3>5. \A k \in 1..Len(ts) + 1 : c[k].loops \cap Pending(t) = {}
        BY <1>9
      <3>6. \A k \in 1..Len(ts) : Awaited(ts[k], c[k + 1]) # {} =>
                      /\ Under(ts[k], c[k]) <= Under(with[j], mid[j])
                      /\ mid[j].fn = c[k + 1].fn => c[k + 1].vars \subseteq mid[j].vars
        BY <1>8, <3>1
      <3> QED
        BY <1>11, <3>2, <3>3, <3>4, <3>5, <3>6
    <2> QED
      BY <1>4, <1>10, <2>1 DEF Fits
  <1> QED
    BY <1>12 DEF free, left

\* The builder is at the function's first block.
LEMMA StartCurrent ==
  ASSUME NEW m, NEW dcl, NEW bs, NEW bt, NEW h, NEW h2, NEW f, NEW ids, NEW x, Entered(m, dcl, bs, bt, h, h2, f, ids, x),
         NEW vs, NEW s, s.size \in Nat, Matches(bs, vs, s), ~Over(s)
  PROVE  Matches(bt, vs, First(f, ids, s)) /\ IsCurrent(bt, h2, vs, x, First(f, ids, s))
  <1> DEFINE s1 == First(f, ids, s)
  <1>1. s1.fn = f /\ s1.size = s.size /\ s1.stack = s.stack /\ s1.vars = ids /\ s1.loops = {} /\ s1.inside
    BY DEF First
  <1>2. /\ Extends(bs, bt, {}, {}, {}) /\ x = Len(bs) + 1 /\ Len(bt) = x /\ Len(bs) \in Nat
        /\ bt[x].function = f /\ ~Closed(bt, x) /\ f \notin dcl
        /\ \A c \in 1..Len(bs) : bs[c].function \in dcl /\ bt[c] = bs[c]
        /\ \A i \in ids : h2[<<f, i>>] = x /\ <<f, i>> \in DOMAIN h2
    BY DEF Entered, Adds
  <1>3. IsSeq(vs) /\ Len(vs) = s.size /\ \A i \in 1..s.size : ValueSound(bs, FromBelow(vs, i), s.stack[i])
    BY DEF Matches
  <1> HIDE DEF s1
  <1>4. Matches(bt, vs, s1)
    <2>1. ASSUME NEW i \in 1..s1.size PROVE ValueSound(bt, FromBelow(vs, i), s1.stack[i])
      <3>1. ValueSound(bs, FromBelow(vs, i), s.stack[i])
        BY <1>1, <1>3
      <3> DEFINE v == FromBelow(vs, i)
                 e == s.stack[i]
                 none == {}
      <3>2. Extends(bs, bt, none, none, none) /\ ValueSound(bs, v, e)
        BY <1>2, <3>1
      <3> HIDE DEF v, e, none
      <3>3. ValueSound(bt, v, e)
        BY ONLY <3>2, ValueKept
      <3> QED
        BY <1>1, <3>3 DEF v, e
    <2> QED
      BY <1>1, <1>3, <2>1 DEF Matches
  <1>5. ReadyAt(bt, h2, vs, x, s1, Len(vs))
    <2>1. ASSUME NEW i \in 1..Len(vs), FromBelow(vs, i).place # <<>>, bt[FromBelow(vs, i).place[1]].function = f
          PROVE  FALSE
      <3>1. FromBelow(vs, i).place[1] \in 1..Len(bs)
        BY <1>3, <2>1 DEF ValueSound
      <3> QED
        BY <1>2, <2>1, <3>1
    <2>2. \A id \in ids : <<f, id>> \in DOMAIN h2 /\ Dom(bt, h2[<<f, id>>], x)
      BY <1>2 DEF Dom
    <2>3. x \in 1..Len(bt)
      BY <1>2
    <2> QED
      BY <1>1, <1>2, <2>1, <2>2, <2>3 DEF ReadyAt
  <1>6. ~Over(s1)
    BY <1>1 DEF Over
  <1> QED
    BY <1>2, <1>4, <1>5, <1>6 DEF IsCurrent, s1

\* The block it is called in waits.
LEMMA StartWaits ==
  ASSUME NEW m, NEW dcl, NEW ts, NEW c, NEW vs, NEW bs, NEW h, NEW a, Sound(m, dcl, ts, c, vs, bs, h, a), ts # <<>>,
         ts[1].do = "generate",
         NEW bt, NEW h2, NEW f, NEW ids, NEW x, Entered(m, dcl, bs, bt, h, h2, f, ids, x)
  PROVE  Waiting(bt, h2, vs, c[1], a, x)
  <1> DEFINE t == ts[1]
             s == c[1]
             u == c[2]
  <1>1. /\ Begins(m, dcl, t, s, u, vs, bs, h, a) /\ ReadyAt(bs, h, vs, a, s, s.size) /\ s.size \in Nat
        /\ Matches(bs, vs, s) /\ VarsSound(bs, h) /\ a \in 1..Len(bs) /\ RuleParts(m, t, s, u, t.node)
        /\ (Closed(bs, a) <=> Over(s)) /\ s.fn \in dcl
    BY FirstRule DEF Begins
  <1>2. ~Over(s)
    BY <1>1 DEF RuleParts
  <1>3. /\ Adds(bs, bt) /\ Extends(bs, bt, {}, {}, {}) /\ x = Len(bs) + 1 /\ f \notin dcl /\ Len(bs) \in Nat
        /\ bt[a] = bs[a] /\ \A y \in DOMAIN h : y \in DOMAIN h2 /\ h2[y] = h[y]
    BY <1>1 DEF Entered, Adds
  <1>4. \A l \in s.loops : l \in 1..Len(bs)
    BY <1>1 DEF Begins
  <1> HIDE DEF t, s, u
  <1>5. ReadyAt(bt, h2, vs, a, s, s.size)
    <2> DEFINE none == {}
               n == s.size
    <2>1. s.loops \cap none = {} /\ s.loops \subseteq 1..Len(bs) /\ Empty(bs, none) /\ a \notin none
      BY <1>4 DEF Empty
    <2>2. Keeps(bs, vs, vs, n)
      <3>1. n \in Int /\ n <= s.size
        BY <1>1
      <3> HIDE DEF n
      <3> QED
        BY ONLY <1>1, <3>1, KeepsSame
    <2>3. KeepsVars(h, h2, s.fn, s.vars)
      BY <1>3 DEF KeepsVars
    <2>4. Extends(bs, bt, none, none, none) /\ ReadyAt(bs, h, vs, a, s, n)
      BY <1>1, <1>3
    <2> HIDE DEF none, n
    <2>5. ReadyAt(bt, h2, vs, a, s, n)
      BY ONLY <1>1, <2>1, <2>2, <2>3, <2>4, ReadyKept
    <2> QED
      BY <2>5 DEF n
  <1>6. ~Closed(bt, a) /\ a # x
    BY <1>1, <1>2, <1>3 DEF Closed
  <1> QED
    BY <1>5, <1>6 DEF Waiting, s

\* With the entry and its tasks.
LEMMA StartSound ==
  ASSUME NEW m, NEW dcl, NEW ts, NEW c, NEW vs, NEW bs, NEW h, NEW a, Sound(m, dcl, ts, c, vs, bs, h, a),
         c[1].size \in Nat, ~Over(c[1]), c[1].inside <=> ts # <<>>, c[1].inside => c[1].fn \in dcl,
         ts # <<>> => Under(ts[1], c[1]) = c[1].size,
         NEW bt, NEW h2, NEW f, NEW ids, NEW x, Entered(m, dcl, bs, bt, h, h2, f, ids, x),
         Waiting(bt, h2, vs, c[1], a, x),
         NEW dcl2, dcl2 = dcl \cup {f}, NEW with, NEW mid, Starting(m, dcl2, f, ids, c[1], a, with, mid)
  PROVE  \E c2 : Sound(m, dcl2, with \o ts, c2, vs, bt, h2, x)
  <1> DEFINE free == {a, x}
             left == {x}
             c2 == ChainOf(with, mid, ts, c)
             tt == with \o ts
  <1>1. /\ Pile(m, dcl, ts, c, vs, bs, h, {a}) /\ Heap(m, dcl, bs) /\ VarsSound(bs, h) /\ Matches(bs, vs, c[1])
        /\ \A d \in 1..Len(bs) : \/ Closed(bs, d) \/ (ts # <<>> /\ d = a)
                                 \/ \E k \in 1..Len(ts) : d \in Held(ts[k], c[k + 1])
    BY DEF Sound
  <1>2. /\ Heap(m, dcl2, bt) /\ VarsSound(bt, h2) /\ Len(bs) \in Nat /\ x = Len(bs) + 1 /\ Len(bt) = x /\ f \notin dcl
        /\ \A d \in 1..Len(bs) : bt[d] = bs[d]
    BY DEF Entered, Adds
  <1>3. Pile(m, dcl2, ts, c, vs, bt, h2, free)
    BY <1>1, PileStart
  <1>4. Above(ts, c, c[1].size, f, ids)
    <2> DEFINE one == {a}
               n == c[1].size
    <2>1. Pile(m, dcl, ts, c, vs, bs, h, one)
      BY <1>1
    <2>2. ts # <<>> => Under(ts[1], c[1]) = c[1].size
      OBVIOUS
    <2> HIDE DEF one
    <2> QED
      BY ONLY <1>2, <2>1, <2>2, AboveAll
  <1>5. \A k \in 1..Len(ts) : Awaited(ts[k], c[k + 1]) # {} => c[k + 1].fn \in dcl
    <2> DEFINE one == {a}
    <2>1. Pile(m, dcl, ts, c, vs, bs, h, one)
      BY <1>1
    <2> HIDE DEF one
    <2> QED
      BY ONLY <2>1, AwaitedDeclared
  <1>6. Fits(bt, h2, vs, with, mid, ts, c, free, left)
    BY <1>2, <1>4, <1>5, StartFits
  <1>7. /\ Run(m, dcl2, with, mid) /\ mid[Len(with) + 1] = c[1] /\ IsSeq(with) /\ Len(with) = 2
        /\ mid[1] = First(f, ids, c[1])
    BY DEF Starting
  <1> HIDE DEF free, left
  <1>8. Pile(m, dcl2, tt, c2, vs, bt, h2, left)
    BY ONLY <1>3, <1>6, <1>7, PileJoin
  <1>9. Matches(bt, vs, mid[1]) /\ IsCurrent(bt, h2, vs, x, mid[1])
    BY <1>1, <1>7, StartCurrent
  <1>10. IsSeq(ts)
    BY <1>1 DEF Pile, Run
  <1>11. /\ IsSeq(tt) /\ Len(tt) = 2 + Len(ts) /\ Len(ts) \in Nat /\ c2[1] = mid[1]
         /\ tt[2] = with[2] /\ c2[3] = c[1]
         /\ \A k \in 1..Len(ts) : tt[2 + k] = ts[k] /\ c2[2 + k + 1] = c[k + 1]
    <2>1. LET n == Len(with)
          IN /\ IsSeq(tt) /\ Len(tt) = n + Len(ts) /\ Len(ts) \in Nat /\ c2[1] = mid[1]
             /\ \A k \in 1..n : tt[k] = with[k] /\ c2[k + 1] = mid[k + 1]
             /\ \A k \in 1..Len(ts) : tt[n + k] = ts[k] /\ c2[n + k + 1] = c[k + 1]
      <3>1. IsSeq(with) /\ IsSeq(ts) /\ mid[Len(with) + 1] = c[1]
        BY <1>7, <1>10
      <3> QED
        BY ONLY <3>1, JoinFacts
    <2> HIDE DEF tt, c2
    <2>2. tt[2] = with[2] /\ c2[2 + 1] = mid[2 + 1] /\ mid[2 + 1] = c[1]
      BY <1>7, <2>1
    <2>3. c2[3] = c[1]
      BY <2>2
    <2> QED
      BY <1>7, <2>1, <2>2, <2>3
  <1>12. Held(with[2], c[1]) = (IF c[1].inside THEN {a} ELSE {})
    <2> DEFINE s == c[1]
    <2>1. Starting(m, dcl2, f, ids, s, a, with, mid) /\ Waiting(bt, h2, vs, s, a, x)
      OBVIOUS
    <2>2. mid[3] = s
      BY DEF Starting
    <2> HIDE DEF s
    <2>3. Held(with[2], mid[3]) = (IF s.inside THEN {a} ELSE {})
      BY ONLY <2>1, StartTasks
    <2> QED
      BY <2>2, <2>3 DEF s
  <1> HIDE DEF tt, c2
  <1>13. tt # <<>>
    <2>1. Len(tt) # 0
      BY <1>11
    <2> QED
      BY <2>1, SeqNone
  <1>14. ASSUME NEW d \in 1..Len(bt)
         PROVE  Closed(bt, d) \/ d = x \/ \E k \in 1..Len(tt) : d \in Held(tt[k], c2[k + 1])
    <2>1. CASE d = x
      BY <2>1
    <2>2. CASE d \in 1..Len(bs) /\ Closed(bs, d)
      BY <1>2, <2>2 DEF Closed
    <2>3. CASE ts # <<>> /\ d = a
      <3>1. d \in Held(tt[2], c2[3]) /\ 2 \in 1..Len(tt) /\ 2 + 1 = 3
        BY <1>11, <1>12, <2>3
      <3> QED
        BY <3>1
    <2>4. CASE \E k \in 1..Len(ts) : d \in Held(ts[k], c[k + 1])
      <3>1. PICK k \in 1..Len(ts) : d \in Held(ts[k], c[k + 1])
        BY <2>4
      <3>2. d \in Held(tt[2 + k], c2[2 + k + 1]) /\ 2 + k \in 1..Len(tt)
        BY <1>11, <3>1
      <3> QED
        BY <3>2
    <2>5. d = x \/ d \in 1..Len(bs)
      BY <1>2
    <2> QED
      BY <1>1, <2>1, <2>2, <2>3, <2>4, <2>5
  <1>15. Sound(m, dcl2, tt, c2, vs, bt, h2, x)
    BY <1>2, <1>8, <1>9, <1>11, <1>13, <1>14 DEF Sound, left
  <1> QED
    BY <1>15 DEF tt

\* Between functions, or where one is called.
LEMMA StartFacts ==
  ASSUME NEW m, NEW dcl, NEW ts, NEW c, NEW vs, NEW bs, NEW h, NEW a, Sound(m, dcl, ts, c, vs, bs, h, a),
         ts # <<>> => ts[1].do = "generate"
  PROVE  /\ c[1].size \in Nat /\ ~Over(c[1]) /\ (c[1].inside <=> ts # <<>>) /\ (c[1].inside => c[1].fn \in dcl)
         /\ ts # <<>> => Under(ts[1], c[1]) = c[1].size
  <1>1. CASE ts = <<>>
    <2>1. Len(ts) + 1 = 1
      BY <1>1, SeqNone
    <2>2. IsLast(c[Len(ts) + 1])
      BY DEF Sound, Pile
    <2>3. IsLast(c[1])
      BY <2>1, <2>2
    <2> QED
      BY <1>1, <2>3 DEF IsLast, Over
  <1>2. CASE ts # <<>>
    <2> DEFINE t == ts[1]
               s == c[1]
               u == c[2]
    <2>1. Rule(m, dcl, t, s, u) /\ RuleParts(m, t, s, u, t.node) /\ s.size \in Nat
      BY <1>2, FirstRule
    <2>2. t.do = "generate"
      BY <1>2
    <2> HIDE DEF t, s, u
    <2>3. s.inside /\ s.fn \in dcl /\ ~Over(s)
      BY <2>1, <2>2 DEF Rule, RuleParts
    <2>4. Under(t, s) = s.size
      BY <2>1, <2>2 DEF Under, Pops
    <2> QED
      BY <1>2, <2>1, <2>3, <2>4 DEF s, t
  <1> QED
    BY <1>1, <1>2

WithVariables(h, h2, f, ids) == DOMAIN h2 = DOMAIN h \cup {<<f, id>> : id \in ids}

LEMMA FunctionStarts ==
  ASSUME NEW m \in Modules, NEW dcl, NEW ts, NEW c, NEW vs, NEW bs, NEW h, NEW a, Sound(m, dcl, ts, c, vs, bs, h, a),
         ts # <<>> => ts[1].do = "generate", NEW f, f \notin dcl, \E i \in DOMAIN m.typed : m.typed[i].name = f,
         NEW g, g = FunctionIn(m, f), g.body # <<>>
  PROVE  LET t == [Task("end", g) EXCEPT !.blocks = <<a>>]
             bt == Append(bs, [function |-> f, code |-> Stores(g)])
         IN \E c2, h2 : /\ WithVariables(h, h2, f, DOMAIN g.params)
                        /\ Sound(m, dcl \cup {f}, <<Generate(g.body[1]), t>> \o ts, c2, vs, bt, h2, Len(bs) + 1)
  <1> DEFINE t == [Task("end", g) EXCEPT !.blocks = <<a>>]
             bt == Append(bs, [function |-> f, code |-> Stores(g)])
             stores == Stores(g)
             x == Len(bs) + 1
             ids == 1..Len(g.params)
             h2 == Placed(h, f, ids, x)
             dcl2 == dcl \cup {f}
             with == <<Generate(g.body[1]), t>>
             s == c[1]
  <1>1. g.name = f /\ FunctionIsTyped(m, g) /\ IsSeq(g.params)
    BY FunctionThere
  <1>2. AreStores(g, stores)
    BY <1>1, StoresAre
  <1>3. s.size \in Nat /\ ~Over(s) /\ (s.inside <=> ts # <<>>) /\ (s.inside => s.fn \in dcl)
        /\ (ts # <<>> => Under(ts[1], s) = s.size)
    BY StartFacts
  <1>4. ids = 1..Len(g.params) /\ x = Len(bs) + 1 /\ bt = Append(bs, [function |-> f, code |-> stores])
        /\ h2 = Placed(h, f, ids, x) /\ t = [Task("end", g) EXCEPT !.blocks = <<a>>] /\ f \in dcl2 /\ s = c[1]
        /\ dcl2 = dcl \cup {f}
    OBVIOUS
  <1>5. Heap(m, dcl, bs) /\ VarsSound(bs, h)
    BY DEF Sound
  <1>6. DOMAIN g.params = ids
    BY <1>1, SeqFacts
  <1> HIDE DEF t, bt, stores, x, ids, h2, dcl2, s
  <1>7. Entered(m, dcl, bs, bt, h, h2, f, ids, x)
    BY ONLY <1>2, <1>4, <1>5, f \notin dcl, EnterFunction
  <1>8. PICK mid : Starting(m, dcl2, f, ids, s, a, with, mid)
    BY <1>1, <1>3, <1>4, StartRun, ZenonT(30)
  <1>9. Waiting(bt, h2, vs, s, a, x)
    <2>1. CASE ts = <<>>
      BY <1>3, <2>1 DEF Waiting
    <2>2. CASE ts # <<>>
      <3>1. Waiting(bt, h2, vs, c[1], a, x)
        BY <1>7, <2>2, StartWaits
      <3> QED
        BY <3>1 DEF s
    <2> QED
      BY <2>1, <2>2
  <1> HIDE DEF with
  <1>10. \E c2 : Sound(m, dcl2, with \o ts, c2, vs, bt, h2, x)
    BY <1>3, <1>4, <1>7, <1>8, <1>9, StartSound, ZenonT(30) DEF s
  <1>11. DOMAIN h2 = DOMAIN h \cup {<<f, i>> : i \in ids}
    BY <1>7 DEF Entered
  <1>12. DOMAIN h2 = DOMAIN h \cup {<<f, i>> : i \in DOMAIN g.params}
    BY <1>6, <1>11
  <1>13. \E c3, h3 : /\ WithVariables(h, h3, f, DOMAIN g.params)
                     /\ Sound(m, dcl2, with \o ts, c3, vs, bt, h3, x)
    BY <1>10, <1>12 DEF WithVariables
  <1> QED
    BY <1>13 DEF with, t, bt, x, stores, dcl2

\* A function without a body has no block.
LEMMA ExternalStarts ==
  ASSUME NEW m, NEW dcl, NEW ts, NEW c, NEW vs, NEW bs, NEW h, NEW a, Sound(m, dcl, ts, c, vs, bs, h, a),
         NEW dcl2, dcl \subseteq dcl2
  PROVE  Sound(m, dcl2, ts, c, vs, bs, h, a)
  <1>1. Heap(m, dcl2, bs)
    BY HeapMore DEF Sound
  <1>2. Pile(m, dcl2, ts, c, vs, bs, h, {a})
    <2>1. Run(m, dcl, ts, c)
      BY DEF Sound, Pile
    <2>2. Run(m, dcl2, ts, c)
      BY <2>1, RuleMore DEF Run
    <2> QED
      BY <2>2 DEF Sound, Pile
  <1> QED
    BY <1>1, <1>2 DEF Sound

\* Nothing is open when nothing is left to do.
LEMMA AllClosed ==
  ASSUME NEW m, NEW dcl, NEW ts, NEW c, NEW vs, NEW bs, NEW h, NEW a, Sound(m, dcl, ts, c, vs, bs, h, a), ts = <<>>
  PROVE  Heap(m, dcl, bs) /\ \A d \in 1..Len(bs) : Closed(bs, d)
  <1>1. Len(ts) = 0
    BY SeqNone
  <1> QED
    BY <1>1 DEF Sound

-----------------------------------------------------------------------------
(* The verifier.                                                             *)

\* What is reached in steps.
Beyond(before) == UNION {Successors(c) : c \in before}
Onwards(before, avoided) == before \cup (Beyond(before) \ {avoided})
IsReached(w, b, avoided, k) ==
  w = [n \in 0..k |-> IF n = 0 THEN {b} \ {avoided}
                      ELSE w[n - 1] \cup ((UNION {Successors(c) : c \in w[n - 1]}) \ {avoided})]
HasReached(b, avoided, k) == \E w : IsReached(w, b, avoided, k)
Reaches(w, b, avoided) ==
  /\ ReachedWithout(b, avoided) = w[Len(blocks)] /\ w[0] = {b} \ {avoided}
  /\ \A n \in 1..Len(blocks) : w[n] = Onwards(w[n - 1], avoided)

LEMMA ReachedFacts ==
  ASSUME Len(blocks) \in Nat, NEW b, NEW avoided
  PROVE  \E w : Reaches(w, b, avoided)
  <1> DEFINE N == Len(blocks)
             Further(before) == before \cup ((UNION {Successors(c) : c \in before}) \ {avoided})
             S == {k \in 0..N : ~HasReached(b, avoided, k)}
             within == CHOOSE w : IsReached(w, b, avoided, N)
  <1>0. N \in Nat
    OBVIOUS
  <1>1. S = {}
    <2>1. SUFFICES ASSUME S # {} PROVE FALSE
      OBVIOUS
    <2>2. S \in SUBSET Nat
      BY <1>0
    <2>3. PICK k \in S : \A j \in S : k <= j
      BY <2>1, <2>2, LeastNat
    <2>4. k \in 0..N /\ ~HasReached(b, avoided, k)
      BY <2>3
    <2>5. CASE k = 0
      <3> DEFINE g == [n \in 0..0 |-> {b} \ {avoided}]
      <3>1. IsReached(g, b, avoided, 0)
        BY DEF IsReached
      <3> QED
        BY <2>4, <2>5, <3>1 DEF HasReached
    <2>6. CASE k # 0
      <3>1. k - 1 \in 0..N /\ ~(k <= k - 1) /\ k \in Nat \ {0}
        BY <1>0, <2>4, <2>6
      <3>2. k - 1 \notin S
        BY <2>3, <3>1
      <3>3. HasReached(b, avoided, k - 1)
        BY <3>1, <3>2
      <3>4. PICK f : IsReached(f, b, avoided, k - 1)
        BY <3>3 DEF HasReached
      <3>5. \A n \in 0..k - 1 : f[n] = IF n = 0 THEN {b} \ {avoided} ELSE Further(f[n - 1])
        BY <3>4 DEF IsReached
      <3> HIDE DEF Further
      <3> DEFINE g == [n \in 0..k |-> IF n < k THEN f[n] ELSE Further(f[k - 1])]
      <3>6. \A n \in 0..k : n < k => g[n] = f[n]
        OBVIOUS
      <3>7. g[k] = Further(f[k - 1])
        <4>1. k \in 0..k /\ ~(k < k)
          BY <3>1
        <4> QED
          BY <4>1
      <3>8. g = [n \in 0..k |-> g[n]]
        OBVIOUS
      <3> HIDE DEF g
      <3>9. ASSUME NEW n \in 0..k PROVE g[n] = IF n = 0 THEN {b} \ {avoided} ELSE Further(g[n - 1])
        <4>1. CASE n = k
          <5>1. k - 1 \in 0..k /\ k - 1 < k
            BY <3>1
          <5>2. g[k - 1] = f[k - 1]
            BY <3>6, <5>1
          <5> QED
            BY <2>6, <3>7, <4>1, <5>2
        <4>2. CASE n # k
          <5>1. n \in 0..k - 1 /\ n < k /\ n \in Nat
            BY <3>1, <4>2
          <5>2. g[n] = f[n]
            BY <3>6, <5>1
          <5>3. CASE n = 0
            BY <3>5, <5>1, <5>2, <5>3
          <5>4. CASE n # 0
            <6>1. n - 1 \in 0..k /\ n - 1 < k
              BY <3>1, <5>1, <5>4
            <6>2. g[n - 1] = f[n - 1]
              BY <3>6, <6>1
            <6> QED
              BY <3>5, <5>1, <5>2, <5>4, <6>2
          <5> QED
            BY <5>3, <5>4
        <4> QED
          BY <4>1, <4>2
      <3>10. g = [n \in 0..k |-> IF n = 0 THEN {b} \ {avoided} ELSE Further(g[n - 1])]
        BY <3>8, <3>9
      <3>11. IsReached(g, b, avoided, k)
        BY <3>10 DEF IsReached, Further
      <3> QED
        BY <2>4, <3>11 DEF HasReached
    <2> QED
      BY <2>5, <2>6
  <1>2. HasReached(b, avoided, N)
    <2>1. N \in 0..N
      BY <1>0
    <2> QED
      BY <1>1, <2>1
  <1>3. IsReached(within, b, avoided, N)
    BY <1>2 DEF HasReached
  <1>4. ReachedWithout(b, avoided) = within[N]
    BY DEF ReachedWithout, IsReached
  <1> HIDE DEF within
  <1>5. \A n \in 0..N : within[n] = IF n = 0 THEN {b} \ {avoided} ELSE Further(within[n - 1])
    BY <1>3 DEF IsReached
  <1>8. \A before : Further(before) = Onwards(before, avoided)
    <2>1. TAKE before
    <2>2. Beyond(before) = UNION {Successors(c) : c \in before}
      BY Zenon DEF Beyond
    <2>3. Onwards(before, avoided) = before \cup (Beyond(before) \ {avoided})
      BY DEF Onwards
    <2> QED
      BY ONLY <2>2, <2>3, Zenon
  <1> HIDE DEF Further
  <1>6. 0 \in 0..N /\ \A n \in 1..N : n \in 0..N /\ n # 0
    BY <1>0
  <1>7. within[0] = {b} \ {avoided} /\ \A n \in 1..N : within[n] = Onwards(within[n - 1], avoided)
    BY <1>5, <1>6, <1>8
  <1> QED
    BY <1>4, <1>7 DEF Reaches

\* It stays within a set of blocks that is not left.
LEMMA ReachedStays ==
  ASSUME Len(blocks) \in Nat, NEW b, NEW avoided, NEW R, {b} \ {avoided} \subseteq R,
         \A c \in R : Successors(c) \subseteq R \cup {avoided}
  PROVE  ReachedWithout(b, avoided) \subseteq R
  <1>0. PICK w : Reaches(w, b, avoided)
    BY ReachedFacts
  <1>1. /\ ReachedWithout(b, avoided) = w[Len(blocks)] /\ w[0] = {b} \ {avoided}
        /\ \A n \in 1..Len(blocks) : w[n] = Onwards(w[n - 1], avoided)
    BY <1>0 DEF Reaches
  <1> DEFINE S == {k \in 0..Len(blocks) : ~(w[k] \subseteq R)}
  <1>2. S = {}
    <2>1. SUFFICES ASSUME S # {} PROVE FALSE
      OBVIOUS
    <2>2. S \in SUBSET Nat
      OBVIOUS
    <2>3. PICK k \in S : \A j \in S : k <= j
      BY <2>1, <2>2, LeastNat
    <2>4. k # 0
      BY <1>1, <2>3
    <2>5. k \in 1..Len(blocks) /\ k - 1 \in 0..Len(blocks) /\ ~(k <= k - 1)
      BY <2>3, <2>4
    <2>6. w[k - 1] \subseteq R
      BY <2>3, <2>5
    <2>7. w[k] = Onwards(w[k - 1], avoided)
      BY <1>1, <2>5
    <2>8. ASSUME NEW x \in Onwards(w[k - 1], avoided) PROVE x \in R
      <3>1. CASE x \in w[k - 1]
        BY <2>6, <3>1
      <3>2. CASE x \notin w[k - 1]
        <4>1. x \in Beyond(w[k - 1]) /\ x # avoided
          BY <3>2 DEF Onwards
        <4>2. PICK c \in w[k - 1] : x \in Successors(c)
          BY <4>1 DEF Beyond
        <4>3. Successors(c) \subseteq R \cup {avoided}
          BY <2>6, <4>2
        <4> QED
          BY <4>1, <4>2, <4>3
      <3> QED
        BY <3>1, <3>2
    <2> QED
      BY <2>3, <2>7, <2>8
  <1>3. Len(blocks) \in 0..Len(blocks)
    OBVIOUS
  <1> QED
    BY <1>1, <1>2, <1>3

\* What there is when nothing is left to generate.
Generated == Heap(module, declared, blocks) /\ \A d \in 1..Len(blocks) : Closed(blocks, d)

LEMMA SuccessorsAre ==
  ASSUME Generated, NEW b \in 1..Len(blocks)
  PROVE  /\ Successors(b) = Follow(blocks, b) /\ Code(b) = blocks[b].code /\ IsSeq(Code(b))
         /\ Code(b) # <<>> /\ IsTerminator(Code(b)[Len(Code(b))]) /\ Len(Code(b)) \in 1..Len(Code(b))
         /\ DOMAIN Code(b) = 1..Len(Code(b))
  <1>1. Closed(blocks, b) /\ Heap(module, declared, blocks)
    BY DEF Generated
  <1>2. Code(b) = blocks[b].code
    BY DEF Code
  <1>3. IsSeq(Code(b)) /\ Len(Code(b)) \in Nat /\ Code(b) # <<>> /\ DOMAIN Code(b) = 1..Len(Code(b))
    BY <1>1, <1>2, HeapShape, CodeFacts, SeqFacts DEF Closed
  <1>4. Len(Code(b)) \in 1..Len(Code(b))
    BY <1>3, SeqNone
  <1> DEFINE n == Len(Code(b))
             i == Code(b)[n]
  <1>5. InstrSound(module, declared, blocks, b, i) /\ IsTerminator(i)
    BY <1>1, <1>2, <1>4 DEF Heap, Closed
  <1>6. IsSeq(i.to)
    BY <1>5 DEF InstrSound
  <1>7. Successors(b) = {i.to[k] : k \in DOMAIN i.to} /\ Follow(blocks, b) = Elements(i.to)
    BY <1>1, <1>2 DEF Successors, EndOf, Follow
  <1> HIDE DEF i
  <1>8. Successors(b) = Follow(blocks, b)
    <2>1. DOMAIN i.to = 1..Len(i.to)
      BY <1>6, SeqFacts
    <2> QED
      BY <1>7, <2>1 DEF Elements
  <1> QED
    BY <1>2, <1>3, <1>4, <1>5, <1>8 DEF i

LEMMA Generated1 ==
  ASSUME Generated
  PROVE  /\ Len(blocks) \in Nat /\ EdgesInside(blocks) /\ Blocks = 1..Len(blocks)
         /\ \A b \in 1..Len(blocks) : Predecessors(b) = Into(blocks, b)
         /\ \A f : Entry(f) = EntryOf(blocks, f)
  <1>1. Len(blocks) \in Nat /\ EdgesInside(blocks) /\ Blocks = 1..Len(blocks)
    BY HeapShape, HeapEdges DEF Generated, Blocks
  <1>2. \A b \in 1..Len(blocks) : Predecessors(b) = Into(blocks, b)
    BY <1>1, SuccessorsAre DEF Predecessors, Into
  <1>3. \A f : Entry(f) = EntryOf(blocks, f)
    BY DEF Entry, EntryOf, Blocks
  <1> QED
    BY <1>1, <1>2, <1>3

LEMMA DomDominates ==
  ASSUME Generated, NEW p \in 1..Len(blocks), NEW b \in 1..Len(blocks), Dom(blocks, p, b), NEW place, place[1] = p
  PROVE  Dominates(place, b)
  <1>1. CASE p = b
    BY <1>1 DEF Dominates
  <1>2. CASE p # b
    <2>1. blocks[p].function = blocks[b].function
      BY <1>2 DEF Dom
    <2>2. PICK R \in SUBSET (1..Len(blocks)) : Separates(blocks, R, p, b)
      BY <1>2 DEF Dom
    <2> DEFINE e == Entry(blocks[b].function)
    <2>3. e \in R \cup {p} /\ b \notin R
      BY <2>2, Generated1 DEF Separates
    <2>4. \A c \in R : Successors(c) \subseteq R \cup {p}
      <3>1. ASSUME NEW c \in R PROVE Successors(c) \subseteq R \cup {p}
        <4>1. c \in 1..Len(blocks) /\ Follow(blocks, c) \subseteq R \cup {p}
          BY <2>2 DEF Separates
        <4>2. Successors(c) = Follow(blocks, c)
          BY <4>1, SuccessorsAre
        <4> QED
          BY <4>1, <4>2
      <3> QED
        BY <3>1
    <2> HIDE DEF e
    <2>5. ReachedWithout(e, p) \subseteq R
      <3>1. {e} \ {p} \subseteq R /\ Len(blocks) \in Nat
        BY <2>3, Generated1
      <3> QED
        BY ONLY <2>4, <3>1, ReachedStays
    <2>6. b \notin ReachedWithout(e, place[1])
      BY <2>3, <2>5
    <2> QED
      BY <2>1, <2>6 DEF Dominates, e
  <1> QED
    BY <1>1, <1>2

\* A use that is sound passes.
LEMMA UseVerifies ==
  ASSUME Generated, NEW v, NEW b \in 1..Len(blocks), UseSound(blocks, v, b)
  PROVE  v.type # "void" /\ (v.place # <<>> => Dominates(v.place, b))
  BY DomDominates DEF UseSound

\* What the verifier asks of an instruction.
InstrVerifies(b, i) ==
  LET types == {i.args[a].type : a \in DOMAIN i.args}
      ret == LlvmType(FunctionOf(blocks[b].function).ret)
  IN /\ "void" \notin types
     /\ i.op # "phi" => \A a \in DOMAIN i.args :
          i.args[a].place # <<>> => Dominates(i.args[a].place, b)
     /\ i.op = "phi" => /\ {i.to[a] : a \in DOMAIN i.to} = Predecessors(b)
                        /\ Len(i.to) = Cardinality(Predecessors(b))
                        /\ types \subseteq {LlvmType(i.name)}
                        /\ \A a \in DOMAIN i.args : i.args[a].place # <<>> =>
                             Dominates(i.args[a].place, i.to[a])
     /\ i.op \in {"load", "store"} => \E c \in Blocks : \E m \in DOMAIN Code(c) :
          Code(c)[m].op = "alloca" /\ Code(c)[m].id = i.id /\ Dominates(<<c, m>>, b)
     /\ i.op = "ret" => types = {ret} \ {"void"}
     /\ i.op = "call" => /\ i.name \in declared
                         /\ [a \in DOMAIN i.args |-> i.args[a].type] =
                            LET params == FunctionOf(i.name).params
                            IN [a \in DOMAIN params |-> LlvmType(params[a].type)]

LEMMA SoundVerifies ==
  ASSUME Generated, NEW b \in 1..Len(blocks), NEW i, InstrSound(module, declared, blocks, b, i)
  PROVE  InstrVerifies(b, i)
  <1> DEFINE types == {i.args[a].type : a \in DOMAIN i.args}
             ret == LlvmType(FunctionOf(blocks[b].function).ret)
  <1>1. IsSeq(i.args) /\ IsSeq(i.to) /\ DOMAIN i.args = 1..Len(i.args) /\ DOMAIN i.to = 1..Len(i.to)
    BY SeqFacts DEF InstrSound
  <1>2. i.op # "phi" => \A a \in DOMAIN i.args :
          i.args[a].type # "void" /\ (i.args[a].place # <<>> => Dominates(i.args[a].place, b))
    BY <1>1, UseVerifies DEF InstrSound
  <1>3. i.op = "phi" =>
          /\ Elements(i.to) = Into(blocks, b) /\ Len(i.to) = Cardinality(Into(blocks, b)) /\ Len(i.args) = Len(i.to)
          /\ \A a \in 1..Len(i.args) : /\ i.args[a].type = LlvmType(i.name) /\ UseSound(blocks, i.args[a], i.to[a])
                                       /\ i.to[a] \in 1..Len(blocks)
    BY <1>1 DEF InstrSound, PhiSound
  <1>4. i.op = "phi" => \A a \in DOMAIN i.args :
          i.args[a].type # "void" /\ (i.args[a].place # <<>> => Dominates(i.args[a].place, i.to[a]))
    BY <1>1, <1>3, UseVerifies
  <1>5. "void" \notin types
    BY <1>2, <1>4
  <1>6. i.op = "phi" => /\ {i.to[a] : a \in DOMAIN i.to} = Predecessors(b)
                        /\ Len(i.to) = Cardinality(Predecessors(b))
    BY <1>1, <1>3, Generated1 DEF Elements
  <1>7. i.op = "phi" => types \subseteq {LlvmType(i.name)}
    BY <1>1, <1>3
  <1>8. i.op \in {"load", "store"} => \E c \in Blocks : \E m \in DOMAIN Code(c) :
          Code(c)[m].op = "alloca" /\ Code(c)[m].id = i.id /\ Dominates(<<c, m>>, b)
    <2>1. SUFFICES ASSUME i.op \in {"load", "store"}
                   PROVE  \E c \in Blocks : \E m \in DOMAIN Code(c) :
                            Code(c)[m].op = "alloca" /\ Code(c)[m].id = i.id /\ Dominates(<<c, m>>, b)
      OBVIOUS
    <2>2. PICK c \in 1..Len(blocks) : Allocates(blocks, c, i.id) /\ Dom(blocks, c, b)
      BY <2>1 DEF InstrSound
    <2>3. PICK k \in 1..Len(blocks[c].code) : blocks[c].code[k].op = "alloca" /\ blocks[c].code[k].id = i.id
      BY <2>2 DEF Allocates
    <2>4. k \in DOMAIN Code(c) /\ Code(c)[k].op = "alloca" /\ Code(c)[k].id = i.id
      BY <2>3, SuccessorsAre
    <2> DEFINE place == <<c, k>>
    <2>5. place[1] = c
      OBVIOUS
    <2> HIDE DEF place
    <2>6. Dominates(place, b)
      BY <2>2, <2>5, DomDominates
    <2> QED
      BY <2>4, <2>6, Generated1 DEF place
  <1>9. i.op = "ret" => types = {ret} \ {"void"}
    BY <1>1 DEF InstrSound, RetType, FunctionOf
  <1>10. i.op = "call" => /\ i.name \in declared
                          /\ [a \in DOMAIN i.args |-> i.args[a].type] =
                             LET params == FunctionOf(i.name).params
                             IN [a \in DOMAIN params |-> LlvmType(params[a].type)]
    BY DEF InstrSound, ParamTypes, FunctionOf
  <1>11. i.op # "phi" => \A a \in DOMAIN i.args : i.args[a].place # <<>> => Dominates(i.args[a].place, b)
    BY <1>2
  <1>12. i.op = "phi" => \A a \in DOMAIN i.args : i.args[a].place # <<>> => Dominates(i.args[a].place, i.to[a])
    BY <1>4
  <1> QED
    BY <1>5, <1>6, <1>7, <1>8, <1>9, <1>10, <1>11, <1>12 DEF InstrVerifies

\* What has been generated passes.
LEMMA GeneratedVerifies ==
  ASSUME Generated
  PROVE  \A b \in Blocks : BlockVerifies(b)
  <1>1. SUFFICES ASSUME NEW b \in 1..Len(blocks) PROVE BlockVerifies(b)
    BY Generated1
  <1> DEFINE n == Len(Code(b))
  <1>2. /\ Successors(b) = Follow(blocks, b) /\ Code(b) = blocks[b].code /\ Code(b) # <<>>
        /\ IsTerminator(Code(b)[n]) /\ DOMAIN Code(b) = 1..n
    BY SuccessorsAre
  <1>3. \A k \in DOMAIN Code(b) :
          /\ IsTerminator(Code(b)[k]) => k = n
          /\ InstrSound(module, declared, blocks, b, Code(b)[k])
    BY <1>2 DEF Generated, Heap
  <1>4. \A k \in DOMAIN Code(b) : InstrVerifies(b, Code(b)[k])
    BY <1>3, SoundVerifies
  <1>5. \A k \in DOMAIN Code(b) : IsTerminator(Code(b)[k]) <=> k = n
    BY <1>2, <1>3
  <1>6. \A c \in Successors(b) : blocks[c].function = blocks[b].function
    BY <1>2, Generated1 DEF EdgesInside
  <1> QED
    BY <1>2, <1>4, <1>5, <1>6 DEF BlockVerifies, InstrVerifies

-----------------------------------------------------------------------------
(* The actions of the generator.                                             *)

IsSound(c, h) == DOMAIN h = variables /\ Sound(module, declared, tasks, c, values, blocks, h, at)
Working == phase = "generate" /\ next \in Nat \ {0} /\ \E c, h : IsSound(c, h)

\* The generator goes on.
Stays == module' = module /\ phase' = phase /\ next' = next

LEMMA Carry ==
  ASSUME Working, Stays, NEW h, DOMAIN h = variables',
         \E c : Sound(module, declared', tasks', c, values', blocks', h, at')
  PROVE  Working' /\ module' = module
  <1>1. PICK c : Sound(module, declared', tasks', c, values', blocks', h, at')
    OBVIOUS
  <1>2. IsSound(c, h)'
    BY <1>1 DEF IsSound, Stays
  <1>3. phase' = "generate" /\ next' \in Nat \ {0} /\ module' = module
    BY DEF Working, Stays
  <1> QED
    BY <1>2, <1>3 DEF Working

LEMMA GoLiteral ==
  ASSUME module \in Modules, Working, Literal
  PROVE  Working' /\ module' = module
  <1>1. PICK c, h : IsSound(c, h)
    BY DEF Working
  <1>2. Sound(module, declared, tasks, c, values, blocks, h, at) /\ DOMAIN h = variables
    BY <1>1 DEF IsSound
  <1> DEFINE e == tasks[1].node
  <1>3. /\ tasks # <<>> /\ tasks[1].do = "generate" /\ e.kind \in {"unit", "bool", "int"}
        /\ tasks' = <<>> \o Tail(tasks) /\ values' = Swapped(values, 0, <<Constant(e.kind, e.name)>>)
        /\ blocks' = blocks /\ declared' = declared /\ variables' = variables /\ at' = at /\ Stays
    BY DEF Literal, Doing, Continue, Replace, Unmoved, Expr, Current, Swapped, Stays
  <1>4. \E c2 : Sound(module, declared, <<>> \o Tail(tasks), c2, Swapped(values, 0, <<Constant(e.kind, e.name)>>), blocks, h, at)
    BY <1>2, <1>3, LiteralStep
  <1>5. \E c2 : Sound(module, declared', tasks', c2, values', blocks', h, at')
    BY <1>3, <1>4
  <1> QED
    BY <1>2, <1>3, <1>5, Carry

LEMMA GoLook ==
  ASSUME module \in Modules, Working, Expect \/ Destination
  PROVE  Working' /\ module' = module
  <1>1. PICK c, h : IsSound(c, h)
    BY DEF Working
  <1>2. Sound(module, declared, tasks, c, values, blocks, h, at) /\ DOMAIN h = variables
    BY <1>1 DEF IsSound
  <1>3. tasks # <<>> /\ tasks[1].do \in {"expect", "destination"}
    BY DEF Expect, Destination, Doing, Current
  <1>4. /\ tasks[1].do = "expect" => values[1] # Never
        /\ tasks[1].do = "destination" => <<blocks[at].function, tasks[1].node.id>> \in DOMAIN h
        /\ \E c2 : Sound(module, declared, <<>> \o Tail(tasks), c2, values, blocks, h, at)
    BY <1>2, <1>3, LookStep
  <1>5. /\ tasks' = <<>> \o Tail(tasks) /\ values' = values
        /\ blocks' = blocks /\ declared' = declared /\ variables' = variables /\ at' = at /\ Stays
    <2>1. CASE Expect
      BY <1>4, <2>1 DEF Expect, Doing, Continue, Unmoved, Current, Top, Stays
    <2>2. CASE Destination
      BY <1>2, <1>4, <2>2 DEF Destination, Doing, Continue, Unmoved, Current, Expr, Here, Stays
    <2> QED
      BY <2>1, <2>2
  <1>6. \E c2 : Sound(module, declared', tasks', c2, values', blocks', h, at')
    BY <1>4, <1>5
  <1> QED
    BY <1>2, <1>5, <1>6, Carry

LEMMA GoVariable ==
  ASSUME module \in Modules, Working, Variable
  PROVE  Working' /\ module' = module
  <1>1. PICK c, h : IsSound(c, h)
    BY DEF Working
  <1>2. Sound(module, declared, tasks, c, values, blocks, h, at) /\ DOMAIN h = variables
    BY <1>1 DEF IsSound
  <1> DEFINE e == tasks[1].node
             bt == Emit(blocks, at, [Instr("load", "none", <<>>, <<>>) EXCEPT !.id = e.id])
  <1>3. tasks # <<>> /\ tasks[1].do = "generate" /\ e.kind = "variable"
    BY DEF Variable, Generating, Doing, Expr, Current
  <1>4. /\ <<blocks[at].function, e.id>> \in DOMAIN h
        /\ \E c2 : Sound(module, declared, <<>> \o Tail(tasks), c2, Swapped(values, 0, <<Result(e.type, bt, at)>>), bt, h, at)
    BY <1>2, <1>3, VariableStep
  <1>5. /\ tasks' = <<>> \o Tail(tasks) /\ blocks' = bt /\ values' = Swapped(values, 0, <<Result(e.type, bt, at)>>)
        /\ declared' = declared /\ variables' = variables /\ at' = at /\ Stays
    BY <1>2, <1>4 DEF Variable, Continue, Replace, Unmoved, Expr, Current, Here, Swapped, Stays
  <1>6. \E c2 : Sound(module, declared', tasks', c2, values', blocks', h, at')
    BY <1>4, <1>5
  <1> QED
    BY <1>2, <1>5, <1>6, Carry

LEMMA GoNot ==
  ASSUME module \in Modules, Working, Not
  PROVE  Working' /\ module' = module
  <1>1. PICK c, h : IsSound(c, h)
    BY DEF Working
  <1>2. Sound(module, declared, tasks, c, values, blocks, h, at) /\ DOMAIN h = variables
    BY <1>1 DEF IsSound
  <1> DEFINE e == tasks[1].node
  <1>3. CASE Generating("not")
    <2> DEFINE with == GenerateValue(e.subs[1]) \o <<Task("not", e)>>
    <2>1. tasks # <<>> /\ tasks[1].do = "generate" /\ e.kind = "not"
      BY <1>3 DEF Generating, Doing, Expr, Current
    <2>2. /\ tasks' = with \o Tail(tasks) /\ blocks' = blocks /\ values' = values
          /\ declared' = declared /\ variables' = variables /\ at' = at /\ Stays
      BY <2>1 DEF Not, Doing, Continue, Unmoved, Expr, Current, Stays
    <2>3. \E c2 : Sound(module, declared, with \o Tail(tasks), c2, values, blocks, h, at)
      BY <1>2, <2>1, OneParts
    <2>4. \E c2 : Sound(module, declared', tasks', c2, values', blocks', h, at')
      BY <2>2, <2>3
    <2> QED
      BY <1>2, <2>2, <2>4, Carry
  <1>4. CASE Doing("not")
    <2> DEFINE bt == Emit(blocks, at, Instr("not", "none", <<values[1]>>, <<>>))
    <2>1. tasks # <<>> /\ tasks[1].do = "not"
      BY <1>4 DEF Doing, Current
    <2>2. /\ tasks' = <<>> \o Tail(tasks) /\ blocks' = bt /\ values' = Swapped(values, 1, <<Result("bool", bt, at)>>)
          /\ declared' = declared /\ variables' = variables /\ at' = at /\ Stays
      BY <2>1 DEF Not, Generating, Doing, Continue, Replace, Unmoved, Current, Top, Swapped, Stays
    <2>3. \E c2 : Sound(module, declared, <<>> \o Tail(tasks), c2, Swapped(values, 1, <<Result("bool", bt, at)>>), bt, h, at)
      BY <1>2, <2>1, NotStep
    <2>4. \E c2 : Sound(module, declared', tasks', c2, values', blocks', h, at')
      BY <2>2, <2>3
    <2> QED
      BY <1>2, <2>2, <2>4, Carry
  <1> QED
    BY <1>3, <1>4 DEF Not

LEMMA GoOr ==
  ASSUME module \in Modules, Working, Or
  PROVE  Working' /\ module' = module
  <1>1. PICK c, h : IsSound(c, h)
    BY DEF Working
  <1>2. Sound(module, declared, tasks, c, values, blocks, h, at) /\ DOMAIN h = variables
    BY <1>1 DEF IsSound
  <1> DEFINE e == tasks[1].node
  <1>3. CASE Generating("or")
    <2> DEFINE with == GenerateValue(e.subs[1]) \o GenerateValue(e.subs[2]) \o <<Task("or", e)>>
    <2>1. tasks # <<>> /\ tasks[1].do = "generate" /\ tasks[1].node.kind = "or"
      BY <1>3 DEF Generating, Doing, Expr, Current
    <2>2. /\ tasks' = with \o Tail(tasks) /\ blocks' = blocks /\ values' = values
          /\ declared' = declared /\ variables' = variables /\ at' = at /\ Stays
      BY <1>2, <2>1 DEF Or, Generating, Doing, Continue, Replace, Unmoved, Expr, Current, Top, Here, Swapped, Stays
    <2>3. \E c2 : Sound(module, declared, with \o Tail(tasks), c2, values, blocks, h, at)
      BY <1>2, <2>1, OrParts
    <2>4. \E c2 : Sound(module, declared', tasks', c2, values', blocks', h, at')
      BY <2>2, <2>3
    <2> QED
      BY <1>2, <2>2, <2>4, Carry
  <1>4. CASE Doing("or")
    <2> DEFINE bt == Emit(blocks, at, Instr("or", "none", <<values[2], values[1]>>, <<>>))
    <2>1. tasks # <<>> /\ tasks[1].do = "or"
      BY <1>4 DEF Generating, Doing, Expr, Current
    <2>2. /\ tasks' = <<>> \o Tail(tasks) /\ blocks' = bt /\ values' = Swapped(values, 2, <<Result("bool", bt, at)>>)
          /\ declared' = declared /\ variables' = variables /\ at' = at /\ Stays
      BY <1>2, <2>1 DEF Or, Generating, Doing, Continue, Replace, Unmoved, Expr, Current, Top, Here, Swapped, Stays
    <2>3. \E c2 : Sound(module, declared, <<>> \o Tail(tasks), c2, Swapped(values, 2, <<Result("bool", bt, at)>>), bt, h, at)
      BY <1>2, <2>1, OrStep
    <2>4. \E c2 : Sound(module, declared', tasks', c2, values', blocks', h, at')
      BY <2>2, <2>3
    <2> QED
      BY <1>2, <2>2, <2>4, Carry
  <1> QED
    BY <1>3, <1>4 DEF Or

LEMMA GoAnd ==
  ASSUME module \in Modules, Working, And
  PROVE  Working' /\ module' = module
  <1>1. PICK c, h : IsSound(c, h)
    BY DEF Working
  <1>2. Sound(module, declared, tasks, c, values, blocks, h, at) /\ DOMAIN h = variables
    BY <1>1 DEF IsSound
  <1> DEFINE e == tasks[1].node
  <1>3. CASE Generating("and")
    <2> DEFINE with == GenerateValue(e.subs[1]) \o <<Task("rhs", e)>>
    <2>1. tasks # <<>> /\ tasks[1].do = "generate" /\ tasks[1].node.kind = "and"
      BY <1>3 DEF Generating, Doing, Expr, Current
    <2>2. /\ tasks' = with \o Tail(tasks) /\ blocks' = blocks /\ values' = values
          /\ declared' = declared /\ variables' = variables /\ at' = at /\ Stays
      BY <1>2, <2>1 DEF And, Generating, Doing, Continue, Replace, Unmoved, Expr, Current, Top, Here, Swapped, Stays
    <2>3. \E c2 : Sound(module, declared, with \o Tail(tasks), c2, values, blocks, h, at)
      BY <1>2, <2>1, AndParts
    <2>4. \E c2 : Sound(module, declared', tasks', c2, values', blocks', h, at')
      BY <2>2, <2>3
    <2> QED
      BY <1>2, <2>2, <2>4, Carry
  <1>4. CASE Doing("rhs")
    <2> DEFINE b == NewBlocks(blocks, 3)
               bt == Emit(WithBlocks(blocks, blocks[at].function, 3), at, CondBr(values[1], b[1], b[2]))
               with == GenerateValue(e.subs[2]) \o <<[Task("and", e) EXCEPT !.blocks = b]>>
    <2>1. tasks # <<>> /\ tasks[1].do = "rhs"
      BY <1>4 DEF Generating, Doing, Expr, Current
    <2>2. /\ tasks' = with \o Tail(tasks) /\ blocks' = bt /\ values' = Swapped(values, 1, <<>>)
          /\ declared' = declared /\ variables' = variables /\ at' = b[1] /\ Stays
      BY <1>2, <2>1 DEF And, Generating, Doing, Continue, Replace, Unmoved, Expr, Current, Top, Here, Swapped, Stays
    <2>3. \E c2 : Sound(module, declared, with \o Tail(tasks), c2, Swapped(values, 1, <<>>), bt, h, b[1])
      BY <1>2, <2>1, RhsStep
    <2>4. \E c2 : Sound(module, declared', tasks', c2, values', blocks', h, at')
      BY <2>2, <2>3
    <2> QED
      BY <1>2, <2>2, <2>4, Carry
  <1>5. CASE Doing("and")
    <2> DEFINE b == tasks[1].blocks
               bj == Emit(Emit(blocks, at, Br(b[3])), b[2], Br(b[3]))
               bt == Emit(bj, b[3], Instr("phi", "bool", <<values[1], Constant("bool", "false")>>, <<at, b[2]>>))
    <2>1. tasks # <<>> /\ tasks[1].do = "and"
      BY <1>5 DEF Generating, Doing, Expr, Current
    <2>2. /\ tasks' = <<>> \o Tail(tasks) /\ blocks' = bt /\ values' = Swapped(values, 1, <<Result("bool", bt, b[3])>>)
          /\ declared' = declared /\ variables' = variables /\ at' = b[3] /\ Stays
      BY <1>2, <2>1 DEF And, Generating, Doing, Continue, Replace, Unmoved, Expr, Current, Top, Here, Swapped, Stays, AndResult
    <2>3. \E c2 : Sound(module, declared, <<>> \o Tail(tasks), c2, Swapped(values, 1, <<Result("bool", bt, b[3])>>), bt, h, b[3])
      BY <1>2, <2>1, AndStep
    <2>4. \E c2 : Sound(module, declared', tasks', c2, values', blocks', h, at')
      BY <2>2, <2>3
    <2> QED
      BY <1>2, <2>2, <2>4, Carry
  <1> QED
    BY <1>3, <1>4, <1>5 DEF And

LEMMA GoReturn ==
  ASSUME module \in Modules, Working, Return
  PROVE  Working' /\ module' = module
  <1>1. PICK c, h : IsSound(c, h)
    BY DEF Working
  <1>2. Sound(module, declared, tasks, c, values, blocks, h, at) /\ DOMAIN h = variables
    BY <1>1 DEF IsSound
  <1> DEFINE e == tasks[1].node
  <1>3. CASE Generating("return")
    <2> DEFINE with == GenerateValue(e.subs[1]) \o <<Task("return", e)>>
    <2>1. tasks # <<>> /\ tasks[1].do = "generate" /\ tasks[1].node.kind = "return"
      BY <1>3 DEF Generating, Doing, Expr, Current
    <2>2. /\ tasks' = with \o Tail(tasks) /\ blocks' = blocks /\ values' = values
          /\ declared' = declared /\ variables' = variables /\ at' = at /\ Stays
      BY <1>2, <2>1 DEF Return, Generating, Doing, Continue, Replace, Unmoved, Expr, Current, Top, Here, Swapped, Stays
    <2>3. \E c2 : Sound(module, declared, with \o Tail(tasks), c2, values, blocks, h, at)
      BY <1>2, <2>1, OneParts
    <2>4. \E c2 : Sound(module, declared', tasks', c2, values', blocks', h, at')
      BY <2>2, <2>3
    <2> QED
      BY <1>2, <2>2, <2>4, Carry
  <1>4. CASE Doing("return")
    <2> DEFINE bt == Emit(blocks, at, Instr("ret", "none", <<values[1]>>, <<>>))
    <2>1. tasks # <<>> /\ tasks[1].do = "return"
      BY <1>4 DEF Generating, Doing, Expr, Current
    <2>2. /\ tasks' = <<>> \o Tail(tasks) /\ blocks' = bt /\ values' = Swapped(values, 1, <<Never>>)
          /\ declared' = declared /\ variables' = variables /\ at' = at /\ Stays
      BY <1>2, <2>1 DEF Return, Generating, Doing, Continue, Replace, Unmoved, Expr, Current, Top, Here, Swapped, Stays
    <2>3. \E c2 : Sound(module, declared, <<>> \o Tail(tasks), c2, Swapped(values, 1, <<Never>>), bt, h, at)
      BY <1>2, <2>1, ReturnStep
    <2>4. \E c2 : Sound(module, declared', tasks', c2, values', blocks', h, at')
      BY <2>2, <2>3
    <2> QED
      BY <1>2, <2>2, <2>4, Carry
  <1> QED
    BY <1>3, <1>4 DEF Return

LEMMA GoBlock ==
  ASSUME module \in Modules, Working, Block
  PROVE  Working' /\ module' = module
  <1>1. PICK c, h : IsSound(c, h)
    BY DEF Working
  <1>2. Sound(module, declared, tasks, c, values, blocks, h, at) /\ DOMAIN h = variables
    BY <1>1 DEF IsSound
  <1> DEFINE e == tasks[1].node
  <1>3. CASE Generating("block")
    <2> DEFINE with == FlattenSeq([i \in DOMAIN e.subs |-> Statement(e.subs[i])])
    <2>1. tasks # <<>> /\ tasks[1].do = "generate" /\ tasks[1].node.kind = "block"
      BY <1>3 DEF Generating, Doing, Expr, Current
    <2>2. /\ tasks' = with \o Tail(tasks) /\ blocks' = blocks /\ values' = Swapped(values, 0, <<UnitValue>>)
          /\ declared' = declared /\ variables' = variables /\ at' = at /\ Stays
      BY <1>2, <2>1 DEF Block, Generating, Doing, Continue, Replace, Unmoved, Expr, Current, Top, Here, Swapped, Stays
    <2>3. \E c2 : Sound(module, declared, with \o Tail(tasks), c2, Swapped(values, 0, <<UnitValue>>), blocks, h, at)
      BY <1>2, <2>1, BlockParts
    <2>4. \E c2 : Sound(module, declared', tasks', c2, values', blocks', h, at')
      BY <2>2, <2>3
    <2> QED
      BY <1>2, <2>2, <2>4, Carry
  <1>4. CASE Doing("last")
    <2>1. tasks # <<>> /\ tasks[1].do = "last"
      BY <1>4 DEF Generating, Doing, Expr, Current
    <2>2. /\ tasks' = <<>> \o Tail(tasks) /\ blocks' = blocks /\ values' = Swapped(values, 2, <<values[1]>>)
          /\ declared' = declared /\ variables' = variables /\ at' = at /\ Stays
      BY <1>2, <2>1 DEF Block, Generating, Doing, Continue, Replace, Unmoved, Expr, Current, Top, Here, Swapped, Stays
    <2>3. \E c2 : Sound(module, declared, <<>> \o Tail(tasks), c2, Swapped(values, 2, <<values[1]>>), blocks, h, at)
      BY <1>2, <2>1, LastStep
    <2>4. \E c2 : Sound(module, declared', tasks', c2, values', blocks', h, at')
      BY <2>2, <2>3
    <2> QED
      BY <1>2, <2>2, <2>4, Carry
  <1> QED
    BY <1>3, <1>4 DEF Block

LEMMA GoAssign ==
  ASSUME module \in Modules, Working, Assign
  PROVE  Working' /\ module' = module
  <1>1. PICK c, h : IsSound(c, h)
    BY DEF Working
  <1>2. Sound(module, declared, tasks, c, values, blocks, h, at) /\ DOMAIN h = variables
    BY <1>1 DEF IsSound
  <1> DEFINE e == tasks[1].node
  <1>3. CASE Doing("assign")
    <2> DEFINE bt == Emit(blocks, at, [Instr("store", "none", <<values[1]>>, <<>>) EXCEPT !.id = e.id])
    <2>1. tasks # <<>> /\ tasks[1].do = "assign"
      BY <1>3 DEF Generating, Doing, Expr, Current
    <2>2. /\ tasks' = <<>> \o Tail(tasks) /\ blocks' = bt /\ values' = Swapped(values, 2, <<UnitValue>>)
          /\ declared' = declared /\ variables' = variables /\ at' = at /\ Stays
      BY <1>2, <2>1 DEF Assign, Generating, Doing, Continue, Replace, Unmoved, Expr, Current, Top, Here, Swapped, Stays
    <2>3. \E c2 : Sound(module, declared, <<>> \o Tail(tasks), c2, Swapped(values, 2, <<UnitValue>>), bt, h, at)
      BY <1>2, <2>1, AssignStep
    <2>4. \E c2 : Sound(module, declared', tasks', c2, values', blocks', h, at')
      BY <2>2, <2>3
    <2> QED
      BY <1>2, <2>2, <2>4, Carry
  <1> QED
    BY <1>3 DEF Assign

LEMMA GoWhile ==
  ASSUME module \in Modules, Working, While
  PROVE  Working' /\ module' = module
  <1>1. PICK c, h : IsSound(c, h)
    BY DEF Working
  <1>2. Sound(module, declared, tasks, c, values, blocks, h, at) /\ DOMAIN h = variables
    BY <1>1 DEF IsSound
  <1> DEFINE e == tasks[1].node
  <1>3. CASE Doing("while")
    <2> DEFINE b == NewBlocks(blocks, 3)
               bt == Emit(WithBlocks(blocks, blocks[at].function, 3), at, Br(b[1]))
               with == GenerateValue(e.subs[1]) \o <<[Task("body", e) EXCEPT !.blocks = b]>>
    <2>1. tasks # <<>> /\ tasks[1].do = "while"
      BY <1>3 DEF Generating, Doing, Expr, Current
    <2>2. /\ tasks' = with \o Tail(tasks) /\ blocks' = bt /\ values' = values
          /\ declared' = declared /\ variables' = variables /\ at' = b[1] /\ Stays
      BY <1>2, <2>1 DEF While, Generating, Doing, Continue, Replace, Unmoved, Expr, Current, Top, Here, Swapped, Stays
    <2>3. \E c2 : Sound(module, declared, with \o Tail(tasks), c2, values, bt, h, b[1])
      BY <1>2, <2>1, WhileStep
    <2>4. \E c2 : Sound(module, declared', tasks', c2, values', blocks', h, at')
      BY <2>2, <2>3
    <2> QED
      BY <1>2, <2>2, <2>4, Carry
  <1>4. CASE Doing("body")
    <2> DEFINE b == tasks[1].blocks
               bt == Emit(blocks, at, CondBr(values[1], b[2], b[3]))
               with == <<Generate(e.subs[2]), [Task("again", e) EXCEPT !.blocks = b]>>
    <2>1. tasks # <<>> /\ tasks[1].do = "body"
      BY <1>4 DEF Generating, Doing, Expr, Current
    <2>2. /\ tasks' = with \o Tail(tasks) /\ blocks' = bt /\ values' = Swapped(values, 1, <<>>)
          /\ declared' = declared /\ variables' = variables /\ at' = b[2] /\ Stays
      BY <1>2, <2>1 DEF While, Generating, Doing, Continue, Replace, Unmoved, Expr, Current, Top, Here, Swapped, Stays
    <2>3. \E c2 : Sound(module, declared, with \o Tail(tasks), c2, Swapped(values, 1, <<>>), bt, h, b[2])
      BY <1>2, <2>1, BodyStep
    <2>4. \E c2 : Sound(module, declared', tasks', c2, values', blocks', h, at')
      BY <2>2, <2>3
    <2> QED
      BY <1>2, <2>2, <2>4, Carry
  <1>5. CASE Doing("again")
    <2> DEFINE b == tasks[1].blocks
               bt == Emit(blocks, at, Br(b[1]))
    <2>1. tasks # <<>> /\ tasks[1].do = "again"
      BY <1>5 DEF Generating, Doing, Expr, Current
    <2>2. /\ tasks' = <<>> \o Tail(tasks) /\ blocks' = bt /\ values' = Swapped(values, 1, <<>>)
          /\ declared' = declared /\ variables' = variables /\ at' = b[3] /\ Stays
      BY <1>2, <2>1 DEF While, Generating, Doing, Continue, Replace, Unmoved, Expr, Current, Top, Here, Swapped, Stays
    <2>3. \E c2 : Sound(module, declared, <<>> \o Tail(tasks), c2, Swapped(values, 1, <<>>), bt, h, b[3])
      BY <1>2, <2>1, AgainStep
    <2>4. \E c2 : Sound(module, declared', tasks', c2, values', blocks', h, at')
      BY <2>2, <2>3
    <2> QED
      BY <1>2, <2>2, <2>4, Carry
  <1> QED
    BY <1>3, <1>4, <1>5 DEF While

LEMMA GoIf ==
  ASSUME module \in Modules, Working, If
  PROVE  Working' /\ module' = module
  <1>1. PICK c, h : IsSound(c, h)
    BY DEF Working
  <1>2. Sound(module, declared, tasks, c, values, blocks, h, at) /\ DOMAIN h = variables
    BY <1>1 DEF IsSound
  <1> DEFINE e == tasks[1].node
  <1>3. CASE Generating("if")
    <2> DEFINE bt == WithBlocks(blocks, blocks[at].function, 3)
               with == GenerateValue(e.subs[1]) \o <<[Task("branch", e) EXCEPT !.blocks = NewBlocks(blocks, 3)]>>
    <2>1. tasks # <<>> /\ tasks[1].do = "generate" /\ tasks[1].node.kind = "if"
      BY <1>3 DEF Generating, Doing, Expr, Current
    <2>2. /\ tasks' = with \o Tail(tasks) /\ blocks' = bt /\ values' = values
          /\ declared' = declared /\ variables' = variables /\ at' = at /\ Stays
      BY <1>2, <2>1 DEF If, Generating, Doing, Continue, Replace, Unmoved, Expr, Current, Top, Here, Swapped, Stays
    <2>3. \E c2 : Sound(module, declared, with \o Tail(tasks), c2, values, bt, h, at)
      BY <1>2, <2>1, IfParts
    <2>4. \E c2 : Sound(module, declared', tasks', c2, values', blocks', h, at')
      BY <2>2, <2>3
    <2> QED
      BY <1>2, <2>2, <2>4, Carry
  <1>4. CASE Doing("branch")
    <2> DEFINE b == tasks[1].blocks
               bt == Emit(blocks, at, CondBr(values[1], b[1], b[2]))
               with == <<Generate(e.subs[2]), [Task("alternate", e) EXCEPT !.blocks = b]>>
    <2>1. tasks # <<>> /\ tasks[1].do = "branch"
      BY <1>4 DEF Generating, Doing, Expr, Current
    <2>2. /\ tasks' = with \o Tail(tasks) /\ blocks' = bt /\ values' = Swapped(values, 1, <<>>)
          /\ declared' = declared /\ variables' = variables /\ at' = b[1] /\ Stays
      BY <1>2, <2>1 DEF If, Generating, Doing, Continue, Replace, Unmoved, Expr, Current, Top, Here, Swapped, Stays
    <2>3. \E c2 : Sound(module, declared, with \o Tail(tasks), c2, Swapped(values, 1, <<>>), bt, h, b[1])
      BY <1>2, <2>1, BranchStep
    <2>4. \E c2 : Sound(module, declared', tasks', c2, values', blocks', h, at')
      BY <2>2, <2>3
    <2> QED
      BY <1>2, <2>2, <2>4, Carry
  <1>5. CASE Doing("alternate")
    <2> DEFINE b == tasks[1].blocks
               bt == IF values[1] = Never THEN blocks ELSE Emit(blocks, at, Br(b[3]))
               incoming == IF values[1] = Never THEN <<>> ELSE <<[value |-> values[1], from |-> at]>>
               with == <<Generate(e.subs[3]), [Task("merge", e) EXCEPT !.blocks = b, !.incoming = incoming]>>
    <2>1. tasks # <<>> /\ tasks[1].do = "alternate"
      BY <1>5 DEF Generating, Doing, Expr, Current
    <2>2. /\ tasks' = with \o Tail(tasks) /\ blocks' = bt /\ values' = Swapped(values, 1, <<>>)
          /\ declared' = declared /\ variables' = variables /\ at' = b[2] /\ Stays
      BY <1>2, <2>1 DEF If, Generating, Doing, Continue, Replace, Unmoved, Expr, Current, Top, Here, Swapped, Stays, Joined, Incoming
    <2>3. \E c2 : Sound(module, declared, with \o Tail(tasks), c2, Swapped(values, 1, <<>>), bt, h, b[2])
      BY <1>2, <2>1, AlternateStep
    <2>4. \E c2 : Sound(module, declared', tasks', c2, values', blocks', h, at')
      BY <2>2, <2>3
    <2> QED
      BY <1>2, <2>2, <2>4, Carry
  <1>6. CASE Doing("merge")
    <2> DEFINE d == tasks[1].blocks[3]
               q == tasks[1].incoming \o IF values[1] = Never THEN <<>> ELSE <<[value |-> values[1], from |-> at]>>
               bj == IF values[1] = Never THEN blocks ELSE Emit(blocks, at, Br(d))
               bt == Emit(bj, d, Phi(q, e.type))
    <2>1. tasks # <<>> /\ tasks[1].do = "merge"
      BY <1>6 DEF Generating, Doing, Expr, Current
    <2>3. /\ q # <<>> /\ LlvmType(e.type) # "void"
          /\ \E c2 : Sound(module, declared, <<>> \o Tail(tasks), c2, Swapped(values, 1, <<Result(e.type, bt, d)>>), bt, h, d)
      BY <1>2, <2>1, MergeStep
    <2>2. /\ tasks' = <<>> \o Tail(tasks) /\ blocks' = bt /\ values' = Swapped(values, 1, <<Result(e.type, bt, d)>>)
          /\ declared' = declared /\ variables' = variables /\ at' = d /\ Stays
      BY <1>2, <2>1, <2>3 DEF If, Generating, Doing, Continue, Replace, Unmoved, Expr, Current, Top, Here, Swapped, Stays, Joined, Incoming
    <2>4. \E c2 : Sound(module, declared', tasks', c2, values', blocks', h, at')
      BY <2>2, <2>3
    <2> QED
      BY <1>2, <2>2, <2>4, Carry
  <1> QED
    BY <1>3, <1>4, <1>5, <1>6 DEF If

LEMMA GoVal ==
  ASSUME module \in Modules, Working, Val
  PROVE  Working' /\ module' = module
  <1>1. PICK c, h : IsSound(c, h)
    BY DEF Working
  <1>2. Sound(module, declared, tasks, c, values, blocks, h, at) /\ DOMAIN h = variables
    BY <1>1 DEF IsSound
  <1> DEFINE e == tasks[1].node
             bt == Emit(blocks, at, [Instr("alloca", "none", <<values[1]>>, <<>>) EXCEPT !.id = e.id])
  <1>3. tasks # <<>> /\ tasks[1].do = "val"
    BY DEF Val, Doing, Current
  <1>4. /\ tasks' = <<>> \o Tail(tasks) /\ blocks' = bt /\ values' = Swapped(values, 2, <<UnitValue>>)
        /\ declared' = declared /\ variables' = variables \cup {<<blocks[at].function, e.id>>} /\ at' = at /\ Stays
    BY DEF Val, Doing, Continue, Replace, Expr, Current, Top, Here, Swapped, Stays
  <1>5. \E c2, h2 : /\ WithVariable(h, h2, blocks[at].function, e.id)
                    /\ Sound(module, declared, <<>> \o Tail(tasks), c2, Swapped(values, 2, <<UnitValue>>), bt, h2, at)
    BY <1>2, <1>3, ValStep
  <1>6. \E c2, h2 : /\ DOMAIN h2 = variables'
                    /\ Sound(module, declared', tasks', c2, values', blocks', h2, at')
    BY <1>2, <1>4, <1>5 DEF WithVariable
  <1> QED
    BY <1>4, <1>6, Carry

LEMMA GoEnd ==
  ASSUME module \in Modules, Working, EndFunction
  PROVE  Working' /\ module' = module
  <1>1. PICK c, h : IsSound(c, h)
    BY DEF Working
  <1>2. Sound(module, declared, tasks, c, values, blocks, h, at) /\ DOMAIN h = variables
    BY <1>1 DEF IsSound
  <1> DEFINE start == tasks[1].blocks[1]
             back == IF start = 0 THEN at ELSE start
             bt == Ended1(blocks, at, LastInstr(tasks[1].node, values[1]))
  <1>3. tasks # <<>> /\ tasks[1].do = "end"
    BY DEF EndFunction, Doing, Current
  <1>4. blocks' = bt
    BY DEF EndFunction, Ended1, Closed, LastInstr, Expr, Current, Top
  <1>5. /\ tasks' = <<>> \o Tail(tasks) /\ values' = Swapped(values, 1, <<>>)
        /\ declared' = declared /\ variables' = variables /\ at' = back /\ Stays
    BY DEF EndFunction, Continue, Replace, Restored, Current, Swapped, Stays
  <1>6. \E c2 : Sound(module, declared, <<>> \o Tail(tasks), c2, Swapped(values, 1, <<>>), bt, h, back)
    BY <1>2, <1>3, EndStep
  <1>7. \E c2 : Sound(module, declared', tasks', c2, values', blocks', h, at')
    BY <1>4, <1>5, <1>6
  <1> QED
    BY <1>2, <1>5, <1>7, Carry

\* A function is added, and the tasks go on with its body if it has one.
LEMMA GoStart ==
  ASSUME module \in Modules, Working, NEW f, f \notin declared, \E i \in DOMAIN module.typed : module.typed[i].name = f,
         tasks # <<>> => tasks[1].do = "generate", StartFunction(f, tasks), next' \in Nat \ {0}
  PROVE  Working' /\ module' = module
  <1>1. PICK c, h : IsSound(c, h)
    BY DEF Working
  <1>2. Sound(module, declared, tasks, c, values, blocks, h, at) /\ DOMAIN h = variables
    BY <1>1 DEF IsSound
  <1> DEFINE g == FunctionIn(module, f)
             t == [Task("end", g) EXCEPT !.blocks = <<at>>]
             bt == Append(blocks, [function |-> f, code |-> Stores(g)])
             with == <<Generate(g.body[1]), t>>
  <1>3. module' = module /\ phase' = "generate" /\ values' = values /\ declared' = declared \cup {f}
    BY DEF StartFunction, Working, Added
  <1>4. \E c2, h2 : IsSound(c2, h2)'
    <2>1. CASE g.body = <<>>
      <3>1. tasks' = tasks /\ variables' = variables /\ blocks' = blocks /\ at' = at
        BY <2>1 DEF StartFunction, FunctionOf
      <3>2. Sound(module, declared \cup {f}, tasks, c, values, blocks, h, at)
        BY <1>2, ExternalStarts
      <3>3. IsSound(c, h)'
        BY <1>2, <1>3, <3>1, <3>2 DEF IsSound
      <3> QED
        BY <3>3
    <2>2. CASE g.body # <<>>
      <3>1. /\ blocks' = bt /\ at' = Len(blocks) + 1 /\ tasks' = with \o tasks
            /\ variables' = variables \cup {<<f, i>> : i \in DOMAIN g.params}
        BY <2>2 DEF StartFunction, FunctionOf, Stores, Param
      <3>2. \E c2, h2 : /\ WithVariables(h, h2, f, DOMAIN g.params)
                        /\ Sound(module, declared \cup {f}, with \o tasks, c2, values, bt, h2, Len(blocks) + 1)
        BY <1>2, <2>2, FunctionStarts
      <3>3. PICK c2, h2 : /\ WithVariables(h, h2, f, DOMAIN g.params)
                          /\ Sound(module, declared \cup {f}, with \o tasks, c2, values, bt, h2, Len(blocks) + 1)
        BY <3>2
      <3>4. DOMAIN h2 = variables' /\ Sound(module', declared', tasks', c2, values', blocks', h2, at')
        BY <1>2, <1>3, <3>1, <3>3 DEF WithVariables
      <3>5. IsSound(c2, h2)'
        BY <3>4 DEF IsSound
      <3> QED
        BY <3>5
    <2> QED
      BY <2>1, <2>2
  <1> QED
    BY <1>3, <1>4 DEF Working

LEMMA GoCall ==
  ASSUME module \in Modules, Working, Call
  PROVE  Working' /\ module' = module
  <1>1. PICK c, h : IsSound(c, h)
    BY DEF Working
  <1>2. Sound(module, declared, tasks, c, values, blocks, h, at) /\ DOMAIN h = variables
    BY <1>1 DEF IsSound
  <1> DEFINE e == tasks[1].node
  <1>3. CASE Generating("call") /\ e.name \notin declared
    <2>1. tasks # <<>> /\ tasks[1].do = "generate" /\ e.kind = "call"
      BY <1>3 DEF Generating, Doing, Expr, Current
    <2>2. StartFunction(e.name, tasks) /\ next' = next
      BY <1>3, <2>1 DEF Call, Generating, Doing, Expr, Current
    <2>3. Inner(module, c[1].fn, c[1].vars, e, c[2].vars)
      BY <1>2, <2>1, Generating1
    <2>4. CallIsTyped(module, e)
      BY <2>1, <2>3, CallTyped
    <2>5. \E i \in DOMAIN module.typed : module.typed[i].name = e.name
      BY <2>4 DEF CallIsTyped
    <2>6. next' \in Nat \ {0}
      BY <2>2 DEF Working
    <2> QED
      BY <1>3, <2>1, <2>2, <2>5, <2>6, GoStart
  <1>4. CASE Generating("call") /\ e.name \in declared
    <2> DEFINE with == FlattenSeq([i \in DOMAIN e.subs |-> GenerateValue(e.subs[i])]) \o <<Task("call", e)>>
    <2>1. tasks # <<>> /\ tasks[1].do = "generate" /\ e.kind = "call"
      BY <1>4 DEF Generating, Doing, Expr, Current
    <2>2. /\ tasks' = with \o Tail(tasks) /\ blocks' = blocks /\ values' = values
          /\ declared' = declared /\ variables' = variables /\ at' = at /\ Stays
      BY <1>4, <2>1 DEF Call, Generating, Doing, Continue, Unmoved, Expr, Current, Stays
    <2>3. \E c2 : Sound(module, declared, with \o Tail(tasks), c2, values, blocks, h, at)
      BY <1>2, <1>4, <2>1, CallParts
    <2>4. \E c2 : Sound(module, declared', tasks', c2, values', blocks', h, at')
      BY <2>2, <2>3
    <2> QED
      BY <1>2, <2>2, <2>4, Carry
  <1>5. CASE Doing("call")
    <2> DEFINE n == Len(e.subs)
               args == [i \in 1..n |-> values[n + 1 - i]]
               called == Emit(blocks, at, Instr("call", e.name, args, <<>>))
               bt == IF e.type = "never" THEN Emit(called, at, Unreachable) ELSE called
               vt == Swapped(values, n, <<IF e.type = "never" THEN Never ELSE Result(e.type, called, at)>>)
    <2>1. tasks # <<>> /\ tasks[1].do = "call"
      BY <1>5 DEF Doing, Current
    <2>2. /\ tasks' = <<>> \o Tail(tasks) /\ blocks' = bt /\ values' = vt
          /\ declared' = declared /\ variables' = variables /\ at' = at /\ Stays
      BY <1>5, <2>1 DEF Call, Generating, Doing, Continue, Replace, Unmoved, Expr, Current, Swapped, Stays
    <2>3. \E c2 : Sound(module, declared, <<>> \o Tail(tasks), c2, vt, bt, h, at)
      BY <1>2, <2>1, CallStep
    <2>4. \E c2 : Sound(module, declared', tasks', c2, values', blocks', h, at')
      BY <2>2, <2>3
    <2> QED
      BY <1>2, <2>2, <2>4, Carry
  <1> QED
    BY <1>3, <1>4, <1>5 DEF Call, Expr, Current

LEMMA GoNext ==
  ASSUME module \in Modules, Working, NextFunction
  PROVE  Working' /\ module' = module
  <1> DEFINE f == module.typed[next].name
  <1>1. PICK c, h : IsSound(c, h)
    BY DEF Working
  <1>2. next' \in Nat \ {0}
    BY DEF NextFunction, Working
  <1>3. CASE f \in declared
    <2>1. UNCHANGED <<module, phase, tasks, values, declared, variables, blocks, at>>
      BY <1>3 DEF NextFunction
    <2>2. IsSound(c, h)'
      BY <1>1, <2>1 DEF IsSound
    <2> QED
      BY <1>2, <2>1, <2>2 DEF Working
  <1>4. CASE f \notin declared
    <2>1. tasks = <<>> /\ StartFunction(f, tasks)
      BY <1>4 DEF NextFunction
    <2>2. next \in DOMAIN module.typed
      <3>1. module.typed \in Seq({module.typed[i] : i \in DOMAIN module.typed})
        BY ModulesAssumption DEF IsRegular
      <3>2. Len(module.typed) \in Nat /\ DOMAIN module.typed = 1..Len(module.typed)
        BY <3>1, SeqIn
      <3> QED
        BY <3>2 DEF NextFunction, Working
    <2>3. \E i \in DOMAIN module.typed : module.typed[i].name = f
      BY <2>2
    <2> QED
      BY <1>2, <1>4, <2>1, <2>3, GoStart
  <1> QED
    BY <1>3, <1>4

\* All functions have been generated.
LEMMA GoDone ==
  ASSUME Working, GenerationDone
  PROVE  phase' = "verify" /\ Generated' /\ module' = module
  <1>1. PICK c, h : IsSound(c, h)
    BY DEF Working
  <1>2. tasks = <<>> /\ phase' = "verify" /\ UNCHANGED <<module, generator>>
    BY DEF GenerationDone
  <1>3. Heap(module, declared, blocks) /\ \A d \in 1..Len(blocks) : Closed(blocks, d)
    BY <1>1, <1>2, AllClosed DEF IsSound
  <1>4. Generated
    BY <1>3 DEF Generated
  <1>5. UNCHANGED <<module, declared, blocks>>
    BY <1>2 DEF generator
  <1>6. Generated'
    BY <1>4, <1>5 DEF Generated
  <1> QED
    BY <1>2, <1>6

-----------------------------------------------------------------------------
(* The invariant.                                                            *)

NothingDone == [fn |-> 0, size |-> 0, stack |-> <<>>, vars |-> {}, loops |-> {}, inside |-> FALSE]

LEMMA EmptySound ==
  ASSUME NEW m, NEW h, DOMAIN h = {}
  PROVE  Sound(m, {}, <<>>, <<NothingDone>>, <<>>, <<>>, h, 0)
  <1> DEFINE c == <<NothingDone>>
             ts == <<>>
             vs == <<>>
             bs == <<>>
  <1>1. /\ IsSeq(ts) /\ Len(ts) = 0 /\ IsSeq(vs) /\ Len(vs) = 0 /\ IsSeq(bs) /\ Len(bs) = 0
        /\ c[1] = NothingDone
    BY SeqNone DEF IsSeq
  <1>2. c[1].size = 0 /\ ~c[1].inside /\ c[1].vars = {} /\ c[1].loops = {}
    BY <1>1 DEF NothingDone
  <1>3. ts = <<>>
    OBVIOUS
  <1> HIDE DEF c, ts, vs, bs
  <1>4. Pile(m, {}, ts, c, vs, bs, h, {0})
    <2>1. Run(m, {}, ts, c) /\ IsLast(c[Len(ts) + 1])
      BY <1>1, <1>2 DEF Run, IsLast
    <2>2. Apart(ts, c) /\ Nested(ts, c)
      BY <1>1 DEF Apart, Nested
    <2>3. LoopsSound(bs, ts, c)
      BY <1>1, <1>2 DEF LoopsSound
    <2> QED
      BY <1>1, <2>1, <2>2, <2>3 DEF Pile
  <1>5. Heap(m, {}, bs)
    BY <1>1 DEF Heap, BlockShape
  <1>6. VarsSound(bs, h) /\ Matches(bs, vs, c[1])
    BY <1>1, <1>2 DEF VarsSound, Matches
  <1>7. Sound(m, {}, ts, c, vs, bs, h, 0)
    BY <1>1, <1>3, <1>4, <1>5, <1>6 DEF Sound
  <1> QED
    BY <1>7 DEF c, ts, vs, bs

LEMMA WorkingAtFirst ==
  ASSUME Init
  PROVE  Working
  <1> DEFINE h == [x \in {} |-> 0]
  <1>1. DOMAIN h = {} /\ variables = {}
    BY DEF Init, Ready
  <1> HIDE DEF h
  <1>2. Sound(module, {}, <<>>, <<NothingDone>>, <<>>, <<>>, h, 0)
    BY <1>1, EmptySound
  <1>3. declared = {} /\ tasks = <<>> /\ values = <<>> /\ blocks = <<>> /\ at = 0 /\ phase = "generate" /\ next = 1
    BY DEF Init, Ready
  <1>4. IsSound(<<NothingDone>>, h)
    BY <1>1, <1>2, <1>3 DEF IsSound
  <1> QED
    BY <1>3, <1>4 DEF Working

\* While it generates, what there is is sound; then it is complete.
IInv ==
  /\ module \in Modules
  /\ Working \/ (phase = "verify" /\ Generated) \/ phase = "run"

LEMMA GenerationKeeps ==
  ASSUME module \in Modules, Working, Generation
  PROVE  IInv'
  <1>1. CASE NextFunction
    BY <1>1, GoNext DEF IInv
  <1>2. CASE Literal
    BY <1>2, GoLiteral DEF IInv
  <1>3. CASE Expect \/ Destination
    BY <1>3, GoLook DEF IInv
  <1>4. CASE Variable
    BY <1>4, GoVariable DEF IInv
  <1>5. CASE Not
    BY <1>5, GoNot DEF IInv
  <1>6. CASE Or
    BY <1>6, GoOr DEF IInv
  <1>7. CASE And
    BY <1>7, GoAnd DEF IInv
  <1>8. CASE Return
    BY <1>8, GoReturn DEF IInv
  <1>9. CASE If
    BY <1>9, GoIf DEF IInv
  <1>10. CASE Block
    BY <1>10, GoBlock DEF IInv
  <1>11. CASE Val
    BY <1>11, GoVal DEF IInv
  <1>12. CASE Assign
    BY <1>12, GoAssign DEF IInv
  <1>13. CASE While
    BY <1>13, GoWhile DEF IInv
  <1>14. CASE Call
    BY <1>14, GoCall DEF IInv
  <1>15. CASE EndFunction
    BY <1>15, GoEnd DEF IInv
  <1>16. CASE GenerationDone
    BY <1>16, GoDone DEF IInv
  <1> QED
    BY <1>1, <1>2, <1>3, <1>4, <1>5, <1>6, <1>7, <1>8, <1>9, <1>10, <1>11, <1>12, <1>13, <1>14, <1>15, <1>16
    DEF Generation

\* Only in its phase does the generator do something.
LEMMA GenerationsPhase ==
  ASSUME Generation
  PROVE  phase = "generate"
  BY DEF Generation, NextFunction, Literal, Expect, Variable, Not, Or, And, Return, If, Block, Val, Destination,
         Assign, While, Call, EndFunction, GenerationDone, Generating, Doing

LEMMA ExecutionKeeps ==
  ASSUME Execution
  PROVE  phase = "run" /\ phase' = phase /\ module' = module
  BY DEF Execution, RunValue, RunBranch, RunReturn, RunCall, Running, Internal

LEMMA Kept ==
  ASSUME IInv, [Next]_vars
  PROVE  IInv'
  <1>1. CASE Generation
    BY <1>1, GenerationKeeps, GenerationsPhase DEF IInv
  <1>2. CASE Verify
    <2>1. phase = "verify" /\ Generated
      BY <1>2 DEF IInv, Verify, Working
    <2>2. \A b \in Blocks : BlockVerifies(b)
      BY <2>1, GeneratedVerifies
    <2>3. phase' = "run" /\ module' = module
      BY <1>2, <2>2 DEF Verify
    <2> QED
      BY <2>3 DEF IInv
  <1>3. CASE Execution
    BY <1>3, ExecutionKeeps DEF IInv
  <1>4. CASE UNCHANGED vars
    <2>1. UNCHANGED <<module, phase, next, tasks, values, declared, variables, blocks, at>>
      BY <1>4 DEF vars, generator
    <2>2. Working => Working'
      <3>1. ASSUME Working
            PROVE  Working'
        <4>1. PICK c, h : IsSound(c, h)
          BY <3>1 DEF Working
        <4>2. IsSound(c, h)'
          BY <2>1, <4>1 DEF IsSound
        <4> QED
          BY <2>1, <3>1, <4>2 DEF Working
      <3> QED
        BY <3>1
    <2>3. Generated => Generated'
      BY <2>1 DEF Generated
    <2> QED
      BY <2>1, <2>2, <2>3 DEF IInv
  <1> QED
    BY <1>1, <1>2, <1>3, <1>4 DEF Next, Done

LEMMA IInvVerifies ==
  ASSUME IInv
  PROVE  ModulesVerify
  BY DEF IInv, Working, ModulesVerify

\* The generator gets through every module: it does not panic, gives no error,
\* and what it has generated passes LLVM's verifier.
THEOREM SafeModulesVerify == Spec => []ModulesVerify
  <1>1. Init => IInv
    BY WorkingAtFirst DEF Init, IInv
  <1>2. IInv /\ [Next]_vars => IInv'
    BY Kept
  <1>3. IInv => ModulesVerify
    BY IInvVerifies
  <1> QED
    BY <1>1, <1>2, <1>3, PTL DEF Spec

=============================================================================
