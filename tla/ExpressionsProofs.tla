-------------------------- MODULE ExpressionsProofs --------------------------
(***************************************************************************)
(* What the expression parser takes for granted never fails, and binary    *)
(* operators are grouped by precedence, for every text (Expressions.tla).  *)
(***************************************************************************)
EXTENDS Expressions, TLAPS

-----------------------------------------------------------------------------
(* The inductive invariant.  Its parts take the text, the pool, the cursor   *)
(* and the operands as parameters, so that they can be stated of the state   *)
(* before and after a step.                                                  *)

TokenAt(t, p) == IF p \in 1..Len(t) THEN t[p] ELSE "eof"
Prec(t, p) == Precedence(TokenAt(t, p))

\* All that f parses starts after Low(f), its current operand after Floor(f).
Low(f) == IF f.caller.kind = "top" THEN 0 ELSE f.caller.from
Floor(f) == IF f.op = 0 THEN Low(f) ELSE f.op

Bracketed(ex, ops, n) == ex[n].kind = "binary" => n \in ops

\* An operand of expr_stack starts after the operator before it, and one that is
\* an expression of binary operators binds more than that.
OperandOK(t, ex, ops, f, k) ==
  LET m == f.members
      e == ex[m[k].is]
  IN /\ m[k].kind = "expr" /\ m[k].is \in 1..Len(ex)
     /\ k = 1 => e.from > Low(f)
     /\ k > 1 => /\ e.from > m[k - 1].is
                 /\ Bracketed(ex, ops, m[k].is) \/ Prec(t, e.at) > Prec(t, m[k - 1].is)

\* An operator of expr_stack stands after the operand before it, which does not
\* bind less, and binds more than the operator before.
OperatorOK(t, ex, ops, m, op, k) ==
  LET e == ex[m[k - 1].is]
  IN /\ TokenAt(t, op) \in BinaryOperators
     /\ op > e.to
     /\ Bracketed(ex, ops, m[k - 1].is) \/ Prec(t, e.at) >= Prec(t, op)

StackAt(t, ex, ops, f, k) ==
  LET m == f.members
  IN /\ k % 2 = 1 => OperandOK(t, ex, ops, f, k)
     /\ k % 2 = 0 => /\ m[k].kind = "operator"
                     /\ OperatorOK(t, ex, ops, m, m[k].is, k)
                     /\ k > 2 => Prec(t, m[k - 2].is) < Prec(t, m[k].is)

StackOK(t, ex, ops, f) ==
  LET m == f.members
  IN /\ \A k \in 1..Len(m) : StackAt(t, ex, ops, f, k)
     /\ Len(m) > 1 /\ Len(m) % 2 = 1 => Prec(t, m[Len(m) - 1].is) <= f.last

\* The operator that waits for its right operand could be the next of the stack,
\* except that it may bind less than the last.
FrameOK(t, ex, c, ops, f) ==
  /\ StackOK(t, ex, ops, f)
  /\ Low(f) < c
  /\ f.op # 0 => f.op < c /\ OperatorOK(t, ex, ops, f.members, f.op, Len(f.members) + 1)
  /\ f.op # 0 \/ f.step \in {"operator", "reduce", "fold"} => Len(f.members) % 2 = 1
  /\ f.step \in {"postfix", "reduce", "is", "return"} =>
       f.expr \in 1..Len(ex) /\ ex[f.expr].from > Floor(f)
  /\ f.step = "reduce" => f.op # 0 /\ f.expr \in ops
  /\ f.step \in {"operator", "fold", "is", "return"} => f.op = 0
  /\ f.step = "operator" => f.members[Len(f.members)].is \in ops
  /\ f.caller.kind = "unary" => f.caller.args = <<>>

\* The calls: the first one is the only one made from outside, the others are made
\* for an operand of the call below them.
Nested ==
  /\ Low(frames[1]) = 0 /\ frames[1].caller.kind = "top"
  /\ \A i \in 1..Len(frames) - 1 :
       /\ frames[i].step \in {"base", "postfix"}
       /\ frames[i + 1].caller.kind # "top"
       /\ Low(frames[i + 1]) > Floor(frames[i])

\* An expression of the pool has been read, and spans its operands.
NodeOK(t, ex, c, ops, e) ==
  /\ e.from <= e.to /\ e.to < c
  /\ \A k \in 1..Len(e.args) : ex[e.args[k]].to <= e.to
  /\ e.kind = "binary" =>
       LET lhs == e.args[1]
           rhs == e.args[2]
       IN /\ Len(e.args) = 2
          /\ ex[lhs].to < e.at /\ e.at < ex[rhs].from
          /\ Bracketed(ex, ops, lhs) \/ Prec(t, ex[lhs].at) >= Prec(t, e.at)
          /\ Bracketed(ex, ops, rhs) \/ Prec(t, ex[rhs].at) > Prec(t, e.at)

Pool == \A n \in Ids : NodeOK(tokens, expressions, cursor, operands, expressions[n])
Calls == \A i \in 1..Len(frames) : FrameOK(tokens, expressions, cursor, operands, frames[i])

IInv == TypeOK /\ Pool /\ Calls /\ Nested

-----------------------------------------------------------------------------
(* Numbers and sequences.                                                    *)

LEMMA PrecIsNat ==
  ASSUME NEW t, NEW p, TokenAt(t, p) \in BinaryOperators
  PROVE  Prec(t, p) \in Nat
  BY DEF Prec, Precedence, BinaryOperators

LEMMA Parity ==
  ASSUME NEW n \in Nat
  PROVE  /\ n % 2 = 0 \/ n % 2 = 1
         /\ (n + 1) % 2 = 1 - (n % 2)
         /\ (n + 2) % 2 = n % 2
  OBVIOUS

LEMMA OddPositive ==
  ASSUME NEW n \in Nat, n % 2 = 1
  PROVE  n \in 1..n /\ (n + 1) - 1 = n
  <1>1. n # 0
    OBVIOUS
  <1> QED
    BY <1>1

LEMMA EvenPositive ==
  ASSUME NEW n \in Nat, NEW k \in 1..n, k % 2 = 0
  PROVE  k - 1 \in 1..n /\ (k - 1) % 2 = 1 /\ k > 1
  <1>1. k # 1
    OBVIOUS
  <1>2. k - 1 \in Nat /\ (k - 1) + 1 = k
    OBVIOUS
  <1>3. (k - 1) % 2 = 1
    BY <1>2, Parity
  <1> QED
    BY <1>1, <1>3

LEMMA ElementOf ==
  ASSUME NEW S, NEW seq \in Seq(S), NEW i \in 1..Len(seq)
  PROVE  seq[i] \in S
  OBVIOUS

LEMMA AppendFacts ==
  ASSUME NEW S, NEW seq \in Seq(S), NEW x \in S
  PROVE  /\ Append(seq, x) \in Seq(S)
         /\ Len(Append(seq, x)) = Len(seq) + 1
         /\ \A i \in 1..Len(seq) : Append(seq, x)[i] = seq[i]
         /\ Append(seq, x)[Len(seq) + 1] = x
  OBVIOUS

LEMMA FrontFacts ==
  ASSUME NEW S, NEW seq \in Seq(S), NEW n \in Nat, n <= Len(seq)
  PROVE  /\ SubSeq(seq, 1, n) \in Seq(S)
         /\ Len(SubSeq(seq, 1, n)) = n
         /\ \A i \in 1..n : SubSeq(seq, 1, n)[i] = seq[i]
  OBVIOUS

LEMMA SetLast ==
  ASSUME NEW S, NEW seq \in Seq(S), NEW x \in S, seq # <<>>
  PROVE  /\ [seq EXCEPT ![Len(seq)] = x] \in Seq(S)
         /\ Len([seq EXCEPT ![Len(seq)] = x]) = Len(seq)
         /\ \A i \in 1..Len(seq) - 1 : [seq EXCEPT ![Len(seq)] = x][i] = seq[i]
         /\ [seq EXCEPT ![Len(seq)] = x][Len(seq)] = x
  OBVIOUS

LEMMA LastAgain ==
  ASSUME NEW S, NEW seq \in Seq(S), NEW x \in S, seq # <<>>
  PROVE  Append(SubSeq(seq, 1, Len(seq) - 1), x) = [seq EXCEPT ![Len(seq)] = x]
  <1>1. Len(seq) - 1 \in Nat /\ Len(seq) - 1 <= Len(seq) /\ Len(seq) \in Nat
    OBVIOUS
  <1> DEFINE front == SubSeq(seq, 1, Len(seq) - 1)
  <1>2. /\ front \in Seq(S) /\ Len(front) = Len(seq) - 1
        /\ \A i \in 1..Len(seq) - 1 : front[i] = seq[i]
    BY <1>1, FrontFacts
  <1> HIDE DEF front
  <1>3. /\ Append(front, x) \in Seq(S) /\ Len(Append(front, x)) = Len(seq)
        /\ \A i \in 1..Len(seq) - 1 : Append(front, x)[i] = seq[i]
        /\ Append(front, x)[Len(seq)] = x
    BY <1>1, <1>2, AppendFacts
  <1> DEFINE a == Append(front, x)
  <1> DEFINE b == [seq EXCEPT ![Len(seq)] = x]
  <1>4. /\ b \in Seq(S) /\ Len(b) = Len(seq) /\ b[Len(seq)] = x
        /\ \A i \in 1..Len(seq) - 1 : b[i] = seq[i]
    BY SetLast
  <1>5. a \in Seq(S) /\ b \in Seq(S) /\ Len(a) = Len(b) /\ \A i \in 1..Len(a) : a[i] = b[i]
    <2> HIDE DEF b
    <2>1. \A i \in 1..Len(seq) : i \in 1..Len(seq) - 1 \/ i = Len(seq)
      BY <1>1
    <2> QED
      BY <1>3, <1>4, <2>1
  <1>6. a = b
    <2> HIDE DEF a, b
    <2> QED
      BY <1>5
  <1> QED
    BY <1>6 DEF front

-----------------------------------------------------------------------------
(* What holds of a frame or an expression stays true while the pool grows    *)
(* and the cursor goes on.                                                   *)

Nodes == [kind : Kinds, at : Nat, from : Nat, to : Nat, args : Seq(Nat)]

Extends(ex, ex2) == Len(ex) <= Len(ex2) /\ \A n \in 1..Len(ex) : ex2[n] = ex[n]

LEMMA StackMonotone ==
  ASSUME NEW t, NEW S, NEW ex \in Seq(S), NEW ex2 \in Seq(S), NEW ops, NEW ops2, NEW f \in Frames,
         Extends(ex, ex2), ops \subseteq ops2, StackOK(t, ex, ops, f)
  PROVE  StackOK(t, ex2, ops2, f)
  <1> DEFINE m == f.members
  <1>1. m \in Seq([kind : {"expr", "operator"}, is : Nat]) /\ Len(m) \in Nat
    BY DEF Frames
  <1>2. ASSUME NEW k \in 1..Len(m), k % 2 = 1
        PROVE  OperandOK(t, ex2, ops2, f, k)
    <2>1. OperandOK(t, ex, ops, f, k)
      BY <1>2 DEF StackOK, StackAt
    <2>2. m[k].is \in 1..Len(ex) /\ m[k].is \in 1..Len(ex2) /\ ex2[m[k].is] = ex[m[k].is]
      BY <2>1 DEF OperandOK, Extends
    <2> QED
      BY <2>1, <2>2 DEF OperandOK, Bracketed
  <1>3. ASSUME NEW k \in 1..Len(m), k % 2 = 0
        PROVE  OperatorOK(t, ex2, ops2, m, m[k].is, k)
    <2>1. OperatorOK(t, ex, ops, m, m[k].is, k)
      BY <1>3 DEF StackOK, StackAt
    <2>2. k - 1 \in 1..Len(m) /\ (k - 1) % 2 = 1
      BY <1>1, <1>3, EvenPositive
    <2>3. OperandOK(t, ex, ops, f, k - 1)
      BY <2>2 DEF StackOK, StackAt
    <2>4. m[k - 1].is \in 1..Len(ex) /\ ex2[m[k - 1].is] = ex[m[k - 1].is]
      BY <2>3 DEF OperandOK, Extends
    <2> QED
      BY <2>1, <2>4 DEF OperatorOK, Bracketed
  <1> QED
    BY <1>2, <1>3 DEF StackOK, StackAt

LEMMA FrameMonotone ==
  ASSUME NEW t, NEW S, NEW ex \in Seq(S), NEW ex2 \in Seq(S), NEW ops, NEW ops2,
         NEW c \in Nat, NEW c2 \in Nat, NEW f \in Frames,
         Extends(ex, ex2), ops \subseteq ops2, c <= c2, FrameOK(t, ex, c, ops, f)
  PROVE  FrameOK(t, ex2, c2, ops2, f)
  <1> DEFINE m == f.members
  <1>1. /\ m \in Seq([kind : {"expr", "operator"}, is : Nat]) /\ Len(m) \in Nat
        /\ Low(f) \in Nat /\ f.op \in Nat
    BY DEF Frames, Callers, Low
  <1>2. StackOK(t, ex, ops, f) /\ StackOK(t, ex2, ops2, f)
    BY StackMonotone DEF FrameOK
  <1>3. ASSUME f.op # 0
        PROVE  f.op < c2 /\ OperatorOK(t, ex2, ops2, m, f.op, Len(m) + 1)
    <2>1. f.op < c /\ OperatorOK(t, ex, ops, m, f.op, Len(m) + 1) /\ Len(m) % 2 = 1
      BY <1>3 DEF FrameOK
    <2>2. Len(m) \in 1..Len(m) /\ (Len(m) + 1) - 1 = Len(m)
      BY <1>1, <2>1, OddPositive
    <2>3. OperandOK(t, ex, ops, f, Len(m))
      BY <1>2, <2>1, <2>2 DEF StackOK, StackAt
    <2>4. m[Len(m)].is \in 1..Len(ex) /\ ex2[m[Len(m)].is] = ex[m[Len(m)].is]
      BY <2>3 DEF OperandOK, Extends
    <2>5. f.op < c2
      BY <1>1, <2>1
    <2> QED
      BY <2>1, <2>2, <2>4, <2>5 DEF OperatorOK, Bracketed
  <1>4. Low(f) < c2
    BY <1>1 DEF FrameOK
  <1>5. f.step \in {"postfix", "reduce", "is", "return"} =>
          f.expr \in 1..Len(ex2) /\ ex2[f.expr].from > Floor(f)
    BY DEF FrameOK, Extends
  <1> QED
    BY <1>2, <1>3, <1>4, <1>5 DEF FrameOK

LEMMA NodeMonotone ==
  ASSUME NEW t, NEW S, NEW ex \in Seq(S), NEW ex2 \in Seq(S), NEW ops, NEW ops2,
         NEW c \in Nat, NEW c2 \in Nat, NEW e \in Nodes,
         \A k \in 1..Len(e.args) : e.args[k] \in 1..Len(ex),
         Extends(ex, ex2), ops \subseteq ops2, c <= c2, NodeOK(t, ex, c, ops, e)
  PROVE  NodeOK(t, ex2, c2, ops2, e)
  <1>1. \A k \in 1..Len(e.args) : e.args[k] \in 1..Len(ex) /\ ex2[e.args[k]] = ex[e.args[k]]
    BY DEF Extends
  <1>2. e.to \in Nat
    BY DEF Nodes
  <1>3. e.from <= e.to /\ e.to < c2 /\ \A k \in 1..Len(e.args) : ex2[e.args[k]].to <= e.to
    <2>1. e.from <= e.to /\ e.to < c /\ \A k \in 1..Len(e.args) : ex[e.args[k]].to <= e.to
      BY DEF NodeOK
    <2> QED
      BY <1>1, <1>2, <2>1
  <1>4. ASSUME e.kind = "binary"
        PROVE  /\ Len(e.args) = 2
               /\ ex2[e.args[1]] = ex[e.args[1]] /\ ex2[e.args[2]] = ex[e.args[2]]
    <2>1. Len(e.args) = 2
      BY <1>4 DEF NodeOK
    <2>2. 1 \in 1..Len(e.args) /\ 2 \in 1..Len(e.args)
      BY <2>1
    <2> QED
      BY <1>1, <2>1, <2>2
  <1> QED
    BY <1>3, <1>4 DEF NodeOK, Bracketed

-----------------------------------------------------------------------------
(* What a step does to the pool, and to the calls.                           *)

\* The ids a frame holds are those of expressions of the pool.
FrameIds(ex, f) ==
  /\ f.expr \in 1..Len(ex) \/ (f.expr = 0 /\ f.step = "base")
  /\ \A k \in 1..Len(f.caller.args) : f.caller.args[k] \in 1..Len(ex)
  /\ \A k \in 1..Len(f.members) : f.members[k].kind = "expr" => f.members[k].is \in 1..Len(ex)

Grows ==
  /\ tokens' = tokens
  /\ cursor' \in Nat \ {0} /\ cursor <= cursor'
  /\ expressions' \in Seq(Nodes) /\ Extends(expressions, expressions')
  /\ hints' \in [1..Len(expressions') -> Nat]
  /\ operands \subseteq operands' /\ operands' \subseteq 1..Len(expressions')
  /\ status' \in {"run", "done", "none", "error"}
  /\ \A n \in 1..Len(expressions') :
       /\ \A k \in 1..Len(expressions'[n].args) : expressions'[n].args[k] \in 1..n - 1
       /\ NodeOK(tokens', expressions', cursor', operands', expressions'[n])

LEMMA StateFacts ==
  ASSUME IInv
  PROVE  /\ tokens \in Inputs /\ cursor \in Nat /\ cursor >= 1
         /\ expressions \in Seq(Nodes) /\ Len(expressions) \in Nat
         /\ hints \in [1..Len(expressions) -> Nat] /\ operands \subseteq 1..Len(expressions)
         /\ frames \in Seq(Frames) /\ Len(frames) \in Nat /\ Len(frames) >= 1 /\ frames # <<>>
         /\ status \in {"run", "done", "none", "error"}
         /\ \A i \in 1..Len(frames) :
              /\ frames[i] \in Frames /\ FrameIds(expressions, frames[i])
              /\ FrameOK(tokens, expressions, cursor, operands, frames[i])
         /\ \A n \in 1..Len(expressions) :
              /\ expressions[n] \in Nodes
              /\ \A k \in 1..Len(expressions[n].args) : expressions[n].args[k] \in 1..n - 1
              /\ NodeOK(tokens, expressions, cursor, operands, expressions[n])
         /\ Nested
  <1>1. TypeOK /\ Pool /\ Calls /\ Nested
    BY DEF IInv
  <1>2. expressions \in Seq(Nodes)
    BY <1>1 DEF TypeOK, Nodes
  <1>3. \A i \in 1..Len(frames) : FrameIds(expressions, frames[i])
    BY <1>1 DEF TypeOK, FrameIds, Ids
  <1>4. frames \in Seq(Frames) /\ Len(frames) \in Nat /\ Len(frames) >= 1 /\ frames # <<>>
    BY <1>1 DEF TypeOK
  <1>5. \A i \in 1..Len(frames) : frames[i] \in Frames
    BY <1>4
  <1>6. \A n \in 1..Len(expressions) : expressions[n] \in Nodes
    BY <1>2
  <1>7. Len(expressions) \in Nat
    BY <1>2
  <1>8. /\ tokens \in Inputs /\ cursor \in Nat /\ cursor >= 1
        /\ hints \in [1..Len(expressions) -> Nat] /\ operands \subseteq 1..Len(expressions)
        /\ status \in {"run", "done", "none", "error"}
        /\ \A n \in 1..Len(expressions) :
             \A k \in 1..Len(expressions[n].args) : expressions[n].args[k] \in 1..n - 1
    BY <1>1 DEF TypeOK, Ids
  <1>9. /\ \A n \in 1..Len(expressions) : NodeOK(tokens, expressions, cursor, operands, expressions[n])
        /\ \A i \in 1..Len(frames) : FrameOK(tokens, expressions, cursor, operands, frames[i])
    BY <1>1 DEF Pool, Calls, Ids
  <1> QED
    BY <1>1, <1>2, <1>3, <1>4, <1>5, <1>6, <1>7, <1>8, <1>9

LEMMA TopFacts ==
  ASSUME IInv
  PROVE  /\ Top \in Frames /\ FrameIds(expressions, Top)
         /\ FrameOK(tokens, expressions, cursor, operands, Top)
         /\ Top.op \in Nat /\ Top.expr \in Nat /\ Top.last \in Nat /\ Low(Top) \in Nat /\ Floor(Top) \in Nat
         /\ Top.caller \in Callers /\ Top.caller.from \in Nat /\ Top.caller.at \in Nat
         /\ Top.caller.args \in Seq(Nat) /\ Len(Top.caller.args) \in Nat
         /\ Top.members \in Seq([kind : {"expr", "operator"}, is : Nat]) /\ Height \in Nat
  <1>1. Len(frames) \in 1..Len(frames)
    BY StateFacts
  <1>2. /\ Top \in Frames /\ FrameIds(expressions, Top)
        /\ FrameOK(tokens, expressions, cursor, operands, Top)
    BY <1>1, StateFacts DEF Top
  <1> HIDE DEF Top
  <1> QED
    BY <1>2 DEF Frames, Callers, Low, Floor, Height

LEMMA OldFrame ==
  ASSUME IInv, Grows, NEW f \in Frames, FrameIds(expressions, f),
         FrameOK(tokens, expressions, cursor, operands, f)
  PROVE  FrameIds(expressions', f) /\ FrameOK(tokens', expressions', cursor', operands', f)
  <1>1. FrameIds(expressions', f)
    <2>1. \A n : n \in 1..Len(expressions) => n \in 1..Len(expressions')
      <3>1. Len(expressions) \in Nat /\ Len(expressions') \in Nat /\ Len(expressions) <= Len(expressions')
        BY StateFacts DEF Grows, Extends
      <3> QED
        BY <3>1
    <2> QED
      BY <2>1 DEF FrameIds
  <1>2. FrameOK(tokens', expressions', cursor', operands', f)
    BY StateFacts, FrameMonotone DEF Grows
  <1> QED
    BY <1>1, <1>2

LEMMA FramesKeep ==
  ASSUME IInv, Grows, frames' \in Seq(Frames), frames' # <<>>, Nested',
         \A i \in 1..Len(frames') :
           /\ FrameIds(expressions', frames'[i])
           /\ FrameOK(tokens', expressions', cursor', operands', frames'[i])
  PROVE  IInv'
  <1>1. TypeOK'
    BY StateFacts DEF Grows, TypeOK, FrameIds, Ids, Nodes
  <1>2. Pool'
    BY DEF Grows, Pool, Ids
  <1>3. Calls'
    BY DEF Calls
  <1> QED
    BY <1>1, <1>2, <1>3 DEF IInv

\* A frame is left as it is but for what it has parsed.
LEMMA ReplaceTop ==
  ASSUME IInv, Grows, NEW g \in Frames, g.caller.kind = Top.caller.kind, g.caller.from = Top.caller.from,
         FrameIds(expressions', g), FrameOK(tokens', expressions', cursor', operands', g),
         frames' = WithTop(g)
  PROVE  IInv'
  <1>1. /\ frames' \in Seq(Frames) /\ Len(frames') = Len(frames)
        /\ \A i \in 1..Len(frames) - 1 : frames'[i] = frames[i]
        /\ frames'[Len(frames)] = g
    BY StateFacts, SetLast DEF WithTop
  <1>2. \A i \in 1..Len(frames') : i \in 1..Len(frames) - 1 \/ i = Len(frames)
    BY <1>1, StateFacts
  <1>3. Low(g) = Low(Top)
    BY DEF Low
  <1>4. ASSUME NEW i \in 1..Len(frames')
        PROVE  FrameIds(expressions', frames'[i]) /\ FrameOK(tokens', expressions', cursor', operands', frames'[i])
    <2>1. CASE i \in 1..Len(frames) - 1
      <3>1. frames[i] \in Frames /\ FrameIds(expressions, frames[i])
            /\ FrameOK(tokens, expressions, cursor, operands, frames[i])
        BY <1>1, StateFacts
      <3> QED
        BY <1>1, <2>1, <3>1, OldFrame
    <2> QED
      BY <1>1, <1>2, <2>1
  <1>5. Nested'
    <2>1. Nested /\ Top = frames[Len(frames)]
      BY StateFacts DEF Top
    <2>2. Low(frames'[1]) = 0 /\ frames'[1].caller.kind = "top"
      BY <1>1, <1>2, <1>3, <2>1, StateFacts DEF Nested
    <2>3. ASSUME NEW i \in 1..Len(frames') - 1
          PROVE  /\ frames'[i].step \in {"base", "postfix"}
                 /\ frames'[i + 1].caller.kind # "top"
                 /\ Low(frames'[i + 1]) > Floor(frames'[i])
      <3>1. i \in 1..Len(frames) - 1 /\ frames'[i] = frames[i]
        BY <1>1
      <3>2. CASE i + 1 \in 1..Len(frames) - 1
        BY <1>1, <2>1, <3>1, <3>2 DEF Nested
      <3>3. CASE i + 1 = Len(frames)
        BY <1>1, <1>3, <2>1, <3>1, <3>3 DEF Nested
      <3> QED
        BY <3>1, <3>2, <3>3, StateFacts
    <2> QED
      BY <2>2, <2>3 DEF Nested
  <1>6. frames' # <<>>
    BY <1>1, StateFacts
  <1> QED
    BY <1>1, <1>4, <1>5, <1>6, FramesKeep

\* A call is made for an operand of the frame on top.
LEMMA PushFrame ==
  ASSUME IInv, Grows, NEW g \in Frames, g.caller.kind # "top", g.caller.from > Floor(Top),
         Top.step \in {"base", "postfix"},
         FrameIds(expressions', g), FrameOK(tokens', expressions', cursor', operands', g),
         frames' = Append(frames, g)
  PROVE  IInv'
  <1>1. /\ frames' \in Seq(Frames) /\ Len(frames') = Len(frames) + 1
        /\ \A i \in 1..Len(frames) : frames'[i] = frames[i]
        /\ frames'[Len(frames) + 1] = g
    BY StateFacts, AppendFacts
  <1>2. \A i \in 1..Len(frames') : i \in 1..Len(frames) \/ i = Len(frames) + 1
    BY <1>1, StateFacts
  <1>3. ASSUME NEW i \in 1..Len(frames')
        PROVE  FrameIds(expressions', frames'[i]) /\ FrameOK(tokens', expressions', cursor', operands', frames'[i])
    <2>1. CASE i \in 1..Len(frames)
      <3>1. frames[i] \in Frames /\ FrameIds(expressions, frames[i])
            /\ FrameOK(tokens, expressions, cursor, operands, frames[i])
        BY <2>1, StateFacts
      <3> QED
        BY <1>1, <2>1, <3>1, OldFrame
    <2> QED
      BY <1>1, <1>2, <2>1
  <1>4. Nested'
    <2>1. Nested /\ Top = frames[Len(frames)] /\ Low(g) = g.caller.from
      BY StateFacts DEF Top, Low
    <2>2. Low(frames'[1]) = 0 /\ frames'[1].caller.kind = "top"
      BY <1>1, <2>1, StateFacts DEF Nested
    <2>3. ASSUME NEW i \in 1..Len(frames') - 1
          PROVE  /\ frames'[i].step \in {"base", "postfix"}
                 /\ frames'[i + 1].caller.kind # "top"
                 /\ Low(frames'[i + 1]) > Floor(frames'[i])
      <3>1. i \in 1..Len(frames) /\ frames'[i] = frames[i]
        BY <1>1, StateFacts
      <3>2. CASE i \in 1..Len(frames) - 1
        <4>1. i + 1 \in 1..Len(frames)
          BY <3>2, StateFacts
        <4> QED
          BY <1>1, <2>1, <3>1, <3>2, <4>1 DEF Nested
      <3>3. CASE i = Len(frames)
        BY <1>1, <2>1, <3>1, <3>3
      <3> QED
        BY <3>1, <3>2, <3>3, StateFacts
    <2> QED
      BY <2>2, <2>3 DEF Nested
  <1>5. frames' # <<>>
    BY <1>1, StateFacts
  <1> QED
    BY <1>1, <1>3, <1>4, <1>5, FramesKeep

LEMMA SameStack ==
  ASSUME NEW t, NEW ex, NEW ops, NEW f, NEW g, StackOK(t, ex, ops, f),
         g.members = f.members, g.last = f.last, Low(g) = Low(f)
  PROVE  StackOK(t, ex, ops, g)
  BY DEF StackOK, StackAt, OperandOK

\* An operand of a frame, or a part of one, has been read.
LEMMA OperandFrame ==
  ASSUME NEW t, NEW ex, NEW c, NEW ops, NEW f \in Frames, FrameIds(ex, f), FrameOK(t, ex, c, ops, f),
         NEW id \in Nat, id \in 1..Len(ex), ex[id].from > Floor(f),
         NEW g, g = [f EXCEPT !.expr = id, !.step = "postfix"]
  PROVE  /\ g \in Frames /\ g.caller = f.caller
         /\ FrameIds(ex, g) /\ FrameOK(t, ex, c, ops, g)
  <1>1. /\ g.caller = f.caller /\ g.step = "postfix" /\ g.expr = id /\ g.op = f.op /\ g.last = f.last
        /\ g.members = f.members
    BY DEF Frames
  <1>2. g \in Frames
    BY DEF Frames, Steps
  <1>3. FrameIds(ex, g)
    BY <1>1 DEF FrameIds
  <1>4. Low(g) = Low(f) /\ Floor(g) = Floor(f)
    BY <1>1 DEF Low, Floor
  <1>5. StackOK(t, ex, ops, g)
    BY <1>1, <1>4, SameStack DEF FrameOK
  <1>6. FrameOK(t, ex, c, ops, g)
    BY <1>1, <1>4, <1>5 DEF FrameOK
  <1> QED
    BY <1>1, <1>2, <1>3, <1>6

LEMMA FreshFrame ==
  ASSUME NEW t, NEW ex, NEW c, NEW ops, NEW caller \in Callers,
         caller.kind # "top", caller.from < c,
         \A k \in 1..Len(caller.args) : caller.args[k] \in 1..Len(ex),
         caller.kind = "unary" => caller.args = <<>>
  PROVE  /\ NewFrame(caller) \in Frames /\ NewFrame(caller).caller = caller
         /\ FrameIds(ex, NewFrame(caller)) /\ FrameOK(t, ex, c, ops, NewFrame(caller))
  <1> DEFINE g == NewFrame(caller)
  <1>1. /\ g.caller = caller /\ g.step = "base" /\ g.expr = 0 /\ g.op = 0 /\ g.members = <<>>
        /\ g \in Frames
    BY DEF NewFrame, Frames, Steps
  <1> HIDE DEF g
  <1>2. FrameIds(ex, g)
    BY <1>1 DEF FrameIds
  <1>3. StackOK(t, ex, ops, g)
    BY <1>1 DEF StackOK, StackAt
  <1>4. FrameOK(t, ex, c, ops, g)
    BY <1>1, <1>3 DEF FrameOK, Low
  <1> QED
    BY <1>1, <1>2, <1>4 DEF g

LEMMA OperandTop ==
  ASSUME IInv, Grows, NEW id \in Nat, id \in 1..Len(expressions'), expressions'[id].from > Floor(Top),
         Operand(frames, id)
  PROVE  IInv'
  <1> DEFINE g == [Top EXCEPT !.expr = id, !.step = "postfix"]
  <1>1. /\ Top \in Frames /\ FrameIds(expressions', Top)
        /\ FrameOK(tokens', expressions', cursor', operands', Top)
    BY TopFacts, OldFrame
  <1>2. /\ g \in Frames /\ g.caller = Top.caller
        /\ FrameIds(expressions', g) /\ FrameOK(tokens', expressions', cursor', operands', g)
    BY <1>1, OperandFrame
  <1>3. frames' = WithTop(g)
    BY DEF Operand, WithTop, Top
  <1> HIDE DEF g
  <1> QED
    BY <1>2, <1>3, ReplaceTop

LEMMA EnterTop ==
  ASSUME IInv, Grows, NEW caller \in Callers, caller.kind # "top", caller.from < cursor',
         caller.from > Floor(Top), Top.step \in {"base", "postfix"},
         \A k \in 1..Len(caller.args) : caller.args[k] \in 1..Len(expressions'),
         caller.kind = "unary" => caller.args = <<>>,
         frames' = Append(frames, NewFrame(caller))
  PROVE  IInv'
  <1> DEFINE g == NewFrame(caller)
  <1>1. /\ g \in Frames /\ g.caller = caller
        /\ FrameIds(expressions', g) /\ FrameOK(tokens', expressions', cursor', operands', g)
    BY FreshFrame
  <1> HIDE DEF g
  <1> QED
    BY <1>1, PushFrame DEF g

\* The same call goes on with the next element of its list.
LEMMA EnterAgain ==
  ASSUME IInv, Grows, NEW caller \in Callers, caller.kind # "top",
         caller.kind = Top.caller.kind, caller.from = Top.caller.from,
         \A k \in 1..Len(caller.args) : caller.args[k] \in 1..Len(expressions'),
         caller.kind = "unary" => caller.args = <<>>,
         frames' = Append(Below, NewFrame(caller))
  PROVE  IInv'
  <1> DEFINE g == NewFrame(caller)
  <1>1. Low(Top) < cursor' /\ Low(Top) = caller.from
    BY TopFacts, OldFrame DEF FrameOK, Low
  <1>2. /\ g \in Frames /\ g.caller = caller
        /\ FrameIds(expressions', g) /\ FrameOK(tokens', expressions', cursor', operands', g)
    BY <1>1, FreshFrame
  <1>3. frames' = WithTop(g)
    BY <1>2, LastAgain, StateFacts DEF Below, WithTop
  <1> HIDE DEF g
  <1> QED
    BY <1>2, <1>3, ReplaceTop

\* A call returns: its caller has read an operand, or a part of one.
LEMMA PopFrame ==
  ASSUME IInv, Grows, Top.caller.kind # "top",
         NEW id \in Nat, id \in 1..Len(expressions'), expressions'[id].from >= Top.caller.from,
         expressions'[id].from \in Nat, Operand(Below, id)
  PROVE  IInv'
  <1> DEFINE n == Len(frames) - 1
             f == frames[n]
             g == [f EXCEPT !.expr = id, !.step = "postfix"]
  <1>1. /\ n \in 1..Len(frames) /\ n + 1 = Len(frames) /\ n \in Nat /\ n >= 1
        /\ n \in 1..Len(frames) - 1
    <2>1. Len(frames) # 1
      BY StateFacts DEF Nested, Top
    <2>2. Len(frames) \in Nat /\ Len(frames) >= 1
      BY StateFacts
    <2>3. ASSUME NEW l \in Nat, l >= 1, l # 1
          PROVE  l - 1 \in 1..l /\ (l - 1) + 1 = l /\ l - 1 \in Nat /\ l - 1 >= 1 /\ l - 1 \in 1..l - 1
      BY <2>3
    <2> QED
      BY <2>1, <2>2, <2>3
  <1>2. /\ Below \in Seq(Frames) /\ Len(Below) = n /\ \A i \in 1..n : Below[i] = frames[i]
        /\ Below # <<>>
    <2>1. frames \in Seq(Frames)
      BY StateFacts
    <2> HIDE DEF n
    <2>2. Below = SubSeq(frames, 1, n)
      BY DEF Below, n
    <2> QED
      BY <1>1, <2>1, <2>2, FrontFacts
  <1> HIDE DEF n, f
  <1>3. /\ f \in Frames /\ FrameIds(expressions', f)
        /\ FrameOK(tokens', expressions', cursor', operands', f)
    BY <1>1, StateFacts, OldFrame DEF f
  <1>4. f.step \in {"base", "postfix"} /\ Low(Top) > Floor(f)
    BY <1>1, StateFacts DEF Nested, Top, f
  <1>5. expressions'[id].from > Floor(f)
    <2>1. Floor(f) \in Nat /\ Low(Top) = Top.caller.from /\ Top.caller.from \in Nat
      BY <1>3, TopFacts DEF Floor, Low, Frames, Callers
    <2> QED
      BY <1>4, <2>1
  <1>6. /\ g \in Frames /\ g.caller = f.caller
        /\ FrameIds(expressions', g) /\ FrameOK(tokens', expressions', cursor', operands', g)
    BY <1>3, <1>5, OperandFrame
  <1>7. Floor(g) = Floor(f) /\ Low(g) = Low(f) /\ g.step = "postfix"
    BY <1>3 DEF Floor, Low, Frames
  <1>8. frames' = [Below EXCEPT ![Len(Below)] = g]
    <2>1. Below[Len(Below)] = f
      BY <1>1, <1>2 DEF f
    <2> QED
      BY <2>1 DEF Operand
  <1> HIDE DEF g
  <1>9. /\ frames' \in Seq(Frames) /\ Len(frames') = n
        /\ \A i \in 1..n - 1 : frames'[i] = frames[i]
        /\ frames'[n] = g
    BY <1>1, <1>2, <1>6, <1>8, SetLast
  <1>10. \A i \in 1..n : i \in 1..n - 1 \/ i = n
    BY <1>1
  <1>11. ASSUME NEW i \in 1..Len(frames')
         PROVE  FrameIds(expressions', frames'[i]) /\ FrameOK(tokens', expressions', cursor', operands', frames'[i])
    <2>1. CASE i \in 1..n - 1
      <3>1. i \in 1..Len(frames)
        BY <1>1, <2>1
      <3>2. frames[i] \in Frames /\ FrameIds(expressions, frames[i])
            /\ FrameOK(tokens, expressions, cursor, operands, frames[i])
        BY <3>1, StateFacts
      <3> QED
        BY <1>9, <2>1, <3>2, OldFrame
    <2> QED
      BY <1>6, <1>9, <1>10, <2>1
  <1>12. Nested'
    <2>1. Nested
      BY StateFacts
    <2>2. Low(frames'[1]) = 0 /\ frames'[1].caller.kind = "top"
      BY <1>1, <1>6, <1>7, <1>9, <1>10, <2>1 DEF Nested, f
    <2>3. ASSUME NEW i \in 1..Len(frames') - 1
          PROVE  /\ frames'[i].step \in {"base", "postfix"}
                 /\ frames'[i + 1].caller.kind # "top"
                 /\ Low(frames'[i + 1]) > Floor(frames'[i])
      <3>1. i \in 1..n - 1 /\ frames'[i] = frames[i] /\ i \in 1..Len(frames) - 1
        BY <1>1, <1>9
      <3>2. CASE i + 1 \in 1..n - 1
        BY <1>9, <2>1, <3>1, <3>2 DEF Nested
      <3>3. CASE i + 1 = n
        BY <1>6, <1>7, <1>9, <2>1, <3>1, <3>3 DEF Nested, f
      <3> QED
        BY <3>1, <3>2, <3>3, <1>1
    <2> QED
      BY <2>2, <2>3 DEF Nested
  <1>13. frames' # <<>>
    BY <1>1, <1>9
  <1> QED
    BY <1>9, <1>11, <1>12, <1>13, FramesKeep

-----------------------------------------------------------------------------
(* The pool.                                                                 *)

LEMMA NothingAdded ==
  ASSUME IInv, tokens' = tokens, expressions' = expressions,
         hints' \in [1..Len(expressions) -> Nat],
         cursor' \in Nat, cursor <= cursor', operands \subseteq operands',
         operands' \subseteq 1..Len(expressions), status' \in {"run", "done", "none", "error"}
  PROVE  Grows
  <1>1. Extends(expressions, expressions')
    BY StateFacts DEF Extends
  <1>2. ASSUME NEW n \in 1..Len(expressions')
        PROVE  /\ \A k \in 1..Len(expressions'[n].args) : expressions'[n].args[k] \in 1..n - 1
               /\ NodeOK(tokens', expressions', cursor', operands', expressions'[n])
    <2>1. /\ expressions[n] \in Nodes /\ expressions \in Seq(Nodes) /\ cursor \in Nat
          /\ \A k \in 1..Len(expressions[n].args) : expressions[n].args[k] \in 1..n - 1
          /\ NodeOK(tokens, expressions, cursor, operands, expressions[n])
      BY StateFacts
    <2>2. \A k \in 1..Len(expressions[n].args) : expressions[n].args[k] \in 1..Len(expressions)
      BY <2>1, StateFacts
    <2> QED
      BY <1>1, <2>1, <2>2, NodeMonotone
  <1>3. cursor' \in Nat \ {0} /\ expressions' \in Seq(Nodes)
    BY StateFacts
  <1> QED
    BY <1>1, <1>2, <1>3 DEF Grows

LEMMA NodeAdded ==
  ASSUME IInv, NEW node \in Nodes, AddExpression(node), tokens' = tokens,
         cursor' \in Nat, cursor <= cursor', operands' = operands, status' = status,
         \A k \in 1..Len(node.args) : node.args[k] \in 1..Len(expressions),
         NodeOK(tokens, expressions, cursor', operands, node)
  PROVE  /\ Grows /\ New \in Nat /\ Len(expressions') = New /\ New \in 1..Len(expressions')
         /\ expressions'[New] = node
  <1>1. /\ expressions' \in Seq(Nodes) /\ Len(expressions') = New /\ expressions'[New] = node
        /\ \A n \in 1..Len(expressions) : expressions'[n] = expressions[n]
    BY StateFacts, AppendFacts DEF AddExpression, New
  <1>2. New \in Nat /\ New \in 1..New /\ New = Len(expressions) + 1 /\ Len(expressions) \in Nat
    BY StateFacts DEF New
  <1>3. hints' \in [1..Len(expressions') -> Nat]
    <2>1. hints \in Seq(Nat) /\ Len(hints) = Len(expressions)
      BY <1>2, StateFacts
    <2>2. hints' \in Seq(Nat) /\ Len(hints') = Len(expressions')
      BY <1>1, <1>2, <2>1, AppendFacts DEF AddExpression
    <2> QED
      BY <2>2
  <1> HIDE DEF New
  <1>4. Extends(expressions, expressions')
    BY <1>1, <1>2 DEF Extends
  <1>5. ASSUME NEW n \in 1..Len(expressions')
        PROVE  /\ \A k \in 1..Len(expressions'[n].args) : expressions'[n].args[k] \in 1..n - 1
               /\ NodeOK(tokens', expressions', cursor', operands', expressions'[n])
    <2>0. expressions \in Seq(Nodes) /\ cursor \in Nat
      BY StateFacts
    <2>1. CASE n \in 1..Len(expressions)
      <3>1. /\ expressions[n] \in Nodes /\ expressions'[n] = expressions[n]
            /\ \A k \in 1..Len(expressions[n].args) : expressions[n].args[k] \in 1..n - 1
            /\ NodeOK(tokens, expressions, cursor, operands, expressions[n])
        BY <1>1, <2>1, StateFacts
      <3>2. \A k \in 1..Len(expressions[n].args) : expressions[n].args[k] \in 1..Len(expressions)
        BY <1>2, <2>1, <3>1
      <3> QED
        BY <1>1, <1>4, <2>0, <3>1, <3>2, NodeMonotone
    <2>2. CASE n = New
      <3>1. \A k \in 1..Len(node.args) : node.args[k] \in 1..n - 1
        BY <1>2, <2>2
      <3>2. NodeOK(tokens', expressions', cursor', operands', node)
        BY <1>1, <1>4, <2>0, NodeMonotone
      <3> QED
        BY <1>1, <2>2, <3>1, <3>2
    <2> QED
      BY <1>1, <1>2, <2>1, <2>2
  <1>6. cursor' \in Nat \ {0} /\ status' \in {"run", "done", "none", "error"}
        /\ operands' \subseteq 1..Len(expressions')
    BY <1>1, <1>2, StateFacts
  <1> QED
    BY <1>1, <1>2, <1>3, <1>4, <1>5, <1>6 DEF Grows

-----------------------------------------------------------------------------
(* The operations the actions are made of.                                   *)

LEMMA FloorBehind ==
  ASSUME IInv
  PROVE  Floor(Top) < cursor /\ Low(Top) < cursor
  BY TopFacts DEF FrameOK, Floor

LEMMA FramesSame ==
  ASSUME IInv, Grows, frames' = frames
  PROVE  IInv'
  <1>1. frames' \in Seq(Frames) /\ frames' # <<>>
    BY StateFacts
  <1>2. Nested'
    BY StateFacts DEF Nested, Low, Floor
  <1>3. \A i \in 1..Len(frames') :
          /\ FrameIds(expressions', frames'[i])
          /\ FrameOK(tokens', expressions', cursor', operands', frames'[i])
    BY StateFacts, OldFrame
  <1> QED
    BY <1>1, <1>2, <1>3, FramesKeep

LEMMA ErrorKeeps == ASSUME IInv, Error PROVE IInv'
  <1>1. Grows
    BY StateFacts, NothingAdded DEF Error
  <1> QED
    BY <1>1, FramesSame DEF Error

\* The ids in the arguments of a frame's caller are those of expressions before
\* the cursor.
LEMMA ArgsBehind ==
  ASSUME IInv, NEW args, \A k \in 1..Len(args) : args[k] \in 1..Len(expressions)
  PROVE  \A k \in 1..Len(args) : expressions[args[k]].to \in Nat /\ expressions[args[k]].to < cursor
  <1>1. \A n \in 1..Len(expressions) : expressions[n].to \in Nat /\ expressions[n].to < cursor
    BY StateFacts DEF NodeOK, Nodes
  <1> QED
    BY <1>1

\* An expression that is not binary and ends at, or after, the cursor.
LEMMA OtherNode ==
  ASSUME IInv, NEW kind \in Kinds \ {"binary"}, NEW at \in Nat, NEW from \in Nat, NEW to \in Nat,
         NEW args \in Seq(Nat), \A k \in 1..Len(args) : args[k] \in 1..Len(expressions),
         \A k \in 1..Len(args) : expressions[args[k]].to <= to,
         from <= to, AddExpression(Node(kind, at, from, to, args)), tokens' = tokens,
         cursor' \in Nat, cursor <= cursor', to < cursor', operands' = operands, status' = status
  PROVE  /\ Grows /\ New \in Nat /\ New \in 1..Len(expressions')
         /\ expressions'[New].from = from
  <1> DEFINE node == Node(kind, at, from, to, args)
  <1>1. /\ node.kind = kind /\ node.at = at /\ node.from = from /\ node.to = to /\ node.args = args
        /\ node \in Nodes
    BY DEF Node, Nodes
  <1> HIDE DEF node
  <1>2. NodeOK(tokens, expressions, cursor', operands, node)
    BY <1>1 DEF NodeOK
  <1> QED
    BY <1>1, <1>2, NodeAdded DEF node

LEMMA LeafKeeps ==
  ASSUME IInv, In("base"), NEW kind \in {"literal", "variable", "tag"}, NEW n \in {1, 2}, Leaf(kind, n)
  PROVE  IInv'
  <1>1. cursor \in Nat /\ cursor >= 1 /\ cursor + n - 1 \in Nat /\ cursor <= cursor + n - 1
        /\ cursor' = cursor + n /\ cursor + n - 1 < cursor'
    BY StateFacts DEF Leaf
  <1>2. kind \in Kinds \ {"binary"}
    BY DEF Kinds
  <1>3. /\ Grows /\ New \in Nat /\ New \in 1..Len(expressions') /\ expressions'[New].from = cursor
    <2> DEFINE to == cursor + n - 1
               args == <<>>
    <2>1. args \in Seq(Nat) /\ Len(args) = 0 /\ to \in Nat /\ to < cursor' /\ cursor <= to
      BY <1>1
    <2>2. /\ AddExpression(Node(kind, cursor, cursor, to, args))
          /\ tokens' = tokens /\ operands' = operands /\ status' = status
      BY DEF Leaf
    <2>3. \A k \in 1..Len(args) : args[k] \in 1..Len(expressions) /\ expressions[args[k]].to <= to
      BY <2>1
    <2>4. cursor' \in Nat /\ cursor <= cursor'
      BY <1>1
    <2> HIDE DEF to, args
    <2> QED
      BY <1>1, <1>2, <2>1, <2>2, <2>3, <2>4, OtherNode
  <1>4. expressions'[New].from > Floor(Top)
    BY <1>1, <1>3, FloorBehind, TopFacts
  <1> QED
    BY <1>3, <1>4, OperandTop DEF Leaf

\* The callers of the model are ones the invariant is about.
LEMMA CompleteKeeps ==
  ASSUME IInv, NEW fs, NEW caller \in Callers, caller.kind \in {"unary", "constructor", "call", "array"},
         \A k \in 1..Len(caller.args) : caller.args[k] \in 1..Len(expressions),
         caller.from < cursor \/ caller.from = cursor,
         NEW to \in Nat, cursor <= to, Complete(fs, caller, to),
         \/ fs = frames /\ caller.from > Floor(Top)
         \/ fs = Below /\ Top.caller.kind # "top" /\ caller.from = Top.caller.from
  PROVE  IInv'
  <1>1. /\ caller.kind \in Kinds \ {"binary"} /\ caller.at \in Nat /\ caller.from \in Nat
        /\ caller.args \in Seq(Nat) /\ cursor \in Nat
    BY StateFacts DEF Callers, Kinds
  <1>2. ASSUME NEW k \in 1..Len(caller.args)
        PROVE  expressions[caller.args[k]].to <= to
    <2>1. expressions[caller.args[k]].to \in Nat /\ expressions[caller.args[k]].to < cursor
      BY ArgsBehind
    <2> QED
      BY <1>1, <2>1
  <1>3. /\ AddExpression(Node(caller.kind, caller.at, caller.from, to, caller.args))
        /\ cursor' = to + 1 /\ Operand(fs, New) /\ UNCHANGED <<tokens, status, operands>>
    BY DEF Complete
  <1>4. cursor' \in Nat /\ cursor <= cursor' /\ to < cursor' /\ caller.from <= to
    BY <1>1, <1>3
  <1>5. /\ Grows /\ New \in Nat /\ New \in 1..Len(expressions') /\ expressions'[New].from = caller.from
    BY <1>1, <1>2, <1>3, <1>4, OtherNode
  <1>6. CASE fs = frames /\ caller.from > Floor(Top)
    BY <1>3, <1>5, <1>6, OperandTop
  <1>7. CASE fs = Below /\ Top.caller.kind # "top" /\ caller.from = Top.caller.from
    <2>1. expressions'[New].from >= Top.caller.from /\ expressions'[New].from \in Nat
      BY <1>1, <1>5, <1>7
    <2> QED
      BY <1>3, <1>5, <1>7, <2>1, PopFrame
  <1> QED
    BY <1>6, <1>7

LEMMA EnterKeeps ==
  ASSUME IInv, NEW fs, NEW caller \in Callers, caller.kind # "top",
         \A k \in 1..Len(caller.args) : caller.args[k] \in 1..Len(expressions),
         caller.kind = "unary" => caller.args = <<>>,
         caller.from <= cursor, NEW p \in Nat, cursor < p, Enter(fs, caller, p),
         \/ fs = frames /\ caller.from > Floor(Top) /\ Top.step \in {"base", "postfix"}
         \/ fs = Below /\ caller.kind = Top.caller.kind /\ caller.from = Top.caller.from
  PROVE  IInv'
  <1>1. /\ cursor' = p /\ frames' = Append(fs, NewFrame(caller)) /\ NoExpression
        /\ UNCHANGED <<tokens, status, operands>>
    BY DEF Enter
  <1>2. caller.from \in Nat /\ cursor \in Nat /\ caller.from < cursor' /\ cursor <= cursor'
    BY <1>1, StateFacts DEF Callers
  <1>3. Grows
    BY <1>1, <1>2, StateFacts, NothingAdded DEF NoExpression
  <1>4. expressions' = expressions
    BY <1>1 DEF NoExpression
  <1>5. CASE fs = frames /\ caller.from > Floor(Top) /\ Top.step \in {"base", "postfix"}
    BY <1>1, <1>2, <1>3, <1>4, <1>5, EnterTop
  <1>6. CASE fs = Below /\ caller.kind = Top.caller.kind /\ caller.from = Top.caller.from
    BY <1>1, <1>2, <1>3, <1>4, <1>6, EnterAgain
  <1> QED
    BY <1>5, <1>6

LEMMA ElementKeeps ==
  ASSUME IInv, NEW fs, NEW caller \in Callers, caller.kind \in {"call", "array"},
         \A k \in 1..Len(caller.args) : caller.args[k] \in 1..Len(expressions),
         caller.from <= cursor, NEW p \in Nat, cursor < p, Element(fs, caller, p),
         \/ fs = frames /\ caller.from > Floor(Top) /\ Top.step \in {"base", "postfix"}
         \/ fs = Below /\ caller.kind = Top.caller.kind /\ caller.from = Top.caller.from
  PROVE  IInv'
  <1>1. cursor \in Nat /\ cursor <= p /\ caller.from \in Nat
        /\ caller.kind # "top" /\ caller.kind # "unary"
    BY StateFacts DEF Callers
  <1>2. caller.from < cursor \/ caller.from = cursor
    BY <1>1
  <1>3. CASE Complete(fs, caller, p)
    BY <1>1, <1>2, <1>3, CompleteKeeps
  <1>4. CASE Enter(fs, caller, p)
    BY <1>1, <1>4, EnterKeeps
  <1> QED
    BY <1>3, <1>4 DEF Element

\* The operand of a postfix operator is that of the frame.
LEMMA CurrentFacts ==
  ASSUME IInv, Top.step \in {"postfix", "is", "return"}
  PROVE  /\ Top.expr \in 1..Len(expressions) /\ Top.expr \in Nat
         /\ Current.from \in Nat /\ Current.to \in Nat /\ Current.from <= Current.to /\ Current.to < cursor
         /\ Current.from > Floor(Top) /\ cursor \in Nat
         /\ <<Top.expr>> \in Seq(Nat) /\ Len(<<Top.expr>>) = 1
         /\ \A k \in 1..Len(<<Top.expr>>) : <<Top.expr>>[k] = Top.expr
  <1>1. Top.expr \in 1..Len(expressions) /\ Top.expr \in Nat /\ Current.from > Floor(Top)
    BY TopFacts DEF FrameOK, Current
  <1>2. expressions[Top.expr] \in Nodes /\ NodeOK(tokens, expressions, cursor, operands, expressions[Top.expr])
        /\ cursor \in Nat
    BY <1>1, StateFacts
  <1> QED
    BY <1>1, <1>2 DEF Current, Nodes, NodeOK

LEMMA ApplyKeeps ==
  ASSUME IInv, Top.step = "postfix", NEW kind \in {"get", "cast", "field"}, NEW to \in Nat, cursor <= to,
         NEW end \in Nat, Current.to <= end, end <= to, Apply(kind, to, end)
  PROVE  IInv'
  <1> DEFINE args == <<Top.expr>>
  <1>1. /\ AddExpression(Node(kind, cursor, Current.from, end, args))
        /\ cursor' = to + 1 /\ Operand(frames, New) /\ UNCHANGED <<tokens, status, operands>>
    BY DEF Apply, Postfix
  <1>2. kind \in Kinds \ {"binary"}
    BY DEF Kinds
  <1>3. /\ args \in Seq(Nat) /\ Current.from \in Nat /\ cursor \in Nat
        /\ \A k \in 1..Len(args) : args[k] \in 1..Len(expressions) /\ expressions[args[k]].to <= end
        /\ Current.from <= end /\ Current.from > Floor(Top)
    <2>1. Current = expressions[Top.expr]
      BY DEF Current
    <2> QED
      BY <2>1, CurrentFacts
  <1>4. cursor' \in Nat /\ cursor <= cursor' /\ end < cursor'
    BY <1>1, <1>3
  <1> HIDE DEF args
  <1>5. Grows /\ New \in Nat /\ New \in 1..Len(expressions') /\ expressions'[New].from = Current.from
    BY <1>1, <1>2, <1>3, <1>4, OtherNode
  <1> QED
    BY <1>1, <1>3, <1>5, OperandTop

-----------------------------------------------------------------------------
(* Types and patterns end behind where they start.                           *)

LEMMA TypeArgsEndsBehind ==
  ASSUME NEW p \in Nat
  PROVE  \A q \in TypeArgsEnds(p) : q \in Nat /\ q >= p
  BY DEF TypeArgsEnds

LEMMA TypeEndsBehind ==
  ASSUME NEW p \in Nat
  PROVE  \A q \in TypeEnds(p) : q \in Nat /\ q > p
  <1>1. \A q \in TypeArgsEnds(p + 1) : q \in Nat /\ q >= p + 1
    BY TypeArgsEndsBehind
  <1>2. ASSUME NEW q \in Nat PROVE \A r \in Postfixed(q) : r \in Nat /\ r >= q
    BY DEF Postfixed
  <1>3. ASSUME NEW q \in TypeArgsEnds(p + 1), NEW r \in Postfixed(q) PROVE r \in Nat /\ r > p
    BY <1>1, <1>2
  <1> QED
    BY <1>3 DEF TypeEnds, NamedType

LEMMA PatternEndsBehind ==
  ASSUME NEW p \in Nat
  PROVE  \A q \in PatternEnds(p) : q \in Nat /\ q > p
  BY DEF PatternEnds

-----------------------------------------------------------------------------
(* parse_base_expression.                                                    *)

LEMMA NoArguments ==
  <<>> \in Seq(Nat) /\ \A k \in 1..Len(<<>>) : FALSE
  OBVIOUS

\* A caller that has no operand yet, at a token from which no operand has been read.
LEMMA CallerFacts ==
  ASSUME IInv, NEW kind \in {"paren", "unary", "constructor", "call", "array"}, NEW at \in Nat
  PROVE  /\ Caller(kind, at, cursor, <<>>) \in Callers
         /\ Caller(kind, at, cursor, <<>>).kind = kind
         /\ Caller(kind, at, cursor, <<>>).from = cursor
         /\ Caller(kind, at, cursor, <<>>).args = <<>>
         /\ cursor > Floor(Top) /\ cursor \in Nat
  <1>1. cursor > Floor(Top) /\ cursor \in Nat
    BY FloorBehind, StateFacts, TopFacts
  <1> QED
    BY <1>1, NoArguments DEF Caller, Callers

LEMMA EnterHere ==
  ASSUME IInv, Top.step = "base", NEW kind \in {"paren", "unary", "constructor"}, NEW at \in Nat,
         NEW p \in Nat, cursor < p, Enter(frames, Caller(kind, at, cursor, <<>>), p)
  PROVE  IInv'
  <1> DEFINE caller == Caller(kind, at, cursor, <<>>)
  <1>1. /\ caller \in Callers /\ caller.kind # "top" /\ caller.from <= cursor /\ caller.args = <<>>
        /\ caller.from > Floor(Top)
    BY CallerFacts
  <1>2. \A k \in 1..Len(caller.args) : caller.args[k] \in 1..Len(expressions)
    BY <1>1, NoArguments
  <1> HIDE DEF caller
  <1>3. Enter(frames, caller, p)
    BY DEF caller
  <1> QED
    BY <1>1, <1>2, <1>3, EnterKeeps

LEMMA ElementHere ==
  ASSUME IInv, Top.step = "base", NEW kind \in {"call", "array"},
         NEW p \in Nat, cursor < p, Element(frames, Caller(kind, cursor, cursor, <<>>), p)
  PROVE  IInv'
  <1> DEFINE caller == Caller(kind, cursor, cursor, <<>>)
  <1>1. /\ caller \in Callers /\ caller.kind \in {"call", "array"} /\ caller.from <= cursor
        /\ caller.args = <<>> /\ caller.from > Floor(Top)
    BY CallerFacts, StateFacts
  <1>2. \A k \in 1..Len(caller.args) : caller.args[k] \in 1..Len(expressions)
    BY <1>1, NoArguments
  <1> HIDE DEF caller
  <1>3. Element(frames, caller, p)
    BY DEF caller
  <1> QED
    BY <1>1, <1>2, <1>3, ElementKeeps

LEMMA LiteralKeeps == ASSUME IInv, Literal PROVE IInv'
  BY LeafKeeps DEF Literal

LEMMA VariableKeeps == ASSUME IInv, Variable PROVE IInv'
  BY LeafKeeps DEF Variable

LEMMA CallKeeps == ASSUME IInv, Call PROVE IInv'
  <1>1. Top.step = "base" /\ cursor \in Nat
    BY StateFacts DEF Call, In
  <1>2. CASE Error
    BY <1>2, ErrorKeeps
  <1>3. ASSUME NEW q \in TypeArgsEnds(cursor + 1),
               Element(frames, Caller("call", cursor, cursor, <<>>), q + 1)
        PROVE  IInv'
    <2>1. cursor + 1 \in Nat
      BY <1>1
    <2>2. q \in Nat /\ q >= cursor + 1
      BY <2>1, TypeArgsEndsBehind
    <2>3. q + 1 \in Nat /\ cursor < q + 1
      BY <1>1, <2>2
    <2> QED
      BY <1>1, <1>3, <2>3, ElementHere
  <1> QED
    BY <1>2, <1>3 DEF Call

LEMMA ParenKeeps == ASSUME IInv, Paren PROVE IInv'
  <1>1. Top.step = "base" /\ cursor \in Nat /\ cursor + 1 \in Nat /\ cursor < cursor + 1
    BY StateFacts DEF Paren, In
  <1> QED
    BY <1>1, EnterHere DEF Paren

LEMMA PrefixKeeps == ASSUME IInv, Prefix PROVE IInv'
  <1>1. Top.step = "base" /\ cursor \in Nat /\ cursor + 1 \in Nat /\ cursor < cursor + 1
    BY StateFacts DEF Prefix, In
  <1> QED
    BY <1>1, EnterHere DEF Prefix

LEMMA TagKeeps == ASSUME IInv, Tag PROVE IInv'
  <1>1. /\ Top.step = "base" /\ cursor \in Nat /\ cursor + 1 \in Nat /\ cursor + 3 \in Nat
        /\ cursor < cursor + 3
    BY StateFacts DEF Tag, In
  <1>2. CASE Error
    BY <1>2, ErrorKeeps
  <1>3. CASE Enter(frames, Caller("constructor", cursor + 1, cursor, <<>>), cursor + 3)
    BY <1>1, <1>3, EnterHere
  <1>4. CASE Leaf("tag", 2)
    BY <1>4, LeafKeeps DEF Tag
  <1> QED
    BY <1>2, <1>3, <1>4 DEF Tag

LEMMA ArrayKeeps == ASSUME IInv, Array PROVE IInv'
  <1>1. Top.step = "base" /\ cursor \in Nat /\ cursor + 1 \in Nat /\ cursor < cursor + 1
    BY StateFacts DEF Array, In
  <1> QED
    BY <1>1, ElementHere DEF Array

LEMMA StatusKeeps ==
  ASSUME IInv, status' \in {"run", "done", "none", "error"},
         UNCHANGED <<tokens, cursor, expressions, hints, frames, operands>>
  PROVE  IInv'
  <1>1. Grows
    BY StateFacts, NothingAdded
  <1> QED
    BY <1>1, FramesSame

LEMMA NoBaseKeeps == ASSUME IInv, NoBase PROVE IInv'
  BY StatusKeeps, ErrorKeeps DEF NoBase

-----------------------------------------------------------------------------
(* parse_expression_with_postfix_ops.                                        *)

LEMMA UnwrapKeeps == ASSUME IInv, Unwrap PROVE IInv'
  <1>1. Top.step = "postfix"
    BY DEF Unwrap, In
  <1>2. Current.to \in Nat /\ Current.to <= cursor /\ cursor \in Nat /\ cursor <= cursor
    BY <1>1, CurrentFacts
  <1> QED
    BY <1>1, <1>2, ApplyKeeps DEF Unwrap

LEMMA CastKeeps == ASSUME IInv, Cast PROVE IInv'
  <1>1. Top.step = "postfix"
    BY DEF Cast, In
  <1>2. Current.to \in Nat /\ Current.to < cursor /\ cursor \in Nat /\ cursor + 1 \in Nat
    BY <1>1, CurrentFacts
  <1>3. CASE Error
    BY <1>3, ErrorKeeps
  <1>4. ASSUME NEW q \in TypeEnds(cursor + 1), Apply("cast", q - 1, q - 1)
        PROVE  IInv'
    <2>1. q \in Nat /\ q > cursor + 1
      BY <1>2, TypeEndsBehind
    <2>2. q - 1 \in Nat /\ cursor <= q - 1 /\ Current.to <= q - 1 /\ q - 1 <= q - 1
      BY <1>2, <2>1
    <2> QED
      BY <1>1, <1>4, <2>2, ApplyKeeps
  <1> QED
    BY <1>3, <1>4 DEF Cast

LEMMA MemberKeeps == ASSUME IInv, Member PROVE IInv'
  <1>1. Top.step = "postfix"
    BY DEF Member, In
  <1>2. Current.to \in Nat /\ Current.to < cursor /\ cursor \in Nat /\ cursor + 2 \in Nat
    BY <1>1, CurrentFacts
  <1>3. CASE Error
    BY <1>3, ErrorKeeps
  <1>4. ASSUME NEW q \in TypeArgsEnds(cursor + 2)
        PROVE  q \in Nat /\ q >= cursor + 2
    BY <1>2, TypeArgsEndsBehind
  <1>5. ASSUME NEW q \in TypeArgsEnds(cursor + 2),
               Element(frames, Caller("call", cursor, Current.from, <<Top.expr>>), q + 1)
        PROVE  IInv'
    <2> DEFINE caller == Caller("call", cursor, Current.from, <<Top.expr>>)
    <2>1. /\ caller \in Callers /\ caller.kind = "call" /\ caller.from = Current.from
          /\ caller.args = <<Top.expr>>
      BY <1>1, CurrentFacts DEF Caller, Callers
    <2>2. /\ \A k \in 1..Len(caller.args) : caller.args[k] \in 1..Len(expressions)
          /\ caller.from <= cursor /\ caller.from > Floor(Top)
      BY <1>1, <2>1, CurrentFacts
    <2>3. q + 1 \in Nat /\ cursor < q + 1
      BY <1>2, <1>4
    <2>4. Element(frames, caller, q + 1)
      BY <1>5
    <2> HIDE DEF caller
    <2> QED
      BY <1>1, <2>1, <2>2, <2>3, <2>4, ElementKeeps
  <1>6. ASSUME NEW q \in TypeArgsEnds(cursor + 2),
               Apply("field", q - 1, IF q = cursor + 2 THEN Current.to ELSE q - 1)
        PROVE  IInv'
    <2> DEFINE end == IF q = cursor + 2 THEN Current.to ELSE q - 1
    <2>1. q - 1 \in Nat /\ cursor <= q - 1 /\ end \in Nat /\ Current.to <= end /\ end <= q - 1
      BY <1>2, <1>4
    <2> HIDE DEF end
    <2> QED
      BY <1>1, <1>6, <2>1, ApplyKeeps DEF end
  <1> QED
    BY <1>3, <1>5, <1>6 DEF Member

\* A frame with the stack of another.
LEMMA SameMembers ==
  ASSUME NEW t, NEW ex, NEW c, NEW ops, NEW f, NEW g, FrameOK(t, ex, c, ops, f), FrameIds(ex, f),
         g.caller = f.caller, g.members = f.members, g.last = f.last
  PROVE  /\ StackOK(t, ex, ops, g) /\ Low(g) = Low(f) /\ Low(g) < c
         /\ g.caller.kind = "unary" => g.caller.args = <<>>
         /\ g.expr \in 1..Len(ex) \/ (g.expr = 0 /\ g.step = "base") => FrameIds(ex, g)
  BY SameStack DEF FrameOK, FrameIds, Low

\* A complete operand is left to the next step.
LEMMA OperandKept ==
  ASSUME NEW t, NEW ex, NEW c, NEW ops, NEW f, NEW g, FrameOK(t, ex, c, ops, f), FrameIds(ex, f),
         g.caller = f.caller, g.members = f.members, g.last = f.last, g.expr = f.expr, g.op = f.op,
         f.step = "postfix", f.expr \in ops, Floor(g) = Floor(f),
         (g.step = "reduce" /\ f.op # 0) \/ (g.step = "is" /\ f.op = 0)
  PROVE  FrameIds(ex, g) /\ FrameOK(t, ex, c, ops, g)
  <1>1. /\ f.expr \in 1..Len(ex) /\ ex[f.expr].from > Floor(f)
        /\ f.op # 0 => f.op < c /\ OperatorOK(t, ex, ops, f.members, f.op, Len(f.members) + 1)
        /\ f.op # 0 => Len(f.members) % 2 = 1
    BY DEF FrameOK
  <1>2. /\ StackOK(t, ex, ops, g) /\ Low(g) < c /\ FrameIds(ex, g)
        /\ g.caller.kind = "unary" => g.caller.args = <<>>
    BY <1>1, SameMembers
  <1> QED
    BY <1>1, <1>2 DEF FrameOK

\* The first operand of expr_stack.
LEMMA FirstOperand ==
  ASSUME NEW t, NEW ex, NEW ops, NEW g, NEW id, g.members = <<Expr(id)>>, id \in 1..Len(ex), ex[id].from > Low(g)
  PROVE  StackOK(t, ex, ops, g)
  <1>1. Len(g.members) = 1 /\ g.members[1].kind = "expr" /\ g.members[1].is = id
    BY DEF Expr
  <1>2. \A k \in 1..Len(g.members) : k = 1
    BY <1>1
  <1>3. OperandOK(t, ex, ops, g, 1)
    BY <1>1 DEF OperandOK
  <1>4. 1 % 2 = 1
    OBVIOUS
  <1> QED
    BY <1>1, <1>2, <1>3, <1>4 DEF StackOK, StackAt

\* The operand has ended, where the next token is read or after a type hint.
LEMMA OperandEnds ==
  ASSUME IInv, Grows, Top.step = "postfix", expressions' = expressions, operands' = operands \cup {Top.expr},
         \/ Top.op # 0 /\ Go("reduce")
         \/ Top.op = 0 /\ frames' = WithTop([Top EXCEPT !.step = "operator", !.members = <<Expr(Top.expr)>>])
         \/ Top.op = 0 /\ Go("is")
  PROVE  IInv'
  <1>1. /\ Top \in Frames /\ FrameIds(expressions', Top)
        /\ FrameOK(tokens', expressions', cursor', operands', Top)
    BY TopFacts, OldFrame
  <1>2. Top.expr \in 1..Len(expressions') /\ expressions'[Top.expr].from > Floor(Top) /\ Top.expr \in operands'
    BY <1>1 DEF FrameOK
  <1>3. CASE Top.op # 0 /\ Go("reduce")
    <2> DEFINE g == [Top EXCEPT !.step = "reduce"]
    <2>1. /\ g.caller = Top.caller /\ g.members = Top.members /\ g.last = Top.last
          /\ g.expr = Top.expr /\ g.op = Top.op /\ g.step = "reduce" /\ g \in Frames
      BY <1>1 DEF Frames, Steps
    <2>2. frames' = WithTop(g)
      BY <1>3 DEF Go
    <2> HIDE DEF g
    <2>3. Floor(g) = Floor(Top)
      BY <1>3, <2>1 DEF Floor
    <2>4. FrameIds(expressions', g) /\ FrameOK(tokens', expressions', cursor', operands', g)
      BY <1>1, <1>2, <1>3, <2>1, <2>3, OperandKept
    <2> QED
      BY <2>1, <2>2, <2>4, ReplaceTop
  <1>4. CASE Top.op = 0 /\ Go("is")
    <2> DEFINE g == [Top EXCEPT !.step = "is"]
    <2>1. /\ g.caller = Top.caller /\ g.members = Top.members /\ g.last = Top.last
          /\ g.expr = Top.expr /\ g.op = Top.op /\ g.step = "is" /\ g \in Frames
      BY <1>1 DEF Frames, Steps
    <2>2. frames' = WithTop(g)
      BY <1>4 DEF Go
    <2> HIDE DEF g
    <2>3. Floor(g) = Floor(Top)
      BY <1>4, <2>1 DEF Floor, Low
    <2>4. FrameIds(expressions', g) /\ FrameOK(tokens', expressions', cursor', operands', g)
      BY <1>1, <1>2, <1>4, <2>1, <2>3, OperandKept
    <2> QED
      BY <2>1, <2>2, <2>4, ReplaceTop
  <1>5. CASE Top.op = 0 /\ frames' = WithTop([Top EXCEPT !.step = "operator", !.members = <<Expr(Top.expr)>>])
    <2> DEFINE g == [Top EXCEPT !.step = "operator", !.members = <<Expr(Top.expr)>>]
    <2>1. /\ g.caller = Top.caller /\ g.members = <<Expr(Top.expr)>> /\ g.last = Top.last
          /\ g.expr = Top.expr /\ g.op = 0 /\ g.step = "operator" /\ Top.expr \in Nat
      BY <1>1, <1>5 DEF Frames
    <2>2. g \in Frames
      <3>1. <<Expr(Top.expr)>> \in Seq([kind : {"expr", "operator"}, is : Nat])
        BY <2>1 DEF Expr
      <3> QED
        BY <1>1, <3>1 DEF Frames, Steps
    <2>3. frames' = WithTop(g)
      BY <1>5
    <2> HIDE DEF g
    <2>4. Low(g) = Low(Top) /\ Floor(Top) = Low(Top)
      BY <1>5, <2>1 DEF Low, Floor
    <2>5. StackOK(tokens', expressions', operands', g)
      BY <1>2, <2>1, <2>4, FirstOperand
    <2>6. /\ Len(g.members) = 1 /\ g.members[1].is = Top.expr /\ g.members[1].kind = "expr" /\ 1 % 2 = 1
          /\ \A k \in 1..Len(g.members) : k = 1
      BY <2>1 DEF Expr
    <2>7. FrameIds(expressions', g)
      BY <1>1, <1>2, <2>1, <2>6 DEF FrameIds
    <2>8. FrameOK(tokens', expressions', cursor', operands', g)
      BY <1>1, <1>2, <2>1, <2>4, <2>5, <2>6 DEF FrameOK
    <2> QED
      BY <2>1, <2>2, <2>3, <2>7, <2>8, ReplaceTop
  <1> QED
    BY <1>3, <1>4, <1>5

LEMMA EndOperandKeeps == ASSUME IInv, EndOperand PROVE IInv'
  <1>1. Top.step = "postfix"
    BY DEF EndOperand, In
  <1>2. Top.expr \in 1..Len(expressions) /\ cursor \in Nat /\ cursor + 1 \in Nat
    BY <1>1, CurrentFacts
  <1> DEFINE hinted == Peek = ":"
  <1>3. CASE Error
    BY <1>3, ErrorKeeps
  <1>4. ASSUME NEW next \in IF hinted THEN TypeEnds(cursor + 1) ELSE {cursor},
               cursor' = next,
               hints' = IF hinted THEN [hints EXCEPT ![Top.expr] = cursor + 1] ELSE hints,
               operands' = operands \cup {Top.expr},
               IF Top.op # 0 THEN Go("reduce")
               ELSE IF Tok(next) \in BinaryOperators
               THEN frames' = WithTop([Top EXCEPT !.step = "operator", !.members = <<Expr(Top.expr)>>])
               ELSE Go("is"),
               UNCHANGED <<tokens, expressions, status>>
        PROVE  IInv'
    <2>1. next \in Nat /\ cursor <= next
      <3>1. \A q \in TypeEnds(cursor + 1) : q \in Nat /\ q > cursor + 1
        BY <1>2, TypeEndsBehind
      <3> QED
        BY <1>2, <3>1
    <2>2. hints' \in [1..Len(expressions) -> Nat]
      BY <1>2, <1>4, StateFacts
    <2>3. Grows
      BY <1>2, <1>4, <2>1, <2>2, StateFacts, NothingAdded
    <2> QED
      BY <1>1, <1>4, <2>3, OperandEnds
  <1> QED
    BY <1>3, <1>4 DEF EndOperand

-----------------------------------------------------------------------------
(* parse_expression.                                                         *)

LEMMA NextOperatorKeeps == ASSUME IInv, NextOperator PROVE IInv'
  <1> DEFINE g == [Top EXCEPT !.op = cursor, !.step = "base"]
             m == Top.members
  <1>1. /\ Top.step = "operator" /\ Peek \in BinaryOperators /\ cursor' = cursor + 1 /\ frames' = WithTop(g)
        /\ UNCHANGED <<tokens, expressions, hints, status, operands>> /\ cursor \in Nat /\ cursor >= 1
    BY StateFacts DEF NextOperator, In
  <1>2. Grows
    BY <1>1, StateFacts, NothingAdded
  <1>3. /\ Top \in Frames /\ FrameIds(expressions', Top) /\ FrameOK(tokens', expressions', cursor', operands', Top)
        /\ FrameOK(tokens, expressions, cursor, operands, Top)
    BY <1>2, TopFacts, OldFrame
  <1>4. /\ g.caller = Top.caller /\ g.members = m /\ g.last = Top.last /\ g.expr = Top.expr
        /\ g.op = cursor /\ g.step = "base" /\ g \in Frames /\ Len(m) \in Nat
    <2>1. /\ g.caller = Top.caller /\ g.members = Top.members /\ g.last = Top.last /\ g.expr = Top.expr
          /\ g.op = cursor /\ g.step = "base"
      BY <1>3 DEF Frames
    <2>2. g \in Frames
      BY <1>1, <1>3 DEF Frames, Steps
    <2> QED
      BY <2>1, <2>2, TopFacts DEF Height
  <1> HIDE DEF g
  <1>5. Len(m) % 2 = 1 /\ m[Len(m)].is \in operands
    BY <1>1, <1>3 DEF FrameOK
  <1>6. Len(m) \in 1..Len(m) /\ (Len(m) + 1) - 1 = Len(m)
    BY <1>4, <1>5, OddPositive
  <1>7. m[Len(m)].is \in 1..Len(expressions)
    BY <1>3, <1>5, <1>6 DEF FrameOK, StackOK, StackAt, OperandOK
  <1>8. cursor > expressions[m[Len(m)].is].to
    BY <1>1, <1>7, StateFacts DEF NodeOK, Nodes
  <1>9. OperatorOK(tokens', expressions', operands', m, cursor, Len(m) + 1)
    BY <1>1, <1>5, <1>6, <1>8 DEF OperatorOK, Bracketed, TokenAt, Peek, Tok
  <1>10. FrameIds(expressions', g) /\ FrameOK(tokens', expressions', cursor', operands', g)
    <2>1. FrameIds(expressions', g)
      BY <1>3, <1>4 DEF FrameIds
    <2>2. cursor < cursor' /\ cursor # 0
      BY <1>1
    <2>3. /\ StackOK(tokens', expressions', operands', g) /\ Low(g) < cursor'
          /\ g.caller.kind = "unary" => g.caller.args = <<>>
      BY <1>3, <1>4, SameMembers
    <2> QED
      BY <1>4, <1>5, <1>9, <2>1, <2>2, <2>3 DEF FrameOK
  <1> QED
    BY <1>1, <1>2, <1>4, <1>10, ReplaceTop

LEMMA EndOperatorsKeeps == ASSUME IInv, EndOperators PROVE IInv'
  <1> DEFINE g == [Top EXCEPT !.step = "fold"]
  <1>1. /\ Top.step = "operator" /\ frames' = WithTop(g) /\ cursor \in Nat
        /\ UNCHANGED <<tokens, cursor, expressions, hints, status, operands>>
    BY StateFacts DEF EndOperators, In, Go
  <1>2. Grows
    BY <1>1, StateFacts, NothingAdded
  <1>3. /\ Top \in Frames /\ FrameIds(expressions', Top) /\ FrameOK(tokens', expressions', cursor', operands', Top)
    BY <1>2, TopFacts, OldFrame
  <1>4. /\ g.caller = Top.caller /\ g.members = Top.members /\ g.last = Top.last /\ g.expr = Top.expr
        /\ g.op = Top.op /\ g.step = "fold" /\ g \in Frames
    BY <1>3 DEF Frames, Steps
  <1> HIDE DEF g
  <1>5. FrameIds(expressions', g) /\ FrameOK(tokens', expressions', cursor', operands', g)
    <2>1. FrameIds(expressions', g)
      BY <1>1, <1>3, <1>4 DEF FrameIds
    <2> QED
      BY <1>1, <1>3, <1>4, <2>1, SameMembers DEF FrameOK
  <1> QED
    BY <1>1, <1>2, <1>4, <1>5, ReplaceTop

\* The part of a stack that two frames have in common.
LEMMA CommonStack ==
  ASSUME NEW t, NEW ex, NEW ops, NEW f, NEW g, NEW n \in Nat, n <= Len(f.members), StackOK(t, ex, ops, f),
         Len(f.members) \in Nat, Low(g) = Low(f), \A i \in 1..n : g.members[i] = f.members[i]
  PROVE  \A k \in 1..n : StackAt(t, ex, ops, g, k)
  <1> SUFFICES ASSUME NEW k \in 1..n
               PROVE  StackAt(t, ex, ops, g, k)
    OBVIOUS
  <1>1. StackAt(t, ex, ops, f, k)
    BY DEF StackOK
  <1>2. g.members[k] = f.members[k]
    OBVIOUS
  <1>3. ASSUME k % 2 = 1
        PROVE  OperandOK(t, ex, ops, g, k)
    <2>1. k = 1 \/ (k > 1 /\ g.members[k - 1] = f.members[k - 1])
      OBVIOUS
    <2> QED
      BY <1>1, <1>2, <1>3, <2>1 DEF StackAt, OperandOK
  <1>4. ASSUME k % 2 = 0
        PROVE  /\ g.members[k].kind = "operator"
               /\ OperatorOK(t, ex, ops, g.members, g.members[k].is, k)
               /\ k > 2 => Prec(t, g.members[k - 2].is) < Prec(t, g.members[k].is)
    <2>1. g.members[k - 1] = f.members[k - 1]
      <3>1. k - 1 \in 1..n
        BY <1>4, EvenPositive
      <3> QED
        BY <3>1
    <2>2. k > 2 => g.members[k - 2] = f.members[k - 2]
      OBVIOUS
    <2> QED
      BY <1>1, <1>2, <1>4, <2>1, <2>2 DEF StackAt, OperatorOK
  <1> QED
    BY <1>3, <1>4 DEF StackAt

LEMMA ThreeOrMore ==
  ASSUME NEW h \in Nat, h > 1, h % 2 = 1
  PROVE  /\ h \in 1..h /\ h - 1 \in 1..h /\ h - 2 \in 1..h /\ h - 3 \in Nat /\ h - 2 >= 1
         /\ (h - 1) % 2 = 0 /\ (h - 2) % 2 = 1
         /\ (h - 1) - 1 = h - 2 /\ (h - 1) - 2 = h - 3 /\ (h - 2) - 1 = h - 3 /\ (h - 3) + 1 = h - 2
         /\ (h - 2) + 1 = h - 1 /\ (h + 1) - 1 = h
         /\ h - 2 = 1 \/ h - 3 \in 1..h
         /\ h - 2 > 1 => h - 1 > 2
  <1>1. h # 2
    OBVIOUS
  <1>2. h - 2 \in Nat /\ (h - 2) + 2 = h /\ (h - 2) + 1 = h - 1
    BY <1>1
  <1>3. (h - 2) % 2 = 1 /\ (h - 1) % 2 = 0
    BY <1>2, Parity
  <1> QED
    BY <1>1, <1>2, <1>3

\* An operator and its operands, the last of expr_stack, become one operand.
LEMMA StackCombined ==
  ASSUME NEW t, NEW S, NEW ex \in Seq(S), NEW ops, NEW f, NEW g, NEW id, NEW e, NEW h \in Nat,
         h > 1, h % 2 = 1, Len(f.members) = h, Len(g.members) = h - 2,
         StackOK(t, ex, ops, f), Low(g) = Low(f), id \in 1..Len(ex), ex[id] = e,
         \A i \in 1..h - 3 : g.members[i] = f.members[i], g.members[h - 2] = Expr(id),
         e.at = f.members[h - 1].is, e.from = ex[f.members[h - 2].is].from,
         g.last \in Nat, Prec(t, e.at) <= g.last
  PROVE  StackOK(t, ex, ops, g)
  <1> DEFINE m == f.members
  <1>1. /\ h \in 1..h /\ h - 1 \in 1..h /\ h - 2 \in 1..h /\ h - 3 \in Nat /\ h - 2 >= 1
        /\ (h - 1) % 2 = 0 /\ (h - 2) % 2 = 1
        /\ (h - 1) - 1 = h - 2 /\ (h - 1) - 2 = h - 3 /\ (h - 2) - 1 = h - 3 /\ (h - 3) + 1 = h - 2
        /\ h - 2 = 1 \/ h - 3 \in 1..h
        /\ h - 2 > 1 => h - 1 > 2
    BY ThreeOrMore
  <1>2. StackAt(t, ex, ops, f, h - 1) /\ StackAt(t, ex, ops, f, h - 2)
    BY <1>1 DEF StackOK
  <1>3. \A k \in 1..h - 3 : StackAt(t, ex, ops, g, k)
    <2>1. h - 3 <= h
      OBVIOUS
    <2> QED
      BY <1>1, <2>1, CommonStack
  <1>4. OperandOK(t, ex, ops, f, h - 2)
    BY <1>1, <1>2 DEF StackAt
  <1>5. h - 2 > 1 => /\ g.members[h - 3] = m[h - 3]
                     /\ Prec(t, m[h - 3].is) < Prec(t, m[h - 1].is)
                     /\ Prec(t, m[h - 3].is) \in Nat /\ Prec(t, m[h - 1].is) \in Nat
    <2> SUFFICES ASSUME h - 2 > 1
                 PROVE  /\ g.members[h - 3] = m[h - 3]
                        /\ Prec(t, m[h - 3].is) < Prec(t, m[h - 1].is)
                        /\ Prec(t, m[h - 3].is) \in Nat /\ Prec(t, m[h - 1].is) \in Nat
      OBVIOUS
    <2>1. h - 3 \in 1..h - 3 /\ h - 3 \in 1..h /\ h - 1 > 2
      OBVIOUS
    <2>2. Prec(t, m[h - 3].is) < Prec(t, m[h - 1].is)
      BY <1>1, <1>2, <2>1 DEF StackAt
    <2>3. (h - 3) % 2 = 0
      <3>1. (h - 3) + 2 = h - 1 /\ h - 3 \in Nat
        BY <1>1
      <3> QED
        BY <1>1, <3>1, Parity
    <2>4. StackAt(t, ex, ops, f, h - 3)
      BY <2>1 DEF StackOK
    <2>5. Prec(t, m[h - 3].is) \in Nat
      BY <2>3, <2>4, PrecIsNat DEF StackAt, OperatorOK
    <2>6. Prec(t, m[h - 1].is) \in Nat
      BY <1>1, <1>2, PrecIsNat DEF StackAt, OperatorOK
    <2> QED
      BY <2>1, <2>2, <2>5, <2>6
  <1>6. StackAt(t, ex, ops, g, h - 2)
    <2>1. g.members[h - 2].kind = "expr" /\ g.members[h - 2].is = id
      BY DEF Expr
    <2>2. h - 2 = 1 => e.from > Low(g)
      BY <1>4 DEF OperandOK
    <2>3. h - 2 > 1 => e.from > g.members[h - 3].is /\ Prec(t, e.at) > Prec(t, g.members[h - 3].is)
      BY <1>1, <1>4, <1>5 DEF OperandOK
    <2>4. OperandOK(t, ex, ops, g, h - 2)
      BY <1>1, <2>1, <2>2, <2>3 DEF OperandOK
    <2> QED
      BY <1>1, <2>4 DEF StackAt
  <1>7. \A k \in 1..h - 2 : k \in 1..h - 3 \/ k = h - 2
    BY <1>1
  <1>8. h - 2 > 1 => Prec(t, g.members[(h - 2) - 1].is) <= g.last
    BY <1>1, <1>5
  <1> QED
    BY <1>3, <1>6, <1>7, <1>8 DEF StackOK

\* The stack of the frame on top, when there is an operator on it.
LEMMA TopOfStack ==
  ASSUME IInv, Top.step \in {"reduce", "fold"}, Height > 1
  PROVE  /\ Height \in Nat /\ Height % 2 = 1
         /\ Rhs \in 1..Len(expressions) /\ Lhs \in 1..Len(expressions) /\ StackedOperator \in Nat
         /\ expressions[Lhs].to < StackedOperator /\ StackedOperator < expressions[Rhs].from
         /\ Bracketed(expressions, operands, Lhs) \/
              Prec(tokens, expressions[Lhs].at) >= Prec(tokens, StackedOperator)
         /\ Bracketed(expressions, operands, Rhs) \/
              Prec(tokens, expressions[Rhs].at) > Prec(tokens, StackedOperator)
         /\ Prec(tokens, StackedOperator) \in Nat /\ Prec(tokens, StackedOperator) <= Top.last
  <1> DEFINE m == Top.members
  <1>1. /\ Height \in Nat /\ Height % 2 = 1 /\ StackOK(tokens, expressions, operands, Top)
        /\ m \in Seq([kind : {"expr", "operator"}, is : Nat]) /\ Len(m) = Height
    BY TopFacts DEF FrameOK, Height
  <1>2. /\ Height \in 1..Height /\ Height - 1 \in 1..Height /\ Height - 2 \in 1..Height
        /\ (Height - 1) % 2 = 0 /\ (Height - 2) % 2 = 1 /\ (Height - 1) - 1 = Height - 2
    BY <1>1, ThreeOrMore
  <1>3. /\ Rhs = m[Height].is /\ Lhs = m[Height - 2].is /\ StackedOperator = m[Height - 1].is
    BY DEF Rhs, Lhs, StackedOperator
  <1> HIDE DEF Height, Rhs, Lhs, StackedOperator
  <1>4. /\ StackAt(tokens, expressions, operands, Top, Height)
        /\ StackAt(tokens, expressions, operands, Top, Height - 1)
        /\ StackAt(tokens, expressions, operands, Top, Height - 2)
        /\ Prec(tokens, m[Height - 1].is) <= Top.last
    BY <1>1, <1>2 DEF StackOK
  <1>5. OperandOK(tokens, expressions, operands, Top, Height)
    BY <1>1, <1>4 DEF StackAt
  <1>6. OperatorOK(tokens, expressions, operands, m, m[Height - 1].is, Height - 1)
    BY <1>2, <1>4 DEF StackAt
  <1>7. OperandOK(tokens, expressions, operands, Top, Height - 2)
    BY <1>2, <1>4 DEF StackAt
  <1>8. m[Height - 1] \in [kind : {"expr", "operator"}, is : Nat]
    <2>1. Height - 1 \in 1..Len(m)
      BY <1>1, <1>2
    <2> HIDE DEF m
    <2> QED
      BY <1>1, <2>1, ElementOf
  <1>9. StackedOperator \in Nat
    BY <1>3, <1>8
  <1>10. Rhs \in 1..Len(expressions) /\ Lhs \in 1..Len(expressions)
    BY <1>3, <1>5, <1>7 DEF OperandOK
  <1>11. /\ expressions[Lhs].to < StackedOperator
         /\ Bracketed(expressions, operands, Lhs) \/
              Prec(tokens, expressions[Lhs].at) >= Prec(tokens, StackedOperator)
         /\ TokenAt(tokens, StackedOperator) \in BinaryOperators
    <2>1. expressions[Lhs].to \in Nat
      BY <1>10, StateFacts DEF Nodes
    <2> QED
      BY <1>2, <1>3, <1>6, <1>9, <2>1 DEF OperatorOK
  <1>12. /\ StackedOperator < expressions[Rhs].from
         /\ Bracketed(expressions, operands, Rhs) \/
              Prec(tokens, expressions[Rhs].at) > Prec(tokens, StackedOperator)
    <2>1. expressions[Rhs].from \in Nat
      BY <1>10, StateFacts DEF Nodes
    <2>2. Height > 1
      OBVIOUS
    <2> QED
      BY <1>3, <1>5, <1>9, <2>1, <2>2 DEF OperandOK
  <1>13. Prec(tokens, StackedOperator) \in Nat
    BY <1>11, PrecIsNat
  <1> QED
    BY <1>1, <1>3, <1>4, <1>9, <1>10, <1>11, <1>12, <1>13

LEMMA CombineKeeps ==
  ASSUME IInv, Top.step \in {"reduce", "fold"}, Height > 1, NEW last \in Nat, Combine(last),
         Prec(tokens, StackedOperator) <= last,
         Top.step = "reduce" => Prec(tokens, Top.op) <= Prec(tokens, StackedOperator)
  PROVE  IInv'
  <1> DEFINE node == Node("binary", StackedOperator, expressions[Lhs].from, expressions[Rhs].to, <<Lhs, Rhs>>)
             m == Top.members
             nm == Append(SubSeq(m, 1, Height - 3), Expr(New))
             g == [Top EXCEPT !.last = last, !.members = nm]
             h == Height
  <1>1. /\ h \in Nat /\ h % 2 = 1
        /\ Rhs \in 1..Len(expressions) /\ Lhs \in 1..Len(expressions) /\ StackedOperator \in Nat
        /\ expressions[Lhs].to < StackedOperator /\ StackedOperator < expressions[Rhs].from
        /\ Bracketed(expressions, operands, Lhs) \/
             Prec(tokens, expressions[Lhs].at) >= Prec(tokens, StackedOperator)
        /\ Bracketed(expressions, operands, Rhs) \/
             Prec(tokens, expressions[Rhs].at) > Prec(tokens, StackedOperator)
    BY TopOfStack
  <1>2. /\ AddExpression(node) /\ frames' = WithTop(g) /\ UNCHANGED <<tokens, cursor, status, operands>>
    BY DEF Combine
  <1>3. /\ expressions[Lhs] \in Nodes /\ expressions[Rhs] \in Nodes /\ cursor \in Nat
        /\ expressions[Lhs].from \in Nat /\ expressions[Lhs].to \in Nat
        /\ expressions[Rhs].from \in Nat /\ expressions[Rhs].to \in Nat
        /\ expressions[Lhs].from <= expressions[Lhs].to /\ expressions[Rhs].from <= expressions[Rhs].to
        /\ expressions[Rhs].to < cursor
    BY <1>1, StateFacts DEF Nodes, NodeOK
  <1>4. /\ node.kind = "binary" /\ node.at = StackedOperator /\ node.from = expressions[Lhs].from
        /\ node.to = expressions[Rhs].to /\ node.args = <<Lhs, Rhs>> /\ Len(node.args) = 2
        /\ node.args[1] = Lhs /\ node.args[2] = Rhs /\ \A k \in 1..Len(node.args) : k = 1 \/ k = 2
    BY DEF Node
  <1>5. node \in Nodes
    <2>1. <<Lhs, Rhs>> \in Seq(Nat)
      BY <1>1
    <2> HIDE DEF Lhs, Rhs, StackedOperator
    <2> QED
      BY <1>1, <1>3, <2>1 DEF Node, Nodes, Kinds
  <1> HIDE DEF node, nm
  <1>6. NodeOK(tokens, expressions, cursor', operands, node)
    <2>1. node.from <= node.to /\ node.to < cursor'
      BY <1>1, <1>2, <1>3, <1>4
    <2>2. \A k \in 1..Len(node.args) : expressions[node.args[k]].to <= node.to
      BY <1>1, <1>3, <1>4
    <2> QED
      BY <1>1, <1>4, <2>1, <2>2 DEF NodeOK
  <1>7. \A k \in 1..Len(node.args) : node.args[k] \in 1..Len(expressions)
    BY <1>1, <1>4
  <1>8. /\ Grows /\ New \in Nat /\ Len(expressions') = New /\ New \in 1..Len(expressions')
        /\ expressions'[New] = node
    BY <1>2, <1>3, <1>5, <1>6, <1>7, NodeAdded
  <1>9. /\ Top \in Frames /\ FrameIds(expressions', Top) /\ FrameOK(tokens', expressions', cursor', operands', Top)
        /\ m \in Seq([kind : {"expr", "operator"}, is : Nat]) /\ Len(m) = h
    BY <1>8, TopFacts, OldFrame DEF Height
  <1> HIDE DEF h, m
  <1>10. /\ h - 3 \in Nat /\ h - 2 >= 1 /\ (h - 2) % 2 = 1 /\ (h - 3) + 1 = h - 2 /\ (h - 2) + 1 = h - 1
         /\ (h + 1) - 1 = h /\ (h - 1) - 1 = h - 2 /\ h - 3 <= h
         /\ h - 2 \in 1..h /\ h \in 1..h
    <2>1. h > 1
      BY DEF h
    <2> QED
      BY <1>1, <2>1, ThreeOrMore
  <1>11. Expr(New) \in [kind : {"expr", "operator"}, is : Nat] /\ Expr(New).kind = "expr" /\ Expr(New).is = New
    BY <1>8 DEF Expr
  <1>12. /\ nm \in Seq([kind : {"expr", "operator"}, is : Nat]) /\ Len(nm) = h - 2
         /\ \A i \in 1..h - 3 : nm[i] = m[i]
         /\ nm[h - 2] = Expr(New)
    <2> DEFINE front == SubSeq(m, 1, h - 3)
    <2>1. /\ front \in Seq([kind : {"expr", "operator"}, is : Nat]) /\ Len(front) = h - 3
          /\ \A i \in 1..h - 3 : front[i] = m[i]
      BY <1>9, <1>10, FrontFacts
    <2>2. nm = Append(front, Expr(New))
      BY DEF nm, front, h, m
    <2> HIDE DEF front
    <2>3. /\ nm \in Seq([kind : {"expr", "operator"}, is : Nat]) /\ Len(nm) = Len(front) + 1
          /\ \A i \in 1..Len(front) : nm[i] = front[i]
          /\ nm[Len(front) + 1] = Expr(New)
      BY <1>11, <2>1, <2>2, AppendFacts
    <2> QED
      BY <1>10, <2>1, <2>3
  <1>13. /\ g.caller = Top.caller /\ g.members = nm /\ g.last = last /\ g.expr = Top.expr
         /\ g.op = Top.op /\ g.step = Top.step
    BY <1>9 DEF Frames
  <1>14. g \in Frames
    BY <1>9, <1>12 DEF Frames
  <1> HIDE DEF g
  <1>15. Low(g) = Low(Top) /\ Floor(g) = Floor(Top)
    BY <1>13 DEF Low, Floor
  <1>16. node.at = m[h - 1].is /\ node.from = expressions'[m[h - 2].is].from
    <2>1. expressions'[Lhs] = expressions[Lhs]
      BY <1>1, <1>8 DEF Grows, Extends
    <2> QED
      BY <1>4, <2>1 DEF Lhs, StackedOperator, h, m
  <1>17. StackOK(tokens', expressions', operands', g)
    <2>1. expressions' \in Seq(Nodes) /\ StackOK(tokens', expressions', operands', Top)
      BY <1>8, <1>9 DEF Grows, FrameOK
    <2>2. Prec(tokens', node.at) <= g.last /\ g.last \in Nat
      BY <1>2, <1>4, <1>13
    <2>3. h > 1
      BY DEF h
    <2>4. /\ Len(Top.members) = h /\ Len(g.members) = h - 2 /\ g.members[h - 2] = Expr(New)
          /\ \A i \in 1..h - 3 : g.members[i] = Top.members[i]
          /\ node.at = Top.members[h - 1].is /\ node.from = expressions'[Top.members[h - 2].is].from
      BY <1>9, <1>12, <1>13, <1>16 DEF m
    <2> QED
      BY <1>1, <1>8, <1>15, <2>1, <2>2, <2>3, <2>4, StackCombined
  <1>18. FrameIds(expressions', g)
    <2>1. ASSUME NEW k \in 1..Len(nm), nm[k].kind = "expr"
          PROVE  nm[k].is \in 1..Len(expressions')
      <3>1. CASE k = h - 2
        BY <1>8, <1>11, <1>12, <3>1
      <3>2. CASE k \in 1..h - 3
        <4>1. nm[k] = m[k] /\ k \in 1..Len(m)
          BY <1>1, <1>9, <1>10, <1>12, <3>2
        <4> QED
          BY <1>9, <2>1, <4>1 DEF FrameIds, m
      <3> QED
        BY <1>1, <1>10, <1>12, <3>1, <3>2
    <2> QED
      BY <1>9, <1>13, <2>1 DEF FrameIds
  <1>19. ASSUME Top.op # 0
         PROVE  OperatorOK(tokens', expressions', operands', nm, Top.op, Len(nm) + 1)
    <2>1. Top.step = "reduce"
      <3>1. Top.step = "fold" => Top.op = 0
        BY <1>9 DEF FrameOK
      <3> QED
        BY <1>19, <3>1
    <2>2. OperatorOK(tokens', expressions', operands', m, Top.op, Len(m) + 1)
      BY <1>9, <1>19 DEF FrameOK, m
    <2>3. nm[(Len(nm) + 1) - 1].is = New
      BY <1>10, <1>11, <1>12
    <2>4. expressions'[m[(Len(m) + 1) - 1].is] = expressions[Rhs]
      BY <1>1, <1>8, <1>9, <1>10 DEF Grows, Extends, Rhs, h, m
    <2>5. Prec(tokens', node.at) >= Prec(tokens', Top.op)
      <3>1. Prec(tokens, Top.op) \in Nat /\ Prec(tokens, StackedOperator) \in Nat
        BY <1>2, <2>2, PrecIsNat, TopOfStack DEF OperatorOK
      <3> QED
        BY <1>2, <1>4, <2>1, <3>1
    <2> QED
      BY <1>4, <1>8, <2>2, <2>3, <2>4, <2>5 DEF OperatorOK
  <1>20. FrameOK(tokens', expressions', cursor', operands', g)
    <2>1. /\ Low(Top) < cursor'
          /\ Top.op # 0 => Top.op < cursor'
          /\ Top.step = "reduce" => /\ Top.expr \in 1..Len(expressions') /\ expressions'[Top.expr].from > Floor(Top)
                                    /\ Top.op # 0 /\ Top.expr \in operands'
          /\ Top.step = "fold" => Top.op = 0
          /\ Top.caller.kind = "unary" => Top.caller.args = <<>>
      BY <1>9 DEF FrameOK
    <2>2. Len(nm) % 2 = 1
      BY <1>10, <1>12
    <2> QED
      BY <1>13, <1>15, <1>17, <1>19, <2>1, <2>2 DEF FrameOK
  <1> QED
    BY <1>2, <1>8, <1>13, <1>14, <1>18, <1>20, ReplaceTop

LEMMA ReduceKeeps == ASSUME IInv, Reduce PROVE IInv'
  <1>1. Top.step = "reduce" /\ Reducible /\ Combine(StackedPrecedence) /\ Height > 1
    BY DEF Reduce, In, Reducible
  <1>2. StackedPrecedence = Prec(tokens, StackedOperator) /\ Precedence(Tok(Top.op)) = Prec(tokens, Top.op)
    BY DEF StackedPrecedence, Prec, TokenAt, Tok
  <1>3. Prec(tokens, StackedOperator) \in Nat
    BY <1>1, TopOfStack
  <1>4. Prec(tokens, Top.op) <= Prec(tokens, StackedOperator)
    <2>1. StackedPrecedence >= Precedence(Tok(Top.op))
      BY <1>1 DEF Reducible
    <2>2. Prec(tokens, Top.op) \in Nat
      BY <1>1, TopFacts, PrecIsNat DEF FrameOK, OperatorOK
    <2> QED
      BY <1>2, <1>3, <2>1, <2>2
  <1>5. Prec(tokens, StackedOperator) <= StackedPrecedence /\ StackedPrecedence \in Nat
    BY <1>2, <1>3
  <1> QED
    BY <1>1, <1>4, <1>5, CombineKeeps

LEMMA FoldKeeps == ASSUME IInv, Fold PROVE IInv'
  <1>1. Top.step = "fold" /\ Combine(Top.last) /\ Height > 1 /\ Top.last \in Nat
    BY TopFacts DEF Fold, In
  <1>2. Prec(tokens, StackedOperator) <= Top.last
    BY <1>1, TopOfStack
  <1> QED
    BY <1>1, <1>2, CombineKeeps

LEMMA TwoMore ==
  ASSUME NEW S, NEW seq \in Seq(S), NEW x \in S, NEW y \in S
  PROVE  /\ seq \o <<x, y>> \in Seq(S) /\ Len(seq \o <<x, y>>) = Len(seq) + 2
         /\ \A i \in 1..Len(seq) : (seq \o <<x, y>>)[i] = seq[i]
         /\ (seq \o <<x, y>>)[Len(seq) + 1] = x /\ (seq \o <<x, y>>)[Len(seq) + 2] = y
  OBVIOUS

\* An operator and its right operand on top of the stack.
LEMMA StackPushed ==
  ASSUME NEW t, NEW ex, NEW ops, NEW f, NEW g, NEW h \in Nat, NEW op \in Nat, NEW id,
         h % 2 = 1, Len(f.members) = h, Len(g.members) = h + 2, StackOK(t, ex, ops, f), Low(g) = Low(f),
         \A i \in 1..h : g.members[i] = f.members[i],
         g.members[h + 1] = Operator(op), g.members[h + 2] = Expr(id),
         OperatorOK(t, ex, ops, f.members, op, h + 1),
         h > 1 => Prec(t, f.members[h - 1].is) < Prec(t, op),
         id \in 1..Len(ex), id \in ops, ex[id].from > op, g.last = Prec(t, op)
  PROVE  StackOK(t, ex, ops, g)
  <1>1. /\ h >= 1 /\ h \in 1..h /\ (h + 1) % 2 = 0 /\ (h + 2) % 2 = 1 /\ (h + 1) - 1 = h /\ (h + 2) - 1 = h + 1
        /\ (h + 1) - 2 = h - 1 /\ h <= h
    <2>1. h \in 1..h
      BY OddPositive
    <2>2. (h + 1) % 2 = 1 - (h % 2) /\ (h + 2) % 2 = h % 2
      BY Parity
    <2>3. (h + 1) % 2 = 0 /\ (h + 2) % 2 = 1
      BY <2>2
    <2>4. h >= 1 /\ (h + 1) - 1 = h /\ (h + 2) - 1 = h + 1 /\ (h + 1) - 2 = h - 1 /\ h <= h
      BY <2>1
    <2> QED
      BY <2>1, <2>3, <2>4
  <1>2. \A k \in 1..h : StackAt(t, ex, ops, g, k)
    BY <1>1, CommonStack
  <1>3. StackAt(t, ex, ops, g, h + 1)
    <2>1. g.members[h + 1].kind = "operator" /\ g.members[h + 1].is = op
      BY DEF Operator
    <2>2. OperatorOK(t, ex, ops, g.members, op, h + 1)
      BY <1>1 DEF OperatorOK
    <2>3. h + 1 > 2 => Prec(t, g.members[(h + 1) - 2].is) < Prec(t, op)
      <3> SUFFICES ASSUME h + 1 > 2
                   PROVE  Prec(t, g.members[h - 1].is) < Prec(t, op)
        BY <1>1
      <3>1. h > 1 /\ h - 1 \in 1..h
        OBVIOUS
      <3> QED
        BY <3>1
    <2> QED
      BY <1>1, <2>1, <2>2, <2>3 DEF StackAt
  <1>4. StackAt(t, ex, ops, g, h + 2)
    <2>1. /\ g.members[h + 2].kind = "expr" /\ g.members[h + 2].is = id
          /\ g.members[(h + 2) - 1].is = op
      <3>1. g.members[h + 2].kind = "expr" /\ g.members[h + 2].is = id
        BY DEF Expr
      <3>2. g.members[h + 1].is = op
        BY DEF Operator
      <3> QED
        BY <1>1, <3>1, <3>2
    <2>2. h + 2 # 1
      OBVIOUS
    <2>3. OperandOK(t, ex, ops, g, h + 2)
      BY <2>1, <2>2 DEF OperandOK, Bracketed
    <2> QED
      BY <1>1, <2>3 DEF StackAt
  <1>5. \A k \in 1..h + 2 : k \in 1..h \/ k = h + 1 \/ k = h + 2
    OBVIOUS
  <1>6. Prec(t, g.members[(h + 2) - 1].is) <= g.last
    <2>1. Prec(t, op) \in Nat
      BY PrecIsNat DEF OperatorOK
    <2> QED
      BY <1>1, <2>1 DEF Operator
  <1> QED
    BY <1>2, <1>3, <1>4, <1>5, <1>6 DEF StackOK

LEMMA PushOperandKeeps == ASSUME IInv, PushOperand PROVE IInv'
  <1> DEFINE m == Top.members
             h == Height
             nm == m \o <<Operator(Top.op), Expr(Top.expr)>>
             last == Precedence(Tok(Top.op))
             g == [Top EXCEPT !.step = "operator", !.op = 0, !.last = last, !.members = nm]
  <1>1. /\ Top.step = "reduce" /\ ~Reducible /\ cursor \in Nat
        /\ frames' = WithTop(g)
        /\ UNCHANGED <<tokens, cursor, expressions, hints, status, operands>>
    BY StateFacts DEF PushOperand, In
  <1>2. Grows
    BY <1>1, StateFacts, NothingAdded
  <1>3. /\ Top \in Frames /\ FrameIds(expressions, Top) /\ FrameOK(tokens, expressions, cursor, operands, Top)
        /\ m \in Seq([kind : {"expr", "operator"}, is : Nat]) /\ Len(m) = h /\ h \in Nat
        /\ Top.op \in Nat /\ Top.expr \in Nat /\ Top.last \in Nat
    BY TopFacts DEF Height
  <1>4. /\ Top.op # 0 /\ Top.expr \in operands /\ Top.expr \in 1..Len(expressions)
        /\ expressions[Top.expr].from > Top.op /\ h % 2 = 1
        /\ OperatorOK(tokens, expressions, operands, m, Top.op, h + 1)
        /\ StackOK(tokens, expressions, operands, Top)
        /\ Low(Top) < cursor /\ (Top.caller.kind = "unary" => Top.caller.args = <<>>)
    BY <1>1, <1>3 DEF FrameOK, Floor
  <1>5. last = Prec(tokens, Top.op) /\ last \in Nat
    <2>1. last = Prec(tokens, Top.op)
      BY DEF Prec, TokenAt, Tok
    <2> QED
      BY <1>4, <2>1, PrecIsNat DEF OperatorOK
  <1>6. h > 1 => Prec(tokens, m[h - 1].is) < last
    <2> SUFFICES ASSUME h > 1
                 PROVE  Prec(tokens, m[h - 1].is) < last
      OBVIOUS
    <2>1. Prec(tokens, StackedOperator) \in Nat /\ Prec(tokens, StackedOperator) <= Top.last
      BY <1>1, TopOfStack
    <2>2. StackedPrecedence = Prec(tokens, StackedOperator) /\ StackedOperator = m[h - 1].is
      BY DEF StackedPrecedence, Prec, TokenAt, Tok, StackedOperator
    <2>3. ~(last <= Top.last /\ StackedPrecedence >= last)
      BY <1>1 DEF Reducible
    <2> QED
      BY <1>3, <1>5, <2>1, <2>2, <2>3
  <1> HIDE DEF last
  <1>7. /\ Operator(Top.op) \in [kind : {"expr", "operator"}, is : Nat]
        /\ Expr(Top.expr) \in [kind : {"expr", "operator"}, is : Nat]
    BY <1>3 DEF Operator, Expr
  <1> HIDE DEF m, h
  <1>8. /\ nm \in Seq([kind : {"expr", "operator"}, is : Nat]) /\ Len(nm) = h + 2
        /\ \A i \in 1..h : nm[i] = m[i]
        /\ nm[h + 1] = Operator(Top.op) /\ nm[h + 2] = Expr(Top.expr)
    BY <1>3, <1>7, TwoMore
  <1> HIDE DEF nm
  <1>9. /\ g.caller = Top.caller /\ g.members = nm /\ g.last = last /\ g.expr = Top.expr
        /\ g.op = 0 /\ g.step = "operator"
    BY <1>3 DEF Frames
  <1>10. g \in Frames
    BY <1>3, <1>5, <1>8 DEF Frames, Steps
  <1> HIDE DEF g
  <1>11. Low(g) = Low(Top)
    BY <1>9 DEF Low
  <1>12. StackOK(tokens, expressions, operands, g)
    <2>1. /\ Len(Top.members) = h /\ Len(g.members) = h + 2
          /\ \A i \in 1..h : g.members[i] = Top.members[i]
          /\ g.members[h + 1] = Operator(Top.op) /\ g.members[h + 2] = Expr(Top.expr)
          /\ OperatorOK(tokens, expressions, operands, Top.members, Top.op, h + 1)
          /\ h > 1 => Prec(tokens, Top.members[h - 1].is) < Prec(tokens, Top.op)
          /\ g.last = Prec(tokens, Top.op)
      BY <1>3, <1>4, <1>5, <1>6, <1>8, <1>9 DEF m
    <2> QED
      BY <1>3, <1>4, <1>11, <2>1, StackPushed
  <1>13. FrameIds(expressions, g)
    <2>1. ASSUME NEW k \in 1..Len(nm), nm[k].kind = "expr"
          PROVE  nm[k].is \in 1..Len(expressions)
      <3>1. CASE k \in 1..h
        <4>1. nm[k] = m[k] /\ k \in 1..Len(m)
          BY <1>3, <1>8, <3>1
        <4> QED
          BY <1>3, <2>1, <4>1 DEF FrameIds, m
      <3>2. CASE k = h + 1
        BY <1>8, <2>1, <3>2 DEF Operator
      <3>3. CASE k = h + 2
        BY <1>4, <1>8, <3>3 DEF Expr
      <3> QED
        BY <1>3, <1>8, <3>1, <3>2, <3>3
    <2> QED
      BY <1>3, <1>4, <1>9, <2>1 DEF FrameIds
  <1>14. FrameOK(tokens, expressions, cursor, operands, g)
    <2>1. Len(nm) % 2 = 1 /\ nm[Len(nm)].is \in operands
      <3>1. (h + 2) % 2 = h % 2
        BY <1>3, Parity
      <3> QED
        BY <1>4, <1>8, <3>1 DEF Expr
    <2> QED
      BY <1>4, <1>9, <1>11, <1>12, <2>1 DEF FrameOK
  <1>15. FrameIds(expressions', g) /\ FrameOK(tokens', expressions', cursor', operands', g)
    BY <1>1, <1>13, <1>14
  <1> QED
    BY <1>1, <1>2, <1>9, <1>10, <1>15, ReplaceTop

\* The frame on top is done with its operators, and has an expression.
LEMMA ExpressionKeeps ==
  ASSUME IInv, Grows, NEW id \in Nat, id \in 1..Len(expressions'), expressions'[id].from > Low(Top),
         Top.op = 0, NEW step \in {"is", "return"}, frames' = WithTop([Top EXCEPT !.expr = id, !.step = step])
  PROVE  IInv'
  <1> DEFINE g == [Top EXCEPT !.expr = id, !.step = step]
  <1>1. /\ Top \in Frames /\ FrameIds(expressions', Top)
        /\ FrameOK(tokens', expressions', cursor', operands', Top)
    BY TopFacts, OldFrame
  <1>2. /\ g.caller = Top.caller /\ g.members = Top.members /\ g.last = Top.last
        /\ g.expr = id /\ g.op = 0 /\ g.step = step /\ g \in Frames
    BY <1>1 DEF Frames, Steps
  <1>3. frames' = WithTop(g)
    OBVIOUS
  <1> HIDE DEF g
  <1>4. /\ StackOK(tokens', expressions', operands', g) /\ Low(g) = Low(Top) /\ Low(g) < cursor'
        /\ g.caller.kind = "unary" => g.caller.args = <<>>
        /\ FrameIds(expressions', g)
    BY <1>1, <1>2, SameMembers
  <1>5. FrameOK(tokens', expressions', cursor', operands', g)
    BY <1>2, <1>4 DEF FrameOK, Floor
  <1> QED
    BY <1>2, <1>3, <1>4, <1>5, ReplaceTop

LEMMA EndFoldKeeps == ASSUME IInv, EndFold PROVE IInv'
  <1>1. /\ Top.step = "fold" /\ Height = 1 /\ frames' = WithTop([Top EXCEPT !.expr = Rhs, !.step = "is"])
        /\ UNCHANGED <<tokens, cursor, expressions, hints, status, operands>> /\ cursor \in Nat
    BY StateFacts DEF EndFold, In
  <1>2. Grows
    BY <1>1, StateFacts, NothingAdded
  <1>3. FrameOK(tokens, expressions, cursor, operands, Top) /\ Top.op = 0
    BY <1>1, TopFacts DEF FrameOK
  <1>4. Rhs \in 1..Len(expressions) /\ expressions[Rhs].from > Low(Top)
    <2>1. 1 % 2 = 1 /\ 1 \in 1..Len(Top.members)
      BY <1>1 DEF Height
    <2> QED
      BY <1>1, <1>3, <2>1 DEF FrameOK, StackOK, StackAt, OperandOK, Rhs
  <1>5. Rhs \in Nat
    BY <1>4
  <1> QED
    BY <1>1, <1>2, <1>3, <1>4, <1>5, ExpressionKeeps

LEMMA IsKeeps == ASSUME IInv, Is PROVE IInv'
  <1>1. Top.step = "is" /\ cursor \in Nat /\ cursor + 1 \in Nat
    BY StateFacts DEF Is, In
  <1>2. CASE Error
    BY <1>2, ErrorKeeps
  <1>3. ASSUME NEW q \in PatternEnds(cursor + 1), AddExpression(Postfix("is", q - 1)), cursor' = q,
               frames' = WithTop([Top EXCEPT !.expr = New, !.step = "return"]),
               UNCHANGED <<tokens, status, operands>>
        PROVE  IInv'
    <2> DEFINE args == <<Top.expr>>
    <2>1. q \in Nat /\ q > cursor + 1 /\ q - 1 \in Nat /\ cursor <= q /\ cursor <= q - 1 /\ q - 1 < q
      <3>1. q \in Nat /\ q > cursor + 1
        BY <1>1, PatternEndsBehind
      <3> QED
        BY <1>1, <3>1
    <2>2. /\ AddExpression(Node("is", cursor, Current.from, q - 1, args))
          /\ tokens' = tokens /\ operands' = operands /\ status' = status
      BY <1>3 DEF Postfix
    <2>3. /\ args \in Seq(Nat) /\ Current.from \in Nat /\ Current.to \in Nat
          /\ \A k \in 1..Len(args) : args[k] \in 1..Len(expressions) /\ expressions[args[k]].to = Current.to
          /\ Current.from <= Current.to /\ Current.to < cursor /\ Current.from > Floor(Top)
      <3>1. Current = expressions[Top.expr]
        BY DEF Current
      <3> QED
        BY <1>1, <3>1, CurrentFacts
    <2>4. \A k \in 1..Len(args) : expressions[args[k]].to <= q - 1
      BY <1>1, <2>1, <2>3
    <2>5. Current.from <= q - 1 /\ "is" \in Kinds \ {"binary"}
      BY <1>1, <2>1, <2>3 DEF Kinds
    <2> HIDE DEF args
    <2>6. Grows /\ New \in Nat /\ New \in 1..Len(expressions') /\ expressions'[New].from = Current.from
      BY <1>1, <1>3, <2>1, <2>2, <2>3, <2>4, <2>5, OtherNode
    <2>7. Top.op = 0 /\ Floor(Top) = Low(Top)
      BY <1>1, TopFacts DEF FrameOK, Floor
    <2> QED
      BY <1>3, <2>3, <2>6, <2>7, ExpressionKeeps
  <1> QED
    BY <1>2, <1>3 DEF Is

LEMMA NoIsKeeps == ASSUME IInv, NoIs PROVE IInv'
  <1>1. /\ Top.step = "is" /\ frames' = WithTop([Top EXCEPT !.step = "return"])
        /\ UNCHANGED <<tokens, cursor, expressions, hints, status, operands>> /\ cursor \in Nat
    BY StateFacts DEF NoIs, In, Go
  <1>2. Grows
    BY <1>1, StateFacts, NothingAdded
  <1>3. /\ Top.expr \in 1..Len(expressions) /\ Top.expr \in Nat /\ expressions[Top.expr].from > Low(Top)
        /\ Top.op = 0
    BY <1>1, TopFacts DEF FrameOK, Floor
  <1>4. [Top EXCEPT !.step = "return"] = [Top EXCEPT !.expr = Top.expr, !.step = "return"]
    BY TopFacts DEF Frames
  <1> QED
    BY <1>1, <1>2, <1>3, <1>4, ExpressionKeeps

-----------------------------------------------------------------------------
(* The callers of parse_expression.                                          *)

LEMMA ReturnKeeps == ASSUME IInv, Return PROVE IInv'
  BY StatusKeeps DEF Return

\* What a returning frame hands to its caller.
LEMMA TakenFacts ==
  ASSUME IInv, NEW kinds, kinds \subseteq {"paren", "unary", "constructor", "call", "array"}, Returning(kinds)
  PROVE  /\ Top.step = "return" /\ Top.caller.kind # "top"
         /\ Taken \in Callers /\ Taken.kind = Top.caller.kind /\ Taken.from = Top.caller.from
         /\ Taken.from \in Nat /\ Taken.from < cursor /\ cursor \in Nat
         /\ \A k \in 1..Len(Taken.args) : Taken.args[k] \in 1..Len(expressions)
         /\ Taken.args = Append(Top.caller.args, Top.expr) /\ Taken.at = Top.caller.at
         /\ Current.from > Taken.from
  <1>1. Top.step = "return" /\ Top.caller.kind \in kinds
    BY DEF Returning, In
  <1>2. /\ Top.expr \in 1..Len(expressions) /\ Top.expr \in Nat /\ cursor \in Nat
        /\ Current.from > Floor(Top)
    BY <1>1, CurrentFacts
  <1>3. /\ Top.caller \in Callers /\ Top.caller.args \in Seq(Nat) /\ Len(Top.caller.args) \in Nat
        /\ \A k \in 1..Len(Top.caller.args) : Top.caller.args[k] \in 1..Len(expressions)
        /\ Low(Top) < cursor /\ Top.caller.from \in Nat /\ Low(Top) = Top.caller.from
        /\ Top.op = 0
    BY <1>1, TopFacts, FloorBehind DEF FrameIds, Low, FrameOK
  <1>4. /\ Taken.kind = Top.caller.kind /\ Taken.from = Top.caller.from /\ Taken.at = Top.caller.at
        /\ Taken.args = Append(Top.caller.args, Top.expr)
    BY <1>3 DEF Taken, Callers
  <1> DEFINE args == Append(Top.caller.args, Top.expr)
  <1>5. /\ args \in Seq(Nat) /\ Len(args) = Len(Top.caller.args) + 1
        /\ \A k \in 1..Len(Top.caller.args) : args[k] = Top.caller.args[k]
        /\ args[Len(Top.caller.args) + 1] = Top.expr
    BY <1>2, <1>3, AppendFacts
  <1> HIDE DEF args
  <1>6. \A k \in 1..Len(args) : args[k] \in 1..Len(expressions)
    <2>1. \A k \in 1..Len(args) : k \in 1..Len(Top.caller.args) \/ k = Len(Top.caller.args) + 1
      BY <1>3, <1>5
    <2> QED
      BY <1>2, <1>3, <1>5, <2>1
  <1>7. Taken \in Callers
    BY <1>3, <1>5 DEF Taken, Callers, args
  <1>8. Floor(Top) = Low(Top)
    BY <1>3 DEF Floor
  <1> QED
    BY <1>1, <1>2, <1>3, <1>4, <1>6, <1>7, <1>8 DEF args

LEMMA EndParenKeeps == ASSUME IInv, EndParen PROVE IInv'
  <1>1. CASE Error
    BY <1>1, ErrorKeeps
  <1>2. ASSUME cursor' = cursor + 1, Operand(Below, Top.expr),
               UNCHANGED <<tokens, expressions, hints, status, operands>>, Returning({"paren"})
        PROVE  IInv'
    <2>1. Top.step = "return" /\ Top.caller.kind # "top" /\ Current.from > Taken.from
          /\ Taken.from = Top.caller.from /\ Taken.from \in Nat /\ cursor \in Nat
      BY <1>2, TakenFacts
    <2>2. /\ Top.expr \in 1..Len(expressions) /\ Top.expr \in Nat /\ Current.from \in Nat
          /\ Current = expressions[Top.expr]
      BY <2>1, CurrentFacts DEF Current
    <2>3. Grows
      BY <1>2, <2>1, StateFacts, NothingAdded
    <2>4. expressions'[Top.expr].from >= Top.caller.from /\ expressions'[Top.expr].from \in Nat
      BY <1>2, <2>1, <2>2
    <2> QED
      BY <1>2, <2>1, <2>2, <2>3, <2>4, PopFrame
  <1> QED
    BY <1>1, <1>2 DEF EndParen

LEMMA EndPrefixKeeps == ASSUME IInv, EndPrefix PROVE IInv'
  <1>1. Returning({"unary"}) /\ Operand(Below, New) /\ UNCHANGED <<cursor, tokens, status, operands>>
        /\ AddExpression(Node("unary", Taken.at, Taken.from, Current.to, Taken.args))
    BY DEF EndPrefix
  <1>2. /\ Top.step = "return" /\ Top.caller.kind # "top" /\ Taken \in Callers
        /\ Taken.from = Top.caller.from /\ Taken.from \in Nat /\ cursor \in Nat
        /\ \A k \in 1..Len(Taken.args) : Taken.args[k] \in 1..Len(expressions)
        /\ Taken.args = Append(Top.caller.args, Top.expr) /\ Current.from > Taken.from
    BY <1>1, TakenFacts
  <1>3. Top.caller.kind = "unary" /\ Top.caller.args = <<>>
    BY <1>1, TopFacts DEF Returning, FrameOK
  <1>4. Current.to \in Nat /\ Current.to < cursor /\ Current.from <= Current.to /\ Current.from \in Nat
        /\ Current = expressions[Top.expr]
    BY <1>2, CurrentFacts DEF Current
  <1>5. Taken.args = <<Top.expr>> /\ Taken.at \in Nat /\ Taken.args \in Seq(Nat)
    BY <1>2, <1>3 DEF Callers
  <1>6. \A k \in 1..Len(Taken.args) : expressions[Taken.args[k]].to <= Current.to
    BY <1>4, <1>5
  <1>7. Taken.from <= Current.to /\ "unary" \in Kinds \ {"binary"}
    BY <1>2, <1>4 DEF Kinds
  <1>8. Grows /\ New \in Nat /\ New \in 1..Len(expressions') /\ expressions'[New].from = Taken.from
    <2>1. cursor' \in Nat /\ cursor <= cursor' /\ Current.to < cursor'
      BY <1>1, <1>2, <1>4
    <2> HIDE DEF Current, Taken
    <2> QED
      BY <1>1, <1>2, <1>4, <1>5, <1>6, <1>7, <2>1, OtherNode
  <1>9. expressions'[New].from >= Top.caller.from /\ expressions'[New].from \in Nat
    BY <1>2, <1>8
  <1> QED
    BY <1>1, <1>2, <1>8, <1>9, PopFrame

LEMMA EndConstructorKeeps == ASSUME IInv, EndConstructor PROVE IInv'
  <1>1. CASE Error
    BY <1>1, ErrorKeeps
  <1>2. ASSUME Returning({"constructor"}), Complete(Below, Taken, cursor)
        PROVE  IInv'
    <2>1. /\ Taken \in Callers /\ Top.caller.kind # "top" /\ Taken.kind = Top.caller.kind
          /\ Taken.from = Top.caller.from /\ Taken.from < cursor /\ cursor \in Nat /\ cursor <= cursor
          /\ \A k \in 1..Len(Taken.args) : Taken.args[k] \in 1..Len(expressions)
      BY <1>2, TakenFacts
    <2>2. Taken.kind = "constructor"
      BY <1>2, <2>1 DEF Returning
    <2> QED
      BY <1>2, <2>1, <2>2, CompleteKeeps
  <1> QED
    BY <1>1, <1>2 DEF EndConstructor

LEMMA EndElementKeeps == ASSUME IInv, EndElement PROVE IInv'
  <1>1. Returning({"call", "array"})
    BY DEF EndElement
  <1>2. /\ Taken \in Callers /\ Top.caller.kind # "top" /\ Taken.kind = Top.caller.kind
        /\ Taken.from = Top.caller.from /\ Taken.from \in Nat /\ Taken.from < cursor
        /\ cursor \in Nat /\ cursor <= cursor
        /\ \A k \in 1..Len(Taken.args) : Taken.args[k] \in 1..Len(expressions)
    BY <1>1, TakenFacts
  <1>3. Taken.kind \in {"call", "array"}
    BY <1>1, <1>2 DEF Returning
  <1>4. Taken.from <= cursor /\ cursor + 1 \in Nat /\ cursor < cursor + 1
    BY <1>2
  <1>5. CASE Error
    BY <1>5, ErrorKeeps
  <1>6. CASE Complete(Below, Taken, cursor)
    BY <1>2, <1>3, <1>6, CompleteKeeps
  <1>7. CASE Element(Below, Taken, cursor + 1)
    BY <1>2, <1>3, <1>4, <1>7, ElementKeeps
  <1> QED
    BY <1>5, <1>6, <1>7 DEF EndElement

-----------------------------------------------------------------------------
(* The theorems.                                                             *)

LEMMA InitIInv == ASSUME Init PROVE IInv
  <1> DEFINE f == NewFrame(Caller("top", 1, 1, <<>>))
  <1>1. /\ tokens \in Inputs /\ cursor = 1 /\ expressions = <<>> /\ hints = <<>> /\ frames = <<f>>
        /\ status = "run" /\ operands = {}
    BY DEF Init
  <1>2. /\ f.caller.kind = "top" /\ f.caller.args = <<>> /\ f.step = "base" /\ f.expr = 0 /\ f.op = 0
        /\ f.members = <<>> /\ f.caller.from = 1
    BY DEF NewFrame, Caller
  <1>3. f \in Frames
    BY NoArguments DEF NewFrame, Caller, Frames, Callers, Steps
  <1> HIDE DEF f
  <1>4. Len(frames) = 1 /\ frames[1] = f /\ \A i \in 1..Len(frames) : i = 1
    BY <1>1
  <1>5. TypeOK
    <2>1. expressions \in Seq([kind : Kinds, at : Nat, from : Nat, to : Nat, args : Seq(Nat)])
          /\ Ids = {} /\ hints \in [Ids -> Nat]
      BY <1>1 DEF Ids
    <2>2. frames \in Seq(Frames) /\ frames # <<>>
      BY <1>1, <1>3
    <2> QED
      BY <1>1, <1>2, <1>4, <2>1, <2>2 DEF TypeOK
  <1>6. Low(f) = 0 /\ StackOK(tokens, expressions, operands, f)
    BY <1>2 DEF Low, StackOK
  <1>7. Calls
    <2>1. FrameOK(tokens, expressions, cursor, operands, f)
      BY <1>1, <1>2, <1>6 DEF FrameOK
    <2> QED
      BY <1>4, <2>1 DEF Calls
  <1>8. Nested
    BY <1>2, <1>4, <1>6 DEF Nested
  <1>9. Pool
    BY <1>1 DEF Pool, Ids
  <1> QED
    BY <1>5, <1>7, <1>8, <1>9 DEF IInv

LEMMA NextIInv == ASSUME IInv, [Next]_vars PROVE IInv'
  <1>1. CASE UNCHANGED vars
    BY <1>1, StateFacts, StatusKeeps DEF vars
  <1>2. CASE Work
    BY <1>2, LiteralKeeps, VariableKeeps, CallKeeps, ParenKeeps, PrefixKeeps, TagKeeps, ArrayKeeps,
       NoBaseKeeps, UnwrapKeeps, CastKeeps, MemberKeeps, EndOperandKeeps, NextOperatorKeeps,
       EndOperatorsKeeps, ReduceKeeps, PushOperandKeeps, FoldKeeps, EndFoldKeeps, IsKeeps, NoIsKeeps,
       ReturnKeeps, EndParenKeeps, EndPrefixKeeps, EndConstructorKeeps, EndElementKeeps DEF Work
  <1> QED
    BY <1>1, <1>2 DEF Next, Index, Finished

THEOREM Inductive == Spec => []IInv
  BY InitIInv, NextIInv, PTL DEF Spec

\* The expression parser keeps the types of its state for every text: ids are those
\* of expressions that are in the pool already.
THEOREM TypeCorrect == Spec => []TypeOK
  <1>1. IInv => TypeOK
    BY DEF IInv
  <1> QED
    BY <1>1, Inductive, PTL

\* Whatever the text, expr_stack alternates where parse_expression pops it, and no
\* span is extended to one that ends before it.
THEOREM Unfailing == Spec => []NeverPanics
  <1>1. ASSUME IInv
        PROVE  NeverPanics
    <2>1. ASSUME NEW i \in 1..Len(frames)
          PROVE  /\ frames[i].step \in {"operator", "reduce", "fold"} => Len(frames[i].members) % 2 = 1
                 /\ \A k \in 1..Len(frames[i].members) :
                      frames[i].members[k].kind = IF k % 2 = 1 THEN "expr" ELSE "operator"
      <3>1. FrameOK(tokens, expressions, cursor, operands, frames[i])
        BY <1>1, <2>1, StateFacts
      <3>2. ASSUME NEW k \in 1..Len(frames[i].members)
            PROVE  frames[i].members[k].kind = IF k % 2 = 1 THEN "expr" ELSE "operator"
        <4>1. StackAt(tokens, expressions, operands, frames[i], k)
          BY <3>1 DEF FrameOK, StackOK
        <4>2. k % 2 = 0 \/ k % 2 = 1
          OBVIOUS
        <4> QED
          BY <4>1, <4>2 DEF StackAt, OperandOK
      <3> QED
        BY <3>1, <3>2 DEF FrameOK
    <2>2. \A n \in Ids : NodeOK(tokens, expressions, cursor, operands, expressions[n])
      BY <1>1, StateFacts DEF Ids
    <2> QED
      BY <2>1, <2>2 DEF NeverPanics, NodeOK
  <1> QED
    BY <1>1, Inductive, PTL

\* Binary operators are grouped by precedence and from the left for every text, of
\* any length and however calls and parentheses are nested in it.
THEOREM Grouped == Spec => []GroupedByPrecedence
  <1>1. ASSUME IInv
        PROVE  GroupedByPrecedence
    <2> SUFFICES ASSUME NEW n \in Ids, expressions[n].kind = "binary"
                 PROVE  /\ expressions[expressions[n].args[1]].to < expressions[n].at
                        /\ expressions[n].at < expressions[expressions[n].args[2]].from
                        /\ Bare(expressions[n].args[1]) => Binds(expressions[n].args[1]) >= Binds(n)
                        /\ Bare(expressions[n].args[2]) => Binds(expressions[n].args[2]) > Binds(n)
      BY DEF GroupedByPrecedence
    <2>1. NodeOK(tokens, expressions, cursor, operands, expressions[n])
      BY <1>1, StateFacts DEF Ids
    <2>2. \A p : Prec(tokens, p) = Precedence(Tok(p))
      BY DEF Prec, TokenAt, Tok
    <2> QED
      BY <2>1, <2>2 DEF NodeOK, Bracketed, Bare, Binds
  <1> QED
    BY <1>1, Inductive, PTL

=============================================================================
