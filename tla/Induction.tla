----------------------------- MODULE Induction ------------------------------
(***************************************************************************)
(* Induction on the natural numbers and on sequences, and definition by    *)
(* it, in the form the proofs need: about sets and functions, not          *)
(* operators.                                                              *)
(***************************************************************************)
EXTENDS Integers, SequenceTheorems, WellFoundedInduction, TLAPS

\* A set of natural numbers has a least element.
LEMMA Smallest ==
  ASSUME NEW S, S \subseteq Nat, S # {}
  PROVE  \E i \in S : \A j \in S : i <= j
<1>1. PICK i \in S : \A j \in S : ~ (<<j, i>> \in OpToRel(<, Nat))
  BY NatLessThanWellFounded, WFMin
<1>2. \A j \in S : ~ (j < i)
  BY <1>1 DEF OpToRel
<1>3. QED
  BY <1>2

\* What holds of 0, and of each number up to N with the one before it, holds up to N.
LEMMA UpTo ==
  ASSUME NEW N \in Nat, NEW S, 0 \in S, \A n \in 1..N : n - 1 \in S => n \in S
  PROVE  0..N \subseteq S
<1> SUFFICES ASSUME (0..N) \ S # {} PROVE FALSE
  OBVIOUS
<1>1. PICK i \in (0..N) \ S : \A j \in (0..N) \ S : i <= j
  <2>1. (0..N) \ S \subseteq Nat
    OBVIOUS
  <2> QED
    BY <2>1, Smallest
<1>2. i # 0 /\ i \in 1..N /\ i - 1 \in 0..N /\ ~ (i <= i - 1)
  BY <1>1
<1> QED
  BY <1>1, <1>2

\* f starts as base and goes on by step.
IsRecursion(f, N, T, base, step) ==
  /\ f \in [0..N -> T]
  /\ f[0] = base
  /\ \A n \in 1..N : f[n] = step[n][f[n - 1]]

\* There is such a function.
LEMMA RecursionExists ==
  ASSUME NEW N \in Nat, NEW T, NEW base \in T, NEW step \in [1..N -> [T -> T]]
  PROVE  \E f : IsRecursion(f, N, T, base, step)
<1> DEFINE Rec(n, f) == f[0] = base /\ \A k \in 1..n : f[k] = step[k][f[k - 1]]
           S == {n \in 0..N : \E f \in [0..n -> T] : Rec(n, f)}
<1>1. 0 \in S
  <2> DEFINE f == [k \in 0..0 |-> base]
  <2>1. f \in [0..0 -> T] /\ Rec(0, f)
    OBVIOUS
  <2> HIDE DEF f, Rec
  <2> QED
    BY <2>1
<1>2. ASSUME NEW n \in 1..N, n - 1 \in S PROVE n \in S
  <2>1. PICK f \in [0..n - 1 -> T] : Rec(n - 1, f)
    BY <1>2
  <2> DEFINE g == [k \in 0..n |-> IF k = n THEN step[n][f[n - 1]] ELSE f[k]]
  <2>2. f[n - 1] \in T
    OBVIOUS
  <2>3. step[n][f[n - 1]] \in T
    BY <2>2
  <2>4. g \in [0..n -> T]
    BY <2>3
  <2>5. g[0] = base
    BY <2>1
  <2>6. ASSUME NEW k \in 1..n PROVE g[k] = step[k][g[k - 1]]
    <3>1. CASE k = n
      <4>1. g[n] = step[n][f[n - 1]] /\ g[n - 1] = f[n - 1]
        OBVIOUS
      <4> QED
        BY <3>1, <4>1
    <3>2. CASE k # n
      <4>1. k \in 1..n - 1 /\ g[k] = f[k] /\ g[k - 1] = f[k - 1]
        BY <3>2
      <4> QED
        BY <2>1, <4>1
    <3> QED
      BY <3>1, <3>2
  <2>7. g \in [0..n -> T] /\ Rec(n, g)
    BY <2>4, <2>5, <2>6
  <2> HIDE DEF g, Rec
  <2> QED
    BY <2>7
<1> HIDE DEF S
<1>3. 0..N \subseteq S
  BY <1>1, <1>2, UpTo
<1> QED
  BY <1>3 DEF S, IsRecursion

\* A function on 0..N that starts and goes on so is one.
LEMMA RecursionHas ==
  ASSUME NEW N \in Nat, NEW T, NEW base \in T, NEW step \in [1..N -> [T -> T]], NEW f,
         f = [n \in 0..N |-> f[n]], f[0] = base,
         \A n \in 1..N : f[n - 1] \in T => f[n] = step[n][f[n - 1]]
  PROVE  IsRecursion(f, N, T, base, step)
<1> DEFINE P == {n \in 0..N : f[n] \in T}
<1>1. 0 \in P
  OBVIOUS
<1>2. ASSUME NEW n \in 1..N, n - 1 \in P PROVE n \in P
  <2>1. f[n - 1] \in T /\ f[n] = step[n][f[n - 1]]
    BY <1>2
  <2>2. step[n] \in [T -> T]
    OBVIOUS
  <2> QED
    BY <2>1, <2>2
<1> HIDE DEF P
<1>3. 0..N \subseteq P
  BY <1>1, <1>2, UpTo
<1>4. \A n \in 0..N : f[n] \in T
  BY <1>3 DEF P
<1>5. f \in [0..N -> T]
  BY <1>4
<1>6. \A n \in 1..N : n - 1 \in 0..N
  OBVIOUS
<1> QED
  BY <1>4, <1>5, <1>6 DEF IsRecursion

\* Two that start alike and go on alike are alike as far as they go.
LEMMA RecursionsAgree ==
  ASSUME NEW N \in Nat, NEW M \in Nat, N <= M, NEW T, NEW base, NEW step, NEW other, NEW f, NEW g,
         IsRecursion(f, N, T, base, step), IsRecursion(g, M, T, base, other),
         \A n \in 1..N : step[n] = other[n]
  PROVE  f[N] = g[N]
<1> DEFINE P == {n \in 0..N : f[n] = g[n]}
<1>1. 0 \in P
  BY DEF IsRecursion
<1>2. ASSUME NEW n \in 1..N, n - 1 \in P PROVE n \in P
  <2>1. f[n] = step[n][f[n - 1]] /\ g[n] = other[n][g[n - 1]] /\ step[n] = other[n]
    BY DEF IsRecursion
  <2> QED
    BY <1>2, <2>1
<1> HIDE DEF P
<1>3. N \in 0..N /\ 0..N \subseteq P
  BY <1>1, <1>2, UpTo
<1> QED
  BY <1>3 DEF P

-----------------------------------------------------------------------------
\* Sequences.

LEMMA ConcatAppend ==
  ASSUME NEW S, NEW s \in Seq(S), NEW t \in Seq(S), NEW c \in S
  PROVE  s \o Append(t, c) = Append(s \o t, c)
<1>1. <<c>> \in Seq(S)
  OBVIOUS
<1>2. (s \o t) \o <<c>> = s \o (t \o <<c>>)
  BY <1>1, ConcatAssociative
<1>3. Append(t, c) = t \o <<c>> /\ Append(s \o t, c) = (s \o t) \o <<c>>
  BY AppendIsConcat, ConcatProperties
<1> QED
  BY <1>2, <1>3

\* A prefix with one element more.
LEMMA NextPrefix ==
  ASSUME NEW S, NEW s \in Seq(S), NEW n \in 1..Len(s)
  PROVE  /\ SubSeq(s, 1, n - 1) \in Seq(S) /\ s[n] \in S
         /\ SubSeq(s, 1, n) = Append(SubSeq(s, 1, n - 1), s[n])
  OBVIOUS

\* What holds of the empty sequence, and of a sequence with one element more when it
\* holds without, holds of every sequence.
LEMMA OnSequences ==
  ASSUME NEW S, NEW P, <<>> \in P,
         \A s \in Seq(S), c \in S : s \in P => Append(s, c) \in P
  PROVE  Seq(S) \subseteq P
<1> SUFFICES ASSUME NEW s \in Seq(S) PROVE s \in P
  OBVIOUS
<1> DEFINE D == {n \in 0..Len(s) : SubSeq(s, 1, n) \in P}
<1>0. Len(s) \in Nat
  OBVIOUS
<1>1. SubSeq(s, 1, 0) = <<>> /\ SubSeq(s, 1, Len(s)) = s
  BY SubSeqEmpty, SubSeqFull
<1>2. 0 \in D
  <2>1. 0 \in 0..Len(s)
    BY <1>0
  <2> QED
    BY <1>1, <2>1
<1>3. ASSUME NEW n \in 1..Len(s), n - 1 \in D PROVE n \in D
  <2>1. /\ SubSeq(s, 1, n - 1) \in Seq(S) /\ s[n] \in S
        /\ SubSeq(s, 1, n) = Append(SubSeq(s, 1, n - 1), s[n])
    BY NextPrefix
  <2>2. SubSeq(s, 1, n - 1) \in P /\ n \in 0..Len(s)
    BY <1>3
  <2> HIDE DEF D
  <2>3. SubSeq(s, 1, n) \in P
    BY <2>1, <2>2
  <2> QED
    BY <2>2, <2>3 DEF D
<1> HIDE DEF D
<1>4. Len(s) \in 0..Len(s) /\ 0..Len(s) \subseteq D
  <2>1. 0..Len(s) \subseteq D
    BY <1>0, <1>2, <1>3, UpTo
  <2> QED
    BY <1>0, <2>1
<1> QED
  BY <1>1, <1>4 DEF D
=============================================================================
