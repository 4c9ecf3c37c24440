-------------------------- MODULE TestWriter_proofs --------------------------
(***************************************************************************)
(* Proofs about TestWriter, for every alphabet, size of the buffer and     *)
(* amount of text: no rune is lost or moved, and no line is joined to the  *)
(* next, wherever the buffer's end cuts the lines and their ends.          *)
(***************************************************************************)
EXTENDS TestWriter, Induction, SequenceTheorems, FiniteSetTheorems, TLAPS

-----------------------------------------------------------------------------
\* Sequences and their ends.

LEMMA AppendEnds ==
  ASSUME NEW S, NEW s \in Seq(S), NEW c \in S
  PROVE  /\ Append(s, c) \in Seq(S) /\ Len(Append(s, c)) = Len(s) + 1
         /\ Front(Append(s, c)) = s /\ Last(Append(s, c)) = c
         /\ \A d : Ends(Append(s, c), d) <=> d = c
<1> DEFINE a == Append(s, c)
<1>1. /\ a \in Seq(S) /\ Len(a) = Len(s) + 1 /\ a[Len(s) + 1] = c /\ Len(s) \in Nat
      /\ \A i \in 1..Len(s) : a[i] = s[i]
  BY AppendProperties
<1> HIDE DEF a
<1>2. Front(a) \in Seq(S) /\ Len(Front(a)) = Len(s) /\ \A i \in 1..Len(s) : Front(a)[i] = s[i]
  BY <1>1 DEF Front
<1>3. Front(a) = s
  BY <1>2, SeqEqual
<1> QED
  BY <1>1, <1>3 DEF Last, Ends, a

LEMMA EndsAreAll ==
  ASSUME NEW S, NEW s \in Seq(S), s # <<>>
  PROVE  /\ Front(s) \in Seq(S) /\ Len(Front(s)) = Len(s) - 1 /\ Last(s) \in S
         /\ s = Append(Front(s), Last(s))
<1>1. PICK t \in Seq(S), c \in S : s = Append(t, c)
  BY SequenceEmptyOrAppend
<1> QED
  BY <1>1, AppendEnds

LEMMA FrontOfConcat ==
  ASSUME NEW S, NEW s \in Seq(S), NEW t \in Seq(S), t # <<>>
  PROVE  Front(s \o t) = s \o Front(t)
<1>1. PICK u \in Seq(S), c \in S : t = Append(u, c)
  BY SequenceEmptyOrAppend
<1>2. s \o t = Append(s \o u, c)
  BY <1>1, ConcatAppend
<1>3. s \o u \in Seq(S)
  BY ConcatProperties
<1>4. Front(t) = u /\ Front(Append(s \o u, c)) = s \o u
  BY <1>1, <1>3, AppendEnds
<1> QED
  BY <1>2, <1>4

-----------------------------------------------------------------------------
\* What a log shows.

\* One step of Shown.
ShowRune(t, s, n) ==
  IF s[n] # NL THEN Append(t, s[n]) ELSE IF n > 1 /\ s[n - 1] = CR THEN Front(t) ELSE t
ShowSteps(S, s) == [n \in 1..Len(s) |-> [t \in Seq(S) |-> ShowRune(t, s, n)]]

LEMMA ShowStepsType ==
  ASSUME NEW S, NEW s \in Seq(S) PROVE ShowSteps(S, s) \in [1..Len(s) -> [Seq(S) -> Seq(S)]]
<1>1. ASSUME NEW n \in 1..Len(s), NEW t \in Seq(S) PROVE ShowRune(t, s, n) \in Seq(S)
  <2>1. s[n] \in S /\ Front(t) \in Seq(S) /\ Append(t, s[n]) \in Seq(S)
    BY DEF Front
  <2> QED
    BY <2>1 DEF ShowRune
<1> QED
  BY <1>1 DEF ShowSteps

LEMMA ShownIsRecursion ==
  ASSUME NEW S, NEW s \in Seq(S)
  PROVE  \E f : IsRecursion(f, Len(s), Seq(S), <<>>, ShowSteps(S, s)) /\ Shown(s) = f[Len(s)]
<1> DEFINE N == Len(s)
           T == Seq(S)
           step == ShowSteps(S, s)
           F(f) == [n \in 0..N |->
                      IF n = 0 THEN <<>>
                      ELSE IF s[n] # NL THEN Append(f[n - 1], s[n])
                      ELSE IF n > 1 /\ s[n - 1] = CR THEN Front(f[n - 1]) ELSE f[n - 1]]
           shown == CHOOSE f : f = F(f)
<1>1. N \in Nat /\ <<>> \in T /\ step \in [1..N -> [T -> T]]
  BY ShowStepsType
<1>2. \A n \in 1..N, t \in T : step[n][t] = ShowRune(t, s, n)
  BY DEF ShowSteps
<1> HIDE DEF N, T, step
<1>3. PICK f : IsRecursion(f, N, T, <<>>, step)
  BY <1>1, RecursionExists
<1>4. f = F(f)
  <2>1. ASSUME NEW n \in 0..N PROVE f[n] = F(f)[n]
    <3>1. CASE n = 0
      BY <1>3, <3>1 DEF IsRecursion
    <3>2. CASE n # 0
      <4>1. n \in 1..N /\ n - 1 \in 0..N
        BY <1>1, <3>2
      <4>2. f[n] = ShowRune(f[n - 1], s, n)
        BY <1>2, <1>3, <4>1 DEF IsRecursion
      <4> QED
        BY <3>2, <4>2 DEF ShowRune
    <3> QED
      BY <3>1, <3>2
  <2> QED
    BY <1>3, <2>1 DEF IsRecursion
<1>5. shown = F(shown)
  BY <1>4
<1>6. Shown(s) = shown[N]
  BY DEF Shown, N
<1> HIDE DEF shown
<1>7. \A n \in 0..N : shown[n] = F(shown)[n]
  BY <1>5
<1>8. shown = [n \in 0..N |-> shown[n]] /\ shown[0] = <<>>
  BY <1>1, <1>5
<1>9. ASSUME NEW n \in 1..N, shown[n - 1] \in T PROVE shown[n] = step[n][shown[n - 1]]
  <2>1. n \in 0..N /\ n # 0
    BY <1>1
  <2>2. shown[n] = ShowRune(shown[n - 1], s, n)
    BY <1>7, <2>1 DEF ShowRune
  <2> QED
    BY <1>2, <1>9, <2>2
<1>10. IsRecursion(shown, N, T, <<>>, step)
  BY <1>1, <1>8, <1>9, RecursionHas
<1> QED
  BY <1>6, <1>10 DEF N, T, step

\* What is shown of an empty text, and of a text with one rune more.
LEMMA ShownProperties ==
  ASSUME NEW S, NEW s \in Seq(S)
  PROVE  /\ Shown(s) \in Seq(S)
         /\ s = <<>> => Shown(s) = <<>>
         /\ \A c \in S : Shown(Append(s, c)) =
              IF c # NL THEN Append(Shown(s), c)
              ELSE IF Ends(s, CR) THEN Front(Shown(s)) ELSE Shown(s)
<1> DEFINE N == Len(s)
<1>1. PICK f : IsRecursion(f, N, Seq(S), <<>>, ShowSteps(S, s)) /\ Shown(s) = f[N]
  BY ShownIsRecursion
<1>2. N \in Nat /\ Shown(s) \in Seq(S) /\ (s = <<>> => Shown(s) = <<>>)
  BY <1>1 DEF IsRecursion
<1>3. ASSUME NEW c \in S
      PROVE  Shown(Append(s, c)) = IF c # NL THEN Append(Shown(s), c)
                                   ELSE IF Ends(s, CR) THEN Front(Shown(s)) ELSE Shown(s)
  <2> DEFINE a == Append(s, c)
  <2>1. a \in Seq(S) /\ Len(a) = N + 1 /\ a[N + 1] = c /\ \A n \in 1..N : a[n] = s[n]
    BY AppendProperties
  <2> HIDE DEF a
  <2>2. PICK g : IsRecursion(g, N + 1, Seq(S), <<>>, ShowSteps(S, a)) /\ Shown(a) = g[N + 1]
    BY <2>1, ShownIsRecursion
  <2>3. \A n \in 1..N : ShowSteps(S, s)[n] = ShowSteps(S, a)[n]
    <3>1. ASSUME NEW n \in 1..N, NEW t PROVE ShowRune(t, s, n) = ShowRune(t, a, n)
      <4>1. a[n] = s[n] /\ (n > 1 => a[n - 1] = s[n - 1])
        BY <1>2, <2>1
      <4> QED
        BY <4>1 DEF ShowRune
    <3> QED
      BY <3>1, <1>2, <2>1 DEF ShowSteps
  <2>4. f[N] = g[N]
    <3>1. N + 1 \in Nat /\ N <= N + 1
      BY <1>2
    <3> QED
      BY <1>1, <1>2, <2>2, <2>3, <3>1, RecursionsAgree
  <2>5. g[N + 1] = ShowRune(g[N], a, N + 1)
    <3>1. N + 1 \in 1..N + 1 /\ (N + 1) - 1 = N /\ N \in 0..N + 1
      BY <1>2
    <3>2. g[N] \in Seq(S) /\ g[N + 1] = ShowSteps(S, a)[N + 1][g[N]]
      BY <2>2, <3>1 DEF IsRecursion
    <3> QED
      BY <2>1, <3>1, <3>2 DEF ShowSteps
  <2>6. Ends(s, CR) <=> N + 1 > 1 /\ a[(N + 1) - 1] = CR
    BY <1>2, <2>1 DEF Ends, Last
  <2> QED
    BY <1>1, <2>1, <2>2, <2>4, <2>5, <2>6 DEF ShowRune, a
<1> QED
  BY <1>2, <1>3

\* A text without a line end is shown as it is.
LEMMA ShownOfPlain ==
  ASSUME NEW S, NL \notin S PROVE \A s \in Seq(S) : Shown(s) = s
<1> DEFINE P == {s \in Seq(S) : Shown(s) = s}
<1>1. <<>> \in P
  <2>1. <<>> \in Seq(S)
    OBVIOUS
  <2> QED
    BY <2>1, ShownProperties
<1>2. ASSUME NEW s \in Seq(S), NEW c \in S, s \in P PROVE Append(s, c) \in P
  <2>1. c # NL /\ Shown(s) = s /\ Append(s, c) \in Seq(S)
    BY <1>2, AppendProperties
  <2> HIDE DEF P
  <2>2. Shown(Append(s, c)) = Append(s, c)
    BY <2>1, ShownProperties
  <2> QED
    BY <2>1, <2>2 DEF P
<1> HIDE DEF P
<1>3. Seq(S) \subseteq P
  BY <1>1, <1>2, OnSequences
<1> QED
  BY <1>3 DEF P

\* A text that ends in "\r" shows it.
LEMMA ShownOfCR ==
  ASSUME NEW S, NEW s \in Seq(S), Ends(s, CR) PROVE Shown(s) # <<>>
<1>1. s # <<>>
  BY DEF Ends
<1>2. PICK t \in Seq(S), c \in S : s = Append(t, c)
  BY <1>1, SequenceEmptyOrAppend
<1>3. c = CR /\ CR # NL
  BY <1>2, AppendEnds DEF CR, NL
<1>4. Shown(t) \in Seq(S) /\ Shown(s) = Append(Shown(t), c)
  BY <1>2, <1>3, ShownProperties
<1> QED
  BY <1>4, AppendProperties

\* How a text ends is how its second part ends.
LEMMA EndOfConcat ==
  ASSUME NEW S, NEW s \in Seq(S), NEW t \in Seq(S), NEW c
  PROVE  Ends(s \o t, c) <=> IF t = <<>> THEN Ends(s, c) ELSE Ends(t, c)
<1>1. CASE t = <<>>
  BY <1>1, ConcatEmptySeq
<1>2. CASE t # <<>>
  <2>1. PICK u \in Seq(S), d \in S : t = Append(u, d)
    BY <1>2, SequenceEmptyOrAppend
  <2>2. s \o t = Append(s \o u, d) /\ s \o u \in Seq(S)
    BY <2>1, ConcatAppend, ConcatProperties
  <2>3. Ends(t, c) <=> c = d
    BY <2>1, AppendEnds
  <2>4. Ends(s \o t, c) <=> c = d
    <3> DEFINE v == s \o u
    <3>1. v \in Seq(S) /\ s \o t = Append(v, d)
      BY <2>2
    <3> HIDE DEF v
    <3>2. Ends(Append(v, d), c) <=> c = d
      BY <3>1, AppendEnds
    <3> QED
      BY <3>1, <3>2
  <2> QED
    BY <1>2, <2>3, <2>4
<1> QED
  BY <1>1, <1>2

\* Two texts are shown one after the other when no "\r\n" is separated.
LEMMA ShownOfConcat ==
  ASSUME NEW S, NEW s \in Seq(S), ~Ends(s, CR)
  PROVE  \A t \in Seq(S) : Shown(s \o t) = Shown(s) \o Shown(t)
<1> DEFINE P == {t \in Seq(S) : Shown(s \o t) = Shown(s) \o Shown(t)}
<1>0. Shown(s) \in Seq(S)
  BY ShownProperties
<1>1. <<>> \in P
  <2>1. <<>> \in Seq(S)
    OBVIOUS
  <2>2. Shown(<<>>) = <<>> /\ s \o <<>> = s /\ Shown(s) \o <<>> = Shown(s)
    BY <1>0, <2>1, ShownProperties, ConcatEmptySeq
  <2> QED
    BY <2>1, <2>2
<1>2. ASSUME NEW t \in Seq(S), NEW c \in S, t \in P PROVE Append(t, c) \in P
  <2> HIDE DEF P
  <2>1. /\ s \o t \in Seq(S) /\ Append(t, c) \in Seq(S) /\ Shown(t) \in Seq(S)
        /\ s \o Append(t, c) = Append(s \o t, c)
    BY ConcatProperties, AppendProperties, ShownProperties, ConcatAppend
  <2>2. Shown(s \o t) = Shown(s) \o Shown(t)
    BY <1>2 DEF P
  <2>3. Shown(Append(s \o t, c)) = IF c # NL THEN Append(Shown(s \o t), c)
            ELSE IF Ends(s \o t, CR) THEN Front(Shown(s \o t)) ELSE Shown(s \o t)
    BY <2>1, ShownProperties
  <2>4. Shown(Append(t, c)) = IF c # NL THEN Append(Shown(t), c)
            ELSE IF Ends(t, CR) THEN Front(Shown(t)) ELSE Shown(t)
    BY ShownProperties
  <2>5. Ends(s \o t, CR) <=> Ends(t, CR)
    <3>1. ~Ends(<<>>, CR)
      BY DEF Ends
    <3> QED
      BY <3>1, EndOfConcat
  <2>6. Append(Shown(s) \o Shown(t), c) = Shown(s) \o Append(Shown(t), c)
    <3>1. \A a, b \in Seq(S) : a \o Append(b, c) = Append(a \o b, c)
      BY ConcatAppend
    <3> QED
      BY <1>0, <2>1, <3>1
  <2>7. Ends(t, CR) => Front(Shown(s) \o Shown(t)) = Shown(s) \o Front(Shown(t))
    BY <1>0, <2>1, ShownOfCR, FrontOfConcat
  <2>8. Shown(Append(s \o t, c)) = Shown(s) \o Shown(Append(t, c))
    BY <2>2, <2>3, <2>4, <2>5, <2>6, <2>7
  <2> QED
    BY <2>1, <2>8 DEF P
<1> HIDE DEF P
<1>3. Seq(S) \subseteq P
  BY <1>1, <1>2, OnSequences
<1> QED
  BY <1>3 DEF P

-----------------------------------------------------------------------------
\* All runes of the lines.

FlattenSteps(S, l) == [n \in 1..Len(l) |-> [t \in Seq(S) |-> t \o l[n]]]

LEMMA FlattenIsRecursion ==
  ASSUME NEW S, NEW l \in Seq(Seq(S))
  PROVE  \E f : IsRecursion(f, Len(l), Seq(S), <<>>, FlattenSteps(S, l)) /\ FlattenSeq(l) = f[Len(l)]
<1> DEFINE N == Len(l)
           T == Seq(S)
           step == FlattenSteps(S, l)
           F(f) == [i \in 1..N |-> IF i = 1 THEN l[i] ELSE f[i - 1] \o l[i]]
           flatten == CHOOSE f : f = F(f)
<1>1. N \in Nat /\ <<>> \in T /\ \A n \in 1..N : l[n] \in T
  OBVIOUS
<1>2. \A t \in T, u \in T : t \o u \in T
  BY ConcatProperties
<1>3. step \in [1..N -> [T -> T]] /\ \A n \in 1..N, t \in T : step[n][t] = t \o l[n]
  BY <1>1, <1>2 DEF FlattenSteps
<1>4. \A t \in T : <<>> \o t = t
  BY ConcatEmptySeq
<1>5. N = 0 => FlattenSeq(l) = <<>>
  <2>1. N = 0 => l = <<>>
    BY EmptySeq
  <2> QED
    BY <2>1 DEF FlattenSeq
<1>6. N # 0 => FlattenSeq(l) = flatten[N]
  BY DEF FlattenSeq
<1> HIDE DEF N, T, step
<1>7. PICK g : IsRecursion(g, N, T, <<>>, step)
  BY <1>1, <1>3, RecursionExists
<1> DEFINE h == [i \in 1..N |-> g[i]]
<1>8. h = F(h)
  <2>1. ASSUME NEW i \in 1..N PROVE h[i] = F(h)[i]
    <3>1. i - 1 \in 0..N /\ (i # 1 => i - 1 \in 1..N) /\ i \in 0..N
      BY <1>1
    <3>2. g[i] = g[i - 1] \o l[i] /\ g[0] = <<>>
      BY <1>3, <1>7, <3>1 DEF IsRecursion
    <3>3. CASE i = 1
      <4>1. l[1] \in T /\ <<>> \o l[1] = l[1]
        BY <1>1, <1>4, <3>3
      <4>2. g[1] = g[0] \o l[1]
        <5>1. i - 1 = 0
          BY <3>3
        <5> QED
          BY <3>2, <3>3, <5>1
      <4>3. g[1] = l[1]
        BY <3>2, <4>1, <4>2
      <4>4. h[i] = g[1] /\ F(h)[i] = l[1]
        BY <3>3
      <4> QED
        BY <4>3, <4>4
    <3>4. CASE i # 1
      BY <3>1, <3>2, <3>4
    <3> QED
      BY <3>3, <3>4
  <2> QED
    BY <2>1
<1>9. flatten = F(flatten)
  BY <1>8
<1> HIDE DEF flatten
<1>10. \A i \in 1..N : flatten[i] = F(flatten)[i]
  BY <1>9
<1> DEFINE k == [n \in 0..N |-> IF n = 0 THEN <<>> ELSE flatten[n]]
<1>11. k = [n \in 0..N |-> k[n]] /\ k[0] = <<>>
  BY <1>1
<1>12. ASSUME NEW n \in 1..N, k[n - 1] \in T PROVE k[n] = step[n][k[n - 1]]
  <2>1. n \in 0..N /\ n - 1 \in 0..N /\ n # 0 /\ (n # 1 => n - 1 # 0)
    BY <1>1
  <2>2. k[n] = flatten[n] /\ k[n - 1] = IF n = 1 THEN <<>> ELSE flatten[n - 1]
    BY <2>1
  <2>3. flatten[n] = IF n = 1 THEN l[n] ELSE flatten[n - 1] \o l[n]
    BY <1>10
  <2>4. step[n][k[n - 1]] = k[n - 1] \o l[n]
    BY <1>3, <1>12
  <2> HIDE DEF k
  <2> QED
    BY <1>1, <1>4, <2>2, <2>3, <2>4
<1> HIDE DEF k
<1>13. IsRecursion(k, N, T, <<>>, step)
  BY <1>1, <1>3, <1>11, <1>12, RecursionHas
<1>14. FlattenSeq(l) = k[N]
  BY <1>1, <1>5, <1>6 DEF k
<1> QED
  BY <1>13, <1>14 DEF N, T, step

LEMMA FlattenProperties ==
  ASSUME NEW S, NEW l \in Seq(Seq(S))
  PROVE  /\ FlattenSeq(l) \in Seq(S)
         /\ \A w \in Seq(S) : FlattenSeq(Append(l, w)) = FlattenSeq(l) \o w
<1> DEFINE N == Len(l)
<1>1. PICK f : IsRecursion(f, N, Seq(S), <<>>, FlattenSteps(S, l)) /\ FlattenSeq(l) = f[N]
  BY FlattenIsRecursion
<1>2. N \in Nat /\ FlattenSeq(l) \in Seq(S)
  BY <1>1 DEF IsRecursion
<1>3. ASSUME NEW w \in Seq(S) PROVE FlattenSeq(Append(l, w)) = FlattenSeq(l) \o w
  <2> DEFINE a == Append(l, w)
  <2>1. a \in Seq(Seq(S)) /\ Len(a) = N + 1 /\ a[N + 1] = w /\ \A n \in 1..N : a[n] = l[n]
    BY AppendProperties
  <2> HIDE DEF a
  <2>2. PICK g : IsRecursion(g, N + 1, Seq(S), <<>>, FlattenSteps(S, a)) /\ FlattenSeq(a) = g[N + 1]
    BY <2>1, FlattenIsRecursion
  <2>3. \A n \in 1..N : FlattenSteps(S, l)[n] = FlattenSteps(S, a)[n]
    <3>1. ASSUME NEW n \in 1..N PROVE FlattenSteps(S, l)[n] = FlattenSteps(S, a)[n]
      <4>1. n \in 1..Len(l) /\ n \in 1..Len(a) /\ a[n] = l[n]
        BY <1>2, <2>1
      <4>2. FlattenSteps(S, l)[n] = [t \in Seq(S) |-> t \o l[n]]
        BY <4>1 DEF FlattenSteps
      <4>3. FlattenSteps(S, a)[n] = [t \in Seq(S) |-> t \o a[n]]
        BY <4>1 DEF FlattenSteps
      <4> QED
        BY <4>1, <4>2, <4>3
    <3> QED
      BY <3>1
  <2>4. f[N] = g[N]
    <3>1. N + 1 \in Nat /\ N <= N + 1
      BY <1>2
    <3> QED
      BY <1>1, <1>2, <2>2, <2>3, <3>1, RecursionsAgree
  <2>5. g[N + 1] = g[N] \o w
    <3>1. N + 1 \in 1..N + 1 /\ (N + 1) - 1 = N /\ N \in 0..N + 1
      BY <1>2
    <3>2. g[N] \in Seq(S) /\ g[N + 1] = FlattenSteps(S, a)[N + 1][g[N]]
      BY <2>2, <3>1 DEF IsRecursion
    <3> QED
      BY <2>1, <3>1, <3>2 DEF FlattenSteps
  <2> QED
    BY <1>1, <2>2, <2>4, <2>5 DEF a
<1> QED
  BY <1>2, <1>3

-----------------------------------------------------------------------------
\* The lines of a text.

LEMMA LinesOfProperties ==
  ASSUME NEW S, NEW s \in Seq(S)
  PROVE  /\ LinesOf(s) \in Nat
         /\ NL \notin S => LinesOf(s) = 0
         /\ \A c \in S : LinesOf(Append(s, c)) = IF c = NL THEN LinesOf(s) + 1 ELSE LinesOf(s)
<1> DEFINE I == {i \in 1..Len(s) : s[i] = NL}
<1>1. Len(s) \in Nat
  OBVIOUS
<1>2. IsFiniteSet(I) /\ Cardinality(I) \in Nat
  <2>1. IsFiniteSet(1..Len(s))
    BY <1>1, FS_Interval
  <2>2. I \in SUBSET (1..Len(s))
    OBVIOUS
  <2> HIDE DEF I
  <2> QED
    BY <2>1, <2>2, FS_Subset, FS_CardinalityType
<1>3. NL \notin S => Cardinality(I) = 0
  <2>1. NL \notin S => I = {}
    OBVIOUS
  <2> QED
    BY <2>1, FS_EmptySet
<1>4. ASSUME NEW c \in S
      PROVE  LinesOf(Append(s, c)) = IF c = NL THEN LinesOf(s) + 1 ELSE LinesOf(s)
  <2> DEFINE a == Append(s, c)
             n == Len(s) + 1
             J == {i \in 1..Len(a) : a[i] = NL}
  <2>1. Len(a) = n /\ a[n] = c /\ \A i \in 1..Len(s) : a[i] = s[i]
    BY AppendProperties
  <2> HIDE DEF a
  <2>2. J = IF c = NL THEN I \cup {n} ELSE I
    BY <1>1, <2>1
  <2>3. n \notin I
    BY <1>1
  <2> HIDE DEF I, n, J
  <2>4. Cardinality(I \cup {n}) = Cardinality(I) + 1
    BY <1>2, <2>3, FS_AddElement
  <2>5. Cardinality(J) = IF c = NL THEN Cardinality(I) + 1 ELSE Cardinality(I)
    BY <2>2, <2>4
  <2> QED
    BY <2>5 DEF LinesOf, I, J, a
<1> QED
  BY <1>2, <1>3, <1>4 DEF LinesOf

LEMMA NoLines == LinesOf(<<>>) = 0
<1>1. {i \in 1..Len(<<>>) : <<>>[i] = NL} = {}
  OBVIOUS
<1> QED
  BY <1>1, FS_EmptySet DEF LinesOf

\* Two texts have the lines of both.
LEMMA LinesOfConcat ==
  ASSUME NEW S, NEW s \in Seq(S)
  PROVE  \A t \in Seq(S) : LinesOf(s \o t) = LinesOf(s) + LinesOf(t)
<1> DEFINE P == {t \in Seq(S) : LinesOf(s \o t) = LinesOf(s) + LinesOf(t)}
<1>1. <<>> \in P
  <2>1. <<>> \in Seq(S)
    OBVIOUS
  <2>2. LinesOf(<<>>) = 0
    BY NoLines
  <2>3. s \o <<>> = s /\ LinesOf(s) \in Nat
    BY ConcatEmptySeq, LinesOfProperties
  <2> QED
    BY <2>1, <2>2, <2>3
<1>2. ASSUME NEW t \in Seq(S), NEW c \in S, t \in P PROVE Append(t, c) \in P
  <2> HIDE DEF P
  <2>1. /\ s \o t \in Seq(S) /\ Append(t, c) \in Seq(S) /\ s \o Append(t, c) = Append(s \o t, c)
    BY ConcatProperties, AppendProperties, ConcatAppend
  <2>2. LinesOf(s \o t) = LinesOf(s) + LinesOf(t)
    BY <1>2 DEF P
  <2>3. LinesOf(Append(s \o t, c)) = IF c = NL THEN LinesOf(s \o t) + 1 ELSE LinesOf(s \o t)
    BY <2>1, LinesOfProperties
  <2>4. LinesOf(Append(t, c)) = IF c = NL THEN LinesOf(t) + 1 ELSE LinesOf(t)
    BY LinesOfProperties
  <2>5. LinesOf(s) \in Nat /\ LinesOf(t) \in Nat
    BY LinesOfProperties
  <2>6. LinesOf(Append(s \o t, c)) = LinesOf(s) + LinesOf(Append(t, c))
    BY <2>2, <2>3, <2>4, <2>5
  <2> QED
    BY <2>1, <2>6 DEF P
<1> HIDE DEF P
<1>3. Seq(S) \subseteq P
  BY <1>1, <1>2, OnSequences
<1> QED
  BY <1>3 DEF P

-----------------------------------------------------------------------------
\* The steps.

Runes == Letters \cup {CR, NL}
Plain == Letters \cup {CR}

LEMMA RunesFacts ==
  /\ NL \notin Plain /\ CR \in Plain /\ CR \in Runes /\ NL \in Runes
  /\ CR # NL /\ Plain \subseteq Runes
  /\ Seq(Plain) \subseteq Seq(Runes)
<1>1. CR # NL /\ NL \notin Letters
  BY LettersAssumption DEF CR, NL
<1>2. Plain \subseteq Runes
  BY DEF Plain, Runes
<1>3. Seq(Plain) \subseteq Seq(Runes)
  BY <1>2, SeqMonotonic
<1> QED
  BY <1>1, <1>2, <1>3 DEF Plain, Runes

LEMMA RunesConcat ==
  \A s, t, u \in Seq(Runes) : (s \o t) \o u = s \o (t \o u)
<1>1. \A S : \A s, t, u \in Seq(S) : (s \o t) \o u = s \o (t \o u)
  BY ConcatAssociative
<1> QED
  BY <1>1

\* What ReadLine takes from the buffer, and what it leaves.
LEMMA FirstLine ==
  ASSUME NEW s \in Seq(Runes), Contains(s, NL)
  PROVE  LET end == SelectInSeq(s, LAMBDA c : c = NL)
             w == WithoutEnd(SubSeq(s, 1, end))
             rest == SubSeq(s, end + 1, Len(s))
         IN /\ w \in Seq(Plain) /\ rest \in Seq(Runes) /\ Len(rest) <= Len(s)
            /\ Shown(s) = w \o Shown(rest)
            /\ LinesOf(s) = 1 + LinesOf(rest)
            /\ Ends(s, CR) <=> Ends(rest, CR)
<1> DEFINE I == {i \in 1..Len(s) : s[i] = NL}
           end == SelectInSeq(s, LAMBDA c : c = NL)
           pre == SubSeq(s, 1, end)
           q == SubSeq(s, 1, end - 1)
           rest == SubSeq(s, end + 1, Len(s))
<1>1. end \in I /\ \A j \in I : end <= j
  <2>1. I \subseteq Nat /\ I # {}
    BY DEF Contains
  <2>2. end = Min(I)
    BY <2>1 DEF SelectInSeq
  <2> HIDE DEF I, end
  <2>3. \E i \in I : \A j \in I : i <= j
    BY <2>1, Smallest
  <2>4. Min(I) \in I /\ \A j \in I : Min(I) <= j
    BY <2>3 DEF Min
  <2> QED
    BY <2>2, <2>4
<1> HIDE DEF end
<1>2. end \in 1..Len(s) /\ s[end] = NL /\ Len(s) \in Nat
  BY <1>1
<1>3. \A i \in 1..end - 1 : s[i] \in Plain
  <2>1. ASSUME NEW i \in 1..end - 1 PROVE s[i] \in Plain
    <3>1. i \in 1..Len(s) /\ ~ (end <= i)
      BY <1>2
    <3>2. s[i] \in Runes /\ s[i] # NL
      BY <1>1, <3>1
    <3> QED
      BY <3>2 DEF Runes, Plain
  <2> QED
    BY <2>1
<1>4. q \in Seq(Plain) /\ q \in Seq(Runes)
  <2>1. 1 \in Int /\ end - 1 \in Int
    BY <1>2
  <2>2. q \in Seq(Plain)
    BY <1>3, <2>1, SubSeqProperties
  <2> QED
    BY <2>2, RunesFacts
<1>5. pre = Append(q, NL)
  BY <1>2, NextPrefix
<1>6. rest \in Seq(Runes) /\ Len(rest) <= Len(s)
  BY <1>2
<1>7. s = pre \o rest
  <2>1. 1 \in 1..Len(s) + 1 /\ end \in 1 - 1..Len(s) /\ Len(s) \in end..Len(s)
    BY <1>2
  <2>2. SubSeq(s, 1, end) \o SubSeq(s, end + 1, Len(s)) = SubSeq(s, 1, Len(s))
    BY <2>1, ConcatAdjacentSubSeq
  <2> QED
    BY <2>2, SubSeqFull
<1> HIDE DEF pre, q, rest
<1> DEFINE w == WithoutEnd(pre)
<1>8. pre \in Seq(Runes) /\ Front(pre) = q /\ ~Ends(pre, CR)
  BY <1>4, <1>5, RunesFacts, AppendEnds
<1>9. w = IF Ends(q, CR) THEN Front(q) ELSE q
  BY <1>8 DEF WithoutEnd
<1>10. w \in Seq(Plain)
  <2>1. Ends(q, CR) => Front(q) \in Seq(Plain)
    <3>1. Ends(q, CR) => q # <<>>
      BY DEF Ends
    <3> QED
      BY <1>4, <3>1, EndsAreAll
  <2> QED
    BY <1>4, <1>9, <2>1
<1>11. Shown(pre) = w
  <2>1. Shown(q) = q
    BY <1>4, RunesFacts, ShownOfPlain
  <2>2. Shown(Append(q, NL)) = IF NL # NL THEN Append(Shown(q), NL)
                               ELSE IF Ends(q, CR) THEN Front(Shown(q)) ELSE Shown(q)
    BY <1>4, RunesFacts, ShownProperties
  <2> QED
    BY <1>5, <1>9, <2>1, <2>2
<1>12. Shown(s) = w \o Shown(rest)
  BY <1>6, <1>7, <1>8, <1>11, ShownOfConcat
<1>13. LinesOf(s) = 1 + LinesOf(rest)
  <2>1. LinesOf(q) = 0
    BY <1>4, RunesFacts, LinesOfProperties
  <2>2. LinesOf(Append(q, NL)) = IF NL = NL THEN LinesOf(q) + 1 ELSE LinesOf(q)
    BY <1>4, RunesFacts, LinesOfProperties
  <2>3. LinesOf(pre) = 1
    BY <1>5, <2>1, <2>2
  <2>4. LinesOf(s) = LinesOf(pre) + LinesOf(rest)
    BY <1>6, <1>7, <1>8, LinesOfConcat
  <2> QED
    BY <2>3, <2>4
<1>14. Ends(s, CR) <=> Ends(rest, CR)
  <2>1. ~Ends(<<>>, CR)
    BY DEF Ends
  <2>2. Ends(pre \o rest, CR) <=> IF rest = <<>> THEN Ends(pre, CR) ELSE Ends(rest, CR)
    BY <1>6, <1>8, EndOfConcat
  <2> QED
    BY <1>7, <1>8, <2>1, <2>2
<1> QED
  BY <1>6, <1>10, <1>12, <1>13, <1>14 DEF pre, rest, end

-----------------------------------------------------------------------------
\* The invariant.  NothingLost is not inductive: when "\n" comes, what has been
\* taken and the buffer must agree whether a "\r" stands before it.

Entries == logged \o line

EndsAgree ==
  /\ writing => text # <<>>
  /\ Ends(Taken, CR) <=> Ends(buffer, CR)

WriterInv == TypeOK /\ EndsAgree /\ NothingLost /\ LinesApart

LEMMA InvTypes ==
  ASSUME TypeOK, EndsAgree
  PROVE  /\ text \in Seq(Runes) /\ buffer \in Seq(Runes) /\ Taken \in Seq(Runes)
         /\ logged \in Seq(Seq(Plain)) /\ line \in Seq(Seq(Plain)) /\ Entries \in Seq(Seq(Plain))
         /\ Len(Entries) \in Nat /\ FlattenSeq(Entries) \in Seq(Runes)
         /\ Shown(buffer) \in Seq(Runes) /\ Shown(Taken) \in Seq(Runes)
         /\ LinesOf(buffer) \in Nat /\ LinesOf(Taken) \in Nat
<1>1. /\ text \in Seq(Runes) /\ buffer \in Seq(Runes)
      /\ logged \in Seq(Seq(Plain)) /\ line \in Seq(Seq(Plain))
  BY DEF TypeOK, Runes, Plain
<1>2. Taken \in Seq(Runes)
  BY <1>1, EndsAreAll DEF Taken, EndsAgree
<1>3. Entries \in Seq(Seq(Plain)) /\ Len(Entries) \in Nat
  BY <1>1, ConcatProperties DEF Entries
<1>4. FlattenSeq(Entries) \in Seq(Runes)
  BY <1>3, FlattenProperties, RunesFacts
<1>5. Shown(buffer) \in Seq(Runes) /\ Shown(Taken) \in Seq(Runes)
  BY <1>1, <1>2, ShownProperties
<1>6. LinesOf(buffer) \in Nat /\ LinesOf(Taken) \in Nat
  BY <1>1, <1>2, LinesOfProperties
<1> QED
  BY <1>1, <1>2, <1>3, <1>4, <1>5, <1>6

\* The two properties, of any entries, buffer and text.
Kept(e, b, t) == FlattenSeq(e) \o Shown(b) = Shown(t)
Apart(e, b, t) ==
  /\ Len(e) >= LinesOf(t) - LinesOf(b)
  /\ (\A i \in 1..Len(e) : Len(e[i]) < BufSize - 1) => Len(e) = LinesOf(t) - LinesOf(b)

LEMMA InEntries ==
  /\ NothingLost <=> Kept(Entries, buffer, Taken)
  /\ NothingLost' <=> Kept(Entries', buffer', Taken')
  /\ LinesApart <=> Apart(Entries, buffer, Taken)
  /\ LinesApart' <=> Apart(Entries', buffer', Taken')
<1>1. NothingLost <=> Kept(Entries, buffer, Taken)
  BY DEF NothingLost, Entries, Kept
<1>2. NothingLost' <=> Kept(Entries', buffer', Taken')
  BY DEF NothingLost, Entries, Kept
<1>3. LinesApart <=> Apart(Entries, buffer, Taken)
  BY DEF LinesApart, Entries, Apart
<1>4. LinesApart' <=> Apart(Entries', buffer', Taken')
  BY DEF LinesApart, Entries, Apart
<1> QED
  BY <1>1, <1>2, <1>3, <1>4

\* A step that changes none of these.
LEMMA NothingMoves ==
  ASSUME WriterInv, TypeOK', writing' => text' # <<>>,
         Taken' = Taken, buffer' = buffer, Entries' = Entries
  PROVE  WriterInv'
<1>1. EndsAgree'
  BY DEF WriterInv, EndsAgree
<1>2. NothingLost' /\ LinesApart'
  BY InEntries DEF WriterInv
<1> QED
  BY <1>1, <1>2 DEF WriterInv

LEMMA WriteStep ==
  ASSUME WriterInv, NEW c \in Runes, Write(c) PROVE WriterInv'
<1>1. text \in Seq(Runes)
  BY InvTypes DEF WriterInv
<1>2. text' = Append(text, c) /\ text' \in Seq(Runes) /\ Len(text') = Len(text) + 1 /\ Front(text') = text
  BY <1>1, AppendEnds DEF Write
<1>3. TypeOK'
  <2>1. Len(text) < MaxText /\ Len(text) \in Nat
    BY <1>1 DEF Write
  <2>2. text' \in Seq(Letters \cup {CR, NL}) /\ Len(text') <= MaxText
    BY <1>2, <2>1, SizesAssumption DEF Runes
  <2> QED
    BY <2>2 DEF WriterInv, TypeOK, Write
<1>4. Taken' = Taken
  BY <1>2 DEF Taken, Write
<1>5. text' # <<>>
  BY <1>1, <1>2, AppendProperties
<1>6. buffer' = buffer /\ Entries' = Entries
  BY DEF Write, Entries
<1> QED
  BY <1>3, <1>4, <1>5, <1>6, NothingMoves

LEMMA LogStep ==
  ASSUME WriterInv, Log PROVE WriterInv'
<1>1. /\ logged \in Seq(Seq(Plain)) /\ line \in Seq(Seq(Plain)) /\ Entries \in Seq(Seq(Plain))
  BY InvTypes DEF WriterInv
<1>2. CASE test' = "crashed"
  <2>1. UNCHANGED <<text, writing, buffer, line, logged>> /\ test' = "crashed"
    BY <1>2 DEF Log
  <2>2. TypeOK'
    BY <2>1 DEF WriterInv, TypeOK
  <2>3. Taken' = Taken /\ Entries' = Entries /\ (writing' => text' # <<>>)
    BY <2>1 DEF WriterInv, EndsAgree, Taken, Entries
  <2> QED
    BY <2>1, <2>2, <2>3, NothingMoves
<1>3. CASE test' # "crashed"
  <2>1. UNCHANGED <<text, writing, buffer, test>> /\ logged' = Entries /\ line' = <<>>
    BY <1>3 DEF Log, Entries
  <2>2. TypeOK'
    <3>1. logged' \in Seq(Seq(Letters \cup {CR}))
      BY <1>1, <2>1 DEF Plain
    <3>2. line' \in Seq(Seq(Letters \cup {CR})) /\ Len(line') <= 1
      BY <2>1
    <3> QED
      BY <2>1, <3>1, <3>2 DEF WriterInv, TypeOK
  <2>3. Entries' = Entries
    <3>1. Entries \o <<>> = Entries
      BY <1>1, ConcatEmptySeq
    <3>2. Entries' = logged' \o line'
      BY DEF Entries
    <3> QED
      BY <2>1, <3>1, <3>2
  <2>4. Taken' = Taken /\ (writing' => text' # <<>>)
    BY <2>1 DEF WriterInv, EndsAgree, Taken
  <2> QED
    BY <2>1, <2>2, <2>3, <2>4, NothingMoves
<1> QED
  BY <1>2, <1>3

\* bufio takes the rune that is written: what is shown of it and what is shown of
\* all that was taken change in the same way.
LEMMA FillStep ==
  ASSUME WriterInv, Fill PROVE WriterInv'
<1> DEFINE c == Last(text)
<1>1. /\ text \in Seq(Runes) /\ buffer \in Seq(Runes) /\ Taken \in Seq(Runes)
      /\ FlattenSeq(Entries) \in Seq(Runes) /\ Shown(buffer) \in Seq(Runes)
      /\ LinesOf(buffer) \in Nat /\ LinesOf(Taken) \in Nat
  BY InvTypes DEF WriterInv
<1>2. writing /\ text # <<>> /\ Taken = Front(text)
  BY DEF WriterInv, EndsAgree, Fill, Taken
<1>3. c \in Runes /\ text = Append(Taken, c)
  BY <1>1, <1>2, EndsAreAll
<1>4. Taken' = Append(Taken, c) /\ buffer' = Append(buffer, c)
  BY <1>3 DEF Fill, Taken
<1>5. Entries' = Entries
  BY DEF Fill, Entries
<1> HIDE DEF c
<1>6. /\ buffer' \in Seq(Runes) /\ Len(buffer') = Len(buffer) + 1
      /\ Ends(Taken', CR) <=> c = CR
      /\ Ends(buffer', CR) <=> c = CR
  BY <1>1, <1>3, <1>4, AppendEnds
<1>7. TypeOK'
  <2>1. Len(buffer) < BufSize /\ Len(buffer) \in Nat
    BY <1>1, SizesAssumption DEF Fill, Full
  <2>2. buffer' \in Seq(Letters \cup {CR, NL}) /\ Len(buffer') <= BufSize
    BY <1>6, <2>1, SizesAssumption DEF Runes
  <2> QED
    BY <2>2 DEF WriterInv, TypeOK, Fill
<1>8. EndsAgree'
  BY <1>6 DEF EndsAgree, Fill
<1>9. NothingLost'
  <2> DEFINE F == FlattenSeq(Entries)
             b == Shown(buffer)
  <2>1. Shown(Taken) = F \o b
    BY InEntries DEF WriterInv, Kept
  <2>2. Shown(Append(Taken, c)) = IF c # NL THEN Append(Shown(Taken), c)
            ELSE IF Ends(Taken, CR) THEN Front(Shown(Taken)) ELSE Shown(Taken)
    BY <1>1, <1>3, ShownProperties
  <2>3. Shown(Append(buffer, c)) = IF c # NL THEN Append(Shown(buffer), c)
            ELSE IF Ends(buffer, CR) THEN Front(Shown(buffer)) ELSE Shown(buffer)
    BY <1>1, <1>3, ShownProperties
  <2>4. Ends(Taken, CR) <=> Ends(buffer, CR)
    BY DEF WriterInv, EndsAgree
  <2>5. F \in Seq(Runes) /\ b \in Seq(Runes)
    BY <1>1
  <2>6. Ends(buffer, CR) => b # <<>>
    BY <1>1, ShownOfCR
  <2>7. F \o Append(b, c) = Append(F \o b, c) /\ (b # <<>> => Front(F \o b) = F \o Front(b))
    <3> HIDE DEF F, b
    <3>1. \A s, t \in Seq(Runes) : s \o Append(t, c) = Append(s \o t, c)
      BY <1>3, ConcatAppend
    <3>2. \A s, t \in Seq(Runes) : t # <<>> => Front(s \o t) = s \o Front(t)
      BY FrontOfConcat
    <3> QED
      BY <2>5, <3>1, <3>2
  <2>8. F \o Shown(Append(buffer, c)) = Shown(Append(Taken, c))
    BY <2>1, <2>2, <2>3, <2>4, <2>6, <2>7
  <2> QED
    BY <1>4, <1>5, <2>8, InEntries DEF Kept
<1>10. LinesApart'
  <2>1. LinesOf(Append(Taken, c)) = IF c = NL THEN LinesOf(Taken) + 1 ELSE LinesOf(Taken)
    BY <1>1, <1>3, LinesOfProperties
  <2>2. LinesOf(Append(buffer, c)) = IF c = NL THEN LinesOf(buffer) + 1 ELSE LinesOf(buffer)
    BY <1>1, <1>3, LinesOfProperties
  <2>3. LinesOf(Taken') - LinesOf(buffer') = LinesOf(Taken) - LinesOf(buffer)
    BY <1>1, <1>4, <2>1, <2>2
  <2>4. Apart(Entries, buffer, Taken)
    BY InEntries DEF WriterInv
  <2> QED
    BY <1>5, <2>3, <2>4, InEntries DEF Apart
<1> QED
  BY <1>7, <1>8, <1>9, <1>10 DEF WriterInv

\* The reading steps: a line w leaves the buffer.
LEMMA NewEntry ==
  ASSUME WriterInv, NEW w \in Seq(Plain), line = <<>>, line' = <<w>>, logged' = logged
  PROVE  /\ Entries' = Append(Entries, w) /\ Len(Entries') = Len(Entries) + 1
         /\ Entries'[Len(Entries) + 1] = w
         /\ \A i \in 1..Len(Entries) : Entries'[i] = Entries[i]
         /\ FlattenSeq(Entries') = FlattenSeq(Entries) \o w
<1>1. logged \in Seq(Seq(Plain))
  BY InvTypes DEF WriterInv
<1>2. Entries = logged
  BY <1>1, ConcatEmptySeq DEF Entries
<1>3. Entries' = Append(logged, w)
  <2>1. Entries' = logged \o <<w>>
    BY DEF Entries
  <2> QED
    BY <1>1, <2>1, AppendIsConcat
<1>4. /\ Len(Append(logged, w)) = Len(logged) + 1 /\ Append(logged, w)[Len(logged) + 1] = w
      /\ \A i \in 1..Len(logged) : Append(logged, w)[i] = logged[i]
  BY <1>1, AppendProperties
<1>5. FlattenSeq(Append(logged, w)) = FlattenSeq(logged) \o w
  BY <1>1, FlattenProperties
<1> QED
  BY <1>2, <1>3, <1>4, <1>5

LEMMA NewLineType ==
  ASSUME TypeOK, NEW w \in Seq(Plain), line' = <<w>>, UNCHANGED <<text, writing, logged, test>>,
         buffer' \in Seq(Runes), Len(buffer') <= BufSize
  PROVE  TypeOK'
<1>1. line' \in Seq(Seq(Letters \cup {CR})) /\ Len(line') <= 1
  BY DEF Plain
<1>2. buffer' \in Seq(Letters \cup {CR, NL})
  BY DEF Runes
<1> QED
  BY <1>1, <1>2 DEF TypeOK

\* When the buffer was shown as w before what it shows now, nothing is lost.
LEMMA MovedToEntry ==
  ASSUME WriterInv, NEW w \in Seq(Plain), line = <<>>, line' = <<w>>, logged' = logged,
         Taken' = Taken, buffer' \in Seq(Runes), Shown(buffer) = w \o Shown(buffer')
  PROVE  NothingLost'
<1> DEFINE F == FlattenSeq(Entries)
           b == Shown(buffer')
<1>1. F \in Seq(Runes) /\ b \in Seq(Runes) /\ w \in Seq(Runes)
  BY InvTypes, ShownProperties, RunesFacts DEF WriterInv
<1>2. F \o (w \o b) = Shown(Taken)
  BY InEntries DEF WriterInv, Kept
<1>3. (F \o w) \o b = F \o (w \o b)
  <2> HIDE DEF F, b
  <2> QED
    BY <1>1, RunesConcat
<1>4. FlattenSeq(Entries') = F \o w
  BY NewEntry
<1> QED
  BY <1>2, <1>3, <1>4, InEntries DEF Kept

LEMMA ReadLineStep ==
  ASSUME WriterInv, ReadLine PROVE WriterInv'
<1> DEFINE end == SelectInSeq(buffer, LAMBDA c : c = NL)
           w == WithoutEnd(SubSeq(buffer, 1, end))
           rest == SubSeq(buffer, end + 1, Len(buffer))
<1>1. /\ buffer \in Seq(Runes) /\ Len(Entries) \in Nat
      /\ LinesOf(buffer) \in Nat /\ LinesOf(Taken) \in Nat
  BY InvTypes DEF WriterInv
<1>2. /\ w \in Seq(Plain) /\ rest \in Seq(Runes) /\ Len(rest) <= Len(buffer)
      /\ Shown(buffer) = w \o Shown(rest)
      /\ LinesOf(buffer) = 1 + LinesOf(rest)
      /\ Ends(buffer, CR) <=> Ends(rest, CR)
  <2>1. Contains(buffer, NL)
    BY DEF ReadLine, HasLine
  <2> QED
    BY <1>1, <2>1, FirstLine
<1>3. line = <<>> /\ line' = <<w>> /\ buffer' = rest /\ UNCHANGED <<text, writing, logged, test>>
  BY DEF ReadLine
<1>4. Taken' = Taken
  BY <1>3 DEF Taken
<1> HIDE DEF end, w, rest
<1>5. LinesOf(rest) \in Nat
  BY <1>2, LinesOfProperties
<1>6. TypeOK'
  <2>1. Len(buffer) <= BufSize /\ Len(buffer) \in Nat /\ Len(rest) \in Nat
    BY <1>1, <1>2 DEF WriterInv, TypeOK
  <2>2. Len(buffer') <= BufSize
    BY <1>2, <1>3, <2>1, SizesAssumption
  <2> QED
    BY <1>2, <1>3, <2>2, NewLineType DEF WriterInv
<1>7. EndsAgree'
  BY <1>2, <1>3, <1>4 DEF WriterInv, EndsAgree
<1>8. NothingLost'
  BY <1>2, <1>3, <1>4, MovedToEntry
<1>9. LinesApart'
  <2>1. /\ Len(Entries') = Len(Entries) + 1
        /\ \A i \in 1..Len(Entries) : Entries'[i] = Entries[i]
    BY <1>2, <1>3, NewEntry
  <2>2. LinesOf(Taken') - LinesOf(buffer') = (LinesOf(Taken) - LinesOf(buffer)) + 1
    BY <1>1, <1>2, <1>3, <1>4, <1>5
  <2>3. Apart(Entries, buffer, Taken)
    BY InEntries DEF WriterInv
  <2>4. Len(Entries') >= LinesOf(Taken') - LinesOf(buffer')
    BY <1>1, <2>1, <2>2, <2>3 DEF Apart
  <2>5. ASSUME \A i \in 1..Len(Entries') : Len(Entries'[i]) < BufSize - 1
        PROVE  Len(Entries') = LinesOf(Taken') - LinesOf(buffer')
    <3>1. \A i \in 1..Len(Entries) : Len(Entries[i]) < BufSize - 1
      BY <1>1, <2>1, <2>5
    <3> QED
      BY <1>1, <2>1, <2>2, <2>3, <3>1 DEF Apart
  <2> QED
    BY <2>4, <2>5, InEntries DEF Apart
<1> QED
  BY <1>6, <1>7, <1>8, <1>9 DEF WriterInv

\* The piece of a longer line is as long as the buffer, but for a "\r".
LEMMA ReadPrefixStep ==
  ASSUME WriterInv, ReadPrefix PROVE WriterInv'
<1> DEFINE w == IF Ends(buffer, CR) THEN Front(buffer) ELSE buffer
           rest == IF Ends(buffer, CR) THEN <<CR>> ELSE <<>>
<1>1. /\ Len(Entries) \in Nat /\ LinesOf(Taken) \in Nat
  BY InvTypes DEF WriterInv
<1>2. line = <<>> /\ line' = <<w>> /\ buffer' = rest /\ UNCHANGED <<text, writing, logged, test>>
  BY DEF ReadPrefix
<1>3. Taken' = Taken
  BY <1>2 DEF Taken
<1>4. buffer \in Seq(Plain) /\ Len(buffer) = BufSize
  <2>1. buffer \in Seq(Runes)
    BY InvTypes DEF WriterInv
  <2>2. \A i \in 1..Len(buffer) : buffer[i] \in Plain
    BY <2>1 DEF ReadPrefix, HasLine, Contains, Runes, Plain
  <2>3. buffer \in Seq(Plain)
    <3>1. buffer = SubSeq(buffer, 1, Len(buffer)) /\ 1 \in Int /\ Len(buffer) \in Int
      BY <2>1, SubSeqFull
    <3> QED
      BY <2>2, <3>1, SubSeqProperties
  <2> QED
    BY <2>1, <2>3, SizesAssumption DEF ReadPrefix, Full, WriterInv, TypeOK
<1>5. /\ w \in Seq(Plain) /\ rest \in Seq(Plain) /\ buffer = w \o rest
      /\ Len(w) >= BufSize - 1 /\ Len(rest) <= 1
      /\ Ends(buffer, CR) <=> Ends(rest, CR)
  <2>1. CASE Ends(buffer, CR)
    <3>1. buffer # <<>> /\ Last(buffer) = CR
      BY <2>1 DEF Ends
    <3>2. Front(buffer) \in Seq(Plain) /\ Len(Front(buffer)) = Len(buffer) - 1 /\ buffer = Append(Front(buffer), CR)
      BY <1>4, <3>1, EndsAreAll
    <3>3. buffer = Front(buffer) \o <<CR>>
      BY <3>2, AppendIsConcat, RunesFacts
    <3>4. <<CR>> \in Seq(Plain) /\ Len(<<CR>>) = 1 /\ Ends(<<CR>>, CR)
      BY RunesFacts DEF Ends, Last
    <3> QED
      BY <1>4, <2>1, <3>2, <3>3, <3>4, SizesAssumption
  <2>2. CASE ~Ends(buffer, CR)
    <3>1. ~Ends(<<>>, CR) /\ buffer \o <<>> = buffer
      BY <1>4, ConcatEmptySeq DEF Ends
    <3> QED
      BY <1>4, <2>2, <3>1, SizesAssumption
  <2> QED
    BY <2>1, <2>2
<1> HIDE DEF w, rest
<1>6. rest \in Seq(Runes) /\ Len(rest) \in Nat /\ Len(w) \in Nat
  BY <1>5, RunesFacts
<1>7. TypeOK'
  <2>1. Len(buffer') <= BufSize
    BY <1>2, <1>5, <1>6, SizesAssumption
  <2> QED
    BY <1>2, <1>5, <1>6, <2>1, NewLineType DEF WriterInv
<1>8. EndsAgree'
  BY <1>2, <1>3, <1>5 DEF WriterInv, EndsAgree
<1>9. NothingLost'
  <2>1. Shown(buffer) = w \o Shown(rest)
    BY <1>4, <1>5, RunesFacts, ShownOfPlain
  <2> QED
    BY <1>2, <1>3, <1>5, <1>6, <2>1, MovedToEntry
<1>10. LinesApart'
  <2>1. Len(Entries') = Len(Entries) + 1 /\ Entries'[Len(Entries) + 1] = w
    BY <1>2, <1>5, NewEntry
  <2>2. LinesOf(buffer) = 0 /\ LinesOf(rest) = 0
    BY <1>4, <1>5, RunesFacts, LinesOfProperties
  <2>3. Len(Entries) >= LinesOf(Taken) - LinesOf(buffer)
    BY InEntries DEF WriterInv, Apart
  <2>4. Len(Entries') >= LinesOf(Taken') - LinesOf(buffer')
    BY <1>1, <1>2, <1>3, <2>1, <2>2, <2>3
  <2>5. ~ \A i \in 1..Len(Entries') : Len(Entries'[i]) < BufSize - 1
    <3>1. Len(Entries) + 1 \in 1..Len(Entries') /\ ~ (Len(w) < BufSize - 1)
      BY <1>1, <1>5, <1>6, <2>1, SizesAssumption
    <3> QED
      BY <2>1, <3>1
  <2> QED
    BY <2>4, <2>5, InEntries DEF Apart
<1> QED
  BY <1>7, <1>8, <1>9, <1>10 DEF WriterInv

LEMMA WriterInvInductive ==
  Spec => []WriterInv
<1>1. Init => WriterInv
  <2> SUFFICES ASSUME Init PROVE WriterInv
    OBVIOUS
  <2>1. TypeOK
    <3>1. \A S : <<>> \in Seq(S)
      OBVIOUS
    <3>2. Len(<<>>) = 0 /\ 0 <= MaxText /\ 0 <= BufSize /\ 0 <= 1
      BY SizesAssumption
    <3>3. /\ text = <<>> /\ buffer = <<>> /\ line = <<>> /\ logged = <<>>
          /\ writing \in BOOLEAN /\ test \in {"running", "over", "crashed"}
      BY DEF Init
    <3> HIDE DEF Init
    <3>4. text \in Seq(Letters \cup {CR, NL}) /\ Len(text) <= MaxText
      BY <3>1, <3>2, <3>3
    <3>5. buffer \in Seq(Letters \cup {CR, NL}) /\ Len(buffer) <= BufSize
      BY <3>1, <3>2, <3>3
    <3>6. line \in Seq(Seq(Letters \cup {CR})) /\ Len(line) <= 1
      BY <3>1, <3>2, <3>3
    <3> QED
      BY <3>1, <3>3, <3>4, <3>5, <3>6 DEF TypeOK
  <2>2. Taken = <<>> /\ buffer = <<>> /\ writing = FALSE
    BY DEF Init, Taken
  <2>3. EndsAgree
    BY <2>2 DEF EndsAgree
  <2>4. Entries = <<>>
    BY DEF Init, Entries
  <2>5. Shown(<<>>) = <<>>
    <3>1. \A s \in Seq(Runes) : s = <<>> => Shown(s) = <<>>
      BY ShownProperties
    <3>2. <<>> \in Seq(Runes)
      OBVIOUS
    <3> QED
      BY <3>1, <3>2
  <2>6. FlattenSeq(<<>>) = <<>>
    BY DEF FlattenSeq
  <2>7. Kept(Entries, buffer, Taken)
    <3>1. <<>> \o <<>> = <<>>
      OBVIOUS
    <3> QED
      BY <2>2, <2>4, <2>5, <2>6, <3>1 DEF Kept
  <2>8. Apart(Entries, buffer, Taken)
    <3>1. LinesOf(<<>>) = 0
      BY NoLines
    <3> QED
      BY <2>2, <2>4, <3>1 DEF Apart
  <2> QED
    BY <2>1, <2>3, <2>7, <2>8, InEntries DEF WriterInv
<1>2. WriterInv /\ [Next]_vars => WriterInv'
  <2> SUFFICES ASSUME WriterInv, [Next]_vars PROVE WriterInv'
    OBVIOUS
  <2>1. ASSUME NEW c \in Letters \cup {CR, NL}, Write(c) PROVE WriterInv'
    BY <2>1, WriteStep DEF Runes
  <2>2. CASE TestEnds
    <3>1. UNCHANGED <<text, writing, buffer, line, logged>> /\ test' = "over"
      BY <2>2 DEF TestEnds
    <3>2. TypeOK'
      BY <3>1 DEF WriterInv, TypeOK
    <3>3. Taken' = Taken /\ Entries' = Entries /\ (writing' => text' # <<>>)
      BY <3>1 DEF WriterInv, EndsAgree, Taken, Entries
    <3> QED
      BY <3>1, <3>2, <3>3, NothingMoves
  <2>3. CASE GoroutineStep
    BY <2>3, FillStep, ReadLineStep, ReadPrefixStep, LogStep DEF GoroutineStep
  <2>4. CASE UNCHANGED vars
    <3>1. TypeOK'
      BY <2>4 DEF WriterInv, TypeOK, vars
    <3>2. /\ Taken' = Taken /\ Entries' = Entries /\ buffer' = buffer
          /\ writing' => text' # <<>>
      BY <2>4 DEF WriterInv, EndsAgree, Taken, Entries, vars
    <3> QED
      BY <3>1, <3>2, NothingMoves
  <2> QED
    BY <2>1, <2>2, <2>3, <2>4 DEF Next
<1> QED
  BY <1>1, <1>2, PTL DEF Spec

\* Every variable has its type: lines hold no line ends, the buffer does not outgrow
\* its size, one line is in hand at a time.
THEOREM TypeCorrect ==
  Spec => []TypeOK
<1>1. WriterInv => TypeOK
  BY DEF WriterInv
<1> QED
  BY <1>1, WriterInvInductive, PTL

\* testWriter and bufio: the log and the buffer hold all that was taken, in order.
THEOREM NothingIsLost ==
  Spec => []NothingLost
<1>1. WriterInv => NothingLost
  BY DEF WriterInv
<1> QED
  BY <1>1, WriterInvInductive, PTL

\* Every line end that was taken has its entry; only a line that fills the buffer
\* has more.
THEOREM LinesStayApart ==
  Spec => []LinesApart
<1>1. WriterInv => LinesApart
  BY DEF WriterInv
<1> QED
  BY <1>1, WriterInvInductive, PTL
=============================================================================
