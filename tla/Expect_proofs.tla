---------------------------- MODULE Expect_proofs ----------------------------
(***************************************************************************)
(* Proofs about Expect, for every alphabet, every set of conditions (All   *)
(* and Any of any size, any number of alternatives and callbacks), and     *)
(* every number of calls and runes: Expect stops at the first moment its   *)
(* conditions say, and says so.                                            *)
(***************************************************************************)
EXTENDS Expect, Induction, SequenceTheorems, TLAPS

\* The options of the current Expect are one of those it may be called with.
OptsInv ==
  /\ Len(opts.conds) \in Nat /\ DOMAIN opts.conds = 1..Len(opts.conds)
  /\ \A i \in DOMAIN opts.conds : opts.conds[i].then \in Seq({"ok", "fails"})
  /\ DOMAIN rest = DOMAIN opts.conds
  /\ matched \in 0..Len(opts.conds)
  /\ pc \in {"idle", "loop", "read", "callback", "observe"}
  /\ pc \in {"loop", "read"} => matched = 0
  /\ pc = "callback" => matched # 0

\* allMatcher still holds exactly the members that were never met.
RestInv ==
  \A i \in DOMAIN opts.conds :
    opts.conds[i].kind = "all" => rest[i] = {c \in opts.conds[i].of : ~Once(c, views)}

\* What will be returned says whether Expect succeeded.
ErrInv ==
  pc = "observe" =>
    (err = "nil" <=> (matched # 0 /\ Failing(opts.conds[matched].then) = {}))

(***************************************************************************)
(* The inductive invariant.                                                *)
(***************************************************************************)
IInv == OptsInv /\ RestInv /\ StopsAtFirst /\ ErrInv /\ ToldWhatIsReturned

-----------------------------------------------------------------------------
(***************************************************************************)
(* Match(v) is the first condition that v meets.                           *)
(***************************************************************************)
LEMMA MatchIsFirst ==
  ASSUME OptsInv, NEW v
  PROVE  /\ Match(v) \in 0..Len(opts.conds)
         /\ Match(v) = 0 => \A i \in DOMAIN opts.conds : ~Matches(i, v)
         /\ Match(v) # 0 => /\ Matches(Match(v), v)
                            /\ \A i \in 1..Match(v) - 1 : ~Matches(i, v)
<1> DEFINE met == {i \in 1..Len(opts.conds) : Matches(i, v)}
<1>1. DOMAIN opts.conds = 1..Len(opts.conds) /\ Len(opts.conds) \in Nat
  BY DEF OptsInv
<1>2. CASE met = {}
  BY <1>1, <1>2 DEF Match
<1>3. CASE met # {}
  <2>1. \E i \in met : \A j \in met : i <= j
    <3>1. met \subseteq Nat /\ met # {}
      BY <1>3, <1>1
    <3>2. QED
      BY <3>1, Smallest
  <2>2. Match(v) = CHOOSE i \in met : \A j \in met : i <= j
    BY <1>3 DEF Match
  <2>3. Match(v) \in met /\ \A j \in met : Match(v) <= j
    BY <2>1, <2>2
  <2>4. QED
    BY <1>1, <2>3
<1>4. QED
  BY <1>2, <1>3

(***************************************************************************)
(* The algorithm of All, which forgets the members it has seen met, agrees *)
(* with what All means, and so for the other conditions.                   *)
(***************************************************************************)
LEMMA MatchesAgree ==
  ASSUME OptsInv, RestInv, NEW v, views' = views \cup {v}, opts' = opts,
         NEW i \in DOMAIN opts.conds, views # {} => ~Met(opts.conds[i], views)
  PROVE  Matches(i, v) <=> Met(opts.conds[i], views')
<1> DEFINE c == opts.conds[i]
<1>1. \A m : Once(m, views') <=> (Once(m, views) \/ Meets(m, v))
  BY DEF Once
<1>2. c.kind = "all" =>
        ((\A m \in rest[i] : Meets(m, v)) <=> \A m \in c.of : Once(m, views'))
  BY <1>1 DEF RestInv
<1>3. ~Once(c, views) /\ (c.kind = "any" => \A m \in c.of : ~Once(m, views))
  BY DEF Met, Once
<1>4. c.kind = "any" =>
        ((\E m \in c.of : Meets(m, v)) <=> \E m \in c.of : Once(m, views'))
  BY <1>1, <1>3
<1>5. QED
  BY <1>1, <1>2, <1>3, <1>4 DEF Matches, Met

\* Showing the conditions something keeps the account of All, and leaves
\* matched at the first condition that is met now.
LEMMA ShowInv ==
  ASSUME IInv, pc = "read", NEW v, Show(v), opts' = opts
  PROVE  /\ RestInv' /\ DOMAIN rest' = DOMAIN opts.conds
         /\ matched' \in 0..Len(opts.conds)
         /\ matched' = 0 => \A i \in DOMAIN opts.conds : ~Met(opts.conds[i], views')
         /\ matched' # 0 => /\ Met(opts.conds[matched'], views')
                            /\ \A i \in 1..matched' - 1 : ~Met(opts.conds[i], views')
<1> USE DEF IInv
<1>1. views' = views \cup {v} /\ matched' = Match(v)
  BY DEF Show
<1>2. \A i \in DOMAIN opts.conds : views # {} => ~Met(opts.conds[i], views)
  BY DEF OptsInv, StopsAtFirst
<1>3. \A i \in DOMAIN opts.conds : Matches(i, v) <=> Met(opts.conds[i], views')
  BY <1>1, <1>2, MatchesAgree
<1>4. DOMAIN rest' = DOMAIN opts.conds
  BY DEF Show, OptsInv
<1>5. RestInv'
  <2>1. SUFFICES ASSUME NEW i \in DOMAIN opts.conds, opts.conds[i].kind = "all"
                 PROVE  rest'[i] = {c \in opts.conds[i].of : ~Once(c, views')}
    BY DEF RestInv
  <2>2. rest'[i] = {c \in rest[i] : ~Meets(c, v)}
    BY <2>1 DEF Show, Rest, OptsInv
  <2>3. rest[i] = {c \in opts.conds[i].of : ~Once(c, views)}
    BY <2>1 DEF RestInv
  <2>4. \A c : Once(c, views') <=> (Once(c, views) \/ Meets(c, v))
    BY <1>1 DEF Once
  <2>5. QED
    BY <2>2, <2>3, <2>4
<1>6. OptsInv /\ Len(opts.conds) \in Nat /\ DOMAIN opts.conds = 1..Len(opts.conds)
  BY DEF OptsInv
<1>7. matched' \in 0..Len(opts.conds)
  BY <1>1, <1>6, MatchIsFirst
<1>8. matched' = 0 => \A i \in DOMAIN opts.conds : ~Met(opts.conds[i], views')
  BY <1>1, <1>3, <1>6, MatchIsFirst
<1>9. matched' # 0 => /\ Matches(matched', v)
                     /\ \A i \in 1..matched' - 1 : ~Matches(i, v)
  BY <1>1, <1>6, MatchIsFirst
<1>10. matched' # 0 => /\ matched' \in DOMAIN opts.conds
                      /\ \A i \in 1..matched' - 1 : i \in DOMAIN opts.conds
  <2> DEFINE n == matched'
  <2>1. n \in 0..Len(opts.conds)
    BY <1>7
  <2> HIDE DEF n
  <2>2. n # 0 => n \in 1..Len(opts.conds) /\ \A i \in 1..n - 1 : i \in 1..Len(opts.conds)
    BY <1>6, <2>1
  <2>3. QED
    BY <1>6, <2>2 DEF n
<1>11. matched' # 0 => /\ Met(opts.conds[matched'], views')
                      /\ \A i \in 1..matched' - 1 : ~Met(opts.conds[i], views')
  BY <1>3, <1>9, <1>10
<1>12. QED
  BY <1>4, <1>5, <1>7, <1>8, <1>11

-----------------------------------------------------------------------------
\* NewConsole establishes the invariant.
LEMMA InitInv == Init => IInv
<1> SUFFICES ASSUME Init PROVE IInv
  OBVIOUS
<1> USE DEF Init, Opts
<1>1. OptsInv
  BY DEF OptsInv
<1>2. RestInv /\ StopsAtFirst /\ ErrInv /\ ToldWhatIsReturned
  BY DEF RestInv, StopsAtFirst, ErrInv, ToldWhatIsReturned
<1>3. QED
  BY <1>1, <1>2 DEF IInv

\* The invariant depends on no variable that these steps change.
LEMMA PassiveInv ==
  ASSUME IInv, UNCHANGED <<local, ends>>,
         \/ UNCHANGED pc
         \/ pc = "loop" /\ pc' = "read"
  PROVE  IInv'
<1> USE DEF local, ends, IInv
<1>1. OptsInv'
  BY DEF OptsInv
<1>2. RestInv'
  BY DEF RestInv, Once
<1>3. StopsAtFirst'
  BY DEF StopsAtFirst, Met, Once
<1>4. ErrInv' /\ ToldWhatIsReturned'
  BY DEF ErrInv, ToldWhatIsReturned, Failing
<1>5. QED
  BY <1>1, <1>2, <1>3, <1>4

\* Expect begins with all members of All to be met, and ends at once if an
\* option fails.
LEMMA CallInv == ASSUME IInv, NEW o \in OptionSets, CallExpect(o) PROVE IInv'
<1> USE DEF IInv, CallExpect
<1>1. OptsInv'
  BY OptionsAssumption DEF OptsInv
<1>2. RestInv'
  BY DEF RestInv, Once
<1>3. StopsAtFirst'
  BY DEF StopsAtFirst
<1>4. ErrInv' /\ ToldWhatIsReturned'
  BY DEF ErrInv, ToldWhatIsReturned
<1>5. QED
  BY <1>1, <1>2, <1>3, <1>4

\* A rune is shown to the conditions, or refused by a writer.
LEMMA RuneInv ==
  ASSUME IInv, NEW c, ReadRune(c) \/ WriteRefused(c) PROVE IInv'
<1> USE DEF IInv, local, ends
<1>1. CASE ReadRune(c)
  <2> USE <1>1 DEF ReadRune, Put
  <2>1. PICK v : Show(v)
    OBVIOUS
  <2>2. /\ RestInv' /\ DOMAIN rest' = DOMAIN opts.conds
        /\ matched' \in 0..Len(opts.conds)
        /\ matched' = 0 => \A i \in DOMAIN opts.conds : ~Met(opts.conds[i], views')
        /\ matched' # 0 => /\ Met(opts.conds[matched'], views')
                           /\ \A i \in 1..matched' - 1 : ~Met(opts.conds[i], views')
    BY <2>1, ShowInv
  <2>3. OptsInv'
    BY <2>2 DEF OptsInv
  <2>4. StopsAtFirst'
    BY <2>2 DEF StopsAtFirst, Met, Once
  <2>5. ErrInv' /\ ToldWhatIsReturned'
    BY DEF ErrInv, ToldWhatIsReturned
  <2>6. QED
    BY <2>2, <2>3, <2>4, <2>5
<1>2. CASE WriteRefused(c)
  <2> USE <1>2 DEF WriteRefused, Put
  <2>1. OptsInv' /\ ErrInv' /\ ToldWhatIsReturned'
    BY DEF OptsInv, ErrInv, ToldWhatIsReturned
  <2>2. RestInv'
    BY DEF RestInv, Once
  <2>3. StopsAtFirst'
    BY DEF OptsInv, StopsAtFirst, Met, Once
  <2>4. QED
    BY <2>1, <2>2, <2>3
<1>3. QED
  BY <1>1, <1>2

\* An error of the read is shown to the conditions.
LEMMA ErrorInv == ASSUME IInv, NEW e \in Errors, ReadFails(e) PROVE IInv'
<1> USE DEF IInv, ReadFails, ends, screen
<1>1. /\ RestInv' /\ DOMAIN rest' = DOMAIN opts.conds
      /\ matched' \in 0..Len(opts.conds)
      /\ matched' = 0 => \A i \in DOMAIN opts.conds : ~Met(opts.conds[i], views')
      /\ matched' # 0 => /\ Met(opts.conds[matched'], views')
                         /\ \A i \in 1..matched' - 1 : ~Met(opts.conds[i], views')
  BY ShowInv
<1>2. OptsInv'
  BY <1>1 DEF OptsInv
<1>3. StopsAtFirst'
  BY <1>1 DEF StopsAtFirst, Met, Once
<1>4. ErrInv' /\ ToldWhatIsReturned'
  BY DEF ErrInv, ToldWhatIsReturned, Errors
<1>5. QED
  BY <1>1, <1>2, <1>3, <1>4

\* The callbacks run and the observers are told.
LEMMA EndInv == IInv /\ (Callback \/ Observe) => IInv'
<1> SUFFICES ASSUME IInv, Callback \/ Observe PROVE IInv'
  OBVIOUS
<1> USE DEF IInv, screen, local, ends
<1>1. OptsInv'
  BY DEF OptsInv, Callback, Observe
<1>2. RestInv'
  BY DEF RestInv, Once, Callback, Observe
<1>3. StopsAtFirst'
  BY DEF OptsInv, StopsAtFirst, Met, Once, Callback, Observe
<1>4. ErrInv'
  BY DEF OptsInv, ErrInv, Failing, Callback, Observe
<1>5. ToldWhatIsReturned'
  <2>1. CASE Callback
    BY <2>1 DEF Callback, ToldWhatIsReturned
  <2>2. CASE Observe
    BY <2>2 DEF Observe, Told, Reported, ErrInv, ToldWhatIsReturned, Failing
  <2>3. QED
    BY <2>1, <2>2
<1>6. QED
  BY <1>1, <1>2, <1>3, <1>4, <1>5

(***************************************************************************)
(* The invariant holds in every reachable state.                           *)
(***************************************************************************)
THEOREM Invariance == Spec => []IInv
<1>1. Init => IInv
  BY InitInv
<1>2. IInv /\ [Next]_vars => IInv'
  <2> SUFFICES ASSUME IInv, [Next]_vars PROVE IInv'
    OBVIOUS
  <2>1. CASE SetReadDeadline \/ Expire \/ UNCHANGED vars
    BY <2>1, PassiveInv DEF SetReadDeadline, Expire, vars
  <2>2. CASE \E o \in OptionSets : CallExpect(o)
    BY <2>2, CallInv
  <2>3. CASE \E c \in Letters \cup {"cr", "nul"} : ReadRune(c) \/ WriteRefused(c)
    BY <2>3, RuneInv
  <2>4. CASE \E e \in Errors : ReadFails(e)
    BY <2>4, ErrorInv
  <2>5. CASE Callback \/ Observe
    BY <2>5, EndInv
  <2>6. QED
    BY <2>1, <2>2, <2>3, <2>4, <2>5 DEF Next
<1>3. QED
  BY <1>1, <1>2, PTL DEF Spec

-----------------------------------------------------------------------------
(* The properties of Expect.                                                *)

\* Every step keeps the types.
LEMMA TypeInv == IInv /\ TypeOK /\ [Next]_vars => TypeOK'
<1> SUFFICES ASSUME IInv, TypeOK, [Next]_vars PROVE TypeOK'
  OBVIOUS
<1> USE BoundsAssumption DEF TypeOK, IInv, OptsInv, screen, local, ends, Errors, Cells, Opts
<1>1. ASSUME NEW o \in OptionSets, CallExpect(o) PROVE TypeOK'
  <2> USE <1>1 DEF CallExpect
  <2>1. opts' \in OptionSets /\ matched' \in 0..Len(opts'.conds)
    BY OptionsAssumption
  <2>2. /\ told' \in [1..Observers -> {<<>>} \cup {<<e>> : e \in Errors \cup {"nil", "write", "callback"}}]
    OBVIOUS
  <2>3. buf' \in Seq(Letters \cup {"cr", "nul"}) /\ Len(buf') <= runes'
    <3> DEFINE Runes == Letters \cup {"cr", "nul"}
    <3>1. <<>> \in Seq(Runes) /\ Len(<<>>) = 0 /\ runes' = runes /\ 0 <= runes
      OBVIOUS
    <3>2. buf \in Seq(Runes) /\ Len(buf) <= runes
      OBVIOUS
    <3>3. CASE buf' = buf
      BY <3>1, <3>2, <3>3
    <3>4. CASE buf' = <<>>
      BY <3>1, <3>4
    <3>5. QED
      BY <3>3, <3>4
  <2>4. pc' \in {"idle", "loop"} /\ result' \in {result, "option"}
    OBVIOUS
  <2>5. QED
    BY <2>1, <2>2, <2>3, <2>4
<1>2. CASE SetReadDeadline \/ Expire
  BY SMTT(40), <1>2 DEF SetReadDeadline, Expire
<1>3. ASSUME NEW c \in Letters \cup {"cr", "nul"}, Put(c)
      PROVE  /\ line' \in [Cells -> Letters \cup {"blank"}]
             /\ cursor' \in 0..runes' /\ mark \in 0..runes' /\ runes' \in 0..MaxRunes
             /\ runes' = runes + 1 /\ back' \in BOOLEAN
  BY <1>3 DEF Put, LineAfter, CursorAfter
<1>4. ASSUME NEW c \in Letters \cup {"cr", "nul"}, WriteRefused(c) PROVE TypeOK'
  BY <1>3, <1>4 DEF WriteRefused
<1>5. ASSUME NEW c \in Letters \cup {"cr", "nul"}, ReadRune(c) PROVE TypeOK'
  <2>1. matched' \in 0..Len(opts.conds)
    BY <1>5, MatchIsFirst DEF ReadRune, Show
  <2>2. /\ buf' \in Seq(Letters \cup {"cr", "nul"}) /\ Len(buf') = Len(buf) + 1
        /\ mark' \in {mark, cursor'}
    BY <1>5 DEF ReadRune, MarkMatch
  <2>3. QED
    BY SMTT(40), <1>3, <1>5, <2>1, <2>2 DEF ReadRune
<1>6. ASSUME NEW e \in Errors, ReadFails(e) PROVE TypeOK'
  <2>1. matched' \in 0..Len(opts.conds)
    BY <1>6, MatchIsFirst DEF ReadFails, Show
  <2>2. QED
    BY <1>6, <2>1 DEF ReadFails
<1>7. CASE Callback
  <2>1. matched \in DOMAIN opts.conds
    BY <1>7 DEF Callback
  <2> DEFINE then == opts.conds[matched].then
  <2>2. then \in Seq({"ok", "fails"})
    BY <2>1
  <2>3. Len(then) \in Nat /\ Failing(then) \subseteq Nat
    <3>1. Len(then) \in Nat /\ DOMAIN then = 1..Len(then)
      BY <2>2
    <3>2. QED
      BY <3>1 DEF Failing
  <2>4. ran' \in Nat /\ err' \in {"nil", "callback"}
    <3>1. CASE Failing(then) = {}
      BY <1>7, <2>3, <3>1 DEF Callback
    <3>2. CASE Failing(then) # {}
      <4>1. \E i \in Failing(then) : \A j \in Failing(then) : i <= j
        BY <2>3, <3>2, Smallest
      <4>2. QED
        BY <1>7, <2>3, <3>2, <4>1 DEF Callback
    <3>3. QED
      BY <3>1, <3>2
  <2>5. QED
    BY <1>7, <2>4 DEF Callback
<1>8. CASE Observe
  BY <1>8 DEF Observe, Told, Reported
<1>9. CASE UNCHANGED vars
  BY <1>9 DEF vars
<1>10. QED
  BY <1>1, <1>2, <1>4, <1>5, <1>6, <1>7, <1>8, <1>9 DEF Next

\* Type correctness.
THEOREM TypeCorrect == Spec => []TypeOK
<1>1. Init => TypeOK
  <2> SUFFICES ASSUME Init PROVE TypeOK
    OBVIOUS
  <2> USE BoundsAssumption DEF Init, Cells
  <2>1. /\ line \in [Cells -> Letters \cup {"blank"}]
        /\ cursor \in 0..runes /\ mark \in 0..runes /\ runes \in 0..MaxRunes
        /\ calls \in 0..MaxExpects
    OBVIOUS
  <2>2. /\ buf \in Seq(Letters \cup {"cr", "nul"}) /\ Len(buf) <= runes /\ ran \in Nat
        /\ matched \in 0..Len(opts.conds)
    BY DEF Opts
  <2>3. told \in [1..Observers -> {<<>>} \cup {<<e>> : e \in Errors \cup {"nil", "write", "callback"}}]
    OBVIOUS
  <2>4. QED
    BY <2>1, <2>2, <2>3 DEF TypeOK, Errors
<1>2. QED
  BY <1>1, TypeInv, Invariance, PTL DEF Spec

\* Expect ends with the first of its conditions, as soon as it is met.
THEOREM StopsAtFirstCondition == Spec => []StopsAtFirst
<1>1. IInv => StopsAtFirst
  BY DEF IInv
<1>2. QED
  BY <1>1, Invariance, PTL

\* What Expect returns is success or failure as the conditions and callbacks
\* had it, and the first observer is told.
THEOREM ReportsTruthfully == Spec => []ToldWhatIsReturned
<1>1. IInv => ToldWhatIsReturned
  BY DEF IInv
<1>2. QED
  BY <1>1, Invariance, PTL

-----------------------------------------------------------------------------
(* Nothing is missed.                                                       *)

\* Expect reads, and the cursor was never moved back.
Reading == pc \in {"loop", "read"} /\ ~back

\* What this Expect has printed stands in front of the cursor and behind the last
\* match, and holds nothing that is waited for.
ReadInv ==
  /\ ~back => mark <= cursor
  /\ Reading => \E start \in mark..cursor : Printed(buf) = SubSeq(line, start + 1, cursor)
  /\ Reading /\ buf # <<>> =>
       \A i \in DOMAIN opts.conds :
         opts.conds[i].kind \in {"string", "regexp"} =>
           ~Contains(Printed(buf), opts.conds[i].arg)

\* One step of Printed.
PrintRune(text, r) == IF r = "nul" THEN text ELSE Append(text, r)

\* The recursion of Printed has a solution, which is what it stands for.
LEMMA PrintedExists ==
  ASSUME NEW S, NEW text \in Seq(S)
  PROVE  \E f \in [0..Len(text) -> Seq(S)] :
           /\ f[0] = <<>> /\ \A n \in 1..Len(text) : f[n] = PrintRune(f[n - 1], text[n])
           /\ Printed(text) = f[Len(text)]
<1> DEFINE N == Len(text)
           step == [n \in 1..N |-> [t \in Seq(S) |-> PrintRune(t, text[n])]]
           F(f) == [n \in 0..N |-> IF n = 0 THEN <<>>
                                   ELSE IF text[n] = "nul" THEN f[n - 1]
                                   ELSE Append(f[n - 1], text[n])]
           printed == CHOOSE f : f = F(f)
<1>1. N \in Nat /\ \A n \in 1..N : text[n] \in S
  OBVIOUS
<1>2. \A n \in 1..N, t \in Seq(S) : step[n][t] = PrintRune(t, text[n]) /\ PrintRune(t, text[n]) \in Seq(S)
  BY <1>1 DEF PrintRune
<1>3. step \in [1..N -> [Seq(S) -> Seq(S)]]
  BY <1>2
<1> HIDE DEF step
<1>4. PICK f \in [0..N -> Seq(S)] : f[0] = <<>> /\ \A n \in 1..N : f[n] = step[n][f[n - 1]]
  <2> DEFINE T == Seq(S)
             base == <<>>
  <2>1. N \in Nat /\ base \in T /\ step \in [1..N -> [T -> T]]
    BY <1>1, <1>3
  <2> HIDE DEF N, T, base
  <2>2. \E f : IsRecursion(f, N, T, base, step)
    BY <2>1, RecursionExists
  <2> QED
    BY <2>2 DEF IsRecursion, T, base
<1>5. f = F(f)
  <2>1. ASSUME NEW n \in 0..N PROVE f[n] = F(f)[n]
    <3>1. CASE n = 0
      BY <1>4, <3>1
    <3>2. CASE n # 0
      <4>1. n \in 1..N /\ n - 1 \in 0..N
        BY <3>2
      <4>2. f[n] = PrintRune(f[n - 1], text[n])
        BY <1>2, <1>4, <4>1
      <4> QED
        BY <3>2, <4>2 DEF PrintRune
    <3> QED
      BY <3>1, <3>2
  <2> QED
    BY <2>1
<1>6. printed = F(printed) /\ Printed(text) = printed[N]
  BY <1>5 DEF Printed
<1> HIDE DEF printed
<1>7. printed[0] = <<>> /\ \A n \in 1..N : printed[n] = PrintRune(printed[n - 1], text[n])
  <2>1. \A n \in 0..N : printed[n] = IF n = 0 THEN <<>>
                                   ELSE IF text[n] = "nul" THEN printed[n - 1]
                                   ELSE Append(printed[n - 1], text[n])
    BY <1>6
  <2> HIDE DEF F
  <2>2. 0 \in 0..N /\ \A n \in 1..N : n \in 0..N /\ n # 0
    BY <1>1
  <2> QED
    BY <2>1, <2>2 DEF PrintRune
<1>8. \A n \in 0..N : printed[n] \in Seq(S)
  <2> DEFINE P == {n \in 0..N : printed[n] \in Seq(S)}
  <2> HIDE DEF F, N
  <2>0. <<>> \in Seq(S)
    OBVIOUS
  <2>1. 0 \in P
    <3>1. 0 \in 0..N /\ printed[0] \in Seq(S)
      BY <1>1, <1>7, <2>0
    <3> QED
      BY <3>1
  <2>2. ASSUME NEW n \in 1..N, n - 1 \in P PROVE n \in P
    <3>1. n \in 0..N /\ printed[n - 1] \in Seq(S) /\ printed[n] = PrintRune(printed[n - 1], text[n])
      BY <1>1, <1>7, <2>2
    <3>2. PrintRune(printed[n - 1], text[n]) \in Seq(S)
      BY <1>2, <3>1
    <3> QED
      BY <3>1, <3>2
  <2> HIDE DEF P
  <2>3. 0..N \subseteq P
    BY <1>1, <2>1, <2>2, UpTo
  <2> QED
    BY <2>3 DEF P
<1>9. printed \in [0..N -> Seq(S)]
  <2>1. printed = [n \in 0..N |-> printed[n]]
    BY <1>6
  <2> QED
    BY <1>8, <2>1
<1> QED
  BY <1>6, <1>7, <1>9

\* What is printed of an empty text, and of a text with one rune more.
LEMMA PrintedProperties ==
  ASSUME NEW S, NEW text \in Seq(S)
  PROVE  /\ Printed(text) \in Seq(S)
         /\ text = <<>> => Printed(text) = <<>>
         /\ \A r \in S : Printed(Append(text, r)) = PrintRune(Printed(text), r)
<1>1. PICK f \in [0..Len(text) -> Seq(S)] :
        /\ f[0] = <<>> /\ \A n \in 1..Len(text) : f[n] = PrintRune(f[n - 1], text[n])
        /\ Printed(text) = f[Len(text)]
  BY PrintedExists
<1>2. Printed(text) \in Seq(S) /\ (text = <<>> => Printed(text) = <<>>)
  BY <1>1
<1>3. ASSUME NEW r \in S PROVE Printed(Append(text, r)) = PrintRune(Printed(text), r)
  <2> DEFINE more == Append(text, r)
             N == Len(text)
  <2>1. more \in Seq(S) /\ Len(more) = N + 1 /\ N \in Nat /\ more[N + 1] = r
        /\ \A n \in 1..N : more[n] = text[n]
    BY AppendProperties
  <2> HIDE DEF more, N
  <2>2. PICK g \in [0..N + 1 -> Seq(S)] :
          /\ g[0] = <<>> /\ \A n \in 1..N + 1 : g[n] = PrintRune(g[n - 1], more[n])
          /\ Printed(more) = g[N + 1]
    <3>1. \E g \in [0..Len(more) -> Seq(S)] :
            /\ g[0] = <<>> /\ \A n \in 1..Len(more) : g[n] = PrintRune(g[n - 1], more[n])
            /\ Printed(more) = g[Len(more)]
      BY <2>1, PrintedExists, Zenon
    <3> QED
      BY <2>1, <3>1
  <2> DEFINE P == {n \in 0..N : g[n] = f[n]}
  <2>3. 0 \in P
    BY <1>1, <2>1, <2>2
  <2>4. ASSUME NEW n \in 1..N, n - 1 \in P PROVE n \in P
    <3>1. f[n] = PrintRune(f[n - 1], text[n]) /\ g[n] = PrintRune(g[n - 1], more[n])
      BY <1>1, <2>1, <2>2 DEF N
    <3> QED
      BY <2>1, <2>4, <3>1
  <2> HIDE DEF P
  <2>5. N \in P
    <3>1. 0..N \subseteq P
      BY <2>1, <2>3, <2>4, UpTo
    <3> QED
      BY <2>1, <3>1
  <2>6. g[N + 1] = PrintRune(g[N], r)
    BY <2>1, <2>2
  <2> QED
    BY <1>1, <2>2, <2>5, <2>6 DEF P, N, more
<1> QED
  BY <1>2, <1>3

\* The p cells behind the first a.
LEMMA PartProperties ==
  ASSUME NEW S, NEW l \in Seq(S), NEW a \in Nat, NEW p \in Nat, a + p <= Len(l)
  PROVE  /\ SubSeq(l, a + 1, a + p) \in Seq(S) /\ Len(SubSeq(l, a + 1, a + p)) = p
         /\ \A x \in 1..p : SubSeq(l, a + 1, a + p)[x] = l[a + x]
  OBVIOUS

\* A part of a part of the line is a part of the line.
LEMMA PartOfPart ==
  ASSUME NEW S, NEW l \in Seq(S), NEW n \in 0..Len(l), NEW m \in 0..n,
         NEW i \in Nat, NEW p \in Nat, i + p <= n - m
  PROVE  SubSeq(SubSeq(l, m + 1, n), i + 1, i + p) = SubSeq(l, m + i + 1, m + i + p)
<1> DEFINE part == SubSeq(l, m + 1, n)
<1>1. /\ part \in Seq(S) /\ Len(part) = n - m
      /\ \A x \in 1..n - m : part[x] = l[m + x]
  OBVIOUS
<1> HIDE DEF part
<1>2. /\ SubSeq(part, i + 1, i + p) \in Seq(S) /\ Len(SubSeq(part, i + 1, i + p)) = p
      /\ \A x \in 1..p : SubSeq(part, i + 1, i + p)[x] = part[i + x]
  BY <1>1
<1>3. /\ SubSeq(l, m + i + 1, m + i + p) \in Seq(S) /\ Len(SubSeq(l, m + i + 1, m + i + p)) = p
      /\ \A x \in 1..p : SubSeq(l, m + i + 1, m + i + p)[x] = l[m + i + x]
  <2> DEFINE a == m + i
  <2>1. a \in Nat /\ a + p <= Len(l)
    OBVIOUS
  <2> HIDE DEF a
  <2>2. /\ SubSeq(l, a + 1, a + p) \in Seq(S) /\ Len(SubSeq(l, a + 1, a + p)) = p
        /\ \A x \in 1..p : SubSeq(l, a + 1, a + p)[x] = l[a + x]
    BY <2>1, PartProperties
  <2> QED
    BY <2>2 DEF a
<1>4. \A x \in 1..p : part[i + x] = l[m + i + x]
  BY <1>1
<1> DEFINE a == SubSeq(part, i + 1, i + p)
           b == SubSeq(l, m + i + 1, m + i + p)
<1>5. a \in Seq(S) /\ b \in Seq(S) /\ Len(a) = Len(b) /\ \A x \in 1..Len(a) : a[x] = b[x]
  BY <1>2, <1>3, <1>4
<1> HIDE DEF a, b
<1>6. a = b
  BY <1>5, SeqEqual
<1> QED
  BY <1>6 DEF a, b, part

\* What stands in the line behind start stands behind every earlier mark.
LEMMA FoundSinceMark ==
  ASSUME NEW S, NEW l \in Seq(S), NEW n \in 0..Len(l), NEW start \in 0..n, NEW from \in 0..start,
         NEW s, Len(s) \in Nat, Contains(SubSeq(l, start + 1, n), s)
  PROVE  Contains(SubSeq(l, from + 1, n), s)
<1>1. PICK i \in 0..(n - start) - Len(s) :
        SubSeq(SubSeq(l, start + 1, n), i + 1, i + Len(s)) = s
  <2>1. Len(SubSeq(l, start + 1, n)) = n - start
    OBVIOUS
  <2> QED
    BY <2>1 DEF Contains
<1> DEFINE p == Len(s)
           j == start - from + i
<1>2. i \in Nat /\ p \in Nat /\ i + p <= n - start
  BY <1>1
<1>3. j \in Nat /\ j + p <= n - from /\ n - from \in Nat
  BY <1>2
<1>4. SubSeq(l, start + i + 1, start + i + p) = s
  BY <1>1, <1>2, PartOfPart
<1>5. SubSeq(SubSeq(l, from + 1, n), j + 1, j + p) = SubSeq(l, from + j + 1, from + j + p)
  <2> HIDE DEF j, p
  <2> QED
    BY <1>2, <1>3, PartOfPart
<1>6. from + j = start + i
  BY <1>2
<1> HIDE DEF j
<1>7. SubSeq(SubSeq(l, from + 1, n), j + 1, j + p) = s
  BY <1>4, <1>5, <1>6
<1>8. Len(SubSeq(l, from + 1, n)) = n - from /\ j \in 0..(n - from) - p
  BY <1>2, <1>3
<1> QED
  BY <1>7, <1>8 DEF Contains

\* Only the empty string is found in an empty text, and it ends every text.
LEMMA EmptyIsAtTheEnd ==
  ASSUME NEW S, NEW t \in Seq(S), NEW s, Len(s) \in Nat, Contains(<<>>, s)
  PROVE  EndsWith(t, s)
<1> DEFINE none == SubSeq(<<>>, 1, 0)
<1>1. Len(s) = 0 /\ s = none
  BY DEF Contains
<1>2. none = <<>>
  OBVIOUS
<1>3. Len(t) \in Nat /\ Len(t) - 0 + 1 = Len(t) + 1 /\ SubSeq(t, Len(t) + 1, Len(t)) = <<>>
  OBVIOUS
<1> HIDE DEF none
<1> QED
  BY <1>1, <1>2, <1>3 DEF EndsWith

\* It ends at the cursor, or stood there before the last letter.
LEMMA FoundBeforeCursor ==
  ASSUME NEW S, NEW l \in Seq(S), NEW n \in 0..Len(l), NEW start \in 0..n,
         NEW s, Len(s) \in Nat, Contains(SubSeq(l, start + 1, n), s)
  PROVE  \/ EndsWith(SubSeq(l, 1, n), s)
         \/ start < n /\ Contains(SubSeq(l, start + 1, n - 1), s)
<1> DEFINE p == Len(s)
<1>0. Len(SubSeq(l, start + 1, n)) = n - start
  OBVIOUS
<1>1. PICK i \in 0..(n - start) - Len(s) :
        SubSeq(SubSeq(l, start + 1, n), i + 1, i + Len(s)) = s
  BY <1>0 DEF Contains
<1>2. i \in Nat /\ p \in Nat /\ i + p <= n - start
  BY <1>1
<1>3. SubSeq(l, start + i + 1, start + i + p) = s
  BY <1>1, <1>2, PartOfPart
<1>4. CASE i + p = n - start
  <2> DEFINE j == start + i
  <2>1. j \in Nat /\ j + p = n /\ 0 \in 0..n
    BY <1>2, <1>4
  <2> HIDE DEF j, p
  <2>2. SubSeq(SubSeq(l, 0 + 1, n), j + 1, j + p) = SubSeq(l, 0 + j + 1, 0 + j + p)
    BY <1>2, <2>1, PartOfPart
  <2>3. SubSeq(SubSeq(l, 1, n), j + 1, n) = s
    BY <1>3, <2>1, <2>2 DEF j, p
  <2>4. Len(SubSeq(l, 1, n)) = n /\ j + 1 = n - p + 1 /\ p <= n
    BY <1>2, <2>1
  <2> QED
    BY <2>3, <2>4 DEF EndsWith, p
<1>5. CASE i + p # n - start
  <2>1. /\ start < n /\ n - 1 \in 0..Len(l) /\ start \in 0..n - 1
        /\ i + p <= n - 1 - start /\ i \in 0..(n - 1 - start) - p
    BY <1>2, <1>5
  <2>2. SubSeq(SubSeq(l, start + 1, n - 1), i + 1, i + p) = SubSeq(l, start + i + 1, start + i + p)
    <3> DEFINE m == n - 1
    <3> HIDE DEF m, p
    <3>1. m \in 0..Len(l) /\ start \in 0..m /\ i + p <= m - start
      BY <2>1 DEF m
    <3>2. SubSeq(SubSeq(l, start + 1, m), i + 1, i + p) = SubSeq(l, start + i + 1, start + i + p)
      BY <1>2, <3>1, PartOfPart
    <3> QED
      BY <3>2 DEF m
  <2>3. Len(SubSeq(l, start + 1, n - 1)) = n - 1 - start
    BY <2>1
  <2> QED
    BY <1>3, <2>1, <2>2, <2>3 DEF Contains
<1> QED
  BY <1>4, <1>5

Runes == Letters \cup {"cr", "nul"}
Written == Letters \cup {"blank"}

\* What a rune that does not move the cursor back does to the text behind start.
LEMMA TextGrows ==
  ASSUME TypeOK, NEW c \in Letters \cup {"nul"}, Put(c), runes < MaxRunes,
         NEW start \in 0..cursor, Printed(buf) = SubSeq(line, start + 1, cursor)
  PROVE  /\ Printed(Append(buf, c)) = SubSeq(line', start + 1, cursor')
         /\ c \in Letters => cursor' = cursor + 1 /\ SubSeq(line', start + 1, cursor) = Printed(buf)
         /\ c = "nul" => Printed(Append(buf, c)) = Printed(buf)
<1>1. /\ buf \in Seq(Runes) /\ line \in Seq(Written) /\ Len(line) = MaxRunes
      /\ cursor \in 0..MaxRunes - 1 /\ c \in Runes /\ MaxRunes \in Nat
  <2>1. MaxRunes \in Nat /\ line \in [1..MaxRunes -> Written]
    BY BoundsAssumption DEF TypeOK, Written, Cells
  <2>2. cursor \in 0..MaxRunes - 1 /\ c \in Runes /\ buf \in Seq(Runes)
    BY <2>1 DEF TypeOK, Runes
  <2> QED
    BY <2>1, <2>2
<1>2. Printed(Append(buf, c)) = PrintRune(Printed(buf), c)
  BY <1>1, PrintedProperties
<1>3. CASE c = "nul"
  <2>1. line' = line /\ cursor' = cursor
    BY <1>3, LettersAssumption DEF Put, LineAfter, CursorAfter
  <2> QED
    BY <1>2, <1>3, <2>1, LettersAssumption DEF PrintRune
<1>4. CASE c \in Letters
  <2>1. line' = [line EXCEPT ![cursor + 1] = c] /\ cursor' = cursor + 1 /\ c # "nul"
    BY <1>4, LettersAssumption DEF Put, LineAfter, CursorAfter
  <2> DEFINE l == [line EXCEPT ![cursor + 1] = c]
             p == cursor - start
  <2>2. /\ l \in Seq(Written) /\ Len(l) = MaxRunes /\ l[cursor + 1] = c
        /\ \A x \in 1..cursor : l[x] = line[x]
    BY <1>1, <1>4 DEF Written
  <2> HIDE DEF l
  <2>3. p \in Nat /\ start \in Nat /\ start + p = cursor /\ start + (p + 1) = cursor + 1
    BY <1>1
  <2> HIDE DEF p
  <2> DEFINE a == SubSeq(line, start + 1, start + p)
             b == SubSeq(l, start + 1, start + p)
             d == SubSeq(l, start + 1, start + (p + 1))
             e == Append(a, c)
  <2>4. a \in Seq(Written) /\ Len(a) = p /\ \A x \in 1..p : a[x] = line[start + x]
    BY <1>1, <2>3, PartProperties
  <2>5. b \in Seq(Written) /\ Len(b) = p /\ \A x \in 1..p : b[x] = l[start + x]
    BY <1>1, <2>2, <2>3, PartProperties
  <2>6. d \in Seq(Written) /\ Len(d) = p + 1 /\ \A x \in 1..p + 1 : d[x] = l[start + x]
    <3> DEFINE q == p + 1
    <3>1. q \in Nat /\ start + q <= Len(l)
      BY <1>1, <2>2, <2>3
    <3> HIDE DEF q
    <3>2. LET f == SubSeq(l, start + 1, start + q)
          IN f \in Seq(Written) /\ Len(f) = q /\ \A x \in 1..q : f[x] = l[start + x]
      BY <2>2, <2>3, <3>1, PartProperties
    <3> QED
      BY <3>2 DEF q
  <2> HIDE DEF a, b, d
  <2>7. e \in Seq(Written) /\ Len(e) = p + 1 /\ e[p + 1] = c /\ \A x \in 1..p : e[x] = a[x]
    BY <2>4, <1>4 DEF Written
  <2> HIDE DEF e
  <2>8. a = b
    <3>1. \A x \in 1..Len(a) : a[x] = b[x]
      BY <1>1, <2>2, <2>3, <2>4, <2>5
    <3> QED
      BY <3>1, <2>4, <2>5, SeqEqual
  <2>9. d = e
    <3>1. ASSUME NEW x \in 1..p + 1 PROVE d[x] = e[x]
      <4>1. CASE x = p + 1
        BY <2>2, <2>3, <2>6, <2>7, <4>1
      <4>2. CASE x # p + 1
        BY <1>1, <2>2, <2>3, <2>4, <2>6, <2>7, <4>2
      <4> QED
        BY <4>1, <4>2
    <3> QED
      BY <3>1, <2>6, <2>7, SeqEqual
  <2> QED
    BY <1>2, <2>1, <2>3, <2>8, <2>9 DEF PrintRune, a, b, d, e, l
<1> QED
  BY <1>3, <1>4, LettersAssumption

\* A rune after which none of the conditions is met leaves nothing behind that one
\* of them waits for.
LEMMA RuneMissesNothing ==
  ASSUME IInv, TypeOK, ReadInv, NEW c \in Runes, ReadRune(c), matched' = 0, ~back'
  PROVE  ReadInv'
<1>1. /\ pc = "read" /\ ~back /\ c \in Letters \cup {"nul"} /\ Put(c) /\ runes < MaxRunes
      /\ buf' = Append(buf, c) /\ mark' = mark /\ opts' = opts /\ matched' = Match(Shown(line', cursor'))
  BY DEF ReadRune, Put, MarkMatch, Show, Runes
<1>2. PICK start \in mark..cursor : Printed(buf) = SubSeq(line, start + 1, cursor)
  BY <1>1 DEF ReadInv, Reading
<1>3. start \in 0..cursor /\ mark \in 0..start /\ cursor \in 0..MaxRunes - 1 /\ MaxRunes \in Nat
  BY <1>1, <1>2, BoundsAssumption DEF TypeOK
<1>4. /\ Printed(buf') = SubSeq(line', start + 1, cursor')
      /\ c \in Letters => cursor' = cursor + 1 /\ SubSeq(line', start + 1, cursor) = Printed(buf)
      /\ c = "nul" => Printed(buf') = Printed(buf)
  BY <1>1, <1>2, <1>3, TextGrows
<1>5. cursor' \in {cursor, cursor + 1} /\ (c = "nul" => cursor' = cursor)
  BY <1>1, LettersAssumption DEF Put, CursorAfter
<1>6. /\ cursor' \in 0..MaxRunes /\ start \in mark..cursor' /\ start \in 0..cursor'
      /\ mark <= cursor'
  BY <1>3, <1>5
<1>7. line' \in Seq(Written) /\ Len(line') = MaxRunes
  <2>1. line' \in [1..MaxRunes -> Written]
    BY <1>1, <1>3 DEF Put, LineAfter, TypeOK, Cells, Written
  <2> QED
    BY <1>3, <2>1
<1>8. \A i \in DOMAIN opts.conds : ~Matches(i, Shown(line', cursor'))
  BY <1>1, MatchIsFirst DEF IInv
<1>9. ASSUME NEW i \in DOMAIN opts.conds, opts.conds[i].kind \in {"string", "regexp"},
             Contains(Printed(buf'), opts.conds[i].arg)
      PROVE  FALSE
  <2> DEFINE s == opts.conds[i].arg
  <2>1. Len(s) \in Nat
    BY <1>9, OptionsAssumption DEF TypeOK, Opts
  <2>2. Contains(SubSeq(line', start + 1, cursor'), s)
    BY <1>4, <1>9
  <2>3. ~Meets(opts.conds[i], Shown(line', cursor'))
    BY <1>8 DEF Matches
  <2>4. CASE opts.conds[i].kind = "regexp"
    <3>1. Contains(SubSeq(line', mark + 1, cursor'), s)
      BY <1>3, <1>6, <1>7, <2>1, <2>2, FoundSinceMark
    <3>2. SinceMark(line', cursor') = SubSeq(line', mark + 1, cursor')
      BY <1>6 DEF SinceMark
    <3> QED
      BY <2>3, <2>4, <3>1, <3>2 DEF Meets, Shown
  <2>5. CASE opts.conds[i].kind = "string"
    <3>1. ~EndsWith(SubSeq(line', 1, cursor'), s)
      BY <2>3, <2>5 DEF Meets, Shown
    <3>2. start < cursor' /\ Contains(SubSeq(line', start + 1, cursor' - 1), s)
      BY <1>6, <1>7, <2>1, <2>2, <3>1, FoundBeforeCursor
    <3>3. Contains(Printed(buf), s)
      <4>1. CASE c = "nul"
        BY <1>4, <1>9, <4>1
      <4>2. CASE c \in Letters
        <5>1. cursor' - 1 = cursor
          BY <1>3, <1>4, <4>2
        <5> QED
          BY <1>4, <3>2, <4>2, <5>1
      <4> QED
        BY <1>1, <4>1, <4>2
    <3>4. buf # <<>>
      <4> SUFFICES ASSUME buf = <<>> PROVE FALSE
        OBVIOUS
      <4>1. Contains(<<>>, s)
        <5>1. buf \in Seq(Runes)
          BY DEF TypeOK, Runes
        <5> QED
          BY <3>3, <5>1, PrintedProperties
      <4>2. SubSeq(line', 1, cursor') \in Seq(Written)
        <5> DEFINE n == cursor'
                   l == line'
        <5>1. n \in Nat /\ n <= Len(l) /\ l \in Seq(Written)
          BY <1>6, <1>7, <1>3
        <5> HIDE DEF n, l
        <5>2. SubSeq(l, 1, n) \in Seq(Written)
          BY <5>1
        <5> QED
          BY <5>2 DEF n, l
      <4> QED
        BY <2>1, <3>1, <4>1, <4>2, EmptyIsAtTheEnd
    <3> QED
      BY <1>1, <1>9, <3>3, <3>4 DEF ReadInv, Reading
  <2> QED
    BY <1>9, <2>4, <2>5
<1> QED
  BY <1>1, <1>4, <1>6, <1>9 DEF ReadInv, Reading

LEMMA ReadStep == IInv /\ TypeOK /\ ReadInv /\ [Next]_vars => ReadInv'
<1> SUFFICES ASSUME IInv, TypeOK, ReadInv, [Next]_vars PROVE ReadInv'
  OBVIOUS
<1>1. ASSUME NEW o \in OptionSets, CallExpect(o) PROVE ReadInv'
  <2>1. CASE pc' = "idle"
    BY <1>1, <2>1 DEF CallExpect, ReadInv, Reading, screen
  <2>2. CASE pc' = "loop"
    <3>1. buf' = <<>> /\ cursor' = cursor /\ mark' = mark /\ line' = line /\ back' = back
      BY <1>1, <2>2 DEF CallExpect, screen
    <3>2. Printed(<<>>) = <<>>
      <4>1. <<>> \in Seq(Runes)
        OBVIOUS
      <4> QED
        BY <4>1, PrintedProperties
    <3>3. SubSeq(line, cursor + 1, cursor) = <<>>
      BY DEF TypeOK
    <3>4. ~back => cursor \in mark..cursor
      BY DEF ReadInv, TypeOK
    <3> QED
      BY <3>1, <3>2, <3>3, <3>4 DEF ReadInv, Reading
  <2> QED
    BY <1>1, <2>1, <2>2 DEF CallExpect
<1>2. ASSUME NEW c \in Runes, ReadRune(c) PROVE ReadInv'
  <2>1. CASE matched' # 0
    BY <1>2, <2>1 DEF ReadRune, MarkMatch, Put, CursorAfter, ReadInv, Reading, TypeOK
  <2>2. CASE matched' = 0 /\ back'
    BY <2>2 DEF ReadInv, Reading
  <2> QED
    BY <1>2, <2>1, <2>2, RuneMissesNothing
<1>3. ASSUME NEW c \in Runes, WriteRefused(c) PROVE ReadInv'
  <2>1. /\ back' = (back \/ c = "cr") /\ cursor' = CursorAfter(c)
        /\ mark' = mark /\ pc' = "observe"
    BY <1>3 DEF WriteRefused, Put
  <2>2. c # "cr" => CursorAfter(c) \in {cursor, cursor + 1}
    BY DEF CursorAfter
  <2>3. ~back' => ~back /\ c # "cr"
    BY <2>1
  <2>4. ~back' => mark' <= cursor'
    BY <2>1, <2>2, <2>3 DEF ReadInv, TypeOK
  <2> QED
    BY <2>1, <2>4 DEF ReadInv, Reading
<1>4. CASE SetReadDeadline \/ Expire \/ UNCHANGED vars
  BY <1>4 DEF SetReadDeadline, Expire, vars, screen, local, ReadInv, Reading
<1>5. ASSUME NEW e \in Errors, ReadFails(e) PROVE ReadInv'
  BY <1>5 DEF ReadFails, screen, ReadInv, Reading
<1>6. CASE Callback \/ Observe
  BY <1>6 DEF Callback, Observe, screen, local, ReadInv, Reading
<1> QED
  BY <1>1, <1>2, <1>3, <1>4, <1>5, <1>6 DEF Next, Runes

(***************************************************************************)
(* As long as Expect reads on and the cursor is not moved back, what it    *)
(* has read holds none of the strings and words it waits for, whatever     *)
(* they are and wherever the lines and the earlier matches end.            *)
(***************************************************************************)
THEOREM MissesNothing == Spec => []NothingMissed
<1>1. Init => ReadInv
  BY DEF Init, ReadInv, Reading
<1>2. ReadInv => NothingMissed
  BY DEF ReadInv, Reading, NothingMissed
<1> QED
  BY <1>1, <1>2, ReadStep, Invariance, TypeCorrect, PTL DEF Spec
=============================================================================
