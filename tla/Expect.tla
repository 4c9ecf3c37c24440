------------------------------- MODULE Expect -------------------------------
(***************************************************************************)
(* Console.Expect (expect.go) with its conditions (expect_opt.go): it      *)
(* reads runes from the terminal until one of the conditions is met or     *)
(* reading fails, then runs the callbacks of the condition and tells the   *)
(* observers.  Several calls are made one after the other, on a terminal   *)
(* and a read deadline that outlive each of them.                          *)
(*                                                                         *)
(* The pass-through pipe below is abstracted to what one ReadRune returns: *)
(* any rune, or an error, a timeout only after the deadline.  The virtual  *)
(* terminal is abstracted to the line the cursor is on.  String conditions *)
(* look at the text before the cursor, regular expressions (here: words to *)
(* be found) at the text since the last match.                             *)
(***************************************************************************)
EXTENDS Integers, Sequences, FiniteSets

CONSTANTS
  Letters,         \* runes that print
  OptionSets,      \* what Expect may be called with, see Opts below
  DefaultTimeout,  \* TRUE: the Console was made WithDefaultTimeout
  Observers,       \* number of ExpectObservers
  MaxExpects,      \* bound on the calls of Expect
  MaxRunes         \* bound on the runes read, and the width of the line

ASSUME LettersAssumption == Letters \cap {"cr", "nul"} = {}
ASSUME BoundsAssumption == {Observers, MaxExpects, MaxRunes} \subseteq Nat
ASSUME DefaultTimeoutAssumption == DefaultTimeout \in BOOLEAN
ASSUME OptionsAssumption ==
  \A o \in OptionSets :
    /\ Len(o.conds) \in Nat /\ DOMAIN o.conds = 1..Len(o.conds)
    /\ \A i \in DOMAIN o.conds :
         /\ o.conds[i].then \in Seq({"ok", "fails"})
         /\ o.conds[i].kind \in {"string", "regexp"} => Len(o.conds[i].arg) \in Nat

-----------------------------------------------------------------------------
(* Conditions.  A single matcher holds a test; All and Any hold sets of     *)
(* single ones; "then" lists the outcomes of the chained callbacks.         *)

Matcher(kind, arg) == [kind |-> kind, arg |-> arg, of |-> {}, then |-> <<>>]
String(s) == Matcher("string", s)
Regexp(s) == Matcher("regexp", s)
Error(e)  == Matcher("error", <<e>>)
All(cs)   == [Matcher("all", <<>>) EXCEPT !.of = cs]
Any(cs)   == [Matcher("any", <<>>) EXCEPT !.of = cs]
Then(c, outcome) == [c EXCEPT !.then = Append(@, outcome)]

\* ExpectOpts; "bad" is an option that fails, as a pattern that does not compile.
Opts(conds, timeout, bad) == [conds |-> conds, timeout |-> timeout, bad |-> bad]

Contains(t, s) == \E i \in 0..Len(t) - Len(s) : SubSeq(t, i + 1, i + Len(s)) = s
EndsWith(t, s) == Len(s) <= Len(t) /\ SubSeq(t, Len(t) - Len(s) + 1, Len(t)) = s

\* Match of a single matcher on what Expect shows it: the MatchState (the
\* text before the cursor and the text since the last match) or an error.
Meets(c, v) ==
  \/ c.kind = "string" /\ v.err = "nil" /\ EndsWith(v.before, c.arg)
  \/ c.kind = "regexp" /\ v.err = "nil" /\ Contains(v.since, c.arg)
  \/ c.kind = "error" /\ v.err = c.arg[1]

-----------------------------------------------------------------------------
VARIABLES
  line,      \* the cells of the terminal's line; what was not written is "blank"
  cursor,    \* cells in front of the cursor
  mark,      \* the cursor at the last match (MatchState.prevCoords)
  deadline,  \* the read deadline of the pipe: "none", "future" or "past"
  runes,     \* runes read so far
  opts,      \* options of the current, or else the last, Expect
  pc,        \* where Expect stands
  rest,      \* allMatcher.options.Matchers: what each condition still waits for
  buf,       \* MatchState.Buf: what this Expect has read
  matched,   \* index of the condition that was met, or 0
  err,       \* Expect's local err
  ran,       \* callbacks run by this Expect
  result,    \* the error the last Expect returned
  told,      \* the errors each observer was told by the last Expect
  calls,     \* calls of Expect
  views,     \* what this Expect's conditions have been shown
  back       \* the cursor has been moved back

screen == <<line, cursor, mark>>
local  == <<opts, rest, buf, matched, err, ran, views>>
ends   == <<result, told>>
vars == <<screen, deadline, runes, pc, local, ends, calls, back>>

Cells == 1..MaxRunes
Errors == {"eof", "closed", "timeout"}

Init ==
  /\ line = [x \in Cells |-> "blank"] /\ cursor = 0 /\ mark = 0
  /\ deadline = "none" /\ runes = 0 /\ calls = 0 /\ back = FALSE
  /\ opts = Opts(<<>>, FALSE, FALSE) /\ pc = "idle" /\ rest = <<>> /\ buf = <<>>
  /\ matched = 0 /\ err = "nil" /\ ran = 0 /\ views = {}
  /\ result = "none" /\ told = [o \in 1..Observers |-> <<>>]

-----------------------------------------------------------------------------
(* The terminal: a letter is printed, "cr" takes the cursor to the start of *)
(* the line, "nul" stands for every rune that does neither.                 *)

CursorAfter(c) == IF c \in Letters THEN cursor + 1 ELSE IF c = "cr" THEN 0 ELSE cursor
LineAfter(c) == IF c \in Letters THEN [line EXCEPT ![cursor + 1] = c] ELSE line

\* HasStringBeforeCursor looks back from the cursor; UnwrappedStringToCursor-
\* FromMatch reads from the mark until it meets the cursor, or the line ends.
SinceMark(l, x) == SubSeq(l, mark + 1, IF x >= mark THEN x ELSE MaxRunes)
Shown(l, x) == [err |-> "nil", before |-> SubSeq(l, 1, x), since |-> SinceMark(l, x)]
Failure(e) == [err |-> e, before |-> <<>>, since |-> <<>>]

\* A condition is met: allMatcher keeps only the members that are still to
\* be met.  The mutant asks all of its members again.
RestUnchanged(i, v) == rest[i]
Rest(i, v) == {c \in rest[i] : ~Meets(c, v)}
Matches(i, v) ==
  LET c == opts.conds[i] IN
  \/ Meets(c, v)
  \/ c.kind = "all" /\ \A m \in rest[i] : Meets(m, v)
  \/ c.kind = "any" /\ \E m \in c.of : Meets(m, v)

\* ExpectOpts.Match: the first condition that is met, or 0.
Match(v) ==
  LET met == {i \in 1..Len(opts.conds) : Matches(i, v)} IN
  IF met = {} THEN 0 ELSE CHOOSE i \in met : \A j \in met : i <= j

\* Show the conditions v.  Those behind the one that is met are not asked any
\* more, which makes no difference: they have been asked for the last time.
Show(v) ==
  /\ matched' = Match(v) /\ views' = views \cup {v}
  /\ rest' = [i \in DOMAIN rest |->
                IF opts.conds[i].kind = "all" THEN Rest(i, v) ELSE rest[i]]

-----------------------------------------------------------------------------
(* Expect.                                                                  *)

\* An option that fails ends Expect before it has begun.
CallExpect(o) ==
  /\ pc = "idle" /\ calls < MaxExpects
  /\ calls' = calls + 1 /\ opts' = o
  /\ rest' = [i \in DOMAIN o.conds |-> o.conds[i].of]
  /\ matched' = 0 /\ err' = "nil" /\ ran' = 0 /\ views' = {}
  /\ told' = [n \in 1..Observers |-> <<>>]
  /\ IF o.bad THEN pc' = "idle" /\ result' = "option" /\ buf' = buf
              ELSE pc' = "loop" /\ result' = result /\ buf' = <<>>
  /\ UNCHANGED <<screen, deadline, runes, back>>

\* The head of the loop: only an Expect that has a timeout sets the deadline.
SetReadDeadline ==
  /\ pc = "loop" /\ pc' = "read"
  /\ deadline' = IF opts.timeout \/ DefaultTimeout THEN "future" ELSE deadline
  /\ UNCHANGED <<screen, runes, local, ends, calls, back>>

Expire ==
  /\ deadline = "future" /\ deadline' = "past"
  /\ UNCHANGED <<screen, runes, pc, local, ends, calls, back>>

\* Xpty.ReadRune shows each rune to the terminal first, so that it stays
\* there when one of the Stdouts then refuses it.
Put(c) ==
  /\ pc = "read" /\ runes < MaxRunes /\ runes' = runes + 1
  /\ line' = LineAfter(c) /\ cursor' = CursorAfter(c)
  /\ back' = (back \/ c = "cr")

WriteRefused(c) ==
  /\ Put(c)
  /\ err' = "write" /\ pc' = "observe"
  /\ UNCHANGED <<mark, deadline, opts, rest, buf, matched, ran, views, ends, calls>>

\* markMatch remembers where the cursor was.  The mutants do it at each rune,
\* and one cell too far.
MarkEachRune == mark' = cursor'
MarkPastCursor == mark' = IF matched' = 0 THEN mark ELSE cursor' + 1
MarkMatch == mark' = IF matched' = 0 THEN mark ELSE cursor'
ReadRune(c) ==
  /\ Put(c)
  /\ buf' = Append(buf, c) /\ err' = "nil"
  /\ Show(Shown(line', cursor'))
  /\ MarkMatch
  /\ pc' = IF matched' = 0 THEN "loop" ELSE "callback"
  /\ UNCHANGED <<deadline, opts, ran, ends, calls>>

\* A condition may be met by the error of the read: Expect then succeeds.
ReadFails(e) ==
  /\ pc = "read" /\ (e = "timeout" => deadline = "past")
  /\ Show(Failure(e))
  /\ err' = IF matched' = 0 THEN e ELSE "nil"
  /\ pc' = IF matched' = 0 THEN "observe" ELSE "callback"
  /\ UNCHANGED <<screen, deadline, runes, opts, buf, ran, ends, calls, back>>

\* The callbacks of the condition that was met run up to the first that
\* fails.  Those chained to members of All or Any are not reached.
Failing(then) == {i \in DOMAIN then : then[i] = "fails"}
Callback ==
  /\ pc = "callback" /\ pc' = "observe"
  /\ LET then == opts.conds[matched].then IN
     IF Failing(then) = {}
     THEN ran' = Len(then) /\ err' = "nil"
     ELSE /\ ran' = CHOOSE i \in Failing(then) : \A j \in Failing(then) : i <= j
          /\ err' = "callback"
  /\ UNCHANGED <<screen, deadline, runes, opts, rest, buf, matched, views, ends,
                 calls, back>>

\* The deferred loop over the observers returns after the first if there was
\* a match.  The mutant tells the observers nil after a match.
ReportMatchAsSuccess == IF matched = 0 THEN err ELSE "nil"
Reported == err
Told(o) == IF matched # 0 /\ o > 1 THEN <<>> ELSE <<Reported>>
Observe ==
  /\ pc = "observe" /\ pc' = "idle"
  /\ told' = [o \in 1..Observers |-> Told(o)]
  /\ result' = err
  /\ UNCHANGED <<screen, deadline, runes, local, calls, back>>

Next ==
  \/ \E o \in OptionSets : CallExpect(o)
  \/ SetReadDeadline \/ Expire
  \/ \E c \in Letters \cup {"cr", "nul"} : ReadRune(c) \/ WriteRefused(c)
  \/ \E e \in Errors : ReadFails(e)
  \/ Callback \/ Observe

Spec == Init /\ [][Next]_vars

-----------------------------------------------------------------------------
\* Every variable stays in its type.
TypeOK ==
  /\ line \in [Cells -> Letters \cup {"blank"}]
  /\ cursor \in 0..runes /\ mark \in 0..runes /\ runes \in 0..MaxRunes
  /\ deadline \in {"none", "future", "past"}
  /\ opts \in OptionSets \cup {Opts(<<>>, FALSE, FALSE)}
  /\ pc \in {"idle", "loop", "read", "callback", "observe"}
  /\ buf \in Seq(Letters \cup {"cr", "nul"}) /\ Len(buf) <= runes /\ ran \in Nat
  /\ matched \in 0..Len(opts.conds)
  /\ err \in Errors \cup {"nil", "write", "callback"}
  /\ result \in Errors \cup {"none", "option", "nil", "write", "callback"}
  /\ told \in [1..Observers -> {<<>>} \cup {<<e>> : e \in Errors \cup {"nil", "write", "callback"}}]
  /\ calls \in 0..MaxExpects /\ back \in BOOLEAN

\* What a condition means, said of all that this Expect has shown it: All of
\* its members were met, each at some time; Any of them was.
Once(c, seen) == \E v \in seen : Meets(c, v)
Met(c, seen) == \/ Once(c, seen)
                \/ c.kind = "all" /\ \A m \in c.of : Once(m, seen)
                \/ c.kind = "any" /\ \E m \in c.of : Once(m, seen)

(***************************************************************************)
(* Expect stops at once when, and only when, one of its conditions is met, *)
(* and takes the first of those in the order they were given, although All *)
(* is put together from matches of different moments.                      *)
(***************************************************************************)
StopsAtFirst ==
  /\ (pc \in {"loop", "read", "observe"} /\ matched = 0 /\ views # {}) =>
        \A i \in DOMAIN opts.conds : ~Met(opts.conds[i], views)
  /\ matched # 0 => /\ Met(opts.conds[matched], views)
                    /\ \A i \in 1..matched - 1 : ~Met(opts.conds[i], views)

\* What was read, without the runes that print nothing.
Printed(text) ==
  LET printed[n \in 0..Len(text)] ==
        IF n = 0 THEN <<>>
        ELSE IF text[n] = "nul" THEN printed[n - 1] ELSE Append(printed[n - 1], text[n])
  IN printed[Len(text)]

(***************************************************************************)
(* While Expect reads on, what it has read contains none of the strings    *)
(* and words it waits for, unless the cursor was moved back: the terminal  *)
(* hides nothing, and each Expect starts to look where the last match      *)
(* ended.                                                                  *)
(***************************************************************************)
NothingMissed ==
  (pc = "loop" /\ buf # <<>> /\ ~back) =>
    \A i \in DOMAIN opts.conds :
      opts.conds[i].kind \in {"string", "regexp"} =>
        ~Contains(Printed(buf), opts.conds[i].arg)

(***************************************************************************)
(* Expect succeeds exactly if a condition was met and no callback failed,  *)
(* and the first observer is told of every Expect what Expect returns.     *)
(***************************************************************************)
ToldWhatIsReturned ==
  (pc = "idle" /\ result # "none" /\ ~opts.bad) =>
    /\ result = "nil" <=> (matched # 0 /\ Failing(opts.conds[matched].then) = {})
    /\ \A o \in 1..Observers : told[o] = <<result>> \/ (o > 1 /\ told[o] = <<>>)
=============================================================================
