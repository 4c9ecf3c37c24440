----------------------------- MODULE TestWriter -----------------------------
(***************************************************************************)
(* The writer of NewTestConsole.  Expect writes the child's output to it,  *)
(* one rune at a time, through a synchronous pipe; a goroutine puts it     *)
(* together to lines with bufio's ReadLine and gives each to t.Log.  A     *)
(* write returns when its rune has been taken, before the line is logged;  *)
(* if the test is over by then, t.Log gives the line to a parent that is   *)
(* still running, and panics when there is none.  Nobody closes the        *)
(* writing end, so the goroutine stays and never sees an error.            *)
(***************************************************************************)
EXTENDS Integers, Sequences, FiniteSets, SequencesExt

CONSTANTS
  Letters,   \* runes other than the two below
  BufSize,   \* the size of bufio's buffer
  MaxText    \* runes written

CR == "cr"
NL == "nl"

ASSUME LettersAssumption == {CR, NL} \cap Letters = {}
ASSUME SizesAssumption == BufSize \in Nat \ {0, 1} /\ MaxText \in Nat

VARIABLES
  text,     \* what has been written
  writing,  \* the writer waits for the last rune of text to be taken
  buffer,   \* bufio's buffer
  line,     \* <<the line to be logged>>, or <<>>
  logged,   \* the lines in the log of the test or of a parent
  test      \* "running", "over", or "crashed" by t.Log's panic

vars == <<text, writing, buffer, line, logged, test>>

Init ==
  /\ text = <<>> /\ writing = FALSE /\ buffer = <<>>
  /\ line = <<>> /\ logged = <<>> /\ test = "running"

\* The test, or a goroutine of its console, writes a rune.
Write(c) ==
  /\ test # "crashed" /\ ~writing /\ Len(text) < MaxText
  /\ text' = Append(text, c) /\ writing' = TRUE
  /\ UNCHANGED <<buffer, line, logged, test>>

TestEnds ==
  /\ test = "running"
  /\ test' = "over"
  /\ UNCHANGED <<text, writing, buffer, line, logged>>

-----------------------------------------------------------------------------
\* ReadLine: the buffer up to a line end, or all of it when it is full.

HasLineBefore == \E i \in 1..Len(buffer) - 1 : buffer[i] = NL
HasLine == Contains(buffer, NL)
Full == Len(buffer) >= BufSize
Ends(s, c) == Len(s) > 0 /\ Last(s) = c

\* bufio reads from the pipe.
Fill ==
  /\ test # "crashed" /\ line = <<>> /\ ~HasLine /\ ~Full
  /\ writing
  /\ buffer' = Append(buffer, Last(text)) /\ writing' = FALSE
  /\ UNCHANGED <<text, line, logged, test>>

WholeLine(s) == s
WithoutEnd(s) == IF Ends(Front(s), CR) THEN Front(Front(s)) ELSE Front(s)

ReadLine ==
  /\ test # "crashed" /\ line = <<>> /\ HasLine
  /\ LET end == SelectInSeq(buffer, LAMBDA c : c = NL)
     IN /\ line' = <<WithoutEnd(SubSeq(buffer, 1, end))>>
        /\ buffer' = SubSeq(buffer, end + 1, Len(buffer))
  /\ UNCHANGED <<text, writing, logged, test>>

\* The piece of a longer line; "\r" goes back into the buffer, in case that "\n"
\* follows.  The goroutine takes it for a line: it does not look at isPrefix.
ReadWholePrefix ==
  /\ test # "crashed" /\ line = <<>> /\ ~HasLine /\ Full
  /\ line' = <<buffer>> /\ buffer' = <<>>
  /\ UNCHANGED <<text, writing, logged, test>>
ReadPrefixNever == FALSE
ReadPrefix ==
  /\ test # "crashed" /\ line = <<>> /\ ~HasLine /\ Full
  /\ IF Ends(buffer, CR)
     THEN line' = <<Front(buffer)>> /\ buffer' = <<CR>>
     ELSE line' = <<buffer>> /\ buffer' = <<>>
  /\ UNCHANGED <<text, writing, logged, test>>

LogNothingEmpty ==
  /\ test # "crashed" /\ line # <<>>
  /\ \/ /\ logged' = IF line = << <<>> >> THEN logged ELSE logged \o line
        /\ line' = <<>> /\ UNCHANGED test
     \/ test = "over" /\ test' = "crashed" /\ UNCHANGED <<line, logged>>
  /\ UNCHANGED <<text, writing, buffer>>
\* testWriter.Write: the line is logged, or the test is over and all its parents are.
Log ==
  /\ test # "crashed" /\ line # <<>>
  /\ \/ logged' = logged \o line /\ line' = <<>> /\ UNCHANGED test
     \/ test = "over" /\ test' = "crashed" /\ UNCHANGED <<line, logged>>
  /\ UNCHANGED <<text, writing, buffer>>

GoroutineStep == Fill \/ ReadLine \/ ReadPrefix \/ Log

Next == (\E c \in Letters \cup {CR, NL} : Write(c)) \/ TestEnds \/ GoroutineStep

Spec == Init /\ [][Next]_vars

\* The goroutine runs; the test need not go on.
FairSpec == Spec /\ WF_vars(GoroutineStep)

-----------------------------------------------------------------------------
\* Every variable has its type.
TypeOK ==
  /\ text \in Seq(Letters \cup {CR, NL}) /\ Len(text) <= MaxText
  /\ writing \in BOOLEAN /\ test \in {"running", "over", "crashed"}
  /\ buffer \in Seq(Letters \cup {CR, NL}) /\ Len(buffer) <= BufSize
  /\ line \in Seq(Seq(Letters \cup {CR})) /\ Len(line) <= 1
  /\ logged \in Seq(Seq(Letters \cup {CR}))

\* The runes a log shows: no line ends, "\n" or "\r\n".
Shown(s) ==
  LET shown[n \in 0..Len(s)] ==
        IF n = 0 THEN <<>>
        ELSE IF s[n] # NL THEN Append(shown[n - 1], s[n])
        ELSE IF n > 1 /\ s[n - 1] = CR THEN Front(shown[n - 1]) ELSE shown[n - 1]
  IN shown[Len(s)]

Taken == IF writing THEN Front(text) ELSE text

\* Logged lines, the line in hand and the buffer hold every rune that has been
\* taken, in its place: cutting a long line loses nothing, and neither does a "\r\n"
\* that the buffer's end separates.
NothingLost ==
  FlattenSeq(logged \o line) \o Shown(buffer) = Shown(Taken)

LinesOf(s) == Cardinality({i \in 1..Len(s) : s[i] = NL})

\* Every line end that was taken shows as an entry of its own: no line, empty ones
\* included, is joined to the next.  A long line makes more entries.
LinesApart ==
  LET ended == LinesOf(Taken) - LinesOf(buffer)
  IN /\ Len(logged \o line) >= ended
     /\ (\A i \in 1..Len(logged \o line) : Len((logged \o line)[i]) < BufSize - 1)
          => Len(logged \o line) = ended

\* A line end that is written is logged, even by a test that is over, unless the panic
\* of t.Log ends the program: the log is never a line behind for good (test_log.go:37).
FlushedOnLineEnd ==
  \A n \in 1..MaxText :
    LinesOf(text) = n ~> Len(logged) >= n \/ test = "crashed"

\* No write waits for ever, even for a test that is over: the goroutine takes the
\* rune or its panic ends the program.
WriteReturns == writing ~> ~writing \/ test = "crashed"
=============================================================================
