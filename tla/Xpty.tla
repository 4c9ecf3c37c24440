-------------------------------- MODULE Xpty --------------------------------
(***************************************************************************)
(* The pseudo terminal and the console around it.  Runes come through the  *)
(* passthrough pipe, here its promise RuneStream.  A rune that completes a *)
(* status query (DSR, CPR) makes the terminal emulator write a reply into  *)
(* the synchronous rwPipe, and it does so holding the lock of its state; a *)
(* goroutine copies the replies to the terminal's input.  Send, the stdin  *)
(* goroutines and that copier share the input, and Resize takes the same   *)
(* lock.  The console is closed by Console.Close or in the dance of        *)
(* CloseTTY's comment, which gives the reader time to come to the end      *)
(* before CloseReaders.                                                    *)
(*                                                                         *)
(* Reads do not overlap here (PassthroughPipe!SoleReader): no Tear, Crash. *)
(***************************************************************************)
EXTENDS Integers, Sequences, FiniteSets

CONSTANTS
  MaxRunes,      \* runes the child writes
  MaxMissed,     \* reads that give up
  InputSize,     \* blocks of input the terminal keeps for the child
  MaxInputs,     \* blocks that Send and the stdin goroutine write
  Files,         \* number of WithCloser closers; the first one closes stdin
  CloseFails     \* impl.close() returns an error

ASSUME BoundsAssumption == {MaxRunes, MaxMissed, MaxInputs, Files} \subseteq Nat
ASSUME InputAssumption == InputSize \in Nat \ {0}
ASSUME CloseAssumption == CloseFails \in BOOLEAN

VARIABLES
  written, ended, shut, call, late, outcome, delivered, missed, torn, \* RuneStream
  asked,      \* runes that complete a query
  replying,   \* the reader is in WriteRune, writing a reply under the lock
  carried,    \* the reply the copier has taken from the rwPipe, or 0
  replied,    \* the replies written to the terminal's input
  input,      \* blocks of input the child has not read
  child,      \* "listening", "deaf" (reads no more input) or "gone"
  ttyClosed,  \* CloseTTY: the parent's pts and ptm are closed
  rwClosed,   \* the rwPipe is closed
  writer,     \* each goroutine that writes to the terminal: "idle", "kernel"
              \* (in the system call), "ended"; the copier also "taken"
  inputs,     \* blocks that Send and stdin have started to write
  closing,    \* the closing goroutine's next step
  tried,      \* closers that have been called
  closedFiles,\* those of them that did close
  resizing    \* a call of Resize waits for the lock

pipeVars == <<written, ended, shut, call, late, outcome, delivered, missed, torn>>
replyVars == <<asked, replying>>
inputVars == <<carried, replied, input, writer, inputs>>
closeVars == <<ttyClosed, rwClosed, closing, tried, closedFiles>>
vars == <<pipeVars, replyVars, inputVars, child, closeVars, resizing>>

Pipe == INSTANCE RuneStream

Writers == {"copier", "send", "stdin"}
Awaiting == -1                \* the dance, between CloseTTY and CloseReaders
AtPipe == Files + 1           \* 1 .. Files: at that closer
AtTerm == Files + 2
Done == Files + 3

Init ==
  /\ Pipe!Init
  /\ asked = {} /\ replying = FALSE /\ carried = 0 /\ replied = <<>>
  /\ input = 0 /\ child = "listening" /\ ttyClosed = FALSE /\ rwClosed = FALSE
  /\ writer = [w \in Writers |-> "idle"] /\ inputs = 0
  /\ closing = 0 /\ tried = {} /\ closedFiles = {} /\ resizing = FALSE

-----------------------------------------------------------------------------
\* The child.

\* The kernel hangs up both directions once no pts is open any more.
HungUpNever == FALSE
HungUp == ttyClosed /\ child = "gone"

ChildWrites ==
  /\ child # "gone" /\ written < MaxRunes
  /\ Pipe!Write
  /\ asked' \in {asked, asked \cup {written'}}
  /\ UNCHANGED <<replying, inputVars, child, closeVars, resizing>>

ChildReads ==
  /\ child = "listening" /\ input > 0
  /\ input' = input - 1
  /\ UNCHANGED <<pipeVars, replyVars, carried, replied, writer, inputs, child, closeVars, resizing>>

ChildTurns ==
  /\ \/ child = "listening" /\ child' = "deaf"
     \/ child # "gone" /\ child' = "gone"
  /\ UNCHANGED <<pipeVars, replyVars, inputVars, closeVars, resizing>>

\* Reading ptm fails: it is closed, or the kernel has hung up.
OutputEnds ==
  /\ ttyClosed
  /\ Pipe!End
  /\ UNCHANGED <<replyVars, inputVars, child, closeVars, resizing>>

-----------------------------------------------------------------------------
\* Xpty.ReadRune, and vt10x's WriteRune in it.

CallReadRune ==
  /\ ~replying /\ missed < MaxMissed
  /\ Pipe!Read
  /\ UNCHANGED <<replyVars, inputVars, child, closeVars, resizing>>

\* Only a rune that completes a query keeps WriteRune from returning.
ReadRuneReturns ==
  /\ \/ \E n \in 1..written : Pipe!Deliver(n) /\ replying' = (n \in asked)
     \/ (Pipe!Fail \/ Pipe!Nothing \/ Pipe!GiveUp) /\ UNCHANGED replying
  /\ UNCHANGED <<asked, inputVars, child, closeVars, resizing>>

ReplyTakenStale ==
  /\ replying /\ writer["copier"] = "idle" /\ ~rwClosed
  /\ carried' = IF carried = 0 THEN delivered[Len(delivered)] ELSE carried
  /\ writer' = [writer EXCEPT !["copier"] = "taken"]
  /\ replying' = FALSE
  /\ UNCHANGED <<pipeVars, asked, replied, input, inputs, child, closeVars, resizing>>

\* The copier's Read meets the emulator's Write.
ReplyTaken ==
  /\ replying /\ writer["copier"] = "idle" /\ ~rwClosed
  /\ carried' = delivered[Len(delivered)]
  /\ writer' = [writer EXCEPT !["copier"] = "taken"]
  /\ replying' = FALSE
  /\ UNCHANGED <<pipeVars, asked, replied, input, inputs, child, closeVars, resizing>>

ReplyTriedOnce ==
  /\ replying
  /\ replying' = FALSE
  /\ UNCHANGED <<pipeVars, asked, inputVars, child, closeVars, resizing>>

\* The Write returns io.ErrClosedPipe, which nobody looks at.
ReplyDropped ==
  /\ replying /\ rwClosed
  /\ replying' = FALSE
  /\ UNCHANGED <<pipeVars, asked, inputVars, child, closeVars, resizing>>

-----------------------------------------------------------------------------
\* Writing to the terminal: ptm is in blocking mode, so a write that has begun
\* outlives CloseTTY; it ends when the child reads or the kernel hangs up.

AfterWriteOnce(w, ok) ==
  writer' = [writer EXCEPT ![w] = IF w = "send" THEN "idle" ELSE "ended"]

\* What a goroutine does after its write: the copier and the stdin goroutines
\* are io.Copy, which goes on reading unless the write failed.
AfterWrite(w, ok) ==
  writer' = [writer EXCEPT ![w] = IF ok \/ w = "send" THEN "idle" ELSE "ended"]

BeginWrite(w) ==
  IF ttyClosed THEN AfterWrite(w, FALSE) ELSE writer' = [writer EXCEPT ![w] = "kernel"]

CopierWrite ==
  /\ writer["copier"] = "taken" /\ BeginWrite("copier")
  /\ UNCHANGED <<pipeVars, replyVars, carried, replied, input, inputs, child, closeVars, resizing>>

\* Console.Send is called, or stdin has data for its goroutine.
StartWrite(w) ==
  /\ w # "copier" /\ writer[w] = "idle" /\ inputs < MaxInputs
  /\ w = "stdin" => 1 \notin closedFiles
  /\ inputs' = inputs + 1
  /\ BeginWrite(w)
  /\ UNCHANGED <<pipeVars, replyVars, carried, replied, input, child, closeVars, resizing>>

FinishWrite(w) ==
  /\ writer[w] = "kernel" /\ ~HungUp /\ input < InputSize
  /\ input' = input + 1
  /\ replied' = IF w = "copier" THEN Append(replied, carried) ELSE replied
  /\ AfterWrite(w, TRUE)
  /\ UNCHANGED <<pipeVars, replyVars, carried, inputs, child, closeVars, resizing>>

FailWrite(w) ==
  /\ writer[w] = "kernel" /\ HungUp
  /\ AfterWrite(w, FALSE)
  /\ UNCHANGED <<pipeVars, replyVars, carried, replied, input, inputs, child, closeVars, resizing>>

SourceEndsStdin(w) ==
  /\ writer[w] = "idle" /\ w = "stdin" /\ 1 \in closedFiles
  /\ AfterWrite(w, FALSE)
  /\ UNCHANGED <<pipeVars, replyVars, carried, replied, input, inputs, child, closeVars, resizing>>

\* Reading the rwPipe or stdin fails once it is closed.
SourceEnds(w) ==
  /\ writer[w] = "idle"
  /\ (w = "copier" /\ rwClosed) \/ (w = "stdin" /\ 1 \in closedFiles)
  /\ AfterWrite(w, FALSE)
  /\ UNCHANGED <<pipeVars, replyVars, carried, replied, input, inputs, child, closeVars, resizing>>

-----------------------------------------------------------------------------
\* Closing.

Goes(next) ==
  /\ closing' = next
  /\ UNCHANGED <<replyVars, inputVars, child, resizing>>

CloseTTYReturns(dance) ==
  /\ closing = 0
  /\ ttyClosed' = TRUE
  /\ Goes(IF CloseFails THEN Done ELSE IF dance THEN Awaiting ELSE 1)
  /\ UNCHANGED <<pipeVars, rwClosed, tried, closedFiles>>

\* Console.Close logs the error of CloseTTY and goes on to CloseReaders; Xpty.Close
\* returns it.  WaitTillDrained, before it in the dance, may end at any time: no
\* ReadRune need have begun for 100 ms.
CloseTTY(dance) ==
  /\ closing = 0
  /\ ttyClosed' = TRUE
  /\ Goes(IF dance THEN Awaiting ELSE 1)
  /\ UNCHANGED <<pipeVars, rwClosed, tried, closedFiles>>

ReaderEnded ==
  /\ closing = Awaiting
  /\ call = "idle" /\ ~replying /\ outcome \in {"error", "timeout", "eof"}
  /\ Goes(1)
  /\ UNCHANGED <<pipeVars, ttyClosed, rwClosed, tried, closedFiles>>

\* One of WithCloser's closers; its error does not keep the others from their turn.
CloseFile ==
  /\ closing \in 1..Files
  /\ tried' = tried \cup {closing}
  /\ closedFiles' \in {closedFiles, closedFiles \cup {closing}}
  /\ Goes(closing + 1)
  /\ UNCHANGED <<pipeVars, ttyClosed, rwClosed>>

\* Xpty.CloseReaders: the passthrough pipe, then the terminal and with it the rwPipe.
ClosePipe ==
  /\ closing = AtPipe
  /\ IF shut THEN UNCHANGED pipeVars ELSE Pipe!Shut
  /\ Goes(AtTerm)
  /\ UNCHANGED <<ttyClosed, rwClosed, tried, closedFiles>>

CloseTermKeepsPipe ==
  /\ closing = AtTerm
  /\ Goes(Done)
  /\ UNCHANGED <<pipeVars, ttyClosed, rwClosed, tried, closedFiles>>
CloseTerm ==
  /\ closing = AtTerm
  /\ rwClosed' = TRUE
  /\ Goes(Done)
  /\ UNCHANGED <<pipeVars, ttyClosed, tried, closedFiles>>

-----------------------------------------------------------------------------
\* Xpty.Resize: Term.Resize waits for the lock that a reply holds.  With the lock
\* free the call is over at once and nothing here changes.

ResizeWaits ==
  /\ replying /\ ~resizing
  /\ resizing' = TRUE
  /\ UNCHANGED <<pipeVars, replyVars, inputVars, child, closeVars>>

Resize ==
  /\ resizing /\ ~replying
  /\ resizing' = FALSE
  /\ UNCHANGED <<pipeVars, replyVars, inputVars, child, closeVars>>

-----------------------------------------------------------------------------
WriteRuneReturns == ReplyTaken \/ ReplyDropped
WriterStep(w) == (w = "copier" /\ CopierWrite) \/ FinishWrite(w) \/ FailWrite(w) \/ SourceEnds(w)
CloserStep == ReaderEnded \/ CloseFile \/ ClosePipe \/ CloseTerm

Next ==
  \/ ChildWrites \/ ChildReads \/ ChildTurns \/ OutputEnds
  \/ CallReadRune \/ ReadRuneReturns \/ WriteRuneReturns
  \/ \E w \in Writers : StartWrite(w) \/ WriterStep(w)
  \/ (\E dance \in BOOLEAN : CloseTTY(dance)) \/ CloserStep
  \/ ResizeWaits \/ Resize

Spec == Init /\ [][Next]_vars

\* The goroutines run, and the child reads unless it has turned deaf.
Fairness ==
  /\ WF_vars(WriteRuneReturns) /\ WF_vars(ChildReads)
  /\ \A w \in Writers : WF_vars(WriterStep(w))
  /\ WF_vars(CloserStep) /\ WF_vars(Resize)

FairSpec == Spec /\ Fairness

-----------------------------------------------------------------------------
\* Every variable has its type.
TypeOK ==
  /\ written \in 0..MaxRunes /\ missed \in 0..MaxMissed
  /\ ended \in BOOLEAN /\ shut \in BOOLEAN /\ late \in BOOLEAN /\ torn = FALSE
  /\ call \in {"idle", "reading"}
  /\ outcome \in {"none", "rune", "error", "timeout", "eof", "spurious"}
  /\ delivered \in Seq(1..MaxRunes) /\ replied \in Seq(1..MaxRunes)
  /\ asked \subseteq 1..MaxRunes /\ replying \in BOOLEAN /\ carried \in 0..MaxRunes
  /\ input \in 0..InputSize /\ child \in {"listening", "deaf", "gone"}
  /\ ttyClosed \in BOOLEAN /\ rwClosed \in BOOLEAN
  /\ writer \in [Writers -> {"idle", "taken", "kernel", "ended"}]
  /\ inputs \in 0..MaxInputs /\ closing \in Awaiting..Done /\ resizing \in BOOLEAN
  /\ closedFiles \subseteq tried /\ tried \subseteq 1..Files

\* Replies reach the terminal in the order of their queries, each at most once
\* and none unasked, though reads may lose runes in between, Send and stdin write
\* to the same terminal and the copier runs behind the reader (xpty.go:68-83).
AnswersInOrder ==
  \A i \in 1..Len(replied) :
    /\ replied[i] \in asked /\ \E j \in 1..Len(delivered) : delivered[j] = replied[i]
    /\ i < Len(replied) => replied[i] < replied[i + 1]

\* As long as the console is open, a query that has been read is answered, or its
\* reply is on its way: the copier has it, or the reader, which cannot go on.
NoAnswerLost ==
  ~ttyClosed /\ ~rwClosed =>
    \A i \in 1..Len(delivered) : delivered[i] \in asked =>
      \/ \E j \in 1..Len(replied) : replied[j] = delivered[i]
      \/ writer["copier"] \in {"taken", "kernel"} /\ carried = delivered[i]
      \/ replying /\ i = Len(delivered)

\* The readers are cut off only when every closer of WithCloser has been called
\* (console.go:253), and when Console.Close returns, the terminal and both pipes are
\* closed too, whatever CloseTTY and those closers returned.
CloseComplete ==
  /\ shut => tried = 1..Files
  /\ closing = Done => ttyClosed /\ shut /\ rwClosed

\* Once the readers are being closed, nobody keeps the terminal's lock: a reader that waits
\* for its reply to be taken gives up, and a Resize waiting for the lock returns.
CloseFreesTerminal ==
  closing \in 1..AtTerm ~> rwClosed /\ ~replying /\ ~resizing

\* A query does not keep the reader from going on, and the lock taken, unless the
\* console is being closed or the child has stopped reading: the copier takes every
\* reply (xpty.go:97).
ReplyTakenOver == replying ~> ~replying \/ ttyClosed \/ child # "listening"

\* Send, the copier and the stdin goroutine do not stay in a write when the child
\* reads its input, nor when it has gone and the terminal is closed.
WritesEnd ==
  \A w \in Writers :
    writer[w] = "kernel" ~> writer[w] # "kernel" \/ child = "deaf" \/ (child = "gone" /\ ~ttyClosed)

\* Closing the readers ends the copier once the child has gone, and the goroutine of
\* a stdin that one of the closers has closed.
CopiersEnd ==
  rwClosed /\ HungUp ~>
    writer["copier"] = "ended" /\ (1 \in closedFiles => writer["stdin"] = "ended")
=============================================================================
