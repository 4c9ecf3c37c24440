-------------------------- MODULE PassthroughPipe --------------------------
(***************************************************************************)
(* The pass-through pipe of xpty (passthrough_pipe.go): reading runes from *)
(* a bufio.Reader, with a read deadline and a Close() that the blocking    *)
(* reader below does not have.                                             *)
(*                                                                         *)
(* Each call of ReadRune starts a goroutine that reads from the shared     *)
(* bufio.Reader and offers what it got on a channel of this call, cs; the  *)
(* call itself waits for the channel, for Close() or for the deadline.  A  *)
(* call that gave up leaves its goroutine behind, and nothing stops that   *)
(* goroutine from reading on next to the goroutine of a later call.        *)
(*                                                                         *)
(* The n-th rune the source wrote is the number n.  Runes are one byte     *)
(* wide: the reader then fills its buffer only when it is empty, and the   *)
(* "invalid utf8 sequence" branch, which needs an error together with a    *)
(* replacement character, is out of the question.                          *)
(***************************************************************************)
EXTENDS Integers, Sequences, FiniteSets

CONSTANTS
  MaxCalls,   \* bound on the calls of ReadRune
  MaxSent,    \* bound on the runes the source writes
  BufSize     \* size of the bufio.Reader's buffer (100 in openVT)

ASSUME BoundsAssumption == MaxCalls \in Nat /\ MaxSent \in Nat
ASSUME BufSizeAssumption == BufSize \in Nat \ {0}

VARIABLES
  sent,       \* runes the source has written
  srcClosed,  \* the source has been closed
  fed,        \* runes the bufio.Reader has got from the source
  buf, r, w,  \* bufio.Reader.buf, .r and .w
  rdErr,      \* bufio.Reader.err is set
  deadline,   \* p.deadline: "none" (maxTime), "future" or "past"
  closed,     \* p.ctx is cancelled
  cpc,        \* the calling goroutine: "idle", "select" or "panicked"
  cur,        \* the current, or else the last, call
  gpc,        \* where the goroutine of each call stands
  val,        \* the rune, or EndOfSource, it holds
  delivered,  \* the runes handed to the callers so far
  last,       \* how the last call ended, "none" while one is under way
  late,       \* the current call was made on a closed pipe
  abandoned,  \* calls that returned without waiting for their goroutine
  overlap     \* two goroutines have been inside the bufio.Reader at once

sourceVars == <<sent, srcClosed>>
readerVars == <<fed, buf, r, w, rdErr>>
pipeVars   == <<deadline, closed>>
callVars   == <<cpc, cur, late, delivered, last, abandoned>>
goVars     == <<gpc, val, overlap>>
vars == <<sourceVars, readerVars, pipeVars, callVars, goVars>>

Calls == 1..MaxCalls
Slots == 0..BufSize - 1
EndOfSource == -1         \* the error of the underlying reader

Init ==
  /\ sent = 0 /\ srcClosed = FALSE
  /\ fed = 0 /\ buf = [k \in Slots |-> 0] /\ r = 0 /\ w = 0 /\ rdErr = FALSE
  /\ deadline = "none" /\ closed = FALSE
  /\ cpc = "idle" /\ cur = 0 /\ late = FALSE
  /\ gpc = [g \in Calls |-> "unborn"] /\ val = [g \in Calls |-> 0]
  /\ delivered = <<>> /\ last = "none" /\ abandoned = {} /\ overlap = FALSE

-----------------------------------------------------------------------------
(* The environment: the terminal below, the clock and the user of the pipe. *)

Running == cpc # "panicked"

SourceWrite ==
  /\ Running /\ ~srcClosed /\ sent < MaxSent
  /\ sent' = sent + 1
  /\ UNCHANGED <<srcClosed, readerVars, pipeVars, callVars, goVars>>

SourceClose ==
  /\ Running /\ ~srcClosed
  /\ srcClosed' = TRUE
  /\ UNCHANGED <<sent, readerVars, pipeVars, callVars, goVars>>

Expire ==
  /\ Running /\ deadline = "future"
  /\ deadline' = "past"
  /\ UNCHANGED <<sourceVars, readerVars, closed, callVars, goVars>>

Close ==
  /\ Running /\ ~closed
  /\ closed' = TRUE
  /\ UNCHANGED <<sourceVars, readerVars, deadline, callVars, goVars>>

-----------------------------------------------------------------------------
(* ReadRune: the goroutine g it starts.                                     *)

\* A panic in any goroutine ends the program.
Goes(g, from, to) ==
  /\ Running /\ gpc[g] = from
  /\ gpc' = [gpc EXCEPT ![g] = to]
  /\ UNCHANGED <<sourceVars, pipeVars, callVars>>

\* A goroutine that finds the pipe closed or the deadline past just closes cs.
Expired == closed \/ deadline = "past"
Inside(g) == gpc[g] \in {"loop", "inRead"}
Check(g) ==
  /\ Goes(g, "start", IF Expired THEN "exited" ELSE "loop")
  /\ overlap' = (overlap \/ (~Expired /\ \E h \in Calls : Inside(h)))
  /\ UNCHANGED <<readerVars, val>>

\* bufio.ReadRune with an empty buffer: fill() moves r and w to the start
\* and reads into the whole buffer.
EnterFill(g) ==
  /\ r = w /\ ~rdErr
  /\ Goes(g, "loop", "inRead")
  /\ r' = 0 /\ w' = 0
  /\ UNCHANGED <<fed, buf, rdErr, val, overlap>>

(***************************************************************************)
(* The blocking Read returns n runes, at the start of the buffer whatever  *)
(* another goroutine may have put there meanwhile.  The addition b.w += n  *)
(* is not atomic: with two readers one of them may get lost.               *)
(***************************************************************************)
ReadData(g) ==
  /\ Goes(g, "inRead", "loop")
  /\ \E n \in 1..BufSize :
       /\ n <= sent - fed
       /\ buf' = [k \in Slots |-> IF k < n THEN fed + k + 1 ELSE buf[k]]
       /\ w' \in {w + n, n}
       /\ fed' = fed + n
  /\ UNCHANGED <<r, rdErr, val, overlap>>

ReadErr(g) ==
  /\ srcClosed /\ fed = sent
  /\ Goes(g, "inRead", "loop")
  /\ rdErr' = TRUE
  /\ UNCHANGED <<fed, buf, r, w, val, overlap>>

\* bufio.ReadRune returns a rune ...
Take(g) ==
  /\ r < w /\ r < BufSize
  /\ Goes(g, "loop", "offer")
  /\ r' = r + 1 /\ val' = [val EXCEPT ![g] = buf[r]]
  /\ UNCHANGED <<fed, buf, w, rdErr, overlap>>

\* ... or, once the buffer is empty, the error it has kept, forgetting it ...
TakeErr(g) ==
  /\ r = w /\ rdErr
  /\ Goes(g, "loop", "offer")
  /\ rdErr' = FALSE /\ val' = [val EXCEPT ![g] = EndOfSource]
  /\ UNCHANGED <<fed, buf, r, w, overlap>>

\* ... or panics on indices that two readers have driven out of bounds.
IndexPanic(g) ==
  /\ Running /\ gpc[g] = "loop" /\ (w > BufSize \/ r > w)
  /\ cpc' = "panicked" /\ last' = "panic"
  /\ UNCHANGED <<sourceVars, readerVars, pipeVars, cur, late, delivered, abandoned, goVars>>

\* Where the select of the goroutine leads: <-done is ready when the call has
\* returned, and cs <- waits for a receiver otherwise.  The mutants swap the
\* two, and read again after an error.
CallerGone(g) == cpc # "select" \/ cur # g
OfferedSwapped(g) == IF CallerGone(g) THEN "sending" ELSE "exited"
OfferedRetrying(g) ==
  IF val[g] = EndOfSource THEN "loop" ELSE IF CallerGone(g) THEN "exited" ELSE "sending"
Offered(g) == IF CallerGone(g) THEN "exited" ELSE "sending"
Offer(g) == Goes(g, "offer", Offered(g)) /\ UNCHANGED <<readerVars, val, overlap>>

-----------------------------------------------------------------------------
(* ReadRune: the call.                                                      *)

\* Console.Expect sets the deadline before each read, or leaves it as it is.
\* Nothing protects the field from a goroutine that an earlier call left behind.
SetReadDeadline == deadline' \in {deadline, "none", "future"}

CallReadRune ==
  /\ cpc = "idle" /\ cur < MaxCalls
  /\ SetReadDeadline
  /\ cpc' = "select" /\ cur' = cur + 1 /\ late' = closed /\ last' = "none"
  /\ gpc' = [gpc EXCEPT ![cur + 1] = "start"]
  /\ UNCHANGED <<sourceVars, readerVars, closed, delivered, abandoned, val, overlap>>

Returns(kind) ==
  /\ cpc = "select" /\ cpc' = "idle" /\ last' = kind
  /\ UNCHANGED <<sourceVars, readerVars, pipeVars, cur, late, val, overlap>>

\* case c := <-cs, from the goroutine's send.
IsError(v) == v = EndOfSource
RecvRune ==
  /\ Returns("rune")
  /\ gpc[cur] = "sending" /\ ~IsError(val[cur])
  /\ delivered' = Append(delivered, val[cur])
  /\ gpc' = [gpc EXCEPT ![cur] = "exited"] /\ UNCHANGED abandoned
RecvError ==
  /\ Returns("error")
  /\ gpc[cur] = "sending" /\ IsError(val[cur])
  /\ gpc' = [gpc EXCEPT ![cur] = "exited"] /\ UNCHANGED <<delivered, abandoned>>

\* ... or from the closed channel: the zero value, rune 0, size 0, no error.
\* The mutant is a default case.
RecvDefault == Returns("spurious") /\ UNCHANGED <<delivered, abandoned, gpc>>
RecvClosed ==
  /\ Returns("spurious")
  /\ gpc[cur] = "exited" /\ UNCHANGED <<delivered, abandoned, gpc>>

\* case <-p.ctx.Done()
GivesUp(kind) ==
  /\ Returns(kind)
  /\ abandoned' = abandoned \cup {cur} /\ UNCHANGED <<delivered, gpc>>
RecvDone == closed /\ GivesUp("eof")

\* case <-time.After(...).  The mutant looks at the deadline between reads only.
RecvTimerBetweenReads == deadline = "past" /\ GivesUp("timeout") /\ gpc[cur] # "inRead"
RecvTimer == deadline = "past" /\ GivesUp("timeout")

-----------------------------------------------------------------------------
Reader(g) == \/ Check(g) \/ EnterFill(g) \/ ReadData(g) \/ ReadErr(g)
             \/ Take(g) \/ TakeErr(g) \/ IndexPanic(g) \/ Offer(g)
Recv == RecvRune \/ RecvError \/ RecvClosed \/ RecvDone \/ RecvTimer

Next ==
  \/ SourceWrite \/ SourceClose \/ Expire \/ Close
  \/ \E g \in Calls : Reader(g)
  \/ CallReadRune \/ Recv

Spec == Init /\ [][Next]_vars

(***************************************************************************)
(* Goroutines are scheduled and deadlines pass.  Neither the source nor    *)
(* the user of the pipe owes anybody a step.                               *)
(***************************************************************************)
Fairness == /\ \A g \in Calls : WF_vars(Reader(g))
            /\ WF_vars(Recv) /\ WF_vars(Expire)
FairSpec == Spec /\ Fairness

-----------------------------------------------------------------------------
\* Every variable stays in its type.
TypeOK ==
  /\ sent \in 0..MaxSent /\ srcClosed \in BOOLEAN /\ fed \in 0..sent
  /\ buf \in [Slots -> 0..MaxSent]
  /\ r \in Nat /\ w \in Nat /\ rdErr \in BOOLEAN
  /\ deadline \in {"none", "future", "past"} /\ closed \in BOOLEAN
  /\ cpc \in {"idle", "select", "panicked"} /\ cur \in 0..MaxCalls
  /\ gpc \in [Calls -> {"unborn", "start", "loop", "inRead", "offer",
                        "sending", "exited"}]
  /\ val \in [Calls -> {EndOfSource} \cup 0..MaxSent]
  /\ delivered \in Seq(0..MaxSent)
  /\ last \in {"none", "rune", "error", "eof", "timeout", "spurious", "panic"}
  /\ late \in BOOLEAN /\ abandoned \subseteq Calls /\ overlap \in BOOLEAN

(***************************************************************************)
(* As long as every call waited for its goroutine, the callers get exactly *)
(* what the source wrote, in order, nothing twice and nothing left out,    *)
(* though each rune is fetched by another goroutine through a shared,      *)
(* unlocked buffer.                                                        *)
(***************************************************************************)
InOrder ==
  abandoned = {} => \A i \in 1..Len(delivered) : delivered[i] = i

(***************************************************************************)
(* A read of a pipe that was closed before returns nothing of the source,  *)
(* neither a rune nor an error, whatever goroutines of earlier calls are   *)
(* still doing.                                                            *)
(***************************************************************************)
NothingAfterClose == late /\ cpc = "idle" => last \notin {"rune", "error"}

(***************************************************************************)
(* The error of the source is passed through only after all that was read  *)
(* before it, unless a call has been abandoned.                            *)
(***************************************************************************)
ErrorAfterData ==
  (abandoned = {} /\ last = "error") => Len(delivered) = sent

\* Runes a goroutine holds that may still be delivered.
Held == {g \in Calls : gpc[g] \in {"offer", "sending"} /\ val[g] # EndOfSource
                       /\ ~CallerGone(g)}
Lost == fed - (w - r) - Len(delivered) - Cardinality(Held)

(***************************************************************************)
(* An abandoned call costs at most the one rune its goroutine swallows,    *)
(* and what is delivered stays in the order of the source, as long as no   *)
(* two goroutines have been inside the bufio.Reader at once.               *)
(***************************************************************************)
LossBounded ==
  ~overlap =>
    /\ Lost \in 0..Cardinality(abandoned)
    /\ \A i, j \in 1..Len(delivered) : i < j => delivered[i] < delivered[j]

(***************************************************************************)
(* Two goroutines get into the bufio.Reader only after a call was          *)
(* abandoned, and only then can the buffer's indices leave its bounds.     *)
(***************************************************************************)
SoleReader ==
  /\ overlap \/ cpc = "panicked" => abandoned # {}
  /\ ~overlap => /\ Cardinality({g \in Calls : Inside(g)}) <= 1
                 /\ r <= w /\ w <= BufSize

(***************************************************************************)
(* A call with a deadline, or on a pipe that is closed, returns although   *)
(* the read below it may block forever.                                    *)
(***************************************************************************)
ReadReturns ==
  (cpc = "select" /\ (deadline # "none" \/ closed)) ~> cpc # "select"

(***************************************************************************)
(* With neither, a call still returns once there is something to return,   *)
(* as long as no call was ever abandoned.                                  *)
(***************************************************************************)
DataArrives ==
  (cpc = "select" /\ (sent > Len(delivered) \/ srcClosed))
    ~> (cpc # "select" \/ abandoned # {})

(***************************************************************************)
(* Close() and the end of the source release the goroutines of all calls   *)
(* but those that were abandoned between finding their caller there and    *)
(* sending to it.                                                          *)
(***************************************************************************)
Released(g) == gpc[g] \in {"unborn", "exited"} \/ (g \in abandoned /\ gpc[g] = "sending")
GoroutinesEnd ==
  (closed /\ srcClosed) ~> (cpc = "panicked" \/ \A g \in Calls : Released(g))

-----------------------------------------------------------------------------
(***************************************************************************)
(* Seen from outside, with a goroutine for each read and the shared buffer *)
(* hidden, the pipe is a RuneStream: what comes is what was written, in    *)
(* order, short of at most one rune for each call that gave up.            *)
(***************************************************************************)
Stream == INSTANCE RuneStream WITH
  written <- sent, ended <- srcClosed, shut <- closed, outcome <- last, torn <- overlap,
  missed <- Cardinality(abandoned),
  call <- [idle |-> "idle", select |-> "reading", panicked |-> "crashed"][cpc]

ImplementsStream == Stream!Spec
=============================================================================
