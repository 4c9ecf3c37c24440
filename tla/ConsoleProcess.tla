--------------------------- MODULE ConsoleProcess ---------------------------
(***************************************************************************)
(* A ConsoleProcess bonds a child process with a pseudo-terminal           *)
(* (conproc.go).  Four threads of control touch it:                        *)
(*   caller   the test: Expect*, Signal/Stop, Wait, Expect[Not]ExitCode    *)
(*   expect   the read loop of Console.Expect; a goroutine of its own when *)
(*            wait() starts it, the caller's own stack otherwise           *)
(*   waiter   the goroutine New() starts around cmd.Wait()                 *)
(*   closer   a call of Close(), possibly while the caller is in wait()    *)
(* plus the child, the operating system and the clock.  The channel errs   *)
(* is unbuffered, so a send and its receive are one step, and it is closed *)
(* exactly when the waiter has exited.  Time is counted in ticks; the      *)
(* scheduler may be arbitrarily slow, so an expired timer races the rest.  *)
(***************************************************************************)
EXTENDS Integers

CONSTANTS
  Timeout,        \* ticks before a wait, or one read of a rune, times out
  DrainTime,      \* ticks without a read that make IsBlocked() true (100 ms)
  ExitCodes,      \* exit codes the child may choose
  MaxOutput,      \* bound on the chunks the child prints
  MaxPending,     \* chunks the terminal holds before the child's write blocks
  Endless,        \* TRUE: the child never runs out of output
  MaxCalls,       \* bound on the calls the test makes
  RetainWorkDir,  \* Options.RetainWorkDir
  FatalObserver   \* TRUE: Options.ObserveExpect is TestExpectObserveFn, whose
                  \* t.Fatalf ends the goroutine it is called on

ASSUME TimesAssumption == Timeout \in Nat \ {0} /\ DrainTime \in Nat \ {0}
ASSUME OutputAssumption == MaxOutput \in Nat /\ MaxPending \in Nat \ {0}
ASSUME ExitCodesAssumption == ExitCodes \subseteq Nat
ASSUME CallsAssumption == MaxCalls \in Nat
ASSUME FlagsAssumption == {Endless, RetainWorkDir, FatalObserver} \subseteq BOOLEAN

VARIABLES
  status,        \* the child's exit code, Killed, or Alive while it runs
  budget,        \* chunks the child still wants to print
  output,        \* chunks written to the terminal and not read yet
  ttyClosed,     \* Pty.CloseTTY() was called
  readersClosed, \* Console.CloseReaders() was called
  waiter,        \* where the goroutine of New() stands
  caller,        \* where the test's goroutine stands
  perr,          \* the status wait() took from errs
  receipts,      \* how often a receive from errs has completed
  result,        \* what the last Wait or Expect returned
  calls,         \* calls the test has made
  expect,        \* where the current Console.Expect stands
  expErr,        \* the error that Expect ended with
  closer,        \* where Close() stands
  ctxDone,       \* cp.ctx is cancelled
  workdir,       \* the working directory exists
  waitLeft,      \* ticks left on wait()'s time.After
  readLeft,      \* ticks left before the read deadline
  idle           \* ticks since PassthroughPipe.lastRead

child == <<status, budget>>
tty   == <<output, ttyClosed, readersClosed>>
test  == <<caller, perr, receipts, result, calls>>
read  == <<expect, expErr>>
close == <<closer, ctxDone, workdir>>
clock == <<waitLeft, readLeft, idle>>
vars  == <<child, tty, waiter, test, read, close, clock>>

Killed == -1                       \* ExitCode() of a child a signal ended
Alive == -2
Statuses == ExitCodes \cup {Killed}

\* What wait() and Expect return; "status" is (ProcessState, perr), where a
\* nil error is exit code 0.
ResultKinds == {"none", "status", "timeout", "unexpected", "cancelled",
                "panic", "matched", "failed"}
Returned(kind) == [kind |-> kind, code |-> 0]
Exited(code) == [kind |-> "status", code |-> code]

\* New(): the child runs and the waiter is in cmd.Wait().  lastRead is the
\* zero time: the pipe counts as idle before anybody has read from it.
Init ==
  /\ status = Alive /\ budget \in 0..MaxOutput
  /\ output = 0 /\ ttyClosed = FALSE /\ readersClosed = FALSE
  /\ waiter = "wait"
  /\ caller = "idle" /\ perr = 0 /\ receipts = 0 /\ calls = 0
  /\ result = Returned("none")
  /\ expect = "none" /\ expErr = "nil"
  /\ closer = "idle" /\ ctxDone = FALSE /\ workdir = TRUE
  /\ waitLeft = 0 /\ readLeft = 0 /\ idle = DrainTime

-----------------------------------------------------------------------------
(* The child process, the operating system and the clock.                   *)

\* os.Process.Wait marks the child done before it collects it; cmd.Wait sets
\* cmd.ProcessState as its last act.
Running == status = Alive
Reaped == waiter # "wait"
Recorded == waiter \notin {"wait", "reaped"}

\* The child prints; with the terminal's buffer full it blocks instead.
ProcWrite ==
  /\ Running /\ budget > 0 /\ output < MaxPending
  /\ output' = output + 1
  /\ budget' = IF Endless THEN budget ELSE budget - 1
  /\ UNCHANGED <<status, ttyClosed, readersClosed, waiter, test, read, close, clock>>

\* The child exits by itself, when it has printed everything.
ProcExit ==
  /\ Running /\ budget = 0
  /\ status' \in ExitCodes
  /\ UNCHANGED <<budget, tty, waiter, test, read, close, clock>>

\* os.Process.Kill: an error once the child is done, no effect on a zombie.
KillFails == Reaped
KillProcess ==
  /\ status' = IF Running THEN Killed ELSE status
  /\ budget' = budget

Count(t) == IF t > 0 THEN t - 1 ELSE 0
Tick ==
  /\ waitLeft > 0 \/ readLeft > 0 \/ idle < DrainTime
  /\ waitLeft' = Count(waitLeft) /\ readLeft' = Count(readLeft)
  /\ idle' = IF idle < DrainTime THEN idle + 1 ELSE idle
  /\ UNCHANGED <<child, tty, waiter, test, read, close>>

-----------------------------------------------------------------------------
(* Console.Expect: one read per turn of the loop.                           *)

\* The loop sets the deadline anew and calls ReadRune, which stamps lastRead.
ExpectRead ==
  /\ expect \in {"spawned", "got"}
  /\ expect' = "reading" /\ readLeft' = Timeout /\ idle' = 0
  /\ UNCHANGED <<child, tty, waiter, test, expErr, close, waitLeft>>

\* ReadRune delivers; on a closed pipe, or when its goroutine comes only after
\* the deadline, it may deliver a rune (0, size 0, no error) that nobody sent.
ExpectRune ==
  /\ expect = "reading"
  /\ expect' = "got"
  /\ \/ output > 0 /\ output' = output - 1
     \/ (readersClosed \/ readLeft = 0) /\ output' = output
  /\ UNCHANGED <<child, ttyClosed, readersClosed, waiter, test, expErr, close, clock>>

(***************************************************************************)
(* Expect ends with error e.  The deferred observers run first; one that   *)
(* calls t.Fatalf ends the goroutine there and then.  In the goroutine of  *)
(* wait() nothing is sent on finalErrCh any more; in the test's own        *)
(* goroutine the test is over.                                             *)
(***************************************************************************)
ObserverEnds(e) == FatalObserver /\ e # "nil"
ExpectEnds(e) ==
  /\ expErr' = e
  /\ \/ ~ObserverEnds(e) /\ expect' = "done" /\ UNCHANGED <<caller, result>>
     \/ /\ ObserverEnds(e) /\ caller = "expecting"
        /\ expect' = "none" /\ caller' = "exited" /\ result' = Returned("failed")
     \/ /\ ObserverEnds(e) /\ caller # "expecting"
        /\ expect' = "gone" /\ UNCHANGED <<caller, result>>
  /\ UNCHANGED <<child, tty, waiter, perr, receipts, calls, close, clock>>

\* wait() matches PTSClosed, StdinClosed and EOF, so they end its Expect
\* without an error; the matchers of the test may or may not include them.
EndErrors == IF caller = "expecting" THEN {"nil", "error"} ELSE {"nil"}

\* The terminal is closed and its output used up.
ExpectPTSClosed ==
  /\ expect = "reading" /\ ttyClosed /\ output = 0
  /\ \E e \in EndErrors : ExpectEnds(e)
\* The pass-through pipe is closed.
ExpectEOF ==
  /\ expect = "reading" /\ readersClosed
  /\ \E e \in EndErrors : ExpectEnds(e)
\* The deadline of this read has passed.
ExpectTimeout == expect = "reading" /\ readLeft = 0 /\ ExpectEnds("timeout")
\* A rune satisfies the test's matchers; those of wait() match errors only.
ExpectMatch == expect = "got" /\ caller = "expecting" /\ ExpectEnds("nil")
\* One of the Stdout writers refuses the rune.
ExpectWriteFails == expect = "got" /\ ExpectEnds("error")

-----------------------------------------------------------------------------
(* The test: Expect, Signal and Stop.                                       *)

MayCall == caller = "idle" /\ calls < MaxCalls
SpawnExpect == expect' = "spawned" /\ expErr' = "nil"

CallExpect ==
  /\ MayCall /\ SpawnExpect
  /\ caller' = "expecting" /\ calls' = calls + 1
  /\ UNCHANGED <<child, tty, waiter, perr, receipts, result, close, clock>>

ExpectReturn ==
  /\ caller = "expecting" /\ expect = "done"
  /\ caller' = "idle" /\ expect' = "none"
  /\ result' = Returned(IF expErr = "nil" THEN "matched" ELSE "failed")
  /\ UNCHANGED <<child, tty, waiter, perr, receipts, calls, expErr, close, clock>>

\* Signal, Stop or SendCtrlC: the child dies of it, gives up printing (and
\* will exit), or ignores it.
CallSignal ==
  /\ MayCall
  /\ calls' = calls + 1
  /\ \/ KillProcess
     \/ Running /\ budget' = 0 /\ UNCHANGED status
     \/ UNCHANGED child
  /\ UNCHANGED <<tty, waiter, caller, perr, receipts, result, read, close, clock>>

-----------------------------------------------------------------------------
(* The test: wait(), behind Wait and Expect[Not]ExitCode.                   *)

CallWait ==
  /\ MayCall /\ SpawnExpect
  /\ caller' = "select" /\ calls' = calls + 1 /\ waitLeft' = Timeout
  /\ UNCHANGED <<child, tty, waiter, perr, receipts, result, close, readLeft, idle>>

\* A receive from errs yields s: the status the waiter offers, or the zero
\* value, a nil error, once the channel is closed.
ReceiveErrs(s) ==
  /\ \/ waiter = "offer" /\ s = status /\ waiter' = "drain"
     \/ waiter = "exited" /\ s = 0 /\ waiter' = "exited"
  /\ receipts' = receipts + 1

\* <-finalErrCh.  Its mutant: a default case beside the receive.
FinalErrOrDefault == expect # "none"
FinalErrReceived == expect = "done"

\* A finished wait() returns to the test; a verdict against the test's
\* expectation ends the test when the observer is fatal.
AfterWait == IF FatalObserver THEN {"idle", "exited"} ELSE {"idle"}

\* case perr := <-cp.errs
WaitStatus ==
  /\ caller = "select"
  /\ \E s \in Statuses \cup {0} : ReceiveErrs(s) /\ perr' = s
  /\ caller' = "collect" /\ waitLeft' = 0
  /\ UNCHANGED <<child, tty, result, calls, read, close, readLeft, idle>>

WaitCollect ==
  /\ caller = "collect" /\ FinalErrReceived
  /\ expect' = "none" /\ readersClosed' = TRUE
  /\ result' = IF expErr = "error" THEN Returned("unexpected") ELSE Exited(perr)
  /\ caller' \in AfterWait
  /\ UNCHANGED <<child, output, ttyClosed, waiter, perr, receipts, calls, expErr,
                 close, clock>>

\* case <-time.After(t).  Its mutant: no such case.
WaitWithoutTimer == FALSE
WaitTimer ==
  /\ caller = "select" /\ waitLeft = 0
  /\ caller' = "expired"
  /\ UNCHANGED <<child, tty, waiter, perr, receipts, result, calls, read, close, clock>>

WaitTimerCollect ==
  /\ caller = "expired" /\ FinalErrReceived
  /\ caller' = "kill" /\ expect' = "none"
  /\ UNCHANGED <<child, tty, waiter, perr, receipts, result, calls, expErr, close, clock>>

\* forceKill: Kill, or panic with Kill's error ...
ForceKill ==
  /\ caller = "kill"
  /\ \/ /\ KillFails
        /\ caller' = "panicked" /\ result' = Returned("panic") /\ UNCHANGED child
     \/ /\ ~KillFails
        /\ KillProcess /\ caller' = "reap" /\ UNCHANGED result
  /\ UNCHANGED <<tty, waiter, perr, receipts, calls, read, close, clock>>

\* ... and <-cp.errs, the status thrown away.  The mutant forgets to receive.
TimedOut == result' = Returned("timeout") /\ caller' \in AfterWait
ForceKillNoReceive ==
  /\ caller = "reap" /\ TimedOut
  /\ UNCHANGED <<child, tty, waiter, perr, receipts, calls, read, close, clock>>
ForceKillReceive ==
  /\ caller = "reap" /\ TimedOut
  /\ \E s \in Statuses \cup {0} : ReceiveErrs(s)
  /\ UNCHANGED <<child, tty, perr, calls, read, close, clock>>

\* case <-cp.ctx.Done().  The mutant returns without waiting for finalErrCh.
WaitCancelledReturns ==
  /\ caller = "select" /\ ctxDone
  /\ caller' = "idle" /\ result' = Returned("cancelled") /\ waitLeft' = 0
  /\ UNCHANGED <<child, tty, waiter, perr, receipts, calls, read, close, readLeft, idle>>
WaitCancelled ==
  /\ caller = "select" /\ ctxDone
  /\ caller' = "cancelled" /\ waitLeft' = 0
  /\ UNCHANGED <<child, tty, waiter, perr, receipts, result, calls, read, close,
                 readLeft, idle>>

WaitCancelledCollect ==
  /\ caller = "cancelled" /\ FinalErrReceived
  /\ expect' = "none" /\ result' = Returned("cancelled") /\ caller' \in AfterWait
  /\ UNCHANGED <<child, tty, waiter, perr, receipts, calls, expErr, close, clock>>

-----------------------------------------------------------------------------
(* The goroutine of New().                                                  *)

WaiterGoes(from, to) == /\ waiter = from /\ waiter' \in to
                        /\ UNCHANGED <<child, test, read, close, clock>>

WaiterReap == ~Running /\ WaiterGoes("wait", {"reaped"}) /\ UNCHANGED tty

\* cmd.Wait returns.  The mutant's send on errs has a default case.
WaiterRecordDefault == WaiterGoes("reaped", {"offer", "drain"}) /\ UNCHANGED tty
WaiterRecord == WaiterGoes("reaped", {"offer"}) /\ UNCHANGED tty

\* case <-cp.ctx.Done(): nobody took the status.  The mutants do not close
\* the console, and have no such case.
WaiterCancelledReturns == ctxDone /\ WaiterGoes("offer", {"exit"}) /\ UNCHANGED tty
WaiterNotCancellable == FALSE
WaiterCancelled == ctxDone /\ WaiterGoes("offer", {"abort"}) /\ UNCHANGED tty

\* WaitTillDrained polls until nobody has started a read for DrainTime.
IsBlocked == idle >= DrainTime
WaiterDrained == IsBlocked /\ WaiterGoes("drain", {"closeTTY"}) /\ UNCHANGED tty

\* CloseTTY: what no reader has buffered by then is gone ...
WaiterCloseTTY ==
  /\ ttyClosed' = TRUE /\ output' \in 0..output /\ UNCHANGED readersClosed
  /\ WaiterGoes("closeTTY", {"exit"}) \/ WaiterGoes("abort", {"closeReaders"})

\* ... and console.Close() goes on with the readers.
WaiterCloseReaders ==
  /\ readersClosed' = TRUE /\ UNCHANGED <<output, ttyClosed>>
  /\ WaiterGoes("closeReaders", {"exit"})

\* defer close(cp.errs)
WaiterExit == WaiterGoes("exit", {"exited"}) /\ UNCHANGED tty

-----------------------------------------------------------------------------
(* Close(), deferred by the test or called while it waits.                  *)

CallClose ==
  /\ closer \in {"idle", "closed"} /\ calls < MaxCalls
  /\ calls' = calls + 1 /\ closer' = "cleanUp" /\ ctxDone' = TRUE
  /\ UNCHANGED <<child, tty, waiter, caller, perr, receipts, result, read, workdir, clock>>

CloserGoes(from, to) == /\ closer = from /\ closer' = to
                        /\ UNCHANGED <<tty, waiter, test, read, ctxDone, clock>>

CloseCleanUp ==
  /\ CloserGoes("cleanUp", "check")
  /\ workdir' = (workdir /\ RetainWorkDir) /\ UNCHANGED child

\* ProcessState.Exited() is false for a child that a signal ended.  The
\* mutant does not compare cmd.ProcessState with nil.
ExitedUnchecked == status # Killed
HasExited == Recorded /\ status # Killed
CloseCheck ==
  /\ CloserGoes("check", IF HasExited THEN "closed" ELSE "kill")
  /\ UNCHANGED <<child, workdir>>

CloseKill ==
  /\ \/ KillFails /\ CloserGoes("kill", "term") /\ UNCHANGED child
     \/ ~KillFails /\ CloserGoes("kill", "closed") /\ KillProcess
  /\ UNCHANGED workdir

\* SIGTERM, tried only after Kill has failed.  Like Kill it does nothing to a
\* child that is done; its error is what Close returns.
CloseTerm == CloserGoes("term", "closed") /\ UNCHANGED <<child, workdir>>

-----------------------------------------------------------------------------
ExpectStep == ExpectRead \/ ExpectRune \/ ExpectTimeout \/ ExpectMatch \/ ExpectWriteFails
CallerStep == \/ ExpectReturn \/ WaitStatus \/ WaitCollect \/ WaitTimer
              \/ WaitTimerCollect \/ ForceKill \/ ForceKillReceive
              \/ WaitCancelled \/ WaitCancelledCollect
WaiterStep == \/ WaiterReap \/ WaiterRecord \/ WaiterCancelled \/ WaiterDrained
              \/ WaiterCloseTTY \/ WaiterCloseReaders \/ WaiterExit
CloserStep == CloseCleanUp \/ CloseCheck \/ CloseKill \/ CloseTerm
Call == CallExpect \/ CallSignal \/ CallWait \/ CallClose

\* The test has made its calls, or is over, and every call has returned.
Terminating ==
  /\ caller \in {"exited", "panicked"} \/ (caller = "idle" /\ calls = MaxCalls)
  /\ closer \in {"idle", "closed"}
  /\ UNCHANGED vars

Next ==
  \/ ProcWrite \/ ProcExit \/ Tick \/ Terminating
  \/ ExpectStep \/ ExpectPTSClosed \/ ExpectEOF
  \/ CallerStep \/ WaiterStep \/ CloserStep \/ Call

Spec == Init /\ [][Next]_vars

(***************************************************************************)
(* Goroutines are scheduled and the clock runs, so each thread's steps are *)
(* weakly fair.  Go's select picks at random among its ready cases, so the *)
(* end of a closed pipe or of the time is found eventually, however often  *)
(* a read returns a rune that nobody sent before.  Nothing is assumed of   *)
(* the child (it may hang), of the test (it may stop calling), or of the   *)
(* kernel reporting a closed terminal (ExpectPTSClosed: a grandchild may   *)
(* keep it open).                                                          *)
(***************************************************************************)
Fairness ==
  /\ WF_vars(Tick)
  /\ WF_vars(ExpectStep) /\ SF_vars(ExpectEOF) /\ SF_vars(ExpectTimeout)
  /\ WF_vars(CallerStep) /\ WF_vars(WaiterStep) /\ WF_vars(CloserStep)

FairSpec == Spec /\ Fairness

-----------------------------------------------------------------------------
(* Verdicts of ExpectExitCode(c) and ExpectNotExitCode(c) on wait's result. *)
ExpectExitCodeOk(r, c) == r.kind = "status" /\ r.code = c
ExpectNotExitCodeOk(r, c) == r.kind = "status" /\ r.code # c

-----------------------------------------------------------------------------
\* Every variable stays in its type.
TypeOK ==
  /\ status \in Statuses \cup {Alive}
  /\ budget \in 0..MaxOutput /\ output \in 0..MaxPending
  /\ ttyClosed \in BOOLEAN /\ readersClosed \in BOOLEAN
  /\ ctxDone \in BOOLEAN /\ workdir \in BOOLEAN
  /\ waiter \in {"wait", "reaped", "offer", "drain", "closeTTY", "abort",
                  "closeReaders", "exit", "exited"}
  /\ caller \in {"idle", "expecting", "select", "collect", "expired", "kill",
                  "reap", "cancelled", "panicked", "exited"}
  /\ expect \in {"none", "spawned", "reading", "got", "done", "gone"}
  /\ expErr \in {"nil", "timeout", "error"}
  /\ perr \in Statuses \cup {0}
  /\ result \in [kind : ResultKinds, code : Statuses \cup {0}]
  /\ receipts \in 0..calls /\ calls \in 0..MaxCalls
  /\ closer \in {"idle", "cleanUp", "check", "kill", "term", "closed"}
  /\ waitLeft \in 0..Timeout /\ readLeft \in 0..Timeout
  /\ idle \in 0..DrainTime

\* wait() stands where it will still receive from finalErrCh.
Waiting == caller \in {"select", "collect", "expired", "cancelled"}

(***************************************************************************)
(* wait() closes finalErrCh when it returns, on each of its three ways     *)
(* out, and its goroutine sends on it: while wait() still has to receive,  *)
(* there is a goroutine that has not delivered yet, and when it has        *)
(* returned there is none left to send on the closed channel.              *)
(***************************************************************************)
ExpectOwnership == (expect # "none") <=> (Waiting \/ caller = "expecting")

(***************************************************************************)
(* The waiter shuts down in one order whichever case of its select it      *)
(* took: errs is closed after the terminal, the terminal is closed after   *)
(* the child was collected, and the status is known by the time it is      *)
(* offered.                                                                *)
(***************************************************************************)
ShutdownOrder ==
  /\ waiter = "exited" => ttyClosed
  /\ ttyClosed => Recorded
  /\ Reaped => ~Running

(***************************************************************************)
(* As long as nobody called Close(), the first receive from errs yields    *)
(* the child's status, so the first ExpectExitCode or ExpectNotExitCode    *)
(* that reaches a verdict judges the real exit code.                       *)
(***************************************************************************)
FirstVerdictGenuine ==
  (receipts = 1 /\ ~ctxDone) =>
    \A c \in Statuses :
      /\ ExpectExitCodeOk(result, c) => status = c
      /\ ExpectNotExitCodeOk(result, c) => status # c

(***************************************************************************)
(* When wait() returns anything but a cancellation or a panic, the child   *)
(* is gone: it has been collected, also after a timeout.                   *)
(***************************************************************************)
WaitLeavesNoProcess ==
  result.kind \in {"status", "timeout", "unexpected"} => Reaped

(***************************************************************************)
(* Close() returns with the child dead and the working directory removed   *)
(* unless it is to be retained, whatever wait() and the waiter do between  *)
(* its steps.                                                              *)
(***************************************************************************)
CloseEffective ==
  closer = "closed" => ~Running /\ (workdir => RetainWorkDir)

(***************************************************************************)
(* "close the readers after all bytes from the terminal have been          *)
(* consumed": unless Close() interferes, the readers are closed only when  *)
(* no Expect is reading any more, and if that Expect ended without an      *)
(* error the terminal was closed before and everything left in it read.    *)
(***************************************************************************)
ReadersCloseLast ==
  [][(~readersClosed /\ readersClosed' /\ ~ctxDone) =>
       /\ expect = "done"
       /\ expErr = "nil" => ttyClosed /\ output = 0]_vars

(***************************************************************************)
(* Every call of Expect and of wait() returns, at the latest when its      *)
(* timers have fired, though the child may hang or block on its output.    *)
(***************************************************************************)
CallsReturn ==
  (Waiting \/ caller \in {"expecting", "kill", "reap"})
    ~> caller \in {"idle", "panicked", "exited"}

(***************************************************************************)
(* After Close() the goroutine of New() ends, whether or not the exit      *)
(* status was ever asked for.                                              *)
(***************************************************************************)
CloseReleasesWaiter == closer = "closed" ~> waiter = "exited"
=============================================================================
