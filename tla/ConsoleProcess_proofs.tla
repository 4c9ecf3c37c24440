----------------------- MODULE ConsoleProcess_proofs -----------------------
(***************************************************************************)
(* Proofs about ConsoleProcess, for every timeout, drain time, set of exit *)
(* codes, amount of output and number of calls: the safety properties that *)
(* the runs check on small instances, from one inductive invariant.        *)
(***************************************************************************)
EXTENDS ConsoleProcess, TLAPS

\* A wait() that has not received from errs yet still has its receive to do.
ReceiptsCounted == caller \in {"select", "expired", "kill", "reap"} => receipts < calls

\* The terminal is closed by the waiter, at one point of its way.
TTYInv ==
  /\ ttyClosed <=> waiter \in {"closeReaders", "exit", "exited"}
  /\ Reaped => ~Running

\* Without Close() the waiter leaves "offer" by handing over the status, and
\* that is the first receive.
ReceiptsInv ==
  /\ waiter \in {"abort", "closeReaders"} => ctxDone
  /\ ~ctxDone => (receipts = 0 <=> waiter \in {"wait", "reaped", "offer"})
  /\ receipts = 0 => caller # "collect" /\ result.kind # "status"

\* What the first receive yielded is the child's status.
VerdictInv ==
  (receipts = 1 /\ ~ctxDone) =>
    /\ caller = "collect" => perr = status
    /\ result.kind = "status" => result.code = status

\* Whatever a wait() has received, the child was collected before.
ReapedInv ==
  /\ caller = "collect" => Reaped
  /\ WaitLeavesNoProcess

CloseInv ==
  /\ closer \in {"check", "kill", "term", "closed"} => (workdir => RetainWorkDir)
  /\ closer = "closed" => ~Running
  /\ closer = "term" => Reaped

\* An Expect of wait() that ended well has seen the end of the output.
DrainedInv ==
  (Waiting /\ expect = "done" /\ expErr = "nil" /\ ~readersClosed) =>
    ttyClosed /\ output = 0

(***************************************************************************)
(* The inductive invariant: the type invariant, the ownership of the       *)
(* Expect goroutine, and how the pcs of the waiter, the test and Close()   *)
(* bound what the others can have done.                                    *)
(***************************************************************************)
IInv ==
  /\ TypeOK /\ ExpectOwnership
  /\ ReceiptsCounted /\ TTYInv /\ ReceiptsInv /\ VerdictInv /\ ReapedInv
  /\ CloseInv /\ DrainedInv

-----------------------------------------------------------------------------
USE TimesAssumption, OutputAssumption, ExitCodesAssumption, CallsAssumption,
    FlagsAssumption
    DEF Statuses, Alive, Killed, ResultKinds, Returned, Running, Reaped, Recorded

\* New() establishes the invariant.
LEMMA InitInv == Init => IInv
<1> SUFFICES ASSUME Init PROVE IInv
  OBVIOUS
<1> USE DEF Init
<1>1. TypeOK
  <2>1. /\ status \in Statuses \cup {Alive} /\ budget \in 0..MaxOutput
        /\ output \in 0..MaxPending /\ receipts \in 0..calls /\ calls \in 0..MaxCalls
    OBVIOUS
  <2>2. waitLeft \in 0..Timeout /\ readLeft \in 0..Timeout /\ idle \in 0..DrainTime
    OBVIOUS
  <2>3. result \in [kind : ResultKinds, code : Statuses \cup {0}]
    OBVIOUS
  <2>4. QED
    BY <2>1, <2>2, <2>3, Zenon DEF TypeOK
<1>2. ExpectOwnership /\ ReceiptsCounted /\ TTYInv
  BY DEF ExpectOwnership, Waiting, ReceiptsCounted, TTYInv
<1>3. ReceiptsInv /\ VerdictInv /\ ReapedInv /\ CloseInv /\ DrainedInv
  BY DEF ReceiptsInv, VerdictInv, ReapedInv, WaitLeavesNoProcess, CloseInv,
         DrainedInv, Waiting
<1>4. QED
  BY <1>1, <1>2, <1>3 DEF IInv

USE DEF IInv, TypeOK, ExpectOwnership, Waiting, ReceiptsCounted, TTYInv,
        ReceiptsInv, VerdictInv, ReapedInv, WaitLeavesNoProcess, CloseInv,
        DrainedInv, child, tty, test, read, close, clock

\* The child, the operating system and the clock preserve it.
LEMMA EnvironmentInv == IInv /\ (ProcWrite \/ ProcExit \/ Tick) => IInv'
<1> SUFFICES ASSUME IInv, (ProcWrite \/ ProcExit \/ Tick) PROVE IInv'
  OBVIOUS
<1>1. CASE ProcWrite
  BY <1>1 DEF ProcWrite
<1>2. CASE ProcExit
  BY <1>2 DEF ProcExit
<1>3. CASE Tick
  BY <1>3 DEF Tick, Count
<1>4. QED
  BY <1>1, <1>2, <1>3

\* So does the loop of Console.Expect, whoever runs it and however it ends.
LEMMA ReadLoopInv == IInv /\ (ExpectStep \/ ExpectPTSClosed \/ ExpectEOF) => IInv'
<1> SUFFICES ASSUME IInv, (ExpectStep \/ ExpectPTSClosed \/ ExpectEOF) PROVE IInv'
  OBVIOUS
<1>1. CASE ExpectRead
  BY <1>1 DEF ExpectRead
<1>2. CASE ExpectRune
  BY <1>2 DEF ExpectRune
<1>3. CASE ExpectTimeout
  BY <1>3 DEF ExpectTimeout, ExpectEnds, ObserverEnds
<1>4. CASE ExpectMatch
  BY <1>4 DEF ExpectMatch, ExpectEnds, ObserverEnds
<1>5. CASE ExpectWriteFails
  BY <1>5 DEF ExpectWriteFails, ExpectEnds, ObserverEnds
<1>6. CASE ExpectPTSClosed
  BY <1>6 DEF ExpectPTSClosed, ExpectEnds, ObserverEnds, EndErrors
<1>7. CASE ExpectEOF
  BY <1>7 DEF ExpectEOF, ExpectEnds, ObserverEnds, EndErrors
<1>8. QED
  BY <1>1, <1>2, <1>3, <1>4, <1>5, <1>6, <1>7 DEF ExpectStep

\* So does every step of Expect and wait(), on each of wait()'s three ways out.
LEMMA CallerInv == IInv /\ CallerStep => IInv'
<1> SUFFICES ASSUME IInv, CallerStep PROVE IInv'
  OBVIOUS
<1>1. CASE ExpectReturn
  BY <1>1 DEF ExpectReturn
<1>2. CASE WaitStatus
  BY <1>2 DEF WaitStatus, ReceiveErrs
<1>3. CASE WaitCollect
  BY <1>3 DEF WaitCollect, FinalErrReceived, Exited, AfterWait
<1>4. CASE WaitTimer
  BY <1>4 DEF WaitTimer
<1>5. CASE WaitTimerCollect
  BY <1>5 DEF WaitTimerCollect, FinalErrReceived
<1>6. CASE ForceKill
  BY <1>6 DEF ForceKill, KillFails, KillProcess
<1>7. CASE ForceKillReceive
  BY <1>7 DEF ForceKillReceive, TimedOut, ReceiveErrs, AfterWait
<1>8. CASE WaitCancelled
  BY <1>8 DEF WaitCancelled
<1>9. CASE WaitCancelledCollect
  BY <1>9 DEF WaitCancelledCollect, FinalErrReceived, AfterWait
<1>10. QED
  BY <1>1, <1>2, <1>3, <1>4, <1>5, <1>6, <1>7, <1>8, <1>9 DEF CallerStep

\* So does the goroutine of New().
LEMMA WaiterInv == IInv /\ WaiterStep => IInv'
<1> SUFFICES ASSUME IInv, WaiterStep PROVE IInv'
  OBVIOUS
<1>1. CASE WaiterReap
  BY <1>1 DEF WaiterReap, WaiterGoes
<1>2. CASE WaiterRecord
  BY <1>2 DEF WaiterRecord, WaiterGoes
<1>3. CASE WaiterCancelled
  BY <1>3 DEF WaiterCancelled, WaiterGoes
<1>4. CASE WaiterDrained
  BY <1>4 DEF WaiterDrained, WaiterGoes, IsBlocked
<1>5. CASE WaiterCloseTTY
  BY <1>5 DEF WaiterCloseTTY, WaiterGoes
<1>6. CASE WaiterCloseReaders
  BY <1>6 DEF WaiterCloseReaders, WaiterGoes
<1>7. CASE WaiterExit
  BY <1>7 DEF WaiterExit, WaiterGoes
<1>8. QED
  BY <1>1, <1>2, <1>3, <1>4, <1>5, <1>6, <1>7 DEF WaiterStep

\* So does Close().
LEMMA CloserInv == IInv /\ CloserStep => IInv'
<1> SUFFICES ASSUME IInv, CloserStep PROVE IInv'
  OBVIOUS
<1>1. CASE CloseCleanUp
  BY <1>1 DEF CloseCleanUp, CloserGoes
<1>2. CASE CloseCheck
  BY <1>2 DEF CloseCheck, CloserGoes, HasExited
<1>3. CASE CloseKill
  BY <1>3 DEF CloseKill, CloserGoes, KillFails, KillProcess
<1>4. CASE CloseTerm
  BY <1>4 DEF CloseTerm, CloserGoes
<1>5. QED
  BY <1>1, <1>2, <1>3, <1>4 DEF CloserStep

\* So does every call the test makes.
LEMMA CallInv == IInv /\ Call => IInv'
<1> SUFFICES ASSUME IInv, Call PROVE IInv'
  OBVIOUS
<1>1. CASE CallExpect
  BY <1>1 DEF CallExpect, MayCall, SpawnExpect
<1>2. CASE CallSignal
  BY <1>2 DEF CallSignal, MayCall, KillProcess
<1>3. CASE CallWait
  BY <1>3 DEF CallWait, MayCall, SpawnExpect
<1>4. CASE CallClose
  BY <1>4 DEF CallClose
<1>5. QED
  BY <1>1, <1>2, <1>3, <1>4 DEF Call

\* So does doing nothing.
LEMMA StutterInv == IInv /\ UNCHANGED vars => IInv'
BY DEF vars

HIDE DEF IInv, TypeOK, ExpectOwnership, TTYInv, CloseInv, ReapedInv, WaitLeavesNoProcess

(***************************************************************************)
(* The invariant holds in every reachable state.                           *)
(***************************************************************************)
THEOREM Invariance == Spec => []IInv
<1>1. Init => IInv
  BY InitInv
<1>2. IInv /\ [Next]_vars => IInv'
  BY EnvironmentInv, ReadLoopInv, CallerInv, WaiterInv, CloserInv, CallInv,
     StutterInv DEF Next, Terminating
<1>3. QED
  BY <1>1, <1>2, PTL DEF Spec

-----------------------------------------------------------------------------
(* The properties of ConsoleProcess.                                        *)

\* Type correctness.
THEOREM TypeCorrect == Spec => []TypeOK
<1>1. IInv => TypeOK
  BY DEF IInv
<1>2. QED
  BY <1>1, Invariance, PTL

\* wait() never leaves its Expect goroutine behind, nor waits for one that
\* does not exist.
THEOREM ExpectIsOwned == Spec => []ExpectOwnership
<1>1. IInv => ExpectOwnership
  BY DEF IInv
<1>2. QED
  BY <1>1, Invariance, PTL

\* The waiter collects the child, then closes the terminal, then errs.
THEOREM ShutsDownInOrder == Spec => []ShutdownOrder
<1>1. IInv => ShutdownOrder
  BY DEF IInv, TypeOK, TTYInv, ShutdownOrder
<1>2. QED
  BY <1>1, Invariance, PTL

\* Without Close(), the first verdict on the exit code is about the child's.
THEOREM FirstVerdictIsGenuine == Spec => []FirstVerdictGenuine
<1>1. IInv => FirstVerdictGenuine
  BY DEF IInv, FirstVerdictGenuine, ExpectExitCodeOk, ExpectNotExitCodeOk
<1>2. QED
  BY <1>1, Invariance, PTL

\* A wait() that returned a verdict or a timeout has collected the child.
THEOREM WaitCollectsProcess == Spec => []WaitLeavesNoProcess
<1>1. IInv => WaitLeavesNoProcess
  BY DEF IInv, ReapedInv
<1>2. QED
  BY <1>1, Invariance, PTL

\* After Close() the child is dead and the working directory dealt with.
THEOREM CloseIsEffective == Spec => []CloseEffective
<1>1. IInv => CloseEffective
  BY DEF IInv, CloseInv, CloseEffective
<1>2. QED
  BY <1>1, Invariance, PTL

\* Unless Close() interferes, the readers are closed after the output is read.
THEOREM ReadersAreClosedLast == Spec => ReadersCloseLast
<1> DEFINE Closed == (~readersClosed /\ readersClosed' /\ ~ctxDone) =>
                       /\ expect = "done"
                       /\ expErr = "nil" => ttyClosed /\ output = 0
<1>1. IInv /\ Next => Closed
  <2> SUFFICES ASSUME IInv, Next, ~readersClosed, readersClosed', ~ctxDone
               PROVE  expect = "done" /\ (expErr = "nil" => ttyClosed /\ output = 0)
    OBVIOUS
  <2>1. CASE WaitCollect
    BY <2>1 DEF IInv, WaitCollect, FinalErrReceived
  <2>2. CASE WaiterCloseReaders
    BY <2>2 DEF IInv, WaiterCloseReaders, WaiterGoes
  <2>3. CASE ProcWrite \/ ProcExit \/ Tick \/ Terminating \/ Call \/ CloserStep
    BY <2>3 DEF ProcWrite, ProcExit, Tick, Terminating, vars, Call, CallExpect,
       CallSignal, CallWait, CallClose, CloserStep, CloserGoes, CloseCleanUp,
       CloseCheck, CloseKill, CloseTerm
  <2>4. CASE ExpectStep \/ ExpectPTSClosed \/ ExpectEOF
    BY <2>4 DEF ExpectStep, ExpectPTSClosed, ExpectEOF, ExpectRead, ExpectRune,
       ExpectTimeout, ExpectMatch, ExpectWriteFails, ExpectEnds
  <2>5. CASE CallerStep /\ ~WaitCollect
    BY <2>5 DEF CallerStep, ExpectReturn, WaitStatus, WaitTimer, WaitTimerCollect,
       ForceKill, ForceKillReceive, WaitCancelled, WaitCancelledCollect
  <2>6. CASE WaiterStep /\ ~WaiterCloseReaders
    BY <2>6 DEF WaiterStep, WaiterReap, WaiterRecord, WaiterCancelled,
       WaiterDrained, WaiterCloseTTY, WaiterExit
  <2>7. QED
    BY <2>1, <2>2, <2>3, <2>4, <2>5, <2>6 DEF Next
<1>2. QED
  BY <1>1, Invariance, PTL DEF Spec, ReadersCloseLast
=============================================================================
