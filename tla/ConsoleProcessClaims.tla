------------------------ MODULE ConsoleProcessClaims ------------------------
(***************************************************************************)
(* What the comments of conproc.go and testing.go say of a ConsoleProcess  *)
(* and the code does not keep.  Each is refuted by a run of its own.       *)
(***************************************************************************)
EXTENDS ConsoleProcess

(***************************************************************************)
(* conproc.go:37: ErrWaitTimeout "is returned when we time out waiting for *)
(* the console process to exit".  But the Expect that wait() collects      *)
(* after its timer may last longer than the timer (its deadline restarts   *)
(* with every rune), and the select may take the timer though the child    *)
(* has exited before: once it is reaped, forceKill panics with "os:        *)
(* process already finished".                                              *)
(***************************************************************************)
TimeoutIsReturned == caller # "panicked"

(***************************************************************************)
(* conproc.go:318: ExpectExitCode "checks that the returned exit code      *)
(* meets expectations".  A second call receives the zero value from the    *)
(* closed channel and reports exit code 0 for any child, though nobody     *)
(* has called Close().                                                     *)
(***************************************************************************)
VerdictMeetsExitCode ==
  ~ctxDone => \A c \in ExitCodes : ExpectExitCodeOk(result, c) => status = c

(***************************************************************************)
(* testing.go:26: TestExpectObserveFn "reports any error occurring durint  *)
(* expect calls to the supplied testing instance".  It does so by ending   *)
(* the goroutine it runs on; on the one wait() started, the error is never *)
(* delivered and wait() never returns.                                     *)
(***************************************************************************)
FatalObserverReports ==
  (Waiting /\ expErr # "nil") ~> caller \in {"idle", "exited", "panicked"}
=============================================================================
