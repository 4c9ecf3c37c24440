----------------------- MODULE PassthroughPipeClaims -----------------------
(***************************************************************************)
(* What a comment of expect.go says of reading through the pipe and the    *)
(* code does not keep.                                                     *)
(***************************************************************************)
EXTENDS PassthroughPipe

(***************************************************************************)
(* expect.go:56-57: output is queued "so that the next Expect will read    *)
(* the remaining bytes".  After a read that timed out, the goroutine it    *)
(* left behind takes the next rune and drops it.                           *)
(***************************************************************************)
NextReadGetsRemaining == \A i \in 1..Len(delivered) : delivered[i] = i
=============================================================================
