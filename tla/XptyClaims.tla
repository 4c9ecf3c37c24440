----------------------------- MODULE XptyClaims -----------------------------
(***************************************************************************)
(* What a comment of xpty.go says and the code does not do.                *)
(***************************************************************************)
EXTENDS Xpty

\* xpty.go:97: "this drains the rwPipe continuously.  If that didn't happen, we
\* would block on write."  A reply does not keep the reader waiting for ever, but
\* for a terminal that takes no more input.
RwPipeIsDrained == replying ~> ~replying \/ writer["copier"] = "kernel"
=============================================================================
