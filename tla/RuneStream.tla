----------------------------- MODULE RuneStream -----------------------------
(***************************************************************************)
(* What reading runes through xpty promises: a source writes runes, the    *)
(* n-th of them being the number n, and a reader gets them one call at a   *)
(* time.  A call may give up.  Each call that did may cost a rune; as long *)
(* as no two reads overlap below (torn), nothing else is lost, nothing is  *)
(* reordered and nothing comes twice.                                      *)
(*                                                                         *)
(* PassthroughPipe implements this; Xpty is built on it.                   *)
(***************************************************************************)
EXTENDS Integers, Sequences

VARIABLES
  written,    \* runes the source has written
  ended,      \* the source has come to its end
  shut,       \* the reading side has been closed
  call,       \* "idle", "reading" or "crashed"
  late,       \* the current call was made after the reading side was closed
  outcome,    \* how the last call ended
  delivered,  \* the runes handed to the reader so far
  missed,     \* calls that gave up
  torn        \* reads have overlapped: which runes come is undefined

streamVars == <<written, ended, shut, call, late, outcome, delivered, missed, torn>>

Init ==
  /\ written = 0 /\ ended = FALSE /\ shut = FALSE
  /\ call = "idle" /\ late = FALSE /\ outcome = "none" /\ delivered = <<>>
  /\ missed = 0 /\ torn = FALSE

Write ==
  /\ ~ended
  /\ written' = written + 1
  /\ UNCHANGED <<ended, shut, call, late, outcome, delivered, missed, torn>>

End ==
  /\ ~ended
  /\ ended' = TRUE
  /\ UNCHANGED <<written, shut, call, late, outcome, delivered, missed, torn>>

Shut ==
  /\ ~shut
  /\ shut' = TRUE
  /\ UNCHANGED <<written, ended, call, late, outcome, delivered, missed, torn>>

Read ==
  /\ call = "idle"
  /\ call' = "reading" /\ late' = shut /\ outcome' = "none"
  /\ UNCHANGED <<written, ended, shut, delivered, missed, torn>>

Returns(kind) ==
  /\ call = "reading"
  /\ call' = "idle" /\ outcome' = kind
  /\ UNCHANGED <<written, ended, shut, late, torn>>

\* The runes that may come next: one behind those that have come, with no
\* more runes left out so far than calls have given up.
MayCome(n) ==
  torn \/ ( /\ \A i \in 1..Len(delivered) : delivered[i] < n
            /\ n \in 1..Len(delivered) + 1 + missed )

Deliver(n) ==
  /\ ~late /\ n <= written /\ MayCome(n)
  /\ Returns("rune")
  /\ delivered' = Append(delivered, n) /\ UNCHANGED missed

\* The end of the source is reported behind its last rune.
Fail ==
  /\ ~late /\ ended /\ (missed = 0 => Len(delivered) = written)
  /\ Returns("error")
  /\ UNCHANGED <<delivered, missed>>

GiveUp ==
  /\ Returns("timeout") \/ (shut /\ Returns("eof"))
  /\ missed' = missed + 1 /\ UNCHANGED delivered

\* A call may return nothing: rune 0, size 0 and no error.
Nothing == Returns("spurious") /\ UNCHANGED <<delivered, missed>>

Tear ==
  /\ missed > 0 /\ ~torn
  /\ torn' = TRUE
  /\ UNCHANGED <<written, ended, shut, call, late, outcome, delivered, missed>>

Crash ==
  /\ torn /\ call # "crashed"
  /\ call' = "crashed" /\ outcome' = "panic"
  /\ UNCHANGED <<written, ended, shut, late, delivered, missed, torn>>

Next ==
  \/ Write \/ End \/ Shut
  \/ Read \/ (\E n \in 0..written : Deliver(n)) \/ Fail \/ GiveUp \/ Nothing
  \/ Tear \/ Crash

Spec == Init /\ [][Next]_streamVars
=============================================================================
