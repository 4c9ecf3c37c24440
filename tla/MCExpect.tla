------------------------------ MODULE MCExpect ------------------------------
(***************************************************************************)
(* Instances of Expect for TLC: one option set for each kind of condition, *)
(* with a few that combine them.                                           *)
(***************************************************************************)
EXTENDS Expect_proofs

A == String(<<"a">>)
B == String(<<"b">>)
AB == String(<<"a", "b">>)
ReB == Regexp(<<"b">>)
ReAB == Regexp(<<"a", "b">>)

MCLetters == {"a", "b"}
MCOptionSets ==
  { Opts(<<AB, B>>, FALSE, FALSE),
    Opts(<<All({A, B, Error("eof")}), Error("closed")>>, TRUE, FALSE),
    Opts(<<Any({ReB, Error("eof")}), Then(Then(A, "ok"), "fails")>>, FALSE, FALSE),
    Opts(<<ReB, All({Then(A, "ok"), B})>>, FALSE, FALSE),
    Opts(<<Then(ReAB, "ok")>>, TRUE, FALSE),
    Opts(<<A>>, FALSE, TRUE) }
=============================================================================
