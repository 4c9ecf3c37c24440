------------------------------ MODULE MCConPty ------------------------------
(***************************************************************************)
(* An instance of ConPty for TLC: every kind of path and directory, and    *)
(* environments with repeated keys, in both spellings.                     *)
(***************************************************************************)
EXTENDS ConPty

Programs ==
  {Path(drive, abs, <<"p">>) : drive \in {NoDrive, "c", "C", "D"}, abs \in BOOLEAN}
    \cup {NoPath, Path("C", FALSE, <<>>), Unc(<<"server", "p">>)}
Dirs ==
  {Path(drive, abs, <<"w">>) : drive \in {NoDrive, "C", "d"}, abs \in BOOLEAN}
    \cup {NoPath, Unc(<<"server", "w">>)}
Envs ==
  LET entries == { Entry("a", "upper", "1"), Entry("a", "lower", "2"),
                   Entry("systemroot", "lower", "1"), Entry(NoKey, "upper", "text"),
                   Entry(DriveKey, "upper", "c") }
  IN BoundedSeq(entries, 3) \cup {<<EmptyEntry, Entry("a", "upper", "1")>>}
MCCommands ==
  [program : Programs, dir : Dirs, env : {<<>>}]
    \cup [program : {Path("C", TRUE, <<"p">>)}, dir : {NoPath}, env : Envs]
MCCwd == [drive |-> "C", dirs |-> [C |-> <<"x">>, D |-> <<"y">>]]
=============================================================================
