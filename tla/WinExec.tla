------------------------------ MODULE WinExec -------------------------------
(***************************************************************************)
(* What Spawn hands to CreateProcess on Windows: the path of the program   *)
(* and the environment block (conpty/exec_windows.go).                     *)
(*                                                                         *)
(* A path is a record of its root, its drive letter or NoDrive, whether a  *)
(* slash follows them, and its names; ".." is left out.  An environment    *)
(* entry is a record of its key, how the key is spelled (upper and lower   *)
(* case) and its value; what has no "=" has the key NoKey.                 *)
(***************************************************************************)
EXTENDS Integers, Sequences, SequencesExt

NoDrive == "none"
Path(drive, abs, names) == [root |-> "none", drive |-> drive, abs |-> abs, names |-> names]
Unc(names) == [root |-> "unc", drive |-> NoDrive, abs |-> TRUE, names |-> names]
NoPath == Path(NoDrive, FALSE, <<>>)
EINVAL == [root |-> "error", drive |-> NoDrive, abs |-> FALSE, names |-> <<>>]

Capital == [c |-> "C", d |-> "D"]
VolToUpper(ch) == IF ch \in DOMAIN Capital THEN Capital[ch] ELSE ch

Names == STRING
\* The paths on a network or on the drives of a process.
Paths(cwd) ==
  [root : {"none", "unc"},
   drive : {ch \in STRING : ch = NoDrive \/ VolToUpper(ch) \in DOMAIN cwd.dirs},
   abs : BOOLEAN, names : Seq(Names)]

-----------------------------------------------------------------------------
\* A process keeps a current drive and a current directory on each drive; Windows
\* resolves a path against them.

FullPath(p, cwd) ==
  IF p.root # "none" THEN p
  ELSE LET drive == IF p.drive = NoDrive THEN cwd.drive ELSE p.drive
           base == IF p.abs THEN <<>> ELSE cwd.dirs[VolToUpper(drive)]
       IN Path(drive, TRUE, base \o p.names)

Chdir(dir, cwd) ==
  LET full == FullPath(dir, cwd)
  IN IF full.root = "unc" THEN cwd
     ELSE [drive |-> full.drive, dirs |-> [cwd.dirs EXCEPT ![VolToUpper(full.drive)] = full.names]]

SamePath(p, q) ==
  LET Parts(path) == <<path.root, VolToUpper(path.drive), path.abs, path.names>>
  IN Parts(p) = Parts(q)

NormalizeNothing(dir, cwd) == IF dir.root = "unc" THEN EINVAL ELSE dir
\* The directory may not have the form \\server\share.
NormalizeDir(dir, cwd) ==
  LET full == FullPath(dir, cwd) IN IF full.root = "unc" THEN EINVAL ELSE full

\* The path Windows has to be given for what p means in the directory dir.
JoinExeDirAndFName(dir, p, cwd) ==
  LET d == NormalizeDir(dir, cwd)
  IN IF p.root = "unc" \/ (p.drive # NoDrive /\ p.abs) THEN p
     ELSE IF (~p.abs /\ p.names = <<>>) \/ d = EINVAL THEN EINVAL
     ELSE IF p.abs THEN Path(d.drive, TRUE, p.names)
     ELSE IF p.drive # NoDrive /\ VolToUpper(p.drive) # VolToUpper(d.drive) THEN FullPath(p, cwd)
     ELSE Path(d.drive, TRUE, d.names \o p.names)

-----------------------------------------------------------------------------
\* The environment.

NoKey == "none"
DriveKey == "drive"       \* "=C:=C:\dir": the "=" that is found first is the one in front
Entry(key, spelling, value) == [key |-> key, spelling |-> spelling, value |-> value]
Entries == [key : STRING, spelling : {"upper", "lower"}, value : STRING]
EmptyEntry == Entry(NoKey, "upper", "nothing")
SystemRoot == Entry("systemroot", "upper", "from this process")

SameKeySpelt(e, f) == e.key # NoKey /\ e.key = f.key /\ e.spelling = f.spelling
SameKey(e, f) == e.key # NoKey /\ e.key = f.key

\* A later entry of a key replaces the earlier one where that stands.
PutEntry(out, e) ==
  LET saw == {i \in DOMAIN out : SameKey(out[i], e)}
  IN IF saw = {} THEN Append(out, e) ELSE [out EXCEPT ![CHOOSE i \in saw : TRUE] = e]
DedupEnvCase(env) ==
  LET out[n \in 0..Len(env)] == IF n = 0 THEN <<>> ELSE PutEntry(out[n - 1], env[n])
  IN out[Len(env)]

AddCriticalEnv(env) ==
  IF \E i \in DOMAIN env : env[i].key = "systemroot" THEN env ELSE Append(env, SystemRoot)

\* Each entry ends with a NUL and a NUL ends the block: an empty entry ends it early.
EnvBlock(env) ==
  IF Contains(env, EmptyEntry)
  THEN SubSeq(env, 1, SelectInSeq(env, LAMBDA e : e = EmptyEntry) - 1)
  ELSE env
=============================================================================
