------------------------------- MODULE ConPty -------------------------------
(***************************************************************************)
(* The pseudo terminal on Windows: New, Resize, Spawn and Close of conpty, *)
(* with xpty's and console.go's calls of them.  The state is the handles   *)
(* this process holds, the size the pseudo console was told, and the child *)
(* as Windows has started it.  Each call of the Windows API may fail.      *)
(***************************************************************************)
EXTENDS WinExec, FiniteSets

CONSTANTS
  Word,         \* the values of a coordinate: 2^16
  Commands,     \* what Spawn is given: program, dir (NoPath for none) and env
  Cwd           \* this process's current drive and directories

ASSUME WordAssumption == Word \in Nat \ {0} /\ Word % 2 = 0
\* This process is on a drive, and has a directory on it and on all that are named.
ASSUME PathsAssumption ==
  /\ Cwd.drive # NoDrive /\ VolToUpper(Cwd.drive) \in DOMAIN Cwd.dirs
  /\ Cwd.dirs \in [DOMAIN Cwd.dirs -> Seq(Names)]
  /\ \A command \in Commands : {command.program, command.dir} \subseteq Paths(Cwd)
ASSUME EntriesAssumption == \A command \in Commands : command.env \in Seq(Entries)

VARIABLES
  stage,     \* where New, startProcessInTerminal or Close stands
  open,      \* handles held
  attrs,     \* the attribute list: "none", "set", "freed"
  wanted,    \* the size asked for last: columns, rows, and whether by Resize
  size,      \* the size the pseudo console has, <<columns, rows>>
  asked,     \* the command Spawn was given
  child,     \* "none", "running" or "exited"
  started,   \* the program and the environment of the child
  pidOwner,  \* who has the child's process id: "nobody", "child" or "other"
  found      \* whom os.FindProcess found: "nobody", "child" or "other"

vars == <<stage, open, attrs, wanted, size, asked, child, started, pidOwner, found>>
childVars == <<asked, child, started, pidOwner, found>>
consoleVars == <<attrs, wanted, size>>

Int16(n) == IF n >= Word \div 2 THEN n - Word ELSE n
Uintptr(n) == n % (Word * Word * Word * Word)
OurPipes == {"in", "out"}
PtyPipes == {"ptyIn", "ptyOut"}

Init ==
  /\ stage = "new" /\ open = {} /\ attrs = "none"
  /\ wanted = [cols |-> 0, rows |-> 0, by |-> "new"] /\ size = <<0, 0>>
  /\ asked = [program |-> NoPath, dir |-> NoPath, env |-> <<>>]
  /\ child = "none" /\ started = [exe |-> NoPath, env |-> <<>>]
  /\ pidOwner = "nobody" /\ found = "nobody"

-----------------------------------------------------------------------------
\* New.

\* COORD by value: the columns are the low word, the rows the next.
Coord(packed) == <<packed % Word, (packed \div Word) % Word>>
PackSwapped(cols, rows) == Uintptr(Uintptr(Int16(rows)) + Uintptr(Int16(cols)) * Word)
PackNew(cols, rows) == Uintptr(Uintptr(Int16(cols)) + Uintptr(Int16(rows)) * Word)
PackResize(cols, rows) == Uintptr(cols + rows * Word)

\* NewConsole asks for one row more on Windows, of an uint16.
RowsUnbounded(rows) == rows + 1
Rows(rows) == (rows + 1) % Word

CreatePipes(cols, rows) ==
  /\ stage = "new"
  /\ wanted' = [cols |-> cols, rows |-> Rows(rows), by |-> "new"]
  /\ \/ stage' = "pipes" /\ open' = OurPipes \cup PtyPipes
     \/ stage' = "exited" /\ open' \in {{}, {"in", "ptyIn"}}   \* log.Fatalf
  /\ UNCHANGED <<attrs, size, childVars>>

\* The pty's ends of the pipes stay open when CreatePseudoConsole fails.
CreatePseudoConsole ==
  /\ stage = "pipes"
  /\ \/ /\ stage' = "console" /\ open' = (open \cup {"console"}) \ PtyPipes
        /\ size' = Coord(PackNew(wanted.cols, wanted.rows))
     \/ stage' = "failed" /\ UNCHANGED <<open, size>>
  /\ UNCHANGED <<attrs, wanted, childVars>>

InitializeStartupInfo ==
  /\ stage = "console"
  /\ \/ stage' = "ready" /\ attrs' = "set"
     \/ stage' = "failed" /\ attrs' \in {"none", "set"}
  /\ UNCHANGED <<open, wanted, size, childVars>>

\* New has returned a console, and nobody has closed it yet.
InUse == {"ready", "spawned", "started", "unfound"}

\* A Resize that fails leaves the size; one on a closed console is not called.
Resize(cols, rows) ==
  /\ stage \in InUse
  /\ wanted' = [cols |-> cols, rows |-> rows, by |-> "resize"]
  /\ size' = Coord(PackResize(cols, rows))
  /\ UNCHANGED <<stage, open, attrs, childVars>>

-----------------------------------------------------------------------------
\* startProcessInTerminal: Spawn, then os.FindProcess by the process id.

Argv0(program, dir) ==
  IF dir = NoPath THEN program ELSE JoinExeDirAndFName(dir, program, Cwd)

Spawned(command, kept) ==
  /\ stage = "ready"
  /\ \/ /\ Argv0(command.program, command.dir) # EINVAL
        /\ stage' = "spawned" /\ open' = open \cup kept
        /\ child' = "running" /\ pidOwner' = "child"
        /\ asked' = command
        /\ started' = [exe |-> FullPath(Argv0(command.program, command.dir), Cwd),
                       env |-> EnvBlock(AddCriticalEnv(DedupEnvCase(command.env)))]
     \/ UNCHANGED <<stage, open, child, pidOwner, asked, started>>
  /\ UNCHANGED <<consoleVars, found>>

\* The thread's handle is closed before Spawn returns; the process's handle goes to
\* the caller, which drops it.  A Spawn that fails has changed nothing.
SpawnKeepsNothing(command) == Spawned(command, {})
Spawn(command) == Spawned(command, {"process"})

FindProcess ==
  /\ stage = "spawned"
  /\ \/ stage' = "started" /\ pidOwner # "nobody" /\ found' = pidOwner
     \/ stage' = "unfound" /\ UNCHANGED found
  /\ UNCHANGED <<open, consoleVars, asked, child, started, pidOwner>>

\* The id of a process belongs to it while it runs or somebody has a handle of it.
ChildExits ==
  /\ child = "running"
  /\ child' = "exited"
  /\ pidOwner' \in IF "process" \in open \/ found = "child" THEN {pidOwner} ELSE {"nobody", "other"}
  /\ UNCHANGED <<stage, open, consoleVars, asked, started, found>>

-----------------------------------------------------------------------------
\* Close.  The two functions of Windows return nothing; what their wrappers take for
\* an error is whatever the register holds, and is only logged and returned.  It is
\* called at any time: the callers of conpty decide, whether Spawn failed or not.

CloseAttributes ==
  /\ stage \in InUse
  /\ stage' = "closeConsole" /\ attrs' = "freed"
  /\ UNCHANGED <<open, wanted, size, childVars>>

CloseConsoleReturns ==
  /\ stage = "closeConsole"
  /\ stage' \in {"closePipes", "closed"} /\ open' = open \ {"console"}
  /\ UNCHANGED <<consoleVars, childVars>>
CloseConsole ==
  /\ stage = "closeConsole"
  /\ stage' = "closePipes" /\ open' = open \ {"console"}
  /\ UNCHANGED <<consoleVars, childVars>>

ClosePipes ==
  /\ stage = "closePipes"
  /\ stage' = "closed" /\ open' = open \ OurPipes
  /\ UNCHANGED <<consoleVars, childVars>>

Sizes == 0..Word - 1

Next ==
  \/ \E cols, rows \in Sizes : CreatePipes(cols, rows) \/ Resize(cols, rows)
  \/ CreatePseudoConsole \/ InitializeStartupInfo
  \/ \E command \in Commands : Spawn(command)
  \/ FindProcess \/ ChildExits
  \/ CloseAttributes \/ CloseConsole \/ ClosePipes

Spec == Init /\ [][Next]_vars

-----------------------------------------------------------------------------
\* Every variable has its type.
TypeOK ==
  /\ stage \in {"new", "exited", "pipes", "console", "ready", "failed", "spawned", "started",
                "unfound", "closeConsole", "closePipes", "closed"}
  /\ open \subseteq {"console", "process"} \cup OurPipes \cup PtyPipes
  /\ attrs \in {"none", "set", "freed"}
  /\ wanted.cols \in Sizes /\ wanted.rows \in Sizes /\ size \in Sizes \X Sizes
  /\ child \in {"none", "running", "exited"}
  /\ pidOwner \in {"nobody", "child", "other"} /\ found \in {"nobody", "child", "other"}

\* While the console is in use it and our ends of the pipes are open, the pty's ends
\* are not, and the attribute list is there; after Close nothing is left open but the
\* handle of the process that Spawn returned, whatever the closing functions returned.
HandlesAccounted ==
  /\ stage \in InUse =>
       open \ {"process"} = OurPipes \cup {"console"} /\ attrs = "set"
  /\ stage = "closed" => open \subseteq {"process"} /\ attrs = "freed"

\* The pseudo console has the size asked for.  Not so when New is given columns that
\* int16 turns negative: their sign takes one from the rows (conpty_windows.go:37).
SizeRight ==
  stage \in InUse \cup {"console"} =>
    LET borrow == IF wanted.by = "new" /\ wanted.cols >= Word \div 2 THEN 1 ELSE 0
    IN size = <<wanted.cols, (wanted.rows - borrow) % Word>>

\* The process found by its id is the child, even if it has exited by then: the handle
\* that nobody closes keeps the id from being given away (xpty_windows.go:77).
FindsOwnChild == stage = "started" => found = "child"

\* The program is the one its path names to a process that has changed into the
\* directory, though Windows resolves the path before it does (conpty_windows.go:112).
RunsWhatChdirWould ==
  child # "none" =>
    LET cwd == IF asked.dir = NoPath THEN Cwd ELSE Chdir(asked.dir, Cwd)
    IN SamePath(started.exe, FullPath(asked.program, cwd))

\* The entries of a key, in their order.
Of(key, env) ==
  LET of[n \in 0..Len(env)] ==
        IF n = 0 THEN <<>>
        ELSE IF env[n].key = key THEN Append(of[n - 1], env[n]) ELSE of[n - 1]
  IN of[Len(env)]

\* The child sees every key once, in any spelling, with the value given last, and it
\* has a SYSTEMROOT; excepted are environments with an empty entry, behind which it
\* sees nothing, and drive entries, of which one is left (exec_windows.go:122).
EnvironmentRight ==
  child # "none" /\ ~Contains(asked.env, EmptyEntry) =>
    LET keys == {asked.env[i].key : i \in DOMAIN asked.env} \ {NoKey, DriveKey}
    IN /\ \A key \in keys : Of(key, started.env) = <<Last(Of(key, asked.env))>>
       /\ Len(Of("systemroot", started.env)) = 1
       /\ Of(NoKey, started.env) = Of(NoKey, asked.env)
=============================================================================
