# termtest: TLA+ models and proofs

This directory is a verification development of
[termtest](https://github.com/ActiveState/termtest), a Go library for testing
interactive terminal programs: a child process is started in a pseudo-terminal,
its output is read rune by rune through a virtual terminal, and a test waits for
texts, regular expressions or the exit code.

| file | what it is |
| --- | --- |
| `ConsoleProcess.tla` | process, waiter goroutine, `wait()`, `Close()` (`conproc.go`) |
| `RuneStream.tla` | what reading runes promises, abstractly |
| `PassthroughPipe.tla` | reading runes with a deadline (`xpty/passthrough_pipe.go`); implements `RuneStream` |
| `Xpty.tla` | pseudo terminal, replies, sending, closing (`xpty/`, `expect/console.go`); built on `RuneStream` |
| `Expect.tla` | conditions, callbacks, observers (`expect/expect.go`, `expect_opt.go`) |
| `ConPty.tla`, `WinExec.tla` | the pseudo terminal on Windows; the path and environment `Spawn` computes (`conpty/`) |
| `TestWriter.tla` | the writer of `NewTestConsole` (`expect/test_log.go`) |
| `*_proofs.tla` | inductive invariants and theorems, checked by TLAPS |
| `Induction.tla` | lemmas these proofs share: induction on numbers and sequences, recursive functions |
| `*Claims.tla` | what comments of the code say and the code does not keep |
| `MC*.tla` | instances whose constants need definitions |
| `*.cfg` | one configuration per run |
| `PROJECT.json` | runs, mutants, findings, hazards, theorems, and the source lines of every definition |

Run `tlc -config X.cfg M` and `tlapm M_proofs.tla` in this directory.

## The system

### Components, their state and operations

**ConsoleProcess** (`conproc.go`, `opts.go`, `testing.go`). State: the command
and its `ProcessState`, the channel `errs`, a cancellable context, the working
directory. `New` starts the child and a goroutine, the *waiter*, that calls
`cmd.Wait()`, offers the status on `errs` (or notices that the context is
cancelled), waits until the terminal is drained, and closes it. `Expect*` reads;
`wait()`, behind `Wait` and `Expect[Not]ExitCode`, starts a goroutine that drains
the output and selects between the status, a timer and the context; `Close`
cancels the context, removes the working directory and kills the child.
It is correct if the exit code it judges is the child's, if no call hangs, if
nothing is sent on a closed channel, if the child is gone when `wait()` or
`Close()` has returned, and if no output is lost at the end.

**Console** (`expect/console.go`). The match state: the buffer of the current
Expect and the cursor positions of earlier matches; lists of writers, observers
and closers. `Send*` writes to the terminal, and a goroutine for each `WithStdin`
copies to it. `CloseReaders` and `Close` are called by `wait()` and the waiter. It is
correct if every closer gets its turn, and before the readers are cut off.

**Expect** (`expect/expect.go`, `expect_opt.go`). One loop: set the deadline, read
a rune, write it to the writers, ask the conditions. `All` is a matcher with
memory: it drops the members that have been met. The loop is correct if it stops
exactly when a condition is met, looks at all that is read and only at that, and
tells caller and observers the same.

**Xpty** (`xpty/xpty.go`, `xpty_other.go`, `xpty_windows.go`). Owns the
pseudo-terminal, the virtual terminal (vt10x), the *rwPipe* through which vt10x
answers status requests (with a goroutine that copies it to the terminal) and the
pass-through pipe. `WaitTillDrained`, `CloseTTY` and `CloseReaders` are the three
steps of the shutdown. vt10x answers a query while it holds the lock of its state,
and into a synchronous pipe: Xpty is correct if the replies arrive, in order, if
nobody keeps that lock for ever, and if closing frees whoever waits.

**PassthroughPipe** (`xpty/passthrough_pipe.go`). `ReadRune` starts a goroutine
that reads from a shared, unlocked `bufio.Reader`, because such a read cannot be
interrupted; the call itself selects between the goroutine's channel, `Close()`
and the deadline. It is correct if the callers get what the source wrote, in
order, and if a read with a deadline returns.

**ConPty** (`conpty/`, Windows; called by `xpty/xpty_windows.go`). State: four pipe
ends, the pseudo console, the attribute list. `New` creates them in three steps of
which each may fail, `Spawn` computes the program's path and the environment block
and starts the child, `Close` frees what `New` made. It is correct if nothing that was
opened stays open, if the packed size is the one asked for, and if the child is the
program, with the environment, that the caller named.

**NewTestWriter** (`expect/test_log.go`). A pipe and a goroutine that cuts what is
written into lines for `t.Log`. It is correct if no text gets lost and no write hangs.

Helpers (`internal/osutils`, `expect/internal/osutils`) and test programs (`cmd/`) keep
no state that the others depend on.

### How they interact

    test --Expect/wait/Close--> ConsoleProcess --Expect--> Console --ReadRune--> Xpty --> PassthroughPipe --> ptm
                                   ^   | errs                                      |            (goroutine per read)
                                   |   v                                           v
                                 waiter goroutine --WaitTillDrained/CloseTTY-->  vt10x --rwPipe--> goroutine --> ptm

The test's goroutine, the goroutine of a running `wait()`, the waiter, a
concurrent `Close()`, one goroutine for each read (also for reads that were given
up), the copier of the rwPipe and the child run concurrently. They share `errs`,
`finalErrCh`, the context, the pseudo-terminal, `lastRead`, `deadline` and the
`bufio.Reader`, the last two without synchronisation.

### What is hard

Timers that fire while what they guard is just finishing; `Close()` between any
two steps of `wait()`; a channel that is received from after it has been closed;
deciding that the output is drained from the time of the last read; goroutines of
reads that were given up and go on reading; a `select` with several ready cases; a
lock held while writing to a pipe that another goroutine has to empty; a child that
stops reading its input; a process id that outlives its process; a matcher with
memory, and marks on a screen the program moves about on. The list with source lines is `hazards` in `PROJECT.json`.

## The models

### ConsoleProcess

Program counters `caller` (the test inside `Expect` or `wait()`), `expect` (the
loop of `Console.Expect`, wherever it runs), `waiter` and `closer`; `status`,
`budget` (output still to come) and `output` (in the terminal) for the child and the
terminal; `receipts` counts receives from `errs`. `errs` and `finalErrCh` are
unbuffered, so a send and its receive are one step: `ReceiveErrs` takes the status
while `waiter = "offer"`, and the zero value once `waiter = "exited"`, which is
when `errs` is closed. The three branches of `wait()`'s select are `WaitStatus`,
`WaitTimer` and `WaitCancelled`, each followed by its receive from `finalErrCh`
(`...Collect`). The waiter's are `WaiterRecord` ... `WaiterExit`; `Reaped` and
`Recorded` separate the moment `os.Process` is marked done (from when on `Kill`
fails) from the one at which `cmd.ProcessState` is set (which `Close` looks at).

Abstractions. Output is counted in chunks, without content: any rune may end an
Expect of the test. Time is counted in ticks and a timer that is due may still be
late. `CloseTTY` may discard any part of the output no reader has buffered. The
test calls one thing at a time, except `Close()`, which it may call at any time
from another goroutine, but one at a time. A child may ignore signals, and a
grandchild may keep the terminal open, so the end of the terminal is never
assumed to be reported.

### PassthroughPipe

The n-th rune the source writes is the number n, so that order, loss and
duplication are visible in `delivered`. `gpc[g]` is the program counter of the
goroutine of call g, `cpc` that of the current call. `bufio.Reader` is modelled by
its fields `buf`, `r`, `w`, `err`, in steps that end at its blocking `Read`:
`EnterFill` resets the indices, `ReadData` stores what the source gave, `Take`
returns a rune. Two goroutines that do this at once race, which is undefined in
Go; the outcomes modelled are the interleavings of these steps, a lost update of
`w`, and the index panic (`IndexPanic`). `Offer` evaluates the select whose default
case sends: a goroutine that has found the caller there is in `"sending"` and stays
there if the caller leaves. Runes are one byte wide, and a deadline is `"none"`,
`"future"` or `"past"`.

### Expect

Several calls of `Expect` follow each other on one terminal. The terminal is one
line with a cursor; the text before it and the text since the mark are computed
as vt10x does, for a line that neither wraps nor scrolls. `"cr"` moves the cursor
back, `"nul"` stands for a rune that changes nothing (as the bytes of an escape
sequence). What one read of the pass-through pipe returns is free, except that it
times out only after the deadline. `views` records what the conditions were shown;
the meaning of a condition (`Met`) is stated over it, independently of the
algorithm (`Match`, `Matches`, `Rest`).

### RuneStream

The abstract specification of reading: a source writes, a reader gets runes one call
at a time, and a call may give up. Each call that gave up may cost one rune; apart
from that `Deliver` hands out the next one. `torn` stands for what Go leaves undefined:
two goroutines have been inside the `bufio.Reader` at once, and any rune, or a panic,
may come. `PassthroughPipe` implements it under the refinement mapping at its end,
which maps `abandoned` to `missed`, `overlap` to `torn`, and the goroutines, channels
and buffer to nothing.

### Xpty

`Pipe` is an instance of `RuneStream` over the first nine variables; what surrounds it
is the terminal emulator (`replying`: the reader is inside `WriteRune` with the lock),
the copier of the rwPipe (`carried`, `writer["copier"]`), `Send` and one stdin goroutine
(`writer["send"]`, `writer["stdin"]`), the terminal's input of `InputSize` blocks, and the
goroutine that closes (`closing`). The synchronous rwPipe makes the emulator's write
and the copier's read one step, `ReplyTaken`. A write to the terminal (`"kernel"`) that
has begun outlives `CloseTTY`, since the terminal is in blocking mode; it ends when
the child reads or the kernel has hung up. (Go's `os.File` lets one write at a time
through; one that waits for another to end would fail already at `CloseTTY`. The model
lets it begin, and so blocks in more cases than the code.) The child may turn deaf
(reads no input) or go at any moment. Closing follows `Console.Close`, where
`CloseTTY` may claim to fail (`CloseFails`), or the dance that the comment at
`CloseTTY` prescribes, which waits for the reader to come to the end before it closes
the readers. `Resize` needs the lock.

Not in it: reads that overlap. `Tear` and `Crash` of `RuneStream` are left out, which
`SoleReader` of `PassthroughPipe` justifies as long as no goroutine of an abandoned
read is still inside.

### ConPty and WinExec

`stage` is where `New`, `startProcessInTerminal` or `Close` stands and `open` the set of
handles this process holds; each call of the Windows API succeeds or fails, and what is
left open then follows the code. A `Spawn` that fails changes nothing, `os.FindProcess`
may fail after it (`"unfound"`), and `Close` may come in each of these stages (`InUse`). `PackNew` and `PackResize` are the two ways in which
the code packs columns and rows into a machine word, with the widths of Go's
conversions (`Word` is 2^16 there); `Rows` is `NewConsole`'s extra row, of an uint16.
The child's process id is given away when nobody holds a handle of it any more
(`ChildExits`), which is what makes `os.FindProcess` after `Spawn` worth a property.

`WinExec` holds the pure functions. A path is its root, drive, leading slash and
names, an environment entry its key, the key's spelling and its value, so that no
string is taken apart. `FullPath` and `Chdir` state what Windows does, as the
reference against which `JoinExeDirAndFName` is checked.

### TestWriter

`text` is what was written, `buffer` the one of `bufio`, `line` a line cut off and not
yet logged, `logged` what `t.Log` put down. The pipe is synchronous: a write returns when
its rune has been taken (`Fill`), before its line is logged. If the test is over by
then, `t.Log` gives the line to a parent that still runs, or panics (`Log`). `ReadPrefix` is the code's
disregard of `isPrefix`: a full buffer is logged as a line of its own.

### How the models fit together

`PassthroughPipe` implements `RuneStream`, and `Xpty` uses `RuneStream` in its place:
what `Xpty` shows of replies and closing holds with the real pipe below it, by the
refinement, as long as no reads overlap. `ConsoleProcess` uses of `Expect` that it
reads, ends when the terminal or the pipe ends or times out, and calls its observers
before it returns; of the pipe it uses that a closed pipe returns EOF or a NUL rune
(`RecvDone`, `RecvClosed`), an expired deadline a timeout or a NUL rune, and when `lastRead` is stamped; of
Xpty, that `CloseTTY` and `CloseReaders` return and what they end. `Expect` uses that
`ReadRune` returns a rune or an error. `ConPty` provides what Xpty's terminal and child
are on Windows.

## What the runs check

### Properties that hold

`IInv` is the inductive invariant of the proofs, the type invariant included; a run
that checks it takes the `_proofs` module as its root.

| run | question | bounds, distinct states |
| --- | --- | --- |
| `ConsoleProcess` | the safety of the shutdown; no deadlock; every call returns | 3 calls, 2 chunks, timers of 2 ticks, exit codes 0 and 1; 176 thousand |
| `ConsoleProcessFatal` | what survives the observer of `NewTest` | 2 calls, 1 chunk; 15 thousand |
| `PassthroughPipe` | order, loss, errors, closing as `RuneStream` has them; a read returns | 3 reads, 3 runes, buffer of 2; 430 thousand |
| `Expect` | conditions, marks, callbacks, observers | 3 calls, 4 runes of 2 letters, 6 sets of conditions; 657 thousand |
| `Xpty` | replies, the terminal's lock, sending, closing | 2 runes, 1 abandoned read, input of 1 block, 1 block sent, 1 closer; 214 thousand |
| `ConPty` | handles, sizes, process id, program, environment | `Word` 4, 11 programs, 8 directories, environments of up to 3 entries; 130 thousand |
| `TestWriter` | text and lines, the end of the test | 6 runes of 2 letters and the line ends, buffer of 3; 47 thousand |

`ConsoleProcess`. `ExpectOwnership`: `wait()` closes `finalErrCh` on return, so no
goroutine may be left that sends on it, and none may be missing that `wait()`
waits for. `ShutdownOrder`: collected, then terminal closed, then `errs` closed.
`FirstVerdictGenuine`: without `Close()`, the first receive is the child's status
(the second is not, see below). `WaitLeavesNoProcess`: after a verdict or a timeout
the child is collected. `CloseEffective`: whatever happens between its check and
its kill, `Close()` leaves a dead child and deals with the working directory.
`ReadersCloseLast`: the readers are closed after the last output was read.
`CallsReturn`, `CloseReleasesWaiter`: nobody waits for ever, with an observer that
does not end goroutines and a child with finite output.

`PassthroughPipe`. `ImplementsStream`: every rune is accounted for as `RuneStream`
says, the source's error comes behind its last rune, and a call made after `Close`
gets nothing of the source. `LossBounded` says what giving up costs: at most one rune
each, in order, as long as no two goroutines were in the reader at once; `SoleReader`
says when that can happen. `ReadReturns` and `DataArrives` say when a call
returns, `GoroutinesEnd` that closing pipe and source ends every goroutine but
those whose caller left while they were about to send.

`Expect`. `StopsAtFirst`: the memory of `All` and the order of the alternatives
implement what the conditions mean; `NothingMissed`: what was read since the last
match contains none of the texts waited for, unless the cursor moved back;
`ToldWhatIsReturned`: result, callbacks and first observer agree. `NothingMissed` speaks
of an Expect that has read something: before its first rune no condition is asked, not
even one for the empty string.

`Xpty`. `AnswersInOrder`: replies reach the terminal in the order of their queries,
each once, though three goroutines pass them on and reads may lose runes in between.
`NoAnswerLost`: before the console is closed a reply is on the terminal or with the
copier or the reader. `CloseComplete`: `Console.Close` gives each closer its turn before
it cuts the readers off, and closes everything whatever fails. `CloseFreesTerminal`:
once the readers are being closed nobody keeps the lock, and a waiting `Resize` returns.
`ReplyTakenOver`: a query keeps the reader from going on only if the child does not
read or the terminal is closed. `WritesEnd`, `CopiersEnd`: neither a sender nor a copying
goroutine stays once the child reads, or has gone.

`ConPty`. `HandlesAccounted`: what is open at each stage. `SizeRight`: the pseudo console
has the size asked for, but for columns that int16 turns negative in `New`, which take
one from the rows. `FindsOwnChild`: the process found by its id is the child, since the
handle that `Spawn` returns, and nobody closes, keeps the id. `RunsWhatChdirWould`: for
every combination of drive, slash, names and directory the path handed to Windows is
the one the program would have after a change into the directory. `EnvironmentRight`:
each key arrives once, with the value given last, and there is a SYSTEMROOT.

`TestWriter`. `NothingLost`: what was logged, is being logged and is buffered makes up
what was written, line ends aside. `LinesApart`: a line end always ends an entry.
`FlushedOnLineEnd`: a line is logged when its end has arrived, not later, also when the
test is over. `WriteReturns`: no write hangs. Both hold unless `t.Log` has panicked.

Three calls are enough for a wait, a second wait and a `Close()` between any of
their steps; two chunks with room for one make the child block. Three reads are
enough for one abandoned read, one next to it and one after it, with a buffer that
two fills overrun. Four runes leave room for a match, text behind it, a return of
the cursor and a second match. Exit codes 0 and 1 tell the zero value of a closed
channel from a status. Two runes that may both be queries, with an input of one block
that a sender may have filled, let one reply be on its way while the next is asked
for; the proofs lift the bounds. With a `Word` of 4 a coordinate has both signs
and every sum that carries into the next word. Six runes overrun a buffer of three
at either of its ends, with the line end on each side of the edge, and CR and NL apart.
Deadlock is checked for `ConsoleProcess`; it is not checked where the system may
stop: a read without a deadline blocks for ever, a console is closed, a test ends, and
with the fatal observer `wait()` hangs.

### Fairness

Each goroutine's steps are weakly fair, for Go's scheduler runs what can run, and
so are the clock and an expired deadline. The end of a closed pipe and the expired
deadline are strongly fair in `ConsoleProcess`: `select` picks at random among ready
cases, so reads that may return EOF, or a timeout, or else a NUL rune cannot return
the latter for ever. In `Xpty` the
goroutines that write, the reader inside `WriteRune`, the closing goroutine and `Resize`
run, and a child that has not turned deaf reads; that anybody calls `ReadRune` or
`Close` is not assumed. In `TestWriter` the goroutine runs. Nothing else is assumed of
the child, the source, the kernel or the test. `ConPty` has no liveness property.

### Comments the code does not keep

Five are refuted by a run each; `findings` in `PROJECT.json` quotes the comments.

| run | what happens |
| --- | --- |
| `ClaimTimeoutPanic` | `wait()` panics when it has timed out and the child is collected before the kill |
| `ClaimSecondVerdict` | a second `ExpectExitCode(0)` succeeds for any child |
| `ClaimFatalObserver` | `t.Fatalf` on the goroutine of `wait()` makes `wait()` hang |
| `ClaimSwallow` | a read that timed out takes the next rune away |
| `ClaimDrains` | after `CloseTTY` the copier ends with its first reply; a second query left in the output then blocks the reader with the lock held, and with it whoever waits for the reader before `CloseReaders` |

Other comments differ from the code too. The models follow the code in each case:

- A closed pipe, or a deadline that has passed, may yield a NUL rune and no error
  (`passthrough_pipe.go:75-76` against `:87`; `RecvClosed`).
- A child that keeps printing keeps `wait()` from timing out: after the timer `wait()`
  collects an Expect whose own timeout begins anew with every rune (`conproc.go:421`;
  `WaitTimerCollect`; the runs have a child with finite output, `Endless = FALSE`).
- After `WaitTillDrained` output may be unread, and `CloseTTY` discards it
  (`xpty.go:169-170`; `WaiterDrained`, `WaiterCloseTTY`).
- After a timed-out `wait()` nobody closes the readers, not even `Close()`
  (`conproc.go:131`; `ForceKillReceive` has no counterpart of `WaitCollect`).
- `Close()` ends a running child with SIGKILL, not SIGTERM (`conproc.go:132`;
  `CloseKill`, `CloseTerm`).
- A goroutine whose caller leaves while it is about to send stays blocked after
  `Close()` (`passthrough_pipe.go:63`; the exception in `GoroutinesEnd`).
- A String condition is also met by text that an earlier Expect matched, when a rune
  arrives that does not move the cursor (`expect.go:32`; `EndsWith`), and a Regexp
  does not see text in front of the last match (`expect_opt.go:291`; `SinceMark`).
- The deadline of an Expect stays for a later one without a timeout
  (`expect_opt.go:28`; `SetReadDeadline`).
- After a match only the first observer is called (`console.go:92`; `Told`), and
  callbacks chained to members of `All` and `Any` never are (`expect_opt.go:40`;
  `Callback`).

Every property of a run that passes has a mutant, a definition in which a plausible
slip in the code (a dropped receive, a swapped select, a missing nil check) makes
TLC find the property violated.

## What is proved

The proofs hold for every value of the constants that satisfies the assumptions
named in the modules: positive timers, natural bounds, exit codes that are natural
numbers, a positive buffer size (two for `bufio`'s own reader), well-formed conditions
of any number and size, an even `Word`, a process that has a directory on every drive
its commands name (`PathsAssumption`: Windows resolves a path against it), and
environments whose entries are records (`EntriesAssumption`).

What recursive functions compute (the lines of a log, the entries of an environment,
the runes printed) is proved by induction over the length of a prefix: `UpTo` and
`OnSequences` of `Induction` derive it from the well-foundedness of `<`, for a set of
numbers or sequences instead of an operator. `RecursionExists` gives the function that
a recursive definition's CHOOSE picks, and `RecursionHas` its values.

**ConsoleProcess.** `IInv` adds to the properties what the program counters say of
each other: a closed terminal, or a waiter past its select, tells what has been
received (`receipts` is 0 until the status was taken or the context cancelled);
while `closer` is between its check and its kill nothing revives the child; and,
for `ReadersCloseLast`, an Expect of `wait()` that ended without an error and
without closed readers has seen the terminal closed and empty. Without these the
properties are not inductive: that the first verdict is the child's, say, depends
on where the waiter stands. From `Invariance` follow `TypeCorrect`,
`ExpectIsOwned`, `ShutsDownInOrder`, `FirstVerdictIsGenuine`,
`WaitCollectsProcess`, `CloseIsEffective`, and the action property
`ReadersAreClosedLast`. They cover the fatal observer too.

**PassthroughPipe.** Until two goroutines have met in the reader (`overlap`), one at
most is inside (`LoneInv`); cell k of the buffer holds rune `fed - w + k + 1`
(`BufferInv`); and what was fetched is delivered, in a goroutine's hands, in the buffer,
or was lost to an abandoned call, of which each accounts for one rune (`AccountInv`,
by cardinalities of the sets of such calls). An error is kept or held only when there is
nothing else left (`ErrorInv`). From this follow `LosesLittle`, `DeliversInOrder`,
`ErrorComesLast` and `ReadsAlone`; `ClosedPipeIsSilent` rests on the goroutine of a late
call not entering the reader. `PipeImplementsStream` is the refinement: the initial state
maps to `RuneStream`'s, and each action to one of its actions or to a stutter, for any
number of reads, runes and any buffer size.

**Xpty.** `ReplyInv` orders the three places a reply can be in: the copier's comes behind
those on the terminal and the reader's behind both, because the stream hands out
runes in increasing order (`ReadInv`). That makes `RepliesInOrder` inductive, and with
it `RepliesKept`. `CloseInv` says how far closing has come, which gives `CloseDoesAll` for
any number of closers.

**ConPty.** `HandlesInv` lists what is open at each stage, `OwnerInv` that the process's
handle, and so its id, is held from `Spawn` on. `NothingLeftOpen` and `FindsTheChild`
follow for all commands, sizes and failures. `SizesInv` says what was packed for the
size that was asked for; that unpacking gives it back (`CoordOfNew`, `CoordOfResize`)
is arithmetic on remainders with `Word` a constant, from the uniqueness of a
division (`DivisionIsUnique`), and gives `ConsoleHasItsSize`. `RunsTheRightProgram` rests
on `JoinMeansChdir`: resolving what `JoinExeDirAndFName` returns is resolving the
program's path in the directory, by cases over drive, slash and names. For
`EnvironmentIsRight`, `DedupKeepsNewest` says for each key what is left of its entries,
entry by entry: the place that `PutEntry` overwrites splits the environment, and
`OfConcat` counts the two parts separately.

**Expect.** `RestInv`: what `All` still holds is exactly what was never met. With the
lemmas that `Match` returns the first condition met (`MatchIsFirst`) and that the
algorithm agrees with the meaning (`MatchesAgree`) this gives
`StopsAtFirstCondition`; `ReportsTruthfully` follows from where `err` stands. For
`MissesNothing`, `ReadInv` relates the line to what was read: as long as the cursor has
not moved back, what this Expect has printed stands in front of the cursor and nowhere
before the mark, and holds none of the texts waited for. A text that the next rune
completes ends at the cursor, so the condition sees it.

**TestWriter.** `WriterInv` adds to `NothingLost` and `LinesApart` that what was taken and
the buffer agree on ending in a carriage return, without which a newline could take
away a rune on one side only. What is shown of two texts is what is shown of each
(`ShownOfConcat`), unless the cut separates `"\r\n"`; that `ReadPrefix` puts the carriage
return back is what keeps it from doing so. `TypeCorrect`, `NothingIsLost` and
`LinesStayApart` follow, for any size of the buffer from two.

**Only model-checked**: the liveness properties (fairness and ENABLED are out of the
prover's reach) and the refuted comments, which are false. Every invariant and action
property of the passing runs is proved.

## What is not modelled

- Construction that fails: `New`, `openVT` and `open` return without closing what they
  have opened (`conproc.go:85-93`, `xpty.go:120-124`, `xpty_other.go:29-32`); nothing in
  the repository says otherwise. `ConPty` has the steps of `New` on Windows.
- `WriteTo`, a loop of `ReadRune`; the sizes that `Resize` sets on Unix. After
  `NewConsole`'s extra row on Windows `Resize` does not add one; no document says
  which is meant.
- Reads that overlap, in `Xpty` (see above).
- `LongString`, nested `All` and `Any`, wrapping and scrolling of vt10x, the
  `SendObservers`, the setters of options.
- On Windows the quoting of the command line (character by character), `ConPty.Write`,
  which xpty does not use, the console modes, and `..` in paths.
- Closing twice: `CloseReaders` runs twice when `Close()` and `wait()` both call it, and
  `ConPty.Close` has no guard, but `xpty` closes a `ConPty` once.
- `StripTrailingEmptyLines`, snapshots, the wording of errors and logging, since no
  property is about them. The decoding of UTF-8: the branch of `ReadRune` that handles
  it needs an error together with a replacement character, which
  `bufio.Reader.ReadRune` never returns. Cancelled contexts of the caller do not exist
  in this library.

## Plan

1. Proofs: that `EnvBlock` cuts the environment at an empty entry and nowhere else; that
   `Xpty`'s steps on the stream are `RuneStream`'s, as a theorem about `Xpty`'s `Spec`.
2. `ChildSession`: a status is delivered once, then the channel is closed, implemented by
   `ConsoleProcess`.
3. `Expect` with `LongString`, nested conditions, and an Expect of `wait()` next to
   one of the test.
