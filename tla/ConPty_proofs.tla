---------------------------- MODULE ConPty_proofs ----------------------------
(***************************************************************************)
(* What ConPty holds open, what size its console has, which program it     *)
(* starts and whom its process id finds, for every width of a coordinate,  *)
(* every command and every order of failures.                              *)
(***************************************************************************)
EXTENDS ConPty, Induction, TLAPS

-----------------------------------------------------------------------------
\* Handles and the process id.

\* What is open at each stage from the pipes on; the process's handle may be too.
HandlesInv ==
  LET ours == open \ {"process"}
  IN /\ stage = "pipes" => ours = OurPipes \cup PtyPipes
     /\ stage = "console" => ours = OurPipes \cup {"console"}
     /\ stage \in InUse => ours = OurPipes \cup {"console"} /\ attrs = "set"
     /\ stage = "closeConsole" => ours = OurPipes \cup {"console"} /\ attrs = "freed"
     /\ stage = "closePipes" => ours = OurPipes /\ attrs = "freed"
     /\ stage = "closed" => ours = {} /\ attrs = "freed"

\* From Spawn on the process's handle is held, which keeps its id.
OwnerInv ==
  /\ stage \in {"spawned", "started"} => "process" \in open /\ pidOwner = "child"
  /\ stage = "started" => found = "child"

IInv == HandlesInv /\ OwnerInv

LEMMA InitInv == Init => IInv
  BY DEF Init, IInv, HandlesInv, OwnerInv, InUse

LEMMA InvStep == IInv /\ [Next]_vars => IInv'
<1> SUFFICES ASSUME IInv, [Next]_vars PROVE IInv'
  OBVIOUS
<1> USE DEF IInv, HandlesInv, OwnerInv, InUse, OurPipes, PtyPipes, consoleVars, childVars
<1>1. ASSUME NEW cols, NEW rows, CreatePipes(cols, rows) PROVE IInv'
  BY <1>1 DEF CreatePipes
<1>2. ASSUME NEW cols, NEW rows, Resize(cols, rows) PROVE IInv'
  BY <1>2 DEF Resize
<1>3. CASE CreatePseudoConsole
  BY <1>3 DEF CreatePseudoConsole
<1>4. CASE InitializeStartupInfo
  BY <1>4 DEF InitializeStartupInfo
<1>5. ASSUME NEW command, Spawn(command) PROVE IInv'
  BY <1>5 DEF Spawn, Spawned
<1>6. CASE FindProcess
  BY <1>6 DEF FindProcess
<1>7. CASE ChildExits
  BY <1>7 DEF ChildExits
<1>8. CASE CloseAttributes
  BY <1>8 DEF CloseAttributes
<1>9. CASE CloseConsole
  BY <1>9 DEF CloseConsole
<1>10. CASE ClosePipes
  BY <1>10 DEF ClosePipes
<1>11. CASE UNCHANGED vars
  BY <1>11 DEF vars
<1> QED
  BY <1>1, <1>2, <1>3, <1>4, <1>5, <1>6, <1>7, <1>8, <1>9, <1>10, <1>11 DEF Next

\* The invariant holds throughout.
THEOREM Invariant == Spec => []IInv
  BY InitInv, InvStep, PTL DEF Spec

\* In use, the console, our pipes and the attribute list are there; once closed,
\* nothing is, but for the process's handle.
THEOREM NothingLeftOpen == Spec => []HandlesAccounted
<1>1. IInv => HandlesAccounted
  BY DEF IInv, HandlesInv, HandlesAccounted, InUse
<1> QED
  BY <1>1, Invariant, PTL

\* os.FindProcess finds the child that Spawn started, dead or alive.
THEOREM FindsTheChild == Spec => []FindsOwnChild
<1>1. IInv => FindsOwnChild
  BY DEF IInv, OwnerInv, FindsOwnChild
<1> QED
  BY <1>1, Invariant, PTL

-----------------------------------------------------------------------------
\* Sizes.

\* A number is its quotient and its remainder, and only these.
LEMMA DivisionIsUnique ==
  ASSUME NEW d \in Nat \ {0}, NEW q \in Int, NEW r \in 0..d - 1
  PROVE  (r + q * d) % d = r /\ (r + q * d) \div d = q
<1> DEFINE n == r + q * d
           q2 == n \div d
           r2 == n % d
<1>1. n \in Int /\ q2 \in Int /\ r2 \in 0..d - 1 /\ n = d * q2 + r2
  OBVIOUS
<1> HIDE DEF n, q2, r2
<1>2. d * (q - q2) = r2 - r
  BY <1>1 DEF n
<1>3. q - q2 = 0
  <2>1. CASE q - q2 >= 1
    <3>1. d * (q - q2) >= d
      BY <2>1, <1>1
    <3> QED BY <3>1, <1>1, <1>2
  <2>2. CASE q - q2 <= -1
    <3>1. d * (q - q2) <= -d
      BY <2>2, <1>1
    <3> QED BY <3>1, <1>1, <1>2
  <2> QED BY <2>1, <2>2, <1>1
<1>4. q = q2 /\ r = r2
  BY <1>1, <1>2, <1>3
<1> QED
  BY <1>4 DEF n, q2, r2

\* Multiples of the divisor do not change a remainder.
LEMMA RemainderOfSum ==
  ASSUME NEW d \in Nat \ {0}, NEW n \in Int, NEW k \in Int
  PROVE  (n + k * d) % d = n % d
<1> DEFINE q == n \div d
           r == n % d
<1>1. q \in Int /\ r \in 0..d - 1 /\ n = r + q * d
  OBVIOUS
<1> HIDE DEF q, r
<1>2. n + k * d = r + (q + k) * d
  BY <1>1
<1>3. (r + (q + k) * d) % d = r
  BY <1>1, DivisionIsUnique
<1> QED
  BY <1>2, <1>3 DEF r

\* A remainder differs from the number by a multiple of the divisor.
LEMMA RemainderIsMultipleOff ==
  ASSUME NEW d \in Nat \ {0}, NEW n \in Int
  PROVE  \E k \in Int : n % d = n + k * d
<1> DEFINE q == n \div d
           r == n % d
<1>1. q \in Int /\ r \in 0..d - 1 /\ n = r + q * d
  OBVIOUS
<1> HIDE DEF q, r
<1>2. -q \in Int /\ r = n + (-q) * d
  BY <1>1
<1> QED
  BY <1>2 DEF r

\* Of a sum put together as a COORD is, the pseudo console reads the columns and the
\* rows modulo the word.
LEMMA CoordOfSum ==
  ASSUME NEW c \in Sizes, NEW m \in Int
  PROVE  Coord(Uintptr(c + m * Word)) = <<c, m % Word>>
<1> DEFINE Q == Word * Word * Word
           q == m \div Q
           r == m % Q
<1>1. Word \in Nat \ {0} /\ c \in 0..Word - 1
  BY WordAssumption DEF Sizes
<1>2. Q \in Nat \ {0} /\ Q = (Word * Word) * Word
  BY <1>1
<1> HIDE DEF Q
<1>3. q \in Int /\ r \in 0..Q - 1 /\ m = r + q * Q
  BY <1>2
<1> HIDE DEF q, r
<1>4. Word * Word * Word * Word = Q * Word /\ Q * Word \in Nat \ {0}
  BY <1>1, <1>2 DEF Q
<1>5. c + r * Word \in 0..Q * Word - 1
  <2>1. r * Word <= (Q - 1) * Word
    BY <1>1, <1>2, <1>3
  <2> QED
    BY <2>1, <1>1, <1>2, <1>3
<1>6. c + m * Word = (c + r * Word) + q * (Q * Word)
  BY <1>1, <1>2, <1>3
<1>7. Uintptr(c + m * Word) = c + r * Word
  BY <1>4, <1>5, <1>6, <1>3, DivisionIsUnique DEF Uintptr
<1>8. Coord(c + r * Word) = <<c, r % Word>>
  <2>1. r \in Int /\ c \in 0..Word - 1
    BY <1>1, <1>3
  <2>2. (c + r * Word) % Word = c /\ (c + r * Word) \div Word = r
    BY <2>1, <1>1, DivisionIsUnique
  <2> QED
    BY <2>2 DEF Coord
<1>9. m = r + (q * (Word * Word)) * Word /\ q * (Word * Word) \in Int
  BY <1>1, <1>2, <1>3
<1>10. m % Word = r % Word
  <2> DEFINE k == q * (Word * Word)
  <2>1. k \in Int /\ r \in Int /\ m = r + k * Word
    BY <1>9, <1>3
  <2> HIDE DEF k
  <2> QED
    BY <2>1, <1>1, RemainderOfSum
<1> QED
  BY <1>7, <1>8, <1>10

\* What Resize packs is what it was given.
LEMMA CoordOfResize ==
  ASSUME NEW cols \in Sizes, NEW rows \in Sizes
  PROVE  Coord(PackResize(cols, rows)) = <<cols, rows>>
<1>1. Word \in Nat \ {0} /\ rows \in Int /\ rows % Word = rows
  BY WordAssumption DEF Sizes
<1> QED
  BY <1>1, CoordOfSum DEF PackResize

\* What New packs is what it was given, but that columns which int16 turns negative
\* take one from the rows.
LEMMA CoordOfNew ==
  ASSUME NEW cols \in Sizes, NEW rows \in Sizes
  PROVE  LET borrow == IF cols >= Word \div 2 THEN 1 ELSE 0
         IN Coord(PackNew(cols, rows)) = <<cols, (rows - borrow) % Word>>
<1> DEFINE b == IF cols >= Word \div 2 THEN 1 ELSE 0
           c == IF rows >= Word \div 2 THEN 1 ELSE 0
           P == Word * Word * Word * Word
           Q == Word * Word * Word
<1>1. /\ Word \in Nat \ {0} /\ b \in 0..1 /\ c \in 0..1
      /\ cols \in Int /\ rows \in Int
  BY WordAssumption DEF Sizes
<1>2. Int16(cols) = cols - b * Word /\ Int16(rows) = rows - c * Word
  BY <1>1 DEF Int16
<1> HIDE DEF b, c
<1>3. P \in Nat \ {0} /\ Q \in Nat \ {0} /\ P = Q * Word
  BY <1>1
<1>4. Uintptr(Int16(cols)) = Int16(cols) % P /\ Uintptr(Int16(rows)) = Int16(rows) % P
  BY DEF Uintptr
<1> HIDE DEF P, Q
<1>5. PICK i \in Int : Uintptr(Int16(cols)) = cols - b * Word + i * P
  <2> DEFINE n == cols - b * Word
  <2>1. n \in Int /\ Uintptr(Int16(cols)) = n % P
    BY <1>1, <1>2, <1>4
  <2> HIDE DEF n
  <2>2. \E k \in Int : n % P = n + k * P
    BY <2>1, <1>3, RemainderIsMultipleOff
  <2> QED
    BY <2>1, <2>2 DEF n
<1>6. PICK j \in Int : Uintptr(Int16(rows)) = rows - c * Word + j * P
  <2> DEFINE n == rows - c * Word
  <2>1. n \in Int /\ Uintptr(Int16(rows)) = n % P
    BY <1>1, <1>2, <1>4
  <2> HIDE DEF n
  <2>2. \E k \in Int : n % P = n + k * P
    BY <2>1, <1>3, RemainderIsMultipleOff
  <2> QED
    BY <2>1, <2>2 DEF n
<1> DEFINE k == i * (Word * Word) - c + j * Q
           m == (rows - b) + k * Word
<1>7. k \in Int /\ m \in Int /\ rows - b \in Int
  BY <1>1, <1>3
<1>8. Uintptr(Int16(cols)) + Uintptr(Int16(rows)) * Word = cols + m * Word
  BY <1>1, <1>3, <1>5, <1>6 DEF Q
<1> HIDE DEF k, m
<1>9. Coord(PackNew(cols, rows)) = <<cols, m % Word>>
  BY <1>7, <1>8, CoordOfSum DEF PackNew
<1>10. m % Word = (rows - b) % Word
  BY <1>1, <1>7, RemainderOfSum DEF m
<1> QED
  BY <1>9, <1>10 DEF b

\* The variables have their types and the console its size, and until the console is
\* there the size asked for is New's.
SizesInv ==
  /\ TypeOK
  /\ SizeRight
  /\ stage = "pipes" => wanted.by = "new"

LEMMA InitSizes == Init => SizesInv
  BY WordAssumption DEF Init, SizesInv, TypeOK, SizeRight, InUse, Sizes, OurPipes, PtyPipes

LEMMA SizesStep == SizesInv /\ [Next]_vars => SizesInv'
<1> SUFFICES ASSUME SizesInv, [Next]_vars PROVE SizesInv'
  OBVIOUS
<1>0. Word \in Nat \ {0}
  BY WordAssumption
<1> USE DEF SizesInv, TypeOK, SizeRight, InUse, consoleVars, childVars
<1>1. ASSUME NEW cols \in Sizes, NEW rows \in Sizes, CreatePipes(cols, rows)
      PROVE  SizesInv'
  <2>1. Rows(rows) \in Sizes
    BY <1>0 DEF Rows, Sizes
  <2> QED
    BY <1>1, <2>1 DEF CreatePipes, OurPipes, PtyPipes
<1>2. ASSUME NEW cols \in Sizes, NEW rows \in Sizes, Resize(cols, rows)
      PROVE  SizesInv'
  <2>1. size' = <<cols, rows>> /\ wanted' = [cols |-> cols, rows |-> rows, by |-> "resize"]
    BY <1>2, CoordOfResize DEF Resize
  <2>2. (rows - 0) % Word = rows
    BY <1>0 DEF Sizes
  <2> QED
    BY <1>2, <2>1, <2>2 DEF Resize
<1>3. CASE CreatePseudoConsole
  <2> DEFINE borrow == IF wanted.cols >= Word \div 2 THEN 1 ELSE 0
  <2>1. Coord(PackNew(wanted.cols, wanted.rows)) = <<wanted.cols, (wanted.rows - borrow) % Word>>
    BY CoordOfNew
  <2>2. (wanted.rows - borrow) % Word \in Sizes
    BY <1>0 DEF Sizes
  <2> HIDE DEF borrow
  <2>3. CASE stage' = "console"
    <3>1. size' = <<wanted.cols, (wanted.rows - borrow) % Word>> /\ wanted' = wanted
      BY <1>3, <2>1, <2>3 DEF CreatePseudoConsole
    <3>2. TypeOK'
      BY <1>3, <2>2, <2>3, <3>1 DEF CreatePseudoConsole, OurPipes, PtyPipes
    <3>3. SizeRight'
      BY <1>3, <3>1 DEF CreatePseudoConsole, borrow
    <3> QED
      BY <2>3, <3>2, <3>3
  <2>4. CASE stage' = "failed"
    BY <1>3, <2>4 DEF CreatePseudoConsole
  <2> QED
    BY <1>3, <2>3, <2>4 DEF CreatePseudoConsole
<1>4. CASE InitializeStartupInfo
  BY <1>4 DEF InitializeStartupInfo
<1>5. ASSUME NEW command, Spawn(command) PROVE SizesInv'
  BY <1>5 DEF Spawn, Spawned
<1>6. CASE FindProcess
  BY <1>6 DEF FindProcess
<1>7. CASE ChildExits
  BY <1>7 DEF ChildExits
<1>8. CASE CloseAttributes
  BY <1>8 DEF CloseAttributes
<1>9. CASE CloseConsole
  BY <1>9 DEF CloseConsole
<1>10. CASE ClosePipes
  BY <1>10 DEF ClosePipes
<1>11. CASE UNCHANGED vars
  BY <1>11 DEF vars
<1> QED
  BY <1>1, <1>2, <1>3, <1>4, <1>5, <1>6, <1>7, <1>8, <1>9, <1>10, <1>11 DEF Next

\* Types hold throughout.
THEOREM TypeCorrect == Spec => []TypeOK
<1>1. SizesInv => TypeOK
  BY DEF SizesInv
<1> QED
  BY <1>1, InitSizes, SizesStep, PTL DEF Spec

\* The console has the size asked for last, however New's conversions through int16
\* and uintptr go, but for the row that columns beyond int16 take.
THEOREM ConsoleHasItsSize == Spec => []SizeRight
<1>1. SizesInv => SizeRight
  BY DEF SizesInv
<1> QED
  BY <1>1, InitSizes, SizesStep, PTL DEF Spec

-----------------------------------------------------------------------------
\* The program.

\* A path in full is resolved already.
LEMMA FullIsFull ==
  ASSUME NEW drive, drive # NoDrive, NEW names \in Seq(Names), NEW cwd
  PROVE  FullPath(Path(drive, TRUE, names), cwd) = Path(drive, TRUE, names)
<1> DEFINE p == Path(drive, TRUE, names)
<1>1. p = Path(drive, TRUE, names) /\ <<>> \o names = names
  OBVIOUS
<1> HIDE DEF p
<1>2. p.root = "none" /\ p.drive = drive /\ p.abs /\ p.names = names
  BY <1>1 DEF Path
<1>3. FullPath(p, cwd) = Path(drive, TRUE, <<>> \o names)
  BY <1>2 DEF FullPath
<1> QED
  BY <1>1, <1>3

\* The spelling of a drive does not matter.
LEMMA SameDriveSamePath ==
  ASSUME NEW c, NEW d, VolToUpper(c) = VolToUpper(d), NEW names
  PROVE  SamePath(Path(c, TRUE, names), Path(d, TRUE, names))
  BY DEF SamePath, Path

\* In the directory changed to, a path without a slash of that drive goes on from the
\* directory; those of other drives mean what they did.
LEMMA ChdirMoves ==
  ASSUME NEW dir, FullPath(dir, Cwd).root = "none",
         VolToUpper(FullPath(dir, Cwd).drive) \in DOMAIN Cwd.dirs
  PROVE  LET full == FullPath(dir, Cwd)
             moved == Chdir(dir, Cwd)
         IN /\ moved.drive = full.drive /\ moved.dirs[VolToUpper(full.drive)] = full.names
            /\ \A volume \in DOMAIN Cwd.dirs \ {VolToUpper(full.drive)} :
                 moved.dirs[volume] = Cwd.dirs[volume]
<1> DEFINE full == FullPath(dir, Cwd)
<1>1. full.root = "none" /\ VolToUpper(full.drive) \in DOMAIN Cwd.dirs
  OBVIOUS
<1>2. Chdir(dir, Cwd) = IF full.root = "unc" THEN Cwd
                        ELSE [drive |-> full.drive,
                              dirs |-> [Cwd.dirs EXCEPT ![VolToUpper(full.drive)] = full.names]]
  BY DEF Chdir
<1> HIDE DEF full
<1>3. Chdir(dir, Cwd) = [drive |-> full.drive,
                         dirs |-> [Cwd.dirs EXCEPT ![VolToUpper(full.drive)] = full.names]]
  BY <1>1, <1>2
<1> QED
  BY <1>1, <1>3 DEF full

\* A path resolved against one working directory after Spawn joined it with the
\* child's is the path resolved in the child's.
LEMMA JoinMeansChdir ==
  ASSUME NEW p \in Paths(Cwd), NEW dir \in Paths(Cwd),
         JoinExeDirAndFName(dir, p, Cwd) # EINVAL
  PROVE  SamePath(FullPath(JoinExeDirAndFName(dir, p, Cwd), Cwd),
                  FullPath(p, Chdir(dir, Cwd)))
<1> DEFINE D == IF dir.drive = NoDrive THEN Cwd.drive ELSE dir.drive
           base == IF dir.abs THEN <<>> ELSE Cwd.dirs[VolToUpper(D)]
           B == base \o dir.names
           d == NormalizeDir(dir, Cwd)
           joined == JoinExeDirAndFName(dir, p, Cwd)
           moved == Chdir(dir, Cwd)
<1>1. /\ p.root \in {"none", "unc"} /\ p.abs \in BOOLEAN /\ p.names \in Seq(Names)
      /\ dir.root \in {"none", "unc"} /\ dir.abs \in BOOLEAN /\ dir.names \in Seq(Names)
      /\ p.drive # NoDrive => VolToUpper(p.drive) \in DOMAIN Cwd.dirs
      /\ VolToUpper(D) \in DOMAIN Cwd.dirs /\ D # NoDrive
      /\ \A volume \in DOMAIN Cwd.dirs : Cwd.dirs[volume] \in Seq(Names)
  BY PathsAssumption DEF Paths
<1>2. FullPath(dir, Cwd) = IF dir.root = "unc" THEN dir ELSE Path(D, TRUE, B)
  BY <1>1 DEF FullPath
<1> HIDE DEF D
<1>3. base \in Seq(Names)
  BY <1>1
<1> HIDE DEF base
<1>4. B \in Seq(Names)
  BY <1>1, <1>3
<1> HIDE DEF B
<1>5. \A names \in Seq(Names) : <<>> \o names = names
  OBVIOUS
<1>6. CASE p.root = "unc" \/ (p.drive # NoDrive /\ p.abs)
  <2>1. joined = p
    BY <1>6 DEF JoinExeDirAndFName
  <2>2. FullPath(p, Cwd) = FullPath(p, moved)
    BY <1>1, <1>6 DEF FullPath
  <2> QED
    BY <2>1, <2>2 DEF SamePath
<1>7. CASE p.root = "none" /\ ~(p.drive # NoDrive /\ p.abs)
  <2>1. d # EINVAL /\ (p.abs \/ p.names # <<>>)
    BY <1>7 DEF JoinExeDirAndFName
  <2>2. d = Path(D, TRUE, B) /\ FullPath(dir, Cwd) = Path(D, TRUE, B)
    BY <2>1, <1>1, <1>2 DEF NormalizeDir, Path
  <2>3. d.drive = D /\ d.names = B
    <3> HIDE DEF d, D, B
    <3>1. d = Path(D, TRUE, B)
      BY <2>2
    <3> QED
      BY <3>1 DEF Path
  <2>4. /\ moved.drive = D /\ moved.dirs[VolToUpper(D)] = B
        /\ \A volume \in DOMAIN Cwd.dirs \ {VolToUpper(D)} : moved.dirs[volume] = Cwd.dirs[volume]
    <3> DEFINE full == FullPath(dir, Cwd)
    <3>1. full.root = "none" /\ full.drive = D /\ full.names = B
      <4>1. full = Path(D, TRUE, B)
        BY <2>2
      <4> HIDE DEF full, D, B
      <4> QED
        BY <4>1 DEF Path
    <3> QED
      BY <3>1, <1>1, ChdirMoves
  <2> HIDE DEF d, moved
  <2>5. CASE p.abs
    <3>1. p.drive = NoDrive /\ joined = Path(D, TRUE, p.names)
      BY <2>1, <2>3, <2>5, <1>7 DEF JoinExeDirAndFName, d
    <3>2. FullPath(joined, Cwd) = Path(D, TRUE, p.names)
      BY <3>1, <1>1, FullIsFull
    <3>3. FullPath(p, moved) = Path(D, TRUE, p.names)
      BY <3>1, <2>4, <2>5, <1>1, <1>5, <1>7 DEF FullPath
    <3> QED
      BY <3>2, <3>3 DEF SamePath, moved
  <2>6. CASE ~p.abs /\ p.drive # NoDrive /\ VolToUpper(p.drive) # VolToUpper(D)
    <3> DEFINE N == Cwd.dirs[VolToUpper(p.drive)] \o p.names
    <3>1. joined = FullPath(p, Cwd)
      BY <2>1, <2>3, <2>6, <1>7 DEF JoinExeDirAndFName, d
    <3>2. FullPath(p, Cwd) = Path(p.drive, TRUE, N)
      BY <2>6, <1>7 DEF FullPath
    <3>3. N \in Seq(Names)
      <4>1. Cwd.dirs[VolToUpper(p.drive)] \in Seq(Names)
        BY <2>6, <1>1
      <4> QED
        BY <4>1, <1>1
    <3>4. FullPath(p, moved) = Path(p.drive, TRUE, N)
      BY <1>1, <2>4, <2>6, <1>7 DEF FullPath
    <3> HIDE DEF N
    <3>5. FullPath(joined, Cwd) = Path(p.drive, TRUE, N)
      BY <3>1, <3>2, <3>3, <2>6, FullIsFull
    <3> QED
      BY <3>4, <3>5 DEF SamePath, moved
  <2>7. CASE ~p.abs /\ (p.drive = NoDrive \/ VolToUpper(p.drive) = VolToUpper(D))
    <3> DEFINE N == B \o p.names
               drive == IF p.drive = NoDrive THEN D ELSE p.drive
    <3>1. joined = Path(D, TRUE, N)
      BY <2>1, <2>3, <2>7, <1>7 DEF JoinExeDirAndFName, d
    <3>2. N \in Seq(Names)
      BY <1>1, <1>4
    <3>3. VolToUpper(drive) = VolToUpper(D)
      BY <2>7
    <3>4. FullPath(p, moved) = Path(drive, TRUE, N)
      BY <3>3, <2>4, <2>7, <1>7 DEF FullPath
    <3> HIDE DEF N, drive
    <3>5. FullPath(joined, Cwd) = Path(D, TRUE, N)
      BY <3>1, <3>2, <1>1, FullIsFull
    <3>6. SamePath(Path(D, TRUE, N), Path(drive, TRUE, N))
      BY <3>3, SameDriveSamePath
    <3> QED
      BY <3>4, <3>5, <3>6 DEF moved
  <2> QED
    BY <2>5, <2>6, <2>7, <1>1
<1> QED
  BY <1>1, <1>6, <1>7

\* The child has the command Spawn was given and the program CreateProcess makes of it.
ProgramInv ==
  child # "none" =>
    /\ asked \in Commands
    /\ Argv0(asked.program, asked.dir) # EINVAL
    /\ started.exe = FullPath(Argv0(asked.program, asked.dir), Cwd)

LEMMA ProgramStep == ProgramInv /\ [Next]_vars => ProgramInv'
<1> SUFFICES ASSUME ProgramInv, [Next]_vars PROVE ProgramInv'
  OBVIOUS
<1>1. ASSUME NEW command \in Commands, Spawn(command) PROVE ProgramInv'
  <2>1. CASE stage' = "spawned"
    <3>1. /\ Argv0(command.program, command.dir) # EINVAL
          /\ asked' = command
          /\ started'.exe = FullPath(Argv0(command.program, command.dir), Cwd)
      BY <1>1, <2>1 DEF Spawn, Spawned
    <3> QED
      BY <3>1 DEF ProgramInv
  <2>2. CASE stage' # "spawned"
    BY <1>1, <2>2 DEF Spawn, Spawned, ProgramInv
  <2> QED
    BY <1>1, <2>1, <2>2 DEF Spawn, Spawned
<1>2. CASE ChildExits
  BY <1>2 DEF ChildExits, ProgramInv
<1>3. CASE UNCHANGED childVars \/ UNCHANGED <<asked, child, started>>
  BY <1>3 DEF childVars, ProgramInv
<1>4. CASE [\E cols, rows \in Sizes : CreatePipes(cols, rows) \/ Resize(cols, rows)]_vars
  BY <1>3, <1>4 DEF CreatePipes, Resize, vars, childVars
<1> QED
  BY <1>1, <1>2, <1>3, <1>4 DEF Next, CreatePseudoConsole, InitializeStartupInfo, FindProcess,
     CloseAttributes, CloseConsole, ClosePipes

\* Whatever program and directory Spawn is given, the program started is the one a
\* process that changed into the directory first would run.
THEOREM RunsTheRightProgram == Spec => []RunsWhatChdirWould
<1>1. Init => ProgramInv
  BY DEF Init, ProgramInv
<1>2. ProgramInv => RunsWhatChdirWould
  <2> SUFFICES ASSUME ProgramInv, child # "none"
               PROVE  LET cwd == IF asked.dir = NoPath THEN Cwd ELSE Chdir(asked.dir, Cwd)
                      IN SamePath(started.exe, FullPath(asked.program, cwd))
    BY DEF RunsWhatChdirWould
  <2>1. asked.program \in Paths(Cwd) /\ asked.dir \in Paths(Cwd)
    BY PathsAssumption DEF ProgramInv
  <2>2. CASE asked.dir = NoPath
    BY <2>2 DEF ProgramInv, Argv0, SamePath
  <2>3. CASE asked.dir # NoPath
    BY <2>1, <2>3, JoinMeansChdir DEF ProgramInv, Argv0
  <2> QED
    BY <2>2, <2>3
<1> QED
  BY <1>1, <1>2, ProgramStep, PTL DEF Spec

-----------------------------------------------------------------------------
\* The environment: first the entries of a key.

OfSteps(key, S, env) ==
  [n \in 1..Len(env) |->
     [t \in Seq(S) |-> IF env[n].key = key THEN Append(t, env[n]) ELSE t]]

LEMMA OfIsRecursion ==
  ASSUME NEW key, NEW S, NEW env \in Seq(S)
  PROVE  \E f : /\ IsRecursion(f, Len(env), Seq(S), <<>>, OfSteps(key, S, env))
                /\ Of(key, env) = f[Len(env)]
<1> DEFINE N == Len(env)
           T == Seq(S)
           step == OfSteps(key, S, env)
           F(f) == [n \in 0..N |->
                      IF n = 0 THEN <<>>
                      ELSE IF env[n].key = key THEN Append(f[n - 1], env[n]) ELSE f[n - 1]]
           of == CHOOSE f : f = F(f)
<1>1. N \in Nat /\ <<>> \in T
  OBVIOUS
<1>2. /\ step \in [1..N -> [T -> T]]
      /\ \A n \in 1..N, t \in T : step[n][t] = IF env[n].key = key THEN Append(t, env[n]) ELSE t
  <2>1. \A n \in 1..N, t \in T : Append(t, env[n]) \in T
    OBVIOUS
  <2> HIDE DEF T, N
  <2>2. step = [n \in 1..N |-> [t \in T |-> IF env[n].key = key THEN Append(t, env[n]) ELSE t]]
    BY DEF OfSteps, T, N
  <2> QED
    BY <2>1, <2>2
<1> HIDE DEF N, T, step
<1>3. PICK f : IsRecursion(f, N, T, <<>>, step)
  BY <1>1, <1>2, RecursionExists
<1>4. f = F(f)
  <2>1. ASSUME NEW n \in 0..N PROVE f[n] = F(f)[n]
    <3>1. CASE n = 0
      BY <1>3, <3>1 DEF IsRecursion
    <3>2. CASE n # 0
      <4>1. n \in 1..N /\ n - 1 \in 0..N
        BY <1>1, <3>2
      <4>2. f[n] = IF env[n].key = key THEN Append(f[n - 1], env[n]) ELSE f[n - 1]
        BY <1>2, <1>3, <4>1 DEF IsRecursion
      <4> QED
        BY <3>2, <4>2
    <3> QED
      BY <3>1, <3>2
  <2> QED
    BY <1>3, <2>1 DEF IsRecursion
<1>5. of = F(of)
  BY <1>4
<1>6. Of(key, env) = of[N]
  BY DEF Of, N
<1> HIDE DEF of
<1>7. \A n \in 0..N : of[n] = F(of)[n]
  BY <1>5
<1>8. of = [n \in 0..N |-> of[n]] /\ of[0] = <<>>
  BY <1>1, <1>5
<1>9. ASSUME NEW n \in 1..N, of[n - 1] \in T PROVE of[n] = step[n][of[n - 1]]
  <2>1. n \in 0..N /\ n # 0
    BY <1>1
  <2>2. of[n] = IF env[n].key = key THEN Append(of[n - 1], env[n]) ELSE of[n - 1]
    BY <1>7, <2>1
  <2> QED
    BY <1>2, <1>9, <2>2
<1>10. IsRecursion(of, N, T, <<>>, step)
  BY <1>1, <1>2, <1>8, <1>9, RecursionHas
<1> QED
  BY <1>6, <1>10 DEF N, T, step

LEMMA OfProperties ==
  ASSUME NEW key, NEW S, NEW env \in Seq(S)
  PROVE  /\ Of(key, env) \in Seq(S)
         /\ env = <<>> => Of(key, env) = <<>>
         /\ \A e \in S : Of(key, Append(env, e)) =
              IF e.key = key THEN Append(Of(key, env), e) ELSE Of(key, env)
<1> DEFINE N == Len(env)
<1>1. PICK f : IsRecursion(f, N, Seq(S), <<>>, OfSteps(key, S, env)) /\ Of(key, env) = f[N]
  BY OfIsRecursion
<1>2. N \in Nat /\ Of(key, env) \in Seq(S) /\ (env = <<>> => Of(key, env) = <<>>)
  BY <1>1 DEF IsRecursion
<1>3. ASSUME NEW e \in S
      PROVE  Of(key, Append(env, e)) = IF e.key = key THEN Append(Of(key, env), e) ELSE Of(key, env)
  <2> DEFINE a == Append(env, e)
  <2>1. a \in Seq(S) /\ Len(a) = N + 1 /\ a[N + 1] = e /\ \A n \in 1..N : a[n] = env[n]
    BY AppendProperties
  <2> HIDE DEF a
  <2>2. PICK g : IsRecursion(g, N + 1, Seq(S), <<>>, OfSteps(key, S, a)) /\ Of(key, a) = g[N + 1]
    BY <2>1, OfIsRecursion
  <2>3. \A n \in 1..N : OfSteps(key, S, env)[n] = OfSteps(key, S, a)[n]
    <3>1. ASSUME NEW n \in 1..N PROVE OfSteps(key, S, env)[n] = OfSteps(key, S, a)[n]
      <4>1. n \in 1..Len(env) /\ n \in 1..Len(a) /\ a[n] = env[n]
        BY <1>2, <2>1
      <4>2. OfSteps(key, S, env)[n] = [t \in Seq(S) |-> IF env[n].key = key THEN Append(t, env[n]) ELSE t]
        BY <4>1 DEF OfSteps
      <4>3. OfSteps(key, S, a)[n] = [t \in Seq(S) |-> IF a[n].key = key THEN Append(t, a[n]) ELSE t]
        BY <4>1 DEF OfSteps
      <4> QED
        BY <4>1, <4>2, <4>3
    <3> QED
      BY <3>1
  <2>4. f[N] = g[N]
    <3>1. N + 1 \in Nat /\ N <= N + 1
      BY <1>2
    <3> QED
      BY <1>1, <1>2, <2>2, <2>3, <3>1, RecursionsAgree
  <2>5. g[N + 1] = IF e.key = key THEN Append(g[N], e) ELSE g[N]
    <3>1. N + 1 \in 1..N + 1 /\ (N + 1) - 1 = N /\ N \in 0..N + 1
      BY <1>2
    <3>2. g[N] \in Seq(S) /\ g[N + 1] = OfSteps(key, S, a)[N + 1][g[N]]
      BY <2>2, <3>1 DEF IsRecursion
    <3> QED
      BY <2>1, <3>1, <3>2 DEF OfSteps
  <2> QED
    BY <1>1, <2>2, <2>4, <2>5 DEF a
<1> QED
  BY <1>2, <1>3

LEMMA OfNothing ==
  ASSUME NEW key PROVE Of(key, <<>>) = <<>>
<1>1. \A env \in Seq({}) : env = <<>> => Of(key, env) = <<>>
  BY OfProperties
<1>2. <<>> \in Seq({})
  OBVIOUS
<1> QED
  BY <1>1, <1>2

\* There are none of a key that no entry has.
LEMMA OfNone ==
  ASSUME NEW key, NEW S
  PROVE  \A env \in Seq(S) : Of(key, env) = <<>> <=> \A i \in 1..Len(env) : env[i].key # key
<1> DEFINE None(env) == \A i \in 1..Len(env) : env[i].key # key
           P == {env \in Seq(S) : Of(key, env) = <<>> <=> None(env)}
<1>1. <<>> \in P
  <2>1. <<>> \in Seq(S) /\ None(<<>>)
    OBVIOUS
  <2> QED
    BY <2>1, OfNothing
<1>2. ASSUME NEW env \in Seq(S), NEW e \in S, env \in P PROVE Append(env, e) \in P
  <2> DEFINE a == Append(env, e)
  <2>1. /\ a \in Seq(S) /\ Len(a) = Len(env) + 1 /\ a[Len(env) + 1] = e /\ Len(env) \in Nat
        /\ \A i \in 1..Len(env) : a[i] = env[i]
    BY AppendProperties
  <2>2. Of(key, a) = IF e.key = key THEN Append(Of(key, env), e) ELSE Of(key, env)
    BY OfProperties
  <2>3. Append(Of(key, env), e) # <<>>
    BY OfProperties, AppendProperties
  <2>4. Of(key, env) = <<>> <=> None(env)
    BY <1>2
  <2> HIDE DEF a, P
  <2>5. None(a) <=> None(env) /\ e.key # key
    <3>1. 1..Len(a) = (1..Len(env)) \cup {Len(env) + 1}
      BY <2>1
    <3> QED
      BY <2>1, <3>1
  <2> HIDE DEF None
  <2>6. Of(key, a) = <<>> <=> None(a)
    BY <2>2, <2>3, <2>4, <2>5
  <2> QED
    BY <2>1, <2>6 DEF a, P
<1> HIDE DEF P
<1>3. Seq(S) \subseteq P
  BY <1>1, <1>2, OnSequences
<1> QED
  BY <1>3 DEF P

LEMMA OfConcat ==
  ASSUME NEW key, NEW S, NEW s \in Seq(S)
  PROVE  \A t \in Seq(S) : Of(key, s \o t) = Of(key, s) \o Of(key, t)
<1> DEFINE P == {t \in Seq(S) : Of(key, s \o t) = Of(key, s) \o Of(key, t)}
<1>0. Of(key, s) \in Seq(S)
  BY OfProperties
<1>1. <<>> \in P
  <2>1. <<>> \in Seq(S) /\ s \o <<>> = s
    BY ConcatEmptySeq
  <2>2. Of(key, s) \o <<>> = Of(key, s)
    BY <1>0, ConcatEmptySeq
  <2> QED
    BY <2>1, <2>2, OfNothing
<1>2. ASSUME NEW t \in Seq(S), NEW e \in S, t \in P PROVE Append(t, e) \in P
  <2> HIDE DEF P
  <2>1. /\ s \o t \in Seq(S) /\ Append(t, e) \in Seq(S) /\ Of(key, t) \in Seq(S)
        /\ s \o Append(t, e) = Append(s \o t, e)
    BY ConcatProperties, AppendProperties, OfProperties, ConcatAppend
  <2>2. Of(key, s \o t) = Of(key, s) \o Of(key, t)
    BY <1>2 DEF P
  <2>3. Of(key, Append(s \o t, e)) = IF e.key = key THEN Append(Of(key, s \o t), e) ELSE Of(key, s \o t)
    <3>1. \A u \in Seq(S) :
            Of(key, Append(u, e)) = IF e.key = key THEN Append(Of(key, u), e) ELSE Of(key, u)
      BY OfProperties
    <3> QED
      BY <2>1, <3>1
  <2>4. Of(key, Append(t, e)) = IF e.key = key THEN Append(Of(key, t), e) ELSE Of(key, t)
    BY OfProperties
  <2>5. Append(Of(key, s) \o Of(key, t), e) = Of(key, s) \o Append(Of(key, t), e)
    <3>1. \A a, b \in Seq(S) : a \o Append(b, e) = Append(a \o b, e)
      BY ConcatAppend
    <3> QED
      BY <1>0, <2>1, <3>1
  <2>6. Of(key, Append(s \o t, e)) = Of(key, s) \o Of(key, Append(t, e))
    BY <2>2, <2>3, <2>4, <2>5
  <2> QED
    BY <2>1, <2>6 DEF P
<1> HIDE DEF P
<1>3. Seq(S) \subseteq P
  BY <1>1, <1>2, OnSequences
<1> QED
  BY <1>3 DEF P

\* An entry in the place of one with its key, when that was the only one.
LEMMA OfReplaced ==
  ASSUME NEW S, NEW env \in Seq(S), NEW i \in 1..Len(env), NEW e \in S, env[i].key = e.key
  PROVE  LET put == [env EXCEPT ![i] = e]
         IN /\ put \in Seq(S)
            /\ \A key : key # e.key => Of(key, put) = Of(key, env)
            /\ Len(Of(e.key, env)) = 1 => Of(e.key, put) = <<e>>
<1> DEFINE put == [env EXCEPT ![i] = e]
           pre == SubSeq(env, 1, i - 1)
           post == SubSeq(env, i + 1, Len(env))
           With(x) == Append(pre, x) \o post
<1>1. /\ Len(env) \in Nat /\ env[i] \in S
      /\ pre \in Seq(S) /\ Len(pre) = i - 1 /\ \A j \in 1..i - 1 : pre[j] = env[j]
      /\ post \in Seq(S) /\ Len(post) = Len(env) - i /\ \A j \in 1..Len(env) - i : post[j] = env[i + j]
  <2>1. Len(env) \in Nat /\ env[i] \in S /\ pre \in Seq(S) /\ post \in Seq(S)
    OBVIOUS
  <2>2. Len(pre) = i - 1 /\ \A j \in 1..i - 1 : pre[j] = env[j]
    OBVIOUS
  <2>3. Len(post) = Len(env) - i /\ \A j \in 1..Len(env) - i : post[j] = env[i + j]
    OBVIOUS
  <2> QED
    BY <2>1, <2>2, <2>3
<1>2. /\ put \in Seq(S) /\ Len(put) = Len(env)
      /\ \A j \in 1..Len(env) : put[j] = IF j = i THEN e ELSE env[j]
  BY ExceptSeq
<1> HIDE DEF put, pre, post
<1>3. ASSUME NEW x \in S
      PROVE  /\ With(x) \in Seq(S) /\ Len(With(x)) = Len(env)
             /\ \A j \in 1..Len(env) : With(x)[j] = IF j = i THEN x ELSE env[j]
  <2> DEFINE a == Append(pre, x)
  <2>1. a \in Seq(S) /\ Len(a) = i /\ a[i] = x /\ \A j \in 1..i - 1 : a[j] = env[j]
    BY <1>1, AppendProperties
  <2> HIDE DEF a
  <2>2. /\ a \o post \in Seq(S) /\ Len(a \o post) = Len(a) + Len(post)
        /\ \A j \in 1..Len(a) + Len(post) : (a \o post)[j] = IF j <= Len(a) THEN a[j] ELSE post[j - Len(a)]
    <3>1. a \in Seq(S) /\ post \in Seq(S)
      BY <1>1, <2>1
    <3> QED
      BY <3>1, ConcatProperties
  <2>3. Len(a \o post) = Len(env)
    BY <1>1, <2>1, <2>2
  <2>4. ASSUME NEW j \in 1..Len(env) PROVE (a \o post)[j] = IF j = i THEN x ELSE env[j]
    <3>1. (a \o post)[j] = IF j <= i THEN a[j] ELSE post[j - i]
      BY <1>1, <2>1, <2>2
    <3>2. CASE j < i
      BY <2>1, <3>1, <3>2
    <3>3. CASE j = i
      BY <2>1, <3>1, <3>3
    <3>4. CASE j > i
      <4>1. j - i \in 1..Len(env) - i /\ i + (j - i) = j
        BY <1>1, <3>4
      <4> QED
        BY <1>1, <3>1, <3>4, <4>1
    <3>5. j < i \/ j = i \/ j > i
      BY <1>1
    <3> QED
      BY <3>2, <3>3, <3>4, <3>5
  <2> QED
    BY <2>2, <2>3, <2>4 DEF a
<1>4. env = With(env[i]) /\ put = With(e)
  <2>1. env = With(env[i])
    <3> DEFINE v == With(env[i])
    <3>1. v \in Seq(S) /\ Len(env) = Len(v) /\ \A j \in 1..Len(env) : env[j] = v[j]
      BY <1>1, <1>3
    <3> HIDE DEF v
    <3>2. env = v
      BY <3>1, SeqEqual
    <3> QED
      BY <3>2 DEF v
  <2>2. put = With(e)
    <3> DEFINE v == With(e)
    <3>1. v \in Seq(S) /\ Len(put) = Len(v) /\ \A j \in 1..Len(put) : put[j] = v[j]
      BY <1>2, <1>3
    <3> HIDE DEF v
    <3>2. put = v
      BY <1>2, <3>1, SeqEqual
    <3> QED
      BY <3>2 DEF v
  <2> QED
    BY <2>1, <2>2
<1>5. ASSUME NEW key, NEW x \in S
      PROVE  Of(key, With(x)) = (IF x.key = key THEN Append(Of(key, pre), x) ELSE Of(key, pre)) \o Of(key, post)
  <2>1. \A u \in Seq(S) : Of(key, Append(u, x)) = IF x.key = key THEN Append(Of(key, u), x) ELSE Of(key, u)
    BY OfProperties
  <2>2. \A u, v \in Seq(S) : Of(key, u \o v) = Of(key, u) \o Of(key, v)
    BY OfConcat
  <2>3. Append(pre, x) \in Seq(S)
    BY <1>1, AppendProperties
  <2> QED
    BY <1>1, <2>1, <2>2, <2>3
<1>6. ASSUME NEW key, key # e.key PROVE Of(key, put) = Of(key, env)
  <2>1. Of(key, With(env[i])) = Of(key, pre) \o Of(key, post)
    BY <1>1, <1>5, <1>6
  <2>2. Of(key, With(e)) = Of(key, pre) \o Of(key, post)
    BY <1>5, <1>6
  <2> HIDE DEF With
  <2> QED
    BY <1>4, <2>1, <2>2
<1>7. ASSUME Len(Of(e.key, env)) = 1 PROVE Of(e.key, put) = <<e>>
  <2> DEFINE a == Of(e.key, pre)
             b == Of(e.key, post)
             x == env[i]
  <2>1. a \in Seq(S) /\ b \in Seq(S) /\ x \in S
    BY <1>1, OfProperties
  <2>2. Of(e.key, env) = Append(a, x) \o b /\ Of(e.key, put) = Append(a, e) \o b
    BY <1>1, <1>4, <1>5
  <2> HIDE DEF a, b, x
  <2>3. Len(Append(a, x) \o b) = Len(a) + 1 + Len(b) /\ Len(a) \in Nat /\ Len(b) \in Nat
    <3>1. Append(a, x) \in Seq(S) /\ Len(Append(a, x)) = Len(a) + 1
      BY <2>1, AppendProperties
    <3> QED
      BY <2>1, <3>1, ConcatProperties
  <2>4. Len(a) = 0 /\ Len(b) = 0
    BY <1>7, <2>2, <2>3
  <2>5. a = <<>> /\ b = <<>>
    BY <2>1, <2>4, EmptySeq
  <2> QED
    BY <2>2, <2>5
<1> QED
  BY <1>2, <1>6, <1>7 DEF put

\* dedupEnvCase.
DedupSteps(S, env) == [n \in 1..Len(env) |-> [t \in Seq(S) |-> PutEntry(t, env[n])]]

LEMMA PutEntryType ==
  ASSUME NEW S, NEW out \in Seq(S), NEW e \in S PROVE PutEntry(out, e) \in Seq(S)
<1> DEFINE saw == {i \in DOMAIN out : SameKey(out[i], e)}
           i == CHOOSE i \in saw : TRUE
<1>1. Append(out, e) \in Seq(S) /\ DOMAIN out = 1..Len(out)
  OBVIOUS
<1>2. saw # {} => i \in 1..Len(out)
  BY <1>1
<1>3. PutEntry(out, e) = IF saw = {} THEN Append(out, e) ELSE [out EXCEPT ![i] = e]
  BY DEF PutEntry
<1> HIDE DEF saw, i
<1> QED
  BY <1>1, <1>2, <1>3, ExceptSeq

LEMMA DedupIsRecursion ==
  ASSUME NEW S, NEW env \in Seq(S)
  PROVE  \E f : /\ IsRecursion(f, Len(env), Seq(S), <<>>, DedupSteps(S, env))
                /\ DedupEnvCase(env) = f[Len(env)]
<1> DEFINE N == Len(env)
           T == Seq(S)
           step == DedupSteps(S, env)
           F(f) == [n \in 0..N |-> IF n = 0 THEN <<>> ELSE PutEntry(f[n - 1], env[n])]
           out == CHOOSE f : f = F(f)
<1>1. N \in Nat /\ <<>> \in T
  OBVIOUS
<1>2. /\ step \in [1..N -> [T -> T]]
      /\ \A n \in 1..N, t \in T : step[n][t] = PutEntry(t, env[n])
  <2>1. \A n \in 1..N, t \in T : PutEntry(t, env[n]) \in T
    <3>1. \A n \in 1..N : env[n] \in S
      OBVIOUS
    <3> QED
      BY <3>1, PutEntryType
  <2> HIDE DEF T, N
  <2>2. step = [n \in 1..N |-> [t \in T |-> PutEntry(t, env[n])]]
    BY DEF DedupSteps, T, N
  <2> QED
    BY <2>1, <2>2
<1> HIDE DEF N, T, step
<1>3. PICK f : IsRecursion(f, N, T, <<>>, step)
  BY <1>1, <1>2, RecursionExists
<1>4. f = F(f)
  <2>1. ASSUME NEW n \in 0..N PROVE f[n] = F(f)[n]
    <3>1. CASE n = 0
      BY <1>3, <3>1 DEF IsRecursion
    <3>2. CASE n # 0
      <4>1. n \in 1..N /\ n - 1 \in 0..N
        BY <1>1, <3>2
      <4>2. f[n] = PutEntry(f[n - 1], env[n])
        BY <1>2, <1>3, <4>1 DEF IsRecursion
      <4> QED
        BY <3>2, <4>2
    <3> QED
      BY <3>1, <3>2
  <2> QED
    BY <1>3, <2>1 DEF IsRecursion
<1>5. out = F(out)
  BY <1>4
<1>6. DedupEnvCase(env) = out[N]
  BY DEF DedupEnvCase, N
<1> HIDE DEF out
<1>7. \A n \in 0..N : out[n] = F(out)[n]
  BY <1>5
<1>8. out = [n \in 0..N |-> out[n]] /\ out[0] = <<>>
  BY <1>1, <1>5
<1>9. ASSUME NEW n \in 1..N, out[n - 1] \in T PROVE out[n] = step[n][out[n - 1]]
  <2>1. n \in 0..N /\ n # 0
    BY <1>1
  <2>2. out[n] = PutEntry(out[n - 1], env[n])
    BY <1>7, <2>1
  <2> QED
    BY <1>2, <1>9, <2>2
<1>10. IsRecursion(out, N, T, <<>>, step)
  BY <1>1, <1>2, <1>8, <1>9, RecursionHas
<1> QED
  BY <1>6, <1>10 DEF N, T, step

LEMMA DedupProperties ==
  ASSUME NEW S, NEW env \in Seq(S)
  PROVE  /\ DedupEnvCase(env) \in Seq(S)
         /\ env = <<>> => DedupEnvCase(env) = <<>>
         /\ \A e \in S : DedupEnvCase(Append(env, e)) = PutEntry(DedupEnvCase(env), e)
<1> DEFINE N == Len(env)
<1>1. PICK f : IsRecursion(f, N, Seq(S), <<>>, DedupSteps(S, env)) /\ DedupEnvCase(env) = f[N]
  BY DedupIsRecursion
<1>2. N \in Nat /\ DedupEnvCase(env) \in Seq(S) /\ (env = <<>> => DedupEnvCase(env) = <<>>)
  BY <1>1 DEF IsRecursion
<1>3. ASSUME NEW e \in S PROVE DedupEnvCase(Append(env, e)) = PutEntry(DedupEnvCase(env), e)
  <2> DEFINE a == Append(env, e)
  <2>1. a \in Seq(S) /\ Len(a) = N + 1 /\ a[N + 1] = e /\ \A n \in 1..N : a[n] = env[n]
    BY AppendProperties
  <2> HIDE DEF a
  <2>2. PICK g : IsRecursion(g, N + 1, Seq(S), <<>>, DedupSteps(S, a)) /\ DedupEnvCase(a) = g[N + 1]
    BY <2>1, DedupIsRecursion
  <2>3. \A n \in 1..N : DedupSteps(S, env)[n] = DedupSteps(S, a)[n]
    <3>1. ASSUME NEW n \in 1..N PROVE DedupSteps(S, env)[n] = DedupSteps(S, a)[n]
      <4>1. n \in 1..Len(env) /\ n \in 1..Len(a) /\ a[n] = env[n]
        BY <1>2, <2>1
      <4>2. DedupSteps(S, env)[n] = [t \in Seq(S) |-> PutEntry(t, env[n])]
        BY <4>1 DEF DedupSteps
      <4>3. DedupSteps(S, a)[n] = [t \in Seq(S) |-> PutEntry(t, a[n])]
        BY <4>1 DEF DedupSteps
      <4> QED
        BY <4>1, <4>2, <4>3
    <3> QED
      BY <3>1
  <2>4. f[N] = g[N]
    <3>1. N + 1 \in Nat /\ N <= N + 1
      BY <1>2
    <3> QED
      BY <1>1, <1>2, <2>2, <2>3, <3>1, RecursionsAgree
  <2>5. g[N + 1] = PutEntry(g[N], e)
    <3>1. N + 1 \in 1..N + 1 /\ (N + 1) - 1 = N /\ N \in 0..N + 1
      BY <1>2
    <3>2. g[N] \in Seq(S) /\ g[N + 1] = DedupSteps(S, a)[N + 1][g[N]]
      BY <2>2, <3>1 DEF IsRecursion
    <3> QED
      BY <2>1, <3>1, <3>2 DEF DedupSteps
  <2> QED
    BY <1>1, <2>2, <2>4, <2>5 DEF a
<1> QED
  BY <1>2, <1>3

\* What is to be left of the entries of a key: all of those that are none, else the last.
Newest(key, l) == IF key = NoKey \/ l = <<>> THEN l ELSE <<Last(l)>>

LEMMA NewestOfMore ==
  ASSUME NEW S, NEW l \in Seq(S), NEW e \in S, NEW key, key # NoKey
  PROVE  Newest(key, Append(l, e)) = <<e>>
<1>1. Append(l, e) # <<>> /\ Last(Append(l, e)) = e
  BY AppendProperties DEF Last
<1> QED
  BY <1>1 DEF Newest

LEMMA DedupKeepsNewest ==
  ASSUME NEW S
  PROVE  \A env \in Seq(S) : \A key : Of(key, DedupEnvCase(env)) = Newest(key, Of(key, env))
<1> DEFINE P == {env \in Seq(S) : \A key : Of(key, DedupEnvCase(env)) = Newest(key, Of(key, env))}
<1>1. <<>> \in P
  <2>1. <<>> \in Seq(S)
    OBVIOUS
  <2>2. DedupEnvCase(<<>>) = <<>>
    <3>1. \A env \in Seq(S) : env = <<>> => DedupEnvCase(env) = <<>>
      BY DedupProperties
    <3> QED
      BY <2>1, <3>1
  <2>3. \A key : Newest(key, <<>>) = <<>>
    BY DEF Newest
  <2> QED
    BY <2>1, <2>2, <2>3, OfNothing
<1>2. ASSUME NEW env \in Seq(S), NEW e \in S, env \in P PROVE Append(env, e) \in P
  <2> DEFINE out == DedupEnvCase(env)
             put == PutEntry(out, e)
             saw == {i \in DOMAIN out : SameKey(out[i], e)}
             i == CHOOSE i \in saw : TRUE
             k == e.key
  <2>1. out \in Seq(S) /\ DedupEnvCase(Append(env, e)) = put /\ Append(env, e) \in Seq(S)
    BY DedupProperties, AppendProperties
  <2>2. \A key : Of(key, out) = Newest(key, Of(key, env))
    BY <1>2
  <2>3. \A key : Of(key, Append(env, e)) = IF k = key THEN Append(Of(key, env), e) ELSE Of(key, env)
    BY OfProperties
  <2>4. put = IF saw = {} THEN Append(out, e) ELSE [out EXCEPT ![i] = e]
    BY DEF PutEntry
  <2>5. saw = {} => k = NoKey \/ \A j \in 1..Len(out) : out[j].key # k
    BY <2>1 DEF SameKey
  <2>6. saw # {} => k # NoKey /\ i \in 1..Len(out) /\ out[i].key = k
    BY <2>1 DEF SameKey
  <2> HIDE DEF out, put, saw, i, P
  <2>7. \A key : Of(key, env) \in Seq(S)
    BY OfProperties
  <2>8. ASSUME NEW key PROVE Of(key, put) = Newest(key, Of(key, Append(env, e)))
    <3>1. CASE saw = {}
      <4>1. Of(key, put) = IF k = key THEN Append(Of(key, out), e) ELSE Of(key, out)
        <5>1. \A u \in Seq(S) : Of(key, Append(u, e)) = IF k = key THEN Append(Of(key, u), e) ELSE Of(key, u)
          BY OfProperties
        <5> QED
          BY <2>1, <2>4, <3>1, <5>1
      <4>2. CASE k # key
        BY <2>2, <2>3, <4>1, <4>2
      <4>3. CASE k = key /\ k = NoKey
        BY <2>2, <2>3, <4>1, <4>3 DEF Newest
      <4>4. CASE k = key /\ k # NoKey
        <5>1. Of(key, out) = <<>>
          BY <2>1, <2>5, <3>1, <4>4, OfNone
        <5>2. Append(<<>>, e) = <<e>>
          OBVIOUS
        <5>3. Newest(key, Append(Of(key, env), e)) = <<e>>
          BY <2>7, <4>4, NewestOfMore
        <5> QED
          BY <2>3, <4>1, <4>4, <5>1, <5>2, <5>3
      <4> QED
        BY <4>2, <4>3, <4>4
    <3>2. CASE saw # {}
      <4>1. /\ k # key => Of(key, put) = Of(key, out)
            /\ Len(Of(k, out)) = 1 => Of(k, put) = <<e>>
        BY <2>1, <2>4, <2>6, <3>2, OfReplaced
      <4>2. CASE k # key
        BY <2>2, <2>3, <4>1, <4>2
      <4>3. CASE k = key
        <5>1. Of(k, out) # <<>>
          BY <2>1, <2>6, <3>2, OfNone
        <5>2. Newest(k, Of(k, env)) = IF Of(k, env) = <<>> THEN <<>> ELSE <<Last(Of(k, env))>>
          BY <2>6, <3>2 DEF Newest
        <5>3. Len(Of(k, out)) = 1
          BY <2>2, <5>1, <5>2
        <5>4. Newest(key, Append(Of(key, env), e)) = <<e>>
          BY <2>6, <2>7, <3>2, <4>3, NewestOfMore
        <5> QED
          BY <2>3, <4>1, <4>3, <5>3, <5>4
      <4> QED
        BY <4>2, <4>3
    <3> QED
      BY <3>1, <3>2
  <2> QED
    BY <2>1, <2>8 DEF P
<1> HIDE DEF P
<1>3. Seq(S) \subseteq P
  BY <1>1, <1>2, OnSequences
<1> QED
  BY <1>3 DEF P

\* The whole of it: dedupEnvCase, addCriticalEnv and the block.
LEMMA EnvironmentLemma ==
  ASSUME NEW env \in Seq(Entries), ~Contains(env, EmptyEntry)
  PROVE  LET block == EnvBlock(AddCriticalEnv(DedupEnvCase(env)))
             keys == {env[i].key : i \in DOMAIN env} \ {NoKey, DriveKey}
         IN /\ \A key \in keys : Of(key, block) = <<Last(Of(key, env))>>
            /\ Len(Of("systemroot", block)) = 1
            /\ Of(NoKey, block) = Of(NoKey, env)
<1> DEFINE S == {e \in Entries \cup {SystemRoot} : e # EmptyEntry}
           out == DedupEnvCase(env)
           all == AddCriticalEnv(out)
           keys == {env[i].key : i \in DOMAIN env} \ {NoKey, DriveKey}
<1>1. env \in Seq(S)
  <2>1. \A i \in 1..Len(env) : env[i] \in S
    BY DEF Contains
  <2>2. env = SubSeq(env, 1, Len(env)) /\ 1 \in Int /\ Len(env) \in Int
    BY SubSeqFull
  <2> HIDE DEF S
  <2> QED
    BY <2>1, <2>2, SubSeqProperties
<1>2. SystemRoot \in S /\ SystemRoot.key = "systemroot" /\ "systemroot" # NoKey
  <2>1. SystemRoot.key = "systemroot" /\ EmptyEntry.key = NoKey /\ "systemroot" # NoKey
    BY DEF SystemRoot, EmptyEntry, Entry, NoKey
  <2> QED
    BY <2>1
<1> HIDE DEF S
<1>3. out \in Seq(S) /\ \A key : Of(key, out) = Newest(key, Of(key, env))
  BY <1>1, DedupProperties, DedupKeepsNewest
<1>4. DOMAIN out = 1..Len(out) /\ DOMAIN env = 1..Len(env)
  BY <1>3
<1> HIDE DEF out
<1>5. all = IF \E i \in 1..Len(out) : out[i].key = "systemroot" THEN out ELSE Append(out, SystemRoot)
  BY <1>4 DEF AddCriticalEnv
<1>6. all \in Seq(S)
  BY <1>2, <1>3, <1>5, AppendProperties
<1> HIDE DEF all
<1>7. EnvBlock(all) = all
  <2>1. ~Contains(all, EmptyEntry)
    BY <1>6 DEF Contains, S
  <2> QED
    BY <2>1 DEF EnvBlock
<1>8. (\E i \in 1..Len(out) : out[i].key = "systemroot") <=> Of("systemroot", out) # <<>>
  BY <1>3, OfNone
<1>9. \A key : Of(key, Append(out, SystemRoot)) =
               IF key = "systemroot" THEN Append(Of(key, out), SystemRoot) ELSE Of(key, out)
  BY <1>2, <1>3, OfProperties
<1>10. ASSUME NEW key \in keys PROVE Of(key, all) = <<Last(Of(key, env))>>
  <2>1. key # NoKey /\ Of(key, env) # <<>>
    BY <1>1, <1>4, OfNone
  <2>2. Of(key, out) = <<Last(Of(key, env))>>
    BY <1>3, <2>1 DEF Newest
  <2>3. Of(key, all) = Of(key, out)
    BY <1>5, <1>8, <1>9, <2>2
  <2> QED
    BY <2>2, <2>3
<1>11. Len(Of("systemroot", all)) = 1
  <2>1. CASE Of("systemroot", out) # <<>>
    <3>1. Of("systemroot", out) = <<Last(Of("systemroot", env))>>
      BY <1>2, <1>3, <2>1 DEF Newest
    <3> QED
      BY <1>5, <1>8, <2>1, <3>1
  <2>2. CASE Of("systemroot", out) = <<>>
    <3>1. Of("systemroot", all) = Append(<<>>, SystemRoot)
      BY <1>5, <1>8, <1>9, <2>2
    <3> QED
      BY <3>1
  <2> QED
    BY <2>1, <2>2
<1>12. Of(NoKey, all) = Of(NoKey, env)
  BY <1>2, <1>3, <1>5, <1>9 DEF Newest
<1> QED
  BY <1>7, <1>10, <1>11, <1>12 DEF all, out

\* The child has what is made of the environment Spawn was given.
EnvInv ==
  child # "none" =>
    /\ asked \in Commands
    /\ started.env = EnvBlock(AddCriticalEnv(DedupEnvCase(asked.env)))

LEMMA EnvStep == EnvInv /\ [Next]_vars => EnvInv'
<1> SUFFICES ASSUME EnvInv, [Next]_vars PROVE EnvInv'
  OBVIOUS
<1>1. ASSUME NEW command \in Commands, Spawn(command) PROVE EnvInv'
  <2>1. CASE stage' = "spawned"
    <3>1. /\ asked' = command
          /\ started'.env = EnvBlock(AddCriticalEnv(DedupEnvCase(command.env)))
      BY <1>1, <2>1 DEF Spawn, Spawned
    <3> QED
      BY <3>1 DEF EnvInv
  <2>2. CASE stage' # "spawned"
    BY <1>1, <2>2 DEF Spawn, Spawned, EnvInv
  <2> QED
    BY <1>1, <2>1, <2>2 DEF Spawn, Spawned
<1>2. CASE ChildExits
  BY <1>2 DEF ChildExits, EnvInv
<1>3. CASE UNCHANGED childVars \/ UNCHANGED <<asked, child, started>>
  BY <1>3 DEF childVars, EnvInv
<1>4. CASE [\E cols, rows \in Sizes : CreatePipes(cols, rows) \/ Resize(cols, rows)]_vars
  BY <1>3, <1>4 DEF CreatePipes, Resize, vars, childVars
<1> QED
  BY <1>1, <1>2, <1>3, <1>4 DEF Next, CreatePseudoConsole, InitializeStartupInfo, FindProcess,
     CloseAttributes, CloseConsole, ClosePipes

\* exec_windows.go: whatever environment Spawn is given, the child sees each key once,
\* with its last value, a SYSTEMROOT, and all that has no key.
THEOREM EnvironmentIsRight == Spec => []EnvironmentRight
<1>1. Init => EnvInv
  BY DEF Init, EnvInv
<1>2. EnvInv => EnvironmentRight
  <2> SUFFICES ASSUME EnvInv, child # "none", ~Contains(asked.env, EmptyEntry)
               PROVE  EnvironmentRight
    BY DEF EnvironmentRight
  <2>1. asked.env \in Seq(Entries)
    BY EntriesAssumption DEF EnvInv
  <2>2. started.env = EnvBlock(AddCriticalEnv(DedupEnvCase(asked.env)))
    BY DEF EnvInv
  <2> QED
    BY <2>1, <2>2, EnvironmentLemma DEF EnvironmentRight
<1> QED
  BY <1>1, <1>2, EnvStep, PTL DEF Spec
=============================================================================
