----------------------- MODULE PassthroughPipe_proofs -----------------------
(***************************************************************************)
(* Proofs about PassthroughPipe, for every number of calls, of runes, and  *)
(* every size of the bufio.Reader: what the callers of ReadRune get, from  *)
(* one inductive invariant.                                                *)
(***************************************************************************)
EXTENDS PassthroughPipe, FiniteSetTheorems, TLAPS

\* Goroutines are started one per call.  Unless its call was abandoned, one
\* outlives its call only as "exited"; one that has read nothing holds 0.
CallsInv ==
  /\ abandoned \subseteq 1..cur
  /\ cpc = "select" => cur \in Calls \ abandoned
  /\ \A g \in Calls : g > cur => gpc[g] = "unborn"
  /\ \A g \in Calls \ abandoned : g < cur \/ (g = cur /\ cpc = "idle") => gpc[g] = "exited"
  /\ \A g \in Calls : gpc[g] \in {"unborn", "start", "loop", "inRead"} => val[g] = 0
  /\ (cpc = "select" /\ gpc[cur] = "exited") => val[cur] = 0
  /\ \A g \in Calls : val[g] <= fed
  /\ \A k \in Slots : buf[k] <= fed

\* A call on a closed pipe has a goroutine that will not read.
LateInv ==
  /\ late => closed
  /\ (late /\ cpc = "select") => gpc[cur] \in {"start", "exited"}

\* Two goroutines meet in the reader only after a call was abandoned, and
\* the program panics only after that.
TearInv == (overlap => abandoned # {}) /\ (cpc = "panicked" => overlap)

\* An error comes from a source that has been closed.
EndInv == rdErr \/ (\E g \in Calls : val[g] = EndOfSource) => srcClosed

\* One goroutine at a time reads; the buffer holds the runes fetched last.
LoneInv == \A g, h \in Calls : Inside(g) /\ Inside(h) => g = h
BufferInv ==
  /\ r <= w /\ w <= BufSize
  /\ \A g \in Calls : gpc[g] = "inRead" => r = 0 /\ w = 0
  /\ \A k \in Slots : r <= k /\ k < w => buf[k] = (fed - w) + k + 1

\* Each rune taken from the buffer has been delivered or has a holder: the
\* goroutine of the current call, or that of an abandoned call, for good.
Taken == fed - (w - r)
Holders == {g \in Calls : val[g] > 0 /\ (g \in abandoned \/ gpc[g] # "exited")}
AccountInv ==
  /\ Taken = Len(delivered) + Cardinality(Holders)
  /\ \A g \in Calls : val[g] <= Taken /\ (gpc[g] \in {"offer", "sending"} => val[g] # 0)
  /\ \A i \in 1..Len(delivered) : delivered[i] \in 1..Taken
  /\ \A i, j \in 1..Len(delivered) : i < j => delivered[i] < delivered[j]
  /\ (cpc = "select" /\ val[cur] > 0) => \A i \in 1..Len(delivered) : delivered[i] < val[cur]

\* The source's error comes up when the source has nothing else left.
ErrorInv ==
  /\ rdErr => srcClosed /\ fed = sent
  /\ \A g \in Calls : g = cur /\ gpc[g] \in {"offer", "sending"} /\ val[g] = EndOfSource
                      => srcClosed /\ fed = sent /\ r = w
  /\ last = "error" => srcClosed /\ Len(delivered) = sent

(***************************************************************************)
(* The inductive invariant.  What is said of the buffer and of each rune   *)
(* holds as long as no two goroutines have been in the reader at once.     *)
(***************************************************************************)
IInv ==
  /\ TypeOK /\ CallsInv /\ LateInv /\ NothingAfterClose /\ TearInv /\ EndInv
  /\ ~overlap => LoneInv /\ BufferInv /\ AccountInv
  /\ abandoned = {} => ErrorInv /\ InOrder

-----------------------------------------------------------------------------
USE BoundsAssumption, BufSizeAssumption DEF Calls, Slots, EndOfSource

LEMMA FiniteSets == /\ IsFiniteSet(Calls)
                    /\ \A S \in SUBSET Calls : IsFiniteSet(S) /\ Cardinality(S) \in Nat
<1>1. IsFiniteSet(Calls)
  BY FS_Interval
<1>2. QED
  BY <1>1, FS_Subset, FS_CardinalityType

\* NewPassthroughPipe establishes the invariant.
LEMMA InitInv == Init => IInv
<1> SUFFICES ASSUME Init PROVE IInv
  OBVIOUS
<1>1. TypeOK
  <2> USE DEF Init
  <2>1. /\ buf \in [Slots -> 0..MaxSent] /\ val \in [Calls -> {EndOfSource} \cup 0..MaxSent]
        /\ gpc \in [Calls -> {"unborn", "start", "loop", "inRead", "offer", "sending", "exited"}]
    OBVIOUS
  <2>2. delivered \in Seq(0..MaxSent) /\ abandoned \subseteq Calls
    OBVIOUS
  <2>3. sent \in 0..MaxSent /\ fed \in 0..sent /\ r \in Nat /\ w \in Nat /\ cur \in 0..MaxCalls
    OBVIOUS
  <2>4. QED
    BY <2>1, <2>2, <2>3, Zenon DEF TypeOK
<1>2. CallsInv /\ LateInv /\ NothingAfterClose /\ TearInv /\ EndInv
  BY DEF Init, CallsInv, LateInv, NothingAfterClose, TearInv, EndInv
<1>3. LoneInv /\ BufferInv /\ ErrorInv /\ InOrder
  BY DEF Init, LoneInv, Inside, BufferInv, ErrorInv, InOrder
<1>4. AccountInv
  <2>1. Holders = {} /\ Cardinality({}) = 0
    BY FS_EmptySet DEF Init, Holders
  <2>2. QED
    BY <2>1 DEF Init, AccountInv, Taken
<1>5. QED
  BY <1>1, <1>2, <1>3, <1>4 DEF IInv

\* The source, the clock and the user's Close preserve it.
LEMMA EnvironmentInv == IInv /\ (SourceWrite \/ SourceClose \/ Expire \/ Close) => IInv'
<1> SUFFICES ASSUME IInv, SourceWrite \/ SourceClose \/ Expire \/ Close PROVE IInv'
  OBVIOUS
<1> USE DEF IInv, sourceVars, readerVars, pipeVars, callVars, goVars
<1>1. /\ UNCHANGED <<readerVars, callVars, goVars>>
      /\ srcClosed => srcClosed' /\ sent' = sent
      /\ closed => closed'
  BY DEF SourceWrite, SourceClose, Expire, Close, TypeOK
<1>2. TypeOK'
  <2>1. CASE SourceWrite
    BY <2>1 DEF TypeOK, SourceWrite
  <2>2. CASE SourceClose
    BY <2>2 DEF TypeOK, SourceClose
  <2>3. CASE Expire
    BY <2>3 DEF TypeOK, Expire
  <2>4. CASE Close
    BY <2>4 DEF TypeOK, Close
  <2>5. QED
    BY <2>1, <2>2, <2>3, <2>4
<1>3. CallsInv' /\ LateInv' /\ NothingAfterClose' /\ TearInv' /\ EndInv'
  BY <1>1 DEF CallsInv, LateInv, NothingAfterClose, TearInv, EndInv
<1>4. ASSUME ~overlap' PROVE (LoneInv /\ BufferInv /\ AccountInv)'
  BY <1>1, <1>4 DEF LoneInv, Inside, BufferInv, AccountInv, Taken, Holders
<1>5. ASSUME abandoned' = {} PROVE (ErrorInv /\ InOrder)'
  BY <1>1, <1>5 DEF ErrorInv, InOrder
<1>6. QED
  BY <1>2, <1>3, <1>4, <1>5

\* A goroutine that is alive is the current one, or its call was abandoned.
LEMMA Current ==
  ASSUME IInv, Running, NEW g \in Calls \ abandoned, gpc[g] \notin {"unborn", "exited"}
  PROVE  g = cur /\ cpc = "select"
BY DEF IInv, TypeOK, CallsInv, Running

LEMMA Ranges ==
  ASSUME IInv
  PROVE  /\ fed \in Nat
         /\ \A k \in Slots : buf[k] \in Nat /\ buf[k] <= fed
         /\ \A g \in Calls : val[g] \in Int /\ val[g] <= fed
BY DEF IInv, TypeOK, CallsInv

\* The steps of a goroutine that take no rune leave the holders as they are.
LEMMA SameHolders ==
  ASSUME IInv, NEW g \in Calls,
         Check(g) \/ EnterFill(g) \/ ReadData(g) \/ ReadErr(g) \/ TakeErr(g) \/ Offer(g)
  PROVE  Holders' = Holders
<1> USE DEF IInv, Goes, TypeOK, CallsInv, callVars
<1>1. gpc'[g] # "exited" \/ val'[g] <= 0 \/ g \in abandoned
  <2>1. CASE Check(g)
    BY <2>1 DEF Check
  <2>2. CASE Offer(g)
    BY <2>2, Current DEF Offer, Offered, CallerGone
  <2>3. CASE EnterFill(g) \/ ReadData(g) \/ ReadErr(g) \/ TakeErr(g)
    BY <2>3 DEF EnterFill, ReadData, ReadErr, TakeErr
  <2>4. QED
    BY <2>1, <2>2, <2>3
<1>2. val'[g] = val[g] \/ (val[g] = 0 /\ val'[g] = -1)
  BY DEF Check, EnterFill, ReadData, ReadErr, TakeErr, Offer
<1>3. gpc[g] # "exited" /\ abandoned' = abandoned
  BY DEF Check, EnterFill, ReadData, ReadErr, TakeErr, Offer
<1>4. \A h \in Calls : h # g => val'[h] = val[h] /\ gpc'[h] = gpc[h]
  BY DEF Check, EnterFill, ReadData, ReadErr, TakeErr, Offer
<1>6. \A h \in Calls : (val'[h] > 0 /\ (h \in abandoned \/ gpc'[h] # "exited"))
                       <=> (val[h] > 0 /\ (h \in abandoned \/ gpc[h] # "exited"))
  <2> TAKE h \in Calls
  <2>1. CASE h # g
    BY <2>1, <1>4
  <2>2. CASE h = g
    BY <2>2, <1>1, <1>2, <1>3
  <2>3. QED
    BY <2>1, <2>2
<1>7. QED
  BY <1>3, <1>6 DEF Holders

\* So does every step of a goroutine that ReadRune has started.
LEMMA ReaderInv == ASSUME IInv, NEW g \in Calls, Reader(g) PROVE IInv'
<1> USE DEF IInv, sourceVars, readerVars, pipeVars, callVars, goVars, Goes
<1>0. Running /\ (abandoned = {} => ~overlap)
  BY DEF Reader, Check, EnterFill, ReadData, ReadErr, Take, TakeErr, IndexPanic, Offer, TearInv
<1>1. CASE Check(g)
  <2> USE <1>1 DEF Check, Expired
  <2>1. TypeOK' /\ CallsInv' /\ LateInv' /\ NothingAfterClose' /\ EndInv'
    <3>1. TypeOK'
      BY DEF TypeOK
    <3>2. CallsInv'
      BY SMTT(40) DEF TypeOK, CallsInv
    <3>3. LateInv' /\ NothingAfterClose' /\ EndInv'
      BY SMTT(40) DEF TypeOK, LateInv, NothingAfterClose, EndInv
    <3> QED
      BY <3>1, <3>2, <3>3
  <2>2. TearInv'
    <3> SUFFICES ASSUME abandoned = {}, overlap' PROVE FALSE
      BY DEF TypeOK, TearInv
    <3>1. PICK h \in Calls : Inside(h)
      BY <1>0
    <3>2. g = cur /\ h = cur
      BY <1>0, <3>1, Current DEF Inside
    <3>3. QED
      BY <3>1, <3>2 DEF Inside
  <2>3. ASSUME ~overlap' PROVE (LoneInv /\ BufferInv /\ AccountInv)'
    <3>1. LoneInv' /\ BufferInv'
      BY <2>3 DEF TypeOK, LoneInv, Inside, BufferInv
    <3>2. AccountInv'
      BY <2>3, SameHolders DEF TypeOK, AccountInv, Taken
    <3>3. QED
      BY <3>1, <3>2
  <2>4. ASSUME abandoned' = {} PROVE (ErrorInv /\ InOrder)'
    BY <2>4 DEF TypeOK, ErrorInv, InOrder
  <2>5. QED
    BY <2>1, <2>2, <2>3, <2>4
<1>2. CASE EnterFill(g)
  <2> USE <1>2 DEF EnterFill
  <2>0. TypeOK' /\ CallsInv'
    BY SMTT(40) DEF TypeOK, CallsInv
  <2>1. TypeOK' /\ CallsInv' /\ LateInv' /\ NothingAfterClose' /\ TearInv' /\ EndInv'
    BY <2>0 DEF TypeOK, LateInv, NothingAfterClose, TearInv, EndInv
  <2>2. ASSUME ~overlap' PROVE (LoneInv /\ BufferInv /\ AccountInv)'
    <3>1. LoneInv' /\ BufferInv'
      BY <2>2 DEF TypeOK, LoneInv, Inside, BufferInv
    <3>2. Taken' = Taken
      BY DEF TypeOK, Taken
    <3>3. AccountInv'
      BY <2>2, <3>2, SameHolders DEF TypeOK, AccountInv
    <3>4. QED
      BY <3>1, <3>3
  <2>3. ASSUME abandoned' = {} PROVE (ErrorInv /\ InOrder)'
    BY <2>3 DEF TypeOK, ErrorInv, InOrder
  <2>4. QED
    BY <2>1, <2>2, <2>3
<1>3. CASE ReadData(g)
  <2> PICK n \in 1..BufSize :
        /\ n <= sent - fed
        /\ buf' = [k \in Slots |-> IF k < n THEN fed + k + 1 ELSE buf[k]]
        /\ w' \in {w + n, n}
        /\ fed' = fed + n
    BY <1>3 DEF ReadData
  <2> USE <1>3 DEF ReadData
  <2>1. TypeOK'
    BY DEF TypeOK
  <2>2. CallsInv' /\ LateInv' /\ NothingAfterClose' /\ TearInv' /\ EndInv'
    <3>1. \A h \in Calls : val'[h] <= fed'
      <4>1. \A h \in Calls : val[h] \in Int /\ val[h] <= fed
        BY Ranges
      <4>2. fed \in Nat
        BY Ranges
      <4>3. QED
        BY <4>1, <4>2
    <3>2. \A k \in Slots : buf'[k] <= fed'
      <4>1. fed \in Nat /\ \A k \in Slots : buf[k] \in Nat /\ buf[k] <= fed
        BY Ranges
      <4>2. QED
        BY <4>1
    <3>3. CallsInv'
      BY <3>1, <3>2 DEF TypeOK, CallsInv
    <3>4. QED
      BY <3>3 DEF TypeOK, LateInv, NothingAfterClose, TearInv, EndInv
  <2>3. ASSUME ~overlap' PROVE (LoneInv /\ BufferInv /\ AccountInv)'
    <3> USE <2>3
    <3>1. r = 0 /\ w = 0 /\ w' = n /\ r' = 0
      BY DEF TypeOK, BufferInv
    <3>2. LoneInv' /\ \A h \in Calls : gpc'[h] # "inRead"
      BY DEF TypeOK, LoneInv, Inside
    <3>3. BufferInv'
      <4>1. \A k \in Slots : r' <= k /\ k < w' => buf'[k] = (fed' - w') + k + 1
        BY <3>1 DEF TypeOK
      <4>2. r' <= w' /\ w' <= BufSize
        BY <3>1
      <4>3. QED
        BY <4>1, <4>2, <3>2 DEF BufferInv
    <3>4. Taken' = Taken
      BY <3>1 DEF TypeOK, Taken
    <3>5. AccountInv'
      BY <3>4, SameHolders DEF TypeOK, AccountInv
    <3>6. QED
      BY <3>2, <3>3, <3>5
  <2>4. ASSUME abandoned' = {} PROVE (ErrorInv /\ InOrder)'
    BY <2>4, <1>0, Current DEF TypeOK, ErrorInv, InOrder
  <2>5. QED
    BY <2>1, <2>2, <2>3, <2>4
<1>4. CASE ReadErr(g)
  <2> USE <1>4 DEF ReadErr
  <2>1. TypeOK' /\ CallsInv' /\ LateInv' /\ NothingAfterClose' /\ TearInv' /\ EndInv'
    BY SMTT(40) DEF TypeOK, CallsInv, LateInv, NothingAfterClose, TearInv, EndInv
  <2>2. ASSUME ~overlap' PROVE (LoneInv /\ BufferInv /\ AccountInv)'
    <3>1. LoneInv' /\ BufferInv'
      BY <2>2 DEF TypeOK, LoneInv, Inside, BufferInv
    <3>2. AccountInv'
      BY <2>2, SameHolders DEF TypeOK, AccountInv, Taken
    <3>3. QED
      BY <3>1, <3>2
  <2>3. ASSUME abandoned' = {} PROVE (ErrorInv /\ InOrder)'
    BY <2>3 DEF TypeOK, ErrorInv, InOrder
  <2>4. QED
    BY <2>1, <2>2, <2>3
<1>5. CASE Take(g)
  <2> USE <1>5 DEF Take
  <2>0. r \in Slots /\ val[g] = 0
    BY DEF TypeOK, CallsInv
  <2>1. TypeOK' /\ CallsInv'
    <3>1. TypeOK'
      BY <2>0 DEF TypeOK
    <3>2. \A h \in Calls : h # g => val'[h] = val[h] /\ gpc'[h] = gpc[h]
      BY DEF TypeOK
    <3>3. gpc'[g] = "offer" /\ gpc[g] = "loop" /\ val'[g] = buf[r]
      BY DEF TypeOK
    <3>4. \A h \in Calls : val'[h] <= fed'
      BY <2>0, <3>2, <3>3, Ranges
    <3>5. CallsInv'
      BY <3>2, <3>3, <3>4 DEF CallsInv
    <3>6. QED
      BY <3>1, <3>5
  <2>2. LateInv' /\ NothingAfterClose' /\ TearInv' /\ EndInv'
    <3>1. \A h \in Calls : val'[h] = EndOfSource => val[h] = EndOfSource
      BY <2>0 DEF TypeOK
    <3>2. QED
      BY SMTT(40), <3>1 DEF TypeOK, LateInv, NothingAfterClose, TearInv, EndInv
  <2>3. ASSUME ~overlap' PROVE (LoneInv /\ BufferInv /\ AccountInv)'
    <3> USE <2>3
    <3>1. LoneInv' /\ BufferInv'
      BY DEF TypeOK, LoneInv, Inside, BufferInv
    <3>2. /\ Taken \in Nat /\ Taken' = Taken + 1 /\ val'[g] = Taken'
          /\ \A h \in Calls : h # g => val'[h] = val[h]
      <4>1. Cardinality(Holders) \in Nat
        BY FiniteSets DEF Holders
      <4>2. Taken \in Nat
        BY <4>1 DEF AccountInv, TypeOK
      <4>3. QED
        BY <4>2, <2>0 DEF TypeOK, BufferInv, Taken
    <3>3. Holders' = Holders \cup {g} /\ g \notin Holders
      BY <3>2, <2>0 DEF TypeOK, Holders
    <3>4. Cardinality(Holders') = Cardinality(Holders) + 1 /\ Cardinality(Holders) \in Nat
      <4>1. IsFiniteSet(Holders) /\ Cardinality(Holders) \in Nat
        BY FiniteSets DEF Holders
      <4>2. QED
        BY <3>3, <4>1, FS_AddElement
    <3>5. Taken' = Len(delivered') + Cardinality(Holders')
      <4>1. Taken = Len(delivered) + Cardinality(Holders) /\ Len(delivered) \in Nat
        BY DEF AccountInv, TypeOK
      <4>2. QED
        BY <3>2, <3>4, <4>1
    <3>6. \A h \in Calls : val'[h] <= Taken' /\ (gpc'[h] \in {"offer", "sending"} => val'[h] # 0)
      <4>1. \A h \in Calls : val[h] \in Int /\ val[h] <= Taken
                             /\ (gpc[h] \in {"offer", "sending"} => val[h] # 0)
        BY DEF AccountInv, TypeOK
      <4>2. \A h \in Calls : h # g => gpc'[h] = gpc[h]
        BY DEF TypeOK
      <4>3. QED
        BY <3>2, <4>1, <4>2
    <3>7. /\ \A i \in 1..Len(delivered') : delivered'[i] \in 1..Taken'
          /\ \A i \in 1..Len(delivered') : delivered'[i] < Taken'
          /\ \A i, j \in 1..Len(delivered') : i < j => delivered'[i] < delivered'[j]
      <4>1. /\ \A i \in 1..Len(delivered) : delivered[i] \in 1..Taken
            /\ \A i, j \in 1..Len(delivered) : i < j => delivered[i] < delivered[j]
        BY DEF AccountInv
      <4>2. QED
        BY <3>2, <4>1
    <3>8. QED
      BY <3>1, <3>2, <3>5, <3>6, <3>7 DEF AccountInv, CallsInv
  <2>4. ASSUME abandoned' = {} PROVE (ErrorInv /\ InOrder)'
    <3>1. g = cur
      BY <2>4, <1>0, Current
    <3>2. val'[g] > 0
      BY <2>4, <1>0, <2>3, FiniteSets DEF AccountInv, TypeOK, BufferInv, Taken, Holders
    <3>3. QED
      BY <2>4, <3>1, <3>2 DEF TypeOK, ErrorInv, InOrder
  <2>5. QED
    BY <2>1, <2>2, <2>3, <2>4
<1>6. CASE TakeErr(g)
  <2> USE <1>6 DEF TakeErr
  <2>0. TypeOK' /\ LateInv' /\ NothingAfterClose' /\ TearInv' /\ EndInv'
    <3>1. TypeOK'
      <4>1. /\ val' \in [Calls -> {-1} \cup 0..MaxSent]
            /\ gpc' \in [Calls -> {"unborn", "start", "loop", "inRead", "offer",
                                  "sending", "exited"}]
        BY DEF TypeOK
      <4>2. QED
        BY ZenonT(60), <4>1 DEF TypeOK
    <3>2. QED
      BY SMTT(40), <3>1 DEF TypeOK, LateInv, NothingAfterClose, TearInv, EndInv
  <2>1. CallsInv'
    BY DEF TypeOK, CallsInv
  <2>2. ASSUME ~overlap' PROVE (LoneInv /\ BufferInv /\ AccountInv)'
    <3>1. LoneInv' /\ BufferInv'
      BY <2>2 DEF TypeOK, LoneInv, Inside, BufferInv
    <3>2. \A h \in Calls : /\ h # g => val'[h] = val[h] /\ gpc'[h] = gpc[h]
                           /\ h = g => val'[h] = -1 /\ val[h] = 0
      BY DEF TypeOK, CallsInv
    <3>3. Taken' = Taken /\ Taken \in Nat
      BY <2>2, FiniteSets DEF Taken, AccountInv, TypeOK, Holders
    <3>4. \A h \in Calls : val'[h] <= Taken' /\ (gpc'[h] \in {"offer", "sending"} => val'[h] # 0)
      BY <2>2, <3>2, <3>3 DEF AccountInv
    <3>5. (cpc = "select" /\ val'[cur] > 0) =>
             \A i \in 1..Len(delivered) : delivered[i] < val'[cur]
      BY <2>2, <3>2 DEF AccountInv, CallsInv
    <3>6. AccountInv'
      BY <2>2, <3>3, <3>4, <3>5, SameHolders DEF AccountInv
    <3>7. QED
      BY <3>1, <3>6
  <2>3. ASSUME abandoned' = {} PROVE (ErrorInv /\ InOrder)'
    BY <2>3 DEF TypeOK, ErrorInv, InOrder
  <2>4. QED
    BY <2>0, <2>1, <2>2, <2>3
<1>7. CASE IndexPanic(g)
  <2> USE <1>7 DEF IndexPanic
  <2>1. overlap
    BY DEF TypeOK, BufferInv
  <2>2. TypeOK' /\ CallsInv' /\ LateInv' /\ NothingAfterClose' /\ TearInv' /\ EndInv'
    BY <2>1 DEF TypeOK, CallsInv, LateInv, NothingAfterClose, TearInv, EndInv
  <2>3. QED
    BY <2>1, <2>2 DEF TearInv
<1>8. CASE Offer(g)
  <2> USE <1>8 DEF Offer, Offered, CallerGone
  <2>1. TypeOK' /\ LateInv' /\ NothingAfterClose' /\ TearInv' /\ EndInv'
    BY DEF TypeOK, LateInv, NothingAfterClose, TearInv, EndInv
  <2>2. CallsInv'
    BY DEF TypeOK, CallsInv
  <2>3. ASSUME ~overlap' PROVE (LoneInv /\ BufferInv /\ AccountInv)'
    <3>1. LoneInv' /\ BufferInv'
      BY <2>3 DEF TypeOK, LoneInv, Inside, BufferInv
    <3>2. AccountInv'
      BY <2>3, SameHolders DEF TypeOK, AccountInv, Taken
    <3>3. QED
      BY <3>1, <3>2
  <2>4. ASSUME abandoned' = {} PROVE (ErrorInv /\ InOrder)'
    BY <2>4 DEF TypeOK, ErrorInv, InOrder
  <2>5. QED
    BY <2>1, <2>2, <2>3, <2>4
<1>9. QED
  BY <1>1, <1>2, <1>3, <1>4, <1>5, <1>6, <1>7, <1>8 DEF Reader

\* So do the beginning of a call and each of the ways it may end.
LEMMA CallerInv == IInv /\ (CallReadRune \/ Recv) => IInv'
<1> SUFFICES ASSUME IInv, CallReadRune \/ Recv PROVE IInv'
  OBVIOUS
<1> USE DEF IInv, sourceVars, readerVars, pipeVars, callVars, goVars, Returns, GivesUp
<1>1. CASE CallReadRune
  <2> USE <1>1 DEF CallReadRune, SetReadDeadline
  <2>1. TypeOK' /\ CallsInv' /\ LateInv' /\ NothingAfterClose' /\ TearInv' /\ EndInv'
    BY DEF TypeOK, CallsInv, LateInv, NothingAfterClose, TearInv, EndInv
  <2>2. /\ cur + 1 \in Calls /\ val[cur + 1] = 0
        /\ \A h \in Calls : h # cur + 1 => gpc'[h] = gpc[h]
        /\ gpc'[cur + 1] = "start" /\ gpc[cur + 1] = "unborn"
    BY DEF TypeOK, CallsInv
  <2>3. Holders' = Holders
    BY <2>2 DEF Holders
  <2>4. ASSUME ~overlap' PROVE (LoneInv /\ BufferInv /\ AccountInv)'
    <3>1. LoneInv' /\ BufferInv'
      BY <2>2, <2>4 DEF LoneInv, Inside, BufferInv
    <3>2. AccountInv'
      BY <2>2, <2>3, <2>4 DEF AccountInv, Taken
    <3>3. QED
      BY <3>1, <3>2
  <2>5. ASSUME abandoned' = {} PROVE (ErrorInv /\ InOrder)'
    BY <2>2, <2>5 DEF ErrorInv, InOrder
  <2>6. QED
    BY <2>1, <2>4, <2>5
<1>2. CASE RecvRune
  <2> USE <1>2 DEF RecvRune, IsError
  <2>1. cur \in Calls \ abandoned /\ val[cur] \in 0..MaxSent
    BY DEF TypeOK, CallsInv
  <2>2. TypeOK'
    BY SMTT(40), <2>1 DEF TypeOK
  <2>3. CallsInv' /\ LateInv' /\ NothingAfterClose' /\ TearInv' /\ EndInv'
    BY <2>1 DEF TypeOK, CallsInv, LateInv, NothingAfterClose, TearInv, EndInv
  <2>4. ASSUME ~overlap' PROVE (LoneInv /\ BufferInv /\ AccountInv)'
    <3> USE <2>4
    <3>1. LoneInv' /\ BufferInv'
      BY <2>1 DEF TypeOK, LoneInv, Inside, BufferInv
    <3>2. val[cur] \in 1..Taken /\ Taken' = Taken
      BY <2>1 DEF TypeOK, AccountInv, Taken
    <3>3. Holders' = Holders \ {cur} /\ cur \in Holders
      BY <2>1, <3>2 DEF TypeOK, Holders
    <3>4. Cardinality(Holders') = Cardinality(Holders) - 1 /\ Cardinality(Holders) \in Nat
      <4>1. IsFiniteSet(Holders) /\ Cardinality(Holders) \in Nat
        BY FiniteSets DEF Holders
      <4>2. QED
        BY <3>3, <4>1, FS_RemoveElement
    <3>5. /\ Len(delivered') = Len(delivered) + 1
          /\ \A i \in 1..Len(delivered) : delivered'[i] = delivered[i]
          /\ delivered'[Len(delivered')] = val[cur]
      BY <2>1 DEF TypeOK
    <3>6. Taken' = Len(delivered') + Cardinality(Holders')
      <4>1. Taken = Len(delivered) + Cardinality(Holders) /\ Len(delivered) \in Nat
        BY DEF AccountInv, TypeOK
      <4>2. QED
        BY <3>2, <3>4, <3>5, <4>1
    <3>7. \A i \in 1..Len(delivered) : delivered[i] < val[cur]
      BY SMTT(40), <3>2, <2>1 DEF AccountInv, TypeOK
    <3>8. /\ \A i \in 1..Len(delivered') : delivered'[i] \in 1..Taken'
          /\ \A i, j \in 1..Len(delivered') : i < j => delivered'[i] < delivered'[j]
      BY <3>2, <3>5, <3>7 DEF AccountInv, TypeOK
    <3>9. \A h \in Calls : /\ val'[h] <= Taken'
                           /\ gpc'[h] \in {"offer", "sending"} => val'[h] # 0
      BY <3>2, <2>1 DEF AccountInv, TypeOK
    <3>10. QED
      BY <3>1, <3>6, <3>8, <3>9 DEF AccountInv
  <2>5. ASSUME abandoned' = {} PROVE (ErrorInv /\ InOrder)'
    <3> USE <2>5
    <3>1. ~overlap
      BY DEF TearInv
    <3>2. Holders = {cur}
      <4>1. val[cur] > 0
        BY <2>1, <3>1 DEF AccountInv
      <4>2. \A h \in Calls : val[h] > 0 /\ gpc[h] # "exited" => h = cur
        BY <2>1 DEF CallsInv, TypeOK
      <4>3. QED
        BY <2>1, <4>1, <4>2 DEF Holders
    <3>3. Taken = Len(delivered) + 1
      BY <3>1, <3>2, FS_Singleton DEF AccountInv, TypeOK
    <3>4. val[cur] = Len(delivered) + 1
      <4>1. val[cur] \in 1..Len(delivered) + 1
        BY <2>1, <3>1, <3>3 DEF AccountInv, TypeOK
      <4>2. /\ \A i \in 1..Len(delivered) : delivered[i] = i
            /\ \A i \in 1..Len(delivered) : delivered[i] < val[cur]
            /\ Len(delivered) \in Nat
        BY SMTT(40), <3>1, <4>1 DEF InOrder, AccountInv, TypeOK
      <4>3. QED
        BY <4>1, <4>2
    <3>5. InOrder'
      BY <2>1, <3>4 DEF InOrder, TypeOK
    <3>6. ErrorInv'
      BY <2>1 DEF TypeOK, ErrorInv
    <3>7. QED
      BY <3>5, <3>6
  <2>6. QED
    BY <2>2, <2>3, <2>4, <2>5
<1>3. CASE RecvError
  <2> USE <1>3 DEF RecvError, IsError
  <2>1. cur \in Calls \ abandoned /\ val[cur] = -1
    BY DEF TypeOK, CallsInv
  <2>2. TypeOK' /\ CallsInv' /\ LateInv' /\ NothingAfterClose' /\ TearInv' /\ EndInv'
    BY <2>1 DEF TypeOK, CallsInv, LateInv, NothingAfterClose, TearInv, EndInv
  <2>3. Holders' = Holders
    BY <2>1 DEF TypeOK, Holders
  <2>4. ASSUME ~overlap' PROVE (LoneInv /\ BufferInv /\ AccountInv)'
    <3>1. LoneInv' /\ BufferInv'
      BY <2>1, <2>4 DEF TypeOK, LoneInv, Inside, BufferInv
    <3>2. AccountInv'
      BY <2>1, <2>3, <2>4 DEF TypeOK, AccountInv, Taken
    <3>3. QED
      BY <3>1, <3>2
  <2>5. ASSUME abandoned' = {} PROVE (ErrorInv /\ InOrder)'
    <3> USE <2>5
    <3>1. ~overlap
      BY DEF TearInv
    <3>2. Holders = {}
      BY <2>1 DEF Holders, TypeOK, CallsInv
    <3>3. Taken = Len(delivered)
      BY <3>1, <3>2, FS_EmptySet DEF AccountInv, TypeOK
    <3>4. QED
      BY <2>1, <3>3 DEF TypeOK, ErrorInv, InOrder, Taken
  <2>6. QED
    BY <2>2, <2>4, <2>5
<1>4. CASE RecvClosed
  <2> USE <1>4 DEF RecvClosed
  <2>1. TypeOK' /\ CallsInv' /\ LateInv' /\ NothingAfterClose' /\ TearInv' /\ EndInv'
    BY DEF TypeOK, CallsInv, LateInv, NothingAfterClose, TearInv, EndInv
  <2>2. ASSUME ~overlap' PROVE (LoneInv /\ BufferInv /\ AccountInv)'
    BY <2>2 DEF LoneInv, Inside, BufferInv, AccountInv, Taken, Holders
  <2>3. ASSUME abandoned' = {} PROVE (ErrorInv /\ InOrder)'
    BY <2>3 DEF ErrorInv, InOrder
  <2>4. QED
    BY <2>1, <2>2, <2>3
<1>5. CASE RecvDone \/ RecvTimer
  <2> USE <1>5 DEF RecvDone, RecvTimer
  <2>1. cur \in Calls /\ abandoned' # {}
    BY DEF CallsInv
  <2>2. TypeOK'
    BY <2>1 DEF TypeOK
  <2>3. CallsInv' /\ LateInv' /\ NothingAfterClose' /\ TearInv' /\ EndInv'
    <3>1. abandoned' = abandoned \cup {cur} /\ cpc' = "idle"
      OBVIOUS
    <3>2. CallsInv'
      BY SMTT(40), <2>1, <3>1 DEF TypeOK, CallsInv
    <3>3. QED
      BY <2>1, <3>2 DEF LateInv, NothingAfterClose, TearInv, EndInv
  <2>4. Holders' = Holders
    BY SMTT(40), <2>1 DEF TypeOK, CallsInv, Holders
  <2>5. ASSUME ~overlap' PROVE (LoneInv /\ BufferInv /\ AccountInv)'
    BY <2>4, <2>5 DEF LoneInv, Inside, BufferInv, AccountInv, Taken
  <2>6. QED
    BY <2>1, <2>2, <2>3, <2>5
<1>6. QED
  BY <1>1, <1>2, <1>3, <1>4, <1>5 DEF Recv

\* So does doing nothing.
LEMMA StutterInv == IInv /\ UNCHANGED vars => IInv'
BY SMTT(40) DEF IInv, TypeOK, CallsInv, LateInv, NothingAfterClose, TearInv, EndInv, LoneInv, Inside, BufferInv,
       AccountInv, Taken, Holders, ErrorInv, InOrder,
       vars, sourceVars, readerVars, pipeVars, callVars, goVars

(***************************************************************************)
(* The invariant holds in every reachable state.                           *)
(***************************************************************************)
THEOREM Invariance == Spec => []IInv
<1>1. Init => IInv
  BY InitInv
<1>2. IInv /\ [Next]_vars => IInv'
  BY EnvironmentInv, ReaderInv, CallerInv, StutterInv DEF Next
<1>3. QED
  BY <1>1, <1>2, PTL DEF Spec

-----------------------------------------------------------------------------
(* The properties of PassthroughPipe.                                       *)

\* Type correctness.
THEOREM TypeCorrect == Spec => []TypeOK
<1>1. IInv => TypeOK
  BY DEF IInv
<1>2. QED
  BY <1>1, Invariance, PTL

\* What is read is what was written, in order, nothing twice or left out.
THEOREM DeliversInOrder == Spec => []InOrder
<1>1. IInv => InOrder
  BY DEF IInv, InOrder
<1>2. QED
  BY <1>1, Invariance, PTL

\* A pipe that was closed before the call yields nothing of the source.
THEOREM ClosedPipeIsSilent == Spec => []NothingAfterClose
<1>1. IInv => NothingAfterClose
  BY DEF IInv
<1>2. QED
  BY <1>1, Invariance, PTL

\* The error of the source comes after all of its runes.
THEOREM ErrorComesLast == Spec => []ErrorAfterData
<1>1. IInv => ErrorAfterData
  BY DEF IInv, ErrorInv, ErrorAfterData
<1>2. QED
  BY <1>1, Invariance, PTL

\* The unlocked bufio.Reader has one user, and its indices keep their bounds,
\* unless a call was abandoned.
THEOREM ReadsAlone == Spec => []SoleReader
<1>1. ASSUME IInv, ~overlap PROVE Cardinality({g \in Calls : Inside(g)}) <= 1
  <2> DEFINE S == {g \in Calls : Inside(g)}
  <2>1. CASE S = {}
    BY <2>1, FS_EmptySet
  <2>2. CASE S # {}
    <3>1. PICK g \in S : TRUE
      BY <2>2
    <3>2. S = {g}
      BY <1>1, <3>1 DEF IInv, LoneInv
    <3>3. QED
      BY <3>2, FS_Singleton
  <2>3. QED
    BY <2>1, <2>2
<1>2. IInv => SoleReader
  BY <1>1 DEF IInv, BufferInv, TearInv, SoleReader
<1>3. QED
  BY <1>2, Invariance, PTL

\* An abandoned call costs at most one rune and never the order of the others.
THEOREM LosesLittle == Spec => []LossBounded
<1>1. ASSUME IInv, ~overlap PROVE Lost \in 0..Cardinality(abandoned)
  <2> USE <1>1 DEF IInv
  <2> DEFINE Kept == Holders \cap abandoned
  <2>1. /\ \A g \in Calls : val[g] > 0 <=> val[g] \notin {0, EndOfSource}
        /\ \A g \in Calls : gpc[g] \in {"offer", "sending"} => val[g] # 0
    BY DEF TypeOK, AccountInv
  <2>2. \A g \in Calls : ~CallerGone(g) <=> g = cur /\ cpc = "select"
    BY DEF CallerGone
  <2>3. Held \subseteq Holders /\ Held \cap abandoned = {}
    BY <2>1, <2>2 DEF Held, Holders, CallsInv
  <2>4. \A g \in Holders : g \in abandoned \/ g \in Held \/ cpc = "panicked"
    BY <2>1, <2>2, Current DEF Running, Held, Holders, CallsInv, TypeOK
  <2>5. cpc # "panicked"
    BY DEF TearInv
  <2>6. Holders = Held \cup Kept /\ Held \cap Kept = {}
    BY <2>3, <2>4, <2>5
  <2>7. /\ IsFiniteSet(Held) /\ IsFiniteSet(Kept) /\ IsFiniteSet(abandoned)
        /\ Kept \in SUBSET abandoned
    BY FiniteSets, <2>3 DEF Holders, TypeOK
  <2>8. Cardinality(Holders) = Cardinality(Held) + Cardinality(Kept)
    <3>1. Cardinality(Held \cup Kept)
             = Cardinality(Held) + Cardinality(Kept) - Cardinality(Held \cap Kept)
      BY <2>7, FS_Union
    <3>2. Cardinality(Held) \in Nat /\ Cardinality(Kept) \in Nat
      BY <2>7, FS_CardinalityType
    <3>3. QED
      BY <2>6, <3>1, <3>2, FS_EmptySet
  <2>9. /\ Cardinality(Held) \in Nat /\ Cardinality(Kept) \in Nat
        /\ Cardinality(abandoned) \in Nat /\ Cardinality(Kept) <= Cardinality(abandoned)
    BY <2>7, FS_CardinalityType, FS_Subset
  <2>10. Taken = Len(delivered) + Cardinality(Holders) /\ Len(delivered) \in Nat
    BY DEF AccountInv, TypeOK
  <2>11. Lost = Cardinality(Kept)
    BY <2>8, <2>9, <2>10 DEF Lost, Taken
  <2>12. QED
    BY <2>9, <2>11
<1>2. IInv => LossBounded
  BY <1>1 DEF IInv, AccountInv, LossBounded
<1>3. QED
  BY <1>2, Invariance, PTL

-----------------------------------------------------------------------------
(* The pipe implements a RuneStream.                                        *)

\* Cardinality(abandoned), which stands for the calls that gave up, is a
\* number; it is 0 only if there are none, and grows by one with each.
LEMMA Missed ==
  ASSUME IInv
  PROVE  /\ Cardinality(abandoned) \in Nat
         /\ Cardinality(abandoned) = 0 <=> abandoned = {}
         /\ \A g \in Calls \ abandoned :
              Cardinality(abandoned \cup {g}) = Cardinality(abandoned) + 1
<1>1. IsFiniteSet(abandoned)
  BY FiniteSets DEF IInv, TypeOK
<1>2. QED
  BY <1>1, FS_CardinalityType, FS_EmptySet, FS_AddElement

\* Each step of a goroutine is a step of the stream or none at all.
LEMMA ReaderImplements ==
  ASSUME IInv, NEW g \in Calls, Reader(g) PROVE [Stream!Next]_Stream!streamVars
<1> USE DEF Goes, IndexPanic, sourceVars, readerVars, pipeVars, callVars, goVars
<1>1. CASE Check(g)
  <2>1. CASE overlap' = overlap
    BY <1>1, <2>1 DEF Check, Stream!streamVars
  <2>2. CASE overlap' # overlap
    <3>1. ~overlap /\ overlap' = TRUE
      BY <1>1, <2>2 DEF Check, IInv, TypeOK
    <3>2. abandoned # {}
      BY <3>1, <1>1, ReaderInv DEF Check, IInv, TearInv
    <3>3. Stream!Tear
      BY <1>1, <3>1, <3>2, Missed DEF Check, Stream!Tear
    <3>4. QED
      BY <3>3 DEF Stream!Next
  <2>3. QED
    BY <2>1, <2>2
<1>2. CASE EnterFill(g) \/ ReadData(g) \/ ReadErr(g) \/ Take(g) \/ TakeErr(g) \/ Offer(g)
  BY <1>2 DEF EnterFill, ReadData, ReadErr, Take, TakeErr, Offer, Stream!streamVars
<1>3. CASE IndexPanic(g)
  <2>1. overlap /\ cpc \in {"idle", "select"}
    BY <1>3 DEF IInv, TypeOK, BufferInv, Running
  <2>2. Stream!Crash
    BY <1>3, <2>1 DEF Stream!Crash
  <2>3. QED
    BY <2>2 DEF Stream!Next
<1>4. QED
  BY <1>1, <1>2, <1>3 DEF Reader

\* A call of ReadRune and each of its returns is the step of that name.
LEMMA CallerImplements ==
  ASSUME IInv, CallReadRune \/ Recv PROVE Stream!Next
<1> USE DEF sourceVars, readerVars, pipeVars, callVars, goVars, Returns, GivesUp, Stream!Returns
<1>1. CASE CallReadRune
  <2>1. Stream!Read
    BY <1>1 DEF CallReadRune, Stream!Read
  <2>2. QED
    BY <2>1 DEF Stream!Next
<1>2. CASE RecvRune
  <2> DEFINE n == val[cur]
  <2>1. cur \in Calls \ abandoned /\ n \in Nat /\ n <= sent /\ ~late
    <3>1. cur \in Calls \ abandoned
      BY <1>2 DEF RecvRune, IInv, CallsInv
    <3>2. n \in Nat /\ n <= sent
      BY <1>2, <3>1, Ranges DEF RecvRune, IsError, IInv, TypeOK, CallsInv
    <3>3. ~late
      BY <1>2, CallerInv DEF RecvRune, Recv, IInv, NothingAfterClose
    <3>4. QED
      BY <3>1, <3>2, <3>3
  <2>2. Stream!MayCome(n)
    <3> SUFFICES ASSUME ~overlap
                 PROVE  /\ \A i \in 1..Len(delivered) : delivered[i] < n
                        /\ n \in 1..Len(delivered) + 1 + Cardinality(abandoned)
      BY DEF Stream!MayCome
    <3>1. n > 0 /\ n <= Taken
      BY <1>2, <2>1 DEF RecvRune, IInv, AccountInv, TypeOK
    <3>2. Cardinality(Holders) <= Cardinality(abandoned) + 1
      <4>1. Holders \subseteq abandoned \cup {cur}
        <5>1. SUFFICES ASSUME NEW h \in Holders PROVE h \in abandoned \cup {cur}
          OBVIOUS
        <5>2. h \in Calls /\ (h \in abandoned \/ gpc[h] \notin {"unborn", "exited"})
          BY DEF Holders, IInv, CallsInv
        <5>3. Running
          BY <1>2 DEF RecvRune, Running
        <5>4. QED
          BY <5>2, <5>3, Current
      <4>2. IsFiniteSet(abandoned) /\ abandoned \subseteq Calls
        BY FiniteSets DEF IInv, TypeOK
      <4>3. /\ IsFiniteSet(abandoned \cup {cur})
            /\ Cardinality(abandoned \cup {cur}) = Cardinality(abandoned) + 1
        BY <2>1, <4>2, FS_AddElement
      <4>4. QED
        BY <4>1, <4>3, FS_Subset
    <3>3. Taken = Len(delivered) + Cardinality(Holders) /\ Len(delivered) \in Nat
      BY DEF IInv, AccountInv, TypeOK
    <3>4. Cardinality(Holders) \in Nat /\ Cardinality(abandoned) \in Nat
      BY FiniteSets, Missed DEF Holders
    <3>5. \A i \in 1..Len(delivered) : delivered[i] < n
      BY <1>2, <3>1 DEF RecvRune, IInv, AccountInv
    <3>6. QED
      BY <2>1, <3>1, <3>2, <3>3, <3>4, <3>5
  <2>3. Stream!Deliver(n)
    BY <1>2, <2>1, <2>2 DEF RecvRune, Stream!Deliver
  <2>4. n \in 0..sent
    BY <2>1 DEF IInv, TypeOK
  <2>5. QED
    BY <2>3, <2>4 DEF Stream!Next
<1>3. CASE RecvError
  <2>1. ~late
    BY <1>3, CallerInv DEF RecvError, Recv, IInv, NothingAfterClose
  <2>2. srcClosed /\ (Cardinality(abandoned) = 0 => Len(delivered) = sent)
    BY <1>3, CallerInv, Missed DEF RecvError, Recv, IInv, EndInv, ErrorInv, IsError, CallsInv
  <2>3. Stream!Fail
    BY <1>3, <2>1, <2>2 DEF RecvError, Stream!Fail
  <2>4. QED
    BY <2>3 DEF Stream!Next
<1>4. CASE RecvClosed
  <2>1. Stream!Nothing
    BY <1>4 DEF RecvClosed, Stream!Nothing
  <2>2. QED
    BY <2>1 DEF Stream!Next
<1>5. CASE RecvDone \/ RecvTimer
  <2>1. cur \in Calls \ abandoned
    BY <1>5 DEF RecvDone, RecvTimer, IInv, CallsInv
  <2>2. Cardinality(abandoned') = Cardinality(abandoned) + 1
    BY <1>5, <2>1, Missed DEF RecvDone, RecvTimer
  <2>3. Stream!GiveUp
    BY <1>5, <2>2 DEF RecvDone, RecvTimer, Stream!GiveUp
  <2>4. QED
    BY <2>3 DEF Stream!Next
<1>6. QED
  BY <1>1, <1>2, <1>3, <1>4, <1>5 DEF Recv

\* What goes on between ReadRune and its goroutines is invisible: every
\* behaviour of the pipe is one of a RuneStream.
THEOREM PipeImplementsStream == Spec => ImplementsStream
<1>1. Init => Stream!Init
  BY FS_EmptySet DEF Init, Stream!Init
<1>2. ASSUME IInv, [Next]_vars PROVE [Stream!Next]_Stream!streamVars
  <2> USE DEF sourceVars, readerVars, pipeVars, callVars, goVars
  <2>1. CASE SourceWrite
    <3>1. Stream!Write
      BY <2>1 DEF SourceWrite, Stream!Write
    <3>2. QED
      BY <3>1 DEF Stream!Next
  <2>2. CASE SourceClose
    <3>1. Stream!End
      BY <2>2 DEF SourceClose, Stream!End
    <3>2. QED
      BY <3>1 DEF Stream!Next
  <2>3. CASE Close
    <3>1. Stream!Shut
      BY <2>3 DEF Close, Stream!Shut
    <3>2. QED
      BY <3>1 DEF Stream!Next
  <2>4. CASE Expire \/ UNCHANGED vars
    BY <2>4 DEF Expire, vars, Stream!streamVars
  <2>5. QED
    BY <1>2, <2>1, <2>2, <2>3, <2>4, ReaderImplements, CallerImplements DEF Next
<1>3. QED
  BY <1>1, <1>2, Invariance, PTL DEF Spec, ImplementsStream, Stream!Spec
=============================================================================
