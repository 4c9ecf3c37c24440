---------------------------- MODULE Xpty_proofs ----------------------------
(***************************************************************************)
(* The safety of the replies and of closing, for every number of runes,    *)
(* closers and blocks of input.  A reply moves from the reader to the      *)
(* copier and on to the terminal; the inductive invariant says that each   *)
(* of the three is behind the one before it in the output.                 *)
(***************************************************************************)
EXTENDS Xpty, SequenceTheorems, TLAPS

CopierBusy == writer["copier"] \in {"taken", "kernel"}
Read(n) == \E j \in 1..Len(delivered) : delivered[j] = n
Answered(n) == \E j \in 1..Len(replied) : replied[j] = n
BehindReplies(n) == \A i \in 1..Len(replied) : replied[i] < n

\* What was read is in order and has been written.
ReadInv ==
  /\ \A i, j \in 1..Len(delivered) : i < j => delivered[i] < delivered[j]
  /\ \A i \in 1..Len(delivered) : delivered[i] <= written
  /\ call = "reading" => missed < MaxMissed /\ ~replying

\* The reply the copier carries comes after those on the terminal, and the one the
\* reader has comes after both.
ReplyInv ==
  /\ CopierBusy => carried \in asked /\ Read(carried) /\ BehindReplies(carried)
  /\ replying =>
       /\ Len(delivered) > 0 /\ delivered[Len(delivered)] \in asked
       /\ BehindReplies(delivered[Len(delivered)])
       /\ CopierBusy => carried < delivered[Len(delivered)]

\* How far closing has come.
CloseInv ==
  /\ closing # 0 => ttyClosed
  /\ \A f \in 1..Files : f < closing => f \in tried
  /\ closing > AtPipe => shut
  /\ shut => closing > AtPipe
  /\ closing = Done => rwClosed

DataInv == ReadInv /\ ReplyInv /\ AnswersInOrder /\ NoAnswerLost

IInv == TypeOK /\ DataInv /\ CloseInv

\* Steps that leave alone what DataInv is about, but that may close the terminal
\* or let a copier end that has nothing to write.
Elsewhere ==
  /\ UNCHANGED <<written, call, missed, delivered, asked, replying, carried, replied>>
  /\ CopierBusy' => CopierBusy
  /\ CopierBusy => CopierBusy' \/ ttyClosed'
  /\ (ttyClosed => ttyClosed') /\ (rwClosed => rwClosed')

-----------------------------------------------------------------------------
LEMMA BoundsNat ==
  MaxRunes \in Nat /\ MaxMissed \in Nat /\ MaxInputs \in Nat /\ Files \in Nat /\ InputSize \in Nat
  BY BoundsAssumption, InputAssumption

LEMMA InitInv == Init => IInv
<1> SUFFICES ASSUME Init PROVE IInv
  OBVIOUS
<1>1. TypeOK
  <2>1. writer \in [Writers -> {"idle", "taken", "kernel", "ended"}]
    BY DEF Init
  <2>2. delivered \in Seq(1..MaxRunes) /\ replied \in Seq(1..MaxRunes)
    BY DEF Init, Pipe!Init
  <2>3. /\ written \in 0..MaxRunes /\ missed \in 0..MaxMissed
        /\ carried \in 0..MaxRunes /\ input \in 0..InputSize /\ inputs \in 0..MaxInputs
        /\ closing \in Awaiting..Done
    BY BoundsNat DEF Init, Pipe!Init, Awaiting, Done
  <2>4. /\ ended \in BOOLEAN /\ shut \in BOOLEAN /\ late \in BOOLEAN /\ torn = FALSE
        /\ call \in {"idle", "reading"}
        /\ outcome \in {"none", "rune", "error", "timeout", "eof", "spurious"}
    BY DEF Init, Pipe!Init
  <2>5. /\ replying \in BOOLEAN /\ child \in {"listening", "deaf", "gone"}
        /\ ttyClosed \in BOOLEAN /\ rwClosed \in BOOLEAN /\ resizing \in BOOLEAN
        /\ asked \subseteq 1..MaxRunes
        /\ closedFiles \subseteq tried /\ tried \subseteq 1..Files
    BY DEF Init
  <2> QED
    BY <2>1, <2>2, <2>3, <2>4, <2>5 DEF TypeOK
<1>2. DataInv
  BY DEF Init, Pipe!Init, DataInv, ReadInv, ReplyInv, AnswersInOrder, NoAnswerLost, CopierBusy, Writers
<1>3. CloseInv
  BY BoundsNat DEF Init, Pipe!Init, CloseInv, AtPipe, Done
<1> QED
  BY <1>1, <1>2, <1>3 DEF IInv

LEMMA TypeStep == IInv /\ [Next]_vars => TypeOK'
<1> SUFFICES ASSUME IInv, [Next]_vars PROVE TypeOK'
  OBVIOUS
<1> USE BoundsNat
    DEF IInv, DataInv, TypeOK, pipeVars, replyVars, inputVars, closeVars, Awaiting, AtPipe, AtTerm, Done
<1>1. CASE ChildWrites
  BY <1>1 DEF ChildWrites, Pipe!Write
<1>2. CASE ChildReads
  BY <1>2 DEF ChildReads
<1>3. CASE ChildTurns
  BY <1>3 DEF ChildTurns
<1>4. CASE OutputEnds
  BY <1>4 DEF OutputEnds, Pipe!End
<1>5. CASE CallReadRune
  BY <1>5 DEF CallReadRune, Pipe!Read
<1>6. CASE ReadRuneReturns
  <2>1. ASSUME NEW n \in 1..written, Pipe!Deliver(n), replying' = (n \in asked) PROVE TypeOK'
    <3>1. n \in 1..MaxRunes
      OBVIOUS
    <3>2. delivered' \in Seq(1..MaxRunes)
      BY <2>1, <3>1 DEF Pipe!Deliver
    <3> QED
      BY <1>6, <2>1, <3>2 DEF ReadRuneReturns, Pipe!Deliver, Pipe!Returns
  <2>2. ASSUME Pipe!Fail \/ Pipe!Nothing \/ Pipe!GiveUp, UNCHANGED replying PROVE TypeOK'
    BY <1>6, <2>2 DEF ReadRuneReturns, ReadInv, Pipe!Fail, Pipe!Nothing, Pipe!GiveUp, Pipe!Returns
  <2> QED
    BY <1>6, <2>1, <2>2 DEF ReadRuneReturns
<1>7. CASE ReplyTaken
  <2>1. delivered[Len(delivered)] \in 1..MaxRunes
    BY <1>7 DEF ReplyTaken, ReplyInv
  <2>2. writer' \in [Writers -> {"idle", "taken", "kernel", "ended"}]
    BY <1>7 DEF ReplyTaken
  <2>3. carried' \in 0..MaxRunes
    BY <1>7, <2>1 DEF ReplyTaken
  <2>4. UNCHANGED <<pipeVars, asked, replied, input, inputs, child, closeVars, resizing>>
    BY <1>7 DEF ReplyTaken
  <2>5. replying' \in BOOLEAN
    <3>1. replying' = FALSE
      BY <1>7 DEF ReplyTaken
    <3> QED
      BY <3>1
  <2> QED
    BY <2>2, <2>3, <2>4, <2>5
<1>8. CASE ReplyDropped
  <2>1. replying' = FALSE
    BY <1>8 DEF ReplyDropped
  <2>2. UNCHANGED <<pipeVars, asked, inputVars, child, closeVars, resizing>>
    BY <1>8 DEF ReplyDropped
  <2> QED
    BY ZenonT(60), <2>1, <2>2
<1>9. CASE CopierWrite
  <2>1. writer' \in [Writers -> {"idle", "taken", "kernel", "ended"}]
    BY <1>9 DEF CopierWrite, BeginWrite, AfterWrite
  <2> QED
    BY <1>9, <2>1 DEF CopierWrite
<1>10. ASSUME NEW w \in Writers, StartWrite(w) PROVE TypeOK'
  BY SMTT(40), <1>10 DEF StartWrite, BeginWrite, AfterWrite
<1>11. ASSUME NEW w \in Writers, FinishWrite(w) PROVE TypeOK'
  <2>1. w = "copier" => carried \in 1..MaxRunes
    BY <1>11 DEF FinishWrite, ReplyInv, CopierBusy
  <2>2. replied' \in Seq(1..MaxRunes)
    <3>1. CASE w = "copier"
      BY <1>11, <2>1, <3>1 DEF FinishWrite
    <3>2. CASE w # "copier"
      BY <1>11, <3>2 DEF FinishWrite
    <3> QED
      BY <3>1, <3>2
  <2>3. input' \in 0..InputSize
    BY <1>11 DEF FinishWrite
  <2>4. writer' \in [Writers -> {"idle", "taken", "kernel", "ended"}]
    BY <1>11 DEF FinishWrite, AfterWrite
  <2> QED
    BY <1>11, <2>2, <2>3, <2>4 DEF FinishWrite
<1>12. ASSUME NEW w \in Writers, FailWrite(w) PROVE TypeOK'
  BY <1>12 DEF FailWrite, AfterWrite
<1>13. ASSUME NEW w \in Writers, SourceEnds(w) PROVE TypeOK'
  BY <1>13 DEF SourceEnds, AfterWrite
<1>14. ASSUME NEW dance \in BOOLEAN, CloseTTY(dance) PROVE TypeOK'
  BY <1>14 DEF CloseTTY, Goes
<1>15. CASE ReaderEnded
  BY <1>15 DEF ReaderEnded, Goes
<1>16. CASE CloseFile
  BY <1>16 DEF CloseFile, Goes
<1>17. CASE ClosePipe
  <2>1. CASE shut
    BY <1>17, <2>1 DEF ClosePipe, Goes
  <2>2. CASE ~shut
    BY <1>17, <2>2 DEF ClosePipe, Goes, Pipe!Shut
  <2> QED
    BY <2>1, <2>2
<1>18. CASE CloseTerm
  BY <1>18 DEF CloseTerm, Goes
<1>19. CASE ResizeWaits
  <2>1. resizing' = TRUE
    BY <1>19 DEF ResizeWaits
  <2>2. UNCHANGED <<pipeVars, replyVars, inputVars, child, closeVars>>
    BY <1>19 DEF ResizeWaits
  <2> QED
    BY <2>1, <2>2
<1>20. CASE Resize
  <2>1. resizing' = FALSE
    BY <1>20 DEF Resize
  <2>2. UNCHANGED <<pipeVars, replyVars, inputVars, child, closeVars>>
    BY <1>20 DEF Resize
  <2> QED
    BY ZenonT(60), <2>1, <2>2
<1>21. CASE UNCHANGED vars
  BY <1>21 DEF vars
<1> QED
  BY <1>1, <1>2, <1>3, <1>4, <1>5, <1>6, <1>7, <1>8, <1>9, <1>10, <1>11, <1>12, <1>13, <1>14, <1>15,
     <1>16, <1>17, <1>18, <1>19, <1>20, <1>21
  DEF Next, WriteRuneReturns, WriterStep, CloserStep

-----------------------------------------------------------------------------
\* A step elsewhere keeps what is said of the replies.
LEMMA ElsewhereStep == DataInv /\ Elsewhere => DataInv'
<1> SUFFICES ASSUME DataInv, Elsewhere PROVE DataInv'
  OBVIOUS
<1> USE DEF DataInv, Elsewhere
<1>1. ReadInv'
  BY DEF ReadInv
<1>2. ReplyInv'
  BY DEF ReplyInv, Read, BehindReplies
<1>3. AnswersInOrder'
  BY DEF AnswersInOrder
<1>4. NoAnswerLost'
  BY DEF NoAnswerLost, CopierBusy
<1> QED
  BY <1>1, <1>2, <1>3, <1>4

\* What the child writes is not read yet, so it may complete a query.
LEMMA ChildWritesStep == IInv /\ ChildWrites => DataInv'
<1> SUFFICES ASSUME IInv, ChildWrites PROVE DataInv'
  OBVIOUS
<1>1. /\ written' = written + 1 /\ written \in Nat /\ delivered \in Seq(1..MaxRunes)
      /\ UNCHANGED <<call, missed, delivered, replying, carried, replied, writer, ttyClosed, rwClosed>>
      /\ asked \subseteq asked' /\ asked' \subseteq asked \cup {written + 1}
  BY DEF ChildWrites, Pipe!Write, IInv, TypeOK, inputVars, closeVars
<1>0. \A i \in 1..Len(delivered) : delivered[i] \in Nat /\ delivered[i] <= written
  <2>1. \A i \in 1..Len(delivered) : delivered[i] \in Nat
    <3>1. delivered \in Seq(1..MaxRunes)
      BY <1>1
    <3>2. \A i \in 1..Len(delivered) : delivered[i] \in 1..MaxRunes
      BY ONLY <3>1, ElementOfSeq
    <3> QED
      BY <3>2
  <2>2. \A i \in 1..Len(delivered) : delivered[i] <= written
    BY DEF IInv, DataInv, ReadInv
  <2> QED
    BY <2>1, <2>2
<1>2. ReadInv'
  BY <1>0, <1>1 DEF IInv, DataInv, ReadInv
<1>3. ReplyInv'
  BY <1>1 DEF IInv, DataInv, ReplyInv, Read, BehindReplies, CopierBusy
<1>4. AnswersInOrder'
  BY <1>1 DEF IInv, DataInv, AnswersInOrder
<1>5. \A i \in 1..Len(delivered) : delivered[i] \in asked' => delivered[i] \in asked
  <2> SUFFICES ASSUME NEW i \in 1..Len(delivered), delivered[i] \in asked' PROVE delivered[i] \in asked
    OBVIOUS
  <2>1. delivered[i] # written + 1
    BY <1>0, <1>1
  <2> QED
    BY <1>1, <2>1
<1>6. NoAnswerLost'
  BY <1>1, <1>5 DEF IInv, DataInv, NoAnswerLost
<1> QED
  BY <1>2, <1>3, <1>4, <1>6 DEF DataInv

\* A rune that is read comes behind all that were, and so behind every reply.
LEMMA DeliverStep ==
  ASSUME IInv, NEW n \in 1..written, Pipe!Deliver(n), replying' = (n \in asked),
         UNCHANGED <<asked, inputVars, closeVars>>
  PROVE  DataInv'
<1>1. /\ delivered' = Append(delivered, n) /\ delivered \in Seq(1..MaxRunes) /\ n \in Nat
      /\ UNCHANGED <<written, missed, asked, carried, replied, writer, ttyClosed, rwClosed>>
      /\ call = "reading" /\ call' = "idle" /\ ~replying
  BY DEF Pipe!Deliver, Pipe!Returns, IInv, DataInv, ReadInv, TypeOK, inputVars, closeVars
<1>2. \A i \in 1..Len(delivered) : delivered[i] < n
  BY DEF Pipe!Deliver, Pipe!MayCome, IInv, TypeOK
<1>3. /\ Len(delivered') = Len(delivered) + 1 /\ Len(delivered) \in Nat
      /\ \A i \in 1..Len(delivered) : delivered'[i] = delivered[i]
      /\ delivered'[Len(delivered')] = n
  BY <1>1
<1>4. \A m : Read(m) => Read(m)' /\ m < n
  BY <1>2, <1>3 DEF Read
<1>5. ReadInv'
  BY <1>1, <1>2, <1>3 DEF IInv, DataInv, ReadInv
<1>6. BehindReplies(n)
  BY <1>4 DEF IInv, DataInv, AnswersInOrder, BehindReplies, Read
<1>7. ReplyInv'
  <2>1. CopierBusy' => carried' \in asked' /\ Read(carried)' /\ BehindReplies(carried)' /\ carried' < n
    BY <1>1, <1>4 DEF IInv, DataInv, ReplyInv, CopierBusy, BehindReplies, Read
  <2>2. replying' => n \in asked'
    BY <1>1
  <2>3. BehindReplies(n)'
    BY <1>1, <1>6 DEF BehindReplies
  <2> QED
    BY <1>3, <2>1, <2>2, <2>3 DEF ReplyInv, BehindReplies
<1>8. AnswersInOrder'
  BY <1>1, <1>4 DEF IInv, DataInv, AnswersInOrder, Read
<1>9. NoAnswerLost'
  <2> SUFFICES ASSUME ~ttyClosed, ~rwClosed, NEW i \in 1..Len(delivered'), delivered'[i] \in asked
               PROVE  \/ \E j \in 1..Len(replied) : replied[j] = delivered'[i]
                      \/ writer["copier"] \in {"taken", "kernel"} /\ carried = delivered'[i]
                      \/ replying' /\ i = Len(delivered')
    BY <1>1 DEF NoAnswerLost
  <2>1. CASE i = Len(delivered')
    BY <1>3, <2>1
  <2>2. CASE i \in 1..Len(delivered)
    BY <1>1, <1>3, <2>2 DEF IInv, DataInv, NoAnswerLost
  <2> QED
    BY <1>3, <2>1, <2>2
<1> QED
  BY <1>5, <1>7, <1>8, <1>9 DEF DataInv

\* The reader's reply becomes the copier's.
LEMMA ReplyTakenStep == IInv /\ ReplyTaken => DataInv'
<1> SUFFICES ASSUME IInv, ReplyTaken PROVE DataInv'
  OBVIOUS
<1> DEFINE last == delivered[Len(delivered)]
<1>1. /\ replying /\ ~CopierBusy /\ ~rwClosed
      /\ carried' = last /\ CopierBusy' /\ writer'["copier"] = "taken" /\ ~replying'
      /\ UNCHANGED <<written, missed, call, delivered, asked, replied, ttyClosed, rwClosed>>
  BY DEF ReplyTaken, CopierBusy, IInv, TypeOK, Writers, pipeVars, closeVars
<1>2. last \in asked /\ Read(last) /\ BehindReplies(last)
  BY <1>1 DEF IInv, TypeOK, DataInv, ReplyInv, Read
<1>3. ReadInv'
  BY <1>1 DEF IInv, DataInv, ReadInv
<1>4. ReplyInv'
  BY <1>1, <1>2 DEF ReplyInv, Read, BehindReplies
<1>5. AnswersInOrder'
  BY <1>1 DEF IInv, DataInv, AnswersInOrder
<1>6. NoAnswerLost'
  BY <1>1 DEF IInv, DataInv, NoAnswerLost, CopierBusy
<1> QED
  BY <1>3, <1>4, <1>5, <1>6 DEF DataInv

\* The copier's reply gets on the terminal, behind those that are there.
LEMMA CopierWrote == IInv /\ FinishWrite("copier") => DataInv'
<1> SUFFICES ASSUME IInv, FinishWrite("copier") PROVE DataInv'
  OBVIOUS
<1>1. /\ CopierBusy /\ ~CopierBusy' /\ replied' = Append(replied, carried)
      /\ UNCHANGED <<written, missed, call, delivered, asked, carried, replying, ttyClosed, rwClosed>>
  BY DEF FinishWrite, AfterWrite, CopierBusy, IInv, TypeOK, Writers, pipeVars, replyVars, closeVars
<1>2. /\ Len(replied') = Len(replied) + 1 /\ Len(replied) \in Nat
      /\ \A i \in 1..Len(replied) : replied'[i] = replied[i]
      /\ replied'[Len(replied')] = carried
  BY <1>1 DEF IInv, TypeOK
<1>3. carried \in asked /\ Read(carried) /\ BehindReplies(carried)
  BY <1>1 DEF IInv, DataInv, ReplyInv
<1>4. ReadInv'
  BY <1>1 DEF IInv, DataInv, ReadInv
<1>5. ReplyInv'
  <2>1. ASSUME replying, NEW i \in 1..Len(replied') PROVE replied'[i] < delivered[Len(delivered)]
    BY <1>1, <1>2, <2>1 DEF IInv, DataInv, ReplyInv, BehindReplies
  <2> QED
    BY <1>1, <2>1 DEF IInv, DataInv, ReplyInv, BehindReplies
<1>6. AnswersInOrder'
  <2> SUFFICES ASSUME NEW i \in 1..Len(replied')
               PROVE  /\ replied'[i] \in asked /\ Read(replied'[i])
                      /\ i < Len(replied') => replied'[i] < replied'[i + 1]
    BY <1>1 DEF AnswersInOrder, Read
  <2>1. CASE i = Len(replied')
    BY <1>2, <1>3, <2>1
  <2>2. CASE i = Len(replied)
    BY <1>2, <1>3, <2>2 DEF IInv, DataInv, AnswersInOrder, Read, BehindReplies
  <2>3. CASE i < Len(replied)
    BY <1>2, <2>3 DEF IInv, DataInv, AnswersInOrder, Read
  <2> QED
    BY <1>2, <2>1, <2>2, <2>3
<1>7. NoAnswerLost'
  <2> SUFFICES ASSUME ~ttyClosed, ~rwClosed, NEW i \in 1..Len(delivered), delivered[i] \in asked
               PROVE  (\E j \in 1..Len(replied') : replied'[j] = delivered[i]) \/ (replying /\ i = Len(delivered))
    BY <1>1 DEF NoAnswerLost
  <2>1. CASE \E j \in 1..Len(replied) : replied[j] = delivered[i]
    BY <1>2, <2>1
  <2>2. CASE carried = delivered[i]
    BY <1>2, <2>2
  <2> QED
    BY <2>1, <2>2 DEF IInv, DataInv, NoAnswerLost
<1> QED
  BY <1>4, <1>5, <1>6, <1>7 DEF DataInv

\* The other steps do not touch the replies, or only drop one when all is closed.
LEMMA DataStep == IInv /\ [Next]_vars => DataInv'
<1> SUFFICES ASSUME IInv, [Next]_vars PROVE DataInv'
  OBVIOUS
<1> USE DEF pipeVars, replyVars, inputVars, closeVars
<1>1. DataInv
  BY DEF IInv
<1>2. CASE ChildWrites
  BY <1>2, ChildWritesStep
<1>3. CASE ChildReads \/ ChildTurns \/ OutputEnds
  BY <1>1, <1>3, ElsewhereStep DEF Elsewhere, CopierBusy, ChildReads, ChildTurns, OutputEnds, Pipe!End
<1>4. CASE CallReadRune
  <2>1. /\ call' = "reading" /\ missed < MaxMissed /\ ~replying
        /\ UNCHANGED <<written, missed, delivered, asked, replying, carried, replied, writer, ttyClosed, rwClosed>>
    BY <1>4 DEF CallReadRune, Pipe!Read
  <2> QED
    BY <1>1, <2>1
    DEF DataInv, ReadInv, ReplyInv, AnswersInOrder, NoAnswerLost, CopierBusy, Read, BehindReplies
<1>5. CASE ReadRuneReturns
  <2>1. ASSUME NEW n \in 1..written, Pipe!Deliver(n), replying' = (n \in asked) PROVE DataInv'
    BY <1>5, <2>1, DeliverStep DEF ReadRuneReturns
  <2>2. ASSUME Pipe!Fail \/ Pipe!Nothing \/ Pipe!GiveUp, UNCHANGED replying PROVE DataInv'
    <3>1. /\ call' = "idle"
          /\ UNCHANGED <<written, delivered, asked, replying, carried, replied, writer, ttyClosed, rwClosed>>
      BY <1>5, <2>2 DEF ReadRuneReturns, Pipe!Fail, Pipe!Nothing, Pipe!GiveUp, Pipe!Returns
    <3> QED
      BY <1>1, <3>1
      DEF DataInv, ReadInv, ReplyInv, AnswersInOrder, NoAnswerLost, CopierBusy, Read, BehindReplies
  <2> QED
    BY <1>5, <2>1, <2>2 DEF ReadRuneReturns
<1>6. CASE ReplyTaken
  BY <1>6, ReplyTakenStep
<1>7. CASE ReplyDropped
  <2>1. /\ replying' = FALSE /\ rwClosed'
        /\ UNCHANGED <<written, call, missed, delivered, asked, carried, replied, writer, ttyClosed, rwClosed>>
    BY <1>7 DEF ReplyDropped
  <2> QED
    BY <1>1, <2>1
    DEF DataInv, ReadInv, ReplyInv, AnswersInOrder, NoAnswerLost, CopierBusy, Read, BehindReplies
<1>8. CASE CopierWrite
  <2>1. Elsewhere
    BY <1>8 DEF CopierWrite, BeginWrite, AfterWrite, Elsewhere, CopierBusy, IInv, TypeOK, Writers
  <2> QED
    BY <1>1, <2>1, ElsewhereStep
<1>9. ASSUME NEW w \in Writers, StartWrite(w) PROVE DataInv'
  <2>1. writer'["copier"] = writer["copier"]
    BY <1>9 DEF StartWrite, BeginWrite, AfterWrite, IInv, TypeOK, Writers
  <2>2. Elsewhere
    BY <1>9, <2>1 DEF StartWrite, Elsewhere, CopierBusy
  <2> QED
    BY <1>1, <2>2, ElsewhereStep
<1>10. ASSUME NEW w \in Writers, FinishWrite(w) PROVE DataInv'
  <2>1. CASE w = "copier"
    BY <1>10, <2>1, CopierWrote
  <2>2. CASE w # "copier"
    <3>1. Elsewhere
      BY <1>10, <2>2 DEF FinishWrite, AfterWrite, Elsewhere, CopierBusy, IInv, TypeOK
    <3> QED
      BY <1>1, <3>1, ElsewhereStep
  <2> QED
    BY <2>1, <2>2
<1>11. ASSUME NEW w \in Writers, FailWrite(w) PROVE DataInv'
  <2>1. Elsewhere
    BY <1>11 DEF FailWrite, HungUp, AfterWrite, Elsewhere, CopierBusy, IInv, TypeOK, Writers
  <2> QED
    BY <1>1, <2>1, ElsewhereStep
<1>12. ASSUME NEW w \in Writers, SourceEnds(w) PROVE DataInv'
  <2>1. Elsewhere
    BY <1>12 DEF SourceEnds, AfterWrite, Elsewhere, CopierBusy, IInv, TypeOK, Writers
  <2> QED
    BY <1>1, <2>1, ElsewhereStep
<1>13. ASSUME NEW dance \in BOOLEAN, CloseTTY(dance) PROVE DataInv'
  BY <1>1, <1>13, ElsewhereStep DEF CloseTTY, Goes, Elsewhere, CopierBusy
<1>14. CASE CloserStep
  <2>1. Elsewhere
    BY <1>14 DEF CloserStep, ReaderEnded, CloseFile, ClosePipe, Pipe!Shut, CloseTerm, Goes, Elsewhere, CopierBusy
  <2> QED
    BY <1>1, <2>1, ElsewhereStep
<1>15. CASE ResizeWaits \/ Resize
  BY <1>1, <1>15, ElsewhereStep DEF ResizeWaits, Resize, Elsewhere, CopierBusy
<1>16. CASE UNCHANGED vars
  BY <1>1, <1>16, ElsewhereStep DEF vars, Elsewhere, CopierBusy
<1> QED
  BY <1>2, <1>3, <1>4, <1>5, <1>6, <1>7, <1>8, <1>9, <1>10, <1>11, <1>12, <1>13, <1>14, <1>15, <1>16
  DEF Next, WriteRuneReturns, WriterStep

-----------------------------------------------------------------------------
\* Only the closing goroutine changes what CloseInv is about.
LEMMA CloseStep == IInv /\ [Next]_vars => CloseInv'
<1> SUFFICES ASSUME IInv, [Next]_vars PROVE CloseInv'
  OBVIOUS
<1> USE BoundsNat DEF pipeVars, closeVars
<1>1. CloseInv /\ closing \in Awaiting..Done
  BY DEF IInv, TypeOK
<1>2. ASSUME NEW dance \in BOOLEAN, CloseTTY(dance) PROVE CloseInv'
  BY <1>1, <1>2 DEF CloseTTY, Goes, CloseInv, Awaiting, AtPipe, AtTerm, Done
<1>3. CASE ReaderEnded
  BY <1>1, <1>3 DEF ReaderEnded, Goes, CloseInv, Awaiting, AtPipe, AtTerm, Done
<1>4. CASE CloseFile
  BY <1>1, <1>4 DEF CloseFile, Goes, CloseInv, Awaiting, AtPipe, AtTerm, Done
<1>5. CASE ClosePipe
  <2>1. shut' /\ UNCHANGED <<ttyClosed, rwClosed, tried>> /\ closing = AtPipe /\ closing' = AtTerm
    BY <1>5 DEF ClosePipe, Pipe!Shut, Goes, IInv, TypeOK
  <2> QED
    BY <1>1, <2>1 DEF CloseInv, Awaiting, AtPipe, AtTerm, Done
<1>6. CASE CloseTerm
  BY <1>1, <1>6 DEF CloseTerm, Goes, CloseInv, Awaiting, AtPipe, AtTerm, Done
<1>7. ASSUME UNCHANGED <<closing, ttyClosed, shut, rwClosed, tried>> PROVE CloseInv'
  BY <1>1, <1>7 DEF CloseInv
<1>8. ASSUME ~CloserStep, \A dance \in BOOLEAN : ~CloseTTY(dance)
      PROVE  UNCHANGED <<closing, ttyClosed, shut, rwClosed, tried>>
  BY <1>8
  DEF Next, vars, ChildWrites, ChildReads, ChildTurns, OutputEnds, CallReadRune, ReadRuneReturns,
      WriteRuneReturns, ReplyTaken, ReplyDropped, StartWrite, WriterStep, CopierWrite, FinishWrite,
      FailWrite, SourceEnds, ResizeWaits, Resize, Pipe!Write, Pipe!End, Pipe!Read, Pipe!Deliver,
      Pipe!Fail, Pipe!Nothing, Pipe!GiveUp, Pipe!Returns
<1> QED
  BY <1>2, <1>3, <1>4, <1>5, <1>6, <1>7, <1>8 DEF CloserStep

LEMMA InvStep == IInv /\ [Next]_vars => IInv'
  BY TypeStep, DataStep, CloseStep DEF IInv

\* The invariant holds throughout.
THEOREM Invariant == Spec => []IInv
  BY InitInv, InvStep, PTL DEF Spec

\* Every variable keeps its type.
THEOREM TypeCorrect == Spec => []TypeOK
<1>1. IInv => TypeOK
  BY DEF IInv
<1> QED
  BY <1>1, Invariant, PTL

\* Replies reach the terminal in the order of their queries, none twice and none
\* that was not asked for, however many queries, writers and lost runes there are.
THEOREM RepliesInOrder == Spec => []AnswersInOrder
<1>1. IInv => AnswersInOrder
  BY DEF IInv, DataInv
<1> QED
  BY <1>1, Invariant, PTL

\* No reply gets lost before the console is closed.
THEOREM RepliesKept == Spec => []NoAnswerLost
<1>1. IInv => NoAnswerLost
  BY DEF IInv, DataInv
<1> QED
  BY <1>1, Invariant, PTL

\* The readers are cut off only when every closer has been called, and Console.Close
\* leaves nothing open, with any number of closers.
THEOREM CloseDoesAll == Spec => []CloseComplete
<1>1. IInv => CloseComplete
  <2> SUFFICES ASSUME IInv PROVE CloseComplete
    OBVIOUS
  <2>1. shut => 1..Files \subseteq tried
    BY BoundsNat DEF IInv, TypeOK, CloseInv, AtPipe, Awaiting, Done
  <2>2. tried \subseteq 1..Files
    BY DEF IInv, TypeOK
  <2>3. closing = Done => ttyClosed /\ shut /\ rwClosed
    BY BoundsNat DEF IInv, CloseInv, AtPipe, Done
  <2> QED
    BY <2>1, <2>2, <2>3 DEF CloseComplete
<1> QED
  BY <1>1, Invariant, PTL
=============================================================================
