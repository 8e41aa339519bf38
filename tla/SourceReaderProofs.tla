------------------------- MODULE SourceReaderProofs -------------------------
(***************************************************************************)
(* Reading a source keeps its inductive invariant, whatever other programs  *)
(* do to files and names while it is read.                                  *)
(***************************************************************************)
EXTENDS SourceReaderInvariant, SourceReaderRefinement, SequenceTheorems, TLAPS

USE FilesAssumption, ContentsAssumption, LimitAssumption
USE DEF Reading, Closing, Based, Objects, Stats, NoStat

LEMMA InitInvariant == Init => IInv
<1> SUFFICES ASSUME Init PROVE IInv
  OBVIOUS
<1>1. TypeOK
  <2>1. content \in [Files -> Seq(Blocks)]
    BY Contents \subseteq Seq(Blocks) DEF Init
  <2>2. stamp \in [Objects -> Nat]
    BY DEF Init
  <2>3. got \in Seq(Blocks) /\ changes \in 0..MaxChanges
    BY DEF Init
  <2>4. initial \in Stats /\ opened \in Stats
    BY DEF Init
  <2>. QED
    BY <2>1, <2>2, <2>3, <2>4 DEF Init, TypeOK
<1>2. Limited /\ Vetted /\ Faithful /\ Ended
  BY DEF Init, Limited, Accepting, Vetted, Faithful, Ended
<1>3. Named /\ Unwound
  BY DEF Init, Named, Unwound
<1>. QED
  BY <1>1, <1>2, <1>3 DEF IInv

LEMMA SystemCallFailsInvariant ==
  ASSUME IInv, SystemCallFails
  PROVE  IInv'
BY DEF SystemCallFails, Raise, SafePoint, IInv, TypeOK, Vetted, Faithful, Ended, Named,
       Limited, Accepting, Unwound, input, reading, files

LEMMA OpenParentInvariant ==
  ASSUME IInv, OpenParent
  PROVE  IInv'
<1>. USE DEF OpenParent, Raise, Goto, input, files
<1>1. /\ pc' \in {"probe", "close"}
      /\ exc' \in {"none", "invalid", "unreadable"}
      /\ pc' = "probe" => exc' = "none"
      /\ pc' = "close" => exc' # "none"
      /\ fds' \subseteq {"parent", "source"}
      /\ UNCHANGED <<outcome, source, initial, opened, same, got>>
  BY DEF IInv, TypeOK, Unwound
<1>2. TypeOK'
  BY <1>1 DEF IInv, TypeOK
<1>. QED
  BY <1>1, <1>2 DEF IInv, Vetted, Faithful, Ended, Named, Limited, Accepting, Unwound

LEMMA ProbeInvariant ==
  ASSUME IInv, Probe
  PROVE  IInv'
BY DEF Probe, Stat, Raise, Goto, SafePoint, IInv, TypeOK, Vetted, Faithful, Ended, Named,
       Limited, Accepting, Unwound, input, files

LEMMA OpenSourceInvariant ==
  ASSUME IInv, OpenSource
  PROVE  IInv'
BY DEF OpenSource, Raise, Goto, IInv, TypeOK, Vetted, Faithful, Ended, Named,
       Limited, Accepting, Unwound, input, files

LEMMA VetInvariant ==
  ASSUME IInv, Vet
  PROVE  IInv'
BY DEF Vet, Stat, Raise, Goto, SafePoint, IInv, TypeOK, Vetted, Faithful, Ended, Named,
       Limited, Accepting, Unwound, input, reading, files

LEMMA RebaseInvariant ==
  ASSUME IInv, Rebase
  PROVE  IInv'
BY DEF Rebase, Stat, Goto, IInv, TypeOK, Vetted, Faithful, Ended, Named,
       Limited, Accepting, Unwound, input, files

LEMMA ReadBlockInvariant ==
  ASSUME IInv, ReadBlock
  PROVE  IInv'
<1>. USE DEF ReadBlock, AtEnd, Next1, OverLimit, Raise, Goto, input, files
<1>1. /\ Next1 \in Blocks
      /\ Len(got') = Len(got) + 1
      /\ \A i \in 1..Len(got) : got'[i] = got[i]
      /\ got'[Len(got')] = Next1
  BY DEF IInv, TypeOK, Vetted
<1>2. TypeOK'
  <2>1. got' \in Seq(Blocks)
    BY <1>1, AppendProperties DEF IInv, TypeOK
  <2>2. pc' \in {"read", "close"} /\ exc' \in {"none", "invalid"} /\ UNCHANGED outcome
    BY DEF IInv, Unwound
  <2>. QED
    BY <2>1, <2>2 DEF IInv, TypeOK
<1>3. Faithful'
  BY <1>1 DEF IInv, TypeOK, Vetted, Faithful
<1>4. Vetted' /\ Ended' /\ Named' /\ Unwound'
  BY DEF IInv, TypeOK, Vetted, Ended, Named, Unwound
<1>5. Limited'
  BY <1>1 DEF IInv, TypeOK, Limited, Accepting, Unwound
<1>. QED
  BY <1>2, <1>3, <1>4, <1>5 DEF IInv

LEMMA EndOfFileInvariant ==
  ASSUME IInv, EndOfFile
  PROVE  IInv'
<1>. USE DEF EndOfFile, AtEnd, Raise, Goto, input, reading, files
<1>1. TypeOK' /\ Vetted' /\ Faithful' /\ Named' /\ Unwound'
  BY DEF IInv, TypeOK, Vetted, Faithful, Named, Unwound
<1>2. Ended'
  BY DEF IInv, TypeOK, Vetted, Faithful, Ended
<1>3. Limited'
  BY DEF IInv, TypeOK, Limited, Accepting, Unwound
<1>. QED
  BY <1>1, <1>2, <1>3 DEF IInv

LEMMA FirstFinalStatInvariant ==
  ASSUME IInv, FirstFinalStat
  PROVE  IInv'
<1>. USE DEF FirstFinalStat, Stat, Raise, Goto, input, files
<1>1. /\ same' \in BOOLEAN
      /\ same' => Stat(source) = opened \/ pc' = "close"
      /\ pc' \in {"path", "close"}
      /\ exc' \in {"none", "KeyboardInterrupt", "unreadable"}
      /\ pc' = "close" <=> exc' # "none"
      /\ UNCHANGED outcome
  BY DEF IInv, TypeOK, Unwound
<1>2. TypeOK'
  BY <1>1 DEF IInv, TypeOK
<1>3. Vetted' /\ Faithful' /\ Ended' /\ Limited' /\ Unwound'
  BY <1>1 DEF IInv, TypeOK, Vetted, Faithful, Ended, Limited, Accepting, Unwound
<1>4. Named'
  BY <1>1 DEF IInv, TypeOK, Vetted, Named
<1>. QED
  BY <1>2, <1>3, <1>4 DEF IInv

LEMMA FinalPathStatInvariant ==
  ASSUME IInv, FinalPathStat
  PROVE  IInv'
<1>. USE DEF FinalPathStat, Stat, Raise, Goto, input, files
<1>1. /\ same' \in BOOLEAN
      /\ same' => Stat(entry) = opened \/ pc' = "close"
      /\ pc' \in {"second", "close"}
      /\ exc' \in {"none", "KeyboardInterrupt", "unreadable"}
      /\ pc' = "close" <=> exc' # "none"
      /\ UNCHANGED outcome
  BY DEF IInv, TypeOK, Unwound
<1>2. TypeOK'
  BY <1>1 DEF IInv, TypeOK
<1>3. Vetted' /\ Faithful' /\ Ended' /\ Limited' /\ Unwound'
  BY <1>1 DEF IInv, TypeOK, Vetted, Faithful, Ended, Limited, Accepting, Unwound
<1>4. Named'
  BY <1>1 DEF IInv, TypeOK, Vetted, Named
<1>. QED
  BY <1>2, <1>3, <1>4 DEF IInv

LEMMA SecondFinalStatInvariant ==
  ASSUME IInv, SecondFinalStat
  PROVE  IInv'
BY DEF SecondFinalStat, Stat, Raise, Goto, IInv, TypeOK, Vetted, Faithful,
       Ended, Named, Limited, Accepting, Unwound, input, reading, files

LEMMA VerifyParentInvariant ==
  ASSUME IInv, VerifyParent
  PROVE  IInv'
BY DEF VerifyParent, Raise, Goto, IInv, TypeOK, Vetted, Faithful,
       Ended, Named, Limited, Accepting, Unwound, input, reading, files

LEMMA CloseInvariant ==
  ASSUME IInv, Close
  PROVE  IInv'
BY DEF Close, Goto, IInv, TypeOK, Vetted, Faithful,
       Ended, Named, Limited, Accepting, Unwound, input, files

LEMMA RestoreInvariant ==
  ASSUME IInv, Restore
  PROVE  IInv'
BY DEF Restore, RestoredOutcome, IInv, TypeOK, Vetted, Faithful,
       Ended, Named, Limited, Accepting, Unwound, input, reading, files

LEMMA SignalInvariant ==
  ASSUME IInv, Signal
  PROVE  IInv'
BY DEF Signal, IInv, TypeOK, Vetted, Faithful,
       Ended, Named, Limited, Accepting, Unwound, control, input, reading, files

\* A file that changes has a new stamp: it is not the unchanged source.
LEMMA ChangeFileInvariant ==
  ASSUME IInv, NEW f \in Files, NEW bytes \in Seq(Blocks), ChangeFile(f, bytes),
         changes' \in 0..MaxChanges,
         UNCHANGED <<control, input, reading, pending>>
  PROVE  IInv'
<1>. USE DEF ChangeFile, control, input, reading
<1>1. TypeOK'
  BY DEF IInv, TypeOK
<1>2. /\ stamp'[f] = stamp[f] + 1
      /\ \A o \in Objects : o # f => stamp'[o] = stamp[o]
      /\ \A g \in Files : g # f => content'[g] = content[g]
  BY DEF IInv, TypeOK
<1>3. Vetted'
  BY <1>2 DEF IInv, TypeOK, Vetted
<1>4. Faithful' /\ Ended' /\ Named'
  <2>1. pc \in Based /\ stamp'[source] = opened[2] =>
          source # f /\ source \in Files /\ stamp[source] = opened[2]
    BY <1>2 DEF IInv, TypeOK, Vetted
  <2>. QED
    BY <1>2, <2>1 DEF IInv, Faithful, Ended, Named
<1>5. Limited' /\ Unwound'
  BY DEF IInv, Limited, Accepting, Unwound
<1>. QED
  BY <1>1, <1>3, <1>4, <1>5 DEF IInv

LEMMA RebindInvariant ==
  ASSUME IInv, NEW o \in Objects \cup {Nobody}, Rebind(o),
         changes' \in 0..MaxChanges,
         UNCHANGED <<control, input, reading, pending>>
  PROVE  IInv'
<1>. USE DEF Rebind, control, input, reading
<1>0. \A x \in Objects : stamp[x] \in Nat
  BY DEF IInv, TypeOK
<1>1. TypeOK'
  <2>. HIDE DEF Objects
  <2>1. \A x \in Objects : (IF x \in {entry, o} THEN stamp[x] + 1 ELSE stamp[x]) \in Nat
    BY <1>0
  <2>2. stamp' \in [Objects -> Nat]
    BY <2>1
  <2>. QED
    BY <2>2 DEF IInv, TypeOK
<1>2. ASSUME NEW x \in Objects
      PROVE  /\ stamp[x] <= stamp'[x]
             /\ stamp'[x] = stamp[x] => x \notin {entry, entry'}
             /\ x \notin {entry, entry'} => stamp'[x] = stamp[x]
  <2>1. stamp'[x] = IF x \in {entry, o} THEN stamp[x] + 1 ELSE stamp[x]
    OBVIOUS
  <2>. QED
    BY <1>0, <2>1
<1>3. Vetted'
  BY <1>2 DEF IInv, TypeOK, Vetted
<1>4. Faithful' /\ Ended' /\ Named'
  <2>1. pc \in Based /\ stamp'[source] = opened[2] =>
          stamp[source] = opened[2] /\ source \notin {entry, entry'}
    BY <1>2 DEF IInv, TypeOK, Vetted
  <2>. QED
    BY <2>1 DEF IInv, Faithful, Ended, Named
<1>5. Limited' /\ Unwound'
  BY DEF IInv, Limited, Accepting, Unwound
<1>. QED
  BY <1>1, <1>3, <1>4, <1>5 DEF IInv

LEMMA OtherProgramsInvariant ==
  ASSUME IInv, OtherPrograms
  PROVE  IInv'
<1>1. changes' \in 0..MaxChanges /\ UNCHANGED <<control, input, reading, pending>>
  BY DEF OtherPrograms, IInv, TypeOK
<1>2. ASSUME NEW f \in Files, Overwrite(f) PROVE IInv'
  <2>1. PICK i \in 1..Len(content[f]), b \in Blocks :
          ChangeFile(f, [content[f] EXCEPT ![i] = b])
    BY <1>2 DEF Overwrite
  <2>2. [content[f] EXCEPT ![i] = b] \in Seq(Blocks)
    BY ExceptSeq DEF IInv, TypeOK
  <2>. QED
    BY <1>1, <2>1, <2>2, ChangeFileInvariant
<1>3. ASSUME NEW f \in Files, Grow(f) PROVE IInv'
  <2>1. PICK b \in Blocks : ChangeFile(f, Append(content[f], b))
    BY <1>3 DEF Grow
  <2>2. Append(content[f], b) \in Seq(Blocks)
    BY DEF IInv, TypeOK
  <2>. QED
    BY <1>1, <2>1, <2>2, ChangeFileInvariant
<1>4. ASSUME NEW f \in Files, Truncate(f) PROVE IInv'
  <2>1. PICK n \in 0..Len(content[f]) : ChangeFile(f, SubSeq(content[f], 1, n))
    BY <1>4 DEF Truncate
  <2>2. \A i \in 1..n : content[f][i] \in Blocks
    BY ElementOfSeq, LenProperties DEF IInv, TypeOK
  <2>3. n \in Int /\ 1 \in Int
    BY LenProperties DEF IInv, TypeOK
  <2>4. SubSeq(content[f], 1, n) \in Seq(Blocks)
    BY <2>2, <2>3, SubSeqProperties
  <2>. QED
    BY <1>1, <2>1, <2>4, ChangeFileInvariant
<1>5. ASSUME NEW o \in Objects \cup {Nobody}, Rebind(o) PROVE IInv'
  BY <1>1, <1>5, RebindInvariant
<1>6. CASE MoveParent
  BY <1>1, <1>6 DEF MoveParent, IInv, TypeOK, Vetted, Faithful, Ended, Named, Limited,
                    Accepting, Unwound, control, input, reading
<1>. QED
  BY <1>2, <1>3, <1>4, <1>5, <1>6 DEF OtherPrograms

LEMMA StutterInvariant ==
  ASSUME IInv, UNCHANGED vars
  PROVE  IInv'
BY DEF vars, control, input, reading, files, IInv, TypeOK, Vetted, Faithful, Ended, Named,
       Limited, Accepting, Unwound

\* The reader of a source keeps the invariant from every step to the next, for
\* any files, contents, limit and number of changes.
THEOREM Invariance == Spec => []IInv
<1>1. IInv /\ [Next]_vars => IInv'
  BY SystemCallFailsInvariant, OpenParentInvariant, ProbeInvariant, OpenSourceInvariant,
     VetInvariant, RebaseInvariant, ReadBlockInvariant, EndOfFileInvariant,
     FirstFinalStatInvariant, FinalPathStatInvariant, SecondFinalStatInvariant,
     VerifyParentInvariant, CloseInvariant, RestoreInvariant, SignalInvariant,
     OtherProgramsInvariant, StutterInvariant
     DEF Next, Parse, Advance
<1>. QED
  BY InitInvariant, <1>1, PTL DEF Spec

-----------------------------------------------------------------------------

\* Every variable of the reader keeps its type.
THEOREM TypeCorrectness == Spec => []TypeOK
<1>1. IInv => TypeOK
  BY DEF IInv
<1>. QED
  BY <1>1, Invariance, PTL

\* A file that grows while it is read never costs more than one block beyond
\* the limit.
THEOREM BoundedReading == Spec => []ReadsBounded
<1>1. IInv => ReadsBounded
  BY DEF IInv, TypeOK, Limited, Accepting, ReadsBounded
<1>. QED
  BY <1>1, Invariance, PTL

\* Links, FIFOs and devices are never read, whenever they take the place of the
\* file that was probed.
THEOREM VettedReading == Spec => []ReadsOnlyVettedFiles
<1>1. IInv => ReadsOnlyVettedFiles
  BY DEF IInv, Vetted, ReadsOnlyVettedFiles
<1>. QED
  BY <1>1, Invariance, PTL

\* A reader that honors SIGINT never returns a result after it arrived.
THEOREM InterruptsHonored == Spec => []InterruptHonored
<1>1. IInv => InterruptHonored
  BY DEF IInv, Unwound, InterruptHonored
<1>. QED
  BY <1>1, Invariance, PTL

\* When the last of the final stats passes, what was read is all that the file
\* bound to the name holds.
LEMMA LastStatPasses ==
  ASSUME IInv, [Next]_vars, pc # "reparent", pc' = "reparent"
  PROVE  /\ SecondFinalStat
         /\ entry = source /\ source \in Files /\ content[source] = got
<1>1. SecondFinalStat /\ same /\ stamp[source] = opened[2]
  <2>1. SecondFinalStat
    BY DEF Next, Parse, Advance, SystemCallFails, OpenParent, Probe, OpenSource, Vet, Rebase,
           ReadBlock, EndOfFile, FirstFinalStat, FinalPathStat, VerifyParent, Close,
           Restore, Signal, OtherPrograms, Goto, Raise, vars, control
  <2>. QED
    BY <2>1 DEF SecondFinalStat, Goto, Raise, Stat, IInv, TypeOK, Vetted
<1>2. entry = source /\ source \in Files
  BY <1>1 DEF SecondFinalStat, IInv, TypeOK, Vetted, Named
<1>3. /\ Len(got) = Len(content[source])
      /\ \A i \in 1..Len(got) : got[i] = content[source][i]
  BY <1>1 DEF SecondFinalStat, IInv, Ended, Faithful
<1>4. got \in Seq(Blocks) /\ content[source] \in Seq(Blocks)
  BY <1>2 DEF IInv, TypeOK
<1>. QED
  BY <1>1, <1>2, <1>3, <1>4, SeqEqual

\* The bytes that are parsed are the bytes the name shows when the last final
\* stat passes.
THEOREM ParsesNamedFile == Spec => ParsesWhatTheNameShows
<1>1. IInv /\ [Next]_vars =>
        (pc # "reparent" /\ pc' = "reparent" =>
           entry = source /\ source \in Files /\ content[source] = got)
  BY LastStatPasses
<1>. QED
  BY <1>1, Invariance, PTL DEF Spec, ParsesWhatTheNameShows

-----------------------------------------------------------------------------
(* What is refused without any change.                                     *)

LEMMA InitUntouched == Init => Untouched
BY DEF Init, Untouched, Excused

LEMMA VettingUntouched ==
  ASSUME IInv, Untouched, changes = 0,
         OpenParent \/ Probe \/ OpenSource \/ Vet \/ Rebase
  PROVE  Untouched'
<1>. USE DEF Goto, Raise, input, reading, files, Stat, Excused, Untouched
<1>1. CASE OpenParent
  BY <1>1 DEF OpenParent, IInv, Unwound
<1>2. CASE Probe
  BY <1>2 DEF Probe, TooLarge, IInv, TypeOK, Unwound
<1>3. CASE OpenSource
  BY <1>3 DEF OpenSource, IInv, Unwound
<1>4. CASE Vet
  BY <1>4 DEF Vet, IInv, Unwound
<1>5. CASE Rebase
  BY <1>5 DEF Rebase, IInv, Unwound
<1>. QED
  BY <1>1, <1>2, <1>3, <1>4, <1>5

LEMMA ReadingUntouched ==
  ASSUME IInv, Untouched, changes = 0, ReadBlock \/ EndOfFile
  PROVE  Untouched'
<1>. USE DEF Goto, Raise, input, reading, files
<1>1. /\ source = entry /\ entry \in Files /\ opened = Stat(source) /\ exc = "none"
      /\ outcome = "unset" /\ pc = "read"
      /\ content[entry] \in Seq(Blocks)
      /\ Len(got) <= Len(content[entry])
      /\ \A i \in 1..Len(got) : got[i] = content[entry][i]
  BY DEF ReadBlock, EndOfFile, Untouched, Faithful, Stat, IInv, TypeOK, Unwound
<1>2. CASE ReadBlock
  <2>1. Len(got') = Len(got) + 1 /\ Len(got') \in 1..Len(content[entry])
    BY <1>1, <1>2 DEF ReadBlock, AtEnd, IInv, TypeOK
  <2>2. Next1 = content[entry][Len(got')]
    BY <1>1, <2>1 DEF Next1
  <2>3. pc' = "close" /\ exc' = "invalid" =>
          \/ Len(content[entry]) \notin 1..Limit
          \/ \E i \in 1..Len(content[entry]) : content[entry][i] \in Broken
    BY <1>1, <1>2, <2>1, <2>2 DEF ReadBlock, OverLimit
  <2>. QED
    BY <1>1, <1>2, <2>3 DEF ReadBlock, Untouched, Excused, Stat
<1>3. CASE EndOfFile
  <2>1. pc' = "close" /\ exc' = "invalid" =>
          \/ Len(content[entry]) \notin 1..Limit
          \/ \E i \in 1..Len(content[entry]) : content[entry][i] \in Broken
    BY <1>1, <1>3 DEF EndOfFile, AtEnd
  <2>. QED
    BY <1>1, <1>3, <2>1 DEF EndOfFile, Untouched, Excused, Stat
<1>. QED
  BY <1>2, <1>3

LEMMA EndingUntouched ==
  ASSUME IInv, Untouched, changes = 0,
         \/ FirstFinalStat \/ FinalPathStat \/ SecondFinalStat \/ VerifyParent
         \/ Close \/ Restore \/ SystemCallFails \/ Signal
  PROVE  Untouched'
<1>. USE DEF Goto, Raise, control, input, reading, files, Stat, Excused, Untouched
<1>1. CASE FirstFinalStat
  BY <1>1 DEF FirstFinalStat, IInv, Unwound
<1>2. CASE FinalPathStat
  BY <1>2 DEF FinalPathStat, IInv, Unwound
<1>3. CASE SecondFinalStat
  BY <1>3 DEF SecondFinalStat, IInv, Unwound
<1>4. CASE VerifyParent
  BY <1>4 DEF VerifyParent, IInv, Unwound
<1>5. CASE Close
  BY <1>5 DEF Close
<1>6. CASE Restore
  BY <1>6 DEF Restore, RestoredOutcome
<1>7. CASE SystemCallFails
  BY <1>7 DEF SystemCallFails, IInv, Unwound
<1>8. CASE Signal
  BY <1>8 DEF Signal
<1>. QED
  BY <1>1, <1>2, <1>3, <1>4, <1>5, <1>6, <1>7, <1>8

\* An input that nobody touched is refused for what it is, or with a system call
\* that fails at last: no stat of the file is taken for another's.
THEOREM RefusesForCause == Spec => []RefusalsJustified
<1>1. Untouched => RefusalsJustified
  BY DEF Untouched, Excused, RefusalsJustified
<1>2. IInv /\ Untouched /\ [Next]_vars => Untouched'
  <2>. SUFFICES ASSUME IInv, Untouched, [Next]_vars, changes' = 0 PROVE Untouched'
    BY DEF Untouched
  <2>1. CASE OtherPrograms
    BY <2>1 DEF OtherPrograms, IInv, TypeOK
  <2>2. CASE Parse \/ Signal
    <3>1. changes = 0
      BY <2>2 DEF Parse, Advance, Signal, OpenParent, Probe, OpenSource, Vet, Rebase, ReadBlock,
         EndOfFile, FirstFinalStat, FinalPathStat, SecondFinalStat, VerifyParent, Close, Restore,
         SystemCallFails, files
    <3>. QED
      BY <2>2, <3>1, VettingUntouched, ReadingUntouched, EndingUntouched DEF Parse, Advance
  <2>3. CASE UNCHANGED vars
    BY <2>3 DEF Untouched, Excused, Stat, vars, control, input, reading, files
  <2>. QED
    BY <2>1, <2>2, <2>3 DEF Next
<1>. QED
  BY <1>1, <1>2, InitUntouched, Invariance, PTL DEF Spec

-----------------------------------------------------------------------------
(* The refinement of AtomicRead.                                           *)

\* Only the last final stat takes a source ...
LEMMA TakesSource ==
  ASSUME IInv, [Next]_vars, pc # "reparent", pc' = "reparent"
  PROVE  Atomic!Take
<1>1. SecondFinalStat /\ entry = source /\ source \in Files /\ content[source] = got
  BY LastStatPasses
<1>2. got \in WellFormed
  BY <1>1 DEF SecondFinalStat, IInv, TypeOK, Limited, Accepting, WellFormed
<1>3. Status = "idle" /\ Status' = "held" /\ Held' = got
  BY <1>1 DEF SecondFinalStat, Goto, Raise, IInv, Unwound, Status, Held, reading
<1>4. UNCHANGED <<content, entry>>
  BY <1>1 DEF SecondFinalStat, files
<1>. QED
  BY <1>1, <1>2, <1>3, <1>4 DEF Atomic!Take

\* ... and every other step returns it, refuses it or is none of the caller's
\* business.
LEMMA OtherStepsRefine ==
  ASSUME IInv, [Next]_vars, pc = "reparent" \/ pc' # "reparent"
  PROVE  Atomic!Return \/ Atomic!Fail \/ Atomic!Change
<1>. USE DEF Status, Held, Atomic!Return, Atomic!Fail, Atomic!Change
<1>1. CASE UNCHANGED <<control, got>>
  BY <1>1 DEF control
<1>2. CASE VerifyParent
  BY <1>2 DEF VerifyParent, Goto, Raise, IInv, Unwound, reading, files
<1>3. CASE Close
  BY <1>3 DEF Close, Goto, IInv, Unwound
<1>4. CASE Restore
  BY <1>4 DEF Restore, RestoredOutcome, IInv, TypeOK, Unwound, reading, files
<1>5. CASE SystemCallFails
  BY <1>5 DEF SystemCallFails, Raise, IInv, Unwound, reading, files
<1>6. CASE OpenParent \/ Probe \/ OpenSource \/ Vet
  BY <1>6 DEF OpenParent, Probe, OpenSource, Vet, Goto, Raise, IInv, Unwound,
              reading, files
<1>7. CASE Rebase \/ ReadBlock \/ EndOfFile
  BY <1>7 DEF Rebase, ReadBlock, EndOfFile, Goto, Raise, IInv, Unwound, reading, files
<1>8. CASE FirstFinalStat \/ FinalPathStat \/ SecondFinalStat
  BY <1>8 DEF FirstFinalStat, FinalPathStat, SecondFinalStat, Goto, Raise, IInv, Unwound,
              reading, files
<1>9. UNCHANGED <<control, got>> \/ Parse
  BY DEF Next, Signal, OtherPrograms, vars, control, reading
<1>. QED
  BY <1>1, <1>2, <1>3, <1>4, <1>5, <1>6, <1>7, <1>8, <1>9 DEF Parse, Advance

\* What parse_source returns was the whole content of the named file at one
\* instant between the call and the return.
THEOREM ReaderImplementsAtomicRead == Spec => ImplementsAtomicRead
<1>1. Init => Atomic!Init
  BY DEF Init, Atomic!Init, Status, Held
<1>2. IInv /\ [Next]_vars => [Atomic!Next]_<<content, entry, Status, Held>>
  BY TakesSource, OtherStepsRefine DEF Atomic!Next
<1>. QED
  BY <1>1, <1>2, Invariance, PTL DEF Spec, ImplementsAtomicRead, Atomic!Spec

=============================================================================
