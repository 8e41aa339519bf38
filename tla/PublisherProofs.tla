--------------------------- MODULE PublisherProofs ---------------------------
(***************************************************************************)
(* The publisher keeps its inductive invariants, which imply its safety    *)
(* properties, and implements the atomic publication, for any number of    *)
(* processes, directories and names and under every fault.                 *)
(***************************************************************************)
EXTENDS PublisherInvariant, TLAPS

USE DEF Names, Entries, Publishing, Cleaning, Running, Steps, Holding

\* Falling through and unwinding keep the types of the control variables.
LEMMA GotoTyped ==
  ASSUME TypeOK, NEW p \in Proc, NEW step \in Steps, Goto(p, step)
  PROVE  /\ pc' \in [Proc -> Steps]
         /\ UNCHANGED <<exc, outcome>>
BY DEF TypeOK, Goto

LEMMA RaiseTyped ==
  ASSUME TypeOK, NEW p \in Proc,
         NEW e \in {"OutputError", "KeyboardInterrupt", "other"}, Raise(p, e)
  PROVE  /\ pc' \in [Proc -> Steps]
         /\ exc' \in [Proc -> {"none", "OutputError", "KeyboardInterrupt", "other"}]
         /\ UNCHANGED outcome
BY DEF TypeOK, Raise

LEMMA InitInvariant == Init => IInv
<1> SUFFICES ASSUME Init PROVE IInv
  OBVIOUS
<1>1. TypeOK
  BY BoundsAssumption DEF Init, TypeOK
<1>2. \A p \in Proc : Opened(p)
  BY DEF Init, Opened
<1>3. \A p \in Proc : Written(p)
  <2>1. \A p \in Proc : pc[p] = "start" /\ length[p] = 0
    BY DEF Init
  <2>. QED
    BY <2>1, ~(0 > 0) DEF Written
<1>4. \A p \in Proc : Bound(p)
  BY EntriesAssumption DEF Init, Bound
<1>5. \A p \in Proc : Holds(p)
  BY DEF Init, Holds
<1>6. Apart
  BY DEF Init, Apart
<1>. QED
  BY <1>1, <1>2, <1>3, <1>4, <1>5, <1>6 DEF IInv

LEMMA RejectInvariant ==
  ASSUME IInv, NEW p \in Proc, Reject(p)
  PROVE  IInv'
<1>1. TypeOK'
  BY DEF IInv, TypeOK, Reject, At, control, owned, state, file, signals, world
<1>. USE NamesAssumption, EntriesAssumption, DirsAssumption, BoundsAssumption
<1>. USE DEF Reject, At, control, owned, state, file, signals, world
<1>2. ASSUME NEW q \in Proc PROVE Opened(q)'
  BY DEF IInv, TypeOK, Opened
<1>3. ASSUME NEW q \in Proc PROVE Written(q)'
  BY DEF IInv, TypeOK, Written
<1>4. ASSUME NEW q \in Proc PROVE Bound(q)'
  BY DEF IInv, TypeOK, Bound, Opened
<1>5. ASSUME NEW q \in Proc PROVE Holds(q)'
  BY DEF IInv, TypeOK, Holds, Opened
<1>6. Apart'
  BY DEF IInv, TypeOK, Apart
<1>. QED
  BY <1>1, <1>2, <1>3, <1>4, <1>5, <1>6 DEF IInv

LEMMA BeginInvariant ==
  ASSUME IInv, NEW p \in Proc, Begin(p)
  PROVE  IInv'
<1>1. TypeOK'
  BY DEF IInv, TypeOK, Begin, Goto, At, control, owned, state, file, signals, world
<1>. USE NamesAssumption, EntriesAssumption, DirsAssumption, BoundsAssumption
<1>. USE DEF Begin, Goto, At, control, owned, state, file, signals, world
<1>2. ASSUME NEW q \in Proc PROVE Opened(q)'
  BY DEF IInv, TypeOK, Opened
<1>3. ASSUME NEW q \in Proc PROVE Written(q)'
  BY DEF IInv, TypeOK, Written
<1>4. ASSUME NEW q \in Proc PROVE Bound(q)'
  BY DEF IInv, TypeOK, Bound, Opened
<1>5. ASSUME NEW q \in Proc PROVE Holds(q)'
  BY DEF IInv, TypeOK, Holds, Opened
<1>6. Apart'
  BY DEF IInv, TypeOK, Apart
<1>. QED
  BY <1>1, <1>2, <1>3, <1>4, <1>5, <1>6 DEF IInv

LEMMA SystemCallFailsInvariant ==
  ASSUME IInv, NEW p \in Proc, SystemCallFails(p)
  PROVE  IInv'
<1>1. TypeOK'
  BY DEF IInv, TypeOK, SystemCallFails, Raise, At, control, owned, state, file,
     signals, world
<1>. USE NamesAssumption, EntriesAssumption, DirsAssumption, BoundsAssumption
<1>. USE DEF SystemCallFails, Raise, At, control, owned, state, file, signals, world
<1>2. ASSUME NEW q \in Proc PROVE Opened(q)'
  BY DEF IInv, TypeOK, Opened
<1>3. ASSUME NEW q \in Proc PROVE Written(q)'
  BY DEF IInv, TypeOK, Written
<1>4. ASSUME NEW q \in Proc PROVE Bound(q)'
  BY DEF IInv, TypeOK, Bound, Opened
<1>5. ASSUME NEW q \in Proc PROVE Holds(q)'
  BY DEF IInv, TypeOK, Holds, Opened
<1>6. Apart'
  BY DEF IInv, TypeOK, Apart
<1>. QED
  BY <1>1, <1>2, <1>3, <1>4, <1>5, <1>6 DEF IInv

LEMMA OpenParentInvariant ==
  ASSUME IInv, NEW p \in Proc, OpenParent(p)
  PROVE  IInv'
<1>1. TypeOK'
  <2>1. pc' \in [Proc -> Steps] /\ UNCHANGED outcome
    BY GotoTyped, RaiseTyped DEF IInv, OpenParent
  <2>2. exc' \in [Proc -> {"none", "OutputError", "KeyboardInterrupt", "other"}]
    BY GotoTyped, RaiseTyped DEF IInv, OpenParent, TypeOK
  <2>3. parent' \in [Proc -> Dirs \cup {NoDir}]
    BY DEF IInv, OpenParent, TypeOK, owned
  <2>4. fds' \in [Proc -> SUBSET {"parent", "temporary"}]
    BY DEF IInv, OpenParent, TypeOK, owned
  <2>. QED
    BY <2>1, <2>2, <2>3, <2>4
    DEF IInv, OpenParent, TypeOK, owned, state, file, signals, world
<1>. USE NamesAssumption, EntriesAssumption, DirsAssumption, BoundsAssumption
<1>. USE DEF OpenParent, Goto, Raise, At, control, owned, state, file, signals, world
<1>2. ASSUME NEW q \in Proc PROVE Opened(q)'
  BY DEF IInv, TypeOK, Opened
<1>3. ASSUME NEW q \in Proc PROVE Written(q)'
  BY DEF IInv, TypeOK, Written
<1>4. ASSUME NEW q \in Proc PROVE Bound(q)'
  BY DEF IInv, TypeOK, Bound, Opened
<1>5. ASSUME NEW q \in Proc PROVE Holds(q)'
  BY DEF IInv, TypeOK, Holds, Opened
<1>6. Apart'
  <2>1. ~committed[p] /\ UNCHANGED committed
    BY DEF IInv, Holds
  <2>2. \A q \in Proc \ {p} : parent'[q] = parent[q]
    BY DEF IInv, TypeOK
  <2>. QED
    BY <2>1, <2>2 DEF IInv, Apart
<1>. QED
  BY <1>1, <1>2, <1>3, <1>4, <1>5, <1>6 DEF IInv

LEMMA CheckParentInvariant ==
  ASSUME IInv, NEW p \in Proc, CheckParent(p)
  PROVE  IInv'
<1>1. TypeOK'
  <2>. USE DEF IInv, CheckParent, control, owned, state, file, signals, world
  <2>1. CASE ~SafePoint(p)
    BY <2>1, GotoTyped, RaiseTyped DEF TypeOK
  <2>2. CASE SafePoint(p) /\ ~ParentModeSafe(p)
    BY <2>2, GotoTyped, RaiseTyped DEF TypeOK
  <2>3. CASE SafePoint(p) /\ ParentModeSafe(p)
    BY <2>3, GotoTyped, RaiseTyped DEF TypeOK
  <2>. QED
    BY <2>1, <2>2, <2>3
<1>. USE NamesAssumption, EntriesAssumption, DirsAssumption, BoundsAssumption
<1>. USE DEF CheckParent, Goto, Raise, SafePoint, ParentModeSafe, At, control, owned,
             state, file, signals, world
<1>2. ASSUME NEW q \in Proc PROVE Opened(q)'
  BY DEF IInv, TypeOK, Opened
<1>3. ASSUME NEW q \in Proc PROVE Written(q)'
  BY DEF IInv, TypeOK, Written
<1>4. ASSUME NEW q \in Proc PROVE Bound(q)'
  BY DEF IInv, TypeOK, Bound, Opened
<1>5. ASSUME NEW q \in Proc PROVE Holds(q)'
  BY DEF IInv, TypeOK, Holds, Opened
<1>6. Apart'
  BY DEF IInv, TypeOK, Apart
<1>. QED
  BY <1>1, <1>2, <1>3, <1>4, <1>5, <1>6 DEF IInv

LEMMA ProbeFinalInvariant ==
  ASSUME IInv, NEW p \in Proc, ProbeFinal(p)
  PROVE  IInv'
<1>1. TypeOK'
  BY DEF IInv, TypeOK, ProbeFinal, Goto, Raise, Entry, At, control, owned, state,
     file, signals, world
<1>. USE NamesAssumption, EntriesAssumption, DirsAssumption, BoundsAssumption
<1>. USE DEF ProbeFinal, Goto, Raise, Entry, At, control, owned, state, file,
             signals, world
<1>2. ASSUME NEW q \in Proc PROVE Opened(q)'
  BY DEF IInv, TypeOK, Opened
<1>3. ASSUME NEW q \in Proc PROVE Written(q)'
  BY DEF IInv, TypeOK, Written
<1>4. ASSUME NEW q \in Proc PROVE Bound(q)'
  BY DEF IInv, TypeOK, Bound, Opened
<1>5. ASSUME NEW q \in Proc PROVE Holds(q)'
  BY DEF IInv, TypeOK, Holds, Opened
<1>6. Apart'
  BY DEF IInv, TypeOK, Apart
<1>. QED
  BY <1>1, <1>2, <1>3, <1>4, <1>5, <1>6 DEF IInv

LEMMA CreateExhaustedInvariant ==
  ASSUME IInv, NEW p \in Proc, CreateExhausted(p)
  PROVE  IInv'
<1>1. TypeOK'
  BY DEF IInv, TypeOK, CreateExhausted, Raise, At, control, owned, state, file,
     signals, world
<1>. USE NamesAssumption, EntriesAssumption, DirsAssumption, BoundsAssumption
<1>. USE DEF CreateExhausted, Raise, At, control, owned, state, file, signals, world
<1>2. ASSUME NEW q \in Proc PROVE Opened(q)'
  BY DEF IInv, TypeOK, Opened
<1>3. ASSUME NEW q \in Proc PROVE Written(q)'
  BY DEF IInv, TypeOK, Written
<1>4. ASSUME NEW q \in Proc PROVE Bound(q)'
  BY DEF IInv, TypeOK, Bound, Opened
<1>5. ASSUME NEW q \in Proc PROVE Holds(q)'
  BY DEF IInv, TypeOK, Holds, Opened
<1>6. Apart'
  BY DEF IInv, TypeOK, Apart
<1>. QED
  BY <1>1, <1>2, <1>3, <1>4, <1>5, <1>6 DEF IInv

LEMMA ForceModeInvariant ==
  ASSUME IInv, NEW p \in Proc, ForceMode(p)
  PROVE  IInv'
<1>1. TypeOK'
  <2>. USE DEF IInv, ForceMode, control, owned, state, file, signals, world
  <2>1. CASE SafePoint(p)
    BY <2>1, GotoTyped, RaiseTyped DEF TypeOK
  <2>2. CASE ~SafePoint(p)
    BY <2>2, GotoTyped, RaiseTyped DEF TypeOK
  <2>. QED
    BY <2>1, <2>2
<1>. USE NamesAssumption, EntriesAssumption, DirsAssumption, BoundsAssumption
<1>. USE DEF ForceMode, Goto, Raise, SafePoint, At, control, owned, state, file,
             signals, world
<1>2. ASSUME NEW q \in Proc PROVE Opened(q)'
  BY DEF IInv, TypeOK, Opened
<1>3. ASSUME NEW q \in Proc PROVE Written(q)'
  BY DEF IInv, TypeOK, Written
<1>4. ASSUME NEW q \in Proc PROVE Bound(q)'
  BY DEF IInv, TypeOK, Bound, Opened
<1>5. ASSUME NEW q \in Proc PROVE Holds(q)'
  BY DEF IInv, TypeOK, Holds, Opened
<1>6. Apart'
  BY DEF IInv, TypeOK, Apart
<1>. QED
  BY <1>1, <1>2, <1>3, <1>4, <1>5, <1>6 DEF IInv

LEMMA WriteInvariant ==
  ASSUME IInv, NEW p \in Proc, Write(p)
  PROVE  IInv'
<1>1. TypeOK'
  <2>1. PICK k \in 1..Size - length[p] :
          /\ length' = [length EXCEPT ![p] = @ + k]
          /\ Goto(p, IF length[p] + k = Size THEN "fsync" ELSE "write")
    BY DEF Write
  <2>2. length' \in [Proc -> 0..Size]
    BY <2>1, BoundsAssumption DEF IInv, TypeOK
  <2>3. pc' \in [Proc -> Steps] /\ UNCHANGED <<exc, outcome>>
    BY <2>1, GotoTyped DEF IInv
  <2>. QED
    BY <2>2, <2>3 DEF IInv, TypeOK, Write, owned, state, signals, world
<1>. USE NamesAssumption, EntriesAssumption, DirsAssumption, BoundsAssumption
<1>. USE DEF Write, Goto, At, control, owned, state, file, signals, world
<1>2. ASSUME NEW q \in Proc PROVE Opened(q)'
  BY DEF IInv, TypeOK, Opened
<1>3. ASSUME NEW q \in Proc PROVE Written(q)'
  BY DEF IInv, TypeOK, Written
<1>4. ASSUME NEW q \in Proc PROVE Bound(q)'
  BY DEF IInv, TypeOK, Bound, Opened
<1>5. ASSUME NEW q \in Proc PROVE Holds(q)'
  BY DEF IInv, TypeOK, Holds, Opened
<1>6. Apart'
  BY DEF IInv, TypeOK, Apart
<1>. QED
  BY <1>1, <1>2, <1>3, <1>4, <1>5, <1>6 DEF IInv

LEMMA SyncInvariant ==
  ASSUME IInv, NEW p \in Proc, Sync(p)
  PROVE  IInv'
<1>1. TypeOK'
  BY DEF IInv, TypeOK, Sync, Goto, At, control, owned, state, file, signals, world
<1>. USE NamesAssumption, EntriesAssumption, DirsAssumption, BoundsAssumption
<1>. USE DEF Sync, Goto, At, control, owned, state, file, signals, world
<1>2. ASSUME NEW q \in Proc PROVE Opened(q)'
  BY DEF IInv, TypeOK, Opened
<1>3. ASSUME NEW q \in Proc PROVE Written(q)'
  BY DEF IInv, TypeOK, Written
<1>4. ASSUME NEW q \in Proc PROVE Bound(q)'
  BY DEF IInv, TypeOK, Bound, Opened
<1>5. ASSUME NEW q \in Proc PROVE Holds(q)'
  BY DEF IInv, TypeOK, Holds, Opened
<1>6. Apart'
  BY DEF IInv, TypeOK, Apart
<1>. QED
  BY <1>1, <1>2, <1>3, <1>4, <1>5, <1>6 DEF IInv

LEMMA StatTemporaryInvariant ==
  ASSUME IInv, NEW p \in Proc, StatTemporary(p)
  PROVE  IInv'
<1>1. TypeOK'
  <2>. USE DEF IInv, StatTemporary, control, owned, state, file, signals, world
  <2>1. CASE ~SafePoint(p)
    BY <2>1, GotoTyped, RaiseTyped DEF TypeOK
  <2>2. CASE SafePoint(p) /\ ~MatchesPrivateFile(p, tempname[p])
    BY <2>2, GotoTyped, RaiseTyped DEF TypeOK
  <2>3. CASE SafePoint(p) /\ MatchesPrivateFile(p, tempname[p])
    BY <2>3, GotoTyped, RaiseTyped DEF TypeOK
  <2>. QED
    BY <2>1, <2>2, <2>3
<1>. USE NamesAssumption, EntriesAssumption, DirsAssumption, BoundsAssumption
<1>. USE DEF StatTemporary, Goto, Raise, SafePoint, MatchesPrivateFile, Entry, At,
             control, owned, state, file, signals, world
<1>2. ASSUME NEW q \in Proc PROVE Opened(q)'
  BY DEF IInv, TypeOK, Opened
<1>3. ASSUME NEW q \in Proc PROVE Written(q)'
  BY DEF IInv, TypeOK, Written
<1>4. ASSUME NEW q \in Proc PROVE Bound(q)'
  BY DEF IInv, TypeOK, Bound, Opened
<1>5. ASSUME NEW q \in Proc PROVE Holds(q)'
  BY DEF IInv, TypeOK, Holds, Opened
<1>6. Apart'
  BY DEF IInv, TypeOK, Apart
<1>. QED
  BY <1>1, <1>2, <1>3, <1>4, <1>5, <1>6 DEF IInv

LEMMA LinkInterruptedInvariant ==
  ASSUME IInv, NEW p \in Proc, LinkInterrupted(p)
  PROVE  IInv'
<1>1. TypeOK'
  BY DEF IInv, TypeOK, LinkInterrupted, Raise, SafePoint, At, control, owned, state,
     file, signals, world
<1>. USE NamesAssumption, EntriesAssumption, DirsAssumption, BoundsAssumption
<1>. USE DEF LinkInterrupted, Raise, SafePoint, At, control, owned, state, file,
             signals, world
<1>2. ASSUME NEW q \in Proc PROVE Opened(q)'
  BY DEF IInv, TypeOK, Opened
<1>3. ASSUME NEW q \in Proc PROVE Written(q)'
  BY DEF IInv, TypeOK, Written
<1>4. ASSUME NEW q \in Proc PROVE Bound(q)'
  BY DEF IInv, TypeOK, Bound, Opened
<1>5. ASSUME NEW q \in Proc PROVE Holds(q)'
  BY DEF IInv, TypeOK, Holds, Opened
<1>6. Apart'
  BY DEF IInv, TypeOK, Apart
<1>. QED
  BY <1>1, <1>2, <1>3, <1>4, <1>5, <1>6 DEF IInv

LEMMA ConfirmLinkInvariant ==
  ASSUME IInv, NEW p \in Proc, ConfirmLink(p)
  PROVE  IInv'
<1>1. TypeOK'
  BY DEF IInv, TypeOK, ConfirmLink, Goto, Raise, MatchesPrivateFile, Entry, At,
     control, owned, state, file, signals, world
<1>. USE NamesAssumption, EntriesAssumption, DirsAssumption, BoundsAssumption
<1>. USE DEF ConfirmLink, Goto, Raise, MatchesPrivateFile, Entry, At, control, owned,
             state, file, signals, world
<1>2. ASSUME NEW q \in Proc PROVE Opened(q)'
  BY DEF IInv, TypeOK, Opened
<1>3. ASSUME NEW q \in Proc PROVE Written(q)'
  BY DEF IInv, TypeOK, Written
<1>4. ASSUME NEW q \in Proc PROVE Bound(q)'
  BY DEF IInv, TypeOK, Bound, Opened
<1>5. ASSUME NEW q \in Proc PROVE Holds(q)'
  BY DEF IInv, TypeOK, Holds, Opened
<1>6. Apart'
  BY DEF IInv, TypeOK, Apart
<1>. QED
  BY <1>1, <1>2, <1>3, <1>4, <1>5, <1>6 DEF IInv

LEMMA VerifyFinalInvariant ==
  ASSUME IInv, NEW p \in Proc, VerifyFinal(p)
  PROVE  IInv'
<1>1. TypeOK'
  <2>. USE DEF IInv, VerifyFinal, control, owned, state, file, signals, world
  <2>1. CASE MatchesPrivateFile(p, Final)
    BY <2>1, GotoTyped, RaiseTyped DEF TypeOK
  <2>2. CASE ~MatchesPrivateFile(p, Final)
    BY <2>2, GotoTyped, RaiseTyped DEF TypeOK
  <2>. QED
    BY <2>1, <2>2
<1>. USE NamesAssumption, EntriesAssumption, DirsAssumption, BoundsAssumption
<1>. USE DEF VerifyFinal, Goto, Raise, MatchesPrivateFile, Entry, At, control, owned,
             state, file, signals, world
<1>2. ASSUME NEW q \in Proc PROVE Opened(q)'
  BY DEF IInv, TypeOK, Opened
<1>3. ASSUME NEW q \in Proc PROVE Written(q)'
  BY DEF IInv, TypeOK, Written
<1>4. ASSUME NEW q \in Proc PROVE Bound(q)'
  BY DEF IInv, TypeOK, Bound, Opened
<1>5. ASSUME NEW q \in Proc PROVE Holds(q)'
  BY DEF IInv, TypeOK, Holds, Opened
<1>6. Apart'
  BY DEF IInv, TypeOK, Apart
<1>. QED
  BY <1>1, <1>2, <1>3, <1>4, <1>5, <1>6 DEF IInv

LEMMA VerifyParentInvariant ==
  ASSUME IInv, NEW p \in Proc, VerifyParent(p)
  PROVE  IInv'
<1>1. TypeOK'
  BY DEF IInv, TypeOK, VerifyParent, Goto, Raise, ParentUnmoved, At, control, owned,
     state, file, signals, world
<1>. USE NamesAssumption, EntriesAssumption, DirsAssumption, BoundsAssumption
<1>. USE DEF VerifyParent, Goto, Raise, ParentUnmoved, At, control, owned, state,
             file, signals, world
<1>2. ASSUME NEW q \in Proc PROVE Opened(q)'
  BY DEF IInv, TypeOK, Opened
<1>3. ASSUME NEW q \in Proc PROVE Written(q)'
  BY DEF IInv, TypeOK, Written
<1>4. ASSUME NEW q \in Proc PROVE Bound(q)'
  BY DEF IInv, TypeOK, Bound, Opened
<1>5. ASSUME NEW q \in Proc PROVE Holds(q)'
  BY DEF IInv, TypeOK, Holds, Opened
<1>6. Apart'
  BY DEF IInv, TypeOK, Apart
<1>. QED
  BY <1>1, <1>2, <1>3, <1>4, <1>5, <1>6 DEF IInv

LEMMA CommitInvariant ==
  ASSUME IInv, NEW p \in Proc, Commit(p)
  PROVE  IInv'
<1>1. TypeOK'
  <2>. USE DEF IInv, Commit, control, owned, state, file, signals, world
  <2>1. CASE ~SafePoint(p)
    BY <2>1, GotoTyped, RaiseTyped DEF TypeOK
  <2>2. CASE SafePoint(p) /\ linkexc[p] = "other"
    BY <2>2, GotoTyped, RaiseTyped DEF TypeOK
  <2>3. CASE SafePoint(p) /\ linkexc[p] # "other"
    BY <2>3, GotoTyped, RaiseTyped DEF TypeOK
  <2>. QED
    BY <2>1, <2>2, <2>3
<1>. USE NamesAssumption, EntriesAssumption, DirsAssumption, BoundsAssumption
<1>. USE DEF Commit, Goto, Raise, SafePoint, At, control, owned, state, file,
             signals, world
<1>2. ASSUME NEW q \in Proc PROVE Opened(q)'
  BY DEF IInv, TypeOK, Opened
<1>3. ASSUME NEW q \in Proc PROVE Written(q)'
  BY DEF IInv, TypeOK, Written
<1>4. ASSUME NEW q \in Proc PROVE Bound(q)'
  BY DEF IInv, TypeOK, Bound, Opened
<1>5. ASSUME NEW q \in Proc PROVE Holds(q)'
  BY DEF IInv, TypeOK, Holds, Opened
<1>6. Apart'
  <2>1. \A q \in Proc \ {p} : committed'[q] = committed[q]
    BY DEF IInv, TypeOK
  <2>2. parent' = parent
    OBVIOUS
  <2>3. dir[parent[p]][Final] = p /\ powered
    BY DEF IInv, Holds
  <2>4. \A q \in Proc \ {p} : committed[q] => parent[q] # parent[p]
    BY <2>3 DEF IInv, Holds
  <2>. QED
    BY <2>1, <2>2, <2>4 DEF IInv, Apart
<1>. QED
  BY <1>1, <1>2, <1>3, <1>4, <1>5, <1>6 DEF IInv

LEMMA CheckFinalInvariant ==
  ASSUME IInv, NEW p \in Proc, CheckFinal(p)
  PROVE  IInv'
<1>1. TypeOK'
  <2>1. pc' \in [Proc -> Steps] /\ UNCHANGED <<exc, outcome>>
    BY GotoTyped DEF IInv, CheckFinal
  <2>2. residual' \in [Proc -> SUBSET Names]
    BY DEF IInv, CheckFinal, TypeOK
  <2>. QED
    BY <2>1, <2>2 DEF IInv, CheckFinal, TypeOK, owned, file, signals, world
<1>. USE NamesAssumption, EntriesAssumption, DirsAssumption, BoundsAssumption
<1>. USE DEF CheckFinal, Goto, RemovesFinal, MatchesPrivateFile, Entry, At, control,
             owned, state, file, signals, world
<1>2. ASSUME NEW q \in Proc PROVE Opened(q)'
  BY DEF IInv, TypeOK, Opened
<1>3. ASSUME NEW q \in Proc PROVE Written(q)'
  BY DEF IInv, TypeOK, Written
<1>4. ASSUME NEW q \in Proc PROVE Bound(q)'
  BY DEF IInv, TypeOK, Bound, Opened
<1>5. ASSUME NEW q \in Proc PROVE Holds(q)'
  BY DEF IInv, TypeOK, Holds, Opened
<1>6. Apart'
  BY DEF IInv, TypeOK, Apart
<1>. QED
  BY <1>1, <1>2, <1>3, <1>4, <1>5, <1>6 DEF IInv

LEMMA CheckTemporaryInvariant ==
  ASSUME IInv, NEW p \in Proc, CheckTemporary(p)
  PROVE  IInv'
<1>1. TypeOK'
  <2>1. pc' \in [Proc -> Steps] /\ UNCHANGED <<exc, outcome>>
    BY GotoTyped DEF IInv, CheckTemporary
  <2>2. residual' \in [Proc -> SUBSET Names]
    BY DEF IInv, CheckTemporary, TypeOK, RemovesTemporary
  <2>. QED
    BY <2>1, <2>2 DEF IInv, CheckTemporary, TypeOK, owned, file, signals, world
<1>. USE NamesAssumption, EntriesAssumption, DirsAssumption, BoundsAssumption
<1>. USE DEF CheckTemporary, Goto, RemovesTemporary, MatchesOpenFile, Entry, At,
             control, owned, state, file, signals, world
<1>2. ASSUME NEW q \in Proc PROVE Opened(q)'
  BY DEF IInv, TypeOK, Opened
<1>3. ASSUME NEW q \in Proc PROVE Written(q)'
  BY DEF IInv, TypeOK, Written
<1>4. ASSUME NEW q \in Proc PROVE Bound(q)'
  BY DEF IInv, TypeOK, Bound, Opened
<1>5. ASSUME NEW q \in Proc PROVE Holds(q)'
  BY DEF IInv, TypeOK, Holds, Opened
<1>6. Apart'
  BY DEF IInv, TypeOK, Apart
<1>. QED
  BY <1>1, <1>2, <1>3, <1>4, <1>5, <1>6 DEF IInv

LEMMA CloseInvariant ==
  ASSUME IInv, NEW p \in Proc, Close(p)
  PROVE  IInv'
<1>1. TypeOK'
  BY DEF IInv, TypeOK, Close, Goto, At, control, owned, state, file, signals, world
<1>. USE NamesAssumption, EntriesAssumption, DirsAssumption, BoundsAssumption
<1>. USE DEF Close, Goto, At, control, owned, state, file, signals, world
<1>2. ASSUME NEW q \in Proc PROVE Opened(q)'
  BY DEF IInv, TypeOK, Opened
<1>3. ASSUME NEW q \in Proc PROVE Written(q)'
  BY DEF IInv, TypeOK, Written
<1>4. ASSUME NEW q \in Proc PROVE Bound(q)'
  BY DEF IInv, TypeOK, Bound, Opened
<1>5. ASSUME NEW q \in Proc PROVE Holds(q)'
  BY DEF IInv, TypeOK, Holds, Opened
<1>6. Apart'
  BY DEF IInv, TypeOK, Apart
<1>. QED
  BY <1>1, <1>2, <1>3, <1>4, <1>5, <1>6 DEF IInv

LEMMA RestoreInvariant ==
  ASSUME IInv, NEW p \in Proc, Restore(p)
  PROVE  IInv'
<1>1. TypeOK'
  BY DEF IInv, TypeOK, Restore, RestoredOutcome, At, control, owned, state, file,
     signals, world
<1>. USE NamesAssumption, EntriesAssumption, DirsAssumption, BoundsAssumption
<1>. USE DEF Restore, RestoredOutcome, At, control, owned, state, file, signals, world
<1>2. ASSUME NEW q \in Proc PROVE Opened(q)'
  BY DEF IInv, TypeOK, Opened
<1>3. ASSUME NEW q \in Proc PROVE Written(q)'
  BY DEF IInv, TypeOK, Written
<1>4. ASSUME NEW q \in Proc PROVE Bound(q)'
  BY DEF IInv, TypeOK, Bound, Opened
<1>5. ASSUME NEW q \in Proc PROVE Holds(q)'
  BY DEF IInv, TypeOK, Holds, Opened
<1>6. Apart'
  BY DEF IInv, TypeOK, Apart
<1>. QED
  BY <1>1, <1>2, <1>3, <1>4, <1>5, <1>6 DEF IInv

LEMMA SignalInvariant ==
  ASSUME IInv, NEW p \in Proc, Signal(p)
  PROVE  IInv'
<1>1. TypeOK'
  <2>1. early' \in [Proc -> BOOLEAN]
    BY DEF IInv, TypeOK, Signal
  <2>2. pending' \in [Proc -> BOOLEAN]
    BY DEF IInv, TypeOK, Signal
  <2>. QED
    BY <2>1, <2>2 DEF IInv, TypeOK, Signal, control, owned, state, file, world
<1>. USE NamesAssumption, EntriesAssumption, DirsAssumption, BoundsAssumption
<1>. USE DEF Signal, At, control, owned, state, file, signals, world
<1>2. ASSUME NEW q \in Proc PROVE Opened(q)'
  BY DEF IInv, TypeOK, Opened
<1>3. ASSUME NEW q \in Proc PROVE Written(q)'
  BY DEF IInv, TypeOK, Written
<1>4. ASSUME NEW q \in Proc PROVE Bound(q)'
  BY DEF IInv, TypeOK, Bound, Opened
<1>5. ASSUME NEW q \in Proc PROVE Holds(q)'
  BY DEF IInv, TypeOK, Holds, Opened
<1>6. Apart'
  BY DEF IInv, TypeOK, Apart
<1>. QED
  BY <1>1, <1>2, <1>3, <1>4, <1>5, <1>6 DEF IInv

LEMMA KillInvariant ==
  ASSUME IInv, NEW p \in Proc, Kill(p)
  PROVE  IInv'
<1>1. TypeOK'
  BY DEF IInv, TypeOK, Kill, At, control, owned, state, file, signals, world
<1>. USE NamesAssumption, EntriesAssumption, DirsAssumption, BoundsAssumption
<1>. USE DEF Kill, At, control, owned, state, file, signals, world
<1>2. ASSUME NEW q \in Proc PROVE Opened(q)'
  BY DEF IInv, TypeOK, Opened
<1>3. ASSUME NEW q \in Proc PROVE Written(q)'
  BY DEF IInv, TypeOK, Written
<1>4. ASSUME NEW q \in Proc PROVE Bound(q)'
  BY DEF IInv, TypeOK, Bound, Opened
<1>5. ASSUME NEW q \in Proc PROVE Holds(q)'
  BY DEF IInv, TypeOK, Holds, Opened
<1>6. Apart'
  BY DEF IInv, TypeOK, Apart
<1>. QED
  BY <1>1, <1>2, <1>3, <1>4, <1>5, <1>6 DEF IInv

(***************************************************************************)
(* The steps that change a directory.                                      *)
(***************************************************************************)
LEMMA CreateTemporaryInvariant ==
  ASSUME IInv, NEW p \in Proc, CreateTemporary(p)
  PROVE  IInv'
<1>. USE NamesAssumption, EntriesAssumption, DirsAssumption, BoundsAssumption
<1>. USE DEF At, control, owned, state, signals, world
<1>0. /\ TypeOK /\ Opened(p) /\ Written(p) /\ Bound(p) /\ Holds(p) /\ pc[p] = "create"
      /\ parent[p] \in Dirs \ Shared /\ tempname[p] = NoName /\ length[p] = 0
  BY DEF IInv, CreateTemporary, Opened, Written
<1>1. PICK n \in TempNames, exact \in BOOLEAN :
        IF Entry(p, n) = Absent
          THEN /\ Goto(p, "chmod")
               /\ Bind(p, n, p)
               /\ tempname' = [tempname EXCEPT ![p] = n]
               /\ fds' = [fds EXCEPT ![p] = @ \cup {"temporary"}]
               /\ private' = [private EXCEPT ![p] = exact]
          ELSE UNCHANGED <<control, dir, tempname, fds, private>>
  BY DEF CreateTemporary
<1>2. attempts' \in [Proc -> 0..MaxAttempts]
  BY <1>0 DEF CreateTemporary, TypeOK
<1>3. UNCHANGED <<parent, length, synced, state, signals, world>>
  BY DEF CreateTemporary
<1>4. CASE Entry(p, n) = Absent
  <2>1. /\ Goto(p, "chmod")
        /\ tempname' = [tempname EXCEPT ![p] = n]
        /\ fds' = [fds EXCEPT ![p] = @ \cup {"temporary"}]
        /\ private' = [private EXCEPT ![p] = exact]
    BY <1>1, <1>4
  <2>2. /\ dir' \in [Dirs -> [Names -> Entries]]
        /\ \A d \in Dirs, m \in Names :
             dir'[d][m] = IF d = parent[p] /\ m = n THEN p ELSE dir[d][m]
    <3>1. Bind(p, n, p) /\ n \in Names /\ p \in Entries /\ parent[p] \in Dirs
      BY <1>0, <1>1, <1>4
    <3>. QED
      BY <1>0, <3>1 DEF Bind, TypeOK
  <2>3. dir[parent[p]][n] = Absent
    BY <1>4 DEF Entry
  <2>4. pc' \in [Proc -> Steps] /\ UNCHANGED <<exc, outcome>>
    BY <1>0, <2>1, GotoTyped
  <2>5. /\ tempname' \in [Proc -> TempNames \cup {NoName}]
        /\ fds' \in [Proc -> SUBSET {"parent", "temporary"}]
    BY <1>0, <2>1 DEF TypeOK
  <2>6. private' \in [Proc -> BOOLEAN]
    BY <1>0, <2>1 DEF TypeOK
  <2>7. TypeOK'
    BY <1>0, <1>2, <1>3, <2>2, <2>4, <2>5, <2>6 DEF TypeOK
  <2>8. \A q \in Proc \ {p} : /\ pc'[q] = pc[q] /\ tempname'[q] = tempname[q]
                              /\ fds'[q] = fds[q] /\ private'[q] = private[q]
    BY <1>0, <2>1 DEF TypeOK, Goto
  <2>9. pc'[p] = "chmod" /\ tempname'[p] = n
    BY <1>0, <2>1 DEF TypeOK, Goto
  <2>10. ASSUME NEW q \in Proc PROVE Opened(q)'
    BY <1>0, <1>3, <2>8, <2>9 DEF IInv, Opened
  <2>11. ASSUME NEW q \in Proc PROVE Written(q)'
    BY <1>0, <1>3, <2>8, <2>9 DEF IInv, Written
  <2>12. ASSUME NEW q \in Proc PROVE Bound(q)'
    BY <1>0, <1>3, <2>2, <2>8, <2>9 DEF IInv, Bound
  <2>13. ASSUME NEW q \in Proc PROVE Holds(q)'
    <3>1. CASE q = p
      BY <1>0, <1>3, <2>2, <2>9, <3>1 DEF Holds
    <3>2. CASE q # p
      BY <1>0, <1>3, <2>2, <2>3, <2>8, <3>2 DEF IInv, Holds, Opened, TypeOK
    <3>. QED
      BY <3>1, <3>2
  <2>14. Apart'
    BY <1>3 DEF IInv, Apart
  <2>. QED
    BY <2>7, <2>10, <2>11, <2>12, <2>13, <2>14 DEF IInv
<1>5. CASE Entry(p, n) # Absent
  <2>1. UNCHANGED <<control, dir, tempname, fds, private>>
    BY <1>1, <1>5
  <2>2. TypeOK'
    BY <1>0, <1>2, <1>3, <2>1 DEF TypeOK
  <2>3. \A q \in Proc : Opened(q)' /\ Written(q)' /\ Bound(q)' /\ Holds(q)'
    BY <1>3, <2>1 DEF IInv, Opened, Written, Bound, Holds
  <2>4. Apart'
    BY <1>3 DEF IInv, Apart
  <2>. QED
    BY <2>2, <2>3, <2>4 DEF IInv
<1>. QED
  BY <1>4, <1>5

\* A step of p that binds the final name to its complete report, or does not,
\* and goes on to the step next.
LEMMA BindFinalInvariant ==
  ASSUME IInv, NEW p \in Proc, pc[p] = "link", NEW next \in {"confirm", "verify"},
         Goto(p, next), dir[parent[p]][Final] = Absent,
         Bind(p, Final, Entry(p, tempname[p])),
         linkexc' \in [Proc -> {"none", "OSError", "other"}],
         UNCHANGED <<owned, committed, residual, file, signals, world>>
  PROVE  IInv'
<1>. USE NamesAssumption, EntriesAssumption, DirsAssumption, BoundsAssumption
<1>. USE DEF owned, file, signals, world
<1>1. /\ TypeOK /\ Opened(p) /\ Written(p) /\ Bound(p) /\ Holds(p)
      /\ parent[p] \in Dirs \ Shared /\ Entry(p, tempname[p]) = p
      /\ length[p] = Size /\ private[p] /\ synced[p] /\ powered /\ ~committed[p]
  BY DEF IInv, Opened, Written, Holds, Entry
<1>2. /\ dir' \in [Dirs -> [Names -> Entries]]
      /\ \A d \in Dirs, m \in Names :
           dir'[d][m] = IF d = parent[p] /\ m = Final THEN p ELSE dir[d][m]
  <2>1. Bind(p, Final, p) /\ Final \in Names /\ p \in Entries /\ parent[p] \in Dirs
    BY <1>1
  <2>. HIDE DEF Names, Entries
  <2>. QED
    BY <1>1, <2>1 DEF Bind, TypeOK
<1>3. /\ pc' \in [Proc -> Steps] /\ UNCHANGED <<exc, outcome>>
      /\ \A q \in Proc \ {p} : pc'[q] = pc[q]
      /\ pc'[p] = next
  BY <1>1, GotoTyped DEF Goto, TypeOK
<1>4. TypeOK'
  BY <1>1, <1>2, <1>3 DEF TypeOK
<1>5. ASSUME NEW q \in Proc PROVE Opened(q)'
  BY <1>1, <1>3 DEF IInv, Opened
<1>6. ASSUME NEW q \in Proc PROVE Written(q)'
  BY <1>1, <1>3 DEF IInv, Written
<1>7. ASSUME NEW q \in Proc PROVE Bound(q)'
  BY <1>1, <1>2, <1>3 DEF IInv, Bound
<1>8. ASSUME NEW q \in Proc PROVE Holds(q)'
  <2>1. CASE q = p
    BY <1>1, <1>2, <1>3, <2>1 DEF Holds, Opened, TypeOK
  <2>2. CASE q # p
    <3>1. \A d \in Dirs, m \in Names : dir[d][m] = q => dir'[d][m] = q
      BY <1>2, <2>2
    <3>2. /\ Holds(q) /\ Opened(q) /\ pc'[q] = pc[q]
          /\ tempname[q] \in TempNames \cup {NoName}
      BY <1>1, <1>3, <2>2 DEF IInv, TypeOK
    <3>. QED
      BY <3>1, <3>2 DEF Holds, Opened
  <2>. QED
    BY <2>1, <2>2
<1>9. Apart'
  BY DEF IInv, Apart
<1>. QED
  BY <1>4, <1>5, <1>6, <1>7, <1>8, <1>9 DEF IInv

LEMMA LinkInvariant ==
  ASSUME IInv, NEW p \in Proc, Link(p)
  PROVE  IInv'
<1>1. linkexc' \in [Proc -> {"none", "OSError", "other"}]
  BY DEF IInv, TypeOK, Link, state
<1>. QED
  BY <1>1, BindFinalInvariant DEF Link, At, Entry, state

LEMMA LinkRaisesInvariant ==
  ASSUME IInv, NEW p \in Proc, LinkRaises(p)
  PROVE  IInv'
<1>1. linkexc' \in [Proc -> {"none", "OSError", "other"}]
  BY DEF IInv, TypeOK, LinkRaises
<1>2. CASE dir' # dir
  BY <1>1, <1>2, BindFinalInvariant DEF LinkRaises, At, Entry
<1>3. CASE dir' = dir
  <2>1. /\ pc' \in [Proc -> Steps] /\ UNCHANGED <<exc, outcome>>
        /\ \A q \in Proc \ {p} : pc'[q] = pc[q]
        /\ pc[p] = "link" /\ pc'[p] = "confirm"
    BY GotoTyped DEF IInv, TypeOK, LinkRaises, Goto, At
  <2>2. UNCHANGED <<owned, committed, residual, file, signals, world>>
    BY DEF LinkRaises
  <2>3. TypeOK'
    BY <1>1, <1>3, <2>1, <2>2 DEF IInv, TypeOK, owned, file, signals, world
  <2>4. ASSUME NEW q \in Proc PROVE Opened(q)' /\ Written(q)'
    BY <2>1, <2>2 DEF IInv, Opened, Written, owned, file
  <2>5. ASSUME NEW q \in Proc PROVE Bound(q)' /\ Holds(q)'
    BY <1>3, <2>1, <2>2 DEF IInv, Bound, Holds, owned, file, world
  <2>6. Apart'
    BY <2>2 DEF IInv, Apart, owned
  <2>. QED
    BY <2>3, <2>4, <2>5, <2>6 DEF IInv
<1>. QED
  BY <1>2, <1>3

\* A step of p that removes its own entry n, or fails to, and goes on.
LEMMA UnbindInvariant ==
  ASSUME IInv, NEW p \in Proc, NEW n \in Names, NEW next \in {"untemp", "close"},
         Goto(p, next), parent[p] \in Dirs, dir[parent[p]][n] = p,
         \/ pc[p] = "rmfinal" /\ ~committed[p]
         \/ pc[p] = "rmtemp" /\ n # Final,
         Bind(p, n, Absent) \/ UNCHANGED dir,
         residual' \in [Proc -> SUBSET Names],
         UNCHANGED <<owned, linkexc, committed, file, signals, world>>
  PROVE  IInv'
<1>. USE NamesAssumption, EntriesAssumption, DirsAssumption, BoundsAssumption
<1>. USE DEF owned, file, signals, world
<1>1. TypeOK
  BY DEF IInv
<1>2. /\ dir' \in [Dirs -> [Names -> Entries]]
      /\ \A d \in Dirs, m \in Names :
           dir'[d][m] = dir[d][m] \/ (dir'[d][m] = Absent /\ d = parent[p] /\ m = n)
  <2>1. Absent \in Entries
    OBVIOUS
  <2>. HIDE DEF Names, Entries
  <2>2. CASE Bind(p, n, Absent)
    BY <1>1, <2>1, <2>2 DEF Bind, TypeOK
  <2>3. CASE UNCHANGED dir
    BY <1>1, <2>3 DEF TypeOK
  <2>. QED
    BY <2>2, <2>3
<1>3. /\ pc' \in [Proc -> Steps] /\ UNCHANGED <<exc, outcome>>
      /\ \A q \in Proc \ {p} : pc'[q] = pc[q]
      /\ pc'[p] = next
  BY <1>1, GotoTyped DEF Goto, TypeOK
<1>4. TypeOK'
  BY <1>1, <1>2, <1>3 DEF TypeOK
<1>5. ASSUME NEW q \in Proc PROVE Opened(q)' /\ Written(q)'
  BY <1>1, <1>3 DEF IInv, Opened, Written
<1>6. ASSUME NEW q \in Proc PROVE Bound(q)'
  BY <1>1, <1>2, <1>3 DEF IInv, Bound
<1>7. ASSUME NEW q \in Proc PROVE Holds(q)'
  <2>1. CASE q = p
    BY <1>1, <1>2, <1>3, <2>1 DEF IInv, Holds, TypeOK
  <2>2. CASE q # p
    <3>1. \A d \in Dirs, m \in Names : dir[d][m] = q => dir'[d][m] = q
      BY <1>2, <2>2
    <3>2. /\ Holds(q) /\ Opened(q) /\ pc'[q] = pc[q]
          /\ tempname[q] \in TempNames \cup {NoName}
      BY <1>1, <1>3, <2>2 DEF IInv, TypeOK
    <3>. QED
      BY <3>1, <3>2 DEF Holds, Opened
  <2>. QED
    BY <2>1, <2>2
<1>8. Apart'
  BY DEF IInv, Apart
<1>. QED
  BY <1>4, <1>5, <1>6, <1>7, <1>8 DEF IInv

LEMMA RemoveFinalInvariant ==
  ASSUME IInv, NEW p \in Proc, RemoveFinal(p)
  PROVE  IInv'
<1>1. /\ pc[p] = "rmfinal" /\ ~committed[p] /\ parent[p] \in Dirs
      /\ dir[parent[p]][Final] = p
  BY DEF IInv, Opened, Holds, RemoveFinal, At
<1>2. residual' \in [Proc -> SUBSET Names]
  BY DEF IInv, TypeOK, RemoveFinal
<1>3. /\ (Goto(p, "untemp") /\ Bind(p, Final, Absent)) \/ UNCHANGED dir
      /\ UNCHANGED <<owned, linkexc, committed, file, signals, world>>
  BY DEF RemoveFinal
<1>. QED
  BY <1>1, <1>2, <1>3, UnbindInvariant DEF RemoveFinal

LEMMA RemoveTemporaryInvariant ==
  ASSUME IInv, NEW p \in Proc, RemoveTemporary(p)
  PROVE  IInv'
<1>1. /\ pc[p] = "rmtemp" /\ tempname[p] \in TempNames /\ parent[p] \in Dirs
      /\ dir[parent[p]][tempname[p]] = p
  BY DEF IInv, TypeOK, Opened, Holds, RemoveTemporary, At
<1>2. residual' \in [Proc -> SUBSET Names]
  BY <1>1 DEF IInv, TypeOK, RemoveTemporary
<1>3. /\ (Goto(p, "close") /\ Bind(p, tempname[p], Absent)) \/ UNCHANGED dir
      /\ UNCHANGED <<owned, linkexc, committed, file, signals, world>>
  BY DEF RemoveTemporary
<1>. QED
  BY <1>1, <1>2, <1>3, UnbindInvariant, NamesAssumption DEF RemoveTemporary

(***************************************************************************)
(* The environment.                                                        *)
(***************************************************************************)
LEMMA PowerLossInvariant == IInv /\ PowerLoss => IInv'
<1>. SUFFICES ASSUME IInv, PowerLoss PROVE IInv'
  OBVIOUS
<1>. USE EntriesAssumption, BoundsAssumption DEF state, signals
<1>1. TypeOK /\ pc' \in [Proc -> {"done", "killed"}] /\ ~powered'
  BY DEF IInv, PowerLoss
<1>2. PICK kept \in [Proc -> 0..Size] :
        /\ \A p \in Proc : kept[p] <= length[p] /\ (synced[p] => kept[p] = length[p])
        /\ length' = kept
  BY DEF PowerLoss
<1>3. PICK lost \in SUBSET (Dirs \X Names) :
        dir' = [d \in Dirs |-> [n \in Names |->
                  IF <<d, n>> \in lost /\ dir[d][n] \in Proc
                  THEN Absent ELSE dir[d][n]]]
  BY DEF PowerLoss
<1>4. dir' \in [Dirs -> [Names -> Entries]]
  BY <1>1, <1>3 DEF TypeOK
<1>5. \A d \in Dirs, n \in Names, p \in Proc : dir'[d][n] = p => dir[d][n] = p
  BY <1>3
<1>6. UNCHANGED <<exc, outcome, parent, tempname, attempts, state, private, synced,
                 signals, parentAt>> /\ fds' = [p \in Proc |-> {}]
  BY DEF PowerLoss
<1>7. TypeOK'
  BY <1>1, <1>2, <1>4, <1>6 DEF TypeOK, PowerLoss
<1>8. ASSUME NEW p \in Proc PROVE Opened(p)'
  BY <1>1, <1>6 DEF IInv, Opened
<1>9. ASSUME NEW p \in Proc PROVE Written(p)'
  BY <1>1, <1>2, <1>6 DEF IInv, Written, TypeOK
<1>10. ASSUME NEW p \in Proc PROVE Bound(p)'
  BY <1>1, <1>2, <1>5, <1>6 DEF IInv, Bound
<1>11. ASSUME NEW p \in Proc PROVE Holds(p)'
  BY <1>1, <1>6 DEF IInv, Holds
<1>12. Apart'
  BY <1>6 DEF IInv, Apart
<1>. QED
  BY <1>7, <1>8, <1>9, <1>10, <1>11, <1>12 DEF IInv

LEMMA MoveParentInvariant == IInv /\ MoveParent => IInv'
<1>. SUFFICES ASSUME IInv, MoveParent PROVE IInv'
  OBVIOUS
<1>. USE DEF MoveParent, control, owned, state, file, signals
<1>1. TypeOK'
  BY DEF IInv, TypeOK
<1>2. \A p \in Proc : Opened(p)' /\ Written(p)' /\ Bound(p)' /\ Holds(p)'
  BY DEF IInv, Opened, Written, Bound, Holds
<1>3. Apart'
  BY DEF IInv, Apart
<1>. QED
  BY <1>1, <1>2, <1>3 DEF IInv

\* A step of other programs never adds a link to a report nor takes one away.
LEMMA ForeignInvariant ==
  ASSUME IInv, dir' \in [Dirs -> [Names -> Entries]],
         \A d \in Dirs, n \in Names, p \in Proc : dir'[d][n] = p <=> dir[d][n] = p,
         UNCHANGED <<control, owned, state, file, signals, world>>
  PROVE  IInv'
<1>. USE DEF control, owned, state, file, signals, world
<1>1. TypeOK'
  BY DEF IInv, TypeOK
<1>2. \A p \in Proc : Opened(p)' /\ Written(p)' /\ Bound(p)'
  BY DEF IInv, Opened, Written, Bound
<1>3. ASSUME NEW p \in Proc PROVE Holds(p)'
  BY NamesAssumption DEF IInv, TypeOK, Holds, Opened
<1>4. Apart'
  BY DEF IInv, Apart
<1>. QED
  BY <1>1, <1>2, <1>3, <1>4 DEF IInv

LEMMA ForeignStepsInvariant ==
  ASSUME IInv, NEW d \in Dirs, NEW m \in Names, NEW n \in Names,
         ForeignCreate(d, n) \/ ForeignRemove(d, n) \/ ForeignRename(d, m, n)
  PROVE  IInv'
<1>1. dir \in [Dirs -> [Names -> Entries]]
  BY DEF IInv, TypeOK
<1>2. \A p \in Proc, k \in Names : d \in Shared => dir[d][k] # p
  BY DEF IInv, Bound
<1>3. UNCHANGED <<control, owned, state, file, signals, world>>
  BY DEF ForeignCreate, ForeignRemove, ForeignRename
<1>4. CASE ForeignCreate(d, n) \/ ForeignRemove(d, n)
  <2>1. dir' \in [Dirs -> [Names -> Entries]]
    <3>1. Absent \in Entries /\ Foreign \in Entries
      OBVIOUS
    <3>. HIDE DEF Names, Entries
    <3>. QED
      BY <1>1, <1>4, <3>1 DEF ForeignCreate, ForeignRemove
  <2>2. \A c \in Dirs, k \in Names, p \in Proc : dir'[c][k] = p <=> dir[c][k] = p
    BY <1>1, <1>4, EntriesAssumption DEF ForeignCreate, ForeignRemove
  <2>. QED
    BY <1>3, <2>1, <2>2, ForeignInvariant
<1>5. CASE ForeignRename(d, m, n)
  BY <1>1, <1>2, <1>3, <1>5, EntriesAssumption, ForeignInvariant DEF ForeignRename
<1>. QED
  BY <1>4, <1>5

LEMMA NextInvariant == IInv /\ [Next]_vars => IInv'
<1>. SUFFICES ASSUME IInv, [Next]_vars PROVE IInv'
  OBVIOUS
<1>1. ASSUME NEW p \in Proc, Publish(p) PROVE IInv'
  BY <1>1, RejectInvariant, BeginInvariant, SystemCallFailsInvariant,
     OpenParentInvariant, CheckParentInvariant, ProbeFinalInvariant,
     CreateTemporaryInvariant, CreateExhaustedInvariant, ForceModeInvariant,
     WriteInvariant, SyncInvariant, StatTemporaryInvariant, LinkInvariant,
     LinkInterruptedInvariant, LinkRaisesInvariant, ConfirmLinkInvariant,
     VerifyFinalInvariant, VerifyParentInvariant, CommitInvariant
  DEF Publish
<1>2. ASSUME NEW p \in Proc, CleanUp(p) PROVE IInv'
  BY <1>2, CheckFinalInvariant, RemoveFinalInvariant, CheckTemporaryInvariant,
     RemoveTemporaryInvariant, CloseInvariant, RestoreInvariant
  DEF CleanUp
<1>3. CASE Environment
  BY <1>3, SignalInvariant, KillInvariant, PowerLossInvariant, MoveParentInvariant,
     ForeignStepsInvariant
  DEF Environment
<1>4. CASE UNCHANGED vars
  <2>. USE DEF vars, control, owned, state, file, signals, world
  <2>1. TypeOK'
    BY <1>4 DEF IInv, TypeOK
  <2>2. \A p \in Proc : Opened(p)' /\ Written(p)' /\ Bound(p)' /\ Holds(p)'
    BY <1>4 DEF IInv, Opened, Written, Bound, Holds
  <2>3. Apart'
    BY <1>4 DEF IInv, Apart
  <2>. QED
    BY <2>1, <2>2, <2>3 DEF IInv
<1>. QED
  BY <1>1, <1>2, <1>3, <1>4 DEF Next

\* The inductive invariant holds in every reachable state.
THEOREM Invariance == Spec => []IInv
<1>. QED
  BY InitInvariant, NextInvariant, PTL DEF Spec

\* Every variable keeps its type.
THEOREM TypeCorrectness == Spec => []TypeOK
<1>1. IInv => TypeOK
  BY DEF IInv
<1>. QED
  BY <1>1, Invariance, PTL

\* A report that can be read under the requested name is complete, has mode 0600
\* and is on disk, whatever fails, is killed or interferes.
THEOREM ReportsComplete == Spec => []CompleteReport
<1>1. IInv => CompleteReport
  BY DEF IInv, Bound, Written, CompleteReport
<1>. QED
  BY <1>1, Invariance, PTL

\* A committed report stays under the requested name.
THEOREM CommitsLast == Spec => []CommittedStays
<1>1. IInv => CommittedStays
  BY DEF IInv, Holds, CommittedStays
<1>. QED
  BY <1>1, Invariance, PTL

\* When a process passes its last check, the requested path leads to the
\* directory that holds its report, although the two were looked at one after
\* the other.
THEOREM CommitsVisibleReports == Spec => CommitsWhatThePathShows
<1>1. IInv /\ [Next]_vars =>
        [\A p \in Proc : pc[p] # "commit" /\ pc'[p] = "commit" =>
           parentAt \in Dirs /\ dir[parentAt][Final] = p]_vars
  <2>. SUFFICES ASSUME IInv, Next, NEW p \in Proc, pc[p] # "commit", pc'[p] = "commit"
                PROVE  parentAt \in Dirs /\ dir[parentAt][Final] = p
    OBVIOUS
  <2>1. pc \in [Proc -> Steps]
    BY DEF IInv, TypeOK
  <2>2. ASSUME NEW q \in Proc, Publish(q), ~VerifyParent(q)
        PROVE  pc'[p] # "commit" \/ pc[p] = "commit"
    BY <2>1, <2>2
    DEF Publish, Reject, Begin, SystemCallFails, OpenParent, CheckParent, ProbeFinal,
        CreateTemporary, CreateExhausted, ForceMode, Write, Sync, StatTemporary, Link,
        LinkInterrupted, LinkRaises, ConfirmLink, VerifyFinal, Commit, Goto, Raise,
        control
  <2>3. ASSUME NEW q \in Proc, CleanUp(q)
        PROVE  pc'[p] # "commit" \/ pc[p] = "commit"
    BY <2>1, <2>3
    DEF CleanUp, CheckFinal, RemoveFinal, CheckTemporary, RemoveTemporary, Close,
        Restore, Goto
  <2>4. ~Environment
    BY <2>1
    DEF Environment, Signal, Kill, PowerLoss, MoveParent, ForeignCreate, ForeignRemove,
        ForeignRename, control
  <2>5. PICK q \in Proc : VerifyParent(q)
    <3>1. PICK q \in Proc : Publish(q) \/ CleanUp(q)
      BY <2>4 DEF Next
    <3>. QED
      BY <2>2, <2>3, <3>1
  <2>6. q = p /\ pc[p] = "reparent" /\ parentAt = parent[p]
    BY <2>1, <2>5 DEF VerifyParent, At, Goto, Raise, ParentUnmoved
  <2>. QED
    BY <2>6 DEF IInv, Holds, Opened
<1>. QED
  BY <1>1, Invariance, PTL DEF Spec, CommitsWhatThePathShows

(***************************************************************************)
(* What a process reports, and what it leaves behind.                      *)
(***************************************************************************)

\* A step that does not touch a process keeps what is known of it.
LEMMA ToldKept ==
  ASSUME NEW p \in Proc, Told(p), pc'[p] = pc[p], exc'[p] = exc[p],
         outcome'[p] = outcome[p], committed'[p] = committed[p],
         pending'[p] = pending[p], early'[p] = early[p]
  PROVE  Told(p)'
BY DEF Told

LEMMA LeftKept ==
  ASSUME NEW p \in Proc, Left(p), pc'[p] = pc[p], fds'[p] = fds[p],
         tempname'[p] = tempname[p], committed'[p] = committed[p],
         residual'[p] = residual[p],
         \A d \in Dirs, n \in Names : dir'[d][n] = p => dir[d][n] = p
  PROVE  Left(p)'
BY DEF Left

\* The entries a process makes and removes are its own.
LEMMA BindsOwn ==
  ASSUME TypeOK, NEW p \in Proc, NEW q \in Proc, q # p, NEW n \in Names,
         parent[p] \in Dirs, NEW e \in {p, Absent}, Bind(p, n, e) \/ UNCHANGED dir
  PROVE  \A d \in Dirs, m \in Names : dir'[d][m] = q => dir[d][m] = q
<1>. HIDE DEF Names, Entries
<1>. QED
  BY EntriesAssumption DEF Bind, TypeOK

\* Whatever one process does, it changes nothing of another.
LEMMA OthersKept ==
  ASSUME IInv, NEW p \in Proc, NEW q \in Proc, q # p, Publish(p) \/ CleanUp(p)
  PROVE  /\ pc'[q] = pc[q] /\ exc'[q] = exc[q] /\ outcome'[q] = outcome[q]
         /\ fds'[q] = fds[q] /\ tempname'[q] = tempname[q]
         /\ committed'[q] = committed[q] /\ residual'[q] = residual[q]
         /\ pending'[q] = pending[q] /\ early'[q] = early[q]
         /\ \A d \in Dirs, n \in Names : dir'[d][n] = q => dir[d][n] = q
<1>. USE EntriesAssumption
<1>. USE DEF At, Goto, Raise, control, owned, state, file, signals, world
<1>1. TypeOK /\ Opened(p) /\ Holds(p)
  BY DEF IInv
<1>2. CASE Reject(p)
  BY <1>1, <1>2 DEF Reject
<1>3. CASE Begin(p)
  BY <1>1, <1>3 DEF Begin
<1>4. CASE SystemCallFails(p)
  BY <1>1, <1>4 DEF SystemCallFails
<1>5. CASE OpenParent(p)
  BY <1>1, <1>5 DEF OpenParent, TypeOK
<1>6. CASE CheckParent(p)
  BY <1>1, <1>6 DEF CheckParent, TypeOK
<1>7. CASE ProbeFinal(p)
  BY <1>1, <1>7 DEF ProbeFinal, TypeOK
<1>8. CASE CreateTemporary(p)
  <2>1. \A d \in Dirs, n \in Names : dir'[d][n] = q => dir[d][n] = q
    <3>1. parent[p] \in Dirs
      BY <1>1, <1>8 DEF CreateTemporary, Opened
    <3>2. \E k \in Names, e \in {p, Absent} : Bind(p, k, e) \/ UNCHANGED dir
      BY <1>1, <1>8 DEF CreateTemporary, Holds
    <3>. QED
      BY <1>1, <3>1, <3>2, BindsOwn
  <2>. QED
    BY <1>1, <1>8, <2>1 DEF CreateTemporary, TypeOK
<1>9. CASE CreateExhausted(p)
  BY <1>1, <1>9 DEF CreateExhausted
<1>10. CASE ForceMode(p)
  BY <1>1, <1>10 DEF ForceMode, TypeOK
<1>11. CASE Write(p)
  BY <1>1, <1>11 DEF Write
<1>12. CASE Sync(p)
  BY <1>1, <1>12 DEF Sync
<1>13. CASE StatTemporary(p)
  BY <1>1, <1>13 DEF StatTemporary, TypeOK
<1>14. CASE Link(p)
  <2>1. \A d \in Dirs, n \in Names : dir'[d][n] = q => dir[d][n] = q
    <3>1. parent[p] \in Dirs
      BY <1>1, <1>14 DEF Link, Opened
    <3>2. \E k \in Names, e \in {p, Absent} : Bind(p, k, e) \/ UNCHANGED dir
      BY <1>1, <1>14 DEF Link, Holds, Entry
    <3>. QED
      BY <1>1, <3>1, <3>2, BindsOwn
  <2>. QED
    BY <1>1, <1>14, <2>1 DEF Link, TypeOK
<1>15. CASE LinkInterrupted(p)
  BY <1>1, <1>15 DEF LinkInterrupted
<1>16. CASE LinkRaises(p)
  <2>1. \A d \in Dirs, n \in Names : dir'[d][n] = q => dir[d][n] = q
    <3>1. parent[p] \in Dirs
      BY <1>1, <1>16 DEF LinkRaises, Opened
    <3>2. \E k \in Names, e \in {p, Absent} : Bind(p, k, e) \/ UNCHANGED dir
      BY <1>1, <1>16 DEF LinkRaises, Holds, Entry
    <3>. QED
      BY <1>1, <3>1, <3>2, BindsOwn
  <2>. QED
    BY <1>1, <1>16, <2>1 DEF LinkRaises, TypeOK
<1>17. CASE ConfirmLink(p)
  BY <1>1, <1>17 DEF ConfirmLink, TypeOK
<1>18. CASE VerifyFinal(p)
  BY <1>1, <1>18 DEF VerifyFinal, TypeOK
<1>19. CASE VerifyParent(p)
  BY <1>1, <1>19 DEF VerifyParent, TypeOK
<1>20. CASE Commit(p)
  BY <1>1, <1>20 DEF Commit, TypeOK
<1>21. CASE CheckFinal(p)
  BY <1>1, <1>21 DEF CheckFinal, TypeOK
<1>22. CASE RemoveFinal(p)
  <2>1. \A d \in Dirs, n \in Names : dir'[d][n] = q => dir[d][n] = q
    <3>1. parent[p] \in Dirs
      BY <1>1, <1>22 DEF RemoveFinal, Opened
    <3>2. \E k \in Names, e \in {p, Absent} : Bind(p, k, e) \/ UNCHANGED dir
      BY <1>1, <1>22 DEF RemoveFinal, Holds
    <3>. QED
      BY <1>1, <3>1, <3>2, BindsOwn
  <2>. QED
    BY <1>1, <1>22, <2>1 DEF RemoveFinal, TypeOK
<1>23. CASE CheckTemporary(p)
  BY <1>1, <1>23 DEF CheckTemporary, TypeOK
<1>24. CASE RemoveTemporary(p)
  <2>1. \A d \in Dirs, n \in Names : dir'[d][n] = q => dir[d][n] = q
    <3>1. parent[p] \in Dirs
      BY <1>1, <1>24 DEF RemoveTemporary, Opened
    <3>2. \E k \in Names, e \in {p, Absent} : Bind(p, k, e) \/ UNCHANGED dir
      BY <1>1, <1>24 DEF RemoveTemporary, Opened, TypeOK
    <3>. QED
      BY <1>1, <3>1, <3>2, BindsOwn
  <2>. QED
    BY <1>1, <1>24, <2>1 DEF RemoveTemporary, TypeOK
<1>25. CASE Close(p)
  BY <1>1, <1>25 DEF Close
<1>26. CASE Restore(p)
  BY <1>1, <1>26 DEF Restore
<1>. QED
  BY <1>2, <1>3, <1>4, <1>5, <1>6, <1>7, <1>8, <1>9, <1>10, <1>11, <1>12, <1>13,
     <1>14, <1>15, <1>16, <1>17, <1>18, <1>19, <1>20, <1>21, <1>22, <1>23, <1>24,
     <1>25, <1>26 DEF Publish, CleanUp

\* Its own steps keep what a process reports true to what it did ...
LEMMA OwnTold ==
  ASSUME IInv, NEW p \in Proc, Told(p), Publish(p) \/ CleanUp(p)
  PROVE  Told(p)'
<1>. USE DEF At, Goto, Raise, SafePoint, control, owned, state, file, signals, world
<1>1. TypeOK /\ Holds(p)
  BY DEF IInv
<1>2. CASE Reject(p)
  BY <1>1, <1>2 DEF Reject, TypeOK, Told
<1>3. CASE Begin(p)
  BY <1>1, <1>3 DEF Begin, Told
<1>4. CASE SystemCallFails(p)
  BY <1>1, <1>4 DEF SystemCallFails, TypeOK, Holds, Told
<1>5. CASE OpenParent(p)
  BY <1>1, <1>5 DEF OpenParent, TypeOK, Holds, Told
<1>6. CASE CheckParent(p)
  BY <1>1, <1>6 DEF CheckParent, TypeOK, Holds, Told
<1>7. CASE ProbeFinal(p)
  BY <1>1, <1>7 DEF ProbeFinal, TypeOK, Holds, Told
<1>8. CASE CreateTemporary(p)
  BY <1>1, <1>8 DEF CreateTemporary, TypeOK, Told
<1>9. CASE CreateExhausted(p)
  BY <1>1, <1>9 DEF CreateExhausted, TypeOK, Holds, Told
<1>10. CASE ForceMode(p)
  BY <1>1, <1>10 DEF ForceMode, TypeOK, Told
<1>11. CASE Write(p)
  BY <1>1, <1>11 DEF Write, Told
<1>12. CASE Sync(p)
  BY <1>1, <1>12 DEF Sync, Told
<1>13. CASE StatTemporary(p)
  BY <1>1, <1>13 DEF StatTemporary, TypeOK, Holds, Told
<1>14. CASE Link(p)
  BY <1>1, <1>14 DEF Link, Told
<1>15. CASE LinkInterrupted(p)
  BY <1>1, <1>15 DEF LinkInterrupted, TypeOK, Told
<1>16. CASE LinkRaises(p)
  BY <1>1, <1>16 DEF LinkRaises, Told
<1>17. CASE ConfirmLink(p)
  BY <1>1, <1>17 DEF ConfirmLink, TypeOK, Holds, Told
<1>18. CASE VerifyFinal(p)
  BY <1>1, <1>18 DEF VerifyFinal, TypeOK, Holds, Told
<1>19. CASE VerifyParent(p)
  BY <1>1, <1>19 DEF VerifyParent, TypeOK, Holds, Told
<1>20. CASE Commit(p)
  BY <1>1, <1>20 DEF Commit, TypeOK, Told
<1>21. CASE CheckFinal(p)
  BY <1>1, <1>21 DEF CheckFinal, TypeOK, Told
<1>22. CASE RemoveFinal(p)
  BY <1>1, <1>22 DEF RemoveFinal, Told
<1>23. CASE CheckTemporary(p)
  BY <1>1, <1>23 DEF CheckTemporary, TypeOK, Told
<1>24. CASE RemoveTemporary(p)
  BY <1>1, <1>24 DEF RemoveTemporary, Told
<1>25. CASE Close(p)
  BY <1>1, <1>25 DEF Close, Told
<1>26. CASE Restore(p)
  BY <1>1, <1>26 DEF Restore, TypeOK, Told, RestoredOutcome
<1>. QED
  BY <1>2, <1>3, <1>4, <1>5, <1>6, <1>7, <1>8, <1>9, <1>10, <1>11, <1>12, <1>13,
     <1>14, <1>15, <1>16, <1>17, <1>18, <1>19, <1>20, <1>21, <1>22, <1>23, <1>24,
     <1>25, <1>26 DEF Publish, CleanUp

\* ... and clean up what it is going to leave, in the order of _cleanup_publication.
LEMMA OwnLeft ==
  ASSUME IInv, NEW p \in Proc, Left(p), Publish(p) \/ CleanUp(p)
  PROVE  Left(p)'
<1>. USE NamesAssumption, EntriesAssumption
<1>. USE DEF At, Goto, Raise, Bind, Entry, control, owned, state, file, signals, world
<1>1. TypeOK /\ Opened(p) /\ Bound(p)
  BY DEF IInv
<1>2. CASE Reject(p)
  BY <1>1, <1>2 DEF Reject, Opened, Left
<1>3. CASE Begin(p)
  BY <1>1, <1>3 DEF Begin, Opened, Left
<1>4. CASE SystemCallFails(p)
  BY <1>1, <1>4 DEF SystemCallFails, Left
<1>5. CASE OpenParent(p)
  BY <1>1, <1>5 DEF OpenParent, TypeOK, Opened, Left
<1>6. CASE CheckParent(p)
  BY <1>1, <1>6 DEF CheckParent, TypeOK, Left
<1>7. CASE ProbeFinal(p)
  BY <1>1, <1>7 DEF ProbeFinal, TypeOK, Left
<1>8. CASE CreateTemporary(p)
  BY <1>1, <1>8 DEF CreateTemporary, TypeOK, Left
<1>9. CASE CreateExhausted(p)
  BY <1>1, <1>9 DEF CreateExhausted, Left
<1>10. CASE ForceMode(p)
  BY <1>1, <1>10 DEF ForceMode, TypeOK, Left
<1>11. CASE Write(p)
  BY <1>1, <1>11 DEF Write, Left
<1>12. CASE Sync(p)
  BY <1>1, <1>12 DEF Sync, Left
<1>13. CASE StatTemporary(p)
  BY <1>1, <1>13 DEF StatTemporary, TypeOK, Left
<1>14. CASE Link(p)
  BY <1>1, <1>14 DEF Link, Opened, Left
<1>15. CASE LinkInterrupted(p)
  BY <1>1, <1>15 DEF LinkInterrupted, Left
<1>16. CASE LinkRaises(p)
  BY <1>1, <1>16 DEF LinkRaises, Opened, Left
<1>17. CASE ConfirmLink(p)
  BY <1>1, <1>17 DEF ConfirmLink, TypeOK, Left
<1>18. CASE VerifyFinal(p)
  BY <1>1, <1>18 DEF VerifyFinal, TypeOK, Left
<1>19. CASE VerifyParent(p)
  BY <1>1, <1>19 DEF VerifyParent, TypeOK, Left
<1>20. CASE Commit(p)
  BY <1>1, <1>20 DEF Commit, TypeOK, Left
<1>21. CASE CheckFinal(p)
  BY <1>1, <1>21 DEF CheckFinal, TypeOK, Bound, Left, RemovesFinal, MatchesPrivateFile
<1>22. CASE RemoveFinal(p)
  BY <1>1, <1>22 DEF RemoveFinal, TypeOK, Bound, Left
<1>23. CASE CheckTemporary(p)
  BY <1>1, <1>23
  DEF CheckTemporary, TypeOK, Bound, Left, RemovesTemporary, MatchesOpenFile
<1>24. CASE RemoveTemporary(p)
  BY <1>1, <1>24 DEF RemoveTemporary, TypeOK, Bound, Left
<1>25. CASE Close(p)
  BY <1>1, <1>25 DEF Close, TypeOK, Left
<1>26. CASE Restore(p)
  BY <1>1, <1>26 DEF Restore, Left
<1>. QED
  BY <1>2, <1>3, <1>4, <1>5, <1>6, <1>7, <1>8, <1>9, <1>10, <1>11, <1>12, <1>13,
     <1>14, <1>15, <1>16, <1>17, <1>18, <1>19, <1>20, <1>21, <1>22, <1>23, <1>24,
     <1>25, <1>26 DEF Publish, CleanUp

\* Nor does a signal, a kill, a loss of power or another program.
LEMMA EnvironmentOutcome ==
  ASSUME OutcomeInv, Environment, NEW q \in Proc
  PROVE  Told(q)' /\ Left(q)'
<1>. USE EntriesAssumption
<1>1. TypeOK /\ Holds(q) /\ Told(q) /\ Left(q) /\ \A p \in Proc : Bound(p)
  BY DEF OutcomeInv, IInv
<1>2. ASSUME NEW p \in Proc, Signal(p) PROVE Told(q)' /\ Left(q)'
  <2>. USE DEF Signal, control, owned, state, file, world
  <2>1. Told(q)'
    BY <1>1, <1>2 DEF TypeOK, Holds, Told
  <2>2. Left(q)'
    BY <1>1, <1>2 DEF Left
  <2>. QED
    BY <2>1, <2>2
<1>3. ASSUME NEW p \in Proc, Kill(p) PROVE Told(q)' /\ Left(q)'
  BY <1>1, <1>3 DEF Kill, state, file, signals, world, TypeOK, Told, Left
<1>4. CASE PowerLoss
  <2>1. /\ pc'[q] = IF pc[q] = "done" THEN "done" ELSE "killed"
        /\ fds'[q] = {}
        /\ UNCHANGED <<exc, outcome, tempname, committed, residual, pending, early>>
    BY <1>4 DEF PowerLoss, state, signals
  <2>2. \A d \in Dirs, n \in Names : dir'[d][n] = q => dir[d][n] = q
    BY <1>4 DEF PowerLoss
  <2>3. Told(q)'
    BY <1>1, <2>1 DEF Told
  <2>4. Left(q)'
    BY <1>1, <2>1, <2>2 DEF Left
  <2>. QED
    BY <2>3, <2>4
<1>5. CASE UNCHANGED <<control, owned, state, signals>>
           /\ \A d \in Dirs, n \in Names : dir'[d][n] = q => dir[d][n] = q
  BY <1>1, <1>5, ToldKept, LeftKept DEF control, owned, state, signals
<1>6. CASE MoveParent
  BY <1>5, <1>6 DEF MoveParent
<1>7. ASSUME NEW d \in Dirs, NEW n \in Names, ForeignCreate(d, n) \/ ForeignRemove(d, n)
      PROVE  Told(q)' /\ Left(q)'
  BY <1>1, <1>5, <1>7 DEF ForeignCreate, ForeignRemove, TypeOK
<1>8. ASSUME NEW d \in Dirs, NEW m \in Names, NEW n \in Names, ForeignRename(d, m, n)
      PROVE  Told(q)' /\ Left(q)'
  BY <1>1, <1>5, <1>8 DEF ForeignRename, TypeOK, Bound
<1>. QED
  BY <1>2, <1>3, <1>4, <1>6, <1>7, <1>8 DEF Environment

LEMMA InitOutcome == Init => OutcomeInv
<1>. SUFFICES ASSUME Init PROVE OutcomeInv
  OBVIOUS
<1>1. IInv
  BY InitInvariant
<1>2. \A p \in Proc : Told(p)
  BY DEF Init, Told
<1>3. \A p \in Proc : Left(p)
  BY EntriesAssumption DEF Init, Left
<1>. QED
  BY <1>1, <1>2, <1>3 DEF OutcomeInv

LEMMA NextOutcome == OutcomeInv /\ [Next]_vars => OutcomeInv'
<1>. SUFFICES ASSUME OutcomeInv, [Next]_vars PROVE OutcomeInv'
  OBVIOUS
<1>1. IInv /\ IInv'
  BY NextInvariant DEF OutcomeInv
<1>2. ASSUME NEW q \in Proc PROVE Told(q)' /\ Left(q)'
  <2>1. Told(q) /\ Left(q)
    BY DEF OutcomeInv
  <2>2. ASSUME NEW p \in Proc, Publish(p) \/ CleanUp(p) PROVE Told(q)' /\ Left(q)'
    <3>1. CASE p = q
      BY <1>1, <2>1, <2>2, <3>1, OwnTold, OwnLeft
    <3>2. CASE p # q
      BY <1>1, <2>1, <2>2, <3>2, OthersKept, ToldKept, LeftKept
    <3>. QED
      BY <3>1, <3>2
  <2>3. CASE Environment
    BY <2>3, EnvironmentOutcome
  <2>4. CASE UNCHANGED vars
    BY <2>1, <2>4, ToldKept, LeftKept
    DEF vars, control, owned, state, signals
  <2>. QED
    BY <2>2, <2>3, <2>4 DEF Next
<1>. QED
  BY <1>1, <1>2 DEF OutcomeInv

LEMMA OutcomeInvariance == Spec => []OutcomeInv
<1>. QED
  BY InitOutcome, NextOutcome, PTL DEF Spec

\* Of any number of processes that publish one name in one directory at most one
\* reports success.
THEOREM OneWinnerHolds == Spec => []OneWinner
<1>1. OutcomeInv => OneWinner
  BY DEF OutcomeInv, IInv, Apart, Told, OneWinner
<1>. QED
  BY <1>1, OutcomeInvariance, PTL

\* Wherever a publication fails, under whatever faults, it leaves no descriptor and
\* no name it was able to remove.
THEOREM FailureLeavesNothingHolds == Spec => []FailureLeavesNothing
<1>1. OutcomeInv => FailureLeavesNothing
  BY DEF OutcomeInv, Left, FailureLeavesNothing
<1>. QED
  BY <1>1, OutcomeInvariance, PTL

\* No interleaving of a SIGINT with the publication loses it or commits past it.
THEOREM SignalHonoredHolds == Spec => []SignalHonored
<1>1. OutcomeInv => SignalHonored
  BY DEF OutcomeInv, Told, SignalHonored
<1>. QED
  BY <1>1, OutcomeInvariance, PTL

\* A step that takes an entry from a process is a step of that process, which goes
\* on from there.
LEMMA TakesOwn ==
  ASSUME IInv, NEW p \in Proc, Publish(p) \/ CleanUp(p),
         NEW d \in Dirs, NEW n \in Names,
         NEW q \in Proc, dir[d][n] = q, dir'[d][n] # q
  PROVE  p = q /\ pc'[p] # pc[p]
<1>. USE NamesAssumption, EntriesAssumption
<1>1. dir' # dir
  OBVIOUS
<1>2. TypeOK /\ Opened(p) /\ Holds(p)
  BY DEF IInv
<1>3. /\ \E k \in Names, e \in {p, Absent} :
           Bind(p, k, e) /\ dir[parent[p]][k] \in {p, Absent}
      /\ parent[p] \in Dirs
      /\ pc'[p] # pc[p]
  <2>. USE DEF At, Goto, Entry
  <2>1. CASE CreateTemporary(p)
    BY <1>1, <1>2, <2>1 DEF CreateTemporary, Opened, TypeOK
  <2>2. CASE Link(p)
    BY <1>2, <2>2 DEF Link, Opened, Holds, TypeOK
  <2>3. CASE LinkRaises(p)
    BY <1>1, <1>2, <2>3 DEF LinkRaises, Opened, Holds, TypeOK
  <2>4. CASE RemoveFinal(p)
    BY <1>1, <1>2, <2>4 DEF RemoveFinal, Opened, Holds, TypeOK
  <2>5. CASE RemoveTemporary(p)
    BY <1>1, <1>2, <2>5 DEF RemoveTemporary, Opened, Holds, TypeOK
  <2>6. \/ CreateTemporary(p) \/ Link(p) \/ LinkRaises(p)
        \/ RemoveFinal(p) \/ RemoveTemporary(p)
    BY <1>1, <1>2
    DEF Publish, CleanUp, Reject, Begin, SystemCallFails, OpenParent, CheckParent,
        ProbeFinal, CreateExhausted, ForceMode, Write, Sync, StatTemporary,
        LinkInterrupted, ConfirmLink, VerifyFinal, VerifyParent, Commit, CheckFinal,
        CheckTemporary, Close, Restore
  <2>. QED
    BY <2>1, <2>2, <2>3, <2>4, <2>5, <2>6
<1>4. p = q
  <2>. HIDE DEF Names, Entries
  <2>. QED
    BY <1>2, <1>3 DEF Bind, TypeOK
<1>. QED
  BY <1>3, <1>4

\* While the machine has power, only a process itself takes an entry of its report
\* away, under every fault and whatever other programs do.
THEOREM OnlyOwnEntriesChangeHolds == Spec => OnlyOwnEntriesChange
<1>1. IInv /\ [Next]_vars =>
        [powered' => \A d \in Dirs, n \in Names :
           dir[d][n] \in Proc /\ dir'[d][n] # dir[d][n]
             => pc'[dir[d][n]] # pc[dir[d][n]]]_vars
  <2>. SUFFICES ASSUME IInv, Next, powered', NEW d \in Dirs, NEW n \in Names,
                       dir[d][n] \in Proc, dir'[d][n] # dir[d][n]
                PROVE  pc'[dir[d][n]] # pc[dir[d][n]]
    OBVIOUS
  <2>1. ASSUME NEW p \in Proc, Publish(p) \/ CleanUp(p)
        PROVE  pc'[dir[d][n]] # pc[dir[d][n]]
    BY <2>1, TakesOwn
  <2>2. ~Environment
    <3>1. TypeOK /\ d \notin Shared
      BY DEF IInv, Bound
    <3>2. ASSUME NEW p \in Proc PROVE ~Signal(p) /\ ~Kill(p)
      BY DEF Signal, Kill
    <3>3. ~PowerLoss /\ ~MoveParent
      BY DEF PowerLoss, MoveParent
    <3>4. ASSUME NEW c \in Dirs, NEW m \in Names
          PROVE  ~ForeignCreate(c, m) /\ ~ForeignRemove(c, m)
      BY <3>1, EntriesAssumption DEF ForeignCreate, ForeignRemove, TypeOK
    <3>5. ASSUME NEW c \in Dirs, NEW k \in Names, NEW m \in Names
          PROVE  ~ForeignRename(c, k, m)
      BY <3>1 DEF ForeignRename, TypeOK
    <3>. QED
      BY <3>2, <3>3, <3>4, <3>5 DEF Environment
  <2>. QED
    BY <2>1, <2>2 DEF Next
<1>. QED
  BY <1>1, Invariance, PTL DEF Spec, OnlyOwnEntriesChange

(***************************************************************************)
(* The publisher implements the atomic publication.                        *)
(***************************************************************************)

\* Initially nothing is published and every process is running.
LEMMA InitRefines == Init => Atomic!Init
BY DEF Init, Atomic!Init, Report, Status

\* The abstract status of a process that a step does not touch, or leaves running
\* or committed as it was, is what it was.
LEMMA StatusKept ==
  ASSUME NEW p \in Proc, UNCHANGED <<outcome, committed>>,
         pc'[p] = pc[p] \/ {pc[p], pc'[p]} \cap {"done", "killed"} = {}
  PROVE  Status'[p] = Status[p]
BY DEF Status

\* Of the steps of a process these are no step of the atomic publication: those
\* that change no final name, come to no end and do not commit.
LEMMA QuietRefines ==
  ASSUME IInv, NEW p \in Proc, Publish(p) \/ CleanUp(p),
         \A d \in Dirs : dir'[d][Final] = dir[d][Final],
         UNCHANGED <<outcome, committed>>, {pc[p], pc'[p]} \cap {"done", "killed"} = {}
  PROVE  UNCHANGED Atomic!vars
<1>1. \A q \in Proc : Status'[q] = Status[q]
  BY OthersKept, StatusKept
<1>2. Status' = Status
  BY <1>1 DEF Status
<1>3. Report' = Report
  BY DEF Report
<1>. QED
  BY <1>2, <1>3 DEF Atomic!vars

\* A step that ends a process: it returns.
LEMMA EndRefines ==
  ASSUME OutcomeInv, NEW p \in Proc, Reject(p) \/ Restore(p)
  PROVE  Atomic!Next
<1>1. /\ TypeOK /\ Told(p) /\ Holds(p) /\ UNCHANGED dir
      /\ pc[p] \in {"start", "restore"} /\ pc'[p] = "done"
      /\ outcome' = [outcome EXCEPT ![p] = outcome'[p]]
      /\ outcome'[p] \in {"success", "OutputError", "KeyboardInterrupt", "other"}
  BY DEF OutcomeInv, IInv, TypeOK, Reject, Restore, RestoredOutcome, At
<1>2. /\ ~committed[p] => outcome'[p] # "success"
      /\ committed[p] => outcome'[p] # "OutputError"
  <2>1. CASE Reject(p)
    BY <1>1, <2>1 DEF Reject, At, Holds, TypeOK
  <2>2. CASE Restore(p)
    BY <1>1, <2>2 DEF Restore, RestoredOutcome, At, Told, TypeOK
  <2>. QED
    BY <2>1, <2>2
<1>3. /\ UNCHANGED committed
      /\ \A q \in Proc \ {p} : pc'[q] = pc[q] /\ outcome'[q] = outcome[q]
  BY <1>1 DEF Reject, Restore, TypeOK, state
<1>4. Status' = [Status EXCEPT ![p] = outcome'[p]]
  <2>1. \A q \in Proc : Status'[q] = IF q = p THEN outcome'[p] ELSE Status[q]
    BY <1>1, <1>3 DEF Status
  <2>. QED
    BY <2>1 DEF Status
<1>5. Status[p] = IF committed[p] THEN "committed" ELSE "running"
  BY <1>1 DEF Status
<1>6. Report' = Report
  BY <1>1 DEF Report
<1>7. Atomic!Return(p)
  BY <1>1, <1>2, <1>4, <1>5, <1>6 DEF Atomic!Return
<1>. QED
  BY <1>7 DEF Atomic!Next

\* The commit, or the interruption at the last safe point.
LEMMA CommitRefines ==
  ASSUME IInv, NEW p \in Proc, Commit(p)
  PROVE  Atomic!Next \/ UNCHANGED Atomic!vars
<1>1. /\ TypeOK /\ Opened(p) /\ Holds(p) /\ pc[p] = "commit" /\ pc'[p] = "unfinal"
      /\ UNCHANGED <<dir, outcome>> /\ ~committed[p]
      /\ \A q \in Proc \ {p} : pc'[q] = pc[q] /\ committed'[q] = committed[q]
  <2>1. TypeOK /\ Opened(p) /\ Holds(p) /\ pc[p] = "commit" /\ UNCHANGED <<dir, outcome>>
    BY DEF IInv, Commit, At, Goto, Raise
  <2>2. ~committed[p]
    BY <2>1 DEF Holds
  <2>. QED
    BY <2>1, <2>2 DEF TypeOK, Commit, Goto, Raise
<1>2. Report' = Report /\ Report[parent[p]] = p /\ parent[p] \in Dirs
  BY <1>1 DEF Report, Holds, Opened
<1>3. CASE committed'[p]
  <2>1. Status' = [Status EXCEPT ![p] = "committed"] /\ Status[p] = "running"
    BY <1>1, <1>3 DEF Status
  <2>2. Atomic!Commit(p)
    BY <1>2, <2>1 DEF Atomic!Commit
  <2>. QED
    BY <2>2 DEF Atomic!Next
<1>4. CASE ~committed'[p]
  <2>1. Status' = Status
    BY <1>1, <1>4 DEF Status
  <2>. QED
    BY <1>2, <2>1 DEF Atomic!vars
<1>. QED
  BY <1>3, <1>4

\* A step that binds the final name, or not, but is otherwise quiet.
LEMMA AppearRefines ==
  ASSUME IInv, NEW p \in Proc, Link(p) \/ LinkRaises(p)
  PROVE  Atomic!Next \/ UNCHANGED Atomic!vars
<1>. USE NamesAssumption, EntriesAssumption
<1>1. /\ TypeOK /\ Opened(p) /\ Bound(p) /\ Holds(p) /\ pc[p] = "link"
      /\ pc'[p] \in {"confirm", "verify"} /\ ~committed[p] /\ parent[p] \in Dirs
      /\ dir[parent[p]][tempname[p]] = p
  <2>1. TypeOK /\ Opened(p) /\ Bound(p) /\ Holds(p) /\ pc[p] = "link"
    BY DEF IInv, Link, LinkRaises, At
  <2>2. pc'[p] \in {"confirm", "verify"}
    BY <2>1 DEF Link, LinkRaises, Goto, TypeOK
  <2>. QED
    BY <2>1, <2>2 DEF Opened, Holds
<1>2. UNCHANGED <<outcome, committed>>
  BY DEF Link, LinkRaises, Goto, state
<1>3. \A q \in Proc : Status'[q] = Status[q]
  BY <1>1, <1>2, OthersKept, StatusKept DEF Publish
<1>4. Status' = Status /\ Status[p] = "running"
  BY <1>1, <1>3 DEF Status
<1>5. CASE UNCHANGED dir
  BY <1>4, <1>5 DEF Report, Atomic!vars
<1>6. CASE dir' # dir
  <2>1. Bind(p, Final, p) /\ dir[parent[p]][Final] = Absent
    BY <1>1, <1>6 DEF Link, LinkRaises, Entry
  <2>2. Report' = [Report EXCEPT ![parent[p]] = p]
    <3>. HIDE DEF Names, Entries
    <3>1. Final \in Names
      BY DEF Names
    <3>. QED
      BY <1>1, <2>1, <3>1 DEF Report, Bind, TypeOK
  <2>3. Report[parent[p]] = Absent /\ \A d \in Dirs : Report[d] # p
    BY <1>1, <2>1 DEF Report, Bound
  <2>4. Atomic!Appear(p, parent[p])
    BY <1>4, <2>2, <2>3 DEF Atomic!Appear
  <2>. QED
    BY <1>1, <2>4 DEF Atomic!Next
<1>. QED
  BY <1>5, <1>6

\* The rollback of a report that was not committed.
LEMMA WithdrawRefines ==
  ASSUME IInv, NEW p \in Proc, RemoveFinal(p)
  PROVE  Atomic!Next \/ UNCHANGED Atomic!vars
<1>1. /\ TypeOK /\ pc[p] = "rmfinal" /\ pc'[p] = "untemp" /\ ~committed[p]
      /\ parent[p] \in Dirs /\ dir[parent[p]][Final] = p
  <2>1. TypeOK /\ Opened(p) /\ Holds(p) /\ pc[p] = "rmfinal"
    BY DEF IInv, RemoveFinal, At
  <2>2. pc'[p] = "untemp"
    BY <2>1 DEF RemoveFinal, Goto, TypeOK
  <2>. QED
    BY <2>1, <2>2 DEF Opened, Holds
<1>2. UNCHANGED <<outcome, committed>>
  BY DEF RemoveFinal, Goto
<1>3. \A q \in Proc : Status'[q] = Status[q]
  BY <1>1, <1>2, OthersKept, StatusKept DEF CleanUp
<1>4. Status' = Status /\ Status[p] = "running"
  BY <1>1, <1>3 DEF Status
<1>5. CASE UNCHANGED dir
  BY <1>4, <1>5 DEF Report, Atomic!vars
<1>6. CASE dir' # dir
  <2>1. Bind(p, Final, Absent)
    BY <1>6 DEF RemoveFinal
  <2>2. Report' = [Report EXCEPT ![parent[p]] = Absent] /\ Report[parent[p]] = p
    <3>. HIDE DEF Names, Entries
    <3>1. Final \in Names
      BY DEF Names
    <3>. QED
      BY <1>1, <2>1, <3>1 DEF Report, Bind, TypeOK
  <2>3. Atomic!Withdraw(p, parent[p])
    BY <1>4, <2>2 DEF Atomic!Withdraw
  <2>. QED
    BY <1>1, <2>3 DEF Atomic!Next
<1>. QED
  BY <1>5, <1>6

\* Temporary names are no final names.
LEMMA TemporaryKeepsReports ==
  ASSUME IInv, NEW p \in Proc, CreateTemporary(p) \/ RemoveTemporary(p)
  PROVE  \A d \in Dirs : dir'[d][Final] = dir[d][Final]
<1>. USE NamesAssumption
<1>1. TypeOK /\ parent[p] \in Dirs
  BY DEF IInv, TypeOK, Opened, CreateTemporary, RemoveTemporary, At
<1>2. \/ UNCHANGED dir
      \/ \E n \in TempNames, e \in {p, Absent} : Bind(p, n, e)
  BY <1>1 DEF IInv, Opened, TypeOK, CreateTemporary, RemoveTemporary, At
<1>. QED
  BY <1>1, <1>2 DEF Bind, TypeOK

\* Every step of a process is a step of the atomic publication or none ...
LEMMA StepRefines ==
  ASSUME OutcomeInv, NEW p \in Proc, Publish(p) \/ CleanUp(p)
  PROVE  Atomic!Next \/ UNCHANGED Atomic!vars
<1>1. IInv /\ TypeOK
  BY DEF OutcomeInv, IInv
<1>2. CASE Reject(p) \/ Restore(p)
  BY <1>2, EndRefines
<1>3. CASE Commit(p)
  BY <1>1, <1>3, CommitRefines
<1>4. CASE Link(p) \/ LinkRaises(p)
  BY <1>1, <1>4, AppearRefines
<1>5. CASE RemoveFinal(p)
  BY <1>1, <1>5, WithdrawRefines
<1>6. CASE CreateTemporary(p) \/ RemoveTemporary(p)
  <2>1. /\ UNCHANGED <<outcome, committed>>
        /\ {pc[p], pc'[p]} \cap {"done", "killed"} = {}
    BY <1>1, <1>6 DEF CreateTemporary, RemoveTemporary, TypeOK, At, Goto, control, state
  <2>. QED
    BY <1>1, <1>6, <2>1, TemporaryKeepsReports, QuietRefines
<1>7. CASE ~ \/ Reject(p) \/ Restore(p) \/ Commit(p) \/ Link(p) \/ LinkRaises(p)
             \/ RemoveFinal(p) \/ CreateTemporary(p) \/ RemoveTemporary(p)
  <2>. USE DEF Publish, CleanUp, Begin, SystemCallFails, OpenParent, CheckParent,
        ProbeFinal, CreateExhausted, ForceMode, Write, Sync, StatTemporary,
        LinkInterrupted, ConfirmLink, VerifyFinal, VerifyParent, CheckFinal,
        CheckTemporary, Close, At, Goto, Raise, state
  <2>1. UNCHANGED dir
    BY <1>7
  <2>2. UNCHANGED <<outcome, committed>>
    BY <1>7
  <2>3. {pc[p], pc'[p]} \cap {"done", "killed"} = {}
    BY <1>1, <1>7 DEF TypeOK
  <2>. QED
    BY <1>1, <2>1, <2>2, <2>3, QuietRefines
<1>. QED
  BY <1>2, <1>3, <1>4, <1>5, <1>6, <1>7

\* ... and so is every step of the environment.
LEMMA EnvironmentRefines ==
  ASSUME IInv, Environment
  PROVE  Atomic!Next \/ UNCHANGED Atomic!vars
<1>1. TypeOK /\ \A p \in Proc : Bound(p)
  BY DEF IInv
<1>2. ASSUME NEW p \in Proc, Signal(p) PROVE UNCHANGED Atomic!vars
  BY <1>2 DEF Signal, Report, Status, Atomic!vars, control, state
<1>3. ASSUME NEW p \in Proc, Kill(p) PROVE Atomic!Next
  <2>1. /\ Status' = [Status EXCEPT ![p] = "killed"]
        /\ Status[p] \in {"running", "committed"}
    BY <1>1, <1>3 DEF Kill, Status, TypeOK, state
  <2>2. Report' = Report
    BY <1>3 DEF Kill, Report
  <2>3. Atomic!Kill(p)
    BY <2>1, <2>2 DEF Atomic!Kill
  <2>. QED
    BY <2>3 DEF Atomic!Next
<1>4. CASE PowerLoss
  <2>1. \A p \in Proc : Status'[p] = IF Status[p] \in {"running", "committed"}
                                       THEN "killed" ELSE Status[p]
    BY <1>1, <1>4 DEF PowerLoss, Status, TypeOK, state
  <2>2. Status' = [p \in Proc |-> IF Status[p] \in {"running", "committed"}
                                    THEN "killed" ELSE Status[p]]
    BY <2>1 DEF Status
  <2>3. \A d \in Dirs :
          Report'[d] = Report[d] \/ (Report[d] \in Proc /\ Report'[d] = Absent)
    BY <1>4 DEF PowerLoss, Report
  <2>4. Atomic!Lose
    BY <2>2, <2>3 DEF Atomic!Lose, Report
  <2>. QED
    BY <2>4 DEF Atomic!Next
<1>5. CASE MoveParent
  BY <1>5 DEF MoveParent, Report, Status, Atomic!vars, control, state
<1>6. ASSUME NEW d \in Dirs, dir[d][Final] \in {Absent, Foreign},
             dir'[d][Final] \in {Absent, Foreign},
             \A c \in Dirs \ {d} : dir'[c] = dir[c], UNCHANGED <<control, state>>
      PROVE  Atomic!Next
  <2>1. Status' = Status
    BY <1>6 DEF Status, control, state
  <2>2. Report' = [Report EXCEPT ![d] = dir'[d][Final]] /\ Report[d] = dir[d][Final]
    BY <1>6 DEF Report
  <2>3. Atomic!Other(d)
    BY <1>6, <2>1, <2>2 DEF Atomic!Other
  <2>. QED
    BY <2>3 DEF Atomic!Next
<1>7. ASSUME NEW d \in Dirs, dir'[d][Final] = dir[d][Final],
             \A c \in Dirs \ {d} : dir'[c] = dir[c], UNCHANGED <<control, state>>
      PROVE  UNCHANGED Atomic!vars
  BY <1>7 DEF Report, Status, Atomic!vars, control, state
<1>8. ASSUME NEW d \in Dirs, NEW n \in Names, ForeignCreate(d, n) \/ ForeignRemove(d, n)
      PROVE  Atomic!Next \/ UNCHANGED Atomic!vars
  <2>1. (\A c \in Dirs \ {d} : dir'[c] = dir[c]) /\ UNCHANGED <<control, state>>
    BY <1>1, <1>8 DEF ForeignCreate, ForeignRemove, TypeOK
  <2>2. CASE n = Final
    BY <1>1, <1>6, <1>8, <2>1, <2>2 DEF ForeignCreate, ForeignRemove, TypeOK
  <2>3. CASE n # Final
    BY <1>1, <1>7, <1>8, <2>1, <2>3 DEF ForeignCreate, ForeignRemove, TypeOK
  <2>. QED
    BY <2>2, <2>3
<1>9. ASSUME NEW d \in Dirs, NEW m \in Names, NEW n \in Names, ForeignRename(d, m, n)
      PROVE  Atomic!Next
  <2>1. \A k \in Names : dir[d][k] \in {Absent, Foreign}
    BY <1>1, <1>9 DEF ForeignRename, TypeOK, Bound
  <2>2. \A c \in Dirs \ {d} : dir'[c] = dir[c]
    BY <1>1, <1>9 DEF ForeignRename, TypeOK
  <2>3. dir'[d][Final] \in {Absent, Foreign}
    BY <1>1, <1>9, <2>1 DEF ForeignRename, TypeOK
  <2>. QED
    BY <1>6, <1>9, <2>1, <2>2, <2>3 DEF ForeignRename
<1>. QED
  BY <1>2, <1>3, <1>4, <1>5, <1>8, <1>9 DEF Environment

\* Every behaviour of the system calls, with every fault, is one of the atomic
\* publication for who reads the requested name and who calls write_new_report.
THEOREM PublisherImplementsAtomicPublication == Spec => ImplementsAtomicPublication
<1>1. OutcomeInv /\ [Next]_vars => [Atomic!Next]_Atomic!vars
  <2>. SUFFICES ASSUME OutcomeInv, [Next]_vars PROVE [Atomic!Next]_Atomic!vars
    OBVIOUS
  <2>1. CASE Environment
    BY <2>1, EnvironmentRefines DEF OutcomeInv
  <2>2. CASE UNCHANGED vars
    BY <2>2 DEF vars, control, state, Report, Status, Atomic!vars
  <2>. QED
    BY <2>1, <2>2, StepRefines DEF Next
<1>. QED
  BY <1>1, InitRefines, OutcomeInvariance, PTL
  DEF Spec, ImplementsAtomicPublication, Atomic!Spec
==============================================================================
