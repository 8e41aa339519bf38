----------------------- MODULE MaintenanceToolsProofs -----------------------
(***************************************************************************)
(* OneInstant and ResultsWhole of MaintenanceTools.                        *)
(*                                                                         *)
(* OneInstant: where no content comes back, a value that a block had and   *)
(* has no more is gone for good.  A value read in the first pass that is   *)
(* not the one at the end of the pass is gone then, and the last pass      *)
(* cannot read it; a value loaded that is not the one of that instant      *)
(* shows that the latter is gone.                                          *)
(*                                                                         *)
(* ResultsWhole: both generators create SHA256SUMS first, and find nothing *)
(* but the README before that; so whoever has created it in a directory is *)
(* the only one who adds files there.  A check that has seen it whole has  *)
(* seen the sums of one generator, and so the files of that one.  In a     *)
(* measurement every child is compared with the first of its series, and   *)
(* every series with the first; in a build nothing is staged that is not   *)
(* compared.                                                               *)
(***************************************************************************)
EXTENDS MaintenanceTools, SequenceTheorems, TLAPS

Bytes == Contents \cup {Nothing}
Versions == {VersionOf[c] : c \in Bytes \cup {Unread}} \cup {NoVersion}
Copies == [Sources -> Bytes \cup {Unread}]
Archive == [version : Versions, files : Copies, noise : {0, 1}]

TreeOK ==
  /\ tree \in [Sources -> Bytes]
  /\ had \in [Sources -> [Blocks -> SUBSET (Values \cup {Absent})]]
  /\ \A f \in Sources, b \in Blocks : tree[f][b] \in had[f][b]
  /\ returned \in BOOLEAN
  /\ \A r \in Runs : request[r].command \in Commands \cup {"none"}

ControlOK ==
  /\ DOMAIN pc = Runs
  /\ number \in [Runs -> Nat]
  /\ plan \in [Runs -> Seq(Sources)]
  /\ DOMAIN version = Runs
  /\ built \in [Runs -> Seq(Archive)]

ReadingOK ==
  /\ opened \in [Runs -> Sources \cup {Absent}]
  /\ seen \in [Runs -> SUBSET Contents]
  /\ pass \in [Runs -> Passes]
  /\ taken \in [Runs -> [Passes -> Copies]]
  /\ instant \in [Runs -> Copies]
  /\ managed \in [Runs -> Seq(Entered)]

TypeOK == TreeOK /\ ControlOK /\ ReadingOK

-----------------------------------------------------------------------------
(* Where a run is, and what it has read by then. *)
Fresh == {"begin", "reports-generate", "reports-check", "build", "version"}
Reading == {"source-entries", "load"}
Staging == {"stage", "package"}
Checked == {"environment", "package-build", "publish"}
Critical == Fresh \cup Reading \cup Staging \cup Checked

Has(r, p, f) == taken[r][p][f] # Unread

BeforeAll(r) ==
  pc[r] \in Fresh =>
    /\ pass[r] = "first" /\ number[r] = 0
    /\ taken[r] = AllUnread /\ managed[r] = <<>> /\ built[r] = <<>>
    /\ opened[r] # Absent => pc[r] = "version"

\* Of a scenario: the inputs before Input(r), and in the passes before this one all.
Scenarios(r) ==
  pc[r] \in Reading =>
    /\ Len(managed[r]) < Len(ScenarioInputs)
    /\ number[r] <= Len(Inputs(r))
    /\ opened[r] # Absent => number[r] < Len(Inputs(r)) /\ opened[r] = Input(r)
    /\ pc[r] = "load" <=> pass[r] = "loaded"
    /\ \A k \in 1..number[r] : Has(r, pass[r], Inputs(r)[k])
    /\ pass[r] # "first" => \A k \in DOMAIN Inputs(r) : Has(r, "first", Inputs(r)[k])
    /\ pass[r] \in {"again", "last"} => \A k \in DOMAIN Inputs(r) : Has(r, "loaded", Inputs(r)[k])

Plans(r) ==
  pc[r] \in Staging =>
    /\ pass[r] \in {"first", "last"}
    /\ number[r] <= Len(plan[r])
    /\ opened[r] # Absent => number[r] < Len(plan[r]) /\ opened[r] = plan[r][number[r] + 1]
    /\ \A k \in 1..number[r] : Has(r, pass[r], plan[r][k])
    /\ pc[r] = "stage" => plan[r] = BuildFiles
    /\ pc[r] = "package" => \A f \in Staged : f \in ToSet(plan[r]) \/ Has(r, pass[r], f)
    /\ pass[r] = "last" => \A f \in Staged : Has(r, "first", f)
    /\ built[r] = <<>>

Compared(r) ==
  pc[r] \in Checked =>
    /\ ~returned => \A f \in Staged : Has(r, "first", f) /\ taken[r].first[f] = instant[r][f]
    /\ pc[r] = "environment" => built[r] = <<>>
    /\ built[r] # <<>> =>
         /\ built[r][1].files = taken[r].first
         /\ built[r][1].version = VersionOf[taken[r].first[VersionFile]]
    /\ pc[r] = "publish" => built[r] # <<>> /\ built[r][1].version = version[r]

-----------------------------------------------------------------------------
(* What is gone does not come back. *)
Lost(r, f, b, v) ==
  /\ v \in had[f][b] /\ tree[f][b] # v
  /\ opened[r] = f => \A c \in seen[r] : c[b] # v
  /\ Has(r, "last", f) => taken[r].last[f][b] # v

Known(r) ==
  /\ \A f \in Sources, b \in Blocks : Has(r, "first", f) => taken[r].first[f][b] \in had[f][b]
  /\ \A b \in Blocks : opened[r] # Absent => \A c \in seen[r] : c[b] \in had[opened[r]][b]
  /\ pass[r] = "first" => \A f \in Sources : ~Has(r, "loaded", f)
  /\ pass[r] # "last" => \A f \in Sources : ~Has(r, "last", f)
  /\ pass[r] # "first" => \A f \in Sources : instant[r][f] # Unread

Gone(r) ==
  ~returned /\ pass[r] # "first" =>
    \A f \in Sources, b \in Blocks :
      /\ instant[r][f][b] \in had[f][b]
      /\ Has(r, "first", f) /\ taken[r].first[f][b] # instant[r][f][b] => Lost(r, f, b, taken[r].first[f][b])
      /\ Has(r, "loaded", f) /\ taken[r].loaded[f][b] # instant[r][f][b] => Lost(r, f, b, instant[r][f][b])

Agreed(r) == ~returned => \A k \in DOMAIN managed[r] : managed[r][k].inputs = managed[r][k].report

RunInv(r) ==
  BeforeAll(r) /\ Scenarios(r) /\ Plans(r) /\ Compared(r) /\ Known(r) /\ Gone(r) /\ Agreed(r)

ReleasedInv ==
  \A r \in Runs : Released(r) => pc[r] = "ended" /\ (~returned => ReleaseOfOneInstant(r))

IInv == TypeOK /\ (\A r \in Runs : RunInv(r)) /\ ReleasedInv

-----------------------------------------------------------------------------
(* Steps that matter to none of this. *)
Kept(q) ==
  /\ pc'[q] = pc[q] /\ number'[q] = number[q] /\ plan'[q] = plan[q]
  /\ version'[q] = version[q] /\ built'[q] = built[q]
  /\ opened'[q] = opened[q] /\ seen'[q] = seen[q] /\ pass'[q] = pass[q]
  /\ taken'[q] = taken[q] /\ instant'[q] = instant[q] /\ managed'[q] = managed[q]

Untouched == UNCHANGED <<tree, had, returned>>

\* A run that keeps all it has, in a world that is kept, is where it was.
LEMMA KeptRun ==
  ASSUME NEW q \in Runs, RunInv(q), Kept(q), Untouched
  PROVE RunInv(q)'
<1>1. BeforeAll(q)' /\ Scenarios(q)'
  BY DEF RunInv, Kept, Untouched, BeforeAll, Scenarios, Has, Inputs, Input
<1>2. Plans(q)'
  BY DEF RunInv, Kept, Untouched, Plans, Has
<1>3. Compared(q)'
  BY DEF RunInv, Kept, Untouched, Compared, Has
<1>4. Known(q)' /\ Gone(q)'
  BY DEF RunInv, Kept, Untouched, Known, Gone, Lost, Has
<1>5. Agreed(q)'
  BY DEF RunInv, Kept, Untouched, Agreed
<1> QED
  BY <1>1, <1>2, <1>3, <1>4, <1>5 DEF RunInv

Still ==
  /\ Untouched
  /\ UNCHANGED <<request, opened, seen, pass, taken, instant, managed, version, plan, built>>

\* A step of r at something else.
Idle(r) ==
  /\ Still /\ UNCHANGED dist
  /\ pc[r] # "ended"
  /\ DOMAIN pc' = Runs /\ pc'[r] \notin Critical /\ \A q \in Runs \ {r} : pc'[q] = pc[q]
  /\ number' \in [Runs -> Nat] /\ \A q \in Runs \ {r} : number'[q] = number[q]

LEMMA IdleStep ==
  ASSUME IInv, NEW r \in Runs, Idle(r)
  PROVE IInv'
<1> USE DEF IInv
<1>1. TypeOK'
  BY DEF TypeOK, TreeOK, ControlOK, ReadingOK, Idle, Still, Untouched
<1>2. ASSUME NEW q \in Runs PROVE RunInv(q)'
  <2>1. CASE q # r
    <3>1. Kept(q) /\ Untouched
      BY <2>1 DEF Idle, Still, Kept
    <3> QED
      BY <3>1, KeptRun
  <2>2. CASE q = r
    <3>1. (BeforeAll(r) /\ Scenarios(r) /\ Plans(r) /\ Compared(r))'
      BY DEF Idle, BeforeAll, Scenarios, Plans, Compared, Critical
    <3>2. (Known(r) /\ Gone(r) /\ Agreed(r))'
      BY DEF RunInv, Idle, Still, Untouched, Known, Gone, Lost, Has, Agreed
    <3> QED
      BY <2>2, <3>1, <3>2 DEF RunInv
  <2> QED
    BY <2>1, <2>2
<1>3. ReleasedInv'
  BY DEF ReleasedInv, Released, ReleaseOfOneInstant, Idle, Still, Untouched
<1> QED
  BY <1>1, <1>2, <1>3

-----------------------------------------------------------------------------
(* The steps that matter to none of this, script by script. *)
Frame(r) ==
  /\ Still /\ UNCHANGED dist /\ pc[r] # "ended"
  /\ number' = number \/ Advance(r) \/ Rewind(r)
Leaves(r) == pc'[r] \notin Critical /\ \E s : pc' = [pc EXCEPT ![r] = s]

LEMMA LeavesIsIdle ==
  ASSUME TypeOK, NEW r \in Runs, Frame(r), Leaves(r)
  PROVE Idle(r)
<1>1. DOMAIN pc' = Runs /\ \A q \in Runs \ {r} : pc'[q] = pc[q]
  BY DEF TypeOK, ControlOK, Leaves
<1>2. number' \in [Runs -> Nat] /\ \A q \in Runs \ {r} : number'[q] = number[q]
  <2>1. CASE number' = number
    BY <2>1 DEF TypeOK, ControlOK
  <2>2. CASE Advance(r)
    BY <2>2 DEF TypeOK, ControlOK, Advance
  <2>3. CASE Rewind(r)
    BY <2>3 DEF TypeOK, ControlOK, Rewind
  <2> QED
    BY <2>1, <2>2, <2>3 DEF Frame
<1> QED
  BY <1>1, <1>2 DEF Idle, Frame, Leaves

LEMMA CorpusIdle ==
  ASSUME TypeOK, NEW r \in Runs, CorpusStep(r), UNCHANGED <<reportVars, buildVars>>
  PROVE Frame(r) /\ Leaves(r)
<1>1. CASE ValidateTarget(r, "corpus-generate") \/ LookAtTarget(r) \/ MakeTarget(r) \/ InspectTarget(r)
  <2> USE DEF TypeOK, ControlOK, At, Looks, ReadsNothing, Frame, Still, Untouched, Leaves, Goto, Exit, Check,
              sources, outputs, circumstances, collecting, walking, reportVars, buildVars, TouchesNothing,
              Critical, Fresh, Reading, Staging, Checked
  <2>1. Frame(r)
    BY <1>1 DEF ValidateTarget, LookAtTarget, MakeTarget, InspectTarget, MakePlace
  <2>2. Leaves(r)
    BY <1>1 DEF ValidateTarget, LookAtTarget, MakeTarget, InspectTarget, MakePlace
  <2> QED
    BY <2>1, <2>2
<1>2. CASE MakeParents(r) \/ CreateManaged(r) \/ FillManaged(r) \/ EndOfCorpus(r)
  <2> USE DEF TypeOK, ControlOK, At, Looks, ReadsNothing, Frame, Still, Untouched, Leaves, Goto, Exit, Check,
              sources, outputs, circumstances, collecting, walking, reportVars, buildVars, TouchesNothing,
              Critical, Fresh, Reading, Staging, Checked
  <2>1. Frame(r)
    BY <1>2 DEF MakeParents, CreateManaged, FillManaged, EndOfCorpus, MakePlace, CreateEntry, FillEntry
  <2>2. Leaves(r)
    BY <1>2 DEF MakeParents, CreateManaged, FillManaged, EndOfCorpus, MakePlace, CreateEntry, FillEntry
  <2> QED
    BY <2>1, <2>2
<1>3. CASE FindCorpus(r) \/ WalkCorpus(r) \/ ExamineWalked(r) \/ ComparePaths(r)
  <2> USE DEF TypeOK, ControlOK, At, Looks, ReadsNothing, Frame, Still, Untouched, Leaves, Goto, Exit, Check,
              sources, outputs, circumstances, collecting, walking, reportVars, buildVars, TouchesNothing,
              Critical, Fresh, Reading, Staging, Checked
  <2>1. Frame(r)
    BY <1>3 DEF FindCorpus, WalkCorpus, ExamineWalked, ComparePaths
  <2>2. Leaves(r)
    BY <1>3 DEF FindCorpus, WalkCorpus, ExamineWalked, ComparePaths
  <2> QED
    BY <2>1, <2>2
<1>4. CASE SizeManaged(r) \/ ReadManaged(r) \/ EndOfCheck(r)
  <2> USE DEF TypeOK, ControlOK, At, Looks, ReadsNothing, Frame, Still, Untouched, Leaves, Goto, Exit, Check,
              sources, outputs, circumstances, collecting, walking, reportVars, buildVars, TouchesNothing,
              Critical, Fresh, Reading, Staging, Checked
  <2>1. Frame(r)
    BY <1>4 DEF SizeManaged, ReadManaged, EndOfCheck
  <2>2. Leaves(r)
    BY <1>4 DEF SizeManaged, ReadManaged, EndOfCheck
  <2> QED
    BY <2>1, <2>2
<1>5. CASE LoadManifest(r) \/ ReplayScenario(r) \/ ReplayValidation(r) \/ ReplayFails(r)
  <2> USE DEF TypeOK, ControlOK, At, Looks, ReadsNothing, Frame, Still, Untouched, Leaves, Goto, Exit, Check,
              sources, outputs, circumstances, collecting, walking, reportVars, buildVars, TouchesNothing,
              Critical, Fresh, Reading, Staging, Checked
  <2>1. Frame(r)
    BY <1>5 DEF LoadManifest, ReplayScenario, ReplayValidation, ReplayFails
  <2>2. Leaves(r)
    BY <1>5 DEF LoadManifest, ReplayScenario, ReplayValidation, ReplayFails
  <2> QED
    BY <2>1, <2>2
<1> QED
  BY <1>1, <1>2, <1>3, <1>4, <1>5 DEF CorpusStep

LEMMA MeasureIdle ==
  ASSUME TypeOK, NEW r \in Runs, MeasureStep(r), UNCHANGED <<reportVars, buildVars>>
  PROVE Frame(r) /\ Leaves(r)
<1>0. ASSUME NEW n \in LooseNames
      PROVE /\ CreatesAt[n] # "ended" /\ CreatedAt[n] # "ended" /\ WritesAt[n] # "ended"
            /\ ComparesAt[n] # "ended" /\ RemovesAt[n] # "ended"
            /\ CreatedAt[n] \notin Critical /\ WritesAt[n] \notin Critical
            /\ ComparesAt[n] \notin Critical /\ RemovesAt[n] \notin Critical
            /\ "ended" \notin Critical
  <2>1. CASE n = "scenario"
    BY <2>1 DEF CreatesAt, CreatedAt, WritesAt, ComparesAt, RemovesAt, Critical, Fresh, Reading, Staging, Checked
  <2>2. CASE n = "record"
    BY <2>2 DEF CreatesAt, CreatedAt, WritesAt, ComparesAt, RemovesAt, Critical, Fresh, Reading, Staging, Checked
  <2> QED
    BY <2>1, <2>2 DEF LooseNames
<1>1. ASSUME NEW n \in LooseNames, CreateLoose(r, n) \/ IdentifyLoose(r, n)
      PROVE Frame(r) /\ Leaves(r)
  <2> USE DEF TypeOK, ControlOK, At, Looks, ReadsNothing, Frame, Still, Untouched, Leaves, Goto, Exit, Check,
              sources, outputs, circumstances, collecting, walking, reportVars, buildVars, TouchesNothing
  <2>1. Frame(r)
    BY <1>0, <1>1 DEF CreateLoose, IdentifyLoose, TouchesLoose
  <2>2. Leaves(r)
    BY <1>0, <1>1 DEF CreateLoose, IdentifyLoose, TouchesLoose
  <2> QED
    BY <2>1, <2>2
<1>2. ASSUME NEW n \in LooseNames, WriteFails(r, n) \/ Recognize(r, n) \/ Withdraw(r, n)
      PROVE Frame(r) /\ Leaves(r)
  <2> USE DEF TypeOK, ControlOK, At, Looks, ReadsNothing, Frame, Still, Untouched, Leaves, Goto, Exit, Check,
              sources, outputs, circumstances, collecting, walking, reportVars, buildVars, TouchesNothing
  <2>1. Frame(r)
    BY <1>0, <1>2 DEF WriteFails, Recognize, Withdraw, TouchesLoose
  <2>2. Leaves(r)
    BY <1>0, <1>2 DEF WriteFails, Recognize, Withdraw, TouchesLoose
  <2> QED
    BY <2>1, <2>2
<1>3. ASSUME NEW n \in LooseNames, NEW b, WriteLoose(r, n, b)
      PROVE Frame(r) /\ Leaves(r)
  <2> USE DEF TypeOK, ControlOK, At, Looks, ReadsNothing, Frame, Still, Untouched, Leaves, Goto, Exit, Check,
              sources, outputs, circumstances, collecting, walking, reportVars, buildVars, TouchesNothing
  <2>1. Frame(r)
    BY <1>0, <1>3 DEF WriteLoose, TouchesLoose
  <2>2. Leaves(r)
    BY <1>0, <1>3 DEF WriteLoose, TouchesLoose
  <2> QED
    BY <2>1, <2>2
<1>4. CASE ReadExactInput(r) \/ CompareManifest(r) \/ VerifySemantics(r) \/ RequireNewPath(r) \/ ValidatedPython(r)
  <2> USE DEF TypeOK, ControlOK, At, Looks, ReadsNothing, Frame, Still, Untouched, Leaves, Goto, Exit, Check,
              sources, outputs, circumstances, collecting, walking, reportVars, buildVars, TouchesNothing,
              Critical, Fresh, Reading, Staging, Checked
  <2>1. Frame(r)
    BY <1>4 DEF ReadExactInput, CompareManifest, VerifySemantics, RequireNewPath, ValidatedPython
  <2>2. Leaves(r)
    BY <1>4 DEF ReadExactInput, CompareManifest, VerifySemantics, RequireNewPath, ValidatedPython
  <2> QED
    BY <2>1, <2>2
<1>5. CASE RunChild(r) \/ ChildFails(r) \/ SeriesDiffer(r) \/ EndOfMeasurement(r)
  <2> USE DEF TypeOK, ControlOK, At, Looks, ReadsNothing, Frame, Still, Untouched, Leaves, Goto, Exit, Check,
              sources, outputs, circumstances, collecting, walking, reportVars, buildVars, TouchesNothing,
              Critical, Fresh, Reading, Staging, Checked
  <2>1. Frame(r)
    BY <1>5 DEF RunChild, ChildFails, SeriesDiffer, EndOfMeasurement
  <2>2. Leaves(r)
    BY <1>5 DEF RunChild, ChildFails, SeriesDiffer, EndOfMeasurement
  <2> QED
    BY <2>1, <2>2
<1> QED
  BY <1>1, <1>2, <1>3, <1>4, <1>5 DEF MeasureStep, LooseNames

\* Once the reports are derived, what is left of the script is to write or to read them.
Entering(r) ==
  \/ ValidateTarget(r, "reports-target")
  \/ OpenOutput(r) \/ InspectOutput(r) \/ CreatePage(r) \/ FillPage(r) \/ EndOfPages(r)
  \/ FindReports(r) \/ OpenReports(r) \/ ListReports(r) \/ ExamineReport(r) \/ CompareNames(r)
  \/ SizePage(r) \/ ReadPage(r) \/ EndOfReportsCheck(r) \/ CompareEntries(r)

LEMMA ReportsIdle ==
  ASSUME TypeOK, NEW r \in Runs, Entering(r), UNCHANGED <<reportVars, buildVars>>
  PROVE Frame(r) /\ Leaves(r)
<1>1. CASE ValidateTarget(r, "reports-target") \/ OpenOutput(r) \/ InspectOutput(r) \/ CreatePage(r) \/ FillPage(r)
  <2> USE DEF TypeOK, ControlOK, At, Looks, ReadsNothing, Frame, Still, Untouched, Leaves, Goto, Exit, Check,
              sources, outputs, circumstances, collecting, walking, reportVars, buildVars, TouchesNothing,
              Critical, Fresh, Reading, Staging, Checked
  <2>1. Frame(r)
    BY <1>1 DEF ValidateTarget, OpenOutput, InspectOutput, CreatePage, FillPage, CreateEntry, FillEntry
  <2>2. Leaves(r)
    BY <1>1 DEF ValidateTarget, OpenOutput, InspectOutput, CreatePage, FillPage, CreateEntry, FillEntry
  <2> QED
    BY <2>1, <2>2
<1>2. CASE EndOfPages(r) \/ FindReports(r) \/ OpenReports(r) \/ ListReports(r) \/ ExamineReport(r)
  <2> USE DEF TypeOK, ControlOK, At, Looks, ReadsNothing, Frame, Still, Untouched, Leaves, Goto, Exit, Check,
              sources, outputs, circumstances, collecting, walking, reportVars, buildVars, TouchesNothing,
              Critical, Fresh, Reading, Staging, Checked
  <2>1. Frame(r)
    BY <1>2 DEF EndOfPages, FindReports, OpenReports, ListReports, ExamineReport
  <2>2. Leaves(r)
    BY <1>2 DEF EndOfPages, FindReports, OpenReports, ListReports, ExamineReport
  <2> QED
    BY <2>1, <2>2
<1>3. CASE CompareNames(r) \/ SizePage(r) \/ ReadPage(r) \/ EndOfReportsCheck(r) \/ CompareEntries(r)
  <2> USE DEF TypeOK, ControlOK, At, Looks, ReadsNothing, Frame, Still, Untouched, Leaves, Goto, Exit, Check,
              sources, outputs, circumstances, collecting, walking, reportVars, buildVars, TouchesNothing,
              Critical, Fresh, Reading, Staging, Checked
  <2>1. Frame(r)
    BY <1>3 DEF CompareNames, SizePage, ReadPage, EndOfReportsCheck, CompareEntries, EntriesRead
  <2>2. Leaves(r)
    BY <1>3 DEF CompareNames, SizePage, ReadPage, EndOfReportsCheck, CompareEntries, EntriesRead
  <2> QED
    BY <2>1, <2>2
<1> QED
  BY <1>1, <1>2, <1>3 DEF Entering

-----------------------------------------------------------------------------
(* The other steps of a run: it is enough to look at the run itself. *)
Own(r) ==
  /\ Untouched /\ UNCHANGED <<request, dist>>
  /\ pc[r] # "ended"
  /\ \A q \in Runs \ {r} : Kept(q)

LEMMA OwnStep ==
  ASSUME IInv, NEW r \in Runs, Own(r), TypeOK', RunInv(r)'
  PROVE IInv'
<1>1. ASSUME NEW q \in Runs PROVE RunInv(q)'
  BY KeptRun DEF IInv, Own
<1>2. ReleasedInv'
  BY DEF IInv, ReleasedInv, Released, ReleaseOfOneInstant, Own, Untouched, Kept
<1> QED
  BY <1>1, <1>2 DEF IInv

\* Control alone changes nothing of what has been read.
LEMMA SameReading ==
  ASSUME NEW r \in Runs, RunInv(r), Untouched,
         opened'[r] = opened[r], seen'[r] = seen[r], pass'[r] = pass[r],
         taken'[r] = taken[r], instant'[r] = instant[r], managed'[r] = managed[r]
  PROVE Known(r)' /\ Gone(r)' /\ Agreed(r)'
<1>1. Known(r)' /\ Gone(r)'
  BY DEF RunInv, Untouched, Known, Gone, Lost, Has
<1>2. Agreed(r)'
  BY DEF RunInv, Untouched, Agreed
<1> QED
  BY <1>1, <1>2

LEMMA SomeScenario == Len(ScenarioInputs) \in Nat /\ 0 < Len(ScenarioInputs)
<1>1. Len(ScenarioInputs) \in Nat
  BY ScenariosHaveInputs, LenProperties
<1>2. Len(ScenarioInputs) # 0
  BY ScenariosHaveInputs, EmptySeq
<1> QED
  BY <1>1, <1>2

LEMMA ScenarioHasFiles ==
  ASSUME NEW k \in Nat, k < Len(ScenarioInputs)
  PROVE /\ ScenarioInputs[k + 1] \in Seq(Sources)
        /\ Len(ScenarioInputs[k + 1]) \in Nat
        /\ DOMAIN ScenarioInputs[k + 1] = 1..Len(ScenarioInputs[k + 1])
<1>1. k + 1 \in 1..Len(ScenarioInputs)
  BY SomeScenario
<1>2. ScenarioInputs[k + 1] \in Seq(Sources)
  BY <1>1, ScenariosHaveInputs, ElementOfSeq
<1> QED
  BY <1>2, LenProperties

LEMMA StartStep ==
  ASSUME IInv, NEW r \in Runs, Start(r), UNCHANGED <<reportVars, buildVars>>
  PROVE IInv'
<1> USE DEF IInv, Start, At, Goto, sources, outputs, circumstances, walking, collecting, reportVars, buildVars
<1>1. request[r].command \in Commands /\ pc' = [pc EXCEPT ![r] = request[r].command]
  BY DEF TypeOK, TreeOK
<1>2. TypeOK'
  BY DEF TypeOK, TreeOK, ControlOK, ReadingOK
<1>3. Own(r)
  BY DEF Own, Untouched, Kept, TypeOK, ControlOK
<1>4. pc'[r] \in Commands
  BY <1>1 DEF TypeOK, ControlOK
<1>5. pc'[r] \notin Reading \cup Staging \cup Checked \cup {"begin", "version"}
  BY <1>4 DEF Commands, Reading, Staging, Checked
<1>6. BeforeAll(r)'
  BY <1>5 DEF RunInv, BeforeAll, Fresh
<1>7. Scenarios(r)' /\ Plans(r)' /\ Compared(r)'
  BY <1>5 DEF Scenarios, Plans, Compared
<1>8. Known(r)' /\ Gone(r)' /\ Agreed(r)'
  BY DEF RunInv, Known, Gone, Lost, Has, Agreed
<1> QED
  BY <1>2, <1>3, <1>6, <1>7, <1>8, OwnStep DEF RunInv

LEMMA BeginReportsStep ==
  ASSUME IInv, NEW r \in Runs, BeginReports(r), UNCHANGED buildVars
  PROVE IInv'
<1>1. TypeOK
  BY DEF IInv
<1>2. /\ request[r].command \in Fresh \ {"version"} /\ pc[r] = request[r].command
      /\ pc' = [pc EXCEPT ![r] = "source-entries"]
      /\ Untouched /\ UNCHANGED <<request, dist>>
      /\ UNCHANGED <<number, plan, version, built, opened, seen, pass, taken, instant, managed>>
  BY DEF BeginReports, At, Goto, Looks, ReadsNothing, Deriving, Derives, Fresh, Untouched,
         sources, outputs, circumstances, walking, collecting, buildVars
<1>3. TypeOK'
  BY <1>1, <1>2 DEF Untouched, TypeOK, TreeOK, ControlOK, ReadingOK
<1>4. pc[r] \in Fresh \ {"version"} /\ pc[r] # "ended" /\ pc'[r] = "source-entries"
  BY <1>1, <1>2 DEF Fresh, TypeOK, ControlOK
<1>5. Own(r)
  BY <1>1, <1>2, <1>4 DEF Own, Kept, TypeOK, ControlOK
<1>6. RunInv(r)
  BY DEF IInv
<1>7. /\ pass[r] = "first" /\ number[r] = 0 /\ managed[r] = <<>> /\ opened[r] = Absent
      /\ pass'[r] = "first" /\ number'[r] = 0 /\ managed'[r] = <<>> /\ opened'[r] = Absent
  BY <1>2, <1>4, <1>6 DEF RunInv, BeforeAll
<1>8. Scenarios(r)'
  <2>1. Len(managed'[r]) = 0
    BY <1>7
  <2>2. Inputs(r)' = ScenarioInputs[0 + 1]
    BY <2>1 DEF Inputs
  <2>3. Len(Inputs(r)') \in Nat
    BY <2>2, SomeScenario, ScenarioHasFiles
  <2>4. number'[r] <= Len(Inputs(r)') /\ 1..number'[r] = {}
    BY <2>3, <1>7
  <2>5. pass'[r] = "first" /\ opened'[r] = Absent
    BY <1>7
  <2>6. Len(managed'[r]) < Len(ScenarioInputs)
    BY <2>1, SomeScenario
  <2>7. \A k \in 1..number'[r] : Has(r, pass[r], Inputs(r)[k])'
    BY <2>4
  <2> QED
    BY <1>4, <2>4, <2>5, <2>6, <2>7 DEF Scenarios
<1>9. BeforeAll(r)' /\ Plans(r)' /\ Compared(r)'
  BY <1>4 DEF BeforeAll, Plans, Compared, Fresh, Staging, Checked
<1>10. Known(r)' /\ Gone(r)' /\ Agreed(r)'
  BY <1>2, <1>6, SameReading
<1> QED
  BY <1>3, <1>5, <1>8, <1>9, <1>10, OwnStep DEF RunInv

-----------------------------------------------------------------------------
(* Reading a source. *)
LEMMA ContentsAreRead == \A c \in Bytes : c # Unread
<1>1. Contents \subseteq [Blocks -> Values \cup {Absent}] /\ Nothing \in [Blocks -> Values \cup {Absent}]
  BY DEF Contents, Nothing
<1> QED
  BY <1>1, AbsentIsNoValue DEF Bytes

Takes(r, p, f, c) == taken' = [taken EXCEPT ![r][p][f] = c]

LEMMA NowTaken ==
  ASSUME taken \in [Runs -> [Passes -> Copies]], NEW r \in Runs, NEW p \in Passes, NEW f \in Sources, NEW c \in Bytes,
         Takes(r, p, f, c)
  PROVE /\ taken' \in [Runs -> [Passes -> Copies]]
        /\ \A q \in Runs \ {r} : taken'[q] = taken[q]
        /\ \A o \in Passes, g \in Sources : (o # p \/ g # f) => taken'[r][o][g] = taken[r][o][g]
        /\ taken'[r][p][f] = c
<1>1. taken[r] \in [Passes -> Copies]
  OBVIOUS
<1>2. PICK t : t = taken[r][p]
  OBVIOUS
<1>3. t \in Copies
  BY <1>1, <1>2
<1>4. PICK u : u = [t EXCEPT ![f] = c]
  OBVIOUS
<1>5. u \in Copies /\ \A g \in Sources : u[g] = IF g = f THEN c ELSE t[g]
  BY <1>3, <1>4 DEF Copies
<1>6. PICK w : w = [taken[r] EXCEPT ![p] = u]
  OBVIOUS
<1>7. w \in [Passes -> Copies] /\ \A o \in Passes : w[o] = IF o = p THEN u ELSE taken[r][o]
  BY <1>1, <1>5, <1>6
<1>8. taken' = [taken EXCEPT ![r] = w]
  BY <1>2, <1>4, <1>6 DEF Takes
<1>9. taken' \in [Runs -> [Passes -> Copies]] /\ taken'[r] = w /\ \A q \in Runs \ {r} : taken'[q] = taken[q]
  BY <1>7, <1>8
<1>10. \A o \in Passes, g \in Sources : (o # p \/ g # f) => taken'[r][o][g] = taken[r][o][g]
  BY <1>2, <1>5, <1>7, <1>9
<1>11. taken'[r][p][f] = c
  BY <1>5, <1>7, <1>9
<1> QED
  BY <1>9, <1>10, <1>11

LEMMA NowRead ==
  ASSUME taken \in [Runs -> [Passes -> Copies]], NEW r \in Runs, pass[r] \in Passes, NEW f \in Sources, NEW c \in Bytes,
         Takes(r, pass[r], f, c)
  PROVE /\ taken' \in [Runs -> [Passes -> Copies]]
        /\ \A q \in Runs \ {r} : taken'[q] = taken[q]
        /\ \A o \in Passes, g \in Sources : (o # pass[r] \/ g # f) => taken'[r][o][g] = taken[r][o][g]
        /\ taken'[r][pass[r]][f] = c
<1>1. taken' \in [Runs -> [Passes -> Copies]]
  BY NowTaken
<1>2. \A q \in Runs \ {r} : taken'[q] = taken[q]
  BY NowTaken
<1>3. \A o \in Passes, g \in Sources : (o # pass[r] \/ g # f) => taken'[r][o][g] = taken[r][o][g]
  BY NowTaken
<1>4. taken'[r][pass[r]][f] = c
  BY NowTaken
<1> QED
  BY <1>1, <1>2, <1>3, <1>4

\* What is opened now has nothing that is gone.
LEMMA Opening ==
  ASSUME NEW r \in Runs, RunInv(r), TreeOK, Untouched, NEW f \in Sources,
         opened'[r] = f, seen'[r] = {tree[f]}, pass'[r] = pass[r],
         taken'[r] = taken[r], instant'[r] = instant[r], managed'[r] = managed[r]
  PROVE Known(r)' /\ Gone(r)' /\ Agreed(r)'
<1>1. Known(r)'
  BY DEF RunInv, TreeOK, Untouched, Known, Has
<1>2. ASSUME NEW g \in Sources, NEW b \in Blocks, NEW v, Lost(r, g, b, v) PROVE Lost(r, g, b, v)'
  BY <1>2 DEF Lost, Untouched, Has
<1>3. Gone(r)'
  BY <1>2 DEF RunInv, Gone, Untouched, Has
<1>4. Agreed(r)'
  BY DEF RunInv, Untouched, Agreed
<1> QED
  BY <1>1, <1>3, <1>4

\* What is read was there when the file was opened or came later.
LEMMA Taking ==
  ASSUME NEW r \in Runs, RunInv(r), TypeOK, Untouched, NEW f \in Sources, opened[r] = f, f # Absent,
         pass[r] \in {"first", "again", "last"}, NEW c \in Mixtures(seen[r]),
         \A p \in Passes, g \in Sources : (p # pass[r] \/ g # f) => taken'[r][p][g] = taken[r][p][g],
         taken'[r][pass[r]][f] = c,
         opened'[r] = Absent, seen'[r] = {}, pass'[r] = pass[r], instant'[r] = instant[r], managed'[r] = managed[r]
  PROVE Known(r)' /\ Gone(r)' /\ Agreed(r)'
<1>1. \A b \in Blocks : c[b] \in had[f][b]
  BY DEF RunInv, Known, Mixtures
<1>2. \A b \in Blocks : \E d \in seen[r] : c[b] = d[b]
  BY DEF Mixtures
<1>6. "first" \in Passes /\ "loaded" \in Passes /\ "last" \in Passes
  BY DEF Passes
<1>7. Known(r)'
  BY <1>1, <1>6 DEF RunInv, Untouched, Known, Has
<1>8. ASSUME NEW g \in Sources, NEW b \in Blocks, NEW v, Lost(r, g, b, v) PROVE Lost(r, g, b, v)'
  BY <1>2, <1>6, <1>8 DEF Lost, Untouched, Has
<1>9. Gone(r)'
  BY <1>6, <1>8 DEF RunInv, Gone, Untouched, Has
<1>10. Agreed(r)'
  BY DEF RunInv, Untouched, Agreed
<1> QED
  BY <1>7, <1>9, <1>10

LEMMA StagedAreSources == Staged \subseteq Sources
<1>1. /\ DOMAIN BuildFiles = 1..Len(BuildFiles) /\ DOMAIN PackageFiles = 1..Len(PackageFiles)
      /\ \A k \in 1..Len(BuildFiles) : BuildFiles[k] \in Sources
      /\ \A k \in 1..Len(PackageFiles) : PackageFiles[k] \in Sources
  BY EverythingIsASource, LenProperties, ElementOfSeq
<1> QED
  BY <1>1 DEF Staged, ToSet

LEMMA NextIndex ==
  ASSUME NEW n \in Nat, NEW l \in Nat, n < l
  PROVE n + 1 <= l /\ \A k \in 1..(n + 1) : k \in 1..l /\ (k \in 1..n \/ k = n + 1)
OBVIOUS

LEMMA OneMore ==
  ASSUME number \in [Runs -> Nat], NEW r \in Runs, number' = [number EXCEPT ![r] = number[r] + 1]
  PROVE number' \in [Runs -> Nat]
<1>1. number[r] + 1 \in Nat
  OBVIOUS
<1> QED
  BY <1>1

LEMMA OpenStep ==
  ASSUME IInv, NEW r \in Runs, NEW f \in Sources, OpenSource(r, f), UNCHANGED <<managed, buildVars>>,
         \/ pc[r] \in Reading /\ number[r] < Len(Inputs(r)) /\ f = Input(r)
         \/ pc[r] \in Staging /\ number[r] < Len(plan[r]) /\ f = plan[r][number[r] + 1]
  PROVE IInv'
<1>1. TypeOK /\ RunInv(r)
  BY DEF IInv
<1>2. /\ Untouched /\ UNCHANGED <<request, dist>>
      /\ UNCHANGED <<pc, number, plan, version, built, pass, taken, instant, managed>>
      /\ opened' = [opened EXCEPT ![r] = f] /\ seen' = [seen EXCEPT ![r] = {tree[f]}] /\ Readable(f)
  BY DEF OpenSource, Looks, Untouched, sources, outputs, circumstances, control, walking, buildVars
<1>3. tree[f] \in Contents
  BY <1>1, <1>2 DEF Readable, TypeOK, TreeOK, Bytes
<1>4. TypeOK'
  BY <1>1, <1>2, <1>3 DEF Untouched, TypeOK, TreeOK, ControlOK, ReadingOK
<1>5. pc[r] # "ended" /\ pc[r] \notin Fresh \cup Checked
  BY DEF Reading, Staging, Fresh, Checked
<1>6. Own(r)
  BY <1>1, <1>2, <1>5 DEF Own, Kept, TypeOK, ReadingOK
<1>7. opened'[r] = f /\ seen'[r] = {tree[f]}
  BY <1>1, <1>2 DEF TypeOK, ReadingOK
<1>8. Known(r)' /\ Gone(r)' /\ Agreed(r)'
  BY <1>1, <1>2, <1>7, Opening DEF TypeOK
<1>9. BeforeAll(r)' /\ Compared(r)'
  BY <1>2, <1>5 DEF BeforeAll, Compared
<1>10. Inputs(r)' = Inputs(r) /\ Input(r)' = Input(r)
  BY <1>2 DEF Inputs, Input
<1>11. Scenarios(r)'
  BY <1>1, <1>2, <1>7, <1>10 DEF RunInv, Scenarios, Has, Reading, Staging
<1>12. Plans(r)'
  BY <1>1, <1>2, <1>7 DEF RunInv, Plans, Has, Reading, Staging
<1> QED
  BY <1>4, <1>6, <1>8, <1>9, <1>11, <1>12, OwnStep DEF RunInv

LEMMA TakeStep ==
  ASSUME IInv, NEW r \in Runs, TakeSource(r), UNCHANGED <<managed, buildVars>>,
         pc[r] \in {"source-entries"} \cup Staging
  PROVE IInv'
<1>1. TypeOK /\ RunInv(r)
  BY DEF IInv
<1>2. PICK f \in Sources, c \in Mixtures(seen[r]) :
        /\ opened[r] = f /\ f # Absent /\ taken' = [taken EXCEPT ![r][pass[r]][f] = c]
        /\ Untouched /\ UNCHANGED <<request, dist>>
        /\ UNCHANGED <<pc, plan, version, built, pass, instant, managed>>
        /\ opened' = [opened EXCEPT ![r] = Absent] /\ seen' = [seen EXCEPT ![r] = {}]
        /\ number' = [number EXCEPT ![r] = number[r] + 1]
  BY <1>1 DEF TakeSource, Looks, Untouched, sources, outputs, circumstances, control, buildVars, Advance,
              TypeOK, ReadingOK
<1>3. c \in Contents
  BY DEF Mixtures
<1>4. Takes(r, pass[r], f, c)
  BY <1>2 DEF Takes
<1>15. taken \in [Runs -> [Passes -> Copies]] /\ pass[r] \in Passes /\ c \in Bytes
  BY <1>1, <1>3 DEF TypeOK, ReadingOK, Bytes
<1>16. taken' \in [Runs -> [Passes -> Copies]]
  BY <1>4, <1>15, NowRead
<1>22. \A q \in Runs \ {r} : taken'[q] = taken[q]
  BY <1>4, <1>15, NowRead
<1>17. \A p \in Passes, g \in Sources : (p # pass[r] \/ g # f) => taken'[r][p][g] = taken[r][p][g]
  BY <1>4, <1>15, NowRead
<1>18. taken'[r][pass[r]][f] = c
  BY <1>4, <1>15, NowRead, ZenonT(60)
<1>19. \A p \in Passes, g \in Sources : taken[r][p][g] # Unread => taken'[r][p][g] # Unread
  BY <1>15, <1>17, <1>18, ContentsAreRead
<1>20. TypeOK'
  <2>1. number \in [Runs -> Nat] /\ number' = [number EXCEPT ![r] = number[r] + 1]
    BY <1>1, <1>2 DEF TypeOK, ControlOK
  <2>2. number' \in [Runs -> Nat]
    BY <2>1, OneMore
  <2>3. TreeOK' /\ ControlOK'
    BY <1>1, <1>2, <2>2 DEF Untouched, TypeOK, TreeOK, ControlOK
  <2>4. ReadingOK'
    BY <1>1, <1>2, <1>16 DEF TypeOK, ReadingOK
  <2> QED
    BY <2>3, <2>4 DEF TypeOK
<1>5. pc[r] # "ended" /\ pc[r] \notin Fresh \cup Checked /\ pc[r] # "load"
  BY DEF Staging, Fresh, Checked
<1>6. Own(r)
  BY <1>1, <1>2, <1>5, <1>22 DEF Own, Kept, TypeOK, ReadingOK, ControlOK
<1>7. opened'[r] = Absent /\ seen'[r] = {} /\ number'[r] = number[r] + 1 /\ number[r] \in Nat
  BY <1>1, <1>2 DEF TypeOK, ReadingOK, ControlOK
<1>8. pass[r] \in {"first", "again", "last"}
  BY <1>1, <1>5 DEF RunInv, Scenarios, Plans, Reading, TypeOK, ReadingOK, Passes
<1>9. Known(r)' /\ Gone(r)' /\ Agreed(r)'
  BY <1>1, <1>2, <1>17, <1>18, <1>7, <1>8, Taking DEF TypeOK
<1>10. BeforeAll(r)' /\ Compared(r)'
  BY <1>2, <1>5 DEF BeforeAll, Compared
<1>11. pass[r] \in Passes /\ "first" \in Passes /\ "loaded" \in Passes
  BY <1>1 DEF TypeOK, ReadingOK, Passes
<1>12. Inputs(r)' = Inputs(r) /\ pass'[r] = pass[r] /\ plan'[r] = plan[r]
  BY <1>2 DEF Inputs
<1>13. Scenarios(r)'
  <2> SUFFICES ASSUME pc[r] = "source-entries" PROVE Scenarios(r)'
    BY <1>2, <1>5 DEF Scenarios, Reading
  <2>1. /\ Len(managed[r]) \in Nat /\ Len(managed[r]) < Len(ScenarioInputs)
        /\ number[r] < Len(Inputs(r)) /\ f = Input(r) /\ pass[r] # "loaded"
        /\ \A k \in 1..number[r] : Has(r, pass[r], Inputs(r)[k])
        /\ pass[r] # "first" => \A k \in DOMAIN Inputs(r) : Has(r, "first", Inputs(r)[k])
        /\ pass[r] \in {"again", "last"} => \A k \in DOMAIN Inputs(r) : Has(r, "loaded", Inputs(r)[k])
    BY <1>1, <1>2, LenProperties DEF RunInv, Scenarios, Reading, TypeOK, ReadingOK
  <2>2. Inputs(r) \in Seq(Sources) /\ Len(Inputs(r)) \in Nat /\ DOMAIN Inputs(r) = 1..Len(Inputs(r))
    BY <2>1, ScenarioHasFiles DEF Inputs
  <2>3. \A k \in DOMAIN Inputs(r) : Inputs(r)[k] \in Sources
    BY <2>2, ElementOfSeq
  <2>4. number[r] + 1 <= Len(Inputs(r)) /\ \A k \in 1..(number[r] + 1) : k \in DOMAIN Inputs(r) /\ (k \in 1..number[r] \/ k = number[r] + 1)
    <3>1. number[r] \in Nat /\ Len(Inputs(r)) \in Nat /\ number[r] < Len(Inputs(r))
      BY <1>7, <2>1, <2>2
    <3>2. DOMAIN Inputs(r) = 1..Len(Inputs(r))
      BY <2>2
    <3> QED
      BY <3>1, <3>2, NextIndex
  <2>5. \A k \in 1..(number[r] + 1) : Has(r, pass[r], Inputs(r)[k])'
    BY <1>15, <1>18, <1>19, ContentsAreRead, <1>11, <1>12, <2>1, <2>3, <2>4 DEF Input, Has
  <2> QED
    BY <1>2, <1>19, <1>7, <1>11, <1>12, <2>1, <2>3, <2>4, <2>5 DEF Scenarios, Has
<1>14. Plans(r)'
  <2> SUFFICES ASSUME pc[r] \in Staging PROVE Plans(r)'
    BY <1>2 DEF Plans
  <2>1. /\ pass[r] \in {"first", "last"}
        /\ number[r] < Len(plan[r]) /\ f = plan[r][number[r] + 1]
        /\ \A k \in 1..number[r] : Has(r, pass[r], plan[r][k])
        /\ pc[r] = "stage" => plan[r] = BuildFiles
        /\ pc[r] = "package" => \A g \in Staged : g \in ToSet(plan[r]) \/ Has(r, pass[r], g)
        /\ pass[r] = "last" => \A g \in Staged : Has(r, "first", g)
        /\ built[r] = <<>>
    BY <1>1, <1>2 DEF RunInv, Plans
  <2>2. plan[r] \in Seq(Sources) /\ Len(plan[r]) \in Nat /\ DOMAIN plan[r] = 1..Len(plan[r])
    BY <1>1, LenProperties DEF TypeOK, ControlOK
  <2>3. \A k \in DOMAIN plan[r] : plan[r][k] \in Sources
    BY <2>2, ElementOfSeq
  <2>4. number[r] + 1 <= Len(plan[r]) /\ \A k \in 1..(number[r] + 1) : k \in DOMAIN plan[r] /\ (k \in 1..number[r] \/ k = number[r] + 1)
    <3>1. number[r] \in Nat /\ Len(plan[r]) \in Nat /\ number[r] < Len(plan[r])
      BY <1>7, <2>1, <2>2
    <3>2. DOMAIN plan[r] = 1..Len(plan[r])
      BY <2>2
    <3> QED
      BY <3>1, <3>2, NextIndex
  <2>5. \A k \in 1..(number[r] + 1) : Has(r, pass[r], plan[r][k])'
    BY <1>15, <1>18, <1>19, ContentsAreRead, <1>11, <1>12, <2>1, <2>3, <2>4 DEF Has
  <2> QED
    BY <1>2, <1>19, <1>7, <1>11, <2>1, <2>3, <2>4, <2>5, StagedAreSources DEF Plans, Has
<1> QED
  BY <1>20, <1>6, <1>9, <1>10, <1>13, <1>14, OwnStep DEF RunInv

-----------------------------------------------------------------------------
(* The steps of a build. *)
Resting ==
  /\ Untouched /\ UNCHANGED <<request, dist>>
  /\ UNCHANGED <<number, plan, opened, seen, pass, taken, instant, managed>>

\* A step of the control alone, or of what it is asked for.
LEMMA ControlStep ==
  ASSUME IInv, NEW r \in Runs, NEW s, pc' = [pc EXCEPT ![r] = s], Resting, pc[r] # "ended",
         DOMAIN version' = Runs, \A q \in Runs \ {r} : version'[q] = version[q],
         built' \in [Runs -> Seq(Archive)], \A q \in Runs \ {r} : built'[q] = built[q],
         BeforeAll(r)', Scenarios(r)', Plans(r)', Compared(r)'
  PROVE IInv'
<1>1. TypeOK /\ RunInv(r)
  BY DEF IInv
<1>2. TypeOK'
  BY <1>1 DEF Resting, Untouched, TypeOK, TreeOK, ControlOK, ReadingOK
<1>3. \A q \in Runs \ {r} : pc'[q] = pc[q]
  BY <1>1 DEF TypeOK, ControlOK
<1>4. Own(r)
  BY <1>3 DEF Own, Kept, Resting
<1>5. Known(r)' /\ Gone(r)' /\ Agreed(r)'
  BY <1>1, SameReading DEF Resting
<1> QED
  BY <1>2, <1>4, <1>5, OwnStep DEF RunInv

LEMMA PreflightStep ==
  ASSUME IInv, NEW r \in Runs, PreflightOutput(r), UNCHANGED managed
  PROVE IInv'
<1>1. TypeOK /\ RunInv(r)
  BY DEF IInv
<1>2. /\ pc[r] = "build" /\ Resting /\ UNCHANGED <<version, built>>
      /\ pc' = [pc EXCEPT ![r] = "version"] \/ pc' = [pc EXCEPT ![r] = "ended"]
  BY DEF PreflightOutput, At, Check, Goto, Exit, Looks, ReadsNothing, Building, Resting, Untouched,
         sources, outputs, circumstances, walking, collecting, buildVars
<1>3. PICK s \in {"version", "ended"} : pc' = [pc EXCEPT ![r] = s]
  BY <1>2
<1>4. pc'[r] = s
  BY <1>1, <1>3 DEF TypeOK, ControlOK
<1>5. BeforeAll(r)'
  BY <1>1, <1>2, <1>4 DEF RunInv, BeforeAll, Resting, Fresh
<1>6. Scenarios(r)' /\ Plans(r)' /\ Compared(r)'
  BY <1>4 DEF Scenarios, Plans, Compared, Reading, Staging, Checked
<1>7. DOMAIN version' = Runs /\ \A q \in Runs : version'[q] = version[q]
  BY <1>1, <1>2 DEF TypeOK, ControlOK
<1>8. built' \in [Runs -> Seq(Archive)] /\ \A q \in Runs : built'[q] = built[q]
  BY <1>1, <1>2 DEF TypeOK, ControlOK
<1> QED
  BY <1>2, <1>3, <1>5, <1>6, <1>7, <1>8, ControlStep

LEMMA OpenVersionStep ==
  ASSUME IInv, NEW r \in Runs, OpenVersion(r), UNCHANGED managed
  PROVE IInv'
<1>1. TypeOK /\ RunInv(r) /\ VersionFile \in Sources
  BY TheVersionIsStaged, StagedAreSources DEF IInv, Staged
<1>2. /\ pc[r] = "version" /\ Untouched /\ UNCHANGED <<request, dist>>
      /\ UNCHANGED <<number, plan, version, built, pass, taken, instant, managed>>
  BY DEF OpenVersion, At, Looks, Building, Untouched, sources, outputs, circumstances, walking, buildVars
<1>3. CASE tree[VersionFile] = Nothing
  <2>1. UNCHANGED <<opened, seen>> /\ pc' = [pc EXCEPT ![r] = "ended"]
    BY <1>3 DEF OpenVersion, Exit
  <2>2. Frame(r)
    BY <1>2, <2>1 DEF Frame, Still
  <2>3. Leaves(r)
    BY <1>1, <2>1 DEF Leaves, TypeOK, ControlOK, Critical, Fresh, Reading, Staging, Checked
  <2> QED
    BY <1>1, <2>2, <2>3, LeavesIsIdle, IdleStep
<1>4. CASE tree[VersionFile] # Nothing
  <2>1. /\ opened' = [opened EXCEPT ![r] = VersionFile] /\ seen' = [seen EXCEPT ![r] = {tree[VersionFile]}]
        /\ pc' = pc
    BY <1>4 DEF OpenVersion, control
  <2>2. tree[VersionFile] \in Contents
    BY <1>1, <1>4 DEF TypeOK, TreeOK, Bytes
  <2>3. TypeOK'
    BY <1>1, <1>2, <2>1, <2>2 DEF Untouched, TypeOK, TreeOK, ControlOK, ReadingOK
  <2>4. Own(r)
    BY <1>1, <1>2, <2>1 DEF Own, Kept, TypeOK, ReadingOK
  <2>5. opened'[r] = VersionFile /\ seen'[r] = {tree[VersionFile]}
    BY <1>1, <2>1 DEF TypeOK, ReadingOK
  <2>6. Known(r)' /\ Gone(r)' /\ Agreed(r)'
    BY <1>1, <1>2, <2>5, Opening DEF TypeOK
  <2>7. BeforeAll(r)'
    BY <1>1, <1>2, <2>1 DEF RunInv, BeforeAll, Fresh
  <2>8. Scenarios(r)' /\ Plans(r)' /\ Compared(r)'
    BY <1>2, <2>1 DEF Scenarios, Plans, Compared, Reading, Staging, Checked
  <2> QED
    BY <2>3, <2>4, <2>6, <2>7, <2>8, OwnStep DEF RunInv
<1> QED
  BY <1>3, <1>4

LEMMA ReadVersionStep ==
  ASSUME IInv, NEW r \in Runs, ReadVersion(r), UNCHANGED managed
  PROVE IInv'
<1>1. TypeOK /\ RunInv(r)
  BY DEF IInv
<1>2. /\ pc[r] = "version" /\ Untouched /\ UNCHANGED <<request, dist>>
      /\ UNCHANGED <<number, built, pass, taken, instant, managed>>
      /\ opened' = [opened EXCEPT ![r] = Absent] /\ seen' = [seen EXCEPT ![r] = {}]
      /\ plan' = [plan EXCEPT ![r] = BuildFiles]
  BY DEF ReadVersion, At, Looks, Untouched, sources, outputs, circumstances, walking
<1>3. PICK v, s : version' = [version EXCEPT ![r] = v] /\ pc' = [pc EXCEPT ![r] = s] /\ s \in {"ended", "stage"}
  BY DEF ReadVersion, Exit, Goto
<1>4. TypeOK'
  BY <1>1, <1>2, <1>3, EverythingIsASource DEF Untouched, TypeOK, TreeOK, ControlOK, ReadingOK
<1>5. Own(r)
  BY <1>1, <1>2, <1>3 DEF Own, Kept, TypeOK, ControlOK, ReadingOK
<1>6. /\ pc'[r] = s /\ opened'[r] = Absent /\ seen'[r] = {} /\ plan'[r] = BuildFiles
      /\ pass'[r] = "first" /\ number'[r] = 0 /\ built'[r] = <<>>
  BY <1>1, <1>2, <1>3 DEF RunInv, BeforeAll, Fresh, TypeOK, ControlOK, ReadingOK
<1>7. Known(r)'
  BY <1>1, <1>2, <1>6 DEF RunInv, Known, Untouched, Has
<1>8. Gone(r)' /\ Agreed(r)'
  BY <1>1, <1>2, <1>6 DEF RunInv, Gone, Agreed, Untouched
<1>9. BeforeAll(r)' /\ Scenarios(r)' /\ Compared(r)'
  BY <1>3, <1>6 DEF BeforeAll, Scenarios, Compared, Fresh, Reading, Checked
<1>10. Plans(r)'
  <2>1. Len(BuildFiles) \in Nat
    BY EverythingIsASource, LenProperties
  <2>2. 0 <= Len(BuildFiles) /\ 1..0 = {}
    BY <2>1
  <2> QED
    BY <1>3, <1>6, <2>2 DEF Plans, Staging
<1> QED
  BY <1>4, <1>5, <1>7, <1>8, <1>9, <1>10, OwnStep DEF RunInv

-----------------------------------------------------------------------------
(* The inputs of a scenario are read, loaded, and read again. *)
LEMMA RefuseStep ==
  ASSUME IInv, NEW r \in Runs, NEW f, RefuseSource(r, f), UNCHANGED <<managed, buildVars>>, pc[r] # "ended"
  PROVE IInv'
<1>1. TypeOK
  BY DEF IInv
<1>2. Frame(r)
  BY DEF Frame, Still, Untouched, RefuseSource, Looks, ReadsNothing, sources, outputs, circumstances, walking,
         collecting, buildVars
<1>3. Leaves(r)
  BY <1>1 DEF Leaves, RefuseSource, Exit, TypeOK, ControlOK, Critical, Fresh, Reading, Staging, Checked
<1> QED
  BY <1>1, <1>2, <1>3, LeavesIsIdle, IdleStep

LEMMA InputsKnown ==
  ASSUME TypeOK, NEW r \in Runs, Scenarios(r), pc[r] \in Reading
  PROVE /\ Inputs(r) \in Seq(Sources) /\ Len(Inputs(r)) \in Nat /\ DOMAIN Inputs(r) = 1..Len(Inputs(r))
        /\ \A k \in DOMAIN Inputs(r) : Inputs(r)[k] \in Sources
        /\ number[r] \in Nat /\ number[r] <= Len(Inputs(r))
<1>1. Len(managed[r]) \in Nat /\ Len(managed[r]) < Len(ScenarioInputs)
  BY LenProperties DEF Scenarios, TypeOK, ReadingOK
<1>2. Inputs(r) \in Seq(Sources) /\ Len(Inputs(r)) \in Nat /\ DOMAIN Inputs(r) = 1..Len(Inputs(r))
  BY <1>1, ScenarioHasFiles DEF Inputs
<1>3. \A k \in DOMAIN Inputs(r) : Inputs(r)[k] \in Sources
  BY <1>2, ElementOfSeq
<1>4. number[r] \in Nat /\ number[r] <= Len(Inputs(r))
  BY DEF Scenarios, TypeOK, ControlOK
<1> QED
  BY <1>2, <1>3, <1>4

LEMMA NotTheLast ==
  ASSUME NEW n \in Nat, NEW l \in Nat, n <= l, n # l
  PROVE n < l /\ n + 1 \in 1..l
OBVIOUS

LEMMA NextInput ==
  ASSUME TypeOK, NEW r \in Runs, Scenarios(r), pc[r] \in Reading, ~LastInput(r)
  PROVE number[r] < Len(Inputs(r)) /\ Input(r) \in Sources
<1>1. number[r] < Len(Inputs(r)) /\ number[r] + 1 \in DOMAIN Inputs(r)
  BY InputsKnown, NotTheLast DEF LastInput
<1> QED
  BY <1>1, InputsKnown DEF Input

LEMMA ReadInputStep ==
  ASSUME IInv, NEW r \in Runs, ReadInput(r), UNCHANGED buildVars
  PROVE IInv'
<1>1. TypeOK /\ Scenarios(r)
  BY DEF IInv, RunInv
<1>2. pc[r] = "source-entries" /\ pc[r] \in Reading /\ pc[r] # "ended" /\ UNCHANGED <<managed, buildVars>>
  BY DEF ReadInput, At, Reading, Deriving
<1>3. CASE OpenSource(r, Input(r))
  <2>1. number[r] < Len(Inputs(r)) /\ Input(r) \in Sources
    BY <1>1, <1>2, <1>3, NextInput DEF ReadInput, OpenSource
  <2> QED
    BY <1>2, <1>3, <2>1, OpenStep
<1>4. CASE RefuseSource(r, Input(r))
  BY <1>2, <1>4, RefuseStep
<1>5. CASE TakeSource(r)
  BY <1>2, <1>5, TakeStep
<1> QED
  BY <1>3, <1>4, <1>5 DEF ReadInput

LEMMA OpenLoadedStep ==
  ASSUME IInv, NEW r \in Runs, OpenLoaded(r), UNCHANGED buildVars
  PROVE IInv'
<1>1. TypeOK /\ Scenarios(r)
  BY DEF IInv, RunInv
<1>2. pc[r] \in Reading /\ pc[r] # "ended" /\ UNCHANGED <<managed, buildVars>>
  BY DEF OpenLoaded, At, Reading, Deriving
<1>3. CASE OpenSource(r, Input(r))
  <2>1. number[r] < Len(Inputs(r)) /\ Input(r) \in Sources
    BY <1>1, <1>2, NextInput DEF OpenLoaded
  <2> QED
    BY <1>2, <1>3, <2>1, OpenStep
<1>4. CASE RefuseSource(r, Input(r))
  BY <1>2, <1>4, RefuseStep
<1> QED
  BY <1>3, <1>4 DEF OpenLoaded

-----------------------------------------------------------------------------
(* The passes end. *)
\* What was read and is no more the content at the end of the first pass is gone by then.
LEMMA FirstPassEnds ==
  ASSUME NEW r \in Runs, RunInv(r), TypeOK, Untouched, opened[r] = Absent,
         pass[r] = "first", pass'[r] \in {"loaded", "last"}, instant'[r] = tree,
         opened'[r] = opened[r], seen'[r] = seen[r], taken'[r] = taken[r], managed'[r] = managed[r]
  PROVE Known(r)' /\ Gone(r)' /\ Agreed(r)'
<1>1. \A f \in Sources : f # Absent /\ tree[f] # Unread
  BY NoneIsNoSource, ContentsAreRead DEF TypeOK, TreeOK
<1>2. Known(r)'
  BY <1>1 DEF RunInv, Untouched, Known, Has
<1>3. \A f \in Sources : ~Has(r, "loaded", f) /\ ~Has(r, "last", f)
  BY DEF RunInv, Known
<1>4. \A f \in Sources, b \in Blocks : Has(r, "first", f) => taken[r].first[f][b] \in had[f][b]
  BY DEF RunInv, Known
<1>5. \A f \in Sources, b \in Blocks : tree[f][b] \in had[f][b]
  BY DEF TypeOK, TreeOK
<1>6. Gone(r)'
  BY <1>1, <1>3, <1>4, <1>5 DEF Gone, Lost, Untouched, Has
<1>7. Agreed(r)'
  BY DEF RunInv, Untouched, Agreed
<1> QED
  BY <1>2, <1>6, <1>7

LEMMA LaterPass ==
  ASSUME NEW r \in Runs, RunInv(r), Untouched,
         pass[r] \in {"loaded", "again"}, pass'[r] \in {"again", "last"}, instant'[r] = instant[r],
         opened'[r] = opened[r], seen'[r] = seen[r], taken'[r] = taken[r], managed'[r] = managed[r]
  PROVE Known(r)' /\ Gone(r)' /\ Agreed(r)'
<1>1. Known(r)'
  BY DEF RunInv, Untouched, Known, Has
<1>2. Gone(r)'
  BY DEF RunInv, Untouched, Gone, Lost, Has
<1>3. Agreed(r)'
  BY DEF RunInv, Untouched, Agreed
<1> QED
  BY <1>1, <1>2, <1>3

LEMMA NothingYet ==
  ASSUME NEW l \in Nat
  PROVE 0 \in Nat /\ 0 <= l /\ 1..0 = {}
OBVIOUS

\* The next pass over the inputs begins, or the run ends with this one.
Follows(r, s, p) ==
  \/ s = "load" /\ pass[r] = "first" /\ p = "loaded"
  \/ s = "source-entries" /\ pass[r] = "loaded" /\ p = "again"
  \/ s = "source-entries" /\ pass[r] = "again" /\ p = "last"
  \/ s = "ended"

LEMMA PassStep ==
  ASSUME IInv, NEW r \in Runs, NEW s, NEW p \in Passes, Follows(r, s, p),
         pc[r] \in Reading, LastInput(r), opened[r] = Absent,
         Untouched, UNCHANGED <<request, dist, plan, version, built, opened, seen, taken, managed>>,
         pc' = [pc EXCEPT ![r] = s], pass' = [pass EXCEPT ![r] = p], number' = [number EXCEPT ![r] = 0],
         instant' \in [Runs -> Copies], \A q \in Runs \ {r} : instant'[q] = instant[q],
         Known(r)', Gone(r)', Agreed(r)'
  PROVE IInv'
<1>1. TypeOK /\ RunInv(r)
  BY DEF IInv
<1>2. 0 \in Nat
  BY NothingYet
<1>3. TypeOK'
  BY <1>1, <1>2 DEF Untouched, TypeOK, TreeOK, ControlOK, ReadingOK
<1>4. /\ pc'[r] = s /\ pass'[r] = p /\ number'[r] = 0 /\ s \in Reading \cup {"ended"}
      /\ \A q \in Runs \ {r} : pc'[q] = pc[q] /\ pass'[q] = pass[q] /\ number'[q] = number[q]
  BY <1>1 DEF Follows, Reading, TypeOK, ControlOK, ReadingOK
<1>5. Own(r)
  BY <1>4 DEF Own, Kept, Reading
<1>6. BeforeAll(r)' /\ Plans(r)' /\ Compared(r)'
  BY <1>4 DEF BeforeAll, Plans, Compared, Fresh, Reading, Staging, Checked
<1>7. Scenarios(r)'
  <2> SUFFICES ASSUME s # "ended" PROVE Scenarios(r)'
    BY <1>4 DEF Scenarios, Reading
  <2>1. /\ Inputs(r) \in Seq(Sources) /\ Len(Inputs(r)) \in Nat /\ DOMAIN Inputs(r) = 1..Len(Inputs(r))
        /\ Inputs(r)' = Inputs(r)
    BY <1>1, InputsKnown DEF RunInv, Inputs
  <2>2. \A k \in DOMAIN Inputs(r) : Has(r, pass[r], Inputs(r)[k])
    BY <1>1, <2>1 DEF RunInv, Scenarios, LastInput
  <2>3. /\ Len(managed[r]) < Len(ScenarioInputs)
        /\ pass[r] # "first" => \A k \in DOMAIN Inputs(r) : Has(r, "first", Inputs(r)[k])
        /\ pass[r] \in {"again", "last"} => \A k \in DOMAIN Inputs(r) : Has(r, "loaded", Inputs(r)[k])
    BY <1>1 DEF RunInv, Scenarios
  <2>4. number'[r] <= Len(Inputs(r)) /\ 1..number'[r] = {}
    BY <1>4, <2>1, NothingYet
  <2>5. pc'[r] = "load" <=> pass'[r] = "loaded"
    BY <1>4 DEF Follows
  <2>6. \A k \in DOMAIN Inputs(r) : Has(r, "first", Inputs(r)[k])
    BY <2>2, <2>3
  <2>7. p \in {"again", "last"} => \A k \in DOMAIN Inputs(r) : Has(r, "loaded", Inputs(r)[k])
    BY <2>2, <2>3 DEF Follows
  <2>8. \A k \in DOMAIN Inputs(r) : Has(r, "first", Inputs(r)[k])'
    BY <2>6, <2>1 DEF Has
  <2>9. p \in {"again", "last"} => \A k \in DOMAIN Inputs(r) : Has(r, "loaded", Inputs(r)[k])'
    BY <2>7, <2>1 DEF Has
  <2> QED
    BY <1>4, <2>1, <2>3, <2>4, <2>5, <2>8, <2>9 DEF Scenarios
<1> QED
  BY <1>3, <1>5, <1>6, <1>7, OwnStep DEF RunInv

LEMMA EndOfBeforeStep ==
  ASSUME IInv, NEW r \in Runs, EndOfBefore(r), UNCHANGED buildVars
  PROVE IInv'
<1>1. TypeOK /\ RunInv(r)
  BY DEF IInv
<1>2. /\ pc[r] \in Reading /\ LastInput(r) /\ opened[r] = Absent /\ pass[r] = "first"
      /\ Untouched /\ UNCHANGED <<request, dist, plan, version, built, opened, seen, taken, managed>>
      /\ pc' = [pc EXCEPT ![r] = "load"] /\ pass' = [pass EXCEPT ![r] = "loaded"]
      /\ number' = [number EXCEPT ![r] = 0] /\ instant' = [instant EXCEPT ![r] = tree]
  BY DEF EndOfBefore, EndOfFirstPass, At, Goto, Rewind, Looks, Deriving, Reading, Untouched,
         sources, outputs, circumstances, buildVars
<1>3. tree \in Copies
  BY <1>1 DEF TypeOK, TreeOK, Copies
<1>4. instant' \in [Runs -> Copies] /\ instant'[r] = tree /\ \A q \in Runs \ {r} : instant'[q] = instant[q]
  BY <1>1, <1>2, <1>3 DEF TypeOK, ReadingOK
<1>5. pass'[r] = "loaded" /\ "loaded" \in Passes /\ Follows(r, "load", "loaded")
  BY <1>1, <1>2 DEF TypeOK, ReadingOK, Passes, Follows
<1>6. Known(r)' /\ Gone(r)' /\ Agreed(r)'
  BY <1>1, <1>2, <1>4, <1>5, FirstPassEnds
<1> QED
  BY <1>2, <1>4, <1>5, <1>6, PassStep

LEMMA EvaluateStep ==
  ASSUME IInv, NEW r \in Runs, Evaluate(r), UNCHANGED buildVars
  PROVE IInv'
<1>1. TypeOK /\ RunInv(r)
  BY DEF IInv
<1>2. /\ pc[r] = "load" /\ pc[r] \in Reading /\ LastInput(r) /\ opened[r] = Absent
      /\ Untouched /\ UNCHANGED <<request, dist, plan, version, built, opened, seen, taken, managed, instant>>
      /\ pass' = [pass EXCEPT ![r] = "again"] /\ number' = [number EXCEPT ![r] = 0]
  BY DEF Evaluate, At, Rewind, Looks, Deriving, Reading, Untouched, sources, outputs, circumstances, buildVars
<1>3. PICK s \in {"source-entries", "ended"} : pc' = [pc EXCEPT ![r] = s]
  BY DEF Evaluate, Check, Goto, Exit
<1>4. pass[r] = "loaded"
  BY <1>1, <1>2 DEF RunInv, Scenarios
<1>5. pass'[r] = "again" /\ "again" \in Passes /\ Follows(r, s, "again")
  BY <1>1, <1>2, <1>4 DEF TypeOK, ReadingOK, Passes, Follows
<1>6. Known(r)' /\ Gone(r)' /\ Agreed(r)'
  BY <1>1, <1>2, <1>4, <1>5, LaterPass
<1>7. instant' \in [Runs -> Copies] /\ \A q \in Runs \ {r} : instant'[q] = instant[q]
  BY <1>1, <1>2 DEF TypeOK, ReadingOK
<1> QED
  BY <1>2, <1>3, <1>5, <1>6, <1>7, PassStep

LEMMA CompareProvenanceStep ==
  ASSUME IInv, NEW r \in Runs, CompareProvenance(r), UNCHANGED buildVars
  PROVE IInv'
<1>1. TypeOK /\ RunInv(r)
  BY DEF IInv
<1>2. /\ pc[r] \in Reading /\ LastInput(r) /\ opened[r] = Absent /\ pass[r] = "again"
      /\ Untouched /\ UNCHANGED <<request, dist, plan, version, built, opened, seen, taken, managed, instant>>
      /\ pass' = [pass EXCEPT ![r] = "last"] /\ number' = [number EXCEPT ![r] = 0]
  BY DEF CompareProvenance, At, Rewind, Looks, Deriving, Reading, Untouched, sources, outputs, circumstances, buildVars
<1>3. PICK s \in {"source-entries", "ended"} : pc' = [pc EXCEPT ![r] = s]
  BY DEF CompareProvenance, Check, Goto, Exit
<1>4. pass'[r] = "last" /\ "last" \in Passes /\ Follows(r, s, "last")
  BY <1>1, <1>2 DEF TypeOK, ReadingOK, Passes, Follows
<1>5. Known(r)' /\ Gone(r)' /\ Agreed(r)'
  BY <1>1, <1>2, <1>4, LaterPass
<1>6. instant' \in [Runs -> Copies] /\ \A q \in Runs \ {r} : instant'[q] = instant[q]
  BY <1>1, <1>2 DEF TypeOK, ReadingOK
<1> QED
  BY <1>2, <1>3, <1>4, <1>5, <1>6, PassStep

LEMMA CopySourceStep ==
  ASSUME IInv, NEW r \in Runs, CopySource(r), UNCHANGED managed
  PROVE IInv'
<1>1. TypeOK /\ RunInv(r)
  BY DEF IInv
<1>2. pc[r] \in Staging /\ pc[r] # "ended" /\ UNCHANGED <<managed, buildVars>>
  BY DEF CopySource, Staging, Building
<1>3. /\ plan[r] \in Seq(Sources) /\ Len(plan[r]) \in Nat /\ DOMAIN plan[r] = 1..Len(plan[r])
      /\ number[r] \in Nat /\ number[r] <= Len(plan[r])
  BY <1>1, <1>2, LenProperties DEF TypeOK, ControlOK, RunInv, Plans
<1>4. CASE OpenSource(r, plan[r][number[r] + 1])
  <2>1. number[r] < Len(plan[r]) /\ number[r] + 1 \in 1..Len(plan[r])
    BY <1>3, <1>4, NotTheLast DEF CopySource, OpenSource, AllCopied
  <2>2. plan[r][number[r] + 1] \in Sources
    BY <1>3, <2>1, ElementOfSeq
  <2> QED
    BY <1>2, <1>4, <2>1, <2>2, OpenStep
<1>5. CASE RefuseSource(r, plan[r][number[r] + 1])
  BY <1>2, <1>5, RefuseStep
<1>6. CASE TakeSource(r)
  BY <1>2, <1>6, TakeStep
<1> QED
  BY <1>4, <1>5, <1>6 DEF CopySource

\* A source that is closed without having been read.
LEMMA Closing ==
  ASSUME NEW r \in Runs, RunInv(r), Untouched, opened'[r] = Absent, seen'[r] = {}, pass'[r] = pass[r],
         taken'[r] = taken[r], instant'[r] = instant[r], managed'[r] = managed[r]
  PROVE Known(r)' /\ Gone(r)' /\ Agreed(r)'
<1>1. Known(r)'
  BY DEF RunInv, Untouched, Known, Has
<1>2. ASSUME NEW g \in Sources, NEW b \in Blocks, NEW v, Lost(r, g, b, v) PROVE Lost(r, g, b, v)'
  BY <1>2, NoneIsNoSource DEF Lost, Untouched, Has
<1>3. Gone(r)'
  BY <1>2 DEF RunInv, Gone, Untouched, Has
<1>4. Agreed(r)'
  BY DEF RunInv, Untouched, Agreed
<1> QED
  BY <1>1, <1>3, <1>4

\* What is loaded is the content at this time: if it is another one than at the end of
\* the first pass, that one is gone.
LEMMA Loading ==
  ASSUME NEW r \in Runs, RunInv(r), TypeOK, Untouched, NEW f \in Sources, pass[r] = "loaded",
         \A p \in Passes, g \in Sources : (p # "loaded" \/ g # f) => taken'[r][p][g] = taken[r][p][g],
         taken'[r].loaded[f] = tree[f],
         opened'[r] = Absent, seen'[r] = {}, pass'[r] = pass[r], instant'[r] = instant[r], managed'[r] = managed[r]
  PROVE Known(r)' /\ Gone(r)' /\ Agreed(r)'
<1>1. "first" \in Passes /\ "loaded" \in Passes /\ "last" \in Passes
  BY DEF Passes
<1>2. Known(r)'
  BY <1>1 DEF RunInv, Untouched, Known, Has
<1>3. ASSUME NEW g \in Sources, NEW b \in Blocks, NEW v, Lost(r, g, b, v) PROVE Lost(r, g, b, v)'
  BY <1>1, <1>3, NoneIsNoSource DEF Lost, Untouched, Has
<1>4. \A g \in Sources : ~Has(r, "last", g) /\ ~Has(r, "last", g)'
  BY <1>1 DEF RunInv, Known, Has
<1>5. ASSUME ~returned, NEW b \in Blocks, tree[f][b] # instant[r][f][b]
      PROVE Lost(r, f, b, instant[r][f][b])'
  BY <1>4, <1>5, NoneIsNoSource DEF RunInv, Gone, Lost, Untouched, Has
<1>6. Gone(r)'
  <2> SUFFICES ASSUME ~returned, NEW g \in Sources, NEW b \in Blocks
               PROVE /\ instant[r][g][b] \in had[g][b]
                     /\ taken'[r].first[g] # Unread /\ taken'[r].first[g][b] # instant[r][g][b]
                          => Lost(r, g, b, taken[r].first[g][b])'
                     /\ taken'[r].loaded[g] # Unread /\ taken'[r].loaded[g][b] # instant[r][g][b]
                          => Lost(r, g, b, instant[r][g][b])'
    BY <1>1 DEF Gone, Untouched, Has
  <2>1. /\ instant[r][g][b] \in had[g][b]
        /\ taken[r].first[g] # Unread /\ taken[r].first[g][b] # instant[r][g][b]
             => Lost(r, g, b, taken[r].first[g][b])
        /\ taken[r].loaded[g] # Unread /\ taken[r].loaded[g][b] # instant[r][g][b]
             => Lost(r, g, b, instant[r][g][b])
    BY DEF RunInv, Gone, Has
  <2>2. taken'[r].first[g] = taken[r].first[g]
    BY <1>1
  <2>3. taken'[r].first[g] # Unread /\ taken'[r].first[g][b] # instant[r][g][b]
             => Lost(r, g, b, taken[r].first[g][b])'
    BY <1>3, <2>1, <2>2
  <2>4. CASE g = f
    BY <1>5, <2>1, <2>3, <2>4
  <2>5. CASE g # f
    <3>1. taken'[r].loaded[g] = taken[r].loaded[g]
      BY <1>1, <2>5
    <3>2. taken'[r].loaded[g] # Unread /\ taken'[r].loaded[g][b] # instant[r][g][b]
             => Lost(r, g, b, instant[r][g][b])'
      BY <1>3, <2>1, <3>1
    <3> QED
      BY <2>1, <2>3, <3>2
  <2> QED
    BY <2>4, <2>5
<1>7. Agreed(r)'
  BY DEF RunInv, Untouched, Agreed
<1> QED
  BY <1>2, <1>6, <1>7

LEMMA LoadInputStep ==
  ASSUME IInv, NEW r \in Runs, LoadInput(r), UNCHANGED buildVars
  PROVE IInv'
<1>1. TypeOK /\ RunInv(r)
  BY DEF IInv
<1>2. /\ pc[r] = "load" /\ pass[r] = "loaded" /\ opened[r] # Absent
      /\ Untouched /\ UNCHANGED <<request, dist, plan, version, built, pass, instant, managed>>
      /\ opened' = [opened EXCEPT ![r] = Absent] /\ seen' = [seen EXCEPT ![r] = {}]
      /\ number' = [number EXCEPT ![r] = number[r] + 1]
  BY DEF LoadInput, At, Advance, Looks, Deriving, Untouched, sources, outputs, circumstances, buildVars
<1>3. PICK f \in Sources : f = opened[r] /\ f # Absent
  BY <1>1, <1>2 DEF TypeOK, ReadingOK
<1>4. /\ opened'[r] = Absent /\ seen'[r] = {} /\ number'[r] = number[r] + 1 /\ pass'[r] = "loaded"
      /\ instant'[r] = instant[r] /\ managed'[r] = managed[r] /\ pc[r] # "ended"
  BY <1>1, <1>2 DEF TypeOK, ReadingOK, ControlOK
<1>5. number' \in [Runs -> Nat]
  BY <1>1, <1>2, OneMore DEF TypeOK, ControlOK
<1>6. CASE pc' = [pc EXCEPT ![r] = "ended"] /\ taken' = taken
  <2>1. TypeOK'
    BY <1>1, <1>2, <1>5, <1>6 DEF Untouched, TypeOK, TreeOK, ControlOK, ReadingOK
  <2>2. Own(r)
    BY <1>1, <1>2, <1>4, <1>6 DEF Own, Kept, TypeOK, ReadingOK, ControlOK
  <2>3. Known(r)' /\ Gone(r)' /\ Agreed(r)'
    BY <1>1, <1>2, <1>4, <1>6, Closing
  <2>4. pc'[r] = "ended"
    BY <1>1, <1>6 DEF TypeOK, ControlOK
  <2>5. BeforeAll(r)' /\ Scenarios(r)' /\ Plans(r)' /\ Compared(r)'
    BY <2>4 DEF BeforeAll, Scenarios, Plans, Compared, Fresh, Reading, Staging, Checked
  <2> QED
    BY <2>1, <2>2, <2>3, <2>5, OwnStep DEF RunInv
<1>7. CASE pc' = pc /\ tree[f] \in Bytes /\ Takes(r, "loaded", f, tree[f])
  <2>1. taken \in [Runs -> [Passes -> Copies]] /\ "loaded" \in Passes /\ "first" \in Passes
    BY <1>1 DEF TypeOK, ReadingOK, Passes
  <2>2. taken' \in [Runs -> [Passes -> Copies]]
    BY <1>7, <2>1, NowTaken
  <2>3. \A q \in Runs \ {r} : taken'[q] = taken[q]
    BY <1>7, <2>1, NowTaken
  <2>4. \A p \in Passes, g \in Sources : (p # "loaded" \/ g # f) => taken'[r][p][g] = taken[r][p][g]
    BY <1>7, <2>1, NowTaken
  <2>5. taken'[r].loaded[f] = tree[f]
    BY <1>7, <2>1, NowTaken
  <2>6. TypeOK'
    BY <1>1, <1>2, <1>5, <1>7, <2>2 DEF Untouched, TypeOK, TreeOK, ControlOK, ReadingOK
  <2>7. Own(r)
    BY <1>1, <1>2, <1>4, <1>7, <2>3 DEF Own, Kept, TypeOK, ReadingOK, ControlOK
  <2>8. Known(r)' /\ Gone(r)' /\ Agreed(r)'
    BY <1>1, <1>2, <1>4, <2>4, <2>5, Loading
  <2>9. BeforeAll(r)' /\ Plans(r)' /\ Compared(r)'
    BY <1>2, <1>7 DEF BeforeAll, Plans, Compared, Fresh, Staging, Checked
  <2>10. /\ Len(managed[r]) < Len(ScenarioInputs) /\ number[r] < Len(Inputs(r)) /\ f = Input(r)
         /\ \A k \in 1..number[r] : taken[r].loaded[Inputs(r)[k]] # Unread
         /\ \A k \in DOMAIN Inputs(r) : taken[r].first[Inputs(r)[k]] # Unread
         /\ Scenarios(r) /\ pc[r] \in Reading
    BY <1>1, <1>2, <1>3 DEF RunInv, Scenarios, Reading, Has
  <2>11. /\ Len(Inputs(r)) \in Nat /\ DOMAIN Inputs(r) = 1..Len(Inputs(r)) /\ number[r] \in Nat
         /\ \A k \in DOMAIN Inputs(r) : Inputs(r)[k] \in Sources
    BY <1>1, <2>10, InputsKnown
  <2>12. /\ number[r] + 1 <= Len(Inputs(r))
         /\ \A k \in 1..(number[r] + 1) : k \in DOMAIN Inputs(r) /\ (k \in 1..number[r] \/ k = number[r] + 1)
    BY <2>10, <2>11, NextIndex
  <2>13. Inputs(r)' = Inputs(r)
    BY <1>2 DEF Inputs
  <2>14. ASSUME NEW k \in 1..(number[r] + 1) PROVE taken'[r].loaded[Inputs(r)[k]] # Unread
    <3>1. CASE Inputs(r)[k] = f
      BY <1>7, <2>5, <3>1, ContentsAreRead
    <3>2. CASE Inputs(r)[k] # f
      BY <2>1, <2>4, <2>10, <2>11, <2>12, <3>2 DEF Input
    <3> QED
      BY <3>1, <3>2
  <2>15. \A k \in DOMAIN Inputs(r) : taken'[r].first[Inputs(r)[k]] # Unread
    BY <2>1, <2>4, <2>10, <2>11
  <2>16. Scenarios(r)'
    BY <1>2, <1>4, <1>7, <2>10, <2>12, <2>13, <2>14, <2>15 DEF Scenarios, Has
  <2> QED
    BY <2>6, <2>7, <2>8, <2>9, <2>16, OwnStep DEF RunInv
<1>8. tree[f] \in Bytes
  BY <1>1 DEF TypeOK, TreeOK
<1> QED
  BY <1>3, <1>6, <1>7, <1>8 DEF LoadInput, Exit, control, Takes

-----------------------------------------------------------------------------
(* What a scenario is accepted with is what the inputs were at one instant. *)
LEMMA AcceptedAtOneInstant ==
  ASSUME TypeOK, NEW r \in Runs, RunInv(r), Accepted(r), ~returned, NEW k \in DOMAIN Inputs(r)
  PROVE /\ Inputs(r)[k] \in Sources
        /\ taken[r].first[Inputs(r)[k]] = instant[r][Inputs(r)[k]]
        /\ taken[r].loaded[Inputs(r)[k]] = instant[r][Inputs(r)[k]]
<1>1. /\ pc[r] \in Reading /\ pass[r] = "last" /\ number[r] = Len(Inputs(r)) /\ Scenarios(r)
      /\ Told(r, "first") = Told(r, "last")
  BY DEF Accepted, EntriesRead, At, LastInput, Reading, RunInv
<1>2. Inputs(r)[k] \in Sources /\ k \in 1..number[r]
  BY <1>1, InputsKnown
<1>3. PICK f \in Sources : f = Inputs(r)[k]
  BY <1>2
<1>4. Has(r, "first", f) /\ Has(r, "loaded", f) /\ Has(r, "last", f)
  BY <1>1, <1>2, <1>3 DEF Scenarios
<1>5. taken[r].first[f] = taken[r].last[f]
  BY <1>1, <1>3 DEF Told
<1>6. instant[r][f] # Unread
  BY <1>1 DEF RunInv, Known
<1>7. taken[r].first[f] \in Bytes /\ taken[r].loaded[f] \in Bytes /\ instant[r][f] \in Bytes
  BY <1>4, <1>6 DEF TypeOK, ReadingOK, Copies, Has, Passes
<1>8. \A c \in Bytes : c \in [Blocks -> Values \cup {Absent}]
  BY DEF Bytes, Contents, Nothing
<1>9. ASSUME NEW b \in Blocks PROVE taken[r].first[f][b] = instant[r][f][b]
  BY <1>1, <1>4, <1>5 DEF RunInv, Gone, Lost
<1>10. ASSUME NEW b \in Blocks PROVE taken[r].loaded[f][b] = instant[r][f][b]
  BY <1>1, <1>4, <1>5, <1>9 DEF RunInv, Gone, Lost
<1>11. taken[r].first[f] = instant[r][f]
  BY <1>7, <1>8, <1>9
<1>12. taken[r].loaded[f] = instant[r][f]
  BY <1>7, <1>8, <1>10
<1> QED
  BY <1>2, <1>3, <1>11, <1>12

LEMMA FewerScenarios ==
  ASSUME NEW n \in Nat, NEW l \in Nat, n < l, n + 1 # l
  PROVE n + 1 \in Nat /\ n + 1 < l
OBVIOUS

LEMMA EndOfScenarioStep ==
  ASSUME IInv, NEW r \in Runs, EndOfScenario(r), UNCHANGED buildVars
  PROVE IInv'
<1> DEFINE entry == [inputs |-> Told(r, "first"), report |-> Told(r, "loaded")]
<1>1. TypeOK /\ RunInv(r)
  BY DEF IInv
<1>2. /\ pc[r] = "source-entries" /\ pc[r] \in Reading /\ pc[r] # "ended" /\ opened[r] = Absent /\ Accepted(r)
      /\ Untouched /\ UNCHANGED <<request, dist, plan, version, built, opened, seen, instant>>
      /\ pass' = [pass EXCEPT ![r] = "first"] /\ taken' = [taken EXCEPT ![r] = AllUnread]
      /\ number' = [number EXCEPT ![r] = 0]
      /\ managed' = [managed EXCEPT ![r] = Append(managed[r], entry)]
  BY DEF EndOfScenario, EntriesRead, Accepted, At, Rewind, Looks, Reading, Untouched,
         sources, outputs, circumstances, buildVars
<1>3. PICK s : /\ pc' = [pc EXCEPT ![r] = s]
               /\ \/ s = "source-entries" /\ Len(managed[r]) + 1 # Len(ScenarioInputs)
                  \/ s \notin Critical
  <2>1. CASE Len(managed[r]) + 1 = Len(ScenarioInputs)
    <3>1. pc' = [pc EXCEPT ![r] = OutputStep(r)]
      BY <2>1 DEF EndOfScenario, Goto
    <3>2. OutputStep(r) \notin Critical
      BY DEF OutputStep, Critical, Fresh, Reading, Staging, Checked
    <3> QED
      BY <3>1, <3>2
  <2>2. CASE Len(managed[r]) + 1 # Len(ScenarioInputs)
    BY <2>2 DEF EndOfScenario, Goto
  <2> QED
    BY <2>1, <2>2
<1>4. /\ Inputs(r) \in Seq(Sources) /\ Len(Inputs(r)) \in Nat /\ DOMAIN Inputs(r) = 1..Len(Inputs(r))
      /\ \A k \in DOMAIN Inputs(r) : Inputs(r)[k] \in Sources
  BY <1>1, <1>2, InputsKnown DEF RunInv
<1>5. ASSUME NEW p \in Passes PROVE Told(r, p) \in Seq(Bytes \cup {Unread})
  <2>1. \A k \in DOMAIN Inputs(r) : taken[r][p][Inputs(r)[k]] \in Bytes \cup {Unread}
    BY <1>1, <1>4 DEF TypeOK, ReadingOK, Copies
  <2> QED
    BY <1>4, <2>1 DEF Told
<1>6. entry \in Entered
  BY <1>5 DEF Passes, Entered, Copied, Bytes
<1>7. managed[r] \in Seq(Entered) /\ Len(managed[r]) \in Nat
  BY <1>1, LenProperties DEF TypeOK, ReadingOK
<1>8. /\ Append(managed[r], entry) \in Seq(Entered)
      /\ Len(Append(managed[r], entry)) = Len(managed[r]) + 1
      /\ \A k \in DOMAIN Append(managed[r], entry) :
           Append(managed[r], entry)[k] = entry
           \/ (k \in DOMAIN managed[r] /\ Append(managed[r], entry)[k] = managed[r][k])
  BY <1>6, <1>7, AppendProperties
<1>9. AllUnread \in [Passes -> Copies]
  BY DEF AllUnread, Copies
<1>10. 0 \in Nat
  BY NothingYet
<1>11. TypeOK'
  BY <1>1, <1>2, <1>3, <1>8, <1>9, <1>10 DEF Untouched, TypeOK, TreeOK, ControlOK, ReadingOK, Passes
<1>12. Own(r)
  BY <1>1, <1>2, <1>3 DEF Own, Kept, TypeOK, ReadingOK, ControlOK
<1>13. /\ pc'[r] = s /\ pass'[r] = "first" /\ taken'[r] = AllUnread /\ number'[r] = 0
       /\ managed'[r] = Append(managed[r], entry) /\ opened'[r] = Absent
  BY <1>1, <1>2, <1>3 DEF TypeOK, ReadingOK, ControlOK
<1>14. Known(r)'
  BY <1>13 DEF Known, Has, AllUnread, Passes
<1>15. Gone(r)'
  BY <1>13 DEF Gone
<1>16. ~returned => entry.inputs = entry.report
  <2> SUFFICES ASSUME ~returned PROVE Told(r, "first") = Told(r, "loaded")
    OBVIOUS
  <2>1. \A k \in DOMAIN Inputs(r) : taken[r].first[Inputs(r)[k]] = taken[r].loaded[Inputs(r)[k]]
    BY <1>1, <1>2, AcceptedAtOneInstant
  <2> QED
    BY <2>1 DEF Told
<1>17. Agreed(r)'
  <2> SUFFICES ASSUME ~returned', NEW k \in DOMAIN managed'[r] PROVE managed'[r][k].inputs = managed'[r][k].report
    BY DEF Agreed
  <2>1. ~returned
    BY <1>2 DEF Untouched, circumstances, history
  <2>2. managed'[r][k] = entry \/ (k \in DOMAIN managed[r] /\ managed'[r][k] = managed[r][k])
    BY <1>8, <1>13
  <2>3. \A j \in DOMAIN managed[r] : managed[r][j].inputs = managed[r][j].report
    BY <1>1, <2>1 DEF RunInv, Agreed
  <2> QED
    BY <1>16, <2>1, <2>2, <2>3
<1>18. BeforeAll(r)' /\ Plans(r)' /\ Compared(r)'
  BY <1>3, <1>13 DEF BeforeAll, Plans, Compared, Critical, Fresh, Staging, Checked, Reading
<1>19. Scenarios(r)'
  <2> SUFFICES ASSUME s = "source-entries" PROVE Scenarios(r)'
    BY <1>3, <1>13 DEF Scenarios, Critical, Reading
  <2>1. Len(managed[r]) < Len(ScenarioInputs)
    BY <1>1, <1>2 DEF RunInv, Scenarios
  <2>6. Len(managed[r]) + 1 # Len(ScenarioInputs)
    BY <1>3 DEF Critical, Reading
  <2>7. Len(managed'[r]) = Len(managed[r]) + 1
    BY <1>8, <1>13
  <2>8. Len(managed[r]) + 1 \in Nat /\ Len(managed[r]) + 1 < Len(ScenarioInputs)
    <3>1. Len(managed[r]) \in Nat
      BY <1>7
    <3>2. Len(ScenarioInputs) \in Nat
      BY SomeScenario
    <3> QED
      BY <3>1, <3>2, <2>1, <2>6, FewerScenarios
  <2>2. Len(managed'[r]) < Len(ScenarioInputs) /\ Len(managed'[r]) \in Nat
    BY <2>7, <2>8
  <2>3. Inputs(r)' = ScenarioInputs[Len(managed'[r]) + 1]
    BY DEF Inputs
  <2>4. Len(Inputs(r)') \in Nat
    BY <2>2, <2>3, ScenarioHasFiles
  <2>5. number'[r] <= Len(Inputs(r)') /\ 1..number'[r] = {}
    BY <1>13, <2>4, NothingYet
  <2> QED
    BY <1>13, <2>2, <2>5 DEF Scenarios
<1> QED
  BY <1>11, <1>12, <1>14, <1>15, <1>17, <1>18, <1>19, OwnStep DEF RunInv

-----------------------------------------------------------------------------
(* The modules of the package are listed, and what is not there counts as read. *)
LEMMA ListedAfter ==
  ASSUME NEW s \in Seq(Sources), NEW t \in Seq(Sources)
  PROVE /\ s \o t \in Seq(Sources) /\ Len(s) \in Nat /\ Len(s) <= Len(s \o t)
        /\ \A k \in 1..Len(s) : (s \o t)[k] = s[k]
        /\ ToSet(s) \cup ToSet(t) \subseteq ToSet(s \o t)
<1>1. Len(s) \in Nat /\ DOMAIN s = 1..Len(s) /\ Len(t) \in Nat /\ DOMAIN t = 1..Len(t)
  BY LenProperties
<1>2. s \o t \in Seq(Sources) /\ Len(s \o t) = Len(s) + Len(t)
  BY ConcatProperties
<1>3. \A k \in 1..Len(s) : (s \o t)[k] = s[k]
  BY ConcatProperties
<1>4. \A k \in 1..Len(t) : (s \o t)[Len(s) + k] = t[k]
  BY <1>1
<1>5. DOMAIN (s \o t) = 1..(Len(s) + Len(t))
  BY <1>2, LenProperties
<1>6. \A k \in 1..Len(s) : k \in DOMAIN (s \o t)
  BY <1>1, <1>5
<1>7. \A k \in 1..Len(t) : Len(s) + k \in DOMAIN (s \o t)
  BY <1>1, <1>5
<1>8. ToSet(s) \subseteq ToSet(s \o t)
  BY <1>1, <1>3, <1>6 DEF ToSet
<1>9. ToSet(t) \subseteq ToSet(s \o t)
  BY <1>1, <1>4, <1>7 DEF ToSet
<1>10. Len(s) <= Len(s \o t)
  BY <1>1, <1>2
<1> QED
  BY <1>1, <1>2, <1>3, <1>8, <1>9, <1>10

LEMMA ListingsAreSources ==
  ASSUME NEW s \in Listings
  PROVE s \in Seq(Sources) /\ ToSet(s) = Listed
<1>1. ToSet(PackageFiles) \subseteq Sources
  BY StagedAreSources DEF Staged
<1>2. PICK m \in Nat : s \in [1..m -> ToSet(PackageFiles)]
  BY DEF Listings, SeqOf
<1>3. s \in Seq(Sources)
  BY <1>1, <1>2
<1> QED
  BY <1>3 DEF Listings

\* What is not there is read as that.
LEMMA Missing ==
  ASSUME NEW r \in Runs, RunInv(r), TypeOK, Untouched, pass[r] \in {"first", "last"}, opened[r] = Absent,
         \A p \in Passes, g \in Sources : taken'[r][p][g] # taken[r][p][g] => p = pass[r] /\ taken'[r][p][g] = tree[g],
         opened'[r] = opened[r], seen'[r] = seen[r], pass'[r] = pass[r], instant'[r] = instant[r], managed'[r] = managed[r]
  PROVE Known(r)' /\ Gone(r)' /\ Agreed(r)'
<1>1. "first" \in Passes /\ "loaded" \in Passes /\ "last" \in Passes
  BY DEF Passes
<1>2. \A g \in Sources, b \in Blocks : tree[g][b] \in had[g][b]
  BY DEF TypeOK, TreeOK
<1>3. Known(r)'
  <2>1. \A g \in Sources, b \in Blocks : Has(r, "first", g)' => taken'[r].first[g][b] \in had[g][b]
    BY <1>1, <1>2 DEF RunInv, Known, Has
  <2>2. pass[r] = "first" => \A g \in Sources : ~Has(r, "loaded", g)'
    BY <1>1 DEF RunInv, Known, Has
  <2>3. pass[r] # "last" => \A g \in Sources : ~Has(r, "last", g)'
    BY <1>1 DEF RunInv, Known, Has
  <2> QED
    BY <2>1, <2>2, <2>3 DEF RunInv, Known, Untouched
<1>4. ASSUME NEW g \in Sources, NEW b \in Blocks, NEW v, Lost(r, g, b, v) PROVE Lost(r, g, b, v)'
  BY <1>1, <1>4, NoneIsNoSource DEF Lost, Untouched, Has
<1>5. Gone(r)'
  BY <1>1, <1>4 DEF RunInv, Gone, Untouched, Has
<1>6. Agreed(r)'
  BY DEF RunInv, Untouched, Agreed
<1> QED
  BY <1>3, <1>5, <1>6

LEMMA ListPackageStep ==
  ASSUME IInv, NEW r \in Runs, ListPackage(r), UNCHANGED managed
  PROVE IInv'
<1> DEFINE away == ToSet(PackageFiles) \ Listed
<1> DEFINE read == [f \in Sources |-> IF f \in away THEN Nothing ELSE taken[r][pass[r]][f]]
<1>1. TypeOK /\ RunInv(r)
  BY DEF IInv
<1>2. /\ pc[r] = "stage" /\ pc[r] \in Staging /\ pc[r] # "ended" /\ opened[r] = Absent /\ number[r] = Len(plan[r])
      /\ Untouched /\ UNCHANGED <<request, dist, number, version, built, pass, opened, seen, instant, managed>>
      /\ taken' = [taken EXCEPT ![r][pass[r]] = read]
      /\ pc' = [pc EXCEPT ![r] = "package"]
  BY DEF ListPackage, AllCopied, At, Goto, Looks, Staging, Untouched, sources, outputs, circumstances, walking
<1>3. PICK s \in Listings : plan' = [plan EXCEPT ![r] = BuildFiles \o s]
  BY DEF ListPackage
<1>4. /\ pass[r] \in {"first", "last"} /\ plan[r] = BuildFiles /\ built[r] = <<>>
      /\ \A k \in 1..number[r] : Has(r, pass[r], BuildFiles[k])
      /\ pass[r] = "last" => \A f \in Staged : Has(r, "first", f)
  BY <1>1, <1>2 DEF RunInv, Plans
<1>5. s \in Seq(Sources) /\ ToSet(s) = Listed
  BY ListingsAreSources
<1>6. BuildFiles \in Seq(Sources)
  BY EverythingIsASource
<1>7. /\ BuildFiles \o s \in Seq(Sources) /\ Len(BuildFiles) \in Nat /\ Len(BuildFiles) <= Len(BuildFiles \o s)
      /\ \A k \in 1..Len(BuildFiles) : (BuildFiles \o s)[k] = BuildFiles[k]
      /\ ToSet(BuildFiles) \cup ToSet(s) \subseteq ToSet(BuildFiles \o s)
  BY <1>5, <1>6, ListedAfter
<1>8. \A f \in away : tree[f] = Nothing
  BY DEF Listed
<1>9. "first" \in Passes /\ "loaded" \in Passes /\ "last" \in Passes
  BY DEF Passes
<1>10. taken[r] \in [Passes -> Copies] /\ pass[r] \in Passes
  BY <1>1, <1>4, <1>9 DEF TypeOK, ReadingOK
<1>11. /\ read \in Copies /\ \A f \in Sources : read[f] = taken[r][pass[r]][f] \/ read[f] = tree[f]
       /\ \A f \in Sources : f \in away => read[f] = Nothing
  BY <1>8, <1>10 DEF Copies, Bytes
<1> HIDE DEF read
<1>12. taken' \in [Runs -> [Passes -> Copies]] /\ \A q \in Runs \ {r} : taken'[q] = taken[q]
  BY <1>1, <1>2, <1>10, <1>11 DEF TypeOK, ReadingOK
<1>13. taken'[r] \in [Passes -> Copies] /\ taken'[r][pass[r]] = read /\ \A p \in Passes : p # pass[r] => taken'[r][p] = taken[r][p]
  BY <1>1, <1>2, <1>10, <1>11 DEF TypeOK, ReadingOK
<1>14. \A p \in Passes, g \in Sources : taken'[r][p][g] # taken[r][p][g] => p = pass[r] /\ taken'[r][p][g] = tree[g]
  BY <1>11, <1>13
<1>15. \A p \in Passes, g \in Sources : taken[r][p][g] # Unread => taken'[r][p][g] # Unread
  BY <1>1, <1>14, ContentsAreRead DEF TypeOK, TreeOK
<1>16. TypeOK'
  BY <1>1, <1>2, <1>3, <1>7, <1>12 DEF Untouched, TypeOK, TreeOK, ControlOK, ReadingOK
<1>17. Own(r)
  BY <1>1, <1>2, <1>3, <1>12 DEF Own, Kept, TypeOK, ControlOK
<1>18. Known(r)' /\ Gone(r)' /\ Agreed(r)'
  BY <1>1, <1>2, <1>4, <1>14, Missing
<1>19. pc'[r] = "package" /\ plan'[r] = BuildFiles \o s
  BY <1>1, <1>2, <1>3 DEF TypeOK, ControlOK
<1>20. BeforeAll(r)' /\ Scenarios(r)' /\ Compared(r)'
  BY <1>19 DEF BeforeAll, Scenarios, Compared, Fresh, Reading, Checked
<1>21. number[r] = Len(BuildFiles) /\ DOMAIN BuildFiles = 1..Len(BuildFiles)
  BY <1>2, <1>4, <1>6, LenProperties
<1>22. \A k \in 1..number[r] : BuildFiles[k] \in Sources
  BY <1>6, <1>21, ElementOfSeq
<1>27. number'[r] = number[r] /\ opened'[r] = Absent /\ pass'[r] = pass[r] /\ built'[r] = <<>>
  BY <1>2, <1>4
<1>23. ASSUME NEW k \in 1..number'[r] PROVE Has(r, pass[r], plan[r][k])'
  <2>1. k \in 1..number[r] /\ k \in 1..Len(BuildFiles)
    BY <1>21, <1>27
  <2>2. taken[r][pass[r]][BuildFiles[k]] # Unread /\ BuildFiles[k] \in Sources
    BY <1>4, <1>22, <2>1 DEF Has
  <2>3. taken'[r][pass[r]][BuildFiles[k]] # Unread
    BY <1>10, <1>15, <2>2
  <2>4. plan'[r][k] = BuildFiles[k]
    BY <1>7, <1>19, <2>1
  <2> QED
    BY <1>27, <2>3, <2>4 DEF Has
<1>24. \A f \in Staged : f \in ToSet(plan'[r]) \/ Has(r, pass[r], f)'
  <2>1. ASSUME NEW f \in ToSet(PackageFiles), f \notin Listed PROVE taken'[r][pass[r]][f] # Unread
    <3>1. f \in Sources /\ Nothing \in Bytes
      BY StagedAreSources DEF Staged, Bytes
    <3> QED
      BY <1>11, <1>13, <2>1, <3>1, ContentsAreRead
  <2>2. pass'[r] = pass[r]
    BY <1>2
  <2> QED
    BY <1>5, <1>7, <1>19, <2>1, <2>2 DEF Staged, Has
<1>25. pass[r] = "last" => \A f \in Staged : Has(r, "first", f)'
  BY <1>4, <1>9, <1>15, StagedAreSources DEF Has
<1>28. number'[r] <= Len(plan'[r])
  BY <1>7, <1>19, <1>21, <1>27
<1>26. Plans(r)'
  BY <1>4, <1>19, <1>23, <1>24, <1>25, <1>27, <1>28 DEF Plans
<1> QED
  BY <1>16, <1>17, <1>18, <1>20, <1>26, OwnStep DEF RunInv

-----------------------------------------------------------------------------
(* A stage is complete, and later the two stages are compared and built. *)
LEMMA AllAreStaged ==
  ASSUME TypeOK, NEW r \in Runs, RunInv(r), pc[r] = "package", AllCopied(r), NEW f \in Staged
  PROVE Has(r, pass[r], f)
<1>1. plan[r] \in Seq(Sources) /\ DOMAIN plan[r] = 1..Len(plan[r])
  BY LenProperties DEF TypeOK, ControlOK
<1>2. /\ \A k \in 1..number[r] : Has(r, pass[r], plan[r][k])
      /\ \A g \in Staged : g \in ToSet(plan[r]) \/ Has(r, pass[r], g)
  BY DEF RunInv, Plans, Staging
<1> QED
  BY <1>1, <1>2 DEF AllCopied, ToSet

\* An epoch that the system has no time for.
LEMMA StagingBreaksStep ==
  ASSUME IInv, NEW r \in Runs, StagedOnce(r), request[r].epoch = "huge", UNCHANGED managed
  PROVE IInv'
<1>1. TypeOK /\ RunInv(r)
  BY DEF IInv
<1>2. /\ pc[r] = "package" /\ pc[r] # "ended" /\ Resting /\ UNCHANGED <<version, built>>
      /\ pc' = [pc EXCEPT ![r] = "ended"]
  BY DEF StagedOnce, At, Exit, Looks, ReadsNothing, Building, Resting, Untouched,
         sources, outputs, circumstances, walking, collecting, buildVars
<1>3. pc'[r] = "ended"
  BY <1>1, <1>2 DEF TypeOK, ControlOK
<1>4. BeforeAll(r)' /\ Scenarios(r)' /\ Plans(r)' /\ Compared(r)'
  BY <1>3 DEF BeforeAll, Scenarios, Plans, Compared, Fresh, Reading, Staging, Checked
<1>5. DOMAIN version' = Runs /\ \A q \in Runs : version'[q] = version[q]
  BY <1>1, <1>2 DEF TypeOK, ControlOK
<1>6. built' \in [Runs -> Seq(Archive)] /\ \A q \in Runs : built'[q] = built[q]
  BY <1>1, <1>2 DEF TypeOK, ControlOK
<1> QED
  BY <1>2, <1>4, <1>5, <1>6, ControlStep

LEMMA StagedOnceStep ==
  ASSUME IInv, NEW r \in Runs, StagedOnce(r), UNCHANGED managed
  PROVE IInv'
<1> SUFFICES ASSUME request[r].epoch # "huge" PROVE IInv'
  BY StagingBreaksStep
<1>1. TypeOK /\ RunInv(r)
  BY DEF IInv
<1>2. /\ pc[r] = "package" /\ pc[r] # "ended" /\ AllCopied(r) /\ opened[r] = Absent /\ pass[r] = "first"
      /\ Untouched /\ UNCHANGED <<request, dist, version, built, opened, seen, taken, managed>>
      /\ pc' = [pc EXCEPT ![r] = "stage"] /\ pass' = [pass EXCEPT ![r] = "last"]
      /\ number' = [number EXCEPT ![r] = 0] /\ instant' = [instant EXCEPT ![r] = tree]
      /\ plan' = [plan EXCEPT ![r] = BuildFiles]
  BY DEF StagedOnce, EndOfFirstPass, At, Goto, Rewind, Looks, Untouched, sources, outputs, circumstances
<1>3. tree \in Copies /\ 0 \in Nat /\ "last" \in Passes /\ BuildFiles \in Seq(Sources)
  BY <1>1, EverythingIsASource DEF TypeOK, TreeOK, Copies, Passes
<1>4. TypeOK'
  BY <1>1, <1>2, <1>3 DEF Untouched, TypeOK, TreeOK, ControlOK, ReadingOK
<1>5. Own(r)
  BY <1>1, <1>2 DEF Own, Kept, TypeOK, ControlOK, ReadingOK
<1>6. /\ pc'[r] = "stage" /\ pass'[r] = "last" /\ number'[r] = 0 /\ instant'[r] = tree /\ plan'[r] = BuildFiles
      /\ opened'[r] = Absent /\ built'[r] = <<>>
  BY <1>1, <1>2 DEF TypeOK, ControlOK, ReadingOK, RunInv, Plans, Staging
<1>7. Known(r)' /\ Gone(r)' /\ Agreed(r)'
  BY <1>1, <1>2, <1>6, FirstPassEnds
<1>8. BeforeAll(r)' /\ Scenarios(r)' /\ Compared(r)'
  BY <1>6 DEF BeforeAll, Scenarios, Compared, Fresh, Reading, Checked
<1>9. \A f \in Staged : Has(r, "first", f)
  BY <1>1, <1>2, AllAreStaged
<1>10. \A f \in Staged : Has(r, "first", f)'
  BY <1>2, <1>9 DEF Has
<1>11. 0 <= Len(BuildFiles) /\ 1..0 = {}
  BY <1>3, LenProperties, NothingYet
<1>12. Plans(r)'
  BY <1>6, <1>10, <1>11 DEF Plans
<1> QED
  BY <1>4, <1>5, <1>7, <1>8, <1>12, OwnStep DEF RunInv

\* Two stages that are the same are the tree at the end of the first.
LEMMA SameAtOneInstant ==
  ASSUME TypeOK, NEW r \in Runs, RunInv(r), pc[r] = "package", pass[r] = "last", AllCopied(r), ~returned,
         Same(taken[r].first, taken[r].last), NEW f \in Staged
  PROVE Has(r, "first", f) /\ taken[r].first[f] = instant[r][f]
<1>1. f \in Sources
  BY StagedAreSources
<1>2. Has(r, "last", f)
  BY AllAreStaged
<1>3. Has(r, "first", f)
  BY DEF RunInv, Plans, Staging
<1>4. taken[r].first[f] = taken[r].last[f]
  BY DEF Same
<1>5. instant[r][f] # Unread
  BY <1>1 DEF RunInv, Known
<1>6. taken[r].first[f] \in Bytes /\ instant[r][f] \in Bytes
  BY <1>1, <1>3, <1>5 DEF TypeOK, ReadingOK, Copies, Has, Passes
<1>7. \A c \in Bytes : c \in [Blocks -> Values \cup {Absent}]
  BY DEF Bytes, Contents, Nothing
<1>8. ASSUME NEW b \in Blocks PROVE taken[r].first[f][b] = instant[r][f][b]
  BY <1>1, <1>2, <1>3, <1>4 DEF RunInv, Gone, Lost
<1>9. taken[r].first[f] = instant[r][f]
  BY <1>6, <1>7, <1>8
<1> QED
  BY <1>3, <1>9

LEMMA StagedTwiceStep ==
  ASSUME IInv, NEW r \in Runs, StagedTwice(r), UNCHANGED managed
  PROVE IInv'
<1>1. TypeOK /\ RunInv(r)
  BY DEF IInv
<1>2. /\ pc[r] = "package" /\ pc[r] # "ended" /\ pass[r] = "last" /\ AllCopied(r)
      /\ Resting /\ UNCHANGED <<version, built>>
  BY DEF StagedTwice, At, Looks, ReadsNothing, Building, Resting, Untouched,
         sources, outputs, circumstances, walking, collecting, buildVars
<1>3. PICK s : /\ pc' = [pc EXCEPT ![r] = s]
               /\ (s = "environment" /\ Same(taken[r].first, taken[r].last)) \/ s = "ended"
  BY DEF StagedTwice, Check, Goto, Exit
<1>4. pc'[r] = s /\ built[r] = <<>>
  BY <1>1, <1>2, <1>3 DEF TypeOK, ControlOK, RunInv, Plans, Staging
<1>5. BeforeAll(r)' /\ Scenarios(r)' /\ Plans(r)'
  BY <1>3, <1>4 DEF BeforeAll, Scenarios, Plans, Fresh, Reading, Staging
<1>6. Compared(r)'
  <2> SUFFICES ASSUME s = "environment" PROVE Compared(r)'
    BY <1>3, <1>4 DEF Compared, Checked
  <2>1. ~returned => \A f \in Staged : Has(r, "first", f) /\ taken[r].first[f] = instant[r][f]
    BY <1>1, <1>2, <1>3, SameAtOneInstant
  <2> QED
    BY <1>2, <1>4, <2>1 DEF Compared, Resting, Untouched, Has
<1>7. DOMAIN version' = Runs /\ \A q \in Runs : version'[q] = version[q]
  BY <1>1, <1>2 DEF TypeOK, ControlOK
<1>8. built' \in [Runs -> Seq(Archive)] /\ \A q \in Runs : built'[q] = built[q]
  BY <1>1, <1>2 DEF TypeOK, ControlOK
<1> QED
  BY <1>2, <1>3, <1>5, <1>6, <1>7, <1>8, ControlStep

LEMMA IdentifyEnvironmentStep ==
  ASSUME IInv, NEW r \in Runs, IdentifyEnvironment(r), UNCHANGED managed
  PROVE IInv'
<1>1. TypeOK /\ RunInv(r)
  BY DEF IInv
<1>2. pc[r] = "environment" /\ pc[r] # "ended" /\ Resting /\ UNCHANGED <<version, built>>
  BY DEF IdentifyEnvironment, At, Looks, ReadsNothing, Building, Resting, Untouched,
         sources, outputs, circumstances, walking, collecting, buildVars
<1>3. PICK s \in {"package-build", "ended"} : pc' = [pc EXCEPT ![r] = s]
  BY DEF IdentifyEnvironment, Check, Goto, Exit
<1>4. pc'[r] = s
  BY <1>1, <1>3 DEF TypeOK, ControlOK
<1>5. BeforeAll(r)' /\ Scenarios(r)' /\ Plans(r)'
  BY <1>3, <1>4 DEF BeforeAll, Scenarios, Plans, Fresh, Reading, Staging
<1>6. Compared(r)'
  BY <1>1, <1>2, <1>3, <1>4 DEF RunInv, Compared, Checked, Resting, Untouched, Has
<1>7. DOMAIN version' = Runs /\ \A q \in Runs : version'[q] = version[q]
  BY <1>1, <1>2 DEF TypeOK, ControlOK
<1>8. built' \in [Runs -> Seq(Archive)] /\ \A q \in Runs : built'[q] = built[q]
  BY <1>1, <1>2 DEF TypeOK, ControlOK
<1> QED
  BY <1>2, <1>3, <1>5, <1>6, <1>7, <1>8, ControlStep

LEMMA FirstStays ==
  ASSUME NEW S, NEW s \in Seq(S), NEW e \in S
  PROVE /\ Append(s, e) \in Seq(S)
        /\ s = <<>> => Append(s, e)[1] = e
        /\ s # <<>> => Append(s, e)[1] = s[1]
<1>1. /\ Append(s, e) \in Seq(S) /\ Append(s, e)[Len(s) + 1] = e
      /\ \A i \in 1..Len(s) : Append(s, e)[i] = s[i]
  BY AppendProperties
<1>2. s # <<>> => Len(s) \in Nat \ {0}
  BY EmptySeq
<1>3. s # <<>> => 1 \in 1..Len(s)
  BY <1>2
<1>4. s = <<>> => Len(s) + 1 = 1
  OBVIOUS
<1> QED
  BY <1>1, <1>3, <1>4

LEMMA BuildOnceStep ==
  ASSUME IInv, NEW r \in Runs, BuildOnce(r), UNCHANGED managed
  PROVE IInv'
<1> DEFINE files == IF built[r] = <<>> THEN taken[r].first ELSE taken[r].last
<1> DEFINE said == IF files[VersionFile] = Nothing THEN NoVersion ELSE VersionOf[files[VersionFile]]
<1>1. TypeOK /\ RunInv(r) /\ VersionFile \in Sources
  BY TheVersionIsStaged, StagedAreSources DEF IInv, Staged
<1>2. pc[r] = "package-build" /\ pc[r] # "ended" /\ Resting /\ UNCHANGED <<version, plan>>
  BY DEF BuildOnce, At, Looks, ReadsNothing, Resting, Untouched,
         sources, outputs, circumstances, walking, collecting
<1>3. PICK s : /\ pc' = [pc EXCEPT ![r] = s]
               /\ (s = "package-build" /\ files[VersionFile] # Nothing) \/ s = "ended"
  BY DEF BuildOnce, Check, Goto, Exit
<1>4. PICK noise \in {0, 1} :
        built' = [built EXCEPT ![r] = Append(built[r], [version |-> said, files |-> files, noise |-> noise])]
  BY ZenonT(60) DEF BuildOnce, Archives
<1>5. files \in Copies /\ said \in Versions
  <2>1. taken[r].first \in Copies /\ taken[r].last \in Copies
    BY <1>1 DEF TypeOK, ReadingOK, Passes
  <2>2. files \in Copies
    BY <2>1
  <2>3. files[VersionFile] \in Bytes \cup {Unread}
    BY <1>1, <2>2 DEF Copies
  <2> QED
    BY <2>2, <2>3 DEF Versions
<1> HIDE DEF said
<1>6. PICK e : e = [version |-> said, files |-> files, noise |-> noise]
  OBVIOUS
<1>7. e \in Archive /\ e.files = files /\ e.version = said
  BY <1>5, <1>6 DEF Archive
<1>8. built[r] \in Seq(Archive)
  BY <1>1 DEF TypeOK, ControlOK
<1>9. /\ Append(built[r], e) \in Seq(Archive)
      /\ built[r] = <<>> => Append(built[r], e)[1] = e
      /\ built[r] # <<>> => Append(built[r], e)[1] = built[r][1]
  BY <1>7, <1>8, FirstStays
<1>10. built' \in [Runs -> Seq(Archive)] /\ built'[r] = Append(built[r], e) /\ \A q \in Runs \ {r} : built'[q] = built[q]
  BY <1>1, <1>4, <1>6, <1>9 DEF TypeOK, ControlOK
<1>11. pc'[r] = s
  BY <1>1, <1>3 DEF TypeOK, ControlOK
<1>12. BeforeAll(r)' /\ Scenarios(r)' /\ Plans(r)'
  BY <1>3, <1>11 DEF BeforeAll, Scenarios, Plans, Fresh, Reading, Staging
<1>13. Compared(r)'
  <2> SUFFICES ASSUME s = "package-build", files[VersionFile] # Nothing PROVE Compared(r)'
    BY <1>3, <1>11 DEF Compared, Checked
  <2>1. ~returned => \A f \in Staged : Has(r, "first", f) /\ taken[r].first[f] = instant[r][f]
    BY <1>1, <1>2 DEF RunInv, Compared, Checked
  <2>2. /\ built'[r][1].files = taken[r].first
        /\ built'[r][1].version = VersionOf[taken[r].first[VersionFile]]
    <3>1. CASE built[r] = <<>>
      BY <1>7, <1>9, <1>10, <3>1 DEF said
    <3>2. CASE built[r] # <<>>
      BY <1>1, <1>2, <1>9, <1>10, <3>2 DEF RunInv, Compared, Checked
    <3> QED
      BY <3>1, <3>2
  <2> QED
    BY <1>2, <1>11, <2>1, <2>2 DEF Compared, Resting, Untouched, Has
<1>14. DOMAIN version' = Runs /\ \A q \in Runs : version'[q] = version[q]
  BY <1>1, <1>2 DEF TypeOK, ControlOK
<1> QED
  BY <1>2, <1>3, <1>10, <1>12, <1>13, <1>14, ControlStep

LEMMA CompareBuildsStep ==
  ASSUME IInv, NEW r \in Runs, CompareBuilds(r), UNCHANGED managed
  PROVE IInv'
<1>1. TypeOK /\ RunInv(r)
  BY DEF IInv
<1>9. built[r] # <<>>
  <2>1. Len(built[r]) = 2
    BY DEF CompareBuilds
  <2>2. Len(<<>>) # 2
    BY EmptySeq
  <2> QED
    BY <2>1, <2>2
<1>2. pc[r] = "package-build" /\ pc[r] # "ended" /\ Resting /\ UNCHANGED <<version, built>> /\ built[r] # <<>>
  BY <1>9 DEF CompareBuilds, At, Looks, ReadsNothing, Building, Resting, Untouched,
         sources, outputs, circumstances, walking, collecting, buildVars
<1>3. PICK s : /\ pc' = [pc EXCEPT ![r] = s]
               /\ (s = "publish" /\ built[r][1].version = version[r]) \/ s = "ended"
  BY DEF CompareBuilds, Check, Goto, Exit
<1>4. pc'[r] = s
  BY <1>1, <1>3 DEF TypeOK, ControlOK
<1>5. BeforeAll(r)' /\ Scenarios(r)' /\ Plans(r)'
  BY <1>3, <1>4 DEF BeforeAll, Scenarios, Plans, Fresh, Reading, Staging
<1>6. Compared(r)'
  BY <1>1, <1>2, <1>3, <1>4 DEF RunInv, Compared, Checked, Resting, Untouched, Has
<1>7. DOMAIN version' = Runs /\ \A q \in Runs : version'[q] = version[q]
  BY <1>1, <1>2 DEF TypeOK, ControlOK
<1>8. built' \in [Runs -> Seq(Archive)] /\ \A q \in Runs : built'[q] = built[q]
  BY <1>1, <1>2 DEF TypeOK, ControlOK
<1> QED
  BY <1>2, <1>3, <1>5, <1>6, <1>7, <1>8, ControlStep

LEMMA PublishStep ==
  ASSUME IInv, NEW r \in Runs, Publish(r), UNCHANGED managed
  PROVE IInv'
<1>1. TypeOK /\ (\A q \in Runs : RunInv(q)) /\ ReleasedInv
  BY DEF IInv
<1>2. /\ pc[r] = "publish" /\ pc[r] # "ended" /\ Untouched /\ Still
      /\ pc' = [pc EXCEPT ![r] = "ended"]
      /\ UNCHANGED <<number, version, built>>
  BY DEF Publish, At, Exit, ReadsNothing, Building, Untouched, Still,
         sources, outputs, circumstances, walking, collecting, buildVars
<1>3. pc'[r] = "ended" /\ \A q \in Runs \ {r} : pc'[q] = pc[q]
  BY <1>1, <1>2 DEF TypeOK, ControlOK
<1>4. TypeOK'
  BY <1>1, <1>2 DEF Untouched, Still, TypeOK, TreeOK, ControlOK, ReadingOK
<1>5. ASSUME NEW q \in Runs PROVE RunInv(q)'
  <2>1. CASE q # r
    <3>1. Kept(q)
      BY <1>2, <1>3, <2>1 DEF Kept, Still
    <3> QED
      BY <1>1, <1>2, <3>1, KeptRun
  <2>2. CASE q = r
    <3>1. (BeforeAll(r) /\ Scenarios(r) /\ Plans(r) /\ Compared(r))'
      BY <1>3 DEF BeforeAll, Scenarios, Plans, Compared, Fresh, Reading, Staging, Checked
    <3>2. (Known(r) /\ Gone(r) /\ Agreed(r))'
      BY <1>1, <1>2, SameReading DEF Still
    <3> QED
      BY <2>2, <3>1, <3>2 DEF RunInv
  <2> QED
    BY <2>1, <2>2
<1>6. CASE dist' = dist
  <2>1. ReleasedInv'
    BY <1>1, <1>2, <1>3, <1>6 DEF ReleasedInv, Released, ReleaseOfOneInstant, Still, Untouched
  <2> QED
    BY <1>4, <1>5, <2>1 DEF IInv
<1>7. CASE dist' = Bundle(r)
  <2>1. /\ dist'.by = r /\ dist'.version = version[r] /\ dist'.archives = built[r][1]
        /\ \A f \in Staged : dist'.source[f] = taken[r].first[f]
    BY <1>7 DEF Bundle
  <2>2. /\ ~returned => \A f \in Staged : taken[r].first[f] = instant[r][f]
        /\ built[r][1].files = taken[r].first
        /\ built[r][1].version = VersionOf[taken[r].first[VersionFile]]
        /\ built[r][1].version = version[r]
    BY <1>1, <1>2 DEF RunInv, Compared, Checked
  <2>3. VersionFile \in Staged
    BY TheVersionIsStaged DEF Staged
  <2>4. ASSUME ~returned PROVE ReleaseOfOneInstant(r)'
    <3>1. ASSUME NEW f \in Staged
          PROVE dist'.source[f] = instant'[r][f] /\ dist'.archives.files[f] = instant'[r][f]
      BY <1>2, <2>1, <2>2, <2>4 DEF Still
    <3>2. dist'.version = VersionOf[instant'[r][VersionFile]]
      BY <1>2, <2>1, <2>2, <2>3, <2>4 DEF Still
    <3> QED
      BY <3>1, <3>2 DEF ReleaseOfOneInstant
  <2>5. ASSUME NEW q \in Runs, Released(q)' PROVE q = r
    BY <2>1, <2>5 DEF Released
  <2>6. ReleasedInv'
    BY <1>2, <1>3, <2>4, <2>5 DEF ReleasedInv, Untouched
  <2> QED
    BY <1>4, <1>5, <2>6 DEF IInv
<1> QED
  BY <1>6, <1>7 DEF Publish

-----------------------------------------------------------------------------
(* What others do, and the whole. *)
LEMMA BreakStep ==
  ASSUME IInv, NEW r \in Runs, Break(r), UNCHANGED <<reportVars, buildVars>>
  PROVE IInv'
<1>1. TypeOK
  BY DEF IInv
<1>2. Frame(r)
  BY DEF Frame, Still, Untouched, Break, sources, outputs, circumstances, walking, collecting, reportVars, buildVars
<1>3. Leaves(r)
  BY <1>1 DEF Leaves, Break, Exit, TypeOK, ControlOK, Critical, Fresh, Reading, Staging, Checked
<1> QED
  BY <1>1, <1>2, <1>3, LeavesIsIdle, IdleStep

LEMMA AsideStep ==
  ASSUME IInv, Still, UNCHANGED <<pc, number, dist>>
  PROVE IInv'
<1>1. TypeOK'
  BY DEF IInv, TypeOK, TreeOK, ControlOK, ReadingOK, Still, Untouched
<1>2. ASSUME NEW q \in Runs PROVE RunInv(q)'
  <2>1. Kept(q) /\ Untouched
    BY DEF Kept, Still
  <2> QED
    BY <2>1, KeptRun DEF IInv
<1>3. ReleasedInv'
  BY DEF IInv, ReleasedInv, Released, ReleaseOfOneInstant, Still, Untouched
<1> QED
  BY <1>1, <1>2, <1>3 DEF IInv

\* A new content: unless something returns, what was lost stays lost.
LEMMA EditStep ==
  ASSUME IInv, Edit, UNCHANGED <<reportVars, buildVars>>
  PROVE IInv'
<1>1. TypeOK /\ (\A q \in Runs : RunInv(q)) /\ ReleasedInv
  BY DEF IInv
<1>2. PICK f \in Sources, c \in Bytes :
        /\ tree' = [tree EXCEPT ![f] = c]
        /\ had' = [had EXCEPT ![f] = [b \in Blocks |-> had[f][b] \cup {c[b]}]]
        /\ returned' = (returned \/ \E b \in Blocks : c[b] # tree[f][b] /\ c[b] \in had[f][b])
        /\ seen' = [r \in Runs |-> IF opened[r] = f /\ c # Nothing THEN seen[r] \cup {c} ELSE seen[r]]
  BY DEF Edit, Bytes
<1>3. UNCHANGED <<request, dist, pc, number, plan, version, built, opened, pass, taken, instant, managed>>
  BY DEF Edit, outputs, control, walking, reportVars, buildVars
<1>4. \A b \in Blocks : c[b] \in Values \cup {Absent}
  BY DEF Bytes, Contents, Nothing
<1>5. /\ tree' \in [Sources -> Bytes] /\ tree'[f] = c /\ \A g \in Sources \ {f} : tree'[g] = tree[g]
      /\ had' \in [Sources -> [Blocks -> SUBSET (Values \cup {Absent})]]
      /\ \A b \in Blocks : had'[f][b] = had[f][b] \cup {c[b]}
      /\ \A g \in Sources \ {f} : had'[g] = had[g]
  BY <1>1, <1>2, <1>4 DEF TypeOK, TreeOK
<1>6. returned' \in BOOLEAN
  BY <1>1, <1>2 DEF TypeOK, TreeOK
<1>7. seen' \in [Runs -> SUBSET Contents]
  BY <1>1, <1>2 DEF TypeOK, ReadingOK, Bytes
<1>8. TypeOK'
  <2>1. \A g \in Sources, b \in Blocks : tree'[g][b] \in had'[g][b]
    BY <1>1, <1>5 DEF TypeOK, TreeOK
  <2> QED
    BY <1>1, <1>3, <1>5, <1>6, <1>7, <2>1 DEF TypeOK, TreeOK, ControlOK, ReadingOK
<1>9. ~returned' => ~returned /\ \A b \in Blocks : c[b] # tree[f][b] => c[b] \notin had[f][b]
  BY <1>2
<1>10. ASSUME NEW q \in Runs PROVE RunInv(q)'
  <2>1. RunInv(q)
    BY <1>1
  <2>2. BeforeAll(q)' /\ Scenarios(q)' /\ Plans(q)'
    BY <1>3, <2>1 DEF RunInv, BeforeAll, Scenarios, Plans, Has, Inputs, Input
  <2>3. Compared(q)'
    BY <1>3, <1>9, <2>1 DEF RunInv, Compared, Has
  <2>4. \A d \in seen'[q] : d \in seen[q] \/ (d = c /\ opened[q] = f)
    BY <1>2
  <2>5. \A g \in Sources, b \in Blocks : had[g][b] \subseteq had'[g][b]
    BY <1>5
  <2>6. Known(q)'
    <3>1. \A g \in Sources, b \in Blocks : Has(q, "first", g) => taken[q].first[g][b] \in had'[g][b]
      BY <2>1, <2>5 DEF RunInv, Known
    <3>2. ASSUME NEW b \in Blocks, opened[q] # Absent, NEW d \in seen'[q] PROVE d[b] \in had'[opened[q]][b]
      <4>1. opened[q] \in Sources
        BY <1>1, <3>2 DEF TypeOK, ReadingOK
      <4>2. CASE d \in seen[q]
        BY <2>1, <2>5, <3>2, <4>1, <4>2 DEF RunInv, Known
      <4>3. CASE d = c /\ opened[q] = f
        BY <1>5, <4>3
      <4> QED
        BY <2>4, <4>2, <4>3
    <3> QED
      BY <1>3, <2>1, <3>1, <3>2 DEF RunInv, Known, Has
  <2>7. ASSUME ~returned', NEW g \in Sources, NEW b \in Blocks, NEW v, Lost(q, g, b, v) PROVE Lost(q, g, b, v)'
    <3>1. g = f => c[b] # v
      BY <1>9, <2>7 DEF Lost
    <3>2. v \in had'[g][b] /\ tree'[g][b] # v
      BY <1>5, <2>5, <2>7, <3>1 DEF Lost
    <3>3. opened[q] = g => \A d \in seen'[q] : d[b] # v
      BY <2>4, <2>7, <3>1 DEF Lost
    <3> QED
      BY <1>3, <2>7, <3>2, <3>3 DEF Lost, Has
  <2>8. Gone(q)'
    BY <1>3, <1>9, <2>1, <2>5, <2>7 DEF RunInv, Gone, Has
  <2>9. Agreed(q)'
    BY <1>3, <1>9, <2>1 DEF RunInv, Agreed
  <2> QED
    BY <2>2, <2>3, <2>6, <2>8, <2>9 DEF RunInv
<1>11. ReleasedInv'
  BY <1>1, <1>3, <1>9 DEF ReleasedInv, Released, ReleaseOfOneInstant
<1> QED
  BY <1>8, <1>10, <1>11 DEF IInv

LEMMA InitHolds == Init => IInv
<1> SUFFICES ASSUME Init PROVE IInv
  OBVIOUS
<1>1. PICK s \in Situations : tree = s.tree /\ request = s.request /\ dist = s.dist
  BY DEF Init, RunsInit
<1>2. /\ had = [f \in Sources |-> [b \in Blocks |-> {tree[f][b]}]] /\ returned = FALSE
      /\ pc = [r \in Runs |-> "begin"] /\ number = [r \in Runs |-> 0]
      /\ pass = [r \in Runs |-> "first"] /\ opened = [r \in Runs |-> Absent] /\ seen = [r \in Runs |-> {}]
      /\ taken = [r \in Runs |-> AllUnread] /\ instant = [r \in Runs |-> [f \in Sources |-> Unread]]
      /\ version = [r \in Runs |-> NoVersion] /\ plan = [r \in Runs |-> <<>>] /\ built = [r \in Runs |-> <<>>]
      /\ managed = [r \in Runs |-> <<>>]
  BY DEF Init, RunsInit, ReportsInit, BuildInit
<1>3. tree \in [Sources -> Bytes] /\ \A r \in Runs : request[r].command \in Commands \cup {"none"}
  BY <1>1, SituationsAreWorlds DEF Bytes
<1>4. \A f \in Sources, b \in Blocks : tree[f][b] \in Values \cup {Absent}
  BY <1>3 DEF Bytes, Contents, Nothing
<1>5. TreeOK
  BY <1>2, <1>3, <1>4 DEF TreeOK
<1>6. <<>> \in Seq(Sources) /\ <<>> \in Seq(Archive) /\ <<>> \in Seq(Entered)
  BY EmptySeq
<1>7. ControlOK
  BY <1>2, <1>6 DEF ControlOK
<1>8. AllUnread \in [Passes -> Copies] /\ [f \in Sources |-> Unread] \in Copies
  BY DEF AllUnread, Copies
<1>9. ReadingOK
  BY <1>2, <1>6, <1>8 DEF ReadingOK, Passes
<1>10. ASSUME NEW r \in Runs PROVE RunInv(r)
  <2>1. /\ pc[r] = "begin" /\ number[r] = 0 /\ pass[r] = "first" /\ opened[r] = Absent /\ seen[r] = {}
        /\ taken[r] = AllUnread /\ built[r] = <<>> /\ managed[r] = <<>>
    BY <1>2
  <2>2. BeforeAll(r) /\ Scenarios(r) /\ Plans(r) /\ Compared(r)
    BY <2>1 DEF BeforeAll, Scenarios, Plans, Compared, Reading, Staging, Checked
  <2>3. Known(r)
    BY <2>1 DEF Known, Has, AllUnread, Passes
  <2>4. Gone(r) /\ Agreed(r)
    BY <2>1 DEF Gone, Agreed
  <2> QED
    BY <2>2, <2>3, <2>4 DEF RunInv
<1>11. ReleasedInv
  BY <1>1, NothingIsReleased DEF ReleasedInv, Released
<1> QED
  BY <1>5, <1>7, <1>9, <1>10, <1>11 DEF IInv, TypeOK

LEMMA NextHolds == IInv /\ [Next]_vars => IInv'
<1> SUFFICES ASSUME IInv, [Next]_vars PROVE IInv'
  OBVIOUS
<1>1. TypeOK
  BY DEF IInv
<1>2. ASSUME NEW r \in Runs, Corpuses(r) PROVE IInv'
  <2>1. Frame(r) /\ Leaves(r)
    BY <1>1, <1>2, CorpusIdle DEF Corpuses
  <2> QED
    BY <1>1, <2>1, LeavesIsIdle, IdleStep
<1>3. ASSUME NEW r \in Runs, Reports(r) PROVE IInv'
  <2> USE DEF Reports
  <2>1. CASE BeginReports(r)
    BY <1>3, <2>1, BeginReportsStep
  <2>2. CASE ReadInput(r)
    BY <1>3, <2>2, ReadInputStep
  <2>3. CASE EndOfBefore(r)
    BY <1>3, <2>3, EndOfBeforeStep
  <2>4. CASE OpenLoaded(r)
    BY <1>3, <2>4, OpenLoadedStep
  <2>5. CASE LoadInput(r)
    BY <1>3, <2>5, LoadInputStep
  <2>6. CASE Evaluate(r)
    BY <1>3, <2>6, EvaluateStep
  <2>7. CASE CompareProvenance(r)
    BY <1>3, <2>7, CompareProvenanceStep
  <2>8. CASE EndOfScenario(r)
    BY <1>3, <2>8, EndOfScenarioStep
  <2>9. CASE Entering(r) /\ Deriving
    <3>1. UNCHANGED <<reportVars, buildVars>>
      BY <1>3, <2>9 DEF Deriving, reportVars
    <3>2. Frame(r) /\ Leaves(r)
      BY <1>1, <2>9, <3>1, ReportsIdle
    <3> QED
      BY <1>1, <3>2, LeavesIsIdle, IdleStep
  <2>10. ValidateTarget(r, "reports-target") /\ Deriving => Entering(r) /\ Deriving
    BY DEF Entering
  <2>11. OpenOutput(r) \/ InspectOutput(r) \/ CreatePage(r) \/ FillPage(r) \/ EndOfPages(r) => Entering(r) /\ Deriving
    BY DEF Entering, OpenOutput, InspectOutput, CreatePage, FillPage, EndOfPages
  <2>12. FindReports(r) \/ OpenReports(r) \/ ListReports(r) \/ ExamineReport(r) => Entering(r) /\ Deriving
    BY DEF Entering, FindReports, OpenReports, ListReports, ExamineReport
  <2>13. CompareNames(r) \/ SizePage(r) \/ ReadPage(r) \/ EndOfReportsCheck(r) \/ CompareEntries(r)
           => Entering(r) /\ Deriving
    BY DEF Entering, CompareNames, SizePage, ReadPage, EndOfReportsCheck, CompareEntries
  <2>14. ReportsStep(r)
    BY <1>3
  <2> QED
    BY <2>1, <2>2, <2>3, <2>4, <2>5, <2>6, <2>7, <2>8, <2>9, <2>10, <2>11, <2>12, <2>13, <2>14 DEF ReportsStep
<1>4. ASSUME NEW r \in Runs, Builds(r) PROVE IInv'
  <2>1. BuildStep(r) /\ UNCHANGED managed
    BY <1>4 DEF Builds, reportVars
  <2>2. CASE PreflightOutput(r)
    BY <2>1, <2>2, PreflightStep
  <2>3. CASE OpenVersion(r)
    BY <2>1, <2>3, OpenVersionStep
  <2>4. CASE ReadVersion(r)
    BY <2>1, <2>4, ReadVersionStep
  <2>5. CASE CopySource(r)
    BY <2>1, <2>5, CopySourceStep
  <2>6. CASE ListPackage(r)
    BY <2>1, <2>6, ListPackageStep
  <2>7. CASE StagedOnce(r)
    BY <2>1, <2>7, StagedOnceStep
  <2>8. CASE StagedTwice(r)
    BY <2>1, <2>8, StagedTwiceStep
  <2>9. CASE IdentifyEnvironment(r)
    BY <2>1, <2>9, IdentifyEnvironmentStep
  <2>10. CASE BuildOnce(r)
    BY <2>1, <2>10, BuildOnceStep
  <2>11. CASE CompareBuilds(r)
    BY <2>1, <2>11, CompareBuildsStep
  <2>12. CASE Publish(r)
    BY <2>1, <2>12, PublishStep
  <2> QED
    BY <2>1, <2>2, <2>3, <2>4, <2>5, <2>6, <2>7, <2>8, <2>9, <2>10, <2>11, <2>12 DEF BuildStep
<1>5. ASSUME NEW r \in Runs, Measures(r) PROVE IInv'
  <2>1. Frame(r) /\ Leaves(r)
    BY <1>1, <1>5, MeasureIdle DEF Measures
  <2> QED
    BY <1>1, <2>1, LeavesIsIdle, IdleStep
<1>6. ASSUME NEW r \in Runs, Start(r) \/ Break(r), UNCHANGED <<corpusVars, reportVars, buildVars, measureVars>>
      PROVE IInv'
  BY <1>6, StartStep, BreakStep
<1>7. CASE Edit /\ UNCHANGED <<corpusVars, reportVars, buildVars, measureVars>>
  BY <1>7, EditStep
<1>8. CASE (Change \/ Move) /\ UNCHANGED <<corpusVars, reportVars, buildVars, measureVars>>
  <2>1. Still /\ UNCHANGED <<pc, number, dist>>
    BY <1>8 DEF Still, Untouched, Change, Move, sources, control, walking, collecting, reportVars, buildVars
  <2> QED
    BY <2>1, AsideStep
<1>9. CASE UNCHANGED vars
  <2>1. Still /\ UNCHANGED <<pc, number, dist>>
    BY <1>9 DEF vars, runVars, Still, Untouched, sources, outputs, circumstances, control, walking, collecting,
                reportVars, buildVars
  <2> QED
    BY <2>1, AsideStep
<1> QED
  BY <1>2, <1>3, <1>4, <1>5, <1>6, <1>7, <1>8, <1>9 DEF Next

LEMMA InvariantHolds == IInv => OneInstant
<1> SUFFICES ASSUME IInv, ~returned, NEW r \in Runs PROVE ReleaseOfOneInstant(r) /\ ReportsOfOneInstant(r)
  BY DEF OneInstant
<1>1. ReleaseOfOneInstant(r)
  BY DEF IInv, ReleasedInv, ReleaseOfOneInstant
<1>2. TypeOK /\ RunInv(r)
  BY DEF IInv
<1>3. ASSUME Accepted(r), NEW f \in ToSet(Inputs(r))
      PROVE taken[r].first[f] = instant[r][f] /\ taken[r].loaded[f] = instant[r][f]
  <2>1. PICK k \in DOMAIN Inputs(r) : f = Inputs(r)[k]
    BY DEF ToSet
  <2> QED
    BY <1>2, <1>3, <2>1, AcceptedAtOneInstant
<1>4. \A k \in DOMAIN managed[r] : managed[r][k].inputs = managed[r][k].report
  BY <1>2 DEF RunInv, Agreed
<1> QED
  BY <1>1, <1>3, <1>4 DEF ReportsOfOneInstant

(* The states of the scripts have the types they should, however many invocations there *)
(* are and whatever others do to the files.                                             *)
THEOREM TypeCorrectness == Spec => []TypeOK
<1>1. IInv => TypeOK
  BY DEF IInv
<1> QED
  BY <1>1, InitHolds, NextHolds, PTL DEF Spec

(* For every number of invocations, set of sources, list of scenarios and of files to   *)
(* release: where no content of a file comes back after it was replaced, what           *)
(* example_reports.py derives and build_release.py publishes is the tree of one instant. *)
THEOREM OneInstantHolds == Spec => []OneInstant
<1> QED
  BY InitHolds, NextHolds, InvariantHolds, PTL DEF Spec
-----------------------------------------------------------------------------
(* ResultsWhole.  The argument for the directories: SHA256SUMS is the first file of   *)
(* both generators, so whoever has created it there is the only one who adds files.   *)
Directing == {"corpus-generate", "corpus-check", "corpus-replay", "reports-generate", "reports-check"}
OfCorpus(r) == request[r].command \in {"corpus-generate", "corpus-check", "corpus-replay"}
Checking(r) == request[r].command \in {"corpus-check", "corpus-replay", "reports-check"}

Undirected ==
  {"build", "version", "stage", "package", "environment", "package-build", "publish",
   "scenario-generate", "scenario-check", "scenario-manifest", "semantics",
   "measure", "python", "input", "child", "measured", "new-scenario", "new-record", "write-scenario", "write-record",
   "compare-scenario", "compare-record", "unlink-scenario", "unlink-record"}

\* The steps that a command takes, as far as it matters which they are.
Tie(r) ==
  /\ pc[r] \in {"corpus-generate", "corpus-parents", "corpus-create", "corpus-fill"} =>
       request[r].command = "corpus-generate"
  /\ pc[r] \in {"look", "mkdir", "prepare"} => request[r].command \in {"corpus-generate", "reports-generate"}
  /\ pc[r] \in {"corpus-check", "corpus-replay", "walk", "walked", "corpus-size", "corpus-read", "corpus-manifest", "replay"} =>
       request[r].command \in {"corpus-check", "corpus-replay"}
  /\ pc[r] \in {"reports-generate", "reports-target", "empty", "page", "page-fill"} =>
       request[r].command = "reports-generate"
  /\ pc[r] \in {"reports-check", "reports-look", "reports-open", "reports-list", "reports-entries", "reports-size", "reports-read"} =>
       request[r].command = "reports-check"
  /\ pc[r] \in {"source-entries", "load"} => request[r].command \in {"reports-generate", "reports-check"}
  /\ pc[r] \in Undirected => request[r].command \notin Directing

Tied ==
  /\ DOMAIN exit = Runs
  /\ \A r \in Runs : Tie(r) /\ (exit[r] = "0" => pc[r] = "ended")

-----------------------------------------------------------------------------
(* The directories. *)
Paths(r) == IF OfCorpus(r) THEN CorpusPaths ELSE ReportPaths
Expected(r, s) == IF OfCorpus(r) THEN Corpus ELSE ReportBytes(managed[r], s)
Target(r) == IF OfCorpus(r) THEN place ELSE fd[r]
Sums == CorpusPaths[1]

By(r, x) == x \in [by : {r}, bytes : FileBytes]
ByARun(x) == \E q \in Runs : By(q, x)
Full(x) == IsFile(x) /\ x.bytes # Empty

OutputOK ==
  /\ holds \in [Directories -> [Slots -> NoFiles \cup Written]]
  /\ DOMAIN fd = Runs /\ DOMAIN found = Runs
  /\ listing \in [Runs -> [entries : SUBSET [name : Slots, folder : BOOLEAN], left : SUBSET [name : Slots, folder : BOOLEAN]]]

\* The steps of a generator that come before it writes, when its reports are derived.
Preparing == {"corpus-generate", "reports-target", "look", "mkdir", "prepare", "empty"}
Deduced(r) ==
  /\ pc[r] \in Preparing \cup {"begin"} => number[r] = 0
  /\ pc[r] \in (Preparing \cup {"page", "page-fill"}) /\ ~OfCorpus(r) => Len(managed[r]) = Len(ScenarioInputs)

\* What a run found is still there, and the README is as it was.
Grown(r) ==
  pc[r] # "begin" =>
    \A d \in Directories, s \in Slots :
      /\ holds[d][s] = Absent => found[r].holds[d][s] = Absent
      /\ s = Readme => holds[d][s] = found[r].holds[d][s]

\* A file that a run has made is one of its own, beside its SHA256SUMS.
Owned(r) ==
  \A d \in Directories, s \in Slots :
    By(r, holds[d][s]) =>
      /\ By(r, holds[d][Sums]) /\ s \in ToSet(Paths(r)) /\ ~Checking(r)
      /\ s = Sums => holds[d][s].bytes \in {Empty} \cup (IF OfCorpus(r) THEN {Corpus} ELSE [sums : Seq(Entered)])

Succeeds(r) == exit[r] = "0" /\ request[r].command \in Directing
Generating(r) ==
  \/ pc[r] \in {"corpus-parents", "corpus-create", "corpus-fill", "page", "page-fill"}
  \/ Succeeds(r) /\ ~Checking(r)
Walking(r) == pc[r] \in {"walked", "reports-entries"}
Comparing(r) ==
  \/ pc[r] \in {"corpus-size", "corpus-read", "reports-size", "reports-read"}
  \/ Succeeds(r) /\ Checking(r)

Counted(r) ==
  /\ number[r] <= Len(Paths(r))
  /\ pc[r] \in {"corpus-create", "corpus-fill", "page-fill", "corpus-read", "reports-read"} => number[r] < Len(Paths(r))
  /\ exit[r] = "0" => number[r] = Len(Paths(r))

\* A directory that is to be listed is one.
Reaches(r) == pc[r] \in {"empty", "walk", "reports-list"} => Target(r) \in Directories

\* The directory was empty but for the README, and has the files made so far.
Generates(r) ==
  Generating(r) =>
    /\ Target(r) \in Directories /\ Counted(r)
    /\ \A k \in 1..number[r] :
         LET x == holds[Target(r)][Paths(r)[k]] IN By(r, x) /\ x.bytes = Expected(r, Paths(r)[k])
    /\ pc[r] \in {"corpus-fill", "page-fill"} =>
         fd[r] = Target(r) /\ holds[Target(r)][Paths(r)[number[r] + 1]] = [by |-> r, bytes |-> Empty]
    /\ \A s \in Slots \ {Readme} : holds[Target(r)][s] = Absent \/ ByARun(holds[Target(r)][s])

\* What is listed is there; what is there and not listed was made by a run.
Walks(r) ==
  Walking(r) =>
    /\ Target(r) \in Directories
    /\ \A e \in listing[r].entries :
         /\ holds[Target(r)][e.name] # Absent
         /\ e.folder <=> holds[Target(r)][e.name] = Folder
         /\ e \notin listing[r].left => IsFile(holds[Target(r)][e.name]) \/ (OfCorpus(r) /\ e.folder)
    /\ \A s \in Slots :
         \/ holds[Target(r)][s] = Absent \/ ByARun(holds[Target(r)][s])
         \/ \E e \in listing[r].entries : e.name = s

\* The files compared so far are right; others are not managed only if a run made them.
Compares(r) ==
  Comparing(r) =>
    /\ Target(r) \in Directories /\ Counted(r)
    /\ \A k \in 1..number[r] :
         LET x == holds[Target(r)][Paths(r)[k]] IN Full(x) /\ x.bytes = Expected(r, Paths(r)[k])
    /\ pc[r] \in {"corpus-read", "reports-read"} => Full(holds[Target(r)][Paths(r)[number[r] + 1]])
    /\ \A s \in Slots :
         IsFile(holds[Target(r)][s]) =>
           s \in ToSet(Paths(r)) \/ ByARun(holds[Target(r)][s]) \/ (OfCorpus(r) /\ s = Readme)

Directs(r) == Settled \/ ~OfCorpus(r) => Reaches(r) /\ Generates(r) /\ Walks(r) /\ Compares(r)
DirectoriesInv ==
  /\ OutputOK
  /\ \A r \in Runs : Deduced(r)
  /\ Settled \/ Apart => \A r \in Runs : Grown(r) /\ Owned(r) /\ Directs(r)

\* What is not used yet is empty, and nothing else is open.
UsedInv ==
  /\ used \subseteq Directories /\ place \in used \cup {Absent, Symlink, Plain}
  /\ \A r \in Runs : fd[r] \in used \cup {Absent, Symlink, Plain}
  /\ \A d \in Directories \ used, s \in Slots : holds[d][s] = Absent
  /\ DOMAIN replayed = Runs /\ DOMAIN told = Runs

-----------------------------------------------------------------------------
(* Measurements. *)
Tellings == [environment : {0, 1}, report : FileBytes \cup {Absent}]
Regular(s) == \A k \in DOMAIN s : s[k] = s[First(k)]
Compatible(s) == \A k \in DOMAIN s : First(k) # First(Len(s)) => s[k].environment = s[1].environment

Complete(r) ==
  /\ Len(observed[r]) = Len(ReportFormats) * SeriesLength
  /\ Regular(observed[r])
  /\ \A k \in DOMAIN observed[r] : observed[r][k].environment = observed[r][1].environment

LooseOK == DOMAIN loose = LooseNames /\ \A n \in LooseNames : IsFile(loose[n]) => loose[n].bytes \in FileBytes \/ n = "record"
RecordOf(r) == IsFile(loose.record) /\ loose.record.by = r /\ loose.record.bytes # Empty
MeasureSteps == {"child", "measured", "new-record", "write-record", "compare-record", "unlink-record"}
Consistent(r) ==
  /\ pc[r] \notin MeasureSteps \cup {"ended"} => observed[r] = <<>>
  /\ pc[r] = "child" => Regular(observed[r]) /\ Compatible(observed[r])
  /\ pc[r] \in {"measured", "new-record", "write-record"} => Complete(r)
  /\ RecordOf(r) => pc[r] = "ended" /\ Complete(r) /\ loose.record.bytes = Record(r)

MeasureInv ==
  /\ observed \in [Runs -> Seq(Tellings)]
  /\ LooseOK
  /\ \A r \in Runs : Consistent(r)

-----------------------------------------------------------------------------
(* Builds. *)
Untaken(r) ==
  pc[r] \in Staging \cup Checked =>
    /\ \A p \in Passes, f \in Sources \ Staged : taken[r][p][f] = Unread
    /\ opened[r] \in Staged \cup {Absent} /\ ToSet(plan[r]) \subseteq Staged
Repeated(r) ==
  /\ pc[r] \in Staging \cup {"environment"} => built[r] = <<>>
  /\ pc[r] = "package-build" =>
       /\ Len(built[r]) \in {0, 1, 2}
       /\ built[r] # <<>> => built[r][1].files = taken[r].first
       /\ Len(built[r]) = 2 => built[r][2].files = taken[r].last
  /\ pc[r] = "publish" => built[r][1] = built[r][2]
BuildInv ==
  /\ \A r \in Runs : Untaken(r) /\ Repeated(r)
  /\ \A r \in Runs : Released(r) => pc[r] = "ended" /\ built[r][1] = dist.archives /\ built[r][2] = dist.archives

WholeInv == Tied /\ UsedInv /\ DirectoriesInv /\ MeasureInv /\ BuildInv

-----------------------------------------------------------------------------
(* A run does the steps of its command. *)
Goes(r) ==
  \/ UNCHANGED control
  \/ \E e \in {"0", "1", "2", "interrupted", "killed", "traceback", failure[r]} : Exit(r, e)
  \/ \E s : Goto(r, s) /\ pc[r] # "ended" /\ (Tie(r) => Tie(r)')

\* What a run does not touch it stays tied to.
LEMMA TieStays ==
  ASSUME NEW q, Tie(q), pc'[q] = pc[q], UNCHANGED request
  PROVE Tie(q)'
BY ZenonT(60) DEF Tie

\* A step of a run that goes where its command leads.
LEMMA GoesStep ==
  ASSUME TypeOK, Tied, NEW r \in Runs, Goes(r), UNCHANGED request
  PROVE Tied'
<1>1. DOMAIN pc = Runs /\ DOMAIN exit = Runs
  BY DEF TypeOK, ControlOK, Tied
<1>2. CASE UNCHANGED control
  BY <1>2 DEF Tied, Tie, control
<1>3. ASSUME NEW e, Exit(r, e) PROVE Tied'
  <2>1. pc'[r] = "ended" /\ \A q \in Runs \ {r} : pc'[q] = pc[q] /\ exit'[q] = exit[q]
    BY <1>1, <1>3 DEF Exit
  <2>2. Tie(r)'
    BY <2>1 DEF Tie, Undirected
  <2>3. \A q \in Runs \ {r} : Tie(q)' /\ (exit'[q] = "0" => pc'[q] = "ended")
    BY <2>1, TieStays DEF Tied
  <2>4. DOMAIN exit' = Runs
    BY <1>1, <1>3 DEF Exit
  <2> QED
    BY <2>1, <2>2, <2>3, <2>4 DEF Tied
<1>4. ASSUME NEW s, Goto(r, s), pc[r] # "ended", Tie(r)' PROVE Tied'
  <2>1. exit' = exit /\ \A q \in Runs \ {r} : pc'[q] = pc[q]
    BY <1>1, <1>4 DEF Goto
  <2>2. \A q \in Runs \ {r} : Tie(q)' /\ (exit'[q] = "0" => pc'[q] = "ended")
    BY <2>1, TieStays DEF Tied
  <2> QED
    BY <1>1, <1>4, <2>1, <2>2 DEF Tied
<1> QED
  BY <1>2, <1>3, <1>4 DEF Goes, Tied

\* Script by script: where each step goes.
LEMMA CorpusGoes ==
  ASSUME TypeOK, NEW r \in Runs, CorpusStep(r)
  PROVE Goes(r) /\ UNCHANGED request
<1> USE DEF At, Looks, circumstances, Check, Goes, control
<1>0. pc[r] # "ended" => \A s : Goto(r, s) => pc'[r] = s
  BY DEF Goto, TypeOK, ControlOK
<1>1. CASE ValidateTarget(r, "corpus-generate") \/ LookAtTarget(r) \/ MakeTarget(r) \/ InspectTarget(r)
  BY <1>0, <1>1 DEF ValidateTarget, LookAtTarget, MakeTarget, InspectTarget, Tie, Undirected
<1>2. CASE MakeParents(r) \/ CreateManaged(r) \/ FillManaged(r) \/ EndOfCorpus(r)
  BY <1>0, <1>2 DEF MakeParents, CreateManaged, FillManaged, EndOfCorpus, CreateEntry, FillEntry, Tie, Undirected
<1>3. CASE FindCorpus(r) \/ WalkCorpus(r) \/ ExamineWalked(r) \/ ComparePaths(r)
  BY <1>0, <1>3 DEF FindCorpus, WalkCorpus, ExamineWalked, ComparePaths, Tie, Undirected
<1>4. CASE SizeManaged(r) \/ ReadManaged(r) \/ EndOfCheck(r)
  BY <1>0, <1>4 DEF SizeManaged, ReadManaged, EndOfCheck, Tie, Undirected
<1>5. CASE LoadManifest(r) \/ ReplayScenario(r) \/ ReplayValidation(r) \/ ReplayFails(r)
  BY <1>0, <1>5 DEF LoadManifest, ReplayScenario, ReplayValidation, ReplayFails, Tie, Undirected
<1> QED
  BY <1>1, <1>2, <1>3, <1>4, <1>5 DEF CorpusStep

LEMMA ReportsGoes ==
  ASSUME TypeOK, Tied, NEW r \in Runs, ReportsStep(r)
  PROVE Goes(r) /\ UNCHANGED request
<1> USE DEF At, Looks, circumstances, Check, Goes, control
<1>0. pc[r] # "ended" => \A s : Goto(r, s) => pc'[r] = s
  BY DEF Goto, TypeOK, ControlOK
<1>1. CASE BeginReports(r) \/ ReadInput(r) \/ EndOfBefore(r) \/ OpenLoaded(r)
  BY <1>0, <1>1 DEF BeginReports, ReadInput, EndOfBefore, OpenLoaded, OpenSource, RefuseSource, TakeSource,
                    EndOfFirstPass, Derives, Tie, Undirected, Directing
<1>2. CASE LoadInput(r) \/ Evaluate(r) \/ CompareProvenance(r) \/ CompareEntries(r)
  BY <1>0, <1>2 DEF LoadInput, Evaluate, CompareProvenance, CompareEntries, EntriesRead, Tie, Undirected
<1>3. CASE EndOfScenario(r)
  BY <1>0, <1>3, ZenonT(60) DEF EndOfScenario, EntriesRead, OutputStep, Tied, Tie, Undirected
<1>4. CASE ValidateTarget(r, "reports-target") \/ OpenOutput(r) \/ InspectOutput(r) \/ CreatePage(r) \/ FillPage(r) \/ EndOfPages(r)
  BY <1>0, <1>4 DEF ValidateTarget, OpenOutput, InspectOutput, CreatePage, FillPage, EndOfPages, CreateEntry, FillEntry,
                    Tie, Undirected
<1>5. CASE FindReports(r) \/ OpenReports(r) \/ ListReports(r) \/ ExamineReport(r) \/ CompareNames(r)
  BY <1>0, <1>5 DEF FindReports, OpenReports, ListReports, ExamineReport, CompareNames, Tie, Undirected
<1>6. CASE SizePage(r) \/ ReadPage(r) \/ EndOfReportsCheck(r)
  BY <1>0, <1>6 DEF SizePage, ReadPage, EndOfReportsCheck, Tie, Undirected
<1> QED
  BY <1>1, <1>2, <1>3, <1>4, <1>5, <1>6 DEF ReportsStep

LEMMA BuildGoes ==
  ASSUME TypeOK, NEW r \in Runs, BuildStep(r)
  PROVE Goes(r) /\ UNCHANGED request /\ pc[r] \in Undirected /\ (pc'[r] \in Undirected \/ pc'[r] = "ended")
<1> USE DEF At, Looks, circumstances, Check, Goes, control
<1>0. pc[r] # "ended" => \A s : Goto(r, s) => pc'[r] = s
  BY DEF Goto, TypeOK, ControlOK
<1>01. \A e : Exit(r, e) => pc'[r] = "ended"
  BY DEF Exit, TypeOK, ControlOK
<1>1. CASE PreflightOutput(r) \/ OpenVersion(r)
  BY <1>0, <1>01, <1>1 DEF PreflightOutput, OpenVersion, Tie, Undirected
<1>2. CASE ReadVersion(r)
  BY <1>0, <1>01, <1>2 DEF ReadVersion, Tie, Undirected
<1>3. CASE CopySource(r) \/ ListPackage(r) \/ StagedOnce(r) \/ StagedTwice(r)
  BY <1>0, <1>01, <1>3 DEF CopySource, OpenSource, RefuseSource, TakeSource, ListPackage, StagedOnce, EndOfFirstPass,
                    StagedTwice, Tie, Undirected
<1>4. CASE IdentifyEnvironment(r) \/ BuildOnce(r) \/ CompareBuilds(r) \/ Publish(r)
  BY <1>0, <1>01, <1>4 DEF IdentifyEnvironment, BuildOnce, CompareBuilds, Publish, Tie, Undirected
<1> QED
  BY <1>1, <1>2, <1>3, <1>4 DEF BuildStep

LEMMA MeasureGoes ==
  ASSUME TypeOK, NEW r \in Runs, MeasureStep(r)
  PROVE Goes(r) /\ UNCHANGED request /\ pc[r] \in Undirected /\ (pc'[r] \in Undirected \/ pc'[r] = "ended")
<1> USE DEF At, Looks, circumstances, Check, Goes, control, TouchesNothing
<1>0. pc[r] # "ended" => \A s : Goto(r, s) => pc'[r] = s
  BY DEF Goto, TypeOK, ControlOK
<1>01. \A e : Exit(r, e) => pc'[r] = "ended"
  BY DEF Exit, TypeOK, ControlOK
<1>02. \A n \in LooseNames : {CreatesAt[n], CreatedAt[n], WritesAt[n], ComparesAt[n], RemovesAt[n]} \subseteq Undirected
  <2>1. ASSUME NEW n \in LooseNames, n = "scenario"
        PROVE {CreatesAt[n], CreatedAt[n], WritesAt[n], ComparesAt[n], RemovesAt[n]} \subseteq Undirected
    BY <2>1 DEF CreatesAt, CreatedAt, WritesAt, ComparesAt, RemovesAt, Undirected
  <2>2. ASSUME NEW n \in LooseNames, n = "record"
        PROVE {CreatesAt[n], CreatedAt[n], WritesAt[n], ComparesAt[n], RemovesAt[n]} \subseteq Undirected
    BY <2>2 DEF CreatesAt, CreatedAt, WritesAt, ComparesAt, RemovesAt, Undirected
  <2> QED
    BY <2>1, <2>2 DEF LooseNames
<1>03. ASSUME NEW s \in Undirected, pc[r] \in Undirected, Goto(r, s), UNCHANGED request
       PROVE pc[r] # "ended" /\ pc'[r] \in Undirected /\ (Tie(r) => Tie(r)')
  BY <1>0, <1>03, ZenonT(60) DEF Tie, Undirected
<1>1. ASSUME NEW n \in LooseNames, CreateLoose(r, n) \/ IdentifyLoose(r, n) \/ WriteFails(r, n) \/ Recognize(r, n) \/ Withdraw(r, n)
      PROVE Goes(r) /\ UNCHANGED request /\ pc[r] \in Undirected /\ (pc'[r] \in Undirected \/ pc'[r] = "ended")
  <2>1. CASE CreateLoose(r, n)
    BY <1>01, <1>02, <1>03, <2>1 DEF CreateLoose, TouchesLoose
  <2>2. CASE IdentifyLoose(r, n)
    BY <1>01, <1>02, <1>03, <2>2 DEF IdentifyLoose
  <2>3. CASE WriteFails(r, n)
    BY <1>01, <1>02, <1>03, <2>3 DEF WriteFails
  <2>4. CASE Recognize(r, n)
    BY <1>01, <1>02, <1>03, <2>4 DEF Recognize
  <2>5. CASE Withdraw(r, n)
    BY <1>01, <1>02, <1>03, <2>5 DEF Withdraw, TouchesLoose
  <2> QED
    BY <1>1, <2>1, <2>2, <2>3, <2>4, <2>5
<1>2. ASSUME NEW n \in LooseNames, NEW b, WriteLoose(r, n, b)
      PROVE Goes(r) /\ UNCHANGED request /\ pc[r] \in Undirected /\ (pc'[r] \in Undirected \/ pc'[r] = "ended")
  BY <1>01, <1>02, <1>03, <1>2 DEF WriteLoose, TouchesLoose
<1>3. CASE ReadExactInput(r) \/ CompareManifest(r) \/ VerifySemantics(r)
  BY <1>0, <1>01, <1>3 DEF ReadExactInput, CompareManifest, VerifySemantics, Tie, Undirected
<1>4. CASE RequireNewPath(r) \/ ValidatedPython(r) \/ RunChild(r)
  BY <1>0, <1>01, <1>4 DEF RequireNewPath, ValidatedPython, RunChild, Tie, Undirected
<1>5. CASE ChildFails(r) \/ SeriesDiffer(r) \/ EndOfMeasurement(r)
  BY <1>0, <1>01, <1>5 DEF ChildFails, SeriesDiffer, EndOfMeasurement, Tie, Undirected
<1> QED
  BY <1>1, <1>2, <1>3, <1>4, <1>5 DEF MeasureStep, LooseNames

\* So a run is always at a step of its own command.
LEMMA TiedHolds == IInv /\ Tied /\ [Next]_vars => Tied'
<1> SUFFICES ASSUME IInv, Tied, [Next]_vars PROVE Tied'
  OBVIOUS
<1>1. TypeOK
  BY DEF IInv
<1>2. ASSUME NEW r \in Runs, Corpuses(r) \/ Reports(r) \/ Builds(r) \/ Measures(r) PROVE Tied'
  <2>1. Goes(r) /\ UNCHANGED request
    BY <1>1, <1>2, CorpusGoes, ReportsGoes, BuildGoes, MeasureGoes DEF Corpuses, Reports, Builds, Measures
  <2> QED
    BY <1>1, <2>1, GoesStep
<1>3. ASSUME NEW r \in Runs, Start(r) PROVE Tied'
  <2>1. request[r].command \in Commands /\ Goto(r, request[r].command) /\ UNCHANGED request /\ pc[r] = "begin"
    BY <1>1, <1>3 DEF Start, At, TypeOK, TreeOK, circumstances
  <2>2. pc'[r] = request[r].command
    BY <1>1, <2>1 DEF Goto, TypeOK, ControlOK
  <2>3. Tie(r)'
    BY <2>1, <2>2 DEF Tie, Undirected, Directing, Commands
  <2>4. Goes(r)
    BY <2>1, <2>3 DEF Goes
  <2> QED
    BY <1>1, <2>1, <2>4, GoesStep
<1>4. ASSUME NEW r \in Runs, Break(r) PROVE Tied'
  <2>1. Goes(r) /\ UNCHANGED request
    BY <1>4 DEF Break, Goes, circumstances
  <2> QED
    BY <1>1, <2>1, GoesStep
<1>5. CASE Edit \/ Change \/ Move \/ UNCHANGED vars
  <2>1. UNCHANGED <<pc, exit, request>>
    BY <1>5 DEF Edit, Change, Move, control, circumstances, vars, runVars
  <2> QED
    BY <2>1 DEF Tied, Tie
<1> QED
  BY <1>2, <1>3, <1>4, <1>5 DEF Next

-----------------------------------------------------------------------------
(* The files of a run. *)
\* The paths of a generator: they are slots, and the README is none of them.
LEMMA PathFacts ==
  ASSUME NEW r \in Runs
  PROVE /\ Len(Paths(r)) \in Nat /\ 1 <= Len(Paths(r))
        /\ \A k \in 1..Len(Paths(r)) : Paths(r)[k] \in Slots /\ Paths(r)[k] \in ToSet(Paths(r)) /\ Paths(r)[k] # Readme
        /\ \A s \in ToSet(Paths(r)) : \E k \in 1..Len(Paths(r)) : Paths(r)[k] = s
        /\ Paths(r)[1] = Sums /\ Sums \in Slots /\ Sums # Readme
<1>1. Paths(r) \in Seq(Slots) /\ Paths(r) # <<>> /\ Paths(r)[1] = Sums
  BY ChecksumsComeFirst DEF Paths, Sums
<1>2. Len(Paths(r)) \in Nat /\ DOMAIN Paths(r) = 1..Len(Paths(r))
  BY <1>1, LenProperties
<1>3. 1 <= Len(Paths(r))
  BY <1>1, <1>2, EmptySeq
<1>4. \A k \in 1..Len(Paths(r)) : Paths(r)[k] \in Slots
  BY <1>1, ElementOfSeq
<1>5. Readme \notin ToSet(Paths(r))
  BY TheReadmeIsNotManaged DEF Paths
<1>6. ToSet(Paths(r)) = {Paths(r)[k] : k \in 1..Len(Paths(r))}
  BY <1>2 DEF ToSet
<1>7. 1 \in 1..Len(Paths(r))
  BY <1>2, <1>3
<1> QED
  BY <1>1, <1>2, <1>3, <1>4, <1>5, <1>6, <1>7

\* A file has one writer.
LEMMA ByFacts ==
  ASSUME NEW q \in Runs, NEW x, By(q, x)
  PROVE /\ x.by = q /\ IsFile(x) /\ x \in Written /\ x.bytes \in FileBytes /\ x \notin NoFiles
        /\ x = [by |-> q, bytes |-> x.bytes]
        /\ \A p \in Runs : By(p, x) => p = q
<1>1. x \in Written /\ x.by = q /\ x.bytes \in FileBytes /\ x = [by |-> q, bytes |-> x.bytes]
  BY DEF By, Written
<1>2. \A p \in Runs : By(p, x) => p = q
  BY <1>1 DEF By
<1> QED
  BY <1>1, <1>2, NamesAreNoFiles DEF NoFiles, IsFile

LEMMA MadeBy ==
  ASSUME NEW q \in Runs, NEW b \in FileBytes
  PROVE By(q, [by |-> q, bytes |-> b]) /\ [by |-> q, bytes |-> b] \in Written
BY DEF By, Written

LEMMA EmptyIsBytes == Empty \in FileBytes /\ Corpus \in FileBytes
BY DEF FileBytes

LEMMA MadeEmpty ==
  ASSUME NEW q \in Runs
  PROVE By(q, [by |-> q, bytes |-> Empty])
BY MadeBy, EmptyIsBytes

\* What a step puts into a directory is there, and the rest is as it was.
LEMMA NowHeld ==
  ASSUME holds \in [Directories -> [Slots -> NoFiles \cup Written]],
         NEW d \in Directories, NEW s \in Slots, NEW x \in Written, Put(d, s, x)
  PROVE /\ holds' \in [Directories -> [Slots -> NoFiles \cup Written]]
        /\ holds'[d][s] = x
        /\ \A e \in Directories, t \in Slots : (e # d \/ t # s) => holds'[e][t] = holds[e][t]
<1>1. PICK h : h = holds[d]
  OBVIOUS
<1>2. h \in [Slots -> NoFiles \cup Written]
  BY <1>1
<1>3. PICK g : g = [h EXCEPT ![s] = x]
  OBVIOUS
<1>4. g \in [Slots -> NoFiles \cup Written] /\ g[s] = x /\ \A t \in Slots : t # s => g[t] = h[t]
  BY <1>2, <1>3
<1>5. holds' = [holds EXCEPT ![d] = g]
  BY <1>1, <1>3 DEF Put
<1> QED
  BY <1>1, <1>4, <1>5

\* What a page or the checksums hold once they are written.
LEMMA ExpectedBytes ==
  ASSUME TypeOK, NEW r \in Runs, NEW s, Len(managed[r]) = Len(ScenarioInputs) \/ OfCorpus(r)
  PROVE Expected(r, s) \in FileBytes
<1>1. CASE OfCorpus(r)
  BY <1>1, EmptyIsBytes DEF Expected
<1>2. CASE ~OfCorpus(r)
  <2>1. Len(managed[r]) = Len(ScenarioInputs) /\ Expected(r, s) = ReportBytes(managed[r], s)
    BY <1>2 DEF Expected
  <2>2. managed[r] \in Seq(Entered) /\ DOMAIN managed[r] = 1..Len(managed[r])
    BY LenProperties DEF TypeOK, ReadingOK
  <2>3. DOMAIN ScenarioInputs = 1..Len(ScenarioInputs)
    BY ScenariosHaveInputs, LenProperties
  <2>4. CASE \E k \in DOMAIN PageOf : PageOf[k] = s
    <3>1. PICK k : k = CHOOSE j \in DOMAIN PageOf : PageOf[j] = s
      OBVIOUS
    <3>2. k \in DOMAIN PageOf
      BY <2>4, <3>1
    <3>3. k \in 1..Len(managed[r])
      BY <2>1, <2>3, <3>2, EveryPageHasAScenario
    <3>4. managed[r][k] \in Entered
      BY <2>2, <3>3, ElementOfSeq
    <3>5. managed[r][k].report \in Seq(Copied)
      BY <3>4 DEF Entered
    <3>6. ReportBytes(managed[r], s) = [page |-> managed[r][k].report]
      BY <2>4, <3>1 DEF ReportBytes
    <3> QED
      BY <2>1, <3>5, <3>6 DEF FileBytes
  <2>5. CASE ~\E k \in DOMAIN PageOf : PageOf[k] = s
    <3>1. ReportBytes(managed[r], s) \in {[manifest |-> managed[r]], [sums |-> managed[r]]}
      BY <2>5 DEF ReportBytes
    <3> QED
      BY <2>1, <2>2, <3>1 DEF FileBytes
  <2> QED
    BY <2>4, <2>5
<1> QED
  BY <1>1, <1>2

\* The checksums of a corpus are not those of reports.
LEMMA ExpectedSums ==
  ASSUME TypeOK, NEW r \in Runs
  PROVE /\ OfCorpus(r) => Expected(r, Sums) = Corpus
        /\ ~OfCorpus(r) => Expected(r, Sums) \in [sums : Seq(Entered)]
<1>1. ReportBytes(managed[r], Sums) = [sums |-> managed[r]]
  BY ChecksumsComeFirst DEF ReportBytes, Sums
<1>2. managed[r] \in Seq(Entered)
  BY DEF TypeOK, ReadingOK
<1> QED
  BY <1>1, <1>2 DEF Expected

-----------------------------------------------------------------------------
(* What a run may do to the files of others: nothing but add its own. *)
Adds(q) ==
  /\ holds' \in [Directories -> [Slots -> NoFiles \cup Written]]
  /\ \A d \in Directories, s \in Slots :
       \/ holds'[d][s] = holds[d][s]
       \/ /\ q \in Runs /\ s # Readme /\ By(q, holds'[d][s])
          /\ holds[d][s] = Absent \/ holds[d][s] = [by |-> q, bytes |-> Empty]
  /\ UNCHANGED <<request, others>>
  /\ Settled => (place \in Directories => place' = place)

Stays(r) ==
  /\ pc'[r] = pc[r] /\ exit'[r] = exit[r] /\ number'[r] = number[r] /\ fd'[r] = fd[r]
  /\ listing'[r] = listing[r] /\ managed'[r] = managed[r] /\ found'[r] = found[r]

\* What there is stays of its kind: a step adds files, and fills those it added.
LEMMA Stable ==
  ASSUME OutputOK, NEW q, Adds(q), NEW d \in Directories, NEW s \in Slots
  PROVE /\ holds'[d][s] = Absent => holds[d][s] = Absent
        /\ holds[d][s] # Absent => (holds'[d][s] = Folder <=> holds[d][s] = Folder)
        /\ IsFile(holds[d][s]) => IsFile(holds'[d][s])
        /\ IsFile(holds'[d][s]) => IsFile(holds[d][s]) \/ ByARun(holds'[d][s])
        /\ ByARun(holds[d][s]) => ByARun(holds'[d][s])
        /\ Full(holds[d][s]) => holds'[d][s] = holds[d][s]
        /\ \A r \in Runs \ {q} : By(r, holds[d][s]) \/ By(r, holds'[d][s]) => holds'[d][s] = holds[d][s]
        /\ holds[d][s] = Absent => holds'[d][s] = Absent \/ ByARun(holds'[d][s])
        /\ s = Readme => holds'[d][s] = holds[d][s]
<1>1. CASE holds'[d][s] = holds[d][s]
  BY <1>1
<1>2. CASE /\ q \in Runs /\ s # Readme /\ By(q, holds'[d][s])
           /\ holds[d][s] = Absent \/ holds[d][s] = [by |-> q, bytes |-> Empty]
  <2>1. /\ ByARun(holds'[d][s]) /\ IsFile(holds'[d][s]) /\ holds'[d][s] \notin NoFiles
        /\ \A r \in Runs : By(r, holds'[d][s]) => r = q
    BY <1>2, ByFacts DEF ByARun
  <2>2. holds'[d][s] # Absent /\ holds'[d][s] # Folder
    BY <2>1 DEF NoFiles
  <2>3. CASE holds[d][s] = Absent
    <3>1. \A r \in Runs : ~By(r, holds[d][s])
      BY <2>3, ByFacts DEF NoFiles
    <3>2. ~IsFile(holds[d][s])
      BY <2>3 DEF IsFile
    <3> QED
      BY <1>2, <2>1, <2>2, <2>3, <3>1, <3>2 DEF Full, ByARun
  <2>4. CASE holds[d][s] = [by |-> q, bytes |-> Empty]
    <3>1. By(q, holds[d][s])
      BY <1>2, <2>4, MadeEmpty
    <3>2. /\ IsFile(holds[d][s]) /\ holds[d][s] \notin NoFiles /\ \A r \in Runs : By(r, holds[d][s]) => r = q
      BY <1>2, <3>1, ByFacts
    <3>3. holds[d][s] # Absent /\ holds[d][s] # Folder /\ holds[d][s].bytes = Empty
      BY <2>4, <3>2 DEF NoFiles
    <3> QED
      BY <1>2, <2>1, <2>2, <3>2, <3>3 DEF Full
  <2> QED
    BY <1>2, <2>3, <2>4
<1> QED
  BY <1>1, <1>2 DEF Adds

\* Small facts of arithmetic that the provers need by themselves.
LEMMA Within ==
  ASSUME NEW n \in Nat, NEW l \in Nat, n <= l, NEW k \in 1..n
  PROVE k \in 1..l
OBVIOUS

LEMMA NotYetAll ==
  ASSUME NEW n \in Nat, NEW l \in Nat, n <= l, n # l
  PROVE n < l
OBVIOUS

LEMMA NextPath ==
  ASSUME NEW n \in Nat, NEW l \in Nat, n < l
  PROVE n + 1 \in 1..l
OBVIOUS

\* Whoever stays where it is keeps what it knows of its directory when another run adds to it.
LEMMA StaysDirects ==
  ASSUME TypeOK, OutputOK, NEW q, Adds(q), NEW r \in Runs \ {q}, Stays(r), Directs(r)
  PROVE Directs(r)'
<1> SUFFICES ASSUME Settled \/ ~OfCorpus(r) PROVE (Reaches(r) /\ Generates(r) /\ Walks(r) /\ Compares(r))'
  BY DEF Adds, Directs, Settled, OfCorpus
<1>1. Reaches(r) /\ Generates(r) /\ Walks(r) /\ Compares(r)
  BY DEF Directs
<1>2. /\ OfCorpus(r)' = OfCorpus(r) /\ Checking(r)' = Checking(r) /\ Paths(r)' = Paths(r)
      /\ Generating(r)' = Generating(r) /\ Walking(r)' = Walking(r) /\ Comparing(r)' = Comparing(r)
      /\ Counted(r)' = Counted(r)
  BY DEF Adds, Stays, OfCorpus, Checking, Paths, Generating, Walking, Comparing, Counted, Succeeds
<1>3. \A s : Expected(r, s)' = Expected(r, s)
  BY <1>2 DEF Stays, Expected
<1>4. Target(r) \in Directories => Target(r)' = Target(r)
  BY <1>2 DEF Adds, Stays, Target
<1>5. number[r] \in Nat /\ Len(Paths(r)) \in Nat
  BY PathFacts DEF TypeOK, ControlOK
<1>51. Reaches(r)'
  BY <1>1, <1>4 DEF Reaches, Stays
<1>6. Generates(r)'
  <2> SUFFICES ASSUME Generating(r) PROVE Generates(r)'
    BY <1>2 DEF Generates
  <2>1. Target(r) \in Directories /\ Counted(r) /\ Target(r)' = Target(r)
    BY <1>1, <1>4 DEF Generates
  <2>2. ASSUME NEW k \in 1..number[r]
        PROVE LET x == holds'[Target(r)][Paths(r)[k]] IN By(r, x) /\ x.bytes = Expected(r, Paths(r)[k])
    <3>1. k \in 1..Len(Paths(r))
      BY <1>5, <2>1, Within DEF Counted
    <3>2. Paths(r)[k] \in Slots
      BY <3>1, PathFacts
    <3>3. By(r, holds[Target(r)][Paths(r)[k]]) /\ holds[Target(r)][Paths(r)[k]].bytes = Expected(r, Paths(r)[k])
      BY <1>1 DEF Generates
    <3>4. holds'[Target(r)][Paths(r)[k]] = holds[Target(r)][Paths(r)[k]]
      BY <2>1, <3>2, <3>3, Stable
    <3> QED
      BY <3>3, <3>4
  <2>3. ASSUME pc[r] \in {"corpus-fill", "page-fill"}
        PROVE fd[r] = Target(r) /\ holds'[Target(r)][Paths(r)[number[r] + 1]] = [by |-> r, bytes |-> Empty]
    <3>1. number[r] + 1 \in 1..Len(Paths(r))
      BY <1>5, <2>1, <2>3, NextPath DEF Counted
    <3>2. /\ Paths(r)[number[r] + 1] \in Slots /\ fd[r] = Target(r)
          /\ holds[Target(r)][Paths(r)[number[r] + 1]] = [by |-> r, bytes |-> Empty]
      BY <1>1, <2>3, <3>1, PathFacts DEF Generates
    <3>3. By(r, holds[Target(r)][Paths(r)[number[r] + 1]])
      BY <3>2, MadeEmpty
    <3> QED
      BY <2>1, <3>2, <3>3, Stable
  <2>4. ASSUME NEW s \in Slots \ {Readme}
        PROVE holds'[Target(r)][s] = Absent \/ ByARun(holds'[Target(r)][s])
    BY <1>1, <2>1, Stable DEF Generates
  <2> QED
    BY <1>2, <1>3, <2>1, <2>2, <2>3, <2>4 DEF Generates, Stays, ByARun
<1>7. Walks(r)'
  <2> SUFFICES ASSUME Walking(r) PROVE Walks(r)'
    BY <1>2 DEF Walks
  <2>1. Target(r) \in Directories /\ Target(r)' = Target(r)
    BY <1>1, <1>4 DEF Walks
  <2>2. ASSUME NEW e \in listing[r].entries
        PROVE /\ holds'[Target(r)][e.name] # Absent
              /\ e.folder <=> holds'[Target(r)][e.name] = Folder
              /\ e \notin listing[r].left => IsFile(holds'[Target(r)][e.name]) \/ (OfCorpus(r) /\ e.folder)
    <3>1. e.name \in Slots
      BY DEF OutputOK
    <3>2. /\ holds[Target(r)][e.name] # Absent
          /\ e.folder <=> holds[Target(r)][e.name] = Folder
          /\ e \notin listing[r].left => IsFile(holds[Target(r)][e.name]) \/ (OfCorpus(r) /\ e.folder)
      BY <1>1 DEF Walks
    <3> QED
      BY <2>1, <3>1, <3>2, Stable
  <2>3. ASSUME NEW s \in Slots
        PROVE \/ holds'[Target(r)][s] = Absent \/ ByARun(holds'[Target(r)][s])
              \/ \E e \in listing[r].entries : e.name = s
    BY <1>1, <2>1, Stable DEF Walks
  <2> QED
    BY <1>2, <2>1, <2>2, <2>3 DEF Walks, Stays, ByARun
<1>8. Compares(r)'
  <2> SUFFICES ASSUME Comparing(r) PROVE Compares(r)'
    BY <1>2 DEF Compares
  <2>1. Target(r) \in Directories /\ Counted(r) /\ Target(r)' = Target(r)
    BY <1>1, <1>4 DEF Compares
  <2>2. ASSUME NEW k \in 1..number[r]
        PROVE LET x == holds'[Target(r)][Paths(r)[k]] IN Full(x) /\ x.bytes = Expected(r, Paths(r)[k])
    <3>1. k \in 1..Len(Paths(r))
      BY <1>5, <2>1, Within DEF Counted
    <3> QED
      BY <1>1, <2>1, <3>1, PathFacts, Stable, ZenonT(60) DEF Compares
  <2>3. ASSUME pc[r] \in {"corpus-read", "reports-read"}
        PROVE Full(holds'[Target(r)][Paths(r)[number[r] + 1]])
    <3>1. number[r] + 1 \in 1..Len(Paths(r))
      BY <1>5, <2>1, <2>3, NextPath DEF Counted
    <3> QED
      BY <1>1, <2>1, <2>3, <3>1, PathFacts, Stable DEF Compares
  <2>4. ASSUME NEW s \in Slots, IsFile(holds'[Target(r)][s])
        PROVE s \in ToSet(Paths(r)) \/ ByARun(holds'[Target(r)][s]) \/ (OfCorpus(r) /\ s = Readme)
    BY <1>1, <2>1, <2>4, Stable DEF Compares
  <2> QED
    BY <1>2, <1>3, <2>1, <2>2, <2>3, <2>4, ZenonT(60) DEF Compares, Stays, ByARun, Full, IsFile
<1> QED
  BY <1>51, <1>6, <1>7, <1>8

\* What was found stays, and files keep their writers.
LEMMA StaysGrown ==
  ASSUME OutputOK, NEW q, Adds(q), NEW r \in Runs, found'[r] = found[r], pc[r] # "begin" \/ pc'[r] = "begin", Grown(r)
  PROVE Grown(r)'
<1> SUFFICES ASSUME pc'[r] # "begin", NEW d \in Directories, NEW s \in Slots
             PROVE /\ holds'[d][s] = Absent => found[r].holds[d][s] = Absent
                   /\ s = Readme => holds'[d][s] = found[r].holds[d][s]
  BY DEF Grown
<1> QED
  BY Stable DEF Grown

LEMMA StaysOwned ==
  ASSUME OutputOK, NEW q, Adds(q), NEW r \in Runs \ {q}, Owned(r)
  PROVE Owned(r)'
<1>1. OfCorpus(r)' = OfCorpus(r) /\ Checking(r)' = Checking(r) /\ Paths(r)' = Paths(r)
  BY DEF Adds, OfCorpus, Checking, Paths
<1>2. Sums \in Slots
  BY PathFacts
<1> SUFFICES ASSUME NEW d \in Directories, NEW s \in Slots, By(r, holds'[d][s])
             PROVE /\ By(r, holds'[d][Sums]) /\ s \in ToSet(Paths(r)) /\ ~Checking(r)
                   /\ s = Sums => holds'[d][s].bytes \in {Empty} \cup (IF OfCorpus(r) THEN {Corpus} ELSE [sums : Seq(Entered)])
  BY <1>1 DEF Owned, By
<1>3. holds'[d][s] = holds[d][s]
  BY Stable
<1>4. By(r, holds[d][Sums])
  BY <1>3 DEF Owned
<1>5. holds'[d][Sums] = holds[d][Sums]
  BY <1>2, <1>4, Stable
<1> QED
  BY <1>3, <1>4, <1>5 DEF Owned

OnlyRun(q) == \A r \in Runs \ {q} : Stays(r)

\* A step of one run: it is enough to look at that run.
LEMMA DirectsStep ==
  ASSUME TypeOK, DirectoriesInv, NEW q, OnlyRun(q), OutputOK', UNCHANGED <<request, others>>,
         q \in Runs => Deduced(q)',
         Settled \/ Apart =>
           /\ Adds(q)
           /\ q \in Runs => Grown(q)' /\ Owned(q)' /\ Directs(q)'
  PROVE DirectoriesInv'
<1>1. \A r \in Runs : Deduced(r)'
  <2>1. \A r \in Runs : Deduced(r)
    BY DEF DirectoriesInv
  <2>2. ASSUME NEW r \in Runs \ {q} PROVE Deduced(r)'
    <3>1. pc'[r] = pc[r] /\ number'[r] = number[r] /\ managed'[r] = managed[r] /\ request' = request
      BY DEF OnlyRun, Stays
    <3>2. Deduced(r)
      BY <2>1
    <3> QED
      BY <3>1, <3>2 DEF Deduced, OfCorpus
  <2> QED
    BY <2>2
<1>2. ASSUME Settled \/ Apart, NEW r \in Runs PROVE (Grown(r) /\ Owned(r) /\ Directs(r))'
  <2>1. CASE r = q
    BY <1>2, <2>1
  <2>2. CASE r # q
    <3>1. Stays(r) /\ Grown(r) /\ Owned(r) /\ Directs(r) /\ OutputOK /\ Adds(q)
      BY <1>2, <2>2 DEF DirectoriesInv, OnlyRun
    <3>2. Grown(r)'
      BY <3>1, StaysGrown DEF Stays
    <3>3. Owned(r)'
      BY <2>2, <3>1, StaysOwned
    <3>4. Directs(r)'
      BY <2>2, <3>1, StaysDirects
    <3> QED
      BY <3>2, <3>3, <3>4
  <2> QED
    BY <2>1, <2>2
<1>3. Settled' = Settled /\ Apart' = Apart
  BY DEF Settled, Apart
<1> QED
  BY <1>1, <1>2, <1>3 DEF DirectoriesInv

\* A step of q that is none of those at a directory.
Elsewhere(q) ==
  /\ pc[q] # "begin"
  /\ pc'[q] \notin {"corpus-parents", "corpus-create", "corpus-fill", "page", "page-fill", "walked", "reports-entries",
                    "corpus-size", "corpus-read", "reports-size", "reports-read"}
  /\ pc'[q] \in Preparing \cup {"begin"} => Deduced(q)'
  /\ pc'[q] \in {"empty", "walk", "reports-list"} => Target(q)' \in Directories
  /\ exit'[q] # "0" \/ request[q].command \notin Directing
  /\ holds' = holds /\ UNCHANGED <<request, others, found, listing>>
  /\ DOMAIN fd' = Runs
  /\ Settled => (place \in Directories => place' = place)

LEMMA ElsewhereStep ==
  ASSUME TypeOK, DirectoriesInv, NEW q \in Runs, Elsewhere(q), OnlyRun(q)
  PROVE DirectoriesInv'
<1>1. OutputOK'
  BY DEF Elsewhere, DirectoriesInv, OutputOK
<1>2. Deduced(q)'
  BY DEF Elsewhere, Deduced, Preparing
<1>3. Adds(q)
  BY <1>1 DEF Elsewhere, Adds, OutputOK
<1>4. ASSUME Settled \/ Apart PROVE (Grown(q) /\ Owned(q) /\ Directs(q))'
  <2>1. Grown(q) /\ Owned(q) /\ OutputOK
    BY <1>4 DEF DirectoriesInv
  <2>2. Grown(q)'
    BY <1>3, <2>1, StaysGrown DEF Elsewhere
  <2>3. Owned(q)'
    BY <2>1 DEF Elsewhere, Owned, OfCorpus, Checking, Paths, By
  <2>4. ~Generating(q)' /\ ~Walking(q)' /\ ~Comparing(q)'
    BY DEF Elsewhere, Generating, Walking, Comparing, Succeeds
  <2>5. Directs(q)'
    BY <2>4 DEF Elsewhere, Reaches, Directs, Generates, Walks, Compares
  <2> QED
    BY <2>2, <2>3, <2>5
<1> QED
  BY <1>1, <1>2, <1>3, <1>4, DirectsStep DEF Elsewhere

-----------------------------------------------------------------------------
(* The steps of the generators at their directory. *)
\* A directory that is added to is one.
LEMMA PutTyped ==
  ASSUME holds \in [Directories -> [Slots -> NoFiles \cup Written]],
         NEW d \in Directories, NEW s, NEW x \in NoFiles \cup Written, Put(d, s, x)
  PROVE holds' \in [Directories -> [Slots -> NoFiles \cup Written]]
<1>1. PICK h : h = holds[d]
  OBVIOUS
<1>2. h \in [Slots -> NoFiles \cup Written]
  BY <1>1
<1>3. PICK g : g = [h EXCEPT ![s] = x]
  OBVIOUS
<1>4. g \in [Slots -> NoFiles \cup Written]
  BY <1>2, <1>3
<1>5. holds' = [holds EXCEPT ![d] = g]
  BY <1>1, <1>3 DEF Put
<1> QED
  BY <1>4, <1>5

\* The run is at a step and not at its end.
LEMMA Active ==
  ASSUME TypeOK, Tied, NEW q \in Runs, pc[q] # "ended"
  PROVE exit[q] # "0" /\ ~Succeeds(q)
BY DEF Tied, Succeeds

\* Who is at a step of a generator generates.
LEMMA Generator ==
  ASSUME Tied, NEW q \in Runs
  PROVE /\ pc[q] \in {"corpus-generate", "corpus-parents", "corpus-create", "corpus-fill"} =>
             OfCorpus(q) /\ ~Checking(q) /\ ~Apart /\ request[q].command = "corpus-generate"
        /\ pc[q] \in {"reports-target", "empty", "page", "page-fill"} =>
             ~OfCorpus(q) /\ ~Checking(q) /\ request[q].command = "reports-generate"
BY DEF Tied, Tie, OfCorpus, Checking, Apart

Creating(q, next) ==
  \/ pc[q] = "corpus-create" /\ next = "corpus-fill"
  \/ pc[q] = "page" /\ next = "page-fill" /\ number[q] # Len(Paths(q))

\* A file is created: it is the next one, or SHA256SUMS and nobody else has begun.
LEMMA CreateStep ==
  ASSUME TypeOK, Tied, DirectoriesInv, NEW q \in Runs, NEW next, Creating(q, next),
         CreateEntry(q, Target(q), Paths(q)[number[q] + 1], next), UNCHANGED managed
  PROVE DirectoriesInv'
<1> DEFINE s == Paths(q)[number[q] + 1]
           x == [by |-> q, bytes |-> Empty]
<1>1. /\ OutputOK /\ Deduced(q) /\ DOMAIN pc = Runs /\ DOMAIN exit = Runs /\ DOMAIN fd = Runs
      /\ number[q] \in Nat
      /\ UNCHANGED <<request, others, place, number, listing, managed>>
      /\ pc[q] # "ended" /\ pc[q] # "begin" /\ exit[q] # "0"
  BY Active DEF Creating, CreateEntry, circumstances, DirectoriesInv, OutputOK, TypeOK, ControlOK, Tied
<1>2. ~Checking(q) /\ (Apart => ~OfCorpus(q)) /\ (pc[q] = "page" <=> ~OfCorpus(q)) /\ Generating(q)
  BY Generator DEF Creating, Generating
<1>3. CASE ~(Target(q) \in Directories /\ Entry(Target(q), s) = Absent)
  <2>1. Exit(q, "2") /\ UNCHANGED <<holds, fd, found>>
    BY <1>3 DEF CreateEntry, history
  <2>2. pc'[q] = "ended" /\ exit'[q] = "2"
    BY <1>1, <2>1 DEF Exit
  <2>3. Elsewhere(q)
    BY <1>1, <2>1, <2>2 DEF Elsewhere, Preparing
  <2>4. OnlyRun(q)
    BY <1>1, <2>1 DEF OnlyRun, Stays, Exit
  <2> QED
    BY <2>3, <2>4, ElsewhereStep
<1>4. CASE Target(q) \in Directories /\ Entry(Target(q), s) = Absent
  <2>1. /\ Put(Target(q), s, x) /\ Goto(q, next) /\ fd' = [fd EXCEPT ![q] = Target(q)] /\ UNCHANGED found
    BY <1>4 DEF CreateEntry, Disturbs
  <2>2. By(q, x) /\ x \in Written
    BY MadeBy, EmptyIsBytes
  <2>3. OutputOK'
    BY <1>1, <1>4, <2>1, <2>2, PutTyped DEF OutputOK
  <2>4. /\ pc'[q] = next /\ exit' = exit /\ fd'[q] = Target(q) /\ OnlyRun(q)
    BY <1>1, <2>1 DEF OnlyRun, Stays, Goto
  <2>5. Deduced(q)'
    BY <1>1, <2>4 DEF Deduced, Creating, Preparing, OfCorpus
  <2>6. ASSUME Settled \/ Apart PROVE Adds(q) /\ Grown(q)' /\ Owned(q)' /\ Directs(q)'
    <3>1. Settled \/ ~OfCorpus(q)
      BY <1>2, <2>6
    <3>2. Grown(q) /\ Owned(q) /\ Generates(q)
      BY <2>6, <3>1 DEF DirectoriesInv, Directs
    <3>3. /\ number[q] < Len(Paths(q))
          /\ \A k \in 1..number[q] :
               LET y == holds[Target(q)][Paths(q)[k]] IN By(q, y) /\ y.bytes = Expected(q, Paths(q)[k])
          /\ \A t \in Slots \ {Readme} : holds[Target(q)][t] = Absent \/ ByARun(holds[Target(q)][t])
      <4>1. Counted(q)
        BY <1>2, <3>2 DEF Generates
      <4>2. number[q] < Len(Paths(q))
        <5>1. number[q] \in Nat /\ Len(Paths(q)) \in Nat
          BY <1>1, PathFacts
        <5>2. number[q] <= Len(Paths(q))
          BY <4>1 DEF Counted
        <5>3. pc[q] = "corpus-create" \/ number[q] # Len(Paths(q))
          BY DEF Creating
        <5>4. pc[q] = "corpus-create" => number[q] < Len(Paths(q))
          BY <4>1 DEF Counted
        <5> QED
          BY <5>1, <5>2, <5>3, <5>4, NotYetAll
      <4> QED
        BY <1>2, <3>2, <4>2 DEF Generates
    <3>4. number[q] + 1 \in 1..Len(Paths(q))
      BY <1>1, <3>3, PathFacts, NextPath
    <3>5. s \in Slots /\ s # Readme /\ s \in ToSet(Paths(q))
      BY <3>4, PathFacts
    <3>6. /\ holds[Target(q)][s] = Absent /\ holds'[Target(q)][s] = x
          /\ \A d \in Directories, t \in Slots : (d # Target(q) \/ t # s) => holds'[d][t] = holds[d][t]
      BY <1>1, <1>4, <2>1, <2>2, <3>5, NowHeld DEF OutputOK, Entry
    <3>7. Adds(q)
      BY <1>1, <2>2, <2>3, <3>5, <3>6 DEF Adds, OutputOK
    <3>8. Grown(q)'
      BY <1>1, <2>1, <3>2, <3>7, StaysGrown
    <3>9. ~By(q, Absent)
      BY ByFacts DEF NoFiles
    <3>10. \A k \in 1..number[q] : Paths(q)[k] \in Slots /\ Paths(q)[k] # s
      BY <1>1, <3>3, <3>6, <3>9, PathFacts, Within
    <3>11. /\ OfCorpus(q)' = OfCorpus(q) /\ Checking(q)' = Checking(q) /\ Paths(q)' = Paths(q)
           /\ \A t : Expected(q, t)' = Expected(q, t)
      BY <1>1 DEF OfCorpus, Checking, Paths, Expected
    <3>12. By(q, holds'[Target(q)][Sums])
      <4>1. CASE number[q] = 0
        BY <2>2, <3>6, <4>1, PathFacts
      <4>2. CASE number[q] # 0
        <5>1. 1 \in 1..number[q]
          BY <1>1, <4>2
        <5> QED
          BY <1>4, <3>3, <3>6, <3>10, <5>1, PathFacts
      <4> QED
        BY <4>1, <4>2
    <3>13. Owned(q)'
      <4> SUFFICES ASSUME NEW d \in Directories, NEW t \in Slots, By(q, holds'[d][t])
                   PROVE /\ By(q, holds'[d][Sums]) /\ t \in ToSet(Paths(q))
                         /\ t = Sums => holds'[d][t].bytes \in {Empty} \cup (IF OfCorpus(q) THEN {Corpus} ELSE [sums : Seq(Entered)])
        BY <1>2, <3>11 DEF Owned, By
      <4>1. CASE d = Target(q) /\ t = s
        BY <3>5, <3>6, <3>12, <4>1
      <4>2. CASE d # Target(q) \/ t # s
        <5>1. holds'[d][t] = holds[d][t]
          BY <3>6, <4>2
        <5>2. /\ By(q, holds[d][Sums]) /\ t \in ToSet(Paths(q))
              /\ t = Sums => holds[d][t].bytes \in {Empty} \cup (IF OfCorpus(q) THEN {Corpus} ELSE [sums : Seq(Entered)])
          BY <3>2, <5>1 DEF Owned
        <5>3. By(q, holds'[d][Sums])
          <6>1. CASE d = Target(q)
            BY <3>12, <6>1
          <6>2. CASE d # Target(q)
            BY <3>6, <5>2, <6>2, PathFacts
          <6> QED
            BY <6>1, <6>2
        <5> QED
          BY <5>1, <5>2, <5>3
      <4> QED
        BY <4>1, <4>2
    <3>14. Target(q)' = Target(q)
      BY <1>1, <2>4, <3>11 DEF Target
    <3>15. Generates(q)'
      <4>1. Counted(q)'
        <5>1. number[q] \in Nat /\ Len(Paths(q)) \in Nat
          BY <1>1, PathFacts
        <5>2. number'[q] <= Len(Paths(q)) /\ number'[q] < Len(Paths(q)) /\ exit'[q] # "0"
          BY <1>1, <2>4, <3>3, <5>1
        <5> QED
          BY <3>11, <5>2 DEF Counted
      <4>2. \A k \in 1..number[q] :
               LET y == holds'[Target(q)][Paths(q)[k]] IN By(q, y) /\ y.bytes = Expected(q, Paths(q)[k])
        BY <1>4, <3>3, <3>6, <3>10
      <4>3. \A t \in Slots \ {Readme} : holds'[Target(q)][t] = Absent \/ ByARun(holds'[Target(q)][t])
        BY <1>4, <2>2, <3>3, <3>6 DEF ByARun
      <4>4. fd'[q] = Target(q) /\ holds'[Target(q)][Paths(q)[number[q] + 1]] = [by |-> q, bytes |-> Empty]
        BY <2>4, <3>6
      <4>5. number'[q] = number[q]
        BY <1>1
      <4> QED
        BY <1>4, <3>11, <3>14, <4>1, <4>2, <4>3, <4>4, <4>5 DEF Generates, ByARun, By
    <3>16. Reaches(q)' /\ ~Walking(q)' /\ ~Comparing(q)'
      BY <1>1, <2>4 DEF Reaches, Walking, Comparing, Succeeds, Creating
    <3> QED
      BY <3>7, <3>8, <3>13, <3>15, <3>16 DEF Directs, Walks, Compares
  <2> QED
    BY <1>1, <2>3, <2>4, <2>5, <2>6, DirectsStep
<1> QED
  BY <1>3, <1>4

Filling(q, next) ==
  \/ pc[q] = "corpus-fill" /\ next = "corpus-parents"
  \/ pc[q] = "page-fill" /\ next = "page"

\* A file is filled: it is the one that was created.
LEMMA FillStep ==
  ASSUME TypeOK, Tied, DirectoriesInv, NEW q \in Runs, NEW next, Filling(q, next), NEW s, s = Paths(q)[number[q] + 1],
         FillEntry(q, s, Expected(q, s), next), UNCHANGED managed
  PROVE DirectoriesInv'
<1> DEFINE x == [by |-> q, bytes |-> Expected(q, s)]
<1>1. /\ OutputOK /\ Deduced(q) /\ DOMAIN pc = Runs /\ DOMAIN exit = Runs /\ DOMAIN fd = Runs
      /\ number[q] \in Nat
      /\ UNCHANGED <<request, others, place, fd, listing, managed, found>> /\ Goto(q, next) /\ Advance(q)
      /\ pc[q] # "ended" /\ pc[q] # "begin" /\ exit[q] # "0"
  BY Active DEF Filling, FillEntry, circumstances, DirectoriesInv, OutputOK, TypeOK, ControlOK, Tied, Disturbs, history
<1>2. ~Checking(q) /\ (Apart => ~OfCorpus(q)) /\ (pc[q] = "page-fill" <=> ~OfCorpus(q)) /\ Generating(q)
  BY Generator DEF Filling, Generating
<1>3. Expected(q, s) \in FileBytes
  BY <1>1, <1>2, ExpectedBytes DEF Deduced, Filling
<1>4. By(q, x) /\ x \in Written
  BY <1>3, MadeBy
<1>5. /\ pc'[q] = next /\ exit' = exit /\ number'[q] = number[q] + 1 /\ fd'[q] = fd[q] /\ OnlyRun(q)
  BY <1>1 DEF OnlyRun, Stays, Goto, Advance, TypeOK, ControlOK
<1>6. \/ Put(fd[q], s, x) /\ fd[q] \in Directories /\ Entry(fd[q], s) = [by |-> q, bytes |-> Empty]
      \/ UNCHANGED holds /\ Entry(fd[q], s) # [by |-> q, bytes |-> Empty]
  <2>1. [by |-> q, bytes |-> Empty] # Absent
    BY MadeEmpty, ByFacts DEF NoFiles
  <2> QED
    BY <2>1 DEF FillEntry, Entry
<1>7. OutputOK'
  BY <1>1, <1>4, <1>6, PutTyped DEF OutputOK
<1>8. Deduced(q)'
  BY <1>1, <1>2, <1>5 DEF Deduced, Filling, Preparing, OfCorpus
<1>9. ASSUME Settled \/ Apart PROVE Adds(q) /\ Grown(q)' /\ Owned(q)' /\ Directs(q)'
  <2>1. Settled \/ ~OfCorpus(q)
    BY <1>2, <1>9
  <2>2. Grown(q) /\ Owned(q) /\ Generates(q)
    BY <1>9, <2>1 DEF DirectoriesInv, Directs
  <2>3. /\ Target(q) \in Directories /\ fd[q] = Target(q) /\ Counted(q)
        /\ holds[Target(q)][s] = [by |-> q, bytes |-> Empty]
        /\ \A k \in 1..number[q] :
             LET y == holds[Target(q)][Paths(q)[k]] IN By(q, y) /\ y.bytes = Expected(q, Paths(q)[k])
        /\ \A t \in Slots \ {Readme} : holds[Target(q)][t] = Absent \/ ByARun(holds[Target(q)][t])
    BY <1>2, <2>2 DEF Generates, Filling
  <2>4. number[q] + 1 \in 1..Len(Paths(q))
    <3>1. number[q] \in Nat /\ Len(Paths(q)) \in Nat
      BY <1>1, PathFacts
    <3>2. number[q] < Len(Paths(q))
      BY <2>3 DEF Counted, Filling
    <3> QED
      BY <3>1, <3>2, NextPath
  <2>5. s \in Slots /\ s # Readme /\ s \in ToSet(Paths(q))
    BY <2>4, PathFacts
  <2>6. /\ holds'[Target(q)][s] = x
        /\ \A d \in Directories, t \in Slots : (d # Target(q) \/ t # s) => holds'[d][t] = holds[d][t]
    <3>1. Put(Target(q), s, x)
      BY <1>6, <2>3 DEF Entry
    <3> QED
      BY <1>1, <1>4, <2>3, <2>5, <3>1, NowHeld DEF OutputOK
  <2>7. Adds(q)
    BY <1>1, <1>4, <1>7, <2>3, <2>5, <2>6 DEF Adds, OutputOK
  <2>8. Grown(q)'
    BY <1>1, <2>2, <2>7, StaysGrown
  <2>9. /\ OfCorpus(q)' = OfCorpus(q) /\ Checking(q)' = Checking(q) /\ Paths(q)' = Paths(q)
        /\ \A t : Expected(q, t)' = Expected(q, t)
    BY <1>1 DEF OfCorpus, Checking, Paths, Expected
  <2>10. By(q, holds[Target(q)][s])
    BY <2>3, MadeEmpty
  <2>11. By(q, holds'[Target(q)][Sums])
    <3>1. By(q, holds[Target(q)][Sums])
      BY <2>2, <2>3, <2>5, <2>10 DEF Owned
    <3> QED
      BY <1>4, <2>3, <2>6, <3>1, PathFacts
  <2>12. Owned(q)'
    <3> SUFFICES ASSUME NEW d \in Directories, NEW t \in Slots, By(q, holds'[d][t])
                 PROVE /\ By(q, holds'[d][Sums]) /\ t \in ToSet(Paths(q))
                       /\ t = Sums => holds'[d][t].bytes \in {Empty} \cup (IF OfCorpus(q) THEN {Corpus} ELSE [sums : Seq(Entered)])
      BY <1>2, <2>9 DEF Owned, By
    <3>1. CASE d = Target(q) /\ t = s
      <4>1. holds'[d][t].bytes = Expected(q, s)
        BY <2>6, <3>1
      <4> QED
        BY <2>5, <2>11, <3>1, <4>1, ExpectedSums
    <3>2. CASE d # Target(q) \/ t # s
      <4>1. holds'[d][t] = holds[d][t]
        BY <2>6, <3>2
      <4>2. /\ By(q, holds[d][Sums]) /\ t \in ToSet(Paths(q))
            /\ t = Sums => holds[d][t].bytes \in {Empty} \cup (IF OfCorpus(q) THEN {Corpus} ELSE [sums : Seq(Entered)])
        BY <2>2, <4>1 DEF Owned
      <4>3. By(q, holds'[d][Sums])
        <5>1. CASE d = Target(q)
          BY <2>11, <5>1
        <5>2. CASE d # Target(q)
          BY <2>6, <4>2, <5>2, PathFacts
        <5> QED
          BY <5>1, <5>2
      <4> QED
        BY <4>1, <4>2, <4>3
    <3> QED
      BY <3>1, <3>2
  <2>13. Target(q)' = Target(q)
    BY <1>1, <1>5, <2>9 DEF Target
  <2>14. Generates(q)'
    <3>1. Counted(q)'
      <4>1. number'[q] <= Len(Paths(q))
        BY <1>5, <2>4
      <4> QED
        BY <1>1, <1>5, <2>9, <4>1 DEF Counted, Filling
    <3>2. ASSUME NEW k \in 1..(number[q] + 1)
          PROVE LET y == holds'[Target(q)][Paths(q)[k]] IN By(q, y) /\ y.bytes = Expected(q, Paths(q)[k])
      <4>1. CASE Paths(q)[k] = s
        BY <1>4, <2>6, <4>1
      <4>2. CASE Paths(q)[k] # s
        <5>1. k # number[q] + 1
          BY <4>2
        <5>2. k \in 1..number[q]
          BY <1>1, <5>1
        <5>3. k \in 1..Len(Paths(q))
          BY <1>1, <2>4, <3>2, PathFacts, Within
        <5>4. Paths(q)[k] \in Slots
          BY <5>3, PathFacts
        <5> QED
          BY <2>3, <2>6, <4>2, <5>2, <5>4
      <4> QED
        BY <4>1, <4>2
    <3>3. \A t \in Slots \ {Readme} : holds'[Target(q)][t] = Absent \/ ByARun(holds'[Target(q)][t])
      BY <1>4, <2>3, <2>6 DEF ByARun
    <3>4. pc'[q] \notin {"corpus-fill", "page-fill"}
      BY <1>5 DEF Filling
    <3>5. number'[q] = number[q] + 1 /\ Target(q) \in Directories
      BY <1>5, <2>3
    <3> QED
      BY <2>9, <2>13, <3>1, <3>2, <3>3, <3>4, <3>5 DEF Generates, ByARun, By
  <2>15. Reaches(q)' /\ ~Walking(q)' /\ ~Comparing(q)'
    BY <1>1, <1>5 DEF Reaches, Walking, Comparing, Succeeds, Filling
  <2> QED
    BY <2>7, <2>8, <2>12, <2>14, <2>15 DEF Directs, Walks, Compares
<1> QED
  BY <1>1, <1>5, <1>7, <1>8, <1>9, DirectsStep

-----------------------------------------------------------------------------
(* Steps that only look. *)
Glances(q) ==
  /\ pc[q] # "begin" /\ holds' = holds /\ UNCHANGED <<request, others, found>>
  /\ Settled => (place \in Directories => place' = place)

\* A step that leaves the directories alone.
LEMMA GlanceStep ==
  ASSUME TypeOK, DirectoriesInv, NEW q \in Runs, Glances(q), OnlyRun(q), OutputOK', Deduced(q)',
         Settled \/ Apart => Directs(q)'
  PROVE DirectoriesInv'
<1>1. Adds(q)
  BY DEF Glances, Adds, OutputOK
<1>2. ASSUME Settled \/ Apart PROVE (Grown(q) /\ Owned(q))'
  <2>1. Grown(q) /\ Owned(q) /\ OutputOK
    BY <1>2 DEF DirectoriesInv
  <2>2. Grown(q)'
    BY <1>1, <2>1, StaysGrown DEF Glances
  <2>3. Owned(q)'
    BY <2>1 DEF Glances, Owned, OfCorpus, Checking, Paths, By
  <2> QED
    BY <2>2, <2>3
<1> QED
  BY <1>1, <1>2, DirectsStep DEF Glances

\* A step of a run leaves the others where they are.
LEMMA OneMoves ==
  ASSUME TypeOK, Tied, NEW q \in Runs, UNCHANGED <<number, fd, listing, managed, found>>, NEW s, Goto(q, s) \/ Exit(q, s)
  PROVE OnlyRun(q)
<1>1. ASSUME NEW r \in Runs \ {q} PROVE pc'[r] = pc[r] /\ exit'[r] = exit[r]
  <2>1. DOMAIN pc = Runs /\ DOMAIN exit = Runs
    BY DEF TypeOK, ControlOK, Tied
  <2> QED
    BY <2>1 DEF Goto, Exit
<1> QED
  BY <1>1 DEF OnlyRun, Stays

\* Where a run is after it went there.
LEMMA Went ==
  ASSUME TypeOK, Tied, NEW q \in Runs
  PROVE /\ \A s : Goto(q, s) => pc'[q] = s /\ exit'[q] = exit[q]
        /\ \A e : Exit(q, e) => pc'[q] = "ended" /\ exit'[q] = e
BY DEF Goto, Exit, TypeOK, ControlOK, Tied

\* The steps before a directory is looked into.
LEMMA ValidateTargetDirects ==
  ASSUME TypeOK, Tied, DirectoriesInv, NEW q \in Runs, NEW step \in {"corpus-generate", "reports-target"}, ValidateTarget(q, step),
         UNCHANGED managed
  PROVE DirectoriesInv'
<1>1. /\ Check(q, request[q].valid /\ place # Symlink, "look", "2") /\ pc[q] \in Preparing /\ pc[q] # "begin"
      /\ UNCHANGED <<number, fd, listing, managed, found, holds, place, request, others>>
  BY DEF ValidateTarget, Looks, At, outputs, circumstances, walking, history, Preparing
<1>2. OnlyRun(q)
  <2>1. Goto(q, "look") \/ Exit(q, "2")
    BY <1>1 DEF Check
  <2> QED
    BY <1>1, <2>1, OneMoves
<1>3. (pc'[q] = "look" /\ exit'[q] = exit[q]) \/ (pc'[q] = "ended" /\ exit'[q] = "2")
  BY <1>1, Went DEF Check
<1>4. exit[q] # "0" /\ Deduced(q)
  BY <1>1, Active DEF Preparing, DirectoriesInv
<1>5. Deduced(q)'
  BY <1>1, <1>3, <1>4 DEF Deduced, Preparing, OfCorpus
<1>6. Elsewhere(q)
  BY <1>1, <1>3, <1>4, <1>5 DEF Elsewhere, DirectoriesInv, OutputOK
<1> QED
  BY <1>2, <1>6, ElsewhereStep

LEMMA TargetDirects ==
  ASSUME TypeOK, Tied, DirectoriesInv, NEW q \in Runs, UNCHANGED managed,
         LookAtTarget(q) \/ (MakeTarget(q) /\ pc'[q] # "corpus-parents")
  PROVE DirectoriesInv'
<1>1. /\ pc[q] \in {"look", "mkdir"} /\ pc[q] \in Preparing
      /\ UNCHANGED <<number, fd, listing, managed, found, holds, request, others>>
      /\ place \in Directories => place' = place
  BY PlacesDiffer DEF LookAtTarget, MakeTarget, MakePlace, Disturbs, Looks, At, outputs, circumstances, walking, history, Preparing
<1>2. \/ \E s \in {"mkdir", "prepare"} : Goto(q, s)
      \/ Goto(q, "corpus-parents") /\ pc'[q] # "corpus-parents"
      \/ Exit(q, "2")
  BY DEF LookAtTarget, MakeTarget, Check
<1>3. OnlyRun(q)
  BY <1>1, <1>2, OneMoves
<1>4. (pc'[q] \in {"mkdir", "prepare"} /\ exit'[q] = exit[q]) \/ (pc'[q] = "ended" /\ exit'[q] = "2")
  BY <1>2, Went
<1>5. exit[q] # "0" /\ Deduced(q)
  BY <1>1, Active DEF DirectoriesInv
<1>6. Deduced(q)'
  BY <1>1, <1>4, <1>5 DEF Deduced, Preparing, OfCorpus
<1>7. Elsewhere(q)
  BY <1>1, <1>4, <1>5, <1>6 DEF Elsewhere, DirectoriesInv, OutputOK
<1> QED
  BY <1>3, <1>7, ElsewhereStep

\* The directory that a corpus has just made is empty.
LEMMA FreshTargetDirects ==
  ASSUME TypeOK, Tied, UsedInv, DirectoriesInv, NEW q \in Runs, MakeTarget(q), pc'[q] = "corpus-parents", UNCHANGED managed
  PROVE DirectoriesInv'
<1>1. /\ pc[q] = "mkdir" /\ pc[q] \in Preparing /\ pc[q] # "begin" /\ pc[q] # "ended"
      /\ UNCHANGED <<number, fd, listing, managed, found, holds, request, others>>
  BY DEF MakeTarget, MakePlace, Disturbs, At, outputs, circumstances, walking, history, Preparing
<1>2. place = Absent /\ MakePlace(q) /\ Goto(q, "corpus-parents") /\ request[q].command = "corpus-generate"
  <2>1. \A s : Goto(q, s) => s = "corpus-parents"
    BY Went
  <2>2. ~Exit(q, "2")
    BY Went
  <2> QED
    BY <2>1, <2>2 DEF MakeTarget
<1>3. PICK d \in Directories \ used : place' = d
  BY <1>2 DEF MakePlace
<1>4. exit'[q] = exit[q] /\ exit[q] # "0"
  BY <1>1, <1>2, Went, Active
<1>5. OfCorpus(q)' /\ ~Checking(q)' /\ Target(q)' = d /\ number'[q] = 0 /\ Len(Paths(q)') \in Nat
  <2>1. number[q] = 0
    BY <1>1 DEF DirectoriesInv, Deduced
  <2>2. OfCorpus(q) /\ OfCorpus(q)' /\ ~Checking(q)'
    BY <1>1, <1>2 DEF OfCorpus, Checking
  <2>3. Paths(q)' = Paths(q) /\ Len(Paths(q)) \in Nat
    BY <1>1, <2>2, PathFacts DEF Paths, TypeOK, ControlOK
  <2> QED
    BY <1>1, <1>3, <2>1, <2>2, <2>3 DEF Target
<1>6. Deduced(q)'
  BY <1>5 DEF Deduced, Preparing
<1>7. Counted(q)'
  BY <1>4, <1>5, Went, <1>2 DEF Counted
<1>8. Generates(q)'
  <2>1. \A k \in 1..number'[q] : FALSE
    BY <1>5
  <2>2. \A s \in Slots : holds'[d][s] = Absent
    BY <1>1, <1>3 DEF UsedInv
  <2> QED
    BY <1>3, <1>5, <1>7, <2>1, <2>2 DEF Generates
<1>9. Reaches(q)' /\ ~Walking(q)' /\ ~Comparing(q)'
  BY <1>4, <1>5 DEF Reaches, Walking, Comparing, Succeeds
<1>10. Glances(q) /\ OutputOK'
  BY <1>1, <1>2, PlacesDiffer DEF Glances, DirectoriesInv, OutputOK
<1>11. OnlyRun(q)
  BY <1>1, <1>2, OneMoves
<1> QED
  BY <1>6, <1>8, <1>9, <1>10, <1>11, GlanceStep DEF Directs, Walks, Compares

\* A step that leaves all but the place in the program.
Halts(q) == pc'[q] = "ended" /\ exit'[q] # "0"

LEMMA HaltStep ==
  ASSUME TypeOK, DirectoriesInv, NEW q \in Runs, Halts(q), Glances(q), OnlyRun(q), OutputOK'
  PROVE DirectoriesInv'
<1>1. Deduced(q)' /\ Directs(q)'
  BY DEF Halts, Deduced, Preparing, Directs, Reaches, Generates, Generating, Walks, Walking, Compares, Comparing, Succeeds
<1> QED
  BY <1>1, GlanceStep

Stills(q) == Glances(q) /\ UNCHANGED <<number, fd, listing, managed>>

\* A step that changes nothing but where its run is.
LEMMA StillFacts ==
  ASSUME TypeOK, Tied, DirectoriesInv, NEW q \in Runs, Stills(q), pc[q] # "ended"
  PROVE /\ OutputOK' /\ DOMAIN fd' = Runs /\ Deduced(q) /\ exit[q] # "0"
        /\ OfCorpus(q)' = OfCorpus(q) /\ Checking(q)' = Checking(q) /\ Paths(q)' = Paths(q)
        /\ \A s : Expected(q, s)' = Expected(q, s)
        /\ number[q] \in Nat /\ Len(Paths(q)) \in Nat /\ 1 <= Len(Paths(q))
        /\ Settled \/ Apart => Directs(q)
<1>1. OfCorpus(q)' = OfCorpus(q) /\ Checking(q)' = Checking(q) /\ Paths(q)' = Paths(q)
  BY DEF Stills, Glances, OfCorpus, Checking, Paths
<1>2. \A s : Expected(q, s)' = Expected(q, s)
  BY <1>1 DEF Stills, Expected
<1>3. number[q] \in Nat /\ Len(Paths(q)) \in Nat /\ 1 <= Len(Paths(q))
  BY PathFacts DEF TypeOK, ControlOK
<1> QED
  BY <1>1, <1>2, <1>3, Active DEF Stills, Glances, DirectoriesInv, OutputOK

\* The directory is empty but for the README, so no run has begun to write there.
LEMMA InspectTargetDirects ==
  ASSUME TypeOK, Tied, DirectoriesInv, NEW q \in Runs, InspectTarget(q), UNCHANGED managed
  PROVE DirectoriesInv'
<1>1. Stills(q) /\ pc[q] = "prepare" /\ pc[q] # "ended" /\ request[q].command = "corpus-generate" /\ place' = place
  BY DEF InspectTarget, Stills, Glances, Looks, At, outputs, circumstances, walking, history
<1>2. OnlyRun(q)
  BY <1>1, OneMoves DEF InspectTarget, Check, Stills, Glances
<1>3. CASE ~(place \in Directories /\ Vacant(place))
  <2>1. Exit(q, "2")
    BY <1>3 DEF InspectTarget, Check
  <2>2. Halts(q)
    BY <2>1, Went DEF Halts
  <2> QED
    BY <1>1, <1>2, <2>2, HaltStep, StillFacts DEF Stills
<1>4. CASE place \in Directories /\ Vacant(place)
  <2>1. pc'[q] = "corpus-parents" /\ exit'[q] = exit[q]
    BY <1>4, Went DEF InspectTarget, Check
  <2>2. OfCorpus(q) /\ ~Checking(q) /\ Target(q)' = place /\ number'[q] = 0 /\ exit'[q] # "0"
    BY <1>1, <2>1, StillFacts DEF Target, OfCorpus, Checking, Deduced, Preparing, Stills
  <2>3. Deduced(q)'
    BY <1>1, <2>1, <2>2, StillFacts DEF Deduced, Preparing
  <2>4. Counted(q)'
    <3>1. Paths(q)' = Paths(q) /\ Len(Paths(q)) \in Nat
      BY <1>1, StillFacts
    <3>2. number'[q] <= Len(Paths(q))
      BY <2>2, <3>1
    <3> QED
      BY <2>1, <2>2, <3>1, <3>2 DEF Counted
  <2>5. \A s \in Slots \ {Readme} : holds'[place][s] = Absent
    BY <1>1, <1>4 DEF Vacant, Entry, Stills, Glances
  <2>6. Generates(q)'
    <3>1. \A k \in 1..number'[q] : FALSE
      BY <2>2
    <3>2. Target(q)' \in Directories /\ \A s \in Slots \ {Readme} : holds'[Target(q)'][s] = Absent
      BY <1>4, <2>2, <2>5
    <3>3. pc'[q] \notin {"corpus-fill", "page-fill"}
      BY <2>1
    <3> QED
      BY <2>4, <3>1, <3>2, <3>3 DEF Generates
  <2>7. Reaches(q)' /\ ~Walking(q)' /\ ~Comparing(q)'
    BY <2>1, <2>2 DEF Reaches, Walking, Comparing, Succeeds
  <2> QED
    BY <1>1, <1>2, <2>3, <2>6, <2>7, StillFacts, GlanceStep DEF Stills, Directs, Walks, Compares
<1> QED
  BY <1>3, <1>4

\* The corpus generator, file by file.
LEMMA MakeParentsDirects ==
  ASSUME TypeOK, Tied, DirectoriesInv, NEW q \in Runs, MakeParents(q), UNCHANGED managed
  PROVE DirectoriesInv'
<1>1. /\ pc[q] = "corpus-parents" /\ pc[q] # "ended" /\ number[q] # Len(CorpusPaths)
      /\ UNCHANGED <<holds, request, others, found, number, fd, listing, managed>>
      /\ place \in Directories => place' = place
  BY PlacesDiffer DEF MakeParents, LastPath, MakePlace, Disturbs, At, outputs, circumstances, walking, history
<1>2. Stills(q) /\ request[q].command = "corpus-generate"
  BY <1>1, Generator DEF Stills, Glances
<1>3. Goto(q, "corpus-create") \/ Exit(q, "2")
  BY DEF MakeParents, Check
<1>4. OnlyRun(q)
  BY <1>2, <1>3, OneMoves DEF Stills, Glances
<1>5. CASE Exit(q, "2")
  <2>1. Halts(q)
    BY <1>5, Went DEF Halts
  <2> QED
    BY <1>1, <1>2, <1>4, <2>1, HaltStep, StillFacts DEF Stills
<1>6. CASE Goto(q, "corpus-create")
  <2>1. pc'[q] = "corpus-create" /\ exit'[q] = exit[q] /\ exit[q] # "0"
    BY <1>1, <1>6, Went, Active
  <2>2. OfCorpus(q) /\ ~Checking(q) /\ Paths(q) = CorpusPaths /\ ~Apart /\ Generating(q)
    BY <1>1, Generator DEF Paths, Generating
  <2>3. Deduced(q)'
    BY <1>1, <1>2, <2>1, <2>2, StillFacts DEF Deduced, Preparing
  <2>4. ASSUME Settled \/ Apart PROVE Directs(q)'
    <3>1. Generates(q)
      BY <1>1, <1>2, <2>2, <2>4, StillFacts DEF Directs
    <3>2. Target(q)' = Target(q) /\ Target(q) = place /\ place \in Directories
      BY <1>1, <1>2, <2>2, <3>1, StillFacts DEF Target, Generates
    <3>3. number[q] < Len(Paths(q))
      BY <1>1, <1>2, <2>2, <3>1, StillFacts, NotYetAll DEF Generates, Counted
    <3>4. Counted(q)'
      BY <1>1, <1>2, <2>1, <2>2, <3>1, <3>3, StillFacts DEF Generates, Counted
    <3>5. Generates(q)'
      BY <1>1, <1>2, <2>1, <2>2, <3>1, <3>2, <3>4, StillFacts, ZenonT(60) DEF Generates, ByARun, By
    <3>6. Reaches(q)' /\ ~Walking(q)' /\ ~Comparing(q)'
      BY <2>1 DEF Reaches, Walking, Comparing, Succeeds
    <3> QED
      BY <3>5, <3>6 DEF Directs, Walks, Compares
  <2> QED
    BY <1>1, <1>2, <1>4, <2>3, <2>4, StillFacts, GlanceStep DEF Stills
<1> QED
  BY <1>3, <1>5, <1>6

\* A generator has made the last of its files.
Finishes(q) ==
  /\ pc[q] \in {"corpus-parents", "page"} /\ number[q] = Len(Paths(q))
  /\ Exit(q, "0") /\ Stills(q) /\ place' = place

\* Both generators end alike.
LEMMA FinishStep ==
  ASSUME TypeOK, Tied, DirectoriesInv, NEW q \in Runs, Finishes(q)
  PROVE DirectoriesInv'
<1>1. /\ pc[q] # "ended" /\ Stills(q) /\ place' = place /\ pc'[q] = "ended" /\ exit'[q] = "0" /\ number'[q] = number[q]
      /\ ~Checking(q) /\ Generating(q)
  BY Generator, Went DEF Finishes, Generating, Stills
<1>2. OnlyRun(q)
  BY <1>1, OneMoves DEF Finishes, Stills, Glances
<1>3. Deduced(q)'
  BY <1>1 DEF Deduced, Preparing
<1>4. ASSUME Settled \/ Apart PROVE Directs(q)'
  <2>1. SUFFICES ASSUME Settled \/ ~OfCorpus(q) PROVE Reaches(q)' /\ Generates(q)' /\ Walks(q)' /\ Compares(q)'
    BY <1>1, StillFacts DEF Directs, Stills, Glances, Settled
  <2>2. Generates(q)
    BY <1>1, <1>4, <2>1, StillFacts DEF Directs
  <2>3. Target(q)' = Target(q)
    BY <1>1, StillFacts DEF Target, Stills
  <2>4. Counted(q)'
    <3>1. Paths(q)' = Paths(q) /\ Len(Paths(q)) \in Nat /\ number[q] = Len(Paths(q))
      BY <1>1, StillFacts DEF Finishes
    <3> QED
      BY <1>1, <3>1 DEF Counted
  <2>5. Generates(q)'
    BY <1>1, <2>2, <2>3, <2>4, StillFacts, ZenonT(60) DEF Generates, Stills, Glances, ByARun, By
  <2>6. Reaches(q)' /\ ~Walking(q)' /\ ~Comparing(q)'
    BY <1>1, StillFacts DEF Reaches, Walking, Comparing, Succeeds
  <2> QED
    BY <2>5, <2>6 DEF Walks, Compares
<1> QED
  BY <1>1, <1>2, <1>3, <1>4, StillFacts, GlanceStep DEF Stills

LEMMA CorpusGeneratorDirects ==
  ASSUME TypeOK, Tied, DirectoriesInv, NEW q \in Runs, UNCHANGED managed,
         MakeParents(q) \/ CreateManaged(q) \/ FillManaged(q) \/ EndOfCorpus(q)
  PROVE DirectoriesInv'
<1>0. ASSUME pc[q] \in {"corpus-create", "corpus-fill", "corpus-parents"}
      PROVE OfCorpus(q) /\ Path(q) = Paths(q)[number[q] + 1] /\ Target(q) = place /\ Paths(q) = CorpusPaths
            /\ \A s : Expected(q, s) = Corpus
  BY <1>0, Generator DEF Path, Paths, Target, Expected
<1>1. CASE CreateManaged(q)
  <2>1. Creating(q, "corpus-fill") /\ CreateEntry(q, Target(q), Paths(q)[number[q] + 1], "corpus-fill")
    BY <1>0, <1>1 DEF CreateManaged, Creating, At
  <2> QED
    BY <2>1, CreateStep
<1>2. CASE FillManaged(q)
  <2>1. PICK s : s = Paths(q)[number[q] + 1]
    OBVIOUS
  <2>2. Filling(q, "corpus-parents") /\ FillEntry(q, s, Expected(q, s), "corpus-parents")
    BY <1>0, <1>2, <2>1 DEF FillManaged, Filling, At
  <2> QED
    BY <2>1, <2>2, FillStep
<1>3. CASE EndOfCorpus(q)
  <2>1. pc[q] = "corpus-parents" /\ number[q] = Len(CorpusPaths) /\ Exit(q, "0") /\ Stills(q) /\ place' = place
    BY <1>3 DEF EndOfCorpus, LastPath, Stills, Glances, Looks, At, outputs, circumstances, walking, history
  <2> QED
    BY <1>0, <2>1, FinishStep DEF Finishes
<1> QED
  BY <1>1, <1>2, <1>3, MakeParentsDirects

-----------------------------------------------------------------------------
(* The reports. *)
\* The directory is opened, and its descriptor stays what it is.
LEMMA OpenOutputDirects ==
  ASSUME TypeOK, Tied, DirectoriesInv, NEW q \in Runs, OpenOutput(q) \/ OpenReports(q)
  PROVE DirectoriesInv'
<1>1. /\ pc[q] \in {"prepare", "reports-open"} /\ pc[q] # "ended" /\ ~OfCorpus(q)
      /\ UNCHANGED <<holds, request, others, found, number, listing, managed, place>>
      /\ fd' = [fd EXCEPT ![q] = place]
  <2>1. Tie(q)
    BY DEF Tied
  <2> QED
    BY <2>1 DEF OpenOutput, OpenReports, Looks, At, outputs, circumstances, history, Deriving, Tie, OfCorpus
<1>2. \/ Exit(q, "2")
      \/ /\ place \in Directories /\ Goto(q, "empty") /\ pc[q] = "prepare"
      \/ /\ place \in Directories /\ Goto(q, "reports-list")
  BY DEF OpenOutput, OpenReports, Check, At
<1>3. \/ pc'[q] = "ended" /\ exit'[q] = "2"
      \/ /\ place \in Directories /\ pc'[q] = "empty" /\ exit'[q] = exit[q] /\ pc[q] = "prepare"
      \/ /\ place \in Directories /\ pc'[q] = "reports-list" /\ exit'[q] = exit[q]
  BY <1>2, Went
<1>4. DOMAIN fd = Runs /\ Deduced(q) /\ exit[q] # "0" /\ DOMAIN pc = Runs /\ DOMAIN exit = Runs
  BY <1>1, Active DEF DirectoriesInv, OutputOK, TypeOK, ControlOK, Tied
<1>5. OnlyRun(q)
  BY <1>1, <1>2, <1>4 DEF OnlyRun, Stays, Exit, Goto
<1>6. OfCorpus(q)' = OfCorpus(q) /\ fd'[q] = place /\ DOMAIN fd' = Runs
  BY <1>1, <1>4 DEF OfCorpus
<1>7. Deduced(q)'
  BY <1>1, <1>3, <1>4, <1>6 DEF Deduced, Preparing
<1>8. pc'[q] \in {"empty", "walk", "reports-list"} => Target(q)' \in Directories
  BY <1>1, <1>3, <1>6 DEF Target
<1>9. Elsewhere(q)
  BY <1>1, <1>3, <1>4, <1>6, <1>7, <1>8 DEF Elsewhere
<1> QED
  BY <1>5, <1>9, ElsewhereStep

\* The directory is empty, so no run has begun to write there.
LEMMA InspectOutputDirects ==
  ASSUME TypeOK, Tied, DirectoriesInv, NEW q \in Runs, InspectOutput(q)
  PROVE DirectoriesInv'
<1>1. Stills(q) /\ pc[q] = "empty" /\ pc[q] # "ended" /\ ~OfCorpus(q) /\ ~Checking(q)
  BY Generator DEF InspectOutput, Deriving, Stills, Glances, Looks, At, outputs, circumstances, walking, history
<1>2. OnlyRun(q)
  BY <1>1, OneMoves DEF InspectOutput, Check, Stills, Glances
<1>3. CASE NamesIn(fd[q]) # {}
  <2>1. Exit(q, "2")
    BY <1>3 DEF InspectOutput, Check
  <2>2. Halts(q)
    BY <2>1, Went DEF Halts
  <2> QED
    BY <1>1, <1>2, <2>2, HaltStep, StillFacts DEF Stills
<1>4. CASE NamesIn(fd[q]) = {}
  <2>1. Goto(q, "page")
    BY <1>4 DEF InspectOutput, Check
  <2>2. pc'[q] = "page" /\ exit'[q] = exit[q] /\ exit[q] # "0" /\ number'[q] = 0
    BY <1>1, <2>1, Went, StillFacts DEF Stills, Deduced, Preparing
  <2>3. Deduced(q)'
    BY <1>1, <2>2, StillFacts DEF Deduced, Preparing, Stills
  <2>4. ASSUME Settled \/ Apart PROVE Directs(q)'
    <3>1. Reaches(q)
      BY <1>1, <2>4, StillFacts DEF Directs
    <3>2. Target(q)' \in Directories /\ \A s \in Slots : holds'[Target(q)'][s] = Absent
      BY <1>1, <1>4, <3>1, StillFacts DEF Reaches, Target, NamesIn, Entry, Stills, Glances
    <3>3. \A k \in 1..number'[q] : FALSE
      BY <2>2
    <3>4. Counted(q)'
      <4>1. Paths(q)' = Paths(q) /\ Len(Paths(q)) \in Nat
        BY <1>1, StillFacts
      <4>2. number'[q] <= Len(Paths(q))
        BY <2>2, <4>1
      <4> QED
        BY <2>2, <4>1, <4>2 DEF Counted
    <3>5. Generates(q)'
      BY <2>2, <3>2, <3>3, <3>4 DEF Generates
    <3>6. Reaches(q)' /\ ~Walking(q)' /\ ~Comparing(q)'
      BY <2>2 DEF Reaches, Walking, Comparing, Succeeds
    <3> QED
      BY <3>5, <3>6 DEF Directs, Walks, Compares
  <2> QED
    BY <1>1, <1>2, <2>3, <2>4, StillFacts, GlanceStep DEF Stills
<1> QED
  BY <1>3, <1>4

LEMMA ReportsGeneratorDirects ==
  ASSUME TypeOK, Tied, DirectoriesInv, NEW q \in Runs, CreatePage(q) \/ FillPage(q) \/ EndOfPages(q)
  PROVE DirectoriesInv'
<1>0. ASSUME pc[q] \in {"page", "page-fill"}
      PROVE /\ ~OfCorpus(q) /\ Page(q) = Paths(q)[number[q] + 1] /\ Target(q) = fd[q] /\ Paths(q) = ReportPaths
            /\ \A s : Expected(q, s) = ReportBytes(managed[q], s)
  BY <1>0, Generator DEF Page, Paths, Target, Expected
<1>1. CASE CreatePage(q)
  <2>1. /\ Creating(q, "page-fill") /\ CreateEntry(q, Target(q), Paths(q)[number[q] + 1], "page-fill")
        /\ UNCHANGED managed
    BY <1>0, <1>1 DEF CreatePage, Creating, At, LastPage, Deriving
  <2> QED
    BY <2>1, CreateStep
<1>2. CASE FillPage(q)
  <2>1. PICK s : s = Paths(q)[number[q] + 1]
    OBVIOUS
  <2>2. /\ Filling(q, "page") /\ FillEntry(q, s, Expected(q, s), "page") /\ UNCHANGED managed
    BY <1>0, <1>2, <2>1 DEF FillPage, Filling, At, Deriving
  <2> QED
    BY <2>1, <2>2, FillStep
<1>3. CASE EndOfPages(q)
  <2>1. pc[q] = "page" /\ number[q] = Len(ReportPaths) /\ Exit(q, "0") /\ Stills(q) /\ place' = place
    BY <1>3 DEF EndOfPages, LastPage, Stills, Glances, Looks, At, outputs, circumstances, walking, history, Deriving
  <2> QED
    BY <1>0, <2>1, FinishStep DEF Finishes
<1> QED
  BY <1>1, <1>2, <1>3

-----------------------------------------------------------------------------
(* The checks: the directory is listed, what was listed is examined, the names are    *)
(* compared, and then the files one by one.                                           *)
Peeks(q) ==
  /\ UNCHANGED <<holds, request, others, found, place, fd, managed>> /\ DOMAIN listing' = DOMAIN listing /\ DOMAIN number' = DOMAIN number
  /\ \A r \in Runs \ {q} : listing'[r] = listing[r] /\ number'[r] = number[r]

\* A step of a check changes nothing but where the check is.
LEMMA PeekFacts ==
  ASSUME TypeOK, Tied, DirectoriesInv, NEW q \in Runs, Peeks(q), pc[q] # "ended", pc[q] # "begin",
         NEW s, Goto(q, s) \/ Exit(q, s)
  PROVE /\ Glances(q) /\ OnlyRun(q) /\ DOMAIN fd' = Runs /\ DOMAIN pc = Runs /\ DOMAIN exit = Runs
        /\ exit[q] # "0" /\ OutputOK
        /\ OfCorpus(q)' = OfCorpus(q) /\ Checking(q)' = Checking(q) /\ Paths(q)' = Paths(q) /\ Target(q)' = Target(q)
        /\ \A x : Expected(q, x)' = Expected(q, x)
        /\ number[q] \in Nat /\ Len(Paths(q)) \in Nat /\ 1 <= Len(Paths(q))
        /\ Goto(q, s) => pc'[q] = s /\ exit'[q] = exit[q]
        /\ Exit(q, s) => pc'[q] = "ended" /\ exit'[q] = s
        /\ Settled \/ Apart => Directs(q)
<1>1. OfCorpus(q)' = OfCorpus(q) /\ Checking(q)' = Checking(q) /\ Paths(q)' = Paths(q) /\ Target(q)' = Target(q)
  BY DEF Peeks, OfCorpus, Checking, Paths, Target
<1>2. \A x : Expected(q, x)' = Expected(q, x)
  BY <1>1 DEF Peeks, Expected
<1>3. number[q] \in Nat /\ Len(Paths(q)) \in Nat /\ 1 <= Len(Paths(q))
  BY PathFacts DEF TypeOK, ControlOK
<1>4. DOMAIN pc = Runs /\ DOMAIN exit = Runs
  BY DEF TypeOK, ControlOK, Tied
<1>5. OnlyRun(q)
  BY <1>4 DEF Peeks, OnlyRun, Stays, Goto, Exit
<1>6. Glances(q) /\ DOMAIN fd' = Runs /\ OutputOK
  BY DEF Peeks, Glances, DirectoriesInv, OutputOK
<1> QED
  BY <1>1, <1>2, <1>3, <1>4, <1>5, <1>6, Went, Active DEF DirectoriesInv

\* Once it walks or compares, a run is not preparing anything.
Looking == {"walk", "walked", "reports-list", "reports-entries", "corpus-size", "corpus-read", "reports-size", "reports-read"}

\* Who is at a step of a check checks.
LEMMA CheckerFacts ==
  ASSUME Tied, NEW q \in Runs
  PROVE /\ pc[q] \in {"corpus-check", "corpus-replay", "walk", "walked", "corpus-size", "corpus-read", "corpus-manifest", "replay"} =>
             OfCorpus(q) /\ Checking(q)
        /\ pc[q] \in {"reports-look", "reports-open", "reports-list", "reports-entries", "reports-size", "reports-read"} =>
             ~OfCorpus(q) /\ Checking(q)
BY DEF Tied, Tie, OfCorpus, Checking

LEMMA NotPreparing ==
  ASSUME NEW q \in Runs, pc'[q] \in Looking \cup {"ended"}
  PROVE Deduced(q)'
BY DEF Deduced, Preparing, Looking

Lists(q, next) ==
  \/ pc[q] = "walk" /\ next = "walked"
  \/ pc[q] = "reports-list" /\ next = "reports-entries"

\* What is listed is there; what comes later a run has made.
LEMMA ListStep ==
  ASSUME TypeOK, Tied, DirectoriesInv, NEW q \in Runs, NEW next, Lists(q, next), List(q, Target(q)), Goto(q, next), Peeks(q)
  PROVE DirectoriesInv'
<1>1. /\ Glances(q) /\ OnlyRun(q) /\ OutputOK /\ Target(q)' = Target(q) /\ OfCorpus(q)' = OfCorpus(q)
      /\ DOMAIN fd' = Runs /\ pc'[q] = next /\ exit'[q] # "0" /\ (Settled \/ Apart => Directs(q))
  BY PeekFacts DEF Lists
<1>2. EntriesIn(Target(q)) \in SUBSET [name : Slots, folder : BOOLEAN]
  <2>1. ASSUME NEW e \in EntriesIn(Target(q)) PROVE e \in [name : Slots, folder : BOOLEAN]
    <3>1. PICK s \in NamesIn(Target(q)) : e = [name |-> s, folder |-> Entry(Target(q), s) = Folder]
      BY <2>1 DEF EntriesIn
    <3>2. s \in Slots /\ (Entry(Target(q), s) = Folder) \in BOOLEAN
      BY DEF NamesIn
    <3> QED
      BY <3>1, <3>2
  <2> QED
    BY <2>1
<1>3. listing'[q] = [entries |-> EntriesIn(Target(q)), left |-> EntriesIn(Target(q))]
  BY <1>1 DEF List, OutputOK
<1>4. OutputOK'
  BY <1>1, <1>2 DEF OutputOK, List, Glances
<1>5. Deduced(q)'
  BY <1>1, NotPreparing DEF Lists, Looking
<1>6. ASSUME Settled \/ Apart, Settled' \/ ~OfCorpus(q)' PROVE Reaches(q)' /\ Generates(q)' /\ Walks(q)' /\ Compares(q)'
  <2>1. Reaches(q)
    BY <1>1, <1>6 DEF Directs, Settled, Glances
  <2>2. Target(q) \in Directories
    BY <2>1 DEF Reaches, Lists
  <2>3. ASSUME NEW e \in EntriesIn(Target(q))
        PROVE holds[Target(q)][e.name] # Absent /\ (e.folder <=> holds[Target(q)][e.name] = Folder)
    <3>1. PICK s \in NamesIn(Target(q)) : e = [name |-> s, folder |-> Entry(Target(q), s) = Folder]
      BY <2>3 DEF EntriesIn
    <3>2. Entry(Target(q), s) = holds[Target(q)][s] /\ Entry(Target(q), s) # Absent
      BY <2>2 DEF NamesIn, Entry
    <3>3. e.name = s /\ (e.folder <=> Entry(Target(q), s) = Folder)
      BY <3>1
    <3> QED
      BY <3>2, <3>3
  <2>4. ASSUME NEW s \in Slots, holds[Target(q)][s] # Absent PROVE \E e \in EntriesIn(Target(q)) : e.name = s
    <3>1. [name |-> s, folder |-> Entry(Target(q), s) = Folder] \in EntriesIn(Target(q))
      BY <2>2, <2>4 DEF EntriesIn, NamesIn, Entry
    <3> QED
      BY <3>1
  <2>5. Walks(q)'
    BY <1>1, <1>3, <2>2, <2>3, <2>4 DEF Walks, Glances
  <2>6. Reaches(q)' /\ ~Generating(q)' /\ ~Comparing(q)'
    BY <1>1 DEF Reaches, Generating, Comparing, Succeeds, Lists
  <2> QED
    BY <2>5, <2>6 DEF Generates, Compares
<1>7. Settled \/ Apart => Directs(q)'
  BY <1>6 DEF Directs
<1> QED
  BY <1>1, <1>4, <1>5, <1>7, GlanceStep

Examining(q) == pc[q] \in {"walked", "reports-entries"} /\ pc'[q] = pc[q] /\ exit'[q] = exit[q]

\* What is examined is a file.
LEMMA ExamineStep ==
  ASSUME TypeOK, Tied, DirectoriesInv, NEW q \in Runs, NEW e \in listing[q].left, Examine(q, e), Peeks(q), Examining(q),
         Goto(q, pc[q]), UNCHANGED number,
         LET x == Entry(Target(q), e.name) IN IF OfCorpus(q) /\ e.folder THEN x # Symlink ELSE IsFile(x)
  PROVE DirectoriesInv'
<1>1. /\ Glances(q) /\ OnlyRun(q) /\ OutputOK /\ Target(q)' = Target(q) /\ OfCorpus(q)' = OfCorpus(q)
      /\ DOMAIN fd' = Runs /\ exit'[q] # "0" /\ (Settled \/ Apart => Directs(q))
  BY PeekFacts DEF Examining
<1>2. listing'[q].entries = listing[q].entries /\ listing'[q].left = listing[q].left \ {e}
      /\ listing' \in [Runs -> [entries : SUBSET [name : Slots, folder : BOOLEAN], left : SUBSET [name : Slots, folder : BOOLEAN]]]
  BY <1>1 DEF Examine, OutputOK
<1>3. OutputOK'
  BY <1>1, <1>2 DEF OutputOK, Glances
<1>4. Deduced(q)'
  BY <1>1, NotPreparing DEF Examining, Looking
<1>5. ASSUME Settled \/ Apart, Settled' \/ ~OfCorpus(q)' PROVE Reaches(q)' /\ Generates(q)' /\ Walks(q)' /\ Compares(q)'
  <2>1. Walks(q)
    BY <1>1, <1>5 DEF Directs, Settled, Glances
  <2>2. /\ Target(q) \in Directories
        /\ \A y \in listing[q].entries :
             /\ holds[Target(q)][y.name] # Absent
             /\ y.folder <=> holds[Target(q)][y.name] = Folder
             /\ y \notin listing[q].left => IsFile(holds[Target(q)][y.name]) \/ (OfCorpus(q) /\ y.folder)
        /\ \A s \in Slots :
             \/ holds[Target(q)][s] = Absent \/ ByARun(holds[Target(q)][s])
             \/ \E y \in listing[q].entries : y.name = s
    BY <2>1 DEF Walks, Walking, Examining
  <2>3. IsFile(holds[Target(q)][e.name]) \/ (OfCorpus(q) /\ e.folder)
    BY <2>2 DEF Entry
  <2>4. Walks(q)'
    BY <1>1, <1>2, <2>2, <2>3 DEF Walks, Glances, IsFile, ByARun, By
  <2>5. Reaches(q)' /\ ~Generating(q)' /\ ~Comparing(q)'
    BY <1>1 DEF Reaches, Generating, Comparing, Succeeds, Examining
  <2> QED
    BY <2>4, <2>5 DEF Generates, Compares
<1>6. Settled \/ Apart => Directs(q)'
  BY <1>5 DEF Directs
<1> QED
  BY <1>1, <1>3, <1>4, <1>6, GlanceStep

\* The names are the managed ones, but for directories and the README of a corpus.
Names(q, next) ==
  \/ /\ pc[q] = "walked" /\ next = "corpus-size" /\ FilesWalked(q) \ {Readme} = ToSet(CorpusPaths)
  \/ /\ pc[q] = "reports-entries" /\ next = "reports-size" /\ {e.name : e \in listing[q].entries} = ToSet(ReportPaths)

\* When the names agree, all managed files are listed.
LEMMA NamesStep ==
  ASSUME TypeOK, Tied, DirectoriesInv, NEW q \in Runs, NEW next, Names(q, next), AllExamined(q), Peeks(q), Goto(q, next), Rewind(q),
         UNCHANGED listing
  PROVE DirectoriesInv'
<1>1. /\ Glances(q) /\ OnlyRun(q) /\ OutputOK /\ Target(q)' = Target(q) /\ OfCorpus(q)' = OfCorpus(q) /\ Paths(q)' = Paths(q)
      /\ DOMAIN fd' = Runs /\ pc'[q] = next /\ exit'[q] # "0" /\ (Settled \/ Apart => Directs(q)) /\ Len(Paths(q)) \in Nat
  BY PeekFacts DEF Names
<1>2. number'[q] = 0
  BY DEF Rewind, TypeOK, ControlOK
<1>3. OutputOK'
  BY <1>1 DEF OutputOK, Glances
<1>4. Deduced(q)'
  BY <1>1, NotPreparing DEF Names, Looking
<1>5. ASSUME Settled \/ Apart, Settled' \/ ~OfCorpus(q)' PROVE Reaches(q)' /\ Generates(q)' /\ Walks(q)' /\ Compares(q)'
  <2>1. Walks(q)
    BY <1>1, <1>5 DEF Directs, Settled, Glances
  <2>2. /\ Target(q) \in Directories
        /\ \A y \in listing[q].entries : y.folder <=> holds[Target(q)][y.name] = Folder
        /\ \A s \in Slots :
             \/ holds[Target(q)][s] = Absent \/ ByARun(holds[Target(q)][s])
             \/ \E y \in listing[q].entries : y.name = s
    BY <2>1 DEF Walks, Walking, Names
  <2>3. ASSUME NEW s \in Slots, IsFile(holds[Target(q)][s])
        PROVE s \in ToSet(Paths(q)) \/ ByARun(holds[Target(q)][s]) \/ (OfCorpus(q) /\ s = Readme)
    <3>1. holds[Target(q)][s] # Absent /\ holds[Target(q)][s] # Folder
      BY <2>3 DEF IsFile
    <3>2. SUFFICES ASSUME ~ByARun(holds[Target(q)][s]) PROVE s \in ToSet(Paths(q)) \/ (OfCorpus(q) /\ s = Readme)
      OBVIOUS
    <3>3. PICK y \in listing[q].entries : y.name = s
      BY <2>2, <3>1, <3>2
    <3>4. ~y.folder
      BY <2>2, <3>1, <3>3
    <3>5. CASE pc[q] = "walked"
      <4>1. s \in FilesWalked(q)
        BY <3>3, <3>4 DEF FilesWalked
      <4>2. OfCorpus(q) /\ Paths(q) = CorpusPaths
        BY <3>5, CheckerFacts DEF Paths
      <4> QED
        BY <3>5, <4>1, <4>2 DEF Names
    <3>6. CASE pc[q] = "reports-entries"
      <4>1. Paths(q) = ReportPaths
        BY <3>6, CheckerFacts DEF Paths
      <4> QED
        BY <3>3, <3>6, <4>1 DEF Names
    <3> QED
      BY <3>5, <3>6 DEF Names
  <2>4. \A k \in 1..number'[q] : FALSE
    BY <1>2
  <2>5. Counted(q)'
    <3>1. number'[q] <= Len(Paths(q))
      BY <1>1, <1>2
    <3> QED
      BY <1>1, <3>1 DEF Counted, Names
  <2>6. pc'[q] \notin {"corpus-read", "reports-read"}
    BY <1>1 DEF Names
  <2>7. Compares(q)'
    BY <1>1, <2>2, <2>3, <2>4, <2>5, <2>6 DEF Compares, Glances, ByARun, By, IsFile
  <2>8. Reaches(q)' /\ ~Generating(q)' /\ ~Walking(q)'
    BY <1>1 DEF Reaches, Generating, Walking, Succeeds, Names
  <2> QED
    BY <2>7, <2>8 DEF Generates, Walks
<1>6. Settled \/ Apart => Directs(q)'
  BY <1>5 DEF Directs
<1> QED
  BY <1>1, <1>3, <1>4, <1>6, GlanceStep

\* A file of the right size is one, and is filled.
Sizing(q, next) ==
  \/ pc[q] = "corpus-size" /\ next = "corpus-read"
  \/ pc[q] = "reports-size" /\ next = "reports-read"

LEMMA SizeStep ==
  ASSUME TypeOK, Tied, DirectoriesInv, NEW q \in Runs, NEW next, Sizing(q, next), number[q] # Len(Paths(q)),
         Size(Entry(Target(q), Paths(q)[number[q] + 1])) = "right", Goto(q, next), Peeks(q), UNCHANGED <<number, listing>>
  PROVE DirectoriesInv'
<1>1. /\ Glances(q) /\ OnlyRun(q) /\ OutputOK /\ Target(q)' = Target(q) /\ OfCorpus(q)' = OfCorpus(q) /\ Paths(q)' = Paths(q)
      /\ DOMAIN fd' = Runs /\ pc'[q] = next /\ exit'[q] # "0" /\ (Settled \/ Apart => Directs(q)) /\ Len(Paths(q)) \in Nat
      /\ number[q] \in Nat /\ \A x : Expected(q, x)' = Expected(q, x)
  BY PeekFacts DEF Sizing
<1>2. OutputOK'
  BY <1>1 DEF OutputOK, Glances
<1>3. Deduced(q)'
  BY <1>1, NotPreparing DEF Sizing, Looking
<1>4. ASSUME Settled \/ Apart, Settled' \/ ~OfCorpus(q)' PROVE Reaches(q)' /\ Generates(q)' /\ Walks(q)' /\ Compares(q)'
  <2>1. Compares(q) /\ Comparing(q)
    BY <1>1, <1>4 DEF Directs, Settled, Glances, Comparing, Sizing
  <2>2. Target(q) \in Directories /\ Counted(q)
    BY <2>1 DEF Compares
  <2>3. number[q] < Len(Paths(q))
    BY <1>1, <2>2, NotYetAll DEF Counted
  <2>4. Counted(q)'
    BY <1>1, <2>2, <2>3 DEF Counted
  <2>5. Full(holds[Target(q)][Paths(q)[number[q] + 1]])
    BY <2>2 DEF Entry, Full, Size
  <2>6. Compares(q)'
    BY <1>1, <2>1, <2>2, <2>4, <2>5 DEF Compares, Glances, ByARun, By, IsFile, Full
  <2>7. Reaches(q)' /\ ~Generating(q)' /\ ~Walking(q)'
    BY <1>1 DEF Reaches, Generating, Walking, Succeeds, Sizing
  <2> QED
    BY <2>6, <2>7 DEF Generates, Walks
<1>5. Settled \/ Apart => Directs(q)'
  BY <1>4 DEF Directs
<1> QED
  BY <1>1, <1>2, <1>3, <1>5, GlanceStep

Collating(q, next) ==
  \/ pc[q] = "corpus-read" /\ next = "corpus-size"
  \/ pc[q] = "reports-read" /\ next = "reports-size"

\* A file is compared with what it should hold.
LEMMA ReadStep ==
  ASSUME TypeOK, Tied, DirectoriesInv, NEW q \in Runs, NEW next, Collating(q, next),
         NEW s, s = Paths(q)[number[q] + 1], Entry(Target(q), s).bytes = Expected(q, s),
         Goto(q, next), Peeks(q), Advance(q), UNCHANGED listing
  PROVE DirectoriesInv'
<1>1. /\ Glances(q) /\ OnlyRun(q) /\ OutputOK /\ Target(q)' = Target(q) /\ OfCorpus(q)' = OfCorpus(q) /\ Paths(q)' = Paths(q)
      /\ DOMAIN fd' = Runs /\ pc'[q] = next /\ exit'[q] # "0" /\ (Settled \/ Apart => Directs(q)) /\ Len(Paths(q)) \in Nat
      /\ number[q] \in Nat /\ \A x : Expected(q, x)' = Expected(q, x)
  BY PeekFacts DEF Collating
<1>2. OutputOK'
  BY <1>1 DEF OutputOK, Glances
<1>3. Deduced(q)'
  BY <1>1, NotPreparing DEF Collating, Looking
<1>4. number'[q] = number[q] + 1
  BY DEF Advance, TypeOK, ControlOK
<1>5. ASSUME Settled \/ Apart, Settled' \/ ~OfCorpus(q)' PROVE Reaches(q)' /\ Generates(q)' /\ Walks(q)' /\ Compares(q)'
  <2>1. Compares(q) /\ Comparing(q)
    BY <1>1, <1>5 DEF Directs, Settled, Glances, Comparing, Collating
  <2>2. Target(q) \in Directories /\ Counted(q) /\ Full(holds[Target(q)][s])
    BY <2>1 DEF Compares, Collating
  <2>3. number[q] < Len(Paths(q))
    BY <2>2 DEF Counted, Collating
  <2>4. number'[q] <= Len(Paths(q))
    BY <1>1, <1>4, <2>3
  <2>5. Counted(q)'
    BY <1>1, <2>4 DEF Counted, Collating
  <2>6. ASSUME NEW k \in 1..number'[q]
        PROVE LET x == holds'[Target(q)][Paths(q)[k]] IN Full(x) /\ x.bytes = Expected(q, Paths(q)[k])
    <3>1. holds' = holds
      BY <1>1 DEF Glances
    <3>2. CASE k = number[q] + 1
      BY <2>2, <3>1, <3>2 DEF Entry
    <3>3. CASE k # number[q] + 1
      <4>1. k \in 1..number[q]
        BY <1>1, <1>4, <3>3
      <4> QED
        BY <2>1, <3>1, <4>1 DEF Compares
    <3> QED
      BY <3>2, <3>3
  <2>7. pc'[q] \notin {"corpus-read", "reports-read"} /\ holds' = holds
    BY <1>1 DEF Collating, Glances
  <2>8. Compares(q)'
    BY <1>1, <2>1, <2>2, <2>5, <2>6, <2>7 DEF Compares, ByARun, By, IsFile, Full
  <2>9. Reaches(q)' /\ ~Generating(q)' /\ ~Walking(q)'
    BY <1>1 DEF Reaches, Generating, Walking, Succeeds, Collating
  <2> QED
    BY <2>8, <2>9 DEF Generates, Walks
<1>6. Settled \/ Apart => Directs(q)'
  BY <1>5 DEF Directs
<1> QED
  BY <1>1, <1>2, <1>3, <1>6, GlanceStep

LEMMA AllOfThem ==
  ASSUME NEW n \in Nat, NEW l \in Nat, n = l
  PROVE n <= l
OBVIOUS

\* A check has compared the last of the files.
LEMMA VerdictStep ==
  ASSUME TypeOK, Tied, DirectoriesInv, NEW q \in Runs, pc[q] \in {"corpus-size", "reports-size"}, number[q] = Len(Paths(q)),
         Exit(q, "0"), Peeks(q), UNCHANGED <<number, listing>>
  PROVE DirectoriesInv'
<1>1. /\ Glances(q) /\ OnlyRun(q) /\ OutputOK /\ Target(q)' = Target(q) /\ OfCorpus(q)' = OfCorpus(q) /\ Paths(q)' = Paths(q)
      /\ DOMAIN fd' = Runs /\ pc'[q] = "ended" /\ exit'[q] = "0" /\ (Settled \/ Apart => Directs(q)) /\ Len(Paths(q)) \in Nat
      /\ number[q] \in Nat /\ (\A x : Expected(q, x)' = Expected(q, x)) /\ Checking(q)' = Checking(q)
  BY PeekFacts
<1>2. OutputOK'
  BY <1>1 DEF OutputOK, Glances
<1>3. Deduced(q)'
  BY <1>1, NotPreparing
<1>4. ASSUME Settled \/ Apart, Settled' \/ ~OfCorpus(q)' PROVE Reaches(q)' /\ Generates(q)' /\ Walks(q)' /\ Compares(q)'
  <2>1. Compares(q) /\ Comparing(q)
    BY <1>1, <1>4 DEF Directs, Settled, Glances, Comparing
  <2>2. Checking(q)'
    BY <1>1, CheckerFacts
  <2>3. Target(q) \in Directories /\ number'[q] = number[q]
    BY <2>1 DEF Compares
  <2>4. Counted(q)'
    <3>0. Len(Paths(q)) \in Nat /\ number[q] \in Nat /\ number'[q] = number[q] /\ Paths(q)' = Paths(q)
      BY <1>1
    <3>1. number'[q] = Len(Paths(q))
      BY <3>0
    <3>2. number'[q] <= Len(Paths(q))
      BY <3>0, <3>1, AllOfThem
    <3> QED
      BY <1>1, <3>0, <3>1, <3>2 DEF Counted
  <2>5. pc'[q] \notin {"corpus-read", "reports-read"}
    BY <1>1
  <2>6. Compares(q)'
    BY <1>1, <2>1, <2>3, <2>4, <2>5 DEF Compares, Glances, ByARun, By, IsFile, Full
  <2>7. Reaches(q)' /\ ~Generating(q)' /\ ~Walking(q)'
    BY <1>1, <2>2 DEF Reaches, Generating, Walking
  <2> QED
    BY <2>6, <2>7 DEF Generates, Walks
<1>5. Settled \/ Apart => Directs(q)'
  BY <1>4 DEF Directs
<1> QED
  BY <1>1, <1>2, <1>3, <1>5, GlanceStep

\* The corpus check and the check of reports, step by step.
LEMMA CorpusCheckDirects ==
  ASSUME TypeOK, Tied, DirectoriesInv, NEW q \in Runs, UNCHANGED managed,
         WalkCorpus(q) \/ ExamineWalked(q) \/ ComparePaths(q) \/ SizeManaged(q) \/ ReadManaged(q) \/ EndOfCheck(q)
  PROVE DirectoriesInv'
<1>1. /\ pc[q] \in {"walk", "walked", "corpus-size", "corpus-read"} /\ pc[q] # "ended" /\ pc[q] # "begin"
  BY DEF WalkCorpus, ExamineWalked, ComparePaths, SizeManaged, ReadManaged, EndOfCheck, At
<1>2. /\ OfCorpus(q) /\ Checking(q) /\ Target(q) = place /\ Paths(q) = CorpusPaths /\ Path(q) = Paths(q)[number[q] + 1]
      /\ \A s : Expected(q, s) = Corpus
  BY <1>1, CheckerFacts DEF Target, Paths, Path, Expected
<1>3. OutputOK /\ DOMAIN listing = Runs /\ DOMAIN number = Runs
  BY DEF DirectoriesInv, OutputOK, TypeOK, ControlOK
<1>4. /\ UNCHANGED <<holds, request, others, found, place, fd, managed>>
  BY DEF WalkCorpus, ExamineWalked, ComparePaths, SizeManaged, ReadManaged, EndOfCheck, Looks,
         outputs, circumstances, walking, history
<1>5. ASSUME UNCHANGED number \/ Advance(q) \/ Rewind(q),
             UNCHANGED listing \/ (\E d : List(q, d)) \/ (\E e \in listing[q].left : Examine(q, e))
      PROVE Peeks(q)
  BY <1>3, <1>4, <1>5 DEF Peeks, Advance, Rewind, List, Examine
<1>6. ASSUME NEW e \in {"1", "2"}, Exit(q, e), Peeks(q), OutputOK' PROVE DirectoriesInv'
  <2>1. Glances(q) /\ OnlyRun(q) /\ Halts(q)
    BY <1>1, <1>6, PeekFacts DEF Halts
  <2> QED
    BY <1>6, <2>1, HaltStep
<1>7. UNCHANGED listing => OutputOK'
  BY <1>3, <1>4 DEF OutputOK
<1>8. CASE WalkCorpus(q)
  BY <1>2, <1>5, <1>8, ListStep DEF WalkCorpus, Lists, At
<1>9. CASE ExamineWalked(q)
  <2>1. PICK e \in listing[q].left :
          /\ Examine(q, e)
          /\ Check(q, IF e.folder THEN Entry(place, e.name) # Symlink ELSE IsFile(Entry(place, e.name)), "walked", "2")
    BY <1>9 DEF ExamineWalked
  <2>2. pc[q] = "walked" /\ UNCHANGED number /\ Peeks(q)
    BY <1>5, <1>9, <2>1 DEF ExamineWalked, At
  <2>3. OutputOK'
    BY <1>3, <1>4, <2>1 DEF OutputOK, Examine
  <2>4. CASE IF e.folder THEN Entry(place, e.name) # Symlink ELSE IsFile(Entry(place, e.name))
    <3>1. Goto(q, "walked")
      BY <2>1, <2>4 DEF Check
    <3>2. Examining(q)
      BY <2>2, <3>1, Went DEF Examining
    <3> QED
      BY <1>2, <2>1, <2>2, <2>4, <3>1, <3>2, ExamineStep
  <2>5. CASE ~(IF e.folder THEN Entry(place, e.name) # Symlink ELSE IsFile(Entry(place, e.name)))
    <3>1. Exit(q, "2")
      BY <2>1, <2>5 DEF Check
    <3> QED
      BY <1>6, <2>2, <2>3, <3>1
  <2> QED
    BY <2>4, <2>5
<1>10. CASE ComparePaths(q)
  <2>1. pc[q] = "walked" /\ AllExamined(q) /\ Rewind(q) /\ UNCHANGED listing /\ Peeks(q)
    BY <1>5, <1>10 DEF ComparePaths, At
  <2>2. CASE FilesWalked(q) \ {Readme} = ToSet(CorpusPaths)
    BY <1>10, <2>1, <2>2, NamesStep DEF ComparePaths, Names, Check
  <2>3. CASE FilesWalked(q) \ {Readme} # ToSet(CorpusPaths)
    BY <1>6, <1>7, <1>10, <2>1, <2>3 DEF ComparePaths, Check
  <2> QED
    BY <2>2, <2>3
<1>11. CASE SizeManaged(q)
  <2>1. /\ pc[q] = "corpus-size" /\ number[q] # Len(Paths(q)) /\ UNCHANGED <<number, listing>> /\ Peeks(q)
        /\ \/ Exit(q, "2") \/ Exit(q, "1")
           \/ Size(Entry(Target(q), Paths(q)[number[q] + 1])) = "right" /\ Goto(q, "corpus-read")
    BY <1>2, <1>5, <1>11 DEF SizeManaged, At, LastPath, walking, Check
  <2>2. CASE Exit(q, "2") \/ Exit(q, "1")
    BY <1>6, <1>7, <2>1, <2>2
  <2> QED
    BY <2>1, <2>2, SizeStep DEF Sizing
<1>12. CASE ReadManaged(q)
  <2>1. PICK s : s = Paths(q)[number[q] + 1]
    OBVIOUS
  <2>2. /\ pc[q] = "corpus-read" /\ Advance(q) /\ UNCHANGED listing /\ Peeks(q)
        /\ \/ Exit(q, "2") \/ Exit(q, "1")
           \/ Entry(Target(q), s).bytes = Expected(q, s) /\ Goto(q, "corpus-size")
    BY <1>2, <1>5, <1>12, <2>1 DEF ReadManaged, At, Check
  <2>3. CASE Exit(q, "2") \/ Exit(q, "1")
    BY <1>6, <1>7, <2>2, <2>3
  <2> QED
    BY <2>1, <2>2, <2>3, ReadStep DEF Collating
<1>13. CASE EndOfCheck(q)
  <2>1. /\ pc[q] = "corpus-size" /\ number[q] = Len(Paths(q)) /\ UNCHANGED <<number, listing>> /\ Peeks(q)
        /\ Goto(q, "corpus-manifest") \/ Exit(q, "0")
    BY <1>2, <1>5, <1>13 DEF EndOfCheck, At, LastPath, walking
  <2>2. CASE Goto(q, "corpus-manifest")
    <3>1. /\ Glances(q) /\ OnlyRun(q) /\ DOMAIN fd' = Runs /\ pc'[q] = "corpus-manifest" /\ exit'[q] # "0"
      BY <1>1, <2>1, <2>2, PeekFacts
    <3>2. Elsewhere(q)
      BY <2>1, <3>1 DEF Elsewhere, Glances, Preparing
    <3> QED
      BY <3>1, <3>2, ElsewhereStep
  <2> QED
    BY <2>1, <2>2, VerdictStep
<1> QED
  BY <1>8, <1>9, <1>10, <1>11, <1>12, <1>13

LEMMA ReportsCheckDirects ==
  ASSUME TypeOK, Tied, DirectoriesInv, NEW q \in Runs,
         ListReports(q) \/ ExamineReport(q) \/ CompareNames(q) \/ SizePage(q) \/ ReadPage(q) \/ EndOfReportsCheck(q)
  PROVE DirectoriesInv'
<1>1. /\ pc[q] \in {"reports-list", "reports-entries", "reports-size", "reports-read"} /\ pc[q] # "ended" /\ pc[q] # "begin"
  BY DEF ListReports, ExamineReport, CompareNames, SizePage, ReadPage, EndOfReportsCheck, At
<1>2. /\ ~OfCorpus(q) /\ Checking(q) /\ Target(q) = fd[q] /\ Paths(q) = ReportPaths /\ Page(q) = Paths(q)[number[q] + 1]
      /\ \A s : Expected(q, s) = ReportBytes(managed[q], s)
  BY <1>1, CheckerFacts DEF Target, Paths, Page, Expected
<1>3. OutputOK /\ DOMAIN listing = Runs /\ DOMAIN number = Runs
  BY DEF DirectoriesInv, OutputOK, TypeOK, ControlOK
<1>4. UNCHANGED <<holds, request, others, found, place, fd, managed>>
  BY DEF ListReports, ExamineReport, CompareNames, SizePage, ReadPage, EndOfReportsCheck, Looks, Deriving,
         outputs, circumstances, walking, history
<1>5. ASSUME UNCHANGED number \/ Advance(q) \/ Rewind(q),
             UNCHANGED listing \/ (\E d : List(q, d)) \/ (\E e \in listing[q].left : Examine(q, e))
      PROVE Peeks(q)
  BY <1>3, <1>4, <1>5 DEF Peeks, Advance, Rewind, List, Examine
<1>6. ASSUME NEW e \in {"1", "2"}, Exit(q, e), Peeks(q), OutputOK' PROVE DirectoriesInv'
  <2>1. Glances(q) /\ OnlyRun(q) /\ Halts(q)
    BY <1>1, <1>6, PeekFacts DEF Halts
  <2> QED
    BY <1>6, <2>1, HaltStep
<1>7. UNCHANGED listing => OutputOK'
  BY <1>3, <1>4 DEF OutputOK
<1>8. CASE ListReports(q)
  BY <1>2, <1>5, <1>8, ListStep DEF ListReports, Lists, At
<1>9. CASE ExamineReport(q)
  <2>1. PICK e \in listing[q].left :
          /\ Examine(q, e)
          /\ Check(q, IsFile(Entry(fd[q], e.name)), "reports-entries", "2")
    BY <1>9 DEF ExamineReport
  <2>2. pc[q] = "reports-entries" /\ UNCHANGED number /\ Peeks(q)
    BY <1>5, <1>9, <2>1 DEF ExamineReport, At
  <2>3. OutputOK'
    BY <1>3, <1>4, <2>1 DEF OutputOK, Examine
  <2>4. CASE IsFile(Entry(fd[q], e.name))
    <3>1. Goto(q, "reports-entries")
      BY <2>1, <2>4 DEF Check
    <3>2. Examining(q)
      BY <2>2, <3>1, Went DEF Examining
    <3> QED
      BY <1>2, <2>1, <2>2, <2>4, <3>1, <3>2, ExamineStep
  <2>5. CASE ~IsFile(Entry(fd[q], e.name))
    <3>1. Exit(q, "2")
      BY <2>1, <2>5 DEF Check
    <3> QED
      BY <1>6, <2>2, <2>3, <3>1
  <2> QED
    BY <2>4, <2>5
<1>10. CASE CompareNames(q)
  <2>1. pc[q] = "reports-entries" /\ AllExamined(q) /\ Rewind(q) /\ UNCHANGED listing /\ Peeks(q)
    BY <1>5, <1>10 DEF CompareNames, At
  <2>2. CASE {e.name : e \in listing[q].entries} = ToSet(ReportPaths)
    BY <1>10, <2>1, <2>2, NamesStep DEF CompareNames, Names, Check
  <2>3. CASE {e.name : e \in listing[q].entries} # ToSet(ReportPaths)
    BY <1>6, <1>7, <1>10, <2>1, <2>3 DEF CompareNames, Check
  <2> QED
    BY <2>2, <2>3
<1>11. CASE SizePage(q)
  <2>1. /\ pc[q] = "reports-size" /\ number[q] # Len(Paths(q)) /\ UNCHANGED <<number, listing>> /\ Peeks(q)
        /\ \/ Exit(q, "2") \/ Exit(q, "1")
           \/ Size(Entry(Target(q), Paths(q)[number[q] + 1])) = "right" /\ Goto(q, "reports-read")
    BY <1>2, <1>5, <1>11 DEF SizePage, At, LastPage, walking, Check
  <2>2. CASE Exit(q, "2") \/ Exit(q, "1")
    BY <1>6, <1>7, <2>1, <2>2
  <2> QED
    BY <2>1, <2>2, SizeStep DEF Sizing
<1>12. CASE ReadPage(q)
  <2>1. PICK s : s = Paths(q)[number[q] + 1]
    OBVIOUS
  <2>2. /\ pc[q] = "reports-read" /\ Advance(q) /\ UNCHANGED listing /\ Peeks(q)
        /\ \/ Exit(q, "2") \/ Exit(q, "1")
           \/ Entry(Target(q), s).bytes = Expected(q, s) /\ Goto(q, "reports-size")
    BY <1>2, <1>5, <1>12, <2>1 DEF ReadPage, At, Check
  <2>3. CASE Exit(q, "2") \/ Exit(q, "1")
    BY <1>6, <1>7, <2>2, <2>3
  <2> QED
    BY <2>1, <2>2, <2>3, ReadStep DEF Collating
<1>13. CASE EndOfReportsCheck(q)
  <2>1. /\ pc[q] = "reports-size" /\ number[q] = Len(Paths(q)) /\ UNCHANGED <<number, listing>> /\ Peeks(q) /\ Exit(q, "0")
    BY <1>2, <1>5, <1>13 DEF EndOfReportsCheck, At, LastPage, walking
  <2> QED
    BY <2>1, VerdictStep
<1> QED
  BY <1>8, <1>9, <1>10, <1>11, <1>12, <1>13

-----------------------------------------------------------------------------
(* The steps that are none of these. *)
Away == Undirected \cup {"ended", "corpus-check", "corpus-replay", "corpus-manifest", "replay", "reports-check",
                         "reports-look", "reports-open", "source-entries", "load", "reports-generate"}

\* A run that goes away from its directory has no more to answer for.
LEMMA AwayStep ==
  ASSUME TypeOK, Tied, DirectoriesInv, NEW q \in Runs, pc[q] # "begin", pc'[q] \in Away,
         exit'[q] # "0" \/ request[q].command \notin Directing,
         UNCHANGED <<holds, request, others, found, listing, place, fd>>, OnlyRun(q)
  PROVE DirectoriesInv'
<1>1. Elsewhere(q)
  BY DEF Elsewhere, Away, Undirected, Preparing, DirectoriesInv, OutputOK
<1> QED
  BY <1>1, ElsewhereStep

\* Where a run goes, others stay.
LEMMA GoesAlone ==
  ASSUME TypeOK, Tied, NEW q \in Runs, Goes(q),
         UNCHANGED <<fd, listing, found>>, UNCHANGED number \/ Advance(q) \/ Rewind(q),
         \A r \in Runs \ {q} : managed'[r] = managed[r]
  PROVE OnlyRun(q) /\ (exit'[q] = exit[q] \/ pc'[q] = "ended")
<1>1. DOMAIN pc = Runs /\ DOMAIN exit = Runs /\ DOMAIN number = Runs
  BY DEF TypeOK, ControlOK, Tied
<1>2. \A r \in Runs \ {q} : number'[r] = number[r]
  BY <1>1 DEF Advance, Rewind
<1>3. /\ \A r \in Runs \ {q} : pc'[r] = pc[r] /\ exit'[r] = exit[r]
      /\ exit'[q] = exit[q] \/ pc'[q] = "ended"
  <2>1. CASE UNCHANGED control
    BY <2>1 DEF control
  <2>2. ASSUME NEW e, Exit(q, e)
        PROVE /\ \A r \in Runs \ {q} : pc'[r] = pc[r] /\ exit'[r] = exit[r]
              /\ exit'[q] = exit[q] \/ pc'[q] = "ended"
    BY <1>1, <2>2 DEF Exit
  <2>3. ASSUME NEW s, Goto(q, s)
        PROVE /\ \A r \in Runs \ {q} : pc'[r] = pc[r] /\ exit'[r] = exit[r]
              /\ exit'[q] = exit[q] \/ pc'[q] = "ended"
    BY <1>1, <2>3 DEF Goto
  <2> QED
    BY <2>1, <2>2, <2>3 DEF Goes
<1> QED
  BY <1>2, <1>3 DEF OnlyRun, Stays

\* Builds and measurements leave the directories alone.
LEMMA BuildFrame ==
  ASSUME NEW q \in Runs, BuildStep(q)
  PROVE /\ UNCHANGED <<holds, others, found, listing, place, fd, loose>>
        /\ UNCHANGED number \/ Advance(q) \/ Rewind(q)
<1> USE DEF Looks, ReadsNothing, outputs, circumstances, history, walking
<1>1. CASE PreflightOutput(q) \/ OpenVersion(q) \/ ReadVersion(q)
  BY <1>1 DEF PreflightOutput, OpenVersion, ReadVersion
<1>2. CASE CopySource(q)
  BY <1>2 DEF CopySource, OpenSource, RefuseSource, TakeSource
<1>3. CASE ListPackage(q) \/ StagedOnce(q) \/ StagedTwice(q)
  BY <1>3 DEF ListPackage, StagedOnce, StagedTwice, EndOfFirstPass
<1>4. CASE IdentifyEnvironment(q) \/ BuildOnce(q) \/ CompareBuilds(q)
  BY <1>4 DEF IdentifyEnvironment, BuildOnce, CompareBuilds
<1>5. CASE Publish(q)
  BY <1>5 DEF Publish, Disturbs
<1> QED
  BY <1>1, <1>2, <1>3, <1>4, <1>5 DEF BuildStep

LEMMA MeasureFrame ==
  ASSUME NEW q \in Runs, MeasureStep(q)
  PROVE UNCHANGED <<holds, others, found, listing, place, fd, number, dist>>
<1> USE DEF TouchesNothing, TouchesLoose, Looks, ReadsNothing, outputs, circumstances, history, walking, Disturbs, Meets
<1>1. ASSUME NEW n \in LooseNames, CreateLoose(q, n) \/ IdentifyLoose(q, n) \/ WriteFails(q, n) \/ Recognize(q, n) \/ Withdraw(q, n)
      PROVE UNCHANGED <<holds, others, found, listing, place, fd, number, dist>>
  BY <1>1 DEF CreateLoose, IdentifyLoose, WriteFails, Recognize, Withdraw
<1>2. ASSUME NEW n, NEW b, WriteLoose(q, n, b)
      PROVE UNCHANGED <<holds, others, found, listing, place, fd, number, dist>>
  BY <1>2 DEF WriteLoose
<1>3. CASE ReadExactInput(q) \/ CompareManifest(q) \/ VerifySemantics(q)
  BY <1>3 DEF ReadExactInput, CompareManifest, VerifySemantics
<1>4. CASE RequireNewPath(q) \/ ValidatedPython(q) \/ RunChild(q) \/ ChildFails(q) \/ SeriesDiffer(q) \/ EndOfMeasurement(q)
  BY <1>4 DEF RequireNewPath, ValidatedPython, RunChild, ChildFails, SeriesDiffer, EndOfMeasurement
<1> QED
  BY <1>1, <1>2, <1>3, <1>4 DEF MeasureStep

LEMMA OutsideDirects ==
  ASSUME TypeOK, Tied, DirectoriesInv, NEW q \in Runs, BuildStep(q) \/ MeasureStep(q), UNCHANGED managed
  PROVE DirectoriesInv'
<1>1. /\ Goes(q) /\ UNCHANGED request /\ pc[q] \in Undirected /\ (pc'[q] \in Undirected \/ pc'[q] = "ended")
  BY BuildGoes, MeasureGoes
<1>2. UNCHANGED <<holds, others, found, listing, place, fd>> /\ (UNCHANGED number \/ Advance(q) \/ Rewind(q))
  BY BuildFrame, MeasureFrame
<1>3. OnlyRun(q)
  BY <1>1, <1>2, GoesAlone
<1>4. request[q].command \notin Directing /\ pc[q] # "begin"
  BY <1>1 DEF Tied, Tie, Undirected
<1>5. pc'[q] \in Away
  BY <1>1 DEF Away
<1> QED
  BY <1>1, <1>2, <1>3, <1>4, <1>5, AwayStep

LEMMA ReplayDirects ==
  ASSUME TypeOK, Tied, DirectoriesInv, NEW q \in Runs, UNCHANGED managed,
         LoadManifest(q) \/ ReplayScenario(q) \/ ReplayValidation(q) \/ ReplayFails(q)
  PROVE DirectoriesInv'
<1>1. /\ pc[q] # "begin" /\ UNCHANGED <<holds, request, others, found, listing, place, fd>>
      /\ number' = number \/ Rewind(q)
      /\ \/ \E e \in {"1", "2"} : Exit(q, e)
         \/ \E s \in {"replay", "corpus-replay"} : Goto(q, s) /\ pc[q] # "ended"
  BY DEF LoadManifest, ReplayScenario, ReplayValidation, ReplayFails, Check, At, Looks, outputs, circumstances, history, walking, Meets
<1>2. exit[q] # "0" /\ pc'[q] \in Away /\ (exit'[q] = exit[q] \/ exit'[q] \in {"1", "2"})
  <2>1. pc[q] # "ended"
    BY DEF LoadManifest, ReplayScenario, ReplayValidation, ReplayFails, At
  <2> QED
    BY <1>1, <2>1, Went, Active DEF Away
<1>3. OnlyRun(q)
  <2>1. DOMAIN pc = Runs /\ DOMAIN exit = Runs /\ DOMAIN number = Runs
    BY DEF TypeOK, ControlOK, Tied
  <2>2. \A r \in Runs \ {q} : number'[r] = number[r]
    BY <1>1, <2>1 DEF Rewind
  <2>3. \A r \in Runs \ {q} : pc'[r] = pc[r] /\ exit'[r] = exit[r]
    BY <1>1, <2>1 DEF Exit, Goto
  <2> QED
    BY <1>1, <2>2, <2>3 DEF OnlyRun, Stays
<1> QED
  BY <1>1, <1>2, <1>3, AwayStep

LEMMA FindDirects ==
  ASSUME TypeOK, Tied, DirectoriesInv, NEW q \in Runs, FindCorpus(q) \/ FindReports(q), UNCHANGED managed
  PROVE DirectoriesInv'
<1>1. /\ Stills(q) /\ pc[q] # "begin" /\ pc[q] # "ended" /\ place' = place
  BY DEF FindCorpus, FindReports, At, Stills, Glances, Looks, outputs, circumstances, history, walking
<1>2. \/ Exit(q, "2")
      \/ Goto(q, "walk") /\ place \in Directories /\ OfCorpus(q)
      \/ Goto(q, "reports-open")
  BY CheckerFacts DEF FindCorpus, FindReports, Check
<1>3. OnlyRun(q)
  BY <1>1, <1>2, OneMoves DEF Stills, Glances
<1>4. CASE Exit(q, "2")
  <2>1. Halts(q)
    BY <1>4, Went DEF Halts
  <2> QED
    BY <1>1, <1>3, <2>1, HaltStep, StillFacts DEF Stills
<1>5. CASE Goto(q, "reports-open")
  <2>1. pc'[q] \in Away /\ exit'[q] # "0"
    BY <1>1, <1>5, Went, StillFacts DEF Away
  <2> QED
    BY <1>1, <1>3, <2>1, AwayStep DEF Stills, Glances
<1>6. CASE Goto(q, "walk") /\ place \in Directories /\ OfCorpus(q)
  <2>1. pc'[q] = "walk" /\ exit'[q] # "0" /\ Target(q)' \in Directories
    BY <1>1, <1>6, Went, StillFacts DEF Target
  <2>2. Elsewhere(q)
    BY <1>1, <2>1, StillFacts DEF Elsewhere, Preparing, Stills, Glances
  <2> QED
    BY <1>3, <2>2, ElsewhereStep
<1> QED
  BY <1>2, <1>4, <1>5, <1>6

\* Reports are derived before the directory is looked at.
LEMMA DerivingDirects ==
  ASSUME TypeOK, Tied, DirectoriesInv, NEW q \in Runs,
         BeginReports(q) \/ ReadInput(q) \/ EndOfBefore(q) \/ OpenLoaded(q) \/ LoadInput(q) \/ Evaluate(q)
           \/ CompareProvenance(q) \/ CompareEntries(q)
  PROVE DirectoriesInv'
<1> USE DEF Looks, outputs, circumstances, history, walking, control, At, Check
<1>1. CASE BeginReports(q) \/ ReadInput(q) \/ EndOfBefore(q) \/ OpenLoaded(q)
  <2>1. /\ pc[q] # "begin" /\ pc[q] # "ended" /\ UNCHANGED <<holds, request, others, found, listing, place, fd, managed>>
        /\ UNCHANGED number \/ Advance(q) \/ Rewind(q)
        /\ \/ UNCHANGED control /\ pc[q] \in {"source-entries", "load"}
           \/ Exit(q, "2") \/ Goto(q, "source-entries") \/ Goto(q, "load")
    BY <1>1 DEF BeginReports, Derives, ReadInput, EndOfBefore, OpenLoaded, OpenSource, RefuseSource, TakeSource,
                EndOfFirstPass, Deriving
  <2>2. pc'[q] \in Away /\ exit'[q] # "0"
    <3>1. exit[q] # "0"
      BY <2>1, Active
    <3>2. CASE UNCHANGED control /\ pc[q] \in {"source-entries", "load"}
      BY <3>1, <3>2 DEF Away
    <3>3. CASE Exit(q, "2") \/ Goto(q, "source-entries") \/ Goto(q, "load")
      <4>1. ASSUME NEW e \in {"1", "2"}, Exit(q, e) PROVE pc'[q] = "ended" /\ exit'[q] # "0"
        BY <4>1, Went
      <4>2. ASSUME NEW s \in {"source-entries", "load"}, Goto(q, s) PROVE pc'[q] = s /\ exit'[q] # "0"
        BY <3>1, <4>2, Went
      <4> QED
        BY <3>3, <4>1, <4>2 DEF Away
    <3> QED
      BY <2>1, <3>2, <3>3
  <2>3. Goes(q)
    BY <1>1, ReportsGoes DEF ReportsStep
  <2>4. OnlyRun(q)
    BY <2>1, <2>3, GoesAlone
  <2> QED
    BY <2>1, <2>2, <2>4, AwayStep
<1>2. CASE LoadInput(q) \/ Evaluate(q) \/ CompareProvenance(q) \/ CompareEntries(q)
  <2>1. /\ pc[q] # "begin" /\ pc[q] # "ended" /\ UNCHANGED <<holds, request, others, found, listing, place, fd, managed>>
        /\ UNCHANGED number \/ Advance(q) \/ Rewind(q)
        /\ \/ UNCHANGED control /\ pc[q] = "load"
           \/ Exit(q, "1") \/ Exit(q, "2") \/ Goto(q, "source-entries")
    BY <1>2 DEF LoadInput, Evaluate, CompareProvenance, CompareEntries, EntriesRead, Deriving
  <2>2. pc'[q] \in Away /\ exit'[q] # "0"
    <3>1. exit[q] # "0"
      BY <2>1, Active
    <3>2. CASE UNCHANGED control /\ pc[q] = "load"
      BY <3>1, <3>2 DEF Away
    <3>3. CASE Exit(q, "1") \/ Exit(q, "2") \/ Goto(q, "source-entries")
      <4>1. ASSUME NEW e \in {"1", "2"}, Exit(q, e) PROVE pc'[q] = "ended" /\ exit'[q] # "0"
        BY <4>1, Went
      <4>2. ASSUME NEW s \in {"source-entries", "load"}, Goto(q, s) PROVE pc'[q] = s /\ exit'[q] # "0"
        BY <3>1, <4>2, Went
      <4> QED
        BY <3>3, <4>1, <4>2 DEF Away
    <3> QED
      BY <2>1, <3>2, <3>3
  <2>3. Goes(q)
    BY <1>2, ReportsGoes DEF ReportsStep
  <2>4. OnlyRun(q)
    BY <2>1, <2>3, GoesAlone
  <2> QED
    BY <2>1, <2>2, <2>4, AwayStep
<1> QED
  BY <1>1, <1>2

\* One scenario more.
LEMMA Longer ==
  ASSUME NEW S, NEW s \in Seq(S), NEW e
  PROVE Len(Append(s, e)) = Len(s) + 1
<1>1. s \in Seq(S \cup {e}) /\ e \in S \cup {e}
  OBVIOUS
<1> QED
  BY <1>1, AppendProperties

\* When the last scenario is derived, all reports are known.
LEMMA EndOfScenarioDirects ==
  ASSUME TypeOK, Tied, DirectoriesInv, NEW q \in Runs, EndOfScenario(q)
  PROVE DirectoriesInv'
<1> DEFINE step == IF Len(managed[q]) + 1 = Len(ScenarioInputs) THEN OutputStep(q) ELSE "source-entries"
           entry == [inputs |-> Told(q, "first"), report |-> Told(q, "loaded")]
<1>1. /\ pc[q] = "source-entries" /\ UNCHANGED <<holds, request, others, found, listing, place, fd>> /\ Rewind(q)
      /\ managed' = [managed EXCEPT ![q] = Append(@, entry)] /\ Goto(q, step)
  BY DEF EndOfScenario, EntriesRead, At, Looks, outputs, circumstances, history
<1>2. /\ DOMAIN managed = Runs /\ managed[q] \in Seq(Entered) /\ DOMAIN number = Runs
  BY DEF TypeOK, ControlOK, ReadingOK
<1>3. pc'[q] = step /\ exit'[q] # "0"
  BY <1>1, Went, Active
<1>4. number'[q] = 0 /\ managed'[q] = Append(managed[q], entry)
  BY <1>1, <1>2 DEF Rewind
<1>5. Len(managed'[q]) = Len(managed[q]) + 1
  <2>1. Len(Append(managed[q], entry)) = Len(managed[q]) + 1
    BY <1>2, Longer
  <2> QED
    BY <1>4, <2>1
<1>6. OnlyRun(q)
  <2>1. Goes(q)
    BY ReportsGoes DEF ReportsStep
  <2> QED
    BY <1>1, <1>2, <2>1, GoesAlone
<1>7. CASE Len(managed[q]) + 1 = Len(ScenarioInputs)
  <2>1. pc'[q] \in {"reports-target", "reports-look"}
    BY <1>3, <1>7 DEF OutputStep
  <2>2. Deduced(q)'
    BY <1>4, <1>5, <1>7 DEF Deduced
  <2>3. Elsewhere(q)
    BY <1>1, <1>3, <2>1, <2>2 DEF Elsewhere, DirectoriesInv, OutputOK
  <2> QED
    BY <1>6, <2>3, ElsewhereStep
<1>8. CASE Len(managed[q]) + 1 # Len(ScenarioInputs)
  <2>1. pc'[q] \in Away
    BY <1>3, <1>8 DEF Away
  <2> QED
    BY <1>1, <1>3, <1>6, <2>1, AwayStep
<1> QED
  BY <1>7, <1>8

-----------------------------------------------------------------------------
(* The directories that are not used yet. *)
\* A step of q that leaves the directories as they are, or adds to one that is used.
Fits(q) ==
  /\ used \subseteq used' /\ used' \subseteq Directories /\ place' \in used' \cup {Absent, Symlink, Plain}
  /\ fd' = fd \/ (q \in Runs /\ \E d \in used' \cup {Absent, Symlink, Plain} : fd' = [fd EXCEPT ![q] = d])
  /\ holds' = holds \/ \E d \in used : \E s, x : Put(d, s, x)
  /\ DOMAIN replayed' = Runs /\ DOMAIN told' = Runs

LEMMA FittingStep ==
  ASSUME UsedInv, OutputOK, NEW q, Fits(q)
  PROVE UsedInv'
<1>1. \A r \in Runs : fd'[r] \in used' \cup {Absent, Symlink, Plain}
  BY DEF UsedInv, OutputOK, Fits
<1>2. ASSUME NEW d \in Directories \ used', NEW s \in Slots PROVE holds'[d][s] = Absent
  <2>1. d \in Directories \ used /\ holds[d][s] = Absent
    BY DEF UsedInv, Fits
  <2>2. holds'[d] = holds[d]
    BY <2>1 DEF Fits, Put, OutputOK
  <2> QED
    BY <2>1, <2>2
<1> QED
  BY <1>1, <1>2 DEF Fits, UsedInv

LEMMA MakePlaceFits ==
  ASSUME UsedInv, NEW q \in Runs, MakePlace(q), UNCHANGED <<fd, replayed, told>>
  PROVE Fits(q)
BY DEF MakePlace, Fits, UsedInv

LEMMA StillFits ==
  ASSUME UsedInv, NEW q \in Runs, UNCHANGED <<used, place, holds, fd>>, DOMAIN replayed' = Runs, DOMAIN told' = Runs
  PROVE Fits(q)
BY DEF Fits, UsedInv

LEMMA CreateFits ==
  ASSUME UsedInv, NEW q \in Runs, NEW d \in used \cup {Absent, Symlink, Plain}, NEW s, NEW next,
         CreateEntry(q, d, s, next), UNCHANGED <<replayed, told>>
  PROVE Fits(q)
<1>1. CASE d \in Directories /\ Entry(d, s) = Absent
  <2>1. d \in used
    BY <1>1, PlacesDiffer
  <2>2. Put(d, s, [by |-> q, bytes |-> Empty]) /\ fd' = [fd EXCEPT ![q] = d] /\ UNCHANGED <<used, place>>
    BY <1>1 DEF CreateEntry
  <2> QED
    BY <2>1, <2>2 DEF Fits, UsedInv
<1>2. CASE ~(d \in Directories /\ Entry(d, s) = Absent)
  <2>1. UNCHANGED <<used, place, holds, fd>>
    BY <1>2 DEF CreateEntry
  <2> QED
    BY <2>1, StillFits DEF UsedInv
<1> QED
  BY <1>1, <1>2

LEMMA FillFits ==
  ASSUME UsedInv, NEW q \in Runs, NEW s, NEW b, NEW next,
         FillEntry(q, s, b, next), UNCHANGED <<replayed, told>>
  PROVE Fits(q)
<1>1. CASE Entry(fd[q], s) = [by |-> q, bytes |-> Empty]
  <2>1. Entry(fd[q], s) # Absent
    BY <1>1, MadeEmpty, ByFacts DEF NoFiles
  <2>2. fd[q] \in used
    BY <2>1, PlacesDiffer DEF Entry, UsedInv
  <2>3. Put(fd[q], s, [by |-> q, bytes |-> b]) /\ UNCHANGED <<used, place, fd>>
    BY <1>1 DEF FillEntry
  <2> QED
    BY <2>2, <2>3 DEF Fits, UsedInv
<1>2. CASE Entry(fd[q], s) # [by |-> q, bytes |-> Empty]
  <2>1. UNCHANGED <<used, place, holds, fd>>
    BY <1>2 DEF FillEntry
  <2> QED
    BY <2>1, StillFits DEF UsedInv
<1> QED
  BY <1>1, <1>2

LEMMA CorpusFits ==
  ASSUME UsedInv, NEW q \in Runs, CorpusStep(q)
  PROVE Fits(q)
<1> USE DEF Looks, ReadsNothing, outputs, walking, NotReplaying, corpusVars
<1>0. UNCHANGED <<replayed, told>> => DOMAIN replayed' = Runs /\ DOMAIN told' = Runs
  BY DEF UsedInv
<1>1. CASE (ValidateTarget(q, "corpus-generate") \/ LookAtTarget(q) \/ InspectTarget(q) \/ EndOfCorpus(q)) /\ NotReplaying
  BY <1>0, <1>1, StillFits DEF ValidateTarget, LookAtTarget, InspectTarget, EndOfCorpus
<1>2. CASE (MakeTarget(q) \/ MakeParents(q)) /\ NotReplaying
  BY <1>0, <1>2, StillFits, MakePlaceFits DEF MakeTarget, MakeParents
<1>3. CASE CreateManaged(q) /\ NotReplaying
  BY <1>3, CreateFits DEF CreateManaged, UsedInv
<1>4. CASE FillManaged(q) /\ NotReplaying
  BY <1>4, FillFits DEF FillManaged
<1>5. CASE (FindCorpus(q) \/ WalkCorpus(q) \/ ExamineWalked(q) \/ ComparePaths(q)) /\ NotReplaying
  BY <1>0, <1>5, StillFits DEF FindCorpus, WalkCorpus, ExamineWalked, ComparePaths
<1>6. CASE (SizeManaged(q) \/ ReadManaged(q) \/ EndOfCheck(q)) /\ NotReplaying
  BY <1>0, <1>6, StillFits DEF SizeManaged, ReadManaged, EndOfCheck
<1>7. CASE LoadManifest(q) \/ ReplayScenario(q) \/ ReplayValidation(q) \/ ReplayFails(q)
  <2>1. UNCHANGED <<used, place, holds, fd>> /\ DOMAIN replayed' = Runs /\ DOMAIN told' = Runs
    BY <1>7 DEF LoadManifest, ReplayScenario, ReplayValidation, ReplayFails, UsedInv
  <2> QED
    BY <2>1, StillFits
<1> QED
  BY <1>1, <1>2, <1>3, <1>4, <1>5, <1>6, <1>7 DEF CorpusStep

LEMMA ReportsFits ==
  ASSUME UsedInv, NEW q \in Runs, ReportsStep(q), UNCHANGED corpusVars
  PROVE Fits(q)
<1> USE DEF Looks, ReadsNothing, outputs, walking, corpusVars
<1>0. UNCHANGED <<used, place, holds, fd>> => Fits(q)
  BY StillFits DEF UsedInv
<1>1. CASE BeginReports(q) \/ ReadInput(q) \/ EndOfBefore(q) \/ OpenLoaded(q)
  BY <1>0, <1>1 DEF BeginReports, ReadInput, EndOfBefore, OpenLoaded, OpenSource, RefuseSource, TakeSource, EndOfFirstPass
<1>2. CASE LoadInput(q) \/ Evaluate(q) \/ CompareProvenance(q) \/ CompareEntries(q) \/ EndOfScenario(q)
  BY <1>0, <1>2 DEF LoadInput, Evaluate, CompareProvenance, CompareEntries, EndOfScenario
<1>3. CASE ValidateTarget(q, "reports-target") \/ InspectOutput(q) \/ EndOfPages(q)
  BY <1>0, <1>3 DEF ValidateTarget, InspectOutput, EndOfPages
<1>4. CASE CreatePage(q)
  BY <1>4, CreateFits DEF CreatePage, UsedInv
<1>5. CASE FillPage(q)
  BY <1>5, FillFits DEF FillPage
<1>6. CASE OpenOutput(q) \/ OpenReports(q)
  <2>1. UNCHANGED <<used, place, holds, replayed, told>> /\ fd' = [fd EXCEPT ![q] = place]
    BY <1>6 DEF OpenOutput, OpenReports
  <2> QED
    BY <2>1 DEF Fits, UsedInv
<1>7. CASE FindReports(q) \/ ListReports(q) \/ ExamineReport(q) \/ CompareNames(q)
  BY <1>0, <1>7 DEF FindReports, ListReports, ExamineReport, CompareNames
<1>8. CASE SizePage(q) \/ ReadPage(q) \/ EndOfReportsCheck(q)
  BY <1>0, <1>8 DEF SizePage, ReadPage, EndOfReportsCheck
<1> QED
  BY <1>1, <1>2, <1>3, <1>4, <1>5, <1>6, <1>7, <1>8 DEF ReportsStep

LEMMA OtherFits ==
  ASSUME UsedInv, NEW q \in Runs, BuildStep(q) \/ MeasureStep(q), UNCHANGED corpusVars
  PROVE Fits(q)
<1> USE DEF Looks, outputs, TouchesNothing, TouchesLoose
<1>1. UNCHANGED <<holds, place, fd>>
  BY BuildFrame, MeasureFrame
<1>2. ASSUME BuildStep(q) PROVE UNCHANGED used
  <2>1. CASE PreflightOutput(q) \/ OpenVersion(q) \/ ReadVersion(q) \/ CopySource(q)
    BY <2>1 DEF PreflightOutput, OpenVersion, ReadVersion, CopySource, OpenSource, RefuseSource, TakeSource
  <2>2. CASE ListPackage(q) \/ StagedOnce(q) \/ StagedTwice(q)
    BY <2>2 DEF ListPackage, StagedOnce, StagedTwice, EndOfFirstPass
  <2>3. CASE IdentifyEnvironment(q) \/ BuildOnce(q) \/ CompareBuilds(q) \/ Publish(q)
    BY <2>3 DEF IdentifyEnvironment, BuildOnce, CompareBuilds, Publish
  <2> QED
    BY <1>2, <2>1, <2>2, <2>3 DEF BuildStep
<1>3. ASSUME MeasureStep(q) PROVE UNCHANGED used
  <2>1. ASSUME NEW n \in LooseNames, CreateLoose(q, n) \/ IdentifyLoose(q, n) \/ WriteFails(q, n) \/ Recognize(q, n) \/ Withdraw(q, n)
        PROVE UNCHANGED used
    BY <2>1 DEF CreateLoose, IdentifyLoose, WriteFails, Recognize, Withdraw
  <2>2. ASSUME NEW n, NEW b, WriteLoose(q, n, b) PROVE UNCHANGED used
    BY <2>2 DEF WriteLoose
  <2>3. CASE ReadExactInput(q) \/ CompareManifest(q) \/ VerifySemantics(q) \/ RequireNewPath(q) \/ ValidatedPython(q)
    BY <2>3 DEF ReadExactInput, CompareManifest, VerifySemantics, RequireNewPath, ValidatedPython
  <2>4. CASE RunChild(q) \/ ChildFails(q) \/ SeriesDiffer(q) \/ EndOfMeasurement(q)
    BY <2>4 DEF RunChild, ChildFails, SeriesDiffer, EndOfMeasurement
  <2> QED
    BY <1>3, <2>1, <2>2, <2>3, <2>4 DEF MeasureStep
<1> QED
  BY <1>1, <1>2, <1>3, StillFits DEF UsedInv, corpusVars

LEMMA UsedKept == DirectoriesInv /\ UsedInv /\ [Next]_vars => UsedInv'
<1> SUFFICES ASSUME DirectoriesInv, UsedInv, [Next]_vars PROVE UsedInv'
  OBVIOUS
<1>1. OutputOK
  BY DEF DirectoriesInv
<1>2. ASSUME NEW q \in Runs, Corpuses(q) \/ Reports(q) \/ Builds(q) \/ Measures(q) PROVE UsedInv'
  <2>1. Fits(q)
    BY <1>2, CorpusFits, ReportsFits, OtherFits DEF Corpuses, Reports, Builds, Measures
  <2> QED
    BY <1>1, <2>1, FittingStep
<1>3. ASSUME UNCHANGED <<used, place, fd, holds, corpusVars>> PROVE UsedInv'
  BY <1>3 DEF UsedInv, corpusVars
<1>4. CASE (\E r \in Runs : Start(r) \/ Break(r)) /\ UNCHANGED corpusVars
  BY <1>3, <1>4 DEF Start, Break, outputs, walking
<1>5. CASE (Edit \/ Change \/ Move) /\ UNCHANGED corpusVars
  <2>1. UNCHANGED <<replayed, told>> /\ DOMAIN replayed' = Runs /\ DOMAIN told' = Runs
    BY <1>5 DEF corpusVars, UsedInv
  <2>2. CASE Edit
    BY <1>3, <1>5, <2>2 DEF Edit, outputs, walking
  <2>3. CASE Move
    BY <1>1, <2>1, <2>3, FittingStep DEF Move, Fits, UsedInv, walking
  <2>4. CASE Change
    <3>1. UNCHANGED <<used, place, fd>> /\ (holds' = holds \/ \E d \in used : \E s, x : Put(d, s, x))
      BY <2>4 DEF Change, walking
    <3>2. Fits(Others)
      BY <2>1, <3>1 DEF Fits, UsedInv
    <3> QED
      BY <1>1, <3>2, FittingStep
  <2> QED
    BY <1>5, <2>2, <2>3, <2>4
<1>6. CASE UNCHANGED vars
  BY <1>3, <1>6 DEF vars, runVars, outputs, walking
<1> QED
  BY <1>2, <1>4, <1>5, <1>6 DEF Next

LEMMA UsedBegins == Init => UsedInv
<1> SUFFICES ASSUME Init PROVE UsedInv
  OBVIOUS
<1>1. PICK s \in Situations : place = s.place /\ holds = s.holds
  BY DEF Init, RunsInit
<1>2. used = {d \in Directories : place = d} /\ fd = [r \in Runs |-> Absent]
  BY DEF Init, RunsInit
<1>3. place \in Directories \cup {Absent, Symlink, Plain} /\ \A d \in Directories \ {place}, n \in Slots : holds[d][n] = Absent
  BY <1>1, SituationsAreWorlds
<1>4. DOMAIN replayed = Runs /\ DOMAIN told = Runs
  BY DEF Init, CorpusInit
<1> QED
  BY <1>2, <1>3, <1>4 DEF UsedInv

-----------------------------------------------------------------------------
(* All steps of a script. *)
LEMMA CorpusDirects ==
  ASSUME TypeOK, Tied, UsedInv, DirectoriesInv, NEW q \in Runs, CorpusStep(q), UNCHANGED managed
  PROVE DirectoriesInv'
<1>1. CASE ValidateTarget(q, "corpus-generate")
  BY <1>1, ValidateTargetDirects
<1>2. CASE LookAtTarget(q) \/ MakeTarget(q) \/ InspectTarget(q)
  BY <1>2, TargetDirects, FreshTargetDirects, InspectTargetDirects
<1>3. CASE MakeParents(q) \/ CreateManaged(q) \/ FillManaged(q) \/ EndOfCorpus(q)
  BY <1>3, CorpusGeneratorDirects
<1>4. CASE FindCorpus(q)
  BY <1>4, FindDirects
<1>5. CASE WalkCorpus(q) \/ ExamineWalked(q) \/ ComparePaths(q) \/ SizeManaged(q) \/ ReadManaged(q) \/ EndOfCheck(q)
  BY <1>5, CorpusCheckDirects
<1>6. CASE LoadManifest(q) \/ ReplayScenario(q) \/ ReplayValidation(q) \/ ReplayFails(q)
  BY <1>6, ReplayDirects
<1> QED
  BY <1>1, <1>2, <1>3, <1>4, <1>5, <1>6 DEF CorpusStep

LEMMA ReportsDirects ==
  ASSUME TypeOK, Tied, DirectoriesInv, NEW q \in Runs, ReportsStep(q)
  PROVE DirectoriesInv'
<1>1. CASE BeginReports(q) \/ ReadInput(q) \/ EndOfBefore(q) \/ OpenLoaded(q) \/ LoadInput(q) \/ Evaluate(q)
             \/ CompareProvenance(q) \/ CompareEntries(q)
  BY <1>1, DerivingDirects
<1>2. CASE EndOfScenario(q)
  BY <1>2, EndOfScenarioDirects
<1>3. CASE ValidateTarget(q, "reports-target") /\ Deriving
  BY <1>3, ValidateTargetDirects DEF Deriving
<1>4. CASE OpenOutput(q) \/ InspectOutput(q) \/ CreatePage(q) \/ FillPage(q) \/ EndOfPages(q)
  BY <1>4, OpenOutputDirects, InspectOutputDirects, ReportsGeneratorDirects
<1>5. CASE FindReports(q) \/ OpenReports(q)
  BY <1>5, FindDirects, OpenOutputDirects DEF FindReports, Deriving
<1>6. CASE ListReports(q) \/ ExamineReport(q) \/ CompareNames(q) \/ SizePage(q) \/ ReadPage(q) \/ EndOfReportsCheck(q)
  BY <1>6, ReportsCheckDirects
<1> QED
  BY <1>1, <1>2, <1>3, <1>4, <1>5, <1>6 DEF ReportsStep

-----------------------------------------------------------------------------
(* Beginnings, failures and others. *)
LEMMA StartDirects ==
  ASSUME TypeOK, Tied, DirectoriesInv, NEW q \in Runs, Start(q), UNCHANGED managed
  PROVE DirectoriesInv'
<1>1. /\ pc[q] = "begin" /\ pc'[q] = request[q].command /\ exit'[q] # "0" /\ request[q].command \in Commands
      /\ UNCHANGED <<holds, request, others, listing, place, fd, number, managed>>
      /\ found' = [found EXCEPT ![q] = World]
  BY Went, Active DEF Start, At, outputs, circumstances, walking, TypeOK, TreeOK
<1>2. /\ OutputOK /\ Deduced(q) /\ DOMAIN pc = Runs /\ DOMAIN exit = Runs /\ DOMAIN found = Runs
  BY DEF DirectoriesInv, OutputOK, TypeOK, ControlOK, Tied
<1>3. OnlyRun(q)
  BY <1>1, <1>2 DEF Start, Goto, OnlyRun, Stays
<1>4. OutputOK'
  BY <1>1, <1>2 DEF OutputOK
<1>5. Deduced(q)'
  BY <1>1, <1>2 DEF Deduced, Preparing, Commands, OfCorpus
<1>6. Adds(q)
  BY <1>1, <1>2 DEF Adds, OutputOK
<1>7. Grown(q)'
  BY <1>1, <1>2 DEF Grown, World
<1>8. ASSUME Settled \/ Apart PROVE Owned(q)'
  <2>1. Owned(q)
    BY <1>8 DEF DirectoriesInv
  <2> QED
    BY <1>1, <2>1 DEF Owned, OfCorpus, Checking, Paths, By
<1>9. Directs(q)'
  BY <1>1 DEF Directs, Reaches, Generates, Generating, Walks, Walking, Compares, Comparing, Succeeds, Commands
<1> QED
  BY <1>1, <1>3, <1>4, <1>5, <1>6, <1>7, <1>8, <1>9, DirectsStep

LEMMA BreakDirects ==
  ASSUME TypeOK, Tied, DirectoriesInv, NEW q \in Runs, Break(q), UNCHANGED managed
  PROVE DirectoriesInv'
<1>1. /\ pc[q] # "begin" /\ UNCHANGED <<holds, request, others, listing, place, fd, number, managed, found>>
      /\ \E e \in {"2", "interrupted", "killed"} : Exit(q, e)
  BY DEF Break, Meets, outputs, circumstances, walking
<1>2. pc'[q] = "ended" /\ exit'[q] # "0"
  BY <1>1, Went
<1>3. OnlyRun(q)
  BY <1>1, OneMoves
<1> QED
  BY <1>1, <1>2, <1>3, AwayStep DEF Away

LEMMA AsideDirects ==
  ASSUME TypeOK, Tied, DirectoriesInv, Edit \/ Change \/ Move \/ UNCHANGED vars, UNCHANGED managed
  PROVE DirectoriesInv'
<1>1. /\ UNCHANGED <<pc, exit, number, fd, listing, managed, found, request, others>>
  BY DEF Edit, Change, Move, Disturbs, control, walking, vars, runVars, circumstances, history
<1>2. OnlyRun(Others) /\ Others \notin Runs /\ OutputOK
  BY <1>1, OthersAreNoRun DEF OnlyRun, Stays, DirectoriesInv
<1>3. CASE UNCHANGED holds
  <2>1. Settled => UNCHANGED place
    BY DEF Edit, Change, Move, outputs, vars, runVars, Settled
  <2>2. OutputOK' /\ Adds(Others)
    BY <1>1, <1>2, <1>3, <2>1 DEF OutputOK, Adds
  <2> QED
    BY <1>1, <1>2, <2>2, DirectsStep
<1>4. CASE Change /\ holds' # holds
  <2>1. ~Settled /\ ~Apart
    BY <1>4 DEF Change, Settled, Apart
  <2>2. PICK x \in {[by |-> Others, bytes |-> b] : b \in Brought} \cup {Absent, Symlink, Folder}, d \in used, s \in Slots :
          Put(d, s, x)
    BY <1>4 DEF Change
  <2>3. x \in NoFiles \cup Written /\ d \in Directories
    <3>1. x \in NoFiles \cup Written
      BY <2>2 DEF NoFiles, Written, FileBytes
    <3>2. d \in Directories
      BY <1>2, <1>4, <2>2 DEF Put, OutputOK
    <3> QED
      BY <3>1, <3>2
  <2>4. OutputOK'
    BY <1>1, <1>2, <2>2, <2>3, PutTyped DEF OutputOK
  <2> QED
    BY <1>1, <1>2, <2>1, <2>4, DirectsStep
<1> QED
  BY <1>3, <1>4 DEF Edit, Move, outputs, vars, runVars

\* Whatever happens, the directories are what the invariant says.
LEMMA DirectoriesStep == IInv /\ Tied /\ UsedInv /\ DirectoriesInv /\ [Next]_vars => DirectoriesInv'
<1> SUFFICES ASSUME TypeOK, Tied, UsedInv, DirectoriesInv, [Next]_vars PROVE DirectoriesInv'
  BY DEF IInv
<1>1. ASSUME NEW r \in Runs, Corpuses(r) \/ Reports(r) \/ Builds(r) \/ Measures(r) PROVE DirectoriesInv'
  BY <1>1, CorpusDirects, ReportsDirects, OutsideDirects DEF Corpuses, Reports, Builds, Measures, reportVars
<1>2. ASSUME NEW r \in Runs, Start(r) \/ Break(r), UNCHANGED managed PROVE DirectoriesInv'
  BY <1>2, StartDirects, BreakDirects
<1>3. CASE (Edit \/ Change \/ Move \/ UNCHANGED vars) /\ UNCHANGED managed
  BY <1>3, AsideDirects
<1> QED
  BY <1>1, <1>2, <1>3 DEF Next, reportVars, vars

LEMMA DirectoriesBegin == Init => DirectoriesInv
<1> SUFFICES ASSUME Init PROVE DirectoriesInv
  OBVIOUS
<1>1. PICK s \in Situations : holds = s.holds
  BY DEF Init, RunsInit
<1>2. /\ pc = [r \in Runs |-> "begin"] /\ exit = [r \in Runs |-> "running"] /\ number = [r \in Runs |-> 0]
      /\ fd = [r \in Runs |-> Absent] /\ listing = [r \in Runs |-> [entries |-> {}, left |-> {}]]
      /\ found = [r \in Runs |-> Absent]
  BY DEF Init, RunsInit
<1>3. s.holds \in [Directories -> [Slots -> NoFiles \cup [by : {Others}, bytes : FileBytes]]]
  BY NothingIsWritten
<1>4. NoFiles \cup [by : {Others}, bytes : FileBytes] \subseteq NoFiles \cup Written
  BY DEF Written
<1>5. holds \in [Directories -> [Slots -> NoFiles \cup Written]]
  BY <1>1, <1>3, <1>4
<1>6. OutputOK
  BY <1>2, <1>5 DEF OutputOK
<1>7. ASSUME NEW r \in Runs PROVE Deduced(r) /\ Grown(r) /\ Owned(r) /\ Directs(r)
  <2>1. pc[r] = "begin" /\ exit[r] = "running" /\ number[r] = 0
    BY <1>2
  <2>2. Deduced(r) /\ Grown(r)
    BY <2>1 DEF Deduced, Grown, Preparing
  <2>3. ASSUME NEW d \in Directories, NEW t \in Slots PROVE ~By(r, holds[d][t])
    <3>1. holds[d][t] \in NoFiles \cup [by : {Others}, bytes : FileBytes]
      BY <1>1, <1>3
    <3> QED
      BY <3>1, ByFacts, OthersAreNoRun
  <2>4. Owned(r)
    BY <2>3 DEF Owned
  <2>5. Directs(r)
    BY <2>1 DEF Directs, Reaches, Generates, Generating, Walks, Walking, Compares, Comparing, Succeeds
  <2> QED
    BY <2>2, <2>4, <2>5
<1> QED
  BY <1>6, <1>7 DEF DirectoriesInv

-----------------------------------------------------------------------------
(* Series of children. *)
\* Division by the length of a series.
LEMMA Division ==
  ASSUME NEW a \in Nat
  PROVE /\ a % SeriesLength \in Nat /\ a % SeriesLength < SeriesLength /\ a \div SeriesLength \in Nat
        /\ a = SeriesLength * (a \div SeriesLength) + (a % SeriesLength)
BY EverySeriesHasASample

LEMMA WholeSeries ==
  ASSUME NEW f \in Nat
  PROVE (f * SeriesLength) % SeriesLength = 0
BY EverySeriesHasASample

LEMMA FirstIsEarlier ==
  ASSUME NEW k \in Nat \ {0}
  PROVE First(k) \in 1..k
BY EverySeriesHasASample, Division DEF First

LEMMA FirstOfAll ==
  ASSUME NEW k \in Nat \ {0}, k <= SeriesLength
  PROVE First(k) = 1
BY EverySeriesHasASample DEF First

\* A child begins a series or is in that of the one before it.
LEMMA FirstOfNext ==
  ASSUME NEW k \in Nat \ {0}
  PROVE First(k + 1) = k + 1 \/ First(k + 1) = First(k)
<1>1. PICK d : d = (k - 1) \div SeriesLength
  OBVIOUS
<1>2. PICK m : m = (k - 1) % SeriesLength
  OBVIOUS
<1>3. d \in Nat /\ m \in Nat /\ m < SeriesLength /\ k - 1 = SeriesLength * d + m
  BY <1>1, <1>2, Division
<1>4. CASE m + 1 = SeriesLength
  <2>1. k = (d + 1) * SeriesLength
    BY <1>3, <1>4, EverySeriesHasASample
  <2>2. k % SeriesLength = 0
    BY <1>3, <2>1, WholeSeries
  <2> QED
    BY <2>2 DEF First
<1>5. CASE m + 1 < SeriesLength
  <2>1. k = SeriesLength * d + (m + 1)
    BY <1>3, EverySeriesHasASample
  <2>2. k % SeriesLength = m + 1
    BY <1>3, <1>5, <2>1, EverySeriesHasASample
  <2> QED
    BY <1>2, <1>3, <2>2 DEF First
<1> QED
  BY <1>3, <1>4, <1>5, EverySeriesHasASample

\* A child and the series it is in.
LEMMA SeriesOf ==
  ASSUME NEW f \in Nat, NEW k \in 1..(f * SeriesLength)
  PROVE /\ First(k) = ((k - 1) \div SeriesLength) * SeriesLength + 1
        /\ ((k - 1) \div SeriesLength) + 1 \in 1..f
BY EverySeriesHasASample DEF First

\* Once its last series has been compared, all have the environment of the first.
LEMMA OneEnvironment ==
  ASSUME NEW S, NEW s \in Seq(S), Regular(s), Compatible(s),
         Len(s) > SeriesLength => s[First(Len(s))].environment = s[1].environment
  PROVE \A k \in DOMAIN s : s[k].environment = s[1].environment
<1> SUFFICES ASSUME NEW k \in DOMAIN s PROVE s[k].environment = s[1].environment
  OBVIOUS
<1>1. DOMAIN s = 1..Len(s) /\ Len(s) \in Nat /\ k \in 1..Len(s) /\ Len(s) \in Nat \ {0} /\ k \in Nat \ {0}
  BY LenProperties
<1>2. CASE First(k) # First(Len(s))
  BY <1>2 DEF Compatible
<1>3. CASE First(k) = First(Len(s))
  <2>1. s[k] = s[First(Len(s))]
    BY <1>3 DEF Regular
  <2>2. CASE Len(s) > SeriesLength
    BY <2>1, <2>2
  <2>3. CASE ~(Len(s) > SeriesLength)
    <3>1. First(Len(s)) = 1
      BY <1>1, <2>3, FirstOfAll, EverySeriesHasASample
    <3> QED
      BY <2>1, <3>1
  <2> QED
    BY <2>2, <2>3
<1> QED
  BY <1>2, <1>3

\* One more child that says what the first of its series did.
LEMMA OneMoreChild ==
  ASSUME NEW S, NEW s \in Seq(S), Regular(s), Compatible(s), NEW e \in S,
         LET k == Len(s) + 1
         IN /\ Len(s) > SeriesLength /\ First(k) = k => s[First(Len(s))].environment = s[1].environment
            /\ First(k) = k \/ e = s[First(k)]
  PROVE Regular(Append(s, e)) /\ Compatible(Append(s, e))
<1> DEFINE n == Len(s)
           t == Append(s, e)
<1>1. n \in Nat /\ DOMAIN s = 1..n /\ Len(t) = n + 1 /\ DOMAIN t = 1..(n + 1) /\ t[n + 1] = e /\ \A i \in 1..n : t[i] = s[i]
  <2>1. t \in Seq(S)
    BY AppendProperties
  <2>2. DOMAIN t = 1..Len(t) /\ n \in Nat /\ DOMAIN s = 1..n
    BY <2>1, LenProperties
  <2> QED
    BY <2>2, AppendProperties
<1>2. \A i \in 1..n : First(i) \in 1..n
  <2> SUFFICES ASSUME NEW i \in 1..n PROVE First(i) \in 1..n
    OBVIOUS
  <2>1. i \in Nat \ {0} /\ i <= n
    BY <1>1
  <2>2. First(i) \in 1..i
    BY <2>1, FirstIsEarlier
  <2> QED
    BY <1>1, <2>1, <2>2
<1>3. Regular(t)
  <2> SUFFICES ASSUME NEW k \in 1..(n + 1) PROVE t[k] = t[First(k)]
    BY <1>1 DEF Regular
  <2>1. CASE k \in 1..n
    BY <1>1, <1>2, <2>1 DEF Regular
  <2>2. CASE k = n + 1
    <3>1. CASE First(k) = k
      BY <3>1
    <3>2. CASE First(k) # k
      <4>1. First(k) \in 1..k
        BY <1>1, <2>2, FirstIsEarlier
      <4>2. First(k) \in 1..n
        BY <1>1, <2>2, <3>2, <4>1
      <4> QED
        BY <1>1, <2>2, <3>2, <4>2
    <3> QED
      BY <3>1, <3>2
  <2>3. k \in 1..n \/ k = n + 1
    BY <1>1
  <2> QED
    BY <2>1, <2>2, <2>3
<1>4. Compatible(t)
  <2> SUFFICES ASSUME NEW k \in 1..(n + 1), First(k) # First(n + 1) PROVE t[k].environment = t[1].environment
    BY <1>1 DEF Compatible
  <2>1. k \in 1..n
    BY <1>1
  <2>2. n \in Nat \ {0} /\ 1 \in 1..n /\ t[k] = s[k] /\ t[1] = s[1]
    BY <1>1, <2>1
  <2>3. CASE First(n + 1) = n + 1
    <3>1. Len(s) > SeriesLength => s[First(Len(s))].environment = s[1].environment
      BY <2>3
    <3>2. \A i \in DOMAIN s : s[i].environment = s[1].environment
      BY <3>1, OneEnvironment
    <3> QED
      BY <1>1, <2>1, <2>2, <3>2
  <2>4. CASE First(n + 1) # n + 1
    <3>1. First(n + 1) = First(n)
      BY <2>2, <2>4, FirstOfNext
    <3> QED
      BY <1>1, <2>1, <2>2, <3>1 DEF Compatible
  <2> QED
    BY <2>3, <2>4
<1> QED
  BY <1>3, <1>4

-----------------------------------------------------------------------------
(* The steps of a measurement, and those of others. *)
\* Who tells nothing new keeps what it has, also when its record goes.
LEMMA StaysConsistent ==
  ASSUME NEW r \in Runs, Consistent(r), observed'[r] = observed[r],
         RecordOf(r)' => RecordOf(r) /\ loose'.record = loose.record,
         \/ pc'[r] = pc[r]
         \/ /\ pc[r] # "ended" /\ (pc[r] \in MeasureSteps => pc'[r] \in MeasureSteps \cup {"ended"})
            /\ pc'[r] = "child" => observed[r] = <<>>
            /\ pc'[r] \in {"measured", "new-record", "write-record"} => pc[r] \in {"measured", "new-record"}
  PROVE Consistent(r)'
<1>1. Complete(r)' = Complete(r) /\ Record(r)' = Record(r)
  BY DEF Complete, Record
<1>2. RecordOf(r) => pc[r] = "ended" /\ Complete(r) /\ loose.record.bytes = Record(r)
  BY DEF Consistent, RecordOf
<1>3. CASE pc'[r] = pc[r]
  BY <1>1, <1>2, <1>3 DEF Consistent, RecordOf
<1>4. CASE /\ pc[r] # "ended" /\ (pc[r] \in MeasureSteps => pc'[r] \in MeasureSteps \cup {"ended"})
           /\ pc'[r] = "child" => observed[r] = <<>>
           /\ pc'[r] \in {"measured", "new-record", "write-record"} => pc[r] \in {"measured", "new-record"}
  <2>1. ~RecordOf(r)'
    BY <1>2, <1>4
  <2>2. pc'[r] \notin MeasureSteps \cup {"ended"} => observed'[r] = <<>>
    BY <1>4 DEF Consistent
  <2>3. pc'[r] = "child" => Regular(observed'[r]) /\ Compatible(observed'[r])
    BY <1>4 DEF Regular, Compatible
  <2>4. pc'[r] \in {"measured", "new-record", "write-record"} => Complete(r)
    BY <1>4 DEF Consistent
  <2> QED
    BY <1>1, <2>1, <2>2, <2>3, <2>4 DEF Consistent, RecordOf
<1> QED
  BY <1>3, <1>4

\* A run that does something else.
LEMMA ElsewhereKeepsMeasures ==
  ASSUME MeasureInv, UNCHANGED <<observed, loose>>, NEW q, \A r \in Runs \ {q} : pc'[r] = pc[r],
         q \in Runs => /\ pc[q] # "ended" /\ (pc[q] \in MeasureSteps => pc'[q] \in MeasureSteps \cup {"ended"})
                       /\ pc'[q] = "child" => observed[q] = <<>>
                       /\ pc'[q] \in {"measured", "new-record", "write-record"} => pc[q] \in {"measured", "new-record"}
  PROVE MeasureInv'
<1>1. \A r \in Runs : Consistent(r)'
  BY StaysConsistent DEF MeasureInv, RecordOf
<1> QED
  BY <1>1 DEF MeasureInv, LooseOK

\* The steps of the other scripts.
LEMMA CorpusIsNoMeasure ==
  ASSUME TypeOK, NEW r \in Runs, CorpusStep(r)
  PROVE /\ pc[r] \notin MeasureSteps \cup {"ended"} /\ pc'[r] \notin MeasureSteps /\ UNCHANGED loose
        /\ \A q \in Runs \ {r} : pc'[q] = pc[q]
<1> USE DEF At, Looks, outputs, Check, MeasureSteps, Goto, Exit, TypeOK, ControlOK
<1>1. CASE ValidateTarget(r, "corpus-generate") \/ LookAtTarget(r) \/ MakeTarget(r) \/ InspectTarget(r)
  BY <1>1 DEF ValidateTarget, LookAtTarget, MakeTarget, InspectTarget, MakePlace
<1>2. CASE MakeParents(r) \/ CreateManaged(r) \/ FillManaged(r) \/ EndOfCorpus(r)
  BY <1>2 DEF MakeParents, CreateManaged, FillManaged, EndOfCorpus, CreateEntry, FillEntry, MakePlace
<1>3. CASE FindCorpus(r) \/ WalkCorpus(r) \/ ExamineWalked(r) \/ ComparePaths(r)
  BY <1>3 DEF FindCorpus, WalkCorpus, ExamineWalked, ComparePaths
<1>4. CASE SizeManaged(r) \/ ReadManaged(r) \/ EndOfCheck(r)
  BY <1>4 DEF SizeManaged, ReadManaged, EndOfCheck
<1>5. CASE LoadManifest(r) \/ ReplayScenario(r) \/ ReplayValidation(r) \/ ReplayFails(r)
  BY <1>5 DEF LoadManifest, ReplayScenario, ReplayValidation, ReplayFails
<1> QED
  BY <1>1, <1>2, <1>3, <1>4, <1>5 DEF CorpusStep

LEMMA ReportsAreNoMeasure ==
  ASSUME TypeOK, NEW r \in Runs, ReportsStep(r)
  PROVE /\ pc[r] \notin MeasureSteps \cup {"ended"} /\ pc'[r] \notin MeasureSteps /\ UNCHANGED loose
        /\ \A q \in Runs \ {r} : pc'[q] = pc[q]
<1> USE DEF At, Looks, outputs, Check, MeasureSteps, Goto, Exit, TypeOK, ControlOK, control
<1>1. CASE BeginReports(r) \/ ReadInput(r) \/ EndOfBefore(r) \/ OpenLoaded(r)
  BY <1>1 DEF BeginReports, ReadInput, EndOfBefore, OpenLoaded, OpenSource, RefuseSource, TakeSource,
                    EndOfFirstPass, Derives
<1>2. CASE LoadInput(r) \/ Evaluate(r) \/ CompareProvenance(r) \/ CompareEntries(r)
  BY <1>2, ZenonT(60) DEF LoadInput, Evaluate, CompareProvenance, CompareEntries, EntriesRead
<1>3. CASE EndOfScenario(r)
  BY <1>3 DEF EndOfScenario, EntriesRead, OutputStep
<1>4. CASE ValidateTarget(r, "reports-target") \/ OpenOutput(r) \/ InspectOutput(r) \/ CreatePage(r) \/ FillPage(r) \/ EndOfPages(r)
  BY <1>4 DEF ValidateTarget, OpenOutput, InspectOutput, CreatePage, FillPage, EndOfPages, CreateEntry, FillEntry
<1>5. CASE FindReports(r) \/ OpenReports(r) \/ ListReports(r) \/ ExamineReport(r) \/ CompareNames(r)
  BY <1>5 DEF FindReports, OpenReports, ListReports, ExamineReport, CompareNames
<1>6. CASE SizePage(r) \/ ReadPage(r) \/ EndOfReportsCheck(r)
  BY <1>6 DEF SizePage, ReadPage, EndOfReportsCheck
<1> QED
  BY <1>1, <1>2, <1>3, <1>4, <1>5, <1>6 DEF ReportsStep

LEMMA BuildIsNoMeasure ==
  ASSUME TypeOK, NEW r \in Runs, BuildStep(r)
  PROVE /\ pc[r] \notin MeasureSteps \cup {"ended"} /\ pc'[r] \notin MeasureSteps /\ UNCHANGED loose
        /\ \A q \in Runs \ {r} : pc'[q] = pc[q]
<1> USE DEF At, Looks, outputs, Check, MeasureSteps, Goto, Exit, TypeOK, ControlOK, control
<1>1. CASE PreflightOutput(r) \/ OpenVersion(r)
  BY <1>1 DEF PreflightOutput, OpenVersion
<1>2. CASE ReadVersion(r)
  BY <1>2, ZenonT(60) DEF ReadVersion
<1>3. CASE CopySource(r) \/ ListPackage(r) \/ StagedOnce(r) \/ StagedTwice(r)
  BY <1>3 DEF CopySource, OpenSource, RefuseSource, TakeSource, ListPackage, StagedOnce, EndOfFirstPass, StagedTwice
<1>4. CASE IdentifyEnvironment(r) \/ BuildOnce(r) \/ CompareBuilds(r) \/ Publish(r)
  BY <1>4 DEF IdentifyEnvironment, BuildOnce, CompareBuilds, Publish
<1> QED
  BY <1>1, <1>2, <1>3, <1>4 DEF BuildStep

\* What a step puts in the place of a file is there.
LEMMA NowLoose ==
  ASSUME LooseOK, NEW n \in LooseNames, NEW x, loose' = [loose EXCEPT ![n] = x], IsFile(x) => x.bytes \in FileBytes \/ n = "record"
  PROVE LooseOK' /\ loose'[n] = x /\ \A m \in LooseNames \ {n} : loose'[m] = loose[m]
BY DEF LooseOK

\* The file that a run creates, fills or removes.
LEMMA FileKeepsMeasures ==
  ASSUME TypeOK, Tied, MeasureInv, NEW q \in Runs, NEW n \in LooseNames,
         CreateLoose(q, n) \/ IdentifyLoose(q, n) \/ WriteFails(q, n) \/ Recognize(q, n) \/ Withdraw(q, n)
  PROVE MeasureInv'
<1>1. UNCHANGED observed
  BY DEF CreateLoose, IdentifyLoose, WriteFails, Recognize, Withdraw, Measuring, measureVars
<1>2. \/ UNCHANGED loose
      \/ loose' = [loose EXCEPT ![n] = [by |-> q, bytes |-> Empty]]
      \/ loose' = [loose EXCEPT ![n] = Absent]
  BY DEF CreateLoose, IdentifyLoose, WriteFails, Recognize, Withdraw, TouchesNothing, TouchesLoose, Looks, outputs
<1>3. /\ n = "scenario" => pc[q] \notin MeasureSteps \cup {"ended"} /\ pc'[q] \notin MeasureSteps
      /\ n = "record" => /\ pc[q] \in MeasureSteps /\ pc'[q] \in MeasureSteps \cup {"ended"} /\ pc'[q] # "child"
                         /\ pc'[q] \in {"measured", "new-record", "write-record"} => pc[q] \in {"measured", "new-record"}
      /\ \A r \in Runs \ {q} : pc'[r] = pc[r]
  <2> USE DEF CreatesAt, CreatedAt, WritesAt, ComparesAt, RemovesAt, MeasureSteps, At, Goto, Exit, TypeOK, ControlOK
  <2>1. CASE n = "scenario"
    BY <2>1 DEF CreateLoose, IdentifyLoose, WriteFails, Recognize, Withdraw
  <2>2. CASE n = "record"
    BY <2>2 DEF CreateLoose, IdentifyLoose, WriteFails, Recognize, Withdraw
  <2> QED
    BY <2>1, <2>2 DEF LooseNames
<1>4. LooseOK' /\ \A r \in Runs : RecordOf(r)' => RecordOf(r) /\ loose'.record = loose.record
  <2>1. LooseOK
    BY DEF MeasureInv
  <2>2. CASE UNCHANGED loose
    BY <2>1, <2>2 DEF LooseOK, RecordOf, IsFile
  <2>3. ASSUME NEW x \in {[by |-> q, bytes |-> Empty], Absent}, loose' = [loose EXCEPT ![n] = x]
        PROVE LooseOK' /\ \A r \in Runs : RecordOf(r)' => RecordOf(r) /\ loose'.record = loose.record
    <3>1. IsFile(x) => x.bytes = Empty
      BY DEF IsFile
    <3>2. LooseOK' /\ loose'[n] = x /\ \A m \in LooseNames \ {n} : loose'[m] = loose[m]
      BY <2>1, <2>3, <3>1, NowLoose, EmptyIsBytes
    <3>3. CASE n = "record"
      BY <3>1, <3>2, <3>3 DEF RecordOf
    <3>4. CASE n = "scenario"
      BY <3>2, <3>4 DEF RecordOf, LooseNames, IsFile
    <3> QED
      BY <3>2, <3>3, <3>4 DEF LooseNames
  <2> QED
    BY <1>2, <2>2, <2>3
<1>5. \A r \in Runs : Consistent(r)'
  <2>1. ASSUME NEW r \in Runs PROVE Consistent(r)'
    <3>1. Consistent(r) /\ observed'[r] = observed[r]
      BY <1>1 DEF MeasureInv
    <3>2. \/ pc'[r] = pc[r]
          \/ /\ pc[r] # "ended" /\ (pc[r] \in MeasureSteps => pc'[r] \in MeasureSteps \cup {"ended"})
             /\ pc'[r] = "child" => observed[r] = <<>>
             /\ pc'[r] \in {"measured", "new-record", "write-record"} => pc[r] \in {"measured", "new-record"}
      BY <1>3 DEF LooseNames, MeasureSteps
    <3> QED
      BY <1>4, <3>1, <3>2, StaysConsistent
  <2> QED
    BY <2>1
<1> QED
  BY <1>1, <1>4, <1>5 DEF MeasureInv

\* The scenario is no record.
LEMMA WriteScenarioKeepsMeasures ==
  ASSUME TypeOK, Tied, MeasureInv, NEW q \in Runs, WriteLoose(q, "scenario", Scenario)
  PROVE MeasureInv'
<1>1. /\ UNCHANGED observed /\ pc[q] = "write-scenario" /\ Exit(q, "0")
      /\ UNCHANGED loose \/ loose' = [loose EXCEPT !["scenario"] = [by |-> q, bytes |-> Scenario]]
  BY DEF WriteLoose, WritesAt, At, Measuring, measureVars, TouchesNothing, TouchesLoose, Looks, outputs
<1>2. pc[q] \notin MeasureSteps \cup {"ended"} /\ pc'[q] = "ended" /\ \A r \in Runs \ {q} : pc'[r] = pc[r]
  BY <1>1 DEF MeasureSteps, Exit, TypeOK, ControlOK
<1>3. LooseOK' /\ loose'.record = loose.record
  <2>1. LooseOK
    BY DEF MeasureInv
  <2>2. CASE UNCHANGED loose
    BY <2>1, <2>2 DEF LooseOK, IsFile
  <2>3. CASE loose' = [loose EXCEPT !["scenario"] = [by |-> q, bytes |-> Scenario]]
    <3>1. [by |-> q, bytes |-> Scenario].bytes \in FileBytes
      BY DEF FileBytes
    <3>2. LooseOK' /\ \A m \in LooseNames \ {"scenario"} : loose'[m] = loose[m]
      BY <2>1, <2>3, <3>1, NowLoose DEF LooseNames
    <3> QED
      BY <3>2 DEF LooseNames
  <2> QED
    BY <1>1, <2>2, <2>3
<1>4. ASSUME NEW r \in Runs PROVE Consistent(r)'
  <2>1. Consistent(r) /\ observed'[r] = observed[r]
    BY <1>1 DEF MeasureInv
  <2>2. RecordOf(r)' => RecordOf(r) /\ loose'.record = loose.record
    BY <1>3 DEF RecordOf, IsFile
  <2> QED
    BY <1>2, <2>1, <2>2, StaysConsistent
<1> QED
  BY <1>1, <1>3, <1>4 DEF MeasureInv

\* What a file is made of.
LEMMA WriterAndBytes ==
  ASSUME NEW x, NEW r, NEW b, x = [by |-> r, bytes |-> b]
  PROVE x.by = r /\ x.bytes = b
OBVIOUS

\* The record says what the children have told.
LEMMA WriteRecordKeepsMeasures ==
  ASSUME TypeOK, Tied, MeasureInv, NEW q \in Runs, pc[q] = "write-record", WriteLoose(q, "record", Record(q))
  PROVE MeasureInv'
<1>1. /\ UNCHANGED observed /\ Exit(q, "0")
      /\ UNCHANGED loose \/ loose' = [loose EXCEPT !["record"] = [by |-> q, bytes |-> Record(q)]]
  BY DEF WriteLoose, Measuring, measureVars, TouchesNothing, TouchesLoose, Looks, outputs
<1>2. pc'[q] = "ended" /\ \A r \in Runs \ {q} : pc'[r] = pc[r]
  BY <1>1 DEF Exit, TypeOK, ControlOK
<1>3. LooseOK /\ Complete(q) /\ ~RecordOf(q)
  BY DEF MeasureInv, Consistent
<1>4. CASE UNCHANGED loose
  BY <1>1, <1>2, <1>3, <1>4, ElsewhereKeepsMeasures DEF MeasureSteps
<1>5. CASE loose' = [loose EXCEPT !["record"] = [by |-> q, bytes |-> Record(q)]]
  <2>1. LooseOK' /\ loose'.record = [by |-> q, bytes |-> Record(q)]
    BY <1>3, <1>5, NowLoose DEF LooseNames
  <2>0. loose'.record.by = q /\ loose'.record.bytes = Record(q)
    BY <2>1, WriterAndBytes
  <2>2. ASSUME NEW r \in Runs \ {q} PROVE Consistent(r)'
    <3>1. Consistent(r) /\ observed'[r] = observed[r]
      BY <1>1 DEF MeasureInv
    <3>2. loose'.record.by # r
      BY <2>0
    <3>3. ~RecordOf(r)'
      BY <3>2 DEF RecordOf
    <3> QED
      BY <1>2, <3>1, <3>3, StaysConsistent
  <2>3. Consistent(q)'
    <3>1. Complete(q)' /\ Record(q)' = Record(q)
      BY <1>1, <1>3 DEF Complete, Record
    <3>2. loose'.record.bytes = Record(q)'
      BY <2>0, <3>1
    <3>3. RecordOf(q)' => pc'[q] = "ended" /\ Complete(q)' /\ loose'.record.bytes = Record(q)'
      BY <1>2, <3>1, <3>2
    <3> QED
      BY <1>2, <3>1, <3>3 DEF Consistent, MeasureSteps
  <2> QED
    BY <1>1, <2>1, <2>2, <2>3 DEF MeasureInv
<1> QED
  BY <1>1, <1>4, <1>5

\* Steps that tell nothing and write nothing.
LEMMA ChecksKeepMeasures ==
  ASSUME TypeOK, Tied, MeasureInv, NEW q \in Runs,
         ReadExactInput(q) \/ CompareManifest(q) \/ VerifySemantics(q) \/ RequireNewPath(q) \/ ValidatedPython(q)
           \/ ChildFails(q) \/ SeriesDiffer(q)
  PROVE MeasureInv'
<1>1. UNCHANGED <<observed, loose>>
  BY DEF ReadExactInput, CompareManifest, VerifySemantics, RequireNewPath, ValidatedPython, ChildFails, SeriesDiffer,
         Measuring, measureVars, TouchesNothing, Looks, outputs
<1>2. /\ pc[q] # "ended" /\ (pc[q] \in MeasureSteps => pc'[q] \in MeasureSteps \cup {"ended"})
      /\ pc'[q] = "child" => pc[q] = "semantics"
      /\ pc'[q] \notin {"measured", "new-record", "write-record"}
      /\ \A r \in Runs \ {q} : pc'[r] = pc[r]
  BY DEF ReadExactInput, CompareManifest, VerifySemantics, RequireNewPath, ValidatedPython, ChildFails, SeriesDiffer,
         At, Check, Goto, Exit, MeasureSteps, TypeOK, ControlOK
<1>3. pc[q] = "semantics" => observed[q] = <<>>
  BY DEF MeasureInv, Consistent, MeasureSteps
<1> QED
  BY <1>1, <1>2, <1>3, ElsewhereKeepsMeasures

\* Once all have told, and the last series has been compared with the first, all agree.
LEMMA EndKeepsMeasures ==
  ASSUME TypeOK, Tied, MeasureInv, NEW q \in Runs, EndOfMeasurement(q)
  PROVE MeasureInv'
<1>1. /\ UNCHANGED <<observed, loose>> /\ pc[q] = "child" /\ Goto(q, "measured")
      /\ Len(observed[q]) = Len(ReportFormats) * SeriesLength /\ EarlierSeriesAgree(q)
  BY DEF EndOfMeasurement, AllMeasured, At, Measuring, measureVars, TouchesNothing, Looks, outputs
<1>2. pc'[q] = "measured" /\ \A r \in Runs \ {q} : pc'[r] = pc[r]
  BY <1>1 DEF Goto, TypeOK, ControlOK
<1>3. observed[q] \in Seq(Tellings) /\ Regular(observed[q]) /\ Compatible(observed[q]) /\ ~RecordOf(q)
  BY <1>1 DEF MeasureInv, Consistent
<1>4. SeriesBegins(q)
  <2>1. (Len(ReportFormats) * SeriesLength) % SeriesLength = 0 /\ Len(ReportFormats) * SeriesLength \in Nat
    BY WholeSeries, FormatsAreListed, EverySeriesHasASample
  <2> QED
    BY <1>1, <2>1 DEF SeriesBegins, First, Child
<1>5. Complete(q)
  <2>1. \A k \in DOMAIN observed[q] : observed[q][k].environment = observed[q][1].environment
    BY <1>1, <1>3, <1>4, OneEnvironment DEF EarlierSeriesAgree
  <2> QED
    BY <1>1, <1>3, <2>1 DEF Complete
<1>6. ASSUME NEW r \in Runs PROVE Consistent(r)'
  <2>1. CASE r = q
    <3>1. Complete(q)' /\ ~RecordOf(q)'
      BY <1>1, <1>3, <1>5 DEF Complete, RecordOf, IsFile
    <3> QED
      BY <1>2, <2>1, <3>1 DEF Consistent, MeasureSteps
  <2>2. CASE r # q
    <3>1. Consistent(r)
      BY DEF MeasureInv
    <3> QED
      BY <1>1, <1>2, <2>2, <3>1, StaysConsistent DEF RecordOf, IsFile
  <2> QED
    BY <2>1, <2>2
<1> QED
  BY <1>1, <1>6 DEF MeasureInv, LooseOK, IsFile

\* A child tells what the first of its series told.
LEMMA ChildKeepsMeasures ==
  ASSUME TypeOK, Tied, MeasureInv, NEW q \in Runs, RunChild(q)
  PROVE MeasureInv'
<1>1. PICK environment \in {0, 1} :
        LET heard == [environment |-> environment, report |-> Finds(loose.scenario)]
        IN /\ Check(q, heard.report \in {Scenario, Akin} /\ (SeriesBegins(q) \/ heard = observed[q][First(Child(q))]),
                   "child", "1")
           /\ observed' = [observed EXCEPT ![q] = Append(@, heard)]
  BY DEF RunChild
<1> DEFINE telling == [environment |-> environment, report |-> Finds(loose.scenario)]
           s == observed[q]
<1>2. UNCHANGED loose /\ pc[q] = "child" /\ EarlierSeriesAgree(q)
  BY DEF RunChild, At, TouchesNothing, Looks, outputs
<1>3. telling \in Tellings
  <2>1. Finds(loose.scenario) \in FileBytes \cup {Absent}
    BY DEF MeasureInv, LooseOK, Finds, LooseNames
  <2> QED
    BY <2>1 DEF Tellings
<1>4. /\ observed \in [Runs -> Seq(Tellings)] /\ s \in Seq(Tellings) /\ Regular(s) /\ Compatible(s) /\ ~RecordOf(q)
  BY <1>2 DEF MeasureInv, Consistent
<1>5. observed' = [observed EXCEPT ![q] = Append(s, telling)]
  BY <1>1
<1>6. /\ Append(s, telling) \in Seq(Tellings) /\ observed' \in [Runs -> Seq(Tellings)] /\ observed'[q] = Append(s, telling)
      /\ \A r \in Runs \ {q} : observed'[r] = observed[r]
  <2>1. Append(s, telling) \in Seq(Tellings)
    BY <1>3, <1>4, AppendProperties
  <2> QED
    BY <1>4, <1>5, <2>1
<1>7. /\ \A r \in Runs \ {q} : pc'[r] = pc[r]
      /\ \/ pc'[q] = "ended"
         \/ pc'[q] = "child" /\ (First(Len(s) + 1) = Len(s) + 1 \/ telling = s[First(Len(s) + 1)])
  <2>1. \/ Exit(q, "1")
        \/ Goto(q, "child") /\ (First(Len(s) + 1) = Len(s) + 1 \/ telling = s[First(Len(s) + 1)])
    BY <1>1 DEF Check, SeriesBegins, Child
  <2> QED
    BY <2>1 DEF Exit, Goto, TypeOK, ControlOK
<1>8. ASSUME NEW r \in Runs PROVE Consistent(r)'
  <2>1. CASE r # q
    <3>1. Consistent(r)
      BY DEF MeasureInv
    <3> QED
      BY <1>2, <1>6, <1>7, <2>1, <3>1, StaysConsistent DEF RecordOf, IsFile
  <2>2. CASE r = q
    <3>1. ~RecordOf(q)'
      BY <1>2, <1>4 DEF RecordOf, IsFile
    <3>2. ASSUME pc'[q] = "child" PROVE Regular(observed'[q]) /\ Compatible(observed'[q])
      <4>1. First(Len(s) + 1) = Len(s) + 1 \/ telling = s[First(Len(s) + 1)]
        BY <1>7, <3>2
      <4>2. Len(s) > SeriesLength /\ First(Len(s) + 1) = Len(s) + 1 => s[First(Len(s))].environment = s[1].environment
        BY <1>2 DEF EarlierSeriesAgree, SeriesBegins, Child
      <4> QED
        BY <1>3, <1>4, <1>6, <4>1, <4>2, OneMoreChild
    <3> QED
      BY <1>7, <2>2, <3>1, <3>2 DEF Consistent, MeasureSteps
  <2> QED
    BY <2>1, <2>2
<1> QED
  BY <1>2, <1>6, <1>8 DEF MeasureInv, LooseOK, IsFile

\* All steps of a measurement.
LEMMA MeasureStepKeepsMeasures ==
  ASSUME TypeOK, Tied, MeasureInv, NEW q \in Runs, MeasureStep(q)
  PROVE MeasureInv'
<1>1. CASE \E n \in LooseNames :
             CreateLoose(q, n) \/ IdentifyLoose(q, n) \/ WriteFails(q, n) \/ Recognize(q, n) \/ Withdraw(q, n)
  BY <1>1, FileKeepsMeasures
<1>2. CASE WriteLoose(q, "scenario", Scenario)
  BY <1>2, WriteScenarioKeepsMeasures
<1>3. CASE At(q, "write-record") /\ WriteLoose(q, "record", Record(q))
  BY <1>3, WriteRecordKeepsMeasures DEF At
<1>4. CASE ReadExactInput(q) \/ CompareManifest(q) \/ VerifySemantics(q) \/ RequireNewPath(q) \/ ValidatedPython(q)
             \/ ChildFails(q) \/ SeriesDiffer(q)
  BY <1>4, ChecksKeepMeasures
<1>5. CASE RunChild(q)
  BY <1>5, ChildKeepsMeasures
<1>6. CASE EndOfMeasurement(q)
  BY <1>6, EndKeepsMeasures
<1> QED
  BY <1>1, <1>2, <1>3, <1>4, <1>5, <1>6 DEF MeasureStep

\* What other programs put in the place of a file is no record of a run.
LEMMA ChangeKeepsMeasures ==
  ASSUME MeasureInv, Change, UNCHANGED observed
  PROVE MeasureInv'
<1>1. UNCHANGED pc
  BY DEF Change, control
<1>2. PICK x \in {[by |-> Others, bytes |-> b] : b \in Brought} \cup {Absent, Symlink, Folder} :
        UNCHANGED loose \/ \E n \in LooseNames : loose' = [loose EXCEPT ![n] = x]
  BY DEF Change
<1>3. CASE UNCHANGED loose
  <2>1. \A r \in Runs : Consistent(r)'
    BY <1>1, <1>3, StaysConsistent DEF MeasureInv, RecordOf
  <2> QED
    BY <1>3, <2>1 DEF MeasureInv, LooseOK
<1>4. ASSUME NEW n \in LooseNames, loose' = [loose EXCEPT ![n] = x] PROVE MeasureInv'
  <2>1. IsFile(x) => x.by \notin Runs /\ x.bytes \in FileBytes
    BY <1>2, OthersAreNoRun DEF IsFile, FileBytes
  <2>2. LooseOK
    BY DEF MeasureInv
  <2>3. LooseOK' /\ loose'[n] = x /\ \A m \in LooseNames \ {n} : loose'[m] = loose[m]
    BY <1>4, <2>1, <2>2, NowLoose
  <2>4. ASSUME NEW r \in Runs PROVE Consistent(r)'
    <3>1. Consistent(r)
      BY DEF MeasureInv
    <3>2. RecordOf(r)' => RecordOf(r) /\ loose'.record = loose.record
      <4>1. CASE n = "record"
        BY <2>1, <2>3, <4>1 DEF RecordOf
      <4>2. CASE n # "record"
        <5>1. loose'.record = loose.record
          BY <2>3, <4>2 DEF LooseNames
        <5> QED
          BY <5>1 DEF RecordOf, IsFile
      <4> QED
        BY <4>1, <4>2
    <3> QED
      BY <1>1, <3>1, <3>2, StaysConsistent
  <2> QED
    BY <2>3, <2>4 DEF MeasureInv
<1> QED
  BY <1>2, <1>3, <1>4

\* Whatever happens, a record is true of all children.
LEMMA MeasuresKept ==
  ASSUME TypeOK, Tied, MeasureInv, [Next]_vars
  PROVE MeasureInv'
<1>1. ASSUME NEW q \in Runs, Corpuses(q) \/ Reports(q) \/ Builds(q) PROVE MeasureInv'
  <2>1. /\ pc[q] \notin MeasureSteps \cup {"ended"} /\ pc'[q] \notin MeasureSteps /\ UNCHANGED loose
        /\ \A r \in Runs \ {q} : pc'[r] = pc[r]
    BY <1>1, CorpusIsNoMeasure, ReportsAreNoMeasure, BuildIsNoMeasure DEF Corpuses, Reports, Builds
  <2>2. UNCHANGED observed
    BY <1>1 DEF Corpuses, Reports, Builds, measureVars
  <2> QED
    BY <2>1, <2>2, ElsewhereKeepsMeasures DEF MeasureSteps
<1>2. ASSUME NEW q \in Runs, Measures(q) PROVE MeasureInv'
  BY <1>2, MeasureStepKeepsMeasures DEF Measures
<1>3. ASSUME NEW q \in Runs, Start(q) \/ Break(q), UNCHANGED measureVars PROVE MeasureInv'
  <2>1. UNCHANGED <<loose, observed>>
    BY <1>3 DEF Start, Break, outputs, measureVars
  <2>2. /\ pc[q] # "ended" /\ pc'[q] \notin MeasureSteps
        /\ pc[q] \in MeasureSteps => pc'[q] = "ended"
        /\ \A r \in Runs \ {q} : pc'[r] = pc[r]
    <3>1. CASE Start(q)
      <4>1. pc'[q] = request[q].command /\ pc[q] = "begin" /\ \A r \in Runs \ {q} : pc'[r] = pc[r]
        BY <3>1 DEF Start, At, Goto, TypeOK, ControlOK
      <4>2. request[q].command \in Commands
        BY <3>1 DEF Start, TypeOK, TreeOK
      <4> QED
        BY <4>1, <4>2 DEF Commands, MeasureSteps
    <3>2. CASE Break(q)
      BY <3>2 DEF Break, Exit, TypeOK, ControlOK, MeasureSteps
    <3> QED
      BY <1>3, <3>1, <3>2
  <2> QED
    BY <2>1, <2>2, ElsewhereKeepsMeasures DEF MeasureSteps
<1>4. CASE (Edit \/ Move) /\ UNCHANGED measureVars
  <2>1. UNCHANGED <<loose, observed, pc>>
    BY <1>4 DEF Edit, Move, outputs, control, measureVars
  <2>2. \A r \in Runs : Consistent(r)'
    BY <2>1, StaysConsistent DEF MeasureInv, RecordOf
  <2> QED
    BY <2>1, <2>2 DEF MeasureInv, LooseOK
<1>5. CASE Change /\ UNCHANGED measureVars
  BY <1>5, ChangeKeepsMeasures DEF measureVars
<1>6. CASE UNCHANGED vars
  <2>1. UNCHANGED <<loose, observed, pc>>
    BY <1>6 DEF vars, runVars, outputs, control, measureVars
  <2>2. \A r \in Runs : Consistent(r)'
    BY <2>1, StaysConsistent DEF MeasureInv, RecordOf
  <2> QED
    BY <2>1, <2>2 DEF MeasureInv, LooseOK
<1> QED
  BY <1>1, <1>2, <1>3, <1>4, <1>5, <1>6 DEF Next

LEMMA MeasuresBegin == Init => MeasureInv
<1> SUFFICES ASSUME Init PROVE MeasureInv
  OBVIOUS
<1>1. observed = [r \in Runs |-> <<>>] /\ pc = [r \in Runs |-> "begin"]
  BY DEF Init, RunsInit, MeasureInit
<1>2. loose \in [LooseNames -> NoFiles \cup [by : {Others}, bytes : FileBytes]]
  BY NothingIsWritten DEF Init, RunsInit
<1>3. LooseOK
  BY <1>2 DEF LooseOK, NoFiles, IsFile
<1>4. ASSUME NEW r \in Runs PROVE Consistent(r)
  <2>1. ~RecordOf(r)
    BY <1>2, OthersAreNoRun DEF RecordOf, NoFiles, IsFile, LooseNames
  <2> QED
    BY <1>1, <2>1 DEF Consistent, MeasureSteps
<1> QED
  BY <1>1, <1>3, <1>4 DEF MeasureInv

-----------------------------------------------------------------------------
(* The builds of a release. *)
\* What the other runs have taken and built is as it was.
Beside(r) ==
  /\ UNCHANGED dist /\ pc[r] # "ended"
  /\ \A q \in Runs \ {r} :
       /\ pc'[q] = pc[q] /\ taken'[q] = taken[q] /\ opened'[q] = opened[q]
       /\ plan'[q] = plan[q] /\ built'[q] = built[q]

\* A run that does nothing of this keeps what it has staged and built.
LEMMA StaysRepeated ==
  ASSUME NEW q \in Runs, Untaken(q), Repeated(q), pc'[q] = pc[q], taken'[q] = taken[q], opened'[q] = opened[q],
         plan'[q] = plan[q], built'[q] = built[q]
  PROVE Untaken(q)' /\ Repeated(q)'
BY DEF Untaken, Repeated

LEMMA BesideKeepsBuilds ==
  ASSUME BuildInv, NEW r \in Runs, Beside(r), Untaken(r)', Repeated(r)'
  PROVE BuildInv'
<1>1. ASSUME NEW q \in Runs PROVE Untaken(q)' /\ Repeated(q)'
  BY StaysRepeated DEF BuildInv, Beside
<1>2. ASSUME NEW q \in Runs, Released(q)' PROVE pc'[q] = "ended" /\ built'[q][1] = dist'.archives /\ built'[q][2] = dist'.archives
  <2>1. Released(q)
    BY <1>2 DEF Released, Beside
  <2>2. pc[q] = "ended" /\ built[q][1] = dist.archives /\ built[q][2] = dist.archives
    BY <2>1 DEF BuildInv
  <2>3. q # r
    BY <2>2 DEF Beside
  <2> QED
    BY <2>2, <2>3 DEF Beside
<1> QED
  BY <1>1, <1>2 DEF BuildInv

LEMMA ElsewhereKeepsBuilds ==
  ASSUME BuildInv, NEW r \in Runs, Beside(r), pc'[r] \notin Staging \cup Checked
  PROVE BuildInv'
<1>1. Untaken(r)' /\ Repeated(r)'
  BY DEF Untaken, Repeated, Staging, Checked
<1> QED
  BY <1>1, BesideKeepsBuilds

\* The steps of other scripts.
LEMMA IdleKeepsBuilds ==
  ASSUME TypeOK, BuildInv, NEW r \in Runs, Frame(r), Leaves(r)
  PROVE BuildInv'
<1>1. Idle(r)
  BY LeavesIsIdle
<1>2. Beside(r) /\ pc'[r] \notin Staging \cup Checked
  BY <1>1 DEF Idle, Still, Beside, Critical
<1> QED
  BY <1>2, ElsewhereKeepsBuilds

LEMMA ReportsAreNoBuild ==
  ASSUME TypeOK, NEW r \in Runs, ReportsStep(r), UNCHANGED buildVars
  PROVE Beside(r) /\ pc'[r] \notin Staging \cup Checked
<1> USE DEF At, Looks, outputs, Check, Goto, Exit, TypeOK, ControlOK, ReadingOK, control, Beside, Staging, Checked, buildVars,
            collecting, ReadsNothing
<1>1. CASE BeginReports(r) \/ ReadInput(r) \/ EndOfBefore(r) \/ OpenLoaded(r)
  BY <1>1 DEF BeginReports, ReadInput, EndOfBefore, OpenLoaded, OpenSource, RefuseSource, TakeSource,
                    EndOfFirstPass, Derives
<1>2. CASE LoadInput(r) \/ Evaluate(r) \/ CompareProvenance(r) \/ CompareEntries(r)
  BY <1>2, ZenonT(60) DEF LoadInput, Evaluate, CompareProvenance, CompareEntries, EntriesRead
<1>3. CASE EndOfScenario(r)
  BY <1>3 DEF EndOfScenario, EntriesRead, OutputStep
<1>4. CASE ValidateTarget(r, "reports-target") \/ OpenOutput(r) \/ InspectOutput(r) \/ CreatePage(r) \/ FillPage(r) \/ EndOfPages(r)
  BY <1>4 DEF ValidateTarget, OpenOutput, InspectOutput, CreatePage, FillPage, EndOfPages, CreateEntry, FillEntry
<1>5. CASE FindReports(r) \/ OpenReports(r) \/ ListReports(r) \/ ExamineReport(r) \/ CompareNames(r)
  BY <1>5 DEF FindReports, OpenReports, ListReports, ExamineReport, CompareNames
<1>6. CASE SizePage(r) \/ ReadPage(r) \/ EndOfReportsCheck(r)
  BY <1>6 DEF SizePage, ReadPage, EndOfReportsCheck
<1> QED
  BY <1>1, <1>2, <1>3, <1>4, <1>5, <1>6 DEF ReportsStep

\* The steps up to the staging.
LEMMA FreshKeepsBuilds ==
  ASSUME IInv, BuildInv, NEW r \in Runs, PreflightOutput(r) \/ OpenVersion(r)
  PROVE BuildInv'
<1>1. TypeOK
  BY DEF IInv
<1>2. Beside(r) /\ pc'[r] \notin Staging \cup Checked
  BY <1>1 DEF PreflightOutput, OpenVersion, At, Check, Goto, Exit, Looks, outputs, control, collecting, ReadsNothing, Building,
              buildVars, Beside, TypeOK, ControlOK, ReadingOK, Staging, Checked
<1> QED
  BY <1>2, ElsewhereKeepsBuilds

LEMMA ReadVersionKeepsBuilds ==
  ASSUME IInv, BuildInv, NEW r \in Runs, ReadVersion(r)
  PROVE BuildInv'
<1>1. TypeOK /\ RunInv(r)
  BY DEF IInv
<1>2. pc[r] = "version" /\ taken[r] = AllUnread /\ built[r] = <<>>
  BY <1>1 DEF ReadVersion, At, RunInv, BeforeAll, Fresh
<1>3. /\ UNCHANGED <<dist, built, taken>> /\ opened' = [opened EXCEPT ![r] = Absent] /\ plan' = [plan EXCEPT ![r] = BuildFiles]
      /\ \E s \in {"ended", "stage"} : pc' = [pc EXCEPT ![r] = s]
  BY DEF ReadVersion, Looks, outputs, Goto, Exit
<1>4. Beside(r)
  BY <1>1, <1>2, <1>3 DEF Beside, TypeOK, ControlOK, ReadingOK
<1>5. taken'[r] = AllUnread /\ opened'[r] = Absent /\ plan'[r] = BuildFiles /\ built'[r] = <<>> /\ pc'[r] \in {"ended", "stage"}
  BY <1>1, <1>2, <1>3 DEF TypeOK, ControlOK, ReadingOK
<1>6. Untaken(r)' /\ Repeated(r)'
  BY <1>5 DEF Untaken, Repeated, AllUnread, Staged
<1> QED
  BY <1>4, <1>6, BesideKeepsBuilds

\* A source is staged: it is one of those to be staged.
LEMMA CopyKeepsBuilds ==
  ASSUME IInv, BuildInv, NEW r \in Runs, CopySource(r)
  PROVE BuildInv'
<1>1. TypeOK /\ RunInv(r)
  BY DEF IInv
<1>2. pc[r] \in Staging /\ UNCHANGED <<dist, plan, built>>
  BY DEF CopySource, OpenSource, RefuseSource, TakeSource, Staging, Building, buildVars, Looks, outputs
<1>3. Untaken(r) /\ Repeated(r)
  BY DEF BuildInv
<1>4. /\ \A p \in Passes, f \in Sources \ Staged : taken[r][p][f] = Unread
      /\ opened[r] \in Staged \cup {Absent} /\ ToSet(plan[r]) \subseteq Staged
  BY <1>2, <1>3 DEF Untaken
<1>5. plan[r] \in Seq(Sources) /\ number[r] \in Nat /\ number[r] <= Len(plan[r])
  BY <1>1, <1>2 DEF TypeOK, ControlOK, RunInv, Plans
<1>6. CASE OpenSource(r, plan[r][number[r] + 1])
  <2>1. number[r] + 1 \in DOMAIN plan[r]
    BY <1>5, <1>6, NotTheLast, LenProperties DEF CopySource, OpenSource, AllCopied
  <2>2. plan[r][number[r] + 1] \in Staged
    BY <1>4, <2>1 DEF ToSet
  <2>3. UNCHANGED <<pc, taken>> /\ opened' = [opened EXCEPT ![r] = plan[r][number[r] + 1]]
    BY <1>6 DEF OpenSource, control
  <2>4. Beside(r) /\ opened'[r] \in Staged
    BY <1>1, <1>2, <2>2, <2>3 DEF Beside, TypeOK, ReadingOK, Staging
  <2>5. Untaken(r)' /\ Repeated(r)'
    BY <1>2, <1>3, <1>4, <2>3, <2>4 DEF Untaken, Repeated
  <2> QED
    BY <2>4, <2>5, BesideKeepsBuilds
<1>7. CASE RefuseSource(r, plan[r][number[r] + 1])
  <2>1. pc' = [pc EXCEPT ![r] = "ended"] /\ UNCHANGED <<opened, taken>>
    BY <1>7 DEF RefuseSource, Exit, ReadsNothing, collecting
  <2>2. Beside(r) /\ pc'[r] = "ended"
    BY <1>1, <1>2, <2>1 DEF Beside, TypeOK, ControlOK, Staging
  <2> QED
    BY <2>2, ElsewhereKeepsBuilds DEF Staging, Checked
<1>8. CASE TakeSource(r)
  <2>1. PICK c : taken' = [taken EXCEPT ![r][pass[r]][opened[r]] = c]
    BY <1>8 DEF TakeSource
  <2>2. UNCHANGED pc /\ opened' = [opened EXCEPT ![r] = Absent] /\ opened[r] \in Staged
    BY <1>4, <1>8 DEF TakeSource, control
  <2>3. opened'[r] = Absent /\ Beside(r)
    BY <1>1, <1>2, <2>1, <2>2 DEF Beside, TypeOK, ReadingOK, Staging
  <2>4. \A p \in Passes, f \in Sources \ Staged : taken'[r][p][f] = Unread
    <3>1. taken[r] \in [Passes -> Copies] /\ taken \in [Runs -> [Passes -> Copies]]
      BY <1>1 DEF TypeOK, ReadingOK
    <3>2. \A p \in Passes, f \in Sources \ {opened[r]} : taken'[r][p][f] = taken[r][p][f]
      BY <2>1, <3>1 DEF Copies
    <3> QED
      BY <1>4, <2>2, <3>2
  <2>5. Untaken(r)' /\ Repeated(r)'
    BY <1>2, <1>3, <1>4, <2>2, <2>3, <2>4 DEF Untaken, Repeated, Staging
  <2> QED
    BY <2>3, <2>5, BesideKeepsBuilds
<1> QED
  BY <1>6, <1>7, <1>8 DEF CopySource

\* What is listed is to be staged.
LEMMA ListPackageKeepsBuilds ==
  ASSUME IInv, BuildInv, NEW r \in Runs, ListPackage(r)
  PROVE BuildInv'
<1>1. TypeOK /\ RunInv(r) /\ Untaken(r) /\ Repeated(r)
  BY DEF IInv, BuildInv
<1>2. /\ pc[r] = "stage" /\ UNCHANGED <<dist, built, opened>> /\ pc' = [pc EXCEPT ![r] = "package"]
      /\ taken' = [taken EXCEPT ![r][pass[r]] =
                     [f \in Sources |-> IF f \in ToSet(PackageFiles) \ Listed THEN Nothing ELSE taken[r][pass[r]][f]]]
  BY DEF ListPackage, At, Goto, Looks, outputs
<1>3. PICK s \in Listings : plan' = [plan EXCEPT ![r] = BuildFiles \o s]
  BY DEF ListPackage
<1>4. s \in Seq(Sources) /\ ToSet(s) = Listed /\ BuildFiles \in Seq(Sources)
  BY ListingsAreSources, EverythingIsASource
<1>5. ToSet(BuildFiles \o s) \subseteq Staged
  <2>1. \A i \in 1..Len(BuildFiles \o s) : (BuildFiles \o s)[i] \in ToSet(BuildFiles) \cup ToSet(s)
    BY <1>4, ConcatProperties, LenProperties DEF ToSet
  <2>2. DOMAIN (BuildFiles \o s) = 1..Len(BuildFiles \o s)
    BY <1>4, ConcatProperties, LenProperties
  <2> QED
    BY <1>4, <2>1, <2>2 DEF ToSet, Listed, Staged
<1>6. pc'[r] = "package" /\ opened'[r] = opened[r] /\ plan'[r] = BuildFiles \o s /\ built'[r] = built[r]
  BY <1>1, <1>2, <1>3 DEF TypeOK, ControlOK
<1>7. Beside(r)
  BY <1>1, <1>2, <1>3 DEF Beside, TypeOK, ControlOK, ReadingOK
<1>8. \A p \in Passes, f \in Sources \ Staged : taken'[r][p][f] = taken[r][p][f]
  <2>1. taken[r] \in [Passes -> Copies] /\ taken \in [Runs -> [Passes -> Copies]]
    BY <1>1 DEF TypeOK, ReadingOK
  <2>2. \A f \in Sources \ Staged : f \notin ToSet(PackageFiles)
    BY DEF Staged
  <2> QED
    BY <1>2, <2>1, <2>2
<1>9. Untaken(r)'
  BY <1>1, <1>2, <1>5, <1>6, <1>8 DEF Untaken, Staging
<1>10. Repeated(r)'
  BY <1>1, <1>2, <1>6 DEF Repeated, Staging
<1> QED
  BY <1>7, <1>9, <1>10, BesideKeepsBuilds

\* Between the stages, and after them, nothing has been built.
LEMMA StagedKeepsBuilds ==
  ASSUME IInv, BuildInv, NEW r \in Runs, StagedOnce(r) \/ StagedTwice(r) \/ IdentifyEnvironment(r)
  PROVE BuildInv'
<1>1. TypeOK /\ Untaken(r) /\ Repeated(r)
  BY DEF IInv, BuildInv
<1>2. /\ pc[r] \in Staging \cup {"environment"} /\ UNCHANGED <<dist, built, opened, taken>>
      /\ plan' = plan \/ plan' = [plan EXCEPT ![r] = BuildFiles]
      /\ \E s \in {"stage", "environment", "package-build", "ended"} : pc' = [pc EXCEPT ![r] = s]
  BY DEF StagedOnce, EndOfFirstPass, StagedTwice, IdentifyEnvironment, At, Check, Goto, Exit, Looks, outputs, ReadsNothing,
         collecting, Building, buildVars, Staging
<1>3. /\ pc'[r] \in {"stage", "environment", "package-build", "ended"} /\ opened'[r] = opened[r] /\ built'[r] = built[r]
      /\ taken'[r] = taken[r] /\ (plan'[r] = plan[r] \/ plan'[r] = BuildFiles)
  BY <1>1, <1>2 DEF TypeOK, ControlOK
<1>4. Beside(r)
  BY <1>1, <1>2 DEF Beside, TypeOK, ControlOK, Staging
<1>5. Untaken(r)'
  BY <1>1, <1>2, <1>3 DEF Untaken, Staging, Checked, Staged
<1>6. built'[r] = <<>>
  BY <1>1, <1>2, <1>3 DEF Repeated
<1>7. Len(built'[r]) \in {0, 1, 2} /\ Len(built'[r]) # 2
  <2>1. Len(<<>>) \in {0, 1, 2} /\ Len(<<>>) # 2
    BY EmptySeq
  <2> QED
    BY <1>6, <2>1
<1>8. Repeated(r)'
  <2>1. pc'[r] # "publish"
    BY <1>3
  <2> QED
    BY <1>6, <1>7, <2>1 DEF Repeated
<1> QED
  BY <1>4, <1>5, <1>8, BesideKeepsBuilds

\* One more at the end of a sequence of at most one.
LEMMA Second ==
  ASSUME NEW S, NEW s \in Seq(S), Len(s) \in {0, 1}, NEW e \in S
  PROVE /\ s = <<>> => Len(Append(s, e)) = 1 /\ Append(s, e)[1] = e
        /\ s # <<>> => Len(Append(s, e)) = 2 /\ Append(s, e)[1] = s[1] /\ Append(s, e)[2] = e
<1>1. /\ Append(s, e)[Len(s) + 1] = e /\ Len(Append(s, e)) = Len(s) + 1
      /\ \A i \in 1..Len(s) : Append(s, e)[i] = s[i]
  BY AppendProperties
<1>2. s = <<>> <=> Len(s) = 0
  BY EmptySeq
<1>3. CASE Len(s) = 0
  BY <1>1, <1>2, <1>3
<1>4. CASE Len(s) = 1
  BY <1>1, <1>2, <1>4
<1> QED
  BY <1>3, <1>4

\* A sequence of a set is one of a larger set.
LEMMA Wider ==
  ASSUME NEW S, NEW s \in Seq(S), NEW T, S \subseteq T
  PROVE s \in Seq(T)
OBVIOUS

\* The first build is of the first stage, the second one of the last.
LEMMA BuildOnceKeepsBuilds ==
  ASSUME IInv, BuildInv, NEW r \in Runs, BuildOnce(r)
  PROVE BuildInv'
<1> DEFINE files == IF built[r] = <<>> THEN taken[r].first ELSE taken[r].last
<1>1. TypeOK /\ Untaken(r) /\ Repeated(r)
  BY DEF IInv, BuildInv
<1>2. /\ pc[r] = "package-build" /\ UNCHANGED <<dist, opened, taken, plan>> 
      /\ \E s \in {"package-build", "ended"} : pc' = [pc EXCEPT ![r] = s]
  BY DEF BuildOnce, At, Check, Goto, Exit, Looks, outputs, ReadsNothing, collecting
<1>3. PICK v, noise : built' = [built EXCEPT ![r] = Append(built[r], [version |-> v, files |-> files, noise |-> noise])]
  BY DEF BuildOnce
<1>4. PICK e : e = [version |-> v, files |-> files, noise |-> noise]
  OBVIOUS
<1>5. e.files = files
  BY <1>4
<1> HIDE DEF files
<1>6. built \in [Runs -> Seq(Archive)] /\ built' = [built EXCEPT ![r] = Append(built[r], e)]
  BY <1>1, <1>3, <1>4 DEF TypeOK, ControlOK
<1>7. built'[r] = Append(built[r], e) /\ \A q \in Runs \ {r} : built'[q] = built[q]
  BY <1>6
<1>8. pc'[r] \in {"package-build", "ended"} /\ opened'[r] = opened[r] /\ taken'[r] = taken[r] /\ plan'[r] = plan[r]
  BY <1>1, <1>2 DEF TypeOK, ControlOK
<1>9. Beside(r)
  BY <1>1, <1>2, <1>7 DEF Beside, TypeOK, ControlOK
<1>10. Untaken(r)'
  BY <1>1, <1>2, <1>8 DEF Untaken, Checked, Staging
<1>11. Len(built[r]) \in {0, 1} /\ built[r] \in Seq(Archive \cup {e}) /\ built'[r] = Append(built[r], e)
  <2>1. built[r] \in Seq(Archive)
    BY <1>6
  <2>2. built[r] \in Seq(Archive \cup {e})
    BY <2>1, Wider
  <2>3. Len(built[r]) \in {0, 1, 2} /\ Len(built[r]) < 2
    BY <1>1, <1>2 DEF Repeated, BuildOnce
  <2>4. \A n \in {0, 1, 2} : n < 2 => n \in {0, 1}
    OBVIOUS
  <2> QED
    BY <1>7, <2>2, <2>3, <2>4
<1>12. /\ built[r] = <<>> => Len(built'[r]) = 1 /\ built'[r][1] = e
       /\ built[r] # <<>> => Len(built'[r]) = 2 /\ built'[r][1] = built[r][1] /\ built'[r][2] = e
  BY <1>11, Second
<1>13. Repeated(r)'
  <2>1. built[r] # <<>> => built[r][1].files = taken[r].first
    BY <1>1, <1>2 DEF Repeated
  <2>2. CASE built[r] = <<>>
    <3>1. e.files = taken[r].first
      BY <1>5, <2>2 DEF files
    <3>2. Len(built'[r]) = 1 /\ built'[r][1].files = taken'[r].first
      BY <1>8, <1>12, <2>2, <3>1
    <3>3. Len(built'[r]) \in {0, 1, 2} /\ Len(built'[r]) # 2
      BY <3>2
    <3> QED
      BY <1>8, <3>2, <3>3 DEF Repeated, Staging
  <2>3. CASE built[r] # <<>>
    <3>1. e.files = taken[r].last
      BY <1>5, <2>3 DEF files
    <3>2. built'[r][1].files = taken[r].first /\ built'[r][2].files = taken[r].last
      BY <1>12, <2>1, <2>3, <3>1
    <3>3. taken'[r] = taken[r] /\ Len(built'[r]) = 2
      BY <1>8, <1>12, <2>3
    <3> QED
      BY <1>8, <3>2, <3>3 DEF Repeated, Staging
  <2> QED
    BY <2>2, <2>3
<1> QED
  BY <1>9, <1>10, <1>13, BesideKeepsBuilds

\* Where neither has what is not staged, the comparison of what is staged is one of all.
LEMMA CompareBuildsKeepsBuilds ==
  ASSUME IInv, BuildInv, NEW r \in Runs, CompareBuilds(r)
  PROVE BuildInv'
<1>1. TypeOK /\ Untaken(r) /\ Repeated(r)
  BY DEF IInv, BuildInv
<1>2. /\ pc[r] = "package-build" /\ UNCHANGED <<dist, opened, taken, plan, built>> /\ Len(built[r]) = 2
  BY DEF CompareBuilds, At, Looks, outputs, ReadsNothing, collecting, Building, buildVars
<1>3. \/ pc' = [pc EXCEPT ![r] = "ended"]
      \/ /\ pc' = [pc EXCEPT ![r] = "publish"]
         /\ built[r][1].version = built[r][2].version /\ built[r][1].noise = built[r][2].noise
         /\ Same(built[r][1].files, built[r][2].files)
  BY DEF CompareBuilds, Check, Goto, Exit
<1>4. Beside(r)
  BY <1>1, <1>2, <1>3 DEF Beside, TypeOK, ControlOK
<1>5. Untaken(r)'
  BY <1>1, <1>2, <1>3 DEF Untaken, Checked, Staging, TypeOK, ControlOK
<1>6. CASE pc' = [pc EXCEPT ![r] = "ended"]
  <2>1. pc'[r] = "ended"
    BY <1>1, <1>6 DEF TypeOK, ControlOK
  <2> QED
    BY <1>4, <2>1, ElsewhereKeepsBuilds DEF Staging, Checked
<1>7. CASE pc' # [pc EXCEPT ![r] = "ended"]
  <2>1. built[r] \in Seq(Archive) /\ 1 \in 1..Len(built[r]) /\ 2 \in 1..Len(built[r])
    <3>1. 1 \in 1..2 /\ 2 \in 1..2
      OBVIOUS
    <3>2. built[r] \in Seq(Archive)
      BY <1>1 DEF TypeOK, ControlOK
    <3> QED
      BY <1>2, <3>1, <3>2
  <2>2. PICK a, b : a = built[r][1] /\ b = built[r][2]
    OBVIOUS
  <2>3. a \in Archive /\ b \in Archive
    BY <2>1, <2>2, ElementOfSeq
  <2>4. a.files = taken[r].first /\ b.files = taken[r].last
    <3>1. built[r] # <<>>
      <4>1. Len(<<>>) # 2
        BY EmptySeq
      <4> QED
        BY <1>2, <4>1
    <3> QED
      BY <1>1, <1>2, <2>2, <3>1 DEF Repeated
  <2>5. \A f \in Sources \ Staged : a.files[f] = b.files[f]
    BY <1>1, <1>2, <2>4 DEF Untaken, Checked, Passes
  <2>6. \A f \in Staged : a.files[f] = b.files[f]
    BY <1>3, <1>7, <2>2 DEF Same
  <2>7. a.files \in [Sources -> Bytes \cup {Unread}] /\ b.files \in [Sources -> Bytes \cup {Unread}]
    BY <2>3 DEF Archive, Copies
  <2>8. a.files = b.files
    BY <2>5, <2>6, <2>7
  <2>9. a.version = b.version /\ a.noise = b.noise
    BY <1>3, <1>7, <2>2
  <2>10. a = b
    BY <2>3, <2>8, <2>9 DEF Archive
  <2>11. pc'[r] = "publish" /\ built'[r][1] = built'[r][2]
    BY <1>1, <1>2, <1>3, <1>7, <2>2, <2>10 DEF TypeOK, ControlOK
  <2>12. Repeated(r)'
    BY <2>11 DEF Repeated, Staging
  <2> QED
    BY <1>4, <1>5, <2>12, BesideKeepsBuilds
<1> QED
  BY <1>6, <1>7

\* What is published is what both builds have come to.
LEMMA PublishKeepsBuilds ==
  ASSUME IInv, BuildInv, NEW r \in Runs, Publish(r)
  PROVE BuildInv'
<1>1. TypeOK /\ (\A q \in Runs : Untaken(q) /\ Repeated(q))
  BY DEF IInv, BuildInv
<1>2. /\ pc[r] = "publish" /\ UNCHANGED <<opened, taken, plan, built>> /\ pc' = [pc EXCEPT ![r] = "ended"]
      /\ dist' = dist \/ dist' = Bundle(r)
  BY DEF Publish, At, Exit, ReadsNothing, collecting, Building, buildVars
<1>3. pc'[r] = "ended" /\ \A q \in Runs \ {r} : pc'[q] = pc[q]
  BY <1>1, <1>2 DEF TypeOK, ControlOK
<1>4. built[r][1] = built[r][2]
  BY <1>1, <1>2 DEF Repeated
<1>5. CASE dist' = dist
  <2>1. Beside(r)
    BY <1>2, <1>3, <1>5 DEF Beside
  <2> QED
    BY <1>3, <2>1, ElsewhereKeepsBuilds DEF Staging, Checked
<1>6. CASE dist' = Bundle(r)
  <2>1. dist'.by = r /\ dist'.archives = built[r][1]
    BY <1>6 DEF Bundle
  <2>2. ASSUME NEW q \in Runs PROVE Untaken(q)' /\ Repeated(q)'
    <3>1. CASE q = r
      BY <1>3, <3>1 DEF Untaken, Repeated, Staging, Checked
    <3>2. CASE q # r
      BY <1>1, <1>2, <1>3, <3>2, StaysRepeated
    <3> QED
      BY <3>1, <3>2
  <2>3. ASSUME NEW q \in Runs, Released(q)' PROVE q = r
    BY <2>1, <2>3 DEF Released
  <2>4. built'[r][1] = dist'.archives /\ built'[r][2] = dist'.archives
    BY <1>2, <1>4, <2>1
  <2> QED
    BY <1>3, <2>2, <2>3, <2>4 DEF BuildInv
<1> QED
  BY <1>2, <1>5, <1>6

\* Nobody builds.
LEMMA AsideKeepsBuilds ==
  ASSUME BuildInv, UNCHANGED <<pc, taken, opened, plan, built, dist>>
  PROVE BuildInv'
<1>1. ASSUME NEW q \in Runs PROVE Untaken(q)' /\ Repeated(q)'
  BY StaysRepeated DEF BuildInv
<1>2. \A q \in Runs : Released(q)' => Released(q)
  BY DEF Released
<1> QED
  BY <1>1, <1>2 DEF BuildInv

\* Whatever happens, a release is what both builds have come to.
LEMMA BuildsKept ==
  ASSUME IInv, BuildInv, [Next]_vars
  PROVE BuildInv'
<1>1. TypeOK
  BY DEF IInv
<1>2. ASSUME NEW r \in Runs, Corpuses(r) \/ Measures(r) PROVE BuildInv'
  <2>1. Frame(r) /\ Leaves(r)
    BY <1>1, <1>2, CorpusIdle, MeasureIdle DEF Corpuses, Measures
  <2> QED
    BY <1>1, <2>1, IdleKeepsBuilds
<1>3. ASSUME NEW r \in Runs, Reports(r) PROVE BuildInv'
  <2>1. Beside(r) /\ pc'[r] \notin Staging \cup Checked
    BY <1>1, <1>3, ReportsAreNoBuild DEF Reports
  <2> QED
    BY <2>1, ElsewhereKeepsBuilds
<1>4. ASSUME NEW r \in Runs, Builds(r) PROVE BuildInv'
  <2>1. CASE PreflightOutput(r) \/ OpenVersion(r)
    BY <2>1, FreshKeepsBuilds
  <2>2. CASE ReadVersion(r)
    BY <2>2, ReadVersionKeepsBuilds
  <2>3. CASE CopySource(r)
    BY <2>3, CopyKeepsBuilds
  <2>4. CASE ListPackage(r)
    BY <2>4, ListPackageKeepsBuilds
  <2>5. CASE StagedOnce(r) \/ StagedTwice(r) \/ IdentifyEnvironment(r)
    BY <2>5, StagedKeepsBuilds
  <2>6. CASE BuildOnce(r)
    BY <2>6, BuildOnceKeepsBuilds
  <2>7. CASE CompareBuilds(r)
    BY <2>7, CompareBuildsKeepsBuilds
  <2>8. CASE Publish(r)
    BY <2>8, PublishKeepsBuilds
  <2> QED
    BY <1>4, <2>1, <2>2, <2>3, <2>4, <2>5, <2>6, <2>7, <2>8 DEF Builds, BuildStep
<1>5. ASSUME NEW r \in Runs, Start(r), UNCHANGED <<reportVars, buildVars>> PROVE BuildInv'
  <2>1. /\ UNCHANGED <<dist, taken, opened, plan, built>> /\ pc[r] = "begin" /\ pc' = [pc EXCEPT ![r] = request[r].command]
        /\ request[r].command \in Commands
    BY <1>1, <1>5 DEF Start, At, Goto, outputs, collecting, buildVars, TypeOK, TreeOK
  <2>2. Beside(r) /\ pc'[r] \in Commands
    BY <1>1, <2>1 DEF Beside, TypeOK, ControlOK
  <2> QED
    BY <2>2, ElsewhereKeepsBuilds DEF Commands, Staging, Checked
<1>6. ASSUME NEW r \in Runs, Break(r), UNCHANGED <<reportVars, buildVars>> PROVE BuildInv'
  <2>1. /\ UNCHANGED <<dist, taken, opened, plan, built>> /\ pc[r] # "ended" /\ pc' = [pc EXCEPT ![r] = "ended"]
    BY <1>6 DEF Break, Exit, outputs, collecting, buildVars
  <2>2. Beside(r) /\ pc'[r] = "ended"
    BY <1>1, <2>1 DEF Beside, TypeOK, ControlOK
  <2> QED
    BY <2>2, ElsewhereKeepsBuilds DEF Staging, Checked
<1>7. CASE (Edit \/ Change \/ Move) /\ UNCHANGED buildVars
  <2>1. UNCHANGED <<pc, taken, opened, plan, built, dist>>
    BY <1>7 DEF Edit, Change, Move, outputs, control, collecting, buildVars
  <2> QED
    BY <2>1, AsideKeepsBuilds
<1>8. CASE UNCHANGED vars
  <2>1. UNCHANGED <<pc, taken, opened, plan, built, dist>>
    BY <1>8 DEF vars, runVars, outputs, control, collecting, buildVars
  <2> QED
    BY <2>1, AsideKeepsBuilds
<1> QED
  BY <1>2, <1>3, <1>4, <1>5, <1>6, <1>7, <1>8 DEF Next

LEMMA BuildsBegin == Init => BuildInv
<1> SUFFICES ASSUME Init PROVE BuildInv
  OBVIOUS
<1>1. /\ dist \in {Absent, VacantDirectory, Plain} /\ pc = [r \in Runs |-> "begin"]
  BY NothingIsReleased DEF Init, RunsInit
<1> QED
  BY <1>1 DEF BuildInv, Untaken, Repeated, Released, Staging, Checked

-----------------------------------------------------------------------------
(* What the invariant says of a run that ended well. *)
\* The paths and bytes that a run answers for.
LEMMA ManagedIs ==
  ASSUME NEW r \in Runs, request[r].command \in Directing
  PROVE /\ Managed(r).paths = Paths(r)
        /\ \A s \in ToSet(Paths(r)) : Managed(r).bytes[s] = Expected(r, s)
<1>1. CASE OfCorpus(r)
  BY <1>1 DEF Managed, Paths, Expected, OfCorpus
<1>2. CASE ~OfCorpus(r)
  BY <1>2 DEF Managed, Paths, Expected, OfCorpus
<1> QED
  BY <1>1, <1>2

\* SHA256SUMS tells who wrote the files beside it.
LEMMA OneOwner ==
  ASSUME NEW r \in Runs, NEW q \in Runs, Owned(q), NEW d \in Directories, NEW s \in Slots, By(q, holds[d][s]), By(r, holds[d][Sums])
  PROVE q = r /\ s \in ToSet(Paths(r))
<1>1. By(q, holds[d][Sums]) /\ s \in ToSet(Paths(q))
  BY DEF Owned
<1> QED
  BY <1>1, ByFacts

LEMMA OneKind ==
  ASSUME TypeOK, NEW r \in Runs, NEW q \in Runs, Owned(q), NEW d \in Directories, NEW s \in Slots, By(q, holds[d][s]),
         holds[d][Sums].bytes = Expected(r, Sums), holds[d][Sums].bytes # Empty
  PROVE s \in ToSet(Paths(r))
<1>1. By(q, holds[d][Sums]) /\ s \in ToSet(Paths(q)) /\ Sums \in Slots
  <2>1. Sums \in Slots
    BY PathFacts, ChecksumsComeFirst, ElementOfSeq, EmptySeq, LenProperties DEF Sums
  <2> QED
    BY <2>1 DEF Owned
<1>2. holds[d][Sums].bytes \in (IF OfCorpus(q) THEN {Corpus} ELSE [sums : Seq(Entered)])
  BY <1>1 DEF Owned
<1>3. OfCorpus(q) <=> OfCorpus(r)
  <2>1. OfCorpus(r) => Expected(r, Sums) = Corpus
    BY ExpectedSums
  <2>2. ~OfCorpus(r) => Expected(r, Sums) \in [sums : Seq(Entered)]
    BY ExpectedSums
  <2>3. CASE OfCorpus(q)
    BY <1>2, <2>2, <2>3, ChecksumsDiffer
  <2>4. CASE ~OfCorpus(q)
    BY <1>2, <2>1, <2>4, ChecksumsDiffer
  <2> QED
    BY <2>3, <2>4
<1> QED
  BY <1>1, <1>3 DEF Paths

LEMMA SumsIsFirst ==
  ASSUME NEW r \in Runs
  PROVE Sums \in Slots /\ Sums \in ToSet(Paths(r)) /\ Paths(r)[1] = Sums /\ 1 \in 1..Len(Paths(r))
<1>1. Paths(r)[1] = Sums
  BY ChecksumsComeFirst DEF Paths, Sums
<1>2. 1 \in 1..Len(Paths(r))
  BY PathFacts
<1> QED
  BY <1>1, <1>2, PathFacts

\* A generator.
LEMMA GeneratedWhole ==
  ASSUME TypeOK, Tied, DirectoriesInv, Settled \/ Apart, NEW r \in Runs, Succeeds(r), ~Checking(r), Settled \/ ~OfCorpus(r)
  PROVE GeneratedIn(r, Target(r))
<1> DEFINE d == Target(r)
<1>1. Grown(r) /\ Generates(r) /\ \A q \in Runs : Owned(q)
  BY DEF DirectoriesInv, Directs
<1>2. pc[r] = "ended" /\ exit[r] = "0" /\ request[r].command \in Directing
  BY DEF Succeeds, Tied
<1>3. /\ d \in Directories /\ number[r] = Len(Paths(r))
      /\ \A k \in 1..Len(Paths(r)) : By(r, holds[d][Paths(r)[k]]) /\ holds[d][Paths(r)[k]].bytes = Expected(r, Paths(r)[k])
      /\ \A s \in Slots \ {Readme} : holds[d][s] = Absent \/ ByARun(holds[d][s])
  BY <1>1, <1>2 DEF Generates, Generating, Counted
<1>4. ASSUME NEW s \in ToSet(Paths(r)) PROVE holds[d][s] = [by |-> r, bytes |-> Expected(r, s)]
  <2>1. PICK k \in 1..Len(Paths(r)) : Paths(r)[k] = s
    BY PathFacts
  <2>2. By(r, holds[d][s]) /\ holds[d][s].bytes = Expected(r, s)
    BY <1>3, <2>1
  <2> QED
    BY <2>2, ByFacts
<1>5. ASSUME NEW s \in Slots, s \notin ToSet(Paths(r))
      PROVE holds[d][s] = found[r].holds[d][s] /\ (holds[d][s] = Absent \/ s = Readme)
  <2>1. /\ holds[d][s] = Absent => found[r].holds[d][s] = Absent
        /\ s = Readme => holds[d][s] = found[r].holds[d][s]
    BY <1>1, <1>2, <1>3 DEF Grown
  <2>2. ASSUME NEW q \in Runs, By(q, holds[d][s]) PROVE FALSE
    <3>1. By(r, holds[d][Sums])
      BY <1>3, SumsIsFirst
    <3> QED
      BY <1>1, <1>3, <1>5, <2>2, <3>1, OneOwner
  <2>3. s # Readme => holds[d][s] = Absent
    BY <1>3, <2>2 DEF ByARun
  <2> QED
    BY <2>1, <2>3
<1> QED
  BY <1>2, <1>4, <1>5, ManagedIs DEF GeneratedIn

\* A checker.
LEMMA CheckedWhole ==
  ASSUME TypeOK, Tied, DirectoriesInv, Settled \/ Apart, NEW r \in Runs, Succeeds(r), Checking(r), Settled \/ ~OfCorpus(r)
  PROVE CheckedIn(r, Target(r))
<1> DEFINE d == Target(r)
<1>1. Compares(r) /\ \A q \in Runs : Owned(q)
  BY DEF DirectoriesInv, Directs
<1>2. exit[r] = "0" /\ request[r].command \in Directing
  BY DEF Succeeds
<1>3. /\ d \in Directories
      /\ \A k \in 1..Len(Paths(r)) : Full(holds[d][Paths(r)[k]]) /\ holds[d][Paths(r)[k]].bytes = Expected(r, Paths(r)[k])
      /\ \A s \in Slots : IsFile(holds[d][s]) =>
           s \in ToSet(Paths(r)) \/ ByARun(holds[d][s]) \/ (OfCorpus(r) /\ s = Readme)
  BY <1>1, <1>2 DEF Compares, Comparing, Counted
<1>4. ASSUME NEW s \in ToSet(Paths(r)) PROVE s \in Slots /\ s # Readme /\ IsFile(holds[d][s]) /\ holds[d][s].bytes = Expected(r, s)
  <2>1. PICK k \in 1..Len(Paths(r)) : Paths(r)[k] = s
    BY PathFacts
  <2> QED
    BY <1>3, <2>1, PathFacts DEF Full
<1>5. ASSUME NEW s \in Slots, ByARun(holds[d][s]) PROVE s \in ToSet(Paths(r))
  <2>1. holds[d][Sums].bytes = Expected(r, Sums) /\ holds[d][Sums].bytes # Empty
    BY <1>3, SumsIsFirst DEF Full
  <2> QED
    BY <1>1, <1>3, <1>5, <2>1, OneKind DEF ByARun
<1>6. request[r].command = "reports-check" <=> ~OfCorpus(r)
  BY <1>2 DEF Checking, OfCorpus
<1>7. LET files == {s \in Slots : IsFile(holds[d][s])}
      IN files \ (IF request[r].command = "reports-check" THEN {} ELSE {Readme}) = ToSet(Paths(r))
  BY <1>3, <1>4, <1>5, <1>6
<1> QED
  BY <1>2, <1>4, <1>7, ManagedIs DEF CheckedIn

\* So the directories are whole.
LEMMA DirectoriesAreWhole ==
  ASSUME TypeOK, Tied, DirectoriesInv
  PROVE DirectoriesWhole
<1> SUFFICES ASSUME NEW r \in Runs, Settled \/ Apart
             PROVE /\ Succeeded(r, {"reports-generate"}) => GeneratedIn(r, fd[r])
                   /\ Succeeded(r, {"reports-check"}) => CheckedIn(r, fd[r])
                   /\ Settled =>
                        /\ Succeeded(r, {"corpus-generate"}) => GeneratedIn(r, place)
                        /\ Succeeded(r, {"corpus-check", "corpus-replay"}) => CheckedIn(r, place)
  BY DEF DirectoriesWhole
<1>1. ASSUME Succeeded(r, {"reports-generate"}) PROVE GeneratedIn(r, fd[r])
  <2>1. Succeeds(r) /\ ~Checking(r) /\ ~OfCorpus(r) /\ Target(r) = fd[r]
    BY <1>1 DEF Succeeded, Succeeds, Checking, OfCorpus, Target, Directing
  <2> QED
    BY <2>1, GeneratedWhole
<1>2. ASSUME Succeeded(r, {"reports-check"}) PROVE CheckedIn(r, fd[r])
  <2>1. Succeeds(r) /\ Checking(r) /\ ~OfCorpus(r) /\ Target(r) = fd[r]
    BY <1>2 DEF Succeeded, Succeeds, Checking, OfCorpus, Target, Directing
  <2> QED
    BY <2>1, CheckedWhole
<1>3. ASSUME Settled, Succeeded(r, {"corpus-generate"}) PROVE GeneratedIn(r, place)
  <2>1. Succeeds(r) /\ ~Checking(r) /\ Target(r) = place
    BY <1>3 DEF Succeeded, Succeeds, Checking, OfCorpus, Target, Directing
  <2> QED
    BY <1>3, <2>1, GeneratedWhole
<1>4. ASSUME Settled, Succeeded(r, {"corpus-check", "corpus-replay"}) PROVE CheckedIn(r, place)
  <2>1. Succeeds(r) /\ Checking(r) /\ Target(r) = place
    BY <1>4 DEF Succeeded, Succeeds, Checking, OfCorpus, Target, Directing
  <2> QED
    BY <1>4, <2>1, CheckedWhole
<1> QED
  BY <1>1, <1>2, <1>3, <1>4

\* So records and releases are true of what was done repeatedly.
LEMMA RepeatsDoAgree ==
  ASSUME MeasureInv, BuildInv
  PROVE RepeatsAgree
<1>1. ASSUME NEW r \in Runs, RecordOf(r)
      PROVE /\ Len(observed[r]) = Len(ReportFormats) * SeriesLength
            /\ \A k \in DOMAIN observed[r] :
                 observed[r][k] = [environment |-> loose.record.bytes.environment,
                                   report |-> loose.record.bytes.reports[((k - 1) \div SeriesLength) + 1]]
  <2> DEFINE n == Len(ReportFormats)
             s == observed[r]
  <2>1. Complete(r) /\ loose.record.bytes = Record(r) /\ s \in Seq(Tellings)
    BY <1>1 DEF MeasureInv, Consistent
  <2>2. n \in Nat /\ Len(s) = n * SeriesLength /\ DOMAIN s = 1..(n * SeriesLength)
    BY <2>1, FormatsAreListed, LenProperties DEF Complete
  <2>3. ASSUME NEW k \in DOMAIN s
        PROVE s[k] = [environment |-> loose.record.bytes.environment,
                      report |-> loose.record.bytes.reports[((k - 1) \div SeriesLength) + 1]]
    <3>1. PICK f : f = ((k - 1) \div SeriesLength) + 1
      OBVIOUS
    <3>2. First(k) = (f - 1) * SeriesLength + 1 /\ f \in 1..n
      <4>1. First(k) = ((k - 1) \div SeriesLength) * SeriesLength + 1 /\ ((k - 1) \div SeriesLength) + 1 \in 1..n
        BY <2>2, <2>3, SeriesOf
      <4>2. k - 1 \in Nat /\ (k - 1) \div SeriesLength \in Nat
        BY <2>2, EverySeriesHasASample, Division
      <4> QED
        BY <3>1, <4>1, <4>2
    <3>3. loose.record.bytes.environment = s[1].environment /\ loose.record.bytes.reports[f] = s[First(k)].report
      BY <2>1, <3>2 DEF Record
    <3>4. s[k] = s[First(k)] /\ s[k].environment = s[1].environment
      BY <2>1 DEF Complete, Regular
    <3>5. s[k] \in Tellings
      BY <2>1, <2>2, ElementOfSeq
    <3> QED
      BY <3>1, <3>3, <3>4, <3>5 DEF Tellings
  <2> QED
    BY <2>2, <2>3
<1>2. \A r \in Runs : Released(r) => \A k \in {1, 2} : built[r][k] = dist.archives
  BY DEF BuildInv
<1> QED
  BY <1>1, <1>2 DEF RepeatsAgree, RecordOf

\* The whole invariant, at first and after a step.
LEMMA WholeBegins == Init => WholeInv
<1>1. Init => Tied
  <2> SUFFICES ASSUME Init PROVE Tied
    OBVIOUS
  <2>1. pc = [r \in Runs |-> "begin"] /\ exit = [r \in Runs |-> "running"]
    BY DEF Init, RunsInit
  <2> QED
    BY <2>1 DEF Tied, Tie, Undirected
<1> QED
  BY <1>1, UsedBegins, DirectoriesBegin, MeasuresBegin, BuildsBegin DEF WholeInv

LEMMA WholeKept == IInv /\ WholeInv /\ [Next]_vars => WholeInv'
<1> SUFFICES ASSUME IInv, WholeInv, [Next]_vars PROVE WholeInv'
  OBVIOUS
<1>1. TypeOK
  BY DEF IInv
<1> QED
  BY <1>1, TiedHolds, UsedKept, DirectoriesStep, MeasuresKept, BuildsKept DEF WholeInv

LEMMA WholeIsWhole == IInv /\ WholeInv => ResultsWhole
BY DirectoriesAreWhole, RepeatsDoAgree DEF IInv, WholeInv, ResultsWhole

(* For every number of invocations, of paths in a directory, of report formats and of    *)
(* children in a series, and whatever failed or was killed before or meanwhile: where no *)
(* other program changes the files, a directory is whole when a generator or a check of  *)
(* example_reports.py or synthetic_corpus.py says 0; and whatever others do, a record of *)
(* observed_performance.py is true of every child it started, and a release of           *)
(* build_release.py is what both of its builds have come to.                             *)
THEOREM ResultsAreWhole == Spec => []ResultsWhole
<1> QED
  BY InitHolds, NextHolds, WholeBegins, WholeKept, WholeIsWhole, PTL DEF Spec
=============================================================================
