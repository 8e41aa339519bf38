-------------------------- MODULE ExampleReports --------------------------
(***************************************************************************)
(* example_reports.py generate and check.  Both first derive the reports:  *)
(* for each scenario the inputs are read, loaded and evaluated, read again *)
(* and once more, and have to be the same each time.  The output directory *)
(* is opened once and used by its descriptor.                              *)
(***************************************************************************)
EXTENDS SyntheticCorpus

CONSTANTS
  ScenarioInputs,         \* the inputs of each scenario
  LoadableContents,       \* what the loader accepts
  ExpectedContents,       \* what makes the scenario end as expected
  ReportPaths,            \* the managed names, SHA256SUMS first
  ReportManifest,
  PageOf                  \* the name of each scenario's reports

ASSUME ScenariosHaveInputs == ScenarioInputs \in Seq(Seq(Sources)) /\ ScenarioInputs # <<>>
ASSUME NothingCannotBeLoaded == LoadableContents \subseteq Contents

VARIABLES managed         \* what the scenarios so far have come to

reportVars == <<managed>>
ReportsInit == managed = [r \in Runs |-> <<>>]

Deriving == UNCHANGED managed

-----------------------------------------------------------------------------
(* _expected_tree *)
Derives(r) == request[r].command \in {"reports-generate", "reports-check"}
Inputs(r) == ScenarioInputs[Len(managed[r]) + 1]
Input(r) == Inputs(r)[number[r] + 1]
LastInput(r) == number[r] = Len(Inputs(r))

BeginReports(r) ==
  /\ Derives(r) /\ At(r, request[r].command)
  /\ Goto(r, "source-entries")
  /\ Looks /\ ReadsNothing /\ Deriving /\ UNCHANGED walking

\* _source_entries
ReadInput(r) ==
  /\ At(r, "source-entries") /\ (opened[r] # Absent \/ ~LastInput(r))
  /\ OpenSource(r, Input(r)) \/ RefuseSource(r, Input(r)) \/ TakeSource(r)
  /\ Deriving

EndOfBefore(r) ==
  /\ At(r, "source-entries") /\ pass[r] = "first" /\ opened[r] = Absent /\ LastInput(r)
  /\ EndOfFirstPass(r, "loaded", "load")
  /\ Deriving

\* load_evidence refuses a file that changes while it is read, or no longer has its name.
LoadInput(r) ==
  /\ At(r, "load") /\ pass[r] = "loaded" /\ opened[r] # Absent
  /\ LET f == opened[r]
     IN IF seen[r] = {tree[f]} /\ tree[f] \in LoadableContents
        THEN taken' = [taken EXCEPT ![r].loaded[f] = tree[f]] /\ UNCHANGED control
        ELSE Exit(r, "2") /\ UNCHANGED taken
  /\ opened' = [opened EXCEPT ![r] = Absent] /\ seen' = [seen EXCEPT ![r] = {}]
  /\ Advance(r)
  /\ Looks /\ Deriving /\ UNCHANGED <<fd, listing, pass, instant>>

OpenLoaded(r) ==
  /\ At(r, "load") /\ ~LastInput(r)
  /\ OpenSource(r, Input(r)) \/ RefuseSource(r, Input(r))
  /\ Deriving

Told(r, p) == [k \in DOMAIN Inputs(r) |-> taken[r][p][Inputs(r)[k]]]

Evaluate(r) ==
  /\ At(r, "load") /\ opened[r] = Absent /\ LastInput(r)
  /\ Check(r, ToSet(Told(r, "loaded")) \subseteq ExpectedContents, "source-entries", "1")
  /\ pass' = [pass EXCEPT ![r] = "again"]
  /\ Rewind(r)
  /\ Looks /\ Deriving /\ UNCHANGED <<fd, listing, opened, seen, taken, instant>>

\* The provenance that the report has must be what the inputs hold now.
CompareProvenance(r) ==
  /\ At(r, "source-entries") /\ pass[r] = "again" /\ opened[r] = Absent /\ LastInput(r)
  /\ Check(r, Told(r, "again") = Told(r, "loaded"), "source-entries", "1")
  /\ pass' = [pass EXCEPT ![r] = "last"]
  /\ Rewind(r)
  /\ Looks /\ Deriving /\ UNCHANGED <<fd, listing, opened, seen, taken, instant>>

EntriesRead(r) == At(r, "source-entries") /\ pass[r] = "last" /\ opened[r] = Absent /\ LastInput(r)

CompareEntries(r) ==
  /\ EntriesRead(r) /\ Told(r, "first") # Told(r, "last")
  /\ Exit(r, "1")
  /\ Looks /\ ReadsNothing /\ Deriving /\ UNCHANGED walking

OutputStep(r) == IF request[r].command = "reports-generate" THEN "reports-target" ELSE "reports-look"

EndOfScenario(r) ==
  /\ EntriesRead(r) /\ Told(r, "first") = Told(r, "last")
  /\ managed' = [managed EXCEPT ![r] = Append(@, [inputs |-> Told(r, "first"), report |-> Told(r, "loaded")])]
  /\ Goto(r, IF Len(managed[r]) + 1 = Len(ScenarioInputs) THEN OutputStep(r) ELSE "source-entries")
  /\ pass' = [pass EXCEPT ![r] = "first"]
  /\ taken' = [taken EXCEPT ![r] = AllUnread]
  /\ Rewind(r)
  /\ Looks /\ UNCHANGED <<fd, listing, opened, seen, instant>>

\* The manifest names the inputs and, as SHA256SUMS does, what became of them.
ReportBytes(m, s) ==
  IF \E k \in DOMAIN PageOf : PageOf[k] = s
  THEN [page |-> m[CHOOSE k \in DOMAIN PageOf : PageOf[k] = s].report]
  ELSE IF s = ReportManifest THEN [manifest |-> m] ELSE [sums |-> m]

-----------------------------------------------------------------------------
(* _open_output_directory and _write_tree *)
\* Not: in the order they come to be, with the checksums last.
PageAsDerived(r) == ReportPaths[Len(ReportPaths) - number[r]]

Page(r) == ReportPaths[number[r] + 1]
LastPage(r) == number[r] = Len(ReportPaths)

OpenOutput(r) ==
  /\ At(r, "prepare") /\ request[r].command = "reports-generate"
  /\ Check(r, place \in Directories, "empty", "2")
  /\ fd' = [fd EXCEPT ![r] = place]
  /\ Looks /\ ReadsNothing /\ Deriving /\ UNCHANGED <<number, listing>>

InspectOutput(r) ==
  /\ At(r, "empty")
  /\ Check(r, NamesIn(fd[r]) = {}, "page", "2")
  /\ Looks /\ ReadsNothing /\ Deriving /\ UNCHANGED walking

CreatePage(r) == At(r, "page") /\ ~LastPage(r) /\ CreateEntry(r, fd[r], Page(r), "page-fill") /\ Deriving
FillPage(r) == At(r, "page-fill") /\ FillEntry(r, Page(r), ReportBytes(managed[r], Page(r)), "page") /\ Deriving

EndOfPages(r) ==
  /\ At(r, "page") /\ LastPage(r)
  /\ Exit(r, "0")
  /\ Looks /\ ReadsNothing /\ Deriving /\ UNCHANGED walking

-----------------------------------------------------------------------------
(* _check_tree *)
FindReports(r) ==
  /\ At(r, "reports-look")
  /\ Check(r, request[r].valid /\ place \in Directories, "reports-open", "2")
  /\ Looks /\ ReadsNothing /\ Deriving /\ UNCHANGED walking

OpenReports(r) ==
  /\ At(r, "reports-open")
  /\ Check(r, place \in Directories, "reports-list", "2")
  /\ fd' = [fd EXCEPT ![r] = place]
  /\ Looks /\ ReadsNothing /\ Deriving /\ UNCHANGED <<number, listing>>

ListReports(r) ==
  /\ At(r, "reports-list")
  /\ List(r, fd[r])
  /\ Goto(r, "reports-entries")
  /\ Looks /\ ReadsNothing /\ Deriving /\ UNCHANGED <<number, fd>>

ExamineReport(r) ==
  /\ At(r, "reports-entries")
  /\ \E e \in listing[r].left :
       Examine(r, e) /\ Check(r, IsFile(Entry(fd[r], e.name)), "reports-entries", "2")
  /\ Looks /\ ReadsNothing /\ Deriving /\ UNCHANGED <<number, fd>>

CompareNames(r) ==
  /\ At(r, "reports-entries") /\ AllExamined(r)
  /\ Check(r, {e.name : e \in listing[r].entries} = ToSet(ReportPaths), "reports-size", "1")
  /\ Rewind(r)
  /\ Looks /\ ReadsNothing /\ Deriving /\ UNCHANGED <<fd, listing>>

SizePage(r) ==
  /\ At(r, "reports-size") /\ ~LastPage(r)
  /\ LET x == Entry(fd[r], Page(r))
     IN IF x = Absent THEN Exit(r, "2") ELSE Check(r, Size(x) = "right", "reports-read", "1")
  /\ Looks /\ ReadsNothing /\ Deriving /\ UNCHANGED walking

ReadPage(r) ==
  /\ At(r, "reports-read")
  /\ LET x == Entry(fd[r], Page(r))
     IN IF ~IsFile(x) THEN Exit(r, "2") ELSE Check(r, x.bytes = ReportBytes(managed[r], Page(r)), "reports-size", "1")
  /\ Advance(r)
  /\ Looks /\ ReadsNothing /\ Deriving /\ UNCHANGED <<fd, listing>>

EndOfReportsCheck(r) ==
  /\ At(r, "reports-size") /\ LastPage(r)
  /\ Exit(r, "0")
  /\ Looks /\ ReadsNothing /\ Deriving /\ UNCHANGED walking

ReportsStep(r) ==
  \/ BeginReports(r) \/ ReadInput(r) \/ EndOfBefore(r) \/ OpenLoaded(r) \/ LoadInput(r) \/ Evaluate(r)
  \/ CompareProvenance(r) \/ CompareEntries(r) \/ EndOfScenario(r)
  \/ ValidateTarget(r, "reports-target") /\ Deriving
  \/ OpenOutput(r) \/ InspectOutput(r) \/ CreatePage(r) \/ FillPage(r) \/ EndOfPages(r)
  \/ FindReports(r) \/ OpenReports(r) \/ ListReports(r) \/ ExamineReport(r) \/ CompareNames(r)
  \/ SizePage(r) \/ ReadPage(r) \/ EndOfReportsCheck(r)
=============================================================================
