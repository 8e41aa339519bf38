------------------------ MODULE ObservedPerformance ------------------------
(***************************************************************************)
(* observed_performance.py generate, check and measure.  A measurement     *)
(* checks its input once and then has every child process read it again;   *)
(* what it writes is a file of its own, which it takes back if the write   *)
(* fails.                                                                  *)
(***************************************************************************)
EXTENDS ToolRuns

CONSTANTS
  Scenario,         \* _scenario_bytes
  Akin,             \* other bytes of the same size, with the same findings
  ReportFormats,
  SeriesLength      \* warmups and samples of a format

ASSUME EverySeriesHasASample == SeriesLength \in Nat \ {0}
ASSUME FormatsAreListed == Len(ReportFormats) \in Nat \ {0}

VARIABLES
  observed,    \* what each child so far has told: the environment, the report
  failure      \* what a run that takes its file back ends with

measureVars == <<observed, failure>>
MeasureInit ==
  /\ observed = [r \in Runs |-> <<>>]
  /\ failure = [r \in Runs |-> "none"]

Measuring == UNCHANGED measureVars
TouchesNothing == Looks /\ ReadsNothing /\ UNCHANGED walking
TouchesLoose(r, n, x) ==
  /\ loose' = [loose EXCEPT ![n] = x] /\ Disturbs(r)
  /\ UNCHANGED <<sources, place, used, holds, dist, circumstances, walking, collecting>>

-----------------------------------------------------------------------------
(* _write_new_file.  Until fstat has told which file it is, a failure leaves it there. *)
CreatesAt == [scenario |-> "scenario-generate", record |-> "measured"]
CreatedAt == [scenario |-> "new-scenario", record |-> "new-record"]
WritesAt == [scenario |-> "write-scenario", record |-> "write-record"]
ComparesAt == [scenario |-> "compare-scenario", record |-> "compare-record"]
RemovesAt == [scenario |-> "unlink-scenario", record |-> "unlink-record"]

CreateLoose(r, n) ==
  /\ At(r, CreatesAt[n])
  /\ IF loose[n] = Absent
     THEN TouchesLoose(r, n, [by |-> r, bytes |-> Empty]) /\ Goto(r, CreatedAt[n])
     ELSE TouchesNothing /\ Exit(r, "2")
  /\ Measuring

IdentifyLoose(r, n) ==
  /\ At(r, CreatedAt[n])
  /\ Goto(r, WritesAt[n])
  /\ TouchesNothing /\ Measuring

Mine(r, n) == loose[n] = [by |-> r, bytes |-> Empty]

\* The bytes go to the file that was created, whatever has its name by now.
WriteLoose(r, n, bytes) ==
  /\ At(r, WritesAt[n])
  /\ IF Mine(r, n) THEN TouchesLoose(r, n, [by |-> r, bytes |-> bytes]) ELSE TouchesNothing
  /\ Exit(r, "0")
  /\ Measuring

WriteFails(r, n) ==
  /\ At(r, WritesAt[n]) /\ "fail" \in others
  /\ \E e \in {"2", "interrupted"} : failure' = [failure EXCEPT ![r] = e]
  /\ Goto(r, ComparesAt[n])
  /\ Meets(r)
  /\ UNCHANGED <<sources, outputs, circumstances, walking, collecting, observed>>

\* lstat: only a file that is still the one that was created is removed, a moment later.
Recognize(r, n) ==
  /\ At(r, ComparesAt[n])
  /\ IF Mine(r, n) THEN Goto(r, RemovesAt[n]) ELSE Exit(r, failure[r])
  /\ TouchesNothing /\ Measuring

Withdraw(r, n) ==
  /\ At(r, RemovesAt[n])
  /\ IF loose[n] = Folder THEN TouchesNothing ELSE TouchesLoose(r, n, Absent)
  /\ Exit(r, failure[r])
  /\ Measuring

-----------------------------------------------------------------------------
(* _check_input; _read_exact_input reads the file that it opened. *)
ReadExactInput(r) ==
  /\ pc[r] \in {"scenario-check", "input"}
  /\ LET x == loose.scenario
     IN IF ~IsFile(x) THEN Exit(r, "2")
        ELSE Check(r, Size(x) = "right" /\ x.bytes = Scenario, "scenario-manifest", "1")
  /\ TouchesNothing /\ Measuring

CompareManifest(r) ==
  /\ At(r, "scenario-manifest")
  /\ IF request[r].manifest = "unusable" THEN Exit(r, "2")
     ELSE Check(r, request[r].manifest = "right", "semantics", "1")
  /\ TouchesNothing /\ Measuring

\* What the command line reads, by the name of the file, and finds in it.
Finds(x) == IF IsFile(x) THEN x.bytes ELSE Absent

VerifySemantics(r) ==
  /\ At(r, "semantics")
  /\ IF request[r].command = "scenario-check"
     THEN Exit(r, IF Finds(loose.scenario) \in {Scenario, Akin} THEN "0" ELSE "1")
     ELSE Check(r, Finds(loose.scenario) \in {Scenario, Akin}, "child", "1")
  /\ TouchesNothing /\ Measuring

-----------------------------------------------------------------------------
(* measure *)
RequireNewPath(r) ==
  /\ At(r, "measure")
  /\ Check(r, loose.record = Absent, "python", "2")
  /\ TouchesNothing /\ Measuring

ValidatedPython(r) ==
  /\ At(r, "python")
  /\ Check(r, request[r].tools, "input", "2")
  /\ TouchesNothing /\ Measuring

\* Children come format by format; First is the child that began the series of child k.
First(k) == k - ((k - 1) % SeriesLength)
Child(r) == Len(observed[r]) + 1
AllMeasured(r) == Len(observed[r]) = Len(ReportFormats) * SeriesLength
SeriesBegins(r) == First(Child(r)) = Child(r)

\* The environments of two formats are compared when the later series has ended.
EarlierSeriesAgree(r) ==
  Len(observed[r]) > SeriesLength /\ SeriesBegins(r) =>
    observed[r][First(Len(observed[r]))].environment = observed[r][1].environment

\* A report says which bytes it was made from.  The child gives it to a path of its own.
RunChild(r) ==
  /\ At(r, "child") /\ ~AllMeasured(r) /\ EarlierSeriesAgree(r)
  /\ \E environment \in IF "drift" \in others THEN {0, 1} ELSE {0} :
       LET told == [environment |-> environment, report |-> Finds(loose.scenario)]
       IN /\ Check(r, told.report \in {Scenario, Akin} /\ (SeriesBegins(r) \/ told = observed[r][First(Child(r))]),
                   "child", "1")
          /\ observed' = [observed EXCEPT ![r] = Append(@, told)]
  /\ TouchesNothing /\ UNCHANGED failure

\* A child cannot be started, takes too long, or ends otherwise than it should.
ChildFails(r) ==
  /\ At(r, "child") /\ ~AllMeasured(r) /\ EarlierSeriesAgree(r) /\ "fail" \in others
  /\ Exit(r, "1")
  /\ Meets(r)
  /\ UNCHANGED <<sources, outputs, circumstances, walking, collecting>> /\ Measuring

SeriesDiffer(r) ==
  /\ At(r, "child") /\ ~EarlierSeriesAgree(r)
  /\ Exit(r, "1")
  /\ TouchesNothing /\ Measuring

EndOfMeasurement(r) ==
  /\ At(r, "child") /\ AllMeasured(r) /\ EarlierSeriesAgree(r)
  /\ Goto(r, "measured")
  /\ TouchesNothing /\ Measuring

\* The record has one environment, and for every format the report of its series.
Record(r) ==
  [environment |-> observed[r][1].environment,
   reports |-> [f \in 1..Len(ReportFormats) |-> observed[r][(f - 1) * SeriesLength + 1].report]]

MeasureStep(r) ==
  \/ \E n \in LooseNames : CreateLoose(r, n) \/ IdentifyLoose(r, n) \/ WriteFails(r, n) \/ Recognize(r, n) \/ Withdraw(r, n)
  \/ WriteLoose(r, "scenario", Scenario) \/ (At(r, "write-record") /\ WriteLoose(r, "record", Record(r)))
  \/ ReadExactInput(r) \/ CompareManifest(r) \/ VerifySemantics(r)
  \/ RequireNewPath(r) \/ ValidatedPython(r)
  \/ RunChild(r) \/ ChildFails(r) \/ SeriesDiffer(r) \/ EndOfMeasurement(r)
=============================================================================
