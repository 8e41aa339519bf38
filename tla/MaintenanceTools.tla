-------------------------- MODULE MaintenanceTools --------------------------
(***************************************************************************)
(* The maintenance scripts side by side: invocations of                    *)
(* synthetic_corpus.py, example_reports.py, build_release.py and           *)
(* observed_performance.py in one working tree.  They know nothing of each *)
(* other; what keeps their results apart is what each looks at and creates.*)
(***************************************************************************)
EXTENDS ExampleReports, ReleaseBuild, ObservedPerformance

vars == <<runVars, corpusVars, reportVars, buildVars, measureVars>>

Init == RunsInit /\ CorpusInit /\ ReportsInit /\ BuildInit /\ MeasureInit

Corpuses(r) == CorpusStep(r) /\ UNCHANGED <<reportVars, buildVars, measureVars>>
Reports(r) == ReportsStep(r) /\ UNCHANGED <<corpusVars, buildVars, measureVars>>
Builds(r) == BuildStep(r) /\ UNCHANGED <<corpusVars, reportVars, measureVars>>
Measures(r) == MeasureStep(r) /\ UNCHANGED <<corpusVars, reportVars, buildVars>>

Next ==
  \/ \E r \in Runs : Corpuses(r) \/ Reports(r) \/ Builds(r) \/ Measures(r)
  \/ /\ (\E r \in Runs : Start(r) \/ Break(r)) \/ Edit \/ Change \/ Move
     /\ UNCHANGED <<corpusVars, reportVars, buildVars, measureVars>>

Spec == Init /\ [][Next]_vars

-----------------------------------------------------------------------------
(* What the files hold that scripts and other programs write, and what the scripts    *)
(* rely on: both directories begin with SHA256SUMS, and what it says differs.         *)
Copied == Contents \cup {Nothing, Unread}
Entered == [inputs : Seq(Copied), report : Seq(Copied)]
FileBytes ==
  Brought \cup {Empty, Long, Corpus, Alike, Scenario, Akin}
    \cup [page : Seq(Copied)] \cup [manifest : Seq(Entered)] \cup [sums : Seq(Entered)]
Written == [by : Runs \cup {Others}, bytes : FileBytes]
NoFiles == {Absent, Symlink, Folder, Special}

ASSUME NamesAreNoFiles == \A x \in NoFiles : x \notin Written
ASSUME NothingIsWritten ==
  \A s \in Situations :
    /\ s.holds \in [Directories -> [Slots -> NoFiles \cup [by : {Others}, bytes : FileBytes]]]
    /\ s.loose \in [LooseNames -> NoFiles \cup [by : {Others}, bytes : FileBytes]]
ASSUME ChecksumsComeFirst ==
  /\ CorpusPaths \in Seq(Slots) /\ CorpusPaths # <<>> /\ ReportPaths \in Seq(Slots) /\ ReportPaths # <<>>
  /\ CorpusPaths[1] = ReportPaths[1]
  /\ ReportPaths[1] # ReportManifest /\ \A k \in DOMAIN PageOf : PageOf[k] # ReportPaths[1]
ASSUME ChecksumsDiffer == Corpus \notin [sums : Seq(Entered)]
ASSUME NoPathTwice == IsInjective(CorpusPaths) /\ IsInjective(ReportPaths)
ASSUME TheCorpusIsManaged == {CorpusManifest, ScenarioPath, ValidationPath} \subseteq ToSet(CorpusPaths)
ASSUME SizesDiffer ==
  \A x \in {Absent, Empty, Long} :
    x \notin {Corpus, Scenario} \cup [page : Seq(Copied)] \cup [manifest : Seq(Entered)] \cup [sums : Seq(Entered)]
ASSUME EveryPageHasAScenario == DOMAIN PageOf \subseteq DOMAIN ScenarioInputs
ASSUME TheReadmeIsNotManaged == Readme \notin ToSet(CorpusPaths) \cup ToSet(ReportPaths)

-----------------------------------------------------------------------------
(* What a run has to come to in the world it found, if nothing disturbs it. *)
Came(status, world) == [status |-> status, world |-> world]

EntriesOf(w) == IF w.place \in Directories THEN w.holds[w.place] ELSE [s \in Slots |-> Absent]
AreFiles(entries, slots) == \A s \in slots : entries[s] = Absent \/ IsFile(entries[s])
Named(entries) == {s \in Slots : entries[s] # Absent}
BytesOf(x) == IF IsFile(x) THEN x.bytes ELSE Absent

CorpusBytes == [s \in ToSet(CorpusPaths) |-> Corpus]
ReportsBytes(m) == [s \in ToSet(ReportPaths) |-> ReportBytes(m, s)]

\* A run with files of these bytes has filled a directory, which it makes if there is none.
Goal(w) == IF w.place = Absent THEN CHOOSE d \in Directories \ w.used : TRUE ELSE w.place
Filled(r, w, bytes) ==
  [w EXCEPT !.place = Goal(w), !.used = @ \cup {Goal(w)},
            !.holds[Goal(w)] = [s \in Slots |-> IF s \in DOMAIN bytes THEN [by |-> r, bytes |-> bytes[s]] ELSE @[s]]]

Generated(r, w, usable, bytes) ==
  IF request[r].valid /\ w.place \notin {Symlink, Plain} /\ usable THEN Came("0", Filled(r, w, bytes)) ELSE Came("2", w)

Verified(r, w, safe, names, bytes) ==
  Came(IF ~request[r].valid \/ w.place \notin Directories \/ ~safe THEN "2"
       ELSE IF names = DOMAIN bytes /\ \A s \in names : BytesOf(EntriesOf(w)[s]) = bytes[s] THEN "0" ELSE "1", w)

CorpusCame(r, w) ==
  LET entries == EntriesOf(w)
      files == {s \in Named(entries) : entries[s] # Folder}
  IN IF request[r].command = "corpus-generate"
     THEN Generated(r, w, Named(entries) \subseteq {Readme} /\ AreFiles(entries, Slots), CorpusBytes)
     ELSE LET checked == Verified(r, w, AreFiles(entries, files), files \ {Readme}, CorpusBytes)
          IN IF request[r].command = "corpus-replay" /\ Misnamed(r) /\ checked.status = "0" THEN Came("2", w) ELSE checked

\* The first scenario that cannot be derived decides.
ScenarioCame(w, inputs) ==
  LET files == ToSet(inputs)
  IN IF \E f \in files : f \in w.links \/ w.tree[f] \notin LoadableContents THEN "2"
     ELSE IF \E f \in files : w.tree[f] \notin ExpectedContents THEN "1" ELSE "0"
Derived(w) ==
  [k \in DOMAIN ScenarioInputs |->
     LET copies == [j \in DOMAIN ScenarioInputs[k] |-> w.tree[ScenarioInputs[k][j]]] IN [inputs |-> copies, report |-> copies]]
Bad(w) == {k \in DOMAIN ScenarioInputs : ScenarioCame(w, ScenarioInputs[k]) # "0"}

ReportsCame(r, w) ==
  LET entries == EntriesOf(w)
  IN IF Bad(w) # {} THEN Came(ScenarioCame(w, ScenarioInputs[CHOOSE k \in Bad(w) : \A j \in Bad(w) : k <= j]), w)
     ELSE IF request[r].command = "reports-generate"
     THEN Generated(r, w, Named(entries) = {}, ReportsBytes(Derived(w)))
     ELSE Verified(r, w, AreFiles(entries, Slots), Named(entries), ReportsBytes(Derived(w)))

\* What is not there is missed if it has to be there; a link is refused.
Lacking(w) == \E f \in Staged : f \in w.links \/ (f \in ToSet(BuildFiles) /\ w.tree[f] = Nothing)
CopiesOf(w) == [f \in Sources |-> IF f \in Staged THEN w.tree[f] ELSE Unread]
BuildCame(r, w) ==
  LET package == w.tree[VersionFile]
  IN IF request[r].epoch = "early" \/ ~request[r].valid \/ w.dist \notin {Absent, VacantDirectory} \/ package = Nothing
     THEN Came("2", w)
     ELSE IF VersionOf[package] = NotPython THEN Came("traceback", w)
     ELSE IF VersionOf[package] = NoVersion \/ Lacking(w) THEN Came("2", w)
     ELSE IF request[r].epoch = "huge" THEN Came("traceback", w)
     ELSE IF ~request[r].tools \/ request[r].epoch = "late" THEN Came("2", w)
     ELSE Came("0", [w EXCEPT !.dist =
            [by |-> r, version |-> VersionOf[package], source |-> [f \in Staged |-> w.tree[f]],
             archives |-> Archives(CopiesOf(w), 0)]])

\* The scenario of a check or a measurement.
InputCame(r, w) ==
  LET x == w.loose.scenario
      expected == request[r].manifest
  IN IF ~IsFile(x) \/ (x.bytes = Scenario /\ expected = "unusable") THEN "2"
     ELSE IF x.bytes = Scenario /\ expected = "right" THEN "0" ELSE "1"
RecordOfAll == [environment |-> 0, reports |-> [k \in 1..Len(ReportFormats) |-> Scenario]]
MeasureCame(r, w) ==
  CASE request[r].command = "scenario-generate" ->
          IF w.loose.scenario # Absent THEN Came("2", w)
          ELSE Came("0", [w EXCEPT !.loose.scenario = [by |-> r, bytes |-> Scenario]])
    [] request[r].command = "scenario-check" -> Came(InputCame(r, w), w)
    [] OTHER -> IF w.loose.record # Absent \/ ~request[r].tools THEN Came("2", w)
                ELSE IF InputCame(r, w) # "0" THEN Came(InputCame(r, w), w)
                ELSE Came("0", [w EXCEPT !.loose.record = [by |-> r, bytes |-> RecordOfAll]])

Outcome(r, w) ==
  CASE request[r].command \in {"corpus-generate", "corpus-check", "corpus-replay"} -> CorpusCame(r, w)
    [] request[r].command \in {"reports-generate", "reports-check"} -> ReportsCame(r, w)
    [] request[r].command = "build" -> BuildCame(r, w)
    [] OTHER -> MeasureCame(r, w)

Released(r) == dist \notin {Absent, VacantDirectory, Plain} /\ dist.by = r
Ends(r) == exit[r] = "running" /\ exit'[r] # "running"
Steady == {"noise", "drift"} \cap others = {}

(***************************************************************************)
(* A run that is left alone by others ends with the status, and leaves the *)
(* files, that the world it began in determines, for every kind of entry,  *)
(* link, missing or odd source and invalid argument there may be: whatever *)
(* the order of the many looks the scripts take, the one that decides is   *)
(* the same, and a refused command changes nothing.                        *)
(***************************************************************************)
OutcomesExact ==
  [][\A r \in Runs : Ends(r) /\ r \in alone' /\ Steady =>
       Outcome(r, found[r]) = Came(exit'[r], World')]_vars

(***************************************************************************)
(* What ended well is whole.                                               *)
(*  - Where no other program changes the files, a generator that says 0    *)
(*    leaves a directory with its own files, all of them and filled, and   *)
(*    nobody else's: not those of the other generator that found the same  *)
(*    directory empty, nor the first half of a run that failed or was      *)
(*    killed; and a check or replay that says 0 while generators are at    *)
(*    work has seen a directory to which nothing is added any more.  For   *)
(*    the reports this is so even if the directory is moved meanwhile,     *)
(*    unless a corpus is generated at the same time, by its name.          *)
(*  - The record of a measurement is true of every child, warmups          *)
(*    included, and both builds of a release have come to what it holds.   *)
(***************************************************************************)
Managed(r) == IF request[r].command \in {"corpus-generate", "corpus-check", "corpus-replay"}
              THEN [paths |-> CorpusPaths, bytes |-> [s \in ToSet(CorpusPaths) |-> Corpus]]
              ELSE [paths |-> ReportPaths, bytes |-> [s \in ToSet(ReportPaths) |-> ReportBytes(managed[r], s)]]
Succeeded(r, commands) == exit[r] = "0" /\ request[r].command \in commands

\* The reports are written by the descriptor of the directory, the corpus by its name.
GeneratedIn(r, d) ==
  \A s \in Slots :
    LET x == holds[d][s]
    IN IF s \in ToSet(Managed(r).paths) THEN x = [by |-> r, bytes |-> Managed(r).bytes[s]]
       ELSE x = found[r].holds[d][s] /\ (x = Absent \/ s = Readme)

CheckedIn(r, d) ==
  LET files == {s \in Slots : IsFile(holds[d][s])}
  IN /\ files \ (IF request[r].command = "reports-check" THEN {} ELSE {Readme}) = ToSet(Managed(r).paths)
     /\ \A s \in ToSet(Managed(r).paths) : holds[d][s].bytes = Managed(r).bytes[s]

Settled == "change" \notin others /\ "move" \notin others
Apart == "change" \notin others /\ \A q \in Runs : request[q].command # "corpus-generate"

DirectoriesWhole ==
  \A r \in Runs :
    /\ Settled \/ Apart =>
         /\ Succeeded(r, {"reports-generate"}) => GeneratedIn(r, fd[r])
         /\ Succeeded(r, {"reports-check"}) => CheckedIn(r, fd[r])
    /\ Settled =>
         /\ Succeeded(r, {"corpus-generate"}) => GeneratedIn(r, place)
         /\ Succeeded(r, {"corpus-check", "corpus-replay"}) => CheckedIn(r, place)

RepeatsAgree ==
  /\ \A r \in Runs :
       LET record == loose.record
       IN IsFile(record) /\ record.by = r /\ record.bytes # Empty =>
            /\ Len(observed[r]) = Len(ReportFormats) * SeriesLength
            /\ \A k \in DOMAIN observed[r] :
                 observed[r][k] = [environment |-> record.bytes.environment,
                                   report |-> record.bytes.reports[((k - 1) \div SeriesLength) + 1]]
  /\ \A r \in Runs : Released(r) => \A k \in {1, 2} : built[r][k] = dist.archives

ResultsWhole == DirectoriesWhole /\ RepeatsAgree

(***************************************************************************)
(* Where no content of a file comes back after it was replaced, what is    *)
(* collected from a tree that is being edited is the tree of one instant,  *)
(* the end of the first reading: the files of a release, its version, and  *)
(* the inputs, provenance and pages of each scenario.                      *)
(***************************************************************************)
ReleaseOfOneInstant(r) ==
  Released(r) =>
    /\ \A f \in Staged : dist.source[f] = instant[r][f] /\ dist.archives.files[f] = instant[r][f]
    /\ dist.version = VersionOf[instant[r][VersionFile]]

Accepted(r) == EntriesRead(r) /\ Told(r, "first") = Told(r, "last")
ReportsOfOneInstant(r) ==
  /\ Accepted(r) =>
       \A f \in ToSet(Inputs(r)) : taken[r].first[f] = instant[r][f] /\ taken[r].loaded[f] = instant[r][f]
  /\ \A k \in DOMAIN managed[r] : managed[r][k].inputs = managed[r][k].report

OneInstant == ~returned => \A r \in Runs : ReleaseOfOneInstant(r) /\ ReportsOfOneInstant(r)
=============================================================================
