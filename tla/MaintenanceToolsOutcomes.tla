---------------------- MODULE MaintenanceToolsOutcomes ----------------------
(***************************************************************************)
(* OutcomesExact of MaintenanceTools: a command that is left alone says    *)
(* what Outcome says of the world it found, and leaves what Outcome says.  *)
(*                                                                         *)
(* A run that nothing disturbs has seen, as far as it has got, the world   *)
(* it found, and all that it has looked at was in order; so the first      *)
(* thing that is not decides, as Outcome says.  OutcomeInv is this, for    *)
(* each place in the commands one predicate (Targets, Prepares, ...); the  *)
(* Due lemmas say that the steps of a run keep what is said of that run,   *)
(* LoneKept that the others, or it, lose `alone' where they disturb it.    *)
(***************************************************************************)
EXTENDS MaintenanceToolsProofs

(* OutcomesExact.  What a run that nothing has disturbed has seen and done so far is  *)
(* what the world it found, found[r], determines.                                     *)
SoundWorld(w) ==
  /\ w = [tree |-> w.tree, links |-> w.links, place |-> w.place, used |-> w.used, holds |-> w.holds,
          loose |-> w.loose, dist |-> w.dist]
  /\ w.tree \in [Sources -> Bytes]
  /\ w.used \subseteq Directories /\ w.place \in w.used \cup {Absent, Symlink, Plain}
  /\ w.holds \in [Directories -> [Slots -> NoFiles \cup Written]]
  /\ \A d \in Directories \ w.used, s \in Slots : w.holds[d][s] = Absent

Intact(r) == World = found[r]

\* Reports are derived before a directory is looked at.
Derivation(r) == OfCorpus(r) \/ (managed[r] = Derived(found[r]) /\ Bad(found[r]) = {})
BytesFor(r) == IF OfCorpus(r) THEN CorpusBytes ELSE ReportsBytes(managed[r])
InFound(r, s) == EntriesOf(found[r])[s]

\* A generator that has no directory yet.
Targets(r) ==
  pc[r] \in {"corpus-generate", "reports-target", "look", "mkdir"} =>
    /\ Intact(r) /\ Derivation(r)
    /\ pc[r] \in {"look", "mkdir"} => request[r].valid /\ found[r].place # Symlink
    /\ pc[r] = "mkdir" => found[r].place = Absent

Grounded(w) == [w EXCEPT !.place = Goal(w), !.used = @ \cup {Goal(w)}]
Stocked(w, entries) == [w EXCEPT !.place = Goal(w), !.used = @ \cup {Goal(w)}, !.holds[Goal(w)] = entries]

\* It has one, the one it found or a new one.
Prepares(r) ==
  pc[r] \in {"prepare", "empty"} =>
    /\ Derivation(r) /\ request[r].valid
    /\ found[r].place \in Directories \cup {Absent} /\ Goal(found[r]) \in Directories
    /\ found[r].holds[Goal(found[r])] = EntriesOf(found[r])
    /\ World = Grounded(found[r])
    /\ pc[r] = "empty" => fd[r] = Goal(found[r])

\* It has nothing in its way any more, and has made the first files.
SoFar(r) ==
  [s \in Slots |->
     IF \E k \in 1..number[r] : Paths(r)[k] = s THEN [by |-> r, bytes |-> BytesFor(r)[s]]
     ELSE IF pc[r] \in {"corpus-fill", "page-fill"} /\ s = Paths(r)[number[r] + 1] THEN [by |-> r, bytes |-> Empty]
     ELSE found[r].holds[Goal(found[r])][s]]
Produces(r) ==
  pc[r] \in {"corpus-parents", "corpus-create", "corpus-fill", "page", "page-fill"} =>
    /\ Outcome(r, found[r]) = Came("0", Filled(r, found[r], BytesFor(r)))
    /\ Goal(found[r]) \in Directories
    /\ \A s \in ToSet(Paths(r)) : found[r].holds[Goal(found[r])][s] = Absent
    /\ number[r] <= Len(Paths(r)) /\ (pc[r] \in {"corpus-create", "corpus-fill", "page-fill"} => number[r] < Len(Paths(r)))
    /\ World = Stocked(found[r], SoFar(r))
    /\ pc[r] \in {"corpus-fill", "page", "page-fill"} => fd[r] = Goal(found[r])

\* A check that has not seen all entries yet.
Passed(r, s) == IsFile(InFound(r, s)) \/ (OfCorpus(r) /\ InFound(r, s) = Folder)
Listing(entries) == {[name |-> s, folder |-> entries[s] = Folder] : s \in Named(entries)}
Inspects(r) ==
  pc[r] \in {"corpus-check", "corpus-replay", "reports-look", "reports-open", "reports-list", "walk", "walked", "reports-entries"} =>
    /\ Intact(r) /\ Derivation(r)
    /\ pc[r] \in {"reports-open", "reports-list", "walk", "walked", "reports-entries"} =>
         request[r].valid /\ found[r].place \in Directories
    /\ pc[r] \in {"reports-list", "reports-entries"} => fd[r] = found[r].place
    /\ pc[r] \in {"walked", "reports-entries"} =>
         /\ listing[r].entries = Listing(EntriesOf(found[r]))
         /\ listing[r].left \subseteq listing[r].entries
         /\ \A e \in listing[r].entries \ listing[r].left : Passed(r, e.name)

\* It has, and compares what is in the files.
Collates(r) ==
  pc[r] \in {"corpus-size", "corpus-read", "reports-size", "reports-read"} =>
    /\ Intact(r) /\ Derivation(r) /\ request[r].valid /\ found[r].place \in Directories
    /\ ~OfCorpus(r) => fd[r] = found[r].place
    /\ number[r] <= Len(Paths(r)) /\ (pc[r] \in {"corpus-read", "reports-read"} => number[r] < Len(Paths(r)))
    /\ \A s \in Named(EntriesOf(found[r])) : Passed(r, s)
    /\ {s \in Named(EntriesOf(found[r])) : InFound(r, s) # Folder} \ (IF OfCorpus(r) THEN {Readme} ELSE {}) = ToSet(Paths(r))
    /\ \A k \in 1..number[r] : InFound(r, Paths(r)[k]).bytes = BytesFor(r)[Paths(r)[k]]

\* What a check says of what was found, and what bars a replay of a corpus that is right.
FilesFound(r) == {s \in Named(EntriesOf(found[r])) : InFound(r, s) # Folder} \ (IF OfCorpus(r) THEN {Readme} ELSE {})
AllPassed(r) == \A s \in Named(EntriesOf(found[r])) : Passed(r, s)
Verdict(r) ==
  IF ~request[r].valid \/ found[r].place \notin Directories \/ ~AllPassed(r) THEN "2"
  ELSE IF FilesFound(r) = ToSet(Paths(r)) /\ \A s \in ToSet(Paths(r)) : InFound(r, s).bytes = BytesFor(r)[s] THEN "0"
  ELSE "1"
Barred(r) == request[r].command = "corpus-replay" /\ Misnamed(r)

\* A replay goes on only if the corpus is right.
Replays(r) ==
  pc[r] \in {"corpus-manifest", "replay"} =>
    /\ Intact(r) /\ found[r].place \in Directories
    /\ \A s \in ToSet(CorpusPaths) : IsFile(InFound(r, s)) /\ InFound(r, s).bytes = Corpus
    /\ pc[r] = "corpus-manifest" => request[r].command = "corpus-replay" /\ replayed[r] = 0 /\ Verdict(r) = "0"
    /\ pc[r] = "replay" => replayed[r] \in {0, 1, 2} /\ (replayed[r] = 1 => told[r] = Corpus)

\* What has been read is what is there.
Faithful(r) ==
  /\ opened[r] # Absent => opened[r] \notin found[r].links /\ seen[r] = {found[r].tree[opened[r]]} /\ found[r].tree[opened[r]] # Nothing
  /\ \A p \in Passes, f \in Sources : Has(r, p, f) => taken[r][p][f] = found[r].tree[f]

\* The scenarios so far are good ones, and so are the inputs that have been read and loaded.
Legible(w, f) == f \notin w.links /\ w.tree[f] # Nothing
Deduces(r) ==
  /\ pc[r] \in {"reports-generate", "reports-check"} => Intact(r)
  /\ pc[r] \in Reading =>
       /\ Intact(r) /\ Faithful(r)
       /\ \A k \in DOMAIN managed[r] :
            managed[r][k] = Derived(found[r])[k] /\ ScenarioCame(found[r], ScenarioInputs[k]) = "0"
       /\ \A k \in DOMAIN Inputs(r) : pass[r] # "first" \/ k <= number[r] => Legible(found[r], Inputs(r)[k])
       /\ pass[r] = "loaded" => \A k \in 1..number[r] : found[r].tree[Inputs(r)[k]] \in LoadableContents
       /\ pass[r] \in {"again", "last"} => ScenarioCame(found[r], Inputs(r)) = "0"

\* A build has copied what there is.
Makes(r) ==
  pc[r] \in {"build", "version"} \cup Staging \cup Checked =>
    /\ Intact(r) /\ request[r].command = "build"
    /\ pc[r] # "build" =>
         request[r].epoch # "early" /\ request[r].valid /\ found[r].dist \in {Absent, VacantDirectory}
    /\ pc[r] = "version" /\ opened[r] # Absent =>
         found[r].tree[VersionFile] # Nothing /\ opened[r] = VersionFile /\ seen[r] = {found[r].tree[VersionFile]}
    /\ pc[r] \in Staging \cup Checked =>
         /\ found[r].tree[VersionFile] # Nothing
         /\ version[r] = VersionOf[found[r].tree[VersionFile]] /\ version[r] \notin {NoVersion, NotPython}
    /\ pc[r] \in Staging =>
         /\ Faithful(r)
         /\ \A f \in ToSet(plan[r]) : f \in ToSet(BuildFiles) \/ found[r].tree[f] # Nothing \/ f \in found[r].links
         /\ \A k \in 1..number[r] : Legible(found[r], plan[r][k])
         /\ pc[r] = "package" =>
              /\ \A f \in ToSet(BuildFiles) : Legible(found[r], f)
              /\ \A f \in ToSet(PackageFiles) \ ToSet(plan[r]) : f \notin found[r].links
         /\ pass[r] = "last" => ~Lacking(found[r]) /\ request[r].epoch # "huge"
    /\ pc[r] \in Checked =>
         /\ ~Lacking(found[r]) /\ request[r].epoch # "huge" /\ taken[r].first = CopiesOf(found[r]) /\ taken[r].last = CopiesOf(found[r])
         /\ pc[r] # "environment" => request[r].tools
         /\ \A k \in DOMAIN built[r] : built[r][k] = Archives(CopiesOf(found[r]), 0)
         /\ built[r] # <<>> => request[r].epoch # "late"

\* A measurement has found its input, and every child has told the same.
Scene(r) == IsFile(found[r].loose.scenario) /\ found[r].loose.scenario.bytes = Scenario
Recordable(r) == found[r].loose.record = Absent /\ request[r].tools
WithLoose(w, n, x) == [w EXCEPT !.loose[n] = x]
Watches(r) ==
  /\ pc[r] \in {"scenario-generate", "scenario-check", "measure"} => Intact(r) /\ request[r].command = pc[r]
  /\ pc[r] \in {"new-scenario", "write-scenario"} =>
       /\ request[r].command = "scenario-generate" /\ found[r].loose.scenario = Absent
       /\ World = WithLoose(found[r], "scenario", [by |-> r, bytes |-> Empty])
  /\ pc[r] \in {"python", "input"} =>
       /\ Intact(r) /\ request[r].command = "measure"
       /\ found[r].loose.record = Absent /\ (pc[r] = "input" => request[r].tools)
  /\ pc[r] \in {"scenario-manifest", "semantics"} =>
       /\ Intact(r) /\ Scene(r)
       /\ request[r].command = "scenario-check" \/ (request[r].command = "measure" /\ Recordable(r))
       /\ pc[r] = "semantics" => request[r].manifest = "right"
  /\ pc[r] \in {"child", "measured", "new-record", "write-record"} =>
       /\ request[r].command = "measure" /\ Scene(r) /\ Recordable(r) /\ request[r].manifest = "right"
       /\ pc[r] \in {"child", "measured"} => Intact(r)
       /\ pc[r] \in {"new-record", "write-record"} => World = WithLoose(found[r], "record", [by |-> r, bytes |-> Empty])
       /\ \A k \in DOMAIN observed[r] : observed[r][k] = [environment |-> 0, report |-> Scenario]
  /\ pc[r] \notin {"compare-scenario", "compare-record", "unlink-scenario", "unlink-record"}

Lone(r) ==
  /\ SoundWorld(found[r])
  /\ Targets(r) /\ Prepares(r) /\ Produces(r)
  /\ Inspects(r) /\ Collates(r) /\ Replays(r)
  /\ Deduces(r) /\ Makes(r) /\ Watches(r)

\* A manifest of another name is not replayed.
Playable(r) == Barred(r) => replayed[r] = 0 /\ pc[r] # "replay"

LoneInv == Steady => \A r \in Runs : r \in alone /\ pc[r] \notin {"begin", "ended"} => Lone(r)
OutcomeInv == (\A r \in Runs : Playable(r)) /\ LoneInv

-----------------------------------------------------------------------------
(* What other runs do. *)
Arrays ==
  /\ DOMAIN pc = Runs /\ DOMAIN exit = Runs /\ DOMAIN number = Runs /\ DOMAIN fd = Runs /\ DOMAIN listing = Runs
  /\ DOMAIN pass = Runs /\ DOMAIN opened = Runs /\ DOMAIN seen = Runs /\ DOMAIN taken = Runs /\ DOMAIN managed = Runs
  /\ DOMAIN version = Runs /\ DOMAIN plan = Runs /\ DOMAIN built = Runs /\ DOMAIN observed = Runs
  /\ DOMAIN replayed = Runs /\ DOMAIN told = Runs /\ DOMAIN found = Runs

\* All there is of a run, but for what it began in and how it ended.
Unmoved(r) ==
  /\ pc'[r] = pc[r] /\ exit'[r] = exit[r] /\ number'[r] = number[r] /\ fd'[r] = fd[r] /\ listing'[r] = listing[r]
  /\ pass'[r] = pass[r] /\ opened'[r] = opened[r] /\ seen'[r] = seen[r] /\ taken'[r] = taken[r] /\ managed'[r] = managed[r]
  /\ version'[r] = version[r] /\ plan'[r] = plan[r] /\ built'[r] = built[r] /\ observed'[r] = observed[r]
  /\ replayed'[r] = replayed[r] /\ told'[r] = told[r]
Undisturbed(r) == World' = World /\ request' = request /\ found'[r] = found[r] /\ Unmoved(r)

LEMMA ArraysAre ==
  ASSUME IInv, WholeInv
  PROVE Arrays
<1>1. TypeOK /\ Tied /\ UsedInv /\ OutputOK /\ MeasureInv
  BY DEF IInv, WholeInv, DirectoriesInv
<1>2. DOMAIN pc = Runs /\ DOMAIN exit = Runs /\ DOMAIN number = Runs /\ DOMAIN fd = Runs /\ DOMAIN listing = Runs /\ DOMAIN found = Runs
  BY <1>1 DEF TypeOK, ControlOK, Tied, OutputOK
<1>3. /\ DOMAIN pass = Runs /\ DOMAIN opened = Runs /\ DOMAIN seen = Runs /\ DOMAIN taken = Runs /\ DOMAIN managed = Runs
      /\ DOMAIN version = Runs /\ DOMAIN plan = Runs /\ DOMAIN built = Runs /\ DOMAIN observed = Runs
  BY <1>1 DEF TypeOK, ControlOK, ReadingOK, MeasureInv
<1> QED
  BY <1>1, <1>2, <1>3 DEF Arrays, UsedInv

LEMMA OutcomeStays ==
  ASSUME NEW r \in Runs, request' = request, found'[r] = found[r]
  PROVE Outcome(r, found[r])' = Outcome(r, found[r])
BY DEF Outcome, CorpusCame, ReportsCame, BuildCame, MeasureCame, Generated, Verified, InputCame, Misnamed

LEMMA UndisturbedStays ==
  ASSUME NEW r \in Runs, Lone(r), Undisturbed(r)
  PROVE Lone(r)'
<1> USE DEF Undisturbed, Unmoved, Intact
<1>1. SoundWorld(found[r])'
  BY DEF Lone, SoundWorld
<1>2. Derivation(r)' = Derivation(r) /\ OfCorpus(r)' = OfCorpus(r) /\ BytesFor(r)' = BytesFor(r) /\ Paths(r)' = Paths(r)
  BY DEF Derivation, OfCorpus, BytesFor, Paths
<1>3. Targets(r)'
  BY <1>2 DEF Lone, Targets
<1>4. Prepares(r)'
  BY <1>2 DEF Lone, Prepares
<1>5. Inspects(r)'
  <2>1. \A s : InFound(r, s)' = InFound(r, s) /\ Passed(r, s)' = Passed(r, s)
    BY <1>2 DEF Passed, InFound
  <2> QED
    BY <1>2, <2>1 DEF Lone, Inspects
<1>6. Collates(r)'
  BY <1>2 DEF Lone, Collates, Passed, InFound
<1>7. Replays(r)'
  <2>1. Verdict(r)' = Verdict(r)
    BY <1>2 DEF Verdict, AllPassed, FilesFound, Passed, InFound
  <2> QED
    BY <2>1 DEF Lone, Replays, InFound
<1>8. Deduces(r)'
  BY DEF Lone, Deduces, Faithful, Has, Inputs
<1>9. Makes(r)'
  BY DEF Lone, Makes, Faithful, Has
<1>10. Watches(r)'
  <2>1. Scene(r)' = Scene(r) /\ Recordable(r)' = Recordable(r)
    BY DEF Scene, Recordable
  <2> QED
    BY <2>1 DEF Lone, Watches
<1>11. Produces(r)'
  <2>1. SoFar(r)' = SoFar(r)
    BY <1>2 DEF SoFar
  <2>2. Outcome(r, found[r])' = Outcome(r, found[r])
    BY OutcomeStays
  <2> QED
    BY <1>2, <2>1, <2>2 DEF Lone, Produces
<1> QED
  BY <1>1, <1>3, <1>4, <1>5, <1>6, <1>7, <1>8, <1>9, <1>10, <1>11 DEF Lone

\* A step of a run moves no other run, and disturbs those at work if it changes anything.
Spares(q) ==
  /\ \A r \in Runs \ {q} : Unmoved(r)
  /\ UNCHANGED <<request, found, others>> /\ alone' \subseteq alone
  /\ UNCHANGED <<sources, outputs>> \/ Disturbs(q)

LEMMA SparedIsUndisturbed ==
  ASSUME NEW q, Spares(q), NEW r \in Runs \ {q}, r \in alone', pc[r] # "begin"
  PROVE Undisturbed(r)
<1>1. ~Disturbs(q)
  BY DEF Disturbs, At
<1> QED
  BY <1>1 DEF Spares, Undisturbed, World, sources, outputs

LEMMA CorpusSpares ==
  ASSUME Arrays, NEW q \in Runs, CorpusStep(q), UNCHANGED <<reportVars, buildVars, measureVars>>
  PROVE Spares(q)
<1> USE DEF Arrays, Spares, Unmoved, Looks, ReadsNothing, outputs, circumstances, history, walking, control, collecting,
            reportVars, buildVars, measureVars, Check, Goto, Exit, NotReplaying, corpusVars, Advance, Rewind
<1>1. CASE (ValidateTarget(q, "corpus-generate") \/ LookAtTarget(q) \/ MakeTarget(q) \/ InspectTarget(q)) /\ NotReplaying
  BY <1>1 DEF ValidateTarget, LookAtTarget, MakeTarget, InspectTarget, MakePlace, Disturbs
<1>2. CASE (MakeParents(q) \/ CreateManaged(q) \/ FillManaged(q) \/ EndOfCorpus(q)) /\ NotReplaying
  BY <1>2 DEF MakeParents, CreateManaged, FillManaged, EndOfCorpus, CreateEntry, FillEntry, MakePlace, Disturbs
<1>3. CASE (FindCorpus(q) \/ WalkCorpus(q) \/ ExamineWalked(q) \/ ComparePaths(q)) /\ NotReplaying
  BY <1>3 DEF FindCorpus, WalkCorpus, ExamineWalked, ComparePaths, List, Examine
<1>4. CASE (SizeManaged(q) \/ ReadManaged(q) \/ EndOfCheck(q)) /\ NotReplaying
  BY <1>4 DEF SizeManaged, ReadManaged, EndOfCheck
<1>5. CASE LoadManifest(q)
  BY <1>5 DEF LoadManifest
<1>6. CASE ReplayScenario(q)
  <2>1. \E s, e : pc' = [pc EXCEPT ![q] = s] /\ (exit' = exit \/ exit' = [exit EXCEPT ![q] = e])
    BY <1>6 DEF ReplayScenario
  <2> QED
    BY <1>6, <2>1 DEF ReplayScenario
<1>7. CASE ReplayValidation(q)
  <2>1. \E s, e : pc' = [pc EXCEPT ![q] = s] /\ (exit' = exit \/ exit' = [exit EXCEPT ![q] = e])
    BY <1>7 DEF ReplayValidation
  <2> QED
    BY <1>7, <2>1 DEF ReplayValidation
<1>8. CASE ReplayFails(q)
  BY <1>8 DEF ReplayFails, Meets
<1> QED
  BY <1>1, <1>2, <1>3, <1>4, <1>5, <1>6, <1>7, <1>8 DEF CorpusStep

LEMMA ReportsSpares ==
  ASSUME Arrays, NEW q \in Runs, ReportsStep(q), UNCHANGED <<corpusVars, buildVars, measureVars>>
  PROVE Spares(q)
<1> USE DEF Arrays, Spares, Unmoved, Looks, ReadsNothing, outputs, circumstances, history, walking, control, collecting,
            corpusVars, buildVars, measureVars, Check, Goto, Exit, Deriving, Advance, Rewind
<1>1. CASE BeginReports(q) \/ ReadInput(q) \/ EndOfBefore(q) \/ OpenLoaded(q)
  BY <1>1 DEF BeginReports, ReadInput, EndOfBefore, OpenLoaded, OpenSource, RefuseSource, TakeSource, EndOfFirstPass
<1>2. CASE LoadInput(q) \/ Evaluate(q) \/ CompareProvenance(q) \/ CompareEntries(q)
  BY <1>2 DEF LoadInput, Evaluate, CompareProvenance, CompareEntries
<1>3. CASE EndOfScenario(q)
  BY <1>3 DEF EndOfScenario
<1>4. CASE (ValidateTarget(q, "reports-target") /\ Deriving) \/ OpenOutput(q) \/ InspectOutput(q) \/ CreatePage(q) \/ FillPage(q) \/ EndOfPages(q)
  BY <1>4 DEF ValidateTarget, OpenOutput, InspectOutput, CreatePage, FillPage, EndOfPages, CreateEntry, FillEntry, Disturbs
<1>5. CASE FindReports(q) \/ OpenReports(q) \/ ListReports(q) \/ ExamineReport(q) \/ CompareNames(q)
  BY <1>5 DEF FindReports, OpenReports, ListReports, ExamineReport, CompareNames, List, Examine
<1>6. CASE SizePage(q) \/ ReadPage(q) \/ EndOfReportsCheck(q)
  BY <1>6 DEF SizePage, ReadPage, EndOfReportsCheck
<1> QED
  BY <1>1, <1>2, <1>3, <1>4, <1>5, <1>6 DEF ReportsStep

LEMMA BuildSpares ==
  ASSUME Arrays, NEW q \in Runs, BuildStep(q), UNCHANGED <<corpusVars, reportVars, measureVars>>
  PROVE Spares(q)
<1> USE DEF Arrays, Spares, Unmoved, Looks, ReadsNothing, outputs, circumstances, history, walking, control, collecting,
            corpusVars, reportVars, measureVars, Check, Goto, Exit, Building, buildVars, Advance, Rewind
<1>1. CASE PreflightOutput(q) \/ OpenVersion(q) \/ ReadVersion(q)
  BY <1>1 DEF PreflightOutput, OpenVersion, ReadVersion
<1>2. CASE CopySource(q)
  BY <1>2 DEF CopySource, OpenSource, RefuseSource, TakeSource
<1>3. CASE ListPackage(q) \/ StagedOnce(q) \/ StagedTwice(q)
  BY <1>3 DEF ListPackage, StagedOnce, StagedTwice, EndOfFirstPass
<1>4. CASE IdentifyEnvironment(q) \/ CompareBuilds(q) \/ Publish(q)
  BY <1>4 DEF IdentifyEnvironment, CompareBuilds, Publish, Disturbs
<1>5. CASE BuildOnce(q)
  <2>1. \A r \in Runs \ {q} : pc'[r] = pc[r] /\ exit'[r] = exit[r]
    BY <1>5 DEF BuildOnce
  <2>2. \E b : built' = [built EXCEPT ![q] = b]
    BY <1>5 DEF BuildOnce
  <2> QED
    BY <1>5, <2>1, <2>2 DEF BuildOnce
<1> QED
  BY <1>1, <1>2, <1>3, <1>4, <1>5 DEF BuildStep

LEMMA MeasureSpares ==
  ASSUME Arrays, NEW q \in Runs, MeasureStep(q), UNCHANGED <<corpusVars, reportVars, buildVars>>
  PROVE Spares(q)
<1> USE DEF Arrays, Spares, Unmoved, TouchesNothing, TouchesLoose, Looks, ReadsNothing, outputs, circumstances, history, walking,
            control, collecting, corpusVars, reportVars, buildVars, Check, Goto, Exit, Measuring, measureVars
<1>1. ASSUME NEW n \in LooseNames, CreateLoose(q, n) \/ IdentifyLoose(q, n) \/ WriteFails(q, n) \/ Recognize(q, n) \/ Withdraw(q, n)
      PROVE Spares(q)
  BY <1>1 DEF CreateLoose, IdentifyLoose, WriteFails, Recognize, Withdraw, Meets, Disturbs
<1>2. ASSUME NEW n, NEW b, WriteLoose(q, n, b) PROVE Spares(q)
  BY <1>2 DEF WriteLoose, Disturbs
<1>3. CASE ReadExactInput(q) \/ CompareManifest(q) \/ VerifySemantics(q)
  BY <1>3 DEF ReadExactInput, CompareManifest, VerifySemantics
<1>4. CASE RequireNewPath(q) \/ ValidatedPython(q)
  BY <1>4 DEF RequireNewPath, ValidatedPython
<1>6. CASE RunChild(q)
  <2>1. \A r \in Runs \ {q} : pc'[r] = pc[r] /\ exit'[r] = exit[r]
    BY <1>6 DEF RunChild
  <2>2. \E b : observed' = [observed EXCEPT ![q] = b]
    BY <1>6 DEF RunChild
  <2> QED
    BY <1>6, <2>1, <2>2 DEF RunChild
<1>5. CASE ChildFails(q) \/ SeriesDiffer(q) \/ EndOfMeasurement(q)
  BY <1>5 DEF ChildFails, SeriesDiffer, EndOfMeasurement, Meets
<1> QED
  BY <1>1, <1>2, <1>3, <1>4, <1>5, <1>6 DEF MeasureStep

-----------------------------------------------------------------------------
(* What a run does itself: it ends as the world that it found determines, or goes on. *)
Due(r) == IF pc'[r] = "ended" THEN Outcome(r, found[r]) = Came(exit'[r], World') ELSE Lone(r)'

\* What is known of a run that is at work.
Works(r) == IInv /\ WholeInv /\ Playable(r) /\ Lone(r)

LEMMA WorksFacts ==
  ASSUME NEW r \in Runs, Works(r)
  PROVE /\ Arrays /\ TypeOK /\ Tied /\ OutputOK /\ SoundWorld(found[r]) /\ Deduced(r)
        /\ \A s : Goto(r, s) => pc'[r] = s /\ exit'[r] = exit[r]
        /\ \A e : Exit(r, e) => pc'[r] = "ended" /\ exit'[r] = e
<1>1. Arrays /\ TypeOK /\ Tied /\ OutputOK /\ SoundWorld(found[r]) /\ Deduced(r)
  BY ArraysAre DEF Works, IInv, WholeInv, DirectoriesInv, Lone
<1> QED
  BY <1>1, Went

\* A run at one of these steps has to answer for these only.
LEMMA GoesOn ==
  ASSUME NEW r \in Runs, SoundWorld(found[r])'
  PROVE /\ pc'[r] \in {"look", "mkdir", "corpus-generate", "reports-target"} /\ Targets(r)' => Due(r)
        /\ pc'[r] \in {"prepare", "empty"} /\ Prepares(r)' => Due(r)
        /\ pc'[r] \in {"corpus-parents", "corpus-create", "corpus-fill", "page", "page-fill"} /\ Produces(r)' => Due(r)
        /\ pc'[r] \in {"corpus-check", "corpus-replay", "reports-look", "reports-open", "reports-list", "walk", "walked",
                       "reports-entries"} /\ Inspects(r)' => Due(r)
        /\ pc'[r] \in {"corpus-size", "corpus-read", "reports-size", "reports-read"} /\ Collates(r)' => Due(r)
        /\ pc'[r] \in {"corpus-manifest", "replay"} /\ Replays(r)' => Due(r)
        /\ pc'[r] \in {"reports-generate", "reports-check", "source-entries", "load"} /\ Deduces(r)' => Due(r)
        /\ pc'[r] \in {"build", "version", "stage", "package", "environment", "package-build", "publish"} /\ Makes(r)' => Due(r)
        /\ pc'[r] \in {"scenario-generate", "scenario-check", "measure", "new-scenario", "write-scenario", "python", "input",
                       "scenario-manifest", "semantics", "child", "measured", "new-record", "write-record"} /\ Watches(r)' => Due(r)
<1> USE DEF Due, Lone
<1>1. ASSUME pc'[r] \in {"look", "mkdir", "corpus-generate", "reports-target"}, Targets(r)' PROVE Due(r)
  BY <1>1 DEF Prepares, Produces, Inspects, Collates, Replays, Deduces, Reading, Makes, Staging, Checked, Watches
<1>2. ASSUME pc'[r] \in {"prepare", "empty"}, Prepares(r)' PROVE Due(r)
  BY <1>2 DEF Targets, Produces, Inspects, Collates, Replays, Deduces, Reading, Makes, Staging, Checked, Watches
<1>3. ASSUME pc'[r] \in {"corpus-parents", "corpus-create", "corpus-fill", "page", "page-fill"}, Produces(r)' PROVE Due(r)
  BY <1>3 DEF Targets, Prepares, Inspects, Collates, Replays, Deduces, Reading, Makes, Staging, Checked, Watches
<1>4. ASSUME pc'[r] \in {"corpus-check", "corpus-replay", "reports-look", "reports-open", "reports-list", "walk", "walked",
                         "reports-entries"}, Inspects(r)'
      PROVE Due(r)
  BY <1>4 DEF Targets, Prepares, Produces, Collates, Replays, Deduces, Reading, Makes, Staging, Checked, Watches
<1>5. ASSUME pc'[r] \in {"corpus-size", "corpus-read", "reports-size", "reports-read"}, Collates(r)' PROVE Due(r)
  BY <1>5 DEF Targets, Prepares, Produces, Inspects, Replays, Deduces, Reading, Makes, Staging, Checked, Watches
<1>6. ASSUME pc'[r] \in {"corpus-manifest", "replay"}, Replays(r)' PROVE Due(r)
  BY <1>6 DEF Targets, Prepares, Produces, Inspects, Collates, Deduces, Reading, Makes, Staging, Checked, Watches
<1>7. ASSUME pc'[r] \in {"reports-generate", "reports-check", "source-entries", "load"}, Deduces(r)' PROVE Due(r)
  BY <1>7 DEF Targets, Prepares, Produces, Inspects, Collates, Replays, Makes, Staging, Checked, Watches
<1>8. ASSUME pc'[r] \in {"build", "version", "stage", "package", "environment", "package-build", "publish"}, Makes(r)' PROVE Due(r)
  BY <1>8 DEF Targets, Prepares, Produces, Inspects, Collates, Replays, Deduces, Reading, Watches
<1>9. ASSUME pc'[r] \in {"scenario-generate", "scenario-check", "measure", "new-scenario", "write-scenario", "python", "input",
                         "scenario-manifest", "semantics", "child", "measured", "new-record", "write-record"}, Watches(r)'
      PROVE Due(r)
  BY <1>9 DEF Targets, Prepares, Produces, Inspects, Collates, Replays, Deduces, Reading, Makes, Staging, Checked
<1> QED
  BY <1>1, <1>2, <1>3, <1>4, <1>5, <1>6, <1>7, <1>8, <1>9

\* A run that only looks sees the world it found.
LEMMA Seen ==
  ASSUME NEW r \in Runs, Intact(r)
  PROVE /\ found[r].tree = tree /\ found[r].links = links /\ found[r].place = place /\ found[r].used = used
        /\ found[r].holds = holds /\ found[r].loose = loose /\ found[r].dist = dist
BY DEF Intact, World

LEMMA Looked ==
  ASSUME NEW r \in Runs, Works(r), Looks
  PROVE /\ World' = World /\ UNCHANGED <<found, request, others>> /\ SoundWorld(found[r])'
        /\ Intact(r)' = Intact(r) /\ OfCorpus(r)' = OfCorpus(r) /\ Paths(r)' = Paths(r)
        /\ UNCHANGED managed => Derivation(r)' = Derivation(r) /\ BytesFor(r)' = BytesFor(r)
<1>1. World' = World /\ UNCHANGED <<found, request, others>>
  BY DEF Looks, World, sources, outputs, circumstances, history
<1>2. SoundWorld(found[r])'
  BY <1>1, WorksFacts DEF SoundWorld
<1>3. OfCorpus(r)' = OfCorpus(r) /\ Paths(r)' = Paths(r)
  BY <1>1 DEF OfCorpus, Paths
<1>4. ASSUME UNCHANGED managed PROVE Derivation(r)' = Derivation(r) /\ BytesFor(r)' = BytesFor(r)
  BY <1>1, <1>3, <1>4 DEF Derivation, BytesFor
<1>5. Intact(r)' = Intact(r)
  BY <1>1 DEF Intact
<1> QED
  BY <1>1, <1>2, <1>3, <1>4, <1>5

\* A run that ends and has left the world as it found it.
LEMMA Halted ==
  ASSUME NEW r \in Runs, Works(r), Looks, Intact(r), NEW e, Exit(r, e), Outcome(r, found[r]) = Came(e, found[r])
  PROVE Due(r)
BY WorksFacts, Looked DEF Due, Intact

\* What the commands at a directory come to, when the reports are derived.
Usable(r) ==
  /\ Named(EntriesOf(found[r])) \subseteq (IF OfCorpus(r) THEN {Readme} ELSE {})
  /\ AreFiles(EntriesOf(found[r]), Slots)

LEMMA GeneratorOutcome ==
  ASSUME NEW r \in Runs, Derivation(r), request[r].command \in {"corpus-generate", "reports-generate"}
  PROVE Outcome(r, found[r]) =
          IF request[r].valid /\ found[r].place \notin {Symlink, Plain} /\ Usable(r)
          THEN Came("0", Filled(r, found[r], BytesFor(r))) ELSE Came("2", found[r])
<1>1. CASE request[r].command = "corpus-generate"
  BY <1>1 DEF Outcome, CorpusCame, Generated, OfCorpus, Usable, BytesFor
<1>2. CASE request[r].command = "reports-generate"
  <2>1. ~OfCorpus(r) /\ Bad(found[r]) = {} /\ managed[r] = Derived(found[r])
    BY <1>2 DEF OfCorpus, Derivation
  <2>2. Outcome(r, found[r]) = Generated(r, found[r], Named(EntriesOf(found[r])) = {}, BytesFor(r))
    BY <1>2, <2>1 DEF Outcome, ReportsCame, BytesFor
  <2>3. Usable(r) <=> Named(EntriesOf(found[r])) = {}
    BY <2>1 DEF Usable, AreFiles, Named
  <2> QED
    BY <2>2, <2>3 DEF Generated
<1> QED
  BY <1>1, <1>2

LEMMA CheckOutcome ==
  ASSUME NEW r \in Runs, Derivation(r), Checking(r)
  PROVE Outcome(r, found[r]) = Came(IF Verdict(r) = "0" /\ Barred(r) THEN "2" ELSE Verdict(r), found[r])
<1>1. \A s \in Named(EntriesOf(found[r])) : IsFile(InFound(r, s)) => BytesOf(EntriesOf(found[r])[s]) = InFound(r, s).bytes
  BY DEF BytesOf, InFound
<1>2. CASE request[r].command \in {"corpus-check", "corpus-replay"}
  <2>1. OfCorpus(r) /\ BytesFor(r) = CorpusBytes /\ Paths(r) = CorpusPaths
    BY <1>2 DEF OfCorpus, BytesFor, Paths
  <2> DEFINE entries == EntriesOf(found[r])
             files == {s \in Named(entries) : entries[s] # Folder}
             checked == Verified(r, found[r], AreFiles(entries, files), files \ {Readme}, CorpusBytes)
  <2>2. Outcome(r, found[r]) = IF Barred(r) /\ checked.status = "0" THEN Came("2", found[r]) ELSE checked
    BY <1>2 DEF Outcome, CorpusCame, Barred
  <2>3. AreFiles(entries, files) <=> AllPassed(r)
    BY <2>1 DEF AreFiles, AllPassed, Passed, InFound, Named
  <2>4. files \ {Readme} = FilesFound(r)
    BY <2>1 DEF FilesFound, InFound
  <2>5. DOMAIN CorpusBytes = ToSet(Paths(r))
    BY <2>1 DEF CorpusBytes
  <2>6. AllPassed(r) => \A s \in FilesFound(r) : BytesOf(entries[s]) = InFound(r, s).bytes
    BY <1>1 DEF AllPassed, FilesFound, Passed
  <2>7. checked = Came(Verdict(r), found[r])
    <3> HIDE DEF entries, files
    <3> QED
      BY <2>1, <2>3, <2>4, <2>5, <2>6 DEF Verified, Verdict, entries
  <2> HIDE DEF checked
  <2> QED
    BY <2>2, <2>7 DEF Came
<1>3. CASE request[r].command = "reports-check"
  <2>1. ~OfCorpus(r) /\ Bad(found[r]) = {} /\ managed[r] = Derived(found[r]) /\ Paths(r) = ReportPaths
    BY <1>3 DEF OfCorpus, Derivation, Paths
  <2> DEFINE entries == EntriesOf(found[r])
  <2>2. Outcome(r, found[r]) = Verified(r, found[r], AreFiles(entries, Slots), Named(entries), BytesFor(r))
    BY <1>3, <2>1 DEF Outcome, ReportsCame, BytesFor
  <2>3. AreFiles(entries, Slots) <=> AllPassed(r)
    BY <2>1 DEF AreFiles, AllPassed, Passed, InFound, Named
  <2>4. AllPassed(r) => Named(entries) = FilesFound(r)
    BY <2>1 DEF FilesFound, AllPassed, Passed, IsFile
  <2>5. DOMAIN BytesFor(r) = ToSet(Paths(r))
    BY <2>1 DEF BytesFor, ReportsBytes
  <2>6. AllPassed(r) => \A s \in FilesFound(r) : BytesOf(entries[s]) = InFound(r, s).bytes
    BY <2>1, <1>1 DEF AllPassed, FilesFound, Passed
  <2> HIDE DEF entries
  <2> QED
    BY <1>3, <2>1, <2>2, <2>3, <2>4, <2>5, <2>6 DEF Verified, Verdict, Barred, entries
<1> QED
  BY <1>2, <1>3 DEF Checking

-----------------------------------------------------------------------------
(* The generators: up to the first file. *)
LEMMA GeneratorsCommand ==
  ASSUME NEW r \in Runs, Works(r)
  PROVE /\ pc[r] \in {"corpus-generate", "reports-target", "look", "mkdir", "prepare", "empty"} =>
             request[r].command \in {"corpus-generate", "reports-generate"} /\ number[r] = 0
        /\ pc[r] \in {"corpus-parents", "corpus-create", "corpus-fill"} => request[r].command = "corpus-generate" /\ OfCorpus(r)
        /\ pc[r] \in {"empty", "page", "page-fill"} => request[r].command = "reports-generate" /\ ~OfCorpus(r)
<1>1. Tie(r) /\ Deduced(r)
  BY WorksFacts DEF Tied
<1> QED
  BY <1>1 DEF Tie, Deduced, Preparing, OfCorpus

LEMMA ValidateTargetDue ==
  ASSUME NEW r \in Runs, Works(r), NEW step \in {"corpus-generate", "reports-target"}, ValidateTarget(r, step), UNCHANGED managed
  PROVE Due(r)
<1>1. /\ pc[r] = step /\ Looks
      /\ \/ request[r].valid /\ place # Symlink /\ Goto(r, "look")
         \/ ~(request[r].valid /\ place # Symlink) /\ Exit(r, "2")
  BY DEF ValidateTarget, At, Check
<1>2. Intact(r) /\ Derivation(r) /\ found[r].place = place
  BY <1>1, Seen DEF Works, Lone, Targets
<1>3. CASE request[r].valid /\ place # Symlink /\ Goto(r, "look")
  <2>1. pc'[r] = "look"
    BY <1>3, WorksFacts
  <2>2. Targets(r)'
    BY <1>1, <1>2, <1>3, <2>1, Looked DEF Targets
  <2> QED
    BY <1>1, <2>1, <2>2, Looked, GoesOn
<1>4. CASE ~(request[r].valid /\ place # Symlink) /\ Exit(r, "2")
  BY <1>1, <1>2, <1>4, GeneratorsCommand, GeneratorOutcome, Halted
<1> QED
  BY <1>1, <1>3, <1>4

\* What the world is with the directory, and with files in it.
LEMMA GroundedIs ==
  ASSUME NEW w, SoundWorld(w)
  PROVE Grounded(w) = [tree |-> w.tree, links |-> w.links, place |-> Goal(w), used |-> w.used \cup {Goal(w)},
                       holds |-> w.holds, loose |-> w.loose, dist |-> w.dist]
<1>1. PICK v : v = [w EXCEPT !.place = Goal(w)]
  OBVIOUS
<1>2. v = [tree |-> w.tree, links |-> w.links, place |-> Goal(w), used |-> w.used,
           holds |-> w.holds, loose |-> w.loose, dist |-> w.dist]
  BY <1>1 DEF SoundWorld
<1>3. PICK u : u = [v EXCEPT !.used = w.used \cup {Goal(w)}]
  OBVIOUS
<1>4. u = [tree |-> w.tree, links |-> w.links, place |-> Goal(w), used |-> w.used \cup {Goal(w)},
           holds |-> w.holds, loose |-> w.loose, dist |-> w.dist]
  BY <1>2, <1>3
<1>5. Grounded(w) = u
  BY <1>1, <1>3 DEF Grounded
<1> QED
  BY <1>4, <1>5

LEMMA StockedIs ==
  ASSUME NEW w, SoundWorld(w), NEW entries
  PROVE Stocked(w, entries) = [tree |-> w.tree, links |-> w.links, place |-> Goal(w), used |-> w.used \cup {Goal(w)},
                               holds |-> [w.holds EXCEPT ![Goal(w)] = entries], loose |-> w.loose, dist |-> w.dist]
<1>1. PICK v : v = Grounded(w)
  OBVIOUS
<1>2. v = [tree |-> w.tree, links |-> w.links, place |-> Goal(w), used |-> w.used \cup {Goal(w)},
           holds |-> w.holds, loose |-> w.loose, dist |-> w.dist]
  BY <1>1, GroundedIs
<1>3. PICK u : u = [v EXCEPT !.holds = [w.holds EXCEPT ![Goal(w)] = entries]]
  OBVIOUS
<1>4. u = [tree |-> w.tree, links |-> w.links, place |-> Goal(w), used |-> w.used \cup {Goal(w)},
           holds |-> [w.holds EXCEPT ![Goal(w)] = entries], loose |-> w.loose, dist |-> w.dist]
  BY <1>2, <1>3
<1>5. Stocked(w, entries) = u
  BY <1>1, <1>3 DEF Stocked, Grounded
<1> QED
  BY <1>4, <1>5

\* The directory that is there is the one to be filled.
LEMMA ThereAlready ==
  ASSUME NEW w, SoundWorld(w), w.place \in Directories
  PROVE Goal(w) = w.place /\ w = Grounded(w) /\ w.holds[Goal(w)] = EntriesOf(w)
<1>1. Goal(w) = w.place
  BY PlacesDiffer DEF Goal
<1>2. w.used \cup {Goal(w)} = w.used
  BY <1>1, PlacesDiffer DEF SoundWorld
<1>3. w.holds[Goal(w)] = EntriesOf(w)
  BY <1>1 DEF EntriesOf
<1>4. w = Grounded(w)
  BY <1>1, <1>2, GroundedIs DEF SoundWorld
<1> QED
  BY <1>1, <1>3, <1>4

LEMMA LookAtTargetDue ==
  ASSUME NEW r \in Runs, Works(r), LookAtTarget(r), UNCHANGED managed
  PROVE Due(r)
<1>1. /\ pc[r] = "look" /\ Looks
      /\ \/ place \in {Absent, Symlink} /\ Goto(r, "mkdir")
         \/ place \notin {Absent, Symlink} /\ place # Plain /\ Goto(r, "prepare")
         \/ place = Plain /\ Exit(r, "2")
  BY DEF LookAtTarget, At, Check
<1>2. Intact(r) /\ Derivation(r) /\ found[r].place = place /\ request[r].valid /\ place # Symlink
  BY <1>1, Seen DEF Works, Lone, Targets
<1>3. CASE place \in {Absent, Symlink} /\ Goto(r, "mkdir")
  <2>1. pc'[r] = "mkdir"
    BY <1>3, WorksFacts
  <2>2. Targets(r)'
    BY <1>1, <1>2, <1>3, <2>1, Looked DEF Targets
  <2> QED
    BY <1>1, <2>1, <2>2, Looked, GoesOn
<1>4. CASE place \notin {Absent, Symlink} /\ place # Plain /\ Goto(r, "prepare")
  <2>1. pc'[r] = "prepare"
    BY <1>4, WorksFacts
  <2>2. found[r].place \in Directories
    BY <1>2, <1>4, WorksFacts DEF SoundWorld
  <2>3. /\ Goal(found[r]) \in Directories /\ found[r].holds[Goal(found[r])] = EntriesOf(found[r])
        /\ World = Grounded(found[r])
    BY <1>2, <2>2, WorksFacts, ThereAlready DEF Intact
  <2>4. Prepares(r)'
    BY <1>1, <1>2, <2>1, <2>2, <2>3, Looked DEF Prepares
  <2> QED
    BY <1>1, <2>1, <2>4, Looked, GoesOn
<1>5. CASE place = Plain /\ Exit(r, "2")
  BY <1>1, <1>2, <1>5, GeneratorsCommand, GeneratorOutcome, Halted
<1> QED
  BY <1>1, <1>3, <1>4, <1>5

\* The first file can be created in a directory that can be used.
LEMMA ReadyToProduce ==
  ASSUME NEW r \in Runs, SoundWorld(found[r]), UNCHANGED <<found, request, number, managed>>, number[r] = 0,
         Usable(r), Outcome(r, found[r]) = Came("0", Filled(r, found[r], BytesFor(r))),
         Goal(found[r]) \in Directories, found[r].holds[Goal(found[r])] = EntriesOf(found[r]), World' = Grounded(found[r]),
         pc'[r] \in {"corpus-parents", "page"}, pc'[r] = "page" => fd'[r] = Goal(found[r])
  PROVE Due(r)
<1>1. SoundWorld(found[r])' /\ OfCorpus(r)' = OfCorpus(r) /\ Paths(r)' = Paths(r) /\ BytesFor(r)' = BytesFor(r)
  BY DEF SoundWorld, OfCorpus, Paths, BytesFor
<1>2. number'[r] = 0
  OBVIOUS
<1>3. \A s \in ToSet(Paths(r)) : s \in Slots /\ s # Readme
  BY PathFacts
<1>4. \A s \in ToSet(Paths(r)) : found[r].holds[Goal(found[r])][s] = Absent
  BY <1>3 DEF Usable, Named
<1>5. SoFar(r)' = found[r].holds[Goal(found[r])]
  <2>1. found[r].holds[Goal(found[r])] \in [Slots -> NoFiles \cup Written]
    BY DEF SoundWorld
  <2>2. SoFar(r)' = [s \in Slots |-> found[r].holds[Goal(found[r])][s]]
    <3>1. 1..number'[r] = {}
      BY <1>2
    <3> QED
      BY <3>1 DEF SoFar
  <2> QED
    BY <2>1, <2>2
<1>6. World' = Stocked(found[r], SoFar(r)')
  <2>1. PICK entries : entries = found[r].holds[Goal(found[r])]
    OBVIOUS
  <2>2. Stocked(found[r], entries) = Grounded(found[r])
    <3>1. PICK held : held = [found[r].holds EXCEPT ![Goal(found[r])] = entries]
      OBVIOUS
    <3>2. held = found[r].holds
      BY <2>1, <3>1 DEF SoundWorld
    <3>3. PICK w : w = found[r]
      OBVIOUS
    <3>4. Stocked(w, entries) = [tree |-> w.tree, links |-> w.links, place |-> Goal(w), used |-> w.used \cup {Goal(w)},
                                 holds |-> held, loose |-> w.loose, dist |-> w.dist]
      BY <3>1, <3>3, StockedIs
    <3>5. Grounded(w) = [tree |-> w.tree, links |-> w.links, place |-> Goal(w), used |-> w.used \cup {Goal(w)},
                         holds |-> w.holds, loose |-> w.loose, dist |-> w.dist]
      BY <3>3, GroundedIs
    <3> QED
      BY <3>2, <3>3, <3>4, <3>5
  <2> QED
    BY <1>5, <2>1, <2>2
<1>7. Outcome(r, found[r])' = Outcome(r, found[r])
  BY OutcomeStays
<1>8. 0 <= Len(Paths(r))
  <2>1. Len(Paths(r)) \in Nat
    BY PathFacts
  <2> QED
    BY <2>1
<1>9. Produces(r)'
  BY <1>1, <1>2, <1>4, <1>6, <1>7, <1>8 DEF Produces
<1> QED
  BY <1>1, <1>9, GoesOn

LEMMA MakeTargetDue ==
  ASSUME NEW r \in Runs, Works(r), MakeTarget(r), UNCHANGED managed
  PROVE Due(r)
<1>1. pc[r] = "mkdir" /\ UNCHANGED <<sources, circumstances>>
  BY DEF MakeTarget, At
<1>2. Intact(r) /\ Derivation(r) /\ found[r].place = place /\ request[r].valid /\ place = Absent
  BY <1>1, Seen DEF Works, Lone, Targets
<1>3. MakePlace(r) /\ Goto(r, IF request[r].command = "corpus-generate" THEN "corpus-parents" ELSE "prepare")
  BY <1>2 DEF MakeTarget
<1>4. pc'[r] = IF request[r].command = "corpus-generate" THEN "corpus-parents" ELSE "prepare"
  BY <1>3, WorksFacts
<1>5. /\ Goal(found[r]) \in Directories \ used /\ place' = Goal(found[r]) /\ used' = used \cup {Goal(found[r])}
      /\ UNCHANGED <<holds, loose, dist, found>>
  BY <1>2, <1>3, Seen DEF MakePlace, Goal, Disturbs
<1>6. found[r].holds[Goal(found[r])] = EntriesOf(found[r])
  <2>1. found[r].holds[Goal(found[r])] \in [Slots -> NoFiles \cup Written]
    <3>1. SoundWorld(found[r])
      BY WorksFacts
    <3>2. found[r].holds \in [Directories -> [Slots -> NoFiles \cup Written]]
      BY <3>1 DEF SoundWorld
    <3> QED
      BY <1>5, <3>2
  <2>2. \A s \in Slots : found[r].holds[Goal(found[r])][s] = Absent
    <3>1. SoundWorld(found[r]) /\ found[r].used = used
      BY <1>2, Seen, WorksFacts
    <3>2. \A d \in Directories \ used, s \in Slots : found[r].holds[d][s] = Absent
      BY <3>1 DEF SoundWorld
    <3> QED
      BY <1>5, <3>2
  <2>3. found[r].holds[Goal(found[r])] = [s \in Slots |-> Absent]
    BY <2>1, <2>2
  <2> QED
    BY <1>2, <2>3, PlacesDiffer DEF EntriesOf
<1>7. World' = Grounded(found[r])
  BY <1>1, <1>2, <1>5, GroundedIs, WorksFacts, Seen DEF World, sources
<1>8. SoundWorld(found[r])' /\ Derivation(r)'
  BY <1>1, <1>2, <1>5, WorksFacts DEF SoundWorld, Derivation, OfCorpus, circumstances
<1>9. CASE request[r].command = "corpus-generate"
  <2>1. EntriesOf(found[r]) = [s \in Slots |-> Absent]
    BY <1>2, PlacesDiffer DEF EntriesOf
  <2>2. Usable(r) /\ number[r] = 0
    BY <1>1, <2>1, GeneratorsCommand DEF Usable, Named, AreFiles
  <2>3. Outcome(r, found[r]) = Came("0", Filled(r, found[r], BytesFor(r)))
    BY <1>2, <1>9, <2>2, PlacesDiffer, GeneratorOutcome
  <2>4. SoundWorld(found[r]) /\ UNCHANGED <<found, request, number, managed>>
    BY <1>1, <1>5, WorksFacts DEF MakeTarget, circumstances, walking
  <2>5. pc'[r] = "corpus-parents"
    BY <1>4, <1>9
  <2> QED
    BY <1>5, <1>6, <1>7, <2>2, <2>3, <2>4, <2>5, ReadyToProduce
<1>10. CASE request[r].command # "corpus-generate"
  <2>1. pc'[r] = "prepare"
    BY <1>4, <1>10
  <2>2. Prepares(r)'
    BY <1>1, <1>2, <1>5, <1>6, <1>7, <1>8, <2>1 DEF Prepares, circumstances
  <2> QED
    BY <1>8, <2>1, <2>2, GoesOn
<1> QED
  BY <1>9, <1>10

\* From the directory on: it can be used, if it could be when the run began.
LEMMA PreparedFacts ==
  ASSUME NEW r \in Runs, Works(r), pc[r] \in {"prepare", "empty"}
  PROVE /\ Derivation(r) /\ request[r].valid /\ number[r] = 0
        /\ found[r].place \notin {Symlink, Plain} /\ Goal(found[r]) \in Directories
        /\ place = Goal(found[r]) /\ holds = found[r].holds /\ holds[place] = EntriesOf(found[r])
        /\ World = Grounded(found[r])
        /\ ~Usable(r) => World = found[r]
        /\ Outcome(r, found[r]) = IF Usable(r) THEN Came("0", Filled(r, found[r], BytesFor(r))) ELSE Came("2", found[r])
<1>1. /\ Derivation(r) /\ request[r].valid /\ found[r].place \in Directories \cup {Absent} /\ Goal(found[r]) \in Directories
      /\ found[r].holds[Goal(found[r])] = EntriesOf(found[r]) /\ World = Grounded(found[r])
  BY DEF Works, Lone, Prepares
<1>2. number[r] = 0 /\ request[r].command \in {"corpus-generate", "reports-generate"}
  BY GeneratorsCommand
<1>3. found[r].place \notin {Symlink, Plain}
  BY <1>1, PlacesDiffer
<1>4. place = Goal(found[r]) /\ holds = found[r].holds
  <2>1. World = [tree |-> found[r].tree, links |-> found[r].links, place |-> Goal(found[r]),
                 used |-> found[r].used \cup {Goal(found[r])}, holds |-> found[r].holds, loose |-> found[r].loose, dist |-> found[r].dist]
    BY <1>1, GroundedIs, WorksFacts
  <2> QED
    BY <2>1 DEF World
<1>5. ASSUME ~Usable(r) PROVE World = found[r]
  <2>1. found[r].place # Absent
    <3>1. ASSUME found[r].place = Absent PROVE FALSE
      <4>1. EntriesOf(found[r]) = [s \in Slots |-> Absent]
        BY <3>1, PlacesDiffer DEF EntriesOf
      <4> QED
        BY <1>5, <4>1 DEF Usable, Named, AreFiles
    <3> QED
      BY <3>1
  <2> QED
    BY <1>1, <2>1, ThereAlready, WorksFacts
<1>6. Outcome(r, found[r]) = IF Usable(r) THEN Came("0", Filled(r, found[r], BytesFor(r))) ELSE Came("2", found[r])
  BY <1>1, <1>2, <1>3, GeneratorOutcome
<1> QED
  BY <1>1, <1>2, <1>3, <1>4, <1>5, <1>6

LEMMA BeginsToProduce ==
  ASSUME NEW r \in Runs, Works(r), Looks, number' = number, fd' = fd, managed' = managed, Usable(r),
         pc[r] \in {"prepare", "empty"}, NEW next, next \in {"corpus-parents", "page"}, Goto(r, next), next = "page" => pc[r] = "empty"
  PROVE Due(r)
<1>1. World' = World /\ found' = found /\ request' = request
  BY Looked
<1>2. /\ number[r] = 0 /\ Goal(found[r]) \in Directories /\ World = Grounded(found[r])
      /\ found[r].holds[Goal(found[r])] = EntriesOf(found[r])
      /\ Outcome(r, found[r]) = Came("0", Filled(r, found[r], BytesFor(r)))
  BY PreparedFacts
<1>3. pc[r] = "empty" => fd[r] = Goal(found[r])
  BY DEF Works, Lone, Prepares
<1>4. pc'[r] = next /\ SoundWorld(found[r])
  BY WorksFacts
<1> QED
  BY <1>1, <1>2, <1>3, <1>4, ReadyToProduce

LEMMA InspectTargetDue ==
  ASSUME NEW r \in Runs, Works(r), InspectTarget(r), UNCHANGED managed
  PROVE Due(r)
<1>1. /\ pc[r] = "prepare" /\ request[r].command = "corpus-generate" /\ Looks /\ UNCHANGED <<number, fd>>
      /\ \/ place \in Directories /\ Vacant(place) /\ Goto(r, "corpus-parents")
         \/ ~(place \in Directories /\ Vacant(place)) /\ Exit(r, "2")
  BY DEF InspectTarget, At, Check, walking
<1>2. OfCorpus(r)
  BY <1>1 DEF OfCorpus
<1>3. place \in Directories /\ (Vacant(place) <=> Usable(r))
  <2>1. place \in Directories /\ holds[place] = EntriesOf(found[r])
    BY <1>1, PreparedFacts
  <2> QED
    BY <1>2, <2>1 DEF Vacant, Entry, Usable, Named, AreFiles
<1>4. CASE Usable(r)
  BY <1>1, <1>2, <1>3, <1>4, BeginsToProduce
<1>5. CASE ~Usable(r)
  <2>1. Intact(r) /\ Outcome(r, found[r]) = Came("2", found[r])
    BY <1>1, <1>5, PreparedFacts DEF Intact
  <2> QED
    BY <1>1, <1>3, <1>5, <2>1, Halted
<1> QED
  BY <1>4, <1>5

LEMMA OpenOutputDue ==
  ASSUME NEW r \in Runs, Works(r), OpenOutput(r)
  PROVE Due(r)
<1>1. /\ pc[r] = "prepare" /\ Looks /\ UNCHANGED <<number, managed>> /\ fd' = [fd EXCEPT ![r] = place]
      /\ place \in Directories => Goto(r, "empty")
  BY DEF OpenOutput, At, Check, Deriving
<1>2. place = Goal(found[r]) /\ Goal(found[r]) \in Directories
  BY <1>1, PreparedFacts
<1>3. pc'[r] = "empty" /\ fd'[r] = Goal(found[r])
  BY <1>1, <1>2, WorksFacts DEF Arrays
<1>4. Prepares(r)'
  BY <1>1, <1>3, Looked DEF Prepares, Works, Lone
<1> QED
  BY <1>1, <1>3, <1>4, Looked, GoesOn

LEMMA InspectOutputDue ==
  ASSUME NEW r \in Runs, Works(r), InspectOutput(r)
  PROVE Due(r)
<1>1. /\ pc[r] = "empty" /\ Looks /\ UNCHANGED <<number, fd, managed>>
      /\ \/ NamesIn(fd[r]) = {} /\ Goto(r, "page")
         \/ NamesIn(fd[r]) # {} /\ Exit(r, "2")
  BY DEF InspectOutput, At, Check, walking, Deriving
<1>2. ~OfCorpus(r)
  BY <1>1, GeneratorsCommand
<1>3. NamesIn(fd[r]) = {} <=> Usable(r)
  <2>1. place \in Directories /\ holds[place] = EntriesOf(found[r]) /\ fd[r] = place
    BY <1>1, PreparedFacts DEF Works, Lone, Prepares
  <2> QED
    BY <1>2, <2>1 DEF NamesIn, Entry, Usable, Named, AreFiles
<1>4. CASE Usable(r)
  BY <1>1, <1>2, <1>3, <1>4, BeginsToProduce
<1>5. CASE ~Usable(r)
  <2>1. Intact(r) /\ Outcome(r, found[r]) = Came("2", found[r])
    BY <1>1, <1>5, PreparedFacts DEF Intact
  <2> QED
    BY <1>1, <1>3, <1>5, <2>1, Halted
<1> QED
  BY <1>4, <1>5

-----------------------------------------------------------------------------
(* The generators: one file after the other. *)
LEMMA PathsDiffer ==
  ASSUME NEW r \in Runs
  PROVE \A j, k \in 1..Len(Paths(r)) : Paths(r)[j] = Paths(r)[k] => j = k
<1>1. Paths(r) \in Seq(Slots) /\ IsInjective(Paths(r))
  BY ChecksumsComeFirst, NoPathTwice DEF Paths
<1>2. DOMAIN Paths(r) = 1..Len(Paths(r))
  BY <1>1, LenProperties
<1> QED
  BY <1>1, <1>2 DEF IsInjective

Producing == {"corpus-parents", "corpus-create", "corpus-fill", "page", "page-fill"}
Fills(r) == pc[r] \in {"corpus-fill", "page-fill"}

LEMMA ProducesFacts ==
  ASSUME NEW r \in Runs, Works(r), pc[r] \in Producing
  PROVE /\ Outcome(r, found[r]) = Came("0", Filled(r, found[r], BytesFor(r)))
        /\ Goal(found[r]) \in Directories /\ place = Goal(found[r])
        /\ \A s \in ToSet(Paths(r)) : found[r].holds[Goal(found[r])][s] = Absent
        /\ number[r] \in Nat /\ number[r] <= Len(Paths(r))
        /\ pc[r] \in {"corpus-create", "corpus-fill", "page-fill"} => number[r] < Len(Paths(r))
        /\ World = Stocked(found[r], SoFar(r))
        /\ tree = found[r].tree /\ links = found[r].links /\ used = found[r].used \cup {Goal(found[r])}
        /\ loose = found[r].loose /\ dist = found[r].dist
        /\ holds = [found[r].holds EXCEPT ![Goal(found[r])] = SoFar(r)] /\ holds[Goal(found[r])] = SoFar(r)
        /\ pc[r] \in {"corpus-fill", "page", "page-fill"} => fd[r] = Goal(found[r])
<1>1. /\ Outcome(r, found[r]) = Came("0", Filled(r, found[r], BytesFor(r)))
      /\ Goal(found[r]) \in Directories
      /\ \A s \in ToSet(Paths(r)) : found[r].holds[Goal(found[r])][s] = Absent
      /\ number[r] <= Len(Paths(r))
      /\ pc[r] \in {"corpus-create", "corpus-fill", "page-fill"} => number[r] < Len(Paths(r))
      /\ World = Stocked(found[r], SoFar(r))
      /\ pc[r] \in {"corpus-fill", "page", "page-fill"} => fd[r] = Goal(found[r])
  BY DEF Works, Lone, Produces, Producing
<1>2. number[r] \in Nat
  BY WorksFacts DEF TypeOK, ControlOK
<1>3. SoundWorld(found[r])
  BY WorksFacts
<1>4. World = [tree |-> found[r].tree, links |-> found[r].links, place |-> Goal(found[r]),
               used |-> found[r].used \cup {Goal(found[r])}, holds |-> [found[r].holds EXCEPT ![Goal(found[r])] = SoFar(r)],
               loose |-> found[r].loose, dist |-> found[r].dist]
  BY <1>1, <1>3, StockedIs
<1>5. /\ tree = found[r].tree /\ links = found[r].links /\ used = found[r].used \cup {Goal(found[r])}
      /\ loose = found[r].loose /\ dist = found[r].dist /\ place = Goal(found[r])
      /\ holds = [found[r].holds EXCEPT ![Goal(found[r])] = SoFar(r)]
  BY <1>4 DEF World
<1>6. found[r].holds \in [Directories -> [Slots -> NoFiles \cup Written]]
  BY <1>3 DEF SoundWorld
<1>7. holds[Goal(found[r])] = SoFar(r)
  BY <1>1, <1>5, <1>6
<1> QED
  BY <1>1, <1>2, <1>5, <1>7

\* What has been made so far when the next file is created, and when it has been filled.
LEMMA SoFarGrows ==
  ASSUME NEW r \in Runs, Works(r), pc[r] \in Producing, number[r] < Len(Paths(r)), UNCHANGED <<found, request, managed>>
  PROVE /\ Paths(r)[number[r] + 1] \in Slots
        /\ SoFar(r) \in [Slots -> UNION {{[by |-> r, bytes |-> BytesFor(r)[s]] : s \in Slots}, {[by |-> r, bytes |-> Empty]}, NoFiles, Written}]
        /\ ~Fills(r) => SoFar(r)[Paths(r)[number[r] + 1]] = Absent
        /\ Fills(r) => SoFar(r)[Paths(r)[number[r] + 1]] = [by |-> r, bytes |-> Empty]
        /\ ~Fills(r) /\ ~Fills(r)' /\ number'[r] = number[r] => SoFar(r)' = SoFar(r)
        /\ ~Fills(r) /\ Fills(r)' /\ number'[r] = number[r] =>
             SoFar(r)' = [SoFar(r) EXCEPT ![Paths(r)[number[r] + 1]] = [by |-> r, bytes |-> Empty]]
        /\ Fills(r) /\ ~Fills(r)' /\ number'[r] = number[r] + 1 =>
             SoFar(r)' = [SoFar(r) EXCEPT ![Paths(r)[number[r] + 1]] = [by |-> r, bytes |-> BytesFor(r)[Paths(r)[number[r] + 1]]]]
<1> DEFINE n == number[r]
           p == Paths(r)
           b == BytesFor(r)
           h == found[r].holds[Goal(found[r])]
<1>1. n \in Nat /\ Len(p) \in Nat /\ n + 1 \in 1..Len(p) /\ n + 1 \notin 1..n
  <2>1. number[r] \in Nat /\ Len(Paths(r)) \in Nat
    BY ProducesFacts, PathFacts
  <2> QED
    BY <2>1
<1>2. p[n + 1] \in Slots /\ p[n + 1] \in ToSet(p)
  BY <1>1, PathFacts
<1>3. h[p[n + 1]] = Absent
  BY <1>2, ProducesFacts
<1>4. \A k \in 1..n : p[k] # p[n + 1]
  <2>1. \A k \in 1..n : k \in 1..Len(p) /\ k # n + 1
    BY <1>1
  <2> QED
    BY <1>1, <2>1, PathsDiffer
<1>5. p' = p /\ b' = b /\ h' = h
  BY DEF Paths, OfCorpus, BytesFor
<1>6. SoFar(r) = [s \in Slots |-> IF \E k \in 1..n : p[k] = s THEN [by |-> r, bytes |-> b[s]]
                                  ELSE IF Fills(r) /\ s = p[n + 1] THEN [by |-> r, bytes |-> Empty] ELSE h[s]]
  BY DEF SoFar, Fills
<1>7. SoFar(r)' = [s \in Slots |-> IF \E k \in 1..n' : p[k] = s THEN [by |-> r, bytes |-> b[s]]
                                   ELSE IF Fills(r)' /\ s = p[n' + 1] THEN [by |-> r, bytes |-> Empty] ELSE h[s]]
  BY <1>5 DEF SoFar, Fills
<1>8. h \in [Slots -> NoFiles \cup Written]
  <2>1. SoundWorld(found[r]) /\ Goal(found[r]) \in Directories
    BY WorksFacts, ProducesFacts
  <2> QED
    BY <2>1 DEF SoundWorld
<1> HIDE DEF n, p, b, h
<1>9. SoFar(r) \in [Slots -> UNION {{[by |-> r, bytes |-> b[s]] : s \in Slots}, {[by |-> r, bytes |-> Empty]}, NoFiles, Written}]
  BY <1>6, <1>8
<1>10. ASSUME ~Fills(r) PROVE SoFar(r)[p[n + 1]] = Absent
  BY <1>2, <1>3, <1>4, <1>6, <1>10
<1>11. ASSUME Fills(r) PROVE SoFar(r)[p[n + 1]] = [by |-> r, bytes |-> Empty]
  BY <1>2, <1>4, <1>6, <1>11
<1>12. ASSUME ~Fills(r), ~Fills(r)', n' = n PROVE SoFar(r)' = SoFar(r)
  BY <1>6, <1>7, <1>12
<1>13. ASSUME ~Fills(r), Fills(r)', n' = n PROVE SoFar(r)' = [SoFar(r) EXCEPT ![p[n + 1]] = [by |-> r, bytes |-> Empty]]
  BY <1>2, <1>4, <1>6, <1>7, <1>13
<1>14. ASSUME Fills(r), ~Fills(r)', n' = n + 1 PROVE SoFar(r)' = [SoFar(r) EXCEPT ![p[n + 1]] = [by |-> r, bytes |-> b[p[n + 1]]]]
  <2>1. \A k : k \in 1..(n + 1) <=> (k \in 1..n \/ k = n + 1)
    BY <1>1
  <2>2. SoFar(r)' = [s \in Slots |-> IF (\E k \in 1..n : p[k] = s) \/ s = p[n + 1] THEN [by |-> r, bytes |-> b[s]] ELSE h[s]]
    BY <1>7, <1>14, <2>1
  <2> QED
    BY <1>2, <1>4, <1>6, <1>14, <2>2
<1> QED
  BY <1>2, <1>9, <1>10, <1>11, <1>12, <1>13, <1>14 DEF n, p, b

\* A file is put into the directory.
LEMMA FilePut ==
  ASSUME NEW r \in Runs, Works(r), pc[r] \in Producing, NEW s \in Slots, NEW x, Put(Goal(found[r]), s, x),
         UNCHANGED <<sources, place, used, loose, dist, found>>, SoFar(r)' = [SoFar(r) EXCEPT ![s] = x]
  PROVE World' = Stocked(found[r], SoFar(r)')
<1>1. /\ Goal(found[r]) \in Directories /\ place = Goal(found[r]) /\ tree = found[r].tree /\ links = found[r].links
      /\ used = found[r].used \cup {Goal(found[r])} /\ loose = found[r].loose /\ dist = found[r].dist
      /\ holds = [found[r].holds EXCEPT ![Goal(found[r])] = SoFar(r)] /\ holds[Goal(found[r])] = SoFar(r)
  BY ProducesFacts
<1>2. SoundWorld(found[r])
  BY WorksFacts
<1>3. PICK g : g = Goal(found[r])
  OBVIOUS
<1>4. PICK a : a = SoFar(r)
  OBVIOUS
<1>5. PICK c : c = SoFar(r)'
  OBVIOUS
<1>6. holds' = [holds EXCEPT ![g] = c]
  <2>1. holds' = [holds EXCEPT ![g] = [holds[g] EXCEPT ![s] = x]]
    BY <1>3 DEF Put
  <2> QED
    BY <1>1, <1>3, <1>4, <1>5, <2>1
<1>7. [[found[r].holds EXCEPT ![g] = a] EXCEPT ![g] = c] = [found[r].holds EXCEPT ![g] = c]
  <2>1. found[r].holds \in [Directories -> [Slots -> NoFiles \cup Written]]
    BY <1>2 DEF SoundWorld
  <2> QED
    BY <2>1, <1>1, <1>3
<1>8. holds' = [found[r].holds EXCEPT ![g] = c]
  BY <1>1, <1>3, <1>4, <1>6, <1>7
<1>9. World' = [tree |-> found[r].tree, links |-> found[r].links, place |-> g, used |-> found[r].used \cup {g},
                holds |-> [found[r].holds EXCEPT ![g] = c], loose |-> found[r].loose, dist |-> found[r].dist]
  BY <1>1, <1>3, <1>8 DEF World, sources
<1> QED
  BY <1>2, <1>3, <1>5, <1>9, StockedIs

\* A run that has something left to do.
LEMMA StillProduces ==
  ASSUME NEW r \in Runs, Works(r), pc[r] \in Producing, pc'[r] \in Producing, UNCHANGED <<found, request, managed>>,
         World' = Stocked(found[r], SoFar(r)'), number'[r] <= Len(Paths(r)),
         pc'[r] \in {"corpus-create", "corpus-fill", "page-fill"} => number'[r] < Len(Paths(r)),
         pc'[r] \in {"corpus-fill", "page", "page-fill"} => fd'[r] = Goal(found[r])
  PROVE Due(r)
<1>1. /\ Outcome(r, found[r]) = Came("0", Filled(r, found[r], BytesFor(r))) /\ Goal(found[r]) \in Directories
      /\ \A s \in ToSet(Paths(r)) : found[r].holds[Goal(found[r])][s] = Absent
  BY ProducesFacts
<1>2. Outcome(r, found[r])' = Outcome(r, found[r])
  BY OutcomeStays
<1>3. BytesFor(r)' = BytesFor(r) /\ Paths(r)' = Paths(r)
  BY DEF BytesFor, OfCorpus, Paths
<1>4. SoundWorld(found[r])'
  <2>1. SoundWorld(found[r])
    BY WorksFacts
  <2> QED
    BY <2>1 DEF SoundWorld
<1>5. Produces(r)'
  BY <1>1, <1>2, <1>3 DEF Produces
<1> QED
  BY <1>4, <1>5, GoesOn DEF Producing

LEMMA MakeParentsDue ==
  ASSUME NEW r \in Runs, Works(r), MakeParents(r), UNCHANGED managed
  PROVE Due(r)
<1>1. pc[r] = "corpus-parents" /\ number[r] # Len(CorpusPaths) /\ UNCHANGED <<sources, circumstances, walking, collecting>>
  BY DEF MakeParents, At, LastPath
<1>2. pc[r] \in Producing /\ ~Fills(r)
  BY <1>1 DEF Producing, Fills
<1>3. /\ place \in Directories /\ place # Absent /\ number[r] <= Len(Paths(r)) /\ World = Stocked(found[r], SoFar(r))
      /\ number[r] \in Nat /\ Goal(found[r]) = place
  BY <1>2, ProducesFacts, PlacesDiffer
<1>4. Paths(r) = CorpusPaths
  BY <1>1, GeneratorsCommand DEF Paths
<1>5. Goto(r, "corpus-create") /\ UNCHANGED <<outputs, history>>
  BY <1>3 DEF MakeParents, Check
<1>6. pc'[r] = "corpus-create"
  BY <1>5, WorksFacts
<1>7. World' = World /\ UNCHANGED <<found, request, number>>
  BY <1>1, <1>5 DEF World, sources, outputs, circumstances, history, walking
<1>8. number[r] < Len(Paths(r))
  <2>1. Len(Paths(r)) \in Nat
    BY PathFacts
  <2> QED
    BY <1>1, <1>3, <1>4, <2>1
<1>9. SoFar(r)' = SoFar(r)
  <2>1. ~Fills(r)'
    BY <1>6 DEF Fills
  <2> QED
    BY <1>2, <1>7, <1>8, <2>1, SoFarGrows
<1> QED
  BY <1>1, <1>2, <1>3, <1>6, <1>7, <1>8, <1>9, StillProduces DEF Producing

\* The entry is not there yet.
LEMMA CreateDue ==
  ASSUME NEW r \in Runs, Works(r), pc[r] \in Producing, ~Fills(r), number[r] < Len(Paths(r)),
         NEW step, step \in {"corpus-fill", "page-fill"}, CreateEntry(r, place, Paths(r)[number[r] + 1], step), UNCHANGED managed
  PROVE Due(r)
<1> DEFINE s == Paths(r)[number[r] + 1]
<1>1. /\ Goal(found[r]) \in Directories /\ place = Goal(found[r]) /\ holds[place] = SoFar(r) /\ number[r] <= Len(Paths(r))
  BY ProducesFacts
<1>2. UNCHANGED <<found, request>>
  BY DEF CreateEntry, Disturbs, history, circumstances
<1>3. s \in Slots /\ Entry(place, s) = Absent
  <2>1. s \in Slots /\ SoFar(r)[s] = Absent
    BY <1>2, SoFarGrows
  <2> QED
    BY <1>1, <2>1 DEF Entry
<1>4. /\ Put(place, s, [by |-> r, bytes |-> Empty]) /\ Goto(r, step) /\ fd' = [fd EXCEPT ![r] = place]
      /\ UNCHANGED <<sources, place, used, loose, dist, number>>
  BY <1>1, <1>3 DEF CreateEntry, Disturbs, circumstances
<1>5. pc'[r] = step /\ fd'[r] = Goal(found[r])
  BY <1>1, <1>4, WorksFacts DEF Arrays
<1>6. SoFar(r)' = [SoFar(r) EXCEPT ![s] = [by |-> r, bytes |-> Empty]]
  <2>1. Fills(r)' /\ number'[r] = number[r]
    BY <1>4, <1>5 DEF Fills
  <2> QED
    BY <1>2, <2>1, SoFarGrows
<1>7. World' = Stocked(found[r], SoFar(r)')
  BY <1>1, <1>2, <1>3, <1>4, <1>6, FilePut
<1>8. number'[r] = number[r] /\ pc'[r] \in Producing
  BY <1>4, <1>5 DEF Producing
<1> QED
  BY <1>1, <1>2, <1>5, <1>7, <1>8, StillProduces

LEMMA FillDue ==
  ASSUME NEW r \in Runs, Works(r), pc[r] \in Producing, Fills(r), NEW bytes, bytes = BytesFor(r)[Paths(r)[number[r] + 1]],
         NEW step, step \in {"corpus-parents", "page"}, FillEntry(r, Paths(r)[number[r] + 1], bytes, step), UNCHANGED managed
  PROVE Due(r)
<1> DEFINE s == Paths(r)[number[r] + 1]
<1>1. /\ Goal(found[r]) \in Directories /\ place = Goal(found[r]) /\ holds[place] = SoFar(r) /\ fd[r] = place
      /\ number[r] < Len(Paths(r)) /\ number[r] \in Nat
  BY ProducesFacts DEF Fills
<1>2. UNCHANGED <<found, request>>
  BY DEF FillEntry, Disturbs, history, circumstances
<1>3. s \in Slots /\ SoFar(r)[s] = [by |-> r, bytes |-> Empty]
  BY <1>1, <1>2, SoFarGrows
<1>4. /\ Put(place, s, [by |-> r, bytes |-> bytes]) /\ Goto(r, step) /\ Advance(r)
      /\ UNCHANGED <<sources, place, used, loose, dist, fd>>
  BY <1>1, <1>3 DEF FillEntry, Entry
<1>5. pc'[r] = step /\ number'[r] = number[r] + 1 /\ fd'[r] = Goal(found[r])
  BY <1>1, <1>4, WorksFacts DEF Arrays, Advance
<1>6. SoFar(r)' = [SoFar(r) EXCEPT ![s] = [by |-> r, bytes |-> bytes]]
  <2>1. ~Fills(r)'
    BY <1>5 DEF Fills
  <2> QED
    BY <1>1, <1>2, <1>5, <2>1, SoFarGrows
<1>7. World' = Stocked(found[r], SoFar(r)')
  BY <1>1, <1>2, <1>3, <1>4, <1>6, FilePut
<1>8. number'[r] <= Len(Paths(r))
  <2>1. Len(Paths(r)) \in Nat
    BY PathFacts
  <2> QED
    BY <1>1, <1>5, <2>1
<1>9. pc'[r] \in Producing /\ pc'[r] \notin {"corpus-create", "corpus-fill", "page-fill"}
  BY <1>5 DEF Producing
<1> QED
  BY <1>2, <1>5, <1>7, <1>8, <1>9, StillProduces

LEMMA CreateManagedDue ==
  ASSUME NEW r \in Runs, Works(r), CreateManaged(r), UNCHANGED managed
  PROVE Due(r)
<1>1. pc[r] = "corpus-create" /\ CreateEntry(r, place, Path(r), "corpus-fill")
  BY DEF CreateManaged, At
<1>2. pc[r] \in Producing /\ ~Fills(r) /\ Paths(r) = CorpusPaths
  BY <1>1, GeneratorsCommand DEF Producing, Fills, Paths
<1>3. number[r] < Len(Paths(r))
  BY <1>1, <1>2, ProducesFacts
<1> QED
  BY <1>1, <1>2, <1>3, CreateDue DEF Path

LEMMA FillManagedDue ==
  ASSUME NEW r \in Runs, Works(r), FillManaged(r), UNCHANGED managed
  PROVE Due(r)
<1>1. pc[r] = "corpus-fill" /\ FillEntry(r, Path(r), Corpus, "corpus-parents")
  BY DEF FillManaged, At
<1>2. pc[r] \in Producing /\ Fills(r) /\ OfCorpus(r) /\ Paths(r) = CorpusPaths
  BY <1>1, GeneratorsCommand DEF Producing, Fills, Paths
<1>3. number[r] < Len(Paths(r)) /\ number[r] \in Nat
  BY <1>1, <1>2, ProducesFacts
<1>4. BytesFor(r)[Paths(r)[number[r] + 1]] = Corpus
  <2>1. number[r] + 1 \in 1..Len(Paths(r))
    BY <1>3, PathFacts
  <2>2. Paths(r)[number[r] + 1] \in ToSet(Paths(r))
    BY <2>1, PathFacts
  <2> QED
    BY <1>2, <2>2 DEF BytesFor, CorpusBytes
<1> QED
  BY <1>1, <1>2, <1>4, FillDue DEF Path

LEMMA CreatePageDue ==
  ASSUME NEW r \in Runs, Works(r), CreatePage(r)
  PROVE Due(r)
<1>1. pc[r] = "page" /\ number[r] # Len(ReportPaths) /\ CreateEntry(r, fd[r], Page(r), "page-fill") /\ UNCHANGED managed
  BY DEF CreatePage, At, LastPage, Deriving
<1>2. pc[r] \in Producing /\ ~Fills(r) /\ Paths(r) = ReportPaths
  BY <1>1, GeneratorsCommand DEF Producing, Fills, Paths
<1>3. number[r] < Len(Paths(r)) /\ fd[r] = place
  <2>1. number[r] \in Nat /\ number[r] <= Len(Paths(r)) /\ Len(Paths(r)) \in Nat /\ fd[r] = place
    BY <1>1, <1>2, ProducesFacts, PathFacts
  <2> QED
    BY <1>1, <1>2, <2>1
<1> QED
  BY <1>1, <1>2, <1>3, CreateDue DEF Page

LEMMA FillPageDue ==
  ASSUME NEW r \in Runs, Works(r), FillPage(r)
  PROVE Due(r)
<1>1. pc[r] = "page-fill" /\ FillEntry(r, Page(r), ReportBytes(managed[r], Page(r)), "page") /\ UNCHANGED managed
  BY DEF FillPage, At, Deriving
<1>2. pc[r] \in Producing /\ Fills(r) /\ ~OfCorpus(r) /\ Paths(r) = ReportPaths
  BY <1>1, GeneratorsCommand DEF Producing, Fills, Paths
<1>3. number[r] < Len(Paths(r)) /\ number[r] \in Nat
  BY <1>1, <1>2, ProducesFacts
<1>4. BytesFor(r)[Paths(r)[number[r] + 1]] = ReportBytes(managed[r], Page(r))
  <2>1. number[r] + 1 \in 1..Len(Paths(r))
    BY <1>3, PathFacts
  <2>2. Paths(r)[number[r] + 1] \in ToSet(Paths(r))
    BY <2>1, PathFacts
  <2> QED
    BY <1>2, <2>2 DEF BytesFor, ReportsBytes, Page
<1> QED
  BY <1>1, <1>2, <1>4, FillDue DEF Page

\* All files are there: this is what the directory has to hold.
LEMMA FilledIs ==
  ASSUME NEW r \in Runs, NEW w, SoundWorld(w), Goal(w) \in Directories, NEW bytes, NEW entries,
         entries = [s \in Slots |-> IF s \in DOMAIN bytes THEN [by |-> r, bytes |-> bytes[s]] ELSE w.holds[Goal(w)][s]]
  PROVE Filled(r, w, bytes) = Stocked(w, entries)
<1>1. PICK v : v = Grounded(w)
  OBVIOUS
<1>2. v.holds = w.holds
  BY <1>1, GroundedIs
<1>3. Filled(r, w, bytes) =
        [v EXCEPT !.holds[Goal(w)] = [s \in Slots |-> IF s \in DOMAIN bytes THEN [by |-> r, bytes |-> bytes[s]] ELSE @[s]]]
  BY <1>1 DEF Filled, Grounded
<1>4. Stocked(w, entries) = [v EXCEPT !.holds[Goal(w)] = entries]
  BY <1>1 DEF Stocked, Grounded
<1> QED
  BY <1>2, <1>3, <1>4

LEMMA EndOfProductionDue ==
  ASSUME NEW r \in Runs, Works(r), pc[r] \in {"corpus-parents", "page"}, number[r] = Len(Paths(r)), Looks, Exit(r, "0")
  PROVE Due(r)
<1>1. pc[r] \in Producing /\ ~Fills(r)
  BY DEF Producing, Fills
<1>2. /\ Outcome(r, found[r]) = Came("0", Filled(r, found[r], BytesFor(r)))
      /\ World = Stocked(found[r], SoFar(r)) /\ Goal(found[r]) \in Directories
  BY <1>1, ProducesFacts
<1>3. SoFar(r) = [s \in Slots |-> IF s \in DOMAIN BytesFor(r) THEN [by |-> r, bytes |-> BytesFor(r)[s]]
                                  ELSE found[r].holds[Goal(found[r])][s]]
  <2>1. DOMAIN BytesFor(r) = ToSet(Paths(r))
    BY DEF BytesFor, CorpusBytes, ReportsBytes, Paths, OfCorpus
  <2>2. \A s \in Slots : (\E k \in 1..number[r] : Paths(r)[k] = s) <=> s \in DOMAIN BytesFor(r)
    BY <2>1, PathFacts
  <2> QED
    BY <1>1, <2>2 DEF SoFar, Fills
<1>4. World = Filled(r, found[r], BytesFor(r))
  BY <1>2, <1>3, WorksFacts, FilledIs
<1>5. pc'[r] = "ended" /\ exit'[r] = "0" /\ World' = World
  BY WorksFacts, Looked
<1> QED
  BY <1>2, <1>4, <1>5 DEF Due

LEMMA EndOfCorpusDue ==
  ASSUME NEW r \in Runs, Works(r), EndOfCorpus(r)
  PROVE Due(r)
<1>1. pc[r] = "corpus-parents" /\ number[r] = Len(CorpusPaths) /\ Looks /\ Exit(r, "0")
  BY DEF EndOfCorpus, At, LastPath
<1>2. Paths(r) = CorpusPaths
  BY <1>1, GeneratorsCommand DEF Paths
<1> QED
  BY <1>1, <1>2, EndOfProductionDue

LEMMA EndOfPagesDue ==
  ASSUME NEW r \in Runs, Works(r), EndOfPages(r)
  PROVE Due(r)
<1>1. pc[r] = "page" /\ number[r] = Len(ReportPaths) /\ Looks /\ Exit(r, "0")
  BY DEF EndOfPages, At, LastPage
<1>2. Paths(r) = ReportPaths
  BY <1>1, GeneratorsCommand DEF Paths
<1> QED
  BY <1>1, <1>2, EndOfProductionDue

-----------------------------------------------------------------------------
(* The checks. *)
LEMMA CheckEnds ==
  ASSUME NEW r \in Runs, Works(r), Intact(r), Derivation(r), Checking(r), Looks, Exit(r, Verdict(r)),
         Verdict(r) = "0" => ~Barred(r)
  PROVE Due(r)
<1>1. Outcome(r, found[r]) = Came(Verdict(r), found[r])
  BY CheckOutcome
<1> QED
  BY <1>1, Halted

LEMMA ChecksCommand ==
  ASSUME NEW r \in Runs, Works(r)
  PROVE /\ pc[r] \in {"corpus-check", "corpus-replay", "walk", "walked", "corpus-size", "corpus-read", "corpus-manifest", "replay"} =>
             OfCorpus(r) /\ Checking(r) /\ Paths(r) = CorpusPaths
        /\ pc[r] \in {"reports-check", "reports-look", "reports-open", "reports-list", "reports-entries", "reports-size", "reports-read"} =>
             ~OfCorpus(r) /\ Checking(r) /\ Paths(r) = ReportPaths
<1>1. Tie(r)
  BY WorksFacts DEF Tied
<1> QED
  BY <1>1 DEF Tie, OfCorpus, Checking, Paths

\* What there is in the directory is what the run found in it.
LEMMA EntriesThere ==
  ASSUME NEW r \in Runs, Intact(r), found[r].place \in Directories
  PROVE /\ place = found[r].place /\ \A s : Entry(place, s) = InFound(r, s)
        /\ EntriesIn(place) = Listing(EntriesOf(found[r]))
<1>1. place = found[r].place /\ holds = found[r].holds
  BY Seen
<1>2. \A s : Entry(place, s) = InFound(r, s)
  BY <1>1 DEF Entry, InFound, EntriesOf
<1>3. NamesIn(place) = Named(EntriesOf(found[r]))
  BY <1>2 DEF NamesIn, Named, InFound
<1> QED
  BY <1>1, <1>2, <1>3 DEF EntriesIn, Listing, InFound

Inspecting == {"corpus-check", "corpus-replay", "reports-look", "reports-open", "reports-list", "walk", "walked", "reports-entries"}

LEMMA InspectsFacts ==
  ASSUME NEW r \in Runs, Works(r), pc[r] \in Inspecting
  PROVE /\ Intact(r) /\ Derivation(r) /\ place = found[r].place
        /\ pc[r] \in {"reports-open", "reports-list", "walk", "walked", "reports-entries"} =>
             request[r].valid /\ found[r].place \in Directories
        /\ pc[r] \in {"reports-list", "reports-entries"} => fd[r] = found[r].place
        /\ pc[r] \in {"walked", "reports-entries"} =>
             /\ listing[r].entries = Listing(EntriesOf(found[r]))
             /\ listing[r].left \subseteq listing[r].entries
             /\ \A e \in listing[r].entries \ listing[r].left : Passed(r, e.name)
<1>1. Inspects(r)
  BY DEF Works, Lone
<1>2. Intact(r)
  BY <1>1 DEF Inspects, Inspecting
<1> QED
  BY <1>1, <1>2, Seen DEF Inspects, Inspecting

\* The directory is there, or the check is refused.
LEMMA FindDue ==
  ASSUME NEW r \in Runs, Works(r), pc[r] \in {"corpus-check", "corpus-replay", "reports-look"}, Looks, UNCHANGED managed,
         NEW next, next \in {"walk", "reports-open"}, Check(r, request[r].valid /\ place \in Directories, next, "2")
  PROVE Due(r)
<1>1. Intact(r) /\ Derivation(r) /\ place = found[r].place /\ Checking(r)
  BY InspectsFacts, ChecksCommand DEF Inspecting
<1>2. CASE request[r].valid /\ place \in Directories
  <2>1. pc'[r] = next
    BY <1>2, WorksFacts DEF Check
  <2>2. Inspects(r)'
    BY <1>1, <1>2, <2>1, Looked DEF Inspects
  <2> QED
    BY <2>1, <2>2, Looked, GoesOn
<1>3. CASE ~(request[r].valid /\ place \in Directories)
  <2>1. Verdict(r) = "2" /\ Exit(r, "2")
    BY <1>1, <1>3 DEF Verdict, Check
  <2> QED
    BY <1>1, <2>1, CheckEnds
<1> QED
  BY <1>2, <1>3

LEMMA ListDue ==
  ASSUME NEW r \in Runs, Works(r), pc[r] \in {"walk", "reports-list"}, Looks, UNCHANGED <<managed, fd>>, List(r, place),
         NEW next, next \in {"walked", "reports-entries"}, Goto(r, next), next = "reports-entries" => pc[r] = "reports-list"
  PROVE Due(r)
<1>1. /\ Intact(r) /\ Derivation(r) /\ request[r].valid /\ found[r].place \in Directories
      /\ pc[r] = "reports-list" => fd[r] = found[r].place
  BY InspectsFacts DEF Inspecting
<1>2. EntriesIn(place) = Listing(EntriesOf(found[r]))
  BY <1>1, EntriesThere
<1>3. listing'[r].entries = Listing(EntriesOf(found[r])) /\ listing'[r].left = Listing(EntriesOf(found[r]))
  BY <1>2, WorksFacts DEF List, Arrays
<1>4. pc'[r] = next
  BY WorksFacts
<1>5. Inspects(r)'
  BY <1>1, <1>3, <1>4, Looked DEF Inspects
<1> QED
  BY <1>4, <1>5, Looked, GoesOn

LEMMA ListingIs ==
  ASSUME NEW r \in Runs, Works(r), pc[r] \in {"walked", "reports-entries"}
  PROVE /\ \A e \in listing[r].entries : e.name \in Named(EntriesOf(found[r])) /\ (e.folder <=> InFound(r, e.name) = Folder)
        /\ \A s \in Named(EntriesOf(found[r])) : \E e \in listing[r].entries : e.name = s
<1>1. listing[r].entries = Listing(EntriesOf(found[r]))
  BY InspectsFacts DEF Inspecting
<1> DEFINE there == EntriesOf(found[r])
<1>2. \A e \in listing[r].entries : \E s \in Named(there) : e = [name |-> s, folder |-> there[s] = Folder]
  BY <1>1 DEF Listing
<1>3. \A s \in Named(there) : [name |-> s, folder |-> there[s] = Folder] \in listing[r].entries
  BY <1>1 DEF Listing
<1>4. ASSUME NEW e \in listing[r].entries PROVE e.name \in Named(there) /\ (e.folder <=> InFound(r, e.name) = Folder)
  <2>1. PICK s \in Named(there) : e = [name |-> s, folder |-> there[s] = Folder]
    BY <1>2
  <2>2. e.name = s /\ e.folder = (there[s] = Folder)
    BY <2>1
  <2> QED
    BY <2>2 DEF InFound
<1>5. ASSUME NEW s \in Named(there) PROVE \E e \in listing[r].entries : e.name = s
  <2>1. PICK e : e = [name |-> s, folder |-> there[s] = Folder]
    OBVIOUS
  <2> QED
    BY <1>3, <2>1
<1> QED
  BY <1>4, <1>5

\* One entry after the other is seen to be a file.
LEMMA ExamineDue ==
  ASSUME NEW r \in Runs, Works(r), pc[r] \in {"walked", "reports-entries"}, Looks, UNCHANGED <<managed, fd>>,
         NEW e \in listing[r].left, Examine(r, e), Check(r, Passed(r, e.name), pc[r], "2")
  PROVE Due(r)
<1>1. /\ Intact(r) /\ Derivation(r) /\ request[r].valid /\ found[r].place \in Directories
      /\ pc[r] = "reports-entries" => fd[r] = found[r].place
      /\ listing[r].entries = Listing(EntriesOf(found[r]))
      /\ listing[r].left \subseteq listing[r].entries
      /\ \A x \in listing[r].entries \ listing[r].left : Passed(r, x.name)
  BY InspectsFacts DEF Inspecting
<1>2. CASE Passed(r, e.name)
  <2>1. pc'[r] = pc[r]
    BY <1>2, WorksFacts DEF Check
  <2>2. listing'[r].entries = listing[r].entries /\ listing'[r].left = listing[r].left \ {e}
    BY WorksFacts DEF Examine, OutputOK
  <2>3. \A s : Passed(r, s)' = Passed(r, s)
    BY Looked DEF Passed, InFound
  <2>4. \A x \in listing'[r].entries \ listing'[r].left : Passed(r, x.name)
    BY <1>1, <1>2, <2>2
  <2>5. Inspects(r)'
    BY <1>1, <2>1, <2>2, <2>3, <2>4, Looked DEF Inspects
  <2> QED
    BY <2>1, <2>5, Looked, GoesOn
<1>3. CASE ~Passed(r, e.name)
  <2>1. Exit(r, "2")
    BY <1>3 DEF Check
  <2>2. ~AllPassed(r)
    BY <1>1, <1>3, ListingIs DEF AllPassed
  <2>3. Verdict(r) = "2" /\ Checking(r)
    BY <2>2, ChecksCommand DEF Verdict
  <2> QED
    BY <1>1, <2>1, <2>3, CheckEnds
<1> QED
  BY <1>2, <1>3

\* All are; they should have these names.
LEMMA CompareDue ==
  ASSUME NEW r \in Runs, Works(r), pc[r] \in {"walked", "reports-entries"}, Looks, UNCHANGED <<managed, fd>>, AllExamined(r), Rewind(r),
         NEW next, next \in {"corpus-size", "reports-size"}, Check(r, FilesFound(r) = ToSet(Paths(r)), next, "1"),
         next = "reports-size" => pc[r] = "reports-entries", ~OfCorpus(r) => pc[r] = "reports-entries"
  PROVE Due(r)
<1>1. /\ Intact(r) /\ Derivation(r) /\ request[r].valid /\ found[r].place \in Directories
      /\ pc[r] = "reports-entries" => fd[r] = found[r].place
      /\ \A x \in listing[r].entries : Passed(r, x.name)
  BY InspectsFacts DEF Inspecting, AllExamined
<1>2. AllPassed(r)
  BY <1>1, ListingIs DEF AllPassed
<1>3. CASE FilesFound(r) = ToSet(Paths(r))
  <2>1. pc'[r] = next
    BY <1>3, WorksFacts DEF Check
  <2>2. number'[r] = 0
    BY WorksFacts DEF Rewind, Arrays
  <2>3. (\A s : Passed(r, s)' = Passed(r, s)) /\ FilesFound(r)' = FilesFound(r) /\ AllPassed(r)' = AllPassed(r) /\ Paths(r)' = Paths(r)
    BY Looked DEF Passed, InFound, FilesFound, AllPassed
  <2>4. number'[r] <= Len(Paths(r)) /\ 1..number'[r] = {}
    BY <2>2, PathFacts
  <2>5. Collates(r)'
    <3>1. /\ Intact(r)' /\ Derivation(r)' /\ request'[r].valid /\ found'[r].place \in Directories
          /\ ~OfCorpus(r)' => fd'[r] = found'[r].place
      BY <1>1, Looked
    <3>2. FilesFound(r)' = ToSet(Paths(r)') /\ AllPassed(r)'
      BY <1>2, <1>3, <2>3
    <3>3. pc'[r] \notin {"corpus-read", "reports-read"}
      BY <2>1
    <3> QED
      BY <2>3, <2>4, <3>1, <3>2, <3>3 DEF Collates, FilesFound, AllPassed
  <2> QED
    BY <2>1, <2>5, Looked, GoesOn
<1>4. CASE FilesFound(r) # ToSet(Paths(r))
  <2>1. Exit(r, "1")
    BY <1>4 DEF Check
  <2>2. Verdict(r) = "1" /\ Checking(r)
    BY <1>1, <1>2, <1>4, ChecksCommand DEF Verdict
  <2> QED
    BY <1>1, <2>1, <2>2, CheckEnds
<1> QED
  BY <1>3, <1>4

\* What a file should hold has the size it should have.
LEMMA ExpectedSizes ==
  ASSUME NEW r \in Runs, Works(r), Derivation(r), NEW s \in ToSet(Paths(r))
  PROVE BytesFor(r)[s] \notin {Absent, Empty, Long}
<1>1. CASE OfCorpus(r)
  BY <1>1, SizesDiffer DEF BytesFor, CorpusBytes, Paths
<1>2. CASE ~OfCorpus(r)
  <2>1. managed[r] = Derived(found[r]) /\ managed[r] \in Seq(Entered)
    BY <1>2, WorksFacts DEF Derivation, TypeOK, ReadingOK
  <2>2. BytesFor(r)[s] = ReportBytes(managed[r], s)
    BY <1>2 DEF BytesFor, ReportsBytes, Paths
  <2>3. CASE \E k \in DOMAIN PageOf : PageOf[k] = s
    <3>1. PICK k : k = CHOOSE j \in DOMAIN PageOf : PageOf[j] = s
      OBVIOUS
    <3>2. k \in DOMAIN PageOf
      BY <2>3, <3>1
    <3>3. k \in DOMAIN managed[r]
      BY <2>1, <3>2, EveryPageHasAScenario DEF Derived
    <3>4. managed[r][k] \in Entered
      BY <2>1, <3>3, LenProperties
    <3>5. managed[r][k].report \in Seq(Copied)
      BY <3>4 DEF Entered
    <3>6. ReportBytes(managed[r], s) = [page |-> managed[r][k].report]
      BY <2>3, <3>1 DEF ReportBytes
    <3>7. ReportBytes(managed[r], s) \in [page : Seq(Copied)]
      BY <3>5, <3>6
    <3> QED
      BY <2>2, <3>7, SizesDiffer
  <2>4. CASE ~\E k \in DOMAIN PageOf : PageOf[k] = s
    <3>1. ReportBytes(managed[r], s) \in {[manifest |-> managed[r]], [sums |-> managed[r]]}
      BY <2>4 DEF ReportBytes
    <3>2. ReportBytes(managed[r], s) \in [manifest : Seq(Entered)] \cup [sums : Seq(Entered)]
      BY <2>1, <3>1
    <3> QED
      BY <2>2, <3>2, SizesDiffer
  <2> QED
    BY <2>3, <2>4
<1> QED
  BY <1>1, <1>2

CollatingPlaces == {"corpus-size", "corpus-read", "reports-size", "reports-read"}

LEMMA CollatesFacts ==
  ASSUME NEW r \in Runs, Works(r), pc[r] \in CollatingPlaces
  PROVE /\ Intact(r) /\ Derivation(r) /\ request[r].valid /\ found[r].place \in Directories /\ place = found[r].place
        /\ Checking(r)
        /\ ~OfCorpus(r) => fd[r] = found[r].place
        /\ number[r] \in Nat /\ Len(Paths(r)) \in Nat /\ number[r] <= Len(Paths(r))
        /\ pc[r] \in {"corpus-read", "reports-read"} => number[r] < Len(Paths(r))
        /\ AllPassed(r) /\ FilesFound(r) = ToSet(Paths(r))
        /\ \A k \in 1..number[r] : InFound(r, Paths(r)[k]).bytes = BytesFor(r)[Paths(r)[k]]
        /\ \A s \in ToSet(Paths(r)) : IsFile(InFound(r, s))
<1>1. Collates(r)
  BY DEF Works, Lone
<1>2. /\ Intact(r) /\ Derivation(r) /\ request[r].valid /\ found[r].place \in Directories
      /\ ~OfCorpus(r) => fd[r] = found[r].place
      /\ number[r] <= Len(Paths(r))
      /\ pc[r] \in {"corpus-read", "reports-read"} => number[r] < Len(Paths(r))
      /\ AllPassed(r) /\ FilesFound(r) = ToSet(Paths(r))
      /\ \A k \in 1..number[r] : InFound(r, Paths(r)[k]).bytes = BytesFor(r)[Paths(r)[k]]
  BY <1>1 DEF Collates, CollatingPlaces, AllPassed, FilesFound
<1>3. number[r] \in Nat /\ Len(Paths(r)) \in Nat
  BY WorksFacts, PathFacts DEF TypeOK, ControlOK
<1>4. Checking(r) /\ place = found[r].place
  BY <1>2, ChecksCommand, Seen DEF CollatingPlaces
<1>5. \A s \in ToSet(Paths(r)) : IsFile(InFound(r, s))
  BY <1>2 DEF AllPassed, FilesFound, Passed
<1> QED
  BY <1>2, <1>3, <1>4, <1>5

\* The next file, if there is one.
LEMMA NextIsThere ==
  ASSUME NEW r \in Runs, Works(r), pc[r] \in CollatingPlaces, number[r] # Len(Paths(r)) \/ pc[r] \in {"corpus-read", "reports-read"}
  PROVE /\ number[r] < Len(Paths(r)) /\ Paths(r)[number[r] + 1] \in ToSet(Paths(r))
        /\ IsFile(InFound(r, Paths(r)[number[r] + 1]))
<1>1. number[r] < Len(Paths(r)) /\ number[r] + 1 \in 1..Len(Paths(r))
  <2>1. number[r] \in Nat /\ Len(Paths(r)) \in Nat /\ number[r] <= Len(Paths(r)) /\ (number[r] # Len(Paths(r)) \/ number[r] < Len(Paths(r)))
    BY CollatesFacts
  <2> QED
    BY <2>1
<1>2. Paths(r)[number[r] + 1] \in ToSet(Paths(r))
  BY <1>1, PathFacts
<1>3. \A s \in ToSet(Paths(r)) : IsFile(InFound(r, s))
  BY CollatesFacts
<1> QED
  BY <1>1, <1>2, <1>3

\* A check goes on with the files.
LEMMA StillCollates ==
  ASSUME NEW r \in Runs, Works(r), pc[r] \in CollatingPlaces, Looks, UNCHANGED <<managed, fd>>, pc'[r] \in CollatingPlaces,
         number'[r] <= Len(Paths(r)), pc'[r] \in {"corpus-read", "reports-read"} => number'[r] < Len(Paths(r)),
         \A k \in 1..number'[r] : InFound(r, Paths(r)[k]).bytes = BytesFor(r)[Paths(r)[k]]
  PROVE Due(r)
<1>1. /\ Intact(r) /\ Derivation(r) /\ request[r].valid /\ found[r].place \in Directories
      /\ ~OfCorpus(r) => fd[r] = found[r].place
      /\ AllPassed(r) /\ FilesFound(r) = ToSet(Paths(r))
  BY CollatesFacts
<1>2. /\ (\A s : Passed(r, s)' = Passed(r, s) /\ InFound(r, s)' = InFound(r, s)) /\ FilesFound(r)' = FilesFound(r)
      /\ AllPassed(r)' = AllPassed(r) /\ Paths(r)' = Paths(r) /\ BytesFor(r)' = BytesFor(r)
  BY Looked DEF Passed, InFound, FilesFound, AllPassed
<1>3. /\ Intact(r)' /\ Derivation(r)' /\ request'[r].valid /\ found'[r].place \in Directories
      /\ ~OfCorpus(r)' => fd'[r] = found'[r].place
  BY <1>1, Looked
<1>4. FilesFound(r)' = ToSet(Paths(r)') /\ AllPassed(r)'
  BY <1>1, <1>2
<1>5. Collates(r)'
  BY <1>2, <1>3, <1>4 DEF Collates, FilesFound, AllPassed
<1> QED
  BY <1>5, Looked, GoesOn DEF CollatingPlaces

\* A file that does not hold what it should.
LEMMA DiffersDue ==
  ASSUME NEW r \in Runs, Works(r), pc[r] \in CollatingPlaces, Looks, Exit(r, "1"),
         NEW s \in ToSet(Paths(r)), InFound(r, s).bytes # BytesFor(r)[s]
  PROVE Due(r)
<1>1. Intact(r) /\ Derivation(r) /\ Checking(r) /\ request[r].valid /\ found[r].place \in Directories /\ AllPassed(r)
  BY CollatesFacts
<1>2. Verdict(r) = "1"
  BY <1>1 DEF Verdict
<1> QED
  BY <1>1, <1>2, CheckEnds

LEMMA SizeDue ==
  ASSUME NEW r \in Runs, Works(r), pc[r] \in CollatingPlaces, number[r] # Len(Paths(r)), Looks, UNCHANGED <<managed, fd, number>>,
         NEW next, next \in {"corpus-read", "reports-read"},
         Check(r, Size(InFound(r, Paths(r)[number[r] + 1])) = "right", next, "1")
  PROVE Due(r)
<1> DEFINE s == Paths(r)[number[r] + 1]
<1>1. number[r] < Len(Paths(r)) /\ number[r] <= Len(Paths(r)) /\ s \in ToSet(Paths(r)) /\ IsFile(InFound(r, s))
  BY NextIsThere, CollatesFacts
<1>2. CASE Size(InFound(r, s)) = "right"
  <2>1. pc'[r] = next
    BY <1>2, WorksFacts DEF Check
  <2>2. number'[r] = number[r] /\ pc'[r] \in CollatingPlaces
    BY <2>1 DEF CollatingPlaces
  <2>3. \A k \in 1..number[r] : InFound(r, Paths(r)[k]).bytes = BytesFor(r)[Paths(r)[k]]
    BY CollatesFacts
  <2> QED
    BY <1>1, <2>2, <2>3, StillCollates
<1>3. CASE Size(InFound(r, s)) # "right"
  <2>1. Exit(r, "1")
    BY <1>3 DEF Check
  <2>2. InFound(r, s).bytes \in {Empty, Long}
    BY <1>1, <1>3 DEF Size
  <2>3. InFound(r, s).bytes # BytesFor(r)[s]
    BY <1>1, <2>2, CollatesFacts, ExpectedSizes
  <2> QED
    BY <1>1, <2>1, <2>3, DiffersDue
<1> QED
  BY <1>2, <1>3

LEMMA ReadDue ==
  ASSUME NEW r \in Runs, Works(r), pc[r] \in {"corpus-read", "reports-read"}, Looks, UNCHANGED <<managed, fd>>, Advance(r),
         NEW next, next \in {"corpus-size", "reports-size"},
         Check(r, InFound(r, Paths(r)[number[r] + 1]).bytes = BytesFor(r)[Paths(r)[number[r] + 1]], next, "1")
  PROVE Due(r)
<1> DEFINE s == Paths(r)[number[r] + 1]
<1>0. pc[r] \in CollatingPlaces
  BY DEF CollatingPlaces
<1>1. number[r] < Len(Paths(r)) /\ s \in ToSet(Paths(r))
  BY <1>0, NextIsThere
<1>2. CASE InFound(r, s).bytes = BytesFor(r)[s]
  <2>1. pc'[r] = next
    BY <1>2, WorksFacts DEF Check
  <2>2. number'[r] = number[r] + 1
    BY WorksFacts DEF Advance, Arrays
  <2>3. number[r] \in Nat /\ Len(Paths(r)) \in Nat /\ \A k \in 1..number[r] : InFound(r, Paths(r)[k]).bytes = BytesFor(r)[Paths(r)[k]]
    BY <1>0, CollatesFacts
  <2>4. number'[r] <= Len(Paths(r)) /\ \A k \in 1..number'[r] : k \in 1..number[r] \/ k = number[r] + 1
    BY <1>1, <2>2, <2>3
  <2>5. \A k \in 1..number'[r] : InFound(r, Paths(r)[k]).bytes = BytesFor(r)[Paths(r)[k]]
    BY <1>2, <2>3, <2>4
  <2>6. pc'[r] \in CollatingPlaces /\ pc'[r] \notin {"corpus-read", "reports-read"}
    BY <2>1 DEF CollatingPlaces
  <2> QED
    BY <1>0, <2>4, <2>5, <2>6, StillCollates
<1>3. CASE InFound(r, s).bytes # BytesFor(r)[s]
  <2>1. Exit(r, "1")
    BY <1>3 DEF Check
  <2> QED
    BY <1>0, <1>1, <1>3, <2>1, DiffersDue
<1> QED
  BY <1>2, <1>3

\* All files hold what they should.
LEMMA AllCollated ==
  ASSUME NEW r \in Runs, Works(r), pc[r] \in CollatingPlaces, number[r] = Len(Paths(r))
  PROVE Verdict(r) = "0" /\ \A s \in ToSet(Paths(r)) : IsFile(InFound(r, s)) /\ InFound(r, s).bytes = BytesFor(r)[s]
<1>1. \A s \in ToSet(Paths(r)) : IsFile(InFound(r, s)) /\ InFound(r, s).bytes = BytesFor(r)[s]
  BY CollatesFacts, PathFacts
<1> QED
  BY <1>1, CollatesFacts DEF Verdict

LEMMA FindCorpusDue ==
  ASSUME NEW r \in Runs, Works(r), FindCorpus(r), UNCHANGED managed
  PROVE Due(r)
BY FindDue DEF FindCorpus

LEMMA WalkCorpusDue ==
  ASSUME NEW r \in Runs, Works(r), WalkCorpus(r), UNCHANGED managed
  PROVE Due(r)
BY ListDue DEF WalkCorpus, At

LEMMA ExamineWalkedDue ==
  ASSUME NEW r \in Runs, Works(r), ExamineWalked(r), UNCHANGED managed
  PROVE Due(r)
<1>1. pc[r] = "walked" /\ Looks /\ UNCHANGED fd
  BY DEF ExamineWalked, At
<1>2. PICK e \in listing[r].left :
        Examine(r, e) /\ Check(r, IF e.folder THEN Entry(place, e.name) # Symlink ELSE IsFile(Entry(place, e.name)), "walked", "2")
  BY DEF ExamineWalked
<1>3. Intact(r) /\ found[r].place \in Directories /\ listing[r].left \subseteq listing[r].entries
  BY <1>1, InspectsFacts DEF Inspecting
<1>4. Entry(place, e.name) = InFound(r, e.name) /\ (e.folder <=> InFound(r, e.name) = Folder) /\ OfCorpus(r)
  BY <1>1, <1>3, EntriesThere, ListingIs, ChecksCommand
<1>5. (IF e.folder THEN Entry(place, e.name) # Symlink ELSE IsFile(Entry(place, e.name))) <=> Passed(r, e.name)
  BY <1>4, PlacesDiffer DEF Passed
<1>6. Check(r, Passed(r, e.name), "walked", "2")
  BY <1>2, <1>5 DEF Check
<1> QED
  BY <1>1, <1>2, <1>6, ExamineDue

\* The files that the listing has.
LEMMA ListedFiles ==
  ASSUME NEW r \in Runs, Works(r)
  PROVE /\ pc[r] = "walked" => FilesWalked(r) \ {Readme} = FilesFound(r)
        /\ pc[r] = "reports-entries" /\ AllExamined(r) => {e.name : e \in listing[r].entries} = FilesFound(r)
<1>1. ASSUME pc[r] = "walked" PROVE FilesWalked(r) \ {Readme} = FilesFound(r)
  <2>1. OfCorpus(r)
    BY <1>1, ChecksCommand
  <2>2. \A s : s \in FilesWalked(r) <=> s \in Named(EntriesOf(found[r])) /\ InFound(r, s) # Folder
    BY <1>1, ListingIs DEF FilesWalked
  <2> QED
    BY <2>1, <2>2 DEF FilesFound
<1>2. ASSUME pc[r] = "reports-entries", AllExamined(r) PROVE {e.name : e \in listing[r].entries} = FilesFound(r)
  <2>1. ~OfCorpus(r)
    BY <1>2, ChecksCommand
  <2>2. \A e \in listing[r].entries : Passed(r, e.name)
    BY <1>2, InspectsFacts DEF Inspecting, AllExamined
  <2>3. \A s : s \in {e.name : e \in listing[r].entries} <=> s \in Named(EntriesOf(found[r])) /\ InFound(r, s) # Folder
    BY <1>2, <2>1, <2>2, ListingIs DEF Passed, IsFile
  <2> QED
    BY <2>1, <2>3 DEF FilesFound
<1> QED
  BY <1>1, <1>2

LEMMA ComparePathsDue ==
  ASSUME NEW r \in Runs, Works(r), ComparePaths(r), UNCHANGED managed
  PROVE Due(r)
<1>1. /\ pc[r] = "walked" /\ Looks /\ UNCHANGED fd /\ AllExamined(r) /\ Rewind(r)
      /\ Check(r, FilesWalked(r) \ {Readme} = ToSet(CorpusPaths), "corpus-size", "1")
  BY DEF ComparePaths, At
<1>2. OfCorpus(r) /\ Paths(r) = CorpusPaths /\ FilesWalked(r) \ {Readme} = FilesFound(r)
  BY <1>1, ChecksCommand, ListedFiles
<1>3. Check(r, FilesFound(r) = ToSet(Paths(r)), "corpus-size", "1")
  BY <1>1, <1>2
<1> QED
  BY <1>1, <1>2, <1>3, CompareDue

LEMMA SizeManagedDue ==
  ASSUME NEW r \in Runs, Works(r), SizeManaged(r), UNCHANGED managed
  PROVE Due(r)
<1> DEFINE s == Paths(r)[number[r] + 1]
<1>1. pc[r] = "corpus-size" /\ number[r] # Len(CorpusPaths) /\ Looks /\ UNCHANGED <<number, fd>>
  BY DEF SizeManaged, At, LastPath, walking
<1>2. pc[r] \in CollatingPlaces /\ Paths(r) = CorpusPaths /\ number[r] # Len(Paths(r))
  BY <1>1, ChecksCommand DEF CollatingPlaces
<1>3. IsFile(InFound(r, s)) /\ Entry(place, Path(r)) = InFound(r, s)
  <2>1. Intact(r) /\ found[r].place \in Directories
    BY <1>2, CollatesFacts
  <2> QED
    BY <1>2, <2>1, NextIsThere, EntriesThere DEF Path
<1>4. Check(r, Size(InFound(r, s)) = "right", "corpus-read", "1")
  BY <1>3 DEF SizeManaged, IsFile
<1> QED
  BY <1>1, <1>2, <1>4, SizeDue

LEMMA ReadManagedDue ==
  ASSUME NEW r \in Runs, Works(r), ReadManaged(r), UNCHANGED managed
  PROVE Due(r)
<1> DEFINE s == Paths(r)[number[r] + 1]
<1>1. pc[r] = "corpus-read" /\ Looks /\ UNCHANGED fd /\ Advance(r)
  BY DEF ReadManaged, At
<1>2. pc[r] \in CollatingPlaces /\ OfCorpus(r) /\ Paths(r) = CorpusPaths
  BY <1>1, ChecksCommand DEF CollatingPlaces
<1>3. IsFile(InFound(r, s)) /\ Entry(place, Path(r)) = InFound(r, s) /\ s \in ToSet(Paths(r))
  <2>1. Intact(r) /\ found[r].place \in Directories
    BY <1>2, CollatesFacts
  <2> QED
    BY <1>1, <1>2, <2>1, NextIsThere, EntriesThere DEF Path
<1>4. BytesFor(r)[s] = Corpus
  BY <1>2, <1>3 DEF BytesFor, CorpusBytes
<1>5. Check(r, InFound(r, s).bytes = BytesFor(r)[s], "corpus-size", "1")
  BY <1>3, <1>4 DEF ReadManaged
<1> QED
  BY <1>1, <1>5, ReadDue

LEMMA EndOfCheckDue ==
  ASSUME NEW r \in Runs, Works(r), EndOfCheck(r), UNCHANGED <<managed, corpusVars>>
  PROVE Due(r)
<1>1. /\ pc[r] = "corpus-size" /\ number[r] = Len(CorpusPaths) /\ Looks
      /\ \/ request[r].command = "corpus-replay" /\ replayed[r] = 0 /\ Goto(r, "corpus-manifest")
         \/ ~(request[r].command = "corpus-replay" /\ replayed[r] = 0) /\ Exit(r, "0")
  BY DEF EndOfCheck, At, LastPath
<1>2. pc[r] \in CollatingPlaces /\ OfCorpus(r) /\ Paths(r) = CorpusPaths
  BY <1>1, ChecksCommand DEF CollatingPlaces
<1>3. /\ Intact(r) /\ Derivation(r) /\ Checking(r) /\ found[r].place \in Directories /\ Verdict(r) = "0"
      /\ \A s \in ToSet(CorpusPaths) : IsFile(InFound(r, s)) /\ InFound(r, s).bytes = BytesFor(r)[s]
  BY <1>1, <1>2, CollatesFacts, AllCollated
<1>4. ASSUME request[r].command = "corpus-replay", replayed[r] = 0, Goto(r, "corpus-manifest") PROVE Due(r)
  <2>1. pc'[r] = "corpus-manifest" /\ replayed'[r] = 0
    BY <1>4, WorksFacts DEF corpusVars
  <2>2. \A s \in ToSet(CorpusPaths) : BytesFor(r)[s] = Corpus
    BY <1>2 DEF BytesFor, CorpusBytes
  <2>3. \A s : InFound(r, s)' = InFound(r, s)
    BY <1>1, Looked DEF InFound
  <2>4. Replays(r)'
    <3>1. Verdict(r)' = "0" /\ request'[r].command = "corpus-replay"
      BY <1>1, <1>3, <1>4, <2>3, Looked DEF Verdict, AllPassed, Passed, FilesFound
    <3> QED
      BY <1>1, <1>3, <2>1, <2>2, <2>3, <3>1, Looked DEF Replays
  <2> QED
    BY <1>1, <2>1, <2>4, Looked, GoesOn
<1>5. ASSUME Exit(r, "0"), ~(request[r].command = "corpus-replay" /\ replayed[r] = 0) PROVE Due(r)
  BY <1>1, <1>3, <1>5, CheckEnds DEF Works, Playable, Barred
<1> QED
  BY <1>1, <1>4, <1>5

-----------------------------------------------------------------------------
(* A replay of a corpus that is right goes through. *)
LEMMA ReplaysFacts ==
  ASSUME NEW r \in Runs, Works(r), pc[r] \in {"corpus-manifest", "replay"}
  PROVE /\ Intact(r) /\ found[r].place \in Directories /\ Replays(r) /\ OfCorpus(r)
        /\ \A s \in ToSet(CorpusPaths) : IsFile(Entry(place, s)) /\ Entry(place, s).bytes = Corpus
        /\ \A s \in {CorpusManifest, ScenarioPath, ValidationPath} : IsFile(Entry(place, s)) /\ Entry(place, s).bytes = Corpus
<1>1. Replays(r) /\ OfCorpus(r)
  BY ChecksCommand DEF Works, Lone
<1>2. /\ Intact(r) /\ found[r].place \in Directories
      /\ \A s \in ToSet(CorpusPaths) : IsFile(InFound(r, s)) /\ InFound(r, s).bytes = Corpus
  BY <1>1 DEF Replays
<1>3. \A s \in ToSet(CorpusPaths) : IsFile(Entry(place, s)) /\ Entry(place, s).bytes = Corpus
  BY <1>2, EntriesThere
<1> QED
  BY <1>1, <1>2, <1>3, TheCorpusIsManaged

\* A replay goes on.
LEMMA StillReplays ==
  ASSUME NEW r \in Runs, Works(r), pc[r] \in {"corpus-manifest", "replay"}, Looks, pc'[r] = "replay",
         replayed'[r] \in {0, 1, 2}, replayed'[r] = 1 => told'[r] = Corpus
  PROVE Due(r)
<1>1. /\ Intact(r) /\ found[r].place \in Directories
      /\ \A s \in ToSet(CorpusPaths) : IsFile(InFound(r, s)) /\ InFound(r, s).bytes = Corpus
  BY ReplaysFacts DEF Replays
<1>2. \A s : InFound(r, s)' = InFound(r, s)
  BY Looked DEF InFound
<1>3. Replays(r)'
  BY <1>1, <1>2, Looked DEF Replays
<1> QED
  BY <1>3, Looked, GoesOn

LEMMA LoadManifestDue ==
  ASSUME NEW r \in Runs, Works(r), LoadManifest(r)
  PROVE Due(r)
<1>1. pc[r] = "corpus-manifest" /\ Looks /\ UNCHANGED <<replayed, told>>
  BY DEF LoadManifest, At, NotReplaying, corpusVars
<1>2. IsFile(Entry(place, CorpusManifest)) /\ Entry(place, CorpusManifest).bytes = Corpus
  BY <1>1, ReplaysFacts
<1>3. replayed[r] = 0 /\ request[r].command = "corpus-replay" /\ Derivation(r) /\ Checking(r) /\ Intact(r) /\ Verdict(r) = "0"
  BY <1>1, ReplaysFacts, ChecksCommand DEF Replays, Derivation
<1>4. CASE Misnamed(r)
  <2>1. Exit(r, "2") /\ Outcome(r, found[r]) = Came("2", found[r])
    BY <1>3, <1>4, CheckOutcome DEF LoadManifest, Barred
  <2> QED
    BY <1>1, <1>3, <2>1, Halted
<1>5. CASE ~Misnamed(r)
  <2>1. Goto(r, "replay")
    BY <1>2, <1>5 DEF LoadManifest, Check
  <2>2. pc'[r] = "replay"
    BY <2>1, WorksFacts
  <2> QED
    BY <1>1, <1>3, <2>2, StillReplays
<1> QED
  BY <1>4, <1>5

LEMMA ReplayScenarioDue ==
  ASSUME NEW r \in Runs, Works(r), ReplayScenario(r)
  PROVE Due(r)
<1>1. /\ pc[r] = "replay" /\ replayed[r] \in {0, 1} /\ Looks
      /\ replayed' = [replayed EXCEPT ![r] = replayed[r] + 1]
  BY DEF ReplayScenario, At
<1>2. Reads(ScenarioPath) = Corpus
  BY <1>1, ReplaysFacts DEF Reads
<1>3. Analyzable(Corpus)
  BY SizesDiffer DEF Analyzable
<1>4. replayed[r] = 1 => told[r] = Corpus
  BY <1>1, ReplaysFacts DEF Replays
<1>5. Goto(r, "replay") /\ told' = [told EXCEPT ![r] = Corpus]
  BY <1>2, <1>3, <1>4 DEF ReplayScenario, Check
<1>6. pc'[r] = "replay" /\ told'[r] = Corpus /\ replayed'[r] = replayed[r] + 1
  BY <1>1, <1>5, WorksFacts DEF Arrays
<1>7. replayed'[r] \in {0, 1, 2}
  BY <1>1, <1>6
<1> QED
  BY <1>1, <1>6, <1>7, StillReplays

LEMMA ReplayValidationDue ==
  ASSUME NEW r \in Runs, Works(r), ReplayValidation(r), UNCHANGED managed
  PROVE Due(r)
<1>1. pc[r] = "replay" /\ Looks
  BY DEF ReplayValidation, At
<1>2. Reads(ValidationPath) = Corpus /\ Intact(r) /\ OfCorpus(r)
  BY <1>1, ReplaysFacts DEF Reads
<1>3. Goto(r, "corpus-replay")
  BY <1>2 DEF ReplayValidation, Check
<1>4. pc'[r] = "corpus-replay" /\ Intact(r)' /\ OfCorpus(r)'
  BY <1>1, <1>2, <1>3, WorksFacts, Looked
<1>5. Inspects(r)'
  BY <1>4 DEF Inspects, Derivation
<1> QED
  BY <1>1, <1>4, <1>5, Looked, GoesOn

-----------------------------------------------------------------------------
(* The check of the reports. *)
LEMMA FindReportsDue ==
  ASSUME NEW r \in Runs, Works(r), FindReports(r)
  PROVE Due(r)
BY FindDue DEF FindReports, At, Deriving

LEMMA OpenReportsDue ==
  ASSUME NEW r \in Runs, Works(r), OpenReports(r)
  PROVE Due(r)
<1>1. /\ pc[r] = "reports-open" /\ Looks /\ UNCHANGED managed /\ fd' = [fd EXCEPT ![r] = place]
      /\ Check(r, place \in Directories, "reports-list", "2")
  BY DEF OpenReports, At, Deriving
<1>2. Intact(r) /\ Derivation(r) /\ request[r].valid /\ place \in Directories /\ place = found[r].place
  BY <1>1, InspectsFacts DEF Inspecting
<1>3. pc'[r] = "reports-list" /\ fd'[r] = place
  BY <1>1, <1>2, WorksFacts DEF Check, Arrays
<1>4. Inspects(r)'
  BY <1>1, <1>2, <1>3, Looked DEF Inspects
<1> QED
  BY <1>1, <1>3, <1>4, Looked, GoesOn

LEMMA ListReportsDue ==
  ASSUME NEW r \in Runs, Works(r), ListReports(r)
  PROVE Due(r)
<1>1. pc[r] = "reports-list" /\ Looks /\ UNCHANGED <<managed, fd>> /\ List(r, fd[r]) /\ Goto(r, "reports-entries")
  BY DEF ListReports, At, Deriving
<1>2. fd[r] = place
  BY <1>1, InspectsFacts DEF Inspecting
<1> QED
  BY <1>1, <1>2, ListDue

LEMMA ExamineReportDue ==
  ASSUME NEW r \in Runs, Works(r), ExamineReport(r)
  PROVE Due(r)
<1>1. pc[r] = "reports-entries" /\ Looks /\ UNCHANGED <<managed, fd>>
  BY DEF ExamineReport, At, Deriving
<1>2. PICK e \in listing[r].left : Examine(r, e) /\ Check(r, IsFile(Entry(fd[r], e.name)), "reports-entries", "2")
  BY DEF ExamineReport
<1>3. Intact(r) /\ found[r].place \in Directories /\ place = found[r].place /\ fd[r] = found[r].place
  BY <1>1, InspectsFacts DEF Inspecting
<1>4. Entry(fd[r], e.name) = InFound(r, e.name) /\ ~OfCorpus(r)
  BY <1>1, <1>3, EntriesThere, ChecksCommand
<1>5. Check(r, Passed(r, e.name), "reports-entries", "2")
  BY <1>2, <1>4 DEF Check, Passed
<1> QED
  BY <1>1, <1>2, <1>5, ExamineDue

LEMMA CompareNamesDue ==
  ASSUME NEW r \in Runs, Works(r), CompareNames(r)
  PROVE Due(r)
<1>1. /\ pc[r] = "reports-entries" /\ Looks /\ UNCHANGED <<managed, fd>> /\ AllExamined(r) /\ Rewind(r)
      /\ Check(r, {e.name : e \in listing[r].entries} = ToSet(ReportPaths), "reports-size", "1")
  BY DEF CompareNames, At, Deriving
<1>2. Paths(r) = ReportPaths /\ {e.name : e \in listing[r].entries} = FilesFound(r)
  BY <1>1, ChecksCommand, ListedFiles
<1>3. Check(r, FilesFound(r) = ToSet(Paths(r)), "reports-size", "1")
  BY <1>1, <1>2
<1> QED
  BY <1>1, <1>3, CompareDue

LEMMA SizePageDue ==
  ASSUME NEW r \in Runs, Works(r), SizePage(r)
  PROVE Due(r)
<1> DEFINE s == Paths(r)[number[r] + 1]
<1>1. pc[r] = "reports-size" /\ number[r] # Len(ReportPaths) /\ Looks /\ UNCHANGED <<number, fd, managed>>
  BY DEF SizePage, At, LastPage, walking, Deriving
<1>2. pc[r] \in CollatingPlaces /\ ~OfCorpus(r) /\ Paths(r) = ReportPaths /\ number[r] # Len(Paths(r))
  BY <1>1, ChecksCommand DEF CollatingPlaces
<1>3. IsFile(InFound(r, s)) /\ Entry(fd[r], Page(r)) = InFound(r, s)
  <2>1. Intact(r) /\ found[r].place \in Directories /\ place = found[r].place /\ fd[r] = found[r].place
    BY <1>2, CollatesFacts
  <2> QED
    BY <1>2, <2>1, NextIsThere, EntriesThere DEF Page
<1>4. Check(r, Size(InFound(r, s)) = "right", "reports-read", "1")
  BY <1>3 DEF SizePage, IsFile
<1> QED
  BY <1>1, <1>2, <1>4, SizeDue

LEMMA ReadPageDue ==
  ASSUME NEW r \in Runs, Works(r), ReadPage(r)
  PROVE Due(r)
<1> DEFINE s == Paths(r)[number[r] + 1]
<1>1. pc[r] = "reports-read" /\ Looks /\ UNCHANGED <<managed, fd>> /\ Advance(r)
  BY DEF ReadPage, At, Deriving
<1>2. pc[r] \in CollatingPlaces /\ ~OfCorpus(r) /\ Paths(r) = ReportPaths
  BY <1>1, ChecksCommand DEF CollatingPlaces
<1>3. IsFile(InFound(r, s)) /\ Entry(fd[r], Page(r)) = InFound(r, s) /\ s \in ToSet(Paths(r))
  <2>1. Intact(r) /\ found[r].place \in Directories /\ place = found[r].place /\ fd[r] = found[r].place
    BY <1>2, CollatesFacts
  <2> QED
    BY <1>1, <1>2, <2>1, NextIsThere, EntriesThere DEF Page
<1>4. BytesFor(r)[s] = ReportBytes(managed[r], Page(r))
  BY <1>2, <1>3 DEF BytesFor, ReportsBytes, Page
<1>5. Check(r, InFound(r, s).bytes = BytesFor(r)[s], "reports-size", "1")
  BY <1>3, <1>4 DEF ReadPage
<1> QED
  BY <1>1, <1>5, ReadDue

LEMMA EndOfReportsCheckDue ==
  ASSUME NEW r \in Runs, Works(r), EndOfReportsCheck(r)
  PROVE Due(r)
<1>1. pc[r] = "reports-size" /\ number[r] = Len(ReportPaths) /\ Looks /\ Exit(r, "0")
  BY DEF EndOfReportsCheck, At, LastPage
<1>2. pc[r] \in CollatingPlaces /\ Paths(r) = ReportPaths
  BY <1>1, ChecksCommand DEF CollatingPlaces
<1>3. Intact(r) /\ Derivation(r) /\ Checking(r) /\ Verdict(r) = "0"
  BY <1>1, <1>2, CollatesFacts, AllCollated
<1> QED
  BY <1>1, <1>3, ChecksCommand, CheckEnds DEF Barred, OfCorpus

-----------------------------------------------------------------------------
(* The reports are derived. *)
Current(r) == Len(managed[r]) + 1

LEMMA CurrentScenario ==
  ASSUME NEW r \in Runs, Works(r), pc[r] \in Reading
  PROVE /\ Current(r) \in DOMAIN ScenarioInputs /\ Inputs(r) = ScenarioInputs[Current(r)]
        /\ DOMAIN managed[r] = {j \in DOMAIN ScenarioInputs : j < Current(r)}
        /\ DOMAIN ScenarioInputs \subseteq Nat /\ Len(managed[r]) \in Nat
        /\ Inputs(r) \in Seq(Sources) /\ DOMAIN Inputs(r) = 1..Len(Inputs(r)) /\ Len(Inputs(r)) \in Nat
<1>1. Scenarios(r) /\ managed[r] \in Seq(Entered)
  BY WorksFacts DEF Works, IInv, RunInv, TypeOK, ReadingOK
<1>2. Len(managed[r]) \in Nat /\ DOMAIN managed[r] = 1..Len(managed[r]) /\ Len(managed[r]) < Len(ScenarioInputs)
  BY <1>1, LenProperties DEF Scenarios
<1>3. DOMAIN ScenarioInputs = 1..Len(ScenarioInputs) /\ Len(ScenarioInputs) \in Nat
  BY ScenariosHaveInputs, LenProperties
<1>4. Current(r) \in DOMAIN ScenarioInputs /\ DOMAIN managed[r] = {j \in DOMAIN ScenarioInputs : j < Current(r)}
  BY <1>2, <1>3 DEF Current
<1>5. Inputs(r) = ScenarioInputs[Current(r)]
  BY DEF Inputs, Current
<1>6. ScenarioInputs[Current(r)] \in Seq(Sources)
  BY <1>4, ScenariosHaveInputs, LenProperties
<1>7. DOMAIN Inputs(r) = 1..Len(Inputs(r)) /\ Len(Inputs(r)) \in Nat
  BY <1>5, <1>6, LenProperties
<1>8. DOMAIN ScenarioInputs \subseteq Nat
  BY <1>3
<1> QED
  BY <1>2, <1>4, <1>5, <1>6, <1>7, <1>8

LEMMA DeducesFacts ==
  ASSUME NEW r \in Runs, Works(r), pc[r] \in Reading
  PROVE /\ Intact(r) /\ Faithful(r) /\ tree = found[r].tree /\ links = found[r].links
        /\ request[r].command \in {"reports-generate", "reports-check"}
        /\ \A k \in DOMAIN managed[r] :
             managed[r][k] = Derived(found[r])[k] /\ ScenarioCame(found[r], ScenarioInputs[k]) = "0"
        /\ \A k \in DOMAIN Inputs(r) : pass[r] # "first" \/ k <= number[r] => Legible(found[r], Inputs(r)[k])
        /\ pass[r] = "loaded" => \A k \in 1..number[r] : found[r].tree[Inputs(r)[k]] \in LoadableContents
        /\ pass[r] \in {"again", "last"} => ScenarioCame(found[r], Inputs(r)) = "0"
<1>1. Deduces(r) /\ Tie(r)
  BY WorksFacts DEF Works, Lone, Tied
<1>2. Intact(r)
  BY <1>1 DEF Deduces
<1>3. tree = found[r].tree /\ links = found[r].links
  BY <1>2, Seen
<1>4. request[r].command \in {"reports-generate", "reports-check"}
  BY <1>1 DEF Tie, Reading
<1> QED
  BY <1>1, <1>2, <1>3, <1>4 DEF Deduces

LEMMA ReadingFacts ==
  ASSUME NEW r \in Runs, Works(r), pc[r] \in Reading
  PROVE /\ number[r] \in Nat /\ number[r] <= Len(Inputs(r))
        /\ opened[r] # Absent => number[r] < Len(Inputs(r)) /\ opened[r] = Input(r)
        /\ pc[r] = "load" <=> pass[r] = "loaded"
        /\ pass[r] \in Passes /\ opened[r] \in Sources \cup {Absent} /\ taken \in [Runs -> [Passes -> Copies]]
        /\ \A k \in 1..number[r] : Has(r, pass[r], Inputs(r)[k])
        /\ pass[r] # "first" => \A k \in DOMAIN Inputs(r) : Has(r, "first", Inputs(r)[k])
        /\ pass[r] \in {"again", "last"} => \A k \in DOMAIN Inputs(r) : Has(r, "loaded", Inputs(r)[k])
<1>1. Scenarios(r) /\ TypeOK
  BY WorksFacts DEF Works, IInv, RunInv
<1> QED
  BY <1>1 DEF Scenarios, TypeOK, ReadingOK, ControlOK

\* The first scenario that cannot be derived decides.
LEMMA ScenarioDecides ==
  ASSUME NEW r \in Runs, Works(r), pc[r] \in Reading, ScenarioCame(found[r], Inputs(r)) # "0"
  PROVE Outcome(r, found[r]) = Came(ScenarioCame(found[r], Inputs(r)), found[r])
<1> DEFINE bad == Bad(found[r])
           first == CHOOSE k \in bad : \A j \in bad : k <= j
<1>1. Current(r) \in bad
  BY CurrentScenario DEF Bad
<1>2. \A j \in bad : j \in Nat /\ Current(r) <= j
  <2>1. ASSUME NEW j \in bad PROVE j \in Nat /\ Current(r) <= j
    <3>1. j \in DOMAIN ScenarioInputs /\ ScenarioCame(found[r], ScenarioInputs[j]) # "0"
      BY DEF Bad
    <3>2. j \notin DOMAIN managed[r]
      BY <3>1, DeducesFacts
    <3>3. j \in Nat /\ Current(r) \in Nat /\ ~(j < Current(r))
      BY <3>1, <3>2, CurrentScenario
    <3> QED
      BY <3>3
  <2> QED
    BY <2>1
<1>3. first \in bad /\ \A j \in bad : first <= j
  BY <1>1, <1>2
<1>4. first = Current(r)
  BY <1>1, <1>2, <1>3
<1>5. bad # {}
  BY <1>1
<1>6. ReportsCame(r, found[r]) = Came(ScenarioCame(found[r], ScenarioInputs[first]), found[r])
  BY <1>5 DEF ReportsCame
<1>7. Outcome(r, found[r]) = ReportsCame(r, found[r])
  BY DeducesFacts DEF Outcome
<1> QED
  BY <1>4, <1>6, <1>7, CurrentScenario

LEMMA ScenarioEnds ==
  ASSUME NEW r \in Runs, Works(r), pc[r] \in Reading, Looks, NEW e, Exit(r, e), ScenarioCame(found[r], Inputs(r)) = e, e # "0"
  PROVE Due(r)
BY ScenarioDecides, DeducesFacts, Halted

\* The scenario goes on.
LEMMA StillDeduces ==
  ASSUME NEW r \in Runs, Works(r), pc[r] \in Reading, Looks, UNCHANGED managed, pc'[r] \in Reading,
         Faithful(r)',
         \A k \in DOMAIN Inputs(r) : pass'[r] # "first" \/ k <= number'[r] => Legible(found[r], Inputs(r)[k]),
         pass'[r] = "loaded" => \A k \in 1..number'[r] : found[r].tree[Inputs(r)[k]] \in LoadableContents,
         pass'[r] \in {"again", "last"} => ScenarioCame(found[r], Inputs(r)) = "0"
  PROVE Due(r)
<1>1. Inputs(r)' = Inputs(r) /\ found' = found
  BY Looked DEF Inputs
<1>2. \A k \in DOMAIN managed[r] : managed[r][k] = Derived(found[r])[k] /\ ScenarioCame(found[r], ScenarioInputs[k]) = "0"
  BY DeducesFacts
<1>3. Intact(r)'
  BY DeducesFacts, Looked
<1>4. Deduces(r)'
  BY <1>1, <1>2, <1>3 DEF Deduces
<1> QED
  BY <1>4, Looked, GoesOn DEF Reading

\* All inputs are legible and can be loaded, or not.
LEMMA ScenarioIs ==
  ASSUME NEW w, NEW inputs
  PROVE /\ (\E k \in DOMAIN inputs : ~Legible(w, inputs[k]) \/ w.tree[inputs[k]] \notin LoadableContents) => ScenarioCame(w, inputs) = "2"
        /\ (\A k \in DOMAIN inputs : Legible(w, inputs[k]) /\ w.tree[inputs[k]] \in LoadableContents) =>
             ScenarioCame(w, inputs) = IF \E k \in DOMAIN inputs : w.tree[inputs[k]] \notin ExpectedContents THEN "1" ELSE "0"
<1>1. \A f : f \in ToSet(inputs) <=> \E k \in DOMAIN inputs : inputs[k] = f
  BY DEF ToSet
<1>2. Nothing \notin LoadableContents
  <2>1. Nothing \notin Contents
    <3>1. PICK b \in Blocks : TRUE
      BY FilesHaveBlocks
    <3>2. Nothing[b] = Absent
      BY DEF Nothing
    <3> QED
      BY <3>1, <3>2, AbsentIsNoValue DEF Contents
  <2> QED
    BY <2>1, NothingCannotBeLoaded
<1>3. ASSUME NEW k \in DOMAIN inputs, ~Legible(w, inputs[k]) \/ w.tree[inputs[k]] \notin LoadableContents
      PROVE ScenarioCame(w, inputs) = "2"
  BY <1>1, <1>2, <1>3 DEF ScenarioCame, Legible
<1>4. ASSUME \A k \in DOMAIN inputs : Legible(w, inputs[k]) /\ w.tree[inputs[k]] \in LoadableContents
      PROVE ScenarioCame(w, inputs) = IF \E k \in DOMAIN inputs : w.tree[inputs[k]] \notin ExpectedContents THEN "1" ELSE "0"
  <2>1. ~\E f \in ToSet(inputs) : f \in w.links \/ w.tree[f] \notin LoadableContents
    BY <1>1, <1>4 DEF Legible
  <2>2. (\E f \in ToSet(inputs) : w.tree[f] \notin ExpectedContents) <=> (\E k \in DOMAIN inputs : w.tree[inputs[k]] \notin ExpectedContents)
    BY <1>1
  <2> QED
    BY <2>1, <2>2 DEF ScenarioCame
<1> QED
  BY <1>3, <1>4

\* A source that is opened, and one that is read.
LEMMA OpenedIsFaithful ==
  ASSUME NEW r \in Runs, Arrays, Intact(r), Faithful(r), NEW f, OpenSource(r, f)
  PROVE Faithful(r)' /\ opened'[r] = f
<1>1. /\ opened' = [opened EXCEPT ![r] = f] /\ seen' = [seen EXCEPT ![r] = {tree[f]}]
      /\ f \notin links /\ tree[f] # Nothing /\ UNCHANGED <<taken, found>>
  BY DEF OpenSource, Looks, Readable, history
<1>2. opened'[r] = f /\ seen'[r] = {tree[f]}
  BY <1>1 DEF Arrays
<1>3. found[r].tree = tree /\ found[r].links = links
  BY Seen
<1> QED
  BY <1>1, <1>2, <1>3 DEF Faithful, Has

LEMMA TakenIsFaithful ==
  ASSUME NEW r \in Runs, Works(r), Faithful(r), TakeSource(r)
  PROVE /\ Faithful(r)' /\ opened[r] # Absent /\ opened'[r] = Absent /\ Legible(found[r], opened[r])
        /\ number'[r] = number[r] + 1
<1>1. /\ opened[r] # Absent /\ opened' = [opened EXCEPT ![r] = Absent] /\ Advance(r) /\ UNCHANGED found
      /\ \E c \in Mixtures(seen[r]) : taken' = [taken EXCEPT ![r][pass[r]][opened[r]] = c]
  BY DEF TakeSource, Looks, history
<1>2. PICK c \in Mixtures(seen[r]) : taken' = [taken EXCEPT ![r][pass[r]][opened[r]] = c]
  BY <1>1
<1>3. /\ opened[r] \in Sources /\ pass[r] \in Passes /\ taken \in [Runs -> [Passes -> Copies]] /\ seen[r] \subseteq Contents
  BY <1>1, WorksFacts DEF TypeOK, ReadingOK
<1>4. opened[r] \notin found[r].links /\ seen[r] = {found[r].tree[opened[r]]} /\ found[r].tree[opened[r]] # Nothing
  BY <1>1 DEF Faithful
<1>5. c = found[r].tree[opened[r]] /\ c \in Bytes
  <2>1. PICK d : d = found[r].tree[opened[r]]
    OBVIOUS
  <2>2. c \in Contents /\ d \in Contents /\ \A b \in Blocks : c[b] = d[b]
    BY <1>3, <1>4, <2>1 DEF Mixtures
  <2>3. c = d
    BY <2>2 DEF Contents
  <2> QED
    BY <2>1, <2>2, <2>3 DEF Bytes
<1>6. /\ \A o \in Passes, g \in Sources : (o # pass[r] \/ g # opened[r]) => taken'[r][o][g] = taken[r][o][g]
      /\ taken'[r][pass[r]][opened[r]] = c
  <2>1. Takes(r, pass[r], opened[r], c)
    BY <1>2 DEF Takes
  <2> QED
    BY <1>3, <1>5, <2>1, NowTaken
<1>7. opened'[r] = Absent /\ number'[r] = number[r] + 1
  BY <1>1, WorksFacts DEF Arrays, Advance
<1>8. \A p \in Passes, g \in Sources : Has(r, p, g)' => taken'[r][p][g] = found[r].tree[g]
  BY <1>5, <1>6 DEF Faithful, Has
<1>9. Faithful(r)'
  BY <1>1, <1>7, <1>8 DEF Faithful
<1> QED
  BY <1>1, <1>4, <1>7, <1>9 DEF Legible

\* Nothing is read.
LEMMA StaysFaithful ==
  ASSUME NEW r \in Runs, Faithful(r), UNCHANGED <<opened, seen, taken, found>>
  PROVE Faithful(r)'
BY DEF Faithful, Has

LEMMA BeginReportsDue ==
  ASSUME NEW r \in Runs, Works(r), BeginReports(r)
  PROVE Due(r)
<1>1. /\ pc[r] \in {"reports-generate", "reports-check"} /\ Looks /\ Goto(r, "source-entries")
      /\ UNCHANGED <<managed, number, pass, opened, seen, taken>>
  BY DEF BeginReports, Derives, At, ReadsNothing, Deriving, collecting, walking
<1>2. /\ pass[r] = "first" /\ number[r] = 0 /\ taken[r] = AllUnread /\ managed[r] = <<>>
      /\ opened[r] # Absent => pc[r] = "version"
  <2>1. BeforeAll(r)
    BY DEF Works, IInv, RunInv
  <2> QED
    BY <1>1, <2>1 DEF BeforeAll, Fresh
<1>3. pc'[r] = "source-entries" /\ Intact(r)'
  BY <1>1, WorksFacts, Looked DEF Works, Lone, Deduces
<1>4. Faithful(r)'
  BY <1>1, <1>2 DEF Faithful, Has, AllUnread
<1>5. DOMAIN managed'[r] = {}
  BY <1>1, <1>2
<1>6. pass'[r] = "first" /\ number'[r] = 0
  BY <1>1, <1>2
<1>7. \A k \in DOMAIN Inputs(r)' : ~(k <= number'[r])
  <2>1. Inputs(r)' = ScenarioInputs[1]
    BY <1>1, <1>2 DEF Inputs
  <2>2. 1 \in DOMAIN ScenarioInputs
    BY SomeScenario, ScenariosHaveInputs, LenProperties
  <2>3. ScenarioInputs[1] \in Seq(Sources)
    BY <2>2, ScenariosHaveInputs, LenProperties
  <2>4. DOMAIN Inputs(r)' = 1..Len(ScenarioInputs[1])
    BY <2>1, <2>3, LenProperties
  <2> QED
    BY <1>6, <2>4
<1>8. Deduces(r)'
  BY <1>3, <1>4, <1>5, <1>6, <1>7 DEF Deduces
<1> QED
  BY <1>1, <1>3, <1>8, Looked, GoesOn

LEMMA ReadInputDue ==
  ASSUME NEW r \in Runs, Works(r), ReadInput(r)
  PROVE Due(r)
<1>1. OpenSource(r, Input(r)) \/ RefuseSource(r, Input(r)) \/ TakeSource(r)
  BY DEF ReadInput
<1>2. pc[r] = "source-entries" /\ (opened[r] # Absent \/ number[r] # Len(Inputs(r))) /\ UNCHANGED managed
  BY DEF ReadInput, At, LastInput, Deriving
<1>3. pc[r] \in Reading /\ pass[r] # "loaded"
  BY <1>2, ReadingFacts DEF Reading
<1>4. /\ Intact(r) /\ Faithful(r) /\ tree = found[r].tree /\ links = found[r].links
      /\ \A k \in DOMAIN Inputs(r) : pass[r] # "first" \/ k <= number[r] => Legible(found[r], Inputs(r)[k])
      /\ pass[r] \in {"again", "last"} => ScenarioCame(found[r], Inputs(r)) = "0"
  BY <1>3, DeducesFacts
<1>5. number[r] < Len(Inputs(r)) /\ number[r] + 1 \in DOMAIN Inputs(r) /\ number[r] \in Nat
  <2>1. /\ number[r] \in Nat /\ number[r] <= Len(Inputs(r)) /\ (opened[r] # Absent => number[r] < Len(Inputs(r)))
        /\ Len(Inputs(r)) \in Nat /\ DOMAIN Inputs(r) = 1..Len(Inputs(r))
    BY <1>3, ReadingFacts, CurrentScenario
  <2> QED
    BY <1>2, <2>1
<1>6. CASE OpenSource(r, Input(r))
  <2>1. Looks /\ UNCHANGED <<control, walking, pass>>
    BY <1>6 DEF OpenSource
  <2>2. Faithful(r)'
    BY <1>4, <1>6, WorksFacts, OpenedIsFaithful
  <2>3. pc'[r] = pc[r] /\ pass'[r] = pass[r] /\ number'[r] = number[r]
    BY <2>1 DEF control, walking
  <2> QED
    BY <1>2, <1>3, <1>4, <2>1, <2>2, <2>3, StillDeduces
<1>7. CASE RefuseSource(r, Input(r))
  <2>1. Looks /\ Exit(r, "2") /\ ~Legible(found[r], Inputs(r)[number[r] + 1])
    BY <1>4, <1>7 DEF RefuseSource, Readable, Legible, Input
  <2>2. ScenarioCame(found[r], Inputs(r)) = "2"
    BY <1>5, <2>1, ScenarioIs
  <2> QED
    BY <1>3, <2>1, <2>2, ScenarioEnds
<1>8. CASE TakeSource(r)
  <2>1. Looks /\ UNCHANGED <<control, pass>>
    BY <1>8 DEF TakeSource
  <2>2. /\ Faithful(r)' /\ opened[r] # Absent /\ Legible(found[r], opened[r]) /\ number'[r] = number[r] + 1
    BY <1>4, <1>8, TakenIsFaithful
  <2>3. opened[r] = Inputs(r)[number[r] + 1]
    BY <1>3, <2>2, ReadingFacts DEF Input
  <2>4. pc'[r] = pc[r] /\ pass'[r] = pass[r]
    BY <2>1 DEF control
  <2>5. ASSUME NEW k \in DOMAIN Inputs(r), pass'[r] # "first" \/ k <= number'[r] PROVE Legible(found[r], Inputs(r)[k])
    <3>1. k \in Nat
      BY <1>3, CurrentScenario
    <3>2. pass[r] # "first" \/ k <= number[r] \/ k = number[r] + 1
      BY <1>5, <2>2, <2>4, <2>5, <3>1
    <3> QED
      BY <1>4, <2>2, <2>3, <3>2
  <2> QED
    BY <1>2, <1>3, <1>4, <2>1, <2>2, <2>4, <2>5, StillDeduces
<1> QED
  BY <1>1, <1>6, <1>7, <1>8

\* What was read of an input is what it holds.
LEMMA ToldIs ==
  ASSUME NEW r \in Runs, Works(r), pc[r] \in Reading, NEW p \in Passes, \A k \in DOMAIN Inputs(r) : Has(r, p, Inputs(r)[k])
  PROVE Told(r, p) = [k \in DOMAIN Inputs(r) |-> found[r].tree[Inputs(r)[k]]]
<1>1. Faithful(r) /\ Inputs(r) \in Seq(Sources)
  BY DeducesFacts, CurrentScenario
<1>2. \A k \in DOMAIN Inputs(r) : Inputs(r)[k] \in Sources
  BY <1>1, LenProperties
<1>3. \A k \in DOMAIN Inputs(r) : taken[r][p][Inputs(r)[k]] = found[r].tree[Inputs(r)[k]]
  BY <1>1, <1>2 DEF Faithful
<1> QED
  BY <1>3 DEF Told

\* A pass has come to its end.
LEMMA PassEnds ==
  ASSUME NEW r \in Runs, Works(r), pc[r] \in Reading, number[r] = Len(Inputs(r))
  PROVE /\ \A k \in DOMAIN Inputs(r) : k <= number[r] /\ Has(r, pass[r], Inputs(r)[k]) /\ Legible(found[r], Inputs(r)[k])
        /\ Told(r, pass[r]) = [k \in DOMAIN Inputs(r) |-> found[r].tree[Inputs(r)[k]]]
<1>1. DOMAIN Inputs(r) = 1..number[r]
  BY CurrentScenario
<1>2. \A k \in DOMAIN Inputs(r) : k <= number[r] /\ Has(r, pass[r], Inputs(r)[k])
  BY <1>1, ReadingFacts
<1>3. \A k \in DOMAIN Inputs(r) : Legible(found[r], Inputs(r)[k])
  BY <1>2, DeducesFacts
<1>4. pass[r] \in Passes
  BY ReadingFacts
<1> QED
  BY <1>2, <1>3, <1>4, ToldIs

LEMMA EndOfBeforeDue ==
  ASSUME NEW r \in Runs, Works(r), EndOfBefore(r)
  PROVE Due(r)
<1>1. /\ pc[r] = "source-entries" /\ number[r] = Len(Inputs(r)) /\ UNCHANGED managed /\ Looks /\ Goto(r, "load") /\ Rewind(r)
      /\ pass' = [pass EXCEPT ![r] = "loaded"] /\ UNCHANGED <<opened, seen, taken>>
  BY DEF EndOfBefore, At, LastInput, Deriving, EndOfFirstPass
<1>2. pc[r] \in Reading
  BY <1>1 DEF Reading
<1>3. pc'[r] = "load" /\ pass'[r] = "loaded" /\ number'[r] = 0
  BY <1>1, WorksFacts DEF Arrays, Rewind
<1>4. Faithful(r)'
  BY <1>1, <1>2, DeducesFacts, Looked, StaysFaithful
<1>5. \A k \in DOMAIN Inputs(r) : Legible(found[r], Inputs(r)[k])
  BY <1>1, <1>2, PassEnds
<1>6. 1..number'[r] = {} /\ pc'[r] \in Reading
  BY <1>3 DEF Reading
<1> QED
  BY <1>1, <1>2, <1>3, <1>4, <1>5, <1>6, StillDeduces

LEMMA OpenLoadedDue ==
  ASSUME NEW r \in Runs, Works(r), OpenLoaded(r)
  PROVE Due(r)
<1>1. pc[r] = "load" /\ number[r] # Len(Inputs(r)) /\ UNCHANGED managed /\ (OpenSource(r, Input(r)) \/ RefuseSource(r, Input(r)))
  BY DEF OpenLoaded, At, LastInput, Deriving
<1>2. pc[r] \in Reading /\ pass[r] = "loaded"
  BY <1>1, ReadingFacts DEF Reading
<1>3. /\ Intact(r) /\ Faithful(r) /\ tree = found[r].tree /\ links = found[r].links
      /\ \A k \in DOMAIN Inputs(r) : Legible(found[r], Inputs(r)[k])
      /\ \A k \in 1..number[r] : found[r].tree[Inputs(r)[k]] \in LoadableContents
  BY <1>2, DeducesFacts
<1>4. number[r] + 1 \in DOMAIN Inputs(r)
  <2>1. /\ number[r] \in Nat /\ number[r] <= Len(Inputs(r)) /\ Len(Inputs(r)) \in Nat /\ DOMAIN Inputs(r) = 1..Len(Inputs(r))
    BY <1>2, ReadingFacts, CurrentScenario
  <2> QED
    BY <1>1, <2>1
<1>5. Legible(found[r], Input(r))
  BY <1>3, <1>4 DEF Input
<1>6. OpenSource(r, Input(r))
  BY <1>1, <1>3, <1>5 DEF RefuseSource, Readable, Legible
<1>7. Looks /\ UNCHANGED <<control, walking, pass>>
  BY <1>6 DEF OpenSource
<1>8. Faithful(r)'
  BY <1>3, <1>6, WorksFacts, OpenedIsFaithful
<1>9. pc'[r] = pc[r] /\ pass'[r] = pass[r] /\ number'[r] = number[r]
  BY <1>7 DEF control, walking
<1> QED
  BY <1>1, <1>2, <1>3, <1>7, <1>8, <1>9, StillDeduces

LEMMA LoadInputDue ==
  ASSUME NEW r \in Runs, Works(r), LoadInput(r)
  PROVE Due(r)
<1>1. /\ pc[r] = "load" /\ opened[r] # Absent /\ UNCHANGED <<managed, pass>> /\ Looks /\ Advance(r)
      /\ opened' = [opened EXCEPT ![r] = Absent]
  BY DEF LoadInput, At, Deriving
<1>2. pc[r] \in Reading /\ pass[r] = "loaded"
  BY <1>1, ReadingFacts DEF Reading
<1>3. /\ Faithful(r) /\ tree = found[r].tree
      /\ \A k \in DOMAIN Inputs(r) : Legible(found[r], Inputs(r)[k])
      /\ \A k \in 1..number[r] : found[r].tree[Inputs(r)[k]] \in LoadableContents
  BY <1>2, DeducesFacts
<1>4. /\ number[r] \in Nat /\ number[r] + 1 \in DOMAIN Inputs(r) /\ opened[r] = Inputs(r)[number[r] + 1]
      /\ opened[r] \in Sources /\ taken \in [Runs -> [Passes -> Copies]]
  <2>1. /\ number[r] \in Nat /\ number[r] < Len(Inputs(r)) /\ Len(Inputs(r)) \in Nat /\ DOMAIN Inputs(r) = 1..Len(Inputs(r))
        /\ opened[r] = Input(r) /\ opened[r] \in Sources \cup {Absent} /\ taken \in [Runs -> [Passes -> Copies]]
    BY <1>1, <1>2, ReadingFacts, CurrentScenario
  <2> QED
    BY <1>1, <2>1 DEF Input
<1>5. seen[r] = {tree[opened[r]]}
  BY <1>1, <1>3 DEF Faithful
<1>6. opened'[r] = Absent /\ number'[r] = number[r] + 1
  BY <1>1, WorksFacts DEF Arrays, Advance
<1>7. CASE tree[opened[r]] \in LoadableContents
  <2>1. UNCHANGED control /\ taken' = [taken EXCEPT ![r].loaded[opened[r]] = tree[opened[r]]]
    BY <1>5, <1>7 DEF LoadInput
  <2>2. pc'[r] = pc[r] /\ pass'[r] = pass[r]
    BY <1>1, <2>1 DEF control
  <2>3. Faithful(r)'
    <3>1. tree[opened[r]] \in Bytes /\ "loaded" \in Passes
      BY <1>4, WorksFacts DEF TypeOK, TreeOK, Passes
    <3>2. Takes(r, "loaded", opened[r], tree[opened[r]])
      BY <2>1 DEF Takes
    <3>3. /\ \A o \in Passes, g \in Sources : (o # "loaded" \/ g # opened[r]) => taken'[r][o][g] = taken[r][o][g]
          /\ taken'[r]["loaded"][opened[r]] = tree[opened[r]]
      BY <1>4, <3>1, <3>2, NowTaken
    <3>4. \A p \in Passes, g \in Sources : Has(r, p, g)' => taken'[r][p][g] = found[r].tree[g]
      BY <1>3, <3>3 DEF Faithful, Has
    <3> QED
      BY <1>1, <1>6, <3>4, Looked DEF Faithful
  <2>4. \A k \in 1..number'[r] : found[r].tree[Inputs(r)[k]] \in LoadableContents
    <3>1. \A k \in 1..number'[r] : k \in 1..number[r] \/ k = number[r] + 1
      BY <1>4, <1>6
    <3> QED
      BY <1>3, <1>4, <1>7, <3>1
  <2> QED
    BY <1>1, <1>2, <1>3, <2>2, <2>3, <2>4, StillDeduces
<1>8. CASE tree[opened[r]] \notin LoadableContents
  <2>1. Exit(r, "2")
    BY <1>8 DEF LoadInput
  <2>2. ScenarioCame(found[r], Inputs(r)) = "2"
    BY <1>3, <1>4, <1>8, ScenarioIs
  <2> QED
    BY <1>1, <1>2, <2>1, <2>2, ScenarioEnds
<1> QED
  BY <1>7, <1>8

LEMMA EvaluateDue ==
  ASSUME NEW r \in Runs, Works(r), Evaluate(r)
  PROVE Due(r)
<1>1. /\ pc[r] = "load" /\ number[r] = Len(Inputs(r)) /\ UNCHANGED <<managed, opened, seen, taken>> /\ Looks /\ Rewind(r)
      /\ pass' = [pass EXCEPT ![r] = "again"]
      /\ Check(r, ToSet(Told(r, "loaded")) \subseteq ExpectedContents, "source-entries", "1")
  BY DEF Evaluate, At, LastInput, Deriving
<1>2. pc[r] \in Reading /\ pass[r] = "loaded"
  BY <1>1, ReadingFacts DEF Reading
<1>3. /\ \A k \in DOMAIN Inputs(r) : k <= number[r] /\ Legible(found[r], Inputs(r)[k])
      /\ Told(r, "loaded") = [k \in DOMAIN Inputs(r) |-> found[r].tree[Inputs(r)[k]]]
  BY <1>1, <1>2, PassEnds
<1>4. \A k \in DOMAIN Inputs(r) : found[r].tree[Inputs(r)[k]] \in LoadableContents
  <2>1. DOMAIN Inputs(r) = 1..number[r]
    BY <1>1, <1>2, CurrentScenario
  <2> QED
    BY <1>2, <2>1, DeducesFacts
<1>5. ScenarioCame(found[r], Inputs(r)) =
        IF \E k \in DOMAIN Inputs(r) : found[r].tree[Inputs(r)[k]] \notin ExpectedContents THEN "1" ELSE "0"
  BY <1>3, <1>4, ScenarioIs
<1>6. ToSet(Told(r, "loaded")) \subseteq ExpectedContents <=>
        ~\E k \in DOMAIN Inputs(r) : found[r].tree[Inputs(r)[k]] \notin ExpectedContents
  BY <1>3 DEF ToSet
<1>7. CASE ToSet(Told(r, "loaded")) \subseteq ExpectedContents
  <2>1. pc'[r] = "source-entries" /\ pass'[r] = "again"
    BY <1>1, <1>7, WorksFacts DEF Check, Arrays
  <2>2. ScenarioCame(found[r], Inputs(r)) = "0"
    BY <1>5, <1>6, <1>7
  <2>3. Faithful(r)'
    BY <1>1, <1>2, DeducesFacts, Looked, StaysFaithful
  <2>4. pc'[r] \in Reading
    BY <2>1 DEF Reading
  <2> QED
    BY <1>1, <1>2, <1>3, <2>1, <2>2, <2>3, <2>4, StillDeduces
<1>8. CASE ~(ToSet(Told(r, "loaded")) \subseteq ExpectedContents)
  <2>1. Exit(r, "1") /\ ScenarioCame(found[r], Inputs(r)) = "1"
    BY <1>1, <1>5, <1>6, <1>8 DEF Check
  <2> QED
    BY <1>1, <1>2, <2>1, ScenarioEnds
<1> QED
  BY <1>7, <1>8

\* In the last passes the inputs are what they were when they were loaded.
LEMMA LaterPassEnds ==
  ASSUME NEW r \in Runs, Works(r), pc[r] = "source-entries", number[r] = Len(Inputs(r)), pass[r] \in {"again", "last"}
  PROVE /\ Told(r, pass[r]) = Told(r, "loaded") /\ Told(r, pass[r]) = Told(r, "first")
        /\ Told(r, "first") = [k \in DOMAIN Inputs(r) |-> found[r].tree[Inputs(r)[k]]]
        /\ Told(r, "loaded") = [k \in DOMAIN Inputs(r) |-> found[r].tree[Inputs(r)[k]]]
        /\ ScenarioCame(found[r], Inputs(r)) = "0"
        /\ \A k \in DOMAIN Inputs(r) : Legible(found[r], Inputs(r)[k])
<1>1. pc[r] \in Reading
  BY DEF Reading
<1>2. /\ \A k \in DOMAIN Inputs(r) : Has(r, "first", Inputs(r)[k])
      /\ \A k \in DOMAIN Inputs(r) : Has(r, "loaded", Inputs(r)[k])
  BY <1>1, ReadingFacts
<1>3. "first" \in Passes /\ "loaded" \in Passes
  BY DEF Passes
<1>4. /\ Told(r, "first") = [k \in DOMAIN Inputs(r) |-> found[r].tree[Inputs(r)[k]]]
      /\ Told(r, "loaded") = [k \in DOMAIN Inputs(r) |-> found[r].tree[Inputs(r)[k]]]
  BY <1>1, <1>2, <1>3, ToldIs
<1>5. Told(r, pass[r]) = [k \in DOMAIN Inputs(r) |-> found[r].tree[Inputs(r)[k]]] /\ \A k \in DOMAIN Inputs(r) : Legible(found[r], Inputs(r)[k])
  BY <1>1, PassEnds
<1>6. ScenarioCame(found[r], Inputs(r)) = "0"
  BY <1>1, DeducesFacts
<1> QED
  BY <1>4, <1>5, <1>6

LEMMA CompareProvenanceDue ==
  ASSUME NEW r \in Runs, Works(r), CompareProvenance(r)
  PROVE Due(r)
<1>1. /\ pc[r] = "source-entries" /\ pass[r] = "again" /\ number[r] = Len(Inputs(r)) /\ UNCHANGED <<managed, opened, seen, taken>>
      /\ Looks /\ Rewind(r) /\ pass' = [pass EXCEPT ![r] = "last"]
      /\ Check(r, Told(r, "again") = Told(r, "loaded"), "source-entries", "1")
  BY DEF CompareProvenance, At, LastInput, Deriving
<1>2. pc[r] \in Reading
  BY <1>1 DEF Reading
<1>3. /\ Told(r, "again") = Told(r, "loaded") /\ ScenarioCame(found[r], Inputs(r)) = "0"
      /\ \A k \in DOMAIN Inputs(r) : Legible(found[r], Inputs(r)[k])
  BY <1>1, LaterPassEnds
<1>4. pc'[r] = "source-entries" /\ pass'[r] = "last" /\ pc'[r] \in Reading
  BY <1>1, <1>2, <1>3, WorksFacts DEF Check, Arrays
<1>5. Faithful(r)'
  BY <1>1, <1>2, DeducesFacts, Looked, StaysFaithful
<1> QED
  BY <1>1, <1>2, <1>3, <1>4, <1>5, StillDeduces

LEMMA CompareEntriesDue ==
  ASSUME NEW r \in Runs, Works(r), CompareEntries(r)
  PROVE Due(r)
<1>1. pc[r] = "source-entries" /\ pass[r] = "last" /\ number[r] = Len(Inputs(r)) /\ Told(r, "first") # Told(r, "last")
  BY DEF CompareEntries, EntriesRead, At, LastInput
<1> QED
  BY <1>1, LaterPassEnds

\* One more scenario is derived.
LEMMA ScenarioDerived ==
  ASSUME NEW r \in Runs, Works(r), EndOfScenario(r)
  PROVE /\ managed'[r] \in Seq([inputs : Seq(Bytes), report : Seq(Bytes)] \cup Entered) /\ Len(managed'[r]) = Current(r)
        /\ \A k \in DOMAIN managed'[r] : managed'[r][k] = Derived(found[r])[k] /\ ScenarioCame(found[r], ScenarioInputs[k]) = "0"
<1> DEFINE copies == [k \in DOMAIN Inputs(r) |-> found[r].tree[Inputs(r)[k]]]
           entry == [inputs |-> copies, report |-> copies]
<1>1. /\ pc[r] = "source-entries" /\ pass[r] = "last" /\ number[r] = Len(Inputs(r))
      /\ managed' = [managed EXCEPT ![r] = Append(managed[r], [inputs |-> Told(r, "first"), report |-> Told(r, "loaded")])]
  BY DEF EndOfScenario, EntriesRead, At, LastInput
<1>2. pc[r] \in Reading
  BY <1>1 DEF Reading
<1>3. Told(r, "first") = copies /\ Told(r, "loaded") = copies /\ ScenarioCame(found[r], Inputs(r)) = "0"
  BY <1>1, LaterPassEnds
<1>4. managed'[r] = Append(managed[r], entry) /\ managed[r] \in Seq(Entered)
  BY <1>1, <1>3, WorksFacts DEF Arrays, TypeOK, ReadingOK
<1>5. /\ Current(r) \in DOMAIN ScenarioInputs /\ Inputs(r) = ScenarioInputs[Current(r)]
      /\ Inputs(r) \in Seq(Sources) /\ DOMAIN Inputs(r) = 1..Len(Inputs(r)) /\ Len(Inputs(r)) \in Nat
  BY <1>2, CurrentScenario
<1>6. entry = Derived(found[r])[Current(r)]
  BY <1>5 DEF Derived
<1>7. entry \in [inputs : Seq(Bytes), report : Seq(Bytes)]
  <2>1. found[r].tree \in [Sources -> Bytes] /\ \A k \in DOMAIN Inputs(r) : Inputs(r)[k] \in Sources
    <3>1. SoundWorld(found[r])
      BY WorksFacts
    <3>2. found[r].tree \in [Sources -> Bytes]
      BY <3>1 DEF SoundWorld
    <3> QED
      BY <1>5, <3>2, LenProperties
  <2>2. copies \in [1..Len(Inputs(r)) -> Bytes]
    BY <1>5, <2>1
  <2>3. copies \in Seq(Bytes)
    BY <1>5, <2>2, IsASeq
  <2> QED
    BY <2>3
<1> HIDE DEF entry
<1>8. /\ managed'[r] \in Seq([inputs : Seq(Bytes), report : Seq(Bytes)] \cup Entered) /\ Len(managed'[r]) = Current(r)
      /\ \A k \in 1..Len(managed[r]) : managed'[r][k] = managed[r][k]
      /\ managed'[r][Current(r)] = entry
  <2> DEFINE S == [inputs : Seq(Bytes), report : Seq(Bytes)] \cup Entered
  <2>1. entry \in S /\ managed[r] \in Seq(S)
    BY <1>4, <1>7, SeqMonotonic
  <2> HIDE DEF S
  <2>2. /\ Append(managed[r], entry) \in Seq(S) /\ Len(Append(managed[r], entry)) = Len(managed[r]) + 1
        /\ \A k \in 1..Len(managed[r]) : Append(managed[r], entry)[k] = managed[r][k]
        /\ Append(managed[r], entry)[Len(managed[r]) + 1] = entry
    BY <2>1, AppendProperties
  <2> QED
    BY <1>4, <2>2 DEF S, Current
<1>9. ASSUME NEW k \in DOMAIN managed'[r]
      PROVE managed'[r][k] = Derived(found[r])[k] /\ ScenarioCame(found[r], ScenarioInputs[k]) = "0"
  <2>1. DOMAIN managed'[r] = 1..Current(r) /\ Current(r) = Len(managed[r]) + 1 /\ Len(managed[r]) \in Nat
    BY <1>2, <1>8, CurrentScenario, LenProperties DEF Current
  <2>2. k \in 1..Len(managed[r]) \/ k = Current(r)
    BY <2>1
  <2>3. CASE k \in 1..Len(managed[r])
    <3>1. k \in DOMAIN managed[r]
      BY <1>4, <2>3, LenProperties
    <3> QED
      BY <1>2, <1>8, <2>3, <3>1, DeducesFacts
  <2>4. CASE k = Current(r)
    BY <1>3, <1>5, <1>6, <1>8, <2>4
  <2> QED
    BY <2>2, <2>3, <2>4
<1> QED
  BY <1>8, <1>9

LEMMA EndOfScenarioDue ==
  ASSUME NEW r \in Runs, Works(r), EndOfScenario(r)
  PROVE Due(r)
<1>1. /\ pc[r] = "source-entries" /\ opened[r] = Absent /\ Looks /\ Rewind(r)
      /\ pass' = [pass EXCEPT ![r] = "first"] /\ taken' = [taken EXCEPT ![r] = AllUnread] /\ UNCHANGED <<opened, seen>>
      /\ Goto(r, IF Len(managed[r]) + 1 = Len(ScenarioInputs) THEN OutputStep(r) ELSE "source-entries")
  BY DEF EndOfScenario, EntriesRead, At
<1>2. pc[r] \in Reading
  BY <1>1 DEF Reading
<1>3. /\ Len(managed'[r]) = Current(r)
      /\ \A k \in DOMAIN managed'[r] : managed'[r][k] = Derived(found[r])[k] /\ ScenarioCame(found[r], ScenarioInputs[k]) = "0"
  BY ScenarioDerived
<1>4. pass'[r] = "first" /\ number'[r] = 0 /\ taken'[r] = AllUnread /\ opened'[r] = Absent
  BY <1>1, WorksFacts DEF Arrays, Rewind
<1>5. Intact(r)' /\ found' = found
  BY <1>1, <1>2, DeducesFacts, Looked
<1>6. CASE Current(r) # Len(ScenarioInputs)
  <2>1. pc'[r] = "source-entries"
    BY <1>1, <1>6, WorksFacts DEF Current
  <2>2. Faithful(r)'
    BY <1>4 DEF Faithful, Has, AllUnread
  <2>3. \A k \in DOMAIN Inputs(r)' : ~(k <= number'[r])
    <3>1. Current(r) + 1 \in DOMAIN ScenarioInputs
      <4>1. Current(r) \in DOMAIN ScenarioInputs /\ DOMAIN ScenarioInputs = 1..Len(ScenarioInputs) /\ Len(ScenarioInputs) \in Nat
        BY <1>2, CurrentScenario, ScenariosHaveInputs, LenProperties
      <4> QED
        BY <1>6, <4>1
    <3>2. Inputs(r)' = ScenarioInputs[Current(r) + 1]
      BY <1>3 DEF Inputs
    <3>3. ScenarioInputs[Current(r) + 1] \in Seq(Sources)
      BY <3>1, ScenariosHaveInputs, LenProperties
    <3>4. DOMAIN Inputs(r)' = 1..Len(ScenarioInputs[Current(r) + 1])
      BY <3>2, <3>3, LenProperties
    <3> QED
      BY <1>4, <3>4
  <2>4. Deduces(r)'
    BY <1>3, <1>4, <1>5, <2>1, <2>2, <2>3 DEF Deduces
  <2> QED
    BY <1>1, <2>1, <2>4, Looked, GoesOn
<1>7. CASE Current(r) = Len(ScenarioInputs)
  <2>1. pc'[r] = OutputStep(r)
    BY <1>1, <1>7, WorksFacts DEF Current
  <2>2. DOMAIN managed'[r] = DOMAIN ScenarioInputs
    BY <1>3, <1>7, ScenarioDerived, ScenariosHaveInputs, LenProperties
  <2>3. managed'[r] = Derived(found[r])
    <3>1. managed'[r] = [k \in DOMAIN managed'[r] |-> managed'[r][k]]
      BY ScenarioDerived, LenProperties
    <3>2. Derived(found[r]) = [k \in DOMAIN ScenarioInputs |-> Derived(found[r])[k]]
      BY DEF Derived
    <3> HIDE DEF Derived
    <3> QED
      BY <1>3, <2>2, <3>1, <3>2
  <2>4. Bad(found[r]) = {}
    BY <1>3, <2>2 DEF Bad
  <2>5. Derivation(r)'
    BY <1>5, <2>3, <2>4 DEF Derivation
  <2>6. CASE request[r].command = "reports-generate"
    <3>1. pc'[r] = "reports-target"
      BY <2>1, <2>6 DEF OutputStep
    <3>2. Targets(r)'
      BY <1>5, <2>5, <3>1 DEF Targets
    <3> QED
      BY <1>1, <3>1, <3>2, Looked, GoesOn
  <2>7. CASE request[r].command # "reports-generate"
    <3>1. pc'[r] = "reports-look"
      BY <2>1, <2>7 DEF OutputStep
    <3>2. Inspects(r)'
      BY <1>5, <2>5, <3>1 DEF Inspects
    <3> QED
      BY <1>1, <3>1, <3>2, Looked, GoesOn
  <2> QED
    BY <2>6, <2>7
<1> QED
  BY <1>6, <1>7

-----------------------------------------------------------------------------
(* A build: what is refused, and what is copied from the tree it found. *)
Makings == {"build", "version"} \cup Staging \cup Checked

LEMMA BuildIs ==
  ASSUME NEW r \in Runs, request[r].command = "build"
  PROVE LET w == found[r]
            package == found[r].tree[VersionFile]
            unfit == \/ request[r].epoch = "early" \/ ~request[r].valid \/ w.dist \notin {Absent, VacantDirectory}
                     \/ package = Nothing
            later == Lacking(w) \/ (request[r].epoch # "huge" /\ (~request[r].tools \/ request[r].epoch = "late"))
        IN /\ unfit => Outcome(r, w) = Came("2", w)
           /\ ~unfit /\ VersionOf[package] = NotPython => Outcome(r, w) = Came("traceback", w)
           /\ ~unfit /\ VersionOf[package] = NoVersion => Outcome(r, w) = Came("2", w)
           /\ ~unfit /\ VersionOf[package] # NotPython /\ later => Outcome(r, w) = Came("2", w)
           /\ ~unfit /\ VersionOf[package] \notin {NotPython, NoVersion} /\ ~Lacking(w) /\ request[r].epoch = "huge" =>
                Outcome(r, w) = Came("traceback", w)
           /\ ~unfit /\ VersionOf[package] \notin {NotPython, NoVersion} /\ ~later /\ request[r].epoch # "huge" =>
                Outcome(r, w) =
                  Came("0", [w EXCEPT !.dist = [by |-> r, version |-> VersionOf[package], source |-> [f \in Staged |-> w.tree[f]],
                                                archives |-> Archives(CopiesOf(w), 0)]])
<1>1. Outcome(r, found[r]) = BuildCame(r, found[r])
  BY DEF Outcome
<1>2. NoVersion # NotPython
  BY VersionsDiffer
<1> QED
  BY <1>1, <1>2 DEF BuildCame

LEMMA MakesFacts ==
  ASSUME NEW r \in Runs, Works(r), pc[r] \in Makings
  PROVE /\ Intact(r) /\ request[r].command = "build" /\ found[r].tree = tree /\ found[r].links = links /\ found[r].dist = dist
        /\ pc[r] \in Staging => Faithful(r)
        /\ pc[r] \in Staging \cup Checked =>
             /\ request[r].epoch # "early" /\ request[r].valid /\ found[r].dist \in {Absent, VacantDirectory}
             /\ found[r].tree[VersionFile] # Nothing
             /\ version[r] = VersionOf[found[r].tree[VersionFile]] /\ version[r] \notin {NoVersion, NotPython}
<1>1. Makes(r)
  BY DEF Works, Lone
<1>2. Intact(r) /\ request[r].command = "build"
  BY <1>1 DEF Makes, Makings
<1>3. pc[r] \in Staging => Faithful(r)
  BY <1>1 DEF Makes
<1>4. pc[r] \in Staging \cup Checked =>
        /\ request[r].epoch # "early" /\ request[r].valid /\ found[r].dist \in {Absent, VacantDirectory}
        /\ found[r].tree[VersionFile] # Nothing
        /\ version[r] = VersionOf[found[r].tree[VersionFile]] /\ version[r] \notin {NoVersion, NotPython}
  BY <1>1 DEF Makes, Staging, Checked
<1> QED
  BY <1>2, <1>3, <1>4, Seen

\* What is refused later than the version was read.
LEMMA BuildRefused ==
  ASSUME NEW r \in Runs, Works(r), pc[r] \in Staging \cup Checked, Looks, Exit(r, "2"),
         Lacking(found[r]) \/ (request[r].epoch # "huge" /\ (~request[r].tools \/ request[r].epoch = "late"))
  PROVE Due(r)
<1>1. /\ Intact(r) /\ request[r].command = "build"
      /\ request[r].epoch # "early" /\ request[r].valid /\ found[r].dist \in {Absent, VacantDirectory}
      /\ found[r].tree[VersionFile] # Nothing
      /\ version[r] = VersionOf[found[r].tree[VersionFile]] /\ version[r] \notin {NoVersion, NotPython}
  BY MakesFacts DEF Makings
<1>2. Outcome(r, found[r]) = Came("2", found[r])
  BY <1>1, BuildIs
<1> QED
  BY <1>1, <1>2, Halted

LEMMA PreflightOutputDue ==
  ASSUME NEW r \in Runs, Works(r), PreflightOutput(r)
  PROVE Due(r)
<1> DEFINE fit == request[r].epoch # "early" /\ request[r].valid /\ dist \in {Absent, VacantDirectory}
<1>1. pc[r] = "build" /\ Looks /\ UNCHANGED opened /\ Check(r, fit, "version", "2")
  BY DEF PreflightOutput, At, ReadsNothing, collecting
<1>2. Intact(r) /\ request[r].command = "build" /\ found[r].dist = dist
  BY <1>1, MakesFacts DEF Makings
<1>3. CASE fit
  <2>1. pc'[r] = "version"
    BY <1>1, <1>3, WorksFacts DEF Check
  <2>2. opened'[r] = Absent
    <3>1. BeforeAll(r)
      BY DEF Works, IInv, RunInv
    <3> QED
      BY <1>1, <3>1 DEF BeforeAll, Fresh
  <2>3. Makes(r)'
    BY <1>1, <1>2, <1>3, <2>1, <2>2, Looked DEF Makes, Staging, Checked
  <2> QED
    BY <1>1, <2>1, <2>3, Looked, GoesOn
<1>4. CASE ~fit
  <2>1. Outcome(r, found[r]) = Came("2", found[r])
    BY <1>2, <1>4, BuildIs
  <2>2. Exit(r, "2")
    BY <1>1, <1>4 DEF Check
  <2> QED
    BY <1>1, <1>2, <2>1, <2>2, Halted
<1> QED
  BY <1>3, <1>4

LEMMA OpenVersionDue ==
  ASSUME NEW r \in Runs, Works(r), OpenVersion(r)
  PROVE Due(r)
<1>1. pc[r] = "version" /\ Looks
  BY DEF OpenVersion, At
<1>2. /\ Intact(r) /\ request[r].command = "build" /\ found[r].tree = tree
      /\ request[r].epoch # "early" /\ request[r].valid /\ found[r].dist \in {Absent, VacantDirectory}
  <2>1. Makes(r)
    BY DEF Works, Lone
  <2> QED
    BY <1>1, <2>1, MakesFacts DEF Makings, Makes
<1>3. CASE tree[VersionFile] = Nothing
  <2>1. Outcome(r, found[r]) = Came("2", found[r])
    BY <1>2, <1>3, BuildIs
  <2>2. Exit(r, "2")
    BY <1>3 DEF OpenVersion
  <2> QED
    BY <1>1, <1>2, <2>1, <2>2, Halted
<1>4. CASE tree[VersionFile] # Nothing
  <2>1. opened' = [opened EXCEPT ![r] = VersionFile] /\ seen' = [seen EXCEPT ![r] = {tree[VersionFile]}] /\ UNCHANGED control
    BY <1>4 DEF OpenVersion
  <2>2. pc'[r] = "version" /\ opened'[r] = VersionFile /\ seen'[r] = {found[r].tree[VersionFile]}
    BY <1>1, <1>2, <2>1, WorksFacts DEF Arrays, control
  <2>3. Makes(r)'
    BY <1>1, <1>2, <1>4, <2>2, Looked DEF Makes, Staging, Checked
  <2> QED
    BY <1>1, <2>2, <2>3, Looked, GoesOn
<1> QED
  BY <1>3, <1>4

\* The version is that of a mixture of one content.
LEMMA OneContent ==
  ASSUME NEW c, c \in Contents, NEW m \in Mixtures({c})
  PROVE m = c
<1>1. m \in Contents /\ \A b \in Blocks : m[b] = c[b]
  BY DEF Mixtures
<1> QED
  BY <1>1 DEF Contents

LEMMA ReadVersionDue ==
  ASSUME NEW r \in Runs, Works(r), ReadVersion(r)
  PROVE Due(r)
<1> DEFINE package == found[r].tree[VersionFile]
<1>1. /\ pc[r] = "version" /\ opened[r] = VersionFile /\ Looks /\ UNCHANGED <<number, pass, taken>>
      /\ opened' = [opened EXCEPT ![r] = Absent] /\ plan' = [plan EXCEPT ![r] = BuildFiles]
  BY DEF ReadVersion, At, walking
<1>2. /\ Intact(r) /\ request[r].command = "build"
      /\ request[r].epoch # "early" /\ request[r].valid /\ found[r].dist \in {Absent, VacantDirectory}
      /\ opened[r] # Absent => package # Nothing /\ seen[r] = {package}
  <2>1. Makes(r)
    BY DEF Works, Lone
  <2> QED
    BY <1>1, <2>1 DEF Makes
<1>3. package # Nothing /\ seen[r] = {package} /\ package \in Contents
  <2>1. VersionFile \in Sources
    BY TheVersionIsStaged, StagedAreSources DEF Staged
  <2>2. VersionFile # Absent
    BY <2>1, NoneIsNoSource
  <2>3. seen[r] \subseteq Contents
    BY WorksFacts DEF TypeOK, ReadingOK
  <2> QED
    BY <1>1, <1>2, <2>2, <2>3
<1>4. \A c \in Mixtures(seen[r]) : c = package
  BY <1>3, OneContent
<1> HIDE DEF package
<1>5. /\ version' = [version EXCEPT ![r] = VersionOf[package]]
      /\ \/ VersionOf[package] = NotPython /\ Exit(r, "traceback")
         \/ VersionOf[package] = NoVersion /\ Exit(r, "2")
         \/ VersionOf[package] \notin {NoVersion, NotPython} /\ Goto(r, "stage")
  <2>1. PICK c \in Mixtures(seen[r]) :
          /\ version' = [version EXCEPT ![r] = VersionOf[c]]
          /\ CASE VersionOf[c] = NotPython -> Exit(r, "traceback")
               [] VersionOf[c] = NoVersion -> Exit(r, "2")
               [] OTHER -> Goto(r, "stage")
    BY DEF ReadVersion
  <2>2. c = package
    BY <1>4
  <2> QED
    BY <2>1, <2>2
<1>6. CASE VersionOf[package] = NotPython /\ Exit(r, "traceback")
  <2>1. Outcome(r, found[r]) = Came("traceback", found[r])
    BY <1>2, <1>3, <1>6, BuildIs DEF package
  <2> QED
    BY <1>1, <1>2, <1>6, <2>1, Halted
<1>7. CASE VersionOf[package] = NoVersion /\ Exit(r, "2")
  <2>1. Outcome(r, found[r]) = Came("2", found[r])
    BY <1>2, <1>3, <1>7, BuildIs DEF package
  <2> QED
    BY <1>1, <1>2, <1>7, <2>1, Halted
<1>8. CASE VersionOf[package] \notin {NoVersion, NotPython} /\ Goto(r, "stage")
  <2>1. pc'[r] = "stage" /\ opened'[r] = Absent /\ plan'[r] = BuildFiles /\ version'[r] = VersionOf[package]
    BY <1>1, <1>5, <1>8, WorksFacts DEF Arrays
  <2>2. pass'[r] = "first" /\ number'[r] = 0 /\ taken'[r] = AllUnread
    <3>1. BeforeAll(r)
      BY DEF Works, IInv, RunInv
    <3> QED
      BY <1>1, <3>1 DEF BeforeAll, Fresh
  <2>3. Faithful(r)'
    BY <2>1, <2>2 DEF Faithful, Has, AllUnread
  <2>4. \A k \in 1..number'[r] : FALSE
    BY <2>2
  <2>5. Intact(r)' /\ UNCHANGED <<found, request>>
    BY <1>1, <1>2, Looked
  <2>6. Makes(r)'
    BY <1>2, <1>3, <1>8, <2>1, <2>2, <2>3, <2>4, <2>5 DEF Makes, Staging, Checked, package
  <2> QED
    BY <1>1, <2>1, <2>6, Looked, GoesOn
<1> QED
  BY <1>5, <1>6, <1>7, <1>8

\* Staging goes on.
LEMMA StagingDue ==
  ASSUME NEW r \in Runs, Works(r), pc[r] \in Staging, Looks, UNCHANGED version, pc'[r] \in Staging, Faithful(r)',
         \A f \in ToSet(plan'[r]) : f \in ToSet(BuildFiles) \/ found[r].tree[f] # Nothing \/ f \in found[r].links,
         \A k \in 1..number'[r] : Legible(found[r], plan'[r][k]),
         pc'[r] = "package" => /\ \A f \in ToSet(BuildFiles) : Legible(found[r], f)
                               /\ \A f \in ToSet(PackageFiles) \ ToSet(plan'[r]) : f \notin found[r].links,
         pass'[r] = "last" => ~Lacking(found[r]) /\ request[r].epoch # "huge"
  PROVE Due(r)
<1>1. /\ Intact(r) /\ request[r].command = "build"
      /\ request[r].epoch # "early" /\ request[r].valid /\ found[r].dist \in {Absent, VacantDirectory}
      /\ found[r].tree[VersionFile] # Nothing
      /\ version[r] = VersionOf[found[r].tree[VersionFile]] /\ version[r] \notin {NoVersion, NotPython}
  BY MakesFacts DEF Makings
<1>2. Intact(r)' /\ UNCHANGED <<found, request>>
  BY <1>1, Looked
<1>3. pc'[r] \notin Checked /\ pc'[r] \notin {"build", "version"}
  BY DEF Staging, Checked
<1>4. Makes(r)'
  BY <1>1, <1>2, <1>3 DEF Makes
<1> QED
  BY <1>4, Looked, GoesOn DEF Staging

\* What is known while files are copied.
LEMMA StagingFacts ==
  ASSUME NEW r \in Runs, Works(r), pc[r] \in Staging
  PROVE /\ \A f \in ToSet(plan[r]) : f \in ToSet(BuildFiles) \/ found[r].tree[f] # Nothing \/ f \in found[r].links
        /\ \A k \in 1..number[r] : Legible(found[r], plan[r][k])
        /\ pc[r] = "package" => /\ \A f \in ToSet(BuildFiles) : Legible(found[r], f)
                                /\ \A f \in ToSet(PackageFiles) \ ToSet(plan[r]) : f \notin found[r].links
        /\ pass[r] = "last" => ~Lacking(found[r]) /\ request[r].epoch # "huge"
        /\ pass[r] \in {"first", "last"} /\ number[r] \in Nat /\ number[r] <= Len(plan[r])
        /\ opened[r] # Absent => number[r] < Len(plan[r]) /\ opened[r] = plan[r][number[r] + 1]
        /\ plan[r] \in Seq(Sources) /\ Len(plan[r]) \in Nat /\ DOMAIN plan[r] = 1..Len(plan[r]) /\ ToSet(plan[r]) \subseteq Staged
<1>1. Makes(r)
  BY DEF Works, Lone
<1>2. Plans(r) /\ Untaken(r)
  BY DEF Works, IInv, RunInv, WholeInv, BuildInv
<1>3. plan[r] \in Seq(Sources) /\ number[r] \in Nat
  BY WorksFacts DEF TypeOK, ControlOK
<1>4. Len(plan[r]) \in Nat /\ DOMAIN plan[r] = 1..Len(plan[r])
  BY <1>3, LenProperties
<1>5. /\ \A f \in ToSet(plan[r]) : f \in ToSet(BuildFiles) \/ found[r].tree[f] # Nothing \/ f \in found[r].links
      /\ \A k \in 1..number[r] : Legible(found[r], plan[r][k])
      /\ pc[r] = "package" => /\ \A f \in ToSet(BuildFiles) : Legible(found[r], f)
                              /\ \A f \in ToSet(PackageFiles) \ ToSet(plan[r]) : f \notin found[r].links
      /\ pass[r] = "last" => ~Lacking(found[r]) /\ request[r].epoch # "huge"
  BY <1>1 DEF Makes
<1>6. /\ pass[r] \in {"first", "last"} /\ number[r] <= Len(plan[r])
      /\ opened[r] # Absent => number[r] < Len(plan[r]) /\ opened[r] = plan[r][number[r] + 1]
  BY <1>2 DEF Plans
<1>7. ToSet(plan[r]) \subseteq Staged
  BY <1>2 DEF Untaken
<1> QED
  BY <1>3, <1>4, <1>5, <1>6, <1>7

LEMMA CopySourceDue ==
  ASSUME NEW r \in Runs, Works(r), CopySource(r)
  PROVE Due(r)
<1> DEFINE f == plan[r][number[r] + 1]
<1>1. /\ pc[r] \in Staging /\ (opened[r] # Absent \/ number[r] # Len(plan[r])) /\ UNCHANGED <<plan, version>>
      /\ OpenSource(r, f) \/ RefuseSource(r, f) \/ TakeSource(r)
  BY DEF CopySource, Staging, AllCopied, Building, buildVars
<1>2. Intact(r) /\ Faithful(r) /\ tree = found[r].tree /\ links = found[r].links
  BY <1>1, MakesFacts DEF Makings
<1>3. /\ \A g \in ToSet(plan[r]) : g \in ToSet(BuildFiles) \/ found[r].tree[g] # Nothing \/ g \in found[r].links
      /\ \A k \in 1..number[r] : Legible(found[r], plan[r][k])
      /\ pc[r] = "package" => /\ \A g \in ToSet(BuildFiles) : Legible(found[r], g)
                              /\ \A g \in ToSet(PackageFiles) \ ToSet(plan[r]) : g \notin found[r].links
      /\ pass[r] = "last" => ~Lacking(found[r]) /\ request[r].epoch # "huge"
  BY <1>1, StagingFacts
<1>4. /\ number[r] \in Nat /\ number[r] <= Len(plan[r]) /\ Len(plan[r]) \in Nat
      /\ opened[r] # Absent => number[r] < Len(plan[r]) /\ opened[r] = f
      /\ DOMAIN plan[r] = 1..Len(plan[r]) /\ ToSet(plan[r]) \subseteq Staged
  BY <1>1, StagingFacts
<1>5. number[r] + 1 \in DOMAIN plan[r]
  <2>1. number[r] < Len(plan[r])
    BY <1>1, <1>4
  <2> QED
    BY <1>4, <2>1
<1>6. f \in ToSet(plan[r]) /\ f \in Staged
  BY <1>4, <1>5 DEF ToSet
<1>7. CASE OpenSource(r, f)
  <2>1. Looks /\ UNCHANGED <<control, walking, pass>>
    BY <1>7 DEF OpenSource
  <2>2. Faithful(r)'
    BY <1>2, <1>7, WorksFacts, OpenedIsFaithful
  <2>3. pc'[r] = pc[r] /\ pass'[r] = pass[r] /\ number'[r] = number[r] /\ plan'[r] = plan[r]
    BY <1>1, <2>1 DEF control, walking
  <2> QED
    BY <1>1, <1>3, <2>1, <2>2, <2>3, StagingDue
<1>8. CASE RefuseSource(r, f)
  <2>1. Looks /\ Exit(r, "2") /\ (f \in found[r].links \/ found[r].tree[f] = Nothing)
    BY <1>2, <1>8 DEF RefuseSource, Readable
  <2>2. f \in found[r].links \/ f \in ToSet(BuildFiles)
    BY <1>3, <1>6, <2>1
  <2>3. Lacking(found[r])
    BY <1>6, <2>1, <2>2 DEF Lacking
  <2> QED
    BY <1>1, <2>1, <2>3, BuildRefused
<1>9. CASE TakeSource(r)
  <2>1. Looks /\ UNCHANGED <<control, pass>>
    BY <1>9 DEF TakeSource
  <2>2. Faithful(r)' /\ opened[r] # Absent /\ Legible(found[r], opened[r]) /\ number'[r] = number[r] + 1
    BY <1>2, <1>9, TakenIsFaithful
  <2>3. pc'[r] = pc[r] /\ pass'[r] = pass[r] /\ plan'[r] = plan[r]
    BY <1>1, <2>1 DEF control
  <2>4. ASSUME NEW k \in 1..number'[r] PROVE Legible(found[r], plan'[r][k])
    <3>1. k \in 1..number[r] \/ k = number[r] + 1
      BY <1>4, <2>2
    <3> QED
      BY <1>3, <1>4, <2>2, <2>3, <3>1
  <2> QED
    BY <1>1, <1>3, <2>1, <2>2, <2>3, <2>4, StagingDue
<1> QED
  BY <1>1, <1>7, <1>8, <1>9

\* All that has to be there is, and is copied.
LEMMA BuildFilesCopied ==
  ASSUME NEW r \in Runs, Works(r), pc[r] = "stage", AllCopied(r)
  PROVE \A f \in ToSet(BuildFiles) : Legible(found[r], f)
<1>1. plan[r] = BuildFiles
  BY DEF Works, IInv, RunInv, Plans, Staging
<1>2. DOMAIN BuildFiles = 1..number[r] /\ \A k \in 1..number[r] : Legible(found[r], BuildFiles[k])
  BY <1>1, StagingFacts DEF Staging, AllCopied
<1> QED
  BY <1>2 DEF ToSet

LEMMA ListPackageDue ==
  ASSUME NEW r \in Runs, Works(r), ListPackage(r)
  PROVE Due(r)
<1> DEFINE away == ToSet(PackageFiles) \ Listed
<1> DEFINE read == [f \in Sources |-> IF f \in away THEN Nothing ELSE taken[r][pass[r]][f]]
<1>1. /\ pc[r] = "stage" /\ opened[r] = Absent /\ AllCopied(r) /\ Looks /\ UNCHANGED <<walking, version, pass, opened, seen>>
      /\ taken' = [taken EXCEPT ![r][pass[r]] = read] /\ Goto(r, "package")
  BY DEF ListPackage, At
<1>2. PICK s \in Listings : plan' = [plan EXCEPT ![r] = BuildFiles \o s]
  BY DEF ListPackage
<1>3. s \in Seq(Sources) /\ ToSet(s) = Listed /\ BuildFiles \in Seq(Sources)
  BY ListingsAreSources, EverythingIsASource
<1>4. /\ Intact(r) /\ Faithful(r) /\ found[r].tree = tree /\ found[r].links = links
      /\ pass[r] = "last" => ~Lacking(found[r]) /\ request[r].epoch # "huge"
      /\ pass[r] \in {"first", "last"} /\ plan[r] = BuildFiles
      /\ \A k \in 1..number[r] : Legible(found[r], plan[r][k])
  <2>1. plan[r] = BuildFiles
    BY <1>1 DEF Works, IInv, RunInv, Plans, Staging
  <2> QED
    BY <1>1, <2>1, MakesFacts, StagingFacts DEF Makings, Staging
<1>5. pc'[r] = "package" /\ plan'[r] = BuildFiles \o s /\ pass'[r] = pass[r] /\ number'[r] = number[r]
  BY <1>1, <1>2, WorksFacts DEF Arrays, walking
<1>6. ToSet(BuildFiles \o s) = ToSet(BuildFiles) \cup Listed
  <2>1. \A i \in 1..Len(BuildFiles \o s) : (BuildFiles \o s)[i] \in ToSet(BuildFiles) \cup ToSet(s)
    BY <1>3, ConcatProperties, LenProperties DEF ToSet
  <2>2. DOMAIN (BuildFiles \o s) = 1..Len(BuildFiles \o s)
    BY <1>3, ConcatProperties, LenProperties
  <2>3. ToSet(BuildFiles) \cup ToSet(s) \subseteq ToSet(BuildFiles \o s)
    BY <1>3, ListedAfter
  <2> QED
    BY <1>3, <2>1, <2>2, <2>3 DEF ToSet
<1>7. \A f \in Listed : tree[f] # Nothing \/ f \in links
  BY DEF Listed
<1>8. \A f \in away : tree[f] = Nothing /\ f \notin links
  BY DEF Listed
<1>9. taken[r] \in [Passes -> Copies] /\ pass[r] \in Passes
  BY <1>4, WorksFacts DEF TypeOK, ReadingOK
<1>10. \A f \in Sources : read[f] = IF f \in away THEN Nothing ELSE taken[r][pass[r]][f]
  OBVIOUS
<1> HIDE DEF read, away
<1>11. taken'[r][pass[r]] = read /\ \A p \in Passes : p # pass[r] => taken'[r][p] = taken[r][p]
  BY <1>1, <1>9, WorksFacts DEF Arrays
<1>12. Faithful(r)'
  <2>1. UNCHANGED <<opened, seen, found>>
    BY <1>1 DEF Looks, history
  <2>2. ASSUME NEW p \in Passes, NEW f \in Sources, Has(r, p, f)' PROVE taken'[r][p][f] = found[r].tree[f]
    <3>1. CASE p = pass[r] /\ f \in away
      BY <1>4, <1>8, <1>10, <1>11, <3>1
    <3>2. CASE ~(p = pass[r] /\ f \in away)
      <4>1. taken'[r][p][f] = taken[r][p][f]
        BY <1>10, <1>11, <3>2
      <4> QED
        BY <1>4, <2>2, <4>1 DEF Faithful, Has
    <3> QED
      BY <3>1, <3>2
  <2> QED
    BY <1>4, <2>1, <2>2 DEF Faithful
<1>13. \A f \in ToSet(plan'[r]) : f \in ToSet(BuildFiles) \/ found[r].tree[f] # Nothing \/ f \in found[r].links
  BY <1>4, <1>5, <1>6, <1>7
<1>14. \A f \in ToSet(PackageFiles) \ ToSet(plan'[r]) : f \notin found[r].links
  BY <1>4, <1>5, <1>6, <1>8 DEF away
<1>15. ASSUME NEW k \in 1..number'[r] PROVE Legible(found[r], plan'[r][k])
  <2>1. number[r] = Len(BuildFiles)
    BY <1>1, <1>4 DEF AllCopied
  <2>2. k \in 1..Len(BuildFiles) /\ Legible(found[r], BuildFiles[k])
    BY <1>4, <1>5, <1>15, <2>1
  <2>3. (BuildFiles \o s)[k] = BuildFiles[k]
    BY <1>3, <2>2, ListedAfter
  <2> QED
    BY <1>5, <2>2, <2>3
<1>16. \A f \in ToSet(BuildFiles) : Legible(found[r], f)
  BY <1>1, BuildFilesCopied
<1> QED
  BY <1>1, <1>4, <1>5, <1>12, <1>13, <1>14, <1>15, <1>16, StagingDue DEF Staging

\* Nothing is missing then.
LEMMA NothingIsLacking ==
  ASSUME NEW r \in Runs, Works(r), pc[r] = "package", AllCopied(r)
  PROVE ~Lacking(found[r])
<1>1. /\ \A f \in ToSet(BuildFiles) : Legible(found[r], f)
      /\ \A f \in ToSet(PackageFiles) \ ToSet(plan[r]) : f \notin found[r].links
      /\ \A k \in 1..number[r] : Legible(found[r], plan[r][k])
      /\ DOMAIN plan[r] = 1..number[r]
  BY StagingFacts DEF Staging, AllCopied
<1>2. \A f \in ToSet(plan[r]) : Legible(found[r], f)
  BY <1>1 DEF ToSet
<1> QED
  BY <1>1, <1>2 DEF Lacking, Staged, Legible

LEMMA StagedOnceDue ==
  ASSUME NEW r \in Runs, Works(r), StagedOnce(r)
  PROVE Due(r)
<1>1. pc[r] = "package" /\ AllCopied(r) /\ Looks
  BY DEF StagedOnce, EndOfFirstPass, At
<1>2. ~Lacking(found[r])
  BY <1>1, NothingIsLacking
<1>3. CASE request[r].epoch = "huge"
  <2>1. Exit(r, "traceback")
    BY <1>3 DEF StagedOnce
  <2>2. Intact(r) /\ Outcome(r, found[r]) = Came("traceback", found[r])
    BY <1>1, <1>2, <1>3, MakesFacts, BuildIs DEF Makings, Staging
  <2> QED
    BY <1>1, <2>1, <2>2, Halted
<1>4. CASE request[r].epoch # "huge"
  <2>1. /\ UNCHANGED <<opened, seen, taken, version>> /\ Goto(r, "stage")
        /\ Rewind(r) /\ pass' = [pass EXCEPT ![r] = "last"] /\ plan' = [plan EXCEPT ![r] = BuildFiles]
    BY <1>4 DEF StagedOnce, EndOfFirstPass
  <2>2. pc'[r] = "stage" /\ pass'[r] = "last" /\ plan'[r] = BuildFiles /\ number'[r] = 0
    BY <2>1, WorksFacts DEF Arrays, Rewind
  <2>3. Faithful(r)'
    <3>1. Faithful(r) /\ UNCHANGED <<opened, seen, taken, found>>
      BY <1>1, <2>1, MakesFacts DEF Makings, Staging, Looks, history
    <3> QED
      BY <3>1, StaysFaithful
  <2>4. \A k \in 1..number'[r] : FALSE
    BY <2>2
  <2> QED
    BY <1>1, <1>2, <1>4, <2>1, <2>2, <2>3, <2>4, StagingDue DEF Staging
<1> QED
  BY <1>3, <1>4

LEMMA StagedTwiceDue ==
  ASSUME NEW r \in Runs, Works(r), StagedTwice(r)
  PROVE Due(r)
<1>1. /\ pc[r] = "package" /\ AllCopied(r) /\ pass[r] = "last" /\ Looks /\ UNCHANGED <<taken, version, built, pass>>
      /\ Check(r, Same(taken[r].first, taken[r].last), "environment", "2")
  BY DEF StagedTwice, At, ReadsNothing, collecting, Building, buildVars
<1>2. ~Lacking(found[r]) /\ request[r].epoch # "huge"
  BY <1>1, StagingFacts DEF Staging
<1>3. /\ Intact(r) /\ Faithful(r) /\ request[r].command = "build"
      /\ request[r].epoch # "early" /\ request[r].valid /\ found[r].dist \in {Absent, VacantDirectory}
      /\ found[r].tree[VersionFile] # Nothing
      /\ version[r] = VersionOf[found[r].tree[VersionFile]] /\ version[r] \notin {NoVersion, NotPython}
  BY <1>1, MakesFacts DEF Makings, Staging
<1>4. \A f \in Staged : Has(r, "first", f) /\ Has(r, "last", f)
  <2>1. TypeOK /\ RunInv(r)
    BY DEF Works, IInv
  <2>2. \A f \in Staged : Has(r, pass[r], f)
    BY <1>1, <2>1, AllAreStaged
  <2>3. \A f \in Staged : Has(r, "first", f)
    BY <1>1, <2>1 DEF RunInv, Plans, Staging
  <2> QED
    BY <1>1, <2>2, <2>3
<1>5. \A f \in Staged : taken[r].first[f] = found[r].tree[f] /\ taken[r].last[f] = found[r].tree[f]
  BY <1>3, <1>4, StagedAreSources DEF Faithful, Passes
<1>6. \A f \in Sources \ Staged : taken[r].first[f] = Unread /\ taken[r].last[f] = Unread
  BY <1>1 DEF Works, WholeInv, BuildInv, Untaken, Staging, Passes
<1>7. taken[r].first = CopiesOf(found[r]) /\ taken[r].last = CopiesOf(found[r])
  <2>1. taken[r].first \in Copies /\ taken[r].last \in Copies
    BY WorksFacts DEF TypeOK, ReadingOK, Passes
  <2> QED
    BY <1>5, <1>6, <2>1 DEF Copies, CopiesOf
<1>8. Same(taken[r].first, taken[r].last)
  BY <1>5 DEF Same
<1>9. pc'[r] = "environment"
  BY <1>1, <1>8, WorksFacts DEF Check
<1>10. built'[r] = <<>>
  BY <1>1 DEF Works, IInv, RunInv, Plans, Staging
<1>11. Intact(r)' /\ UNCHANGED <<found, request>> /\ taken'[r] = taken[r] /\ version'[r] = version[r]
  BY <1>1, <1>3, Looked
<1>12. \A k \in DOMAIN built'[r] : FALSE
  BY <1>10
<1>13. Makes(r)'
  BY <1>2, <1>3, <1>7, <1>9, <1>10, <1>11, <1>12 DEF Makes, Staging, Checked
<1> QED
  BY <1>1, <1>9, <1>13, Looked, GoesOn

\* What is known when all is staged.
LEMMA CheckedFacts ==
  ASSUME NEW r \in Runs, Works(r), pc[r] \in Checked
  PROVE /\ ~Lacking(found[r]) /\ request[r].epoch # "huge" /\ taken[r].first = CopiesOf(found[r]) /\ taken[r].last = CopiesOf(found[r])
        /\ pc[r] # "environment" => request[r].tools
        /\ \A k \in DOMAIN built[r] : built[r][k] = Archives(CopiesOf(found[r]), 0)
        /\ built[r] # <<>> => request[r].epoch # "late"
        /\ built[r] \in Seq(Archive)
        /\ pc[r] = "environment" => built[r] = <<>>
        /\ pc[r] = "package-build" => Len(built[r]) \in {0, 1, 2}
        /\ pc[r] = "publish" => built[r] # <<>>
<1>1. Makes(r)
  BY DEF Works, Lone
<1>2. Compared(r) /\ Repeated(r)
  BY DEF Works, IInv, RunInv, WholeInv, BuildInv
<1>3. built[r] \in Seq(Archive)
  BY WorksFacts DEF TypeOK, ControlOK
<1>4. /\ ~Lacking(found[r]) /\ request[r].epoch # "huge" /\ taken[r].first = CopiesOf(found[r]) /\ taken[r].last = CopiesOf(found[r])
      /\ pc[r] # "environment" => request[r].tools
      /\ \A k \in DOMAIN built[r] : built[r][k] = Archives(CopiesOf(found[r]), 0)
      /\ built[r] # <<>> => request[r].epoch # "late"
  BY <1>1 DEF Makes
<1>5. /\ pc[r] = "environment" => built[r] = <<>>
      /\ pc[r] = "package-build" => Len(built[r]) \in {0, 1, 2}
      /\ pc[r] = "publish" => built[r] # <<>>
  BY <1>2 DEF Compared, Repeated
<1> QED
  BY <1>3, <1>4, <1>5

LEMMA BuildingDue ==
  ASSUME NEW r \in Runs, Works(r), pc[r] \in Checked, Looks, UNCHANGED <<version, taken>>,
         pc'[r] \in {"package-build", "publish"}, request[r].tools,
         \A k \in DOMAIN built'[r] : built'[r][k] = Archives(CopiesOf(found[r]), 0),
         built'[r] # <<>> => request[r].epoch # "late"
  PROVE Due(r)
<1>1. /\ Intact(r) /\ request[r].command = "build"
      /\ request[r].epoch # "early" /\ request[r].valid /\ found[r].dist \in {Absent, VacantDirectory}
      /\ found[r].tree[VersionFile] # Nothing
      /\ version[r] = VersionOf[found[r].tree[VersionFile]] /\ version[r] \notin {NoVersion, NotPython}
  BY MakesFacts DEF Makings
<1>2. ~Lacking(found[r]) /\ request[r].epoch # "huge" /\ taken[r].first = CopiesOf(found[r]) /\ taken[r].last = CopiesOf(found[r])
  BY CheckedFacts
<1>3. Intact(r)' /\ UNCHANGED <<found, request>>
  BY <1>1, Looked
<1>4. Makes(r)'
  BY <1>1, <1>2, <1>3 DEF Makes, Staging
<1> QED
  BY <1>4, Looked, GoesOn

LEMMA IdentifyEnvironmentDue ==
  ASSUME NEW r \in Runs, Works(r), IdentifyEnvironment(r)
  PROVE Due(r)
<1>1. /\ pc[r] = "environment" /\ Looks /\ UNCHANGED <<version, taken, built>>
      /\ Check(r, request[r].tools, "package-build", "2")
  BY DEF IdentifyEnvironment, At, ReadsNothing, collecting, Building, buildVars
<1>2. CASE request[r].tools
  <2>1. pc'[r] = "package-build"
    BY <1>1, <1>2, WorksFacts DEF Check
  <2>2. built'[r] = <<>>
    BY <1>1, CheckedFacts DEF Checked
  <2>3. \A k \in DOMAIN built'[r] : FALSE
    BY <2>2
  <2> QED
    BY <1>1, <1>2, <2>1, <2>2, <2>3, BuildingDue DEF Checked
<1>3. CASE ~request[r].tools
  <2>1. Exit(r, "2")
    BY <1>1, <1>3 DEF Check
  <2> QED
    BY <1>1, <1>3, <2>1, CheckedFacts, BuildRefused DEF Checked
<1> QED
  BY <1>2, <1>3

\* One more of the same.
LEMMA SameAgain ==
  ASSUME NEW S, NEW s \in Seq(S), NEW a, \A k \in DOMAIN s : s[k] = a
  PROVE \A k \in DOMAIN Append(s, a) : Append(s, a)[k] = a
<1>1. s \in Seq(S \cup {a}) /\ Len(s) \in Nat
  BY LenProperties
<1>2. /\ Append(s, a)[Len(s) + 1] = a /\ Len(Append(s, a)) = Len(s) + 1
      /\ \A i \in 1..Len(s) : Append(s, a)[i] = s[i]
      /\ Append(s, a) \in Seq(S \cup {a})
  BY <1>1, AppendProperties
<1>3. DOMAIN Append(s, a) = 1..(Len(s) + 1) /\ DOMAIN s = 1..Len(s)
  BY <1>1, <1>2, LenProperties
<1>4. \A k \in DOMAIN Append(s, a) : k \in 1..Len(s) \/ k = Len(s) + 1
  BY <1>1, <1>3
<1> QED
  BY <1>2, <1>3, <1>4

LEMMA BuildOnceDue ==
  ASSUME NEW r \in Runs, Works(r), BuildOnce(r), Steady
  PROVE Due(r)
<1> DEFINE files == CopiesOf(found[r])
           a == Archives(files, 0)
<1>1. pc[r] = "package-build" /\ Looks /\ UNCHANGED <<version, taken>>
  BY DEF BuildOnce, At, ReadsNothing, collecting
<1>2. /\ taken[r].first = files /\ taken[r].last = files /\ request[r].tools
      /\ \A k \in DOMAIN built[r] : built[r][k] = a
      /\ built[r] \in Seq(Archive)
  BY <1>1, CheckedFacts DEF Checked
<1>3. /\ found[r].tree[VersionFile] # Nothing
      /\ VersionOf[found[r].tree[VersionFile]] \notin {NoVersion, NotPython}
  BY <1>1, MakesFacts DEF Makings, Checked
<1>4. VersionFile \in Staged /\ VersionFile \in Sources
  BY TheVersionIsStaged, StagedAreSources DEF Staged
<1>5. files[VersionFile] = found[r].tree[VersionFile]
  BY <1>4 DEF CopiesOf
<1> HIDE DEF files
<1>6. a = [version |-> VersionOf[files[VersionFile]], files |-> files, noise |-> 0]
  BY DEF Archives
<1>7. Check(r, request[r].epoch # "late", "package-build", "2") /\ built' = [built EXCEPT ![r] = Append(@, a)]
  <2>1. (IF built[r] = <<>> THEN taken[r].first ELSE taken[r].last) = files
    BY <1>2
  <2>2. /\ Check(r, files[VersionFile] # Nothing /\ Archives(files, 0).version \notin {NoVersion, NotPython}
                    /\ request[r].epoch # "late",
                 "package-build", "2")
        /\ \E noise \in IF "noise" \in others THEN {0, 1} ELSE {0} :
             built' = [built EXCEPT ![r] = Append(@, [version |-> IF files[VersionFile] = Nothing THEN NoVersion
                                                                 ELSE Archives(files, noise).version,
                                                      files |-> files, noise |-> noise])]
    BY <2>1, ZenonT(60) DEF BuildOnce
  <2>3. "noise" \notin others
    BY DEF Steady
  <2>4. Archives(files, 0).version = VersionOf[files[VersionFile]]
    BY DEF Archives
  <2>5. Check(r, request[r].epoch # "late", "package-build", "2")
    BY <1>3, <1>5, <2>2, <2>4 DEF Check
  <2>6. built' = [built EXCEPT ![r] = Append(@, [version |-> IF files[VersionFile] = Nothing THEN NoVersion
                                                            ELSE Archives(files, 0).version,
                                                 files |-> files, noise |-> 0])]
    BY <2>2, <2>3
  <2>7. [version |-> IF files[VersionFile] = Nothing THEN NoVersion ELSE Archives(files, 0).version,
         files |-> files, noise |-> 0] = a
    BY <1>3, <1>5, <1>6, <2>4
  <2> QED
    BY <2>5, <2>6, <2>7
<1> HIDE DEF a
<1>8. CASE request[r].epoch # "late"
  <2>1. pc'[r] = "package-build"
    BY <1>7, <1>8, WorksFacts DEF Check
  <2>2. built'[r] = Append(built[r], a)
    BY <1>7, WorksFacts DEF Arrays
  <2>3. \A k \in DOMAIN built'[r] : built'[r][k] = a
    BY <1>2, <2>2, SameAgain
  <2> QED
    BY <1>1, <1>2, <1>8, <2>1, <2>3, BuildingDue DEF Checked, files, a
<1>9. CASE request[r].epoch = "late"
  <2>1. Exit(r, "2")
    BY <1>7, <1>9 DEF Check
  <2> QED
    BY <1>1, <1>9, <2>1, BuildRefused DEF Checked
<1> QED
  BY <1>8, <1>9

LEMMA CompareBuildsDue ==
  ASSUME NEW r \in Runs, Works(r), CompareBuilds(r)
  PROVE Due(r)
<1> DEFINE a == Archives(CopiesOf(found[r]), 0)
<1>1. pc[r] = "package-build" /\ Len(built[r]) = 2 /\ Looks /\ UNCHANGED <<version, taken, built>>
  BY DEF CompareBuilds, At, ReadsNothing, collecting, Building, buildVars
<1>2. /\ request[r].tools /\ built[r] \in Seq(Archive)
      /\ \A k \in DOMAIN built[r] : built[r][k] = a
      /\ built[r] # <<>> => request[r].epoch # "late"
  BY <1>1, CheckedFacts DEF Checked
<1>3. built[r] # <<>> /\ 1 \in DOMAIN built[r] /\ 2 \in DOMAIN built[r]
  <2>1. DOMAIN built[r] = 1..2
    BY <1>1, <1>2, LenProperties
  <2>2. 1 \in DOMAIN built[r] /\ 2 \in DOMAIN built[r]
    BY <2>1
  <2> QED
    BY <2>2
<1>4. built[r][1] = a /\ built[r][2] = a
  BY <1>2, <1>3
<1>5. a.version = version[r]
  <2>1. version[r] = VersionOf[found[r].tree[VersionFile]]
    BY <1>1, MakesFacts DEF Makings, Checked
  <2>2. VersionFile \in Staged /\ VersionFile \in Sources
    BY TheVersionIsStaged, StagedAreSources DEF Staged
  <2>3. CopiesOf(found[r])[VersionFile] = found[r].tree[VersionFile]
    BY <2>2 DEF CopiesOf
  <2> QED
    BY <2>1, <2>3 DEF Archives
<1> HIDE DEF a
<1>6. Same(built[r][1].files, built[r][2].files)
  BY <1>4 DEF Same
<1>7. Goto(r, "publish")
  BY <1>4, <1>5, <1>6 DEF CompareBuilds, Check
<1>8. pc'[r] = "publish"
  BY <1>7, WorksFacts
<1> QED
  BY <1>1, <1>2, <1>3, <1>8, BuildingDue DEF Checked, a

LEMMA PublishDue ==
  ASSUME NEW r \in Runs, Works(r), Publish(r)
  PROVE Due(r)
<1> DEFINE w == found[r]
           bundle == [by |-> r, version |-> VersionOf[w.tree[VersionFile]], source |-> [f \in Staged |-> w.tree[f]],
                      archives |-> Archives(CopiesOf(w), 0)]
<1>1. pc[r] = "publish" /\ UNCHANGED <<sources, place, used, holds, loose, circumstances>>
  BY DEF Publish, At
<1>2. /\ World = w /\ request[r].command = "build" /\ w.dist = dist
      /\ request[r].epoch # "early" /\ request[r].valid /\ w.dist \in {Absent, VacantDirectory}
      /\ w.tree[VersionFile] # Nothing
      /\ version[r] = VersionOf[w.tree[VersionFile]] /\ version[r] \notin {NoVersion, NotPython}
  BY <1>1, MakesFacts DEF Makings, Checked, Intact
<1>3. /\ ~Lacking(w) /\ taken[r].first = CopiesOf(w) /\ request[r].tools
      /\ \A k \in DOMAIN built[r] : built[r][k] = Archives(CopiesOf(w), 0)
      /\ built[r] # <<>> /\ request[r].epoch \notin {"late", "huge"} /\ built[r] \in Seq(Archive)
  BY <1>1, CheckedFacts DEF Checked
<1>4. dist' = Bundle(r) /\ Exit(r, "0") /\ UNCHANGED found
  BY <1>2 DEF Publish, Disturbs
<1>5. built[r][1] = Archives(CopiesOf(w), 0)
  <2>1. 1 \in DOMAIN built[r]
    BY <1>3, LenProperties, EmptySeq
  <2> QED
    BY <1>3, <2>1
<1>6. \A f \in Staged : taken[r].first[f] = w.tree[f]
  BY <1>3, StagedAreSources DEF CopiesOf
<1>7. Bundle(r) = bundle
  BY <1>2, <1>5, <1>6 DEF Bundle
<1>8. Outcome(r, w) = Came("0", [w EXCEPT !.dist = bundle])
  BY <1>2, <1>3, BuildIs
<1> HIDE DEF bundle
<1>9. World' = [w EXCEPT !.dist = bundle]
  <2>1. PICK v : v = [w EXCEPT !.dist = bundle]
    OBVIOUS
  <2>2. w = [tree |-> tree, links |-> links, place |-> place, used |-> used, holds |-> holds, loose |-> loose, dist |-> dist]
    BY <1>2 DEF World
  <2>3. v = [tree |-> tree, links |-> links, place |-> place, used |-> used, holds |-> holds, loose |-> loose, dist |-> bundle]
    BY <2>1, <2>2
  <2> QED
    BY <1>1, <1>4, <1>7, <2>1, <2>3 DEF World, sources
<1>10. pc'[r] = "ended" /\ exit'[r] = "0"
  BY <1>4, WorksFacts
<1>11. Outcome(r, found[r]) = Came(exit'[r], World')
  BY <1>8, <1>9, <1>10
<1> QED
  BY <1>10, <1>11 DEF Due

-----------------------------------------------------------------------------
(* A measurement: its input is the scenario, and nothing drifts. *)
MeasureIs(r) ==
  LET w == found[r]
  IN /\ request[r].command = "scenario-generate" =>
          Outcome(r, w) = IF w.loose.scenario # Absent THEN Came("2", w)
                          ELSE Came("0", [w EXCEPT !.loose.scenario = [by |-> r, bytes |-> Scenario]])
     /\ request[r].command = "scenario-check" => Outcome(r, w) = Came(InputCame(r, w), w)
     /\ request[r].command = "measure" =>
          /\ ~Recordable(r) => Outcome(r, w) = Came("2", w)
          /\ Recordable(r) /\ InputCame(r, w) # "0" => Outcome(r, w) = Came(InputCame(r, w), w)
          /\ Recordable(r) /\ InputCame(r, w) = "0" =>
               Outcome(r, w) = Came("0", [w EXCEPT !.loose.record = [by |-> r, bytes |-> RecordOfAll]])

LEMMA MeasureOutcome ==
  ASSUME NEW r \in Runs
  PROVE MeasureIs(r)
<1>1. CASE request[r].command = "scenario-generate"
  BY <1>1 DEF MeasureIs, Outcome, MeasureCame
<1>2. CASE request[r].command = "scenario-check"
  BY <1>2 DEF MeasureIs, Outcome, MeasureCame
<1>3. CASE request[r].command = "measure"
  <2>1. Outcome(r, found[r]) = MeasureCame(r, found[r])
    BY <1>3 DEF Outcome
  <2> QED
    BY <1>3, <2>1 DEF MeasureIs, MeasureCame, Recordable
<1> QED
  BY <1>1, <1>2, <1>3 DEF MeasureIs

\* The steps before a child is started.
Asking == {"scenario-generate", "scenario-check", "measure", "python", "input", "scenario-manifest", "semantics"}

LEMMA AskingFacts ==
  ASSUME NEW r \in Runs, Works(r), pc[r] \in Asking
  PROVE /\ Intact(r) /\ found[r].loose = loose
        /\ pc[r] \in {"scenario-generate", "scenario-check", "measure"} => request[r].command = pc[r]
        /\ pc[r] \in {"python", "input"} => request[r].command = "measure" /\ loose.record = Absent
        /\ pc[r] = "input" => request[r].tools
        /\ pc[r] \in {"scenario-manifest", "semantics"} =>
             Scene(r) /\ (request[r].command = "scenario-check" \/ (request[r].command = "measure" /\ Recordable(r)))
        /\ pc[r] = "semantics" => request[r].manifest = "right"
        /\ observed[r] = <<>>
<1>1. Watches(r)
  BY DEF Works, Lone
<1>2. Intact(r)
  BY <1>1 DEF Watches, Asking
<1>3. found[r].loose = loose
  BY <1>2, Seen
<1>4. observed[r] = <<>>
  BY DEF Works, WholeInv, MeasureInv, Consistent, MeasureSteps, Asking
<1>5. /\ pc[r] \in {"scenario-generate", "scenario-check", "measure"} => request[r].command = pc[r]
      /\ pc[r] \in {"python", "input"} => request[r].command = "measure" /\ found[r].loose.record = Absent
      /\ pc[r] = "input" => request[r].tools
      /\ pc[r] \in {"scenario-manifest", "semantics"} =>
           Scene(r) /\ (request[r].command = "scenario-check" \/ (request[r].command = "measure" /\ Recordable(r)))
      /\ pc[r] = "semantics" => request[r].manifest = "right"
  BY <1>1 DEF Watches
<1> QED
  BY <1>2, <1>3, <1>4, <1>5

\* A command that has an input ends as that is.
LEMMA InputEnds ==
  ASSUME NEW r \in Runs, Works(r), Looks, Intact(r), NEW e, Exit(r, e), InputCame(r, found[r]) = e,
         request[r].command = "scenario-check" \/ (request[r].command = "measure" /\ Recordable(r) /\ e # "0")
  PROVE Due(r)
<1>1. MeasureIs(r)
  BY MeasureOutcome
<1>2. Outcome(r, found[r]) = Came(e, found[r])
  BY <1>1 DEF MeasureIs
<1> QED
  BY <1>2, Halted

\* It goes on to the next of these steps.
LEMMA AskingDue ==
  ASSUME NEW r \in Runs, Works(r), Looks, Intact(r), pc'[r] \in {"python", "input", "scenario-manifest", "semantics"},
         pc'[r] \in {"python", "input"} => request[r].command = "measure" /\ loose.record = Absent,
         pc'[r] = "input" => request[r].tools,
         pc'[r] \in {"scenario-manifest", "semantics"} =>
             Scene(r) /\ (request[r].command = "scenario-check" \/ (request[r].command = "measure" /\ Recordable(r))),
         pc'[r] = "semantics" => request[r].manifest = "right"
  PROVE Due(r)
<1>1. Intact(r)' /\ UNCHANGED <<found, request>> /\ found[r].loose = loose
  BY Looked, Seen
<1>2. Scene(r)' = Scene(r) /\ Recordable(r)' = Recordable(r)
  BY <1>1 DEF Scene, Recordable
<1>3. Watches(r)'
  BY <1>1, <1>2 DEF Watches
<1> QED
  BY <1>3, Looked, GoesOn

LEMMA ReadExactInputDue ==
  ASSUME NEW r \in Runs, Works(r), ReadExactInput(r)
  PROVE Due(r)
<1> DEFINE x == loose.scenario
<1>1. /\ pc[r] \in {"scenario-check", "input"} /\ Looks
      /\ IF ~IsFile(x) THEN Exit(r, "2") ELSE Check(r, Size(x) = "right" /\ x.bytes = Scenario, "scenario-manifest", "1")
  BY DEF ReadExactInput, TouchesNothing
<1>2. /\ Intact(r) /\ found[r].loose = loose
      /\ request[r].command = "scenario-check" \/ (request[r].command = "measure" /\ Recordable(r))
  <2>1. /\ Intact(r) /\ found[r].loose = loose
        /\ pc[r] = "scenario-check" => request[r].command = "scenario-check"
        /\ pc[r] = "input" => request[r].command = "measure" /\ loose.record = Absent /\ request[r].tools
    BY <1>1, AskingFacts DEF Asking
  <2> QED
    BY <1>1, <2>1 DEF Recordable
<1>3. CASE ~IsFile(x)
  <2>1. Exit(r, "2") /\ InputCame(r, found[r]) = "2"
    BY <1>1, <1>2, <1>3 DEF InputCame
  <2> QED
    BY <1>1, <1>2, <2>1, InputEnds
<1>4. CASE IsFile(x) /\ x.bytes # Scenario
  <2>1. Exit(r, "1") /\ InputCame(r, found[r]) = "1"
    BY <1>1, <1>2, <1>4 DEF InputCame, Check
  <2> QED
    BY <1>1, <1>2, <2>1, InputEnds
<1>5. CASE IsFile(x) /\ x.bytes = Scenario
  <2>1. Size(x) = "right"
    BY <1>5, SizesDiffer DEF Size
  <2>2. pc'[r] = "scenario-manifest"
    BY <1>1, <1>5, <2>1, WorksFacts DEF Check
  <2>3. Scene(r)
    BY <1>2, <1>5 DEF Scene
  <2> QED
    BY <1>1, <1>2, <2>2, <2>3, AskingDue
<1> QED
  BY <1>3, <1>4, <1>5

LEMMA CompareManifestDue ==
  ASSUME NEW r \in Runs, Works(r), CompareManifest(r)
  PROVE Due(r)
<1>1. /\ pc[r] = "scenario-manifest" /\ Looks
      /\ IF request[r].manifest = "unusable" THEN Exit(r, "2")
         ELSE Check(r, request[r].manifest = "right", "semantics", "1")
  BY DEF CompareManifest, TouchesNothing, At
<1>2. /\ Intact(r) /\ Scene(r)
      /\ request[r].command = "scenario-check" \/ (request[r].command = "measure" /\ Recordable(r))
  BY <1>1, AskingFacts DEF Asking
<1>3. CASE request[r].manifest = "unusable"
  <2>1. Exit(r, "2") /\ InputCame(r, found[r]) = "2"
    BY <1>1, <1>2, <1>3 DEF InputCame, Scene
  <2> QED
    BY <1>1, <1>2, <2>1, InputEnds
<1>4. CASE request[r].manifest \notin {"unusable", "right"}
  <2>1. Exit(r, "1") /\ InputCame(r, found[r]) = "1"
    BY <1>1, <1>2, <1>4 DEF InputCame, Scene, Check
  <2> QED
    BY <1>1, <1>2, <2>1, InputEnds
<1>5. CASE request[r].manifest = "right"
  <2>1. pc'[r] = "semantics"
    BY <1>1, <1>5, WorksFacts DEF Check
  <2> QED
    BY <1>1, <1>2, <1>5, <2>1, AskingDue
<1> QED
  BY <1>3, <1>4, <1>5

LEMMA RequireNewPathDue ==
  ASSUME NEW r \in Runs, Works(r), RequireNewPath(r)
  PROVE Due(r)
<1>1. pc[r] = "measure" /\ Looks /\ Check(r, loose.record = Absent, "python", "2")
  BY DEF RequireNewPath, TouchesNothing, At
<1>2. Intact(r) /\ request[r].command = "measure" /\ found[r].loose = loose
  BY <1>1, AskingFacts DEF Asking
<1>3. CASE loose.record = Absent
  <2>1. pc'[r] = "python"
    BY <1>1, <1>3, WorksFacts DEF Check
  <2> QED
    BY <1>1, <1>2, <1>3, <2>1, AskingDue
<1>4. CASE loose.record # Absent
  <2>1. Exit(r, "2") /\ ~Recordable(r) /\ MeasureIs(r)
    BY <1>1, <1>2, <1>4, MeasureOutcome DEF Recordable, Check
  <2>2. Outcome(r, found[r]) = Came("2", found[r])
    BY <1>2, <2>1 DEF MeasureIs
  <2> QED
    BY <1>1, <1>2, <2>1, <2>2, Halted
<1> QED
  BY <1>3, <1>4

LEMMA ValidatedPythonDue ==
  ASSUME NEW r \in Runs, Works(r), ValidatedPython(r)
  PROVE Due(r)
<1>1. pc[r] = "python" /\ Looks /\ Check(r, request[r].tools, "input", "2")
  BY DEF ValidatedPython, TouchesNothing, At
<1>2. Intact(r) /\ request[r].command = "measure" /\ found[r].loose = loose /\ loose.record = Absent
  BY <1>1, AskingFacts DEF Asking
<1>3. CASE request[r].tools
  <2>1. pc'[r] = "input"
    BY <1>1, <1>3, WorksFacts DEF Check
  <2> QED
    BY <1>1, <1>2, <1>3, <2>1, AskingDue
<1>4. CASE ~request[r].tools
  <2>1. Exit(r, "2") /\ ~Recordable(r) /\ MeasureIs(r)
    BY <1>1, <1>2, <1>4, MeasureOutcome DEF Recordable, Check
  <2>2. Outcome(r, found[r]) = Came("2", found[r])
    BY <1>2, <2>1 DEF MeasureIs
  <2> QED
    BY <1>1, <1>2, <2>1, <2>2, Halted
<1> QED
  BY <1>3, <1>4

\* The steps of the children, and of the record.
Telling == [environment |-> 0, report |-> Scenario]
Unanimous(r) == \A k \in DOMAIN observed[r] : observed[r][k] = Telling

LEMMA RecordingFacts ==
  ASSUME NEW r \in Runs, Works(r), pc[r] \in {"child", "measured", "new-record", "write-record"}
  PROVE /\ request[r].command = "measure" /\ Scene(r) /\ Recordable(r) /\ request[r].manifest = "right"
        /\ pc[r] \in {"child", "measured"} => Intact(r) /\ found[r].loose = loose
        /\ pc[r] \in {"new-record", "write-record"} => World = WithLoose(found[r], "record", [by |-> r, bytes |-> Empty])
        /\ Unanimous(r) /\ observed[r] \in Seq(Tellings)
        /\ InputCame(r, found[r]) = "0"
<1>1. Watches(r)
  BY DEF Works, Lone
<1>2. /\ request[r].command = "measure" /\ Scene(r) /\ Recordable(r) /\ request[r].manifest = "right"
      /\ pc[r] \in {"child", "measured"} => Intact(r)
      /\ pc[r] \in {"new-record", "write-record"} => World = WithLoose(found[r], "record", [by |-> r, bytes |-> Empty])
      /\ Unanimous(r)
  BY <1>1 DEF Watches, Unanimous, Telling
<1>3. observed[r] \in Seq(Tellings)
  BY DEF Works, WholeInv, MeasureInv
<1>4. InputCame(r, found[r]) = "0"
  BY <1>2 DEF InputCame, Scene
<1> QED
  BY <1>2, <1>3, <1>4, Seen

LEMMA RecordingDue ==
  ASSUME NEW r \in Runs, Works(r), SoundWorld(found[r])', UNCHANGED <<found, request>>,
         pc'[r] \in {"child", "measured", "new-record", "write-record"},
         request[r].command = "measure", Scene(r), Recordable(r), request[r].manifest = "right",
         pc'[r] \in {"child", "measured"} => Intact(r)',
         pc'[r] \in {"new-record", "write-record"} => World' = WithLoose(found[r], "record", [by |-> r, bytes |-> Empty]),
         Unanimous(r)'
  PROVE Due(r)
<1>1. Scene(r)' = Scene(r) /\ Recordable(r)' = Recordable(r)
  BY DEF Scene, Recordable
<1>2. \A k \in DOMAIN observed'[r] : observed'[r][k] = [environment |-> 0, report |-> Scenario]
  BY DEF Unanimous, Telling
<1>3. Watches(r)'
  BY <1>1, <1>2 DEF Watches
<1> QED
  BY <1>3, GoesOn

LEMMA VerifySemanticsDue ==
  ASSUME NEW r \in Runs, Works(r), VerifySemantics(r)
  PROVE Due(r)
<1>1. /\ pc[r] = "semantics" /\ Looks /\ UNCHANGED observed
      /\ IF request[r].command = "scenario-check"
         THEN Exit(r, IF Finds(loose.scenario) \in {Scenario, Akin} THEN "0" ELSE "1")
         ELSE Check(r, Finds(loose.scenario) \in {Scenario, Akin}, "child", "1")
  BY DEF VerifySemantics, TouchesNothing, At, Measuring, measureVars
<1>2. /\ Intact(r) /\ found[r].loose = loose /\ Scene(r) /\ request[r].manifest = "right" /\ observed[r] = <<>>
      /\ request[r].command = "scenario-check" \/ (request[r].command = "measure" /\ Recordable(r))
  BY <1>1, AskingFacts DEF Asking
<1>3. Finds(loose.scenario) \in {Scenario, Akin} /\ InputCame(r, found[r]) = "0"
  BY <1>2 DEF Finds, Scene, InputCame
<1>4. CASE request[r].command = "scenario-check"
  <2>1. Exit(r, "0")
    BY <1>1, <1>3, <1>4
  <2> QED
    BY <1>1, <1>2, <1>3, <1>4, <2>1, InputEnds
<1>5. CASE request[r].command = "measure" /\ Recordable(r)
  <2>1. pc'[r] = "child"
    BY <1>1, <1>3, <1>5, WorksFacts DEF Check
  <2>2. Unanimous(r)'
    BY <1>1, <1>2 DEF Unanimous
  <2>3. SoundWorld(found[r])' /\ UNCHANGED <<found, request>> /\ Intact(r)'
    BY <1>1, <1>2, Looked
  <2> QED
    BY <1>2, <1>5, <2>1, <2>2, <2>3, RecordingDue
<1> QED
  BY <1>2, <1>4, <1>5

\* The first child of a series is there.
LEMMA FirstThere ==
  ASSUME NEW s \in Seq(Tellings), \A k \in DOMAIN s : s[k] = Telling
  PROVE /\ First(Len(s) + 1) # Len(s) + 1 => s[First(Len(s) + 1)] = Telling
        /\ Len(s) > SeriesLength => s[First(Len(s))] = Telling /\ s[1] = Telling
<1>1. Len(s) \in Nat /\ DOMAIN s = 1..Len(s)
  BY LenProperties
<1>2. First(Len(s) + 1) \in 1..(Len(s) + 1)
  BY <1>1, FirstIsEarlier
<1>3. First(Len(s) + 1) # Len(s) + 1 => First(Len(s) + 1) \in DOMAIN s
  BY <1>1, <1>2
<1>4. ASSUME Len(s) > SeriesLength PROVE First(Len(s)) \in DOMAIN s /\ 1 \in DOMAIN s
  <2>1. Len(s) \in Nat \ {0}
    BY <1>1, <1>4, EverySeriesHasASample
  <2>2. First(Len(s)) \in 1..Len(s)
    BY <2>1, FirstIsEarlier
  <2>3. 1 \in 1..Len(s)
    BY <2>1
  <2> QED
    BY <1>1, <2>2, <2>3
<1> QED
  BY <1>3, <1>4

LEMMA RunChildDue ==
  ASSUME NEW r \in Runs, Works(r), RunChild(r), Steady
  PROVE Due(r)
<1>1. pc[r] = "child" /\ Looks
  BY DEF RunChild, At, TouchesNothing
<1>2. /\ Intact(r) /\ found[r].loose = loose /\ request[r].command = "measure" /\ Scene(r) /\ Recordable(r)
      /\ request[r].manifest = "right" /\ Unanimous(r) /\ observed[r] \in Seq(Tellings)
  BY <1>1, RecordingFacts
<1>3. Finds(loose.scenario) = Scenario
  BY <1>2 DEF Finds, Scene
<1>4. /\ Check(r, Telling.report \in {Scenario, Akin} /\ (SeriesBegins(r) \/ Telling = observed[r][First(Child(r))]), "child", "1")
      /\ observed' = [observed EXCEPT ![r] = Append(@, Telling)]
  <2>1. (IF "drift" \in others THEN {0, 1} ELSE {0}) = {0}
    BY DEF Steady
  <2>2. \E environment \in {0} :
          LET told0 == [environment |-> environment, report |-> Finds(loose.scenario)]
          IN /\ Check(r, told0.report \in {Scenario, Akin} /\ (SeriesBegins(r) \/ told0 = observed[r][First(Child(r))]),
                      "child", "1")
             /\ observed' = [observed EXCEPT ![r] = Append(@, told0)]
    BY <2>1, ZenonT(60) DEF RunChild
  <2> QED
    BY <1>3, <2>2 DEF Telling
<1>5. SeriesBegins(r) \/ Telling = observed[r][First(Child(r))]
  <2>1. \A k \in DOMAIN observed[r] : observed[r][k] = Telling
    BY <1>2 DEF Unanimous
  <2> QED
    BY <1>2, <2>1, FirstThere DEF SeriesBegins, Child
<1>6. Goto(r, "child")
  BY <1>4, <1>5 DEF Check, Telling
<1>7. pc'[r] = "child"
  BY <1>6, WorksFacts
<1>8. observed'[r] = Append(observed[r], Telling)
  BY <1>4, WorksFacts DEF Arrays
<1>9. Unanimous(r)'
  <2>1. \A k \in DOMAIN Append(observed[r], Telling) : Append(observed[r], Telling)[k] = Telling
    BY <1>2, SameAgain DEF Unanimous
  <2> QED
    BY <1>8, <2>1 DEF Unanimous
<1>10. SoundWorld(found[r])' /\ UNCHANGED <<found, request>> /\ Intact(r)'
  BY <1>1, <1>2, Looked
<1> QED
  BY <1>2, <1>7, <1>9, <1>10, RecordingDue

LEMMA SeriesDoNotDiffer ==
  ASSUME NEW r \in Runs, Works(r), pc[r] = "child"
  PROVE EarlierSeriesAgree(r)
<1>1. observed[r] \in Seq(Tellings) /\ \A k \in DOMAIN observed[r] : observed[r][k] = Telling
  BY RecordingFacts DEF Unanimous
<1>2. Len(observed[r]) > SeriesLength => observed[r][First(Len(observed[r]))] = Telling /\ observed[r][1] = Telling
  BY <1>1, FirstThere
<1> QED
  BY <1>2 DEF EarlierSeriesAgree

LEMMA EndOfMeasurementDue ==
  ASSUME NEW r \in Runs, Works(r), EndOfMeasurement(r)
  PROVE Due(r)
<1>1. pc[r] = "child" /\ Looks /\ Goto(r, "measured") /\ UNCHANGED observed
  BY DEF EndOfMeasurement, At, TouchesNothing, Measuring, measureVars
<1>2. /\ Intact(r) /\ request[r].command = "measure" /\ Scene(r) /\ Recordable(r)
      /\ request[r].manifest = "right" /\ Unanimous(r)
  BY <1>1, RecordingFacts
<1>3. pc'[r] = "measured" /\ Unanimous(r)'
  BY <1>1, <1>2, WorksFacts DEF Unanimous
<1>4. SoundWorld(found[r])' /\ UNCHANGED <<found, request>> /\ Intact(r)'
  BY <1>1, <1>2, Looked
<1> QED
  BY <1>2, <1>3, <1>4, RecordingDue

\* The file that a run is given, as it is when the run has made it.
LEMMA WithLooseIs ==
  ASSUME NEW w, SoundWorld(w), NEW n, NEW x
  PROVE WithLoose(w, n, x) = [tree |-> w.tree, links |-> w.links, place |-> w.place, used |-> w.used, holds |-> w.holds,
                              loose |-> [w.loose EXCEPT ![n] = x], dist |-> w.dist]
<1>1. PICK l : l = [w.loose EXCEPT ![n] = x]
  OBVIOUS
<1>2. PICK v : v = [w EXCEPT !.loose = l]
  OBVIOUS
<1>3. v = [tree |-> w.tree, links |-> w.links, place |-> w.place, used |-> w.used, holds |-> w.holds, loose |-> l, dist |-> w.dist]
  BY <1>2 DEF SoundWorld
<1>4. WithLoose(w, n, x) = v
  BY <1>1, <1>2 DEF WithLoose
<1> QED
  BY <1>1, <1>3, <1>4

LEMMA LooseChanges ==
  ASSUME NEW r \in Runs, SoundWorld(found[r]), NEW n \in LooseNames, NEW x, NEW y,
         World = WithLoose(found[r], n, x), LooseOK, TouchesLoose(r, n, y)
  PROVE World' = WithLoose(found[r], n, y) /\ loose[n] = x
<1>1. World = [tree |-> found[r].tree, links |-> found[r].links, place |-> found[r].place, used |-> found[r].used,
               holds |-> found[r].holds, loose |-> [found[r].loose EXCEPT ![n] = x], dist |-> found[r].dist]
  BY WithLooseIs
<1>2. /\ tree = found[r].tree /\ links = found[r].links /\ place = found[r].place /\ used = found[r].used
      /\ holds = found[r].holds /\ loose = [found[r].loose EXCEPT ![n] = x] /\ dist = found[r].dist
  BY <1>1 DEF World
<1>3. DOMAIN loose = LooseNames
  BY DEF LooseOK
<1>4. loose[n] = x /\ [loose EXCEPT ![n] = y] = [found[r].loose EXCEPT ![n] = y]
  BY <1>2, <1>3
<1>5. UNCHANGED <<tree, links, place, used, holds, dist>> /\ loose' = [found[r].loose EXCEPT ![n] = y]
  BY <1>4 DEF TouchesLoose, sources
<1>6. World' = [tree |-> found[r].tree, links |-> found[r].links, place |-> found[r].place, used |-> found[r].used,
                holds |-> found[r].holds, loose |-> [found[r].loose EXCEPT ![n] = y], dist |-> found[r].dist]
  BY <1>2, <1>5 DEF World
<1> QED
  BY <1>4, <1>6, WithLooseIs

LEMMA LooseIsMade ==
  ASSUME NEW r \in Runs, SoundWorld(found[r]), NEW n, NEW y, Intact(r), TouchesLoose(r, n, y)
  PROVE World' = WithLoose(found[r], n, y)
<1>1. /\ found[r].tree = tree /\ found[r].links = links /\ found[r].place = place /\ found[r].used = used
      /\ found[r].holds = holds /\ found[r].loose = loose /\ found[r].dist = dist
  BY Seen
<1>2. UNCHANGED <<tree, links, place, used, holds, dist>> /\ loose' = [loose EXCEPT ![n] = y]
  BY DEF TouchesLoose, sources
<1>3. World' = [tree |-> found[r].tree, links |-> found[r].links, place |-> found[r].place, used |-> found[r].used,
                holds |-> found[r].holds, loose |-> [found[r].loose EXCEPT ![n] = y], dist |-> found[r].dist]
  BY <1>1, <1>2 DEF World
<1> QED
  BY <1>3, WithLooseIs

\* A scenario that is being written.
LEMMA WritingDue ==
  ASSUME NEW r \in Runs, Works(r), SoundWorld(found[r])', UNCHANGED <<found, request>>,
         pc'[r] \in {"new-scenario", "write-scenario"},
         request[r].command = "scenario-generate", found[r].loose.scenario = Absent,
         World' = WithLoose(found[r], "scenario", [by |-> r, bytes |-> Empty])
  PROVE Due(r)
<1>1. Watches(r)'
  BY DEF Watches
<1> QED
  BY <1>1, GoesOn

LEMMA CreateLooseDue ==
  ASSUME NEW r \in Runs, Works(r), NEW n, n \in LooseNames, CreateLoose(r, n)
  PROVE Due(r)
<1>1. /\ pc[r] = CreatesAt[n] /\ UNCHANGED observed
      /\ IF loose[n] = Absent
         THEN TouchesLoose(r, n, [by |-> r, bytes |-> Empty]) /\ Goto(r, CreatedAt[n])
         ELSE TouchesNothing /\ Exit(r, "2")
  BY DEF CreateLoose, At, Measuring, measureVars
<1>2. LooseOK /\ SoundWorld(found[r])
  BY WorksFacts DEF Works, WholeInv, MeasureInv
<1>3. ASSUME TouchesLoose(r, n, [by |-> r, bytes |-> Empty]) PROVE SoundWorld(found[r])' /\ UNCHANGED <<found, request>>
  <2>1. UNCHANGED <<found, request>>
    BY <1>3 DEF TouchesLoose, Disturbs, circumstances
  <2> QED
    BY <1>2, <2>1 DEF SoundWorld
<1>4. CASE n = "scenario"
  <2>1. pc[r] = "scenario-generate" /\ CreatedAt[n] = "new-scenario"
    BY <1>1, <1>4 DEF CreatesAt, CreatedAt
  <2>2. Intact(r) /\ found[r].loose = loose /\ request[r].command = "scenario-generate"
    BY <2>1, AskingFacts DEF Asking
  <2>3. CASE loose[n] = Absent
    <3>1. TouchesLoose(r, n, [by |-> r, bytes |-> Empty]) /\ pc'[r] = "new-scenario"
      BY <1>1, <2>1, <2>3, WorksFacts
    <3>2. World' = WithLoose(found[r], n, [by |-> r, bytes |-> Empty])
      BY <1>2, <2>2, <3>1, LooseIsMade
    <3> QED
      BY <1>3, <1>4, <2>2, <2>3, <3>1, <3>2, WritingDue
  <2>4. CASE loose[n] # Absent
    <3>1. Looks /\ Exit(r, "2")
      BY <1>1, <2>4 DEF TouchesNothing
    <3>2. MeasureIs(r)
      BY MeasureOutcome
    <3>3. Outcome(r, found[r]) = Came("2", found[r])
      BY <1>4, <2>2, <2>4, <3>2 DEF MeasureIs
    <3> QED
      BY <2>2, <3>1, <3>3, Halted
  <2> QED
    BY <2>3, <2>4
<1>5. CASE n = "record"
  <2>1. pc[r] = "measured" /\ CreatedAt[n] = "new-record"
    BY <1>1, <1>5 DEF CreatesAt, CreatedAt
  <2>2. /\ Intact(r) /\ found[r].loose = loose /\ request[r].command = "measure" /\ Scene(r) /\ Recordable(r)
        /\ request[r].manifest = "right" /\ Unanimous(r)
    BY <2>1, RecordingFacts
  <2>3. TouchesLoose(r, n, [by |-> r, bytes |-> Empty]) /\ pc'[r] = "new-record"
    BY <1>1, <1>5, <2>1, <2>2, WorksFacts DEF Recordable
  <2>4. World' = WithLoose(found[r], n, [by |-> r, bytes |-> Empty])
    BY <1>2, <2>2, <2>3, LooseIsMade
  <2>5. Unanimous(r)'
    BY <1>1, <2>2 DEF Unanimous
  <2> QED
    BY <1>3, <1>5, <2>2, <2>3, <2>4, <2>5, RecordingDue
<1> QED
  BY <1>4, <1>5 DEF LooseNames

LEMMA IdentifyLooseDue ==
  ASSUME NEW r \in Runs, Works(r), NEW n, n \in LooseNames, IdentifyLoose(r, n)
  PROVE Due(r)
<1>1. pc[r] = CreatedAt[n] /\ UNCHANGED observed /\ Looks /\ Goto(r, WritesAt[n])
  BY DEF IdentifyLoose, At, Measuring, measureVars, TouchesNothing
<1>2. SoundWorld(found[r])' /\ UNCHANGED <<found, request>> /\ World' = World
  BY <1>1, Looked
<1>3. CASE n = "scenario"
  <2>1. pc[r] = "new-scenario" /\ WritesAt[n] = "write-scenario"
    BY <1>1, <1>3 DEF CreatedAt, WritesAt
  <2>2. pc'[r] = "write-scenario"
    BY <1>1, <2>1, WorksFacts
  <2>3. /\ request[r].command = "scenario-generate" /\ found[r].loose.scenario = Absent
        /\ World = WithLoose(found[r], "scenario", [by |-> r, bytes |-> Empty])
    <3>1. Watches(r)
      BY DEF Works, Lone
    <3> QED
      BY <2>1, <3>1 DEF Watches
  <2> QED
    BY <1>2, <2>2, <2>3, WritingDue
<1>4. CASE n = "record"
  <2>1. pc[r] = "new-record" /\ WritesAt[n] = "write-record"
    BY <1>1, <1>4 DEF CreatedAt, WritesAt
  <2>2. pc'[r] = "write-record"
    BY <1>1, <2>1, WorksFacts
  <2>3. /\ request[r].command = "measure" /\ Scene(r) /\ Recordable(r) /\ request[r].manifest = "right" /\ Unanimous(r)
        /\ World = WithLoose(found[r], "record", [by |-> r, bytes |-> Empty])
    BY <2>1, RecordingFacts
  <2>4. Unanimous(r)'
    BY <1>1, <2>3 DEF Unanimous
  <2> QED
    BY <1>2, <2>2, <2>3, <2>4, RecordingDue
<1> QED
  BY <1>3, <1>4 DEF LooseNames

\* The bytes arrive in the file that the run has made.
LEMMA WriteEnds ==
  ASSUME NEW r \in Runs, Works(r), NEW n, n \in LooseNames, NEW b, WriteLoose(r, n, b),
         World = WithLoose(found[r], n, [by |-> r, bytes |-> Empty]),
         Outcome(r, found[r]) = Came("0", WithLoose(found[r], n, [by |-> r, bytes |-> b]))
  PROVE Due(r)
<1>1. LooseOK /\ SoundWorld(found[r]) /\ Exit(r, "0")
  BY WorksFacts DEF Works, WholeInv, MeasureInv, WriteLoose
<1>2. Mine(r, n)
  <2>1. World = [tree |-> found[r].tree, links |-> found[r].links, place |-> found[r].place, used |-> found[r].used,
                 holds |-> found[r].holds, loose |-> [found[r].loose EXCEPT ![n] = [by |-> r, bytes |-> Empty]],
                 dist |-> found[r].dist]
    BY <1>1, WithLooseIs
  <2>2. loose = [found[r].loose EXCEPT ![n] = [by |-> r, bytes |-> Empty]] /\ DOMAIN loose = LooseNames
    BY <1>1, <2>1 DEF World, LooseOK
  <2> QED
    BY <2>2 DEF Mine
<1>3. TouchesLoose(r, n, [by |-> r, bytes |-> b])
  BY <1>2 DEF WriteLoose
<1>4. World' = WithLoose(found[r], n, [by |-> r, bytes |-> b])
  BY <1>1, <1>3, LooseChanges
<1>5. pc'[r] = "ended" /\ exit'[r] = "0"
  BY <1>1, WorksFacts
<1> QED
  BY <1>4, <1>5 DEF Due

LEMMA WriteScenarioDue ==
  ASSUME NEW r \in Runs, Works(r), WriteLoose(r, "scenario", Scenario)
  PROVE Due(r)
<1>1. pc[r] = "write-scenario"
  BY DEF WriteLoose, At, WritesAt
<1>2. /\ request[r].command = "scenario-generate" /\ found[r].loose.scenario = Absent
      /\ World = WithLoose(found[r], "scenario", [by |-> r, bytes |-> Empty])
  <2>1. Watches(r)
    BY DEF Works, Lone
  <2> QED
    BY <1>1, <2>1 DEF Watches
<1>3. MeasureIs(r)
  BY MeasureOutcome
<1>4. Outcome(r, found[r]) = Came("0", WithLoose(found[r], "scenario", [by |-> r, bytes |-> Scenario]))
  BY <1>2, <1>3 DEF MeasureIs, WithLoose
<1> QED
  BY <1>2, <1>4, WriteEnds DEF LooseNames

\* The record has one environment, and the scenario's report for every format.
LEMMA RecordIsOfAll ==
  ASSUME NEW r \in Runs, Works(r), pc[r] = "write-record"
  PROVE Record(r) = RecordOfAll
<1>1. observed[r] \in Seq(Tellings) /\ \A k \in DOMAIN observed[r] : observed[r][k] = Telling
  BY RecordingFacts DEF Unanimous
<1>2. Len(observed[r]) = Len(ReportFormats) * SeriesLength
  BY DEF Works, WholeInv, MeasureInv, Consistent, Complete
<1>3. \A f \in 1..Len(ReportFormats) : (f - 1) * SeriesLength + 1 \in 1..(Len(ReportFormats) * SeriesLength)
  <2>1. ASSUME NEW f \in Nat, NEW l \in Nat, NEW m \in Nat \ {0}, 1 <= f, f <= l
        PROVE (f - 1) * m + 1 >= 1 /\ (f - 1) * m + 1 <= l * m /\ (f - 1) * m + 1 \in Nat
    <3>1. PICK g : g = f - 1
      OBVIOUS
    <3>2. PICK h : h = l - f
      OBVIOUS
    <3>3. g \in Nat /\ h \in Nat /\ l = g + h + 1
      BY <2>1, <3>1, <3>2
    <3>4. l * m = g * m + h * m + m
      BY <3>3
    <3>5. g * m \in Nat /\ h * m \in Nat
      BY <3>3
    <3>6. g * m + 1 <= g * m + h * m + m
      BY <3>5
    <3> QED
      BY <3>1, <3>4, <3>5, <3>6
  <2>2. Len(ReportFormats) \in Nat /\ SeriesLength \in Nat \ {0}
    BY FormatsAreListed, EverySeriesHasASample
  <2> QED
    BY <2>1, <2>2
<1>4. DOMAIN observed[r] = 1..(Len(ReportFormats) * SeriesLength)
  BY <1>1, <1>2, LenProperties
<1>5. 1 \in DOMAIN observed[r]
  <2>1. 1 \in 1..Len(ReportFormats) /\ (1 - 1) * SeriesLength + 1 = 1
    BY FormatsAreListed, EverySeriesHasASample
  <2> QED
    BY <1>3, <1>4, <2>1
<1>6. observed[r][1].environment = 0
  BY <1>1, <1>5 DEF Telling
<1>7. \A f \in 1..Len(ReportFormats) : observed[r][(f - 1) * SeriesLength + 1].report = Scenario
  BY <1>1, <1>3, <1>4 DEF Telling
<1> QED
  BY <1>6, <1>7 DEF Record, RecordOfAll

LEMMA WriteRecordDue ==
  ASSUME NEW r \in Runs, Works(r), At(r, "write-record"), WriteLoose(r, "record", Record(r))
  PROVE Due(r)
<1>1. pc[r] = "write-record"
  BY DEF At
<1>2. /\ request[r].command = "measure" /\ Recordable(r) /\ InputCame(r, found[r]) = "0"
      /\ World = WithLoose(found[r], "record", [by |-> r, bytes |-> Empty])
  BY <1>1, RecordingFacts
<1>3. MeasureIs(r) /\ Record(r) = RecordOfAll
  BY <1>1, MeasureOutcome, RecordIsOfAll
<1>4. Outcome(r, found[r]) = Came("0", WithLoose(found[r], "record", [by |-> r, bytes |-> Record(r)]))
  BY <1>2, <1>3 DEF MeasureIs, WithLoose
<1> QED
  BY <1>2, <1>4, WriteEnds DEF LooseNames

-----------------------------------------------------------------------------
(* Every step of a run that nothing disturbs. *)
LEMMA CorpusDue ==
  ASSUME NEW r \in Runs, Works(r), r \in alone', CorpusStep(r), UNCHANGED managed
  PROVE Due(r)
<1>1. CASE (ValidateTarget(r, "corpus-generate") \/ LookAtTarget(r) \/ MakeTarget(r) \/ InspectTarget(r)) /\ NotReplaying
  BY <1>1, ValidateTargetDue, LookAtTargetDue, MakeTargetDue, InspectTargetDue
<1>2. CASE (MakeParents(r) \/ CreateManaged(r) \/ FillManaged(r) \/ EndOfCorpus(r)) /\ NotReplaying
  BY <1>2, MakeParentsDue, CreateManagedDue, FillManagedDue, EndOfCorpusDue
<1>3. CASE (FindCorpus(r) \/ WalkCorpus(r) \/ ExamineWalked(r) \/ ComparePaths(r)) /\ NotReplaying
  BY <1>3, FindCorpusDue, WalkCorpusDue, ExamineWalkedDue, ComparePathsDue
<1>4. CASE (SizeManaged(r) \/ ReadManaged(r) \/ EndOfCheck(r)) /\ NotReplaying
  BY <1>4, SizeManagedDue, ReadManagedDue, EndOfCheckDue DEF NotReplaying
<1>5. CASE LoadManifest(r) \/ ReplayScenario(r) \/ ReplayValidation(r)
  BY <1>5, LoadManifestDue, ReplayScenarioDue, ReplayValidationDue
<1>6. ~ReplayFails(r)
  BY DEF ReplayFails, Meets
<1> QED
  BY <1>1, <1>2, <1>3, <1>4, <1>5, <1>6 DEF CorpusStep

LEMMA ReportsDue ==
  ASSUME NEW r \in Runs, Works(r), ReportsStep(r)
  PROVE Due(r)
<1>1. CASE BeginReports(r) \/ ReadInput(r) \/ EndOfBefore(r) \/ OpenLoaded(r) \/ LoadInput(r) \/ Evaluate(r)
  BY <1>1, BeginReportsDue, ReadInputDue, EndOfBeforeDue, OpenLoadedDue, LoadInputDue, EvaluateDue
<1>2. CASE CompareProvenance(r) \/ CompareEntries(r) \/ EndOfScenario(r)
  BY <1>2, CompareProvenanceDue, CompareEntriesDue, EndOfScenarioDue
<1>3. CASE ValidateTarget(r, "reports-target") /\ Deriving
  BY <1>3, ValidateTargetDue DEF Deriving
<1>4. CASE OpenOutput(r) \/ InspectOutput(r) \/ CreatePage(r) \/ FillPage(r) \/ EndOfPages(r)
  BY <1>4, OpenOutputDue, InspectOutputDue, CreatePageDue, FillPageDue, EndOfPagesDue
<1>5. CASE FindReports(r) \/ OpenReports(r) \/ ListReports(r) \/ ExamineReport(r) \/ CompareNames(r)
  BY <1>5, FindReportsDue, OpenReportsDue, ListReportsDue, ExamineReportDue, CompareNamesDue
<1>6. CASE SizePage(r) \/ ReadPage(r) \/ EndOfReportsCheck(r)
  BY <1>6, SizePageDue, ReadPageDue, EndOfReportsCheckDue
<1> QED
  BY <1>1, <1>2, <1>3, <1>4, <1>5, <1>6 DEF ReportsStep

LEMMA BuildDue ==
  ASSUME NEW r \in Runs, Works(r), Steady, BuildStep(r)
  PROVE Due(r)
BY PreflightOutputDue, OpenVersionDue, ReadVersionDue, CopySourceDue, ListPackageDue, StagedOnceDue, StagedTwiceDue,
   IdentifyEnvironmentDue, BuildOnceDue, CompareBuildsDue, PublishDue DEF BuildStep

LEMMA MeasureDue ==
  ASSUME NEW r \in Runs, Works(r), Steady, r \in alone', MeasureStep(r)
  PROVE Due(r)
<1>1. ASSUME NEW n \in LooseNames, CreateLoose(r, n) \/ IdentifyLoose(r, n) PROVE Due(r)
  BY <1>1, CreateLooseDue, IdentifyLooseDue
<1>2. ASSUME NEW n \in LooseNames PROVE ~WriteFails(r, n) /\ ~Recognize(r, n) /\ ~Withdraw(r, n)
  <2>1. pc[r] \notin {"compare-scenario", "compare-record", "unlink-scenario", "unlink-record"}
    BY DEF Works, Lone, Watches
  <2>2. ComparesAt[n] \in {"compare-scenario", "compare-record"} /\ RemovesAt[n] \in {"unlink-scenario", "unlink-record"}
    BY <1>2 DEF LooseNames, ComparesAt, RemovesAt
  <2> QED
    BY <2>1, <2>2 DEF WriteFails, Meets, Recognize, Withdraw, At
<1>3. CASE WriteLoose(r, "scenario", Scenario) \/ (At(r, "write-record") /\ WriteLoose(r, "record", Record(r)))
  BY <1>3, WriteScenarioDue, WriteRecordDue
<1>4. CASE ReadExactInput(r) \/ CompareManifest(r) \/ VerifySemantics(r) \/ RequireNewPath(r) \/ ValidatedPython(r)
  BY <1>4, ReadExactInputDue, CompareManifestDue, VerifySemanticsDue, RequireNewPathDue, ValidatedPythonDue
<1>5. CASE RunChild(r) \/ EndOfMeasurement(r)
  BY <1>5, RunChildDue, EndOfMeasurementDue
<1>6. ~ChildFails(r) /\ ~SeriesDiffer(r)
  BY SeriesDoNotDiffer DEF ChildFails, Meets, SeriesDiffer, At
<1> QED
  BY <1>1, <1>2, <1>3, <1>4, <1>5, <1>6 DEF MeasureStep

LEMMA OwnDue ==
  ASSUME NEW r \in Runs, Works(r), Steady, r \in alone', Corpuses(r) \/ Reports(r) \/ Builds(r) \/ Measures(r)
  PROVE Due(r)
BY CorpusDue, ReportsDue, BuildDue, MeasureDue DEF Corpuses, Reports, Builds, Measures, reportVars

-----------------------------------------------------------------------------
(* All steps. *)
LEMMA AtWork ==
  ASSUME TypeOK, NEW q \in Runs, CorpusStep(q) \/ ReportsStep(q) \/ BuildStep(q) \/ MeasureStep(q)
  PROVE pc[q] \notin {"begin", "ended"}
<1> USE DEF At
<1>1. CASE CorpusStep(q)
  <2>1. CASE ValidateTarget(q, "corpus-generate") \/ LookAtTarget(q) \/ MakeTarget(q) \/ InspectTarget(q) \/ MakeParents(q)
    BY <2>1 DEF ValidateTarget, LookAtTarget, MakeTarget, InspectTarget, MakeParents
  <2>2. CASE CreateManaged(q) \/ FillManaged(q) \/ EndOfCorpus(q) \/ FindCorpus(q) \/ WalkCorpus(q) \/ ExamineWalked(q)
    BY <2>2 DEF CreateManaged, FillManaged, EndOfCorpus, FindCorpus, WalkCorpus, ExamineWalked
  <2>3. CASE ComparePaths(q) \/ SizeManaged(q) \/ ReadManaged(q) \/ EndOfCheck(q)
    BY <2>3 DEF ComparePaths, SizeManaged, ReadManaged, EndOfCheck
  <2>4. CASE LoadManifest(q) \/ ReplayScenario(q) \/ ReplayValidation(q) \/ ReplayFails(q)
    BY <2>4 DEF LoadManifest, ReplayScenario, ReplayValidation, ReplayFails
  <2> QED
    BY <1>1, <2>1, <2>2, <2>3, <2>4 DEF CorpusStep
<1>2. CASE ReportsStep(q)
  <2>1. CASE BeginReports(q) \/ ReadInput(q) \/ EndOfBefore(q) \/ OpenLoaded(q) \/ LoadInput(q) \/ Evaluate(q)
    BY <2>1 DEF BeginReports, Derives, ReadInput, EndOfBefore, OpenLoaded, LoadInput, Evaluate
  <2>2. CASE CompareProvenance(q) \/ CompareEntries(q) \/ EndOfScenario(q) \/ ValidateTarget(q, "reports-target")
    BY <2>2 DEF CompareProvenance, CompareEntries, EndOfScenario, EntriesRead, ValidateTarget
  <2>3. CASE OpenOutput(q) \/ InspectOutput(q) \/ CreatePage(q) \/ FillPage(q) \/ EndOfPages(q)
    BY <2>3 DEF OpenOutput, InspectOutput, CreatePage, FillPage, EndOfPages
  <2>4. CASE FindReports(q) \/ OpenReports(q) \/ ListReports(q) \/ ExamineReport(q) \/ CompareNames(q)
    BY <2>4 DEF FindReports, OpenReports, ListReports, ExamineReport, CompareNames
  <2>5. CASE SizePage(q) \/ ReadPage(q) \/ EndOfReportsCheck(q)
    BY <2>5 DEF SizePage, ReadPage, EndOfReportsCheck
  <2> QED
    BY <1>2, <2>1, <2>2, <2>3, <2>4, <2>5 DEF ReportsStep
<1>3. CASE BuildStep(q)
  BY <1>3, BuildGoes DEF Undirected
<1>4. CASE MeasureStep(q)
  BY <1>4, MeasureGoes DEF Undirected
<1> QED
  BY <1>1, <1>2, <1>3, <1>4

\* A run that begins finds the world as it is.
LEMMA StartIsLone ==
  ASSUME IInv, WholeInv, NEW r \in Runs, Start(r)
  PROVE Lone(r)'
<1>1. TypeOK /\ UsedInv /\ OutputOK /\ Arrays
  BY ArraysAre DEF IInv, WholeInv, DirectoriesInv
<1>2. World' = World /\ found'[r] = World /\ request' = request /\ pc'[r] = request[r].command
  BY <1>1 DEF Start, Goto, World, sources, outputs, circumstances, Arrays
<1>3. SoundWorld(World)
  <2>1. World.tree = tree /\ World.links = links /\ World.place = place /\ World.used = used /\ World.holds = holds
    BY DEF World
  <2>2. World = [tree |-> World.tree, links |-> World.links, place |-> World.place, used |-> World.used, holds |-> World.holds,
                 loose |-> World.loose, dist |-> World.dist]
    BY DEF World
  <2> QED
    BY <1>1, <2>1, <2>2 DEF SoundWorld, TypeOK, TreeOK, OutputOK, UsedInv
<1>4. SoundWorld(found[r])'
  BY <1>2, <1>3 DEF SoundWorld
<1>5. Intact(r)'
  BY <1>2 DEF Intact
<1>6. request'[r].command = pc'[r] /\ pc'[r] \in Commands
  BY <1>1, <1>2 DEF Start, TypeOK, TreeOK
<1>7. Due(r)
  <2>1. CASE pc'[r] = "corpus-generate"
    <3>1. Targets(r)'
      BY <1>5, <1>6, <2>1 DEF Targets, Derivation, OfCorpus
    <3> QED
      BY <1>4, <2>1, <3>1, GoesOn
  <2>2. CASE pc'[r] \in {"corpus-check", "corpus-replay"}
    <3>1. Inspects(r)'
      BY <1>5, <1>6, <2>2 DEF Inspects, Derivation, OfCorpus
    <3> QED
      BY <1>4, <2>2, <3>1, GoesOn
  <2>3. CASE pc'[r] \in {"reports-generate", "reports-check"}
    <3>1. Deduces(r)'
      BY <1>5, <2>3 DEF Deduces, Reading
    <3> QED
      BY <1>4, <2>3, <3>1, GoesOn
  <2>4. CASE pc'[r] = "build"
    <3>1. Makes(r)'
      BY <1>5, <1>6, <2>4 DEF Makes, Staging, Checked
    <3> QED
      BY <1>4, <2>4, <3>1, GoesOn
  <2>5. CASE pc'[r] \in {"scenario-generate", "scenario-check", "measure"}
    <3>1. Watches(r)'
      BY <1>5, <1>6, <2>5 DEF Watches
    <3> QED
      BY <1>4, <2>5, <3>1, GoesOn
  <2> QED
    BY <1>6, <2>1, <2>2, <2>3, <2>4, <2>5 DEF Commands
<1> QED
  BY <1>6, <1>7 DEF Due, Commands

\* A run that starts or breaks leaves the others alone.
LEMMA StartOrBreakSpares ==
  ASSUME Arrays, NEW q \in Runs, Start(q) \/ Break(q), UNCHANGED <<corpusVars, reportVars, buildVars, measureVars>>
  PROVE /\ \A r \in Runs \ {q} : Undisturbed(r)
        /\ UNCHANGED others /\ alone' \subseteq alone
<1> USE DEF Arrays, Undisturbed, Unmoved, World, sources, outputs, circumstances, walking, collecting, control,
            corpusVars, reportVars, buildVars, measureVars
<1>1. CASE Start(q)
  BY <1>1 DEF Start, Goto
<1>2. CASE Break(q)
  <2>1. \A r \in Runs \ {q} : pc'[r] = pc[r] /\ exit'[r] = exit[r]
    BY <1>2 DEF Break, Exit
  <2>2. UNCHANGED <<sources, outputs, circumstances, walking, collecting, found>> /\ alone' \subseteq alone
    BY <1>2 DEF Break, Meets
  <2> QED
    BY <2>1, <2>2
<1> QED
  BY <1>1, <1>2

LEMMA StepSpares ==
  ASSUME Arrays, NEW q \in Runs, Corpuses(q) \/ Reports(q) \/ Builds(q) \/ Measures(q)
  PROVE Spares(q)
BY CorpusSpares, ReportsSpares, BuildSpares, MeasureSpares DEF Corpuses, Reports, Builds, Measures

\* Others, who are no run, disturb all that are at work.
LEMMA MeddlingStops ==
  ASSUME Edit \/ Change \/ Move, NEW r \in Runs
  PROVE /\ UNCHANGED <<pc, exit, others>>
        /\ r \in alone' => pc[r] = "begin"
<1>1. Disturbs(Others) /\ UNCHANGED <<pc, exit, others>>
  BY DEF Edit, Change, Move, control
<1> QED
  BY <1>1, OthersAreNoRun DEF Disturbs, At

\* A run that never comes to its replay.
LEMMA CorpusStaysPlayable ==
  ASSUME TypeOK, Tied, NEW q \in Runs, CorpusStep(q), Playable(q)
  PROVE Playable(q)'
<1> USE DEF Check
<1>1. Barred(q)' = Barred(q)
  BY CorpusGoes DEF Barred, Misnamed
<1>2. /\ \A s : Goto(q, s) => pc'[q] = s
      /\ \A e : Exit(q, e) => pc'[q] = "ended"
  BY Went
<1>3. ASSUME NotReplaying, pc'[q] # "replay" PROVE Playable(q)'
  BY <1>1, <1>3 DEF Playable, NotReplaying, corpusVars
<1>4. CASE (ValidateTarget(q, "corpus-generate") \/ LookAtTarget(q) \/ MakeTarget(q) \/ InspectTarget(q)) /\ NotReplaying
  BY <1>2, <1>3, <1>4 DEF ValidateTarget, LookAtTarget, MakeTarget, InspectTarget
<1>5. CASE (MakeParents(q) \/ CreateManaged(q) \/ FillManaged(q) \/ EndOfCorpus(q)) /\ NotReplaying
  BY <1>2, <1>3, <1>5 DEF MakeParents, CreateManaged, FillManaged, EndOfCorpus, CreateEntry, FillEntry
<1>6. CASE (FindCorpus(q) \/ WalkCorpus(q) \/ ExamineWalked(q) \/ ComparePaths(q)) /\ NotReplaying
  BY <1>2, <1>3, <1>6 DEF FindCorpus, WalkCorpus, ExamineWalked, ComparePaths
<1>7. CASE (SizeManaged(q) \/ ReadManaged(q) \/ EndOfCheck(q)) /\ NotReplaying
  BY <1>2, <1>3, <1>7 DEF SizeManaged, ReadManaged, EndOfCheck
<1>8. CASE LoadManifest(q)
  <2>1. NotReplaying /\ (pc'[q] = "replay" => ~Misnamed(q))
    BY <1>2, <1>8 DEF LoadManifest
  <2> QED
    BY <1>1, <1>3, <2>1 DEF Playable, Barred
<1>9. CASE ReplayScenario(q) \/ ReplayValidation(q) \/ ReplayFails(q)
  <2>1. pc[q] = "replay"
    BY <1>9 DEF ReplayScenario, ReplayValidation, ReplayFails, At
  <2> QED
    BY <1>1, <2>1 DEF Playable
<1> QED
  BY <1>4, <1>5, <1>6, <1>7, <1>8, <1>9 DEF CorpusStep

\* The other scripts replay nothing.
LEMMA ReplaysNothing ==
  ASSUME TypeOK, Tied, NEW q \in Runs, ReportsStep(q) \/ BuildStep(q) \/ MeasureStep(q)
  PROVE Playable(q)'
<1>1. Tie(q)
  BY DEF Tied
<1>2. ASSUME ReportsStep(q) PROVE request[q].command # "corpus-replay"
  <2> USE DEF At, Tie
  <2>1. CASE BeginReports(q) \/ ReadInput(q) \/ EndOfBefore(q) \/ OpenLoaded(q) \/ LoadInput(q) \/ Evaluate(q)
    BY <1>1, <2>1 DEF BeginReports, Derives, ReadInput, EndOfBefore, OpenLoaded, LoadInput, Evaluate
  <2>2. CASE CompareProvenance(q) \/ CompareEntries(q) \/ EndOfScenario(q) \/ ValidateTarget(q, "reports-target")
    BY <1>1, <2>2 DEF CompareProvenance, CompareEntries, EndOfScenario, EntriesRead, ValidateTarget
  <2>3. CASE OpenOutput(q) \/ InspectOutput(q) \/ CreatePage(q) \/ FillPage(q) \/ EndOfPages(q)
    BY <1>1, <2>3 DEF OpenOutput, InspectOutput, CreatePage, FillPage, EndOfPages
  <2>4. CASE FindReports(q) \/ OpenReports(q) \/ ListReports(q) \/ ExamineReport(q) \/ CompareNames(q)
    BY <1>1, <2>4 DEF FindReports, OpenReports, ListReports, ExamineReport, CompareNames
  <2>5. CASE SizePage(q) \/ ReadPage(q) \/ EndOfReportsCheck(q)
    BY <1>1, <2>5 DEF SizePage, ReadPage, EndOfReportsCheck
  <2> QED
    BY <1>2, <2>1, <2>2, <2>3, <2>4, <2>5 DEF ReportsStep
<1>3. ASSUME BuildStep(q) \/ MeasureStep(q) PROVE request[q].command # "corpus-replay"
  BY <1>1, <1>3, BuildGoes, MeasureGoes DEF Tie, Directing
<1>4. UNCHANGED request
  BY ReportsGoes, BuildGoes, MeasureGoes
<1> QED
  BY <1>2, <1>3, <1>4 DEF Playable, Barred

LEMMA PlayableKept == IInv /\ WholeInv /\ OutcomeInv /\ [Next]_vars => \A r \in Runs : Playable(r)'
<1> SUFFICES ASSUME IInv, WholeInv, OutcomeInv, [Next]_vars, NEW r \in Runs PROVE Playable(r)'
  OBVIOUS
<1>1. TypeOK /\ Tied /\ Arrays /\ Playable(r)
  BY ArraysAre DEF IInv, WholeInv, OutcomeInv
<1>2. ASSUME pc'[r] \in {pc[r], request[r].command, "ended"}, replayed'[r] = replayed[r], request' = request PROVE Playable(r)'
  <2>1. request[r].command # "replay"
    BY <1>1 DEF TypeOK, TreeOK, Commands
  <2> QED
    BY <1>1, <1>2, <2>1 DEF Playable, Barred, Misnamed
<1>3. ASSUME NEW q \in Runs, Corpuses(q) \/ Reports(q) \/ Builds(q) \/ Measures(q) PROVE Playable(r)'
  <2>1. CASE q = r
    BY <1>1, <1>3, <2>1, CorpusStaysPlayable, ReplaysNothing DEF Corpuses, Reports, Builds, Measures
  <2>2. CASE q # r
    <3>1. Spares(q)
      BY <1>1, <1>3, StepSpares
    <3> QED
      BY <1>2, <2>2, <3>1 DEF Spares, Unmoved
  <2> QED
    BY <2>1, <2>2
<1>4. ASSUME NEW q \in Runs, Start(q) \/ Break(q), UNCHANGED <<corpusVars, reportVars, buildVars, measureVars>>
      PROVE Playable(r)'
  <2>1. UNCHANGED <<request, replayed>>
    BY <1>4 DEF Start, Break, circumstances, corpusVars, sources, outputs
  <2>2. pc'[r] \in {pc[r], request[r].command, "ended"}
    BY <1>1, <1>4 DEF Start, Break, Goto, Exit, Arrays
  <2> QED
    BY <1>2, <2>1, <2>2
<1>5. CASE (Edit \/ Change \/ Move) /\ UNCHANGED corpusVars
  BY <1>2, <1>5 DEF Edit, Change, Move, control, corpusVars
<1>6. CASE UNCHANGED vars
  BY <1>2, <1>6 DEF vars, runVars, circumstances, control, corpusVars
<1> QED
  BY <1>3, <1>4, <1>5, <1>6 DEF Next

LEMMA PlayableBegins == Init => \A r \in Runs : Playable(r)
BY DEF Init, RunsInit, CorpusInit, Playable

LEMMA LoneKept == IInv /\ WholeInv /\ OutcomeInv /\ [Next]_vars => LoneInv'
<1> SUFFICES ASSUME IInv, WholeInv, OutcomeInv, LoneInv, [Next]_vars, Steady',
                    NEW r \in Runs, r \in alone', pc'[r] \notin {"begin", "ended"}
             PROVE Lone(r)'
  BY DEF OutcomeInv, LoneInv
<1>1. Arrays /\ TypeOK
  BY ArraysAre DEF IInv
<1>2. ASSUME r \in alone, pc[r] \notin {"begin", "ended"}, UNCHANGED others PROVE Works(r) /\ Steady
  BY <1>2 DEF OutcomeInv, LoneInv, Works, Steady
<1>3. ASSUME Undisturbed(r), r \in alone, UNCHANGED others PROVE Lone(r)'
  BY <1>2, <1>3, UndisturbedStays DEF Undisturbed, Unmoved, Works
<1>4. ASSUME NEW q \in Runs, Corpuses(q) \/ Reports(q) \/ Builds(q) \/ Measures(q) PROVE Lone(r)'
  <2>1. Spares(q) /\ UNCHANGED others /\ r \in alone
    BY <1>1, <1>4, StepSpares DEF Spares
  <2>2. CASE q # r
    <3>1. pc'[r] = pc[r]
      BY <2>1, <2>2 DEF Spares, Unmoved
    <3> QED
      BY <1>3, <2>1, <2>2, <3>1, SparedIsUndisturbed
  <2>3. CASE q = r
    <3>1. pc[r] \notin {"begin", "ended"}
      BY <1>1, <1>4, <2>3, AtWork DEF Corpuses, Reports, Builds, Measures
    <3>2. Due(r)
      BY <1>2, <1>4, <2>1, <2>3, <3>1, OwnDue
    <3> QED
      BY <3>2 DEF Due
  <2> QED
    BY <2>2, <2>3
<1>5. ASSUME NEW q \in Runs, Start(q) \/ Break(q), UNCHANGED <<corpusVars, reportVars, buildVars, measureVars>> PROVE Lone(r)'
  <2>1. CASE q # r
    BY <1>1, <1>3, <1>5, <2>1, StartOrBreakSpares
  <2>2. CASE q = r
    <3>1. ~Break(r)
      BY DEF Break, Meets
    <3> QED
      BY <1>5, <2>2, <3>1, StartIsLone
  <2> QED
    BY <2>1, <2>2
<1>6. ~(Edit \/ Change \/ Move)
  BY MeddlingStops
<1>7. CASE UNCHANGED vars
  <2>1. Undisturbed(r) /\ r \in alone /\ UNCHANGED others
    BY <1>7 DEF vars, runVars, sources, outputs, circumstances, control, walking, collecting, history, corpusVars, reportVars,
                buildVars, measureVars, Undisturbed, Unmoved, World
  <2> QED
    BY <1>3, <2>1
<1> QED
  BY <1>4, <1>5, <1>6, <1>7 DEF Next

LEMMA LoneBegins == Init => LoneInv
BY DEF Init, RunsInit, LoneInv

\* A run that ends has done a step of its own.
LEMMA EndsExactly ==
  ASSUME IInv, WholeInv, OutcomeInv, Next, NEW r \in Runs, Ends(r), r \in alone', Steady
  PROVE Outcome(r, found[r]) = Came(exit'[r], World')
<1>1. Arrays /\ TypeOK /\ Tied
  BY ArraysAre DEF IInv, WholeInv
<1>2. exit'[r] # exit[r]
  BY DEF Ends
<1>3. ~(Edit \/ Change \/ Move)
  BY <1>2, MeddlingStops
<1>4. ASSUME NEW q \in Runs, Start(q) \/ Break(q), UNCHANGED <<corpusVars, reportVars, buildVars, measureVars>> PROVE FALSE
  <2>1. q = r
    BY <1>1, <1>2, <1>4, StartOrBreakSpares DEF Undisturbed, Unmoved
  <2>2. ~Break(r)
    BY DEF Break, Meets
  <2>3. ~Start(r)
    BY <1>2 DEF Start, Goto
  <2> QED
    BY <1>4, <2>1, <2>2, <2>3
<1>5. PICK q \in Runs : Corpuses(q) \/ Reports(q) \/ Builds(q) \/ Measures(q)
  BY <1>3, <1>4 DEF Next
<1>6. Spares(q)
  BY <1>1, <1>5, StepSpares
<1>7. q = r
  BY <1>2, <1>6 DEF Spares, Unmoved
<1>8. Works(r)
  <2>1. pc[r] \notin {"begin", "ended"}
    BY <1>1, <1>5, <1>7, AtWork DEF Corpuses, Reports, Builds, Measures
  <2> QED
    BY <1>6, <2>1 DEF Spares, Works, OutcomeInv, LoneInv
<1>9. Due(r)
  BY <1>5, <1>7, <1>8, OwnDue
<1>10. pc'[r] = "ended"
  <2>1. Goes(r)
    BY <1>1, <1>5, <1>7, CorpusGoes, ReportsGoes, BuildGoes, MeasureGoes DEF Corpuses, Reports, Builds, Measures
  <2> QED
    BY <1>1, <1>2, <2>1, Went DEF Goes, control
<1> QED
  BY <1>9, <1>10 DEF Due

(* For every number of invocations, whatever else is going on, and for every working     *)
(* tree and everything that may be in the way of an output: a command of the maintenance *)
(* scripts that nothing disturbs, and no failure, ends with the status and leaves the    *)
(* files that follow from what was there when it began; synthetic_corpus.py,             *)
(* example_reports.py, build_release.py and observed_performance.py look at very much,   *)
(* one thing after the other, and the order of the looks makes no difference.            *)
THEOREM OutcomesAreExact == Spec => OutcomesExact
<1>1. IInv /\ WholeInv /\ OutcomeInv /\ [Next]_vars
        => [\A r \in Runs : Ends(r) /\ r \in alone' /\ Steady => Outcome(r, found[r]) = Came(exit'[r], World')]_vars
  BY EndsExactly
<1>2. Init => OutcomeInv
  BY PlayableBegins, LoneBegins DEF OutcomeInv
<1>3. IInv /\ WholeInv /\ OutcomeInv /\ [Next]_vars => OutcomeInv'
  BY PlayableKept, LoneKept DEF OutcomeInv
<1> QED
  BY <1>1, <1>2, <1>3, InitHolds, NextHolds, WholeBegins, WholeKept, PTL DEF Spec, OutcomesExact
=============================================================================
