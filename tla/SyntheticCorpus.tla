-------------------------- MODULE SyntheticCorpus --------------------------
(***************************************************************************)
(* synthetic_corpus.py generate, check and replay.  Every call looks at    *)
(* the path anew: the directory may have been moved since the last one.    *)
(* A replay runs the command line on the corpus, between two checks of it. *)
(***************************************************************************)
EXTENDS ToolRuns

CONSTANTS
  CorpusPaths,      \* the managed paths, SHA256SUMS first
  Readme,           \* the one path that may be there besides
  CorpusManifest, ScenarioPath, ValidationPath,
  Corpus,           \* the bytes the contract has for a path
  Alike             \* other bytes of the same size from which the rules say the same

VARIABLES replayed, told      \* runs of the command line so far, what the first one of a scenario read

corpusVars == <<replayed, told>>
CorpusInit == replayed = [r \in Runs |-> 0] /\ told = [r \in Runs |-> Absent]

NotReplaying == UNCHANGED corpusVars

-----------------------------------------------------------------------------
(* _prepare_empty_target; the example reports begin in the same way. *)
ValidateTarget(r, step) ==
  /\ At(r, step)
  /\ Check(r, request[r].valid /\ place # Symlink, "look", "2")
  /\ Looks /\ ReadsNothing /\ UNCHANGED walking

\* exists() does not see a link that leads nowhere.
LookAtTarget(r) ==
  /\ At(r, "look")
  /\ IF place \in {Absent, Symlink} THEN Goto(r, "mkdir") ELSE Check(r, place # Plain, "prepare", "2")
  /\ Looks /\ ReadsNothing /\ UNCHANGED walking

\* A corpus that made its directory does not look into it; the reports do.
MakeTarget(r) ==
  /\ At(r, "mkdir")
  /\ IF place = Absent
     THEN MakePlace(r) /\ Goto(r, IF request[r].command = "corpus-generate" THEN "corpus-parents" ELSE "prepare")
     ELSE Exit(r, "2") /\ UNCHANGED <<outputs, history>>
  /\ UNCHANGED <<sources, circumstances, walking, collecting>>

\* Not: whatever has the name of the README.
VacantByName(d) == \A s \in Slots : Entry(d, s) = Absent \/ s = Readme

Vacant(d) == \A s \in Slots : Entry(d, s) = Absent \/ (s = Readme /\ IsFile(Entry(d, s)))

InspectTarget(r) ==
  /\ At(r, "prepare") /\ request[r].command = "corpus-generate"
  /\ Check(r, place \in Directories /\ Vacant(place), "corpus-parents", "2")
  /\ Looks /\ ReadsNothing /\ UNCHANGED walking

-----------------------------------------------------------------------------
(* _write_managed_corpus *)
Path(r) == CorpusPaths[number[r] + 1]
LastPath(r) == number[r] = Len(CorpusPaths)

\* mkdir with parents and exist_ok makes the target itself if it has gone.
MakeParents(r) ==
  /\ At(r, "corpus-parents") /\ ~LastPath(r)
  /\ IF place = Absent
     THEN MakePlace(r) /\ Goto(r, "corpus-create")
     ELSE Check(r, place \in Directories, "corpus-create", "2") /\ UNCHANGED <<outputs, history>>
  /\ UNCHANGED <<sources, circumstances, walking, collecting>>

\* is_symlink and then open with "xb": both refuse a link.
CreateManaged(r) == At(r, "corpus-create") /\ CreateEntry(r, place, Path(r), "corpus-fill")
FillManaged(r) == At(r, "corpus-fill") /\ FillEntry(r, Path(r), Corpus, "corpus-parents")

EndOfCorpus(r) ==
  /\ At(r, "corpus-parents") /\ LastPath(r)
  /\ Exit(r, "0")
  /\ Looks /\ ReadsNothing /\ UNCHANGED walking

-----------------------------------------------------------------------------
(* _actual_managed_paths and _check_corpus *)
FindCorpus(r) ==
  /\ pc[r] \in {"corpus-check", "corpus-replay"}
  /\ Check(r, request[r].valid /\ place \in Directories, "walk", "2")
  /\ Looks /\ ReadsNothing /\ UNCHANGED walking

\* os.walk of a directory that has gone has nothing, and says nothing.
WalkCorpus(r) ==
  /\ At(r, "walk")
  /\ List(r, place)
  /\ Goto(r, "walked")
  /\ Looks /\ ReadsNothing /\ UNCHANGED <<number, fd>>

\* What the walk took for a directory must not be a link, all the rest must be files.
ExamineWalked(r) ==
  /\ At(r, "walked")
  /\ \E e \in listing[r].left :
       LET x == Entry(place, e.name)
       IN Examine(r, e) /\ Check(r, IF e.folder THEN x # Symlink ELSE IsFile(x), "walked", "2")
  /\ Looks /\ ReadsNothing /\ UNCHANGED <<number, fd>>

FilesWalked(r) == {e.name : e \in {x \in listing[r].entries : ~x.folder}}

ComparePaths(r) ==
  /\ At(r, "walked") /\ AllExamined(r)
  /\ Check(r, FilesWalked(r) \ {Readme} = ToSet(CorpusPaths), "corpus-size", "1")
  /\ Rewind(r)
  /\ Looks /\ ReadsNothing /\ UNCHANGED <<fd, listing>>

\* stat follows a link, and the link leads nowhere.
SizeManaged(r) ==
  /\ At(r, "corpus-size") /\ ~LastPath(r)
  /\ LET x == Entry(place, Path(r))
     IN IF x \in {Absent, Symlink} THEN Exit(r, "2") ELSE Check(r, Size(x) = "right", "corpus-read", "1")
  /\ Looks /\ ReadsNothing /\ UNCHANGED walking

ReadManaged(r) ==
  /\ At(r, "corpus-read")
  /\ LET x == Entry(place, Path(r))
     IN IF ~IsFile(x) THEN Exit(r, "2") ELSE Check(r, x.bytes = Corpus, "corpus-size", "1")
  /\ Advance(r)
  /\ Looks /\ ReadsNothing /\ UNCHANGED <<fd, listing>>

EndOfCheck(r) ==
  /\ At(r, "corpus-size") /\ LastPath(r)
  /\ IF request[r].command = "corpus-replay" /\ replayed[r] = 0 THEN Goto(r, "corpus-manifest") ELSE Exit(r, "0")
  /\ Looks /\ ReadsNothing /\ UNCHANGED walking

-----------------------------------------------------------------------------
(* _replay_manifest *)

\* --manifest may lead to another name in the corpus than manifest.json.
Misnamed(r) == request[r].manifest = "unusable"

LoadManifest(r) ==
  /\ At(r, "corpus-manifest")
  /\ LET x == Entry(place, CorpusManifest)
     IN IF ~IsFile(x) \/ Misnamed(r) THEN Exit(r, "2") ELSE Check(r, x.bytes = Corpus, "replay", "1")
  /\ Looks /\ ReadsNothing /\ NotReplaying /\ UNCHANGED walking

\* The command line's reader takes a file as it is at one instant.
Reads(s) == LET x == Entry(place, s) IN IF IsFile(x) THEN x.bytes ELSE Absent
Analyzable(b) == b \notin {Absent, Empty, Long}

\* Both runs of a scenario have to end as the manifest says, with the same report.
ReplayScenario(r) ==
  /\ At(r, "replay") /\ replayed[r] \in {0, 1}
  /\ LET b == Reads(ScenarioPath)
     IN /\ told' = [told EXCEPT ![r] = b]
        /\ Check(r, /\ Analyzable(b)
                    /\ replayed[r] = 1 => told[r] = b /\ b \in {Corpus, Alike},
                 "replay", "1")
  /\ replayed' = [replayed EXCEPT ![r] = @ + 1]
  /\ Looks /\ ReadsNothing /\ UNCHANGED walking

\* A bundle that has to be refused, with the words of the manifest.
ReplayValidation(r) ==
  /\ At(r, "replay") /\ replayed[r] = 2
  /\ Check(r, Reads(ValidationPath) \in {Corpus, Alike}, "corpus-replay", "1")
  /\ replayed' = [replayed EXCEPT ![r] = @ + 1]
  /\ Rewind(r)
  /\ Looks /\ ReadsNothing /\ UNCHANGED <<told, fd, listing>>

\* The command line tells of its failures by its status, and so of an interrupt.
ReplayFails(r) ==
  /\ At(r, "replay") /\ "fail" \in others
  /\ Exit(r, "1")
  /\ Meets(r)
  /\ UNCHANGED <<sources, outputs, circumstances, walking, collecting>> /\ NotReplaying

CorpusStep(r) ==
  \/ /\ \/ ValidateTarget(r, "corpus-generate") \/ LookAtTarget(r) \/ MakeTarget(r) \/ InspectTarget(r)
        \/ MakeParents(r) \/ CreateManaged(r) \/ FillManaged(r) \/ EndOfCorpus(r)
        \/ FindCorpus(r) \/ WalkCorpus(r) \/ ExamineWalked(r) \/ ComparePaths(r)
        \/ SizeManaged(r) \/ ReadManaged(r) \/ EndOfCheck(r)
     /\ NotReplaying
  \/ LoadManifest(r) \/ ReplayScenario(r) \/ ReplayValidation(r) \/ ReplayFails(r)
=============================================================================
