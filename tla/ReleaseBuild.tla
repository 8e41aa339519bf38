--------------------------- MODULE ReleaseBuild ---------------------------
(***************************************************************************)
(* build_release.py build, up to the publication of the bundle, which      *)
(* ReleaseBundle models: here it either takes a free name or fails.  The   *)
(* working tree is staged twice, file by file, while it may be edited, and *)
(* built twice by a tool that may not be deterministic.                    *)
(***************************************************************************)
EXTENDS ToolRuns

CONSTANTS
  BuildFiles,           \* BUILD_FILES
  PackageFiles,         \* the modules the package may have, sorted
  VersionFile,          \* __init__.py
  VersionOf,            \* the version a content of __init__.py declares
  NoVersion, NotPython, \* it declares none, or cannot be parsed
  VacantDirectory       \* an output directory that is there and empty

ASSUME VersionsDiffer == NoVersion # NotPython
ASSUME TheVersionIsStaged == VersionFile \in ToSet(PackageFiles)
ASSUME EverythingIsASource == BuildFiles \in Seq(Sources) /\ PackageFiles \in Seq(Sources)
ASSUME NothingIsReleased == \A s \in Situations : s.dist \in {Absent, VacantDirectory, Plain}

VARIABLES version, plan, built     \* the version read first, the files to stage, the builds

buildVars == <<version, plan, built>>
BuildInit ==
  /\ version = [r \in Runs |-> NoVersion]
  /\ plan = [r \in Runs |-> <<>>]
  /\ built = [r \in Runs |-> <<>>]

Building == UNCHANGED buildVars
Staged == ToSet(BuildFiles) \cup ToSet(PackageFiles)

(* A timestamp before 1980 is refused; one after 2107 does not fit into the wheel, a  *)
(* huge one not even into a file time.                                                *)
PreflightOutput(r) ==
  /\ At(r, "build")
  /\ Check(r, request[r].epoch # "early" /\ request[r].valid /\ dist \in {Absent, VacantDirectory}, "version", "2")
  /\ Looks /\ ReadsNothing /\ Building /\ UNCHANGED walking

\* _package_version; what is no Python ends in a traceback.
OpenVersion(r) ==
  /\ At(r, "version") /\ opened[r] = Absent
  /\ IF tree[VersionFile] = Nothing
     THEN Exit(r, "2") /\ UNCHANGED <<opened, seen>>
     ELSE /\ opened' = [opened EXCEPT ![r] = VersionFile] /\ seen' = [seen EXCEPT ![r] = {tree[VersionFile]}]
          /\ UNCHANGED control
  /\ Looks /\ Building /\ UNCHANGED <<walking, pass, taken, instant>>

ReadVersion(r) ==
  /\ At(r, "version") /\ opened[r] = VersionFile
  /\ \E c \in Mixtures(seen[r]) :
       /\ version' = [version EXCEPT ![r] = VersionOf[c]]
       /\ CASE VersionOf[c] = NotPython -> Exit(r, "traceback")
            [] VersionOf[c] = NoVersion -> Exit(r, "2")
            [] OTHER -> Goto(r, "stage")
  /\ opened' = [opened EXCEPT ![r] = Absent] /\ seen' = [seen EXCEPT ![r] = {}]
  /\ plan' = [plan EXCEPT ![r] = BuildFiles]
  /\ Looks /\ UNCHANGED <<walking, built, pass, taken, instant>>

-----------------------------------------------------------------------------
(* _stage_build_source, _copy_regular_file *)
AllCopied(r) == number[r] = Len(plan[r])

CopySource(r) ==
  /\ pc[r] \in {"stage", "package"} /\ (opened[r] # Absent \/ ~AllCopied(r))
  /\ LET f == plan[r][number[r] + 1]
     IN OpenSource(r, f) \/ RefuseSource(r, f) \/ TakeSource(r)
  /\ Building

\* rglob: the modules that are there at this time, and links, wherever they lead.
Listed == {f \in ToSet(PackageFiles) : tree[f] # Nothing \/ f \in links}
Precedes(f, g) == \E i, j \in DOMAIN PackageFiles : i < j /\ PackageFiles[i] = f /\ PackageFiles[j] = g
Listings ==
  {s \in SeqOf(ToSet(PackageFiles), Len(PackageFiles)) :
     ToSet(s) = Listed /\ \A i, j \in DOMAIN s : i < j => Precedes(s[i], s[j])}

ListPackage(r) ==
  /\ At(r, "stage") /\ opened[r] = Absent /\ AllCopied(r)
  /\ \E s \in Listings : plan' = [plan EXCEPT ![r] = BuildFiles \o s]
  /\ taken' = [taken EXCEPT ![r][pass[r]] =
                 [f \in Sources |-> IF f \in ToSet(PackageFiles) \ Listed THEN Nothing ELSE @[f]]]
  /\ Goto(r, "package")
  /\ Looks /\ UNCHANGED <<walking, version, built, pass, opened, seen, instant>>

\* os.utime of a copy raises OverflowError, which nothing catches.
StagedOnce(r) ==
  /\ At(r, "package") /\ opened[r] = Absent /\ AllCopied(r) /\ pass[r] = "first"
  /\ IF request[r].epoch = "huge"
     THEN Exit(r, "traceback") /\ Looks /\ ReadsNothing /\ UNCHANGED <<walking, plan>>
     ELSE EndOfFirstPass(r, "last", "stage") /\ plan' = [plan EXCEPT ![r] = BuildFiles]
  /\ UNCHANGED <<version, built>>

\* Not: by the names of the files.
SameNames(first, second) == \A f \in Staged : first[f] = Nothing <=> second[f] = Nothing

Same(first, second) == \A f \in Staged : first[f] = second[f]

StagedTwice(r) ==
  /\ At(r, "package") /\ opened[r] = Absent /\ AllCopied(r) /\ pass[r] = "last"
  /\ Check(r, Same(taken[r].first, taken[r].last), "environment", "2")
  /\ Looks /\ ReadsNothing /\ Building /\ UNCHANGED walking

-----------------------------------------------------------------------------
(* _build_environment, _build_once, _compare_builds *)
IdentifyEnvironment(r) ==
  /\ At(r, "environment")
  /\ Check(r, request[r].tools, "package-build", "2")
  /\ Looks /\ ReadsNothing /\ Building /\ UNCHANGED walking

\* The archives are named for the version of the copy they are made from.  The
\* normalization leaves what a tool put into them but the order, times and modes.
Archives(files, noise) == [version |-> VersionOf[files[VersionFile]], files |-> files, noise |-> noise]

BuildOnce(r) ==
  /\ At(r, "package-build") /\ Len(built[r]) < 2
  /\ LET files == IF built[r] = <<>> THEN taken[r].first ELSE taken[r].last
     IN /\ Check(r, files[VersionFile] # Nothing /\ Archives(files, 0).version \notin {NoVersion, NotPython}
                    /\ request[r].epoch # "late",
                 "package-build", "2")
        /\ \E noise \in IF "noise" \in others THEN {0, 1} ELSE {0} :
             built' = [built EXCEPT ![r] = Append(@, [version |-> IF files[VersionFile] = Nothing THEN NoVersion
                                                                 ELSE Archives(files, noise).version,
                                                      files |-> files, noise |-> noise])]
  /\ Looks /\ ReadsNothing /\ UNCHANGED <<walking, version, plan>>

CompareBuilds(r) ==
  /\ At(r, "package-build") /\ Len(built[r]) = 2
  /\ Check(r, /\ built[r][1].version = version[r] /\ built[r][2].version = version[r]
              /\ built[r][1].noise = built[r][2].noise /\ Same(built[r][1].files, built[r][2].files),
           "publish", "2")
  /\ Looks /\ ReadsNothing /\ Building /\ UNCHANGED walking

Bundle(r) ==
  [by |-> r, version |-> version[r], archives |-> built[r][1], source |-> [f \in Staged |-> taken[r].first[f]]]

Publish(r) ==
  /\ At(r, "publish")
  /\ IF dist \in {Absent, VacantDirectory}
     THEN dist' = Bundle(r) /\ Exit(r, "0") /\ Disturbs(r)
     ELSE Exit(r, "2") /\ UNCHANGED <<dist, history>>
  /\ ReadsNothing /\ Building
  /\ UNCHANGED <<sources, place, used, holds, loose, circumstances, walking>>

BuildStep(r) ==
  \/ PreflightOutput(r) \/ OpenVersion(r) \/ ReadVersion(r)
  \/ CopySource(r) \/ ListPackage(r) \/ StagedOnce(r) \/ StagedTwice(r)
  \/ IdentifyEnvironment(r) \/ BuildOnce(r) \/ CompareBuilds(r) \/ Publish(r)
=============================================================================
