------------------------ MODULE ReleaseArtifacts ------------------------
(***************************************************************************)
(* release_artifacts.py inspect, sbom and checksums at work in one         *)
(* directory of artifacts.  An archive is looked at, sized, opened, hashed *)
(* and opened again by separate calls; its members are read and judged one *)
(* by one.  A digest is injective: it is the file it was made from.  The   *)
(* writing is AtomicWrite's, reduced to the temporary file and the rename. *)
(***************************************************************************)
EXTENDS Naturals, Sequences, FiniteSets, SequencesExt, FiniteSetsExt

CONSTANTS
  Runs,                   \* the invocations
  SortedNames,            \* the names of the directory, in filename order
  TemporaryName,          \* the name mkstemp draws for each invocation
  UnsafeNames,            \* names _canonical_archive_path refuses
  Sums,                   \* SHA256SUMS
  ExpectedWheel, WheelNames, SdistNames,
  Archives,               \* what archives hold, see below
  Absent, Symlink, Directory,
  Plain,                  \* a regular file that is no archive
  PrivateParts,           \* parts of cache, internal and private paths
  Brought,                \* what other programs put there
  Situations,             \* [entry, request, others]: what there may be at first
  MaxArchiveBytes, MaxMemberBytes, MaxTotalMemberBytes, MaxMetadataBytes, MaxMembers,
  MaxChanges              \* bound on the changes other programs make

Names == ToSet(SortedNames)

(* A path is the sequence of its parts.  A member has a path, a kind, a size, a mode; *)
(* it is honest if it is as long as it declares and not encrypted, and clean if its   *)
(* bytes hold no local path and no canary.  An archive has members, its size, the     *)
(* size of its metadata and of all it expands to, whether its METADATA and license    *)
(* are the project's, and Requires-Dist entries.                                      *)
Members ==
  [path : Seq(STRING), kind : {"file", "directory", "link", "special"}, size : Nat,
   mode : {"none", "plain", "executable", "unsafe"}, honest : BOOLEAN, clean : BOOLEAN]
Temporaries == {TemporaryName[r] : r \in Runs}

ASSUME ArchivesAreArchives ==
  /\ {Absent, Symlink, Directory} \cap Archives = {}
  /\ \A f \in Archives : f.kind \in {"wheel", "sdist"} /\ f.members \in Seq(Members)
ASSUME NamesAreSorted == SortedNames \in Seq(Names) /\ IsInjective(SortedNames)
ASSUME TemporariesAreNames ==
  /\ Sums \in Names \ Temporaries /\ Temporaries \subseteq Names
  /\ \A r, q \in Runs : r # q => TemporaryName[r] # TemporaryName[q]
(* argparse leaves no other commands and kinds; mkstemp draws a name that nothing has. *)
ASSUME SituationsAreStarts ==
  \A s \in Situations :
    /\ s.entry = [n \in Names |-> s.entry[n]]
    /\ \A t \in Temporaries : s.entry[t] = Absent
    /\ \A r \in Runs :
         LET q == s.request[r]
         IN /\ q.command \in {"inspect", "sbom", "checksums"} /\ q.kind \in {"wheel", "sdist"}
            /\ q.archive \in Names /\ q.output \in Names \ Temporaries /\ q.policy \in Seq(Seq(STRING))
ASSUME LimitsAreNumbers ==
  {MaxArchiveBytes, MaxMemberBytes, MaxTotalMemberBytes, MaxMetadataBytes, MaxMembers, MaxChanges} \subseteq Nat

VARIABLES
  entry,      \* what has each name
  others,     \* "change": other programs replace files, "fail": calls fail, signals arrive
  changes,
  request,    \* the arguments of every run
  pc, exit,
  archive,    \* the archive opened last
  number,     \* members, or directory entries, dealt with in the current loop
  total,      \* the sizes of the members read
  observed_files, observed_paths,
  files,      \* the listing of the directory
  digests,    \* what was hashed so far
  requirements,
  held,       \* what each name was bound to by others since each run began
  alone       \* runs that nothing has disturbed so far

directory == <<entry, others, changes>>
inspection == <<archive, total, observed_files, observed_paths>>
results == <<files, digests, requirements>>
history == <<held, alone>>
vars == <<directory, request, pc, exit, inspection, number, results, history>>

Init ==
  /\ \E s \in Situations : entry = s.entry /\ request = s.request /\ others = s.others
  /\ changes = 0
  /\ pc = [r \in Runs |-> "begin"] /\ exit = [r \in Runs |-> "running"]
  /\ archive = [r \in Runs |-> Absent]
  /\ number = [r \in Runs |-> 0] /\ total = [r \in Runs |-> 0]
  /\ observed_files = [r \in Runs |-> {}] /\ observed_paths = [r \in Runs |-> {}]
  /\ files = [r \in Runs |-> <<>>] /\ digests = [r \in Runs |-> <<>>]
  /\ requirements = [r \in Runs |-> {}]
  /\ held = [r \in Runs |-> [n \in Names |-> {}]]
  /\ alone = Runs

At(r, step) == pc[r] = step
Goto(r, step) == pc' = [pc EXCEPT ![r] = step] /\ UNCHANGED exit
Exit(r, status) == pc' = [pc EXCEPT ![r] = "ended"] /\ exit' = [exit EXCEPT ![r] = status]

(* ReleaseArtifactError and OSError end in an exit status of 2. *)
Check(r, condition, next) == IF condition THEN Goto(r, next) ELSE Exit(r, "2")
Undisturbed == UNCHANGED <<directory, request, history>>

IsRegular(f) == f \notin {Absent, Symlink, Directory}
Archive(r) == entry[request[r].archive]
Kind(r) == IF request[r].command = "sbom" THEN "wheel" ELSE request[r].kind

Start(r) ==
  /\ At(r, "begin")
  /\ Goto(r, IF request[r].command = "checksums" THEN "list" ELSE "require")
  /\ held' = [held EXCEPT ![r] = [n \in Names |-> {entry[n]}]]
  /\ UNCHANGED <<directory, request, alone, inspection, number, results>>

-----------------------------------------------------------------------------
(* inspect_archive *)
RequireArchive(r) ==
  /\ At(r, "require")
  /\ Check(r, IsRegular(Archive(r)), "size")
  /\ Undisturbed /\ UNCHANGED <<inspection, number, results>>

(* A size over the limit, or a suffix that is not the kind's.  stat follows links. *)
CheckSize(r) ==
  /\ At(r, "size")
  /\ Check(r, /\ Archive(r) # Absent
              /\ Archive(r) \in Archives => Archive(r).bytes <= MaxArchiveBytes
              /\ request[r].archive \in (IF Kind(r) = "wheel" THEN WheelNames ELSE SdistNames),
           "open")
  /\ Undisturbed /\ UNCHANGED <<inspection, number, results>>

(* O_NOFOLLOW and fstat; a wheel's central directory is bounded before any member.   *)
Opens(f, kind) ==
  /\ f \in Archives /\ f.kind = kind /\ f.bytes <= MaxArchiveBytes
  /\ kind = "wheel" => Len(f.members) <= MaxMembers /\ f.metadata <= MaxMetadataBytes

OpenArchive(r) ==
  /\ At(r, "open")
  /\ Check(r, Opens(Archive(r), Kind(r)), "read")
  /\ archive' = [archive EXCEPT ![r] = Archive(r)]
  /\ Undisturbed /\ UNCHANGED <<total, observed_files, observed_paths, number, results>>

(* _CappedReader bounds what a source distribution expands to, its headers included.  *)
Expands(f) == f.kind = "sdist" => f.expanded <= MaxTotalMemberBytes + MaxMetadataBytes

Member(r) == archive[r].members[number[r] + 1]
LastMember(r) == number[r] = Len(archive[r].members)
Advance(r) == number' = [number EXCEPT ![r] = @ + 1]
Rewind(r) == number' = [number EXCEPT ![r] = 0]

BoundedMember(m) == m.size <= MaxMemberBytes /\ m.honest

(* The declared size of every member counts, that of a link or a directory too. *)
ReadMember(r) ==
  /\ At(r, "read") /\ ~LastMember(r)
  /\ Check(r, /\ number[r] < MaxMembers
              /\ BoundedMember(Member(r))
              /\ total[r] + Member(r).size <= MaxTotalMemberBytes,
           "read")
  /\ total' = [total EXCEPT ![r] = @ + Member(r).size]
  /\ Advance(r)
  /\ Undisturbed /\ UNCHANGED <<archive, observed_files, observed_paths, results>>

EndOfArchive(r) ==
  /\ At(r, "read") /\ LastMember(r)
  /\ Check(r, Expands(archive[r]), "policy")
  /\ Rewind(r)
  /\ Undisturbed /\ UNCHANGED <<inspection, results>>

(* _canonical_archive_path; the slash at the end of a directory's name is no part.    *)
Canonical(path) == path # <<>> /\ ToSet(path) \cap {"", ".", ".."} = {}

(* _load_policy: lines that are no comments. *)
PolicyLines(r) == request[r].policy
LoadPolicy(r) ==
  /\ At(r, "policy")
  /\ Check(r, /\ PolicyLines(r) # <<>> /\ IsInjective(PolicyLines(r))
              /\ \A k \in DOMAIN PolicyLines(r) : Canonical(PolicyLines(r)[k]),
           "judge")
  /\ Undisturbed /\ UNCHANGED <<inspection, number, results>>

Policy(r) == ToSet(PolicyLines(r))

(* Faulty variant: only the directories the files are in. *)
NearestDirectories(policy) == {Front(path) : path \in {p \in policy : Len(p) > 1}}

AllowedDirectories(policy) ==
  UNION {{SubSeq(path, 1, n) : n \in 1 .. Len(path) - 1} : path \in policy}

SafeMode(m) == m.mode \in {"none", "plain"} \/ (m.mode = "executable" /\ m.kind = "directory")

(* _scan_member_path, and _scan_member_content of the path. *)
Private(path) == ToSet(path) \cap PrivateParts # {}

(* One turn of the second loop. *)
JudgeMember(r) ==
  /\ At(r, "judge") /\ ~LastMember(r)
  /\ LET m == Member(r)
     IN /\ Check(r, /\ Canonical(m.path) /\ m.path \notin observed_paths[r]
                    /\ ~Private(m.path)
                    /\ m.kind \in {"file", "directory"} /\ SafeMode(m)
                    /\ m.kind = "directory" => m.path \in AllowedDirectories(Policy(r))
                    /\ m.kind = "file" => m.clean,
                 "judge")
        /\ observed_paths' = [observed_paths EXCEPT ![r] = @ \cup {m.path}]
        /\ observed_files' = [observed_files EXCEPT ![r] =
                                IF m.kind = "file" THEN @ \cup {m.path} ELSE @]
  /\ Advance(r)
  /\ Undisturbed /\ UNCHANGED <<archive, total, results>>

CompareWithPolicy(r) ==
  /\ At(r, "judge") /\ LastMember(r)
  /\ Check(r, observed_files[r] = Policy(r), "digest")
  /\ Rewind(r)
  /\ Undisturbed /\ UNCHANGED <<inspection, results>>

(* _sha256 opens the path anew and follows links. *)
Hash(r, n) == digests' = [digests EXCEPT ![r] = Append(@, entry[n])]
Hashable(n) == entry[n] \notin {Absent, Directory}

DigestArchive(r) ==
  /\ At(r, "digest")
  /\ IF ~Hashable(request[r].archive) THEN Exit(r, "2")
     ELSE IF request[r].command = "inspect" THEN Exit(r, "0") ELSE Goto(r, "identify")
  /\ Hash(r, request[r].archive)
  /\ Undisturbed /\ UNCHANGED <<inspection, number, files, requirements>>

-----------------------------------------------------------------------------
(* write_spdx_sbom: the wheel is opened again for its metadata.  This opening is not  *)
(* preceded by the central directory's preflight.                                     *)
Declared(f) == ToSet(f.requires)
Identified(f) ==
  /\ f \in Archives /\ f.kind = "wheel" /\ f.bytes <= MaxArchiveBytes /\ f.project
  /\ Len(f.requires) <= MaxMembers /\ IsInjective(f.requires)
  /\ \A q \in Declared(f) : q.marker \in {"none", "extra"}

ValidateIdentity(r) ==
  /\ At(r, "identify")
  /\ Check(r, request[r].archive = ExpectedWheel /\ Identified(Archive(r))
              /\ request[r].output # request[r].archive,
           "describe")
  /\ requirements' = [requirements EXCEPT ![r] = IF Archive(r) \in Archives THEN Declared(Archive(r)) ELSE {}]
  /\ Undisturbed /\ UNCHANGED <<inspection, number, files, digests>>

(* _spdx_document hashes the wheel once more and renders the date. *)
DescribeWheel(r) ==
  /\ At(r, "describe")
  /\ Check(r, Hashable(request[r].archive) /\ request[r].date_valid, "write")
  /\ Hash(r, request[r].archive)
  /\ Undisturbed /\ UNCHANGED <<inspection, number, files, requirements>>

Relation(q) == IF q.marker = "extra" THEN "OPTIONAL_DEPENDENCY_OF" ELSE "DEPENDS_ON"
Relations(qs) == {<<q, Relation(q)>> : q \in qs}
Sbom(file, qs) == [checksumValue |-> file, relationships |-> Relations(qs)]

-----------------------------------------------------------------------------
(* write_sha256sums *)
\* The names that are there, SHA256SUMS left out, in filename order.
Listing(e) ==
  LET kept[k \in 0 .. Len(SortedNames)] ==
        IF k = 0 THEN <<>>
        ELSE LET n == SortedNames[k]
             IN IF n # Sums /\ e[n] # Absent THEN Append(kept[k - 1], n) ELSE kept[k - 1]
  IN kept[Len(SortedNames)]

ListDirectory(r) ==
  /\ At(r, "list")
  /\ files' = [files EXCEPT ![r] = Listing(entry)]
  /\ Goto(r, "files")
  /\ Undisturbed /\ UNCHANGED <<inspection, number, digests, requirements>>

Listed(r) == files[r][number[r] + 1]
LastFile(r) == number[r] = Len(files[r])

ExamineEntry(r) ==
  /\ At(r, "files") /\ ~LastFile(r)
  /\ Check(r, IsRegular(entry[Listed(r)]) /\ Listed(r) \notin UnsafeNames, "files")
  /\ Advance(r)
  /\ Undisturbed /\ UNCHANGED <<inspection, results>>

EndOfListing(r) ==
  /\ At(r, "files") /\ LastFile(r)
  /\ Check(r, files[r] # <<>>, "hash")
  /\ Rewind(r)
  /\ Undisturbed /\ UNCHANGED <<inspection, results>>

HashFile(r) ==
  /\ At(r, "hash") /\ ~LastFile(r)
  /\ Check(r, Hashable(Listed(r)), "hash")
  /\ Hash(r, Listed(r))
  /\ Advance(r)
  /\ Undisturbed /\ UNCHANGED <<inspection, files, requirements>>

EndOfFiles(r) ==
  /\ At(r, "hash") /\ LastFile(r)
  /\ Goto(r, "write")
  /\ Undisturbed /\ UNCHANGED <<inspection, number, results>>

Lines(names, fs) == [lines |-> [k \in DOMAIN names |-> <<fs[k], names[k]>>]]

-----------------------------------------------------------------------------
(* _atomic_write *)
OutputOf(r) == IF request[r].command = "sbom" THEN request[r].output ELSE Sums
Document(r) ==
  IF request[r].command = "sbom" THEN Sbom(Last(digests[r]), requirements[r]) ELSE Lines(files[r], digests[r])

Bind(r, bindings) ==
  /\ entry' = [n \in Names |-> IF n \in DOMAIN bindings THEN bindings[n] ELSE entry[n]]
  /\ held' = [q \in Runs |-> IF q = r \/ At(q, "begin") THEN held[q]
                             ELSE [n \in Names |-> held[q][n] \cup {entry'[n]}]]
  /\ alone' = {q \in alone : q = r \/ At(q, "begin")}
  /\ UNCHANGED <<others, changes, request>>

MakeTemporary(r) ==
  /\ At(r, "write")
  /\ IF entry[OutputOf(r)] \in {Symlink, Directory}
     THEN Exit(r, "2") /\ Undisturbed
     ELSE Goto(r, "replace") /\ Bind(r, [n \in {TemporaryName[r]} |-> Plain])
  /\ UNCHANGED <<inspection, number, results>>

Replace(r) ==
  /\ At(r, "replace")
  /\ IF entry[OutputOf(r)] = Directory
     THEN Exit(r, "2") /\ Bind(r, [n \in {TemporaryName[r]} |-> Absent])
     ELSE /\ Exit(r, "0")
          /\ Bind(r, [n \in {TemporaryName[r], OutputOf(r)} |->
                        IF n = OutputOf(r) THEN Document(r) ELSE Absent])
  /\ UNCHANGED <<inspection, number, results>>

(* An error or SIGINT removes the temporary file, a kill leaves it. *)
Break(r) ==
  /\ "fail" \in others /\ pc[r] \notin {"begin", "ended"}
  /\ \E e \in {"2", "interrupted", "killed"} :
       /\ Exit(r, e)
       /\ entry' = IF At(r, "replace") /\ e # "killed" THEN [entry EXCEPT ![TemporaryName[r]] = Absent] ELSE entry
  /\ held' = [q \in Runs |-> IF At(q, "begin") THEN held[q]
                             ELSE [n \in Names |-> held[q][n] \cup {entry'[n]}]]
  /\ alone' = {q \in alone : q # r /\ At(q, "begin")}
  /\ UNCHANGED <<others, changes, request, inspection, number, results>>

(* Other programs put another file in the place of one.  A file that is open is not   *)
(* written to.                                                                        *)
Change ==
  /\ "change" \in others /\ changes < MaxChanges /\ changes' = changes + 1
  /\ \E n \in Names \ Temporaries, f \in Brought :
       /\ entry[n] # f
       /\ entry' = [entry EXCEPT ![n] = f]
       /\ held' = [r \in Runs |-> IF At(r, "begin") THEN held[r] ELSE [held[r] EXCEPT ![n] = @ \cup {f}]]
  /\ alone' = {r \in alone : At(r, "begin")}
  /\ UNCHANGED <<others, request, pc, exit, inspection, number, results>>

Step(r) ==
  \/ Start(r)
  \/ RequireArchive(r) \/ CheckSize(r) \/ OpenArchive(r) \/ ReadMember(r) \/ EndOfArchive(r)
  \/ LoadPolicy(r) \/ JudgeMember(r) \/ CompareWithPolicy(r) \/ DigestArchive(r)
  \/ ValidateIdentity(r) \/ DescribeWheel(r)
  \/ ListDirectory(r) \/ ExamineEntry(r) \/ EndOfListing(r) \/ HashFile(r) \/ EndOfFiles(r)
  \/ MakeTemporary(r) \/ Replace(r) \/ Break(r)

Next == Change \/ \E r \in Runs : Step(r)

Spec == Init /\ [][Next]_vars

(***************************************************************************)
(* Properties.                                                             *)
(***************************************************************************)
Sizes(members) ==
  LET sum[k \in 0 .. Len(members)] == IF k = 0 THEN 0 ELSE sum[k - 1] + members[k].size
  IN sum

(* Exactly the members of the policy: every policy file once, and besides only parent *)
(* directories of policy files, each at most once.                                    *)
Follows(f, policy) ==
  LET ms == f.members
      paths == {ms[k].path : k \in DOMAIN ms}
      files_of == {ms[k].path : k \in {j \in DOMAIN ms : ms[j].kind = "file"}}
  IN /\ Cardinality(paths) = Len(ms) /\ files_of = policy
     /\ \A k \in DOMAIN ms :
          /\ ms[k].kind = "file" \/ (ms[k].kind = "directory" /\ \E p \in policy : IsStrictPrefix(ms[k].path, p))
          /\ ms[k].path # <<>> /\ \A j \in DOMAIN ms[k].path : ms[k].path[j] \notin PrivateParts \cup {"", ".", ".."}

Bounded(f) ==
  /\ Len(f.members) <= MaxMembers /\ f.bytes <= MaxArchiveBytes
  /\ \A k \in DOMAIN f.members : f.members[k].size <= MaxMemberBytes
  /\ Sizes(f.members)[Len(f.members)] <= MaxTotalMemberBytes
  /\ IF f.kind = "wheel" THEN f.metadata <= MaxMetadataBytes
     ELSE f.expanded <= MaxTotalMemberBytes + MaxMetadataBytes

Harmless(f) ==
  \A k \in DOMAIN f.members :
    LET m == f.members[k]
    IN /\ m.honest /\ (m.kind = "file" => m.clean)
       /\ m.mode # "unsafe" /\ (m.mode = "executable" => m.kind = "directory")

Acceptable(r, f) ==
  /\ f \in Archives /\ f.kind = Kind(r) /\ Bounded(f) /\ Harmless(f)
  /\ request[r].archive \in (IF Kind(r) = "wheel" THEN WheelNames ELSE SdistNames)
  /\ Policy(r) # {} /\ Len(PolicyLines(r)) = Cardinality(Policy(r))
  /\ Follows(f, Policy(r))

Writable(f) == f \notin {Symlink, Directory}

(* What a run that nothing disturbed found under a name, and what it ought to say.    *)
Found(r, n) == CHOOSE f \in held[r][n] : TRUE
Before(r) == [n \in Names |-> Found(r, n)]
Inspected(r) == Found(r, request[r].archive)

DeservesSbom(r) ==
  /\ Acceptable(r, Inspected(r)) /\ Identified(Inspected(r)) /\ request[r].archive = ExpectedWheel
  /\ request[r].output # ExpectedWheel /\ request[r].date_valid
  /\ Writable(Found(r, request[r].output))

DeservesSums(r) ==
  LET listed == Listing(Before(r))
  IN /\ listed # <<>> /\ Writable(Found(r, Sums))
     /\ \A k \in DOMAIN listed : IsRegular(Found(r, listed[k])) /\ listed[k] \notin UnsafeNames

Summary(names, e) == [lines |-> [k \in DOMAIN names |-> <<e[names[k]], names[k]>>]]

InspectionExact(r) ==
  /\ exit[r] = IF Acceptable(r, Inspected(r)) THEN "0" ELSE "2"
  /\ exit[r] = "0" => digests[r] = <<Inspected(r)>> /\ Cardinality(observed_files[r]) = Len(PolicyLines(r))

SbomExact(r) ==
  /\ exit[r] = IF DeservesSbom(r) THEN "0" ELSE "2"
  /\ entry = IF DeservesSbom(r)
             THEN [Before(r) EXCEPT ![request[r].output] = Sbom(Inspected(r), Declared(Inspected(r)))]
             ELSE Before(r)

ChecksumsExact(r) ==
  /\ exit[r] = IF DeservesSums(r) THEN "0" ELSE "2"
  /\ entry = IF DeservesSums(r) THEN [Before(r) EXCEPT ![Sums] = Summary(Listing(Before(r)), Before(r))]
             ELSE Before(r)

(* A command that is disturbed still tells of files that were there while it ran: it  *)
(* accepted some archive that deserved it, and every digest it names is of a file     *)
(* that had the name meanwhile.  The two need not be the same archive: the inspection *)
(* and the hashing open the path separately.                                          *)
ToldWhatWas(r) ==
  exit[r] = "0" =>
    IF request[r].command = "checksums"
    THEN \A k \in DOMAIN files[r] : digests[r][k] \in held[r][files[r][k]]
    ELSE LET were == held[r][request[r].archive]
         IN /\ ToSet(digests[r]) \subseteq were /\ \E f \in were : Acceptable(r, f)
            /\ request[r].command = "sbom" =>
                 \E f \in were : Identified(f) /\ requirements[r] = Declared(f)

Exact(r) ==
  CASE request[r].command = "inspect" -> InspectionExact(r)
    [] request[r].command = "sbom" -> SbomExact(r)
    [] request[r].command = "checksums" -> ChecksumsExact(r)

(* "Exact archive-member policies, deterministic SPDX JSON, SHA-256 list"             *)
(* (docs/CLAIM_EVIDENCE.md): a command that nothing disturbs succeeds exactly when    *)
(* the archive deserves it and its output can be written; what it then says is of     *)
(* that archive or of all files of the directory, and otherwise nothing has changed.  *)
ResultsExact ==
  \A r \in Runs : At(r, "ended") => ToldWhatWas(r) /\ (r \in alone => Exact(r))
=============================================================================
