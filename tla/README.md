# Verification of erp-security-evidence-workbench

This directory specifies the ERP security evidence workbench in TLA+: the file
system protocols by which it reads evidence and publishes reports and release
bundles, the two loaders that make one bundle of several sources, the rule
engine with its nine rules, the command line around them, the commands that
inspect and describe release artifacts, and the maintenance scripts that write,
check and replay the corpus and the example reports, build a release and measure
performance. TLC checks the models on small instances and TLAPS
proves the most important results for every instance.

All paths below are relative to the repository; `wb/` stands for
`src/erp_security_evidence_workbench/`.

## 1. The system

`erpsec analyze` and `erpsec replay` are one process, one thread, no network:
they read a few local files, evaluate fixed rules and publish one new report.
What is hard is outside the process: other programs change, move and replace the
files while they are read, other runs publish to the same name, SIGINT arrives
at any instruction, any system call may fail, a kill or a loss of power may come
between any two.

| component | code | state it keeps | operations | models |
|---|---|---|---|---|
| command line | `wb/cli.py` | none | `main`: alias checks, load, evaluate, publish, exit status | `Workbench` |
| source reader | `wb/adapters.py` `parse_source` | two descriptors, three stats, the signal mask | open, vet, read, re-check, parse | `SourceReader` |
| source syntax | `wb/adapters.py` `_parse_csv`, `_parse_json`, `_parse_jsonl` | none | bytes to payloads, refusals | abstracted |
| normalization, records | `wb/normalization.py`, `wb/models.py` | none | payload to record | abstracted |
| evidence loader | `wb/ingest.py` `load_evidence` | names, inodes, ids, totals seen so far | one source per turn | `EvidenceLoader` |
| replay loader | `wb/replay.py` `load_replay_manifest` | the manifest and the same | manifest, then one source per turn | `ReplayLoader` |
| rule engine | `wb/rules.py` `evaluate_rules` | findings and references so far | select, preflight, one rule per turn, conclude | `RuleRun` |
| rules ERP001-ERP006 | `wb/rules.py` | none | records to findings | `AccessRules` |
| rules ERP007-ERP009 | `wb/rules.py` | none | records to correlation episodes | `DetectionRules` |
| report gate, renderers | `wb/reporting.py` 50-300, `wb/html_report.py`, `wb/sarif_report.py` | none | re-evaluate, compare; render | `Workbench`; left out |
| report publication | `wb/reporting.py` `write_new_report` | a temporary file, the final link, descriptors, the signal mask | one system call at a time | `Publisher` |
| release build | `scripts/build_release.py` 55-270, 600-666 | two staged copies, two builds | read the version, stage twice, build twice, compare | `ReleaseBuild` |
| release bundle | `scripts/build_release.py` `_publish_release_bundle` | output directory, files written so far | open, write, verify, roll back | `ReleaseBundle` |
| source snapshot, atomic writes | `scripts/release_artifacts.py` 702-726, 786-930 | a temporary file | git queries, re-checks, write | `SourceSnapshot`, `AtomicWrite` |
| release artifacts | the rest of `scripts/release_artifacts.py` | none | inspect archives, SBOM, checksums | `ReleaseArtifacts` |
| synthetic corpus | `scripts/synthetic_corpus.py` | a managed tree | `generate`, `check`, `replay` | `SyntheticCorpus` |
| example reports | `scripts/example_reports.py` | a managed directory | derive from the corpus, `generate`, `check` | `ExampleReports` |
| observed performance | `scripts/observed_performance.py` | a scenario file, a record | `generate`, `check`, `measure` | `ObservedPerformance` |
| smoke test | `scripts/package_smoke.py` | temporary directories of its own | install, run the program, compare | left out |

Interaction: `main` calls a loader; the loader calls `parse_source` once per
source and gets a `ParsedSource` (device, inode, digest, payloads) or an
exception; the bundle goes to `evaluate_rules`, whose findings go to
`build_report`, which evaluates again and compares; the bytes go to
`write_new_report`. Processes meet only in the file system: in the directory of
the output, and in the files they read. The maintenance scripts run the program
(as a library or as child processes) on files of the working tree, which
maintainers edit at the same time, and two of them may be given one directory.

What makes each component correct:

* reader: what it returns is all that the named file held at one instant, it reads
  only a vetted regular file and only a bounded part of it, it honors SIGINT and
  leaves no descriptor open;
* loaders: a bundle is whole or there is none, no file and no record counts
  twice, limits are never exceeded, acceptance does not depend on the order, and
  a replay is a function of its manifest;
* rules: each rule finds exactly what `docs/RULES.md` says, whatever the
  order of the records; a later analysis time never retells an earlier episode;
  a run has all of its results or none;
* publication: nobody ever sees part of a report, nothing is overwritten, one of
  several competing runs wins, losers leave nothing, and the outcome tells which;
* command line: the status tells what became of the report, no stage refuses what
  the stages before it accepted, and a report never takes the name of an input;
* release bundle: the directory of a successful build holds exactly its bundle;
* release artifacts: what is accepted follows the policy and the limits, what is
  written is of the files that were there, and a refusal changes nothing;
* maintenance scripts: the outcome is that of the world they found, a directory
  that is generated or checked with success is whole and of one origin, and what is
  collected from a tree under edit is the tree of one instant.

## 2. How the project is laid out

```
SourceReader ........ parse_source, one system call per action
  AtomicRead ........ what it promises: one file, one instant
  SourceReaderRefinement, SourceReaderInvariant, SourceReaderProofs
InputFiles .......... files and the programs that change them, what a loader keeps of the sources it read
  EvidenceLoader, ReplayLoader .. the two loops over them
EvidenceRecords ..... records, their order, findings
  AccessRules, DetectionRules .. the nine evaluators
  RuleRun ........... evaluate_rules;  RuleProperties .. what its results must be
EvidenceProofs ...... of the two loaders and the rule run
Publisher ........... write_new_report, one system call per action
  AtomicPublication . what it promises: a report appears at once or not at all
  PublisherRefinement, PublisherInvariant, PublisherProofs
Workbench ........... main of analyze and replay, from the arguments to the exit status
  WorkbenchInvariant, WorkbenchProofs
ToolRuns ............ invocations of scripts, reading sources, output directories, what others do
  SyntheticCorpus ... corpus generate, check and replay
    ExampleReports .. reports generate and check, which prepare their target as the corpus does
  ReleaseBuild ...... build, up to the publication
  ObservedPerformance scenario generate and check, measure
  MaintenanceTools .. all of them side by side
  MaintenanceToolsProofs, MaintenanceToolsOutcomes
ReleaseBundle ....... _publish_release_bundle;  ReleaseBundleProofs
ReleaseArtifacts .... inspect, sbom and checksums
AtomicWrite ......... _atomic_write, its competitors and failures
  SourceSnapshot .... write_source_snapshot beside a repository at work
ReleaseArtifactsProofs of these three
MC* ................. small instances for TLC
```

The layers meet in the abstract specifications: `SourceReader` is checked and
proved to implement `AtomicRead`, so the loaders read a source in one action that
either takes one instant's content or fails; `Publisher` is checked and
proved to implement `AtomicPublication`, so `Workbench` publishes in one action that either binds an
unbound name or fails.

Definitions headed "Faulty variant", and those a comment describes as what the
code does not do, are plausible bugs. No specification uses them; they are put in
the place of a definition to see that a property notices.

## 3. The models

### SourceReader

One action per system call of `_parse_source_owned`. State: `pc` (the next call),
`exc` and `outcome` (the exception in flight and the result), `fds`, the stats
`initial` and `opened` and the comparison `same`, `got` (the blocks read), and the
outside: `content`, `stamp` and `entry` (what files hold, their stat results, the
inode the name leads to), `moved`, `pending`. A file is a sequence of blocks, each
well formed or not; a stat is a stamp that changes with every change of the file,
its size included, which is what `_same_source_state` compares (device, inode,
mode, owner, size, `mtime_ns`, `ctime_ns`). Other programs overwrite, append,
truncate, rename, link, unlink and move the directory, `MaxChanges` times.
Assumption: no two changes share a stamp (see section 7).

### InputFiles, EvidenceLoader, ReplayLoader

A path leads to an inode, an inode to a content, and other programs rewrite and
rebind them between two turns of the loop. A content is a record of what parsing
makes of it: its record ids, size, adapter, whether it is CSV and, for a manifest,
what it declares. SHA-256 is injective, so a declared digest is a content. One
action is one turn of the loop with all its checks in one guard; a failing check
refuses the whole request. Whether other programs are about (`others`) is chosen at
the start: when they are not, acceptance is exact. `ReadFails` and `ReplayReadFails` are
the reader's refusal of a file that changes under it. What both loaders keep (`sources`,
`record_ids`, `count`, `total_bytes`, `outcome`) is declared in `InputFiles`.

### EvidenceRecords, AccessRules, DetectionRules, RuleRun

`RuleRun` follows `evaluate_rules`: selection, analysis time, preflight, one step
per selected rule with the cumulative reference limit, conclusion. The evaluators
are operators from a sequence of records to a set of findings and keep the code's
loops as what they compute: the events in chronological order with ties broken by
record id, the window tests, the retained failures, the keys already seen. `Sorted` is a
stable sort, as Python's is, said by ranks: an element's place is the number of elements
that come before it. A bundle's records are what a loader leaves (`Normalized`): ids
are unique, times representable. Seconds
are numbers, windows are two to three seconds instead of minutes, fingerprints and
correlation ids are the data they digest. `Overflows` has the date arithmetic that leaves
its range: the times before the first second, the window of ERP009 after the last, and an
interval of ERP006 longer than `LongestInterval`, which no run has and the proofs admit.

`RuleProperties` states what `docs/RULES.md` says a rule finds, by quantifiers
over records and without the code's scan.

### Publisher

One action per system call of `write_new_report`: opening and checking the parent,
probing the final name, creating the temporary file (`O_EXCL`, sixteen names),
`fchmod`, each `os.write`, `fsync`, the checks before the link, `os.link`, the
checks after it, the commit, and the clean-up in the `finally` clauses. The inode
of process p is named p. SIGINT is blocked and looked at only at the safe points;
restoring the mask delivers it. Faults are switched on by the constant `Faults`:
`oserror` (any call fails, `os.link` possibly after making the link), `signal`,
`kill`, `power` (unsynced data and any entry may be lost), `move` (the parent path
leads elsewhere), `foreign` (other programs create and remove entries, and in a
shared directory that is not sticky rename any).

### Workbench

`main` for several runs in one directory. One action per argument check, per
comparison of `_paths_alias` (`samefile` and the comparison of resolved paths
are two looks at the directory), per source, then selection, rules, report gate,
link, commit. A name is bound to a file, to another name (a symbolic link), to a
report or to nothing; the report of run r is the file r. A content is a record of
what the rules would say of it (`covers`, `matches`) or the declarations of a
manifest. What may be there at first is a constant, `Situations`, with `others`
("change": other programs rename and rewrite; "fail": calls fail and signals
arrive). `alone` are the runs nothing has disturbed, for which the result is exact;
`steady` the runs during whose comparing and loading nobody renamed.

### ReleaseBundle

One action per system call of `_open_empty_output_directory`,
`_write_exclusive_at`, `_verify_published_bundle` and the roll-back. SIGINT is not
blocked in this script, so `interrupt` raises at any step, also in the clean-up; a
file or directory whose identity was not learned yet stays behind and is listed in
`residual`. The write of one file's content is one action (its partial states
cannot be told apart by another builder); what comes before is `ReleaseBuild`. The files
are written in the order of their names (`WriteOrder`) and verified in the order the
bundle was put together in (`BuildOrder`).
Which faults may occur is chosen at the start from `FaultSets`. Properties about
what a builder published except what others changed while two builders were at work
or after its own verification began: `touched` remembers whom that concerns.

### ReleaseArtifacts

`inspect`, `sbom` and `checksums` in one directory. One action per look at the
path (`lstat`, `stat`, each `open`, each hash) and per turn of the two loops over
an archive's members and of the two over the directory. A member has a path (a
sequence of parts), kind, size, mode and two flags: whether it is as long as it
says, and whether its bytes are free of local paths. `held` remembers what every name was
bound to since a run began, `alone` which runs nothing disturbed. The writing is
`AtomicWrite` reduced to the temporary file and the rename. Other programs put
another file in the place of one and do not write to one that is open.

### AtomicWrite, SourceSnapshot

`AtomicWrite` is `_atomic_write` (the symbolic link and directory checks, a named
temporary file, `chmod`, the write, `fsync`, `os.replace`, the removal in
`finally`) for several writers; what they write is a variable of the module that
uses it. `SourceSnapshot` is `write_source_snapshot` around it: a git process per
action (HEAD, `status`, the flags of the index, `ls-tree`, the look at every
file, `status` and HEAD once more), while others commit, check out, stage, edit and
set `assume-unchanged`. A tree is a set of entries, an entry ordinary or not. Git's
own consistency inside one command is assumed.

### ToolRuns, SyntheticCorpus, ExampleReports, ReleaseBuild, ObservedPerformance

A run is an invocation with its arguments (`request`: the command, whether its path
arguments are valid, the epoch, whether the tools or the interpreter are as
required, what the performance manifest is). One action is one look at a name, one
call that changes a file, or one source read; a loop takes a turn per action, as
many as `number` counts. `tree` is the working tree: a content has a value in every
block, and reading a file that is rewritten meanwhile gives any mixture of what it
held since it was opened (`seen`, `Mixtures`). `had` and `returned` are history
variables: which values a block has had, and whether one came back.

An output directory is what `place` leads to (a directory, a file, a link, nothing);
`holds` has its entries, an entry is absent, a link, a folder, a special file or a
file with its writer and bytes. Bytes are the contract's (`Corpus`), others of the
same size from which the rules say the same (`Alike`), none, or too many; a page is
the inputs it was made from, and the manifest and checksums all of them.

* `SyntheticCorpus`: `_prepare_empty_target`, `_write_managed_corpus`,
  `_check_corpus` (walk, examine, compare the names, then a size and a read per
  file), and `replay`, which checks, loads the manifest (whose path may have another name:
  `Misnamed`), runs the command line on a scenario and on a validation case, and checks
  again. A directory that the corpus has made is written to without a look into it; the
  generator of reports looks. The real corpus has several of each.
* `ExampleReports`: `_expected_tree` reads the inputs of a scenario (`pass` "first"),
  loads them ("loaded"), reads them again to compare the provenance ("again") and
  once more ("last"); `managed` collects the scenarios. The output directory is
  opened once and used by its descriptor (`fd`). The loader accepts a file whose
  content is the one it had when it was opened; `EvidenceLoader` and `SourceReader`
  model it in full.
* `ReleaseBuild`: `version` is read first, `plan` lists the files to stage (the
  package's modules are listed only when their turn comes), `taken.first` and
  `taken.last` are the two stages, `built` the two builds of a tool that may not be
  deterministic ("noise"). The epoch is early (refused at once), usual, late (no wheel can
  say it) or huge (`os.utime` of the first stage raises `OverflowError`: a traceback).
  `_normalize_wheel` and `_normalize_sdist` are functions of bytes and left out. `Publish` takes a free name or fails: `ReleaseBundle` models it.
* `ObservedPerformance`: `_write_new_file` with its withdrawal after a failure, the
  checks of the input, and the children; `observed` has what each child reported (its
  environment, which may "drift", and the bytes its report was made from).

`MaintenanceTools` puts them side by side, with maintainers who edit the tree, other
programs that change entries and move directories, failing calls, SIGINT and
SIGKILL (`others`, `MaxChanges`). `Outcome` says what a run must come to in the
world `found` when it began; `alone` are the runs nothing has disturbed.

## 4. The runs

Deadlock checking is on where the model says that a program that ended stutters
(the loaders, the rule runs) and off in the others, where ended processes do
nothing more.

| run | bounds | what it shows |
|---|---|---|
| publisher | 2 processes, one of them ignoring SIGINT, 1 temporary name and attempt, 2 blocks; failing calls, other programs, SIGINT, SIGKILL, power loss | `OneWinner`, `FailureLeavesNothing`, `CompleteReport`, `SignalHonored`, `OnlyOwnEntriesChange`, `ImplementsAtomicPublication` |
| publisher_dirs | 2 processes, 2 directories, one of them shared, 1 temporary name, 2 attempts, 1 block, the path moves; fair processes | `CommittedStays`, `CommitsWhatThePathShows`, `Terminates` |
| reader | 2 files, a device, a symbolic link, sizes below, at and above the limit of 2 blocks, 2 changes, SIGINT, failing calls; a fair reader | `ParsesWhatTheNameShows`, `ReadsBounded`, `RefusalsJustified`, `InterruptHonored`, `ImplementsAtomicRead`, `Terminates` |
| evidence | 3 paths, 3 inodes, 6 contents, every binding with nobody else about; one binding, two of its paths links to one file, with up to 4 changes between two reads | `WholeBundle`, `AcceptsExactly` |
| replay | 3 paths, 3 inodes, 18 contents with nobody else about; 3 replays with up to 3 changes | `PinnedBundle`, `WholeReplay`, `ReplaysExactly` |
| rules | five families of calls: 5 sign-ins; 3 sign-ins and 2 indicators; 2 changes and 2 sign-ins; 5 failures of 2 principals; subsets of 12 records with 9 selections and 4 analysis times | `FindingsExact`, `OrderIrrelevant`, `LaterTimesAgree`, `PreflightSuffices`, `NoPartialResult`, `InactivityConclusive` |
| rules_horizon | the change family | violates `ChangesNotRejected`, the finding of section 6 |
| snapshot | 2 writers of one manifest, 3 commits of up to 2 entries, 2 changes of the repository, 1 of the names; failing calls, SIGINT, SIGKILL | `SnapshotExact`, `CleanWhenQuiet`, `FailuresHarmless` |
| bundle | 2 builders of two versions, 2 parents; no faults, or failing calls, SIGINT and SIGKILL, or other programs that meddle twice | `ExactBundle`, `FailureLeavesNothing`, `NoMutualDefeat`, `OnlyOwnEntriesChange` |
| workbench | 2 runs, 3 names, 3 files, 6 contents; one run with nobody about, two runs, two runs that fail, one run and 2 changes by others | `ExitExact`, `ExitTells`, `NeverItsOwnInput` |
| artifacts | 2 runs, 7 names, some 1,300 archives around a policy of 2 files, limits of 3 members, 2 bytes each and 4 in all; 2 changes by others, failing calls, SIGINT, SIGKILL | `ResultsExact` |
| tools | 2 runs, 6 sources of 2 blocks with 2 values, 2 directories of 8 names, 2 scenarios, a package of 2 modules, 2 series of 2 children; one run in some 4,000 worlds, two runs that share directories while calls fail, one run beside 2 edits, changes or moves, a generator of reports beside a check of them beside 2 moves; 4,112 initial worlds, 1.27 million states | `OutcomesExact`, `ResultsWhole`, `OneInstant` |

The type invariants of `Publisher`, `SourceReader`, the loaders, `ReleaseBundle` and
`Workbench` are proved instead of checked.
Some runs choose at the start what may go wrong (`others` of the loaders, of
`Workbench` and of `ReleaseArtifacts`, the bundle's `faults`): a state space for each
choice, so that a property about the undisturbed program is checked beside the ones
about interference.

Why the bounds are enough. Publisher: the properties relate at most two processes,
and a third adds no entry that two cannot produce; two blocks have a short write;
one temporary name is a collision for the second process, a second attempt finds
it free again. Reader: one change tells the first stat from the last, two change a
file and change it back, or swap a name and restore it; a limit of two blocks has
sizes below, at and above. Loaders: checks relate a source to one earlier source,
so two sources and a third path with a repeated base name show each refusal;
contents are chosen at, below and above each limit (3 bytes in all, 2 or 3
records). Rules: thresholds are 3, so five events have a burst with one to spare
before and after; windows of one or two over four times have pairs inside, at and
past each end; the reference limit of 20 admits the largest single finding, and the
six evidence rules together exceed it. Bundle: the manifest is the first name every
bundle has, so the race is decided by two builders. Workbench: an alias needs an
input, an output and a manifest's source, hence three names; a removal and a
replacement, or a rename and its reversal, are two changes. Artifacts: the policy
has a file two directories deep and one at the top, so a parent's parent is
distinguished from a parent; every other member is off in one respect. Snapshot: a change and its
reversal fit between two git processes, which is how a re-check could be misled.
Tools: corpus and reports share two of their names, so each generator can find the
other's files at the first and at a later one; a file is removed and restored, or
changed back, with two edits; of two blocks one can be read before and one after an
edit; a second scenario shows that nothing of the first is left, a second series
that an environment drifts between two series; every managed name is tried with
every kind of entry, and every pair of sources with every content.

Fairness. `Publisher` and `SourceReader` assume weak fairness of the steps of a
process that has started, because the kernel schedules a runnable thread; the
reader's termination does not lean on a failing call. Nothing is assumed of other
programs, of signals or of failures. The loaders, the rules, the bundle,
the commands and the scripts have no liveness property: their loops are bounded by their input.

## 5. What is proved

The theorems hold for every value of the constants that satisfies the named
assumptions: any set of processes, directories and names, any report size, any
limit, any set of files and contents, any choice of faults.

`PublisherProofs`: `TypeCorrectness`, `ReportsComplete`, `CommitsLast`,
`CommitsVisibleReports`, `OnlyOwnEntriesChangeHolds`, `OneWinnerHolds`,
`FailureLeavesNothingHolds`, `SignalHonoredHolds` and
`PublisherImplementsAtomicPublication`: every safety property of the publisher.
None of the properties is inductive alone. `PublisherInvariant` adds what the
program counter implies: which descriptors and names a process owns at a step
(`temporary` is open from `create` to `close`), that past `chmod` its file is
private, past `write` whole, past `fsync` synced, that an entry bound to p exists
only after p created its file, and that under the final name only after the
link. `Holds` and `Apart` also say who may remove an entry: before the
commit the process itself in its clean-up, afterwards nobody while the directory is
not shared. `Invariance` proves the conjunction by one step per action.
`CommitsLast` and `CommitsVisibleReports` cover the moving parent and other
programs; the directory that is opened is not shared by then because
`CheckParent` refused it otherwise.
A second layer, `OutcomeInv`, is proved on top of `IInv`. `Told` ties what a process
reports to what it did: no exception is unwinding before the first failure, a
clean-up without one is past the commit, and a SIGINT known before the last safe
point excludes the commit. `Left` follows the clean-up: the descriptor its inode
comparison needs is open until `close`, and past each of its two removals an entry
of the process is committed or one the system refused to remove. Steps of other
processes change none of this (`OthersKept`), so each action is argued for its own
process only. The refinement maps `link`, the roll-back, the commit and the return
to steps of `AtomicPublication` and every other step of a process to none; it needs
`OutcomeInv` because a committed process must never return `OutputError`, nor one
that did not commit success.

`SourceReaderProofs`: `TypeCorrectness`, `BoundedReading`, `VettedReading`,
`InterruptsHonored`, `RefusesForCause`, `ParsesNamedFile`,
`ReaderImplementsAtomicRead`: every safety property of the reader.
`SourceReaderInvariant` says that what was read is a prefix of the file as long as
the file's stamp is the one of the stat that opened it, and that a stamp a process
remembers is never ahead of the file's; two equal stamps thus mean that
nothing happened in between, which is the argument of the code's three stats. `Excused`
and `Untouched` are its other half: while nobody has changed the file or the name
and nothing was interrupted, every stat taken so far is the one of now, so a reader
that refuses has one of the documented reasons. The
refinement maps `pc` and `outcome` to a status and a held content; it has one
lemma for the initial states, one per kind of step and uses the invariant for the
step that accepts.

`EvidenceProofs`, of the loaders: `TypeCorrectness`, `BundlesAreWhole`, `AcceptsExactlyLoadable` of the
evidence loader; `ReplayTypeCorrectness`, `ReplaysArePinned`, `ReplaysHaveNothingTwice`,
`ReplaysAreWhole`, `AcceptsExactlyReplayable` of the replay loader: every property of the
two, for requests and manifests of any length. Both invariants (`IInv`, `ReplayInv`) say that
what the loader remembers
(the inodes it saw, `record_ids`) is what the sources read so far hold, that no two
of these share a file or a record, and for a replay that the k-th has the content
the k-th declaration names; they hold however files change between the turns,
because they speak only of what was read. `Counted` adds that the totals are the sums
over these sources. While nobody touches the files (`Decided`), what was read is what
the paths lead to, so a turn that refuses contradicts `Loadable` or `Replayable`
(`NextFits`; a sum that grows past a limit on the way is past it at the end,
`TotalsOfFirst`), and the end of the loop is all of it (`AllRead`). The sums are
the one place where a proof needs an induction over data. The library's induction
theorems take a predicate, which no prover here can instantiate, but a set can stand
for it: `Inductive` says that a set of numbers with 0 that has k whenever it has k - 1
has all of them, and follows from the well-foundedness of `<` on the naturals
(`WFMin`, `NatLessThanWellFounded`). `SumsExist`, `SumsAgree` and `SumsGrow` are its
uses, and `TotalIsLast` that the recursive function `Total` is such a sum.

`EvidenceProofs`, of the rules: `FindingsAreExact`, `OrderIsIrrelevant`, `LaterTimesAlwaysAgree`,
`PreflightAlwaysSuffices`, `NeverAPartialResult`, `InactivityIsConclusive`: every
property of the rules that is checked and holds, for evidence of any size, any
thresholds, windows and privileges, every analysis time and any limit. It has three parts.

* Order. `Ranks` numbers the elements of a finite set by a linear order: the number of
  elements up to an element grows with it, so these numbers are all different and, being
  as many as the elements, all there (`FS_Injection` counts where a scan would take an
  induction). From it `SortedInOrder`: what a rule sorts is a sequence of exactly the
  records it selects, each before the next (`Ordered`). `OneOrder` says that two such
  sequences of one set are equal, because the position of a record is the number of
  records before it (`PositionsCount`); hence an evaluator cannot tell in which order the
  records came (`SameReplayFindings`, `SameAccessFindings`), and `OrderIsIrrelevant` needs
  nothing but that a rotation or a reversal keeps the set. That unique ids decide every
  tie is where the proof uses `Normalized`: without it the theorem is false.
* The evaluators. For each of ERP006 to ERP009 a lemma turns the scan into a set
  (`Erp006Reported`, `Erp007Is`, `Erp008Is`, `Erp009Is`): the first position of a key is
  the earliest record of that key, the last three of a slice are those fewer than three
  come after (`RetainedInOrder`, by counting both), the last candidate is the latest
  (`LastIsLatest`). For ERP006 `BurstIsOne` and `BurstIsFirst` show that the scan over
  consecutive failures misses no set of failures in one window: such a set spans at least
  the consecutive failures that begin with its first, so these are in one window too and
  the scan stops there or before. `Erp007Stays` and its like, and
  `PastSuffices`, compare the same sets at two analysis times, for
  `LaterTimesAlwaysAgree`.
* The call. `CallIInv` says that the turns taken are the first ones of the selection in
  registry order and none raised (`InTurn`), what the preflight has established
  (`Covered`), and that `refs` is the number of references of all findings so far, which
  is within the limit (`ReferencesCounted`). The count adds up because each finding names its rule
  (`ReplayFindingsReported`, `AccessFindingsReported`), so two rules never share one.
  `Covered` is what excludes the `KeyError` of ERP005 and the `IncompleteEvidenceError`
  halfway; the properties alone are not inductive, because they forget the selection.

The proofs rest on the assumptions of the four modules about their constants: thresholds
and windows are positive numbers, toxic pairs are pairs and finitely many, the records of
a call are normalized.

`ReleaseBundleProofs`: `TypeCorrectness`, `ExactBundleHolds`,
`FailureLeavesNothingHolds`, `OnlyOwnEntriesChangeHolds`, `NoMutualDefeatHolds`:
every property of the bundle, for faults in any combination (the run has them one
kind at a time). `Descriptors` says that a builder at a step that uses the parent, the
output directory or a created directory has one. `Remembered` finds every file of a
builder in its directory under a name of its bundle and in its memory: `identities`,
the position of the loop or `residual`, until it is removed or reported, which is
why the roll-back leaves nothing it could remove. `Undisturbed` and `OwnsManifest`
hold while no other program meddles: a name that was compared still leads to the
builder's file when it is unlinked, and of the builders in one directory the one with
the manifest writes on. `Verified` says that each look of the verification is still
true at the next; it needs `Alone`: of two builders at work at the same time none is
outside `touched` once others meddle. `Contest` is the
invariant behind `NoMutualDefeat`: without faults either nobody has written a file
and somebody is still before the write (`Undecided`), or one builder has the manifest
and all it wrote after it (`Leading`), and no step of another takes that away.

`ReleaseArtifactsProofs`, of the snapshot: `SnapshotTypeCorrectness`, `SnapshotExactHolds`,
`CleanWhenQuietHolds`, `FailuresHarmlessHolds`: every property of the snapshot, with
the `_atomic_write` below it. `SnapshotInv` follows a writer: what it has read is a
beginning of the tree of the revision it read first and ordinary (`ReadSoFar`), its
text is the whole manifest of that tree (`TextWhole`), its temporary file holds that
text when it is renamed (`TempWhole`), and the output is what was there or such a
manifest. `QuietSince` says of a writer in whose repository nothing has happened since
its second `status` that what its re-checks found is still so.

The same module, of the other commands: `ResultsAreExact`, the property of `inspect`, `sbom` and
`checksums`, for archives of any size, any policy and limits, any directory and any
number of commands at work in it. `IInv` has, for every command and each of its steps,
what the checks it has passed have shown (`Done`) and what the directory may be (`Steady`).

* The archive. `Reads` and `Judges` say of the two loops that the members dealt with are
  bounded and judged, that `total` is the sum of their sizes and that `observed_paths`
  and `observed_files` are their paths. At the end that makes the archive `Deserving`:
  every check, said of the whole archive. `AcceptableMeans` shows that this is
  `Acceptable`, which is stated without the loops: the paths are as many as the members
  exactly if no path is observed twice (`Distinct`, `RepeatlessCount`), the sum of the
  sizes stays within the limit at each member exactly if it does at the last
  (`SizesGrow`), the allowed directories are the strict prefixes of the policy's paths
  (`ParentsAreAllowed`). A refused command had found a check that its archive does not
  pass (`Refusal`), so the status is exact in both directions.
* The recursion. `Sizes` and `Listing` are recursive functions. `Recursion` shows that
  such a function exists (step by step, with `Inductive`), and `GoesInside` that its
  values stay in a set; `SizesAddUp` and `ListingOfNames` are what follows for the two.
* The others. `Were` has all files that had the archive's name since the command began.
  A command keeps only files of that set, and the set only grows, so what `Done` says of it
  is true whatever others do (`DoneStays`, `RunStays`): that is `ToldWhatWas`. While nothing
  disturbs the command the set has one file (`Found`), so the archive that was opened is the
  one that is hashed and the listing is the one of now: that is `Exact`.

It assumes that archives hold sequences of members and are none of the other things a name
may lead to (`ArchivesAreArchives`), that filename order is a sequence without repetition
(`NamesAreSorted`), that the temporary names are of the directory, different, and free at
first, as `mkstemp` makes them (`TemporariesAreNames`, `SituationsAreStarts`), that
`argparse` leaves one of the three commands and two kinds, and that the limits are numbers.
TLC checked `IInv` in the instance of `artifacts` before it was proved.

`WorkbenchProofs`: `TypeCorrectness`, `StatusTells`, `ExitCodesExact`,
`NoInputOverwritten`: every property of the command line.
The last is why the alias checks suffice although the link comes much later, and
needs the longest invariant (`WorkbenchInvariant`). Before the loading: an input
whose name is the output's was no file when it was compared (`ComparedBefore`), so
the reader, which needs a file there, refuses it unless somebody renamed in between.
After the loading of a replay: a declared source that has the output's name was
read there, so the name is still bound to a file when the second check compares it
with itself, and the check fails (`ReadFiles`, `ComparedAfter`). Once past the checks
(`Apart`) the names are fixed. `Owned` says that a report has the requested name
from the link to its withdrawal and no other name ever, from which `StatusTells`
follows. `ExitCodesExact` needs a second invariant, `AloneInv`, of the runs nothing
has disturbed: what such a run has read so far is what its names lead to now
(`ReadHere`), and what it has decided so far is what `Succeeds` says of it
(`Decided`). A turn of a loop that refuses thereby contradicts `Succeeds`, and the
end of the loops is all of it; that the comparisons after the loading refuse what the
ones before it let pass is no contradiction, because only declared sources are new.
It assumes of the arguments what `argparse` leaves (`SituationsAreStarts`): the rules
that are named are among the command's choices.

`MaintenanceToolsProofs`: `TypeCorrectness`, `OneInstantHolds`, `ResultsAreWhole`. Why is it enough to
read everything again and to find it the same? Let the instant be the end of the
first reading. A value read in the first pass that differs from the one at the
instant was there before it and is gone at it (`Gone`, `Lost`); where no value comes
back (`~returned`) it stays gone, so a file opened later cannot hold it, no mixture
of later contents has it, and the last pass reads something else: the comparison
fails. What was loaded between the passes and differs from the instant shows
likewise that the value of the instant is gone, so the last pass cannot find it. The
argument works block by block, hence for files that are rewritten while they are
read. `Scenarios` and `Plans` say what has been read when a pass ends, `Compared`
that a build that goes on is made of the first stage and says its version, and
`ReleasedInv` that a release stays what it was when it was published. It rests on
the assumptions of `ToolRuns` and `ReleaseBuild`: the initial worlds are worlds,
nothing is released in them, `__init__.py` is among the staged files.

`ResultsAreWhole`: what a script that says 0 leaves
or has checked is whole. Its invariant `WholeInv` has five parts, which TLC checked on
the configuration of `tools` before they were proved.

* `Tied`: a run does only steps of its own command. (`pc` alone does not say so: the
  steps of four scripts share one next-state relation.)
* `UsedInv`: a directory that is not used yet is empty, so one that a generator makes is
  vacant, and the corpus need not look into it.
* `DirectoriesInv`. Both generators create `SHA256SUMS` before any other file, with
  `O_EXCL`, in a directory in which they have seen no entry but the README. So whoever
  created it in a directory is the only run that adds files to it (`Owned`), and what it
  has not reached yet is as it was found (`Grown`, `Generates`). A check that has seen
  `SHA256SUMS` whole has seen the checksums of one generator (`ChecksumsDiffer`: those of
  a corpus are not those of reports), so the other files it finds are of that one; it
  has listed all of them, because nothing but a generator adds a file (`Walks`), and
  what it has compared stays as it was (`Compares`). `Deduced` says that all
  scenarios have been evaluated before a generator of reports looks at its target.
* `MeasureInv`: each child of a series has told what the first of the series told, each
  series has the environment of the first series, and a record is made of these.
* `BuildInv`: nothing is staged that is not compared, so that two builds whose copies are
  the same (`Same`) differ in the build's own noise only, which `CompareBuilds` refuses.

The assumptions it adds say what the sources' constants are: `SHA256SUMS` comes first in
both lists of paths and is no page, the README is in neither, every page has a scenario,
no initial entry was written by a run, and what is no file is none of the files.

The proof corrected the model and the property. The model listed a directory in the
order of its names; now entries are examined in any order, as they come from the file
system, and the sequence of all names that fixed the order is gone (`Slots` is a
set). The property said that reports are whole even when directories are moved. TLC
refuted that where a corpus is generated at the time: `example_reports.py` holds its
directory by a descriptor, but `synthetic_corpus.py` uses a path for each file, and a
move between two of its files lets it go on in the directory that the reports are
written to. `Apart` says so now, and a generator of reports beside a check and two moves is
among the initial worlds of `tools`.

`MaintenanceToolsOutcomes`: `OutcomesAreExact`: a command that is left alone ends with the status, and leaves the
files, that `Outcome` computes from the world it began in. `Outcome` says it at once; the
scripts look at one thing after the other, and end at the first that is wrong. So the
invariant `OutcomeInv` says for each group of steps (`Lone`, TLC checked it on the
configuration of `tools`) what the looks so far have settled:

* `Targets`, `Prepares`, `Produces`: a generator has changed nothing until its directory
  is found vacant or made (`Grounded`); from then on it is certain to end well, and the
  world is the one found with the first `number` files (`SoFar`). No file it creates is
  in its way, because no path occurs twice (`NoPathTwice`).
* `Inspects`, `Collates`, `Replays`: a check changes nothing, has seen what it listed,
  and what it has examined, sized and compared was right: so the entry that makes it
  end decides the outcome, whichever comes first.
* `Deduces`: what has been read is what is there (`Faithful`: nobody writes, so a read is
  no mixture), and the scenarios before the current one are good ones; the first bad one
  decides the status, because the inputs of a scenario are loaded before any is evaluated.
* `Makes`: a build has copied what there is, hence nothing is lacking when both stages
  are complete, the stages are the same, and so are both archives.
* `Watches`: a measurement has its input, its record is still empty, and every child has
  told the same, so neither a series nor a pair of series differs.

A step of another run leaves a run undisturbed or ends its being alone (`Spares`), since
whoever changes something disturbs all that are at work; for each kind of
step of a run itself a lemma shows what it owes (`Due`): the outcome if the run ends, `Lone` if it
goes on. `Playable`, the other part of `OutcomeInv`, says that a replay whose manifest has
another name never gets past loading it.
The assumptions it adds: what the name of the output leads to is one of the kinds that the
model has, and directories that are elsewhere are empty at first (`SituationsAreWorlds`);
no path occurs twice, and the manifest and both inputs of a replay are
paths of the corpus (`NoPathTwice`, `TheCorpusIsManaged`); no file that is expected
is empty or of another size (`SizesDiffer`); a missing source cannot be loaded
(`NothingCannotBeLoaded`); there is a report format (`FormatsAreListed`); and the model's own
values differ (`PlacesDiffer`, `VersionsDiffer`).

This proof corrected the model, too: `Listed` left out links that lead nowhere, which
`rglob` lists and `_copy_regular_file` then refuses (`scripts/build_release.py:107`); such
links are among the worlds of `tools` now.

Only model-checked, and why:

* liveness (`Terminates`), which is out of the prover's reach.

## 6. Findings

* `rules_horizon`: a sign-in in the last half hour of the year 9999 that precedes a
  sensitive change makes ERP009 add its window to the sign-in's time, which
  overflows (`wb/rules.py:1171`); the evidence is rejected as invalid instead of
  evaluated.

Seen in the code, without a run of their own:

* `docs/REPLAY_CONTRACT.md:96` says that records exactly at either boundary of a
  correlation window qualify. ERP009 (and ERP007 at the success) leaves out a record
  at the boundary where the two events have the same second (`wb/rules.py:1169`).
  `docs/RULES.md` agrees with the code, and so does `FindingsExact`.
* `docs/OBSERVED_PERFORMANCE.md:67` says that the exact input bytes are verified for
  each format. `measure` compares them with the contract once
  (`scripts/observed_performance.py:957`), and the record has the digest of the
  manifest (line 893). A child has to report the expected findings and what the other
  children of its format reported, no more. If the file is replaced after the check by
  other bytes with the same findings (`Akin` in `ObservedPerformance`), the record has
  the digest of one file and the times of another. In the model such a record is
  reachable by one change between `ReadExactInput` and the children; what
  `ResultsWhole` says, that the children agree with the record, holds nevertheless.

## 7. What is not modelled

* Text: CSV and JSON grammars, escaping, HTML and SARIF layout, error messages.
  They are pure functions that the repository's unit tests cover.
* Timestamps as strings. Years before 1000 are formatted without padding by
  `wb/timestamps.py:26` on some platforms; such strings do not sort as times do.
* The alias checks promise something only while nobody renames during the checks
  and the loading: with a rename in between, a report may take the name an input
  had (`steady` excludes those runs).
* The archive that is inspected and the file that is hashed are opened separately:
  the digest that `inspect` reports may be of a file that replaced the inspected one
  meanwhile, and `SHA256SUMS` lists the temporary file another or a killed writer
  left in the directory. `ResultsExact` says what remains true then (`ToldWhatWas`).
* ZIP, tar and METADATA grammars: an archive is the list of its members.
* A file system whose clock gives two changes one stamp, memory-mapped writes
  without a new `mtime`, the reuse of an inode number; `docs/LIMITATIONS.md` limits
  its claims to the checkpoints.
* Programs of the same user that rename or rewrite the publisher's own files in a
  directory nobody else may write to (`docs/LIMITATIONS.md`, same-UID).
* After a power loss nothing runs again in the model: it says what a reader may
  find. Entries that were removed and not synced may come back in reality.
* The smoke test: a straight line of child processes in temporary directories of
  its own, whose results are compared with constants.
* The statistics of a measurement, and the normalization of archives after a build.
* Devices and pipes in the place of the scenario file that `observed_performance.py`
  is given: it opens them as files.

## 8. Plan

Every safety property that a passing run checks is proved. The liveness properties stay
with TLC, and so do the parts of section 7.
