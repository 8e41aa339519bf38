---------------------------- MODULE Workbench ----------------------------
(***************************************************************************)
(* erpsec analyze and erpsec replay (cli.py main), several runs of them    *)
(* in one directory: arguments, alias checks, one loader, the rules, the   *)
(* report gate and the publication, ending in an exit status.  A source is *)
(* read as AtomicRead promises and a report appears as AtomicPublication   *)
(* does; what the rules find in a bundle is part of its contents.          *)
(***************************************************************************)
EXTENDS Naturals, Sequences, FiniteSets, SequencesExt

CONSTANTS
  Runs,                \* the invocations; the report of run r is the file r
  Names,               \* the names of the directory
  Inodes,              \* the files that are there at first
  Absent,              \* a name bound to nothing
  Contents,            \* what a file may hold, see below
  Situations,          \* [entry, content, request, others]: what there may be at first
  ALL_RULE_IDS, DETECTION_RULE_IDS, RULE_ID,
  MaxChanges           \* bound on the changes other programs make

(* A content is a record: its kind is "evidence", "manifest" or "other"; evidence     *)
(* has the rules that have their records in it (covers) and those that find something *)
(* there (matches); a manifest has the names and digests it declares.                 *)
ASSUME ContentsAreRecords ==
  \A c \in Contents :
    /\ c.kind \in {"evidence", "manifest", "other"}
    /\ c.matches \subseteq c.covers
    /\ c.covers \subseteq ALL_RULE_IDS \cup DETECTION_RULE_IDS
    /\ c.declares \in Seq([name : Names, sha256 : Contents])
    /\ c.kind = "manifest" => c.declares # <<>>
ASSUME RulesAreApart == ALL_RULE_IDS \cap DETECTION_RULE_IDS = {} /\ RULE_ID \in ALL_RULE_IDS
ASSUME FilesAreApart ==
  /\ Inodes \cap Runs = {} /\ (Inodes \cup Runs) \cap Names = {}
  /\ Absent \notin Inodes \cup Runs \cup Names
(* analyze takes one input or more, replay one manifest; rules are argparse choices. *)
ASSUME SituationsAreStarts ==
  \A s \in Situations :
    /\ s.entry \in [Names -> Inodes \cup Names \cup {Absent}]
    /\ s.content \in [Inodes -> Contents] /\ s.others \subseteq {"change", "fail"}
    /\ \A r \in Runs :
         /\ s.request[r].inputs \in Seq(Names) /\ s.request[r].inputs # <<>>
         /\ s.request[r].command = "replay" => Len(s.request[r].inputs) = 1
         /\ s.request[r].output \in Names
         /\ s.request[r].valid =>
              ToSet(s.request[r].rules) \subseteq {"all"} \cup
                (IF s.request[r].command = "replay" THEN DETECTION_RULE_IDS ELSE ALL_RULE_IDS)
ASSUME ChangesAreCounted == MaxChanges \in Nat

VARIABLES
  entry,      \* what a name is bound to: a file, another name (a symbolic link) or nothing
  content,    \* what the files hold
  others,     \* "change": other programs are about, "fail": calls fail, signals arrive
  changes,
  request,    \* the arguments of every run
  pc,         \* where every run is
  checked,    \* the input paths its current alias check has passed
  manifest,   \* what a replay read as its manifest, in a set of at most one
  sources,    \* the files and contents read so far
  findings,   \* the rules that found something
  exit,       \* the exit status, or how else a run ended
  alone,      \* runs that nothing has disturbed so far
  steady      \* runs during whose alias checks and loading nobody else bound a name anew

directory == <<entry, content, others, changes>>
results == <<manifest, sources, findings>>
run == <<pc, checked, exit>>
history == <<alone, steady>>
vars == <<directory, request, run, results, history>>

Init ==
  /\ \E s \in Situations :
       entry = s.entry /\ content = s.content /\ request = s.request /\ others = s.others
  /\ changes = 0
  /\ pc = [r \in Runs |-> "arguments"]
  /\ checked = [r \in Runs |-> 0]
  /\ manifest = [r \in Runs |-> {}]
  /\ sources = [r \in Runs |-> <<>>]
  /\ findings = [r \in Runs |-> {}]
  /\ exit = [r \in Runs |-> "running"]
  /\ alone = Runs /\ steady = Runs

At(r, step) == pc[r] = step
Goto(r, step) == pc' = [pc EXCEPT ![r] = step] /\ UNCHANGED <<checked, exit>>
Exit(r, status) ==
  /\ pc' = [pc EXCEPT ![r] = "ended"]
  /\ exit' = [exit EXCEPT ![r] = status]
  /\ UNCHANGED checked

(* Any exception but KeyboardInterrupt is reported on stderr. *)
Fail(r) == Exit(r, "2")

Unpublished == UNCHANGED <<directory, request, history>>

-----------------------------------------------------------------------------
Replaying(r) == request[r].command = "replay"
OutputOf(r) == request[r].output

(* argparse and _canonical_as_of: a choice that is none, or no analysis time. *)
ParseArguments(r) ==
  /\ At(r, "arguments")
  /\ IF request[r].valid THEN Goto(r, "same file") ELSE Fail(r)
  /\ UNCHANGED results /\ Unpublished

(* The paths compared with the output: before loading those that were given, after    *)
(* the loading of a replay also those its manifest declares.                          *)
Declared(r) == (CHOOSE m \in manifest[r] : TRUE).declares
DeclaredNames(r) == [k \in DOMAIN Declared(r) |-> Declared(r)[k].name]
InputPaths(r) ==
  request[r].inputs \o (IF manifest[r] = {} THEN <<>> ELSE DeclaredNames(r))

Target(n) == IF entry[n] \in Names THEN entry[n] ELSE n
Exists(n) == entry[Target(n)] # Absent

(* _paths_alias asks two things, one after the other; an input that is not there is   *)
(* no alias of anything.                                                              *)
SameFile(i, o) == Exists(o) /\ Exists(i) /\ entry[Target(i)] = entry[Target(o)]
SamePath(i, o) == Exists(i) /\ Target(i) = Target(o)

CompareFile(r) ==
  /\ At(r, "same file")
  /\ IF SameFile(InputPaths(r)[checked[r] + 1], OutputOf(r)) THEN Fail(r) ELSE Goto(r, "same path")
  /\ UNCHANGED results /\ Unpublished

AfterChecks(r) == IF manifest[r] # {} THEN "select" ELSE IF Replaying(r) THEN "manifest" ELSE "load"

ComparePath(r) ==
  /\ At(r, "same path")
  /\ LET n == checked[r] + 1
     IN IF SamePath(InputPaths(r)[n], OutputOf(r)) THEN Fail(r)
        ELSE IF n < Len(InputPaths(r))
        THEN /\ checked' = [checked EXCEPT ![r] = n]
             /\ pc' = [pc EXCEPT ![r] = "same file"]
             /\ UNCHANGED exit
        ELSE /\ checked' = [checked EXCEPT ![r] = 0]
             /\ pc' = [pc EXCEPT ![r] = AfterChecks(r)]
             /\ UNCHANGED exit
  /\ UNCHANGED results /\ Unpublished

-----------------------------------------------------------------------------
(* A final component that is a symbolic link is refused; a report is no evidence.     *)
Readable(n) == entry[n] \in DOMAIN content

LoadManifest(r) ==
  /\ At(r, "manifest")
  /\ LET n == request[r].inputs[1]
     IN IF Readable(n) /\ content[entry[n]].kind = "manifest"
        THEN /\ manifest' = [manifest EXCEPT ![r] = {content[entry[n]]}]
             /\ Goto(r, "load")
        ELSE Fail(r) /\ UNCHANGED manifest
  /\ UNCHANGED <<sources, findings>> /\ Unpublished

SourceNames(r) == IF Replaying(r) THEN DeclaredNames(r) ELSE request[r].inputs

(* What the loaders refuse of a source: EvidenceLoader and ReplayLoader say it all.   *)
Acceptable(r, i) ==
  LET k == Len(sources[r]) + 1
  IN /\ content[i].kind = "evidence"
     /\ \A s \in ToSet(sources[r]) : s.inode # i
     /\ Replaying(r) => content[i] = Declared(r)[k].sha256

(* Faulty variant: the sources a manifest declares are not compared with the output.  *)
ManifestOnly(r) == "select"

AfterLoading(r) == IF Replaying(r) THEN "same file" ELSE "select"

LoadSource(r) ==
  /\ At(r, "load")
  /\ LET n == SourceNames(r)[Len(sources[r]) + 1]
         i == entry[n]
     IN IF Readable(n) /\ Acceptable(r, i)
        THEN /\ sources' = [sources EXCEPT ![r] = Append(@, [inode |-> i, content |-> content[i]])]
             /\ IF Len(sources[r]) + 1 = Len(SourceNames(r))
                THEN Goto(r, AfterLoading(r)) ELSE UNCHANGED run
        ELSE Fail(r) /\ UNCHANGED sources
  /\ UNCHANGED <<manifest, findings>> /\ Unpublished

-----------------------------------------------------------------------------
(* _selected_rule_ids and _selected_replay_rule_ids: what --rule was given.           *)
Selectable(r) == IF Replaying(r) THEN DETECTION_RULE_IDS ELSE ALL_RULE_IDS
Default(r) == IF Replaying(r) THEN DETECTION_RULE_IDS ELSE {RULE_ID}
Given(r) == request[r].rules
SelectionValid(r) == IF "all" \in ToSet(Given(r)) THEN Given(r) = <<"all">> ELSE IsInjective(Given(r))
Selected(r) ==
  IF Given(r) = <<>> THEN Default(r)
  ELSE IF Given(r) = <<"all">> THEN Selectable(r) ELSE ToSet(Given(r))

Select(r) ==
  /\ At(r, "select")
  /\ IF SelectionValid(r) THEN Goto(r, "evaluate") ELSE Fail(r)
  /\ UNCHANGED results /\ Unpublished

ContentsOf(r) == {s.content : s \in ToSet(sources[r])}
Covered(cs) == UNION {c.covers : c \in cs}
Matched(cs) == UNION {c.matches : c \in cs}

(* evaluate_rules: RuleRun says it all. *)
Evaluate(r) ==
  /\ At(r, "evaluate")
  /\ IF Selected(r) \subseteq Covered(ContentsOf(r)) /\ (Selected(r) \cap DETECTION_RULE_IDS # {} => Replaying(r))
     THEN /\ findings' = [findings EXCEPT ![r] = Matched(ContentsOf(r)) \cap Selected(r)]
          /\ Goto(r, "report")
     ELSE Fail(r) /\ UNCHANGED findings
  /\ UNCHANGED <<manifest, sources>> /\ Unpublished

(* Faulty variant: replays are reported under the schema of analyses. *)
OneSchema(r) == "erpsec.report/v1"

Schema(r) == IF Replaying(r) THEN "erpsec.report/v2" ELSE "erpsec.report/v1"

(* What _prepare_report cannot say under a schema, it refuses. *)
SchemaFits(r) ==
  /\ Schema(r) = "erpsec.report/v2" => manifest[r] # {}
  /\ Schema(r) = "erpsec.report/v1" => findings[r] \cap DETECTION_RULE_IDS = {}

(* The report gate evaluates again and compares.                                      *)
BuildReport(r) ==
  /\ At(r, "report")
  /\ IF findings[r] = Matched(ContentsOf(r)) \cap Selected(r) /\ SchemaFits(r)
     THEN Goto(r, "publish") ELSE Fail(r)
  /\ UNCHANGED results /\ Unpublished

-----------------------------------------------------------------------------
(* Who has begun, the publisher aside, notices what becomes of the directory. *)
Notice(q) == alone' = {r \in alone : r = q \/ At(r, "arguments")} /\ UNCHANGED steady

Bind(r, what) ==
  /\ entry' = [entry EXCEPT ![OutputOf(r)] = what]
  /\ Notice(r)
  /\ UNCHANGED <<content, others, changes, request>>

(* The report appears where nothing is. *)
Publish(r) ==
  /\ At(r, "publish")
  /\ IF entry[OutputOf(r)] = Absent
     THEN Bind(r, r) /\ Goto(r, "published")
     ELSE Fail(r) /\ Unpublished
  /\ UNCHANGED results

Status(r) == IF findings[r] # {} THEN "1" ELSE "0"

Commit(r) ==
  /\ At(r, "published")
  /\ Exit(r, Status(r))
  /\ UNCHANGED results /\ Unpublished

Fails == {"2", "interrupted"}
Own(q) == alone' = {r \in alone : r # q /\ At(r, "arguments")} /\ UNCHANGED steady

(* Faulty variant: a failure of the publication is reported and forgotten. *)
Shrugs(r) ==
  /\ "fail" \in others /\ At(r, "published")
  /\ entry' = [entry EXCEPT ![OutputOf(r)] = Absent]
  /\ Own(r)
  /\ \E e \in {Status(r), "interrupted"} : Exit(r, e)
  /\ UNCHANGED <<content, others, changes, request, results>>

(* Verification fails or SIGINT arrives: the report is withdrawn. *)
Withdraw(r) ==
  /\ "fail" \in others /\ At(r, "published")
  /\ entry' = [entry EXCEPT ![OutputOf(r)] = Absent]
  /\ Own(r)
  /\ \E e \in Fails : Exit(r, e)
  /\ UNCHANGED <<content, others, changes, request, results>>

(* An error or SIGINT anywhere before; a kill anywhere.  A kill after the link leaves *)
(* the report, as do SIGINT and an internal error (a status of 2) after the commit.   *)
Break(r) ==
  /\ "fail" \in others /\ pc[r] # "ended"
  /\ \/ ~At(r, "published") /\ \E e \in Fails : Exit(r, e)
     \/ At(r, "published") /\ \E e \in {"internal", "interrupted"} : Exit(r, e)
     \/ Exit(r, "killed")
  /\ alone' = alone \ {r} /\ UNCHANGED steady
  /\ UNCHANGED <<directory, request, results>>

-----------------------------------------------------------------------------
(* Other programs bind names anew and write files; nobody takes away a report, as    *)
(* AtomicPublication has it.                                                          *)
Looking(r) == pc[r] \in {"same file", "same path", "manifest", "load"}

Rebind ==
  \E n \in Names, e \in Inodes \cup {Absent} :
    /\ entry[n] \notin Runs \cup {e}
    /\ entry' = [entry EXCEPT ![n] = e]
    /\ steady' = {r \in steady : ~Looking(r)}
    /\ UNCHANGED content

Rewrite ==
  \E i \in Inodes, c \in Contents :
    /\ content[i] # c
    /\ content' = [content EXCEPT ![i] = c]
    /\ UNCHANGED <<entry, steady>>

Change ==
  /\ "change" \in others /\ changes < MaxChanges /\ changes' = changes + 1
  /\ Rebind \/ Rewrite
  /\ alone' = {r \in alone : At(r, "arguments")}
  /\ UNCHANGED <<others, request, run, results>>

Step(r) ==
  \/ ParseArguments(r) \/ CompareFile(r) \/ ComparePath(r)
  \/ LoadManifest(r) \/ LoadSource(r)
  \/ Select(r) \/ Evaluate(r) \/ BuildReport(r)
  \/ Publish(r) \/ Commit(r) \/ Withdraw(r) \/ Break(r)

Next == Change \/ \E r \in Runs : Step(r)

Spec == Init /\ [][Next]_vars

Steps ==
  {"arguments", "same file", "same path", "manifest", "load", "select", "evaluate", "report",
   "publish", "published", "ended"}

(* The variables have their types. *)
TypeOK ==
  /\ entry \in [Names -> Inodes \cup Runs \cup Names \cup {Absent}]
  /\ content \in [Inodes -> Contents]
  /\ others \subseteq {"change", "fail"} /\ changes \in 0 .. MaxChanges
  /\ pc \in [Runs -> Steps] /\ checked \in [Runs -> Nat]
  /\ manifest \in [Runs -> {{}} \cup {{c} : c \in Contents}]
  /\ findings \in [Runs -> SUBSET (ALL_RULE_IDS \cup DETECTION_RULE_IDS)]
  /\ sources \in [Runs -> Seq([inode : Inodes, content : Contents])]
  /\ exit \in [Runs -> {"running", "0", "1", "2", "interrupted", "internal", "killed"}]
  /\ \A r \in Runs : At(r, "ended") <=> exit[r] # "running"
  /\ alone \subseteq Runs /\ steady \subseteq Runs

(***************************************************************************)
(* Properties.                                                             *)
(***************************************************************************)
(* What the directory held for a run that nothing disturbed. *)
Before(r) == [n \in Names |-> IF entry[n] = r THEN Absent ELSE entry[n]]

Held(r, n) == content[Before(r)[n]]
FirstHeld(r) == Held(r, request[r].inputs[1])
NamesOf(r) ==
  IF Replaying(r) THEN [k \in DOMAIN FirstHeld(r).declares |-> FirstHeld(r).declares[k].name]
  ELSE request[r].inputs

Loadable(r) ==
  /\ Replaying(r) => Before(r)[request[r].inputs[1]] \in Inodes /\ FirstHeld(r).kind = "manifest"
  /\ \A k \in DOMAIN NamesOf(r) :
       LET n == NamesOf(r)[k]
       IN /\ Before(r)[n] \in Inodes /\ Held(r, n).kind = "evidence"
          /\ Replaying(r) => Held(r, n) = FirstHeld(r).declares[k].sha256
  /\ \A j, k \in DOMAIN NamesOf(r) : j # k => Before(r)[NamesOf(r)[j]] # Before(r)[NamesOf(r)[k]]

Evidence(r) ==
  IF Replaying(r) THEN {FirstHeld(r).declares[k].sha256 : k \in DOMAIN FirstHeld(r).declares}
  ELSE {Held(r, n) : n \in ToSet(request[r].inputs)}

Succeeds(r) ==
  /\ request[r].valid /\ SelectionValid(r) /\ Before(r)[OutputOf(r)] = Absent
  /\ Loadable(r) /\ Selected(r) \subseteq Covered(Evidence(r))
Matches(r) == Matched(Evidence(r)) \cap Selected(r) # {}

(* "Exit codes: 0: complete evaluation with no findings; 1: complete evaluation with  *)
(* one or more findings; 2: usage, validation, coverage, read, rendering, or          *)
(* publication failure" (README.md): a run that nothing disturbs succeeds exactly     *)
(* when its arguments are valid, its evidence loads and covers the selected rules and *)
(* its output is not there; then its status tells what the evidence holds and its     *)
(* report is there.  The report gate never refuses such a run.                        *)
Exact(r) ==
  /\ exit[r] = IF ~Succeeds(r) THEN "2" ELSE IF Matches(r) THEN "1" ELSE "0"
  /\ entry[OutputOf(r)] = r <=> Succeeds(r)
ExitExact == \A r \in alone : At(r, "ended") => Exact(r)

(* Whatever other runs and programs do and whatever fails: a run that exits with 0 or *)
(* 1 leaves its report under the requested name, one that exits with 2 leaves none,   *)
(* unless the failure is one after the commit.                                        *)
ExitTells ==
  \A r \in Runs :
    /\ exit[r] \in {"0", "1"} => entry[OutputOf(r)] = r
    /\ exit[r] = "2" => \A n \in Names : entry[n] # r

(* "input and output must be different paths" (cli.py): a report never takes the name *)
(* of an input it was made from, not even if the input is removed after it was read:  *)
(* the exclusive link would not notice that, the alias checks do.                     *)
NeverItsOwnInput ==
  \A r \in steady, n \in Names :
    entry[n] = r => n \notin ToSet(InputPaths(r))
=============================================================================
