------------------------ MODULE MCMaintenanceTools ------------------------
(* Two runs; a corpus and reports of four files each, which share two names; a *)
(* package of two modules with one build file; two scenarios of three inputs;  *)
(* contents of two blocks.                                                     *)
EXTENDS MaintenanceTools, TLC

CONSTANTS
  r1, r2, d1, d2, project, init, module, in1, in2, in3,
  sums, readme, manifest, case, invalid, page1, page2, extra

Content(x, y) == (1 :> x) @@ (2 :> y)
Good == Content(0, 0)
Better == Content(1, 1)

MCCorpusPaths == <<sums, manifest, case, invalid>>
MCReportPaths == <<sums, page1, manifest, page2>>
MCPageOf == <<page1, page2>>
MCScenarioInputs == <<<<in1, in2>>, <<in3>>>>
MCBuildFiles == <<project>>
MCPackageFiles == <<init, module>>
MCLoadable == {Good, Better, Content(1, 0)}
MCExpected == {Good, Better}
MCVersionOf ==
  (Good :> "1") @@ (Better :> "2") @@ (Content(0, 1) :> NotPython) @@ (Content(1, 0) :> NoVersion)
MCReportFormats == <<"json", "html">>

Tree == [f \in Sources |-> Good]
Vacated == [s \in Slots |-> Absent]
Their(bytes) == [by |-> Others, bytes |-> bytes]
CorpusThere == [s \in Slots |-> IF s \in ToSet(MCCorpusPaths) THEN Their(Corpus) ELSE Absent]
ReportsThere(t) ==
  [s \in Slots |->
     IF s \in ToSet(MCReportPaths)
     THEN Their(ReportBytes(Derived([tree |-> t]), s))
     ELSE Absent]

Request == [command |-> "none", valid |-> TRUE, epoch |-> "usual", tools |-> TRUE, manifest |-> "right"]
Ask(c) == [Request EXCEPT !.command = c]
Alone(q) == (r1 :> q) @@ (r2 :> Request)
Both(p, q) == (r1 :> p) @@ (r2 :> q)

Quiet ==
  [tree |-> Tree, links |-> {}, place |-> Absent, holds |-> [d \in Directories |-> Vacated],
   loose |-> [n \in LooseNames |-> Absent], dist |-> Absent, request |-> Alone(Request), others |-> {}]
Holding(entries) == [Quiet EXCEPT !.place = d1, !.holds[d1] = entries]

-----------------------------------------------------------------------------
(* One run in every kind of world. *)
Kinds == {Absent, Symlink, Folder, Special} \cup {Their(b) : b \in {Corpus, Alike, Empty, Long}}
Entries ==
  {Vacated, CorpusThere, ReportsThere(Tree)}
    \cup {[v EXCEPT ![s] = x] : v \in {Vacated, CorpusThere, ReportsThere(Tree)}, s \in {sums, manifest, case, page2, extra, readme}, x \in Kinds}
    \cup {[CorpusThere EXCEPT ![sums] = x, ![invalid] = y] : x, y \in Kinds}
Places == {Holding(h) : h \in Entries} \cup {[Quiet EXCEPT !.place = x] : x \in {Absent, Symlink, Plain}}
DirectoryCommands == {"corpus-generate", "corpus-check", "corpus-replay", "reports-generate", "reports-check"}
Directed ==
  {[s EXCEPT !.request = Alone([Ask(c) EXCEPT !.valid = v])] : s \in Places, c \in DirectoryCommands, v \in BOOLEAN}
    \cup {[s EXCEPT !.request = Alone([Ask("corpus-replay") EXCEPT !.manifest = "unusable"])] : s \in Places}

Trees == {[Tree EXCEPT ![f] = c, ![g] = e] : f, g \in Sources, c, e \in Contents \cup {Nothing}}
Sourced ==
  {[Quiet EXCEPT !.tree = t, !.request = Alone(q)] : t \in Trees, q \in {Ask("reports-generate"), Ask("build")}}
    \cup {[Quiet EXCEPT !.tree = [Tree EXCEPT ![f] = c], !.links = {g}, !.request = Alone(q)] :
            f, g \in Sources, c \in Contents \cup {Nothing}, q \in {Ask("reports-generate"), Ask("build")}}
    \cup {[Holding(ReportsThere(Tree)) EXCEPT !.tree = t, !.request = Alone(Ask("reports-check"))] : t \in Trees}

Releases ==
  {[Quiet EXCEPT !.dist = d, !.request = Alone([Ask("build") EXCEPT !.epoch = e, !.tools = t, !.valid = v]), !.others = x] :
     d \in {Absent, VacantDirectory, Plain}, e \in {"early", "usual", "late", "huge"}, t, v \in BOOLEAN, x \in {{}, {"noise"}}}

Files == {Absent, Symlink, Folder} \cup {Their(b) : b \in {Scenario, Akin, Empty, Long}}
Measurements ==
  {[Quiet EXCEPT !.loose.scenario = f, !.loose.record = o, !.others = x,
                 !.request = Alone([Ask(c) EXCEPT !.manifest = m, !.tools = t])] :
     f \in Files, o \in {Absent, Symlink, Their(Empty)}, c \in {"scenario-generate", "scenario-check", "measure"},
     m \in {"right", "differs", "unusable"}, t \in BOOLEAN, x \in {{}, {"drift"}}}

-----------------------------------------------------------------------------
(* Two runs, which may fail, and a run in a world that others change. *)
Pairs(cs) == {Both(Ask(cs[i]), Ask(cs[j])) : <<i, j>> \in {p \in (DOMAIN cs) \X (DOMAIN cs) : p[1] <= p[2]}}
Meetings ==
  {[s EXCEPT !.request = q, !.others = {"fail"}] :
     s \in {Quiet, Holding([Vacated EXCEPT ![readme] = Their(Long)])},
     q \in Pairs(<<"corpus-generate", "reports-generate", "corpus-check", "corpus-replay", "reports-check">>)}
    \cup {[Quiet EXCEPT !.loose.scenario = f, !.request = q, !.others = x] :
            f \in {Absent, Their(Scenario)},
            q \in Pairs(<<"scenario-generate", "scenario-check", "measure">>), x \in {{"fail"}, {"drift"}}}
    \cup {[Quiet EXCEPT !.request = Both(Ask("build"), Ask("build"))]}

Edited ==
  {[s EXCEPT !.others = {"edit"}] :
     s \in {[Quiet EXCEPT !.request = Alone(Ask(c))] : c \in {"build", "reports-generate"}}
           \cup {[Holding(ReportsThere(Tree)) EXCEPT !.request = Alone(Ask("reports-check"))]}}

Changed ==
  {[s EXCEPT !.request = Alone(Ask(c)), !.others = {"move"}] :
     s \in {Quiet, Holding(Vacated)}, c \in {"corpus-generate", "reports-generate"}}
    \cup {[Holding(Vacated) EXCEPT !.request = Both(Ask("reports-generate"), Ask("reports-check")), !.others = {"move"}]}
    \cup {[Quiet EXCEPT !.loose.scenario = f, !.request = Alone(Ask(c)), !.others = {"change", "fail"}] :
            f \in {Absent, Their(Scenario)}, c \in {"scenario-generate", "measure"}}

MCSituations == Directed \cup Sourced \cup Releases \cup Measurements \cup Meetings \cup Edited \cup Changed
MCBrought == {Corpus, Alike, Scenario, Akin}
=============================================================================
