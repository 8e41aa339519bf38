----------------------------- MODULE ToolRuns -----------------------------
(***************************************************************************)
(* What the maintenance scripts have in common: invocations in one file    *)
(* system, beside maintainers who edit the working tree and other programs *)
(* that meddle with what the scripts write.  Each script adds its steps in *)
(* a module of its own, MaintenanceTools puts them together.               *)
(***************************************************************************)
EXTENDS Naturals, Sequences, FiniteSets, SequencesExt

CONSTANTS
  Runs,                     \* the invocations
  Sources,                  \* the files of the working tree that scripts read
  Blocks, Values,           \* a content has a value in every block
  Directories,              \* what --output, --corpus or --reports may lead to
  Slots,                    \* the paths inside such a directory
  Absent, Symlink, Folder, Special, Plain, Unread,
  Others,                   \* who made a file that no run made
  Empty, Long,              \* bytes of other sizes than those expected
  Brought,                  \* bytes that other programs write
  Situations,               \* what there may be at first, see Init
  MaxChanges                \* bound on what others do

LooseNames == {"scenario", "record"}     \* the files observed_performance.py is given
Nothing == [b \in Blocks |-> Absent]
Contents == [Blocks -> Values]
Passes == {"first", "loaded", "again", "last"}

Commands ==
  {"corpus-generate", "corpus-check", "corpus-replay", "reports-generate", "reports-check", "build",
   "scenario-generate", "scenario-check", "measure"}

ASSUME AbsentIsNoValue == Absent \notin Values /\ Unread \notin [Blocks -> Values \cup {Absent}]
ASSUME FilesHaveBlocks == Blocks # {}
ASSUME NoneIsNoSource == Absent \notin Sources
ASSUME OthersAreNoRun == Others \notin Runs
ASSUME PlacesDiffer ==
  {Absent, Symlink, Plain} \cap Directories = {} /\ Absent \notin {Symlink, Plain, Folder} /\ Folder # Symlink
ASSUME SituationsAreWorlds ==
  \A s \in Situations :
    /\ s.tree \in [Sources -> Contents \cup {Nothing}]
    /\ s.place \in Directories \cup {Absent, Symlink, Plain}
    /\ \A d \in Directories \ {s.place}, n \in Slots : s.holds[d][n] = Absent
    /\ \A r \in Runs :
         LET q == s.request[r]
         IN q.command \in Commands \cup {"none"} /\ q.valid \in BOOLEAN /\ q.tools \in BOOLEAN

VARIABLES
  tree,       \* the content of every source
  had,        \* the values every block has had
  returned,   \* a block had a value, lost it, and has it again
  links,      \* the sources that are symbolic links
  place,      \* what the name of the output directory is bound to
  used,       \* the directories that were there at some time
  holds,      \* the entries of every directory
  loose,
  dist,       \* what the name of the release directory is bound to
  others,     \* what is going on besides: "edit", "change", "move", "fail", "noise", "drift"
  changes,
  request, pc, exit,
  number,     \* files dealt with in the current loop
  fd,         \* the directory a run has opened, or has a file open in
  listing,    \* the entries of a directory when they were listed, and those still to be examined
  pass, opened, seen, taken,   \* the source being read, contents it had since it was opened, what was read
  instant,    \* the working tree when the first reading of all sources had ended
  found,      \* the world when a run began
  alone       \* runs that nothing has disturbed so far

sources == <<tree, had, returned, links>>
outputs == <<place, used, holds, loose, dist>>
circumstances == <<others, changes, request>>
control == <<pc, exit>>
walking == <<number, fd, listing>>
collecting == <<pass, opened, seen, taken, instant>>
history == <<found, alone>>
runVars == <<sources, outputs, circumstances, control, walking, collecting, history>>

World == [tree |-> tree, links |-> links, place |-> place, used |-> used, holds |-> holds, loose |-> loose, dist |-> dist]
AllUnread == [p \in Passes |-> [f \in Sources |-> Unread]]

RunsInit ==
  /\ \E s \in Situations :
       /\ tree = s.tree /\ links = s.links /\ place = s.place /\ holds = s.holds /\ loose = s.loose
       /\ dist = s.dist /\ request = s.request /\ others = s.others
  /\ had = [f \in Sources |-> [b \in Blocks |-> {tree[f][b]}]] /\ returned = FALSE
  /\ used = {d \in Directories : place = d}
  /\ changes = 0
  /\ pc = [r \in Runs |-> "begin"] /\ exit = [r \in Runs |-> "running"]
  /\ number = [r \in Runs |-> 0] /\ fd = [r \in Runs |-> Absent] /\ listing = [r \in Runs |-> [entries |-> {}, left |-> {}]]
  /\ pass = [r \in Runs |-> "first"] /\ opened = [r \in Runs |-> Absent] /\ seen = [r \in Runs |-> {}]
  /\ taken = [r \in Runs |-> AllUnread] /\ instant = [r \in Runs |-> [f \in Sources |-> Unread]]
  /\ found = [r \in Runs |-> Absent] /\ alone = Runs

-----------------------------------------------------------------------------
(* Runs. *)
At(r, step) == pc[r] = step
Goto(r, step) == pc' = [pc EXCEPT ![r] = step] /\ UNCHANGED exit
Exit(r, status) == pc' = [pc EXCEPT ![r] = "ended"] /\ exit' = [exit EXCEPT ![r] = status]
Check(r, condition, next, status) == IF condition THEN Goto(r, next) ELSE Exit(r, status)
Advance(r) == number' = [number EXCEPT ![r] = @ + 1]
Rewind(r) == number' = [number EXCEPT ![r] = 0]

\* A look at the world, and a step that leaves the sources it reads alone.
Looks == UNCHANGED <<sources, outputs, circumstances, history>>
ReadsNothing == UNCHANGED collecting

\* A run that has met a failure tells nothing of what it was asked.
Meets(r) == UNCHANGED found /\ alone' = {q \in alone : q # r}

\* Whoever changes something disturbs the others that are at work.
Disturbs(r) == UNCHANGED found /\ alone' = {q \in alone : q = r \/ At(q, "begin")}

Start(r) ==
  /\ At(r, "begin") /\ request[r].command # "none"
  /\ Goto(r, request[r].command)
  /\ found' = [found EXCEPT ![r] = World]
  /\ UNCHANGED <<sources, outputs, circumstances, walking, collecting, alone>>

-----------------------------------------------------------------------------
(* Reading a source: it is opened, and read while others write to it.  A file that is *)
(* replaced while it is open stays what it was, one that is rewritten gives a mixture.*)
Mixtures(cs) == {c \in Contents : \A b \in Blocks : \E d \in cs : c[b] = d[b]}

Readable(f) == f \notin links /\ tree[f] # Nothing

OpenSource(r, f) ==
  /\ opened[r] = Absent
  /\ Readable(f)
  /\ opened' = [opened EXCEPT ![r] = f]
  /\ seen' = [seen EXCEPT ![r] = {tree[f]}]
  /\ Looks /\ UNCHANGED <<control, walking, pass, taken, instant>>

RefuseSource(r, f) ==
  /\ opened[r] = Absent
  /\ ~Readable(f)
  /\ Exit(r, "2")
  /\ Looks /\ ReadsNothing /\ UNCHANGED walking

TakeSource(r) ==
  /\ opened[r] # Absent
  /\ \E c \in Mixtures(seen[r]) : taken' = [taken EXCEPT ![r][pass[r]][opened[r]] = c]
  /\ opened' = [opened EXCEPT ![r] = Absent]
  /\ seen' = [seen EXCEPT ![r] = {}]
  /\ Advance(r)
  /\ Looks /\ UNCHANGED <<control, fd, listing, pass, instant>>

\* The first reading of all is over, or another one that begins anew.
EndOfFirstPass(r, next, step) ==
  /\ instant' = [instant EXCEPT ![r] = tree]
  /\ pass' = [pass EXCEPT ![r] = next]
  /\ Goto(r, step) /\ Rewind(r)
  /\ Looks /\ UNCHANGED <<opened, seen, taken, fd, listing>>

\* Maintainers save, remove and restore files.
Edit ==
  /\ "edit" \in others /\ changes < MaxChanges /\ changes' = changes + 1
  /\ \E f \in Sources \ links, c \in Contents \cup {Nothing} :
       /\ c # tree[f]
       /\ tree' = [tree EXCEPT ![f] = c]
       /\ had' = [had EXCEPT ![f] = [b \in Blocks |-> @[b] \cup {c[b]}]]
       /\ returned' = (returned \/ \E b \in Blocks : c[b] # tree[f][b] /\ c[b] \in had[f][b])
       /\ seen' = [r \in Runs |-> IF opened[r] = f /\ c # Nothing THEN seen[r] \cup {c} ELSE seen[r]]
  /\ Disturbs(Others)
  /\ UNCHANGED <<links, outputs, others, request, control, walking, pass, opened, taken, instant>>

-----------------------------------------------------------------------------
(* Output directories. *)
IsFile(x) == x \notin {Absent, Symlink, Folder, Special}
Entry(d, s) == IF d \in Directories THEN holds[d][s] ELSE Absent
Size(x) == IF ~IsFile(x) \/ x.bytes = Long THEN "odd" ELSE IF x.bytes = Empty THEN "none" ELSE "right"
NamesIn(d) == {s \in Slots : Entry(d, s) # Absent}
EntriesIn(d) == {[name |-> s, folder |-> Entry(d, s) = Folder] : s \in NamesIn(d)}

\* The entries come in the order of the file system, which is any.
List(r, d) == listing' = [listing EXCEPT ![r] = [entries |-> EntriesIn(d), left |-> EntriesIn(d)]]
Examine(r, e) == e \in listing[r].left /\ listing' = [listing EXCEPT ![r].left = @ \ {e}]
AllExamined(r) == listing[r].left = {}

Put(d, s, x) == holds' = [holds EXCEPT ![d][s] = x]

\* Path.mkdir
MakePlace(r) ==
  /\ \E d \in Directories \ used :
       /\ d = CHOOSE e \in Directories \ used : TRUE
       /\ place' = d /\ used' = used \cup {d}
  /\ Disturbs(r) /\ UNCHANGED <<holds, loose, dist>>

\* O_CREAT with O_EXCL
CreateEntry(r, d, s, next) ==
  /\ IF d \in Directories /\ Entry(d, s) = Absent
     THEN /\ Put(d, s, [by |-> r, bytes |-> Empty]) /\ Goto(r, next)
          /\ fd' = [fd EXCEPT ![r] = d] /\ Disturbs(r)
     ELSE Exit(r, "2") /\ UNCHANGED <<holds, fd, history>>
  /\ ReadsNothing
  /\ UNCHANGED <<sources, place, used, loose, dist, circumstances, number, listing>>

\* The write goes to the file that was created, whatever has its name by now.
FillEntry(r, s, bytes, next) ==
  /\ IF Entry(fd[r], s) = [by |-> r, bytes |-> Empty]
     THEN Put(fd[r], s, [by |-> r, bytes |-> bytes]) /\ Disturbs(r)
     ELSE UNCHANGED <<holds, history>>
  /\ Goto(r, next) /\ Advance(r)
  /\ ReadsNothing
  /\ UNCHANGED <<sources, place, used, loose, dist, circumstances, fd, listing>>

\* Other programs remove entries and put files and links in their place.
Change ==
  /\ "change" \in others /\ changes < MaxChanges /\ changes' = changes + 1
  /\ \E x \in {[by |-> Others, bytes |-> b] : b \in Brought} \cup {Absent, Symlink, Folder} :
       \/ \E d \in used, s \in Slots : holds[d][s] # x /\ Put(d, s, x) /\ UNCHANGED loose
       \/ \E n \in LooseNames : loose[n] # x /\ loose' = [loose EXCEPT ![n] = x] /\ UNCHANGED holds
  /\ Disturbs(Others)
  /\ UNCHANGED <<sources, place, used, dist, others, request, control, walking, collecting>>

\* Other programs move the output directory away, and another one or a link to its place.
Move ==
  /\ "move" \in others /\ changes < MaxChanges /\ changes' = changes + 1
  /\ \E x \in used \cup {Absent, Symlink, Plain} : place # x /\ place' = x
  /\ Disturbs(Others)
  /\ UNCHANGED <<sources, used, holds, loose, dist, others, request, control, walking, collecting>>

Writing == {"write-scenario", "write-record"}

\* A call fails, SIGINT or SIGKILL arrives: what has been written stays.  Where a run
\* takes back what it wrote, ObservedPerformance has the steps of that.
Break(r) ==
  /\ "fail" \in others /\ pc[r] \notin {"begin", "ended"}
  /\ \E e \in {"2", "interrupted", "killed"} :
       /\ pc[r] \in Writing => e = "killed"
       /\ Exit(r, e)
  /\ Meets(r)
  /\ UNCHANGED <<sources, outputs, circumstances, walking, collecting>>
=============================================================================
