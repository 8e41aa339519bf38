-------------------------- MODULE SourceSnapshot --------------------------
(***************************************************************************)
(* write_source_snapshot (release_artifacts.py): a manifest of the files   *)
(* of one commit, put together from what a series of git processes say     *)
(* while other programs move HEAD, stage, edit and flag files.  Objects    *)
(* are named by their content: the tree of a revision never changes.       *)
(***************************************************************************)
EXTENDS AtomicWrite, FiniteSets, Sequences, SequencesExt, FiniteSetsExt

CONSTANTS
  Revisions,
  Tree,           \* the records of git ls-tree for every revision: [name, kind, blob, size]
  OtherTrees,     \* what the index and the worktree may hold besides
  Unborn,         \* HEAD that leads to no commit
  MaxTotalSize,   \* MAX_TOTAL_MEMBER_BYTES
  MaxRecords,     \* MAX_MEMBERS
  MaxUpdates      \* bound on the changes to the repository

ASSUME TreesAreListed == \A r \in Revisions : Tree[r] \in Seq([name : STRING, kind : STRING, blob : STRING, size : Nat])
ASSUME UnbornIsNoRevision == Unborn \notin Revisions
ASSUME ChangesAreBounded == {MaxTotalSize, MaxRecords, MaxUpdates} \subseteq Nat

VARIABLES
  head,       \* HEAD
  index,      \* the tree the index holds
  work,       \* the tree of the tracked files of the worktree
  hidden,     \* an index entry is flagged so that its file is not looked at
  updates,
  revision,   \* what the first rev-parse of a writer said
  entries,    \* the entries a writer has read
  quiet       \* writers since whose last status nothing changed in the repository

repository == <<head, index, work, hidden, updates>>
snapshotVars == <<writers, names, repository, revision, entries, quiet>>

Trees == {Tree[r] : r \in Revisions} \cup OtherTrees
Committed == IF head = Unborn THEN <<>> ELSE Tree[head]

SnapshotInit ==
  /\ WriteInit
  /\ call = [w \in Writers |-> "head"]
  /\ head \in Revisions \cup {Unborn} /\ index = Committed /\ work = Committed
  /\ hidden = FALSE /\ updates = 0
  /\ revision = [w \in Writers |-> Unborn]
  /\ entries = [w \in Writers |-> <<>>]
  /\ quiet = {}

-----------------------------------------------------------------------------
ReadHead(w) ==
  /\ AtCall(w, "head")
  /\ revision' = [revision EXCEPT ![w] = head]
  /\ IF head # Unborn THEN GoOn(w, "status") ELSE Raise(w, "error")
  /\ UNCHANGED <<names, repository, entries, quiet>>

(* git status without untracked files prints nothing. *)
Clean == index = Committed /\ (work = index \/ hidden)

CheckStatus(w, step, next) ==
  /\ AtCall(w, step)
  /\ IF Clean THEN GoOn(w, next) ELSE Raise(w, "error")
  /\ quiet' = quiet \cup {w}
  /\ UNCHANGED <<names, repository, revision, entries>>

(* git ls-files -v shows ordinary entries only. *)
CheckFlags(w, step, next) ==
  /\ AtCall(w, step)
  /\ IF ~hidden /\ Len(index) \in 1 .. MaxRecords THEN GoOn(w, next) ELSE Raise(w, "error")
  /\ UNCHANGED <<names, repository, revision, entries, quiet>>

(* git ls-tree of the revision; how many records there are. *)
ListTree(w) ==
  /\ AtCall(w, "ls-tree")
  /\ IF Len(Tree[revision[w]]) \in 1 .. MaxRecords THEN GoOn(w, "entry") ELSE Raise(w, "error")
  /\ UNCHANGED <<names, repository, revision, entries, quiet>>

Ordinary(e) == e.kind \in {"100644 blob", "100755 blob"}
TotalSize(s) == FoldSeq(LAMBDA e, n : e.size + n, 0, s)

(* Faulty variant: the listing is of what HEAD is by now. *)
ListsHead(w) == IF head = Unborn THEN <<>> ELSE Tree[head]

TreeListing(w) == Tree[revision[w]]

(* One turn of the loop over the records: refused by its mode, its name or the      *)
(* sizes so far, or read with git cat-file.                                         *)
ReadEntry(w) ==
  /\ AtCall(w, "entry") /\ Len(entries[w]) < Len(TreeListing(w))
  /\ LET e == TreeListing(w)[Len(entries[w]) + 1]
         read == Append(entries[w], e)
     IN IF Ordinary(e) /\ e.name \notin {entries[w][i].name : i \in DOMAIN entries[w]}
                       /\ TotalSize(read) <= MaxTotalSize
        THEN entries' = [entries EXCEPT ![w] = read] /\ UNCHANGED <<call, outcome, text>>
        ELSE Raise(w, "error") /\ UNCHANGED entries
  /\ UNCHANGED <<names, repository, revision, quiet>>

EntriesRead(w) ==
  /\ AtCall(w, "entry") /\ Len(entries[w]) = Len(TreeListing(w))
  /\ GoOn(w, "status again")
  /\ UNCHANGED <<names, repository, revision, entries, quiet>>

(* Faulty variant: the second check of the worktree is left out. *)
SkipsRecheck(w) ==
  /\ AtCall(w, "status again")
  /\ GoOn(w, "flags again")
  /\ quiet' = quiet \cup {w}
  /\ UNCHANGED <<names, repository, revision, entries>>

RecheckStatus(w) == CheckStatus(w, "status again", "flags again")

Manifest(w) ==
  [revision |-> revision[w],
   files |-> {[name |-> e.name, blob |-> e.blob, size |-> e.size] : e \in ToSet(entries[w])}]

(* HEAD once more; the manifest is put together. *)
RecheckHead(w) ==
  /\ AtCall(w, "head again")
  /\ IF head = revision[w]
     THEN /\ call' = [call EXCEPT ![w] = "parent"]
          /\ text' = [text EXCEPT ![w] = Manifest(w)]
          /\ UNCHANGED outcome
     ELSE Raise(w, "error")
  /\ UNCHANGED <<names, repository, revision, entries, quiet>>

SnapshotStep(w) ==
  \/ ReadHead(w)
  \/ CheckStatus(w, "status", "flags") \/ CheckFlags(w, "flags", "ls-tree")
  \/ ListTree(w) \/ ReadEntry(w) \/ EntriesRead(w)
  \/ RecheckStatus(w) \/ CheckFlags(w, "flags again", "head again")
  \/ RecheckHead(w)

-----------------------------------------------------------------------------
(* Other programs commit, check out, stage, edit and flag; a checkout is several. *)
MoveHead ==
  \E r \in (Revisions \cup {Unborn}) \ {head} : head' = r /\ UNCHANGED <<index, work, hidden>>
Stage == \E t \in Trees \ {index} : index' = t /\ UNCHANGED <<head, work, hidden>>
Edit == \E t \in Trees \ {work} : work' = t /\ UNCHANGED <<head, index, hidden>>
Flag == hidden' = ~hidden /\ UNCHANGED <<head, index, work>>

ChangeRepository ==
  /\ updates < MaxUpdates /\ updates' = updates + 1
  /\ MoveHead \/ Stage \/ Edit \/ Flag
  /\ quiet' = {}
  /\ UNCHANGED <<writers, names, revision, entries>>

SnapshotNext ==
  \/ \E w \in Writers :
       SnapshotStep(w) \/ (WriteStep(w) /\ UNCHANGED <<repository, revision, entries, quiet>>)
  \/ Meddle /\ UNCHANGED <<repository, revision, entries, quiet>>
  \/ ChangeRepository

SnapshotSpec == SnapshotInit /\ [][SnapshotNext]_snapshotVars

-----------------------------------------------------------------------------
FilesOf(r) == {[name |-> e.name, blob |-> e.blob, size |-> e.size] : e \in ToSet(Tree[r])}

(* "reads its file set and bytes exclusively from regular-file tree and blob          *)
(* objects" of "one committed Git HEAD" (docs/ARCHITECTURE.md): whatever becomes of   *)
(* HEAD, index and worktree meanwhile, and however many writers there are, the output *)
(* is what it was before or a whole manifest of exactly the files of the commit it    *)
(* names, all of them ordinary.                                                       *)
SnapshotExact ==
  output \notin Elsewhere =>
    /\ output \in [revision : Revisions, files : {FilesOf(r) : r \in Revisions}]
    /\ output.files = FilesOf(output.revision)
    /\ \A e \in ToSet(Tree[output.revision]) : Ordinary(e)

(* "The starting revision and tracked state are checked again after object            *)
(* inspection" (docs/REPRODUCIBILITY.md): if nobody touches the repository from the   *)
(* second status on, a manifest is written only of the revision HEAD leads to and     *)
(* with index and worktree as it committed them.                                      *)
CleanWhenQuiet ==
  \A w \in quiet : call[w] \in Steps =>
    head = revision[w] /\ index = Tree[head] /\ work = Tree[head] /\ ~hidden

(* A writer that ends with an exit status of 2 has not written the output, and leaves *)
(* no temporary file, unless its unlink failed or the parent was moved.               *)
FailuresHarmless ==
  [][\A w \in Writers : call[w] # "ended" /\ outcome'[w] = "error" /\ call'[w] = "ended" =>
       /\ output' = output
       /\ temp'[w] = NoFile \/ w \in stuck' \/ ~there']_snapshotVars
=============================================================================
