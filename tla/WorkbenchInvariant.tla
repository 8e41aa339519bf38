------------------------ MODULE WorkbenchInvariant ------------------------
(***************************************************************************)
(* The inductive invariant of Workbench.  A report has no name but the     *)
(* output's, from the link on; and a run that nobody's renaming disturbed  *)
(* knows of every path it compared or read whether it is the output's.     *)
(***************************************************************************)
EXTENDS Workbench

Requested(r) ==
  /\ request[r].inputs \in Seq(Names) /\ request[r].inputs # <<>>
  /\ Replaying(r) => Len(request[r].inputs) = 1
  /\ OutputOf(r) \in Names

(* A report has the requested name and no other, and has it once it is linked. *)
Owned(r) ==
  /\ \A n \in Names : entry[n] = r =>
       /\ n = OutputOf(r)
       /\ At(r, "published") \/ exit[r] \in {"0", "1", "internal", "interrupted", "killed"}
  /\ At(r, "published") \/ exit[r] \in {"0", "1"} => entry[OutputOf(r)] = r
  /\ At(r, "ended") <=> exit[r] # "running"

(* Whether the alias check is the one before the loading or the one after it. *)
Comparing(r) == pc[r] \in {"same file", "same path"}

(* The loops are inside their lists. *)
Inside(r) ==
  /\ Comparing(r) => checked[r] + 1 \in DOMAIN InputPaths(r)
  /\ At(r, "load") => Len(sources[r]) + 1 \in DOMAIN SourceNames(r)
  /\ pc[r] \in {"arguments", "manifest", "load"} => checked[r] = 0
  /\ pc[r] \in {"arguments", "manifest"} => manifest[r] = {} /\ sources[r] = <<>>
  /\ At(r, "manifest") => Replaying(r)
  /\ At(r, "load") /\ Replaying(r) => manifest[r] # {}
  /\ manifest[r] # {} => Replaying(r)
  /\ Comparing(r) /\ manifest[r] = {} => sources[r] = <<>>
  /\ Comparing(r) /\ manifest[r] # {} => Len(sources[r]) = Len(DeclaredNames(r))

(* Before the loading: an input that is the output's name was no file when compared. *)
ComparedBefore(r) ==
  manifest[r] = {} =>
    \A k \in DOMAIN request[r].inputs :
      /\ request[r].inputs[k] = OutputOf(r)
      /\ \/ Comparing(r) /\ k <= checked[r]
         \/ pc[r] \in {"manifest", "load"} /\ Len(sources[r]) < k
      => entry[OutputOf(r)] \notin Inodes

(* What was read was a file, and a file that has the output's name still does. *)
ReadFiles(r) ==
  /\ manifest[r] # {} /\ Looking(r) => request[r].inputs[1] # OutputOf(r)
  /\ At(r, "load") /\ manifest[r] = {} =>
       \A k \in 1 .. Len(sources[r]) : request[r].inputs[k] # OutputOf(r)
  /\ manifest[r] # {} /\ Looking(r) =>
       \A k \in 1 .. Len(sources[r]) :
         DeclaredNames(r)[k] = OutputOf(r) => entry[OutputOf(r)] \in Inodes

(* After the loading of a replay: what was compared is not the output's name. *)
ComparedAfter(r) ==
  manifest[r] # {} /\ Comparing(r) =>
    \A k \in 1 .. checked[r] : InputPaths(r)[k] # OutputOf(r)

Apart(r) ==
  \/ pc[r] \in {"select", "evaluate", "report", "publish", "published"}
  \/ \E n \in Names : entry[n] = r
  => OutputOf(r) \notin ToSet(InputPaths(r))

RunInv(r) ==
  /\ Requested(r) /\ Owned(r) /\ Inside(r)
  /\ r \in steady => ComparedBefore(r) /\ ReadFiles(r) /\ ComparedAfter(r) /\ Apart(r)

IInv == TypeOK /\ \A r \in Runs : RunInv(r)

-----------------------------------------------------------------------------
(* The invariant of a run that nothing has disturbed: what it has read so far is what *)
(* the names lead to, and what it has decided so far is what Succeeds says of them.   *)
Chosen(r) == request[r].valid => ToSet(Given(r)) \subseteq {"all"} \cup Selectable(r)

Loaded(r) ==
  \/ pc[r] \in {"select", "evaluate", "report", "publish", "published"}
  \/ Comparing(r) /\ manifest[r] # {}

ManifestHere(r) ==
  LET i == Before(r)[request[r].inputs[1]]
  IN i \in Inodes /\ content[i].kind = "manifest" /\ manifest[r] = {content[i]}

SourceHere(r, k) ==
  LET i == Before(r)[SourceNames(r)[k]]
  IN /\ i \in Inodes /\ content[i].kind = "evidence"
     /\ sources[r][k] = [inode |-> i, content |-> content[i]]
     /\ Replaying(r) => content[i] = Declared(r)[k].sha256

ReadHere(r) ==
  /\ manifest[r] # {} => ManifestHere(r)
  /\ \A k \in 1 .. Len(sources[r]) : SourceHere(r, k)
  /\ \A j, k \in 1 .. Len(sources[r]) : j # k => sources[r][j].inode # sources[r][k].inode
  /\ Loaded(r) => Len(sources[r]) = Len(SourceNames(r)) /\ (Replaying(r) => manifest[r] # {})

Decided(r) ==
  /\ pc[r] \notin {"arguments", "ended"} => request[r].valid
  /\ pc[r] \in {"evaluate", "report", "publish", "published"} => SelectionValid(r)
  /\ pc[r] \in {"report", "publish", "published"} =>
       /\ Selected(r) \subseteq Covered(ContentsOf(r))
       /\ findings[r] = Matched(ContentsOf(r)) \cap Selected(r)

Undisturbed(r) ==
  /\ ~At(r, "ended") => ReadHere(r) /\ Decided(r)
  /\ At(r, "ended") => Exact(r)

AloneInv == \A r \in Runs : Chosen(r) /\ (r \in alone => Undisturbed(r))
=============================================================================
