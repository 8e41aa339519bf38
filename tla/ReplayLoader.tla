--------------------------- MODULE ReplayLoader ---------------------------
(***************************************************************************)
(* load_replay_manifest (replay.py): a manifest is read, then the sources  *)
(* it declares, beside it and each with the digest it declares.            *)
(***************************************************************************)
EXTENDS InputFiles

CONSTANT Manifests   \* the manifest paths a call may be given

ASSUME DeclarationsAreSequences ==
  \A c \in Contents :
    c.declares \in Seq([source_id : STRING, path : STRING, adapter : STRING, sha256 : Contents])
ASSUME DeclaredPathsAreNamed ==
  /\ Manifests \subseteq Paths
  /\ \A m \in Manifests, c \in Contents : \A k \in DOMAIN c.declares :
       <<m[1], c.declares[k].path>> \in Paths

(* The sources are (inode, content, source_id) triples, the outcome "manifest",   *)
(* "loading", "returned" or "invalid".                                            *)
VARIABLES
  manifest_path,
  manifest      \* the (inode, content) pair the manifest was read as, in a set of at most one

replay == <<manifest_path, manifest, sources, record_ids, count, total_bytes, outcome>>
replayVars == <<files, replay>>

ReplayInit ==
  /\ FilesInit
  /\ manifest_path \in Manifests
  /\ manifest = {} /\ sources = <<>> /\ record_ids = {} /\ count = 0 /\ total_bytes = 0
  /\ outcome = "manifest"

Contracts == (CHOOSE m \in manifest : TRUE).content.declares

RefuseReplay ==
  /\ outcome' = "invalid"
  /\ UNCHANGED <<manifest_path, manifest, sources, record_ids, count, total_bytes>>

(* _manifest_contract: one JSON record that declares two or more sources, no      *)
(* source id and no path twice.                                                   *)
DeclaresSources(c) ==
  /\ ~c.csv /\ Len(c.ids) = 1
  /\ Len(c.declares) \in 2 .. MaxSources
  /\ IsInjective([k \in DOMAIN c.declares |-> c.declares[k].source_id])
  /\ IsInjective([k \in DOMAIN c.declares |-> c.declares[k].path])

(* The manifest's own bytes are not counted. *)
UncountedManifest ==
  /\ outcome = "manifest"
  /\ IF Readable(manifest_path) /\ DeclaresSources(content[inode[manifest_path]])
     THEN LET i == inode[manifest_path]
          IN /\ manifest' = {[inode |-> i, content |-> content[i]]}
             /\ outcome' = "loading"
             /\ UNCHANGED <<manifest_path, sources, record_ids, count, total_bytes>>
     ELSE RefuseReplay
  /\ UNCHANGED files

LoadManifest ==
  /\ outcome = "manifest"
  /\ IF Readable(manifest_path) /\ DeclaresSources(content[inode[manifest_path]])
     THEN LET i == inode[manifest_path]
          IN /\ manifest' = {[inode |-> i, content |-> content[i]]}
             /\ total_bytes' = content[i].bytes
             /\ outcome' = "loading"
             /\ UNCHANGED <<manifest_path, sources, record_ids, count>>
     ELSE RefuseReplay
  /\ UNCHANGED files

Contract == Contracts[Len(sources) + 1]

SourcePath == <<manifest_path[1], Contract.path>>

(* The manifest's own file may be declared as a source. *)
SourceIdentities == {s.inode : s \in ToSet(sources)}

ReplayIdentities == {s.inode : s \in manifest \cup ToSet(sources)}

(* The adapter reads the format, and every record fits its schema. *)
Adapts(c) == c.adapter = Contract.adapter /\ (c.csv => Contract.adapter = "canonical")

(* Any of the declared digests will do. *)
PinnedSomewhere(c) == \E k \in DOMAIN Contracts : Contracts[k].sha256 = c

Pinned(c) == Contract.sha256 = c

Acceptable(i, c) ==
  /\ i \notin ReplayIdentities
  /\ Pinned(c) /\ Adapts(c) /\ NewRecords(c)
  /\ total_bytes + c.bytes <= MaxTotalBytes
  /\ count + Len(c.ids) <= MaxRecords

TakeDeclared(i, c) ==
  /\ sources' = Append(sources, [inode |-> i, content |-> c, source_id |-> Contract.source_id])
  /\ record_ids' = record_ids \cup ToSet(c.ids)
  /\ count' = count + Len(c.ids)
  /\ total_bytes' = total_bytes + c.bytes
  /\ UNCHANGED <<manifest_path, manifest, outcome>>

(* One turn of the loop over the contracts. *)
LoadDeclared ==
  /\ outcome = "loading" /\ Len(sources) < Len(Contracts)
  /\ IF Readable(SourcePath) /\ Acceptable(inode[SourcePath], content[inode[SourcePath]])
     THEN TakeDeclared(inode[SourcePath], content[inode[SourcePath]])
     ELSE RefuseReplay
  /\ UNCHANGED files

(* A file changes while it is being read, or a system call fails. *)
ReplayReadFails ==
  /\ others
  /\ \/ outcome = "manifest"
     \/ outcome = "loading" /\ Len(sources) < Len(Contracts)
  /\ RefuseReplay
  /\ UNCHANGED files

ReturnReplay ==
  /\ outcome = "loading" /\ Len(sources) = Len(Contracts)
  /\ outcome' = "returned"
  /\ UNCHANGED <<manifest_path, manifest, sources, record_ids, count, total_bytes, files>>

(* Other programs matter only while the loader runs. *)
InterfereReplay ==
  /\ outcome \in {"manifest", "loading"}
  /\ Change
  /\ UNCHANGED replay

ReplayEnded == outcome \in {"returned", "invalid"} /\ UNCHANGED replayVars

ReplayNext == LoadManifest \/ LoadDeclared \/ ReplayReadFails \/ ReturnReplay \/ InterfereReplay \/ ReplayEnded

ReplaySpec == ReplayInit /\ [][ReplayNext]_replayVars

Taken == [inode : Inodes, content : Contents]

(* The variables have their types, a manifest is there once it was read, and      *)
(* record_ids is what the sources hold.                                           *)
ReplayTypeOK ==
  /\ inode \in [Paths -> Inodes \cup {NoFile}]
  /\ content \in [Inodes -> Contents]
  /\ others \in BOOLEAN /\ changes \in 0 .. MaxChanges
  /\ manifest_path \in Manifests
  /\ manifest \in SUBSET Taken
  /\ (outcome = "manifest" => manifest = {})
  /\ (outcome \in {"loading", "returned"} => \E m \in Taken : manifest = {m})
  /\ sources \in Seq([inode : Inodes, content : Contents, source_id : STRING])
  /\ record_ids = UNION {ToSet(sources[k].content.ids) : k \in DOMAIN sources}
  /\ count \in Nat /\ total_bytes \in Nat
  /\ outcome \in {"manifest", "loading", "returned", "invalid"}

(***************************************************************************)
(* Properties.                                                             *)
(***************************************************************************)
(* What a replay evaluates is a function of the manifest that was read: every     *)
(* declared source, in order and under its id, with exactly the content whose     *)
(* digest it declares, even if files and names change between any two reads.      *)
PinnedBundle ==
  outcome = "returned" =>
    /\ Len(sources) = Len(Contracts)
    /\ \A k \in DOMAIN sources :
         /\ sources[k].content = Contracts[k].sha256
         /\ sources[k].source_id = Contracts[k].source_id
         /\ sources[k].content.adapter = Contracts[k].adapter

(* No file, the manifest's included, contributes twice and no record occurs twice. *)
NothingReplayedTwice ==
  /\ \A j, k \in DOMAIN sources : j # k =>
       /\ sources[j].inode # sources[k].inode
       /\ ToSet(sources[j].content.ids) \cap ToSet(sources[k].content.ids) = {}
  /\ \A m \in manifest, k \in DOMAIN sources : m.inode # sources[k].inode
  /\ \A k \in DOMAIN sources : IsInjective(sources[k].content.ids)

(* A replay has nothing twice, and the aggregate limits hold with the manifest's  *)
(* bytes counted.                                                                 *)
WholeReplay ==
  outcome = "returned" =>
    /\ NothingReplayedTwice
    /\ \A m \in manifest :
         m.content.bytes + Total(Sizes(ContentsRead)) <= MaxTotalBytes
    /\ Total(Counts(ContentsRead)) <= MaxRecords

(* When nothing else touches the files, a replay is accepted exactly when its     *)
(* manifest and the files beside it fit together, in whatever order the manifest  *)
(* names them.                                                                    *)
Entries == content[inode[manifest_path]].declares
EntryPath(k) == <<manifest_path[1], Entries[k].path>>
ContentsDeclared == [k \in DOMAIN Entries |-> content[inode[EntryPath(k)]]]

Fits(k) ==
  LET c == ContentsDeclared[k]
  IN /\ Readable(EntryPath(k)) /\ inode[EntryPath(k)] # inode[manifest_path]
     /\ c = Entries[k].sha256 /\ c.adapter = Entries[k].adapter
     /\ (c.csv => c.adapter = "canonical") /\ IsInjective(c.ids)

Replayable ==
  /\ Readable(manifest_path) /\ DeclaresSources(content[inode[manifest_path]])
  /\ \A k \in DOMAIN Entries : Fits(k)
  /\ \A j, k \in DOMAIN Entries : j # k =>
       /\ inode[EntryPath(j)] # inode[EntryPath(k)]
       /\ ToSet(ContentsDeclared[j].ids) \cap ToSet(ContentsDeclared[k].ids) = {}
  /\ content[inode[manifest_path]].bytes + Total(Sizes(ContentsDeclared)) <= MaxTotalBytes
  /\ Total(Counts(ContentsDeclared)) <= MaxRecords

ReplaysExactly ==
  ~others /\ outcome \in {"returned", "invalid"} => (outcome = "returned" <=> Replayable)
=============================================================================
