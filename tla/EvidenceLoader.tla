-------------------------- MODULE EvidenceLoader --------------------------
(***************************************************************************)
(* load_evidence (ingest.py): the sources named on the command line are    *)
(* read one after another into one bundle, or none is.                     *)
(***************************************************************************)
EXTENDS InputFiles

CONSTANT Requests   \* the sequences of paths a call may be given

ASSUME RequestsAreSequences == Requests \subseteq Seq(Paths)

(* The sources are (inode, content) pairs, the outcome "loading", "returned" or   *)
(* "invalid".                                                                     *)
VARIABLE paths        \* input_paths

loader == <<paths, sources, record_ids, count, total_bytes, outcome>>
vars == <<files, loader>>

Init ==
  /\ FilesInit
  /\ paths \in Requests
  /\ sources = <<>> /\ record_ids = {} /\ count = 0 /\ total_bytes = 0
  /\ outcome = IF paths = <<>> \/ Len(paths) > MaxSources THEN "invalid" ELSE "loading"

Position == Len(sources) + 1
CurrentPath == paths[Position]

Identities == {sources[i].inode : i \in DOMAIN sources}

(* The base name of the current path was read before. *)
RepeatedName == \E i \in 1 .. Position - 1 : BaseName(paths[i]) = BaseName(CurrentPath)

Refuse ==
  /\ outcome' = "invalid"
  /\ UNCHANGED <<paths, sources, record_ids, count, total_bytes>>

WithinLimits(c) ==
  /\ total_bytes + c.bytes <= MaxTotalBytes
  /\ count + Len(c.ids) <= MaxRecords

(* The same file under two names is not noticed. *)
AnyIdentity(i) == TRUE

NewIdentity(i) == i \notin Identities

Take(i, c) ==
  /\ sources' = Append(sources, [inode |-> i, content |-> c])
  /\ record_ids' = record_ids \cup ToSet(c.ids)
  /\ count' = count + Len(c.ids)
  /\ total_bytes' = total_bytes + c.bytes
  /\ UNCHANGED <<paths, outcome>>

(* One turn of the loop over the input paths. *)
LoadNext ==
  /\ outcome = "loading" /\ Position <= Len(paths)
  /\ IF ~RepeatedName /\ Readable(CurrentPath)
     THEN LET i == inode[CurrentPath]
              c == content[i]
          IN IF NewIdentity(i) /\ WithinLimits(c) /\ NewRecords(c) THEN Take(i, c) ELSE Refuse
     ELSE Refuse
  /\ UNCHANGED files

(* The source changes while it is being read, or a system call fails. *)
ReadFails ==
  /\ others
  /\ outcome = "loading" /\ Position <= Len(paths)
  /\ Refuse
  /\ UNCHANGED files

Return ==
  /\ outcome = "loading" /\ Position > Len(paths)
  /\ outcome' = "returned"
  /\ UNCHANGED <<paths, sources, record_ids, count, total_bytes, files>>

(* Other programs matter only while the loader runs. *)
Interfere ==
  /\ outcome = "loading"
  /\ Change
  /\ UNCHANGED loader

Ended == outcome # "loading" /\ UNCHANGED vars

Next == LoadNext \/ ReadFails \/ Return \/ Interfere \/ Ended

Spec == Init /\ [][Next]_vars

(* The variables have their types, and record_ids is what the sources hold. *)
TypeOK ==
  /\ inode \in [Paths -> Inodes \cup {NoFile}]
  /\ content \in [Inodes -> Contents]
  /\ others \in BOOLEAN /\ changes \in 0 .. MaxChanges
  /\ paths \in Seq(Paths)
  /\ sources \in Seq([inode : Inodes, content : Contents])
  /\ Len(sources) <= Len(paths)
  /\ record_ids = UNION {ToSet(sources[k].content.ids) : k \in DOMAIN sources}
  /\ count \in Nat /\ total_bytes \in Nat
  /\ outcome \in {"loading", "returned", "invalid"}

(***************************************************************************)
(* Properties.                                                             *)
(***************************************************************************)
IdsOf(c) == ToSet(c.ids)

(* No file is read twice and no record id is in the sources twice. *)
NothingTwice ==
  /\ \A i, j \in DOMAIN sources : i # j =>
       /\ sources[i].inode # sources[j].inode
       /\ IdsOf(sources[i].content) \cap IdsOf(sources[j].content) = {}
  /\ \A i \in DOMAIN sources : IsInjective(sources[i].content.ids)

(* A bundle that is returned has one source for every path that was given,        *)
(* nothing twice, and stays within the aggregate limits, whatever other programs  *)
(* did to files and names between two reads.                                      *)
WholeBundle ==
  outcome = "returned" =>
    /\ Len(sources) = Len(paths)
    /\ NothingTwice
    /\ Total(Sizes(ContentsRead)) <= MaxTotalBytes
    /\ Total(Counts(ContentsRead)) <= MaxRecords

(* Whether a set of sources can be loaded does not depend on how it is named on   *)
(* the command line: when nothing else touches the files, the paths are accepted  *)
(* exactly when their base names and files are distinct, each of them parses, no  *)
(* record id occurs twice and the totals are within the limits.                   *)
ContentsNamed == [k \in DOMAIN paths |-> content[inode[paths[k]]]]

Loadable ==
  /\ Len(paths) \in 1 .. MaxSources
  /\ \A k \in DOMAIN paths : Readable(paths[k]) /\ IsInjective(ContentsNamed[k].ids)
  /\ \A j, k \in DOMAIN paths : j # k =>
       /\ BaseName(paths[j]) # BaseName(paths[k]) /\ inode[paths[j]] # inode[paths[k]]
       /\ IdsOf(ContentsNamed[j]) \cap IdsOf(ContentsNamed[k]) = {}
  /\ Total(Sizes(ContentsNamed)) <= MaxTotalBytes
  /\ Total(Counts(ContentsNamed)) <= MaxRecords

AcceptsExactly == ~others /\ outcome # "loading" => (outcome = "returned" <=> Loadable)
=============================================================================
