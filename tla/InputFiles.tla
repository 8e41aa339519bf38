---------------------------- MODULE InputFiles ----------------------------
(***************************************************************************)
(* The files a loader reads, the programs that change them meanwhile, and  *)
(* what both loaders keep of the sources they have read.                   *)
(* One source is read as AtomicRead promises: all of it, at one instant,   *)
(* or not at all.  Content stands for a file's bytes together with what    *)
(* its parser makes of them, so a digest is the content itself.            *)
(***************************************************************************)
EXTENDS Naturals, Sequences, FiniteSets, Functions, SequencesExt

CONSTANTS
  Paths,             \* paths, pairs of a directory and a base name
  Inodes,            \* (device, inode) pairs
  NoFile,            \* a path bound to nothing that can be read
  Contents,          \* [ids, bytes, adapter, csv] of a file, ids the records in it
  InitialFiles,      \* [inode, content, others]: the files there may be at first
  MaxChanges,        \* bound on the changes other programs make
  MaxSourceBytes, MaxTotalBytes, MaxSourceRecords, MaxRecords, MaxSources

ASSUME FilesAreNamed == NoFile \notin Inodes
ASSUME LimitsArePositive ==
  /\ {MaxSourceBytes, MaxTotalBytes, MaxSourceRecords, MaxRecords, MaxSources} \subseteq Nat \ {0}
  /\ MaxChanges \in Nat
ASSUME ContentsAreSized == \A c \in Contents : c.bytes \in Nat /\ Len(c.ids) \in Nat
ASSUME InitialFilesAreFiles ==
  \A f \in InitialFiles :
    /\ f.inode \in [Paths -> Inodes \cup {NoFile}]
    /\ f.content \in [Inodes -> Contents]
    /\ f.others \in BOOLEAN

VARIABLES
  inode,      \* what every path is bound to
  content,    \* what every file holds
  others,     \* other programs may change files and names, and reads may fail
  changes     \* changes they made

files == <<inode, content, others, changes>>

(* What either loader has read. *)
VARIABLES
  sources,      \* the sources read so far, in order: their inode, content and more
  record_ids,   \* the ids of their records
  count,        \* how many records there are
  total_bytes,
  outcome       \* where the loader is, or how it ended

FilesInit ==
  /\ \E f \in InitialFiles : inode = f.inode /\ content = f.content /\ others = f.others
  /\ changes = 0

BaseName(path) == path[2]

(* A file is written in place. *)
Rewrite ==
  \E i \in Inodes, c \in Contents :
    /\ content[i] # c
    /\ content' = [content EXCEPT ![i] = c]
    /\ UNCHANGED inode

(* A path is created, removed, renamed over or linked to another file. *)
Rebind ==
  \E p \in Paths, i \in Inodes \cup {NoFile} :
    /\ inode[p] # i
    /\ inode' = [inode EXCEPT ![p] = i]
    /\ UNCHANGED content

Change ==
  /\ others /\ changes < MaxChanges
  /\ changes' = changes + 1
  /\ Rewrite \/ Rebind
  /\ UNCHANGED others

(* What parse_source accepts: a bounded file with records no parser refuses. *)
Parses(c) ==
  /\ c.bytes <= MaxSourceBytes
  /\ c.ids # <<>> /\ Len(c.ids) <= MaxSourceRecords

(* The limits are on sums.  The sum is a recursive function and no fold, of which *)
(* nothing can be proved.                                                         *)
Total(numbers) ==
  LET sum[k \in 0 .. Len(numbers)] == IF k = 0 THEN 0 ELSE sum[k - 1] + numbers[k]
  IN sum[Len(numbers)]

Sizes(cs) == [k \in DOMAIN cs |-> cs[k].bytes]
Counts(cs) == [k \in DOMAIN cs |-> Len(cs[k].ids)]

(* Ids are compared within a source only. *)
NewWithinSource(c) == IsInjective(c.ids)

NewRecords(c) == IsInjective(c.ids) /\ ToSet(c.ids) \cap record_ids = {}

ContentsRead == [k \in DOMAIN sources |-> sources[k].content]

Readable(path) == inode[path] # NoFile /\ Parses(content[inode[path]])
=============================================================================
