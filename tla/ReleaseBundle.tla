--------------------------- MODULE ReleaseBundle ---------------------------
(***************************************************************************)
(* Publication of a release bundle (scripts/build_release.py): builders    *)
(* write their files into one new or empty output directory and verify it, *)
(* one system call per action where another process can tell.  A builder   *)
(* creates at most one directory and one file of a name, so a directory or *)
(* a file is named by its builder.                                         *)
(***************************************************************************)
EXTENDS Naturals, Sequences

CONSTANTS
  Builders,
  Artifacts,    \* the archives of every builder, in the order they are put in the bundle
  Manifest,     \* build-manifest.json, which every bundle has
  Output,       \* the entry of the output directory in its parent
  Parents,      \* directories the parent path may lead to
  Existing,     \* an empty directory that was there before
  Absent,       \* no entry
  Foreign,      \* an entry of another program that is no directory or no file of a bundle
  NoDir,        \* no directory is open
  FaultSets,    \* which faults the environment may cause together
  MaxMeddling   \* bound on the changes other programs make

ASSUME FaultsAssumption ==
  FaultSets \subseteq SUBSET {"oserror", "interrupt", "kill", "move", "tamper"}
ASSUME BoundsAssumption == MaxMeddling \in Nat
ASSUME EntriesAssumption ==
  /\ Existing \notin Builders /\ Absent \notin Builders \cup {Existing, Foreign}
  /\ Foreign \notin Builders \cup {Existing} /\ NoDir \notin Builders \cup Parents \cup {Existing}
ASSUME BundlesAssumption ==
  \A b \in Builders : /\ Artifacts[b] \in Seq(STRING) /\ Manifest \in STRING
                      /\ \A i \in DOMAIN Artifacts[b] : Artifacts[b][i] # Manifest
                      /\ \A i, j \in DOMAIN Artifacts[b] :
                           Artifacts[b][i] = Artifacts[b][j] => i = j

VARIABLES
  pc,         \* the step every builder is about to take
  outcome,    \* "none", "success" or the exception in flight
  parent,     \* the directory parent_descriptor is open on
  output,     \* the directory output_descriptor is open on
  created,    \* the builder made the output directory
  next,       \* the position in the bundle of the file in hand
  identities, \* names of the files it will roll back
  residual,   \* what it could not remove, or did not know it had made
  entry,      \* what has the output's name in every parent
  parentAt,   \* where the parent path leads
  files,      \* entries of every output directory
  whole,      \* <<builder, name>> pairs whose file has all of its content
  removed,    \* directories that were removed
  touched,    \* builders that others disturbed too late, or together, to be noticed
  meddling,   \* changes other programs made
  faults      \* the faults that may happen

local == <<parent, output, created, next, identities, residual>>
disk == <<entry, files, whole, removed>>
world == <<parentAt, touched, meddling, faults>>
vars == <<pc, outcome, local, disk, world>>

Directories == Builders \cup {Existing}

(* The order the bundle is put together in, and verified in: the archives, then the *)
(* manifest that lists them.                                                         *)
BuildOrder(b) == Artifacts[b] \o <<Manifest>>

(* sorted(bundle.items()): the manifest's name precedes those of the archives. *)
WriteOrder(b) == <<Manifest>> \o Artifacts[b]

Bundle(b) == {WriteOrder(b)[i] : i \in DOMAIN WriteOrder(b)}
Names == UNION {Bundle(b) : b \in Builders}
Listing(d) == {n \in Names : files[d][n] # Absent}

Opening == {"start", "again", "parent", "match", "probe", "mkdir", "open", "empty", "bound"}
Writing == {"write", "fill"}
Verifying == {"sync", "vparent", "ventry", "vlist", "vfile"}
RollingBack == {"unfill", "rmfill", "rollback", "rmfile"}
Running == Opening \cup Writing \cup Verifying \cup RollingBack \cup {"abandon", "rmdir"}

Init ==
  /\ \E started \in (SUBSET Builders) \ {{}} :
       pc = [b \in Builders |-> IF b \in started THEN "start" ELSE "done"]
  /\ outcome = [b \in Builders |-> "none"]
  /\ parent = [b \in Builders |-> NoDir]
  /\ output = [b \in Builders |-> NoDir]
  /\ created = [b \in Builders |-> FALSE]
  /\ next = [b \in Builders |-> 1]
  /\ identities = [b \in Builders |-> {}]
  /\ residual = [b \in Builders |-> {}]
  /\ parentAt \in Parents
  /\ entry \in {[p \in Parents |-> IF p = parentAt THEN e ELSE Absent] : e \in {Absent, Existing}}
  /\ files = [d \in Directories |-> [n \in Names |-> Absent]]
  /\ whole = {} /\ removed = {} /\ touched = {} /\ meddling = 0
  /\ faults \in FaultSets

-----------------------------------------------------------------------------
At(b, step) == pc[b] = step

Goto(b, step) == pc' = [pc EXCEPT ![b] = step] /\ UNCHANGED outcome

Raise(b, step, e) == pc' = [pc EXCEPT ![b] = step] /\ outcome' = [outcome EXCEPT ![b] = e]

Leave(b, what) == residual' = [residual EXCEPT ![b] = @ \cup what]

Current(b) == WriteOrder(b)[next[b]]
Name(b) == files[output[b]][Current(b)]
Mine(b) == entry[parent[b]] = output[b]

(* _preflight_output, before the build and again before the publication: the      *)
(* output must be absent or an empty directory.                                    *)
Preflight(b) ==
  /\ pc[b] \in {"start", "again"}
  /\ IF \/ entry[parentAt] = Absent
        \/ entry[parentAt] \in Directories /\ Listing(entry[parentAt]) = {}
     THEN Goto(b, IF At(b, "start") THEN "again" ELSE "parent")
     ELSE Raise(b, "done", "BuildError")
  /\ UNCHANGED <<local, disk, world>>

OpenParent(b) ==
  /\ At(b, "parent")
  /\ parent' = [parent EXCEPT ![b] = parentAt]
  /\ Goto(b, "match")
  /\ UNCHANGED <<output, created, next, identities, residual, disk, world>>

MatchParent(b) ==
  /\ At(b, "match")
  /\ IF parentAt = parent[b] THEN Goto(b, "probe") ELSE Raise(b, "abandon", "BuildError")
  /\ UNCHANGED <<local, disk, world>>

Probe(b) ==
  /\ At(b, "probe")
  /\ CASE entry[parent[b]] = Absent -> Goto(b, "mkdir")
       [] entry[parent[b]] \in Directories -> Goto(b, "open")
       [] OTHER -> Raise(b, "abandon", "BuildError")
  /\ UNCHANGED <<local, disk, world>>

MakeDirectory(b) ==
  /\ At(b, "mkdir")
  /\ IF entry[parent[b]] = Absent
     THEN /\ entry' = [entry EXCEPT ![parent[b]] = b]
          /\ created' = [created EXCEPT ![b] = TRUE]
          /\ Goto(b, "open")
     ELSE Raise(b, "abandon", "BuildError") /\ UNCHANGED <<entry, created>>
  /\ UNCHANGED <<parent, output, next, identities, residual, files, whole, removed, world>>

OpenOutput(b) ==
  /\ At(b, "open")
  /\ IF entry[parent[b]] \in Directories
     THEN /\ output' = [output EXCEPT ![b] = entry[parent[b]]]
          /\ Goto(b, "empty")
     ELSE Raise(b, "abandon", "BuildError") /\ UNCHANGED output
  /\ UNCHANGED <<parent, created, next, identities, residual, disk, world>>

CheckEmpty(b) ==
  /\ At(b, "empty")
  /\ IF Listing(output[b]) = {} THEN Goto(b, "bound") ELSE Raise(b, "abandon", "BuildError")
  /\ UNCHANGED <<local, disk, world>>

CheckBound(b) ==
  /\ At(b, "bound")
  /\ IF Mine(b) THEN Goto(b, "write") ELSE Raise(b, "abandon", "BuildError")
  /\ UNCHANGED <<local, disk, world>>

-----------------------------------------------------------------------------
(* _publish_release_bundle: every file exclusively, then the verification.         *)

(* Faulty variant: a file that is there is written over. *)
TruncateFile(b) ==
  /\ At(b, "write")
  /\ IF output[b] \notin removed
     THEN /\ files' = [files EXCEPT ![output[b]][Current(b)] = b]
          /\ Goto(b, "fill")
     ELSE Raise(b, "rollback", "BuildError") /\ UNCHANGED files
  /\ UNCHANGED <<local, entry, whole, removed, world>>

(* os.open with O_CREAT and O_EXCL of _write_exclusive_at. *)
CreateFile(b) ==
  /\ At(b, "write")
  /\ IF Name(b) = Absent /\ output[b] \notin removed
     THEN /\ files' = [files EXCEPT ![output[b]][Current(b)] = b]
          /\ Goto(b, "fill")
     ELSE Raise(b, "rollback", "BuildError") /\ UNCHANGED files
  /\ UNCHANGED <<local, entry, whole, removed, world>>

(* Its content, mode and fsync; the caller remembers whose the name is. *)
FillFile(b) ==
  /\ At(b, "fill")
  /\ whole' = whole \cup {<<b, Current(b)>>}
  /\ identities' = [identities EXCEPT ![b] = @ \cup {Current(b)}]
  /\ IF next[b] < Len(WriteOrder(b))
     THEN next' = [next EXCEPT ![b] = @ + 1] /\ Goto(b, "write")
     ELSE next' = [next EXCEPT ![b] = 1] /\ Goto(b, "sync")
  /\ UNCHANGED <<parent, output, created, residual, entry, files, removed, world>>

SyncDirectory(b) ==
  /\ At(b, "sync")
  /\ Goto(b, "vparent")
  /\ UNCHANGED <<local, disk, world>>

VerifyParent(b) ==
  /\ At(b, "vparent")
  /\ IF parentAt = parent[b] THEN Goto(b, "ventry") ELSE Raise(b, "rollback", "BuildError")
  /\ UNCHANGED <<local, disk, world>>

VerifyEntry(b) ==
  /\ At(b, "ventry")
  /\ IF Mine(b) THEN Goto(b, "vlist") ELSE Raise(b, "rollback", "BuildError")
  /\ UNCHANGED <<local, disk, world>>

(* Faulty variant: entries besides the bundle's go unnoticed. *)
ListsAtLeast(b) == Bundle(b) \subseteq Listing(output[b])

ListsBundle(b) == Listing(output[b]) = Bundle(b)

VerifyListing(b) ==
  /\ At(b, "vlist")
  /\ IF ListsBundle(b) THEN Goto(b, "vfile") ELSE Raise(b, "rollback", "BuildError")
  /\ UNCHANGED <<local, disk, world>>

(* bundle.items(): the very file that was written, with its content. *)
VerifiedName(b) == BuildOrder(b)[next[b]]
SameFile(b) == files[output[b]][VerifiedName(b)] = b /\ <<b, VerifiedName(b)>> \in whole

VerifyFile(b) ==
  /\ At(b, "vfile")
  /\ CASE ~SameFile(b) -> Raise(b, "rollback", "BuildError") /\ UNCHANGED next
       [] SameFile(b) /\ next[b] < Len(BuildOrder(b)) ->
            Goto(b, "vfile") /\ next' = [next EXCEPT ![b] = @ + 1]
       [] OTHER -> Raise(b, "abandon", "success") /\ UNCHANGED next
  /\ UNCHANGED <<parent, output, created, identities, residual, disk, world>>

-----------------------------------------------------------------------------
(* What is undone after an exception.                                              *)

(* A system call fails or SIGINT is delivered.  A directory or a file whose        *)
(* identity was not learned yet is left behind, and so is a directory when that    *)
(* happens between its opening and the try block.                                  *)
Fails(b) ==
  /\ \E e \in {x \in {"BuildError", "KeyboardInterrupt"} :
                 (IF x = "BuildError" THEN "oserror" ELSE "interrupt") \in faults} :
       \/ /\ pc[b] \in {"start", "again"} /\ Raise(b, "done", e) /\ UNCHANGED residual
       \/ /\ pc[b] \in Opening \ {"start", "again"} /\ Raise(b, "abandon", e)
          /\ IF At(b, "open") /\ created[b] THEN Leave(b, {Output}) ELSE UNCHANGED residual
       \/ /\ At(b, "write") /\ next[b] = 1 /\ Raise(b, "done", e) /\ Leave(b, {Output})
       \/ /\ pc[b] \in {"write"} \cup Verifying /\ Raise(b, "rollback", e) /\ UNCHANGED residual
       \/ /\ At(b, "fill") /\ Raise(b, "unfill", e) /\ UNCHANGED residual
       \/ /\ At(b, "fill") /\ Raise(b, "rollback", e) /\ Leave(b, {Current(b)})
  /\ UNCHANGED <<parent, output, created, next, identities, disk, world>>

(* The unfinished file, removed by name if the name still leads to it. *)
CheckUnfinished(b) ==
  /\ At(b, "unfill")
  /\ Goto(b, IF Name(b) = b THEN "rmfill" ELSE "rollback")
  /\ UNCHANGED <<local, disk, world>>

Unlink(b, n) == files' = [files EXCEPT ![output[b]][n] = Absent]

RemoveUnfinished(b) ==
  /\ At(b, "rmfill")
  /\ \/ Unlink(b, Current(b)) /\ UNCHANGED residual
     \/ "oserror" \in faults /\ Leave(b, {Current(b)}) /\ UNCHANGED files
  /\ Goto(b, "rollback")
  /\ UNCHANGED <<parent, output, created, next, identities, entry, whole, removed, world>>

(* Faulty variant: what was written stays. *)
KeepsFiles(b) ==
  /\ At(b, "rollback")
  /\ Goto(b, "abandon")
  /\ UNCHANGED <<local, disk, world>>

(* _remove_owned_file: a name in identities that is still its file goes. *)
CheckOwned(b) ==
  /\ At(b, "rollback")
  /\ IF identities[b] = {} THEN Goto(b, "abandon") /\ UNCHANGED <<next, identities>>
     ELSE \E i \in DOMAIN WriteOrder(b) :
            LET n == WriteOrder(b)[i]
            IN /\ n \in identities[b]
               /\ \A j \in 1 .. i - 1 : WriteOrder(b)[j] \notin identities[b]
               /\ identities' = [identities EXCEPT ![b] = @ \ {n}]
               /\ next' = [next EXCEPT ![b] = i]
               /\ Goto(b, IF files[output[b]][n] = b THEN "rmfile" ELSE "rollback")
  /\ UNCHANGED <<parent, output, created, residual, disk, world>>

RemoveOwned(b) ==
  /\ At(b, "rmfile")
  /\ \/ Unlink(b, Current(b)) /\ UNCHANGED residual
     \/ "oserror" \in faults /\ Leave(b, {Current(b)}) /\ UNCHANGED files
  /\ Goto(b, "rollback")
  /\ UNCHANGED <<parent, output, created, next, identities, entry, whole, removed, world>>

(* SIGINT during the clean-up ends the clause it arrives in. *)
CleanUpInterrupted(b) ==
  /\ "interrupt" \in faults
  /\ \/ /\ pc[b] \in RollingBack /\ Raise(b, "abandon", "KeyboardInterrupt")
        /\ Leave(b, identities[b] \cup (IF At(b, "rollback") THEN {} ELSE {Current(b)}))
     \/ /\ pc[b] \in {"abandon", "rmdir"} /\ Raise(b, "done", "KeyboardInterrupt")
        /\ Leave(b, {Output})
  /\ UNCHANGED <<parent, output, created, next, identities, disk, world>>

(* The directory it made goes, if it is empty; after success it is not. *)
RemovesDirectory(b) == created[b] /\ output[b] # NoDir /\ Mine(b)

CheckDirectory(b) ==
  /\ At(b, "abandon")
  /\ Goto(b, IF RemovesDirectory(b) THEN "rmdir" ELSE "done")
  /\ IF created[b] /\ ~RemovesDirectory(b) THEN Leave(b, {Output}) ELSE UNCHANGED residual
  /\ UNCHANGED <<parent, output, created, next, identities, disk, world>>

RemoveDirectory(b) ==
  /\ At(b, "rmdir")
  /\ LET d == entry[parent[b]]
     IN \/ /\ d \in Directories /\ Listing(d) = {}
           /\ entry' = [entry EXCEPT ![parent[b]] = Absent]
           /\ removed' = removed \cup {d}
           /\ UNCHANGED residual
        \/ /\ ~(d \in Directories /\ Listing(d) = {}) \/ "oserror" \in faults
           /\ Leave(b, {Output})
           /\ UNCHANGED <<entry, removed>>
  /\ Goto(b, "done")
  /\ UNCHANGED <<parent, output, created, next, identities, files, whole, world>>

-----------------------------------------------------------------------------
(* The environment.                                                                *)

Kill(b) ==
  /\ "kill" \in faults
  /\ pc[b] \in Running
  /\ pc' = [pc EXCEPT ![b] = "killed"]
  /\ UNCHANGED <<outcome, local, disk, world>>

Meddle ==
  /\ meddling < MaxMeddling /\ meddling' = meddling + 1 /\ UNCHANGED faults
  /\ touched' = IF \E a, b \in Builders : a # b /\ {pc[a], pc[b]} \subseteq Running THEN Builders
                ELSE touched \cup {b \in Builders : pc[b] \notin Opening \cup Writing \cup {"sync"}}

MoveParent ==
  /\ "move" \in faults
  /\ \E p \in Parents \ {parentAt} : parentAt' = p
  /\ Meddle
  /\ UNCHANGED <<pc, outcome, local, disk>>

(* The output's name is given to something else, moved to another parent or freed. *)
MoveOutput ==
  /\ "move" \in faults
  /\ \E p, q \in Parents :
       \/ entry[p] # Absent /\ p # q /\ entry' = [entry EXCEPT ![p] = Absent, ![q] = entry[p]]
       \/ entry[p] = Absent /\ entry' = [entry EXCEPT ![p] = Foreign]
       \/ entry[p] = Foreign /\ entry' = [entry EXCEPT ![p] = Absent]
  /\ Meddle
  /\ UNCHANGED <<pc, outcome, local, files, whole, removed, parentAt>>

(* A file of an output directory is added, replaced, removed or written to. *)
Tamper ==
  /\ "tamper" \in faults
  /\ \E d \in Directories \ removed, n \in Names, e \in {Absent, Foreign} :
       \/ files[d][n] # e /\ files' = [files EXCEPT ![d][n] = e] /\ UNCHANGED whole
       \/ /\ <<files[d][n], n>> \in whole
          /\ whole' = whole \ {<<files[d][n], n>>} /\ UNCHANGED files
  /\ Meddle
  /\ UNCHANGED <<pc, outcome, local, entry, removed, parentAt>>

-----------------------------------------------------------------------------
Publish(b) ==
  \/ Preflight(b) \/ OpenParent(b) \/ MatchParent(b) \/ Probe(b) \/ MakeDirectory(b)
  \/ OpenOutput(b) \/ CheckEmpty(b) \/ CheckBound(b)
  \/ CreateFile(b) \/ FillFile(b) \/ SyncDirectory(b)
  \/ VerifyParent(b) \/ VerifyEntry(b) \/ VerifyListing(b) \/ VerifyFile(b)

CleanUp(b) ==
  \/ Fails(b) \/ CheckUnfinished(b) \/ RemoveUnfinished(b) \/ CheckOwned(b) \/ RemoveOwned(b)
  \/ CleanUpInterrupted(b) \/ CheckDirectory(b) \/ RemoveDirectory(b)

Next ==
  \/ \E b \in Builders : Publish(b) \/ CleanUp(b) \/ Kill(b)
  \/ MoveParent \/ MoveOutput \/ Tamper

Spec == Init /\ [][Next]_vars

(* The variables have their types. *)
TypeOK ==
  /\ pc \in [Builders -> Running \cup {"done", "killed"}]
  /\ outcome \in [Builders -> {"none", "success", "BuildError", "KeyboardInterrupt"}]
  /\ parent \in [Builders -> Parents \cup {NoDir}]
  /\ output \in [Builders -> Directories \cup {NoDir}]
  /\ created \in [Builders -> BOOLEAN]
  /\ next \in [Builders -> Nat] /\ \A b \in Builders : next[b] \in DOMAIN WriteOrder(b)
  /\ identities \in [Builders -> SUBSET Names] /\ \A b \in Builders : identities[b] \subseteq Bundle(b)
  /\ residual \in [Builders -> SUBSET (Names \cup {Output})]
  /\ entry \in [Parents -> Directories \cup {Absent, Foreign}]
  /\ parentAt \in Parents
  /\ files \in [Directories -> [Names -> Builders \cup {Absent, Foreign}]]
  /\ whole \subseteq Builders \X Names
  /\ removed \subseteq Directories /\ touched \subseteq Builders /\ meddling \in 0 .. MaxMeddling
  /\ faults \in FaultSets

-----------------------------------------------------------------------------
(* What the release procedure relies on.                                           *)

(* Only the bundle is published: a builder that succeeded has every file of its     *)
(* bundle, whole, and nothing else in the directory the requested path leads to,    *)
(* unless other programs meddled after it had begun to verify or while two builders *)
(* were at work.  Other builders that publish to the same directory, fail, are      *)
(* interrupted or killed never spoil it.                                            *)
ExactBundle ==
  \A b \in Builders : outcome[b] = "success" /\ b \notin touched =>
    /\ parent[b] = parentAt /\ entry[parentAt] = output[b]
    /\ \A n \in Names : files[output[b]][n] = IF n \in Bundle(b) THEN b ELSE Absent
    /\ {b} \X Bundle(b) \subseteq whole

(* A builder that failed leaves no part of its bundle behind except what it could   *)
(* not remove or was interrupted over, and no directory unless others moved it; only *)
(* SIGINT after the verification leaves all of it, or what others then left of it.  *)
FailureLeavesNothing ==
  \A b \in Builders : pc[b] = "done" /\ outcome[b] # "success" =>
    /\ \A d \in Directories, n \in Names : files[d][n] = b =>
         \/ n \in residual[b]
         \/ /\ outcome[b] = "KeyboardInterrupt"
            /\ b \in touched \/ \A m \in Bundle(b) : files[d][m] = b
    /\ \A p \in Parents : entry[p] = b /\ meddling = 0 => Output \in residual[b]

(* Nobody's file is changed or removed by a builder other than the one that made    *)
(* it, and no directory by one that did not create it.  What is removed by name     *)
(* after its identity was compared can be another builder's only if other programs  *)
(* meddled in between.                                                              *)
OnlyOwnEntriesChange ==
  [][meddling' = 0 =>
       /\ \A d \in Directories, n \in Names :
            files[d][n] \in Builders /\ files'[d][n] # files[d][n] =>
              pc'[files[d][n]] # pc[files[d][n]]
       /\ \A d \in removed' \ removed : d \in Builders /\ pc'[d] # pc[d]]_vars

(* Builders that meet in one directory do not defeat each other: where nothing      *)
(* fails but they, one of them succeeds.                                            *)
NoMutualDefeat ==
  faults = {} /\ (\A b \in Builders : pc[b] = "done") => \E b \in Builders : outcome[b] = "success"
=============================================================================
