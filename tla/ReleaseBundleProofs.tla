----------------------- MODULE ReleaseBundleProofs -----------------------
(***************************************************************************)
(* Publication of release bundles, for any builders, bundles, parents and  *)
(* faults: no call is made on a descriptor that is not open (TypeOK), what *)
(* is published is the bundle, what fails leaves nothing, nobody touches   *)
(* the entries of another, and builders that meet do not defeat each other.*)
(***************************************************************************)
EXTENDS ReleaseBundle, SequenceTheorems, TLAPS

WithParent == {"match", "probe", "mkdir", "open"}
WithOutput == {"empty", "bound"} \cup Writing \cup Verifying \cup RollingBack

\* The descriptors a builder holds at its step, and the directory it made.
Descriptors ==
  \A b \in Builders :
    /\ pc[b] \in WithParent => parent[b] \in Parents
    /\ pc[b] \in WithOutput => output[b] \in Directories
    /\ created[b] \/ output[b] # NoDir => parent[b] \in Parents
    /\ pc[b] = "rmdir" => created[b]

IInv == TypeOK /\ Descriptors

Steps == Running \cup {"done", "killed"}
Outcomes == {"none", "success", "BuildError", "KeyboardInterrupt"}
Entries == Directories \cup {Absent, Foreign}

USE DEF Steps, Outcomes, Running, Opening, Writing, Verifying, RollingBack, WithParent, WithOutput

\* Every position of a bundle holds one of its names, the first one included.
LEMMA Positions ==
  ASSUME NEW b \in Builders
  PROVE  /\ Len(WriteOrder(b)) \in Nat /\ DOMAIN WriteOrder(b) = 1 .. Len(WriteOrder(b))
         /\ 1 \in DOMAIN WriteOrder(b)
         /\ \A i \in DOMAIN WriteOrder(b) : WriteOrder(b)[i] \in Bundle(b)
         /\ Bundle(b) \subseteq Names
<1>1. Artifacts[b] \in Seq(STRING) /\ <<Manifest>> \in Seq(STRING) /\ Len(<<Manifest>>) = 1
  BY BundlesAssumption
<1>2. /\ WriteOrder(b) \in Seq(STRING)
      /\ Len(WriteOrder(b)) = 1 + Len(Artifacts[b])
  BY <1>1, ConcatProperties DEF WriteOrder
<1>3. Len(Artifacts[b]) \in Nat
  BY <1>1, LenProperties
<1>4. DOMAIN WriteOrder(b) = 1 .. Len(WriteOrder(b)) /\ Len(WriteOrder(b)) \in Nat
  BY <1>2, LenProperties
<1>5. 1 \in DOMAIN WriteOrder(b)
  BY <1>2, <1>3, <1>4
<1> QED
  BY <1>4, <1>5 DEF Bundle, Names

\* What is verified is what was written, in another order.
LEMMA BothOrders ==
  ASSUME NEW b \in Builders
  PROVE  /\ Len(BuildOrder(b)) = Len(WriteOrder(b)) /\ DOMAIN BuildOrder(b) = DOMAIN WriteOrder(b)
         /\ \A i \in DOMAIN BuildOrder(b) : BuildOrder(b)[i] \in Bundle(b)
         /\ \A n \in Bundle(b) : \E i \in DOMAIN BuildOrder(b) : n = BuildOrder(b)[i]
<1>1. /\ Artifacts[b] \in Seq(STRING) /\ <<Manifest>> \in Seq(STRING)
      /\ Len(<<Manifest>>) = 1 /\ <<Manifest>>[1] = Manifest
  BY BundlesAssumption
<1>2. Len(Artifacts[b]) \in Nat
  BY <1>1, LenProperties
<1> DEFINE last == Len(Artifacts[b]) + 1
<1>3. /\ WriteOrder(b) \in Seq(STRING) /\ Len(WriteOrder(b)) = last
      /\ \A i \in 1 .. last : WriteOrder(b)[i] = IF i <= 1 THEN Manifest ELSE Artifacts[b][i - 1]
  <2>1. /\ WriteOrder(b) \in Seq(STRING) /\ Len(WriteOrder(b)) = 1 + Len(Artifacts[b])
        /\ \A i \in 1 .. 1 + Len(Artifacts[b]) :
             WriteOrder(b)[i] = IF i <= 1 THEN <<Manifest>>[i] ELSE Artifacts[b][i - 1]
    BY <1>1, ConcatProperties DEF WriteOrder
  <2> QED
    BY <1>1, <1>2, <2>1
<1>4. /\ BuildOrder(b) \in Seq(STRING) /\ Len(BuildOrder(b)) = last
      /\ \A i \in 1 .. last : BuildOrder(b)[i] = IF i < last THEN Artifacts[b][i] ELSE Manifest
  <2>1. /\ BuildOrder(b) \in Seq(STRING) /\ Len(BuildOrder(b)) = Len(Artifacts[b]) + 1
        /\ \A i \in 1 .. Len(Artifacts[b]) + 1 :
             BuildOrder(b)[i] =
               IF i <= Len(Artifacts[b]) THEN Artifacts[b][i] ELSE <<Manifest>>[i - Len(Artifacts[b])]
    BY <1>1, ConcatProperties DEF BuildOrder
  <2> QED
    BY <1>1, <1>2, <2>1
<1>5. DOMAIN BuildOrder(b) = 1 .. last /\ DOMAIN WriteOrder(b) = 1 .. last
  BY <1>3, <1>4, LenProperties
<1>6. ASSUME NEW i \in 1 .. last PROVE \E j \in 1 .. last : BuildOrder(b)[i] = WriteOrder(b)[j]
  <2>1. CASE i < last
    <3>1. i + 1 \in 1 .. last /\ ~(i + 1 <= 1) /\ i + 1 - 1 = i
      BY <1>2, <2>1
    <3> QED
      BY <1>3, <1>4, <2>1, <3>1
  <2>2. CASE ~(i < last)
    <3>1. 1 \in 1 .. last
      BY <1>2
    <3> QED
      BY <1>3, <1>4, <2>2, <3>1
  <2> QED
    BY <2>1, <2>2
<1>7. ASSUME NEW j \in 1 .. last PROVE \E i \in 1 .. last : WriteOrder(b)[j] = BuildOrder(b)[i]
  <2>1. CASE j <= 1
    <3>1. last \in 1 .. last /\ ~(last < last)
      BY <1>2
    <3> QED
      BY <1>3, <1>4, <2>1, <3>1
  <2>2. CASE ~(j <= 1)
    <3>1. j - 1 \in 1 .. last /\ j - 1 < last
      BY <1>2, <2>2
    <3> QED
      BY <1>3, <1>4, <2>2, <3>1
  <2> QED
    BY <2>1, <2>2
<1>8. Bundle(b) = {WriteOrder(b)[j] : j \in 1 .. last}
  BY <1>5 DEF Bundle
<1>9. \A i \in DOMAIN BuildOrder(b) : BuildOrder(b)[i] \in Bundle(b)
  BY <1>5, <1>6, <1>8
<1>10. \A n \in Bundle(b) : \E i \in DOMAIN BuildOrder(b) : n = BuildOrder(b)[i]
  BY <1>5, <1>7, <1>8
<1> QED
  BY <1>3, <1>4, <1>5, <1>9, <1>10

LEMMA InitInvariant == Init => IInv
<1>1. ASSUME Init PROVE IInv
  <2>1. \A b \in Builders : next[b] \in DOMAIN WriteOrder(b) /\ pc[b] \in {"start", "done"}
    BY <1>1, Positions DEF Init
  <2>2. entry \in [Parents -> Directories \cup {Absent, Foreign}]
    BY <1>1 DEF Init, Directories
  <2>3. pc \in [Builders -> {"start", "done"}]
    BY <1>1 DEF Init
  <2>4. TypeOK
    BY <1>1, <2>1, <2>2, <2>3, BoundsAssumption DEF Init, TypeOK
  <2>5. Descriptors
    BY <1>1, <2>1 DEF Init, Descriptors
  <2> QED
    BY <2>4, <2>5 DEF IInv
<1> QED
  BY <1>1

-----------------------------------------------------------------------------
\* What a builder's control may become.
Moved(b, steps) ==
  /\ \E step \in steps : pc' = [pc EXCEPT ![b] = step]
  /\ outcome' = outcome \/ \E e \in Outcomes : outcome' = [outcome EXCEPT ![b] = e]

LEMMA MovedTypes ==
  ASSUME IInv, NEW b \in Builders, Moved(b, Steps)
  PROVE  pc' \in [Builders -> Steps] /\ outcome' \in [Builders -> Outcomes]
<1>1. pc \in [Builders -> Steps] /\ outcome \in [Builders -> Outcomes]
  BY DEF IInv, TypeOK
<1> HIDE DEF Steps, Outcomes
<1> QED
  BY <1>1 DEF Moved

\* A step that only goes elsewhere, with the descriptors it takes there.
LEMMA Moves ==
  ASSUME IInv, NEW b \in Builders, NEW steps \in SUBSET Steps, Moved(b, steps),
         UNCHANGED <<local, disk, world>>,
         steps \cap WithParent # {} => parent[b] \in Parents,
         steps \cap WithOutput # {} => output[b] \in Directories,
         "rmdir" \in steps => created[b]
  PROVE  IInv'
<1>1. pc' \in [Builders -> Steps] /\ outcome' \in [Builders -> Outcomes]
  BY MovedTypes DEF Moved
<1>2. TypeOK'
  BY <1>1 DEF IInv, TypeOK, local, disk, world
<1>3. pc \in [Builders -> Steps] /\ Descriptors
  BY DEF IInv, TypeOK
<1>4. PICK step \in steps : pc' = [pc EXCEPT ![b] = step]
  BY DEF Moved
<1> HIDE DEF Steps, WithParent, WithOutput
<1>5. Descriptors'
  BY <1>3, <1>4 DEF Descriptors, local
<1> QED
  BY <1>2, <1>5 DEF IInv

LEMMA OpeningSteps ==
  ASSUME IInv, NEW b \in Builders,
         Preflight(b) \/ MatchParent(b) \/ Probe(b) \/ CheckEmpty(b) \/ CheckBound(b)
  PROVE  IInv'
<1> USE DEF At, Goto, Raise, Moved
<1>1. CASE Preflight(b)
  <2>1. Moved(b, {"again", "parent", "done"}) /\ UNCHANGED <<local, disk, world>>
    BY <1>1 DEF Preflight
  <2> QED
    BY <2>1, Moves
<1>2. CASE MatchParent(b)
  <2>1. Moved(b, {"probe", "abandon"}) /\ UNCHANGED <<local, disk, world>> /\ parent[b] \in Parents
    BY <1>2 DEF MatchParent, IInv, Descriptors
  <2> QED
    BY <2>1, Moves
<1>3. CASE Probe(b)
  <2>1. Moved(b, {"mkdir", "open", "abandon"}) /\ UNCHANGED <<local, disk, world>> /\ parent[b] \in Parents
    BY <1>3 DEF Probe, IInv, Descriptors
  <2> QED
    BY <2>1, Moves
<1>4. CASE CheckEmpty(b)
  <2>1. /\ Moved(b, {"bound", "abandon"}) /\ UNCHANGED <<local, disk, world>>
        /\ output[b] \in Directories
    BY <1>4 DEF CheckEmpty, IInv, Descriptors
  <2> QED
    BY <2>1, Moves
<1>5. CASE CheckBound(b)
  <2>1. /\ Moved(b, {"write", "abandon"}) /\ UNCHANGED <<local, disk, world>>
        /\ output[b] \in Directories
    BY <1>5 DEF CheckBound, IInv, Descriptors
  <2> QED
    BY <2>1, Moves
<1> QED
  BY <1>1, <1>2, <1>3, <1>4, <1>5

LEMMA OpenParentStep == ASSUME IInv, NEW b \in Builders, OpenParent(b) PROVE IInv'
<1> USE DEF At, Goto
<1>1. pc' \in [Builders -> Steps] /\ outcome' = outcome /\ parent' \in [Builders -> Parents \cup {NoDir}]
  BY DEF OpenParent, IInv, TypeOK
<1>2. TypeOK'
  BY <1>1 DEF OpenParent, IInv, TypeOK, disk, world
<1>3. Descriptors'
  BY DEF OpenParent, IInv, TypeOK, Descriptors
<1> QED
  BY <1>2, <1>3 DEF IInv

LEMMA OpenOutputStep == ASSUME IInv, NEW b \in Builders, OpenOutput(b) PROVE IInv'
<1> USE DEF At, Goto, Raise
<1>1. pc[b] = "open" /\ parent[b] \in Parents
  BY DEF OpenOutput, IInv, Descriptors
<1>2. CASE entry[parent[b]] \in Directories
  <2>1. pc' = [pc EXCEPT ![b] = "empty"] /\ output' = [output EXCEPT ![b] = entry[parent[b]]] /\ outcome' = outcome
    BY <1>2 DEF OpenOutput
  <2>2. pc' \in [Builders -> Steps] /\ output' \in [Builders -> Directories \cup {NoDir}]
    BY <1>2, <2>1 DEF IInv, TypeOK
  <2>3. TypeOK'
    BY <2>1, <2>2 DEF OpenOutput, IInv, TypeOK, disk, world
  <2>4. Descriptors'
    BY <1>1, <1>2, <2>1 DEF OpenOutput, IInv, TypeOK, Descriptors
  <2> QED
    BY <2>3, <2>4 DEF IInv
<1>3. CASE entry[parent[b]] \notin Directories
  <2>1. Moved(b, {"abandon"}) /\ UNCHANGED <<local, disk, world>>
    BY <1>3 DEF OpenOutput, Moved, local
  <2> QED
    BY <2>1, Moves
<1> QED
  BY <1>2, <1>3

LEMMA MakeDirectoryStep == ASSUME IInv, NEW b \in Builders, MakeDirectory(b) PROVE IInv'
<1> USE DEF At, Goto, Raise
<1>1. parent[b] \in Parents /\ b \in Directories /\ pc[b] = "mkdir"
  BY DEF MakeDirectory, IInv, Descriptors, Directories
<1>2. CASE entry[parent[b]] = Absent
  <2>1. /\ pc' = [pc EXCEPT ![b] = "open"] /\ outcome' = outcome
        /\ entry' = [entry EXCEPT ![parent[b]] = b]
        /\ created' = [created EXCEPT ![b] = TRUE]
    BY <1>2 DEF MakeDirectory
  <2>2. pc' \in [Builders -> Steps]
    BY <2>1 DEF IInv, TypeOK
  <2>3. entry' \in [Parents -> Entries] /\ created' \in [Builders -> BOOLEAN]
    BY <1>1, <2>1 DEF IInv, TypeOK, Entries
  <2>4. TypeOK'
    BY <2>1, <2>2, <2>3 DEF MakeDirectory, IInv, TypeOK, world, Entries
  <2>5. Descriptors'
    BY <1>1, <2>1 DEF MakeDirectory, IInv, TypeOK, Descriptors
  <2> QED
    BY <2>4, <2>5 DEF IInv
<1>3. CASE entry[parent[b]] # Absent
  <2>1. Moved(b, {"abandon"}) /\ UNCHANGED <<local, disk, world>>
    BY <1>3 DEF MakeDirectory, Moved, local, disk
  <2> QED
    BY <2>1, Moves
<1> QED
  BY <1>2, <1>3

-----------------------------------------------------------------------------
LEMMA CurrentIsNamed ==
  ASSUME IInv, NEW b \in Builders
  PROVE  Current(b) \in Bundle(b) /\ Current(b) \in Names
BY Positions DEF IInv, TypeOK, Current

LEMMA CreateFileStep == ASSUME IInv, NEW b \in Builders, CreateFile(b) PROVE IInv'
<1> USE DEF At, Goto, Raise, local, world
<1>1. output[b] \in Directories /\ Current(b) \in Names /\ pc[b] = "write"
  BY CurrentIsNamed DEF CreateFile, IInv, Descriptors
<1>2. files' \in [Directories -> [Names -> Builders \cup {Absent, Foreign}]]
  BY <1>1 DEF CreateFile, IInv, TypeOK
<1> QED
  BY <1>1, <1>2 DEF CreateFile, IInv, TypeOK, Descriptors

LEMMA FillFileStep == ASSUME IInv, NEW b \in Builders, FillFile(b) PROVE IInv'
<1> USE DEF At, Goto, Raise, world
<1>1. output[b] \in Directories /\ Current(b) \in Bundle(b) /\ Current(b) \in Names /\ pc[b] = "fill"
  BY CurrentIsNamed DEF FillFile, IInv, Descriptors
<1>2. next[b] \in 1 .. Len(WriteOrder(b)) /\ Len(WriteOrder(b)) \in Nat
  BY Positions DEF IInv, TypeOK
<1>3. next' \in [Builders -> Nat] /\ \A a \in Builders : next'[a] \in DOMAIN WriteOrder(a)
  <2>1. CASE next[b] < Len(WriteOrder(b))
    <3>1. next' = [next EXCEPT ![b] = @ + 1]
      BY <2>1 DEF FillFile
    <3> QED
      BY <1>2, <2>1, <3>1, Positions DEF IInv, TypeOK
  <2>2. CASE ~(next[b] < Len(WriteOrder(b)))
    <3>1. next' = [next EXCEPT ![b] = 1]
      BY <2>2 DEF FillFile
    <3> QED
      BY <3>1, Positions DEF IInv, TypeOK
  <2> QED
    BY <2>1, <2>2
<1>4. whole' \subseteq Builders \X Names
  BY <1>1 DEF FillFile, IInv, TypeOK
<1>5. /\ identities' \in [Builders -> SUBSET Names]
      /\ \A a \in Builders : identities'[a] \subseteq Bundle(a)
  BY <1>1 DEF FillFile, IInv, TypeOK
<1>6. pc' \in [Builders -> Steps] /\ outcome' = outcome
  BY DEF FillFile, IInv, TypeOK
<1>7. TypeOK'
  BY <1>3, <1>4, <1>5, <1>6 DEF FillFile, IInv, TypeOK
<1>8. Descriptors'
  BY <1>1 DEF FillFile, IInv, TypeOK, Descriptors
<1> QED
  BY <1>7, <1>8 DEF IInv

LEMMA VerifySteps ==
  ASSUME IInv, NEW b \in Builders,
         SyncDirectory(b) \/ VerifyParent(b) \/ VerifyEntry(b) \/ VerifyListing(b)
  PROVE  IInv'
<1>1. /\ Moved(b, {"vparent", "ventry", "vlist", "vfile", "rollback"})
      /\ UNCHANGED <<local, disk, world>> /\ pc[b] \in Verifying
  BY DEF SyncDirectory, VerifyParent, VerifyEntry, VerifyListing, At, Goto, Raise, Moved
<1>2. output[b] \in Directories
  BY <1>1 DEF IInv, Descriptors
<1> QED
  BY <1>1, <1>2, Moves

LEMMA VerifyFileStep == ASSUME IInv, NEW b \in Builders, VerifyFile(b) PROVE IInv'
<1> USE DEF At, Goto, Raise, disk, world
<1>1. next[b] \in 1 .. Len(WriteOrder(b)) /\ Len(WriteOrder(b)) \in Nat
  BY Positions DEF IInv, TypeOK
<1>2. next' \in [Builders -> Nat] /\ \A a \in Builders : next'[a] \in DOMAIN WriteOrder(a)
  <2>1. CASE SameFile(b) /\ next[b] < Len(BuildOrder(b))
    <3>1. next' = [next EXCEPT ![b] = @ + 1]
      BY <2>1 DEF VerifyFile
    <3>2. next[b] < Len(WriteOrder(b))
      BY <2>1, BothOrders
    <3> QED
      BY <1>1, <3>1, <3>2, Positions DEF IInv, TypeOK
  <2>2. CASE ~(SameFile(b) /\ next[b] < Len(BuildOrder(b)))
    <3>1. next' = next
      BY <2>2 DEF VerifyFile
    <3> QED
      BY <3>1 DEF IInv, TypeOK
  <2> QED
    BY <2>1, <2>2
<1>3. \/ pc' = [pc EXCEPT ![b] = "rollback"] /\ outcome' = [outcome EXCEPT ![b] = "BuildError"]
      \/ pc' = [pc EXCEPT ![b] = "vfile"] /\ outcome' = outcome
      \/ pc' = [pc EXCEPT ![b] = "abandon"] /\ outcome' = [outcome EXCEPT ![b] = "success"]
  BY DEF VerifyFile
<1>4. pc[b] = "vfile" /\ UNCHANGED <<parent, output, created, identities, residual, disk, world>>
  BY DEF VerifyFile
<1>5. pc' \in [Builders -> Steps] /\ outcome' \in [Builders -> Outcomes]
  BY <1>3 DEF IInv, TypeOK
<1>6. TypeOK'
  BY <1>2, <1>4, <1>5 DEF IInv, TypeOK
<1>7. Descriptors'
  BY <1>3, <1>4 DEF IInv, TypeOK, Descriptors
<1> QED
  BY <1>6, <1>7 DEF IInv

-----------------------------------------------------------------------------
\* What a builder reports as left behind is of its bundle.
LEMMA Leaves ==
  ASSUME IInv, NEW b \in Builders,
         \/ UNCHANGED residual
         \/ \E what \in SUBSET (Bundle(b) \cup {Output}) : Leave(b, what)
  PROVE  residual' \in [Builders -> SUBSET (Names \cup {Output})]
<1>1. residual \in [Builders -> SUBSET (Names \cup {Output})] /\ Bundle(b) \subseteq Names
  BY Positions DEF IInv, TypeOK
<1>2. ASSUME NEW what \in SUBSET (Bundle(b) \cup {Output}), Leave(b, what)
      PROVE  residual' \in [Builders -> SUBSET (Names \cup {Output})]
  <2>1. residual[b] \cup what \in SUBSET (Names \cup {Output})
    BY <1>1
  <2> QED
    BY <1>1, <1>2, <2>1 DEF Leave
<1> QED
  BY <1>1, <1>2

LEMMA FailsStep == ASSUME IInv, NEW b \in Builders, Fails(b) PROVE IInv'
<1>1. pc \in [Builders -> Steps] /\ Descriptors
  BY DEF IInv, TypeOK
<1>2. /\ \E step \in {"done", "abandon", "unfill", "rollback"} :
           /\ pc' = [pc EXCEPT ![b] = step]
           /\ step \in {"unfill", "rollback"} => pc[b] \in {"write", "fill"} \cup Verifying
      /\ \E e \in Outcomes : outcome' = [outcome EXCEPT ![b] = e]
      /\ UNCHANGED <<parent, output, created, next, identities, disk, world>>
  BY DEF Fails, Raise, At
<1>3. UNCHANGED residual \/ \E what \in SUBSET (Bundle(b) \cup {Output}) : Leave(b, what)
  <2>1. Current(b) \in Bundle(b)
    BY CurrentIsNamed
  <2> QED
    BY <2>1 DEF Fails
<1>4. residual' \in [Builders -> SUBSET (Names \cup {Output})]
  BY <1>3, Leaves
<1>5. pc' \in [Builders -> Steps] /\ outcome' \in [Builders -> Outcomes]
  BY <1>2, MovedTypes DEF Moved
<1>6. TypeOK'
  BY <1>2, <1>4, <1>5 DEF IInv, TypeOK, disk, world
<1>7. Descriptors'
  BY <1>1, <1>2 DEF Descriptors
<1> QED
  BY <1>6, <1>7 DEF IInv

LEMMA CheckUnfinishedStep == ASSUME IInv, NEW b \in Builders, CheckUnfinished(b) PROVE IInv'
<1>1. /\ Moved(b, {"rmfill", "rollback"}) /\ UNCHANGED <<local, disk, world>>
      /\ output[b] \in Directories
  BY DEF CheckUnfinished, At, Goto, Moved, IInv, Descriptors
<1> QED
  BY <1>1, Moves

LEMMA RemoveFileStep ==
  ASSUME IInv, NEW b \in Builders, RemoveUnfinished(b) \/ RemoveOwned(b)
  PROVE  IInv'
<1>1. output[b] \in Directories /\ Current(b) \in Names /\ Current(b) \in Bundle(b)
  BY CurrentIsNamed DEF RemoveUnfinished, RemoveOwned, At, IInv, Descriptors
<1>2. /\ pc[b] \in {"rmfill", "rmfile"}
      /\ pc' = [pc EXCEPT ![b] = "rollback"] /\ outcome' = outcome
      /\ UNCHANGED <<parent, output, created, next, identities, entry, whole, removed, world>>
      /\ Unlink(b, Current(b)) \/ UNCHANGED files
      /\ UNCHANGED residual \/ Leave(b, {Current(b)})
  BY DEF RemoveUnfinished, RemoveOwned, At, Goto
<1>3. residual' \in [Builders -> SUBSET (Names \cup {Output})]
  <2>1. {Current(b)} \in SUBSET (Bundle(b) \cup {Output})
    BY <1>1
  <2> QED
    BY <1>2, <2>1, Leaves
<1>4. files' \in [Directories -> [Names -> Builders \cup {Absent, Foreign}]]
  <2>1. files \in [Directories -> [Names -> Builders \cup {Absent, Foreign}]]
    BY DEF IInv, TypeOK
  <2> QED
    BY <1>1, <1>2, <2>1 DEF Unlink
<1>5. pc' \in [Builders -> Steps]
  BY <1>2 DEF IInv, TypeOK
<1>6. TypeOK'
  BY <1>2, <1>3, <1>4, <1>5 DEF IInv, TypeOK, world
<1>7. Descriptors'
  BY <1>1, <1>2 DEF IInv, TypeOK, Descriptors
<1> QED
  BY <1>6, <1>7 DEF IInv

LEMMA CheckOwnedStep == ASSUME IInv, NEW b \in Builders, CheckOwned(b) PROVE IInv'
<1>1. output[b] \in Directories /\ pc[b] = "rollback"
  BY DEF CheckOwned, At, IInv, Descriptors
<1>2. CASE identities[b] = {}
  <2>1. Moved(b, {"abandon"}) /\ UNCHANGED <<local, disk, world>>
    BY <1>2 DEF CheckOwned, Goto, Moved, local
  <2> QED
    BY <2>1, Moves
<1>3. CASE identities[b] # {}
  <2>1. PICK i \in DOMAIN WriteOrder(b) :
          /\ identities' = [identities EXCEPT ![b] = @ \ {WriteOrder(b)[i]}]
          /\ next' = [next EXCEPT ![b] = i]
          /\ Goto(b, IF files[output[b]][WriteOrder(b)[i]] = b THEN "rmfile" ELSE "rollback")
    BY <1>3 DEF CheckOwned
  <2>2. i \in Nat
    BY Positions
  <2>3. /\ next' \in [Builders -> Nat]
        /\ \A a \in Builders : next'[a] \in DOMAIN WriteOrder(a)
    BY <2>1, <2>2 DEF IInv, TypeOK
  <2>4. /\ identities' \in [Builders -> SUBSET Names]
        /\ \A a \in Builders : identities'[a] \subseteq Bundle(a)
    BY <2>1 DEF IInv, TypeOK
  <2>5. /\ Moved(b, {"rmfile", "rollback"})
        /\ UNCHANGED <<outcome, parent, output, created, residual, disk, world>>
    BY <2>1 DEF CheckOwned, Goto, Moved
  <2>6. pc' \in [Builders -> Steps]
    BY <2>5, MovedTypes DEF Moved
  <2>7. TypeOK'
    BY <2>3, <2>4, <2>5, <2>6 DEF IInv, TypeOK, disk, world
  <2>8. Descriptors'
    BY <1>1, <2>5 DEF IInv, TypeOK, Descriptors, Moved
  <2> QED
    BY <2>7, <2>8 DEF IInv
<1> QED
  BY <1>2, <1>3

LEMMA InterruptedStep == ASSUME IInv, NEW b \in Builders, CleanUpInterrupted(b) PROVE IInv'
<1>1. /\ \E step \in {"abandon", "done"} : pc' = [pc EXCEPT ![b] = step]
      /\ outcome' = [outcome EXCEPT ![b] = "KeyboardInterrupt"]
      /\ UNCHANGED <<parent, output, created, next, identities, disk, world>>
  BY DEF CleanUpInterrupted, Raise
<1>2. \E what \in SUBSET (Bundle(b) \cup {Output}) : Leave(b, what)
  <2>1. Current(b) \in Bundle(b) /\ identities[b] \subseteq Bundle(b)
    BY CurrentIsNamed DEF IInv, TypeOK
  <2>2. CASE Leave(b, identities[b] \cup (IF At(b, "rollback") THEN {} ELSE {Current(b)}))
    BY <2>1, <2>2
  <2>3. CASE Leave(b, {Output})
    BY <2>3
  <2> QED
    BY <2>2, <2>3 DEF CleanUpInterrupted
<1>3. residual' \in [Builders -> SUBSET (Names \cup {Output})]
  BY <1>2, Leaves
<1>4. pc' \in [Builders -> Steps] /\ outcome' \in [Builders -> Outcomes]
  BY <1>1, MovedTypes DEF Moved
<1>5. TypeOK'
  BY <1>1, <1>3, <1>4 DEF IInv, TypeOK, disk, world
<1>6. Descriptors'
  BY <1>1 DEF IInv, TypeOK, Descriptors
<1> QED
  BY <1>5, <1>6 DEF IInv

LEMMA CheckDirectoryStep == ASSUME IInv, NEW b \in Builders, CheckDirectory(b) PROVE IInv'
<1>1. /\ pc' = [pc EXCEPT ![b] = IF RemovesDirectory(b) THEN "rmdir" ELSE "done"] /\ outcome' = outcome
      /\ UNCHANGED <<parent, output, created, next, identities, disk, world>>
      /\ UNCHANGED residual \/ Leave(b, {Output})
  BY DEF CheckDirectory, Goto
<1>2. residual' \in [Builders -> SUBSET (Names \cup {Output})]
  <2>1. {Output} \in SUBSET (Bundle(b) \cup {Output})
    OBVIOUS
  <2> QED
    BY <1>1, <2>1, Leaves
<1>3. pc' \in [Builders -> Steps]
  BY <1>1 DEF IInv, TypeOK
<1>4. TypeOK'
  BY <1>1, <1>2, <1>3 DEF IInv, TypeOK, disk, world
<1>5. Descriptors'
  BY <1>1 DEF IInv, TypeOK, Descriptors, RemovesDirectory
<1> QED
  BY <1>4, <1>5 DEF IInv

LEMMA RemoveDirectoryStep == ASSUME IInv, NEW b \in Builders, RemoveDirectory(b) PROVE IInv'
<1> DEFINE d == entry[parent[b]]
<1>1. parent[b] \in Parents /\ pc[b] = "rmdir"
  BY DEF RemoveDirectory, At, IInv, Descriptors
<1>2. /\ pc' = [pc EXCEPT ![b] = "done"] /\ outcome' = outcome
      /\ UNCHANGED <<parent, output, created, next, identities, files, whole, world>>
  BY DEF RemoveDirectory, Goto
<1>3. \/ /\ d \in Directories /\ entry' = [entry EXCEPT ![parent[b]] = Absent]
         /\ removed' = removed \cup {d} /\ UNCHANGED residual
      \/ Leave(b, {Output}) /\ UNCHANGED <<entry, removed>>
  BY DEF RemoveDirectory
<1>4. residual' \in [Builders -> SUBSET (Names \cup {Output})]
  <2>1. {Output} \in SUBSET (Bundle(b) \cup {Output})
    OBVIOUS
  <2> QED
    BY <1>3, <2>1, Leaves
<1>5. entry' \in [Parents -> Directories \cup {Absent, Foreign}] /\ removed' \subseteq Directories
  BY <1>1, <1>3 DEF IInv, TypeOK
<1>6. pc' \in [Builders -> Steps]
  BY <1>2 DEF IInv, TypeOK
<1>7. TypeOK'
  BY <1>2, <1>4, <1>5, <1>6 DEF IInv, TypeOK, world
<1>8. Descriptors'
  BY <1>2 DEF IInv, TypeOK, Descriptors
<1> QED
  BY <1>7, <1>8 DEF IInv

-----------------------------------------------------------------------------
LEMMA KillStep == ASSUME IInv, NEW b \in Builders, Kill(b) PROVE IInv'
<1>1. Moved(b, {"killed"}) /\ UNCHANGED <<local, disk, world>>
  BY DEF Kill, Moved
<1> QED
  BY <1>1, Moves

LEMMA MeddleTypes ==
  ASSUME IInv, Meddle
  PROVE  touched' \subseteq Builders /\ meddling' \in 0 .. MaxMeddling /\ faults' = faults
<1>1. touched' \subseteq Builders
  BY DEF IInv, TypeOK, Meddle
<1>2. meddling' \in 0 .. MaxMeddling
  BY BoundsAssumption DEF IInv, TypeOK, Meddle
<1> QED
  BY <1>1, <1>2 DEF Meddle

LEMMA OthersSteps == ASSUME IInv, MoveParent \/ MoveOutput \/ Tamper PROVE IInv'
<1>1. /\ touched' \subseteq Builders /\ meddling' \in 0 .. MaxMeddling /\ faults' = faults
      /\ UNCHANGED <<pc, outcome, local, removed>>
  BY MeddleTypes DEF MoveParent, MoveOutput, Tamper, disk
<1>2. entry' \in [Parents -> Directories \cup {Absent, Foreign}] /\ parentAt' \in Parents
  BY DEF IInv, TypeOK, MoveParent, MoveOutput, Tamper, disk
<1>3. files' \in [Directories -> [Names -> Builders \cup {Absent, Foreign}]]
  <2>1. files \in [Directories -> [Names -> Builders \cup {Absent, Foreign}]]
    BY DEF IInv, TypeOK
  <2>2. \/ UNCHANGED files
        \/ \E d \in Directories, n \in Names, e \in {Absent, Foreign} : files' = [files EXCEPT ![d][n] = e]
    BY DEF MoveParent, MoveOutput, Tamper, disk
  <2> QED
    BY <2>1, <2>2
<1>4. whole' \subseteq Builders \X Names
  BY DEF IInv, TypeOK, MoveParent, MoveOutput, Tamper, disk
<1>5. TypeOK'
  BY <1>1, <1>2, <1>3, <1>4 DEF IInv, TypeOK, local
<1>6. Descriptors'
  BY <1>1 DEF IInv, Descriptors, local
<1> QED
  BY <1>5, <1>6 DEF IInv

-----------------------------------------------------------------------------
\* Every step keeps the types.
LEMMA NextTypes == IInv /\ [Next]_vars => IInv'
<1> SUFFICES ASSUME IInv, [Next]_vars PROVE IInv'
  OBVIOUS
<1>1. ASSUME NEW b \in Builders, Publish(b) PROVE IInv'
  BY <1>1, OpeningSteps, OpenParentStep, OpenOutputStep, MakeDirectoryStep, CreateFileStep,
     FillFileStep, VerifySteps, VerifyFileStep DEF Publish
<1>2. ASSUME NEW b \in Builders, CleanUp(b) PROVE IInv'
  BY <1>2, FailsStep, CheckUnfinishedStep, RemoveFileStep, CheckOwnedStep, InterruptedStep,
     CheckDirectoryStep, RemoveDirectoryStep DEF CleanUp
<1>3. CASE UNCHANGED vars
  BY <1>3 DEF IInv, TypeOK, Descriptors, vars, local, disk, world
<1> QED
  BY <1>1, <1>2, <1>3, KillStep, OthersSteps DEF Next

\* The variables of a publication have their types, whatever builders there are,
\* whatever fails and whatever other programs do: _publish_release_bundle and its
\* roll-back never use a descriptor they do not hold or a name that is no file's.
THEOREM TypeCorrectness == Spec => []TypeOK
<1>1. IInv => TypeOK
  BY DEF IInv
<1> QED
  BY <1>1, InitInvariant, NextTypes, PTL DEF Spec

-----------------------------------------------------------------------------
(* What is proved besides the types, in the order of a publication.          *)

Preparing == {"start", "again", "parent", "match", "probe", "mkdir"}

\* What a builder has not done yet, and that success ends the work.
Fresh(b) ==
  /\ pc[b] \in Preparing => ~created[b]
  /\ pc[b] \in Preparing \cup {"open"} => output[b] = NoDir
  /\ pc[b] \in Opening => identities[b] = {}
  /\ pc[b] \in Opening \cup {"sync", "vparent", "ventry", "vlist"} => next[b] = 1
  /\ pc[b] = "write" /\ next[b] = 1 => identities[b] = {}
  /\ outcome[b] = "success" => pc[b] \in {"abandon", "rmdir", "done", "killed"}

\* The whole bundle is there still, or others disturbed the builder.
Kept(b) == b \in touched \/ \A n \in Bundle(b) : files[output[b]][n] = b

\* Where the file d, n of a builder is, and that the builder remembers it until it
\* removes or reports it: in identities, by its position, or as residual.
Remembers(b, d, n) ==
  /\ d = output[b] /\ n \in Bundle(b)
  /\ pc[b] \notin Opening
  /\ pc[b] \in {"write"} \cup Verifying => n \in identities[b]
  /\ pc[b] \in {"fill", "unfill", "rmfill"} => n \in identities[b] \cup {Current(b)}
  /\ pc[b] = "rollback" => n \in identities[b] \cup residual[b]
  /\ pc[b] = "rmfile" => n \in identities[b] \cup residual[b] \cup {Current(b)}
  /\ pc[b] \in {"abandon", "rmdir", "done"} =>
       \/ n \in residual[b] \/ outcome[b] = "success"
       \/ outcome[b] = "KeyboardInterrupt" /\ Kept(b)

Remembered(b) == \A d \in Directories, n \in Names : files[d][n] = b => Remembers(b, d, n)

\* While other programs keep away, what a builder compared is still so when it
\* acts on it, and its directory is where it made it.
Undisturbed(b) ==
  meddling = 0 =>
    /\ pc[b] \in {"rmfill", "rmfile"} => Name(b) = b
    /\ pc[b] = "open" /\ created[b] => entry[parent[b]] = b
    /\ created[b] /\ output[b] # NoDir => output[b] = b
    /\ pc[b] = "rmdir" => entry[parent[b]] = b
    /\ \A p \in Parents : entry[p] = b =>
         /\ created[b] /\ p = parent[b]
         /\ pc[b] = "done" => Output \in residual[b]

\* The steps at which a builder has the manifest: it is the first file, and made
\* exclusively, so that of the builders in one directory one has it.
Owning(b) == pc[b] \in {"fill"} \cup Verifying \/ (pc[b] = "write" /\ next[b] # 1)

OwnsManifest(b) == meddling = 0 /\ Owning(b) => files[output[b]][Manifest] = b

\* Nothing gets into a directory that was removed.
RemovedAreEmpty == \A d \in removed : Listing(d) = {}

\* Who was not disturbed is alone at work, or nobody meddled.
Alone ==
  \A a, b \in Builders : a # b /\ b \notin touched /\ pc[a] \in Running => meddling = 0

\* What the verification found out so far is still so.
Verified(b) ==
  b \notin touched =>
    /\ pc[b] \in {"ventry", "vlist", "vfile"} => parentAt = parent[b]
    /\ pc[b] \in {"vlist", "vfile"} => Mine(b) \/ output[b] \in removed
    /\ pc[b] = "vfile" =>
         /\ \A n \in Names \ Bundle(b) : files[output[b]][n] = Absent
         /\ \A i \in DOMAIN BuildOrder(b) : i < next[b] =>
              files[output[b]][BuildOrder(b)[i]] = b /\ <<b, BuildOrder(b)[i]>> \in whole
    /\ outcome[b] = "success" =>
         /\ parentAt = parent[b] /\ Mine(b) /\ output[b] \in Directories
         /\ \A n \in Names : files[output[b]][n] = IF n \in Bundle(b) THEN b ELSE Absent
         /\ {b} \X Bundle(b) \subseteq whole

BundleInv ==
  /\ IInv
  /\ \A b \in Builders :
       /\ Fresh(b) /\ Remembered(b) /\ Undisturbed(b) /\ OwnsManifest(b) /\ Verified(b)
  /\ RemovedAreEmpty /\ Alone

\* A builder that has the manifest and all it wrote after it.
Leading(b) ==
  \/ outcome[b] = "success"
  \/ /\ Owning(b)
     /\ parentAt = parent[b] /\ Mine(b)
     /\ \A n \in Names \ Bundle(b) : files[output[b]][n] = Absent
     /\ \A i \in DOMAIN WriteOrder(b) :
          /\ files[output[b]][WriteOrder(b)[i]] =
               IF i < next[b] \/ (i = next[b] /\ pc[b] = "fill") \/ pc[b] \in Verifying
               THEN b ELSE Absent
          /\ i < next[b] \/ pc[b] \in Verifying => <<b, WriteOrder(b)[i]>> \in whole

\* Nobody has written a file: who made a directory is at work in it, and one at
\* least may still come first.
Undecided ==
  /\ \A d \in Directories, n \in Names : files[d][n] = Absent
  /\ removed = {}
  /\ \A p \in Parents : entry[p] # Foreign
  /\ \A b \in Builders :
       /\ pc[b] \in Opening \cup {"write", "abandon", "done"}
       /\ pc[b] \in (Opening \ {"start", "again", "parent"}) \cup {"write"} => parent[b] = parentAt
       /\ created[b] => pc[b] \in {"open", "empty", "bound", "write"}
       /\ pc[b] = "mkdir" => entry[parent[b]] # Existing
       /\ pc[b] = "open" => entry[parent[b]] \in Directories
       /\ pc[b] \in {"empty", "bound", "write"} => Mine(b)
  /\ \E b \in Builders : pc[b] \in Opening \cup {"write"}

\* Without faults a builder leads once there is a file, and ends with success.
Contest == faults = {} => meddling = 0 /\ ((\E b \in Builders : Leading(b)) \/ Undecided)


\* The order of the files: the manifest first and no name twice.
LEMMA Order ==
  ASSUME NEW b \in Builders
  PROVE  /\ WriteOrder(b)[1] = Manifest /\ Manifest \in Bundle(b) /\ Manifest \in Names
         /\ \A i, j \in DOMAIN WriteOrder(b) : WriteOrder(b)[i] = WriteOrder(b)[j] => i = j
         /\ \A n \in Bundle(b) : \E i \in DOMAIN WriteOrder(b) : n = WriteOrder(b)[i]
<1>1. Artifacts[b] \in Seq(STRING) /\ <<Manifest>> \in Seq(STRING) /\ Len(<<Manifest>>) = 1
  BY BundlesAssumption
<1>2. Len(Artifacts[b]) \in Nat /\ DOMAIN Artifacts[b] = 1 .. Len(Artifacts[b])
  BY <1>1, LenProperties
<1>3. /\ Len(WriteOrder(b)) = 1 + Len(Artifacts[b])
      /\ \A i \in 1 .. 1 + Len(Artifacts[b]) :
           WriteOrder(b)[i] = IF i <= 1 THEN <<Manifest>>[i] ELSE Artifacts[b][i - 1]
  BY <1>1, ConcatProperties DEF WriteOrder
<1>4. WriteOrder(b)[1] = Manifest
  BY <1>2, <1>3
<1>5. Manifest \in Bundle(b) /\ Manifest \in Names
  BY <1>4, Positions
<1>6. ASSUME NEW i \in DOMAIN WriteOrder(b), NEW j \in DOMAIN WriteOrder(b),
             WriteOrder(b)[i] = WriteOrder(b)[j]
      PROVE  i = j
  <2>1. i \in 1 .. 1 + Len(Artifacts[b]) /\ j \in 1 .. 1 + Len(Artifacts[b])
    BY <1>3, Positions
  <2>2. \A k \in 1 .. 1 + Len(Artifacts[b]) : k # 1 =>
          /\ k - 1 \in DOMAIN Artifacts[b] /\ WriteOrder(b)[k] = Artifacts[b][k - 1]
    BY <1>2, <1>3
  <2>3. CASE i = 1 \/ j = 1
    BY <1>4, <1>6, <2>1, <2>2, <2>3, BundlesAssumption
  <2>4. CASE i # 1 /\ j # 1
    <3>1. i - 1 = j - 1
      BY <1>6, <2>1, <2>2, <2>4, BundlesAssumption
    <3> QED
      BY <1>2, <2>1, <3>1
  <2> QED
    BY <2>3, <2>4
<1> QED
  BY <1>4, <1>5, <1>6 DEF Bundle

\* A step of a builder, a kill included.
Acts(b) == Publish(b) \/ CleanUp(b) \/ Kill(b)

\* It changes nothing that other builders know ...
Apart(a, b) ==
  /\ pc'[b] = pc[b] /\ outcome'[b] = outcome[b] /\ parent'[b] = parent[b]
  /\ output'[b] = output[b] /\ created'[b] = created[b] /\ next'[b] = next[b]
  /\ identities'[b] = identities[b] /\ residual'[b] = residual[b]
  /\ UNCHANGED world

LEMMA ActsApart ==
  ASSUME IInv, NEW a \in Builders, NEW b \in Builders, a # b, Acts(a)
  PROVE  Apart(a, b)
<1> USE DEF At, Goto, Raise, Leave, local, disk, Apart
<1>1. TypeOK
  BY DEF IInv
<1>2. CASE Preflight(a)
  BY <1>1, <1>2 DEF Preflight, TypeOK
<1>3. CASE OpenParent(a)
  BY <1>1, <1>3 DEF OpenParent, TypeOK
<1>4. CASE MatchParent(a)
  BY <1>1, <1>4 DEF MatchParent, TypeOK
<1>5. CASE Probe(a)
  BY <1>1, <1>5 DEF Probe, TypeOK
<1>6. CASE MakeDirectory(a)
  BY <1>1, <1>6 DEF MakeDirectory, TypeOK
<1>7. CASE OpenOutput(a)
  BY <1>1, <1>7 DEF OpenOutput, TypeOK
<1>8. CASE CheckEmpty(a)
  BY <1>1, <1>8 DEF CheckEmpty, TypeOK
<1>9. CASE CheckBound(a)
  BY <1>1, <1>9 DEF CheckBound, TypeOK
<1>10. CASE CreateFile(a)
  BY <1>1, <1>10 DEF CreateFile, TypeOK
<1>11. CASE FillFile(a)
  BY <1>1, <1>11 DEF FillFile, TypeOK
<1>12. CASE SyncDirectory(a)
  BY <1>1, <1>12 DEF SyncDirectory, TypeOK
<1>13. CASE VerifyParent(a)
  BY <1>1, <1>13 DEF VerifyParent, TypeOK
<1>14. CASE VerifyEntry(a)
  BY <1>1, <1>14 DEF VerifyEntry, TypeOK
<1>15. CASE VerifyListing(a)
  BY <1>1, <1>15 DEF VerifyListing, TypeOK
<1>16. CASE VerifyFile(a)
  BY <1>1, <1>16 DEF VerifyFile, TypeOK
<1>17. CASE Fails(a)
  BY <1>1, <1>17 DEF Fails, TypeOK
<1>18. CASE CheckUnfinished(a)
  BY <1>1, <1>18 DEF CheckUnfinished, TypeOK
<1>19. CASE RemoveUnfinished(a)
  BY <1>1, <1>19 DEF RemoveUnfinished, TypeOK
<1>20. CASE CheckOwned(a)
  BY <1>1, <1>20 DEF CheckOwned, TypeOK
<1>21. CASE RemoveOwned(a)
  BY <1>1, <1>21 DEF RemoveOwned, TypeOK
<1>22. CASE CleanUpInterrupted(a)
  BY <1>1, <1>22 DEF CleanUpInterrupted, TypeOK
<1>23. CASE CheckDirectory(a)
  BY <1>1, <1>23 DEF CheckDirectory, TypeOK
<1>24. CASE RemoveDirectory(a)
  BY <1>1, <1>24 DEF RemoveDirectory, TypeOK
<1>25. CASE Kill(a)
  BY <1>1, <1>25 DEF Kill, TypeOK
<1> QED
  BY <1>2, <1>3, <1>4, <1>5, <1>6, <1>7, <1>8, <1>9, <1>10, <1>11, <1>12, <1>13,
     <1>14, <1>15, <1>16, <1>17, <1>18, <1>19, <1>20, <1>21, <1>22, <1>23, <1>24,
     <1>25 DEF Acts, Publish, CleanUp

\* ... and of the disk, one entry at a time: it makes a directory where nothing is,
\* a file where none is and the directory is not removed, or removes what it looked at.
Disk(a) ==
  /\ \A d \in Directories, n \in Names :
       \/ files'[d][n] = files[d][n]
       \/ /\ d = output[a] /\ n = Current(a)
          /\ \/ /\ pc[a] = "write" /\ pc'[a] = "fill" /\ d \notin removed
                /\ files[d][n] = Absent /\ files'[d][n] = a
             \/ /\ pc[a] \in {"rmfill", "rmfile"} /\ pc'[a] = "rollback"
                /\ files'[d][n] = Absent
  /\ \A p \in Parents :
       \/ entry'[p] = entry[p]
       \/ /\ p = parent[a]
          /\ \/ /\ pc[a] = "mkdir" /\ pc'[a] = "open" /\ created'[a]
                /\ entry[p] = Absent /\ entry'[p] = a
             \/ /\ pc[a] = "rmdir" /\ pc'[a] = "done" /\ entry'[p] = Absent
                /\ entry[p] \in removed'
  /\ whole \subseteq whole' /\ removed \subseteq removed'
  /\ \A d \in removed' \ removed :
       /\ pc[a] = "rmdir" /\ pc'[a] = "done" /\ d = entry[parent[a]]
       /\ d \in Directories /\ Listing(d) = {}

LEMMA ActsOnDisk ==
  ASSUME IInv, NEW a \in Builders, Acts(a)
  PROVE  Disk(a)
<1> USE DEF At, Goto, Raise, Disk, disk
<1>1. TypeOK
  BY DEF IInv
<1>2. CASE Preflight(a)
  BY <1>1, <1>2 DEF Preflight
<1>3. CASE OpenParent(a)
  BY <1>1, <1>3 DEF OpenParent
<1>4. CASE MatchParent(a)
  BY <1>1, <1>4 DEF MatchParent
<1>5. CASE Probe(a)
  BY <1>1, <1>5 DEF Probe
<1>6. CASE MakeDirectory(a)
  BY <1>1, <1>6 DEF MakeDirectory, TypeOK
<1>7. CASE OpenOutput(a)
  BY <1>1, <1>7 DEF OpenOutput
<1>8. CASE CheckEmpty(a)
  BY <1>1, <1>8 DEF CheckEmpty
<1>9. CASE CheckBound(a)
  BY <1>1, <1>9 DEF CheckBound
<1>10. CASE CreateFile(a)
  BY <1>1, <1>10 DEF CreateFile, Name, TypeOK
<1>11. CASE FillFile(a)
  BY <1>1, <1>11 DEF FillFile
<1>12. CASE SyncDirectory(a)
  BY <1>1, <1>12 DEF SyncDirectory
<1>13. CASE VerifyParent(a)
  BY <1>1, <1>13 DEF VerifyParent
<1>14. CASE VerifyEntry(a)
  BY <1>1, <1>14 DEF VerifyEntry
<1>15. CASE VerifyListing(a)
  BY <1>1, <1>15 DEF VerifyListing
<1>16. CASE VerifyFile(a)
  BY <1>1, <1>16 DEF VerifyFile
<1>17. CASE Fails(a)
  BY <1>1, <1>17 DEF Fails
<1>18. CASE CheckUnfinished(a)
  BY <1>1, <1>18 DEF CheckUnfinished
<1>19. CASE RemoveUnfinished(a)
  BY <1>1, <1>19 DEF RemoveUnfinished, Unlink, TypeOK
<1>20. CASE CheckOwned(a)
  BY <1>1, <1>20 DEF CheckOwned
<1>21. CASE RemoveOwned(a)
  BY <1>1, <1>21 DEF RemoveOwned, Unlink, TypeOK
<1>22. CASE CleanUpInterrupted(a)
  BY <1>1, <1>22 DEF CleanUpInterrupted
<1>23. CASE CheckDirectory(a)
  BY <1>1, <1>23 DEF CheckDirectory
<1>24. CASE RemoveDirectory(a)
  BY <1>1, <1>24 DEF RemoveDirectory, TypeOK
<1>25. CASE Kill(a)
  BY <1>1, <1>25 DEF Kill
<1> QED
  BY <1>2, <1>3, <1>4, <1>5, <1>6, <1>7, <1>8, <1>9, <1>10, <1>11, <1>12, <1>13,
     <1>14, <1>15, <1>16, <1>17, <1>18, <1>19, <1>20, <1>21, <1>22, <1>23, <1>24,
     <1>25 DEF Acts, Publish, CleanUp

-----------------------------------------------------------------------------
(* What a builder's steps leave another builder.                             *)

\* Nobody else makes a file a builder's, and while other programs keep away nobody
\* else takes it or a directory it made.
LEMMA OthersFiles ==
  ASSUME BundleInv, NEW a \in Builders, NEW b \in Builders, a # b, Acts(a)
  PROVE  /\ \A d \in Directories, n \in Names : files'[d][n] = b => files[d][n] = b
         /\ meddling = 0 =>
              /\ \A d \in Directories, n \in Names : files[d][n] = b => files'[d][n] = b
              /\ \A p \in Parents : entry'[p] = b <=> entry[p] = b
<1>1. IInv /\ Undisturbed(a) /\ Disk(a)
  BY ActsOnDisk DEF BundleInv
<1>2. \A d \in Directories, n \in Names : files'[d][n] = b => files[d][n] = b
  BY <1>1, EntriesAssumption DEF Disk
<1>3. ASSUME meddling = 0, NEW d \in Directories, NEW n \in Names, files[d][n] = b
      PROVE  files'[d][n] = b
  BY <1>1, <1>3, EntriesAssumption DEF Disk, Undisturbed, Name
<1>4. ASSUME meddling = 0, NEW p \in Parents PROVE entry'[p] = b <=> entry[p] = b
  BY <1>1, <1>4, EntriesAssumption DEF Disk, Undisturbed
<1> QED
  BY <1>2, <1>3, <1>4

\* Whoever acts is running, so that nobody meddled if another is undisturbed.
LEMMA ActsRunning == ASSUME NEW a \in Builders, Acts(a) PROVE pc[a] \in Running
BY DEF Acts, Publish, CleanUp, Preflight, OpenParent, MatchParent, Probe, MakeDirectory,
   OpenOutput, CheckEmpty, CheckBound, CreateFile, FillFile, SyncDirectory, VerifyParent,
   VerifyEntry, VerifyListing, VerifyFile, Fails, CheckUnfinished, RemoveUnfinished,
   CheckOwned, RemoveOwned, CleanUpInterrupted, CheckDirectory, RemoveDirectory, Kill, At

LEMMA ActsAlone ==
  ASSUME BundleInv, NEW a \in Builders, NEW b \in Builders, a # b, Acts(a), b \notin touched
  PROVE  meddling = 0
BY ActsRunning DEF BundleInv, Alone

\* Where a builder has the manifest another one takes only what is its own.
LEMMA NoIntruder ==
  ASSUME BundleInv, NEW a \in Builders, NEW b \in Builders, a # b, Acts(a), meddling = 0,
         output[b] \in Directories, files[output[b]][Manifest] = b, NEW n \in Names
  PROVE  \/ files'[output[b]][n] = files[output[b]][n]
         \/ files[output[b]][n] = a /\ files'[output[b]][n] = Absent
<1>1. Disk(a) /\ Undisturbed(a) /\ OwnsManifest(a)
  BY ActsOnDisk DEF BundleInv
<1>2. ASSUME output[a] = output[b], pc[a] = "write", n = Current(a)
      PROVE  files[output[b]][n] # Absent
  <2>1. next[a] = 1
    BY <1>1, <1>2 DEF OwnsManifest, Owning
  <2> QED
    BY <1>2, <2>1, Order, EntriesAssumption DEF Current
<1> QED
  BY <1>1, <1>2 DEF Disk, Undisturbed, Name

LEMMA OthersInvariant ==
  ASSUME BundleInv, NEW a \in Builders, NEW b \in Builders, a # b, Acts(a)
  PROVE  /\ Fresh(b)' /\ Remembered(b)' /\ Undisturbed(b)' /\ OwnsManifest(b)'
         /\ Verified(b)'
<1>1. /\ IInv /\ TypeOK /\ Descriptors /\ Fresh(b) /\ Remembered(b) /\ Undisturbed(b)
      /\ OwnsManifest(b) /\ Verified(b) /\ RemovedAreEmpty
  BY DEF BundleInv, IInv
<1>2. Apart(a, b) /\ Disk(a)
  BY <1>1, ActsApart, ActsOnDisk
<1>3. Fresh(b)'
  BY <1>1, <1>2 DEF Apart, Fresh
<1>4. Current(b)' = Current(b)
  BY <1>2 DEF Apart, Current
<1>5. Kept(b) /\ (b \notin touched => output[b] \in Directories) => Kept(b)'
  BY <1>2, OthersFiles, ActsAlone, Positions DEF Apart, Kept, world
<1>6. Remembered(b)'
  BY <1>1, <1>2, <1>4, <1>5, OthersFiles DEF Apart, Remembered, Remembers
<1>7. Undisturbed(b)'
  <2> SUFFICES ASSUME meddling' = 0 PROVE Undisturbed(b)'
    BY DEF Undisturbed
  <2>1. meddling = 0
    BY <1>2 DEF Apart, world
  <2>2. pc[b] \in {"rmfill", "rmfile"} => output[b] \in Directories /\ Current(b) \in Names
    BY <1>1, CurrentIsNamed DEF Descriptors
  <2>3. created[b] => parent[b] \in Parents
    BY <1>1 DEF Descriptors
  <2>4. pc[b] = "rmdir" => created[b]
    BY <1>1 DEF Descriptors
  <2> QED
    BY <1>1, <1>2, <1>4, <2>1, <2>2, <2>3, <2>4, OthersFiles DEF Apart, Undisturbed, Name
<1>8. OwnsManifest(b)'
  <2>1. Owning(b) => output[b] \in Directories
    BY <1>1 DEF Owning, Descriptors
  <2> QED
    BY <1>1, <1>2, <2>1, OthersFiles, Order DEF Apart, OwnsManifest, Owning, world
<1>9. Verified(b)'
  <2> SUFFICES ASSUME b \notin touched' PROVE Verified(b)'
    BY DEF Verified
  <2>1. b \notin touched /\ UNCHANGED world /\ meddling = 0
    BY <1>2, ActsAlone DEF Apart, world
  <2>2. pc[b] \in Verifying =>
          output[b] \in Directories /\ output[b] # Absent /\ parent[b] \in Parents
    BY <1>1, EntriesAssumption DEF Descriptors, Directories
  <2>3. pc[b] \in {"ventry", "vlist", "vfile"} => parentAt' = parent'[b]
    BY <1>1, <1>2, <2>1 DEF Apart, Verified, world
  <2>4. pc[b] \in {"vlist", "vfile"} => Mine(b)' \/ output'[b] \in removed'
    <3> SUFFICES ASSUME pc[b] \in {"vlist", "vfile"}, ~(output'[b] \in removed') PROVE Mine(b)'
      BY <1>2 DEF Apart
    <3>1. output'[b] = output[b] /\ parent'[b] = parent[b] /\ pc[b] \in {"vlist", "vfile"}
      BY <1>2 DEF Apart
    <3>2. entry[parent[b]] = output[b] /\ output[b] \notin removed'
      BY <1>1, <1>2, <2>1, <3>1 DEF Disk, Verified, Mine
    <3> QED
      BY <1>2, <2>2, <3>1, <3>2 DEF Disk, Mine
  <2>5. CASE pc[b] = "vfile"
    <3>1. files[output[b]][Manifest] = b
      BY <1>1, <2>1, <2>5 DEF OwnsManifest, Owning
    <3>2. \A n \in Names : \/ files'[output[b]][n] = files[output[b]][n]
                           \/ files[output[b]][n] = a /\ files'[output[b]][n] = Absent
      BY <2>1, <2>2, <2>5, <3>1, NoIntruder
    <3>3. \A n \in Names \ Bundle(b) : files'[output[b]][n] = Absent
      BY <1>1, <2>1, <2>5, <3>2 DEF Verified
    <3>4. \A i \in DOMAIN BuildOrder(b) : i < next[b] =>
            files'[output[b]][BuildOrder(b)[i]] = b /\ <<b, BuildOrder(b)[i]>> \in whole'
      BY <1>1, <1>2, <2>1, <2>5, <3>2, Positions, BothOrders DEF Verified, Disk
    <3>5. outcome[b] # "success"
      BY <1>1, <2>5 DEF Fresh
    <3> QED
      BY <1>2, <2>3, <2>4, <2>5, <3>3, <3>4, <3>5 DEF Verified, Apart
  <2>6. CASE outcome[b] = "success"
    <3>1. /\ parentAt = parent[b] /\ Mine(b) /\ output[b] \in Directories
          /\ \A n \in Names : files[output[b]][n] = IF n \in Bundle(b) THEN b ELSE Absent
          /\ {b} \X Bundle(b) \subseteq whole
      BY <1>1, <2>1, <2>6 DEF Verified
    <3>2. files[output[b]][Manifest] = b /\ output[b] # Absent /\ parent[b] \in Parents
      BY <1>1, <3>1, Order, EntriesAssumption DEF Directories, TypeOK
    <3>3. \A n \in Names : files'[output[b]][n] = IF n \in Bundle(b) THEN b ELSE Absent
      BY <2>1, <3>1, <3>2, NoIntruder, EntriesAssumption
    <3>4. output[b] \notin removed'
      <4>1. Manifest \in Listing(output[b])
        BY <3>2, Order, EntriesAssumption DEF Listing
      <4> QED
        BY <1>1, <1>2, <4>1 DEF Disk, RemovedAreEmpty
    <3>5. Mine(b)'
      BY <1>2, <3>1, <3>2, <3>4 DEF Apart, Disk, Mine
    <3>6. pc[b] \notin Verifying
      BY <1>1, <2>6 DEF Fresh
    <3> QED
      BY <1>2, <2>1, <2>6, <3>1, <3>3, <3>5, <3>6 DEF Verified, Apart, Disk, world
  <2>7. CASE pc[b] # "vfile" /\ outcome[b] # "success"
    BY <1>2, <2>3, <2>4, <2>7 DEF Verified, Apart
  <2> QED
    BY <2>5, <2>6, <2>7
<1> QED
  BY <1>3, <1>6, <1>7, <1>8, <1>9

-----------------------------------------------------------------------------
(* What its own steps keep.                                                  *)


\* Its own steps keep the order of the work ...
LEMMA OwnFresh ==
  ASSUME BundleInv, NEW b \in Builders, Acts(b)
  PROVE  Fresh(b)'
<1> USE DEF At, Goto, Raise, Leave, local, Fresh, Preparing, TypeOK
<1>1. TypeOK /\ Fresh(b)
  BY DEF BundleInv, IInv
<1>2. CASE Preflight(b)
  BY <1>1, <1>2 DEF Preflight
<1>3. CASE OpenParent(b)
  BY <1>1, <1>3 DEF OpenParent
<1>4. CASE MatchParent(b)
  BY <1>1, <1>4 DEF MatchParent
<1>5. CASE Probe(b)
  BY <1>1, <1>5 DEF Probe
<1>6. CASE MakeDirectory(b)
  BY <1>1, <1>6 DEF MakeDirectory
<1>7. CASE OpenOutput(b)
  BY <1>1, <1>7 DEF OpenOutput
<1>8. CASE CheckEmpty(b)
  BY <1>1, <1>8 DEF CheckEmpty
<1>9. CASE CheckBound(b)
  BY <1>1, <1>9 DEF CheckBound
<1>10. CASE CreateFile(b)
  BY <1>1, <1>10 DEF CreateFile
<1>11. CASE FillFile(b)
  BY <1>1, <1>11 DEF FillFile
<1>12. CASE SyncDirectory(b)
  BY <1>1, <1>12 DEF SyncDirectory
<1>13. CASE VerifyParent(b)
  BY <1>1, <1>13 DEF VerifyParent
<1>14. CASE VerifyEntry(b)
  BY <1>1, <1>14 DEF VerifyEntry
<1>15. CASE VerifyListing(b)
  BY <1>1, <1>15 DEF VerifyListing
<1>16. CASE VerifyFile(b)
  BY <1>1, <1>16 DEF VerifyFile
<1>17. CASE Fails(b)
  BY <1>1, <1>17 DEF Fails
<1>18. CASE CheckUnfinished(b)
  BY <1>1, <1>18 DEF CheckUnfinished
<1>19. CASE RemoveUnfinished(b)
  BY <1>1, <1>19 DEF RemoveUnfinished
<1>20. CASE CheckOwned(b)
  BY <1>1, <1>20 DEF CheckOwned
<1>21. CASE RemoveOwned(b)
  BY <1>1, <1>21 DEF RemoveOwned
<1>22. CASE CleanUpInterrupted(b)
  BY <1>1, <1>22 DEF CleanUpInterrupted
<1>23. CASE CheckDirectory(b)
  BY <1>1, <1>23 DEF CheckDirectory
<1>24. CASE RemoveDirectory(b)
  BY <1>1, <1>24 DEF RemoveDirectory
<1>25. CASE Kill(b)
  BY <1>1, <1>25 DEF Kill
<1> QED
  BY <1>2, <1>3, <1>4, <1>5, <1>6, <1>7, <1>8, <1>9, <1>10, <1>11, <1>12, <1>13, <1>14,
     <1>15, <1>16, <1>17, <1>18, <1>19, <1>20, <1>21, <1>22, <1>23, <1>24, <1>25
     DEF Acts, Publish, CleanUp

\* ... the manifest, until it rolls back ...
LEMMA OwnManifest ==
  ASSUME BundleInv, NEW b \in Builders, Acts(b)
  PROVE  OwnsManifest(b)'
<1> USE DEF At, Goto, Raise, Leave, local, disk, world, OwnsManifest, Owning, TypeOK, Unlink
<1>1. TypeOK /\ OwnsManifest(b) /\ Fresh(b) /\ Manifest \in Names
  BY Order DEF BundleInv, IInv
<1>2. CASE Preflight(b)
  BY <1>1, <1>2 DEF Preflight
<1>3. CASE OpenParent(b)
  BY <1>1, <1>3 DEF OpenParent
<1>4. CASE MatchParent(b)
  BY <1>1, <1>4 DEF MatchParent
<1>5. CASE Probe(b)
  BY <1>1, <1>5 DEF Probe
<1>6. CASE MakeDirectory(b)
  BY <1>1, <1>6 DEF MakeDirectory
<1>7. CASE OpenOutput(b)
  BY <1>1, <1>7 DEF OpenOutput
<1>8. CASE CheckEmpty(b)
  BY <1>1, <1>8 DEF CheckEmpty
<1>9. CASE CheckBound(b)
  <2>1. pc'[b] \in {"write", "abandon"} /\ next'[b] = 1
    BY <1>1, <1>9 DEF CheckBound, Fresh
  <2> QED
    BY <2>1
<1>10. CASE CreateFile(b)
  <2>1. CASE pc'[b] = "fill"
    <3>1. output[b] \in Directories /\ Current(b) \in Names
      BY <1>10, CurrentIsNamed DEF CreateFile, BundleInv, IInv, Descriptors
    <3>2. /\ next' = next /\ output' = output /\ meddling' = meddling
          /\ files' = [files EXCEPT ![output[b]][Current(b)] = b]
      BY <1>1, <1>10, <2>1 DEF CreateFile
    <3>3. next[b] = 1 => Current(b) = Manifest
      BY Order DEF Current
    <3>4. meddling = 0 /\ next[b] # 1 => files[output[b]][Manifest] = b
      BY <1>1, <1>10 DEF CreateFile
    <3> QED
      BY <1>1, <3>1, <3>2, <3>3, <3>4
  <2>2. CASE pc'[b] # "fill"
    <3>1. pc'[b] = "rollback"
      BY <1>1, <1>10, <2>2 DEF CreateFile
    <3> QED
      BY <3>1
  <2> QED
    BY <2>1, <2>2
<1>11. CASE FillFile(b)
  BY <1>1, <1>11 DEF FillFile
<1>12. CASE SyncDirectory(b)
  BY <1>1, <1>12 DEF SyncDirectory
<1>13. CASE VerifyParent(b)
  BY <1>1, <1>13 DEF VerifyParent
<1>14. CASE VerifyEntry(b)
  BY <1>1, <1>14 DEF VerifyEntry
<1>15. CASE VerifyListing(b)
  BY <1>1, <1>15 DEF VerifyListing
<1>16. CASE VerifyFile(b)
  BY <1>1, <1>16 DEF VerifyFile
<1>17. CASE Fails(b)
  BY <1>1, <1>17 DEF Fails
<1>18. CASE CheckUnfinished(b)
  BY <1>1, <1>18 DEF CheckUnfinished
<1>19. CASE RemoveUnfinished(b)
  BY <1>1, <1>19 DEF RemoveUnfinished
<1>20. CASE CheckOwned(b)
  BY <1>1, <1>20 DEF CheckOwned
<1>21. CASE RemoveOwned(b)
  BY <1>1, <1>21 DEF RemoveOwned
<1>22. CASE CleanUpInterrupted(b)
  BY <1>1, <1>22 DEF CleanUpInterrupted
<1>23. CASE CheckDirectory(b)
  BY <1>1, <1>23 DEF CheckDirectory
<1>24. CASE RemoveDirectory(b)
  BY <1>1, <1>24 DEF RemoveDirectory
<1>25. CASE Kill(b)
  BY <1>1, <1>25 DEF Kill
<1> QED
  BY <1>2, <1>3, <1>4, <1>5, <1>6, <1>7, <1>8, <1>9, <1>10, <1>11, <1>12, <1>13, <1>14,
     <1>15, <1>16, <1>17, <1>18, <1>19, <1>20, <1>21, <1>22, <1>23, <1>24, <1>25
     DEF Acts, Publish, CleanUp

\* ... what it remembers of its files ...
LEMMA OwnMemory ==
  ASSUME BundleInv, NEW b \in Builders, Acts(b)
  PROVE  Remembered(b)'
<1> USE DEF At, Goto, Raise, Leave, local, disk, world, TypeOK, Remembers
<1> SUFFICES ASSUME NEW d \in Directories, NEW n \in Names, files'[d][n] = b
             PROVE  Remembers(b, d, n)'
  BY DEF Remembered
<1>1. /\ TypeOK /\ Fresh(b) /\ Current(b) \in Bundle(b)
      /\ \/ files[d][n] = b /\ Remembers(b, d, n)
         \/ pc[b] = "write" /\ pc'[b] = "fill" /\ d = output[b] /\ n = Current(b)
  BY ActsOnDisk, CurrentIsNamed, EntriesAssumption DEF BundleInv, IInv, Disk, Remembered
<1>2. CASE Preflight(b)
  BY <1>1, <1>2 DEF Preflight
<1>3. CASE OpenParent(b)
  BY <1>1, <1>3 DEF OpenParent
<1>4. CASE MatchParent(b)
  BY <1>1, <1>4 DEF MatchParent
<1>5. CASE Probe(b)
  BY <1>1, <1>5 DEF Probe
<1>6. CASE MakeDirectory(b)
  BY <1>1, <1>6 DEF MakeDirectory
<1>7. CASE OpenOutput(b)
  BY <1>1, <1>7 DEF OpenOutput, Descriptors
<1>8. CASE CheckEmpty(b)
  BY <1>1, <1>8 DEF CheckEmpty
<1>9. CASE CheckBound(b)
  BY <1>1, <1>9 DEF CheckBound
<1>10. CASE CreateFile(b)
  BY <1>1, <1>10 DEF CreateFile, Current
<1>11. CASE FillFile(b)
  <2>1. files[d][n] = b /\ d = output[b] /\ n \in Bundle(b) /\ n \in identities'[b]
    BY <1>1, <1>11 DEF FillFile
  <2>2. pc'[b] \in {"write", "sync"} /\ output' = output
    BY <1>1, <1>11 DEF FillFile
  <2> QED
    BY <2>1, <2>2
<1>12. CASE SyncDirectory(b)
  BY <1>1, <1>12 DEF SyncDirectory
<1>13. CASE VerifyParent(b)
  BY <1>1, <1>13 DEF VerifyParent
<1>14. CASE VerifyEntry(b)
  BY <1>1, <1>14 DEF VerifyEntry
<1>15. CASE VerifyListing(b)
  BY <1>1, <1>15 DEF VerifyListing
<1>16. CASE VerifyFile(b)
  BY <1>1, <1>16 DEF VerifyFile, Current
<1>17. CASE Fails(b)
  <2>1. files[d][n] = b /\ Remembers(b, d, n) /\ UNCHANGED <<output, identities, next>>
    BY <1>1, <1>17 DEF Fails
  <2>2. Current(b)' = Current(b) /\ pc[b] \notin Opening
    BY <2>1 DEF Current
  <2>3. CASE pc[b] = "write" /\ next[b] = 1
    BY <1>1, <2>1, <2>3 DEF Fresh
  <2>4. CASE pc[b] \in {"write"} \cup Verifying /\ ~(pc[b] = "write" /\ next[b] = 1)
    <3>1. pc'[b] = "rollback"
      BY <1>1, <1>17, <2>4 DEF Fails
    <3> QED
      BY <2>1, <2>4, <3>1
  <2>5. CASE pc[b] = "fill"
    <3>1. \/ pc'[b] = "unfill"
          \/ pc'[b] = "rollback" /\ Current(b) \in residual'[b]
      BY <1>1, <1>17, <2>5 DEF Fails
    <3> QED
      BY <2>1, <2>2, <2>5, <3>1
  <2> QED
    BY <1>17, <2>2, <2>3, <2>4, <2>5 DEF Fails
<1>18. CASE CheckUnfinished(b)
  <2>1. /\ files[d][n] = b /\ d = output[b] /\ n \in Bundle(b)
        /\ n \in identities[b] \cup {Current(b)}
    BY <1>1, <1>18 DEF CheckUnfinished
  <2>2. /\ \/ pc'[b] = "rmfill"
           \/ pc'[b] = "rollback" /\ Name(b) # b
        /\ output' = output /\ identities' = identities /\ Current(b)' = Current(b)
    BY <1>1, <1>18 DEF CheckUnfinished, Current
  <2> QED
    BY <2>1, <2>2 DEF Name
<1>19. CASE RemoveUnfinished(b)
  <2>1. /\ files[d][n] = b /\ d = output[b] /\ n \in Bundle(b)
        /\ n \in identities[b] \cup {Current(b)}
    BY <1>1, <1>19 DEF RemoveUnfinished
  <2>2. /\ pc'[b] = "rollback" /\ output' = output /\ identities' = identities
        /\ \/ files' = [files EXCEPT ![output[b]][Current(b)] = Absent]
           \/ Current(b) \in residual'[b]
    BY <1>1, <1>19 DEF RemoveUnfinished, Unlink
  <2>3. n # Current(b) \/ Current(b) \in residual'[b]
    BY <1>1, <2>1, <2>2, EntriesAssumption
  <2> QED
    BY <2>1, <2>2, <2>3
<1>20. CASE CheckOwned(b)
  <2>1. /\ files[d][n] = b /\ d = output[b] /\ n \in Bundle(b)
        /\ n \in identities[b] \cup residual[b]
    BY <1>1, <1>20 DEF CheckOwned
  <2>2. output' = output /\ residual' = residual
    BY <1>20 DEF CheckOwned
  <2>3. CASE identities[b] = {}
    <3>1. pc'[b] = "abandon"
      BY <1>1, <1>20, <2>3 DEF CheckOwned
    <3> QED
      BY <2>1, <2>2, <2>3, <3>1
  <2>4. CASE identities[b] # {}
    <3>1. PICK i \in DOMAIN WriteOrder(b) :
            /\ identities' = [identities EXCEPT ![b] = @ \ {WriteOrder(b)[i]}]
            /\ next' = [next EXCEPT ![b] = i]
            /\ Goto(b, IF files[output[b]][WriteOrder(b)[i]] = b THEN "rmfile" ELSE "rollback")
      BY <1>20, <2>4 DEF CheckOwned
    <3>2. identities'[b] = identities[b] \ {WriteOrder(b)[i]} /\ Current(b)' = WriteOrder(b)[i]
      BY <1>1, <3>1 DEF Current
    <3>3. \/ pc'[b] = "rmfile"
          \/ pc'[b] = "rollback" /\ files[output[b]][WriteOrder(b)[i]] # b
      BY <1>1, <3>1
    <3> QED
      BY <2>1, <2>2, <3>2, <3>3
  <2> QED
    BY <2>3, <2>4
<1>21. CASE RemoveOwned(b)
  <2>1. /\ files[d][n] = b /\ d = output[b] /\ n \in Bundle(b)
        /\ n \in identities[b] \cup residual[b] \cup {Current(b)}
    BY <1>1, <1>21 DEF RemoveOwned
  <2>2. /\ pc'[b] = "rollback" /\ output' = output /\ identities' = identities
        /\ residual[b] \subseteq residual'[b]
        /\ \/ files' = [files EXCEPT ![output[b]][Current(b)] = Absent]
           \/ Current(b) \in residual'[b]
    BY <1>1, <1>21 DEF RemoveOwned, Unlink
  <2>3. n # Current(b) \/ Current(b) \in residual'[b]
    BY <1>1, <2>1, <2>2, EntriesAssumption
  <2> QED
    BY <2>1, <2>2, <2>3
<1>22. CASE CleanUpInterrupted(b)
  <2>1. files[d][n] = b /\ Remembers(b, d, n) /\ output' = output /\ UNCHANGED <<touched, files>>
    BY <1>1, <1>22 DEF CleanUpInterrupted
  <2>2. CASE pc[b] \in RollingBack
    <3>1. /\ pc'[b] = "abandon"
          /\ residual'[b] = residual[b] \cup identities[b]
                              \cup (IF pc[b] = "rollback" THEN {} ELSE {Current(b)})
      BY <1>1, <1>22, <2>2 DEF CleanUpInterrupted
    <3>2. n \in residual'[b]
      BY <2>1, <2>2, <3>1
    <3> QED
      BY <2>1, <3>1, <3>2
  <2>3. CASE pc[b] \in {"abandon", "rmdir"}
    <3>1. /\ pc'[b] = "done" /\ outcome'[b] = "KeyboardInterrupt"
          /\ residual[b] \subseteq residual'[b]
      BY <1>1, <1>22, <2>3 DEF CleanUpInterrupted
    <3>2. outcome[b] = "success" => Kept(b)
      <4>1. Verified(b) /\ Bundle(b) \subseteq Names
        BY Positions DEF BundleInv
      <4> QED
        BY <4>1 DEF Verified, Kept
    <3>3. Kept(b)' <=> Kept(b)
      BY <2>1 DEF Kept
    <3> QED
      BY <2>1, <2>3, <3>1, <3>2, <3>3
  <2> QED
    BY <1>22, <2>2, <2>3 DEF CleanUpInterrupted
<1>23. CASE CheckDirectory(b)
  <2>1. /\ files[d][n] = b /\ Remembers(b, d, n) /\ UNCHANGED <<touched, files, output, outcome>>
        /\ pc[b] = "abandon" /\ pc'[b] \in {"rmdir", "done"} /\ residual[b] \subseteq residual'[b]
    BY <1>1, <1>23 DEF CheckDirectory
  <2>2. Kept(b)' <=> Kept(b)
    BY <2>1 DEF Kept
  <2> QED
    BY <2>1, <2>2
<1>24. CASE RemoveDirectory(b)
  <2>1. /\ files[d][n] = b /\ Remembers(b, d, n) /\ UNCHANGED <<touched, files, output, outcome>>
        /\ pc[b] = "rmdir" /\ pc'[b] = "done" /\ residual[b] \subseteq residual'[b]
    BY <1>1, <1>24 DEF RemoveDirectory
  <2>2. Kept(b)' <=> Kept(b)
    BY <2>1 DEF Kept
  <2> QED
    BY <2>1, <2>2
<1>25. CASE Kill(b)
  BY <1>1, <1>25 DEF Kill
<1> QED
  BY <1>2, <1>3, <1>4, <1>5, <1>6, <1>7, <1>8, <1>9, <1>10, <1>11, <1>12, <1>13, <1>14,
     <1>15, <1>16, <1>17, <1>18, <1>19, <1>20, <1>21, <1>22, <1>23, <1>24, <1>25
     DEF Acts, Publish, CleanUp


LEMMA ActsWorld == ASSUME NEW b \in Builders, Acts(b) PROVE UNCHANGED world
BY DEF Acts, Publish, CleanUp, Preflight, OpenParent, MatchParent, Probe, MakeDirectory,
     OpenOutput, CheckEmpty, CheckBound, CreateFile, FillFile, SyncDirectory, VerifyParent,
     VerifyEntry, VerifyListing, VerifyFile, Fails, CheckUnfinished, RemoveUnfinished,
     CheckOwned, RemoveOwned, CleanUpInterrupted, CheckDirectory, RemoveDirectory, Kill

\* ... what it compared, until it acts on it ...
LEMMA OwnUndisturbed ==
  ASSUME BundleInv, NEW b \in Builders, Acts(b)
  PROVE  Undisturbed(b)'
<1> USE DEF At, Goto, Raise, Leave, local, disk, world, Undisturbed, TypeOK, Preparing
<1>1. /\ TypeOK /\ Fresh(b) /\ Undisturbed(b) /\ b \in Directories /\ b # NoDir /\ b # Absent
      /\ pc[b] \in {"open", "rmdir"} => parent[b] \in Parents
      /\ created[b] => parent[b] \in Parents
  BY EntriesAssumption DEF BundleInv, IInv, Descriptors, Directories
<1> USE DEF Fresh
<1>2. CASE Preflight(b)
  BY <1>1, <1>2 DEF Preflight
<1>3. CASE OpenParent(b)
  BY <1>1, <1>3 DEF OpenParent
<1>4. CASE MatchParent(b)
  BY <1>1, <1>4 DEF MatchParent
<1>5. CASE Probe(b)
  BY <1>1, <1>5 DEF Probe
<1>6. CASE MakeDirectory(b)
  <2>1. CASE entry[parent[b]] = Absent
    <3>1. /\ entry' = [entry EXCEPT ![parent[b]] = b] /\ created'[b] /\ pc'[b] = "open"
          /\ UNCHANGED <<parent, output, world>> /\ parent[b] \in Parents
      BY <1>1, <1>6, <2>1 DEF MakeDirectory, BundleInv, IInv, Descriptors
    <3>2. \A p \in Parents : entry[p] = b => FALSE \/ meddling # 0
      BY <1>1, <1>6 DEF MakeDirectory
    <3>3. output'[b] = NoDir
      BY <1>1, <1>6, <3>1 DEF MakeDirectory
    <3> QED
      BY <1>1, <3>1, <3>2, <3>3
  <2>2. CASE entry[parent[b]] # Absent
    <3>1. pc'[b] = "abandon" /\ UNCHANGED <<entry, parent, output, created, world>>
      BY <1>1, <1>6, <2>2 DEF MakeDirectory
    <3> QED
      BY <1>1, <3>1
  <2> QED
    BY <2>1, <2>2
<1>7. CASE OpenOutput(b)
  BY <1>1, <1>7 DEF OpenOutput
<1>8. CASE CheckEmpty(b)
  BY <1>1, <1>8 DEF CheckEmpty
<1>9. CASE CheckBound(b)
  BY <1>1, <1>9 DEF CheckBound
<1>10. CASE CreateFile(b)
  BY <1>1, <1>10 DEF CreateFile
<1>11. CASE FillFile(b)
  BY <1>1, <1>11 DEF FillFile
<1>12. CASE SyncDirectory(b)
  BY <1>1, <1>12 DEF SyncDirectory
<1>13. CASE VerifyParent(b)
  BY <1>1, <1>13 DEF VerifyParent
<1>14. CASE VerifyEntry(b)
  BY <1>1, <1>14 DEF VerifyEntry
<1>15. CASE VerifyListing(b)
  BY <1>1, <1>15 DEF VerifyListing
<1>16. CASE VerifyFile(b)
  BY <1>1, <1>16 DEF VerifyFile
<1>17. CASE Fails(b)
  BY <1>1, <1>17 DEF Fails
<1>18. CASE CheckUnfinished(b)
  BY <1>1, <1>18 DEF CheckUnfinished, Name, Current
<1>19. CASE RemoveUnfinished(b)
  BY <1>1, <1>19 DEF RemoveUnfinished
<1>20. CASE CheckOwned(b)
  BY <1>1, <1>20 DEF CheckOwned, Name, Current
<1>21. CASE RemoveOwned(b)
  BY <1>1, <1>21 DEF RemoveOwned
<1>22. CASE CleanUpInterrupted(b)
  BY <1>1, <1>22 DEF CleanUpInterrupted
<1>23. CASE CheckDirectory(b)
  BY <1>1, <1>23 DEF CheckDirectory, RemovesDirectory, Mine
<1>24. CASE RemoveDirectory(b)
  BY <1>1, <1>24 DEF RemoveDirectory
<1>25. CASE Kill(b)
  BY <1>1, <1>25 DEF Kill
<1> QED
  BY <1>2, <1>3, <1>4, <1>5, <1>6, <1>7, <1>8, <1>9, <1>10, <1>11, <1>12, <1>13, <1>14,
     <1>15, <1>16, <1>17, <1>18, <1>19, <1>20, <1>21, <1>22, <1>23, <1>24, <1>25
     DEF Acts, Publish, CleanUp

\* ... and what the verification found out.
LEMMA OwnVerified ==
  ASSUME BundleInv, NEW b \in Builders, Acts(b)
  PROVE  Verified(b)'
<1> USE DEF At, Goto, Raise, Leave, local, disk, world
<1> SUFFICES ASSUME b \notin touched' PROVE Verified(b)'
  BY DEF Verified
<1>1. /\ TypeOK /\ Fresh(b) /\ Verified(b) /\ RemovedAreEmpty
      /\ b \notin touched
      /\ pc[b] \in Verifying => output[b] \in Directories
  BY ActsWorld DEF BundleInv, IInv, Descriptors
<1>2. CASE Preflight(b)
  BY <1>1, <1>2 DEF Preflight, Fresh, Verified, TypeOK, Mine
<1>3. CASE OpenParent(b)
  BY <1>1, <1>3 DEF OpenParent, Fresh, Verified, TypeOK, Mine
<1>4. CASE MatchParent(b)
  BY <1>1, <1>4 DEF MatchParent, Fresh, Verified, TypeOK, Mine
<1>5. CASE Probe(b)
  BY <1>1, <1>5 DEF Probe, Fresh, Verified, TypeOK, Mine
<1>6. CASE MakeDirectory(b)
  BY <1>1, <1>6 DEF MakeDirectory, Fresh, Verified, TypeOK, Mine
<1>7. CASE OpenOutput(b)
  BY <1>1, <1>7 DEF OpenOutput, Fresh, Verified, TypeOK, Mine
<1>8. CASE CheckEmpty(b)
  BY <1>1, <1>8 DEF CheckEmpty, Fresh, Verified, TypeOK, Mine
<1>9. CASE CheckBound(b)
  BY <1>1, <1>9 DEF CheckBound, Fresh, Verified, TypeOK, Mine
<1>10. CASE CreateFile(b)
  BY <1>1, <1>10 DEF CreateFile, Fresh, Verified, TypeOK, Mine
<1>11. CASE FillFile(b)
  BY <1>1, <1>11 DEF FillFile, Fresh, Verified, TypeOK, Mine
<1>12. CASE SyncDirectory(b)
  BY <1>1, <1>12 DEF SyncDirectory, Fresh, Verified, TypeOK, Mine
<1>13. CASE VerifyParent(b)
  BY <1>1, <1>13 DEF VerifyParent, Fresh, Verified, TypeOK, Mine
<1>14. CASE VerifyEntry(b)
  BY <1>1, <1>14 DEF VerifyEntry, Fresh, Verified, TypeOK, Mine
<1>15. CASE VerifyListing(b)
  <2>1. /\ UNCHANGED <<parent, output, next, disk, world>> /\ pc[b] = "vlist"
        /\ outcome[b] # "success" /\ next[b] = 1
    BY <1>1, <1>15, ActsWorld DEF VerifyListing, Fresh
  <2>2. CASE pc'[b] = "vfile"
    <3>1. Listing(output[b]) = Bundle(b) /\ outcome' = outcome
      BY <1>1, <1>15, <2>2 DEF VerifyListing, ListsBundle, TypeOK
    <3>2. \A n \in Names \ Bundle(b) : files[output[b]][n] = Absent
      BY <3>1 DEF Listing
    <3>3. \A i \in DOMAIN BuildOrder(b) : ~(i < 1)
      BY Positions, BothOrders
    <3> QED
      BY <1>1, <2>1, <2>2, <3>1, <3>2, <3>3 DEF Verified, Mine
  <2>3. CASE pc'[b] = "rollback"
    <3>1. outcome'[b] = "BuildError"
      BY <1>1, <1>15, <2>3 DEF VerifyListing, TypeOK
    <3> QED
      BY <2>3, <3>1 DEF Verified
  <2> QED
    BY <1>1, <1>15, <2>2, <2>3 DEF VerifyListing, TypeOK
<1>16. CASE VerifyFile(b)
  <2>1. /\ UNCHANGED <<parent, output, disk, world>> /\ pc[b] = "vfile"
        /\ output[b] \in Directories /\ next[b] \in DOMAIN WriteOrder(b)
        /\ outcome[b] # "success"
    BY <1>1, <1>16 DEF VerifyFile, Fresh, TypeOK
  <2>2. /\ parentAt = parent[b]
        /\ Mine(b) \/ output[b] \in removed
        /\ \A n \in Names \ Bundle(b) : files[output[b]][n] = Absent
        /\ \A i \in DOMAIN BuildOrder(b) : i < next[b] =>
             files[output[b]][BuildOrder(b)[i]] = b /\ <<b, BuildOrder(b)[i]>> \in whole
    BY <1>1, <2>1 DEF Verified
  <2>3. CASE ~SameFile(b)
    <3>1. pc'[b] = "rollback" /\ outcome'[b] = "BuildError"
      BY <1>1, <1>16, <2>3 DEF VerifyFile, TypeOK
    <3> QED
      BY <3>1 DEF Verified
  <2>4. CASE SameFile(b)
    <3>1. /\ next[b] \in 1 .. Len(WriteOrder(b)) /\ Len(WriteOrder(b)) \in Nat
          /\ DOMAIN BuildOrder(b) = 1 .. Len(WriteOrder(b)) /\ Len(BuildOrder(b)) = Len(WriteOrder(b))
      BY <2>1, Positions, BothOrders
    <3>2. \A i \in DOMAIN BuildOrder(b) : i < next[b] + 1 =>
            files[output[b]][BuildOrder(b)[i]] = b /\ <<b, BuildOrder(b)[i]>> \in whole
      BY <2>2, <2>4, <3>1 DEF SameFile, VerifiedName
    <3>3. CASE next[b] < Len(BuildOrder(b))
      <4>1. pc'[b] = "vfile" /\ next'[b] = next[b] + 1 /\ outcome' = outcome
        BY <1>1, <1>16, <2>4, <3>3 DEF VerifyFile, TypeOK
      <4>2. \A i \in DOMAIN BuildOrder(b) : i < next'[b] =>
              files'[output'[b]][BuildOrder(b)[i]] = b /\ <<b, BuildOrder(b)[i]>> \in whole'
        BY <2>1, <3>2, <4>1
      <4> QED
        BY <2>1, <2>2, <4>1, <4>2 DEF Verified, Mine
    <3>4. CASE ~(next[b] < Len(BuildOrder(b)))
      <4>1. pc'[b] = "abandon"
        BY <1>1, <1>16, <2>4, <3>4 DEF VerifyFile, TypeOK
      <4>2. \A i \in DOMAIN BuildOrder(b) : i < next[b] + 1
        BY <3>1, <3>4
      <4>3. \A n \in Bundle(b) : files[output[b]][n] = b /\ <<b, n>> \in whole
        BY <3>2, <4>2, BothOrders
      <4>4. Manifest \in Listing(output[b])
        BY <4>3, Order, EntriesAssumption DEF Listing
      <4>5. Mine(b)
        BY <1>1, <2>2, <4>4 DEF RemovedAreEmpty
      <4>6. \A n \in Names : files[output[b]][n] = IF n \in Bundle(b) THEN b ELSE Absent
        BY <2>2, <4>3
      <4>7. {b} \X Bundle(b) \subseteq whole
        BY <4>3
      <4> QED
        BY <2>1, <2>2, <4>1, <4>5, <4>6, <4>7 DEF Verified, Mine
    <3> QED
      BY <3>3, <3>4
  <2> QED
    BY <2>3, <2>4
<1>17. CASE Fails(b)
  <2>1. pc'[b] \in {"done", "abandon", "rollback", "unfill"} /\ outcome'[b] # "success"
    BY <1>1, <1>17 DEF Fails, TypeOK
  <2> QED
    BY <2>1 DEF Verified
<1>18. CASE CheckUnfinished(b)
  BY <1>1, <1>18 DEF CheckUnfinished, Fresh, Verified, TypeOK, Mine
<1>19. CASE RemoveUnfinished(b)
  BY <1>1, <1>19 DEF RemoveUnfinished, Fresh, Verified, TypeOK, Mine
<1>20. CASE CheckOwned(b)
  BY <1>1, <1>20 DEF CheckOwned, Fresh, Verified, TypeOK, Mine
<1>21. CASE RemoveOwned(b)
  BY <1>1, <1>21 DEF RemoveOwned, Fresh, Verified, TypeOK, Mine
<1>22. CASE CleanUpInterrupted(b)
  <2>1. pc'[b] \in {"abandon", "done"} /\ outcome'[b] = "KeyboardInterrupt"
    BY <1>1, <1>22 DEF CleanUpInterrupted, TypeOK
  <2> QED
    BY <2>1 DEF Verified
<1>23. CASE CheckDirectory(b)
  <2>1. /\ UNCHANGED <<outcome, parent, output, disk, world>> /\ pc'[b] \in {"rmdir", "done"}
    BY <1>1, <1>23 DEF CheckDirectory, TypeOK
  <2> QED
    BY <1>1, <2>1 DEF Verified, Mine
<1>24. CASE RemoveDirectory(b)
  <2>1. /\ UNCHANGED <<outcome, parent, output, files, whole, world>> /\ pc'[b] = "done"
    BY <1>1, <1>24 DEF RemoveDirectory, TypeOK
  <2>2. CASE outcome[b] = "success"
    <3>1. Verified(b) /\ b \notin touched
      BY <1>1
    <3>2. files[output[b]][Manifest] = b /\ entry[parent[b]] = output[b]
      BY <2>2, <3>1, Order DEF Verified, Mine
    <3>3. Manifest \in Listing(entry[parent[b]])
      BY <3>2, Order, EntriesAssumption DEF Listing
    <3>4. UNCHANGED entry
      BY <1>24, <3>3 DEF RemoveDirectory
    <3> QED
      BY <2>1, <2>2, <3>1, <3>4 DEF Verified, Mine
  <2>3. CASE outcome[b] # "success"
    BY <2>1, <2>3 DEF Verified
  <2> QED
    BY <2>2, <2>3
<1>25. CASE Kill(b)
  <2>1. /\ UNCHANGED <<outcome, parent, output, disk, world>> /\ pc'[b] = "killed"
    BY <1>1, <1>25 DEF Kill, TypeOK
  <2> QED
    BY <1>1, <2>1 DEF Verified, Mine
<1> QED
  BY <1>2, <1>3, <1>4, <1>5, <1>6, <1>7, <1>8, <1>9, <1>10, <1>11, <1>12, <1>13, <1>14,
     <1>15, <1>16, <1>17, <1>18, <1>19, <1>20, <1>21, <1>22, <1>23, <1>24, <1>25
     DEF Acts, Publish, CleanUp


-----------------------------------------------------------------------------
(* The invariant.                                                            *)

LEMMA ActsInvariant ==
  ASSUME BundleInv, NEW a \in Builders, Acts(a)
  PROVE  BundleInv'
<1>1. IInv /\ IInv' /\ Disk(a) /\ UNCHANGED world
  BY NextTypes, ActsOnDisk, ActsWorld DEF BundleInv, Next, Acts
<1>2. \A b \in Builders :
        /\ Fresh(b)' /\ Remembered(b)' /\ Undisturbed(b)' /\ OwnsManifest(b)' /\ Verified(b)'
  BY OthersInvariant, OwnFresh, OwnMemory, OwnUndisturbed, OwnManifest, OwnVerified
<1>3. RemovedAreEmpty'
  <2> SUFFICES ASSUME NEW d \in removed', NEW n \in Names PROVE files'[d][n] = Absent
    BY DEF RemovedAreEmpty, Listing
  <2>1. removed' \subseteq Directories
    BY <1>1 DEF IInv, TypeOK
  <2>2. d \in Directories /\ (d \in removed \/ (Listing(d) = {} /\ pc[a] = "rmdir"))
    BY <1>1, <2>1 DEF Disk
  <2>3. files[d][n] = Absent
    BY <2>2 DEF BundleInv, RemovedAreEmpty, Listing
  <2> QED
    BY <1>1, <2>2, <2>3 DEF Disk
<1>4. Alone'
  <2>1. \A b \in Builders : pc'[b] \in Running => pc[b] \in Running
    BY <1>1, ActsRunning, ActsApart DEF Apart
  <2> QED
    BY <1>1, <2>1 DEF BundleInv, Alone, world
<1> QED
  BY <1>1, <1>2, <1>3, <1>4 DEF BundleInv

\* Other programs disturb whoever has begun to verify, and everyone if two are at work.
LEMMA MeddlersInvariant ==
  ASSUME BundleInv, MoveParent \/ MoveOutput \/ Tamper
  PROVE  BundleInv'
<1>1. IInv /\ IInv' /\ TypeOK /\ meddling \in Nat
  BY NextTypes DEF BundleInv, Next, IInv, TypeOK
<1>2. /\ UNCHANGED <<pc, outcome, local, removed>> /\ meddling' # 0 /\ Meddle
      /\ \A d \in Directories, n \in Names : files'[d][n] \in Builders => files'[d][n] = files[d][n]
      /\ \A d \in removed, n \in Names : files'[d][n] = files[d][n]
  <2>1. Meddle /\ meddling' # 0
    BY <1>1 DEF MoveParent, MoveOutput, Tamper, Meddle
  <2>2. CASE MoveParent \/ MoveOutput
    BY <2>1, <2>2 DEF MoveParent, MoveOutput, disk
  <2>3. CASE Tamper
    <3>1. UNCHANGED <<pc, outcome, local, removed>>
      BY <2>3 DEF Tamper
    <3>2. PICK d \in Directories \ removed, n \in Names, e \in {Absent, Foreign} :
            files' = [files EXCEPT ![d][n] = e] \/ UNCHANGED files
      BY <2>3 DEF Tamper
    <3>3. e \notin Builders
      BY EntriesAssumption
    <3>4. \A c \in Directories, m \in Names :
            files'[c][m] = files[c][m] \/ (c \notin removed /\ files'[c][m] = e)
      BY <1>1, <3>2 DEF TypeOK
    <3>5. removed \subseteq Directories
      BY <1>1 DEF TypeOK
    <3> QED
      BY <2>1, <3>1, <3>3, <3>4, <3>5
  <2> QED
    BY <2>2, <2>3
<1>3. ASSUME NEW b \in Builders, b \notin touched'
      PROVE  /\ pc[b] \in Opening \cup Writing \cup {"sync"}
             /\ \A a \in Builders : a # b => pc[a] \notin Running
  BY <1>2, <1>3 DEF Meddle
<1>4. ASSUME NEW b \in Builders
      PROVE  /\ Fresh(b)' /\ Remembered(b)' /\ Undisturbed(b)' /\ OwnsManifest(b)'
             /\ Verified(b)'
  <2>1. Fresh(b) /\ Remembered(b)
    BY DEF BundleInv
  <2>2. Fresh(b)'
    BY <1>2, <2>1 DEF Fresh, Preparing, local
  <2>3. Remembered(b)'
    <3> SUFFICES ASSUME NEW d \in Directories, NEW n \in Names, files'[d][n] = b
                 PROVE  Remembers(b, d, n)'
      BY DEF Remembered
    <3>1. Remembers(b, d, n)
      BY <1>2, <2>1 DEF Remembered
    <3>2. pc[b] \in {"abandon", "rmdir", "done"} => Kept(b)'
      BY <1>3 DEF Kept
    <3> QED
      BY <1>2, <3>1, <3>2 DEF Remembers, local, Current
  <2>4. Undisturbed(b)' /\ OwnsManifest(b)'
    BY <1>2 DEF Undisturbed, OwnsManifest
  <2>5. Verified(b)'
    BY <1>2, <1>3, <2>1 DEF Verified, Fresh
  <2> QED
    BY <2>2, <2>3, <2>4, <2>5
<1>5. RemovedAreEmpty'
  BY <1>1, <1>2 DEF BundleInv, RemovedAreEmpty, Listing, TypeOK
<1>6. Alone'
  BY <1>2, <1>3 DEF Alone
<1> QED
  BY <1>1, <1>4, <1>5, <1>6 DEF BundleInv

LEMMA InitBundle == Init => BundleInv
<1> SUFFICES ASSUME Init PROVE BundleInv
  OBVIOUS
<1>1. IInv
  BY InitInvariant
<1>2. \A b \in Builders : /\ pc[b] \in {"start", "done"} /\ outcome[b] = "none" /\ ~created[b]
                          /\ output[b] = NoDir /\ identities[b] = {} /\ next[b] = 1
  BY DEF Init
<1>3. \A b \in Builders : /\ \A d \in Directories, n \in Names : files[d][n] # b
                          /\ \A p \in Parents : entry[p] # b
  BY EntriesAssumption DEF Init
<1>4. \A b \in Builders : Fresh(b)
  BY <1>2 DEF Fresh, Preparing
<1>5. \A b \in Builders : Remembered(b)
  BY <1>3 DEF Remembered
<1>6. \A b \in Builders : Undisturbed(b) /\ OwnsManifest(b) /\ Verified(b)
  BY <1>2, <1>3 DEF Undisturbed, OwnsManifest, Owning, Verified
<1>7. RemovedAreEmpty /\ Alone
  BY DEF Init, RemovedAreEmpty, Alone
<1> QED
  BY <1>1, <1>4, <1>5, <1>6, <1>7 DEF BundleInv

LEMMA NextBundle == BundleInv /\ [Next]_vars => BundleInv'
<1> SUFFICES ASSUME BundleInv, [Next]_vars PROVE BundleInv'
  OBVIOUS
<1>1. CASE \E b \in Builders : Publish(b) \/ CleanUp(b) \/ Kill(b)
  BY <1>1, ActsInvariant DEF Acts
<1>2. CASE MoveParent \/ MoveOutput \/ Tamper
  BY <1>2, MeddlersInvariant
<1>3. CASE UNCHANGED vars
  <2>1. IInv'
    BY NextTypes DEF BundleInv
  <2>2. \A b \in Builders : Fresh(b)' /\ Undisturbed(b)' /\ OwnsManifest(b)'
    BY <1>3 DEF BundleInv, Fresh, Preparing, Undisturbed, OwnsManifest, Owning, Name, Current,
       vars, local, disk, world
  <2>3. \A b \in Builders : Remembered(b)' /\ Verified(b)'
    BY <1>3 DEF BundleInv, Remembered, Remembers, Kept, Current, Verified, Mine,
       vars, local, disk, world
  <2>4. RemovedAreEmpty' /\ Alone'
    BY <1>3 DEF BundleInv, RemovedAreEmpty, Listing, Alone, vars, disk, world
  <2> QED
    BY <2>1, <2>2, <2>3, <2>4 DEF BundleInv
<1> QED
  BY <1>1, <1>2, <1>3 DEF Next

LEMMA BundleInvariance == Spec => []BundleInv
<1> QED
  BY InitBundle, NextBundle, PTL DEF Spec

\* ExactBundle: who succeeded undisturbed has its whole bundle, and nothing else, where
\* the path leads, whatever other builders, failures, signals and kills did.
THEOREM ExactBundleHolds == Spec => []ExactBundle
<1>1. BundleInv => ExactBundle
  <2> SUFFICES ASSUME BundleInv, NEW b \in Builders, outcome[b] = "success", b \notin touched
               PROVE  /\ parent[b] = parentAt /\ entry[parentAt] = output[b]
                      /\ \A n \in Names : files[output[b]][n] = IF n \in Bundle(b) THEN b ELSE Absent
                      /\ {b} \X Bundle(b) \subseteq whole
    BY DEF ExactBundle
  <2> QED
    BY DEF BundleInv, Verified, Mine
<1> QED
  BY <1>1, BundleInvariance, PTL

\* FailureLeavesNothing: what a failed builder wrote and could not remove it reports, but
\* for SIGINT once all of it was verified or where other programs disturbed it.
THEOREM FailureLeavesNothingHolds == Spec => []FailureLeavesNothing
<1>1. BundleInv => FailureLeavesNothing
  <2> SUFFICES ASSUME BundleInv, NEW b \in Builders, pc[b] = "done", outcome[b] # "success"
               PROVE  /\ \A d \in Directories, n \in Names : files[d][n] = b =>
                           \/ n \in residual[b]
                           \/ /\ outcome[b] = "KeyboardInterrupt"
                              /\ b \in touched \/ \A m \in Bundle(b) : files[d][m] = b
                      /\ \A p \in Parents : entry[p] = b /\ meddling = 0 => Output \in residual[b]
    BY DEF FailureLeavesNothing
  <2> QED
    BY DEF BundleInv, Remembered, Remembers, Kept, Undisturbed
<1> QED
  BY <1>1, BundleInvariance, PTL

\* OnlyOwnEntriesChange: what is removed by name is what its remover made, also when
\* other builders come between the comparison and the removal.
THEOREM OnlyOwnEntriesChangeHolds == Spec => OnlyOwnEntriesChange
<1> DEFINE Own == meddling' = 0 =>
       /\ \A d \in Directories, n \in Names :
            files[d][n] \in Builders /\ files'[d][n] # files[d][n] =>
              pc'[files[d][n]] # pc[files[d][n]]
       /\ \A d \in removed' \ removed : d \in Builders /\ pc'[d] # pc[d]
<1>1. BundleInv /\ [Next]_vars => [Own]_vars
  <2> SUFFICES ASSUME BundleInv, Next, meddling' = 0
               PROVE  /\ \A d \in Directories, n \in Names :
                           files[d][n] \in Builders /\ files'[d][n] # files[d][n] =>
                             pc'[files[d][n]] # pc[files[d][n]]
                      /\ \A d \in removed' \ removed : d \in Builders /\ pc'[d] # pc[d]
    OBVIOUS
  <2>1. ~(MoveParent \/ MoveOutput \/ Tamper)
    BY DEF MoveParent, MoveOutput, Tamper, Meddle, BundleInv, IInv, TypeOK
  <2>2. PICK a \in Builders : Acts(a)
    BY <2>1 DEF Next, Acts
  <2>3. Disk(a) /\ Undisturbed(a) /\ meddling = 0
    BY <2>2, ActsOnDisk, ActsWorld DEF BundleInv, world
  <2> QED
    BY <2>3, EntriesAssumption DEF Disk, Undisturbed, Name
<1> QED
  BY <1>1, BundleInvariance, PTL DEF Spec, OnlyOwnEntriesChange


-----------------------------------------------------------------------------
(* Builders that meet, where nothing fails but they.                         *)

\* The steps that are left without faults.
LEMMA FaultFree ==
  ASSUME faults = {}
  PROVE  /\ ~(MoveParent \/ MoveOutput \/ Tamper)
         /\ \A b \in Builders : ~Fails(b) /\ ~CleanUpInterrupted(b) /\ ~Kill(b)
BY DEF MoveParent, MoveOutput, Tamper, Fails, CleanUpInterrupted, Kill

\* What a leading builder has in its directory, and that it is there.
LEMMA LeadersDirectory ==
  ASSUME BundleInv, meddling = 0, NEW b \in Builders, Leading(b), outcome[b] # "success"
  PROVE  /\ output[b] \in Directories /\ output[b] # Absent /\ parent[b] \in Parents
         /\ output[b] \notin removed /\ files[output[b]][Manifest] = b
         /\ \A n \in Names : files[output[b]][n] \in {b, Absent}
<1>1. Owning(b) /\ OwnsManifest(b) /\ IInv
  BY DEF Leading, BundleInv
<1>2. output[b] \in Directories /\ output[b] # Absent /\ parent[b] \in Parents
  BY <1>1, EntriesAssumption DEF Owning, IInv, Descriptors, Directories
<1>3. files[output[b]][Manifest] = b
  BY <1>1 DEF OwnsManifest
<1>4. output[b] \notin removed
  BY <1>3, Order, EntriesAssumption DEF BundleInv, RemovedAreEmpty, Listing
<1>5. ASSUME NEW n \in Bundle(b) PROVE files[output[b]][n] \in {b, Absent}
  <2>1. PICK i \in DOMAIN WriteOrder(b) : n = WriteOrder(b)[i]
    BY Order
  <2> QED
    BY <2>1 DEF Leading
<1>6. \A n \in Names \ Bundle(b) : files[output[b]][n] = Absent
  BY DEF Leading
<1> QED
  BY <1>2, <1>3, <1>4, <1>5, <1>6

\* Others leave a leading builder alone ...
LEMMA OthersLeading ==
  ASSUME BundleInv, meddling = 0, NEW a \in Builders, NEW b \in Builders, a # b, Acts(a),
         Leading(b)
  PROVE  Leading(b)'
<1>1. Apart(a, b) /\ Disk(a)
  BY ActsApart, ActsOnDisk DEF BundleInv
<1>2. CASE outcome[b] = "success"
  BY <1>1, <1>2 DEF Apart, Leading
<1>3. CASE outcome[b] # "success"
  <2>1. /\ output[b] \in Directories /\ output[b] # Absent /\ parent[b] \in Parents
        /\ files[output[b]][Manifest] = b
        /\ \A n \in Names : files[output[b]][n] \in {b, Absent}
    BY <1>3, LeadersDirectory
  <2>2. \A n \in Names : files'[output[b]][n] = files[output[b]][n]
    BY <2>1, NoIntruder, EntriesAssumption
  <2>3. output[b] \notin removed'
    <3>1. Manifest \in Listing(output[b])
      BY <2>1, Order, EntriesAssumption DEF Listing
    <3> QED
      BY <1>1, <3>1, <1>3, LeadersDirectory DEF Disk
  <2>4. Mine(b) /\ parentAt = parent[b] /\ Owning(b)
    BY <1>3 DEF Leading
  <2>5. Mine(b)' /\ parentAt' = parent'[b] /\ Owning(b)'
    BY <1>1, <2>1, <2>3, <2>4 DEF Apart, Disk, Mine, Owning, world
  <2>6. \A n \in Names \ Bundle(b) : files'[output'[b]][n] = Absent
    BY <1>1, <1>3, <2>2 DEF Apart, Leading
  <2>7. \A i \in DOMAIN WriteOrder(b) :
          /\ files'[output'[b]][WriteOrder(b)[i]] =
               IF i < next'[b] \/ (i = next'[b] /\ pc'[b] = "fill") \/ pc'[b] \in Verifying
               THEN b ELSE Absent
          /\ i < next'[b] \/ pc'[b] \in Verifying => <<b, WriteOrder(b)[i]>> \in whole'
    <3>1. \A i \in DOMAIN WriteOrder(b) : WriteOrder(b)[i] \in Names
      BY Positions
    <3>2. /\ pc'[b] = pc[b] /\ next'[b] = next[b] /\ output'[b] = output[b]
          /\ whole \subseteq whole'
      BY <1>1 DEF Apart, Disk
    <3> QED
      BY <1>3, <2>2, <3>1, <3>2 DEF Leading
  <2> QED
    BY <2>5, <2>6, <2>7 DEF Leading
<1> QED
  BY <1>2, <1>3

\* ... and its own steps take it to success.
LEMMA OwnLeading ==
  ASSUME BundleInv, meddling = 0, faults = {}, NEW b \in Builders, Acts(b), Leading(b)
  PROVE  Leading(b)'
<1> USE DEF At, Goto, Raise, local, disk, world
<1>1. TypeOK /\ Fresh(b) /\ \A i \in DOMAIN WriteOrder(b) : i \in Nat
  BY Positions DEF BundleInv, IInv
<1>2. ~Fails(b) /\ ~CleanUpInterrupted(b) /\ ~Kill(b)
  BY FaultFree
<1>3. CASE outcome[b] = "success"
  <2>1. CheckDirectory(b) \/ RemoveDirectory(b)
    BY <1>1, <1>2, <1>3 DEF Fresh, Acts, Publish, CleanUp, Preflight, OpenParent, MatchParent,
       Probe, MakeDirectory, OpenOutput, CheckEmpty, CheckBound, CreateFile, FillFile,
       SyncDirectory, VerifyParent, VerifyEntry, VerifyListing, VerifyFile, CheckUnfinished,
       RemoveUnfinished, CheckOwned, RemoveOwned
  <2> QED
    BY <1>3, <2>1 DEF CheckDirectory, RemoveDirectory, Leading
<1>4. CASE outcome[b] # "success"
  <2>1. /\ output[b] \in Directories /\ output[b] \notin removed
        /\ parentAt = parent[b] /\ Mine(b) /\ Owning(b)
        /\ \A n \in Names \ Bundle(b) : files[output[b]][n] = Absent
        /\ \A i \in DOMAIN WriteOrder(b) :
             /\ files[output[b]][WriteOrder(b)[i]] =
                  IF i < next[b] \/ (i = next[b] /\ pc[b] = "fill") \/ pc[b] \in Verifying
                  THEN b ELSE Absent
             /\ i < next[b] \/ pc[b] \in Verifying => <<b, WriteOrder(b)[i]>> \in whole
    BY <1>4, LeadersDirectory DEF Leading
  <2>2. next[b] \in DOMAIN WriteOrder(b) /\ Current(b) \in Names /\ Current(b) \in Bundle(b)
    BY <1>1, Positions DEF TypeOK, Current
  <2>3. \/ CreateFile(b) \/ FillFile(b) \/ SyncDirectory(b)
        \/ VerifyParent(b) \/ VerifyEntry(b) \/ VerifyListing(b) \/ VerifyFile(b)
    BY <1>2, <2>1 DEF Owning, Acts, Publish, CleanUp, Preflight, OpenParent, MatchParent,
       Probe, MakeDirectory, OpenOutput, CheckEmpty, CheckBound, CheckUnfinished,
       RemoveUnfinished, CheckOwned, RemoveOwned, CheckDirectory, RemoveDirectory
  <2>4. CASE CreateFile(b)
    <3>1. pc[b] = "write" /\ Name(b) = Absent
      <4>1. pc[b] = "write" /\ ~(next[b] < next[b])
        BY <1>1, <2>2, <2>4 DEF CreateFile
      <4> QED
        BY <2>1, <2>2, <4>1 DEF Name, Current
    <3>2. /\ files' = [files EXCEPT ![output[b]][Current(b)] = b] /\ pc'[b] = "fill"
          /\ UNCHANGED <<local, entry, whole, removed, world>>
      BY <1>1, <2>1, <2>4, <3>1 DEF CreateFile, TypeOK
    <3>3. \A n \in Names : files'[output[b]][n] = IF n = Current(b) THEN b ELSE files[output[b]][n]
      BY <1>1, <2>1, <2>2, <3>2 DEF TypeOK
    <3>4. \A i \in DOMAIN WriteOrder(b) :
            WriteOrder(b)[i] \in Names /\ (WriteOrder(b)[i] = Current(b) <=> i = next[b])
      BY <2>2, Order, Positions DEF Current
    <3> QED
      BY <2>1, <2>2, <3>1, <3>2, <3>3, <3>4 DEF Leading, Owning, Mine
  <2>5. CASE FillFile(b)
    <3>1. pc[b] = "fill" /\ whole' = whole \cup {<<b, Current(b)>>}
          /\ UNCHANGED <<parent, output, entry, files, removed, world>>
      BY <2>5 DEF FillFile
    <3>2. \A i \in DOMAIN WriteOrder(b) : i < next[b] + 1 =>
            files'[output[b]][WriteOrder(b)[i]] = b /\ <<b, WriteOrder(b)[i]>> \in whole'
      BY <2>1, <2>2, <3>1, Positions DEF Current
    <3>3. CASE next[b] < Len(WriteOrder(b))
      <4>1. pc'[b] = "write" /\ next'[b] = next[b] + 1
        BY <1>1, <2>5, <3>3 DEF FillFile, TypeOK
      <4>2. next[b] + 1 # 1
        BY <2>2, Positions
      <4>3. ASSUME NEW i \in DOMAIN WriteOrder(b), ~(i < next[b] + 1)
            PROVE  files'[output[b]][WriteOrder(b)[i]] = Absent
        <5>1. ~(i < next[b]) /\ i # next[b]
          BY <1>1, <2>2, <4>3
        <5> QED
          BY <2>1, <3>1, <5>1
      <4> QED
        BY <2>1, <3>1, <3>2, <4>1, <4>2, <4>3 DEF Leading, Owning, Mine
    <3>4. CASE ~(next[b] < Len(WriteOrder(b)))
      <4>1. pc'[b] = "sync"
        BY <1>1, <2>5, <3>4 DEF FillFile, TypeOK
      <4>2. \A i \in DOMAIN WriteOrder(b) : i < next[b] + 1
        BY <2>2, <3>4, Positions
      <4> QED
        BY <2>1, <3>1, <3>2, <4>1, <4>2 DEF Leading, Owning, Mine
    <3> QED
      BY <3>3, <3>4
  <2>6. CASE SyncDirectory(b) \/ VerifyParent(b) \/ VerifyEntry(b) \/ VerifyListing(b)
    <3>1. pc[b] \in Verifying
      BY <2>6 DEF SyncDirectory, VerifyParent, VerifyEntry, VerifyListing
    <3>2. ListsBundle(b)
      <4>1. \A i \in DOMAIN WriteOrder(b) : files[output[b]][WriteOrder(b)[i]] = b
        BY <2>1, <3>1
      <4>2. \A n \in Bundle(b) : n \in Names /\ files[output[b]][n] = b
        BY <4>1, Order, Positions
      <4> QED
        BY <2>1, <4>2, EntriesAssumption DEF ListsBundle, Listing
    <3>3. pc'[b] \in Verifying /\ UNCHANGED <<local, disk, world>>
      BY <1>1, <2>1, <2>6, <3>2 DEF SyncDirectory, VerifyParent, VerifyEntry, VerifyListing, TypeOK
    <3> QED
      BY <2>1, <3>1, <3>3 DEF Leading, Owning, Mine
  <2>7. CASE VerifyFile(b)
    <3>1. pc[b] = "vfile" /\ SameFile(b)
      <4>1. pc[b] = "vfile"
        BY <2>7 DEF VerifyFile
      <4>2. \A i \in DOMAIN WriteOrder(b) :
              files[output[b]][WriteOrder(b)[i]] = b /\ <<b, WriteOrder(b)[i]>> \in whole
        BY <2>1, <4>1
      <4>3. VerifiedName(b) \in Bundle(b)
        BY <2>2, BothOrders DEF VerifiedName
      <4> QED
        BY <4>1, <4>2, <4>3, Order DEF SameFile
    <3>2. /\ pc'[b] = "vfile" \/ outcome'[b] = "success"
          /\ UNCHANGED <<parent, output, disk, world>>
      BY <1>1, <2>7, <3>1 DEF VerifyFile, TypeOK
    <3> QED
      BY <2>1, <3>1, <3>2 DEF Leading, Owning, Mine
  <2> QED
    BY <2>3, <2>4, <2>5, <2>6, <2>7
<1> QED
  BY <1>3, <1>4


\* The first file is the manifest of a builder, which leads from there on.
LEMMA FirstFile ==
  ASSUME BundleInv, meddling = 0, faults = {}, Undecided, NEW a \in Builders, Acts(a),
         pc[a] = "write"
  PROVE  Leading(a)'
<1>1. /\ TypeOK /\ Descriptors /\ OwnsManifest(a)
      /\ output[a] \in Directories /\ output[a] \notin removed /\ Current(a) \in Names
  BY CurrentIsNamed DEF BundleInv, IInv, Descriptors, Undecided
<1>2. next[a] = 1 /\ Manifest \in Names /\ \A i \in DOMAIN WriteOrder(a) : i \in Nat /\ ~(i < 1)
  BY <1>1, Order, Positions, EntriesAssumption DEF OwnsManifest, Owning, Undecided
<1>3. CreateFile(a)
  BY FaultFree DEF Acts, Publish, CleanUp, Preflight, OpenParent, MatchParent,
     Probe, MakeDirectory, OpenOutput, CheckEmpty, CheckBound, FillFile, SyncDirectory,
     VerifyParent, VerifyEntry, VerifyListing, VerifyFile, CheckUnfinished,
     RemoveUnfinished, CheckOwned, RemoveOwned, CheckDirectory, RemoveDirectory, At
<1>4. Name(a) = Absent
  BY <1>1 DEF Undecided, Name
<1>5. /\ files' = [files EXCEPT ![output[a]][Current(a)] = a] /\ pc'[a] = "fill"
      /\ UNCHANGED <<local, entry, whole, removed, world>>
  BY <1>1, <1>3, <1>4 DEF CreateFile, Goto, TypeOK
<1>6. \A n \in Names : files'[output[a]][n] = IF n = Current(a) THEN a ELSE Absent
  BY <1>1, <1>5 DEF TypeOK, Undecided
<1>7. \A i \in DOMAIN WriteOrder(a) :
        WriteOrder(a)[i] \in Names /\ (WriteOrder(a)[i] = Current(a) <=> i = 1)
  BY <1>2, Order, Positions DEF Current
<1>8. Current(a) \in Bundle(a)
  BY <1>2, Order DEF Current
<1>9. parentAt' = parent'[a] /\ Mine(a)'
  BY <1>5 DEF Undecided, Mine, local, world
<1> QED
  BY <1>2, <1>5, <1>6, <1>7, <1>8, <1>9 DEF Leading, Owning, local

\* Until then somebody remains who may write it.
LEMMA StillUndecided ==
  ASSUME BundleInv, meddling = 0, faults = {}, Undecided, NEW a \in Builders, Acts(a),
         pc[a] # "write"
  PROVE  Undecided'
<1> USE DEF At, Goto, Raise, local, disk, world
<1>1. TypeOK /\ Descriptors /\ Fresh(a)
  BY DEF BundleInv, IInv
<1>2. \A b \in Builders : a # b => Apart(a, b)
  BY ActsApart DEF BundleInv
<1>3. Disk(a) /\ UNCHANGED world
  BY ActsOnDisk, ActsWorld DEF BundleInv
<1>4. pc[a] \in Opening \cup {"abandon", "done"}
  BY DEF Undecided
<1>5. \A d \in Directories : Listing(d) = {}
  BY DEF Undecided, Listing
<1>6. \/ Preflight(a) \/ OpenParent(a) \/ MatchParent(a) \/ Probe(a) \/ MakeDirectory(a)
      \/ OpenOutput(a) \/ CheckEmpty(a) \/ CheckBound(a) \/ CheckDirectory(a)
  BY <1>4, FaultFree DEF Acts, Publish, CleanUp, CreateFile, FillFile, SyncDirectory,
     VerifyParent, VerifyEntry, VerifyListing, VerifyFile, CheckUnfinished,
     RemoveUnfinished, CheckOwned, RemoveOwned, RemoveDirectory
<1>7. /\ \A d \in Directories, n \in Names : files'[d][n] = Absent
      /\ removed' = {}
  BY <1>3, <1>4 DEF Disk, Undecided
<1>8. \A p \in Parents :
        \/ entry'[p] = entry[p]
        \/ /\ p = parent[a] /\ pc[a] = "mkdir" /\ pc'[a] = "open" /\ created'[a]
           /\ entry[p] = Absent /\ entry'[p] = a
  BY <1>3, <1>4 DEF Disk
<1>9. ASSUME NEW b \in Builders, a # b
      PROVE  /\ pc'[b] \in Opening \cup {"write", "abandon", "done"}
             /\ pc'[b] \in (Opening \ {"start", "again", "parent"}) \cup {"write"} =>
                  parent'[b] = parentAt'
             /\ created'[b] => pc'[b] \in {"open", "empty", "bound", "write"}
             /\ pc'[b] = "mkdir" => entry'[parent'[b]] # Existing
             /\ pc'[b] = "open" => entry'[parent'[b]] \in Directories
             /\ pc'[b] \in {"empty", "bound", "write"} => Mine(b)'
  <2>1. /\ pc'[b] = pc[b] /\ parent'[b] = parent[b] /\ output'[b] = output[b]
        /\ created'[b] = created[b]
    BY <1>2, <1>9 DEF Apart
  <2>2. pc[b] \in {"mkdir", "open", "empty", "bound", "write"} => parent[b] \in Parents
    BY <1>1, EntriesAssumption DEF Descriptors, Directories
  <2>3. pc[b] \in {"empty", "bound", "write"} => output[b] \in Directories
    BY <1>1 DEF Descriptors
  <2> QED
    BY <1>3, <1>8, <2>1, <2>2, <2>3, EntriesAssumption DEF Undecided, Mine, Directories
<1>10. /\ pc'[a] \in Opening \cup {"write", "abandon", "done"}
       /\ pc'[a] \in (Opening \ {"start", "again", "parent"}) \cup {"write"} =>
            parent'[a] = parentAt'
       /\ created'[a] => pc'[a] \in {"open", "empty", "bound", "write"}
       /\ pc'[a] = "mkdir" => entry'[parent'[a]] # Existing
       /\ pc'[a] = "open" => entry'[parent'[a]] \in Directories
       /\ pc'[a] \in {"empty", "bound", "write"} => Mine(a)'
  <2> USE <1>1 DEF TypeOK, Undecided, Fresh, Preparing
  <2>1. CASE Preflight(a)
    BY <2>1 DEF Preflight
  <2>2. CASE OpenParent(a)
    BY <2>2 DEF OpenParent
  <2>3. CASE MatchParent(a)
    BY <2>3 DEF MatchParent
  <2>4. CASE Probe(a)
    BY <2>4, EntriesAssumption DEF Probe
  <2>5. CASE MakeDirectory(a)
    <3>1. /\ pc[a] = "mkdir" /\ ~created[a] /\ parent[a] = parentAt /\ a \in Directories
          /\ a # Existing /\ parent'[a] = parent[a]
      BY <2>5, EntriesAssumption DEF MakeDirectory, Directories
    <3>2. CASE entry[parent[a]] = Absent
      <4>1. pc'[a] = "open" /\ entry'[parentAt] = a
        BY <2>5, <3>1, <3>2 DEF MakeDirectory
      <4> QED
        BY <1>3, <3>1, <4>1
    <3>3. CASE entry[parent[a]] # Absent
      <4>1. pc'[a] = "abandon" /\ ~created'[a]
        BY <2>5, <3>1, <3>3 DEF MakeDirectory
      <4> QED
        BY <4>1
    <3> QED
      BY <3>2, <3>3
  <2>6. CASE OpenOutput(a)
    BY <2>6 DEF OpenOutput, Mine
  <2>7. CASE CheckEmpty(a)
    BY <1>5, <2>7 DEF CheckEmpty, Mine, Descriptors
  <2>8. CASE CheckBound(a)
    BY <2>8 DEF CheckBound, Mine
  <2>9. CASE CheckDirectory(a)
    BY <2>9 DEF CheckDirectory, RemovesDirectory
  <2> QED
    BY <1>6, <2>1, <2>2, <2>3, <2>4, <2>5, <2>6, <2>7, <2>8, <2>9
<1>11. \A p \in Parents : entry'[p] # Foreign
  BY <1>8, EntriesAssumption DEF Undecided
<1>12. \E b \in Builders : pc'[b] \in Opening \cup {"write"}
  <2>1. CASE pc[a] = "abandon"
    <3>1. PICK w \in Builders : pc[w] \in Opening \cup {"write"}
      BY DEF Undecided
    <3> QED
      BY <1>2, <2>1, <3>1 DEF Apart
  <2>2. CASE MakeDirectory(a) /\ entry[parent[a]] # Absent
    <3>1. pc[a] = "mkdir" /\ parent[a] \in Parents
      BY <1>1, <2>2 DEF MakeDirectory, Descriptors
    <3>2. entry[parent[a]] \in Builders
      BY <1>1, <2>2, <3>1 DEF Undecided, TypeOK, Directories
    <3>3. PICK c \in Builders : entry[parent[a]] = c
      BY <3>2
    <3>4. created[c]
      BY <3>1, <3>3 DEF BundleInv, Undisturbed
    <3>5. pc[c] \in {"open", "empty", "bound", "write"}
      BY <3>4 DEF Undecided
    <3> QED
      BY <1>2, <3>1, <3>5 DEF Apart
  <2>3. CASE pc[a] # "abandon" /\ ~(MakeDirectory(a) /\ entry[parent[a]] # Absent)
    <3>1. pc'[a] \in Opening \cup {"write"}
      <4> USE <1>1 DEF TypeOK, Undecided
      <4>1. CASE Preflight(a)
        BY <1>5, <4>1 DEF Preflight
      <4>2. CASE OpenParent(a)
        BY <4>2 DEF OpenParent
      <4>3. CASE MatchParent(a)
        BY <4>3 DEF MatchParent
      <4>4. CASE Probe(a)
        BY <4>4 DEF Probe, Descriptors
      <4>5. CASE MakeDirectory(a)
        BY <2>3, <4>5 DEF MakeDirectory
      <4>6. CASE OpenOutput(a)
        BY <4>6 DEF OpenOutput
      <4>7. CASE CheckEmpty(a)
        BY <1>5, <4>7 DEF CheckEmpty, Descriptors
      <4>8. CASE CheckBound(a)
        BY <4>8 DEF CheckBound
      <4>9. CASE CheckDirectory(a)
        BY <2>3, <4>9 DEF CheckDirectory
      <4> QED
        BY <1>6, <4>1, <4>2, <4>3, <4>4, <4>5, <4>6, <4>7, <4>8, <4>9
    <3> QED
      BY <3>1
  <2> QED
    BY <2>1, <2>2, <2>3
<1> QED
  <2>1. \A b \in Builders :
          /\ pc'[b] \in Opening \cup {"write", "abandon", "done"}
          /\ pc'[b] \in (Opening \ {"start", "again", "parent"}) \cup {"write"} =>
               parent'[b] = parentAt'
          /\ created'[b] => pc'[b] \in {"open", "empty", "bound", "write"}
          /\ pc'[b] = "mkdir" => entry'[parent'[b]] # Existing
          /\ pc'[b] = "open" => entry'[parent'[b]] \in Directories
          /\ pc'[b] \in {"empty", "bound", "write"} => Mine(b)'
    BY <1>9, <1>10
  <2> QED
    BY <1>7, <1>11, <1>12, <2>1 DEF Undecided

LEMMA InitContest == Init => Contest
<1> SUFFICES ASSUME Init, faults = {} PROVE meddling = 0 /\ Undecided
  BY DEF Contest
<1>1. \A d \in Directories, n \in Names : files[d][n] = Absent
  BY DEF Init
<1>2. \A p \in Parents : entry[p] # Foreign
  BY EntriesAssumption DEF Init
<1>3. \A b \in Builders : pc[b] \in {"start", "done"} /\ ~created[b]
  BY DEF Init
<1>4. \E b \in Builders : pc[b] = "start"
  <2>1. PICK started \in (SUBSET Builders) \ {{}} :
          pc = [b \in Builders |-> IF b \in started THEN "start" ELSE "done"]
    BY DEF Init
  <2>2. started # {} /\ started \subseteq Builders
    OBVIOUS
  <2>3. PICK b \in started : TRUE
    BY <2>2
  <2> QED
    BY <2>1, <2>2, <2>3
<1> QED
  BY <1>1, <1>2, <1>3, <1>4 DEF Init, Undecided

LEMMA NextContest == BundleInv /\ Contest /\ [Next]_vars => Contest'
<1> SUFFICES ASSUME BundleInv, Contest, [Next]_vars, faults' = {}
             PROVE  meddling' = 0 /\ ((\E b \in Builders : Leading(b)') \/ Undecided')
  BY DEF Contest
<1>1. CASE \E a \in Builders : Acts(a)
  <2>1. PICK a \in Builders : Acts(a)
    BY <1>1
  <2>2. faults = {} /\ meddling = 0 /\ meddling' = 0
    BY <2>1, ActsWorld DEF Contest, world
  <2>3. CASE \E b \in Builders : Leading(b)
    BY <2>1, <2>2, <2>3, OthersLeading, OwnLeading
  <2>4. CASE Undecided
    BY <2>1, <2>2, <2>4, FirstFile, StillUndecided
  <2> QED
    BY <2>2, <2>3, <2>4 DEF Contest
<1>2. CASE MoveParent \/ MoveOutput \/ Tamper
  <2>1. faults = {}
    BY <1>2 DEF MoveParent, MoveOutput, Tamper, Meddle
  <2> QED
    BY <1>2, <2>1, FaultFree
<1>3. CASE UNCHANGED vars
  <2>1. faults = {} /\ meddling' = meddling
    BY <1>3 DEF vars, world
  <2>2. \A b \in Builders : Leading(b) => Leading(b)'
    BY <1>3 DEF Leading, Owning, Mine, vars, local, disk, world
  <2>3. Undecided => Undecided'
    BY <1>3 DEF Undecided, Mine, vars, local, disk, world
  <2> QED
    BY <2>1, <2>2, <2>3 DEF Contest
<1> QED
  BY <1>1, <1>2, <1>3 DEF Next, Acts

\* NoMutualDefeat: of builders that meet and that nothing else stops, one succeeds.
THEOREM NoMutualDefeatHolds == Spec => []NoMutualDefeat
<1>1. Contest => NoMutualDefeat
  BY DEF Contest, NoMutualDefeat, Leading, Owning, Undecided
<1>2. Spec => []Contest
  BY InitContest, NextContest, BundleInvariance, PTL DEF Spec
<1> QED
  BY <1>1, <1>2, PTL
=============================================================================
