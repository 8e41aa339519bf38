-------------------------- MODULE WorkbenchProofs --------------------------
(***************************************************************************)
(* For any number of runs, names, files and requests: the exit status      *)
(* tells whether the report is there, no report takes the name of an input *)
(* it was made from, and a run that nothing disturbs has exactly the       *)
(* status that its arguments, its files and its output deserve.            *)
(***************************************************************************)
EXTENDS WorkbenchInvariant, SequenceTheorems, TLAPS

Source == [inode : Inodes, content : Contents]
Declaration == [name : Names, sha256 : Contents]

-----------------------------------------------------------------------------
\* The lists a run goes through, from what it was asked and read.
LEMMA Inputs ==
  ASSUME NEW r \in Runs, Requested(r)
  PROVE  /\ Len(request[r].inputs) \in Nat
         /\ DOMAIN request[r].inputs = 1 .. Len(request[r].inputs)
         /\ 1 \in DOMAIN request[r].inputs
         /\ \A k \in DOMAIN request[r].inputs : request[r].inputs[k] \in Names
<1>1. request[r].inputs \in Seq(Names) /\ request[r].inputs # <<>>
  BY DEF Requested
<1>2. Len(request[r].inputs) \in Nat /\ DOMAIN request[r].inputs = 1 .. Len(request[r].inputs)
  BY <1>1, LenProperties
<1>3. Len(request[r].inputs) # 0
  BY <1>1, EmptySeq
<1> QED
  BY <1>1, <1>2, <1>3, ElementOfSeq

LEMMA Declarations ==
  ASSUME TypeOK, NEW r \in Runs, manifest[r] # {}
  PROVE  /\ Declared(r) \in Seq(Declaration)
         /\ Len(DeclaredNames(r)) \in Nat /\ Len(DeclaredNames(r)) = Len(Declared(r))
         /\ DeclaredNames(r) \in Seq(Names)
         /\ DOMAIN DeclaredNames(r) = 1 .. Len(DeclaredNames(r))
         /\ \A k \in DOMAIN DeclaredNames(r) : DeclaredNames(r)[k] \in Names
<1>1. PICK c \in Contents : manifest[r] = {c}
  BY DEF TypeOK
<1>2. Declared(r) = c.declares
  <2>1. (CHOOSE m \in manifest[r] : TRUE) = c
    BY <1>1
  <2> QED
    BY <2>1 DEF Declared
<1>3. Declared(r) \in Seq(Declaration)
  BY <1>2, ContentsAreRecords DEF Declaration
<1>4. /\ Len(Declared(r)) \in Nat /\ DOMAIN Declared(r) = 1 .. Len(Declared(r))
      /\ \A k \in DOMAIN Declared(r) : Declared(r)[k] \in Declaration
  BY <1>3, LenProperties, ElementOfSeq
<1>5. DeclaredNames(r) = [k \in 1 .. Len(Declared(r)) |-> Declared(r)[k].name]
  BY <1>4 DEF DeclaredNames
<1>6. \A k \in 1 .. Len(Declared(r)) : Declared(r)[k].name \in Names
  BY <1>4 DEF Declaration
<1>7. DeclaredNames(r) \in Seq(Names) /\ Len(DeclaredNames(r)) = Len(Declared(r))
  BY <1>4, <1>5, <1>6
<1> QED
  BY <1>3, <1>4, <1>5, <1>6, <1>7

LEMMA Paths ==
  ASSUME TypeOK, NEW r \in Runs, Requested(r)
  PROVE  /\ InputPaths(r) \in Seq(Names) /\ Len(InputPaths(r)) \in Nat
         /\ DOMAIN InputPaths(r) = 1 .. Len(InputPaths(r))
         /\ Len(InputPaths(r)) >= Len(request[r].inputs)
         /\ \A k \in 1 .. Len(request[r].inputs) : InputPaths(r)[k] = request[r].inputs[k]
         /\ manifest[r] = {} => InputPaths(r) = request[r].inputs
         /\ manifest[r] # {} =>
              /\ Len(InputPaths(r)) = Len(request[r].inputs) + Len(DeclaredNames(r))
              /\ \A k \in 1 .. Len(InputPaths(r)) : k > Len(request[r].inputs) =>
                   InputPaths(r)[k] = DeclaredNames(r)[k - Len(request[r].inputs)]
<1>1. request[r].inputs \in Seq(Names) /\ Len(request[r].inputs) \in Nat
  BY Inputs DEF Requested
<1>2. CASE manifest[r] = {}
  <2>1. InputPaths(r) = request[r].inputs
    BY <1>1, <1>2, ConcatEmptySeq DEF InputPaths
  <2> QED
    BY <1>1, <1>2, <2>1, LenProperties
<1>3. CASE manifest[r] # {}
  <2>1. InputPaths(r) = request[r].inputs \o DeclaredNames(r)
    BY <1>3 DEF InputPaths
  <2>2. DeclaredNames(r) \in Seq(Names) /\ Len(DeclaredNames(r)) \in Nat
    BY <1>3, Declarations
  <2>3. InputPaths(r) \in Seq(Names) /\ Len(InputPaths(r)) = Len(request[r].inputs) + Len(DeclaredNames(r))
    BY <1>1, <2>1, <2>2, ConcatProperties
  <2>4. \A k \in 1 .. Len(InputPaths(r)) :
          InputPaths(r)[k] = IF k <= Len(request[r].inputs) THEN request[r].inputs[k]
                             ELSE DeclaredNames(r)[k - Len(request[r].inputs)]
    BY <1>1, <2>1, <2>2, <2>3, ConcatProperties
  <2>5. DOMAIN InputPaths(r) = 1 .. Len(InputPaths(r)) /\ Len(InputPaths(r)) \in Nat
    BY <2>3, LenProperties
  <2> QED
    BY <1>1, <1>3, <2>2, <2>3, <2>4, <2>5
<1> QED
  BY <1>2, <1>3

\* A list stays what it is while its manifest and its request do.
LEMMA SameLists ==
  ASSUME NEW r \in Runs, request' = request, manifest'[r] = manifest[r]
  PROVE  /\ InputPaths(r)' = InputPaths(r) /\ DeclaredNames(r)' = DeclaredNames(r)
         /\ SourceNames(r)' = SourceNames(r) /\ OutputOf(r)' = OutputOf(r)
         /\ Replaying(r)' = Replaying(r) /\ Requested(r)' = Requested(r)
BY DEF InputPaths, DeclaredNames, Declared, SourceNames, OutputOf, Replaying, Requested

-----------------------------------------------------------------------------
\* What a run has does not depend on another run's step.
SameRow(r) ==
  /\ pc'[r] = pc[r] /\ checked'[r] = checked[r] /\ exit'[r] = exit[r]
  /\ manifest'[r] = manifest[r] /\ sources'[r] = sources[r]

LEMMA Frame ==
  ASSUME NEW r \in Runs, RunInv(r), SameRow(r), request' = request, steady' = steady, entry' = entry
  PROVE  RunInv(r)'
<1> USE SameLists DEF SameRow
<1>1. Requested(r)' /\ Owned(r)'
  BY DEF RunInv, Owned, At
<1>2. Inside(r)'
  BY DEF RunInv, Inside, Comparing, At
<1>3. r \in steady => ComparedBefore(r)' /\ ReadFiles(r)' /\ ComparedAfter(r)' /\ Apart(r)'
  BY DEF RunInv, ComparedBefore, ReadFiles, ComparedAfter, Apart, Comparing, At, Looking
<1> QED
  BY <1>1, <1>2, <1>3 DEF RunInv

\* A step of run q that leaves the names alone.
LEMMA Progress ==
  ASSUME IInv, NEW q \in Runs, TypeOK', request' = request, steady' = steady, entry' = entry,
         \A r \in Runs \ {q} : SameRow(r), RunInv(q)'
  PROVE  IInv'
BY Frame DEF IInv

LEMMA InitInvariant == Init => IInv
<1>1. ASSUME Init PROVE IInv
  <2>1. PICK s \in Situations :
          entry = s.entry /\ content = s.content /\ request = s.request /\ others = s.others
    BY <1>1 DEF Init
  <2>2. /\ entry \in [Names -> Inodes \cup Names \cup {Absent}]
        /\ content \in [Inodes -> Contents] /\ others \subseteq {"change", "fail"}
        /\ \A r \in Runs : Requested(r)
    BY <2>1, SituationsAreStarts DEF Requested, Replaying, OutputOf
  <2>3. \A r \in Runs : pc[r] = "arguments" /\ checked[r] = 0 /\ manifest[r] = {}
                        /\ sources[r] = <<>> /\ exit[r] = "running"
    BY <1>1 DEF Init
  <2>4. \A n \in Names : entry[n] \notin Runs
    BY <2>2, FilesAreApart
  <2>5. TypeOK
    <3>1. entry \in [Names -> Inodes \cup Runs \cup Names \cup {Absent}]
      BY <2>2
    <3>2. \A r \in Runs : At(r, "ended") <=> exit[r] # "running"
      BY <2>3 DEF At
    <3>3. manifest \in [Runs -> {{}} \cup {{c} : c \in Contents}]
      BY <1>1 DEF Init
    <3>4. sources \in [Runs -> Seq(Source)]
      BY <1>1 DEF Init
    <3> QED
      BY <1>1, <2>2, <3>1, <3>2, <3>3, <3>4, ChangesAreCounted DEF Init, TypeOK, Steps, Source
  <2>6. \A r \in Runs : RunInv(r)
    BY <2>2, <2>3, <2>4 DEF RunInv, Owned, Inside, ComparedBefore, ReadFiles, ComparedAfter, Apart,
       Comparing, Looking, At
  <2> QED
    BY <2>5, <2>6 DEF IInv
<1> QED
  BY <1>1

-----------------------------------------------------------------------------
Findings == SUBSET (ALL_RULE_IDS \cup DETECTION_RULE_IDS)
Manifests == {{}} \cup {{c} : c \in Contents}
Statuses == {"0", "1", "2", "interrupted", "internal", "killed"}

\* The types of what a run keeps beside its place.
Kept ==
  /\ checked' \in [Runs -> Nat] /\ manifest' \in [Runs -> Manifests]
  /\ sources' \in [Runs -> Seq(Source)] /\ findings' \in [Runs -> Findings]

LEMMA GoesTypes ==
  ASSUME TypeOK, NEW q \in Runs, NEW s \in Steps \ {"ended"}, pc[q] # "ended",
         pc' = [pc EXCEPT ![q] = s], exit' = exit, Kept, UNCHANGED <<content, others, changes>>,
         entry' \in [Names -> Inodes \cup Runs \cup Names \cup {Absent}],
         alone' \subseteq Runs, steady' \subseteq Runs
  PROVE  TypeOK'
<1>1. pc' \in [Runs -> Steps]
  BY DEF TypeOK
<1>2. \A r \in Runs : At(r, "ended")' <=> exit'[r] # "running"
  BY DEF TypeOK, At
<1> QED
  BY <1>1, <1>2 DEF TypeOK, Kept, Findings, Manifests, Source

LEMMA ExitTypes ==
  ASSUME TypeOK, NEW q \in Runs, NEW e \in Statuses, Exit(q, e), UNCHANGED results,
         UNCHANGED <<content, others, changes>>,
         entry' \in [Names -> Inodes \cup Runs \cup Names \cup {Absent}],
         alone' \subseteq Runs, steady' \subseteq Runs
  PROVE  TypeOK'
<1>1. pc' \in [Runs -> Steps]
  BY DEF TypeOK, Exit, Steps
<1>2. exit' \in [Runs -> {"running", "0", "1", "2", "interrupted", "internal", "killed"}]
  BY DEF TypeOK, Exit, Statuses
<1>3. \A r \in Runs : At(r, "ended")' <=> exit'[r] # "running"
  BY DEF TypeOK, At, Exit, Statuses
<1> QED
  BY <1>1, <1>2, <1>3 DEF TypeOK, Exit, results

\* A step of run q to another place, nothing of the directory changing.
LEMMA Goes ==
  ASSUME IInv, NEW q \in Runs, NEW s \in Steps \ {"ended"}, pc[q] # "ended",
         pc' = [pc EXCEPT ![q] = s], exit' = exit, Kept, Unpublished,
         \A r \in Runs \ {q} : checked'[r] = checked[r] /\ manifest'[r] = manifest[r] /\ sources'[r] = sources[r],
         RunInv(q)'
  PROVE  IInv'
<1>1. TypeOK
  BY DEF IInv
<1>2. TypeOK'
  <2>1. UNCHANGED <<entry, content, others, changes, alone, steady>>
    BY DEF Unpublished, directory, history
  <2> QED
    BY <1>1, <2>1, GoesTypes DEF TypeOK
<1>3. \A r \in Runs \ {q} : SameRow(r)
  BY <1>1 DEF SameRow, TypeOK
<1> QED
  BY <1>2, <1>3, Progress DEF Unpublished, directory, history

\* A run that has not linked its report ends without one.
LEMMA Ends ==
  ASSUME IInv, NEW q \in Runs, pc[q] \notin {"published", "ended"},
         NEW e \in {"2", "interrupted", "killed"}, Exit(q, e),
         UNCHANGED <<directory, request, results, steady>>, alone' \subseteq alone
  PROVE  IInv'
<1>1. TypeOK /\ RunInv(q)
  BY DEF IInv
<1>2. UNCHANGED <<entry, content, others, changes>>
  BY DEF directory
<1>3. TypeOK'
  BY <1>1, <1>2, ExitTypes DEF TypeOK, Statuses
<1>4. \A r \in Runs \ {q} : SameRow(r)
  BY <1>1 DEF SameRow, TypeOK, Exit, results
<1>5. pc'[q] = "ended" /\ exit'[q] = e /\ manifest' = manifest /\ exit[q] = "running"
  BY <1>1 DEF Exit, TypeOK, results, At
<1>6. \A n \in Names : entry[n] # q
  BY <1>1, <1>5 DEF RunInv, Owned, At
<1>7. RunInv(q)'
  BY <1>1, <1>2, <1>5, <1>6, SameLists DEF RunInv, Owned, Inside, ComparedBefore, ReadFiles,
     ComparedAfter, Apart, Comparing, Looking, At
<1> QED
  BY <1>2, <1>3, <1>4, <1>7, Progress

LEMMA Refused ==
  ASSUME IInv, NEW q \in Runs, pc[q] \notin {"published", "ended"}, Fail(q), UNCHANGED results, Unpublished
  PROVE  IInv'
BY Ends DEF Fail, Unpublished, history

LEMMA KeptSame == ASSUME TypeOK, UNCHANGED <<checked, results>> PROVE Kept
BY DEF Kept, TypeOK, results, Source, Manifests, Findings

-----------------------------------------------------------------------------
LEMMA ParseArgumentsStep == ASSUME IInv, NEW q \in Runs, ParseArguments(q) PROVE IInv'
<1>1. pc[q] = "arguments" /\ TypeOK /\ RunInv(q) /\ UNCHANGED results /\ Unpublished
  BY DEF ParseArguments, At, IInv
<1>2. CASE Fail(q)
  BY <1>1, <1>2, Refused
<1>3. CASE Goto(q, "same file")
  <2>1. pc' = [pc EXCEPT ![q] = "same file"] /\ exit' = exit /\ checked' = checked /\ pc'[q] = "same file"
    BY <1>1, <1>3 DEF Goto, TypeOK
  <2>2. 1 \in DOMAIN InputPaths(q) /\ checked[q] = 0 /\ manifest[q] = {} /\ sources[q] = <<>>
    BY <1>1, Paths, Inputs DEF RunInv, Inside
  <2>3. UNCHANGED <<entry, request, steady, manifest, sources>>
    BY <1>1 DEF Unpublished, directory, history, results
  <2>4. RunInv(q)'
    <3>1. \A k \in DOMAIN request[q].inputs : ~(k <= 0)
      BY <1>1, Inputs DEF RunInv
    <3>2. (Requested(q) /\ Owned(q))'
      BY <1>1, <2>1, <2>3, SameLists DEF RunInv, Owned, At
    <3>4. Inside(q)'
      <4>0. checked'[q] = 0
        BY <2>1, <2>2
      <4>1. checked'[q] + 1 = 1
        BY <4>0
      <4> QED
        BY <2>1, <2>2, <2>3, <4>1, SameLists DEF Inside, Comparing, At
    <3>3. q \in steady => (ComparedBefore(q) /\ ReadFiles(q) /\ ComparedAfter(q) /\ Apart(q))'
      BY <1>1, <2>1, <2>2, <2>3, <3>1, SameLists DEF RunInv, Owned, ComparedBefore, ReadFiles,
         ComparedAfter, Apart, Comparing, Looking, At
    <3> QED
      BY <2>3, <3>2, <3>3, <3>4 DEF RunInv
  <2>5. Kept
    BY <1>1, <2>1, KeptSame
  <2> QED
    BY <1>1, <2>1, <2>3, <2>4, <2>5, Goes DEF Steps
<1> QED
  BY <1>2, <1>3 DEF ParseArguments

LEMMA CompareFileStep == ASSUME IInv, NEW q \in Runs, CompareFile(q) PROVE IInv'
<1>1. pc[q] = "same file" /\ TypeOK /\ RunInv(q) /\ UNCHANGED results /\ Unpublished
  BY DEF CompareFile, At, IInv
<1>2. CASE Fail(q)
  BY <1>1, <1>2, Refused
<1>3. CASE Goto(q, "same path")
  <2>1. pc' = [pc EXCEPT ![q] = "same path"] /\ exit' = exit /\ checked' = checked /\ pc'[q] = "same path"
    BY <1>1, <1>3 DEF Goto, TypeOK
  <2>3. UNCHANGED <<entry, request, steady, manifest, sources>>
    BY <1>1 DEF Unpublished, directory, history, results
  <2>4. RunInv(q)'
    BY <1>1, <2>1, <2>3, SameLists DEF RunInv, Owned, Inside, ComparedBefore, ReadFiles,
       ComparedAfter, Apart, Comparing, Looking, At
  <2>5. Kept
    BY <1>1, <2>1, KeptSame
  <2> QED
    BY <1>1, <2>1, <2>3, <2>4, <2>5, Goes DEF Steps
<1> QED
  BY <1>2, <1>3 DEF CompareFile

\* An output that the path comparison lets pass beside itself is no file.
LEMMA NoAlias ==
  ASSUME TypeOK, NEW o \in Names, ~SamePath(o, o)
  PROVE  entry[o] \notin Inodes
BY FilesAreApart DEF SamePath, Exists, Target, TypeOK

LEMMA ComparePathStep == ASSUME IInv, NEW q \in Runs, ComparePath(q) PROVE IInv'
<1>1. pc[q] = "same path" /\ TypeOK /\ RunInv(q) /\ UNCHANGED results /\ Unpublished
  BY DEF ComparePath, At, IInv
<1>2. UNCHANGED <<entry, request, steady, manifest, sources>>
  BY <1>1 DEF Unpublished, directory, history, results
<1>a. PICK n : n = checked[q] + 1
  OBVIOUS
<1>b. PICK o : o = OutputOf(q)
  OBVIOUS
<1>3. /\ Requested(q) /\ o \in Names /\ checked[q] \in Nat
      /\ n \in 1 .. Len(InputPaths(q)) /\ Len(InputPaths(q)) \in Nat
      /\ DOMAIN InputPaths(q) = 1 .. Len(InputPaths(q))
  <2>1. Requested(q) /\ Inside(q)
    BY <1>1 DEF RunInv
  <2>2. Len(InputPaths(q)) \in Nat /\ DOMAIN InputPaths(q) = 1 .. Len(InputPaths(q))
    BY <1>1, <2>1, Paths
  <2>3. checked[q] \in Nat /\ n \in DOMAIN InputPaths(q)
    BY <1>1, <1>a, <2>1 DEF Inside, Comparing, TypeOK
  <2> QED
    BY <1>b, <2>1, <2>2, <2>3 DEF Requested
<1>4. CASE SamePath(InputPaths(q)[n], o)
  BY <1>a, <1>b, <1>1, <1>4, Refused DEF ComparePath
<1>5. CASE ~SamePath(InputPaths(q)[n], o)
  <2>1. InputPaths(q)[n] = o => entry[o] \notin Inodes
    BY <1>a, <1>b, <1>1, <1>3, <1>5, NoAlias
  <2>0. \A k \in 1 .. n : (k \in 1 .. checked[q] /\ k <= checked[q]) \/ k = n
    BY <1>a, <1>3
  <2>2. q \in steady /\ manifest[q] = {} =>
          \A k \in 1 .. n : request[q].inputs[k] = o => entry[o] \notin Inodes
    <3> SUFFICES ASSUME q \in steady, manifest[q] = {}, NEW k \in 1 .. n, request[q].inputs[k] = o
                 PROVE entry[o] \notin Inodes
      OBVIOUS
    <3>1. InputPaths(q) = request[q].inputs
      BY <1>1, <1>3, Paths
    <3>2. k \in DOMAIN request[q].inputs
      BY <1>3, <3>1
    <3>3. CASE k = n
      BY <2>1, <3>1, <3>3
    <3>4. CASE k <= checked[q]
      BY <1>b, <1>1, <3>2, <3>4 DEF RunInv, ComparedBefore, Comparing
    <3> QED
      BY <2>0, <3>3, <3>4
  <2>3. q \in steady /\ manifest[q] # {} => \A k \in 1 .. n : InputPaths(q)[k] # o
    <3> SUFFICES ASSUME q \in steady, manifest[q] # {} PROVE \A k \in 1 .. n : InputPaths(q)[k] # o
      OBVIOUS
    <3>0. \A k \in 1 .. checked[q] : InputPaths(q)[k] # o
      BY <1>b, <1>1 DEF RunInv, ComparedAfter, Comparing
    <3>1. Replaying(q) /\ Len(sources[q]) = Len(DeclaredNames(q)) /\ request[q].inputs[1] # o
      BY <1>b, <1>1 DEF RunInv, Inside, ReadFiles, Comparing, Looking
    <3>2. Len(request[q].inputs) = 1
      BY <1>3, <3>1 DEF Requested
    <3>3. /\ InputPaths(q)[1] = request[q].inputs[1]
          /\ Len(InputPaths(q)) = 1 + Len(DeclaredNames(q))
          /\ \A k \in 1 .. Len(InputPaths(q)) : k > 1 => InputPaths(q)[k] = DeclaredNames(q)[k - 1]
      <4>1. /\ \A k \in 1 .. Len(request[q].inputs) : InputPaths(q)[k] = request[q].inputs[k]
            /\ Len(InputPaths(q)) = Len(request[q].inputs) + Len(DeclaredNames(q))
            /\ \A k \in 1 .. Len(InputPaths(q)) : k > Len(request[q].inputs) =>
                 InputPaths(q)[k] = DeclaredNames(q)[k - Len(request[q].inputs)]
        BY <1>1, <1>3, Paths
      <4> QED
        BY <3>2, <4>1
    <3>4. \A k \in 1 .. Len(DeclaredNames(q)) : DeclaredNames(q)[k] = o => entry[o] \in Inodes
      BY <1>b, <1>1, <3>1 DEF RunInv, ReadFiles, Looking
    <3>5. InputPaths(q)[n] # o
      <4>1. CASE n = 1
        BY <3>1, <3>3, <4>1
      <4>2. CASE n # 1
        <5>1. Len(DeclaredNames(q)) \in Nat
          BY <1>1, Declarations
        <5>2. n > 1 /\ n - 1 \in 1 .. Len(DeclaredNames(q))
          BY <1>3, <3>3, <4>2, <5>1
        <5>3. InputPaths(q)[n] = DeclaredNames(q)[n - 1]
          BY <1>3, <3>3, <5>2
        <5> QED
          BY <2>1, <3>4, <5>2, <5>3
      <4> QED
        BY <4>1, <4>2
    <3> QED
      BY <2>0, <3>0, <3>5
  <2>4. CASE n < Len(InputPaths(q))
    <3>1. /\ checked' = [checked EXCEPT ![q] = n] /\ pc' = [pc EXCEPT ![q] = "same file"]
          /\ exit' = exit
      BY <1>a, <1>b, <1>5, <2>4 DEF ComparePath
    <3>2. checked'[q] = n /\ pc'[q] = "same file" /\ checked' \in [Runs -> Nat]
      <4>1. n \in Nat
        BY <1>3
      <4> QED
        BY <1>1, <3>1, <4>1 DEF TypeOK
    <3>3. RunInv(q)'
      <4>1. (Requested(q) /\ Owned(q))'
        BY <1>1, <1>2, <3>1, <3>2, SameLists DEF RunInv, Owned, At
      <4>2. Inside(q)'
        <5>1. n + 1 \in DOMAIN InputPaths(q)
          BY <1>3, <2>4
        <5>2. checked'[q] + 1 \in DOMAIN InputPaths(q)'
          BY <1>1, <1>2, <3>2, <5>1, SameLists
        <5> QED
          BY <1>1, <1>2, <3>2, <5>2, SameLists DEF RunInv, Inside, Comparing, At
      <4>3. q \in steady => (ComparedBefore(q) /\ ReadFiles(q) /\ ComparedAfter(q) /\ Apart(q))'
        <5> SUFFICES ASSUME q \in steady PROVE (ComparedBefore(q) /\ ReadFiles(q) /\ ComparedAfter(q) /\ Apart(q))'
          OBVIOUS
        <5>1. ComparedBefore(q)'
          <6>1. \A k \in DOMAIN request[q].inputs : k <= n => k \in 1 .. n
            BY <1>3, Inputs
          <6> QED
            BY <1>b, <1>1, <1>2, <2>2, <3>2, <6>1, SameLists DEF ComparedBefore, Comparing
        <5>2. ReadFiles(q)'
          BY <1>1, <1>2, <3>2, SameLists DEF RunInv, ReadFiles, Looking, At
        <5>3. ComparedAfter(q)'
          BY <1>b, <1>1, <1>2, <2>3, <3>2, SameLists DEF ComparedAfter, Comparing
        <5>4. Apart(q)'
          BY <1>1, <1>2, <3>2, SameLists DEF RunInv, Owned, Apart, At
        <5> QED
          BY <5>1, <5>2, <5>3, <5>4
      <4> QED
        BY <1>2, <4>1, <4>2, <4>3 DEF RunInv
    <3>4. Kept
      BY <1>1, <3>2 DEF Kept, TypeOK, results, Source, Manifests, Findings
    <3> QED
      BY <1>1, <1>2, <3>1, <3>3, <3>4, Goes DEF Steps, TypeOK
  <2>5. CASE ~(n < Len(InputPaths(q)))
    <3>1. /\ checked' = [checked EXCEPT ![q] = 0] /\ pc' = [pc EXCEPT ![q] = AfterChecks(q)]
          /\ exit' = exit
      BY <1>a, <1>b, <1>5, <2>5 DEF ComparePath
    <3>2. n = Len(InputPaths(q)) /\ checked'[q] = 0 /\ checked' \in [Runs -> Nat] /\ pc'[q] = AfterChecks(q)
      <4>0. n \in Nat /\ n <= Len(InputPaths(q)) /\ Len(InputPaths(q)) \in Nat
        BY <1>3
      <4>1. n = Len(InputPaths(q))
        BY <2>5, <4>0
      <4> QED
        BY <1>1, <3>1, <4>1 DEF TypeOK
    <3>0. pc'[q] \in {"select", "manifest", "load"}
      BY <3>2 DEF AfterChecks
    <3>3. (Requested(q) /\ Owned(q))'
      BY <1>1, <1>2, <3>1, <3>0, SameLists DEF RunInv, Owned, At
    <3>4. Inside(q)'
      <4>1. CASE AfterChecks(q) = "load"
        <5>1. manifest[q] = {} /\ ~Replaying(q) /\ sources[q] = <<>>
          BY <1>1, <4>1 DEF AfterChecks, RunInv, Inside, Comparing
        <5>2. SourceNames(q) = request[q].inputs /\ 1 \in DOMAIN SourceNames(q)
          BY <1>a, <1>b, <1>3, <5>1, Inputs DEF SourceNames
        <5>3. Len(sources[q]) + 1 = 1
          BY <5>1
        <5>4. Len(sources'[q]) + 1 \in DOMAIN SourceNames(q)'
          BY <1>1, <1>2, <5>2, <5>3, SameLists
        <5> QED
          BY <1>1, <1>2, <3>2, <4>1, <5>1, <5>4, SameLists DEF RunInv, Inside, Comparing, At
      <4>2. CASE AfterChecks(q) # "load"
        BY <1>1, <1>2, <3>2, <4>2, SameLists DEF RunInv, Inside, Comparing, At, AfterChecks
      <4> QED
        BY <4>1, <4>2
    <3>5. q \in steady => (ComparedBefore(q) /\ ReadFiles(q) /\ ComparedAfter(q) /\ Apart(q))'
      <4> SUFFICES ASSUME q \in steady PROVE (ComparedBefore(q) /\ ReadFiles(q) /\ ComparedAfter(q) /\ Apart(q))'
        OBVIOUS
      <4>1. CASE manifest[q] # {}
        <5>1. pc'[q] = "select" /\ o \notin ToSet(InputPaths(q))
          BY <1>a, <1>b, <1>3, <2>3, <3>2, <4>1 DEF AfterChecks, ToSet
        <5> QED
          BY <1>b, <1>1, <1>2, <4>1, <5>1, SameLists DEF ComparedBefore, ReadFiles, ComparedAfter,
             Apart, Comparing, Looking, At
      <4>2. CASE manifest[q] = {}
        <5>1. InputPaths(q) = request[q].inputs /\ sources[q] = <<>> /\ pc'[q] \in {"manifest", "load"}
          BY <1>a, <1>b, <1>1, <1>3, <3>2, <4>2, Paths DEF AfterChecks, RunInv, Inside, Comparing
        <5>2. \A k \in DOMAIN request[q].inputs : request[q].inputs[k] = o => entry[o] \notin Inodes
          BY <1>a, <1>b, <1>3, <2>2, <3>2, <4>2, <5>1
        <5>3. \A m \in Names : entry[m] # q
          BY <1>1 DEF RunInv, Owned, At
        <5>4. \A k \in 1 .. Len(sources[q]) : FALSE
          BY <5>1
        <5>5. ReadFiles(q)'
          BY <1>2, <4>2, <5>4 DEF ReadFiles
        <5>6. ComparedBefore(q)'
          BY <1>b, <1>2, <5>2, SameLists DEF ComparedBefore
        <5>7. (ComparedAfter(q) /\ Apart(q))'
          BY <1>2, <4>2, <5>1, <5>3 DEF ComparedAfter, Apart
        <5> QED
          BY <5>5, <5>6, <5>7
      <4> QED
        BY <4>1, <4>2
    <3>6. Kept
      BY <1>1, <3>2 DEF Kept, TypeOK, results, Source, Manifests, Findings
    <3>7. RunInv(q)'
      BY <1>2, <3>3, <3>4, <3>5 DEF RunInv
    <3>8. AfterChecks(q) \in Steps \ {"ended"}
      BY DEF AfterChecks, Steps
    <3> QED
      BY <1>1, <1>2, <3>1, <3>6, <3>7, <3>8, Goes DEF TypeOK
  <2> QED
    BY <2>4, <2>5
<1> QED
  BY <1>4, <1>5

-----------------------------------------------------------------------------
LEMMA LoadManifestStep == ASSUME IInv, NEW q \in Runs, LoadManifest(q) PROVE IInv'
<1>1. pc[q] = "manifest" /\ TypeOK /\ RunInv(q) /\ UNCHANGED <<sources, findings>> /\ Unpublished
  BY DEF LoadManifest, At, IInv
<1>2. UNCHANGED <<entry, request, steady>>
  BY <1>1 DEF Unpublished, directory, history
<1>3. CASE Fail(q) /\ UNCHANGED manifest
  BY <1>1, <1>3, Refused DEF results
<1>4. ASSUME NEW c, c = content[entry[request[q].inputs[1]]],
             Readable(request[q].inputs[1]), c.kind = "manifest",
             manifest' = [manifest EXCEPT ![q] = {c}], Goto(q, "load")
      PROVE  IInv'
  <2>1. request[q].inputs[1] \in Names /\ 1 \in DOMAIN request[q].inputs
    BY <1>1, Inputs DEF RunInv
  <2>2. entry[request[q].inputs[1]] \in Inodes /\ c \in Contents
    BY <1>1, <1>4 DEF Readable, TypeOK
  <2>3. manifest'[q] = {c} /\ pc'[q] = "load" /\ pc' = [pc EXCEPT ![q] = "load"] /\ exit' = exit /\ checked' = checked
    BY <1>1, <1>4 DEF Goto, TypeOK
  <2>4. /\ Replaying(q) /\ manifest[q] = {} /\ sources[q] = <<>> /\ checked[q] = 0 /\ exit[q] = "running"
        /\ Requested(q) /\ \A n \in Names : entry[n] # q
    BY <1>1 DEF RunInv, Inside, Owned, At
  <2>5. Requested(q)' /\ Owned(q)' /\ Replaying(q)' /\ OutputOf(q)' = OutputOf(q)
    BY <1>2, <2>3, <2>4 DEF Requested, Owned, Replaying, OutputOf, At
  <2>6. Inside(q)'
    <3>1. c.declares \in Seq(Declaration) /\ c.declares # <<>>
      BY <1>4, <2>2, ContentsAreRecords DEF Declaration
    <3>2. 1 \in DOMAIN c.declares
      <4>1. Len(c.declares) \in Nat /\ Len(c.declares) # 0 /\ DOMAIN c.declares = 1 .. Len(c.declares)
        BY <3>1, LenProperties, EmptySeq
      <4> QED
        BY <4>1
    <3>3. (CHOOSE m \in {c} : TRUE) = c
      OBVIOUS
    <3>4. DOMAIN SourceNames(q)' = DOMAIN c.declares
      BY <2>3, <2>5, <3>3 DEF SourceNames, DeclaredNames, Declared
    <3>5. Len(sources[q]) + 1 = 1
      BY <2>4
    <3>6. Len(sources'[q]) + 1 \in DOMAIN SourceNames(q)'
      BY <1>1, <3>2, <3>4, <3>5
    <3> QED
      BY <1>1, <2>3, <2>4, <2>5, <3>6 DEF Inside, Comparing, At
  <2>7. q \in steady => ReadFiles(q)'
    <3>1. \A k \in 1 .. Len(sources[q]) : FALSE
      BY <2>4
    <3>2. Len(sources[q]) < 1
      BY <2>4
    <3>3. q \in steady => request[q].inputs[1] # OutputOf(q)
      BY <1>1, <2>1, <2>2, <2>4, <3>2 DEF RunInv, ComparedBefore
    <3> QED
      BY <1>1, <1>2, <2>3, <2>5, <3>1, <3>3 DEF ReadFiles
  <2>8. (ComparedBefore(q) /\ ComparedAfter(q) /\ Apart(q))'
    BY <1>2, <2>3, <2>4 DEF ComparedBefore, ComparedAfter, Apart, Comparing
  <2>9. RunInv(q)'
    BY <1>2, <2>5, <2>6, <2>7, <2>8 DEF RunInv
  <2>10. Kept
    BY <1>1, <1>4, <2>2, <2>3 DEF Kept, TypeOK, Source, Manifests, Findings
  <2> QED
    BY <1>1, <1>4, <2>3, <2>9, <2>10, Goes DEF Steps, TypeOK
<1> QED
  BY <1>3, <1>4 DEF LoadManifest

\* What the loading of one more source tells about the names read so far.
LEMMA ReadApart ==
  ASSUME TypeOK, NEW q \in Runs, RunInv(q), pc[q] = "load", q \in steady,
         entry[SourceNames(q)[Len(sources[q]) + 1]] \in Inodes
  PROVE  /\ manifest[q] = {} => \A k \in 1 .. Len(sources[q]) + 1 : request[q].inputs[k] # OutputOf(q)
         /\ manifest[q] # {} => \A k \in 1 .. Len(sources[q]) + 1 :
              DeclaredNames(q)[k] = OutputOf(q) => entry[OutputOf(q)] \in Inodes
<1>1. PICK n : n = Len(sources[q]) + 1
  OBVIOUS
<1>2. Len(sources[q]) \in Nat
  BY LenProperties DEF TypeOK
<1>3. \A k \in 1 .. Len(sources[q]) + 1 : k \in 1 .. Len(sources[q]) \/ (k = n /\ Len(sources[q]) < k)
  BY <1>1, <1>2
<1>4. n \in DOMAIN SourceNames(q) /\ entry[SourceNames(q)[n]] \in Inodes
  BY <1>1 DEF RunInv, Inside, At
<1>5. CASE manifest[q] = {}
  <2>1. SourceNames(q) = request[q].inputs
    BY <1>5 DEF RunInv, Inside, At, SourceNames
  <2>2. \A k \in 1 .. Len(sources[q]) : request[q].inputs[k] # OutputOf(q)
    BY <1>5 DEF RunInv, ReadFiles, At
  <2>3. Len(sources[q]) < n => request[q].inputs[n] # OutputOf(q)
    BY <1>4, <1>5, <2>1 DEF RunInv, ComparedBefore
  <2> QED
    BY <1>3, <1>5, <2>2, <2>3
<1>6. CASE manifest[q] # {}
  <2>1. SourceNames(q) = DeclaredNames(q)
    BY <1>6 DEF RunInv, Inside, SourceNames
  <2>2. \A k \in 1 .. Len(sources[q]) : DeclaredNames(q)[k] = OutputOf(q) => entry[OutputOf(q)] \in Inodes
    BY <1>6 DEF RunInv, ReadFiles, Looking
  <2> QED
    BY <1>3, <1>4, <1>6, <2>1, <2>2
<1> QED
  BY <1>5, <1>6

\* LoadSource where it accepts the source.
Loads(q) ==
  LET i == entry[SourceNames(q)[Len(sources[q]) + 1]]
  IN /\ i \in DOMAIN content
     /\ sources' = [sources EXCEPT ![q] = Append(@, [inode |-> i, content |-> content[i]])]
     /\ IF Len(sources[q]) + 1 = Len(SourceNames(q))
        THEN Goto(q, AfterLoading(q)) ELSE UNCHANGED run

LEMMA LoadSourceStep == ASSUME IInv, NEW q \in Runs, LoadSource(q) PROVE IInv'
<1>1. pc[q] = "load" /\ TypeOK /\ RunInv(q) /\ UNCHANGED <<manifest, findings>> /\ Unpublished
  BY DEF LoadSource, At, IInv
<1>2. UNCHANGED <<entry, request, steady>>
  BY <1>1 DEF Unpublished, directory, history
<1>3. CASE Fail(q) /\ UNCHANGED sources
  BY <1>1, <1>3, Refused DEF results
<1>4. CASE Loads(q)
  <2>0. PICK i : /\ i = entry[SourceNames(q)[Len(sources[q]) + 1]] /\ i \in DOMAIN content
                 /\ sources' = [sources EXCEPT ![q] = Append(@, [inode |-> i, content |-> content[i]])]
    BY <1>4 DEF Loads
  <2>1. i \in Inodes /\ [inode |-> i, content |-> content[i]] \in Source
    BY <1>1, <2>0 DEF TypeOK, Source
  <2>2. sources[q] \in Seq(Source) /\ sources \in [Runs -> Seq(Source)]
    BY <1>1 DEF TypeOK, Source
  <2>3. /\ sources'[q] \in Seq(Source) /\ Len(sources'[q]) = Len(sources[q]) + 1
        /\ sources' \in [Runs -> Seq(Source)]
    BY <2>0, <2>1, <2>2, AppendProperties
  <2>4. /\ Requested(q) /\ checked[q] = 0 /\ exit[q] = "running" /\ \A n \in Names : entry[n] # q
        /\ Len(sources[q]) + 1 \in DOMAIN SourceNames(q) /\ (Replaying(q) <=> manifest[q] # {})
    BY <1>1 DEF RunInv, Inside, Owned, At
  <2>5. /\ exit' = exit /\ checked' = checked
        /\ \/ /\ Len(sources'[q]) = Len(SourceNames(q))
              /\ pc' = [pc EXCEPT ![q] = AfterLoading(q)]
           \/ Len(sources'[q]) # Len(SourceNames(q)) /\ pc' = [pc EXCEPT ![q] = "load"]
    BY <1>1, <1>4, <2>3 DEF Loads, Goto, run, TypeOK
  <2>6a. PICK s : s = IF Len(sources'[q]) = Len(SourceNames(q)) THEN AfterLoading(q) ELSE "load"
    OBVIOUS
  <2>6. /\ s \in {"load", "same file", "select"} /\ pc' = [pc EXCEPT ![q] = s]
        /\ s = "load" <=> Len(sources'[q]) # Len(SourceNames(q))
        /\ s = "same file" => Replaying(q)
        /\ s = "select" => ~Replaying(q)
    BY <2>5, <2>6a DEF AfterLoading
  <2>7. pc'[q] = s
    BY <1>1, <2>6 DEF TypeOK
  <2>8. /\ Len(SourceNames(q)) \in Nat /\ DOMAIN SourceNames(q) = 1 .. Len(SourceNames(q))
        /\ Len(sources[q]) \in Nat
    BY <1>1, <2>2, <2>4, Inputs, Declarations, LenProperties DEF SourceNames
  <2>9. (Requested(q) /\ Owned(q))'
    BY <1>1, <1>2, <2>4, <2>5, <2>6, <2>7, SameLists DEF Owned, At
  <2>10. Inside(q)'
    <3>1. s = "load" => Len(sources'[q]) + 1 \in DOMAIN SourceNames(q)'
      <4>1. Len(sources[q]) + 1 # Len(SourceNames(q)) => Len(sources[q]) + 2 \in DOMAIN SourceNames(q)
        <5>1. Len(sources[q]) + 1 \in 1 .. Len(SourceNames(q))
          BY <2>4, <2>8
        <5>2. \A j, m \in Nat : j + 1 \in 1 .. m /\ j + 1 # m => j + 2 \in 1 .. m
          OBVIOUS
        <5> QED
          BY <2>8, <5>1, <5>2
      <4>2. Len(sources[q]) + 1 + 1 = Len(sources[q]) + 2
        BY <2>8
      <4> QED
        BY <1>1, <1>2, <2>3, <2>6, <4>1, <4>2, SameLists
    <3>2. s = "same file" => checked'[q] + 1 \in DOMAIN InputPaths(q)'
      <4>1. 1 \in DOMAIN InputPaths(q) 
        <5>1. 1 \in 1 .. Len(request[q].inputs)
          BY <2>4, Inputs
        <5>2. /\ DOMAIN InputPaths(q) = 1 .. Len(InputPaths(q)) /\ Len(InputPaths(q)) \in Nat
              /\ Len(InputPaths(q)) >= Len(request[q].inputs) /\ Len(request[q].inputs) \in Nat
          BY <1>1, <2>4, Paths, Inputs
        <5> QED
          BY <5>1, <5>2
      <4>2. checked'[q] = 0
        BY <2>4, <2>5
      <4>3. checked'[q] + 1 = 1
        BY <4>2
      <4> QED
        BY <1>1, <1>2, <4>1, <4>3, SameLists
    <3>3. s = "same file" => Len(sources'[q]) = Len(DeclaredNames(q)')
      <4>1. s = "same file" => Len(sources'[q]) = Len(DeclaredNames(q))
        BY <2>6 DEF SourceNames
      <4> QED
        BY <1>1, <1>2, <4>1, SameLists
    <3> QED
      BY <1>1, <1>2, <2>4, <2>5, <2>6, <2>7, <3>1, <3>2, <3>3, SameLists DEF Inside, Comparing, At
  <2>11. q \in steady => (ComparedBefore(q) /\ ReadFiles(q) /\ ComparedAfter(q) /\ Apart(q))'
    <3> SUFFICES ASSUME q \in steady PROVE (ComparedBefore(q) /\ ReadFiles(q) /\ ComparedAfter(q) /\ Apart(q))'
      OBVIOUS
    <3>1. /\ manifest[q] = {} => \A k \in 1 .. Len(sources'[q]) : request[q].inputs[k] # OutputOf(q)
          /\ manifest[q] # {} => \A k \in 1 .. Len(sources'[q]) :
               DeclaredNames(q)[k] = OutputOf(q) => entry[OutputOf(q)] \in Inodes
      BY <1>1, <2>0, <2>1, <2>3, ReadApart
    <3>2. ComparedBefore(q)'
      <4>1. \A k \in DOMAIN request[q].inputs : Len(sources'[q]) < k => Len(sources[q]) < k
        <5>1. \A k \in DOMAIN request[q].inputs : k \in Nat
          BY <2>4, Inputs
        <5> QED
          BY <2>3, <2>8, <5>1
      <4> QED
        BY <1>1, <1>2, <2>4, <2>6, <2>7, <4>1, SameLists DEF RunInv, ComparedBefore, Comparing
    <3>3. ReadFiles(q)'
      BY <1>1, <1>2, <2>7, <3>1, SameLists DEF RunInv, ReadFiles, Looking, At
    <3>4. ComparedAfter(q)'
      <4>1. \A k \in 1 .. checked'[q] : FALSE
        <5>1. checked'[q] = 0
          BY <2>4, <2>5
        <5> QED
          BY <5>1
      <4> QED
        BY <4>1 DEF ComparedAfter
    <3>5. Apart(q)'
      <4>1. s = "select" => OutputOf(q) \notin ToSet(InputPaths(q))
        <5>1. s = "select" => /\ InputPaths(q) = request[q].inputs /\ manifest[q] = {}
                              /\ Len(sources'[q]) = Len(request[q].inputs)
          BY <1>1, <2>4, <2>6, Paths DEF SourceNames
        <5>2. DOMAIN request[q].inputs = 1 .. Len(request[q].inputs)
          BY <2>4, Inputs
        <5> QED
          BY <3>1, <5>1, <5>2 DEF ToSet
      <4> QED
        BY <1>1, <1>2, <2>4, <2>6, <2>7, <4>1, SameLists DEF Apart
    <3> QED
      BY <3>2, <3>3, <3>4, <3>5
  <2>12. RunInv(q)'
    BY <1>2, <2>9, <2>10, <2>11 DEF RunInv
  <2>13. Kept
    BY <1>1, <2>3, <2>5 DEF Kept, TypeOK, Source, Manifests, Findings
  <2> QED
    BY <1>1, <2>0, <2>5, <2>6, <2>12, <2>13, Goes DEF Steps, TypeOK
<1> QED
  BY <1>3, <1>4 DEF LoadSource, Readable, Loads

-----------------------------------------------------------------------------
\* From the selection on, a run only goes on or ends.
After == {"select", "evaluate", "report", "publish"}

LEMMA Onward ==
  ASSUME IInv, NEW q \in Runs, pc[q] \in After, NEW s \in After,
         Goto(q, s), UNCHANGED <<manifest, sources>>, findings' \in [Runs -> Findings], Unpublished
  PROVE  IInv'
<1>1. TypeOK /\ RunInv(q) /\ UNCHANGED <<entry, request, steady, checked, exit>>
  BY DEF IInv, Unpublished, directory, history, Goto
<1>2. pc' = [pc EXCEPT ![q] = s] /\ pc'[q] = s
  BY <1>1 DEF Goto, TypeOK
<1>3. (Requested(q) /\ Owned(q))'
  BY <1>1, <1>2, SameLists DEF RunInv, Owned, At, After
<1>4. Inside(q)'
  BY <1>1, <1>2, SameLists DEF RunInv, Inside, Comparing, At, After
<1>5. q \in steady => (ComparedBefore(q) /\ ReadFiles(q) /\ ComparedAfter(q) /\ Apart(q))'
  BY <1>1, <1>2, SameLists DEF RunInv, ComparedBefore, ReadFiles, ComparedAfter, Apart, Comparing, Looking, At, After
<1>6. RunInv(q)'
  BY <1>1, <1>3, <1>4, <1>5 DEF RunInv
<1>7. Kept
  BY <1>1 DEF Kept, TypeOK, Source, Manifests
<1> QED
  BY <1>1, <1>2, <1>6, <1>7, Goes DEF After, Steps

LEMMA SelectStep == ASSUME IInv, NEW q \in Runs, Select(q) PROVE IInv'
<1>1. findings' = findings => findings' \in [Runs -> Findings]
  BY DEF IInv, TypeOK, Findings
<1> QED
  BY <1>1, Refused, Onward DEF Select, At, After, results

LEMMA EvaluateStep == ASSUME IInv, NEW q \in Runs, Evaluate(q) PROVE IInv'
<1>1. pc[q] = "evaluate" /\ TypeOK /\ Unpublished /\ UNCHANGED <<manifest, sources>>
  BY DEF Evaluate, At, IInv
<1>2. CASE Fail(q) /\ UNCHANGED findings
  BY <1>1, <1>2, Refused DEF results
<1>3. CASE Goto(q, "report") /\ findings' = [findings EXCEPT ![q] = Matched(ContentsOf(q)) \cap Selected(q)]
  <2>1. sources[q] \in Seq(Source)
    BY <1>1 DEF TypeOK, Source
  <2>2. \A c \in ContentsOf(q) : c \in Contents
    <3>1. \A k \in DOMAIN sources[q] : sources[q][k] \in Source
      BY <2>1, LenProperties, ElementOfSeq
    <3>2. \A k \in DOMAIN sources[q] : sources[q][k].content \in Contents
      BY <3>1 DEF Source
    <3> QED
      BY <3>2 DEF ContentsOf, ToSet
  <2>3. Matched(ContentsOf(q)) \cap Selected(q) \in Findings
    BY <2>2, ContentsAreRecords DEF Matched, Findings
  <2>4. findings' \in [Runs -> Findings]
    BY <1>1, <1>3, <2>3 DEF TypeOK, Findings
  <2> QED
    BY <1>1, <1>3, <2>4, Onward DEF After
<1> QED
  BY <1>2, <1>3 DEF Evaluate

LEMMA BuildReportStep == ASSUME IInv, NEW q \in Runs, BuildReport(q) PROVE IInv'
<1>1. findings' = findings => findings' \in [Runs -> Findings]
  BY DEF IInv, TypeOK, Findings
<1> QED
  BY <1>1, Refused, Onward DEF BuildReport, At, After, results

-----------------------------------------------------------------------------
\* The link and its withdrawal concern no other run: no file and no other report goes.
LEMMA Elsewhere ==
  ASSUME NEW q \in Runs, NEW r \in Runs \ {q}, RunInv(r), SameRow(r), request' = request, steady' = steady,
         \A n \in Names : \/ entry'[n] = entry[n]
                          \/ entry[n] \notin Inodes \cup {r} /\ entry'[n] \notin Inodes \cup {r}
  PROVE  RunInv(r)'
<1> USE SameLists DEF SameRow
<1>1. Requested(r)' /\ Owned(r)'
  BY DEF RunInv, Requested, Owned, At
<1>2. Inside(r)'
  BY DEF RunInv, Inside, Comparing, At
<1>3. OutputOf(r) \in Names
  BY DEF RunInv, Requested
<1>4. r \in steady => ComparedBefore(r)' /\ ReadFiles(r)' /\ ComparedAfter(r)' /\ Apart(r)'
  BY <1>3 DEF RunInv, ComparedBefore, ReadFiles, ComparedAfter, Apart, Comparing, At, Looking
<1> QED
  BY <1>1, <1>2, <1>4 DEF RunInv

LEMMA PublishStep == ASSUME IInv, NEW q \in Runs, Publish(q) PROVE IInv'
<1>1. pc[q] = "publish" /\ TypeOK /\ RunInv(q) /\ UNCHANGED results
  BY DEF Publish, At, IInv
<1>2. CASE Fail(q) /\ Unpublished
  BY <1>1, <1>2, Refused
<1>3. CASE entry[OutputOf(q)] = Absent /\ Bind(q, q) /\ Goto(q, "published")
  <2>1. /\ pc' = [pc EXCEPT ![q] = "published"] /\ pc'[q] = "published" /\ UNCHANGED <<checked, exit>>
        /\ entry' = [entry EXCEPT ![OutputOf(q)] = q] /\ OutputOf(q) \in Names
        /\ UNCHANGED <<content, others, changes, request, steady, manifest, sources, findings>>
        /\ alone' \subseteq alone
    BY <1>1, <1>3 DEF Goto, Bind, Notice, TypeOK, results, RunInv, Requested
  <2>2. /\ entry' \in [Names -> Inodes \cup Runs \cup Names \cup {Absent}]
        /\ entry'[OutputOf(q)] = q /\ \A n \in Names \ {OutputOf(q)} : entry'[n] = entry[n]
    BY <1>1, <2>1 DEF TypeOK
  <2>3. Kept
    BY <1>1, <2>1 DEF Kept, TypeOK, Source, Manifests, Findings
  <2>4. TypeOK'
    BY <1>1, <2>1, <2>2, <2>3, GoesTypes DEF Steps, TypeOK
  <2>5. RunInv(q)'
    <3>1. \A n \in Names : entry[n] # q
      BY <1>1 DEF RunInv, Owned, At
    <3>2. (Requested(q) /\ Owned(q))'
      BY <1>1, <2>1, <2>2, <3>1, SameLists DEF RunInv, Owned, At
    <3>3. Inside(q)'
      BY <1>1, <2>1, SameLists DEF RunInv, Inside, Comparing, At
    <3>4. q \in steady => (ComparedBefore(q) /\ ReadFiles(q) /\ ComparedAfter(q) /\ Apart(q))'
      BY <1>1, <2>1, SameLists DEF RunInv, ComparedBefore, ReadFiles, ComparedAfter, Apart, Comparing, Looking, At
    <3> QED
      BY <2>1, <3>2, <3>3, <3>4 DEF RunInv
  <2>6. ASSUME NEW r \in Runs \ {q} PROVE RunInv(r)'
    <3>1. SameRow(r)
      BY <1>1, <2>1 DEF SameRow, TypeOK
    <3>2. RunInv(r)
      BY DEF IInv
    <3>3. /\ entry[OutputOf(q)] \notin Inodes \cup {r} /\ entry'[OutputOf(q)] \notin Inodes \cup {r}
      BY <1>3, <2>2, FilesAreApart
    <3>4. \A n \in Names : \/ entry'[n] = entry[n]
                           \/ entry[n] \notin Inodes \cup {r} /\ entry'[n] \notin Inodes \cup {r}
      BY <2>2, <3>3
    <3> QED
      BY <2>1, <3>1, <3>2, <3>4, Elsewhere
  <2> QED
    BY <2>4, <2>5, <2>6 DEF IInv
<1> QED
  BY <1>2, <1>3 DEF Publish

\* A run whose report is there ends with it.
LEMMA Leaves ==
  ASSUME IInv, NEW q \in Runs, pc[q] = "published",
         NEW e \in {"0", "1", "internal", "interrupted", "killed"}, Exit(q, e),
         UNCHANGED <<directory, request, results, steady>>, alone' \subseteq alone
  PROVE  IInv'
<1>1. TypeOK /\ RunInv(q)
  BY DEF IInv
<1>2. UNCHANGED <<entry, content, others, changes>>
  BY DEF directory
<1>3. TypeOK'
  BY <1>1, <1>2, ExitTypes DEF TypeOK, Statuses
<1>4. \A r \in Runs \ {q} : SameRow(r)
  BY <1>1 DEF SameRow, TypeOK, Exit, results
<1>5. pc'[q] = "ended" /\ exit'[q] = e /\ manifest' = manifest /\ exit[q] = "running"
  BY <1>1 DEF Exit, TypeOK, results, At
<1>6. RunInv(q)'
  <2>1. (Requested(q) /\ Owned(q))'
    BY <1>1, <1>2, <1>5, SameLists DEF RunInv, Owned, At
  <2>2. Inside(q)'
    BY <1>1, <1>5, SameLists DEF RunInv, Inside, Comparing, At
  <2>3. q \in steady => (ComparedBefore(q) /\ ReadFiles(q) /\ ComparedAfter(q) /\ Apart(q))'
    BY <1>1, <1>2, <1>5, SameLists DEF RunInv, ComparedBefore, ReadFiles, ComparedAfter, Apart, Comparing, Looking, At
  <2> QED
    BY <2>1, <2>2, <2>3 DEF RunInv
<1> QED
  BY <1>2, <1>3, <1>4, <1>6, Progress

LEMMA CommitStep == ASSUME IInv, NEW q \in Runs, Commit(q) PROVE IInv'
BY Leaves DEF Commit, Status, At, Unpublished, history

LEMMA WithdrawStep == ASSUME IInv, NEW q \in Runs, Withdraw(q) PROVE IInv'
<1>1. pc[q] = "published" /\ TypeOK /\ RunInv(q) /\ OutputOf(q) \in Names
  BY DEF Withdraw, At, IInv, RunInv, Requested
<1>2. PICK e : e \in {"2", "interrupted"} /\ Exit(q, e)
  BY DEF Withdraw, Fails
<1>3. /\ pc' = [pc EXCEPT ![q] = "ended"] /\ exit' = [exit EXCEPT ![q] = e] /\ checked' = checked
      /\ entry' = [entry EXCEPT ![OutputOf(q)] = Absent]
      /\ UNCHANGED <<content, others, changes, request, steady, manifest, sources, findings>>
      /\ alone' \subseteq alone
  BY <1>2 DEF Withdraw, Exit, Own, results
<1>4. /\ entry' \in [Names -> Inodes \cup Runs \cup Names \cup {Absent}]
      /\ entry'[OutputOf(q)] = Absent /\ \A n \in Names \ {OutputOf(q)} : entry'[n] = entry[n]
      /\ pc'[q] = "ended" /\ exit'[q] = e /\ entry[OutputOf(q)] = q
  BY <1>1, <1>3 DEF TypeOK, RunInv, Owned, At
<1>5. TypeOK'
  BY <1>1, <1>2, <1>3, <1>4, ExitTypes DEF TypeOK, Statuses, results
<1>6. RunInv(q)'
  <2>1. \A n \in Names : entry'[n] # q
    BY <1>1, <1>4, FilesAreApart DEF RunInv, Owned
  <2>2. (Requested(q) /\ Owned(q))'
    BY <1>1, <1>2, <1>3, <1>4, <2>1, SameLists DEF RunInv, Owned, At
  <2>3. Inside(q)'
    BY <1>1, <1>3, <1>4, SameLists DEF RunInv, Inside, Comparing, At
  <2>4. (ComparedBefore(q) /\ ReadFiles(q) /\ ComparedAfter(q) /\ Apart(q))'
    BY <1>4, <2>1 DEF ComparedBefore, ReadFiles, ComparedAfter, Apart, Comparing, Looking, At
  <2> QED
    BY <2>2, <2>3, <2>4 DEF RunInv
<1>7. ASSUME NEW r \in Runs \ {q} PROVE RunInv(r)'
  <2>1. SameRow(r)
    BY <1>1, <1>3 DEF SameRow, TypeOK
  <2>2. RunInv(r)
    BY DEF IInv
  <2>3. /\ entry[OutputOf(q)] \notin Inodes \cup {r} /\ entry'[OutputOf(q)] \notin Inodes \cup {r}
    BY <1>4, FilesAreApart
  <2>4. \A n \in Names : \/ entry'[n] = entry[n]
                         \/ entry[n] \notin Inodes \cup {r} /\ entry'[n] \notin Inodes \cup {r}
    BY <1>4, <2>3
  <2> QED
    BY <1>3, <2>1, <2>2, <2>4, Elsewhere
<1> QED
  BY <1>5, <1>6, <1>7 DEF IInv

LEMMA BreakStep == ASSUME IInv, NEW q \in Runs, Break(q) PROVE IInv'
<1>1. pc[q] # "ended" /\ UNCHANGED <<directory, request, results, steady>> /\ alone' \subseteq alone
  BY DEF Break
<1>2. CASE At(q, "published")
  <2>1. PICK e : e \in {"internal", "interrupted", "killed"} /\ Exit(q, e)
    BY <1>2 DEF Break
  <2> QED
    BY <1>1, <1>2, <2>1, Leaves DEF At
<1>3. CASE ~At(q, "published")
  <2>1. PICK e : e \in {"2", "interrupted", "killed"} /\ Exit(q, e)
    BY <1>3 DEF Break, Fails
  <2> QED
    BY <1>1, <1>3, <2>1, Ends DEF At
<1> QED
  BY <1>2, <1>3

-----------------------------------------------------------------------------
LEMMA ChangeStep == ASSUME IInv, Change PROVE IInv'
<1>1. /\ UNCHANGED <<others, request, pc, checked, exit, manifest, sources, findings>> /\ TypeOK
      /\ changes < MaxChanges /\ changes' = changes + 1 /\ alone' \subseteq alone
  BY DEF Change, IInv, run, results
<1>2. changes' \in 0 .. MaxChanges
  BY <1>1, ChangesAreCounted DEF TypeOK
<1>3. ASSUME entry' \in [Names -> Inodes \cup Runs \cup Names \cup {Absent}],
             content' \in [Inodes -> Contents], steady' \subseteq steady
      PROVE  TypeOK'
  BY <1>1, <1>2, <1>3 DEF TypeOK, At
<1>4. \A r \in Runs : SameRow(r) /\ RunInv(r)
  BY <1>1 DEF SameRow, IInv
<1>5. CASE Rewrite
  <2>1. UNCHANGED <<entry, steady>> /\ content' \in [Inodes -> Contents]
    BY <1>1, <1>5 DEF Rewrite, TypeOK
  <2>2. TypeOK'
    BY <1>1, <1>3, <2>1 DEF TypeOK
  <2> QED
    BY <1>1, <1>4, <2>1, <2>2, Frame DEF IInv
<1>6. CASE Rebind
  <2>1. PICK n \in Names, e \in Inodes \cup {Absent} :
          entry[n] \notin Runs \cup {e} /\ entry' = [entry EXCEPT ![n] = e]
    BY <1>6 DEF Rebind
  <2>2. steady' = {r \in steady : ~Looking(r)} /\ content' = content
    BY <1>6 DEF Rebind
  <2>3. entry' \in [Names -> Inodes \cup Runs \cup Names \cup {Absent}]
    BY <1>1, <2>1 DEF TypeOK
  <2>4. TypeOK'
    BY <1>1, <1>3, <2>2, <2>3 DEF TypeOK
  <2>5. \A m \in Names, r \in Runs : entry'[m] = r <=> entry[m] = r
    BY <1>1, <2>1, FilesAreApart DEF TypeOK
  <2>6. ASSUME NEW r \in Runs PROVE RunInv(r)'
    <3>1. RunInv(r) /\ SameRow(r) /\ OutputOf(r) \in Names
      BY <1>4 DEF RunInv, Requested
    <3>2. (Requested(r) /\ Owned(r))'
      BY <1>1, <2>5, <3>1, SameLists DEF RunInv, Owned, At
    <3>3. Inside(r)'
      BY <1>1, <3>1, SameLists DEF RunInv, Inside, Comparing, At
    <3>4. r \in steady' => (ComparedBefore(r) /\ ReadFiles(r) /\ ComparedAfter(r) /\ Apart(r))'
      <4> SUFFICES ASSUME r \in steady' PROVE (ComparedBefore(r) /\ ReadFiles(r) /\ ComparedAfter(r) /\ Apart(r))'
        OBVIOUS
      <4>1. r \in steady /\ ~Looking(r) /\ pc' = pc
        BY <1>1, <2>2
      <4>2. (ComparedBefore(r) /\ ReadFiles(r) /\ ComparedAfter(r))'
        BY <4>1 DEF ComparedBefore, ReadFiles, ComparedAfter, Comparing, Looking, At
      <4>3. Apart(r)'
        BY <1>1, <2>5, <3>1, <4>1, SameLists DEF RunInv, Apart
      <4> QED
        BY <4>2, <4>3
    <3> QED
      BY <3>2, <3>3, <3>4 DEF RunInv
  <2> QED
    BY <2>4, <2>6 DEF IInv
<1> QED
  BY <1>5, <1>6 DEF Change

-----------------------------------------------------------------------------
LEMMA StutterStep == ASSUME IInv, UNCHANGED vars PROVE IInv'
<1>1. UNCHANGED <<entry, content, others, changes, request, pc, checked, exit, manifest, sources,
                  findings, alone, steady>>
  BY DEF vars, directory, run, results, history
<1>2. TypeOK'
  BY <1>1 DEF IInv, TypeOK, At
<1>3. \A r \in Runs : SameRow(r) /\ RunInv(r)
  BY <1>1 DEF SameRow, IInv
<1> QED
  BY <1>1, <1>2, <1>3, Frame DEF IInv

\* The invariant of every behaviour.
THEOREM Invariance == Spec => []IInv
<1>1. IInv /\ [Next]_vars => IInv'
  BY ChangeStep, StutterStep, ParseArgumentsStep, CompareFileStep, ComparePathStep, LoadManifestStep,
     LoadSourceStep, SelectStep, EvaluateStep, BuildReportStep, PublishStep, CommitStep, WithdrawStep,
     BreakStep DEF Next, Step
<1> QED
  BY <1>1, InitInvariant, PTL DEF Spec

\* The variables of erpsec analyze and replay runs have their types.
THEOREM TypeCorrectness == Spec => []TypeOK
<1>1. IInv => TypeOK
  BY DEF IInv
<1> QED
  BY <1>1, Invariance, PTL

\* A run that exits with 0 or 1 leaves its report under the requested name, one that exits
\* with 2 leaves none (cli.py main), whatever other runs and programs do.
THEOREM StatusTells == Spec => []ExitTells
<1>1. IInv => ExitTells
  BY DEF IInv, RunInv, Owned, ExitTells, At
<1> QED
  BY <1>1, Invariance, PTL

\* A report never takes the name of an input it was made from (_paths_alias), as long as
\* nobody renames while the run compares and loads.
THEOREM NoInputOverwritten == Spec => []NeverItsOwnInput
<1>1. IInv => NeverItsOwnInput
  <2>1. ASSUME IInv, NEW r \in steady, NEW n \in Names, entry[n] = r PROVE n \notin ToSet(InputPaths(r))
    <3>1. r \in Runs
      BY <2>1 DEF IInv, TypeOK
    <3> QED
      BY <2>1, <3>1 DEF IInv, RunInv, Owned, Apart
  <2> QED
    BY <2>1 DEF NeverItsOwnInput
<1> QED
  BY <1>1, Invariance, PTL

-----------------------------------------------------------------------------
(***************************************************************************)
(* The exit status of a run that nothing disturbs.                         *)
(***************************************************************************)
\* A run's report is in the directory from the link on, and not before.
LEMMA BeforeTheLink ==
  ASSUME IInv, NEW q \in Runs, pc[q] \notin {"published", "ended"}
  PROVE  \A n \in Names : entry[n] # q /\ Before(q)[n] = entry[n]
<1>1. TypeOK /\ Owned(q)
  BY DEF IInv, RunInv
<1>2. \A n \in Names : entry[n] # q
  BY <1>1 DEF Owned, At
<1> QED
  BY <1>2 DEF Before

\* The names of the sources, once they are known.
LEMMA SourceLists ==
  ASSUME IInv, NEW q \in Runs, Replaying(q) => manifest[q] # {}
  PROVE  /\ Len(SourceNames(q)) \in Nat /\ DOMAIN SourceNames(q) = 1 .. Len(SourceNames(q))
         /\ \A k \in 1 .. Len(SourceNames(q)) : SourceNames(q)[k] \in Names
<1>1. TypeOK /\ Requested(q)
  BY DEF IInv, RunInv
<1> QED
  BY <1>1, Inputs, Declarations DEF SourceNames

\* What succeeding means depends on the directory without the report, on the files
\* and on the request.
LEMMA SameWorld ==
  ASSUME NEW r \in Runs, Before(r)' = Before(r), content' = content, request' = request
  PROVE  /\ Succeeds(r)' <=> Succeeds(r)
         /\ Matches(r)' <=> Matches(r)
         /\ SelectionValid(r)' <=> SelectionValid(r)
         /\ Selected(r)' = Selected(r)
<1>1. /\ Replaying(r)' <=> Replaying(r)
      /\ OutputOf(r)' = OutputOf(r) /\ Given(r)' = Given(r)
  BY DEF Replaying, OutputOf, Given
<1>2. (SelectionValid(r)' <=> SelectionValid(r)) /\ Selected(r)' = Selected(r)
  BY <1>1 DEF SelectionValid, Selected, Selectable, Default
<1>3. FirstHeld(r)' = FirstHeld(r) /\ \A n : Held(r, n)' = Held(r, n)
  BY DEF FirstHeld, Held
<1>4. NamesOf(r)' = NamesOf(r)
  BY <1>1, <1>3 DEF NamesOf
<1>6. Loadable(r)' <=> Loadable(r)
  BY <1>1, <1>3, <1>4 DEF Loadable
<1>7. Evidence(r)' = Evidence(r)
  BY <1>1, <1>3 DEF Evidence
<1>5. Covered(Evidence(r))' = Covered(Evidence(r)) /\ Matched(Evidence(r))' = Matched(Evidence(r))
  BY <1>7 DEF Covered, Matched
<1> QED
  BY <1>1, <1>2, <1>5, <1>6, <1>7 DEF Succeeds, Matches

\* Sources that were read as the directory has them are loadable, and are the evidence.
LEMMA LoadedIsLoadable ==
  ASSUME IInv, NEW q \in Runs, ReadHere(q), Loaded(q)
  PROVE  Loadable(q) /\ Evidence(q) = ContentsOf(q)
<1> DEFINE N == SourceNames(q)
           first == request[q].inputs[1]
<1>1. /\ TypeOK /\ Requested(q)
      /\ Len(sources[q]) = Len(N) /\ (Replaying(q) => manifest[q] # {})
      /\ \A k \in 1 .. Len(sources[q]) : SourceHere(q, k)
      /\ \A j, k \in 1 .. Len(sources[q]) : j # k => sources[q][j].inode # sources[q][k].inode
      /\ manifest[q] # {} => ManifestHere(q)
  BY DEF IInv, RunInv, ReadHere
<1>2. Len(N) \in Nat /\ DOMAIN N = 1 .. Len(N) /\ \A k \in 1 .. Len(N) : N[k] \in Names
  BY <1>1, SourceLists
<1>3. \A k \in 1 .. Len(N) :
        /\ Before(q)[N[k]] \in Inodes /\ Held(q, N[k]).kind = "evidence"
        /\ sources[q][k] = [inode |-> Before(q)[N[k]], content |-> Held(q, N[k])]
        /\ Replaying(q) => Held(q, N[k]) = Declared(q)[k].sha256
  BY <1>1 DEF SourceHere, Held
<1>4. \A k \in 1 .. Len(N) : sources[q][k].inode = Before(q)[N[k]] /\ sources[q][k].content = Held(q, N[k])
  <2> SUFFICES ASSUME NEW k \in 1 .. Len(N)
               PROVE  sources[q][k].inode = Before(q)[N[k]] /\ sources[q][k].content = Held(q, N[k])
    OBVIOUS
  <2>1. sources[q][k] = [inode |-> Before(q)[N[k]], content |-> Held(q, N[k])]
    BY <1>3
  <2> QED
    BY <2>1
<1>5. \A j, k \in 1 .. Len(N) : j # k => Before(q)[N[j]] # Before(q)[N[k]]
  BY <1>1, <1>4
<1>6. ToSet(sources[q]) = {sources[q][k] : k \in 1 .. Len(N)}
  <2>1. sources[q] \in Seq(Source)
    BY <1>1 DEF TypeOK, Source
  <2>2. DOMAIN sources[q] = 1 .. Len(N)
    BY <1>1, <2>1, LenProperties
  <2> QED
    BY <2>2 DEF ToSet
<1>7. ContentsOf(q) = {Held(q, N[k]) : k \in 1 .. Len(N)}
  BY <1>4, <1>6 DEF ContentsOf
<1>8. CASE ~Replaying(q)
  <2>1. N = request[q].inputs
    BY <1>8 DEF SourceNames
  <2>2. Loadable(q)
    BY <1>2, <1>3, <1>5, <1>8, <2>1 DEF Loadable, NamesOf
  <2>3. ToSet(N) = {N[k] : k \in 1 .. Len(N)}
    BY <1>2 DEF ToSet
  <2>4. Evidence(q) = {Held(q, n) : n \in ToSet(N)}
    BY <1>8, <2>1 DEF Evidence
  <2> QED
    BY <1>7, <2>2, <2>3, <2>4
<1>9. CASE Replaying(q)
  <2>1. Before(q)[first] \in Inodes /\ FirstHeld(q).kind = "manifest" /\ manifest[q] = {FirstHeld(q)}
    BY <1>1, <1>9 DEF ManifestHere, FirstHeld, Held
  <2>2. Declared(q) = FirstHeld(q).declares
    BY <2>1 DEF Declared
  <2>3. N = [k \in DOMAIN FirstHeld(q).declares |-> FirstHeld(q).declares[k].name]
    BY <1>9, <2>2 DEF SourceNames, DeclaredNames
  <2>7. N = NamesOf(q)
    BY <1>9, <2>3 DEF NamesOf
  <2>4. DOMAIN FirstHeld(q).declares = 1 .. Len(N)
    BY <1>2, <2>3
  <2>5. Loadable(q)
    BY <1>2, <1>3, <1>5, <1>9, <2>1, <2>2, <2>7 DEF Loadable
  <2>6. Evidence(q) = {FirstHeld(q).declares[k].sha256 : k \in 1 .. Len(N)}
    BY <1>9, <2>4 DEF Evidence
  <2>8. \A k \in 1 .. Len(N) : FirstHeld(q).declares[k].sha256 = Held(q, N[k])
    BY <1>3, <1>9, <2>2
  <2>9. Evidence(q) = {Held(q, N[k]) : k \in 1 .. Len(N)}
    BY <2>6, <2>8
  <2> QED
    BY <1>7, <2>5, <2>9
<1> QED
  BY <1>8, <1>9

\* A manifest that is refused.
LEMMA ManifestRefused ==
  ASSUME IInv, NEW q \in Runs, At(q, "manifest"),
         ~(Readable(request[q].inputs[1]) /\ content[entry[request[q].inputs[1]]].kind = "manifest")
  PROVE  ~Succeeds(q)
<1> DEFINE first == request[q].inputs[1]
<1>1. TypeOK /\ Requested(q) /\ Replaying(q)
  BY DEF IInv, RunInv, Inside
<1>2. first \in Names
  BY <1>1, Inputs
<1>3. Before(q)[first] = entry[first]
  BY <1>2, BeforeTheLink DEF At
<1>4. DOMAIN content = Inodes
  BY <1>1 DEF TypeOK
<1>5. ~Loadable(q)
  BY <1>1, <1>3, <1>4 DEF Loadable, FirstHeld, Held, Readable
<1> QED
  BY <1>5 DEF Succeeds

\* A source that is refused.
LEMMA SourceRefused ==
  ASSUME IInv, NEW q \in Runs, At(q, "load"), ReadHere(q),
         LET n == SourceNames(q)[Len(sources[q]) + 1]
         IN ~(Readable(n) /\ Acceptable(q, entry[n]))
  PROVE  ~Succeeds(q)
<1> DEFINE N == SourceNames(q)
           k == Len(sources[q]) + 1
           first == request[q].inputs[1]
<1>1. TypeOK /\ Requested(q) /\ Inside(q)
  BY DEF IInv, RunInv
<1>2. (Replaying(q) => manifest[q] # {}) /\ k \in DOMAIN N
  BY <1>1 DEF Inside
<1>3. Len(N) \in Nat /\ DOMAIN N = 1 .. Len(N) /\ \A j \in 1 .. Len(N) : N[j] \in Names
  BY <1>2, SourceLists
<1>4. \A j \in 1 .. Len(N) : Before(q)[N[j]] = entry[N[j]]
  BY <1>3, BeforeTheLink DEF At
<1>5. Len(sources[q]) \in Nat /\ DOMAIN sources[q] = 1 .. Len(sources[q])
  BY <1>1, LenProperties DEF TypeOK
<1>6. \A j \in 1 .. Len(sources[q]) : j \in DOMAIN N /\ j # k /\ sources[q][j].inode = Before(q)[N[j]]
  <2> SUFFICES ASSUME NEW j \in 1 .. Len(sources[q])
               PROVE  j \in DOMAIN N /\ j # k /\ sources[q][j].inode = Before(q)[N[j]]
    OBVIOUS
  <2>1. j \in DOMAIN N /\ j # k
    BY <1>2, <1>3, <1>5
  <2>2. SourceHere(q, j)
    BY DEF ReadHere
  <2>3. sources[q][j] = [inode |-> Before(q)[N[j]], content |-> content[Before(q)[N[j]]]]
    BY <2>2 DEF SourceHere
  <2> QED
    BY <2>1, <2>3
<1>7. DOMAIN content = Inodes
  BY <1>1 DEF TypeOK
<1>8. SUFFICES ASSUME Loadable(q) PROVE FALSE
  BY DEF Succeeds
<1>9. /\ \A j \in DOMAIN N : Before(q)[N[j]] \in Inodes /\ Held(q, N[j]).kind = "evidence"
      /\ \A j, i \in DOMAIN N : j # i => Before(q)[N[j]] # Before(q)[N[i]]
      /\ Replaying(q) => \A j \in DOMAIN N : Held(q, N[j]) = Declared(q)[j].sha256
  <2>1. CASE ~Replaying(q)
    <3>1. N = request[q].inputs
      BY <2>1 DEF SourceNames
    <3> QED
      BY <1>8, <2>1, <3>1 DEF Loadable, NamesOf
  <2>2. CASE Replaying(q)
    <3>1. manifest[q] = {FirstHeld(q)}
      BY <1>2, <2>2 DEF ReadHere, ManifestHere, FirstHeld, Held
    <3>2. Declared(q) = FirstHeld(q).declares
      BY <3>1 DEF Declared
    <3>3. N = [j \in DOMAIN FirstHeld(q).declares |-> FirstHeld(q).declares[j].name]
      BY <2>2, <3>2 DEF SourceNames, DeclaredNames
    <3>4. N = NamesOf(q)
      BY <2>2, <3>3 DEF NamesOf
    <3> QED
      BY <1>8, <2>2, <3>2, <3>4 DEF Loadable
  <2> QED
    BY <2>1, <2>2
<1>10. Readable(N[k])
  BY <1>2, <1>3, <1>4, <1>7, <1>9 DEF Readable
<1>11. Acceptable(q, entry[N[k]])
  <2>1. \A s \in ToSet(sources[q]) : s.inode # entry[N[k]]
    <3>1. \A j \in DOMAIN sources[q] : sources[q][j].inode # entry[N[k]]
      BY <1>2, <1>3, <1>4, <1>5, <1>6, <1>9
    <3> QED
      BY <3>1 DEF ToSet
  <2> QED
    BY <1>2, <1>3, <1>4, <1>9, <2>1 DEF Acceptable, Held
<1> QED
  BY <1>10, <1>11

\* An output that aliases an input is there.
LEMMA AliasIsThere ==
  ASSUME IInv, NEW q \in Runs, pc[q] \notin {"published", "ended"}, NEW i \in Names,
         SameFile(i, OutputOf(q)) \/ SamePath(i, OutputOf(q))
  PROVE  ~Succeeds(q)
<1>1. OutputOf(q) \in Names
  BY DEF IInv, RunInv, Requested
<1>2. entry[OutputOf(q)] # Absent
  BY FilesAreApart DEF SameFile, SamePath, Exists, Target
<1> QED
  BY <1>1, <1>2, BeforeTheLink DEF Succeeds

-----------------------------------------------------------------------------
\* A run that is refused for cause.
LEMMA RefusedExactly ==
  ASSUME IInv, NEW q \in Runs, pc[q] \notin {"published", "ended"}, Fail(q), Unpublished, ~Succeeds(q)
  PROVE  Undisturbed(q)'
<1>1. TypeOK /\ OutputOf(q) \in Names
  BY DEF IInv, RunInv, Requested
<1>2. pc'[q] = "ended" /\ exit'[q] = "2"
  BY <1>1 DEF Fail, Exit, TypeOK
<1>3. UNCHANGED <<entry, content, request>>
  BY DEF Unpublished, directory
<1>4. Before(q)' = Before(q) /\ OutputOf(q)' = OutputOf(q)
  BY <1>3 DEF Before, OutputOf
<1>5. ~Succeeds(q)'
  BY <1>3, <1>4, SameWorld
<1>6. entry'[OutputOf(q)'] # q
  BY <1>1, <1>3, <1>4, BeforeTheLink
<1> QED
  BY <1>2, <1>5, <1>6 DEF Undisturbed, Exact, At

\* A run that goes on with what it has read.
LEMMA GoesOnExactly ==
  ASSUME TypeOK, NEW q \in Runs, NEW s \in Steps \ {"ended"}, pc' = [pc EXCEPT ![q] = s],
         UNCHANGED <<manifest, sources, content, request>>, Before(q)' = Before(q),
         ReadHere(q), Loaded(q)' => Loaded(q), Decided(q)'
  PROVE  Undisturbed(q)'
<1>1. pc'[q] = s
  BY DEF TypeOK
<1>2. SourceNames(q)' = SourceNames(q) /\ (Replaying(q)' <=> Replaying(q))
  BY SameLists
<1>3. Declared(q)' = Declared(q)
  BY DEF Declared
<1>4. ReadHere(q)'
  BY <1>2, <1>3 DEF ReadHere, ManifestHere, SourceHere
<1> QED
  BY <1>1, <1>4 DEF Undisturbed, At

\* A run is undisturbed by what leaves its row and the directory as they are.
LEMMA StaysExact ==
  ASSUME NEW r \in Runs, Undisturbed(r), SameRow(r), findings'[r] = findings[r],
         UNCHANGED <<entry, content, request>>
  PROVE  Undisturbed(r)'
<1>1. Before(r)' = Before(r)
  BY DEF Before
<1>2. /\ SourceNames(r)' = SourceNames(r) /\ (Replaying(r)' <=> Replaying(r))
      /\ OutputOf(r)' = OutputOf(r) /\ Declared(r)' = Declared(r) /\ pc'[r] = pc[r]
  BY SameLists DEF SameRow, Declared
<1>3. /\ Succeeds(r)' <=> Succeeds(r)
      /\ Matches(r)' <=> Matches(r)
      /\ SelectionValid(r)' <=> SelectionValid(r)
      /\ Selected(r)' = Selected(r)
  BY <1>1, SameWorld
<1>4. ContentsOf(r)' = ContentsOf(r)
  BY DEF ContentsOf, SameRow
<1>5. Covered(ContentsOf(r))' = Covered(ContentsOf(r)) /\ Matched(ContentsOf(r))' = Matched(ContentsOf(r))
  BY <1>4 DEF Covered, Matched
<1>6. ReadHere(r) => ReadHere(r)'
  <2>1. (Loaded(r)' <=> Loaded(r)) /\ sources'[r] = sources[r] /\ manifest'[r] = manifest[r]
    BY <1>2 DEF Loaded, Comparing, SameRow
  <2>2. ManifestHere(r)' <=> ManifestHere(r)
    BY <1>1, <2>1 DEF ManifestHere
  <2>3. \A k : SourceHere(r, k)' <=> SourceHere(r, k)
    BY <1>1, <1>2, <2>1 DEF SourceHere
  <2> QED
    BY <1>2, <2>1, <2>2, <2>3 DEF ReadHere
<1>7. Decided(r) => Decided(r)'
  BY <1>2, <1>3, <1>5 DEF Decided
<1>8. Exact(r) => Exact(r)'
  BY <1>2, <1>3 DEF Exact, SameRow
<1> QED
  BY <1>2, <1>6, <1>7, <1>8 DEF Undisturbed, At

\* A run that has not begun has nothing to go wrong.
LEMMA NotBegun ==
  ASSUME IInv, NEW r \in Runs, At(r, "arguments")
  PROVE  Undisturbed(r)
<1>1. Inside(r)
  BY DEF IInv, RunInv
<1>2. manifest[r] = {} /\ sources[r] = <<>>
  BY <1>1 DEF Inside, At
<1>3. 1 .. Len(sources[r]) = {}
  BY <1>2
<1> QED
  BY <1>2, <1>3 DEF Undisturbed, ReadHere, Decided, Loaded, Comparing, At

\* The same of the state after a step.
LEMMA NotBegunLater ==
  ASSUME IInv', NEW r \in Runs, At(r, "arguments")'
  PROVE  Undisturbed(r)'
<1>1. Inside(r)'
  BY DEF IInv, RunInv
<1>2. manifest'[r] = {} /\ sources'[r] = <<>>
  BY <1>1 DEF Inside, At
<1>3. 1 .. Len(sources'[r]) = {}
  BY <1>2
<1> QED
  BY <1>2, <1>3 DEF Undisturbed, ReadHere, Decided, Loaded, Comparing, At

-----------------------------------------------------------------------------
\* The steps of the run itself.
LEMMA ParseArgumentsAlone ==
  ASSUME IInv, NEW q \in Runs, ParseArguments(q), Undisturbed(q)
  PROVE  Undisturbed(q)'
<1>1. /\ TypeOK /\ pc[q] = "arguments" /\ UNCHANGED <<entry, content, request, manifest, sources>>
      /\ manifest[q] = {} /\ ReadHere(q)
  BY DEF IInv, RunInv, Inside, ParseArguments, At, results, Unpublished, directory, Undisturbed
<1>2. CASE ~request[q].valid /\ Fail(q)
  BY <1>1, <1>2, RefusedExactly DEF ParseArguments, Succeeds
<1>3. CASE request[q].valid /\ Goto(q, "same file")
  <2>1. pc' = [pc EXCEPT ![q] = "same file"] /\ pc'[q] = "same file"
    BY <1>1, <1>3 DEF Goto, TypeOK
  <2>2. ~Loaded(q)' /\ Decided(q)'
    BY <1>1, <1>3, <2>1 DEF Loaded, Comparing, Decided
  <2> QED
    BY <1>1, <2>1, <2>2, GoesOnExactly DEF Before, Steps
<1> QED
  BY <1>2, <1>3 DEF ParseArguments

LEMMA InputIsName ==
  ASSUME IInv, NEW q \in Runs, Comparing(q)
  PROVE  InputPaths(q)[checked[q] + 1] \in Names
<1>1. checked[q] + 1 \in DOMAIN InputPaths(q) /\ TypeOK /\ Requested(q)
  BY DEF IInv, RunInv, Inside
<1>2. InputPaths(q) \in Seq(Names)
  BY <1>1, Paths
<1> QED
  BY <1>1, <1>2, ElementOfSeq, LenProperties

LEMMA CompareFileAlone ==
  ASSUME IInv, NEW q \in Runs, CompareFile(q), Undisturbed(q)
  PROVE  Undisturbed(q)'
<1> DEFINE i == InputPaths(q)[checked[q] + 1]
<1>1. /\ TypeOK /\ pc[q] = "same file" /\ UNCHANGED <<entry, content, request, manifest, sources>>
      /\ ReadHere(q) /\ Decided(q)
  BY DEF IInv, CompareFile, At, results, Unpublished, directory, Undisturbed
<1>2. CASE SameFile(i, OutputOf(q)) /\ Fail(q)
  <2>1. i \in Names
    BY <1>1, InputIsName DEF Comparing
  <2> QED
    BY <1>1, <1>2, <2>1, AliasIsThere, RefusedExactly DEF CompareFile
<1>3. CASE Goto(q, "same path")
  <2>1. pc' = [pc EXCEPT ![q] = "same path"] /\ pc'[q] = "same path"
    BY <1>1, <1>3 DEF Goto, TypeOK
  <2>2. (Loaded(q)' => Loaded(q)) /\ Decided(q)'
    BY <1>1, <2>1 DEF Loaded, Comparing, Decided
  <2> QED
    BY <1>1, <2>1, <2>2, GoesOnExactly DEF Before, Steps
<1> QED
  BY <1>2, <1>3 DEF CompareFile

LEMMA ComparePathAlone ==
  ASSUME IInv, NEW q \in Runs, ComparePath(q), Undisturbed(q)
  PROVE  Undisturbed(q)'
<1> DEFINE i == InputPaths(q)[checked[q] + 1]
<1>1. /\ TypeOK /\ pc[q] = "same path" /\ UNCHANGED <<entry, content, request, manifest, sources>>
      /\ ReadHere(q) /\ Decided(q)
  BY DEF IInv, ComparePath, At, results, Unpublished, directory, Undisturbed
<1>2. CASE SamePath(i, OutputOf(q)) /\ Fail(q)
  <2>1. i \in Names
    BY <1>1, InputIsName DEF Comparing
  <2> QED
    BY <1>1, <1>2, <2>1, AliasIsThere, RefusedExactly DEF ComparePath
<1>3. ASSUME NEW s \in {"same file", AfterChecks(q)}, pc' = [pc EXCEPT ![q] = s]
      PROVE  Undisturbed(q)'
  <2>1. s \in Steps \ {"ended"} /\ pc'[q] = s
    BY <1>1, <1>3 DEF AfterChecks, Steps, TypeOK
  <2>2. Loaded(q)' => Loaded(q)
    BY <1>1, <1>3, <2>1 DEF Loaded, Comparing, AfterChecks
  <2>3. Decided(q)'
    BY <1>1, <1>3, <2>1 DEF Decided, AfterChecks
  <2> QED
    BY <1>1, <1>3, <2>1, <2>2, <2>3, GoesOnExactly DEF Before
<1> QED
  BY <1>2, <1>3 DEF ComparePath

LEMMA LoadManifestAlone ==
  ASSUME IInv, NEW q \in Runs, LoadManifest(q), Undisturbed(q)
  PROVE  Undisturbed(q)'
<1> DEFINE first == request[q].inputs[1]
<1>1. /\ TypeOK /\ Requested(q) /\ pc[q] = "manifest" /\ sources[q] = <<>>
      /\ UNCHANGED <<entry, content, request, sources>> /\ Decided(q)
  BY DEF IInv, RunInv, Inside, LoadManifest, At, Unpublished, directory, Undisturbed
<1>2. CASE Fail(q) /\ ~(Readable(first) /\ content[entry[first]].kind = "manifest")
  BY <1>1, <1>2, ManifestRefused, RefusedExactly DEF LoadManifest, At
<1>3. CASE /\ Readable(first) /\ content[entry[first]].kind = "manifest"
           /\ manifest' = [manifest EXCEPT ![q] = {content[entry[first]]}] /\ Goto(q, "load")
  <2>1. pc'[q] = "load" /\ manifest'[q] = {content[entry[first]]}
    BY <1>1, <1>3 DEF Goto, TypeOK
  <2>2. Before(q)[first] = entry[first] /\ Before(q)' = Before(q) /\ DOMAIN content = Inodes
    BY <1>1, Inputs, BeforeTheLink DEF Before, TypeOK
  <2>3. ManifestHere(q)'
    BY <1>1, <1>3, <2>1, <2>2 DEF ManifestHere, Readable
  <2>4. ~Loaded(q)' /\ 1 .. Len(sources'[q]) = {}
    BY <1>1, <2>1 DEF Loaded, Comparing
  <2>5. Decided(q)'
    BY <1>1, <2>1 DEF Decided
  <2> QED
    BY <2>1, <2>3, <2>4, <2>5 DEF Undisturbed, ReadHere, At
<1> QED
  BY <1>2, <1>3 DEF LoadManifest

LEMMA LoadSourceAlone ==
  ASSUME IInv, NEW q \in Runs, LoadSource(q), Undisturbed(q)
  PROVE  Undisturbed(q)'
<1> DEFINE N == SourceNames(q)
           k == Len(sources[q]) + 1
           i == entry[N[k]]
<1>1. /\ TypeOK /\ Requested(q) /\ Inside(q) /\ pc[q] = "load"
      /\ UNCHANGED <<entry, content, request, manifest>> /\ ReadHere(q) /\ Decided(q)
  BY DEF IInv, RunInv, LoadSource, At, Unpublished, directory, Undisturbed
<1>2. (Replaying(q) => manifest[q] # {}) /\ k \in DOMAIN N
  BY <1>1 DEF Inside, At
<1>3. CASE Fail(q) /\ ~(Readable(N[k]) /\ Acceptable(q, i))
  BY <1>1, <1>3, SourceRefused, RefusedExactly DEF LoadSource, At
<1>4. CASE /\ Readable(N[k]) /\ Acceptable(q, i)
           /\ sources' = [sources EXCEPT ![q] = Append(@, [inode |-> i, content |-> content[i]])]
           /\ IF k = Len(N) THEN Goto(q, AfterLoading(q)) ELSE UNCHANGED run
  <2>1. sources[q] \in Seq(Source) /\ Len(sources[q]) \in Nat /\ DOMAIN content = Inodes
    BY <1>1, LenProperties DEF TypeOK, Source
  <2>2. i \in Inodes /\ content[i] \in Contents
    BY <1>1, <1>4, <2>1 DEF Readable, TypeOK
  <2>3. DOMAIN sources[q] = 1 .. Len(sources[q])
    BY <2>1, LenProperties
  <2>4. /\ Len(sources'[q]) = k
        /\ sources'[q][k] = [inode |-> i, content |-> content[i]]
        /\ \A j \in 1 .. Len(sources[q]) : sources'[q][j] = sources[q][j]
    <3>1. sources'[q] = Append(sources[q], [inode |-> i, content |-> content[i]])
      BY <1>1, <1>4 DEF TypeOK
    <3>2. [inode |-> i, content |-> content[i]] \in Source
      BY <2>2 DEF Source
    <3> QED
      BY <2>1, <3>1, <3>2
  <2>5. N[k] \in Names /\ Len(N) \in Nat /\ DOMAIN N = 1 .. Len(N)
    BY <1>2, SourceLists
  <2>6. Before(q)' = Before(q) /\ Before(q)[N[k]] = i
    BY <1>1, <2>5, BeforeTheLink DEF Before
  <2>7. /\ N' = N /\ (Replaying(q)' <=> Replaying(q)) /\ Declared(q)' = Declared(q)
    BY <1>1, SameLists DEF Declared
  <2>17. PICK m \in Nat : m = k
    BY <2>1
  <2>18. /\ content[i].kind = "evidence" /\ Before(q)'[N'[m]] = i /\ content' = content
         /\ sources'[q][m] = [inode |-> i, content |-> content[i]]
         /\ Replaying(q) => content[i] = Declared(q)[m].sha256
    BY <1>1, <1>4, <2>4, <2>6, <2>7, <2>17 DEF Acceptable
  <2>8. SourceHere(q, m)'
    BY <2>2, <2>7, <2>18 DEF SourceHere
  <2>9. \A j \in 1 .. Len(sources[q]) : SourceHere(q, j)'
    BY <1>1, <2>4, <2>6, <2>7 DEF ReadHere, SourceHere
  <2>10. \A j \in 1 .. m : SourceHere(q, j)'
    BY <2>1, <2>8, <2>9, <2>17
  <2>11. \A j \in 1 .. Len(sources[q]) : sources[q][j].inode # i
    BY <1>4, <2>3 DEF Acceptable, ToSet
  <2>12. \A j, l \in 1 .. k : j # l => sources'[q][j].inode # sources'[q][l].inode
    <3> SUFFICES ASSUME NEW j \in 1 .. k, NEW l \in 1 .. k, j # l
                 PROVE  sources'[q][j].inode # sources'[q][l].inode
      OBVIOUS
    <3>1. sources'[q][k].inode = i
      BY <2>4
    <3>2. CASE j = k
      BY <2>1, <2>4, <2>11, <3>1, <3>2
    <3>3. CASE l = k
      BY <2>1, <2>4, <2>11, <3>1, <3>3
    <3>4. CASE j # k /\ l # k
      <4>1. j \in 1 .. Len(sources[q]) /\ l \in 1 .. Len(sources[q])
        BY <2>1, <3>4
      <4>2. sources[q][j].inode # sources[q][l].inode
        BY <1>1, <4>1 DEF ReadHere
      <4> QED
        BY <2>4, <4>1, <4>2
    <3> QED
      BY <3>2, <3>3, <3>4
  <2>13. ManifestHere(q) => ManifestHere(q)'
    BY <1>1, <2>6 DEF ManifestHere
  <2>14. /\ pc'[q] \in {"load", "same file", "select"}
         /\ pc'[q] # "load" => k = Len(N)
    BY <1>1, <1>4 DEF Goto, AfterLoading, TypeOK, run
  <2>15. ReadHere(q)'
    BY <1>1, <1>2, <2>4, <2>7, <2>10, <2>12, <2>13, <2>14, <2>17 DEF ReadHere, Loaded, Comparing
  <2>16. Decided(q)'
    BY <1>1, <2>14 DEF Decided
  <2> QED
    BY <2>14, <2>15, <2>16 DEF Undisturbed, At
<1> QED
  BY <1>3, <1>4 DEF LoadSource

\* From the selection to the publication nothing is read any more.
LEMMA SelectAlone ==
  ASSUME IInv, NEW q \in Runs, Select(q), Undisturbed(q)
  PROVE  Undisturbed(q)'
<1>1. /\ TypeOK /\ pc[q] = "select" /\ UNCHANGED <<entry, content, request, manifest, sources>>
      /\ ReadHere(q) /\ Decided(q)
  BY DEF IInv, Select, At, results, Unpublished, directory, Undisturbed
<1>2. CASE Fail(q) /\ ~SelectionValid(q)
  BY <1>1, <1>2, RefusedExactly DEF Select, Succeeds
<1>3. CASE Goto(q, "evaluate") /\ SelectionValid(q)
  <2>1. pc' = [pc EXCEPT ![q] = "evaluate"] /\ pc'[q] = "evaluate"
    BY <1>1, <1>3 DEF Goto, TypeOK
  <2>2. Before(q)' = Before(q)
    BY <1>1 DEF Before
  <2>3. SelectionValid(q)'
    BY <1>1, <1>3, <2>2, SameWorld
  <2>4. Loaded(q) /\ Decided(q)'
    BY <1>1, <2>1, <2>3 DEF Loaded, Decided
  <2> QED
    BY <1>1, <2>1, <2>2, <2>4, GoesOnExactly DEF Steps
<1> QED
  BY <1>2, <1>3 DEF Select

\* No rule is selected that the command does not offer: an analysis asks for no
\* detection rule.
LEMMA SelectedIsOffered ==
  ASSUME NEW q \in Runs, Chosen(q), request[q].valid, SelectionValid(q)
  PROVE  Selected(q) \subseteq Selectable(q)
<1>1. CASE Given(q) = <<>> \/ Given(q) = <<"all">>
  BY <1>1, RulesAreApart DEF Selected, Default, Selectable
<1>2. CASE Given(q) # <<>> /\ Given(q) # <<"all">>
  BY <1>2 DEF Selected, SelectionValid, Chosen
<1> QED
  BY <1>1, <1>2

LEMMA EvaluateAlone ==
  ASSUME IInv, NEW q \in Runs, Evaluate(q), Undisturbed(q), Chosen(q)
  PROVE  Undisturbed(q)'
<1>1. /\ TypeOK /\ pc[q] = "evaluate" /\ UNCHANGED <<entry, content, request, manifest, sources>>
      /\ ReadHere(q) /\ Decided(q) /\ Loaded(q) /\ request[q].valid /\ SelectionValid(q)
  BY DEF IInv, Evaluate, At, Unpublished, directory, Undisturbed, Loaded, Decided
<1>2. Selected(q) \cap DETECTION_RULE_IDS # {} => Replaying(q)
  BY <1>1, SelectedIsOffered, RulesAreApart DEF Selectable
<1>3. CASE Fail(q) /\ ~(Selected(q) \subseteq Covered(ContentsOf(q)))
  BY <1>1, <1>3, LoadedIsLoadable, RefusedExactly DEF Evaluate, Succeeds
<1>4. CASE /\ Selected(q) \subseteq Covered(ContentsOf(q)) /\ Goto(q, "report")
           /\ findings' = [findings EXCEPT ![q] = Matched(ContentsOf(q)) \cap Selected(q)]
  <2>1. pc' = [pc EXCEPT ![q] = "report"] /\ pc'[q] = "report"
    BY <1>1, <1>4 DEF Goto, TypeOK
  <2>2. findings'[q] = Matched(ContentsOf(q)) \cap Selected(q)
    BY <1>1, <1>4 DEF TypeOK
  <2>3. Before(q)' = Before(q)
    BY <1>1 DEF Before
  <2>4. (SelectionValid(q)' <=> SelectionValid(q)) /\ Selected(q)' = Selected(q)
    BY <1>1, <2>3, SameWorld
  <2>5. ContentsOf(q)' = ContentsOf(q)
    BY <1>1 DEF ContentsOf
  <2>6. Covered(ContentsOf(q))' = Covered(ContentsOf(q)) /\ Matched(ContentsOf(q))' = Matched(ContentsOf(q))
    BY <2>5 DEF Covered, Matched
  <2>7. Decided(q)'
    BY <1>1, <1>4, <2>1, <2>2, <2>4, <2>6 DEF Decided
  <2> QED
    BY <1>1, <2>1, <2>3, <2>7, GoesOnExactly DEF Steps
<1> QED
  BY <1>2, <1>3, <1>4 DEF Evaluate

\* The report gate never refuses what the rules found in what the loaders read.
LEMMA BuildReportAlone ==
  ASSUME IInv, NEW q \in Runs, BuildReport(q), Undisturbed(q), Chosen(q)
  PROVE  Undisturbed(q)'
<1>1. /\ TypeOK /\ pc[q] = "report" /\ UNCHANGED <<entry, content, request, manifest, sources, findings>>
      /\ ReadHere(q) /\ Decided(q) /\ Loaded(q) /\ request[q].valid /\ SelectionValid(q)
      /\ findings[q] = Matched(ContentsOf(q)) \cap Selected(q)
  BY DEF IInv, BuildReport, At, results, Unpublished, directory, Undisturbed, Loaded, Decided
<1>2. SchemaFits(q)
  <2>1. Replaying(q) => manifest[q] # {}
    BY <1>1 DEF ReadHere
  <2>2. ~Replaying(q) => findings[q] \cap DETECTION_RULE_IDS = {}
    BY <1>1, SelectedIsOffered, RulesAreApart DEF Selectable
  <2> QED
    BY <2>1, <2>2 DEF SchemaFits, Schema
<1>3. Goto(q, "publish")
  BY <1>1, <1>2 DEF BuildReport
<1>4. pc' = [pc EXCEPT ![q] = "publish"] /\ pc'[q] = "publish"
  BY <1>1, <1>3 DEF Goto, TypeOK
<1>5. Before(q)' = Before(q)
  BY <1>1 DEF Before
<1>6. (SelectionValid(q)' <=> SelectionValid(q)) /\ Selected(q)' = Selected(q)
  BY <1>1, <1>5, SameWorld
<1>7. ContentsOf(q)' = ContentsOf(q)
  BY <1>1 DEF ContentsOf
<1>8. Covered(ContentsOf(q))' = Covered(ContentsOf(q)) /\ Matched(ContentsOf(q))' = Matched(ContentsOf(q))
  BY <1>7 DEF Covered, Matched
<1>9. Decided(q)'
  BY <1>1, <1>4, <1>6, <1>8 DEF Decided
<1> QED
  BY <1>1, <1>4, <1>5, <1>9, GoesOnExactly DEF Steps

LEMMA PublishAlone ==
  ASSUME IInv, NEW q \in Runs, Publish(q), Undisturbed(q)
  PROVE  Undisturbed(q)'
<1> DEFINE o == OutputOf(q)
<1>1. /\ TypeOK /\ pc[q] = "publish" /\ UNCHANGED <<content, request, manifest, sources, findings>>
      /\ ReadHere(q) /\ Decided(q) /\ Loaded(q) /\ o \in Names
  BY DEF IInv, RunInv, Requested, Publish, Bind, At, results, Unpublished, directory, Undisturbed,
     Loaded
<1>2. CASE Fail(q) /\ Unpublished /\ entry[o] # Absent
  <2>1. Before(q)[o] # Absent
    BY <1>1, <1>2, BeforeTheLink
  <2> QED
    BY <1>1, <1>2, <2>1, RefusedExactly DEF Succeeds
<1>3. CASE entry[o] = Absent /\ entry' = [entry EXCEPT ![o] = q] /\ Goto(q, "published")
  <2>1. pc' = [pc EXCEPT ![q] = "published"] /\ pc'[q] = "published"
    BY <1>1, <1>3 DEF Goto, TypeOK
  <2>2. Before(q)' = Before(q)
    <3>1. \A n \in Names : entry[n] # q
      BY <1>1, BeforeTheLink
    <3>2. \A n \in Names : entry'[n] = IF n = o THEN q ELSE entry[n]
      BY <1>1, <1>3 DEF TypeOK
    <3>3. \A n \in Names : (IF entry'[n] = q THEN Absent ELSE entry'[n]) = (IF entry[n] = q THEN Absent ELSE entry[n])
      BY <1>3, <3>1, <3>2
    <3> QED
      BY <3>3 DEF Before
  <2>4. (SelectionValid(q)' <=> SelectionValid(q)) /\ Selected(q)' = Selected(q)
    BY <1>1, <2>2, SameWorld
  <2>5. ContentsOf(q)' = ContentsOf(q)
    BY <1>1 DEF ContentsOf
  <2>6. Covered(ContentsOf(q))' = Covered(ContentsOf(q)) /\ Matched(ContentsOf(q))' = Matched(ContentsOf(q))
    BY <2>5 DEF Covered, Matched
  <2>7. Decided(q)'
    BY <1>1, <2>1, <2>4, <2>6 DEF Decided
  <2> QED
    BY <1>1, <2>1, <2>2, <2>7, GoesOnExactly DEF Steps
<1> QED
  BY <1>2, <1>3 DEF Publish, Bind

\* A run that commits has succeeded, and its status tells what the evidence holds.
LEMMA CommitAlone ==
  ASSUME IInv, NEW q \in Runs, Commit(q), Undisturbed(q)
  PROVE  Undisturbed(q)'
<1> DEFINE o == OutputOf(q)
<1>1. /\ TypeOK /\ pc[q] = "published" /\ UNCHANGED <<entry, content, request>>
      /\ ReadHere(q) /\ Decided(q) /\ Loaded(q) /\ o \in Names /\ Owned(q)
  BY DEF IInv, RunInv, Requested, Commit, At, Unpublished, directory, Undisturbed, Loaded
<1>2. entry[o] = q /\ Before(q)[o] = Absent
  BY <1>1 DEF Owned, At, Before
<1>3. Loadable(q) /\ Evidence(q) = ContentsOf(q)
  BY <1>1, LoadedIsLoadable
<1>4. Succeeds(q) /\ (Matches(q) <=> findings[q] # {})
  BY <1>1, <1>2, <1>3 DEF Succeeds, Matches, Decided
<1>5. pc'[q] = "ended" /\ exit'[q] = IF Matches(q) THEN "1" ELSE "0"
  BY <1>1, <1>4 DEF Commit, Exit, Status, TypeOK
<1>6. Before(q)' = Before(q) /\ o' = o
  BY <1>1 DEF Before, OutputOf
<1>7. (Succeeds(q)' <=> Succeeds(q)) /\ (Matches(q)' <=> Matches(q))
  BY <1>1, <1>6, SameWorld
<1> QED
  BY <1>1, <1>2, <1>4, <1>5, <1>6, <1>7 DEF Undisturbed, Exact, At

-----------------------------------------------------------------------------
\* Nothing is undisturbed that was disturbed.
LEMMA StepAlone ==
  ASSUME IInv, IInv', NEW q \in Runs, Step(q), NEW r \in Runs, r \in alone',
         Chosen(q), r \in alone => Undisturbed(r)
  PROVE  Undisturbed(r)'
<1>1. TypeOK
  BY DEF IInv
<1>2. r \in alone
  BY DEF Step, ParseArguments, CompareFile, ComparePath, LoadManifest, LoadSource, Select, Evaluate,
     BuildReport, Publish, Bind, Notice, Commit, Withdraw, Own, Break, Unpublished, history
<1>3. CASE r = q
  <2>1. ~Withdraw(q) /\ ~Break(q)
    BY <1>3 DEF Withdraw, Own, Break
  <2> QED
    BY <1>2, <1>3, <2>1, ParseArgumentsAlone, CompareFileAlone, ComparePathAlone, LoadManifestAlone,
       LoadSourceAlone, SelectAlone, EvaluateAlone, BuildReportAlone, PublishAlone, CommitAlone DEF Step
<1>4. CASE r # q
  <2>1. SameRow(r) /\ findings'[r] = findings[r] /\ request' = request
    BY <1>1, <1>4 DEF Step, ParseArguments, CompareFile, ComparePath, LoadManifest, LoadSource,
       Select,
       Evaluate, BuildReport, Publish, Bind, Commit, Withdraw, Break, Unpublished, directory, results,
       run, SameRow, Goto, Fail, Exit, TypeOK
  <2>2. At(r, "arguments") \/ UNCHANGED <<entry, content>>
    BY <1>4 DEF Step, ParseArguments, CompareFile, ComparePath, LoadManifest, LoadSource, Select,
       Evaluate, BuildReport, Publish, Bind, Notice, Commit, Withdraw, Own, Break, Unpublished, directory
  <2>3. CASE At(r, "arguments")
    <3>1. At(r, "arguments")'
      BY <2>1, <2>3 DEF SameRow, At
    <3> QED
      BY <3>1, NotBegunLater
  <2>4. CASE UNCHANGED <<entry, content>>
    BY <1>2, <2>1, <2>4, StaysExact
  <2> QED
    BY <2>2, <2>3, <2>4
<1> QED
  BY <1>3, <1>4

LEMMA ChangeAlone ==
  ASSUME IInv', Change, NEW r \in Runs, r \in alone'
  PROVE  Undisturbed(r)'
<1>1. At(r, "arguments") /\ pc' = pc
  BY DEF Change, run
<1>2. At(r, "arguments")'
  BY <1>1 DEF At
<1> QED
  BY <1>2, NotBegunLater

LEMMA InitAlone == Init => AloneInv
<1> SUFFICES ASSUME Init, NEW r \in Runs PROVE Chosen(r) /\ Undisturbed(r)
  BY DEF AloneInv
<1>1. At(r, "arguments") /\ IInv
  BY InitInvariant DEF Init, At
<1>2. Undisturbed(r)
  BY <1>1, NotBegun
<1>3. Chosen(r)
  BY SituationsAreStarts DEF Init, Chosen, Given, Selectable, Replaying
<1> QED
  BY <1>2, <1>3

LEMMA NextAlone == IInv /\ IInv' /\ AloneInv /\ [Next]_vars => AloneInv'
<1> SUFFICES ASSUME IInv, IInv', AloneInv, [Next]_vars, NEW r \in Runs
             PROVE  Chosen(r)' /\ (r \in alone' => Undisturbed(r)')
  BY DEF AloneInv
<1>1. request' = request
  BY DEF Next, Step, Change, ParseArguments, CompareFile, ComparePath, LoadManifest, LoadSource,
     Select,
     Evaluate, BuildReport, Publish, Bind, Commit, Withdraw, Break, Unpublished, vars
<1>2. Chosen(r)'
  BY <1>1 DEF AloneInv, Chosen, Given, Selectable, Replaying
<1>3. ASSUME r \in alone' PROVE Undisturbed(r)'
  <2>1. CASE UNCHANGED vars
    <3>1. UNCHANGED <<entry, content, request, pc, checked, exit, manifest, sources, findings, alone>>
      BY <2>1 DEF vars, directory, run, results, history
    <3> QED
      BY <1>3, <3>1, StaysExact DEF AloneInv, SameRow
  <2>2. CASE Change
    BY <1>3, <2>2, ChangeAlone
  <2>3. ASSUME NEW q \in Runs, Step(q) PROVE Undisturbed(r)'
    BY <1>3, <2>3, StepAlone DEF AloneInv
  <2> QED
    BY <2>1, <2>2, <2>3 DEF Next
<1> QED
  BY <1>2, <1>3

\* A run that nothing disturbs exits exactly with the status the documented exit codes
\* give to its arguments, its files and its output (README.md), and its report is there
\* exactly when it succeeded; the report gate never refuses it.
THEOREM ExitCodesExact == Spec => []ExitExact
<1>1. Init => AloneInv
  BY InitAlone
<1>2. IInv /\ IInv' /\ AloneInv /\ [Next]_vars => AloneInv'
  BY NextAlone
<1>3. IInv /\ AloneInv => ExitExact
  BY DEF IInv, TypeOK, AloneInv, Undisturbed, ExitExact
<1> QED
  BY <1>1, <1>2, <1>3, Invariance, PTL DEF Spec
=============================================================================
