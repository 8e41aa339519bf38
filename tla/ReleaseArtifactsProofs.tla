----------------------- MODULE ReleaseArtifactsProofs -----------------------
(***************************************************************************)
(* A command of release_artifacts.py that nothing disturbs succeeds        *)
(* exactly when the archive and the directory deserve it, and one that is  *)
(* disturbed tells of files that were there: for archives of any size, any *)
(* policy, any directory and any number of commands at work in it.         *)
(* The invariant IInv says of every run what the checks it has passed have *)
(* shown of the archive it has open, or of the files it has listed, and    *)
(* what others may have done to the directory meanwhile; Deserving is what *)
(* the checks show together, and Acceptable(r, f) is the same of a whole   *)
(* archive.  A step of a run leaves the others what they know (RunStays).  *)
(*                                                                         *)
(* The second half is about the source snapshot and its atomic write, for  *)
(* any commits, any number of writers, any limits and any number of        *)
(* changes by other programs.  Its inductive invariant SnapshotInv         *)
(* follows a writer: what it has read is a beginning of the tree of the    *)
(* revision it has read first, its text is the whole manifest of that      *)
(* tree, and its temporary file holds that text when it is renamed.        *)
(***************************************************************************)
EXTENDS ReleaseArtifacts, SourceSnapshot, FiniteSetTheorems, SequenceTheorems, WellFoundedInduction, TLAPS

(* The commands. *)
Summing(r) == request[r].command = "checksums"
Describing(r) == request[r].command = "sbom"
Were(r) == held[r][request[r].archive]
Named(r) == request[r].archive \in (IF Kind(r) = "wheel" THEN WheelNames ELSE SdistNames)

RequestOK(r) ==
  /\ request[r].command \in {"inspect", "sbom", "checksums"} /\ request[r].kind \in {"wheel", "sdist"}
  /\ request[r].archive \in Names /\ request[r].output \in Names \ Temporaries
  /\ PolicyLines(r) \in Seq(Seq(STRING))

LocalOK ==
  /\ DOMAIN pc = Runs /\ DOMAIN exit = Runs /\ DOMAIN archive = Runs
  /\ number \in [Runs -> Nat] /\ total \in [Runs -> Nat]
  /\ DOMAIN observed_files = Runs /\ DOMAIN observed_paths = Runs
  /\ DOMAIN files = Runs /\ DOMAIN digests = Runs /\ DOMAIN requirements = Runs

TypeOK ==
  /\ entry = [n \in Names |-> entry[n]]
  /\ held = [r \in Runs |-> [n \in Names |-> held[r][n]]]
  /\ alone \subseteq Runs /\ LocalOK
  /\ \A r \in Runs : RequestOK(r)

-----------------------------------------------------------------------------
(* What has been done to the archive that is inspected. *)
Fresh(r) ==
  number[r] = 0 /\ total[r] = 0 /\ observed_files[r] = {} /\ observed_paths[r] = {} /\ digests[r] = <<>>

Opened(r) ==
  /\ ~Summing(r) /\ Named(r) /\ digests[r] = <<>>
  /\ archive[r] \in Were(r) /\ Opens(archive[r], Kind(r))

Reads(r) ==
  LET ms == archive[r].members
  IN /\ Opened(r) /\ observed_files[r] = {} /\ observed_paths[r] = {}
     /\ number[r] <= Len(ms) /\ number[r] <= MaxMembers
     /\ total[r] = Sizes(ms)[number[r]] /\ total[r] <= MaxTotalMemberBytes
     /\ \A k \in 1 .. number[r] : BoundedMember(ms[k])

IsRead(r) == Opened(r) /\ Bounded(archive[r]) /\ \A k \in DOMAIN archive[r].members : archive[r].members[k].honest

PolicyOK(lines) == lines # <<>> /\ IsInjective(lines) /\ \A k \in DOMAIN lines : Canonical(lines[k])

Judged(m, policy) ==
  /\ Canonical(m.path) /\ ~Private(m.path) /\ m.kind \in {"file", "directory"} /\ SafeMode(m)
  /\ m.kind = "directory" => m.path \in AllowedDirectories(policy)
  /\ m.kind = "file" => m.clean

Judges(r) ==
  LET ms == archive[r].members
  IN /\ IsRead(r) /\ PolicyOK(PolicyLines(r)) /\ number[r] <= Len(ms)
     /\ \A k \in 1 .. number[r] : Judged(ms[k], Policy(r))
     /\ \A j, k \in 1 .. number[r] : ms[j].path = ms[k].path => j = k
     /\ observed_paths[r] = {ms[k].path : k \in 1 .. number[r]}
     /\ observed_files[r] = {ms[k].path : k \in {j \in 1 .. number[r] : ms[j].kind = "file"}}

Accepted(r) ==
  /\ ~Summing(r) /\ \E f \in Were(r) : Acceptable(r, f)
  /\ Cardinality(observed_files[r]) = Len(PolicyLines(r))

Digested(r, n) == digests[r] \in Seq(Were(r)) /\ Len(digests[r]) = n

Identifies(r) ==
  /\ Describing(r) /\ request[r].archive = ExpectedWheel /\ request[r].output # request[r].archive
  /\ \E f \in Were(r) : Identified(f) /\ requirements[r] = Declared(f)

(* What has been done to the files that are listed. *)
IsListed(r) == files[r] \in Seq(Names) /\ (r \in alone => files[r] = Listing(Before(r)))

Passed(r, n) ==
  \A k \in 1 .. n : files[r][k] \notin UnsafeNames /\ (r \in alone => IsRegular(Found(r, files[r][k])))

Lists(r) == Summing(r) /\ IsListed(r) /\ digests[r] = <<>> /\ number[r] <= Len(files[r]) /\ Passed(r, number[r])

Hashed(r, n) ==
  /\ digests[r] \in Seq(UNION {held[r][m] : m \in Names}) /\ Len(digests[r]) = n
  /\ \A k \in 1 .. n : digests[r][k] \in held[r][files[r][k]]

Hashes(r) ==
  /\ Summing(r) /\ IsListed(r) /\ files[r] # <<>> /\ number[r] <= Len(files[r])
  /\ Passed(r, Len(files[r])) /\ Hashed(r, number[r])

Complete(r) ==
  /\ request[r].command = "inspect" => exit[r] = "0" /\ Accepted(r) /\ Digested(r, 1)
  /\ Describing(r) => Accepted(r) /\ Digested(r, 2) /\ Identifies(r) /\ request[r].date_valid
  /\ Summing(r) => IsListed(r) /\ files[r] # <<>> /\ Passed(r, Len(files[r])) /\ Hashed(r, Len(files[r]))

Done(r) ==
  /\ pc[r] # "ended" => exit[r] = "running"
  /\ pc[r] \in {"begin", "require", "size", "open", "list"} => Fresh(r)
  /\ pc[r] \in {"require", "size"} => ~Summing(r)
  /\ pc[r] = "open" => ~Summing(r) /\ Named(r)
  /\ pc[r] = "read" => Reads(r)
  /\ pc[r] = "policy" => IsRead(r) /\ number[r] = 0 /\ observed_files[r] = {} /\ observed_paths[r] = {}
  /\ pc[r] = "judge" => Judges(r)
  /\ pc[r] = "digest" => Accepted(r) /\ digests[r] = <<>>
  /\ pc[r] = "identify" => Describing(r) /\ Accepted(r) /\ Digested(r, 1)
  /\ pc[r] = "describe" => Accepted(r) /\ Digested(r, 1) /\ Identifies(r)
  /\ pc[r] = "list" => Summing(r)
  /\ pc[r] = "files" => Lists(r)
  /\ pc[r] = "hash" => Hashes(r)
  /\ pc[r] \in {"write", "replace"} \/ exit[r] = "0" => Complete(r)

(* What is under the names. *)
Outside(r) == pc[r] \in {"begin", "replace", "ended"}

Steady(r) ==
  /\ ~Outside(r) => \A n \in Names : entry[n] \in held[r][n]
  /\ pc[r] \notin {"replace", "ended"} => entry[TemporaryName[r]] = Absent
  /\ r \in alone /\ pc[r] # "begin" => \A n \in Names : held[r][n] = {Found(r, n)}
  /\ r \in alone /\ pc[r] = "replace" =>
       /\ entry = [Before(r) EXCEPT ![TemporaryName[r]] = Plain]
       /\ Found(r, TemporaryName[r]) = Absent /\ Writable(Found(r, OutputOf(r)))

RunInv(r) == Done(r) /\ Steady(r) /\ (r \in alone /\ pc[r] = "ended" => Exact(r))

IInv == TypeOK /\ \A r \in Runs : RunInv(r)

-----------------------------------------------------------------------------
(* Recursion over the positions of a sequence, by induction on a set of numbers. *)

\* A set that has 0, and k whenever it has k - 1, has all numbers.
LEMMA Inductive ==
  ASSUME NEW n \in Nat, NEW S, 0 \in S, \A k \in 1 .. n : k - 1 \in S => k \in S
  PROVE  \A k \in 0 .. n : k \in S
<1> DEFINE Below == OpToRel(<, Nat)
           Missing == {k \in 0 .. n : k \notin S}
<1>1. IsWellFoundedOn(Below, Nat)
  BY NatLessThanWellFounded
<1>2. \A i, j \in Nat : i < j => <<i, j>> \in Below
  BY DEF OpToRel
<1>3. Missing \subseteq Nat
  OBVIOUS
<1>4. ASSUME Missing # {} PROVE FALSE
  <2> HIDE DEF Below, Missing
  <2>1. PICK k \in Missing : \A i \in Missing : ~(<<i, k>> \in Below)
    BY <1>1, <1>3, <1>4, WFMin
  <2>2. k \in Nat /\ k \in 0 .. n /\ k \notin S
    BY <2>1 DEF Missing
  <2>3. k # 0 /\ k \in 1 .. n /\ k - 1 \in 0 .. n /\ k - 1 \in Nat /\ k - 1 < k
    BY <2>2
  <2>4. k - 1 \in Missing
    BY <2>2, <2>3 DEF Missing
  <2> QED
    BY <1>2, <2>1, <2>2, <2>3, <2>4
<1> QED
  BY <1>4

\* f begins with first, and goes on with what step makes of each value.
Goes(f, n, first, step) ==
  f = [k \in 0 .. n |-> IF k = 0 THEN first ELSE step[<<k, f[k - 1]>>]]

\* There is such a function.
LEMMA Recursion ==
  ASSUME NEW n \in Nat, NEW D, NEW first \in D, NEW step \in [(1 .. n) \X D -> D]
  PROVE  \E f : Goes(f, n, first, step)
<1> DEFINE Partial(f, m) == /\ f \in [0 .. m -> D] /\ f[0] = first
                            /\ \A k \in 1 .. m : f[k] = step[<<k, f[k - 1]>>]
           With == {m \in 0 .. n : \E f : Partial(f, m)}
<1>1. 0 \in With
  <2>1. Partial([k \in 0 .. 0 |-> first], 0)
    OBVIOUS
  <2> HIDE DEF Partial
  <2> QED
    BY <2>1
<1>2. ASSUME NEW m \in 1 .. n, m - 1 \in With PROVE m \in With
  <2>1. PICK f : Partial(f, m - 1)
    BY <1>2
  <2> DEFINE g == [k \in 0 .. m |-> IF k = m THEN step[<<m, f[m - 1]>>] ELSE f[k]]
  <2>2. m \in Nat /\ m - 1 \in 0 .. (m - 1) /\ f[m - 1] \in D
    BY <2>1
  <2>3. step[<<m, f[m - 1]>>] \in D
    BY <2>2
  <2>4. g \in [0 .. m -> D] /\ g[0] = first
    BY <2>1, <2>2, <2>3
  <2>5. ASSUME NEW k \in 1 .. m PROVE g[k] = step[<<k, g[k - 1]>>]
    <3>1. k - 1 \in 0 .. m /\ k - 1 # m /\ k \in 0 .. m
      BY <2>2
    <3>2. CASE k = m
      BY <3>1, <3>2, <2>2
    <3>3. CASE k # m
      <4>1. k \in 1 .. (m - 1)
        BY <2>2, <3>3
      <4> QED
        BY <2>1, <3>1, <3>3, <4>1
    <3> QED
      BY <3>2, <3>3
  <2>6. Partial(g, m)
    BY <2>4, <2>5
  <2> HIDE DEF Partial, g
  <2> QED
    BY <2>6
<1>3. \A m \in 0 .. n : m \in With
  <2> HIDE DEF With
  <2> QED
    BY <1>1, <1>2, Inductive
<1>4. n \in 0 .. n
  OBVIOUS
<1> HIDE DEF Partial
<1>5. PICK f : Partial(f, n)
  BY <1>3, <1>4
<1>6. f = [k \in 0 .. n |-> IF k = 0 THEN first ELSE step[<<k, f[k - 1]>>]]
  <2>1. f = [k \in 0 .. n |-> f[k]] /\ f[0] = first /\ \A k \in 1 .. n : f[k] = step[<<k, f[k - 1]>>]
    BY <1>5 DEF Partial
  <2>2. \A k \in 0 .. n : f[k] = IF k = 0 THEN first ELSE step[<<k, f[k - 1]>>]
    <3>1. \A k \in 0 .. n : k = 0 \/ k \in 1 .. n
      OBVIOUS
    <3> QED
      BY <2>1, <3>1, Zenon
  <2>3. [k \in 0 .. n |-> f[k]] = [k \in 0 .. n |-> IF k = 0 THEN first ELSE step[<<k, f[k - 1]>>]]
    BY <2>2, Zenon
  <2> QED
    BY <2>1, <2>2
<1> QED
  BY <1>6 DEF Goes

Inside(f, n, D, first, step) ==
  /\ f \in [0 .. n -> D] /\ f[0] = first
  /\ \A k \in 1 .. n : f[k] = step[<<k, f[k - 1]>>]

\* It goes through values of the set.
LEMMA GoesInside ==
  ASSUME NEW n \in Nat, NEW D, NEW first \in D, NEW step \in [(1 .. n) \X D -> D], NEW f, Goes(f, n, first, step)
  PROVE  Inside(f, n, D, first, step)
<1> DEFINE In == {k \in 0 .. n : f[k] \in D}
<1>1. /\ f = [k \in 0 .. n |-> f[k]] /\ 0 \in 0 .. n
      /\ \A k \in 0 .. n : f[k] = IF k = 0 THEN first ELSE step[<<k, f[k - 1]>>]
  BY DEF Goes
<1>2. f[0] = first /\ \A k \in 1 .. n : f[k] = step[<<k, f[k - 1]>>]
  <2>1. \A k \in 1 .. n : k \in 0 .. n /\ k # 0
    OBVIOUS
  <2> HIDE DEF In
  <2> QED
    BY <1>1, <2>1, Zenon
<1>3. 0 \in In
  BY <1>2
<1>4. ASSUME NEW k \in 1 .. n, k - 1 \in In PROVE k \in In
  <2>1. f[k - 1] \in D /\ k \in 0 .. n
    BY <1>4
  <2>2. step[<<k, f[k - 1]>>] \in D
    BY <2>1
  <2> QED
    BY <1>2, <2>1, <2>2
<1>5. \A k \in 0 .. n : k \in In
  <2> HIDE DEF In
  <2> QED
    BY <1>3, <1>4, Inductive
<1> QED
  BY <1>1, <1>2, <1>5 DEF Inside

\* The sizes of the members add up, and do not fall.
LEMMA SizesAddUp ==
  ASSUME NEW ms \in Seq(Members)
  PROVE  /\ Sizes(ms) \in [0 .. Len(ms) -> Nat] /\ Sizes(ms)[0] = 0
         /\ \A k \in 1 .. Len(ms) : Sizes(ms)[k] = Sizes(ms)[k - 1] + ms[k].size
<1> DEFINE n == Len(ms)
           step == [x \in (1 .. n) \X Nat |-> x[2] + ms[x[1]].size]
           Recursive(f) == f = [k \in 0 .. n |-> IF k = 0 THEN 0 ELSE f[k - 1] + ms[k].size]
<1>1. n \in Nat /\ \A k \in 1 .. n : ms[k].size \in Nat
  <2>1. n \in Nat /\ \A k \in 1 .. n : ms[k] \in Members
    BY LenProperties, ElementOfSeq
  <2> QED
    BY <2>1 DEF Members
<1>2. step \in [(1 .. n) \X Nat -> Nat]
  BY <1>1
<1>3. \A k \in 1 .. n, x \in Nat : step[<<k, x>>] = x + ms[k].size
  BY <1>1
<1>4. PICK f : Goes(f, n, 0, step)
  <2> HIDE DEF n, step
  <2> QED
    BY <1>1, <1>2, Recursion
<1>5. /\ f \in [0 .. n -> Nat] /\ f[0] = 0 /\ \A k \in 1 .. n : f[k] = step[<<k, f[k - 1]>>]
  <2>1. 0 \in Nat /\ n \in Nat
    BY <1>1
  <2> HIDE DEF n, step
  <2>2. Inside(f, n, Nat, 0, step)
    BY <1>2, <1>4, <2>1, GoesInside
  <2> QED
    BY <2>2 DEF Inside
<1>6. \A k \in 0 .. n : f[k] = IF k = 0 THEN 0 ELSE f[k - 1] + ms[k].size
  <2> SUFFICES ASSUME NEW k \in 1 .. n PROVE f[k] = f[k - 1] + ms[k].size
    BY <1>1, <1>5
  <2>1. k - 1 \in 0 .. n
    BY <1>1
  <2> HIDE DEF n, step
  <2> QED
    BY <2>1, <1>3, <1>5
<1>7. Recursive(f)
  <2> HIDE DEF n
  <2> QED
    BY <1>5, <1>6
<1>8. Sizes(ms) = CHOOSE g : Recursive(g)
  BY DEF Sizes
<1>9. Recursive(Sizes(ms))
  <2> HIDE DEF Recursive
  <2> QED
    BY <1>7, <1>8
<1> DEFINE t == Sizes(ms)
<1>10. t = [k \in 0 .. n |-> IF k = 0 THEN 0 ELSE t[k - 1] + ms[k].size]
  BY <1>9
<1> HIDE DEF t
<1>11. /\ t = [k \in 0 .. n |-> t[k]] /\ t[0] = 0 /\ \A k \in 1 .. n : t[k] = t[k - 1] + ms[k].size
  BY <1>1, <1>10
<1> DEFINE In == {k \in 0 .. n : t[k] \in Nat}
<1>12. \A k \in 0 .. n : k \in In
  <2>1. 0 \in In
    BY <1>1, <1>11
  <2>2. ASSUME NEW k \in 1 .. n, k - 1 \in In PROVE k \in In
    BY <1>1, <1>11, <2>2
  <2> HIDE DEF In, n
  <2> QED
    BY <1>1, <2>1, <2>2, Inductive
<1> QED
  BY <1>11, <1>12 DEF t

\* A partial sum is not more than the whole.
LEMMA SizesGrow ==
  ASSUME NEW ms \in Seq(Members), NEW k \in 0 .. Len(ms)
  PROVE  Sizes(ms)[k] <= Sizes(ms)[Len(ms)]
<1> DEFINE n == Len(ms)
           t == Sizes(ms)
           In == {i \in 0 .. n : \A j \in 0 .. i : t[j] <= t[i]}
<1>1. /\ n \in Nat /\ t \in [0 .. n -> Nat]
      /\ \A i \in 1 .. n : t[i] = t[i - 1] + ms[i].size /\ ms[i].size \in Nat
  <2>1. n \in Nat /\ \A i \in 1 .. n : ms[i] \in Members
    BY LenProperties, ElementOfSeq
  <2>2. \A i \in 1 .. n : ms[i].size \in Nat
    BY <2>1 DEF Members
  <2> QED
    BY <2>1, <2>2, SizesAddUp
<1> HIDE DEF n, t
<1>2. 0 \in In
  BY <1>1
<1>3. ASSUME NEW i \in 1 .. n, i - 1 \in In PROVE i \in In
  <2>0. n \in Nat
    BY <1>1
  <2>1. i \in 0 .. n /\ i - 1 \in 0 .. n /\ t[i] \in Nat /\ t[i - 1] \in Nat /\ t[i - 1] <= t[i]
    <3>1. i \in 0 .. n /\ i - 1 \in 0 .. n
      BY <2>0
    <3>2. t[i] \in Nat /\ t[i - 1] \in Nat /\ t[i] = t[i - 1] + ms[i].size /\ ms[i].size \in Nat
      BY <1>1, <3>1
    <3> QED
      BY <3>1, <3>2
  <2>2. ASSUME NEW j \in 0 .. i PROVE t[j] <= t[i]
    <3>1. t[j] \in Nat
      BY <1>1, <2>1
    <3>2. CASE j = i
      BY <2>1, <3>2
    <3>3. CASE j # i
      <4>1. j \in 0 .. (i - 1)
        BY <3>3
      <4>2. t[j] <= t[i - 1]
        BY <1>3, <4>1
      <4> QED
        BY <2>1, <3>1, <4>2
    <3> QED
      BY <3>2, <3>3
  <2> QED
    BY <2>1, <2>2
<1>4. n \in In
  <2>1. n \in 0 .. n
    BY <1>1
  <2> HIDE DEF In
  <2> QED
    BY <1>1, <1>2, <1>3, <2>1, Inductive
<1>5. \A j \in 0 .. n : t[j] <= t[n]
  BY <1>4
<1> QED
  BY <1>5 DEF n, t

\* A listing is made of names of the directory.
LEMMA ListingOfNames ==
  ASSUME NEW e
  PROVE  Listing(e) \in Seq(Names)
<1> DEFINE n == Len(SortedNames)
           There(k) == SortedNames[k] # Sums /\ e[SortedNames[k]] # Absent
           D == Seq(Names)
           step == [x \in (1 .. n) \X D |-> IF There(x[1]) THEN Append(x[2], SortedNames[x[1]]) ELSE x[2]]
           Recursive(f) == f = [k \in 0 .. n |-> IF k = 0 THEN <<>>
                                                 ELSE IF There(k) THEN Append(f[k - 1], SortedNames[k]) ELSE f[k - 1]]
<1>1. n \in Nat /\ (\A k \in 1 .. n : SortedNames[k] \in Names) /\ <<>> \in D
  BY NamesAreSorted, LenProperties, ElementOfSeq, EmptySeq
<1>2. step \in [(1 .. n) \X D -> D]
  <2> HIDE DEF There
  <2>1. \A k \in 1 .. n, x \in D : Append(x, SortedNames[k]) \in D
    BY <1>1, AppendProperties
  <2> HIDE DEF D, n
  <2> QED
    BY <2>1
<1>3. \A k \in 1 .. n, x \in D : step[<<k, x>>] = IF There(k) THEN Append(x, SortedNames[k]) ELSE x
  <2> HIDE DEF There, D, n
  <2> QED
    OBVIOUS
<1> HIDE DEF There
<1>4. PICK f : Goes(f, n, <<>>, step)
  <2> HIDE DEF n, step, D
  <2> QED
    BY <1>1, <1>2, Recursion
<1>5. /\ f \in [0 .. n -> D] /\ f[0] = <<>> /\ \A k \in 1 .. n : f[k] = step[<<k, f[k - 1]>>]
  <2> HIDE DEF n, step, D
  <2>1. Inside(f, n, D, <<>>, step)
    BY <1>1, <1>2, <1>4, GoesInside
  <2> QED
    BY <2>1 DEF Inside
<1>6. \A k \in 0 .. n : f[k] = IF k = 0 THEN <<>> ELSE IF There(k) THEN Append(f[k - 1], SortedNames[k]) ELSE f[k - 1]
  <2> HIDE DEF n, step, D
  <2>1. ASSUME NEW k \in 1 .. n PROVE f[k] = IF There(k) THEN Append(f[k - 1], SortedNames[k]) ELSE f[k - 1]
    <3>1. k - 1 \in 0 .. n
      BY <1>1
    <3>2. f[k - 1] \in D
      BY <3>1, <1>5
    <3> QED
      BY <3>2, <1>3, <1>5
  <2>2. \A k \in 0 .. n : k = 0 \/ (k \in 1 .. n /\ k # 0)
    <3>1. n \in Nat
      BY <1>1
    <3> QED
      BY <3>1
  <2> QED
    BY <1>5, <2>1, <2>2, Zenon
<1>7. Recursive(f)
  <2> HIDE DEF n, D
  <2> QED
    BY <1>5, <1>6
<1> DEFINE t == CHOOSE g : Recursive(g)
<1>8. Listing(e) = t[n]
  BY DEF Listing, There
<1>9. Recursive(t)
  <2> HIDE DEF Recursive
  <2> QED
    BY <1>7
<1> HIDE DEF t
<1>10. /\ t = [k \in 0 .. n |-> t[k]] /\ t[0] = <<>>
       /\ \A k \in 1 .. n : t[k] = IF There(k) THEN Append(t[k - 1], SortedNames[k]) ELSE t[k - 1]
  <2> DEFINE g == t
             h(k) == IF k = 0 THEN <<>> ELSE IF There(k) THEN Append(g[k - 1], SortedNames[k]) ELSE g[k - 1]
  <2>1. t = [k \in 0 .. n |-> h(k)]
    BY <1>9
  <2>2. 0 \in 0 .. n /\ \A k \in 1 .. n : k \in 0 .. n /\ k # 0
    BY <1>1
  <2> HIDE DEF h, n
  <2>3. t = [k \in 0 .. n |-> t[k]] /\ \A k \in 0 .. n : t[k] = h(k)
    BY <2>1
  <2>4. h(0) = <<>> /\ \A k \in 1 .. n : h(k) = IF There(k) THEN Append(t[k - 1], SortedNames[k]) ELSE t[k - 1]
    BY <2>2 DEF h
  <2> QED
    BY <2>2, <2>3, <2>4
<1> DEFINE In == {k \in 0 .. n : t[k] \in D}
<1>11. \A k \in 0 .. n : k \in In
  <2>1. 0 \in In
    BY <1>1, <1>10
  <2>2. ASSUME NEW k \in 1 .. n, k - 1 \in In PROVE k \in In
    <3>1. t[k - 1] \in D /\ SortedNames[k] \in Names /\ k \in 0 .. n
      BY <1>1, <2>2
    <3>2. Append(t[k - 1], SortedNames[k]) \in D
      BY <3>1, AppendProperties
    <3>3. t[k] \in D
      BY <1>10, <3>1, <3>2
    <3> QED
      BY <3>1, <3>3
  <2> HIDE DEF In, n, D
  <2> QED
    BY <1>1, <2>1, <2>2, Inductive
<1>12. t[n] \in D
  <2>1. n \in 0 .. n
    BY <1>1
  <2> QED
    BY <1>11, <2>1
<1> QED
  BY <1>8, <1>12

\* A sequence has as many elements as it is long exactly if it repeats none.
LEMMA Distinct ==
  ASSUME NEW S, NEW s \in Seq(S)
  PROVE  /\ IsFiniteSet(ToSet(s)) /\ Cardinality(ToSet(s)) \in Nat
         /\ Cardinality(ToSet(s)) = Len(s) <=> IsInjective(s)
<1> DEFINE n == Len(s)
<1>1. n \in Nat /\ DOMAIN s = 1 .. n /\ s \in [1 .. n -> S]
  BY LenProperties
<1>2. s \in Surjection(1 .. n, ToSet(s))
  BY <1>1 DEF Surjection, ToSet
<1>3. IsFiniteSet(1 .. n) /\ Cardinality(1 .. n) = n
  <2>1. 1 \in Int /\ n \in Int /\ (1 > n <=> n = 0) /\ n - 1 + 1 = n
    BY <1>1
  <2> QED
    BY <2>1, FS_Interval
<1>4. s \in Injection(1 .. n, ToSet(s)) <=> IsInjective(s)
  BY <1>2 DEF Injection, Surjection
<1>5. IsFiniteSet(ToSet(s)) /\ (Cardinality(ToSet(s)) = n <=> IsInjective(s))
  BY <1>2, <1>3, <1>4, FS_Surjection
<1> QED
  BY <1>5, FS_CardinalityType

\* The directories that a policy allows are the parent directories of its files.
LEMMA ParentsAreAllowed ==
  ASSUME NEW policy \in SUBSET Seq(STRING), NEW path \in Seq(STRING), path # <<>>
  PROVE  path \in AllowedDirectories(policy) <=> \E p \in policy : IsStrictPrefix(path, p)
<1>1. Len(path) \in Nat \ {0} /\ SubSeq(path, 1, Len(path)) = path
  BY EmptySeq, SubSeqFull
<1>2. ASSUME NEW p \in policy, NEW n \in 1 .. Len(p) - 1, path = SubSeq(p, 1, n)
      PROVE  IsStrictPrefix(path, p)
  <2>1. p \in Seq(STRING) /\ Len(p) \in Nat /\ n \in Int /\ 1 \in Int /\ 1 <= n /\ n - 1 + 1 = n /\ n # Len(p) /\ n <= Len(p)
    BY LenProperties
  <2>2. \A i \in 1 .. n : i \in 1 .. Len(p) /\ p[i] \in STRING
    BY <2>1, ElementOfSeq
  <2>3. Len(path) = n
    BY <1>2, <2>1, <2>2, SubSeqProperties
  <2> QED
    BY <1>1, <1>2, <2>1, <2>3 DEF IsStrictPrefix, IsPrefix
<1>3. ASSUME NEW p \in policy, IsStrictPrefix(path, p)
      PROVE  \E n \in 1 .. Len(p) - 1 : path = SubSeq(p, 1, n)
  <2>1. p \in Seq(STRING) /\ Len(p) \in Nat /\ SubSeq(p, 1, Len(p)) = p
    BY LenProperties, SubSeqFull
  <2>2. path # p /\ Len(path) <= Len(p) /\ path = SubSeq(p, 1, Len(path))
    BY <1>1, <1>3 DEF IsStrictPrefix, IsPrefix
  <2>3. Len(path) # Len(p)
    BY <2>1, <2>2
  <2>4. Len(path) \in 1 .. Len(p) - 1
    <3> DEFINE a == Len(path)
               b == Len(p)
    <3>1. a \in Nat /\ a # 0 /\ b \in Nat /\ a <= b /\ a # b
      BY <1>1, <2>1, <2>2, <2>3
    <3> HIDE DEF a, b
    <3>2. a \in 1 .. b - 1
      BY <3>1
    <3> QED
      BY <3>2 DEF a, b
  <2> QED
    BY <2>2, <2>4
<1>4. path \in AllowedDirectories(policy) <=> \E p \in policy : \E n \in 1 .. Len(p) - 1 : path = SubSeq(p, 1, n)
  BY DEF AllowedDirectories
<1> QED
  BY <1>2, <1>3, <1>4, Zenon

-----------------------------------------------------------------------------
(* What makes an archive acceptable, member by member: what the steps check.          *)
FilePaths(f) == {f.members[k].path : k \in {j \in DOMAIN f.members : f.members[j].kind = "file"}}
Repeatless(f) == \A j, k \in DOMAIN f.members : f.members[j].path = f.members[k].path => j = k

Deserving(r, f) ==
  /\ f \in Archives /\ Opens(f, Kind(r)) /\ Expands(f) /\ Named(r) /\ Len(f.members) <= MaxMembers
  /\ Sizes(f.members)[Len(f.members)] <= MaxTotalMemberBytes
  /\ \A k \in DOMAIN f.members : BoundedMember(f.members[k]) /\ Judged(f.members[k], Policy(r))
  /\ PolicyOK(PolicyLines(r)) /\ Repeatless(f) /\ FilePaths(f) = Policy(r)

\* What a path may be.
Proper(path) == path # <<>> /\ \A j \in DOMAIN path : path[j] \notin PrivateParts \cup {"", ".", ".."}

\* A path is proper exactly if the two scans of a member's path pass it.
LEMMA ProperPaths ==
  ASSUME NEW path
  PROVE  Proper(path) <=> Canonical(path) /\ ~Private(path)
<1>1. Canonical(path) <=> path # <<>> /\ \A j \in DOMAIN path : path[j] \notin {"", ".", ".."}
  BY Zenon DEF Canonical, ToSet
<1>2. ~Private(path) <=> \A j \in DOMAIN path : path[j] \notin PrivateParts
  BY Zenon DEF Private, ToSet
<1> QED
  BY <1>1, <1>2, Zenon DEF Proper

\* The members of an archive are a sequence of members.
LEMMA ArchiveMembers ==
  ASSUME NEW f \in Archives
  PROVE  /\ f.kind \in {"wheel", "sdist"} /\ f.members \in Seq(Members)
         /\ Len(f.members) \in Nat /\ DOMAIN f.members = 1 .. Len(f.members)
         /\ \A k \in DOMAIN f.members :
              /\ f.members[k] \in Members /\ f.members[k].path \in Seq(STRING) /\ f.members[k].size \in Nat
              /\ f.members[k].mode \in {"none", "plain", "executable", "unsafe"}
<1>1. f.kind \in {"wheel", "sdist"} /\ f.members \in Seq(Members)
  BY ArchivesAreArchives
<1>2. Len(f.members) \in Nat /\ DOMAIN f.members = 1 .. Len(f.members)
  BY <1>1, LenProperties
<1>3. \A k \in DOMAIN f.members : f.members[k] \in Members
  BY <1>1, <1>2, ElementOfSeq
<1> QED
  BY <1>1, <1>2, <1>3 DEF Members

\* A policy is a set of paths, and empty exactly if it has no lines.
LEMMA PolicyIsPaths ==
  ASSUME NEW r \in Runs, RequestOK(r)
  PROVE  /\ Policy(r) \in SUBSET Seq(STRING) /\ PolicyLines(r) \in Seq(Seq(STRING))
         /\ DOMAIN PolicyLines(r) = 1 .. Len(PolicyLines(r))
         /\ Policy(r) # {} <=> PolicyLines(r) # <<>>
<1> DEFINE s == PolicyLines(r)
<1>1. s \in Seq(Seq(STRING))
  BY DEF RequestOK
<1> HIDE DEF s
<1>2. DOMAIN s = 1 .. Len(s) /\ Len(s) \in Nat /\ \A k \in DOMAIN s : s[k] \in Seq(STRING)
  BY <1>1, LenProperties, ElementOfSeq
<1>3. s # <<>> <=> Len(s) # 0
  BY <1>1, EmptySeq
<1>4. ToSet(s) # {} <=> s # <<>>
  <2>1. CASE Len(s) = 0
    <3>1. DOMAIN s = {}
      BY <1>2, <2>1
    <3> QED
      BY <1>3, <2>1, <3>1, Zenon DEF ToSet
  <2>2. CASE Len(s) # 0
    <3>1. 1 \in DOMAIN s
      BY <1>2, <2>2
    <3> QED
      BY <1>3, <2>2, <3>1, Zenon DEF ToSet
  <2> QED
    BY <2>1, <2>2
<1>5. ToSet(s) \in SUBSET Seq(STRING)
  BY <1>2, Zenon DEF ToSet
<1> QED
  BY <1>1, <1>2, <1>4, <1>5 DEF s, Policy

\* No path is repeated exactly if there are as many paths as members.
LEMMA RepeatlessCount ==
  ASSUME NEW f \in Archives
  PROVE  Cardinality({f.members[k].path : k \in DOMAIN f.members}) = Len(f.members) <=> Repeatless(f)
<1> DEFINE ms == f.members
           n == Len(ms)
           paths == [k \in 1 .. n |-> ms[k].path]
<1>1. n \in Nat /\ DOMAIN ms = 1 .. n /\ \A k \in 1 .. n : ms[k].path \in Seq(STRING)
  BY ArchiveMembers
<1> HIDE DEF n, ms
<1>2. paths \in Seq(Seq(STRING)) /\ Len(paths) = n /\ DOMAIN paths = 1 .. n
  BY <1>1
<1>3. ToSet(paths) = {ms[k].path : k \in DOMAIN ms}
  BY <1>1, <1>2 DEF ToSet
<1>4. IsInjective(paths) <=> \A j, k \in DOMAIN ms : ms[j].path = ms[k].path => j = k
  BY <1>1, <1>2 DEF IsInjective
<1> HIDE DEF paths
<1>5. Cardinality(ToSet(paths)) = n <=> IsInjective(paths)
  BY <1>2, Distinct
<1> QED
  BY <1>3, <1>4, <1>5 DEF ms, n, Repeatless

\* A member is judged well exactly if it harms nobody and its path follows the policy.
LEMMA JudgedMeans ==
  ASSUME NEW m \in Members, NEW policy \in SUBSET Seq(STRING)
  PROVE  Judged(m, policy) <=>
           /\ (m.kind = "file" => m.clean) /\ m.mode # "unsafe" /\ (m.mode = "executable" => m.kind = "directory")
           /\ m.kind = "file" \/ (m.kind = "directory" /\ \E p \in policy : IsStrictPrefix(m.path, p))
           /\ Proper(m.path)
<1>1. m.path \in Seq(STRING) /\ m.mode \in {"none", "plain", "executable", "unsafe"}
  BY DEF Members
<1>2. SafeMode(m) <=> m.mode # "unsafe" /\ (m.mode = "executable" => m.kind = "directory")
  BY <1>1 DEF SafeMode
<1>3. Proper(m.path) <=> Canonical(m.path) /\ ~Private(m.path)
  BY ProperPaths
<1>4. Proper(m.path) => m.path # <<>>
  BY Zenon DEF Proper
<1>5. m.path # <<>> => (m.path \in AllowedDirectories(policy) <=> \E p \in policy : IsStrictPrefix(m.path, p))
  BY <1>1, ParentsAreAllowed
<1>6. "file" # "directory"
  OBVIOUS
<1> QED
  BY <1>2, <1>3, <1>4, <1>5, <1>6, Zenon DEF Judged

\* What the property says of an archive is what the checks show of it.
LEMMA AcceptableMeans ==
  ASSUME NEW r \in Runs, RequestOK(r), NEW f
  PROVE  Acceptable(r, f) <=> Deserving(r, f)
<1> SUFFICES ASSUME f \in Archives PROVE Acceptable(r, f) <=> Deserving(r, f)
  BY DEF Acceptable, Deserving
<1> DEFINE ms == f.members
           D == DOMAIN f.members
           P == Policy(r)
<1>1. /\ f.kind \in {"wheel", "sdist"} /\ Kind(r) \in {"wheel", "sdist"}
      /\ \A k \in D : ms[k] \in Members
  BY ArchiveMembers DEF Kind, RequestOK
<1>2. P \in SUBSET Seq(STRING)
  BY PolicyIsPaths
<1>3. f.kind = Kind(r) /\ Bounded(f) <=>
        /\ Opens(f, Kind(r)) /\ Expands(f) /\ Len(ms) <= MaxMembers
        /\ Sizes(ms)[Len(ms)] <= MaxTotalMemberBytes /\ \A k \in D : ms[k].size <= MaxMemberBytes
  BY <1>1, Zenon DEF Bounded, Opens, Expands
<1>4. Harmless(f) /\ Follows(f, P) <=>
        /\ \A k \in D : ms[k].honest /\ Judged(ms[k], P)
        /\ FilePaths(f) = P /\ Repeatless(f)
  <2>1. Harmless(f) <=>
          \A k \in D : /\ ms[k].honest /\ (ms[k].kind = "file" => ms[k].clean)
                       /\ ms[k].mode # "unsafe" /\ (ms[k].mode = "executable" => ms[k].kind = "directory")
    BY Zenon DEF Harmless
  <2>2. Follows(f, P) <=>
          /\ Repeatless(f) /\ FilePaths(f) = P
          /\ \A k \in D :
               /\ ms[k].kind = "file" \/ (ms[k].kind = "directory" /\ \E p \in P : IsStrictPrefix(ms[k].path, p))
               /\ Proper(ms[k].path)
    BY RepeatlessCount, Zenon DEF Follows, FilePaths, Proper
  <2>3. \A k \in D : Judged(ms[k], P) <=>
           /\ (ms[k].kind = "file" => ms[k].clean)
           /\ ms[k].mode # "unsafe" /\ (ms[k].mode = "executable" => ms[k].kind = "directory")
           /\ ms[k].kind = "file" \/ (ms[k].kind = "directory" /\ \E p \in P : IsStrictPrefix(ms[k].path, p))
           /\ Proper(ms[k].path)
    <3> HIDE DEF ms, D, P
    <3> QED
      BY <1>1, <1>2, JudgedMeans
  <2> HIDE DEF ms, D, P
  <2> QED
    BY <2>1, <2>2, <2>3, Zenon
<1>5. ASSUME FilePaths(f) = P, \A k \in D : Judged(ms[k], P)
      PROVE  Policy(r) # {} /\ Len(PolicyLines(r)) = Cardinality(Policy(r)) <=> PolicyOK(PolicyLines(r))
  <2> DEFINE s == PolicyLines(r)
  <2>1. Cardinality(P) = Len(s) <=> IsInjective(s)
    BY PolicyIsPaths, Distinct DEF Policy
  <2>2. \A k \in DOMAIN s : s[k] \in P
    BY DEF Policy, ToSet
  <2>3. \A p \in P : Canonical(p)
    BY <1>5, Zenon DEF FilePaths, Judged
  <2>4. Policy(r) # {} <=> s # <<>>
    BY PolicyIsPaths
  <2> HIDE DEF s
  <2> QED
    BY <2>1, <2>2, <2>3, <2>4, Zenon DEF PolicyOK, s
<1>6. Acceptable(r, f) <=>
        /\ f.kind = Kind(r) /\ Bounded(f) /\ Harmless(f) /\ Named(r)
        /\ Policy(r) # {} /\ Len(PolicyLines(r)) = Cardinality(Policy(r)) /\ Follows(f, P)
  BY Zenon DEF Acceptable, Named
<1>7. Deserving(r, f) <=>
        /\ Opens(f, Kind(r)) /\ Expands(f) /\ Named(r) /\ Len(ms) <= MaxMembers
        /\ Sizes(ms)[Len(ms)] <= MaxTotalMemberBytes
        /\ \A k \in D : ms[k].size <= MaxMemberBytes /\ ms[k].honest /\ Judged(ms[k], P)
        /\ PolicyOK(PolicyLines(r)) /\ Repeatless(f) /\ FilePaths(f) = P
  BY Zenon DEF Deserving, BoundedMember
<1> HIDE DEF ms, D
<1> QED
  BY <1>3, <1>4, <1>5, <1>6, <1>7, Zenon

-----------------------------------------------------------------------------
(* What a run keeps when it is another's turn.                                        *)
LEMMA RequestStays ==
  ASSUME NEW r \in Runs, request' = request
  PROVE  /\ Kind(r)' = Kind(r) /\ PolicyLines(r)' = PolicyLines(r) /\ Policy(r)' = Policy(r)
         /\ OutputOf(r)' = OutputOf(r)
         /\ Summing(r)' <=> Summing(r)
         /\ Describing(r)' <=> Describing(r)
         /\ Named(r)' <=> Named(r)
         /\ RequestOK(r)' <=> RequestOK(r)
         /\ \A f : Acceptable(r, f)' <=> Acceptable(r, f)
<1>1. Kind(r)' = Kind(r) /\ PolicyLines(r)' = PolicyLines(r) /\ OutputOf(r)' = OutputOf(r)
  BY DEF Kind, PolicyLines, OutputOf
<1>2. Policy(r)' = Policy(r)
  BY <1>1 DEF Policy
<1>3. (Summing(r)' <=> Summing(r)) /\ (Describing(r)' <=> Describing(r)) /\ (Named(r)' <=> Named(r))
  BY <1>1 DEF Summing, Describing, Named
<1>4. RequestOK(r)' <=> RequestOK(r)
  BY <1>1 DEF RequestOK
<1>5. ASSUME NEW f PROVE Acceptable(r, f)' <=> Acceptable(r, f)
  BY <1>1, <1>2, Zenon DEF Acceptable
<1> QED
  BY <1>1, <1>2, <1>3, <1>4, <1>5

(* The variables of a run. *)
Kept(r) ==
  /\ pc'[r] = pc[r] /\ exit'[r] = exit[r] /\ archive'[r] = archive[r]
  /\ number'[r] = number[r] /\ total'[r] = total[r]
  /\ observed_files'[r] = observed_files[r] /\ observed_paths'[r] = observed_paths[r]
  /\ files'[r] = files[r] /\ digests'[r] = digests[r] /\ requirements'[r] = requirements[r]

(* What is remembered of the names: more may be added, unless the run stays alone.    *)
Remembers(r) ==
  /\ held' = [q \in Runs |-> [n \in Names |-> held'[q][n]]]
  /\ \A n \in Names : held[r][n] \subseteq held'[r][n]
  /\ r \in alone' => r \in alone /\ \A n \in Names : held'[r][n] = held[r][n]

\* What a run found stays what it found, while it is alone.
LEMMA FoundStays ==
  ASSUME NEW r \in Runs, Remembers(r), r \in alone'
  PROVE  Before(r)' = Before(r) /\ \A n \in Names : Found(r, n)' = Found(r, n)
<1>1. \A n \in Names : Found(r, n)' = Found(r, n)
  BY DEF Found, Remembers
<1> QED
  BY <1>1 DEF Before

\* What a run has established stays so when it is another's turn.
LEMMA DoneStays ==
  ASSUME NEW r \in Runs, request' = request, Kept(r), Remembers(r), RequestOK(r), number[r] \in Nat, Done(r)
  PROVE  Done(r)'
<1> USE RequestStays
<1>1. Were(r) \subseteq Were(r)'
  BY DEF Were, Remembers, RequestOK
<1>2. Opened(r) => Opened(r)'
  BY <1>1 DEF Opened, Kept
<1>3. Reads(r) => Reads(r)'
  BY <1>2 DEF Reads, Kept
<1>4. IsRead(r) => IsRead(r)'
  BY <1>2 DEF IsRead, Kept
<1>5. Judges(r) => Judges(r)'
  BY <1>4 DEF Judges, Kept
<1>6. Accepted(r) => Accepted(r)'
  BY <1>1 DEF Accepted, Kept
<1>7. ASSUME NEW n PROVE Digested(r, n) => Digested(r, n)'
  BY <1>1, SeqMonotonic DEF Digested, Kept
<1>8. Identifies(r) => Identifies(r)'
  BY <1>1 DEF Identifies, Kept
<1>9. IsListed(r) => IsListed(r)'
  BY FoundStays DEF IsListed, Kept, Remembers
<1>10. ASSUME NEW n \in Nat, n <= Len(files[r]), IsListed(r), Passed(r, n) PROVE Passed(r, n)'
  BY <1>10, FoundStays DEF IsListed, Passed, Kept, Remembers
<1>11. Lists(r) => Lists(r)'
  <2> SUFFICES ASSUME Lists(r) PROVE Lists(r)'
    OBVIOUS
  <2>1. Passed(r, number[r])'
    BY <1>10 DEF Lists, Kept
  <2> QED
    BY <1>9, <2>1 DEF Lists, Kept
<1>12. ASSUME NEW n, n \in 0 .. Len(files[r]), IsListed(r), Hashed(r, n) PROVE Hashed(r, n)'
  <2>1. UNION {held[r][m] : m \in Names} \subseteq UNION {held[r][m] : m \in Names}'
    BY DEF Remembers
  <2>2. digests[r] \in Seq(UNION {held[r][m] : m \in Names})'
    BY <1>12, <2>1, SeqMonotonic DEF Hashed, Kept
  <2>3. \A k \in 1 .. n : files[r][k] \in Names
    BY <1>12, LenProperties, ElementOfSeq DEF IsListed
  <2> QED
    BY <1>12, <2>2, <2>3 DEF Hashed, Kept, Remembers
<1>13. ASSUME Hashes(r) PROVE Hashes(r)'
  <2>1. IsListed(r) /\ Len(files[r]) \in Nat /\ Len(files[r]) <= Len(files[r])
    BY <1>13, LenProperties DEF Hashes, IsListed
  <2>2. Passed(r, Len(files[r]))' /\ Hashed(r, number[r])'
    BY <1>10, <1>12, <1>13, <2>1 DEF Hashes, Kept
  <2> QED
    BY <1>9, <1>13, <2>2 DEF Hashes, Kept
<1>14. ASSUME Complete(r) PROVE Complete(r)'
  <2>1. ASSUME IsListed(r), Passed(r, Len(files[r])), Hashed(r, Len(files[r]))
        PROVE  Passed(r, Len(files[r]))' /\ Hashed(r, Len(files[r]))'
    <3>1. Len(files[r]) \in Nat /\ Len(files[r]) <= Len(files[r]) /\ Len(files[r]) \in 0 .. Len(files[r])
      BY <2>1, LenProperties DEF IsListed
    <3> QED
      BY <1>10, <1>12, <2>1, <3>1 DEF Kept
  <2>2. ASSUME NEW n, Digested(r, n) PROVE Digested(r, n)'
    BY <1>7, <2>2
  <2>3. request[r]' = request[r] /\ exit[r]' = exit[r] /\ files[r]' = files[r]
    BY DEF Kept
  <2> QED
    BY <1>6, <1>8, <1>9, <1>14, <2>1, <2>2, <2>3, Zenon DEF Complete
<1>15. Fresh(r) => Fresh(r)'
  BY DEF Fresh, Kept
<1>16. pc[r]' = pc[r] /\ exit[r]' = exit[r] /\ number[r]' = number[r]
       /\ digests[r]' = digests[r] /\ observed_files[r]' = observed_files[r] /\ observed_paths[r]' = observed_paths[r]
  BY DEF Kept
<1>17. ASSUME NEW n, Digested(r, n) PROVE Digested(r, n)'
  BY <1>7, <1>17
<1>18. /\ (pc[r] # "ended" => exit[r] = "running")'
       /\ (pc[r] \in {"begin", "require", "size", "open", "list"} => Fresh(r))'
       /\ (pc[r] \in {"require", "size"} => ~Summing(r))'
       /\ (pc[r] = "open" => ~Summing(r) /\ Named(r))'
       /\ (pc[r] = "read" => Reads(r))'
       /\ (pc[r] = "list" => Summing(r))'
       /\ (pc[r] = "files" => Lists(r))'
       /\ (pc[r] = "hash" => Hashes(r))'
  BY <1>3, <1>11, <1>13, <1>15, <1>16, Zenon DEF Done
<1>19. /\ (pc[r] = "policy" => IsRead(r) /\ number[r] = 0 /\ observed_files[r] = {} /\ observed_paths[r] = {})'
       /\ (pc[r] = "judge" => Judges(r))'
       /\ (pc[r] = "digest" => Accepted(r) /\ digests[r] = <<>>)'
  BY <1>4, <1>5, <1>6, <1>16, Zenon DEF Done
<1>20. /\ (pc[r] = "identify" => Describing(r) /\ Accepted(r) /\ Digested(r, 1))'
       /\ (pc[r] = "describe" => Accepted(r) /\ Digested(r, 1) /\ Identifies(r))'
  BY <1>6, <1>8, <1>16, <1>17, Zenon DEF Done
<1>21. (pc[r] \in {"write", "replace"} \/ exit[r] = "0" => Complete(r))'
  BY <1>14, <1>16, Zenon DEF Done
<1> QED
  BY <1>18, <1>19, <1>20, <1>21, Zenon DEF Done

(* What the others leave of the directory to a run. *)
Spares(r) ==
  /\ r \in alone' /\ pc[r] # "begin" => entry' = entry
  /\ pc[r] \notin {"replace", "ended"} => entry'[TemporaryName[r]] = Absent
  /\ ~Outside(r) => \A n \in Names : entry'[n] \in held'[r][n]

\* A run's part of the invariant stays when it is another's turn.
LEMMA RunStays ==
  ASSUME NEW r \in Runs, request' = request, Kept(r), Remembers(r), Spares(r), RequestOK(r), number[r] \in Nat, RunInv(r)
  PROVE  RunInv(r)'
<1>1. Done(r)'
  BY DoneStays DEF RunInv
<1>2. pc[r]' = pc[r] /\ exit[r]' = exit[r]
  BY DEF Kept
<1>3. r \in alone' => r \in alone /\ Before(r)' = Before(r) /\ \A n \in Names : Found(r, n)' = Found(r, n)
  BY FoundStays DEF Remembers
<1>4. Steady(r)'
  <2>1. Outside(r)' <=> Outside(r)
    BY <1>2 DEF Outside
  <2>2. TemporaryName[r] \in Names /\ OutputOf(r) \in Names /\ OutputOf(r)' = OutputOf(r)
    BY RequestStays, TemporariesAreNames DEF Temporaries, OutputOf, RequestOK
  <2>3. r \in alone' /\ pc[r] # "begin" => \A n \in Names : held[r][n]' = {Found(r, n)'}
    BY <1>3 DEF RunInv, Steady, Remembers
  <2> QED
    BY <1>2, <1>3, <2>1, <2>2, <2>3 DEF RunInv, Steady, Spares, Writable
<1>5. ASSUME r \in alone', pc[r] = "ended" PROVE Exact(r)'
  <2>1. Exact(r) /\ entry' = entry /\ pc[r] # "begin"
    BY <1>3, <1>5 DEF RunInv, Spares
  <2>2. Before(r)' = Before(r) /\ \A n \in Names : Found(r, n)' = Found(r, n)
    BY <1>3, <1>5
  <2>3. Inspected(r)' = Inspected(r)
    BY <2>2 DEF Inspected, RequestOK
  <2>4. InspectionExact(r) => InspectionExact(r)'
    BY <1>2, <2>3, RequestStays DEF InspectionExact, Kept
  <2>5. DeservesSbom(r)' <=> DeservesSbom(r)
    BY <2>2, <2>3, RequestStays DEF DeservesSbom, RequestOK
  <2>6. SbomExact(r) => SbomExact(r)'
    BY <1>2, <2>1, <2>2, <2>3, <2>5 DEF SbomExact
  <2>7. DeservesSums(r)' <=> DeservesSums(r)
    <3> DEFINE listed == Listing(Before(r))
    <3>1. \A k \in DOMAIN listed : listed[k] \in Names
      BY ListingOfNames, LenProperties, ElementOfSeq
    <3>2. Sums \in Names
      BY TemporariesAreNames
    <3> HIDE DEF listed
    <3> QED
      BY <2>2, <3>1, <3>2 DEF DeservesSums, listed
  <2>8. ChecksumsExact(r) => ChecksumsExact(r)'
    BY <1>2, <2>1, <2>2, <2>7 DEF ChecksumsExact
  <2> QED
    BY <2>1, <2>4, <2>6, <2>8 DEF Exact, RequestOK
<1> QED
  BY <1>1, <1>2, <1>4, <1>5 DEF RunInv

-----------------------------------------------------------------------------
(* Whose step it is. *)
LEMMA OpenedIsArchive ==
  ASSUME NEW r \in Runs, Opened(r)
  PROVE  /\ archive[r] \in Archives /\ archive[r].members \in Seq(Members)
         /\ Len(archive[r].members) \in Nat /\ DOMAIN archive[r].members = 1 .. Len(archive[r].members)
BY ArchiveMembers DEF Opened, Opens

(* A run changes nothing of the others. *)
LEMMA StepIsOwn ==
  ASSUME IInv, NEW r \in Runs, Step(r)
  PROVE  LocalOK' /\ \A q \in Runs \ {r} : Kept(q)
<1> USE DEF IInv, TypeOK, LocalOK, Kept, Check, Goto, Exit, inspection, results, Advance, Rewind, Hash
<1>1. CASE Start(r)
  BY <1>1 DEF Start
<1>2. CASE RequireArchive(r)
  BY <1>2 DEF RequireArchive
<1>3. CASE CheckSize(r)
  BY <1>3 DEF CheckSize
<1>4. CASE OpenArchive(r)
  BY <1>4 DEF OpenArchive
<1>5. CASE ReadMember(r)
  <2>1. Opened(r) /\ number[r] <= Len(archive[r].members) /\ number[r] # Len(archive[r].members)
    BY <1>5, Zenon DEF ReadMember, RunInv, Done, At, Reads, LastMember
  <2>2. number[r] + 1 \in 1 .. Len(archive[r].members)
    BY <2>1, OpenedIsArchive
  <2>3. Member(r).size \in Nat
    <3>1. archive[r].members \in Seq(Members)
      BY <2>1, OpenedIsArchive
    <3>2. Member(r) \in Members
      BY <2>2, <3>1, ElementOfSeq DEF Member
    <3> QED
      BY <3>2 DEF Members
  <2> QED
    BY <1>5, <2>3 DEF ReadMember
<1>6. CASE EndOfArchive(r)
  BY <1>6 DEF EndOfArchive
<1>7. CASE LoadPolicy(r)
  BY <1>7 DEF LoadPolicy
<1>8. CASE JudgeMember(r)
  BY <1>8 DEF JudgeMember
<1>9. CASE CompareWithPolicy(r)
  BY <1>9 DEF CompareWithPolicy
<1>10. CASE DigestArchive(r)
  BY <1>10 DEF DigestArchive
<1>11. CASE ValidateIdentity(r)
  BY <1>11 DEF ValidateIdentity
<1>12. CASE DescribeWheel(r)
  BY <1>12 DEF DescribeWheel
<1>13. CASE ListDirectory(r)
  BY <1>13 DEF ListDirectory
<1>14. CASE ExamineEntry(r)
  BY <1>14 DEF ExamineEntry
<1>15. CASE EndOfListing(r)
  BY <1>15 DEF EndOfListing
<1>16. CASE HashFile(r)
  BY <1>16 DEF HashFile
<1>17. CASE EndOfFiles(r)
  BY <1>17 DEF EndOfFiles
<1>18. CASE MakeTemporary(r)
  BY <1>18 DEF MakeTemporary
<1>19. CASE Replace(r)
  BY <1>19 DEF Replace
<1>20. CASE Break(r)
  BY <1>20 DEF Break
<1> QED
  BY <1>1, <1>2, <1>3, <1>4, <1>5, <1>6, <1>7, <1>8, <1>9, <1>10, <1>11, <1>12, <1>13, <1>14, <1>15, <1>16,
     <1>17, <1>18, <1>19, <1>20, Zenon DEF Step

(* A step that leaves the directory alone has only its own run to look at. *)
LEMMA PrivateStep ==
  ASSUME IInv, NEW r \in Runs, Step(r), Undisturbed, RunInv(r)'
  PROVE  IInv'
<1>1. /\ entry' = entry /\ held' = held /\ alone' = alone /\ request' = request
  BY DEF Undisturbed, directory, history
<1>2. LocalOK' /\ \A q \in Runs \ {r} : Kept(q)
  BY StepIsOwn
<1>3. TypeOK'
  BY <1>1, <1>2, RequestStays DEF IInv, TypeOK
<1>4. ASSUME NEW q \in Runs \ {r} PROVE RunInv(q)'
  <2>1. Remembers(q) /\ Spares(q)
    BY <1>1 DEF Remembers, Spares, IInv, TypeOK, RunInv, Steady
  <2>2. RequestOK(q) /\ number[q] \in Nat /\ RunInv(q)
    BY DEF IInv, TypeOK, LocalOK
  <2> QED
    BY <1>1, <1>2, <2>1, <2>2, RunStays
<1> QED
  BY <1>3, <1>4 DEF IInv

(* A run that nothing disturbed sees what it found. *)
LEMMA AloneSees ==
  ASSUME IInv, NEW r \in Runs, r \in alone, ~Outside(r)
  PROVE  /\ entry = Before(r) /\ \A n \in Names : entry[n] = Found(r, n) /\ held[r][n] = {entry[n]}
         /\ Archive(r) = Inspected(r) /\ Were(r) = {Inspected(r)}
<1>1. \A n \in Names : entry[n] \in held[r][n] /\ held[r][n] = {Found(r, n)}
  BY DEF IInv, RunInv, Steady, Outside
<1>2. \A n \in Names : entry[n] = Found(r, n) /\ held[r][n] = {entry[n]}
  BY <1>1
<1>3. request[r].archive \in Names /\ entry = [n \in Names |-> entry[n]]
  BY DEF IInv, TypeOK, RequestOK
<1> QED
  BY <1>2, <1>3 DEF Before, Archive, Inspected, Were

(* A step that goes on, and leaves the directory alone. *)
LEMMA Onward ==
  ASSUME IInv, NEW r \in Runs, Undisturbed, ~Outside(r), ~Outside(r)', Done(r)'
  PROVE  RunInv(r)'
<1>1. /\ entry' = entry /\ held' = held /\ alone' = alone /\ request' = request
  BY DEF Undisturbed, directory, history
<1>2. \A n \in Names : Found(r, n)' = Found(r, n)
  BY <1>1 DEF Found
<1> QED
  BY <1>1, <1>2 DEF IInv, RunInv, Steady, Outside

Deserves(r) ==
  \/ request[r].command = "inspect" /\ Acceptable(r, Inspected(r))
  \/ Describing(r) /\ DeservesSbom(r)
  \/ Summing(r) /\ DeservesSums(r)

(* A step that ends the run with an error, and leaves the directory alone. *)
LEMMA Refusal ==
  ASSUME IInv, NEW r \in Runs, Undisturbed, ~Outside(r), Exit(r, "2"), r \in alone => ~Deserves(r)
  PROVE  RunInv(r)'
<1>1. /\ entry' = entry /\ held' = held /\ alone' = alone /\ request' = request
  BY DEF Undisturbed, directory, history
<1>2. pc'[r] = "ended" /\ exit'[r] = "2" /\ "2" # "0"
  BY DEF Exit, IInv, TypeOK, LocalOK
<1>3. \A n \in Names : Found(r, n)' = Found(r, n)
  BY <1>1 DEF Found
<1>4. Done(r)'
  BY <1>2, Zenon DEF Done
<1>5. Steady(r)'
  BY <1>1, <1>2, <1>3 DEF IInv, RunInv, Steady, Outside
<1>6. ASSUME r \in alone PROVE Exact(r)'
  <2>1. entry' = Before(r) /\ ~Deserves(r)
    BY <1>1, <1>6, AloneSees
  <2>2. Before(r)' = Before(r) /\ Inspected(r)' = Inspected(r) /\ TypeOK
    BY <1>1 DEF Before, Inspected, Found, IInv
  <2>3. DeservesSbom(r)' <=> DeservesSbom(r)
    BY <1>1, <2>2, RequestStays DEF DeservesSbom, Found
  <2>4. DeservesSums(r)' <=> DeservesSums(r)
    BY <1>1, <2>2 DEF DeservesSums, Found
  <2>5. request[r].command = "inspect" => InspectionExact(r)'
    BY <1>1, <1>2, <2>1, <2>2, RequestStays DEF InspectionExact, Deserves
  <2>6. Describing(r) => SbomExact(r)'
    BY <1>2, <2>1, <2>2, <2>3 DEF SbomExact, Deserves
  <2>7. Summing(r) => ChecksumsExact(r)'
    BY <1>2, <2>1, <2>2, <2>4 DEF ChecksumsExact, Deserves
  <2>8. RequestOK(r)
    BY DEF IInv, TypeOK
  <2> QED
    BY <1>1, <2>5, <2>6, <2>7, <2>8 DEF Exact, Describing, Summing, RequestOK
<1> QED
  BY <1>1, <1>4, <1>5, <1>6 DEF RunInv

-----------------------------------------------------------------------------
(* The steps of an inspection. *)

\* A run that is to succeed has a deserving archive before it.
LEMMA Deserved ==
  ASSUME IInv, NEW r \in Runs, r \in alone, ~Outside(r), Deserves(r), ~Summing(r)
  PROVE  /\ RequestOK(r) /\ Acceptable(r, Archive(r)) /\ Deserving(r, Archive(r)) /\ Archive(r) = Inspected(r)
         /\ Opened(r) => archive[r] = Archive(r)
<1>1. RequestOK(r)
  BY DEF IInv, TypeOK
<1>2. Acceptable(r, Inspected(r)) /\ Archive(r) = Inspected(r) /\ Were(r) = {Inspected(r)}
  BY AloneSees DEF Deserves, DeservesSbom
<1> QED
  BY <1>1, <1>2, AcceptableMeans DEF Opened

\* What the strings of the program counter and the statuses tell apart.
LEMMA Locations ==
  ASSUME NEW r \in Runs, exit'[r] = "running"
  PROVE  /\ pc'[r] = "require" /\ Fresh(r)' /\ ~Summing(r)' => Done(r)' /\ ~Outside(r)'
         /\ pc'[r] = "size" /\ Fresh(r)' /\ ~Summing(r)' => Done(r)' /\ ~Outside(r)'
         /\ pc'[r] = "open" /\ Fresh(r)' /\ ~Summing(r)' /\ Named(r)' => Done(r)' /\ ~Outside(r)'
         /\ pc'[r] = "read" /\ Reads(r)' => Done(r)' /\ ~Outside(r)'
         /\ pc'[r] = "policy" /\ IsRead(r)' /\ number'[r] = 0 /\ observed_files'[r] = {} /\ observed_paths'[r] = {}
              => Done(r)' /\ ~Outside(r)'
         /\ pc'[r] = "judge" /\ Judges(r)' => Done(r)' /\ ~Outside(r)'
         /\ pc'[r] = "digest" /\ Accepted(r)' /\ digests'[r] = <<>> => Done(r)' /\ ~Outside(r)'
         /\ pc'[r] = "identify" /\ Describing(r)' /\ Accepted(r)' /\ Digested(r, 1)' => Done(r)' /\ ~Outside(r)'
         /\ pc'[r] = "describe" /\ Accepted(r)' /\ Digested(r, 1)' /\ Identifies(r)' => Done(r)' /\ ~Outside(r)'
         /\ pc'[r] = "list" /\ Fresh(r)' /\ Summing(r)' => Done(r)' /\ ~Outside(r)'
         /\ pc'[r] = "files" /\ Lists(r)' => Done(r)' /\ ~Outside(r)'
         /\ pc'[r] = "hash" /\ Hashes(r)' => Done(r)' /\ ~Outside(r)'
         /\ pc'[r] = "write" /\ Complete(r)' => Done(r)' /\ ~Outside(r)'
BY Zenon DEF Done, Outside

\* What has the name is a regular file, or no archive.
LEMMA RequireArchiveHolds ==
  ASSUME IInv, NEW r \in Runs, RequireArchive(r)
  PROVE  RunInv(r)'
<1>1. /\ Undisturbed /\ ~Outside(r) /\ Fresh(r) /\ ~Summing(r) /\ exit[r] = "running" /\ LocalOK
  BY Zenon DEF RequireArchive, At, Outside, IInv, RunInv, Done, TypeOK
<1>2. CASE IsRegular(Archive(r))
  <2>1. pc'[r] = "size" /\ exit'[r] = "running"
    BY <1>1, <1>2 DEF RequireArchive, Check, Goto, LocalOK
  <2>2. Fresh(r)' /\ ~Summing(r)'
    BY <1>1 DEF RequireArchive, inspection, results, Undisturbed, Fresh, Summing
  <2> QED
    BY <1>1, <2>1, <2>2, Locations, Onward
<1>3. CASE ~IsRegular(Archive(r))
  <2>1. Exit(r, "2")
    BY <1>3 DEF RequireArchive, Check
  <2>2. Archive(r) \notin Archives
    BY <1>3, ArchivesAreArchives DEF IsRegular
  <2>3. r \in alone => ~Deserves(r)
    BY <1>1, <2>2, Deserved DEF Acceptable
  <2> QED
    BY <1>1, <2>1, <2>3, Refusal
<1> QED
  BY <1>2, <1>3

\* A file that is too large or has another suffix is not acceptable.
LEMMA CheckSizeHolds ==
  ASSUME IInv, NEW r \in Runs, CheckSize(r)
  PROVE  RunInv(r)'
<1> DEFINE small == /\ Archive(r) # Absent
                    /\ Archive(r) \in Archives => Archive(r).bytes <= MaxArchiveBytes
                    /\ request[r].archive \in (IF Kind(r) = "wheel" THEN WheelNames ELSE SdistNames)
<1>1. /\ Undisturbed /\ ~Outside(r) /\ Fresh(r) /\ ~Summing(r) /\ exit[r] = "running" /\ LocalOK
  BY Zenon DEF CheckSize, At, Outside, IInv, RunInv, Done, TypeOK
<1>2. Check(r, small, "open")
  BY DEF CheckSize
<1>3. CASE small
  <2>1. pc'[r] = "open" /\ exit'[r] = "running"
    BY <1>1, <1>2, <1>3 DEF Check, Goto, LocalOK
  <2>2. Fresh(r)' /\ ~Summing(r)'
    BY <1>1 DEF CheckSize, inspection, results, Undisturbed, Fresh, Summing
  <2>3. Named(r)'
    BY <1>1, <1>3, RequestStays DEF Undisturbed, Named
  <2> QED
    BY <1>1, <2>1, <2>2, <2>3, Locations, Onward
<1>4. CASE ~small
  <2>1. Exit(r, "2")
    BY <1>2, <1>4 DEF Check
  <2>2. r \in alone => ~Deserves(r)
    <3> SUFFICES ASSUME r \in alone, Deserves(r) PROVE FALSE
      OBVIOUS
    <3>1. Acceptable(r, Archive(r))
      BY <1>1, Deserved
    <3>2. Archive(r) # Absent
      BY <3>1, ArchivesAreArchives DEF Acceptable
    <3> QED
      BY <1>4, <3>1, <3>2 DEF Acceptable, Bounded
  <2> QED
    BY <1>1, <2>1, <2>2, Refusal
<1> QED
  BY <1>3, <1>4

\* What is opened is what the name has now.
LEMMA OpenArchiveHolds ==
  ASSUME IInv, NEW r \in Runs, OpenArchive(r)
  PROVE  RunInv(r)'
<1>1. /\ Undisturbed /\ ~Outside(r) /\ Fresh(r) /\ ~Summing(r) /\ Named(r) /\ exit[r] = "running" /\ LocalOK
      /\ RequestOK(r)
  BY Zenon DEF OpenArchive, At, Outside, IInv, RunInv, Done, TypeOK
<1>2. CASE Opens(Archive(r), Kind(r))
  <2>1. pc'[r] = "read" /\ exit'[r] = "running" /\ archive'[r] = Archive(r)
    BY <1>1, <1>2 DEF OpenArchive, Check, Goto, LocalOK
  <2>2. request' = request /\ held' = held /\ Archive(r) \in Were(r)
    BY <1>1 DEF Undisturbed, history, Archive, Were, IInv, RunInv, Steady, RequestOK
  <2>3. Fresh(r)'
    BY <1>1 DEF OpenArchive, results, Fresh
  <2>4. Opened(r)'
    BY <1>1, <1>2, <2>1, <2>2, <2>3, RequestStays DEF Opened, Fresh, Were
  <2>5. Archive(r) \in Archives
    BY <1>2 DEF Opens
  <2>6. Sizes(Archive(r).members)[0] = 0 /\ Len(Archive(r).members) \in Nat
    BY <2>5, ArchiveMembers, SizesAddUp
  <2>7. Reads(r)'
    BY <2>1, <2>3, <2>4, <2>6, LimitsAreNumbers DEF Reads, Fresh
  <2> QED
    BY <1>1, <2>1, <2>7, Locations, Onward
<1>3. CASE ~Opens(Archive(r), Kind(r))
  <2>1. Exit(r, "2")
    BY <1>3 DEF OpenArchive, Check
  <2>2. r \in alone => ~Deserves(r)
    BY <1>1, <1>3, Deserved DEF Deserving
  <2> QED
    BY <1>1, <2>1, <2>2, Refusal
<1> QED
  BY <1>2, <1>3

\* What an archive that is open keeps being.
LEMMA OpenedStays ==
  ASSUME NEW r \in Runs, Undisturbed, archive'[r] = archive[r], digests'[r] = digests[r]
  PROVE  /\ Opened(r) => Opened(r)'
         /\ IsRead(r) => IsRead(r)'
<1>1. request' = request /\ Were(r)' = Were(r)
  BY DEF Undisturbed, history, Were
<1>2. Opened(r) => Opened(r)'
  BY <1>1, RequestStays DEF Opened
<1> QED
  BY <1>2 DEF IsRead

\* A member that is too large, or one too many, is in no acceptable archive.
LEMMA ReadMemberHolds ==
  ASSUME IInv, NEW r \in Runs, ReadMember(r)
  PROVE  RunInv(r)'
<1> DEFINE ms == archive[r].members
           i == number[r] + 1
           fits == /\ number[r] < MaxMembers /\ BoundedMember(Member(r))
                   /\ total[r] + Member(r).size <= MaxTotalMemberBytes
<1>1. /\ Undisturbed /\ ~Outside(r) /\ Reads(r) /\ exit[r] = "running" /\ LocalOK /\ RequestOK(r) /\ ~LastMember(r)
  BY Zenon DEF ReadMember, At, Outside, IInv, RunInv, Done, TypeOK
<1>2. Check(r, fits, "read")
  BY DEF ReadMember
<1>3. Opened(r) /\ archive[r] \in Archives /\ ms \in Seq(Members) /\ Len(ms) \in Nat /\ DOMAIN ms = 1 .. Len(ms)
  BY <1>1, OpenedIsArchive DEF Reads
<1>4. /\ number[r] \in Nat /\ number[r] <= Len(ms) /\ number[r] # Len(ms) /\ total[r] = Sizes(ms)[number[r]]
      /\ observed_files[r] = {} /\ observed_paths[r] = {}
      /\ \A k \in 1 .. number[r] : BoundedMember(ms[k])
  BY <1>1 DEF Reads, LastMember, LocalOK
<1>5. i \in 1 .. Len(ms) /\ i \in 0 .. Len(ms) /\ i - 1 = number[r] /\ number[r] < Len(ms)
  BY <1>3, <1>4
<1>6. Sizes(ms)[i] = total[r] + Member(r).size /\ Sizes(ms)[i] \in Nat
  BY <1>3, <1>4, <1>5, SizesAddUp DEF Member
<1>7. CASE fits
  <2>1. /\ pc'[r] = "read" /\ exit'[r] = "running" /\ number'[r] = i /\ total'[r] = Sizes(ms)[i]
        /\ archive'[r] = archive[r] /\ digests'[r] = digests[r]
        /\ observed_files'[r] = {} /\ observed_paths'[r] = {}
    BY <1>1, <1>2, <1>4, <1>6, <1>7 DEF ReadMember, Check, Goto, LocalOK, Advance, results
  <2>2. Opened(r)'
    BY <1>1, <1>3, <2>1, OpenedStays
  <2>3. \A k \in 1 .. i : BoundedMember(ms[k])
    <3>1. \A k \in 1 .. i : k \in 1 .. number[r] \/ k = i
      BY <1>4
    <3> QED
      BY <1>4, <1>7, <3>1, Zenon DEF Member
  <2>4. i <= Len(ms) /\ i <= MaxMembers
    BY <1>4, <1>5, <1>7, LimitsAreNumbers
  <2>5. Reads(r)'
    BY <1>6, <1>7, <2>1, <2>2, <2>3, <2>4 DEF Reads
  <2> QED
    BY <1>1, <2>1, <2>5, Locations, Onward
<1>8. CASE ~fits
  <2>1. Exit(r, "2")
    BY <1>2, <1>8 DEF Check
  <2>2. r \in alone => ~Deserves(r)
    <3> SUFFICES ASSUME r \in alone, Deserves(r) PROVE FALSE
      OBVIOUS
    <3>1. Deserving(r, archive[r])
      BY <1>1, <1>3, Deserved DEF Opened
    <3>2. BoundedMember(Member(r)) /\ Len(ms) <= MaxMembers /\ Sizes(ms)[Len(ms)] <= MaxTotalMemberBytes
      BY <1>3, <1>5, <3>1 DEF Deserving, Member
    <3>3. Sizes(ms)[i] <= Sizes(ms)[Len(ms)] /\ Sizes(ms)[Len(ms)] \in Nat
      <4>1. Sizes(ms)[i] <= Sizes(ms)[Len(ms)]
        BY <1>3, <1>5, SizesGrow
      <4>2. Sizes(ms) \in [0 .. Len(ms) -> Nat] /\ Len(ms) \in 0 .. Len(ms)
        BY <1>3, <1>5, SizesAddUp
      <4> QED
        BY <4>1, <4>2
    <3>4. number[r] < MaxMembers
      BY <1>3, <1>4, <1>5, <3>2, LimitsAreNumbers
    <3>5. Sizes(ms)[i] <= MaxTotalMemberBytes
      BY <1>6, <3>2, <3>3, LimitsAreNumbers
    <3> QED
      BY <1>6, <1>8, <3>2, <3>4, <3>5
  <2> QED
    BY <1>1, <2>1, <2>2, Refusal
<1> QED
  BY <1>7, <1>8

\* An archive that is read to its end keeps the limits.
LEMMA EndOfArchiveHolds ==
  ASSUME IInv, NEW r \in Runs, EndOfArchive(r)
  PROVE  RunInv(r)'
<1> DEFINE ms == archive[r].members
<1>1. /\ Undisturbed /\ ~Outside(r) /\ Reads(r) /\ exit[r] = "running" /\ LocalOK /\ RequestOK(r) /\ LastMember(r)
  BY Zenon DEF EndOfArchive, At, Outside, IInv, RunInv, Done, TypeOK
<1>2. Opened(r) /\ archive[r] \in Archives /\ Len(ms) \in Nat /\ DOMAIN ms = 1 .. Len(ms)
  BY <1>1, OpenedIsArchive DEF Reads
<1>3. CASE Expands(archive[r])
  <2>1. /\ pc'[r] = "policy" /\ exit'[r] = "running" /\ number'[r] = 0
        /\ archive'[r] = archive[r] /\ digests'[r] = digests[r]
        /\ observed_files'[r] = {} /\ observed_paths'[r] = {}
    BY <1>1, <1>3 DEF EndOfArchive, Check, Goto, LocalOK, Rewind, inspection, results, Reads
  <2>2. \A k \in DOMAIN ms : BoundedMember(ms[k])
    BY <1>1, <1>2 DEF Reads, LastMember
  <2>3. Bounded(archive[r])
    <3>1. /\ archive[r].bytes <= MaxArchiveBytes /\ archive[r].kind \in {"wheel", "sdist"}
          /\ archive[r].kind = "wheel" => archive[r].metadata <= MaxMetadataBytes
      BY <1>2, ArchiveMembers DEF Opened, Opens
    <3>2. Len(ms) <= MaxMembers /\ Sizes(ms)[Len(ms)] <= MaxTotalMemberBytes
      BY <1>1 DEF Reads, LastMember
    <3>3. "wheel" # "sdist"
      OBVIOUS
    <3>4. \A k \in DOMAIN ms : ms[k].size <= MaxMemberBytes
      BY <2>2, Zenon DEF BoundedMember
    <3>5. IF archive[r].kind = "wheel" THEN archive[r].metadata <= MaxMetadataBytes
          ELSE archive[r].expanded <= MaxTotalMemberBytes + MaxMetadataBytes
      BY <1>3, <3>1, <3>3, Zenon DEF Expands
    <3> QED
      BY <3>1, <3>2, <3>4, <3>5, Zenon DEF Bounded
  <2>4. IsRead(r)
    BY <1>2, <2>2, <2>3 DEF IsRead, BoundedMember
  <2>5. IsRead(r)'
    BY <1>1, <2>1, <2>4, OpenedStays
  <2> QED
    BY <1>1, <2>1, <2>5, Locations, Onward
<1>4. CASE ~Expands(archive[r])
  <2>1. Exit(r, "2")
    BY <1>4 DEF EndOfArchive, Check
  <2>2. r \in alone => ~Deserves(r)
    BY <1>1, <1>2, <1>4, Deserved DEF Deserving, Opened
  <2> QED
    BY <1>1, <2>1, <2>2, Refusal
<1> QED
  BY <1>3, <1>4

\* A policy without lines, or with a line twice, accepts nothing.
LEMMA LoadPolicyHolds ==
  ASSUME IInv, NEW r \in Runs, LoadPolicy(r)
  PROVE  RunInv(r)'
<1>1. /\ Undisturbed /\ ~Outside(r) /\ IsRead(r) /\ number[r] = 0 /\ observed_files[r] = {} /\ observed_paths[r] = {}
      /\ exit[r] = "running" /\ LocalOK /\ RequestOK(r)
  BY Zenon DEF LoadPolicy, At, Outside, IInv, RunInv, Done, TypeOK
<1>2. Check(r, PolicyOK(PolicyLines(r)), "judge")
  BY Zenon DEF LoadPolicy, PolicyOK
<1>3. Opened(r) /\ archive[r] \in Archives /\ Len(archive[r].members) \in Nat
  BY <1>1, OpenedIsArchive DEF IsRead
<1>4. CASE PolicyOK(PolicyLines(r))
  <2>1. /\ pc'[r] = "judge" /\ exit'[r] = "running" /\ number'[r] = 0
        /\ archive'[r] = archive[r] /\ digests'[r] = digests[r]
        /\ observed_files'[r] = {} /\ observed_paths'[r] = {}
    BY <1>1, <1>2, <1>4 DEF LoadPolicy, Check, Goto, LocalOK, inspection, results
  <2>2. IsRead(r)' /\ PolicyLines(r)' = PolicyLines(r)
    BY <1>1, <2>1, OpenedStays, RequestStays DEF Undisturbed
  <2>3. Judges(r)'
    BY <1>3, <1>4, <2>1, <2>2 DEF Judges
  <2> QED
    BY <1>1, <2>1, <2>3, Locations, Onward
<1>5. CASE ~PolicyOK(PolicyLines(r))
  <2>1. Exit(r, "2")
    BY <1>2, <1>5 DEF Check
  <2>2. r \in alone => ~Deserves(r)
    BY <1>1, <1>3, <1>5, Deserved DEF Deserving, Opened
  <2> QED
    BY <1>1, <2>1, <2>2, Refusal
<1> QED
  BY <1>4, <1>5

\* A member that is refused is in no acceptable archive.
LEMMA JudgeMemberHolds ==
  ASSUME IInv, NEW r \in Runs, JudgeMember(r)
  PROVE  RunInv(r)'
<1> DEFINE ms == archive[r].members
           i == number[r] + 1
           m == Member(r)
           files_ == {j \in 1 .. number[r] : ms[j].kind = "file"}
           good == /\ Canonical(m.path) /\ m.path \notin observed_paths[r]
                   /\ ~Private(m.path)
                   /\ m.kind \in {"file", "directory"} /\ SafeMode(m)
                   /\ m.kind = "directory" => m.path \in AllowedDirectories(Policy(r))
                   /\ m.kind = "file" => m.clean
<1>1. /\ Undisturbed /\ ~Outside(r) /\ Judges(r) /\ exit[r] = "running" /\ LocalOK /\ RequestOK(r) /\ ~LastMember(r)
  BY Zenon DEF JudgeMember, At, Outside, IInv, RunInv, Done, TypeOK
<1>2. Check(r, good, "judge")
  BY DEF JudgeMember
<1>3. /\ IsRead(r) /\ Opened(r) /\ archive[r] \in Archives
      /\ ms \in Seq(Members) /\ Len(ms) \in Nat /\ DOMAIN ms = 1 .. Len(ms)
  BY <1>1, OpenedIsArchive DEF Judges, IsRead
<1>4. /\ number[r] \in Nat /\ number[r] <= Len(ms) /\ number[r] # Len(ms)
      /\ PolicyOK(PolicyLines(r)) /\ \A k \in 1 .. number[r] : Judged(ms[k], Policy(r))
      /\ \A j, k \in 1 .. number[r] : ms[j].path = ms[k].path => j = k
      /\ observed_paths[r] = {ms[k].path : k \in 1 .. number[r]}
      /\ observed_files[r] = {ms[k].path : k \in files_}
  BY <1>1 DEF Judges, LastMember, LocalOK
<1>5. /\ i \in 1 .. Len(ms) /\ i <= Len(ms) /\ m = ms[i]
      /\ \A k \in 1 .. i : k \in 1 .. number[r] \/ k = i
      /\ i \in 1 .. i /\ i \notin 1 .. number[r] /\ \A k \in 1 .. number[r] : k \in 1 .. i /\ k \in 1 .. Len(ms)
  BY <1>3, <1>4 DEF Member
<1>6. CASE good
  <2>1. /\ pc'[r] = "judge" /\ exit'[r] = "running" /\ number'[r] = i
        /\ archive'[r] = archive[r] /\ digests'[r] = digests[r]
        /\ observed_paths'[r] = observed_paths[r] \cup {m.path}
        /\ observed_files'[r] = IF m.kind = "file" THEN observed_files[r] \cup {m.path} ELSE observed_files[r]
    BY <1>1, <1>2, <1>6 DEF JudgeMember, Check, Goto, LocalOK, Advance, results
  <2>2. IsRead(r)' /\ PolicyLines(r)' = PolicyLines(r) /\ Policy(r)' = Policy(r)
    BY <1>1, <1>3, <2>1, OpenedStays, RequestStays DEF Undisturbed
  <2>3. \A k \in 1 .. i : Judged(ms[k], Policy(r))
    BY <1>4, <1>5, <1>6, Zenon DEF Judged
  <2>4. \A j, k \in 1 .. i : ms[j].path = ms[k].path => j = k
    <3>1. \A k \in 1 .. number[r] : ms[k].path # ms[i].path
      BY <1>4, <1>5, <1>6
    <3> QED
      BY <1>4, <1>5, <3>1, Zenon
  <2>5. observed_paths'[r] = {ms[k].path : k \in 1 .. i}
    <3> HIDE DEF ms, i, m
    <3> QED
      BY <1>4, <1>5, <2>1
  <2>6. observed_files'[r] = {ms[k].path : k \in {j \in 1 .. i : ms[j].kind = "file"}}
    <3> HIDE DEF ms, i, m
    <3>1. CASE m.kind = "file"
      BY <1>4, <1>5, <2>1, <3>1
    <3>2. CASE m.kind # "file"
      BY <1>4, <1>5, <2>1, <3>2
    <3> QED
      BY <3>1, <3>2
  <2>7. Judges(r)'
    <3> HIDE DEF i, m, files_
    <3>1. IsRead(r)' /\ PolicyOK(PolicyLines(r))' /\ number'[r] <= Len(ms)
      BY <1>4, <1>5, <2>1, <2>2 DEF PolicyOK
    <3>2. /\ \A k \in 1 .. number'[r] : Judged(ms[k], Policy(r)')
          /\ \A j, k \in 1 .. number'[r] : ms[j].path = ms[k].path => j = k
          /\ observed_paths'[r] = {ms[k].path : k \in 1 .. number'[r]}
          /\ observed_files'[r] = {ms[k].path : k \in {j \in 1 .. number'[r] : ms[j].kind = "file"}}
      BY <2>1, <2>2, <2>3, <2>4, <2>5, <2>6, Zenon
    <3>3. ms' = ms
      BY <2>1
    <3> HIDE DEF ms
    <3>4. /\ \A k \in 1 .. number'[r] : Judged(ms'[k], Policy(r)')
          /\ \A j, k \in 1 .. number'[r] : ms'[j].path = ms'[k].path => j = k
          /\ observed_paths'[r] = {ms'[k].path : k \in 1 .. number'[r]}
          /\ observed_files'[r] = {ms'[k].path : k \in {j \in 1 .. number'[r] : ms'[j].kind = "file"}}
          /\ number'[r] <= Len(ms')
      BY <3>1, <3>2, <3>3
    <3> QED
      BY <3>1, <3>4, Zenon DEF Judges, ms
  <2> QED
    BY <1>1, <2>1, <2>7, Locations, Onward
<1>7. CASE ~good
  <2>1. Exit(r, "2")
    BY <1>2, <1>7 DEF Check
  <2>2. r \in alone => ~Deserves(r)
    <3> SUFFICES ASSUME r \in alone, Deserves(r) PROVE FALSE
      OBVIOUS
    <3>1. Deserving(r, archive[r])
      BY <1>1, <1>3, Deserved DEF Opened
    <3>2. Judged(m, Policy(r))
      BY <1>3, <1>5, <3>1 DEF Deserving
    <3>3. m.path \notin observed_paths[r]
      <4>1. \A k \in 1 .. number[r] : ms[k].path # m.path
        BY <1>3, <1>5, <3>1, Zenon DEF Deserving, Repeatless
      <4> HIDE DEF ms, m
      <4> QED
        BY <1>4, <4>1
    <3> QED
      BY <1>7, <3>2, <3>3, Zenon DEF Judged
  <2> QED
    BY <1>1, <2>1, <2>2, Refusal
<1> QED
  BY <1>6, <1>7

\* An archive that has passed every check is acceptable.
LEMMA CompareWithPolicyHolds ==
  ASSUME IInv, NEW r \in Runs, CompareWithPolicy(r)
  PROVE  RunInv(r)'
<1> DEFINE f == archive[r]
           ms == f.members
<1>1. /\ Undisturbed /\ ~Outside(r) /\ Judges(r) /\ exit[r] = "running" /\ LocalOK /\ RequestOK(r) /\ LastMember(r)
  BY Zenon DEF CompareWithPolicy, At, Outside, IInv, RunInv, Done, TypeOK
<1>2. /\ IsRead(r) /\ Opened(r) /\ f \in Archives /\ Len(ms) \in Nat /\ DOMAIN ms = 1 .. Len(ms) /\ number[r] = Len(ms)
  BY <1>1, OpenedIsArchive DEF Judges, IsRead, LastMember
<1>3. observed_files[r] = FilePaths(f)
  BY <1>1, <1>2 DEF Judges, FilePaths
<1>4. CASE observed_files[r] = Policy(r)
  <2>1. /\ pc'[r] = "digest" /\ exit'[r] = "running" /\ digests'[r] = digests[r] /\ observed_files'[r] = observed_files[r]
    BY <1>1, <1>4 DEF CompareWithPolicy, Check, Goto, LocalOK, inspection, results
  <2>2. Deserving(r, f)
    <3>1. Opens(f, Kind(r)) /\ Named(r) /\ PolicyOK(PolicyLines(r)) /\ FilePaths(f) = Policy(r)
      BY <1>1, <1>2, <1>3, <1>4 DEF Opened, Judges
    <3>2. \A k \in DOMAIN ms : Judged(ms[k], Policy(r))
      BY <1>1, <1>2 DEF Judges
    <3>3. Repeatless(f)
      BY <1>1, <1>2 DEF Judges, Repeatless
    <3>4. /\ Expands(f) /\ Len(ms) <= MaxMembers /\ Sizes(ms)[Len(ms)] <= MaxTotalMemberBytes
          /\ \A k \in DOMAIN ms : BoundedMember(ms[k])
      <4>1. f.kind = "sdist" => f.kind # "wheel"
        OBVIOUS
      <4> QED
        BY <1>2, <4>1, Zenon DEF IsRead, Bounded, Expands, BoundedMember
    <3> QED
      BY <1>2, <3>1, <3>2, <3>3, <3>4, Zenon DEF Deserving
  <2>3. Acceptable(r, f)
    BY <1>1, <2>2, AcceptableMeans
  <2>4. Cardinality(observed_files[r]) = Len(PolicyLines(r))
    BY <1>4, <2>3 DEF Acceptable
  <2>5. request' = request /\ Were(r)' = Were(r) /\ f \in Were(r)
    BY <1>1, <1>2 DEF Undisturbed, history, Were, Opened
  <2>6. Accepted(r)' /\ digests'[r] = <<>>
    BY <1>2, <2>1, <2>3, <2>4, <2>5, RequestStays DEF Accepted, Opened
  <2> QED
    BY <1>1, <2>1, <2>6, Locations, Onward
<1>5. CASE observed_files[r] # Policy(r)
  <2>1. Exit(r, "2")
    BY <1>5 DEF CompareWithPolicy, Check
  <2>2. r \in alone => ~Deserves(r)
    BY <1>1, <1>2, <1>3, <1>5, Deserved DEF Deserving, Opened
  <2> QED
    BY <1>1, <2>1, <2>2, Refusal
<1> QED
  BY <1>4, <1>5

-----------------------------------------------------------------------------
(* The digests of the archive. *)
LEMMA InspectionStays ==
  ASSUME NEW r \in Runs, Undisturbed, observed_files'[r] = observed_files[r]
  PROVE  /\ Accepted(r) => Accepted(r)'
         /\ Identifies(r) /\ requirements'[r] = requirements[r] => Identifies(r)'
         /\ Were(r)' = Were(r) /\ request' = request
<1>1. request' = request /\ Were(r)' = Were(r)
  BY DEF Undisturbed, history, Were
<1>2. Accepted(r) => Accepted(r)'
  BY <1>1, RequestStays DEF Accepted
<1>3. Identifies(r) /\ requirements'[r] = requirements[r] => Identifies(r)'
  BY <1>1, RequestStays DEF Identifies
<1> QED
  BY <1>1, <1>2, <1>3

\* A digest is of what has the name now.
LEMMA Digesting ==
  ASSUME IInv, NEW r \in Runs, Undisturbed, ~Outside(r), Hash(r, request[r].archive)
  PROVE  /\ digests[r] = <<>> => Digested(r, 1)' /\ digests'[r] = <<Archive(r)>>
         /\ Digested(r, 1) => Digested(r, 2)'
<1>1. digests'[r] = Append(digests[r], Archive(r)) /\ Were(r)' = Were(r) /\ Archive(r) \in Were(r)
  BY DEF Hash, IInv, TypeOK, LocalOK, Undisturbed, history, Were, Archive, RunInv, Steady, RequestOK
<1>2. digests[r] = <<>> => digests'[r] = <<Archive(r)>>
  BY <1>1
<1>3. ASSUME NEW n \in Nat, digests[r] \in Seq(Were(r)), Len(digests[r]) = n
      PROVE  digests'[r] \in Seq(Were(r)) /\ Len(digests'[r]) = n + 1
  BY <1>1, <1>3, AppendProperties
<1>4. <<>> \in Seq(Were(r)) /\ Len(<<>>) = 0 /\ 0 + 1 = 1 /\ 1 + 1 = 2
  BY EmptySeq
<1>5. digests[r] = <<>> => digests'[r] \in Seq(Were(r)) /\ Len(digests'[r]) = 1
  BY <1>3, <1>4
<1>6. Digested(r, 1) => digests'[r] \in Seq(Were(r)) /\ Len(digests'[r]) = 2
  <2>1. 1 \in Nat
    OBVIOUS
  <2> QED
    BY <1>3, <1>4, <2>1, Zenon DEF Digested
<1> QED
  BY <1>1, <1>2, <1>5, <1>6 DEF Digested

\* A run that ends, and leaves the directory alone, leaves the directory as it found it.
LEMMA Ends ==
  ASSUME IInv, NEW r \in Runs, Undisturbed, ~Outside(r), pc'[r] = "ended"
  PROVE  Steady(r)'
<1>1. entry' = entry /\ held' = held /\ alone' = alone
  BY DEF Undisturbed, directory, history
<1>2. \A n \in Names : Found(r, n)' = Found(r, n)
  BY <1>1 DEF Found
<1> QED
  BY <1>1, <1>2 DEF IInv, RunInv, Steady, Outside

\* What a path that cannot be hashed is not.
LEMMA UnhashableArchive ==
  ASSUME IInv, NEW r \in Runs, r \in alone, ~Outside(r), ~Summing(r), ~Hashable(request[r].archive)
  PROVE  ~Deserves(r)
<1>1. Archive(r) \notin Archives
  BY ArchivesAreArchives DEF Hashable, Archive
<1> QED
  BY <1>1, Deserved DEF Acceptable

\* An inspection that succeeds has judged and hashed what it found.
LEMMA DigestArchiveHolds ==
  ASSUME IInv, NEW r \in Runs, DigestArchive(r)
  PROVE  RunInv(r)'
<1>1. /\ Undisturbed /\ ~Outside(r) /\ Accepted(r) /\ digests[r] = <<>> /\ exit[r] = "running" /\ LocalOK /\ RequestOK(r)
  BY Zenon DEF DigestArchive, At, Outside, IInv, RunInv, Done, TypeOK
<1>2. ~Summing(r) /\ request' = request /\ alone' = alone
  BY <1>1 DEF Accepted, Undisturbed, history
<1>3. observed_files' = observed_files /\ Hash(r, request[r].archive)
  BY DEF DigestArchive, inspection
<1>4. Accepted(r)' /\ Digested(r, 1)' /\ digests'[r] = <<Archive(r)>>
  BY <1>1, <1>3, InspectionStays, Digesting
<1>5. CASE ~Hashable(request[r].archive)
  <2>1. Exit(r, "2")
    BY <1>5 DEF DigestArchive
  <2> QED
    BY <1>1, <1>2, <1>5, <2>1, UnhashableArchive, Refusal
<1>6. CASE Hashable(request[r].archive) /\ request[r].command = "inspect"
  <2>1. pc'[r] = "ended" /\ exit'[r] = "0"
    BY <1>1, <1>6 DEF DigestArchive, Exit, LocalOK
  <2>2. ~Describing(r)' /\ ~Summing(r)'
    BY <1>2, <1>6 DEF Describing, Summing
  <2>3. Complete(r)'
    BY <1>4, <2>1, <2>2, Zenon DEF Complete
  <2>4. Done(r)'
    BY <2>1, <2>3, Zenon DEF Done
  <2>5. Steady(r)'
    BY <1>1, <2>1, Ends
  <2>6. ASSUME r \in alone' PROVE Exact(r)'
    <3>1. Archive(r) = Inspected(r) /\ Were(r) = {Inspected(r)}
      BY <1>1, <1>2, <2>6, AloneSees
    <3>2. Inspected(r)' = Inspected(r)
      BY <1>1 DEF Undisturbed, history, Inspected, Found
    <3>3. Acceptable(r, Inspected(r))'
      BY <1>1, <1>2, <3>1, <3>2, RequestStays DEF Accepted
    <3>4. Cardinality(observed_files'[r]) = Len(PolicyLines(r)')
      BY <1>4 DEF Accepted
    <3>5. InspectionExact(r)'
      BY <1>4, <2>1, <3>1, <3>2, <3>3, <3>4 DEF InspectionExact
    <3> QED
      BY <1>2, <1>6, <3>5 DEF Exact
  <2> QED
    BY <2>4, <2>5, <2>6 DEF RunInv
<1>7. CASE Hashable(request[r].archive) /\ request[r].command # "inspect"
  <2>1. pc'[r] = "identify" /\ exit'[r] = "running"
    BY <1>1, <1>7 DEF DigestArchive, Goto, LocalOK
  <2>2. Describing(r)'
    BY <1>1, <1>2, <1>7 DEF RequestOK, Describing, Summing
  <2> QED
    BY <1>1, <1>4, <2>1, <2>2, Locations, Onward
<1> QED
  BY <1>5, <1>6, <1>7

\* What is identified has the name now; it need not be what was inspected.
LEMMA ValidateIdentityHolds ==
  ASSUME IInv, NEW r \in Runs, ValidateIdentity(r)
  PROVE  RunInv(r)'
<1> DEFINE fine == request[r].archive = ExpectedWheel /\ Identified(Archive(r)) /\ request[r].output # request[r].archive
<1>1. /\ Undisturbed /\ ~Outside(r) /\ Describing(r) /\ Accepted(r) /\ Digested(r, 1) /\ exit[r] = "running"
      /\ LocalOK /\ RequestOK(r)
  BY Zenon DEF ValidateIdentity, At, Outside, IInv, RunInv, Done, TypeOK
<1>2. /\ ~Summing(r) /\ request' = request /\ observed_files' = observed_files /\ digests' = digests
      /\ Accepted(r)' /\ Were(r)' = Were(r)
  BY <1>1, InspectionStays DEF Accepted, ValidateIdentity, inspection
<1>3. Check(r, fine, "describe")
  BY DEF ValidateIdentity
<1>4. CASE fine
  <2>1. pc'[r] = "describe" /\ exit'[r] = "running"
    BY <1>1, <1>3, <1>4 DEF Check, Goto, LocalOK
  <2>2. requirements'[r] = Declared(Archive(r))
    BY <1>1, <1>4 DEF ValidateIdentity, Identified, LocalOK
  <2>3. Archive(r) \in Were(r)
    BY <1>1 DEF Archive, Were, IInv, RunInv, Steady, RequestOK
  <2>4. Identifies(r)'
    BY <1>1, <1>2, <1>4, <2>2, <2>3, RequestStays DEF Identifies
  <2>5. Digested(r, 1)'
    BY <1>1, <1>2 DEF Digested
  <2> QED
    BY <1>1, <1>2, <2>1, <2>4, <2>5, Locations, Onward
<1>5. CASE ~fine
  <2>1. Exit(r, "2")
    BY <1>3, <1>5 DEF Check
  <2>2. r \in alone => ~Deserves(r)
    BY <1>1, <1>5, AloneSees DEF Deserves, DeservesSbom, Describing, Summing
  <2> QED
    BY <1>1, <2>1, <2>2, Refusal
<1> QED
  BY <1>4, <1>5

\* A wheel that is described was inspected, hashed twice and identified.
LEMMA DescribeWheelHolds ==
  ASSUME IInv, NEW r \in Runs, DescribeWheel(r)
  PROVE  RunInv(r)'
<1> DEFINE fine == Hashable(request[r].archive) /\ request[r].date_valid
<1>1. /\ Undisturbed /\ ~Outside(r) /\ Accepted(r) /\ Digested(r, 1) /\ Identifies(r) /\ exit[r] = "running"
      /\ LocalOK /\ RequestOK(r)
  BY Zenon DEF DescribeWheel, At, Outside, IInv, RunInv, Done, TypeOK
<1>2. /\ Describing(r) /\ ~Summing(r) /\ request' = request /\ Accepted(r)' /\ Identifies(r)'
  BY <1>1, InspectionStays DEF Accepted, Identifies, DescribeWheel, inspection
<1>3. Check(r, fine, "write") /\ Hash(r, request[r].archive)
  BY DEF DescribeWheel
<1>4. CASE fine
  <2>1. pc'[r] = "write" /\ exit'[r] = "running"
    BY <1>1, <1>3, <1>4 DEF Check, Goto, LocalOK
  <2>2. Digested(r, 2)'
    BY <1>1, <1>3, Digesting
  <2>3. request'[r].command = "sbom" /\ ~Summing(r)' /\ request'[r].date_valid
    BY <1>2, <1>4 DEF Describing, Summing
  <2>4. Complete(r)'
    BY <1>2, <2>2, <2>3, Zenon DEF Complete
  <2> QED
    BY <1>1, <2>1, <2>4, Locations, Onward
<1>5. CASE ~fine
  <2>1. Exit(r, "2")
    BY <1>3, <1>5 DEF Check
  <2>2. r \in alone => ~Deserves(r)
    BY <1>1, <1>2, <1>5, UnhashableArchive DEF Deserves, DeservesSbom, Describing
  <2> QED
    BY <1>1, <2>1, <2>2, Refusal
<1> QED
  BY <1>4, <1>5

-----------------------------------------------------------------------------
(* The steps of a listing. *)
LEMMA ListedNames ==
  ASSUME NEW r \in Runs, IsListed(r), number[r] \in Nat, number[r] <= Len(files[r]), number[r] # Len(files[r])
  PROVE  /\ Len(files[r]) \in Nat /\ DOMAIN files[r] = 1 .. Len(files[r])
         /\ number[r] + 1 \in DOMAIN files[r] /\ number[r] + 1 <= Len(files[r]) /\ Listed(r) \in Names
         /\ \A k \in 1 .. number[r] + 1 : k \in 1 .. number[r] \/ k = number[r] + 1
         /\ \A k \in 1 .. number[r] : k # number[r] + 1
<1>1. files[r] \in Seq(Names)
  BY DEF IsListed
<1>2. Len(files[r]) \in Nat /\ DOMAIN files[r] = 1 .. Len(files[r])
  BY <1>1, LenProperties
<1>3. number[r] + 1 \in DOMAIN files[r] /\ number[r] + 1 <= Len(files[r])
  BY <1>2
<1>4. Listed(r) \in Names
  BY <1>1, <1>2, <1>3, ElementOfSeq DEF Listed
<1>5. /\ \A k \in 1 .. number[r] + 1 : k \in 1 .. number[r] \/ k = number[r] + 1
      /\ \A k \in 1 .. number[r] : k # number[r] + 1
  OBVIOUS
<1> QED
  BY <1>2, <1>3, <1>4, <1>5

\* A listing stays when the directory does.
LEMMA ListingStays ==
  ASSUME NEW r \in Runs, Undisturbed, files'[r] = files[r]
  PROVE  /\ IsListed(r) => IsListed(r)'
         /\ Summing(r) => Summing(r)'
         /\ \A n : Found(r, n)' = Found(r, n)
         /\ alone' = alone /\ entry' = entry /\ held' = held /\ request' = request
<1>1. alone' = alone /\ entry' = entry /\ held' = held /\ request' = request
  BY DEF Undisturbed, directory, history
<1>2. \A n : Found(r, n)' = Found(r, n)
  BY <1>1 DEF Found
<1>3. Before(r)' = Before(r)
  BY <1>2 DEF Before
<1> QED
  BY <1>1, <1>2, <1>3 DEF IsListed, Summing

\* A run that deserves its list lists what deserves it.
LEMMA DeservedListing ==
  ASSUME IInv, NEW r \in Runs, r \in alone, ~Outside(r), Summing(r), IsListed(r), Deserves(r)
  PROVE  /\ files[r] # <<>>
         /\ \A k \in DOMAIN files[r] : IsRegular(Found(r, files[r][k])) /\ files[r][k] \notin UnsafeNames
         /\ \A n \in Names : Found(r, n) = entry[n]
<1>1. DeservesSums(r) /\ files[r] = Listing(Before(r))
  BY DEF Deserves, IsListed, Summing, Describing
<1>2. \A n \in Names : Found(r, n) = entry[n]
  BY AloneSees
<1> QED
  BY <1>1, <1>2, Zenon DEF DeservesSums

\* The listing of a run that is alone is that of what it found.
LEMMA ListDirectoryHolds ==
  ASSUME IInv, NEW r \in Runs, ListDirectory(r)
  PROVE  RunInv(r)'
<1>1. /\ Undisturbed /\ ~Outside(r) /\ Summing(r) /\ Fresh(r) /\ exit[r] = "running" /\ LocalOK
  BY Zenon DEF ListDirectory, At, Outside, IInv, RunInv, Done, TypeOK
<1>2. pc'[r] = "files" /\ exit'[r] = "running" /\ files'[r] = Listing(entry) /\ number'[r] = 0 /\ digests'[r] = <<>>
  BY <1>1 DEF ListDirectory, Goto, LocalOK, Fresh
<1>3. alone' = alone /\ held' = held /\ request' = request
  BY <1>1 DEF Undisturbed, history
<1>4. r \in alone => Before(r)' = entry
  BY <1>1, <1>3, AloneSees DEF Before, Found
<1>5. IsListed(r)'
  BY <1>2, <1>3, <1>4, ListingOfNames DEF IsListed
<1>6. Len(Listing(entry)) \in Nat
  BY ListingOfNames, LenProperties
<1>7. Lists(r)'
  BY <1>1, <1>2, <1>3, <1>5, <1>6 DEF Lists, Passed, Summing
<1> QED
  BY <1>1, <1>2, <1>7, Locations, Onward

\* An entry that is refused deserves no list.
LEMMA ExamineEntryHolds ==
  ASSUME IInv, NEW r \in Runs, ExamineEntry(r)
  PROVE  RunInv(r)'
<1> DEFINE n == number[r]
           fine == IsRegular(entry[Listed(r)]) /\ Listed(r) \notin UnsafeNames
<1>1. /\ Undisturbed /\ ~Outside(r) /\ Lists(r) /\ exit[r] = "running" /\ LocalOK /\ ~LastFile(r)
  BY Zenon DEF ExamineEntry, At, Outside, IInv, RunInv, Done, TypeOK
<1>2. /\ IsListed(r) /\ Summing(r) /\ n \in Nat /\ n <= Len(files[r]) /\ n # Len(files[r]) /\ digests[r] = <<>> /\ Passed(r, n)
  BY <1>1 DEF Lists, LocalOK, LastFile
<1>3. /\ Len(files[r]) \in Nat /\ DOMAIN files[r] = 1 .. Len(files[r])
      /\ n + 1 \in DOMAIN files[r] /\ n + 1 <= Len(files[r]) /\ Listed(r) \in Names /\ Listed(r) = files[r][n + 1]
      /\ \A k \in 1 .. n + 1 : k \in 1 .. n \/ k = n + 1
  BY <1>2, ListedNames DEF Listed
<1>4. Check(r, fine, "files")
  BY DEF ExamineEntry
<1>5. files' = files /\ number'[r] = n + 1 /\ digests' = digests
  BY <1>1 DEF ExamineEntry, results, Advance, LocalOK
<1> HIDE DEF n
<1>6. CASE fine
  <2>1. pc'[r] = "files" /\ exit'[r] = "running"
    BY <1>1, <1>4, <1>6 DEF Check, Goto, LocalOK
  <2>2. r \in alone => IsRegular(Found(r, files[r][n + 1]))
    BY <1>1, <1>3, <1>6, AloneSees
  <2>3. \A k \in 1 .. n + 1 : files[r][k] \notin UnsafeNames /\ (r \in alone => IsRegular(Found(r, files[r][k])))
    BY <1>2, <1>3, <1>6, <2>2, Zenon DEF Passed
  <2>4. Passed(r, number[r])'
    BY <1>1, <1>5, <2>3, ListingStays DEF Passed, IsRegular
  <2>5. Lists(r)'
    BY <1>1, <1>2, <1>3, <1>5, <2>4, ListingStays DEF Lists
  <2> QED
    BY <1>1, <2>1, <2>5, Locations, Onward
<1>7. CASE ~fine
  <2>1. Exit(r, "2")
    BY <1>4, <1>7 DEF Check
  <2>2. r \in alone => ~Deserves(r)
    BY <1>1, <1>2, <1>3, <1>7, DeservedListing, Zenon
  <2> QED
    BY <1>1, <2>1, <2>2, Refusal
<1> QED
  BY <1>6, <1>7

\* A directory without artifacts deserves no list.
LEMMA EndOfListingHolds ==
  ASSUME IInv, NEW r \in Runs, EndOfListing(r)
  PROVE  RunInv(r)'
<1>1. /\ Undisturbed /\ ~Outside(r) /\ Lists(r) /\ exit[r] = "running" /\ LocalOK /\ LastFile(r)
  BY Zenon DEF EndOfListing, At, Outside, IInv, RunInv, Done, TypeOK
<1>2. /\ IsListed(r) /\ Summing(r) /\ digests[r] = <<>> /\ Passed(r, Len(files[r]))
  BY <1>1 DEF Lists, LastFile
<1>3. files' = files /\ number'[r] = 0 /\ digests' = digests
  BY <1>1 DEF EndOfListing, results, Rewind, LocalOK
<1>4. CASE files[r] # <<>>
  <2>1. pc'[r] = "hash" /\ exit'[r] = "running"
    BY <1>1, <1>4 DEF EndOfListing, Check, Goto, LocalOK
  <2>2. Passed(r, Len(files[r]))'
    BY <1>1, <1>2, <1>3, ListingStays DEF Passed, IsRegular
  <2>3. Hashed(r, number[r])'
    <3>1. digests'[r] = <<>> /\ number'[r] = 0 /\ <<>> \in Seq((UNION {held[r][m] : m \in Names})') /\ Len(<<>>) = 0
      BY <1>2, <1>3, EmptySeq
    <3>2. 1 .. 0 = {}
      OBVIOUS
    <3> QED
      BY <3>1, <3>2, Zenon DEF Hashed
  <2>4. 0 <= Len(files[r])
    BY <1>2, LenProperties DEF IsListed
  <2>5. Hashes(r)'
    BY <1>1, <1>2, <1>3, <1>4, <2>2, <2>3, <2>4, ListingStays DEF Hashes
  <2> QED
    BY <1>1, <2>1, <2>5, Locations, Onward
<1>5. CASE files[r] = <<>>
  <2>1. Exit(r, "2")
    BY <1>5 DEF EndOfListing, Check
  <2>2. r \in alone => ~Deserves(r)
    BY <1>1, <1>2, <1>5, DeservedListing
  <2> QED
    BY <1>1, <2>1, <2>2, Refusal
<1> QED
  BY <1>4, <1>5

\* What is hashed has its name now, and can be hashed if nothing is disturbed.
LEMMA HashFileHolds ==
  ASSUME IInv, NEW r \in Runs, HashFile(r)
  PROVE  RunInv(r)'
<1> DEFINE n == number[r]
           all == UNION {held[r][m] : m \in Names}
<1>1. /\ Undisturbed /\ ~Outside(r) /\ Hashes(r) /\ exit[r] = "running" /\ LocalOK /\ ~LastFile(r)
  BY Zenon DEF HashFile, At, Outside, IInv, RunInv, Done, TypeOK
<1>2. /\ IsListed(r) /\ Summing(r) /\ n \in Nat /\ n <= Len(files[r]) /\ n # Len(files[r]) /\ files[r] # <<>>
      /\ Passed(r, Len(files[r])) /\ Hashed(r, n)
  BY <1>1 DEF Hashes, LocalOK, LastFile
<1>3. /\ Len(files[r]) \in Nat /\ DOMAIN files[r] = 1 .. Len(files[r])
      /\ n + 1 \in DOMAIN files[r] /\ n + 1 <= Len(files[r]) /\ Listed(r) \in Names /\ Listed(r) = files[r][n + 1]
      /\ \A k \in 1 .. n + 1 : k \in 1 .. n \/ k = n + 1
  BY <1>2, ListedNames DEF Listed
<1>4. Check(r, Hashable(Listed(r)), "hash")
  BY DEF HashFile
<1>5. files' = files /\ number'[r] = n + 1 /\ digests'[r] = Append(digests[r], entry[Listed(r)])
  BY <1>1 DEF HashFile, Hash, Advance, LocalOK
<1>6. entry[Listed(r)] \in held[r][Listed(r)] /\ held[r][Listed(r)] \subseteq all
  BY <1>1, <1>3 DEF IInv, RunInv, Steady
<1> HIDE DEF n
<1>7. CASE Hashable(Listed(r))
  <2>1. pc'[r] = "hash" /\ exit'[r] = "running"
    BY <1>1, <1>4, <1>7 DEF Check, Goto, LocalOK
  <2>2. Passed(r, Len(files[r]))'
    BY <1>1, <1>2, <1>5, ListingStays DEF Passed, IsRegular
  <2>3. digests[r] \in Seq(all) /\ Len(digests[r]) = n /\ \A k \in 1 .. n : digests[r][k] \in held[r][files[r][k]]
    BY <1>2 DEF Hashed
  <2> HIDE DEF all
  <2>4. entry[Listed(r)] \in all
    BY <1>6
  <2>5. /\ digests'[r] \in Seq(all) /\ Len(digests'[r]) = n + 1
        /\ digests'[r][n + 1] = entry[Listed(r)] /\ \A k \in 1 .. n : digests'[r][k] = digests[r][k]
    BY <1>5, <2>3, <2>4, AppendProperties
  <2>6. \A k \in 1 .. n + 1 : digests'[r][k] \in held[r][files[r][k]]
    BY <1>3, <1>6, <2>3, <2>5, Zenon
  <2>7. Hashed(r, number[r])'
    BY <1>1, <1>5, <2>5, <2>6, ListingStays DEF Hashed, all
  <2>8. Hashes(r)'
    BY <1>1, <1>2, <1>3, <1>5, <2>2, <2>7, ListingStays DEF Hashes
  <2> QED
    BY <1>1, <2>1, <2>8, Locations, Onward
<1>8. CASE ~Hashable(Listed(r))
  <2>1. Exit(r, "2")
    BY <1>4, <1>8 DEF Check
  <2>2. ~IsRegular(entry[Listed(r)])
    BY <1>8, Zenon DEF Hashable, IsRegular
  <2>3. r \in alone => ~Deserves(r)
    BY <1>1, <1>2, <1>3, <2>2, DeservedListing, Zenon
  <2> QED
    BY <1>1, <2>1, <2>3, Refusal
<1> QED
  BY <1>7, <1>8

\* After the last file there is a digest for every name.
LEMMA EndOfFilesHolds ==
  ASSUME IInv, NEW r \in Runs, EndOfFiles(r)
  PROVE  RunInv(r)'
<1>1. /\ Undisturbed /\ ~Outside(r) /\ Hashes(r) /\ exit[r] = "running" /\ LocalOK /\ LastFile(r)
  BY Zenon DEF EndOfFiles, At, Outside, IInv, RunInv, Done, TypeOK
<1>2. /\ IsListed(r) /\ Summing(r) /\ files[r] # <<>> /\ Passed(r, Len(files[r])) /\ Hashed(r, Len(files[r]))
  BY <1>1 DEF Hashes, LastFile
<1>3. files' = files /\ digests' = digests /\ pc'[r] = "write" /\ exit'[r] = "running"
  BY <1>1 DEF EndOfFiles, results, Goto, LocalOK
<1>4. IsListed(r)' /\ Passed(r, Len(files[r]))' /\ Hashed(r, Len(files[r]))'
  BY <1>1, <1>2, <1>3, ListingStays DEF Passed, IsRegular, Hashed
<1>5. request'[r].command = "checksums" /\ ~Describing(r)'
  BY <1>1, <1>2, <1>3, ListingStays DEF Summing, Describing
<1>6. Complete(r)'
  BY <1>2, <1>3, <1>4, <1>5, Zenon DEF Complete
<1> QED
  BY <1>1, <1>3, <1>6, Locations, Onward

-----------------------------------------------------------------------------
(* The steps that others notice. *)

\* What is complete stays so, while the run remembers what the names had.
LEMMA CompleteStays ==
  ASSUME NEW r \in Runs, request' = request, Remembers(r), RequestOK(r), Complete(r), exit'[r] \in {exit[r], "0"},
         observed_files'[r] = observed_files[r], files'[r] = files[r], digests'[r] = digests[r],
         requirements'[r] = requirements[r]
  PROVE  Complete(r)'
<1> USE RequestStays
<1>1. Were(r) \subseteq Were(r)'
  BY DEF Were, Remembers, RequestOK
<1>2. Accepted(r) => Accepted(r)'
  BY <1>1 DEF Accepted
<1>3. ASSUME NEW n, Digested(r, n) PROVE Digested(r, n)'
  BY <1>1, <1>3, SeqMonotonic DEF Digested
<1>4. Identifies(r) => Identifies(r)'
  BY <1>1 DEF Identifies
<1>5. IsListed(r) => IsListed(r)'
  BY FoundStays DEF IsListed, Remembers
<1>6. ASSUME IsListed(r), Passed(r, Len(files[r])), Hashed(r, Len(files[r]))
      PROVE  Passed(r, Len(files[r]))' /\ Hashed(r, Len(files[r]))'
  <2> DEFINE n == Len(files[r])
             all == UNION {held[r][m] : m \in Names}
  <2>1. \A k \in 1 .. n : files[r][k] \in Names
    BY <1>6, LenProperties, ElementOfSeq DEF IsListed
  <2>2. all \subseteq all'
    BY DEF Remembers
  <2>3. digests[r] \in Seq(all')
    BY <1>6, <2>2, SeqMonotonic DEF Hashed
  <2>4. \A k \in 1 .. n : digests[r][k] \in held'[r][files[r][k]]
    BY <1>6, <2>1 DEF Hashed, Remembers
  <2>5. Hashed(r, Len(files[r]))'
    BY <1>6, <2>3, <2>4 DEF Hashed
  <2>6. Passed(r, Len(files[r]))'
    BY <1>6, <2>1, FoundStays DEF Passed, IsRegular, Remembers
  <2> QED
    BY <2>5, <2>6
<1>7. request[r]' = request[r] /\ files[r]' = files[r]
  OBVIOUS
<1>8. exit[r] = "0" => exit'[r] = "0"
  OBVIOUS
<1> QED
  BY <1>2, <1>3, <1>4, <1>5, <1>6, <1>7, <1>8, Zenon DEF Complete

(* A step has its own run and what the others keep to look at. *)
LEMMA SharedStep ==
  ASSUME IInv, NEW r \in Runs, Step(r), request' = request, entry' = [n \in Names |-> entry'[n]], alone' \subseteq alone,
         held' = [q \in Runs |-> [n \in Names |-> held'[q][n]]],
         \A q \in Runs \ {r} : Remembers(q) /\ Spares(q), RunInv(r)'
  PROVE  IInv'
<1>1. LocalOK' /\ \A q \in Runs \ {r} : Kept(q)
  BY StepIsOwn
<1>2. TypeOK'
  BY <1>1, RequestStays DEF IInv, TypeOK
<1>3. ASSUME NEW q \in Runs \ {r} PROVE RunInv(q)'
  <2>1. RequestOK(q) /\ number[q] \in Nat /\ RunInv(q)
    BY DEF IInv, TypeOK, LocalOK
  <2> QED
    BY <1>1, <2>1, RunStays
<1> QED
  BY <1>2, <1>3 DEF IInv

\* A run that begins remembers what every name has.
LEMMA StartHolds ==
  ASSUME IInv, NEW r \in Runs, Start(r)
  PROVE  IInv'
<1>1. /\ pc[r] = "begin" /\ Fresh(r) /\ exit[r] = "running" /\ LocalOK /\ TypeOK /\ entry[TemporaryName[r]] = Absent
  BY Zenon DEF Start, At, IInv, RunInv, Done, Steady, TypeOK
<1>2. entry' = entry /\ request' = request /\ alone' = alone
      /\ held' = [held EXCEPT ![r] = [n \in Names |-> {entry[n]}]]
  BY DEF Start, directory
<1>3. held'[r] = [n \in Names |-> {entry[n]}] /\ \A q \in Runs \ {r} : held'[q] = held[q]
  BY <1>1, <1>2 DEF TypeOK
<1>4. pc'[r] = (IF request[r].command = "checksums" THEN "list" ELSE "require") /\ exit'[r] = "running"
  BY <1>1 DEF Start, Goto, LocalOK
<1>5. Fresh(r)' /\ (Summing(r)' <=> request[r].command = "checksums")
  BY <1>1, <1>2 DEF Start, inspection, results, Fresh, Summing
<1>6. Done(r)' /\ ~Outside(r)'
  BY <1>4, <1>5, Locations
<1>7. pc'[r] \notin {"replace", "ended"}
  BY <1>4
<1>8. \A n \in Names : held'[r][n] = {entry[n]} /\ Found(r, n)' = entry[n]
  BY <1>3 DEF Found
<1>9. RunInv(r)'
  BY <1>1, <1>2, <1>6, <1>7, <1>8 DEF RunInv, Steady
<1>10. held' = [q \in Runs |-> [n \in Names |-> held'[q][n]]]
  BY <1>1, <1>2, <1>3 DEF TypeOK
<1>11. ASSUME NEW q \in Runs \ {r} PROVE Remembers(q) /\ Spares(q)
  BY <1>2, <1>3, <1>10 DEF Remembers, Spares, IInv, RunInv, Steady
<1>12. Step(r) /\ entry' = [n \in Names |-> entry'[n]]
  BY <1>1, <1>2 DEF Step, TypeOK
<1> QED
  BY <1>2, <1>9, <1>10, <1>11, <1>12, SharedStep

\* What a run binds is its own temporary file, or its output.
LEMMA Binds ==
  ASSUME IInv, NEW r \in Runs, NEW b, DOMAIN b \subseteq {TemporaryName[r], OutputOf(r)}, Bind(r, b), pc[r] # "begin"
  PROVE  /\ entry' = [n \in Names |-> IF n \in DOMAIN b THEN b[n] ELSE entry[n]]
         /\ request' = request /\ entry' = [n \in Names |-> entry'[n]] /\ alone' \subseteq alone
         /\ held' = [q \in Runs |-> [n \in Names |-> held'[q][n]]]
         /\ held'[r] = held[r] /\ Remembers(r) /\ (r \in alone' <=> r \in alone)
         /\ \A q \in Runs \ {r} : Remembers(q) /\ Spares(q)
<1>1. /\ entry' = [n \in Names |-> IF n \in DOMAIN b THEN b[n] ELSE entry[n]]
      /\ request' = request /\ alone' = {q \in alone : q = r \/ At(q, "begin")}
      /\ held' = [q \in Runs |-> IF q = r \/ At(q, "begin") THEN held[q]
                                 ELSE [n \in Names |-> held[q][n] \cup {entry'[n]}]]
  BY DEF Bind
<1>2. entry' = [n \in Names |-> entry'[n]] /\ alone' \subseteq alone /\ (r \in alone' <=> r \in alone)
  BY <1>1
<1>3. held = [q \in Runs |-> [n \in Names |-> held[q][n]]]
  BY DEF IInv, TypeOK
<1>4. /\ held'[r] = held[r]
      /\ \A q \in Runs \ {r} : held'[q] = IF At(q, "begin") THEN held[q] ELSE [n \in Names |-> held[q][n] \cup {entry'[n]}]
  BY <1>1
<1>5. held' = [q \in Runs |-> [n \in Names |-> held'[q][n]]]
  <2>1. \A q \in Runs : held'[q] = [n \in Names |-> held'[q][n]]
    BY <1>3, <1>4
  <2>2. held' = [q \in Runs |-> held'[q]]
    BY <1>1
  <2> QED
    BY <2>1, <2>2
<1>6. Remembers(r)
  BY <1>2, <1>4, <1>5 DEF Remembers
<1>7. ASSUME NEW q \in Runs \ {r} PROVE Remembers(q) /\ Spares(q)
  <2>1. \A n \in Names : held[q][n] \subseteq held'[q][n] /\ (~At(q, "begin") => entry'[n] \in held'[q][n])
    <3>1. held'[q] = IF At(q, "begin") THEN held[q] ELSE [n \in Names |-> held[q][n] \cup {entry'[n]}]
      BY <1>4
    <3>2. CASE At(q, "begin")
      BY <3>1, <3>2
    <3>3. CASE ~At(q, "begin")
      BY <3>1, <3>3
    <3> QED
      BY <3>2, <3>3
  <2>2. q \in alone' => q \in alone /\ At(q, "begin") /\ held'[q] = held[q]
    BY <1>1, <1>4
  <2>3. Remembers(q)
    BY <1>5, <2>1, <2>2 DEF Remembers
  <2>4. TemporaryName[q] \in Names /\ TemporaryName[q] # TemporaryName[r] /\ TemporaryName[q] # OutputOf(r)
    BY TemporariesAreNames DEF IInv, TypeOK, RequestOK, Temporaries, OutputOf
  <2>5. entry'[TemporaryName[q]] = entry[TemporaryName[q]]
    BY <1>1, <2>4
  <2>6. pc[q] \notin {"replace", "ended"} => entry'[TemporaryName[q]] = Absent
    BY <2>5 DEF IInv, RunInv, Steady
  <2> QED
    BY <2>1, <2>2, <2>3, <2>6 DEF Spares, Outside, At
<1> QED
  BY <1>1, <1>2, <1>4, <1>5, <1>6, <1>7

\* The temporary file is the run's own; an output that is no file is refused.
LEMMA MakeTemporaryHolds ==
  ASSUME IInv, NEW r \in Runs, MakeTemporary(r)
  PROVE  IInv'
<1> DEFINE b == [n \in {TemporaryName[r]} |-> Plain]
<1>1. /\ pc[r] = "write" /\ ~Outside(r) /\ Complete(r) /\ exit[r] = "running" /\ LocalOK /\ TypeOK /\ RequestOK(r)
      /\ Step(r) /\ entry[TemporaryName[r]] = Absent
  BY Zenon DEF MakeTemporary, At, Outside, IInv, RunInv, Done, TypeOK, Step, Steady
<1>2. OutputOf(r) \in Names \ Temporaries /\ TemporaryName[r] \in Names /\ OutputOf(r) # TemporaryName[r]
  BY <1>1, TemporariesAreNames DEF OutputOf, RequestOK, Temporaries
<1>3. CASE entry[OutputOf(r)] \in {Symlink, Directory}
  <2>1. Exit(r, "2") /\ Undisturbed
    BY <1>3 DEF MakeTemporary
  <2>2. ASSUME r \in alone, Deserves(r) PROVE FALSE
    <3>1. Found(r, OutputOf(r)) = entry[OutputOf(r)]
      BY <1>1, <1>2, <2>2, AloneSees
    <3>2. Writable(Found(r, OutputOf(r)))
      BY <1>1, <2>2 DEF Deserves, DeservesSbom, DeservesSums, OutputOf, Describing, Summing, Complete
    <3> QED
      BY <1>3, <3>1, <3>2 DEF Writable
  <2>3. RunInv(r)'
    BY <1>1, <2>1, <2>2, Refusal
  <2> QED
    BY <1>1, <2>1, <2>3, PrivateStep
<1>4. CASE entry[OutputOf(r)] \notin {Symlink, Directory}
  <2>1. Bind(r, b) /\ pc'[r] = "replace" /\ exit'[r] = "running"
    BY <1>1, <1>4 DEF MakeTemporary, Goto, LocalOK
  <2>2. DOMAIN b \subseteq {TemporaryName[r], OutputOf(r)} /\ pc[r] # "begin"
    BY <1>1
  <2>3. /\ entry' = [n \in Names |-> IF n \in DOMAIN b THEN b[n] ELSE entry[n]]
        /\ request' = request /\ entry' = [n \in Names |-> entry'[n]] /\ alone' \subseteq alone
        /\ held' = [q \in Runs |-> [n \in Names |-> held'[q][n]]]
        /\ held'[r] = held[r] /\ Remembers(r) /\ (r \in alone' <=> r \in alone)
        /\ \A q \in Runs \ {r} : Remembers(q) /\ Spares(q)
    <3> HIDE DEF b
    <3> QED
      BY <2>1, <2>2, Binds
  <2>4. Complete(r)'
    <3>1. observed_files' = observed_files /\ files' = files /\ digests' = digests /\ requirements' = requirements
      BY DEF MakeTemporary, inspection, results
    <3> QED
      BY <1>1, <2>1, <2>3, <3>1, CompleteStays
  <2>5. Done(r)'
    BY <2>1, <2>4, Zenon DEF Done
  <2>6. ASSUME r \in alone'
        PROVE  /\ \A n \in Names : held'[r][n] = {Found(r, n)'}
               /\ entry' = [Before(r)' EXCEPT ![TemporaryName[r]] = Plain]
               /\ Found(r, TemporaryName[r])' = Absent /\ Writable(Found(r, OutputOf(r)))'
    <3>1. Before(r)' = Before(r) /\ \A n \in Names : Found(r, n)' = Found(r, n)
      BY <2>3, <2>6, FoundStays
    <3>2. entry = Before(r) /\ \A n \in Names : entry[n] = Found(r, n) /\ held[r][n] = {entry[n]}
      BY <1>1, <2>3, <2>6, AloneSees
    <3>3. Before(r) = [n \in Names |-> Found(r, n)]
      BY DEF Before
    <3>4. entry' = [entry EXCEPT ![TemporaryName[r]] = Plain]
      BY <1>2, <2>3, <3>2, <3>3
    <3>5. Found(r, TemporaryName[r])' = Absent
      BY <1>1, <1>2, <3>1, <3>2
    <3>6. OutputOf(r)' = OutputOf(r)
      BY <2>3, RequestStays
    <3>7. Found(r, OutputOf(r))' = entry[OutputOf(r)]
      BY <1>2, <3>1, <3>2, <3>6
    <3>8. Writable(Found(r, OutputOf(r)))'
      BY <1>4, <3>7 DEF Writable
    <3>9. \A n \in Names : held'[r][n] = {Found(r, n)'}
      BY <2>3, <3>1, <3>2
    <3> QED
      BY <3>1, <3>2, <3>4, <3>5, <3>8, <3>9
  <2>7. Steady(r)'
    BY <2>1, <2>6, Zenon DEF Steady, Outside
  <2>8. RunInv(r)'
    BY <2>1, <2>5, <2>7 DEF RunInv
  <2> QED
    BY <1>1, <2>3, <2>8, SharedStep
<1> QED
  BY <1>3, <1>4

\* What is complete, and alone, deserves what it writes.
LEMMA CompleteDeserves ==
  ASSUME IInv, NEW r \in Runs, pc[r] = "replace", r \in alone
  PROVE  /\ Describing(r) => /\ DeservesSbom(r)
                             /\ Document(r) = Sbom(Inspected(r), Declared(Inspected(r)))
         /\ Summing(r) => DeservesSums(r) /\ Document(r) = Summary(Listing(Before(r)), Before(r))
         /\ request[r].command # "inspect"
<1>1. /\ Complete(r) /\ exit[r] = "running" /\ RequestOK(r)
      /\ \A n \in Names : held[r][n] = {Found(r, n)}
      /\ Writable(Found(r, OutputOf(r)))
  BY Zenon DEF IInv, RunInv, Done, Steady, TypeOK
<1>2. request[r].command # "inspect"
  BY <1>1 DEF Complete
<1>3. ASSUME Describing(r)
      PROVE  DeservesSbom(r) /\ Document(r) = Sbom(Inspected(r), Declared(Inspected(r)))
  <2>1. Were(r) = {Inspected(r)}
    BY <1>1 DEF Were, Inspected, RequestOK
  <2>2. Accepted(r) /\ Digested(r, 2) /\ Identifies(r) /\ request[r].date_valid
    BY <1>1, <1>3, Zenon DEF Complete
  <2>3. Acceptable(r, Inspected(r)) /\ Identified(Inspected(r)) /\ requirements[r] = Declared(Inspected(r))
    BY <2>1, <2>2 DEF Accepted, Identifies
  <2>4. digests[r] \in Seq(Were(r)) /\ Len(digests[r]) = 2
    BY <2>2 DEF Digested
  <2>5. Last(digests[r]) = Inspected(r)
    <3>1. 2 \in 1 .. Len(digests[r])
      BY <2>4
    <3>2. digests[r][2] \in Were(r)
      BY <2>4, <3>1, ElementOfSeq
    <3> QED
      BY <2>1, <2>4, <3>2 DEF Last
  <2>6. DeservesSbom(r)
    BY <1>1, <1>3, <2>2, <2>3 DEF DeservesSbom, Identifies, OutputOf, Describing
  <2> QED
    BY <1>3, <2>3, <2>5, <2>6 DEF Document, Describing
<1>4. ASSUME Summing(r)
      PROVE  DeservesSums(r) /\ Document(r) = Summary(Listing(Before(r)), Before(r))
  <2>1. files[r] \in Seq(Names) /\ files[r] = Listing(Before(r)) /\ files[r] # <<>>
        /\ Passed(r, Len(files[r])) /\ Hashed(r, Len(files[r]))
    BY <1>1, <1>4 DEF Complete, IsListed
  <2>2. DOMAIN files[r] = 1 .. Len(files[r]) /\ \A k \in DOMAIN files[r] : files[r][k] \in Names
    BY <2>1, LenProperties, ElementOfSeq
  <2>3. request[r].command # "sbom" /\ OutputOf(r) = Sums
    BY <1>4 DEF Summing, OutputOf
  <2>4. DeservesSums(r)
    BY <1>1, <2>1, <2>2, <2>3, Zenon DEF DeservesSums, Passed
  <2>5. \A k \in DOMAIN files[r] : digests[r][k] = Before(r)[files[r][k]]
    BY <1>1, <2>1, <2>2 DEF Hashed, Before
  <2>6. Lines(files[r], digests[r]) = Summary(files[r], Before(r))
    BY <2>5 DEF Lines, Summary
  <2> QED
    BY <2>1, <2>3, <2>4, <2>6 DEF Document
<1> QED
  BY <1>2, <1>3, <1>4

\* The output has the document, and everything else is as it was found.
LEMMA ReplaceHolds ==
  ASSUME IInv, NEW r \in Runs, Replace(r)
  PROVE  IInv'
<1> DEFINE t == TemporaryName[r]
           o == OutputOf(r)
           b == [n \in {t, o} |-> IF n = o THEN Document(r) ELSE Absent]
<1>1. /\ pc[r] = "replace" /\ Complete(r) /\ exit[r] = "running" /\ LocalOK /\ TypeOK /\ RequestOK(r) /\ Step(r)
  BY Zenon DEF Replace, At, IInv, RunInv, Done, TypeOK, Step
<1>2. o \in Names /\ t \in Names /\ o # t
  BY <1>1, TemporariesAreNames DEF OutputOf, RequestOK, Temporaries
<1>3. r \in alone => /\ entry = [Before(r) EXCEPT ![t] = Plain] /\ Found(r, t) = Absent /\ Writable(Found(r, o))
                     /\ \A n \in Names : held[r][n] = {Found(r, n)}
  BY <1>1 DEF IInv, RunInv, Steady
<1>4. CASE entry[o] = Directory
  <2> DEFINE c == [n \in {t} |-> Absent]
  <2>1. Bind(r, c) /\ pc'[r] = "ended" /\ exit'[r] = "2"
    BY <1>1, <1>4 DEF Replace, Exit, LocalOK
  <2>2. DOMAIN c \subseteq {TemporaryName[r], OutputOf(r)} /\ pc[r] # "begin"
    BY <1>1
  <2>3. /\ request' = request /\ entry' = [n \in Names |-> entry'[n]] /\ alone' \subseteq alone
        /\ held' = [q \in Runs |-> [n \in Names |-> held'[q][n]]]
        /\ (r \in alone' <=> r \in alone)
        /\ \A q \in Runs \ {r} : Remembers(q) /\ Spares(q)
    <3> HIDE DEF c
    <3> QED
      BY <2>1, <2>2, Binds
  <2>4. r \notin alone'
    BY <1>2, <1>3, <1>4, <2>3 DEF Before, Writable
  <2>5. RunInv(r)'
    BY <2>1, <2>4, Zenon DEF RunInv, Done, Steady, Outside
  <2> QED
    BY <1>1, <2>3, <2>5, SharedStep
<1>5. CASE entry[o] # Directory
  <2>1. Bind(r, b) /\ pc'[r] = "ended" /\ exit'[r] = "0"
    BY <1>1, <1>5 DEF Replace, Exit, LocalOK
  <2>2. DOMAIN b \subseteq {TemporaryName[r], OutputOf(r)} /\ pc[r] # "begin"
    BY <1>1
  <2>3. /\ entry' = [n \in Names |-> IF n \in DOMAIN b THEN b[n] ELSE entry[n]]
        /\ request' = request /\ entry' = [n \in Names |-> entry'[n]] /\ alone' \subseteq alone
        /\ held' = [q \in Runs |-> [n \in Names |-> held'[q][n]]]
        /\ held'[r] = held[r] /\ Remembers(r) /\ (r \in alone' <=> r \in alone)
        /\ \A q \in Runs \ {r} : Remembers(q) /\ Spares(q)
    <3> HIDE DEF b
    <3> QED
      BY <2>1, <2>2, Binds
  <2>4. Complete(r)'
    <3>1. observed_files' = observed_files /\ files' = files /\ digests' = digests /\ requirements' = requirements
      BY DEF Replace, inspection, results
    <3> QED
      BY <1>1, <2>1, <2>3, <3>1, CompleteStays
  <2>5. Done(r)'
    BY <2>1, <2>4, Zenon DEF Done
  <2>6. ASSUME r \in alone' PROVE Exact(r)' /\ \A n \in Names : held'[r][n] = {Found(r, n)'}
    <3>1. r \in alone /\ Before(r)' = Before(r) /\ \A n \in Names : Found(r, n)' = Found(r, n)
      BY <2>3, <2>6, FoundStays
    <3>2. entry' = [Before(r) EXCEPT ![o] = Document(r)]
      <4>1. Before(r) = [n \in Names |-> Found(r, n)]
        BY DEF Before
      <4>2. \A n \in Names : entry'[n] = IF n = o THEN Document(r) ELSE Found(r, n)
        BY <1>2, <1>3, <2>3, <3>1, <4>1
      <4>3. DOMAIN Before(r) = Names /\ \A n \in Names : Before(r)[n] = Found(r, n)
        BY <4>1
      <4>4. [Before(r) EXCEPT ![o] = Document(r)] = [n \in Names |-> IF n = o THEN Document(r) ELSE Found(r, n)]
        BY <4>1, <4>3
      <4>5. entry' = [n \in Names |-> IF n = o THEN Document(r) ELSE Found(r, n)]
        <5> HIDE DEF b, o, t
        <5> QED
          BY <2>3, <4>2
      <4> QED
        BY <4>4, <4>5
    <3>3. /\ Describing(r) => /\ DeservesSbom(r)
                              /\ Document(r) = Sbom(Inspected(r), Declared(Inspected(r)))
          /\ Summing(r) => DeservesSums(r) /\ Document(r) = Summary(Listing(Before(r)), Before(r))
          /\ request[r].command # "inspect"
      BY <1>1, <3>1, CompleteDeserves
    <3>4. Inspected(r)' = Inspected(r)
      BY <1>1, <2>3, <3>1 DEF Inspected, RequestOK
    <3>5. Describing(r) => SbomExact(r)'
      <4>1. DeservesSbom(r)' <=> DeservesSbom(r)
        BY <1>1, <2>3, <3>1, <3>4, RequestStays DEF DeservesSbom, RequestOK
      <4> QED
        BY <2>1, <2>3, <3>1, <3>2, <3>3, <3>4, <4>1 DEF SbomExact, OutputOf, Describing
    <3>6. Summing(r) => ChecksumsExact(r)'
      <4> DEFINE listed == Listing(Before(r))
      <4>1. Sums \in Names /\ \A k \in DOMAIN listed : listed[k] \in Names
        BY TemporariesAreNames, ListingOfNames, LenProperties, ElementOfSeq
      <4> HIDE DEF listed
      <4>2. DeservesSums(r)' <=> DeservesSums(r)
        BY <3>1, <4>1 DEF DeservesSums, listed
      <4>3. Summing(r) => OutputOf(r) = Sums
        BY DEF Summing, OutputOf
      <4> QED
        BY <2>1, <3>1, <3>2, <3>3, <4>2, <4>3 DEF ChecksumsExact
    <3>7. Exact(r)'
      BY <1>1, <2>3, <3>3, <3>5, <3>6 DEF Exact, Describing, Summing, RequestOK
    <3> QED
      BY <1>3, <2>3, <3>1, <3>7
  <2>7. Steady(r)'
    BY <2>1, <2>6, Zenon DEF Steady, Outside
  <2>8. RunInv(r)'
    BY <2>5, <2>6, <2>7 DEF RunInv
  <2> QED
    BY <1>1, <2>3, <2>8, SharedStep
<1> QED
  BY <1>4, <1>5

\* A run that is broken off, or killed, leaves its temporary file at most.
LEMMA BreakHolds ==
  ASSUME IInv, NEW r \in Runs, Break(r)
  PROVE  IInv'
<1>1. /\ pc[r] # "begin" /\ pc[r] # "ended" /\ LocalOK /\ TypeOK /\ Step(r) /\ TemporaryName[r] \in Names
  BY TemporariesAreNames DEF Break, IInv, TypeOK, Step, Temporaries
<1>2. PICK e \in {"2", "interrupted", "killed"} :
        /\ Exit(r, e)
        /\ entry' = IF At(r, "replace") /\ e # "killed" THEN [entry EXCEPT ![TemporaryName[r]] = Absent] ELSE entry
  BY DEF Break
<1>3. /\ request' = request /\ alone' = {q \in alone : q # r /\ At(q, "begin")}
      /\ held' = [q \in Runs |-> IF At(q, "begin") THEN held[q] ELSE [n \in Names |-> held[q][n] \cup {entry'[n]}]]
  BY DEF Break
<1>4. /\ entry' = [n \in Names |-> entry'[n]] /\ alone' \subseteq alone /\ r \notin alone'
      /\ \A n \in Names : n # TemporaryName[r] => entry'[n] = entry[n]
  BY <1>1, <1>2, <1>3 DEF TypeOK
<1>5. \A q \in Runs : held'[q] = IF At(q, "begin") THEN held[q] ELSE [n \in Names |-> held[q][n] \cup {entry'[n]}]
  BY <1>3
<1>6. held' = [q \in Runs |-> [n \in Names |-> held'[q][n]]]
  <2>1. held = [q \in Runs |-> [n \in Names |-> held[q][n]]] /\ held' = [q \in Runs |-> held'[q]]
    BY <1>1, <1>3 DEF TypeOK
  <2>2. ASSUME NEW q \in Runs PROVE held'[q] = [n \in Names |-> held'[q][n]]
    <3>1. held[q] = [n \in Names |-> held[q][n]]
      BY <2>1
    <3> QED
      BY <1>5, <3>1
  <2> QED
    BY <2>1, <2>2
<1>7. RunInv(r)'
  <2>1. pc'[r] = "ended" /\ exit'[r] = e /\ e # "0"
    BY <1>1, <1>2 DEF Exit, LocalOK
  <2> QED
    BY <1>4, <2>1, Zenon DEF RunInv, Done, Steady, Outside
<1>8. ASSUME NEW q \in Runs \ {r} PROVE Remembers(q) /\ Spares(q)
  <2>1. \A n \in Names : held[q][n] \subseteq held'[q][n] /\ (~At(q, "begin") => entry'[n] \in held'[q][n])
    <3>1. CASE At(q, "begin")
      BY <1>5, <3>1
    <3>2. CASE ~At(q, "begin")
      <4>1. held'[q] = [n \in Names |-> held[q][n] \cup {entry'[n]}]
        BY <1>5, <3>2
      <4> QED
        BY <4>1
    <3> QED
      BY <3>1, <3>2
  <2>2. q \in alone' => q \in alone /\ At(q, "begin") /\ held'[q] = held[q]
    BY <1>3, <1>5
  <2>3. Remembers(q)
    BY <1>6, <2>1, <2>2 DEF Remembers
  <2>4. TemporaryName[q] \in Names /\ TemporaryName[q] # TemporaryName[r]
    BY TemporariesAreNames DEF Temporaries
  <2>5. pc[q] \notin {"replace", "ended"} => entry'[TemporaryName[q]] = Absent
    BY <1>4, <2>4 DEF IInv, RunInv, Steady
  <2> QED
    BY <2>1, <2>2, <2>3, <2>5 DEF Spares, Outside, At
<1> QED
  BY <1>1, <1>3, <1>4, <1>6, <1>7, <1>8, SharedStep

\* A file that another program brings is remembered.
LEMMA ChangeHolds ==
  ASSUME IInv, Change
  PROVE  IInv'
<1>1. PICK n \in Names \ Temporaries, f \in Brought :
        /\ entry' = [entry EXCEPT ![n] = f]
        /\ held' = [r \in Runs |-> IF At(r, "begin") THEN held[r] ELSE [held[r] EXCEPT ![n] = @ \cup {f}]]
  BY DEF Change
<1>2. /\ request' = request /\ alone' = {r \in alone : At(r, "begin")} /\ TypeOK /\ LocalOK
      /\ \A q \in Runs : Kept(q)
  BY DEF Change, inspection, results, Kept, IInv, TypeOK
<1>3. /\ entry' = [m \in Names |-> entry'[m]] /\ \A m \in Names : entry'[m] = IF m = n THEN f ELSE entry[m]
  BY <1>1, <1>2 DEF TypeOK
<1>4. \A q \in Runs : held'[q] = IF At(q, "begin") THEN held[q] ELSE [held[q] EXCEPT ![n] = @ \cup {f}]
  BY <1>1
<1>5. \A q \in Runs : held[q] = [m \in Names |-> held[q][m]]
  BY <1>2 DEF TypeOK
<1>6. ASSUME NEW q \in Runs
      PROVE  held'[q] = [m \in Names |-> IF At(q, "begin") \/ m # n THEN held[q][m] ELSE held[q][m] \cup {f}]
  <2>1. CASE At(q, "begin")
    BY <1>4, <1>5, <2>1
  <2>2. CASE ~At(q, "begin")
    <3>1. held'[q] = [held[q] EXCEPT ![n] = @ \cup {f}] /\ held[q] = [m \in Names |-> held[q][m]]
      BY <1>4, <1>5, <2>2
    <3>2. held'[q] = [m \in Names |-> IF m # n THEN held[q][m] ELSE held[q][m] \cup {f}]
      BY <3>1
    <3> QED
      BY <2>2, <3>2
  <2> QED
    BY <2>1, <2>2
<1>7. held' = [q \in Runs |-> [m \in Names |-> held'[q][m]]]
  <2>1. \A q \in Runs : held'[q] = [m \in Names |-> held'[q][m]]
    BY <1>6
  <2>2. held' = [q \in Runs |-> held'[q]]
    BY <1>1
  <2> QED
    BY <2>1, <2>2
<1>8. ASSUME NEW q \in Runs PROVE RunInv(q)'
  <2>1. RequestOK(q) /\ number[q] \in Nat /\ RunInv(q)
    BY <1>2 DEF IInv, TypeOK, LocalOK
  <2>2. \A m \in Names : held[q][m] \subseteq held'[q][m]
    <3>1. \A m \in Names : held'[q][m] = IF At(q, "begin") \/ m # n THEN held[q][m] ELSE held[q][m] \cup {f}
      BY <1>6
    <3> QED
      BY <3>1
  <2>3. q \in alone' => q \in alone /\ At(q, "begin") /\ held'[q] = held[q]
    BY <1>2, <1>4
  <2>4. Remembers(q)
    BY <1>7, <2>2, <2>3 DEF Remembers
  <2>5. entry'[TemporaryName[q]] = entry[TemporaryName[q]]
    BY <1>3, TemporariesAreNames DEF Temporaries
  <2>6. ASSUME ~Outside(q), NEW m \in Names PROVE entry'[m] \in held'[q][m]
    <3>1. ~At(q, "begin") /\ entry[m] \in held[q][m]
      BY <2>1, <2>6 DEF Outside, At, RunInv, Steady
    <3>2. held'[q][m] = IF m # n THEN held[q][m] ELSE held[q][m] \cup {f}
      BY <1>6, <3>1
    <3> QED
      BY <1>3, <3>1, <3>2
  <2>7. Spares(q)
    BY <2>1, <2>3, <2>5, <2>6 DEF Spares, At, RunInv, Steady
  <2> QED
    BY <1>2, <2>1, <2>4, <2>7, RunStays
<1>9. TypeOK'
  <2>1. LocalOK'
    BY <1>2 DEF Change, inspection, results, LocalOK
  <2> QED
    BY <1>2, <1>3, <1>7, <2>1, RequestStays DEF TypeOK
<1> QED
  BY <1>8, <1>9 DEF IInv

\* Nothing happens.
LEMMA StutterHolds ==
  ASSUME IInv, UNCHANGED vars
  PROVE  IInv'
<1>1. /\ entry' = entry /\ request' = request /\ held' = held /\ alone' = alone /\ pc' = pc /\ exit' = exit
      /\ archive' = archive /\ number' = number /\ total' = total
      /\ observed_files' = observed_files /\ observed_paths' = observed_paths
      /\ files' = files /\ digests' = digests /\ requirements' = requirements
  BY DEF vars, directory, inspection, results, history
<1>2. TypeOK'
  BY <1>1, RequestStays DEF IInv, TypeOK, LocalOK
<1>3. ASSUME NEW q \in Runs PROVE RunInv(q)'
  <2>1. RequestOK(q) /\ number[q] \in Nat /\ RunInv(q)
    BY DEF IInv, TypeOK, LocalOK
  <2>2. Kept(q) /\ Remembers(q)
    BY <1>1 DEF Kept, Remembers, IInv, TypeOK
  <2>3. Spares(q)
    BY <1>1, <2>1 DEF Spares, RunInv, Steady
  <2> QED
    BY <1>1, <2>1, <2>2, <2>3, RunStays
<1> QED
  BY <1>2, <1>3 DEF IInv

\* No run has begun.
LEMMA InitHolds ==
  ASSUME Init
  PROVE  IInv
<1>1. PICK s \in Situations : entry = s.entry /\ request = s.request
  BY DEF Init
<1>2. /\ entry = [n \in Names |-> entry[n]] /\ \A t \in Temporaries : entry[t] = Absent
      /\ \A r \in Runs : RequestOK(r)
  BY <1>1, SituationsAreStarts, Zenon DEF RequestOK, PolicyLines
<1>3. TypeOK
  BY <1>2 DEF Init, TypeOK, LocalOK
<1>4. ASSUME NEW r \in Runs PROVE RunInv(r)
  <2>1. pc[r] = "begin" /\ exit[r] = "running" /\ Fresh(r)
    BY DEF Init, Fresh
  <2>2. entry[TemporaryName[r]] = Absent
    BY <1>2 DEF Temporaries
  <2>3. Done(r)
    BY <2>1, Zenon DEF Done
  <2>4. Steady(r)
    BY <2>1, <2>2, Zenon DEF Steady, Outside
  <2> QED
    BY <2>1, <2>3, <2>4 DEF RunInv
<1> QED
  BY <1>3, <1>4 DEF IInv

\* Every step of a run keeps the invariant.
LEMMA StepHolds ==
  ASSUME IInv, NEW r \in Runs, Step(r)
  PROVE  IInv'
<1>1. CASE Start(r)
  BY <1>1, StartHolds
<1>2. CASE RequireArchive(r)
  BY <1>2, RequireArchiveHolds, PrivateStep DEF RequireArchive
<1>3. CASE CheckSize(r)
  BY <1>3, CheckSizeHolds, PrivateStep DEF CheckSize
<1>4. CASE OpenArchive(r)
  BY <1>4, OpenArchiveHolds, PrivateStep DEF OpenArchive
<1>5. CASE ReadMember(r)
  BY <1>5, ReadMemberHolds, PrivateStep DEF ReadMember
<1>6. CASE EndOfArchive(r)
  BY <1>6, EndOfArchiveHolds, PrivateStep DEF EndOfArchive
<1>7. CASE LoadPolicy(r)
  BY <1>7, LoadPolicyHolds, PrivateStep DEF LoadPolicy
<1>8. CASE JudgeMember(r)
  BY <1>8, JudgeMemberHolds, PrivateStep DEF JudgeMember
<1>9. CASE CompareWithPolicy(r)
  BY <1>9, CompareWithPolicyHolds, PrivateStep DEF CompareWithPolicy
<1>10. CASE DigestArchive(r)
  BY <1>10, DigestArchiveHolds, PrivateStep DEF DigestArchive
<1>11. CASE ValidateIdentity(r)
  BY <1>11, ValidateIdentityHolds, PrivateStep DEF ValidateIdentity
<1>12. CASE DescribeWheel(r)
  BY <1>12, DescribeWheelHolds, PrivateStep DEF DescribeWheel
<1>13. CASE ListDirectory(r)
  BY <1>13, ListDirectoryHolds, PrivateStep DEF ListDirectory
<1>14. CASE ExamineEntry(r)
  BY <1>14, ExamineEntryHolds, PrivateStep DEF ExamineEntry
<1>15. CASE EndOfListing(r)
  BY <1>15, EndOfListingHolds, PrivateStep DEF EndOfListing
<1>16. CASE HashFile(r)
  BY <1>16, HashFileHolds, PrivateStep DEF HashFile
<1>17. CASE EndOfFiles(r)
  BY <1>17, EndOfFilesHolds, PrivateStep DEF EndOfFiles
<1>18. CASE MakeTemporary(r)
  BY <1>18, MakeTemporaryHolds
<1>19. CASE Replace(r)
  BY <1>19, ReplaceHolds
<1>20. CASE Break(r)
  BY <1>20, BreakHolds
<1> QED
  BY <1>1, <1>2, <1>3, <1>4, <1>5, <1>6, <1>7, <1>8, <1>9, <1>10, <1>11, <1>12, <1>13, <1>14, <1>15, <1>16,
     <1>17, <1>18, <1>19, <1>20, Zenon DEF Step

\* Every step keeps the invariant.
LEMMA NextHolds ==
  ASSUME IInv, [Next]_vars
  PROVE  IInv'
<1>1. ASSUME NEW r \in Runs, Step(r) PROVE IInv'
  BY <1>1, StepHolds
<1> QED
  BY <1>1, ChangeHolds, StutterHolds, Zenon DEF Next

\* The invariant, at the end of a command, is what is promised of it.
LEMMA InvariantIsExact ==
  ASSUME IInv
  PROVE  ResultsExact
<1> SUFFICES ASSUME NEW r \in Runs, At(r, "ended") PROVE ToldWhatWas(r) /\ (r \in alone => Exact(r))
  BY DEF ResultsExact
<1>1. RequestOK(r) /\ (exit[r] = "0" => Complete(r)) /\ (r \in alone => Exact(r))
  BY Zenon DEF IInv, TypeOK, RunInv, Done, At
<1>2. ASSUME exit[r] = "0", Summing(r) PROVE \A k \in DOMAIN files[r] : digests[r][k] \in held[r][files[r][k]]
  <2>1. files[r] \in Seq(Names) /\ Hashed(r, Len(files[r]))
    BY <1>1, <1>2 DEF Complete, IsListed
  <2> QED
    BY <2>1, LenProperties DEF Hashed
<1>3. ASSUME exit[r] = "0", ~Summing(r)
      PROVE  /\ ToSet(digests[r]) \subseteq Were(r) /\ \E f \in Were(r) : Acceptable(r, f)
             /\ Describing(r) => \E f \in Were(r) : Identified(f) /\ requirements[r] = Declared(f)
  <2>1. request[r].command = "inspect" \/ Describing(r)
    BY <1>1, <1>3 DEF RequestOK, Describing, Summing
  <2>2. Accepted(r) /\ digests[r] \in Seq(Were(r)) /\ (Describing(r) => Identifies(r))
    <3>1. CASE request[r].command = "inspect"
      BY <1>1, <1>3, <3>1 DEF Complete, Digested, Describing
    <3>2. CASE Describing(r)
      BY <1>1, <1>3, <3>2, Zenon DEF Complete, Digested
    <3> QED
      BY <2>1, <3>1, <3>2
  <2>3. ToSet(digests[r]) \subseteq Were(r)
    BY <2>2, LenProperties, ElementOfSeq DEF ToSet
  <2> QED
    BY <2>2, <2>3, Zenon DEF Accepted, Identifies
<1>4. ToldWhatWas(r)
  BY <1>2, <1>3, Zenon DEF ToldWhatWas, Summing, Describing, Were
<1> QED
  BY <1>1, <1>4

(* A command that nothing disturbs succeeds exactly when the archive deserves it and  *)
(* its output can be written; what it then says is of that archive, or of all files   *)
(* of the directory, and otherwise nothing has changed.  One that is disturbed still  *)
(* tells of files that were there while it ran (release_artifacts.py).                *)
THEOREM ResultsAreExact == Spec => []ResultsExact
<1>1. Init => IInv
  BY InitHolds
<1>2. IInv /\ [Next]_vars => IInv'
  BY NextHolds
<1>3. IInv => ResultsExact
  BY InvariantIsExact
<1> QED
  BY <1>1, <1>2, <1>3, PTL DEF Spec

-----------------------------------------------------------------------------
(* The source snapshot. *)

Records == [name : STRING, kind : STRING, blob : STRING, size : Nat]
Manifests == [revision : Revisions, files : SUBSET [name : STRING, blob : STRING, size : Nat]]

Reading == {"head", "status", "flags", "ls-tree", "entry"}
Checking == {"status again", "flags again", "head again"}
Places == Reading \cup Checking \cup Steps \cup {"ended"}

(* The type invariant. *)
SnapshotTypeOK ==
  /\ call \in [Writers -> Places]
  /\ outcome \in [Writers -> {"none", "error", "interrupt", "written", "killed"}]
  /\ text \in [Writers -> {Nothing} \cup Manifests]
  /\ temp \in [Writers -> {NoFile, "empty", "partial", Nothing} \cup Manifests]
  /\ revision \in [Writers -> Revisions \cup {Unborn}]
  /\ entries \in [Writers -> Seq(Records)]
  /\ head \in Revisions \cup {Unborn}
  /\ hidden \in BOOLEAN /\ there \in BOOLEAN
  /\ quiet \subseteq Writers

(* The manifest of a commit whose files are all ordinary. *)
Whole(m) ==
  /\ m \in [revision : Revisions, files : {FilesOf(r) : r \in Revisions}]
  /\ m.files = FilesOf(m.revision)
  /\ \A e \in ToSet(Tree[m.revision]) : Ordinary(e)

(* What a writer has read is the beginning of the tree it reads, and all of it once *)
(* the loop is over.                                                                *)
ReadSoFar(w) ==
  /\ call[w] = "head" => entries[w] = <<>>
  /\ call[w] \notin {"head", "ended"} =>
       /\ revision[w] \in Revisions
       /\ Len(entries[w]) <= Len(Tree[revision[w]])
       /\ \A i \in 1 .. Len(entries[w]) :
            entries[w][i] = Tree[revision[w]][i] /\ Ordinary(entries[w][i])
  /\ call[w] \in Checking \cup Steps => Len(entries[w]) = Len(Tree[revision[w]])

TextWhole(w) == call[w] \in Steps => Whole(text[w])

(* There is no temporary file before mkstemp, and none is renamed but a whole one. *)
TempWhole(w) ==
  /\ call[w] \in Reading \cup Checking \cup Writing => temp[w] = NoFile
  /\ call[w] = "replace" => temp[w] = NoFile \/ Whole(temp[w])

OutputWhole == output \in Elsewhere \/ Whole(output)

(* What the checks found is still so if the repository has been let alone since. *)
QuietSince(w) ==
  w \in quiet =>
    /\ call[w] \in {"flags again", "head again"} \cup Steps => Clean
    /\ call[w] \in {"head again"} \cup Steps => ~hidden
    /\ call[w] \in Steps => head = revision[w]

SnapshotInv ==
  /\ SnapshotTypeOK /\ OutputWhole
  /\ \A w \in Writers : ReadSoFar(w) /\ TextWhole(w) /\ TempWhole(w) /\ QuietSince(w)

-----------------------------------------------------------------------------
(* All entries of a tree read, all of them ordinary: the manifest is the commit's. *)
LEMMA ManifestWhole ==
  ASSUME NEW w \in Writers, revision[w] \in Revisions, entries[w] \in Seq(Records),
         Len(entries[w]) = Len(Tree[revision[w]]),
         \A i \in 1 .. Len(entries[w]) :
           entries[w][i] = Tree[revision[w]][i] /\ Ordinary(entries[w][i])
  PROVE  Whole(Manifest(w)) /\ Manifest(w) \in Manifests
<1> DEFINE r == revision[w]
<1>1. Tree[r] \in Seq(Records)
  BY TreesAreListed DEF Records
<1>2. entries[w] = Tree[r]
  BY <1>1, SeqEqual
<1>3. \A e \in ToSet(Tree[r]) : Ordinary(e) /\ e \in Records
  BY <1>1, <1>2 DEF ToSet
<1>4. Manifest(w) = [revision |-> r, files |-> FilesOf(r)]
  BY <1>2 DEF Manifest, FilesOf
<1>5. FilesOf(r) \in SUBSET [name : STRING, blob : STRING, size : Nat]
  BY <1>3 DEF FilesOf, Records
<1>6. Manifest(w).revision = r /\ Manifest(w).files = FilesOf(r)
  BY <1>4
<1>7. FilesOf(r) \in {FilesOf(q) : q \in Revisions}
  OBVIOUS
<1>8. Manifest(w) \in [revision : Revisions, files : {FilesOf(q) : q \in Revisions}]
  BY <1>4, <1>7
<1>9. Manifest(w) \in Manifests
  BY <1>4, <1>5 DEF Manifests
<1> QED
  BY <1>3, <1>6, <1>8, <1>9 DEF Whole

LEMMA InitSnapshot == SnapshotInit => SnapshotInv
<1> SUFFICES ASSUME SnapshotInit PROVE SnapshotInv
  OBVIOUS
<1> USE DEF SnapshotInit, WriteInit
<1>1. SnapshotTypeOK
  <2>1. entries \in [Writers -> Seq(Records)]
    OBVIOUS
  <2>2. outcome \in [Writers -> {"none", "error", "interrupt", "written", "killed"}]
    OBVIOUS
  <2> QED
    BY <2>1, <2>2 DEF SnapshotTypeOK, Places, Reading
<1>2. OutputWhole
  BY DEF OutputWhole
<1>3. ASSUME NEW w \in Writers
      PROVE  ReadSoFar(w) /\ TextWhole(w) /\ TempWhole(w) /\ QuietSince(w)
  BY <1>3 DEF ReadSoFar, TextWhole, TempWhole, QuietSince, Checking, Steps, Writing, InTry
<1> QED
  BY <1>1, <1>2, <1>3 DEF SnapshotInv

(* A step of one writer has to be looked at for that writer only. *)
LEMMA StepKeeps ==
  ASSUME SnapshotInv, NEW v \in Writers, UNCHANGED repository,
         \A w \in Writers \ {v} :
           /\ call'[w] = call[w] /\ text'[w] = text[w] /\ temp'[w] = temp[w]
           /\ revision'[w] = revision[w] /\ entries'[w] = entries[w]
           /\ w \in quiet' => w \in quiet,
         SnapshotTypeOK', OutputWhole',
         ReadSoFar(v)', TextWhole(v)', TempWhole(v)', QuietSince(v)'
  PROVE  SnapshotInv'
<1> SUFFICES ASSUME NEW w \in Writers \ {v}
             PROVE  ReadSoFar(w)' /\ TextWhole(w)' /\ TempWhole(w)' /\ QuietSince(w)'
  BY DEF SnapshotInv
<1>1. ReadSoFar(w) /\ TextWhole(w) /\ TempWhole(w) /\ QuietSince(w)
  BY DEF SnapshotInv
<1>2. ReadSoFar(w)'
  BY <1>1 DEF ReadSoFar
<1>3. TextWhole(w)'
  BY <1>1 DEF TextWhole, Whole
<1>4. TempWhole(w)'
  BY <1>1 DEF TempWhole, Whole
<1>5. QuietSince(w)'
  BY <1>1 DEF QuietSince, Clean, Committed, repository
<1> QED
  BY <1>2, <1>3, <1>4, <1>5

(* An exception keeps the invariant, wherever it is raised. *)
LEMMA RaiseKeeps ==
  ASSUME SnapshotInv, NEW v \in Writers, NEW e \in {"error", "interrupt"}, call[v] # "ended",
         Raise(v, e), UNCHANGED <<names, repository, entries>>,
         \/ UNCHANGED <<revision, quiet>>
         \/ /\ call[v] \in Reading \cup {"status again"}
            /\ quiet' = quiet \cup {v} /\ revision' = revision
         \/ call[v] = "head" /\ quiet' = quiet /\ revision' = [revision EXCEPT ![v] = Unborn]
  PROVE  SnapshotInv'
<1>1. SnapshotTypeOK /\ call[v] \in Places /\ ReadSoFar(v) /\ TextWhole(v) /\ TempWhole(v) /\ QuietSince(v)
  BY DEF SnapshotInv, SnapshotTypeOK
<1>2. SnapshotTypeOK'
  BY <1>1 DEF SnapshotTypeOK, Places, Steps, Raise, InTry, names, repository
<1>3. OutputWhole'
  BY DEF SnapshotInv, OutputWhole, Whole, names
<1>4. call'[v] = IF call[v] \in InTry THEN "cleanup" ELSE "ended"
  BY <1>1 DEF Raise, SnapshotTypeOK
<1>5. \A w \in Writers \ {v} :
        /\ call'[w] = call[w] /\ text'[w] = text[w] /\ temp'[w] = temp[w]
        /\ revision'[w] = revision[w] /\ entries'[w] = entries[w]
        /\ w \in quiet' => w \in quiet
  BY <1>1 DEF Raise, SnapshotTypeOK, names
<1>6. CASE call[v] \in InTry
  <2>1. UNCHANGED <<revision, quiet>>
    BY <1>6 DEF InTry, Reading
  <2>2. ReadSoFar(v)'
    BY <1>1, <1>4, <1>6, <2>1 DEF ReadSoFar, Steps, InTry, Checking, Ordinary
  <2>3. TextWhole(v)'
    BY <1>1, <1>4, <1>6 DEF TextWhole, Whole, Steps, Raise
  <2>4. TempWhole(v)'
    BY <1>4, <1>6 DEF TempWhole, Reading, Checking, Writing
  <2>5. QuietSince(v)'
    BY <1>1, <1>4, <1>6, <2>1 DEF QuietSince, Clean, Committed, repository, Steps
  <2> QED
    BY <1>2, <1>3, <1>5, <2>2, <2>3, <2>4, <2>5, StepKeeps
<1>7. CASE call[v] \notin InTry
  <2>1. call'[v] = "ended"
    BY <1>4, <1>7
  <2>2. ReadSoFar(v)' /\ TextWhole(v)' /\ TempWhole(v)' /\ QuietSince(v)'
    BY <2>1 DEF ReadSoFar, TextWhole, TempWhole, QuietSince, Reading, Checking, Steps, Writing,
       InTry
  <2> QED
    BY <1>2, <1>3, <1>5, <2>1, <2>2, StepKeeps
<1> QED
  BY <1>6, <1>7

(* The steps that only move on. *)
Moves(p, q) ==
  \/ p = "flags" /\ q = "ls-tree"
  \/ p = "ls-tree" /\ q = "entry"
  \/ p = "entry" /\ q = "status again"
  \/ p = "flags again" /\ q = "head again"
  \/ p = "parent" /\ q = "symlink"
  \/ p = "symlink" /\ q = "kind"
  \/ p = "kind" /\ q = "mkstemp"
  \/ p = "made" /\ q = "chmod"
  \/ p = "chmod" /\ q = "fill"

LEMMA MoveKeeps ==
  ASSUME SnapshotInv, NEW v \in Writers, NEW next, Moves(call[v], next),
         call' = [call EXCEPT ![v] = next],
         UNCHANGED <<outcome, text, names, repository, revision, entries, quiet>>,
         next = "status again" => Len(entries[v]) = Len(Tree[revision[v]]),
         next = "head again" => ~hidden
  PROVE  SnapshotInv'
<1>1. SnapshotTypeOK /\ ReadSoFar(v) /\ TextWhole(v) /\ TempWhole(v) /\ QuietSince(v)
  BY DEF SnapshotInv
<1>2. call'[v] = next
  BY <1>1 DEF SnapshotTypeOK
<1>3. SnapshotTypeOK'
  BY <1>1 DEF SnapshotTypeOK, Moves, Places, Reading, Checking, Steps, Writing, InTry, names, repository
<1>4. OutputWhole'
  BY DEF SnapshotInv, OutputWhole, Whole, names
<1>5. ReadSoFar(v)'
  BY <1>1, <1>2 DEF ReadSoFar, Moves, Checking, Steps, Writing, InTry
<1>6. TextWhole(v)'
  BY <1>1, <1>2 DEF TextWhole, Whole, Moves, Steps, Writing, InTry
<1>7. TempWhole(v)'
  BY <1>1, <1>2 DEF TempWhole, Whole, Moves, Reading, Checking, Writing, names
<1>8. QuietSince(v)'
  <2>1. Clean' = Clean /\ hidden' = hidden /\ head' = head
    BY DEF Clean, Committed, repository
  <2> QED
    BY <1>1, <1>2, <2>1 DEF QuietSince, Moves, Steps, Writing, InTry
<1> QED
  BY <1>1, <1>3, <1>4, <1>5, <1>6, <1>7, <1>8, StepKeeps DEF SnapshotTypeOK, names


(* A step of the snapshot keeps the invariant. *)
LEMMA SnapshotKeeps ==
  ASSUME SnapshotInv, NEW v \in Writers, SnapshotStep(v)
  PROVE  SnapshotInv'
<1>0. SnapshotTypeOK /\ OutputWhole /\ ReadSoFar(v) /\ TextWhole(v) /\ TempWhole(v) /\ QuietSince(v)
  BY DEF SnapshotInv
<1>d. /\ DOMAIN call = Writers /\ DOMAIN text = Writers /\ DOMAIN temp = Writers
     /\ DOMAIN revision = Writers /\ DOMAIN entries = Writers
  BY <1>0 DEF SnapshotTypeOK
<1>1. CASE ReadHead(v)
  <2>1. call[v] = "head"
    BY <1>1 DEF AtCall, ReadHead
  <2>2. CASE /\ call' = [call EXCEPT ![v] = "status"]
             /\ head \in Revisions
             /\ revision' = [revision EXCEPT ![v] = head]
             /\ UNCHANGED <<outcome, text, names, repository, entries, quiet>>
    <3>1. SnapshotTypeOK'
      BY <1>0, <1>d, <2>1, <2>2 DEF SnapshotTypeOK, Places, Reading, Checking, Steps, Writing, InTry,
         names, repository
    <3>2. OutputWhole'
      BY <1>0, <1>d, <2>1, <2>2 DEF OutputWhole, Whole, TempWhole, names
    <3>3. \A w \in Writers \ {v} :
            /\ call'[w] = call[w] /\ text'[w] = text[w] /\ temp'[w] = temp[w]
            /\ revision'[w] = revision[w] /\ entries'[w] = entries[w]
            /\ w \in quiet' => w \in quiet
      BY <1>0, <2>2 DEF SnapshotTypeOK, names
    <3>4. call'[v] = "status"
      BY <1>0, <2>1, <2>2 DEF SnapshotTypeOK
    <3>9. revision'[v] \in Revisions /\ entries'[v] = <<>> /\ Tree[revision'[v]] \in Seq(Records)
      BY <1>0, <2>1, <2>2, TreesAreListed DEF SnapshotTypeOK, ReadSoFar, Records
    <3>10. Len(entries'[v]) = 0 /\ Len(Tree[revision'[v]]) \in Nat /\ 1 .. Len(entries'[v]) = {}
      BY <3>9, LenProperties, EmptySeq
    <3>5. ReadSoFar(v)'
      BY <3>4, <3>9, <3>10 DEF ReadSoFar, Reading, Checking, Steps, Writing, InTry
    <3>6. TextWhole(v)'
      BY <1>0, <1>d, <2>1, <2>2, <3>4 DEF TextWhole, Whole, Reading, Checking, Steps, Writing, InTry
    <3>7. TempWhole(v)'
      BY <1>0, <1>d, <2>1, <2>2, <3>4 DEF TempWhole, TextWhole, Whole, Reading, Checking, Steps,
         Writing, InTry, names
    <3>12. Clean' = Clean /\ hidden' = hidden /\ head' = head
      BY <2>2 DEF Clean, Committed, repository
    <3>8. QuietSince(v)'
      BY <1>0, <1>d, <2>1, <2>2, <3>4, <3>12 DEF QuietSince, Reading, Checking, Steps, Writing,
         InTry
    <3> QED
      BY <2>2, <3>1, <3>2, <3>3, <3>5, <3>6, <3>7, <3>8, StepKeeps
  <2>3. CASE /\ Raise(v, "error") /\ revision' = [revision EXCEPT ![v] = Unborn]
             /\ UNCHANGED <<names, repository, entries, quiet>>
    BY <2>1, <2>3, RaiseKeeps DEF Reading
  <2> QED
    BY <1>0, <1>1, <2>2, <2>3 DEF AtCall, ReadHead, GoOn, TreeListing, names, SnapshotTypeOK
<1>2. CASE CheckStatus(v, "status", "flags")
  <2>1. call[v] = "status"
    BY <1>2 DEF AtCall, CheckStatus
  <2>2. CASE /\ call' = [call EXCEPT ![v] = "flags"]
             /\ Clean
             /\ quiet' = quiet \cup {v}
             /\ UNCHANGED <<outcome, text, names, repository, revision, entries>>
    <3>1. SnapshotTypeOK'
      BY <1>0, <1>d, <2>1, <2>2 DEF SnapshotTypeOK, Places, Reading, Checking, Steps, Writing, InTry,
         names, repository
    <3>2. OutputWhole'
      BY <1>0, <1>d, <2>1, <2>2 DEF OutputWhole, Whole, TempWhole, names
    <3>3. \A w \in Writers \ {v} :
            /\ call'[w] = call[w] /\ text'[w] = text[w] /\ temp'[w] = temp[w]
            /\ revision'[w] = revision[w] /\ entries'[w] = entries[w]
            /\ w \in quiet' => w \in quiet
      BY <1>0, <2>2 DEF SnapshotTypeOK, names
    <3>4. call'[v] = "flags"
      BY <1>0, <2>1, <2>2 DEF SnapshotTypeOK
    <3>9. revision'[v] = revision[v] /\ entries'[v] = entries[v]
      BY <2>2
    <3>5. ReadSoFar(v)'
      BY <1>0, <1>d, <2>1, <2>2, <3>4, <3>9 DEF ReadSoFar, Reading, Checking, Steps, Writing, InTry
    <3>6. TextWhole(v)'
      BY <1>0, <1>d, <2>1, <2>2, <3>4 DEF TextWhole, Whole, Reading, Checking, Steps, Writing, InTry
    <3>7. TempWhole(v)'
      BY <1>0, <1>d, <2>1, <2>2, <3>4 DEF TempWhole, TextWhole, Whole, Reading, Checking, Steps,
         Writing, InTry, names
    <3>12. Clean' = Clean /\ hidden' = hidden /\ head' = head
      BY <2>2 DEF Clean, Committed, repository
    <3>13. revision'[v] = revision[v]
      BY <2>2
    <3>8. QuietSince(v)'
      BY <1>0, <1>d, <2>1, <2>2, <3>4, <3>12, <3>13 DEF QuietSince, Reading, Checking, Steps,
         Writing, InTry
    <3> QED
      BY <2>2, <3>1, <3>2, <3>3, <3>5, <3>6, <3>7, <3>8, StepKeeps
  <2>3. CASE /\ Raise(v, "error") /\ quiet' = quiet \cup {v}
             /\ UNCHANGED <<names, repository, revision, entries>>
    BY <2>1, <2>3, RaiseKeeps DEF Reading
  <2> QED
    BY <1>0, <1>2, <2>2, <2>3 DEF AtCall, CheckStatus, GoOn, TreeListing, names, SnapshotTypeOK
<1>3. CASE CheckFlags(v, "flags", "ls-tree")
  <2>1. call[v] = "flags"
    BY <1>3 DEF AtCall, CheckFlags
  <2>2. CASE /\ call' = [call EXCEPT ![v] = "ls-tree"]
             /\ ~hidden
             /\ UNCHANGED <<outcome, text, names, repository, revision, entries, quiet>>
    BY <2>1, <2>2, MoveKeeps DEF Moves
  <2>3. CASE Raise(v, "error") /\ UNCHANGED <<names, repository, revision, entries, quiet>>
    BY <2>1, <2>3, RaiseKeeps DEF Reading
  <2> QED
    BY <1>0, <1>3, <2>2, <2>3 DEF AtCall, CheckFlags, GoOn, TreeListing, names, SnapshotTypeOK
<1>4. CASE ListTree(v)
  <2>1. call[v] = "ls-tree"
    BY <1>4 DEF AtCall, ListTree
  <2>2. CASE /\ call' = [call EXCEPT ![v] = "entry"]
             /\ UNCHANGED <<outcome, text, names, repository, revision, entries, quiet>>
    BY <2>1, <2>2, MoveKeeps DEF Moves
  <2>3. CASE Raise(v, "error") /\ UNCHANGED <<names, repository, revision, entries, quiet>>
    BY <2>1, <2>3, RaiseKeeps DEF Reading
  <2> QED
    BY <1>0, <1>4, <2>2, <2>3 DEF AtCall, ListTree, GoOn, TreeListing, names, SnapshotTypeOK
<1>5. CASE ReadEntry(v)
  <2>1. call[v] = "entry"
    BY <1>5 DEF AtCall, ReadEntry
  <2>2. CASE /\ call' = call
             /\ Len(entries[v]) < Len(Tree[revision[v]])
             /\ Ordinary(Tree[revision[v]][Len(entries[v]) + 1])
             /\ entries' =
                  [entries EXCEPT ![v] = Append(@, Tree[revision[v]][Len(@) + 1])]
             /\ UNCHANGED <<outcome, text, names, repository, revision, quiet>>
    <3>0. /\ revision[v] \in Revisions /\ entries[v] \in Seq(Records)
          /\ Tree[revision[v]] \in Seq(Records)
      BY <1>0, <2>1, TreesAreListed DEF ReadSoFar, SnapshotTypeOK, Records
    <3>1. SnapshotTypeOK'
      <4>1. Tree[revision[v]][Len(entries[v]) + 1] \in Records
        BY <2>2, <3>0, ElementOfSeq, LenProperties
      <4>2. entries' \in [Writers -> Seq(Records)]
        BY <1>0, <2>2, <3>0, <4>1 DEF SnapshotTypeOK
      <4> QED
        BY <1>0, <2>2, <4>2 DEF SnapshotTypeOK, names, repository
    <3>2. OutputWhole'
      BY <1>0, <1>d, <2>1, <2>2 DEF OutputWhole, Whole, TempWhole, names
    <3>3. \A w \in Writers \ {v} :
            /\ call'[w] = call[w] /\ text'[w] = text[w] /\ temp'[w] = temp[w]
            /\ revision'[w] = revision[w] /\ entries'[w] = entries[w]
            /\ w \in quiet' => w \in quiet
      BY <1>0, <2>2 DEF SnapshotTypeOK, names
    <3>4. call'[v] = "entry"
      BY <1>0, <2>1, <2>2 DEF SnapshotTypeOK
    <3>9. /\ entries'[v] = Append(entries[v], Tree[revision[v]][Len(entries[v]) + 1])
          /\ revision'[v] = revision[v]
      BY <1>0, <2>2 DEF SnapshotTypeOK
    <3>10. /\ Len(entries'[v]) = Len(entries[v]) + 1 
           /\ Len(entries[v]) \in Nat /\ Len(Tree[revision[v]]) \in Nat
           /\ entries'[v][Len(entries[v]) + 1] = Tree[revision[v]][Len(entries[v]) + 1]
           /\ \A i \in 1 .. Len(entries[v]) : entries'[v][i] = entries[v][i]
      BY <2>2, <3>0, <3>9, ElementOfSeq
    <3>11. \A i \in 1 .. Len(entries'[v]) :
             entries'[v][i] = Tree[revision'[v]][i] /\ Ordinary(entries'[v][i])
      <4> SUFFICES ASSUME NEW i \in 1 .. Len(entries[v]) + 1
                   PROVE  entries'[v][i] = Tree[revision[v]][i] /\ Ordinary(entries'[v][i])
        BY <3>9, <3>10
      <4>1. CASE i \in 1 .. Len(entries[v])
        BY <1>0, <2>1, <3>10, <4>1 DEF ReadSoFar
      <4>2. CASE i = Len(entries[v]) + 1
        BY <2>2, <3>10, <4>2
      <4> QED
        BY <3>10, <4>1, <4>2
    <3>5. ReadSoFar(v)'
      BY <2>2, <3>0, <3>4, <3>9, <3>10, <3>11 DEF ReadSoFar, Reading, Checking, Steps, Writing,
         InTry
    <3>6. TextWhole(v)'
      BY <1>0, <1>d, <2>1, <2>2, <3>4 DEF TextWhole, Whole, Reading, Checking, Steps, Writing, InTry
    <3>7. TempWhole(v)'
      BY <1>0, <1>d, <2>1, <2>2, <3>4 DEF TempWhole, TextWhole, Whole, Reading, Checking, Steps,
         Writing, InTry, names
    <3>12. Clean' = Clean /\ hidden' = hidden /\ head' = head
      BY <2>2 DEF Clean, Committed, repository
    <3>13. revision'[v] = revision[v]
      BY <2>2
    <3>8. QuietSince(v)'
      BY <1>0, <1>d, <2>1, <2>2, <3>4, <3>12, <3>13 DEF QuietSince, Reading, Checking, Steps,
         Writing, InTry
    <3> QED
      BY <2>2, <3>1, <3>2, <3>3, <3>5, <3>6, <3>7, <3>8, StepKeeps
  <2>3. CASE Raise(v, "error") /\ UNCHANGED <<names, repository, revision, entries, quiet>>
    BY <2>1, <2>3, RaiseKeeps DEF Reading
  <2> QED
    BY <1>0, <1>5, <2>2, <2>3 DEF AtCall, ReadEntry, GoOn, TreeListing, names, SnapshotTypeOK
<1>6. CASE EntriesRead(v)
  <2>1. call[v] = "entry"
    BY <1>6 DEF AtCall, EntriesRead
  <2>2. CASE /\ call' = [call EXCEPT ![v] = "status again"]
             /\ Len(entries[v]) = Len(Tree[revision[v]])
             /\ UNCHANGED <<outcome, text, names, repository, revision, entries, quiet>>
    BY <2>1, <2>2, MoveKeeps DEF Moves
  <2> QED
    BY <1>0, <1>6, <2>2 DEF AtCall, EntriesRead, GoOn, TreeListing, names, SnapshotTypeOK
<1>7. CASE RecheckStatus(v)
  <2>1. call[v] = "status again"
    BY <1>7 DEF AtCall, RecheckStatus, CheckStatus
  <2>2. CASE /\ call' = [call EXCEPT ![v] = "flags again"]
             /\ Clean
             /\ quiet' = quiet \cup {v}
             /\ UNCHANGED <<outcome, text, names, repository, revision, entries>>
    <3>1. SnapshotTypeOK'
      BY <1>0, <1>d, <2>1, <2>2 DEF SnapshotTypeOK, Places, Reading, Checking, Steps, Writing, InTry,
         names, repository
    <3>2. OutputWhole'
      BY <1>0, <1>d, <2>1, <2>2 DEF OutputWhole, Whole, TempWhole, names
    <3>3. \A w \in Writers \ {v} :
            /\ call'[w] = call[w] /\ text'[w] = text[w] /\ temp'[w] = temp[w]
            /\ revision'[w] = revision[w] /\ entries'[w] = entries[w]
            /\ w \in quiet' => w \in quiet
      BY <1>0, <2>2 DEF SnapshotTypeOK, names
    <3>4. call'[v] = "flags again"
      BY <1>0, <2>1, <2>2 DEF SnapshotTypeOK
    <3>9. revision'[v] = revision[v] /\ entries'[v] = entries[v]
      BY <2>2
    <3>5. ReadSoFar(v)'
      BY <1>0, <1>d, <2>1, <2>2, <3>4, <3>9 DEF ReadSoFar, Reading, Checking, Steps, Writing, InTry
    <3>6. TextWhole(v)'
      BY <1>0, <1>d, <2>1, <2>2, <3>4 DEF TextWhole, Whole, Reading, Checking, Steps, Writing, InTry
    <3>7. TempWhole(v)'
      BY <1>0, <1>d, <2>1, <2>2, <3>4 DEF TempWhole, TextWhole, Whole, Reading, Checking, Steps,
         Writing, InTry, names
    <3>12. Clean' = Clean /\ hidden' = hidden /\ head' = head
      BY <2>2 DEF Clean, Committed, repository
    <3>13. revision'[v] = revision[v]
      BY <2>2
    <3>8. QuietSince(v)'
      BY <1>0, <1>d, <2>1, <2>2, <3>4, <3>12, <3>13 DEF QuietSince, Reading, Checking, Steps,
         Writing, InTry
    <3> QED
      BY <2>2, <3>1, <3>2, <3>3, <3>5, <3>6, <3>7, <3>8, StepKeeps
  <2>3. CASE /\ Raise(v, "error") /\ quiet' = quiet \cup {v}
             /\ UNCHANGED <<names, repository, revision, entries>>
    BY <2>1, <2>3, RaiseKeeps DEF Reading
  <2> QED
    BY <1>0, <1>7, <2>2, <2>3 DEF AtCall, RecheckStatus, CheckStatus, GoOn, TreeListing, names, SnapshotTypeOK
<1>8. CASE CheckFlags(v, "flags again", "head again")
  <2>1. call[v] = "flags again"
    BY <1>8 DEF AtCall, CheckFlags
  <2>2. CASE /\ call' = [call EXCEPT ![v] = "head again"]
             /\ ~hidden
             /\ UNCHANGED <<outcome, text, names, repository, revision, entries, quiet>>
    BY <2>1, <2>2, MoveKeeps DEF Moves
  <2>3. CASE Raise(v, "error") /\ UNCHANGED <<names, repository, revision, entries, quiet>>
    BY <2>1, <2>3, RaiseKeeps DEF Reading
  <2> QED
    BY <1>0, <1>8, <2>2, <2>3 DEF AtCall, CheckFlags, GoOn, TreeListing, names, SnapshotTypeOK
<1>9. CASE RecheckHead(v)
  <2>1. call[v] = "head again"
    BY <1>9 DEF AtCall, RecheckHead
  <2>2. CASE /\ call' = [call EXCEPT ![v] = "parent"]
             /\ head = revision[v]
             /\ text' = [text EXCEPT ![v] = Manifest(v)]
             /\ UNCHANGED <<outcome, names, repository, revision, entries, quiet>>
    <3>0. Whole(Manifest(v)) /\ Manifest(v) \in Manifests
      BY <1>0, <2>1, ManifestWhole DEF ReadSoFar, Checking, SnapshotTypeOK
    <3>1. SnapshotTypeOK'
      BY <1>0, <1>d, <2>1, <2>2, <3>0 DEF SnapshotTypeOK, Places, Reading, Checking, Steps, Writing,
         InTry, names, repository
    <3>2. OutputWhole'
      BY <1>0, <1>d, <2>1, <2>2 DEF OutputWhole, Whole, TempWhole, names
    <3>3. \A w \in Writers \ {v} :
            /\ call'[w] = call[w] /\ text'[w] = text[w] /\ temp'[w] = temp[w]
            /\ revision'[w] = revision[w] /\ entries'[w] = entries[w]
            /\ w \in quiet' => w \in quiet
      BY <1>0, <2>2 DEF SnapshotTypeOK, names
    <3>4. call'[v] = "parent"
      BY <1>0, <2>1, <2>2 DEF SnapshotTypeOK
    <3>9. revision'[v] = revision[v] /\ entries'[v] = entries[v]
      BY <2>2
    <3>5. ReadSoFar(v)'
      BY <1>0, <1>d, <2>1, <2>2, <3>4, <3>9 DEF ReadSoFar, Reading, Checking, Steps, Writing, InTry
    <3>6. TextWhole(v)'
      BY <1>0, <1>d, <2>1, <2>2, <3>0, <3>4 DEF TextWhole, Whole, Reading, Checking, Steps,
         Writing, InTry
    <3>7. TempWhole(v)'
      BY <1>0, <1>d, <2>1, <2>2, <3>4 DEF TempWhole, TextWhole, Whole, Reading, Checking, Steps,
         Writing, InTry, names
    <3>12. Clean' = Clean /\ hidden' = hidden /\ head' = head
      BY <2>2 DEF Clean, Committed, repository
    <3>13. revision'[v] = revision[v]
      BY <2>2
    <3>8. QuietSince(v)'
      BY <1>0, <1>d, <2>1, <2>2, <3>4, <3>12, <3>13 DEF QuietSince, Reading, Checking, Steps,
         Writing, InTry
    <3> QED
      BY <2>2, <3>1, <3>2, <3>3, <3>5, <3>6, <3>7, <3>8, StepKeeps
  <2>3. CASE Raise(v, "error") /\ UNCHANGED <<names, repository, revision, entries, quiet>>
    BY <2>1, <2>3, RaiseKeeps DEF Reading
  <2> QED
    BY <1>0, <1>9, <2>2, <2>3 DEF AtCall, RecheckHead, GoOn, TreeListing, names, SnapshotTypeOK
<1> QED
  BY <1>1, <1>2, <1>3, <1>4, <1>5, <1>6, <1>7, <1>8, <1>9 DEF SnapshotStep

(* A step of the atomic write keeps the invariant. *)
LEMMA WriteKeeps ==
  ASSUME SnapshotInv, NEW v \in Writers, WriteStep(v),
         UNCHANGED <<repository, revision, entries, quiet>>
  PROVE  SnapshotInv'
<1>0. SnapshotTypeOK /\ OutputWhole /\ ReadSoFar(v) /\ TextWhole(v) /\ TempWhole(v) /\ QuietSince(v)
  BY DEF SnapshotInv
<1>d. /\ DOMAIN call = Writers /\ DOMAIN text = Writers /\ DOMAIN temp = Writers
     /\ DOMAIN revision = Writers /\ DOMAIN entries = Writers
  BY <1>0 DEF SnapshotTypeOK
<1>e. UNCHANGED <<repository, revision, entries, quiet>>
  OBVIOUS
<1>1. CASE RequireParent(v)
  <2>1. call[v] = "parent"
    BY <1>1 DEF AtCall, RequireParent
  <2>2. CASE /\ call' = [call EXCEPT ![v] = "symlink"]
             /\ UNCHANGED <<outcome, text, names, repository, revision, entries, quiet>>
    BY <2>1, <2>2, MoveKeeps DEF Moves
  <2>3. CASE Raise(v, "error") /\ UNCHANGED <<names, repository, revision, entries, quiet>>
    BY <2>1, <2>3, RaiseKeeps DEF Reading
  <2> QED
    BY <1>0, <1>1, <1>e, <2>2, <2>3 DEF AtCall, RequireParent, GoOn, TreeListing, names, repository, SnapshotTypeOK
<1>2. CASE RefuseSymlink(v)
  <2>1. call[v] = "symlink"
    BY <1>2 DEF AtCall, RefuseSymlink
  <2>2. CASE /\ call' = [call EXCEPT ![v] = "kind"]
             /\ UNCHANGED <<outcome, text, names, repository, revision, entries, quiet>>
    BY <2>1, <2>2, MoveKeeps DEF Moves
  <2>3. CASE Raise(v, "error") /\ UNCHANGED <<names, repository, revision, entries, quiet>>
    BY <2>1, <2>3, RaiseKeeps DEF Reading
  <2> QED
    BY <1>0, <1>2, <1>e, <2>2, <2>3 DEF AtCall, RefuseSymlink, GoOn, TreeListing, names, repository, SnapshotTypeOK
<1>3. CASE RefuseDirectory(v)
  <2>1. call[v] = "kind"
    BY <1>3 DEF AtCall, RefuseDirectory
  <2>2. CASE /\ call' = [call EXCEPT ![v] = "mkstemp"]
             /\ UNCHANGED <<outcome, text, names, repository, revision, entries, quiet>>
    BY <2>1, <2>2, MoveKeeps DEF Moves
  <2>3. CASE Raise(v, "error") /\ UNCHANGED <<names, repository, revision, entries, quiet>>
    BY <2>1, <2>3, RaiseKeeps DEF Reading
  <2> QED
    BY <1>0, <1>3, <1>e, <2>2, <2>3 DEF AtCall, RefuseDirectory, GoOn, TreeListing, names, repository,
       SnapshotTypeOK
<1>4. CASE CreateTemporary(v)
  <2>1. call[v] = "mkstemp"
    BY <1>4 DEF AtCall, CreateTemporary
  <2>2. CASE /\ call' = [call EXCEPT ![v] = "made"]
             /\ temp' = [temp EXCEPT ![v] = "empty"]
             /\ UNCHANGED <<outcome, text, output, there, repository, revision, entries, quiet>>
    <3>1. SnapshotTypeOK'
      BY <1>0, <1>d, <2>1, <2>2 DEF SnapshotTypeOK, Places, Reading, Checking, Steps, Writing, InTry,
         names, repository
    <3>2. OutputWhole'
      BY <1>0, <1>d, <2>1, <2>2 DEF OutputWhole, Whole, TempWhole, names
    <3>3. \A w \in Writers \ {v} :
            /\ call'[w] = call[w] /\ text'[w] = text[w] /\ temp'[w] = temp[w]
            /\ revision'[w] = revision[w] /\ entries'[w] = entries[w]
            /\ w \in quiet' => w \in quiet
      BY <1>0, <2>2 DEF SnapshotTypeOK, names
    <3>4. call'[v] = "made"
      BY <1>0, <2>1, <2>2 DEF SnapshotTypeOK
    <3>9. revision'[v] = revision[v] /\ entries'[v] = entries[v]
      BY <2>2
    <3>5. ReadSoFar(v)'
      BY <1>0, <1>d, <2>1, <2>2, <3>4, <3>9 DEF ReadSoFar, Reading, Checking, Steps, Writing, InTry
    <3>6. TextWhole(v)'
      BY <1>0, <1>d, <2>1, <2>2, <3>4 DEF TextWhole, Whole, Reading, Checking, Steps, Writing, InTry
    <3>7. TempWhole(v)'
      BY <1>0, <1>d, <2>1, <2>2, <3>4 DEF TempWhole, TextWhole, Whole, Reading, Checking, Steps,
         Writing, InTry, names
    <3>12. Clean' = Clean /\ hidden' = hidden /\ head' = head
      BY <2>2 DEF Clean, Committed, repository
    <3>13. revision'[v] = revision[v]
      BY <2>2
    <3>8. QuietSince(v)'
      BY <1>0, <1>d, <2>1, <2>2, <3>4, <3>12, <3>13 DEF QuietSince, Reading, Checking, Steps,
         Writing, InTry
    <3> QED
      BY <2>2, <3>1, <3>2, <3>3, <3>5, <3>6, <3>7, <3>8, StepKeeps
  <2>3. CASE Raise(v, "error") /\ UNCHANGED <<names, repository, revision, entries, quiet>>
    BY <2>1, <2>3, RaiseKeeps DEF Reading
  <2> QED
    BY <1>0, <1>4, <1>e, <2>2, <2>3 DEF AtCall, CreateTemporary, GoOn, TreeListing, names, repository, SnapshotTypeOK
<1>5. CASE EnterTry(v)
  <2>1. call[v] = "made"
    BY <1>5 DEF AtCall, EnterTry
  <2>2. CASE /\ call' = [call EXCEPT ![v] = "chmod"]
             /\ UNCHANGED <<outcome, text, names, repository, revision, entries, quiet>>
    BY <2>1, <2>2, MoveKeeps DEF Moves
  <2> QED
    BY <1>0, <1>5, <1>e, <2>2 DEF AtCall, EnterTry, GoOn, TreeListing, names, repository, SnapshotTypeOK
<1>6. CASE ChangeMode(v)
  <2>1. call[v] = "chmod"
    BY <1>6 DEF AtCall, ChangeMode
  <2>2. CASE /\ call' = [call EXCEPT ![v] = "fill"]
             /\ UNCHANGED <<outcome, text, names, repository, revision, entries, quiet>>
    BY <2>1, <2>2, MoveKeeps DEF Moves
  <2> QED
    BY <1>0, <1>6, <1>e, <2>2 DEF AtCall, ChangeMode, GoOn, TreeListing, names, repository, SnapshotTypeOK
<1>7. CASE FillTemporary(v)
  <2>1. call[v] = "fill"
    BY <1>7 DEF AtCall, FillTemporary, Fill
  <2>2. CASE /\ call' = [call EXCEPT ![v] = "flush"]
             /\ temp' = [temp EXCEPT ![v] = IF @ = NoFile THEN @ ELSE "partial"]
             /\ UNCHANGED <<outcome, text, output, there, repository, revision, entries, quiet>>
    <3>1. SnapshotTypeOK'
      BY <1>0, <1>d, <2>1, <2>2 DEF SnapshotTypeOK, Places, Reading, Checking, Steps, Writing, InTry,
         names, repository
    <3>2. OutputWhole'
      BY <1>0, <1>d, <2>1, <2>2 DEF OutputWhole, Whole, TempWhole, names
    <3>3. \A w \in Writers \ {v} :
            /\ call'[w] = call[w] /\ text'[w] = text[w] /\ temp'[w] = temp[w]
            /\ revision'[w] = revision[w] /\ entries'[w] = entries[w]
            /\ w \in quiet' => w \in quiet
      BY <1>0, <2>2 DEF SnapshotTypeOK, names
    <3>4. call'[v] = "flush"
      BY <1>0, <2>1, <2>2 DEF SnapshotTypeOK
    <3>9. revision'[v] = revision[v] /\ entries'[v] = entries[v]
      BY <2>2
    <3>5. ReadSoFar(v)'
      BY <1>0, <1>d, <2>1, <2>2, <3>4, <3>9 DEF ReadSoFar, Reading, Checking, Steps, Writing, InTry
    <3>6. TextWhole(v)'
      BY <1>0, <1>d, <2>1, <2>2, <3>4 DEF TextWhole, Whole, Reading, Checking, Steps, Writing, InTry
    <3>7. TempWhole(v)'
      BY <1>0, <1>d, <2>1, <2>2, <3>4 DEF TempWhole, TextWhole, Whole, Reading, Checking, Steps,
         Writing, InTry, names
    <3>12. Clean' = Clean /\ hidden' = hidden /\ head' = head
      BY <2>2 DEF Clean, Committed, repository
    <3>13. revision'[v] = revision[v]
      BY <2>2
    <3>8. QuietSince(v)'
      BY <1>0, <1>d, <2>1, <2>2, <3>4, <3>12, <3>13 DEF QuietSince, Reading, Checking, Steps,
         Writing, InTry
    <3> QED
      BY <2>2, <3>1, <3>2, <3>3, <3>5, <3>6, <3>7, <3>8, StepKeeps
  <2> QED
    BY <1>0, <1>7, <1>e, <2>2 DEF AtCall, FillTemporary, Fill, GoOn, TreeListing, names, repository, SnapshotTypeOK
<1>8. CASE FlushTemporary(v)
  <2>1. call[v] = "flush"
    BY <1>8 DEF AtCall, FlushTemporary, Fill
  <2>2. CASE /\ call' = [call EXCEPT ![v] = "replace"]
             /\ temp' = [temp EXCEPT ![v] = IF @ = NoFile THEN @ ELSE text[v]]
             /\ UNCHANGED <<outcome, text, output, there, repository, revision, entries, quiet>>
    <3>1. SnapshotTypeOK'
      BY <1>0, <1>d, <2>1, <2>2 DEF SnapshotTypeOK, Places, Reading, Checking, Steps, Writing, InTry,
         names, repository
    <3>2. OutputWhole'
      BY <1>0, <1>d, <2>1, <2>2 DEF OutputWhole, Whole, TempWhole, names
    <3>3. \A w \in Writers \ {v} :
            /\ call'[w] = call[w] /\ text'[w] = text[w] /\ temp'[w] = temp[w]
            /\ revision'[w] = revision[w] /\ entries'[w] = entries[w]
            /\ w \in quiet' => w \in quiet
      BY <1>0, <2>2 DEF SnapshotTypeOK, names
    <3>4. call'[v] = "replace"
      BY <1>0, <2>1, <2>2 DEF SnapshotTypeOK
    <3>9. revision'[v] = revision[v] /\ entries'[v] = entries[v]
      BY <2>2
    <3>5. ReadSoFar(v)'
      BY <1>0, <1>d, <2>1, <2>2, <3>4, <3>9 DEF ReadSoFar, Reading, Checking, Steps, Writing, InTry
    <3>6. TextWhole(v)'
      BY <1>0, <1>d, <2>1, <2>2, <3>4 DEF TextWhole, Whole, Reading, Checking, Steps, Writing, InTry
    <3>7. TempWhole(v)'
      BY <1>0, <1>d, <2>1, <2>2, <3>4 DEF TempWhole, TextWhole, Whole, Reading, Checking, Steps,
         Writing, InTry, names
    <3>12. Clean' = Clean /\ hidden' = hidden /\ head' = head
      BY <2>2 DEF Clean, Committed, repository
    <3>13. revision'[v] = revision[v]
      BY <2>2
    <3>8. QuietSince(v)'
      BY <1>0, <1>d, <2>1, <2>2, <3>4, <3>12, <3>13 DEF QuietSince, Reading, Checking, Steps,
         Writing, InTry
    <3> QED
      BY <2>2, <3>1, <3>2, <3>3, <3>5, <3>6, <3>7, <3>8, StepKeeps
  <2> QED
    BY <1>0, <1>8, <1>e, <2>2 DEF AtCall, FlushTemporary, Fill, GoOn, TreeListing, names, repository, SnapshotTypeOK
<1>9. CASE RenameTemporary(v)
  <2>1. call[v] = "replace"
    BY <1>9 DEF AtCall, RenameTemporary
  <2>2. CASE /\ call' = [call EXCEPT ![v] = "replaced"]
             /\ temp[v] # NoFile
             /\ output' = temp[v]
             /\ temp' = [temp EXCEPT ![v] = NoFile]
             /\ UNCHANGED <<outcome, text, there, repository, revision, entries, quiet>>
    <3>1. SnapshotTypeOK'
      BY <1>0, <1>d, <2>1, <2>2 DEF SnapshotTypeOK, Places, Reading, Checking, Steps, Writing, InTry,
         names, repository
    <3>2. OutputWhole'
      BY <1>0, <1>d, <2>1, <2>2 DEF OutputWhole, Whole, TempWhole, names
    <3>3. \A w \in Writers \ {v} :
            /\ call'[w] = call[w] /\ text'[w] = text[w] /\ temp'[w] = temp[w]
            /\ revision'[w] = revision[w] /\ entries'[w] = entries[w]
            /\ w \in quiet' => w \in quiet
      BY <1>0, <2>2 DEF SnapshotTypeOK, names
    <3>4. call'[v] = "replaced"
      BY <1>0, <2>1, <2>2 DEF SnapshotTypeOK
    <3>9. revision'[v] = revision[v] /\ entries'[v] = entries[v]
      BY <2>2
    <3>5. ReadSoFar(v)'
      BY <1>0, <1>d, <2>1, <2>2, <3>4, <3>9 DEF ReadSoFar, Reading, Checking, Steps, Writing, InTry
    <3>6. TextWhole(v)'
      BY <1>0, <1>d, <2>1, <2>2, <3>4 DEF TextWhole, Whole, Reading, Checking, Steps, Writing, InTry
    <3>7. TempWhole(v)'
      BY <1>0, <1>d, <2>1, <2>2, <3>4 DEF TempWhole, TextWhole, Whole, Reading, Checking, Steps,
         Writing, InTry, names
    <3>12. Clean' = Clean /\ hidden' = hidden /\ head' = head
      BY <2>2 DEF Clean, Committed, repository
    <3>13. revision'[v] = revision[v]
      BY <2>2
    <3>8. QuietSince(v)'
      BY <1>0, <1>d, <2>1, <2>2, <3>4, <3>12, <3>13 DEF QuietSince, Reading, Checking, Steps,
         Writing, InTry
    <3> QED
      BY <2>2, <3>1, <3>2, <3>3, <3>5, <3>6, <3>7, <3>8, StepKeeps
  <2>3. CASE Raise(v, "error") /\ UNCHANGED <<names, repository, revision, entries, quiet>>
    BY <2>1, <2>3, RaiseKeeps DEF Reading
  <2> QED
    BY <1>0, <1>9, <1>e, <2>2, <2>3 DEF AtCall, RenameTemporary, GoOn, TreeListing, names, repository, SnapshotTypeOK
<1>10. CASE WriteReturns(v)
  <2>1. call[v] = "replaced"
    BY <1>10 DEF AtCall, WriteReturns
  <2>2. CASE /\ call' = [call EXCEPT ![v] = "ended"]
             /\ outcome' = [outcome EXCEPT ![v] = "written"]
             /\ UNCHANGED <<text, names, repository, revision, entries, quiet>>
    <3>1. SnapshotTypeOK'
      BY <1>0, <1>d, <2>1, <2>2 DEF SnapshotTypeOK, Places, Reading, Checking, Steps, Writing, InTry,
         names, repository
    <3>2. OutputWhole'
      BY <1>0, <1>d, <2>1, <2>2 DEF OutputWhole, Whole, TempWhole, names
    <3>3. \A w \in Writers \ {v} :
            /\ call'[w] = call[w] /\ text'[w] = text[w] /\ temp'[w] = temp[w]
            /\ revision'[w] = revision[w] /\ entries'[w] = entries[w]
            /\ w \in quiet' => w \in quiet
      BY <1>0, <2>2 DEF SnapshotTypeOK, names
    <3>4. call'[v] = "ended"
      BY <1>0, <2>1, <2>2 DEF SnapshotTypeOK
    <3>9. revision'[v] = revision[v] /\ entries'[v] = entries[v]
      BY <2>2
    <3>5. ReadSoFar(v)'
      BY <1>0, <1>d, <2>1, <2>2, <3>4, <3>9 DEF ReadSoFar, Reading, Checking, Steps, Writing, InTry
    <3>6. TextWhole(v)'
      BY <1>0, <1>d, <2>1, <2>2, <3>4 DEF TextWhole, Whole, Reading, Checking, Steps, Writing, InTry
    <3>7. TempWhole(v)'
      BY <1>0, <1>d, <2>1, <2>2, <3>4 DEF TempWhole, TextWhole, Whole, Reading, Checking, Steps,
         Writing, InTry, names
    <3>12. Clean' = Clean /\ hidden' = hidden /\ head' = head
      BY <2>2 DEF Clean, Committed, repository
    <3>13. revision'[v] = revision[v]
      BY <2>2
    <3>8. QuietSince(v)'
      BY <1>0, <1>d, <2>1, <2>2, <3>4, <3>12, <3>13 DEF QuietSince, Reading, Checking, Steps,
         Writing, InTry
    <3> QED
      BY <2>2, <3>1, <3>2, <3>3, <3>5, <3>6, <3>7, <3>8, StepKeeps
  <2> QED
    BY <1>0, <1>10, <1>e, <2>2 DEF AtCall, WriteReturns, GoOn, TreeListing, names, repository, SnapshotTypeOK
<1>11. CASE CleanUp(v)
  <2>1. call[v] = "cleanup"
    BY <1>11 DEF AtCall, CleanUp
  <2>2. CASE /\ call' = [call EXCEPT ![v] = "ended"]
             /\ temp' \in {temp, [temp EXCEPT ![v] = NoFile]}
             /\ UNCHANGED <<outcome, text, output, there, repository, revision, entries, quiet>>
    <3>1. SnapshotTypeOK'
      BY <1>0, <1>d, <2>1, <2>2 DEF SnapshotTypeOK, Places, Reading, Checking, Steps, Writing, InTry,
         names, repository
    <3>2. OutputWhole'
      BY <1>0, <1>d, <2>1, <2>2 DEF OutputWhole, Whole, TempWhole, names
    <3>3. \A w \in Writers \ {v} :
            /\ call'[w] = call[w] /\ text'[w] = text[w] /\ temp'[w] = temp[w]
            /\ revision'[w] = revision[w] /\ entries'[w] = entries[w]
            /\ w \in quiet' => w \in quiet
      BY <1>0, <2>2 DEF SnapshotTypeOK, names
    <3>4. call'[v] = "ended"
      BY <1>0, <2>1, <2>2 DEF SnapshotTypeOK
    <3>9. revision'[v] = revision[v] /\ entries'[v] = entries[v]
      BY <2>2
    <3>5. ReadSoFar(v)'
      BY <1>0, <1>d, <2>1, <2>2, <3>4, <3>9 DEF ReadSoFar, Reading, Checking, Steps, Writing, InTry
    <3>6. TextWhole(v)'
      BY <1>0, <1>d, <2>1, <2>2, <3>4 DEF TextWhole, Whole, Reading, Checking, Steps, Writing, InTry
    <3>7. TempWhole(v)'
      BY <1>0, <1>d, <2>1, <2>2, <3>4 DEF TempWhole, TextWhole, Whole, Reading, Checking, Steps,
         Writing, InTry, names
    <3>12. Clean' = Clean /\ hidden' = hidden /\ head' = head
      BY <2>2 DEF Clean, Committed, repository
    <3>13. revision'[v] = revision[v]
      BY <2>2
    <3>8. QuietSince(v)'
      BY <1>0, <1>d, <2>1, <2>2, <3>4, <3>12, <3>13 DEF QuietSince, Reading, Checking, Steps,
         Writing, InTry
    <3> QED
      BY <2>2, <3>1, <3>2, <3>3, <3>5, <3>6, <3>7, <3>8, StepKeeps
  <2> QED
    BY <1>0, <1>11, <1>e, <2>2 DEF AtCall, CleanUp, GoOn, TreeListing, names, repository, SnapshotTypeOK
<1>12. CASE SystemCallFails(v)
  <2>1. /\ call[v] # "ended" /\ Raise(v, "error")
        /\ UNCHANGED <<names, repository, revision, entries, quiet>>
    BY <1>12, <1>e DEF SystemCallFails, repository
  <2> QED
    BY <2>1, RaiseKeeps
<1>13. CASE Interrupt(v)
  <2>1. /\ call[v] # "ended" /\ Raise(v, "interrupt")
        /\ UNCHANGED <<names, repository, revision, entries, quiet>>
    BY <1>13, <1>e DEF Interrupt, repository
  <2> QED
    BY <2>1, RaiseKeeps
<1>14. CASE Kill(v)
  <2>1. call[v] # "ended"
    BY <1>14 DEF AtCall, Kill
  <2>2. CASE /\ call' = [call EXCEPT ![v] = "ended"]
             /\ outcome' = [outcome EXCEPT ![v] = "killed"]
             /\ UNCHANGED <<text, names, repository, revision, entries, quiet>>
    <3>1. SnapshotTypeOK'
      BY <1>0, <1>d, <2>1, <2>2 DEF SnapshotTypeOK, Places, Reading, Checking, Steps, Writing, InTry,
         names, repository
    <3>2. OutputWhole'
      BY <1>0, <1>d, <2>1, <2>2 DEF OutputWhole, Whole, TempWhole, names
    <3>3. \A w \in Writers \ {v} :
            /\ call'[w] = call[w] /\ text'[w] = text[w] /\ temp'[w] = temp[w]
            /\ revision'[w] = revision[w] /\ entries'[w] = entries[w]
            /\ w \in quiet' => w \in quiet
      BY <1>0, <2>2 DEF SnapshotTypeOK, names
    <3>4. call'[v] = "ended"
      BY <1>0, <2>1, <2>2 DEF SnapshotTypeOK
    <3>9. revision'[v] = revision[v] /\ entries'[v] = entries[v]
      BY <2>2
    <3>5. ReadSoFar(v)'
      BY <1>0, <1>d, <2>1, <2>2, <3>4, <3>9 DEF ReadSoFar, Reading, Checking, Steps, Writing, InTry
    <3>6. TextWhole(v)'
      BY <1>0, <1>d, <2>1, <2>2, <3>4 DEF TextWhole, Whole, Reading, Checking, Steps, Writing, InTry
    <3>7. TempWhole(v)'
      BY <1>0, <1>d, <2>1, <2>2, <3>4 DEF TempWhole, TextWhole, Whole, Reading, Checking, Steps,
         Writing, InTry, names
    <3>12. Clean' = Clean /\ hidden' = hidden /\ head' = head
      BY <2>2 DEF Clean, Committed, repository
    <3>13. revision'[v] = revision[v]
      BY <2>2
    <3>8. QuietSince(v)'
      BY <1>0, <1>d, <2>1, <2>2, <3>4, <3>12, <3>13 DEF QuietSince, Reading, Checking, Steps,
         Writing, InTry
    <3> QED
      BY <2>2, <3>1, <3>2, <3>3, <3>5, <3>6, <3>7, <3>8, StepKeeps
  <2> QED
    BY <1>0, <1>14, <1>e, <2>2 DEF AtCall, Kill, GoOn, TreeListing, names, repository, SnapshotTypeOK
<1> QED
  BY <1>1, <1>2, <1>3, <1>4, <1>5, <1>6, <1>7, <1>8, <1>9, <1>10, <1>11, <1>12, <1>13, <1>14
     DEF WriteStep

(* Other programs that bind and remove names keep the invariant: they make no        *)
(* manifest of their own.                                                             *)
LEMMA MeddleKeeps ==
  ASSUME SnapshotInv, Meddle, UNCHANGED <<repository, revision, entries, quiet>>
  PROVE  SnapshotInv'
<1>1. \A w \in Writers : temp'[w] \in {temp[w], NoFile}
  BY DEF SnapshotInv, SnapshotTypeOK, Meddle
<1>2. SnapshotTypeOK'
  BY DEF SnapshotInv, SnapshotTypeOK, Meddle, writers, repository
<1>3. OutputWhole'
  BY DEF SnapshotInv, OutputWhole, Whole, Meddle
<1>4. ASSUME NEW w \in Writers
      PROVE  ReadSoFar(w)' /\ TextWhole(w)' /\ TempWhole(w)' /\ QuietSince(w)'
  <2>1. ReadSoFar(w) /\ TextWhole(w) /\ TempWhole(w) /\ QuietSince(w)
    BY DEF SnapshotInv
  <2>2. UNCHANGED <<call, text>>
    BY DEF Meddle, writers
  <2>3. ReadSoFar(w)'
    BY <2>1, <2>2 DEF ReadSoFar
  <2>4. TextWhole(w)'
    BY <2>1, <2>2 DEF TextWhole, Whole
  <2>5. TempWhole(w)'
    BY <1>1, <2>1, <2>2 DEF TempWhole, Whole
  <2>6. QuietSince(w)'
    BY <2>1, <2>2 DEF QuietSince, Clean, Committed, repository
  <2> QED
    BY <2>3, <2>4, <2>5, <2>6
<1> QED
  BY <1>2, <1>3, <1>4 DEF SnapshotInv

(* A change of the repository leaves no writer quiet, and no writer's data changed. *)
LEMMA ChangeKeeps ==
  ASSUME SnapshotInv, ChangeRepository
  PROVE  SnapshotInv'
<1>1. UNCHANGED <<call, outcome, text, temp, output, there, revision, entries>> /\ quiet' = {}
  BY DEF ChangeRepository, writers, names
<1>2. SnapshotTypeOK'
  BY <1>1 DEF SnapshotInv, SnapshotTypeOK, ChangeRepository, MoveHead, Stage, Edit, Flag
<1>3. OutputWhole'
  BY <1>1 DEF SnapshotInv, OutputWhole, Whole
<1>4. ASSUME NEW w \in Writers
      PROVE  ReadSoFar(w)' /\ TextWhole(w)' /\ TempWhole(w)' /\ QuietSince(w)'
  <2>1. ReadSoFar(w) /\ TextWhole(w) /\ TempWhole(w)
    BY DEF SnapshotInv
  <2>2. ReadSoFar(w)'
    BY <1>1, <2>1 DEF ReadSoFar
  <2>3. TextWhole(w)' /\ TempWhole(w)'
    BY <1>1, <2>1 DEF TextWhole, TempWhole, Whole
  <2>4. QuietSince(w)'
    BY <1>1 DEF QuietSince
  <2> QED
    BY <2>2, <2>3, <2>4
<1> QED
  BY <1>2, <1>3, <1>4 DEF SnapshotInv

LEMMA NextSnapshot == SnapshotInv /\ [SnapshotNext]_snapshotVars => SnapshotInv'
<1> SUFFICES ASSUME SnapshotInv, [SnapshotNext]_snapshotVars PROVE SnapshotInv'
  OBVIOUS
<1>1. CASE UNCHANGED snapshotVars
  <2>1. /\ UNCHANGED <<call, outcome, text, temp, output, there, head, index, work, hidden>>
        /\ UNCHANGED <<revision, entries, quiet>>
    BY <1>1 DEF snapshotVars, writers, names, repository
  <2>2. SnapshotTypeOK'
    BY <2>1 DEF SnapshotInv, SnapshotTypeOK
  <2>3. OutputWhole'
    BY <2>1 DEF SnapshotInv, OutputWhole, Whole
  <2>4. ASSUME NEW w \in Writers
        PROVE  ReadSoFar(w)' /\ TextWhole(w)' /\ TempWhole(w)' /\ QuietSince(w)'
    <3>1. ReadSoFar(w) /\ TextWhole(w) /\ TempWhole(w) /\ QuietSince(w)
      BY DEF SnapshotInv
    <3>2. ReadSoFar(w)'
      BY <2>1, <3>1 DEF ReadSoFar
    <3>3. TextWhole(w)' /\ TempWhole(w)'
      BY <2>1, <3>1 DEF TextWhole, TempWhole, Whole
    <3>4. QuietSince(w)'
      BY <2>1, <3>1 DEF QuietSince, Clean, Committed
    <3> QED
      BY <3>2, <3>3, <3>4
  <2> QED
    BY <2>2, <2>3, <2>4 DEF SnapshotInv
<1>2. CASE SnapshotNext
  BY <1>2, SnapshotKeeps, WriteKeeps, MeddleKeeps, ChangeKeeps DEF SnapshotNext
<1> QED
  BY <1>1, <1>2

(* The inductive invariant holds of every behaviour. *)
LEMMA SnapshotInvariance == SnapshotSpec => []SnapshotInv
<1>1. SnapshotInit => SnapshotInv
  BY InitSnapshot
<1>2. SnapshotInv /\ [SnapshotNext]_snapshotVars => SnapshotInv'
  BY NextSnapshot
<1> QED
  BY <1>1, <1>2, PTL DEF SnapshotSpec

-----------------------------------------------------------------------------
(* Every variable of write_source_snapshot and _atomic_write keeps its type. *)
THEOREM SnapshotTypeCorrectness == SnapshotSpec => []SnapshotTypeOK
<1>1. SnapshotInv => SnapshotTypeOK
  BY DEF SnapshotInv
<1> QED
  BY <1>1, SnapshotInvariance, PTL

(* However many writers of one manifest there are, whatever other programs do to the  *)
(* repository and to the names, and wherever a writer fails, is interrupted or is     *)
(* killed: the output is what it was or a whole manifest of one commit, never a       *)
(* mixture of two and never a part.                                                   *)
THEOREM SnapshotExactHolds == SnapshotSpec => []SnapshotExact
<1>1. SnapshotInv => SnapshotExact
  BY DEF SnapshotInv, OutputWhole, Whole, SnapshotExact
<1> QED
  BY <1>1, SnapshotInvariance, PTL

(* A writer that gets as far as the write, in a repository let alone since its second *)
(* status, has found HEAD where it began, and index, worktree and flags as committed. *)
THEOREM CleanWhenQuietHolds == SnapshotSpec => []CleanWhenQuiet
<1>1. SnapshotInv => CleanWhenQuiet
  <2> SUFFICES ASSUME SnapshotInv, NEW w \in quiet, call[w] \in Steps
               PROVE  head = revision[w] /\ index = Tree[head] /\ work = Tree[head] /\ ~hidden
    BY DEF CleanWhenQuiet
  <2>1. w \in Writers
    BY DEF SnapshotInv, SnapshotTypeOK
  <2>2. QuietSince(w) /\ ReadSoFar(w)
    BY <2>1 DEF SnapshotInv
  <2>3. revision[w] \in Revisions
    BY <2>2 DEF ReadSoFar, Steps, Writing, InTry
  <2> QED
    BY <2>2, <2>3, UnbornIsNoRevision DEF QuietSince, Clean, Committed
<1> QED
  BY <1>1, SnapshotInvariance, PTL

(* A writer that ends with an error has not renamed its file in that step, and has    *)
(* none left unless the unlink failed or the parent's path leads elsewhere.           *)
THEOREM FailuresHarmlessHolds == SnapshotSpec => FailuresHarmless
<1> DEFINE EndsHarmless(w) ==
      call[w] # "ended" /\ outcome'[w] = "error" /\ call'[w] = "ended" =>
        /\ output' = output
        /\ temp'[w] = NoFile \/ w \in stuck' \/ ~there'
<1>1. SnapshotInv /\ [SnapshotNext]_snapshotVars => [\A w \in Writers : EndsHarmless(w)]_snapshotVars
  <2> SUFFICES ASSUME SnapshotInv, SnapshotNext, NEW w \in Writers,
                      call[w] # "ended", outcome'[w] = "error", call'[w] = "ended"
               PROVE  output' = output /\ (temp'[w] = NoFile \/ w \in stuck' \/ ~there')
    OBVIOUS
  <2>0. SnapshotTypeOK /\ TempWhole(w)
    BY DEF SnapshotInv
  <2>1. ASSUME Raise(w, "error"), UNCHANGED names, call[w] \notin {"made", "replaced", "cleanup"}
        PROVE  output' = output /\ temp'[w] = NoFile
    <3>1. call[w] \in Reading \cup Checking \cup Writing
      BY <2>0, <2>1 DEF SnapshotTypeOK, Places, Steps, Raise
    <3> QED
      BY <2>0, <2>1, <3>1 DEF TempWhole, names
  <2>2. CASE SnapshotStep(w)
    <3>1. UNCHANGED names /\ call[w] \in Reading \cup Checking
      BY <2>2 DEF SnapshotStep, ReadHead, CheckStatus, CheckFlags, ListTree, ReadEntry, EntriesRead,
                  RecheckStatus, RecheckHead, AtCall, Reading, Checking
    <3> QED
      BY <2>0, <3>1 DEF TempWhole, names
  <2>3. CASE WriteStep(w)
    <3>1. CASE RequireParent(w)
      BY <2>0, <2>1, <3>1 DEF RequireParent, AtCall, GoOn, SnapshotTypeOK
    <3>2. CASE RefuseSymlink(w)
      BY <2>0, <2>1, <3>2 DEF RefuseSymlink, AtCall, GoOn, SnapshotTypeOK
    <3>3. CASE RefuseDirectory(w)
      BY <2>0, <2>1, <3>3 DEF RefuseDirectory, AtCall, GoOn, SnapshotTypeOK
    <3>4. CASE CreateTemporary(w)
      BY <2>0, <2>1, <3>4 DEF CreateTemporary, AtCall, GoOn, SnapshotTypeOK, names
    <3>5. CASE EnterTry(w) \/ ChangeMode(w) \/ FillTemporary(w) \/ FlushTemporary(w)
      BY <2>0, <3>5 DEF EnterTry, ChangeMode, FillTemporary, FlushTemporary, Fill, AtCall, GoOn, SnapshotTypeOK
    <3>6. CASE RenameTemporary(w)
      BY <2>0, <2>1, <3>6 DEF RenameTemporary, AtCall, GoOn, Raise, InTry, SnapshotTypeOK
    <3>7. CASE WriteReturns(w) \/ Kill(w)
      BY <2>0, <3>7 DEF WriteReturns, Kill, SnapshotTypeOK
    <3>8. CASE CleanUp(w)
      BY <2>0, <3>8 DEF CleanUp, GoOn, SnapshotTypeOK
    <3>9. CASE SystemCallFails(w)
      BY <2>1, <3>9 DEF SystemCallFails
    <3>10. CASE Interrupt(w)
      BY <2>0, <3>10 DEF Interrupt, Raise, SnapshotTypeOK
    <3> QED
      BY <2>3, <3>1, <3>2, <3>3, <3>4, <3>5, <3>6, <3>7, <3>8, <3>9, <3>10 DEF WriteStep
  <2>4. ASSUME NEW v \in Writers, SnapshotStep(v), v # w
        PROVE  call'[w] = call[w]
    BY <2>0, <2>4 DEF SnapshotStep, ReadHead, CheckStatus, CheckFlags, ListTree, ReadEntry,
       EntriesRead,
                RecheckStatus, RecheckHead, GoOn, Raise, SnapshotTypeOK
  <2>5. ASSUME NEW v \in Writers, WriteStep(v), v # w
        PROVE  call'[w] = call[w]
    BY <2>0, <2>5 DEF WriteStep, RequireParent, RefuseSymlink, RefuseDirectory, CreateTemporary,
       EnterTry,
                ChangeMode, FillTemporary, FlushTemporary, Fill, RenameTemporary, WriteReturns, CleanUp,
                SystemCallFails, Interrupt, Kill, GoOn, Raise, SnapshotTypeOK
  <2>6. CASE Meddle \/ ChangeRepository
    BY <2>6 DEF Meddle, ChangeRepository, writers
  <2> QED
    BY <2>2, <2>3, <2>4, <2>5, <2>6 DEF SnapshotNext
<1> QED
  BY <1>1, SnapshotInvariance, PTL DEF SnapshotSpec, FailuresHarmless
=============================================================================
