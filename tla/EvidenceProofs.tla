--------------------------- MODULE EvidenceProofs ---------------------------
(***************************************************************************)
(* From files to findings.  What load_evidence returns is whole, holds     *)
(* nothing twice and keeps the limits; what load_replay_manifest returns   *)
(* is the manifest's, every declared source with the declared digest, none *)
(* twice and within the limits: for any files, requests and limits, and    *)
(* whatever other programs do between two reads.  While nobody touches the *)
(* files, each accepts exactly what fits together, whatever the order it   *)
(* is named in.  What evaluate_rules finds in a bundle is exactly what its *)
(* evidence holds, for every bundle, selection, analysis time and          *)
(* parameter, the same in every order of the records, and at a later time  *)
(* still: from the call's inductive invariant CallIInv and the positions,  *)
(* sequences and sets behind the evaluators.                               *)
(***************************************************************************)
EXTENDS EvidenceLoader, ReplayLoader, RuleProperties,
        FiniteSetTheorems, FunctionTheorems, SequenceTheorems, WellFoundedInduction, TLAPS

(***************************************************************************)
(* load_evidence.                                                          *)
(***************************************************************************)
IInv ==
  /\ TypeOK
  /\ NothingTwice
  /\ outcome = "returned" => Len(sources) = Len(paths)

Source == [inode : Inodes, content : Contents]

LEMMA InitInvariant == Init => IInv
<1>1. ASSUME Init PROVE IInv
  <2>1. /\ inode \in [Paths -> Inodes \cup {NoFile}] /\ content \in [Inodes -> Contents]
        /\ others \in BOOLEAN
    BY <1>1, InitialFilesAreFiles DEF Init, FilesInit
  <2>2. changes \in 0 .. MaxChanges
    BY <1>1, LimitsArePositive DEF Init, FilesInit
  <2>3. paths \in Seq(Paths) /\ sources = <<>> /\ Len(sources) <= Len(paths)
    BY <1>1, RequestsAreSequences DEF Init
  <2>4. sources \in Seq(Source) /\ DOMAIN sources = {}
    BY <2>3
  <2>5. record_ids = UNION {ToSet(sources[k].content.ids) : k \in DOMAIN sources}
    BY <1>1, <2>4 DEF Init
  <2>6. outcome \in {"loading", "invalid"} /\ count \in Nat /\ total_bytes \in Nat
    BY <1>1 DEF Init
  <2> QED
    BY <2>1, <2>2, <2>3, <2>4, <2>5, <2>6 DEF IInv, TypeOK, NothingTwice, Source
<1> QED
  BY <1>1

\* Taking a source that was checked keeps what the sources are.
LEMMA TakeKeeps ==
  ASSUME IInv, outcome = "loading", Position <= Len(paths), NEW i \in Inodes,
         NewIdentity(i), NewRecords(content[i]), Take(i, content[i]), UNCHANGED files
  PROVE  IInv'
<1> DEFINE new == [inode |-> i, content |-> content[i]]
<1>1. content[i] \in Contents /\ new \in Source
  BY DEF IInv, TypeOK, Source
<1>2. sources \in Seq(Source) /\ Len(sources) \in Nat /\ DOMAIN sources = 1 .. Len(sources)
  BY LenProperties DEF IInv, TypeOK, Source
<1>3. /\ sources' \in Seq(Source) /\ Len(sources') = Len(sources) + 1
      /\ DOMAIN sources' = DOMAIN sources \cup {Len(sources) + 1}
      /\ \A k \in DOMAIN sources : sources'[k] = sources[k]
      /\ sources'[Len(sources) + 1] = new
  BY <1>1, <1>2, AppendProperties DEF Take
<1>4. record_ids' = UNION {ToSet(sources'[k].content.ids) : k \in DOMAIN sources'}
  BY <1>3 DEF IInv, TypeOK, Take
<1>5. Len(sources') <= Len(paths')
  BY <1>2, <1>3 DEF Take, Position, IInv, TypeOK
<1>6. count' \in Nat /\ total_bytes' \in Nat
  BY <1>1, ContentsAreSized DEF IInv, TypeOK, Take
<1>7. TypeOK'
  BY <1>3, <1>4, <1>5, <1>6 DEF IInv, TypeOK, Take, files, Source
<1>8. \A j \in DOMAIN sources :
        /\ sources[j].inode # i
        /\ IdsOf(sources[j].content) \cap IdsOf(content[i]) = {}
  BY DEF NewIdentity, Identities, NewRecords, IdsOf, IInv, TypeOK
<1>9. IsInjective(content[i].ids)
  BY DEF NewRecords
<1>10. \A j, k \in DOMAIN sources' : j # k =>
         /\ sources'[j].inode # sources'[k].inode
         /\ IdsOf(sources'[j].content) \cap IdsOf(sources'[k].content) = {}
  <2> SUFFICES ASSUME NEW j \in DOMAIN sources', NEW k \in DOMAIN sources', j # k
               PROVE  /\ sources'[j].inode # sources'[k].inode
                      /\ IdsOf(sources'[j].content) \cap IdsOf(sources'[k].content) = {}
    OBVIOUS
  <2>1. CASE j \in DOMAIN sources /\ k \in DOMAIN sources
    BY <2>1, <1>3 DEF IInv, NothingTwice
  <2>2. CASE j \notin DOMAIN sources
    BY <2>2, <1>3, <1>8
  <2>3. CASE k \notin DOMAIN sources
    BY <2>3, <1>3, <1>8
  <2> QED
    BY <2>1, <2>2, <2>3
<1>11. \A k \in DOMAIN sources' : IsInjective(sources'[k].content.ids)
  BY <1>3, <1>9 DEF IInv, NothingTwice
<1>12. NothingTwice'
  BY <1>10, <1>11 DEF NothingTwice
<1> QED
  BY <1>7, <1>12 DEF IInv, Take

LEMMA NextKeeps == IInv /\ [Next]_vars => IInv'
<1> SUFFICES ASSUME IInv, [Next]_vars PROVE IInv'
  OBVIOUS
<1>0. \A e \in {"invalid", "returned"} :
        /\ outcome' = e
        /\ e = "returned" => Len(sources) = Len(paths)
        /\ UNCHANGED <<paths, sources, record_ids, count, total_bytes, files>>
        => IInv'
  BY DEF IInv, TypeOK, NothingTwice, files
<1>1. ASSUME LoadNext PROVE IInv'
  <2>1. CASE Refuse
    BY <2>1, <1>1, <1>0 DEF Refuse, LoadNext
  <2>2. CASE ~Refuse
    <3>1. /\ outcome = "loading" /\ Position <= Len(paths) /\ UNCHANGED files
          /\ Readable(CurrentPath)
          /\ NewIdentity(inode[CurrentPath]) /\ NewRecords(content[inode[CurrentPath]])
          /\ Take(inode[CurrentPath], content[inode[CurrentPath]])
      BY <2>2, <1>1 DEF LoadNext
    <3>2. CurrentPath \in Paths
      BY <3>1, LenProperties, ElementOfSeq DEF CurrentPath, Position, IInv, TypeOK
    <3>3. inode[CurrentPath] \in Inodes
      BY <3>1, <3>2 DEF Readable, IInv, TypeOK
    <3> QED
      BY <3>1, <3>3, TakeKeeps
  <2> QED
    BY <2>1, <2>2
<1>2. ASSUME ReadFails PROVE IInv'
  BY <1>2, <1>0 DEF ReadFails, Refuse
<1>3. ASSUME Return PROVE IInv'
  <2>1. Len(sources) = Len(paths)
    BY <1>3, LenProperties DEF Return, Position, IInv, TypeOK
  <2> QED
    BY <1>3, <2>1, <1>0 DEF Return
<1>4. ASSUME Interfere PROVE IInv'
  <2>1. /\ inode' \in [Paths -> Inodes \cup {NoFile}] /\ content' \in [Inodes -> Contents]
    BY <1>4 DEF Interfere, Change, Rewrite, Rebind, IInv, TypeOK
  <2>2. others' \in BOOLEAN /\ changes' \in 0 .. MaxChanges
    BY <1>4, LimitsArePositive DEF Interfere, Change, IInv, TypeOK
  <2> QED
    BY <2>1, <2>2, <1>4 DEF Interfere, loader, IInv, TypeOK, NothingTwice
<1>5. ASSUME UNCHANGED vars PROVE IInv'
  BY <1>5 DEF vars, files, loader, IInv, TypeOK, NothingTwice
<1> QED
  BY <1>1, <1>2, <1>3, <1>4, <1>5 DEF Next, Ended

\* The inductive invariant holds in every reachable state of the loader.
THEOREM Invariance == Spec => []IInv
BY InitInvariant, NextKeeps, PTL DEF Spec

\* Every variable of the loader keeps its type, and the record ids it remembers are
\* those of the sources it has read.
THEOREM TypeCorrectness == Spec => []TypeOK
<1>1. IInv => TypeOK
  BY DEF IInv
<1> QED
  BY Invariance, <1>1, PTL

-----------------------------------------------------------------------------
(* Sums of sequences, by induction on a set of numbers.                      *)

\* A set that has 0, and k whenever it has k - 1, has all numbers.
LEMMA Inductive ==
  ASSUME NEW n \in Nat, NEW S, 0 \in S, \A k \in 1 .. n : k - 1 \in S => k \in S
  PROVE  \A k \in 0 .. n : k \in S
<1> DEFINE Below == OpToRel(<, Nat)
           Missing == {k \in 0 .. n : k \notin S}
<1>1. IsWellFoundedOn(Below, Nat)
  BY NatLessThanWellFounded
<1>2. \A i, j \in Nat : i < j => <<i, j>> \in Below
  BY DEF OpToRel
<1>3. Missing \subseteq Nat
  OBVIOUS
<1>4. ASSUME Missing # {} PROVE FALSE
  <2> HIDE DEF Below, Missing
  <2>1. PICK k \in Missing : \A i \in Missing : ~(<<i, k>> \in Below)
    BY <1>1, <1>3, <1>4, WFMin
  <2>2. k \in Nat /\ k \in 0 .. n /\ k \notin S
    BY <2>1 DEF Missing
  <2>3. k # 0 /\ k \in 1 .. n /\ k - 1 \in 0 .. n /\ k - 1 \in Nat /\ k - 1 < k
    BY <2>2
  <2>4. k - 1 \in Missing
    BY <2>2, <2>3 DEF Missing
  <2> QED
    BY <1>2, <2>1, <2>2, <2>3, <2>4
<1> QED
  BY <1>4

\* t has the sums of what s begins with.
Sums(t, s) ==
  /\ t \in [0 .. Len(s) -> Nat]
  /\ t[0] = 0
  /\ \A k \in 1 .. Len(s) : t[k] = t[k - 1] + s[k]

LEMMA SumsExist == ASSUME NEW s \in Seq(Nat) PROVE \E t : Sums(t, s)
<1> DEFINE Partial(t, n) == /\ t \in [0 .. n -> Nat]
                            /\ t[0] = 0
                            /\ \A k \in 1 .. n : t[k] = t[k - 1] + s[k]
           With == {n \in 0 .. Len(s) : \E t : Partial(t, n)}
<1>1. Len(s) \in Nat /\ \A k \in 1 .. Len(s) : s[k] \in Nat
  BY LenProperties, ElementOfSeq
<1>2. 0 \in With
  <2>1. Partial([k \in 0 .. 0 |-> 0], 0)
    OBVIOUS
  <2> HIDE DEF Partial
  <2> QED
    BY <1>1, <2>1
<1>3. ASSUME NEW n \in 1 .. Len(s), n - 1 \in With PROVE n \in With
  <2>1. PICK t : Partial(t, n - 1)
    BY <1>3
  <2> DEFINE u == [k \in 0 .. n |-> IF k = n THEN t[n - 1] + s[n] ELSE t[k]]
  <2>2. n \in Nat /\ s[n] \in Nat /\ t[n - 1] \in Nat
    BY <1>1, <2>1
  <2>3. u \in [0 .. n -> Nat] /\ u[0] = 0
    BY <2>1, <2>2
  <2>4. ASSUME NEW k \in 1 .. n PROVE u[k] = u[k - 1] + s[k]
    <3>1. CASE k = n
      BY <3>1, <2>2
    <3>2. CASE k # n
      <4>1. k \in 1 .. (n - 1) /\ k \in 0 .. n /\ k - 1 \in 0 .. n /\ k - 1 # n
        BY <2>2, <3>2
      <4> QED
        BY <2>1, <3>2, <4>1
    <3> QED
      BY <3>1, <3>2
  <2>5. Partial(u, n)
    BY <2>3, <2>4
  <2> HIDE DEF Partial, u
  <2> QED
    BY <1>1, <2>5
<1>4. \A k \in 0 .. Len(s) : k \in With
  <2> HIDE DEF With
  <2> QED
    BY <1>1, <1>2, <1>3, Inductive
<1> HIDE DEF Partial
<1>5. PICK t : Partial(t, Len(s))
  <2>1. Len(s) \in 0 .. Len(s)
    BY <1>1
  <2> QED
    BY <1>4, <2>1
<1> QED
  BY <1>5 DEF Sums, Partial

\* The sums are the same as far as the sequences are.
LEMMA SumsAgree ==
  ASSUME NEW s \in Seq(Nat), NEW z \in Seq(Nat), NEW t, NEW u, Sums(t, s), Sums(u, z),
         Len(s) <= Len(z), \A k \in 1 .. Len(s) : s[k] = z[k]
  PROVE  \A k \in 0 .. Len(s) : t[k] = u[k]
<1> DEFINE Equal == {k \in 0 .. Len(s) : t[k] = u[k]}
<1>1. Len(s) \in Nat /\ Len(z) \in Nat
  BY LenProperties
<1>2. 0 \in Equal
  BY <1>1 DEF Sums
<1>3. ASSUME NEW k \in 1 .. Len(s), k - 1 \in Equal PROVE k \in Equal
  BY <1>1, <1>3 DEF Sums
<1>4. \A k \in 0 .. Len(s) : k \in Equal
  <2> HIDE DEF Equal
  <2> QED
    BY <1>1, <1>2, <1>3, Inductive
<1> QED
  BY <1>4

\* Sums of numbers do not fall.
LEMMA SumsGrow ==
  ASSUME NEW s \in Seq(Nat), NEW t, Sums(t, s), NEW k \in 0 .. Len(s)
  PROVE  t[k] <= t[Len(s)]
<1> DEFINE Grown == {n \in 0 .. Len(s) : k <= n => t[k] <= t[n]}
<1>1. Len(s) \in Nat /\ k \in Nat /\ t[k] \in Nat /\ \A n \in 1 .. Len(s) : s[n] \in Nat
  BY LenProperties, ElementOfSeq DEF Sums
<1>2. 0 \in Grown
  <2>1. k <= 0 => k = 0
    BY <1>1
  <2> QED
    BY <1>1, <2>1
<1>3. ASSUME NEW n \in 1 .. Len(s), n - 1 \in Grown PROVE n \in Grown
  <2>1. /\ n \in Nat /\ n - 1 \in 0 .. Len(s) /\ n \in 0 .. Len(s)
        /\ k <= n => k = n \/ k <= n - 1
    BY <1>1
  <2>2. t[n - 1] \in Nat /\ t[n] = t[n - 1] + s[n] /\ s[n] \in Nat
    BY <1>1, <2>1 DEF Sums
  <2>3. k <= n - 1 => t[k] <= t[n - 1]
    BY <1>3
  <2>4. k <= n => t[k] <= t[n]
    BY <1>1, <2>1, <2>2, <2>3
  <2> QED
    BY <2>1, <2>4
<1>4. \A n \in 0 .. Len(s) : n \in Grown
  <2> HIDE DEF Grown
  <2> QED
    BY <1>1, <1>2, <1>3, Inductive
<1> QED
  BY <1>1, <1>4

\* Total is the last of the sums.
LEMMA TotalIsLast ==
  ASSUME NEW s \in Seq(Nat), NEW t, Sums(t, s)
  PROVE  Total(s) = t[Len(s)] /\ Total(s) \in Nat
<1> DEFINE Recursive(f) == f = [k \in 0 .. Len(s) |-> IF k = 0 THEN 0 ELSE f[k - 1] + s[k]]
           sum == CHOOSE f : Recursive(f)
           Equal == {k \in 0 .. Len(s) : sum[k] = t[k]}
<1>1. Len(s) \in Nat /\ Len(s) \in 0 .. Len(s)
  BY LenProperties
<1>2. Recursive(t)
  BY <1>1 DEF Sums
<1>3. Total(s) = sum[Len(s)]
  BY DEF Total
<1>4. Recursive(sum)
  <2> HIDE DEF Recursive
  <2> QED
    BY <1>2
<1>5. \A k \in 0 .. Len(s) : sum[k] = IF k = 0 THEN 0 ELSE sum[k - 1] + s[k]
  <2> HIDE DEF sum
  <2> QED
    BY <1>4
<1> HIDE DEF sum
<1>6. 0 \in Equal
  BY <1>1, <1>5 DEF Sums
<1>7. ASSUME NEW k \in 1 .. Len(s), k - 1 \in Equal PROVE k \in Equal
  BY <1>1, <1>5, <1>7 DEF Sums
<1>8. \A k \in 0 .. Len(s) : k \in Equal
  <2> HIDE DEF Equal
  <2> QED
    BY <1>1, <1>6, <1>7, Inductive
<1> QED
  BY <1>1, <1>3, <1>8 DEF Sums

LEMMA TotalOfNone == ASSUME NEW s \in Seq(Nat), Len(s) = 0 PROVE Total(s) = 0
<1>1. PICK t : Sums(t, s)
  BY SumsExist
<1> QED
  BY <1>1, TotalIsLast DEF Sums

\* One more number.
LEMMA TotalOfMore ==
  ASSUME NEW s \in Seq(Nat), NEW z \in Seq(Nat), Len(z) = Len(s) + 1,
         \A k \in 1 .. Len(s) : s[k] = z[k]
  PROVE  Total(z) = Total(s) + z[Len(z)]
<1>1. Len(s) \in Nat /\ Len(s) <= Len(z) /\ Len(z) \in 1 .. Len(z)
  BY LenProperties
<1>2. PICK t : Sums(t, s)
  BY SumsExist
<1>3. PICK u : Sums(u, z)
  BY SumsExist
<1>4. t[Len(s)] = u[Len(s)]
  BY <1>1, <1>2, <1>3, SumsAgree
<1>5. u[Len(z)] = u[Len(s)] + z[Len(z)]
  BY <1>1, <1>3 DEF Sums
<1>6. Total(s) = t[Len(s)] /\ Total(z) = u[Len(z)]
  BY <1>2, <1>3, TotalIsLast
<1> QED
  BY <1>4, <1>5, <1>6

\* What a sequence begins with adds up to no more than all of it.
LEMMA TotalOfFirst ==
  ASSUME NEW s \in Seq(Nat), NEW z \in Seq(Nat), Len(s) <= Len(z),
         \A k \in 1 .. Len(s) : s[k] = z[k]
  PROVE  Total(s) \in Nat /\ Total(z) \in Nat /\ Total(s) <= Total(z)
<1>1. Len(s) \in Nat /\ Len(z) \in Nat
  BY LenProperties
<1>2. PICK t : Sums(t, s)
  BY SumsExist
<1>3. PICK u : Sums(u, z)
  BY SumsExist
<1>4. t[Len(s)] = u[Len(s)]
  BY <1>1, <1>2, <1>3, SumsAgree
<1>5. u[Len(s)] <= u[Len(z)]
  BY <1>1, <1>3, SumsGrow
<1> QED
  BY <1>2, <1>3, <1>4, <1>5, TotalIsLast

-----------------------------------------------------------------------------
(* The limits, and what is accepted.                                         *)

\* The totals of the loader are those of the sources it has read.
Counted ==
  /\ total_bytes = Total(Sizes(ContentsRead)) /\ total_bytes <= MaxTotalBytes
  /\ count = Total(Counts(ContentsRead)) /\ count <= MaxRecords

\* The first n sources are what the first n paths lead to.
ReadAsNamed ==
  \A k \in DOMAIN sources :
    /\ Readable(paths[k])
    /\ sources[k].inode = inode[paths[k]] /\ sources[k].content = content[inode[paths[k]]]
    /\ \A j \in DOMAIN sources : j < k => BaseName(paths[j]) # BaseName(paths[k])

\* What was decided so far is what Loadable says.
Decided ==
  /\ outcome \in {"loading", "returned"} => Len(paths) \in 1 .. MaxSources /\ ReadAsNamed
  /\ outcome = "invalid" => ~Loadable

Exact == IInv /\ Counted /\ (~others => Decided)

LEMMA SizesAreNumbers ==
  ASSUME NEW n \in Nat, NEW cs, DOMAIN cs = 1 .. n, \A k \in 1 .. n : cs[k] \in Contents
  PROVE  /\ Sizes(cs) \in Seq(Nat) /\ Len(Sizes(cs)) = n
         /\ Counts(cs) \in Seq(Nat) /\ Len(Counts(cs)) = n
         /\ \A k \in 1 .. n : Sizes(cs)[k] = cs[k].bytes /\ Counts(cs)[k] = Len(cs[k].ids)
<1>1. \A k \in 1 .. n : cs[k].bytes \in Nat /\ Len(cs[k].ids) \in Nat
  BY ContentsAreSized
<1>2. Sizes(cs) \in [1 .. n -> Nat] /\ Counts(cs) \in [1 .. n -> Nat]
  BY <1>1 DEF Sizes, Counts
<1>3. /\ Sizes(cs) \in Seq(Nat) /\ Len(Sizes(cs)) = n
      /\ Counts(cs) \in Seq(Nat) /\ Len(Counts(cs)) = n
  BY <1>2, SeqDef, LenProperties
<1> QED
  BY <1>3 DEF Sizes, Counts

\* The sizes and the record counts of the first n contents, and of one more.
LEMMA TotalsOfNone ==
  ASSUME NEW cs, DOMAIN cs = 1 .. 0
  PROVE  Total(Sizes(cs)) = 0 /\ Total(Counts(cs)) = 0
<1>1. /\ Sizes(cs) \in Seq(Nat) /\ Len(Sizes(cs)) = 0
      /\ Counts(cs) \in Seq(Nat) /\ Len(Counts(cs)) = 0
  BY SizesAreNumbers
<1> QED
  BY <1>1, TotalOfNone

LEMMA TotalsOfMore ==
  ASSUME NEW n \in Nat, NEW cs, NEW ds,
         DOMAIN cs = 1 .. n, \A k \in 1 .. n : cs[k] \in Contents,
         DOMAIN ds = 1 .. (n + 1), ds[n + 1] \in Contents, \A k \in 1 .. n : ds[k] = cs[k]
  PROVE  /\ Total(Sizes(ds)) = Total(Sizes(cs)) + ds[n + 1].bytes
         /\ Total(Counts(ds)) = Total(Counts(cs)) + Len(ds[n + 1].ids)
<1>1. /\ n + 1 \in Nat /\ n + 1 \in 1 .. (n + 1) /\ \A k \in 1 .. n : k \in 1 .. (n + 1)
      /\ \A k \in 1 .. (n + 1) : k = n + 1 \/ k \in 1 .. n
  OBVIOUS
<1>2. \A k \in 1 .. (n + 1) : ds[k] \in Contents
  BY <1>1
<1>3. /\ Sizes(cs) \in Seq(Nat) /\ Len(Sizes(cs)) = n
      /\ Counts(cs) \in Seq(Nat) /\ Len(Counts(cs)) = n
      /\ \A k \in 1 .. n : Sizes(cs)[k] = cs[k].bytes /\ Counts(cs)[k] = Len(cs[k].ids)
  BY SizesAreNumbers
<1>4. /\ Sizes(ds) \in Seq(Nat) /\ Len(Sizes(ds)) = n + 1
      /\ Counts(ds) \in Seq(Nat) /\ Len(Counts(ds)) = n + 1
      /\ \A k \in 1 .. (n + 1) : Sizes(ds)[k] = ds[k].bytes /\ Counts(ds)[k] = Len(ds[k].ids)
  BY <1>1, <1>2, SizesAreNumbers
<1>5. \A k \in 1 .. n : Sizes(cs)[k] = Sizes(ds)[k] /\ Counts(cs)[k] = Counts(ds)[k]
  BY <1>1, <1>3, <1>4
<1>6. Sizes(ds)[n + 1] = ds[n + 1].bytes /\ Counts(ds)[n + 1] = Len(ds[n + 1].ids)
  BY <1>1, <1>4
<1>7. Total(Sizes(ds)) = Total(Sizes(cs)) + ds[n + 1].bytes
  <2> DEFINE a == Sizes(cs)
             b == Sizes(ds)
  <2>1. /\ a \in Seq(Nat) /\ b \in Seq(Nat) /\ Len(b) = Len(a) + 1 /\ b[Len(b)] = ds[n + 1].bytes
        /\ \A k \in 1 .. Len(a) : a[k] = b[k]
    BY <1>3, <1>4, <1>5, <1>6
  <2> HIDE DEF a, b
  <2>2. Total(b) = Total(a) + b[Len(b)]
    BY <2>1, TotalOfMore
  <2> QED
    BY <2>1, <2>2 DEF a, b
<1>8. Total(Counts(ds)) = Total(Counts(cs)) + Len(ds[n + 1].ids)
  <2> DEFINE a == Counts(cs)
             b == Counts(ds)
  <2>1. /\ a \in Seq(Nat) /\ b \in Seq(Nat) /\ Len(b) = Len(a) + 1 /\ b[Len(b)] = Len(ds[n + 1].ids)
        /\ \A k \in 1 .. Len(a) : a[k] = b[k]
    BY <1>3, <1>4, <1>5, <1>6
  <2> HIDE DEF a, b
  <2>2. Total(b) = Total(a) + b[Len(b)]
    BY <2>1, TotalOfMore
  <2> QED
    BY <2>1, <2>2 DEF a, b
<1> QED
  BY <1>7, <1>8

LEMMA TotalsOfFirst ==
  ASSUME NEW n \in Nat, NEW m \in Nat, n <= m, NEW cs, NEW ds,
         DOMAIN cs = 1 .. n, DOMAIN ds = 1 .. m, \A k \in 1 .. m : ds[k] \in Contents,
         \A k \in 1 .. n : cs[k] = ds[k]
  PROVE  /\ {Total(Sizes(cs)), Total(Sizes(ds)), Total(Counts(cs)), Total(Counts(ds))} \subseteq Nat
         /\ Total(Sizes(cs)) <= Total(Sizes(ds)) /\ Total(Counts(cs)) <= Total(Counts(ds))
<1>1. \A k \in 1 .. n : k \in 1 .. m
  OBVIOUS
<1>2. \A k \in 1 .. n : cs[k] \in Contents
  BY <1>1
<1>3. /\ Sizes(cs) \in Seq(Nat) /\ Len(Sizes(cs)) = n
      /\ Counts(cs) \in Seq(Nat) /\ Len(Counts(cs)) = n
      /\ \A k \in 1 .. n : Sizes(cs)[k] = cs[k].bytes /\ Counts(cs)[k] = Len(cs[k].ids)
  BY <1>2, SizesAreNumbers
<1>4. /\ Sizes(ds) \in Seq(Nat) /\ Len(Sizes(ds)) = m
      /\ Counts(ds) \in Seq(Nat) /\ Len(Counts(ds)) = m
      /\ \A k \in 1 .. m : Sizes(ds)[k] = ds[k].bytes /\ Counts(ds)[k] = Len(ds[k].ids)
  BY SizesAreNumbers
<1>5. ASSUME NEW k \in 1 .. n PROVE Sizes(cs)[k] = Sizes(ds)[k] /\ Counts(cs)[k] = Counts(ds)[k]
  <2>1. Sizes(cs)[k] = cs[k].bytes /\ Counts(cs)[k] = Len(cs[k].ids)
    BY <1>3
  <2>2. Sizes(ds)[k] = ds[k].bytes /\ Counts(ds)[k] = Len(ds[k].ids)
    BY <1>1, <1>4
  <2> QED
    BY <2>1, <2>2
<1>6. /\ Total(Sizes(cs)) \in Nat /\ Total(Sizes(ds)) \in Nat
      /\ Total(Sizes(cs)) <= Total(Sizes(ds))
  BY <1>3, <1>4, <1>5, TotalOfFirst
<1>7. /\ Total(Counts(cs)) \in Nat /\ Total(Counts(ds)) \in Nat
      /\ Total(Counts(cs)) <= Total(Counts(ds))
  BY <1>3, <1>4, <1>5, TotalOfFirst
<1> QED
  BY <1>6, <1>7

\* Reading a source adds its size and its records to the totals.
LEMMA TakeCounts ==
  ASSUME IInv, Counted, NEW i \in Inodes, WithinLimits(content[i]), Take(i, content[i])
  PROVE  Counted'
<1> DEFINE c == content[i]
           new == [inode |-> i, content |-> c]
           n == Len(sources)
<1>1. c \in Contents /\ c.bytes \in Nat /\ Len(c.ids) \in Nat
  BY ContentsAreSized DEF IInv, TypeOK
<1>2. sources \in Seq(Source) /\ n \in Nat /\ DOMAIN sources = 1 .. n
  BY LenProperties DEF IInv, TypeOK, Source
<1>3. new \in Source
  BY <1>1 DEF Source
<1>4. /\ sources' \in Seq(Source) /\ DOMAIN sources' = 1 .. (n + 1)
      /\ sources'[n + 1] = new /\ \A k \in 1 .. n : sources'[k] = sources[k]
  BY <1>2, <1>3, AppendProperties, LenProperties DEF Take
<1> DEFINE old == ContentsRead
           now == ContentsRead'
<1>5. /\ old = [k \in 1 .. n |-> sources[k].content]
      /\ now = [k \in 1 .. (n + 1) |-> sources'[k].content]
  BY <1>2, <1>4 DEF ContentsRead
<1>6. /\ DOMAIN old = 1 .. n /\ \A k \in 1 .. n : old[k] \in Contents
      /\ DOMAIN now = 1 .. (n + 1) /\ \A k \in 1 .. (n + 1) : now[k] \in Contents
      /\ now[n + 1] = c /\ \A k \in 1 .. n : now[k] = old[k]
  <2> HIDE DEF old, now
  <2>1. \A k \in 1 .. n : sources[k] \in Source
    BY <1>2, ElementOfSeq
  <2>2. n + 1 \in 1 .. (n + 1) /\ \A k \in 1 .. (n + 1) : k = n + 1 \/ k \in 1 .. n
    BY <1>2
  <2>3. \A k \in 1 .. n : old[k] \in Contents /\ now[k] = old[k]
    BY <1>2, <1>4, <1>5, <2>1 DEF Source
  <2>4. now[n + 1] = c
    BY <1>4, <1>5, <2>2
  <2> QED
    BY <1>1, <1>5, <2>2, <2>3, <2>4
<1>7. Counted' <=> /\ total_bytes' = Total(Sizes(now)) /\ total_bytes' <= MaxTotalBytes
                   /\ count' = Total(Counts(now)) /\ count' <= MaxRecords
  BY DEF Counted, Sizes, Counts, Total
<1> HIDE DEF now
<1>8. total_bytes = Total(Sizes(old)) /\ count = Total(Counts(old))
  BY DEF Counted
<1> HIDE DEF old
<1>9. /\ Total(Sizes(now)) = Total(Sizes(old)) + c.bytes
      /\ Total(Counts(now)) = Total(Counts(old)) + Len(c.ids)
  BY <1>1, <1>2, <1>6, TotalsOfMore
<1> QED
  BY <1>7, <1>8, <1>9 DEF Take, WithinLimits


\* Nothing stops the loader at the next path of a request that can be loaded.
LEMMA NextFits ==
  ASSUME IInv, Counted, ReadAsNamed, Loadable, Position <= Len(paths)
  PROVE  /\ ~RepeatedName /\ Readable(CurrentPath)
         /\ NewIdentity(inode[CurrentPath]) /\ NewRecords(content[inode[CurrentPath]])
         /\ WithinLimits(content[inode[CurrentPath]])
<1> DEFINE n == Len(sources)
           p == n + 1
           all == ContentsNamed
           c == content[inode[CurrentPath]]
<1>1. /\ paths \in Seq(Paths) /\ Len(paths) \in Nat /\ DOMAIN paths = 1 .. Len(paths)
      /\ n \in Nat /\ DOMAIN sources = 1 .. n /\ p \in 1 .. Len(paths)
      /\ \A k \in 1 .. Len(paths) : paths[k] \in Paths
  BY LenProperties, ElementOfSeq DEF IInv, TypeOK, Position
<1>2. /\ CurrentPath = paths[p] /\ Position = p
      /\ \A j \in 1 .. n : j \in DOMAIN paths /\ j \in DOMAIN sources /\ j # p
  BY <1>1 DEF CurrentPath, Position
<1>3. /\ all = [k \in 1 .. Len(paths) |-> content[inode[paths[k]]]]
      /\ \A k \in 1 .. Len(paths) : inode[paths[k]] \in Inodes /\ all[k] \in Contents
  <2>1. all = [k \in 1 .. Len(paths) |-> content[inode[paths[k]]]]
    BY <1>1 DEF ContentsNamed
  <2>2. \A k \in 1 .. Len(paths) : inode[paths[k]] \in Inodes
    BY <1>1 DEF Loadable, Readable, IInv, TypeOK
  <2>3. content \in [Inodes -> Contents]
    BY DEF IInv, TypeOK
  <2> HIDE DEF all
  <2> QED
    BY <2>1, <2>2, <2>3
<1>4. ~RepeatedName
  BY <1>1, <1>2 DEF RepeatedName, Loadable
<1>5. Readable(CurrentPath) /\ IsInjective(c.ids)
  BY <1>1, <1>2, <1>3 DEF Loadable
<1>6. \A j \in 1 .. n : sources[j].inode = inode[paths[j]] /\ sources[j].content = all[j]
  BY <1>1, <1>2, <1>3 DEF ReadAsNamed
<1>7. NewIdentity(inode[CurrentPath])
  BY <1>1, <1>2, <1>6 DEF NewIdentity, Identities, Loadable
<1>8. NewRecords(c)
  <2>1. \A j \in 1 .. n : ToSet(c.ids) \cap ToSet(sources[j].content.ids) = {}
    BY <1>1, <1>2, <1>3, <1>6 DEF Loadable, IdsOf
  <2>2. record_ids = UNION {ToSet(sources[k].content.ids) : k \in 1 .. n}
    BY <1>1 DEF IInv, TypeOK
  <2> HIDE DEF c, n
  <2>3. ToSet(c.ids) \cap record_ids = {}
    BY <2>1, <2>2
  <2> QED
    BY <1>5, <2>3 DEF NewRecords
<1>9. WithinLimits(c)
  <2> DEFINE old == ContentsRead
             now == [k \in 1 .. p |-> all[k]]
             m == Len(paths)
  <2>1. old = [k \in 1 .. n |-> sources[k].content]
    BY <1>1 DEF ContentsRead
  <2>2. c = all[p]
    BY <1>1, <1>2, <1>3
  <2> HIDE DEF old, all, c
  <2>3. /\ m \in Nat /\ p \in Nat /\ p \in 1 .. p /\ p <= m
        /\ \A k \in 1 .. n : k \in 1 .. p /\ k \in 1 .. m
        /\ \A k \in 1 .. p : k \in 1 .. m
    BY <1>1
  <2>4. DOMAIN all = 1 .. m /\ \A k \in 1 .. m : all[k] \in Contents
    BY <1>3
  <2>5. DOMAIN now = 1 .. p /\ \A k \in 1 .. p : now[k] = all[k]
    OBVIOUS
  <2>6. DOMAIN old = 1 .. n /\ \A k \in 1 .. n : old[k] = sources[k].content
    BY <2>1
  <2> HIDE DEF now, p, m, n
  <2>7. /\ \A k \in 1 .. n : old[k] = all[k] /\ old[k] \in Contents
        /\ \A k \in 1 .. p : now[k] \in Contents
    BY <1>6, <2>3, <2>4, <2>5, <2>6
  <2>8. n \in Nat /\ p = n + 1
    BY <1>1 DEF p
  <2>9. /\ Total(Sizes(now)) = Total(Sizes(old)) + c.bytes
        /\ Total(Counts(now)) = Total(Counts(old)) + Len(c.ids)
    <3>1. /\ DOMAIN now = 1 .. (n + 1) /\ now[n + 1] = c /\ now[n + 1] \in Contents
          /\ \A k \in 1 .. n : now[k] = old[k] /\ old[k] \in Contents
      BY <2>2, <2>3, <2>5, <2>7, <2>8
    <3> QED
      BY <2>6, <2>8, <3>1, TotalsOfMore
  <2>10. /\ {Total(Sizes(now)), Total(Sizes(all)), Total(Counts(now)), Total(Counts(all))} \subseteq Nat
         /\ Total(Sizes(now)) <= Total(Sizes(all)) /\ Total(Counts(now)) <= Total(Counts(all))
    BY <2>3, <2>4, <2>5, TotalsOfFirst
  <2>11. total_bytes = Total(Sizes(old)) /\ count = Total(Counts(old))
    BY DEF Counted, old
  <2>12. Total(Sizes(all)) <= MaxTotalBytes /\ Total(Counts(all)) <= MaxRecords
    BY DEF Loadable, all
  <2> QED
    BY <2>9, <2>10, <2>11, <2>12, LimitsArePositive DEF WithinLimits
<1> QED
  BY <1>4, <1>5, <1>7, <1>8, <1>9

\* Taking the source of the current path reads it as it is named.
LEMMA TakeReads ==
  ASSUME IInv, ReadAsNamed, Position <= Len(paths), ~RepeatedName, Readable(CurrentPath),
         inode[CurrentPath] \in Inodes,
         Take(inode[CurrentPath], content[inode[CurrentPath]]), UNCHANGED files
  PROVE  ReadAsNamed'
<1> DEFINE n == Len(sources)
           i == inode[CurrentPath]
           new == [inode |-> i, content |-> content[i]]
<1>1. sources \in Seq(Source) /\ n \in Nat /\ DOMAIN sources = 1 .. n
  BY LenProperties DEF IInv, TypeOK, Source
<1>2. new \in Source
  BY DEF IInv, TypeOK, Source
<1>3. /\ DOMAIN sources' = 1 .. (n + 1) /\ sources'[n + 1] = new
      /\ \A k \in 1 .. n : sources'[k] = sources[k]
  BY <1>1, <1>2, AppendProperties, LenProperties DEF Take
<1>4. /\ CurrentPath = paths[n + 1] /\ \A j \in 1 .. n : BaseName(paths[j]) # BaseName(paths[n + 1])
      /\ paths' = paths /\ inode' = inode /\ content' = content
  BY <1>1 DEF CurrentPath, Position, RepeatedName, Take, files
<1> SUFFICES ASSUME NEW k \in DOMAIN sources'
             PROVE  /\ Readable(paths[k])
                    /\ sources'[k].inode = inode[paths[k]]
                    /\ sources'[k].content = content[inode[paths[k]]]
                    /\ \A j \in DOMAIN sources' : j < k => BaseName(paths[j]) # BaseName(paths[k])
  BY <1>4 DEF ReadAsNamed, Readable
<1>5. CASE k = n + 1
  <2>1. \A j \in 1 .. (n + 1) : j < k => j \in 1 .. n
    BY <1>1, <1>5
  <2> QED
    BY <1>3, <1>4, <1>5, <2>1
<1>6. CASE k \in 1 .. n
  <2>1. \A j \in 1 .. (n + 1) : j < k => j \in 1 .. n
    BY <1>1, <1>6
  <2> QED
    BY <1>1, <1>3, <1>6, <2>1 DEF ReadAsNamed
<1> QED
  BY <1>1, <1>3, <1>5, <1>6

\* All paths read as they are named: the request can be loaded.
LEMMA AllRead ==
  ASSUME IInv, Counted, ReadAsNamed, Len(sources) = Len(paths), Len(paths) \in 1 .. MaxSources
  PROVE  Loadable
<1> DEFINE n == Len(paths)
<1>1. n \in Nat /\ DOMAIN paths = 1 .. n /\ DOMAIN sources = 1 .. n
  BY LenProperties DEF IInv, TypeOK
<1>2. \A k \in 1 .. n : /\ Readable(paths[k]) /\ sources[k].inode = inode[paths[k]]
                        /\ sources[k].content = content[inode[paths[k]]]
  BY <1>1 DEF ReadAsNamed
<1>3. ContentsNamed = [k \in 1 .. n |-> content[inode[paths[k]]]]
  BY <1>1 DEF ContentsNamed
<1>4. ContentsRead = [k \in 1 .. n |-> sources[k].content]
  BY <1>1 DEF ContentsRead
<1>5. ContentsNamed = ContentsRead
  BY <1>2, <1>3, <1>4
<1>6. \A k \in 1 .. n : ContentsNamed[k] = sources[k].content
  BY <1>4, <1>5
<1>7. \A j, k \in 1 .. n : j # k => BaseName(paths[j]) # BaseName(paths[k])
  <2>1. \A j, k \in 1 .. n : j # k => j < k \/ k < j
    BY <1>1
  <2> QED
    BY <1>1, <2>1 DEF ReadAsNamed
<1>8. /\ \A k \in 1 .. n : IsInjective(ContentsNamed[k].ids)
      /\ \A j, k \in 1 .. n : j # k =>
           /\ inode[paths[j]] # inode[paths[k]]
           /\ IdsOf(ContentsNamed[j]) \cap IdsOf(ContentsNamed[k]) = {}
  <2>1. /\ \A j, k \in 1 .. n : j # k =>
             /\ sources[j].inode # sources[k].inode
             /\ IdsOf(sources[j].content) \cap IdsOf(sources[k].content) = {}
        /\ \A k \in 1 .. n : IsInjective(sources[k].content.ids)
    BY <1>1 DEF IInv, NothingTwice
  <2> HIDE DEF n
  <2>2. ASSUME NEW k \in 1 .. n PROVE IsInjective(ContentsNamed[k].ids)
    BY <1>6, <2>1
  <2>3. ASSUME NEW j \in 1 .. n, NEW k \in 1 .. n, j # k
        PROVE  /\ inode[paths[j]] # inode[paths[k]]
               /\ IdsOf(ContentsNamed[j]) \cap IdsOf(ContentsNamed[k]) = {}
    <3>1. ContentsNamed[j] = sources[j].content /\ ContentsNamed[k] = sources[k].content
      BY <1>6
    <3>2. IdsOf(ContentsNamed[j]) \cap IdsOf(ContentsNamed[k]) = {}
      BY <2>1, <2>3, <3>1
    <3>3. sources[j].inode = inode[paths[j]] /\ sources[k].inode = inode[paths[k]]
      BY <1>2
    <3> QED
      BY <2>1, <2>3, <3>2, <3>3
  <2> QED
    BY <2>2, <2>3
<1>9. Total(Sizes(ContentsNamed)) <= MaxTotalBytes /\ Total(Counts(ContentsNamed)) <= MaxRecords
  BY <1>5 DEF Counted
<1> QED
  BY <1>1, <1>2, <1>7, <1>8, <1>9 DEF Loadable

LEMMA InitExact == Init => Exact
<1> SUFFICES ASSUME Init PROVE Exact
  OBVIOUS
<1>1. IInv
  BY InitInvariant
<1>2. sources = <<>> /\ DOMAIN sources = {} /\ total_bytes = 0 /\ count = 0
  BY DEF Init
<1>3. Counted
  <2> DEFINE none == ContentsRead
  <2>1. DOMAIN none = 1 .. 0
    BY <1>2 DEF ContentsRead
  <2>2. Counted <=> /\ total_bytes = Total(Sizes(none)) /\ total_bytes <= MaxTotalBytes
                    /\ count = Total(Counts(none)) /\ count <= MaxRecords
    BY DEF Counted
  <2> HIDE DEF none
  <2>3. Total(Sizes(none)) = 0 /\ Total(Counts(none)) = 0
    BY <2>1, TotalsOfNone
  <2> QED
    BY <1>2, <2>2, <2>3, LimitsArePositive
<1>4. Decided
  <2>1. ReadAsNamed
    BY <1>2 DEF ReadAsNamed
  <2>2. Len(paths) \in Nat /\ (Len(paths) = 0 <=> paths = <<>>)
    BY LenProperties, EmptySeq DEF IInv, TypeOK, Init
  <2>3. outcome = "loading" => Len(paths) \in 1 .. MaxSources
    BY <2>2, LimitsArePositive DEF Init
  <2>4. outcome = "invalid" => ~Loadable
    BY <2>2, LimitsArePositive DEF Init, Loadable
  <2> QED
    BY <2>1, <2>3, <2>4 DEF Decided, Init
<1> QED
  BY <1>1, <1>3, <1>4 DEF Exact

LEMMA NextExact == Exact /\ [Next]_vars => Exact'
<1> SUFFICES ASSUME Exact, [Next]_vars PROVE Exact'
  OBVIOUS
<1>1. IInv /\ IInv'
  BY NextKeeps DEF Exact
<1>2. ASSUME UNCHANGED <<sources, count, total_bytes>> PROVE Counted'
  BY <1>2 DEF Exact, Counted, ContentsRead, Sizes, Counts
<1>3. ASSUME UNCHANGED <<sources, paths, inode, content, others>>, outcome' # "invalid" \/ ~Loadable,
             outcome' \in {"loading", "returned", "invalid"},
             outcome' = "invalid" \/ outcome \in {"loading", "returned"},
             ~others
      PROVE  Decided'
  BY <1>3 DEF Exact, Decided, ReadAsNamed, Loadable, Readable, ContentsNamed, IdsOf, Sizes, Counts
<1>4. CASE LoadNext
  <2>1. CASE Refuse
    <3>1. Position <= Len(paths) /\ UNCHANGED <<inode, content, others, paths, sources, count, total_bytes>>
      BY <1>4, <2>1 DEF LoadNext, Refuse, files
    <3>2. outcome = "loading" /\ outcome' = "invalid"
      BY <1>4, <2>1 DEF LoadNext, Refuse
    <3>3. ~others => ~Loadable
      <4> SUFFICES ASSUME ~others, Loadable PROVE FALSE
        OBVIOUS
      <4>1. ReadAsNamed /\ Counted
        BY <3>2 DEF Exact, Decided
      <4>2. /\ ~RepeatedName /\ Readable(CurrentPath)
            /\ NewIdentity(inode[CurrentPath]) /\ NewRecords(content[inode[CurrentPath]])
            /\ WithinLimits(content[inode[CurrentPath]])
        BY <1>1, <3>1, <4>1, NextFits
      <4> QED
        BY <1>4, <3>2, <4>2 DEF LoadNext, Take
    <3> QED
      BY <1>1, <1>2, <1>3, <3>1, <3>2, <3>3 DEF Exact
  <2>2. CASE ~Refuse
    <3>1. /\ outcome = "loading" /\ Position <= Len(paths) /\ UNCHANGED files
          /\ ~RepeatedName /\ Readable(CurrentPath)
          /\ WithinLimits(content[inode[CurrentPath]])
          /\ Take(inode[CurrentPath], content[inode[CurrentPath]])
      BY <1>4, <2>2 DEF LoadNext
    <3>2. CurrentPath \in Paths
      BY <1>1, <3>1, LenProperties, ElementOfSeq DEF CurrentPath, Position, IInv, TypeOK
    <3>3. inode[CurrentPath] \in Inodes
      BY <1>1, <3>1, <3>2 DEF Readable, IInv, TypeOK
    <3>4. Counted'
      BY <1>1, <3>1, <3>3, TakeCounts DEF Exact
    <3>5. ASSUME ~others' PROVE Decided'
      <4>1. /\ Len(paths) \in 1 .. MaxSources /\ ReadAsNamed
            /\ outcome' = "loading" /\ paths' = paths
        BY <3>1, <3>5 DEF Exact, Decided, Take, files
      <4>2. ReadAsNamed'
        BY <1>1, <3>1, <3>3, <4>1, TakeReads
      <4> QED
        BY <4>1, <4>2 DEF Decided
    <3> QED
      BY <1>1, <3>4, <3>5 DEF Exact
  <2> QED
    BY <2>1, <2>2
<1>5. CASE ReadFails
  <2>1. others' /\ UNCHANGED <<sources, count, total_bytes>>
    BY <1>5 DEF ReadFails, Refuse, files
  <2> QED
    BY <1>1, <1>2, <2>1 DEF Exact
<1>6. CASE Return
  <2>1. /\ UNCHANGED <<sources, paths, inode, content, others, count, total_bytes>>
        /\ outcome = "loading" /\ outcome' = "returned"
    BY <1>6 DEF Return, files
  <2> QED
    BY <1>1, <1>2, <1>3, <2>1 DEF Exact
<1>7. CASE Interfere
  <2>1. others' /\ UNCHANGED <<sources, count, total_bytes>>
    BY <1>7 DEF Interfere, Change, loader
  <2> QED
    BY <1>1, <1>2, <2>1 DEF Exact
<1>8. CASE UNCHANGED vars
  <2>1. UNCHANGED <<sources, paths, inode, content, others, count, total_bytes, outcome>>
    BY <1>8 DEF vars, files, loader
  <2>2. ASSUME ~others PROVE Decided'
    BY <2>1, <2>2 DEF Exact, Decided, ReadAsNamed, Loadable, Readable, ContentsNamed, IdsOf, Sizes, Counts
  <2> QED
    BY <1>1, <1>2, <2>1, <2>2 DEF Exact
<1> QED
  BY <1>4, <1>5, <1>6, <1>7, <1>8 DEF Next, Ended

LEMMA ExactAlways == Spec => []Exact
BY InitExact, NextExact, PTL DEF Spec

\* A bundle that is returned is whole: a source for every path, no file and no record
\* twice, and sizes and records within the limits.
THEOREM BundlesAreWhole == Spec => []WholeBundle
<1>1. Exact => WholeBundle
  BY DEF Exact, IInv, Counted, WholeBundle
<1> QED
  BY <1>1, ExactAlways, PTL

\* While nobody touches the files, a request is accepted exactly if it can be loaded,
\* which does not depend on the order of its paths.
THEOREM AcceptsExactlyLoadable == Spec => []AcceptsExactly
<1>1. Exact => AcceptsExactly
  <2> SUFFICES ASSUME Exact, ~others, outcome # "loading"
               PROVE  outcome = "returned" <=> Loadable
    BY DEF AcceptsExactly
  <2>1. outcome \in {"returned", "invalid"}
    BY DEF Exact, IInv, TypeOK
  <2>2. CASE outcome = "returned"
    BY <2>2, AllRead DEF Exact, Decided, IInv
  <2>3. CASE outcome = "invalid"
    BY <2>3 DEF Exact, Decided
  <2> QED
    BY <2>1, <2>2, <2>3
<1> QED
  BY <1>1, ExactAlways, PTL

(***************************************************************************)
(* load_replay_manifest.                                                   *)
(***************************************************************************)
DeclaredSource == [inode : Inodes, content : Contents, source_id : STRING]
Declaration == [source_id : STRING, path : STRING, adapter : STRING, sha256 : Contents]

\* The source at position k is the one declared there.
AsDeclared(k) ==
  /\ sources[k].content = Contracts[k].sha256
  /\ sources[k].source_id = Contracts[k].source_id
  /\ sources[k].content.adapter = Contracts[k].adapter

Declaring ==
  /\ Contracts \in Seq(Declaration)
  /\ \A k \in DOMAIN Contracts : <<manifest_path[1], Contracts[k].path>> \in Paths
  /\ Len(sources) <= Len(Contracts)
  /\ \A k \in DOMAIN sources : AsDeclared(k)

ReplayInv ==
  /\ ReplayTypeOK
  /\ NothingReplayedTwice
  /\ outcome = "manifest" => sources = <<>>
  /\ outcome \in {"loading", "returned"} => Declaring
  /\ outcome = "returned" => Len(sources) = Len(Contracts)

LEMMA ReplayInitInvariant == ReplayInit => ReplayInv
<1>1. ASSUME ReplayInit PROVE ReplayInv
  <2>1. /\ inode \in [Paths -> Inodes \cup {NoFile}] /\ content \in [Inodes -> Contents]
        /\ others \in BOOLEAN
    BY <1>1, InitialFilesAreFiles DEF ReplayInit, FilesInit
  <2>2. changes \in 0 .. MaxChanges
    BY <1>1, LimitsArePositive DEF ReplayInit, FilesInit
  <2>3. sources = <<>> /\ sources \in Seq(DeclaredSource) /\ DOMAIN sources = {}
    BY <1>1 DEF ReplayInit
  <2>4. record_ids = UNION {ToSet(sources[k].content.ids) : k \in DOMAIN sources}
    BY <1>1, <2>3 DEF ReplayInit
  <2>5. outcome = "manifest" /\ manifest = {} /\ count \in Nat /\ total_bytes \in Nat /\ manifest_path \in Manifests
    BY <1>1 DEF ReplayInit
  <2>6. ReplayTypeOK
    BY <2>1, <2>2, <2>3, <2>4, <2>5 DEF ReplayTypeOK, DeclaredSource
  <2> QED
    BY <2>3, <2>5, <2>6 DEF ReplayInv, NothingReplayedTwice
<1> QED
  BY <1>1

\* A refusal, and a return once every declared source was read.
LEMMA EndKeeps ==
  ASSUME ReplayInv, NEW e \in {"invalid", "returned"}, outcome' = e,
         e = "returned" => outcome = "loading" /\ Len(sources) = Len(Contracts),
         UNCHANGED <<manifest_path, manifest, sources, record_ids, count, total_bytes, files>>
  PROVE  ReplayInv'
<1>1. ReplayTypeOK'
  BY DEF ReplayInv, ReplayTypeOK, files
<1>2. NothingReplayedTwice'
  BY DEF ReplayInv, NothingReplayedTwice
<1>3. e = "returned" => (Declaring /\ Len(sources) = Len(Contracts))'
  BY DEF ReplayInv, Declaring, AsDeclared, Contracts
<1> QED
  BY <1>1, <1>2, <1>3 DEF ReplayInv

\* Reading the manifest fixes what is declared.
LEMMA ManifestKeeps ==
  ASSUME ReplayInv, LoadManifest, ~RefuseReplay
  PROVE  ReplayInv'
<1> DEFINE i == inode[manifest_path]
           read == [inode |-> i, content |-> content[i]]
<1>1. /\ outcome = "manifest" /\ outcome' = "loading" /\ Readable(manifest_path)
      /\ DeclaresSources(content[i]) /\ manifest' = {read} /\ total_bytes' = content[i].bytes
      /\ UNCHANGED <<manifest_path, sources, record_ids, count, files>>
  BY DEF LoadManifest
<1>2. manifest_path \in Manifests /\ manifest_path \in Paths
  BY DeclaredPathsAreNamed DEF ReplayInv, ReplayTypeOK
<1>3. i \in Inodes /\ content[i] \in Contents
  BY <1>1, <1>2 DEF Readable, ReplayInv, ReplayTypeOK
<1>4. read \in Taken
  BY <1>3 DEF Taken
<1>5. total_bytes' \in Nat
  BY <1>1, <1>3, ContentsAreSized
<1>6. ReplayTypeOK'
  BY <1>1, <1>4, <1>5 DEF ReplayInv, ReplayTypeOK, files
<1>7. sources' = <<>> /\ DOMAIN sources' = {} /\ Len(sources') = 0
  BY <1>1 DEF ReplayInv
<1>8. NothingReplayedTwice'
  BY <1>7 DEF NothingReplayedTwice
<1>9. Contracts' = content[i].declares
  <2>1. (CHOOSE m \in {read} : TRUE) = read
    OBVIOUS
  <2>2. (CHOOSE m \in manifest' : TRUE) = read
    BY <1>1, <2>1
  <2>3. Contracts' = (CHOOSE m \in manifest' : TRUE).content.declares
    BY DEF Contracts
  <2>4. read.content = content[i]
    OBVIOUS
  <2> QED
    BY <2>2, <2>3, <2>4
<1>10. Contracts' \in Seq(Declaration) /\ Len(Contracts') \in Nat
  BY <1>3, <1>9, DeclarationsAreSequences, LenProperties DEF Declaration
<1>11. \A k \in DOMAIN Contracts' : <<manifest_path'[1], Contracts'[k].path>> \in Paths
  BY <1>1, <1>2, <1>3, <1>9, DeclaredPathsAreNamed
<1>12. Declaring'
  BY <1>7, <1>10, <1>11 DEF Declaring
<1> QED
  BY <1>1, <1>6, <1>8, <1>12 DEF ReplayInv

\* Taking a source that was checked keeps what the sources are.
LEMMA TakeDeclaredKeeps ==
  ASSUME ReplayInv, outcome = "loading", Len(sources) < Len(Contracts), NEW i \in Inodes,
         Acceptable(i, content[i]), TakeDeclared(i, content[i]), UNCHANGED files
  PROVE  ReplayInv'
<1> DEFINE n == Len(sources) + 1
           new == [inode |-> i, content |-> content[i], source_id |-> Contract.source_id]
<1>1. sources \in Seq(DeclaredSource) /\ Len(sources) \in Nat /\ DOMAIN sources = 1 .. Len(sources)
  BY LenProperties DEF ReplayInv, ReplayTypeOK, DeclaredSource
<1>2. /\ Contracts \in Seq(Declaration) /\ Len(Contracts) \in Nat
      /\ DOMAIN Contracts = 1 .. Len(Contracts)
  BY LenProperties DEF ReplayInv, Declaring
<1>3. Contract \in Declaration /\ Contract = Contracts[n]
  BY <1>1, <1>2, ElementOfSeq DEF Contract
<1>4. content[i] \in Contents /\ new \in DeclaredSource
  BY <1>3 DEF ReplayInv, ReplayTypeOK, DeclaredSource, Declaration
<1>5. /\ sources' \in Seq(DeclaredSource) /\ Len(sources') = n
      /\ DOMAIN sources' = DOMAIN sources \cup {n}
      /\ \A k \in DOMAIN sources : sources'[k] = sources[k]
      /\ sources'[n] = new
  BY <1>1, <1>4, AppendProperties DEF TakeDeclared
<1>6. record_ids' = UNION {ToSet(sources'[k].content.ids) : k \in DOMAIN sources'}
  BY <1>5 DEF ReplayInv, ReplayTypeOK, TakeDeclared
<1>7. count' \in Nat /\ total_bytes' \in Nat
  BY <1>4, ContentsAreSized DEF ReplayInv, ReplayTypeOK, TakeDeclared
<1>8. ReplayTypeOK'
  BY <1>5, <1>6, <1>7 DEF ReplayInv, ReplayTypeOK, TakeDeclared, files, DeclaredSource
<1>9. \A j \in DOMAIN sources :
        /\ sources[j].inode # i
        /\ ToSet(sources[j].content.ids) \cap ToSet(content[i].ids) = {}
        /\ ToSet(content[i].ids) \cap ToSet(sources[j].content.ids) = {}
  <2>1. \A j \in DOMAIN sources : sources[j] \in manifest \cup ToSet(sources)
    BY DEF ToSet
  <2>2. \A j \in DOMAIN sources : sources[j].inode # i
    BY <2>1 DEF Acceptable, ReplayIdentities
  <2>3. \A j \in DOMAIN sources : ToSet(sources[j].content.ids) \subseteq record_ids
    BY DEF ReplayInv, ReplayTypeOK
  <2>4. ToSet(content[i].ids) \cap record_ids = {}
    BY DEF Acceptable, NewRecords
  <2> QED
    BY <2>2, <2>3, <2>4
<1>10. (\A m \in manifest : m.inode # i) /\ IsInjective(content[i].ids)
  BY DEF Acceptable, ReplayIdentities, NewRecords
<1>11. \A j, k \in DOMAIN sources' : j # k =>
         /\ sources'[j].inode # sources'[k].inode
         /\ ToSet(sources'[j].content.ids) \cap ToSet(sources'[k].content.ids) = {}
  <2> SUFFICES ASSUME NEW j \in DOMAIN sources', NEW k \in DOMAIN sources', j # k
               PROVE  /\ sources'[j].inode # sources'[k].inode
                      /\ ToSet(sources'[j].content.ids) \cap ToSet(sources'[k].content.ids) = {}
    OBVIOUS
  <2>1. CASE j \in DOMAIN sources /\ k \in DOMAIN sources
    BY <2>1, <1>5 DEF ReplayInv, NothingReplayedTwice
  <2>2. sources'[n].inode = i /\ sources'[n].content = content[i]
    BY <1>5
  <2>3. CASE j = n /\ k \in DOMAIN sources
    <3>1. sources'[k] = sources[k]
      BY <2>3, <1>5
    <3> QED
      BY <2>2, <2>3, <3>1, <1>9
  <2>4. CASE k = n /\ j \in DOMAIN sources
    <3>1. sources'[j] = sources[j]
      BY <2>4, <1>5
    <3> QED
      BY <2>2, <2>4, <3>1, <1>9
  <2> QED
    BY <2>1, <2>3, <2>4, <1>5
<1>12. NothingReplayedTwice'
  <2>1. \A m \in manifest', k \in DOMAIN sources' : m.inode # sources'[k].inode
    BY <1>5, <1>10 DEF NothingReplayedTwice, ReplayInv, TakeDeclared
  <2>2. \A k \in DOMAIN sources' : IsInjective(sources'[k].content.ids)
    BY <1>5, <1>10 DEF NothingReplayedTwice, ReplayInv
  <2> QED
    BY <2>1, <2>2, <1>11 DEF NothingReplayedTwice
<1>13. Contracts' = Contracts
  BY DEF TakeDeclared, Contracts
<1>14. \A k : k = n => AsDeclared(k)'
  BY <1>3, <1>5, <1>13 DEF AsDeclared, Acceptable, Pinned, Adapts
<1>15. \A k \in DOMAIN sources : AsDeclared(k)'
  BY <1>5, <1>13 DEF AsDeclared, ReplayInv, Declaring
<1>16. Declaring'
  BY <1>1, <1>2, <1>5, <1>13, <1>14, <1>15 DEF Declaring, ReplayInv, TakeDeclared
<1> QED
  BY <1>8, <1>12, <1>16 DEF ReplayInv, TakeDeclared

LEMMA ReplayNextKeeps == ReplayInv /\ [ReplayNext]_replayVars => ReplayInv'
<1> SUFFICES ASSUME ReplayInv, [ReplayNext]_replayVars PROVE ReplayInv'
  OBVIOUS
<1>1. ASSUME LoadManifest PROVE ReplayInv'
  BY <1>1, ManifestKeeps, EndKeeps DEF LoadManifest, RefuseReplay
<1>2. ASSUME LoadDeclared PROVE ReplayInv'
  <2>1. CASE RefuseReplay
    BY <2>1, <1>2, EndKeeps DEF RefuseReplay, LoadDeclared
  <2>2. CASE ~RefuseReplay
    <3>1. /\ outcome = "loading" /\ Len(sources) < Len(Contracts) /\ UNCHANGED files
          /\ Readable(SourcePath)
          /\ Acceptable(inode[SourcePath], content[inode[SourcePath]])
          /\ TakeDeclared(inode[SourcePath], content[inode[SourcePath]])
      BY <2>2, <1>2 DEF LoadDeclared
    <3>2. Len(sources) + 1 \in DOMAIN Contracts
      BY <3>1, LenProperties DEF ReplayInv, ReplayTypeOK, Declaring
    <3>3. SourcePath \in Paths
      BY <3>1, <3>2 DEF SourcePath, Contract, ReplayInv, Declaring
    <3>4. inode[SourcePath] \in Inodes
      BY <3>1, <3>3 DEF Readable, ReplayInv, ReplayTypeOK
    <3> QED
      BY <3>1, <3>4, TakeDeclaredKeeps
  <2> QED
    BY <2>1, <2>2
<1>3. ASSUME ReplayReadFails PROVE ReplayInv'
  BY <1>3, EndKeeps DEF ReplayReadFails, RefuseReplay
<1>4. ASSUME ReturnReplay PROVE ReplayInv'
  BY <1>4, EndKeeps DEF ReturnReplay
<1>5. ASSUME InterfereReplay PROVE ReplayInv'
  <2>1. /\ inode' \in [Paths -> Inodes \cup {NoFile}] /\ content' \in [Inodes -> Contents]
    BY <1>5 DEF InterfereReplay, Change, Rewrite, Rebind, ReplayInv, ReplayTypeOK
  <2>2. others' \in BOOLEAN /\ changes' \in 0 .. MaxChanges
    BY <1>5, LimitsArePositive DEF InterfereReplay, Change, ReplayInv, ReplayTypeOK
  <2>3. ReplayTypeOK'
    BY <2>1, <2>2, <1>5 DEF InterfereReplay, replay, ReplayInv, ReplayTypeOK
  <2> QED
    BY <2>3, <1>5 DEF InterfereReplay, replay, ReplayInv, NothingReplayedTwice, Declaring, AsDeclared, Contracts
<1>6. ASSUME UNCHANGED replayVars PROVE ReplayInv'
  <2>1. ReplayTypeOK'
    BY <1>6 DEF replayVars, files, replay, ReplayInv, ReplayTypeOK
  <2> QED
    BY <2>1, <1>6 DEF replayVars, replay, ReplayInv, NothingReplayedTwice, Declaring, AsDeclared, Contracts
<1> QED
  BY <1>1, <1>2, <1>3, <1>4, <1>5, <1>6 DEF ReplayNext, ReplayEnded

\* The inductive invariant holds in every reachable state of the loader.
THEOREM ReplayInvariance == ReplaySpec => []ReplayInv
BY ReplayInitInvariant, ReplayNextKeeps, PTL DEF ReplaySpec

\* Every variable of the loader keeps its type, and the record ids it remembers are
\* those of the sources it has read.
THEOREM ReplayTypeCorrectness == ReplaySpec => []ReplayTypeOK
<1>1. ReplayInv => ReplayTypeOK
  BY DEF ReplayInv
<1> QED
  BY ReplayInvariance, <1>1, PTL

\* A replay that is returned is a function of the manifest that was read: each
\* declared source, in order and under its id, with the declared content.
THEOREM ReplaysArePinned == ReplaySpec => []PinnedBundle
<1>1. ReplayInv => PinnedBundle
  BY DEF ReplayInv, PinnedBundle, Declaring, AsDeclared
<1> QED
  BY ReplayInvariance, <1>1, PTL

\* No file, the manifest's included, and no record is in a replay twice.
THEOREM ReplaysHaveNothingTwice == ReplaySpec => []NothingReplayedTwice
<1>1. ReplayInv => NothingReplayedTwice
  BY DEF ReplayInv
<1> QED
  BY ReplayInvariance, <1>1, PTL

-----------------------------------------------------------------------------
(* The limits, and what is accepted.                                         *)

\* The totals are those of the manifest and of the sources read so far.
ReplayCounted ==
  /\ \A m \in manifest : total_bytes = m.content.bytes + Total(Sizes(ContentsRead))
  /\ count = Total(Counts(ContentsRead)) /\ count <= MaxRecords
  /\ sources # <<>> => total_bytes <= MaxTotalBytes
  /\ outcome \in {"loading", "returned"} => Len(Contracts) > 0

ManifestNow == [inode |-> inode[manifest_path], content |-> content[inode[manifest_path]]]

\* The manifest and the first n sources are what the paths lead to.
ReadAsDeclared ==
  /\ Readable(manifest_path) /\ DeclaresSources(ManifestNow.content)
  /\ manifest = {ManifestNow}
  /\ \A k \in DOMAIN sources :
       /\ Readable(EntryPath(k))
       /\ sources[k].inode = inode[EntryPath(k)]
       /\ sources[k].content = content[inode[EntryPath(k)]]
       /\ sources[k].content.csv => sources[k].content.adapter = "canonical"

\* What was decided so far is what Replayable says.
ReplayDecided ==
  /\ outcome \in {"loading", "returned"} => ReadAsDeclared
  /\ outcome = "invalid" => ~Replayable

ReplayExact == ReplayInv /\ ReplayCounted /\ (~others => ReplayDecided)

\* Before a source is read the totals are those of no source.
LEMMA NothingRead ==
  ASSUME DOMAIN sources = {}
  PROVE  Total(Sizes(ContentsRead)) = 0 /\ Total(Counts(ContentsRead)) = 0
<1> DEFINE none == ContentsRead
<1>1. DOMAIN none = 1 .. 0
  BY DEF ContentsRead
<1> HIDE DEF none
<1>2. Total(Sizes(none)) = 0 /\ Total(Counts(none)) = 0
  BY <1>1, TotalsOfNone
<1> QED
  BY <1>2 DEF none

LEMMA OneManifest == ASSUME NEW m, manifest = {m} PROVE Contracts = m.content.declares
<1>1. (CHOOSE x \in {m} : TRUE) = m
  OBVIOUS
<1> QED
  BY <1>1 DEF Contracts

LEMMA SameEntries == ASSUME ReadAsDeclared PROVE Contracts = Entries
<1>1. ManifestNow.content = content[inode[manifest_path]]
  BY DEF ManifestNow
<1>2. Contracts = ManifestNow.content.declares
  BY OneManifest DEF ReadAsDeclared
<1> QED
  BY <1>1, <1>2 DEF Entries

\* Reading a source adds its size and its records to the totals.
LEMMA TakeDeclaredCounts ==
  ASSUME ReplayInv, ReplayCounted, outcome = "loading", Len(sources) < Len(Contracts), NEW i \in Inodes,
         Acceptable(i, content[i]), TakeDeclared(i, content[i]), UNCHANGED files, ReplayInv'
  PROVE  ReplayCounted'
<1> DEFINE c == content[i]
           n == Len(sources)
<1>1. c \in Contents /\ c.bytes \in Nat /\ Len(c.ids) \in Nat
  BY ContentsAreSized DEF ReplayInv, ReplayTypeOK
<1>2. sources \in Seq(DeclaredSource) /\ n \in Nat /\ DOMAIN sources = 1 .. n
  BY LenProperties DEF ReplayInv, ReplayTypeOK, DeclaredSource
<1>3. /\ Contracts \in Seq(Declaration) /\ Len(Contracts) \in Nat
      /\ DOMAIN Contracts = 1 .. Len(Contracts) /\ n + 1 \in 1 .. Len(Contracts)
  BY <1>2, LenProperties DEF ReplayInv, Declaring
<1>4. Contract \in Declaration
  BY <1>3, ElementOfSeq DEF Contract
<1> DEFINE new == [inode |-> i, content |-> c, source_id |-> Contract.source_id]
<1>5. new \in DeclaredSource
  BY <1>1, <1>4 DEF DeclaredSource, Declaration
<1>6. /\ sources' \in Seq(DeclaredSource) /\ DOMAIN sources' = 1 .. (n + 1)
      /\ sources'[n + 1] = new /\ \A k \in 1 .. n : sources'[k] = sources[k]
  BY <1>2, <1>5, AppendProperties, LenProperties DEF TakeDeclared
<1> DEFINE old == ContentsRead
           now == ContentsRead'
<1>7. /\ old = [k \in 1 .. n |-> sources[k].content]
      /\ now = [k \in 1 .. (n + 1) |-> sources'[k].content]
  BY <1>2, <1>6 DEF ContentsRead
<1>8. /\ DOMAIN old = 1 .. n /\ \A k \in 1 .. n : old[k] \in Contents
      /\ DOMAIN now = 1 .. (n + 1)
      /\ now[n + 1] = c /\ \A k \in 1 .. n : now[k] = old[k]
  <2> HIDE DEF old, now
  <2>1. \A k \in 1 .. n : sources[k] \in DeclaredSource
    BY <1>2, ElementOfSeq
  <2>2. n + 1 \in 1 .. (n + 1) /\ \A k \in 1 .. n : k \in 1 .. (n + 1)
    BY <1>2
  <2>3. \A k \in 1 .. n : old[k] \in Contents /\ now[k] = old[k]
    BY <1>2, <1>6, <1>7, <2>1, <2>2 DEF DeclaredSource
  <2>4. now[n + 1] = c
    BY <1>6, <1>7, <2>2
  <2> QED
    BY <1>7, <2>3, <2>4
<1> HIDE DEF old, now
<1>9. /\ Total(Sizes(now)) = Total(Sizes(old)) + c.bytes
      /\ Total(Counts(now)) = Total(Counts(old)) + Len(c.ids)
  <2>1. now[n + 1] \in Contents /\ now[n + 1] = c
    BY <1>1, <1>8
  <2> HIDE DEF c, n
  <2> QED
    BY <1>2, <1>8, <2>1, TotalsOfMore
<1>10. /\ DOMAIN old = 1 .. n /\ \A k \in 1 .. n : old[k] \in Contents
  BY <1>8
<1>11. Total(Sizes(old)) \in Nat
  BY <1>2, <1>10, TotalsOfFirst
<1>12. /\ \A m \in manifest : total_bytes = m.content.bytes + Total(Sizes(old))
       /\ count = Total(Counts(old))
  BY DEF ReplayCounted, old
<1>13. \A m \in manifest : m.content.bytes \in Nat
  BY ContentsAreSized DEF ReplayInv, ReplayTypeOK, Taken
<1>14. /\ manifest' = manifest /\ total_bytes' = total_bytes + c.bytes
       /\ count' = count + Len(c.ids) /\ outcome' = outcome
       /\ total_bytes' <= MaxTotalBytes /\ count' <= MaxRecords
  BY DEF TakeDeclared, Acceptable
<1>15. \A m \in manifest' : total_bytes' = m.content.bytes + Total(Sizes(now))
  BY <1>1, <1>9, <1>11, <1>12, <1>13, <1>14
<1>16. count' = Total(Counts(now))
  BY <1>9, <1>12, <1>14
<1>17. Contracts' = Contracts
  BY <1>14 DEF Contracts
<1> QED
  BY <1>14, <1>15, <1>16, <1>17 DEF ReplayCounted, Sizes, Counts, Total, now

\* Nothing stops the loader at the next source of a manifest that can be replayed.
LEMMA DeclaredFits ==
  ASSUME ReplayInv, ReplayCounted, ReadAsDeclared, Replayable, outcome = "loading",
         Len(sources) < Len(Contracts)
  PROVE  Readable(SourcePath) /\ Acceptable(inode[SourcePath], content[inode[SourcePath]])
<1> DEFINE n == Len(sources)
           p == n + 1
           all == ContentsDeclared
           c == content[inode[SourcePath]]
<1>1. Contracts = Entries
  BY SameEntries
<1>2. /\ Contracts \in Seq(Declaration) /\ Len(Contracts) \in Nat
      /\ DOMAIN Contracts = 1 .. Len(Contracts)
      /\ n \in Nat /\ DOMAIN sources = 1 .. n /\ p \in 1 .. Len(Contracts)
  BY LenProperties DEF ReplayInv, Declaring, ReplayTypeOK
<1>3. /\ SourcePath = EntryPath(p) /\ Contract = Entries[p] /\ p \in DOMAIN Entries
  BY <1>1, <1>2 DEF SourcePath, Contract, EntryPath
<1>4. /\ DOMAIN all = 1 .. Len(Contracts)
      /\ \A k \in 1 .. Len(Contracts) : all[k] = content[inode[EntryPath(k)]] /\ all[k] \in Contents
  <2>1. all = [k \in 1 .. Len(Contracts) |-> content[inode[EntryPath(k)]]]
    BY <1>1, <1>2 DEF ContentsDeclared
  <2>2. \A k \in 1 .. Len(Contracts) : EntryPath(k) \in Paths
    BY <1>1, <1>2 DEF EntryPath, ReplayInv, Declaring
  <2>3. \A k \in 1 .. Len(Contracts) : inode[EntryPath(k)] \in Inodes
    BY <1>1, <1>2, <2>2 DEF Replayable, Fits, Readable, ReplayInv, ReplayTypeOK
  <2>4. content \in [Inodes -> Contents]
    BY DEF ReplayInv, ReplayTypeOK
  <2> HIDE DEF all
  <2> QED
    BY <2>1, <2>3, <2>4
<1>5. c = all[p]
  BY <1>2, <1>3, <1>4
<1>6. Fits(p)
  BY <1>3 DEF Replayable
<1>7. /\ Readable(SourcePath) /\ inode[SourcePath] # inode[manifest_path]
      /\ c = Contract.sha256 /\ c.adapter = Contract.adapter
      /\ (c.csv => c.adapter = "canonical") /\ IsInjective(c.ids)
  BY <1>3, <1>5, <1>6 DEF Fits
<1>8. \A j \in 1 .. n : /\ j \in 1 .. Len(Contracts) /\ j # p
                        /\ sources[j].inode = inode[EntryPath(j)] /\ sources[j].content = all[j]
  BY <1>2, <1>4 DEF ReadAsDeclared
<1>9. \A j \in 1 .. n : /\ inode[SourcePath] # sources[j].inode
                        /\ ToSet(c.ids) \cap ToSet(sources[j].content.ids) = {}
  <2> SUFFICES ASSUME NEW j \in 1 .. n
               PROVE  /\ inode[SourcePath] # sources[j].inode
                      /\ ToSet(c.ids) \cap ToSet(sources[j].content.ids) = {}
    OBVIOUS
  <2>1. j \in DOMAIN Entries /\ p \in DOMAIN Entries /\ j # p
    BY <1>1, <1>2, <1>8
  <2>2. /\ inode[EntryPath(p)] # inode[EntryPath(j)]
        /\ ToSet(ContentsDeclared[p].ids) \cap ToSet(ContentsDeclared[j].ids) = {}
    BY <2>1 DEF Replayable
  <2>3. ContentsDeclared[p] = c /\ ContentsDeclared[j] = sources[j].content
    BY <1>5, <1>8
  <2> QED
    BY <1>3, <1>8, <2>2, <2>3
<1>10. inode[SourcePath] \notin ReplayIdentities
  <2>1. \A s \in ToSet(sources) : inode[SourcePath] # s.inode
    BY <1>2, <1>9 DEF ToSet
  <2>2. \A m \in manifest : inode[SourcePath] # m.inode
    BY <1>7 DEF ReadAsDeclared, ManifestNow
  <2> QED
    BY <2>1, <2>2 DEF ReplayIdentities
<1>11. Pinned(c) /\ Adapts(c)
  BY <1>7 DEF Pinned, Adapts
<1>12. NewRecords(c)
  <2>1. record_ids = UNION {ToSet(sources[k].content.ids) : k \in 1 .. n}
    BY <1>2 DEF ReplayInv, ReplayTypeOK
  <2> HIDE DEF c, n
  <2>2. ToSet(c.ids) \cap record_ids = {}
    BY <1>9, <2>1
  <2> QED
    BY <1>7, <2>2 DEF NewRecords
<1>13. total_bytes + c.bytes <= MaxTotalBytes /\ count + Len(c.ids) <= MaxRecords
  <2> DEFINE old == ContentsRead
             now == [k \in 1 .. p |-> all[k]]
             m == Len(Contracts)
             read == content[inode[manifest_path]]
  <2>1. old = [k \in 1 .. n |-> sources[k].content]
    BY <1>2 DEF ContentsRead
  <2> HIDE DEF old, all, c
  <2>2. /\ m \in Nat /\ n \in Nat /\ p \in Nat /\ p \in 1 .. p /\ p <= m /\ p = n + 1
        /\ \A k \in 1 .. n : k \in 1 .. p /\ k \in 1 .. m
        /\ \A k \in 1 .. p : k \in 1 .. m
    BY <1>2
  <2>3. DOMAIN all = 1 .. m /\ \A k \in 1 .. m : all[k] \in Contents
    BY <1>4
  <2>4. DOMAIN now = 1 .. p /\ \A k \in 1 .. p : now[k] = all[k]
    OBVIOUS
  <2>5. DOMAIN old = 1 .. n /\ \A k \in 1 .. n : old[k] = sources[k].content
    BY <2>1
  <2> HIDE DEF now, p, m, n
  <2>6. /\ \A k \in 1 .. n : old[k] = all[k] /\ old[k] \in Contents
        /\ \A k \in 1 .. p : now[k] \in Contents
    BY <1>8, <2>2, <2>3, <2>4, <2>5
  <2>7. /\ Total(Sizes(now)) = Total(Sizes(old)) + c.bytes
        /\ Total(Counts(now)) = Total(Counts(old)) + Len(c.ids)
    <3>1. /\ DOMAIN now = 1 .. (n + 1) /\ now[n + 1] = c /\ now[n + 1] \in Contents
          /\ \A k \in 1 .. n : now[k] = old[k] /\ old[k] \in Contents
      BY <1>5, <2>2, <2>4, <2>6
    <3> QED
      BY <2>2, <2>5, <3>1, TotalsOfMore
  <2>8. /\ {Total(Sizes(now)), Total(Sizes(all)), Total(Counts(now)), Total(Counts(all))} \subseteq Nat
        /\ Total(Sizes(now)) <= Total(Sizes(all)) /\ Total(Counts(now)) <= Total(Counts(all))
    BY <2>2, <2>3, <2>4, TotalsOfFirst
  <2>9. /\ Total(Sizes(old)) \in Nat /\ Total(Counts(old)) \in Nat
    BY <2>2, <2>3, <2>5, <2>6, TotalsOfFirst
  <2>10. total_bytes = read.bytes + Total(Sizes(old)) /\ count = Total(Counts(old))
    BY DEF ReplayCounted, ReadAsDeclared, ManifestNow, old
  <2>11. /\ read.bytes + Total(Sizes(all)) <= MaxTotalBytes
         /\ Total(Counts(all)) <= MaxRecords
    BY DEF Replayable, all
  <2>12. c \in Contents /\ c.bytes \in Nat /\ Len(c.ids) \in Nat
    BY <1>5, <2>2, <2>3, ContentsAreSized
  <2>13. read.bytes \in Nat
    <3>1. ManifestNow \in Taken /\ ManifestNow.content = read
      BY DEF ReadAsDeclared, ReplayInv, ReplayTypeOK, ManifestNow
    <3> QED
      BY <3>1, ContentsAreSized DEF Taken
  <2> HIDE DEF read
  <2>14. MaxTotalBytes \in Nat /\ MaxRecords \in Nat
    BY LimitsArePositive
  <2>15. total_bytes + c.bytes <= MaxTotalBytes
    <3>1. total_bytes + c.bytes = read.bytes + Total(Sizes(now))
      BY <2>7, <2>9, <2>10, <2>12, <2>13
    <3>2. read.bytes + Total(Sizes(now)) <= read.bytes + Total(Sizes(all))
      BY <2>8, <2>13
    <3> QED
      BY <2>8, <2>11, <2>13, <2>14, <3>1, <3>2
  <2>16. count + Len(c.ids) <= MaxRecords
    BY <2>7, <2>8, <2>9, <2>10, <2>11, <2>12, <2>14
  <2> QED
    BY <2>15, <2>16
<1> QED
  BY <1>7, <1>10, <1>11, <1>12, <1>13 DEF Acceptable

\* Taking the next source reads it as it is named.
LEMMA TakeDeclaredReads ==
  ASSUME ReplayInv, ReadAsDeclared, outcome = "loading", Len(sources) < Len(Contracts),
         Readable(SourcePath), inode[SourcePath] \in Inodes,
         Acceptable(inode[SourcePath], content[inode[SourcePath]]),
         TakeDeclared(inode[SourcePath], content[inode[SourcePath]]), UNCHANGED files
  PROVE  ReadAsDeclared'
<1> DEFINE n == Len(sources)
           i == inode[SourcePath]
           new == [inode |-> i, content |-> content[i], source_id |-> Contract.source_id]
<1>1. Contracts = Entries
  BY SameEntries
<1>2. /\ Contracts \in Seq(Declaration) /\ Len(Contracts) \in Nat
      /\ DOMAIN Contracts = 1 .. Len(Contracts)
      /\ sources \in Seq(DeclaredSource) /\ n \in Nat /\ DOMAIN sources = 1 .. n
      /\ n + 1 \in 1 .. Len(Contracts)
  BY LenProperties DEF ReplayInv, Declaring, ReplayTypeOK, DeclaredSource
<1>3. Contract \in Declaration
  BY <1>2, ElementOfSeq DEF Contract
<1>4. new \in DeclaredSource
  BY <1>3 DEF ReplayInv, ReplayTypeOK, DeclaredSource, Declaration
<1>5. /\ DOMAIN sources' = 1 .. (n + 1) /\ sources'[n + 1] = new
      /\ \A k \in 1 .. n : sources'[k] = sources[k]
  BY <1>2, <1>4, AppendProperties, LenProperties DEF TakeDeclared
<1>6. SourcePath = EntryPath(n + 1)
  BY <1>1 DEF SourcePath, Contract, EntryPath
<1>7. content[i].csv => content[i].adapter = "canonical"
  BY DEF Acceptable, Adapts
<1>8. /\ UNCHANGED <<inode, content, manifest_path, manifest>>
      /\ \A k : EntryPath(k)' = EntryPath(k)
  BY DEF TakeDeclared, files, EntryPath, Entries
<1>9. /\ Readable(manifest_path)' /\ DeclaresSources(ManifestNow.content)'
      /\ (manifest = {ManifestNow})'
  BY <1>8 DEF ReadAsDeclared, Readable, DeclaresSources, ManifestNow
<1>10. ASSUME NEW k \in 1 .. (n + 1)
       PROVE  /\ Readable(EntryPath(k))'
              /\ sources'[k].inode = inode[EntryPath(k)]
              /\ sources'[k].content = content[inode[EntryPath(k)]]
              /\ sources'[k].content.csv => sources'[k].content.adapter = "canonical"
  <2>1. CASE k = n + 1
    <3>1. Readable(EntryPath(k))'
      BY <1>6, <1>8, <2>1 DEF Readable
    <3> QED
      BY <1>5, <1>6, <1>7, <2>1, <3>1
  <2>2. CASE k \in 1 .. n
    <3>1. Readable(EntryPath(k))'
      BY <1>2, <1>8, <2>2 DEF Readable, ReadAsDeclared
    <3> QED
      BY <1>2, <1>5, <2>2, <3>1 DEF ReadAsDeclared
  <2> QED
    BY <1>2, <2>1, <2>2
<1> QED
  BY <1>5, <1>8, <1>9, <1>10 DEF ReadAsDeclared

\* Everything that is declared is read: the manifest could be replayed.
LEMMA AllDeclaredRead ==
  ASSUME ReplayInv, ReplayCounted, ReadAsDeclared, outcome = "returned"
  PROVE  Replayable
<1> DEFINE n == Len(Contracts)
<1>1. Contracts = Entries
  BY SameEntries
<1>2. /\ n \in Nat /\ n > 0 /\ DOMAIN Entries = 1 .. n /\ Len(sources) = n /\ DOMAIN sources = 1 .. n
  BY <1>1, LenProperties DEF ReplayCounted, ReplayInv, Declaring, ReplayTypeOK
<1>3. \A k \in 1 .. n : /\ Readable(EntryPath(k)) /\ sources[k].inode = inode[EntryPath(k)]
                        /\ sources[k].content = content[inode[EntryPath(k)]]
                        /\ (sources[k].content.csv => sources[k].content.adapter = "canonical")
  BY <1>2 DEF ReadAsDeclared
<1>4. ContentsDeclared = [k \in 1 .. n |-> content[inode[EntryPath(k)]]]
  BY <1>2 DEF ContentsDeclared
<1>5. ContentsRead = [k \in 1 .. n |-> sources[k].content]
  BY <1>2 DEF ContentsRead
<1>6. ContentsDeclared = ContentsRead
  BY <1>3, <1>4, <1>5
<1>7. \A k \in 1 .. n : ContentsDeclared[k] = sources[k].content
  BY <1>5, <1>6
<1>8. /\ \A j, k \in 1 .. n : j # k =>
           /\ sources[j].inode # sources[k].inode
           /\ ToSet(sources[j].content.ids) \cap ToSet(sources[k].content.ids) = {}
      /\ \A k \in 1 .. n : IsInjective(sources[k].content.ids)
      /\ \A k \in 1 .. n : sources[k].inode # inode[manifest_path]
  BY <1>2 DEF ReplayInv, NothingReplayedTwice, ReadAsDeclared, ManifestNow
<1>9. \A k \in 1 .. n : /\ sources[k].content = Entries[k].sha256
                        /\ sources[k].content.adapter = Entries[k].adapter
  BY <1>1, <1>2 DEF ReplayInv, Declaring, AsDeclared
<1> HIDE DEF n
<1>10. ASSUME NEW k \in DOMAIN Entries PROVE Fits(k)
  <2>1. k \in 1 .. n
    BY <1>2
  <2> QED
    BY <1>3, <1>7, <1>8, <1>9, <2>1 DEF Fits
<1>11. ASSUME NEW j \in DOMAIN Entries, NEW k \in DOMAIN Entries, j # k
       PROVE  /\ inode[EntryPath(j)] # inode[EntryPath(k)]
              /\ ToSet(ContentsDeclared[j].ids) \cap ToSet(ContentsDeclared[k].ids) = {}
  <2>1. j \in 1 .. n /\ k \in 1 .. n
    BY <1>2
  <2>2. ContentsDeclared[j] = sources[j].content /\ ContentsDeclared[k] = sources[k].content
    BY <1>7, <2>1
  <2>3. ToSet(ContentsDeclared[j].ids) \cap ToSet(ContentsDeclared[k].ids) = {}
    BY <1>8, <1>11, <2>1, <2>2
  <2> QED
    BY <1>3, <1>8, <1>11, <2>1, <2>3
<1>12. /\ content[inode[manifest_path]].bytes + Total(Sizes(ContentsDeclared)) <= MaxTotalBytes
       /\ Total(Counts(ContentsDeclared)) <= MaxRecords
  <2>1. sources # <<>>
    BY <1>2
  <2> QED
    BY <1>6, <2>1 DEF ReplayCounted, ReadAsDeclared, ManifestNow
<1>13. Readable(manifest_path) /\ DeclaresSources(content[inode[manifest_path]])
  BY DEF ReadAsDeclared, ManifestNow
<1> QED
  BY <1>10, <1>11, <1>12, <1>13 DEF Replayable

LEMMA ReplayInitExact == ReplayInit => ReplayExact
<1> SUFFICES ASSUME ReplayInit PROVE ReplayExact
  OBVIOUS
<1>1. ReplayInv
  BY ReplayInitInvariant
<1>2. /\ manifest = {} /\ sources = <<>> /\ DOMAIN sources = {}
      /\ count = 0 /\ outcome = "manifest"
  BY DEF ReplayInit
<1>3. ReplayCounted
  <2>1. Total(Counts(ContentsRead)) = 0
    BY <1>2, NothingRead
  <2> QED
    BY <1>2, <2>1, LimitsArePositive DEF ReplayCounted
<1>4. ReplayDecided
  BY <1>2 DEF ReplayDecided
<1> QED
  BY <1>1, <1>3, <1>4 DEF ReplayExact

LEMMA ReplayNextExact == ReplayExact /\ [ReplayNext]_replayVars => ReplayExact'
<1> SUFFICES ASSUME ReplayExact, [ReplayNext]_replayVars PROVE ReplayExact'
  OBVIOUS
<1>1. ReplayInv /\ ReplayInv'
  BY ReplayNextKeeps DEF ReplayExact
<1>2. ASSUME UNCHANGED <<manifest, sources, count, total_bytes>>,
             outcome' \in {"loading", "returned"} => outcome \in {"loading", "returned"}
      PROVE  ReplayCounted'
  <2>1. /\ Total(Sizes(ContentsRead))' = Total(Sizes(ContentsRead))
        /\ Total(Counts(ContentsRead))' = Total(Counts(ContentsRead))
    BY <1>2 DEF ContentsRead, Sizes, Counts, Total
  <2>2. Contracts' = Contracts
    BY <1>2 DEF Contracts
  <2>3. ReplayCounted
    BY DEF ReplayExact
  <2> QED
    BY <1>2, <2>1, <2>2, <2>3 DEF ReplayCounted
<1>3. ASSUME UNCHANGED <<manifest_path, manifest, sources, inode, content, others>>, ~others,
             outcome' = "invalid" => ~Replayable,
             outcome' \in {"loading", "returned"} => outcome \in {"loading", "returned"}
      PROVE  ReplayDecided'
  <2>1. Replayable' <=> Replayable
    <3>1. /\ Entries' = Entries /\ ContentsDeclared' = ContentsDeclared
          /\ \A k : EntryPath(k)' = EntryPath(k)
      BY <1>3 DEF Entries, ContentsDeclared, EntryPath
    <3>2. \A k : Fits(k)' <=> Fits(k)
      BY <1>3, <3>1 DEF Fits, Readable
    <3>3. /\ Total(Sizes(ContentsDeclared))' = Total(Sizes(ContentsDeclared))
          /\ Total(Counts(ContentsDeclared))' = Total(Counts(ContentsDeclared))
      BY <3>1 DEF Sizes, Counts, Total
    <3>4. /\ Readable(manifest_path)' <=> Readable(manifest_path)
          /\ DeclaresSources(content[inode[manifest_path]])' <=> DeclaresSources(content[inode[manifest_path]])
      BY <1>3 DEF Readable, DeclaresSources
    <3> QED
      BY <1>3, <3>1, <3>2, <3>3, <3>4 DEF Replayable
  <2>2. ReadAsDeclared' = ReadAsDeclared
    BY <1>3 DEF ReadAsDeclared, Readable, DeclaresSources, ManifestNow, EntryPath, Entries
  <2> QED
    BY <1>3, <2>1, <2>2 DEF ReplayExact, ReplayDecided
<1>4. CASE LoadManifest
  <2>1. CASE RefuseReplay
    <3>1. /\ UNCHANGED <<manifest_path, manifest, sources, inode, content, others, count, total_bytes>>
          /\ outcome = "manifest" /\ outcome' = "invalid"
      BY <1>4, <2>1 DEF LoadManifest, RefuseReplay, files
    <3>2. ~Replayable
      BY <1>4, <3>1 DEF LoadManifest, Replayable
    <3> QED
      BY <1>1, <1>2, <1>3, <3>1, <3>2 DEF ReplayExact
  <2>2. CASE ~RefuseReplay
    <3>1. /\ outcome = "manifest" /\ outcome' = "loading" /\ Readable(manifest_path)
          /\ DeclaresSources(content[inode[manifest_path]]) /\ manifest' = {ManifestNow}
          /\ total_bytes' = content[inode[manifest_path]].bytes
          /\ UNCHANGED <<manifest_path, sources, record_ids, count, files>>
      BY <1>4, <2>2 DEF LoadManifest, ManifestNow
    <3>2. sources = <<>> /\ DOMAIN sources = {}
      BY <1>1, <3>1 DEF ReplayInv
    <3>3. manifest_path \in Paths /\ ManifestNow.content = content[inode[manifest_path]]
      BY <1>1, DeclaredPathsAreNamed DEF ReplayInv, ReplayTypeOK, ManifestNow
    <3>4. content[inode[manifest_path]] \in Contents
      BY <1>1, <3>1, <3>3 DEF Readable, ReplayInv, ReplayTypeOK
    <3>5. Contracts' = content[inode[manifest_path]].declares
      <4> DEFINE read == ManifestNow
      <4>1. (CHOOSE x \in {read} : TRUE) = read
        OBVIOUS
      <4>2. (CHOOSE x \in manifest' : TRUE) = read
        BY <3>1, <4>1
      <4> QED
        BY <3>3, <4>2 DEF Contracts
    <3>6. ReplayCounted'
      <4>1. Total(Sizes(ContentsRead)) = 0 /\ Total(Counts(ContentsRead)) = 0
        BY <3>2, NothingRead
      <4>2. /\ Total(Sizes(ContentsRead))' = 0 /\ Total(Counts(ContentsRead))' = 0
        BY <3>1, <4>1 DEF ContentsRead, Sizes, Counts, Total
      <4>3. \A m \in manifest' : total_bytes' = m.content.bytes + Total(Sizes(ContentsRead))'
        BY <3>1, <3>3, <3>4, <4>2, ContentsAreSized
      <4>4. count' = Total(Counts(ContentsRead))' /\ count' <= MaxRecords
        BY <3>1, <4>1, <4>2 DEF ReplayExact, ReplayCounted
      <4>5. Len(Contracts') > 0
        BY <3>1, <3>5 DEF DeclaresSources
      <4> QED
        BY <3>1, <3>2, <4>3, <4>4, <4>5 DEF ReplayCounted
    <3>7. ReplayDecided'
      <4>1. /\ Readable(manifest_path)' /\ DeclaresSources(ManifestNow.content)'
            /\ (manifest = {ManifestNow})'
        BY <3>1, <3>3 DEF Readable, DeclaresSources, ManifestNow, files
      <4>2. ReadAsDeclared'
        BY <3>1, <3>2, <4>1 DEF ReadAsDeclared
      <4> QED
        BY <3>1, <4>2 DEF ReplayDecided
    <3> QED
      BY <1>1, <3>6, <3>7 DEF ReplayExact
  <2> QED
    BY <2>1, <2>2
<1>5. CASE LoadDeclared
  <2>1. CASE RefuseReplay
    <3>1. /\ Len(sources) < Len(Contracts)
          /\ UNCHANGED <<manifest_path, manifest, sources, inode, content, others, count, total_bytes>>
      BY <1>5, <2>1 DEF LoadDeclared, RefuseReplay, files
    <3>2. outcome = "loading" /\ outcome' = "invalid"
      BY <1>5, <2>1 DEF LoadDeclared, RefuseReplay
    <3>3. ~others => ~Replayable
      <4> SUFFICES ASSUME ~others, Replayable PROVE FALSE
        OBVIOUS
      <4>1. ReadAsDeclared /\ ReplayCounted
        BY <3>2 DEF ReplayExact, ReplayDecided
      <4>2. Readable(SourcePath) /\ Acceptable(inode[SourcePath], content[inode[SourcePath]])
        BY <1>1, <3>1, <3>2, <4>1, DeclaredFits
      <4> QED
        BY <1>5, <3>2, <4>2 DEF LoadDeclared, TakeDeclared
    <3> QED
      BY <1>1, <1>2, <1>3, <3>1, <3>2, <3>3 DEF ReplayExact
  <2>2. CASE ~RefuseReplay
    <3>1. /\ outcome = "loading" /\ Len(sources) < Len(Contracts) /\ UNCHANGED files
          /\ Readable(SourcePath)
          /\ Acceptable(inode[SourcePath], content[inode[SourcePath]])
          /\ TakeDeclared(inode[SourcePath], content[inode[SourcePath]])
      BY <2>2, <1>5 DEF LoadDeclared
    <3>2. Len(sources) + 1 \in DOMAIN Contracts
      BY <1>1, <3>1, LenProperties DEF ReplayInv, ReplayTypeOK, Declaring
    <3>3. SourcePath \in Paths
      BY <1>1, <3>1, <3>2 DEF SourcePath, Contract, ReplayInv, Declaring
    <3>4. inode[SourcePath] \in Inodes
      BY <1>1, <3>1, <3>3 DEF Readable, ReplayInv, ReplayTypeOK
    <3>5. ReplayCounted'
      BY <1>1, <3>1, <3>4, TakeDeclaredCounts DEF ReplayExact
    <3>6. ASSUME ~others' PROVE ReplayDecided'
      <4>1. ReadAsDeclared /\ outcome' = "loading"
        BY <3>1, <3>6 DEF ReplayExact, ReplayDecided, TakeDeclared, files
      <4>2. ReadAsDeclared'
        BY <1>1, <3>1, <3>4, <4>1, TakeDeclaredReads
      <4> QED
        BY <4>1, <4>2 DEF ReplayDecided
    <3> QED
      BY <1>1, <3>5, <3>6 DEF ReplayExact
  <2> QED
    BY <2>1, <2>2
<1>6. CASE ReplayReadFails
  <2>1. others' /\ outcome' = "invalid" /\ UNCHANGED <<manifest, sources, count, total_bytes>>
    BY <1>6 DEF ReplayReadFails, RefuseReplay, files
  <2> QED
    BY <1>1, <1>2, <2>1 DEF ReplayExact
<1>7. CASE ReturnReplay
  <2>1. /\ UNCHANGED <<manifest_path, manifest, sources, inode, content, others, count, total_bytes>>
        /\ outcome = "loading" /\ outcome' = "returned"
    BY <1>7 DEF ReturnReplay, files
  <2> QED
    BY <1>1, <1>2, <1>3, <2>1 DEF ReplayExact
<1>8. CASE InterfereReplay
  <2>1. others' /\ UNCHANGED <<manifest, sources, count, total_bytes, outcome>>
    BY <1>8 DEF InterfereReplay, Change, replay
  <2> QED
    BY <1>1, <1>2, <2>1 DEF ReplayExact
<1>9. CASE UNCHANGED replayVars
  <2>1. UNCHANGED <<manifest_path, manifest, sources, inode, content, others, count, total_bytes, outcome>>
    BY <1>9 DEF replayVars, files, replay
  <2>2. ~others' => (outcome' = "invalid" => ~Replayable)
    BY <2>1 DEF ReplayExact, ReplayDecided
  <2> QED
    BY <1>1, <1>2, <1>3, <2>1, <2>2 DEF ReplayExact
<1> QED
  BY <1>4, <1>5, <1>6, <1>7, <1>8, <1>9 DEF ReplayNext, ReplayEnded

LEMMA ReplayExactAlways == ReplaySpec => []ReplayExact
BY ReplayInitExact, ReplayNextExact, PTL DEF ReplaySpec

\* A replay that is returned holds nothing twice and keeps the limits on bytes and
\* records, the manifest's own bytes counted.
THEOREM ReplaysAreWhole == ReplaySpec => []WholeReplay
<1>1. ReplayExact => WholeReplay
  <2> SUFFICES ASSUME ReplayExact, outcome = "returned"
               PROVE  /\ NothingReplayedTwice
                      /\ \A m \in manifest :
                           m.content.bytes + Total(Sizes(ContentsRead)) <= MaxTotalBytes
                      /\ Total(Counts(ContentsRead)) <= MaxRecords
    BY DEF WholeReplay
  <2>1. sources # <<>>
    BY DEF ReplayExact, ReplayInv, ReplayCounted
  <2> QED
    BY <2>1 DEF ReplayExact, ReplayInv, ReplayCounted
<1> QED
  BY <1>1, ReplayExactAlways, PTL

\* While nobody touches the files, a replay is accepted exactly when its manifest and
\* the files beside it fit together.
THEOREM AcceptsExactlyReplayable == ReplaySpec => []ReplaysExactly
<1>1. ReplayExact => ReplaysExactly
  <2> SUFFICES ASSUME ReplayExact, ~others, outcome \in {"returned", "invalid"}
               PROVE  outcome = "returned" <=> Replayable
    BY DEF ReplaysExactly
  <2>1. CASE outcome = "returned"
    BY <2>1, AllDeclaredRead DEF ReplayExact, ReplayDecided
  <2>2. CASE outcome = "invalid"
    BY <2>2 DEF ReplayExact, ReplayDecided
  <2> QED
    BY <2>1, <2>2
<1> QED
  BY <1>1, ReplayExactAlways, PTL

(***************************************************************************)
(* evaluate_rules: sorting and selecting.                                  *)
(***************************************************************************)

(* low[i] holds the elements of I up to i, in a linear order of I.                *)
Linear(I, low) ==
  /\ low \in [I -> SUBSET I]
  /\ \A i, j \in I : i \in low[j] \/ j \in low[i]
  /\ \A i, j \in I : i \in low[j] /\ j \in low[i] => i = j
  /\ \A i, j \in I : i \in low[j] => low[i] \subseteq low[j]

(* rank numbers the elements of I, each with a number of its own.                 *)
Numbers(rank, I) ==
  /\ Cardinality(I) \in Nat
  /\ rank \in [I -> 1 .. Cardinality(I)]
  /\ \A i, j \in I : rank[i] = rank[j] => i = j
  /\ \A n \in 1 .. Cardinality(I) : \E i \in I : rank[i] = n

(* In a finite linear order the number of elements up to an element numbers them. *)
LEMMA Ranks ==
  ASSUME NEW I, IsFiniteSet(I), NEW low, Linear(I, low)
  PROVE  /\ Numbers([i \in I |-> Cardinality(low[i])], I)
         /\ \A i, j \in I : i # j /\ i \in low[j] => Cardinality(low[i]) < Cardinality(low[j])
<1> DEFINE rank == [i \in I |-> Cardinality(low[i])]
<1>0. /\ low \in [I -> SUBSET I]
      /\ \A i, j \in I : i \in low[j] \/ j \in low[i]
      /\ \A i, j \in I : i \in low[j] /\ j \in low[i] => i = j
      /\ \A i, j \in I : i \in low[j] => low[i] \subseteq low[j]
  BY DEF Linear
<1>1. Cardinality(I) \in Nat
  BY FS_CardinalityType
<1>2. \A i \in I : IsFiniteSet(low[i]) /\ Cardinality(low[i]) \in Nat
                   /\ Cardinality(low[i]) <= Cardinality(I)
  BY <1>0, FS_Subset, FS_CardinalityType
<1>3. \A i \in I : Cardinality(low[i]) # 0
  BY <1>0, <1>2, FS_EmptySet
<1>4. rank \in [I -> 1 .. Cardinality(I)]
  BY <1>1, <1>2, <1>3
<1>5. ASSUME NEW i \in I, NEW j \in I, i # j, i \in low[j]
      PROVE  rank[i] < rank[j]
  <2>1. low[i] \subseteq low[j] /\ j \in low[j] /\ j \notin low[i]
    BY <1>0, <1>5
  <2>2. Cardinality(low[i]) <= Cardinality(low[j]) /\ Cardinality(low[i]) # Cardinality(low[j])
    BY <1>2, <2>1, FS_Subset
  <2> QED
    BY <1>2, <2>2
<1>6. \A i, j \in I : rank[i] = rank[j] => i = j
  <2> SUFFICES ASSUME NEW i \in I, NEW j \in I, rank[i] = rank[j], i # j
               PROVE  FALSE
    OBVIOUS
  <2>1. rank[i] < rank[j] \/ rank[j] < rank[i]
    BY <1>0, <1>5
  <2> QED
    BY <1>1, <1>4, <2>1
<1>7. rank \in Surjection(I, 1 .. Cardinality(I))
  <2>1. IsFiniteSet(1 .. Cardinality(I)) /\ Cardinality(1 .. Cardinality(I)) = Cardinality(I)
    BY <1>1, FS_Interval
  <2>2. rank \in Injection(I, 1 .. Cardinality(I))
    BY <1>4, <1>6 DEF Injection, IsInjective
  <2> QED
    BY <2>1, <2>2, FS_Injection
<1>8. \A n \in 1 .. Cardinality(I) : \E i \in I : rank[i] = n
  BY <1>7 DEF Surjection
<1> QED
  BY <1>1, <1>4, <1>5, <1>6, <1>8 DEF Numbers

(* Numbering the positions of a sequence one-to-one rearranges its elements.      *)
LEMMA RankedRearranges ==
  ASSUME NEW X, NEW s \in Seq(X), NEW I \in SUBSET DOMAIN s, NEW rank, Numbers(rank, I)
  PROVE  /\ Ranked(s, rank) \in Seq(X)
         /\ Len(Ranked(s, rank)) = Cardinality(I)
         /\ \A i \in I : Ranked(s, rank)[rank[i]] = s[i]
<1> DEFINE q == Ranked(s, rank)
           n == Cardinality(I)
<1>0. /\ n \in Nat
      /\ rank \in [I -> 1 .. n]
      /\ \A i, j \in I : rank[i] = rank[j] => i = j
      /\ \A k \in 1 .. n : \E i \in I : rank[i] = k
  BY DEF Numbers
<1> HIDE DEF n
<1>1. DOMAIN rank = I
  BY <1>0
<1>2. q = [k \in 1 .. n |-> s[CHOOSE i \in I : rank[i] = k]]
  BY <1>1 DEF Ranked, n
<1>3. ASSUME NEW k \in 1 .. n
      PROVE  (CHOOSE i \in I : rank[i] = k) \in I /\ rank[CHOOSE i \in I : rank[i] = k] = k
  BY <1>0, <1>3
<1>4. \A k \in 1 .. n : s[CHOOSE i \in I : rank[i] = k] \in X
  BY <1>3, ElementOfSeq
<1>5. q \in Seq(X) /\ Len(q) = n
  <2>1. q \in [1 .. n -> X]
    BY <1>2, <1>4
  <2> QED
    BY <1>0, <2>1
<1>6. ASSUME NEW i \in I
      PROVE  q[rank[i]] = s[i]
  <2>1. rank[i] \in 1 .. n
    BY <1>0
  <2>2. (CHOOSE k \in I : rank[k] = rank[i]) = i
    BY <1>0, <1>3, <2>1
  <2> QED
    BY <1>2, <2>1, <2>2
<1> QED
  BY <1>5, <1>6 DEF n

At(s, I) == {s[i] : i \in I}

(* Records with a time and a place of their own among the ids. *)
Timed(S) == \A a, b \in S : a.at \in Nat /\ a.id \in Nat /\ (a.id = b.id => a = b)

(* q holds the elements of S, each once, in chronological order. *)
Ordered(q, S) ==
  /\ q \in Seq(S)
  /\ \A e \in S : \E i \in DOMAIN q : q[i] = e
  /\ \A i, j \in DOMAIN q : i < j => Before(q[i], q[j])

(* Before is a strict linear order where an id names one record.                  *)
LEMMA BeforeIsAnOrder ==
  ASSUME NEW S, Timed(S), NEW a \in S, NEW b \in S, NEW c \in S
  PROVE  /\ ~Before(a, a)
         /\ Before(a, b) => ~Before(b, a)
         /\ a # b => Before(a, b) \/ Before(b, a)
         /\ Before(a, b) /\ Before(b, c) => Before(a, c)
BY DEF Timed, Before

(* Positions of a sequence are finitely many. *)
LEMMA PositionsAreFinite ==
  ASSUME NEW X, NEW s \in Seq(X), NEW I \in SUBSET DOMAIN s
  PROVE  IsFiniteSet(I) /\ Cardinality(I) \in Nat /\ I \subseteq Nat
<1>1. DOMAIN s = 1 .. Len(s) /\ Len(s) \in Nat
  OBVIOUS
<1>2. IsFiniteSet(1 .. Len(s))
  BY <1>1, FS_Interval
<1> QED
  BY <1>1, <1>2, FS_Subset, FS_CardinalityType

(* to leads the positions I of s to those of q, one to one and in order.          *)
InStep(to, s, I, q) ==
  /\ to \in [I -> DOMAIN q]
  /\ \A i \in I : q[to[i]] = s[i]
  /\ \A n \in DOMAIN q : \E i \in I : to[i] = n
  /\ \A i, j \in I : i < j => to[i] < to[j]

(* What a filter keeps, in order. *)
LEMMA AtPositionsInOrder ==
  ASSUME NEW X, NEW s \in Seq(X), NEW I \in SUBSET DOMAIN s
  PROVE  /\ AtPositions(s, I) \in Seq(X)
         /\ Len(AtPositions(s, I)) = Cardinality(I)
         /\ \E to : InStep(to, s, I, AtPositions(s, I))
<1> DEFINE low == [i \in I |-> {j \in I : j <= i}]
           rank == [i \in I |-> Cardinality(low[i])]
           q == AtPositions(s, I)
<1>1. IsFiniteSet(I) /\ Cardinality(I) \in Nat /\ I \subseteq Nat
  BY PositionsAreFinite
<1>2. Linear(I, low) /\ \A i, j \in I : i < j => i # j /\ i \in low[j]
  BY <1>1 DEF Linear
<1>3. rank = [i \in I |-> Cardinality(low[i])]
  OBVIOUS
<1>4. q = Ranked(s, rank)
  BY DEF AtPositions
<1> HIDE DEF low, rank, q
<1>5. Numbers(rank, I) /\ \A i, j \in I : i < j => rank[i] < rank[j]
  BY <1>1, <1>2, <1>3, Ranks
<1>6. q \in Seq(X) /\ Len(q) = Cardinality(I) /\ \A i \in I : q[rank[i]] = s[i]
  BY <1>4, <1>5, RankedRearranges
<1>7. DOMAIN q = 1 .. Cardinality(I)
  BY <1>6
<1>8. InStep(rank, s, I, q)
  BY <1>5, <1>6, <1>7 DEF Numbers, InStep
<1> QED
  BY <1>6, <1>8 DEF q

(* Sorting records with ids of their own puts each of them in its place. *)
LEMMA SortedInOrder ==
  ASSUME NEW X, NEW s \in Seq(X), NEW I \in SUBSET DOMAIN s, Timed(At(s, I)),
         \A i, j \in I : s[i] = s[j] => i = j
  PROVE  Ordered(Sorted(s, I), At(s, I))
<1> DEFINE low == [i \in I |-> UpTo(s, I, i)]
           rank == [i \in I |-> Cardinality(low[i])]
           q == Sorted(s, I)
<1>1. IsFiniteSet(I) /\ Cardinality(I) \in Nat /\ I \subseteq Nat
  BY PositionsAreFinite
<1>2. low \in [I -> SUBSET I]
  BY DEF UpTo
<1>3. \A i \in I : s[i] \in At(s, I)
  BY DEF At
<1>4. \A i, j \in I : i \in low[j] <=> i = j \/ Before(s[i], s[j])
  <2> SUFFICES ASSUME NEW i \in I, NEW j \in I
               PROVE  i \in low[j] <=> i = j \/ Before(s[i], s[j])
    OBVIOUS
  <2>1. i \in low[j] <=> Before(s[i], s[j]) \/ (i <= j /\ ~Before(s[j], s[i]))
    BY DEF UpTo
  <2>2. CASE i = j
    BY <1>1, <1>3, <2>1, <2>2, BeforeIsAnOrder
  <2>3. CASE i # j
    <3>1. Before(s[i], s[j]) \/ Before(s[j], s[i])
      BY <1>3, <2>3, BeforeIsAnOrder
    <3> QED
      BY <2>1, <2>3, <3>1
  <2> QED
    BY <2>2, <2>3
<1>5. rank = [i \in I |-> Cardinality(low[i])]
  OBVIOUS
<1>6. q = Ranked(s, rank)
  BY DEF Sorted
<1> HIDE DEF low, rank, q
<1>7. Linear(I, low)
  <2>1. \A i, j \in I : i \in low[j] \/ j \in low[i]
    BY <1>3, <1>4, BeforeIsAnOrder
  <2>2. \A i, j \in I : i \in low[j] /\ j \in low[i] => i = j
    BY <1>3, <1>4, BeforeIsAnOrder
  <2>3. ASSUME NEW i \in I, NEW j \in I, i \in low[j], NEW k \in low[i]
        PROVE  k \in low[j]
    <3>1. k \in I
      BY <1>2
    <3> QED
      BY <1>3, <1>4, <2>3, <3>1, BeforeIsAnOrder
  <2> QED
    BY <1>2, <2>1, <2>2, <2>3 DEF Linear
<1>8. Numbers(rank, I) /\ \A i, j \in I : i # j /\ i \in low[j] => rank[i] < rank[j]
  BY <1>1, <1>5, <1>7, Ranks
<1>9. q \in Seq(X) /\ Len(q) = Cardinality(I) /\ \A i \in I : q[rank[i]] = s[i]
  BY <1>6, <1>8, RankedRearranges
<1>10. DOMAIN q = 1 .. Cardinality(I)
  BY <1>9
<1>11. \A n \in DOMAIN q : q[n] \in At(s, I)
  BY <1>3, <1>8, <1>9, <1>10 DEF Numbers
<1>12. q \in Seq(At(s, I))
  BY <1>9, <1>11
<1>13. \A e \in At(s, I) : \E n \in DOMAIN q : q[n] = e
  BY <1>8, <1>9, <1>10 DEF At, Numbers
<1>14. ASSUME NEW m \in DOMAIN q, NEW n \in DOMAIN q, m < n
       PROVE  Before(q[m], q[n])
  <2>1. PICK i \in I : rank[i] = m
    BY <1>8, <1>10 DEF Numbers
  <2>2. PICK j \in I : rank[j] = n
    BY <1>8, <1>10 DEF Numbers
  <2>3. i # j /\ ~(rank[j] < rank[i])
    BY <1>10, <1>14, <2>1, <2>2
  <2>4. i \in low[j]
    BY <1>7, <1>8, <2>3 DEF Linear
  <2> QED
    BY <1>4, <1>9, <2>1, <2>2, <2>3, <2>4
<1> QED
  BY <1>12, <1>13, <1>14 DEF Ordered, q

(* Whatever is kept of an ordered sequence is in order.                           *)
LEMMA KeptInOrder ==
  ASSUME NEW S, NEW q, Ordered(q, S), NEW I \in SUBSET DOMAIN q
  PROVE  /\ Ordered(AtPositions(q, I), At(q, I))
         /\ Len(AtPositions(q, I)) = Cardinality(I)
<1> DEFINE p == AtPositions(q, I)
<1>1. q \in Seq(S) /\ \A i, j \in DOMAIN q : i < j => Before(q[i], q[j])
  BY DEF Ordered
<1>2. IsFiniteSet(I) /\ I \subseteq Nat
  BY <1>1, PositionsAreFinite
<1>3. p \in Seq(S) /\ Len(p) = Cardinality(I)
  BY <1>1, AtPositionsInOrder
<1>4a. PICK to : InStep(to, q, I, p)
  BY <1>1, AtPositionsInOrder
<1> HIDE DEF p
<1>4. /\ to \in [I -> DOMAIN p]
      /\ \A i \in I : p[to[i]] = q[i]
      /\ \A n \in DOMAIN p : \E i \in I : to[i] = n
      /\ \A i, j \in I : i < j => to[i] < to[j]
  BY <1>4a DEF InStep
<1>5. \A n \in DOMAIN p : p[n] \in At(q, I)
  BY <1>4 DEF At
<1>6. p \in Seq(At(q, I))
  BY <1>3, <1>5
<1>7. \A e \in At(q, I) : \E n \in DOMAIN p : p[n] = e
  BY <1>4 DEF At
<1>8. ASSUME NEW m \in DOMAIN p, NEW n \in DOMAIN p, m < n
      PROVE  Before(p[m], p[n])
  <2>1. PICK i \in I : to[i] = m
    BY <1>4
  <2>2. PICK j \in I : to[j] = n
    BY <1>4
  <2>3. m \in Nat /\ n \in Nat
    BY <1>3
  <2>4. i < j
    BY <1>2, <1>4, <1>8, <2>1, <2>2, <2>3
  <2> QED
    BY <1>1, <1>4, <2>1, <2>2, <2>4
<1> QED
  BY <1>3, <1>6, <1>7, <1>8 DEF Ordered, p

(* A slice of an ordered sequence has as many elements as positions.              *)
LEMMA SlicesCount ==
  ASSUME NEW S, Timed(S), NEW q, Ordered(q, S), NEW a \in Nat, NEW b \in Nat,
         1 <= a, a <= b + 1, b <= Len(q)
  PROVE  IsFiniteSet(At(q, a .. b)) /\ Cardinality(At(q, a .. b)) = b - a + 1
<1>1. q \in Seq(S) /\ \A i, j \in DOMAIN q : i < j => Before(q[i], q[j])
  BY DEF Ordered
<1>2. a .. b \subseteq DOMAIN q /\ \A i \in a .. b : q[i] \in S
  BY <1>1
<1>3. \A i, j \in a .. b : q[i] = q[j] => i = j
  <2> SUFFICES ASSUME NEW i \in a .. b, NEW j \in a .. b, q[i] = q[j], i # j
               PROVE  FALSE
    OBVIOUS
  <2>1. Before(q[i], q[j]) \/ Before(q[j], q[i])
    BY <1>1, <1>2
  <2> QED
    BY <1>2, <2>1, BeforeIsAnOrder
<1> DEFINE f == [i \in a .. b |-> q[i]]
<1>4. f \in Bijection(a .. b, At(q, a .. b))
  BY <1>3 DEF Bijection, Injection, Surjection, IsInjective, At
<1>5. IsFiniteSet(a .. b) /\ Cardinality(a .. b) = b - a + 1
  <2>1. Cardinality(a .. b) = IF a > b THEN 0 ELSE b - a + 1
    BY FS_Interval
  <2>2. IsFiniteSet(a .. b)
    BY FS_Interval
  <2> QED
    BY <2>1, <2>2
<1>6. ExistsBijection(a .. b, At(q, a .. b))
  BY <1>4 DEF ExistsBijection
<1> QED
  BY <1>5, <1>6, FS_Bijection

Below(e, S) == {other \in S : Before(other, e)}
Above(e, S) == {other \in S : Before(e, other)}

(* A position of an ordered sequence tells how many elements come before and after. *)
LEMMA PositionsCount ==
  ASSUME NEW S, Timed(S), NEW q, Ordered(q, S)
  PROVE  /\ IsFiniteSet(S) /\ Cardinality(S) = Len(q)
         /\ \A n \in DOMAIN q :
              /\ Cardinality(Below(q[n], S)) = n - 1
              /\ Cardinality(Above(q[n], S)) = Len(q) - n
<1>1. /\ q \in Seq(S)
      /\ \A e \in S : \E i \in DOMAIN q : q[i] = e
      /\ \A i, j \in DOMAIN q : i < j => Before(q[i], q[j])
  BY DEF Ordered
<1>2. DOMAIN q = 1 .. Len(q) /\ Len(q) \in Nat /\ \A i \in DOMAIN q : q[i] \in S
  BY <1>1
<1>3. S = At(q, 1 .. Len(q))
  BY <1>1, <1>2 DEF At
<1>4. \A i, j \in DOMAIN q : Before(q[i], q[j]) => i < j
  <2> SUFFICES ASSUME NEW i \in DOMAIN q, NEW j \in DOMAIN q, Before(q[i], q[j]), ~(i < j)
               PROVE  FALSE
    OBVIOUS
  <2>1. i = j \/ Before(q[j], q[i])
    BY <1>1, <1>2
  <2> QED
    BY <1>2, <2>1, BeforeIsAnOrder
<1>5. ASSUME NEW n \in DOMAIN q
      PROVE  /\ Cardinality(Below(q[n], S)) = n - 1
             /\ Cardinality(Above(q[n], S)) = Len(q) - n
  <2>1. Below(q[n], S) = At(q, 1 .. (n - 1))
    <3>1. \A e \in S : Before(e, q[n]) <=> \E i \in 1 .. (n - 1) : e = q[i]
      BY <1>1, <1>2, <1>4
    <3>2. \A i \in 1 .. (n - 1) : q[i] \in S
      BY <1>2
    <3> QED
      BY <3>1, <3>2 DEF At, Below
  <2>2. Above(q[n], S) = At(q, (n + 1) .. Len(q))
    <3>1. \A e \in S : Before(q[n], e) <=> \E i \in (n + 1) .. Len(q) : e = q[i]
      BY <1>1, <1>2, <1>4
    <3>2. \A i \in (n + 1) .. Len(q) : q[i] \in S
      BY <1>2
    <3> QED
      BY <3>1, <3>2 DEF At, Above
  <2>3. Cardinality(At(q, 1 .. (n - 1))) = (n - 1) - 1 + 1
    BY <1>2, SlicesCount
  <2>4. Cardinality(At(q, (n + 1) .. Len(q))) = Len(q) - (n + 1) + 1
    BY <1>2, SlicesCount
  <2>5. n \in Nat
    BY <1>2
  <2>6. Cardinality(Below(q[n], S)) = n - 1
    BY <2>1, <2>3, <2>5
  <2>7. Cardinality(Above(q[n], S)) = Len(q) - n
    BY <1>2, <2>2, <2>4, <2>5
  <2> QED
    BY <2>6, <2>7
<1>6. IsFiniteSet(S) /\ Cardinality(S) = Len(q)
  <2>1. IsFiniteSet(At(q, 1 .. Len(q))) /\ Cardinality(At(q, 1 .. Len(q))) = Len(q) - 1 + 1
    BY <1>2, SlicesCount
  <2> QED
    BY <1>2, <1>3, <2>1
<1> QED
  BY <1>5, <1>6

(* There is one chronological order of a set of records.                          *)
LEMMA OneOrder ==
  ASSUME NEW S, Timed(S), NEW p, Ordered(p, S), NEW q, Ordered(q, S)
  PROVE  p = q
<1>1. p \in Seq(S) /\ q \in Seq(S) /\ \A e \in S : \E i \in DOMAIN q : q[i] = e
  BY DEF Ordered
<1>2. Len(p) = Len(q)
  BY PositionsCount
<1>3. ASSUME NEW n \in DOMAIN p
      PROVE  p[n] = q[n]
  <2>1. p[n] \in S
    BY <1>1
  <2>2. PICK m \in DOMAIN q : q[m] = p[n]
    BY <1>1, <2>1
  <2>3. Cardinality(Below(q[m], S)) = m - 1
    BY PositionsCount
  <2>4. Cardinality(Below(p[n], S)) = n - 1
    BY PositionsCount
  <2>5. m = n
    BY <1>1, <2>2, <2>3, <2>4
  <2> QED
    BY <2>2, <2>5
<1> QED
  BY <1>1, <1>2, <1>3

(***************************************************************************)
(* The sequences of the evaluators.                                        *)
(***************************************************************************)
EventTypes == {"auth_event", "observed_event", "change_event"}

SignInsAmong(R, at) == {r \in R : IsSignIn(r, at)}

ChangesAmong(R, at) ==
  {r \in R : /\ r.type = "change_event" /\ r.action \in SensitiveActions
             /\ r.outcome = "success" /\ r.at <= at}

FailuresAmong(R, who) ==
  {r \in R : /\ r.type = "auth_event" /\ r.action = "SIGN_IN"
             /\ r.outcome = "failure" /\ r.principal = who}

CandidatesAmong(R, at, c) ==
  {e \in SignInsAmong(R, at) : /\ e.outcome = "success" /\ e.principal = c.principal
                               /\ e.at < c.at /\ c.at <= e.at + ChangeWindow}

(* A normalized record sequence has each record once, and its events are timed.   *)
LEMMA NormalizedRecords ==
  ASSUME NEW records, Normalized(records)
  PROVE  /\ records \in Seq(ToSet(records))
         /\ DOMAIN records = 1 .. Len(records)
         /\ ToSet(records) = At(records, DOMAIN records)
         /\ \A i, j \in DOMAIN records : records[i] = records[j] => i = j
         /\ \A a, b \in ToSet(records) : a.id \in Nat /\ (a.id = b.id => a = b)
         /\ \A r \in ToSet(records) : r.type \in EventTypes => r.at \in Nat
<1>1. records \in Seq(ToSet(records))
  BY DEF Normalized
<1>2. ToSet(records) = At(records, DOMAIN records)
  BY DEF ToSet, At
<1>3. \A i, j \in DOMAIN records : records[i].id = records[j].id => i = j
  BY DEF Normalized
<1>4. \A r \in ToSet(records) : r.id \in Nat /\ (r.type \in EventTypes => r.at \in Nat)
  BY HorizonIsNat DEF Normalized, EventTypes, Timestamps
<1>5. \A a, b \in ToSet(records) : a.id = b.id => a = b
  BY <1>2, <1>3 DEF At
<1> QED
  BY <1>1, <1>2, <1>3, <1>4, <1>5

(* What is sorted of a bundle is ordered: its ids decide every tie.               *)
LEMMA EventsInOrder ==
  ASSUME NEW records, Normalized(records), NEW I \in SUBSET DOMAIN records,
         \A i \in I : records[i].type \in EventTypes
  PROVE  Timed(At(records, I)) /\ Ordered(Sorted(records, I), At(records, I))
<1>1. records \in Seq(ToSet(records)) /\ \A i, j \in I : records[i] = records[j] => i = j
  BY NormalizedRecords
<1>2. At(records, I) \subseteq ToSet(records) /\ \A r \in At(records, I) : r.type \in EventTypes
  BY NormalizedRecords DEF At
<1>3. Timed(At(records, I))
  BY <1>2, NormalizedRecords DEF Timed
<1> QED
  BY <1>1, <1>3, SortedInOrder

(* The four sequences the evaluators sort, each of the set it is made from.       *)
LEMMA SignInsInOrder ==
  ASSUME NEW records, Normalized(records), NEW at
  PROVE  /\ Timed(SignInsAmong(ToSet(records), at))
         /\ Ordered(SignIns(records, at), SignInsAmong(ToSet(records), at))
<1> DEFINE I == {i \in DOMAIN records : IsSignIn(records[i], at)}
<1>1. At(records, I) = SignInsAmong(ToSet(records), at)
  BY DEF At, SignInsAmong, ToSet
<1>2. SignIns(records, at) = Sorted(records, I)
  BY DEF SignIns, Chronological
<1>3. \A i \in I : records[i].type \in EventTypes
  BY DEF IsSignIn, EventTypes
<1> QED
  BY <1>1, <1>2, <1>3, EventsInOrder

LEMMA ChangesInOrder ==
  ASSUME NEW records, Normalized(records), NEW at
  PROVE  /\ Timed(ChangesAmong(ToSet(records), at))
         /\ Ordered(SensitiveChanges(records, at), ChangesAmong(ToSet(records), at))
<1> DEFINE I == {i \in DOMAIN records :
                   /\ records[i].type = "change_event" /\ records[i].action \in SensitiveActions
                   /\ records[i].outcome = "success" /\ records[i].at <= at}
<1>1. At(records, I) = ChangesAmong(ToSet(records), at)
  BY DEF At, ChangesAmong, ToSet
<1>2. SensitiveChanges(records, at) = Sorted(records, I)
  BY DEF SensitiveChanges, Chronological
<1>3. \A i \in I : records[i].type \in EventTypes
  BY DEF EventTypes
<1> QED
  BY <1>1, <1>2, <1>3, EventsInOrder

LEMMA FailuresInOrder ==
  ASSUME NEW records, Normalized(records), NEW who
  PROVE  /\ Timed(FailuresAmong(ToSet(records), who))
         /\ Ordered(FailuresOf(records, who), FailuresAmong(ToSet(records), who))
<1> DEFINE I == {i \in DOMAIN records :
                   /\ records[i].type = "auth_event" /\ records[i].action = "SIGN_IN"
                   /\ records[i].outcome = "failure" /\ records[i].principal = who}
<1>1. At(records, I) = FailuresAmong(ToSet(records), who)
  BY DEF At, FailuresAmong, ToSet
<1>2. FailuresOf(records, who) = Sorted(records, I)
  BY DEF FailuresOf, Chronological
<1>3. \A i \in I : records[i].type \in EventTypes
  BY DEF EventTypes
<1> QED
  BY <1>1, <1>2, <1>3, EventsInOrder

LEMMA CandidatesInOrder ==
  ASSUME NEW records, Normalized(records), NEW at, NEW c
  PROVE  /\ Timed(CandidatesAmong(ToSet(records), at, c))
         /\ Ordered(CandidateSignIns(records, at, c), CandidatesAmong(ToSet(records), at, c))
<1> DEFINE I == {i \in DOMAIN records :
                   /\ IsSignIn(records[i], at) /\ records[i].outcome = "success"
                   /\ records[i].principal = c.principal
                   /\ records[i].at < c.at /\ c.at <= records[i].at + ChangeWindow}
<1>1. At(records, I) = CandidatesAmong(ToSet(records), at, c)
  BY DEF At, CandidatesAmong, SignInsAmong, ToSet
<1>2. CandidateSignIns(records, at, c) = Sorted(records, I)
  BY DEF CandidateSignIns, Chronological
<1>3. \A i \in I : records[i].type \in EventTypes
  BY DEF IsSignIn, EventTypes
<1> QED
  BY <1>1, <1>2, <1>3, EventsInOrder

(* The evaluators read the events in an order that the records do not decide.     *)
LEMMA SameEvents ==
  ASSUME NEW records, Normalized(records), NEW other, Normalized(other), NEW at,
         SignInsAmong(ToSet(records), at) = SignInsAmong(ToSet(other), at),
         ChangesAmong(ToSet(records), at) = ChangesAmong(ToSet(other), at)
  PROVE  /\ SignIns(records, at) = SignIns(other, at)
         /\ SensitiveChanges(records, at) = SensitiveChanges(other, at)
         /\ \A c : CandidateSignIns(records, at, c) = CandidateSignIns(other, at, c)
<1>1. SignIns(records, at) = SignIns(other, at)
  BY SignInsInOrder, OneOrder
<1>2. SensitiveChanges(records, at) = SensitiveChanges(other, at)
  BY ChangesInOrder, OneOrder
<1>3. ASSUME NEW c
      PROVE  CandidateSignIns(records, at, c) = CandidateSignIns(other, at, c)
  <2>1. CandidatesAmong(ToSet(records), at, c) = CandidatesAmong(ToSet(other), at, c)
    BY DEF CandidatesAmong
  <2> QED
    BY <2>1, CandidatesInOrder, OneOrder
<1> QED
  BY <1>1, <1>2, <1>3

(* The replay rules depend on the sets of the events they see, not on their order. *)
LEMMA SameReplayFindings ==
  ASSUME NEW records, Normalized(records), NEW other, Normalized(other), NEW at,
         SignInsAmong(ToSet(records), at) = SignInsAmong(ToSet(other), at),
         ChangesAmong(ToSet(records), at) = ChangesAmong(ToSet(other), at),
         \A e : MatchingIndicators(records, e) = MatchingIndicators(other, e)
  PROVE  /\ Erp007(records, at) = Erp007(other, at)
         /\ Erp008(records, at) = Erp008(other, at)
         /\ Erp009(records, at) = Erp009(other, at)
         /\ Erp009Overflows(records, at) <=> Erp009Overflows(other, at)
<1> DEFINE events == SignIns(records, at)
           changed == SensitiveChanges(records, at)
<1>1. /\ events = SignIns(other, at)
      /\ changed = SensitiveChanges(other, at)
      /\ \A c : CandidateSignIns(records, at, c) = CandidateSignIns(other, at, c)
  BY SameEvents
<1>2. \A e : FirstIndicator(records, e) = FirstIndicator(other, e)
  BY DEF FirstIndicator
<1>3. Hits008(records, events) = Hits008(other, events)
  BY DEF Hits008
<1>4. Hits009(records, at, changed) = Hits009(other, at, changed)
  BY <1>1 DEF Hits009
<1>5. Erp007(records, at) = Erp007(other, at)
  BY <1>1 DEF Erp007
<1>6. Erp008(records, at) = Erp008(other, at)
  BY <1>1, <1>2, <1>3 DEF Erp008
<1>7. Erp009(records, at) = Erp009(other, at)
  BY <1>1, <1>4 DEF Erp009
<1>8. Erp009Overflows(records, at) <=> Erp009Overflows(other, at)
  BY <1>1 DEF Erp009Overflows
<1> QED
  BY <1>5, <1>6, <1>7, <1>8

(* So do the rules about access, on the set of all records.                       *)
LEMMA SameAccessFindings ==
  ASSUME NEW records, Normalized(records), NEW other, Normalized(other), NEW at,
         ToSet(records) = ToSet(other)
  PROVE  /\ Erp001(records) = Erp001(other)
         /\ Erp002(records, at) = Erp002(other, at)
         /\ Erp003(records) = Erp003(other)
         /\ Erp004(records) = Erp004(other)
         /\ Erp005(records, at) = Erp005(other, at)
         /\ Erp006(records) = Erp006(other)
<1>1. /\ \A type : OfKind(records, type) = OfKind(other, type)
      /\ Principals(records) = Principals(other)
      /\ Assignments(records) = Assignments(other)
      /\ PrivilegedAssignments(records) = PrivilegedAssignments(other)
      /\ \A how : AuthSignIns(records, how) = AuthSignIns(other, how)
  BY DEF OfKind, Principals, Assignments, PrivilegedAssignments, AuthSignIns
<1>2. \A who : FailuresOf(records, who) = FailuresOf(other, who)
  BY FailuresInOrder, OneOrder
<1>3. Erp001(records) = Erp001(other)
  BY <1>1 DEF Erp001
<1>4. Erp002(records, at) = Erp002(other, at)
  BY <1>1 DEF Erp002
<1>5. Erp003(records) = Erp003(other)
  BY <1>1 DEF Erp003
<1>6. Erp004(records) = Erp004(other)
  BY <1>1 DEF Erp004
<1>7. Erp005(records, at) = Erp005(other, at)
  <2> DEFINE Outside(e) == ~(at <= e.at + EmergencyWindow /\ e.at <= at)
             Late(r) == {e \in AuthSignIns(r, "success") :
                           PrincipalOf(r, e).kind = "emergency" /\ Outside(e)}
             Report(r, e) == Finding("ERP005", {PrincipalOf(r, e), e}, {})
             Reports(r) == {Report(r, e) : e \in Late(r)}
  <2>1. \A e : PrincipalOf(records, e) = PrincipalOf(other, e)
    BY <1>1 DEF PrincipalOf
  <2>2. Late(records) = Late(other)
    <3> HIDE DEF Outside
    <3> QED
      BY <1>1, <2>1
  <2>3. Reports(records) = Reports(other)
    <3>1. \A e : Report(records, e) = Report(other, e)
      BY <2>1
    <3> HIDE DEF Late, Report
    <3> QED
      BY <2>2, <3>1
  <2>4. Reports(records) = Erp005(records, at) /\ Reports(other) = Erp005(other, at)
    BY DEF Erp005
  <2> QED
    BY <2>3, <2>4
<1>8. Erp006(records) = Erp006(other)
  BY <1>1, <1>2 DEF Erp006
<1> QED
  BY <1>3, <1>4, <1>5, <1>6, <1>7, <1>8

(* "Parameter and record order must not alter evaluation results": the findings   *)
(* of a rule are a function of the set of the records.                            *)
LEMMA OrderDoesNotMatter ==
  ASSUME NEW records, Normalized(records), NEW other, Normalized(other), NEW at,
         ToSet(records) = ToSet(other), NEW rule \in ToSet(Registry)
  PROVE  FindingsOf(rule, records, at) = FindingsOf(rule, other, at)
<1>1. \A e : MatchingIndicators(records, e) = MatchingIndicators(other, e)
  BY DEF MatchingIndicators
<1>2. /\ Erp007(records, at) = Erp007(other, at)
      /\ Erp008(records, at) = Erp008(other, at)
      /\ Erp009(records, at) = Erp009(other, at)
  BY <1>1, SameReplayFindings
<1>3. rule \in {"ERP001", "ERP002", "ERP003", "ERP004", "ERP005", "ERP006", "ERP007", "ERP008", "ERP009"}
  BY DEF Registry, ToSet
<1> QED
  BY <1>2, <1>3, SameAccessFindings DEF FindingsOf

(* A rotation has the elements of its sequence, each where it was, turned.        *)
LEMMA RotationIsNormalized ==
  ASSUME NEW s, Normalized(s), NEW n \in 0 .. Len(s) - 1
  PROVE  Normalized(Rotated(s, n)) /\ ToSet(Rotated(s, n)) = ToSet(s)
<1> DEFINE t == Rotated(s, n)
           from == [i \in 1 .. Len(s) |-> IF i <= Len(s) - n THEN i + n ELSE i - (Len(s) - n)]
<1>1. s \in Seq(ToSet(s)) /\ DOMAIN s = 1 .. Len(s) /\ Len(s) \in Nat
  BY NormalizedRecords
<1>2. t \in Seq(ToSet(s)) /\ Len(t) = Len(s) /\ \A i \in 1 .. Len(s) : t[i] = s[from[i]]
  <2> DEFINE front == SubSeq(s, n + 1, Len(s))
             back == SubSeq(s, 1, n)
  <2>1. /\ front \in Seq(ToSet(s)) /\ Len(front) = Len(s) - n
        /\ \A i \in 1 .. Len(s) - n : front[i] = s[i + n]
    BY <1>1
  <2>2. /\ back \in Seq(ToSet(s)) /\ Len(back) = n
        /\ \A i \in 1 .. n : back[i] = s[i]
    BY <1>1
  <2>3. t = front \o back
    BY DEF Rotated
  <2> HIDE DEF front, back, t
  <2>4. t \in Seq(ToSet(s)) /\ Len(t) = Len(s)
    <3>1. t \in Seq(ToSet(s)) /\ Len(t) = Len(front) + Len(back)
      BY <2>1, <2>2, <2>3, ConcatProperties
    <3> QED
      BY <1>1, <2>1, <2>2, <3>1
  <2>5. ASSUME NEW i \in 1 .. Len(s)
        PROVE  t[i] = s[from[i]]
    <3>1. CASE i <= Len(s) - n
      <4>1. t[i] = front[i]
        BY <1>1, <2>1, <2>2, <2>3, <3>1
      <4> QED
        BY <1>1, <2>1, <3>1, <4>1
    <3>2. CASE i > Len(s) - n
      <4>1. t[i] = back[i - (Len(s) - n)] /\ i - (Len(s) - n) \in 1 .. n
        BY <1>1, <2>1, <2>2, <2>3, <3>2
      <4> QED
        BY <1>1, <2>2, <3>2, <4>1
    <3> QED
      BY <1>1, <3>1, <3>2
  <2> QED
    BY <2>4, <2>5
<1>3. /\ \A i \in 1 .. Len(s) : from[i] \in 1 .. Len(s)
      /\ \A i, j \in 1 .. Len(s) : from[i] = from[j] => i = j
      /\ \A k \in 1 .. Len(s) : \E i \in 1 .. Len(s) : from[i] = k
  <2>1. ASSUME NEW i \in 1 .. Len(s)
        PROVE  IF i <= Len(s) - n THEN from[i] = i + n /\ from[i] > n
                                  ELSE from[i] = i - (Len(s) - n) /\ from[i] <= n /\ 1 <= from[i]
    BY <1>1
  <2>2. ASSUME NEW k \in 1 .. Len(s)
        PROVE  \E i \in 1 .. Len(s) : from[i] = k
    <3>1. CASE k > n
      <4>1. k - n \in 1 .. Len(s) /\ k - n <= Len(s) - n
        BY <1>1, <3>1
      <4> QED
        BY <1>1, <2>1, <4>1
    <3>2. CASE k <= n
      <4>1. k + (Len(s) - n) \in 1 .. Len(s) /\ ~(k + (Len(s) - n) <= Len(s) - n)
        BY <1>1, <3>2
      <4> QED
        BY <1>1, <2>1, <4>1
    <3> QED
      BY <1>1, <3>1, <3>2
  <2> HIDE DEF from
  <2>3. \A i \in 1 .. Len(s) : from[i] \in 1 .. Len(s)
    BY <1>1, <2>1
  <2>4. \A i, j \in 1 .. Len(s) : from[i] = from[j] => i = j
    BY <1>1, <2>1
  <2> QED
    BY <2>2, <2>3, <2>4
<1> HIDE DEF from, t
<1>4. DOMAIN t = 1 .. Len(s)
  BY <1>1, <1>2
<1>5. ToSet(t) = ToSet(s)
  <2>1. \A i \in DOMAIN t : t[i] \in ToSet(s)
    BY <1>2
  <2>2. ASSUME NEW k \in DOMAIN s PROVE \E i \in DOMAIN t : t[i] = s[k]
    <3>1. k \in 1 .. Len(s)
      BY <1>1
    <3>2. PICK i \in 1 .. Len(s) : from[i] = k
      BY <1>3, <3>1
    <3>3. t[i] = s[from[i]]
      BY <1>2
    <3> QED
      BY <1>4, <3>2, <3>3
  <2> QED
    BY <2>1, <2>2 DEF ToSet
<1>6. ASSUME NEW i \in DOMAIN t, NEW j \in DOMAIN t, t[i].id = t[j].id
      PROVE  i = j
  <2>1. s[from[i]].id = s[from[j]].id /\ from[i] \in DOMAIN s /\ from[j] \in DOMAIN s
    BY <1>1, <1>2, <1>3, <1>4, <1>6
  <2>2. from[i] = from[j]
    BY <2>1 DEF Normalized
  <2> QED
    BY <1>3, <1>4, <2>2
<1>7. Normalized(t)
  BY <1>2, <1>5, <1>6 DEF Normalized
<1> QED
  BY <1>5, <1>7 DEF t

LEMMA ReverseIsNormalized ==
  ASSUME NEW s, Normalized(s)
  PROVE  Normalized(Reverse(s)) /\ ToSet(Reverse(s)) = ToSet(s) /\ Len(Reverse(s)) = Len(s)
<1> DEFINE t == Reverse(s)
<1>1. s \in Seq(ToSet(s)) /\ DOMAIN s = 1 .. Len(s) /\ Len(s) \in Nat
  BY NormalizedRecords
<1>2. t = [i \in 1 .. Len(s) |-> s[(Len(s) - i) + 1]]
  BY DEF Reverse
<1>3. \A i \in 1 .. Len(s) : (Len(s) - i) + 1 \in 1 .. Len(s)
  BY <1>1
<1>4. \A i \in 1 .. Len(s) : t[i] \in ToSet(s)
  BY <1>1, <1>2, <1>3
<1>5. t \in Seq(ToSet(s)) /\ Len(t) = Len(s) /\ DOMAIN t = 1 .. Len(s)
  <2>1. t \in [1 .. Len(s) -> ToSet(s)]
    BY <1>2, <1>4
  <2> QED
    BY <1>1, <2>1
<1> HIDE DEF t
<1>6. ToSet(t) = ToSet(s)
  <2>1. \A k \in 1 .. Len(s) : s[k] = t[(Len(s) - k) + 1]
    BY <1>1, <1>2, <1>3
  <2> QED
    BY <1>1, <1>2, <1>3, <1>5, <2>1 DEF ToSet
<1>7. \A i, j \in DOMAIN t : t[i].id = t[j].id => i = j
  BY <1>1, <1>2, <1>3, <1>5 DEF Normalized
<1>8. Normalized(t)
  BY <1>5, <1>6, <1>7 DEF Normalized
<1> QED
  BY <1>5, <1>6, <1>8 DEF t

(***************************************************************************)
(* Findings are finitely many, each of its rule, and so are the evidence   *)
(* references they carry.                                                  *)
(***************************************************************************)
LEMMA ImagesAreFinite ==
  ASSUME NEW S, IsFiniteSet(S), NEW f, DOMAIN f = S
  PROVE  IsFiniteSet({f[x] : x \in S})
<1> DEFINE T == {f[x] : x \in S}
           g == [x \in S |-> f[x]]
<1>1. g \in Surjection(S, T)
  BY DEF Surjection
<1> QED
  BY <1>1, FS_Surjection

LEMMA RecordsAreFinite ==
  ASSUME NEW records, Normalized(records)
  PROVE  IsFiniteSet(ToSet(records))
<1>1. IsFiniteSet(DOMAIN records)
  BY NormalizedRecords, PositionsAreFinite
<1>2. ToSet(records) = {records[i] : i \in DOMAIN records}
  BY DEF ToSet
<1> QED
  BY <1>1, <1>2, ImagesAreFinite

(* A finding of a finite set of records, or of a sequence of them, names finitely many. *)
LEMMA FindingIsFinite ==
  ASSUME NEW rule, NEW S, IsFiniteSet(S), NEW key
  PROVE  Finding(rule, S, key).rule = rule /\ IsFiniteSet(Finding(rule, S, key).records)
<1> DEFINE f == [r \in S |-> r.id]
<1>1. IsFiniteSet({f[r] : r \in S})
  <2> DOMAIN f = S
    OBVIOUS
  <2> HIDE DEF f
  <2> QED
    BY ImagesAreFinite
<1>2. Finding(rule, S, key).records = {f[r] : r \in S}
  BY DEF Finding
<1> QED
  BY <1>1, <1>2 DEF Finding

LEMMA EpisodeIsFinite ==
  ASSUME NEW rule, NEW X, NEW steps \in Seq(X)
  PROVE  Episode(rule, steps).rule = rule /\ IsFiniteSet(Episode(rule, steps).records)
<1> DEFINE f == [i \in DOMAIN steps |-> steps[i].id]
<1>1. IsFiniteSet(DOMAIN steps)
  BY PositionsAreFinite
<1>2. IsFiniteSet({f[i] : i \in DOMAIN steps})
  <2> DOMAIN f = DOMAIN steps
    OBVIOUS
  <2> HIDE DEF f
  <2> QED
    BY <1>1, ImagesAreFinite
<1>3. Episode(rule, steps).records = {f[i] : i \in DOMAIN steps}
  BY DEF Episode
<1> QED
  BY <1>2, <1>3 DEF Episode

(* The shape of what an evaluator returns. *)
Reported(rule, findings) ==
  IsFiniteSet(findings) /\ \A f \in findings : f.rule = rule /\ IsFiniteSet(f.records)

(* ERP001 to ERP005 report finitely many findings, each under its own rule.       *)
LEMMA AccessFindingsReported ==
  ASSUME NEW records, Normalized(records), NEW at
  PROVE  /\ Reported("ERP001", Erp001(records))
         /\ Reported("ERP002", Erp002(records, at))
         /\ Reported("ERP003", Erp003(records))
         /\ Reported("ERP004", Erp004(records))
         /\ Reported("ERP005", Erp005(records, at))
<1>1. \A S \in SUBSET ToSet(records) : IsFiniteSet(S)
  BY RecordsAreFinite, FS_Subset
<1>2. /\ \A type : OfKind(records, type) \subseteq ToSet(records)
      /\ Principals(records) \subseteq ToSet(records)
      /\ Assignments(records) \subseteq ToSet(records)
      /\ PrivilegedAssignments(records) \subseteq ToSet(records)
      /\ \A how : AuthSignIns(records, how) \subseteq ToSet(records)
  BY DEF OfKind, Principals, Assignments, PrivilegedAssignments, AuthSignIns
<1>3. Reported("ERP001", Erp001(records))
  <2> DEFINE S == {r \in OfKind(records, "control_state") : r.control = "AUDIT_LOGGING" /\ ~r.enabled}
             f == [r \in S |-> Finding("ERP001", {r}, {})]
  <2>1. IsFiniteSet(S)
    BY <1>1, <1>2
  <2>2. Erp001(records) = {f[r] : r \in S}
    BY DEF Erp001
  <2>3. \A r \in S : f[r].rule = "ERP001" /\ IsFiniteSet(f[r].records)
    BY FindingIsFinite, FS_Singleton
  <2>4. DOMAIN f = S
    OBVIOUS
  <2> HIDE DEF S, f
  <2>5. IsFiniteSet({f[r] : r \in S})
    BY <2>1, <2>4, ImagesAreFinite
  <2> QED
    BY <2>2, <2>3, <2>5 DEF Reported
<1>4. Reported("ERP002", Erp002(records, at))
  <2> DEFINE support(p) == {a \in PrivilegedAssignments(records) : a.principal = p.principal}
             S == {p \in Principals(records) :
                     p.enabled /\ support(p) # {} /\ p.active + InactiveDays < at}
             f == [p \in S |-> Finding("ERP002", {p} \cup support(p), {})]
  <2>1. IsFiniteSet(S)
    BY <1>1, <1>2
  <2>2. Erp002(records, at) = {f[p] : p \in S}
    BY DEF Erp002
  <2>3. \A p \in S : f[p].rule = "ERP002" /\ IsFiniteSet(f[p].records)
    <3>1. \A p \in S : IsFiniteSet({p} \cup support(p))
      BY <1>1, <1>2
    <3> QED
      BY <3>1, FindingIsFinite
  <2>4. DOMAIN f = S
    OBVIOUS
  <2> HIDE DEF S, f
  <2>5. IsFiniteSet({f[p] : p \in S})
    BY <2>1, <2>4, ImagesAreFinite
  <2> QED
    BY <2>2, <2>3, <2>5 DEF Reported
<1>5. Reported("ERP003", Erp003(records))
  <2> DEFINE S == {a \in PrivilegedAssignments(records) : a.direct}
             f == [a \in S |-> Finding("ERP003", {a}, {})]
  <2>1. IsFiniteSet(S)
    BY <1>1, <1>2
  <2>2. Erp003(records) = {f[a] : a \in S}
    BY DEF Erp003
  <2>3. \A a \in S : f[a].rule = "ERP003" /\ IsFiniteSet(f[a].records)
    BY FindingIsFinite, FS_Singleton
  <2>4. DOMAIN f = S
    OBVIOUS
  <2> HIDE DEF S, f
  <2>5. IsFiniteSet({f[a] : a \in S})
    BY <2>1, <2>4, ImagesAreFinite
  <2> QED
    BY <2>2, <2>3, <2>5 DEF Reported
<1>6. Reported("ERP004", Erp004(records))
  <2> DEFINE support(who, pair) ==
               {a \in Assignments(records) : a.principal = who /\ a.permission \in pair}
             P == {a.principal : a \in Assignments(records)}
             S == {c \in P \X ToxicPairs :
                     c[2] \subseteq {a.permission : a \in support(c[1], c[2])}}
             f == [c \in S |-> Finding("ERP004", support(c[1], c[2]), c[2])]
             principal == [a \in Assignments(records) |-> a.principal]
  <2>0. IsFiniteSet(P)
    <3>1. P = {principal[a] : a \in Assignments(records)} /\ DOMAIN principal = Assignments(records)
      OBVIOUS
    <3> HIDE DEF principal, P
    <3> QED
      BY <1>1, <1>2, <3>1, ImagesAreFinite
  <2>1. IsFiniteSet(S)
    <3>1. IsFiniteSet(P \X ToxicPairs)
      BY <2>0, FS_Product, ParametersArePositive
    <3> QED
      BY <3>1, FS_Subset
  <2>2. Erp004(records) = {f[c] : c \in S}
    BY DEF Erp004
  <2>3. \A c \in S : f[c].rule = "ERP004" /\ IsFiniteSet(f[c].records)
    <3>1. \A c \in S : IsFiniteSet(support(c[1], c[2]))
      BY <1>1, <1>2
    <3> QED
      BY <3>1, FindingIsFinite
  <2>4. DOMAIN f = S
    OBVIOUS
  <2> HIDE DEF S, f
  <2>5. IsFiniteSet({f[c] : c \in S})
    BY <2>1, <2>4, ImagesAreFinite
  <2> QED
    BY <2>2, <2>3, <2>5 DEF Reported
<1>7. Reported("ERP005", Erp005(records, at))
  <2> DEFINE approved(e) == at <= e.at + EmergencyWindow /\ e.at <= at
             S == {e \in AuthSignIns(records, "success") :
                     PrincipalOf(records, e).kind = "emergency" /\ ~approved(e)}
             f == [e \in S |-> Finding("ERP005", {PrincipalOf(records, e), e}, {})]
  <2>1. IsFiniteSet(S)
    BY <1>1, <1>2
  <2>2. Erp005(records, at) = {f[e] : e \in S}
    BY DEF Erp005
  <2>3. \A e \in S : f[e].rule = "ERP005" /\ IsFiniteSet(f[e].records)
    <3>1. ASSUME NEW e \in S
          PROVE  IsFiniteSet({PrincipalOf(records, e), e})
      <4>1. IsFiniteSet({PrincipalOf(records, e)} \cup {e})
        BY FS_Singleton, FS_AddElement
      <4>2. {PrincipalOf(records, e)} \cup {e} = {PrincipalOf(records, e), e}
        OBVIOUS
      <4> QED
        BY <4>1, <4>2
    <3> QED
      BY <3>1, FindingIsFinite
  <2>4. DOMAIN f = S
    OBVIOUS
  <2> HIDE DEF S, f
  <2>5. IsFiniteSet({f[e] : e \in S})
    BY <2>1, <2>4, ImagesAreFinite
  <2> QED
    BY <2>2, <2>3, <2>5 DEF Reported
<1> QED
  BY <1>3, <1>4, <1>5, <1>6, <1>7

(***************************************************************************)
(* What the scans keep, as sets of records.                                *)
(***************************************************************************)
(* The earliest of B for each sign-in key, and for each change key. *)
EarliestSignIns(B) == {e \in B : Earliest(e, {t \in B : SignInKey(t) = SignInKey(e)})}
EarliestChanges(B) == {c \in B : Earliest(c, {d \in B : ChangeKey(d) = ChangeKey(c)})}

(* The first position of a key has the earliest record of that key.               *)
LEMMA FirstSignIns ==
  ASSUME NEW S, Timed(S), NEW q, Ordered(q, S), NEW H \in SUBSET DOMAIN q
  PROVE  FirstPerKey(q, H, SignInKey) = EarliestSignIns(At(q, H))
<1> DEFINE same(e) == {t \in At(q, H) : SignInKey(t) = SignInKey(e)}
<1>1. /\ DOMAIN q \subseteq Nat /\ \A i \in DOMAIN q : q[i] \in S
      /\ \A i, j \in DOMAIN q : i < j => Before(q[i], q[j])
  BY DEF Ordered
<1>2. \A i, j \in DOMAIN q : i < j <=> Before(q[i], q[j])
  <2> SUFFICES ASSUME NEW i \in DOMAIN q, NEW j \in DOMAIN q, Before(q[i], q[j]), ~(i < j)
               PROVE  FALSE
    BY <1>1
  <2>1. i = j \/ Before(q[j], q[i])
    BY <1>1
  <2> QED
    BY <1>1, <2>1, BeforeIsAnOrder
<1>3. ASSUME NEW j \in H
      PROVE  (\A k \in H : k < j => SignInKey(q[k]) # SignInKey(q[j])) <=> Earliest(q[j], same(q[j]))
  <2>1. Earliest(q[j], same(q[j])) <=> \A k \in H : SignInKey(q[k]) = SignInKey(q[j]) => ~Before(q[k], q[j])
    BY DEF Earliest, At
  <2>2. \A k \in H : Before(q[k], q[j]) <=> k < j
    BY <1>2
  <2> QED
    BY <2>1, <2>2
<1>4. FirstPerKey(q, H, SignInKey) =
        {q[i] : i \in {j \in H : \A k \in H : k < j => SignInKey(q[k]) # SignInKey(q[j])}}
  BY DEF FirstPerKey
<1> HIDE DEF same
<1>5. \A e : e \in FirstPerKey(q, H, SignInKey) <=> e \in At(q, H) /\ Earliest(e, same(e))
  BY <1>3, <1>4 DEF At
<1> QED
  BY <1>5 DEF same, EarliestSignIns

LEMMA FirstChanges ==
  ASSUME NEW S, Timed(S), NEW q, Ordered(q, S), NEW H \in SUBSET DOMAIN q
  PROVE  FirstPerKey(q, H, ChangeKey) = EarliestChanges(At(q, H))
<1> DEFINE same(e) == {t \in At(q, H) : ChangeKey(t) = ChangeKey(e)}
<1>1. /\ DOMAIN q \subseteq Nat /\ \A i \in DOMAIN q : q[i] \in S
      /\ \A i, j \in DOMAIN q : i < j => Before(q[i], q[j])
  BY DEF Ordered
<1>2. \A i, j \in DOMAIN q : i < j <=> Before(q[i], q[j])
  <2> SUFFICES ASSUME NEW i \in DOMAIN q, NEW j \in DOMAIN q, Before(q[i], q[j]), ~(i < j)
               PROVE  FALSE
    BY <1>1
  <2>1. i = j \/ Before(q[j], q[i])
    BY <1>1
  <2> QED
    BY <1>1, <2>1, BeforeIsAnOrder
<1>3. ASSUME NEW j \in H
      PROVE  (\A k \in H : k < j => ChangeKey(q[k]) # ChangeKey(q[j])) <=> Earliest(q[j], same(q[j]))
  <2>1. Earliest(q[j], same(q[j])) <=> \A k \in H : ChangeKey(q[k]) = ChangeKey(q[j]) => ~Before(q[k], q[j])
    BY DEF Earliest, At
  <2>2. \A k \in H : Before(q[k], q[j]) <=> k < j
    BY <1>2
  <2> QED
    BY <2>1, <2>2
<1>4. FirstPerKey(q, H, ChangeKey) =
        {q[i] : i \in {j \in H : \A k \in H : k < j => ChangeKey(q[k]) # ChangeKey(q[j])}}
  BY DEF FirstPerKey
<1> HIDE DEF same
<1>5. \A e : e \in FirstPerKey(q, H, ChangeKey) <=> e \in At(q, H) /\ Earliest(e, same(e))
  BY <1>3, <1>4 DEF At
<1> QED
  BY <1>5 DEF same, EarliestChanges

(* ERP007 over a set S of sign-ins. *)
PriorFailures(S, s) ==
  {f \in S : f.outcome = "failure" /\ SignInKey(f) = SignInKey(s) /\ Precedes(f, s)}

BreachesAmong(S) ==
  {s \in S : s.outcome = "success" /\ Cardinality(PriorFailures(S, s)) >= FailureThreshold}

MostRecentAmong(S, s) ==
  {f \in PriorFailures(S, s) : Cardinality(Above(f, PriorFailures(S, s))) < FailureThreshold}

(* The failures the scan selects for a success are those in its window.           *)
LEMMA QualifyingFailuresAre ==
  ASSUME NEW S, Timed(S), NEW q, Ordered(q, S), NEW s
  PROVE  /\ QualifyingFailures(q, s) \subseteq DOMAIN q
         /\ At(q, QualifyingFailures(q, s)) = PriorFailures(S, s)
         /\ Timed(PriorFailures(S, s))
         /\ Ordered(AtPositions(q, QualifyingFailures(q, s)), PriorFailures(S, s))
         /\ Len(AtPositions(q, QualifyingFailures(q, s))) = Cardinality(QualifyingFailures(q, s))
         /\ Cardinality(QualifyingFailures(q, s)) = Cardinality(PriorFailures(S, s))
<1> DEFINE I == QualifyingFailures(q, s)
           F == PriorFailures(S, s)
<1>1. q \in Seq(S) /\ \A e \in S : \E i \in DOMAIN q : q[i] = e
  BY DEF Ordered
<1>2. I \subseteq DOMAIN q
  BY DEF QualifyingFailures
<1>3. At(q, I) = F
  BY <1>1 DEF At, QualifyingFailures, PriorFailures
<1>4. Timed(F)
  BY DEF PriorFailures, Timed
<1> HIDE DEF I, F
<1>5. Ordered(AtPositions(q, I), F) /\ Len(AtPositions(q, I)) = Cardinality(I)
  BY <1>2, <1>3, KeptInOrder
<1>6. Cardinality(F) = Len(AtPositions(q, I))
  BY <1>4, <1>5, PositionsCount
<1> QED
  BY <1>2, <1>3, <1>4, <1>5, <1>6 DEF I, F

(* The last FailureThreshold qualifying failures are the most recent ones.        *)
LEMMA RetainedInOrder ==
  ASSUME NEW S, Timed(S), NEW q, Ordered(q, S), NEW s \in BreachesAmong(S)
  PROVE  /\ Ordered(Retained(q, s), MostRecentAmong(S, s))
         /\ Timed(MostRecentAmong(S, s))
<1> DEFINE F == PriorFailures(S, s)
           M == MostRecentAmong(S, s)
           p == AtPositions(q, QualifyingFailures(q, s))
           n == Len(p)
           r == Retained(q, s)
<1>1. Timed(F) /\ Ordered(p, F) /\ n = Cardinality(F)
  BY QualifyingFailuresAre
<1>2. n >= FailureThreshold
  BY <1>1 DEF BreachesAmong
<1>3. M = {f \in F : Cardinality(Above(f, F)) < FailureThreshold}
  BY DEF MostRecentAmong
<1>4. Timed(M)
  BY <1>1, <1>3 DEF Timed
<1>5. r = SubSeq(p, n - FailureThreshold + 1, n)
  BY DEF Retained, LastOf
<1> HIDE DEF F, M, p, r
<1>6. /\ p \in Seq(F) /\ n \in Nat /\ DOMAIN p = 1 .. n /\ FailureThreshold \in Nat
      /\ \A e \in F : \E i \in DOMAIN p : p[i] = e
      /\ \A i, j \in DOMAIN p : i < j => Before(p[i], p[j])
  BY <1>1, ThresholdIsPositive DEF Ordered
<1> DEFINE d == n - FailureThreshold
<1>7. d \in Nat /\ n = d + FailureThreshold
  BY <1>2, <1>6
<1>8. \A i \in DOMAIN p : Cardinality(Above(p[i], F)) = n - i
  BY <1>1, PositionsCount
<1> HIDE DEF n
<1>9. /\ Len(r) = FailureThreshold /\ r \in Seq(F)
      /\ \A i \in 1 .. FailureThreshold : r[i] = p[d + i]
  <2>1. r = SubSeq(p, d + 1, n)
    BY <1>5
  <2> HIDE DEF d
  <2>2. \A i \in (d + 1) .. n : p[i] \in F
    BY <1>6, <1>7
  <2>3. /\ r \in Seq(F)
        /\ Len(r) = IF d + 1 <= n THEN n - (d + 1) + 1 ELSE 0
        /\ \A i \in 1 .. n - (d + 1) + 1 : r[i] = p[(d + 1) + i - 1]
    BY <1>6, <1>7, <2>1, <2>2, SubSeqProperties
  <2>4. n - (d + 1) + 1 = FailureThreshold /\ (d + 1 <= n <=> FailureThreshold > 0)
    BY <1>6, <1>7
  <2>5. Len(r) = FailureThreshold
    BY <1>6, <2>3, <2>4
  <2>6. \A i \in 1 .. FailureThreshold : (d + 1) + i - 1 = d + i
    BY <1>6, <1>7
  <2>7. \A i \in 1 .. FailureThreshold : r[i] = p[d + i]
    BY <2>3, <2>4, <2>6
  <2> QED
    BY <2>3, <2>5, <2>7
<1> HIDE DEF d
<1>10. \A i \in DOMAIN p : p[i] \in M <=> i > d
  BY <1>3, <1>6, <1>7, <1>8
<1>11. DOMAIN r = 1 .. FailureThreshold
  BY <1>6, <1>9
<1>12. \A i \in DOMAIN r : d + i \in DOMAIN p /\ d + i > d
  BY <1>6, <1>7, <1>11
<1>13. r \in Seq(M)
  <2>1. \A i \in DOMAIN r : r[i] \in M
    BY <1>9, <1>10, <1>11, <1>12
  <2> QED
    BY <1>9, <2>1
<1>14. \A e \in M : \E i \in DOMAIN r : r[i] = e
  <2> SUFFICES ASSUME NEW e \in M
               PROVE  \E i \in DOMAIN r : r[i] = e
    OBVIOUS
  <2>1. PICK k \in DOMAIN p : p[k] = e
    BY <1>3, <1>6
  <2>2. k - d \in DOMAIN r /\ d + (k - d) = k
    BY <1>6, <1>7, <1>10, <1>11, <2>1
  <2> QED
    BY <1>9, <1>11, <2>1, <2>2
<1>15. \A i, j \in DOMAIN r : i < j => Before(r[i], r[j])
  BY <1>6, <1>7, <1>9, <1>11, <1>12
<1> QED
  BY <1>4, <1>13, <1>14, <1>15 DEF Ordered, M, r

(* The episodes of ERP007 are those of the first breach of each key.              *)
LEMMA Erp007Is ==
  ASSUME NEW records, Normalized(records), NEW at
  PROVE  Erp007(records, at) =
           {Episode("ERP007", Append(Retained(SignIns(records, at), s), s)) :
              s \in EarliestSignIns(BreachesAmong(SignInsAmong(ToSet(records), at)))}
<1> DEFINE S == SignInsAmong(ToSet(records), at)
           q == SignIns(records, at)
           H == Hits007(q)
<1>1. Timed(S) /\ Ordered(q, S)
  BY SignInsInOrder
<1> HIDE DEF S, q
<1>2. H \subseteq DOMAIN q
  BY DEF Hits007
<1>3. At(q, H) = BreachesAmong(S)
  <2>1. \A s : Cardinality(QualifyingFailures(q, s)) = Cardinality(PriorFailures(S, s))
    BY <1>1, QualifyingFailuresAre
  <2>2. q \in Seq(S) /\ \A e \in S : \E i \in DOMAIN q : q[i] = e
    BY <1>1 DEF Ordered
  <2> QED
    BY <2>1, <2>2 DEF At, Hits007, BreachesAmong
<1> HIDE DEF H
<1>4. FirstPerKey(q, H, SignInKey) = EarliestSignIns(BreachesAmong(S))
  BY <1>1, <1>2, <1>3, FirstSignIns
<1> QED
  BY <1>4 DEF Erp007, S, q, H

(* ERP008 over a set S of sign-ins. *)
IndicatedAmong(records, S) ==
  {e \in S : e.outcome = "success" /\ MatchingIndicators(records, e) # {}}

(* The findings of ERP008 are those of the first covered sign-in of each key.     *)
LEMMA Erp008Is ==
  ASSUME NEW records, Normalized(records), NEW at
  PROVE  Erp008(records, at) =
           {Episode("ERP008", <<FirstIndicator(records, e), e>>) :
              e \in EarliestSignIns(IndicatedAmong(records, SignInsAmong(ToSet(records), at)))}
<1> DEFINE S == SignInsAmong(ToSet(records), at)
           q == SignIns(records, at)
           H == Hits008(records, q)
<1>1. Timed(S) /\ Ordered(q, S)
  BY SignInsInOrder
<1> HIDE DEF S, q
<1>2. H \subseteq DOMAIN q
  BY DEF Hits008, Successes
<1>3. At(q, H) = IndicatedAmong(records, S)
  <2>1. q \in Seq(S) /\ \A e \in S : \E i \in DOMAIN q : q[i] = e
    BY <1>1 DEF Ordered
  <2> QED
    <3>1. \A i \in DOMAIN q : i \in H <=> q[i] \in IndicatedAmong(records, S)
      BY <2>1 DEF Hits008, Successes, IndicatedAmong
    <3>2. IndicatedAmong(records, S) \subseteq S
      BY DEF IndicatedAmong
    <3> HIDE DEF H
    <3> QED
      BY <1>2, <2>1, <3>1, <3>2 DEF At
<1> HIDE DEF H
<1>4. FirstPerKey(q, H, SignInKey) = EarliestSignIns(IndicatedAmong(records, S))
  BY <1>1, <1>2, <1>3, FirstSignIns
<1> QED
  BY <1>4 DEF Erp008, S, q, H

(* ERP009 over a set R of records. *)
PrecededAmong(R, at) == {c \in ChangesAmong(R, at) : CandidatesAmong(R, at, c) # {}}

(* The last element in chronological order is the latest. *)
LEMMA LastIsLatest ==
  ASSUME NEW S, Timed(S), NEW q, Ordered(q, S)
  PROVE  /\ q = <<>> <=> S = {}
         /\ S # {} => Last(q) = Latest(S) /\ Latest(S) \in S /\ \A e \in S : ~Before(Latest(S), e)
<1>1. /\ q \in Seq(S) /\ DOMAIN q = 1 .. Len(q) /\ Len(q) \in Nat
      /\ \A e \in S : \E i \in DOMAIN q : q[i] = e
      /\ \A i, j \in DOMAIN q : i < j => Before(q[i], q[j])
  BY DEF Ordered
<1>2. q = <<>> <=> S = {}
  <2>1. ASSUME q = <<>> PROVE S = {}
    BY <1>1, <2>1
  <2>2. ASSUME q # <<>> PROVE S # {}
    BY <1>1, <2>2
  <2> QED
    BY <2>1, <2>2
<1>3. ASSUME S # {}
      PROVE  Last(q) = Latest(S) /\ Latest(S) \in S /\ \A e \in S : ~Before(Latest(S), e)
  <2>1. Len(q) \in DOMAIN q /\ q[Len(q)] \in S
    BY <1>1, <1>2, <1>3
  <2>2. \A e \in S : e = q[Len(q)] \/ Before(e, q[Len(q)])
    BY <1>1, <2>1
  <2>3. \A e \in S : ~Before(q[Len(q)], e)
    BY <2>1, <2>2, BeforeIsAnOrder
  <2>4. \A e \in S : (\A other \in S : ~Before(e, other)) => e = q[Len(q)]
    BY <2>1, <2>2
  <2>5. Latest(S) = q[Len(q)]
    BY <2>1, <2>3, <2>4 DEF Latest
  <2> QED
    BY <2>1, <2>3, <2>5 DEF Last
<1> QED
  BY <1>2, <1>3

(* The findings of ERP009 are those of the first preceded change of each key.     *)
LEMMA Erp009Is ==
  ASSUME NEW records, Normalized(records), NEW at
  PROVE  Erp009(records, at) =
           {Episode("ERP009", <<Latest(CandidatesAmong(ToSet(records), at, c)), c>>) :
              c \in EarliestChanges(PrecededAmong(ToSet(records), at))}
<1> DEFINE R == ToSet(records)
           S == ChangesAmong(R, at)
           q == SensitiveChanges(records, at)
           H == Hits009(records, at, q)
<1>1. Timed(S) /\ Ordered(q, S)
  BY ChangesInOrder
<1>2. \A c : /\ CandidateSignIns(records, at, c) = <<>> <=> CandidatesAmong(R, at, c) = {}
             /\ CandidatesAmong(R, at, c) # {} =>
                  Last(CandidateSignIns(records, at, c)) = Latest(CandidatesAmong(R, at, c))
  BY CandidatesInOrder, LastIsLatest
<1> HIDE DEF S, q
<1>3. H \subseteq DOMAIN q
  BY DEF Hits009
<1>4. At(q, H) = PrecededAmong(R, at)
  <2>1. q \in Seq(S) /\ \A e \in S : \E i \in DOMAIN q : q[i] = e
    BY <1>1 DEF Ordered
  <2> QED
    BY <1>2, <2>1 DEF At, Hits009, PrecededAmong, S
<1> HIDE DEF H
<1>5. FirstPerKey(q, H, ChangeKey) = EarliestChanges(PrecededAmong(R, at))
  BY <1>1, <1>3, <1>4, FirstChanges
<1>6. \A c \in EarliestChanges(PrecededAmong(R, at)) :
        Last(CandidateSignIns(records, at, c)) = Latest(CandidatesAmong(R, at, c))
  BY <1>2 DEF EarliestChanges, PrecededAmong
<1>7. Erp009(records, at) =
        {Episode("ERP009", <<Last(CandidateSignIns(records, at, c)), c>>) : c \in EarliestChanges(PrecededAmong(R, at))}
  BY <1>5 DEF Erp009, q, H
<1> QED
  BY <1>6, <1>7

(***************************************************************************)
(* ERP006.                                                                 *)
(***************************************************************************)
LEMMA LeastNumber ==
  ASSUME NEW N \in SUBSET Nat, N # {}
  PROVE  \E n \in N : \A m \in N : n <= m
<1> DEFINE Less == OpToRel(<, Nat)
<1>1. IsWellFoundedOn(Less, Nat)
  BY NatLessThanWellFounded
<1>2. \A i, j \in Nat : i < j => <<i, j>> \in Less
  BY DEF OpToRel
<1> HIDE DEF Less
<1>3. PICK n \in N : \A m \in N : ~(<<m, n>> \in Less)
  BY <1>1, WFMin
<1>4. ASSUME NEW m \in N
      PROVE  n <= m
  <2>1. m \in Nat /\ n \in Nat /\ ~(m < n)
    BY <1>2, <1>3
  <2> QED
    BY <2>1
<1> QED
  BY <1>4

(* The burst found is that of the first start. *)
LEMMA FirstStart ==
  ASSUME NEW X, NEW q \in Seq(X), BurstStarts(q) # {}
  PROVE  \E start \in BurstStarts(q) :
           /\ \A j \in BurstStarts(q) : start <= j
           /\ start \in Nat /\ 1 <= start /\ start + BurstThreshold - 1 <= Len(q)
           /\ q[start + BurstThreshold - 1].at <= q[start].at + BurstWindow
           /\ Burst(q) = At(q, start .. (start + BurstThreshold - 1))
<1> DEFINE start == CHOOSE i \in BurstStarts(q) : \A j \in BurstStarts(q) : i <= j
<1>1. BurstStarts(q) \subseteq Nat
  BY DEF BurstStarts
<1>2. \E i \in BurstStarts(q) : \A j \in BurstStarts(q) : i <= j
  BY <1>1, LeastNumber
<1>3. start \in BurstStarts(q) /\ \A j \in BurstStarts(q) : start <= j
  BY <1>2
<1>4. Burst(q) = At(q, start .. (start + BurstThreshold - 1))
  BY DEF Burst, At
<1> HIDE DEF start
<1>5. /\ start \in Nat /\ 1 <= start /\ start + BurstThreshold - 1 <= Len(q)
      /\ q[start + BurstThreshold - 1].at <= q[start].at + BurstWindow
  BY <1>3 DEF BurstStarts
<1> QED
  BY <1>3, <1>4, <1>5

InOneWindow(B) == \A a, b \in B : a.at <= b.at + BurstWindow

(* It is BurstThreshold records within one window. *)
LEMMA BurstIsOne ==
  ASSUME NEW S, Timed(S), NEW q, Ordered(q, S), BurstStarts(q) # {}
  PROVE  /\ Burst(q) \subseteq S /\ IsFiniteSet(Burst(q))
         /\ Cardinality(Burst(q)) = BurstThreshold
         /\ InOneWindow(Burst(q))
<1>1. /\ q \in Seq(S) /\ DOMAIN q = 1 .. Len(q) /\ Len(q) \in Nat
      /\ \A i \in DOMAIN q : q[i] \in S /\ q[i].at \in Nat
      /\ \A i, j \in DOMAIN q : i < j => Before(q[i], q[j])
  BY DEF Ordered, Timed
<1>2. PICK start \in BurstStarts(q) :
         /\ start \in Nat /\ 1 <= start /\ start + BurstThreshold - 1 <= Len(q)
         /\ q[start + BurstThreshold - 1].at <= q[start].at + BurstWindow
         /\ Burst(q) = At(q, start .. (start + BurstThreshold - 1))
  BY <1>1, FirstStart
<1>3. BurstThreshold \in Nat /\ BurstThreshold >= 1 /\ BurstWindow \in Nat
  BY ParametersArePositive
<1> DEFINE end == start + BurstThreshold - 1
<1>4. /\ end \in DOMAIN q /\ start \in DOMAIN q /\ start <= end
      /\ end \in Nat /\ end - start + 1 = BurstThreshold
      /\ q[end].at <= q[start].at + BurstWindow
      /\ Burst(q) = At(q, start .. end)
  BY <1>1, <1>2, <1>3
<1> HIDE DEF end
<1>5. start .. end \subseteq DOMAIN q
  BY <1>1, <1>4
<1>6. Burst(q) \subseteq S
  BY <1>1, <1>4, <1>5 DEF At
<1>7. IsFiniteSet(Burst(q)) /\ Cardinality(Burst(q)) = end - start + 1
  BY <1>1, <1>2, <1>4, SlicesCount
<1>8. Cardinality(Burst(q)) = BurstThreshold
  BY <1>4, <1>7
<1>9. \A i, j \in DOMAIN q : i <= j => q[i].at <= q[j].at
  BY <1>1 DEF Before
<1>10. ASSUME NEW i \in start .. end, NEW j \in start .. end
       PROVE  q[i].at <= q[j].at + BurstWindow
  <2>1. i \in DOMAIN q /\ j \in DOMAIN q /\ i <= end /\ start <= j
    BY <1>2, <1>4, <1>5
  <2>2. q[i].at <= q[end].at /\ q[start].at <= q[j].at
    BY <1>4, <1>9, <2>1
  <2>3. {q[i].at, q[j].at, q[start].at, q[end].at} \subseteq Nat
    BY <1>1, <1>4, <2>1
  <2> QED
    BY <1>3, <1>4, <2>2, <2>3
<1>11. InOneWindow(Burst(q))
  BY <1>4, <1>10 DEF InOneWindow, At
<1> QED
  BY <1>6, <1>7, <1>8, <1>11

(* No burst of the same records is missed or earlier. *)
LEMMA BurstIsFirst ==
  ASSUME NEW S, Timed(S), NEW q, Ordered(q, S),
         NEW B \in SUBSET S, Cardinality(B) = BurstThreshold, InOneWindow(B)
  PROVE  /\ BurstStarts(q) # {}
         /\ B = Burst(q) \/ \E a \in Burst(q) \ B : \A b \in B \ Burst(q) : Before(a, b)
<1>1. /\ q \in Seq(S) /\ DOMAIN q = 1 .. Len(q) /\ Len(q) \in Nat
      /\ \A i \in DOMAIN q : q[i] \in S /\ q[i].at \in Nat
      /\ \A e \in S : \E i \in DOMAIN q : q[i] = e
      /\ \A i, j \in DOMAIN q : i < j => Before(q[i], q[j])
  BY DEF Ordered, Timed
<1>2. BurstThreshold \in Nat /\ BurstThreshold >= 1 /\ BurstWindow \in Nat
  BY ParametersArePositive
<1>3. IsFiniteSet(B)
  BY PositionsCount, FS_Subset
<1> DEFINE I == {i \in DOMAIN q : q[i] \in B}
<1>4. I \subseteq Nat /\ B = At(q, I)
  BY <1>1 DEF At
<1>5. I # {}
  <2>1. B # {}
    BY <1>2, FS_EmptySet
  <2> QED
    BY <1>4, <2>1 DEF At
<1>6. PICK first \in I : \A i \in I : first <= i
  <2> HIDE DEF I
  <2> QED
    BY <1>4, <1>5, LeastNumber
<1>7. first \in Nat /\ 1 <= first /\ first <= Len(q)
  BY <1>1, <1>6
<1> DEFINE reach == first + BurstThreshold - 1
<1>8. PICK last \in I : last >= reach
  <2> SUFFICES ASSUME \A i \in I : ~(i >= reach)
               PROVE  FALSE
    OBVIOUS
  <2> DEFINE stop == IF reach - 1 <= Len(q) THEN reach - 1 ELSE Len(q)
  <2>1. stop \in Nat /\ first <= stop + 1 /\ stop <= Len(q) /\ stop - first + 1 <= BurstThreshold - 1
    BY <1>1, <1>2, <1>7
  <2>2. \A i \in I : i \in first .. stop
    BY <1>1, <1>2, <1>6, <1>7
  <2> HIDE DEF stop
  <2>3. IsFiniteSet(At(q, first .. stop)) /\ Cardinality(At(q, first .. stop)) = stop - first + 1
    BY <1>7, <2>1, SlicesCount
  <2>4. B \subseteq At(q, first .. stop)
    BY <1>4, <2>2 DEF At
  <2>5. Cardinality(B) <= stop - first + 1
    BY <2>3, <2>4, FS_Subset
  <2> QED
    BY <1>2, <1>7, <2>1, <2>5
<1>9. last \in DOMAIN q /\ q[last] \in B /\ first \in DOMAIN q /\ q[first] \in B
  BY <1>6, <1>8
<1>10. first \in BurstStarts(q)
  <2>1. reach \in DOMAIN q /\ reach <= last
    BY <1>1, <1>2, <1>7, <1>8, <1>9
  <2>2. q[last].at <= q[first].at + BurstWindow
    BY <1>9 DEF InOneWindow
  <2> HIDE DEF reach
  <2>3. \A i, j \in DOMAIN q : i <= j => q[i].at <= q[j].at
    BY <1>1 DEF Before
  <2>4. q[reach].at <= q[last].at
    BY <1>9, <2>1, <2>3
  <2>5. {q[reach].at, q[last].at, q[first].at} \subseteq Nat
    BY <1>1, <1>9, <2>1
  <2>6. q[reach].at <= q[first].at + BurstWindow
    BY <1>2, <2>2, <2>4, <2>5
  <2> QED
    BY <1>1, <1>9, <2>1, <2>6 DEF BurstStarts, reach
<1>11. PICK start \in BurstStarts(q) :
          /\ \A j \in BurstStarts(q) : start <= j
          /\ start \in Nat /\ 1 <= start /\ start + BurstThreshold - 1 <= Len(q)
          /\ Burst(q) = At(q, start .. (start + BurstThreshold - 1))
  BY <1>1, <1>10, FirstStart
<1>12. start <= first
  BY <1>10, <1>11
<1>13. ASSUME B # Burst(q)
       PROVE  \E a \in Burst(q) \ B : \A b \in B \ Burst(q) : Before(a, b)
  <2>1. Burst(q) \ B # {}
    <3>1. IsFiniteSet(Burst(q)) /\ Cardinality(Burst(q)) = BurstThreshold
      BY <1>10, BurstIsOne
    <3> QED
      BY <1>3, <1>13, <3>1, FS_Subset
  <2>2. PICK a \in Burst(q) \ B : TRUE
    BY <2>1
  <2>3. PICK i \in start .. (start + BurstThreshold - 1) : a = q[i]
    BY <1>11, <2>2 DEF At
  <2>4. ASSUME NEW b \in B \ Burst(q)
        PROVE  Before(a, b)
    <3>1. PICK j \in I : b = q[j]
      BY <1>4, <2>4 DEF At
    <3>2. j \in DOMAIN q /\ first <= j
      BY <1>6, <3>1
    <3>3. j \notin start .. (start + BurstThreshold - 1)
      BY <1>11, <2>4, <3>1 DEF At
    <3>4. i \in DOMAIN q /\ i < j
      <4>1. j \in Nat /\ start <= j
        BY <1>1, <1>7, <1>11, <1>12, <3>2
      <4>2. start + BurstThreshold - 1 < j
        BY <1>2, <1>11, <3>3, <4>1
      <4>3. i \in Nat /\ 1 <= i /\ i <= start + BurstThreshold - 1
        BY <1>2, <1>11, <2>3
      <4>4. i \in 1 .. Len(q)
        BY <1>1, <1>2, <1>11, <4>3
      <4> QED
        BY <1>1, <1>2, <1>11, <4>1, <4>2, <4>3, <4>4
    <3> QED
      BY <1>1, <2>3, <3>1, <3>2, <3>4
  <2> QED
    BY <2>2, <2>4
<1> QED
  BY <1>10, <1>13

(* What ERP006 reports, finitely and under its own rule.                          *)
LEMMA Erp006Reported ==
  ASSUME NEW records, Normalized(records)
  PROVE  Reported("ERP006", Erp006(records))
<1> DEFINE A == AuthSignIns(records, "failure")
           principal == [e \in A |-> e.principal]
           P == {e.principal : e \in A}
           S == {who \in P : BurstStarts(FailuresOf(records, who)) # {}}
           f == [who \in S |-> Finding("ERP006", Burst(FailuresOf(records, who)), {})]
<1>1. IsFiniteSet(A)
  <2>1. A \subseteq ToSet(records)
    BY DEF AuthSignIns, OfKind
  <2> QED
    BY <2>1, RecordsAreFinite, FS_Subset
<1>2. IsFiniteSet(P)
  <2>1. P = {principal[e] : e \in A} /\ DOMAIN principal = A
    OBVIOUS
  <2> HIDE DEF principal, P, A
  <2> QED
    BY <1>1, <2>1, ImagesAreFinite
<1>3. IsFiniteSet(S)
  BY <1>2, FS_Subset
<1>4. Erp006(records) = {f[who] : who \in S}
  BY DEF Erp006
<1>5. ASSUME NEW who \in S
      PROVE  f[who].rule = "ERP006" /\ IsFiniteSet(f[who].records)
  <2>1. IsFiniteSet(Burst(FailuresOf(records, who)))
    BY FailuresInOrder, BurstIsOne
  <2> QED
    BY <2>1, FindingIsFinite
<1>6. DOMAIN f = S
  OBVIOUS
<1> HIDE DEF S, f
<1>7. IsFiniteSet({f[who] : who \in S})
  BY <1>3, <1>6, ImagesAreFinite
<1> QED
  BY <1>4, <1>5, <1>7 DEF Reported

(* ERP007 to ERP009 report finitely many findings, each under its own rule.       *)
LEMMA ReplayFindingsReported ==
  ASSUME NEW records, Normalized(records), NEW at
  PROVE  /\ Reported("ERP007", Erp007(records, at))
         /\ Reported("ERP008", Erp008(records, at))
         /\ Reported("ERP009", Erp009(records, at))
<1>1. /\ IsFiniteSet(SignInsAmong(ToSet(records), at))
      /\ IsFiniteSet(ChangesAmong(ToSet(records), at))
  BY SignInsInOrder, ChangesInOrder, PositionsCount
<1>2. Reported("ERP007", Erp007(records, at))
  <2> DEFINE S == SignInsAmong(ToSet(records), at)
             q == SignIns(records, at)
             E == EarliestSignIns(BreachesAmong(S))
             f == [s \in E |-> Episode("ERP007", Append(Retained(q, s), s))]
  <2>1. E \subseteq BreachesAmong(S) /\ BreachesAmong(S) \subseteq S
    BY DEF EarliestSignIns, BreachesAmong
  <2>2. IsFiniteSet(E)
    BY <1>1, <2>1, FS_Subset
  <2>3. Erp007(records, at) = {f[s] : s \in E}
    BY Erp007Is
  <2>4. ASSUME NEW s \in E
        PROVE  f[s].rule = "ERP007" /\ IsFiniteSet(f[s].records)
    <3>1. Ordered(Retained(q, s), MostRecentAmong(S, s))
      BY <2>1, SignInsInOrder, RetainedInOrder
    <3>2. Retained(q, s) \in Seq(S) /\ s \in S
      <4>1. MostRecentAmong(S, s) \subseteq S
        BY DEF MostRecentAmong, PriorFailures
      <4> QED
        BY <2>1, <3>1, <4>1 DEF Ordered
    <3>3. Append(Retained(q, s), s) \in Seq(S)
      BY <3>2
    <3> QED
      BY <3>3, EpisodeIsFinite
  <2>5. DOMAIN f = E
    OBVIOUS
  <2> HIDE DEF E, f
  <2>6. IsFiniteSet({f[s] : s \in E})
    BY <2>2, <2>5, ImagesAreFinite
  <2> QED
    BY <2>3, <2>4, <2>6 DEF Reported
<1>3. Reported("ERP008", Erp008(records, at))
  <2> DEFINE S == SignInsAmong(ToSet(records), at)
             E == EarliestSignIns(IndicatedAmong(records, S))
             f == [e \in E |-> Episode("ERP008", <<FirstIndicator(records, e), e>>)]
  <2>1. E \subseteq S
    BY DEF EarliestSignIns, IndicatedAmong
  <2>2. IsFiniteSet(E)
    BY <1>1, <2>1, FS_Subset
  <2>3. Erp008(records, at) = {f[e] : e \in E}
    BY Erp008Is
  <2>4. ASSUME NEW e \in E
        PROVE  f[e].rule = "ERP008" /\ IsFiniteSet(f[e].records)
    <3>1. <<FirstIndicator(records, e), e>> \in Seq({FirstIndicator(records, e), e})
      OBVIOUS
    <3> QED
      BY <3>1, EpisodeIsFinite
  <2>5. DOMAIN f = E
    OBVIOUS
  <2> HIDE DEF E, f
  <2>6. IsFiniteSet({f[e] : e \in E})
    BY <2>2, <2>5, ImagesAreFinite
  <2> QED
    BY <2>3, <2>4, <2>6 DEF Reported
<1>4. Reported("ERP009", Erp009(records, at))
  <2> DEFINE R == ToSet(records)
             E == EarliestChanges(PrecededAmong(R, at))
             f == [c \in E |-> Episode("ERP009", <<Latest(CandidatesAmong(R, at, c)), c>>)]
  <2>1. E \subseteq ChangesAmong(R, at)
    BY DEF EarliestChanges, PrecededAmong
  <2>2. IsFiniteSet(E)
    BY <1>1, <2>1, FS_Subset
  <2>3. Erp009(records, at) = {f[c] : c \in E}
    BY Erp009Is
  <2>4. ASSUME NEW c \in E
        PROVE  f[c].rule = "ERP009" /\ IsFiniteSet(f[c].records)
    <3>1. <<Latest(CandidatesAmong(R, at, c)), c>> \in Seq({Latest(CandidatesAmong(R, at, c)), c})
      OBVIOUS
    <3> QED
      BY <3>1, EpisodeIsFinite
  <2>5. DOMAIN f = E
    OBVIOUS
  <2> HIDE DEF E, f
  <2>6. IsFiniteSet({f[c] : c \in E})
    BY <2>2, <2>5, ImagesAreFinite
  <2> QED
    BY <2>3, <2>4, <2>6 DEF Reported
<1> QED
  BY <1>2, <1>3, <1>4

Rules == {"ERP001", "ERP002", "ERP003", "ERP004", "ERP005", "ERP006", "ERP007", "ERP008", "ERP009"}

(* Every rule reports finitely many findings of its own. *)
LEMMA FindingsReported ==
  ASSUME NEW records, Normalized(records), NEW at, NEW rule \in Rules
  PROVE  Reported(rule, FindingsOf(rule, records, at))
BY AccessFindingsReported, Erp006Reported, ReplayFindingsReported DEF Rules, FindingsOf

(* The evidence references of reported findings are a finite set, and those of    *)
(* different rules are different.                                                 *)
LEMMA EvidenceIsFinite ==
  ASSUME NEW rule \in Rules, NEW findings, Reported(rule, findings)
  PROVE  IsFiniteSet(EvidenceOf(findings)) /\ Cardinality(EvidenceOf(findings)) \in Nat
<1> DEFINE evidence(f) == [finding : {f}, number : 1 .. References(f)]
           all == [f \in findings |-> evidence(f)]
<1>1. \A f \in findings : f.rule = rule /\ Cardinality(f.records) \in Nat
  BY FS_CardinalityType DEF Reported
<1>2. \A f \in findings : References(f) \in Nat
  BY <1>1 DEF References, Rules
<1>3. ASSUME NEW f \in findings
      PROVE  IsFiniteSet(evidence(f))
  <2> DEFINE N == 1 .. References(f)
             g == [n \in N |-> [finding |-> f, number |-> n]]
             E == evidence(f)
  <2>1. IsFiniteSet(N)
    BY <1>2, FS_Interval
  <2>2. DOMAIN g = N
    OBVIOUS
  <2>3. \A n \in N : g[n] \in E
    OBVIOUS
  <2>4. ASSUME NEW e \in E
        PROVE  \E n \in N : e = g[n]
    <3>1. e.number \in N /\ e = [finding |-> f, number |-> e.number]
      OBVIOUS
    <3>2. g[e.number] = [finding |-> f, number |-> e.number]
      BY <3>1
    <3> HIDE DEF g, E, N
    <3> QED
      BY <3>1, <3>2
  <2> HIDE DEF g, E, N
  <2>6. E = {g[n] : n \in N}
    BY <2>3, <2>4
  <2>7. IsFiniteSet(E)
    BY <2>1, <2>2, <2>6, ImagesAreFinite
  <2> QED
    BY <2>7 DEF E
<1>4. IsFiniteSet({all[f] : f \in findings})
  <2> DOMAIN all = findings
    OBVIOUS
  <2> HIDE DEF all
  <2> QED
    BY ImagesAreFinite DEF Reported
<1>5. EvidenceOf(findings) = UNION {all[f] : f \in findings}
  BY DEF EvidenceOf
<1>6. \A S \in {all[f] : f \in findings} : IsFiniteSet(S)
  BY <1>3
<1> QED
  BY <1>4, <1>5, <1>6, FS_UNION, FS_CardinalityType

(***************************************************************************)
(* The inductive invariant.                                                *)
(***************************************************************************)
RecordTypes == {r.type : r \in ToSet(bundle.records)}

(* A selection _selected_definitions accepts, and the order it is evaluated in. *)
Admissible == selected # <<>> /\ IsInjective(selected) /\ ToSet(selected) \subseteq ToSet(Registry)

Turns == InRegistryOrder(selected)

Under == phase \in {"parse", "preflight", "evaluate", "done"}

WellFormed ==
  /\ Normalized(bundle.records)
  /\ selected \in Seq(STRING)
  /\ asOf \in Timestamps \cup {NotATime}
  /\ phase \in Phases \ {"broken"}
  /\ phase \in {"preflight", "evaluate", "done"} => asOf \in Timestamps
  /\ phase \in {"select", "parse", "preflight"} => found = <<>> /\ refs = 0

(* The pairs found after the first k turns. *)
Results(k) == [i \in 1 .. k |-> <<Turns[i], FindingsOf(Turns[i], bundle.records, asOf)>>]

(* The turns taken are the first ones, and none of them raised. *)
InTurn ==
  Under =>
    /\ Admissible
    /\ \E k \in 0 .. Len(Turns) :
         /\ found = Results(k)
         /\ pending = SubSeq(Turns, k + 1, Len(Turns))
         /\ \A i \in 1 .. k : Raised(Turns[i], bundle.records, asOf) = "nothing"
    /\ phase = "done" => pending = <<>>

(* The coverage the preflight has established, for the rules of the selection. *)
Covered ==
  phase \in {"evaluate", "done"} =>
    /\ bundle.complete
    /\ \A rule \in ToSet(selected) : RequiredTypes[rule] \subseteq RecordTypes
    /\ ToSet(selected) \cap {"ERP002", "ERP005"} # {} => ~AmbiguousPrincipals(bundle.records)
    /\ "ERP002" \in ToSet(selected) =>
         \A a \in PrivilegedAssignments(bundle.records) : a.principal \in Named(bundle.records)
    /\ "ERP005" \in ToSet(selected) =>
         \A e \in AuthSignIns(bundle.records, "success") : e.principal \in Named(bundle.records)

ReferencesCounted ==
  phase \in {"evaluate", "done"} =>
    IsFiniteSet(EvidenceOf(Findings)) /\ refs = ReferencesOf(Findings) /\ refs <= MaxReferences

CallIInv == WellFormed /\ InTurn /\ Covered /\ ReferencesCounted

(* The registry is a numbering of the rules. *)
LEMMA RegistryNumbers ==
  /\ Registry \in Seq(Rules) /\ DOMAIN Registry = 1 .. 9 /\ ToSet(Registry) = Rules
  /\ \A i \in 1 .. 9 : NumberOf(Registry[i]) = i
<1>1. Registry \in Seq(Rules) /\ DOMAIN Registry = 1 .. 9
  BY DEF Registry, Rules
<1>2. \A i, j \in 1 .. 9 : Registry[i] = Registry[j] => i = j
  BY DEF Registry
<1>3. ToSet(Registry) = Rules
  <2>1. \A i \in 1 .. 9 : Registry[i] \in Rules
    BY DEF Registry, Rules
  <2>2. \A rule \in Rules : \E i \in 1 .. 9 : Registry[i] = rule
    BY DEF Registry, Rules
  <2> QED
    BY <1>1, <2>1, <2>2 DEF ToSet
<1> QED
  BY <1>1, <1>2, <1>3 DEF NumberOf

(* The selected rules are evaluated each once, in the order of the registry. *)
LEMMA TurnsInOrder ==
  ASSUME NEW ids, ToSet(ids) \subseteq Rules
  PROVE  /\ InRegistryOrder(ids) \in Seq(Rules)
         /\ ToSet(InRegistryOrder(ids)) = ToSet(ids)
         /\ \A i, j \in DOMAIN InRegistryOrder(ids) :
              i < j => NumberOf(InRegistryOrder(ids)[i]) < NumberOf(InRegistryOrder(ids)[j])
<1> DEFINE I == {i \in DOMAIN Registry : Registry[i] \in ToSet(ids)}
           t == InRegistryOrder(ids)
<1>1. t = AtPositions(Registry, I) /\ I \in SUBSET DOMAIN Registry
  BY DEF InRegistryOrder
<1>2. t \in Seq(Rules)
  BY <1>1, RegistryNumbers, AtPositionsInOrder
<1>3. PICK to : InStep(to, Registry, I, t)
  <2>1. Registry \in Seq(Rules) /\ I \in SUBSET DOMAIN Registry
    BY <1>1, RegistryNumbers
  <2> HIDE DEF I
  <2>2. \E to : InStep(to, Registry, I, AtPositions(Registry, I))
    BY <2>1, AtPositionsInOrder
  <2> QED
    BY <1>1, <2>2
<1>4. \A n \in DOMAIN t : \E i \in I : to[i] = n /\ t[n] = Registry[i]
  BY <1>3 DEF InStep
<1>5. \A i \in I : to[i] \in DOMAIN t /\ t[to[i]] = Registry[i] /\ i \in 1 .. 9
  BY <1>3, RegistryNumbers DEF InStep
<1>6. \A i, j \in I : i < j => to[i] < to[j]
  BY <1>3 DEF InStep
<1>7. \A i \in I : Registry[i] \in ToSet(ids)
  OBVIOUS
<1>8. \A rule \in ToSet(ids) : \E i \in I : Registry[i] = rule
  BY RegistryNumbers DEF ToSet
<1>9. DOMAIN t \subseteq Nat
  BY <1>2
<1> HIDE DEF t, I
<1>10. ToSet(t) = ToSet(ids)
  <2>1. \A x \in ToSet(t) : x \in ToSet(ids)
    BY <1>4, <1>7 DEF ToSet
  <2>2. \A x \in ToSet(ids) : x \in ToSet(t)
    BY <1>5, <1>8 DEF ToSet
  <2> QED
    BY <2>1, <2>2
<1>11. ASSUME NEW m \in DOMAIN t, NEW n \in DOMAIN t, m < n
       PROVE  NumberOf(t[m]) < NumberOf(t[n])
  <2>1. PICK i \in I : to[i] = m /\ t[m] = Registry[i]
    BY <1>4
  <2>2. PICK j \in I : to[j] = n /\ t[n] = Registry[j]
    BY <1>4
  <2>3. i \in 1 .. 9 /\ j \in 1 .. 9
    BY <1>5
  <2>4. ~(j < i) /\ i # j
    BY <1>6, <1>9, <1>11, <2>1, <2>2
  <2>5. NumberOf(t[m]) = i /\ NumberOf(t[n]) = j
    BY <2>1, <2>2, <2>3, RegistryNumbers
  <2> QED
    BY <2>3, <2>4, <2>5
<1> QED
  BY <1>2, <1>10, <1>11 DEF t

(* Unequal turns are unequal rules. *)
LEMMA TurnsAreDifferent ==
  ASSUME NEW ids, ToSet(ids) \subseteq Rules,
         NEW i \in DOMAIN InRegistryOrder(ids), NEW j \in DOMAIN InRegistryOrder(ids),
         InRegistryOrder(ids)[i] = InRegistryOrder(ids)[j]
  PROVE  i = j
<1> DEFINE t == InRegistryOrder(ids)
<1>1. t \in Seq(Rules)
  BY TurnsInOrder
<1>2. i \in Nat /\ j \in Nat /\ t[i] \in Rules /\ t[i] = t[j]
  BY <1>1
<1>3. i < j => NumberOf(t[i]) < NumberOf(t[j])
  BY TurnsInOrder
<1>4. j < i => NumberOf(t[j]) < NumberOf(t[i])
  BY TurnsInOrder
<1>5. NumberOf(t[i]) \in Nat
  <2>1. PICK n \in 1 .. 9 : Registry[n] = t[i]
    BY <1>2, RegistryNumbers DEF ToSet
  <2> QED
    BY <2>1, RegistryNumbers
<1> HIDE DEF t
<1> QED
  BY <1>2, <1>3, <1>4, <1>5

(* A sequence of different values is as long as its set of values is large. *)
LEMMA InjectiveLength ==
  ASSUME NEW X, NEW s \in Seq(X), \A i, j \in DOMAIN s : s[i] = s[j] => i = j
  PROVE  IsFiniteSet(ToSet(s)) /\ Cardinality(ToSet(s)) = Len(s)
<1>1. DOMAIN s = 1 .. Len(s) /\ Len(s) \in Nat
  OBVIOUS
<1>2. IsFiniteSet(1 .. Len(s)) /\ Cardinality(1 .. Len(s)) = Len(s)
  BY <1>1, FS_Interval
<1>3. s \in Bijection(1 .. Len(s), ToSet(s))
  <2>1. s \in [1 .. Len(s) -> ToSet(s)]
    BY <1>1 DEF ToSet
  <2>2. \A y \in ToSet(s) : \E i \in 1 .. Len(s) : s[i] = y
    BY <1>1 DEF ToSet
  <2> QED
    BY <1>1, <2>1, <2>2 DEF Bijection, Injection, Surjection, IsInjective
<1> QED
  BY <1>1, <1>2, <1>3, FS_Bijection DEF ExistsBijection

(***************************************************************************)
(* The evidence of further rules adds to what is counted.                  *)
(***************************************************************************)
LEMMA EvidenceAdds ==
  ASSUME NEW A, NEW B, IsFiniteSet(EvidenceOf(A)), IsFiniteSet(EvidenceOf(B)), A \cap B = {}
  PROVE  /\ IsFiniteSet(EvidenceOf(A \cup B))
         /\ ReferencesOf(A \cup B) = ReferencesOf(A) + ReferencesOf(B)
<1>1. EvidenceOf(A \cup B) = EvidenceOf(A) \cup EvidenceOf(B)
  BY DEF EvidenceOf
<1>2. \A e \in EvidenceOf(A) : e.finding \in A
  BY DEF EvidenceOf
<1>3. \A e \in EvidenceOf(B) : e.finding \in B
  BY DEF EvidenceOf
<1>4. EvidenceOf(A) \cap EvidenceOf(B) = {}
  BY <1>2, <1>3
<1>5. Cardinality(EvidenceOf(A) \cap EvidenceOf(B)) = 0
  BY <1>4, FS_EmptySet
<1>6. /\ IsFiniteSet(EvidenceOf(A) \cup EvidenceOf(B))
      /\ Cardinality(EvidenceOf(A) \cup EvidenceOf(B)) =
           Cardinality(EvidenceOf(A)) + Cardinality(EvidenceOf(B))
             - Cardinality(EvidenceOf(A) \cap EvidenceOf(B))
  BY FS_Union
<1>7. Cardinality(EvidenceOf(A)) \in Nat /\ Cardinality(EvidenceOf(B)) \in Nat
  BY FS_CardinalityType
<1>8. ReferencesOf(A \cup B) = Cardinality(EvidenceOf(A) \cup EvidenceOf(B))
  BY <1>1 DEF ReferencesOf
<1>9. Cardinality(EvidenceOf(A) \cup EvidenceOf(B)) =
        Cardinality(EvidenceOf(A)) + Cardinality(EvidenceOf(B))
  BY <1>5, <1>6, <1>7
<1> QED
  BY <1>1, <1>6, <1>8, <1>9 DEF ReferencesOf

LEMMA NoEvidence == EvidenceOf({}) = {} /\ ReferencesOf({}) = 0
BY FS_EmptySet DEF EvidenceOf, ReferencesOf

(***************************************************************************)
(* The steps.                                                              *)
(***************************************************************************)
LEMMA SameInputs ==
  ASSUME UNCHANGED inputs
  PROVE  /\ Turns' = Turns /\ RecordTypes' = RecordTypes
         /\ Admissible' <=> Admissible
         /\ \A k : Results(k)' = Results(k)
         /\ bundle' = bundle /\ asOf' = asOf /\ selected' = selected
BY DEF inputs, Turns, RecordTypes, Admissible, Results

(* No turn taken: nothing found, every rule of the selection pending. *)
LEMMA NoTurnYet ==
  ASSUME CallIInv, phase \in {"parse", "preflight"}
  PROVE  pending = Turns /\ Admissible
<1>1. PICK k \in 0 .. Len(Turns) : found = Results(k) /\ pending = SubSeq(Turns, k + 1, Len(Turns))
  BY DEF CallIInv, InTurn, Under
<1>2. Admissible /\ found = <<>>
  BY DEF CallIInv, InTurn, Under, WellFormed
<1>3. Turns \in Seq(Rules)
  BY <1>2, RegistryNumbers, TurnsInOrder DEF Turns, Admissible
<1>4. k = 0
  <2>1. DOMAIN Results(k) = 1 .. k
    BY DEF Results
  <2>2. DOMAIN found = {}
    BY <1>2
  <2> QED
    BY <1>1, <1>3, <2>1, <2>2
<1>5. SubSeq(Turns, 1, Len(Turns)) = Turns
  BY <1>3
<1> QED
  BY <1>1, <1>2, <1>4, <1>5

LEMMA InitSatisfies == CallInit => CallIInv
<1> SUFFICES ASSUME CallInit PROVE CallIInv
  OBVIOUS
<1>1. PICK c \in Calls : bundle \in c.bundles /\ asOf \in c.times /\ selected \in c.selections
  BY DEF CallInit
<1>2. phase = "select" /\ found = <<>> /\ refs = 0
  BY DEF CallInit
<1>3. WellFormed
  BY <1>1, <1>2, InputsAreWellFormed DEF WellFormed, Phases, CallEnded
<1> QED
  BY <1>2, <1>3 DEF CallIInv, InTurn, Under, Covered, ReferencesCounted

LEMMA SelectKeeps == CallIInv /\ Select => CallIInv'
<1> SUFFICES ASSUME CallIInv, Select PROVE CallIInv'
  OBVIOUS
<1> USE SameInputs
<1>1. phase = "select" /\ UNCHANGED inputs /\ found' = <<>> /\ refs' = 0 /\ WellFormed
  BY DEF CallIInv, WellFormed, Select
<1>2. CASE ~Admissible
  <2>1. phase' = "invalid"
    BY <1>2 DEF Select, Admissible
  <2> QED
    BY <1>1, <2>1 DEF CallIInv, WellFormed, InTurn, Under, Covered, ReferencesCounted, Phases, CallEnded
<1>3. CASE Admissible
  <2>1. phase' = "parse" /\ pending' = Turns
    BY <1>3 DEF Select, Admissible, Turns
  <2>2. WellFormed' /\ Covered' /\ ReferencesCounted'
    BY <1>1, <2>1 DEF WellFormed, Covered, ReferencesCounted, Phases, CallEnded
  <2>3. Turns \in Seq(Rules)
    BY <1>3, RegistryNumbers, TurnsInOrder DEF Turns, Admissible
  <2>4. Results(0) = <<>> /\ SubSeq(Turns, 1, Len(Turns)) = Turns /\ 0 \in 0 .. Len(Turns)
    BY <2>3 DEF Results
  <2>5. InTurn'
    BY <1>1, <1>3, <2>1, <2>4 DEF InTurn, Under
  <2> QED
    BY <2>2, <2>5 DEF CallIInv
<1> QED
  BY <1>2, <1>3

LEMMA ParseKeeps == CallIInv /\ ParseAnalysisTime => CallIInv'
<1> SUFFICES ASSUME CallIInv, ParseAnalysisTime PROVE CallIInv'
  OBVIOUS
<1> USE SameInputs
<1>1. /\ phase = "parse" /\ UNCHANGED <<inputs, pending, found, refs>> /\ WellFormed
      /\ phase' = IF asOf = NotATime THEN "invalid" ELSE "preflight"
      /\ found = <<>> /\ refs = 0
  BY DEF CallIInv, WellFormed, ParseAnalysisTime
<1>2. WellFormed' /\ Covered' /\ ReferencesCounted'
  BY <1>1 DEF WellFormed, Covered, ReferencesCounted, Phases, CallEnded
<1>3. InTurn'
  BY <1>1 DEF CallIInv, InTurn, Under
<1> QED
  BY <1>2, <1>3 DEF CallIInv

LEMMA PreflightKeeps == CallIInv /\ Preflight => CallIInv'
<1> SUFFICES ASSUME CallIInv, Preflight PROVE CallIInv'
  OBVIOUS
<1> USE SameInputs
<1>1. /\ phase = "preflight" /\ UNCHANGED <<inputs, pending, found, refs>> /\ WellFormed
      /\ phase' = IF CoverageIncomplete THEN "incomplete" ELSE "evaluate"
      /\ found = <<>> /\ refs = 0
  BY DEF CallIInv, WellFormed, Preflight
<1>2. WellFormed'
  BY <1>1 DEF WellFormed, Phases, CallEnded
<1>3. InTurn'
  BY <1>1 DEF CallIInv, InTurn, Under
<1>4. ToSet(pending) = ToSet(selected) /\ ToSet(selected) \subseteq Rules
  BY <1>1, NoTurnYet, RegistryNumbers, TurnsInOrder DEF Turns, Admissible
<1>5. Covered'
  <2> SUFFICES ASSUME ~CoverageIncomplete PROVE Covered'
    BY <1>1 DEF Covered
  <2>1. \A rule \in ToSet(selected) : RequiredTypes[rule] \subseteq RecordTypes
    BY <1>4 DEF CoverageIncomplete, TypesMissing, RecordTypes
  <2>2. ToSet(selected) \cap {"ERP002", "ERP005"} # {} => ~AmbiguousPrincipals(bundle.records)
    BY <1>4 DEF CoverageIncomplete, Chosen
  <2>3. /\ "ERP002" \in ToSet(selected) =>
             \A a \in PrivilegedAssignments(bundle.records) : a.principal \in Named(bundle.records)
        /\ "ERP005" \in ToSet(selected) =>
             \A e \in AuthSignIns(bundle.records, "success") : e.principal \in Named(bundle.records)
    BY <1>4 DEF CoverageIncomplete, PrincipalsMissing, Chosen
  <2>4. bundle.complete
    BY DEF CoverageIncomplete
  <2> QED
    BY <1>1, <2>1, <2>2, <2>3, <2>4 DEF Covered
<1>6. ReferencesCounted'
  <2>1. Findings' = {}
    BY <1>1 DEF Findings
  <2>2. refs' = 0 /\ MaxReferences \in Nat
    BY <1>1, InputsAreWellFormed
  <2>3. ReferencesOf(Findings)' = ReferencesOf(Findings')
    OBVIOUS
  <2>4. IsFiniteSet(EvidenceOf(Findings))' <=> IsFiniteSet(EvidenceOf(Findings'))
    OBVIOUS
  <2>5. IsFiniteSet(EvidenceOf({}))
    BY NoEvidence, FS_EmptySet
  <2> QED
    BY <2>1, <2>2, <2>3, <2>4, <2>5, NoEvidence DEF ReferencesCounted
<1> QED
  BY <1>2, <1>3, <1>5, <1>6 DEF CallIInv

(* The rule whose turn it is. *)
LEMMA NextTurn ==
  ASSUME CallIInv, Under, pending # <<>>, NEW k \in 0 .. Len(Turns),
         found = Results(k), pending = SubSeq(Turns, k + 1, Len(Turns))
  PROVE  /\ Turns \in Seq(Rules) /\ ToSet(Turns) = ToSet(selected) /\ k + 1 \in 1 .. Len(Turns)
         /\ Head(pending) = Turns[k + 1] /\ Tail(pending) = SubSeq(Turns, k + 2, Len(Turns))
         /\ Head(pending) \in Rules \cap ToSet(selected)
<1>1. Turns \in Seq(Rules) /\ ToSet(Turns) = ToSet(selected)
  BY RegistryNumbers, TurnsInOrder DEF Turns, Admissible, CallIInv, InTurn
<1>2. Len(Turns) \in Nat /\ k \in Nat /\ k <= Len(Turns)
  BY <1>1
<1>3. k + 1 \in 1 .. Len(Turns)
  BY <1>1, <1>2
<1>4. Head(pending) = Turns[k + 1] /\ Tail(pending) = SubSeq(Turns, k + 2, Len(Turns))
  BY <1>1, <1>3
<1>5. Turns[k + 1] \in Rules /\ Turns[k + 1] \in ToSet(Turns)
  BY <1>1, <1>3 DEF ToSet
<1> QED
  BY <1>1, <1>3, <1>4, <1>5

(* What the preflight has found out leaves an evaluator only the date arithmetic  *)
(* to fail on.                                                                    *)
LEMMA CoveredRaises ==
  ASSUME CallIInv, phase \in {"evaluate", "done"}, NEW rule \in ToSet(selected)
  PROVE  Raised(rule, bundle.records, asOf) \in {"nothing", "invalid"}
<1>1. rule = "ERP005" => ~AmbiguousPrincipals(bundle.records) /\ ~Erp005Misses(bundle.records)
  BY DEF CallIInv, Covered, Erp005Misses, Named
<1> QED
  BY <1>1 DEF Raised

(* The findings of the first turns: finite evidence, none of a later rule. *)
EarlierFindings(k) == UNION {Results(k)[i][2] : i \in DOMAIN Results(k)}

(* The findings of one more turn, and none of them was there before.              *)
LEMMA NextFindings ==
  ASSUME Admissible, Normalized(bundle.records), NEW k \in Nat, k + 1 \in 1 .. Len(Turns)
  PROVE  /\ EarlierFindings(k + 1) =
              EarlierFindings(k) \cup FindingsOf(Turns[k + 1], bundle.records, asOf)
         /\ EarlierFindings(k) \cap FindingsOf(Turns[k + 1], bundle.records, asOf) = {}
<1> DEFINE of(i) == FindingsOf(Turns[i], bundle.records, asOf)
<1>1. Turns \in Seq(Rules)
  BY RegistryNumbers, TurnsInOrder DEF Turns, Admissible
<1>2. \A n \in Nat : DOMAIN Results(n) = 1 .. n /\ \A i \in 1 .. n : Results(n)[i][2] = of(i)
  BY DEF Results
<1>3. ASSUME NEW n \in Nat
      PROVE  \A f : f \in EarlierFindings(n) <=> \E i \in 1 .. n : f \in of(i)
  <2>1. \A f : f \in EarlierFindings(n) <=>
                \E i \in DOMAIN Results(n) : f \in Results(n)[i][2]
    BY DEF EarlierFindings
  <2>2. DOMAIN Results(n) = 1 .. n /\ \A i \in 1 .. n : Results(n)[i][2] = of(i)
    BY <1>2
  <2> HIDE DEF of
  <2> QED
    BY <2>1, <2>2, Zenon
<1>4. \A f : /\ f \in EarlierFindings(k) <=> \E i \in 1 .. k : f \in of(i)
             /\ f \in EarlierFindings(k + 1) <=> \E i \in 1 .. k + 1 : f \in of(i)
  BY <1>3
<1>5. \A i \in 1 .. k + 1 : Turns[i] \in Rules /\ i \in DOMAIN Turns
  BY <1>1
<1>6. \A i \in 1 .. k + 1 : \A f \in of(i) : f.rule = Turns[i]
  BY <1>5, FindingsReported DEF Reported
<1>7. \A i \in 1 .. k : Turns[i] # Turns[k + 1]
  <2> SUFFICES ASSUME NEW i \in 1 .. k, Turns[i] = Turns[k + 1] PROVE FALSE
    OBVIOUS
  <2>1. i \in DOMAIN Turns /\ k + 1 \in DOMAIN Turns /\ i # k + 1
    BY <1>1
  <2> QED
    BY <2>1, RegistryNumbers, TurnsAreDifferent DEF Turns, Admissible
<1>8. 1 .. k + 1 = (1 .. k) \cup {k + 1}
  OBVIOUS
<1> HIDE DEF of
<1>9. EarlierFindings(k + 1) = EarlierFindings(k) \cup of(k + 1)
  BY <1>4, <1>8
<1>10. EarlierFindings(k) \cap of(k + 1) = {}
  BY <1>4, <1>6, <1>7, <1>8
<1> QED
  BY <1>9, <1>10 DEF of

LEMMA EvaluateKeeps == CallIInv /\ EvaluateNext => CallIInv'
<1> SUFFICES ASSUME CallIInv, EvaluateNext PROVE CallIInv'
  OBVIOUS
<1> DEFINE rule == Head(pending)
           findings == FindingsOf(rule, bundle.records, asOf)
           raised == Raised(rule, bundle.records, asOf)
<1> USE SameInputs
<1>1. phase = "evaluate" /\ pending # <<>> /\ UNCHANGED inputs /\ Under /\ Admissible /\ WellFormed
  BY DEF EvaluateNext, Under, CallIInv, InTurn
<1>2. PICK k \in 0 .. Len(Turns) :
        /\ found = Results(k) /\ pending = SubSeq(Turns, k + 1, Len(Turns))
        /\ \A i \in 1 .. k : Raised(Turns[i], bundle.records, asOf) = "nothing"
  BY <1>1 DEF CallIInv, InTurn
<1>3. /\ Turns \in Seq(Rules) /\ k + 1 \in 1 .. Len(Turns) /\ rule = Turns[k + 1]
      /\ Tail(pending) = SubSeq(Turns, k + 2, Len(Turns)) /\ rule \in Rules \cap ToSet(selected)
  BY <1>1, <1>2, NextTurn
<1>4. raised \in {"nothing", "invalid"}
  BY <1>1, <1>3, CoveredRaises
<1>5. CASE phase' = "invalid"
  BY <1>1, <1>5 DEF CallIInv, WellFormed, InTurn, Under, Covered, ReferencesCounted, Phases, CallEnded
<1>6. CASE phase' # "invalid"
  <2>1. /\ raised = "nothing" /\ refs' = refs + ReferencesOf(findings) /\ ~(refs' > MaxReferences)
        /\ found' = Append(found, <<rule, findings>>) /\ pending' = Tail(pending) /\ phase' = phase
    BY <1>4, <1>6 DEF EvaluateNext
  <2> HIDE DEF rule, findings, raised
  <2>2. k \in Nat /\ k + 1 \in 0 .. Len(Turns) /\ Len(Turns) \in Nat
    BY <1>3
  <2>3. found' = Results(k + 1)
    <3>1. Results(k + 1)[k + 1] = <<rule, findings>>
      BY <1>3, <2>2 DEF Results, findings
    <3>2. Append(Results(k), <<rule, findings>>) = Results(k + 1)
      BY <2>2, <3>1 DEF Results
    <3> QED
      BY <1>2, <2>1, <3>2
  <2>4. \A i \in 1 .. k + 1 : Raised(Turns[i], bundle.records, asOf) = "nothing"
    BY <1>2, <1>3, <2>1, <2>2 DEF raised
  <2>5. pending' = SubSeq(Turns, (k + 1) + 1, Len(Turns))
    BY <1>3, <2>1, <2>2
  <2>6. InTurn'
    BY <1>1, <2>1, <2>2, <2>3, <2>4, <2>5 DEF InTurn, Under
  <2>7. WellFormed' /\ Covered'
    BY <1>1, <2>1 DEF CallIInv, WellFormed, Covered
  <2>8. ReferencesCounted'
    <3>1. Findings = EarlierFindings(k) /\ Findings' = EarlierFindings(k + 1)
      BY <1>1, <1>2, <2>3 DEF Findings, EarlierFindings
    <3>2. EarlierFindings(k + 1) = EarlierFindings(k) \cup findings /\ EarlierFindings(k) \cap findings = {}
      BY <1>1, <1>3, <2>2, NextFindings DEF WellFormed, findings
    <3>3. IsFiniteSet(EvidenceOf(findings))
      BY <1>1, <1>3, FindingsReported, EvidenceIsFinite DEF WellFormed, findings
    <3>4. IsFiniteSet(EvidenceOf(Findings)) /\ refs = ReferencesOf(Findings)
      BY <1>1 DEF CallIInv, ReferencesCounted
    <3>5. /\ IsFiniteSet(EvidenceOf(EarlierFindings(k + 1)))
          /\ ReferencesOf(EarlierFindings(k + 1)) = refs + ReferencesOf(findings)
      BY <3>1, <3>2, <3>3, <3>4, EvidenceAdds
    <3>6. refs' <= MaxReferences
      <4>1. refs \in Nat /\ ReferencesOf(findings) \in Nat /\ MaxReferences \in Nat
        BY <3>3, <3>4, FS_CardinalityType, InputsAreWellFormed DEF ReferencesOf
      <4> QED
        BY <2>1, <4>1
    <3>7. /\ ReferencesOf(Findings)' = ReferencesOf(Findings')
          /\ IsFiniteSet(EvidenceOf(Findings))' <=> IsFiniteSet(EvidenceOf(Findings'))
      OBVIOUS
    <3> QED
      BY <2>1, <3>1, <3>5, <3>6, <3>7 DEF ReferencesCounted
  <2> QED
    BY <2>6, <2>7, <2>8 DEF CallIInv
<1> QED
  BY <1>5, <1>6

LEMMA ConcludeKeeps == CallIInv /\ Conclude => CallIInv'
<1> SUFFICES ASSUME CallIInv, Conclude PROVE CallIInv'
  OBVIOUS
<1> USE SameInputs
<1>1. /\ phase = "evaluate" /\ phase' = "done" /\ pending = <<>>
      /\ UNCHANGED <<inputs, pending, found, refs>>
  BY DEF Conclude
<1>2. Findings' = Findings
  BY <1>1 DEF Findings
<1>3. WellFormed' /\ InTurn'
  BY <1>1 DEF CallIInv, WellFormed, InTurn, Under, Phases, CallEnded
<1>4. Covered'
  BY <1>1 DEF CallIInv, Covered
<1>5. ReferencesCounted'
  BY <1>1, <1>2 DEF CallIInv, ReferencesCounted
<1> QED
  BY <1>3, <1>4, <1>5 DEF CallIInv

LEMMA StutterKeeps == CallIInv /\ UNCHANGED callVars => CallIInv'
BY DEF CallIInv, WellFormed, InTurn, Under, Covered, ReferencesCounted, Admissible, Turns, Results, RecordTypes,
       Findings, callVars

LEMMA CallInvariance == CallSpec => []CallIInv
<1>1. CallIInv /\ [CallNext]_callVars => CallIInv'
  BY SelectKeeps, ParseKeeps, PreflightKeeps, EvaluateKeeps, ConcludeKeeps, StutterKeeps
     DEF CallNext, Returned
<1> QED
  BY InitSatisfies, <1>1, PTL DEF CallSpec

(***************************************************************************)
(* A finished call.                                                        *)
(***************************************************************************)
LEMMA Finished ==
  ASSUME CallIInv, phase = "done"
  PROVE  /\ Turns \in Seq(Rules) /\ ToSet(Turns) = ToSet(selected) /\ found = Results(Len(Turns))
         /\ Admissible /\ Normalized(bundle.records) /\ asOf \in Timestamps
<1>1. Admissible /\ pending = <<>> /\ Normalized(bundle.records) /\ asOf \in Timestamps
  BY DEF CallIInv, InTurn, Under, WellFormed
<1>2. PICK k \in 0 .. Len(Turns) : found = Results(k) /\ pending = SubSeq(Turns, k + 1, Len(Turns))
  BY DEF CallIInv, InTurn, Under
<1>3. Turns \in Seq(Rules) /\ ToSet(Turns) = ToSet(selected)
  BY <1>1, RegistryNumbers, TurnsInOrder DEF Turns, Admissible
<1>4. k = Len(Turns)
  <2>1. k \in Nat /\ Len(Turns) \in Nat /\ k <= Len(Turns)
    BY <1>3
  <2>2. k + 1 <= Len(Turns) => Len(pending) = Len(Turns) - k
    BY <1>2, <1>3, <2>1, SubSeqProperties
  <2>3. Len(pending) = 0
    BY <1>1
  <2> QED
    BY <2>1, <2>2, <2>3
<1> QED
  BY <1>1, <1>2, <1>3, <1>4

(* What a finished call has found is what each rule finds alone.                  *)
LEMMA FinishedTurns ==
  ASSUME CallIInv, phase = "done"
  PROVE  /\ DOMAIN found = 1 .. Len(Turns) /\ Len(found) = Len(Turns) /\ Len(Turns) \in Nat
         /\ \A i \in 1 .. Len(Turns) :
              /\ found[i][1] = Turns[i] /\ Turns[i] \in Rules \cap ToSet(selected)
              /\ found[i][2] = FindingsOf(Turns[i], bundle.records, asOf)
<1>1. Turns \in Seq(Rules) /\ ToSet(Turns) = ToSet(selected) /\ found = Results(Len(Turns))
  BY Finished
<1>2. Len(Turns) \in Nat /\ DOMAIN Turns = 1 .. Len(Turns)
  BY <1>1
<1>3. \A i \in 1 .. Len(Turns) : Turns[i] \in Rules /\ Turns[i] \in ToSet(Turns)
  BY <1>1, <1>2 DEF ToSet
<1> QED
  BY <1>1, <1>2, <1>3 DEF Results

(* What is found by a rule is what its evaluator returned. *)
LEMMA FoundByIs ==
  ASSUME CallIInv, NEW rule, Evaluated(rule)
  PROVE  /\ rule \in Rules \cap ToSet(selected)
         /\ FoundBy(rule) = FindingsOf(rule, bundle.records, asOf)
<1> DEFINE of(r) == FindingsOf(r, bundle.records, asOf)
<1>1. PICK i \in DOMAIN found : found[i][1] = rule
  BY DEF Evaluated
<1>2. /\ i \in 1 .. Len(Turns) /\ rule = Turns[i] /\ rule \in Rules \cap ToSet(selected)
      /\ found[i][2] = of(rule)
  BY <1>1, FinishedTurns DEF Evaluated
<1>3. \A j \in DOMAIN found : found[j][2] = of(Turns[j]) /\ Turns[j] \in Rules
  BY FinishedTurns DEF Evaluated
<1>4. ASSUME NEW r \in Rules PROVE \A f \in of(r) : f.rule = r
  <2>1. Normalized(bundle.records)
    BY DEF CallIInv, WellFormed
  <2> QED
    BY <2>1, FindingsReported DEF Reported
<1> HIDE DEF of
<1>5. FoundBy(rule) \subseteq of(rule)
  <2> SUFFICES ASSUME NEW f \in FoundBy(rule) PROVE f \in of(rule)
    OBVIOUS
  <2>1. PICK j \in DOMAIN found : f \in found[j][2]
    BY DEF FoundBy, Findings
  <2> QED
    BY <1>3, <1>4, <2>1 DEF FoundBy
<1>6. of(rule) \subseteq FoundBy(rule)
  BY <1>1, <1>2, <1>4 DEF FoundBy, Findings
<1> QED
  BY <1>2, <1>5, <1>6 DEF of

(* After the preflight no evaluator reads a principal that is missing or          *)
(* ambiguous: the call ends with no exception of its own (_preflight_coverage     *)
(* covers the look-ups of _evaluate_erp005).                                      *)
THEOREM PreflightAlwaysSuffices == CallSpec => []PreflightSuffices
<1>1. CallIInv => PreflightSuffices
  <2> SUFFICES ASSUME CallIInv PROVE PreflightSuffices
    OBVIOUS
  <2>1. phase # "broken"
    BY DEF CallIInv, WellFormed
  <2>2. ASSUME phase = "evaluate", NEW i \in DOMAIN pending
        PROVE  Raised(pending[i], bundle.records, asOf) \in {"nothing", "invalid"}
    <3>1. PICK k \in 0 .. Len(Turns) : pending = SubSeq(Turns, k + 1, Len(Turns))
      BY <2>2 DEF CallIInv, InTurn, Under
    <3>2. Turns \in Seq(Rules) /\ ToSet(Turns) = ToSet(selected)
      BY <2>2, RegistryNumbers, TurnsInOrder DEF Turns, Admissible, CallIInv, InTurn, Under
    <3>3. \E j \in DOMAIN Turns : pending[i] = Turns[j]
      <4>1. Len(Turns) \in Nat /\ DOMAIN Turns = 1 .. Len(Turns) /\ k + 1 \in Int /\ Len(Turns) \in Int
        BY <3>2, LenProperties
      <4>2. \A j \in k + 1 .. Len(Turns) : j \in 1 .. Len(Turns) /\ Turns[j] \in Rules
        BY <3>2, <4>1, ElementOfSeq
      <4>3. /\ pending \in Seq(Rules) /\ Len(pending) = IF k + 1 <= Len(Turns) THEN Len(Turns) - (k + 1) + 1 ELSE 0
            /\ \A j \in 1 .. Len(Turns) - (k + 1) + 1 : pending[j] = Turns[k + 1 + j - 1]
        BY <3>1, <4>1, <4>2, SubSeqProperties
      <4>4. i \in 1 .. Len(pending)
        BY <2>2, <4>3, LenProperties
      <4>5. i \in 1 .. Len(Turns) - (k + 1) + 1 /\ k + 1 + i - 1 \in 1 .. Len(Turns)
        BY <3>1, <4>1, <4>3, <4>4
      <4> QED
        BY <4>1, <4>3, <4>5
    <3>4. pending[i] \in ToSet(selected)
      BY <3>2, <3>3 DEF ToSet
    <3> QED
      BY <2>2, <3>4, CoveredRaises
  <2> QED
    BY <2>1, <2>2 DEF PreflightSuffices
<1> QED
  BY <1>1, CallInvariance, PTL

(* evaluate_rules returns every selected rule, once, on a complete bundle with    *)
(* the evidence types it needs, and references within the limit, or nothing.      *)
THEOREM NeverAPartialResult == CallSpec => []NoPartialResult
<1>1. CallIInv => NoPartialResult
  <2> SUFFICES ASSUME CallIInv, phase = "done" PROVE NoPartialResult
    BY DEF NoPartialResult
  <2>1. /\ Turns \in Seq(Rules) /\ ToSet(Turns) = ToSet(selected) /\ IsInjective(selected)
        /\ ToSet(selected) \subseteq Rules /\ selected \in Seq(STRING)
    BY Finished, RegistryNumbers DEF Admissible, CallIInv, WellFormed
  <2>2. {found[i][1] : i \in DOMAIN found} = ToSet(Turns)
    <3>1. \A i \in DOMAIN found : found[i][1] = Turns[i]
      BY FinishedTurns
    <3>2. DOMAIN found = DOMAIN Turns
      BY <2>1, FinishedTurns
    <3> QED
      BY <3>1, <3>2 DEF ToSet
  <2>3. Len(found) = Len(selected)
    <3>1. \A i, j \in DOMAIN Turns : Turns[i] = Turns[j] => i = j
      BY <2>1, TurnsAreDifferent DEF Turns
    <3>2. \A i, j \in DOMAIN selected : selected[i] = selected[j] => i = j
      BY <2>1 DEF IsInjective
    <3>3. Len(Turns) = Cardinality(ToSet(Turns))
      BY <2>1, <3>1, InjectiveLength
    <3>4. Len(selected) = Cardinality(ToSet(selected))
      BY <2>1, <3>2, InjectiveLength
    <3> QED
      BY <2>1, <3>3, <3>4, FinishedTurns
  <2>4. \A i \in DOMAIN found : RequiredTypes[found[i][1]] \subseteq {r.type : r \in RecordSet}
    BY FinishedTurns DEF CallIInv, Covered, RecordTypes, RecordSet
  <2>5. bundle.complete /\ ReferencesOf(Findings) <= MaxReferences
    BY DEF CallIInv, Covered, ReferencesCounted
  <2> QED
    BY <2>1, <2>2, <2>3, <2>4, <2>5 DEF NoPartialResult
<1> QED
  BY <1>1, CallInvariance, PTL

(* Every evaluator finds the same in every rotation of the records, forward or    *)
(* reversed, and the rules are evaluated in the order of the registry.            *)
THEOREM OrderIsIrrelevant == CallSpec => []OrderIrrelevant
<1>1. CallIInv => OrderIrrelevant
  <2> SUFFICES ASSUME CallIInv, phase = "done" PROVE OrderIrrelevant
    BY DEF OrderIrrelevant
  <2>1. Normalized(bundle.records)
    BY Finished
  <2>2. ASSUME NEW i \in DOMAIN found, NEW n \in 0 .. Len(bundle.records) - 1,
               NEW records \in {Rotated(bundle.records, n), Rotated(Reverse(bundle.records), n)}
        PROVE  FindingsOf(found[i][1], records, asOf) = found[i][2]
    <3>1. Normalized(records) /\ ToSet(records) = ToSet(bundle.records)
      BY <2>1, RotationIsNormalized, ReverseIsNormalized
    <3>2. found[i][1] \in ToSet(Registry) /\ found[i][2] = FindingsOf(found[i][1], bundle.records, asOf)
      BY FinishedTurns, RegistryNumbers
    <3> QED
      BY <2>1, <3>1, <3>2, OrderDoesNotMatter
  <2>3. ASSUME NEW i \in DOMAIN found, NEW j \in DOMAIN found, i < j
        PROVE  NumberOf(found[i][1]) < NumberOf(found[j][1])
    <3>1. Turns \in Seq(Rules) /\ ToSet(selected) \subseteq Rules
      BY Finished, RegistryNumbers DEF Admissible
    <3>2. i \in DOMAIN Turns /\ j \in DOMAIN Turns /\ found[i][1] = Turns[i] /\ found[j][1] = Turns[j]
      BY <3>1, FinishedTurns
    <3> QED
      BY <2>3, <3>1, <3>2, TurnsInOrder DEF Turns
  <2> QED
    BY <2>2, <2>3 DEF OrderIrrelevant
<1> QED
  BY <1>1, CallInvariance, PTL

(* ERP002 reports a principal with a privileged assignment exactly when it is     *)
(* enabled and was last active before the cutoff.                                 *)
THEOREM InactivityIsConclusive == CallSpec => []InactivityConclusive
<1>1. CallIInv => InactivityConclusive
  <2> SUFFICES ASSUME CallIInv, Evaluated("ERP002"), NEW a \in PrivilegedAssignments(bundle.records)
               PROVE  \E p \in Principals(bundle.records) :
                        /\ p.principal = a.principal
                        /\ (p.enabled /\ asOf - p.active > InactiveDays) <=>
                             \E f \in FoundBy("ERP002") : {p.id, a.id} \subseteq f.records
    BY DEF InactivityConclusive
  <2> DEFINE R == bundle.records
             support(p) == {b \in PrivilegedAssignments(R) : b.principal = p.principal}
             inactive(p) == p.enabled /\ support(p) # {} /\ p.active + InactiveDays < asOf
  <2>1. Normalized(R) /\ asOf \in Nat /\ InactiveDays \in Nat
    BY Finished, HorizonIsNat, ParametersArePositive DEF Evaluated, Timestamps
  <2>2. FoundBy("ERP002") = Erp002(R, asOf) /\ "ERP002" \in ToSet(selected)
    BY FoundByIs DEF FindingsOf
  <2>3. PICK p \in Principals(R) : p.principal = a.principal
    BY <2>2 DEF CallIInv, Covered, Evaluated, Named
  <2>4. /\ p \in ToSet(R) /\ p.type = "principal" /\ a \in ToSet(R) /\ p.active \in Nat
        /\ a \in support(p)
    BY <2>1, <2>3, HorizonIsNat
       DEF Principals, PrivilegedAssignments, Assignments, OfKind, Normalized, Timestamps
  <2>5. ASSUME p.enabled, asOf - p.active > InactiveDays
        PROVE  \E f \in Erp002(R, asOf) : {p.id, a.id} \subseteq f.records
    <3>1. p.active + InactiveDays < asOf
      BY <2>1, <2>4, <2>5
    <3>2. inactive(p)
      BY <2>4, <2>5, <3>1
    <3>3. Finding("ERP002", {p} \cup support(p), {}) \in Erp002(R, asOf)
      BY <2>3, <3>2 DEF Erp002
    <3>4. {p.id, a.id} \subseteq Finding("ERP002", {p} \cup support(p), {}).records
      BY <2>4 DEF Finding
    <3> QED
      BY <3>3, <3>4
  <2>6. ASSUME NEW f \in Erp002(R, asOf), {p.id, a.id} \subseteq f.records
        PROVE  p.enabled /\ asOf - p.active > InactiveDays
    <3>1. PICK q \in Principals(R) : inactive(q) /\ f = Finding("ERP002", {q} \cup support(q), {})
      BY DEF Erp002
    <3>2. PICK r \in {q} \cup support(q) : r.id = p.id
      BY <2>6, <3>1 DEF Finding
    <3>3. r \in ToSet(R) /\ (r = q \/ r.type = "permission_assignment")
      BY <3>1, <3>2 DEF Principals, PrivilegedAssignments, Assignments, OfKind
    <3>4. r = p
      BY <2>1, <2>4, <3>2, <3>3, NormalizedRecords
    <3>5. p = q
      BY <2>4, <3>3, <3>4
    <3>6. p.enabled /\ p.active + InactiveDays < asOf
      BY <3>1, <3>5
    <3> QED
      BY <2>1, <2>4, <3>6
  <2> QED
    BY <2>2, <2>3, <2>5, <2>6
<1> QED
  BY <1>1, CallInvariance, PTL


(***************************************************************************)
(* The same evidence at a later analysis time.                             *)
(***************************************************************************)

(* T has the events of S, and all its others are later than every one of S. *)
Extends(S, T) ==
  /\ S \subseteq T /\ \A e \in T : e.at \in Nat
  /\ \A s \in S : \A t \in T : t.at <= s.at => t \in S

(* Events that a later analysis time adds are later than those there were.        *)
LEMMA LaterEvents ==
  ASSUME NEW records, Normalized(records), NEW at \in Nat, NEW later \in Nat, at <= later
  PROVE  /\ Extends(SignInsAmong(ToSet(records), at), SignInsAmong(ToSet(records), later))
         /\ Extends(ChangesAmong(ToSet(records), at), ChangesAmong(ToSet(records), later))
<1> DEFINE R == ToSet(records)
<1>1. \A r \in R : r.type \in EventTypes => r.at \in Nat
  BY NormalizedRecords
<1> HIDE DEF R
<1>2. Extends(SignInsAmong(R, at), SignInsAmong(R, later))
  BY <1>1 DEF Extends, SignInsAmong, IsSignIn, EventTypes
<1>3. Extends(ChangesAmong(R, at), ChangesAmong(R, later))
  BY <1>1 DEF Extends, ChangesAmong, EventTypes
<1> QED
  BY <1>2, <1>3 DEF R

(* What is earliest of its key stays earliest when later events are added. *)
LEMMA EarliestStay ==
  ASSUME NEW S, NEW T, Extends(S, T), NEW B \in SUBSET S, NEW C \in SUBSET T, C \cap S = B
  PROVE  /\ EarliestSignIns(B) \subseteq EarliestSignIns(C)
         /\ EarliestChanges(B) \subseteq EarliestChanges(C)
<1>1. ASSUME NEW e \in B, NEW other \in C, Before(other, e)
      PROVE  other \in B
  <2>1. other.at \in Nat /\ e.at \in Nat /\ other.at <= e.at
    BY <1>1 DEF Extends, Before
  <2> QED
    BY <1>1, <2>1 DEF Extends
<1> QED
  BY <1>1 DEF EarliestSignIns, EarliestChanges, Earliest

(* A success that breaches still does at a later analysis time.                   *)
LEMMA BreachesStay ==
  ASSUME NEW S, NEW T, Extends(S, T)
  PROVE  /\ \A s \in S : PriorFailures(S, s) = PriorFailures(T, s)
         /\ \A s \in S : MostRecentAmong(S, s) = MostRecentAmong(T, s)
         /\ BreachesAmong(T) \cap S = BreachesAmong(S)
<1>1. ASSUME NEW s \in S PROVE PriorFailures(S, s) = PriorFailures(T, s)
  <2>1. \A f \in T : Precedes(f, s) => f \in S
    <3> SUFFICES ASSUME NEW f \in T, Precedes(f, s) PROVE f \in S
      OBVIOUS
    <3>1. f.at \in Nat /\ s.at \in Nat /\ f.at <= s.at
      BY DEF Extends, Precedes
    <3> QED
      BY <3>1 DEF Extends
  <2> QED
    BY <2>1 DEF PriorFailures, Extends
<1>2. \A s \in S : MostRecentAmong(S, s) = MostRecentAmong(T, s)
  BY <1>1 DEF MostRecentAmong
<1>3. BreachesAmong(T) \cap S = BreachesAmong(S)
  BY <1>1 DEF BreachesAmong, Extends
<1> QED
  BY <1>1, <1>2, <1>3

LEMMA Erp007Stays ==
  ASSUME NEW records, Normalized(records), NEW at \in Nat, NEW later \in Nat, at <= later
  PROVE  Erp007(records, at) \subseteq Erp007(records, later)
<1> DEFINE S == SignInsAmong(ToSet(records), at)
           T == SignInsAmong(ToSet(records), later)
           p == SignIns(records, at)
           q == SignIns(records, later)
<1>1. Timed(S) /\ Ordered(p, S) /\ Timed(T) /\ Ordered(q, T)
  BY SignInsInOrder
<1>2. Extends(S, T)
  BY LaterEvents
<1>3. /\ Erp007(records, at) =
           {Episode("ERP007", Append(Retained(p, s), s)) : s \in EarliestSignIns(BreachesAmong(S))}
      /\ Erp007(records, later) =
           {Episode("ERP007", Append(Retained(q, s), s)) : s \in EarliestSignIns(BreachesAmong(T))}
  BY Erp007Is
<1> HIDE DEF S, T, p, q
<1>4. BreachesAmong(S) \in SUBSET S /\ BreachesAmong(T) \in SUBSET T
  BY DEF BreachesAmong
<1>5. EarliestSignIns(BreachesAmong(S)) \subseteq EarliestSignIns(BreachesAmong(T))
  BY <1>2, <1>4, BreachesStay, EarliestStay
<1>6. ASSUME NEW s \in EarliestSignIns(BreachesAmong(S))
      PROVE  Retained(p, s) = Retained(q, s)
  <2>1. s \in BreachesAmong(S) /\ s \in BreachesAmong(T) /\ s \in S
    BY <1>4, <1>5 DEF EarliestSignIns
  <2>2. Ordered(Retained(p, s), MostRecentAmong(S, s)) /\ Timed(MostRecentAmong(S, s))
    BY <1>1, <2>1, RetainedInOrder
  <2>3. Ordered(Retained(q, s), MostRecentAmong(T, s))
    BY <1>1, <2>1, RetainedInOrder
  <2>4. MostRecentAmong(S, s) = MostRecentAmong(T, s)
    BY <1>2, <2>1, BreachesStay
  <2> QED
    BY <2>2, <2>3, <2>4, OneOrder
<1> QED
  BY <1>3, <1>5, <1>6

LEMMA Erp008Stays ==
  ASSUME NEW records, Normalized(records), NEW at \in Nat, NEW later \in Nat, at <= later
  PROVE  Erp008(records, at) \subseteq Erp008(records, later)
<1> DEFINE S == SignInsAmong(ToSet(records), at)
           T == SignInsAmong(ToSet(records), later)
<1>1. Extends(S, T)
  BY LaterEvents
<1>2. /\ Erp008(records, at) =
           {Episode("ERP008", <<FirstIndicator(records, e), e>>) :
              e \in EarliestSignIns(IndicatedAmong(records, S))}
      /\ Erp008(records, later) =
           {Episode("ERP008", <<FirstIndicator(records, e), e>>) :
              e \in EarliestSignIns(IndicatedAmong(records, T))}
  BY Erp008Is
<1> HIDE DEF S, T
<1>3. /\ IndicatedAmong(records, S) \in SUBSET S /\ IndicatedAmong(records, T) \in SUBSET T
      /\ IndicatedAmong(records, T) \cap S = IndicatedAmong(records, S)
  BY <1>1 DEF IndicatedAmong, Extends
<1>4. EarliestSignIns(IndicatedAmong(records, S)) \subseteq EarliestSignIns(IndicatedAmong(records, T))
  BY <1>1, <1>3, EarliestStay
<1> QED
  BY <1>2, <1>4

LEMMA Erp009Stays ==
  ASSUME NEW records, Normalized(records), NEW at \in Nat, NEW later \in Nat, at <= later
  PROVE  Erp009(records, at) \subseteq Erp009(records, later)
<1> DEFINE R == ToSet(records)
           B == ChangesAmong(R, at)
           C == ChangesAmong(R, later)
           nearest(t, c) == Latest(CandidatesAmong(R, t, c))
<1>1. Extends(B, C) /\ Extends(SignInsAmong(R, at), SignInsAmong(R, later))
  BY LaterEvents
<1>2. /\ Erp009(records, at) =
           {Episode("ERP009", <<nearest(at, c), c>>) : c \in EarliestChanges(PrecededAmong(R, at))}
      /\ Erp009(records, later) =
           {Episode("ERP009", <<nearest(later, c), c>>) : c \in EarliestChanges(PrecededAmong(R, later))}
  BY Erp009Is
<1>3. \A r \in R : r.type \in EventTypes => r.at \in Nat
  BY NormalizedRecords
<1> HIDE DEF R
<1>4. ASSUME NEW c \in B PROVE CandidatesAmong(R, at, c) = CandidatesAmong(R, later, c)
  <2>1. c.at \in Nat /\ c.at <= at
    BY <1>3 DEF ChangesAmong, EventTypes
  <2>2. \A e \in R : IsSignIn(e, later) /\ e.at < c.at => IsSignIn(e, at)
    BY <1>3, <2>1 DEF IsSignIn, EventTypes
  <2>3. \A e \in R : IsSignIn(e, at) => IsSignIn(e, later)
    BY <1>3 DEF IsSignIn, EventTypes
  <2> QED
    BY <2>2, <2>3 DEF CandidatesAmong, SignInsAmong
<1>5. /\ PrecededAmong(R, at) \in SUBSET B /\ PrecededAmong(R, later) \in SUBSET C
      /\ PrecededAmong(R, later) \cap B = PrecededAmong(R, at)
  BY <1>1, <1>4 DEF PrecededAmong, Extends
<1> HIDE DEF B, C
<1>6. EarliestChanges(PrecededAmong(R, at)) \subseteq EarliestChanges(PrecededAmong(R, later))
  BY <1>1, <1>5, EarliestStay
<1>7. ASSUME NEW c \in EarliestChanges(PrecededAmong(R, at))
      PROVE  nearest(at, c) = nearest(later, c)
  <2>1. c \in B
    BY <1>5 DEF EarliestChanges
  <2> QED
    BY <1>4, <2>1
<1> HIDE DEF nearest
<1> QED
  BY <1>2, <1>6, <1>7

(* Leaving out records that no replay rule reads. *)
LEMMA RestIsNormalized ==
  ASSUME NEW records, Normalized(records), NEW I \in SUBSET DOMAIN records
  PROVE  Normalized(AtPositions(records, I)) /\ ToSet(AtPositions(records, I)) = At(records, I)
<1> DEFINE p == AtPositions(records, I)
<1>1. records \in Seq(ToSet(records))
  BY DEF Normalized
<1>2. p \in Seq(ToSet(records))
  BY <1>1, AtPositionsInOrder
<1>3. PICK to : InStep(to, records, I, p)
  <2>1. \E to : InStep(to, records, I, AtPositions(records, I))
    BY <1>1, AtPositionsInOrder
  <2> QED
    BY <2>1
<1> HIDE DEF p
<1>4. \A i \in I : to[i] \in DOMAIN p /\ p[to[i]] = records[i]
  BY <1>3 DEF InStep
<1>5. \A n \in DOMAIN p : \E i \in I : to[i] = n /\ p[n] = records[i]
  BY <1>3 DEF InStep
<1>6. ToSet(p) = At(records, I)
  <2>1. \A x \in ToSet(p) : x \in At(records, I)
    BY <1>5 DEF ToSet, At
  <2>2. \A x \in At(records, I) : x \in ToSet(p)
    BY <1>4 DEF ToSet, At
  <2> QED
    BY <2>1, <2>2
<1>7. \A i, j \in DOMAIN p : p[i].id = p[j].id => i = j
  <2> SUFFICES ASSUME NEW m \in DOMAIN p, NEW n \in DOMAIN p, p[m].id = p[n].id PROVE m = n
    OBVIOUS
  <2>1. PICK i \in I : to[i] = m /\ p[m] = records[i]
    BY <1>5
  <2>2. PICK j \in I : to[j] = n /\ p[n] = records[j]
    BY <1>5
  <2>3. i = j
    BY <2>1, <2>2 DEF Normalized
  <2> QED
    BY <2>1, <2>2, <2>3
<1>8. ToSet(p) \subseteq ToSet(records)
  BY <1>6 DEF At, ToSet
<1>9. p \in Seq(ToSet(p))
  <2>1. DOMAIN p = 1 .. Len(p) /\ Len(p) \in Nat
    BY <1>2
  <2>2. \A n \in 1 .. Len(p) : p[n] \in ToSet(p)
    BY <2>1 DEF ToSet
  <2>3. p = [n \in 1 .. Len(p) |-> p[n]]
    BY <1>2
  <2> QED
    BY <2>1, <2>2, <2>3
<1>10. Normalized(p)
  BY <1>7, <1>8, <1>9 DEF Normalized
<1> QED
  BY <1>6, <1>10 DEF p

(* The replay rules see nothing later than the analysis time.                     *)
LEMMA PastSuffices ==
  ASSUME NEW records, Normalized(records), NEW at \in Nat, NEW past,
         past = AtPositions(records, {i \in DOMAIN records :
                  records[i].type \in {"observed_event", "change_event"} => records[i].at <= at})
  PROVE  /\ \A rule \in DetectionRuleIds : FindingsOf(rule, past, at) = FindingsOf(rule, records, at)
         /\ Erp009Overflows(past, at) <=> Erp009Overflows(records, at)
<1> DEFINE I == {i \in DOMAIN records :
                  records[i].type \in {"observed_event", "change_event"} => records[i].at <= at}
           R == ToSet(records)
           P == ToSet(past)
<1>1. Normalized(past) /\ P = At(records, I)
  BY RestIsNormalized
<1>2. \A r \in R : r \in P <=> (r.type \in {"observed_event", "change_event"} => r.at <= at)
  <2>1. \A r : r \in R <=> \E i \in DOMAIN records : r = records[i]
    BY DEF ToSet
  <2>2. \A r : r \in P <=> \E i \in I : r = records[i]
    BY <1>1 DEF At
  <2> QED
    BY <2>1, <2>2
<1>3. P \subseteq R
  BY <1>1 DEF At, ToSet
<1> HIDE DEF I, R, P
<1>4. SignInsAmong(P, at) = SignInsAmong(R, at)
  BY <1>2, <1>3 DEF SignInsAmong, IsSignIn
<1>5. ChangesAmong(P, at) = ChangesAmong(R, at)
  BY <1>2, <1>3 DEF ChangesAmong
<1>6. \A e : MatchingIndicators(past, e) = MatchingIndicators(records, e)
  BY <1>2, <1>3 DEF MatchingIndicators, P, R
<1>7. /\ Erp007(past, at) = Erp007(records, at)
      /\ Erp008(past, at) = Erp008(records, at)
      /\ Erp009(past, at) = Erp009(records, at)
      /\ Erp009Overflows(past, at) <=> Erp009Overflows(records, at)
  BY <1>1, <1>4, <1>5, <1>6, SameReplayFindings DEF P, R
<1> QED
  BY <1>7 DEF DetectionRuleIds, FindingsOf

(* What a replay reported, it reports at every later analysis time, and evidence  *)
(* later than the analysis time has no influence on it.                           *)
THEOREM LaterTimesAlwaysAgree == CallSpec => []LaterTimesAgree
<1>1. CallIInv => EpisodesStable
  <2> SUFFICES ASSUME CallIInv, phase = "done", NEW i \in DOMAIN found, found[i][1] \in DetectionRuleIds,
                      NEW later \in asOf .. Horizon
               PROVE  found[i][2] \subseteq FindingsOf(found[i][1], bundle.records, later)
    BY DEF EpisodesStable
  <2>1. Normalized(bundle.records) /\ asOf \in Nat
    BY Finished DEF Timestamps
  <2>2. later \in Nat /\ asOf <= later
    BY <2>1, HorizonIsNat
  <2>3. found[i][2] = FindingsOf(found[i][1], bundle.records, asOf)
    BY FinishedTurns
  <2> QED
    BY <2>1, <2>2, <2>3, Erp007Stays, Erp008Stays, Erp009Stays DEF DetectionRuleIds, FindingsOf
<1>2. CallIInv => FutureIgnored
  <2> SUFFICES ASSUME CallIInv PROVE FutureIgnored
    OBVIOUS
  <2> DEFINE past == AtPositions(bundle.records,
                       {i \in DOMAIN bundle.records :
                          bundle.records[i].type \in {"observed_event", "change_event"} =>
                            bundle.records[i].at <= asOf})
  <2>1. ASSUME phase \in {"evaluate", "done"}
        PROVE  /\ \A rule \in DetectionRuleIds :
                    FindingsOf(rule, past, asOf) = FindingsOf(rule, bundle.records, asOf)
               /\ Erp009Overflows(past, asOf) <=> Erp009Overflows(bundle.records, asOf)
    <3>1. Normalized(bundle.records) /\ asOf \in Nat
      BY <2>1 DEF CallIInv, WellFormed, Timestamps
    <3> QED
      BY <3>1, PastSuffices
  <2> HIDE DEF past
  <2>2. ASSUME phase = "done", NEW i \in DOMAIN found, found[i][1] \in DetectionRuleIds
        PROVE  FindingsOf(found[i][1], past, asOf) = found[i][2]
    BY <2>1, <2>2, FinishedTurns
  <2>3. ASSUME phase = "evaluate", Head(pending) \in DetectionRuleIds
        PROVE  Raised(Head(pending), past, asOf) = Raised(Head(pending), bundle.records, asOf)
    BY <2>1, <2>3 DEF Raised, Overflows, DetectionRuleIds
  <2> QED
    BY <2>2, <2>3 DEF FutureIgnored, past
<1> QED
  BY <1>1, <1>2, CallInvariance, PTL DEF LaterTimesAgree


(***************************************************************************)
(* What the rules find, in the terms of the properties.                    *)
(***************************************************************************)
LEMMA PropertySets ==
  ASSUME Normalized(bundle.records), asOf \in Nat
  PROVE  /\ \A who : FailedSignIns(who) = FailuresAmong(RecordSet, who)
         /\ SuccessfulSignIns = {e \in SignInsAmong(RecordSet, asOf) : e.outcome = "success"}
         /\ ChangesMade = ChangesAmong(RecordSet, asOf)
         /\ \A s \in SuccessfulSignIns :
              FailuresBefore(s) = PriorFailures(SignInsAmong(RecordSet, asOf), s)
         /\ \A c \in ChangesMade : SignInsBefore(c) = CandidatesAmong(RecordSet, asOf, c)
<1>1. \A r \in RecordSet : r.type \in EventTypes => r.at \in Nat
  BY NormalizedRecords DEF RecordSet
<1>2. FailureWindow \in Nat /\ ChangeWindow \in Nat
  BY WindowsArePositive
<1>3. \A who : FailedSignIns(who) = FailuresAmong(RecordSet, who)
  BY DEF FailedSignIns, FailuresAmong, AuthSignIns, OfKind, RecordSet
<1>4. SuccessfulSignIns = {e \in SignInsAmong(RecordSet, asOf) : e.outcome = "success"}
  BY DEF SuccessfulSignIns, Visible, SignInsAmong, IsSignIn
<1>5. ChangesMade = ChangesAmong(RecordSet, asOf)
  BY DEF ChangesMade, Visible, ChangesAmong
<1>6. ASSUME NEW s \in SuccessfulSignIns
      PROVE  FailuresBefore(s) = PriorFailures(SignInsAmong(RecordSet, asOf), s)
  <2>1. s.at \in Nat
    BY <1>1 DEF SuccessfulSignIns, Visible, EventTypes
  <2>2. \A f \in Visible : f.at \in Nat
    BY <1>1 DEF Visible, EventTypes
  <2>3. \A f \in Visible : Precedes(f, s) <=> f.at < s.at /\ s.at <= f.at + FailureWindow
    <3> SUFFICES ASSUME NEW f \in Visible
                 PROVE  Precedes(f, s) <=> f.at < s.at /\ s.at <= f.at + FailureWindow
      OBVIOUS
    <3>1. f.at \in Nat
      BY <2>2
    <3> QED
      BY <1>2, <2>1, <3>1 DEF Precedes
  <2>4. \A f \in SignInsAmong(RecordSet, asOf) : f \in Visible
    BY DEF SignInsAmong, IsSignIn, Visible
  <2>5. \A f \in FailuresBefore(s) : f \in PriorFailures(SignInsAmong(RecordSet, asOf), s)
    BY <2>3 DEF FailuresBefore, PriorFailures, SignInsAmong, IsSignIn, Visible
  <2>6. \A f \in PriorFailures(SignInsAmong(RecordSet, asOf), s) : f \in FailuresBefore(s)
    BY <2>3, <2>4 DEF FailuresBefore, PriorFailures, SignInsAmong, IsSignIn
  <2> QED
    BY <2>5, <2>6
<1>7. ASSUME NEW c \in ChangesMade
      PROVE  SignInsBefore(c) = CandidatesAmong(RecordSet, asOf, c)
  <2>1. c.at \in Nat
    BY <1>1 DEF ChangesMade, Visible, EventTypes
  <2>2. \A e \in SuccessfulSignIns : e.at \in Nat
    BY <1>1 DEF SuccessfulSignIns, Visible, EventTypes
  <2>3. \A e \in SuccessfulSignIns :
          e.at < c.at => (c.at - e.at <= ChangeWindow <=> c.at <= e.at + ChangeWindow)
    <3> SUFFICES ASSUME NEW e \in SuccessfulSignIns
                 PROVE  c.at - e.at <= ChangeWindow <=> c.at <= e.at + ChangeWindow
      OBVIOUS
    <3>1. e.at \in Nat
      BY <2>2
    <3> QED
      BY <1>2, <2>1, <3>1
  <2> QED
    BY <1>4, <2>3 DEF SignInsBefore, CandidatesAmong
<1> QED
  BY <1>3, <1>4, <1>5, <1>6, <1>7

LEMMA BurstsAre ==
  ASSUME Normalized(bundle.records), NEW who
  PROVE  /\ Timed(FailedSignIns(who)) /\ Ordered(FailuresOf(bundle.records, who), FailedSignIns(who))
         /\ \A B : B \in BurstsOf(who) <=>
                    /\ B \in SUBSET FailedSignIns(who)
                    /\ Cardinality(B) = BurstThreshold /\ InOneWindow(B)
<1>1. FailedSignIns(who) = FailuresAmong(ToSet(bundle.records), who)
  BY DEF FailedSignIns, FailuresAmong, AuthSignIns, OfKind
<1> QED
  BY <1>1, FailuresInOrder DEF BurstsOf, InOneWindow, kSubset

(* The four parts of FindingsExact.                                               *)
LEMMA BurstsAreExact == CallIInv => BurstsExact
<1> SUFFICES ASSUME CallIInv, Evaluated("ERP006") PROVE BurstsExact
  BY DEF BurstsExact
<1> DEFINE R == bundle.records
           q(who) == FailuresOf(R, who)
           whose == {e.principal : e \in AuthSignIns(R, "failure")}
<1>1. Normalized(R)
  BY Finished DEF Evaluated
<1>2. FoundBy("ERP006") = Erp006(R)
  BY FoundByIs DEF FindingsOf
<1>3. BurstThreshold \in Nat \ {0}
  BY ParametersArePositive
<1>4. ASSUME NEW f \in FoundBy("ERP006")
      PROVE  \E e \in RecordSet : e.id \in f.records /\
               \E S \in BurstsOf(e.principal) : EarliestBurst(S, e.principal) /\ Ids(S) = f.records
  <2>1. PICK who \in whose : BurstStarts(q(who)) # {} /\ f = Finding("ERP006", Burst(q(who)), {})
    BY <1>2 DEF Erp006
  <2> DEFINE B == Burst(q(who))
  <2>2. f.records = Ids(B)
    BY <2>1 DEF Finding, Ids
  <2>3. Timed(FailedSignIns(who)) /\ Ordered(q(who), FailedSignIns(who))
    BY <1>1, BurstsAre
  <2>4. /\ B \subseteq FailedSignIns(who) /\ Cardinality(B) = BurstThreshold /\ InOneWindow(B)
        /\ IsFiniteSet(B)
    BY <2>1, <2>3, BurstIsOne
  <2>5. B \in BurstsOf(who)
    BY <1>1, <2>4, BurstsAre
  <2>6. ASSUME NEW other \in BurstsOf(who)
        PROVE  other = B \/ \E a \in B \ other : \A b \in other \ B : Before(a, b)
    <3>1. other \in SUBSET FailedSignIns(who) /\ Cardinality(other) = BurstThreshold /\ InOneWindow(other)
      BY <1>1, BurstsAre
    <3> QED
      BY <2>3, <3>1, BurstIsFirst
  <2> HIDE DEF B, q
  <2>7. EarliestBurst(B, who)
    BY <2>5, <2>6 DEF EarliestBurst
  <2>8. B # {}
    BY <1>3, <2>4, FS_EmptySet
  <2>9. PICK e \in B : TRUE
    BY <2>8
  <2>10. e \in RecordSet /\ e.principal = who /\ e.id \in Ids(B)
    BY <2>4, <2>9 DEF FailedSignIns, AuthSignIns, OfKind, RecordSet, Ids
  <2> QED
    BY <2>2, <2>5, <2>7, <2>10
<1>5. ASSUME NEW e \in AuthSignIns(R, "failure"), BurstsOf(e.principal) # {}
      PROVE  \E f \in FoundBy("ERP006") : \E S \in BurstsOf(e.principal) : Ids(S) = f.records
  <2> DEFINE who == e.principal
             B == Burst(q(who))
  <2>1. PICK other \in BurstsOf(who) : TRUE
    BY <1>5
  <2>2. Timed(FailedSignIns(who)) /\ Ordered(q(who), FailedSignIns(who))
    BY <1>1, BurstsAre
  <2>3. other \in SUBSET FailedSignIns(who) /\ Cardinality(other) = BurstThreshold /\ InOneWindow(other)
    BY <1>1, <2>1, BurstsAre
  <2>4. BurstStarts(q(who)) # {}
    BY <2>2, <2>3, BurstIsFirst
  <2>5. B \subseteq FailedSignIns(who) /\ Cardinality(B) = BurstThreshold /\ InOneWindow(B)
    BY <2>2, <2>4, BurstIsOne
  <2>6. B \in BurstsOf(who)
    BY <1>1, <2>5, BurstsAre
  <2>7. who \in whose
    OBVIOUS
  <2>8. Finding("ERP006", B, {}) \in FoundBy("ERP006")
    BY <1>2, <2>4, <2>7 DEF Erp006
  <2>9. Finding("ERP006", B, {}).records = Ids(B)
    BY DEF Finding, Ids
  <2> QED
    BY <2>6, <2>8, <2>9
<1> QED
  BY <1>4, <1>5 DEF BurstsExact

(***************************************************************************)
(* The replay rules.                                                       *)
(***************************************************************************)
LEMMA EpisodeNames ==
  ASSUME NEW rule, NEW X, NEW steps \in Seq(X)
  PROVE  /\ DOMAIN Episode(rule, steps).steps = DOMAIN steps
         /\ \A i \in DOMAIN steps : Episode(rule, steps).steps[i] = steps[i].id
         /\ Episode(rule, steps).records = {steps[i].id : i \in DOMAIN steps}
BY DEF Episode

LEMMA PairNames ==
  ASSUME NEW rule, NEW a, NEW b
  PROVE  Episode(rule, <<a, b>>).steps = <<a.id, b.id>>
BY DEF Episode

(* The steps of f name elements of S in chronological order. *)
StepsInOrder(f, S) ==
  \A i, j \in DOMAIN f.steps : i < j =>
    \E a, b \in S : a.id = f.steps[i] /\ b.id = f.steps[j] /\ Before(a, b)

(* The steps of an ERP007 episode: the failures it keeps, in order, and the       *)
(* success.                                                                       *)
LEMMA Erp007Steps ==
  ASSUME NEW S, Timed(S), NEW q, Ordered(q, S), NEW s \in BreachesAmong(S)
  PROVE  LET f == Episode("ERP007", Append(Retained(q, s), s)) IN
         /\ f.records = Ids(MostRecentAmong(S, s) \cup {s})
         /\ StepsInOrder(f, MostRecentAmong(S, s) \cup {s})
<1> DEFINE M == MostRecentAmong(S, s)
           r == Retained(q, s)
           steps == Append(r, s)
           f == Episode("ERP007", steps)
<1>1. Ordered(r, M)
  BY RetainedInOrder
<1>2. \A a \in M : Before(a, s)
  BY DEF MostRecentAmong, PriorFailures, Precedes, Before
<1> HIDE DEF M, r
<1>3. r \in Seq(M) /\ (\A e \in M : \E i \in DOMAIN r : r[i] = e)
      /\ \A i, j \in DOMAIN r : i < j => Before(r[i], r[j])
  BY <1>1 DEF Ordered
<1>4. /\ steps \in Seq(M \cup {s}) /\ Len(r) \in Nat /\ DOMAIN steps = 1 .. Len(r) + 1
      /\ DOMAIN r = 1 .. Len(r)
      /\ \A i \in 1 .. Len(r) : steps[i] = r[i] /\ r[i] \in M
      /\ steps[Len(r) + 1] = s
  BY <1>3
<1> HIDE DEF steps
<1>5. /\ DOMAIN f.steps = DOMAIN steps /\ \A i \in DOMAIN steps : f.steps[i] = steps[i].id
      /\ f.records = {steps[i].id : i \in DOMAIN steps}
  BY <1>4, EpisodeNames
<1> HIDE DEF f
<1>6. f.records = Ids(M \cup {s})
  <2>1. \A x \in f.records : x \in Ids(M \cup {s})
    BY <1>4, <1>5 DEF Ids
  <2>2. \A i \in 1 .. Len(r) + 1 : steps[i].id \in f.records
    BY <1>4, <1>5
  <2>3. \A e \in M : e.id \in f.records
    BY <1>3, <1>4, <2>2
  <2>4. s.id \in f.records
    BY <1>4, <2>2
  <2>5. \A x \in Ids(M \cup {s}) : x \in f.records
    BY <2>3, <2>4 DEF Ids
  <2> QED
    BY <2>1, <2>5
<1>7. ASSUME NEW i \in DOMAIN f.steps, NEW j \in DOMAIN f.steps, i < j
      PROVE  \E a, b \in M \cup {s} : a.id = f.steps[i] /\ b.id = f.steps[j] /\ Before(a, b)
  <2>1. i \in 1 .. Len(r) + 1 /\ j \in 1 .. Len(r) + 1 /\ i \in 1 .. Len(r)
    BY <1>4, <1>5, <1>7
  <2>2. steps[i] \in M \cup {s} /\ steps[j] \in M \cup {s}
    BY <1>4, <2>1
  <2>3. Before(steps[i], steps[j])
    <3>1. CASE j \in 1 .. Len(r)
      BY <1>3, <1>4, <1>7, <2>1, <3>1
    <3>2. CASE j = Len(r) + 1
      BY <1>2, <1>4, <2>1, <3>2
    <3> QED
      BY <1>4, <2>1, <3>1, <3>2
  <2> QED
    BY <1>4, <1>5, <2>1, <2>2, <2>3
<1>8. StepsInOrder(f, M \cup {s})
  BY <1>7 DEF StepsInOrder
<1> QED
  BY <1>6, <1>8 DEF f, M, steps, r

LEMMA BreachedAre ==
  ASSUME Normalized(bundle.records), asOf \in Nat
  PROVE  /\ Breached = BreachesAmong(SignInsAmong(RecordSet, asOf))
         /\ \A s \in Breached : MostRecent(s) = MostRecentAmong(SignInsAmong(RecordSet, asOf), s)
<1> DEFINE S == SignInsAmong(RecordSet, asOf)
<1>1. SuccessfulSignIns = {e \in S : e.outcome = "success"}
  BY PropertySets
<1>2. \A s \in SuccessfulSignIns : FailuresBefore(s) = PriorFailures(S, s)
  BY PropertySets
<1> HIDE DEF S
<1>3. Breached = BreachesAmong(S)
  BY <1>1, <1>2 DEF Breached, BreachesAmong
<1>4. \A s \in Breached : MostRecent(s) = MostRecentAmong(S, s)
  BY <1>2 DEF Breached, MostRecent, MostRecentAmong, Above
<1> QED
  BY <1>3, <1>4 DEF S

LEMMA FailuresThenSuccessAreExact == CallIInv => FailuresThenSuccessExact
<1> SUFFICES ASSUME CallIInv, Evaluated("ERP007") PROVE FailuresThenSuccessExact
  BY DEF FailuresThenSuccessExact
<1> DEFINE S == SignInsAmong(RecordSet, asOf)
           q == SignIns(bundle.records, asOf)
           E == EarliestSignIns(BreachesAmong(S))
           episode(s) == Episode("ERP007", Append(Retained(q, s), s))
<1>1. Normalized(bundle.records) /\ asOf \in Nat
  BY Finished DEF Evaluated, Timestamps
<1>2. FoundBy("ERP007") = {episode(s) : s \in E}
  BY <1>1, FoundByIs, Erp007Is DEF FindingsOf, RecordSet
<1>3. Timed(S) /\ Ordered(q, S)
  BY <1>1, SignInsInOrder DEF RecordSet
<1>4. Breached = BreachesAmong(S) /\ \A s \in Breached : MostRecent(s) = MostRecentAmong(S, s)
  BY <1>1, BreachedAre
<1>5. S \subseteq RecordSet
  BY DEF SignInsAmong
<1> HIDE DEF S, q
<1>6. {s \in Breached : Earliest(s, {t \in Breached : SignInKey(t) = SignInKey(s)})} = E
  BY <1>4 DEF EarliestSignIns
<1>7. ASSUME NEW s \in E
      PROVE  /\ episode(s).records = Ids(MostRecent(s) \cup {s})
             /\ MostRecent(s) \cup {s} \subseteq RecordSet
             /\ StepsInOrder(episode(s), MostRecent(s) \cup {s})
  <2>1. s \in BreachesAmong(S) /\ MostRecent(s) = MostRecentAmong(S, s)
    BY <1>4 DEF EarliestSignIns
  <2>2. MostRecent(s) \cup {s} \subseteq RecordSet
    BY <1>5, <2>1 DEF BreachesAmong, MostRecentAmong, PriorFailures
  <2> QED
    BY <1>3, <2>1, <2>2, Erp007Steps
<1> HIDE DEF episode, E
<1>8. {f.records : f \in FoundBy("ERP007")} = {Ids(MostRecent(s) \cup {s}) : s \in E}
  <2>1. \A s \in E : episode(s).records = Ids(MostRecent(s) \cup {s})
    BY <1>7
  <2> QED
    BY <1>2, <2>1
<1>9. ASSUME NEW f \in FoundBy("ERP007"), NEW i \in DOMAIN f.steps, NEW j \in DOMAIN f.steps, i < j
      PROVE  \E a, b \in RecordSet : a.id = f.steps[i] /\ b.id = f.steps[j] /\ Before(a, b)
  <2>1. PICK s \in E : f = episode(s)
    BY <1>2
  <2>2. StepsInOrder(f, MostRecent(s) \cup {s}) /\ MostRecent(s) \cup {s} \subseteq RecordSet
    BY <1>7, <2>1
  <2> QED
    BY <1>9, <2>2 DEF StepsInOrder
<1> QED
  BY <1>6, <1>8, <1>9 DEF FailuresThenSuccessExact

LEMMA IndicatorsAreExact == CallIInv => IndicatorsExact
<1> SUFFICES ASSUME CallIInv, Evaluated("ERP008") PROVE IndicatorsExact
  BY DEF IndicatorsExact
<1> DEFINE R == bundle.records
           S == SignInsAmong(RecordSet, asOf)
           E == EarliestSignIns(IndicatedAmong(R, S))
           episode(e) == Episode("ERP008", <<FirstIndicator(R, e), e>>)
<1>1. Normalized(R) /\ asOf \in Nat
  BY Finished DEF Evaluated, Timestamps
<1>2. FoundBy("ERP008") = {episode(e) : e \in E}
  BY <1>1, FoundByIs, Erp008Is DEF FindingsOf, RecordSet
<1>3. SuccessfulSignIns = {e \in S : e.outcome = "success"}
  BY <1>1, PropertySets
<1>4. ASSUME NEW e \in SuccessfulSignIns
      PROVE  MatchingIndicators(R, e) = IndicatorsOf(e)
  <2>1. e.at \in Nat
    BY <1>1, NormalizedRecords DEF SuccessfulSignIns, Visible, RecordSet, EventTypes
  <2>2. \A i \in RecordSet : i.type = "threat_indicator" => i.from \in Nat /\ i.until \in Nat
    BY <1>1, HorizonIsNat DEF Normalized, RecordSet, Timestamps
  <2> QED
    BY <2>1, <2>2 DEF MatchingIndicators, Covers, IndicatorsOf, RecordSet
<1>5. Indicated = IndicatedAmong(R, S)
  BY <1>3, <1>4 DEF Indicated, IndicatedAmong
<1>6. {e \in Indicated : Earliest(e, {t \in Indicated : SignInKey(t) = SignInKey(e)})} = E
  BY <1>5 DEF EarliestSignIns
<1>7. ASSUME NEW e \in E
      PROVE  FirstIndicator(R, e).id = Min(Ids(IndicatorsOf(e)))
  <2> DEFINE I == IndicatorsOf(e)
  <2>1. I # {} /\ MatchingIndicators(R, e) = I
    BY <1>4, <1>5 DEF EarliestSignIns, Indicated
  <2>2. \A i \in I : i.id \in Nat
    BY <1>1, NormalizedRecords DEF IndicatorsOf, RecordSet
  <2> HIDE DEF I
  <2>3. PICK n \in Ids(I) : \A m \in Ids(I) : n <= m
    BY <2>1, <2>2, LeastNumber DEF Ids
  <2>4. FirstIndicator(R, e) \in I /\ \A j \in I : FirstIndicator(R, e).id <= j.id
    <3>1. \E i \in I : \A j \in I : i.id <= j.id
      BY <2>3 DEF Ids
    <3> QED
      BY <2>1, <3>1 DEF FirstIndicator
  <2>5. Min(Ids(I)) \in Ids(I) /\ \A m \in Ids(I) : Min(Ids(I)) <= m
    BY <2>3 DEF Min
  <2>6. Min(Ids(I)) \in Nat /\ FirstIndicator(R, e).id \in Nat
    BY <2>2, <2>4, <2>5 DEF Ids
  <2>7. FirstIndicator(R, e).id <= Min(Ids(I)) /\ Min(Ids(I)) <= FirstIndicator(R, e).id
    BY <2>4, <2>5 DEF Ids
  <2> QED
    BY <2>6, <2>7 DEF I
<1> HIDE DEF E, S
<1>8. \A e \in E : episode(e).steps = <<Min(Ids(IndicatorsOf(e))), e.id>>
  BY <1>7, PairNames
<1> HIDE DEF episode
<1>9. {f.steps : f \in FoundBy("ERP008")} = {<<Min(Ids(IndicatorsOf(e))), e.id>> : e \in E}
  BY <1>2, <1>8
<1> QED
  BY <1>6, <1>9 DEF IndicatorsExact

LEMMA ChangesAreExact == CallIInv => ChangesExact
<1> SUFFICES ASSUME CallIInv, Evaluated("ERP009") PROVE ChangesExact
  BY DEF ChangesExact
<1> DEFINE E == EarliestChanges(PrecededAmong(RecordSet, asOf))
           episode(c) == Episode("ERP009", <<Latest(CandidatesAmong(RecordSet, asOf, c)), c>>)
<1>1. Normalized(bundle.records) /\ asOf \in Nat
  BY Finished DEF Evaluated, Timestamps
<1>2. FoundBy("ERP009") = {episode(c) : c \in E}
  BY <1>1, FoundByIs, Erp009Is DEF FindingsOf, RecordSet
<1>3. /\ ChangesMade = ChangesAmong(RecordSet, asOf)
      /\ \A c \in ChangesMade : SignInsBefore(c) = CandidatesAmong(RecordSet, asOf, c)
  BY <1>1, PropertySets
<1>4. Preceded = PrecededAmong(RecordSet, asOf)
  BY <1>3 DEF Preceded, PrecededAmong
<1>5. {c \in Preceded : Earliest(c, {d \in Preceded : ChangeKey(d) = ChangeKey(c)})} = E
  BY <1>4 DEF EarliestChanges
<1>6. \A c \in E : SignInsBefore(c) = CandidatesAmong(RecordSet, asOf, c)
  BY <1>3, <1>4 DEF EarliestChanges, Preceded
<1> HIDE DEF E
<1>7. \A c \in E : episode(c).steps = <<Latest(SignInsBefore(c)).id, c.id>>
  BY <1>6, PairNames
<1> HIDE DEF episode
<1>8. {f.steps : f \in FoundBy("ERP009")} = {<<Latest(SignInsBefore(c)).id, c.id>> : c \in E}
  BY <1>2, <1>7
<1> QED
  BY <1>5, <1>8 DEF ChangesExact

(* The bursts of ERP006 and the episodes of ERP007, ERP008 and ERP009 are exactly *)
(* those the evidence holds.                                                      *)
THEOREM FindingsAreExact == CallSpec => []FindingsExact
<1>1. CallIInv => FindingsExact
  BY BurstsAreExact, FailuresThenSuccessAreExact, IndicatorsAreExact, ChangesAreExact
     DEF FindingsExact
<1> QED
  BY <1>1, CallInvariance, PTL
=============================================================================
