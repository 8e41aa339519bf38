----------------------- MODULE MCReleaseArtifacts -----------------------
(* Archives whose members follow a policy of two files or miss it, commands that meet *)
(* each other and other programs in a directory of seven names.                        *)
EXTENDS ReleaseArtifacts, TLC

CONSTANTS whl, tgz, sbom, bad, t1, t2, r1, r2

MCSortedNames == <<t1, t2, Sums, bad, sbom, whl, tgz>>
MCTemporaryName == (r1 :> t1) @@ (r2 :> t2)

File(path) == [path |-> path, kind |-> "file", size |-> 1, mode |-> "none", honest |-> TRUE, clean |-> TRUE]
Folder(path) == [File(path) EXCEPT !.kind = "directory", !.size = 0]

F == File(<<"p", "q", "f">>)
G == File(<<"g">>)
Parents == {Folder(<<"p">>), Folder(<<"p", "q">>)}
Odd ==
  {File(<<"p">>), File(<<"build">>), File(<<"p", "..", "g">>), Folder(<<"g">>), Folder(<<"x">>),
   [G EXCEPT !.size = 2], [G EXCEPT !.size = 3], [G EXCEPT !.honest = FALSE], [G EXCEPT !.clean = FALSE],
   [G EXCEPT !.kind = "link"], [G EXCEPT !.kind = "special"], [G EXCEPT !.mode = "unsafe"],
   [G EXCEPT !.mode = "executable"], [Folder(<<"p">>) EXCEPT !.mode = "executable"],
   [Folder(<<"p">>) EXCEPT !.mode = "unsafe"], [Folder(<<"p">>) EXCEPT !.clean = FALSE]}

Packed(ms) ==
  [kind |-> "wheel", members |-> ms, bytes |-> 3, metadata |-> 1, expanded |-> 3, project |-> TRUE, requires |-> <<>>]
As(kind, f) == [f EXCEPT !.kind = kind]

MemberLists ==
  UNION {[1 .. n -> {F, G} \cup Parents] : n \in 0 .. 4}
    \cup {<<F, m, n>> : m, n \in {G} \cup Parents \cup Odd}
    \cup {<<m, F>> : m \in Odd}

Needs(name, marker) == [name |-> name, marker |-> marker]
Good == Packed(<<F, G>>)
Other == [Packed(<<Folder(<<"p">>), F, G>>) EXCEPT !.requires = <<Needs("a", "none")>>]
Described ==
  {[Good EXCEPT !.requires = q] :
     q \in {<<Needs("a", "extra"), Needs("b", "none")>>, <<Needs("a", "none"), Needs("a", "none")>>,
            <<Needs("a", "odd")>>, [k \in 1 .. 5 |-> Needs(ToString(k), "none")]}}
    \cup {[Good EXCEPT !.project = FALSE], [Good EXCEPT !.bytes = 4], [Good EXCEPT !.bytes = 5],
          [Good EXCEPT !.metadata = 2], [Good EXCEPT !.expanded = 5], [Good EXCEPT !.expanded = 6]}

Wheels == {Packed(ms) : ms \in MemberLists} \cup Described \cup {Other}
Sdists == {As("sdist", f) : f \in Wheels}
MCArchives == Wheels \cup Sdists
MCBrought == {Good, Other, Packed(<<F>>), Absent, Symlink, Plain}

Lines2 == <<<<"p", "q", "f">>, <<"g">>>>
Ask(command, kind, name, output) ==
  [command |-> command, kind |-> kind, archive |-> name, policy |-> Lines2, output |-> output, date_valid |-> TRUE]

Inspect(kind, name) == Ask("inspect", kind, name, sbom)
Describe(output) == Ask("sbom", "wheel", whl, output)
Sum == Ask("checksums", "wheel", whl, Sums)

Place(w, s, d, c) ==
  (t1 :> Absent) @@ (t2 :> Absent) @@ (bad :> Absent) @@ (whl :> w) @@ (tgz :> s) @@ (sbom :> d) @@ (Sums :> c)
Situation(e, q, x) == [entry |-> e, request |-> q, others |-> x]

(* The second run ends at its first step. *)
Nothing == Ask("inspect", "sdist", whl, sbom)
Alone(q) == (r1 :> q) @@ (r2 :> Nothing)

Inspections ==
  {Situation(Place(f, f, Absent, Absent), Alone(q), {}) :
     f \in MCArchives \cup {Absent, Symlink, Directory, Plain},
     q \in {Inspect("wheel", whl), Inspect("sdist", tgz), Inspect("wheel", tgz)}}

Policies ==
  {Situation(Place(Good, Good, Absent, Absent), Alone([Inspect("wheel", whl) EXCEPT !.policy = p]), {}) :
     p \in {<<>>, <<<<"g">>, <<"g">>>>, <<<<"g">>, <<"..">>>>, <<<<"g">>>>, Lines2 \o <<<<"build">>>>}}

Descriptions ==
  {Situation(Place(f, Plain, d, Absent), Alone([Describe(o) EXCEPT !.date_valid = v]), {}) :
     f \in Described \cup {Good, Other, Packed(<<F>>)}, d \in {Absent, Plain, Symlink, Directory},
     o \in {sbom, whl}, v \in BOOLEAN}

Sums2 ==
  {Situation([Place(f, s, d, c) EXCEPT ![bad] = b], Alone(Sum), {}) :
     f, s \in {Absent, Good, Symlink}, b \in {Absent, Plain}, d \in {Absent, Plain, Directory}, c \in {Absent, Plain, Symlink, Directory}}

Together ==
  {Situation(Place(f, Plain, Absent, Absent), (r1 :> p) @@ (r2 :> q), x) :
     f \in {Good, Other}, p \in {Describe(sbom), Sum}, q \in {Describe(sbom), Sum}, x \in {{}, {"fail"}}}

Changing ==
  {Situation(Place(f, Plain, Absent, Absent), Alone(q), {"change"}) :
     f \in {Good, Packed(<<F>>)}, q \in {Inspect("wheel", whl), Describe(sbom), Sum}}

MCSituations == Inspections \cup Policies \cup Descriptions \cup Sums2 \cup Together \cup Changing
=============================================================================
