--------------------------- MODULE MCWorkbench ---------------------------
(* Analyses and replays over three names: files that are evidence, manifests or      *)
(* neither, hard and symbolic links, outputs that are inputs of the same run or of   *)
(* the other.                                                                         *)
EXTENDS Workbench, TLC

CONSTANTS a, b, o, f, g, h, r1, r2

Content(kind, covers, matches) == [kind |-> kind, covers |-> covers, matches |-> matches, declares |-> <<>>]

Both == {"ERP001", "ERP007"}
Quiet == Content("evidence", Both, {})
Loud == Content("evidence", Both, Both)
Access == Content("evidence", {"ERP001", "ERP002"}, {"ERP002"})
Manifest(d) == [Content("manifest", {}, {}) EXCEPT !.declares = d]
Declares(n, c) == [name |-> n, sha256 |-> c]
MCContents ==
  {Quiet, Loud, Access, Content("other", {}, {}),
   Manifest(<<Declares(b, Loud)>>), Manifest(<<Declares(b, Quiet), Declares(o, Loud)>>)}

Lists == {<<a>>, <<a, b>>}
Ask(command, inputs, output, rules) ==
  [command |-> command, inputs |-> inputs, output |-> output, rules |-> rules, valid |-> TRUE]

Selections == {<<>>, <<"all">>, <<"ERP002", "ERP001">>, <<"ERP002", "ERP002">>, <<"ERP002", "all">>}
Analyses == {Ask("analyze", i, out, s) : i \in Lists, out \in {a, b, o}, s \in Selections}
Replays == {Ask("replay", <<a>>, out, <<>>) : out \in {a, b, o}}
Invalid == [Ask("analyze", <<a>>, o, <<>>) EXCEPT !.valid = FALSE]

Alone(q) == [r \in Runs |-> IF r = r1 THEN q ELSE Invalid]
Pairs == [Runs -> {Ask("replay", <<a>>, o, <<>>), Ask("replay", <<a>>, b, <<>>),
                   Ask("analyze", <<a, b>>, o, <<>>), Ask("analyze", <<a>>, b, <<>>)}]

Files(c, d) == (f :> c) @@ (g :> d) @@ (h :> Loud)
Names3(x, y, z) == (a :> x) @@ (b :> y) @@ (o :> z)
Situation(e, c, q, x) == [entry |-> e, content |-> c, request |-> q, others |-> x]

Entries == {Names3(x, y, z) : x \in {f, g}, y \in {f, g, a, Absent}, z \in {h, g, a, Absent}}
Quietly ==
  {Situation(e, Files(c, d), Alone(q), {}) :
     e \in Entries, c \in MCContents, d \in {Quiet, Loud}, q \in Analyses \cup Replays \cup {Invalid}}

Together(x) ==
  {Situation(Names3(f, y, z), Files(c, Loud), q, x) :
     y \in {g, Absent}, z \in {h, Absent}, c \in MCContents \ {Access}, q \in Pairs}

Changing ==
  {Situation(Names3(f, y, z), Files(c, Loud), Alone(q), {"change"}) :
     y \in {g, a, Absent}, z \in {a, Absent}, c \in MCContents \ {Access},
     q \in Replays \cup {Ask("analyze", i, out, <<>>) : i \in Lists, out \in {a, b, o}}}

MCSituations == Quietly \cup Together({}) \cup Together({"fail"}) \cup Changing
=============================================================================
