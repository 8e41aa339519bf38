---------------------------- MODULE MCLoaders ----------------------------
(***************************************************************************)
(* Small file systems for the two loaders.  The limits of the instances    *)
(* are 3 bytes in all and 2 or 3 records, so pairs of the contents below   *)
(* are at, under and over either of them.                                  *)
(***************************************************************************)
EXTENDS Naturals, Sequences

Source(ids, bytes, adapter, csv) ==
  [ids |-> ids, bytes |-> bytes, adapter |-> adapter, csv |-> csv, declares |-> <<>>]

MCFiles(paths, inodes, contents) ==
  {[inode |-> i, content |-> c, others |-> FALSE] : i \in [paths -> inodes], c \in [inodes \ {"none"} -> contents]}

(* Sources of load_evidence: disjoint, overlapping, larger, with a record twice,   *)
(* with two records, and one no parser accepts.                                    *)
MCPaths == {<<"d1", "a">>, <<"d2", "a">>, <<"d1", "b">>}
MCInodes == {"i1", "i2", "i3"}
MCContents ==
  {Source(<<1>>, 1, "canonical", FALSE), Source(<<2>>, 2, "canonical", TRUE),
   Source(<<1, 2>>, 2, "canonical", FALSE), Source(<<3, 3>>, 1, "canonical", FALSE),
   Source(<<2, 4>>, 1, "canonical", FALSE), Source(<<>>, 1, "canonical", FALSE)}
MCRequests ==
  {<<>>} \cup {<<p>> : p \in MCPaths} \cup (MCPaths \X MCPaths)
    \cup {<<<<"d1", "a">>, <<"d1", "b">>, <<"d2", "a">>>>}
MCAnyFiles == MCFiles(MCPaths, MCInodes \cup {"none"}, MCContents)
MCSomeFiles ==
  {[inode |-> i, content |-> [n \in MCInodes |-> Source(<<1>>, 1, "canonical", FALSE)],
    others |-> TRUE] :
     i \in {[p \in MCPaths |-> IF p[2] = "b" THEN "i2" ELSE "i1"]}}
MCAllFiles == MCAnyFiles \cup MCSomeFiles

(* Files of a replay: an event, an event too large to go with the others, an     *)
(* event in CSV, a repeated event, three more, a CSV record, an indicator, and       *)
(* manifests that declare them.                                                    *)
MCReplayPaths == {<<"d", "m">>, <<"d", "a">>, <<"d", "b">>}
Event == Source(<<1>>, 1, "honeypot", FALSE)
LargeEvent == Source(<<2>>, 2, "honeypot", FALSE)
CsvEvent == Source(<<2>>, 1, "honeypot", TRUE)
TwoEvents == Source(<<2, 2>>, 1, "honeypot", FALSE)
MoreEvents == Source(<<2, 3, 4>>, 1, "honeypot", FALSE)
OtherEvent == Source(<<5>>, 1, "honeypot", FALSE)
CsvRecord == Source(<<2>>, 1, "canonical", TRUE)
Indicator == Source(<<3>>, 1, "intel", FALSE)

Declared(id, path, adapter, content) ==
  [source_id |-> id, path |-> path, adapter |-> adapter, sha256 |-> content]

ManifestOf(declares) ==
  [ids |-> <<0>>, bytes |-> 1, adapter |-> "manifest", csv |-> FALSE, declares |-> declares]

Pair(content, adapter) ==
  ManifestOf(<<Declared("s1", "a", "honeypot", Event), Declared("s2", "b", adapter, content)>>)

MCManifests == {<<"d", "m">>}
MCReplayContents ==
  {Event, LargeEvent, CsvEvent, TwoEvents, MoreEvents, CsvRecord, Indicator,
   Pair(Indicator, "intel"), Pair(Indicator, "honeypot"), Pair(LargeEvent, "honeypot"),
   Pair(CsvEvent, "honeypot"), Pair(TwoEvents, "honeypot"), Pair(Event, "honeypot"),
   Pair(MoreEvents, "honeypot"), Pair(CsvRecord, "canonical"),
   ManifestOf(<<Declared("s1", "a", "honeypot", Event)>>),
   ManifestOf(<<Declared("s1", "a", "honeypot", Event), Declared("s1", "b", "intel", Indicator)>>),
   ManifestOf(<<Declared("s1", "a", "honeypot", Event), Declared("s2", "a", "honeypot", Event)>>)}
MCAnyReplay ==
  {f \in MCFiles(MCReplayPaths, MCInodes \cup {"none"}, MCReplayContents) :
     f.inode[<<"d", "m">>] = "i1"}

MCReplayUniverse == MCReplayContents \cup {OtherEvent, Pair(OtherEvent, "honeypot")}

(* A replay with a manifest, an event and one other source, of three kinds. *)
MCReplays ==
  {[inode |-> [p \in MCReplayPaths |-> CASE p[2] = "m" -> "i1" [] p[2] = "a" -> "i2" [] p[2] = "b" -> "i3"],
    content |-> [i \in MCInodes |-> CASE i = "i1" -> Pair(r[1], r[2]) [] i = "i2" -> Event [] i = "i3" -> r[1]],
    others |-> TRUE] :
      r \in {<<Indicator, "intel">>, <<OtherEvent, "honeypot">>, <<LargeEvent, "honeypot">>}}
MCAllReplays == MCAnyReplay \cup MCReplays
=============================================================================
