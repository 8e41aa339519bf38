------------------------- MODULE MCSourceSnapshot -------------------------
(* A commit of two files, one with a symbolic link and one that is too large;       *)
(* another tree in the worktree or the index.                                      *)
EXTENDS SourceSnapshot

File(name, blob) == [name |-> name, kind |-> "100644 blob", blob |-> blob, size |-> 1]

MCRevisions == {"r1", "r2", "r3"}
MCTree == [r \in MCRevisions |->
  CASE r = "r1" -> <<File("a", "x"), File("b", "y")>>
    [] r = "r2" -> <<File("a", "z"), [File("b", "x") EXCEPT !.kind = "120000 blob"]>>
    [] r = "r3" -> <<[File("a", "w") EXCEPT !.size = 3]>>]
MCOtherTrees == {<<File("a", "y")>>}
=============================================================================
