------------------------- MODULE PublisherRefinement -------------------------
(* Publisher implements AtomicPublication: readers of the requested name see  *)
(* the entry Final, and the status of a process is read off its control.      *)
EXTENDS Publisher

Report == [d \in Dirs |-> dir[d][Final]]

Status ==
  [p \in Proc |-> CASE pc[p] = "killed" -> "killed"
                    [] pc[p] = "done"   -> outcome[p]
                    [] OTHER            -> IF committed[p] THEN "committed" ELSE "running"]

Atomic == INSTANCE AtomicPublication WITH report <- Report, status <- Status

\* Every step of the system calls is, for readers of the requested name and for
\* callers of write_new_report, a step of the atomic publication or no step.
ImplementsAtomicPublication == Atomic!Spec
=============================================================================
