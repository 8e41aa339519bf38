-------------------------- MODULE PublisherInvariant --------------------------
(* The strengthening of Publisher's safety invariants that its steps preserve. *)
EXTENDS PublisherRefinement

\* Steps taken with the temporary file open.
Holding == {"chmod", "write", "fsync", "stat", "link", "confirm", "verify",
            "reparent", "commit"}

\* Where a process is tells which parts of the publication it has done.
Opened(p) ==
  /\ pc[p] \in Publishing \ {"open"} => parent[p] \in Dirs
  /\ pc[p] \in Holding \cup {"probe", "create"} => parent[p] \notin Shared
  /\ pc[p] \in Holding => tempname[p] # NoName
  /\ tempname[p] # NoName \/ "temporary" \in fds[p] => parent[p] \in Dirs \ Shared
  /\ pc[p] = "rmfinal" => "temporary" \in fds[p]
  /\ pc[p] = "rmtemp" => tempname[p] # NoName
  /\ pc[p] = "start" => tempname[p] = NoName /\ fds[p] = {}
  /\ pc[p] \in {"open", "check", "probe", "create"} => tempname[p] = NoName

\* The report is written, made private and synced before it can be linked.
Written(p) ==
  /\ pc[p] \in {"start", "open", "check", "probe", "create", "chmod"} => length[p] = 0
  /\ pc[p] \in Holding \ {"chmod"} => private[p]
  /\ pc[p] \in Holding \ {"chmod", "write"} => length[p] = Size
  /\ pc[p] \in Holding \ {"chmod", "write", "fsync"} => synced[p]
  /\ length[p] > 0 => private[p]

\* A link to an inode is made by its process only, where nobody else may tamper,
\* and under the final name only once the report is complete.
Bound(p) ==
  \A d \in Dirs, n \in Names : dir[d][n] = p =>
    /\ d = parent[p]
    /\ d \notin Shared
    /\ n # Final => n = tempname[p]
    /\ n = Final => /\ length[p] = Size /\ private[p] /\ synced[p]
                    /\ pc[p] \in {"confirm", "verify", "reparent", "commit",
                                  "done", "killed"} \cup Cleaning

\* What a process has established about its names stays true until it acts on it.
Holds(p) ==
  /\ pc[p] \in Holding => dir[parent[p]][tempname[p]] = p
  /\ pc[p] \in {"reparent", "commit", "rmfinal"} => dir[parent[p]][Final] = p
  /\ pc[p] = "rmtemp" => dir[parent[p]][tempname[p]] = p
  /\ ~powered => pc[p] \in {"done", "killed"}
  /\ committed[p] => /\ pc[p] \in (Cleaning \ {"rmfinal"}) \cup {"done", "killed"}
                     /\ parent[p] \in Dirs
                     /\ powered => dir[parent[p]][Final] = p

\* No two processes commit in one directory.
Apart ==
  \A p, q \in Proc : p # q /\ committed[p] /\ committed[q] => parent[p] # parent[q]

\* The inductive invariant.
IInv ==
  /\ TypeOK
  /\ \A p \in Proc : Opened(p)
  /\ \A p \in Proc : Written(p)
  /\ \A p \in Proc : Bound(p)
  /\ \A p \in Proc : Holds(p)
  /\ Apart

\* What a process reports is what it did, and a SIGINT it knew of before the last
\* safe point kept it from committing.
Told(p) ==
  /\ pc[p] # "done" => outcome[p] = "unset"
  /\ pc[p] \in Cleaning /\ exc[p] = "none" => committed[p]
  /\ outcome[p] = "success" => committed[p]
  /\ pc[p] \in {"start"} \cup Publishing => exc[p] = "none"
  /\ committed[p] => exc[p] # "OutputError"
  /\ pc[p] = "start" => ~pending[p]
  /\ early[p] => pending[p]
  /\ p \in Honors =>
       /\ early[p] => ~committed[p]
       /\ pc[p] = "done" /\ pending[p] => outcome[p] = "KeyboardInterrupt"

\* The cleanup has the descriptor it compares inodes with, and past each of its
\* two removals a name of the process is committed or could not be removed.
Left(p) ==
  /\ pc[p] \in {"start", "restore", "done", "killed"} => fds[p] = {}
  /\ tempname[p] # NoName /\ pc[p] \in Running \ {"restore"} => "temporary" \in fds[p]
  /\ \A d \in Dirs, n \in Names : dir[d][n] = p =>
       /\ tempname[p] # NoName
       /\ n \notin residual[p] =>
            /\ pc[p] \in (Cleaning \ {"unfinal", "rmfinal"}) \cup {"done"} /\ n = Final
                 => committed[p]
            /\ pc[p] \in {"close", "restore", "done"} => n = Final

\* The inductive invariant, with what a process leaves behind and reports.
OutcomeInv ==
  /\ IInv
  /\ \A p \in Proc : Told(p)
  /\ \A p \in Proc : Left(p)
=============================================================================
