-------------------------- MODULE AtomicPublication --------------------------
(***************************************************************************)
(* What write_new_report promises to whoever reads the requested name: a   *)
(* report appears there in one step and only where nothing was; as long as *)
(* its process has not committed it may be withdrawn again; from the       *)
(* commit on it stays; and the process returns success only after the      *)
(* commit and OutputError only without one.                                *)
(***************************************************************************)
CONSTANTS
  Proc,     \* the publishing processes
  Dirs,     \* the directories they may publish to
  Absent,   \* nothing has the requested name
  Foreign   \* something that no process published has it

VARIABLES
  report,   \* what has the requested name in every directory
  status    \* how far every process is

vars == <<report, status>>

Init ==
  /\ report = [d \in Dirs |-> Absent]
  /\ status = [p \in Proc |-> "running"]

Appear(p, d) ==
  /\ status[p] = "running"
  /\ report[d] = Absent
  /\ \A e \in Dirs : report[e] # p
  /\ report' = [report EXCEPT ![d] = p]
  /\ UNCHANGED status

Withdraw(p, d) ==
  /\ status[p] = "running"
  /\ report[d] = p
  /\ report' = [report EXCEPT ![d] = Absent]
  /\ UNCHANGED status

Commit(p) ==
  /\ status[p] = "running"
  /\ \E d \in Dirs : report[d] = p
  /\ status' = [status EXCEPT ![p] = "committed"]
  /\ UNCHANGED report

\* An interruption or an internal error may end a process before or after the
\* commit; the two clean outcomes tell which.
Return(p) ==
  /\ \E o \in {"success", "OutputError", "KeyboardInterrupt", "other"} :
       /\ \/ status[p] = "running" /\ o # "success"
          \/ status[p] = "committed" /\ o # "OutputError"
       /\ status' = [status EXCEPT ![p] = o]
  /\ UNCHANGED report

Kill(p) ==
  /\ status[p] \in {"running", "committed"}
  /\ status' = [status EXCEPT ![p] = "killed"]
  /\ UNCHANGED report

\* Power is lost: nothing runs any longer and reports may be gone as a whole.
Lose ==
  /\ status' = [p \in Proc |-> IF status[p] \in {"running", "committed"}
                               THEN "killed" ELSE status[p]]
  /\ \A d \in Dirs :
       report'[d] = report[d] \/ (report[d] \in Proc /\ report'[d] = Absent)
  /\ DOMAIN report' = Dirs

\* Other programs come and go where no process has published.
Other(d) ==
  /\ report[d] \in {Absent, Foreign}
  /\ \E e \in {Absent, Foreign} : report' = [report EXCEPT ![d] = e]
  /\ UNCHANGED status

Next ==
  \/ \E p \in Proc : Commit(p) \/ Return(p) \/ Kill(p)
  \/ \E p \in Proc, d \in Dirs : Appear(p, d) \/ Withdraw(p, d)
  \/ \E d \in Dirs : Other(d)
  \/ Lose

Spec == Init /\ [][Next]_vars
=============================================================================
