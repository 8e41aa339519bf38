------------------------------ MODULE Publisher ------------------------------
(***************************************************************************)
(* Publication of a report by write_new_report (reporting.py): several     *)
(* erpsec processes publish to the same file name, one system call per     *)
(* action, while the environment delivers SIGINT, fails system calls,      *)
(* kills processes, cuts the power, moves the parent directory and lets    *)
(* other programs create files.  A process creates at most one inode, so   *)
(* the inode of process p is named p: a directory entry bound to p is a    *)
(* hard link to the report p is writing.                                   *)
(***************************************************************************)
EXTENDS Naturals

CONSTANTS
  Proc,         \* the erpsec processes
  Honors,       \* those that start with SIGINT unblocked and Python's handler
  Dirs,         \* directories the parent path may lead to
  Shared,       \* those writable by group or others and not sticky
  NoDir,        \* the parent path leads nowhere
  Final,        \* the requested report name
  TempNames,    \* names secrets.token_hex can draw
  NoName,       \* no temporary name is owned
  Absent,       \* no entry
  Foreign,      \* an entry made by another program
  Size,         \* length of the report, in blocks one write can split it into
  MaxAttempts,  \* _TEMPORARY_NAME_ATTEMPTS
  Faults        \* which faults the environment causes

ASSUME FaultsAssumption ==
  Faults \subseteq {"signal", "oserror", "kill", "power", "move", "foreign"}
ASSUME NamesAssumption ==
  /\ Final \notin TempNames
  /\ NoName \notin TempNames \cup {Final}
ASSUME EntriesAssumption ==
  /\ Absent \notin Proc
  /\ Foreign \notin Proc
  /\ Absent # Foreign
ASSUME DirsAssumption == NoDir \notin Dirs /\ Shared \subseteq Dirs
ASSUME BoundsAssumption == Size \in Nat \ {0} /\ MaxAttempts \in Nat \ {0}

VARIABLES
  pc,         \* the step each process is about to take
  exc,        \* the exception unwinding through write_new_report
  outcome,    \* what write_new_report returned or raised
  parent,     \* the directory opened as the parent (parent_stat)
  fds,        \* descriptors the process holds open
  tempname,   \* temporary.name
  attempts,   \* temporary names tried
  linkexc,    \* link_exception
  committed,  \* state.committed
  residual,   \* names whose best-effort removal failed
  length,     \* blocks written to the inode of a process
  private,    \* the inode's mode is exactly 0600
  synced,     \* the inode was fsynced
  dir,        \* entries of every directory
  parentAt,   \* where the requested parent path leads
  pending,    \* SIGINT is pending
  early,      \* SIGINT arrived before the last safe point
  powered     \* the machine has not lost power

control == <<pc, exc, outcome>>
owned   == <<parent, fds, tempname, attempts>>
state   == <<linkexc, committed, residual>>
file    == <<length, private, synced>>
signals == <<pending, early>>
world   == <<parentAt, powered>>
vars    == <<control, owned, state, file, dir, signals, world>>

Names   == TempNames \cup {Final}
Entries == Proc \cup {Absent, Foreign}

\* Steps in program order, up to the commit ...
Publishing == {"open", "check", "probe", "create", "chmod", "write", "fsync",
               "stat", "link", "confirm", "verify", "reparent", "commit"}
\* ... and those of the finally clauses.
Cleaning == {"unfinal", "rmfinal", "untemp", "rmtemp", "close", "restore"}
Running  == Publishing \cup Cleaning
Steps    == {"start", "done", "killed"} \cup Running

TypeOK ==
  /\ pc \in [Proc -> Steps]
  /\ exc \in [Proc -> {"none", "OutputError", "KeyboardInterrupt", "other"}]
  /\ outcome \in [Proc -> {"unset", "success", "OutputError",
                           "KeyboardInterrupt", "other"}]
  /\ parent \in [Proc -> Dirs \cup {NoDir}]
  /\ fds \in [Proc -> SUBSET {"parent", "temporary"}]
  /\ tempname \in [Proc -> TempNames \cup {NoName}]
  /\ attempts \in [Proc -> 0..MaxAttempts]
  /\ linkexc \in [Proc -> {"none", "OSError", "other"}]
  /\ committed \in [Proc -> BOOLEAN]
  /\ residual \in [Proc -> SUBSET Names]
  /\ length \in [Proc -> 0..Size]
  /\ private \in [Proc -> BOOLEAN]
  /\ synced \in [Proc -> BOOLEAN]
  /\ dir \in [Dirs -> [Names -> Entries]]
  /\ parentAt \in Dirs \cup {NoDir}
  /\ pending \in [Proc -> BOOLEAN]
  /\ early \in [Proc -> BOOLEAN]
  /\ powered \in BOOLEAN

Init ==
  /\ pc = [p \in Proc |-> "start"]
  /\ exc = [p \in Proc |-> "none"]
  /\ outcome = [p \in Proc |-> "unset"]
  /\ parent = [p \in Proc |-> NoDir]
  /\ fds = [p \in Proc |-> {}]
  /\ tempname = [p \in Proc |-> NoName]
  /\ attempts = [p \in Proc |-> 0]
  /\ linkexc = [p \in Proc |-> "none"]
  /\ committed = [p \in Proc |-> FALSE]
  /\ residual = [p \in Proc |-> {}]
  /\ length = [p \in Proc |-> 0]
  /\ private = [p \in Proc |-> FALSE]
  /\ synced = [p \in Proc |-> FALSE]
  /\ dir = [d \in Dirs |-> [n \in Names |-> Absent]]
  /\ parentAt \in Dirs
  /\ pending = [p \in Proc |-> FALSE]
  /\ early = [p \in Proc |-> FALSE]
  /\ powered = TRUE

-----------------------------------------------------------------------------
(* Control: falling through to the next step, and unwinding.               *)

At(p, step) == pc[p] = step

Goto(p, step) ==
  /\ pc' = [pc EXCEPT ![p] = step]
  /\ UNCHANGED <<exc, outcome>>

Raise(p, e) ==
  /\ pc' = [pc EXCEPT ![p] = "unfinal"]
  /\ exc' = [exc EXCEPT ![p] = e]
  /\ UNCHANGED outcome

\* Faulty variant: a pending SIGINT is overlooked.
SafePointIgnored(p) == TRUE

\* _raise_if_sigint_pending: the safe point lets the process go on.
SafePoint(p) == ~(pending[p] /\ p \in Honors)

Entry(p, n) == dir[parent[p]][n]

Bind(p, n, e) == dir' = [dir EXCEPT ![parent[p]][n] = e]

\* _same_private_regular_file on the open inode and the entry n.
MatchesPrivateFile(p, n) == Entry(p, n) = p /\ private[p]

\* _remove_if_open_file compares inodes only.
MatchesOpenFile(p, n) == Entry(p, n) = p

\* Faulty variant: any directory mode is accepted.
ParentModeAccepted(p) == TRUE

\* Group or world write access without the sticky bit is refused.
ParentModeSafe(p) == parent[p] \notin Shared

-----------------------------------------------------------------------------
(* _publish_new_report, stage "write".                                     *)

\* Invalid content, name or path: nothing was acquired yet.
Reject(p) ==
  /\ At(p, "start")
  /\ pc' = [pc EXCEPT ![p] = "done"]
  /\ outcome' = [outcome EXCEPT ![p] = "OutputError"]
  /\ UNCHANGED <<exc, owned, state, file, dir, signals, world>>

\* _block_sigint.
Begin(p) ==
  /\ At(p, "start")
  /\ Goto(p, "open")
  /\ UNCHANGED <<owned, state, file, dir, signals, world>>

\* A system call of the current step fails before it has an effect; the steps
\* that begin with a safe point get to it only past that point.
SystemCallFails(p) ==
  /\ "oserror" \in Faults
  /\ pc[p] \in {"open", "check", "probe", "create", "chmod", "write", "fsync",
                "stat", "verify"}
  /\ pc[p] \in {"check", "chmod", "stat"} => SafePoint(p)
  /\ Raise(p, "OutputError")
  /\ UNCHANGED <<owned, state, file, dir, signals, world>>

OpenParent(p) ==
  /\ At(p, "open")
  /\ IF parentAt = NoDir
       THEN Raise(p, "OutputError") /\ UNCHANGED owned
       ELSE /\ Goto(p, "check")
            /\ parent' = [parent EXCEPT ![p] = parentAt]
            /\ fds' = [fds EXCEPT ![p] = {"parent"}]
            /\ UNCHANGED <<tempname, attempts>>
  /\ UNCHANGED <<state, file, dir, signals, world>>

CheckParent(p) ==
  /\ At(p, "check")
  /\ CASE ~SafePoint(p)      -> Raise(p, "KeyboardInterrupt")
       [] SafePoint(p) /\ ~ParentModeSafe(p) -> Raise(p, "OutputError")
       [] OTHER              -> Goto(p, "probe")
  /\ UNCHANGED <<owned, state, file, dir, signals, world>>

ProbeFinal(p) ==
  /\ At(p, "probe")
  /\ IF Entry(p, Final) = Absent
       THEN Goto(p, "create")
       ELSE Raise(p, "OutputError")
  /\ UNCHANGED <<owned, state, file, dir, signals, world>>

\* Faulty variant: collisions are not counted.
CreateUncounted(p) ==
  /\ At(p, "create")
  /\ \E n \in TempNames, exact \in BOOLEAN :
       IF Entry(p, n) = Absent
         THEN /\ Goto(p, "chmod")
              /\ Bind(p, n, p)
              /\ tempname' = [tempname EXCEPT ![p] = n]
              /\ fds' = [fds EXCEPT ![p] = @ \cup {"temporary"}]
              /\ private' = [private EXCEPT ![p] = exact]
         ELSE UNCHANGED <<control, dir, tempname, fds, private>>
  /\ UNCHANGED <<parent, attempts, length, synced, state, signals, world>>

\* One turn of the loop of _create_private_temporary_file: O_EXCL makes a new
\* empty file, or the name is taken and the next turn draws another.
CreateTemporary(p) ==
  /\ At(p, "create")
  /\ attempts[p] < MaxAttempts
  /\ \E n \in TempNames, exact \in BOOLEAN :
       IF Entry(p, n) = Absent
         THEN /\ Goto(p, "chmod")
              /\ Bind(p, n, p)
              /\ tempname' = [tempname EXCEPT ![p] = n]
              /\ fds' = [fds EXCEPT ![p] = @ \cup {"temporary"}]
              /\ private' = [private EXCEPT ![p] = exact]
         ELSE UNCHANGED <<control, dir, tempname, fds, private>>
  /\ attempts' = [attempts EXCEPT ![p] = @ + 1]
  /\ UNCHANGED <<parent, length, synced, state, signals, world>>

CreateExhausted(p) ==
  /\ At(p, "create")
  /\ attempts[p] = MaxAttempts
  /\ Raise(p, "OutputError")
  /\ UNCHANGED <<owned, state, file, dir, signals, world>>

ForceMode(p) ==
  /\ At(p, "chmod")
  /\ IF SafePoint(p)
       THEN Goto(p, "write") /\ private' = [private EXCEPT ![p] = TRUE]
       ELSE Raise(p, "KeyboardInterrupt") /\ UNCHANGED private
  /\ UNCHANGED <<owned, length, synced, state, dir, signals, world>>

\* Faulty variant: a short write is taken for the whole report.
WriteOnce(p) ==
  /\ At(p, "write")
  /\ \E k \in 1..Size - length[p] :
       length' = [length EXCEPT ![p] = @ + k]
  /\ Goto(p, "fsync")
  /\ UNCHANGED <<owned, private, synced, state, dir, signals, world>>

\* One os.write of _write_temporary_report: it writes at least a block, and the
\* loop goes on until the whole report is written.
Write(p) ==
  /\ At(p, "write")
  /\ \E k \in 1..Size - length[p] :
       /\ length' = [length EXCEPT ![p] = @ + k]
       /\ Goto(p, IF length[p] + k = Size THEN "fsync" ELSE "write")
  /\ UNCHANGED <<owned, private, synced, state, dir, signals, world>>

Sync(p) ==
  /\ At(p, "fsync")
  /\ Goto(p, "stat")
  /\ synced' = [synced EXCEPT ![p] = TRUE]
  /\ UNCHANGED <<owned, length, private, state, dir, signals, world>>

StatTemporary(p) ==
  /\ At(p, "stat")
  /\ CASE ~SafePoint(p)                         -> Raise(p, "KeyboardInterrupt")
       [] SafePoint(p) /\ ~MatchesPrivateFile(p, tempname[p])
                                                -> Raise(p, "OutputError")
       [] OTHER                                 -> Goto(p, "link")
  /\ UNCHANGED <<owned, state, file, dir, signals, world>>

-----------------------------------------------------------------------------
(* Stages "link" and "verify".                                             *)

\* Faulty variant: the report replaces what has the name, as os.replace does.
Overwrite(p) ==
  /\ At(p, "link")
  /\ SafePoint(p)
  /\ Bind(p, Final, Entry(p, tempname[p]))
  /\ Goto(p, "verify")
  /\ UNCHANGED <<owned, state, file, signals, world>>

\* os.link binds the final name exclusively to what the temporary name is.
Link(p) ==
  /\ At(p, "link")
  /\ SafePoint(p)
  /\ Entry(p, Final) = Absent
  /\ Entry(p, tempname[p]) # Absent
  /\ Bind(p, Final, Entry(p, tempname[p]))
  /\ Goto(p, "verify")
  /\ UNCHANGED <<owned, state, file, signals, world>>

LinkInterrupted(p) ==
  /\ At(p, "link")
  /\ ~SafePoint(p)
  /\ Raise(p, "KeyboardInterrupt")
  /\ UNCHANGED <<owned, state, file, dir, signals, world>>

\* os.link raises: because a name is taken or missing, or by a fault, in which
\* case the link may have been made all the same.
LinkRaises(p) ==
  /\ At(p, "link")
  /\ SafePoint(p)
  /\ \/ /\ Entry(p, Final) # Absent \/ Entry(p, tempname[p]) = Absent
        /\ linkexc' = [linkexc EXCEPT ![p] = "OSError"]
        /\ UNCHANGED dir
     \/ /\ "oserror" \in Faults
        /\ \E e \in {"OSError", "other"} : linkexc' = [linkexc EXCEPT ![p] = e]
        /\ \/ UNCHANGED dir
           \/ /\ Entry(p, Final) = Absent
              /\ Entry(p, tempname[p]) # Absent
              /\ Bind(p, Final, Entry(p, tempname[p]))
  /\ Goto(p, "confirm")
  /\ UNCHANGED <<owned, committed, residual, file, signals, world>>

\* The final name is ours after all, or the exception goes on; a stat that
\* fails counts as no match.
ConfirmLink(p) ==
  /\ At(p, "confirm")
  /\ \/ MatchesPrivateFile(p, Final) /\ Goto(p, "verify")
     \/ /\ ~MatchesPrivateFile(p, Final) \/ "oserror" \in Faults
        /\ Raise(p, IF linkexc[p] = "other" THEN "other" ELSE "OutputError")
  /\ UNCHANGED <<owned, state, file, dir, signals, world>>

VerifyFinal(p) ==
  /\ At(p, "verify")
  /\ IF MatchesPrivateFile(p, Final)
       THEN Goto(p, "reparent")
       ELSE Raise(p, "OutputError")
  /\ UNCHANGED <<owned, state, file, dir, signals, world>>

\* Faulty variant: the parent path is not looked at again.
ParentAssumed(p) == TRUE

\* _directory_path_matches; a failing resolve or stat counts as a mismatch.
ParentUnmoved(p) == parentAt = parent[p]

VerifyParent(p) ==
  /\ At(p, "reparent")
  /\ \/ ParentUnmoved(p) /\ Goto(p, "commit")
     \/ /\ ~ParentUnmoved(p) \/ "oserror" \in Faults
        /\ Raise(p, "OutputError")
  /\ UNCHANGED <<owned, state, file, dir, signals, world>>

\* The last safe point, then state.committed = True; an exception of os.link
\* that is no OSError is raised only now.
Commit(p) ==
  /\ At(p, "commit")
  /\ IF SafePoint(p)
       THEN /\ committed' = [committed EXCEPT ![p] = TRUE]
            /\ IF linkexc[p] = "other" THEN Raise(p, "other") ELSE Goto(p, "unfinal")
       ELSE Raise(p, "KeyboardInterrupt") /\ UNCHANGED committed
  /\ UNCHANGED <<owned, linkexc, residual, file, dir, signals, world>>

-----------------------------------------------------------------------------
(* _cleanup_publication and the outer finally.                             *)

\* Faulty variant: whatever has the requested name is removed.
RemovesAnyFinal(p) ==
  "parent" \in fds[p] /\ Entry(p, Final) # Absent

\* Faulty variant: the committed flag is not consulted.
RemovesCommitted(p) ==
  "temporary" \in fds[p] /\ MatchesPrivateFile(p, Final)

\* Faulty variant: the final name is never cleaned up.
FinalForgotten(p) == FALSE

\* The final name is removed only before the commit and only if it is ours.
RemovesFinal(p) ==
  ~committed[p] /\ "temporary" \in fds[p] /\ MatchesPrivateFile(p, Final)

CheckFinal(p) ==
  /\ At(p, "unfinal")
  /\ \/ /\ Goto(p, IF RemovesFinal(p) THEN "rmfinal" ELSE "untemp")
        /\ UNCHANGED residual
     \/ /\ RemovesFinal(p) /\ "oserror" \in Faults
        /\ Goto(p, "untemp")
        /\ residual' = [residual EXCEPT ![p] = @ \cup {Final}]
  /\ UNCHANGED <<owned, linkexc, committed, file, dir, signals, world>>

\* _remove_file: unlinks by name whatever is there now, or fails twice.
RemoveFinal(p) ==
  /\ At(p, "rmfinal")
  /\ \/ Bind(p, Final, Absent) /\ UNCHANGED residual
     \/ /\ "oserror" \in Faults
        /\ residual' = [residual EXCEPT ![p] = @ \cup {Final}]
        /\ UNCHANGED dir
  /\ Goto(p, "untemp")
  /\ UNCHANGED <<owned, linkexc, committed, file, signals, world>>

RemovesTemporary(p) ==
  tempname[p] # NoName /\ MatchesOpenFile(p, tempname[p])

CheckTemporary(p) ==
  /\ At(p, "untemp")
  /\ \/ /\ Goto(p, IF RemovesTemporary(p) THEN "rmtemp" ELSE "close")
        /\ UNCHANGED residual
     \/ /\ RemovesTemporary(p) /\ "oserror" \in Faults
        /\ Goto(p, "close")
        /\ residual' = [residual EXCEPT ![p] = @ \cup {tempname[p]}]
  /\ UNCHANGED <<owned, linkexc, committed, file, dir, signals, world>>

RemoveTemporary(p) ==
  /\ At(p, "rmtemp")
  /\ \/ Bind(p, tempname[p], Absent) /\ UNCHANGED residual
     \/ /\ "oserror" \in Faults
        /\ residual' = [residual EXCEPT ![p] = @ \cup {tempname[p]}]
        /\ UNCHANGED dir
  /\ Goto(p, "close")
  /\ UNCHANGED <<owned, linkexc, committed, file, signals, world>>

\* os.close releases the descriptor whether or not it reports an error.
Close(p) ==
  /\ At(p, "close")
  /\ Goto(p, "restore")
  /\ fds' = [fds EXCEPT ![p] = {}]
  /\ UNCHANGED <<parent, tempname, attempts, state, file, dir, signals, world>>

\* Restoring the mask delivers a pending SIGINT, which replaces every outcome.
RestoredOutcome(p) ==
  IF pending[p] /\ p \in Honors THEN "KeyboardInterrupt" ELSE exc[p]

Restore(p) ==
  /\ At(p, "restore")
  /\ pc' = [pc EXCEPT ![p] = "done"]
  /\ outcome' = [outcome EXCEPT ![p] =
                   IF RestoredOutcome(p) = "none" THEN "success"
                   ELSE RestoredOutcome(p)]
  /\ UNCHANGED <<exc, owned, state, file, dir, signals, world>>

-----------------------------------------------------------------------------
(* The environment.                                                        *)

\* Repeated standard signals coalesce.
Signal(p) ==
  /\ "signal" \in Faults
  /\ pc[p] \in Running
  /\ ~pending[p]
  /\ pending' = [pending EXCEPT ![p] = TRUE]
  /\ early' = [early EXCEPT ![p] = pc[p] \in Publishing]
  /\ UNCHANGED <<control, owned, state, file, dir, world>>

\* SIGKILL: the kernel closes the descriptors, every name stays.
Kill(p) ==
  /\ "kill" \in Faults
  /\ pc[p] \in Running
  /\ pc' = [pc EXCEPT ![p] = "killed"]
  /\ fds' = [fds EXCEPT ![p] = {}]
  /\ UNCHANGED <<exc, outcome, parent, tempname, attempts, state, file, dir,
                 signals, world>>

\* Power is lost: data that was not fsynced may be gone, and, as the code never
\* fsyncs a directory, so may any entry the processes made.
PowerLoss ==
  /\ "power" \in Faults
  /\ powered
  /\ powered' = FALSE
  /\ pc' = [p \in Proc |-> IF pc[p] = "done" THEN "done" ELSE "killed"]
  /\ fds' = [p \in Proc |-> {}]
  /\ \E kept \in [Proc -> 0..Size] :
       /\ \A p \in Proc : kept[p] <= length[p] /\ (synced[p] => kept[p] = length[p])
       /\ length' = kept
  /\ \E lost \in SUBSET (Dirs \X Names) :
       dir' = [d \in Dirs |-> [n \in Names |->
                 IF <<d, n>> \in lost /\ dir[d][n] \in Proc THEN Absent ELSE dir[d][n]]]
  /\ UNCHANGED <<exc, outcome, parent, tempname, attempts, state, private, synced,
                 signals, parentAt>>

\* The requested parent path is renamed away or leads somewhere else.
MoveParent ==
  /\ "move" \in Faults
  /\ \E d \in Dirs \cup {NoDir} : d # parentAt /\ parentAt' = d
  /\ UNCHANGED <<control, owned, state, file, dir, signals, powered>>

\* Other programs create and remove their own entries anywhere ...
ForeignCreate(d, n) ==
  /\ "foreign" \in Faults
  /\ dir[d][n] = Absent
  /\ dir' = [dir EXCEPT ![d][n] = Foreign]
  /\ UNCHANGED <<control, owned, state, file, signals, world>>

ForeignRemove(d, n) ==
  /\ "foreign" \in Faults
  /\ dir[d][n] = Foreign
  /\ dir' = [dir EXCEPT ![d][n] = Absent]
  /\ UNCHANGED <<control, owned, state, file, signals, world>>

\* ... and, in a directory that is writable by others and not sticky, rename,
\* replace or remove anybody's.
ForeignRename(d, m, n) ==
  /\ "foreign" \in Faults
  /\ d \in Shared
  /\ m # n
  /\ dir[d][m] # Absent
  /\ dir' = [dir EXCEPT ![d][n] = dir[d][m], ![d][m] = Absent]
  /\ UNCHANGED <<control, owned, state, file, signals, world>>

-----------------------------------------------------------------------------

Publish(p) ==
  \/ Reject(p) \/ Begin(p) \/ SystemCallFails(p)
  \/ OpenParent(p) \/ CheckParent(p) \/ ProbeFinal(p)
  \/ CreateTemporary(p) \/ CreateExhausted(p) \/ ForceMode(p)
  \/ Write(p) \/ Sync(p) \/ StatTemporary(p)
  \/ Link(p) \/ LinkInterrupted(p) \/ LinkRaises(p) \/ ConfirmLink(p)
  \/ VerifyFinal(p) \/ VerifyParent(p) \/ Commit(p)

CleanUp(p) ==
  \/ CheckFinal(p) \/ RemoveFinal(p) \/ CheckTemporary(p) \/ RemoveTemporary(p)
  \/ Close(p) \/ Restore(p)

Environment ==
  \/ \E p \in Proc : Signal(p) \/ Kill(p)
  \/ PowerLoss
  \/ MoveParent
  \/ \E d \in Dirs, n \in Names : ForeignCreate(d, n) \/ ForeignRemove(d, n)
  \/ \E d \in Dirs, m, n \in Names : ForeignRename(d, m, n)

Next ==
  \/ \E p \in Proc : Publish(p) \/ CleanUp(p)
  \/ Environment

Spec == Init /\ [][Next]_vars

\* A process that started and is not killed is scheduled until it returns.
Fairness == \A p \in Proc : WF_vars(pc[p] \in Running /\ (Publish(p) \/ CleanUp(p)))

FairSpec == Spec /\ Fairness

-----------------------------------------------------------------------------
(* What publication promises.                                              *)

\* Whatever fails and whenever it does, a report that can be read under the
\* requested name is the whole report, with mode 0600 and on disk: links are made
\* only after _write_temporary_report, the fchmod and the fsync.  Nor is a byte of
\* a report ever in a file whose mode is not exactly 0600, also in a temporary name
\* a killed process leaves behind.
CompleteReport ==
  \A p \in Proc :
    /\ \A d \in Dirs : dir[d][Final] = p => length[p] = Size /\ private[p] /\ synced[p]
    /\ length[p] > 0 => private[p]

\* A process that passed the commit point has its report under the requested
\* name of the directory it opened, and it stays there.
CommittedStays ==
  \A p \in Proc : powered /\ committed[p] => dir[parent[p]][Final] = p

\* Of the processes that publish the same name in one directory at most one
\* reports success.
OneWinner ==
  \A p, q \in Proc :
    p # q /\ outcome[p] = "success" /\ outcome[q] = "success" => parent[p] # parent[q]

\* A process that failed before the commit point leaves no name behind that the
\* system let it remove, and whatever happened no descriptor.
FailureLeavesNothing ==
  \A p \in Proc : pc[p] = "done" =>
    /\ fds[p] = {}
    /\ \A d \in Dirs, n \in Names :
         dir[d][n] = p /\ n \notin residual[p] => committed[p] /\ n = Final

\* SIGINT is never lost: whatever else happens, a process that honors it ends with
\* KeyboardInterrupt, and rolls back if it arrived before the last safe point.
SignalHonored ==
  \A p \in Proc \cap Honors :
    /\ pc[p] = "done" /\ pending[p] => outcome[p] = "KeyboardInterrupt"
    /\ early[p] => ~committed[p]

\* A step never changes an entry of another process or program: only the
\* process an entry is bound to removes it, and only by a step of its own.
OnlyOwnEntriesChange ==
  [][powered' => \A d \in Dirs, n \in Names :
       dir[d][n] \in Proc /\ dir'[d][n] # dir[d][n] => pc'[dir[d][n]] # pc[dir[d][n]]]_vars

\* When the last check passes, both facts the two verification steps looked at
\* one after the other hold together: the requested path leads to the directory
\* that holds this very report.
CommitsWhatThePathShows ==
  [][\A p \in Proc : pc[p] # "commit" /\ pc'[p] = "commit" =>
       parentAt \in Dirs /\ dir[parentAt][Final] = p]_vars

\* Every process that starts to publish comes to an end.
Terminates == \A p \in Proc : pc[p] = "open" ~> pc[p] \in {"done", "killed"}

=============================================================================
