---------------------------- MODULE SourceReader ----------------------------
(***************************************************************************)
(* parse_source (adapters.py): one evidence file is opened through an       *)
(* anchored parent descriptor, vetted, read block by block and vetted       *)
(* again, one system call per action, while other programs write to the     *)
(* file, bind its name to something else or move its directory, system      *)
(* calls fail and SIGINT arrives.  Every change of a file, its link count   *)
(* included, gives it a new stamp: st_size, st_mtime_ns and st_ctime_ns     *)
(* stand for one value that never comes back.                               *)
(***************************************************************************)
EXTENDS Naturals, Sequences

CONSTANTS
  Files,        \* regular files
  Specials,     \* symbolic links, directories, FIFOs and devices
  Links,        \* those of them that O_NOFOLLOW refuses to open
  Nobody,       \* the name is bound to nothing
  Blocks,       \* units of content one read returns
  Broken,       \* those no parser accepts
  Contents,     \* what files hold at first
  Limit,        \* max_source_bytes, in blocks
  MaxChanges,   \* bound on the changes other programs make
  Faults        \* which faults the environment causes

ASSUME FilesAssumption ==
  /\ Files \cap Specials = {}
  /\ Links \subseteq Specials
  /\ Nobody \notin Files \cup Specials
ASSUME ContentsAssumption == Broken \subseteq Blocks /\ Contents \subseteq Seq(Blocks)
ASSUME LimitAssumption == Limit \in Nat \ {0} /\ MaxChanges \in Nat
ASSUME ReaderFaultsAssumption == Faults \subseteq {"signal", "oserror"}

VARIABLES
  pc,            \* the step the reader is about to take
  exc,           \* the exception unwinding through parse_source
  outcome,       \* what parse_source returned or raised
  format,        \* what the file name asks for
  honor_sigint,  \* SIGINT was unblocked with Python's handler at the start
  fds,           \* descriptors held open
  source,        \* the file behind the source descriptor
  initial,       \* initial_stat
  opened,        \* opened_stat, the baseline
  same,          \* the final stats compared so far equal the baseline
  got,           \* bytes read
  content,       \* what every file holds
  stamp,         \* the stamp of every file
  entry,         \* what the name is bound to in the opened directory
  moved,         \* the parent path does not lead to that directory
  changes,       \* changes other programs made
  pending        \* SIGINT is pending

control == <<pc, exc, outcome>>
input   == <<format, honor_sigint>>
reading == <<fds, source, initial, opened, same, got>>
files   == <<content, stamp, entry, moved, changes>>
vars    == <<control, input, reading, files, pending>>

Objects == Files \cup Specials
NoStat  == <<Nobody, 0>>
Stats   == (Objects \cup {Nobody}) \X Nat

Reading == {"start", "probe", "open", "vet", "rebase", "read", "first", "path",
            "second", "reparent"}
Closing == {"close", "restore"}

TypeOK ==
  /\ pc \in Reading \cup Closing \cup {"done"}
  /\ exc \in {"none", "invalid", "changed", "unreadable", "KeyboardInterrupt"}
  /\ outcome \in {"unset", "accepted", "invalid", "changed", "unreadable",
                  "KeyboardInterrupt"}
  /\ format \in {"json", "lines", "unsupported", "unsafe"}
  /\ honor_sigint \in BOOLEAN
  /\ fds \subseteq {"parent", "source"}
  /\ source \in Objects \cup {Nobody}
  /\ initial \in Stats
  /\ opened \in Stats
  /\ same \in BOOLEAN
  /\ got \in Seq(Blocks)
  /\ content \in [Files -> Seq(Blocks)]
  /\ stamp \in [Objects -> Nat]
  /\ entry \in Objects \cup {Nobody}
  /\ moved \in BOOLEAN
  /\ changes \in 0..MaxChanges
  /\ pending \in BOOLEAN

Init ==
  /\ pc = "start"
  /\ exc = "none"
  /\ outcome = "unset"
  /\ format \in {"json", "lines", "unsupported", "unsafe"}
  /\ honor_sigint \in BOOLEAN
  /\ fds = {}
  /\ source = Nobody
  /\ initial = NoStat
  /\ opened = NoStat
  /\ same = TRUE
  /\ got = <<>>
  /\ content \in [Files -> Contents]
  /\ stamp = [o \in Objects |-> 0]
  /\ entry \in Objects \cup {Nobody}
  /\ moved \in BOOLEAN
  /\ changes = 0
  /\ pending = FALSE

-----------------------------------------------------------------------------
(* Control: falling through to the next step, and unwinding.               *)

Goto(step) ==
  /\ pc' = step
  /\ UNCHANGED <<exc, outcome>>

Raise(e) ==
  /\ pc' = "close"
  /\ exc' = e
  /\ UNCHANGED outcome

\* _raise_if_sigint_pending lets the reader go on.
SafePoint == ~(pending /\ honor_sigint)

\* Faulty variant: only the size is compared, as if nobody wrote in place.
StatBySize(o) == <<o, IF o \in Files THEN Len(content[o]) ELSE 0>>

\* What os.stat and os.fstat tell of an object.
Stat(o) == <<o, stamp[o]>>

-----------------------------------------------------------------------------
(* Opening and vetting.                                                    *)

\* A system call of the current step fails; steps that begin with a safe point
\* get to it only past that point.
SystemCallFails ==
  /\ "oserror" \in Faults
  /\ pc \in Reading
  /\ pc = "start" => format # "unsafe"
  /\ pc \in {"probe", "vet", "first"} => SafePoint
  /\ Raise(IF pc = "reparent" THEN "changed" ELSE "unreadable")
  /\ UNCHANGED <<input, reading, files, pending>>

\* Names and paths with unsupported characters are refused first.
OpenParent ==
  /\ pc = "start"
  /\ IF format = "unsafe" \/ moved
       THEN /\ Raise(IF format = "unsafe" THEN "invalid" ELSE "unreadable")
            /\ UNCHANGED fds
       ELSE Goto("probe") /\ fds' = {"parent"}
  /\ UNCHANGED <<source, initial, opened, same, got, input, files, pending>>

\* st_size of the entry exceeds the limit.
TooLarge(f) == Len(content[f]) > Limit

\* The entry has to be a regular file of supported size and suffix.
Probe ==
  /\ pc = "probe"
  /\ IF ~SafePoint
       THEN Raise("KeyboardInterrupt") /\ UNCHANGED initial
       ELSE IF entry \notin Files \/ (entry \in Files /\ TooLarge(entry))
                 \/ format = "unsupported"
              THEN Raise("invalid") /\ UNCHANGED initial
              ELSE Goto("open") /\ initial' = Stat(entry)
  /\ UNCHANGED <<fds, source, opened, same, got, input, files, pending>>

\* O_NOFOLLOW refuses a symbolic link, O_NONBLOCK lets a FIFO be opened.
OpenSource ==
  /\ pc = "open"
  /\ IF entry \in Links \cup {Nobody}
       THEN Raise("unreadable") /\ UNCHANGED <<fds, source>>
       ELSE /\ Goto("vet")
            /\ fds' = fds \cup {"source"}
            /\ source' = entry
  /\ UNCHANGED <<initial, opened, same, got, input, files, pending>>

\* Faulty variant: what was opened is taken for what was probed.
VetSkipped ==
  /\ pc = "vet"
  /\ IF SafePoint THEN Goto("rebase") ELSE Raise("KeyboardInterrupt")
  /\ UNCHANGED <<input, reading, files, pending>>

\* The opened file has to be the regular file that was probed, unchanged.
Vet ==
  /\ pc = "vet"
  /\ IF ~SafePoint
       THEN Raise("KeyboardInterrupt")
       ELSE IF source \notin Files
              THEN Raise("invalid")
              ELSE IF Stat(source) # initial THEN Raise("changed") ELSE Goto("rebase")
  /\ UNCHANGED <<input, reading, files, pending>>

\* The second fstat becomes the baseline of every later comparison.
Rebase ==
  /\ pc = "rebase"
  /\ Goto("read")
  /\ opened' = Stat(source)
  /\ UNCHANGED <<fds, source, initial, same, got, input, files, pending>>

-----------------------------------------------------------------------------
(* Reading and parsing.                                                    *)

\* Faulty variant: growth beyond the limit is noticed only at the end.
OverLimitLate(bytes) == FALSE

\* Faulty variant: an input of exactly the limit is over it.
OverLimitStrict(bytes) == Len(bytes) >= Limit

\* One block more than the limit is read at most.
OverLimit(bytes) == Len(bytes) > Limit

AtEnd == Len(got) >= Len(content[source])

Next1 == content[source][Len(got) + 1]

\* _parse_json reads everything before it looks at anything, _parse_jsonl and
\* _parse_csv look at every line when they have read it.
ReadBlock ==
  /\ pc = "read"
  /\ ~AtEnd
  /\ got' = Append(got, Next1)
  /\ IF OverLimit(got') \/ (format = "lines" /\ Next1 \in Broken)
       THEN Raise("invalid")
       ELSE Goto("read")
  /\ UNCHANGED <<fds, source, initial, opened, same, input, files, pending>>

\* Faulty variant: the reader waits for as much as the first stat announced.
EndAwaited ==
  /\ pc = "read"
  /\ AtEnd
  /\ Stat(source) = opened
  /\ IF got = <<>> \/ \E i \in 1..Len(got) : got[i] \in Broken
       THEN Raise("invalid")
       ELSE Goto("first")
  /\ UNCHANGED <<input, reading, files, pending>>

\* End of file: an empty source is malformed in every format.
EndOfFile ==
  /\ pc = "read"
  /\ AtEnd
  /\ IF got = <<>> \/ \E i \in 1..Len(got) : got[i] \in Broken
       THEN Raise("invalid")
       ELSE Goto("first")
  /\ UNCHANGED <<input, reading, files, pending>>

-----------------------------------------------------------------------------
(* Vetting what was read.                                                  *)

FirstFinalStat ==
  /\ pc = "first"
  /\ IF SafePoint
       THEN Goto("path") /\ same' = (Stat(source) = opened)
       ELSE Raise("KeyboardInterrupt") /\ UNCHANGED same
  /\ UNCHANGED <<fds, source, initial, opened, got, input, files, pending>>

FinalPathStat ==
  /\ pc = "path"
  /\ IF entry = Nobody
       THEN Raise("unreadable") /\ UNCHANGED same
       ELSE Goto("second") /\ same' = (same /\ Stat(entry) = opened)
  /\ UNCHANGED <<fds, source, initial, opened, got, input, files, pending>>

\* Faulty variant: the descriptor is not looked at again after the name.
SecondFinalStatSkipped ==
  /\ pc = "second"
  /\ IF same THEN Goto("reparent") ELSE Raise("changed")
  /\ UNCHANGED <<input, reading, files, pending>>

\* All three final stats are compared after the last one.
SecondFinalStat ==
  /\ pc = "second"
  /\ IF same /\ Stat(source) = opened THEN Goto("reparent") ELSE Raise("changed")
  /\ UNCHANGED <<input, reading, files, pending>>

\* _directory_path_matches.
VerifyParent ==
  /\ pc = "reparent"
  /\ IF moved THEN Raise("changed") ELSE Goto("close")
  /\ UNCHANGED <<input, reading, files, pending>>

\* _close_owned_descriptors releases both, whatever os.close reports.
Close ==
  /\ pc = "close"
  /\ Goto("restore")
  /\ fds' = {}
  /\ UNCHANGED <<source, initial, opened, same, got, input, files, pending>>

\* Faulty variant: restoring the mask discards the pending signal.
SignalDropped == exc

\* Restoring the mask delivers a pending SIGINT.
RestoredOutcome == IF pending /\ honor_sigint THEN "KeyboardInterrupt" ELSE exc

Restore ==
  /\ pc = "restore"
  /\ pc' = "done"
  /\ outcome' = IF RestoredOutcome = "none" THEN "accepted" ELSE RestoredOutcome
  /\ UNCHANGED <<exc, input, reading, files, pending>>

-----------------------------------------------------------------------------
(* The environment.                                                        *)

Signal ==
  /\ "signal" \in Faults
  /\ pc \in Reading \cup Closing
  /\ ~pending
  /\ pending' = TRUE
  /\ UNCHANGED <<control, input, reading, files>>

ChangeFile(f, bytes) ==
  /\ content' = [content EXCEPT ![f] = bytes]
  /\ stamp' = [stamp EXCEPT ![f] = @ + 1]
  /\ UNCHANGED <<entry, moved>>

Overwrite(f) ==
  \E i \in 1..Len(content[f]), b \in Blocks : ChangeFile(f, [content[f] EXCEPT ![i] = b])

Grow(f) == \E b \in Blocks : ChangeFile(f, Append(content[f], b))

Truncate(f) ==
  \E n \in 0..Len(content[f]) : n < Len(content[f]) /\ ChangeFile(f, SubSeq(content[f], 1, n))

\* rename, link or unlink: what loses or gets the name has a new stamp.
Rebind(o) ==
  /\ o # entry
  /\ entry' = o
  /\ stamp' = [x \in Objects |-> IF x \in {entry, o} THEN stamp[x] + 1 ELSE stamp[x]]
  /\ UNCHANGED <<content, moved>>

MoveParent ==
  /\ moved' = ~moved
  /\ UNCHANGED <<content, stamp, entry>>

OtherPrograms ==
  /\ changes < MaxChanges
  /\ pc # "done"
  /\ changes' = changes + 1
  /\ \/ \E f \in Files : Overwrite(f) \/ Grow(f) \/ Truncate(f)
     \/ \E o \in Objects \cup {Nobody} : Rebind(o)
     \/ MoveParent
  /\ UNCHANGED <<control, input, reading, pending>>

-----------------------------------------------------------------------------

Advance ==
  \/ OpenParent \/ Probe \/ OpenSource \/ Vet \/ Rebase
  \/ ReadBlock \/ EndOfFile
  \/ FirstFinalStat \/ FinalPathStat \/ SecondFinalStat \/ VerifyParent
  \/ Close \/ Restore

Parse == Advance \/ SystemCallFails

Next == Parse \/ Signal \/ OtherPrograms

Spec == Init /\ [][Next]_vars

\* The reader is one thread of a process the system schedules; no call need fail
\* for it to come to an end.
FairSpec == Spec /\ WF_vars(Advance)

-----------------------------------------------------------------------------
(* What reading promises.                                                  *)

\* When the last of the final stats passes, the name is bound to the file that
\* was read and that file holds, to the last block, exactly what was parsed,
\* whatever was written to it, and wherever its name led, in between.
ParsesWhatTheNameShows ==
  [][pc # "reparent" /\ pc' = "reparent" =>
       entry = source /\ source \in Files /\ content[source] = got]_vars

\* A file that grows while it is read costs at most one block beyond the limit,
\* and what is accepted is within it.
ReadsBounded ==
  /\ Len(got) <= Limit + 1
  /\ outcome = "accepted" => Len(got) <= Limit

\* Only a regular file that was found within the size limit is ever read.
ReadsOnlyVettedFiles == pc = "read" => source \in Files /\ source = initial[1]

\* An input that nobody touched is refused only for what it is, and said to have
\* changed only if the last system call fails after every comparison passed.
RefusalsJustified ==
  changes = 0 =>
    /\ outcome = "changed" =>
         "oserror" \in Faults /\ same /\ source \in Files /\ opened = Stat(source)
    /\ outcome = "invalid" /\ entry \in Files /\ format \in {"json", "lines"} =>
         \/ Len(content[entry]) \notin 1..Limit
         \/ \E i \in 1..Len(content[entry]) : content[entry][i] \in Broken

\* SIGINT is never swallowed: a reader that honors it does not return a result
\* after it arrived, and by then it has closed what it opened.
InterruptHonored ==
  pc = "done" => /\ pending /\ honor_sigint => outcome = "KeyboardInterrupt"
                 /\ fds = {}

\* The reader comes to an end, also when the file shrinks under it.
Terminates == <>(pc = "done")

=============================================================================
