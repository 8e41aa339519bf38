--------------------------- MODULE AtomicWrite ---------------------------
(***************************************************************************)
(* _atomic_write (release_artifacts.py): a document takes the place of     *)
(* what has the output's name by a rename of a finished temporary file.    *)
(* Several writers may be at it; other programs change what has the name   *)
(* and where the parent's path leads.  Every system call is an action.     *)
(***************************************************************************)
EXTENDS Naturals

CONSTANTS
  Writers,
  NoFile, Link, Folder, Regular,   \* what may have the output's name at first
  Nothing,        \* the text of a writer that has none yet
  Faults,         \* subset of {"oserror", "interrupt", "kill"}
  MaxMeddling     \* bound on the changes other programs make to names

ASSUME MeddlingIsBounded == MaxMeddling \in Nat

VARIABLES
  call,         \* the next call of every writer
  outcome,    \* what ended it: an "error" is an exit status of 2
  text,       \* content, to be written
  temp,       \* what its temporary file holds
  output,     \* what has the output's name
  there,      \* the parent's path leads to the directory it led to at first
  stuck,      \* writers whose unlink failed
  meddling

writers == <<call, outcome, text>>
names == <<temp, output, there, stuck, meddling>>

Elsewhere == {NoFile, Link, Folder, Regular}

Writing == {"parent", "symlink", "kind", "mkstemp"}

(* Faulty variant: the rename comes after the try statement. *)
ShortTry == {"chmod", "fill", "flush", "replaced"}

(* The body of the try statement. *)
InTry == {"chmod", "fill", "flush", "replace", "replaced"}

Steps == Writing \cup InTry \cup {"made", "cleanup"}

AtCall(w, step) == call[w] = step
GoOn(w, step) == call' = [call EXCEPT ![w] = step] /\ UNCHANGED <<outcome, text>>

(* An exception: caught, whatever it is, inside the try statement. *)
Raise(w, e) ==
  /\ call' = [call EXCEPT ![w] = IF call[w] \in InTry THEN "cleanup" ELSE "ended"]
  /\ outcome' = [outcome EXCEPT ![w] = e]
  /\ UNCHANGED text

WriteInit ==
  /\ outcome = [w \in Writers |-> "none"]
  /\ text = [w \in Writers |-> Nothing]
  /\ temp = [w \in Writers |-> NoFile]
  /\ output \in Elsewhere
  /\ there = TRUE /\ stuck = {} /\ meddling = 0

RequireParent(w) ==
  /\ AtCall(w, "parent")
  /\ IF there THEN GoOn(w, "symlink") ELSE Raise(w, "error")
  /\ UNCHANGED names

RefuseSymlink(w) ==
  /\ AtCall(w, "symlink")
  /\ IF there /\ output = Link THEN Raise(w, "error") ELSE GoOn(w, "kind")
  /\ UNCHANGED names

RefuseDirectory(w) ==
  /\ AtCall(w, "kind")
  /\ IF there /\ output = Folder THEN Raise(w, "error") ELSE GoOn(w, "mkstemp")
  /\ UNCHANGED names

CreateTemporary(w) ==
  /\ AtCall(w, "mkstemp")
  /\ IF there
     THEN temp' = [temp EXCEPT ![w] = "empty"] /\ GoOn(w, "made")
     ELSE Raise(w, "error") /\ UNCHANGED temp
  /\ UNCHANGED <<output, there, stuck, meddling>>

EnterTry(w) == AtCall(w, "made") /\ GoOn(w, "chmod") /\ UNCHANGED names

ChangeMode(w) == AtCall(w, "chmod") /\ GoOn(w, "fill") /\ UNCHANGED names

(* The descriptor is written to whether the temporary name is still there or not. *)
Fill(w, step, next, what) ==
  /\ AtCall(w, step)
  /\ temp' = [temp EXCEPT ![w] = IF @ = NoFile THEN @ ELSE what]
  /\ GoOn(w, next)
  /\ UNCHANGED <<output, there, stuck, meddling>>

FillTemporary(w) == Fill(w, "fill", "flush", "partial")
FlushTemporary(w) == Fill(w, "flush", "replace", text[w])

(* os.replace: over anything but a directory. *)
RenameTemporary(w) ==
  /\ AtCall(w, "replace")
  /\ IF there /\ temp[w] # NoFile /\ output # Folder
     THEN /\ output' = temp[w]
          /\ temp' = [temp EXCEPT ![w] = NoFile]
          /\ GoOn(w, "replaced")
     ELSE Raise(w, "error") /\ UNCHANGED <<temp, output>>
  /\ UNCHANGED <<there, stuck, meddling>>

WriteReturns(w) ==
  /\ AtCall(w, "replaced")
  /\ call' = [call EXCEPT ![w] = "ended"]
  /\ outcome' = [outcome EXCEPT ![w] = "written"]
  /\ UNCHANGED <<text, names>>

(* The handler: close and unlink, then the exception goes on.  A temporary file     *)
(* that the path does not lead to any more stays behind.                            *)
CleanUp(w) ==
  /\ AtCall(w, "cleanup")
  /\ GoOn(w, "ended")
  /\ \/ temp' = [temp EXCEPT ![w] = IF there THEN NoFile ELSE @] /\ UNCHANGED stuck
     \/ "oserror" \in Faults /\ stuck' = stuck \cup {w} /\ UNCHANGED temp
  /\ UNCHANGED <<output, there, meddling>>

(* Any call but the clean-up's may fail. *)
SystemCallFails(w) ==
  /\ "oserror" \in Faults /\ call[w] \notin {"cleanup", "made", "replaced", "ended"}
  /\ Raise(w, "error")
  /\ UNCHANGED names

(* SIGINT is not blocked: KeyboardInterrupt may be raised between any two calls. *)
Interrupt(w) ==
  /\ "interrupt" \in Faults /\ call[w] # "ended"
  /\ Raise(w, "interrupt")
  /\ UNCHANGED names

Kill(w) ==
  /\ "kill" \in Faults /\ call[w] # "ended"
  /\ call' = [call EXCEPT ![w] = "ended"]
  /\ outcome' = [outcome EXCEPT ![w] = "killed"]
  /\ UNCHANGED <<text, names>>

WriteStep(w) ==
  \/ RequireParent(w) \/ RefuseSymlink(w) \/ RefuseDirectory(w) \/ CreateTemporary(w)
  \/ EnterTry(w) \/ ChangeMode(w) \/ FillTemporary(w) \/ FlushTemporary(w)
  \/ RenameTemporary(w) \/ WriteReturns(w) \/ CleanUp(w)
  \/ SystemCallFails(w) \/ Interrupt(w) \/ Kill(w)

(* Other programs bind the name anew, remove temporary files or move the parent. *)
Meddle ==
  /\ meddling < MaxMeddling /\ meddling' = meddling + 1
  /\ \/ \E e \in Elsewhere \ {output} : output' = e /\ UNCHANGED <<temp, there>>
     \/ \E w \in Writers : temp[w] # NoFile /\ temp' = [temp EXCEPT ![w] = NoFile]
                             /\ UNCHANGED <<output, there>>
     \/ there' = ~there /\ UNCHANGED <<temp, output>>
  /\ UNCHANGED <<writers, stuck>>
=============================================================================
