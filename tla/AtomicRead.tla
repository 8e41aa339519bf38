----------------------------- MODULE AtomicRead -----------------------------
(***************************************************************************)
(* What parse_source (adapters.py) promises about the bytes it parses: they *)
(* are all that the named file held at one instant, although other programs *)
(* change the file and the name while they are being read.                  *)
(***************************************************************************)
EXTENDS Sequences

CONSTANTS
  Files,       \* regular files the name can be bound to
  Acceptable   \* contents a parser accepts

VARIABLES
  content,     \* what every file holds
  entry,       \* what the name is bound to
  status,      \* "idle", "held", "returned" or "failed"
  value        \* the bytes taken

Init ==
  /\ status = "idle"
  /\ value = <<>>

\* The instant at which the source is read, all of it at once.
Take ==
  /\ status = "idle"
  /\ entry \in Files
  /\ content[entry] \in Acceptable
  /\ status' = "held"
  /\ value' = content[entry]
  /\ UNCHANGED <<content, entry>>

Return ==
  /\ status = "held"
  /\ status' = "returned"
  /\ UNCHANGED <<value, content, entry>>

\* The reader may always refuse, also what it holds already.
Fail ==
  /\ status \in {"idle", "held"}
  /\ status' = "failed"
  /\ value' = <<>>
  /\ UNCHANGED <<content, entry>>

\* Other programs do as they like.
Change == UNCHANGED <<status, value>>

Next == Take \/ Return \/ Fail \/ Change

Spec == Init /\ [][Next]_<<content, entry, status, value>>

=============================================================================
