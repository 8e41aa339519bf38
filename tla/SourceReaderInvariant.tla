------------------------ MODULE SourceReaderInvariant ------------------------
(***************************************************************************)
(* The inductive invariant behind the safety properties of SourceReader.    *)
(***************************************************************************)
EXTENDS SourceReader

\* The steps after the baseline was taken, while the source is read and vetted.
Based == {"read", "first", "path", "second", "reparent"}

\* Nothing is read before the baseline and nothing but a vetted file after it.
Vetted ==
  /\ pc \in {"start", "probe", "open", "vet", "rebase"} => got = <<>>
  /\ pc \in {"open", "vet", "rebase"} \cup Based =>
       initial[1] \in Files /\ initial[2] <= stamp[initial[1]]
  /\ pc \in {"rebase"} \cup Based => source = initial[1]
  /\ pc \in Based => opened[1] = source /\ opened[2] <= stamp[source]

\* As long as the source has the stamp of the baseline, what was read is what
\* it holds.
Faithful ==
  pc \in Based /\ stamp[source] = opened[2] =>
    /\ Len(got) <= Len(content[source])
    /\ \A i \in 1..Len(got) : got[i] = content[source][i]

\* After the end of the file was seen that is all it holds.
Ended ==
  pc \in Based \ {"read"} /\ stamp[source] = opened[2] => Len(got) = Len(content[source])

\* After the name was found bound to the unchanged source it still is, unless
\* the stamp of the source tells.
Named ==
  pc = "second" /\ same /\ stamp[source] = opened[2] => entry = source

\* What was read was accepted by the parser and not refused since.
Accepting ==
  \/ pc \in Based \ {"read"}
  \/ pc \in Closing /\ exc = "none"
  \/ outcome = "accepted"

\* Sizes, and the shape of what is accepted.
Limited ==
  /\ Len(got) <= Limit + 1
  /\ pc = "read" => Len(got) <= Limit
  /\ Accepting => Len(got) \in 1..Limit /\ \A i \in 1..Len(got) : got[i] \notin Broken

\* The exception is set on the way out only; by the end nothing is open and
\* SIGINT was honored.
Unwound ==
  /\ pc \in Reading => exc = "none"
  /\ pc = "done" <=> outcome # "unset"
  /\ outcome = "accepted" => exc = "none"
  /\ pc \in {"restore", "done"} => fds = {}
  /\ pc = "done" /\ pending /\ honor_sigint => outcome = "KeyboardInterrupt"

IInv ==
  /\ TypeOK /\ Vetted /\ Faithful /\ Ended /\ Named /\ Limited /\ Unwound

\* What refuses an input that nobody touched: a system call that fails once every
\* comparison has passed, or what the file is.
Excused(e) ==
  /\ e = "changed" =>
       "oserror" \in Faults /\ same /\ source \in Files /\ opened = Stat(source)
  /\ e = "invalid" /\ entry \in Files /\ format \in {"json", "lines"} =>
       \/ Len(content[entry]) \notin 1..Limit
       \/ \E i \in 1..Len(content[entry]) : content[entry][i] \in Broken

\* While nobody touches the input every stat tells the same.
Untouched ==
  changes = 0 =>
    /\ pc \in {"probe", "open", "vet", "rebase"} \cup Based => ~moved
    /\ pc \in {"open", "vet", "rebase"} \cup Based => entry \in Files /\ initial = Stat(entry)
    /\ pc \in {"vet", "rebase"} \cup Based => source = entry
    /\ pc \in Based => opened = Stat(source)
    /\ pc \in {"path", "second", "reparent"} => same
    /\ Excused(exc) /\ Excused(outcome)

=============================================================================
