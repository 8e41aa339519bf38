----------------------- MODULE SourceReaderRefinement -----------------------
(***************************************************************************)
(* SourceReader implements AtomicRead: the source is taken when the last of *)
(* the final stats passes; everything after that returns or drops it.       *)
(***************************************************************************)
EXTENDS SourceReader

\* What a parser makes a result of.
WellFormed ==
  {c \in Seq(Blocks) : Len(c) \in 1..Limit /\ \A i \in 1..Len(c) : c[i] \notin Broken}

\* What the steps of the reader are for its caller.
Status ==
  CASE exc # "none" \/ outcome \notin {"unset", "accepted"} -> "failed"
    [] exc = "none" /\ outcome = "accepted"                 -> "returned"
    [] exc = "none" /\ outcome = "unset" /\ pc \in {"reparent", "close", "restore"}
                                                          -> "held"
    [] OTHER                                              -> "idle"

\* The bytes matter from the moment they are taken until they are dropped.
Held == IF Status \in {"held", "returned"} THEN got ELSE <<>>

Atomic == INSTANCE AtomicRead
            WITH Acceptable <- WellFormed, status <- Status, value <- Held

\* What parse_source returns was the whole, well-formed content of the named
\* file at one instant, whatever happens while it is read.
ImplementsAtomicRead == Atomic!Spec

=============================================================================
