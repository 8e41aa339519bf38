--------------------------- MODULE MCSourceReader ---------------------------
(* Small instances of SourceReader for TLC.                                *)
EXTENDS SourceReaderInvariant, SourceReaderRefinement

CONSTANTS good, bad

\* Empty, as long as the limit of two, too long, and malformed; other programs
\* make every other content from these.
MCContents == {<<>>, <<good, good>>, <<good, good, good>>, <<bad>>}
=============================================================================
