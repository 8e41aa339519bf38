------------------------- MODULE MCEvidenceLoader -------------------------
(* load_evidence over the file systems of MCLoaders. *)
EXTENDS EvidenceLoader, MCLoaders
=============================================================================
