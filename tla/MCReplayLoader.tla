-------------------------- MODULE MCReplayLoader --------------------------
(* load_replay_manifest over the file systems of MCLoaders. *)
EXTENDS ReplayLoader, MCLoaders
=============================================================================
