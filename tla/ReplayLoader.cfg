SPECIFICATION ReplaySpec
CONSTANTS
  Paths <- MCReplayPaths
  Inodes <- MCInodes
  NoFile = "none"
  Contents <- MCReplayUniverse
  InitialFiles <- MCAllReplays
  MaxChanges = 3
  MaxSourceBytes = 2
  MaxTotalBytes = 3
  MaxSourceRecords = 3
  MaxRecords = 3
  MaxSources = 2
  Manifests <- MCManifests
INVARIANTS PinnedBundle WholeReplay ReplaysExactly
