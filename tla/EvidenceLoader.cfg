SPECIFICATION Spec
CONSTANTS
  Paths <- MCPaths
  Inodes <- MCInodes
  NoFile = "none"
  Contents <- MCContents
  InitialFiles <- MCAllFiles
  MaxChanges = 4
  MaxSourceBytes = 2
  MaxTotalBytes = 3
  MaxSourceRecords = 2
  MaxRecords = 2
  MaxSources = 2
  Requests <- MCRequests
INVARIANTS WholeBundle AcceptsExactly
