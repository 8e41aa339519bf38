SPECIFICATION SnapshotSpec
CONSTANTS
  Writers = {w1, w2}
  NoFile = NoFile
  Link = Link
  Folder = Folder
  Regular = Regular
  Nothing = Nothing
  Faults = {"oserror", "interrupt", "kill"}
  MaxMeddling = 1
  Revisions <- MCRevisions
  Tree <- MCTree
  OtherTrees <- MCOtherTrees
  Unborn = Unborn
  MaxTotalSize = 2
  MaxRecords = 2
  MaxUpdates = 2
CHECK_DEADLOCK FALSE
INVARIANTS SnapshotExact CleanWhenQuiet
PROPERTY FailuresHarmless
