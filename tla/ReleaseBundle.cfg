SPECIFICATION Spec
CONSTANTS
  Builders = {b1, b2}
  b1 = b1
  b2 = b2
  Artifacts <- MCArtifacts
  Manifest = "build-manifest.json"
  Output = "release"
  Parents = {p1, p2}
  Existing = Existing
  Absent = Absent
  Foreign = Foreign
  NoDir = NoDir
  FaultSets <- MCFaultSets
  MaxMeddling = 2
CHECK_DEADLOCK FALSE
INVARIANTS ExactBundle FailureLeavesNothing NoMutualDefeat
PROPERTY OnlyOwnEntriesChange
