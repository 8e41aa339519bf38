SPECIFICATION Spec
CONSTANTS
  whl = whl
  tgz = tgz
  sbom = sbom
  bad = bad
  t1 = t1
  t2 = t2
  r1 = r1
  r2 = r2
  Runs = {r1, r2}
  SortedNames <- MCSortedNames
  TemporaryName <- MCTemporaryName
  UnsafeNames = {bad}
  Sums = Sums
  ExpectedWheel = whl
  WheelNames = {whl}
  SdistNames = {tgz}
  Archives <- MCArchives
  Absent = Absent
  Symlink = Symlink
  Directory = Directory
  Plain = Plain
  PrivateParts = {"build"}
  Brought <- MCBrought
  Situations <- MCSituations
  MaxArchiveBytes = 4
  MaxMemberBytes = 2
  MaxTotalMemberBytes = 4
  MaxMetadataBytes = 1
  MaxMembers = 3
  MaxChanges = 2
CHECK_DEADLOCK FALSE
INVARIANTS ResultsExact
