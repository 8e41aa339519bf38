SPECIFICATION Spec
CONSTANTS
  a = a
  b = b
  o = o
  f = f
  g = g
  h = h
  r1 = r1
  r2 = r2
  Runs = {r1, r2}
  Names = {a, b, o}
  Inodes = {f, g, h}
  Absent = Absent
  Contents <- MCContents
  Situations <- MCSituations
  ALL_RULE_IDS = {"ERP001", "ERP002"}
  DETECTION_RULE_IDS = {"ERP007"}
  RULE_ID = "ERP001"
  MaxChanges = 2
CHECK_DEADLOCK FALSE
INVARIANTS ExitExact ExitTells NeverItsOwnInput
