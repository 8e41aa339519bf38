SPECIFICATION FairSpec
CONSTANTS
  Proc = {p1, p2}
  Honors = {p1}
  Dirs = {d1, d2}
  Shared = {d2}
  NoDir = NoDir
  Final = Final
  TempNames = {t1}
  NoName = NoName
  Absent = Absent
  Foreign = Foreign
  Size = 1
  MaxAttempts = 2
  Faults = {"move", "foreign"}
CHECK_DEADLOCK FALSE
INVARIANTS CommittedStays
PROPERTIES CommitsWhatThePathShows Terminates
