SPECIFICATION Spec
CONSTANTS
  Proc = {p1, p2}
  Honors = {p1}
  Dirs = {d1}
  Shared = {}
  NoDir = NoDir
  Final = Final
  TempNames = {t1}
  NoName = NoName
  Absent = Absent
  Foreign = Foreign
  Size = 2
  MaxAttempts = 1
  Faults = {"oserror", "foreign", "signal", "kill", "power"}
CHECK_DEADLOCK FALSE
INVARIANTS OneWinner FailureLeavesNothing CompleteReport SignalHonored
PROPERTIES OnlyOwnEntriesChange ImplementsAtomicPublication
