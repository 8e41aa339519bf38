SPECIFICATION FairSpec
CONSTANTS
  Files = {f, g}
  Specials = {special, symlink}
  Links = {symlink}
  Nobody = nobody
  good = good
  bad = bad
  Blocks = {good, bad}
  Broken = {bad}
  Contents <- MCContents
  Limit = 2
  MaxChanges = 2
  Faults = {"signal", "oserror"}
CHECK_DEADLOCK FALSE
INVARIANTS ReadsBounded RefusalsJustified InterruptHonored
PROPERTIES ParsesWhatTheNameShows ImplementsAtomicRead Terminates
