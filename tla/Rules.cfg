SPECIFICATION CallSpec
CONSTANTS
  Horizon = 3
  Calls <- MCAllCalls
  Privileged <- MCPrivileged
  ToxicPairs <- MCToxicPairs
  SensitiveActions <- MCSensitiveActions
  InactiveDays = 2
  EmergencyWindow = 2
  FailureThreshold = 3
  FailureWindow = 2
  ChangeWindow = 2
  BurstThreshold = 3
  BurstWindow = 1
  LongestInterval = 3
  NotATime = NotATime
  MaxReferences = 20
INVARIANTS FindingsExact OrderIrrelevant LaterTimesAgree PreflightSuffices
           NoPartialResult InactivityConclusive
